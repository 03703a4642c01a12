------------------------------ MODULE Requests ------------------------------
(***************************************************************************)
(* What the frontend reads from an HTTP request: POST /v1/chat/completions *)
(* and POST /v1/responses, two adapters over one GenerateInput, and the    *)
(* form of POST /v1/audio/transcriptions.                                  *)
(*                                                                         *)
(* A request is a record of the fields the code looks at.  A field that is *)
(* absent is None; one that may be a JSON null, which counts as absent, is *)
(* None, "null" or something else.  An unreadable body never gets here.    *)
(***************************************************************************)
EXTENDS Naturals, Sequences, Protocol

Parsed(input) == [ok |-> TRUE, value |-> input]
Refused(answer) == [ok |-> FALSE, value |-> answer]

Present(field) == field \notin {None, "null"}

\* What serde makes of the fields the code computes with.
ContentOk(content) ==
  /\ content.is \in {"none", "text", "parts"}
  /\ content.is = "text" => content.value \in STRING
  /\ content.is = "parts" => content.value \in Seq([kind : STRING, text : Option(STRING)])

ChatRequestOk(r) ==
  /\ r.stream \in BOOLEAN
  /\ r.temperature \in Option(Int) /\ r.top_p \in Option(Int)
  /\ r.max_tokens \in Option(Nat) /\ r.max_completion_tokens \in Option(Nat)
  /\ r.reasoning_effort \in Option(STRING) /\ r.enable_thinking \in Option(BOOLEAN)
  /\ r.messages \in Seq({r.messages[k] : k \in DOMAIN r.messages})
  /\ \A k \in DOMAIN r.messages : ContentOk(r.messages[k].content)

ResponsesRequestOk(r) ==
  /\ r.stream \in BOOLEAN
  /\ r.temperature \in Option(Int) /\ r.top_p \in Option(Int)
  /\ r.max_output_tokens \in Option(Nat) /\ r.effort \in Option(STRING)
  /\ r.instructions \in Option(STRING)
  /\ r.input.is \in {"text", "items"}
  /\ r.input.is = "text" => r.input.value \in STRING
  /\ r.input.is = "items" =>
       IsSeq(r.input.value) /\ \A k \in DOMAIN r.input.value : ContentOk(r.input.value[k].content)

\* What is wrong with a request is what is found first: problems in order,
\* each a condition and the field that is named.
FirstProblem(problems) ==
  LET found == {k \in DOMAIN problems : problems[k].is}
  IN IF found = {} THEN None ELSE problems[CHOOSE k \in found : \A j \in found : k <= j].param
Problem(param, is) == [param |-> param, is |-> is]

\* The fields that may be named.
Params ==
  {"n", "tools", "tool_choice", "logprobs", "response_format", "messages", "input",
   "previous_response_id", "text.format"}

ASSUME NamesAssumption == None \notin Params /\ None \notin {"system", "user", "assistant"}

\* reasoning_effort, and reasoning.effort.
Effort(effort) == IF effort = None THEN None ELSE effort \notin {"none", "minimal"}

-----------------------------------------------------------------------------
(* Messages.  The items of a list are folded until the first that is       *)
(* refused.                                                                *)

TextParts == {"text", "input_text", "output_text"}

\* The content of a message: None, a text, or a list of typed parts.
PartsOf(content) ==
  CASE content.is = "none"  -> Parsed(<<>>)
    [] content.is = "text"  -> Parsed(<<Oneof("text", content.value)>>)
    [] content.is = "parts" ->
         IF \A k \in DOMAIN content.value :
              content.value[k].kind \in TextParts /\ content.value[k].text # None
           THEN Parsed([k \in DOMAIN content.value |-> Oneof("text", content.value[k].text)])
           ELSE Refused(None)

RoleOf(role) ==
  CASE role \in {"system", "developer"} -> "system"
    [] role \in {"user", "assistant"}   -> role
    [] OTHER                            -> None

\* ChatMessage::to_message.
ToMessage(role, content, param) ==
  IF RoleOf(role) = None \/ ~PartsOf(content).ok THEN Refused(InvalidRequest(param))
  ELSE Parsed([role |-> RoleOf(role), parts |-> PartsOf(content).value])

GenerateInput(messages, request, budget, reasoning) ==
  [messages |-> messages, temperature |-> request.temperature, top_p |-> request.top_p,
   max_tokens |-> budget, reasoning |-> reasoning]

-----------------------------------------------------------------------------
(* chat.rs *)

\* ChatRequest::validate.
ChatProblem(r) ==
  FirstProblem(<<
    Problem("n", r.n # None /\ r.n # 0 /\ r.n # 1),
    Problem("tools", Present(r.tools)),
    Problem("tool_choice", Present(r.tool_choice)),
    Problem("logprobs", r.logprobs = "true"),
    Problem("response_format", r.response_format \notin {None, "null", "text"}),
    Problem("messages", r.messages = <<>>)>>)

\* Mutant: the deprecated field wins.
ChatBudgetOld(r) == IF r.max_tokens # None THEN r.max_tokens ELSE r.max_completion_tokens

\* ChatRequest::budget.
ChatBudget(r) == IF r.max_completion_tokens # None THEN r.max_completion_tokens ELSE r.max_tokens

\* ChatRequest::reasoning.
ChatReasoning(r) == IF r.enable_thinking # None THEN r.enable_thinking ELSE Effort(r.reasoning_effort)

\* validate, then into_generate_input.
ChatInput(r) ==
  LET parsed == [k \in DOMAIN r.messages |->
                   ToMessage(r.messages[k].role, r.messages[k].content, "messages")]
      messages == Collect(parsed)
  IN IF ChatProblem(r) # None THEN Refused(InvalidRequest(ChatProblem(r)))
     ELSE IF ~messages.ok THEN messages
     ELSE Parsed(GenerateInput(messages.value, r, ChatBudget(r), ChatReasoning(r)))

-----------------------------------------------------------------------------
(* responses.rs *)

\* ResponsesRequest::validate.
ResponsesProblem(r) ==
  FirstProblem(<<
    Problem("previous_response_id", Present(r.previous_response_id)),
    Problem("tools", Present(r.tools)),
    Problem("tool_choice", Present(r.tool_choice)),
    Problem("text.format", r.text \notin {None, "null", "text"})>>)

\* A missing role is the user's.
ItemRole(item) == IF item.role = None THEN "user" ELSE item.role

\* InputItem::to_message: an echoed reasoning item carries no turn.
ItemMessage(item) ==
  IF item.kind \notin {None, "message"} THEN Refused(InvalidRequest("input"))
  ELSE ToMessage(ItemRole(item), item.content, "input")

Carried(items) == Selected(items, {k \in DOMAIN items : items[k].kind # "reasoning"})

\* instructions become a system message, placed first.
ResponsesMessages(r, turns) ==
  (IF r.instructions = None THEN <<>>
   ELSE <<[role |-> "system", parts |-> <<Oneof("text", r.instructions)>>]>>) \o turns

\* An input that is a text is one turn of the user's.
InputItems(r) ==
  IF r.input.is = "text" THEN <<[kind |-> None, role |-> "user", content |-> r.input]>>
                         ELSE Carried(r.input.value)

\* validate, then into_generate_input.
ResponsesInput(r) ==
  LET items == InputItems(r)
      turns == Collect([k \in DOMAIN items |-> ItemMessage(items[k])])
      messages == ResponsesMessages(r, turns.value)
  IN IF ResponsesProblem(r) # None THEN Refused(InvalidRequest(ResponsesProblem(r)))
     ELSE IF ~turns.ok THEN turns
     ELSE IF messages = <<>> THEN Refused(InvalidRequest("input"))
     ELSE Parsed(GenerateInput(messages, r, r.max_output_tokens, Effort(r.effort)))

-----------------------------------------------------------------------------
(* The same request, as a client would ask it of either endpoint.  This is *)
(* what AdaptersAgree (module Serving) is about, and no part of the code.  *)

\* A content of one text, however it is written.
SoleText(content) ==
  CASE content.is = "text" -> content.value
    [] content.is = "parts" /\ Len(content.value) = 1 /\ content.value[1].kind \in TextParts ->
         content.value[1].text
    [] OTHER -> None

SameTurn(one, other) ==
  /\ one.role = other.role \/ {one.role, other.role} \subseteq {"system", "developer"}
  /\ \/ one.content.is = other.content.is /\ one.content = other.content
     \/ SoleText(one.content) # None /\ SoleText(one.content) = SoleText(other.content)

\* The turns of a Responses request: its instructions, and its items.
TurnsOf(r) ==
  LET items == InputItems(r)
  IN (IF r.instructions = None THEN <<>>
      ELSE <<[role |-> "system", content |-> Oneof("text", r.instructions)]>>)
     \o [k \in DOMAIN items |-> [role |-> ItemRole(items[k]), content |-> items[k].content]]

\* Neither uses what only the other endpoint has, or lets the two differ in it:
\* n, logprobs, and the continuation of a stored response; chat_template_kwargs
\* say the same as an effort, and max_completion_tokens supersedes max_tokens.
Counterparts(c, r) ==
  /\ Len(c.messages) = Len(TurnsOf(r))
  /\ \A k \in DOMAIN c.messages : SameTurn(c.messages[k], TurnsOf(r)[k])
  /\ \A k \in DOMAIN InputItems(r) : InputItems(r)[k].kind \in {None, "message"}
  /\ c.temperature = r.temperature /\ c.top_p = r.top_p
  /\ r.max_output_tokens =
       IF c.max_completion_tokens = None THEN c.max_tokens ELSE c.max_completion_tokens
  /\ IF c.enable_thinking = None THEN r.effort = c.reasoning_effort
     ELSE r.effort # None /\ (c.enable_thinking <=> r.effort \notin {"none", "minimal"})
  /\ Present(c.tools) <=> Present(r.tools)
  /\ Present(c.tool_choice) <=> Present(r.tool_choice)
  /\ c.response_format \in {None, "null", "text"} <=> r.text \in {None, "null", "text"}
  /\ c.n \in {None, 0, 1} /\ c.logprobs # "true" /\ ~Present(r.previous_response_id)

-----------------------------------------------------------------------------
(* audio/mod.rs *)

Formats == {"json", "text", "verbose_json", "srt", "vtt"}

\* Fields arrive in the client's order; a repeated one counts as the last, and
\* the first that is refused ends the reading.  A field is [name, value]: the
\* value of "file" is its size, "empty", "fits" or "large".
FieldProblem(field) ==
  CASE field.name = "file" /\ field.value = "large"                          -> TooLarge
    [] field.name = "response_format" /\ field.value \notin Formats -> InvalidRequest("response_format")
    [] field.name = "stream" /\ field.value = "true"                -> InvalidRequest("stream")
    [] field.name = "malformed"                                     -> InvalidRequest(None)
    [] field.name = "body_limit"                                    -> TooLarge
    [] OTHER                                                        -> None

LastField(form, name, default) ==
  LET given == SelectSeq(form, LAMBDA f : f.name = name)
  IN IF given = <<>> THEN default ELSE given[Len(given)].value

\* audio::parse.
FormInput(form) ==
  LET problems == SelectSeq(form, LAMBDA f : FieldProblem(f) # None)
      file     == LastField(form, "file", None)
      language == LastField(form, "language", "")
  IN IF problems # <<>> THEN Refused(FieldProblem(problems[1]))
     ELSE IF LastField(form, "model", None) = None THEN Refused(InvalidRequest("model"))
     ELSE IF file \in {None, "empty"} THEN Refused(InvalidRequest("file"))
     ELSE Parsed([model    |-> LastField(form, "model", None),
                  language |-> IF language = "" THEN None ELSE language,
                  format   |-> LastField(form, "response_format", "json")])
=============================================================================
