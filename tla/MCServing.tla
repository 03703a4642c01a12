------------------------------ MODULE MCServing ------------------------------
(* Calls that differ in what the code looks at, and files they meet. *)
EXTENDS Serving, MCRegistry

ServingFiles == {Text, Speech, Several, TokenGone}

-----------------------------------------------------------------------------
Call(kind, body) == [kind |-> kind, keyed |-> TRUE, body |-> body, twin |-> None]

Said(role, text) == [role |-> role, content |-> Oneof("text", text)]

Chat == [model |-> "one", stream |-> FALSE, include_usage |-> TRUE, n |-> None, tools |-> None,
         tool_choice |-> "null", logprobs |-> None, response_format |-> None,
         messages |-> <<Said("developer", "rules"), Said("user", "hi")>>, temperature |-> 0,
         top_p |-> None, max_tokens |-> 3, max_completion_tokens |-> 9,
         reasoning_effort |-> "minimal", enable_thinking |-> None]

\* The same conversation, and asked of the other endpoint.
Responses == [model |-> "one", stream |-> FALSE, previous_response_id |-> None, tools |-> None,
              tool_choice |-> None, text |-> None, instructions |-> "rules",
              input |-> Oneof("items", <<[kind |-> "reasoning", role |-> None, content |-> Unset],
                                         [kind |-> None, role |-> None,
                                          content |-> Oneof("parts", <<[kind |-> "input_text",
                                                                        text |-> "hi"]>>)]>>),
              temperature |-> 0, top_p |-> None, max_output_tokens |-> 9, effort |-> "minimal"]

Thinking == [Chat EXCEPT !.reasoning_effort = None, !.enable_thinking = TRUE, !.stream = TRUE,
                         !.messages = <<Said("user", "hi")>>, !.temperature = None]
Asked    == [Responses EXCEPT !.instructions = None, !.effort = "low", !.stream = TRUE,
                              !.input = Oneof("text", "hi"), !.temperature = None,
                              !.max_output_tokens = 3]

ChatCalls ==
  {[Call("chat", Chat) EXCEPT !.twin = Responses],
   [Call("chat", [Chat EXCEPT !.tools = "some"]) EXCEPT !.twin = [Responses EXCEPT !.tools = "some"]],
   Call("chat", [Chat EXCEPT !.tools = "some", !.n = 2]),
   [Call("chat", [Thinking EXCEPT !.max_completion_tokens = None]) EXCEPT !.twin = Asked],
   Call("chat", [Thinking EXCEPT !.model = "two", !.include_usage = FALSE]),
   Call("chat", [Thinking EXCEPT !.model = "one"]),
   Call("chat", [Chat EXCEPT !.messages = <<Said("tool", "hi")>>]),
   [Call("chat", Chat) EXCEPT !.keyed = FALSE]}

ResponsesCalls ==
  {Call("responses", Responses), Call("responses", Asked),
   Call("responses", [Asked EXCEPT !.model = "nobody"]),
   Call("responses", [Asked EXCEPT !.previous_response_id = "some"])}

Field(name, v) == [name |-> name, value |-> v]
Form(model, rest) == Call("transcriptions", <<Field("model", model)>> \o rest)

UploadCalls ==
  {Form("two", <<Field("response_format", "text"), Field("file", "fits"), Field("language", "")>>),
   Form("two", <<Field("file", "fits"), Field("response_format", "srt")>>),
   Form("one", <<Field("file", "fits"), Field("response_format", "vtt")>>),
   Form("one", <<Field("file", "fits"), Field("response_format", "verbose_json")>>),
   Form("one", <<Field("file", "unreadable")>>), Form("one", <<Field("file", "empty")>>),
   Form("one", <<Field("file", "large"), Field("stream", "true")>>),
   Form("one", <<Field("file", "fits")>>)}

OtherCalls == {[Call(kind, None) EXCEPT !.keyed = FALSE] : kind \in {"health", "models"}}
              \union {Call(kind, None) : kind \in {"models", "embeddings"}}

-----------------------------------------------------------------------------
(* The daemon's own protocol, spoken by other clients. *)

Invoke(operation, model, inputs) ==
  Call("foreign", [method |-> "invoke", version |-> 1, operation |-> operation, model |-> model,
                   inputs |-> inputs])
Turns(role) == Oneof("generate", [messages |-> <<[role |-> role, parts |-> <<Oneof("text", "hi")>>]>>,
                                  temperature |-> None, top_p |-> None, max_tokens |-> None,
                                  reasoning |-> None])
Audio == Oneof("transcribe", [language |-> None, audio |-> TRUE])
Embed == Oneof("embed", [texts |-> <<"hi">>])

ForeignCalls ==
  {Invoke(1, "one", <<Turns(2), Turns(2)>>), Invoke(1, "one", <<Turns(2), Turns(0)>>),
   Invoke(1, "one", <<Turns(2), Embed>>), Invoke(1, "one", <<Unset>>), Invoke(1, "one", <<>>),
   Invoke(2, "one", <<Embed>>), Invoke(2, "three", <<Embed>>), Invoke(3, "one", <<Audio>>),
   Invoke(0, "one", <<Turns(2)>>),
   [Invoke(1, "one", <<Turns(2)>>) EXCEPT !.body.version = 2]}

MCCalls == ChatCalls \union ResponsesCalls \union UploadCalls \union OtherCalls \union ForeignCalls

-----------------------------------------------------------------------------
(* For the order of the events of /v1/responses: one model, one call. *)
OneFile == {File(<<Rkllm("one", <<"generate">>, TRUE, Starter)>>)}
OneCall == {Call("responses", Asked)}
=============================================================================
