------------------------------ MODULE Protocol ------------------------------
(***************************************************************************)
(* What crosses between the two processes, and on to the HTTP client: the  *)
(* conversions to and from the generated types, and the errors' way from a *)
(* gRPC status to an OpenAI error.                                         *)
(*                                                                         *)
(* A generated enum is a number, 0 when it was not set; a oneof is a       *)
(* record whose "is" names the branch, "none" when none was set.  Fields   *)
(* that both sides copy as they are keep their names and their values.     *)
(***************************************************************************)
EXTENDS Integers, Sequences, FiniteSets

CONSTANT None   \* an Option without a value

Option(S) == S \union {None}

IsSeq(s) == Len(s) \in Nat /\ DOMAIN s = 1..Len(s)

Operations == {"generate", "embed", "transcribe"}

-----------------------------------------------------------------------------
(* Result<T, Error>. *)

Ok(v) == [ok |-> TRUE, value |-> v, error |-> "none", ms |-> 0]

Err(kind) == [ok |-> FALSE, value |-> None, error |-> kind, ms |-> 0]

Busy(ms) == [ok |-> FALSE, value |-> None, error |-> "Busy", ms |-> ms]

\* collect::<Result<Vec<_>, _>>: the first error, or all the values.
Collect(results) ==
  LET Bad(k) == k \in DOMAIN results /\ ~results[k].ok
  IN IF \E k \in DOMAIN results : Bad(k)
       THEN results[CHOOSE k \in DOMAIN results : Bad(k) /\ \A j \in 1..(k - 1) : ~Bad(j)]
       ELSE Ok([k \in DOMAIN results |-> results[k].value])

\* The elements of s at the places in I, in their order: what an iterator's
\* filter leaves, or a loop that passes over the rest.
Selected(s, I) ==
  [j \in 1..Cardinality(I) |-> s[CHOOSE k \in I : Cardinality({h \in I : h <= k}) = j]]

\* What follows ? on a result.
Then(result, F(_)) == IF result.ok THEN F(result.value) ELSE result

-----------------------------------------------------------------------------
(* Enums: their order in the schema, from 1. *)

OperationNames == <<"generate", "embed", "transcribe">>
RoleNames      == <<"system", "user", "assistant">>
FinishNames    == <<"stop", "length">>
StateNames     == <<"loading", "ready", "failed", "unavailable">>

ToNumber(names, name) == CHOOSE k \in DOMAIN names : names[k] = name

\* operation_from_i32, role_from_i32, finish_from_i32 and the state of a
\* ModelInfo: a number this build does not know is refused like an unset one.
FromNumber(names, number) ==
  IF number \in DOMAIN names THEN Ok(names[number]) ELSE Err("InvalidInput")

-----------------------------------------------------------------------------
(* Messages and inputs. *)

Oneof(kind, v) == [is |-> kind, value |-> v]
Unset          == Oneof("none", None)

\* As the wire has them.
PbPart    == {Unset} \union [is : {"text", "image"}, value : STRING]
PbMessage == [role : Int, parts : Seq(PbPart)]
PbGenerateInput ==
  [messages : Seq(PbMessage), temperature : Option(Int), top_p : Option(Int),
   max_tokens : Option(Nat), reasoning : Option(BOOLEAN)]
PbInput ==
  {Unset} \union [is : {"generate"}, value : PbGenerateInput]
          \union [is : {"embed"}, value : [texts : Seq(STRING)]]
          \union [is : {"transcribe"}, value : [language : Option(STRING), audio : BOOLEAN]]

\* A Part is Oneof("text", t) or Oneof("image", i); only the wire has Unset.
PartFromPb(part) == IF part.is = "none" THEN Err("InvalidInput") ELSE Ok(part)

MessageToPb(m) == [role |-> ToNumber(RoleNames, m.role), parts |-> m.parts]

MessageFromPb(m) ==
  LET role  == FromNumber(RoleNames, m.role)
      parts == Collect([k \in DOMAIN m.parts |-> PartFromPb(m.parts[k])])
      Both(r) == Then(parts, LAMBDA ps : Ok([role |-> r, parts |-> ps]))
  IN Then(role, Both)

GenerateToPb(g) ==
  [g EXCEPT !.messages = [k \in DOMAIN g.messages |-> MessageToPb(g.messages[k])]]

GenerateFromPb(g) ==
  LET messages == Collect([k \in DOMAIN g.messages |-> MessageFromPb(g.messages[k])])
  IN Then(messages, LAMBDA ms : Ok([g EXCEPT !.messages = ms]))

\* The audio of a transcribe input travels apart, so what is left is whether
\* its first message holds any.
InputToPb(i) ==
  CASE i.is = "generate"   -> Oneof("generate", GenerateToPb(i.value))
    [] i.is = "embed"      -> i
    [] i.is = "transcribe" -> Oneof("transcribe", [i.value EXCEPT !.audio = FALSE])

DecodedInput(i) ==
  CASE i.is = "none"     -> Err("InvalidInput")
    [] i.is = "generate" -> Then(GenerateFromPb(i.value), LAMBDA g : Ok(Oneof("generate", g)))
    [] OTHER             -> Ok(i)

-----------------------------------------------------------------------------
(* Outputs, events and models. *)

FinishToPb(f) == ToNumber(FinishNames, f)

OutputToPb(o) ==
  IF o.is = "generated"
    THEN Oneof("generated", [o.value EXCEPT !.finish = FinishToPb(o.value.finish)])
    ELSE o

OutputFromPb(o) ==
  CASE o.is = "none" -> Err("InvalidInput")
    [] o.is = "generated" ->
         Then(FromNumber(FinishNames, o.value.finish),
              LAMBDA f : Ok(Oneof("generated", [o.value EXCEPT !.finish = f])))
    [] OTHER -> Ok(o)

EventToPb(e) ==
  IF e.is = "done" THEN Oneof("done", [e.value EXCEPT !.finish = FinishToPb(e.value.finish)])
                   ELSE e

EventFromPb(e) ==
  CASE e.is = "none" -> Err("InvalidInput")
    [] e.is = "done" ->
         Then(FromNumber(FinishNames, e.value.finish),
              LAMBDA f : Ok(Oneof("done", [e.value EXCEPT !.finish = f])))
    [] OTHER -> Ok(e)

ModelToPb(m) ==
  [m EXCEPT !.state = ToNumber(StateNames, m.state),
            !.operations = [k \in DOMAIN m.operations |->
                              ToNumber(OperationNames, m.operations[k])]]

ModelFromPb(m) ==
  LET operations == Collect([k \in DOMAIN m.operations |->
                               FromNumber(OperationNames, m.operations[k])])
      Both(s) == Then(operations, LAMBDA os : Ok([m EXCEPT !.state = s, !.operations = os]))
  IN Then(FromNumber(StateNames, m.state), Both)

-----------------------------------------------------------------------------
(* Errors. *)

Errors == {"UnknownModel", "UnsupportedOperation", "InvalidInput", "ContextLengthExceeded",
           "Busy", "Loading", "Unavailable", "Runtime", "Unauthorized", "Unreachable",
           "ProtocolVersion"}

Failures == [ok : {FALSE}, value : {None}, error : Errors, ms : Nat]

\* An Option without a value is unlike whatever one with a value may hold.
ASSUME NoneAssumption == None \notin Nat /\ None \notin Failures

CodeOf ==
  [UnknownModel |-> "NotFound", UnsupportedOperation |-> "InvalidArgument",
   InvalidInput |-> "InvalidArgument", ContextLengthExceeded |-> "OutOfRange",
   Busy |-> "ResourceExhausted", Loading |-> "Unavailable", Unavailable |-> "Unavailable",
   Unreachable |-> "Unavailable", Runtime |-> "Internal", Unauthorized |-> "Unauthenticated",
   ProtocolVersion |-> "FailedPrecondition"]

Status(code, ms) == [code |-> code, ms |-> ms]

\* From<Error> for Status: the delay of Busy goes into the metadata.
ToStatus(e) == Status(CodeOf[e.error], IF e.error = "Busy" THEN e.ms ELSE None)

\* Every other code, those of the transport among them, is Runtime.
ErrorOf ==
  [NotFound |-> "UnknownModel", InvalidArgument |-> "InvalidInput",
   OutOfRange |-> "ContextLengthExceeded", ResourceExhausted |-> "Busy",
   Unavailable |-> "Unreachable", Unauthenticated |-> "Unauthorized",
   FailedPrecondition |-> "ProtocolVersion"]

DefaultRetryMs == 1000

\* From<Status> for Error.
FromStatus(s) ==
  IF s.code \notin DOMAIN ErrorOf THEN Err("Runtime")
  ELSE IF s.code = "ResourceExhausted"
    THEN Busy(IF s.ms = None THEN DefaultRetryMs ELSE s.ms)
    ELSE Err(ErrorOf[s.code])

\* HttpMapping without error.type, which the status implies.
HttpMapping(status, code, ms) == [status |-> status, code |-> code, ms |-> ms]

\* Error::http.
Http(e) ==
  CASE e.error = "UnknownModel" -> HttpMapping(404, "model_not_found", None)
    [] e.error \in {"UnsupportedOperation", "InvalidInput"} -> HttpMapping(400, None, None)
    [] e.error = "ContextLengthExceeded" -> HttpMapping(400, "context_length_exceeded", None)
    [] e.error = "Busy" -> HttpMapping(503, None, e.ms)
    [] e.error \in {"Loading", "Unavailable", "Unreachable"} -> HttpMapping(503, None, None)
    [] e.error \in {"Runtime", "Unauthorized", "ProtocolVersion"} -> HttpMapping(500, None, None)

\* Mutant: whole seconds, rounded down.
RetryAfterDown(ms) == IF ms = None THEN None ELSE ms \div 1000

\* The Retry-After header: ms.div_ceil(1000).max(1).
RetryAfter(ms) ==
  IF ms = None THEN None ELSE IF ms = 0 THEN 1 ELSE (ms + 999) \div 1000

\* ApiError and its response.
Answer(status, code, retryAfter) ==
  [status |-> status, code |-> code, retryAfter |-> retryAfter]

ApiError(e) == LET m == Http(e) IN Answer(m.status, m.code, RetryAfter(m.ms))

InvalidRequest(param) == Answer(400, param, None)
TooLarge              == Answer(413, None, None)
NotImplemented        == Answer(501, None, None)
Upstream              == Answer(500, None, None)
Unauthorized          == Answer(401, "invalid_api_key", None)
=============================================================================
