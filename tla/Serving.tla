------------------------------- MODULE Serving -------------------------------
(***************************************************************************)
(* A call, from the HTTP request to its answer: the frontend's endpoint,   *)
(* the client, the daemon's gRPC service and what it runs, and the way     *)
(* back.  It composes the daemon's models (Registry) with the operators of *)
(* Generate, Requests, Endpoints and Protocol.                             *)
(*                                                                         *)
(* One call is served at a time, with everything in Registry moving        *)
(* between any two of its steps.  Calls meet only in a worker's queue,     *)
(* which is module Worker; here a queue may be full at any time.  A run is *)
(* the events its channel will carry, and a crash cuts them short.  How    *)
(* audio travels is module Transcribe.                                     *)
(***************************************************************************)
EXTENDS Registry, Generate, Requests, Endpoints, SequencesExt

CONSTANTS
  Calls,      \* the calls the frontend, or the daemon itself, is sent
  MaxEvents,  \* bound: deltas of a run, segments of a transcription
  Delays      \* the retry_after_ms rkwhisperd may answer

ASSUME ServingAssumption ==
  /\ Settings \subseteq GenerateSettings /\ Delays \subseteq Nat /\ MaxEvents \in Nat

\* A body is what serde or prost made of it; a form is read by FormInput.
CallOk(c) ==
  /\ c.kind \in {"chat", "responses", "transcriptions", "health", "models", "embeddings",
                 "foreign"}
  /\ c.keyed \in BOOLEAN
  /\ c.kind = "chat" => ChatRequestOk(c.body)
  /\ c.kind = "responses" => ResponsesRequestOk(c.body)
  /\ c.twin # None => ResponsesRequestOk(c.twin) /\ Counterparts(c.body, c.twin)
  /\ c.kind = "foreign" =>
       c.body \in [method : {"invoke"}, version : Nat, operation : Int, model : STRING,
                   inputs : Seq(PbInput)]

\* An Option of a Done, or of the text of a run, tells whether there is one.
ASSUME CallsAssumption ==
  /\ None \notin Calls /\ \A c \in Calls : CallOk(c)
  /\ None \notin [finish : {"stop", "length"}, usage : Nat]
  /\ None \notin Seq([input : Nat, place : Nat])

VARIABLES
  call,     \* [kind, keyed, body, twin], None between calls
  step,     \* how far it is
  rpc,      \* the message or messages sent to the daemon
  checked,  \* invoke: the inputs decoded and checked so far
  outputs,  \* invoke: the outputs so far
  script,   \* the run's events that nobody has taken yet
  handler,  \* the locals of the endpoint's loop, None without a stream
  answer,   \* what was answered, at most one body: <<>> before
  \* history
  ran,      \* the jobs this call has put into a worker's queue
  played,   \* the events of the stream the frontend has taken
  cause,    \* the daemon's error the call ended with
  cut,      \* a crash cut the run short
  promised  \* /health has answered 200

local == <<call, step, rpc, checked, outputs, script, handler, answer, ran, played, cause, cut>>
vars  == <<registryVars, local, promised>>

PROTOCOL_VERSION     == 1
BUSY_RETRY_AFTER_MS  == 1000

Idle ==
  /\ call = None /\ step = "idle" /\ rpc = None /\ checked = <<>> /\ outputs = <<>>
  /\ script = <<>> /\ handler = None /\ answer = <<>>
  /\ ran = <<>> /\ played = <<>> /\ cause = None /\ cut = FALSE

Init == RegistryInit /\ Idle /\ promised = FALSE

Foreign   == call.kind = "foreign"
Streaming == rpc.method = "invoke_stream"
Operation == OperationNames[rpc.operation]

-----------------------------------------------------------------------------
(* The frontend: the router and the endpoints, up to the call.             *)

\* A foreign client sends the daemon its own message, and only that.
Arrive(c) ==
  /\ step = "idle"
  /\ call' = c
  /\ IF c.kind = "foreign" THEN step' = "rpc" /\ rpc' = c.body
                           ELSE step' = "frontend" /\ rpc' = None
  /\ UNCHANGED <<checked, outputs, script, handler, answer, ran, played, cause, cut, promised>>

Reply(a) ==
  /\ answer' = <<a>> /\ step' = "answered"
  /\ UNCHANGED <<call, rpc, checked, outputs, script, handler, ran, played, cause, cut, promised>>

\* RkModelClient: every call says which version it speaks.
Send(method, operation, model, inputs) ==
  /\ rpc' = [method |-> method, version |-> PROTOCOL_VERSION,
             operation |-> ToNumber(OperationNames, operation), model |-> model,
             inputs |-> [k \in DOMAIN inputs |-> InputToPb(inputs[k])]]
  /\ step' = "rpc"
  /\ UNCHANGED <<call, checked, outputs, script, handler, answer, ran, played, cause, cut,
                 promised>>

\* require_api_key, which /health is not behind.
Unkeyed == step = "frontend" /\ ~call.keyed /\ call.kind # "health" /\ Reply(Unauthorized)

Keyed(kinds) ==
  step = "frontend" /\ call.kind \in kinds /\ (call.keyed \/ call.kind = "health")

\* chat_completions and responses_endpoint.
Generation ==
  LET input == IF call.kind = "chat" THEN ChatInput(call.body) ELSE ResponsesInput(call.body)
  IN /\ Keyed({"chat", "responses"})
     /\ IF ~input.ok THEN Reply(input.value)
        ELSE Send(IF call.body.stream THEN "invoke_stream" ELSE "invoke", "generate",
                  call.body.model, <<Oneof("generate", input.value)>>)

\* transcriptions, with Source::open: an upload is probed before the call.
Upload ==
  LET form == FormInput(call.body)
  IN /\ Keyed({"transcriptions"})
     /\ IF ~form.ok THEN Reply(form.value)
        ELSE IF LastField(call.body, "file", None) = "unreadable" THEN Reply(InvalidRequest("file"))
        ELSE Send("invoke_stream", "transcribe", form.value.model,
                  <<Oneof("transcribe", [language |-> form.value.language, audio |-> TRUE])>>)

Ask == Keyed({"health", "models"}) /\ Send("models", "generate", None, <<>>)

NotYet == Keyed({"embeddings"}) /\ Reply(NotImplemented)

Frontend == Unkeyed \/ Generation \/ Upload \/ Ask \/ NotYet

-----------------------------------------------------------------------------
(* How a call ends: what the daemon returns, as its client sees it.        *)

\* The call fails with a status; e is the error the daemon made it of.
FailsWith(status, e) ==
  /\ answer' = <<CASE Foreign              -> status
                   [] call.kind = "health" -> Health(FromStatus(status))
                   [] OTHER                -> ApiError(FromStatus(status))>>
  /\ cause' = e /\ step' = "answered"
  /\ UNCHANGED <<call, rpc, checked, outputs, script, handler, ran, played, cut, promised>>

Fails(e) == FailsWith(ToStatus(e), e)

\* The transport's own error: there is no daemon.
Lost ==
  /\ step = "rpc" /\ phase # "serving"
  /\ FailsWith(Status("Unavailable", None), Err("Unreachable"))

\* RkModelServer::models, then /health or /v1/models.
Tell ==
  LET listed == Collect([k \in DOMAIN List |-> ModelFromPb(ModelToPb(List[k]))])
      health == Health(listed)
  IN /\ step = "rpc" /\ phase = "serving" /\ rpc.method = "models"
     /\ answer' = <<IF call.kind = "health" THEN health
                    ELSE IF listed.ok THEN ModelsBody(listed.value) ELSE ApiError(listed)>>
     /\ promised' = (promised \/ (call.kind = "health" /\ health.status = 200))
     /\ step' = "answered"
     /\ UNCHANGED <<call, rpc, checked, outputs, script, handler, ran, played, cause, cut>>

-----------------------------------------------------------------------------
(* The daemon's service: invoke and invoke_stream.                         *)

Move(place) ==
  /\ step' = place
  /\ UNCHANGED <<call, rpc, outputs, script, handler, answer, ran, played, cause, cut, promised>>

\* check_version, operation_from_i32, and an input at all.
Admit ==
  /\ step = "rpc" /\ phase = "serving" /\ rpc.method # "models"
  /\ IF rpc.version # PROTOCOL_VERSION THEN Fails(Err("ProtocolVersion"))
     ELSE IF ~FromNumber(OperationNames, rpc.operation).ok \/ rpc.inputs = <<>>
       THEN Fails(Err("InvalidInput"))
       ELSE Move("check") /\ UNCHANGED checked

\* check_pair.
CheckPair(input) ==
  LET Loaded(x) == IF \/ Operation = "generate" /\ workers[rpc.model] = "none"
                      \/ Operation = "transcribe" /\ ~file.socket
                     THEN Err("Unavailable") ELSE Ok(input)
  IN IF input.is # Operation THEN Err("InvalidInput")
     ELSE Then(Check(rpc.model, Operation), Loaded)

\* Mutant: inputs are checked when their turn to run comes.
CheckInputLate ==
  LET input == Then(DecodedInput(rpc.inputs[Len(checked) + 1]), CheckPair)
  IN /\ step = "check"
     /\ IF ~input.ok THEN Fails(input)
        ELSE /\ checked' = Append(checked, input.value)
             /\ Move("start")

\* One round of invoke's first loop; invoke_stream has one input.
CheckInput ==
  LET input == Then(DecodedInput(rpc.inputs[Len(checked) + 1]), CheckPair)
  IN /\ step = "check"
     /\ IF ~input.ok THEN Fails(input)
        ELSE /\ checked' = Append(checked, input.value)
             /\ Move(IF Len(checked') = Len(rpc.inputs) THEN "start" ELSE "check")

Turn == Len(outputs) + 1

-----------------------------------------------------------------------------
(* What a run's channel carries.  A delta is its input and its place.      *)

Done(finish, usage) == Ok(Oneof("done", Finished(finish, usage)))

\* A model without markers writes text only; see module Reasoning.
RunsOf(job) ==
  LET kinds == IF job.parser.markers THEN {"reasoning_delta", "text_delta"} ELSE {"text_delta"}
      Deltas(f) == [k \in DOMAIN f |-> Ok(Oneof(f[k], [input |-> Turn, place |-> k]))]
      Ends(n) == {Done("stop", n), Done("length", n), Err("Runtime")}
  IN UNION {{Deltas(f) \o <<end>> : f \in [1..n -> kinds], end \in Ends(n)} : n \in 0..MaxEvents}

\* The second segment is blank, as rkwhisperd's silence is.
SegmentOf(k) == [text |-> IF k = 2 THEN "" ELSE "words", start |-> k * 1000, end |-> k * 1000 + 500]

\* rkwhisperd may drop the session without a word, fail it, push it back, or
\* go away.
SessionsOf ==
  LET heard(n) == [k \in 1..n |-> Ok(Oneof("segment", SegmentOf(k)))]
      ends == {<<Done("stop", 0)>>, <<Err("Runtime")>>, <<Err("Unreachable")>>, <<>>}
              \union {<<Busy(ms)>> : ms \in Delays}
  IN {heard(n) \o end : n \in 0..MaxEvents, end \in ends}

\* What the endpoint starts its loop with.
Opened ==
  CASE call.kind = "chat"           -> ChatOpen(call.body.include_usage)
    [] call.kind = "responses"      -> ResponsesOpen
    [] call.kind = "transcriptions" -> [segments |-> <<>>, done |-> FALSE]

Run(events, jobs) ==
  /\ script' = events /\ ran' = ran \o jobs
  /\ step' = IF Streaming THEN "stream" ELSE "run"
  /\ handler' = IF Streaming THEN Opened ELSE handler
  /\ UNCHANGED <<call, rpc, checked, outputs, answer, played, cause, cut, promised>>

\* queue_generate, and submit's three outcomes.
StartGenerate ==
  LET queued == Queued(Model(rpc.model).settings, checked[Turn].value)
  IN /\ step = "start" /\ Operation = "generate"
     /\ IF ~queued.ok THEN Fails(queued)
        ELSE IF workers[rpc.model] # "up" THEN Fails(Err("Unavailable"))
        ELSE \/ Fails(Busy(BUSY_RETRY_AFTER_MS))
             \/ \E events \in RunsOf(queued.value) :
                  Run(events, <<[input |-> Turn, job |-> queued.value]>>)

\* transcribe::start.  asr.open has no timeout.
StartTranscribe ==
  /\ step = "start" /\ Operation = "transcribe" /\ whisper[rpc.model] # "hung"
  /\ IF whisper[rpc.model] = "down"
       THEN Fails(Err("Unreachable")) \/ Fails(Err("Unavailable"))
       ELSE Fails(Err("Runtime")) \/ \E events \in SessionsOf : Run(events, <<>>)

StartEmbed ==
  /\ step = "start" /\ Operation = "embed"
  /\ FailsWith(Status("Unimplemented", None), None)

-----------------------------------------------------------------------------
(* invoke: a run is folded into one output.                                *)

Values(events, kind) ==
  LET found == Selected(events, {k \in DOMAIN events : events[k].ok /\ events[k].value.is = kind})
  IN [k \in DOMAIN found |-> found[k].value.value]

\* generate_once, and collect.
Folded(operation, events) ==
  LET all  == Collect(events)
      done == Values(events, "done")
  IN IF ~all.ok THEN all
     ELSE IF done = <<>> THEN Err("Runtime")
     ELSE IF operation = "generate"
       THEN Ok(Oneof("generated", [text |-> Values(events, "text_delta"),
                                   reasoning |-> TextOption(Values(events, "reasoning_delta")),
                                   finish |-> done[1].finish, usage |-> done[1].usage]))
       ELSE Ok(Oneof("transcript", [text |-> TranscriptOf(Values(events, "segment")),
                                    segments |-> Values(events, "segment")]))

\* The answer to a unary call: the client converts it, the endpoint takes the
\* first output and expects a generation.
Completed(outs) ==
  LET received == Collect([k \in DOMAIN outs |-> OutputFromPb(OutputToPb(outs[k]))])
  IN IF Foreign THEN received
     ELSE IF ~received.ok THEN ApiError(received)
     ELSE IF received.value = <<>> \/ received.value[1].is # "generated" THEN Upstream
     ELSE IF call.kind = "chat" THEN CompletionJson(received.value[1].value)
     ELSE CompletedJson(received.value[1].value)

Fold ==
  LET output == Folded(Operation, script)
      outs   == Append(outputs, output.value)
  IN /\ step = "run"
     /\ IF ~output.ok THEN Fails(output)
        ELSE /\ outputs' = outs /\ script' = <<>>
             /\ IF Len(outs) < Len(checked) THEN step' = "start" /\ UNCHANGED answer
                                            ELSE step' = "answered" /\ answer' = <<Completed(outs)>>
             /\ UNCHANGED <<call, rpc, checked, handler, ran, played, cause, cut, promised>>

-----------------------------------------------------------------------------
(* invoke_stream: the endpoint's loop takes one event after another.       *)

\* An event on the wire; an error is the stream's last item.
Crossed(e) == IF e.ok THEN EventFromPb(EventToPb(e.value)) ELSE FromStatus(ToStatus(e))

UploadEvent(h, e) ==
  CASE e.value.is = "segment" -> [h EXCEPT !.segments = Append(@, e.value.value)]
    [] e.value.is = "done"    -> [h EXCEPT !.done = TRUE]
    [] OTHER                  -> h

Took(e) ==
  CASE call.kind = "chat"      -> ChatEvent(handler, Crossed(e))
    [] call.kind = "responses" -> ResponsesEvent(handler, Crossed(e))
    [] OTHER                   -> UploadEvent(handler, Crossed(e))

Sent200 == Answer(200, None, None)

\* The upload's answer is not out yet, so there an error still has a status.
TakeEvent ==
  LET e == Head(script)
  IN /\ step = "stream" /\ script # <<>>
     /\ script' = IF e.ok THEN Tail(script) ELSE <<>>
     /\ played' = Append(played, e)
     /\ cause' = IF e.ok THEN cause ELSE e
     /\ IF Crossed(e).ok
          THEN handler' = Took(e) /\ UNCHANGED <<step, answer>>
          ELSE /\ step' = "answered"
               /\ IF call.kind = "transcriptions"
                    THEN answer' = <<ApiError(Crossed(e))>> /\ UNCHANGED handler
                    ELSE answer' = <<Sent200>> /\ handler' = Took(e)
     /\ UNCHANGED <<call, rpc, checked, outputs, ran, cut, promised>>

\* What the decoder has counted: module Decode.
Clip == 2500

Written ==
  LET form == FormInput(call.body).value
  IN IF ~handler.done THEN Upstream
     ELSE TranscriptionBody(form.format, handler.segments, Clip, form.language)

\* Mutant: an upload without segments is not answered.
EndOfStreamQuiet ==
  /\ step = "stream" /\ script = <<>>
  /\ handler' = CASE call.kind = "chat"      -> ChatEnd(handler)
                  [] call.kind = "responses" -> ResponsesEnd(handler)
                  [] OTHER                   -> handler
  /\ answer' = IF call.kind # "transcriptions" THEN <<Sent200>>
               ELSE IF handler.segments = <<>> THEN <<>> ELSE <<Written>>
  /\ step' = "answered"
  /\ UNCHANGED <<call, rpc, checked, outputs, script, ran, played, cause, cut, promised>>

\* The channel is closed and empty.
EndOfStream ==
  /\ step = "stream" /\ script = <<>>
  /\ handler' = CASE call.kind = "chat"      -> ChatEnd(handler)
                  [] call.kind = "responses" -> ResponsesEnd(handler)
                  [] OTHER                   -> handler
  /\ answer' = <<IF call.kind = "transcriptions" THEN Written ELSE Sent200>>
  /\ step' = "answered"
  /\ UNCHANGED <<call, rpc, checked, outputs, script, ran, played, cause, cut, promised>>

-----------------------------------------------------------------------------
Service == Admit \/ CheckInput \/ StartGenerate \/ StartTranscribe \/ StartEmbed \/ Fold

Stream == TakeEvent \/ EndOfStream

\* The call is over: it was answered, or its client has gone, which drops the
\* run with everything else.
Over == call' = None /\ step' = "idle" /\ rpc' = None /\ checked' = <<>> /\ outputs' = <<>>
        /\ script' = <<>> /\ handler' = None /\ answer' = <<>>
        /\ ran' = <<>> /\ played' = <<>> /\ cause' = None /\ cut' = FALSE /\ UNCHANGED promised

Leave == step = "answered" /\ Over
HangUp == step \notin {"idle", "answered"} /\ Over

Serve == Frontend \/ Lost \/ Tell \/ Service \/ Stream \/ Leave

\* A worker's crash loses what its run has not sent, the final event first.
CrashUnder(i) ==
  /\ Crash(i)
  /\ IF step \in {"run", "stream"} /\ Operation = "generate" /\ rpc.model = i
       THEN \E n \in 0..Len(script) : /\ script' = SubSeq(script, 1, n)
                                      /\ cut' = (n < Len(script))
       ELSE UNCHANGED <<script, cut>>
  /\ UNCHANGED <<call, step, rpc, checked, outputs, handler, answer, ran, played, cause, promised>>

Daemon ==
  \/ Start \/ ProbeTask
  \/ \E i \in Ids : Loader(i) \/ WhisperTurns(i)

Next ==
  \/ Serve /\ UNCHANGED registryVars
  \/ HangUp /\ UNCHANGED registryVars
  \/ (\E c \in Calls : Arrive(c)) /\ UNCHANGED registryVars
  \/ Daemon /\ UNCHANGED <<local, promised>>
  \/ \E i \in Ids : CrashUnder(i)

Spec == Init /\ [][Next]_vars

-----------------------------------------------------------------------------
TypeOK ==
  /\ RegistryTypeOK
  /\ call \in Calls \union {None}
  /\ step \in {"idle", "frontend", "rpc", "check", "start", "run", "stream", "answered"}
  /\ step = "idle" <=> call = None
  /\ Len(answer) = IF step = "answered" THEN 1 ELSE 0
  /\ step = "stream" => Streaming /\ DOMAIN handler = DOMAIN Opened
  /\ Len(outputs) <= Len(checked)
  /\ cut \in BOOLEAN /\ promised \in BOOLEAN

\* "All-or-nothing: one bad input fails the call, and nothing runs"
\* (service.rs:229).  Once a job is in a queue, every input of the call can be
\* decoded and is of the operation named; and what an answer holds is one
\* output for each input, in order, each made of its own run's events.
AllOrNothing ==
  /\ ran # <<>> => \A k \in DOMAIN rpc.inputs :
       /\ DecodedInput(rpc.inputs[k]).ok
       /\ DecodedInput(rpc.inputs[k]).value.is = Operation
  /\ step = "answered" /\ outputs # <<>> /\ cause = None =>
       /\ Len(outputs) = Len(rpc.inputs)
       /\ \A k \in DOMAIN outputs : outputs[k].is = "generated" =>
            \A j \in DOMAIN outputs[k].value.text : outputs[k].value.text[j].input = k

\* MODEL_SERVER.md:293-308: HTTP status and OpenAI code of each error.
Table ==
  [UnknownModel |-> <<404, "model_not_found">>, UnsupportedOperation |-> <<400, None>>,
   InvalidInput |-> <<400, None>>, Busy |-> <<503, None>>, Loading |-> <<503, None>>,
   Unavailable |-> <<503, None>>, Runtime |-> <<500, None>>, Unreachable |-> <<503, None>>,
   ProtocolVersion |-> <<500, None>>]

\* What an HTTP client was told of the failure of its call.
Told ==
  IF played = <<>> \/ call.kind = "transcriptions" THEN answer[1]
  ELSE IF call.kind = "chat" THEN Last(handler.sent).value
  ELSE Last(handler.sent).event.value

\* An error crosses two boundaries, as a gRPC status and as an HTTP answer,
\* and three of its kinds share one code on the way (error.rs:47-98).  What
\* the caller is told is still what the table says of the error the daemon
\* met, whether the status line was out or not; and it is never told to come
\* back sooner than the daemon asked, nor at once.
ErrorsSurvive ==
  step = "answered" /\ cause # None /\ call.kind \notin {"foreign", "health"} =>
    /\ <<Told.status, Told.code>> = Table[cause.error]
    /\ IF cause.error = "Busy"
         THEN Told.retryAfter >= 1 /\ Told.retryAfter * 1000 >= cause.ms
         ELSE Told.retryAfter = None

\* Whatever a request asks for, the runtime is called with a budget within the
\* configured ceiling and within the request's, and an override never samples
\* at temperature zero (sampling.rs:27-59, rkllm.rs:118-153).  A ceiling the
\* runtime's int cannot hold is no ceiling.
BudgetsHold ==
  \A k \in DOMAIN ran :
    LET asked    == checked[ran[k].input].value.max_tokens
        ceiling  == Model(rpc.model).settings.max_new_tokens
        given    == ran[k].job.params.max_new_tokens
        sampling == ran[k].job.params.sampling
    IN /\ ceiling # None /\ ceiling < 2^(Width - 1) =>
            given # None /\ given \in 0..ceiling /\ (asked # None => given <= asked)
       /\ sampling # None => sampling.temperature > 0

\* "Chat completions and responses are two thin adapters over the same
\* GenerateInput" (MODEL_SERVER.md:781): a request and its counterpart on the
\* other endpoint are read as one input, or both refused.
AdaptersAgree ==
  call # None /\ call.kind = "chat" /\ call.twin # None =>
    LET chat == ChatInput(call.body)
        twin == ResponsesInput(call.twin)
    IN (chat.ok <=> twin.ok) /\ (chat.ok => chat.value = twin.value)

Ended == step = "answered" /\ handler # None /\ call.kind # "transcriptions"

Finish(kind) == Ended /\ call.kind = kind /\ handler.done # None /\ cause = None

Chunks(carries) ==
  LET found == Selected(handler.sent, {k \in DOMAIN handler.sent : handler.sent[k].carries = carries})
  IN [k \in DOMAIN found |-> found[k].value]

\* "so the streamed output matches the non-streaming body" (routes.rs:385):
\* what a stream adds up to is the body the same run has without streaming.
StreamMatchesUnary ==
  LET output == Folded("generate", played).value.value
      body   == CompletionJson(output)
  IN /\ Finish("chat") =>
          /\ Chunks("content") = body.content
          /\ TextOption(Chunks("reasoning_content")) = body.reasoning_content
          /\ Chunks("finish") = <<body.finish_reason>>
          /\ Chunks("usage") = IF call.body.include_usage THEN <<body.usage>> ELSE <<>>
     /\ Finish("responses") => Last(handler.sent).event.value = CompletedJson(output)

IsEnd(sent) ==
  IF call.kind = "chat" THEN sent.carries \in {"error", "[DONE]"}
  ELSE sent.event.type \in {"response.completed", "response.incomplete", "response.failed"}

\* A client can tell a whole answer from a broken one: unless the worker
\* crashed, the last thing written says how the run ended, and nothing before
\* it does (protocol/lib.rs:53, routes.rs:187-215, 364-446).
EndIsTold ==
  Ended => \A k \in DOMAIN handler.sent :
             IsEnd(handler.sent[k]) <=> k = Len(handler.sent) /\ ~cut

\* What an SDK makes of the typed events, one place of the output each.
Nothing == [item |-> None, text |-> <<>>, closed |-> FALSE]

Replayed(output, e) ==
  CASE e.type = "response.output_item.added" ->
         [output EXCEPT ![e.index] = [item |-> e.item, text |-> <<>>, closed |-> FALSE]]
    [] e.type \in {"response.reasoning_text.delta", "response.output_text.delta"} ->
         [output EXCEPT ![e.index] = [item |-> @.item, text |-> Append(@.text, e.value),
                                      closed |-> @.closed]]
    [] e.type = "response.output_item.done" ->
         [output EXCEPT ![e.index] = [item |-> @.item, text |-> @.text, closed |-> TRUE]]
    [] OTHER -> output

Replay(sent) ==
  LET upto[n \in 0..Len(sent)] ==
        IF n = 0 THEN [k \in 0..1 |-> Nothing] ELSE Replayed(upto[n - 1], sent[n].event)
  IN upto[Len(sent)]

FinalBody == Last(handler.sent).event.value.output

\* A run that reasons before it answers, or does only one of the two.
ReasonsFirst ==
  \A j, k \in DOMAIN played :
    j < k /\ played[j].value.is = "text_delta" => played[k].value.is # "reasoning_delta"

\* Replaying the events of such a run gives, item by item, the output of the
\* terminal event, each item added once and closed; the sequence numbers have
\* no gap (routes.rs:281-446).
EventsReplay ==
  Finish("responses") /\ ReasonsFirst =>
    /\ Replay(handler.sent) =
         [k \in 0..1 |-> IF k < Len(FinalBody)
                           THEN [item |-> FinalBody[k + 1].type, text |-> FinalBody[k + 1].text,
                                 closed |-> TRUE]
                           ELSE Nothing]
    /\ \A k \in DOMAIN handler.sent : handler.sent[k].number = k - 1

\* The same of every run, of the places alone: an event about an item carries
\* the place the item has in the final body.
PlacesMatchBody ==
  Finish("responses") =>
    \A k \in DOMAIN handler.sent :
      LET e == handler.sent[k].event
      IN e.item # None => FinalBody[e.index + 1].type = e.item

\* "200 when the daemon is reachable and every configured model is ready"
\* (routes.rs:85): from the first 200 on, no generate call is turned away for
\* a model that still loads, or for a worker that was never there.
HealthIsHonest ==
  /\ promised /\ step = "answered" /\ cause # None /\ rpc.method # "models"
  /\ cause.error \in {"Loading", "Unavailable"} /\ Operation = "generate"
  => workers[rpc.model] = "dead"
=============================================================================
