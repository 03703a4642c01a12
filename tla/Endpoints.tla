----------------------------- MODULE Endpoints ------------------------------
(***************************************************************************)
(* What the frontend answers: the bodies, and the two handlers that turn a *)
(* stream of daemon events into server-sent events, as records with the    *)
(* local variables of their loops.  Handlers are fed one event at a time,  *)
(* an event being a Result of what Protocol decodes.                       *)
(*                                                                         *)
(* Text is the sequence of the pieces it was put together from.  Ids,      *)
(* times, model names and the fixed fields of the JSON are left out.       *)
(***************************************************************************)
EXTENDS Naturals, Sequences, Protocol

TextOption(text) == IF text = <<>> THEN None ELSE text

\* Tagged like the Done that carried them.
Finished(finish, usage) == [finish |-> finish, usage |-> usage]

-----------------------------------------------------------------------------
(* /v1/chat/completions *)

\* completion_json: the whole answer.
CompletionJson(output) ==
  [content |-> output.text, reasoning_content |-> output.reasoning,
   finish_reason |-> output.finish, usage |-> output.usage]

\* chunk_json and usage_chunk_json, named for what the chunk carries.
Chunk(carries, v) == [carries |-> carries, value |-> v]

ChatOpen(usageAsked) ==
  [sent |-> <<Chunk("role", None)>>, done |-> None, over |-> FALSE, usageAsked |-> usageAsked]

\* Mutant: an error ends the stream like a cancellation.
ChatFailedQuietly(h, e) == [h EXCEPT !.over = TRUE]

\* The status line is out: the error's body is the last thing written.
ChatFailed(h, e) ==
  [h EXCEPT !.sent = Append(@, Chunk("error", ApiError(e))), !.over = TRUE]

\* The body of chat_completions' while let.
ChatEvent(h, e) ==
  IF ~e.ok THEN ChatFailed(h, e)
  ELSE CASE e.value.is = "reasoning_delta" ->
              [h EXCEPT !.sent = Append(@, Chunk("reasoning_content", e.value.value))]
         [] e.value.is = "text_delta" ->
              [h EXCEPT !.sent = Append(@, Chunk("content", e.value.value))]
         [] e.value.is = "done"    -> [h EXCEPT !.done = e.value.value]
         [] e.value.is = "segment" -> h

\* After the loop.  Without a Done nothing more is written.
ChatEnd(h) ==
  IF h.done = None THEN [h EXCEPT !.over = TRUE]
  ELSE [h EXCEPT !.sent = @ \o <<Chunk("finish", h.done.finish)>>
                            \o (IF h.usageAsked THEN <<Chunk("usage", h.done.usage)>> ELSE <<>>)
                            \o <<Chunk("[DONE]", None)>>,
                 !.over = TRUE]

-----------------------------------------------------------------------------
(* /v1/responses *)

\* reasoning_item and message_item.
ReasoningItem(text) == [type |-> "reasoning", text |-> text]
MessageItem(text)   == [type |-> "message", text |-> text]

\* response_json: status_for and terminal_event go by the finish reason alone,
\* and so do the incomplete_details.
ResponseJson(output, done) ==
  [output |-> output, status |-> IF done = None THEN "in_progress"
                                 ELSE IF done.finish = "stop" THEN "completed" ELSE "incomplete",
   usage |-> IF done = None THEN None ELSE done.usage]

\* completed_json: the whole answer.
CompletedJson(output) ==
  ResponseJson((IF output.reasoning = None THEN <<>> ELSE <<ReasoningItem(output.reasoning)>>)
                 \o <<MessageItem(output.text)>>,
               Finished(output.finish, output.usage))

\* An event: which item it is about, at which place of the output, and what
\* it carries.
Sse(type, item, index, v) == [type |-> type, item |-> item, index |-> index, value |-> v]

\* The macro ev!: events take the numbers that follow.
Emit(h, events) ==
  [h EXCEPT !.sent = @ \o [k \in DOMAIN events |->
                             [number |-> h.seq + k - 1, event |-> events[k]]],
            !.seq = @ + Len(events)]

InProgress(type) == Sse(type, None, None, ResponseJson(<<>>, None))

ResponsesOpen ==
  Emit([sent |-> <<>>, seq |-> 0, reasoning |-> <<>>, text |-> <<>>, reasoning_open |-> FALSE,
        reasoning_closed |-> FALSE, message_open |-> FALSE, done |-> None, over |-> FALSE],
       <<InProgress("response.created"), InProgress("response.in_progress")>>)

\* Ok(Event::ReasoningDelta(delta)).
ReasoningDelta(h, delta) ==
  Emit([h EXCEPT !.reasoning_open = TRUE, !.reasoning = Append(@, delta)],
       (IF h.reasoning_open THEN <<>>
        ELSE <<Sse("response.output_item.added", "reasoning", 0, ReasoningItem(<<>>))>>)
       \o <<Sse("response.reasoning_text.delta", "reasoning", 0, delta)>>)

\* Mutant: the item is closed once the answer begins, but not for an answer
\* that never does.
CloseReasoningForText(h) ==
  IF h.reasoning_open /\ ~h.reasoning_closed /\ h.done = None
    THEN <<Sse("response.reasoning_text.done", "reasoning", 0, h.reasoning),
           Sse("response.output_item.done", "reasoning", 0, ReasoningItem(h.reasoning))>>
    ELSE <<>>

CloseReasoning(h) ==
  IF h.reasoning_open /\ ~h.reasoning_closed
    THEN <<Sse("response.reasoning_text.done", "reasoning", 0, h.reasoning),
           Sse("response.output_item.done", "reasoning", 0, ReasoningItem(h.reasoning))>>
    ELSE <<>>

MessageIndex(h) == IF h.reasoning_open THEN 1 ELSE 0

OpenMessage(h) ==
  IF h.message_open THEN <<>>
  ELSE <<Sse("response.output_item.added", "message", MessageIndex(h), MessageItem(<<>>)),
         Sse("response.content_part.added", "message", MessageIndex(h), <<>>)>>

\* Ok(Event::TextDelta(delta)).
TextDelta(h, delta) ==
  Emit([h EXCEPT !.reasoning_closed = h.reasoning_open, !.message_open = TRUE,
                 !.text = Append(@, delta)],
       CloseReasoning(h) \o OpenMessage(h)
       \o <<Sse("response.output_text.delta", "message", MessageIndex(h), delta)>>)

ResponsesFailed(h, e) ==
  [Emit(h, <<Sse("response.failed", None, None, ApiError(e))>>) EXCEPT !.over = TRUE]

ResponsesEvent(h, e) ==
  IF ~e.ok THEN ResponsesFailed(h, e)
  ELSE CASE e.value.is = "reasoning_delta" -> ReasoningDelta(h, e.value.value)
         [] e.value.is = "text_delta"      -> TextDelta(h, e.value.value)
         [] e.value.is = "done"            -> [h EXCEPT !.done = e.value.value]
         [] e.value.is = "segment"         -> h

TerminalEvent(finish) == IF finish = "stop" THEN "response.completed" ELSE "response.incomplete"

\* Mutant: the final body lists the message first.
FinalOutputSwapped(h) ==
  <<MessageItem(h.text)>> \o (IF h.reasoning_open THEN <<ReasoningItem(h.reasoning)>> ELSE <<>>)

FinalOutput(h) ==
  (IF h.reasoning_open THEN <<ReasoningItem(h.reasoning)>> ELSE <<>>) \o <<MessageItem(h.text)>>

\* After the loop.  Without a Done nothing more is written.
ResponsesEnd(h) ==
  LET at == MessageIndex(h)
      closing ==
        <<Sse("response.output_text.done", "message", at, h.text),
          Sse("response.content_part.done", "message", at, h.text),
          Sse("response.output_item.done", "message", at, MessageItem(h.text)),
          Sse(TerminalEvent(h.done.finish), None, None, ResponseJson(FinalOutput(h), h.done))>>
  IN IF h.done = None THEN [h EXCEPT !.over = TRUE]
     ELSE [Emit(h, CloseReasoning(h) \o OpenMessage(h) \o closing) EXCEPT !.over = TRUE]

-----------------------------------------------------------------------------
(* /v1/audio/transcriptions *)

\* transcript: the segments' texts, without those that are blank.
TranscriptOf(segments) ==
  LET spoken == SelectSeq(segments, LAMBDA s : s.text # "")
  IN [k \in DOMAIN spoken |-> spoken[k].text]

\* Milliseconds as hours, minutes, seconds and milliseconds.
Timestamp(ms) ==
  <<ms \div 3600000, (ms \div 60000) % 60, (ms \div 1000) % 60, ms % 1000>>

Cue(s) == [start |-> Timestamp(s.start), end |-> Timestamp(s.end), text |-> s.text]

\* body: what each format tells of a transcript, verbose_json and srt with a
\* number for each segment.
TranscriptionBody(format, segments, duration, language) ==
  CASE format \in {"json", "text"} -> [text |-> TranscriptOf(segments)]
    [] format = "verbose_json" ->
         [text |-> TranscriptOf(segments), duration |-> duration,
          language |-> IF language = None THEN "en" ELSE language,
          segments |-> [k \in DOMAIN segments |-> [id |-> k - 1, segment |-> segments[k]]]]
    [] format = "srt" -> [cues |-> [k \in DOMAIN segments |-> <<k, Cue(segments[k])>>]]
    [] format = "vtt" -> [cues |-> [k \in DOMAIN segments |-> Cue(segments[k])]]

-----------------------------------------------------------------------------
(* /health and /v1/models *)

\* Mutant: one model that is ready makes the server healthy.
HealthAny(models) ==
  LET ready == models.ok /\ \E k \in DOMAIN models.value : models.value[k].state = "ready"
  IN [status |-> IF ready THEN 200 ELSE 503,
      models |-> IF models.ok THEN [k \in DOMAIN models.value |->
                                      <<models.value[k].id, models.value[k].state>>]
                              ELSE <<>>]

\* health: models is the Result of models().
Health(models) ==
  LET ready == models.ok /\ models.value # <<>>
               /\ \A k \in DOMAIN models.value : models.value[k].state = "ready"
  IN [status |-> IF ready THEN 200 ELSE 503,
      models |-> IF models.ok THEN [k \in DOMAIN models.value |->
                                      <<models.value[k].id, models.value[k].state>>]
                              ELSE <<>>]

ModelsBody(models) == [k \in DOMAIN models |-> models[k].id]
=============================================================================
