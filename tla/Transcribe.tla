------------------------------ MODULE Transcribe ------------------------------
(***************************************************************************)
(* One upload on POST /v1/audio/transcriptions, across both processes:     *)
(*                                                                         *)
(*   decoder thread -> pcm -> outbound messages -> wire -> pump ->         *)
(*   rkwhisperd -> responses -> reader -> events -> reply -> handler       *)
(*                                                                         *)
(* The frontend (rkmodel-server-openai) has the handler, the decoder       *)
(* thread and, in rkmodel-server-client, the outbound message stream.  The *)
(* daemon (rkmodel-server) has the response stream and the two tasks of    *)
(* transcribe::start.  rkwhisperd, its client and HTTP/2 are external.     *)
(* Each task takes its steps on its own; what joins them are the bounded   *)
(* channels between them and the dropping of one end or the other.         *)
(***************************************************************************)
EXTENDS Naturals, Sequences

CONSTANTS
  MaxChunks,    \* bound: chunks of PCM an upload decodes to
  MaxSegments,  \* bound: segments rkwhisperd hears in it
  PcmQueue,     \* QUEUE, 4 in decode.rs
  EventBuffer,  \* EVENT_BUFFER, 16 in transcribe/mod.rs
  Window        \* bound: what one direction of a connection holds

ASSUME TranscribeAssumption ==
  /\ MaxChunks \in Nat /\ MaxSegments \in Nat
  /\ PcmQueue \in Nat \ {0} /\ EventBuffer \in Nat \ {0} /\ Window \in Nat \ {0}

VARIABLES
  \* the frontend
  handler,    \* where the handler of the upload is
  got,        \* segments it has collected
  finished,   \* it has read Done
  dec,        \* program counter of the decoder thread
  produced,   \* its counter: chunks sent so far
  pcm,        \* the channel from the decoder to the outbound messages
  out,        \* the outbound message stream
  \* the call
  call,       \* "open" until the frontend ends it or the connection is lost
  wire,       \* audio messages on their way to the daemon
  reply,      \* events on their way to the frontend
  \* the daemon
  stream,     \* the response stream of invoke_stream
  events,     \* the channel from the reader to it
  pump,       \* program counter of the task that owns the sender
  reader,     \* program counter of the task that owns the receiver
  event,      \* what the reader is sending
  aborted,    \* which of the two tasks SessionHandle has aborted
  \* rkwhisperd
  job,        \* the transcription
  heard,      \* chunks of audio it was given
  issued,     \* segments it has sent
  responses,  \* its responses not yet read
  \* history
  broken      \* decoding this upload failed

frontend == <<handler, got, finished>>
decoder  == <<dec, produced, broken>>
session  == <<pump, reader, event, aborted>>
whisper  == <<job, heard, issued, responses>>
vars     == <<frontend, decoder, pcm, out, call, wire, reply, stream, events,
              session, whisper>>

Init ==
  /\ handler = "calling" /\ got = 0 /\ finished = FALSE
  /\ dec = "decode" /\ produced = 0 /\ broken = FALSE
  /\ pcm = <<>> /\ out = "open"
  /\ call = "open" /\ wire = 0 /\ reply = <<>>
  /\ stream = "opening" /\ events = <<>>
  /\ pump = "none" /\ reader = "none" /\ event = "none" /\ aborted = {}
  /\ job = "none" /\ heard = 0 /\ issued = 0 /\ responses = <<>>
-----------------------------------------------------------------------------
(* The decoder thread: Source::run.  A packet it cannot decode is skipped  *)
(* and an upload that breaks off early ends like a whole one, so either    *)
(* is a shorter clip here; any other error of the container is a failure.  *)

NextChunk ==
  /\ dec = "decode" /\ produced < MaxChunks
  /\ dec' = "send"
  /\ UNCHANGED <<frontend, produced, broken, pcm, out, call, wire, reply, stream,
                 events, session, whisper>>

EndOfUpload ==
  /\ dec = "decode"
  /\ dec' = "ended"
  /\ UNCHANGED <<frontend, produced, broken, pcm, out, call, wire, reply, stream,
                 events, session, whisper>>

DecodeFails ==
  /\ dec = "decode"
  /\ dec' = "failed" /\ broken' = TRUE
  /\ UNCHANGED <<frontend, produced, pcm, out, call, wire, reply, stream,
                 events, session, whisper>>

\* Mutant: the channel has no bound.
SendPcmUnbounded(item) == out = "open" /\ pcm' = Append(pcm, item)

\* blocking_send: the channel's bound is what slows decoding down.
SendPcm(item) == out = "open" /\ Len(pcm) < PcmQueue /\ pcm' = Append(pcm, item)

SendChunk ==
  /\ dec = "send" /\ SendPcm("audio")
  /\ dec' = "count"
  /\ UNCHANGED <<frontend, produced, broken, out, call, wire, reply, stream,
                 events, session, whisper>>

CountChunk ==
  /\ dec = "count"
  /\ dec' = "decode" /\ produced' = produced + 1
  /\ UNCHANGED <<frontend, broken, pcm, out, call, wire, reply, stream,
                 events, session, whisper>>

SendFailure ==
  /\ dec = "failed" /\ SendPcm("error")
  /\ dec' = "ended"
  /\ UNCHANGED <<frontend, produced, broken, out, call, wire, reply, stream,
                 events, session, whisper>>

\* "A closed channel means the request went away."
RequestEnded ==
  /\ dec \in {"send", "failed"} /\ out # "open"
  /\ dec' = "ended"
  /\ UNCHANGED <<frontend, produced, broken, pcm, out, call, wire, reply, stream,
                 events, session, whisper>>
-----------------------------------------------------------------------------
(* The client's outbound message stream.                                   *)

ForwardChunk ==
  /\ out = "open" /\ call = "open" /\ pcm # <<>> /\ Head(pcm) = "audio"
  /\ wire < Window
  /\ pcm' = Tail(pcm) /\ wire' = wire + 1
  /\ UNCHANGED <<frontend, decoder, out, call, reply, stream, events, session, whisper>>

\* The stream of messages ends, and with it the request, when the audio does
\* and equally when the audio fails.
OutboundEnds ==
  /\ out = "open"
  /\ IF pcm = <<>> THEN dec = "ended" ELSE Head(pcm) = "error"
  /\ out' = "closed" /\ pcm' = <<>>
  /\ UNCHANGED <<frontend, decoder, call, wire, reply, stream, events, session, whisper>>

\* The transport drops the body of a call that is over.
OutboundDropped ==
  /\ out = "open" /\ call # "open"
  /\ out' = "dropped" /\ pcm' = <<>>
  /\ UNCHANGED <<frontend, decoder, call, wire, reply, stream, events, session, whisper>>
-----------------------------------------------------------------------------
(* The handler: it collects the events and writes one body.                *)

Answer(to) == handler' = to /\ call' = "over"

Opened ==
  /\ handler = "calling" /\ call = "open" /\ stream \in {"open", "ended"}
  /\ handler' = "reading"
  /\ UNCHANGED <<got, finished, decoder, pcm, out, call, wire, reply, stream, events,
                 session, whisper>>

CallRefused ==
  /\ handler = "calling" /\ call = "open" /\ stream = "refused"
  /\ Answer("error")
  /\ UNCHANGED <<got, finished, decoder, pcm, out, wire, reply, stream, events,
                 session, whisper>>

ReadEvent ==
  /\ handler = "reading" /\ call = "open" /\ reply # <<>>
  /\ reply' = Tail(reply)
  /\ got' = IF Head(reply) = "segment" THEN got + 1 ELSE got
  /\ finished' = (finished \/ Head(reply) = "done")
  /\ IF Head(reply) = "error" THEN Answer("error") ELSE UNCHANGED <<handler, call>>
  /\ UNCHANGED <<decoder, pcm, out, wire, stream, events, session, whisper>>

ReadEnd ==
  /\ handler = "reading" /\ call = "open" /\ reply = <<>> /\ stream = "ended"
  /\ Answer(IF finished THEN "ok" ELSE "error")
  /\ UNCHANGED <<got, finished, decoder, pcm, out, wire, reply, stream, events,
                 session, whisper>>

ReadLost ==
  /\ handler \in {"calling", "reading"} /\ call = "lost"
  /\ Answer("error")
  /\ UNCHANGED <<got, finished, decoder, pcm, out, wire, reply, stream, events,
                 session, whisper>>

\* The HTTP client goes away and axum drops the handler's future.
HangUp ==
  /\ handler \in {"calling", "reading"}
  /\ Answer("gone")
  /\ UNCHANGED <<got, finished, decoder, pcm, out, wire, reply, stream, events,
                 session, whisper>>

\* The connection between the two processes breaks.
LinkLost ==
  /\ call = "open"
  /\ call' = "lost" /\ reply' = <<>>
  /\ UNCHANGED <<frontend, decoder, pcm, out, wire, stream, events, session, whisper>>
-----------------------------------------------------------------------------
(* The daemon's response stream: invoke_stream.                            *)

\* The session opens and transcribe::start spawns both tasks.
Opens ==
  /\ stream = "opening"
  /\ stream' = "open" /\ pump' = "next" /\ reader' = "recv" /\ job' = "running"
  /\ UNCHANGED <<frontend, decoder, pcm, out, call, wire, reply, events, event,
                 aborted, heard, issued, responses>>

\* A check of the call fails, or rkwhisperd refuses the session.
Refuses ==
  /\ stream = "opening"
  /\ stream' = "refused"
  /\ UNCHANGED <<frontend, decoder, pcm, out, call, wire, reply, events, session, whisper>>

\* Mutant: the handle aborts the task that sends, not the one that reads.
DropSessionPumpOnly == aborted' = {"pump"}

\* Mutant: the other way round.
DropSessionReaderOnly == aborted' = {"reader"}

\* SessionHandle::drop.  The tasks end at their next await, not here.
DropSession == aborted' = {"pump", "reader"}

Relay ==
  /\ stream = "open" /\ call = "open" /\ events # <<>> /\ Len(reply) < Window
  /\ events' = Tail(events) /\ reply' = Append(reply, Head(events))
  /\ IF Head(events) = "error"
       THEN stream' = "ended" /\ DropSession
       ELSE UNCHANGED <<stream, aborted>>
  /\ UNCHANGED <<frontend, decoder, pcm, out, call, wire, pump, reader, event, whisper>>

StreamEnds ==
  /\ stream = "open" /\ events = <<>> /\ reader = "ended"
  /\ stream' = "ended" /\ DropSession
  /\ UNCHANGED <<frontend, decoder, pcm, out, call, wire, reply, events, pump, reader,
                 event, whisper>>

\* tonic drops the stream, or the future that was still opening it.
StreamDropped ==
  /\ stream \in {"opening", "open"} /\ call # "open"
  /\ stream' = "dropped" /\ events' = <<>> /\ DropSession
  /\ UNCHANGED <<frontend, decoder, pcm, out, call, wire, reply, pump, reader, event,
                 whisper>>
-----------------------------------------------------------------------------
(* The pump: audio_stream, and the task that hands it to the sender.  Its  *)
(* end drops the sender, "dropped" unless finish() went through before.    *)

Pumps(from, to) == pump = from /\ pump' = to

TakeAudio ==
  /\ wire > 0 /\ Pumps("next", "send")
  /\ wire' = wire - 1
  /\ UNCHANGED <<frontend, decoder, pcm, out, call, reply, stream, events, reader, event,
                 aborted, whisper>>

AudioEnds ==
  /\ wire = 0 /\ out = "closed" /\ Pumps("next", "finish")
  /\ UNCHANGED <<frontend, decoder, pcm, out, call, wire, reply, stream, events, reader,
                 event, aborted, whisper>>

AudioFails ==
  /\ call # "open" /\ Pumps("next", "dropped")
  /\ UNCHANGED <<frontend, decoder, pcm, out, call, wire, reply, stream, events, reader,
                 event, aborted, whisper>>

\* send_audio waits for room in rkwhisperd's ring.
SendAudio ==
  /\ job = "running" /\ Pumps("send", "next")
  /\ heard' = heard + 1
  /\ UNCHANGED <<frontend, decoder, pcm, out, call, wire, reply, stream, events, reader,
                 event, aborted, job, issued, responses>>

\* Mutant: a chunk that cannot be sent is skipped.
SendAudioFailsSkipped ==
  /\ Pumps("send", "next")
  /\ UNCHANGED <<frontend, decoder, pcm, out, call, wire, reply, stream, events, reader,
                 event, aborted, whisper>>

SendAudioFails ==
  /\ Pumps("send", "dropped")
  /\ UNCHANGED <<frontend, decoder, pcm, out, call, wire, reply, stream, events, reader,
                 event, aborted, whisper>>

Finish ==
  /\ \E to \in {"finished", "dropped"} : Pumps("finish", to)
  /\ UNCHANGED <<frontend, decoder, pcm, out, call, wire, reply, stream, events, reader,
                 event, aborted, whisper>>

PumpAborted ==
  /\ "pump" \in aborted /\ pump \in {"next", "send", "finish"}
  /\ pump' = "dropped"
  /\ UNCHANGED <<frontend, decoder, pcm, out, call, wire, reply, stream, events, reader,
                 event, aborted, whisper>>
-----------------------------------------------------------------------------
(* The reader, with map_response.                                          *)

\* Mutant: Cancelled carries no event and is passed over.
ReceiveIgnoresCancelled ==
  /\ reader = "recv" /\ responses # <<>>
  /\ responses' = Tail(responses)
  /\ IF Head(responses) \in {"note", "cancelled"} THEN UNCHANGED <<reader, event>>
     ELSE reader' = "send" /\ event' = Head(responses)
  /\ UNCHANGED <<frontend, decoder, pcm, out, call, wire, reply, stream, events, pump,
                 aborted, job, heard, issued>>

\* A note is a response without an event (a VAD boundary).  "Cancelled" is an
\* acknowledgement and ends the stream without an event.
Receive ==
  /\ reader = "recv" /\ responses # <<>>
  /\ responses' = Tail(responses)
  /\ CASE Head(responses) = "note" -> UNCHANGED <<reader, event>>
       [] Head(responses) = "cancelled" -> reader' = "ended" /\ UNCHANGED event
       [] OTHER -> reader' = "send" /\ event' = Head(responses)
  /\ UNCHANGED <<frontend, decoder, pcm, out, call, wire, reply, stream, events, pump,
                 aborted, job, heard, issued>>

SendEvent ==
  /\ reader = "send" /\ stream = "open" /\ Len(events) < EventBuffer
  /\ events' = Append(events, event)
  /\ reader' = IF event = "segment" THEN "recv" ELSE "ended"
  /\ event' = "none"
  /\ UNCHANGED <<frontend, decoder, pcm, out, call, wire, reply, stream, pump,
                 aborted, whisper>>

SendEventFails ==
  /\ reader = "send" /\ stream # "open"
  /\ reader' = "ended" /\ event' = "none"
  /\ UNCHANGED <<frontend, decoder, pcm, out, call, wire, reply, stream, events, pump,
                 aborted, whisper>>

ReaderAborted ==
  /\ "reader" \in aborted /\ reader \in {"recv", "send"}
  /\ reader' = "ended" /\ event' = "none"
  /\ UNCHANGED <<frontend, decoder, pcm, out, call, wire, reply, stream, events, pump,
                 aborted, whisper>>
-----------------------------------------------------------------------------
(* rkwhisperd, as this code and its comments rely on it.                   *)

Respond(r) == responses' = IF reader = "ended" THEN responses ELSE Append(responses, r)

\* A segment, or a VAD boundary, of the audio heard so far.
Hears ==
  /\ job = "running" /\ heard > 0 /\ Len(responses) < Window
  /\ \/ issued < MaxSegments /\ issued' = issued + 1 /\ Respond("segment")
     \/ UNCHANGED issued /\ Respond("note")
  /\ UNCHANGED <<frontend, decoder, pcm, out, call, wire, reply, stream, events,
                 session, job, heard>>

\* Done answers finish().
Completes ==
  /\ job = "running" /\ pump = "finished"
  /\ job' = "done" /\ Respond("done")
  /\ UNCHANGED <<frontend, decoder, pcm, out, call, wire, reply, stream, events,
                 session, heard, issued>>

\* BackOff, an Error response, or the socket closing.
Fails ==
  /\ job = "running"
  /\ job' = "failed" /\ Respond("error")
  /\ UNCHANGED <<frontend, decoder, pcm, out, call, wire, reply, stream, events,
                 session, heard, issued>>

\* The sender dropped before finish(), or the whole session.
Cancels ==
  /\ job = "running"
  /\ pump = "dropped" \/ (pump = "finished" /\ reader = "ended")
  /\ job' = "cancelled" /\ Respond("cancelled")
  /\ UNCHANGED <<frontend, decoder, pcm, out, call, wire, reply, stream, events,
                 session, heard, issued>>
-----------------------------------------------------------------------------
Decoder  == NextChunk \/ EndOfUpload \/ DecodeFails \/ SendChunk \/ CountChunk
            \/ SendFailure \/ RequestEnded
Outbound == ForwardChunk \/ OutboundEnds \/ OutboundDropped
Handler  == Opened \/ CallRefused \/ ReadEvent \/ ReadEnd \/ ReadLost
Service  == Relay \/ StreamEnds \/ StreamDropped
Pump     == TakeAudio \/ AudioEnds \/ AudioFails
Reader   == Receive \/ SendEvent \/ SendEventFails

Answered    == handler \in {"ok", "error", "gone"}
NothingLeft ==
  /\ dec = "ended" /\ stream \notin {"opening", "open"}
  /\ pump \in {"none", "finished", "dropped"} /\ reader \in {"none", "ended"}

Idle == Answered /\ NothingLeft /\ UNCHANGED vars

Next ==
  \/ Decoder \/ Outbound \/ Handler \/ Service \/ Pump \/ Reader
  \/ PumpAborted \/ ReaderAborted
  \/ Opens \/ Refuses \/ SendAudio \/ SendAudioFails \/ Finish
  \/ Hears \/ Completes \/ Fails \/ Cancels
  \/ HangUp \/ LinkLost \/ Idle

Spec == Init /\ [][Next]_vars

\* Every thread and task of both processes is scheduled, and the runtime ends
\* a task that was aborted when it next awaits.  Nothing is assumed of
\* rkwhisperd, of the connection or of the HTTP client.
Fairness ==
  /\ WF_vars(Decoder) /\ WF_vars(Outbound) /\ WF_vars(Handler)
  /\ WF_vars(Service) /\ WF_vars(Pump) /\ WF_vars(Reader)
  /\ WF_vars(PumpAborted) /\ WF_vars(ReaderAborted)

FairSpec == Spec /\ Fairness

\* rkwhisperd notices a session that was dropped.
WhisperCancels == WF_vars(Cancels)

\* rkwhisperd answers: it opens or refuses a session, makes room for audio,
\* and finishes or cancels what it was given.
WhisperAnswers ==
  /\ WF_vars(Opens \/ Refuses) /\ WF_vars(SendAudio \/ SendAudioFails)
  /\ WF_vars(Finish) /\ WF_vars(Completes) /\ WF_vars(Cancels)
-----------------------------------------------------------------------------
\* The type of every variable.
TypeOK ==
  /\ handler \in {"calling", "reading", "ok", "error", "gone"}
  /\ got \in Nat /\ finished \in BOOLEAN
  /\ dec \in {"decode", "send", "count", "failed", "ended"}
  /\ produced \in Nat /\ broken \in BOOLEAN
  /\ pcm \in Seq({"audio", "error"}) /\ Len(pcm) <= PcmQueue
  /\ out \in {"open", "closed", "dropped"}
  /\ call \in {"open", "over", "lost"}
  /\ wire \in 0..Window
  /\ reply \in Seq({"segment", "done", "error"}) /\ Len(reply) <= Window
  /\ stream \in {"opening", "open", "refused", "ended", "dropped"}
  /\ events \in Seq({"segment", "done", "error"}) /\ Len(events) <= EventBuffer
  /\ pump \in {"none", "next", "send", "finish", "finished", "dropped"}
  /\ reader \in {"none", "recv", "send", "ended"}
  /\ event \in {"none", "segment", "done", "error"}
  /\ aborted \subseteq {"pump", "reader"}
  /\ job \in {"none", "running", "done", "failed", "cancelled"}
  /\ heard \in Nat /\ issued \in Nat
  /\ responses \in Seq({"segment", "note", "done", "error", "cancelled"})

\* What is answered with 200 is the transcript of exactly the audio the answer
\* gives the duration of: every chunk the decoder counted reached rkwhisperd,
\* every segment it sent is in the body, and the counter has stopped
\* ("the clip the daemon was actually sent", routes.rs:503-505).
AnswerIsConsistent ==
  handler = "ok" => heard = produced /\ got = issued /\ dec = "ended"

\* However the handler ends, nothing of the upload stays behind in either
\* process: not the decoder thread in its channel, not a task of the session,
\* even when rkwhisperd hangs.
UploadLeavesNothing == Answered ~> NothingLeft

\* "MODEL_SERVER.md:432: the daemon drops its rkwhisper-client session, which
\* cancels the job in rkwhisperd": a caller that left costs no NPU time, as
\* long as rkwhisperd notices sessions that are dropped.
HangUpStopsJob == WhisperCancels => (handler = "gone" ~> job # "running")

\* Every upload is answered while rkwhisperd answers, in either direction's
\* backpressure and whatever fails on the way.
UploadIsAnswered == WhisperAnswers => (handler = "calling" ~> Answered)

\* A failed decode "ends the call, and the daemon cancels" (client
\* lib.rs:96-97), "rather than letting rkwhisperd transcribe a truncated clip
\* and call it complete" (transcribe/mod.rs:103-105).
AnswerCoversUpload == handler = "ok" => ~broken

\* The stream of a call "ends with Event::Done or an error" (protocol
\* lib.rs:53): a caller that read all of it has seen one of the two.
EndsWithDoneOrError ==
  handler = "reading" /\ call = "open" /\ stream = "ended" /\ reply = <<>> => finished
=============================================================================
