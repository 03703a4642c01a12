------------------------------- MODULE Worker -------------------------------
(***************************************************************************)
(* One model's worker: the bounded queue in front of it, the thread that   *)
(* serves the queue, the event channel of each call, and cancellation      *)
(* (rkmodel-server/src/worker/mod.rs), with the clients that drive it: the *)
(* unary and the streaming generate call of rkmodel-server/src/service.rs. *)
(*                                                                         *)
(* Threads: the worker thread (program counter wpc) and, for each call r,  *)
(* the task that owns its receiver and its RunHandle (client[r]).  They    *)
(* share the queue, the `current` mutex, the cancel flags and the event    *)
(* channels; every step below is one atomic access to one of those.  The   *)
(* runtime behind Backend is external: it prefills, calls back, returns.   *)
(***************************************************************************)
EXTENDS Naturals, Sequences

CONSTANTS
  Requests,      \* the calls, each standing for the id `submit` draws for it
  NoRequest,     \* `None` where a request id is expected
  QueueDepth,    \* the model's queue_depth (any usize: config does not check it)
  EventBuffer,   \* EVENT_BUFFER, 64 in the code
  MaxCallbacks,  \* bound: text callbacks in one run
  MaxPieces,     \* bound: pieces one chunk is split into
  MayPanic       \* whether a run may unwind the worker thread

ASSUME WorkerAssumption ==
  /\ NoRequest \notin Requests
  /\ QueueDepth \in Nat /\ EventBuffer \in Nat \ {0}
  /\ MaxCallbacks \in Nat /\ MaxPieces \in Nat
  /\ MayPanic \in BOOLEAN

VARIABLES
  \* shared between threads
  queue,      \* the jobs in the sync_channel, oldest first
  current,    \* Inner.current: the request the backend is running
  lock,       \* the cancel that holds the mutex around `current`
  cancelled,  \* cancelled[r]: the flag Job and RunHandle share
  chan,       \* chan[r]: the events buffered for r
  listening,  \* listening[r]: the receiver of r exists
  \* the task of each call
  client,     \* client[r]: where the task of r is
  received,   \* received[r]: how many deltas it has read
  outcome,    \* outcome[r]: how the stream ended, "pending" until it did
  \* the worker thread
  wpc,        \* its program counter
  job,        \* the job it took from the queue
  produced,   \* pieces the parser has returned for this job
  unsent,     \* those of them not yet sent
  callbacks,  \* text callbacks so far in this run
  held,       \* 1 when the parser holds a tail back, 0 when it does not
  result,     \* what Backend::run returned
  truncated,  \* requests whose run was told to stop before its end
  \* history
  sent,       \* sent[r]: how many deltas of r entered its channel
  final       \* final[r]: the final event that did, if any

shared == <<queue, current, lock, cancelled, chan, listening>>
task   == <<client, received, outcome>>
run    == <<produced, unsent, callbacks, held, result>>
published == <<sent, final>>
vars   == <<shared, task, wpc, job, run, truncated, published>>

(* An event carries its place in the output of its run: a delta the index  *)
(* of its piece, Done the number of pieces the whole output splits into.   *)
Event  == [kind : {"delta", "done", "failed"}, n : Nat]
Delta  == [kind |-> "delta", n |-> produced - unsent + 1]
Done   == [kind |-> "done", n |-> produced + held]
Failed == [kind |-> "failed", n |-> 0]

\* The runtime has a run in flight, which is what `abort` stops.
InFlight == wpc \in {"prefill", "decode", "send", "stopping"}

\* The sender of r lives in its job: in the queue, then on the worker thread.
SenderAlive(r) == job = r \/ \E i \in 1..Len(queue) : queue[i] = r

Init ==
  /\ queue = <<>> /\ current = NoRequest /\ lock = NoRequest
  /\ cancelled = [r \in Requests |-> FALSE]
  /\ chan = [r \in Requests |-> <<>>]
  /\ listening = [r \in Requests |-> TRUE]
  /\ client = [r \in Requests |-> "new"]
  /\ received = [r \in Requests |-> 0]
  /\ outcome = [r \in Requests |-> "pending"]
  /\ wpc = "recv" /\ job = NoRequest
  /\ produced = 0 /\ unsent = 0 /\ callbacks = 0 /\ held = 0 /\ result = "none"
  /\ truncated = {}
  /\ sent = [r \in Requests |-> 0]
  /\ final = [r \in Requests |-> "none"]
-----------------------------------------------------------------------------
(* Worker::submit, called by queue_generate.                               *)

Moves(r, to) == client' = [client EXCEPT ![r] = to]

\* A channel of depth 0 only hands a job to a thread already waiting for one.
HasRoom ==
  \/ Len(queue) < QueueDepth
  \/ QueueDepth = 0 /\ queue = <<>> /\ wpc = "recv"

Enqueue(r) ==
  /\ client[r] = "new" /\ wpc # "dead" /\ HasRoom
  /\ queue' = Append(queue, r)
  /\ Moves(r, "open")
  /\ UNCHANGED <<current, lock, cancelled, chan, listening, received, outcome,
                 wpc, job, run, truncated, published>>

Busy(r) ==
  /\ client[r] = "new" /\ wpc # "dead" /\ Len(queue) >= QueueDepth
  /\ Moves(r, "busy")
  /\ UNCHANGED <<shared, received, outcome, wpc, job, run, truncated, published>>

Unavailable(r) ==
  /\ client[r] = "new" /\ wpc = "dead"
  /\ Moves(r, "unavailable")
  /\ UNCHANGED <<shared, received, outcome, wpc, job, run, truncated, published>>
-----------------------------------------------------------------------------
(* The task of a call: it reads until the stream ends or the peer goes     *)
(* away, and then drops its RunHandle and, after it, the receiver.         *)

Receive(r) ==
  /\ client[r] = "open" /\ chan[r] # <<>>
  /\ outcome[r] # "failed"          \* both callers stop at the first error
  /\ chan' = [chan EXCEPT ![r] = Tail(@)]
  /\ IF Head(chan[r]).kind = "delta"
       THEN received' = [received EXCEPT ![r] = @ + 1] /\ UNCHANGED outcome
       ELSE outcome' = [outcome EXCEPT ![r] = Head(chan[r]).kind] /\ UNCHANGED received
  /\ UNCHANGED <<queue, current, lock, cancelled, listening, client,
                 wpc, job, run, truncated, published>>

\* RunHandle::drop: the flag is stored before the lock is asked for.
DropHandle(r) ==
  /\ cancelled' = [cancelled EXCEPT ![r] = TRUE]
  /\ Moves(r, "flagged")

\* The channel closed, or an error was read.
EndOfStream(r) ==
  /\ client[r] = "open"
  /\ outcome[r] = "failed" \/ (chan[r] = <<>> /\ ~SenderAlive(r))
  /\ outcome' = [outcome EXCEPT ![r] = IF @ = "pending" THEN "cut" ELSE @]
  /\ DropHandle(r)
  /\ UNCHANGED <<queue, current, lock, chan, listening, received,
                 wpc, job, run, truncated, published>>

\* tonic drops the response stream, or the future of the unary call.
HangUp(r) ==
  /\ client[r] = "open"
  /\ DropHandle(r)
  /\ UNCHANGED <<queue, current, lock, chan, listening, received, outcome,
                 wpc, job, run, truncated, published>>

\* Mutant: compares the id without keeping the lock.
CancelLockReleased(r) ==
  /\ client[r] = "flagged" /\ lock = NoRequest
  /\ Moves(r, IF current = r THEN "aborting" ELSE "unlocking")
  /\ UNCHANGED <<shared, received, outcome, wpc, job, run, truncated, published>>

CancelLock(r) ==
  /\ client[r] = "flagged" /\ lock = NoRequest
  /\ lock' = r
  /\ Moves(r, IF current = r THEN "aborting" ELSE "unlocking")
  /\ UNCHANGED <<queue, current, cancelled, chan, listening, received, outcome,
                 wpc, job, run, truncated, published>>

\* Backend::abort is not told which run to stop: it stops the one in flight.
CancelAbort(r) ==
  /\ client[r] = "aborting"
  /\ truncated' = IF InFlight THEN truncated \union {job} ELSE truncated
  /\ Moves(r, "unlocking")
  /\ UNCHANGED <<shared, received, outcome, wpc, job, run, published>>

\* Mutant: the guard is leaked.
CancelUnlockLeaked(r) ==
  /\ client[r] = "unlocking"
  /\ Moves(r, "dropping")
  /\ UNCHANGED <<shared, received, outcome, wpc, job, run, truncated, published>>

CancelUnlock(r) ==
  /\ client[r] = "unlocking"
  /\ lock' = NoRequest
  /\ Moves(r, "dropping")
  /\ UNCHANGED <<queue, current, cancelled, chan, listening, received, outcome,
                 wpc, job, run, truncated, published>>

\* Mutant: the receiver outlives the call.
DropReceiverKept(r) ==
  /\ client[r] = "dropping"
  /\ Moves(r, "gone")
  /\ UNCHANGED <<shared, received, outcome, wpc, job, run, truncated, published>>

DropReceiver(r) ==
  /\ client[r] = "dropping"
  /\ listening' = [listening EXCEPT ![r] = FALSE]
  /\ chan' = [chan EXCEPT ![r] = <<>>]
  /\ Moves(r, "gone")
  /\ UNCHANGED <<queue, current, lock, cancelled, received, outcome,
                 wpc, job, run, truncated, published>>
-----------------------------------------------------------------------------
(* The worker thread: run_job.                                             *)

Goes(from, to) == wpc = from /\ wpc' = to

\* The job is dropped, and its sender with it.
ClearJob ==
  /\ job' = NoRequest
  /\ produced' = 0 /\ unsent' = 0 /\ callbacks' = 0 /\ held' = 0 /\ result' = "none"

\* run_job returns to the loop over the queue.
DropJob == wpc' = "recv" /\ ClearJob

\* Mutant: the newest job first.
PopNewest ==
  /\ queue # <<>> /\ Goes("recv", "check")
  /\ job' = queue[Len(queue)] /\ queue' = SubSeq(queue, 1, Len(queue) - 1)
  /\ UNCHANGED <<current, lock, cancelled, chan, listening, task, run, truncated,
                 published>>

Pop ==
  /\ queue # <<>> /\ Goes("recv", "check")
  /\ job' = Head(queue) /\ queue' = Tail(queue)
  /\ UNCHANGED <<current, lock, cancelled, chan, listening, task, run, truncated, published>>

\* Mutant: the flag is not read when a job reaches the front.
CheckSkipped ==
  /\ Goes("check", "claim")
  /\ UNCHANGED <<shared, task, job, run, truncated, published>>

Check ==
  /\ wpc = "check"
  /\ IF cancelled[job] THEN DropJob ELSE wpc' = "claim" /\ UNCHANGED <<job, run>>
  /\ UNCHANGED <<shared, task, truncated, published>>

Claim ==
  /\ Goes("claim", "call") /\ lock = NoRequest
  /\ current' = job
  /\ UNCHANGED <<queue, lock, cancelled, chan, listening, task, job, run, truncated, published>>

Release ==
  /\ Goes("clear", "settle") /\ lock = NoRequest
  /\ current' = NoRequest
  /\ UNCHANGED <<queue, lock, cancelled, chan, listening, task, job, run, truncated, published>>

\* blocking_send waits while the buffer is full and fails once the receiver
\* is gone.
CanSend == listening[job] /\ Len(chan[job]) < EventBuffer
Send(e) == chan' = [chan EXCEPT ![job] = Append(@, e)]

\* Mutant: the flag is not read again after the run.
SettleUnchecked ==
  /\ wpc = "settle"
  /\ IF result = "ok" /\ held = 1
       THEN wpc' = "flush" /\ held' = 0 /\ unsent' = 1 /\ produced' = produced + 1
       ELSE wpc' = "report" /\ UNCHANGED <<produced, unsent, held>>
  /\ UNCHANGED <<shared, task, job, callbacks, result, truncated, published>>

\* Mutant: the error of a failed run is logged and forgotten.
SettleSwallowsError ==
  /\ wpc = "settle"
  /\ IF cancelled[job] \/ result = "err" THEN DropJob
     ELSE /\ IF held = 1
               THEN wpc' = "flush" /\ held' = 0 /\ unsent' = 1 /\ produced' = produced + 1
               ELSE wpc' = "report" /\ UNCHANGED <<produced, unsent, held>>
          /\ UNCHANGED <<job, callbacks, result>>
  /\ UNCHANGED <<shared, task, truncated, published>>

\* Mutant: the parser is never asked for its tail.
SettleWithoutFlush ==
  /\ wpc = "settle"
  /\ IF cancelled[job] THEN DropJob ELSE wpc' = "report" /\ UNCHANGED <<job, run>>
  /\ UNCHANGED <<shared, task, truncated, published>>

\* Nothing more is said of a cancelled run.  Of any other, a failure is
\* reported, and success flushes the parser's tail first.
Settle ==
  /\ wpc = "settle"
  /\ IF cancelled[job] THEN DropJob
     ELSE /\ IF result = "ok" /\ held = 1
               THEN /\ wpc' = "flush" /\ held' = 0
                    /\ unsent' = 1 /\ produced' = produced + 1
               ELSE wpc' = "report" /\ UNCHANGED <<produced, unsent, held>>
          /\ UNCHANGED <<job, callbacks, result>>
  /\ UNCHANGED <<shared, task, truncated, published>>

SendDelta ==
  /\ Send(Delta)
  /\ unsent' = unsent - 1
  /\ sent' = [sent EXCEPT ![job] = @ + 1]
  /\ UNCHANGED <<queue, current, lock, cancelled, listening, task, job, produced,
                 callbacks, held, result, truncated, final>>

Flush == Goes("flush", "report") /\ CanSend /\ SendDelta

Report ==
  /\ wpc = "report" /\ CanSend
  /\ LET e == IF result = "ok" THEN Done ELSE Failed
     IN  Send(e) /\ final' = [final EXCEPT ![job] = e.kind]
  /\ DropJob
  /\ UNCHANGED <<queue, current, lock, cancelled, listening, task, truncated, sent>>

\* The final sends of a job whose client has gone: their errors end run_job.
SendRefused ==
  /\ wpc \in {"flush", "report"} /\ ~listening[job]
  /\ DropJob
  /\ UNCHANGED <<shared, task, truncated, published>>
-----------------------------------------------------------------------------
(* Backend::run, and the callback run_job gives it.                        *)

BeginPrefill ==
  /\ Goes("call", "prefill")
  /\ UNCHANGED <<shared, task, job, run, truncated, published>>

BeginDecode ==
  /\ Goes("prefill", "decode")
  /\ UNCHANGED <<shared, task, job, run, truncated, published>>

\* A token: the parser returns k pieces and may hold a tail back.  It splits
\* on text only, so a chunk it returns nothing for is one it holds or a bare
\* marker.  A callback without text changes nothing and is not a step.
Callback(k, h) ==
  /\ wpc = "decode" /\ callbacks < MaxCallbacks /\ ~cancelled[job]
  /\ callbacks' = callbacks + 1
  /\ produced' = produced + k /\ unsent' = k /\ held' = h
  /\ wpc' = IF k > 0 THEN "send" ELSE "decode"
  /\ UNCHANGED <<shared, task, job, result, truncated, published>>

\* Mutant: try_send, which drops the piece when the buffer is full.
SendPieceLossy ==
  /\ wpc = "send" /\ listening[job]
  /\ wpc' = IF unsent = 1 THEN "decode" ELSE "send"
  /\ IF Len(chan[job]) < EventBuffer THEN SendDelta
     ELSE /\ unsent' = unsent - 1
          /\ UNCHANGED <<shared, task, job, produced, callbacks, held, result,
                         truncated, published>>

\* Mutant: one send too many.
SendPieceTwice ==
  /\ wpc = "send" /\ CanSend
  /\ wpc' = IF unsent = 0 THEN "decode" ELSE "send"
  /\ SendDelta

SendPiece ==
  /\ wpc = "send" /\ CanSend
  /\ wpc' = IF unsent = 1 THEN "decode" ELSE "send"
  /\ SendDelta

\* Flow::Stop: the flag was seen, or the send failed.
Stop ==
  /\ \/ wpc = "decode" /\ callbacks < MaxCallbacks /\ cancelled[job]
     \/ wpc = "send" /\ ~listening[job]
  /\ wpc' = "stopping"
  /\ truncated' = truncated \union {job}
  /\ UNCHANGED <<shared, task, job, run, published>>

\* The run ends, by itself or because it was stopped, well or with an error.
\* It may also fail before the runtime is called (Input::prompt).
Return ==
  /\ wpc' = "clear"
  /\ \/ wpc \in {"prefill", "decode", "stopping"} /\ result' \in {"ok", "err"}
     \/ wpc = "call" /\ result' = "err"
  /\ UNCHANGED <<shared, task, job, produced, unsent, callbacks, held, truncated, published>>

\* A panic under Backend::run unwinds the thread: the job is dropped, and the
\* queue with the jobs in it.  `current` keeps the id of the dead run.
Panic ==
  /\ MayPanic /\ wpc \in {"prefill", "decode"}
  /\ wpc' = "dead" /\ ClearJob
  /\ queue' = <<>>
  /\ UNCHANGED <<current, lock, cancelled, chan, listening, task, truncated, published>>
-----------------------------------------------------------------------------
WorkerThread ==
  \/ Pop \/ Check \/ Claim \/ Release \/ Settle \/ Flush \/ Report \/ SendRefused
  \/ BeginPrefill \/ BeginDecode \/ SendPiece \/ Stop \/ Return
  \/ \E k \in 0..MaxPieces, h \in 0..1 : Callback(k, h)

Submit(r) == Enqueue(r) \/ Busy(r) \/ Unavailable(r)
Read(r)   == Receive(r) \/ EndOfStream(r)
Cancel(r) == CancelLock(r) \/ CancelAbort(r) \/ CancelUnlock(r) \/ DropReceiver(r)

\* Every call is over and the thread waits for another: the only rest.
Over(r) == client[r] \in {"busy", "unavailable", "gone"}
Idle ==
  /\ \A r \in Requests : Over(r)
  /\ wpc \in {"recv", "dead"} /\ queue = <<>>
  /\ UNCHANGED vars

Next ==
  \/ WorkerThread \/ Panic \/ Idle
  \/ \E r \in Requests : Submit(r) \/ Read(r) \/ HangUp(r) \/ Cancel(r)

Spec == Init /\ [][Next]_vars

\* The operating system runs the worker thread, every run the runtime starts
\* comes to its end, and a drop that began is carried through.  No client has
\* to read, to leave, or to call at all.
Fairness ==
  /\ WF_vars(WorkerThread)
  /\ \A r \in Requests : WF_vars(Cancel(r))

FairSpec == Spec /\ Fairness

\* A client that stays keeps reading: assumed by EveryCallEnds alone.
ClientsRead == \A r \in Requests : WF_vars(Read(r))
-----------------------------------------------------------------------------
\* The type of every variable.
TypeOK ==
  /\ queue \in Seq(Requests)
  /\ current \in Requests \union {NoRequest}
  /\ lock \in Requests \union {NoRequest}
  /\ cancelled \in [Requests -> BOOLEAN]
  /\ chan \in [Requests -> Seq(Event)]
  /\ listening \in [Requests -> BOOLEAN]
  /\ client \in [Requests -> {"new", "busy", "unavailable", "open", "flagged",
                              "aborting", "unlocking", "dropping", "gone"}]
  /\ received \in [Requests -> Nat]
  /\ outcome \in [Requests -> {"pending", "done", "failed", "cut"}]
  /\ wpc \in {"recv", "check", "claim", "call", "prefill", "decode", "send",
              "stopping", "clear", "settle", "flush", "report", "dead"}
  /\ job \in Requests \union {NoRequest}
  /\ produced \in Nat /\ unsent \in Nat /\ callbacks \in Nat
  /\ held \in 0..1 /\ result \in {"none", "ok", "err"}
  /\ truncated \subseteq Requests
  /\ sent \in [Requests -> Nat]
  /\ final \in [Requests -> {"none", "done", "failed"}]

\* `abort` is not scoped to a run, yet it only ever lands on a run whose own
\* request was cancelled: "an abort either hits the right run or hits
\* nothing" (worker/mod.rs:50-56), whatever the worker and the cancels of
\* finished, running and queued requests interleave to.
AbortHitsOwnRun == \A r \in truncated : cancelled[r]

\* What a client reads is the output of its run in order, with nothing lost,
\* repeated or added: the deltas of a channel continue those already read, a
\* final event is the last of its stream, and nothing follows it.
StreamInOrder ==
  \A r \in Requests : \A i \in 1..Len(chan[r]) :
    /\ outcome[r] = "pending"
    /\ chan[r][i].kind = "delta" => chan[r][i].n = received[r] + i
    /\ chan[r][i].kind # "delta" => i = Len(chan[r])

\* Done comes after every piece the parser made of the output, the tail it
\* was holding back included.
DoneMeansWhole ==
  \A r \in Requests : \A i \in 1..Len(chan[r]) :
    chan[r][i].kind = "done" => chan[r][i].n = received[r] + i - 1

\* A run that was stopped short is never passed off as a finished or a failed
\* one: "a cancelled run produced no final event" (worker/mod.rs:210-213).
TruncatedHasNoFinal == \A r \in truncated : final[r] = "none"

\* A client that keeps listening is told how its run ended, unless the worker
\* thread died: "ended without a final event" (service.rs:98-101) is left for
\* that case alone.
CutOnlyByCrash == \A r \in Requests : outcome[r] = "cut" => wpc = "dead"

\* "A request cancelled while queued never reaches the backend": once the
\* flag of a waiting request is stored, its run never enters prefill.
Queued(r) == \E i \in 1..Len(queue) : queue[i] = r
CancelledInQueueNeverRuns ==
  \A r \in Requests :
    [](Queued(r) /\ cancelled[r] => [](job = r => ~InFlight))

\* A cancel that has run to its end leaves no prefill of its own request
\* behind: "The first chunk comes after prefill, which runs for seconds on a
\* long prompt or an image.  So the daemon also calls RkllmSession::abort"
\* (MODEL_SERVER.md:435-437).
CancelStopsPrefill ==
  \A r \in Requests :
    client[r] = "gone" /\ job = r /\ wpc = "prefill" => r \in truncated

\* A request whose client has left does not hold the worker: not through
\* prefill, nor blocked on a full channel nobody reads.
LeaverFreesWorker ==
  \A r \in Requests : (job = r /\ cancelled[r]) ~> (job # r)

\* While clients that stay keep reading, every call that was accepted comes to
\* its end: no lock, full channel or crash can stop the queue for good.
EveryCallEnds ==
  ClientsRead => \A r \in Requests : client[r] = "open" ~> client[r] = "gone"
-----------------------------------------------------------------------------
(* The worker implements the contract of RunStream.  The client of r has   *)
(* left, there, as soon as its flag is stored here.                        *)
Stage(r) ==
  CASE client[r] = "new" -> "new"
    [] client[r] \in {"busy", "unavailable"} -> "refused"
    [] job = r -> "active"
    [] Queued(r) -> "waiting"
    [] OTHER -> "over"

Contract ==
  INSTANCE RunStream WITH
    stage <- [r \in Requests |-> Stage(r)],
    line <- queue,
    published <- sent,
    left <- {r \in Requests : cancelled[r]},
    stopped <- (wpc = "dead")

ImplementsRunStream == Contract!Spec
=============================================================================
