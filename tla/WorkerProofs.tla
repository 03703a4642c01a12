---------------------------- MODULE WorkerProofs ----------------------------
(***************************************************************************)
(* Machine-checked proofs about Worker, for any set of calls, queue depth, *)
(* event buffer and number of callbacks: first what its variables hold and *)
(* whom an abort stops, upon that what a client is told, and how its       *)
(* stream ends, and last that nobody waits for good.                       *)
(***************************************************************************)
EXTENDS Worker, SequenceTheorems, TLAPS

(* The parts of the inductive invariant. *)

\* The worker thread holds a job exactly between taking it from the queue and
\* dropping it, and has a piece left whenever it is about to send one.
JobInv ==
  /\ job = NoRequest <=> wpc \in {"recv", "dead"}
  /\ unsent <= produced
  /\ wpc \in {"send", "flush"} => unsent > 0

Cancelling == {"flagged", "aborting", "unlocking", "dropping", "gone"}

\* The lock belongs to the cancel inside it; while one decided to abort, its
\* request stays the current one; and `current` names the job while it may be
\* in flight, unless the thread died under it.
LockInv ==
  /\ \A r \in Requests : client[r] \in {"aborting", "unlocking"} <=> lock = r
  /\ \A r \in Requests : client[r] = "aborting" => current = r
  /\ \/ current = NoRequest
     \/ wpc = "dead"
     \/ /\ current = job
        /\ wpc \in {"call", "prefill", "decode", "send", "stopping", "clear"}

\* A receiver is dropped, and a cancel begun, after the flag is stored.
FlagInv ==
  /\ \A r \in Requests : client[r] \in Cancelling => cancelled[r]
  /\ \A r \in Requests : ~listening[r] => client[r] = "gone"

CancelInv == TypeOK /\ JobInv /\ LockInv /\ FlagInv /\ AbortHitsOwnRun

-----------------------------------------------------------------------------
(* Part 1.  Types, the lock and the cancel flags: an abort hits its own    *)
(* run or nothing.                                                         *)

LEMMA CancelInit == Init => CancelInv
  BY WorkerAssumption DEF Init, CancelInv, TypeOK, JobInv, LockInv, FlagInv,
     AbortHitsOwnRun, Cancelling

LEMMA CancelStep == CancelInv /\ [Next]_vars => CancelInv'
<1> SUFFICES ASSUME CancelInv, [Next]_vars PROVE CancelInv'
  OBVIOUS
<1> USE WorkerAssumption
<1> USE DEF CancelInv, TypeOK, JobInv, LockInv, FlagInv, AbortHitsOwnRun, Cancelling,
            shared, task, run, published, Moves, Goes
<1>1. CASE Pop
  BY <1>1, SMTT(20) DEF Pop
<1>2. CASE Check
  BY <1>2 DEF Check, ClearJob, DropJob
<1>3. CASE Claim
  BY <1>3 DEF Claim
<1>4. CASE Release
  BY <1>4 DEF Release
<1>5. CASE Settle
  <2>1. TypeOK'
    BY <1>5, SMTT(20) DEF Settle, ClearJob, DropJob
  <2>2. JobInv'
    BY <1>5 DEF Settle, ClearJob, DropJob
  <2>3. LockInv'
    BY <1>5 DEF Settle, ClearJob, DropJob
  <2>4. FlagInv'
    BY <1>5 DEF Settle, ClearJob, DropJob
  <2>5. AbortHitsOwnRun'
    BY <1>5 DEF Settle, ClearJob, DropJob
  <2>6. QED
    BY <2>1, <2>2, <2>3, <2>4, <2>5
<1>6. CASE Flush
  <2>1. TypeOK'
    BY <1>6, SMTT(20) DEF Flush, CanSend, SendDelta, Send, Delta, Event
  <2>2. JobInv'
    BY <1>6 DEF Flush, CanSend, SendDelta, Send, Delta, Event
  <2>3. LockInv'
    BY <1>6 DEF Flush, CanSend, SendDelta, Send, Delta, Event
  <2>4. FlagInv'
    BY <1>6 DEF Flush, CanSend, SendDelta, Send, Delta, Event
  <2>5. AbortHitsOwnRun'
    BY <1>6 DEF Flush, CanSend, SendDelta, Send, Delta, Event
  <2>6. QED
    BY <2>1, <2>2, <2>3, <2>4, <2>5
<1>7. CASE Report
  <2>1. TypeOK'
    BY <1>7 DEF Report, CanSend, Send, Done, Failed, Event, ClearJob, DropJob
  <2>2. JobInv'
    BY <1>7 DEF Report, CanSend, Send, Done, Failed, Event, ClearJob, DropJob
  <2>3. LockInv'
    BY <1>7 DEF Report, CanSend, Send, Done, Failed, Event, ClearJob, DropJob
  <2>4. FlagInv'
    BY <1>7 DEF Report, CanSend, Send, Done, Failed, Event, ClearJob, DropJob
  <2>5. AbortHitsOwnRun'
    BY <1>7 DEF Report, CanSend, Send, Done, Failed, Event, ClearJob, DropJob
  <2>6. QED
    BY <2>1, <2>2, <2>3, <2>4, <2>5
<1>8. CASE SendRefused
  BY <1>8 DEF SendRefused, ClearJob, DropJob
<1>9. CASE BeginPrefill
  BY <1>9 DEF BeginPrefill
<1>10. CASE BeginDecode
  BY <1>10 DEF BeginDecode
<1>11. CASE SendPiece
  <2>1. TypeOK'
    BY <1>11, SMTT(20) DEF SendPiece, CanSend, SendDelta, Send, Delta, Event
  <2>2. JobInv'
    BY <1>11 DEF SendPiece, CanSend, SendDelta, Send, Delta, Event
  <2>3. LockInv'
    BY <1>11 DEF SendPiece, CanSend, SendDelta, Send, Delta, Event
  <2>4. FlagInv'
    BY <1>11 DEF SendPiece, CanSend, SendDelta, Send, Delta, Event
  <2>5. AbortHitsOwnRun'
    BY <1>11 DEF SendPiece, CanSend, SendDelta, Send, Delta, Event
  <2>6. QED
    BY <2>1, <2>2, <2>3, <2>4, <2>5
<1>12. CASE Stop
  <2>1. TypeOK'
    BY <1>12 DEF Stop
  <2>2. JobInv'
    BY <1>12 DEF Stop
  <2>3. LockInv'
    BY <1>12 DEF Stop
  <2>4. FlagInv'
    BY <1>12 DEF Stop
  <2>5. AbortHitsOwnRun'
    BY <1>12 DEF Stop
  <2>6. QED
    BY <2>1, <2>2, <2>3, <2>4, <2>5
<1>13. CASE Return
  BY <1>13 DEF Return
<1>14. ASSUME NEW k \in 0..MaxPieces, NEW h \in 0..1, Callback(k, h) PROVE CancelInv'
  BY <1>14 DEF Callback
<1>15. CASE Panic
  BY <1>15 DEF Panic, ClearJob
<1>16. ASSUME NEW r \in Requests, Enqueue(r) PROVE CancelInv'
  BY <1>16 DEF Enqueue
<1>17. ASSUME NEW r \in Requests, Busy(r) PROVE CancelInv'
  BY <1>17 DEF Busy
<1>18. ASSUME NEW r \in Requests, Unavailable(r) PROVE CancelInv'
  BY <1>18 DEF Unavailable
<1>19. ASSUME NEW r \in Requests, Receive(r) PROVE CancelInv'
  <2>1. TypeOK'
    <3>1. /\ Head(chan[r]) \in Event
          /\ Tail(chan[r]) \in Seq(Event)
      BY <1>19, HeadTailProperties DEF Receive
    <3>2. Head(chan[r]).kind \in {"delta", "done", "failed"}
      BY <3>1 DEF Event
    <3>3. chan' \in [Requests -> Seq(Event)]
      BY <1>19, <3>1 DEF Receive
    <3>4. /\ received' \in [Requests -> Nat]
          /\ outcome' \in [Requests -> {"pending", "done", "failed", "cut"}]
      <4> DEFINE kind == Head(chan[r]).kind
      <4>1. kind \in {"delta", "done", "failed"}
        BY <3>2
      <4>2. CASE kind = "delta"
        <5>1. received' = [received EXCEPT ![r] = @ + 1] /\ UNCHANGED outcome
          BY <1>19, <4>2 DEF Receive
        <5> HIDE DEF kind
        <5>2. QED
          BY <5>1
      <4>3. CASE kind # "delta"
        <5>1. outcome' = [outcome EXCEPT ![r] = kind] /\ UNCHANGED received
          BY <1>19, <4>3 DEF Receive
        <5> HIDE DEF kind
        <5>2. QED
          BY <4>1, <4>3, <5>1
      <4>4. QED
        BY <4>2, <4>3
    <3>5. QED
      BY <1>19, <3>3, <3>4 DEF Receive
  <2>2. JobInv'
    BY <1>19 DEF Receive
  <2>3. LockInv'
    BY <1>19 DEF Receive
  <2>4. FlagInv'
    BY <1>19 DEF Receive
  <2>5. AbortHitsOwnRun'
    BY <1>19 DEF Receive
  <2>6. QED
    BY <2>1, <2>2, <2>3, <2>4, <2>5
<1>20. ASSUME NEW r \in Requests, EndOfStream(r) PROVE CancelInv'
  <2>1. TypeOK'
    BY <1>20 DEF EndOfStream, DropHandle
  <2>2. JobInv'
    BY <1>20 DEF EndOfStream, DropHandle
  <2>3. LockInv'
    BY <1>20 DEF EndOfStream, DropHandle
  <2>4. FlagInv'
    BY <1>20 DEF EndOfStream, DropHandle
  <2>5. AbortHitsOwnRun'
    BY <1>20 DEF EndOfStream, DropHandle
  <2>6. QED
    BY <2>1, <2>2, <2>3, <2>4, <2>5
<1>21. ASSUME NEW r \in Requests, HangUp(r) PROVE CancelInv'
  <2>1. TypeOK'
    BY <1>21 DEF HangUp, DropHandle
  <2>2. JobInv'
    BY <1>21 DEF HangUp, DropHandle
  <2>3. LockInv'
    BY <1>21 DEF HangUp, DropHandle
  <2>4. FlagInv'
    BY <1>21 DEF HangUp, DropHandle
  <2>5. AbortHitsOwnRun'
    BY <1>21 DEF HangUp, DropHandle
  <2>6. QED
    BY <2>1, <2>2, <2>3, <2>4, <2>5
<1>22. ASSUME NEW r \in Requests, CancelLock(r) PROVE CancelInv'
  BY <1>22 DEF CancelLock
<1>23. ASSUME NEW r \in Requests, CancelAbort(r) PROVE CancelInv'
  <2>1. TypeOK'
    BY <1>23 DEF CancelAbort, InFlight
  <2>2. JobInv'
    BY <1>23 DEF CancelAbort, InFlight
  <2>3. LockInv'
    BY <1>23 DEF CancelAbort, InFlight
  <2>4. FlagInv'
    BY <1>23 DEF CancelAbort, InFlight
  <2>5. AbortHitsOwnRun'
    BY <1>23 DEF CancelAbort, InFlight
  <2>6. QED
    BY <2>1, <2>2, <2>3, <2>4, <2>5
<1>24. ASSUME NEW r \in Requests, CancelUnlock(r) PROVE CancelInv'
  BY <1>24 DEF CancelUnlock
<1>25. ASSUME NEW r \in Requests, DropReceiver(r) PROVE CancelInv'
  BY <1>25 DEF DropReceiver
<1>26. CASE UNCHANGED vars
  BY <1>26 DEF vars
<1>27. QED
  BY <1>1, <1>2, <1>3, <1>4, <1>5, <1>6, <1>7, <1>8, <1>9, <1>10, <1>11, <1>12, <1>13, <1>14,
     <1>15, <1>16, <1>17, <1>18, <1>19, <1>20, <1>21, <1>22, <1>23, <1>24, <1>25, <1>26
  DEF Next, WorkerThread, Submit, Read, Cancel, Idle

\* The type invariant holds of every behaviour (Worker!TypeOK).
THEOREM TypeCorrect == Spec => []TypeOK
<1>1. CancelInv => TypeOK
  BY DEF CancelInv
<1>2. QED
  BY CancelInit, CancelStep, <1>1, PTL DEF Spec

\* `abort`, which stops whatever run is in flight, only ever stops a run whose
\* own request was cancelled (RunHandle::cancel and run_job around `current`).
THEOREM AbortIsScoped == Spec => []AbortHitsOwnRun
<1>1. CancelInv => AbortHitsOwnRun
  BY DEF CancelInv
<1>2. QED
  BY CancelInit, CancelStep, <1>1, PTL DEF Spec

-----------------------------------------------------------------------------
(* The streams.                                                            *)

Fresh(r) == client[r] \in {"new", "busy", "unavailable"}

\* The job of r still exists or may yet be made: its stream is not over.
Alive(r) == SenderAlive(r) \/ Fresh(r)

\* A call is in one place: not yet accepted, once in the queue, on the worker
\* thread, or past it.
PlaceInv ==
  /\ \A i, j \in 1..Len(queue) : queue[i] = queue[j] => i = j
  /\ \A i \in 1..Len(queue) : queue[i] # job
  /\ \A r \in Requests : Fresh(r) => ~SenderAlive(r)
  /\ wpc = "dead" => queue = <<>>

\* Nothing final is published for a call that is alive, and a job about to
\* publish something final was not stopped short.
FinalInv ==
  /\ \A r \in Requests : Alive(r) => final[r] = "none"
  /\ wpc \in {"flush", "report"} => job \notin truncated
  /\ TruncatedHasNoFinal

\* The flag of a call is set by its own drop alone.
LeftInv == \A r \in Requests : cancelled[r] => client[r] \in Cancelling

\* When the job of a call that is still read is gone, and the worker is not,
\* something final was published for it.
ToldInv ==
  \A r \in Requests :
    client[r] = "open" /\ wpc # "dead" /\ ~SenderAlive(r) => final[r] # "none"

\* What final event was published and not yet read is the last of its channel.
LastInv ==
  \A r \in Requests :
    final[r] # "none" /\ outcome[r] = "pending" /\ listening[r]
      => chan[r] # <<>> /\ chan[r][Len(chan[r])].kind = final[r]

EndInv == LeftInv /\ ToldInv /\ LastInv /\ CutOnlyByCrash

\* A call is over for good: this is what drops of its sender mean.
StaysOver == \A r \in Requests : Alive(r)' => Alive(r)
-----------------------------------------------------------------------------
(* Part 2.  Where the job of a call is.                                    *)

\* Jobs leave the queue from the front (sync_channel's recv).
LEMMA QueueTail ==
  ASSUME NEW q \in Seq(Requests), q # <<>>
  PROVE  /\ Head(q) = q[1] /\ Head(q) \in Requests /\ 1 \in 1..Len(q)
         /\ Len(Tail(q)) = Len(q) - 1
         /\ \A i \in 1..Len(Tail(q)) : i + 1 \in 1..Len(q) /\ Tail(q)[i] = q[i + 1]
  BY HeadTailProperties, EmptySeq

LEMMA PlaceInit == Init => PlaceInv
  BY WorkerAssumption DEF Init, PlaceInv, Fresh, SenderAlive

\* Steps that move no job keep every call in its place.
LEMMA PlaceFrame ==
  ASSUME PlaceInv, UNCHANGED <<queue, job>>, \A r \in Requests : Fresh(r)' => Fresh(r),
         wpc' = "dead" => wpc = "dead"
  PROVE  PlaceInv' /\ StaysOver
  BY DEF PlaceInv, SenderAlive, StaysOver, Alive

\* Dropping a job ends its call and moves no other.
LEMMA PlaceDrop ==
  ASSUME CancelInv, PlaceInv, UNCHANGED <<queue, client>>, DropJob
  PROVE  PlaceInv' /\ StaysOver
<1>1. \A i \in 1..Len(queue) : queue[i] \in Requests
  BY DEF CancelInv, TypeOK
<1>2. job' = NoRequest /\ wpc' = "recv"
  BY DEF DropJob, ClearJob
<1>3. \A r \in Requests : SenderAlive(r)' => SenderAlive(r)
  BY <1>2, WorkerAssumption DEF WorkerAssumption, SenderAlive
<1> QED
  BY <1>1, <1>2, <1>3, WorkerAssumption DEF WorkerAssumption, PlaceInv, Fresh, StaysOver, Alive

LEMMA PlaceStep == CancelInv /\ PlaceInv /\ [Next]_vars => PlaceInv' /\ StaysOver
<1> SUFFICES ASSUME CancelInv, PlaceInv, [Next]_vars PROVE PlaceInv' /\ StaysOver
  OBVIOUS
<1> USE DEF shared, task, published, Goes, Moves, Fresh
<1>0. /\ queue \in Seq(Requests)
      /\ client \in [Requests -> {"new", "busy", "unavailable", "open", "flagged",
                                  "aborting", "unlocking", "dropping", "gone"}]
      /\ NoRequest \notin Requests
  BY WorkerAssumption DEF WorkerAssumption, CancelInv, TypeOK
<1>1. CASE Pop
  <2>1. /\ queue # <<>> /\ job' = Head(queue) /\ queue' = Tail(queue)
        /\ wpc' = "check" /\ client' = client
    BY <1>1 DEF Pop
  <2>2. \A r \in Requests : SenderAlive(r)' => SenderAlive(r)
    BY <1>0, <2>1, QueueTail DEF SenderAlive
  <2>3. \A i, j \in 1..Len(queue') : queue'[i] = queue'[j] => i = j
    BY <1>0, <2>1, QueueTail DEF PlaceInv
  <2>4. \A i \in 1..Len(queue') : queue'[i] # job'
    BY <1>0, <2>1, QueueTail DEF PlaceInv
  <2> QED
    BY <2>1, <2>2, <2>3, <2>4 DEF PlaceInv, StaysOver, Alive
<1>2. CASE Check \/ Settle \/ Report \/ SendRefused
  <2>1. CASE DropJob
    BY <1>2, <2>1, PlaceDrop
    DEF Check, Settle, Report, SendRefused
  <2>2. CASE ~DropJob
    BY <1>2, <2>2, PlaceFrame DEF Check, Settle, Report, SendRefused, run
  <2> QED
    BY <2>1, <2>2
<1>3. CASE Claim \/ Release \/ Flush \/ BeginPrefill \/ BeginDecode \/ SendPiece \/ Stop \/ Return
  BY <1>3, PlaceFrame
  DEF Claim, Release, Flush, SendDelta, BeginPrefill, BeginDecode, SendPiece, Stop, Return
<1>4. ASSUME NEW k \in 0..MaxPieces, NEW h \in 0..1, Callback(k, h)
      PROVE  PlaceInv' /\ StaysOver
  BY <1>4, PlaceFrame DEF Callback
<1>5. CASE Panic
  <2>1. queue' = <<>> /\ job' = NoRequest /\ client' = client
    BY <1>5 DEF Panic, ClearJob
  <2> QED
    BY <1>0, <2>1 DEF PlaceInv, SenderAlive, StaysOver, Alive
<1>6. ASSUME NEW r \in Requests, Enqueue(r) PROVE PlaceInv' /\ StaysOver
  <2>1. /\ queue' = Append(queue, r) /\ job' = job /\ wpc' = wpc /\ wpc # "dead"
        /\ client[r] = "new" /\ client' = [client EXCEPT ![r] = "open"]
    BY <1>6 DEF Enqueue
  <2>2. ~SenderAlive(r) /\ Fresh(r)
    BY <2>1 DEF PlaceInv
  <2>3. /\ Len(queue') = Len(queue) + 1 /\ queue'[Len(queue) + 1] = r
        /\ \A i \in 1..Len(queue) : queue'[i] = queue[i]
    BY <1>0, <2>1, AppendProperties
  <2>4. \A i, j \in 1..Len(queue') : queue'[i] = queue'[j] => i = j
    BY <1>0, <2>2, <2>3 DEF PlaceInv, SenderAlive
  <2>5. \A i \in 1..Len(queue') : queue'[i] # job'
    BY <1>0, <2>1, <2>2, <2>3 DEF PlaceInv, SenderAlive
  <2>6. \A s \in Requests : s # r => (SenderAlive(s)' <=> SenderAlive(s))
    BY <1>0, <2>1, <2>3 DEF SenderAlive
  <2>7. \A s \in Requests : Fresh(s)' => s # r /\ Fresh(s)
    BY <1>0, <2>1
  <2> QED
    BY <2>1, <2>2, <2>4, <2>5, <2>6, <2>7 DEF PlaceInv, StaysOver, Alive
<1>7. ASSUME NEW r \in Requests, Busy(r) \/ Unavailable(r) \/ Read(r) \/ HangUp(r) \/ Cancel(r)
      PROVE  PlaceInv' /\ StaysOver
  <2>1. UNCHANGED <<queue, job, wpc>>
    BY <1>7 DEF Busy, Unavailable, Read, Receive, EndOfStream, HangUp, Cancel, CancelLock,
                CancelAbort, CancelUnlock, DropReceiver
  <2>2. \A s \in Requests : Fresh(s)' => Fresh(s)
    BY <1>0, <1>7 DEF Busy, Unavailable, Read, Receive, EndOfStream, HangUp, DropHandle,
                Cancel, CancelLock, CancelAbort, CancelUnlock, DropReceiver
  <2> QED
    BY <2>1, <2>2, PlaceFrame
<1>8. CASE UNCHANGED vars
  BY <1>8, PlaceFrame DEF vars
<1> QED
  BY <1>1, <1>2, <1>3, <1>4, <1>5, <1>6, <1>7, <1>8 DEF Next, WorkerThread, Submit, Idle
-----------------------------------------------------------------------------
(* Part 3.  Final events: a run that was stopped short has none.           *)

LEMMA FinalInit == Init => FinalInv
  BY DEF Init, FinalInv, TruncatedHasNoFinal

\* Steps that publish nothing final and stop no run.
LEMMA FinalFrame ==
  ASSUME FinalInv, StaysOver, UNCHANGED <<final, truncated>>,
         wpc' \in {"flush", "report"} => wpc \in {"flush", "report"} /\ job' = job
  PROVE  FinalInv'
  BY DEF FinalInv, StaysOver, TruncatedHasNoFinal

\* The job is a call of its own while the worker thread has one.
LEMMA JobIsAlive ==
  ASSUME CancelInv, job # NoRequest
  PROVE  job \in Requests /\ Alive(job)
  BY DEF CancelInv, TypeOK, Alive, SenderAlive

LEMMA FinalStep ==
  CancelInv /\ PlaceInv /\ StaysOver /\ FinalInv /\ [Next]_vars => FinalInv'
<1> SUFFICES ASSUME CancelInv, PlaceInv, StaysOver, FinalInv, [Next]_vars PROVE FinalInv'
  OBVIOUS
<1> USE DEF shared, task, published, Goes, Moves
<1>0. NoRequest \notin Requests /\ (job = NoRequest <=> wpc \in {"recv", "dead"})
  BY WorkerAssumption DEF WorkerAssumption, CancelInv, JobInv
<1>1. CASE Settle
  <2>1. ~cancelled[job] => job \notin truncated
    BY DEF CancelInv, AbortHitsOwnRun, TypeOK
  <2>2. CASE cancelled[job]
    BY <1>1, <2>2, FinalFrame DEF Settle, DropJob
  <2>3. CASE ~cancelled[job]
    BY <1>1, <2>1, <2>3 DEF Settle, FinalInv, StaysOver, TruncatedHasNoFinal
  <2> QED
    BY <2>2, <2>3
<1>2. CASE Report
  <2>1. job \in Requests /\ job \notin truncated /\ truncated' = truncated /\ wpc' = "recv"
    BY <1>0, <1>2, JobIsAlive DEF Report, DropJob, FinalInv
  <2>2. PICK j \in Requests : j = job
    BY <2>1
  <2>3. \A r \in Requests : r # j => final'[r] = final[r]
    BY <1>2, <2>2 DEF Report, CancelInv, TypeOK
  <2>4. ~Alive(j)'
    <3>1. ~Fresh(j)
      BY <2>2 DEF PlaceInv, SenderAlive
    <3>2. UNCHANGED <<queue, client>> /\ job' = NoRequest
      BY <1>2 DEF Report, DropJob, ClearJob
    <3> QED
      BY <1>0, <2>2, <3>1, <3>2 DEF PlaceInv, Alive, SenderAlive, Fresh
  <2>5. truncated \subseteq Requests
    BY DEF CancelInv, TypeOK
  <2> QED
    BY <2>1, <2>2, <2>3, <2>4, <2>5 DEF FinalInv, StaysOver, TruncatedHasNoFinal
<1>3. CASE Stop
  <2>1. job \in Requests /\ final[job] = "none"
    BY <1>0, <1>3, JobIsAlive DEF Stop, FinalInv
  <2> QED
    BY <1>3, <2>1 DEF Stop, FinalInv, StaysOver, TruncatedHasNoFinal
<1>4. ASSUME NEW r \in Requests, CancelAbort(r) PROVE FinalInv'
  <2>1. CASE InFlight
    <3>1. job \in Requests /\ final[job] = "none"
      BY <1>0, <2>1, JobIsAlive DEF InFlight, FinalInv
    <3> QED
      BY <1>4, <2>1, <3>1
      DEF CancelAbort, InFlight, FinalInv, StaysOver, TruncatedHasNoFinal
  <2>2. CASE ~InFlight
    BY <1>4, <2>2, FinalFrame DEF CancelAbort
  <2> QED
    BY <2>1, <2>2
<1>5. CASE Pop \/ Check \/ Claim \/ Release \/ Flush \/ SendRefused \/ BeginPrefill
           \/ BeginDecode \/ SendPiece \/ Return \/ Panic
  BY <1>5, FinalFrame
  DEF Pop, Check, Claim, Release, Flush, SendDelta, SendRefused, DropJob, BeginPrefill,
      BeginDecode, SendPiece, Return, Panic
<1>6. ASSUME NEW k \in 0..MaxPieces, NEW h \in 0..1, Callback(k, h) PROVE FinalInv'
  BY <1>6, FinalFrame DEF Callback
<1>7. ASSUME NEW r \in Requests,
             \/ Submit(r) \/ Read(r) \/ HangUp(r)
             \/ CancelLock(r) \/ CancelUnlock(r) \/ DropReceiver(r)
      PROVE  FinalInv'
  BY <1>7, FinalFrame
  DEF Submit, Enqueue, Busy, Unavailable, Read, Receive, EndOfStream, HangUp,
      CancelLock, CancelUnlock, DropReceiver
<1>8. CASE UNCHANGED vars
  BY <1>8, FinalFrame DEF vars
<1> QED
  BY <1>1, <1>2, <1>3, <1>4, <1>5, <1>6, <1>7, <1>8
  DEF Next, WorkerThread, Cancel, Idle

LEMMA FinalAlways == Spec => [](CancelInv /\ PlaceInv /\ FinalInv)
<1>1. Init => CancelInv /\ PlaceInv /\ FinalInv
  BY CancelInit, PlaceInit, FinalInit
<1>2. CancelInv /\ PlaceInv /\ FinalInv /\ [Next]_vars
        => (CancelInv /\ PlaceInv /\ FinalInv)'
  BY CancelStep, PlaceStep, FinalStep
<1> QED
  BY <1>1, <1>2, PTL DEF Spec

\* A run that was stopped short is never passed off as a finished or a failed
\* one (run_job reads the flag again after the run, worker/mod.rs:210-213).
THEOREM StoppedHasNoFinal == Spec => []TruncatedHasNoFinal
<1>1. FinalInv => TruncatedHasNoFinal
  BY DEF FinalInv
<1> QED
  BY <1>1, FinalAlways, PTL

\* A call whose flag is stored while its job waits: the job is in the queue, at
\* the flag's first check, or dropped.
Spared(r) == cancelled[r] /\ ~Fresh(r) /\ (job = r => wpc = "check")

LEMMA SparedStep ==
  ASSUME NEW r \in Requests, CancelInv, Spared(r), [Next]_vars
  PROVE  Spared(r)'
<1> USE DEF shared, task, published, Goes, Moves, Fresh, Spared
<1>0. /\ cancelled \in [Requests -> BOOLEAN] /\ r # NoRequest
      /\ client \in [Requests -> {"new", "busy", "unavailable", "open", "flagged",
                                  "aborting", "unlocking", "dropping", "gone"}]
  BY WorkerAssumption DEF CancelInv, TypeOK
\* The flag is stored for good, and nothing is submitted twice.
<1>1. ASSUME NEW q \in Requests, Submit(q) \/ Read(q) \/ HangUp(q) \/ Cancel(q) PROVE Spared(r)'
  <2>1. CASE Submit(q)
    BY <1>0, <2>1 DEF Submit, Enqueue, Busy, Unavailable
  <2>2. CASE Receive(q)
    BY <1>0, <2>2 DEF Receive
  <2>3. CASE EndOfStream(q) \/ HangUp(q)
    BY <1>0, <2>3 DEF EndOfStream, HangUp, DropHandle
  <2>4. CASE Cancel(q)
    BY <1>0, <2>4 DEF Cancel, CancelLock, CancelAbort, CancelUnlock, DropReceiver
  <2> QED
    BY <1>1, <2>1, <2>2, <2>3, <2>4 DEF Read
\* A job is at the check when it was just taken, and the check drops it.
<1>2. CASE Pop
  BY <1>2 DEF Pop
<1>3. CASE Check
  BY <1>0, <1>3 DEF Check, DropJob, ClearJob
<1>4. CASE Claim \/ Release \/ BeginPrefill \/ BeginDecode \/ Stop \/ Return
  BY <1>4 DEF Claim, Release, BeginPrefill, BeginDecode, Stop, Return
<1>5. CASE Settle
  BY <1>0, <1>5 DEF Settle, DropJob, ClearJob
<1>6. CASE Flush \/ SendPiece
  BY <1>6 DEF Flush, SendPiece, SendDelta
<1>7. CASE Report \/ SendRefused \/ Panic
  BY <1>0, <1>7 DEF Report, SendRefused, Panic, DropJob, ClearJob
<1>8. CASE \E k \in 0..MaxPieces, h \in 0..1 : Callback(k, h)
  BY <1>8 DEF Callback
<1>9. CASE UNCHANGED vars
  BY <1>9 DEF vars
<1> QED
  BY <1>1, <1>2, <1>3, <1>4, <1>5, <1>6, <1>7, <1>8, <1>9 DEF Next, WorkerThread, Idle

\* "A request cancelled while queued never reaches the backend": not at the
\* check, and never after (worker/mod.rs:164-170).
THEOREM CancelledNeverRuns == Spec => CancelledInQueueNeverRuns
<1> SUFFICES ASSUME NEW r \in Requests
             PROVE  Spec => [](Queued(r) /\ cancelled[r] => [](job = r => ~InFlight))
  BY DEF CancelledInQueueNeverRuns
<1>1. PlaceInv /\ Queued(r) /\ cancelled[r] => Spared(r)
  BY DEF PlaceInv, Spared, SenderAlive, Queued
<1>2. CancelInv /\ Spared(r) /\ [Next]_vars => Spared(r)'
  BY SparedStep
<1>3. Spared(r) => (job = r => ~InFlight)
  BY DEF Spared, InFlight
<1> QED
  BY <1>1, <1>2, <1>3, FinalAlways, PTL DEF Spec

-----------------------------------------------------------------------------
(* Part 4.  Ends: only a crash ends a stream without a final event.        *)

\* What blocking_send does to the channel of the job, and recv to that of r.
LEMMA SendFacts ==
  ASSUME CancelInv, job # NoRequest, NEW e \in Event, Send(e)
  PROVE  \E j \in Requests :
           /\ j = job /\ \A r \in Requests : r # j => chan'[r] = chan[r]
           /\ chan'[j] # <<>> /\ Len(chan'[j]) = Len(chan[j]) + 1
           /\ \A i \in 1..Len(chan[j]) : chan'[j][i] = chan[j][i]
           /\ chan'[j][Len(chan[j]) + 1] = e
<1>1. PICK j \in Requests : j = job
  BY JobIsAlive
<1>2. chan \in [Requests -> Seq(Event)]
  BY DEF CancelInv, TypeOK
<1>3. /\ \A r \in Requests : r # j => chan'[r] = chan[r]
      /\ chan'[j] = Append(chan[j], e)
  BY <1>1, <1>2 DEF Send
<1> QED
  BY <1>1, <1>2, <1>3, AppendProperties

LEMMA ReceiveFacts ==
  ASSUME CancelInv, NEW r \in Requests, Receive(r)
  PROVE  /\ \A s \in Requests : s # r => chan'[s] = chan[s]
         /\ Len(chan[r]) \in Nat \ {0} /\ Head(chan[r]) = chan[r][1]
         /\ chan[r][1].kind \in {"delta", "done", "failed"}
         /\ Len(chan'[r]) = Len(chan[r]) - 1
         /\ \A i \in 1..Len(chan'[r]) : chan'[r][i] = chan[r][i + 1]
<1>1. chan \in [Requests -> Seq(Event)] /\ chan[r] # <<>>
  BY DEF CancelInv, TypeOK, Receive
<1>2. Head(chan[r]) \in Event /\ Head(chan[r]) = chan[r][1]
  BY <1>1, HeadTailProperties
<1>3. chan'[r] = Tail(chan[r]) /\ \A s \in Requests : s # r => chan'[s] = chan[s]
  BY <1>1 DEF Receive
<1> QED
  BY <1>1, <1>2, <1>3, HeadTailProperties, EmptySeq DEF Event

LEMMA EndInit == Init => EndInv
  BY DEF Init, EndInv, LeftInv, ToldInv, LastInv, CutOnlyByCrash

LEMMA LeftStep == CancelInv /\ LeftInv /\ [Next]_vars => LeftInv'
<1> SUFFICES ASSUME CancelInv, LeftInv, [Next]_vars PROVE LeftInv'
  OBVIOUS
<1> USE DEF shared, task, published, Goes, Moves, LeftInv, Cancelling
<1>1. CASE UNCHANGED <<cancelled, client>>
  BY <1>1
<1>2. CASE WorkerThread \/ Panic \/ Idle
  <2>1. UNCHANGED <<cancelled, client>>
    BY <1>2
    DEF WorkerThread, Pop, Check, Claim, Release, Settle, Flush, SendDelta, Report,
        SendRefused, BeginPrefill, BeginDecode, SendPiece, Stop, Return, Callback, Panic,
        Idle, vars
  <2> QED
    BY <1>1, <2>1
<1>3. ASSUME NEW r \in Requests, Submit(r) \/ Read(r) \/ HangUp(r) \/ Cancel(r)
      PROVE  LeftInv'
  BY <1>3
  DEF CancelInv, TypeOK, Submit, Enqueue, Busy, Unavailable, Read, Receive, EndOfStream,
      HangUp, DropHandle, Cancel, CancelLock, CancelAbort, CancelUnlock, DropReceiver
<1> QED
  BY <1>1, <1>2, <1>3 DEF Next, vars

\* Steps that publish nothing final and drop no job of an open call.
LEMMA ToldFrame ==
  ASSUME ToldInv, final' = final, wpc' # "dead" => wpc # "dead",
         \A r \in Requests : client'[r] = "open" =>
           (client[r] = "open" /\ (SenderAlive(r) => SenderAlive(r)')) \/ SenderAlive(r)'
  PROVE  ToldInv'
  BY DEF ToldInv

LEMMA ToldStep ==
  CancelInv /\ LeftInv /\ ToldInv /\ [Next]_vars => ToldInv'
<1> SUFFICES ASSUME CancelInv, LeftInv, ToldInv, [Next]_vars PROVE ToldInv'
  OBVIOUS
<1> USE DEF shared, task, published, Goes, Moves
<1>0. /\ queue \in Seq(Requests) /\ NoRequest \notin Requests
      /\ (job = NoRequest <=> wpc \in {"recv", "dead"})
  BY WorkerAssumption DEF WorkerAssumption, CancelInv, TypeOK, JobInv
<1>1. CASE Pop
  <2>1. /\ queue # <<>> /\ job' = Head(queue) /\ queue' = Tail(queue) /\ job = NoRequest
        /\ UNCHANGED <<client, final>> /\ wpc' = "check"
    BY <1>0, <1>1 DEF Pop
  <2>2. \A r \in Requests : SenderAlive(r) => SenderAlive(r)'
    <3> SUFFICES ASSUME NEW r \in Requests, SenderAlive(r) PROVE SenderAlive(r)'
      OBVIOUS
    <3>1. PICK i \in 1..Len(queue) : queue[i] = r
      BY <1>0, <2>1 DEF SenderAlive
    <3>2. CASE i = 1
      BY <1>0, <2>1, <3>1, <3>2, QueueTail DEF SenderAlive
    <3>3. CASE i # 1
      <4>1. i - 1 \in 1..Len(Tail(queue)) /\ Tail(queue)[i - 1] = r
        BY <1>0, <2>1, <3>1, <3>3, QueueTail
      <4> QED
        BY <2>1, <4>1 DEF SenderAlive
    <3> QED
      BY <3>2, <3>3
  <2>3. wpc # "dead"
    BY <1>1 DEF Pop
  <2> QED
    BY <2>1, <2>2, <2>3 DEF ToldInv
<1>2. ASSUME DropJob, UNCHANGED <<queue, client, final>>, job # NoRequest,
             client[job] # "open"
      PROVE  ToldInv'
  <2>1. PICK j \in Requests : j = job
    BY <1>2, JobIsAlive
  <2>2. wpc # "dead"
    BY <1>0, <1>2
  <2>3. \A r \in Requests : r # j => (SenderAlive(r) => SenderAlive(r)')
    BY <1>2, <2>1 DEF SenderAlive
  <2> QED
    BY <1>2, <2>1, <2>2, <2>3 DEF ToldInv
<1>3. CASE Check \/ Settle
  <2>1. CASE cancelled[job]
    BY <1>0, <1>2, <1>3, <2>1, JobIsAlive DEF Check, Settle, LeftInv, Cancelling
  <2>2. CASE ~cancelled[job]
    BY <1>3, <2>2, ToldFrame DEF Check, Settle, SenderAlive
  <2> QED
    BY <2>1, <2>2
<1>4. CASE SendRefused
  BY <1>0, <1>2, <1>4, JobIsAlive DEF SendRefused, CancelInv, FlagInv
<1>5. CASE Report
  <2>1. PICK j \in Requests : j = job
    BY <1>0, <1>5, JobIsAlive DEF Report
  <2>2. /\ final'[j] # "none" /\ \A r \in Requests : r # j => final'[r] = final[r]
        /\ UNCHANGED <<queue, client>> /\ wpc # "dead"
    BY <1>5, <2>1 DEF Report, Done, Failed, CancelInv, TypeOK
  <2>3. \A r \in Requests : r # j => (SenderAlive(r) => SenderAlive(r)')
    BY <2>1, <2>2 DEF SenderAlive
  <2> QED
    BY <2>2, <2>3 DEF ToldInv
<1>6. CASE Claim \/ Release \/ Flush \/ BeginPrefill \/ BeginDecode \/ SendPiece \/ Stop \/ Return
  BY <1>6, ToldFrame
  DEF Claim, Release, Flush, SendDelta, BeginPrefill, BeginDecode, SendPiece, Stop, Return,
      SenderAlive
<1>7. ASSUME NEW k \in 0..MaxPieces, NEW h \in 0..1, Callback(k, h) PROVE ToldInv'
  BY <1>7, ToldFrame DEF Callback, SenderAlive
<1>8. CASE Panic
  BY <1>8 DEF Panic, ToldInv
<1>9. ASSUME NEW r \in Requests, Enqueue(r) PROVE ToldInv'
  <2>1. /\ Len(queue') = Len(queue) + 1 /\ queue'[Len(queue) + 1] = r
        /\ \A i \in 1..Len(queue) : queue'[i] = queue[i]
    BY <1>0, <1>9, AppendProperties DEF Enqueue
  <2>2. job' = job /\ final' = final /\ wpc' = wpc /\ client' = [client EXCEPT ![r] = "open"]
    BY <1>9 DEF Enqueue
  <2>3. \A s \in Requests : SenderAlive(s) => SenderAlive(s)'
    BY <1>0, <2>1, <2>2 DEF SenderAlive
  <2>4. SenderAlive(r)'
    BY <1>0, <2>1 DEF SenderAlive
  <2> QED
    BY <2>2, <2>3, <2>4, ToldFrame DEF CancelInv, TypeOK
<1>10. ASSUME NEW r \in Requests,
              Busy(r) \/ Unavailable(r) \/ Read(r) \/ HangUp(r) \/ Cancel(r)
       PROVE  ToldInv'
  <2>1. UNCHANGED <<queue, job, wpc, final>>
    BY <1>10
    DEF Busy, Unavailable, Read, Receive, EndOfStream, HangUp, Cancel, CancelLock,
        CancelAbort, CancelUnlock, DropReceiver
  <2>2. \A s \in Requests : client'[s] = "open" => client[s] = "open"
    BY <1>10
    DEF CancelInv, TypeOK, Busy, Unavailable, Read, Receive, EndOfStream, HangUp, DropHandle,
        Cancel, CancelLock, CancelAbort, CancelUnlock, DropReceiver
  <2> QED
    BY <2>1, <2>2, ToldFrame DEF SenderAlive
<1>11. CASE UNCHANGED vars
  BY <1>11, ToldFrame DEF vars, SenderAlive
<1> QED
  BY <1>1, <1>3, <1>4, <1>5, <1>6, <1>7, <1>8, <1>9, <1>10, <1>11
  DEF Next, WorkerThread, Submit, Idle

\* Steps that leave the channels and the final events alone.
LEMMA LastFrame ==
  ASSUME LastInv, UNCHANGED <<chan, final>>,
         \A r \in Requests : outcome'[r] = "pending" => outcome[r] = "pending",
         \A r \in Requests : listening'[r] => listening[r]
  PROVE  LastInv'
  BY DEF LastInv

LEMMA LastStep ==
  CancelInv /\ FinalInv /\ LastInv /\ [Next]_vars => LastInv'
<1> SUFFICES ASSUME CancelInv, FinalInv, LastInv, [Next]_vars PROVE LastInv'
  OBVIOUS
<1> USE DEF shared, task, published, Goes, Moves
<1>0. /\ chan \in [Requests -> Seq(Event)]
      /\ outcome \in [Requests -> {"pending", "done", "failed", "cut"}]
      /\ final \in [Requests -> {"none", "done", "failed"}]
      /\ listening \in [Requests -> BOOLEAN]
      /\ NoRequest \notin Requests
      /\ (job = NoRequest <=> wpc \in {"recv", "dead"})
  BY WorkerAssumption DEF WorkerAssumption, CancelInv, TypeOK, JobInv
<1>1. CASE SendDelta /\ job # NoRequest
  <2>1. PICK j \in Requests : j = job /\ \A r \in Requests : r # j => chan'[r] = chan[r]
    BY <1>0, <1>1, JobIsAlive DEF SendDelta, Send
  <2>2. final[j] = "none" /\ UNCHANGED <<final, outcome, listening>>
    BY <1>1, <2>1, JobIsAlive DEF SendDelta, FinalInv
  <2> QED
    BY <2>1, <2>2 DEF LastInv
<1>2. CASE Report
  <2>1. PICK e \in Event : Send(e) /\ final' = [final EXCEPT ![job] = e.kind]
    <3>1. Done \in Event /\ Failed \in Event
      BY DEF Done, Failed, Event, CancelInv, TypeOK
    <3> QED
      BY <1>2, <3>1 DEF Report
  <2>2. job # NoRequest /\ UNCHANGED <<outcome, listening>>
    BY <1>0, <1>2 DEF Report
  <2>3. PICK j \in Requests :
          /\ j = job /\ \A r \in Requests : r # j => chan'[r] = chan[r]
          /\ chan'[j] # <<>> /\ Len(chan'[j]) = Len(chan[j]) + 1
          /\ chan'[j][Len(chan[j]) + 1] = e
    BY <2>1, <2>2, SendFacts
  <2>4. final'[j] = e.kind /\ \A r \in Requests : r # j => final'[r] = final[r]
    BY <1>0, <2>1, <2>3
  <2> QED
    BY <2>2, <2>3, <2>4 DEF LastInv
<1>3. ASSUME NEW r \in Requests, Receive(r) PROVE LastInv'
  <2>1. /\ \A s \in Requests : s # r => chan'[s] = chan[s] /\ outcome'[s] = outcome[s]
        /\ UNCHANGED <<final, listening>>
    BY <1>0, <1>3, ReceiveFacts DEF Receive
  <2>2. ASSUME final[r] # "none", outcome'[r] = "pending", listening[r]
        PROVE  chan'[r] # <<>> /\ chan'[r][Len(chan'[r])].kind = final[r]
    <3> DEFINE kind == Head(chan[r]).kind
    <3>0. /\ kind \in {"delta", "done", "failed"}
          /\ \/ kind = "delta" /\ UNCHANGED outcome
             \/ outcome' = [outcome EXCEPT ![r] = kind]
      BY <1>3, ReceiveFacts DEF Receive
    <3>1. kind = "delta" /\ outcome[r] = "pending"
      <4> HIDE DEF kind
      <4> QED
        BY <1>0, <2>2, <3>0
    <3>2. chan[r][Len(chan[r])].kind = final[r] /\ final[r] # "delta"
      BY <1>0, <2>2, <3>1 DEF LastInv
    <3>3. Len(chan[r]) \in Nat /\ Len(chan[r]) > 1
      BY <1>3, <3>1, <3>2, ReceiveFacts
    <3> QED
      BY <1>3, <3>2, <3>3, ReceiveFacts
  <2> QED
    BY <2>1, <2>2 DEF LastInv
<1>4. CASE Pop \/ Check \/ Claim \/ Release \/ Settle \/ SendRefused \/ BeginPrefill
           \/ BeginDecode \/ Stop \/ Return \/ Panic \/ UNCHANGED vars
  BY <1>4, LastFrame
  DEF Pop, Check, Claim, Release, Settle, SendRefused, BeginPrefill, BeginDecode, Stop,
      Return, Panic, vars
<1>5. ASSUME NEW k \in 0..MaxPieces, NEW h \in 0..1, Callback(k, h) PROVE LastInv'
  BY <1>5, LastFrame DEF Callback
<1>6. ASSUME NEW r \in Requests,
             \/ Submit(r) \/ EndOfStream(r) \/ HangUp(r)
             \/ CancelLock(r) \/ CancelAbort(r) \/ CancelUnlock(r)
      PROVE  LastInv'
  <2>1. UNCHANGED <<chan, final, listening>>
    BY <1>6
    DEF Submit, Enqueue, Busy, Unavailable, EndOfStream, HangUp, CancelLock, CancelAbort,
        CancelUnlock
  <2>2. \A s \in Requests : outcome'[s] = "pending" => outcome[s] = "pending"
    BY <1>0, <1>6
    DEF Submit, Enqueue, Busy, Unavailable, EndOfStream, HangUp, CancelLock, CancelAbort,
        CancelUnlock
  <2> QED
    BY <2>1, <2>2, LastFrame
<1>7. ASSUME NEW r \in Requests, DropReceiver(r) PROVE LastInv'
  BY <1>0, <1>7 DEF DropReceiver, LastInv
<1> QED
  BY <1>0, <1>1, <1>2, <1>3, <1>4, <1>5, <1>6, <1>7
  DEF Next, WorkerThread, Read, Cancel, Idle, Flush, SendPiece

LEMMA CutStep ==
  CancelInv /\ ToldInv /\ LastInv /\ CutOnlyByCrash /\ [Next]_vars => CutOnlyByCrash'
<1> SUFFICES ASSUME CancelInv, ToldInv, LastInv, CutOnlyByCrash, [Next]_vars
             PROVE  CutOnlyByCrash'
  OBVIOUS
<1> USE DEF shared, task, published, Goes, Moves
<1>0. outcome \in [Requests -> {"pending", "done", "failed", "cut"}]
  BY DEF CancelInv, TypeOK
<1>1. CASE WorkerThread \/ Panic \/ Idle \/ UNCHANGED vars
  <2>1. outcome' = outcome /\ (wpc = "dead" => wpc' = "dead")
    BY <1>1
    DEF WorkerThread, Pop, Check, Claim, Release, Settle, Flush, SendDelta, Report,
        SendRefused, BeginPrefill, BeginDecode, SendPiece, Stop, Return, Callback, Panic,
        Idle, vars
  <2> QED
    BY <2>1 DEF CutOnlyByCrash
<1>2. ASSUME NEW r \in Requests, Receive(r) PROVE CutOnlyByCrash'
  <2>1. outcome'[r] # "cut" \/ outcome' = outcome
    BY <1>0, <1>2, ReceiveFacts DEF Receive
  <2> QED
    BY <1>0, <1>2, <2>1 DEF Receive, CutOnlyByCrash
<1>3. ASSUME NEW r \in Requests, EndOfStream(r) PROVE CutOnlyByCrash'
  <2>1. listening[r] /\ client[r] = "open"
    BY <1>3 DEF EndOfStream, CancelInv, FlagInv
  <2>2. outcome[r] = "pending" => wpc = "dead"
    BY <1>3, <2>1 DEF EndOfStream, ToldInv, LastInv
  <2> QED
    BY <1>0, <1>3, <2>2 DEF EndOfStream, CutOnlyByCrash
<1>4. ASSUME NEW r \in Requests, Submit(r) \/ HangUp(r) \/ Cancel(r) PROVE CutOnlyByCrash'
  BY <1>4
  DEF CutOnlyByCrash, Submit, Enqueue, Busy, Unavailable, HangUp, Cancel, CancelLock,
      CancelAbort, CancelUnlock, DropReceiver
<1> QED
  BY <1>1, <1>2, <1>3, <1>4 DEF Next, Read

LEMMA EndAlways == Spec => [](CancelInv /\ PlaceInv /\ FinalInv /\ EndInv)
<1>1. Init => CancelInv /\ PlaceInv /\ FinalInv /\ EndInv
  BY CancelInit, PlaceInit, FinalInit, EndInit
<1>2. CancelInv /\ PlaceInv /\ FinalInv /\ EndInv /\ [Next]_vars
        => (CancelInv /\ PlaceInv /\ FinalInv /\ EndInv)'
  BY CancelStep, PlaceStep, FinalStep, LeftStep, ToldStep, LastStep, CutStep DEF EndInv
<1> QED
  BY <1>1, <1>2, PTL DEF Spec

\* A client that keeps listening is told how its run ended: a stream ends
\* without a final event (service.rs:98-101) only when the worker thread died.
THEOREM CutNeedsCrash == Spec => []CutOnlyByCrash
<1>1. EndInv => CutOnlyByCrash
  BY DEF EndInv
<1> QED
  BY <1>1, EndAlways, PTL
-----------------------------------------------------------------------------
(* Part 5.  Counts: what the parser produced, what was sent, what is       *)
(* buffered and what was read add up.                                      *)

\* Nothing was sent for a call that has not reached the worker thread.
QuietInv == \A r \in Requests : Fresh(r) \/ Queued(r) => sent[r] = 0

\* The job sent what its parser produced but for what is unsent, and pieces
\* are left unsent only for a client that left.
RunInv ==
  /\ job # NoRequest => sent[job] = produced - unsent
  /\ job # NoRequest /\ wpc \notin {"send", "flush"} => unsent = 0 \/ cancelled[job]
  /\ wpc = "flush" => unsent = 1 /\ held = 0
  /\ wpc = "report" => unsent = 0 /\ (result = "ok" => held = 0)
  /\ job = NoRequest => produced = 0 /\ unsent = 0

\* Until the final event of a call, what was sent is what was read and what
\* is buffered, and all of it deltas; until that event is read, all but one.
CountInv ==
  \A r \in Requests :
    /\ final[r] = "none" =>
         /\ listening[r] => sent[r] = received[r] + Len(chan[r])
         /\ outcome[r] \in {"pending", "cut"}
         /\ \A i \in 1..Len(chan[r]) : chan[r][i].kind = "delta"
    /\ final[r] # "none" /\ outcome[r] = "pending" /\ listening[r] =>
         sent[r] + 1 = received[r] + Len(chan[r])

ChanInv == CountInv /\ StreamInOrder /\ DoneMeansWhole

LEMMA SumInit == Init => QuietInv /\ RunInv /\ ChanInv
  BY DEF Init, QuietInv, RunInv, ChanInv, CountInv, StreamInOrder, DoneMeansWhole, Queued

LEMMA QuietStep == CancelInv /\ PlaceInv /\ QuietInv /\ [Next]_vars => QuietInv'
<1> SUFFICES ASSUME CancelInv, PlaceInv, QuietInv, [Next]_vars PROVE QuietInv'
  OBVIOUS
<1> USE DEF shared, task, published, Goes, Moves
<1>0. /\ queue \in Seq(Requests) /\ sent \in [Requests -> Nat] /\ NoRequest \notin Requests
      /\ (job = NoRequest <=> wpc \in {"recv", "dead"})
  BY WorkerAssumption DEF WorkerAssumption, CancelInv, TypeOK, JobInv
<1>1. CASE Pop
  <2>1. \A i \in 1..Len(queue') : i + 1 \in 1..Len(queue) /\ queue'[i] = queue[i + 1]
    BY <1>0, <1>1, QueueTail DEF Pop
  <2> QED
    BY <1>1, <2>1 DEF Pop, QuietInv, Queued, Fresh
<1>2. CASE SendDelta /\ job # NoRequest
  <2>1. PICK j \in Requests : j = job
    BY <1>2, JobIsAlive
  <2>2. ~Fresh(j) /\ ~Queued(j)
    BY <2>1 DEF PlaceInv, SenderAlive, Queued
  <2>3. UNCHANGED <<queue, client>> /\ \A r \in Requests : r # j => sent'[r] = sent[r]
    BY <1>0, <1>2, <2>1 DEF SendDelta
  <2> QED
    BY <2>2, <2>3 DEF QuietInv, Queued, Fresh
<1>3. CASE Check \/ Claim \/ Release \/ Settle \/ Report \/ SendRefused \/ BeginPrefill
           \/ BeginDecode \/ Stop \/ Return \/ UNCHANGED vars
  BY <1>3
  DEF Check, Claim, Release, Settle, Report, SendRefused, BeginPrefill, BeginDecode, Stop,
      Return, vars, QuietInv, Queued, Fresh
<1>4. ASSUME NEW k \in 0..MaxPieces, NEW h \in 0..1, Callback(k, h) PROVE QuietInv'
  BY <1>4 DEF Callback, QuietInv, Queued, Fresh
<1>5. CASE Panic
  BY <1>5 DEF Panic, QuietInv, Queued, Fresh
<1>6. ASSUME NEW r \in Requests, Enqueue(r) PROVE QuietInv'
  <2>1. /\ Len(queue') = Len(queue) + 1 /\ queue'[Len(queue) + 1] = r
        /\ \A i \in 1..Len(queue) : queue'[i] = queue[i]
    BY <1>0, <1>6, AppendProperties DEF Enqueue
  <2>2. \A s \in Requests : Queued(s)' => Queued(s) \/ s = r
    BY <1>0, <2>1 DEF Queued
  <2>3. Fresh(r) /\ sent' = sent /\ \A s \in Requests : Fresh(s)' => Fresh(s)
    BY <1>6 DEF Enqueue, Fresh, CancelInv, TypeOK
  <2> QED
    BY <2>2, <2>3 DEF QuietInv
<1>7. ASSUME NEW r \in Requests,
             Busy(r) \/ Unavailable(r) \/ Read(r) \/ HangUp(r) \/ Cancel(r)
      PROVE  QuietInv'
  <2>1. UNCHANGED <<queue, sent>>
    BY <1>7
    DEF Busy, Unavailable, Read, Receive, EndOfStream, HangUp, Cancel, CancelLock,
        CancelAbort, CancelUnlock, DropReceiver
  <2>2. \A s \in Requests : Fresh(s)' => Fresh(s)
    BY <1>7
    DEF CancelInv, TypeOK, Fresh, Busy, Unavailable, Read, Receive, EndOfStream, HangUp,
        DropHandle, Cancel, CancelLock, CancelAbort, CancelUnlock, DropReceiver
  <2> QED
    BY <2>1, <2>2 DEF QuietInv, Queued
<1> QED
  BY <1>0, <1>1, <1>2, <1>3, <1>4, <1>5, <1>6, <1>7
  DEF Next, WorkerThread, Submit, Idle, Flush, SendPiece

LEMMA RunStep ==
  CancelInv /\ QuietInv /\ RunInv /\ [Next]_vars => RunInv'
<1> SUFFICES ASSUME CancelInv, QuietInv, RunInv, [Next]_vars PROVE RunInv'
  OBVIOUS
<1> USE DEF shared, task, run, published, Goes, Moves
<1>0. /\ queue \in Seq(Requests) /\ sent \in [Requests -> Nat] /\ NoRequest \notin Requests
      /\ produced \in Nat /\ unsent \in Nat /\ held \in 0..1
      /\ cancelled \in [Requests -> BOOLEAN]
      /\ job \in Requests \union {NoRequest}
      /\ (job = NoRequest <=> wpc \in {"recv", "dead"})
      /\ \A r \in Requests : ~listening[r] => cancelled[r]
  BY WorkerAssumption DEF WorkerAssumption, CancelInv, TypeOK, JobInv, FlagInv, Cancelling
<1>1. CASE Pop
  <2>1. PICK j \in Requests : j = job' /\ sent[j] = 0
    BY <1>0, <1>1, QueueTail DEF Pop, QuietInv, Queued
  <2>2. UNCHANGED <<sent, produced, unsent>> /\ produced = 0 /\ unsent = 0 /\ wpc' = "check"
    BY <1>0, <1>1 DEF Pop, RunInv
  <2> QED
    BY <2>1, <2>2 DEF RunInv
<1>2. ASSUME ClearJob, wpc' \notin {"send", "flush", "report"} PROVE RunInv'
  BY <1>2 DEF ClearJob, RunInv
<1>3. CASE (Check \/ Settle) /\ cancelled[job]
  BY <1>2, <1>3 DEF Check, Settle, DropJob
<1>4. CASE Check /\ ~cancelled[job]
  BY <1>0, <1>4 DEF Check, RunInv
<1>5. CASE Settle /\ ~cancelled[job]
  <2>1. /\ unsent = 0 /\ sent[job] = produced /\ UNCHANGED <<sent, job, cancelled, result>>
        /\ job # NoRequest
    BY <1>0, <1>5 DEF Settle, RunInv
  <2> QED
    BY <1>0, <1>5, <2>1 DEF Settle, RunInv
<1>6. CASE SendRefused \/ Report \/ Panic
  BY <1>2, <1>6 DEF SendRefused, Report, Panic, DropJob
<1>7. CASE SendDelta /\ (Flush \/ SendPiece)
  <2>1. PICK j \in Requests : j = job
    BY <1>0, <1>7 DEF Flush, SendPiece
  <2>2. /\ unsent > 0 /\ sent'[j] = sent[j] + 1 /\ unsent' = unsent - 1
        /\ UNCHANGED <<job, produced, held, result, cancelled>>
    BY <1>0, <1>7, <2>1 DEF SendDelta, Flush, SendPiece, CancelInv, JobInv
  <2> QED
    BY <1>0, <1>7, <2>1, <2>2 DEF Flush, SendPiece, RunInv
<1>8. CASE Claim \/ Release \/ BeginPrefill \/ BeginDecode \/ Return
  BY <1>0, <1>8 DEF Claim, Release, BeginPrefill, BeginDecode, Return, RunInv
<1>9. CASE Stop
  BY <1>0, <1>9 DEF Stop, RunInv
<1>10. ASSUME NEW k \in 0..MaxPieces, NEW h \in 0..1, Callback(k, h) PROVE RunInv'
  BY <1>0, <1>10, WorkerAssumption DEF WorkerAssumption, Callback, RunInv
<1>11. ASSUME NEW r \in Requests, Submit(r) \/ Read(r) \/ HangUp(r) \/ Cancel(r)
       PROVE  RunInv'
  <2>1. UNCHANGED <<wpc, job, produced, unsent, held, result, sent>>
    BY <1>11
    DEF Submit, Enqueue, Busy, Unavailable, Read, Receive, EndOfStream, HangUp, Cancel,
        CancelLock, CancelAbort, CancelUnlock, DropReceiver
  <2>2. \A s \in Requests : cancelled[s] => cancelled'[s]
    BY <1>0, <1>11
    DEF Submit, Enqueue, Busy, Unavailable, Read, Receive, EndOfStream, HangUp, DropHandle,
        Cancel, CancelLock, CancelAbort, CancelUnlock, DropReceiver
  <2> QED
    BY <1>0, <2>1, <2>2 DEF RunInv
<1>12. CASE UNCHANGED vars
  BY <1>12 DEF vars, RunInv
<1> QED
  BY <1>1, <1>3, <1>4, <1>5, <1>6, <1>7, <1>8, <1>9, <1>10, <1>11, <1>12
  DEF Next, WorkerThread, Idle, Flush, SendPiece

\* ChanInv of one stream: its channel c, how many deltas were read (x) and
\* sent (s), how it ended (o), its final event (f) and its receiver (l).
Stream(c, x, o, f, l, s) ==
  /\ f = "none" =>
       /\ l => s = x + Len(c)
       /\ o \in {"pending", "cut"}
       /\ \A i \in 1..Len(c) : c[i].kind = "delta"
  /\ f # "none" /\ o = "pending" /\ l => s + 1 = x + Len(c)
  /\ \A i \in 1..Len(c) :
       /\ o = "pending"
       /\ c[i].kind = "delta" => c[i].n = x + i
       /\ c[i].kind # "delta" => i = Len(c)
       /\ c[i].kind = "done" => c[i].n = x + i - 1

ChanOk(r) == Stream(chan[r], received[r], outcome[r], final[r], listening[r], sent[r])

\* One event more at the end of a stream, and one less at its front.
LEMMA Grown ==
  ASSUME NEW c, NEW d, NEW e, NEW x \in Nat, NEW s, NEW k,
         Len(c) \in Nat, Len(d) = Len(c) + 1, d[Len(c) + 1] = e, e.kind = k,
         \A i \in 1..Len(c) : d[i] = c[i],
         Stream(c, x, "pending", "none", TRUE, s)
  PROVE  /\ k = "delta" /\ e.n = s + 1 => Stream(d, x, "pending", "none", TRUE, s + 1)
         /\ k \notin {"delta", "none"} /\ (k = "done" => e.n = s)
              => Stream(d, x, "pending", k, TRUE, s)
<1>1. s = x + Len(c)
  BY DEF Stream
<1>2. \A i \in 1..Len(d) : i \in 1..Len(c) \/ i = Len(c) + 1
  OBVIOUS
<1>3. \A i \in 1..Len(c) : i # Len(c) + 1 /\ d[i].kind = "delta" /\ d[i].n = x + i
  BY DEF Stream
<1>4. ASSUME k = "delta", e.n = s + 1 PROVE Stream(d, x, "pending", "none", TRUE, s + 1)
  <2>1. \A i \in 1..Len(d) : d[i].kind = "delta" /\ d[i].n = x + i
    BY <1>1, <1>2, <1>3, <1>4
  <2>2. s + 1 = x + Len(d)
    BY <1>1
  <2> QED
    BY <2>1, <2>2 DEF Stream
<1>5. ASSUME k \notin {"delta", "none"}, k = "done" => e.n = s
      PROVE  Stream(d, x, "pending", k, TRUE, s)
  <2>1. \A i \in 1..Len(c) : d[i].kind = "delta" /\ d[i].n = x + i
    BY <1>3
  <2>2. d[Len(c) + 1].kind = k /\ (k = "done" => d[Len(c) + 1].n = x + (Len(c) + 1) - 1)
    BY <1>1, <1>5
  <2>3. \A i \in 1..Len(d) :
          /\ d[i].kind = "delta" => d[i].n = x + i
          /\ d[i].kind # "delta" => i = Len(d)
          /\ d[i].kind = "done" => d[i].n = x + i - 1
    BY <1>2, <1>5, <2>1, <2>2
  <2>4. s + 1 = x + Len(d)
    BY <1>1
  <2> QED
    BY <1>5, <2>3, <2>4 DEF Stream
<1> QED
  BY <1>4, <1>5

LEMMA Shifted ==
  ASSUME NEW c, NEW d, NEW x \in Nat, NEW s, NEW o, NEW f, NEW l, NEW k,
         Len(c) \in Nat \ {0}, Len(d) = Len(c) - 1, c[1].kind = k, k # "pending",
         \A i \in 1..Len(d) : d[i] = c[i + 1],
         Stream(c, x, o, f, l, s)
  PROVE  /\ k = "delta" => Stream(d, x + 1, o, f, l, s)
         /\ k # "delta" => Stream(d, x, k, f, l, s)
<1>0. \A i \in 1..Len(c) :
        /\ o = "pending" /\ (f = "none" => c[i].kind = "delta")
        /\ c[i].kind = "delta" => c[i].n = x + i
        /\ c[i].kind # "delta" => i = Len(c)
        /\ c[i].kind = "done" => c[i].n = x + i - 1
  BY DEF Stream
<1>1. \A i \in 1..Len(d) : i + 1 \in 1..Len(c)
  OBVIOUS
<1>2. ASSUME k = "delta" PROVE Stream(d, x + 1, o, f, l, s)
  <2>1. \A i \in 1..Len(d) :
          o = "pending" /\ (f = "none" => d[i].kind = "delta")
    BY <1>0, <1>1
  <2>2. \A i \in 1..Len(d) : d[i].kind = "delta" => d[i].n = (x + 1) + i
    BY <1>0, <1>1
  <2>3. \A i \in 1..Len(d) : d[i].kind # "delta" => i = Len(d)
    BY <1>0, <1>1
  <2>4. \A i \in 1..Len(d) : d[i].kind = "done" => d[i].n = (x + 1) + i - 1
    BY <1>0, <1>1
  <2>5. x + Len(c) = (x + 1) + Len(d)
    OBVIOUS
  <2> QED
    BY <2>1, <2>2, <2>3, <2>4, <2>5 DEF Stream
<1>3. ASSUME k # "delta" PROVE Stream(d, x, k, f, l, s)
  <2>1. f # "none" /\ Len(c) = 1
    BY <1>3 DEF Stream
  <2> QED
    BY <2>1 DEF Stream
<1> QED
  BY <1>2, <1>3

LEMMA Sends ==
  ASSUME NEW c \in Seq(Event), NEW x \in Nat, NEW s \in Nat, NEW e \in Event, NEW k,
         e.kind = k, Stream(c, x, "pending", "none", TRUE, s)
  PROVE  /\ k = "delta" /\ e.n = s + 1
              => Stream(Append(c, e), x, "pending", "none", TRUE, s + 1)
         /\ k \notin {"delta", "none"} /\ (k = "done" => e.n = s)
              => Stream(Append(c, e), x, "pending", k, TRUE, s)
<1>1. PICK d : d = Append(c, e)
  OBVIOUS
<1>2. /\ Len(c) \in Nat /\ Len(d) = Len(c) + 1 /\ d[Len(c) + 1] = e
      /\ \A i \in 1..Len(c) : d[i] = c[i]
  BY <1>1, AppendProperties
<1> QED
  BY <1>1, <1>2, Grown

LEMMA Reads ==
  ASSUME NEW c \in Seq(Event), NEW x \in Nat, NEW s, NEW o, NEW f, NEW l, NEW k,
         c # <<>>, k = Head(c).kind, Stream(c, x, o, f, l, s)
  PROVE  /\ k = "delta" => Stream(Tail(c), x + 1, o, f, l, s)
         /\ k # "delta" => Stream(Tail(c), x, k, f, l, s)
<1>1. PICK d : d = Tail(c)
  OBVIOUS
<1>2. /\ Len(c) \in Nat \ {0} /\ Len(d) = Len(c) - 1 /\ c[1].kind = k
      /\ Head(c) \in Event /\ \A i \in 1..Len(d) : d[i] = c[i + 1]
  BY <1>1, HeadTailProperties, EmptySeq
<1>3. k # "pending"
  BY <1>2 DEF Event
<1> QED
  BY <1>1, <1>2, <1>3, Shifted

LEMMA ChanByCall ==
  /\ ChanInv <=> \A r \in Requests : ChanOk(r)
  /\ ChanInv' <=> \A r \in Requests : ChanOk(r)'
  BY DEF ChanInv, CountInv, StreamInOrder, DoneMeansWhole, ChanOk, Stream

\* Whatever is sent is sent by a job whose stream is still open.
LEMMA SenderIsOpen ==
  ASSUME CancelInv, FinalInv, CutOnlyByCrash, RunInv, ChanInv,
         job # NoRequest, CanSend
  PROVE  \E j \in Requests :
           /\ j = job /\ outcome[j] = "pending" /\ final[j] = "none" /\ listening[j]
           /\ sent[j] = produced - unsent
           /\ Stream(chan[j], received[j], "pending", "none", TRUE, sent[j])
<1>1. PICK j \in Requests : j = job
  BY JobIsAlive
<1>2. /\ final[j] = "none" /\ listening[j] = TRUE /\ wpc # "dead"
      /\ sent[j] = produced - unsent
  BY <1>1, JobIsAlive DEF CanSend, FinalInv, CancelInv, TypeOK, JobInv, RunInv
<1>3. outcome[j] = "pending" /\ ChanOk(j)
  BY <1>2, ChanByCall DEF ChanInv, CountInv, CutOnlyByCrash
<1> QED
  BY <1>1, <1>2, <1>3 DEF ChanOk

LEMMA ChanStep ==
  CancelInv /\ FinalInv /\ CutOnlyByCrash /\ RunInv /\ ChanInv /\ [Next]_vars => ChanInv'
<1> SUFFICES ASSUME CancelInv, FinalInv, CutOnlyByCrash, RunInv, ChanInv, [Next]_vars,
                    NEW r \in Requests
             PROVE  ChanOk(r)'
  BY ChanByCall
<1> USE DEF shared, task, run, published, Goes, Moves
<1>0. /\ chan \in [Requests -> Seq(Event)]
      /\ outcome \in [Requests -> {"pending", "done", "failed", "cut"}]
      /\ final \in [Requests -> {"none", "done", "failed"}]
      /\ listening \in [Requests -> BOOLEAN]
      /\ sent \in [Requests -> Nat] /\ received \in [Requests -> Nat]
      /\ produced \in Nat /\ unsent \in Nat /\ held \in 0..1
      /\ NoRequest \notin Requests /\ (job = NoRequest <=> wpc \in {"recv", "dead"})
      /\ ChanOk(r)
  BY WorkerAssumption, ChanByCall DEF WorkerAssumption, CancelInv, TypeOK, JobInv
<1>1. CASE SendDelta /\ CanSend /\ unsent > 0 /\ job # NoRequest
  <2>1. PICK j \in Requests :
          /\ j = job /\ outcome[j] = "pending" /\ final[j] = "none" /\ listening[j]
          /\ sent[j] = produced - unsent
          /\ Stream(chan[j], received[j], "pending", "none", TRUE, sent[j])
    BY <1>1, SenderIsOpen
  <2>2. Delta \in Event /\ Delta.kind = "delta" /\ Delta.n = sent[j] + 1
    BY <1>0, <1>1, <2>1 DEF Delta, Event, CancelInv, JobInv
  <2>3. /\ chan' = [chan EXCEPT ![j] = Append(chan[j], Delta)]
        /\ sent' = [sent EXCEPT ![j] = sent[j] + 1]
        /\ UNCHANGED <<final, outcome, received, listening>>
    BY <1>1, <2>1 DEF SendDelta, Send
  <2>4. Stream(Append(chan[j], Delta), received[j], "pending", "none", TRUE, sent[j] + 1)
    BY <1>0, <2>1, <2>2, Sends
  <2>5. CASE j = r
    BY <1>0, <2>1, <2>3, <2>4, <2>5 DEF ChanOk
  <2>6. CASE j # r
    BY <1>0, <2>3, <2>6 DEF ChanOk
  <2> QED
    BY <2>5, <2>6
<1>2. CASE Report
  <2>1. PICK j \in Requests :
          /\ j = job /\ outcome[j] = "pending" /\ final[j] = "none" /\ listening[j]
          /\ sent[j] = produced - unsent
          /\ Stream(chan[j], received[j], "pending", "none", TRUE, sent[j])
    BY <1>0, <1>2, SenderIsOpen DEF Report
  <2>2. PICK e \in Event :
          /\ e.kind \in {"done", "failed"}
          /\ e.kind = "done" => result = "ok" /\ e.n = produced + held
          /\ Send(e) /\ final' = [final EXCEPT ![job] = e.kind]
    <3>1. Done \in Event /\ Failed \in Event
      BY DEF Done, Failed, Event, CancelInv, TypeOK
    <3>2. Done.kind = "done" /\ Done.n = produced + held /\ Failed.kind = "failed"
      BY DEF Done, Failed
    <3> QED
      BY <1>2, <3>1, <3>2 DEF Report
  <2>3. e.kind # "delta" /\ (e.kind = "done" => e.n = sent[j])
    BY <1>0, <1>2, <2>1, <2>2 DEF Report, RunInv
  <2>4. /\ chan' = [chan EXCEPT ![j] = Append(chan[j], e)]
        /\ final' = [final EXCEPT ![j] = e.kind]
        /\ UNCHANGED <<sent, outcome, received, listening>>
    BY <1>2, <2>1, <2>2 DEF Report, Send
  <2>5. Stream(Append(chan[j], e), received[j], "pending", e.kind, TRUE, sent[j])
    BY <1>0, <2>1, <2>2, <2>3, Sends
  <2>6. CASE j = r
    BY <1>0, <2>1, <2>4, <2>5, <2>6 DEF ChanOk
  <2>7. CASE j # r
    BY <1>0, <2>4, <2>7 DEF ChanOk
  <2> QED
    BY <2>6, <2>7
<1>3. ASSUME NEW s \in Requests, Receive(s) PROVE ChanOk(r)'
  <2> DEFINE kind == Head(chan[s]).kind
  <2>1. /\ chan' = [chan EXCEPT ![s] = Tail(chan[s])] /\ chan[s] # <<>>
        /\ UNCHANGED <<final, sent, listening>>
        /\ \/ kind = "delta" /\ received' = [received EXCEPT ![s] = @ + 1] /\ UNCHANGED outcome
           \/ kind # "delta" /\ outcome' = [outcome EXCEPT ![s] = kind] /\ UNCHANGED received
    BY <1>3 DEF Receive
  <2>2. ChanOk(s)
    BY ChanByCall
  <2> HIDE DEF kind
  <2>3. /\ kind = "delta"
             => Stream(Tail(chan[s]), received[s] + 1, outcome[s], final[s], listening[s],
                       sent[s])
        /\ kind # "delta"
             => Stream(Tail(chan[s]), received[s], kind, final[s], listening[s], sent[s])
    BY <1>0, <2>1, <2>2, Reads DEF ChanOk, kind
  <2>4. CASE s = r
    BY <1>0, <2>1, <2>3, <2>4 DEF ChanOk
  <2>5. CASE s # r
    BY <1>0, <2>1, <2>5 DEF ChanOk
  <2> QED
    BY <2>4, <2>5
<1>4. CASE Pop \/ Check \/ Claim \/ Release \/ Settle \/ SendRefused \/ BeginPrefill
           \/ BeginDecode \/ Stop \/ Return \/ Panic \/ UNCHANGED vars
  BY <1>0, <1>4
  DEF ChanOk, Pop, Check, Claim, Release, Settle, SendRefused, BeginPrefill, BeginDecode,
      Stop, Return, Panic, vars
<1>5. ASSUME NEW k \in 0..MaxPieces, NEW h \in 0..1, Callback(k, h) PROVE ChanOk(r)'
  BY <1>0, <1>5 DEF ChanOk, Callback
<1>6. ASSUME NEW s \in Requests,
             Submit(s) \/ HangUp(s) \/ CancelLock(s) \/ CancelAbort(s) \/ CancelUnlock(s)
      PROVE  ChanOk(r)'
  BY <1>0, <1>6
  DEF ChanOk, Submit, Enqueue, Busy, Unavailable, HangUp, CancelLock, CancelAbort,
      CancelUnlock
<1>7. ASSUME NEW s \in Requests, EndOfStream(s) PROVE ChanOk(r)'
  <2>1. /\ UNCHANGED <<chan, received, final, listening, sent>>
        /\ \/ outcome'[r] = outcome[r]
           \/ outcome[r] = "pending" /\ chan[r] = <<>> /\ outcome'[r] = "cut"
    BY <1>0, <1>7 DEF EndOfStream
  <2> QED
    BY <1>0, <2>1 DEF ChanOk, Stream
<1>8. ASSUME NEW s \in Requests, DropReceiver(s) PROVE ChanOk(r)'
  <2>1. /\ UNCHANGED <<final, outcome, received, sent>>
        /\ \/ chan'[r] = chan[r] /\ listening'[r] = listening[r]
           \/ chan'[r] = <<>> /\ ~listening'[r]
    BY <1>0, <1>8 DEF DropReceiver
  <2>2. CASE chan'[r] = chan[r] /\ listening'[r] = listening[r]
    BY <1>0, <2>1, <2>2 DEF ChanOk
  <2>3. CASE chan'[r] = <<>> /\ ~listening'[r]
    <3>1. final[r] = "none" => outcome[r] \in {"pending", "cut"}
      BY <1>0 DEF ChanOk, Stream
    <3>2. Len(chan'[r]) = 0 /\ ~listening'[r]
      BY <2>3
    <3> QED
      BY <2>1, <3>1, <3>2 DEF ChanOk, Stream
  <2> QED
    BY <2>1, <2>2, <2>3
<1> QED
  BY <1>0, <1>1, <1>2, <1>3, <1>4, <1>5, <1>6, <1>7, <1>8
  DEF Next, WorkerThread, Read, Cancel, Idle, Flush, SendPiece, CancelInv, JobInv

StreamInv ==
  CancelInv /\ PlaceInv /\ FinalInv /\ EndInv /\ QuietInv /\ RunInv /\ ChanInv

LEMMA StreamAlways == Spec => []StreamInv
<1>1. Init => StreamInv
  BY CancelInit, PlaceInit, FinalInit, EndInit, SumInit DEF StreamInv
<1>2. StreamInv /\ [Next]_vars => StreamInv'
  BY CancelStep, PlaceStep, FinalStep, LeftStep, ToldStep, LastStep, CutStep, QuietStep,
     RunStep, ChanStep
  DEF StreamInv, EndInv
<1> QED
  BY <1>1, <1>2, PTL DEF Spec

\* What a client reads is the output of its run in order, nothing lost,
\* repeated or added, and nothing after the final event (run_job's callback
\* and its blocking sends, worker/mod.rs:187-205).
THEOREM ReadsInOrder == Spec => []StreamInOrder
<1>1. StreamInv => StreamInOrder
  BY DEF StreamInv, ChanInv
<1> QED
  BY <1>1, StreamAlways, PTL

\* Done comes after every piece the parser made of the output, the flushed
\* tail included (worker/mod.rs:219-235).
THEOREM DoneIsWhole == Spec => []DoneMeansWhole
<1>1. StreamInv => DoneMeansWhole
  BY DEF StreamInv, ChanInv
<1> QED
  BY <1>1, StreamAlways, PTL
-----------------------------------------------------------------------------
(* Part 6.  Nobody waits for good: who can take the next step, and how far *)
(* every accepted call is from its end.  This is the part of the liveness  *)
(* properties that is not about fairness.                                  *)

\* What the worker thread waits for: a job, the lock, room in a channel
\* somebody still holds.  It is the guard of WorkerThread.
ThreadMay ==
  /\ wpc # "dead"
  /\ wpc = "recv" => queue # <<>>
  /\ wpc \in {"claim", "clear"} => lock = NoRequest
  /\ wpc \in {"send", "flush", "report"} => ~listening[job] \/ Len(chan[job]) < EventBuffer

\* Of a cancel, only the lock: the guard of Cancel.
CancelMay(r) ==
  /\ client[r] \in {"flagged", "aborting", "unlocking", "dropping"}
  /\ client[r] = "flagged" => lock = NoRequest

\* Of a client that reads, an event or the end of its stream: the guard of Read.
ReadMay(r) ==
  /\ client[r] = "open"
  /\ chan[r] # <<>> \/ outcome[r] = "failed" \/ ~SenderAlive(r)

\* A call whose client has left, whether it is on the worker thread or not, is
\* never held up by a client: not by others that do not read, not by its own
\* channel (blocking_send against RunHandle::drop, worker/mod.rs:77-95, 198).
LeaverGoesOn ==
  \A r \in Requests :
    cancelled[r] /\ (job = r \/ client[r] # "gone")
      => ThreadMay \/ \E s \in Requests : CancelMay(s)

\* While a call that was accepted is not over, somebody can take a step: the
\* worker thread, a cancel, or a client that has something to read.
SomebodyMoves ==
  \A r \in Requests :
    client[r] \in {"open", "flagged", "aborting", "unlocking", "dropping"}
      => ThreadMay \/ \E s \in Requests : CancelMay(s) \/ ReadMay(s)

\* A task that is over has dropped its receiver.
GoneInv == \A r \in Requests : client[r] = "gone" => ~listening[r]

LEMMA GoneStep == CancelInv /\ GoneInv /\ [Next]_vars => GoneInv'
<1> SUFFICES ASSUME CancelInv, GoneInv, [Next]_vars PROVE GoneInv'
  OBVIOUS
<1> USE DEF GoneInv, shared, task, run, published, Moves, Goes
<1>0. /\ client \in [Requests -> {"new", "busy", "unavailable", "open", "flagged",
                                  "aborting", "unlocking", "dropping", "gone"}]
      /\ listening \in [Requests -> BOOLEAN]
  BY DEF CancelInv, TypeOK
<1>1. CASE WorkerThread \/ Panic
  <2>1. UNCHANGED <<client, listening>>
    BY <1>1 DEF WorkerThread, Pop, Check, Claim, Release, Settle, Flush, Report, SendRefused,
       BeginPrefill, BeginDecode, SendPiece, SendDelta, Stop, Return, Callback, Panic
  <2> QED
    BY <2>1
<1>2. ASSUME NEW r \in Requests, Submit(r) \/ Read(r) \/ HangUp(r) PROVE GoneInv'
  BY <1>0, <1>2 DEF Submit, Enqueue, Busy, Unavailable, Read, Receive, EndOfStream, HangUp,
     DropHandle
<1>3. ASSUME NEW r \in Requests, Cancel(r) PROVE GoneInv'
  BY <1>0, <1>3 DEF Cancel, CancelLock, CancelAbort, CancelUnlock, DropReceiver
<1>4. CASE UNCHANGED vars
  BY <1>4 DEF vars
<1> QED
  BY <1>1, <1>2, <1>3, <1>4 DEF Next, Idle

\* Whoever holds the lock goes on.
LEMMA HolderMoves == ASSUME CancelInv, lock # NoRequest
                     PROVE  \E s \in Requests : CancelMay(s)
  BY DEF CancelInv, TypeOK, LockInv, CancelMay

LEMMA LeaverMoves ==
  ASSUME CancelInv, LeftInv, GoneInv, NEW r \in Requests, cancelled[r],
         job = r \/ client[r] # "gone"
  PROVE  ThreadMay \/ \E s \in Requests : CancelMay(s)
<1>1. client[r] \in Cancelling
  BY DEF LeftInv
<1>2. CASE client[r] # "gone"
  <2>1. CASE lock = NoRequest
    BY <1>1, <1>2, <2>1 DEF CancelMay, Cancelling
  <2> QED
    BY <2>1, HolderMoves
<1>3. CASE client[r] = "gone"
  <2>1. job = r /\ ~listening[job] /\ wpc \notin {"recv", "dead"}
    BY <1>3, WorkerAssumption DEF GoneInv, CancelInv, JobInv, WorkerAssumption
  <2>2. CASE lock = NoRequest
    BY <2>1, <2>2 DEF ThreadMay
  <2> QED
    BY <2>2, HolderMoves
<1> QED
  BY <1>2, <1>3

\* The channel that holds up the thread is one its client can read or drop.
LEMMA FullIsRead ==
  ASSUME StreamInv, GoneInv, job # NoRequest, listening[job], ~(Len(chan[job]) < EventBuffer)
  PROVE  \E s \in Requests : CancelMay(s) \/ ReadMay(s)
<1>1. PICK j \in Requests : j = job
  BY JobIsAlive DEF StreamInv
<1>2. SenderAlive(j) /\ ~Fresh(j)
  BY <1>1 DEF SenderAlive, StreamInv, PlaceInv
<1>3. client[j] = "open" \/ (client[j] \in Cancelling /\ client[j] # "gone")
  BY <1>1, <1>2 DEF StreamInv, CancelInv, TypeOK, Fresh, GoneInv, Cancelling
<1>4. CASE client[j] = "open"
  <2>1. chan[j] \in Seq(Event) /\ EventBuffer \in Nat \ {0}
    BY WorkerAssumption DEF WorkerAssumption, StreamInv, CancelInv, TypeOK
  <2>2. chan[j] # <<>>
    BY <1>1, <2>1
  <2> QED
    BY <1>4, <2>2 DEF ReadMay
<1>5. CASE client[j] \in Cancelling /\ client[j] # "gone"
  <2>1. CASE lock = NoRequest
    BY <1>5, <2>1 DEF CancelMay, Cancelling
  <2> QED
    BY <2>1, HolderMoves DEF StreamInv
<1> QED
  BY <1>3, <1>4, <1>5

LEMMA AnyMoves ==
  ASSUME StreamInv, GoneInv, NEW r \in Requests,
         client[r] \in {"open", "flagged", "aborting", "unlocking", "dropping"}
  PROVE  ThreadMay \/ \E s \in Requests : CancelMay(s) \/ ReadMay(s)
<1>1. CASE client[r] # "open"
  <2>1. cancelled[r] /\ client[r] # "gone"
    BY <1>1 DEF StreamInv, CancelInv, FlagInv, Cancelling
  <2> QED
    BY <2>1, LeaverMoves DEF StreamInv, EndInv
<1>2. CASE client[r] = "open" /\ job # NoRequest
  <2>1. wpc \notin {"recv", "dead"}
    BY <1>2 DEF StreamInv, CancelInv, JobInv
  <2>2. CASE lock = NoRequest
    <3>1. CASE wpc \in {"send", "flush", "report"}
      BY <1>2, <2>1, <2>2, <3>1, FullIsRead DEF ThreadMay
    <3> QED
      BY <2>1, <2>2, <3>1 DEF ThreadMay
  <2> QED
    BY <2>2, HolderMoves DEF StreamInv
<1>3. CASE client[r] = "open" /\ job = NoRequest
  <2>1. wpc \in {"recv", "dead"} /\ (wpc = "dead" => queue = <<>>)
    BY <1>3 DEF StreamInv, CancelInv, JobInv, PlaceInv
  <2>2. CASE queue # <<>>
    BY <2>1, <2>2 DEF ThreadMay
  <2>3. CASE queue = <<>>
    <3>1. ~SenderAlive(r)
      BY <1>3, <2>3, WorkerAssumption DEF SenderAlive, WorkerAssumption
    <3> QED
      BY <1>3, <3>1 DEF ReadMay
  <2> QED
    BY <2>2, <2>3
<1> QED
  BY <1>1, <1>2, <1>3

LEMMA GoneAlways == Spec => [](StreamInv /\ GoneInv)
<1>1. Init => GoneInv
  BY DEF Init, GoneInv
<1>2. StreamInv /\ GoneInv /\ [Next]_vars => GoneInv'
  BY GoneStep DEF StreamInv
<1> QED
  BY <1>1, <1>2, StreamAlways, PTL DEF Spec

\* A client that has left is never held up by another: the only thing its
\* cancel and its run can wait for, the mutex of `current`, is held by somebody
\* who goes on (CancelHandle::cancel and run_job, worker/mod.rs:77-95, 164-236).
THEOREM LeaversGoOn == Spec => []LeaverGoesOn
<1>1. StreamInv /\ GoneInv => LeaverGoesOn
  BY LeaverMoves DEF LeaverGoesOn, StreamInv, EndInv
<1> QED
  BY <1>1, GoneAlways, PTL

\* No lock, full channel or crash stops everybody: a full channel has a client
\* that can read it, and a dead worker leaves streams that end (the bounded
\* queue, the mutex and blocking_send, worker/mod.rs:77-95, 98-236).
THEOREM NobodyIsStuck == Spec => []SomebodyMoves
<1>1. StreamInv /\ GoneInv => SomebodyMoves
  BY AnyMoves DEF SomebodyMoves
<1> QED
  BY <1>1, GoneAlways, PTL

-----------------------------------------------------------------------------
(* Part 7.  How far an accepted call is from its end.                      *)

\* The steps the worker thread still takes before it drops its job, at most:
\* a callback costs one, and one for each piece.
Round   == MaxPieces + 2
Longest == MaxCallbacks * Round + 11

Toll ==
  CASE wpc \in {"recv", "dead"} -> 0
    [] wpc = "check"    -> Longest
    [] wpc = "claim"    -> Longest - 1
    [] wpc = "call"     -> Longest - 2
    [] wpc = "prefill"  -> Longest - 3
    [] wpc = "decode"   -> (MaxCallbacks - callbacks) * Round + 6
    [] wpc = "send"     -> (MaxCallbacks - callbacks) * Round + unsent + 6
    [] wpc = "stopping" -> 5
    [] wpc = "clear"    -> 4
    [] wpc = "settle"   -> 3
    [] wpc = "flush"    -> 2
    [] wpc = "report"   -> 1

\* How many runs are in front of the one of r, and how far it is from its end.
Place(r)    == IF job = r THEN 0 ELSE CHOOSE i \in 1..Len(queue) : queue[i] = r
Distance(r) == Place(r) * (Longest + 1) + Toll

ThreadAt == <<wpc, job, run>>

\* Every step of the worker thread brings every accepted call closer to its
\* end, and no step of anybody else, later calls among them, puts one back.
EveryStepCounts ==
  [][\A r \in Requests : SenderAlive(r) =>
       \/ ~SenderAlive(r)'
       \/ Distance(r)' \in Nat /\ Distance(r) \in Nat /\ Distance(r)' < Distance(r)
       \/ UNCHANGED ThreadAt /\ Distance(r)' = Distance(r)]_vars

\* A run has no more callbacks than the runtime makes, and a callback no more
\* pieces than the parser returns.
LimitInv == callbacks <= MaxCallbacks /\ (wpc = "send" => callbacks >= 1 /\ unsent <= MaxPieces)

LEMMA LimitStep == CancelInv /\ LimitInv /\ [Next]_vars => LimitInv'
<1> SUFFICES ASSUME CancelInv, LimitInv, [Next]_vars PROVE LimitInv'
  OBVIOUS
<1> USE WorkerAssumption DEF LimitInv, WorkerAssumption, run, Goes
<1>0. /\ callbacks \in Nat /\ unsent \in Nat
  BY DEF CancelInv, TypeOK
<1>1. CASE Check \/ Settle \/ Report \/ SendRefused \/ Panic
  BY <1>0, <1>1 DEF Check, Settle, Report, SendRefused, Panic, DropJob, ClearJob
<1>2. CASE Pop \/ Claim \/ Release \/ BeginPrefill \/ BeginDecode \/ Stop \/ Return
  BY <1>0, <1>2 DEF Pop, Claim, Release, BeginPrefill, BeginDecode, Stop, Return
<1>3. CASE Flush \/ SendPiece
  BY <1>0, <1>3 DEF Flush, SendPiece, SendDelta
<1>4. ASSUME NEW k \in 0..MaxPieces, NEW h \in 0..1, Callback(k, h) PROVE LimitInv'
  BY <1>0, <1>4 DEF Callback
<1>5. ASSUME NEW r \in Requests, Submit(r) \/ Read(r) \/ HangUp(r) \/ Cancel(r) PROVE LimitInv'
  BY <1>5 DEF Submit, Enqueue, Busy, Unavailable, Read, Receive, EndOfStream, HangUp, Cancel,
     CancelLock, CancelAbort, CancelUnlock, DropReceiver
<1>6. CASE UNCHANGED vars
  BY <1>6 DEF vars
<1> QED
  BY <1>1, <1>2, <1>3, <1>4, <1>5, <1>6 DEF Next, WorkerThread, Idle

\* A callback is worth a round.
LEMMA RoundCosts == ASSUME NEW c \in Nat, c <= MaxCallbacks
                    PROVE  /\ Round \in Nat /\ Round = MaxPieces + 2 /\ Longest \in Nat /\ Longest > 0
                           /\ (MaxCallbacks - c) * Round \in Nat
                           /\ (MaxCallbacks - c) * Round + 11 <= Longest
                           /\ c >= 1 => (MaxCallbacks - c) * Round + Round + 11 <= Longest
                           /\ c < MaxCallbacks =>
                                (MaxCallbacks - (c + 1)) * Round = (MaxCallbacks - c) * Round - Round
<1>1. Round \in Nat /\ MaxCallbacks \in Nat /\ MaxPieces \in Nat /\ Round = MaxPieces + 2
  BY WorkerAssumption DEF WorkerAssumption, Round
<1>2. ASSUME NEW a \in Nat, NEW b \in Nat PROVE a * b \in Nat
  BY <1>2
<1>3. MaxCallbacks * Round \in Nat /\ c * Round \in Nat /\ (MaxCallbacks - c) * Round \in Nat
  <2>1. MaxCallbacks - c \in Nat
    BY <1>1
  <2> QED
    BY <1>1, <1>2, <2>1
<1>4. (MaxCallbacks - c) * Round = MaxCallbacks * Round - c * Round
  BY <1>1
<1>5. (MaxCallbacks - (c + 1)) * Round = MaxCallbacks * Round - c * Round - Round
  BY <1>1
<1>6. c >= 1 => c * Round >= Round
  <2>1. ASSUME c >= 1 PROVE c - 1 \in Nat /\ c * Round = (c - 1) * Round + Round
    BY <1>1, <2>1
  <2>2. ASSUME c >= 1 PROVE (c - 1) * Round \in Nat
    BY <1>1, <1>2, <2>1, <2>2
  <2> QED
    BY <1>1, <2>1, <2>2
<1> HIDE DEF Round
<1> DEFINE m == MaxCallbacks * Round
           d == c * Round
           l == (MaxCallbacks - c) * Round
<1>7. m \in Nat /\ d \in Nat /\ l \in Nat /\ l = m - d /\ Longest = m + 11
      /\ (c >= 1 => d >= Round)
  BY <1>3, <1>4, <1>6 DEF Longest
<1>8. (MaxCallbacks - (c + 1)) * Round = m - d - Round
  BY <1>5
<1> HIDE DEF m, d, l
<1>9. /\ Longest \in Nat /\ l + 11 <= Longest /\ (c >= 1 => l + Round + 11 <= Longest)
      /\ (MaxCallbacks - (c + 1)) * Round = l - Round
  BY <1>1, <1>7, <1>8
<1> QED
  BY <1>1, <1>7, <1>9 DEF l

LEMMA TollBounded == ASSUME CancelInv, LimitInv
                     PROVE  Toll \in Nat /\ Toll <= Longest
<1>1. /\ callbacks \in Nat /\ unsent \in Nat /\ MaxPieces \in Nat
      /\ wpc \in {"recv", "check", "claim", "call", "prefill", "decode", "send",
                  "stopping", "clear", "settle", "flush", "report", "dead"}
  BY WorkerAssumption DEF WorkerAssumption, CancelInv, TypeOK
<1> DEFINE left == (MaxCallbacks - callbacks) * Round
<1>2. /\ Longest \in Nat /\ left \in Nat /\ left + 11 <= Longest
      /\ Round = MaxPieces + 2 /\ (callbacks >= 1 => left + Round + 11 <= Longest)
  BY <1>1, RoundCosts DEF LimitInv
<1> HIDE DEF left
<1>3. CASE wpc \in {"recv", "dead"}
  <2>1. Toll = 0
    BY <1>3 DEF Toll
  <2> QED
    BY <1>2, <2>1
<1>4. CASE wpc \in {"check", "claim", "call", "prefill"}
  <2>1. Toll \in {Longest, Longest - 1, Longest - 2, Longest - 3}
    BY <1>4 DEF Toll
  <2> QED
    BY <1>2, <2>1
<1>5. CASE wpc = "decode"
  <2>1. Toll = left + 6
    BY <1>5 DEF Toll, left
  <2> QED
    BY <1>2, <2>1
<1>6. CASE wpc = "send"
  <2>1. Toll = left + unsent + 6
    BY <1>6 DEF Toll, left
  <2>2. callbacks >= 1 /\ unsent <= MaxPieces
    BY <1>6 DEF LimitInv
  <2> QED
    BY <1>1, <1>2, <2>1, <2>2
<1>7. CASE wpc \in {"stopping", "clear", "settle", "flush", "report"}
  <2>1. Toll \in {5, 4, 3, 2, 1}
    BY <1>7 DEF Toll
  <2> QED
    BY <1>2, <2>1
<1> QED
  BY <1>1, <1>3, <1>4, <1>5, <1>6, <1>7

\* A step of the thread that takes no job and drops none.
LEMMA TollFalls ==
  ASSUME CancelInv, LimitInv, LimitInv',
         \/ Claim \/ Release \/ Flush \/ BeginPrefill \/ BeginDecode \/ SendPiece \/ Stop \/ Return
         \/ \E k \in 0..MaxPieces, h \in 0..1 : Callback(k, h)
         \/ (Check \/ Settle) /\ ~DropJob
  PROVE  Toll' < Toll /\ UNCHANGED <<queue, job>>
<1> DEFINE left == (MaxCallbacks - callbacks) * Round
<1>1. /\ callbacks \in Nat /\ unsent \in Nat /\ callbacks' \in Nat => callbacks' <= MaxCallbacks
  BY DEF CancelInv, TypeOK, LimitInv
<1>2. /\ callbacks \in Nat /\ unsent \in Nat /\ MaxPieces \in Nat
      /\ Longest \in Nat /\ left \in Nat /\ left + 11 <= Longest
      /\ Round = MaxPieces + 2 /\ (callbacks >= 1 => left + Round + 11 <= Longest)
      /\ callbacks < MaxCallbacks => (MaxCallbacks - (callbacks + 1)) * Round = left - Round
  BY RoundCosts, WorkerAssumption DEF WorkerAssumption, CancelInv, TypeOK, LimitInv
<1>3. Longest' = Longest /\ Round' = Round
  BY DEF Longest, Round
<1>4. CASE Claim \/ BeginPrefill
  BY <1>2, <1>3, <1>4 DEF Claim, BeginPrefill, Goes, Toll, shared
<1>5. CASE BeginDecode
  <2>1. Toll = Longest - 3 /\ Toll' = left + 6
    BY <1>3, <1>5 DEF BeginDecode, Goes, Toll, run
  <2> HIDE DEF left
  <2> QED
    BY <1>2, <1>5, <2>1 DEF BeginDecode, shared
<1>6. CASE SendPiece
  <2>1. /\ Toll = left + unsent + 6
        /\ Toll' = IF unsent = 1 THEN left + 6 ELSE left + (unsent - 1) + 6
    BY <1>3, <1>6 DEF SendPiece, SendDelta, Toll
  <2> HIDE DEF left
  <2> QED
    BY <1>2, <1>6, <2>1 DEF SendPiece, SendDelta
<1>7. ASSUME NEW k \in 0..MaxPieces, NEW h \in 0..1, Callback(k, h)
      PROVE  Toll' < Toll /\ UNCHANGED <<queue, job>>
  <2>1. /\ Toll = left + 6 /\ callbacks < MaxCallbacks
        /\ Toll' = IF k > 0 THEN (MaxCallbacks - (callbacks + 1)) * Round + k + 6
                             ELSE (MaxCallbacks - (callbacks + 1)) * Round + 6
    BY <1>3, <1>7 DEF Callback, Toll
  <2>2. Toll' = IF k > 0 THEN left - Round + k + 6 ELSE left - Round + 6
    BY <1>2, <2>1
  <2> HIDE DEF left
  <2> QED
    BY <1>2, <1>7, <2>1, <2>2 DEF Callback, shared
<1>8. CASE Stop
  <2>1. Toll' = 5 /\ UNCHANGED <<queue, job>>
    BY <1>8 DEF Stop, Toll, shared
  <2>2. Toll = left + 6 \/ Toll = left + unsent + 6
    BY <1>8 DEF Stop, Toll
  <2> HIDE DEF left
  <2> QED
    BY <1>2, <2>1, <2>2
<1>9. CASE Return
  <2>1. Toll' = 4 /\ UNCHANGED <<queue, job>>
    BY <1>9 DEF Return, Toll, shared
  <2>2. Toll = Longest - 2 \/ Toll = Longest - 3 \/ Toll = left + 6 \/ Toll = 5
    BY <1>9 DEF Return, Toll
  <2> HIDE DEF left
  <2> QED
    BY <1>2, <2>1, <2>2
<1>10. CASE Release \/ Flush
  BY <1>10 DEF Release, Flush, SendDelta, Goes, Toll
<1>11. CASE Check /\ ~DropJob
  BY <1>2, <1>3, <1>11 DEF Check, Toll, shared
<1>12. CASE Settle /\ ~DropJob
  BY <1>12 DEF Settle, Toll, shared
<1> QED
  BY <1>4, <1>5, <1>6, <1>7, <1>8, <1>9, <1>10, <1>11, <1>12

\* A call that waits is in one place.
LEMMA PlaceIs ==
  ASSUME NEW r \in Requests, NEW q, NEW j, NEW i \in 1..Len(q),
         \A a, b \in 1..Len(q) : q[a] = q[b] => a = b, q[i] = r, j # r
  PROVE  (IF j = r THEN 0 ELSE CHOOSE h \in 1..Len(q) : q[h] = r) = i
  OBVIOUS

TollOk == Toll \in Nat /\ Toll <= Longest

LEMMA TollInRange == /\ CancelInv /\ LimitInv => TollOk
                     /\ (CancelInv /\ LimitInv)' => TollOk'
<1>1. CancelInv /\ LimitInv => TollOk
  BY TollBounded DEF TollOk
<1> QED
  BY <1>1, PTL

LEMMA CallsCloser ==
  ASSUME StreamInv, LimitInv, LimitInv', WorkerThread, PlaceInv', CancelInv',
         NEW r \in Requests, SenderAlive(r), SenderAlive(r)'
  PROVE  Distance(r)' \in Nat /\ Distance(r) \in Nat /\ Distance(r)' < Distance(r)
<1> DEFINE W == Longest + 1
<1>1. /\ Longest \in Nat /\ Longest' = Longest
      /\ Toll \in Nat /\ Toll <= Longest /\ Toll' \in Nat /\ Toll' <= Longest
  <2>1. Longest' = Longest
    BY DEF Longest, Round
  <2>2. Toll \in Nat /\ Toll <= Longest /\ Toll' \in Nat /\ Toll' <= Longest'
    BY TollInRange DEF StreamInv, TollOk
  <2>4. Longest \in Nat
    BY RoundCosts DEF StreamInv, CancelInv, TypeOK, LimitInv
  <2> QED
    BY <2>1, <2>2, <2>4
<1>2. ASSUME NEW p \in Nat, NEW a \in Nat PROVE p * W \in Nat /\ p * W + a \in Nat /\ (p + 1) * W = p * W + W
  BY <1>1
<1>3. /\ \A i \in 1..Len(queue) : queue[i] = r => Place(r) = i
      /\ \A i \in 1..Len(queue') : queue'[i] = r => Place(r)' = i
      /\ job = r => Place(r) = 0
      /\ job' = r => Place(r)' = 0
  <2>1. ASSUME NEW i \in 1..Len(queue), queue[i] = r PROVE Place(r) = i
    BY <2>1, PlaceIs DEF Place, StreamInv, PlaceInv
  <2>2. ASSUME NEW i \in 1..Len(queue'), queue'[i] = r PROVE Place(r)' = i
    BY <2>2, PlaceIs DEF Place, PlaceInv
  <2> QED
    BY <2>1, <2>2 DEF Place
<1>4. /\ Place(r) \in Nat /\ Place(r)' \in Nat
      /\ queue \in Seq(Requests)
  <2>1. queue \in Seq(Requests) /\ queue' \in Seq(Requests)
    BY DEF StreamInv, CancelInv, TypeOK
  <2> QED
    BY <1>3, <2>1 DEF SenderAlive
<1>5. /\ Distance(r) = Place(r) * W + Toll
      /\ Distance(r)' = Place(r)' * W + Toll'
  BY <1>1 DEF Distance
<1> HIDE DEF W
<1>6. W \in Nat /\ Toll < W /\ Toll' < W
  BY <1>1 DEF W
<1>7. Distance(r) \in Nat /\ Distance(r)' \in Nat
  BY <1>1, <1>2, <1>4, <1>5
<1>0. \A x, y, z \in Nat : y < z => x + y < x + z
  OBVIOUS
<1>8. CASE Pop
  <2>1. /\ queue # <<>> /\ job' = Head(queue) /\ queue' = Tail(queue) /\ wpc = "recv" /\ job = NoRequest
    BY <1>8, WorkerAssumption DEF Pop, Goes, StreamInv, CancelInv, JobInv
  <2>2. Toll = 0
    BY <2>1 DEF Toll
  <2>3. Place(r) = Place(r)' + 1
    <3>1. CASE job' = r
      BY <1>3, <1>4, <2>1, <3>1, QueueTail
    <3>2. CASE job' # r
      <4>1. PICK i \in 1..Len(queue') : queue'[i] = r
        BY <3>2 DEF SenderAlive
      <4>2. i + 1 \in 1..Len(queue) /\ queue[i + 1] = r
        BY <1>4, <2>1, <4>1, QueueTail
      <4> QED
        BY <1>3, <4>1, <4>2
    <3> QED
      BY <3>1, <3>2
  <2>4. Place(r) * W = Place(r)' * W + W /\ Place(r)' * W \in Nat
    BY <1>1, <1>2, <1>4, <2>3
  <2> DEFINE b == Place(r)' * W
  <2>5. Distance(r) = b + W /\ Distance(r)' = b + Toll' /\ b \in Nat
    BY <1>5, <1>6, <2>2, <2>4
  <2> HIDE DEF b
  <2>6. b + Toll' < b + W
    BY <1>0, <1>1, <1>6, <2>5, Zenon
  <2> QED
    BY <1>7, <2>5, <2>6
<1>9. CASE UNCHANGED queue /\ Toll' < Toll /\ UNCHANGED Place(r)
  <2> DEFINE b == Place(r) * W
  <2>1. Distance(r) = b + Toll /\ Distance(r)' = b + Toll' /\ b \in Nat
    BY <1>2, <1>4, <1>5, <1>6, <1>9
  <2> HIDE DEF b
  <2>2. b + Toll' < b + Toll
    BY <1>0, <1>1, <1>9, <2>1, Zenon
  <2> QED
    BY <1>7, <2>1, <2>2
<1>10. CASE DropJob /\ (Check \/ Settle \/ Report \/ SendRefused)
  <2>1. queue' = queue /\ job' = NoRequest /\ wpc' = "recv"
    BY <1>10 DEF DropJob, ClearJob, Check, Settle, Report, SendRefused, shared
  <2>2. PICK i \in 1..Len(queue) : queue[i] = r
    BY <2>1, WorkerAssumption DEF SenderAlive, WorkerAssumption
  <2>3. Place(r)' = Place(r)
    BY <1>3, <2>1, <2>2
  <2>4. Toll' = 0
    BY <2>1 DEF Toll
  <2>5. Toll \in {Longest, 3, 1, 2}
    BY <1>10 DEF Toll, Check, Settle, Report, SendRefused
  <2>6. Longest > 0
    BY RoundCosts DEF StreamInv, CancelInv, TypeOK, LimitInv
  <2> QED
    BY <1>9, <2>1, <2>3, <2>4, <2>5, <2>6
<1>11. CASE Toll' < Toll /\ UNCHANGED <<queue, job>>
  <2>1. Place(r)' = Place(r)
    BY <1>11 DEF Place
  <2> QED
    BY <1>9, <1>11, <2>1
<1> QED
  BY <1>8, <1>10, <1>11, TollFalls DEF WorkerThread, StreamInv, Report, SendRefused

\* Whatever a client or a cancel does leaves the thread and the places alone;
\* a new call goes behind those that wait.
LEMMA OthersKeep ==
  ASSUME StreamInv, PlaceInv', NEW s \in Requests,
         Submit(s) \/ Read(s) \/ HangUp(s) \/ Cancel(s),
         NEW r \in Requests, SenderAlive(r)
  PROVE  ~SenderAlive(r)' \/ (UNCHANGED ThreadAt /\ Distance(r)' = Distance(r))
<1>1. UNCHANGED ThreadAt
  BY DEF ThreadAt, Submit, Enqueue, Busy, Unavailable, Read, Receive, EndOfStream, HangUp, Cancel,
     CancelLock, CancelAbort, CancelUnlock, DropReceiver
<1>2. Toll' = Toll
  <2>1. UNCHANGED <<wpc, callbacks, unsent>>
    BY <1>1 DEF ThreadAt, run
  <2> QED
    BY <2>1 DEF Toll, Longest, Round
<1>3. Longest' = Longest
  BY DEF Longest, Round
<1>4. CASE UNCHANGED queue
  <2>1. Place(r)' = Place(r)
    BY <1>1, <1>4 DEF Place, ThreadAt
  <2> QED
    BY <1>1, <1>2, <1>3, <2>1 DEF Distance
<1>5. CASE Enqueue(s)
  <2>1. queue \in Seq(Requests) /\ queue' = Append(queue, s) /\ job' = job
    BY <1>5 DEF Enqueue, StreamInv, CancelInv, TypeOK
  <2>2. CASE job = r
    BY <1>1, <1>2, <1>3, <2>1, <2>2 DEF Distance, Place
  <2>3. CASE job # r
    <3>1. PICK i \in 1..Len(queue) : queue[i] = r
      BY <2>3 DEF SenderAlive
    <3>2. i \in 1..Len(queue') /\ queue'[i] = r
      BY <2>1, <3>1, AppendProperties
    <3>3. Place(r) = i
      BY <2>3, <3>1, PlaceIs DEF Place, StreamInv, PlaceInv
    <3>4. Place(r)' = i
      BY <2>1, <2>3, <3>2, PlaceIs DEF Place, PlaceInv
    <3> QED
      BY <1>1, <1>2, <1>3, <3>3, <3>4 DEF Distance
  <2> QED
    BY <2>2, <2>3
<1> QED
  BY <1>4, <1>5 DEF Submit, Busy, Unavailable, Read, Receive, EndOfStream, HangUp, Cancel,
     CancelLock, CancelAbort, CancelUnlock, DropReceiver, shared

LEMMA Closer ==
  ASSUME StreamInv, LimitInv, [Next]_vars, CancelInv', PlaceInv', LimitInv',
         NEW r \in Requests, SenderAlive(r)
  PROVE  \/ ~SenderAlive(r)'
         \/ Distance(r)' \in Nat /\ Distance(r) \in Nat /\ Distance(r)' < Distance(r)
         \/ UNCHANGED ThreadAt /\ Distance(r)' = Distance(r)
<1>1. CASE WorkerThread
  BY <1>1, CallsCloser
<1>2. CASE Panic
  <2>1. queue' = <<>> /\ job' = NoRequest
    BY <1>2 DEF Panic, ClearJob
  <2> QED
    BY <2>1, WorkerAssumption DEF SenderAlive, WorkerAssumption
<1>3. ASSUME NEW s \in Requests, Submit(s) \/ Read(s) \/ HangUp(s) \/ Cancel(s)
      PROVE  ~SenderAlive(r)' \/ (UNCHANGED ThreadAt /\ Distance(r)' = Distance(r))
  BY <1>3, OthersKeep
<1>4. CASE UNCHANGED vars
  <2>1. UNCHANGED <<queue, job, wpc, callbacks, unsent, run>>
    BY <1>4 DEF vars, shared, run
  <2>2. Toll' = Toll /\ Place(r)' = Place(r) /\ Longest' = Longest
    BY <2>1 DEF Toll, Place, Longest, Round
  <2> QED
    BY <2>1, <2>2 DEF Distance, ThreadAt
<1> QED
  BY <1>1, <1>2, <1>3, <1>4 DEF Next, Idle

LEMMA LimitAlways == Spec => [](StreamInv /\ LimitInv)
<1>1. Init => LimitInv
  BY WorkerAssumption DEF Init, LimitInv, WorkerAssumption
<1>2. StreamInv /\ LimitInv /\ [Next]_vars => LimitInv'
  BY LimitStep DEF StreamInv
<1> QED
  BY <1>1, <1>2, StreamAlways, PTL DEF Spec

\* An accepted call is served after finitely many steps of the worker thread,
\* and nobody overtakes it or puts it back (the queue and run_job,
\* worker/mod.rs:98-236).
THEOREM CallsComeCloser == Spec => EveryStepCounts
<1> DEFINE Step == \A r \in Requests : SenderAlive(r) =>
                     \/ ~SenderAlive(r)'
                     \/ Distance(r)' \in Nat /\ Distance(r) \in Nat /\ Distance(r)' < Distance(r)
                     \/ UNCHANGED ThreadAt /\ Distance(r)' = Distance(r)
<1>1. StreamInv /\ LimitInv /\ (StreamInv /\ LimitInv)' /\ [Next]_vars => Step
  BY Closer DEF StreamInv
<1> HIDE DEF Step
<1>2. Spec => [][Step]_vars
  BY <1>1, LimitAlways, PTL DEF Spec
<1> QED
  BY <1>2 DEF EveryStepCounts, Step

\* The queue holds what its channel takes; at depth zero, a job on its way.
Slots == IF QueueDepth = 0 THEN 1 ELSE QueueDepth

QueueInv == Len(queue) <= Slots

LEMMA QueueStep == CancelInv /\ QueueInv /\ [Next]_vars => QueueInv'
<1> SUFFICES ASSUME CancelInv, QueueInv, [Next]_vars PROVE QueueInv'
  OBVIOUS
<1>0. queue \in Seq(Requests) /\ Len(queue) \in Nat /\ QueueDepth \in Nat /\ Slots \in Nat
  BY WorkerAssumption DEF WorkerAssumption, CancelInv, TypeOK, Slots
<1>1. CASE UNCHANGED queue
  BY <1>1 DEF QueueInv, Slots
<1>2. CASE Pop
  BY <1>0, <1>2, QueueTail DEF Pop, QueueInv, Slots
<1>3. CASE queue' = <<>>
  BY <1>0, <1>3 DEF QueueInv, Slots
<1>4. ASSUME NEW r \in Requests, Enqueue(r) PROVE QueueInv'
  <2>1. Len(queue') = Len(queue) + 1
    BY <1>0, <1>4, AppendProperties DEF Enqueue
  <2>2. Len(queue) < QueueDepth \/ (QueueDepth = 0 /\ Len(queue) = 0)
    BY <1>0, <1>4 DEF Enqueue, HasRoom
  <2> QED
    BY <1>0, <2>1, <2>2 DEF QueueInv, Slots
<1> QED
  BY <1>1, <1>2, <1>3, <1>4
  DEF Next, vars, shared, WorkerThread, Check, Claim, Release, Settle, Flush, Report, SendRefused,
      BeginPrefill, BeginDecode, SendPiece, SendDelta, Stop, Return, Callback, Panic, Idle, Submit,
      Busy, Unavailable, Read, Receive, EndOfStream, HangUp, Cancel, CancelLock, CancelAbort,
      CancelUnlock, DropReceiver

\* However many calls there are, an accepted one is at most so many steps of
\* the worker thread from its end: those of a full queue and of the run in
\* front of it (sync_channel(queue_depth), worker/mod.rs:99).
NeverFar ==
  \A r \in Requests :
    SenderAlive(r) => Distance(r) \in 0..(Slots * (Longest + 1) + Longest)

\* The wait of an accepted call is bounded by the queue in front of it, whatever
\* the other calls do and however often they are cancelled (worker/mod.rs:99).
THEOREM WaitIsBounded == Spec => []NeverFar
<1>1. ASSUME StreamInv, LimitInv, QueueInv, NEW r \in Requests, SenderAlive(r)
      PROVE  Distance(r) \in 0..(Slots * (Longest + 1) + Longest)
  <2> DEFINE W == Longest + 1
  <2>1. TollOk /\ Longest \in Nat /\ Slots \in Nat
    BY <1>1, TollInRange, RoundCosts, WorkerAssumption
    DEF WorkerAssumption, StreamInv, CancelInv, TypeOK, LimitInv, Slots
  <2>2. Place(r) \in Nat /\ Place(r) <= Slots
    <3>1. CASE job = r
      BY <2>1, <3>1 DEF Place
    <3>2. CASE job # r
      <4>1. PICK i \in 1..Len(queue) : queue[i] = r
        BY <1>1, <3>2 DEF SenderAlive
      <4>2. Place(r) = i
        BY <1>1, <3>2, <4>1, PlaceIs DEF Place, StreamInv, PlaceInv
      <4>3. Len(queue) \in Nat
        BY <1>1 DEF StreamInv, CancelInv, TypeOK
      <4> QED
        BY <1>1, <2>1, <4>2, <4>3 DEF QueueInv
    <3> QED
      BY <3>1, <3>2
  <2>3. \A p, q, w \in Nat : p * w \in Nat /\ (p <= q => p * w <= q * w)
    <3>1. ASSUME NEW p \in Nat, NEW q \in Nat, NEW w \in Nat PROVE p * w \in Nat
      OBVIOUS
    <3>2. ASSUME NEW p \in Nat, NEW q \in Nat, NEW w \in Nat, p <= q PROVE p * w <= q * w
      <4>1. q - p \in Nat /\ q * w = p * w + (q - p) * w
        BY <3>2
      <4>2. (q - p) * w \in Nat /\ p * w \in Nat
        BY <3>1, <4>1
      <4> QED
        BY <4>1, <4>2
    <3> QED
      BY <3>1, <3>2
  <2>4. W \in Nat /\ Toll \in Nat /\ Toll <= Longest
    BY <2>1 DEF TollOk
  <2> HIDE DEF W
  <2> DEFINE b == Place(r) * W
             c == Slots * W
  <2>5. b \in Nat /\ c \in Nat /\ b <= c
    BY <2>1, <2>2, <2>3, <2>4
  <2>6. Distance(r) = b + Toll
    BY DEF Distance, W
  <2> HIDE DEF b, c
  <2>7. \A x, y, z, t \in Nat : x <= y /\ z <= t => x + z \in 0..(y + t)
    OBVIOUS
  <2>8. b + Toll \in 0..(c + Longest)
    BY <2>1, <2>4, <2>5, <2>7, Zenon
  <2>9. Distance(r) \in 0..(c + Longest)
    BY <2>6, <2>8, Zenon
  <2> QED
    BY <2>9 DEF c, W
<1>2. Init => QueueInv
  BY WorkerAssumption DEF Init, QueueInv, Slots, WorkerAssumption
<1>3. StreamInv /\ QueueInv /\ [Next]_vars => QueueInv'
  BY QueueStep DEF StreamInv
<1>4. StreamInv /\ LimitInv /\ QueueInv => NeverFar
  BY <1>1 DEF NeverFar
<1> QED
  BY <1>2, <1>3, <1>4, LimitAlways, PTL DEF Spec
=============================================================================
