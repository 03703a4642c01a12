-------------------------- MODULE WorkerRefinement --------------------------
(***************************************************************************)
(* Worker implements RunStream: its initial states are initial there, and  *)
(* each of its steps is a step there or none.  The invariants of           *)
(* WorkerProofs say why: a call is in one stage at a time, a job is only   *)
(* dropped unanswered for a client that left, and counts agree.            *)
(***************************************************************************)
EXTENDS WorkerProofs

stage == [r \in Requests |-> Stage(r)]
left  == {r \in Requests : cancelled[r]}
-----------------------------------------------------------------------------
(* What steps do to the stage of a call.                                   *)

\* A step that moves no job, accepts no call and refuses none.
LEMMA StageSame ==
  ASSUME UNCHANGED <<queue, job>>,
         \A r \in Requests : client'[r] = client[r] \/ (~Fresh(r) /\ ~Fresh(r)')
  PROVE  stage' = stage
  BY DEF stage, Stage, Queued, Fresh

\* The job on the thread is active; a call not in the queue once it is dropped
\* is over.
LEMMA StageOfJob ==
  ASSUME StreamInv, NEW j \in Requests, j = job
  PROVE  stage[j] = "active"
<1>1. ~Fresh(j) /\ ~Queued(j)
  BY DEF StreamInv, PlaceInv, SenderAlive, Queued
<1> QED
  BY <1>1 DEF stage, Stage, Fresh

LEMMA StageDropped ==
  ASSUME StreamInv, NEW j \in Requests, j = job, job' = NoRequest,
         UNCHANGED <<queue, client>>
  PROVE  stage' = [stage EXCEPT ![j] = "over"]
<1>1. ~Fresh(j) /\ ~Queued(j) /\ NoRequest \notin Requests
  BY WorkerAssumption DEF WorkerAssumption, StreamInv, PlaceInv, SenderAlive, Queued
<1>2. ASSUME NEW r \in Requests, r # j PROVE Stage(r)' = Stage(r)
  BY <1>1, <1>2 DEF Stage, Queued
<1>3. Stage(j)' = "over"
  BY <1>1 DEF Stage, Queued, Fresh
<1> QED
  BY <1>2, <1>3 DEF stage

\* A client reads from a call that was accepted and that it has not left.
LEMMA StageOfReader ==
  ASSUME StreamInv, NEW r \in Requests, client[r] = "open"
  PROVE  /\ stage[r] \in {"waiting", "active", "over"} /\ r \notin left /\ listening[r]
         /\ ~SenderAlive(r) => stage[r] = "over"
<1>1. ~cancelled[r] /\ listening[r]
  BY DEF StreamInv, EndInv, LeftInv, Cancelling, CancelInv, FlagInv
<1>2. ~Fresh(r)
  BY DEF Fresh
<1>3. /\ stage[r] \in {"waiting", "active", "over"}
      /\ ~SenderAlive(r) => stage[r] = "over"
  BY <1>2 DEF stage, Stage, SenderAlive, Queued, Fresh
<1> QED
  BY <1>1, <1>3 DEF left

\* RunHandle::drop is where a client leaves.
LEMMA LeavesByFlag ==
  ASSUME StreamInv, NEW r \in Requests, client[r] = "open", DropHandle(r),
         UNCHANGED <<queue, job>>
  PROVE  left' = left \union {r} /\ stage' = stage
<1>1. /\ cancelled' = [cancelled EXCEPT ![r] = TRUE] /\ client' = [client EXCEPT ![r] = "flagged"]
      /\ cancelled \in [Requests -> BOOLEAN] /\ DOMAIN client = Requests
  BY DEF DropHandle, Moves, StreamInv, CancelInv, TypeOK
<1>2. left' = left \union {r}
  BY <1>1 DEF left
<1>3. \A q \in Requests : client'[q] = client[q] \/ (~Fresh(q) /\ ~Fresh(q)')
  BY <1>1 DEF Fresh
<1> QED
  BY <1>2, <1>3, StageSame
-----------------------------------------------------------------------------
LEMMA InitMaps == Init => Contract!Init
<1> SUFFICES ASSUME Init PROVE Contract!Init
  OBVIOUS
<1>1. \A r \in Requests : Stage(r) = "new"
  <2>1. \A r \in Requests : client[r] = "new" /\ job # r
    BY WorkerAssumption DEF WorkerAssumption, Init
  <2>2. Len(queue) = 0
    BY DEF Init
  <2>3. \A r \in Requests : ~Queued(r)
    BY <2>2 DEF Queued
  <2> QED
    BY <2>1, <2>3 DEF Stage
<1>2. {r \in Requests : cancelled[r]} = {}
  BY DEF Init
<1> QED
  BY <1>1, <1>2 DEF Init, Contract!Init

\* What is left alone here is left alone there.
LEMMA Stutters ==
  ASSUME stage' = stage, left' = left, UNCHANGED <<queue, sent, final, received, outcome>>,
         wpc' = "dead" <=> wpc = "dead"
  PROVE  UNCHANGED Contract!vars
  BY DEF Contract!vars, stage, left

\* What each step of the worker thread and of a client is there.
LEMMA PopMaps == StreamInv /\ Pop => Contract!Begin
<1> SUFFICES ASSUME StreamInv, Pop PROVE Contract!Begin
  OBVIOUS
<1>0. /\ queue \in Seq(Requests) /\ queue # <<>> /\ job = NoRequest /\ NoRequest \notin Requests
      /\ job' = Head(queue) /\ queue' = Tail(queue) /\ wpc = "recv" /\ wpc' = "check"
      /\ UNCHANGED <<cancelled, client, sent, final, received, outcome>>
  BY WorkerAssumption
  DEF WorkerAssumption, Pop, Goes, shared, task, published, StreamInv, CancelInv, TypeOK, JobInv
<1>1. /\ Head(queue) \in Requests /\ Head(queue) = queue[1] /\ 1 \in 1..Len(queue)
      /\ Len(Tail(queue)) = Len(queue) - 1
      /\ \A i \in 1..Len(Tail(queue)) : i + 1 \in 1..Len(queue) /\ Tail(queue)[i] = queue[i + 1]
  BY <1>0, QueueTail
<1>2. PICK h \in Requests : h = Head(queue)
  BY <1>1
<1>3. \A r \in Requests : stage[r] # "active"
  BY <1>0 DEF stage, Stage
<1>4. ~Fresh(h) /\ \A i, j \in 1..Len(queue) : queue[i] = queue[j] => i = j
  BY <1>1, <1>2 DEF StreamInv, PlaceInv, SenderAlive
<1>5. ~Queued(h)'
  BY <1>0, <1>1, <1>2, <1>4 DEF Queued
<1>6. \A r \in Requests : r # h => (Queued(r)' <=> Queued(r))
  <2>1. ASSUME NEW r \in Requests, r # h, NEW i \in 1..Len(queue), queue[i] = r
        PROVE  i - 1 \in 1..Len(Tail(queue)) /\ Tail(queue)[i - 1] = r
    BY <1>0, <1>1, <1>2, <2>1
  <2> QED
    BY <1>0, <1>1, <2>1 DEF Queued
<1>7. Stage(h)' = "active"
  BY <1>0, <1>2, <1>4, <1>5 DEF Stage, Fresh
<1>8. ASSUME NEW r \in Requests, r # h PROVE Stage(r)' = Stage(r)
  BY <1>0, <1>2, <1>6, <1>8 DEF Stage
<1>9. stage' = [stage EXCEPT ![h] = "active"]
  BY <1>7, <1>8 DEF stage
<1> QED
  BY <1>0, <1>2, <1>3, <1>9 DEF Contract!Begin, stage

\* A flagged job is dropped unanswered.
LEMMA DropMaps ==
  ASSUME StreamInv, NEW j \in Requests, j = job, cancelled[j], job' = NoRequest,
         wpc # "dead", wpc' # "dead",
         UNCHANGED <<queue, client, cancelled, sent, final, received, outcome>>
  PROVE  Contract!Abandon(j)
<1>1. stage[j] = "active" /\ j \in left
  BY StageOfJob DEF left
<1>2. stage' = [stage EXCEPT ![j] = "over"]
  BY StageDropped
<1> QED
  BY <1>1, <1>2 DEF Contract!Abandon, stage, left

LEMMA SendMaps ==
  ASSUME StreamInv, NEW j \in Requests, j = job, SendDelta, wpc # "dead", wpc' # "dead"
  PROVE  Contract!Publish(j)
<1>1. stage[j] = "active"
  BY StageOfJob
<1>2. /\ sent' = [sent EXCEPT ![j] = @ + 1]
      /\ UNCHANGED <<queue, job, client, cancelled, final, received, outcome>>
  BY DEF SendDelta, task
<1>3. stage' = stage
  BY <1>2, StageSame
<1> QED
  BY <1>1, <1>2, <1>3 DEF Contract!Publish, stage, left

LEMMA ReportMaps ==
  ASSUME StreamInv, NEW j \in Requests, j = job, Report
  PROVE  \E how \in {"done", "failed"} : Contract!Finish(j, how)
<1>1. PICK how \in {"done", "failed"} : final' = [final EXCEPT ![j] = how]
  BY DEF Report, Done, Failed
<1>2. /\ job' = NoRequest /\ wpc = "report" /\ wpc' = "recv"
      /\ UNCHANGED <<queue, client, cancelled, sent, received, outcome>>
  BY DEF Report, DropJob, ClearJob, task
<1>3. stage[j] = "active" /\ stage' = [stage EXCEPT ![j] = "over"]
  BY <1>2, StageOfJob, StageDropped
<1> QED
  BY <1>1, <1>2, <1>3 DEF Contract!Finish, stage, left

\* A panic drops the job and the whole queue.
LEMMA PanicMaps == StreamInv /\ Panic => Contract!Crash
<1> SUFFICES ASSUME StreamInv, Panic PROVE Contract!Crash
  OBVIOUS
<1>1. /\ wpc' = "dead" /\ job' = NoRequest /\ queue' = <<>> /\ NoRequest \notin Requests
      /\ UNCHANGED <<client, cancelled, sent, final, received, outcome>>
  BY WorkerAssumption DEF WorkerAssumption, Panic, ClearJob, task, published
<1>2. ASSUME NEW r \in Requests
      PROVE  Stage(r)' = IF Stage(r) \in {"waiting", "active"} THEN "over" ELSE Stage(r)
  <2>1. ~Queued(r)' /\ job' # r
    BY <1>1 DEF Queued
  <2>2. CASE Fresh(r)
    BY <1>1, <2>1, <2>2 DEF Stage, Fresh, StreamInv, PlaceInv, SenderAlive, Queued
  <2>3. CASE ~Fresh(r)
    BY <1>1, <2>1, <2>3 DEF Stage, Fresh
  <2> QED
    BY <2>2, <2>3
<1>3. stage' = [r \in Requests |-> IF stage[r] \in {"waiting", "active"} THEN "over" ELSE stage[r]]
  BY <1>2 DEF stage
<1> QED
  BY <1>1, <1>3 DEF Contract!Crash, stage, left

LEMMA EnqueueMaps == \A r \in Requests : StreamInv /\ Enqueue(r) => Contract!Admit(r)
<1> SUFFICES ASSUME NEW r \in Requests, StreamInv, Enqueue(r) PROVE Contract!Admit(r)
  OBVIOUS
<1>0. /\ queue \in Seq(Requests) /\ client[r] = "new" /\ wpc # "dead" /\ wpc' = wpc
      /\ queue' = Append(queue, r) /\ client' = [client EXCEPT ![r] = "open"]
      /\ DOMAIN client = Requests /\ job # r
      /\ UNCHANGED <<job, cancelled, sent, final, received, outcome>>
  BY DEF Enqueue, Moves, published, StreamInv, CancelInv, TypeOK, PlaceInv, Fresh, SenderAlive
<1>1. /\ Len(queue') = Len(queue) + 1 /\ queue'[Len(queue) + 1] = r /\ Len(queue) \in Nat
      /\ \A i \in 1..Len(queue) : queue'[i] = queue[i]
  BY <1>0, AppendProperties
<1>2. Queued(r)' /\ \A q \in Requests : q # r => (Queued(q)' <=> Queued(q))
  <2>1. \A i \in 1..Len(queue') : i \in 1..Len(queue) \/ i = Len(queue) + 1
    BY <1>1
  <2> QED
    BY <1>1, <2>1 DEF Queued
<1>3. stage[r] = "new"
  BY <1>0 DEF stage, Stage, StreamInv, PlaceInv, Fresh, SenderAlive, Queued
<1>4. Stage(r)' = "waiting"
  BY <1>0, <1>2 DEF Stage
<1>5. ASSUME NEW q \in Requests, q # r PROVE Stage(q)' = Stage(q)
  BY <1>0, <1>2, <1>5 DEF Stage
<1>6. stage' = [stage EXCEPT ![r] = "waiting"]
  BY <1>4, <1>5 DEF stage
<1> QED
  BY <1>0, <1>3, <1>6 DEF Contract!Admit, stage, left

LEMMA RefuseMaps ==
  \A r \in Requests : StreamInv /\ (Busy(r) \/ Unavailable(r)) => Contract!Refuse(r)
<1> SUFFICES ASSUME NEW r \in Requests, StreamInv, Busy(r) \/ Unavailable(r)
             PROVE  Contract!Refuse(r)
  OBVIOUS
<1>0. /\ client[r] = "new" /\ DOMAIN client = Requests /\ job # r /\ ~Queued(r)
      /\ client' = [client EXCEPT ![r] = "busy"] \/ client' = [client EXCEPT ![r] = "unavailable"]
      /\ UNCHANGED <<wpc, queue, job, cancelled, sent, final, received, outcome>>
  BY DEF Busy, Unavailable, Moves, shared, published, StreamInv, CancelInv, TypeOK, PlaceInv,
         Fresh, SenderAlive, Queued
<1>1. stage[r] = "new" /\ Stage(r)' = "refused"
  BY <1>0 DEF stage, Stage, Queued
<1>2. ASSUME NEW q \in Requests, q # r PROVE Stage(q)' = Stage(q)
  BY <1>0, <1>2 DEF Stage, Queued
<1>3. stage' = [stage EXCEPT ![r] = "refused"]
  BY <1>1, <1>2 DEF stage
<1> QED
  BY <1>0, <1>1, <1>3 DEF Contract!Refuse, stage, left

LEMMA HangUpMaps == \A r \in Requests : StreamInv /\ HangUp(r) => Contract!Leave(r)
<1> SUFFICES ASSUME NEW r \in Requests, StreamInv, HangUp(r) PROVE Contract!Leave(r)
  OBVIOUS
<1>1. /\ client[r] = "open" /\ DropHandle(r)
      /\ UNCHANGED <<wpc, queue, job, sent, final, received, outcome>>
  BY DEF HangUp, published
<1>2. /\ stage[r] \in {"waiting", "active", "over"}
      /\ left' = left \union {r} /\ stage' = stage
  BY <1>1, StageOfReader, LeavesByFlag
<1> QED
  BY <1>1, <1>2 DEF Contract!Leave, stage, left

\* An open stream found empty and over was read to its end, and if nothing
\* final was read, there was nothing: the worker died.
LEMMA EndMaps ==
  \A r \in Requests :
    StreamInv /\ EndOfStream(r) => Contract!Leave(r) \/ Contract!ReadCut(r)
<1> SUFFICES ASSUME NEW r \in Requests, StreamInv, EndOfStream(r)
             PROVE  Contract!Leave(r) \/ Contract!ReadCut(r)
  OBVIOUS
<1>1. /\ client[r] = "open" /\ DropHandle(r)
      /\ outcome' = [outcome EXCEPT ![r] = IF @ = "pending" THEN "cut" ELSE @]
      /\ UNCHANGED <<wpc, queue, job, sent, final, received>>
  BY DEF EndOfStream, published
<1>2. /\ stage[r] \in {"waiting", "active", "over"} /\ r \notin left /\ listening[r]
      /\ ~SenderAlive(r) => stage[r] = "over"
      /\ left' = left \union {r} /\ stage' = stage
  BY <1>1, StageOfReader, LeavesByFlag
<1>3. CASE outcome[r] # "pending"
  <2>1. outcome' = outcome
    BY <1>1, <1>3 DEF StreamInv, CancelInv, TypeOK
  <2> QED
    BY <1>1, <1>2, <2>1 DEF Contract!Leave, stage, left
<1>4. CASE outcome[r] = "pending"
  <2>1. chan[r] = <<>> /\ ~SenderAlive(r)
    BY <1>4 DEF EndOfStream
  <2>2. final[r] = "none"
    BY <1>2, <1>4, <2>1 DEF StreamInv, EndInv, LastInv
  <2>3. wpc = "dead"
    BY <1>1, <2>1, <2>2 DEF StreamInv, EndInv, ToldInv
  <2>4. received[r] = sent[r]
    <3>1. sent[r] = received[r] + Len(chan[r]) /\ received[r] \in Nat
      BY <1>2, <2>2 DEF StreamInv, ChanInv, CountInv, CancelInv, TypeOK
    <3>2. Len(chan[r]) = 0
      BY <2>1
    <3> QED
      BY <3>1, <3>2
  <2>5. outcome' = [outcome EXCEPT ![r] = "cut"]
    BY <1>1, <1>4
  <2> QED
    BY <1>1, <1>2, <2>1, <2>2, <2>3, <2>4, <2>5 DEF Contract!ReadCut, stage, left
<1> QED
  BY <1>3, <1>4

LEMMA ReceiveMaps ==
  \A r \in Requests :
    StreamInv /\ Receive(r) => Contract!Read(r) \/ Contract!ReadFinal(r)
<1> SUFFICES ASSUME NEW r \in Requests, StreamInv, Receive(r)
             PROVE  Contract!Read(r) \/ Contract!ReadFinal(r)
  OBVIOUS
<1> DEFINE kind == Head(chan[r]).kind
<1>1. /\ client[r] = "open"
      /\ UNCHANGED <<wpc, queue, job, client, cancelled, sent, final>>
      /\ \/ kind = "delta" /\ received' = [received EXCEPT ![r] = @ + 1] /\ UNCHANGED outcome
         \/ kind # "delta" /\ outcome' = [outcome EXCEPT ![r] = kind] /\ UNCHANGED received
  BY DEF Receive, published
<1>2. r \notin left /\ listening[r] /\ stage' = stage
  BY <1>1, StageOfReader, StageSame
<1>3. /\ Len(chan[r]) \in Nat \ {0} /\ kind = chan[r][1].kind
      /\ 1 \in 1..Len(chan[r]) /\ Len(chan[r]) \in 1..Len(chan[r])
  BY ReceiveFacts DEF StreamInv
<1>4. outcome[r] = "pending" /\ (kind # "delta" => Len(chan[r]) = 1)
  BY <1>3 DEF StreamInv, ChanInv, StreamInOrder
<1>5. final[r] # "none" => chan[r][Len(chan[r])].kind = final[r] /\ final[r] # "delta"
  BY <1>2, <1>4 DEF StreamInv, EndInv, LastInv, CancelInv, TypeOK
<1>6. /\ final[r] = "none" => kind = "delta" /\ sent[r] = received[r] + Len(chan[r])
      /\ final[r] # "none" => sent[r] + 1 = received[r] + Len(chan[r])
  BY <1>2, <1>3, <1>4 DEF StreamInv, ChanInv, CountInv
<1>7. received[r] \in Nat /\ sent[r] \in Nat
  BY DEF StreamInv, CancelInv, TypeOK
<1>8. CASE kind = "delta"
  <2>1. received[r] < sent[r]
    <3>1. CASE final[r] = "none"
      BY <1>3, <1>6, <1>7, <3>1
    <3>2. CASE final[r] # "none"
      <4>1. PICK n \in Nat \ {0} : n = Len(chan[r])
        BY <1>3
      <4>2. n # 1
        BY <1>3, <1>5, <1>8, <3>2, <4>1
      <4>3. sent[r] + 1 = received[r] + n
        BY <1>6, <3>2, <4>1
      <4> QED
        BY <1>7, <4>2, <4>3
    <3> QED
      BY <3>1, <3>2
  <2> QED
    BY <1>1, <1>2, <1>8, <2>1 DEF Contract!Read, stage, left
<1>9. CASE kind # "delta"
  <2>1. final[r] # "none" /\ final[r] = kind /\ received[r] = sent[r]
    BY <1>3, <1>4, <1>5, <1>6, <1>7, <1>9
  <2> HIDE DEF kind
  <2> QED
    BY <1>1, <1>2, <1>4, <1>9, <2>1 DEF Contract!ReadFinal, stage, left
<1> QED
  BY <1>8, <1>9
-----------------------------------------------------------------------------
LEMMA StepMaps == StreamInv /\ [Next]_vars => [Contract!Next]_(Contract!vars)
<1> SUFFICES ASSUME StreamInv, [Next]_vars PROVE Contract!Next \/ UNCHANGED Contract!vars
  OBVIOUS
<1> USE DEF Goes
<1>0. /\ NoRequest \notin Requests /\ job \in Requests \union {NoRequest}
      /\ (job = NoRequest <=> wpc \in {"recv", "dead"})
      /\ \A r \in Requests : ~listening[r] => cancelled[r]
  BY WorkerAssumption
  DEF WorkerAssumption, StreamInv, CancelInv, TypeOK, JobInv, FlagInv, Cancelling
<1>1. CASE Pop
  BY <1>1, PopMaps DEF Contract!Next
<1>2. CASE ((Check \/ Settle) /\ cancelled[job]) \/ SendRefused
  <2>1. PICK j \in Requests : j = job
    BY <1>0, <1>2 DEF Check, Settle, SendRefused
  <2>2. /\ cancelled[j] /\ job' = NoRequest /\ wpc # "dead" /\ wpc' # "dead"
        /\ UNCHANGED <<queue, client, cancelled, sent, final, received, outcome>>
    BY <1>0, <1>2, <2>1
    DEF Check, Settle, SendRefused, DropJob, ClearJob, shared, task, published
  <2> QED
    BY <2>1, <2>2, DropMaps DEF Contract!Next
<1>3. CASE Flush \/ SendPiece
  <2>1. PICK j \in Requests : j = job
    BY <1>0, <1>3 DEF Flush, SendPiece
  <2> QED
    BY <1>3, <2>1, SendMaps DEF Flush, SendPiece, Contract!Next
<1>4. CASE Report
  <2>1. PICK j \in Requests : j = job
    BY <1>0, <1>4 DEF Report
  <2> QED
    BY <1>4, <2>1, ReportMaps DEF Contract!Next
<1>5. CASE Panic
  BY <1>5, PanicMaps DEF Contract!Next
<1>6. ASSUME NEW r \in Requests, Submit(r) \/ Read(r) \/ HangUp(r) PROVE Contract!Next
  BY <1>6, EnqueueMaps, RefuseMaps, ReceiveMaps, EndMaps, HangUpMaps
  DEF Submit, Read, Contract!Next
<1>7. ASSUME UNCHANGED <<queue, job, cancelled, sent, final, received, outcome>>,
             wpc' = "dead" <=> wpc = "dead",
             \A r \in Requests : client'[r] = client[r] \/ (~Fresh(r) /\ ~Fresh(r)')
      PROVE  UNCHANGED Contract!vars
  <2>1. stage' = stage
    BY <1>7, StageSame
  <2>2. left' = left
    BY <1>7 DEF left
  <2> QED
    BY <1>7, <2>1, <2>2, Stutters
<1>8. CASE \/ (Check \/ Settle) /\ ~cancelled[job]
           \/ Claim \/ Release \/ BeginPrefill \/ BeginDecode \/ Stop \/ Return
           \/ UNCHANGED vars
  BY <1>7, <1>8
  DEF Check, Settle, Claim, Release, BeginPrefill, BeginDecode, Stop, Return, shared, task,
      published, vars
<1>9. ASSUME NEW k \in 0..MaxPieces, NEW h \in 0..1, Callback(k, h)
      PROVE  UNCHANGED Contract!vars
  BY <1>7, <1>9 DEF Callback, shared, task, published
<1>10. ASSUME NEW r \in Requests, Cancel(r) PROVE UNCHANGED Contract!vars
  <2>1. /\ UNCHANGED <<queue, job, cancelled, sent, final, received, outcome, wpc>>
        /\ \E to \in Cancelling : client' = [client EXCEPT ![r] = to]
        /\ ~Fresh(r) /\ DOMAIN client = Requests
    BY <1>10
    DEF Cancel, CancelLock, CancelAbort, CancelUnlock, DropReceiver, Moves, Cancelling, Fresh,
        shared, published, StreamInv, CancelInv, TypeOK
  <2>2. \A q \in Requests : client'[q] = client[q] \/ (~Fresh(q) /\ ~Fresh(q)')
    BY <2>1 DEF Cancelling, Fresh
  <2> QED
    BY <1>7, <2>1, <2>2
<1> QED
  BY <1>1, <1>2, <1>3, <1>4, <1>5, <1>6, <1>8, <1>9, <1>10 DEF Next, WorkerThread, Idle

\* The queue, lock, flags and bounded channels of worker/mod.rs amount to what
\* RunStream promises the callers of a worker.
THEOREM WorkerImplementsRunStream == Spec => ImplementsRunStream
  BY InitMaps, StepMaps, StreamAlways, PTL DEF Spec, ImplementsRunStream, Contract!Spec
=============================================================================
