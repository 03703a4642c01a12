------------------------------ MODULE RunStream ------------------------------
(***************************************************************************)
(* What a model's worker promises the calls it accepts, without saying     *)
(* how: runs are served one at a time in the order they were accepted;     *)
(* each stream carries deltas and then at most one final event; a stream   *)
(* ends without a final event only when its client left or the worker      *)
(* died; and what a client reads is exactly what was published, in order.  *)
(*                                                                         *)
(* There is no queue bound, lock, cancel flag or backend here.  Worker.tla *)
(* has them all and is checked to implement this.                          *)
(***************************************************************************)
EXTENDS Naturals, Sequences

CONSTANT Requests      \* the calls clients may make on one model

VARIABLES
  stage,      \* stage[r]: where the daemon is with call r
  line,       \* the calls waiting to run, oldest first
  published,  \* published[r]: how many deltas of r were published
  final,      \* final[r]: the final event published for r, if any
  left,       \* the calls whose client left or was through with the stream
  received,   \* received[r]: how many deltas the client of r has read
  outcome,    \* outcome[r]: how the stream ended, as the client saw it
  stopped     \* the worker died

vars == <<stage, line, published, final, left, received, outcome, stopped>>

Init ==
  /\ stage = [r \in Requests |-> "new"]
  /\ line = <<>>
  /\ published = [r \in Requests |-> 0]
  /\ final = [r \in Requests |-> "none"]
  /\ left = {}
  /\ received = [r \in Requests |-> 0]
  /\ outcome = [r \in Requests |-> "pending"]
  /\ stopped = FALSE

(* The daemon's side. *)

Admit(r) ==
  /\ stage[r] = "new" /\ ~stopped
  /\ stage' = [stage EXCEPT ![r] = "waiting"]
  /\ line' = Append(line, r)
  /\ UNCHANGED <<published, final, left, received, outcome, stopped>>

Refuse(r) ==
  /\ stage[r] = "new"
  /\ stage' = [stage EXCEPT ![r] = "refused"]
  /\ UNCHANGED <<line, published, final, left, received, outcome, stopped>>

Begin ==
  /\ line # <<>>
  /\ \A r \in Requests : stage[r] # "active"
  /\ stage' = [stage EXCEPT ![Head(line)] = "active"]
  /\ line' = Tail(line)
  /\ UNCHANGED <<published, final, left, received, outcome, stopped>>

Publish(r) ==
  /\ stage[r] = "active"
  /\ published' = [published EXCEPT ![r] = @ + 1]
  /\ UNCHANGED <<stage, line, final, left, received, outcome, stopped>>

Finish(r, how) ==
  /\ stage[r] = "active"
  /\ stage' = [stage EXCEPT ![r] = "over"]
  /\ final' = [final EXCEPT ![r] = how]
  /\ UNCHANGED <<line, published, left, received, outcome, stopped>>

Abandon(r) ==
  /\ stage[r] = "active" /\ r \in left
  /\ stage' = [stage EXCEPT ![r] = "over"]
  /\ UNCHANGED <<line, published, final, left, received, outcome, stopped>>

Crash ==
  /\ stopped' = TRUE
  /\ stage' = [r \in Requests |->
                 IF stage[r] \in {"waiting", "active"} THEN "over" ELSE stage[r]]
  /\ line' = <<>>
  /\ UNCHANGED <<published, final, left, received, outcome>>

(* The client's side. *)

Leave(r) ==
  /\ stage[r] \in {"waiting", "active", "over"}
  /\ left' = left \union {r}
  /\ UNCHANGED <<stage, line, published, final, received, outcome, stopped>>

Read(r) ==
  /\ r \notin left /\ received[r] < published[r]
  /\ received' = [received EXCEPT ![r] = @ + 1]
  /\ UNCHANGED <<stage, line, published, final, left, outcome, stopped>>

ReadFinal(r) ==
  /\ r \notin left /\ received[r] = published[r]
  /\ final[r] # "none" /\ outcome[r] = "pending"
  /\ outcome' = [outcome EXCEPT ![r] = final[r]]
  /\ UNCHANGED <<stage, line, published, final, left, received, stopped>>

\* Only a worker that died ends a stream its client is still reading.
ReadCut(r) ==
  /\ stopped /\ stage[r] = "over" /\ final[r] = "none"
  /\ r \notin left /\ received[r] = published[r]
  /\ outcome' = [outcome EXCEPT ![r] = "cut"]
  /\ left' = left \union {r}
  /\ UNCHANGED <<stage, line, published, final, received, stopped>>

Next ==
  \/ Begin \/ Crash
  \/ \E r \in Requests :
       \/ Admit(r) \/ Refuse(r) \/ Publish(r) \/ Abandon(r)
       \/ \E how \in {"done", "failed"} : Finish(r, how)
       \/ Leave(r) \/ Read(r) \/ ReadFinal(r) \/ ReadCut(r)

Spec == Init /\ [][Next]_vars
=============================================================================
