----------------------------- MODULE UsageProofs -----------------------------
(***************************************************************************)
(* Proofs about Usage, for any prompts, budgets and number of tokens.      *)
(*                                                                         *)
(* A Done event is computed in one step from counts that three parties     *)
(* kept, so what is true of it needs what was true of each count before:   *)
(* the remembered prefill is its prompt's (LastInv), the runtime's prefill *)
(* is the current prompt's or skipped (PrefillInv), the daemon's counts    *)
(* stay below the runtime's tokens (CountInv), and a cut run has spent its *)
(* budget (CutInv).  Together with the types they are inductive.           *)
(***************************************************************************)
EXTENDS Usage, TLAPS

LastInv    == last # NoPrompt => last.tokens = last.prompt
PrefillInv == prefilled \in {0, prompt} /\ stats.prefill \in {0, prompt}
CountInv   == reasoning <= text /\ text <= tokens /\ (~silent => text = tokens)
CutInv     ==
  cut => budget # NoBudget /\ tokens = budget /\ phase \in {"idle", "final", "returns"}
DoneInv    == InputIsOwn /\ CountsAddUp /\ CutIsLength

IInv == TypeOK /\ LastInv /\ PrefillInv /\ CountInv /\ CutInv /\ DoneInv

\* The input count reported for the current run is its prompt's or zero: the
\* result of prefill_tokens (rkllm.rs:34-42).
LEMMA OwnPrefill == IInv => PrefillTokens \in {0, prompt} /\ PrefillTokens \in Nat
  BY UsageAssumption
  DEF UsageAssumption, IInv, TypeOK, LastInv, PrefillInv, PrefillTokens, Remember

\* The output count covers every callback that carried text: the result of
\* generated_tokens (mod.rs:253-255).
LEMMA CoversText == IInv => GeneratedTokens \in Nat /\ text <= GeneratedTokens
  BY DEF IInv, TypeOK, GeneratedTokens

\* The Done event of a run keeps the promises made about it: DoneOf, as
\* run_job builds it (mod.rs:225-233).
LEMMA DoneIsHonest ==
  ASSUME IInv, NEW d, d = DoneOf(GeneratedTokens)
  PROVE  /\ d \in DoneEvent
         /\ d.input \in {0, d.prompt}
         /\ d.text <= d.output /\ d.reasoning <= d.output
         /\ d.cut /\ ~d.silent => d.finish = "length"
<1> DEFINE G == GeneratedTokens
<1>1. G \in Nat /\ text <= G
  BY CoversText
<1>2. PrefillTokens \in {0, prompt} /\ PrefillTokens \in Nat
  BY OwnPrefill
<1>3. reasoning \in Nat /\ text \in Nat /\ reasoning <= text
  BY DEF IInv, TypeOK, CountInv
<1>4. reasoning <= G
  BY <1>1, <1>3
<1>5. prompt \in Prompts /\ cut \in BOOLEAN /\ silent \in BOOLEAN
  BY DEF IInv, TypeOK
<1>6. FinishReason(G) \in {"stop", "length"}
  BY DEF FinishReason
<1>7. cut /\ ~silent => FinishReason(G) = "length"
  <2> SUFFICES ASSUME cut, ~silent PROVE FinishReason(G) = "length"
    OBVIOUS
  <2>1. budget # NoBudget /\ text = budget
    BY DEF IInv, CountInv, CutInv
  <2> QED
    BY <1>1, <2>1 DEF FinishReason
<1> HIDE DEF G
<1>8. d = [input |-> PrefillTokens, output |-> G, reasoning |-> reasoning,
           finish |-> FinishReason(G),
           prompt |-> prompt, text |-> text, cut |-> cut, silent |-> silent]
  BY DEF DoneOf, G
<1>9. d \in DoneEvent
  BY <1>1, <1>2, <1>3, <1>5, <1>6, <1>8 DEF DoneEvent
<1> QED
  BY <1>1, <1>2, <1>3, <1>4, <1>7, <1>8, <1>9

LEMMA InitIInv == Init => IInv
<1> SUFFICES ASSUME Init PROVE IInv
  OBVIOUS
<1>1. TypeOK
  BY UsageAssumption DEF UsageAssumption, Init, NoStats, TypeOK
<1>2. LastInv /\ PrefillInv /\ CountInv /\ CutInv
  BY DEF Init, NoStats, LastInv, PrefillInv, CountInv, CutInv
<1>3. DoneInv
  BY DEF Init, DoneInv, InputIsOwn, CountsAddUp, CutIsLength
<1> QED
  BY <1>1, <1>2, <1>3 DEF IInv

LEMMA StepIInv == IInv /\ [Next]_vars => IInv'
<1> SUFFICES ASSUME IInv, [Next]_vars PROVE IInv'
  OBVIOUS
<1> USE UsageAssumption DEF UsageAssumption
<1>1. ASSUME NEW p \in Prompts, NEW b \in Budgets \union {NoBudget}, NEW o \in BOOLEAN,
             Begin(p, b, o)
      PROVE  IInv'
  <2>1. TypeOK'
    BY <1>1 DEF Begin, NoStats, IInv, TypeOK
  <2>2. (LastInv /\ PrefillInv /\ CountInv /\ CutInv)'
    BY <1>1 DEF Begin, NoStats, IInv, LastInv, PrefillInv, CountInv, CutInv
  <2>3. DoneInv'
    BY <1>1 DEF Begin, DoneInv, InputIsOwn, CountsAddUp, CutIsLength
  <2> QED
    BY <2>1, <2>2, <2>3 DEF IInv
<1>2. CASE Prefill
  BY <1>2 DEF Prefill, run, IInv, TypeOK, LastInv, PrefillInv, CountInv, CutInv, DoneInv,
              InputIsOwn, CountsAddUp, CutIsLength
<1>3. ASSUME NEW after \in BOOLEAN, Token(after) PROVE IInv'
  BY <1>3 DEF Token, WithinBudget, IInv, TypeOK, LastInv, PrefillInv, CountInv, CutInv,
              DoneInv, InputIsOwn, CountsAddUp, CutIsLength
<1>4. CASE SilentToken
  BY <1>4 DEF SilentToken, run, IInv, TypeOK, LastInv, PrefillInv, CountInv, CutInv,
              DoneInv, InputIsOwn, CountsAddUp, CutIsLength
<1>5. CASE EndOfSequence
  BY <1>5 DEF EndOfSequence, run, IInv, TypeOK, LastInv, PrefillInv, CountInv, CutInv,
              DoneInv, InputIsOwn, CountsAddUp, CutIsLength
<1>6. CASE BudgetSpent
  BY <1>6 DEF BudgetSpent, run, IInv, TypeOK, LastInv, PrefillInv, CountInv, CutInv,
              DoneInv, InputIsOwn, CountsAddUp, CutIsLength
<1>7. CASE Stopped
  BY <1>7 DEF Stopped, IInv, TypeOK, LastInv, PrefillInv, CountInv, CutInv,
              DoneInv, InputIsOwn, CountsAddUp, CutIsLength
<1>8. CASE FinalCallback
  <2>1. Reported \subseteq Nat
    BY DEF Reported, IInv, TypeOK, CountInv
  <2>2. stats' \in [prefill : Nat, generate : Nat] /\ stats'.prefill \in {0, prompt}
    BY <1>8, <2>1 DEF FinalCallback, IInv, TypeOK, PrefillInv
  <2> QED
    BY <1>8, <2>2 DEF FinalCallback, runtime, IInv, TypeOK, LastInv, PrefillInv, CountInv,
                      CutInv, DoneInv, InputIsOwn, CountsAddUp, CutIsLength
<1>9. CASE ReturnOk
  <2>1. UNCHANGED <<prompt, budget, text, inside, reasoning, stats, cancelled,
                    cache, prefilled, tokens, silent, cut>> /\ phase' = "idle"
    BY <1>9 DEF ReturnOk, run, runtime
  <2>2. last' \in Remember \union {NoPrompt} /\ LastInv'
    <3>1. CASE PrefillTokens > 0
      <4>1. last' = [prompt |-> prompt, tokens |-> PrefillTokens]
        BY <1>9, <3>1 DEF ReturnOk
      <4>2. PrefillTokens = prompt /\ PrefillTokens \in Nat \ {0} /\ prompt \in Prompts
        BY <3>1, OwnPrefill DEF IInv, TypeOK
      <4> QED
        BY <4>1, <4>2 DEF LastInv, Remember
    <3>2. CASE ~(PrefillTokens > 0)
      BY <1>9, <3>2 DEF ReturnOk, IInv, TypeOK, LastInv
    <3> QED
      BY <3>1, <3>2
  <2>3. \A d \in done' : d = DoneOf(GeneratedTokens)
    BY <1>9 DEF ReturnOk
  <2>4. done' \subseteq DoneEvent /\ DoneInv'
    BY <2>3, DoneIsHonest DEF DoneInv, InputIsOwn, CountsAddUp, CutIsLength
  <2>5. TypeOK'
    BY <2>1, <2>2, <2>4 DEF IInv, TypeOK
  <2>6. PrefillInv' /\ CountInv' /\ CutInv'
    BY <2>1 DEF IInv, PrefillInv, CountInv, CutInv
  <2> QED
    BY <2>2, <2>4, <2>5, <2>6 DEF IInv
<1>10. CASE ReturnErr
  BY <1>10 DEF ReturnErr, run, IInv, TypeOK, LastInv, PrefillInv, CountInv, CutInv,
               DoneInv, InputIsOwn, CountsAddUp, CutIsLength
<1>11. CASE UNCHANGED vars
  BY <1>11 DEF vars, run, runtime, IInv, TypeOK, LastInv, PrefillInv, CountInv, CutInv,
               DoneInv, InputIsOwn, CountsAddUp, CutIsLength
<1> QED
  BY <1>1, <1>2, <1>3, <1>4, <1>5, <1>6, <1>7, <1>8, <1>9, <1>10, <1>11 DEF Next

LEMMA AlwaysIInv == Spec => []IInv
  BY InitIInv, StepIInv, PTL DEF Spec

\* Every variable keeps its type, for any prompts, budgets and tokens.
THEOREM UsageTypeCorrect == Spec => []TypeOK
<1>1. IInv => TypeOK
  BY DEF IInv
<1> QED
  BY <1>1, AlwaysIInv, PTL

\* No Done event carries the input count of another prompt, over any sequence
\* of runs that are answered, fail or are stopped (rkllm.rs:210-215).
THEOREM InputIsAlwaysOwn == Spec => []InputIsOwn
<1>1. IInv => InputIsOwn
  BY DEF IInv, DoneInv
<1> QED
  BY <1>1, AlwaysIInv, PTL

\* The output count of a Done event is at least the number of text callbacks
\* and at least its reasoning count, whatever the runtime reported
\* (mod.rs:253-255).
THEOREM CountsAlwaysAddUp == Spec => []CountsAddUp
<1>1. IInv => CountsAddUp
  BY DEF IInv, DoneInv
<1> QED
  BY <1>1, AlwaysIInv, PTL

\* A run the budget cut off, all of whose tokens carried text, ends with
\* Length, whatever the runtime reported (mod.rs:258-263).
THEOREM CutIsAlwaysLength == Spec => []CutIsLength
<1>1. IInv => CutIsLength
  BY DEF IInv, DoneInv
<1> QED
  BY <1>1, AlwaysIInv, PTL
=============================================================================
