-------------------------------- MODULE Usage --------------------------------
(***************************************************************************)
(* What a generate call is told it used: the token counts and the finish   *)
(* reason of its Done event, over a sequence of runs on one session        *)
(* (RkllmBackend::run with its remembered prefill, and the counting in     *)
(* run_job and ReasoningParser).  One thread runs them one after another,  *)
(* so a step here is a callback of the runtime or the end of a run.        *)
(*                                                                         *)
(* The runtime is external.  As MODEL_SERVER.md measured it, it skips the  *)
(* prefill of a prompt its cache already holds and then reports zero, may  *)
(* come back one short after a prefill of its own, and counts tokens that  *)
(* carry no text.                                                          *)
(***************************************************************************)
EXTENDS Naturals

CONSTANTS
  Prompts,    \* prompts, each standing for its number of tokens
  NoPrompt,   \* `None` of last_prefill, and an empty cache
  Budgets,    \* budgets a run may be given
  NoBudget,   \* `None` of max_new_tokens
  MaxTokens   \* bound: tokens one run generates

ASSUME UsageAssumption ==
  /\ Prompts \subseteq Nat \ {0} /\ NoPrompt \notin Prompts
  /\ Budgets \subseteq Nat \ {0} /\ NoBudget \notin Budgets
  /\ MaxTokens \in Nat

VARIABLES
  \* the session
  last,       \* last_prefill: the prompt remembered, with its count
  \* the run
  phase,      \* where it is
  prompt, budget,
  text,       \* text_callbacks
  inside,     \* the parser is in its Reasoning state
  reasoning,  \* its reasoning_tokens
  stats,      \* RunStats of the final callback
  cancelled,  \* its client has left
  done,       \* the Done event of the last run, if it had one, as a set
  \* the runtime
  cache,      \* the prompt its KV cache holds
  prefilled,  \* tokens the current run prefilled, 0 when it skipped that
  tokens,     \* tokens it has generated in this run
  silent,     \* some of them carried no text
  cut         \* it stopped this run because the budget was spent

run     == <<prompt, budget, text, inside, reasoning, stats, cancelled>>
runtime == <<cache, prefilled, tokens, silent, cut>>
vars    == <<last, phase, run, done, runtime>>

NoStats  == [prefill |-> 0, generate |-> 0]
Remember == [prompt : Prompts, tokens : Nat \ {0}]

\* What a Done event says, and of which run: the last three are the run's own
\* story, which the event does not carry.
DoneEvent ==
  [input : Nat, output : Nat, reasoning : Nat, finish : {"stop", "length"},
   prompt : Prompts, text : Nat, cut : BOOLEAN, silent : BOOLEAN]

Init ==
  /\ last = NoPrompt /\ phase = "idle"
  /\ prompt \in Prompts /\ budget = NoBudget
  /\ text = 0 /\ inside = FALSE /\ reasoning = 0 /\ stats = NoStats
  /\ cancelled = FALSE /\ done = {}
  /\ cache = NoPrompt /\ prefilled = 0 /\ tokens = 0 /\ silent = FALSE /\ cut = FALSE
-----------------------------------------------------------------------------
(* RkllmBackend::run and the callback of run_job.                          *)

Begin(p, b, opened) ==
  /\ phase = "idle"
  /\ phase' = "prefill" /\ prompt' = p /\ budget' = b
  /\ text' = 0 /\ inside' = opened /\ reasoning' = 0
  /\ stats' = NoStats /\ cancelled' = FALSE
  /\ prefilled' = 0 /\ tokens' = 0 /\ silent' = FALSE /\ cut' = FALSE
  /\ done' = {}
  /\ UNCHANGED <<last, cache>>

Prefill ==
  /\ phase = "prefill"
  /\ phase' = "decode"
  /\ prefilled' = IF cache = prompt THEN 0 ELSE prompt
  /\ cache' = prompt
  /\ UNCHANGED <<last, run, done, tokens, silent, cut>>

WithinBudget == tokens < MaxTokens /\ (budget # NoBudget => tokens < budget)

\* A token with text reaches the parser, which may change its state on it.
Token(after) ==
  /\ phase = "decode" /\ WithinBudget
  /\ tokens' = tokens + 1 /\ text' = text + 1
  /\ reasoning' = IF inside THEN reasoning + 1 ELSE reasoning
  /\ inside' = after
  /\ UNCHANGED <<last, phase, prompt, budget, stats, cancelled, done, cache,
                 prefilled, silent, cut>>

\* Bytes held back until a UTF-8 character completes.
SilentToken ==
  /\ phase = "decode" /\ WithinBudget
  /\ tokens' = tokens + 1 /\ silent' = TRUE
  /\ UNCHANGED <<last, phase, run, done, cache, prefilled, cut>>

\* The model stops by itself, on a token that carries no text.
EndOfSequence ==
  /\ phase = "decode" /\ WithinBudget
  /\ phase' = "final" /\ tokens' = tokens + 1 /\ silent' = TRUE
  /\ UNCHANGED <<last, run, done, cache, prefilled, cut>>

BudgetSpent ==
  /\ phase = "decode" /\ budget # NoBudget /\ tokens = budget
  /\ phase' = "final" /\ cut' = TRUE
  /\ UNCHANGED <<last, run, done, cache, prefilled, tokens, silent>>

\* Flow::Stop or abort, for a client that left.
Stopped ==
  /\ phase \in {"prefill", "decode"}
  /\ phase' = "final" /\ cancelled' = TRUE
  /\ cache' \in IF phase = "prefill" THEN {cache, NoPrompt} ELSE {cache}
  /\ UNCHANGED <<last, prompt, budget, text, inside, reasoning, stats, done,
                 prefilled, tokens, silent, cut>>

\* What the runtime may say it generated.
Reported == IF prefilled > 0 /\ text > 0 THEN {tokens, tokens - 1} ELSE {tokens}

\* CallState::Finish, with or without its counts.
FinalCallback ==
  /\ phase = "final"
  /\ phase' = "returns"
  /\ \/ \E g \in Reported : stats' = [prefill |-> prefilled, generate |-> g]
     \/ UNCHANGED stats
  /\ UNCHANGED <<last, prompt, budget, text, inside, reasoning, cancelled, done, runtime>>

\* Mutant: the remembered count is taken for any prompt.
AnyPrefillTokens ==
  IF stats.prefill = 0 /\ last # NoPrompt THEN last.tokens ELSE stats.prefill

\* prefill_tokens: a skipped prefill is replaced by the count remembered for
\* that very prompt.
PrefillTokens ==
  IF stats.prefill = 0 /\ last # NoPrompt /\ last.prompt = prompt
    THEN last.tokens
    ELSE stats.prefill

\* Mutant: the runtime's own count.
ReportedTokens == stats.generate

\* generated_tokens: the larger of two counts that disagree.
GeneratedTokens == IF stats.generate >= text THEN stats.generate ELSE text

\* Mutant: a run that met its budget exactly counts as one that did not.
FinishReasonBeyond(generated) ==
  IF budget # NoBudget /\ generated > budget THEN "length" ELSE "stop"

\* finish_reason: the runtime does not say why it stopped.
FinishReason(generated) ==
  IF budget # NoBudget /\ generated >= budget THEN "length" ELSE "stop"

\* The Done event of this run.
DoneOf(generated) ==
  [input |-> PrefillTokens, output |-> generated, reasoning |-> reasoning,
   finish |-> FinishReason(generated),
   prompt |-> prompt, text |-> text, cut |-> cut, silent |-> silent]

\* Mutant: a count of zero is remembered too.
ReturnOkForgets ==
  /\ phase = "returns"
  /\ phase' = "idle"
  /\ last' = [prompt |-> prompt, tokens |-> PrefillTokens]
  /\ done' = IF cancelled THEN {} ELSE {DoneOf(GeneratedTokens)}
  /\ UNCHANGED <<run, runtime>>

\* The run returns Ok: the session remembers its prefill, and run_job reports.
ReturnOk ==
  /\ phase = "returns"
  /\ phase' = "idle"
  /\ last' = IF PrefillTokens > 0 THEN [prompt |-> prompt, tokens |-> PrefillTokens]
             ELSE last
  /\ done' = IF cancelled THEN {} ELSE {DoneOf(GeneratedTokens)}
  /\ UNCHANGED <<run, runtime>>

\* The run returns an error, or its callback saw CallState::Error: nothing is
\* remembered and no Done is sent.
ReturnErr ==
  /\ phase \in {"prefill", "decode", "final", "returns"}
  /\ phase' = "idle"
  /\ cache' \in {cache, NoPrompt}
  /\ UNCHANGED <<last, run, done, prefilled, tokens, silent, cut>>

Next ==
  \/ \E p \in Prompts, b \in Budgets \union {NoBudget}, opened \in BOOLEAN :
       Begin(p, b, opened)
  \/ Prefill \/ SilentToken \/ EndOfSequence \/ BudgetSpent \/ Stopped
  \/ \E after \in BOOLEAN : Token(after)
  \/ FinalCallback \/ ReturnOk \/ ReturnErr

Spec == Init /\ [][Next]_vars
-----------------------------------------------------------------------------
\* The type of every variable.
TypeOK ==
  /\ last \in Remember \union {NoPrompt}
  /\ phase \in {"idle", "prefill", "decode", "final", "returns"}
  /\ prompt \in Prompts /\ budget \in Budgets \union {NoBudget}
  /\ text \in Nat /\ inside \in BOOLEAN /\ reasoning \in Nat
  /\ stats \in [prefill : Nat, generate : Nat]
  /\ cancelled \in BOOLEAN
  /\ done \subseteq DoneEvent
  /\ cache \in Prompts \union {NoPrompt}
  /\ prefilled \in Nat /\ tokens \in Nat /\ silent \in BOOLEAN /\ cut \in BOOLEAN

\* The input count is the prompt's own or an admitted zero, never what some
\* other prompt took ("a zero against any other prompt is left alone, since
\* there is nothing honest to put there", MODEL_SERVER.md:562-563).
InputIsOwn == \A d \in done : d.input \in {0, d.prompt}

\* The counts agree with each other and with what the client was sent: no
\* fewer output tokens than deltas' callbacks, and no more reasoning tokens
\* than output tokens, though three different parties counted them.
CountsAddUp == \A d \in done : d.text <= d.output /\ d.reasoning <= d.output

\* An answer that was cut off is not passed off as finished, however the
\* runtime miscounts, as long as every token carried text: "a budget of ten
\* delivering ten deltas but reporting nine" (MODEL_SERVER.md:578-580).
CutIsLength == \A d \in done : d.cut /\ ~d.silent => d.finish = "length"
=============================================================================
