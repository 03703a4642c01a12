------------------------------ MODULE Generate ------------------------------
(***************************************************************************)
(* From a GenerateInput to what the runtime is called with: the prompt,    *)
(* the reasoning splitter of the run, the sampling override and the        *)
(* budget.                                                                 *)
(*                                                                         *)
(* A prompt is the turns the template is given and whether it was asked to *)
(* think; how Jinja lays them out is the template's affair, of which a     *)
(* model's settings say what decides anything here.  That special tokens   *)
(* are removed from the text of a turn is left out.                        *)
(***************************************************************************)
EXTENDS Integers, Sequences, Protocol

CONSTANT Width   \* bits of the runtime's int, 32 on the board

ASSUME WidthAssumption == Width \in Nat \ {0} /\ 2^(Width - 1) \in Nat

\* Temperatures are in tenths.
One == 10

SamplingDefaults == [temperature : Int, top_p : Nat, top_k : Nat]

\* What the configuration file says of a generate model, and of its template:
\* it may open the reasoning itself, and it may refuse a role.
GenerateSettings ==
  [reasoning : {"none", "off", "on"}, opens : BOOLEAN,
   refuses : {None, "system", "user", "assistant"},
   sampling : SamplingDefaults, max_new_tokens : {None} \union Nat]

-----------------------------------------------------------------------------
(* sampling.rs *)

\* resolve_sampling.  Zero temperature means greedy, "the safe way".
ResolveSampling(defaults, request) ==
  LET laid == [defaults EXCEPT
                 !.top_p = IF request.top_p = None THEN @ ELSE request.top_p,
                 !.temperature = IF request.temperature = None
                                   THEN @ ELSE request.temperature]
  IN IF request.temperature = None /\ request.top_p = None THEN None
     ELSE IF laid.temperature <= 0 THEN [laid EXCEPT !.top_k = 1, !.temperature = One]
     ELSE laid

\* Mutant: the request's budget wins.
ResolveMaxTokensAsAsked(requested, configured) ==
  IF requested = None THEN configured ELSE requested

\* resolve_max_tokens: the request's budget, never above the ceiling.
ResolveMaxTokens(requested, configured) ==
  IF requested = None THEN configured
  ELSE IF configured = None \/ requested <= configured THEN requested
  ELSE configured

-----------------------------------------------------------------------------
(* generate/mod.rs and generate/template.rs *)

WantsReasoning(settings, requested) ==
  /\ settings.reasoning # "none"
  /\ IF requested = None THEN settings.reasoning = "on" ELSE requested

\* content: the parts of a message, run together.
Content(m) ==
  [k \in DOMAIN m.parts |-> IF m.parts[k].is = "text" THEN m.parts[k].value ELSE "<image>"]

Render(settings, messages, thinking) ==
  IF messages = <<>> \/ \E k \in DOMAIN messages : messages[k].role = settings.refuses
    THEN Err("InvalidInput")
    ELSE Ok([turns |-> [k \in DOMAIN messages |-> [role |-> messages[k].role,
                                                   content |-> Content(messages[k])]],
             thinking |-> thinking])

\* prompt_opens_reasoning: a template opens the block in prompts that think.
Opens(settings, prompt) == settings.opens /\ prompt.thinking

\* GenerateModel::parser: the constants of a run of module Reasoning.
Parser(settings, prompt, on) ==
  [markers |-> settings.reasoning # "none",
   opened  |-> settings.reasoning # "none" /\ on /\ Opens(settings, prompt)]

-----------------------------------------------------------------------------
(* worker/rkllm.rs *)

\* `n as i32`: two's complement, whatever n is.
AsInt(n) == IF n < 2^(Width - 1) THEN n ELSE n - 2^Width

AsIntOption(n) == IF n = None THEN None ELSE AsInt(n)

ToRkllmSampling(s) == [s EXCEPT !.top_k = AsInt(@)]

\* RkllmBackend::load: the Param a session starts with.
LoadParam(settings) ==
  [sampling |-> ToRkllmSampling(settings.sampling),
   max_new_tokens |-> AsIntOption(settings.max_new_tokens)]

\* RkllmBackend::run: the InferParams of one call of run_llm.
InferParams(sampling, budget) ==
  [sampling |-> IF sampling = None THEN None ELSE ToRkllmSampling(sampling),
   max_new_tokens |-> AsIntOption(budget)]

\* queue_generate, up to submit.
Queued(settings, g) ==
  LET on       == WantsReasoning(settings, g.reasoning)
      rendered == Render(settings, g.messages, on)
      params   == InferParams(ResolveSampling(settings.sampling, g),
                              ResolveMaxTokens(g.max_tokens, settings.max_new_tokens))
      Job(prompt) == Ok([prompt |-> prompt, params |-> params,
                         parser |-> Parser(settings, prompt, on)])
  IN Then(rendered, Job)
=============================================================================
