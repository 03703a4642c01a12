------------------------------ MODULE Registry ------------------------------
(***************************************************************************)
(* The daemon's models, from the configuration file to the states that     *)
(* /health shows: validation at start, one loader thread per generate      *)
(* model, one probe task for all the models rkwhisperd serves, and         *)
(* check(), which every call goes through.                                 *)
(*                                                                         *)
(* The reason of a failure and the second a model was loaded in are data   *)
(* nothing here depends on, and are left out.                              *)
(***************************************************************************)
EXTENDS Naturals, Sequences, Protocol

CONSTANTS
  Ids,        \* names of models
  Settings,   \* what else the file says of a generate model: see Generate
  Files       \* the configuration files the daemon may be started with

Backends == {"rkllm", "rknn", "rkwhisper"}

ModelConfig ==
  [id : Ids, operations : Seq(STRING), backend : Backends, rkllm : BOOLEAN,
   rknn : BOOLEAN, tokenizer : BOOLEAN, template : BOOLEAN, settings : Settings]

\* token: no token_file, one that can be read, one that is missing or empty.
Config ==
  [loopback : BOOLEAN, token : {"unset", "good", "bad"}, socket : BOOLEAN,
   models : Seq(ModelConfig)]

ASSUME RegistryAssumption == Files \subseteq Config

VARIABLES
  file,      \* the configuration file
  phase,     \* of the daemon: "starting", "refused" or "serving"
  state,     \* Registry: the state of every model in the file
  workers,   \* Models: "none" until inserted, "dead" once a run has panicked
  loader,    \* where load_generate is, "none" for models that have no loader
  turn,      \* the probe's place in the file, 0 while it sleeps
  saw,       \* what the probe was answered and has not reported yet
  last,      \* the probe's last report for each model
  whisper    \* rkwhisperd: does it serve the model, not serve it, or hang

registryVars ==
  <<file, phase, state, workers, loader, turn, saw, last, whisper>>

-----------------------------------------------------------------------------
(* The file. *)

Models     == {file.models[k] : k \in DOMAIN file.models}
Listed     == {m.id : m \in Models}
Model(i)   == CHOOSE m \in Models : m.id = i
Offered(m) == {m.operations[k] : k \in DOMAIN m.operations}
Offers(i, operation) == operation \in Offered(Model(i))

\* ModelConfig::validate.
ModelOk(m) ==
  /\ Offered(m) \subseteq Operations
  /\ m.operations # <<>>
  /\ m.backend = "rkllm" => m.rkllm /\ "transcribe" \notin Offered(m)
  /\ m.backend = "rknn" => m.rknn /\ m.tokenizer /\ m.operations = <<"embed">>
  /\ m.backend = "rkwhisper" => m.operations = <<"transcribe">>

\* Config::validate.
FileOk(f) ==
  /\ f.loopback \/ f.token # "unset"
  /\ \A j, k \in DOMAIN f.models : f.models[j].id = f.models[k].id => j = k
  /\ \A k \in DOMAIN f.models : ModelOk(f.models[k])
  /\ (\E k \in DOMAIN f.models : f.models[k].backend = "rkwhisper") => f.socket

\* Config::token, which main asks for before it serves.
TokenOk(f) == f.token # "bad"

\* The models spawn_loaders starts a thread for.
Loads(i) == i \in Listed /\ Offers(i, "generate") /\ Model(i).backend = "rkllm"

\* The models main hands to the probe, by their place in the file.
Whispers(k) == k \in DOMAIN file.models /\ file.models[k].backend = "rkwhisper"
Whisper(i)  == \E k \in DOMAIN file.models : Whispers(k) /\ file.models[k].id = i

-----------------------------------------------------------------------------
RegistryInit ==
  /\ file \in Files
  /\ phase = "starting"
  /\ state = [i \in Ids |-> "absent"]
  /\ workers = [i \in Ids |-> "none"]
  /\ loader = [i \in Ids |-> "none"]
  /\ turn = 0 /\ saw = "none"
  /\ last = [i \in Ids |-> "none"]
  /\ whisper \in {w \in [Ids -> {"up", "down"}] : \A i \in Ids : ~Whisper(i) => w[i] = "down"}

\* main: the file is validated and the token read; then from_config and
\* spawn_loaders, and the probe starts with its first model.
Start ==
  /\ phase = "starting"
  /\ IF FileOk(file) /\ TokenOk(file)
       THEN /\ phase' = "serving"
            /\ state' = [i \in Ids |-> IF i \notin Listed THEN "absent"
                                       ELSE IF Model(i).backend = "rkwhisper"
                                         THEN "unavailable" ELSE "loading"]
            /\ loader' = [i \in Ids |-> IF Loads(i) THEN "template" ELSE "none"]
       ELSE phase' = "refused" /\ UNCHANGED <<state, loader>>
  /\ UNCHANGED <<file, workers, turn, saw, last, whisper>>

-----------------------------------------------------------------------------
(* load_generate, one thread for each model. *)

At(i, place) == phase = "serving" /\ loader[i] = place
MoveLoader(i, place) == loader' = [loader EXCEPT ![i] = place]
SetState(i, s) == state' = [state EXCEPT ![i] = s]

\* Mutant: the thread returns and nobody is told.
LoadFailsQuietly(i) ==
  /\ loader[i] \in {"template", "weights"} /\ phase = "serving"
  /\ MoveLoader(i, "ended")
  /\ UNCHANGED <<file, phase, state, workers, turn, saw, last, whisper>>

\* GenerateModel::load or RkllmBackend::load gives up: no chat_template, or a
\* file that cannot be read, compiled or loaded.
LoadFails(i) ==
  /\ loader[i] \in {"template", "weights"} /\ phase = "serving"
  /\ SetState(i, "failed") /\ MoveLoader(i, "ended")
  /\ UNCHANGED <<file, phase, workers, turn, saw, last, whisper>>

LoadTemplate(i) ==
  /\ At(i, "template") /\ Model(i).template
  /\ MoveLoader(i, "weights")
  /\ UNCHANGED <<file, phase, state, workers, turn, saw, last, whisper>>

\* Mutant: Ready is published once the weights are there.
LoadWeightsReady(i) ==
  /\ At(i, "weights")
  /\ MoveLoader(i, "insert") /\ SetState(i, "ready")
  /\ UNCHANGED <<file, phase, workers, turn, saw, last, whisper>>

LoadWeights(i) ==
  /\ At(i, "weights")
  /\ MoveLoader(i, "insert")
  /\ UNCHANGED <<file, phase, state, workers, turn, saw, last, whisper>>

\* Worker::start and insert_generate.
Insert(i) ==
  /\ At(i, "insert")
  /\ workers' = [workers EXCEPT ![i] = "up"] /\ MoveLoader(i, "publish")
  /\ UNCHANGED <<file, phase, state, turn, saw, last, whisper>>

Publish(i) ==
  /\ At(i, "publish")
  /\ SetState(i, "ready") /\ MoveLoader(i, "ended")
  /\ UNCHANGED <<file, phase, workers, turn, saw, last, whisper>>

\* A run panics and takes the worker's thread with it; module Worker has the
\* steps.  The entry stays in Models, and the registry is not told.
Crash(i) ==
  /\ phase = "serving" /\ workers[i] = "up"
  /\ workers' = [workers EXCEPT ![i] = "dead"]
  /\ UNCHANGED <<file, phase, state, loader, turn, saw, last, whisper>>

-----------------------------------------------------------------------------
(* The probe: one task that takes the models in turn. *)

\* Mutant: the probe is handed every model of the file.
AfterAny(k) == IF k < Len(file.models) THEN k + 1 ELSE 0

\* The next rkwhisper model after place k, or 0 at the end of the round.
After(k) ==
  IF \E j \in DOMAIN file.models : j > k /\ Whispers(j)
    THEN CHOOSE j \in DOMAIN file.models :
           j > k /\ Whispers(j) /\ \A h \in DOMAIN file.models : h > k /\ Whispers(h) => j <= h
    ELSE 0

\* The first round, or the end of a sleep.  Without such models no task runs.
Wake ==
  /\ phase = "serving" /\ turn = 0 /\ file.socket /\ After(0) # 0
  /\ turn' = After(0)
  /\ UNCHANGED <<file, phase, state, workers, loader, saw, last, whisper>>

Probed == file.models[turn].id

\* asr.probe(model): a session opened and dropped.  It has no timeout.
Probe ==
  /\ turn # 0 /\ saw = "none" /\ whisper[Probed] # "hung"
  /\ saw' = IF whisper[Probed] = "up" THEN "ready" ELSE "unavailable"
  /\ UNCHANGED <<file, phase, state, workers, loader, turn, last, whisper>>

\* Mutant: an outage is logged and not published.
ReportReadyOnly ==
  /\ turn # 0 /\ saw # "none"
  /\ IF last[Probed] # saw
       THEN /\ IF saw = "ready" THEN SetState(Probed, saw) ELSE UNCHANGED state
            /\ last' = [last EXCEPT ![Probed] = saw]
       ELSE UNCHANGED <<state, last>>
  /\ turn' = After(turn) /\ saw' = "none"
  /\ UNCHANGED <<file, phase, workers, loader, whisper>>

\* Mutant: a model that was once reported is never reported again.
ReportOnce ==
  /\ turn # 0 /\ saw # "none"
  /\ IF last[Probed] = "none"
       THEN SetState(Probed, saw) /\ last' = [last EXCEPT ![Probed] = saw]
       ELSE UNCHANGED <<state, last>>
  /\ turn' = After(turn) /\ saw' = "none"
  /\ UNCHANGED <<file, phase, workers, loader, whisper>>

\* Only a change is published.
Report ==
  /\ turn # 0 /\ saw # "none"
  /\ IF last[Probed] # saw
       THEN SetState(Probed, saw) /\ last' = [last EXCEPT ![Probed] = saw]
       ELSE UNCHANGED <<state, last>>
  /\ turn' = After(turn) /\ saw' = "none"
  /\ UNCHANGED <<file, phase, workers, loader, whisper>>

\* rkwhisperd stops, hangs, or comes back.
WhisperTurns(i) ==
  /\ Whisper(i)
  /\ whisper' \in {[whisper EXCEPT ![i] = w] : w \in {"up", "down", "hung"} \ {whisper[i]}}
  /\ UNCHANGED <<file, phase, state, workers, loader, turn, saw, last>>

-----------------------------------------------------------------------------
Loader(i) ==
  \/ LoadTemplate(i) \/ LoadWeights(i) \/ LoadFails(i) \/ Insert(i) \/ Publish(i)

ProbeTask == Wake \/ Probe \/ Report

RegistryNext ==
  \/ Start
  \/ ProbeTask
  \/ \E i \in Ids : Loader(i) \/ Crash(i) \/ WhisperTurns(i)

\* Threads run, reading a file or the weights ends, and timers fire.
RegistryFairness ==
  /\ WF_registryVars(Start)
  /\ WF_registryVars(ProbeTask)
  /\ \A i \in Ids : WF_registryVars(Loader(i))

RegistrySpec == RegistryInit /\ [][RegistryNext]_registryVars /\ RegistryFairness

-----------------------------------------------------------------------------
\* Registry::check.
Check(i, operation) ==
  IF i \notin Listed THEN Err("UnknownModel")
  ELSE IF ~Offers(i, operation) THEN Err("UnsupportedOperation")
  ELSE CASE state[i] = "ready"       -> Ok(None)
         [] state[i] = "loading"     -> Err("Loading")
         [] state[i] = "unavailable" -> Err("Unavailable")
         [] state[i] = "failed"      -> Err("Runtime")

\* Registry::list, which models() answers.
List ==
  [k \in DOMAIN file.models |->
    [id |-> file.models[k].id, operations |-> file.models[k].operations,
     state |-> state[file.models[k].id]]]

-----------------------------------------------------------------------------
RegistryTypeOK ==
  /\ file \in Files
  /\ phase \in {"starting", "refused", "serving"}
  /\ state \in [Ids -> {"absent", "loading", "ready", "failed", "unavailable"}]
  /\ workers \in [Ids -> {"none", "up", "dead"}]
  /\ loader \in [Ids -> {"none", "template", "weights", "insert", "publish", "ended"}]
  /\ turn \in Nat /\ saw \in {"none", "ready", "unavailable"}
  /\ turn # 0 => Whispers(turn)
  /\ last \in [Ids -> {"none", "ready", "unavailable"}]
  /\ whisper \in [Ids -> {"up", "down", "hung"}]

\* A call that passes check() finds what it needs: a model that generates and
\* is Ready has its worker in Models (models.rs:112-120 inserts, then
\* publishes), and one that transcribes has a socket to open a session on.
ReadyHasWorker ==
  \A i \in Listed : phase = "serving" =>
    /\ Loads(i) /\ state[i] = "ready" => workers[i] # "none"
    /\ Whisper(i) => file.socket

\* What the probe remembers is what the registry says, so that reporting only
\* changes (probe.rs:58-64) loses none.
LastIsPublished ==
  \A i \in Listed : phase = "serving" /\ Whisper(i) =>
    state[i] = IF last[i] = "none" THEN "unavailable" ELSE last[i]

\* A model somebody loads says Loading only while that thread still works on
\* it: whichever way load_generate returns, it has reported (models.rs:88-121).
LoadingIsBacked ==
  \A i \in Ids : loader[i] # "none" => (state[i] = "loading" <=> loader[i] # "ended")

\* Every loader ends with a model that serves or says it failed.
LoadsSettle ==
  \A i \in Ids : loader[i] = "template" ~> state[i] \in {"ready", "failed"}

\* Once rkwhisperd stays as it is, and none of its models hangs the probe all
\* of them share, the registry comes to say so and keeps saying it.
ProbeFollows ==
  \A i \in Ids, w \in {"up", "down"} :
    <>[](/\ phase = "serving" /\ Whisper(i) /\ whisper[i] = w
         /\ \A j \in Ids : Whisper(j) => whisper[j] # "hung")
      => <>[](state[i] = IF w = "up" THEN "ready" ELSE "unavailable")
=============================================================================
