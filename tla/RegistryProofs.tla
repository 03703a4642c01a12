--------------------------- MODULE RegistryProofs ----------------------------
(***************************************************************************)
(* What module Registry keeps true for every set of configuration files,   *)
(* by one inductive invariant: its last conjunct, and the uniqueness of    *)
(* ids that FileOk gives it, are what keeps loaders and probe apart.       *)
(* The last part is about steps: loaders settle once, rounds miss nobody.  *)
(***************************************************************************)
EXTENDS Registry, WellFoundedInduction, TLAPS

\* Where the daemon is, and who works on what.
Phases ==
  /\ phase # "serving" =>
       /\ \A i \in Ids : loader[i] = "none" /\ workers[i] = "none" /\ last[i] = "none"
       /\ turn = 0
  /\ phase = "serving" => FileOk(file)

\* Loaders are the models' that load, and one that is through has a worker.
Loading ==
  \A i \in Ids :
    /\ loader[i] # "none" => Loads(i)
    /\ phase = "serving" /\ Loads(i) => loader[i] # "none"
    /\ loader[i] = "publish" \/ (loader[i] = "ended" /\ state[i] = "ready") => workers[i] # "none"

IInv ==
  RegistryTypeOK /\ Phases /\ Loading /\ LoadingIsBacked /\ LastIsPublished

LEMMA FileType == ASSUME RegistryTypeOK
                  PROVE  /\ file \in Config
                         /\ \A k \in DOMAIN file.models : file.models[k].id \in Ids
<1>1. file \in Config
  BY RegistryAssumption DEF RegistryTypeOK
<1>2. file.models \in Seq(ModelConfig)
  BY <1>1 DEF Config
<1>3. \A k \in DOMAIN file.models : file.models[k] \in ModelConfig
  BY <1>2
<1> QED
  BY <1>1, <1>3 DEF ModelConfig

\* Ids are unique, so a model rkwhisperd serves has no loader.
LEMMA Apart == ASSUME RegistryTypeOK, FileOk(file), NEW i \in Ids, Whisper(i)
               PROVE  ~Loads(i)
<1>1. PICK k \in DOMAIN file.models : Whispers(k) /\ file.models[k].id = i
  BY DEF Whisper
<1>2. \E m \in Models : m.id = i
  BY <1>1 DEF Models
<1>3. Model(i) \in Models /\ Model(i).id = i
  BY <1>2 DEF Model
<1>4. PICK j \in DOMAIN file.models : Model(i) = file.models[j]
  BY <1>3 DEF Models
<1>5. j = k
  BY <1>1, <1>3, <1>4 DEF FileOk
<1>6. Model(i).backend = "rkwhisper"
  BY <1>1, <1>4, <1>5 DEF Whispers
<1> QED
  BY <1>6 DEF Loads

LEMMA ListedWhisper == ASSUME RegistryTypeOK, FileOk(file), NEW i \in Listed, Whisper(i)
                       PROVE  Model(i).backend = "rkwhisper"
<1>1. PICK k \in DOMAIN file.models : Whispers(k) /\ file.models[k].id = i
  BY DEF Whisper
<1>2. Model(i) \in Models /\ Model(i).id = i
  BY <1>1 DEF Model, Models
<1>3. PICK j \in DOMAIN file.models : Model(i) = file.models[j]
  BY <1>2 DEF Models
<1>4. j = k
  BY <1>1, <1>2, <1>3 DEF FileOk
<1> QED
  BY <1>1, <1>3, <1>4 DEF Whispers

-----------------------------------------------------------------------------
LEMMA InitIInv == RegistryInit => IInv
  BY DEF RegistryInit, IInv, RegistryTypeOK, Phases, Loading, LoadingIsBacked, LastIsPublished

\* The probe goes from one rkwhisper model to the next, and passes over none.
LEMMA AfterWhispers == ASSUME RegistryTypeOK, NEW k
                       PROVE  /\ After(k) \in Nat
                              /\ After(k) # 0 => Whispers(After(k)) /\ After(k) > k
                              /\ \A h \in DOMAIN file.models :
                                   h > k /\ Whispers(h) => After(k) # 0 /\ After(k) <= h
<1> DEFINE Next == {j \in DOMAIN file.models : j > k /\ Whispers(j)}
<1>1. DOMAIN file.models \subseteq Nat \ {0}
  <2>1. file.models \in Seq(ModelConfig)
    BY FileType DEF Config
  <2> QED
    BY <2>1
<1>2. CASE Next = {}
  BY <1>2 DEF After
<1>3. CASE Next # {}
  <2>1. PICK j \in Next : \A h \in Next : ~(<<h, j>> \in OpToRel(<, Nat))
    BY <1>1, <1>3, WFMin, NatLessThanWellFounded
  <2> DEFINE R == {ss \in Nat \X Nat : ss[1] < ss[2]}
  <2>2. OpToRel(<, Nat) = R
    BY Zenon DEF OpToRel
  <2>3. \A h \in Next : j <= h
    <3> SUFFICES ASSUME NEW h \in Next, h < j PROVE FALSE
      BY <1>1
    <3>1. <<h, j>> \in R
      BY <1>1
    <3> QED
      BY <2>1, <2>2, <3>1
  <2>4. /\ After(k) \in DOMAIN file.models /\ After(k) > k
        /\ Whispers(After(k))
        /\ \A h \in DOMAIN file.models : h > k /\ Whispers(h) => After(k) <= h
    BY <2>3 DEF After
  <2> QED
    BY <1>1, <2>4
<1> QED
  BY <1>2, <1>3

\* A conjunct that reads only what a step leaves alone.
LEMMA Same == ASSUME UNCHANGED file
              PROVE  /\ \A i : Loads(i)' <=> Loads(i)
                     /\ \A i : Whisper(i)' <=> Whisper(i)
                     /\ \A k : Whispers(k)' <=> Whispers(k)
                     /\ FileOk(file)' <=> FileOk(file)
                     /\ Listed' = Listed
  BY DEF Loads, Whisper, Whispers, Listed, Models, Model, Offers, Offered, FileOk, ModelOk

LEMMA StartIInv == ASSUME IInv, Start PROVE IInv'
<1> USE DEF IInv
<1>1. UNCHANGED <<file, workers, turn, saw, last, whisper>>
  BY DEF Start
<1>2. CASE FileOk(file) /\ TokenOk(file)
  <2>1. /\ phase' = "serving"
        /\ state' = [i \in Ids |-> IF i \notin Listed THEN "absent"
                                   ELSE IF Model(i).backend = "rkwhisper"
                                     THEN "unavailable" ELSE "loading"]
        /\ loader' = [i \in Ids |-> IF Loads(i) THEN "template" ELSE "none"]
    BY <1>2 DEF Start
  <2>2. RegistryTypeOK'
    BY <1>1, <2>1, Same DEF RegistryTypeOK
  <2>3. Phases'
    BY <1>1, <1>2, <2>1, Same DEF Phases
  <2>4. Loading'
    BY <1>1, <2>1, Same DEF Loading
  <2>5. LoadingIsBacked'
    <3>1. \A i \in Ids : Loads(i) => state'[i] = "loading"
      BY <2>1 DEF Loads
    <3> QED
      BY <1>1, <2>1, <3>1 DEF LoadingIsBacked
  <2>6. LastIsPublished'
    <3> SUFFICES ASSUME NEW i \in Listed, Whisper(i)
                 PROVE  state'[i] = IF last'[i] = "none" THEN "unavailable" ELSE last'[i]
      BY <1>1, Same DEF LastIsPublished
    <3>1. i \in Ids
      BY FileType DEF Listed, Models
    <3>2. last'[i] = "none"
      BY <1>1, <3>1 DEF Phases, Start
    <3>3. state'[i] = "unavailable"
      BY <1>2, <2>1, <3>1, ListedWhisper
    <3> QED
      BY <3>2, <3>3
  <2> QED
    BY <2>2, <2>3, <2>4, <2>5, <2>6
<1>3. CASE ~(FileOk(file) /\ TokenOk(file))
  <2>1. phase' = "refused" /\ UNCHANGED <<state, loader>>
    BY <1>3 DEF Start
  <2>2. RegistryTypeOK'
    BY <1>1, <2>1, Same DEF RegistryTypeOK
  <2> QED
    BY <1>1, <2>1, <2>2, Same DEF Phases, Start, Loading, LoadingIsBacked, LastIsPublished
<1> QED
  BY <1>2, <1>3

-----------------------------------------------------------------------------
(* Loaders.  A model one works on is not rkwhisperd's, so what the probe    *)
(* has said is not about it.                                               *)

LEMMA LoaderApart == ASSUME IInv, NEW i \in Ids, loader[i] # "none"
                     PROVE  phase = "serving" /\ FileOk(file) /\ ~Whisper(i)
<1>1. phase = "serving" /\ FileOk(file)
  BY DEF IInv, Phases
<1>2. Loads(i)
  BY DEF IInv, Loading
<1> QED
  BY <1>1, <1>2, Apart DEF IInv

LEMMA LoaderIInv == ASSUME IInv, NEW i \in Ids, Loader(i) PROVE IInv'
<1>1. /\ loader[i] # "none" /\ loader[i] # "ended" /\ phase = "serving"
      /\ UNCHANGED <<file, phase, turn, saw, last, whisper>>
  BY DEF Loader, LoadTemplate, LoadWeights, LoadFails, Insert, Publish, At
<1>2. FileOk(file) /\ ~Whisper(i)
  BY <1>1, LoaderApart
<1>3. RegistryTypeOK'
  BY <1>1, Same DEF IInv, RegistryTypeOK, Loader, LoadTemplate, LoadWeights, LoadFails, Insert,
     Publish, At, MoveLoader, SetState
<1>4. Phases'
  BY <1>1, <1>2, Same DEF Phases
<1>5. Loading' /\ LoadingIsBacked'
  BY <1>1, Same DEF IInv, RegistryTypeOK, Loading, LoadingIsBacked, Loader, LoadTemplate,
     LoadWeights, LoadFails, Insert, Publish, At, MoveLoader, SetState
<1>6. LastIsPublished'
  <2>1. \A j \in Ids : j # i => state'[j] = state[j]
    BY DEF IInv, RegistryTypeOK, Loader, LoadTemplate, LoadWeights, LoadFails, Insert, Publish,
       SetState
  <2>2. Listed \subseteq Ids
    BY FileType DEF IInv, Listed, Models
  <2> QED
    BY <1>1, <1>2, <2>1, <2>2, Same DEF IInv, LastIsPublished
<1> QED
  BY <1>3, <1>4, <1>5, <1>6 DEF IInv

LEMMA CrashIInv == ASSUME IInv, NEW i \in Ids, Crash(i) PROVE IInv'
<1>1. /\ phase = "serving" /\ workers' = [workers EXCEPT ![i] = "dead"]
      /\ UNCHANGED <<file, phase, state, loader, turn, saw, last, whisper>>
  BY DEF Crash
<1>2. RegistryTypeOK' /\ Phases' /\ Loading'
  BY <1>1, Same DEF IInv, RegistryTypeOK, Phases, Loading
<1>3. LoadingIsBacked' /\ LastIsPublished'
  BY <1>1, Same DEF IInv, LoadingIsBacked, LastIsPublished
<1> QED
  BY <1>2, <1>3 DEF IInv

-----------------------------------------------------------------------------
(* The probe.                                                              *)

LEMMA QuietIInv == ASSUME IInv, Wake \/ Probe \/ \E i \in Ids : WhisperTurns(i) PROVE IInv'
<1>1. UNCHANGED <<file, phase, state, workers, loader, last>>
  BY DEF Wake, Probe, WhisperTurns
<1>2. RegistryTypeOK'
  <2>1. turn' \in Nat /\ (turn' # 0 => Whispers(turn'))
    BY AfterWhispers DEF IInv, RegistryTypeOK, Wake, Probe, WhisperTurns
  <2>2. saw' \in {"none", "ready", "unavailable"}
    BY DEF IInv, RegistryTypeOK, Wake, Probe, WhisperTurns
  <2>3. whisper' \in [Ids -> {"up", "down", "hung"}]
    BY DEF IInv, RegistryTypeOK, Wake, Probe, WhisperTurns
  <2> QED
    BY <1>1, <2>1, <2>2, <2>3, Same DEF IInv, RegistryTypeOK
<1>3. Phases'
  BY <1>1, Same DEF IInv, Phases, Wake, Probe, WhisperTurns
<1> QED
  BY <1>1, <1>2, <1>3, Same DEF IInv, Loading, LoadingIsBacked, LastIsPublished

LEMMA ReportIInv == ASSUME IInv, Report PROVE IInv'
<1>1. /\ turn # 0 /\ saw # "none" /\ turn' = After(turn) /\ saw' = "none"
      /\ UNCHANGED <<file, phase, workers, loader, whisper>>
  BY DEF Report
<1>2. phase = "serving" /\ FileOk(file)
  BY <1>1 DEF IInv, Phases
<1>3. Probed \in Ids /\ Whisper(Probed) /\ Whispers(turn)
  BY <1>1, FileType DEF IInv, RegistryTypeOK, Probed, Whisper, Whispers
<1>4. ~Loads(Probed) /\ loader[Probed] = "none"
  BY <1>2, <1>3, Apart DEF IInv, Loading
<1>5. /\ \A j \in Ids : j # Probed => state'[j] = state[j] /\ last'[j] = last[j]
      /\ last[Probed] # saw => state'[Probed] = saw /\ last'[Probed] = saw
      /\ last[Probed] = saw => UNCHANGED <<state, last>>
  BY <1>3 DEF Report, SetState, IInv, RegistryTypeOK
<1>6. RegistryTypeOK'
  <2>1. turn' \in Nat /\ (turn' # 0 => Whispers(turn'))
    BY <1>1, AfterWhispers DEF IInv
  <2>2. /\ state' \in [Ids -> {"absent", "loading", "ready", "failed", "unavailable"}]
        /\ last' \in [Ids -> {"none", "ready", "unavailable"}]
    BY <1>1 DEF Report, SetState, IInv, RegistryTypeOK
  <2> QED
    BY <1>1, <2>1, <2>2, Same DEF IInv, RegistryTypeOK
<1>7. Phases'
  BY <1>1, <1>2, Same DEF Phases
<1>8. Loading' /\ LoadingIsBacked'
  BY <1>1, <1>4, <1>5, Same DEF IInv, Loading, LoadingIsBacked
<1>9. LastIsPublished'
  <2>1. Listed \subseteq Ids
    BY FileType DEF IInv, Listed, Models
  <2>2. saw \in {"ready", "unavailable"}
    BY <1>1 DEF IInv, RegistryTypeOK
  <2> QED
    BY <1>1, <1>5, <2>1, <2>2, Same DEF IInv, LastIsPublished
<1> QED
  BY <1>6, <1>7, <1>8, <1>9 DEF IInv

LEMMA NextIInv == ASSUME IInv, [RegistryNext]_registryVars PROVE IInv'
<1>1. CASE UNCHANGED registryVars
  BY <1>1, Same DEF registryVars, IInv, RegistryTypeOK, Phases, Loading, LoadingIsBacked,
     LastIsPublished
<1>2. CASE RegistryNext
  BY <1>2, StartIInv, LoaderIInv, CrashIInv, QuietIInv, ReportIInv DEF RegistryNext, ProbeTask
<1> QED
  BY <1>1, <1>2

-----------------------------------------------------------------------------
\* What every theorem below rests on, of every step of main, the loaders, the
\* workers, the probe and rkwhisperd.
THEOREM Inductive == RegistrySpec => []IInv
<1>1. RegistryInit => IInv
  BY InitIInv
<1>2. IInv /\ [RegistryNext]_registryVars => IInv'
  BY NextIInv
<1> QED
  BY <1>1, <1>2, PTL DEF RegistrySpec

\* The registry's variables keep their types, and the probe only ever turns
\* to a model that is rkwhisperd's (probe.rs:32-68).
THEOREM TypeCorrect == RegistrySpec => []RegistryTypeOK
<1>1. IInv => RegistryTypeOK
  BY DEF IInv
<1> QED
  BY <1>1, Inductive, PTL

\* Whatever is loaded and fails, in whatever order, a model that says Ready
\* has a worker, and one that transcribes has a socket (models.rs:112-120).
THEOREM WorkersAreThere == RegistrySpec => []ReadyHasWorker
<1>1. IInv => ReadyHasWorker
  <2> SUFFICES ASSUME IInv, NEW i \in Listed, phase = "serving"
               PROVE  /\ Loads(i) /\ state[i] = "ready" => workers[i] # "none"
                      /\ Whisper(i) => file.socket
    BY DEF ReadyHasWorker
  <2>1. i \in Ids /\ FileOk(file)
    BY FileType DEF IInv, Phases, Listed, Models
  <2>2. ASSUME Loads(i), state[i] = "ready" PROVE workers[i] # "none"
    <3>1. loader[i] # "none"
      BY <2>1, <2>2 DEF IInv, Loading
    <3>2. loader[i] = "ended"
      BY <2>1, <2>2, <3>1 DEF IInv, LoadingIsBacked
    <3> QED
      BY <2>1, <2>2, <3>2 DEF IInv, Loading
  <2>3. ASSUME Whisper(i) PROVE file.socket
    BY <2>1, <2>3 DEF FileOk, Whisper, Whispers
  <2> QED
    BY <2>2, <2>3
<1> QED
  BY <1>1, Inductive, PTL

\* A report the probe leaves out would have changed nothing (probe.rs:58-64).
THEOREM ReportsAreEnough == RegistrySpec => []LastIsPublished
<1>1. IInv => LastIsPublished
  BY DEF IInv
<1> QED
  BY <1>1, Inductive, PTL

\* A model that says Loading is being loaded, and one that is being loaded
\* says so (models.rs:44-121).
THEOREM LoadingMeansIt == RegistrySpec => []LoadingIsBacked
<1>1. IInv => LoadingIsBacked
  BY DEF IInv
<1> QED
  BY <1>1, Inductive, PTL

-----------------------------------------------------------------------------
(* What a step may never do.  It is what the two liveness properties rest  *)
(* on: loaders go forward only, and the probe's rounds miss nobody.        *)

StagesLeft(place) ==
  CASE place = "template" -> 4
    [] place = "weights"  -> 3
    [] place = "insert"   -> 2
    [] place = "publish"  -> 1
    [] OTHER              -> 0

\* A loader only goes forward, and where it has ended the model stays Ready or
\* Failed for good: the probe, which writes to the same registry, never
\* touches it.
SettlesOnce ==
  \A i \in Ids :
    /\ loader[i] = "ended" => /\ state[i] \in {"ready", "failed"}
                              /\ UNCHANGED <<loader[i], state[i]>>
    /\ loader[i] # "none" /\ loader'[i] # loader[i]
         => StagesLeft(loader'[i]) < StagesLeft(loader[i])

\* After a report the registry says what the probe saw, whether the report was
\* published or left out; and the probe turns to the next of its models, or
\* sleeps when there is none left.
RoundGoesOn ==
  Report =>
    /\ state'[Probed] = saw
    /\ turn' # 0 => turn < turn'
    /\ \A k \in DOMAIN file.models : Whispers(k) /\ turn < k => turn' # 0 /\ turn' <= k

\* A model that has a loader is loading, or settled.
OwnStates == \A i \in Ids : loader[i] # "none" => state[i] \in {"loading", "ready", "failed"}

\* A report is never about a model that has a loader.
LEMMA ReportsElsewhere ==
  ASSUME IInv, Report, NEW i \in Ids, loader[i] # "none"
  PROVE  UNCHANGED <<loader[i], state[i]>>
<1>1. ~Whisper(i)
  BY LoaderApart
<1>2. turn # 0 /\ UNCHANGED loader
  BY DEF Report
<1>3. Whisper(Probed)
  BY <1>2 DEF IInv, RegistryTypeOK, Probed, Whisper, Whispers
<1> QED
  BY <1>1, <1>2, <1>3 DEF Report, SetState, IInv, RegistryTypeOK

LEMMA OwnStatesStep == ASSUME IInv, OwnStates, [RegistryNext]_registryVars PROVE OwnStates'
<1>1. CASE Start
  <2>1. SUFFICES ASSUME NEW i \in Ids, loader'[i] # "none" PROVE state'[i] = "loading"
    BY DEF OwnStates
  <2>2. FileOk(file) /\ TokenOk(file)
    <3>1. ASSUME ~(FileOk(file) /\ TokenOk(file)) PROVE loader'[i] = "none"
      BY <1>1, <3>1 DEF Start, IInv, Phases
    <3> QED
      BY <2>1, <3>1
  <2>3. Loads(i)
    BY <1>1, <2>1, <2>2 DEF Start
  <2> QED
    BY <1>1, <2>2, <2>3 DEF Start, Loads
<1>2. ASSUME NEW i \in Ids, Loader(i) PROVE OwnStates'
  BY <1>2 DEF OwnStates, Loader, LoadTemplate, LoadWeights, LoadFails, Insert, Publish, At,
     MoveLoader, SetState, IInv, RegistryTypeOK
<1>3. CASE Report
  BY <1>3, ReportsElsewhere DEF OwnStates, Report
<1>4. CASE UNCHANGED <<loader, state>>
  BY <1>4 DEF OwnStates
<1> QED
  BY <1>1, <1>2, <1>3, <1>4 DEF RegistryNext, registryVars, ProbeTask, Wake, Probe, Crash, WhisperTurns

LEMMA LoaderSettles == ASSUME IInv, OwnStates, [RegistryNext]_registryVars PROVE SettlesOnce
<1> SUFFICES ASSUME NEW i \in Ids
             PROVE  /\ loader[i] = "ended" => UNCHANGED <<loader[i], state[i]>>
                    /\ loader[i] # "none" /\ loader'[i] # loader[i]
                         => StagesLeft(loader'[i]) < StagesLeft(loader[i])
  BY DEF SettlesOnce, OwnStates, IInv, LoadingIsBacked
<1>1. CASE Start
  BY <1>1 DEF Start, IInv, Phases
<1>2. ASSUME NEW j \in Ids, Loader(j)
      PROVE  /\ loader[i] = "ended" => UNCHANGED <<loader[i], state[i]>>
             /\ loader[i] # "none" /\ loader'[i] # loader[i]
                  => StagesLeft(loader'[i]) < StagesLeft(loader[i])
  <2>1. /\ loader \in [Ids -> {"none", "template", "weights", "insert", "publish", "ended"}]
        /\ state \in [Ids -> {"absent", "loading", "ready", "failed", "unavailable"}]
    BY DEF IInv, RegistryTypeOK
  <2>2. CASE i # j
    BY <1>2, <2>1, <2>2 DEF Loader, LoadTemplate, LoadWeights, LoadFails, Insert, Publish, At,
       MoveLoader, SetState
  <2>3. CASE i = j
    BY <1>2, <2>1, <2>3 DEF Loader, LoadTemplate, LoadWeights, LoadFails, Insert, Publish, At,
       MoveLoader, StagesLeft
  <2> QED
    BY <2>2, <2>3
<1>3. CASE Report
  BY <1>3, ReportsElsewhere
<1>4. CASE UNCHANGED <<loader, state>>
  BY <1>4
<1> QED
  BY <1>1, <1>2, <1>3, <1>4 DEF RegistryNext, registryVars, ProbeTask, Wake, Probe, Crash, WhisperTurns

\* Every loader reports once, after finitely many stages, and nobody takes its
\* report back (load_generate, models.rs:88-121, beside the probe, probe.rs:42-68).
THEOREM LoadersSettleOnce == RegistrySpec => [][SettlesOnce]_registryVars
<1>1. RegistryInit => OwnStates
  BY DEF RegistryInit, OwnStates
<1>2. IInv /\ OwnStates /\ [RegistryNext]_registryVars => OwnStates' /\ SettlesOnce
  BY OwnStatesStep, LoaderSettles
<1> QED
  BY <1>1, <1>2, Inductive, PTL DEF RegistrySpec

\* No round of the probe leaves out a model or ends before the last of them,
\* and what is not reported was known already (probe.rs:42-68).
THEOREM ProbeMissesNone == RegistrySpec => [][RoundGoesOn]_registryVars
<1>1. ASSUME IInv, Report
      PROVE  /\ state'[Probed] = saw
             /\ turn' # 0 => turn < turn'
             /\ \A k \in DOMAIN file.models : Whispers(k) /\ turn < k => turn' # 0 /\ turn' <= k
  <2>1. turn # 0 /\ saw # "none" /\ turn' = After(turn)
    BY <1>1 DEF Report
  <2>2. Probed \in Ids /\ Probed \in Listed /\ Whisper(Probed)
    BY <1>1, <2>1, FileType DEF IInv, RegistryTypeOK, Probed, Whisper, Whispers, Listed, Models
  <2>3. phase = "serving"
    BY <1>1, <2>1 DEF IInv, Phases, RegistryTypeOK
  <2>4. ASSUME last[Probed] = saw PROVE state'[Probed] = saw
    BY <1>1, <2>1, <2>2, <2>3, <2>4 DEF Report, IInv, LastIsPublished
  <2>5. ASSUME last[Probed] # saw PROVE state'[Probed] = saw
    BY <1>1, <2>2, <2>5 DEF Report, SetState, IInv, RegistryTypeOK
  <2>6. /\ turn' # 0 => turn' > turn
        /\ \A k \in DOMAIN file.models : k > turn /\ Whispers(k) => turn' # 0 /\ turn' <= k
    BY <1>1, <2>1, AfterWhispers DEF IInv
  <2> QED
    BY <2>4, <2>5, <2>6
<1>2. IInv /\ [RegistryNext]_registryVars => RoundGoesOn
  BY <1>1 DEF RoundGoesOn
<1> QED
  BY <1>2, Inductive, PTL DEF RegistrySpec
=============================================================================
