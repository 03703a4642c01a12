---------------------------- MODULE ServingProofs ----------------------------
(***************************************************************************)
(* What modules Protocol, Generate and Serving keep for every value of the *)
(* constants.  The first part is about the operators, the second about the *)
(* calls, by invariants that are inductive one upon the other.             *)
(***************************************************************************)
EXTENDS Serving, RegistryProofs, FiniteSetTheorems

\* Every error this protocol has, with every delay.
AllErrors == {Err(kind) : kind \in Errors \ {"Busy"}} \union {Busy(ms) : ms \in Nat}

\* An error that has crossed to the frontend as a gRPC status is answered as
\* it would have been had it not: the kinds that share a code share an answer
\* (error.rs:47-163).
THEOREM CrossingKeepsAnswer ==
  ASSUME NEW e \in AllErrors
  PROVE  ApiError(FromStatus(ToStatus(e))) = ApiError(e)
<1>1. CASE \E ms \in Nat : e = Busy(ms)
  <2>1. PICK ms \in Nat : e = Busy(ms)
    BY <1>1
  <2>2. e.error = "Busy" /\ e.ms = ms
    BY <2>1 DEF Busy, Err
  <2>3. ToStatus(e) = [code |-> "ResourceExhausted", ms |-> ms]
    BY <2>2 DEF ToStatus, Status, CodeOf
  <2>4. ms # None
    BY NoneAssumption
  <2>5. FromStatus(ToStatus(e)) = Busy(ms)
    BY <2>3, <2>4 DEF FromStatus, ErrorOf
  <2> QED
    BY <2>1, <2>5
<1>2. CASE \E kind \in Errors \ {"Busy"} : e = Err(kind)
  <2>1. PICK kind \in Errors \ {"Busy"} : e = Err(kind)
    BY <1>2
  <2>2. e.error = kind /\ kind # "Busy"
    BY <2>1 DEF Err
  <2>3. ToStatus(e) = [code |-> CodeOf[kind], ms |-> None]
    BY <2>1, <2>2 DEF ToStatus, Status
  <2>4. FromStatus(ToStatus(e)) =
          IF kind \in {"UnknownModel"} THEN Err("UnknownModel")
          ELSE IF kind \in {"UnsupportedOperation", "InvalidInput"} THEN Err("InvalidInput")
          ELSE IF kind = "ContextLengthExceeded" THEN Err("ContextLengthExceeded")
          ELSE IF kind \in {"Loading", "Unavailable", "Unreachable"} THEN Err("Unreachable")
          ELSE IF kind = "Runtime" THEN Err("Runtime")
          ELSE IF kind = "Unauthorized" THEN Err("Unauthorized")
          ELSE Err("ProtocolVersion")
    BY <2>1, <2>3 DEF FromStatus, ErrorOf, CodeOf, Errors
  <2> QED
    BY <2>1, <2>2, <2>4 DEF ApiError, Http, HttpMapping, Err, Errors
<1> QED
  BY <1>1, <1>2 DEF AllErrors

\* Nobody is told to come back sooner than the daemon asked, nor at once
\* (openai/error.rs:113-125).
THEOREM RetryAfterIsEnough ==
  ASSUME NEW ms \in Nat
  PROVE  RetryAfter(ms) >= 1 /\ RetryAfter(ms) * 1000 >= ms
  BY NoneAssumption DEF RetryAfter

-----------------------------------------------------------------------------
Finishes == {"stop", "length"}

LEMMA FinishCrosses == ASSUME NEW f \in Finishes
                       PROVE  FromNumber(FinishNames, FinishToPb(f)) = Ok(f)
<1>1. DOMAIN FinishNames = 1..2 /\ FinishNames[1] = "stop" /\ FinishNames[2] = "length"
  BY DEF FinishNames
<1>2. \E k \in DOMAIN FinishNames : FinishNames[k] = f
  BY <1>1 DEF Finishes
<1>3. FinishToPb(f) \in DOMAIN FinishNames /\ FinishNames[FinishToPb(f)] = f
  BY <1>2 DEF FinishToPb, ToNumber
<1> QED
  BY <1>3 DEF FromNumber

\* An event reaches the frontend as the run sent it (convert.rs:335-365).
THEOREM EventsCross ==
  ASSUME NEW kind \in {"text_delta", "reasoning_delta", "segment"}, NEW v,
         NEW f \in Finishes, NEW usage
  PROVE  /\ EventFromPb(EventToPb(Oneof(kind, v))) = Ok(Oneof(kind, v))
         /\ LET done == Oneof("done", [finish |-> f, usage |-> usage])
            IN EventFromPb(EventToPb(done)) = Ok(done)
<1>1. EventFromPb(EventToPb(Oneof(kind, v))) = Ok(Oneof(kind, v))
  BY DEF EventFromPb, EventToPb, Oneof
<1>2. EventToPb(Oneof("done", [finish |-> f, usage |-> usage]))
        = Oneof("done", [finish |-> FinishToPb(f), usage |-> usage])
  BY DEF EventToPb, Oneof
<1>3. EventFromPb(Oneof("done", [finish |-> FinishToPb(f), usage |-> usage]))
        = Ok(Oneof("done", [finish |-> f, usage |-> usage]))
  <2> DEFINE o == Oneof("done", [finish |-> FinishToPb(f), usage |-> usage])
  <2>1. o.is = "done" /\ o.value = [finish |-> FinishToPb(f), usage |-> usage]
    BY DEF Oneof
  <2>2. EventFromPb(o) =
          Then(FromNumber(FinishNames, o.value.finish),
               LAMBDA g : Ok(Oneof("done", [o.value EXCEPT !.finish = g])))
    BY <2>1 DEF EventFromPb
  <2>3. FromNumber(FinishNames, o.value.finish) = Ok(f)
    BY <2>1, FinishCrosses
  <2> HIDE DEF o
  <2>4. EventFromPb(o) = Ok(Oneof("done", [o.value EXCEPT !.finish = f]))
    <3>1. FromNumber(FinishNames, o.value.finish).ok /\ FromNumber(FinishNames, o.value.finish).value = f
      BY <2>3 DEF Ok
    <3> QED
      BY <2>2, <3>1 DEF Then
  <2>5. [o.value EXCEPT !.finish = f] = [finish |-> f, usage |-> usage]
    BY <2>1
  <2> QED
    BY <2>4, <2>5 DEF o
<1> QED
  BY <1>1, <1>2, <1>3

-----------------------------------------------------------------------------
\* The budget of a run is within the ceiling and within what was asked, for a
\* ceiling that the runtime's int can hold (sampling.rs:52-59, rkllm.rs:133).
THEOREM BudgetWithinCeiling ==
  ASSUME NEW asked \in Nat \union {None}, NEW ceiling \in Nat,
         2^(Width - 1) \in Int, ceiling < 2^(Width - 1)
  PROVE  LET given == AsIntOption(ResolveMaxTokens(asked, ceiling))
         IN given \in 0..ceiling /\ (asked # None => given <= asked)
<1> DEFINE limit == 2^(Width - 1)
<1> DEFINE chosen == ResolveMaxTokens(asked, ceiling)
<1>1. /\ chosen \in 0..ceiling
      /\ asked # None => chosen <= asked
  BY NoneAssumption DEF ResolveMaxTokens
<1>2. chosen < limit /\ chosen # None
  <2> HIDE DEF chosen, limit
  <2>1. limit \in Int /\ ceiling < limit
    BY DEF limit
  <2> QED
    BY <1>1, <2>1, NoneAssumption
<1>3. AsIntOption(chosen) = chosen
  BY <1>2 DEF AsIntOption, AsInt
<1> QED
  BY <1>1, <1>3

\* No override samples at temperature zero, whatever was asked and whatever is
\* configured (sampling.rs:27-50).
THEOREM OverrideIsWarm ==
  ASSUME NEW defaults \in SamplingDefaults,
         NEW request \in [temperature : {None} \union Int, top_p : {None} \union Int],
         ResolveSampling(defaults, request) # None
  PROVE  ResolveSampling(defaults, request).temperature > 0
<1> DEFINE laid == [defaults EXCEPT
                      !.top_p = IF request.top_p = None THEN @ ELSE request.top_p,
                      !.temperature = IF request.temperature = None
                                        THEN @ ELSE request.temperature]
<1>1. laid.temperature \in Int
  BY DEF SamplingDefaults
<1>2. CASE laid.temperature <= 0
  BY <1>2 DEF ResolveSampling, One, SamplingDefaults
<1>3. CASE laid.temperature > 0
  BY <1>1, <1>3 DEF ResolveSampling
<1> QED
  BY <1>1, <1>2, <1>3

-----------------------------------------------------------------------------
\* A cue of srt or vtt names its time exactly: the four fields are in range and
\* read back as the milliseconds they were made of (timestamp, the frontend's
\* audio/mod.rs:253-264).
THEOREM TimestampsReadBack ==
  \A ms \in Nat :
    LET t == Timestamp(ms)
    IN /\ t[1] \in Nat /\ t[2] \in 0..59 /\ t[3] \in 0..59 /\ t[4] \in 0..999
       /\ 3600000 * t[1] + 60000 * t[2] + 1000 * t[3] + t[4] = ms
<1> TAKE ms \in Nat
<1>1. /\ ms \div 3600000 \in Nat /\ (ms \div 60000) % 60 \in 0..59
      /\ (ms \div 1000) % 60 \in 0..59 /\ ms % 1000 \in 0..999
  OBVIOUS
<1>2. 3600000 * (ms \div 3600000) + 60000 * ((ms \div 60000) % 60)
        + 1000 * ((ms \div 1000) % 60) + (ms % 1000) = ms
  OBVIOUS
<1> QED
  BY <1>1, <1>2 DEF Timestamp

-----------------------------------------------------------------------------
(* The operators on sequences. *)

LEMMA Least == ASSUME NEW B, B \subseteq Nat, B # {}
               PROVE  \E k \in B : \A j \in B : k <= j
<1>1. PICK k \in B : \A j \in B : ~(<<j, k>> \in OpToRel(<, Nat))
  BY WFMin, NatLessThanWellFounded
<1> DEFINE R == {ss \in Nat \X Nat : ss[1] < ss[2]}
<1>2. OpToRel(<, Nat) = R
  BY Zenon DEF OpToRel
<1>3. ASSUME NEW j \in B, j < k PROVE FALSE
  <2>1. <<j, k>> \in R
    BY <1>3
  <2> QED
    BY <1>1, <1>2, <2>1
<1> QED
  BY <1>3

\* What Collect gives is the first failure, or all the values.
LEMMA CollectOk == ASSUME NEW r, \A k \in DOMAIN r : r[k].ok
                   PROVE  Collect(r) = Ok([k \in DOMAIN r |-> r[k].value])
  BY DEF Collect

LEMMA CollectFirst == ASSUME NEW r, IsSeq(r), NEW b \in DOMAIN r, ~r[b].ok
                      PROVE  \E k \in DOMAIN r : /\ ~r[k].ok /\ Collect(r) = r[k]
                                                 /\ \A j \in 1..(k - 1) : r[j].ok
<1> DEFINE B == {k \in DOMAIN r : ~r[k].ok}
           First(k) == (k \in DOMAIN r /\ ~r[k].ok)
                       /\ \A j \in 1..(k - 1) : ~(j \in DOMAIN r /\ ~r[j].ok)
<1>1. DOMAIN r = 1..Len(r) /\ Len(r) \in Nat
  BY DEF IsSeq
<1>2. B \subseteq Nat /\ B # {}
  BY <1>1
<1>3. PICK k \in B : \A j \in B : k <= j
  BY <1>2, Least
<1>4. First(k)
  BY <1>1, <1>3
<1>5. First(CHOOSE h \in DOMAIN r : First(h))
  BY <1>4
<1>6. Collect(r) = r[CHOOSE h \in DOMAIN r : First(h)]
  BY DEF Collect
<1> DEFINE c == CHOOSE h \in DOMAIN r : First(h)
<1>7. c \in DOMAIN r /\ ~r[c].ok /\ Collect(r) = r[c]
  BY <1>5, <1>6
<1>8. c \in DOMAIN r /\ \A j \in 1..(c - 1) : ~(j \in DOMAIN r /\ ~r[j].ok)
  BY <1>5
<1> HIDE DEF c
<1>9. \A j \in 1..(c - 1) : r[j].ok
  BY <1>1, <1>8
<1> QED
  BY <1>7, <1>9

LEMMA CollectAll == ASSUME NEW r, IsSeq(r), Collect(r).ok
                    PROVE  /\ \A k \in DOMAIN r : r[k].ok
                           /\ Collect(r).value = [k \in DOMAIN r |-> r[k].value]
<1>1. \A k \in DOMAIN r : r[k].ok
  BY CollectFirst
<1> QED
  BY <1>1, CollectOk DEF Ok

-----------------------------------------------------------------------------
(* What crosses between the two processes comes out as it went in. *)

\* One name of an enum comes back as itself.
LEMMA RoleCrosses == ASSUME NEW r \in {"system", "user", "assistant"}
                     PROVE  FromNumber(RoleNames, ToNumber(RoleNames, r)) = Ok(r)
<1>1. DOMAIN RoleNames = 1..3 /\ \E k \in 1..3 : RoleNames[k] = r
  BY DEF RoleNames
<1>2. ToNumber(RoleNames, r) \in DOMAIN RoleNames /\ RoleNames[ToNumber(RoleNames, r)] = r
  BY <1>1 DEF ToNumber
<1> QED
  BY <1>2 DEF FromNumber

LEMMA OperationCrosses == ASSUME NEW o \in Operations
                          PROVE  FromNumber(OperationNames, ToNumber(OperationNames, o)) = Ok(o)
<1>1. DOMAIN OperationNames = 1..3 /\ \E k \in 1..3 : OperationNames[k] = o
  BY DEF OperationNames, Operations
<1>2. /\ ToNumber(OperationNames, o) \in DOMAIN OperationNames
      /\ OperationNames[ToNumber(OperationNames, o)] = o
  BY <1>1 DEF ToNumber
<1> QED
  BY <1>2 DEF FromNumber

LEMMA StateCrosses == ASSUME NEW s \in {"loading", "ready", "failed", "unavailable"}
                      PROVE  FromNumber(StateNames, ToNumber(StateNames, s)) = Ok(s)
<1>1. DOMAIN StateNames = 1..4 /\ \E k \in 1..4 : StateNames[k] = s
  BY DEF StateNames
<1>2. ToNumber(StateNames, s) \in DOMAIN StateNames /\ StateNames[ToNumber(StateNames, s)] = s
  BY <1>1 DEF ToNumber
<1> QED
  BY <1>2 DEF FromNumber

\* What every element crosses as itself is collected as it was.
LEMMA CollectSame ==
  ASSUME NEW s, NEW n \in Nat, DOMAIN s = 1..n, s = [k \in 1..n |-> s[k]],
         NEW back, DOMAIN back = 1..n, \A k \in 1..n : back[k] = Ok(s[k])
  PROVE  Collect(back) = Ok(s)
<1>1. \A k \in DOMAIN back : back[k].ok
  BY DEF Ok
<1>2. Collect(back) = Ok([k \in DOMAIN back |-> back[k].value])
  BY <1>1, CollectOk
<1>3. [k \in DOMAIN back |-> back[k].value] = s
  <2>1. \A k \in 1..n : back[k].value = s[k]
    BY DEF Ok
  <2> QED
    BY <2>1
<1> QED
  BY <1>2, <1>3

\* What a client of the protocol hands to it: a part of a message, a message
\* and an input.
Part    == [is : {"text", "image"}, value : STRING]
Message == [role : {"system", "user", "assistant"}, parts : Seq(Part)]
GenerateAsked == [messages : Seq(Message), temperature : Option(Int), top_p : Option(Int),
               max_tokens : Option(Nat), reasoning : Option(BOOLEAN)]

LEMMA MessageCrosses == ASSUME NEW m \in Message PROVE MessageFromPb(MessageToPb(m)) = Ok(m)
<1> DEFINE p == MessageToPb(m)
           parts == [k \in DOMAIN p.parts |-> PartFromPb(p.parts[k])]
<1>1. p = [role |-> ToNumber(RoleNames, m.role), parts |-> m.parts]
  BY DEF MessageToPb
<1>2. m = [role |-> m.role, parts |-> m.parts] /\ m.role \in {"system", "user", "assistant"}
      /\ m.parts \in Seq(Part)
  BY DEF Message
<1>3. FromNumber(RoleNames, p.role) = Ok(m.role)
  BY <1>1, <1>2, RoleCrosses
<1>4. DOMAIN m.parts = 1..Len(m.parts) /\ Len(m.parts) \in Nat
      /\ m.parts = [k \in 1..Len(m.parts) |-> m.parts[k]]
  BY <1>2
<1>5. DOMAIN parts = 1..Len(m.parts) /\ \A k \in 1..Len(m.parts) : parts[k] = Ok(m.parts[k])
  <2>1. ASSUME NEW k \in 1..Len(m.parts) PROVE PartFromPb(m.parts[k]) = Ok(m.parts[k])
    <3>1. m.parts[k] \in Part
      BY <1>2
    <3> QED
      BY <3>1 DEF PartFromPb, Part
  <2> QED
    BY <1>1, <1>4, <2>1
<1> HIDE DEF p, parts
<1>6. Collect(parts) = Ok(m.parts)
  BY <1>4, <1>5, CollectSame
<1>7. MessageFromPb(p) = IF FromNumber(RoleNames, p.role).ok
                           THEN IF Collect(parts).ok
                                  THEN Ok([role |-> FromNumber(RoleNames, p.role).value,
                                           parts |-> Collect(parts).value])
                                  ELSE Collect(parts)
                           ELSE FromNumber(RoleNames, p.role)
  BY DEF MessageFromPb, Then, parts
<1>8. MessageFromPb(p) = Ok([role |-> m.role, parts |-> m.parts])
  BY <1>3, <1>6, <1>7 DEF Ok
<1> QED
  BY <1>2, <1>8 DEF p

LEMMA GenerateCrosses == ASSUME NEW g \in GenerateAsked PROVE GenerateFromPb(GenerateToPb(g)) = Ok(g)
<1> DEFINE ms == g.messages
           sent == [k \in DOMAIN ms |-> MessageToPb(ms[k])]
           p == [g EXCEPT !.messages = sent]
           back == [k \in DOMAIN p.messages |-> MessageFromPb(p.messages[k])]
<1>1. ms \in Seq(Message)
      /\ g = [messages |-> ms, temperature |-> g.temperature, top_p |-> g.top_p,
              max_tokens |-> g.max_tokens, reasoning |-> g.reasoning]
  BY DEF GenerateAsked
<1>2. DOMAIN ms = 1..Len(ms) /\ Len(ms) \in Nat /\ ms = [k \in 1..Len(ms) |-> ms[k]]
  BY <1>1
<1>3. GenerateToPb(g) = p
  BY DEF GenerateToPb
<1>4. p.messages = sent
  BY <1>1
<1>5. [p EXCEPT !.messages = ms] = g
  BY <1>1
<1>6. DOMAIN back = 1..Len(ms) /\ \A k \in 1..Len(ms) : back[k] = Ok(ms[k])
  <2>1. \A k \in 1..Len(ms) : MessageFromPb(MessageToPb(ms[k])) = Ok(ms[k])
    BY <1>1, MessageCrosses
  <2> QED
    BY <1>2, <1>4, <2>1
<1>7. GenerateFromPb(p) = IF Collect(back).ok THEN Ok([p EXCEPT !.messages = Collect(back).value])
                                              ELSE Collect(back)
  BY DEF GenerateFromPb, Then
<1> HIDE DEF p, back, ms
<1>8. Collect(back) = Ok(ms)
  BY <1>2, <1>6, CollectSame
<1>9. Collect(back).ok /\ Collect(back).value = ms
  BY <1>8 DEF Ok
<1> QED
  BY <1>3, <1>5, <1>7, <1>9

\* What a client asks for is what the daemon decodes, message by message and
\* part by part, but for the audio of a transcribe input, which follows in
\* messages of its own (convert.rs:144-275).
THEOREM InputsCross ==
  ASSUME NEW g \in GenerateAsked, NEW texts, NEW language, NEW audio
  PROVE  /\ DecodedInput(InputToPb(Oneof("generate", g))) = Ok(Oneof("generate", g))
         /\ LET embed == Oneof("embed", texts)
            IN DecodedInput(InputToPb(embed)) = Ok(embed)
         /\ LET spoken(a) == Oneof("transcribe", [language |-> language, audio |-> a])
            IN DecodedInput(InputToPb(spoken(audio))) = Ok(spoken(FALSE))
<1>1. DecodedInput(InputToPb(Oneof("generate", g))) = Ok(Oneof("generate", g))
  <2> DEFINE p == GenerateToPb(g)
  <2>1. InputToPb(Oneof("generate", g)) = Oneof("generate", p)
    BY DEF InputToPb, Oneof
  <2>2. DecodedInput(Oneof("generate", p)) = IF GenerateFromPb(p).ok
                                               THEN Ok(Oneof("generate", GenerateFromPb(p).value))
                                               ELSE GenerateFromPb(p)
    BY DEF DecodedInput, Oneof, Then
  <2>3. GenerateFromPb(p) = Ok(g)
    BY GenerateCrosses
  <2> HIDE DEF p
  <2> QED
    BY <2>1, <2>2, <2>3 DEF Ok
<1>2. DecodedInput(InputToPb(Oneof("embed", texts))) = Ok(Oneof("embed", texts))
  BY DEF DecodedInput, InputToPb, Oneof
<1>3. DecodedInput(InputToPb(Oneof("transcribe", [language |-> language, audio |-> audio])))
        = Ok(Oneof("transcribe", [language |-> language, audio |-> FALSE]))
  <2>1. InputToPb(Oneof("transcribe", [language |-> language, audio |-> audio]))
          = Oneof("transcribe", [language |-> language, audio |-> FALSE])
    BY DEF InputToPb, Oneof
  <2>2. DecodedInput(Oneof("transcribe", [language |-> language, audio |-> FALSE]))
          = Ok(Oneof("transcribe", [language |-> language, audio |-> FALSE]))
    BY DEF DecodedInput, Oneof
  <2> QED
    BY <2>1, <2>2
<1> QED
  BY <1>1, <1>2, <1>3

\* The output of a run reaches the frontend as the daemon made it, with its
\* finish reason (convert.rs:279-331).
THEOREM OutputsCross ==
  ASSUME NEW text, NEW reasoning, NEW f \in Finishes, NEW usage,
         NEW kind \in {"embedding", "transcript"}, NEW v
  PROVE  /\ LET made == Oneof("generated", [text |-> text, reasoning |-> reasoning,
                                            finish |-> f, usage |-> usage])
            IN OutputFromPb(OutputToPb(made)) = Ok(made)
         /\ OutputFromPb(OutputToPb(Oneof(kind, v))) = Ok(Oneof(kind, v))
<1> DEFINE made(x) == [text |-> text, reasoning |-> reasoning, finish |-> x, usage |-> usage]
           o == Oneof("generated", made(FinishToPb(f)))
<1>1. OutputToPb(Oneof("generated", made(f))) = o
  BY DEF OutputToPb, Oneof
<1>2. o.is = "generated" /\ o.value = made(FinishToPb(f)) /\ o.value.finish = FinishToPb(f)
  BY DEF Oneof
<1>3. [o.value EXCEPT !.finish = f] = made(f)
  BY <1>2
<1> HIDE DEF o
<1>4. OutputFromPb(o) = IF FromNumber(FinishNames, o.value.finish).ok
                          THEN Ok(Oneof("generated",
                                        [o.value EXCEPT !.finish =
                                           FromNumber(FinishNames, o.value.finish).value]))
                          ELSE FromNumber(FinishNames, o.value.finish)
  BY <1>2 DEF OutputFromPb, Then
<1>5. OutputFromPb(o) = Ok(Oneof("generated", [o.value EXCEPT !.finish = f]))
  <2>1. FromNumber(FinishNames, o.value.finish) = Ok(f)
    BY <1>2, FinishCrosses
  <2>2. Ok(f).ok /\ Ok(f).value = f
    BY DEF Ok
  <2> QED
    BY <1>4, <2>1, <2>2
<1>6. OutputFromPb(OutputToPb(Oneof(kind, v))) = Ok(Oneof(kind, v))
  BY DEF OutputFromPb, OutputToPb, Oneof
<1> QED
  BY <1>1, <1>3, <1>5, <1>6

LEMMA Replaced ==
  ASSUME NEW id, NEW ops, NEW s, NEW ops2, NEW s2
  PROVE  [[id |-> id, operations |-> ops, state |-> s] EXCEPT !.state = s2, !.operations = ops2]
           = [id |-> id, operations |-> ops2, state |-> s2]
<1> DEFINE m == [id |-> id, operations |-> ops, state |-> s]
           n == [m EXCEPT !.state = s2, !.operations = ops2]
<1>1. DOMAIN m = {"id", "operations", "state"} /\ m.id = id
  OBVIOUS
<1>2. m = [x \in {"id", "operations", "state"} |-> m[x]]
  OBVIOUS
<1> HIDE DEF m
<1>3. n.id = id /\ n.operations = ops2 /\ n.state = s2
  BY <1>1
<1>4. n = [x \in {"id", "operations", "state"} |-> n[x]]
  BY <1>1, <1>2
<1> HIDE DEF n
<1>5. n = [id |-> id, operations |-> ops2, state |-> s2]
  BY <1>3, <1>4
<1> QED
  BY <1>5 DEF n, m

\* What the daemon lists of a model is what the frontend reads, whatever it is
\* loaded for and however far it is (convert.rs:369-425).
THEOREM ModelsCross ==
  ASSUME NEW id, NEW ops \in Seq(Operations), NEW s \in {"loading", "ready", "failed", "unavailable"}
  PROVE  LET listed == [id |-> id, operations |-> ops, state |-> s]
         IN ModelFromPb(ModelToPb(listed)) = Ok(listed)
<1> DEFINE listed == [id |-> id, operations |-> ops, state |-> s]
           sent == [k \in DOMAIN ops |-> ToNumber(OperationNames, ops[k])]
           p == [id |-> id, operations |-> sent, state |-> ToNumber(StateNames, s)]
           back == [k \in DOMAIN p.operations |-> FromNumber(OperationNames, p.operations[k])]
<1>1. ModelToPb(listed) = p
  <2>1. ModelToPb(listed) = [listed EXCEPT !.state = ToNumber(StateNames, s), !.operations = sent]
    BY DEF ModelToPb
  <2> QED
    BY <2>1, Replaced
<1>2. DOMAIN ops = 1..Len(ops) /\ Len(ops) \in Nat /\ ops = [k \in 1..Len(ops) |-> ops[k]]
  OBVIOUS
<1>3. DOMAIN back = 1..Len(ops) /\ \A k \in 1..Len(ops) : back[k] = Ok(ops[k])
  <2>1. \A k \in 1..Len(ops) : FromNumber(OperationNames, ToNumber(OperationNames, ops[k])) = Ok(ops[k])
    BY OperationCrosses
  <2> QED
    BY <1>2, <2>1
<1>4. [p EXCEPT !.state = s, !.operations = ops] = listed
  <2> DEFINE n == [p EXCEPT !.state = s, !.operations = ops]
  <2>1. p = [x \in {"id", "operations", "state"} |-> p[x]] /\ p.id = id
    OBVIOUS
  <2> HIDE DEF p
  <2>2. n.id = id /\ n.operations = ops /\ n.state = s
    BY <2>1
  <2>3. n = [x \in {"id", "operations", "state"} |-> n[x]]
    BY <2>1
  <2> HIDE DEF n
  <2>4. n = [id |-> id, operations |-> ops, state |-> s]
    BY <2>2, <2>3
  <2> QED
    BY <2>4 DEF n
<1>5. p.state = ToNumber(StateNames, s)
  OBVIOUS
<1>6. ModelFromPb(p) = IF FromNumber(StateNames, p.state).ok
                         THEN IF Collect(back).ok
                                THEN Ok([p EXCEPT !.state = FromNumber(StateNames, p.state).value,
                                                  !.operations = Collect(back).value])
                                ELSE Collect(back)
                         ELSE FromNumber(StateNames, p.state)
  BY DEF ModelFromPb, Then
<1> HIDE DEF p, back
<1>7. Collect(back) = Ok(ops)
  BY <1>2, <1>3, CollectSame
<1>8. FromNumber(StateNames, p.state).ok /\ FromNumber(StateNames, p.state).value = s
  BY <1>5, StateCrosses DEF Ok
<1>9. ModelFromPb(p) = Ok([p EXCEPT !.state = s, !.operations = ops])
  BY <1>6, <1>7, <1>8 DEF Ok
<1> QED
  BY <1>1, <1>4, <1>9

-----------------------------------------------------------------------------
(* The places an iterator's filter keeps. *)

\* How many of I are no greater than k, and the j-th of I.
Rank(I, k) == Cardinality({h \in I : h <= k})
Nth(I, j) == CHOOSE k \in I : Rank(I, k) = j

\* Every member of a finite I has its rank, and every rank its member.
LEMMA RankCounts ==
  ASSUME NEW I, I \subseteq Nat, IsFiniteSet(I)
  PROVE  /\ Cardinality(I) \in Nat
         /\ \A k \in I : Rank(I, k) \in 1..Cardinality(I)
         /\ \A h, k \in I : Rank(I, h) = Rank(I, k) => h = k
         /\ \A j \in 1..Cardinality(I) : \E k \in I : Rank(I, k) = j
<1> DEFINE Upto(k) == {h \in I : h <= k}
           rank == [k \in I |-> Cardinality(Upto(k))]
           n == Cardinality(I)
<1>0. \A k \in I : rank[k] = Rank(I, k)
  BY DEF Rank
<1>1. n \in Nat
  BY FS_CardinalityType
<1>2. \A k \in I : IsFiniteSet(Upto(k)) /\ Cardinality(Upto(k)) \in 1..n
  <2> SUFFICES ASSUME NEW k \in I
               PROVE  IsFiniteSet(Upto(k)) /\ Cardinality(Upto(k)) \in 1..n
    OBVIOUS
  <2>1. IsFiniteSet(Upto(k)) /\ Cardinality(Upto(k)) <= n /\ Cardinality(Upto(k)) \in Nat
    BY FS_Subset, FS_CardinalityType
  <2>2. k \in Upto(k)
    OBVIOUS
  <2>3. Cardinality(Upto(k)) # 0
    BY <2>1, <2>2, FS_EmptySet
  <2> QED
    BY <1>1, <2>1, <2>3
<1>3. \A h, k \in I : h < k => rank[h] < rank[k]
  <2> SUFFICES ASSUME NEW h \in I, NEW k \in I, h < k PROVE rank[h] < rank[k]
    OBVIOUS
  <2>0. h \in Nat /\ k \in Nat /\ \A x \in I : x \in Nat
    OBVIOUS
  <2>1. Upto(h) \subseteq Upto(k) /\ k \in Upto(k) /\ k \notin Upto(h)
    <3>1. \A x \in I : x <= h => x <= k
      BY <2>0
    <3>2. k <= k /\ ~(k <= h)
      BY <2>0
    <3> QED
      BY <3>1, <3>2
  <2>2. Cardinality(Upto(h)) <= Cardinality(Upto(k)) /\ Cardinality(Upto(h)) # Cardinality(Upto(k))
    BY <1>2, <2>1, FS_Subset
  <2> QED
    BY <1>2, <2>2
<1>4. rank \in [I -> 1..n]
  BY <1>2
<1>5. \A h, k \in I : rank[h] \in Nat /\ (rank[h] = rank[k] => h = k)
  <2>1. \A h, k \in I : h \in Nat /\ k \in Nat /\ rank[h] \in Nat
    BY <1>1, <1>4
  <2> HIDE DEF rank
  <2>2. \A h, k \in I : h = k \/ h < k \/ k < h
    BY <2>1
  <2> QED
    BY <1>3, <2>1, <2>2
<1> HIDE DEF rank
<1>6. rank \in Injection(I, 1..n)
  BY <1>4, <1>5 DEF Injection, IsInjective
<1>7. IsFiniteSet(1..n) /\ Cardinality(1..n) = n
  BY <1>1, FS_Interval
<1>8. rank \in Surjection(I, 1..n)
  BY <1>6, <1>7, FS_Injection
<1>9. \A j \in 1..n : \E k \in I : rank[k] = j
  BY <1>8 DEF Surjection
<1> QED
  BY <1>0, <1>1, <1>4, <1>5, <1>9

\* What Selected reads, in the order of the places.
LEMMA SelectedAt ==
  ASSUME NEW s, NEW I, I \subseteq Nat, IsFiniteSet(I)
  PROVE  /\ Cardinality(I) \in Nat
         /\ Selected(s, I) = [j \in 1..Cardinality(I) |-> s[Nth(I, j)]]
         /\ \A j \in 1..Cardinality(I) : Nth(I, j) \in I /\ Rank(I, Nth(I, j)) = j
<1>1. \A j \in 1..Cardinality(I) : Nth(I, j) \in I /\ Rank(I, Nth(I, j)) = j
  BY RankCounts DEF Nth
<1>2. Selected(s, I) = [j \in 1..Cardinality(I) |-> s[Nth(I, j)]]
  BY DEF Selected, Nth, Rank
<1> QED
  BY <1>1, <1>2, RankCounts

\* What Selected holds was selected.
LEMMA SelectedFrom == ASSUME NEW s, NEW I, I \subseteq Nat, IsFiniteSet(I)
                      PROVE  /\ Cardinality(I) \in Nat
                             /\ DOMAIN Selected(s, I) = 1..Cardinality(I)
                             /\ \A j \in DOMAIN Selected(s, I) :
                                  Selected(s, I)[j] \in {s[k] : k \in I}
<1>1. Selected(s, I) = [j \in 1..Cardinality(I) |-> s[Nth(I, j)]]
  BY SelectedAt
<1>2. \A j \in 1..Cardinality(I) : Nth(I, j) \in I
  BY SelectedAt
<1> QED
  BY <1>1, <1>2, RankCounts

\* A later place comes last and moves no other.
LEMMA NthLater ==
  ASSUME NEW n \in Nat, NEW I, I \subseteq 1..n
  PROVE  LET J == I \union {n + 1}
         IN /\ IsFiniteSet(I) /\ IsFiniteSet(J) /\ I \subseteq Nat /\ J \subseteq Nat
            /\ Cardinality(J) = Cardinality(I) + 1
            /\ Nth(J, Cardinality(I) + 1) = n + 1
            /\ \A j \in 1..Cardinality(I) : Nth(J, j) = Nth(I, j)
<1> DEFINE J == I \union {n + 1}
           c == Cardinality(I)
<1>1. I \subseteq Nat /\ J \subseteq Nat /\ n + 1 \notin I /\ \A h \in I : h <= n /\ h <= n + 1
  OBVIOUS
<1>2. IsFiniteSet(I) /\ IsFiniteSet(J) /\ c \in Nat /\ Cardinality(J) = c + 1
  <2>1. IsFiniteSet(1..n)
    BY FS_Interval
  <2>2. IsFiniteSet(I) /\ c \in Nat
    BY <2>1, FS_Subset, FS_CardinalityType
  <2> QED
    BY <1>1, <2>2, FS_AddElement
<1>3. Rank(J, n + 1) = c + 1
  <2>1. \A h \in J : h <= n + 1
    BY <1>1
  <2> HIDE DEF J, c
  <2> QED
    <3>1. {h \in J : h <= n + 1} = J
      BY <2>1
    <3> QED
      BY <1>2, <3>1 DEF Rank
<1>4. \A k \in I : Rank(J, k) = Rank(I, k)
  <2> SUFFICES ASSUME NEW k \in I PROVE Rank(J, k) = Rank(I, k)
    OBVIOUS
  <2>1. {h \in J : h <= k} = {h \in I : h <= k}
    BY <1>1
  <2> QED
    BY <2>1 DEF Rank
<1>5. \A h, k \in J : Rank(J, h) = Rank(J, k) => h = k
  <2> HIDE DEF J
  <2> QED
    BY <1>1, <1>2, RankCounts
<1>6. \A j \in 1..(c + 1) : Nth(J, j) \in J /\ Rank(J, Nth(J, j)) = j
  <2> HIDE DEF J, c
  <2> QED
    BY <1>1, <1>2, SelectedAt
<1>7. \A j \in 1..c : Nth(I, j) \in I /\ Rank(I, Nth(I, j)) = j
  BY <1>1, <1>2, SelectedAt
<1>8. n + 1 \in J /\ I \subseteq J
  OBVIOUS
<1> HIDE DEF J, c
<1>9. Nth(J, c + 1) = n + 1
  <2>1. c + 1 \in 1..(c + 1)
    BY <1>2
  <2>2. Nth(J, c + 1) \in J /\ Rank(J, Nth(J, c + 1)) = c + 1
    BY <1>6, <2>1
  <2> QED
    BY <1>3, <1>5, <1>8, <2>2
<1>10. ASSUME NEW j \in 1..c PROVE Nth(J, j) = Nth(I, j)
  <2>1. Rank(J, Nth(I, j)) = j /\ Nth(I, j) \in J
    BY <1>4, <1>7, <1>8
  <2>2. j \in 1..(c + 1)
    BY <1>2
  <2>3. Nth(J, j) \in J /\ Rank(J, Nth(J, j)) = j
    BY <1>6, <2>2
  <2> QED
    BY <1>5, <2>1, <2>3
<1> QED
  BY <1>1, <1>2, <1>9, <1>10 DEF J, c

-----------------------------------------------------------------------------
(* What the daemon is sent, and what it makes of it. *)

Refusal == Err("InvalidInput")

LEMMA RefusalFails == Refusal.ok = FALSE
  BY DEF Refusal, Err

LEMMA NumberDecoded == ASSUME NEW names, NEW n
                       PROVE  \/ FromNumber(names, n).ok = TRUE
                              \/ FromNumber(names, n) = Refusal
  BY DEF FromNumber, Ok, Refusal

\* A list is refused as its elements are.
LEMMA ListDecoded == ASSUME NEW r, IsSeq(r), \A k \in DOMAIN r : r[k].ok \/ r[k] = Refusal
                     PROVE  \/ Collect(r) = Ok([k \in DOMAIN r |-> r[k].value])
                            \/ Collect(r) = Refusal
<1>1. CASE \A k \in DOMAIN r : r[k].ok
  BY <1>1, CollectOk
<1>2. CASE \E k \in DOMAIN r : ~r[k].ok
  BY <1>2, CollectFirst
<1> QED
  BY <1>1, <1>2

LEMMA IsSeqMap == ASSUME NEW n \in Nat, NEW s, DOMAIN s = 1..n, s = [k \in 1..n |-> s[k]]
                  PROVE  IsSeq(s) /\ Len(s) = n
<1>1. s \in Seq({s[k] : k \in 1..n})
  BY SMT
<1> QED
  BY <1>1 DEF IsSeq

LEMMA MessageDecoded == ASSUME NEW m \in PbMessage
                        PROVE  MessageFromPb(m).ok \/ MessageFromPb(m) = Refusal
<1> DEFINE parts == [k \in DOMAIN m.parts |-> PartFromPb(m.parts[k])]
<1>1. m.parts \in Seq(PbPart)
  BY DEF PbMessage
<1>2. IsSeq(parts)
  BY <1>1, IsSeqMap
<1>3. \A k \in DOMAIN parts : parts[k].ok \/ parts[k] = Refusal
  BY DEF PartFromPb, Ok, Refusal
<1>4. Collect(parts).ok \/ Collect(parts) = Refusal
  BY <1>2, <1>3, ListDecoded DEF Ok
<1> HIDE DEF parts
<1>5. \/ FromNumber(RoleNames, m.role).ok = TRUE
      \/ FromNumber(RoleNames, m.role) = Refusal
  BY NumberDecoded
<1>6. MessageFromPb(m) = IF FromNumber(RoleNames, m.role).ok
                           THEN IF Collect(parts).ok
                                  THEN Ok([role |-> FromNumber(RoleNames, m.role).value,
                                           parts |-> Collect(parts).value])
                                  ELSE Collect(parts)
                           ELSE FromNumber(RoleNames, m.role)
  BY DEF MessageFromPb, Then, parts
<1> QED
  BY <1>4, <1>5, <1>6 DEF Ok

\* Decoding keeps what the daemon computes with, or refuses the input.
LEMMA InputDecoded ==
  ASSUME NEW i, i.is = "generate" => i.value \in PbGenerateInput
  PROVE  \/ DecodedInput(i) = Refusal
         \/ /\ DecodedInput(i).ok
            /\ DecodedInput(i).value.is = i.is
            /\ i.is = "generate" =>
                 /\ DecodedInput(i).value.value.temperature = i.value.temperature
                 /\ DecodedInput(i).value.value.top_p = i.value.top_p
                 /\ DecodedInput(i).value.value.max_tokens = i.value.max_tokens
<1>1. CASE i.is = "none"
  BY <1>1 DEF DecodedInput, Refusal
<1>2. CASE i.is \notin {"none", "generate"}
  BY <1>2 DEF DecodedInput, Ok
<1>3. CASE i.is = "generate"
  <2> DEFINE g == i.value
             messages == [k \in DOMAIN g.messages |-> MessageFromPb(g.messages[k])]
  <2>1. g \in PbGenerateInput
    BY <1>3
  <2>2. g.messages \in Seq(PbMessage)
    BY <2>1 DEF PbGenerateInput
  <2>3. IsSeq(messages)
    BY <2>2, IsSeqMap
  <2>4. \A k \in DOMAIN messages : messages[k].ok \/ messages[k] = Refusal
    BY <2>2, MessageDecoded
  <2>5. Collect(messages).ok \/ Collect(messages) = Refusal
    BY <2>3, <2>4, ListDecoded DEF Ok
  <2>6. GenerateFromPb(g) = IF Collect(messages).ok
                              THEN Ok([g EXCEPT !.messages = Collect(messages).value])
                              ELSE Collect(messages)
    BY DEF GenerateFromPb, Then
  <2> HIDE DEF messages
  <2> DEFINE d == [g EXCEPT !.messages = Collect(messages).value]
  <2>7. d.temperature = g.temperature /\ d.top_p = g.top_p /\ d.max_tokens = g.max_tokens
    BY <2>1 DEF PbGenerateInput
  <2>8. GenerateFromPb(g) = Ok(d) \/ GenerateFromPb(g) = Refusal
    BY <2>5, <2>6, RefusalFails
  <2> HIDE DEF d
  <2>9. DecodedInput(i) = IF GenerateFromPb(g).ok
                            THEN Ok(Oneof("generate", GenerateFromPb(g).value))
                            ELSE GenerateFromPb(g)
    BY <1>3 DEF DecodedInput, Then
  <2>10. CASE GenerateFromPb(g) = Refusal
    BY <2>9, <2>10, RefusalFails
  <2>11. CASE GenerateFromPb(g) = Ok(d)
    <3>1. DecodedInput(i) = Ok(Oneof("generate", d))
      BY <2>9, <2>11 DEF Ok
    <3> QED
      BY <1>3, <2>7, <3>1 DEF Ok, Oneof
  <2> QED
    BY <2>8, <2>10, <2>11
<1> QED
  BY <1>1, <1>2, <1>3

LEMMA MessageSent ==
  ASSUME NEW role, NEW content, NEW param, ContentOk(content), ToMessage(role, content, param).ok
  PROVE  MessageToPb(ToMessage(role, content, param).value) \in PbMessage
<1> DEFINE m == ToMessage(role, content, param)
<1>1. RoleOf(role) # None /\ PartsOf(content).ok
      /\ m.value = [role |-> RoleOf(role), parts |-> PartsOf(content).value]
  BY DEF ToMessage, Refused, Parsed
<1>2. RoleOf(role) \in {"system", "user", "assistant"}
  BY <1>1 DEF RoleOf
<1>3. ToNumber(RoleNames, RoleOf(role)) \in 1..3
  <2>1. DOMAIN RoleNames = 1..3 /\ \E k \in 1..3 : RoleNames[k] = RoleOf(role)
    BY <1>2 DEF RoleNames
  <2> QED
    BY <2>1 DEF ToNumber
<1>4. PartsOf(content).value \in Seq(PbPart)
  <2>1. CASE content.is = "none"
    <3>1. PartsOf(content) = Parsed(<<>>)
      BY <2>1 DEF PartsOf
    <3> QED
      BY <3>1 DEF Parsed
  <2>2. CASE content.is = "text"
    <3>1. content.value \in STRING
      BY <2>2 DEF ContentOk
    <3>2. Oneof("text", content.value) \in PbPart
      BY <3>1 DEF PbPart, Oneof
    <3>3. PartsOf(content).value = <<Oneof("text", content.value)>>
      BY <2>2 DEF PartsOf, Parsed
    <3> QED
      BY <3>2, <3>3
  <2>3. CASE content.is = "parts"
    <3> DEFINE S == [kind : STRING, text : Option(STRING)]
    <3>1. content.value \in Seq(S)
      BY <2>3 DEF ContentOk
    <3> HIDE DEF S
    <3>2. PartsOf(content) = IF \A k \in DOMAIN content.value :
                                  content.value[k].kind \in TextParts /\ content.value[k].text # None
                               THEN Parsed([k \in DOMAIN content.value |->
                                              Oneof("text", content.value[k].text)])
                               ELSE Refused(None)
      BY <2>3 DEF PartsOf
    <3>3. /\ \A k \in DOMAIN content.value : content.value[k].text # None
          /\ PartsOf(content).value = [k \in DOMAIN content.value |->
                                         Oneof("text", content.value[k].text)]
      BY <1>1, <3>2 DEF Refused, Parsed
    <3>4. \A k \in DOMAIN content.value : content.value[k].text \in STRING
      <4>1. \A k \in DOMAIN content.value : content.value[k] \in S
        BY <3>1
      <4>2. \A k \in DOMAIN content.value : content.value[k].text \in Option(STRING)
        BY <4>1 DEF S
      <4> QED
        BY <3>3, <4>2 DEF Option
    <3>5. \A k \in DOMAIN content.value : Oneof("text", content.value[k].text) \in PbPart
      BY <3>4 DEF PbPart, Oneof
    <3>6. DOMAIN content.value = 1..Len(content.value) /\ Len(content.value) \in Nat
      BY <3>1
    <3> QED
      BY <3>3, <3>5, <3>6
  <2> QED
    BY <2>1, <2>2, <2>3 DEF ContentOk
<1> QED
  BY <1>1, <1>3, <1>4 DEF MessageToPb, PbMessage

\* A list of messages that was collected, on the wire.
LEMMA MessagesSent ==
  ASSUME NEW r, IsSeq(r), \A k \in DOMAIN r : r[k].ok => MessageToPb(r[k].value) \in PbMessage,
         Collect(r).ok
  PROVE  /\ DOMAIN Collect(r).value = 1..Len(r)
         /\ \A k \in 1..Len(r) : MessageToPb(Collect(r).value[k]) \in PbMessage
<1>1. DOMAIN r = 1..Len(r)
  BY DEF IsSeq
<1>2. (\A k \in DOMAIN r : r[k].ok) /\ Collect(r).value = [k \in DOMAIN r |-> r[k].value]
  BY CollectAll
<1> QED
  BY <1>1, <1>2

\* Any GenerateInput of such messages is one on the wire.
LEMMA InputSent ==
  ASSUME NEW n \in Nat, NEW ms, DOMAIN ms = 1..n, \A k \in 1..n : MessageToPb(ms[k]) \in PbMessage,
         NEW r, r.temperature \in Option(Int), r.top_p \in Option(Int),
         NEW budget \in Option(Nat), NEW reasoning \in Option(BOOLEAN)
  PROVE  GenerateToPb(GenerateInput(ms, r, budget, reasoning)) \in PbGenerateInput
<1> DEFINE g == GenerateInput(ms, r, budget, reasoning)
           sent == [k \in DOMAIN g.messages |-> MessageToPb(g.messages[k])]
<1>1. g = [messages |-> ms, temperature |-> r.temperature, top_p |-> r.top_p,
           max_tokens |-> budget, reasoning |-> reasoning]
  BY DEF GenerateInput
<1>2. sent = [k \in 1..n |-> MessageToPb(ms[k])]
  BY <1>1
<1>3. sent \in Seq(PbMessage)
  BY <1>2
<1> HIDE DEF sent
<1>4. GenerateToPb(g) = [messages |-> sent, temperature |-> r.temperature, top_p |-> r.top_p,
                         max_tokens |-> budget, reasoning |-> reasoning]
  BY <1>1 DEF GenerateToPb, sent
<1> QED
  BY <1>3, <1>4 DEF PbGenerateInput

LEMMA EffortType == ASSUME NEW effort PROVE Effort(effort) \in Option(BOOLEAN)
  BY Zenon DEF Effort, Option

LEMMA ChatSent == ASSUME NEW r, ChatRequestOk(r), ChatInput(r).ok
                  PROVE  GenerateToPb(ChatInput(r).value) \in PbGenerateInput
<1> DEFINE parsed == [k \in DOMAIN r.messages |->
                        ToMessage(r.messages[k].role, r.messages[k].content, "messages")]
<1>1. IsSeq(r.messages) /\ \A k \in DOMAIN r.messages : ContentOk(r.messages[k].content)
  BY DEF ChatRequestOk, IsSeq
<1>2. IsSeq(parsed)
  BY <1>1, IsSeqMap DEF IsSeq
<1>3. \A k \in DOMAIN parsed : parsed[k].ok => MessageToPb(parsed[k].value) \in PbMessage
  BY <1>1, MessageSent
<1> HIDE DEF parsed
<1>4. /\ Collect(parsed).ok
      /\ ChatInput(r).value = GenerateInput(Collect(parsed).value, r, ChatBudget(r), ChatReasoning(r))
  BY DEF ChatInput, Refused, Parsed, parsed
<1>5. /\ Len(parsed) \in Nat /\ DOMAIN Collect(parsed).value = 1..Len(parsed)
      /\ \A k \in 1..Len(parsed) : MessageToPb(Collect(parsed).value[k]) \in PbMessage
  BY <1>2, <1>3, <1>4, MessagesSent DEF IsSeq
<1>6. ChatBudget(r) \in Option(Nat)
  BY DEF ChatBudget, ChatRequestOk
<1>7. ChatReasoning(r) \in Option(BOOLEAN)
  BY EffortType DEF ChatReasoning, ChatRequestOk
<1> QED
  BY <1>4, <1>5, <1>6, <1>7, InputSent DEF ChatRequestOk

LEMMA ItemSent == ASSUME NEW item, ContentOk(item.content), ItemMessage(item).ok
                  PROVE  MessageToPb(ItemMessage(item).value) \in PbMessage
  BY MessageSent DEF ItemMessage, Refused

\* The items a Responses request is read as.
LEMMA ItemsRead == ASSUME NEW r, ResponsesRequestOk(r)
                   PROVE  \E n \in Nat : /\ DOMAIN InputItems(r) = 1..n
                                         /\ \A k \in 1..n : ContentOk(InputItems(r)[k].content)
<1> DEFINE items == InputItems(r)
<1>1. CASE r.input.is = "text"
  <2>1. ContentOk(r.input)
    BY <1>1 DEF ResponsesRequestOk, ContentOk
  <2>2. items = <<[kind |-> None, role |-> "user", content |-> r.input]>>
    BY <1>1 DEF InputItems
  <2>3. DOMAIN items = 1..1 /\ items[1].content = r.input
    BY <2>2
  <2> HIDE DEF items
  <2>4. \A k \in 1..1 : ContentOk(items[k].content)
    <3>1. \A k \in 1..1 : k = 1
      OBVIOUS
    <3> QED
      BY <2>1, <2>3, <3>1
  <2>5. 1 \in Nat
    OBVIOUS
  <2> QED
    BY <2>3, <2>4, <2>5 DEF items
<1>2. CASE r.input.is # "text"
  <2> DEFINE all == r.input.value
             I == {k \in DOMAIN all : all[k].kind # "reasoning"}
  <2>1. /\ Len(all) \in Nat /\ DOMAIN all = 1..Len(all)
        /\ \A k \in DOMAIN all : ContentOk(all[k].content)
    BY <1>2 DEF ResponsesRequestOk, IsSeq
  <2>2. IsFiniteSet(I) /\ I \subseteq Nat
    <3>1. IsFiniteSet(DOMAIN all)
      BY <2>1, FS_Interval
    <3>2. I \in SUBSET (DOMAIN all) /\ DOMAIN all \subseteq Nat
      BY <2>1
    <3> QED
      BY <3>1, <3>2, FS_Subset
  <2>3. items = Selected(all, I)
    BY <1>2 DEF InputItems, Carried
  <2>4. \A k \in I : ContentOk(all[k].content)
    BY <2>1
  <2> HIDE DEF I, items, all
  <2>5. Cardinality(I) \in Nat /\ DOMAIN Selected(all, I) = 1..Cardinality(I)
        /\ \A j \in DOMAIN Selected(all, I) : \E k \in I : Selected(all, I)[j] = all[k]
    BY <2>2, SelectedFrom
  <2>6. \A j \in 1..Cardinality(I) : ContentOk(items[j].content)
    BY <2>3, <2>4, <2>5 DEF items
  <2> QED
    BY <2>3, <2>5, <2>6 DEF items
<1> QED
  BY <1>1, <1>2

LEMMA ResponsesSent == ASSUME NEW r, ResponsesRequestOk(r), ResponsesInput(r).ok
                       PROVE  GenerateToPb(ResponsesInput(r).value) \in PbGenerateInput
<1> DEFINE items == InputItems(r)
           parsed == [k \in DOMAIN items |-> ItemMessage(items[k])]
           turns == Collect(parsed)
           messages == ResponsesMessages(r, turns.value)
<1>2. PICK n \in Nat : DOMAIN items = 1..n /\ \A k \in 1..n : ContentOk(items[k].content)
  BY ItemsRead
<1> HIDE DEF items
<1>3. IsSeq(parsed)
  BY <1>2, IsSeqMap
<1>4. \A k \in DOMAIN parsed : parsed[k].ok => MessageToPb(parsed[k].value) \in PbMessage
  BY <1>2, ItemSent
<1> HIDE DEF parsed
<1>5. /\ turns.ok
      /\ ResponsesInput(r).value = GenerateInput(messages, r, r.max_output_tokens, Effort(r.effort))
  BY DEF ResponsesInput, Refused, Parsed, parsed, items
<1>6. /\ Len(parsed) \in Nat /\ DOMAIN turns.value = 1..Len(parsed)
      /\ turns.value = [k \in 1..Len(parsed) |-> turns.value[k]]
      /\ \A k \in 1..Len(parsed) : MessageToPb(turns.value[k]) \in PbMessage
  BY <1>3, <1>4, <1>5, MessagesSent, CollectAll DEF IsSeq
<1> HIDE DEF turns
<1>7. \E h \in Nat : DOMAIN messages = 1..h /\ \A k \in 1..h : MessageToPb(messages[k]) \in PbMessage
  <2> DEFINE S == {m \in {turns.value[k] : k \in 1..Len(parsed)} : TRUE}
  <2>1. turns.value \in Seq({turns.value[k] : k \in 1..Len(parsed)})
    BY <1>6
  <2>2. CASE r.instructions = None
    <3>1. messages = turns.value
      BY <2>1, <2>2 DEF ResponsesMessages
    <3> QED
      BY <1>6, <3>1
  <2>3. CASE r.instructions # None
    <3> DEFINE first == [role |-> "system", parts |-> <<Oneof("text", r.instructions)>>]
    <3>1. r.instructions \in STRING
      BY <2>3 DEF ResponsesRequestOk, Option
    <3>2. MessageToPb(first) \in PbMessage
      <4>1. ToNumber(RoleNames, "system") \in 1..3
        <5>1. DOMAIN RoleNames = 1..3 /\ RoleNames[1] = "system"
          BY DEF RoleNames
        <5> QED
          BY <5>1 DEF ToNumber
      <4>2. Oneof("text", r.instructions) \in PbPart
        BY <3>1 DEF PbPart, Oneof
      <4>3. <<Oneof("text", r.instructions)>> \in Seq(PbPart)
        BY <4>2
      <4> QED
        BY <4>1, <4>3 DEF MessageToPb, PbMessage
    <3>3. messages = <<first>> \o turns.value
      BY <2>3 DEF ResponsesMessages
    <3> HIDE DEF first, messages
    <3>4. /\ DOMAIN messages = 1..(Len(parsed) + 1)
          /\ messages[1] = first
          /\ \A k \in 2..(Len(parsed) + 1) : messages[k] = turns.value[k - 1]
      BY <1>6, <2>1, <3>3
    <3>5. \A k \in 1..(Len(parsed) + 1) : MessageToPb(messages[k]) \in PbMessage
      <4> SUFFICES ASSUME NEW k \in 1..(Len(parsed) + 1) PROVE MessageToPb(messages[k]) \in PbMessage
        OBVIOUS
      <4>1. k = 1 \/ (k \in 2..(Len(parsed) + 1) /\ k - 1 \in 1..Len(parsed))
        BY <1>6
      <4> QED
        BY <1>6, <3>2, <3>4, <4>1
    <3> QED
      BY <1>6, <3>4, <3>5
  <2> QED
    BY <2>2, <2>3
<1> HIDE DEF messages
<1>8. r.max_output_tokens \in Option(Nat) /\ r.temperature \in Option(Int) /\ r.top_p \in Option(Int)
  BY DEF ResponsesRequestOk
<1> QED
  BY <1>5, <1>7, <1>8, EffortType, InputSent

-----------------------------------------------------------------------------
(* The registry under the calls. *)

LEMMA RegistrySteps == ASSUME [Next]_vars PROVE [RegistryNext]_registryVars
  BY DEF Next, vars, Daemon, CrashUnder, RegistryNext, ProbeTask

\* What RegistryProofs says of the models holds while calls are served, since a
\* call only reads them and a crash leaves their state alone (registry.rs,
\* worker/mod.rs:107-116).
THEOREM RegistryHolds == Spec => []IInv
<1>1. Init => IInv
  BY InitIInv DEF Init
<1>2. IInv /\ [Next]_vars => IInv'
  BY RegistrySteps, NextIInv
<1> QED
  BY <1>1, <1>2, PTL DEF Spec

\* Serving calls is invisible to the models: with all a call reads of them and
\* the crashes it meets, the registry, its loaders and its probe behave as
\* they do by themselves (registry.rs, models.rs, probe.rs).  RegistrySpec
\* adds fairness, which Spec does not state.
THEOREM ServingKeepsRegistry == Spec => RegistryInit /\ [][RegistryNext]_registryVars
<1>1. Init => RegistryInit
  BY DEF Init
<1>2. [Next]_vars => [RegistryNext]_registryVars
  BY RegistrySteps
<1> QED
  BY <1>1, <1>2, PTL DEF Spec

-----------------------------------------------------------------------------
(* What a call has at each of its steps. *)

\* The message of a call, from the frontend or from a foreign client.
Wired ==
  /\ rpc.method \in {"models", "invoke", "invoke_stream"}
  /\ rpc.inputs \in Seq({rpc.inputs[k] : k \in DOMAIN rpc.inputs})
  /\ \A k \in DOMAIN rpc.inputs :
       rpc.inputs[k].is = "generate" => rpc.inputs[k].value \in PbGenerateInput
  /\ Foreign => rpc.method = "invoke"
  /\ call.kind \in {"chat", "responses"} => Operation = "generate" /\ rpc.method # "models"
  /\ call.kind = "transcriptions" => Operation = "transcribe" /\ rpc.method = "invoke_stream"
  /\ call.kind \in {"health", "models"} => rpc.method = "models"
  /\ call.kind # "embeddings"
  /\ Streaming => Len(rpc.inputs) = 1

Served == {"check", "start", "run", "stream"}

Stages ==
  /\ step \in Served \union {"idle", "frontend", "rpc", "answered"}
  /\ step # "idle" => call \in Calls
  /\ step \in {"idle", "frontend"} => rpc = None
  /\ step \in {"idle", "frontend", "rpc"} =>
       checked = <<>> /\ outputs = <<>> /\ script = <<>> /\ ran = <<>> /\ cut = FALSE
  /\ step \in {"idle", "frontend", "rpc", "check", "start", "run"} =>
       handler = None /\ played = <<>>
  /\ step # "answered" => cause = None
  /\ step \in Served => phase = "serving" /\ rpc.method # "models"
  /\ step \in Served \union {"rpc"} \/ checked # <<>> => Wired

LEMMA OperationsNumbered ==
  /\ OperationNames[ToNumber(OperationNames, "generate")] = "generate"
  /\ OperationNames[ToNumber(OperationNames, "transcribe")] = "transcribe"
<1>1. DOMAIN OperationNames = 1..3 /\ OperationNames[1] = "generate" /\ OperationNames[3] = "transcribe"
  BY DEF OperationNames
<1> QED
  BY <1>1 DEF ToNumber

LEMMA SingleInput == ASSUME NEW x, NEW t, t = [k \in DOMAIN <<x>> |-> InputToPb(<<x>>[k])]
                     PROVE  /\ t \in Seq({t[k] : k \in DOMAIN t}) /\ Len(t) = 1
                            /\ DOMAIN t = {1} /\ t[1] = InputToPb(x)
<1>1. DOMAIN <<x>> = 1..1 /\ <<x>>[1] = x
  OBVIOUS
<1>2. t = [k \in 1..1 |-> InputToPb(<<x>>[k])]
  BY <1>1
<1>3. 1..1 = {1} /\ 1 \in Nat
  OBVIOUS
<1>4. IsSeq(t) /\ Len(t) = 1
  BY <1>2, <1>3, IsSeqMap
<1>5. t \in Seq({t[k] : k \in 1..1})
  BY <1>2
<1> QED
  BY <1>1, <1>2, <1>3, <1>4, <1>5

LEMMA GenerationWired == ASSUME Stages, Generation PROVE Reply(answer'[1]) \/ (step' = "rpc" /\ Wired')
<1> DEFINE input == IF call.kind = "chat" THEN ChatInput(call.body) ELSE ResponsesInput(call.body)
           t == [k \in DOMAIN <<Oneof("generate", input.value)>> |->
                   InputToPb(<<Oneof("generate", input.value)>>[k])]
           method == IF call.body.stream THEN "invoke_stream" ELSE "invoke"
<1>1. step = "frontend" /\ call.kind \in {"chat", "responses"}
  BY DEF Generation, Keyed
<1>2. CASE ~input.ok
  BY <1>2 DEF Generation, Reply
<1>3. CASE input.ok
  <2>1. CallOk(call)
    BY <1>1, CallsAssumption DEF Stages
  <2>2. GenerateToPb(input.value) \in PbGenerateInput
    BY <1>1, <1>3, <2>1, ChatSent, ResponsesSent DEF CallOk
  <2>3. Send(method, "generate", call.body.model, <<Oneof("generate", input.value)>>)
    BY <1>3 DEF Generation
  <2>4. /\ rpc' = [method |-> method, version |-> PROTOCOL_VERSION,
                   operation |-> ToNumber(OperationNames, "generate"), model |-> call.body.model,
                   inputs |-> t]
        /\ step' = "rpc" /\ call' = call
    BY <2>3 DEF Send
  <2>5. InputToPb(Oneof("generate", input.value)) = Oneof("generate", GenerateToPb(input.value))
    BY DEF InputToPb, Oneof
  <2>6. /\ t \in Seq({t[k] : k \in DOMAIN t}) /\ Len(t) = 1
        /\ \A k \in DOMAIN t : t[k].is = "generate" => t[k].value \in PbGenerateInput
    <3>1. t \in Seq({t[k] : k \in DOMAIN t}) /\ Len(t) = 1 /\ DOMAIN t = {1}
          /\ t[1] = InputToPb(Oneof("generate", input.value))
      BY SingleInput
    <3> HIDE DEF t
    <3> QED
      BY <2>2, <2>5, <3>1 DEF Oneof
  <2> HIDE DEF t
  <2>7. rpc'.method = method /\ rpc'.inputs = t /\ rpc'.operation = ToNumber(OperationNames, "generate")
    BY <2>4
  <2>8. method \in {"invoke", "invoke_stream"} /\ call'.kind \in {"chat", "responses"}
    BY <1>1, <2>4
  <2> HIDE DEF method
  <2>9. Wired'
    BY <2>6, <2>7, <2>8, OperationsNumbered DEF Wired, Foreign, Operation, Streaming
  <2> QED
    BY <2>4, <2>9
<1> QED
  BY <1>2, <1>3

LEMMA UploadWired == ASSUME Stages, Upload PROVE Reply(answer'[1]) \/ (step' = "rpc" /\ Wired')
<1> DEFINE form == FormInput(call.body)
           sent == [language |-> form.value.language, audio |-> TRUE]
           t == [k \in DOMAIN <<Oneof("transcribe", sent)>> |-> InputToPb(<<Oneof("transcribe", sent)>>[k])]
<1>1. step = "frontend" /\ call.kind = "transcriptions"
  BY DEF Upload, Keyed
<1>2. CASE ~form.ok \/ LastField(call.body, "file", None) = "unreadable"
  BY <1>2 DEF Upload, Reply
<1>3. CASE form.ok /\ ~LastField(call.body, "file", None) = "unreadable"
  <2>1. Send("invoke_stream", "transcribe", form.value.model, <<Oneof("transcribe", sent)>>)
    BY <1>3 DEF Upload
  <2>2. /\ rpc' = [method |-> "invoke_stream", version |-> PROTOCOL_VERSION,
                   operation |-> ToNumber(OperationNames, "transcribe"),
                   model |-> form.value.model, inputs |-> t]
        /\ step' = "rpc" /\ call' = call
    BY <2>1 DEF Send
  <2>3. InputToPb(Oneof("transcribe", sent)).is = "transcribe"
    BY DEF InputToPb, Oneof
  <2>4. t \in Seq({t[k] : k \in DOMAIN t}) /\ Len(t) = 1 /\ DOMAIN t = {1} /\ t[1].is = "transcribe"
    BY <2>3, SingleInput
  <2> HIDE DEF t
  <2>5. /\ rpc'.method = "invoke_stream" /\ rpc'.inputs = t
        /\ rpc'.operation = ToNumber(OperationNames, "transcribe")
    BY <2>2
  <2>6. Wired'
    BY <1>1, <2>2, <2>4, <2>5, OperationsNumbered DEF Wired, Foreign, Operation, Streaming
  <2> QED
    BY <2>2, <2>6
<1> QED
  BY <1>2, <1>3

LEMMA AskWired == ASSUME Stages, Ask PROVE step' = "rpc" /\ Wired'
<1> DEFINE t == [k \in DOMAIN <<>> |-> InputToPb(<<>>[k])]
<1>1. call.kind \in {"health", "models"} /\ call' = call /\ step' = "rpc"
      /\ rpc' = [method |-> "models", version |-> PROTOCOL_VERSION,
                 operation |-> ToNumber(OperationNames, "generate"), model |-> None, inputs |-> t]
  BY DEF Ask, Keyed, Send
<1>2. t = <<>>
  OBVIOUS
<1> HIDE DEF t
<1>3. rpc'.method = "models" /\ rpc'.inputs = <<>>
  BY <1>1, <1>2
<1> QED
  BY <1>1, <1>3 DEF Wired, Foreign, Operation, Streaming

LEMMA WiredSame == ASSUME UNCHANGED <<call, rpc>> PROVE Wired' <=> Wired
  BY DEF Wired, Foreign, Operation, Streaming

LEMMA Answering == ASSUME Stages, step # "idle", step' = "answered", UNCHANGED <<call, rpc, checked>>
                   PROVE  Stages'
  BY WiredSame DEF Stages, Served

LEMMA FrontendStages == ASSUME Stages, Frontend, UNCHANGED phase PROVE Stages'
<1>1. step = "frontend" /\ UNCHANGED <<call, checked, outputs, script, handler, ran, played, cause, cut>>
  BY DEF Frontend, Unkeyed, Generation, Upload, Ask, NotYet, Keyed, Reply, Send
<1>2. ASSUME NEW a, Reply(a) PROVE Stages'
  BY <1>1, <1>2, Answering DEF Reply
<1>3. ASSUME step' = "rpc", Wired' PROVE Stages'
  BY <1>1, <1>3 DEF Stages, Served
<1>4. CASE Unkeyed
  BY <1>2, <1>4 DEF Unkeyed
<1>5. CASE Generation
  BY <1>2, <1>3, <1>5, GenerationWired
<1>6. CASE Upload
  BY <1>2, <1>3, <1>6, UploadWired
<1>7. CASE Ask
  BY <1>3, <1>7, AskWired
<1>8. CASE NotYet
  BY <1>2, <1>8 DEF NotYet
<1> QED
  BY <1>4, <1>5, <1>6, <1>7, <1>8 DEF Frontend

LEMMA ArriveStages == ASSUME Stages, NEW c \in Calls, Arrive(c) PROVE Stages'
<1>1. /\ step = "idle" /\ call' = c
      /\ UNCHANGED <<checked, outputs, script, handler, ran, played, cause, cut>>
  BY DEF Arrive
<1>2. CASE c.kind = "foreign"
  <2>1. step' = "rpc" /\ rpc' = c.body
    BY <1>2 DEF Arrive
  <2>2. c.body \in [method : {"invoke"}, version : Nat, operation : Int, model : STRING,
                    inputs : Seq(PbInput)]
    BY <1>2, CallsAssumption DEF CallOk
  <2>3. rpc'.method = "invoke" /\ rpc'.inputs \in Seq(PbInput)
    BY <2>1, <2>2
  <2>4. \A k \in DOMAIN rpc'.inputs : rpc'.inputs[k] \in PbInput
    BY <2>3
  <2>5. \A k \in DOMAIN rpc'.inputs :
          rpc'.inputs[k].is = "generate" => rpc'.inputs[k].value \in PbGenerateInput
    BY <2>4 DEF PbInput, Unset, Oneof
  <2>6. Wired'
    BY <1>1, <1>2, <2>3, <2>5 DEF Wired, Foreign, Operation, Streaming
  <2> QED
    BY <1>1, <2>1, <2>6 DEF Stages, Served
<1>3. CASE c.kind # "foreign"
  <2>1. step' = "frontend" /\ rpc' = None
    BY <1>3 DEF Arrive
  <2> QED
    BY <1>1, <2>1 DEF Stages, Served
<1> QED
  BY <1>2, <1>3

LEMMA FailsStages == ASSUME Stages, step # "idle", NEW s, NEW e, FailsWith(s, e) PROVE Stages'
  BY Answering DEF FailsWith

LEMMA MoveStages == ASSUME Stages, phase = "serving", UNCHANGED phase,
                           NEW place \in {"check", "start"}, Move(place),
                           step = "check" \/ (step = "rpc" /\ rpc.method # "models")
                    PROVE  Stages'
<1>1. step' = place /\ UNCHANGED <<call, rpc, outputs, script, handler, answer, ran, played, cause, cut>>
  BY DEF Move
<1>2. Wired'
  BY <1>1, WiredSame DEF Stages, Served
<1> QED
  BY <1>1, <1>2 DEF Stages, Served

LEMMA ServiceStages == ASSUME Stages, Service, UNCHANGED phase PROVE Stages'
<1>1. CASE Admit
  BY <1>1, FailsStages, MoveStages DEF Admit, Fails
<1>2. CASE CheckInput
  <2>1. step = "check" /\ phase = "serving"
    BY <1>2 DEF CheckInput, Stages, Served
  <2> QED
    BY <1>2, <2>1, FailsStages, MoveStages DEF CheckInput, Fails
<1>3. ASSUME NEW events, NEW jobs, Run(events, jobs), step = "start" PROVE Stages'
  <2>1. /\ step' \in {"run", "stream"} /\ (step' = "run" => handler' = handler)
        /\ UNCHANGED <<call, rpc, checked, outputs, answer, played, cause, cut>>
    BY <1>3 DEF Run
  <2>2. Wired'
    BY <1>3, <2>1, WiredSame DEF Stages, Served
  <2> QED
    BY <1>3, <2>1, <2>2 DEF Stages, Served
<1>4. CASE StartGenerate
  BY <1>3, <1>4, FailsStages DEF StartGenerate, Fails
<1>5. CASE StartTranscribe
  BY <1>3, <1>5, FailsStages DEF StartTranscribe, Fails
<1>6. CASE StartEmbed
  BY <1>6, FailsStages DEF StartEmbed
<1>7. CASE Fold
  <2>1. step = "run"
    BY <1>7 DEF Fold
  <2>2. CASE ~Folded(Operation, script).ok
    BY <1>7, <2>1, <2>2, FailsStages DEF Fold, Fails
  <2>3. CASE Folded(Operation, script).ok
    <3>1. UNCHANGED <<call, rpc, checked, handler, ran, played, cause, cut>>
          /\ step' \in {"start", "answered"}
      BY <1>7, <2>3 DEF Fold
    <3>2. Wired'
      BY <2>1, <3>1, WiredSame DEF Stages, Served
    <3> QED
      BY <2>1, <3>1, <3>2 DEF Stages, Served
  <2> QED
    BY <2>2, <2>3
<1> QED
  BY <1>1, <1>2, <1>4, <1>5, <1>6, <1>7 DEF Service

LEMMA CrossedFails == ASSUME NEW e, ~e.ok
                      PROVE  Crossed(e) = FromStatus(ToStatus(e)) /\ ~Crossed(e).ok
  BY DEF Crossed, FromStatus, Busy, Err

LEMMA StreamStages == ASSUME Stages, Stream, UNCHANGED phase PROVE Stages'
<1>1. step = "stream" /\ UNCHANGED <<call, rpc, checked, outputs, ran, cut>>
  BY DEF Stream, TakeEvent, EndOfStream
<1>2. CASE step' = "answered"
  BY <1>1, <1>2, Answering
<1>3. CASE step' # "answered"
  <2>1. step' = "stream" /\ TakeEvent
    BY <1>1, <1>3 DEF Stream, TakeEvent, EndOfStream
  <2>2. cause' = cause
    BY <1>3, <2>1, CrossedFails DEF TakeEvent
  <2>3. Wired'
    BY <1>1, WiredSame DEF Stages, Served
  <2> QED
    BY <1>1, <2>1, <2>2, <2>3 DEF Stages, Served
<1> QED
  BY <1>2, <1>3

LEMMA OverStages == ASSUME Over PROVE Stages'
  BY DEF Over, Stages, Served

LEMMA QuietStages == ASSUME Stages, phase = "serving" => phase' = "serving", UNCHANGED local
                     PROVE  Stages'
  BY WiredSame DEF Stages, Served, local

LEMMA CrashStages == ASSUME Stages, NEW i \in Ids, CrashUnder(i) PROVE Stages'
<1>1. /\ UNCHANGED <<phase, call, step, rpc, checked, outputs, handler, ran, played, cause>>
      /\ step \notin {"run", "stream"} => UNCHANGED <<script, cut>>
  BY DEF CrashUnder, Crash
<1>2. Wired' <=> Wired
  BY <1>1, WiredSame
<1> QED
  BY <1>1, <1>2 DEF Stages, Served

LEMMA TellStages == ASSUME Stages, Lost \/ Tell PROVE Stages'
<1>1. step = "rpc" /\ step' = "answered" /\ UNCHANGED <<call, rpc, checked>>
  BY DEF Lost, Tell, FailsWith
<1> QED
  BY <1>1, Answering

LEMMA PhaseKept == ASSUME [RegistryNext]_registryVars PROVE phase = "serving" => phase' = "serving"
  BY DEF RegistryNext, registryVars, Start, ProbeTask, Wake, Probe, Report, Loader, LoadTemplate,
         LoadWeights, LoadFails, Insert, Publish, Crash, WhisperTurns, At

\* Every step of the specification, by who takes it.
LEMMA Steps ==
  ASSUME [Next]_vars
  PROVE  \/ /\ Frontend \/ Lost \/ Tell \/ Service \/ Stream
            /\ UNCHANGED registryVars
         \/ (\E c \in Calls : Arrive(c)) /\ UNCHANGED registryVars
         \/ Over /\ step # "idle" /\ UNCHANGED registryVars
         \/ UNCHANGED <<local, promised>>
         \/ \E i \in Ids : CrashUnder(i)
<1>1. CASE UNCHANGED vars
  BY <1>1 DEF vars
<1>2. CASE Next
  BY <1>2 DEF Next, Serve, Leave, HangUp
<1> QED
  BY <1>1, <1>2

LEMMA NextStages == ASSUME Stages, [Next]_vars PROVE Stages'
<1>1. phase = "serving" => phase' = "serving"
  BY RegistrySteps, PhaseKept
<1>2. UNCHANGED registryVars => UNCHANGED phase
  BY DEF registryVars
<1>3. CASE (\E c \in Calls : Arrive(c)) \/ (Over /\ step # "idle") \/ UNCHANGED <<local, promised>>
  BY <1>1, <1>3, ArriveStages, OverStages, QuietStages
<1>4. CASE Frontend \/ Lost \/ Tell \/ Service \/ Stream
  BY <1>2, <1>4, Steps, FrontendStages, TellStages, ServiceStages, StreamStages, CrashStages, <1>3
<1>5. CASE \E i \in Ids : CrashUnder(i)
  BY <1>5, CrashStages
<1> QED
  BY <1>3, <1>4, <1>5, Steps

LEMMA StagesHold == Spec => []Stages
<1>1. Init => Stages
  BY DEF Init, Idle, Stages, Served
<1>2. Stages /\ [Next]_vars => Stages'
  BY NextStages
<1> QED
  BY <1>1, <1>2, PTL DEF Spec

-----------------------------------------------------------------------------
(* What /health promises. *)

Generates(i) == i \in Listed /\ Offers(i, "generate")

\* A worker that is there was inserted, the models of the file have a state,
\* and a promise is kept: neither a loader nor the probe takes Ready back.
Backed ==
  /\ \A i \in Ids : workers[i] # "none" => loader[i] \in {"publish", "ended"}
  /\ phase = "serving" => \A i \in Listed : state[i] # "absent"
  /\ promised => phase = "serving" /\ \A i \in Listed :
       Generates(i) => state[i] = "ready" /\ workers[i] # "none"

LEMMA ModelListed == ASSUME IInv, NEW i \in Listed
                     PROVE  /\ i \in Ids
                            /\ \E k \in DOMAIN file.models : Model(i) = file.models[k]
                            /\ Model(i).id = i /\ Model(i) \in ModelConfig
<1>1. Model(i) \in Models /\ Model(i).id = i
  <2>1. \E m \in Models : m.id = i
    BY DEF Listed
  <2> QED
    BY <2>1 DEF Model
<1>2. PICK k \in DOMAIN file.models : Model(i) = file.models[k]
  BY <1>1 DEF Models
<1>3. file \in Config
  BY FileType DEF IInv
<1>4. file.models \in Seq(ModelConfig)
  BY <1>3 DEF Config
<1>5. Model(i) \in ModelConfig
  BY <1>2, <1>4
<1> QED
  BY <1>1, <1>2, <1>5 DEF ModelConfig

\* Only a model that is loaded generates (config.rs: ModelConfig::validate).
LEMMA GeneratesLoads == ASSUME IInv, phase = "serving", NEW i, Generates(i)
                        PROVE  i \in Ids /\ Loads(i) /\ ~Whisper(i)
<1>1. i \in Listed /\ "generate" \in Offered(Model(i))
  BY DEF Generates, Offers
<1>2. PICK k \in DOMAIN file.models : Model(i) = file.models[k]
  BY <1>1, ModelListed
<1>3. i \in Ids /\ Model(i) \in ModelConfig
  BY <1>1, ModelListed
<1>4. FileOk(file) /\ RegistryTypeOK
  BY DEF IInv, Phases
<1>5. ModelOk(Model(i))
  BY <1>2, <1>4 DEF FileOk
<1>6. Model(i).backend # "rknn" /\ Model(i).backend # "rkwhisper"
  <2>1. ASSUME NEW op \in {"embed", "transcribe"}, Model(i).operations = <<op>>
        PROVE  FALSE
    BY <1>1, <2>1 DEF Offered
  <2> QED
    BY <1>5, <2>1 DEF ModelOk
<1>7. Model(i).backend \in Backends
  BY <1>3 DEF ModelConfig
<1>8. Loads(i)
  BY <1>1, <1>6, <1>7 DEF Loads, Offers, Backends
<1> QED
  BY <1>3, <1>4, <1>8, Apart

\* Ready, and loaded by a thread that is through.
LEMMA ReadyIsThrough == ASSUME IInv, phase = "serving", NEW i, Generates(i), state[i] = "ready"
                        PROVE  loader[i] = "ended" /\ workers[i] # "none"
<1>1. i \in Ids /\ Loads(i)
  BY GeneratesLoads
<1>2. loader[i] # "none"
  BY <1>1 DEF IInv, Loading
<1>3. loader[i] = "ended"
  BY <1>1, <1>2 DEF IInv, LoadingIsBacked
<1> QED
  BY <1>1, <1>3 DEF IInv, Loading

\* A model's state reaches the frontend as it is in the registry.
LEMMA ModelCrosses ==
  ASSUME NEW m, NEW id, NEW ops, NEW s \in {"loading", "ready", "failed", "unavailable"},
         m = [id |-> id, operations |-> ops, state |-> s], ModelFromPb(ModelToPb(m)).ok
  PROVE  ModelFromPb(ModelToPb(m)).value.state = s
<1> DEFINE p == ModelToPb(m)
           operations == Collect([k \in DOMAIN p.operations |->
                                    FromNumber(OperationNames, p.operations[k])])
<1>1. p.state = ToNumber(StateNames, s)
  BY DEF ModelToPb
<1>2. DOMAIN p = {"id", "operations", "state"}
  BY DEF ModelToPb
<1> HIDE DEF p
<1>3. FromNumber(StateNames, p.state).ok /\ FromNumber(StateNames, p.state).value = s
  BY <1>1, StateCrosses DEF Ok
<1>4. ModelFromPb(p) = IF operations.ok
                         THEN Ok([p EXCEPT !.state = s, !.operations = operations.value])
                         ELSE operations
  BY <1>3 DEF ModelFromPb, Then
<1> HIDE DEF operations
<1>5. ModelFromPb(p).value = [p EXCEPT !.state = s, !.operations = operations.value]
  BY <1>4 DEF Ok, p
<1> QED
  BY <1>2, <1>5 DEF p

\* 200 means that every model of the file is ready.
LEMMA HealthReads ==
  ASSUME IInv, Backed, phase = "serving",
         Health(Collect([k \in DOMAIN List |-> ModelFromPb(ModelToPb(List[k]))])).status = 200
  PROVE  \A i \in Listed : state[i] = "ready"
<1> DEFINE read == [k \in DOMAIN List |-> ModelFromPb(ModelToPb(List[k]))]
           listed == Collect(read)
<1>1. file.models \in Seq(ModelConfig)
  BY FileType DEF IInv, Config
<1>2. DOMAIN List = 1..Len(file.models) /\ DOMAIN file.models = 1..Len(file.models) /\ Len(file.models) \in Nat
  BY <1>1 DEF List
<1>3. IsSeq(read)
  BY <1>2, IsSeqMap
<1>4. listed.ok /\ \A k \in DOMAIN listed.value : listed.value[k].state = "ready"
  <2> HIDE DEF listed
  <2> QED
    BY DEF Health, listed
<1>5. (\A k \in DOMAIN read : read[k].ok) /\ listed.value = [k \in DOMAIN read |-> read[k].value]
  BY <1>3, <1>4, CollectAll
<1>6. \A k \in DOMAIN List : ModelFromPb(ModelToPb(List[k])).ok
                             /\ ModelFromPb(ModelToPb(List[k])).value.state = "ready"
  BY <1>4, <1>5
<1>7. ASSUME NEW i \in Listed PROVE state[i] = "ready"
  <2>1. PICK k \in DOMAIN file.models : file.models[k].id = i
    BY DEF Listed, Models
  <2>2. k \in DOMAIN List /\ List[k] = [id |-> i, operations |-> file.models[k].operations,
                                       state |-> state[i]]
    BY <2>1 DEF List
  <2>3. state[i] \in {"loading", "ready", "failed", "unavailable"}
    <3>1. i \in Ids
      BY ModelListed
    <3> QED
      BY <3>1 DEF IInv, RegistryTypeOK, Backed
  <2>4. ModelFromPb(ModelToPb(List[k])).value.state = state[i]
    BY <1>6, <2>2, <2>3, ModelCrosses
  <2> QED
    BY <1>6, <2>2, <2>4
<1> QED
  BY <1>7

LEMMA GeneratesSame == ASSUME UNCHANGED file PROVE \A i : Generates(i)' <=> Generates(i)
  BY DEF Generates, Listed, Models, Model, Offers, Offered

\* A step of the registry keeps the promise.
LEMMA RegistryBacked == ASSUME IInv, Backed, [RegistryNext]_registryVars, UNCHANGED promised
                        PROVE  Backed'
<1>1. CASE UNCHANGED registryVars
  BY <1>1, GeneratesSame, Same DEF Backed, registryVars
<1>2. CASE Start
  <2>1. phase = "starting" /\ UNCHANGED <<file, workers>>
    BY <1>2 DEF Start
  <2>2. (\A i \in Ids : workers[i] = "none") /\ ~promised
    BY <2>1 DEF IInv, Phases, Backed
  <2>3. Listed \subseteq Ids
    BY ModelListed
  <2>4. ASSUME phase' = "serving", NEW i \in Listed PROVE state'[i] # "absent"
    <3>1. state' = [j \in Ids |-> IF j \notin Listed THEN "absent"
                                  ELSE IF Model(j).backend = "rkwhisper" THEN "unavailable" ELSE "loading"]
      BY <1>2, <2>4 DEF Start
    <3> QED
      BY <2>3, <3>1
  <2> QED
    BY <2>1, <2>2, <2>4, Same DEF Backed
<1>3. ASSUME NEW j \in Ids, Loader(j) PROVE Backed'
  <2>1. /\ phase = "serving" /\ UNCHANGED <<file, phase>>
        /\ loader[j] \notin {"none", "ended"}
    BY <1>3 DEF Loader, LoadTemplate, LoadWeights, LoadFails, Insert, Publish, At
  <2>2. /\ state \in [Ids -> {"absent", "loading", "ready", "failed", "unavailable"}]
        /\ workers \in [Ids -> {"none", "up", "dead"}]
        /\ loader \in [Ids -> {"none", "template", "weights", "insert", "publish", "ended"}]
    BY DEF IInv, RegistryTypeOK
  <2>3. \A i \in Ids : i # j => state'[i] = state[i] /\ workers'[i] = workers[i] /\ loader'[i] = loader[i]
    BY <1>3, <2>2 DEF Loader, LoadTemplate, LoadWeights, LoadFails, Insert, Publish, MoveLoader, SetState
  <2>4. /\ workers'[j] # "none" => loader'[j] \in {"publish", "ended"}
        /\ state'[j] # "absent" \/ state'[j] = state[j]
    BY <1>3, <2>2 DEF Loader, LoadTemplate, LoadWeights, LoadFails, Insert, Publish, MoveLoader,
                      SetState, At, Backed
  <2>5. Listed \subseteq Ids
    BY ModelListed
  <2>6. ASSUME promised, Generates(j) PROVE FALSE
    BY <2>1, <2>6, ReadyIsThrough DEF Backed, Generates
  <2>7. Listed' = Listed /\ \A i : Generates(i)' <=> Generates(i)
    BY <2>1, Same, GeneratesSame
  <2> QED
    BY <2>1, <2>3, <2>4, <2>5, <2>6, <2>7 DEF Backed
<1>4. ASSUME NEW j \in Ids, Crash(j) PROVE Backed'
  <2>1. /\ workers' = [workers EXCEPT ![j] = "dead"] /\ workers[j] = "up"
        /\ UNCHANGED <<file, phase, state, loader>>
    BY <1>4 DEF Crash
  <2>2. workers \in [Ids -> {"none", "up", "dead"}]
    BY DEF IInv, RegistryTypeOK
  <2>3. \A i \in Ids : workers'[i] # "none" <=> workers[i] # "none"
    BY <2>1, <2>2
  <2>4. Listed \subseteq Ids
    BY ModelListed
  <2>5. Listed' = Listed /\ \A i : Generates(i)' <=> Generates(i)
    BY <2>1, Same, GeneratesSame
  <2> QED
    BY <2>1, <2>3, <2>4, <2>5 DEF Backed
<1>5. CASE Wake \/ Probe \/ \E i \in Ids : WhisperTurns(i)
  <2>1. UNCHANGED <<file, phase, state, workers, loader>>
    BY <1>5 DEF Wake, Probe, WhisperTurns
  <2>2. Listed' = Listed /\ \A i : Generates(i)' <=> Generates(i)
    BY <2>1, Same, GeneratesSame
  <2> QED
    BY <2>1, <2>2 DEF Backed
<1>6. CASE Report
  <2>1. /\ UNCHANGED <<file, phase, workers, loader>> /\ turn # 0
        /\ UNCHANGED state \/ state' = [state EXCEPT ![Probed] = saw]
        /\ saw # "none"
    BY <1>6 DEF Report, SetState
  <2>2. /\ state \in [Ids -> {"absent", "loading", "ready", "failed", "unavailable"}]
        /\ saw \in {"ready", "unavailable"} /\ Whispers(turn)
    BY <2>1 DEF IInv, RegistryTypeOK
  <2>3. Whisper(Probed)
    BY <2>2 DEF Whisper, Whispers, Probed
  <2>4. phase = "serving"
    BY <2>1 DEF IInv, Phases
  <2>5. \A i : Generates(i) => i \in Ids /\ i # Probed
    BY <2>3, <2>4, GeneratesLoads
  <2>6. \A i \in Ids : (i = Probed /\ state'[i] # "absent") \/ state'[i] = state[i]
    BY <2>1, <2>2
  <2>7. Listed \subseteq Ids
    BY ModelListed
  <2>8. Listed' = Listed /\ \A i : Generates(i)' <=> Generates(i)
    BY <2>1, Same, GeneratesSame
  <2> QED
    BY <2>1, <2>5, <2>6, <2>7, <2>8 DEF Backed
<1> QED
  BY <1>1, <1>2, <1>3, <1>4, <1>5, <1>6 DEF RegistryNext, ProbeTask

LEMMA NextBacked == ASSUME IInv, Backed, [Next]_vars PROVE Backed'
<1>1. CASE Tell /\ UNCHANGED registryVars
  <2>1. /\ phase = "serving"
        /\ promised' => promised \/ \A i \in Listed : state[i] = "ready"
    BY <1>1, HealthReads DEF Tell
  <2>2. Listed' = Listed /\ \A i : Generates(i)' <=> Generates(i)
    BY <1>1, Same, GeneratesSame DEF registryVars
  <2> QED
    BY <1>1, <2>1, <2>2, ReadyIsThrough DEF Backed, registryVars
<1>2. CASE UNCHANGED promised
  BY <1>2, RegistrySteps, RegistryBacked
<1>3. UNCHANGED promised \/ (Tell /\ UNCHANGED registryVars)
  <2>1. Frontend \/ Lost => UNCHANGED promised
    BY DEF Frontend, Unkeyed, Generation, Upload, Ask, NotYet, Reply, Send, Lost, FailsWith
  <2>2. Service => UNCHANGED promised
    BY DEF Service, Admit, CheckInput, StartGenerate, StartTranscribe, StartEmbed, Fold, Fails,
           FailsWith, Move, Run
  <2>3. Stream \/ Over \/ (\E c \in Calls : Arrive(c)) \/ (\E i \in Ids : CrashUnder(i))
          => UNCHANGED promised
    BY DEF Stream, TakeEvent, EndOfStream, Over, Arrive, CrashUnder
  <2> QED
    BY <2>1, <2>2, <2>3, Steps
<1> QED
  BY <1>1, <1>2, <1>3

LEMMA BackedHolds == Spec => []Backed
<1>1. Init => Backed
  BY DEF Init, RegistryInit, Backed
<1>2. IInv /\ Backed /\ [Next]_vars => Backed'
  BY NextBacked
<1> QED
  BY <1>1, <1>2, RegistryHolds, PTL DEF Spec

-----------------------------------------------------------------------------
(* What runs carry, and the errors calls end with. *)

Deltas   == [is : {"text_delta", "reasoning_delta"}, value : [input : Nat, place : Nat]]
Segments == [is : {"segment"}, value : [text : {"", "words"}, start : Nat, end : Nat]]
Dones    == [is : {"done"}, value : [finish : Finishes, usage : Nat]]

RunErrors == {Err("Runtime"), Err("Unreachable")} \union {Busy(ms) : ms \in Nat}

Results == {Ok(e) : e \in Deltas \union Segments \union Dones} \union RunErrors

\* The errors a call can end with: those the table lists.
Reported == {Err(kind) : kind \in DOMAIN Table \ {"Busy"}} \union {Busy(ms) : ms \in Nat}

LEMMA ErrorFields ==
  /\ \A kind : Err(kind).ok = FALSE /\ Err(kind).error = kind
  /\ \A ms : Busy(ms).ok = FALSE /\ Busy(ms).error = "Busy" /\ Busy(ms).ms = ms
  /\ DOMAIN Table = {"UnknownModel", "UnsupportedOperation", "InvalidInput", "Busy", "Loading",
                     "Unavailable", "Runtime", "Unreachable", "ProtocolVersion"}
  BY DEF Err, Busy, Table

LEMMA ErrReported == ASSUME NEW kind \in {"UnknownModel", "UnsupportedOperation", "InvalidInput",
                                          "Loading", "Unavailable", "Runtime", "Unreachable",
                                          "ProtocolVersion"}
                     PROVE  Err(kind) \in Reported
  BY ErrorFields DEF Reported

LEMMA RunErrorReported == RunErrors \subseteq Reported
                          /\ \A e \in RunErrors : ~e.ok /\ e.error \notin {"Loading", "Unavailable"}
  BY ErrorFields, ErrReported DEF RunErrors, Reported

LEMMA ReportedKnown == Reported \subseteq AllErrors
  BY ErrorFields DEF Reported, AllErrors, Errors

\* Reported errors are values, so an Option that holds one is not empty.
LEMMA ReportedIsSome == None \notin Reported
<1>1. \A kind \in Errors : Err(kind) \in Failures
  BY DEF Err, Failures
<1>2. \A ms \in Nat : Busy(ms) \in Failures
  <2> SUFFICES ASSUME NEW ms \in Nat PROVE Busy(ms) \in Failures
    OBVIOUS
  <2>1. Busy(ms) = [ok |-> FALSE, value |-> None, error |-> "Busy", ms |-> ms]
    BY DEF Busy
  <2>2. "Busy" \in Errors
    BY DEF Errors
  <2> QED
    BY <2>1, <2>2 DEF Failures
<1>3. DOMAIN Table \subseteq Errors
  BY ErrorFields DEF Errors
<1>4. Reported \subseteq Failures
  BY <1>1, <1>2, <1>3 DEF Reported
<1> QED
  BY <1>4, NoneAssumption

LEMMA ResultKinds == ASSUME NEW r \in Results
                     PROVE  \/ /\ r.ok = TRUE /\ r = Ok(r.value)
                               /\ r.value \in Deltas \union Segments \union Dones
                            \/ r.ok = FALSE /\ r \in RunErrors
  BY ErrorFields DEF Results, RunErrors, Ok

\* What a run has nothing after.
Final(e) == ~e.ok \/ e.value.is = "done"

LEMMA OneMore == ASSUME NEW S, NEW s \in Seq(S), NEW x \in S
                 PROVE  /\ s \o <<x>> \in Seq(S) /\ Len(s \o <<x>>) = Len(s) + 1
                        /\ \A k \in 1..Len(s) : (s \o <<x>>)[k] = s[k]
                        /\ (s \o <<x>>)[Len(s) + 1] = x
  OBVIOUS

\* Every run of a model, and every session, carries results.  A model's run
\* is deltas of the input whose turn it is, and one event that is final.
LEMMA RunsType == ASSUME NEW job, NEW n \in Nat, Turn = n, NEW events \in RunsOf(job)
                  PROVE  /\ events \in Seq(Results) /\ events # <<>>
                         /\ \A k \in DOMAIN events :
                              IF k = Len(events) THEN Final(events[k])
                              ELSE events[k].ok /\ events[k].value \in Deltas
                                   /\ events[k].value.value.input = n
<1> DEFINE kinds == IF job.parser.markers THEN {"reasoning_delta", "text_delta"} ELSE {"text_delta"}
           Made(f) == [k \in DOMAIN f |-> Ok(Oneof(f[k], [input |-> Turn, place |-> k]))]
           Ends(m) == {Done("stop", m), Done("length", m), Err("Runtime")}
<1>0. PICK m \in 0..MaxEvents :
        \E f \in [1..m -> kinds] : \E end \in Ends(m) : events = Made(f) \o <<end>>
  <2>1. RunsOf(job) = UNION {{Made(f) \o <<end>> : f \in [1..m -> kinds], end \in Ends(m)}
                                : m \in 0..MaxEvents}
    BY DEF RunsOf
  <2> DEFINE Whole(f, end) == Made(f) \o <<end>>
             From(m) == {Whole(f, end) : f \in [1..m -> kinds], end \in Ends(m)}
  <2> HIDE DEF Whole, Ends, kinds
  <2>2. RunsOf(job) = UNION {From(m) : m \in 0..MaxEvents}
    BY <2>1 DEF Whole, Ends, kinds
  <2> HIDE DEF From
  <2>3. PICK m \in 0..MaxEvents : events \in From(m)
    BY <2>2
  <2>4. \E f \in [1..m -> kinds] : \E end \in Ends(m) : events = Whole(f, end)
    BY <2>3, SMT DEF From
  <2> QED
    BY <2>4 DEF Whole
<1>1. PICK f \in [1..m -> kinds], end \in Ends(m) : events = Made(f) \o <<end>>
  BY <1>0
<1>2. m \in Nat
  BY <1>1, ServingAssumption
<1>3. Made(f) \in Seq(Results)
  <2>1. \A k \in 1..m : f[k] \in {"text_delta", "reasoning_delta"}
    BY <1>1
  <2>2. \A k \in 1..m : Oneof(f[k], [input |-> Turn, place |-> k]) \in Deltas
    BY <2>1 DEF Deltas, Oneof
  <2>3. \A k \in 1..m : Made(f)[k] \in Results
    BY <1>1, <2>2 DEF Results
  <2>4. DOMAIN Made(f) = 1..m
    BY <1>1
  <2> QED
    BY <1>2, <2>3, <2>4
<1>4. end \in Results /\ Final(end)
  <2>1. \A fin \in Finishes : Done(fin, m) \in Results /\ Final(Done(fin, m))
    BY <1>2 DEF Done, Finished, Oneof, Results, Dones, Final, Ok
  <2>2. Final(Err("Runtime"))
    BY ErrorFields DEF Final
  <2> QED
    BY <1>1, <2>1, <2>2 DEF Finishes, Results, RunErrors
<1>5. \A k \in 1..m : Made(f)[k].ok /\ Made(f)[k].value \in Deltas
                     /\ Made(f)[k].value.value.input = n
  <2>1. \A k \in 1..m : f[k] \in {"text_delta", "reasoning_delta"}
    BY <1>1
  <2> QED
    BY <1>1, <2>1 DEF Deltas, Oneof, Ok
<1>6. DOMAIN Made(f) = 1..m
  BY <1>1
<1> HIDE DEF Made
<1>7. Len(Made(f)) = m
  BY <1>2, <1>3, <1>6
<1>8. /\ events \in Seq(Results) /\ Len(events) = m + 1
      /\ \A k \in 1..m : events[k] = Made(f)[k]
      /\ events[m + 1] = end
  BY <1>1, <1>3, <1>4, <1>7, OneMore
<1>9. DOMAIN events = 1..(m + 1) /\ events # <<>>
  BY <1>2, <1>8
<1> QED
  BY <1>2, <1>4, <1>5, <1>8, <1>9

LEMMA SessionsType == ASSUME NEW events \in SessionsOf PROVE events \in Seq(Results)
<1> DEFINE heard(m) == [k \in 1..m |-> Ok(Oneof("segment", SegmentOf(k)))]
           ends == {<<Done("stop", 0)>>, <<Err("Runtime")>>, <<Err("Unreachable")>>, <<>>}
                   \union {<<Busy(ms)>> : ms \in Delays}
<1>1. PICK m \in 0..MaxEvents, end \in ends : events = heard(m) \o end
  BY DEF SessionsOf
<1>2. m \in Nat
  BY <1>1, ServingAssumption
<1>3. heard(m) \in Seq(Results)
  <2>1. \A k \in 1..m : Oneof("segment", SegmentOf(k)) \in Segments
    BY <1>2 DEF Segments, Oneof, SegmentOf
  <2>2. \A k \in 1..m : heard(m)[k] \in Results
    BY <2>1 DEF Results
  <2> QED
    BY <1>2, <2>2
<1>4. end \in Seq(Results)
  <2>1. Done("stop", 0) \in Results
    BY DEF Done, Finished, Oneof, Results, Dones, Finishes
  <2>2. \A ms \in Delays : Busy(ms) \in Results
    BY ServingAssumption DEF Results, RunErrors
  <2>3. Err("Runtime") \in Results /\ Err("Unreachable") \in Results
    BY DEF Results, RunErrors
  <2>4. \A x \in Results : <<x>> \in Seq(Results)
    OBVIOUS
  <2>5. <<>> \in Seq(Results)
    OBVIOUS
  <2> QED
    BY <1>1, <2>1, <2>2, <2>3, <2>4, <2>5
<1> HIDE DEF heard
<1> QED
  BY <1>1, <1>3, <1>4

\* A sequence of whatever.
Listing(s) == s \in Seq({s[k] : k \in DOMAIN s})

LEMMA ListingAppend == ASSUME NEW s, NEW x, Listing(s)
                       PROVE  /\ Listing(Append(s, x)) /\ Len(s) \in Nat
                              /\ Len(Append(s, x)) = Len(s) + 1
                              /\ DOMAIN s = 1..Len(s)
                              /\ DOMAIN Append(s, x) = 1..(Len(s) + 1)
                              /\ \A k \in 1..Len(s) : Append(s, x)[k] = s[k]
                              /\ Append(s, x)[Len(s) + 1] = x
<1> DEFINE S == {s[k] : k \in DOMAIN s} \union {x}
           t == Append(s, x)
<1>1. s \in Seq(S) /\ x \in S
  BY DEF Listing
<1> HIDE DEF S
<1>2. t \in Seq(S) /\ Len(s) \in Nat /\ Len(t) = Len(s) + 1 /\ DOMAIN s = 1..Len(s)
      /\ DOMAIN t = 1..(Len(s) + 1) /\ t[Len(s) + 1] = x
      /\ \A k \in 1..Len(s) : t[k] = s[k]
  BY <1>1
<1> HIDE DEF t
<1>3. t \in Seq({t[k] : k \in DOMAIN t})
  BY <1>2
<1> QED
  BY <1>2, <1>3 DEF Listing, t

\* What check_pair lets through is a model of the file that has its worker.
Passed ==
  /\ rpc.model \in Listed /\ Offers(rpc.model, Operation)
  /\ Operation = "generate" => workers[rpc.model] # "none"

\* A call that is refused for a worker that is not there met a dead one.
Honest ==
  /\ promised /\ step = "answered" /\ cause # None /\ rpc.method # "models"
  /\ cause.error \in {"Loading", "Unavailable"} /\ Operation = "generate"
  => checked # <<>> /\ workers[rpc.model] = "dead"

Passing ==
  /\ checked # <<>> => Passed
  /\ Listing(outputs)
  /\ script \in Seq(Results)
  /\ cause \in Reported \union {None}
  /\ Honest

\* Workers do not go away, and a dead one stays dead.
LEMMA WorkersStay == ASSUME IInv, Backed, [RegistryNext]_registryVars, NEW i \in Ids
                     PROVE  /\ file' = file
                            /\ workers[i] # "none" => workers'[i] # "none"
                            /\ workers[i] = "dead" => workers'[i] = "dead"
<1>1. workers \in [Ids -> {"none", "up", "dead"}]
  BY DEF IInv, RegistryTypeOK
<1>2. CASE UNCHANGED <<file, workers>>
  BY <1>2
<1>3. ASSUME NEW j \in Ids, Insert(j)
      PROVE  file' = file /\ workers[j] = "none" /\ workers' = [workers EXCEPT ![j] = "up"]
  BY <1>3 DEF Insert, At, Backed
<1>4. ASSUME NEW j \in Ids, Crash(j)
      PROVE  file' = file /\ workers[j] = "up" /\ workers' = [workers EXCEPT ![j] = "dead"]
  BY <1>4 DEF Crash
<1>5. \/ UNCHANGED <<file, workers>>
      \/ \E j \in Ids : Insert(j) \/ Crash(j)
  BY DEF RegistryNext, registryVars, Start, ProbeTask, Wake, Probe, Report, Loader, LoadTemplate,
         LoadWeights, LoadFails, Publish, WhisperTurns
<1> QED
  BY <1>1, <1>2, <1>3, <1>4, <1>5

LEMMA PassedStays == ASSUME IInv, Backed, [RegistryNext]_registryVars, UNCHANGED rpc, Passed
                     PROVE  /\ Passed'
                            /\ workers[rpc.model] = "dead" => workers'[rpc.model] = "dead"
<1>1. rpc.model \in Ids
  BY ModelListed DEF Passed
<1>2. file' = file
  BY <1>1, WorkersStay
<1>3. Listed' = Listed /\ (Offers(rpc.model, Operation)' <=> Offers(rpc.model, Operation))
      /\ Operation' = Operation
  BY <1>2 DEF Listed, Models, Offers, Offered, Model, Operation
<1> QED
  BY <1>1, <1>3, WorkersStay DEF Passed

\* check_pair, for a daemon that serves.
LEMMA PairChecked ==
  ASSUME IInv, Backed, phase = "serving", NEW input
  PROVE  \/ CheckPair(input) = Ok(input) /\ input.is = Operation /\ Passed
         \/ /\ CheckPair(input).ok = FALSE /\ CheckPair(input) \in Reported
            /\ promised /\ Operation = "generate" =>
                 CheckPair(input).error \notin {"Loading", "Unavailable"}
<1> DEFINE i == rpc.model
           found == Check(i, Operation)
           missing == \/ Operation = "generate" /\ workers[i] = "none"
                      \/ Operation = "transcribe" /\ ~file.socket
<1>1. CASE input.is # Operation
  BY <1>1, ErrorFields, ErrReported DEF CheckPair
<1>2. CASE input.is = Operation
  <2>1. CheckPair(input) = IF found.ok THEN (IF missing THEN Err("Unavailable") ELSE Ok(input))
                           ELSE found
    BY <1>2 DEF CheckPair, Then
  <2>2. CASE i \notin Listed \/ ~Offers(i, Operation)
    <3>1. found \in {Err("UnknownModel"), Err("UnsupportedOperation")}
      BY <2>2 DEF Check
    <3> QED
      BY <2>1, <3>1, ErrorFields, ErrReported
  <2>3. CASE i \in Listed /\ Offers(i, Operation)
    <3>1. state[i] \in {"ready", "loading", "unavailable", "failed"}
      BY <2>3, ModelListed DEF IInv, RegistryTypeOK, Backed
    <3>2. found = CASE state[i] = "ready"       -> Ok(None)
                    [] state[i] = "loading"     -> Err("Loading")
                    [] state[i] = "unavailable" -> Err("Unavailable")
                    [] state[i] = "failed"      -> Err("Runtime")
      BY <2>3 DEF Check
    <3>3. promised /\ Operation = "generate" => state[i] = "ready" /\ workers[i] # "none"
      BY <2>3 DEF Backed, Generates
    <3> HIDE DEF found
    <3>4. CASE state[i] = "ready"
      <4>1. found.ok
        BY <3>2, <3>4 DEF Ok
      <4>2. CASE missing
        <5>1. CheckPair(input) = Err("Unavailable")
          BY <2>1, <4>1, <4>2
        <5> QED
          BY <3>3, <4>2, <5>1, ErrorFields, ErrReported
      <4>3. CASE ~missing
        <5>1. CheckPair(input) = Ok(input)
          BY <2>1, <4>1, <4>3
        <5> QED
          BY <1>2, <2>3, <4>3, <5>1 DEF Passed
      <4> QED
        BY <4>2, <4>3
    <3>5. CASE state[i] # "ready"
      <4>1. found \in {Err("Loading"), Err("Unavailable"), Err("Runtime")}
        BY <3>1, <3>2, <3>5
      <4>2. CheckPair(input) = found
        BY <2>1, <4>1, ErrorFields
      <4> QED
        BY <3>3, <3>5, <4>1, <4>2, ErrorFields, ErrReported
    <3> QED
      BY <3>4, <3>5
  <2> QED
    BY <2>2, <2>3
<1> QED
  BY <1>1, <1>2

\* An input of the call: decoded, checked, or why not.
Checks == Then(DecodedInput(rpc.inputs[Len(checked) + 1]), CheckPair)

LEMMA InputChecked ==
  ASSUME IInv, Backed, phase = "serving", Wired, Len(checked) + 1 \in DOMAIN rpc.inputs
  PROVE  LET decoded == DecodedInput(rpc.inputs[Len(checked) + 1])
         IN \/ /\ Checks = Ok(decoded.value) /\ decoded.ok
               /\ decoded.value.is = Operation /\ Passed
            \/ /\ Checks.ok = FALSE /\ Checks \in Reported
               /\ promised /\ Operation = "generate" => Checks.error \notin {"Loading", "Unavailable"}
<1> DEFINE i == rpc.inputs[Len(checked) + 1]
           decoded == DecodedInput(i)
<1>1. i.is = "generate" => i.value \in PbGenerateInput
  BY DEF Wired
<1> HIDE DEF i
<1>2. decoded = Refusal \/ decoded.ok
  BY <1>1, InputDecoded
<1>3. Checks = IF decoded.ok THEN CheckPair(decoded.value) ELSE decoded
  BY DEF Checks, Then, i
<1> HIDE DEF decoded
<1>4. CASE decoded = Refusal
  <2>1. Checks = Err("InvalidInput")
    BY <1>3, <1>4, RefusalFails DEF Refusal
  <2> QED
    BY <2>1, ErrorFields, ErrReported
<1>5. CASE decoded.ok
  BY <1>3, <1>5, PairChecked DEF decoded, i
<1> QED
  BY <1>2, <1>4, <1>5

LEMMA FoldedFails == ASSUME NEW op, NEW events \in Seq(Results)
                     PROVE  Folded(op, events).ok \/ Folded(op, events) \in RunErrors
<1>1. CASE \A k \in DOMAIN events : events[k].ok
  BY <1>1, CollectOk DEF Folded, Ok, RunErrors
<1>2. CASE \E k \in DOMAIN events : ~events[k].ok
  <2>1. IsSeq(events)
    BY DEF IsSeq
  <2>2. PICK k \in DOMAIN events : ~events[k].ok /\ Collect(events) = events[k]
    BY <1>2, <2>1, CollectFirst
  <2>3. events[k] \in Results
    BY <2>2
  <2>4. events[k] \in RunErrors
    BY <2>2, <2>3, ResultKinds
  <2> QED
    BY <2>2, <2>4 DEF Folded
<1> QED
  BY <1>1, <1>2

LEMMA RenderFails == ASSUME NEW settings, NEW g, ~Queued(settings, g).ok
                     PROVE  Queued(settings, g) = Err("InvalidInput")
  BY DEF Queued, Then, Render, Ok

-----------------------------------------------------------------------------
(* All inputs are checked before one runs. *)

Decodes(k) ==
  /\ k \in DOMAIN rpc.inputs /\ DecodedInput(rpc.inputs[k]).ok
  /\ DecodedInput(rpc.inputs[k]).value = checked[k] /\ checked[k].is = Operation

Running == {"start", "run", "stream"}

Checking ==
  /\ Listing(checked)
  /\ step = "check" =>
       /\ Len(checked) < Len(rpc.inputs)
       /\ outputs = <<>> /\ script = <<>> /\ ran = <<>> /\ cut = FALSE
  /\ step \in Running => checked # <<>>
  /\ step \in Running \/ ran # <<>> => Len(checked) = Len(rpc.inputs)
  /\ \A k \in DOMAIN checked : Decodes(k)

LEMMA CheckingEmpty == ASSUME checked' = <<>>, ran' = <<>>, step' \notin Running \union {"check"}
                       PROVE  Checking'
  BY DEF Checking, Listing

LEMMA CheckingKept ==
  ASSUME Checking, UNCHANGED <<rpc, checked>>, UNCHANGED ran \/ step \in Running,
         step' \in Running => step \in Running,
         step' = "check" => UNCHANGED <<step, outputs, script, ran, cut>>
  PROVE  Checking'
  BY DEF Checking, Listing, Decodes, Operation

LEMMA CheckChecking == ASSUME IInv, Backed, Stages, Checking, CheckInput PROVE Checking'
<1>1. step = "check" /\ phase = "serving" /\ Wired
  BY DEF CheckInput, Stages, Served
<1>2. /\ Listing(checked) /\ Len(checked) < Len(rpc.inputs)
      /\ outputs = <<>> /\ script = <<>> /\ ran = <<>> /\ cut = FALSE
  BY <1>1 DEF Checking
<1>3. Len(rpc.inputs) \in Nat /\ DOMAIN rpc.inputs = 1..Len(rpc.inputs)
  BY <1>1 DEF Wired
<1>4. /\ Len(checked) \in Nat /\ DOMAIN checked = 1..Len(checked)
      /\ Len(checked) + 1 \in DOMAIN rpc.inputs
  BY <1>2, <1>3, ListingAppend
<1>5. CASE ~Checks.ok
  <2>1. Fails(Checks)
    BY <1>5 DEF CheckInput, Checks
  <2>2. step' = "answered" /\ UNCHANGED <<rpc, checked, ran>>
    BY <2>1 DEF Fails, FailsWith
  <2> QED
    BY <2>2, CheckingKept DEF Running
<1>6. CASE Checks.ok
  <2> DEFINE decoded == DecodedInput(rpc.inputs[Len(checked) + 1])
             v == decoded.value
  <2>1. Checks = Ok(v) /\ decoded.ok /\ v.is = Operation
    BY <1>1, <1>4, <1>6, InputChecked
  <2>2. /\ checked' = Append(checked, v)
        /\ step' = IF Len(checked') = Len(rpc.inputs) THEN "start" ELSE "check"
        /\ UNCHANGED <<rpc, outputs, script, ran, cut>>
    BY <1>6, <2>1 DEF CheckInput, Checks, Move, Ok
  <2>3. /\ Listing(checked') /\ Len(checked') = Len(checked) + 1
        /\ DOMAIN checked' = 1..(Len(checked) + 1)
        /\ \A k \in 1..Len(checked) : checked'[k] = checked[k]
        /\ checked'[Len(checked) + 1] = v
    BY <1>2, <2>2, ListingAppend
  <2>4. \A k \in DOMAIN checked' : Decodes(k)'
    <3> SUFFICES ASSUME NEW k \in DOMAIN checked' PROVE Decodes(k)'
      OBVIOUS
    <3>1. k \in 1..Len(checked) \/ k = Len(checked) + 1
      BY <1>4, <2>3
    <3>2. CASE k \in 1..Len(checked)
      <4>1. Decodes(k)
        BY <1>4, <3>2 DEF Checking
      <4> QED
        BY <2>2, <2>3, <3>2, <4>1 DEF Decodes, Operation
    <3>3. CASE k = Len(checked) + 1
      <4>1. k \in DOMAIN rpc.inputs /\ DecodedInput(rpc.inputs[k]) = decoded /\ checked'[k] = v
        BY <1>4, <2>3, <3>3
      <4> QED
        BY <2>1, <2>2, <4>1 DEF Decodes, Operation
    <3> QED
      BY <3>1, <3>2, <3>3
  <2> HIDE DEF v
  <2>5. checked' # <<>>
    BY <1>4, <2>3
  <2>6. step' = "check" => Len(checked') < Len(rpc'.inputs)
    BY <1>2, <1>3, <1>4, <2>2, <2>3
  <2> QED
    BY <1>2, <2>2, <2>3, <2>4, <2>5, <2>6 DEF Checking, Running
<1> QED
  BY <1>5, <1>6

LEMMA ServiceChecking == ASSUME IInv, Backed, Stages, Checking, Service PROVE Checking'
<1>1. ASSUME NEW s, NEW e, FailsWith(s, e) PROVE Checking'
  <2>1. step' = "answered" /\ UNCHANGED <<rpc, checked, ran>>
    BY <1>1 DEF FailsWith
  <2> QED
    BY <2>1, CheckingKept DEF Running
<1>2. ASSUME NEW events, NEW jobs, Run(events, jobs), step = "start" PROVE Checking'
  <2>1. step' \in Running /\ UNCHANGED <<rpc, checked>>
    BY <1>2 DEF Run, Running
  <2> QED
    BY <1>2, <2>1, CheckingKept DEF Running
<1>3. CASE Admit
  <2>1. CASE Move("check") /\ UNCHANGED checked /\ rpc.inputs # <<>>
    <3>1. /\ step = "rpc" /\ step' = "check"
          /\ UNCHANGED <<rpc, checked, outputs, script, ran, cut>>
      BY <1>3, <2>1 DEF Admit, Move
    <3>2. checked = <<>> /\ outputs = <<>> /\ script = <<>> /\ ran = <<>> /\ cut = FALSE /\ Wired
      BY <3>1 DEF Stages, Served
    <3>3. Len(rpc.inputs) > 0
      BY <2>1, <3>2 DEF Wired
    <3> QED
      BY <3>1, <3>2, <3>3 DEF Checking, Running, Listing
  <2> QED
    BY <1>1, <1>3, <2>1 DEF Admit, Fails
<1>4. CASE CheckInput
  BY <1>4, CheckChecking
<1>5. CASE StartGenerate
  BY <1>1, <1>2, <1>5 DEF StartGenerate, Fails
<1>6. CASE StartTranscribe
  BY <1>1, <1>2, <1>6 DEF StartTranscribe, Fails
<1>7. CASE StartEmbed
  BY <1>1, <1>7 DEF StartEmbed
<1>8. CASE Fold
  <2>1. step = "run" /\ UNCHANGED <<rpc, checked, ran>> /\ step' \in {"start", "answered"}
    BY <1>8 DEF Fold, Fails, FailsWith
  <2> QED
    BY <2>1, CheckingKept DEF Running
<1> QED
  BY <1>3, <1>4, <1>5, <1>6, <1>7, <1>8 DEF Service

LEMMA NextChecking == ASSUME IInv, Backed, Stages, Checking, [Next]_vars PROVE Checking'
<1>1. CASE Frontend
  <2>1. step = "frontend" /\ step' \in {"rpc", "answered"} /\ UNCHANGED <<checked, ran>>
    BY <1>1 DEF Frontend, Unkeyed, Generation, Upload, Ask, NotYet, Keyed, Reply, Send
  <2>2. checked = <<>> /\ ran = <<>>
    BY <2>1 DEF Stages
  <2> QED
    BY <2>1, <2>2, CheckingEmpty DEF Running
<1>2. CASE Lost \/ Tell \/ Stream
  <2>1. /\ step' \in {"answered", "stream"} /\ UNCHANGED <<rpc, checked, ran>>
        /\ step' = "stream" => step = "stream"
    BY <1>2 DEF Lost, Tell, FailsWith, Stream, TakeEvent, EndOfStream
  <2> QED
    BY <2>1, CheckingKept DEF Running
<1>3. CASE Service
  BY <1>3, ServiceChecking
<1>4. CASE \E c \in Calls : Arrive(c)
  <2>1. step = "idle" /\ step' \in {"rpc", "frontend"} /\ UNCHANGED <<checked, ran>>
    BY <1>4 DEF Arrive
  <2>2. checked = <<>> /\ ran = <<>>
    BY <2>1 DEF Stages
  <2> QED
    BY <2>1, <2>2, CheckingEmpty DEF Running
<1>5. CASE Over
  BY <1>5, CheckingEmpty DEF Over, Running
<1>6. CASE UNCHANGED <<local, promised>>
  BY <1>6, CheckingKept DEF local
<1>7. CASE \E i \in Ids : CrashUnder(i)
  <2>1. UNCHANGED <<step, rpc, checked, outputs, ran>> /\ (step = "check" => UNCHANGED <<script, cut>>)
    BY <1>7 DEF CrashUnder
  <2> QED
    BY <2>1, CheckingKept
<1> QED
  BY <1>1, <1>2, <1>3, <1>4, <1>5, <1>6, <1>7, Steps

LEMMA CheckingHolds == Spec => []Checking
<1>1. Init => Checking
  BY DEF Init, Idle, Checking, Listing, Running
<1>2. IInv /\ Backed /\ Stages /\ Checking /\ [Next]_vars => Checking'
  BY NextChecking
<1> QED
  BY <1>1, <1>2, RegistryHolds, BackedHolds, StagesHold, PTL DEF Spec

-----------------------------------------------------------------------------
(* What has passed the checks stays good, and a refusal is honest. *)

LEMMA PassedSame == ASSUME UNCHANGED <<rpc, file, workers>> PROVE Passed' <=> Passed
<1>1. Listed' = Listed /\ Operation' = Operation
  BY DEF Listed, Models, Operation
<1>2. \A i : Offers(i, Operation)' <=> Offers(i, Operation)
  BY DEF Offers, Offered, Model, Models, Operation
<1> QED
  BY <1>1, <1>2 DEF Passed

LEMMA PassingQuiet ==
  ASSUME UNCHANGED registryVars, checked' # <<>> => Passed /\ UNCHANGED rpc,
         Listing(outputs)', script' \in Seq(Results), cause' = None
  PROVE  Passing'
<1>1. checked' # <<>> => Passed'
  <2> SUFFICES ASSUME checked' # <<>> PROVE Passed'
    OBVIOUS
  <2>1. Passed /\ UNCHANGED <<rpc, file, workers>>
    BY DEF registryVars
  <2> QED
    BY <2>1, PassedSame
<1> QED
  BY <1>1 DEF Passing, Honest

\* A call that fails with an error the table lists.
LEMMA PassingFails ==
  ASSUME Stages, Passing, UNCHANGED registryVars, NEW s, NEW e \in Reported \union {None}, FailsWith(s, e),
         promised /\ e # None /\ Operation = "generate" /\ rpc.method # "models"
         /\ e.error \in {"Loading", "Unavailable"} => checked # <<>> /\ workers[rpc.model] = "dead"
  PROVE  Passing'
<1>1. UNCHANGED <<rpc, checked, outputs, script, promised, file, workers>> /\ cause' = e
  BY DEF FailsWith, registryVars
<1>2. (checked # <<>> => Passed)' /\ (Operation' = Operation)
  BY <1>1, PassedSame DEF Passing, Operation
<1>3. Honest'
  BY <1>1, <1>2 DEF Honest
<1> QED
  BY <1>1, <1>2, <1>3 DEF Passing, Listing

\* Nothing but the registry moves, and a crash cuts the run short.
LEMMA PassingMoves ==
  ASSUME IInv, Backed, Passing, [RegistryNext]_registryVars,
         UNCHANGED <<call, step, rpc, checked, outputs, cause, promised>>, script' \in Seq(Results)
  PROVE  Passing'
<1>1. checked # <<>> => Passed' /\ (workers[rpc.model] = "dead" => workers'[rpc.model] = "dead")
  BY PassedStays DEF Passing
<1>2. Honest'
  BY <1>1 DEF Passing, Honest, Operation
<1> QED
  BY <1>1, <1>2 DEF Passing, Listing

LEMMA AdmitPassing == ASSUME Stages, Passing, Admit, UNCHANGED registryVars PROVE Passing'
<1>1. ASSUME NEW kind \in {"ProtocolVersion", "InvalidInput"}, Fails(Err(kind)) PROVE Passing'
  <2>1. Err(kind) \in Reported /\ Err(kind).error \notin {"Loading", "Unavailable"}
    BY <1>1, ErrorFields, ErrReported
  <2> QED
    BY <1>1, <2>1, PassingFails DEF Fails
<1>2. CASE Move("check") /\ UNCHANGED checked
  <2>1. step = "rpc" /\ UNCHANGED <<checked, outputs, script, cause>>
    BY <1>2 DEF Admit, Move
  <2>2. checked = <<>> /\ cause = None
    BY <2>1 DEF Stages
  <2> QED
    BY <2>1, <2>2, PassingQuiet DEF Passing, Listing
<1> QED
  BY <1>1, <1>2 DEF Admit

LEMMA CheckPassing == ASSUME IInv, Backed, Stages, Checking, Passing, CheckInput, UNCHANGED registryVars
                      PROVE  Passing'
<1>1. step = "check" /\ phase = "serving" /\ Wired /\ cause = None
  BY DEF CheckInput, Stages, Served
<1>2. Listing(checked) /\ Len(checked) < Len(rpc.inputs)
  BY <1>1 DEF Checking
<1>3. Len(rpc.inputs) \in Nat /\ DOMAIN rpc.inputs = 1..Len(rpc.inputs)
  BY <1>1 DEF Wired
<1>4. Len(checked) + 1 \in DOMAIN rpc.inputs
  BY <1>2, <1>3, ListingAppend
<1>5. CASE ~Checks.ok
  <2>1. Fails(Checks)
    BY <1>5 DEF CheckInput, Checks
  <2>2. /\ Checks \in Reported
        /\ promised /\ Operation = "generate" => Checks.error \notin {"Loading", "Unavailable"}
    <3> DEFINE c == Checks
               decoded == DecodedInput(rpc.inputs[Len(checked) + 1])
    <3>1. \/ c = Ok(decoded.value)
          \/ c \in Reported /\ (promised /\ Operation = "generate" => c.error \notin {"Loading", "Unavailable"})
      BY <1>1, <1>4, InputChecked
    <3> HIDE DEF c
    <3> QED
      BY <1>5, <3>1 DEF Ok, c
  <2> HIDE DEF Checks
  <2> QED
    BY <2>1, <2>2, PassingFails DEF Fails
<1>6. CASE Checks.ok
  <2>1. Passed
    <3> DEFINE c == Checks
    <3>1. c.ok = FALSE \/ Passed
      BY <1>1, <1>4, InputChecked
    <3> HIDE DEF c
    <3> QED
      BY <1>6, <3>1 DEF c
  <2>2. UNCHANGED <<rpc, outputs, script, cause>>
    BY <1>6 DEF CheckInput, Checks, Move
  <2> QED
    BY <1>1, <2>1, <2>2, PassingQuiet DEF Passing, Listing
<1> QED
  BY <1>5, <1>6

LEMMA BusyReported == ASSUME NEW ms \in Nat
                      PROVE  Busy(ms) \in Reported /\ Busy(ms).error = "Busy"
  BY ErrorFields DEF Reported

LEMMA StartPassing == ASSUME IInv, Stages, Checking, Passing, StartGenerate \/ StartTranscribe \/ StartEmbed,
                             UNCHANGED registryVars
                      PROVE  Passing'
<1>1. step = "start" /\ checked # <<>> /\ cause = None
  BY DEF StartGenerate, StartTranscribe, StartEmbed, Checking, Running, Stages
<1>2. Passed /\ Listing(outputs)
  BY <1>1 DEF Passing
<1>3. ASSUME NEW kind \in {"InvalidInput", "Unavailable", "Unreachable", "Runtime"}, Fails(Err(kind)),
             kind = "Unavailable" /\ Operation = "generate" => workers[rpc.model] = "dead"
      PROVE  Passing'
  <2>1. Err(kind) \in Reported /\ Err(kind).error = kind
    BY <1>3, ErrorFields, ErrReported
  <2> QED
    BY <1>1, <1>3, <2>1, PassingFails DEF Fails
<1>4. ASSUME NEW events \in Seq(Results), NEW jobs, Run(events, jobs) PROVE Passing'
  <2>1. UNCHANGED <<rpc, checked, outputs, cause>> /\ script' = events
    BY <1>4 DEF Run
  <2> QED
    BY <1>1, <1>2, <2>1, PassingQuiet DEF Listing
<1>5. CASE StartGenerate
  <2> DEFINE queued == Queued(Model(rpc.model).settings, checked[Turn].value)
  <2>1. Operation = "generate" /\ rpc.model \in Ids
    BY <1>2, <1>5, ModelListed DEF StartGenerate, Passed
  <2>2. workers[rpc.model] # "up" => workers[rpc.model] = "dead"
    BY <1>2, <2>1 DEF Passed, IInv, RegistryTypeOK
  <2>3. Turn \in Nat
    BY <1>2, ListingAppend DEF Turn
  <2>4. \/ ~queued.ok /\ Fails(queued)
        \/ workers[rpc.model] # "up" /\ Fails(Err("Unavailable"))
        \/ Fails(Busy(BUSY_RETRY_AFTER_MS))
        \/ \E events \in RunsOf(queued.value) : Run(events, <<[input |-> Turn, job |-> queued.value]>>)
    BY <1>5 DEF StartGenerate
  <2>5. CASE ~queued.ok /\ Fails(queued)
    <3>1. queued = Err("InvalidInput")
      BY <2>5, RenderFails
    <3> HIDE DEF queued
    <3> QED
      BY <1>3, <2>5, <3>1
  <2>6. CASE Fails(Busy(BUSY_RETRY_AFTER_MS))
    <3>1. Busy(1000) \in Reported /\ Busy(1000).error = "Busy"
      BY BusyReported
    <3> QED
      BY <2>6, <3>1, PassingFails DEF Fails, BUSY_RETRY_AFTER_MS
  <2>7. ASSUME NEW events \in RunsOf(queued.value), Run(events, <<[input |-> Turn, job |-> queued.value]>>)
        PROVE  Passing'
    <3>1. events \in Seq(Results)
      BY <2>3, <2>7, RunsType
    <3> QED
      BY <1>4, <2>7, <3>1
  <2>8. CASE workers[rpc.model] # "up" /\ Fails(Err("Unavailable"))
    BY <1>3, <2>2, <2>8
  <2> HIDE DEF queued
  <2> QED
    BY <2>4, <2>5, <2>6, <2>7, <2>8
<1>6. CASE StartTranscribe
  <2>1. Operation # "generate"
    BY <1>6 DEF StartTranscribe
  <2>2. \/ Fails(Err("Unreachable")) \/ Fails(Err("Unavailable")) \/ Fails(Err("Runtime"))
        \/ \E events \in SessionsOf : Run(events, <<>>)
    BY <1>6 DEF StartTranscribe
  <2> QED
    BY <1>3, <1>4, <2>1, <2>2, SessionsType
<1>7. CASE StartEmbed
  BY <1>7, PassingFails DEF StartEmbed
<1> QED
  BY <1>5, <1>6, <1>7

LEMMA FoldPassing == ASSUME Stages, Checking, Passing, Fold, UNCHANGED registryVars PROVE Passing'
<1> DEFINE output == Folded(Operation, script)
<1>1. step = "run" /\ checked # <<>> /\ cause = None
  BY DEF Fold, Checking, Running, Stages
<1>2. Passed /\ Listing(outputs) /\ script \in Seq(Results)
  BY <1>1 DEF Passing
<1>3. output.ok \/ output \in RunErrors
  BY <1>2, FoldedFails
<1>4. (~output.ok /\ Fails(output))
      \/ (outputs' = Append(outputs, output.value) /\ script' = <<>> /\ UNCHANGED <<rpc, checked, cause>>)
  BY DEF Fold
<1> HIDE DEF output
<1>5. CASE ~output.ok /\ Fails(output)
  <2>1. output \in Reported /\ output.error \notin {"Loading", "Unavailable"}
    BY <1>3, <1>5, RunErrorReported
  <2> QED
    BY <1>5, <2>1, PassingFails DEF Fails
<1>6. CASE outputs' = Append(outputs, output.value) /\ script' = <<>> /\ UNCHANGED <<rpc, checked, cause>>
  <2>1. Listing(outputs)'
    <3> DEFINE outs == Append(outputs, output.value)
    <3>1. Listing(outs)
      BY <1>2, ListingAppend
    <3>2. outputs' = outs
      BY <1>6
    <3> HIDE DEF outs
    <3> QED
      BY <3>1, <3>2 DEF Listing
  <2>2. script' \in Seq(Results)
    BY <1>6
  <2> QED
    BY <1>1, <1>2, <1>6, <2>1, <2>2, PassingQuiet
<1> QED
  BY <1>4, <1>5, <1>6

LEMMA StreamPassing == ASSUME Stages, Checking, Passing, Stream, UNCHANGED registryVars PROVE Passing'
<1>1. step = "stream" /\ checked # <<>> /\ cause = None
  BY DEF Stream, TakeEvent, EndOfStream, Checking, Running, Stages
<1>2. Passed /\ Listing(outputs) /\ script \in Seq(Results)
  BY <1>1 DEF Passing
<1>3. UNCHANGED <<rpc, checked, outputs, promised, file, workers>>
  BY DEF Stream, TakeEvent, EndOfStream, registryVars
<1>4. CASE EndOfStream
  BY <1>1, <1>2, <1>3, <1>4, PassingQuiet DEF EndOfStream, Listing
<1>5. CASE TakeEvent
  <2> DEFINE e == Head(script)
  <2>1. script # <<>> /\ e \in Results /\ Tail(script) \in Seq(Results) /\ <<>> \in Seq(Results)
    BY <1>2, <1>5 DEF TakeEvent
  <2>2. script' \in Seq(Results) /\ cause' = IF e.ok THEN cause ELSE e
    BY <1>5, <2>1 DEF TakeEvent
  <2>3. CASE e.ok
    BY <1>1, <1>2, <1>3, <2>2, <2>3, PassingQuiet DEF Listing
  <2>4. CASE ~e.ok
    <3>1. e \in RunErrors
      BY <2>1, <2>4, ResultKinds
    <3>2. cause' = e /\ e \in Reported /\ e.error \notin {"Loading", "Unavailable"}
      BY <2>2, <2>4, <3>1, RunErrorReported
    <3>3. Honest'
      BY <3>2 DEF Honest
    <3>4. Passed'
      BY <1>2, <1>3, PassedSame
    <3> QED
      BY <1>2, <1>3, <2>2, <3>2, <3>3, <3>4 DEF Passing, Listing
  <2> QED
    BY <2>3, <2>4
<1> QED
  BY <1>4, <1>5 DEF Stream

LEMMA NextPassing == ASSUME IInv, Backed, Stages, Checking, Passing, [Next]_vars PROVE Passing'
<1>1. CASE Frontend /\ UNCHANGED registryVars
  <2>1. step = "frontend" /\ UNCHANGED <<checked, outputs, script, cause>>
    BY <1>1 DEF Frontend, Unkeyed, Generation, Upload, Ask, NotYet, Keyed, Reply, Send
  <2>2. checked = <<>> /\ cause = None
    BY <2>1 DEF Stages
  <2> QED
    BY <1>1, <2>1, <2>2, PassingQuiet DEF Passing, Listing
<1>2. CASE Lost /\ UNCHANGED registryVars
  <2>1. Err("Unreachable") \in Reported /\ Err("Unreachable").error = "Unreachable"
    BY ErrorFields, ErrReported
  <2> QED
    BY <1>2, <2>1, PassingFails DEF Lost
<1>3. CASE Tell /\ UNCHANGED registryVars
  <2>1. step = "rpc" /\ UNCHANGED <<checked, outputs, script, cause>>
    BY <1>3 DEF Tell
  <2>2. checked = <<>> /\ cause = None
    BY <2>1 DEF Stages
  <2> QED
    BY <1>3, <2>1, <2>2, PassingQuiet DEF Passing, Listing
<1>4. CASE Service /\ UNCHANGED registryVars
  BY <1>4, AdmitPassing, CheckPassing, StartPassing, FoldPassing DEF Service
<1>5. CASE Stream /\ UNCHANGED registryVars
  BY <1>5, StreamPassing
<1>6. CASE (\E c \in Calls : Arrive(c)) /\ UNCHANGED registryVars
  <2>1. step = "idle" /\ UNCHANGED <<checked, outputs, script, cause>>
    BY <1>6 DEF Arrive
  <2>2. checked = <<>> /\ cause = None
    BY <2>1 DEF Stages
  <2> QED
    BY <1>6, <2>1, <2>2, PassingQuiet DEF Passing, Listing
<1>7. CASE Over /\ UNCHANGED registryVars
  BY <1>7, PassingQuiet DEF Over, Listing
<1>8. CASE UNCHANGED <<local, promised>>
  BY <1>8, RegistrySteps, PassingMoves DEF local, Passing
<1>9. CASE \E i \in Ids : CrashUnder(i)
  <2>1. UNCHANGED <<call, step, rpc, checked, outputs, cause, promised>>
        /\ (script' = script \/ \E n \in 0..Len(script) : script' = SubSeq(script, 1, n))
    BY <1>9 DEF CrashUnder
  <2>2. script' \in Seq(Results)
    BY <2>1 DEF Passing
  <2> QED
    BY <2>1, <2>2, RegistrySteps, PassingMoves
<1> QED
  BY <1>1, <1>2, <1>3, <1>4, <1>5, <1>6, <1>7, <1>8, <1>9, Steps

LEMMA PassingHolds == Spec => []Passing
<1>1. Init => Passing
  BY DEF Init, Idle, Passing, Listing, Honest
<1>2. IInv /\ Backed /\ Stages /\ Checking /\ Passing /\ [Next]_vars => Passing'
  BY NextPassing
<1> QED
  BY <1>1, <1>2, RegistryHolds, BackedHolds, StagesHold, CheckingHolds, PTL DEF Spec

\* /health keeps its promise (routes.rs: health): whoever was told 200 meets
\* a worker that crashed, and never a model that is still loading or one that
\* never had a worker.
THEOREM HealthHonest == Spec => []HealthIsHonest
<1>1. Passing => HealthIsHonest
  BY DEF Passing, Honest, HealthIsHonest
<1> QED
  BY <1>1, PassingHolds, PTL

-----------------------------------------------------------------------------
(* What is in the workers' queues. *)

\* A job was made of an input that passed, with its model's settings.
Made(k) ==
  LET queued == Queued(Model(rpc.model).settings, checked[ran[k].input].value)
  IN /\ ran[k].input \in DOMAIN checked /\ Operation = "generate"
     /\ queued.ok /\ ran[k].job = queued.value

Jobs ==
  /\ step \in Running => Len(outputs) < Len(checked)
  /\ Listing(ran)
  /\ \A k \in DOMAIN ran : Made(k)

LEMMA ListingPush == ASSUME NEW s, NEW x, Listing(s)
                     PROVE  s \o <<x>> = Append(s, x) /\ s \o <<>> = s
  BY DEF Listing

LEMMA MadeSame == ASSUME UNCHANGED <<rpc, checked, file>>, NEW k, Made(k), ran'[k] = ran[k]
                  PROVE  Made(k)'
<1>1. \A i : Model(i)' = Model(i)
  BY DEF Model, Models
<1> QED
  BY <1>1 DEF Made, Operation

LEMMA JobsKept ==
  ASSUME Jobs, UNCHANGED <<rpc, checked, ran, file>>,
         step' \in Running => step \in Running /\ UNCHANGED outputs
  PROVE  Jobs'
<1>1. \A k \in DOMAIN ran : Made(k)'
  BY MadeSame DEF Jobs
<1> QED
  BY <1>1 DEF Jobs, Listing

LEMMA JobsEmpty == ASSUME ran' = <<>>, step' \notin Running PROVE Jobs'
  BY DEF Jobs, Listing

LEMMA CheckJobs == ASSUME Stages, Checking, Jobs, CheckInput, UNCHANGED registryVars PROVE Jobs'
<1>1. ran = <<>> /\ outputs = <<>> /\ step = "check" /\ Listing(checked)
  BY DEF CheckInput, Checking
<1>2. /\ UNCHANGED <<ran, outputs>>
      /\ step' \in Running => \E v : checked' = Append(checked, v)
  BY DEF CheckInput, Fails, FailsWith, Move, Running
<1>3. ASSUME step' \in Running PROVE Len(outputs') < Len(checked')
  <2>1. PICK v : checked' = Append(checked, v)
    BY <1>2, <1>3
  <2>2. Len(checked') = Len(checked) + 1 /\ Len(checked) \in Nat
    BY <1>1, <2>1, ListingAppend
  <2>3. Len(outputs') = 0
    BY <1>1, <1>2
  <2> QED
    BY <2>2, <2>3
<1> QED
  BY <1>1, <1>2, <1>3 DEF Jobs, Listing

LEMMA StartJobs == ASSUME Checking, Passing, Jobs, StartGenerate \/ StartTranscribe \/ StartEmbed,
                          UNCHANGED registryVars
                   PROVE  Jobs'
<1>1. step = "start" /\ Len(outputs) < Len(checked) /\ Listing(outputs) /\ Listing(checked)
      /\ UNCHANGED file
  BY DEF StartGenerate, StartTranscribe, StartEmbed, Jobs, Running, Passing, Checking, registryVars
<1>2. ASSUME NEW s, NEW e, FailsWith(s, e) PROVE Jobs'
  BY <1>1, <1>2, JobsKept DEF FailsWith, Running
<1>3. ASSUME NEW events, Run(events, <<>>) PROVE Jobs'
  <2>1. ran \o <<>> = ran
    BY ListingPush DEF Jobs
  <2>2. UNCHANGED <<rpc, checked, ran, outputs>>
    BY <1>3, <2>1 DEF Run
  <2> QED
    BY <1>1, <2>2, JobsKept DEF Running
<1>4. ASSUME StartGenerate, NEW events, NEW queued,
             queued = Queued(Model(rpc.model).settings, checked[Turn].value),
             queued.ok, Run(events, <<[input |-> Turn, job |-> queued.value]>>)
      PROVE  Jobs'
  <2> DEFINE j == [input |-> Turn, job |-> queued.value]
  <2>1. UNCHANGED <<rpc, checked, outputs>> /\ Operation = "generate" /\ ran' = ran \o <<j>>
    BY <1>4 DEF Run, StartGenerate
  <2>2. j.input = Turn /\ j.job = queued.value
    OBVIOUS
  <2> HIDE DEF j
  <2>3. Listing(ran) /\ ran' = Append(ran, j)
    BY <2>1, ListingPush DEF Jobs
  <2>4. /\ Listing(Append(ran, j)) /\ Len(ran) \in Nat /\ DOMAIN ran = 1..Len(ran)
        /\ DOMAIN ran' = 1..(Len(ran) + 1)
        /\ \A k \in 1..Len(ran) : ran'[k] = ran[k]
        /\ ran'[Len(ran) + 1] = j
    BY <2>3, ListingAppend
  <2>5. Turn \in DOMAIN checked
    BY <1>1, ListingAppend DEF Turn
  <2>6. \A i : Model(i)' = Model(i)
    BY <1>1 DEF Model, Models
  <2>7. ASSUME NEW k \in DOMAIN ran' PROVE Made(k)'
    <3>1. k \in 1..Len(ran) \/ k = Len(ran) + 1
      BY <2>4
    <3>2. CASE k \in 1..Len(ran)
      <4>1. Made(k)
        BY <2>4, <3>2 DEF Jobs
      <4> QED
        BY <1>1, <2>1, <2>4, <3>2, <4>1, MadeSame
    <3>3. CASE k = Len(ran) + 1
      <4>1. ran'[k] = j
        BY <2>4, <3>3
      <4> QED
        BY <1>4, <2>1, <2>2, <2>5, <2>6, <4>1 DEF Made, Operation
    <3> QED
      BY <3>1, <3>2, <3>3
  <2>8. Listing(ran)'
    BY <2>3, <2>4 DEF Listing
  <2> QED
    BY <1>1, <2>1, <2>7, <2>8 DEF Jobs
<1>5. CASE StartGenerate
  BY <1>2, <1>4, <1>5 DEF StartGenerate, Fails
<1>6. CASE StartTranscribe
  BY <1>2, <1>3, <1>6 DEF StartTranscribe, Fails
<1>7. CASE StartEmbed
  BY <1>2, <1>7 DEF StartEmbed
<1> QED
  BY <1>5, <1>6, <1>7

LEMMA FoldJobs == ASSUME Passing, Jobs, Fold, UNCHANGED registryVars PROVE Jobs'
<1>1. UNCHANGED <<rpc, checked, ran, file>> /\ step' \in {"start", "answered"}
  BY DEF Fold, Fails, FailsWith, registryVars
<1>2. step' = "start" => Len(outputs') < Len(checked')
  BY DEF Fold, Fails, FailsWith
<1>3. \A k \in DOMAIN ran : Made(k)'
  BY <1>1, MadeSame DEF Jobs
<1> QED
  BY <1>1, <1>2, <1>3 DEF Jobs, Running, Listing

\* No step but Start reads another configuration, and none of a call that
\* has passed a check.
LEMMA FileKept == ASSUME IInv, Backed, Passing, [Next]_vars, checked # <<>> PROVE UNCHANGED file
  BY RegistrySteps, WorkersStay, ModelListed DEF Passing, Passed

LEMMA NextJobs == ASSUME IInv, Backed, Stages, Checking, Passing, Jobs, [Next]_vars PROVE Jobs'
<1>1. CASE Frontend
  <2>1. step = "frontend" /\ step' \in {"rpc", "answered"} /\ UNCHANGED ran
    BY <1>1 DEF Frontend, Unkeyed, Generation, Upload, Ask, NotYet, Keyed, Reply, Send
  <2>2. ran = <<>>
    BY <2>1 DEF Stages
  <2> QED
    BY <2>1, <2>2, JobsEmpty DEF Running
<1>2. CASE (Lost \/ Tell \/ Stream) /\ UNCHANGED registryVars
  <2>1. /\ step' \in {"answered", "stream"} /\ UNCHANGED <<rpc, checked, ran, outputs, file>>
        /\ step' = "stream" => step = "stream"
    BY <1>2 DEF Lost, Tell, FailsWith, Stream, TakeEvent, EndOfStream, registryVars
  <2> QED
    BY <2>1, JobsKept DEF Running
<1>3. CASE Service /\ UNCHANGED registryVars
  <2>1. CASE Admit
    <3>1. step' \notin Running /\ step = "rpc" /\ UNCHANGED ran
      BY <2>1 DEF Admit, Fails, FailsWith, Move, Running
    <3>2. ran = <<>>
      BY <3>1 DEF Stages
    <3> QED
      BY <3>1, <3>2, JobsEmpty
  <2> QED
    BY <1>3, <2>1, CheckJobs, StartJobs, FoldJobs DEF Service
<1>4. CASE \E c \in Calls : Arrive(c)
  <2>1. step = "idle" /\ step' \in {"rpc", "frontend"} /\ UNCHANGED ran
    BY <1>4 DEF Arrive
  <2>2. ran = <<>>
    BY <2>1 DEF Stages
  <2> QED
    BY <2>1, <2>2, JobsEmpty DEF Running
<1>5. CASE Over
  BY <1>5, JobsEmpty DEF Over, Running
<1>6. CASE UNCHANGED <<local, promised>> \/ \E i \in Ids : CrashUnder(i)
  <2>1. UNCHANGED <<step, rpc, checked, outputs, ran>>
    BY <1>6 DEF local, CrashUnder
  <2>2. CASE checked # <<>>
    BY <2>1, <2>2, FileKept, JobsKept
  <2>3. CASE checked = <<>>
    <3>1. step \notin Running
      BY <2>3 DEF Checking
    <3>2. ran = <<>>
      <4>1. \A k \in DOMAIN ran : FALSE
        BY <2>3 DEF Jobs, Made
      <4> QED
        BY <4>1, ListingAppend DEF Jobs, Listing
    <3> QED
      BY <2>1, <3>1, <3>2, JobsEmpty
  <2> QED
    BY <2>2, <2>3
<1> QED
  BY <1>1, <1>2, <1>3, <1>4, <1>5, <1>6, Steps

LEMMA JobsHold == Spec => []Jobs
<1>1. Init => Jobs
  BY DEF Init, Idle, Jobs, Listing, Running
<1>2. IInv /\ Backed /\ Stages /\ Checking /\ Passing /\ Jobs /\ [Next]_vars => Jobs'
  BY NextJobs
<1> QED
  BY <1>1, <1>2, RegistryHolds, BackedHolds, StagesHold, CheckingHolds, PassingHolds, PTL DEF Spec

\* An override keeps its temperature on the way to the runtime's struct.
LEMMA OverrideCrosses ==
  ASSUME NEW defaults \in SamplingDefaults, NEW g,
         g.temperature \in Option(Int), g.top_p \in Option(Int),
         ResolveSampling(defaults, g) # None
  PROVE  ToRkllmSampling(ResolveSampling(defaults, g)).temperature > 0
<1> DEFINE r == [temperature |-> g.temperature, top_p |-> g.top_p]
           s == ResolveSampling(defaults, g)
<1>1. r \in [temperature : {None} \union Int, top_p : {None} \union Int]
  BY DEF Option
<1>2. ResolveSampling(defaults, r) = s
  BY DEF ResolveSampling
<1>3. s.temperature > 0
  BY <1>1, <1>2, OverrideIsWarm
<1>4. DOMAIN s = {"temperature", "top_p", "top_k"}
  <2>1. DOMAIN defaults = {"temperature", "top_p", "top_k"}
    BY DEF SamplingDefaults
  <2> QED
    BY <2>1 DEF ResolveSampling
<1> HIDE DEF s
<1> QED
  BY <1>3, <1>4 DEF ToRkllmSampling, s

LEMMA BudgetsFollow == ASSUME IInv, Stages, Checking, Passing, Jobs PROVE BudgetsHold
<1> SUFFICES ASSUME NEW k \in DOMAIN ran
    PROVE LET asked    == checked[ran[k].input].value.max_tokens
              ceiling  == Model(rpc.model).settings.max_new_tokens
              given    == ran[k].job.params.max_new_tokens
              sampling == ran[k].job.params.sampling
          IN /\ ceiling # None /\ ceiling < 2^(Width - 1) =>
                  given # None /\ given \in 0..ceiling /\ (asked # None => given <= asked)
             /\ sampling # None => sampling.temperature > 0
  BY DEF BudgetsHold
<1> DEFINE j == ran[k].input
           g == checked[j].value
           settings == Model(rpc.model).settings
           queued == Queued(settings, g)
<1>1. j \in DOMAIN checked /\ Operation = "generate" /\ queued.ok /\ ran[k].job = queued.value
  BY DEF Jobs, Made
<1>2. Decodes(j) /\ checked # <<>>
  BY <1>1 DEF Checking
<1>3. /\ rpc.inputs[j].is = "generate" => rpc.inputs[j].value \in PbGenerateInput
      /\ DecodedInput(rpc.inputs[j]).ok /\ DecodedInput(rpc.inputs[j]).value = checked[j]
      /\ checked[j].is = "generate"
  BY <1>1, <1>2 DEF Stages, Wired, Decodes
<1>4. g.temperature \in Option(Int) /\ g.top_p \in Option(Int) /\ g.max_tokens \in Option(Nat)
  <2> DEFINE i == rpc.inputs[j]
  <2>1. i.is = "generate" => i.value \in PbGenerateInput
    BY <1>3
  <2> HIDE DEF i
  <2>2. /\ i.is = checked[j].is
        /\ i.is = "generate" => /\ g.temperature = i.value.temperature
                                /\ g.top_p = i.value.top_p
                                /\ g.max_tokens = i.value.max_tokens
    BY <1>3, <2>1, InputDecoded, RefusalFails DEF i
  <2>3. i.value \in PbGenerateInput
    BY <1>3, <2>1, <2>2
  <2> QED
    BY <1>3, <2>2, <2>3 DEF PbGenerateInput
<1>5. settings \in GenerateSettings
  <2>1. Model(rpc.model) \in ModelConfig
    BY <1>2, ModelListed DEF Passing, Passed
  <2> QED
    BY <2>1, ServingAssumption DEF ModelConfig
<1> HIDE DEF g, settings
<1>6. settings.sampling \in SamplingDefaults /\ settings.max_new_tokens \in {None} \union Nat
  BY <1>5 DEF GenerateSettings
<1> DEFINE params == InferParams(ResolveSampling(settings.sampling, g),
                                 ResolveMaxTokens(g.max_tokens, settings.max_new_tokens))
<1>7. ran[k].job.params = params
  <2>1. Render(settings, g.messages, WantsReasoning(settings, g.reasoning)).ok
    BY <1>1 DEF Queued, Then
  <2> QED
    BY <1>1, <2>1 DEF Queued, Then, Ok
<1>8. /\ params.sampling = IF ResolveSampling(settings.sampling, g) = None THEN None
                           ELSE ToRkllmSampling(ResolveSampling(settings.sampling, g))
      /\ params.max_new_tokens = AsIntOption(ResolveMaxTokens(g.max_tokens, settings.max_new_tokens))
  BY DEF InferParams
<1> HIDE DEF params
<1>9. params.sampling # None => params.sampling.temperature > 0
  BY <1>4, <1>6, <1>8, OverrideCrosses
<1>10. ASSUME settings.max_new_tokens # None, settings.max_new_tokens < 2^(Width - 1)
       PROVE  /\ params.max_new_tokens # None
              /\ params.max_new_tokens \in 0..settings.max_new_tokens
              /\ g.max_tokens # None => params.max_new_tokens <= g.max_tokens
  <2> DEFINE ceiling == settings.max_new_tokens
             given == AsIntOption(ResolveMaxTokens(g.max_tokens, ceiling))
  <2>1. ceiling \in Nat /\ g.max_tokens \in Nat \union {None} /\ 2^(Width - 1) \in Int
    BY <1>4, <1>6, <1>10, WidthAssumption DEF Option
  <2>2. given \in 0..ceiling /\ (g.max_tokens # None => given <= g.max_tokens)
    BY <1>10, <2>1, BudgetWithinCeiling
  <2> HIDE DEF given
  <2>3. given # None
    BY <2>1, <2>2, NoneAssumption
  <2> QED
    BY <1>8, <2>2, <2>3 DEF given
<1> QED
  BY <1>7, <1>9, <1>10 DEF g, settings

\* No job of a model whose ceiling the runtime's int can hold has a budget above
\* it or above what its request asked for, and no override is at temperature
\* zero, whichever endpoint or client it came from (sampling.rs, rkllm.rs: run).
THEOREM BudgetsKept == Spec => []BudgetsHold
  BY BudgetsFollow, RegistryHolds, StagesHold, CheckingHolds, PassingHolds, JobsHold, PTL

-----------------------------------------------------------------------------
(* What the outputs of a unary call are made of. *)

\* A text is of input k only.
TextOf(output, k) ==
  output.is = "generated" =>
    \A j \in DOMAIN output.value.text : output.value.text[j].input = k

\* The events of a run that are about text are about input k.
EventsOf(events, k) ==
  \A j \in DOMAIN events :
    events[j].ok /\ events[j].value.is = "text_delta" => events[j].value.value.input = k

Filled ==
  /\ step \in {"stream", "answered"} /\ outputs # <<>> /\ cause = None =>
       Len(outputs) = Len(rpc.inputs)
  /\ outputs # <<>> => Operation # "embed" /\ ~Streaming
  /\ \A k \in DOMAIN outputs : TextOf(outputs[k], k)
  /\ step = "run" => Operation # "embed" /\ ~Streaming
                     /\ (Operation = "generate" => EventsOf(script, Turn))

LEMMA ValuesFrom == ASSUME NEW events \in Seq(Results), NEW kind
                    PROVE  \A j \in DOMAIN Values(events, kind) :
                             \E k \in DOMAIN events : events[k].ok /\ events[k].value.is = kind
                                                      /\ Values(events, kind)[j] = events[k].value.value
<1> DEFINE P == {k \in DOMAIN events : events[k].ok /\ events[k].value.is = kind}
           found == Selected(events, P)
<1>1. P \subseteq Nat /\ IsFiniteSet(P)
  <2>1. P \subseteq 1..Len(events) /\ Len(events) \in Nat
    OBVIOUS
  <2>2. IsFiniteSet(1..Len(events))
    BY <2>1, FS_Interval
  <2>3. 1..Len(events) \subseteq Nat
    BY <2>1
  <2> HIDE DEF P
  <2>4. IsFiniteSet(P)
    BY <2>1, <2>2, FS_Subset
  <2> QED
    BY <2>1, <2>3, <2>4
<1> HIDE DEF P
<1>2. \A j \in DOMAIN found : found[j] \in {events[k] : k \in P}
  BY <1>1, SelectedFrom
<1> HIDE DEF found
<1>3. Values(events, kind) = [k \in DOMAIN found |-> found[k].value.value]
  BY DEF Values, found, P
<1>4. \A k \in P : k \in DOMAIN events /\ events[k].ok /\ events[k].value.is = kind
  BY DEF P
<1> QED
  BY <1>2, <1>3, <1>4

LEMMA FoldedText == ASSUME NEW events \in Seq(Results), NEW k, NEW op,
                           Folded(op, events).ok, op = "generate" => EventsOf(events, k)
                    PROVE  TextOf(Folded(op, events).value, k)
<1> DEFINE all  == Collect(events)
           done == Values(events, "done")
           text == Values(events, "text_delta")
           reasoning == TextOption(Values(events, "reasoning_delta"))
           segments == Values(events, "segment")
           generated == Ok(Oneof("generated", [text |-> text, reasoning |-> reasoning,
                                               finish |-> done[1].finish, usage |-> done[1].usage]))
           transcript == Ok(Oneof("transcript", [text |-> TranscriptOf(segments), segments |-> segments]))
<1>1. Folded(op, events) = IF ~all.ok THEN all ELSE IF done = <<>> THEN Err("Runtime")
                           ELSE IF op = "generate" THEN generated ELSE transcript
  BY DEF Folded
<1>2. generated.value.is = "generated" /\ generated.value.value.text = text
      /\ transcript.value.is = "transcript"
  BY DEF Ok, Oneof
<1>3. EventsOf(events, k) => \A j \in DOMAIN text : text[j].input = k
  BY ValuesFrom DEF EventsOf
<1> HIDE DEF all, done, text, generated, transcript
<1>4. Folded(op, events) = IF op = "generate" THEN generated ELSE transcript
  <2>1. ~Err("Runtime").ok
    BY ErrorFields
  <2> QED
    BY <1>1, <2>1
<1> QED
  BY <1>2, <1>3, <1>4 DEF TextOf

\* Whatever a call ends with, it is not the answer of the inputs so far.
LEMMA FilledKept ==
  ASSUME Filled, UNCHANGED <<rpc, outputs>>, step' # "run",
         outputs # <<>> => cause' # None \/ (step' = "start") \/ (step \in {"stream", "answered"} /\ UNCHANGED cause)
  PROVE  Filled'
  BY DEF Filled, TextOf, Operation, Streaming

LEMMA FilledEmpty == ASSUME outputs' = <<>>, step' # "run" PROVE Filled'
  BY DEF Filled

LEMMA StartFilled == ASSUME Stages, Checking, Passing, Jobs, Filled, StartGenerate \/ StartTranscribe \/ StartEmbed
                     PROVE  Filled'
<1>1. step = "start" /\ Listing(outputs) /\ Len(outputs) < Len(checked)
      /\ Len(checked) = Len(rpc.inputs)
  BY DEF StartGenerate, StartTranscribe, StartEmbed, Passing, Checking, Jobs, Running
<1>2. ASSUME NEW kind \in {"InvalidInput", "Unavailable", "Unreachable", "Runtime"}, Fails(Err(kind))
      PROVE  Filled'
  <2>1. Err(kind) # None
    BY <1>2, ErrReported, ReportedIsSome
  <2>2. step' = "answered" /\ UNCHANGED <<rpc, outputs>> /\ cause' = Err(kind)
    BY <1>2 DEF Fails, FailsWith
  <2> QED
    BY <2>1, <2>2, FilledKept
<1>3. ASSUME NEW events, NEW jobs, Run(events, jobs), Operation # "embed",
             Operation = "generate" => EventsOf(events, Turn)
      PROVE  Filled'
  <2>1. /\ UNCHANGED <<rpc, outputs>> /\ script' = events
        /\ step' = IF Streaming THEN "stream" ELSE "run"
    BY <1>3 DEF Run
  <2>2. CASE Streaming
    <3>1. Wired
      BY <1>1 DEF Stages, Served
    <3>2. Len(outputs) < 1
      BY <1>1, <2>2, <3>1 DEF Wired
    <3>3. outputs = <<>>
      BY <1>1, <3>2, ListingAppend DEF Listing
    <3> QED
      BY <2>1, <2>2, <3>3, FilledEmpty
  <2>3. CASE ~Streaming
    <3>1. Turn' = Turn
      BY <2>1 DEF Turn
    <3>2. Operation' = Operation /\ Streaming' = Streaming /\ step' = "run"
      BY <2>1, <2>3 DEF Operation, Streaming
    <3>3. \A k \in DOMAIN outputs : TextOf(outputs[k], k)
      BY DEF Filled
    <3> QED
      BY <1>3, <2>1, <2>3, <3>1, <3>2, <3>3 DEF Filled, TextOf, EventsOf
  <2> QED
    BY <2>2, <2>3
<1>4. CASE StartGenerate
  <2> DEFINE queued == Queued(Model(rpc.model).settings, checked[Turn].value)
  <2>1. Operation = "generate" /\ Turn \in Nat
    BY <1>1, <1>4, ListingAppend DEF StartGenerate, Turn
  <2>2. \/ ~queued.ok /\ Fails(queued)
        \/ Fails(Err("Unavailable"))
        \/ Fails(Busy(BUSY_RETRY_AFTER_MS))
        \/ \E events \in RunsOf(queued.value) : Run(events, <<[input |-> Turn, job |-> queued.value]>>)
    BY <1>4 DEF StartGenerate
  <2>3. ~queued.ok => queued = Err("InvalidInput")
    BY RenderFails
  <2>4. ASSUME Fails(Busy(BUSY_RETRY_AFTER_MS)) PROVE Filled'
    <3>1. Busy(1000) # None
      BY BusyReported, ReportedIsSome
    <3>2. step' = "answered" /\ UNCHANGED <<rpc, outputs>> /\ cause' = Busy(1000)
      BY <2>4 DEF Fails, FailsWith, BUSY_RETRY_AFTER_MS
    <3> QED
      BY <3>1, <3>2, FilledKept
  <2>5. ASSUME NEW events \in RunsOf(queued.value), Run(events, <<[input |-> Turn, job |-> queued.value]>>)
        PROVE  Filled'
    <3> DEFINE n == Turn
    <3>1. /\ events \in Seq(Results)
          /\ \A k \in DOMAIN events :
               IF k = Len(events) THEN Final(events[k])
               ELSE events[k].ok /\ events[k].value \in Deltas /\ events[k].value.value.input = n
      BY <2>1, <2>5, RunsType
    <3> HIDE DEF n
    <3>2. EventsOf(events, n)
      BY <3>1 DEF EventsOf, Final
    <3> QED
      BY <1>3, <2>1, <2>5, <3>2 DEF n
  <2> HIDE DEF queued
  <2> QED
    BY <1>2, <2>2, <2>3, <2>4, <2>5
<1>5. CASE StartTranscribe
  <2>1. Operation = "transcribe"
    BY <1>5 DEF StartTranscribe
  <2>2. \/ Fails(Err("Unreachable")) \/ Fails(Err("Unavailable")) \/ Fails(Err("Runtime"))
        \/ \E events \in SessionsOf : Run(events, <<>>)
    BY <1>5 DEF StartTranscribe
  <2> QED
    BY <1>2, <1>3, <2>1, <2>2
<1>6. CASE StartEmbed
  <2>1. Operation = "embed" /\ outputs' = outputs /\ step' = "answered"
    BY <1>6 DEF StartEmbed, FailsWith
  <2>2. outputs = <<>>
    BY <2>1 DEF Filled
  <2> QED
    BY <2>1, <2>2, FilledEmpty
<1> QED
  BY <1>4, <1>5, <1>6

LEMMA FoldFilled == ASSUME Stages, Checking, Passing, Jobs, Filled, Fold PROVE Filled'
<1> DEFINE output == Folded(Operation, script)
           v == output.value
<1>1. step = "run" /\ Listing(outputs) /\ Len(outputs) < Len(checked)
      /\ Len(checked) = Len(rpc.inputs) /\ script \in Seq(Results)
      /\ Operation # "embed" /\ ~Streaming /\ (Operation = "generate" => EventsOf(script, Turn))
  BY DEF Fold, Passing, Checking, Jobs, Running, Filled
<1>2. output.ok => TextOf(v, Turn)
  BY <1>1, FoldedText
<1>3. output.ok \/ output \in RunErrors
  BY <1>1, FoldedFails
<1>4. \/ ~output.ok /\ Fails(output)
      \/ /\ output.ok /\ outputs' = Append(outputs, v) /\ UNCHANGED <<rpc, checked>>
         /\ step' \in {"start", "answered"}
         /\ step' = "answered" => ~(Len(outputs') < Len(checked))
  BY DEF Fold
<1> HIDE DEF v, output
<1>5. CASE ~output.ok /\ Fails(output)
  <2>1. output # None
    BY <1>3, <1>5, RunErrorReported, ReportedIsSome
  <2>2. step' = "answered" /\ UNCHANGED <<rpc, outputs>> /\ cause' = output
    BY <1>5 DEF Fails, FailsWith
  <2> QED
    BY <2>1, <2>2, FilledKept
<1>6. CASE /\ output.ok /\ outputs' = Append(outputs, v) /\ UNCHANGED <<rpc, checked>>
           /\ step' \in {"start", "answered"}
           /\ step' = "answered" => ~(Len(outputs') < Len(checked))
  <2>1. /\ Len(outputs) \in Nat /\ Len(outputs') = Len(outputs) + 1
        /\ DOMAIN outputs = 1..Len(outputs)
        /\ DOMAIN outputs' = 1..(Len(outputs) + 1)
        /\ \A k \in 1..Len(outputs) : outputs'[k] = outputs[k]
        /\ outputs'[Len(outputs) + 1] = v
    BY <1>1, <1>6, ListingAppend
  <2>2. Len(checked) \in Nat
    BY ListingAppend DEF Checking
  <2>3. step' = "answered" => Len(outputs') = Len(rpc'.inputs)
    BY <1>1, <1>6, <2>1, <2>2
  <2>4. \A k \in DOMAIN outputs' : TextOf(outputs'[k], k)
    BY <1>2, <1>6, <2>1 DEF Filled, Turn
  <2>5. Operation' = Operation /\ Streaming' = Streaming
    BY <1>6 DEF Operation, Streaming
  <2> QED
    BY <1>1, <1>6, <2>3, <2>4, <2>5 DEF Filled, TextOf
<1> QED
  BY <1>4, <1>5, <1>6

LEMMA NextFilled == ASSUME Stages, Checking, Passing, Jobs, Filled, [Next]_vars PROVE Filled'
<1>1. CASE Frontend
  <2>1. step = "frontend" /\ UNCHANGED outputs /\ step' \in {"rpc", "answered"}
    BY <1>1 DEF Frontend, Unkeyed, Generation, Upload, Ask, NotYet, Keyed, Reply, Send
  <2>2. outputs = <<>>
    BY <2>1 DEF Stages
  <2> QED
    BY <2>1, <2>2, FilledEmpty
<1>2. CASE Lost \/ Tell
  <2>1. step = "rpc" /\ UNCHANGED outputs /\ step' = "answered"
    BY <1>2 DEF Lost, Tell, FailsWith
  <2>2. outputs = <<>>
    BY <2>1 DEF Stages
  <2> QED
    BY <2>1, <2>2, FilledEmpty
<1>3. CASE Stream
  <2>1. step = "stream" /\ UNCHANGED <<rpc, outputs>> /\ step' \in {"stream", "answered"}
    BY <1>3 DEF Stream, TakeEvent, EndOfStream
  <2>2. outputs = <<>>
    <3>1. Wired /\ Len(outputs) < Len(rpc.inputs) /\ cause = None
      BY <2>1 DEF Stages, Served, Checking, Jobs, Running
    <3>2. outputs # <<>> => Len(outputs) = Len(rpc.inputs)
      BY <2>1, <3>1 DEF Filled
    <3>3. Len(outputs) \in Nat /\ Len(rpc.inputs) \in Nat
      BY <3>1, ListingAppend DEF Passing, Wired
    <3> QED
      BY <3>1, <3>2, <3>3
  <2> QED
    BY <2>1, <2>2, FilledEmpty
<1>4. CASE Service
  <2>1. CASE Admit \/ CheckInput
    <3>1. step \in {"rpc", "check"} /\ UNCHANGED outputs /\ step' # "run"
      BY <2>1 DEF Admit, CheckInput, Fails, FailsWith, Move
    <3>2. outputs = <<>>
      BY <3>1 DEF Stages, Checking
    <3> QED
      BY <3>1, <3>2, FilledEmpty
  <2> QED
    BY <1>4, <2>1, StartFilled, FoldFilled DEF Service
<1>5. CASE \E c \in Calls : Arrive(c)
  <2>1. step = "idle" /\ UNCHANGED outputs /\ step' \in {"rpc", "frontend"}
    BY <1>5 DEF Arrive
  <2>2. outputs = <<>>
    BY <2>1 DEF Stages
  <2> QED
    BY <2>1, <2>2, FilledEmpty
<1>6. CASE Over
  BY <1>6, FilledEmpty DEF Over
<1>7. CASE UNCHANGED <<local, promised>>
  BY <1>7 DEF local, Filled, TextOf, EventsOf, Turn, Operation, Streaming
<1>8. CASE \E i \in Ids : CrashUnder(i)
  <2>1. UNCHANGED <<step, rpc, outputs, cause>>
        /\ (script' = script \/ \E n \in 0..Len(script) : script' = SubSeq(script, 1, n))
    BY <1>8 DEF CrashUnder
  <2>2. script \in Seq(Results)
    BY DEF Passing
  <2>3. \A j \in DOMAIN script' : j \in DOMAIN script /\ script'[j] = script[j]
    BY <2>1, <2>2
  <2>4. Turn' = Turn /\ Operation' = Operation /\ Streaming' = Streaming
    BY <2>1 DEF Turn, Operation, Streaming
  <2>5. \A n : EventsOf(script, n) => EventsOf(script', n)
    BY <2>3 DEF EventsOf
  <2> QED
    BY <2>1, <2>4, <2>5 DEF Filled, TextOf
<1> QED
  BY <1>1, <1>2, <1>3, <1>4, <1>5, <1>6, <1>7, <1>8, Steps

LEMMA FilledHolds == Spec => []Filled
<1>1. Init => Filled
  BY DEF Init, Idle, Filled
<1>2. Stages /\ Checking /\ Passing /\ Jobs /\ Filled /\ [Next]_vars => Filled'
  BY NextFilled
<1> QED
  BY <1>1, <1>2, StagesHold, CheckingHolds, PassingHolds, JobsHold, PTL DEF Spec

LEMMA AllOrNothingFollows == ASSUME Stages, Checking, Jobs, Filled PROVE AllOrNothing
<1>1. ASSUME ran # <<>>, NEW k \in DOMAIN rpc.inputs
      PROVE  DecodedInput(rpc.inputs[k]).ok /\ DecodedInput(rpc.inputs[k]).value.is = Operation
  <2>1. checked # <<>>
    <3>1. \E j \in DOMAIN ran : TRUE
      BY <1>1, ListingAppend DEF Jobs, Listing
    <3> QED
      BY <3>1 DEF Jobs, Made
  <2>2. Wired /\ Len(checked) = Len(rpc.inputs)
    BY <1>1, <2>1 DEF Stages, Checking
  <2>3. DOMAIN rpc.inputs = 1..Len(rpc.inputs) /\ DOMAIN checked = 1..Len(checked)
    BY <2>2, ListingAppend DEF Wired, Checking
  <2>4. Decodes(k)
    BY <2>2, <2>3 DEF Checking
  <2> QED
    BY <2>4 DEF Decodes
<1> QED
  BY <1>1 DEF AllOrNothing, Filled, TextOf

\* A call of several inputs runs none unless all are sound, and answers with
\* one output for each, made of its own run (service.rs: invoke).
THEOREM AllOrNothingKept == Spec => []AllOrNothing
  BY AllOrNothingFollows, StagesHold, CheckingHolds, JobsHold, FilledHolds, PTL

-----------------------------------------------------------------------------
(* What the loops of the two streaming endpoints write. *)

LEMMA ListingConcat == ASSUME NEW s, NEW t, Listing(s), Listing(t)
                       PROVE  /\ Listing(s \o t)
                              /\ Len(s) \in Nat /\ Len(t) \in Nat /\ Len(s \o t) = Len(s) + Len(t)
                              /\ DOMAIN s = 1..Len(s) /\ DOMAIN t = 1..Len(t)
                              /\ DOMAIN (s \o t) = 1..(Len(s) + Len(t))
                              /\ \A k \in 1..Len(s) : (s \o t)[k] = s[k]
                              /\ \A k \in 1..Len(t) : (s \o t)[Len(s) + k] = t[k]
<1> DEFINE S == {s[k] : k \in DOMAIN s} \union {t[k] : k \in DOMAIN t}
           u == s \o t
<1>1. s \in Seq(S) /\ t \in Seq(S)
  BY DEF Listing
<1> HIDE DEF S
<1>2. /\ u \in Seq(S) /\ Len(s) \in Nat /\ Len(t) \in Nat /\ Len(u) = Len(s) + Len(t)
      /\ DOMAIN s = 1..Len(s) /\ DOMAIN t = 1..Len(t) /\ DOMAIN u = 1..(Len(s) + Len(t))
      /\ \A k \in 1..Len(s) : u[k] = s[k]
      /\ \A k \in 1..Len(t) : u[Len(s) + k] = t[k]
  BY <1>1
<1> HIDE DEF u
<1>3. u \in Seq({u[k] : k \in DOMAIN u})
  BY <1>2
<1> QED
  BY <1>2, <1>3 DEF Listing, u

LEMMA ListingTuples ==
  /\ Listing(<<>>)
  /\ \A a : Listing(<<a>>) /\ DOMAIN <<a>> = {1} /\ Len(<<a>>) = 1
  /\ \A a, b : Listing(<<a, b>>) /\ DOMAIN <<a, b>> = {1, 2} /\ Len(<<a, b>>) = 2
<1>1. Listing(<<>>)
  BY DEF Listing
<1>2. ASSUME NEW a PROVE Listing(<<a>>) /\ DOMAIN <<a>> = {1} /\ Len(<<a>>) = 1
  BY DEF Listing
<1>3. ASSUME NEW a, NEW b PROVE Listing(<<a, b>>) /\ DOMAIN <<a, b>> = {1, 2} /\ Len(<<a, b>>) = 2
  BY DEF Listing
<1> QED
  BY <1>1, <1>2, <1>3

\* Nothing of it ends a stream, and the last of it does.
Open(s)   == Listing(s) /\ \A k \in DOMAIN s : ~IsEnd(s[k])
Closed(s) == Listing(s) /\ s # <<>> /\ \A k \in DOMAIN s : IsEnd(s[k]) <=> k = Len(s)

LEMMA OpenConcat == ASSUME NEW s, NEW t, Open(s), Open(t) PROVE Open(s \o t)
<1> DEFINE u == s \o t
<1>1. Listing(s) /\ Listing(t)
  BY DEF Open
<1>2. /\ Listing(u) /\ Len(s) \in Nat /\ Len(t) \in Nat
      /\ DOMAIN s = 1..Len(s) /\ DOMAIN t = 1..Len(t) /\ DOMAIN u = 1..(Len(s) + Len(t))
      /\ \A k \in 1..Len(s) : u[k] = s[k]
      /\ \A k \in 1..Len(t) : u[Len(s) + k] = t[k]
  BY <1>1, ListingConcat
<1> HIDE DEF u
<1>3. ASSUME NEW k \in DOMAIN u PROVE ~IsEnd(u[k])
  <2>1. k \in 1..Len(s) \/ (k - Len(s) \in 1..Len(t) /\ k = Len(s) + (k - Len(s)))
    BY <1>2
  <2>2. (\E j \in DOMAIN s : u[k] = s[j]) \/ (\E j \in DOMAIN t : u[k] = t[j])
    BY <1>2, <2>1
  <2> QED
    BY <2>2 DEF Open
<1> QED
  BY <1>2, <1>3 DEF Open, u

LEMMA ClosedConcat == ASSUME NEW s, NEW t, Open(s), Closed(t) PROVE Closed(s \o t)
<1> DEFINE u == s \o t
<1>1. Listing(s) /\ Listing(t) /\ t # <<>>
  BY DEF Open, Closed
<1>2. /\ Listing(u) /\ Len(s) \in Nat /\ Len(t) \in Nat
      /\ DOMAIN s = 1..Len(s) /\ DOMAIN t = 1..Len(t) /\ DOMAIN u = 1..(Len(s) + Len(t))
      /\ Len(u) = Len(s) + Len(t)
      /\ \A k \in 1..Len(s) : u[k] = s[k]
      /\ \A k \in 1..Len(t) : u[Len(s) + k] = t[k]
  BY <1>1, ListingConcat
<1>3. Len(t) > 0
  <2>1. t \in Seq({t[k] : k \in DOMAIN t})
    BY <1>1 DEF Listing
  <2> QED
    BY <1>1, <2>1
<1> HIDE DEF u
<1>4. ASSUME NEW k \in DOMAIN u PROVE IsEnd(u[k]) <=> k = Len(u)
  <2>1. CASE k \in 1..Len(s)
    <3>1. k \in DOMAIN s /\ u[k] = s[k] /\ k # Len(u)
      BY <1>2, <1>3, <2>1
    <3> QED
      BY <3>1 DEF Open
  <2>2. CASE k \notin 1..Len(s)
    <3> DEFINE j == k - Len(s)
    <3>1. j \in DOMAIN t /\ k = Len(s) + j /\ (k = Len(u) <=> j = Len(t))
      BY <1>2, <2>2
    <3> HIDE DEF j
    <3>2. u[k] = t[j]
      BY <1>2, <3>1
    <3> QED
      BY <3>1, <3>2 DEF Closed
  <2> QED
    BY <2>1, <2>2
<1>5. u # <<>>
  BY <1>2, <1>3
<1> QED
  BY <1>2, <1>4, <1>5 DEF Closed, u

LEMMA OpenTuples == /\ Open(<<>>)
                    /\ \A a : ~IsEnd(a) => Open(<<a>>)
                    /\ \A a : IsEnd(a) => Closed(<<a>>)
<1>1. \A a : <<a>>[1] = a /\ <<a>> # <<>>
  OBVIOUS
<1> QED
  BY <1>1, ListingTuples DEF Open, Closed

LEMMA OpenAppend == ASSUME NEW s, NEW a, Open(s)
                    PROVE  /\ ~IsEnd(a) => Open(Append(s, a))
                           /\ IsEnd(a) => Closed(Append(s, a))
<1>1. Append(s, a) = s \o <<a>>
  BY ListingPush DEF Open
<1> QED
  BY <1>1, OpenTuples, OpenConcat, ClosedConcat

\* Events, before they are numbered.
Terminals == {"response.completed", "response.incomplete", "response.failed"}

Quiet(events) == Listing(events) /\ \A k \in DOMAIN events : events[k].type \notin Terminals

Numbered(events, n) == [k \in DOMAIN events |-> [number |-> n + k - 1, event |-> events[k]]]

LEMMA QuietConcat == ASSUME NEW s, NEW t, Quiet(s), Quiet(t) PROVE Quiet(s \o t)
<1> DEFINE u == s \o t
<1>1. Listing(s) /\ Listing(t)
  BY DEF Quiet
<1>2. /\ Listing(u) /\ Len(s) \in Nat /\ Len(t) \in Nat
      /\ DOMAIN s = 1..Len(s) /\ DOMAIN t = 1..Len(t) /\ DOMAIN u = 1..(Len(s) + Len(t))
      /\ \A k \in 1..Len(s) : u[k] = s[k]
      /\ \A k \in 1..Len(t) : u[Len(s) + k] = t[k]
  BY <1>1, ListingConcat
<1> HIDE DEF u
<1>3. ASSUME NEW k \in DOMAIN u PROVE u[k].type \notin Terminals
  <2>1. k \in 1..Len(s) \/ (k - Len(s) \in 1..Len(t) /\ k = Len(s) + (k - Len(s)))
    BY <1>2
  <2>2. (\E j \in DOMAIN s : u[k] = s[j]) \/ (\E j \in DOMAIN t : u[k] = t[j])
    BY <1>2, <2>1
  <2> QED
    BY <2>2 DEF Quiet
<1> QED
  BY <1>2, <1>3 DEF Quiet, u

LEMMA NumberedListing == ASSUME NEW events, NEW n, Listing(events)
                         PROVE  /\ Listing(Numbered(events, n)) /\ Len(Numbered(events, n)) = Len(events)
                                /\ DOMAIN Numbered(events, n) = 1..Len(events)
                                /\ \A k \in DOMAIN events : Numbered(events, n)[k].event = events[k]
<1> DEFINE t == Numbered(events, n)
           Event(k) == [number |-> n + k - 1, event |-> events[k]]
<1>1. Len(events) \in Nat /\ DOMAIN events = 1..Len(events)
  BY ListingAppend
<1>2. t = [k \in 1..Len(events) |-> Event(k)]
  BY <1>1 DEF Numbered
<1>3. \A k \in 1..Len(events) : Event(k).event = events[k]
  OBVIOUS
<1> HIDE DEF Event, t
<1>4. t \in Seq({t[k] : k \in DOMAIN t}) /\ Len(t) = Len(events) /\ DOMAIN t = 1..Len(events)
  BY <1>1, <1>2
<1>5. \A k \in 1..Len(events) : t[k] = Event(k)
  BY <1>2
<1> QED
  BY <1>1, <1>3, <1>4, <1>5 DEF Listing, t

LEMMA NumberedOpen == ASSUME call.kind = "responses", NEW events, NEW n, Quiet(events)
                      PROVE  Open(Numbered(events, n))
<1> DEFINE t == Numbered(events, n)
<1>1. /\ Listing(t) /\ DOMAIN t = DOMAIN events
      /\ \A k \in DOMAIN events : t[k].event = events[k]
  BY NumberedListing, ListingAppend DEF Quiet
<1> HIDE DEF t
<1>2. \A k \in DOMAIN t : ~IsEnd(t[k])
  BY <1>1 DEF Quiet, IsEnd, Terminals
<1> QED
  BY <1>1, <1>2 DEF Open, t

LEMMA NumberedClosed == ASSUME call.kind = "responses", NEW events, NEW n, Listing(events), events # <<>>,
                               \A k \in DOMAIN events : events[k].type \in Terminals <=> k = Len(events)
                        PROVE  Closed(Numbered(events, n))
<1> DEFINE t == Numbered(events, n)
<1>1. /\ Listing(t) /\ DOMAIN t = DOMAIN events /\ Len(t) = Len(events)
      /\ \A k \in DOMAIN events : t[k].event = events[k]
  BY NumberedListing, ListingAppend
<1> HIDE DEF t
<1>2. \A k \in DOMAIN t : IsEnd(t[k]) <=> k = Len(t)
  BY <1>1 DEF IsEnd, Terminals
<1>3. t # <<>>
  <2>1. events \in Seq({events[k] : k \in DOMAIN events})
    BY DEF Listing
  <2>2. Len(events) > 0
    BY <2>1
  <2> QED
    BY <1>1, <2>2
<1> QED
  BY <1>1, <1>2, <1>3 DEF Closed, t

\* The loop goes on: nothing written so far says how the run ended.
Writing(h) == {"sent", "done", "over"} \subseteq DOMAIN h /\ Open(h.sent)

LEMMA LastOf == ASSUME NEW s, NEW a, Listing(s)
                PROVE  Last(Append(s, a)) = a /\ Last(s \o <<a>>) = a
<1>1. Len(Append(s, a)) = Len(s) + 1 /\ Append(s, a)[Len(s) + 1] = a /\ s \o <<a>> = Append(s, a)
  BY ListingAppend, ListingPush
<1> QED
  BY <1>1 DEF Last

LEMMA ChatTakes ==
  ASSUME call.kind = "chat", NEW h, Writing(h), NEW e
  PROVE  /\ e.ok /\ e.value \in Deltas \union Segments =>
              Writing(ChatEvent(h, e)) /\ ChatEvent(h, e).done = h.done
         /\ e.ok /\ e.value \in Dones =>
              Writing(ChatEvent(h, e)) /\ ChatEvent(h, e).done = e.value.value
         /\ ~e.ok => /\ Closed(ChatEvent(h, e).sent)
                     /\ Last(ChatEvent(h, e).sent).value = ApiError(e)
<1> USE DEF Writing
<1>1. Listing(h.sent)
  BY DEF Open
<1>2. CASE ~e.ok
  <2> DEFINE a == Chunk("error", ApiError(e))
  <2>1. IsEnd(a) /\ a.value = ApiError(e)
    BY DEF IsEnd, Chunk
  <2> HIDE DEF a
  <2>2. ChatEvent(h, e).sent = Append(h.sent, a)
    BY <1>2 DEF ChatEvent, ChatFailed, a
  <2>3. Closed(Append(h.sent, a)) /\ Last(Append(h.sent, a)) = a
    BY <1>1, <2>1, OpenAppend, LastOf
  <2> QED
    BY <1>2, <2>1, <2>2, <2>3
<1>3. ASSUME e.ok, e.value \in Deltas
      PROVE  Writing(ChatEvent(h, e)) /\ ChatEvent(h, e).done = h.done
  <2>1. e.value.is \in {"text_delta", "reasoning_delta"}
    BY <1>3 DEF Deltas
  <2> DEFINE a == Chunk(IF e.value.is = "text_delta" THEN "content" ELSE "reasoning_content",
                        e.value.value)
  <2>2. ~IsEnd(a)
    BY DEF IsEnd, Chunk
  <2>3. ChatEvent(h, e) = [h EXCEPT !.sent = Append(h.sent, a)]
    BY <1>3, <2>1 DEF ChatEvent
  <2> HIDE DEF a
  <2>4. Open(Append(h.sent, a))
    BY <2>2, OpenAppend
  <2> QED
    BY <2>3, <2>4
<1>4. ASSUME e.ok, e.value \in Segments
      PROVE  Writing(ChatEvent(h, e)) /\ ChatEvent(h, e).done = h.done
  BY <1>4 DEF ChatEvent, Segments
<1>5. ASSUME e.ok, e.value \in Dones
      PROVE  Writing(ChatEvent(h, e)) /\ ChatEvent(h, e).done = e.value.value
  BY <1>5 DEF ChatEvent, Dones
<1> QED
  BY <1>2, <1>3, <1>4, <1>5

LEMMA ChatEnds == ASSUME call.kind = "chat", NEW h, Writing(h)
                  PROVE  IF h.done = None THEN Open(ChatEnd(h).sent) ELSE Closed(ChatEnd(h).sent)
<1> USE DEF Writing
<1>1. CASE h.done = None
  BY <1>1 DEF ChatEnd
<1>2. CASE h.done # None
  <2> DEFINE finish == Chunk("finish", h.done.finish)
             usage == IF h.usageAsked THEN <<Chunk("usage", h.done.usage)>> ELSE <<>>
             end == Chunk("[DONE]", None)
  <2>1. ChatEnd(h).sent = ((h.sent \o <<finish>>) \o usage) \o <<end>>
    BY <1>2 DEF ChatEnd
  <2>2. Open(<<finish>>) /\ Open(usage) /\ Closed(<<end>>)
    <3>1. ~IsEnd(finish) /\ ~IsEnd(Chunk("usage", h.done.usage)) /\ IsEnd(end)
      BY DEF IsEnd, Chunk
    <3> QED
      BY <3>1, OpenTuples
  <2> HIDE DEF finish, usage, end
  <2>3. Open((h.sent \o <<finish>>) \o usage)
    BY <2>2, OpenConcat
  <2> QED
    BY <1>2, <2>1, <2>2, <2>3, ClosedConcat
<1> QED
  BY <1>1, <1>2

LEMMA EmitWrites ==
  ASSUME call.kind = "responses", NEW h, Writing(h), NEW events
  PROVE  /\ Emit(h, events).sent = h.sent \o Numbered(events, h.seq)
         /\ Emit(h, events).done = h.done /\ DOMAIN Emit(h, events) = DOMAIN h
         /\ Quiet(events) => Writing(Emit(h, events))
<1>1. Emit(h, events).sent = h.sent \o Numbered(events, h.seq)
  BY DEF Writing, Emit, Numbered
<1>2. Emit(h, events).done = h.done /\ DOMAIN Emit(h, events) = DOMAIN h
  BY DEF Emit, Writing
<1>3. Quiet(events) => Open(Emit(h, events).sent)
  BY <1>1, NumberedOpen, OpenConcat DEF Writing
<1> QED
  BY <1>1, <1>2, <1>3 DEF Writing

LEMMA QuietTuples == /\ Quiet(<<>>)
                     /\ \A a : a.type \notin Terminals => Quiet(<<a>>)
                     /\ \A a, b : a.type \notin Terminals /\ b.type \notin Terminals => Quiet(<<a, b>>)
<1>1. \A a, b : <<a>>[1] = a /\ <<a, b>>[1] = a /\ <<a, b>>[2] = b
  OBVIOUS
<1> QED
  BY <1>1, ListingTuples DEF Quiet

LEMMA SseType == \A type, item, index, v : Sse(type, item, index, v).type = type
                                           /\ Sse(type, item, index, v).value = v
  BY DEF Sse

LEMMA ItemsQuiet == ASSUME NEW h PROVE Quiet(CloseReasoning(h)) /\ Quiet(OpenMessage(h))
  BY SseType, QuietTuples DEF CloseReasoning, OpenMessage, Terminals

\* What a delta changes beside the events is not looked at here.
LEMMA DeltaWrites ==
  ASSUME call.kind = "responses", NEW h, Writing(h), NEW delta
  PROVE  /\ Writing(ReasoningDelta(h, delta)) /\ ReasoningDelta(h, delta).done = h.done
         /\ Writing(TextDelta(h, delta)) /\ TextDelta(h, delta).done = h.done
<1>1. Writing(ReasoningDelta(h, delta)) /\ ReasoningDelta(h, delta).done = h.done
  <2> DEFINE g == [h EXCEPT !.reasoning_open = TRUE, !.reasoning = Append(@, delta)]
             added == IF h.reasoning_open THEN <<>>
                      ELSE <<Sse("response.output_item.added", "reasoning", 0, ReasoningItem(<<>>))>>
             told == <<Sse("response.reasoning_text.delta", "reasoning", 0, delta)>>
  <2>1. ReasoningDelta(h, delta) = Emit(g, added \o told)
    BY DEF ReasoningDelta
  <2>2. Writing(g) /\ g.done = h.done
    BY DEF Writing
  <2>3. Quiet(added) /\ Quiet(told)
    BY SseType, QuietTuples DEF Terminals
  <2> HIDE DEF g, added, told
  <2> QED
    BY <2>1, <2>2, <2>3, QuietConcat, EmitWrites
<1>2. Writing(TextDelta(h, delta)) /\ TextDelta(h, delta).done = h.done
  <2> DEFINE g == [h EXCEPT !.reasoning_closed = h.reasoning_open, !.message_open = TRUE,
                            !.text = Append(@, delta)]
             told == <<Sse("response.output_text.delta", "message", MessageIndex(h), delta)>>
  <2>1. TextDelta(h, delta) = Emit(g, (CloseReasoning(h) \o OpenMessage(h)) \o told)
    BY DEF TextDelta
  <2>2. Writing(g) /\ g.done = h.done
    BY DEF Writing
  <2>3. Quiet(told)
    BY SseType, QuietTuples DEF Terminals
  <2> HIDE DEF g, told
  <2> QED
    BY <2>1, <2>2, <2>3, ItemsQuiet, QuietConcat, EmitWrites
<1> QED
  BY <1>1, <1>2

LEMMA ResponsesTakes ==
  ASSUME call.kind = "responses", NEW h, Writing(h), NEW e
  PROVE  /\ e.ok /\ e.value \in Deltas \union Segments =>
              Writing(ResponsesEvent(h, e)) /\ ResponsesEvent(h, e).done = h.done
         /\ e.ok /\ e.value \in Dones =>
              Writing(ResponsesEvent(h, e)) /\ ResponsesEvent(h, e).done = e.value.value
         /\ ~e.ok => /\ Closed(ResponsesEvent(h, e).sent)
                     /\ Last(ResponsesEvent(h, e).sent).event.value = ApiError(e)
<1>1. CASE ~e.ok
  <2> DEFINE a == Sse("response.failed", None, None, ApiError(e))
             n == [number |-> h.seq + 1 - 1, event |-> a]
  <2>1. a.type = "response.failed" /\ a.value = ApiError(e) /\ <<a>>[1] = a
    BY SseType
  <2>2. ResponsesEvent(h, e).sent = Emit(h, <<a>>).sent
    <3>1. "sent" \in DOMAIN Emit(h, <<a>>)
      BY EmitWrites DEF Writing
    <3> HIDE DEF a
    <3> QED
      BY <1>1, <3>1 DEF ResponsesEvent, ResponsesFailed, a
  <2> HIDE DEF a
  <2>3. Numbered(<<a>>, h.seq) = <<n>>
    <3>1. DOMAIN <<a>> = 1..1
      OBVIOUS
    <3>2. Numbered(<<a>>, h.seq) = [k \in 1..1 |-> [number |-> h.seq + k - 1, event |-> <<a>>[k]]]
      BY <3>1 DEF Numbered
    <3> QED
      BY <2>1, <3>2
  <2>4. n.event = a
    OBVIOUS
  <2> HIDE DEF n
  <2>5. ResponsesEvent(h, e).sent = h.sent \o <<n>>
    BY <2>2, <2>3, EmitWrites
  <2>6. IsEnd(n)
    BY <2>1, <2>4 DEF IsEnd
  <2>7. Closed(h.sent \o <<n>>) /\ Last(h.sent \o <<n>>) = n
    BY <2>6, OpenTuples, ClosedConcat, LastOf DEF Writing, Open
  <2> QED
    BY <1>1, <2>1, <2>4, <2>5, <2>7
<1>2. ASSUME e.ok, e.value \in Deltas
      PROVE  Writing(ResponsesEvent(h, e)) /\ ResponsesEvent(h, e).done = h.done
  <2>1. e.value.is \in {"text_delta", "reasoning_delta"}
    BY <1>2 DEF Deltas
  <2>2. ResponsesEvent(h, e) = IF e.value.is = "text_delta" THEN TextDelta(h, e.value.value)
                               ELSE ReasoningDelta(h, e.value.value)
    BY <1>2, <2>1 DEF ResponsesEvent
  <2> QED
    BY <2>2, DeltaWrites
<1>3. ASSUME e.ok, e.value \in Segments
      PROVE  Writing(ResponsesEvent(h, e)) /\ ResponsesEvent(h, e).done = h.done
  BY <1>3 DEF ResponsesEvent, Segments
<1>4. ASSUME e.ok, e.value \in Dones
      PROVE  Writing(ResponsesEvent(h, e)) /\ ResponsesEvent(h, e).done = e.value.value
  BY <1>4 DEF ResponsesEvent, Dones, Writing
<1> QED
  BY <1>1, <1>2, <1>3, <1>4

LEMMA ResponsesEnds ==
  ASSUME call.kind = "responses", NEW h, Writing(h)
  PROVE  IF h.done = None THEN Open(ResponsesEnd(h).sent)
         ELSE /\ Closed(ResponsesEnd(h).sent)
              /\ Last(ResponsesEnd(h).sent).event.value = ResponseJson(FinalOutput(h), h.done)
<1>1. CASE h.done = None
  BY <1>1 DEF ResponsesEnd, Writing
<1>2. CASE h.done # None
  <2> DEFINE at == MessageIndex(h)
             a == Sse("response.output_text.done", "message", at, h.text)
             b == Sse("response.content_part.done", "message", at, h.text)
             c == Sse("response.output_item.done", "message", at, MessageItem(h.text))
             d == Sse(TerminalEvent(h.done.finish), None, None, ResponseJson(FinalOutput(h), h.done))
             before == CloseReasoning(h) \o OpenMessage(h)
             events == before \o <<a, b, c, d>>
  <2>1. ResponsesEnd(h) = [Emit(h, events) EXCEPT !.over = TRUE]
    BY <1>2 DEF ResponsesEnd
  <2>2. /\ a.type \notin Terminals /\ b.type \notin Terminals /\ c.type \notin Terminals
        /\ d.type \in Terminals /\ d.value = ResponseJson(FinalOutput(h), h.done)
    BY SseType DEF Terminals, TerminalEvent
  <2> HIDE DEF a, b, c, d
  <2>3. Quiet(before)
    BY ItemsQuiet, QuietConcat
  <2> HIDE DEF before
  <2>4. Listing(<<a, b, c, d>>) /\ Len(<<a, b, c, d>>) = 4
    BY DEF Listing
  <2>5. /\ Listing(events) /\ events # <<>> /\ events[Len(events)] = d
        /\ \A k \in DOMAIN events : events[k].type \in Terminals <=> k = Len(events)
    <3> DEFINE last4 == <<a, b, c, d>>
    <3>1. last4[1] = a /\ last4[2] = b /\ last4[3] = c /\ last4[4] = d /\ Len(last4) = 4 /\ Listing(last4)
      BY <2>4
    <3> HIDE DEF last4
    <3>2. Listing(before)
      BY <2>3 DEF Quiet
    <3> DEFINE n == Len(before)
               u == before \o last4
    <3>3. /\ Listing(u) /\ n \in Nat /\ DOMAIN before = 1..n /\ DOMAIN u = 1..(n + 4) /\ Len(u) = n + 4
          /\ \A k \in 1..n : u[k] = before[k]
          /\ \A k \in 1..4 : u[n + k] = last4[k]
      <4>1. /\ Listing(u) /\ Len(before) \in Nat /\ DOMAIN before = 1..Len(before)
            /\ DOMAIN u = 1..(Len(before) + Len(last4)) /\ Len(u) = Len(before) + Len(last4)
            /\ \A k \in 1..Len(before) : u[k] = before[k]
            /\ \A k \in 1..Len(last4) : u[Len(before) + k] = last4[k]
        <5>1. Listing(last4)
          BY <3>1
        <5> QED
          BY <3>2, <5>1, ListingConcat
      <4> QED
        BY <3>1, <4>1
    <3> HIDE DEF n, u
    <3>4. u[n + 1] = a /\ u[n + 2] = b /\ u[n + 3] = c /\ u[n + 4] = d
      BY <3>1, <3>3
    <3>5. ASSUME NEW k \in DOMAIN u PROVE u[k].type \in Terminals <=> k = Len(u)
      <4>1. k \in 1..n \/ k = n + 1 \/ k = n + 2 \/ k = n + 3 \/ k = n + 4
        BY <3>3
      <4>2. CASE k \in 1..n
        BY <2>3, <3>3, <4>2 DEF Quiet
      <4>3. CASE k = n + 1 \/ k = n + 2 \/ k = n + 3
        BY <2>2, <3>3, <3>4, <4>3
      <4>4. CASE k = n + 4
        BY <2>2, <3>3, <3>4, <4>4
      <4> QED
        BY <4>1, <4>2, <4>3, <4>4
    <3>6. u # <<>>
      BY <3>3
    <3> QED
      BY <3>3, <3>4, <3>5, <3>6 DEF u, last4
  <2> HIDE DEF events
  <2>6. Closed(Numbered(events, h.seq))
    BY <2>5, NumberedClosed
  <2>7. ResponsesEnd(h).sent = h.sent \o Numbered(events, h.seq)
    BY <2>1, EmitWrites DEF Writing
  <2>8. Closed(ResponsesEnd(h).sent)
    BY <2>6, <2>7, ClosedConcat DEF Writing
  <2>9. Last(ResponsesEnd(h).sent).event = d
    <3> DEFINE t == Numbered(events, h.seq)
               m == Len(events)
    <3>1. /\ Listing(t) /\ Len(t) = m /\ DOMAIN t = 1..m /\ m \in Nat /\ DOMAIN events = 1..m
          /\ \A k \in DOMAIN events : t[k].event = events[k]
      BY <2>5, NumberedListing, ListingAppend
    <3>2. Listing(h.sent)
      BY DEF Writing, Open
    <3>3. m # 0
      <4>1. events \in Seq({events[k] : k \in DOMAIN events})
        BY <2>5 DEF Listing
      <4> QED
        BY <2>5, <4>1
    <3> HIDE DEF t, m
    <3>4. /\ Len(h.sent \o t) = Len(h.sent) + m
          /\ \A k \in 1..m : (h.sent \o t)[Len(h.sent) + k] = t[k]
      BY <3>1, <3>2, ListingConcat
    <3>5. m \in 1..m /\ m \in DOMAIN events
      BY <3>1, <3>3
    <3>6. Last(h.sent \o t) = t[m]
      BY <3>4, <3>5 DEF Last
    <3>7. t[m].event = d
      BY <2>5, <3>1, <3>5 DEF m
    <3> QED
      BY <2>7, <3>6, <3>7 DEF t
  <2> QED
    BY <1>2, <2>2, <2>8, <2>9
<1> QED
  BY <1>1, <1>2

-----------------------------------------------------------------------------
(* How a stream ends, and what is told of a failure. *)

\* While the loop runs: the end of the run is the last of what has not been
\* taken, unless a crash has cut it off, and it was taken when nothing is left.
Loop ==
  /\ Writing(handler)
  /\ \A k \in DOMAIN script : Final(script[k]) <=> k = Len(script) /\ ~cut
  /\ handler.done # None <=> script = <<>> /\ ~cut

Telling ==
  step = "answered" /\ cause # None /\ call.kind \notin {"foreign", "health"} =>
    Told = ApiError(cause)

Playing ==
  /\ step = "stream" => Streaming
  /\ step = "start" /\ Streaming => ~cut
  /\ step = "stream" /\ cut => workers[rpc.model] = "dead"
  /\ step = "stream" /\ call.kind \in {"chat", "responses"} => Loop
  /\ Telling
  /\ EndIsTold

\* A crossed error is answered like the daemon's own.
LEMMA ReportedAnswered == ASSUME NEW e \in Reported
                          PROVE  ApiError(FromStatus(ToStatus(e))) = ApiError(e)
  BY ReportedKnown, CrossingKeepsAnswer

LEMMA ResultCrosses == ASSUME NEW e \in Results, e.ok PROVE Crossed(e) = e
<1> DEFINE v == e.value
<1>1. e = Ok(v) /\ v \in Deltas \union Segments \union Dones
  BY ResultKinds
<1>2. Crossed(e) = EventFromPb(EventToPb(v))
  BY <1>1 DEF Crossed
<1> HIDE DEF v
<1>3. CASE v \in Deltas \union Segments
  <2>1. v.is # "done" /\ v.is # "none"
    BY <1>3 DEF Deltas, Segments
  <2> QED
    BY <1>1, <1>2, <2>1 DEF EventFromPb, EventToPb
<1>4. CASE v \in Dones
  <2>1. PICK f \in Finishes, usage \in Nat : v = [is |-> "done", value |-> [finish |-> f, usage |-> usage]]
    BY <1>4 DEF Dones
  <2>2. v = Oneof("done", [finish |-> f, usage |-> usage])
    BY <2>1 DEF Oneof
  <2> QED
    BY <1>1, <1>2, <2>2, EventsCross
<1> QED
  BY <1>1, <1>3, <1>4

Taken == played \in Seq(Results)

LEMMA NextTaken == ASSUME Passing, Taken, [Next]_vars PROVE Taken'
<1>1. CASE TakeEvent
  <2>1. script \in Seq(Results) /\ script # <<>> /\ played' = Append(played, Head(script))
    BY <1>1 DEF TakeEvent, Passing
  <2>2. Head(script) \in Results
    BY <2>1
  <2> QED
    BY <2>1, <2>2 DEF Taken
<1>2. TakeEvent \/ UNCHANGED played \/ played' = <<>>
  <2>1. Frontend \/ Lost \/ Tell => UNCHANGED played
    BY DEF Frontend, Unkeyed, Generation, Upload, Ask, NotYet, Reply, Send, Lost, Tell, FailsWith
  <2>2. Service => UNCHANGED played
    BY DEF Service, Admit, CheckInput, StartGenerate, StartTranscribe, StartEmbed, Fold, Fails,
           FailsWith, Move, Run
  <2>3. Stream => TakeEvent \/ UNCHANGED played
    BY DEF Stream, EndOfStream
  <2>4. (\E c \in Calls : Arrive(c)) \/ (\E i \in Ids : CrashUnder(i)) \/ UNCHANGED <<local, promised>>
          => UNCHANGED played
    BY DEF Arrive, CrashUnder, local
  <2>5. Over => played' = <<>>
    BY DEF Over
  <2> QED
    BY <2>1, <2>2, <2>3, <2>4, <2>5, Steps
<1>3. <<>> \in Seq(Results)
  OBVIOUS
<1>4. CASE played' = <<>>
  BY <1>3, <1>4 DEF Taken
<1>5. CASE UNCHANGED played
  BY <1>5 DEF Taken
<1> QED
  BY <1>1, <1>2, <1>4, <1>5

LEMMA TakenHolds == Spec => []Taken
<1>1. Init => Taken
  BY DEF Init, Idle, Taken
<1>2. Passing /\ Taken /\ [Next]_vars => Taken'
  BY NextTaken
<1> QED
  BY <1>1, <1>2, PassingHolds, PTL DEF Spec

LEMMA StreamKinds == ASSUME Stages, step \in {"start", "stream"}, Streaming
                     PROVE  call.kind \in {"chat", "responses", "transcriptions"}
<1>1. Wired /\ CallOk(call) /\ rpc.method = "invoke_stream"
  BY CallsAssumption DEF Stages, Served, Streaming
<1> QED
  BY <1>1 DEF Wired, CallOk, Foreign

LEMMA WritingNext == ASSUME UNCHANGED call, NEW h, handler' = h, Writing(h) PROVE Writing(handler)'
  BY DEF Writing, Open, Listing, IsEnd

LEMMA EndNext == ASSUME UNCHANGED <<call, cut>>, NEW h, handler' = h,
                        IF cut THEN Open(h.sent) ELSE Closed(h.sent)
                 PROVE  EndIsTold'
<1>1. \A x : IsEnd(x)' <=> IsEnd(x)
  BY DEF IsEnd
<1> QED
  BY <1>1 DEF Open, Closed, EndIsTold

LEMMA PlayingStill == ASSUME step' \notin {"start", "stream", "answered"} PROVE Playing'
  BY DEF Playing, Telling, EndIsTold, Ended

LEMMA PlayingAnswers == ASSUME step' = "answered", handler' = None, cause' = None PROVE Playing'
  BY DEF Playing, Telling, EndIsTold, Ended

LEMMA PlayingFails ==
  ASSUME Stages, step \in {"rpc", "check", "start", "run"}, NEW s, NEW e, FailsWith(s, e),
         e \in Reported \union {None}, s = ToStatus(e) \/ e = None
  PROVE  Playing'
<1>1. step' = "answered" /\ UNCHANGED <<call, handler, played>> /\ cause' = e
  BY DEF FailsWith
<1>2. handler = None /\ played = <<>>
  BY DEF Stages
<1>3. CASE e # None
  <2>1. call.kind \notin {"foreign", "health"} => answer' = <<ApiError(FromStatus(s))>>
    BY DEF FailsWith, Foreign
  <2>2. e \in Reported /\ s = ToStatus(e)
    BY <1>3
  <2>3. ApiError(FromStatus(s)) = ApiError(e)
    BY <2>2, ReportedAnswered
  <2>4. Told' = answer'[1]
    BY <1>1, <1>2 DEF Told
  <2> QED
    BY <1>1, <1>2, <2>1, <2>3, <2>4 DEF Playing, Telling, EndIsTold, Ended
<1> QED
  BY <1>1, <1>2, <1>3, PlayingAnswers

LEMMA StartPlaying == ASSUME IInv, Stages, Checking, Passing, Passing', Jobs, Playing,
                             StartGenerate \/ StartTranscribe \/ StartEmbed
                      PROVE  Playing'
<1>1. step = "start" /\ Wired /\ (Streaming => ~cut)
  BY DEF StartGenerate, StartTranscribe, StartEmbed, Stages, Served, Playing
<1>2. ASSUME NEW e, Fails(e) PROVE Playing'
  <2>1. e \in Reported \union {None}
    BY <1>2 DEF Passing, Fails, FailsWith
  <2> QED
    BY <1>1, <1>2, <2>1, PlayingFails DEF Fails
<1>3. ASSUME NEW events, NEW jobs, Run(events, jobs),
             call.kind \in {"chat", "responses"} =>
               /\ events \in Seq(Results) /\ events # <<>>
               /\ \A k \in DOMAIN events : Final(events[k]) <=> k = Len(events)
      PROVE  Playing'
  <2>1. CASE ~Streaming
    <3>1. step' = "run"
      BY <1>3, <2>1 DEF Run
    <3> QED
      BY <3>1, PlayingStill
  <2>2. CASE Streaming
    <3>1. /\ step' = "stream" /\ script' = events /\ handler' = Opened
          /\ UNCHANGED <<call, rpc, cut>>
      BY <1>3, <2>2 DEF Run
    <3>2. ASSUME call.kind = "chat" PROVE Writing(Opened) /\ Opened.done = None
      <4>1. ~IsEnd(Chunk("role", None))
        BY <3>2 DEF IsEnd, Chunk
      <4>2. Open(<<Chunk("role", None)>>)
        BY <4>1, OpenTuples
      <4> QED
        BY <3>2, <4>2 DEF Opened, ChatOpen, Writing
    <3>3. ASSUME call.kind = "responses" PROVE Writing(Opened) /\ Opened.done = None
      <4> DEFINE h == [sent |-> <<>>, seq |-> 0, reasoning |-> <<>>, text |-> <<>>, reasoning_open |-> FALSE,
                       reasoning_closed |-> FALSE, message_open |-> FALSE, done |-> None, over |-> FALSE]
                 two == <<InProgress("response.created"), InProgress("response.in_progress")>>
      <4>1. Opened = Emit(h, two)
        BY <3>3 DEF Opened, ResponsesOpen
      <4>2. Writing(h) /\ h.done = None
        BY OpenTuples DEF Writing
      <4>3. Quiet(two)
        BY SseType, QuietTuples DEF InProgress, Terminals
      <4> HIDE DEF h, two
      <4> QED
        BY <3>3, <4>1, <4>2, <4>3, EmitWrites
    <3>4. ASSUME call.kind \in {"chat", "responses"} PROVE Loop'
      <4>1. Writing(Opened) /\ Opened.done = None
        BY <3>2, <3>3, <3>4
      <4>2. Writing(handler)' /\ handler'.done = None
        BY <3>1, <4>1, WritingNext
      <4> QED
        BY <1>1, <1>3, <2>2, <3>1, <3>4, <4>2 DEF Loop, Final
    <3> QED
      BY <1>1, <2>2, <3>1, <3>4 DEF Playing, Streaming, Telling, EndIsTold, Ended
  <2> QED
    BY <2>1, <2>2
<1>4. CASE StartGenerate
  <2> DEFINE queued == Queued(Model(rpc.model).settings, checked[Turn].value)
             n == Turn
  <2>1. Turn \in Nat
    BY ListingAppend DEF Turn, Passing
  <2>2. ASSUME NEW events \in RunsOf(queued.value), Run(events, <<[input |-> Turn, job |-> queued.value]>>)
        PROVE  Playing'
    <3>1. /\ events \in Seq(Results) /\ events # <<>>
          /\ \A k \in DOMAIN events :
               IF k = Len(events) THEN Final(events[k])
               ELSE events[k].ok /\ events[k].value \in Deltas /\ events[k].value.value.input = n
      BY <2>1, <2>2, RunsType
    <3> HIDE DEF n
    <3>2. \A k \in DOMAIN events : Final(events[k]) <=> k = Len(events)
      BY <3>1 DEF Final, Deltas
    <3> QED
      BY <1>3, <2>2, <3>1, <3>2
  <2> HIDE DEF queued
  <2> QED
    BY <1>2, <1>4, <2>2 DEF StartGenerate, queued
<1>5. CASE StartTranscribe
  <2>1. call.kind \notin {"chat", "responses"}
    BY <1>1, <1>5 DEF StartTranscribe, Wired
  <2> QED
    BY <1>2, <1>3, <1>5, <2>1 DEF StartTranscribe
<1>6. CASE StartEmbed
  BY <1>1, <1>6, PlayingFails DEF StartEmbed
<1> QED
  BY <1>4, <1>5, <1>6

LEMMA TakePlaying == ASSUME Stages, Passing, Taken, Playing, TakeEvent, UNCHANGED registryVars
                     PROVE  Playing'
<1> DEFINE e == Head(script)
<1>1. step = "stream" /\ script # <<>> /\ script \in Seq(Results) /\ Streaming /\ cause = None
      /\ (cut => workers[rpc.model] = "dead")
  BY DEF TakeEvent, Passing, Playing, Stages
<1>2. e \in Results /\ Tail(script) \in Seq(Results) /\ e = script[1]
      /\ Len(script) \in Nat /\ DOMAIN script = 1..Len(script) /\ Len(script) # 0
      /\ Len(Tail(script)) = Len(script) - 1
      /\ DOMAIN Tail(script) = 1..(Len(script) - 1)
      /\ \A k \in DOMAIN Tail(script) : Tail(script)[k] = script[k + 1]
  BY <1>1
<1>3. UNCHANGED <<call, rpc, cut, workers>> /\ played' = Append(played, e)
      /\ script' = (IF e.ok THEN Tail(script) ELSE <<>>)
      /\ cause' = (IF e.ok THEN cause ELSE e)
  BY DEF TakeEvent, registryVars
<1>4. call.kind \in {"chat", "responses", "transcriptions"}
  BY <1>1, StreamKinds
<1>5. CASE e.ok
  <2>1. Crossed(e) = e
    BY <1>2, <1>5, ResultCrosses
  <2>2. handler' = Took(e) /\ step' = step
    BY <1>5, <2>1 DEF TakeEvent
  <2>3. ASSUME call.kind \in {"chat", "responses"} PROVE Loop'
    <3>1. Loop
      BY <1>1, <2>3 DEF Playing
    <3>2. e.value \in Deltas \union Segments \union Dones
      BY <1>2, <1>5, ResultKinds
    <3>3. Final(e) <=> Len(script) = 1 /\ ~cut
      BY <1>2, <3>1 DEF Loop
    <3>4. /\ e.value \in Deltas \union Segments => Writing(Took(e)) /\ Took(e).done = handler.done
          /\ e.value \in Dones => Writing(Took(e)) /\ Took(e).done = e.value.value
      <4>1. CASE call.kind = "chat"
        BY <1>5, <2>1, <3>1, <4>1, ChatTakes DEF Took, Loop
      <4>2. CASE call.kind = "responses"
        BY <1>5, <2>1, <3>1, <4>2, ResponsesTakes DEF Took, Loop
      <4> QED
        BY <2>3, <4>1, <4>2
    <3>5. Writing(handler)'
      BY <1>3, <2>2, <3>2, <3>4, WritingNext
    <3>6. handler.done = None
      BY <1>1, <3>1 DEF Loop
    <3>7. script' = Tail(script)
      BY <1>3, <1>5
    <3> HIDE DEF e
    <3>8. \A k \in DOMAIN script' : Final(script'[k]) <=> k = Len(script') /\ ~cut
      <4> SUFFICES ASSUME NEW k \in DOMAIN script'
                   PROVE  Final(script'[k]) <=> k = Len(script') /\ ~cut
        OBVIOUS
      <4>1. k + 1 \in DOMAIN script /\ script'[k] = script[k + 1]
            /\ (k = Len(script') <=> k + 1 = Len(script))
        BY <1>2, <3>7
      <4>2. Final(script[k + 1]) <=> k + 1 = Len(script) /\ ~cut
        BY <3>1, <4>1 DEF Loop
      <4> QED
        BY <4>1, <4>2
    <3>9. script' = <<>> <=> Len(script) = 1
      <4>1. script' \in Seq(Results) /\ Len(script') = Len(script) - 1
        BY <1>2, <3>7
      <4>2. script' = <<>> <=> Len(script') = 0
        BY <4>1
      <4> QED
        BY <1>2, <4>1, <4>2
    <3>10. CASE e.value \in Deltas \union Segments
      <4>1. ~Final(e)
        BY <1>5, <3>10 DEF Final, Deltas, Segments
      <4>2. handler'.done = None
        BY <2>2, <3>4, <3>6, <3>10
      <4> QED
        BY <1>3, <3>3, <3>5, <3>8, <3>9, <4>1, <4>2 DEF Loop, Final
    <3>11. CASE e.value \in Dones
      <4>1. Final(e)
        BY <3>11 DEF Final, Dones
      <4>2. handler'.done # None
        BY <2>2, <3>4, <3>11, CallsAssumption DEF Dones, Finishes
      <4> QED
        BY <1>3, <3>3, <3>5, <3>8, <3>9, <4>1, <4>2 DEF Loop, Final
    <3> QED
      BY <3>2, <3>10, <3>11
  <2> QED
    BY <1>1, <1>3, <2>2, <2>3 DEF Playing, Streaming, Telling, EndIsTold, Ended
<1>6. CASE ~e.ok
  <2> DEFINE c == Crossed(e)
  <2>1. c = FromStatus(ToStatus(e)) /\ ~c.ok
    BY <1>6, CrossedFails
  <2>2. e \in Reported
    BY <1>2, <1>6, ResultKinds, RunErrorReported
  <2>3. ApiError(c) = ApiError(e)
    BY <2>1, <2>2, ReportedAnswered
  <2>4. step' = "answered" /\ cause' = e /\ played' # <<>>
    <3>1. Append(played, e) # <<>>
      BY <1>2 DEF Taken
    <3> QED
      BY <1>3, <1>6, <2>1, <3>1 DEF TakeEvent
  <2>5. CASE call.kind = "transcriptions"
    <3>1. answer' = <<ApiError(c)>>
      BY <2>1, <2>5 DEF TakeEvent
    <3>2. Told' = answer'[1]
      BY <1>3, <2>5 DEF Told
    <3> QED
      BY <1>3, <2>3, <2>4, <2>5, <3>1, <3>2 DEF Playing, Telling, EndIsTold, Ended
  <2>6. CASE call.kind \in {"chat", "responses"}
    <3>1. handler' = Took(e)
      BY <2>1, <2>6 DEF TakeEvent
    <3>2. Loop
      BY <1>1, <2>6 DEF Playing
    <3>3. ~cut
      BY <1>2, <1>6, <3>2 DEF Loop, Final
    <3>4. /\ Closed(Took(e).sent)
          /\ call.kind = "chat" => Last(Took(e).sent).value = ApiError(c)
          /\ call.kind = "responses" => Last(Took(e).sent).event.value = ApiError(c)
      <4>1. CASE call.kind = "chat"
        BY <2>1, <3>2, <4>1, ChatTakes DEF Took, Loop
      <4>2. CASE call.kind = "responses"
        BY <2>1, <3>2, <4>2, ResponsesTakes DEF Took, Loop
      <4> QED
        BY <2>6, <4>1, <4>2
    <3>5. EndIsTold'
      BY <1>3, <3>1, <3>3, <3>4, EndNext
    <3>6. Told' = ApiError(c)
      BY <1>3, <2>4, <2>6, <3>1, <3>4 DEF Told
    <3> QED
      BY <2>3, <2>4, <3>5, <3>6 DEF Playing, Telling
  <2> QED
    BY <1>4, <2>5, <2>6
<1> QED
  BY <1>5, <1>6
LEMMA EndPlaying == ASSUME Stages, Playing, EndOfStream PROVE Playing'
<1>1. /\ step = "stream" /\ script = <<>> /\ Streaming /\ cause = None
      /\ step' = "answered" /\ UNCHANGED <<call, cut, cause>>
      /\ handler' = CASE call.kind = "chat"      -> ChatEnd(handler)
                      [] call.kind = "responses" -> ResponsesEnd(handler)
                      [] OTHER                   -> handler
  BY DEF EndOfStream, Playing, Stages
<1>2. call.kind \in {"chat", "responses", "transcriptions"}
  BY <1>1, StreamKinds
<1>3. ASSUME call.kind \in {"chat", "responses"} PROVE EndIsTold'
  <2>1. Writing(handler) /\ (handler.done = None <=> cut)
    BY <1>1, <1>3 DEF Playing, Loop
  <2>2. CASE call.kind = "chat"
    <3>1. handler' = ChatEnd(handler)
      BY <1>1, <2>2
    <3>2. IF cut THEN Open(ChatEnd(handler).sent) ELSE Closed(ChatEnd(handler).sent)
      BY <2>1, <2>2, ChatEnds
    <3> QED
      BY <1>1, <3>1, <3>2, EndNext
  <2>3. CASE call.kind = "responses"
    <3>1. handler' = ResponsesEnd(handler)
      BY <1>1, <2>3
    <3>2. IF cut THEN Open(ResponsesEnd(handler).sent) ELSE Closed(ResponsesEnd(handler).sent)
      BY <2>1, <2>3, ResponsesEnds
    <3> QED
      BY <1>1, <3>1, <3>2, EndNext
  <2> QED
    BY <1>3, <2>2, <2>3
<1>4. call.kind = "transcriptions" => EndIsTold'
  BY <1>1 DEF EndIsTold, Ended
<1> QED
  BY <1>1, <1>2, <1>3, <1>4 DEF Playing, Telling

\* Nothing of the call moves but what a crash cuts off its run.
LEMMA CrashPlaying == ASSUME IInv, Backed, Stages, Checking, Passing, Playing, NEW i \in Ids, CrashUnder(i)
                      PROVE  Playing'
<1> DEFINE hit == step \in {"run", "stream"} /\ Operation = "generate" /\ rpc.model = i
<1>1. /\ UNCHANGED <<call, step, rpc, handler, answer, played, cause>>
      /\ IF hit THEN \E n \in 0..Len(script) : /\ script' = SubSeq(script, 1, n)
                                               /\ cut' = (n < Len(script))
         ELSE UNCHANGED <<script, cut>>
      /\ Crash(i)
  BY DEF CrashUnder
<1>2. /\ workers[i] = "up" /\ workers' = [workers EXCEPT ![i] = "dead"]
      /\ workers \in [Ids -> {"none", "up", "dead"}] /\ script \in Seq(Results)
  BY <1>1 DEF Crash, IInv, RegistryTypeOK, Passing
<1>3. \A j \in Ids : workers[j] = "dead" => workers'[j] = "dead"
  BY <1>2
<1>4. \A x : IsEnd(x)' <=> IsEnd(x)
  BY <1>1 DEF IsEnd
<1>5. Telling'
  BY <1>1 DEF Playing, Telling, Told
<1>6. CASE step = "stream"
  <2>1. rpc.model \in Ids
    <3>1. Passed
      BY <1>6 DEF Checking, Passing, Running
    <3> QED
      BY <3>1, ModelListed DEF Passed
  <2>2. CASE ~hit
    BY <1>1, <1>3, <1>4, <1>5, <1>6, <2>1, <2>2 DEF Playing, Streaming, Loop, Writing, Open, EndIsTold, Ended, Final
  <2>3. CASE hit
    <3>1. PICK n \in 0..Len(script) : script' = SubSeq(script, 1, n) /\ cut' = (n < Len(script))
      BY <1>1, <2>3
    <3>2. ~cut /\ workers'[rpc.model] = "dead"
      BY <1>2, <1>6, <2>1, <2>3 DEF Playing
    <3>3. /\ Len(script) \in Nat /\ DOMAIN script = 1..Len(script) /\ Len(script') = n
          /\ DOMAIN script' = 1..n /\ \A k \in 1..n : script'[k] = script[k]
      BY <1>2, <3>1
    <3>4. ASSUME call.kind \in {"chat", "responses"} PROVE Loop'
      <4>1. Loop
        BY <1>6, <3>4 DEF Playing
      <4>2. Writing(handler)'
        BY <1>1, <1>4, <4>1 DEF Loop, Writing, Open, Listing
      <4>3. ASSUME NEW k \in DOMAIN script' PROVE Final(script'[k]) <=> k = Len(script') /\ ~cut'
        <5>1. k \in DOMAIN script /\ script'[k] = script[k] /\ n <= Len(script) /\ k <= n
          BY <3>3
        <5>2. Final(script[k]) <=> k = Len(script)
          BY <3>2, <4>1, <5>1 DEF Loop
        <5>3. k = Len(script) <=> k = Len(script') /\ ~(n < Len(script))
          BY <3>3, <5>1
        <5>4. ~cut' <=> ~(n < Len(script))
          BY <3>1
        <5> QED
          BY <5>1, <5>2, <5>3, <5>4
      <4>4. handler.done # None <=> Len(script) = 0
        BY <1>2, <3>2, <4>1 DEF Loop
      <4>5. script' = <<>> <=> n = 0
        BY <1>2, <3>1, <3>3
      <4>6. handler'.done # None <=> script' = <<>> /\ ~cut'
        <5>1. Len(script) = 0 <=> n = 0 /\ ~(n < Len(script))
          BY <3>1, <3>3
        <5>2. ~cut' <=> ~(n < Len(script))
          BY <3>1
        <5>3. handler' = handler
          BY <1>1
        <5> QED
          BY <4>4, <4>5, <5>1, <5>2, <5>3
      <4> QED
        BY <4>2, <4>3, <4>6 DEF Loop, Final
    <3> QED
      BY <1>1, <1>5, <1>6, <3>2, <3>4 DEF Playing, Streaming, EndIsTold, Ended
  <2> QED
    BY <2>2, <2>3
<1>7. CASE step # "stream"
  <2>1. ~hit \/ step = "run"
    BY <1>7
  <2>2. CASE ~hit
    BY <1>1, <1>4, <1>5, <1>7, <2>2 DEF Playing, Streaming, EndIsTold, Ended
  <2>3. CASE step = "run"
    BY <1>1, <2>3, PlayingStill
  <2> QED
    BY <2>1, <2>2, <2>3
<1> QED
  BY <1>6, <1>7

LEMMA QuietPlaying == ASSUME IInv, Backed, Checking, Passing, Playing, [RegistryNext]_registryVars,
                             UNCHANGED local
                      PROVE  Playing'
<1>1. step = "stream" /\ cut => workers'[rpc.model] = "dead"
  <2> SUFFICES ASSUME step = "stream", cut PROVE workers'[rpc.model] = "dead"
    OBVIOUS
  <2>1. Passed /\ workers[rpc.model] = "dead"
    BY DEF Checking, Passing, Running, Playing
  <2> QED
    BY <2>1, WorkersStay, ModelListed DEF Passed
<1>2. \A x : IsEnd(x)' <=> IsEnd(x)
  BY DEF IsEnd, local
<1>3. Telling' /\ EndIsTold'
  BY <1>2 DEF Playing, Telling, Told, EndIsTold, Ended, local
<1>4. Loop => Loop'
  BY <1>2 DEF Loop, Writing, Open, Listing, Final, local
<1> QED
  BY <1>1, <1>3, <1>4 DEF Playing, Streaming, local

LEMMA NextPlaying ==
  ASSUME IInv, Backed, Stages, Checking, Passing, Passing', Taken, Jobs, Filled, Playing, [Next]_vars
  PROVE  Playing'
<1>1. CASE Frontend
  <2>1. step = "frontend" /\ UNCHANGED <<handler, cause>> /\ step' \in {"rpc", "answered"}
    BY <1>1 DEF Frontend, Unkeyed, Generation, Upload, Ask, NotYet, Keyed, Reply, Send
  <2>2. handler = None /\ cause = None
    BY <2>1 DEF Stages
  <2> QED
    BY <2>1, <2>2, PlayingAnswers, PlayingStill
<1>2. CASE Lost
  <2>1. Status("Unavailable", None) = ToStatus(Err("Unreachable"))
    BY ErrorFields DEF ToStatus, Status, CodeOf
  <2>2. Err("Unreachable") \in Reported
    BY ErrReported
  <2> QED
    BY <1>2, <2>1, <2>2, PlayingFails DEF Lost
<1>3. CASE Tell
  <2>1. step = "rpc" /\ UNCHANGED <<handler, cause>> /\ step' = "answered"
    BY <1>3 DEF Tell
  <2>2. handler = None /\ cause = None
    BY <2>1 DEF Stages
  <2> QED
    BY <2>1, <2>2, PlayingAnswers
<1>4. ASSUME NEW e, Fails(e), step \in {"rpc", "check", "start", "run"} PROVE Playing'
  <2>1. e \in Reported \union {None}
    BY <1>4 DEF Passing, Fails, FailsWith
  <2> QED
    BY <1>4, <2>1, PlayingFails DEF Fails
<1>5. CASE Admit
  <2>1. step = "rpc" /\ ((\E e : Fails(e)) \/ step' = "check")
    BY <1>5 DEF Admit, Move
  <2> QED
    BY <1>4, <2>1, PlayingStill
<1>6. CASE CheckInput
  <2>1. step = "check" /\ ~cut
    BY <1>6 DEF CheckInput, Checking
  <2>2. (\E e : Fails(e)) \/ (step' \in {"start", "check"} /\ UNCHANGED cut)
    BY <1>6 DEF CheckInput, Move
  <2>3. CASE step' \in {"start", "check"} /\ UNCHANGED cut
    BY <2>1, <2>3 DEF Playing, Telling, EndIsTold, Ended
  <2> QED
    BY <1>4, <2>1, <2>2, <2>3
<1>7. CASE StartGenerate \/ StartTranscribe \/ StartEmbed
  BY <1>7, StartPlaying
<1>8. CASE Fold
  <2>1. step = "run" /\ ~Streaming /\ handler = None /\ cause = None
    BY <1>8 DEF Fold, Filled, Stages
  <2>2. (\E e : Fails(e)) \/ (step' \in {"start", "answered"} /\ UNCHANGED <<rpc, handler, cause>>)
    BY <1>8 DEF Fold
  <2>3. CASE step' = "start" /\ UNCHANGED <<rpc, handler, cause>>
    BY <2>1, <2>3 DEF Playing, Streaming, Telling, EndIsTold, Ended
  <2>4. CASE step' = "answered" /\ UNCHANGED <<rpc, handler, cause>>
    BY <2>1, <2>4, PlayingAnswers
  <2> QED
    BY <1>4, <2>1, <2>2, <2>3, <2>4
<1>9. CASE Stream /\ UNCHANGED registryVars
  BY <1>9, TakePlaying, EndPlaying DEF Stream
<1>10. CASE \E c \in Calls : Arrive(c)
  <2>1. step' \in {"rpc", "frontend"}
    BY <1>10 DEF Arrive
  <2> QED
    BY <2>1, PlayingStill
<1>11. CASE Over
  BY <1>11, PlayingStill DEF Over
<1>12. CASE UNCHANGED <<local, promised>>
  BY <1>12, RegistrySteps, QuietPlaying
<1>13. CASE \E i \in Ids : CrashUnder(i)
  BY <1>13, CrashPlaying
<1> QED
  BY <1>1, <1>2, <1>3, <1>5, <1>6, <1>7, <1>8, <1>9, <1>10, <1>11, <1>12, <1>13, Steps DEF Service

LEMMA PlayingHolds == Spec => []Playing
<1>1. Init => Playing
  BY DEF Init, Idle, Playing, Telling, EndIsTold, Ended
<1>2. IInv /\ Backed /\ Stages /\ Checking /\ Passing /\ Passing' /\ Taken /\ Jobs /\ Filled /\ Playing
      /\ [Next]_vars => Playing'
  BY NextPlaying
<1> QED
  BY <1>1, <1>2, RegistryHolds, BackedHolds, StagesHold, CheckingHolds, PassingHolds, TakenHolds,
     JobsHold, FilledHolds, PTL DEF Spec

\* A client of a stream can tell a whole answer from a broken one
\* (routes.rs: chat_completions, responses_endpoint).
THEOREM EndToldAlways == Spec => []EndIsTold
<1>1. Playing => EndIsTold
  BY DEF Playing
<1> QED
  BY <1>1, PlayingHolds, PTL

\* What the table says of each error.
LEMMA TableTold == ASSUME NEW e \in Reported
                   PROVE  /\ <<ApiError(e).status, ApiError(e).code>> = Table[e.error]
                          /\ IF e.error = "Busy"
                               THEN /\ ApiError(e).retryAfter >= 1
                                    /\ ApiError(e).retryAfter * 1000 >= e.ms
                               ELSE ApiError(e).retryAfter = None
<1>1. CASE \E ms \in Nat : e = Busy(ms)
  <2>1. PICK ms \in Nat : e = Busy(ms)
    BY <1>1
  <2>2. e.error = "Busy" /\ e.ms = ms
    BY <2>1, ErrorFields
  <2>3. ApiError(e) = Answer(503, None, RetryAfter(ms))
    BY <2>2 DEF ApiError, Http, HttpMapping
  <2>4. Table["Busy"] = <<503, None>>
    BY DEF Table
  <2> QED
    BY <2>2, <2>3, <2>4, RetryAfterIsEnough DEF Answer
<1>2. CASE \E kind \in DOMAIN Table \ {"Busy"} : e = Err(kind)
  <2>1. PICK kind \in DOMAIN Table \ {"Busy"} : e = Err(kind)
    BY <1>2
  <2>2. e.error = kind /\ kind # "Busy"
    BY <2>1, ErrorFields
  <2>3. kind \in {"UnknownModel", "UnsupportedOperation", "InvalidInput", "Loading",
                  "Unavailable", "Runtime", "Unreachable", "ProtocolVersion"}
    BY <2>1, ErrorFields
  <2>4. RetryAfter(None) = None
    BY DEF RetryAfter
  <2>5. ApiError(e) = Answer(Table[kind][1], Table[kind][2], None)
    BY <2>2, <2>3, <2>4 DEF ApiError, Http, HttpMapping, Table
  <2>6. Table[kind] = <<Table[kind][1], Table[kind][2]>>
    BY <2>3 DEF Table
  <2> QED
    BY <2>2, <2>5, <2>6 DEF Answer
<1> QED
  BY <1>1, <1>2 DEF Reported

\* A failure is told for what it is after both crossings, whether it comes
\* before a stream has begun or in the middle of it (error.rs of both crates).
THEOREM ErrorsSurviveAlways == Spec => []ErrorsSurvive
<1>1. Passing /\ Playing => ErrorsSurvive
  <2> SUFFICES ASSUME Passing, Playing, step = "answered", cause # None,
                      call.kind \notin {"foreign", "health"}
               PROVE  /\ <<Told.status, Told.code>> = Table[cause.error]
                      /\ IF cause.error = "Busy"
                           THEN Told.retryAfter >= 1 /\ Told.retryAfter * 1000 >= cause.ms
                           ELSE Told.retryAfter = None
    BY DEF ErrorsSurvive
  <2>1. cause \in Reported /\ Told = ApiError(cause)
    BY DEF Passing, Playing, Telling
  <2> QED
    BY <2>1, TableTold
<1> QED
  BY <1>1, PassingHolds, PlayingHolds, PTL

-----------------------------------------------------------------------------
\* A stream adds up to the unary body.

\* Append, pointwise.
LEMMA AppendIs ==
  ASSUME NEW n \in Nat, NEW S, NEW s \in [1..n -> S], NEW a, NEW t \in [1..(n + 1) -> S],
         \A k \in 1..n : t[k] = s[k], t[n + 1] = a
  PROVE  t = Append(s, a) /\ Listing(s)
<1>1. s \in Seq(S) /\ Len(s) = n /\ DOMAIN s = 1..n
  OBVIOUS
<1>2. Listing(s)
  <2>1. s \in Seq({s[k] : k \in DOMAIN s})
    BY <1>1
  <2> QED
    BY <2>1 DEF Listing
<1>3. /\ DOMAIN Append(s, a) = 1..(n + 1) /\ Append(s, a)[n + 1] = a
      /\ \A k \in 1..n : Append(s, a)[k] = s[k]
  BY <1>1, <1>2, ListingAppend
<1> DEFINE w == Append(s, a)
<1>4. Listing(w) /\ DOMAIN w = 1..(n + 1)
  BY <1>2, <1>3, ListingAppend
<1> HIDE DEF w
<1>5. \A k \in 1..(n + 1) : w[k] = t[k]
  <2>1. \A k \in 1..(n + 1) : k \in 1..n \/ k = n + 1
    OBVIOUS
  <2> QED
    BY <1>3, <2>1 DEF w
<1>6. w = [k \in 1..(n + 1) |-> w[k]]
  BY <1>4 DEF Listing
<1>7. w = t
  BY <1>5, <1>6
<1> QED
  BY <1>2, <1>7 DEF w

\* One element more is passed over or is the last that is selected.
LEMMA SelectedKeeps ==
  ASSUME NEW s, Listing(s), NEW a, NEW I, I \subseteq DOMAIN s
  PROVE  Selected(Append(s, a), I) = Selected(s, I)
<1> DEFINE n == Len(s)
           t == Append(s, a)
           c == Cardinality(I)
<1>1. /\ n \in Nat /\ DOMAIN s = 1..n
      /\ \A k \in 1..n : t[k] = s[k]
  BY ListingAppend
<1>2. IsFiniteSet(I) /\ I \subseteq Nat
  <2> HIDE DEF n
  <2> QED
    BY <1>1, NthLater
<1>3. /\ c \in Nat /\ Selected(s, I) = [j \in 1..c |-> s[Nth(I, j)]]
      /\ \A j \in 1..c : Nth(I, j) \in I
  BY <1>2, SelectedAt
<1>4. Selected(t, I) = [j \in 1..c |-> t[Nth(I, j)]]
  BY <1>2, SelectedAt
<1> HIDE DEF t, c, n
<1>5. \A j \in 1..c : t[Nth(I, j)] = s[Nth(I, j)]
  BY <1>1, <1>3
<1> QED
  BY <1>3, <1>4, <1>5 DEF t

LEMMA SelectedGrows ==
  ASSUME NEW s, Listing(s), NEW a, NEW I, I \subseteq DOMAIN s
  PROVE  /\ Selected(Append(s, a), I \union {Len(s) + 1}) = Append(Selected(s, I), a)
         /\ Listing(Selected(s, I))
<1> DEFINE n == Len(s)
           t == Append(s, a)
           J == I \union {n + 1}
           c == Cardinality(I)
<1>1. /\ n \in Nat /\ DOMAIN s = 1..n
      /\ \A k \in 1..n : t[k] = s[k]
      /\ t[n + 1] = a
  BY ListingAppend
<1>2. /\ IsFiniteSet(I) /\ IsFiniteSet(J) /\ I \subseteq Nat /\ J \subseteq Nat
      /\ Cardinality(J) = c + 1 /\ Nth(J, c + 1) = n + 1
      /\ \A j \in 1..c : Nth(J, j) = Nth(I, j)
  <2> HIDE DEF n
  <2> QED
    BY <1>1, NthLater
<1>3. /\ c \in Nat /\ Selected(s, I) = [j \in 1..c |-> s[Nth(I, j)]]
      /\ \A j \in 1..c : Nth(I, j) \in I
  BY <1>2, SelectedAt
<1>4. Selected(t, J) = [j \in 1..(c + 1) |-> t[Nth(J, j)]]
  <2> HIDE DEF J, t, c
  <2>1. Selected(t, J) = [j \in 1..Cardinality(J) |-> t[Nth(J, j)]]
    BY <1>2, SelectedAt
  <2> QED
    BY <1>2, <2>1
<1> HIDE DEF J, t, c, n
<1>5. \A j \in 1..c : t[Nth(I, j)] = s[Nth(I, j)]
  BY <1>1, <1>3
<1>6. Selected(t, J) = Append(Selected(s, I), a) /\ Listing(Selected(s, I))
  <2> DEFINE u == Selected(s, I)
             v == Selected(t, J)
             S == {u[j] : j \in 1..c} \union {v[j] : j \in 1..(c + 1)}
  <2>1. u \in [1..c -> S] /\ v \in [1..(c + 1) -> S]
    BY <1>3, <1>4
  <2>2. \A j \in 1..c : v[j] = u[j]
    BY <1>2, <1>3, <1>4, <1>5
  <2>3. v[c + 1] = a
    BY <1>1, <1>2, <1>3, <1>4
  <2> HIDE DEF u, v, S
  <2> QED
    <3>1. c \in Nat
      BY <1>3
    <3>2. v = Append(u, a)
      BY <2>1, <2>2, <2>3, <3>1, AppendIs
    <3>3. Listing(u)
      BY <2>1, <2>2, <2>3, <3>1, AppendIs
    <3> QED
      BY <3>2, <3>3 DEF u, v
<1> QED
  BY <1>6 DEF t, J, n

\* The values of a kind grow by the event that is of it.
LEMMA ValuesAppend ==
  ASSUME NEW s, Listing(s), NEW e, NEW kind
  PROVE  /\ Values(Append(s, e), kind) = IF e.ok /\ e.value.is = kind
                                         THEN Append(Values(s, kind), e.value.value)
                                         ELSE Values(s, kind)
         /\ Listing(Values(s, kind))
<1> DEFINE t == Append(s, e)
           I == {k \in DOMAIN s : s[k].ok /\ s[k].value.is = kind}
           J == {k \in DOMAIN t : t[k].ok /\ t[k].value.is = kind}
           u == Selected(s, I)
<1>1. /\ Len(s) \in Nat /\ DOMAIN s = 1..Len(s) /\ DOMAIN t = 1..(Len(s) + 1)
      /\ \A k \in 1..Len(s) : t[k] = s[k]
      /\ t[Len(s) + 1] = e
  BY ListingAppend
<1>2. Values(s, kind) = [k \in DOMAIN u |-> u[k].value.value]
  BY DEF Values
<1>3. Values(t, kind) = [k \in DOMAIN Selected(t, J) |-> Selected(t, J)[k].value.value]
  BY DEF Values
<1>4. J = IF e.ok /\ e.value.is = kind THEN I \union {Len(s) + 1} ELSE I
  <2> HIDE DEF t
  <2>1. DOMAIN t = DOMAIN s \union {Len(s) + 1}
    BY <1>1
  <2> QED
    BY <1>1, <2>1
<1>5. I \subseteq DOMAIN s
  OBVIOUS
<1> HIDE DEF I, J
<1>6. /\ Selected(t, I) = u /\ Listing(u)
      /\ Selected(t, I \union {Len(s) + 1}) = Append(u, e)
  <2>1. Selected(t, I) = u
    BY <1>5, SelectedKeeps
  <2>2. Listing(u) /\ Selected(t, I \union {Len(s) + 1}) = Append(u, e)
    BY <1>5, SelectedGrows, Zenon
  <2> QED
    BY <2>1, <2>2
<1> HIDE DEF u, t, J
<1> DEFINE f == [k \in DOMAIN u |-> u[k].value.value]
           g == [k \in DOMAIN Append(u, e) |-> Append(u, e)[k].value.value]
           b == e.value.value
<1>7. /\ DOMAIN u = 1..Len(u) /\ DOMAIN Append(u, e) = 1..(Len(u) + 1) /\ Len(u) \in Nat
      /\ \A k \in 1..Len(u) : Append(u, e)[k] = u[k]
      /\ Append(u, e)[Len(u) + 1] = e
  BY <1>6, ListingAppend
<1> DEFINE m == Len(u)
           S == {f[k] : k \in 1..m} \union {g[k] : k \in 1..(m + 1)}
<1>8. (\A k \in 1..m : g[k] = f[k]) /\ g[m + 1] = b
  BY <1>7
<1>9. m \in Nat /\ f \in [1..m -> S] /\ g \in [1..(m + 1) -> S]
  BY <1>7
<1> HIDE DEF f, g, b, S, m
<1>10. g = Append(f, b)
  BY <1>8, <1>9, AppendIs
<1>11. Listing(f)
  BY <1>8, <1>9, AppendIs
<1> QED
  BY <1>2, <1>3, <1>4, <1>6, <1>10, <1>11 DEF f, g, b, t

\* What the chunks of s that carry something carry: Chunks, of any s.
Bearing(s, carries) ==
  LET found == Selected(s, {k \in DOMAIN s : s[k].carries = carries})
  IN [k \in DOMAIN found |-> found[k].value]

\* What the chunks carry grows by the chunk that carries it.
LEMMA BearingAppend ==
  ASSUME NEW s, Listing(s), NEW e, NEW carries
  PROVE  /\ Bearing(Append(s, e), carries) = IF e.carries = carries
                                             THEN Append(Bearing(s, carries), e.value)
                                             ELSE Bearing(s, carries)
         /\ Listing(Bearing(s, carries))
<1> DEFINE t == Append(s, e)
           I == {k \in DOMAIN s : s[k].carries = carries}
           J == {k \in DOMAIN t : t[k].carries = carries}
           u == Selected(s, I)
<1>1. /\ Len(s) \in Nat /\ DOMAIN s = 1..Len(s) /\ DOMAIN t = 1..(Len(s) + 1)
      /\ \A k \in 1..Len(s) : t[k] = s[k]
      /\ t[Len(s) + 1] = e
  BY ListingAppend
<1>2. Bearing(s, carries) = [k \in DOMAIN u |-> u[k].value]
  BY DEF Bearing
<1>3. Bearing(t, carries) = [k \in DOMAIN Selected(t, J) |-> Selected(t, J)[k].value]
  BY DEF Bearing
<1>4. J = IF e.carries = carries THEN I \union {Len(s) + 1} ELSE I
  <2> HIDE DEF t
  <2>1. DOMAIN t = DOMAIN s \union {Len(s) + 1}
    BY <1>1
  <2> QED
    BY <1>1, <2>1
<1>5. I \subseteq DOMAIN s
  OBVIOUS
<1> HIDE DEF I, J
<1>6. /\ Selected(t, I) = u /\ Listing(u)
      /\ Selected(t, I \union {Len(s) + 1}) = Append(u, e)
  <2>1. Selected(t, I) = u
    BY <1>5, SelectedKeeps
  <2>2. Listing(u) /\ Selected(t, I \union {Len(s) + 1}) = Append(u, e)
    BY <1>5, SelectedGrows, Zenon
  <2> QED
    BY <2>1, <2>2
<1> HIDE DEF u, t, J
<1> DEFINE f == [k \in DOMAIN u |-> u[k].value]
           g == [k \in DOMAIN Append(u, e) |-> Append(u, e)[k].value]
           b == e.value
<1>7. /\ DOMAIN u = 1..Len(u) /\ DOMAIN Append(u, e) = 1..(Len(u) + 1) /\ Len(u) \in Nat
      /\ \A k \in 1..Len(u) : Append(u, e)[k] = u[k]
      /\ Append(u, e)[Len(u) + 1] = e
  BY <1>6, ListingAppend
<1> DEFINE m == Len(u)
           S == {f[k] : k \in 1..m} \union {g[k] : k \in 1..(m + 1)}
<1>8. (\A k \in 1..m : g[k] = f[k]) /\ g[m + 1] = b
  BY <1>7
<1>9. m \in Nat /\ f \in [1..m -> S] /\ g \in [1..(m + 1) -> S]
  BY <1>7
<1> HIDE DEF f, g, b, S, m
<1>10. g = Append(f, b)
  BY <1>8, <1>9, AppendIs
<1>11. Listing(f)
  BY <1>8, <1>9, AppendIs
<1> QED
  BY <1>2, <1>3, <1>4, <1>6, <1>10, <1>11 DEF f, g, b, t

\* Nothing is selected of nothing.
LEMMA NothingSelected == /\ \A kind : Values(<<>>, kind) = <<>>
                         /\ \A carries : Bearing(<<>>, carries) = <<>>
<1>1. Selected(<<>>, {}) = <<>> /\ DOMAIN <<>> = {}
  <2>1. Cardinality({}) = 0 /\ 1..0 = {}
    BY FS_EmptySet
  <2> QED
    BY <2>1 DEF Selected
<1>2. ASSUME NEW kind PROVE Values(<<>>, kind) = <<>>
  <2>1. {k \in DOMAIN <<>> : <<>>[k].ok /\ <<>>[k].value.is = kind} = {}
    BY <1>1
  <2> QED
    BY <1>1, <2>1 DEF Values
<1>3. ASSUME NEW carries PROVE Bearing(<<>>, carries) = <<>>
  <2>1. {k \in DOMAIN <<>> : <<>>[k].carries = carries} = {}
    BY <1>1
  <2> QED
    BY <1>1, <2>1 DEF Bearing
<1> QED
  BY <1>2, <1>3

-----------------------------------------------------------------------------
(* That a stream adds up to the body. *)

LEMMA ChunkFields == \A carries, v : Chunk(carries, v).carries = carries /\ Chunk(carries, v).value = v
  BY DEF Chunk

\* So far the chunks bear what the events carried.
ChatParts(h, events) ==
  /\ Bearing(h.sent, "content") = Values(events, "text_delta")
  /\ Bearing(h.sent, "reasoning_content") = Values(events, "reasoning_delta")
  /\ Bearing(h.sent, "finish") = <<>> /\ Bearing(h.sent, "usage") = <<>>
  /\ "usageAsked" \in DOMAIN h /\ h.usageAsked = call.body.include_usage

\* A delta of the run is a chunk of the chat stream (routes.rs:189-199).
LEMMA ChatGathers ==
  ASSUME NEW h, Writing(h), NEW events \in Seq(Results), ChatParts(h, events), NEW e \in Results, e.ok
  PROVE  ChatParts(ChatEvent(h, e), Append(events, e))
<1>1. Listing(h.sent) /\ Listing(events) /\ {"sent", "done", "over"} \subseteq DOMAIN h
  BY DEF Writing, Open, Listing
<1>2. e.value \in Deltas \union Segments \union Dones
  BY ResultKinds
<1>3. \A kind : Values(Append(events, e), kind) = IF e.value.is = kind
                                                  THEN Append(Values(events, kind), e.value.value)
                                                  ELSE Values(events, kind)
  BY <1>1, ValuesAppend
<1>4. ASSUME NEW to, NEW from, e.value.is = from,
             <<to, from>> \in {<<"content", "text_delta">>, <<"reasoning_content", "reasoning_delta">>},
             ChatEvent(h, e) = [h EXCEPT !.sent = Append(h.sent, Chunk(to, e.value.value))]
      PROVE  ChatParts(ChatEvent(h, e), Append(events, e))
  <2> DEFINE a == Chunk(to, e.value.value)
             g == ChatEvent(h, e)
  <2>1. a.carries = to /\ a.value = e.value.value
    BY ChunkFields
  <2>2. g.sent = Append(h.sent, a) /\ "usageAsked" \in DOMAIN g /\ g.usageAsked = h.usageAsked
    BY <1>1, <1>4 DEF ChatParts
  <2> HIDE DEF a, g
  <2>3. \A carries : Bearing(g.sent, carries) = IF to = carries
                                                THEN Append(Bearing(h.sent, carries), e.value.value)
                                                ELSE Bearing(h.sent, carries)
    BY <1>1, <2>1, <2>2, BearingAppend
  <2>4. (to = "content" /\ from = "text_delta") \/ (to = "reasoning_content" /\ from = "reasoning_delta")
    BY <1>4
  <2>5. ChatParts(g, Append(events, e))
    BY <1>3, <1>4, <2>2, <2>3, <2>4 DEF ChatParts
  <2> QED
    BY <2>5 DEF g
<1>5. CASE e.value.is = "text_delta"
  <2>1. ChatEvent(h, e) = [h EXCEPT !.sent = Append(h.sent, Chunk("content", e.value.value))]
    BY <1>5 DEF ChatEvent
  <2> QED
    BY <1>4, <1>5, <2>1
<1>6. CASE e.value.is = "reasoning_delta"
  <2>1. ChatEvent(h, e) = [h EXCEPT !.sent = Append(h.sent, Chunk("reasoning_content", e.value.value))]
    BY <1>6 DEF ChatEvent
  <2> QED
    BY <1>4, <1>6, <2>1
<1>7. CASE e.value.is \in {"done", "segment"}
  <2> DEFINE g == ChatEvent(h, e)
  <2>1. g.sent = h.sent /\ "usageAsked" \in DOMAIN g /\ g.usageAsked = h.usageAsked
    BY <1>1, <1>7 DEF ChatEvent, ChatParts
  <2> HIDE DEF g
  <2>2. ChatParts(g, Append(events, e))
    BY <1>3, <1>7, <2>1 DEF ChatParts
  <2> QED
    BY <2>2 DEF g
<1>8. e.value.is \in {"text_delta", "reasoning_delta", "segment", "done"}
  BY <1>2 DEF Deltas, Segments, Dones
<1> QED
  BY <1>5, <1>6, <1>7, <1>8

\* A run that ended well, folded.
LEMMA FoldedWhole ==
  ASSUME NEW events, \A k \in DOMAIN events : events[k].ok, NEW d, Values(events, "done") = <<d>>
  PROVE  Folded("generate", events).value.value =
           [text |-> Values(events, "text_delta"),
            reasoning |-> TextOption(Values(events, "reasoning_delta")),
            finish |-> d.finish, usage |-> d.usage]
<1> DEFINE all  == Collect(events)
           done == Values(events, "done")
           output == [text |-> Values(events, "text_delta"),
                      reasoning |-> TextOption(Values(events, "reasoning_delta")),
                      finish |-> done[1].finish, usage |-> done[1].usage]
<1>1. all.ok
  BY CollectOk DEF Ok
<1>2. done # <<>> /\ done[1] = d
  OBVIOUS
<1>3. Folded("generate", events) = IF ~all.ok THEN all ELSE IF done = <<>> THEN Err("Runtime")
                                   ELSE Ok(Oneof("generated", output))
  BY DEF Folded
<1>4. Ok(Oneof("generated", output)).value.value = output
  BY DEF Ok, Oneof
<1> HIDE DEF all
<1>5. Folded("generate", events).value.value = output
  <2> HIDE DEF done, output
  <2> QED
    BY <1>1, <1>2, <1>3, <1>4
<1> QED
  BY <1>2, <1>5

\* The finished chat stream is the unary completion (routes.rs:206-231,
\* chat.rs:222-250).
LEMMA ChatAddsUp ==
  ASSUME NEW h, Writing(h), h.done # None, NEW events, ChatParts(h, events)
  PROVE  LET sent == ChatEnd(h).sent
         IN /\ Bearing(sent, "content") = Values(events, "text_delta")
            /\ Bearing(sent, "reasoning_content") = Values(events, "reasoning_delta")
            /\ Bearing(sent, "finish") = <<h.done.finish>>
            /\ Bearing(sent, "usage") = IF call.body.include_usage THEN <<h.done.usage>> ELSE <<>>
<1> DEFINE a == Chunk("finish", h.done.finish)
           b == Chunk("usage", h.done.usage)
           c == Chunk("[DONE]", None)
           s1 == Append(h.sent, a)
           s2 == IF h.usageAsked THEN Append(s1, b) ELSE s1
           s3 == Append(s2, c)
<1>1. Listing(h.sent)
  BY DEF Writing, Open
<1>2. /\ a.carries = "finish" /\ a.value = h.done.finish /\ b.carries = "usage" /\ b.value = h.done.usage
      /\ c.carries = "[DONE]"
  BY ChunkFields
<1>3. ChatEnd(h).sent = h.sent \o <<a>> \o (IF h.usageAsked THEN <<b>> ELSE <<>>) \o <<c>>
  BY DEF ChatEnd, Writing
<1> HIDE DEF a, b, c
<1>4. h.sent \o <<a>> = s1 /\ Listing(s1)
  BY <1>1, ListingPush, ListingAppend
<1>5. s1 \o (IF h.usageAsked THEN <<b>> ELSE <<>>) = s2 /\ Listing(s2)
  <2> HIDE DEF s1
  <2> QED
    BY <1>4, ListingPush, ListingAppend
<1>6. s2 \o <<c>> = s3
  <2> HIDE DEF s2
  <2> QED
    BY <1>5, ListingPush
<1>7. ChatEnd(h).sent = s3
  <2> HIDE DEF s1, s2, s3
  <2> QED
    BY <1>3, <1>4, <1>5, <1>6
<1>8. \A carries : Bearing(s1, carries) = IF carries = "finish" THEN Append(Bearing(h.sent, carries), h.done.finish)
                                          ELSE Bearing(h.sent, carries)
  <2>1. \A carries : Bearing(s1, carries) = IF a.carries = carries THEN Append(Bearing(h.sent, carries), a.value)
                                            ELSE Bearing(h.sent, carries)
    BY <1>1, BearingAppend
  <2> HIDE DEF s1
  <2> QED
    BY <1>2, <2>1
<1>9. \A carries : Bearing(s2, carries) = IF carries = "usage" /\ h.usageAsked
                                            THEN Append(Bearing(s1, carries), h.done.usage)
                                          ELSE Bearing(s1, carries)
  <2> HIDE DEF s1
  <2>1. \A carries : Bearing(Append(s1, b), carries) = IF carries = "usage"
                                            THEN Append(Bearing(s1, carries), h.done.usage)
                                          ELSE Bearing(s1, carries)
    BY <1>2, <1>4, BearingAppend
  <2> QED
    BY <2>1
<1>10. \A carries : carries # "[DONE]" => Bearing(s3, carries) = Bearing(s2, carries)
  <2> HIDE DEF s2
  <2> QED
    BY <1>2, <1>5, BearingAppend
<1>11. Append(<<>>, h.done.finish) = <<h.done.finish>> /\ Append(<<>>, h.done.usage) = <<h.done.usage>>
  OBVIOUS
<1> HIDE DEF s1, s2, s3
<1> QED
  BY <1>7, <1>8, <1>9, <1>10, <1>11 DEF ChatParts

\* So far the loop's text and reasoning are what the events carried.
ResponsesParts(h, events) ==
  /\ {"text", "reasoning", "reasoning_open"} \subseteq DOMAIN h
  /\ h.text = Values(events, "text_delta")
  /\ h.reasoning = Values(events, "reasoning_delta")
  /\ h.reasoning_open <=> h.reasoning # <<>>

\* Writing events leaves what the loop gathered.
LEMMA EmitKeeps == ASSUME NEW h, NEW events, {"text", "reasoning", "reasoning_open"} \subseteq DOMAIN h
                   PROVE  /\ {"text", "reasoning", "reasoning_open"} \subseteq DOMAIN Emit(h, events)
                          /\ Emit(h, events).text = h.text
                          /\ Emit(h, events).reasoning = h.reasoning
                          /\ Emit(h, events).reasoning_open = h.reasoning_open
  BY DEF Emit

\* A delta of the run lengthens the text or the reasoning (routes.rs:309-358).
LEMMA ResponsesGathers ==
  ASSUME NEW h, NEW events \in Seq(Results), ResponsesParts(h, events), NEW e \in Results, e.ok
  PROVE  ResponsesParts(ResponsesEvent(h, e), Append(events, e))
<1>1. Listing(events)
  BY DEF Listing
<1>2. e.value \in Deltas \union Segments \union Dones
  BY ResultKinds
<1>3. /\ \A kind : Values(Append(events, e), kind) = IF e.value.is = kind
                                                    THEN Append(Values(events, kind), e.value.value)
                                                    ELSE Values(events, kind)
      /\ Listing(h.reasoning)
  <2>1. \A kind : Values(Append(events, e), kind) = IF e.value.is = kind
                                                    THEN Append(Values(events, kind), e.value.value)
                                                    ELSE Values(events, kind)
    BY <1>1, ValuesAppend
  <2>2. Listing(Values(events, "reasoning_delta"))
    BY <1>1, ValuesAppend
  <2> QED
    BY <2>1, <2>2 DEF ResponsesParts
<1> DEFINE r == ResponsesEvent(h, e)
           v == e.value.value
<1>4. CASE e.value.is = "text_delta"
  <2> DEFINE g == [h EXCEPT !.reasoning_closed = h.reasoning_open, !.message_open = TRUE,
                            !.text = Append(@, v)]
             told == CloseReasoning(h) \o OpenMessage(h)
                     \o <<Sse("response.output_text.delta", "message", MessageIndex(h), v)>>
  <2>1. r = Emit(g, told)
    BY <1>4 DEF ResponsesEvent, TextDelta
  <2>2. /\ {"text", "reasoning", "reasoning_open"} \subseteq DOMAIN g
        /\ g.text = Append(h.text, v) /\ g.reasoning = h.reasoning
        /\ g.reasoning_open = h.reasoning_open
    BY DEF ResponsesParts
  <2> HIDE DEF g, told, r
  <2>3. /\ {"text", "reasoning", "reasoning_open"} \subseteq DOMAIN r
        /\ r.text = g.text /\ r.reasoning = g.reasoning /\ r.reasoning_open = g.reasoning_open
    BY <2>1, <2>2, EmitKeeps
  <2>4. /\ Values(Append(events, e), "text_delta") = Append(h.text, v)
        /\ Values(Append(events, e), "reasoning_delta") = h.reasoning
    BY <1>3, <1>4 DEF ResponsesParts
  <2> HIDE DEF v
  <2>5. ResponsesParts(r, Append(events, e))
    BY <2>2, <2>3, <2>4 DEF ResponsesParts
  <2> QED
    BY <2>5 DEF r
<1>5. CASE e.value.is = "reasoning_delta"
  <2> DEFINE g == [h EXCEPT !.reasoning_open = TRUE, !.reasoning = Append(@, v)]
             told == (IF h.reasoning_open THEN <<>>
                      ELSE <<Sse("response.output_item.added", "reasoning", 0, ReasoningItem(<<>>))>>)
                     \o <<Sse("response.reasoning_text.delta", "reasoning", 0, v)>>
  <2>1. r = Emit(g, told)
    BY <1>5 DEF ResponsesEvent, ReasoningDelta
  <2>2. /\ {"text", "reasoning", "reasoning_open"} \subseteq DOMAIN g
        /\ g.text = h.text /\ g.reasoning = Append(h.reasoning, v)
        /\ g.reasoning_open = TRUE
    BY DEF ResponsesParts
  <2>3. Append(h.reasoning, v) # <<>>
    <3>1. Len(Append(h.reasoning, v)) = Len(h.reasoning) + 1 /\ Len(h.reasoning) \in Nat
      BY <1>3, ListingAppend
    <3>2. Len(<<>>) = 0
      OBVIOUS
    <3> HIDE DEF v
    <3> QED
      BY <3>1, <3>2
  <2> HIDE DEF g, told, r
  <2>4. /\ {"text", "reasoning", "reasoning_open"} \subseteq DOMAIN r
        /\ r.text = g.text /\ r.reasoning = g.reasoning /\ r.reasoning_open = g.reasoning_open
    BY <2>1, <2>2, EmitKeeps
  <2>5. /\ Values(Append(events, e), "text_delta") = h.text
        /\ Values(Append(events, e), "reasoning_delta") = Append(h.reasoning, v)
    BY <1>3, <1>5 DEF ResponsesParts
  <2> HIDE DEF v
  <2>6. ResponsesParts(r, Append(events, e))
    BY <2>2, <2>3, <2>4, <2>5 DEF ResponsesParts
  <2> QED
    BY <2>6 DEF r
<1>6. CASE e.value.is \in {"done", "segment"}
  <2>1. /\ {"text", "reasoning", "reasoning_open"} \subseteq DOMAIN r
        /\ r.text = h.text /\ r.reasoning = h.reasoning /\ r.reasoning_open = h.reasoning_open
    BY <1>6 DEF ResponsesEvent, ResponsesParts
  <2> HIDE DEF r
  <2>2. ResponsesParts(r, Append(events, e))
    BY <1>3, <1>6, <2>1 DEF ResponsesParts
  <2> QED
    BY <2>2 DEF r
<1>7. e.value.is \in {"text_delta", "reasoning_delta", "segment", "done"}
  BY <1>2 DEF Deltas, Segments, Dones
<1> QED
  BY <1>4, <1>5, <1>6, <1>7

\* Text that a run wrote is no absent text.
LEMMA TextThere == ASSUME NEW events \in Seq(Results), NEW kind \in {"text_delta", "reasoning_delta"}
                   PROVE  Values(events, kind) # None
<1> DEFINE V == Values(events, kind)
           P == [input : Nat, place : Nat]
<1>1. Listing(V)
  <2>1. Listing(events)
    BY DEF Listing
  <2> QED
    BY <2>1, ValuesAppend
<1>2. ASSUME NEW j \in DOMAIN V PROVE V[j] \in P
  <2>1. PICK k \in DOMAIN events : events[k].ok /\ events[k].value.is = kind /\ V[j] = events[k].value.value
    BY ValuesFrom
  <2>2. events[k] \in Results
    OBVIOUS
  <2>3. events[k].value \in Deltas \union Segments \union Dones
    BY <2>1, <2>2, ResultKinds
  <2> QED
    BY <2>1, <2>3 DEF Deltas, Segments, Dones
<1> HIDE DEF V, P
<1>3. V \in Seq(P)
  BY <1>1, <1>2 DEF Listing
<1> QED
  BY <1>3, CallsAssumption DEF V, P

\* The terminal event of a finished stream is the unary response
\* (routes.rs:435-446, responses.rs:299-322).
LEMMA ResponsesAddsUp ==
  ASSUME NEW h, h.done \in [finish : Finishes, usage : Nat],
         NEW events \in Seq(Results), ResponsesParts(h, events)
  PROVE  ResponseJson(FinalOutput(h), h.done) =
           CompletedJson([text |-> Values(events, "text_delta"),
                          reasoning |-> TextOption(Values(events, "reasoning_delta")),
                          finish |-> h.done.finish, usage |-> h.done.usage])
<1> DEFINE output == [text |-> Values(events, "text_delta"),
                      reasoning |-> TextOption(Values(events, "reasoning_delta")),
                      finish |-> h.done.finish, usage |-> h.done.usage]
           items == IF h.reasoning_open THEN <<ReasoningItem(h.reasoning)>> ELSE <<>>
           told == IF output.reasoning = None THEN <<>> ELSE <<ReasoningItem(output.reasoning)>>
<1>1. Finished(h.done.finish, h.done.usage) = h.done
  BY DEF Finished
<1>2. output.text = h.text /\ output.finish = h.done.finish /\ output.usage = h.done.usage
      /\ output.reasoning = IF h.reasoning = <<>> THEN None ELSE h.reasoning
  BY DEF ResponsesParts, TextOption
<1>3. h.reasoning # None
  BY TextThere DEF ResponsesParts
<1>4. FinalOutput(h) = items \o <<MessageItem(h.text)>>
  BY DEF FinalOutput
<1>5. CompletedJson(output) = ResponseJson(told \o <<MessageItem(output.text)>>,
                                           Finished(output.finish, output.usage))
  BY DEF CompletedJson
<1> HIDE DEF output
<1>6. items = told
  BY <1>2, <1>3 DEF ResponsesParts
<1> HIDE DEF items, told
<1>7. CompletedJson(output) = ResponseJson(FinalOutput(h), h.done)
  BY <1>1, <1>2, <1>4, <1>5, <1>6
<1> QED
  BY <1>7 DEF output

\* While the loop runs.
Gathered ==
  /\ \A k \in DOMAIN played : played[k].ok
  /\ Values(played, "done") = IF handler.done = None THEN <<>> ELSE <<handler.done>>
  /\ handler.done # None => handler.done \in [finish : Finishes, usage : Nat]
  /\ call.kind = "chat" => ChatParts(handler, played)
  /\ call.kind = "responses" => ResponsesParts(handler, played)

Matching ==
  /\ step = "stream" /\ call.kind \in {"chat", "responses"} => Gathered
  /\ StreamMatchesUnary

\* Outside a stream and a good answer there is nothing to match.
LEMMA MatchingStill == ASSUME step' # "stream", step' # "answered" \/ handler' = None \/ cause' # None
                       PROVE  Matching'
  BY DEF Matching, StreamMatchesUnary, Finish, Ended

LEMMA MatchingSame == ASSUME Matching, UNCHANGED <<call, step, handler, played, cause>>
                      PROVE  Matching'
  BY DEF Matching, Gathered, StreamMatchesUnary, Finish, Ended, Chunks, ChatParts, ResponsesParts

LEMMA MatchingFails == ASSUME Stages, step \in {"rpc", "check", "start", "run"},
                              NEW s, NEW e, FailsWith(s, e)
                       PROVE  Matching'
<1>1. handler = None /\ step' = "answered" /\ UNCHANGED handler
  BY DEF Stages, FailsWith
<1> QED
  BY <1>1, MatchingStill

\* A stream that opens has gathered nothing yet.
LEMMA StartMatching == ASSUME Stages, Playing, StartGenerate \/ StartTranscribe \/ StartEmbed
                       PROVE  Matching'
<1>1. step = "start" /\ played = <<>>
  BY DEF StartGenerate, StartTranscribe, StartEmbed, Stages
<1>2. ASSUME NEW events, NEW jobs, Run(events, jobs) PROVE Matching'
  <2>1. CASE ~Streaming
    <3>1. step' = "run"
      BY <1>2, <2>1 DEF Run
    <3> QED
      BY <3>1, MatchingStill
  <2>2. CASE Streaming
    <3>1. step' = "stream" /\ handler' = Opened /\ UNCHANGED <<call, played>>
      BY <1>2, <2>2 DEF Run
    <3>2. StreamMatchesUnary'
      BY <3>1 DEF StreamMatchesUnary, Finish, Ended
    <3>3. ASSUME call.kind = "chat" PROVE Opened.done = None /\ ChatParts(Opened, <<>>)
      <4> DEFINE a == Chunk("role", None)
                 h == Opened
      <4>1. h.sent = Append(<<>>, a) /\ h.done = None /\ "usageAsked" \in DOMAIN h
            /\ h.usageAsked = call.body.include_usage
        BY <3>3 DEF Opened, ChatOpen
      <4>2. a.carries = "role"
        BY ChunkFields
      <4>3. Listing(<<>>)
        BY ListingTuples
      <4> HIDE DEF a, h
      <4>4. \A carries : Bearing(h.sent, carries) = IF a.carries = carries THEN Append(<<>>, a.value) ELSE <<>>
        <5> SUFFICES ASSUME NEW carries
                     PROVE  Bearing(h.sent, carries)
                            = IF a.carries = carries THEN Append(<<>>, a.value) ELSE <<>>
          OBVIOUS
        <5>1. Bearing(<<>>, carries) = <<>>
          BY NothingSelected
        <5>2. Bearing(Append(<<>>, a), carries)
              = IF a.carries = carries THEN Append(Bearing(<<>>, carries), a.value) ELSE Bearing(<<>>, carries)
          BY <4>3, BearingAppend
        <5>3. h.sent = Append(<<>>, a)
          BY <4>1
        <5> QED
          BY <5>1, <5>2, <5>3
      <4>5. ChatParts(h, <<>>)
        BY <4>1, <4>2, <4>4, NothingSelected DEF ChatParts
      <4> QED
        BY <4>1, <4>5 DEF h
    <3>4. ASSUME call.kind = "responses" PROVE Opened.done = None /\ ResponsesParts(Opened, <<>>)
      <4> DEFINE h == [sent |-> <<>>, seq |-> 0, reasoning |-> <<>>, text |-> <<>>, reasoning_open |-> FALSE,
                       reasoning_closed |-> FALSE, message_open |-> FALSE, done |-> None, over |-> FALSE]
                 two == <<InProgress("response.created"), InProgress("response.in_progress")>>
      <4>1. Opened = Emit(h, two)
        BY <3>4 DEF Opened, ResponsesOpen
      <4>2. /\ {"text", "reasoning", "reasoning_open"} \subseteq DOMAIN h
            /\ h.text = <<>> /\ h.reasoning = <<>> /\ ~h.reasoning_open
        OBVIOUS
      <4>3. Emit(h, two).done = None
        BY DEF Emit
      <4> HIDE DEF h, two
      <4>4. ResponsesParts(Opened, <<>>)
        BY <4>1, <4>2, EmitKeeps, NothingSelected DEF ResponsesParts
      <4> QED
        BY <4>1, <4>3, <4>4
    <3>5. ASSUME call.kind \in {"chat", "responses"} PROVE Gathered'
      <4> DEFINE h == Opened
      <4>1. h.done = None
        BY <3>3, <3>4, <3>5
      <4>2. (call.kind = "chat" => ChatParts(h, <<>>)) /\ (call.kind = "responses" => ResponsesParts(h, <<>>))
        BY <3>3, <3>4
      <4>3. handler' = h /\ played' = <<>> /\ call' = call /\ DOMAIN <<>> = {}
        BY <1>1, <3>1
      <4>4. Values(<<>>, "done") = <<>>
        BY NothingSelected
      <4> HIDE DEF h
      <4> QED
        BY <4>1, <4>2, <4>3, <4>4 DEF Gathered, ChatParts, ResponsesParts
    <3> QED
      BY <3>1, <3>2, <3>5 DEF Matching
  <2> QED
    BY <2>1, <2>2
<1>3. ASSUME NEW e, Fails(e) PROVE Matching'
  BY <1>1, <1>3, MatchingFails DEF Fails
<1>4. CASE StartGenerate
  BY <1>2, <1>3, <1>4 DEF StartGenerate
<1>5. CASE StartTranscribe
  BY <1>2, <1>3, <1>5 DEF StartTranscribe
<1>6. CASE StartEmbed
  BY <1>1, <1>6, MatchingFails DEF StartEmbed
<1> QED
  BY <1>4, <1>5, <1>6

LEMMA GatheredNext ==
  ASSUME UNCHANGED call, NEW h, NEW events, handler' = h, played' = events,
         \A k \in DOMAIN events : events[k].ok,
         Values(events, "done") = IF h.done = None THEN <<>> ELSE <<h.done>>,
         h.done # None => h.done \in [finish : Finishes, usage : Nat],
         call.kind = "chat" => ChatParts(h, events),
         call.kind = "responses" => ResponsesParts(h, events)
  PROVE  Gathered'
  BY DEF Gathered, ChatParts, ResponsesParts

\* Taking an event, or its error.
LEMMA TakeMatching == ASSUME Stages, Passing, Taken, Playing, Matching, TakeEvent PROVE Matching'
<1> DEFINE e == Head(script)
<1>1. step = "stream" /\ script # <<>> /\ script \in Seq(Results) /\ Streaming /\ cause = None
  BY DEF TakeEvent, Passing, Playing, Stages
<1>2. e \in Results
  BY <1>1
<1>3. UNCHANGED call /\ played' = Append(played, e) /\ cause' = (IF e.ok THEN cause ELSE e)
  BY DEF TakeEvent
<1>4. call.kind \in {"chat", "responses", "transcriptions"}
  BY <1>1, StreamKinds
<1>5. CASE ~e.ok
  <2>1. ~Crossed(e).ok
    BY <1>5, CrossedFails
  <2>2. e \in Reported
    BY <1>2, <1>5, ResultKinds, RunErrorReported
  <2>3. step' = "answered" /\ cause' # None
    BY <1>3, <1>5, <2>1, <2>2, ReportedIsSome DEF TakeEvent
  <2> QED
    BY <2>3, MatchingStill
<1>6. CASE e.ok
  <2>1. Crossed(e) = e
    BY <1>2, <1>6, ResultCrosses
  <2>2. handler' = Took(e) /\ step' = "stream"
    BY <1>1, <1>6, <2>1 DEF TakeEvent
  <2>3. StreamMatchesUnary'
    BY <2>2 DEF StreamMatchesUnary, Finish, Ended
  <2>4. ASSUME call.kind \in {"chat", "responses"} PROVE Gathered'
    <3> DEFINE h == Took(e)
               events == Append(played, e)
    <3>1. Loop /\ Gathered
      BY <1>1, <2>4 DEF Playing, Matching
    <3>2. Writing(handler) /\ handler.done = None
      BY <1>1, <3>1 DEF Loop
    <3>3. e.value \in Deltas \union Segments \union Dones
      BY <1>2, <1>6, ResultKinds
    <3>4. played \in Seq(Results) /\ Listing(played)
      BY DEF Taken, Listing
    <3>5. (call.kind = "chat" => h = ChatEvent(handler, e)) /\ (call.kind = "responses" => h = ResponsesEvent(handler, e))
      BY <2>1 DEF Took
    <3> HIDE DEF e
    <3>6. call.kind = "chat" => ChatParts(h, events)
      BY <1>2, <1>6, <3>1, <3>2, <3>4, <3>5, ChatGathers DEF Gathered
    <3>7. call.kind = "responses" => ResponsesParts(h, events)
      BY <1>2, <1>6, <3>1, <3>4, <3>5, ResponsesGathers DEF Gathered
    <3>8. /\ e.value \in Deltas \union Segments => h.done = None
          /\ e.value \in Dones => h.done = e.value.value
      <4>1. CASE call.kind = "chat"
        BY <1>6, <3>2, <3>5, <4>1, ChatTakes
      <4>2. CASE call.kind = "responses"
        BY <1>6, <3>2, <3>5, <4>2, ResponsesTakes
      <4> QED
        BY <2>4, <4>1, <4>2
    <3>9. \A k \in DOMAIN events : events[k].ok
      <4>1. /\ Len(played) \in Nat /\ DOMAIN played = 1..Len(played) /\ DOMAIN events = 1..(Len(played) + 1)
            /\ \A k \in 1..Len(played) : events[k] = played[k]
            /\ events[Len(played) + 1] = e
        BY <3>4, ListingAppend
      <4>2. \A k \in DOMAIN events : k \in 1..Len(played) \/ k = Len(played) + 1
        BY <4>1
      <4> HIDE DEF events
      <4> QED
        BY <1>6, <3>1, <4>1, <4>2 DEF Gathered
    <3>10. Values(events, "done") = IF e.value.is = "done" THEN <<e.value.value>> ELSE <<>>
      <4>1. Values(played, "done") = <<>>
        BY <3>1, <3>2 DEF Gathered
      <4>2. Append(<<>>, e.value.value) = <<e.value.value>>
        OBVIOUS
      <4>3. Values(events, "done") = IF e.ok /\ e.value.is = "done" THEN Append(Values(played, "done"), e.value.value)
                                     ELSE Values(played, "done")
        BY <3>4, ValuesAppend
      <4> HIDE DEF events
      <4> QED
        BY <1>6, <4>1, <4>2, <4>3
    <3>11. e.value \in Dones => /\ e.value.is = "done" /\ e.value.value \in [finish : Finishes, usage : Nat]
                                /\ e.value.value # None
      BY CallsAssumption DEF Dones, Finishes
    <3>12. e.value \in Deltas \union Segments => e.value.is # "done"
      BY DEF Deltas, Segments
    <3> HIDE DEF h, events
    <3>13. /\ Values(events, "done") = IF h.done = None THEN <<>> ELSE <<h.done>>
           /\ h.done # None => h.done \in [finish : Finishes, usage : Nat]
      BY <3>3, <3>8, <3>10, <3>11, <3>12
    <3>14. handler' = h /\ played' = events
      BY <1>3, <2>2 DEF h, events, e
    <3> QED
      BY <1>3, <3>6, <3>7, <3>9, <3>13, <3>14, GatheredNext
  <2> QED
    BY <1>3, <2>2, <2>3, <2>4 DEF Matching
<1> QED
  BY <1>5, <1>6

\* The end of the run's events.
LEMMA EndMatching == ASSUME Stages, Taken, Playing, Matching, EndOfStream PROVE Matching'
<1>1. /\ step = "stream" /\ script = <<>> /\ Streaming
      /\ step' = "answered" /\ UNCHANGED <<call, played>>
      /\ handler' = CASE call.kind = "chat"      -> ChatEnd(handler)
                      [] call.kind = "responses" -> ResponsesEnd(handler)
                      [] OTHER                   -> handler
  BY DEF EndOfStream, Playing
<1>2. call.kind \in {"chat", "responses", "transcriptions"}
  BY <1>1, StreamKinds
<1> DEFINE output == Folded("generate", played).value.value
           d == handler.done
<1>3. ASSUME call.kind \in {"chat", "responses"}
      PROVE  /\ Writing(handler) /\ Gathered
             /\ d # None => output = [text |-> Values(played, "text_delta"),
                                      reasoning |-> TextOption(Values(played, "reasoning_delta")),
                                      finish |-> d.finish, usage |-> d.usage]
  <2>1. Writing(handler) /\ Gathered
    BY <1>1, <1>3 DEF Playing, Loop, Matching
  <2>2. d # None => Values(played, "done") = <<d>>
    BY <2>1 DEF Gathered
  <2>3. \A k \in DOMAIN played : played[k].ok
    BY <2>1 DEF Gathered
  <2> HIDE DEF d
  <2> QED
    BY <2>1, <2>2, <2>3, FoldedWhole
<1>4. CASE call.kind = "chat"
  <2> DEFINE h == ChatEnd(handler)
             sent == h.sent
  <2>1. handler' = h /\ (d = None => h.done = None)
    <3>1. d = None => h.done = None
      BY <1>3, <1>4 DEF ChatEnd, Writing
    <3> QED
      BY <1>1, <1>4, <3>1
  <2>2. ASSUME d # None
        PROVE  /\ Bearing(sent, "content") = output.text
               /\ TextOption(Bearing(sent, "reasoning_content")) = output.reasoning
               /\ Bearing(sent, "finish") = <<output.finish>>
               /\ Bearing(sent, "usage") = IF call.body.include_usage THEN <<output.usage>> ELSE <<>>
    <3>1. ChatParts(handler, played) /\ Writing(handler)
      BY <1>3, <1>4 DEF Gathered
    <3>2. /\ Bearing(sent, "content") = Values(played, "text_delta")
          /\ Bearing(sent, "reasoning_content") = Values(played, "reasoning_delta")
          /\ Bearing(sent, "finish") = <<d.finish>>
          /\ Bearing(sent, "usage") = IF call.body.include_usage THEN <<d.usage>> ELSE <<>>
      BY <2>2, <3>1, ChatAddsUp
    <3> HIDE DEF sent, output, d
    <3> QED
      BY <1>3, <1>4, <2>2, <3>2
  <2> HIDE DEF h
  <2>3. Matching'
    <3>1. step' = "answered" /\ call' = call /\ played' = played /\ handler' = h
      BY <1>1, <2>1
    <3>2. \A carries : Chunks(carries)' = Bearing(h.sent, carries)
      BY <3>1 DEF Chunks, Bearing
    <3>3. Folded("generate", played)'.value.value = output
      BY <3>1
    <3> HIDE DEF output, d
    <3>4. Finish("chat")' => d # None
      BY <2>1, <3>1 DEF Finish
    <3>5. ~Finish("responses")'
      BY <1>4, <3>1 DEF Finish
    <3> QED
      BY <2>2, <3>1, <3>2, <3>3, <3>4, <3>5 DEF Matching, StreamMatchesUnary, CompletionJson
  <2> QED
    BY <2>3
<1>5. CASE call.kind = "responses"
  <2> DEFINE h == ResponsesEnd(handler)
  <2>1. handler' = h /\ (d = None => h.done = None)
    <3>1. d = None => h.done = None
      BY <1>3, <1>5 DEF ResponsesEnd, Writing
    <3> QED
      BY <1>1, <1>5, <3>1
  <2>2. ASSUME d # None PROVE Last(h.sent).event.value = CompletedJson(output)
    <3>1. ResponsesParts(handler, played) /\ Writing(handler) /\ d \in [finish : Finishes, usage : Nat]
      BY <1>3, <1>5, <2>2 DEF Gathered
    <3>2. Last(h.sent).event.value = ResponseJson(FinalOutput(handler), d)
      BY <1>5, <2>2, <3>1, ResponsesEnds
    <3>3. ResponseJson(FinalOutput(handler), d) = CompletedJson([text |-> Values(played, "text_delta"),
                                      reasoning |-> TextOption(Values(played, "reasoning_delta")),
                                      finish |-> d.finish, usage |-> d.usage])
      BY <3>1, ResponsesAddsUp DEF Taken
    <3> HIDE DEF h, output, d
    <3> QED
      BY <1>3, <1>5, <2>2, <3>2, <3>3
  <2> HIDE DEF h
  <2>3. Matching'
    <3>1. step' = "answered" /\ call' = call /\ played' = played /\ handler' = h
      BY <1>1, <2>1
    <3>2. Folded("generate", played)'.value.value = output
      BY <3>1
    <3> HIDE DEF output, d
    <3>3. Finish("responses")' => d # None
      BY <2>1, <3>1 DEF Finish
    <3>4. ~Finish("chat")'
      BY <1>5, <3>1 DEF Finish
    <3> QED
      BY <2>2, <3>1, <3>2, <3>3, <3>4 DEF Matching, StreamMatchesUnary
  <2> QED
    BY <2>3
<1>6. CASE call.kind = "transcriptions"
  BY <1>1, <1>6 DEF Matching, StreamMatchesUnary, Finish, Ended
<1> QED
  BY <1>2, <1>4, <1>5, <1>6

LEMMA NextMatching ==
  ASSUME Stages, Passing, Taken, Filled, Playing, Matching, [Next]_vars
  PROVE  Matching'
<1>1. CASE Frontend
  <2>1. step = "frontend" /\ UNCHANGED <<handler, cause>> /\ step' \in {"rpc", "answered"}
    BY <1>1 DEF Frontend, Unkeyed, Generation, Upload, Ask, NotYet, Keyed, Reply, Send
  <2>2. handler = None
    BY <2>1 DEF Stages
  <2> QED
    BY <2>1, <2>2, MatchingStill
<1>2. CASE Lost
  BY <1>2, MatchingFails DEF Lost
<1>3. CASE Tell
  <2>1. step = "rpc" /\ UNCHANGED handler /\ step' = "answered"
    BY <1>3 DEF Tell
  <2>2. handler = None
    BY <2>1 DEF Stages
  <2> QED
    BY <2>1, <2>2, MatchingStill
<1>4. ASSUME NEW e, Fails(e), step \in {"rpc", "check", "start", "run"} PROVE Matching'
  BY <1>4, MatchingFails DEF Fails
<1>5. CASE Admit
  <2>1. step = "rpc" /\ ((\E e : Fails(e)) \/ step' = "check")
    BY <1>5 DEF Admit, Move
  <2> QED
    BY <1>4, <2>1, MatchingStill
<1>6. CASE CheckInput
  <2>1. step = "check" /\ ((\E e : Fails(e)) \/ step' \in {"start", "check"})
    BY <1>6 DEF CheckInput, Move
  <2> QED
    BY <1>4, <2>1, MatchingStill
<1>7. CASE StartGenerate \/ StartTranscribe \/ StartEmbed
  BY <1>7, StartMatching
<1>8. CASE Fold
  <2>1. step = "run" /\ handler = None
    BY <1>8 DEF Fold, Stages
  <2>2. (\E e : Fails(e)) \/ (step' \in {"start", "answered"} /\ UNCHANGED handler)
    BY <1>8 DEF Fold
  <2> QED
    BY <1>4, <2>1, <2>2, MatchingStill
<1>9. CASE Stream
  BY <1>9, TakeMatching, EndMatching DEF Stream
<1>10. CASE \E c \in Calls : Arrive(c)
  <2>1. step' \in {"rpc", "frontend"}
    BY <1>10 DEF Arrive
  <2> QED
    BY <2>1, MatchingStill
<1>11. CASE Over
  BY <1>11, MatchingStill DEF Over
<1>12. CASE UNCHANGED <<local, promised>>
  BY <1>12, MatchingSame DEF local
<1>13. CASE \E i \in Ids : CrashUnder(i)
  BY <1>13, MatchingSame DEF CrashUnder
<1> QED
  BY <1>1, <1>2, <1>3, <1>5, <1>6, <1>7, <1>8, <1>9, <1>10, <1>11, <1>12, <1>13, Steps DEF Service

LEMMA MatchingHolds == Spec => []Matching
<1>1. Init => Matching
  BY DEF Init, Idle, Matching, StreamMatchesUnary, Finish, Ended
<1>2. Stages /\ Passing /\ Taken /\ Filled /\ Playing /\ Matching /\ [Next]_vars => Matching'
  BY NextMatching
<1> QED
  BY <1>1, <1>2, StagesHold, PassingHolds, TakenHolds, FilledHolds, PlayingHolds, PTL DEF Spec

\* What a stream adds up to is the body its run would have had without
\* streaming, on either endpoint (routes.rs:188-231, 309-446, chat.rs:222-250,
\* responses.rs:257-322).
THEOREM StreamAddsUp == Spec => []StreamMatchesUnary
<1>1. Matching => StreamMatchesUnary
  BY DEF Matching
<1> QED
  BY <1>1, MatchingHolds, PTL

-----------------------------------------------------------------------------
(* What an SDK makes of the typed events of /v1/responses. *)

\* What the first k events give, from what those before the last of them gave.
Given(sent, f, k) ==
  IF k = 0 THEN [place \in 0..1 |-> Nothing] ELSE Replayed(f[k - 1], sent[k].event)

\* f gives what each of the first n events leads to.
Upto(sent, n, f) == f = [k \in 0..n |-> Given(sent, f, k)]

\* Replay is such a function at the number of the last event.
LEMMA ReplayIs ==
  \A sent : Replay(sent) = (CHOOSE f : Upto(sent, Len(sent), f))[Len(sent)]
  BY DEF Replay, Upto, Given

\* A function for the first n events extends to the next one.
LEMMA UptoNext == ASSUME NEW s, NEW n \in Nat, NEW f, Upto(s, n, f) PROVE \E g : Upto(s, n + 1, g)
<1> DEFINE g == [k \in 0..(n + 1) |-> IF k = n + 1 THEN Given(s, f, n + 1) ELSE f[k]]
<1>1. f = [k \in 0..n |-> Given(s, f, k)]
  BY DEF Upto
<1>2. ASSUME NEW k \in 0..(n + 1) PROVE g[k] = Given(s, g, k)
  <2>1. CASE k = 0
    <3>1. k # n + 1 /\ k \in 0..n
      BY <2>1
    <3>2. g[k] = f[k] /\ f[k] = Given(s, f, k)
      BY <1>1, <3>1
    <3> HIDE DEF g
    <3> QED
      BY <2>1, <3>2 DEF Given
  <2>2. CASE k # 0
    <3>1. k - 1 \in 0..n /\ k - 1 \in 0..(n + 1) /\ k - 1 # n + 1
      BY <2>2
    <3>2. g[k - 1] = f[k - 1]
      BY <3>1
    <3>3. g[k] = Given(s, f, k)
      <4>1. CASE k = n + 1
        BY <4>1
      <4>2. CASE k # n + 1
        <5>1. k \in 0..n
          BY <4>2
        <5> HIDE DEF Given
        <5> QED
          BY <1>1, <4>2, <5>1
      <4> QED
        BY <4>1, <4>2
    <3> HIDE DEF g
    <3> QED
      BY <2>2, <3>2, <3>3 DEF Given
  <2> QED
    BY <2>1, <2>2
<1>3. g = [k \in 0..(n + 1) |-> g[k]]
  OBVIOUS
<1> HIDE DEF g
<1>4. g = [k \in 0..(n + 1) |-> Given(s, g, k)]
  BY <1>2, <1>3
<1> QED
  BY <1>4 DEF Upto

\* There is one for every number of events.
LEMMA UptoExists == ASSUME NEW s, NEW n \in Nat PROVE \E f : Upto(s, n, f)
<1> DEFINE T == {k \in Nat : ~\E f : Upto(s, k, f)}
<1> SUFFICES ASSUME T # {} PROVE FALSE
  OBVIOUS
<1>1. PICK k \in T : \A j \in T : k <= j
  BY Least
<1>2. k # 0
  <2> DEFINE f == [j \in 0..0 |-> Given(s, [place \in {} |-> 0], j)]
  <2>1. 0..0 = {0} /\ \A h : Given(s, h, 0) = [place \in 0..1 |-> Nothing]
    BY DEF Given
  <2>2. f = [j \in {0} |-> [place \in 0..1 |-> Nothing]]
    BY <2>1
  <2>3. [j \in 0..0 |-> Given(s, f, j)] = [j \in {0} |-> [place \in 0..1 |-> Nothing]]
    BY <2>1
  <2> HIDE DEF f
  <2>4. Upto(s, 0, f)
    BY <2>2, <2>3 DEF Upto
  <2> QED
    BY <1>1, <2>4
<1>3. k - 1 \in Nat /\ k - 1 \notin T /\ (k - 1) + 1 = k
  BY <1>1, <1>2
<1>4. PICK f : Upto(s, k - 1, f)
  BY <1>3
<1>5. \E g : Upto(s, k, g)
  BY <1>3, <1>4, UptoNext
<1> QED
  BY <1>1, <1>5

\* Sequences that agree on their first n events give the same up to there.
LEMMA UptoAgrees ==
  ASSUME NEW s, NEW t, NEW n \in Nat, NEW m \in Nat, n <= m, \A k \in 1..n : s[k] = t[k],
         NEW f, Upto(s, n, f), NEW g, Upto(t, m, g)
  PROVE  f[n] = g[n]
<1> DEFINE T == {k \in 0..n : f[k] # g[k]}
<1> SUFFICES ASSUME T # {} PROVE FALSE
  OBVIOUS
<1>1. T \subseteq Nat
  OBVIOUS
<1>2. PICK k \in T : \A j \in T : k <= j
  BY <1>1, Least
<1>3. f = [j \in 0..n |-> Given(s, f, j)] /\ g = [j \in 0..m |-> Given(t, g, j)]
  BY DEF Upto
<1>4. k \in 0..n /\ k \in 0..m /\ f[k] # g[k]
  BY <1>2
<1>5. f[k] = Given(s, f, k) /\ g[k] = Given(t, g, k)
  <2> HIDE DEF Given
  <2> QED
    BY <1>3, <1>4
<1>6. k # 0 => k - 1 \in 0..n /\ k - 1 \notin T /\ k \in 1..n
  BY <1>2, <1>4
<1>7. k # 0 => f[k - 1] = g[k - 1] /\ s[k] = t[k]
  BY <1>6
<1> QED
  BY <1>4, <1>5, <1>7 DEF Given

\* Replay takes the events one after another.
LEMMA ReplaySteps ==
  /\ Replay(<<>>) = [place \in 0..1 |-> Nothing]
  /\ \A s, e : Listing(s) => Replay(Append(s, e)) = Replayed(Replay(s), e.event)
<1> DEFINE F(s) == CHOOSE f : Upto(s, Len(s), f)
<1>1. \A s : Len(s) \in Nat => Upto(s, Len(s), F(s))
  BY UptoExists
<1>2. \A s : Replay(s) = F(s)[Len(s)]
  BY ReplayIs
<1> HIDE DEF F
<1>3. Replay(<<>>) = [place \in 0..1 |-> Nothing]
  <2>1. Len(<<>>) = 0 /\ 0 \in 0..0
    OBVIOUS
  <2>2. F(<<>>) = [k \in 0..0 |-> Given(<<>>, F(<<>>), k)]
    BY <1>1, <2>1 DEF Upto
  <2>3. F(<<>>)[0] = Given(<<>>, F(<<>>), 0)
    BY <2>1, <2>2
  <2> QED
    BY <1>2, <2>1, <2>3 DEF Given
<1>4. ASSUME NEW s, NEW e, Listing(s) PROVE Replay(Append(s, e)) = Replayed(Replay(s), e.event)
  <2> DEFINE n == Len(s)
             t == Append(s, e)
  <2>1. n \in Nat /\ Len(t) = n + 1 /\ t[n + 1] = e /\ \A k \in 1..n : s[k] = t[k]
    BY <1>4, ListingAppend
  <2> HIDE DEF n, t
  <2>2. Upto(s, n, F(s)) /\ Upto(t, n + 1, F(t))
    BY <1>1, <2>1 DEF n
  <2>3. F(s)[n] = F(t)[n]
    <3> DEFINE m == n + 1
               f == F(s)
               g == F(t)
    <3>1. n \in Nat /\ m \in Nat /\ n <= m /\ \A k \in 1..n : s[k] = t[k]
      BY <2>1
    <3>2. Upto(s, n, f) /\ Upto(t, m, g)
      BY <2>2
    <3> HIDE DEF m, f, g
    <3>3. f[n] = g[n]
      BY <3>1, <3>2, UptoAgrees
    <3> QED
      BY <3>3 DEF f, g
  <2>4. F(t)[n + 1] = Given(t, F(t), n + 1)
    <3>1. n + 1 \in 0..(n + 1) /\ F(t) = [k \in 0..(n + 1) |-> Given(t, F(t), k)]
      BY <2>1, <2>2 DEF Upto
    <3> QED
      BY <3>1
  <2>5. Given(t, F(t), n + 1) = Replayed(F(t)[n], e.event)
    BY <2>1 DEF Given
  <2> QED
    BY <1>2, <2>1, <2>3, <2>4, <2>5 DEF n, t
<1> QED
  BY <1>3, <1>4

\* Whatever was told before, these events take its replay from one to other.
Leads(events, one, other) ==
  \A s, n : Listing(s) /\ n \in Nat /\ Replay(s) = one => Replay(s \o Numbered(events, n)) = other

\* Concatenating one is appending it.
LEMMA ConcatOne == ASSUME NEW s, Listing(s), NEW a PROVE s \o <<a>> = Append(s, a)
<1> DEFINE S == {s[k] : k \in DOMAIN s} \union {a}
<1>1. s \in Seq(S) /\ a \in S
  BY DEF Listing
<1> HIDE DEF S
<1> QED
  BY <1>1

\* No event leads nowhere.
LEMMA LeadsNowhere == \A one : Leads(<<>>, one, one)
<1> SUFFICES ASSUME NEW s, NEW n \in Nat, Listing(s) PROVE s \o Numbered(<<>>, n) = s
  BY DEF Leads
<1>1. Numbered(<<>>, n) = <<>>
  BY DEF Numbered
<1>2. s \in Seq({s[k] : k \in DOMAIN s})
  BY DEF Listing
<1> QED
  BY <1>1, <1>2

\* One event leads where Replayed does.
LEMMA LeadsOnce == \A one, e : Leads(<<e>>, one, Replayed(one, e))
<1> SUFFICES ASSUME NEW e, NEW s, NEW n \in Nat, Listing(s)
             PROVE  Replay(s \o Numbered(<<e>>, n)) = Replayed(Replay(s), e)
  BY DEF Leads
<1> DEFINE a == [number |-> n, event |-> e]
<1>1. Numbered(<<e>>, n) = <<a>>
  <2>1. DOMAIN <<e>> = 1..1 /\ <<e>>[1] = e /\ n + 1 - 1 = n
    OBVIOUS
  <2>2. Numbered(<<e>>, n) = [k \in 1..1 |-> [number |-> n + k - 1, event |-> <<e>>[k]]]
    BY <2>1 DEF Numbered
  <2>3. \A k \in 1..1 : [number |-> n + k - 1, event |-> <<e>>[k]] = a
    BY <2>1
  <2> HIDE DEF a
  <2>4. Numbered(<<e>>, n) = [k \in 1..1 |-> a]
    BY <2>2, <2>3
  <2>5. [k \in 1..1 |-> a] = <<a>>
    OBVIOUS
  <2> QED
    BY <2>4, <2>5
<1>2. a.event = e
  OBVIOUS
<1> HIDE DEF a
<1>3. s \o <<a>> = Append(s, a)
  BY ConcatOne
<1> QED
  BY <1>1, <1>2, <1>3, ReplaySteps

\* Numbering two sequences in turn is numbering their concatenation.
LEMMA NumberedConcat ==
  ASSUME NEW s, NEW a, NEW b, Listing(s), Listing(a), Listing(b), NEW n \in Nat
  PROVE  s \o Numbered(a \o b, n) = (s \o Numbered(a, n)) \o Numbered(b, n + Len(a))
<1> DEFINE p == Len(a)
           q == Len(b)
           m == Len(s)
           c == a \o b
           u == Numbered(c, n)
           v == Numbered(a, n)
           w == Numbered(b, n + p)
<1>1. /\ Listing(c) /\ p \in Nat /\ q \in Nat /\ Len(c) = p + q
      /\ DOMAIN a = 1..p /\ DOMAIN b = 1..q /\ DOMAIN c = 1..(p + q)
      /\ \A k \in 1..p : c[k] = a[k]
      /\ \A k \in 1..q : c[p + k] = b[k]
  BY ListingConcat
<1>2. /\ u = [k \in 1..(p + q) |-> [number |-> n + k - 1, event |-> c[k]]]
      /\ v = [k \in 1..p |-> [number |-> n + k - 1, event |-> a[k]]]
      /\ w = [k \in 1..q |-> [number |-> n + p + k - 1, event |-> b[k]]]
  BY <1>1 DEF Numbered
<1>3. /\ Listing(u) /\ Len(u) = p + q /\ Listing(v) /\ Len(v) = p /\ Listing(w) /\ Len(w) = q
  BY <1>1, NumberedListing
<1>4. /\ \A k \in 1..p : u[k] = v[k]
      /\ \A k \in 1..q : u[p + k] = w[k]
  <2>1. ASSUME NEW k \in 1..p PROVE u[k] = v[k]
    <3>1. k \in 1..(p + q)
      BY <1>1
    <3> QED
      BY <1>1, <1>2, <3>1
  <2>2. ASSUME NEW k \in 1..q PROVE u[p + k] = w[k]
    <3>1. p + k \in 1..(p + q) /\ n + (p + k) - 1 = n + p + k - 1
      BY <1>1
    <3>2. u[p + k] = [number |-> n + (p + k) - 1, event |-> c[p + k]]
      BY <1>2, <3>1
    <3> QED
      BY <1>1, <1>2, <3>1, <3>2
  <2> QED
    BY <2>1, <2>2
<1> HIDE DEF u, v, w, c, p, q
<1>5. /\ Listing(s \o u) /\ Len(s \o u) = m + (p + q) /\ m \in Nat
      /\ \A k \in 1..m : (s \o u)[k] = s[k]
      /\ \A k \in 1..(p + q) : (s \o u)[m + k] = u[k]
  BY <1>3, ListingConcat
<1>6. /\ Listing(s \o v) /\ Len(s \o v) = m + p
      /\ \A k \in 1..m : (s \o v)[k] = s[k]
      /\ \A k \in 1..p : (s \o v)[m + k] = v[k]
  BY <1>3, ListingConcat
<1> HIDE DEF m
<1> DEFINE sv == s \o v
<1>7. /\ Listing(sv) /\ Len(sv) = m + p
      /\ \A k \in 1..m : sv[k] = s[k]
      /\ \A k \in 1..p : sv[m + k] = v[k]
  BY <1>6
<1> HIDE DEF sv
<1>8. /\ Listing(sv \o w) /\ Len(sv \o w) = (m + p) + q
      /\ \A k \in 1..(m + p) : (sv \o w)[k] = sv[k]
      /\ \A k \in 1..q : (sv \o w)[(m + p) + k] = w[k]
  <2>1. /\ Listing(sv \o w) /\ Len(sv \o w) = Len(sv) + Len(w)
        /\ \A k \in 1..Len(sv) : (sv \o w)[k] = sv[k]
        /\ \A k \in 1..Len(w) : (sv \o w)[Len(sv) + k] = w[k]
    BY <1>3, <1>7, ListingConcat, SMTT(20)
  <2> QED
    BY <1>3, <1>7, <2>1
<1> DEFINE x == s \o u
           y == sv \o w
<1>9. ASSUME NEW k \in 1..(m + p + q) PROVE x[k] = y[k]
  <2>1. CASE k \in 1..m
    <3>1. k \in 1..(m + p)
      BY <1>1, <1>5, <2>1
    <3> QED
      BY <1>5, <1>7, <1>8, <2>1, <3>1
  <2>2. CASE k \in (m + 1)..(m + p)
    <3> DEFINE j == k - m
    <3>1. j \in 1..p /\ j \in 1..(p + q) /\ k = m + j /\ k \in 1..(m + p)
      BY <1>1, <1>5, <2>2
    <3> HIDE DEF j
    <3> QED
      <4>1. y[k] = sv[k]
        BY <1>8, <3>1
      <4>2. u[j] = v[j]
        BY <1>4, <3>1
      <4>3. sv[m + j] = v[j]
        BY <1>7, <3>1
      <4>4. x[m + j] = u[j]
        BY <1>5, <3>1
      <4> HIDE DEF x, y
      <4> QED
        BY <3>1, <4>1, <4>2, <4>3, <4>4
  <2>3. CASE k \in (m + p + 1)..(m + p + q)
    <3> DEFINE j == k - m - p
    <3>1. j \in 1..q /\ p + j \in 1..(p + q) /\ k = m + (p + j) /\ k = (m + p) + j
      BY <1>1, <1>5, <2>3
    <3> HIDE DEF j
    <3>2. x[m + (p + j)] = u[p + j] /\ y[(m + p) + j] = w[j] /\ u[p + j] = w[j]
      BY <1>4, <1>5, <1>8, <3>1
    <3> QED
      BY <3>1, <3>2
  <2>4. k \in 1..m \/ k \in (m + 1)..(m + p) \/ k \in (m + p + 1)..(m + p + q)
    BY <1>1, <1>5
  <2> HIDE DEF x, y
  <2> QED
    BY <2>1, <2>2, <2>3, <2>4
<1>10. Len(x) = Len(y) /\ Listing(x) /\ Listing(y) /\ Len(x) = m + p + q
  BY <1>1, <1>5, <1>8
<1> HIDE DEF x, y
<1>11. x = [k \in 1..Len(x) |-> x[k]] /\ y = [k \in 1..Len(y) |-> y[k]]
  <2>1. x \in Seq({x[k] : k \in DOMAIN x})
    BY <1>10 DEF Listing
  <2>2. y \in Seq({y[k] : k \in DOMAIN y})
    BY <1>10 DEF Listing
  <2> QED
    BY <2>1, <2>2
<1>12. x = y
  BY <1>9, <1>10, <1>11
<1> QED
  BY <1>12 DEF x, y, sv, u, v, w, c, p

\* One sequence of events leads on from where another has led.
LEMMA LeadsOn == ASSUME NEW a, NEW b, Listing(a), Listing(b), NEW one, NEW other, NEW third,
                        Leads(a, one, other), Leads(b, other, third)
                 PROVE  Leads(a \o b, one, third)
<1> SUFFICES ASSUME NEW s, NEW n \in Nat, Listing(s), Replay(s) = one
             PROVE  Replay(s \o Numbered(a \o b, n)) = third
  BY DEF Leads
<1> DEFINE u == s \o Numbered(a, n)
<1>1. Replay(u) = other
  BY DEF Leads
<1>2. Listing(u) /\ n + Len(a) \in Nat
  <2>1. Listing(Numbered(a, n)) /\ Len(a) \in Nat
    BY NumberedListing, ListingAppend
  <2> QED
    BY <2>1, ListingConcat
<1> HIDE DEF u
<1>3. Replay(u \o Numbered(b, n + Len(a))) = third
  BY <1>1, <1>2 DEF Leads
<1>4. s \o Numbered(a \o b, n) = u \o Numbered(b, n + Len(a))
  BY NumberedConcat, SMTT(20) DEF u
<1> QED
  BY <1>3, <1>4

\* A longer tuple is a concatenation.
LEMMA TuplesJoin == /\ \A a, b : <<a, b>> = <<a>> \o <<b>>
                    /\ \A a, b, c, d : <<a, b, c, d>> = <<a, b>> \o <<c, d>>
<1>1. ASSUME NEW a, NEW b PROVE <<a, b>> = <<a>> \o <<b>>
  <2>1. Listing(<<a>>)
    BY ListingTuples
  <2>2. <<a>> \o <<b>> = Append(<<a>>, b)
    BY <2>1, ConcatOne
  <2>3. Append(<<a>>, b) = <<a, b>>
    <3> DEFINE t == Append(<<a>>, b)
    <3>1. /\ Listing(t) /\ DOMAIN t = 1..2 /\ t[1] = a /\ t[2] = b
      <4>1. Len(<<a>>) = 1 /\ <<a>>[1] = a
        OBVIOUS
      <4> QED
        BY <2>1, <4>1, ListingAppend
    <3> HIDE DEF t
    <3>2. t = [k \in 1..2 |-> t[k]]
      BY <3>1 DEF Listing
    <3>3. t = <<a, b>>
      BY <3>1, <3>2
    <3> QED
      BY <3>3 DEF t
  <2> QED
    BY <2>2, <2>3
<1>2. ASSUME NEW a, NEW b, NEW c, NEW d PROVE <<a, b, c, d>> = <<a, b>> \o <<c, d>>
  OBVIOUS
<1> QED
  BY <1>1, <1>2

\* Events lead where each of them does in its turn.
LEMMA LeadsByEach ==
  \A a, b, c, d, o0, o1, o2, o3, o4 :
    /\ Replayed(o0, a) = o1 => Leads(<<a>>, o0, o1)
    /\ Replayed(o0, a) = o1 /\ Replayed(o1, b) = o2 => Leads(<<a, b>>, o0, o2)
    /\ Replayed(o0, a) = o1 /\ Replayed(o1, b) = o2 /\ Replayed(o2, c) = o3 /\ Replayed(o3, d) = o4
         => Leads(<<a, b, c, d>>, o0, o4)
<1> SUFFICES ASSUME NEW a, NEW b, NEW c, NEW d, NEW o0, NEW o1, NEW o2, NEW o3, NEW o4
             PROVE  /\ Replayed(o0, a) = o1 => Leads(<<a>>, o0, o1)
                    /\ Replayed(o0, a) = o1 /\ Replayed(o1, b) = o2 => Leads(<<a, b>>, o0, o2)
                    /\ Replayed(o0, a) = o1 /\ Replayed(o1, b) = o2 /\ Replayed(o2, c) = o3 /\ Replayed(o3, d) = o4
                         => Leads(<<a, b, c, d>>, o0, o4)
  OBVIOUS
<1>1. \A e, o, r : Replayed(o, e) = r => Leads(<<e>>, o, r)
  BY LeadsOnce
<1>2. \A e : Listing(<<e>>)
  BY ListingTuples
<1>3. ASSUME NEW e, NEW f, NEW o, NEW q, NEW r, Replayed(o, e) = q, Replayed(q, f) = r
      PROVE  Leads(<<e, f>>, o, r)
  <2>1. <<e, f>> = <<e>> \o <<f>>
    BY TuplesJoin
  <2>2. Leads(<<e>>, o, q) /\ Leads(<<f>>, q, r)
    BY <1>1, <1>3
  <2> QED
    BY <1>2, <2>1, <2>2, LeadsOn
<1>4. ASSUME Replayed(o0, a) = o1, Replayed(o1, b) = o2, Replayed(o2, c) = o3, Replayed(o3, d) = o4
      PROVE  Leads(<<a, b, c, d>>, o0, o4)
  <2>1. <<a, b, c, d>> = <<a, b>> \o <<c, d>>
    BY TuplesJoin
  <2>2. Leads(<<a, b>>, o0, o2) /\ Leads(<<c, d>>, o2, o4)
    BY <1>3, <1>4
  <2>3. Listing(<<a, b>>) /\ Listing(<<c, d>>)
    BY ListingTuples
  <2> QED
    BY <2>1, <2>2, <2>3, LeadsOn
<1> QED
  BY <1>1, <1>3, <1>4

\* What a client has put together of an item, and of both places.
Growing(item, text)  == [item |-> item, text |-> text, closed |-> FALSE]
Complete(item, text) == [item |-> item, text |-> text, closed |-> TRUE]
Places(a, b) == [k \in 0..1 |-> IF k = 0 THEN a ELSE b]

Put(o, k, slot) == [o EXCEPT ![k] = slot]

\* Putting an item into a place leaves the other.
LEMMA PlacesChange ==
  ASSUME NEW p, NEW q, NEW r
  PROVE  /\ Put(Places(p, q), 0, r) = Places(r, q) /\ Places(p, q)[0] = p
         /\ Put(Places(p, q), 1, r) = Places(p, r) /\ Places(p, q)[1] = q
<1> DEFINE o == Places(p, q)
<1>1. o = [k \in 0..1 |-> IF k = 0 THEN p ELSE q] /\ DOMAIN o = 0..1 /\ 0 \in 0..1 /\ 1 \in 0..1
  BY DEF Places
<1>2. o[0] = p /\ o[1] = q /\ \A k \in 0..1 : k = 0 \/ k = 1
  BY <1>1
<1> HIDE DEF o
<1>3. [o EXCEPT ![0] = r] = [k \in 0..1 |-> IF k = 0 THEN r ELSE q]
  BY <1>1, <1>2
<1>4. [o EXCEPT ![1] = r] = [k \in 0..1 |-> IF k = 0 THEN p ELSE r]
  BY <1>1, <1>2
<1> QED
  BY <1>2, <1>3, <1>4 DEF o, Places, Put

\* What each type of event changes.
LEMMA ReplayedIs ==
  ASSUME NEW o, NEW e
  PROVE  /\ e.type = "response.output_item.added" =>
              Replayed(o, e) = Put(o, e.index, Growing(e.item, <<>>))
         /\ e.type \in {"response.reasoning_text.delta", "response.output_text.delta"} =>
              \A i, s : o[e.index] = Growing(i, s) =>
                Replayed(o, e) = Put(o, e.index, Growing(i, Append(s, e.value)))
         /\ e.type = "response.output_item.done" =>
              \A i, s : o[e.index] = Growing(i, s) =>
                Replayed(o, e) = Put(o, e.index, Complete(i, s))
         /\ e.type \notin {"response.output_item.added", "response.reasoning_text.delta",
                           "response.output_text.delta", "response.output_item.done"} =>
              Replayed(o, e) = o
<1>1. CASE e.type = "response.output_item.added"
  BY <1>1 DEF Replayed, Put, Growing
<1>2. CASE e.type \in {"response.reasoning_text.delta", "response.output_text.delta"}
  <2>1. Replayed(o, e) = Put(o, e.index, [item |-> o[e.index].item, text |-> Append(o[e.index].text, e.value),
                                          closed |-> o[e.index].closed])
    BY <1>2 DEF Replayed, Put
  <2>2. \A i, s : o[e.index] = Growing(i, s) =>
          [item |-> o[e.index].item, text |-> Append(o[e.index].text, e.value), closed |-> o[e.index].closed]
            = Growing(i, Append(s, e.value))
    BY DEF Growing
  <2> QED
    BY <1>2, <2>1, <2>2
<1>3. CASE e.type = "response.output_item.done"
  <2>1. Replayed(o, e) = Put(o, e.index, [item |-> o[e.index].item, text |-> o[e.index].text, closed |-> TRUE])
    BY <1>3 DEF Replayed, Put
  <2>2. \A i, s : o[e.index] = Growing(i, s) =>
          [item |-> o[e.index].item, text |-> o[e.index].text, closed |-> TRUE] = Complete(i, s)
    BY DEF Growing, Complete
  <2> QED
    BY <1>3, <2>1, <2>2
<1>4. CASE e.type \notin {"response.output_item.added", "response.reasoning_text.delta",
                          "response.output_text.delta", "response.output_item.done"}
  BY <1>4 DEF Replayed
<1> QED
  BY <1>1, <1>2, <1>3, <1>4

\* An event about the first place, or about the second.
LEMMA AddedAt ==
  ASSUME NEW e, e.type = "response.output_item.added", NEW a, NEW b
  PROVE  /\ e.index = 0 => Replayed(Places(a, b), e) = Places(Growing(e.item, <<>>), b)
         /\ e.index = 1 => Replayed(Places(a, b), e) = Places(a, Growing(e.item, <<>>))
  BY ReplayedIs, PlacesChange

LEMMA DeltaAt ==
  ASSUME NEW e, e.type \in {"response.reasoning_text.delta", "response.output_text.delta"},
         NEW i, NEW s, NEW a
  PROVE  /\ e.index = 0 => Replayed(Places(Growing(i, s), a), e) = Places(Growing(i, Append(s, e.value)), a)
         /\ e.index = 1 => Replayed(Places(a, Growing(i, s)), e) = Places(a, Growing(i, Append(s, e.value)))
<1> DEFINE new == Growing(i, Append(s, e.value))
           old == Growing(i, s)
<1>1. \A o : o[e.index] = old => Replayed(o, e) = Put(o, e.index, new)
  BY ReplayedIs
<1> HIDE DEF new, old
<1> QED
  BY <1>1, PlacesChange DEF new, old

LEMMA ClosedAt ==
  ASSUME NEW e, e.type = "response.output_item.done", NEW i, NEW s, NEW a
  PROVE  /\ e.index = 0 => Replayed(Places(Growing(i, s), a), e) = Places(Complete(i, s), a)
         /\ e.index = 1 => Replayed(Places(a, Growing(i, s)), e) = Places(a, Complete(i, s))
<1> DEFINE new == Complete(i, s)
           old == Growing(i, s)
<1>1. \A o : o[e.index] = old => Replayed(o, e) = Put(o, e.index, new)
  BY ReplayedIs
<1> HIDE DEF new, old
<1> QED
  BY <1>1, PlacesChange DEF new, old

\* The other events change nothing.
LEMMA PassedOver ==
  ASSUME NEW e, e.type \notin {"response.output_item.added", "response.reasoning_text.delta",
                               "response.output_text.delta", "response.output_item.done"},
         NEW o
  PROVE  Replayed(o, e) = o
  BY ReplayedIs

\* What an event carries is what it was made of.
LEMMA EventFields == \A type, item, index, v :
  /\ Sse(type, item, index, v).type = type /\ Sse(type, item, index, v).item = item
  /\ Sse(type, item, index, v).index = index /\ Sse(type, item, index, v).value = v
  BY DEF Sse

\* What has been told of the reasoning.
ReasoningPlace(h) == IF h.reasoning_closed THEN Complete("reasoning", h.reasoning)
                                       ELSE Growing("reasoning", h.reasoning)

\* What closing the reasoning changes: its place is closed.
LEMMA CloseLeads ==
  ASSUME NEW h, h.reasoning_open, h.reasoning_closed \in BOOLEAN, NEW b
  PROVE  Leads(CloseReasoning(h), Places(ReasoningPlace(h), b), Places(Complete("reasoning", h.reasoning), b))
<1> DEFINE before == ReasoningPlace(h)
           o == Places(before, b)
           q == Places(Complete("reasoning", h.reasoning), b)
<1>1. CASE h.reasoning_closed
  <2>1. CloseReasoning(h) = <<>> /\ o = q
    BY <1>1 DEF CloseReasoning, ReasoningPlace
  <2> HIDE DEF o, q
  <2>2. Leads(CloseReasoning(h), o, q)
    BY <2>1, LeadsNowhere
  <2> QED
    BY <2>2 DEF o, q
<1>2. CASE ~h.reasoning_closed
  <2> DEFINE d == Sse("response.reasoning_text.done", "reasoning", 0, h.reasoning)
             e == Sse("response.output_item.done", "reasoning", 0, ReasoningItem(h.reasoning))
  <2>1. CloseReasoning(h) = <<d, e>>
    BY <1>2 DEF CloseReasoning
  <2>2. before = Growing("reasoning", h.reasoning)
    BY <1>2 DEF ReasoningPlace
  <2>3. d.type = "response.reasoning_text.done" /\ e.type = "response.output_item.done" /\ e.index = 0
    BY EventFields
  <2> HIDE DEF d, e, before
  <2>4. Replayed(o, d) = o
    BY <2>3, PassedOver
  <2>5. Replayed(o, e) = q
    BY <2>2, <2>3, ClosedAt
  <2> HIDE DEF o, q
  <2>6. Leads(CloseReasoning(h), o, q)
    BY <2>1, <2>4, <2>5, LeadsByEach
  <2> QED
    BY <2>6 DEF o, q, before
<1> QED
  BY <1>1, <1>2

\* There is none to close.
LEMMA CloseNothing == ASSUME NEW h, ~h.reasoning_open PROVE \A x : Leads(CloseReasoning(h), x, x)
  BY LeadsNowhere DEF CloseReasoning

\* What opening the message changes: it has a place then.
LEMMA OpenLeads ==
  ASSUME NEW h, h.message_open \in BOOLEAN, ~h.message_open => h.text = <<>>, NEW x
  PROVE  LET before == IF h.message_open THEN Growing("message", h.text) ELSE Nothing
             after  == Growing("message", h.text)
         IN /\ Listing(OpenMessage(h))
            /\ MessageIndex(h) = 1 => Leads(OpenMessage(h), Places(x, before), Places(x, after))
            /\ MessageIndex(h) = 0 => Leads(OpenMessage(h), Places(before, x), Places(after, x))
<1> DEFINE before == IF h.message_open THEN Growing("message", h.text) ELSE Nothing
           after == Growing("message", h.text)
           i == MessageIndex(h)
<1>1. Listing(OpenMessage(h))
  BY ListingTuples DEF OpenMessage
<1>2. CASE h.message_open
  <2>1. OpenMessage(h) = <<>> /\ before = after
    BY <1>2 DEF OpenMessage
  <2> HIDE DEF before, after
  <2>2. \A o : Leads(OpenMessage(h), o, o)
    BY <2>1, LeadsNowhere
  <2> QED
    BY <1>1, <2>1, <2>2 DEF before, after
<1>3. CASE ~h.message_open
  <2> DEFINE d == Sse("response.output_item.added", "message", i, MessageItem(<<>>))
             e == Sse("response.content_part.added", "message", i, <<>>)
  <2>1. OpenMessage(h) = <<d, e>> /\ after = Growing("message", <<>>)
    BY <1>3 DEF OpenMessage
  <2>2. /\ d.type = "response.output_item.added" /\ d.index = i /\ d.item = "message"
        /\ e.type = "response.content_part.added"
    BY EventFields
  <2> HIDE DEF d, e, i, before, after
  <2>3. \A y, z : Replayed(Places(y, z), e) = Places(y, z)
    BY <2>2, PassedOver
  <2>4. ASSUME i = 1 PROVE Leads(<<d, e>>, Places(x, before), Places(x, after))
    <3>1. Replayed(Places(x, before), d) = Places(x, after)
      BY <2>1, <2>2, <2>4, AddedAt
    <3> QED
      BY <2>3, <3>1, LeadsByEach
  <2>5. ASSUME i = 0 PROVE Leads(<<d, e>>, Places(before, x), Places(after, x))
    <3>1. Replayed(Places(before, x), d) = Places(after, x)
      BY <2>1, <2>2, <2>5, AddedAt
    <3> QED
      BY <2>3, <3>1, LeadsByEach
  <2> QED
    BY <1>1, <2>1, <2>4, <2>5 DEF before, after, i
<1> QED
  BY <1>2, <1>3

\* Events are numbered by their places.
Counted(h) ==
  /\ {"sent", "seq"} \subseteq DOMAIN h /\ Listing(h.sent)
  /\ h.seq = Len(h.sent)
  /\ \A k \in DOMAIN h.sent : h.sent[k].number = k - 1

\* Written events take the numbers that follow.
LEMMA EmitCounts ==
  ASSUME NEW h, Counted(h), NEW events, Listing(events)
  PROVE  /\ Counted(Emit(h, events))
         /\ Emit(h, events).sent = h.sent \o Numbered(events, h.seq) /\ h.seq \in Nat
<1> DEFINE t == Numbered(events, h.seq)
           m == Len(h.sent)
           p == Len(events)
           u == h.sent \o t
<1>1. Emit(h, events).sent = u /\ Emit(h, events).seq = h.seq + p /\ DOMAIN Emit(h, events) = DOMAIN h
  BY DEF Emit, Numbered, Counted
<1>2. Listing(t) /\ Len(t) = p /\ p \in Nat /\ DOMAIN events = 1..p
  BY NumberedListing, ListingAppend
<1>3. t = [k \in 1..p |-> [number |-> h.seq + k - 1, event |-> events[k]]]
  BY <1>2 DEF Numbered
<1>4. \A k \in 1..p : t[k].number = h.seq + k - 1
  BY <1>3
<1> HIDE DEF t
<1>5. /\ Listing(u) /\ m \in Nat /\ Len(u) = m + p /\ DOMAIN u = 1..(m + p) /\ DOMAIN h.sent = 1..m
      /\ \A k \in 1..m : u[k] = h.sent[k]
      /\ \A k \in 1..p : u[m + k] = t[k]
  BY <1>2, ListingConcat DEF Counted
<1>6. h.seq = m /\ \A k \in 1..m : h.sent[k].number = k - 1
  BY <1>5 DEF Counted
<1> HIDE DEF m, p, u
<1>7. ASSUME NEW k \in 1..(m + p) PROVE u[k].number = k - 1
  <2>1. CASE k \in 1..m
    BY <1>5, <1>6, <2>1
  <2>2. CASE k \in (m + 1)..(m + p)
    <3> DEFINE j == k - m
    <3>1. j \in 1..p /\ k = m + j
      BY <1>2, <1>5, <2>2
    <3> HIDE DEF j
    <3>2. u[k] = t[j] /\ t[j].number = m + j - 1
      BY <1>4, <1>5, <1>6, <3>1
    <3> QED
      BY <1>5, <3>1, <3>2
  <2> QED
    BY <1>2, <1>5, <2>1, <2>2
<1>8. Emit(h, events).seq = m + p
  BY <1>1, <1>6
<1> QED
  BY <1>1, <1>5, <1>6, <1>7, <1>8 DEF Counted, u, t

\* The two places, as the loop's own variables have them.
FirstPlace(h) ==
  IF h.reasoning_open THEN ReasoningPlace(h)
  ELSE IF h.message_open THEN Growing("message", h.text) ELSE Nothing
SecondPlace(h) == IF h.reasoning_open /\ h.message_open THEN Growing("message", h.text) ELSE Nothing

Locals == {"text", "reasoning", "reasoning_open", "reasoning_closed", "message_open"}

\* ReasonsFirst, of any events.
Reasoned(events) ==
  \A j, k \in DOMAIN events :
    j < k /\ events[j].value.is = "text_delta" => events[k].value.is # "reasoning_delta"

\* So far the client has what the loop has, if the run reasons first; the flags
\* of the loop are what makes it so.
ReplayParts(h, events) ==
  /\ Locals \subseteq DOMAIN h /\ Counted(h)
  /\ h.reasoning_open \in BOOLEAN /\ h.reasoning_closed \in BOOLEAN /\ h.message_open \in BOOLEAN
  /\ h.message_open <=> h.text # <<>>
  /\ Reasoned(events) =>
       /\ h.reasoning_closed <=> h.reasoning_open /\ h.message_open
       /\ Replay(h.sent) = Places(FirstPlace(h), SecondPlace(h))

\* Writing events moves the replay and leaves the loop's variables.
LEMMA EmitShows ==
  ASSUME NEW h, Locals \subseteq DOMAIN h, Counted(h), NEW events, Listing(events)
  PROVE  /\ Locals \subseteq DOMAIN Emit(h, events) /\ Counted(Emit(h, events))
         /\ Emit(h, events).text = h.text /\ Emit(h, events).reasoning = h.reasoning
         /\ Emit(h, events).reasoning_open = h.reasoning_open
         /\ Emit(h, events).reasoning_closed = h.reasoning_closed
         /\ Emit(h, events).message_open = h.message_open
         /\ \A other : Leads(events, Replay(h.sent), other) => Replay(Emit(h, events).sent) = other
<1>1. Counted(Emit(h, events)) /\ Emit(h, events).sent = h.sent \o Numbered(events, h.seq) /\ h.seq \in Nat
  BY EmitCounts
<1>2. \A other : Leads(events, Replay(h.sent), other) => Replay(Emit(h, events).sent) = other
  BY <1>1 DEF Leads, Counted
<1>3. /\ Locals \subseteq DOMAIN Emit(h, events)
      /\ Emit(h, events).text = h.text /\ Emit(h, events).reasoning = h.reasoning
      /\ Emit(h, events).reasoning_open = h.reasoning_open
      /\ Emit(h, events).reasoning_closed = h.reasoning_closed
      /\ Emit(h, events).message_open = h.message_open
  BY DEF Emit, Locals
<1> QED
  BY <1>1, <1>2, <1>3

\* A run that reasons first has written no text before its last reasoning.
LEMMA ReasonedAppend ==
  ASSUME NEW events \in Seq(Results), NEW e, Reasoned(Append(events, e))
  PROVE  /\ Reasoned(events)
         /\ e.value.is = "reasoning_delta" => Values(events, "text_delta") = <<>>
<1> DEFINE t == Append(events, e)
           n == Len(events)
<1>0. Listing(events)
  BY DEF Listing
<1>1. /\ n \in Nat /\ DOMAIN events = 1..n /\ DOMAIN t = 1..(n + 1)
      /\ \A k \in 1..n : t[k] = events[k]
      /\ t[n + 1] = e
  BY <1>0, ListingAppend
<1>2. \A j, k \in 1..(n + 1) : j < k /\ t[j].value.is = "text_delta" => t[k].value.is # "reasoning_delta"
  BY <1>1 DEF Reasoned
<1> HIDE DEF t, n
<1>3. Reasoned(events)
  <2>1. \A k \in 1..n : k \in 1..(n + 1)
    BY <1>1
  <2> QED
    BY <1>1, <1>2, <2>1 DEF Reasoned
<1>4. ASSUME e.value.is = "reasoning_delta" PROVE Values(events, "text_delta") = <<>>
  <2>1. \A k \in 1..n : events[k].value.is # "text_delta"
    <3> SUFFICES ASSUME NEW k \in 1..n PROVE events[k].value.is # "text_delta"
      OBVIOUS
    <3>1. k \in 1..(n + 1) /\ n + 1 \in 1..(n + 1) /\ k < n + 1
      BY <1>1
    <3> QED
      BY <1>1, <1>2, <1>4, <3>1
  <2> DEFINE V == Values(events, "text_delta")
  <2>2. Listing(V) /\ \A j \in DOMAIN V : \E k \in DOMAIN events : events[k].value.is = "text_delta"
    <3>1. Listing(V)
      BY <1>0, ValuesAppend
    <3>2. \A j \in DOMAIN V : \E k \in DOMAIN events : events[k].value.is = "text_delta"
      BY ValuesFrom
    <3> QED
      BY <3>1, <3>2
  <2> HIDE DEF V
  <2>3. DOMAIN V = {}
    BY <1>1, <2>1, <2>2
  <2>4. V \in Seq({V[k] : k \in DOMAIN V})
    BY <2>2 DEF Listing
  <2>5. V = <<>>
    BY <2>3, <2>4
  <2> QED
    BY <2>5 DEF V
<1> QED
  BY <1>3, <1>4

\* A delta of the reasoning (routes.rs:309-330).
LEMMA ReasoningReplays ==
  ASSUME NEW h, NEW events \in Seq(Results), NEW e, ReplayParts(h, events), ResponsesParts(h, events),
         e.value.is = "reasoning_delta", NEW v
  PROVE  ReplayParts(ReasoningDelta(h, v), Append(events, e))
<1> DEFINE g == [h EXCEPT !.reasoning_open = TRUE, !.reasoning = Append(@, v)]
           added == IF h.reasoning_open THEN <<>>
                    ELSE <<Sse("response.output_item.added", "reasoning", 0, ReasoningItem(<<>>))>>
           d == Sse("response.reasoning_text.delta", "reasoning", 0, v)
           r == ReasoningDelta(h, v)
<1>1. r = Emit(g, added \o <<d>>)
  BY DEF ReasoningDelta
<1>2. /\ Locals \subseteq DOMAIN g /\ g.sent = h.sent /\ Counted(g)
      /\ g.text = h.text /\ g.reasoning = Append(h.reasoning, v) /\ g.reasoning_open
      /\ g.reasoning_closed = h.reasoning_closed /\ g.message_open = h.message_open
  BY DEF ReplayParts, Locals, Counted
<1>3. Listing(added) /\ Listing(<<d>>) /\ Listing(added \o <<d>>)
  <2>1. Listing(added) /\ Listing(<<d>>)
    BY ListingTuples
  <2> HIDE DEF added, d
  <2> QED
    BY <2>1, ListingConcat
<1>4. ASSUME Reasoned(Append(events, e))
      PROVE  /\ ~h.message_open /\ ~h.reasoning_closed
             /\ Leads(added \o <<d>>, Replay(h.sent), Places(Growing("reasoning", Append(h.reasoning, v)), Nothing))
  <2>1. Reasoned(events) /\ h.text = <<>>
    BY <1>4, ReasonedAppend DEF ResponsesParts
  <2>2. ~h.message_open /\ ~h.reasoning_closed
    BY <2>1 DEF ReplayParts
  <2> DEFINE o == Places(Growing("reasoning", h.reasoning), Nothing)
  <2>3. Leads(added, Replay(h.sent), o)
    <3>1. Replay(h.sent) = Places(FirstPlace(h), Nothing)
      BY <2>1, <2>2 DEF ReplayParts, SecondPlace
    <3>2. CASE h.reasoning_open
      <4>1. FirstPlace(h) = Growing("reasoning", h.reasoning) /\ added = <<>>
        BY <2>2, <3>2 DEF FirstPlace, ReasoningPlace
      <4> HIDE DEF added
      <4> QED
        BY <3>1, <4>1, LeadsNowhere
    <3>3. CASE ~h.reasoning_open
      <4> DEFINE a == Sse("response.output_item.added", "reasoning", 0, ReasoningItem(<<>>))
      <4>1. added = <<a>> /\ h.reasoning = <<>>
        BY <3>3 DEF ResponsesParts
      <4>2. a.type = "response.output_item.added" /\ a.index = 0 /\ a.item = "reasoning"
        BY EventFields
      <4> HIDE DEF a, added
      <4>3. \A y, z : Replayed(Places(y, z), a) = Places(Growing("reasoning", <<>>), z)
        BY <4>2, AddedAt
      <4>4. Replayed(Replay(h.sent), a) = o
        BY <3>1, <4>1, <4>3
      <4> QED
        BY <4>1, <4>4, LeadsByEach
    <3> QED
      BY <3>2, <3>3
  <2>4. Leads(<<d>>, o, Places(Growing("reasoning", Append(h.reasoning, v)), Nothing))
    <3>1. d.type = "response.reasoning_text.delta" /\ d.index = 0 /\ d.value = v
      BY EventFields
    <3> HIDE DEF d
    <3>2. Replayed(o, d) = Places(Growing("reasoning", Append(h.reasoning, v)), Nothing)
      BY <3>1, DeltaAt
    <3> QED
      BY <3>2, LeadsByEach
  <2> HIDE DEF added, d, o
  <2> QED
    BY <1>3, <2>2, <2>3, <2>4, LeadsOn
<1> HIDE DEF g, added, d, r
<1>5. /\ Locals \subseteq DOMAIN r /\ Counted(r)
      /\ r.text = g.text /\ r.reasoning = g.reasoning /\ r.reasoning_open = g.reasoning_open
      /\ r.reasoning_closed = g.reasoning_closed /\ r.message_open = g.message_open
      /\ \A other : Leads(added \o <<d>>, Replay(g.sent), other) => Replay(r.sent) = other
  BY <1>1, <1>2, <1>3, EmitShows
<1>6. ASSUME Reasoned(Append(events, e))
      PROVE  /\ r.reasoning_closed <=> r.reasoning_open /\ r.message_open
             /\ Replay(r.sent) = Places(FirstPlace(r), SecondPlace(r))
  <2>1. ~r.message_open /\ ~r.reasoning_closed /\ r.reasoning_open
    BY <1>2, <1>4, <1>5, <1>6
  <2>2. FirstPlace(r) = Growing("reasoning", Append(h.reasoning, v)) /\ SecondPlace(r) = Nothing
    BY <1>2, <1>5, <2>1 DEF FirstPlace, SecondPlace, ReasoningPlace
  <2>3. Replay(r.sent) = Places(Growing("reasoning", Append(h.reasoning, v)), Nothing)
    BY <1>2, <1>4, <1>5, <1>6
  <2> QED
    BY <2>1, <2>2, <2>3
<1>7. ReplayParts(r, Append(events, e))
  BY <1>2, <1>5, <1>6 DEF ReplayParts
<1> QED
  BY <1>7 DEF r

\* The places once the reasoning is closed and the message has its own.
OpenPlaces(h) ==
  IF h.reasoning_open THEN Places(Complete("reasoning", h.reasoning), Growing("message", h.text))
                      ELSE Places(Growing("message", h.text), Nothing)

\* Closing the reasoning and opening the message leads there.
LEMMA AnswerLeads ==
  ASSUME NEW h, NEW events, ReplayParts(h, events), Reasoned(events)
  PROVE  /\ Listing(CloseReasoning(h) \o OpenMessage(h))
         /\ Leads(CloseReasoning(h) \o OpenMessage(h), Replay(h.sent), OpenPlaces(h))
<1> DEFINE a == CloseReasoning(h)
           b == OpenMessage(h)
           message == Growing("message", h.text)
           before == IF h.message_open THEN message ELSE Nothing
<1>1. /\ Replay(h.sent) = Places(FirstPlace(h), SecondPlace(h))
      /\ h.reasoning_closed <=> h.reasoning_open /\ h.message_open
      /\ h.reasoning_open \in BOOLEAN /\ h.reasoning_closed \in BOOLEAN /\ h.message_open \in BOOLEAN
      /\ ~h.message_open => h.text = <<>>
  BY DEF ReplayParts
<1>2. Listing(a) /\ Listing(b) /\ Listing(a \o b)
  <2>1. Listing(a) /\ Listing(b)
    BY ListingTuples DEF CloseReasoning, OpenMessage
  <2> HIDE DEF a, b
  <2> QED
    BY <2>1, ListingConcat
<1>3. CASE h.reasoning_open
  <2> DEFINE whole == Complete("reasoning", h.reasoning)
             first == ReasoningPlace(h)
  <2>1. FirstPlace(h) = first /\ SecondPlace(h) = before /\ OpenPlaces(h) = Places(whole, message)
    BY <1>3 DEF FirstPlace, SecondPlace, OpenPlaces
  <2>2. Leads(a, Places(first, before), Places(whole, before))
    <3>1. h.reasoning_open \in BOOLEAN /\ h.reasoning_closed \in BOOLEAN
      BY <1>1
    <3>2. \A y : Leads(CloseReasoning(h), Places(ReasoningPlace(h), y), Places(Complete("reasoning", h.reasoning), y))
      BY <1>3, <3>1, CloseLeads
    <3> QED
      BY <3>2
  <2>3. Leads(b, Places(whole, before), Places(whole, message))
    <3>1. MessageIndex(h) = 1
      BY <1>3 DEF MessageIndex
    <3> HIDE DEF whole
    <3> QED
      BY <1>1, <3>1, OpenLeads
  <2> DEFINE one == Places(first, before)
             other == Places(whole, before)
  <2>4. Leads(a, one, other) /\ Leads(b, other, OpenPlaces(h)) /\ Replay(h.sent) = one
    BY <1>1, <2>1, <2>2, <2>3
  <2> HIDE DEF a, b, one, other
  <2>5. Leads(a \o b, Replay(h.sent), OpenPlaces(h))
    BY <1>2, <2>4, LeadsOn
  <2> QED
    BY <1>2, <2>5 DEF a, b
<1>4. CASE ~h.reasoning_open
  <2>1. FirstPlace(h) = before /\ SecondPlace(h) = Nothing /\ OpenPlaces(h) = Places(message, Nothing)
    BY <1>4 DEF FirstPlace, SecondPlace, OpenPlaces
  <2>2. \A x : Leads(a, x, x)
    BY <1>4, CloseNothing
  <2>3. Leads(b, Places(before, Nothing), Places(message, Nothing))
    <3>1. MessageIndex(h) = 0
      BY <1>4 DEF MessageIndex
    <3> QED
      BY <1>1, <3>1, OpenLeads
  <2> DEFINE one == Places(before, Nothing)
  <2>4. Leads(a, one, one) /\ Leads(b, one, OpenPlaces(h)) /\ Replay(h.sent) = one
    BY <1>1, <2>1, <2>2, <2>3
  <2> HIDE DEF a, b, one
  <2>5. Leads(a \o b, Replay(h.sent), OpenPlaces(h))
    BY <1>2, <2>4, LeadsOn
  <2> QED
    BY <1>2, <2>5 DEF a, b
<1> QED
  BY <1>1, <1>2, <1>3, <1>4

\* A delta of the text (routes.rs:331-358).
LEMMA TextReplays ==
  ASSUME NEW h, NEW events \in Seq(Results), NEW e, ReplayParts(h, events), ResponsesParts(h, events),
         NEW v
  PROVE  ReplayParts(TextDelta(h, v), Append(events, e))
<1> DEFINE g == [h EXCEPT !.reasoning_closed = h.reasoning_open, !.message_open = TRUE,
                          !.text = Append(@, v)]
           before == CloseReasoning(h) \o OpenMessage(h)
           d == Sse("response.output_text.delta", "message", MessageIndex(h), v)
           longer == Growing("message", Append(h.text, v))
           grown == IF h.reasoning_open THEN Places(Complete("reasoning", h.reasoning), longer)
                                       ELSE Places(longer, Nothing)
           r == TextDelta(h, v)
<1>1. r = Emit(g, before \o <<d>>)
  BY DEF TextDelta
<1>2. /\ Locals \subseteq DOMAIN g /\ g.sent = h.sent /\ Counted(g)
      /\ g.text = Append(h.text, v) /\ g.reasoning = h.reasoning /\ g.reasoning_open = h.reasoning_open
      /\ g.reasoning_closed = h.reasoning_open /\ g.message_open
  BY DEF ReplayParts, Locals, Counted
<1>3. Append(h.text, v) # <<>>
  <2>1. Listing(h.text)
    <3>1. Listing(events)
      BY DEF Listing
    <3> QED
      BY <3>1, ValuesAppend DEF ResponsesParts
  <2>2. Len(Append(h.text, v)) = Len(h.text) + 1 /\ Len(h.text) \in Nat /\ Len(<<>>) = 0
    BY <2>1, ListingAppend
  <2> QED
    BY <2>2
<1>4. Listing(before \o <<d>>)
  <2>1. Listing(<<d>>) /\ Listing(CloseReasoning(h)) /\ Listing(OpenMessage(h))
    BY ListingTuples DEF CloseReasoning, OpenMessage
  <2>2. Listing(before)
    BY <2>1, ListingConcat
  <2> HIDE DEF before, d
  <2> QED
    BY <2>1, <2>2, ListingConcat
<1>5. ASSUME Reasoned(Append(events, e)) PROVE Leads(before \o <<d>>, Replay(h.sent), grown)
  <2>1. Reasoned(events)
    BY <1>5, ReasonedAppend
  <2>2. Listing(before) /\ Leads(before, Replay(h.sent), OpenPlaces(h))
    BY <2>1, AnswerLeads
  <2>3. Replayed(OpenPlaces(h), d) = grown
    <3>1. d.type = "response.output_text.delta" /\ d.index = MessageIndex(h) /\ d.value = v
      BY EventFields
    <3> HIDE DEF d
    <3>2. CASE h.reasoning_open
      <4> DEFINE a == Complete("reasoning", h.reasoning)
      <4>1. OpenPlaces(h) = Places(a, Growing("message", h.text)) /\ grown = Places(a, longer) /\ d.index = 1
        BY <3>1, <3>2 DEF OpenPlaces, MessageIndex
      <4> HIDE DEF a
      <4> QED
        BY <3>1, <4>1, DeltaAt
    <3>3. CASE ~h.reasoning_open
      <4>1. OpenPlaces(h) = Places(Growing("message", h.text), Nothing) /\ grown = Places(longer, Nothing)
            /\ d.index = 0
        BY <3>1, <3>3 DEF OpenPlaces, MessageIndex
      <4> HIDE DEF Nothing
      <4> QED
        BY <3>1, <4>1, DeltaAt
    <3> QED
      BY <3>2, <3>3
  <2>4. Leads(<<d>>, OpenPlaces(h), grown) /\ Listing(<<d>>)
    <3> HIDE DEF d, grown
    <3> QED
      BY <2>3, LeadsByEach, ListingTuples
  <2> HIDE DEF before, d, grown
  <2> QED
    BY <2>2, <2>4, LeadsOn
<1> HIDE DEF g, before, d, r
<1>6. /\ Locals \subseteq DOMAIN r /\ Counted(r)
      /\ r.text = g.text /\ r.reasoning = g.reasoning /\ r.reasoning_open = g.reasoning_open
      /\ r.reasoning_closed = g.reasoning_closed /\ r.message_open = g.message_open
      /\ \A other : Leads(before \o <<d>>, Replay(g.sent), other) => Replay(r.sent) = other
  BY <1>1, <1>2, <1>4, EmitShows
<1>7. Places(FirstPlace(r), SecondPlace(r)) = grown
  <2>1. /\ r.message_open /\ r.text = Append(h.text, v) /\ r.reasoning = h.reasoning
        /\ r.reasoning_open = h.reasoning_open /\ r.reasoning_closed = h.reasoning_open
    BY <1>2, <1>6
  <2>2. CASE h.reasoning_open
    <3>1. FirstPlace(r) = Complete("reasoning", h.reasoning) /\ SecondPlace(r) = longer
      BY <2>1, <2>2 DEF FirstPlace, SecondPlace, ReasoningPlace
    <3> QED
      BY <2>2, <3>1
  <2>3. CASE ~h.reasoning_open
    <3>1. FirstPlace(r) = longer /\ SecondPlace(r) = Nothing
      BY <2>1, <2>3 DEF FirstPlace, SecondPlace, ReasoningPlace
    <3> QED
      BY <2>3, <3>1
  <2> QED
    BY <2>2, <2>3
<1> HIDE DEF grown
<1>8. ASSUME Reasoned(Append(events, e))
      PROVE  /\ r.reasoning_closed <=> r.reasoning_open /\ r.message_open
             /\ Replay(r.sent) = Places(FirstPlace(r), SecondPlace(r))
  <2>1. Replay(r.sent) = grown
    BY <1>2, <1>5, <1>6, <1>8
  <2> QED
    BY <1>2, <1>6, <1>7, <2>1
<1>9. ReplayParts(r, Append(events, e))
  <2>1. r.reasoning_open \in BOOLEAN /\ r.reasoning_closed \in BOOLEAN /\ r.message_open /\ r.text # <<>>
    BY <1>2, <1>3, <1>6 DEF ReplayParts
  <2> QED
    BY <1>6, <1>8, <2>1 DEF ReplayParts
<1> QED
  BY <1>9 DEF r

\* Any event of the run.
LEMMA ResponsesReplays ==
  ASSUME NEW h, NEW events \in Seq(Results), ReplayParts(h, events), ResponsesParts(h, events),
         NEW e \in Results, e.ok
  PROVE  ReplayParts(ResponsesEvent(h, e), Append(events, e))
<1> DEFINE r == ResponsesEvent(h, e)
<1>1. CASE e.value.is = "text_delta"
  <2>1. r = TextDelta(h, e.value.value)
    BY <1>1 DEF ResponsesEvent
  <2> QED
    BY <2>1, TextReplays
<1>2. CASE e.value.is = "reasoning_delta"
  <2>1. r = ReasoningDelta(h, e.value.value)
    BY <1>2 DEF ResponsesEvent
  <2> QED
    BY <1>2, <2>1, ReasoningReplays
<1>3. CASE e.value.is \in {"done", "segment"}
  <2>1. /\ Locals \subseteq DOMAIN r /\ Counted(r) /\ r.sent = h.sent
        /\ r.text = h.text /\ r.reasoning = h.reasoning /\ r.reasoning_open = h.reasoning_open
        /\ r.reasoning_closed = h.reasoning_closed /\ r.message_open = h.message_open
    BY <1>3 DEF ResponsesEvent, ReplayParts, Locals, Counted
  <2>2. FirstPlace(r) = FirstPlace(h) /\ SecondPlace(r) = SecondPlace(h)
    BY <2>1 DEF FirstPlace, SecondPlace, ReasoningPlace
  <2>3. Reasoned(Append(events, e)) => Reasoned(events)
    BY ReasonedAppend
  <2> HIDE DEF r
  <2>4. ReplayParts(r, Append(events, e))
    BY <2>1, <2>2, <2>3 DEF ReplayParts
  <2> QED
    BY <2>4 DEF r
<1>4. e.value.is \in {"text_delta", "reasoning_delta", "segment", "done"}
  <2>1. e.value \in Deltas \union Segments \union Dones
    BY ResultKinds
  <2> QED
    BY <2>1 DEF Deltas, Segments, Dones
<1> QED
  BY <1>1, <1>2, <1>3, <1>4

\* The places at the end.
ClosedPlaces(h) ==
  IF h.reasoning_open THEN Places(Complete("reasoning", h.reasoning), Complete("message", h.text))
                      ELSE Places(Complete("message", h.text), Nothing)

\* The end of a run that has told its finish closes what is open.
LEMMA EndReplays ==
  ASSUME NEW h, {"done", "over"} \subseteq DOMAIN h, h.done # None, NEW events, ReplayParts(h, events)
  PROVE  /\ Counted(ResponsesEnd(h))
         /\ Reasoned(events) => Replay(ResponsesEnd(h).sent) = ClosedPlaces(h)
<1> DEFINE at == MessageIndex(h)
           a == Sse("response.output_text.done", "message", at, h.text)
           b == Sse("response.content_part.done", "message", at, h.text)
           c == Sse("response.output_item.done", "message", at, MessageItem(h.text))
           d == Sse(TerminalEvent(h.done.finish), None, None, ResponseJson(FinalOutput(h), h.done))
           before == CloseReasoning(h) \o OpenMessage(h)
           closing == <<a, b, c, d>>
           r == Emit(h, before \o closing)
<1>1. ResponsesEnd(h) = [r EXCEPT !.over = TRUE]
  BY DEF ResponsesEnd
<1>2. /\ a.type = "response.output_text.done" /\ b.type = "response.content_part.done"
      /\ c.type = "response.output_item.done" /\ c.index = at
      /\ d.type \in {"response.completed", "response.incomplete"}
  BY EventFields DEF TerminalEvent
<1> HIDE DEF a, b, c, d
<1>3. Listing(before) /\ Listing(closing)
  <2>1. Listing(CloseReasoning(h)) /\ Listing(OpenMessage(h))
    BY ListingTuples DEF CloseReasoning, OpenMessage
  <2>2. Listing(closing)
    BY DEF Listing
  <2> QED
    BY <2>1, <2>2, ListingConcat
<1>4. ASSUME Reasoned(events) PROVE Leads(before, Replay(h.sent), OpenPlaces(h))
  BY <1>4, AnswerLeads
<1> HIDE DEF before
<1>5. Leads(closing, OpenPlaces(h), ClosedPlaces(h))
  <2> DEFINE one == OpenPlaces(h)
             other == ClosedPlaces(h)
  <2>1. Replayed(one, a) = one /\ Replayed(one, b) = one /\ Replayed(other, d) = other
    <3> HIDE DEF one, other
    <3> QED
      BY <1>2, PassedOver
  <2>2. Replayed(one, c) = other
    <3>1. CASE h.reasoning_open
      <4> DEFINE x == Complete("reasoning", h.reasoning)
      <4>1. one = Places(x, Growing("message", h.text)) /\ other = Places(x, Complete("message", h.text))
            /\ c.index = 1
        BY <1>2, <3>1 DEF OpenPlaces, ClosedPlaces, MessageIndex
      <4> HIDE DEF x, one, other
      <4> QED
        BY <1>2, <4>1, ClosedAt
    <3>2. CASE ~h.reasoning_open
      <4>1. one = Places(Growing("message", h.text), Nothing) /\ other = Places(Complete("message", h.text), Nothing)
            /\ c.index = 0
        BY <1>2, <3>2 DEF OpenPlaces, ClosedPlaces, MessageIndex
      <4> HIDE DEF one, other
      <4> QED
        BY <1>2, <4>1, ClosedAt
    <3> QED
      BY <3>1, <3>2
  <2> HIDE DEF one, other
  <2>3. Leads(closing, one, other)
    BY <2>1, <2>2, LeadsByEach
  <2> QED
    BY <2>3 DEF one, other
<1> HIDE DEF closing
<1>6. Listing(before \o closing)
  BY <1>3, ListingConcat
<1>7. /\ Counted(r)
      /\ \A other : Leads(before \o closing, Replay(h.sent), other) => Replay(r.sent) = other
  BY <1>6, EmitShows DEF ReplayParts
<1>8. ASSUME Reasoned(events) PROVE Leads(before \o closing, Replay(h.sent), ClosedPlaces(h))
  BY <1>3, <1>4, <1>5, <1>8, LeadsOn
<1>9. DOMAIN ResponsesEnd(h) = DOMAIN r /\ ResponsesEnd(h).sent = r.sent /\ ResponsesEnd(h).seq = r.seq
  <2> HIDE DEF r
  <2> QED
    BY <1>1, <1>7 DEF Counted
<1> HIDE DEF r
<1> QED
  BY <1>7, <1>8, <1>9 DEF Counted

\* The opening of the response, before its first delta (routes.rs:281-307).
LEMMA OpeningReplays == ReplayParts(ResponsesOpen, <<>>)
<1> DEFINE h == [sent |-> <<>>, seq |-> 0, reasoning |-> <<>>, text |-> <<>>, reasoning_open |-> FALSE,
                 reasoning_closed |-> FALSE, message_open |-> FALSE, done |-> None, over |-> FALSE]
           a == InProgress("response.created")
           b == InProgress("response.in_progress")
           r == ResponsesOpen
<1>1. r = Emit(h, <<a, b>>)
  BY DEF ResponsesOpen
<1>2. /\ Locals \subseteq DOMAIN h /\ Counted(h)
      /\ h.text = <<>> /\ ~h.reasoning_open /\ ~h.reasoning_closed /\ ~h.message_open
      /\ Replay(h.sent) = [k \in 0..1 |-> Nothing]
  <2>1. Listing(<<>>) /\ Len(<<>>) = 0 /\ DOMAIN <<>> = {}
    BY ListingTuples
  <2> QED
    BY <2>1, ReplaySteps DEF Locals, Counted
<1>3. a.type = "response.created" /\ b.type = "response.in_progress"
  BY EventFields DEF InProgress
<1> DEFINE o == [k \in 0..1 |-> Nothing]
<1>4. o = Places(Nothing, Nothing)
  BY DEF Places
<1> HIDE DEF h, a, b, o
<1>5. Leads(<<a, b>>, o, o)
  BY <1>3, PassedOver, LeadsByEach
<1>6. Listing(<<a, b>>)
  BY ListingTuples
<1>7. /\ Locals \subseteq DOMAIN r /\ Counted(r)
      /\ r.text = h.text /\ r.reasoning_open = h.reasoning_open
      /\ r.reasoning_closed = h.reasoning_closed /\ r.message_open = h.message_open
      /\ \A other : Leads(<<a, b>>, Replay(h.sent), other) => Replay(r.sent) = other
  BY <1>1, <1>2, <1>6, EmitShows
<1>8. Replay(r.sent) = o
  BY <1>2, <1>5, <1>7 DEF o
<1> HIDE DEF r
<1>9. FirstPlace(r) = Nothing /\ SecondPlace(r) = Nothing
  BY <1>2, <1>7 DEF FirstPlace, SecondPlace
<1>10. ReplayParts(r, <<>>)
  <2>1. /\ r.reasoning_open = FALSE /\ r.reasoning_closed = FALSE /\ r.message_open = FALSE /\ r.text = <<>>
    BY <1>2, <1>7 DEF h
  <2> QED
    BY <1>4, <1>7, <1>8, <1>9, <2>1 DEF ReplayParts
<1> QED
  BY <1>10 DEF r

\* While the loop of /v1/responses runs, and when it is over.
Replaying ==
  /\ step = "stream" /\ call.kind = "responses" => ReplayParts(handler, played)
  /\ EventsReplay

\* Outside a stream and a good answer there is nothing to replay.
LEMMA ReplayingStill == ASSUME step' # "stream", step' # "answered" \/ handler' = None \/ cause' # None
                        PROVE  Replaying'
  BY DEF Replaying, EventsReplay, Finish, Ended

\* What is gathered of a stream depends on its loop and its events alone.
LEMMA ReplayPartsSame == ASSUME NEW h, NEW events, handler' = h, played' = events, ReplayParts(h, events)
                         PROVE  ReplayParts(handler, played)'
  BY DEF ReplayParts, Counted, Listing, Reasoned, FirstPlace, SecondPlace, ReasoningPlace

LEMMA ReplayingSame == ASSUME Replaying, UNCHANGED <<call, step, handler, played, cause>>
                       PROVE  Replaying'
<1>1. (step = "stream" /\ call.kind = "responses" => ReplayParts(handler, played))'
  <2>1. ASSUME ReplayParts(handler, played) PROVE ReplayParts(handler, played)'
    BY <2>1, ReplayPartsSame
  <2> QED
    BY <2>1 DEF Replaying
<1>2. EventsReplay'
  BY DEF Replaying, EventsReplay, Finish, Ended, ReasonsFirst, FinalBody
<1> QED
  BY <1>1, <1>2 DEF Replaying

LEMMA ReplayingFails == ASSUME Stages, step \in {"rpc", "check", "start", "run"},
                               NEW s, NEW e, FailsWith(s, e)
                        PROVE  Replaying'
<1>1. handler = None /\ step' = "answered" /\ UNCHANGED handler
  BY DEF Stages, FailsWith
<1> QED
  BY <1>1, ReplayingStill

\* A stream that opens has told of no item.
LEMMA StartReplaying == ASSUME Stages, StartGenerate \/ StartTranscribe \/ StartEmbed
                        PROVE  Replaying'
<1>1. step = "start" /\ played = <<>>
  BY DEF StartGenerate, StartTranscribe, StartEmbed, Stages
<1>2. ASSUME NEW events, NEW jobs, Run(events, jobs) PROVE Replaying'
  <2>1. CASE ~Streaming
    <3>1. step' = "run"
      BY <1>2, <2>1 DEF Run
    <3> QED
      BY <3>1, ReplayingStill
  <2>2. CASE Streaming
    <3>1. step' = "stream" /\ handler' = Opened /\ UNCHANGED <<call, played>>
      BY <1>2, <2>2 DEF Run
    <3>2. EventsReplay'
      BY <3>1 DEF EventsReplay, Finish, Ended
    <3>3. ASSUME call.kind = "responses" PROVE ReplayParts(handler, played)'
      <4>1. Opened = ResponsesOpen
        BY <3>3 DEF Opened
      <4> QED
        BY <1>1, <3>1, <4>1, OpeningReplays, ReplayPartsSame
    <3> QED
      BY <3>1, <3>2, <3>3 DEF Replaying
  <2> QED
    BY <2>1, <2>2
<1>3. ASSUME NEW e, Fails(e) PROVE Replaying'
  BY <1>1, <1>3, ReplayingFails DEF Fails
<1>4. CASE StartGenerate
  BY <1>2, <1>3, <1>4 DEF StartGenerate
<1>5. CASE StartTranscribe
  BY <1>2, <1>3, <1>5 DEF StartTranscribe
<1>6. CASE StartEmbed
  BY <1>1, <1>6, ReplayingFails DEF StartEmbed
<1> QED
  BY <1>4, <1>5, <1>6

\* Taking an event, or its error.
LEMMA TakeReplaying == ASSUME Stages, Passing, Taken, Playing, Matching, Replaying, TakeEvent
                       PROVE  Replaying'
<1> DEFINE e == Head(script)
<1>1. step = "stream" /\ script # <<>> /\ script \in Seq(Results) /\ cause = None
  BY DEF TakeEvent, Passing, Playing, Stages
<1>2. e \in Results
  BY <1>1
<1>3. UNCHANGED call /\ played' = Append(played, e) /\ cause' = (IF e.ok THEN cause ELSE e)
  BY DEF TakeEvent
<1>4. CASE ~e.ok
  <2>1. ~Crossed(e).ok
    BY <1>4, CrossedFails
  <2>2. e \in Reported
    BY <1>2, <1>4, ResultKinds, RunErrorReported
  <2>3. step' = "answered" /\ cause' # None
    BY <1>3, <1>4, <2>1, <2>2, ReportedIsSome DEF TakeEvent
  <2> QED
    BY <2>3, ReplayingStill
<1>5. CASE e.ok
  <2>1. Crossed(e) = e
    BY <1>2, <1>5, ResultCrosses
  <2>2. handler' = Took(e) /\ step' = "stream"
    BY <1>1, <1>5, <2>1 DEF TakeEvent
  <2>3. EventsReplay'
    BY <2>2 DEF EventsReplay, Finish, Ended
  <2>4. ASSUME call.kind = "responses" PROVE ReplayParts(handler, played)'
    <3> DEFINE h == ResponsesEvent(handler, e)
               events == Append(played, e)
    <3>1. handler' = h
      BY <2>1, <2>2, <2>4 DEF Took
    <3>2. ReplayParts(handler, played) /\ ResponsesParts(handler, played) /\ played \in Seq(Results)
      BY <1>1, <2>4 DEF Replaying, Matching, Gathered, Taken
    <3> HIDE DEF e
    <3>3. ReplayParts(h, events)
      BY <1>2, <1>5, <3>2, ResponsesReplays
    <3>4. played' = events
      BY <1>3
    <3> HIDE DEF h, events
    <3> QED
      BY <3>1, <3>3, <3>4, ReplayPartsSame
  <2> QED
    BY <1>3, <2>2, <2>3, <2>4 DEF Replaying
<1> QED
  BY <1>4, <1>5

\* The final body has the items at the places where the events left them.
LEMMA FinalPlaces ==
  ASSUME NEW h, h.reasoning_open \in BOOLEAN
  PROVE  LET body == FinalOutput(h)
         IN ClosedPlaces(h) = [k \in 0..1 |-> IF k < Len(body)
                                              THEN [item |-> body[k + 1].type, text |-> body[k + 1].text,
                                                    closed |-> TRUE]
                                              ELSE Nothing]
<1> DEFINE body == FinalOutput(h)
           at(k) == IF k < Len(body)
                      THEN [item |-> body[k + 1].type, text |-> body[k + 1].text, closed |-> TRUE]
                      ELSE Nothing
           r == ReasoningItem(h.reasoning)
           m == MessageItem(h.text)
<1>1. /\ Complete("reasoning", h.reasoning) = [item |-> r.type, text |-> r.text, closed |-> TRUE]
      /\ Complete("message", h.text) = [item |-> m.type, text |-> m.text, closed |-> TRUE]
  BY DEF Complete, ReasoningItem, MessageItem
<1>2. CASE h.reasoning_open
  <2>1. body = <<r, m>>
    BY <1>2, TuplesJoin DEF FinalOutput
  <2> HIDE DEF r, m, body
  <2>2. Len(body) = 2 /\ body[0 + 1] = r /\ body[1 + 1] = m
    BY <2>1
  <2>3. at(0) = Complete("reasoning", h.reasoning) /\ at(1) = Complete("message", h.text)
    BY <1>1, <2>2
  <2> HIDE DEF at
  <2>4. [k \in 0..1 |-> at(k)] = [k \in 0..1 |-> IF k = 0 THEN at(0) ELSE at(1)]
    <3>1. \A k \in 0..1 : k = 0 \/ k = 1
      OBVIOUS
    <3> QED
      BY <3>1
  <2>5. ClosedPlaces(h) = [k \in 0..1 |-> at(k)]
    BY <1>2, <2>3, <2>4 DEF ClosedPlaces, Places
  <2> QED
    BY <2>5 DEF at, body
<1>3. CASE ~h.reasoning_open
  <2>1. body = <<m>>
    <3>1. body = <<>> \o <<m>>
      BY <1>3 DEF FinalOutput
    <3> HIDE DEF m
    <3> QED
      BY <3>1
  <2> HIDE DEF r, m, body
  <2>2. Len(body) = 1 /\ body[0 + 1] = m
    BY <2>1
  <2>3. at(0) = Complete("message", h.text) /\ at(1) = Nothing
    BY <1>1, <2>2
  <2> HIDE DEF at
  <2>4. [k \in 0..1 |-> at(k)] = [k \in 0..1 |-> IF k = 0 THEN at(0) ELSE at(1)]
    <3>1. \A k \in 0..1 : k = 0 \/ k = 1
      OBVIOUS
    <3> QED
      BY <3>1
  <2>5. ClosedPlaces(h) = [k \in 0..1 |-> at(k)]
    BY <1>3, <2>3, <2>4 DEF ClosedPlaces, Places
  <2> QED
    BY <2>5 DEF at, body
<1> QED
  BY <1>2, <1>3

\* The end of the run's events.
LEMMA EndReplaying == ASSUME Stages, Taken, Playing, Matching, Replaying, EndOfStream PROVE Replaying'
<1>1. /\ step = "stream" /\ step' = "answered" /\ UNCHANGED <<call, played, cause>>
      /\ call.kind = "responses" => handler' = ResponsesEnd(handler)
  BY DEF EndOfStream
<1>2. CASE call.kind # "responses"
  BY <1>1, <1>2 DEF Replaying, EventsReplay, Finish, Ended
<1>3. CASE call.kind = "responses"
  <2> DEFINE h == handler
             r == ResponsesEnd(handler)
             body == FinalOutput(h)
             sent == r.sent
             final == Last(sent).event.value.output
  <2>1. Writing(h) /\ ReplayParts(h, played)
    BY <1>1, <1>3 DEF Playing, Loop, Replaying
  <2>2. h.done = None => r.done = None
    BY <2>1 DEF ResponsesEnd, Writing
  <2>3. ASSUME h.done # None, Reasoned(played)
        PROVE  /\ Replay(sent) = [k \in 0..1 |-> IF k < Len(final)
                                    THEN [item |-> final[k + 1].type, text |-> final[k + 1].text, closed |-> TRUE]
                                    ELSE Nothing]
               /\ \A k \in DOMAIN sent : sent[k].number = k - 1
    <3>1. Last(sent).event.value = ResponseJson(body, h.done)
      BY <1>3, <2>1, <2>3, ResponsesEnds
    <3>2. final = body
      BY <3>1 DEF ResponseJson
    <3>3. Counted(r) /\ Replay(sent) = ClosedPlaces(h)
      BY <2>1, <2>3, EndReplays DEF Writing
    <3> HIDE DEF final, sent
    <3>4. ClosedPlaces(h) = [k \in 0..1 |-> IF k < Len(body)
                            THEN [item |-> body[k + 1].type, text |-> body[k + 1].text, closed |-> TRUE]
                            ELSE Nothing]
      BY <2>1, FinalPlaces DEF ReplayParts
    <3>5. \A k \in DOMAIN sent : sent[k].number = k - 1
      BY <3>3 DEF Counted, sent
    <3> HIDE DEF body
    <3> QED
      BY <3>2, <3>3, <3>4, <3>5
  <2>4. step' = "answered" /\ handler' = r /\ played' = played /\ call' = call
    BY <1>1, <1>3
  <2>5. ReasonsFirst' <=> Reasoned(played)
    BY <2>4 DEF ReasonsFirst, Reasoned
  <2>6. FinalBody' = final
    BY <2>4 DEF FinalBody
  <2> HIDE DEF r, final
  <2>7. EventsReplay'
    <3>1. Finish("responses")' => h.done # None
      BY <2>2, <2>4 DEF Finish, Ended
    <3>2. handler'.sent = sent
      BY <2>4
    <3> HIDE DEF sent, h
    <3> QED
      BY <2>3, <2>5, <2>6, <3>1, <3>2 DEF EventsReplay
  <2> QED
    BY <2>4, <2>7 DEF Replaying
<1> QED
  BY <1>2, <1>3

\* Every step keeps it.
LEMMA NextReplaying ==
  ASSUME Stages, Passing, Taken, Playing, Matching, Replaying, [Next]_vars
  PROVE  Replaying'
<1>1. CASE Frontend
  <2>1. step = "frontend" /\ UNCHANGED <<handler, cause>> /\ step' \in {"rpc", "answered"}
    BY <1>1 DEF Frontend, Unkeyed, Generation, Upload, Ask, NotYet, Keyed, Reply, Send
  <2>2. handler = None
    BY <2>1 DEF Stages
  <2> QED
    BY <2>1, <2>2, ReplayingStill
<1>2. CASE Lost
  BY <1>2, ReplayingFails DEF Lost
<1>3. CASE Tell
  <2>1. step = "rpc" /\ UNCHANGED handler /\ step' = "answered"
    BY <1>3 DEF Tell
  <2>2. handler = None
    BY <2>1 DEF Stages
  <2> QED
    BY <2>1, <2>2, ReplayingStill
<1>4. ASSUME NEW e, Fails(e), step \in {"rpc", "check", "start", "run"} PROVE Replaying'
  BY <1>4, ReplayingFails DEF Fails
<1>5. CASE Admit
  <2>1. step = "rpc" /\ ((\E e : Fails(e)) \/ step' = "check")
    BY <1>5 DEF Admit, Move
  <2> QED
    BY <1>4, <2>1, ReplayingStill
<1>6. CASE CheckInput
  <2>1. step = "check" /\ ((\E e : Fails(e)) \/ step' \in {"start", "check"})
    BY <1>6 DEF CheckInput, Move
  <2> QED
    BY <1>4, <2>1, ReplayingStill
<1>7. CASE StartGenerate \/ StartTranscribe \/ StartEmbed
  BY <1>7, StartReplaying
<1>8. CASE Fold
  <2>1. step = "run" /\ handler = None
    BY <1>8 DEF Fold, Stages
  <2>2. (\E e : Fails(e)) \/ (step' \in {"start", "answered"} /\ UNCHANGED handler)
    BY <1>8 DEF Fold
  <2> QED
    BY <1>4, <2>1, <2>2, ReplayingStill
<1>9. CASE Stream
  BY <1>9, TakeReplaying, EndReplaying DEF Stream
<1>10. CASE \E c \in Calls : Arrive(c)
  <2>1. step' \in {"rpc", "frontend"}
    BY <1>10 DEF Arrive
  <2> QED
    BY <2>1, ReplayingStill
<1>11. CASE Over
  BY <1>11, ReplayingStill DEF Over
<1>12. CASE UNCHANGED <<local, promised>>
  BY <1>12, ReplayingSame DEF local
<1>13. CASE \E i \in Ids : CrashUnder(i)
  BY <1>13, ReplayingSame DEF CrashUnder
<1> QED
  BY <1>1, <1>2, <1>3, <1>5, <1>6, <1>7, <1>8, <1>9, <1>10, <1>11, <1>12, <1>13, Steps DEF Service

\* Replaying the events of a finished stream gives, item by item, the output of
\* its terminal event, each item added once and closed, and the sequence numbers
\* have no gap (routes.rs:281-446).
THEOREM EventsReplayAlways == Spec => []EventsReplay
<1>1. Init => Replaying
  BY DEF Init, Idle, Replaying, EventsReplay, Finish, Ended
<1>2. Stages /\ Passing /\ Taken /\ Playing /\ Matching /\ Replaying /\ [Next]_vars => Replaying'
  BY NextReplaying
<1>3. Replaying => EventsReplay
  BY DEF Replaying
<1> QED
  BY <1>1, <1>2, <1>3, StagesHold, PassingHolds, TakenHolds, PlayingHolds, MatchingHolds, PTL DEF Spec

-----------------------------------------------------------------------------
(* The two adapters of the frontend. *)

\* Where no problem is found, there is none.
LEMMA NoProblem ==
  ASSUME NEW n \in Nat, NEW ps, DOMAIN ps = 1..n, \A k \in 1..n : ps[k].param \in Params
  PROVE  FirstProblem(ps) = None <=> \A k \in 1..n : ~ps[k].is
<1> DEFINE found == {k \in DOMAIN ps : ps[k].is}
<1>1. CASE found = {}
  BY <1>1 DEF FirstProblem
<1>2. CASE found # {}
  <2>1. found \subseteq Nat
    OBVIOUS
  <2>2. \E k \in found : \A j \in found : k <= j
    BY <1>2, <2>1, Least
  <2> DEFINE c == CHOOSE k \in found : \A j \in found : k <= j
  <2>3. c \in found
    BY <2>2
  <2>4. FirstProblem(ps) = ps[c].param
    BY <1>2 DEF FirstProblem
  <2>5. FirstProblem(ps) # None
    BY <2>3, <2>4, NamesAssumption
  <2> QED
    BY <2>3, <2>5
<1> QED
  BY <1>1, <1>2

\* What POST /v1/chat/completions does not refuse.
LEMMA ChatAdmits ==
  ASSUME NEW r
  PROVE  ChatProblem(r) = None <=> /\ r.n \in {None, 0, 1}
                                   /\ ~Present(r.tools)
                                   /\ ~Present(r.tool_choice)
                                   /\ r.logprobs # "true"
                                   /\ r.response_format \in {None, "null", "text"}
                                   /\ r.messages # <<>>
<1> DEFINE several == r.n # None /\ r.n # 0 /\ r.n # 1
           tools == Present(r.tools)
           choice == Present(r.tool_choice)
           logprobs == r.logprobs = "true"
           format == r.response_format \notin {None, "null", "text"}
           none == r.messages = <<>>
           ps == <<Problem("n", several), Problem("tools", tools), Problem("tool_choice", choice),
                   Problem("logprobs", logprobs), Problem("response_format", format), Problem("messages", none)>>
<1>1. ChatProblem(r) = FirstProblem(ps)
  BY DEF ChatProblem
<1> HIDE DEF several, tools, choice, logprobs, format, none
<1>2. DOMAIN ps = 1..6 /\ 6 \in Nat
  OBVIOUS
<1>3. /\ ps[1].param = "n" /\ ps[1].is = several
      /\ ps[2].param = "tools" /\ ps[2].is = tools
      /\ ps[3].param = "tool_choice" /\ ps[3].is = choice
      /\ ps[4].param = "logprobs" /\ ps[4].is = logprobs
      /\ ps[5].param = "response_format" /\ ps[5].is = format
      /\ ps[6].param = "messages" /\ ps[6].is = none
  BY DEF Problem
<1> HIDE DEF ps
<1>4. \A k \in 1..6 : k = 1 \/ k = 2 \/ k = 3 \/ k = 4 \/ k = 5 \/ k = 6
  OBVIOUS
<1>5. \A k \in 1..6 : ps[k].param \in Params
  BY <1>3, <1>4 DEF Params
<1>6. FirstProblem(ps) = None <=> \A k \in 1..6 : ~ps[k].is
  BY <1>2, <1>5, NoProblem
<1>7. (\A k \in 1..6 : ~ps[k].is) <=> ~ps[1].is /\ ~ps[2].is /\ ~ps[3].is /\ ~ps[4].is /\ ~ps[5].is /\ ~ps[6].is
  BY <1>4
<1> QED
  BY <1>1, <1>3, <1>6, <1>7 DEF several, tools, choice, logprobs, format, none

\* What POST /v1/responses does not refuse.
LEMMA ResponsesAdmits ==
  ASSUME NEW r
  PROVE  ResponsesProblem(r) = None <=> /\ ~Present(r.previous_response_id)
                                        /\ ~Present(r.tools)
                                        /\ ~Present(r.tool_choice)
                                        /\ r.text \in {None, "null", "text"}
<1> DEFINE previous == Present(r.previous_response_id)
           tools == Present(r.tools)
           choice == Present(r.tool_choice)
           format == r.text \notin {None, "null", "text"}
           ps == <<Problem("previous_response_id", previous), Problem("tools", tools), Problem("tool_choice", choice),
                   Problem("text.format", format)>>
<1>1. ResponsesProblem(r) = FirstProblem(ps)
  BY DEF ResponsesProblem
<1> HIDE DEF previous, tools, choice, format
<1>2. DOMAIN ps = 1..4 /\ 4 \in Nat
  OBVIOUS
<1>3. /\ ps[1].param = "previous_response_id" /\ ps[1].is = previous
      /\ ps[2].param = "tools" /\ ps[2].is = tools
      /\ ps[3].param = "tool_choice" /\ ps[3].is = choice
      /\ ps[4].param = "text.format" /\ ps[4].is = format
  BY DEF Problem
<1> HIDE DEF ps
<1>4. \A k \in 1..4 : k = 1 \/ k = 2 \/ k = 3 \/ k = 4
  OBVIOUS
<1>5. \A k \in 1..4 : ps[k].param \in Params
  BY <1>3, <1>4 DEF Params
<1>6. FirstProblem(ps) = None <=> \A k \in 1..4 : ~ps[k].is
  BY <1>2, <1>5, NoProblem
<1>7. (\A k \in 1..4 : ~ps[k].is) <=> ~ps[1].is /\ ~ps[2].is /\ ~ps[3].is /\ ~ps[4].is
  BY <1>4
<1> QED
  BY <1>1, <1>3, <1>6, <1>7 DEF previous, tools, choice, format

\* One text reads as one part, however it is written.
LEMMA SoleTextRead == ASSUME NEW x, ContentOk(x), SoleText(x) # None
                      PROVE  PartsOf(x) = Parsed(<<Oneof("text", SoleText(x))>>)
<1>1. CASE x.is = "text"
  BY <1>1 DEF PartsOf, SoleText
<1>2. CASE x.is = "parts"
  <2>1. x.value \in Seq([kind : STRING, text : Option(STRING)])
    BY <1>2 DEF ContentOk
  <2>2. /\ Len(x.value) = 1 /\ x.value[1].kind \in TextParts
        /\ SoleText(x) = x.value[1].text
    BY <1>2 DEF SoleText
  <2>3. DOMAIN x.value = {1}
    <3>1. DOMAIN x.value = 1..1
      BY <2>1, <2>2
    <3> QED
      BY <3>1
  <2>4. PartsOf(x) = Parsed([k \in DOMAIN x.value |-> Oneof("text", x.value[k].text)])
    BY <1>2, <2>2, <2>3 DEF PartsOf
  <2>5. [k \in DOMAIN x.value |-> Oneof("text", x.value[k].text)] = <<Oneof("text", x.value[1].text)>>
    <3> DEFINE y == Oneof("text", x.value[1].text)
    <3>1. [k \in DOMAIN x.value |-> Oneof("text", x.value[k].text)] = [k \in {1} |-> y]
      BY <2>3
    <3> HIDE DEF y
    <3>2. [k \in {1} |-> y] = <<y>>
      <4>1. 1..1 = {1}
        OBVIOUS
      <4>2. [k \in 1..1 |-> y] = <<y>>
        OBVIOUS
      <4> QED
        BY <4>1, <4>2
    <3> QED
      BY <3>1, <3>2 DEF y
  <2> QED
    BY <2>2, <2>4, <2>5
<1>3. CASE x.is \notin {"text", "parts"}
  BY <1>3 DEF SoleText
<1> QED
  BY <1>1, <1>2, <1>3

\* The same turn is the same message to either endpoint.
LEMMA TurnRead ==
  ASSUME NEW one, NEW other, NEW p, NEW q, ContentOk(one.content), ContentOk(other.content),
         SameTurn(one, other)
  PROVE  LET a == ToMessage(one.role, one.content, p)
             b == ToMessage(other.role, other.content, q)
         IN (a.ok <=> b.ok) /\ (a.ok => a.value = b.value)
<1>1. RoleOf(one.role) = RoleOf(other.role)
  BY DEF SameTurn, RoleOf
<1>2. PartsOf(one.content) = PartsOf(other.content)
  BY SoleTextRead, Zenon DEF SameTurn
<1> DEFINE role == RoleOf(one.role)
           parts == PartsOf(one.content)
           bad == role = None \/ ~parts.ok
           m == [role |-> role, parts |-> parts.value]
<1>3. /\ ToMessage(one.role, one.content, p) = IF bad THEN Refused(InvalidRequest(p)) ELSE Parsed(m)
      /\ ToMessage(other.role, other.content, q) = IF bad THEN Refused(InvalidRequest(q)) ELSE Parsed(m)
  BY <1>1, <1>2 DEF ToMessage
<1> HIDE DEF bad, m
<1> QED
  BY <1>3 DEF Refused, Parsed

\* A list of messages is read when each of them is.
LEMMA CollectIsOk == ASSUME NEW r, IsSeq(r) PROVE Collect(r).ok <=> \A k \in DOMAIN r : r[k].ok
<1>1. ASSUME \A k \in DOMAIN r : r[k].ok PROVE Collect(r).ok
  BY <1>1, CollectOk DEF Ok
<1> QED
  BY <1>1, CollectAll

\* The instructions, when there are some, then the items.
LEMMA TurnsAt ==
  ASSUME NEW r, NEW n \in Nat, DOMAIN InputItems(r) = 1..n,
         NEW s, s = IF r.instructions = None THEN 0 ELSE 1
  PROVE  /\ Len(TurnsOf(r)) = n + s
         /\ s = 1 => TurnsOf(r)[1] = [role |-> "system", content |-> Oneof("text", r.instructions)]
         /\ \A k \in 1..n : TurnsOf(r)[k + s] =
              [role |-> ItemRole(InputItems(r)[k]), content |-> InputItems(r)[k].content]
<1> DEFINE items == InputItems(r)
           ItemTurn(k) == [role |-> ItemRole(items[k]), content |-> items[k].content]
           rest == [k \in DOMAIN items |-> ItemTurn(k)]
           first == [role |-> "system", content |-> Oneof("text", r.instructions)]
<1>1. TurnsOf(r) = (IF r.instructions = None THEN <<>> ELSE <<first>>) \o rest
  BY DEF TurnsOf
<1>2. rest = [k \in 1..n |-> ItemTurn(k)]
  OBVIOUS
<1> HIDE DEF first, ItemTurn, rest
<1>3. rest \in Seq({rest[k] : k \in 1..n}) /\ Len(rest) = n /\ \A k \in 1..n : rest[k] = ItemTurn(k)
  BY <1>2
<1>4. CASE r.instructions = None
  <2>1. TurnsOf(r) = rest /\ s = 0
    BY <1>1, <1>3, <1>4
  <2>2. \A k \in 1..n : k + s = k
    BY <2>1
  <2> QED
    BY <1>3, <2>1, <2>2 DEF ItemTurn
<1>5. CASE r.instructions # None
  <2>1. TurnsOf(r) = <<first>> \o rest /\ s = 1
    BY <1>1, <1>5
  <2>2. Len(<<first>> \o rest) = n + 1 /\ (<<first>> \o rest)[1] = first
    BY <1>3
  <2>3. \A k \in 1..n : (<<first>> \o rest)[k + 1] = rest[k]
    BY <1>3
  <2> QED
    BY <1>3, <2>1, <2>2, <2>3 DEF ItemTurn, first
<1> QED
  BY <1>4, <1>5

\* What the two endpoints make of the same turns.
LEMMA MessagesAgree ==
  ASSUME NEW c, NEW r, ChatRequestOk(c), ResponsesRequestOk(r), Counterparts(c, r)
  PROVE  LET chat == Collect([k \in DOMAIN c.messages |->
                                ToMessage(c.messages[k].role, c.messages[k].content, "messages")])
             twin == Collect([k \in DOMAIN InputItems(r) |-> ItemMessage(InputItems(r)[k])])
         IN /\ chat.ok <=> twin.ok
            /\ chat.ok => chat.value = ResponsesMessages(r, twin.value)
            /\ chat.ok => (chat.value = <<>> <=> c.messages = <<>>)
<1> DEFINE read == [k \in DOMAIN c.messages |->
                      ToMessage(c.messages[k].role, c.messages[k].content, "messages")]
           items == InputItems(r)
           turns == TurnsOf(r)
           heard == [k \in DOMAIN items |-> ItemMessage(items[k])]
           s == IF r.instructions = None THEN 0 ELSE 1
           first == [role |-> "system", parts |-> <<Oneof("text", r.instructions)>>]
<1>1. PICK n \in Nat : DOMAIN items = 1..n /\ \A k \in 1..n : ContentOk(items[k].content)
  BY ItemsRead
<1>2. s = IF r.instructions = None THEN 0 ELSE 1
  OBVIOUS
<1> HIDE DEF s
<1>3. /\ Len(turns) = n + s
      /\ s = 1 => turns[1] = [role |-> "system", content |-> Oneof("text", r.instructions)]
      /\ \A k \in 1..n : turns[k + s] =
           [role |-> ItemRole(items[k]), content |-> items[k].content]
  BY <1>1, <1>2, TurnsAt
<1>4. DOMAIN c.messages = 1..(n + s) /\ (c.messages = <<>> <=> n + s = 0) /\ s \in {0, 1}
  <2>1. s \in {0, 1}
    BY <1>2
  <2>2. Len(c.messages) = n + s
    BY <1>3 DEF Counterparts
  <2>3. c.messages \in Seq({c.messages[k] : k \in DOMAIN c.messages})
    BY DEF ChatRequestOk
  <2> QED
    BY <1>1, <2>2, <2>3, <2>1
<1>5. \A k \in 1..(n + s) : ContentOk(c.messages[k].content) /\ SameTurn(c.messages[k], turns[k])
  BY <1>4 DEF ChatRequestOk, Counterparts
<1>6. \A k \in 1..n : items[k].kind \in {None, "message"}
  BY <1>1 DEF Counterparts
<1>7. r.instructions # None => r.instructions \in STRING
  BY DEF ResponsesRequestOk, Option
<1>8. \A k \in 1..n : k + s \in 1..(n + s)
  BY <1>4
<1>9. \A k \in 1..n : (read[k + s].ok <=> heard[k].ok) /\ (heard[k].ok => read[k + s].value = heard[k].value)
  <2> SUFFICES ASSUME NEW k \in 1..n
               PROVE  (read[k + s].ok <=> heard[k].ok) /\ (heard[k].ok => read[k + s].value = heard[k].value)
    OBVIOUS
  <2> DEFINE one == c.messages[k + s]
             other == turns[k + s]
  <2>1. other = [role |-> ItemRole(items[k]), content |-> items[k].content]
    BY <1>3
  <2> HIDE DEF other
  <2>2. other.role = ItemRole(items[k]) /\ other.content = items[k].content
    BY <2>1
  <2> USE DEF other
  <2>3. ContentOk(one.content) /\ ContentOk(other.content) /\ SameTurn(one, other)
    BY <1>1, <1>5, <1>8, <2>2
  <2>4. read[k + s] = ToMessage(one.role, one.content, "messages")
    BY <1>4, <1>8
  <2>5. heard[k] = ToMessage(other.role, other.content, "input")
    BY <1>1, <1>6, <2>2 DEF ItemMessage
  <2> HIDE DEF one, other, read, heard
  <2> QED
    BY <2>3, <2>4, <2>5, TurnRead
<1>10. s = 1 => read[1].ok /\ read[1].value = first
  <2> SUFFICES ASSUME s = 1 PROVE read[1].ok /\ read[1].value = first
    OBVIOUS
  <2>1. r.instructions # None
    BY <1>2
  <2> DEFINE one == c.messages[1]
             other == [role |-> "system", content |-> Oneof("text", r.instructions)]
             second == ToMessage(other.role, other.content, "input")
  <2>2. 1 \in 1..(n + s) /\ turns[1] = other
    BY <1>1, <1>3
  <2>3. ContentOk(other.content)
    BY <1>7, <2>1 DEF ContentOk, Oneof
  <2>4. ContentOk(one.content) /\ SameTurn(one, other)
    BY <1>5, <2>2
  <2>5. read[1] = ToMessage(one.role, one.content, "messages")
    BY <1>4, <2>2
  <2>6. second = Parsed(first)
    <3>1. RoleOf("system") = "system"
      BY DEF RoleOf
    <3>2. PartsOf(Oneof("text", r.instructions)) = Parsed(<<Oneof("text", r.instructions)>>)
      BY DEF PartsOf, Oneof
    <3>3. second = ToMessage("system", Oneof("text", r.instructions), "input")
      OBVIOUS
    <3>4. "system" # None
      BY NamesAssumption
    <3>5. /\ PartsOf(Oneof("text", r.instructions)).ok
          /\ PartsOf(Oneof("text", r.instructions)).value = <<Oneof("text", r.instructions)>>
      BY <3>2 DEF Parsed
    <3> QED
      BY <3>1, <3>3, <3>4, <3>5 DEF ToMessage
  <2>7. second.ok /\ second.value = first
    BY <2>6 DEF Parsed
  <2> HIDE DEF one, other, read, first
  <2>8. (read[1].ok <=> second.ok) /\ (read[1].ok => read[1].value = second.value)
    BY <2>3, <2>4, <2>5, TurnRead
  <2> QED
    BY <2>7, <2>8
<1>11. IsSeq(read) /\ DOMAIN read = 1..(n + s)
  BY <1>1, <1>4, IsSeqMap
<1>12. IsSeq(heard) /\ DOMAIN heard = 1..n
  BY <1>1, IsSeqMap
<1>13. ResponsesMessages(r, Collect(heard).value) =
         (IF r.instructions = None THEN <<>> ELSE <<first>>) \o Collect(heard).value
  BY DEF ResponsesMessages
<1> HIDE DEF read, heard, first
<1>14. \A k \in 1..(n + s) : (s = 1 /\ k = 1) \/ (k - s \in 1..n /\ (k - s) + s = k)
  BY <1>1, <1>4
<1>15. (\A k \in DOMAIN read : read[k].ok) <=> \A k \in DOMAIN heard : heard[k].ok
  <2>1. ASSUME \A k \in DOMAIN read : read[k].ok, NEW k \in DOMAIN heard PROVE heard[k].ok
    BY <1>8, <1>9, <1>11, <1>12, <2>1
  <2>2. ASSUME \A k \in DOMAIN heard : heard[k].ok, NEW k \in DOMAIN read PROVE read[k].ok
    <3>1. CASE s = 1 /\ k = 1
      BY <1>10, <3>1
    <3>2. CASE k - s \in 1..n /\ (k - s) + s = k
      BY <1>9, <1>12, <2>2, <3>2
    <3> QED
      BY <1>11, <1>14, <2>2, <3>1, <3>2
  <2> QED
    BY <2>1, <2>2
<1>16. Collect(read).ok <=> Collect(heard).ok
  BY <1>11, <1>12, <1>15, CollectIsOk
<1>17. ASSUME Collect(read).ok
       PROVE  /\ Collect(read).value = ResponsesMessages(r, Collect(heard).value)
              /\ Collect(read).value = <<>> <=> c.messages = <<>>
  <2>1. /\ \A k \in 1..n : heard[k].ok
        /\ Collect(heard).value = [k \in 1..n |-> heard[k].value]
        /\ Collect(read).value = [k \in 1..(n + s) |-> read[k].value]
    BY <1>11, <1>12, <1>16, <1>17, CollectAll
  <2> DEFINE a == Collect(read).value
             b == Collect(heard).value
             d == ResponsesMessages(r, b)
  <2>2. b \in Seq({b[k] : k \in 1..n}) /\ Len(b) = n
    BY <2>1
  <2>3. a \in Seq({a[k] : k \in 1..(n + s)}) /\ Len(a) = n + s
    BY <1>4, <2>1
  <2>4. a = <<>> <=> c.messages = <<>>
    BY <1>1, <1>4, <2>3
  <2>5. \A k \in 1..n : a[k + s] = b[k]
    BY <1>8, <1>9, <2>1
  <2>6. s = 1 => a[1] = first
    BY <1>1, <1>10, <2>1
  <2> HIDE DEF a, b
  <2>7. a = d
    <3>1. CASE r.instructions = None
      <4>1. d = b /\ s = 0
        BY <1>13, <1>2, <2>2, <3>1 DEF b
      <4>2. n + s = n /\ \A k \in 1..n : k + s = k
        BY <1>1, <4>1
      <4>3. \A k \in 1..n : a[k] = b[k]
        BY <2>5, <4>2
      <4> QED
        BY <2>2, <2>3, <4>1, <4>2, <4>3
    <3>2. CASE r.instructions # None
      <4>1. d = <<first>> \o b /\ s = 1
        BY <1>13, <1>2, <3>2 DEF b
      <4>2. Len(a) = n + 1 /\ a[1] = first /\ \A k \in 1..n : a[k + 1] = b[k]
        BY <2>3, <2>5, <2>6, <4>1
      <4>3. a \in Seq({a[k] : k \in 1..(n + 1)})
        BY <2>3, <4>1
      <4> HIDE DEF d
      <4>4. \A k \in 1..(n + 1) : k = 1 \/ (k - 1 \in 1..n /\ (k - 1) + 1 = k)
        BY <1>1
      <4>5. a = <<first>> \o b
        <5>1. <<first>> \o b = [k \in 1..(n + 1) |-> IF k = 1 THEN first ELSE b[k - 1]]
          BY <1>1, <2>2
        <5>2. a = [k \in 1..(n + 1) |-> a[k]]
          BY <4>2, <4>3
        <5>3. \A k \in 1..(n + 1) : a[k] = IF k = 1 THEN first ELSE b[k - 1]
          BY <4>2, <4>4
        <5> QED
          BY <5>1, <5>2, <5>3
      <4> QED
        BY <4>1, <4>5
    <3> QED
      BY <3>1, <3>2
  <2> QED
    BY <2>4, <2>7 DEF a, b
<1> QED
  BY <1>16, <1>17 DEF read, heard

\* A request and its counterpart give one input, or are both refused.
LEMMA CounterpartsAgree ==
  ASSUME NEW c, NEW r, ChatRequestOk(c), ResponsesRequestOk(r), Counterparts(c, r)
  PROVE  /\ ChatInput(c).ok <=> ResponsesInput(r).ok
         /\ ChatInput(c).ok => ChatInput(c).value = ResponsesInput(r).value
<1> DEFINE chat == Collect([k \in DOMAIN c.messages |->
                              ToMessage(c.messages[k].role, c.messages[k].content, "messages")])
           twin == Collect([k \in DOMAIN InputItems(r) |-> ItemMessage(InputItems(r)[k])])
           messages == ResponsesMessages(r, twin.value)
           asked == GenerateInput(chat.value, c, ChatBudget(c), ChatReasoning(c))
           again == GenerateInput(messages, r, r.max_output_tokens, Effort(r.effort))
<1>1. /\ chat.ok <=> twin.ok
      /\ chat.ok => chat.value = messages
      /\ chat.ok => (chat.value = <<>> <=> c.messages = <<>>)
  BY MessagesAgree
<1>2. ChatInput(c) = IF ChatProblem(c) # None THEN Refused(InvalidRequest(ChatProblem(c)))
                     ELSE IF ~chat.ok THEN chat ELSE Parsed(asked)
  BY DEF ChatInput
<1>3. ResponsesInput(r) = IF ResponsesProblem(r) # None THEN Refused(InvalidRequest(ResponsesProblem(r)))
                          ELSE IF ~twin.ok THEN twin
                          ELSE IF messages = <<>> THEN Refused(InvalidRequest("input"))
                          ELSE Parsed(again)
  BY DEF ResponsesInput
<1> HIDE DEF chat, twin, messages
<1>4. ChatBudget(c) = r.max_output_tokens
  BY DEF Counterparts, ChatBudget
<1>5. ChatReasoning(c) = Effort(r.effort)
  <2>1. CASE c.enable_thinking = None
    BY <2>1 DEF Counterparts, ChatReasoning
  <2>2. CASE c.enable_thinking # None
    <3>1. c.enable_thinking \in BOOLEAN
      BY <2>2 DEF ChatRequestOk, Option
    <3>2. r.effort # None /\ (c.enable_thinking <=> r.effort \notin {"none", "minimal"})
      BY <2>2 DEF Counterparts
    <3>3. Effort(r.effort) = (r.effort \notin {"none", "minimal"})
      BY <3>2, Zenon DEF Effort
    <3>4. ChatReasoning(c) = c.enable_thinking
      BY <2>2 DEF ChatReasoning
    <3> QED
      BY <3>1, <3>2, <3>3, <3>4, Zenon
  <2> QED
    BY <2>1, <2>2
<1>6. c.temperature = r.temperature /\ c.top_p = r.top_p
  BY DEF Counterparts
<1>7. chat.ok => asked = again
  BY <1>1, <1>4, <1>5, <1>6 DEF GenerateInput
<1>8. ChatProblem(c) = None <=> ResponsesProblem(r) = None /\ c.messages # <<>>
  BY ChatAdmits, ResponsesAdmits, Zenon DEF Counterparts
<1> HIDE DEF asked, again
<1>9. ChatInput(c).ok <=> ChatProblem(c) = None /\ chat.ok
  BY <1>2 DEF Refused, Parsed
<1>10. ResponsesInput(r).ok <=> ResponsesProblem(r) = None /\ twin.ok /\ messages # <<>>
  BY <1>3 DEF Refused, Parsed
<1>11. ChatInput(c).ok <=> ResponsesInput(r).ok
  BY <1>1, <1>8, <1>9, <1>10
<1>12. ChatInput(c).ok => ChatInput(c).value = asked /\ ResponsesInput(r).value = again
  BY <1>2, <1>3, <1>9, <1>10, <1>11 DEF Parsed
<1> QED
  BY <1>7, <1>9, <1>11, <1>12

\* Only an arrival and an end change which call is served.
Called == call \in Calls \union {None}

LEMMA NextCalled == ASSUME Called, [Next]_vars PROVE Called'
<1>1. CASE Frontend
  BY <1>1 DEF Frontend, Unkeyed, Generation, Upload, Ask, NotYet, Reply, Send, Called
<1>2. CASE Lost \/ Tell
  BY <1>2 DEF Lost, Tell, FailsWith, Called
<1>3. CASE Service
  BY <1>3 DEF Service, Admit, CheckInput, StartGenerate, StartTranscribe, StartEmbed, Fold, Run,
              Move, Fails, FailsWith, Called
<1>4. CASE Stream
  BY <1>4 DEF Stream, TakeEvent, EndOfStream, Called
<1>5. CASE \E c \in Calls : Arrive(c)
  BY <1>5 DEF Arrive, Called
<1>6. CASE Over
  BY <1>6 DEF Over, Called
<1>7. CASE UNCHANGED <<local, promised>> \/ \E i \in Ids : CrashUnder(i)
  BY <1>7 DEF local, CrashUnder, Called
<1> QED
  BY <1>1, <1>2, <1>3, <1>4, <1>5, <1>6, <1>7, Steps

\* A request and its counterpart are read as one input, or both are refused,
\* as they must be by two thin adapters (chat.rs:74-139, responses.rs:58-140).
THEOREM AdaptersAgreeAlways == Spec => []AdaptersAgree
<1>1. Init => Called
  BY DEF Init, Idle, Called
<1>2. Called /\ [Next]_vars => Called'
  BY NextCalled
<1>3. Called => AdaptersAgree
  <2> SUFFICES ASSUME Called, call # None, call.kind = "chat", call.twin # None
               PROVE  /\ ChatInput(call.body).ok <=> ResponsesInput(call.twin).ok
                      /\ ChatInput(call.body).ok =>
                           ChatInput(call.body).value = ResponsesInput(call.twin).value
    BY DEF AdaptersAgree
  <2>1. CallOk(call)
    BY CallsAssumption DEF Called
  <2>2. ChatRequestOk(call.body) /\ ResponsesRequestOk(call.twin) /\ Counterparts(call.body, call.twin)
    BY <2>1 DEF CallOk
  <2> QED
    BY <2>2, CounterpartsAgree
<1> QED
  BY <1>1, <1>2, <1>3, PTL DEF Spec

-----------------------------------------------------------------------------
(* The types of a call's variables. *)

Shaped ==
  /\ step = "idle" <=> call = None
  /\ Len(answer) = IF step = "answered" THEN 1 ELSE 0
  /\ step = "stream" => DOMAIN handler = DOMAIN Opened
  /\ Len(outputs) <= Len(checked)
  /\ cut \in BOOLEAN /\ promised \in BOOLEAN

\* A call that is answered, or goes on to a step that is not its stream.
LEMMA ShapedOn ==
  ASSUME Shaped, step \notin {"idle", "answered"}, UNCHANGED <<call, cut>>, promised' \in BOOLEAN,
         Len(outputs)' <= Len(checked)', step' \notin {"idle", "stream"},
         IF step' = "answered" THEN Len(answer') = 1 ELSE UNCHANGED answer
  PROVE  Shaped'
  BY DEF Shaped

LEMMA OneAnswer == Len(<<>>) = 0 /\ \A a : Len(<<a>>) = 1
  OBVIOUS

LEMMA LessIsBoolean == \A m, n : (m < n) \in BOOLEAN
  BY SMT

LEMMA FailsShaped ==
  ASSUME Shaped, step \notin {"idle", "answered"}, NEW s, NEW e, FailsWith(s, e)
  PROVE  Shaped'
<1> DEFINE a == CASE Foreign              -> s
                  [] call.kind = "health" -> Health(FromStatus(s))
                  [] OTHER                -> ApiError(FromStatus(s))
<1>1. answer' = <<a>> /\ step' = "answered" /\ UNCHANGED <<call, checked, outputs, cut, promised>>
  BY DEF FailsWith
<1> HIDE DEF a
<1> QED
  BY <1>1, OneAnswer, ShapedOn DEF Shaped

LEMMA RunShaped ==
  ASSUME Shaped, step = "start", NEW events, NEW jobs, Run(events, jobs)
  PROVE  Shaped'
<1>1. UNCHANGED <<call, checked, outputs, answer, cut, promised>>
  BY DEF Run
<1>2. CASE ~Streaming
  BY <1>1, <1>2, ShapedOn DEF Run, Shaped
<1>3. CASE Streaming
  <2>1. step' = "stream" /\ handler' = Opened
    BY <1>3 DEF Run
  <2>2. Opened' = Opened
    BY <1>1 DEF Opened
  <2> QED
    BY <1>1, <2>1, <2>2 DEF Shaped
<1> QED
  BY <1>2, <1>3

LEMMA FrontendShaped == ASSUME Shaped, Frontend PROVE Shaped'
<1>1. step = "frontend" /\ UNCHANGED <<call, checked, outputs, cut, promised>>
      /\ ((step' = "rpc" /\ UNCHANGED answer) \/ (step' = "answered" /\ \E a : answer' = <<a>>))
  BY DEF Frontend, Unkeyed, Generation, Upload, Ask, NotYet, Keyed, Reply, Send
<1> QED
  BY <1>1, OneAnswer, ShapedOn DEF Shaped

LEMMA TellShaped == ASSUME Shaped, Lost \/ Tell PROVE Shaped'
<1>1. CASE Lost
  BY <1>1, FailsShaped DEF Lost
<1>2. CASE Tell
  <2>1. step = "rpc" /\ step' = "answered" /\ UNCHANGED <<call, checked, outputs, cut>>
        /\ (\E a : answer' = <<a>>) /\ promised' \in BOOLEAN
    BY <1>2 DEF Tell, Shaped
  <2> QED
    BY <2>1, OneAnswer, ShapedOn DEF Shaped
<1> QED
  BY <1>1, <1>2

LEMMA ServiceShaped == ASSUME Stages, Checking, Passing, Jobs, Shaped, Service PROVE Shaped'
<1>1. CASE Admit
  <2>1. CASE Move("check") /\ UNCHANGED checked /\ step = "rpc"
    BY <2>1, ShapedOn DEF Move, Shaped
  <2> QED
    BY <1>1, <2>1, FailsShaped DEF Admit, Fails
<1>2. CASE CheckInput
  <2>1. step = "check" /\ outputs = <<>>
    BY <1>2 DEF CheckInput, Checking
  <2>2. ASSUME NEW v, checked' = Append(checked, v), NEW place \in {"start", "check"}, Move(place)
        PROVE  Shaped'
    <3>1. Len(Append(checked, v)) \in Nat
      BY ListingAppend DEF Checking
    <3>2. outputs' = <<>> /\ 0 <= Len(checked)'
      BY <2>1, <2>2, <3>1 DEF Move
    <3>3. Len(outputs)' <= Len(checked)'
      BY <3>2
    <3> QED
      BY <2>1, <2>2, <3>3, ShapedOn DEF Move, Shaped
  <2> QED
    BY <1>2, <2>1, <2>2, FailsShaped DEF CheckInput, Fails
<1>3. CASE StartGenerate
  BY <1>3, FailsShaped, RunShaped DEF StartGenerate, Fails
<1>4. CASE StartTranscribe
  BY <1>4, FailsShaped, RunShaped DEF StartTranscribe, Fails
<1>5. CASE StartEmbed
  BY <1>5, FailsShaped DEF StartEmbed
<1>6. CASE Fold
  <2> DEFINE output == Folded(Operation, script)
             outs   == Append(outputs, output.value)
             all    == Completed(outs)
  <2>1. step = "run" /\ Len(outputs) < Len(checked)
    BY <1>6 DEF Fold, Jobs, Running
  <2>2. CASE ~output.ok /\ Fails(output)
    BY <2>1, <2>2, FailsShaped DEF Fails
  <2>3. CASE output.ok
    <3>1. /\ outputs' = outs /\ UNCHANGED <<call, checked, cut, promised>>
          /\ (step' = "start" /\ UNCHANGED answer) \/ (step' = "answered" /\ answer' = <<all>>)
      BY <1>6, <2>3 DEF Fold
    <3>2. Len(outputs) \in Nat /\ Len(checked) \in Nat /\ Len(outs) = Len(outputs) + 1
      BY ListingAppend DEF Passing, Checking
    <3> HIDE DEF all, outs
    <3>3. Len(outputs)' <= Len(checked)'
      BY <2>1, <3>1, <3>2
    <3> QED
      BY <2>1, <3>1, <3>3, OneAnswer, ShapedOn DEF Shaped
  <2> QED
    BY <1>6, <2>2, <2>3 DEF Fold
<1> QED
  BY <1>1, <1>2, <1>3, <1>4, <1>5, <1>6 DEF Service

\* The loop of an endpoint keeps the locals it was started with.
LEMMA TookShaped ==
  ASSUME Stages, Playing, step = "stream", NEW e \in Results, e.ok
  PROVE  DOMAIN Took(e) = DOMAIN handler
<1>1. Crossed(e) = e /\ call.kind \in {"chat", "responses", "transcriptions"}
  BY StreamKinds, ResultCrosses DEF Playing
<1>2. e.value.is \in {"text_delta", "reasoning_delta", "segment", "done"}
  BY ResultKinds DEF RunErrors, Deltas, Segments, Dones, Err, Busy
<1>3. CASE call.kind = "chat"
  BY <1>1, <1>2, <1>3 DEF Took, ChatEvent
<1>4. CASE call.kind = "responses"
  BY <1>1, <1>2, <1>4 DEF Took, ResponsesEvent, ReasoningDelta, TextDelta, Emit
<1>5. CASE call.kind = "transcriptions"
  BY <1>1, <1>2, <1>5 DEF Took, UploadEvent
<1> QED
  BY <1>1, <1>3, <1>4, <1>5

LEMMA StreamShaped == ASSUME Stages, Passing, Playing, Shaped, Stream PROVE Shaped'
<1>1. step = "stream" /\ UNCHANGED <<call, checked, outputs, cut, promised>>
  BY DEF Stream, TakeEvent, EndOfStream
<1>2. CASE step' = "answered" /\ \E a : answer' = <<a>>
  BY <1>1, <1>2, OneAnswer, ShapedOn DEF Shaped
<1>3. CASE EndOfStream
  BY <1>2, <1>3 DEF EndOfStream
<1>4. CASE TakeEvent
  <2> DEFINE e == Head(script)
  <2>1. e \in Results
    BY <1>4 DEF TakeEvent, Passing
  <2>2. CASE ~Crossed(e).ok
    BY <1>2, <1>4, <2>2 DEF TakeEvent
  <2>3. CASE Crossed(e).ok
    <3>1. handler' = Took(e) /\ UNCHANGED <<step, answer>>
      BY <1>4, <2>3 DEF TakeEvent
    <3>2. e.ok
      BY <2>1, <2>3, ResultKinds, CrossedFails
    <3>3. Opened' = Opened
      BY <1>1 DEF Opened
    <3>4. DOMAIN handler' = DOMAIN handler
      BY <1>1, <2>1, <3>1, <3>2, TookShaped
    <3> QED
      BY <1>1, <3>1, <3>3, <3>4 DEF Shaped
  <2> QED
    BY <2>2, <2>3
<1> QED
  BY <1>3, <1>4 DEF Stream

LEMMA NextShaped ==
  ASSUME Stages, Checking, Passing, Jobs, Playing, Shaped, [Next]_vars
  PROVE  Shaped'
<1>1. CASE \E c \in Calls : Arrive(c)
  <2>1. /\ step = "idle" /\ call' \in Calls /\ step' \in {"rpc", "frontend"}
        /\ UNCHANGED <<checked, outputs, answer, cut, promised>>
    BY <1>1 DEF Arrive
  <2> QED
    BY <2>1, CallsAssumption DEF Shaped
<1>2. CASE Over
  <2>1. call' = None /\ step' = "idle" /\ answer' = <<>> /\ outputs' = <<>> /\ checked' = <<>>
        /\ cut' = FALSE /\ promised' = promised
    BY <1>2 DEF Over
  <2>2. cut' \in BOOLEAN
    BY <2>1, Zenon
  <2>3. Len(answer') = 0 /\ Len(outputs') = 0 /\ Len(checked') = 0
    BY <2>1, OneAnswer
  <2> QED
    BY <2>1, <2>2, <2>3 DEF Shaped
<1>3. CASE UNCHANGED <<local, promised>>
  BY <1>3 DEF local, Shaped, Opened
<1>4. CASE \E i \in Ids : CrashUnder(i)
  <2>1. /\ UNCHANGED <<call, step, checked, outputs, handler, answer, promised>>
        /\ UNCHANGED cut \/ \E n : cut' = (n < Len(script))
    BY <1>4 DEF CrashUnder
  <2>2. cut' \in BOOLEAN
    BY <2>1, LessIsBoolean, Zenon DEF Shaped
  <2>3. Opened' = Opened
    BY <2>1 DEF Opened
  <2> QED
    BY <2>1, <2>2, <2>3 DEF Shaped
<1> QED
  BY <1>1, <1>2, <1>3, <1>4, FrontendShaped, TellShaped, ServiceShaped, StreamShaped, Steps

\* The variables of a call have their types, at each step what that step has:
\* a call is answered once, when it ends; a stream has the locals of its own
\* endpoint's loop; and no run is folded before its input was checked.
THEOREM CallsTyped == Spec => []TypeOK
<1>1. Init => Called /\ Shaped
  <2>1. ASSUME Init PROVE cut \in BOOLEAN /\ promised \in BOOLEAN
    BY <2>1, Zenon DEF Init, Idle
  <2>2. ASSUME Init PROVE /\ call = None /\ step = "idle"
                          /\ Len(answer) = 0 /\ Len(outputs) = 0 /\ Len(checked) = 0
    BY <2>2, OneAnswer DEF Init, Idle
  <2> QED
    BY <2>1, <2>2 DEF Called, Shaped
<1>2. Called /\ [Next]_vars => Called'
  BY NextCalled
<1>3. Stages /\ Checking /\ Passing /\ Jobs /\ Playing /\ Shaped /\ [Next]_vars => Shaped'
  BY NextShaped
<1>4. IInv /\ Stages /\ Playing /\ Called /\ Shaped => TypeOK
  BY DEF TypeOK, IInv, Stages, Served, Playing, Called, Shaped
<1> QED
  BY <1>1, <1>2, <1>3, <1>4, RegistryHolds, StagesHold, CheckingHolds, PassingHolds, JobsHold,
     PlayingHolds, PTL DEF Spec
=============================================================================
