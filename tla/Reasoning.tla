------------------------------ MODULE Reasoning ------------------------------
(***************************************************************************)
(* Splitting a model's output into reasoning and content: ReasoningParser. *)
(* The output arrives in chunks cut at arbitrary places, a chunk can hold  *)
(* several markers and a marker can span several chunks.  The state here   *)
(* is the parser's own; input and emitted are the whole run's, and every   *)
(* character that was emitted carries the state it was emitted in.         *)
(*                                                                         *)
(* A character stands for one UTF-8 character: chunks and markers are both *)
(* text, so is_char_boundary never decides anything but whole characters.  *)
(***************************************************************************)
EXTENDS Naturals, SequencesExt, FiniteSetsExt

CONSTANTS
  Chars,      \* characters the model writes
  Start,      \* the marker that opens reasoning
  End,        \* the marker that closes it
  MaxInput,   \* bound: characters of one run
  MaxChunk    \* bound: characters of one chunk

\* No check of config.rs refuses an empty marker, on which push never returns.
ASSUME ReasoningAssumption ==
  /\ Start \in Seq(Chars) \ {<<>>} /\ End \in Seq(Chars) \ {<<>>}
  /\ MaxInput \in Nat /\ MaxChunk \in Nat \ {0}

VARIABLES
  markers,    \* the model has markers: FALSE is ReasoningParser::disabled
  opened,     \* starts_in_reasoning
  state,      \* State::Text or State::Reasoning
  held,       \* a tail that could still turn out to be the start of a marker
  reasoning,  \* reasoning_tokens
  finished,   \* finish() was called
  input,      \* everything pushed so far
  emitted     \* everything emitted so far, tagged

vars == <<markers, opened, state, held, reasoning, finished, input, emitted>>

States == {"text", "reasoning"}
Other(s)  == IF s = "text" THEN "reasoning" ELSE "text"
Marker(s) == IF s = "text" THEN Start ELSE End
First     == IF opened THEN "reasoning" ELSE "text"

\* emit: pieces with their state.  Where one piece ends and the next begins
\* says nothing, so what counts is the tagged characters.
Emit(s, text) == [i \in DOMAIN text |-> [in |-> s, char |-> text[i]]]

\* str::find: where the marker occurs.
Occurrences(marker, buf) ==
  {i \in 1..Len(buf) : IsPrefix(marker, SubSeq(buf, i, Len(buf)))}

\* Proper prefixes of the marker that buf ends with, by length.
Partials(buf, marker) ==
  {n \in 1..Len(buf) : n < Len(marker) /\ IsSuffix(SubSeq(marker, 1, n), buf)}

\* Mutant: shortest first.
PartialSuffixShortest(buf, marker) ==
  IF Partials(buf, marker) = {} THEN 0 ELSE Min(Partials(buf, marker))

\* Mutant: as much as a marker could take, whatever the text is.
PartialSuffixWidest(buf, marker) == Min({Len(buf), Len(marker) - 1})

\* partial_suffix.  "Longest first".
PartialSuffix(buf, marker) == Max({0} \union Partials(buf, marker))

\* A state, and the text that is read in it.
Buffers == States \X Seq(Chars)

\* The loop of push, from the state and the buffer it starts a round with.
Loop[round \in Buffers] ==
  LET s      == round[1]
      buf    == round[2]
      marker == Marker(s)
      found  == Occurrences(marker, buf)
      at     == Min(found)
      rest   == Loop[<<Other(s), SubSeq(buf, at + Len(marker), Len(buf))>>]
      split  == Len(buf) - PartialSuffix(buf, marker)
  IN IF found # {}
       THEN [state |-> rest.state,
             held  |-> rest.held,
             out   |-> Emit(s, SubSeq(buf, 1, at - 1)) \o rest.out]
       ELSE [state |-> s,
             held  |-> SubSeq(buf, split + 1, Len(buf)),
             out   |-> Emit(s, SubSeq(buf, 1, split))]

Init ==
  /\ markers \in BOOLEAN /\ opened \in BOOLEAN
  /\ opened => markers
  /\ state = First
  /\ held = <<>> /\ reasoning = 0 /\ finished = FALSE
  /\ input = <<>> /\ emitted = <<>>

Push(chunk) ==
  /\ ~finished /\ Len(input) + Len(chunk) <= MaxInput
  /\ input' = input \o chunk
  /\ reasoning' = IF state = "reasoning" THEN reasoning + 1 ELSE reasoning
  /\ IF markers
       THEN LET after == Loop[<<state, held \o chunk>>]
            IN /\ state' = after.state /\ held' = after.held
               /\ emitted' = emitted \o after.out
       ELSE emitted' = emitted \o Emit("text", chunk) /\ UNCHANGED <<state, held>>
  /\ UNCHANGED <<markers, opened, finished>>

\* Mutant: what was held back is forgotten.
FinishForgets ==
  /\ ~finished
  /\ finished' = TRUE /\ held' = <<>>
  /\ UNCHANGED <<markers, opened, state, reasoning, input, emitted>>

\* Mutant: what was held back is copied, not taken.
FinishCopies ==
  /\ ~finished
  /\ finished' = TRUE
  /\ emitted' = emitted \o Emit(state, held)
  /\ UNCHANGED <<markers, opened, state, held, reasoning, input>>

\* finish: the tail was ordinary text all along.
Finish ==
  /\ ~finished
  /\ finished' = TRUE /\ held' = <<>>
  /\ emitted' = emitted \o Emit(state, held)
  /\ UNCHANGED <<markers, opened, state, reasoning, input>>

Next == (\E chunk \in BoundedSeq(Chars, MaxChunk) \ {<<>>} : Push(chunk)) \/ Finish

Spec == Init /\ [][Next]_vars
-----------------------------------------------------------------------------
\* What the output means, read one character at a time with all of it at hand.
Split[rest \in Buffers] ==
  LET s    == rest[1]
      text == rest[2]
  IN IF text = <<>> THEN <<>>
     ELSE IF IsPrefix(Marker(s), text)
       THEN Split[<<Other(s), SubSeq(text, Len(Marker(s)) + 1, Len(text))>>]
       ELSE Emit(s, <<Head(text)>>) \o Split[<<s, Tail(text)>>]

Meaning(text) == IF markers THEN Split[<<First, text>>] ELSE Emit("text", text)

\* The type of every variable; a finished run holds nothing.
TypeOK ==
  /\ markers \in BOOLEAN /\ opened \in BOOLEAN /\ finished \in BOOLEAN
  /\ finished => held = <<>>
  /\ state \in States /\ held \in Seq(Chars) /\ reasoning \in Nat
  /\ input \in Seq(Chars)
  /\ emitted \in Seq([in : States, char : Chars])

\* Where the runtime cuts its output into chunks makes no difference: at any
\* point, what was emitted and what is held are together the meaning of what
\* was pushed, to the character and in order ("a chunk can produce several,
\* when a marker sits in the middle of it", reasoning.rs:7-8).
ChunksAreInvisible == emitted \o Emit(state, held) = Meaning(input)

\* Nothing is held back that could be shown: what waits for the next chunk is
\* the start of the marker that is looked for, and not all of it ("the rest is
\* safe to emit now", reasoning.rs:112-113).
HeldMayBeMarker == held # <<>> => markers /\ IsStrictPrefix(held, Marker(state))
=============================================================================
