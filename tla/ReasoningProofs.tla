---------------------------- MODULE ReasoningProofs ----------------------------
(***************************************************************************)
(* Module Reasoning for every pair of markers, every text and every way to *)
(* cut it: the split of the output does not depend on the cuts.            *)
(*                                                                         *)
(* Loop and Split are recursive functions, so nothing is known of them     *)
(* until a function that solves their equations is shown to exist, which   *)
(* Recursion does for functions that descend to a smaller number.  What    *)
(* holds of them for every text is then shown on a shortest text for which *)
(* it would not, which Least provides.                                     *)
(***************************************************************************)
EXTENDS Reasoning, SequenceTheorems, FiniteSetTheorems, WellFoundedInduction, TLAPS

\* A set of numbers that is not empty has a least one.
LEMMA Least == ASSUME NEW T, T \subseteq Nat, T # {}
               PROVE  \E n \in T : \A k \in T : n <= k
<1> DEFINE R == {ss \in Nat \X Nat : ss[1] < ss[2]}
<1>1. IsWellFoundedOn(R, Nat)
  BY NatLessThanWellFounded, Zenon DEF OpToRel
<1>2. PICK n \in T : \A k \in T : ~(<<k, n>> \in R)
  BY <1>1, WFMin
<1>3. \A k \in T : ~(k < n)
  BY <1>2
<1> QED
  BY <1>3

\* From p in rec the definition goes on at next[p], where m is smaller, and g
\* makes the value at p of what it finds there.  Elsewhere it is base[p].
Descends(D, V, m, rec, next, base, g) ==
  /\ m \in [D -> Nat] /\ rec \subseteq D /\ next \in [rec -> D]
  /\ base \in [D -> V] /\ g \in [D \X V -> V]
  /\ \A p \in rec : m[next[p]] < m[p]

Solves(f, D, rec, next, base, g) ==
  \A p \in D : f[p] = IF p \in rec THEN g[<<p, f[next[p]]>>] ELSE base[p]

\* A definition that descends has a solution.
LEMMA Recursion ==
  ASSUME NEW D, NEW V, NEW m, NEW rec, NEW next, NEW base, NEW g,
         Descends(D, V, m, rec, next, base, g)
  PROVE  \E f \in [D -> V] : Solves(f, D, rec, next, base, g)
<1>0. /\ m \in [D -> Nat] /\ rec \subseteq D /\ next \in [rec -> D]
      /\ base \in [D -> V] /\ g \in [D \X V -> V]
      /\ \A p \in rec : m[next[p]] < m[p]
  BY DEF Descends
<1> DEFINE Body(f, p) == IF p \in rec THEN g[<<p, f[next[p]]>>] ELSE base[p]
           Sound(f, n) == \A p \in D : m[p] < n => f[p] = Body(f, p)
           W(n) == CHOOSE f \in [D -> V] : Sound(f, n)
           F == [p \in D |-> W(m[p] + 1)[p]]
<1>1. \A f \in [D -> V] : \A p \in D : Body(f, p) \in V
  BY <1>0
<1>2. \A n \in Nat : \E f \in [D -> V] : Sound(f, n)
  <2> DEFINE T == {n \in Nat : ~\E f \in [D -> V] : Sound(f, n)}
  <2> SUFFICES ASSUME T # {} PROVE FALSE
    OBVIOUS
  <2>1. PICK n \in T : \A k \in T : n <= k
    BY Least
  <2>2. n # 0
    <3>1. Sound(base, 0)
      BY <1>0
    <3> QED
      BY <1>0, <2>1, <3>1
  <2>3. n \in Nat /\ n - 1 \in Nat /\ n - 1 \notin T
    BY <2>1, <2>2
  <2>4. PICK f \in [D -> V] : Sound(f, n - 1)
    BY <2>3
  <2> DEFINE h == [p \in D |-> Body(f, p)]
  <2>5. h \in [D -> V]
    BY <1>1
  <2>6. ASSUME NEW p \in D, m[p] < n PROVE h[p] = Body(h, p)
    <3>1. CASE p \in rec
      <4>1. next[p] \in D /\ m[next[p]] < n - 1
        BY <1>0, <2>3, <2>6, <3>1
      <4>2. h[next[p]] = f[next[p]]
        BY <2>4, <4>1
      <4> QED
        BY <4>2
    <3>2. CASE p \notin rec
      BY <3>2
    <3> QED
      BY <3>1, <3>2
  <2>7. Sound(h, n)
    BY <2>6
  <2> QED
    BY <2>1, <2>5, <2>7
<1>3. ASSUME NEW n \in Nat, NEW f \in [D -> V], NEW h \in [D -> V], Sound(f, n), Sound(h, n)
      PROVE  \A p \in D : m[p] < n => f[p] = h[p]
  <2> DEFINE P == {p \in D : m[p] < n /\ f[p] # h[p]}
             T == {m[p] : p \in P}
  <2> SUFFICES ASSUME P # {} PROVE FALSE
    OBVIOUS
  <2>1. T \subseteq Nat /\ T # {}
    BY <1>0
  <2>2. PICK k \in T : \A l \in T : k <= l
    BY <2>1, Least
  <2>3. PICK p \in P : k = m[p]
    OBVIOUS
  <2>4. p \in D /\ m[p] < n /\ m[p] \in Nat /\ f[p] # h[p]
    BY <1>0, <2>3
  <2>5. f[p] = Body(f, p) /\ h[p] = Body(h, p)
    BY <1>3, <2>4
  <2>6. CASE p \in rec
    <3>1. next[p] \in D /\ m[next[p]] < m[p] /\ m[next[p]] \in Nat
      BY <1>0, <2>6
    <3>2. next[p] \notin P
      <4>1. \A x \in P : m[p] <= m[x]
        BY <2>2, <2>3
      <4> QED
        BY <2>4, <3>1, <4>1
    <3>3. f[next[p]] = h[next[p]]
      BY <2>4, <3>1, <3>2
    <3> QED
      BY <2>4, <2>5, <3>3
  <2> QED
    BY <2>4, <2>5, <2>6
<1>4. \A n \in Nat : W(n) \in [D -> V] /\ Sound(W(n), n)
  BY <1>2
<1> HIDE DEF W, Sound
<1>5. \A p \in D : W(m[p] + 1) \in [D -> V] /\ Sound(W(m[p] + 1), m[p] + 1) /\ m[p] + 1 \in Nat
  BY <1>0, <1>4
<1>6. F \in [D -> V]
  BY <1>5
<1>7. ASSUME NEW p \in D PROVE F[p] = Body(F, p)
  <2> DEFINE f == W(m[p] + 1)
  <2>1. f \in [D -> V] /\ Sound(f, m[p] + 1) /\ m[p] \in Nat
    BY <1>0, <1>5
  <2>2. F[p] = f[p] /\ f[p] = Body(f, p)
    BY <2>1 DEF Sound
  <2>3. CASE p \in rec
    <3> DEFINE q == next[p]
               h == W(m[q] + 1)
    <3>1. q \in D /\ m[q] \in Nat /\ m[q] + 1 \in Nat /\ m[q] < m[p]
      BY <1>0, <2>3
    <3>2. h \in [D -> V] /\ Sound(h, m[q] + 1)
      BY <1>5, <3>1
    <3>3. Sound(f, m[q] + 1)
      <4>1. \A x \in D : m[x] < m[q] + 1 => m[x] < m[p] + 1
        BY <1>0, <2>1, <3>1
      <4> HIDE DEF f
      <4> QED
        BY <2>1, <4>1 DEF Sound
    <3> HIDE DEF f, h, q
    <3>4. f[q] = h[q]
      BY <1>3, <2>1, <3>1, <3>2, <3>3
    <3>5. F[q] = h[q]
      BY <3>1 DEF h
    <3> QED
      BY <2>2, <2>3, <3>4, <3>5 DEF q
  <2>4. CASE p \notin rec
    BY <2>2, <2>4
  <2> QED
    BY <2>3, <2>4
<1> QED
  BY <1>6, <1>7 DEF Solves

Tagged   == [in : States, char : Chars]
Outcomes == [state : States, held : Seq(Chars), out : Seq(Tagged)]

\* A marker is never empty.
LEMMA MarkerType == ASSUME NEW s \in States
                    PROVE  /\ Marker(s) \in Seq(Chars) /\ Len(Marker(s)) \in Nat \ {0}
                           /\ Other(s) \in States
  BY ReasoningAssumption DEF Marker, Other, States

\* Emit tags a text character by character.
LEMMA EmitType == ASSUME NEW s \in States, NEW text \in Seq(Chars)
                  PROVE  /\ Emit(s, text) \in Seq(Tagged) /\ Len(Emit(s, text)) = Len(text)
                         /\ DOMAIN Emit(s, text) = 1..Len(text)
                         /\ \A i \in 1..Len(text) : Emit(s, text)[i] = [in |-> s, char |-> text[i]]
<1>1. DOMAIN text = 1..Len(text) /\ Len(text) \in Nat /\ \A i \in 1..Len(text) : text[i] \in Chars
  BY LenProperties, ElementOfSeq
<1>2. Emit(s, text) = [i \in 1..Len(text) |-> [in |-> s, char |-> text[i]]]
  BY <1>1 DEF Emit
<1>3. \A i \in 1..Len(text) : [in |-> s, char |-> text[i]] \in Tagged
  BY <1>1 DEF Tagged
<1>4. [i \in 1..Len(text) |-> [in |-> s, char |-> text[i]]] \in [1..Len(text) -> Tagged]
  BY <1>3
<1> HIDE DEF Tagged
<1>5. Emit(s, text) \in Seq(Tagged) /\ Len(Emit(s, text)) = Len(text)
  <2> DEFINE e == Emit(s, text)
             n == Len(text)
  <2>1. n \in Nat /\ e \in [1..n -> Tagged]
    BY <1>1, <1>2, <1>4
  <2> HIDE DEF e, n
  <2> QED
    BY <2>1 DEF e, n
<1> QED
  BY <1>2, <1>5

\* One round of the loop: where the marker is found, what is behind it, and
\* where the buffer is cut when it is not.
Found(s, buf) == Occurrences(Marker(s), buf)
At(s, buf)    == Min(Found(s, buf))
After(s, buf) == SubSeq(buf, At(s, buf) + Len(Marker(s)), Len(buf))
Cut(s, buf)   == Len(buf) - PartialSuffix(buf, Marker(s))

\* The marker found is the first there is, it is all there, and less is left.
LEMMA FoundAt == ASSUME NEW s \in States, NEW buf \in Seq(Chars), Found(s, buf) # {}
                 PROVE  /\ At(s, buf) \in 1..Len(buf)
                        /\ At(s, buf) + Len(Marker(s)) - 1 <= Len(buf)
                        /\ IsPrefix(Marker(s), SubSeq(buf, At(s, buf), Len(buf)))
                        /\ \A i \in 1..(At(s, buf) - 1) : ~IsPrefix(Marker(s), SubSeq(buf, i, Len(buf)))
                        /\ After(s, buf) \in Seq(Chars) /\ Len(After(s, buf)) < Len(buf)
                        /\ Len(After(s, buf)) = Len(buf) - (At(s, buf) + Len(Marker(s)) - 1)
<1> DEFINE m == Marker(s)
           a == At(s, buf)
<1>1. m \in Seq(Chars) /\ Len(m) \in Nat \ {0} /\ Len(buf) \in Nat
  BY MarkerType, LenProperties
<1>2. Found(s, buf) \subseteq 1..Len(buf) /\ Found(s, buf) \subseteq Nat
  BY <1>1 DEF Found, Occurrences
<1>3. a \in Found(s, buf) /\ \A i \in Found(s, buf) : a <= i
  <2>1. \E n \in Found(s, buf) : \A k \in Found(s, buf) : n <= k
    BY <1>2, Least
  <2> QED
    BY <2>1 DEF At, Min
<1> HIDE DEF a, m
<1>4. a \in 1..Len(buf)
  BY <1>2, <1>3
<1>5. IsPrefix(m, SubSeq(buf, a, Len(buf)))
  BY <1>3 DEF Found, Occurrences, m
<1>6. \A i \in 1..(a - 1) : ~IsPrefix(m, SubSeq(buf, i, Len(buf)))
  <2> SUFFICES ASSUME NEW i \in 1..(a - 1), IsPrefix(m, SubSeq(buf, i, Len(buf))) PROVE FALSE
    OBVIOUS
  <2>1. i \in 1..Len(buf) /\ i < a
    BY <1>4
  <2>2. i \in Found(s, buf)
    BY <2>1 DEF Found, Occurrences, m
  <2> QED
    BY <1>2, <1>3, <2>1, <2>2
<1>7. Len(SubSeq(buf, a, Len(buf))) = Len(buf) - a + 1
  BY <1>1, <1>4, SubSeqProperties
<1>8. Len(m) <= Len(buf) - a + 1
  BY <1>5, <1>7 DEF IsPrefix
<1>9. /\ SubSeq(buf, a + Len(m), Len(buf)) \in Seq(Chars)
      /\ Len(SubSeq(buf, a + Len(m), Len(buf))) = Len(buf) - (a + Len(m) - 1)
  <2>1. a + Len(m) \in Int /\ Len(buf) \in Int /\ \A i \in (a + Len(m))..Len(buf) : buf[i] \in Chars
    BY <1>1, <1>4, ElementOfSeq
  <2>2. /\ SubSeq(buf, a + Len(m), Len(buf)) \in Seq(Chars)
        /\ Len(SubSeq(buf, a + Len(m), Len(buf)))
           = IF a + Len(m) <= Len(buf) THEN Len(buf) - (a + Len(m)) + 1 ELSE 0
    BY <2>1, SubSeqProperties
  <2> QED
    BY <1>1, <1>4, <1>8, <2>2
<1> QED
  BY <1>1, <1>4, <1>5, <1>6, <1>8, <1>9 DEF a, m, After

\* The tail kept is the longest that could be the start of the marker.
LEMMA CutAt == ASSUME NEW s \in States, NEW buf \in Seq(Chars)
               PROVE  /\ PartialSuffix(buf, Marker(s)) \in 0..Len(buf)
                      /\ PartialSuffix(buf, Marker(s)) < Len(Marker(s))
                      /\ PartialSuffix(buf, Marker(s)) # 0 =>
                           PartialSuffix(buf, Marker(s)) \in Partials(buf, Marker(s))
                      /\ \A n \in Partials(buf, Marker(s)) : n <= PartialSuffix(buf, Marker(s))
                      /\ Cut(s, buf) \in 0..Len(buf)
<1> DEFINE m == Marker(s)
           P == {0} \union Partials(buf, m)
<1>1. Len(m) \in Nat \ {0} /\ Len(buf) \in Nat
  BY MarkerType, LenProperties
<1>2. \A n \in P : n \in 0..Len(buf) /\ n < Len(m)
  BY <1>1 DEF Partials
<1>3. \E x \in P : \A y \in P : x >= y
  <2> DEFINE T == {Len(buf) - n : n \in P}
  <2>1. T \subseteq Nat /\ T # {}
    BY <1>1, <1>2
  <2>2. PICK t \in T : \A u \in T : t <= u
    BY <2>1, Least
  <2>3. PICK x \in P : t = Len(buf) - x
    OBVIOUS
  <2>4. \A y \in P : Len(buf) - x <= Len(buf) - y
    BY <2>2, <2>3
  <2> QED
    BY <1>1, <1>2, <2>4
<1> DEFINE p == PartialSuffix(buf, m)
<1>4. p \in P /\ \A y \in P : p >= y
  BY <1>3 DEF PartialSuffix, Max
<1> HIDE DEF p
<1>5. p \in 0..Len(buf) /\ p < Len(m) /\ (p # 0 => p \in Partials(buf, m))
  BY <1>2, <1>4
<1>6. \A n \in Partials(buf, m) : n <= p
  BY <1>1, <1>2, <1>4, <1>5
<1> QED
  BY <1>1, <1>5, <1>6 DEF Cut, p

\* The equation of Loop, with f for itself.
LoopResult(f, s, buf) ==
  LET rest == f[<<Other(s), After(s, buf)>>]
  IN IF Found(s, buf) # {}
       THEN [state |-> rest.state,
             held  |-> rest.held,
             out   |-> Emit(s, SubSeq(buf, 1, At(s, buf) - 1)) \o rest.out]
       ELSE [state |-> s,
             held  |-> SubSeq(buf, Cut(s, buf) + 1, Len(buf)),
             out   |-> Emit(s, SubSeq(buf, 1, Cut(s, buf)))]

\* Loop solves its equation if anything does.
LEMMA LoopIs == Loop = CHOOSE f : f = [p \in Buffers |-> LoopResult(f, p[1], p[2])]
  BY DEF Loop, LoopResult, Found, At, After, Cut

\* Parts of a text are texts.
LEMMA PartType == ASSUME NEW buf \in Seq(Chars), NEW a \in Nat, NEW b \in 0..Len(buf)
                  PROVE  SubSeq(buf, a + 1, b) \in Seq(Chars)
<1>1. \A i \in (a + 1)..b : buf[i] \in Chars
  BY ElementOfSeq
<1> QED
  BY <1>1, SubSeqProperties

LEMMA PrefixType == ASSUME NEW buf \in Seq(Chars), NEW b \in 0..Len(buf)
                    PROVE  /\ SubSeq(buf, 1, b) \in Seq(Chars) /\ Len(SubSeq(buf, 1, b)) = b
                           /\ \A i \in 1..b : SubSeq(buf, 1, b)[i] = buf[i]
<1>1. \A i \in 1..b : buf[i] \in Chars
  BY ElementOfSeq
<1> QED
  BY <1>1, SubSeqProperties

\* Loop solves its equation: each round is on a shorter buffer.
LEMMA LoopFixed == \A s \in States, buf \in Seq(Chars) : Loop[<<s, buf>>] = LoopResult(Loop, s, buf)
<1> DEFINE m == [p \in Buffers |-> Len(p[2])]
           rec == {p \in Buffers : Found(p[1], p[2]) # {}}
           next == [p \in rec |-> <<Other(p[1]), After(p[1], p[2])>>]
           base == [p \in Buffers |->
                     [state |-> p[1],
                      held  |-> SubSeq(p[2], Cut(p[1], p[2]) + 1, Len(p[2])),
                      out   |-> Emit(p[1], SubSeq(p[2], 1, Cut(p[1], p[2])))]]
           g == [q \in Buffers \X Outcomes |->
                  IF q[1] \in rec
                    THEN [state |-> q[2].state, held |-> q[2].held,
                          out |-> Emit(q[1][1], SubSeq(q[1][2], 1, At(q[1][1], q[1][2]) - 1)) \o q[2].out]
                    ELSE q[2]]
<1>1. m \in [Buffers -> Nat]
  BY LenProperties DEF Buffers
<1>2. /\ next \in [rec -> Buffers]
      /\ \A p \in rec : m[next[p]] < m[p]
  <2>1. \A p \in rec : p[1] \in States /\ p[2] \in Seq(Chars) /\ p \in Buffers /\ Found(p[1], p[2]) # {}
    BY DEF Buffers
  <2>2. \A p \in rec : Other(p[1]) \in States /\ After(p[1], p[2]) \in Seq(Chars)
                       /\ Len(After(p[1], p[2])) < Len(p[2])
    BY <2>1, MarkerType, FoundAt
  <2> HIDE DEF rec
  <2>3. \A p \in rec : next[p] = <<Other(p[1]), After(p[1], p[2])>> /\ next[p] \in Buffers
    BY <2>2 DEF Buffers
  <2>4. \A p \in rec : m[next[p]] = Len(After(p[1], p[2])) /\ m[p] = Len(p[2])
    BY <2>1, <2>3
  <2> QED
    BY <2>2, <2>3, <2>4
<1>3. base \in [Buffers -> Outcomes]
  <2> SUFFICES ASSUME NEW p \in Buffers PROVE base[p] \in Outcomes
    OBVIOUS
  <2>1. p[1] \in States /\ p[2] \in Seq(Chars)
    BY DEF Buffers
  <2>2. Cut(p[1], p[2]) \in 0..Len(p[2]) /\ Len(p[2]) \in Nat
    BY <2>1, CutAt, LenProperties
  <2>3. /\ SubSeq(p[2], Cut(p[1], p[2]) + 1, Len(p[2])) \in Seq(Chars)
        /\ SubSeq(p[2], 1, Cut(p[1], p[2])) \in Seq(Chars)
    BY <2>1, <2>2, PartType, PrefixType
  <2>4. Emit(p[1], SubSeq(p[2], 1, Cut(p[1], p[2]))) \in Seq(Tagged)
    BY <2>1, <2>3, EmitType
  <2> QED
    BY <2>1, <2>3, <2>4 DEF Outcomes
<1>4. g \in [Buffers \X Outcomes -> Outcomes]
  <2> SUFFICES ASSUME NEW q \in Buffers \X Outcomes PROVE g[q] \in Outcomes
    OBVIOUS
  <2>1. CASE q[1] \notin rec
    BY <2>1
  <2>2. CASE q[1] \in rec
    <3>1. q[1][1] \in States /\ q[1][2] \in Seq(Chars) /\ Found(q[1][1], q[1][2]) # {} /\ q[2] \in Outcomes
      BY <2>2 DEF Buffers
    <3>2. At(q[1][1], q[1][2]) - 1 \in 0..Len(q[1][2]) /\ Len(q[1][2]) \in Nat
      BY <3>1, FoundAt, LenProperties
    <3>3. SubSeq(q[1][2], 1, At(q[1][1], q[1][2]) - 1) \in Seq(Chars)
      BY <3>1, <3>2, PrefixType
    <3>4. Emit(q[1][1], SubSeq(q[1][2], 1, At(q[1][1], q[1][2]) - 1)) \in Seq(Tagged)
      BY <3>1, <3>3, EmitType
    <3>5. Emit(q[1][1], SubSeq(q[1][2], 1, At(q[1][1], q[1][2]) - 1)) \o q[2].out \in Seq(Tagged)
      BY <3>1, <3>4, ConcatProperties DEF Outcomes
    <3> QED
      BY <2>2, <3>1, <3>5 DEF Outcomes
  <2> QED
    BY <2>1, <2>2
<1>5. rec \subseteq Buffers
  OBVIOUS
<1> HIDE DEF m, next, base, g, rec
<1>6. PICK F \in [Buffers -> Outcomes] : Solves(F, Buffers, rec, next, base, g)
  <2>1. Descends(Buffers, Outcomes, m, rec, next, base, g)
    BY <1>1, <1>2, <1>3, <1>4, <1>5 DEF Descends
  <2> QED
    BY <2>1, Recursion
<1>7. \A s \in States, buf \in Seq(Chars) : F[<<s, buf>>] = LoopResult(F, s, buf)
  <2> SUFFICES ASSUME NEW s \in States, NEW buf \in Seq(Chars) PROVE F[<<s, buf>>] = LoopResult(F, s, buf)
    OBVIOUS
  <2> DEFINE p == <<s, buf>>
  <2>1. p \in Buffers /\ p[1] = s /\ p[2] = buf /\ (p \in rec <=> Found(s, buf) # {})
    BY DEF Buffers, rec
  <2> HIDE DEF p
  <2>2. CASE Found(s, buf) # {}
    <3>1. next[p] = <<Other(s), After(s, buf)>> /\ next[p] \in Buffers /\ F[next[p]] \in Outcomes
      BY <1>2, <1>6, <2>1, <2>2 DEF next
    <3>2. g[<<p, F[next[p]]>>]
          = [state |-> F[next[p]].state, held |-> F[next[p]].held,
             out |-> Emit(s, SubSeq(buf, 1, At(s, buf) - 1)) \o F[next[p]].out]
      BY <2>1, <2>2, <3>1 DEF g
    <3> QED
      BY <1>6, <2>1, <2>2, <3>1, <3>2 DEF LoopResult, Solves, p
  <2>3. CASE Found(s, buf) = {}
    BY <1>6, <2>1, <2>3 DEF LoopResult, Solves, base, p
  <2> QED
    BY <2>2, <2>3
<1>8. F = [p \in Buffers |-> LoopResult(F, p[1], p[2])]
  <2>1. \A p \in Buffers : F[p] = LoopResult(F, p[1], p[2])
    <3> SUFFICES ASSUME NEW p \in Buffers PROVE F[p] = LoopResult(F, p[1], p[2])
      OBVIOUS
    <3>1. p[1] \in States /\ p[2] \in Seq(Chars) /\ p = <<p[1], p[2]>>
      BY DEF Buffers
    <3> QED
      BY <1>7, <3>1
  <2> QED
    BY <2>1
<1>9. Loop = [p \in Buffers |-> LoopResult(Loop, p[1], p[2])]
  BY <1>8, LoopIs, Zenon
<1> QED
  <2> SUFFICES ASSUME NEW s \in States, NEW buf \in Seq(Chars)
               PROVE  Loop[<<s, buf>>] = LoopResult(Loop, s, buf)
    OBVIOUS
  <2>1. <<s, buf>> \in Buffers /\ <<s, buf>>[1] = s /\ <<s, buf>>[2] = buf
    BY DEF Buffers
  <2> QED
    BY <1>9, <2>1, Zenon

\* What is left of a text that a marker begins.
Drop(s, text) == SubSeq(text, Len(Marker(s)) + 1, Len(text))

\* The equation of Split, with f for itself.
SplitResult(f, s, text) ==
  IF text = <<>> THEN <<>>
  ELSE IF IsPrefix(Marker(s), text) THEN f[<<Other(s), Drop(s, text)>>]
  ELSE Emit(s, <<Head(text)>>) \o f[<<s, Tail(text)>>]

LEMMA SplitIs == Split = CHOOSE f : f = [p \in Buffers |-> SplitResult(f, p[1], p[2])]
  BY DEF Split, SplitResult, Drop

\* A marker taken off a text leaves a shorter one.
LEMMA DropType == ASSUME NEW s \in States, NEW text \in Seq(Chars), IsPrefix(Marker(s), text)
                  PROVE  /\ Drop(s, text) \in Seq(Chars) /\ Len(Drop(s, text)) < Len(text)
                         /\ Len(Drop(s, text)) = Len(text) - Len(Marker(s))
                         /\ text # <<>>
<1>1. Len(Marker(s)) \in Nat \ {0} /\ Len(text) \in Nat /\ Len(Marker(s)) <= Len(text)
  BY MarkerType, LenProperties DEF IsPrefix
<1>2. \A i \in (Len(Marker(s)) + 1)..Len(text) : text[i] \in Chars
  BY <1>1, ElementOfSeq
<1>3. /\ Drop(s, text) \in Seq(Chars)
      /\ Len(Drop(s, text)) = IF Len(Marker(s)) + 1 <= Len(text) THEN Len(text) - (Len(Marker(s)) + 1) + 1 ELSE 0
  BY <1>1, <1>2, SubSeqProperties DEF Drop
<1> QED
  BY <1>1, <1>3, EmptySeq

\* Split solves its equation: each character or marker read leaves less.
LEMMA SplitFixed == \A s \in States, text \in Seq(Chars) : Split[<<s, text>>] = SplitResult(Split, s, text)
<1> DEFINE V == Seq(Tagged)
           m == [p \in Buffers |-> Len(p[2])]
           rec == {p \in Buffers : p[2] # <<>>}
           next == [p \in rec |-> IF IsPrefix(Marker(p[1]), p[2]) THEN <<Other(p[1]), Drop(p[1], p[2])>>
                                  ELSE <<p[1], Tail(p[2])>>]
           base == [p \in Buffers |-> <<>>]
           g == [q \in Buffers \X V |->
                  IF q[1] \in rec /\ ~IsPrefix(Marker(q[1][1]), q[1][2])
                    THEN Emit(q[1][1], <<Head(q[1][2])>>) \o q[2]
                    ELSE q[2]]
<1>1. m \in [Buffers -> Nat]
  BY LenProperties DEF Buffers
<1>2. /\ next \in [rec -> Buffers]
      /\ \A p \in rec : m[next[p]] < m[p]
  <2> SUFFICES ASSUME NEW p \in rec PROVE next[p] \in Buffers /\ m[next[p]] < m[p]
    OBVIOUS
  <2>1. p[1] \in States /\ p[2] \in Seq(Chars) /\ p \in Buffers /\ p[2] # <<>>
    BY DEF Buffers
  <2>2. CASE IsPrefix(Marker(p[1]), p[2])
    <3>1. Other(p[1]) \in States /\ Drop(p[1], p[2]) \in Seq(Chars) /\ Len(Drop(p[1], p[2])) < Len(p[2])
      BY <2>1, <2>2, MarkerType, DropType
    <3>2. next[p] = <<Other(p[1]), Drop(p[1], p[2])>> /\ next[p] \in Buffers
      BY <2>2, <3>1 DEF Buffers
    <3>3. m[next[p]] = Len(Drop(p[1], p[2])) /\ m[p] = Len(p[2])
      BY <2>1, <3>2
    <3> QED
      BY <3>1, <3>2, <3>3
  <2>3. CASE ~IsPrefix(Marker(p[1]), p[2])
    <3>1. Tail(p[2]) \in Seq(Chars) /\ Len(Tail(p[2])) = Len(p[2]) - 1 /\ Len(p[2]) \in Nat
      BY <2>1, HeadTailProperties, LenProperties
    <3>2. next[p] = <<p[1], Tail(p[2])>> /\ next[p] \in Buffers
      BY <2>1, <2>3, <3>1 DEF Buffers
    <3>3. m[next[p]] = Len(Tail(p[2])) /\ m[p] = Len(p[2])
      BY <2>1, <3>2
    <3> QED
      BY <3>1, <3>2, <3>3
  <2> QED
    BY <2>2, <2>3
<1>3. base \in [Buffers -> V]
  BY EmptySeq
<1>4. g \in [Buffers \X V -> V]
  <2> SUFFICES ASSUME NEW q \in Buffers \X V PROVE g[q] \in V
    OBVIOUS
  <2>1. q[1][1] \in States /\ q[1][2] \in Seq(Chars) /\ q[2] \in V
    BY DEF Buffers
  <2>2. CASE q[1] \in rec /\ ~IsPrefix(Marker(q[1][1]), q[1][2])
    <3>1. Head(q[1][2]) \in Chars
      BY <2>1, <2>2, HeadTailProperties
    <3>2. <<Head(q[1][2])>> \in Seq(Chars)
      BY <3>1
    <3>3. Emit(q[1][1], <<Head(q[1][2])>>) \in V
      BY <2>1, <3>2, EmitType
    <3>4. Emit(q[1][1], <<Head(q[1][2])>>) \o q[2] \in V
      BY <2>1, <3>3, ConcatProperties
    <3> QED
      BY <2>2, <3>4
  <2> QED
    BY <2>1, <2>2
<1>5. rec \subseteq Buffers
  OBVIOUS
<1> HIDE DEF V, m, next, base, g, rec
<1>6. PICK F \in [Buffers -> V] : Solves(F, Buffers, rec, next, base, g)
  <2>1. Descends(Buffers, V, m, rec, next, base, g)
    BY <1>1, <1>2, <1>3, <1>4, <1>5 DEF Descends
  <2> QED
    BY <2>1, Recursion
<1>7. \A p \in Buffers : F[p] = SplitResult(F, p[1], p[2])
  <2> SUFFICES ASSUME NEW p \in Buffers PROVE F[p] = SplitResult(F, p[1], p[2])
    OBVIOUS
  <2>1. F[p] = IF p \in rec THEN g[<<p, F[next[p]]>>] ELSE base[p]
    BY <1>6 DEF Solves
  <2>2. CASE p[2] = <<>>
    BY <2>1, <2>2 DEF SplitResult, rec, base
  <2>3. CASE p[2] # <<>>
    <3>1. p \in rec /\ next[p] \in Buffers /\ F[next[p]] \in V
      BY <1>2, <1>6, <2>3 DEF rec
    <3>2. F[p] = g[<<p, F[next[p]]>>]
      BY <2>1, <3>1
    <3>3. g[<<p, F[next[p]]>>] = IF ~IsPrefix(Marker(p[1]), p[2])
                                   THEN Emit(p[1], <<Head(p[2])>>) \o F[next[p]] ELSE F[next[p]]
      BY <3>1 DEF g
    <3> QED
      BY <2>3, <3>1, <3>2, <3>3 DEF SplitResult, next
  <2> QED
    BY <2>2, <2>3
<1>8. F = [p \in Buffers |-> SplitResult(F, p[1], p[2])]
  BY <1>7
<1>9. Split = [p \in Buffers |-> SplitResult(Split, p[1], p[2])]
  BY <1>8, SplitIs, Zenon
<1> QED
  <2> SUFFICES ASSUME NEW s \in States, NEW text \in Seq(Chars)
               PROVE  Split[<<s, text>>] = SplitResult(Split, s, text)
    OBVIOUS
  <2>1. <<s, text>> \in Buffers /\ <<s, text>>[1] = s /\ <<s, text>>[2] = text
    BY DEF Buffers
  <2> QED
    BY <1>9, <2>1, Zenon

\* A split is tagged text.
LEMMA SplitType == ASSUME NEW s \in States, NEW text \in Seq(Chars)
                   PROVE  Split[<<s, text>>] \in Seq(Tagged)
<1> DEFINE P == {p \in Buffers : Split[p] \notin Seq(Tagged)}
           T == {Len(p[2]) : p \in P}
<1>0. \A p \in Buffers : p[1] \in States /\ p[2] \in Seq(Chars) /\ Len(p[2]) \in Nat /\ p = <<p[1], p[2]>>
  BY LenProperties DEF Buffers
<1>1. ASSUME P # {} PROVE FALSE
  <2>1. T \subseteq Nat /\ T # {}
    BY <1>0, <1>1
  <2>2. PICK n \in T : \A k \in T : n <= k
    BY <2>1, Least
  <2>3. PICK p \in P : n = Len(p[2])
    OBVIOUS
  <2>4. \A q \in Buffers : Len(q[2]) < Len(p[2]) => Split[q] \in Seq(Tagged)
    <3>1. \A q \in P : Len(p[2]) <= Len(q[2])
      BY <2>2, <2>3
    <3> QED
      BY <1>0, <3>1
  <2> DEFINE u == p[2]
             r == p[1]
  <2>5. r \in States /\ u \in Seq(Chars) /\ Len(u) \in Nat /\ Split[p] = SplitResult(Split, r, u)
    BY <1>0, SplitFixed
  <2> HIDE DEF u, r
  <2>6. CASE u = <<>>
    BY <2>3, <2>5, <2>6, EmptySeq DEF SplitResult
  <2>7. CASE u # <<>> /\ IsPrefix(Marker(r), u)
    <3>1. Other(r) \in States /\ Drop(r, u) \in Seq(Chars) /\ Len(Drop(r, u)) < Len(u)
      BY <2>5, <2>7, MarkerType, DropType
    <3>2. <<Other(r), Drop(r, u)>> \in Buffers /\ <<Other(r), Drop(r, u)>>[2] = Drop(r, u)
      BY <3>1 DEF Buffers
    <3>3. Split[<<Other(r), Drop(r, u)>>] \in Seq(Tagged)
      BY <2>4, <3>1, <3>2 DEF u
    <3> QED
      BY <2>3, <2>5, <2>7, <3>3 DEF SplitResult
  <2>8. CASE u # <<>> /\ ~IsPrefix(Marker(r), u)
    <3>1. Head(u) \in Chars /\ Tail(u) \in Seq(Chars) /\ Len(Tail(u)) < Len(u)
      BY <2>5, <2>8, HeadTailProperties
    <3>2. <<r, Tail(u)>> \in Buffers /\ <<r, Tail(u)>>[2] = Tail(u)
      BY <2>5, <3>1 DEF Buffers
    <3>3. Split[<<r, Tail(u)>>] \in Seq(Tagged)
      BY <2>4, <3>1, <3>2 DEF u
    <3>4. <<Head(u)>> \in Seq(Chars)
      BY <3>1
    <3>5. Emit(r, <<Head(u)>>) \in Seq(Tagged)
      BY <2>5, <3>4, EmitType
    <3>6. Emit(r, <<Head(u)>>) \o Split[<<r, Tail(u)>>] \in Seq(Tagged)
      BY <3>3, <3>5, ConcatProperties
    <3> QED
      BY <2>3, <2>5, <2>8, <3>6 DEF SplitResult
  <2> QED
    BY <2>6, <2>7, <2>8
<1>2. <<s, text>> \in Buffers
  BY DEF Buffers
<1> QED
  BY <1>1, <1>2

-----------------------------------------------------------------------------
(* Markers in a text, by the characters.                                   *)

\* From place i to the end.
From(t, i) == SubSeq(t, i, Len(t))

\* From, by the characters.
LEMMA FromIs == ASSUME NEW t \in Seq(Chars), NEW i \in 1..(Len(t) + 1)
                PROVE  /\ From(t, i) \in Seq(Chars) /\ Len(t) \in Nat
                       /\ Len(From(t, i)) = Len(t) - i + 1
                       /\ \A j \in 1..(Len(t) - i + 1) : From(t, i)[j] = t[i + j - 1]
<1>1. Len(t) \in Nat /\ \A j \in i..Len(t) : t[j] \in Chars
  BY LenProperties, ElementOfSeq
<1>2. /\ From(t, i) \in Seq(Chars)
      /\ Len(From(t, i)) = IF i <= Len(t) THEN Len(t) - i + 1 ELSE 0
      /\ \A j \in 1..(Len(t) - i + 1) : From(t, i)[j] = t[i + j - 1]
  BY <1>1, SubSeqProperties DEF From
<1> QED
  BY <1>1, <1>2

\* IsPrefix, by the characters.
LEMMA PrefixIs == ASSUME NEW m \in Seq(Chars), NEW t \in Seq(Chars)
                  PROVE  IsPrefix(m, t) <=> Len(m) <= Len(t) /\ \A j \in 1..Len(m) : m[j] = t[j]
<1>1. Len(m) \in Nat /\ Len(t) \in Nat /\ SubSeq(m, 1, Len(m)) = m
  BY LenProperties, SubSeqFull
<1>2. ASSUME Len(m) <= Len(t)
      PROVE  SubSeq(m, 1, Len(m)) = SubSeq(t, 1, Len(m)) <=> \A j \in 1..Len(m) : m[j] = t[j]
  <2>1. /\ SubSeq(t, 1, Len(m)) \in Seq(Chars) /\ Len(SubSeq(t, 1, Len(m))) = Len(m)
        /\ \A j \in 1..Len(m) : SubSeq(t, 1, Len(m))[j] = t[j]
    BY <1>1, <1>2, PrefixType
  <2>2. (\A j \in 1..Len(m) : m[j] = SubSeq(t, 1, Len(m))[j]) => m = SubSeq(t, 1, Len(m))
    BY <2>1, SeqEqual
  <2> QED
    BY <1>1, <2>1, <2>2
<1> QED
  BY <1>2 DEF IsPrefix

\* The marker stands at place i of the text.
Stands(m, t, i) == i + Len(m) - 1 <= Len(t) /\ \A j \in 1..Len(m) : m[j] = t[i + j - 1]

\* Where a marker is a prefix of the rest, it stands.
LEMMA StandsIs == ASSUME NEW m \in Seq(Chars), NEW t \in Seq(Chars), NEW i \in 1..(Len(t) + 1)
                  PROVE  IsPrefix(m, From(t, i)) <=> Stands(m, t, i)
<1>1. Len(m) \in Nat /\ Len(t) \in Nat
  BY LenProperties
<1>2. /\ From(t, i) \in Seq(Chars)
      /\ Len(From(t, i)) = Len(t) - i + 1
      /\ \A j \in 1..(Len(t) - i + 1) : From(t, i)[j] = t[i + j - 1]
  BY FromIs
<1>3. IsPrefix(m, From(t, i)) <=> Len(m) <= Len(t) - i + 1 /\ \A j \in 1..Len(m) : m[j] = From(t, i)[j]
  BY <1>2, PrefixIs
<1> QED
  BY <1>1, <1>2, <1>3 DEF Stands

\* IsSuffix, by the characters.
LEMMA SuffixIs == ASSUME NEW a \in Seq(Chars), NEW t \in Seq(Chars)
                  PROVE  IsSuffix(a, t) <=> /\ Len(a) <= Len(t)
                                            /\ \A j \in 1..Len(a) : a[j] = t[Len(t) - Len(a) + j]
<1>1. Len(a) \in Nat /\ Len(t) \in Nat
  BY LenProperties
<1>2. \A u \in Seq(Chars) : /\ Reverse(u) \in Seq(Chars) /\ Len(Reverse(u)) = Len(u)
                            /\ \A j \in 1..Len(u) : Reverse(u)[j] = u[Len(u) - j + 1]
  <2> SUFFICES ASSUME NEW u \in Seq(Chars)
               PROVE  /\ Reverse(u) \in Seq(Chars) /\ Len(Reverse(u)) = Len(u)
                      /\ \A j \in 1..Len(u) : Reverse(u)[j] = u[Len(u) - j + 1]
    OBVIOUS
  <2> DEFINE r == Reverse(u)
             n == Len(u)
  <2>1. n \in Nat /\ \A j \in 1..n : u[(n - j) + 1] \in Chars
    BY LenProperties, ElementOfSeq
  <2>2. r = [j \in 1..n |-> u[(n - j) + 1]]
    BY DEF Reverse
  <2>3. r \in [1..n -> Chars]
    BY <2>1, <2>2
  <2> HIDE DEF r, n
  <2>4. r \in Seq(Chars) /\ Len(r) = n
    BY <2>1, <2>3
  <2>5. \A j \in 1..n : r[j] = u[n - j + 1]
    BY <2>1, <2>2
  <2> QED
    BY <2>4, <2>5 DEF r, n
<1> DEFINE b == Reverse(a)
           v == Reverse(t)
<1>3. /\ b \in Seq(Chars) /\ Len(b) = Len(a) /\ \A j \in 1..Len(a) : b[j] = a[Len(a) - j + 1]
      /\ v \in Seq(Chars) /\ Len(v) = Len(t) /\ \A j \in 1..Len(t) : v[j] = t[Len(t) - j + 1]
  BY <1>2
<1> HIDE DEF b, v
<1>4. IsPrefix(b, v) <=> Len(a) <= Len(t) /\ \A j \in 1..Len(a) : b[j] = v[j]
  BY <1>3, PrefixIs
<1>5. ASSUME Len(a) <= Len(t)
      PROVE  (\A j \in 1..Len(a) : b[j] = v[j])
             <=> \A j \in 1..Len(a) : a[j] = t[Len(t) - Len(a) + j]
  <2>1. ASSUME \A j \in 1..Len(a) : b[j] = v[j], NEW j \in 1..Len(a)
        PROVE  a[j] = t[Len(t) - Len(a) + j]
    <3> DEFINE k == Len(a) - j + 1
    <3>1. k \in 1..Len(a) /\ k \in 1..Len(t) /\ Len(a) - k + 1 = j /\ Len(t) - k + 1 = Len(t) - Len(a) + j
      BY <1>1, <1>5
    <3> HIDE DEF k
    <3> QED
      BY <1>3, <2>1, <3>1
  <2>2. ASSUME \A j \in 1..Len(a) : a[j] = t[Len(t) - Len(a) + j], NEW j \in 1..Len(a)
        PROVE  b[j] = v[j]
    <3> DEFINE k == Len(a) - j + 1
    <3>1. k \in 1..Len(a) /\ j \in 1..Len(t) /\ Len(t) - Len(a) + k = Len(t) - j + 1
      BY <1>1, <1>5
    <3>2. b[j] = a[k] /\ v[j] = t[Len(t) - j + 1]
      BY <1>3, <3>1
    <3> HIDE DEF k
    <3> QED
      BY <2>2, <3>1, <3>2
  <2> QED
    BY <2>1, <2>2
<1>6. IsSuffix(a, t) <=> IsPrefix(b, v)
  BY DEF IsSuffix, b, v
<1> QED
  BY <1>4, <1>5, <1>6

\* Text emitted in two pieces is text emitted in one.
LEMMA EmitConcat == ASSUME NEW s \in States, NEW a \in Seq(Chars), NEW b \in Seq(Chars)
                    PROVE  Emit(s, a \o b) = Emit(s, a) \o Emit(s, b)
<1>1. a \o b \in Seq(Chars) /\ Len(a \o b) = Len(a) + Len(b)
      /\ \A i \in 1..(Len(a) + Len(b)) : (a \o b)[i] = IF i <= Len(a) THEN a[i] ELSE b[i - Len(a)]
  BY ConcatProperties
<1> DEFINE x == Emit(s, a)
           y == Emit(s, b)
           z == Emit(s, a \o b)
<1>2. /\ x \in Seq(Tagged) /\ Len(x) = Len(a) /\ \A i \in 1..Len(a) : x[i] = [in |-> s, char |-> a[i]]
      /\ y \in Seq(Tagged) /\ Len(y) = Len(b) /\ \A i \in 1..Len(b) : y[i] = [in |-> s, char |-> b[i]]
  BY EmitType
<1>3. /\ z \in Seq(Tagged) /\ Len(z) = Len(a) + Len(b)
      /\ \A i \in 1..(Len(a) + Len(b)) : z[i] = [in |-> s, char |-> (a \o b)[i]]
  BY <1>1, EmitType
<1>4. Len(a) \in Nat /\ Len(b) \in Nat
  BY LenProperties
<1> HIDE DEF x, y, z
<1>5. /\ x \o y \in Seq(Tagged) /\ Len(x \o y) = Len(a) + Len(b)
      /\ \A i \in 1..(Len(a) + Len(b)) : (x \o y)[i] = IF i <= Len(a) THEN x[i] ELSE y[i - Len(a)]
  <2>1. /\ x \o y \in Seq(Tagged) /\ Len(x \o y) = Len(x) + Len(y)
        /\ \A i \in 1..(Len(x) + Len(y)) : (x \o y)[i] = IF i <= Len(x) THEN x[i] ELSE y[i - Len(x)]
    <3>1. x \in Seq(Tagged) /\ y \in Seq(Tagged)
      BY <1>2
    <3> QED
      BY <3>1, ConcatProperties
  <2> QED
    BY <1>2, <2>1
<1>6. \A i \in 1..(Len(a) + Len(b)) : z[i] = (x \o y)[i]
  <2> SUFFICES ASSUME NEW i \in 1..(Len(a) + Len(b)) PROVE z[i] = (x \o y)[i]
    OBVIOUS
  <2>1. CASE i <= Len(a)
    BY <1>1, <1>2, <1>3, <1>4, <1>5, <2>1
  <2>2. CASE i > Len(a)
    <3>1. i - Len(a) \in 1..Len(b)
      BY <1>4, <2>2
    <3>2. ~(i <= Len(a))
      BY <1>4, <2>2
    <3>3. (x \o y)[i] = y[i - Len(a)] /\ (a \o b)[i] = b[i - Len(a)]
      BY <1>1, <1>5, <3>2
    <3> QED
      BY <1>2, <1>3, <3>1, <3>3
  <2>3. i <= Len(a) \/ i > Len(a)
    BY <1>4
  <2> QED
    BY <2>1, <2>2, <2>3
<1>7. z = x \o y
  BY <1>3, <1>5, <1>6, SeqEqual
<1> QED
  BY <1>7 DEF x, y, z

\* No text, no output.
LEMMA EmitNothing == ASSUME NEW s \in States
                     PROVE  Emit(s, <<>>) = <<>> /\ \A t \in Seq(Tagged) : <<>> \o t = t /\ t \o <<>> = t
<1>1. Emit(s, <<>>) \in Seq(Tagged) /\ Len(Emit(s, <<>>)) = 0
  BY EmptySeq, EmitType
<1> QED
  BY <1>1, EmptySeq, ConcatEmptySeq

\* In which order output is put together makes no difference.
LEMMA TaggedAssociates == ASSUME NEW x \in Seq(Tagged), NEW y \in Seq(Tagged), NEW z \in Seq(Tagged)
                          PROVE  x \o (y \o z) = (x \o y) \o z
  BY ConcatAssociative, SMTT(20)

\* Text with no marker at its first k places is emitted as it is.
LEMMA Skip ==
  ASSUME NEW s \in States, NEW t \in Seq(Chars), NEW k \in 0..Len(t),
         \A i \in 1..k : ~Stands(Marker(s), t, i)
  PROVE  Split[<<s, t>>] = Emit(s, SubSeq(t, 1, k)) \o Split[<<s, From(t, k + 1)>>]
<1> DEFINE Holds(n) == Split[<<s, t>>] = Emit(s, SubSeq(t, 1, n)) \o Split[<<s, From(t, n + 1)>>]
           T == {n \in 0..k : ~Holds(n)}
<1>1. Len(t) \in Nat /\ Marker(s) \in Seq(Chars)
  BY LenProperties, MarkerType
<1>2. Holds(0)
  <2>1. SubSeq(t, 1, 0) = <<>> /\ From(t, 0 + 1) = t
    BY SubSeqEmpty, SubSeqFull DEF From
  <2>2. Split[<<s, t>>] \in Seq(Tagged)
    BY SplitType
  <2>3. Emit(s, <<>>) = <<>> /\ <<>> \o Split[<<s, t>>] = Split[<<s, t>>]
    BY <2>2, EmitNothing
  <2> QED
    BY <2>1, <2>3
<1>3. ASSUME NEW n \in 1..k, Holds(n - 1) PROVE Holds(n)
  <2> DEFINE u == From(t, n)
             v == From(t, n + 1)
             c == t[n]
             w == SubSeq(t, 1, n - 1)
  <2>1. n \in 1..Len(t) /\ n + 1 \in 1..(Len(t) + 1) /\ n \in 1..(Len(t) + 1) /\ n - 1 \in 0..Len(t)
    BY <1>1
  <2>2. u \in Seq(Chars) /\ Len(u) = Len(t) - n + 1 /\ v \in Seq(Chars) /\ c \in Chars
    BY <2>1, FromIs, ElementOfSeq
  <2>3. Head(u) = c /\ Tail(u) = v
    BY <1>1, <2>1, HeadTailOfSubSeq DEF From
  <2>4. u # <<>>
    BY <1>1, <2>1, <2>2, EmptySeq
  <2>5. ~IsPrefix(Marker(s), u)
    BY <1>1, <2>1, StandsIs
  <2>6. Split[<<s, u>>] = Emit(s, <<c>>) \o Split[<<s, v>>]
    <3>1. Split[<<s, u>>] = SplitResult(Split, s, u)
      BY <2>2, SplitFixed
    <3> HIDE DEF u, v, c
    <3> QED
      BY <2>3, <2>4, <2>5, <3>1 DEF SplitResult
  <2>7. SubSeq(t, 1, n) = w \o <<c>>
    BY <1>1, <2>1, SubSeqRecursiveSecond
  <2>8. w \in Seq(Chars) /\ <<c>> \in Seq(Chars)
    BY <2>1, <2>2, PrefixType
  <2>9. Split[<<s, t>>] = Emit(s, w) \o Split[<<s, u>>]
    <3>1. (n - 1) + 1 = n
      BY <1>1
    <3> QED
      BY <1>3, <3>1
  <2> HIDE DEF u, v, w, c
  <2>10. Emit(s, w) \in Seq(Tagged) /\ Emit(s, <<c>>) \in Seq(Tagged) /\ Split[<<s, v>>] \in Seq(Tagged)
    BY <2>2, <2>8, EmitType, SplitType
  <2>11. Emit(s, w) \o (Emit(s, <<c>>) \o Split[<<s, v>>]) = (Emit(s, w) \o Emit(s, <<c>>)) \o Split[<<s, v>>]
    BY <2>10, TaggedAssociates
  <2>12. Emit(s, w \o <<c>>) = Emit(s, w) \o Emit(s, <<c>>)
    BY <2>8, EmitConcat
  <2> QED
    BY <2>6, <2>7, <2>9, <2>11, <2>12 DEF v
<1> HIDE DEF Holds
<1>4. ASSUME T # {} PROVE FALSE
  <2>1. T \subseteq Nat
    BY <1>1
  <2>2. PICK n \in T : \A j \in T : n <= j
    BY <1>4, <2>1, Least
  <2>3. n \in 0..k /\ ~Holds(n) /\ n # 0
    BY <1>2, <2>2
  <2>4. n - 1 \in 0..k /\ n \in 1..k /\ n - 1 \notin T
    BY <1>1, <2>2, <2>3
  <2> QED
    BY <1>3, <2>3, <2>4
<1>5. k \in 0..k
  BY <1>1
<1> QED
  BY <1>4, <1>5 DEF Holds

\* What starts a marker and is not all of it is text while nothing follows.
LEMMA HeldIsText == ASSUME NEW s \in States, NEW h \in Seq(Chars), Len(h) < Len(Marker(s))
                    PROVE  Split[<<s, h>>] = Emit(s, h)
<1>1. Len(h) \in Nat /\ Len(Marker(s)) \in Nat
  BY LenProperties, MarkerType
<1>2. \A i \in 1..Len(h) : ~Stands(Marker(s), h, i)
  BY <1>1 DEF Stands
<1>3. Split[<<s, h>>] = Emit(s, SubSeq(h, 1, Len(h))) \o Split[<<s, From(h, Len(h) + 1)>>]
  <2>1. Len(h) \in 0..Len(h)
    BY <1>1
  <2> QED
    BY <1>2, <2>1, Skip
<1>4. SubSeq(h, 1, Len(h)) = h /\ From(h, Len(h) + 1) = <<>>
  BY <1>1, SubSeqFull, SubSeqEmpty DEF From
<1>5. Split[<<s, <<>> >>] = <<>>
  BY EmptySeq, SplitFixed DEF SplitResult
<1>6. Emit(s, h) \in Seq(Tagged)
  BY EmitType
<1>7. Emit(s, h) \o <<>> = Emit(s, h)
  BY <1>6, EmitNothing
<1> QED
  BY <1>3, <1>4, <1>5, <1>7

\* The text of a buffer and of what follows it.
LEMMA JoinIs == ASSUME NEW a \in Seq(Chars), NEW b \in Seq(Chars)
                PROVE  /\ a \o b \in Seq(Chars) /\ Len(a \o b) = Len(a) + Len(b)
                       /\ Len(a) \in Nat /\ Len(b) \in Nat
                       /\ \A i \in 1..Len(a) : (a \o b)[i] = a[i]
                       /\ \A i \in 1..Len(b) : (a \o b)[Len(a) + i] = b[i]
                       /\ \A k \in 0..Len(a) : SubSeq(a \o b, 1, k) = SubSeq(a, 1, k)
                       /\ \A k \in 1..(Len(a) + 1) : From(a \o b, k) = From(a, k) \o b
<1>1. Len(a) \in Nat /\ Len(b) \in Nat
  BY LenProperties
<1>2. a \o b \in Seq(Chars) /\ Len(a \o b) = Len(a) + Len(b)
  BY ConcatProperties
<1>3. \A i \in 1..(Len(a) + Len(b)) : (a \o b)[i] = IF i <= Len(a) THEN a[i] ELSE b[i - Len(a)]
  BY ConcatProperties
<1>4. \A i \in 1..Len(a) : (a \o b)[i] = a[i]
  BY <1>1, <1>3
<1>5. \A i \in 1..Len(b) : (a \o b)[Len(a) + i] = b[i]
  <2> SUFFICES ASSUME NEW i \in 1..Len(b) PROVE (a \o b)[Len(a) + i] = b[i]
    OBVIOUS
  <2>1. Len(a) + i \in 1..(Len(a) + Len(b)) /\ ~(Len(a) + i <= Len(a)) /\ Len(a) + i - Len(a) = i
    BY <1>1
  <2> QED
    BY <1>3, <2>1
<1> DEFINE t == a \o b
<1>6. ASSUME NEW k \in 0..Len(a) PROVE SubSeq(t, 1, k) = SubSeq(a, 1, k)
  <2>1. k \in 0..Len(t)
    BY <1>1, <1>2
  <2>2. /\ SubSeq(t, 1, k) \in Seq(Chars) /\ Len(SubSeq(t, 1, k)) = k
        /\ \A i \in 1..k : SubSeq(t, 1, k)[i] = t[i]
    BY <1>2, <2>1, PrefixType
  <2>3. /\ SubSeq(a, 1, k) \in Seq(Chars) /\ Len(SubSeq(a, 1, k)) = k
        /\ \A i \in 1..k : SubSeq(a, 1, k)[i] = a[i]
    BY PrefixType
  <2>4. \A i \in 1..k : t[i] = a[i]
    BY <1>1, <1>4
  <2> HIDE DEF t
  <2> QED
    BY <2>2, <2>3, <2>4, SeqEqual
<1>7. ASSUME NEW k \in 1..(Len(a) + 1) PROVE From(t, k) = From(a, k) \o b
  <2> DEFINE x == From(t, k)
             y == From(a, k)
             n == Len(a) - k + 1
  <2>1. k \in 1..(Len(t) + 1) /\ n \in Nat /\ Len(t) - k + 1 = n + Len(b)
    BY <1>1, <1>2
  <2>2. x \in Seq(Chars) /\ Len(x) = n + Len(b) /\ \A j \in 1..(n + Len(b)) : x[j] = t[k + j - 1]
    BY <1>2, <2>1, FromIs
  <2>3. y \in Seq(Chars) /\ Len(y) = n /\ \A j \in 1..n : y[j] = a[k + j - 1]
    BY FromIs
  <2> HIDE DEF x, y, n, t
  <2>4. y \o b \in Seq(Chars) /\ Len(y \o b) = Len(y) + Len(b)
    BY <2>3, ConcatProperties
  <2>5. \A j \in 1..(Len(y) + Len(b)) : (y \o b)[j] = IF j <= Len(y) THEN y[j] ELSE b[j - Len(y)]
    BY <2>3, ConcatProperties
  <2>6. ASSUME NEW j \in 1..(n + Len(b)) PROVE x[j] = (y \o b)[j]
    <3>1. CASE j <= n
      <4>1. j \in 1..n /\ k + j - 1 \in 1..Len(a)
        BY <1>1, <2>1, <3>1 DEF n
      <4>2. (y \o b)[j] = y[j]
        BY <2>3, <2>5, <3>1
      <4> QED
        BY <1>4, <2>2, <2>3, <4>1, <4>2 DEF t
    <3>2. CASE j > n
      <4>1. j - n \in 1..Len(b) /\ Len(a) + (j - n) = k + j - 1 /\ ~(j <= n)
        BY <1>1, <2>1, <3>2 DEF n
      <4>2. (y \o b)[j] = b[j - n]
        BY <2>3, <2>5, <4>1
      <4>3. t[Len(a) + (j - n)] = b[j - n]
        BY <1>5, <4>1 DEF t
      <4> QED
        BY <2>2, <4>1, <4>2, <4>3
    <3>3. j <= n \/ j > n
      BY <1>1, <2>1
    <3> QED
      BY <3>1, <3>2, <3>3
  <2>7. x = y \o b
    <3>1. Len(y \o b) = n + Len(b)
      BY <2>3, <2>4
    <3> QED
      BY <2>2, <2>4, <2>6, <3>1, SeqEqual
  <2> QED
    BY <2>7 DEF x, y
<1> QED
  BY <1>1, <1>2, <1>4, <1>5, <1>6, <1>7

-----------------------------------------------------------------------------
(* What the loop of push leaves, and what it keeps.                        *)

\* Whatever follows the buffer, its split is what the loop put out, then that
\* of what the loop held with what follows.
Sound(s, buf) ==
  LET after == Loop[<<s, buf>>]
  IN /\ after \in Outcomes
     /\ Len(after.held) < Len(Marker(after.state)) /\ IsPrefix(after.held, Marker(after.state))
     /\ \A c \in Seq(Chars) :
          Split[<<s, buf \o c>>] = after.out \o Split[<<after.state, after.held \o c>>]

\* No marker in the buffer: the tail that may be one is kept, for what comes.
LEMMA LoopStops == ASSUME NEW s \in States, NEW buf \in Seq(Chars), Found(s, buf) = {}
                   PROVE  Sound(s, buf)
<1> DEFINE m == Marker(s)
           p == PartialSuffix(buf, m)
           k == Cut(s, buf)
           n == Len(buf)
           h == From(buf, k + 1)
           out == Emit(s, SubSeq(buf, 1, k))
           after == Loop[<<s, buf>>]
<1>1. m \in Seq(Chars) /\ Len(m) \in Nat \ {0} /\ n \in Nat
  BY MarkerType, LenProperties
<1>2. /\ p \in 0..n /\ p < Len(m) /\ k = n - p /\ k \in 0..n
      /\ p # 0 => p \in Partials(buf, m)
      /\ \A j \in Partials(buf, m) : j <= p
  BY CutAt DEF Cut
<1>3. after = [state |-> s, held |-> h, out |-> out]
  BY LoopFixed DEF LoopResult, From
<1> HIDE DEF m, p, k, n, after
<1>4. /\ h \in Seq(Chars) /\ Len(h) = p /\ \A j \in 1..p : h[j] = buf[k + j]
      /\ SubSeq(buf, 1, k) \in Seq(Chars) /\ out \in Seq(Tagged)
  <2>1. k + 1 \in 1..(Len(buf) + 1) /\ n - (k + 1) + 1 = p /\ k \in 0..Len(buf)
    BY <1>1, <1>2 DEF n
  <2>2. h \in Seq(Chars) /\ Len(h) = p
    BY <2>1, FromIs DEF n
  <2>3. \A j \in 1..p : h[j] = buf[k + 1 + j - 1]
    BY <2>1, FromIs DEF n
  <2>4. \A j \in 1..p : k + 1 + j - 1 = k + j
    BY <2>1, <1>1, <1>2
  <2>5. SubSeq(buf, 1, k) \in Seq(Chars)
    BY <2>1, PrefixType
  <2> QED
    BY <2>2, <2>3, <2>4, <2>5, EmitType
<1>5. after \in Outcomes
  BY <1>3, <1>4 DEF Outcomes
<1>6. IsPrefix(h, m)
  <2>1. CASE p = 0
    BY <1>1, <1>4, <2>1, PrefixIs
  <2>2. CASE p # 0
    <3>1. IsSuffix(SubSeq(m, 1, p), buf)
      BY <1>2, <2>2 DEF Partials
    <3>2. /\ SubSeq(m, 1, p) \in Seq(Chars) /\ Len(SubSeq(m, 1, p)) = p
          /\ \A j \in 1..p : SubSeq(m, 1, p)[j] = m[j]
      BY <1>1, <1>2, PrefixType
    <3>3. \A j \in 1..p : SubSeq(m, 1, p)[j] = buf[n - p + j]
      <4>1. \A j \in 1..Len(SubSeq(m, 1, p)) :
              SubSeq(m, 1, p)[j] = buf[Len(buf) - Len(SubSeq(m, 1, p)) + j]
        BY <3>1, <3>2, SuffixIs
      <4> QED
        BY <3>2, <4>1 DEF n
    <3>4. \A j \in 1..p : h[j] = m[j]
      BY <1>2, <1>4, <3>2, <3>3
    <3> QED
      BY <1>1, <1>2, <1>4, <3>4, PrefixIs
  <2> QED
    BY <2>1, <2>2
<1>7. ASSUME NEW c \in Seq(Chars) PROVE Split[<<s, buf \o c>>] = out \o Split[<<s, h \o c>>]
  <2> DEFINE t == buf \o c
  <2>1. /\ t \in Seq(Chars) /\ Len(t) = n + Len(c) /\ Len(c) \in Nat
        /\ \A i \in 1..n : t[i] = buf[i]
        /\ SubSeq(t, 1, k) = SubSeq(buf, 1, k)
        /\ From(t, k + 1) = h \o c
    <3>1. k + 1 \in 1..(Len(buf) + 1)
      BY <1>1, <1>2 DEF n
    <3> QED
      BY <1>2, <3>1, JoinIs DEF n
  <2> HIDE DEF t
  <2>2. ASSUME NEW i \in 1..k, Stands(m, t, i) PROVE FALSE
    <3>0. i \in 1..n /\ i \in 1..(Len(buf) + 1)
      BY <1>1, <1>2 DEF n
    <3>1. CASE i + Len(m) - 1 <= n
      <4>1. \A j \in 1..Len(m) : i + j - 1 \in 1..n
        BY <1>1, <1>2, <3>0, <3>1
      <4>2. \A j \in 1..Len(m) : m[j] = buf[i + j - 1]
        BY <2>1, <2>2, <4>1 DEF Stands
      <4>3. Stands(m, buf, i)
        BY <3>1, <4>2 DEF Stands, n
      <4>4. IsPrefix(m, From(buf, i))
        BY <1>1, <3>0, <4>3, StandsIs
      <4>5. i \in Found(s, buf)
        BY <3>0, <4>4 DEF Found, Occurrences, From, m, n
      <4> QED
        BY <4>5
    <3>2. CASE i + Len(m) - 1 > n
      <4> DEFINE q == n - i + 1
      <4>1. q \in 1..n /\ q < Len(m) /\ q \in 0..Len(m) /\ q > p
        BY <1>1, <1>2, <3>0, <3>2
      <4>2. \A j \in 1..q : j \in 1..Len(m) /\ i + j - 1 \in 1..n /\ n - q + j = i + j - 1
        BY <1>1, <3>0, <4>1
      <4>3. /\ SubSeq(m, 1, q) \in Seq(Chars) /\ Len(SubSeq(m, 1, q)) = q
            /\ \A j \in 1..q : SubSeq(m, 1, q)[j] = m[j]
        BY <1>1, <4>1, PrefixType
      <4> HIDE DEF q
      <4>4. \A j \in 1..q : m[j] = buf[n - q + j]
        BY <2>1, <2>2, <4>2 DEF Stands
      <4>5. IsSuffix(SubSeq(m, 1, q), buf)
        <5>1. q <= Len(buf) /\ \A j \in 1..q : SubSeq(m, 1, q)[j] = buf[Len(buf) - q + j]
          BY <1>1, <4>1, <4>3, <4>4 DEF n
        <5> QED
          BY <4>3, <5>1, SuffixIs
      <4>6. q \in Partials(buf, m)
        BY <4>1, <4>5 DEF Partials, n
      <4>7. q <= p /\ q \in Nat /\ p \in Nat
        BY <1>1, <1>2, <4>1, <4>6
      <4> QED
        BY <4>1, <4>7
    <3> QED
      BY <1>1, <3>0, <3>1, <3>2
  <2>3. k \in 0..Len(t)
    BY <1>1, <1>2, <2>1
  <2>4. Split[<<s, t>>] = Emit(s, SubSeq(t, 1, k)) \o Split[<<s, From(t, k + 1)>>]
    BY <2>1, <2>2, <2>3, Skip DEF m
  <2> QED
    BY <2>1, <2>4 DEF t
<1> HIDE DEF h, out
<1>8. after.state = s /\ after.held = h /\ after.out = out
  BY <1>3
<1>9. Len(after.held) < Len(Marker(after.state)) /\ IsPrefix(after.held, Marker(after.state))
  BY <1>2, <1>4, <1>6, <1>8 DEF m
<1>10. \A c \in Seq(Chars) :
         Split[<<s, buf \o c>>] = after.out \o Split[<<after.state, after.held \o c>>]
  BY <1>7, <1>8
<1> QED
  BY <1>5, <1>9, <1>10 DEF Sound, after

\* A marker in the buffer: the loop goes on behind it, in the other state.
LEMMA LoopGoesOn == ASSUME NEW s \in States, NEW buf \in Seq(Chars), Found(s, buf) # {},
                           Sound(Other(s), After(s, buf))
                    PROVE  Sound(s, buf)
<1> DEFINE m == Marker(s)
           a == At(s, buf)
           o == Other(s)
           d == After(s, buf)
           n == Len(buf)
           x == Emit(s, SubSeq(buf, 1, a - 1))
           rest == Loop[<<o, d>>]
           after == Loop[<<s, buf>>]
<1>1. m \in Seq(Chars) /\ Len(m) \in Nat \ {0} /\ n \in Nat /\ o \in States
  BY MarkerType, LenProperties
<1>2. /\ a \in 1..n /\ a + Len(m) - 1 <= n /\ IsPrefix(m, From(buf, a))
      /\ \A i \in 1..(a - 1) : ~IsPrefix(m, From(buf, i))
      /\ d \in Seq(Chars) /\ d = From(buf, a + Len(m))
  BY FoundAt DEF From, After
<1>3. after = [state |-> rest.state, held |-> rest.held, out |-> x \o rest.out]
  BY LoopFixed DEF LoopResult
<1>4. /\ rest \in Outcomes /\ Len(rest.held) < Len(Marker(rest.state)) /\ IsPrefix(rest.held, Marker(rest.state))
      /\ \A c \in Seq(Chars) : Split[<<o, d \o c>>] = rest.out \o Split[<<rest.state, rest.held \o c>>]
  BY DEF Sound
<1>5. SubSeq(buf, 1, a - 1) \in Seq(Chars) /\ x \in Seq(Tagged) /\ a - 1 \in 0..n
  <2>1. a - 1 \in 0..n
    BY <1>1, <1>2
  <2>2. SubSeq(buf, 1, a - 1) \in Seq(Chars)
    BY <2>1, PrefixType
  <2> QED
    BY <2>1, <2>2, EmitType
<1> HIDE DEF m, a, o, d, n, x, rest, after
<1>6. rest.state \in States /\ rest.held \in Seq(Chars) /\ rest.out \in Seq(Tagged)
  BY <1>4 DEF Outcomes
<1>7. after \in Outcomes
  <2>1. x \o rest.out \in Seq(Tagged)
    BY <1>5, <1>6, ConcatProperties
  <2> QED
    BY <1>3, <1>6, <2>1 DEF Outcomes
<1>8. ASSUME NEW c \in Seq(Chars)
      PROVE  Split[<<s, buf \o c>>] = (x \o rest.out) \o Split[<<rest.state, rest.held \o c>>]
  <2> DEFINE t == buf \o c
             u == From(t, a)
  <2>1. /\ t \in Seq(Chars) /\ Len(t) = n + Len(c) /\ Len(c) \in Nat
        /\ \A i \in 1..n : t[i] = buf[i]
        /\ SubSeq(t, 1, a - 1) = SubSeq(buf, 1, a - 1)
        /\ u = From(buf, a) \o c
        /\ From(t, a + Len(m)) = d \o c
    <3>1. a \in 1..(Len(buf) + 1) /\ a + Len(m) \in 1..(Len(buf) + 1) /\ a - 1 \in 0..Len(buf)
      BY <1>1, <1>2 DEF n
    <3> QED
      BY <1>2, <3>1, JoinIs, ZenonT(30) DEF n
  <2> HIDE DEF t
  <2>2. \A i \in 1..a : i + Len(m) - 1 <= n /\ \A j \in 1..Len(m) : i + j - 1 \in 1..n
    BY <1>1, <1>2
  <2>3. \A i \in 1..a : Stands(m, t, i) <=> Stands(m, buf, i)
    <3> SUFFICES ASSUME NEW i \in 1..a PROVE Stands(m, t, i) <=> Stands(m, buf, i)
      OBVIOUS
    <3>1. i + Len(m) - 1 <= Len(t) /\ i + Len(m) - 1 <= Len(buf)
      BY <1>1, <1>2, <2>1, <2>2 DEF n
    <3>2. \A j \in 1..Len(m) : t[i + j - 1] = buf[i + j - 1]
      BY <2>1, <2>2
    <3> QED
      BY <3>1, <3>2 DEF Stands
  <2>4. \A i \in 1..a : IsPrefix(m, From(buf, i)) <=> Stands(m, buf, i)
    <3>1. \A i \in 1..a : i \in 1..(Len(buf) + 1)
      BY <1>1, <1>2 DEF n
    <3> QED
      BY <1>1, <3>1, StandsIs
  <2>5. \A i \in 1..(a - 1) : ~Stands(m, t, i)
    <3>1. \A i \in 1..(a - 1) : i \in 1..a
      BY <1>1, <1>2
    <3> QED
      BY <1>2, <2>3, <2>4, <3>1
  <2>6. a - 1 \in 0..Len(t) /\ (a - 1) + 1 = a
    BY <1>1, <1>2, <2>1
  <2>7. Split[<<s, t>>] = Emit(s, SubSeq(t, 1, a - 1)) \o Split[<<s, u>>]
    <3>1. Split[<<s, t>>] = Emit(s, SubSeq(t, 1, a - 1)) \o Split[<<s, From(t, (a - 1) + 1)>>]
      BY <2>1, <2>5, <2>6, Skip DEF m
    <3> QED
      BY <2>6, <3>1
  <2>8. u \in Seq(Chars) /\ Len(u) = Len(t) - a + 1 /\ a \in 1..(Len(t) + 1)
    <3>1. a \in 1..(Len(t) + 1)
      BY <1>1, <1>2, <2>1
    <3> QED
      BY <2>1, <3>1, FromIs
  <2>9. IsPrefix(m, u)
    <3>1. a \in 1..a
      BY <1>2
    <3>2. Stands(m, t, a)
      BY <1>2, <2>3, <2>4, <3>1
    <3> QED
      BY <1>1, <2>1, <2>8, <3>2, StandsIs
  <2>10. u # <<>> /\ Drop(s, u) = d \o c
    <3>1. u # <<>>
      BY <2>8, <2>9, DropType DEF m
    <3>2. SubSeq(u, Len(m) + 1, Len(u)) = SubSeq(t, a + Len(m), Len(t))
      <4> DEFINE l == SubSeq(u, Len(m) + 1, Len(u))
                 r == SubSeq(t, a + Len(m), Len(t))
                 z == Len(t) - (a + Len(m)) + 1
      <4>1. /\ Len(t) \in Nat /\ Len(m) + 1 \in 1..(Len(u) + 1) /\ a + Len(m) \in 1..(Len(t) + 1)
            /\ Len(u) - (Len(m) + 1) + 1 = z /\ z \in Nat
            /\ \A j \in 1..z : Len(m) + 1 + j - 1 \in 1..(Len(t) - a + 1)
            /\ \A j \in 1..z : a + (Len(m) + 1 + j - 1) - 1 = a + Len(m) + j - 1
        BY <1>1, <1>2, <2>1, <2>8, SMTT(20)
      <4>2. l \in Seq(Chars) /\ Len(l) = z /\ \A j \in 1..z : l[j] = u[Len(m) + 1 + j - 1]
        <5>1. l = From(u, Len(m) + 1)
          BY DEF From
        <5> HIDE DEF u, l, z
        <5> QED
          BY <2>8, <4>1, <5>1, FromIs
      <4>3. r \in Seq(Chars) /\ Len(r) = z /\ \A j \in 1..z : r[j] = t[a + Len(m) + j - 1]
        <5>1. r = From(t, a + Len(m))
          BY DEF From
        <5> HIDE DEF r
        <5> QED
          BY <2>1, <4>1, <5>1, FromIs
      <4>4. \A j \in 1..(Len(t) - a + 1) : u[j] = t[a + j - 1]
        BY <2>1, <2>8, FromIs
      <4> HIDE DEF l, r, u, z
      <4>5. \A j \in 1..z : l[j] = r[j]
        BY <4>1, <4>2, <4>3, <4>4
      <4>6. l = r
        BY <4>2, <4>3, <4>5, SeqEqual
      <4> QED
        BY <4>6 DEF l, r
    <3> QED
      BY <2>1, <3>1, <3>2 DEF Drop, From, m
  <2> HIDE DEF u
  <2>11. Split[<<s, u>>] = Split[<<o, d \o c>>]
    <3>1. Split[<<s, u>>] = SplitResult(Split, s, u)
      BY <2>8, SplitFixed
    <3> QED
      BY <2>9, <2>10, <3>1 DEF SplitResult, m, o
  <2>12. Split[<<o, d \o c>>] = rest.out \o Split[<<rest.state, rest.held \o c>>]
    BY <1>4
  <2>13. Split[<<rest.state, rest.held \o c>>] \in Seq(Tagged)
    <3>1. rest.held \o c \in Seq(Chars)
      BY <1>6, JoinIs
    <3> QED
      BY <1>6, <3>1, SplitType
  <2>14. x \o (rest.out \o Split[<<rest.state, rest.held \o c>>])
         = (x \o rest.out) \o Split[<<rest.state, rest.held \o c>>]
    BY <1>5, <1>6, <2>13, TaggedAssociates
  <2>15. Split[<<s, t>>] = x \o Split[<<s, u>>]
    BY <2>1, <2>7 DEF x
  <2> QED
    BY <2>11, <2>12, <2>14, <2>15 DEF t
<1>9. after.state = rest.state /\ after.held = rest.held /\ after.out = x \o rest.out
  BY <1>3
<1>10. Len(after.held) < Len(Marker(after.state)) /\ IsPrefix(after.held, Marker(after.state))
  BY <1>4, <1>9
<1>11. \A c \in Seq(Chars) :
         Split[<<s, buf \o c>>] = after.out \o Split[<<after.state, after.held \o c>>]
  BY <1>8, <1>9
<1> QED
  BY <1>7, <1>10, <1>11 DEF Sound, after

\* The loop is sound for every buffer: take a shortest for which it is not.
LEMMA LoopSound == ASSUME NEW s \in States, NEW buf \in Seq(Chars) PROVE Sound(s, buf)
<1> DEFINE P == {p \in Buffers : ~Sound(p[1], p[2])}
           T == {Len(p[2]) : p \in P}
<1>0. \A p \in Buffers : p[1] \in States /\ p[2] \in Seq(Chars) /\ Len(p[2]) \in Nat
  BY LenProperties DEF Buffers
<1>1. ASSUME P # {} PROVE FALSE
  <2>1. T \subseteq Nat /\ T # {}
    BY <1>0, <1>1
  <2>2. PICK n \in T : \A k \in T : n <= k
    BY <2>1, Least
  <2>3. PICK p \in P : n = Len(p[2])
    OBVIOUS
  <2>4. \A q \in P : Len(p[2]) <= Len(q[2])
    BY <2>2, <2>3
  <2>5. p[1] \in States /\ p[2] \in Seq(Chars) /\ Len(p[2]) \in Nat /\ ~Sound(p[1], p[2])
    BY <1>0, <2>3
  <2>6. Found(p[1], p[2]) # {}
    BY <2>5, LoopStops
  <2> DEFINE o == Other(p[1])
             d == After(p[1], p[2])
  <2>7. o \in States /\ d \in Seq(Chars) /\ Len(d) < Len(p[2]) /\ Len(d) \in Nat
    BY <2>5, <2>6, MarkerType, FoundAt, LenProperties
  <2> HIDE DEF o, d
  <2>8. <<o, d>> \in Buffers /\ <<o, d>>[1] = o /\ <<o, d>>[2] = d
    BY <2>7 DEF Buffers
  <2>9. Sound(o, d)
    <3>1. <<o, d>> \notin P
      BY <2>4, <2>5, <2>7, <2>8
    <3> QED
      BY <2>8, <3>1
  <2> QED
    BY <2>5, <2>6, <2>9, LoopGoesOn DEF o, d
<1>2. <<s, buf>> \in Buffers /\ <<s, buf>>[1] = s /\ <<s, buf>>[2] = buf
  BY DEF Buffers
<1> QED
  BY <1>1, <1>2

-----------------------------------------------------------------------------
(* The parser.                                                             *)

\* Whatever comes next: what was emitted, and what will be made of the held
\* tail with it, is what the whole input means with it.
Resumes ==
  \A c \in Seq(Chars) : Split[<<First, input \o c>>] = emitted \o Split[<<state, held \o c>>]

\* Without markers nothing is held; with them the tail is a start of one.
\* Once finished, the input is all there is.
IInv ==
  /\ TypeOK
  /\ opened => markers
  /\ ~markers => held = <<>> /\ emitted = Emit("text", input)
  /\ markers /\ ~finished =>
       Len(held) < Len(Marker(state)) /\ IsPrefix(held, Marker(state)) /\ Resumes
  /\ markers /\ finished => emitted = Split[<<First, input>>]

\* Where the parser starts is a state.
LEMMA FirstType == ASSUME opened \in BOOLEAN PROVE First \in States /\ "text" \in States
  BY DEF First, States

\* A chunk is a text.
LEMMA ChunkType == ASSUME NEW chunk \in BoundedSeq(Chars, MaxChunk) PROVE chunk \in Seq(Chars)
<1>1. MaxChunk \in Nat
  BY ReasoningAssumption
<1>2. PICK n \in 0..MaxChunk : chunk \in [1..n -> Chars]
  BY DEF BoundedSeq, SeqOf
<1>3. n \in Nat
  BY <1>1
<1> QED
  BY <1>2, <1>3

\* Nothing added changes nothing.
LEMMA NothingAdded == ASSUME NEW t \in Seq(Chars) PROVE t \o <<>> = t /\ <<>> \o t = t /\ <<>> \in Seq(Chars)
  BY ConcatEmptySeq, EmptySeq

\* A new parser has read nothing.
LEMMA InitIInv == Init => IInv
<1> SUFFICES ASSUME Init PROVE IInv
  OBVIOUS
<1>1. /\ markers \in BOOLEAN /\ opened \in BOOLEAN /\ (opened => markers) /\ finished = FALSE
      /\ state = First /\ held = <<>> /\ reasoning = 0 /\ input = <<>> /\ emitted = <<>>
  BY DEF Init
<1>2. First \in States /\ "text" \in States
  BY <1>1, FirstType
<1>3. TypeOK
  BY <1>1, <1>2, EmptySeq DEF TypeOK
<1>4. Emit("text", <<>>) = <<>>
  BY <1>2, EmitNothing
<1>5. Resumes
  <2> SUFFICES ASSUME NEW c \in Seq(Chars)
               PROVE  Split[<<First, input \o c>>] = emitted \o Split[<<state, held \o c>>]
    BY DEF Resumes
  <2>1. <<>> \o c = c
    BY NothingAdded
  <2>2. Split[<<First, c>>] \in Seq(Tagged)
    BY <1>2, SplitType
  <2>3. <<>> \o Split[<<First, c>>] = Split[<<First, c>>]
    BY <1>2, <2>2, EmitNothing
  <2> QED
    BY <1>1, <2>1, <2>3
<1>6. Len(held) < Len(Marker(state)) /\ IsPrefix(held, Marker(state))
  <2>1. Len(Marker(state)) \in Nat \ {0} /\ Marker(state) \in Seq(Chars) /\ held \in Seq(Chars) /\ Len(held) = 0
    BY <1>1, <1>2, MarkerType, EmptySeq
  <2> DEFINE m == Marker(state)
             h == held
  <2>2. m \in Seq(Chars) /\ h \in Seq(Chars) /\ Len(h) <= Len(m)
        /\ \A j \in 1..Len(h) : h[j] = m[j]
    BY <2>1
  <2> HIDE DEF m, h
  <2>3. IsPrefix(h, m)
    BY <2>2, PrefixIs
  <2> QED
    BY <2>1, <2>3 DEF m, h
<1> QED
  BY <1>1, <1>3, <1>4, <1>5, <1>6 DEF IInv

\* push: the chunk is what follows the tail held so far.
LEMMA PushIInv == ASSUME IInv, NEW chunk \in Seq(Chars), Push(chunk) PROVE IInv'
<1>1. /\ markers \in BOOLEAN /\ opened \in BOOLEAN /\ finished \in BOOLEAN /\ ~finished /\ (opened => markers)
      /\ state \in States /\ held \in Seq(Chars) /\ reasoning \in Nat /\ input \in Seq(Chars)
      /\ emitted \in Seq(Tagged) /\ UNCHANGED <<markers, opened, finished>>
      /\ input' = input \o chunk /\ reasoning' \in Nat
  BY DEF IInv, TypeOK, Push, Tagged
<1>2. First' = First /\ First \in States /\ "text" \in States
  BY <1>1, FirstType DEF First
<1>3. input' \in Seq(Chars)
  BY <1>1, JoinIs
<1>4. CASE ~markers
  <2>1. state' = state /\ held' = held /\ emitted' = emitted \o Emit("text", chunk)
        /\ held = <<>> /\ emitted = Emit("text", input)
    BY <1>4 DEF Push, IInv
  <2>2. emitted' = Emit("text", input')
    BY <1>1, <1>2, <2>1, EmitConcat
  <2>3. emitted' \in Seq(Tagged)
    BY <1>2, <1>3, <2>2, EmitType
  <2>4. TypeOK'
    BY <1>1, <1>3, <2>1, <2>3 DEF TypeOK, Tagged
  <2> QED
    BY <1>1, <1>4, <2>1, <2>2, <2>4 DEF IInv
<1>5. CASE markers
  <2> DEFINE buf == held \o chunk
             after == Loop[<<state, buf>>]
  <2>1. state' = after.state /\ held' = after.held /\ emitted' = emitted \o after.out
    BY <1>5 DEF Push
  <2>2. buf \in Seq(Chars)
    BY <1>1, JoinIs
  <2>3. /\ after \in Outcomes
        /\ Len(after.held) < Len(Marker(after.state)) /\ IsPrefix(after.held, Marker(after.state))
        /\ \A c \in Seq(Chars) :
             Split[<<state, buf \o c>>] = after.out \o Split[<<after.state, after.held \o c>>]
    <3> HIDE DEF buf
    <3> QED
      BY <1>1, <2>2, LoopSound DEF Sound
  <2> HIDE DEF after
  <2>4. after.state \in States /\ after.held \in Seq(Chars) /\ after.out \in Seq(Tagged)
    BY <2>3 DEF Outcomes
  <2>5. emitted' \in Seq(Tagged)
    BY <1>1, <2>1, <2>4, ConcatProperties
  <2>6. TypeOK'
    BY <1>1, <1>3, <2>1, <2>4, <2>5 DEF TypeOK, Tagged
  <2>7. ASSUME NEW c \in Seq(Chars)
        PROVE  Split[<<First', input' \o c>>] = emitted' \o Split[<<state', held' \o c>>]
    <3>1. chunk \o c \in Seq(Chars)
      BY JoinIs
    <3>2. input' \o c = input \o (chunk \o c) /\ buf \o c = held \o (chunk \o c)
      <4>1. \A t \in Seq(Chars) : (t \o chunk) \o c = t \o (chunk \o c)
        BY ConcatAssociative
      <4> QED
        BY <1>1, <4>1
    <3>3. Split[<<First, input \o (chunk \o c)>>] = emitted \o Split[<<state, held \o (chunk \o c)>>]
      BY <1>1, <1>5, <3>1 DEF IInv, Resumes
    <3>4. Split[<<state, buf \o c>>] = after.out \o Split[<<after.state, after.held \o c>>]
      BY <2>3
    <3>5. Split[<<after.state, after.held \o c>>] \in Seq(Tagged)
      <4>1. after.held \o c \in Seq(Chars)
        BY <2>4, JoinIs
      <4> QED
        BY <2>4, <4>1, SplitType
    <3>6. emitted \o (after.out \o Split[<<after.state, after.held \o c>>])
          = (emitted \o after.out) \o Split[<<after.state, after.held \o c>>]
      BY <1>1, <2>4, <3>5, TaggedAssociates
    <3> HIDE DEF buf
    <3> QED
      BY <1>2, <2>1, <3>2, <3>3, <3>4, <3>6
  <2>8. Resumes'
    BY <2>7 DEF Resumes
  <2>9. (Len(held) < Len(Marker(state)) /\ IsPrefix(held, Marker(state)))'
    BY <2>1, <2>3 DEF Marker
  <2> QED
    BY <1>1, <1>5, <2>6, <2>8, <2>9 DEF IInv
<1> QED
  BY <1>1, <1>4, <1>5

\* finish: nothing follows, so the tail is text.
LEMMA FinishIInv == ASSUME IInv, Finish PROVE IInv'
<1>1. /\ markers \in BOOLEAN /\ opened \in BOOLEAN /\ ~finished /\ (opened => markers)
      /\ state \in States /\ held \in Seq(Chars) /\ reasoning \in Nat /\ input \in Seq(Chars)
      /\ emitted \in Seq(Tagged) /\ UNCHANGED <<markers, opened, state, reasoning, input>>
      /\ finished' = TRUE /\ held' = <<>> /\ emitted' = emitted \o Emit(state, held)
  BY DEF IInv, TypeOK, Finish, Tagged
<1>2. First' = First /\ First \in States
  BY <1>1, FirstType DEF First
<1>3. emitted' \in Seq(Tagged)
  <2>1. Emit(state, held) \in Seq(Tagged)
    BY <1>1, EmitType
  <2> QED
    BY <1>1, <2>1, ConcatProperties
<1>4. TypeOK'
  BY <1>1, <1>3, EmptySeq DEF TypeOK, Tagged
<1>5. ASSUME ~markers PROVE emitted' = Emit("text", input')
  <2>1. held = <<>> /\ emitted = Emit("text", input)
    BY <1>5 DEF IInv
  <2>2. Emit(state, <<>>) = <<>> /\ emitted \o <<>> = emitted
    BY <1>1, EmitNothing
  <2> QED
    BY <1>1, <2>1, <2>2
<1>6. ASSUME markers PROVE emitted' = Split[<<First', input'>>]
  <2>1. Len(held) < Len(Marker(state)) /\ Resumes
    BY <1>1, <1>6 DEF IInv
  <2>2. Split[<<First, input \o <<>> >>] = emitted \o Split[<<state, held \o <<>> >>]
    BY <2>1, EmptySeq DEF Resumes
  <2>3. input \o <<>> = input /\ held \o <<>> = held
    BY <1>1, NothingAdded
  <2>4. Split[<<state, held>>] = Emit(state, held)
    BY <1>1, <2>1, HeldIsText
  <2> QED
    BY <1>1, <1>2, <2>2, <2>3, <2>4
<1> QED
  BY <1>1, <1>4, <1>5, <1>6 DEF IInv

\* What the parser keeps between its calls, over push and finish
\* (reasoning.rs:82-128): the tail it holds is all it has to remember of a run.
THEOREM Inductive == Spec => []IInv
<1>1. IInv /\ [Next]_vars => IInv'
  <2> SUFFICES ASSUME IInv, [Next]_vars PROVE IInv'
    OBVIOUS
  <2>1. CASE \E chunk \in BoundedSeq(Chars, MaxChunk) \ {<<>>} : Push(chunk)
    <3>1. PICK chunk \in BoundedSeq(Chars, MaxChunk) : Push(chunk)
      BY <2>1
    <3>2. chunk \in Seq(Chars)
      BY ChunkType
    <3> QED
      BY <3>1, <3>2, PushIInv
  <2>2. CASE Finish
    BY <2>2, FinishIInv
  <2>3. CASE UNCHANGED vars
    BY <2>3 DEF vars, IInv, TypeOK, Resumes, First, Marker
  <2> QED
    BY <2>1, <2>2, <2>3 DEF Next
<1> QED
  BY <1>1, InitIInv, PTL DEF Spec

\* Every variable keeps its type, and a finished run holds nothing
\* (std::mem::take in finish, reasoning.rs:127), for any markers and texts.
THEOREM TypeCorrect == Spec => []TypeOK
<1>1. IInv => TypeOK
  BY DEF IInv
<1> QED
  BY <1>1, Inductive, PTL

\* Wherever the runtime cuts its output (push, reasoning.rs:82-121), what was
\* emitted and what is held are together what the whole output means when it is
\* read with all of it at hand: for any two markers, overlapping or not.
THEOREM ChunkingIsInvisible == Spec => []ChunksAreInvisible
<1>1. IInv => ChunksAreInvisible
  <2> SUFFICES ASSUME IInv PROVE ChunksAreInvisible
    OBVIOUS
  <2>1. /\ markers \in BOOLEAN /\ finished \in BOOLEAN /\ (finished => held = <<>>)
        /\ state \in States /\ held \in Seq(Chars) /\ input \in Seq(Chars) /\ emitted \in Seq(Tagged)
    BY DEF IInv, TypeOK, Tagged
  <2>2. Emit(state, <<>>) = <<>> /\ emitted \o <<>> = emitted
    BY <2>1, EmitNothing
  <2>3. CASE ~markers
    BY <2>2, <2>3 DEF IInv, ChunksAreInvisible, Meaning
  <2>4. CASE markers /\ finished
    BY <2>1, <2>2, <2>4 DEF IInv, ChunksAreInvisible, Meaning
  <2>5. CASE markers /\ ~finished
    <3>1. Len(held) < Len(Marker(state)) /\ Resumes
      BY <2>5 DEF IInv
    <3>2. Split[<<First, input \o <<>> >>] = emitted \o Split[<<state, held \o <<>> >>]
      BY <3>1, EmptySeq DEF Resumes
    <3>3. input \o <<>> = input /\ held \o <<>> = held
      BY <2>1, NothingAdded
    <3>4. Split[<<state, held>>] = Emit(state, held)
      BY <2>1, <3>1, HeldIsText
    <3> QED
      BY <2>5, <3>2, <3>3, <3>4 DEF ChunksAreInvisible, Meaning
  <2> QED
    BY <2>1, <2>3, <2>4, <2>5
<1> QED
  BY <1>1, Inductive, PTL

\* What waits for the next chunk is a proper start of the marker that is looked
\* for (partial_suffix, reasoning.rs:141-157): all else was emitted.
THEOREM NothingHeldInVain == Spec => []HeldMayBeMarker
<1>1. IInv => HeldMayBeMarker
  <2> SUFFICES ASSUME IInv, held # <<>> PROVE markers /\ IsStrictPrefix(held, Marker(state))
    BY DEF HeldMayBeMarker
  <2>1. markers /\ ~finished
    BY DEF IInv, TypeOK
  <2>2. Len(held) < Len(Marker(state)) /\ IsPrefix(held, Marker(state))
    BY <2>1 DEF IInv
  <2>3. Len(held) \in Nat /\ Len(Marker(state)) \in Nat
    BY MarkerType, LenProperties DEF IInv, TypeOK
  <2> QED
    BY <2>1, <2>2, <2>3 DEF IsStrictPrefix
<1> QED
  BY <1>1, Inductive, PTL
=============================================================================
