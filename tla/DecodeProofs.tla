---------------------------- MODULE DecodeProofs ----------------------------
(***************************************************************************)
(* Module Decode for every rate, block, delay, lag and recording: nothing  *)
(* is missing inside a clip, and a clip that ends is whole up to a tail    *)
(* that the flush leaves in the resampler.                                 *)
(***************************************************************************)
EXTENDS Decode, TLAPS

USE DecodeAssumption DEF DecodeAssumption

\* Division by a positive number.
LEMMA Quotient ==
  ASSUME NEW a \in Nat, NEW d \in Nat \ {0}
  PROVE  /\ a \div d \in Nat
         /\ d * (a \div d) <= a
         /\ a < d * (a \div d) + d
  BY SMT

\* The quotient is the only such number.
LEMMA Greater ==
  ASSUME NEW x \in Nat, NEW y \in Nat, NEW d \in Nat \ {0}, d * x < d * y + d
  PROVE  x <= y
<1>1. CASE x <= y
  BY <1>1
<1>2. CASE y + 1 <= x
  <2>1. PICK k \in Nat : x = y + 1 + k
    <3>1. x - (y + 1) \in Nat /\ x = y + 1 + (x - (y + 1))
      BY <1>2
    <3> QED BY <3>1
  <2>2. d * x = d * y + d + d * k
    BY <2>1
  <2>3. d * k \in Nat /\ d * y \in Nat
    OBVIOUS
  <2> QED BY <2>2, <2>3
<1> QED BY <1>1, <1>2

LEMMA WorthBounds ==
  ASSUME NEW n \in Nat
  PROVE  Worth(n) \in Nat /\ In * Worth(n) <= n * Out /\ n * Out < In * Worth(n) + In
<1>1. n * Out \in Nat /\ In \in Nat \ {0}
  OBVIOUS
<1>2. /\ (n * Out) \div In \in Nat
      /\ In * ((n * Out) \div In) <= n * Out
      /\ n * Out < In * ((n * Out) \div In) + In
  BY ONLY <1>1, Quotient
<1> QED BY ONLY <1>2 DEF Worth

LEMMA OwedBounds ==
  ASSUME NEW n \in Nat
  PROVE  /\ Owed(n) \in Nat
         /\ (2 * In) * Owed(n) <= 2 * n * Out + In
         /\ 2 * n * Out + In < (2 * In) * Owed(n) + 2 * In
<1>1. 2 * n * Out + In \in Nat /\ 2 * In \in Nat \ {0}
  OBVIOUS
<1>2. /\ (2 * n * Out + In) \div (2 * In) \in Nat
      /\ (2 * In) * ((2 * n * Out + In) \div (2 * In)) <= 2 * n * Out + In
      /\ 2 * n * Out + In < (2 * In) * ((2 * n * Out + In) \div (2 * In)) + 2 * In
  BY ONLY <1>1, Quotient
<1> QED BY ONLY <1>2 DEF Owed

\* More input is worth more, and owed more.
LEMMA WorthGrows ==
  ASSUME NEW m \in Nat, NEW n \in Nat
  PROVE  Worth(m) + Worth(n) <= Worth(m + n)
<1> DEFINE a == m * Out  b == n * Out  p == Worth(m)  q == Worth(n)  r == Worth(m + n)
<1>1. a \in Nat /\ b \in Nat /\ (m + n) * Out = a + b
  OBVIOUS
<1>2. p \in Nat /\ q \in Nat /\ r \in Nat
  BY WorthBounds
<1>3. In * p <= a /\ In * q <= b /\ a + b < In * r + In
  BY <1>1, WorthBounds
<1> HIDE DEF a, b, p, q, r
<1>4. In * (p + q) = In * p + In * q
  BY <1>2
<1>5. In * p \in Nat /\ In * q \in Nat /\ In * r \in Nat /\ In * (p + q) \in Nat
  BY <1>2
<1>6. In * (p + q) < In * r + In
  BY <1>1, <1>3, <1>4, <1>5
<1>7. p + q <= r
  BY <1>2, <1>6, Greater
<1> QED BY <1>7 DEF p, q, r

LEMMA OwedGrows ==
  ASSUME NEW m \in Nat, NEW n \in Nat
  PROVE  Owed(m) <= Owed(m + n)
<1> DEFINE a == m * Out  b == n * Out  p == Owed(m)  r == Owed(m + n)  d == 2 * In
<1>1. a \in Nat /\ b \in Nat /\ 2 * (m + n) * Out = 2 * a + 2 * b /\ 2 * m * Out = 2 * a
  OBVIOUS
<1>2. p \in Nat /\ d * p <= 2 * a + In
  BY <1>1, OwedBounds
<1>3. r \in Nat /\ 2 * a + 2 * b + In < d * r + d
  <2>1. m + n \in Nat
    OBVIOUS
  <2>2. Owed(m + n) \in Nat
        /\ 2 * (m + n) * Out + In < (2 * In) * Owed(m + n) + 2 * In
    BY ONLY <2>1, OwedBounds
  <2> QED BY <1>1, <2>2
<1>9. d \in Nat \ {0} /\ In \in Nat
  OBVIOUS
<1> HIDE DEF a, b, p, r, d
<1>4. d * p \in Nat /\ d * r \in Nat
  BY <1>2, <1>3, <1>9
<1>5. d * p < d * r + d
  BY <1>1, <1>2, <1>3, <1>4, <1>9
<1>6. p <= r
  BY <1>2, <1>3, <1>5, <1>9, Greater
<1> QED BY <1>6 DEF p, r

\* What is owed is what the input is worth, or one frame more.
LEMMA OwedIsWorth ==
  ASSUME NEW n \in Nat
  PROVE  Worth(n) <= Owed(n) /\ Owed(n) <= Worth(n) + 1
<1> DEFINE a == n * Out  p == Worth(n)  q == Owed(n)  d == 2 * In
<1>1. a \in Nat /\ 2 * n * Out = 2 * a
  OBVIOUS
<1>2. p \in Nat /\ q \in Nat /\ d \in Nat \ {0}
  <2>1. d \in Nat \ {0}
    OBVIOUS
  <2> HIDE DEF d
  <2>2. p \in Nat /\ q \in Nat
    BY WorthBounds, OwedBounds
  <2> QED BY <2>1, <2>2
<1>3. In * p <= a /\ a < In * p + In
  BY WorthBounds
<1>4. d * q <= 2 * a + In /\ 2 * a + In < d * q + d
  BY <1>1, OwedBounds
<1>5. d * p = 2 * (In * p) /\ d * (p + 1) = 2 * (In * p) + d /\ d = 2 * In
  BY <1>2
<1> HIDE DEF a, p, q, d
<1>6. In * p \in Nat /\ d * q \in Nat /\ In \in Nat /\ In > 0
  BY <1>2
<1>7. d * p < d * q + d
  BY <1>1, <1>2, <1>3, <1>4, <1>5, <1>6
<1>8. d * q < d * (p + 1) + d
  BY <1>1, <1>2, <1>3, <1>4, <1>5, <1>6
<1>10. p <= q /\ q <= p + 1
  <2>1. p + 1 \in Nat
    BY <1>2
  <2> QED BY <1>2, <1>7, <1>8, <2>1, Greater
<1> QED BY <1>10 DEF p, q

-----------------------------------------------------------------------------
(* The invariant.  While packets are read the resampler has been given     *)
(* what was taken, and all it wrote behind its delay is written; the last  *)
(* two blocks may stop short of that, once everything owed is written.     *)
(* The flush gives the resampler a block beyond the recording, so what it  *)
(* can still hold at the end is bounded.                                   *)

Left(t) == IF t < Delay THEN Delay - t ELSE 0

Filter ==
  /\ skip = Left(total)
  /\ total <= Worth(fed) /\ Worth(fed) <= total + lag
  /\ taken <= fed /\ written <= Owed(taken) /\ written <= Behind(total)

Reading == {"packet", "push", "cut", "count", "finish"}
Ending  == {"last", "countlast", "ended"}

Bookkeeping ==
  /\ resampled =>
       /\ Filter
       /\ upto = Delay + written /\ sent + chunk = written
       /\ pc \in Reading => frames = taken + mono /\ taken = fed /\ written = Behind(total)
       /\ pc = "flush" => frames = taken /\ (written = Behind(total) \/ written = Owed(taken))
       /\ pc \in Ending => /\ frames = taken /\ taken + Block <= fed
                           /\ written = Behind(total) \/ written = Owed(taken)
  /\ ~resampled =>
       /\ pc \notin {"push", "finish", "flush"}
       /\ mono = 0 /\ upto = frames /\ sent + chunk = frames
  /\ pc \notin {"count", "countlast"} => counter = sent
  /\ pc \in {"countlast", "ended"} => chunk = 0
  /\ pc = "finish" => mono < Block
  /\ ~gap

IInv == TypeOK /\ Bookkeeping

\* What a block does to the places of the samples.
LEMMA Places ==
  ASSUME NEW t \in Nat, NEW n \in Nat
  PROVE  LET d == Least(Left(t), n)
         IN  /\ d \in Nat /\ d <= n /\ n - d \in Nat
             /\ Left(t) - d = Left(t + n)
             /\ Behind(t) + (n - d) = Behind(t + n)
             /\ (n - d > 0 => t + d = Delay + Behind(t))
  BY DEF Least, Left, Behind

\* The facts about a block that the invariant needs, of constants.
Given(t, n, w, f, k, c, d, x, lg) ==
  /\ {t, n, w, f, k, c, lg} \subseteq Nat
  /\ c <= Block /\ k <= f
  /\ t <= Worth(f) /\ Worth(f) <= t + lg
  /\ w <= Owed(k) /\ w <= Behind(t)
  /\ w = Behind(t) \/ (w = Owed(k) /\ c = 0)
  /\ t + n <= Worth(f + Block) /\ Worth(f + Block) <= t + n + lg
  /\ d = Least(Left(t), n)
  /\ x = Least(n - d, IF Owed(k + c) > w THEN Owed(k + c) - w ELSE 0)

Gives(t, n, w, f, k, c, d, x) ==
  /\ d \in Nat /\ d <= n /\ x \in Nat
  /\ Left(t) - d = Left(t + n)
  /\ w + x <= Owed(k + c)
  /\ x > 0 => t + d = Delay + w
  /\ w + x = Behind(t + n) \/ w + x = Owed(k + c)
  /\ w + x <= Behind(t + n)
  /\ (k = f /\ c = Block /\ w = Behind(t) => w + x = Behind(t + n))

LEMMA BlockFacts ==
  ASSUME NEW t, NEW n, NEW w, NEW f, NEW k, NEW c, NEW d, NEW x, NEW lg,
         Given(t, n, w, f, k, c, d, x, lg)
  PROVE  Gives(t, n, w, f, k, c, d, x)
<1> USE DEF Given
<1>1. /\ d \in Nat /\ d <= n /\ n - d \in Nat
      /\ Left(t) - d = Left(t + n)
      /\ Behind(t) + (n - d) = Behind(t + n)
      /\ (n - d > 0 => t + d = Delay + Behind(t))
  BY Places, d = Least(Left(t), n), SMTT(20)
<1>2. Owed(k) \in Nat /\ Owed(k + c) \in Nat /\ Owed(k) <= Owed(k + c)
  <2>1. k + c \in Nat
    OBVIOUS
  <2> QED BY <2>1, OwedBounds, OwedGrows
<1>3. /\ x \in Nat /\ w + x <= Owed(k + c)
      /\ (w + x = w + (n - d) \/ w + x = Owed(k + c))
      /\ (w + (n - d) <= Owed(k + c) => x = n - d)
      /\ (Owed(k + c) <= w + (n - d) => w + x = Owed(k + c))
      /\ (w = Owed(k + c) => x = 0)
      /\ (x > 0 => n - d > 0)
  <2>1. w <= Owed(k + c)
    BY <1>2
  <2>2. w \in Nat /\ x = Least(n - d, IF Owed(k + c) > w THEN Owed(k + c) - w ELSE 0)
    OBVIOUS
  <2> QED BY ONLY <1>1, <1>2, <2>1, <2>2 DEF Least
<1>4. k + 0 = k /\ (c = 0 => k + c = k)
  OBVIOUS
<1>5. Worth(f + Block) <= Owed(f + Block)
  <2>1. f + Block \in Nat
    OBVIOUS
  <2> QED BY <2>1, OwedIsWorth
<1>6. Worth(f + Block) \in Nat /\ Owed(f + Block) \in Nat
  <2>1. f + Block \in Nat
    OBVIOUS
  <2> QED BY <2>1, WorthBounds, OwedBounds
<1>7. /\ Behind(t) \in Nat /\ Behind(t + n) \in Nat
      /\ t + n <= Behind(t + n) + Delay /\ Behind(t + n) <= t + n
  BY DEF Behind
<1>8. ASSUME k = f, c = Block, w = Behind(t)  PROVE w + x = Behind(t + n)
  <2>1. w + (n - d) <= Owed(k + c)
    BY <1>1, <1>5, <1>6, <1>7, <1>8
  <2> QED BY <1>1, <1>3, <1>8, <2>1
<1>9. w + x <= Behind(t + n)
  <2>1. x <= n - d
    BY <1>1, <1>2, <1>3 DEF Least
  <2> QED BY <1>1, <1>3, <1>7, <2>1
<1>10. w + x = Behind(t + n) \/ w + x = Owed(k + c)
  BY <1>1, <1>3, <1>4
<1>11. x > 0 => t + d = Delay + w
  BY <1>1, <1>2, <1>3, <1>4
<1> QED BY <1>1, <1>3, <1>8, <1>9, <1>10, <1>11 DEF Gives

\* One block, as the invariant sees it.
LEMMA BlockKeeps ==
  ASSUME TypeOK, Filter, NEW c \in Nat, c <= Block, BlockStep(c), lag' = lag,
         upto = Delay + written, ~gap, sent + chunk = written,
         written = Behind(total) \/ (written = Owed(taken) /\ c = 0)
  PROVE  /\ {skip, taken, written, fed, total, chunk, upto}' \subseteq Nat
         /\ Filter' /\ taken' = taken + c /\ fed' = fed + Block
         /\ upto' = Delay + written' /\ gap' = FALSE /\ sent + chunk' = written'
         /\ written' = Behind(total') \/ written' = Owed(taken')
         /\ taken = fed /\ c = Block /\ written = Behind(total) => written' = Behind(total')
<1> USE DEF TypeOK
<1>1. PICK n \in 0..(Worth(Block) + lag + 1) :
        LET d == Least(skip, n)
            r == IF Owed(taken + c) > written THEN Owed(taken + c) - written ELSE 0
            x == Least(n - d, r)
        IN  /\ Produces(n)
            /\ fed' = fed + Block /\ total' = total + n /\ taken' = taken + c
            /\ skip' = skip - d /\ written' = written + x
            /\ Encode(total + d, x)
  BY DEF BlockStep
<1> DEFINE d == Least(Left(total), n)
           r == IF Owed(taken + c) > written THEN Owed(taken + c) - written ELSE 0
           x == Least(n - d, r)
<1> HIDE DEF d, r, x
<1>2. /\ n \in Nat /\ total + n <= Worth(fed + Block) /\ Worth(fed + Block) <= total + n + lag
      /\ fed' = fed + Block /\ total' = total + n /\ taken' = taken + c
      /\ skip' = Left(total) - d /\ written' = written + x
      /\ Encode(total + d, x)
  <2>1. skip = Left(total)
    BY DEF Filter
  <2>2. n \in Nat
    BY <1>1, WorthBounds
  <2> QED BY <1>1, <2>1, <2>2 DEF Produces, d, r, x
<1>3. /\ d \in Nat /\ d <= n /\ x \in Nat
      /\ Left(total) - d = Left(total + n)
      /\ written + x <= Owed(taken + c)
      /\ x > 0 => total + d = Delay + written
      /\ written + x = Behind(total + n) \/ written + x = Owed(taken + c)
      /\ written + x <= Behind(total + n)
      /\ (taken = fed /\ c = Block /\ written = Behind(total)
            => written + x = Behind(total + n))
  <2>1. /\ taken <= fed /\ total <= Worth(fed) /\ Worth(fed) <= total + lag
        /\ written <= Owed(taken) /\ written <= Behind(total)
    BY DEF Filter
  <2>2. total \in Nat /\ written \in Nat /\ fed \in Nat /\ taken \in Nat
        /\ lag \in Nat
    OBVIOUS
  <2>3. /\ d = Least(Left(total), n)
        /\ r = (IF Owed(taken + c) > written THEN Owed(taken + c) - written ELSE 0)
        /\ x = Least(n - d, r)
    BY DEF d, r, x
  <2>4. Given(total, n, written, fed, taken, c, d, x, lag)
    BY ONLY <1>2, <2>1, <2>2, <2>3, c \in Nat, c <= Block,
            written = Behind(total) \/ (written = Owed(taken) /\ c = 0) DEF Given
  <2> QED BY <2>4, BlockFacts DEF Gives
<1>4. chunk' = chunk + x /\ upto' = Delay + written' /\ gap' = FALSE
  BY <1>2, <1>3 DEF Encode
<1>5. Left(total + n) \in Nat
  BY <1>2 DEF Left
<1>6. Filter'
  <2>1. taken + c <= fed + Block
    BY DEF Filter
  <2>2. Filter' = /\ skip' = Left(total')
                  /\ total' <= Worth(fed') /\ Worth(fed') <= total' + lag'
                  /\ taken' <= fed' /\ written' <= Owed(taken')
                  /\ written' <= Behind(total')
    BY DEF Filter
  <2>3. skip' = Left(total') /\ written' <= Owed(taken') /\ written' <= Behind(total')
    BY ONLY <1>2, <1>3
  <2>4. total' <= Worth(fed') /\ Worth(fed') <= total' + lag' /\ taken' <= fed'
    BY ONLY <1>2, <2>1, lag' = lag
  <2> QED BY <2>2, <2>3, <2>4
<1> QED BY <1>2, <1>3, <1>4, <1>5, <1>6

LEMMA Starts == Init => IInv
<1> SUFFICES ASSUME Init PROVE IInv
  OBVIOUS
<1>1. TypeOK
  <2>1. 0 < Block /\ Delay \in Nat
    OBVIOUS
  <2>2. pc = "packet" /\ resampled \in BOOLEAN /\ lag \in Lags /\ gap = FALSE /\ upto \in Nat
    BY <2>1 DEF Init
  <2>3. {frames, mono, skip, taken, written, fed, total, chunk, sent, counter} \subseteq Nat
        /\ mono < Block
    BY <2>1 DEF Init
  <2> QED BY <2>2, <2>3 DEF TypeOK
<1>2. Filter /\ written = Behind(total)
  <2>1. Worth(0) = 0
    <3>1. In * Worth(0) <= 0 * Out /\ Worth(0) \in Nat
      BY WorthBounds
    <3>2. In \in Nat \ {0} /\ 0 * Out = 0
      OBVIOUS
    <3> HIDE DEF DecodeAssumption
    <3>3. In * Worth(0) <= In * 0
      BY <3>1, <3>2
    <3>4. Worth(0) <= 0
      BY <3>1, <3>2, <3>3, Greater
    <3> QED BY <3>1, <3>4
  <2>2. 0 <= Owed(0)
    BY OwedBounds
  <2> QED BY <2>1, <2>2 DEF Init, Filter, Left, Behind
<1>3. Bookkeeping
  BY <1>2 DEF Init, Bookkeeping, Reading, Ending
<1> QED BY <1>1, <1>3 DEF IInv

\* A step that runs a block of c frames of the recording.
LEMMA RunsBlock ==
  ASSUME IInv, NEW c \in Nat, c <= Block, BlockStep(c), lag' = lag,
         resampled, pc \in {"push", "finish", "flush"}, pc = "flush" => c = 0,
         pc # "flush" => pc \in Reading
  PROVE  /\ {skip, taken, written, fed, total, chunk, upto}' \subseteq Nat
         /\ Filter' /\ taken' = taken + c /\ fed' = fed + Block
         /\ upto' = Delay + written' /\ gap' = FALSE /\ sent + chunk' = written'
         /\ written' = Behind(total') \/ written' = Owed(taken')
         /\ taken = fed /\ c = Block /\ written = Behind(total) => written' = Behind(total')
<1>1. /\ TypeOK /\ Filter /\ upto = Delay + written /\ ~gap /\ sent + chunk = written
      /\ written = Behind(total) \/ (written = Owed(taken) /\ c = 0)
  BY DEF IInv, Bookkeeping, Reading
<1> QED BY <1>1, BlockKeeps

LEMMA Steps == IInv /\ [Next]_vars => IInv'
<1> SUFFICES ASSUME IInv, [Next]_vars PROVE IInv'
  OBVIOUS
<1> USE DEF IInv, TypeOK, Bookkeeping, Reading, Ending
<1>1. CASE Packet
  <2>1. PICK n \in PacketSizes :
          /\ pc = "packet" /\ frames' = frames + n
          /\ IF resampled
               THEN pc' = "push" /\ mono' = mono + n /\ UNCHANGED <<chunk, gap, upto>>
               ELSE pc' = "cut" /\ Encode(frames, n) /\ UNCHANGED mono
          /\ UNCHANGED <<resampled, lag, filter, sent, counter>>
    BY <1>1 DEF Packet
  <2>2. n \in Nat
    OBVIOUS
  <2>3. UNCHANGED <<skip, taken, written, fed, total>> /\ (Filter => Filter')
    BY <2>1 DEF filter, Filter
  <2>4. CASE resampled
    BY <2>1, <2>2, <2>3, <2>4
  <2>5. CASE ~resampled
    BY <2>1, <2>2, <2>3, <2>5 DEF Encode
  <2> QED BY <2>4, <2>5
<1>2. CASE Push
  <2>1. /\ pc = "push" /\ mono >= Block /\ BlockStep(Block) /\ mono' = mono - Block
        /\ UNCHANGED <<pc, resampled, lag, frames, sent, counter>>
    BY <1>2 DEF Push
  <2>2. resampled /\ Block \in Nat /\ Block <= Block
    BY <2>1
  <2>3. /\ {skip, taken, written, fed, total, chunk, upto}' \subseteq Nat
        /\ Filter' /\ taken' = taken + Block /\ fed' = fed + Block
        /\ upto' = Delay + written' /\ gap' = FALSE /\ sent + chunk' = written'
        /\ taken = fed /\ written = Behind(total) => written' = Behind(total')
    BY <2>1, <2>2, RunsBlock
  <2>4. mono' \in Nat /\ frames' = taken' + mono' /\ taken' = fed' /\ written' = Behind(total')
    BY <2>1, <2>2, <2>3
  <2>5. TypeOK'
    <3>1. frames' \in Nat /\ sent' \in Nat /\ counter' \in Nat
          /\ lag' \in Lags /\ resampled' \in BOOLEAN
      BY <2>1
    <3> QED BY ONLY <2>1, <2>3, <2>4, <3>1 DEF TypeOK
  <2>6. /\ pc' = "push" /\ pc' \in Reading /\ pc' \notin Ending /\ counter' = sent'
        /\ sent' + chunk' = written'
    BY <2>1, <2>3
  <2>7. Bookkeeping'
    BY ONLY <2>1, <2>2, <2>3, <2>4, <2>6 DEF Bookkeeping
  <2> QED BY <2>5, <2>7
<1>3. CASE Finish
  <2>1. /\ pc = "finish" /\ pc' = "flush" /\ resampled /\ counter = sent
        /\ UNCHANGED <<resampled, lag, frames, mono, sent, counter>>
        /\ mono \in Nat /\ mono <= Block /\ frames = taken + mono
        /\ written = Behind(total) /\ gap = FALSE
    BY <1>3 DEF Finish, recording
  <2>2. /\ {skip, taken, written, fed, total, chunk, upto}' \subseteq Nat
        /\ Filter' /\ taken' = taken + mono
        /\ upto' = Delay + written' /\ gap' = FALSE /\ sent + chunk' = written'
        /\ written' = Behind(total') \/ written' = Owed(taken')
    <3>1. CASE mono > 0
      <4>1. BlockStep(mono)
        BY <1>3, <3>1 DEF Finish
      <4> QED BY <2>1, <4>1, RunsBlock
    <3>2. CASE mono = 0
      <4>1. UNCHANGED <<skip, taken, written, fed, total, chunk, upto, gap>>
        BY <1>3, <3>2 DEF Finish, filter
      <4>2. Filter'
        <5>1. Filter
          BY <2>1
        <5> QED BY ONLY <2>1, <4>1, <5>1 DEF Filter
      <4> QED BY <2>1, <3>2, <4>1, <4>2
    <3>3. mono > 0 \/ mono = 0
      BY <2>1
    <3> QED BY ONLY <3>1, <3>2, <3>3
  <2>3. TypeOK'
    BY <2>1, <2>2
  <2>4. /\ pc' \notin Reading /\ pc' = "flush" /\ pc' \notin Ending
        /\ pc' \notin {"countlast", "ended", "finish"} /\ counter' = sent'
        /\ sent' + chunk' = written' /\ frames' = taken'
    BY <2>1, <2>2
  <2>5. Bookkeeping'
    BY ONLY <2>1, <2>2, <2>4 DEF Bookkeeping
  <2> QED BY <2>3, <2>5
<1>4. CASE Flush
  <2>1. /\ pc = "flush" /\ pc' = "last" /\ resampled /\ BlockStep(0) /\ counter = sent
        /\ UNCHANGED <<resampled, lag, frames, mono, sent, counter>>
        /\ 0 \in Nat /\ 0 <= Block /\ frames = taken
    BY <1>4 DEF Flush, recording
  <2>2. /\ {skip, taken, written, fed, total, chunk, upto}' \subseteq Nat
        /\ Filter' /\ taken' = taken + 0 /\ fed' = fed + Block
        /\ upto' = Delay + written' /\ gap' = FALSE /\ sent + chunk' = written'
        /\ written' = Behind(total') \/ written' = Owed(taken')
    BY <2>1, RunsBlock
  <2>3. frames' = taken' /\ taken' + Block <= fed'
    <3>1. taken <= fed
      BY <2>1 DEF Filter
    <3> QED BY <2>1, <2>2, <3>1
  <2>4. TypeOK'
    <3>1. frames' \in Nat /\ mono' \in Nat /\ sent' \in Nat /\ counter' \in Nat
          /\ lag' \in Lags /\ resampled' \in BOOLEAN
      BY <2>1
    <3>2. gap' \in BOOLEAN
      BY ONLY <2>2, Zenon
    <3>3. {frames, mono, skip, taken, written, fed, total, chunk, sent, counter, upto}' \subseteq Nat
      BY ONLY <2>2, <3>1
    <3>4. pc' = "last"
      BY ONLY <2>1
    <3> QED BY ONLY <3>1, <3>2, <3>3, <3>4 DEF TypeOK
  <2>5. /\ pc' \notin Reading /\ pc' # "flush" /\ pc' \in Ending
        /\ pc' \notin {"countlast", "ended", "finish"} /\ counter' = sent'
        /\ sent' + chunk' = written'
    BY <2>1, <2>2
  <2>6. Bookkeeping'
    BY ONLY <2>1, <2>2, <2>3, <2>5 DEF Bookkeeping
  <2> QED BY <2>4, <2>6
<1>5. ASSUME UNCHANGED <<resampled, lag, frames, mono, skip, taken, written, fed, total, upto, gap>>,
             sent' + chunk' = sent + chunk, {sent, chunk, counter}' \subseteq Nat,
             \/ pc' = pc /\ UNCHANGED <<chunk, sent, counter>>
             \/ pc = "packet" /\ pc' \in {"finish", "last"} /\ (resampled <=> pc' = "finish")
                /\ counter' = sent'
             \/ pc' = "failed" /\ counter' = sent'
             \/ pc = "push" /\ pc' = "cut" /\ mono < Block /\ counter' = sent'
             \/ pc = "cut" /\ pc' = "packet" /\ counter' = sent'
             \/ pc = "cut" /\ pc' = "count"
             \/ pc = "count" /\ pc' = "cut" /\ counter' = sent'
             \/ pc = "last" /\ pc' = "countlast" /\ chunk' = 0
             \/ pc = "last" /\ pc' = "ended" /\ chunk' = 0 /\ counter' = sent'
             \/ pc = "countlast" /\ pc' = "ended" /\ chunk' = chunk /\ counter' = sent'
      PROVE  IInv'
  <2>1. Filter => Filter'
    BY <1>5 DEF Filter
  <2>2. TypeOK'
    BY <1>5
  <2>3. Bookkeeping'
    BY <1>5, <2>1
  <2> QED BY <2>2, <2>3
<1> USE DEF recording, filter, output, Closed
<1> HIDE DEF IInv
<1>6. CASE EndOfFile
  BY <1>5, <1>6 DEF EndOfFile, IInv
<1>7. CASE Fail
  BY <1>5, <1>7 DEF Fail, IInv
<1>8. CASE Pushed
  BY <1>5, <1>8 DEF Pushed, IInv
<1>9. CASE Send
  BY <1>5, <1>9 DEF Send, IInv
<1>10. CASE Count
  BY <1>5, <1>10 DEF Count, IInv
<1>11. CASE Cut
  BY <1>5, <1>11 DEF Cut, IInv
<1>12. CASE SendLast
  BY <1>5, <1>12 DEF SendLast, IInv
<1>13. CASE CountLast
  BY <1>5, <1>13 DEF CountLast, IInv
<1>14. CASE NothingLeft
  BY <1>5, <1>14 DEF NothingLeft, IInv
<1>15. CASE UNCHANGED vars
  BY <1>5, <1>15 DEF vars, IInv
<1> QED
  BY <1>1, <1>2, <1>3, <1>4, <1>6, <1>7, <1>8, <1>9, <1>10, <1>11, <1>12, <1>13, <1>14,
     <1>15 DEF Next

THEOREM Inductive == Spec => []IInv
  BY Starts, Steps, PTL DEF Spec

\* The bookkeeping of the decoder keeps its types, and less than a block
\* waits whenever the next packet is read (decode.rs:296-304).
THEOREM TypeCorrect == Spec => []TypeOK
<1>1. IInv => TypeOK
  BY DEF IInv
<1> QED BY <1>1, Inductive, PTL

\* For every rate, block, delay, lag and recording, the audio that is sent
\* has no gap and no repetition (decode.rs:321-364).
THEOREM NothingMissing == Spec => []AudioIsContiguous
<1>1. IInv => AudioIsContiguous
  BY DEF IInv, Bookkeeping, AudioIsContiguous
<1> QED BY <1>1, Inductive, PTL

\* A resampler that was given a block beyond k frames, and holds back lg at
\* most, has written all that k frames are owed but what can be stuck.
LEMMA HeldAtMost ==
  ASSUME NEW k \in Nat, NEW f \in Nat, NEW t \in Nat, NEW lg \in Nat, NEW s \in Nat,
         k + Block <= f, Worth(f) <= t + lg,
         s = IF Delay + lg < Worth(Block) THEN 0 ELSE Delay + lg + 1 - Worth(Block)
  PROVE  Owed(k) <= Behind(t) + s
<1> DEFINE b == Worth(Block)  p == Worth(k)  q == Worth(k + Block)  r == Worth(f)
           h == Behind(t)
<1>1. k + Block \in Nat /\ f - (k + Block) \in Nat /\ k + Block + (f - (k + Block)) = f
      /\ Block \in Nat /\ Delay \in Nat
  OBVIOUS
<1>2. p + b <= q /\ q <= r
  <2>1. p + b <= q
    BY <1>1, WorthGrows
  <2>2. q + Worth(f - (k + Block)) <= r
    BY <1>1, WorthGrows
  <2>3. q \in Nat /\ r \in Nat /\ Worth(f - (k + Block)) \in Nat
    BY <1>1, WorthBounds
  <2> QED BY ONLY <2>1, <2>2, <2>3
<1>3. Owed(k) <= p + 1 /\ Owed(k) \in Nat
  BY OwedIsWorth, OwedBounds
<1>4. b \in Nat /\ p \in Nat /\ q \in Nat /\ r \in Nat
  BY <1>1, WorthBounds
<1>5. h \in Nat /\ t <= h + Delay
  BY DEF Behind
<1>6. r <= t + lg /\ s = (IF Delay + lg < b THEN 0 ELSE Delay + lg + 1 - b)
  OBVIOUS
<1> HIDE DEF b, p, q, r, h
<1>7. Owed(k) <= h + s
  BY ONLY <1>1, <1>2, <1>3, <1>4, <1>5, <1>6, lg \in Nat, s \in Nat, t \in Nat
<1> QED BY ONLY <1>7 DEF h

\* For every rate, block, delay, lag and recording, a clip that was read to
\* its end is sent up to what the flush leaves in the resampler, that is the
\* end of the clip and never more than Stuck, and the counter says what was
\* sent (decode.rs:252-258, 306-319).
THEOREM TailIsBounded == Spec => []OnlyTheTailIsHeld
<1>1. ASSUME IInv, pc = "ended"
      PROVE  OnlyTheTailIsHeld
  <2> USE <1>1 DEF IInv, TypeOK, Bookkeeping, Ending
  <2>1. counter = sent /\ chunk = 0 /\ sent \in Nat /\ lag \in Nat
    OBVIOUS
  <2>2. CASE ~resampled
    BY <2>1, <2>2 DEF OnlyTheTailIsHeld
  <2>3. CASE resampled
    <3>1. /\ sent = written /\ frames = taken /\ taken + Block <= fed
          /\ written = Behind(total) \/ written = Owed(taken)
          /\ written <= Owed(taken) /\ written <= Behind(total)
          /\ Worth(fed) <= total + lag
      BY <2>1, <2>3 DEF Filter
    <3>2. {taken, fed, total, written} \subseteq Nat
      OBVIOUS
    <3>3. Owed(taken) \in Nat /\ Behind(total) \in Nat
      <4>1. Behind(total) \in Nat
        BY <3>2 DEF Behind
      <4> QED BY <3>2, <4>1, OwedBounds
    <3>4. sent = Least(Owed(frames), Behind(total))
      BY ONLY <3>1, <3>2, <3>3 DEF Least
    <3>5. Stuck \in Nat
      BY <2>1, WorthBounds DEF Stuck
    <3>6. Owed(taken) <= Behind(total) + Stuck
      BY ONLY <2>1, <3>1, <3>2, <3>5, HeldAtMost, DecodeAssumption DEF Stuck
    <3>7. Owed(frames) <= sent + Stuck
      BY ONLY <2>1, <3>1, <3>2, <3>3, <3>5, <3>6
    <3> QED BY <2>1, <2>3, <3>4, <3>7 DEF OnlyTheTailIsHeld
  <2> QED BY <2>2, <2>3
<1>2. IInv => OnlyTheTailIsHeld
  BY <1>1 DEF OnlyTheTailIsHeld
<1> QED BY <1>2, Inductive, PTL
=============================================================================
