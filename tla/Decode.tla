------------------------------- MODULE Decode --------------------------------
(***************************************************************************)
(* The decoder thread's samples: Source::run and Resampling, from the      *)
(* frames of the recording to the messages of PCM and the counter the      *)
(* reported duration is read from.  Module Transcribe has the channel.     *)
(*                                                                         *)
(* Samples are counted, and a sample the resampler writes is its place in  *)
(* everything the resampler writes.  rubato is external: it takes a block, *)
(* is never ahead of its input, and holds back at most lag frames, which   *)
(* the rate decides and nothing in decode.rs looks at.                     *)
(***************************************************************************)
EXTENDS Naturals

CONSTANTS
  In, Out,     \* the two rates, in lowest terms: Out output frames for In
  Block,       \* input_frames_next(), BLOCK in decode.rs
  Delay,       \* output_delay(): frames of silence that come first
  Lags,        \* frames rubato may hold back besides, for one rate or another
  ChunkSize,   \* samples of a message, CHUNK_BYTES / 2
  PacketSizes, \* frames of a packet
  MaxFrames    \* bound: frames of a recording

ASSUME DecodeAssumption ==
  /\ {In, Out, Block, ChunkSize} \subseteq Nat \ {0}
  /\ {Delay, MaxFrames} \subseteq Nat /\ Lags \subseteq Nat /\ PacketSizes \subseteq Nat

VARIABLES
  pc,         \* where run() is
  resampled,  \* the recording is not at the target rate
  lag,        \* frames rubato may hold back of it
  frames,     \* frames of the recording read so far
  mono,       \* of them, those waiting for a whole block
  skip, taken, written,   \* Resampling
  fed, total, \* rubato: frames it was given and frames it wrote, ever
  chunk,      \* samples waiting for a whole message
  sent,       \* samples sent
  counter,    \* the counter into_stream hands out
  \* history
  upto,       \* the place that follows the last sample taken
  gap         \* a sample was left out between two that were taken

recording == <<resampled, lag, frames, mono>>
filter    == <<skip, taken, written, fed, total>>
output    == <<chunk, sent, counter>>
vars      == <<pc, recording, filter, output, upto, gap>>

Least(a, b) == IF a < b THEN a ELSE b

Init ==
  /\ pc = "packet" /\ resampled \in BOOLEAN /\ lag \in Lags
  /\ frames = 0 /\ mono = 0
  /\ skip = Delay /\ taken = 0 /\ written = 0 /\ fed = 0 /\ total = 0
  /\ chunk = 0 /\ sent = 0 /\ counter = 0
  /\ upto = (IF resampled THEN Delay ELSE 0) /\ gap = FALSE

-----------------------------------------------------------------------------
(* Samples from place p on are appended to the chunk.                      *)
Encode(p, n) ==
  /\ chunk' = chunk + n
  /\ gap' = (gap \/ (n > 0 /\ p # upto))
  /\ upto' = IF n > 0 THEN p + n ELSE upto

\* A packet, decoded and mixed down.  A packet of another track, or one that
\* cannot be decoded, is a step that changes nothing.
Packet ==
  /\ pc = "packet"
  /\ \E n \in PacketSizes :
       /\ frames + n <= MaxFrames
       /\ frames' = frames + n
       /\ IF resampled
            THEN pc' = "push" /\ mono' = mono + n /\ UNCHANGED <<chunk, gap, upto>>
            ELSE pc' = "cut" /\ Encode(frames, n) /\ UNCHANGED mono
  /\ UNCHANGED <<resampled, lag, filter, sent, counter>>

\* The end of the file, or of what arrived of it.
EndOfFile ==
  /\ pc = "packet"
  /\ pc' = IF resampled THEN "finish" ELSE "last"
  /\ UNCHANGED <<recording, filter, output, upto, gap>>

\* The container, the codec or the resampler reports an error.
Fail ==
  /\ pc \in {"packet", "push", "finish", "flush"}
  /\ pc' = "failed"
  /\ UNCHANGED <<recording, filter, output, upto, gap>>

-----------------------------------------------------------------------------
(* Resampling. *)

\* Frames that n frames of input are worth, in whole frames and rounded.
Worth(n) == (n * Out) \div In
Owed(n)  == (2 * n * Out + In) \div (2 * In)

\* process_into_buffer: what a block may produce.
Produces(n) ==
  /\ n \in 0..(Worth(Block) + lag + 1)
  /\ total + n <= Worth(fed + Block)
  /\ Worth(fed + Block) <= total + n + lag

\* Mutant: what is owed is worked out before the block is counted.
BlockOwedBefore(counted) ==
  \E produced \in 0..(Worth(Block) + lag + 1) :
    LET dropped   == Least(skip, produced)
        available == produced - dropped
        room      == IF Owed(taken) > written THEN Owed(taken) - written ELSE 0
        writing   == Least(available, room)
    IN /\ Produces(produced)
       /\ fed' = fed + Block /\ total' = total + produced
       /\ taken' = taken + counted
       /\ skip' = skip - dropped /\ written' = written + writing
       /\ Encode(total + dropped, writing)

\* Resampling::block; counted is what it adds to taken.
BlockStep(counted) ==
  \E produced \in 0..(Worth(Block) + lag + 1) :
    LET dropped   == Least(skip, produced)
        available == produced - dropped
        room      == IF Owed(taken + counted) > written
                       THEN Owed(taken + counted) - written ELSE 0
        writing   == Least(available, room)
    IN /\ Produces(produced)
       /\ fed' = fed + Block /\ total' = total + produced
       /\ taken' = taken + counted
       /\ skip' = skip - dropped /\ written' = written + writing
       /\ Encode(total + dropped, writing)

\* Mutant: one block of every packet, whatever waits.
PushOnce ==
  /\ pc = "push" /\ mono >= Block
  /\ BlockStep(Block)
  /\ mono' = mono - Block /\ pc' = "cut"
  /\ UNCHANGED <<resampled, lag, frames, sent, counter>>

\* Resampling::push: every whole block.
Push ==
  /\ pc = "push" /\ mono >= Block
  /\ BlockStep(Block)
  /\ mono' = mono - Block
  /\ UNCHANGED <<pc, resampled, lag, frames, sent, counter>>

Pushed ==
  /\ pc = "push" /\ mono < Block
  /\ pc' = "cut"
  /\ UNCHANGED <<recording, filter, output, upto, gap>>

\* Mutant: the last block counts as the whole block rubato says it took.
FinishWholeBlock ==
  /\ pc = "finish" /\ pc' = "flush"
  /\ IF mono > 0 THEN BlockStep(Block) ELSE UNCHANGED <<filter, chunk, upto, gap>>
  /\ UNCHANGED <<recording, sent, counter>>

\* Resampling::finish: the last, short block, padded with silence.
Finish ==
  /\ pc = "finish" /\ pc' = "flush"
  /\ IF mono > 0 THEN BlockStep(mono) ELSE UNCHANGED <<filter, chunk, upto, gap>>
  /\ UNCHANGED <<recording, sent, counter>>

\* Mutant: the clip ends without the block of silence.
NoFlush ==
  /\ pc = "flush" /\ pc' = "last"
  /\ UNCHANGED <<recording, filter, output, upto, gap>>

\* One block of silence, none of it the recording's, whatever is still held.
Flush ==
  /\ pc = "flush" /\ pc' = "last"
  /\ BlockStep(0)
  /\ UNCHANGED <<recording, sent, counter>>

-----------------------------------------------------------------------------
(* Messages.  The channel may be closed by a request that went away.       *)

Closed == pc' = "failed" /\ UNCHANGED <<chunk, sent>>

Send ==
  /\ pc = "cut" /\ chunk >= ChunkSize
  /\ \/ pc' = "count" /\ sent' = sent + ChunkSize /\ chunk' = chunk - ChunkSize
     \/ Closed
  /\ UNCHANGED <<recording, filter, counter, upto, gap>>

\* fetch_add, once the message is in the channel.
Count ==
  /\ pc = "count" /\ pc' = "cut"
  /\ counter' = sent
  /\ UNCHANGED <<recording, filter, chunk, sent, upto, gap>>

Cut ==
  /\ pc = "cut" /\ chunk < ChunkSize
  /\ pc' = "packet"
  /\ UNCHANGED <<recording, filter, output, upto, gap>>

\* What is left goes out as one message, however much it is.
SendLast ==
  /\ pc = "last" /\ chunk > 0
  /\ \/ pc' = "countlast" /\ sent' = sent + chunk /\ chunk' = 0
     \/ Closed
  /\ UNCHANGED <<recording, filter, counter, upto, gap>>

CountLast ==
  /\ pc = "countlast" /\ pc' = "ended"
  /\ counter' = sent
  /\ UNCHANGED <<recording, filter, chunk, sent, upto, gap>>

NothingLeft ==
  /\ pc = "last" /\ chunk = 0
  /\ pc' = "ended"
  /\ UNCHANGED <<recording, filter, output, upto, gap>>

Next ==
  \/ Packet \/ EndOfFile \/ Fail
  \/ Push \/ Pushed \/ Finish \/ Flush
  \/ Send \/ Count \/ Cut \/ SendLast \/ CountLast \/ NothingLeft

Spec == Init /\ [][Next]_vars

-----------------------------------------------------------------------------
TypeOK ==
  /\ pc \in {"packet", "push", "cut", "count", "finish", "flush", "last", "countlast",
             "ended", "failed"}
  /\ resampled \in BOOLEAN /\ lag \in Lags /\ gap \in BOOLEAN
  /\ {frames, mono, skip, taken, written, fed, total, chunk, sent, counter, upto} \subseteq Nat
  /\ pc \in {"packet", "cut", "count"} => mono < Block

\* Nothing is missing inside a recording and nothing is in it twice: what is
\* sent is one stretch of what the resampler wrote, from the end of its delay
\* on, although every block drops what is not owed yet (decode.rs:321-364).
\* Segment timestamps count on it.
AudioIsContiguous == ~gap

\* Frames behind the delay, of t that rubato wrote.
Behind(t) == IF t < Delay THEN 0 ELSE t - Delay

\* Frames of a clip that one block of silence may leave in the resampler.
\* None when the block is worth more than the resampler holds back.
Stuck == IF Delay + lag < Worth(Block) THEN 0 ELSE Delay + lag + 1 - Worth(Block)

\* A clip that was read to its end has all that the resampler wrote for it,
\* up to the length the recording says, rounded to a frame, and no more.
\* finish() flushes one block whatever is held (decode.rs:306-319), so what
\* is missing is the end of the clip, and no more of it than that block could
\* not push out: nothing, where it is worth more than the delay and the lag.
\* The counter, where the reported duration comes from, is the audio that was
\* sent (decode.rs:133-137, 252-258, 291-294).
OnlyTheTailIsHeld ==
  pc = "ended" =>
    /\ counter = sent
    /\ sent = IF resampled THEN Least(Owed(frames), Behind(total)) ELSE frames
    /\ resampled => Owed(frames) <= sent + Stuck
=============================================================================
