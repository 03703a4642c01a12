---------------------------- MODULE TranscribeProofs ----------------------------
(***************************************************************************)
(* What module Transcribe promises of an answered upload, proved for every *)
(* length of upload and every size of the channels.                        *)
(*                                                                         *)
(* The argument is conservation.  Until something is dropped, every chunk  *)
(* the decoder sent is in one of the places between it and rkwhisperd, and *)
(* every segment rkwhisperd sent is in one of the places between it and    *)
(* the handler.  Something is dropped only by a pump that ends early or    *)
(* after the call is over, and rkwhisperd's Done tells of both directions: *)
(* it answers finish(), which the pump calls when nothing is left to send, *)
(* and it is the last of the responses.                                    *)
(*                                                                         *)
(* Two parts follow on whether an upload gets to its end.  In a state that *)
(* is not the end, some task can take a step, or rkwhisperd owes one; and  *)
(* a number that every such step makes smaller bounds how many there are.  *)
(* With the fairness of module Transcribe that is its liveness, of which   *)
(* only the temporal argument itself is left to TLC.                       *)
(***************************************************************************)
EXTENDS Transcribe, FiniteSetTheorems, SequenceTheorems, TLAPS

Final == {"done", "error", "cancelled"}

\* How many of a channel's items are segments.
Segments(s) == Cardinality({i \in DOMAIN s : s[i] = "segment"})
Is(b)       == IF b THEN 1 ELSE 0

\* The chunks the decoder has put into its channel, and those still in it.
Sent    == produced + Is(dec = "count")
Waiting == Len(pcm) - Is(pcm # <<>> /\ pcm[Len(pcm)] = "error")

\* A failure is the last thing a decoder sends.
FailureIsLast ==
  \A i \in DOMAIN pcm : pcm[i] = "error" => i = Len(pcm) /\ dec = "ended"

\* While the pump lives, a chunk is in one place of the way to rkwhisperd.
AudioFlows ==
  /\ out # "open" => pcm = <<>>
  /\ out = "closed" => dec = "ended"
  /\ out = "dropped" => call # "open"
  /\ pump # "dropped" /\ out # "dropped" => Sent = Waiting + wire + Is(pump = "send") + heard
  /\ pump \in {"finish", "finished"} => wire = 0 /\ out = "closed"

\* What the tasks of the daemon are before, during and after the stream.
SessionLives ==
  /\ stream \in {"opening", "refused"} => pump = "none" /\ reader = "none" /\ job = "none"
  /\ stream = "dropped" => call # "open"
  /\ stream \in {"opening", "open", "refused"} => aborted = {}
  /\ reader = "send" <=> event # "none"

\* A response that ends the stream is the last one, and nothing follows it.
FinalIsLast ==
  /\ \A i \in DOMAIN responses :
       responses[i] \in Final => i = Len(responses) /\ job \notin {"none", "running"}
  /\ call = "open" /\ (event \in Final \/ reader = "ended") =>
       responses = <<>> /\ job \notin {"none", "running"}
  /\ \A i \in DOMAIN events : events[i] \in Final => i = Len(events) /\ reader = "ended"
  /\ call = "open" /\ stream = "ended" => events = <<>> /\ reader = "ended"

\* While the call is open, a segment is in one place of the way to the handler.
SegmentsFlow ==
  call = "open" => issued = got + Segments(reply) + Segments(events) + Is(event = "segment")
                              + Segments(responses)

\* Done tells that the session was finished and not dropped.
DoneIsHonest ==
  /\ job = "done" => pump = "finished"
  /\ \/ finished \/ event = "done"
     \/ \E i \in DOMAIN reply : reply[i] = "done"
     \/ \E i \in DOMAIN events : events[i] = "done"
     \/ \E i \in DOMAIN responses : responses[i] = "done"
     => job = "done"
  /\ handler = "ok" => finished /\ got = issued /\ call = "over"

IInv ==
  /\ TypeOK
  /\ FailureIsLast /\ AudioFlows /\ SessionLives /\ FinalIsLast /\ SegmentsFlow /\ DoneIsHonest

-----------------------------------------------------------------------------
(* Counting the segments of a channel.                                     *)

LEMMA SegmentsType == ASSUME NEW S, NEW s \in Seq(S)
                      PROVE  /\ IsFiniteSet({i \in DOMAIN s : s[i] = "segment"})
                             /\ Segments(s) \in Nat
<1>1. IsFiniteSet(1..Len(s)) /\ DOMAIN s = 1..Len(s)
  BY LenProperties, FS_Interval
<1>2. IsFiniteSet({i \in DOMAIN s : s[i] = "segment"})
  BY <1>1, FS_Subset
<1> QED
  BY <1>2, FS_CardinalityType DEF Segments

LEMMA SegmentsNone == ASSUME NEW s, DOMAIN s = {}
                      PROVE  Segments(s) = 0
<1>1. {i \in DOMAIN s : s[i] = "segment"} = {}
  OBVIOUS
<1> QED
  BY <1>1, FS_EmptySet DEF Segments

LEMMA SegmentsEmpty == Segments(<<>>) = 0
<1>1. DOMAIN <<>> = {}
  OBVIOUS
<1> QED
  BY <1>1, SegmentsNone

LEMMA SegmentsAppend == ASSUME NEW S, NEW s \in Seq(S), NEW e \in S
                        PROVE  Segments(Append(s, e)) = Segments(s) + Is(e = "segment")
<1> DEFINE t == Append(s, e)
           A == {i \in DOMAIN s : s[i] = "segment"}
           B == {i \in DOMAIN t : t[i] = "segment"}
           n == Len(s) + 1
<1>1. /\ t \in Seq(S) /\ Len(t) = n /\ t[n] = e /\ \A i \in 1..Len(s) : t[i] = s[i]
      /\ DOMAIN s = 1..Len(s) /\ DOMAIN t = 1..n /\ Len(s) \in Nat
  BY AppendProperties, LenProperties
<1>2. n \notin A /\ IsFiniteSet(A)
  BY <1>1, SegmentsType
<1>3. B = IF e = "segment" THEN A \cup {n} ELSE A
  <2> HIDE DEF t
  <2> QED
    BY <1>1
<1>4. Cardinality(A \cup {n}) = Cardinality(A) + 1
  BY <1>2, FS_AddElement
<1>5. Segments(s) = Cardinality(A) /\ Segments(t) = Cardinality(B) /\ Cardinality(A) \in Nat
  BY SegmentsType DEF Segments
<1> HIDE DEF A, B
<1> QED
  BY <1>3, <1>4, <1>5 DEF Is

LEMMA SegmentsTail == ASSUME NEW S, NEW s \in Seq(S), s # <<>>
                      PROVE  Segments(s) = Segments(Tail(s)) + Is(Head(s) = "segment")
<1> DEFINE t == Tail(s)
           A == {i \in DOMAIN s : s[i] = "segment"}
           B == {i \in DOMAIN t : t[i] = "segment"}
           f == [i \in B |-> i + 1]
<1>1. /\ t \in Seq(S) /\ Len(s) \in Nat \ {0} /\ \A i \in 1..Len(t) : t[i] = s[i + 1]
      /\ Len(t) = Len(s) - 1 /\ DOMAIN s = 1..Len(s) /\ DOMAIN t = 1..Len(t)
      /\ Head(s) = s[1]
  BY HeadTailProperties, LenProperties, EmptySeq
<1> HIDE DEF t
<1>2. IsFiniteSet(A) /\ IsFiniteSet(B)
  BY <1>1, SegmentsType
<1>3. f \in Bijection(B, A \ {1})
  <2>1. f \in [B -> A \ {1}]
    BY <1>1
  <2>2. \A i, j \in B : f[i] = f[j] => i = j
    BY <1>1
  <2>3. \A k \in A \ {1} : \E i \in B : f[i] = k
    <3> SUFFICES ASSUME NEW k \in A \ {1} PROVE k - 1 \in B /\ f[k - 1] = k
      OBVIOUS
    <3>1. k - 1 \in 1..Len(t)
      BY <1>1
    <3> QED
      BY <1>1, <3>1
  <2> QED
    BY <2>1, <2>2, <2>3 DEF Bijection, Injection, Surjection, IsInjective
<1>4. Cardinality(A \ {1}) = Cardinality(B)
  BY <1>2, <1>3, FS_Bijection DEF ExistsBijection
<1>5. Cardinality(A \ {1}) = IF 1 \in A THEN Cardinality(A) - 1 ELSE Cardinality(A)
  BY <1>2, FS_RemoveElement
<1>6. 1 \in A <=> Head(s) = "segment"
  BY <1>1
<1>7. Segments(s) = Cardinality(A) /\ Segments(t) = Cardinality(B)
      /\ Cardinality(A) \in Nat /\ Cardinality(B) \in Nat
  BY <1>1, SegmentsType DEF Segments
<1> HIDE DEF A, B
<1>8. Segments(s) = Segments(t) + Is(Head(s) = "segment")
  BY <1>4, <1>5, <1>6, <1>7 DEF Is
<1> QED
  BY <1>8 DEF t

-----------------------------------------------------------------------------
(* What one item more or less does to a channel.                           *)

LEMMA Added == ASSUME NEW S, NEW s \in Seq(S), NEW e \in S
               PROVE  /\ Append(s, e) \in Seq(S) /\ Append(s, e) # <<>>
                      /\ Len(Append(s, e)) = Len(s) + 1 /\ Len(s) \in Nat
                      /\ DOMAIN s = 1..Len(s) /\ DOMAIN Append(s, e) = 1..(Len(s) + 1)
                      /\ \A i \in DOMAIN s : Append(s, e)[i] = s[i]
                      /\ Append(s, e)[Len(s) + 1] = e
  BY AppendProperties, LenProperties

LEMMA Removed == ASSUME NEW S, NEW s \in Seq(S), s # <<>>
                 PROVE  /\ Tail(s) \in Seq(S) /\ Head(s) \in S /\ Head(s) = s[1]
                        /\ Len(s) \in Nat \ {0} /\ Len(Tail(s)) = Len(s) - 1
                        /\ DOMAIN s = 1..Len(s) /\ DOMAIN Tail(s) = 1..(Len(s) - 1)
                        /\ \A i \in DOMAIN Tail(s) : Tail(s)[i] = s[i + 1]
                        /\ Len(s) = 1 => Tail(s) = <<>>
<1>1. Len(s) \in Nat \ {0} /\ DOMAIN s = 1..Len(s)
  BY LenProperties, EmptySeq
<1>2. /\ Tail(s) \in Seq(S) /\ Head(s) \in S /\ Len(Tail(s)) = Len(s) - 1
      /\ Len(s) = 1 => Len(Tail(s)) = 0
      /\ \A i \in 1..Len(Tail(s)) : Tail(s)[i] = s[i + 1]
  BY HeadTailProperties
<1>3. DOMAIN Tail(s) = 1..Len(Tail(s))
  BY <1>2, LenProperties
<1>6. \A t \in Seq(S) : Len(t) = 0 => t = <<>>
  BY EmptySeq
<1>4. Len(s) = 1 => Tail(s) = <<>>
  BY <1>2, <1>6, Zenon
<1>5. Head(s) = s[1]
  BY <1>1
<1> QED
  BY <1>1, <1>2, <1>3, <1>4, <1>5

-----------------------------------------------------------------------------
(* Every variable keeps its type.                                          *)

LEMMA TypeInit == Init => TypeOK
<1> SUFFICES ASSUME Init PROVE TypeOK
  OBVIOUS
<1>1. /\ pcm \in Seq({"audio", "error"}) /\ Len(pcm) <= PcmQueue
      /\ reply \in Seq({"segment", "done", "error"}) /\ Len(reply) <= Window
      /\ events \in Seq({"segment", "done", "error"}) /\ Len(events) <= EventBuffer
      /\ responses \in Seq({"segment", "note", "done", "error", "cancelled"})
  BY EmptySeq, TranscribeAssumption DEF Init
<1>2. /\ out \in {"open", "closed", "dropped"} /\ call \in {"open", "over", "lost"}
      /\ wire \in 0..Window
      /\ stream \in {"opening", "open", "refused", "ended", "dropped"}
      /\ pump \in {"none", "next", "send", "finish", "finished", "dropped"}
      /\ reader \in {"none", "recv", "send", "ended"}
      /\ event \in {"none", "segment", "done", "error"}
  BY TranscribeAssumption DEF Init
<1>3. /\ handler \in {"calling", "reading", "ok", "error", "gone"}
      /\ dec \in {"decode", "send", "count", "failed", "ended"}
      /\ finished \in BOOLEAN /\ broken \in BOOLEAN /\ aborted \subseteq {"pump", "reader"}
      /\ got \in Nat /\ produced \in Nat /\ heard \in Nat /\ issued \in Nat
      /\ job \in {"none", "running", "done", "failed", "cancelled"}
  BY DEF Init
<1> QED
  BY <1>1, <1>2, <1>3, Zenon DEF TypeOK

\* rkwhisperd answers into a channel that may have lost its reader.
LEMMA Responded ==
  ASSUME TypeOK, NEW r \in {"segment", "note", "done", "error", "cancelled"}, Respond(r)
  PROVE  responses' \in Seq({"segment", "note", "done", "error", "cancelled"})
  BY Added DEF Respond, TypeOK

LEMMA TypeStep == ASSUME TypeOK, reader = "send" <=> event # "none", [Next]_vars
                  PROVE  TypeOK'
<1> USE DEF frontend, decoder, session, whisper
<1>1. CASE Decoder
  <2>1. CASE NextChunk
    BY <2>1 DEF NextChunk, TypeOK
  <2>2. CASE EndOfUpload
    BY <2>2 DEF EndOfUpload, TypeOK
  <2>3. CASE DecodeFails
    BY <2>3 DEF DecodeFails, TypeOK
  <2>4. CASE SendChunk
    <3>1. pcm' \in Seq({"audio", "error"}) /\ Len(pcm') <= PcmQueue
      BY <2>4, Added, TranscribeAssumption DEF SendChunk, SendPcm, TypeOK
    <3> QED
      BY <2>4, <3>1 DEF SendChunk, TypeOK
  <2>5. CASE CountChunk
    BY <2>5 DEF CountChunk, TypeOK
  <2>6. CASE SendFailure
    <3>1. pcm' \in Seq({"audio", "error"}) /\ Len(pcm') <= PcmQueue
      BY <2>6, Added, TranscribeAssumption DEF SendFailure, SendPcm, TypeOK
    <3> QED
      BY <2>6, <3>1 DEF SendFailure, TypeOK
  <2>7. CASE RequestEnded
    BY <2>7 DEF RequestEnded, TypeOK
  <2> QED
    BY <1>1, <2>1, <2>2, <2>3, <2>4, <2>5, <2>6, <2>7 DEF Decoder
<1>2. CASE Outbound
  <2>1. CASE ForwardChunk
    <3>1. pcm' \in Seq({"audio", "error"}) /\ Len(pcm') <= PcmQueue
      BY <2>1, Removed, TranscribeAssumption DEF ForwardChunk, TypeOK
    <3> QED
      BY <2>1, <3>1, TranscribeAssumption DEF ForwardChunk, TypeOK
  <2>2. CASE OutboundEnds
    <3>1. pcm' \in Seq({"audio", "error"}) /\ Len(pcm') <= PcmQueue
      BY <2>2, EmptySeq, TranscribeAssumption DEF OutboundEnds, TypeOK
    <3> QED
      BY <2>2, <3>1 DEF OutboundEnds, TypeOK
  <2>3. CASE OutboundDropped
    <3>1. pcm' \in Seq({"audio", "error"}) /\ Len(pcm') <= PcmQueue
      BY <2>3, EmptySeq, TranscribeAssumption DEF OutboundDropped, TypeOK
    <3> QED
      BY <2>3, <3>1 DEF OutboundDropped, TypeOK
  <2> QED
    BY <1>2, <2>1, <2>2, <2>3 DEF Outbound
<1>3. CASE Handler
  <2>1. CASE Opened
    BY <2>1 DEF Opened, TypeOK
  <2>2. CASE CallRefused
    BY <2>2 DEF CallRefused, Answer, TypeOK
  <2>3. CASE ReadEvent
    <3>1. reply' \in Seq({"segment", "done", "error"}) /\ Len(reply') <= Window
      BY <2>3, Removed, TranscribeAssumption DEF ReadEvent, TypeOK
    <3> QED
      BY <2>3, <3>1 DEF ReadEvent, Answer, TypeOK
  <2>4. CASE ReadEnd
    BY <2>4 DEF ReadEnd, Answer, TypeOK
  <2>5. CASE ReadLost
    BY <2>5 DEF ReadLost, Answer, TypeOK
  <2> QED
    BY <1>3, <2>1, <2>2, <2>3, <2>4, <2>5 DEF Handler
<1>4. CASE Service
  <2>1. CASE Relay
    <3>1. /\ events' \in Seq({"segment", "done", "error"}) /\ Len(events') <= EventBuffer
          /\ Head(events) \in {"segment", "done", "error"}
      BY <2>1, Removed, TranscribeAssumption DEF Relay, TypeOK
    <3>2. reply' \in Seq({"segment", "done", "error"}) /\ Len(reply') <= Window
      BY <2>1, <3>1, Added, TranscribeAssumption DEF Relay, TypeOK
    <3>3. stream' \in {"open", "ended"} /\ aborted' \subseteq {"pump", "reader"}
      BY <2>1 DEF Relay, DropSession, TypeOK
    <3> QED
      BY <2>1, <3>1, <3>2, <3>3 DEF Relay, TypeOK
  <2>2. CASE StreamEnds
    BY <2>2 DEF StreamEnds, DropSession, TypeOK
  <2>3. CASE StreamDropped
    <3>1. events' \in Seq({"segment", "done", "error"}) /\ Len(events') <= EventBuffer
      BY <2>3, EmptySeq, TranscribeAssumption DEF StreamDropped, TypeOK
    <3> QED
      BY <2>3, <3>1 DEF StreamDropped, DropSession, TypeOK
  <2> QED
    BY <1>4, <2>1, <2>2, <2>3 DEF Service
<1>5. CASE Pump
  <2>1. CASE TakeAudio
    BY <2>1, TranscribeAssumption DEF TakeAudio, Pumps, TypeOK
  <2>2. CASE AudioEnds
    BY <2>2 DEF AudioEnds, Pumps, TypeOK
  <2>3. CASE AudioFails
    BY <2>3 DEF AudioFails, Pumps, TypeOK
  <2> QED
    BY <1>5, <2>1, <2>2, <2>3 DEF Pump
<1>6. CASE Reader
  <2>1. CASE Receive
    <3> DEFINE Response == {"segment", "note", "done", "error", "cancelled"}
    <3>1. responses' \in Seq(Response) /\ Head(responses) \in Response
      BY <2>1, Removed DEF Receive, TypeOK
    <3> QED
      BY <2>1, <3>1 DEF Receive, TypeOK
  <2>2. CASE SendEvent
    <3>1. events' \in Seq({"segment", "done", "error"}) /\ Len(events') <= EventBuffer
      BY <2>2, Added, TranscribeAssumption DEF SendEvent, TypeOK
    <3> QED
      BY <2>2, <3>1 DEF SendEvent, TypeOK
  <2>3. CASE SendEventFails
    BY <2>3 DEF SendEventFails, TypeOK
  <2> QED
    BY <1>6, <2>1, <2>2, <2>3 DEF Reader
<1>7. CASE PumpAborted
  BY <1>7 DEF PumpAborted, TypeOK
<1>8. CASE ReaderAborted
  BY <1>8 DEF ReaderAborted, TypeOK
<1>9. CASE Opens
  BY <1>9 DEF Opens, TypeOK
<1>10. CASE Refuses
  BY <1>10 DEF Refuses, TypeOK
<1>11. CASE SendAudio
  BY <1>11 DEF SendAudio, Pumps, TypeOK
<1>12. CASE SendAudioFails
  BY <1>12 DEF SendAudioFails, Pumps, TypeOK
<1>13. CASE Finish
  BY <1>13 DEF Finish, Pumps, TypeOK
<1>14. CASE Hears
  BY <1>14, Responded DEF Hears, TypeOK
<1>15. CASE Completes
  BY <1>15, Responded DEF Completes, TypeOK
<1>16. CASE Fails
  BY <1>16, Responded DEF Fails, TypeOK
<1>17. CASE Cancels
  BY <1>17, Responded DEF Cancels, TypeOK
<1>18. CASE HangUp
  BY <1>18 DEF HangUp, Answer, TypeOK
<1>19. CASE LinkLost
  <2>1. reply' \in Seq({"segment", "done", "error"}) /\ Len(reply') <= Window
    BY <1>19, EmptySeq, TranscribeAssumption DEF LinkLost, TypeOK
  <2> QED
    BY <1>19, <2>1 DEF LinkLost, TypeOK
<1>20. CASE Idle \/ UNCHANGED vars
  <2>1. UNCHANGED vars
    BY <1>20 DEF Idle
  <2> QED
    BY <2>1 DEF vars, TypeOK
<1> QED
  BY <1>1, <1>2, <1>3, <1>4, <1>5, <1>6, <1>7, <1>8, <1>9, <1>10, <1>11,
     <1>12, <1>13, <1>14, <1>15, <1>16, <1>17, <1>18, <1>19, <1>20 DEF Next

-----------------------------------------------------------------------------
(* Nothing is sent that is not accounted for: one lemma per component.     *)

LEMMA InitIInv == Init => IInv
<1> SUFFICES ASSUME Init PROVE IInv
  OBVIOUS
<1>1. DOMAIN <<>> = {} /\ Len(<<>>) = 0
  OBVIOUS
<1>2. FailureIsLast /\ SessionLives /\ FinalIsLast /\ DoneIsHonest
  BY <1>1 DEF Init, FailureIsLast, SessionLives, FinalIsLast, DoneIsHonest, Final
<1>3. AudioFlows
  BY <1>1 DEF Init, AudioFlows, Sent, Waiting, Is
<1>4. SegmentsFlow
  BY SegmentsEmpty DEF Init, SegmentsFlow, Is
<1> QED
  BY <1>2, <1>3, <1>4, TypeInit DEF IInv

\* What the decoder and the outbound messages leave alone.
LEMMA DaemonKeeps ==
  ASSUME IInv,
         UNCHANGED <<handler, got, finished, call, reply, stream, events, pump, reader, event,
                     aborted, job, heard, issued, responses>>
  PROVE  SessionLives' /\ FinalIsLast' /\ SegmentsFlow' /\ DoneIsHonest'
<1>1. SessionLives'
  BY DEF IInv, SessionLives
<1>2. FinalIsLast'
  BY DEF IInv, FinalIsLast
<1>3. SegmentsFlow'
  BY DEF IInv, SegmentsFlow
<1>4. DoneIsHonest'
  BY DEF IInv, DoneIsHonest
<1> QED
  BY <1>1, <1>2, <1>3, <1>4

LEMMA DecoderKeeps == ASSUME IInv, TypeOK', Decoder
                      PROVE  IInv'
<1> USE DEF frontend, session, whisper
<1>0. produced \in Nat /\ pcm \in Seq({"audio", "error"})
  BY DEF IInv, TypeOK
<1>1. UNCHANGED <<handler, got, finished, out, call, wire, reply, stream, events, pump, reader,
                  event, aborted, job, heard, issued, responses>>
  BY DEF Decoder, NextChunk, EndOfUpload, DecodeFails, SendChunk, CountChunk, SendFailure,
         RequestEnded, SendPcm
<1>2. SessionLives' /\ FinalIsLast' /\ SegmentsFlow' /\ DoneIsHonest'
  BY <1>1, DaemonKeeps
<1>3. ASSUME NEW item \in {"audio", "error"}, SendPcm(item), dec # "ended"
      PROVE  /\ pcm # <<>> => pcm[Len(pcm)] = "audio"
             /\ pcm' # <<>> /\ Len(pcm') = Len(pcm) + 1 /\ pcm'[Len(pcm')] = item
             /\ \A i \in DOMAIN pcm' : pcm'[i] = "error" => i = Len(pcm') /\ item = "error"
             /\ Len(pcm) \in Nat /\ out = "open"
  <2>1. /\ pcm' # <<>> /\ Len(pcm') = Len(pcm) + 1 /\ Len(pcm) \in Nat
        /\ DOMAIN pcm = 1..Len(pcm) /\ DOMAIN pcm' = 1..(Len(pcm) + 1)
        /\ \A i \in DOMAIN pcm : pcm'[i] = pcm[i]
        /\ pcm'[Len(pcm) + 1] = item
    BY <1>0, <1>3, Added DEF SendPcm
  <2>2. \A i \in DOMAIN pcm : pcm[i] = "audio"
    BY <1>3, ElementOfSeq, SMTT(20) DEF IInv, TypeOK, FailureIsLast
  <2>3. pcm # <<>> => Len(pcm) \in DOMAIN pcm
    BY <2>1, EmptySeq DEF IInv, TypeOK
  <2> QED
    BY <1>3, <2>1, <2>2, <2>3 DEF SendPcm
<1>4. CASE SendChunk
  <2>1. FailureIsLast'
    BY <1>3, <1>4 DEF SendChunk, FailureIsLast
  <2>2. AudioFlows'
    BY <1>1, <1>3, <1>4
    DEF SendChunk, IInv, TypeOK, AudioFlows, Sent, Waiting, Is
  <2> QED
    BY <1>2, <2>1, <2>2 DEF IInv
<1>5. CASE SendFailure
  <2>1. FailureIsLast'
    BY <1>3, <1>5 DEF SendFailure, FailureIsLast
  <2>2. AudioFlows'
    BY <1>1, <1>3, <1>5
    DEF SendFailure, IInv, TypeOK, AudioFlows, Sent, Waiting, Is
  <2> QED
    BY <1>2, <2>1, <2>2 DEF IInv
<1>6. CASE NextChunk \/ EndOfUpload \/ DecodeFails \/ CountChunk \/ RequestEnded
  <2>1. pcm' = pcm /\ dec # "ended" /\ Sent' = Sent
    BY <1>0, <1>6
    DEF NextChunk, EndOfUpload, DecodeFails, CountChunk, RequestEnded, Sent, Is
  <2>2. FailureIsLast'
    BY <2>1 DEF FailureIsLast, IInv
  <2>3. AudioFlows'
    BY <1>1, <2>1 DEF IInv, AudioFlows, Waiting
  <2> QED
    BY <1>2, <2>2, <2>3 DEF IInv
<1> QED
  BY <1>4, <1>5, <1>6 DEF Decoder

LEMMA OutboundKeeps == ASSUME IInv, TypeOK', Outbound
                       PROVE  IInv'
<1> USE DEF frontend, decoder, session, whisper
<1>1. UNCHANGED <<handler, got, finished, dec, produced, call, reply, stream, events, pump,
                  reader, event, aborted, job, heard, issued, responses>>
  BY DEF Outbound, ForwardChunk, OutboundEnds, OutboundDropped
<1>2. SessionLives' /\ FinalIsLast' /\ SegmentsFlow' /\ DoneIsHonest'
  BY <1>1, DaemonKeeps
<1>3. CASE ForwardChunk
  <2>1. /\ pcm # <<>> /\ pcm[1] = "audio" /\ pcm' = Tail(pcm)
        /\ Len(pcm) \in Nat \ {0} /\ Len(pcm') = Len(pcm) - 1
        /\ DOMAIN pcm = 1..Len(pcm) /\ DOMAIN pcm' = 1..(Len(pcm) - 1)
        /\ \A i \in DOMAIN pcm' : pcm'[i] = pcm[i + 1]
        /\ Len(pcm) = 1 => pcm' = <<>>
    BY <1>3, Removed DEF ForwardChunk, IInv, TypeOK
  <2>2. FailureIsLast'
    BY <1>1, <2>1 DEF FailureIsLast, IInv
  <2>3. Waiting' = Waiting - 1 /\ Waiting \in Int
    <3>1. Len(<<>>) = 0
      OBVIOUS
    <3>2. CASE Len(pcm) = 1
      BY <2>1, <3>1, <3>2 DEF Waiting, Is
    <3>3. CASE Len(pcm) > 1
      <4> DEFINE i == Len(pcm) - 1
      <4>1. i \in DOMAIN pcm' /\ i = Len(pcm') /\ i + 1 = Len(pcm) /\ pcm' # <<>>
        BY <2>1, <3>1, <3>3
      <4>2. pcm'[Len(pcm')] = pcm[Len(pcm)]
        BY <2>1, <4>1
      <4> QED
        BY <2>1, <4>1, <4>2 DEF Waiting, Is
    <3> QED
      BY <2>1, <3>2, <3>3
  <2>4. wire' = wire + 1 /\ out' = out /\ out = "open" /\ Sent' = Sent /\ pump' = pump
    BY <1>1, <1>3 DEF ForwardChunk, Sent
  <2>5. AudioFlows'
    BY <1>1, <2>3, <2>4 DEF IInv, TypeOK, AudioFlows, Is
  <2> QED
    BY <1>2, <2>2, <2>5 DEF IInv
<1>4. CASE OutboundEnds
  <2>1. dec = "ended" /\ Waiting = 0
    <3>1. CASE pcm = <<>>
      BY <1>4, <3>1 DEF OutboundEnds, Waiting, Is
    <3>2. CASE pcm # <<>>
      <4>1. Head(pcm) = pcm[1] /\ 1 \in DOMAIN pcm
        BY <3>2, Removed, SMTT(20) DEF IInv, TypeOK
      <4>2. dec = "ended" /\ Len(pcm) = 1
        BY <1>4, <3>2, <4>1 DEF OutboundEnds, IInv, FailureIsLast
      <4> QED
        BY <1>4, <3>2, <4>1, <4>2 DEF OutboundEnds, Waiting, Is
    <3> QED
      BY <3>1, <3>2
  <2>2. pcm' = <<>> /\ out = "open" /\ out' = "closed" /\ UNCHANGED wire /\ Waiting' = 0
    BY <1>4 DEF OutboundEnds, Waiting, Is
  <2>3. FailureIsLast'
    BY <2>2 DEF FailureIsLast
  <2>4. AudioFlows'
    BY <1>1, <2>1, <2>2 DEF IInv, AudioFlows, Sent
  <2> QED
    BY <1>2, <2>3, <2>4 DEF IInv
<1>5. CASE OutboundDropped
  <2>1. FailureIsLast'
    BY <1>5 DEF OutboundDropped, FailureIsLast
  <2>2. AudioFlows'
    BY <1>1, <1>5 DEF OutboundDropped, IInv, AudioFlows
  <2> QED
    BY <1>2, <2>1, <2>2 DEF IInv
<1> QED
  BY <1>3, <1>4, <1>5 DEF Outbound

\* A channel's counts are numbers, and its parts are there.
LEMMA Counts == ASSUME TypeOK
                PROVE  /\ Segments(reply) \in Nat /\ Segments(events) \in Nat
                       /\ Segments(responses) \in Nat /\ got \in Nat /\ issued \in Nat
  BY SegmentsType DEF TypeOK

\* The call once over stays so, and that is all the audio and the session see.
LEMMA CallerKeeps ==
  ASSUME IInv, call' = "open" => call = "open",
         UNCHANGED <<dec, produced, pcm, out, wire, stream, events, pump, reader, event,
                     aborted, job, heard, issued, responses>>
  PROVE  FailureIsLast' /\ AudioFlows' /\ SessionLives' /\ FinalIsLast'
<1>1. FailureIsLast'
  BY DEF IInv, FailureIsLast
<1>2. AudioFlows'
  BY DEF IInv, TypeOK, AudioFlows, Sent, Waiting
<1>3. SessionLives'
  BY DEF IInv, SessionLives
<1>4. FinalIsLast'
  BY DEF IInv, FinalIsLast
<1> QED
  BY <1>1, <1>2, <1>3, <1>4

LEMMA HandlerKeeps == ASSUME IInv, TypeOK', Handler \/ HangUp \/ LinkLost
                      PROVE  IInv'
<1> USE DEF frontend, decoder, session, whisper
<1>1. /\ UNCHANGED <<dec, produced, pcm, out, wire, stream, events, pump, reader, event,
                     aborted, job, heard, issued, responses>>
      /\ call' = "open" => call = "open"
  BY DEF Handler, Opened, CallRefused, ReadEvent, ReadEnd, ReadLost, HangUp, LinkLost, Answer
<1>2. FailureIsLast' /\ AudioFlows' /\ SessionLives' /\ FinalIsLast'
  BY <1>1, CallerKeeps
<1>3. CASE Opened
  <2>1. handler' # "ok" /\ UNCHANGED <<got, finished, call, reply>>
    BY <1>3 DEF Opened
  <2>2. SegmentsFlow' /\ DoneIsHonest'
    BY <1>1, <2>1 DEF IInv, SegmentsFlow, DoneIsHonest
  <2> QED
    BY <1>2, <2>2 DEF IInv
<1>4. CASE CallRefused \/ ReadLost \/ HangUp
  <2>1. handler' # "ok" /\ call' = "over" /\ UNCHANGED <<got, finished, reply>>
    BY <1>4 DEF CallRefused, ReadLost, HangUp, Answer
  <2>2. SegmentsFlow' /\ DoneIsHonest'
    BY <1>1, <2>1 DEF IInv, SegmentsFlow, DoneIsHonest
  <2> QED
    BY <1>2, <2>2 DEF IInv
<1>5. CASE ReadEvent
  <2>1. /\ reply # <<>> /\ reply' = Tail(reply) /\ reply[1] = Head(reply)
        /\ DOMAIN reply = 1..Len(reply) /\ Len(reply) \in Nat \ {0}
        /\ DOMAIN reply' = 1..(Len(reply) - 1)
        /\ \A i \in DOMAIN reply' : reply'[i] = reply[i + 1]
        /\ Segments(reply) = Segments(reply') + Is(Head(reply) = "segment")
    BY <1>5, Removed, SegmentsTail DEF ReadEvent, IInv, TypeOK
  <2>2. /\ handler' # "ok" /\ got' = got + Is(Head(reply) = "segment") /\ call = "open"
        /\ finished' => finished \/ Head(reply) = "done"
    <3>1. got \in Nat
      BY DEF IInv, TypeOK
    <3>2. handler' # "ok" /\ call = "open"
      BY <1>5 DEF ReadEvent, Answer
    <3>3. got' = got + Is(Head(reply) = "segment")
      BY <1>5, <3>1 DEF ReadEvent, Is
    <3>4. finished' => finished \/ Head(reply) = "done"
      BY <1>5, Zenon DEF ReadEvent
    <3> QED
      BY <3>2, <3>3, <3>4
  <2>3. SegmentsFlow'
    <3>1. Segments(reply') \in Nat
      BY SegmentsType DEF TypeOK
    <3> QED
      BY <1>1, <2>1, <2>2, <3>1, Counts DEF IInv, SegmentsFlow, Is
  <2>4. DoneIsHonest'
    <3>1. \A i \in DOMAIN reply' : i + 1 \in DOMAIN reply
      BY <2>1
    <3>2. 1 \in DOMAIN reply
      BY <2>1
    <3> QED
      BY <1>1, <2>1, <2>2, <3>1, <3>2 DEF IInv, DoneIsHonest
  <2> QED
    BY <1>2, <2>3, <2>4 DEF IInv
<1>6. CASE ReadEnd
  <2>1. /\ call = "open" /\ reply = <<>> /\ stream = "ended" /\ call' = "over"
        /\ handler' = "ok" => finished
        /\ UNCHANGED <<got, finished, reply>>
    BY <1>6 DEF ReadEnd, Answer
  <2>2. events = <<>> /\ responses = <<>> /\ event = "none"
    BY <2>1 DEF IInv, FinalIsLast, SessionLives
  <2>3. got = issued
    <3>1. issued = got + Segments(reply) + Segments(events) + Is(event = "segment")
                       + Segments(responses)
      BY <2>1 DEF IInv, SegmentsFlow
    <3> QED
      BY <2>1, <2>2, <3>1, SegmentsEmpty, Counts DEF IInv, Is
  <2>4. SegmentsFlow'
    BY <2>1 DEF SegmentsFlow
  <2>5. DoneIsHonest'
    BY <1>1, <2>1, <2>3 DEF IInv, DoneIsHonest
  <2> QED
    BY <1>2, <2>4, <2>5 DEF IInv
<1>7. CASE LinkLost
  <2>1. call = "open" /\ call' = "lost" /\ reply' = <<>> /\ UNCHANGED <<handler, got, finished>>
    BY <1>7 DEF LinkLost
  <2>2. SegmentsFlow'
    BY <2>1 DEF SegmentsFlow
  <2>3. DoneIsHonest'
    BY <1>1, <2>1 DEF IInv, DoneIsHonest
  <2> QED
    BY <1>2, <2>2, <2>3 DEF IInv
<1> QED
  BY <1>3, <1>4, <1>5, <1>6, <1>7 DEF Handler

LEMMA ServiceKeeps == ASSUME IInv, TypeOK', Service \/ Opens \/ Refuses
                      PROVE  IInv'
<1> USE DEF frontend, decoder, session, whisper
<1>1. FailureIsLast'
  <2>1. UNCHANGED <<dec, pcm>>
    BY DEF Service, Relay, StreamEnds, StreamDropped, Opens, Refuses
  <2> QED
    BY <2>1 DEF IInv, FailureIsLast
<1>2. CASE Relay
  <2>1. UNCHANGED <<handler, got, finished, dec, produced, pcm, out, call, wire, pump, reader,
                    event, job, heard, issued, responses>>
    BY <1>2 DEF Relay
  <2>2. /\ events # <<>> /\ events' = Tail(events) /\ events[1] = Head(events)
        /\ DOMAIN events = 1..Len(events) /\ Len(events) \in Nat \ {0}
        /\ Len(events') = Len(events) - 1 /\ DOMAIN events' = 1..(Len(events) - 1)
        /\ \A i \in DOMAIN events' : events'[i] = events[i + 1]
        /\ Len(events) = 1 => events' = <<>>
        /\ Head(events) \in {"segment", "done", "error"}
        /\ Segments(events) = Segments(events') + Is(Head(events) = "segment")
    BY <1>2, Removed, SegmentsTail DEF Relay, IInv, TypeOK
  <2>3. /\ DOMAIN reply = 1..Len(reply) /\ Len(reply) \in Nat
        /\ DOMAIN reply' = 1..(Len(reply) + 1)
        /\ \A i \in DOMAIN reply : reply'[i] = reply[i]
        /\ reply'[Len(reply) + 1] = Head(events)
        /\ Segments(reply') = Segments(reply) + Is(Head(events) = "segment")
    BY <1>2, <2>2, Added, SegmentsAppend DEF Relay, IInv, TypeOK
  <2>4. /\ stream = "open" /\ call = "open"
        /\ IF Head(events) = "error" THEN stream' = "ended" ELSE UNCHANGED <<stream, aborted>>
    BY <1>2 DEF Relay
  <2>5. AudioFlows'
    BY <2>1 DEF IInv, AudioFlows, Sent, Waiting
  <2>6. SessionLives'
    BY <2>1, <2>4 DEF IInv, SessionLives
  <2>7. FinalIsLast'
    <3>1. \A i \in DOMAIN events' : i + 1 \in DOMAIN events /\ 1 \in DOMAIN events
      BY <2>2
    <3>2. \A i \in DOMAIN events' : events'[i] \in Final => i = Len(events') /\ reader' = "ended"
      BY <2>1, <2>2, <3>1 DEF IInv, FinalIsLast
    <3>3. call' = "open" /\ stream' = "ended" => events' = <<>> /\ reader' = "ended"
      <4>1. 1 \in DOMAIN events
        BY <2>2
      <4>2. Head(events) = "error" => Len(events) = 1 /\ reader = "ended"
        BY <2>2, <4>1 DEF IInv, FinalIsLast, Final
      <4> QED
        BY <2>1, <2>2, <2>4, <4>2
    <3> QED
      BY <2>1, <3>2, <3>3 DEF IInv, FinalIsLast
  <2>8. SegmentsFlow'
    <3>1. Segments(events') \in Nat
      BY SegmentsType DEF TypeOK
    <3> QED
      BY <2>1, <2>2, <2>3, <3>1, Counts DEF IInv, SegmentsFlow, Is
  <2>9. DoneIsHonest'
    <3>1. /\ \A i \in DOMAIN events' : i + 1 \in DOMAIN events
          /\ 1 \in DOMAIN events
          /\ \A i \in DOMAIN reply' : i \in DOMAIN reply \/ i = Len(reply) + 1
      BY <2>2, <2>3
    <3> QED
      BY <2>1, <2>2, <2>3, <3>1 DEF IInv, DoneIsHonest
  <2> QED
    BY <1>1, <2>5, <2>6, <2>7, <2>8, <2>9 DEF IInv
<1>3. CASE StreamEnds \/ StreamDropped \/ Refuses
  <2>1. UNCHANGED <<handler, got, finished, dec, produced, pcm, out, call, wire, reply, pump,
                    reader, event, job, heard, issued, responses>>
    BY <1>3 DEF StreamEnds, StreamDropped, Refuses
  <2>2. \/ stream = "open" /\ events = <<>> /\ reader = "ended" /\ stream' = "ended"
           /\ UNCHANGED events
        \/ call # "open" /\ stream' = "dropped" /\ events' = <<>>
        \/ stream = "opening" /\ stream' = "refused" /\ UNCHANGED <<events, aborted>>
    BY <1>3 DEF StreamEnds, StreamDropped, Refuses
  <2>3. DOMAIN <<>> = {}
    OBVIOUS
  <2>4. AudioFlows'
    BY <2>1 DEF IInv, AudioFlows, Sent, Waiting
  <2>5. SessionLives'
    BY <2>1, <2>2 DEF IInv, SessionLives
  <2>6. FinalIsLast'
    BY <2>1, <2>2, <2>3 DEF IInv, FinalIsLast
  <2>7. SegmentsFlow'
    BY <2>1, <2>2 DEF IInv, SegmentsFlow
  <2>8. DoneIsHonest'
    BY <2>1, <2>2, <2>3 DEF IInv, DoneIsHonest
  <2> QED
    BY <1>1, <2>4, <2>5, <2>6, <2>7, <2>8 DEF IInv
<1>4. CASE Opens
  <2>1. /\ stream = "opening" /\ stream' = "open" /\ pump' = "next" /\ reader' = "recv"
        /\ job' = "running"
        /\ UNCHANGED <<handler, got, finished, dec, produced, pcm, out, call, wire, reply, events,
                       event, aborted, heard, issued, responses>>
    BY <1>4 DEF Opens
  <2>2. pump = "none" /\ reader = "none" /\ job = "none" /\ aborted = {} /\ event = "none"
    BY <2>1 DEF IInv, SessionLives
  <2>3. AudioFlows'
    <3>1. Waiting' = Waiting /\ Sent' = Sent
      BY <2>1 DEF Waiting, Sent
    <3> QED
      BY <2>1, <2>2, <3>1 DEF IInv, AudioFlows, Is
  <2>4. SessionLives'
    BY <2>1, <2>2 DEF IInv, SessionLives
  <2>5. FinalIsLast'
    BY <2>1, <2>2 DEF IInv, FinalIsLast, Final
  <2>6. SegmentsFlow'
    BY <2>1 DEF IInv, SegmentsFlow
  <2>7. DoneIsHonest'
    BY <2>1, <2>2 DEF IInv, DoneIsHonest
  <2> QED
    BY <1>1, <2>3, <2>4, <2>5, <2>6, <2>7 DEF IInv
<1> QED
  BY <1>2, <1>3, <1>4 DEF Service

LEMMA PumpKeeps ==
  ASSUME IInv, TypeOK', Pump \/ PumpAborted \/ SendAudio \/ SendAudioFails \/ Finish
  PROVE  IInv'
<1> USE DEF frontend, decoder, session, whisper, Pumps
<1>1. /\ UNCHANGED <<handler, got, finished, dec, produced, pcm, out, call, reply, stream, events,
                     reader, event, aborted, job, issued, responses>>
      /\ pump \in {"next", "send", "finish"} /\ pump' \in {"next", "send", "finish", "finished", "dropped"}
  BY DEF Pump, TakeAudio, AudioEnds, AudioFails, PumpAborted, SendAudio, SendAudioFails, Finish
<1>2. FailureIsLast'
  BY <1>1 DEF IInv, FailureIsLast
<1>3. SessionLives'
  BY <1>1 DEF IInv, SessionLives
<1>4. FinalIsLast'
  BY <1>1 DEF IInv, FinalIsLast
<1>5. SegmentsFlow'
  BY <1>1 DEF IInv, SegmentsFlow
<1>6. DoneIsHonest'
  BY <1>1 DEF IInv, DoneIsHonest
<1>7. AudioFlows'
  <2>1. Waiting' = Waiting /\ Sent' = Sent
    BY <1>1 DEF Waiting, Sent
  <2>2. wire \in Nat /\ heard \in Nat /\ Waiting \in Int
    BY TranscribeAssumption, LenProperties DEF IInv, TypeOK, Waiting, Is
  <2>3. \/ wire' = wire - 1 /\ pump = "next" /\ pump' = "send" /\ heard' = heard
        \/ pump = "send" /\ pump' = "next" /\ heard' = heard + 1 /\ wire' = wire
        \/ wire = 0 /\ out = "closed" /\ pump = "next" /\ pump' = "finish" /\ UNCHANGED <<wire, heard>>
        \/ pump = "finish" /\ pump' = "finished" /\ UNCHANGED <<wire, heard>>
        \/ pump' = "dropped" /\ UNCHANGED <<wire, heard>>
    BY DEF Pump, TakeAudio, AudioEnds, AudioFails, PumpAborted, SendAudio, SendAudioFails, Finish
  <2> QED
    BY <1>1, <2>1, <2>2, <2>3 DEF IInv, AudioFlows, Is
<1> QED
  BY <1>2, <1>3, <1>4, <1>5, <1>6, <1>7 DEF IInv

LEMMA ReaderKeeps == ASSUME IInv, TypeOK', Reader \/ ReaderAborted
                     PROVE  IInv'
<1> USE DEF frontend, decoder, session, whisper
<1>1. /\ UNCHANGED <<handler, got, finished, dec, produced, pcm, out, call, wire, reply, stream,
                     pump, aborted, job, heard, issued>>
      /\ reader \in {"recv", "send"}
  BY DEF Reader, Receive, SendEvent, SendEventFails, ReaderAborted
<1>2. FailureIsLast'
  BY <1>1 DEF IInv, FailureIsLast
<1>3. AudioFlows'
  BY <1>1 DEF IInv, AudioFlows, Sent, Waiting
<1>4. CASE Receive
  <2>1. /\ responses # <<>> /\ responses' = Tail(responses) /\ responses[1] = Head(responses)
        /\ DOMAIN responses = 1..Len(responses) /\ Len(responses) \in Nat \ {0}
        /\ Len(responses') = Len(responses) - 1 /\ DOMAIN responses' = 1..(Len(responses) - 1)
        /\ \A i \in DOMAIN responses' : responses'[i] = responses[i + 1]
        /\ Len(responses) = 1 => responses' = <<>>
        /\ Head(responses) \in {"segment", "note", "done", "error", "cancelled"}
        /\ Segments(responses) = Segments(responses') + Is(Head(responses) = "segment")
    BY <1>4, Removed, SegmentsTail DEF Receive, IInv, TypeOK
  <2>2. /\ event = "none" /\ reader = "recv" /\ UNCHANGED events
        /\ \/ Head(responses) = "note" /\ UNCHANGED <<reader, event>>
           \/ Head(responses) = "cancelled" /\ reader' = "ended" /\ UNCHANGED event
           \/ /\ Head(responses) \in {"segment", "done", "error"}
              /\ reader' = "send" /\ event' = Head(responses)
    BY <1>4, <2>1 DEF Receive, IInv, SessionLives
  <2>3. /\ \A i \in DOMAIN responses' : i + 1 \in DOMAIN responses
        /\ 1 \in DOMAIN responses
    BY <2>1
  <2>4. SessionLives'
    BY <1>1, <2>2 DEF IInv, SessionLives
  <2>5. FinalIsLast'
    <3>1. Head(responses) \in Final => responses' = <<>> /\ job \notin {"none", "running"}
      BY <2>1, <2>3 DEF IInv, FinalIsLast
    <3>2. \A i \in DOMAIN responses' :
            responses'[i] \in Final => i = Len(responses') /\ job' \notin {"none", "running"}
      BY <1>1, <2>1, <2>3 DEF IInv, FinalIsLast
    <3>3. \A i \in DOMAIN events : events[i] \notin Final
      BY <2>2 DEF IInv, FinalIsLast
    <3>4. ~(call = "open" /\ stream = "ended")
      BY <2>2 DEF IInv, FinalIsLast
    <3>5. event' \in Final \/ reader' = "ended" => Head(responses) \in Final
      BY <2>2 DEF Final
    <3> QED
      BY <1>1, <2>2, <3>1, <3>2, <3>3, <3>4, <3>5 DEF FinalIsLast
  <2>6. SegmentsFlow'
    <3>1. Segments(responses') \in Nat
      BY SegmentsType DEF TypeOK
    <3>2. Is(event = "segment") = 0 /\ Is(event' = "segment") = Is(Head(responses) = "segment")
      BY <2>2 DEF Is
    <3>3. Is(Head(responses) = "segment") \in Nat
      BY DEF Is
    <3> QED
      BY <1>1, <2>1, <2>2, <3>1, <3>2, <3>3, Counts DEF IInv, SegmentsFlow
  <2>7. DoneIsHonest'
    BY <1>1, <2>1, <2>2, <2>3 DEF IInv, DoneIsHonest
  <2> QED
    BY <1>2, <1>3, <2>4, <2>5, <2>6, <2>7 DEF IInv
<1>5. CASE SendEvent
  <2>1. event \in {"segment", "done", "error"}
    BY <1>5 DEF SendEvent, IInv, TypeOK, SessionLives
  <2>2. /\ DOMAIN events = 1..Len(events) /\ Len(events) \in Nat
        /\ Len(events') = Len(events) + 1 /\ DOMAIN events' = 1..(Len(events) + 1)
        /\ \A i \in DOMAIN events : events'[i] = events[i]
        /\ events'[Len(events) + 1] = event
        /\ Segments(events') = Segments(events) + Is(event = "segment")
    BY <1>5, <2>1, Added, SegmentsAppend DEF SendEvent, IInv, TypeOK
  <2>3. /\ stream = "open" /\ reader = "send" /\ event' = "none" /\ UNCHANGED responses
        /\ reader' = IF event = "segment" THEN "recv" ELSE "ended"
    BY <1>5 DEF SendEvent
  <2>4. \A i \in DOMAIN events' : i \in DOMAIN events \/ i = Len(events')
    BY <2>2
  <2>5. SessionLives'
    BY <1>1, <2>1, <2>3 DEF IInv, SessionLives
  <2>6. FinalIsLast'
    BY <1>1, <2>1, <2>2, <2>3, <2>4 DEF IInv, FinalIsLast, Final
  <2>7. SegmentsFlow'
    <3>1. Is(event' = "segment") = 0 /\ Is(event = "segment") \in Nat
      BY <2>3 DEF Is
    <3> QED
      BY <1>1, <2>2, <2>3, <3>1, Counts DEF IInv, SegmentsFlow
  <2>8. DoneIsHonest'
    BY <1>1, <2>1, <2>2, <2>3, <2>4 DEF IInv, DoneIsHonest
  <2> QED
    BY <1>2, <1>3, <2>5, <2>6, <2>7, <2>8 DEF IInv
<1>6. CASE SendEventFails \/ ReaderAborted
  <2>1. /\ call # "open" \/ stream \notin {"ended", "open"}
        /\ reader' = "ended" /\ event' = "none" /\ UNCHANGED <<events, responses>>
    <3>1. ~(call = "open" /\ stream = "ended")
      BY <1>1 DEF IInv, FinalIsLast
    <3> QED
      BY <1>6, <3>1 DEF SendEventFails, ReaderAborted, IInv, SessionLives
  <2>2. call # "open"
    <3>1. stream \in {"opening", "open", "refused", "ended", "dropped"}
      BY DEF IInv, TypeOK
    <3> QED
      BY <1>1, <2>1, <3>1 DEF IInv, SessionLives
  <2>3. SessionLives'
    BY <1>1, <2>1, <2>2 DEF IInv, SessionLives
  <2>4. FinalIsLast'
    BY <1>1, <2>1, <2>2 DEF IInv, FinalIsLast, Final
  <2>5. SegmentsFlow'
    BY <1>1, <2>2 DEF SegmentsFlow
  <2>6. DoneIsHonest'
    BY <1>1, <2>1 DEF IInv, DoneIsHonest
  <2> QED
    BY <1>2, <1>3, <2>3, <2>4, <2>5, <2>6 DEF IInv
<1> QED
  BY <1>4, <1>5, <1>6 DEF Reader

LEMMA WhisperKeeps == ASSUME IInv, TypeOK', Hears \/ Completes \/ Fails \/ Cancels
                      PROVE  IInv'
<1> USE DEF frontend, decoder, session, whisper
<1>1. /\ UNCHANGED <<handler, got, finished, dec, produced, pcm, out, call, wire, reply, stream,
                     events, pump, reader, event, aborted, heard>>
      /\ job = "running"
  BY DEF Hears, Completes, Fails, Cancels
<1>2. PICK r \in {"segment", "note", "done", "error", "cancelled"} :
        /\ Respond(r)
        /\ issued' = issued + Is(r = "segment")
        /\ r \in Final => job' \notin {"none", "running"}
        /\ r = "done" => pump = "finished"
        /\ job' = "done" <=> r = "done"
        /\ job' = "running" <=> r \notin Final
        /\ job' # "none"
  <2>1. issued \in Nat
    BY DEF IInv, TypeOK
  <2>2. CASE Hears
    BY <2>1, <2>2 DEF Hears, Is, Final
  <2>3. CASE Completes
    BY <2>1, <2>3 DEF Completes, Is, Final
  <2>4. CASE Fails
    BY <2>1, <2>4 DEF Fails, Is, Final
  <2>5. CASE Cancels
    BY <2>1, <2>5 DEF Cancels, Is, Final
  <2> QED
    BY <2>2, <2>3, <2>4, <2>5
<1>3. stream \notin {"opening", "refused"}
  BY <1>1 DEF IInv, SessionLives
<1>4. FailureIsLast' /\ SessionLives'
  BY <1>1, <1>3 DEF IInv, FailureIsLast, SessionLives
<1>5. AudioFlows'
  BY <1>1 DEF IInv, AudioFlows, Sent, Waiting
<1>6. CASE reader = "ended"
  <2>1. UNCHANGED responses /\ call # "open"
    BY <1>1, <1>2, <1>6 DEF Respond, IInv, FinalIsLast
  <2>2. \A i \in DOMAIN responses : responses[i] \notin Final
    BY <1>1 DEF IInv, FinalIsLast
  <2>3. FinalIsLast'
    BY <1>1, <2>1, <2>2 DEF IInv, FinalIsLast
  <2>4. SegmentsFlow'
    BY <1>1, <2>1 DEF SegmentsFlow
  <2>5. DoneIsHonest'
    BY <1>1, <1>2, <2>1, <1>6 DEF IInv, DoneIsHonest
  <2> QED
    BY <1>4, <1>5, <2>3, <2>4, <2>5 DEF IInv
<1>7. CASE reader # "ended"
  <2>1. /\ DOMAIN responses = 1..Len(responses) /\ Len(responses) \in Nat
        /\ Len(responses') = Len(responses) + 1 /\ DOMAIN responses' = 1..(Len(responses) + 1)
        /\ \A i \in DOMAIN responses : responses'[i] = responses[i]
        /\ responses'[Len(responses) + 1] = r
        /\ Segments(responses') = Segments(responses) + Is(r = "segment")
    <3> DEFINE Response == {"segment", "note", "done", "error", "cancelled"}
    <3>1. responses \in Seq(Response) /\ responses' = Append(responses, r) /\ r \in Response
      BY <1>2, <1>7 DEF Respond, IInv, TypeOK
    <3> HIDE DEF Response
    <3> QED
      BY <3>1, Added, SegmentsAppend
  <2>2. \A i \in DOMAIN responses' : i \in DOMAIN responses \/ i = Len(responses')
    BY <2>1
  <2>3. \A i \in DOMAIN responses : responses[i] \notin Final
    BY <1>1 DEF IInv, FinalIsLast
  <2>4. call = "open" => event \notin Final
    BY <1>1 DEF IInv, FinalIsLast
  <2>5. FinalIsLast'
    BY <1>1, <1>2, <1>7, <2>1, <2>2, <2>3, <2>4 DEF IInv, FinalIsLast
  <2>6. SegmentsFlow'
    <3>1. Is(r = "segment") \in Nat /\ Is(event = "segment") \in Nat
      BY DEF Is
    <3> QED
      BY <1>1, <1>2, <2>1, <3>1, Counts, SMTT(20) DEF IInv, SegmentsFlow
  <2>7. DoneIsHonest'
    BY <1>1, <1>2, <2>1, <2>2 DEF IInv, DoneIsHonest
  <2> QED
    BY <1>4, <1>5, <2>5, <2>6, <2>7 DEF IInv
<1> QED
  BY <1>6, <1>7

-----------------------------------------------------------------------------
LEMMA NextIInv == ASSUME IInv, [Next]_vars
                  PROVE  IInv'
<1>1. TypeOK'
  BY TypeStep DEF IInv, SessionLives
<1>2. CASE Idle \/ UNCHANGED vars
  <2>1. UNCHANGED vars
    BY <1>2 DEF Idle
  <2>2. UNCHANGED <<handler, got, finished, dec, produced, pcm, out, call, wire, reply, stream,
                    events, pump, reader, event, aborted, job, heard, issued, responses>>
    BY <2>1 DEF vars, frontend, decoder, session, whisper
  <2>3. SessionLives' /\ FinalIsLast' /\ SegmentsFlow' /\ DoneIsHonest'
    BY <2>2, DaemonKeeps
  <2>4. FailureIsLast' /\ AudioFlows'
    BY <2>2, CallerKeeps
  <2> QED
    BY <1>1, <2>3, <2>4 DEF IInv
<1> QED
  BY <1>1, <1>2, DecoderKeeps, OutboundKeeps, HandlerKeeps, ServiceKeeps, PumpKeeps, ReaderKeeps,
     WhisperKeeps DEF Next

\* The inductive invariant: every chunk and every segment is somewhere on its
\* way, or a failure is on its own way behind it (decode.rs, client/lib.rs,
\* service.rs and transcribe/mod.rs, from end to end).
THEOREM Invariance == Spec => []IInv
<1>1. Init => IInv
  BY InitIInv
<1>2. IInv /\ [Next]_vars => IInv'
  BY NextIInv
<1> QED
  BY <1>1, <1>2, PTL DEF Spec

\* Every variable has its type; in particular no channel ever holds more than
\* its bound, QUEUE of decode.rs and EVENT_BUFFER of transcribe/mod.rs.
THEOREM TypeCorrect == Spec => []TypeOK
<1>1. IInv => TypeOK
  BY DEF IInv
<1> QED
  BY <1>1, Invariance, PTL

LEMMA IInvConsistent == IInv => AnswerIsConsistent
<1> SUFFICES ASSUME IInv, handler = "ok"
             PROVE  heard = produced /\ got = issued /\ dec = "ended"
  BY DEF AnswerIsConsistent
<1>1. pump = "finished" /\ got = issued
  BY DEF IInv, DoneIsHonest
<1>2. wire = 0 /\ out = "closed" /\ pcm = <<>> /\ dec = "ended"
  BY <1>1 DEF IInv, AudioFlows
<1>3. Sent = produced /\ Waiting = 0 /\ Sent = Waiting + wire + Is(pump = "send") + heard
  <2>1. Len(<<>>) = 0 /\ produced \in Nat
    BY DEF IInv, TypeOK
  <2> QED
    BY <1>1, <1>2, <2>1 DEF IInv, AudioFlows, Sent, Waiting, Is
<1>4. heard \in Nat
  BY DEF IInv, TypeOK
<1> QED
  BY <1>1, <1>2, <1>3, <1>4 DEF Is

\* An upload answered with 200 was transcribed whole: what the decoder counted
\* is what rkwhisperd was given, and every segment it sent is in the body
\* (routes.rs:503-505), for every upload and every size of the channels.
THEOREM Consistency == Spec => []AnswerIsConsistent
  BY Invariance, IInvConsistent, PTL

\* The same under the fairness the liveness properties of the runs assume.
COROLLARY FairConsistency == FairSpec => []AnswerIsConsistent
  BY Consistency, PTL DEF FairSpec
-----------------------------------------------------------------------------
(* Who can take the next step.  Under the fairness of the threads and the  *)
(* tasks, what follows is what makes an upload end and leave nothing: the  *)
(* part of those liveness properties that is not about fairness.           *)

\* The guards of the steps that FairSpec assumes to be taken.
DecoderMay ==
  \/ dec \in {"decode", "count"}
  \/ dec \in {"send", "failed"} /\ (out = "open" => Len(pcm) < PcmQueue)
OutboundMay ==
  /\ out = "open"
  /\ \/ call # "open"
     \/ pcm = <<>> /\ dec = "ended"
     \/ pcm # <<>> /\ (Head(pcm) = "audio" => wire < Window)
HandlerMay ==
  /\ handler \in {"calling", "reading"}
  /\ \/ call = "lost"
     \/ call = "open" /\ handler = "calling" /\ stream \in {"open", "ended", "refused"}
     \/ call = "open" /\ handler = "reading" /\ (reply # <<>> \/ stream = "ended")
ServiceMay ==
  \/ stream = "open" /\ call = "open" /\ events # <<>> /\ Len(reply) < Window
  \/ stream = "open" /\ events = <<>> /\ reader = "ended"
  \/ stream \in {"opening", "open"} /\ call # "open"
PumpMay   == pump = "next" /\ (wire > 0 \/ out = "closed" \/ call # "open")
ReaderMay ==
  \/ reader = "recv" /\ responses # <<>>
  \/ reader = "send" /\ (stream = "open" => Len(events) < EventBuffer)
AbortMay  ==
  \/ "pump" \in aborted /\ pump \in {"next", "send", "finish"}
  \/ "reader" \in aborted /\ reader \in {"recv", "send"}

OwnMay ==
  DecoderMay \/ OutboundMay \/ HandlerMay \/ ServiceMay \/ PumpMay \/ ReaderMay \/ AbortMay

\* rkwhisperd has yet to open or refuse the session, to take audio, to take
\* the end of it, or to complete or cancel the job: the guards of the steps
\* that WhisperAnswers assumes.
WhisperOwes ==
  \/ stream = "opening"
  \/ pump \in {"send", "finish"}
  \/ job = "running" /\ pump \in {"finished", "dropped"}

\* Once the upload is answered, or its client has gone, whatever is left of it
\* in either process goes by itself, whether rkwhisperd hangs or not.
LeftoversGo == Answered /\ ~NothingLeft => OwnMay

\* Until it is answered, somebody can go on or rkwhisperd owes something: no
\* channel of the way fills against another for good (decode.rs:144-158, 237-250,
\* client lib.rs:83-104, transcribe/mod.rs:84-150).
AnswerIsOwed == ~Answered => OwnMay \/ WhisperOwes

\* What those two rest on beyond IInv: whoever answers ends the call, a stream
\* that is open has its tasks, one that is over has aborted them, and whatever
\* ended a job is told behind everything else.
Ending ==
  /\ call = "over" <=> Answered
  /\ handler = "reading" => stream \notin {"opening", "refused"}
  /\ stream = "open" => pump # "none" /\ reader # "none" /\ job # "none"
  /\ stream \in {"ended", "dropped"} => aborted = {"pump", "reader"}

FinalIsThere ==
  job \notin {"none", "running"} /\ reader \in {"recv", "send"} =>
    \/ event \in Final
    \/ responses # <<>> /\ responses[Len(responses)] \in Final

LEMMA EndingStep == ASSUME IInv, Ending, [Next]_vars PROVE Ending'
<1> USE DEF Ending, Answered, frontend, decoder, session, whisper
<1>0. TypeOK
  BY DEF IInv
<1>1. CASE Decoder \/ Outbound
  BY <1>1 DEF Decoder, NextChunk, EndOfUpload, DecodeFails, SendChunk, CountChunk, SendFailure,
     RequestEnded, Outbound, ForwardChunk, OutboundEnds, OutboundDropped
<1>2. CASE Handler \/ HangUp \/ LinkLost
  <2>1. UNCHANGED <<stream, pump, reader, job, aborted>>
    BY <1>2 DEF Handler, Opened, CallRefused, ReadEvent, ReadEnd, ReadLost, HangUp, LinkLost
  <2>2. call' = "over" <=> Answered'
    BY <1>2 DEF Handler, Opened, CallRefused, ReadEvent, ReadEnd, ReadLost, HangUp, LinkLost, Answer
  <2>3. handler' = "reading" => handler = "reading" \/ stream \in {"open", "ended"}
    BY <1>2 DEF Handler, Opened, CallRefused, ReadEvent, ReadEnd, ReadLost, HangUp, LinkLost, Answer
  <2> QED
    BY <2>1, <2>2, <2>3
<1>3. CASE Service
  BY <1>3 DEF Service, Relay, StreamEnds, StreamDropped, DropSession
<1>4. CASE Opens \/ Refuses
  BY <1>4 DEF Opens, Refuses
<1>5. CASE Pump \/ PumpAborted \/ SendAudio \/ SendAudioFails \/ Finish
  BY <1>5 DEF Pump, TakeAudio, AudioEnds, AudioFails, PumpAborted, SendAudio, SendAudioFails, Finish,
     Pumps
<1>6. CASE Reader \/ ReaderAborted
  <2>1. UNCHANGED <<handler, call, stream, pump, job, aborted>> /\ reader # "none" /\ reader' # "none"
    BY <1>6 DEF Reader, Receive, SendEvent, SendEventFails, ReaderAborted
  <2> QED
    BY <2>1
<1>7. CASE Hears \/ Completes \/ Fails \/ Cancels
  BY <1>7 DEF Hears, Completes, Fails, Cancels
<1>8. CASE UNCHANGED vars
  BY <1>8 DEF vars
<1> QED
  BY <1>1, <1>2, <1>3, <1>4, <1>5, <1>6, <1>7, <1>8 DEF Next, Idle

LEMMA FinalStays == ASSUME IInv, FinalIsThere, [Next]_vars PROVE FinalIsThere'
<1> USE DEF FinalIsThere, frontend, decoder, session, whisper
<1> DEFINE Response == {"segment", "note", "done", "error", "cancelled"}
<1>0. /\ responses \in Seq(Response) /\ (reader = "send" <=> event # "none")
      /\ event \in {"none", "segment", "done", "error"}
      /\ \A i \in DOMAIN responses :
           responses[i] \in Final => i = Len(responses) /\ job \notin {"none", "running"}
  BY DEF IInv, TypeOK, SessionLives, FinalIsLast
<1>1. CASE UNCHANGED <<job, reader, event, responses>>
  BY <1>1
<1>2. CASE Opens
  BY <1>2 DEF Opens
<1>3. CASE Receive
  <2>1. /\ responses # <<>> /\ responses' = Tail(responses) /\ UNCHANGED job /\ reader = "recv"
        /\ event = "none" /\ event \notin Final
    BY <1>0, <1>3 DEF Receive, Final
  <2>2. CASE job \notin {"none", "running"} /\ reader' \in {"recv", "send"} /\ event' \notin Final
    <3>1. responses[Len(responses)] \in Final
      BY <2>1, <2>2
    <3>2. Head(responses) \notin Final
      BY <1>3, <2>2 DEF Receive, Final
    <3>3. /\ Head(responses) = responses[1] /\ Len(responses) \in Nat \ {0}
          /\ Len(Tail(responses)) = Len(responses) - 1
          /\ \A i \in DOMAIN Tail(responses) : Tail(responses)[i] = responses[i + 1]
          /\ DOMAIN Tail(responses) = 1..(Len(responses) - 1)
      BY <1>0, <2>1, Removed
    <3>4. Len(responses) # 1
      BY <3>1, <3>2, <3>3
    <3>5. Len(responses) - 1 \in DOMAIN Tail(responses)
      BY <3>3, <3>4
    <3>6. Tail(responses)[Len(Tail(responses))] = responses[Len(responses)]
      BY <3>3, <3>5
    <3>7. Tail(responses) # <<>>
      <4>1. Len(<<>>) = 0
        OBVIOUS
      <4>2. Len(Tail(responses)) # 0
        BY <3>3, <3>4
      <4> QED
        BY <4>1, <4>2
    <3> QED
      BY <2>1, <3>1, <3>6, <3>7
  <2> QED
    BY <2>1, <2>2
<1>4. CASE SendEvent
  <2>1. /\ UNCHANGED <<job, responses>> /\ reader = "send"
        /\ reader' = "recv" => event = "segment"
        /\ reader' \in {"recv", "ended"}
    BY <1>4 DEF SendEvent
  <2> QED
    BY <2>1 DEF Final
<1>5. CASE SendEventFails \/ ReaderAborted
  BY <1>5 DEF SendEventFails, ReaderAborted
<1>6. CASE Hears
  BY <1>6 DEF Hears
<1>7. CASE Completes \/ Fails \/ Cancels
  <2>1. /\ UNCHANGED <<reader, event>>
        /\ \E r \in Final : reader # "ended" => responses' = Append(responses, r)
    BY <1>7 DEF Completes, Fails, Cancels, Respond, Final
  <2>2. ASSUME reader \in {"recv", "send"}
        PROVE  responses' # <<>> /\ responses'[Len(responses')] \in Final
    <3>1. PICK r \in Final : responses' = Append(responses, r)
      BY <2>1, <2>2
    <3>2. r \in Response
      BY DEF Final
    <3> QED
      BY <1>0, <3>1, <3>2, Added
  <2> QED
    BY <2>1, <2>2
<1>8. CASE UNCHANGED vars
  BY <1>8 DEF vars
<1> QED
  BY <1>1, <1>2, <1>3, <1>4, <1>5, <1>6, <1>7, <1>8
  DEF Next, Idle, Decoder, NextChunk, EndOfUpload, DecodeFails, SendChunk, CountChunk, SendFailure,
      RequestEnded, Outbound, ForwardChunk, OutboundEnds, OutboundDropped, Handler, Opened,
      CallRefused, ReadEvent, ReadEnd, ReadLost, HangUp, LinkLost, Service, Relay, StreamEnds,
      StreamDropped, Refuses, Pump, TakeAudio, AudioEnds, AudioFails, PumpAborted, SendAudio,
      SendAudioFails, Finish, Reader

\* The channels that nobody reads any more are those of a call that is over.
LEMMA LeftoversMove == ASSUME IInv, Ending, Answered, ~NothingLeft PROVE OwnMay
<1>1. call = "over"
  BY DEF Ending
<1>2. CASE dec # "ended"
  <2>1. CASE out = "open"
    BY <1>1, <2>1 DEF OwnMay, OutboundMay
  <2>2. CASE out # "open"
    BY <1>2, <2>2 DEF OwnMay, DecoderMay, IInv, TypeOK
  <2> QED
    BY <2>1, <2>2
<1>3. CASE stream \in {"opening", "open"}
  BY <1>1, <1>3 DEF OwnMay, ServiceMay
<1>4. CASE stream = "refused"
  <2>1. pump = "none" /\ reader = "none"
    BY <1>4 DEF IInv, SessionLives
  <2> QED
    BY <1>2, <1>4, <2>1 DEF NothingLeft
<1>5. CASE stream \in {"ended", "dropped"}
  <2>1. aborted = {"pump", "reader"}
    BY <1>5 DEF Ending
  <2>2. CASE pump \in {"next", "send", "finish"} \/ reader \in {"recv", "send"}
    BY <2>1, <2>2 DEF OwnMay, AbortMay
  <2>3. CASE pump \notin {"next", "send", "finish"} /\ reader \notin {"recv", "send"}
    BY <1>2, <1>5, <2>3 DEF NothingLeft, IInv, TypeOK
  <2> QED
    BY <2>2, <2>3
<1> QED
  BY <1>3, <1>4, <1>5 DEF IInv, TypeOK

\* With the way back empty, somebody on the way out can go on.
LEMMA OutwardMoves ==
  ASSUME IInv, Ending, call = "open", stream = "open", job = "running"
  PROVE  OwnMay \/ WhisperOwes
<1>1. pump # "none" /\ pump \in {"none", "next", "send", "finish", "finished", "dropped"}
  BY DEF Ending, IInv, TypeOK
<1>2. CASE pump \in {"send", "finish", "finished", "dropped"}
  BY <1>2 DEF WhisperOwes
<1>3. CASE pump = "next" /\ (wire > 0 \/ out = "closed")
  BY <1>3 DEF OwnMay, PumpMay
<1>4. CASE pump = "next" /\ wire = 0 /\ out = "open"
  <2>1. CASE pcm # <<>>
    BY <1>4, <2>1, TranscribeAssumption DEF TranscribeAssumption, OwnMay, OutboundMay
  <2>2. CASE pcm = <<>> /\ dec = "ended"
    BY <1>4, <2>2 DEF OwnMay, OutboundMay
  <2>3. CASE pcm = <<>> /\ dec # "ended"
    <3>1. Len(pcm) < PcmQueue
      BY <2>3, TranscribeAssumption DEF TranscribeAssumption
    <3> QED
      BY <2>3, <3>1 DEF OwnMay, DecoderMay, IInv, TypeOK
  <2> QED
    BY <2>1, <2>2, <2>3
<1>5. out # "dropped" /\ wire \in Nat /\ out \in {"open", "closed", "dropped"}
  BY TranscribeAssumption DEF TranscribeAssumption, IInv, AudioFlows, TypeOK
<1>6. wire > 0 \/ wire = 0
  BY <1>5
<1> QED
  BY <1>1, <1>2, <1>3, <1>4, <1>5, <1>6

LEMMA ReadingMoves ==
  ASSUME IInv, Ending, FinalIsThere, call = "open", handler = "reading"
  PROVE  OwnMay \/ WhisperOwes
<1>1. stream \in {"open", "ended"}
  BY DEF Ending, IInv, SessionLives, TypeOK
<1>2. CASE reply # <<>> \/ stream = "ended"
  BY <1>2 DEF OwnMay, HandlerMay
<1>3. CASE reply = <<>> /\ stream = "open"
  <2>1. Len(reply) < Window /\ Len(<<>>) < EventBuffer
    BY <1>3, TranscribeAssumption DEF TranscribeAssumption
  <2>2. reader \in {"recv", "send", "ended"} /\ job # "none"
    BY <1>3 DEF Ending, IInv, TypeOK
  <2>3. CASE events # <<>>
    BY <1>3, <2>1, <2>3 DEF OwnMay, ServiceMay
  <2>4. CASE events = <<>> /\ reader = "ended"
    BY <1>3, <2>4 DEF OwnMay, ServiceMay
  <2>5. CASE events = <<>> /\ reader = "send"
    BY <2>1, <2>5 DEF OwnMay, ReaderMay
  <2>6. CASE events = <<>> /\ reader = "recv"
    <3>1. CASE responses # <<>>
      BY <2>6, <3>1 DEF OwnMay, ReaderMay
    <3>2. CASE responses = <<>>
      <4>1. event = "none"
        BY <2>6 DEF IInv, SessionLives
      <4>2. job = "running"
        BY <2>2, <2>6, <3>2, <4>1 DEF FinalIsThere, Final
      <4> QED
        BY <1>3, <4>2, OutwardMoves
    <3> QED
      BY <3>1, <3>2
  <2> QED
    BY <2>2, <2>3, <2>4, <2>5, <2>6
<1> QED
  BY <1>1, <1>2, <1>3

LEMMA AnswerMoves == ASSUME IInv, Ending, FinalIsThere, ~Answered PROVE OwnMay \/ WhisperOwes
<1>1. handler \in {"calling", "reading"} /\ call \in {"open", "lost"}
  BY DEF IInv, TypeOK, Ending, Answered
<1>2. CASE call = "lost"
  BY <1>1, <1>2 DEF OwnMay, HandlerMay
<1>3. CASE call = "open" /\ handler = "calling"
  <2>1. stream \in {"opening", "open", "refused", "ended"}
    BY <1>3 DEF IInv, SessionLives, TypeOK
  <2> QED
    BY <1>3, <2>1 DEF OwnMay, HandlerMay, WhisperOwes
<1>4. CASE call = "open" /\ handler = "reading"
  BY <1>4, ReadingMoves
<1> QED
  BY <1>1, <1>2, <1>3, <1>4

LEMMA EndingAlways == Spec => [](IInv /\ Ending /\ FinalIsThere)
<1>1. Init => Ending /\ FinalIsThere
  BY DEF Init, Ending, Answered, FinalIsThere
<1>2. IInv /\ Ending /\ FinalIsThere /\ [Next]_vars => Ending' /\ FinalIsThere'
  BY EndingStep, FinalStays
<1> QED
  BY <1>1, <1>2, Invariance, PTL DEF Spec

\* What an upload leaves behind never waits for rkwhisperd or for the client:
\* a decoder finds its channel closed (decode.rs:243-247), a task of the session
\* is aborted (transcribe/mod.rs:73-78) or its channel is gone.
THEOREM NothingIsStuck == Spec => []LeftoversGo
<1>1. IInv /\ Ending /\ FinalIsThere => LeftoversGo
  BY LeftoversMove DEF LeftoversGo
<1> QED
  BY <1>1, EndingAlways, PTL

\* While the caller waits, its answer is never held up in a ring of full
\* channels: somebody of either process can go on, or the next step is one of
\* rkwhisperd's (decode.rs:144-158, 237-250, client lib.rs:83-104, transcribe/mod.rs:84-150).
THEOREM OnlyWhisperHolds == Spec => []AnswerIsOwed
<1>1. IInv /\ Ending /\ FinalIsThere => AnswerIsOwed
  BY AnswerMoves DEF AnswerIsOwed
<1> QED
  BY <1>1, EndingAlways, PTL
-----------------------------------------------------------------------------
(* How many steps are left.  An item costs more the further it has to go,  *)
(* and every step takes something from one of the places of the way.       *)

DecoderLeft(d, n) ==
  CASE d = "decode" -> 6 * (MaxChunks - n) + 6
    [] d = "send"   -> 6 * (MaxChunks - n) + 5
    [] d = "count"  -> 6 * (MaxChunks - n) + 1
    [] d = "failed" -> 4
    [] d = "ended"  -> 0
PcmLeft(s)     == 3 * Len(s)
OutLeft(o)     == IF o = "open" THEN 1 ELSE 0
WireLeft(n)    == 2 * n
PumpLeft(p)    == CASE p = "send" -> 3 [] p = "next" -> 2 [] p = "finish" -> 1 [] OTHER -> 0
WhisperLeft(s) == 4 * Len(s)
ReaderLeft(r)  == CASE r = "send" -> 4 [] r = "recv" -> 1 [] OTHER -> 0
EventsLeft(s)  == 2 * Len(s)
ReplyLeft(s)   == Len(s)
HandlerLeft(h) == CASE h = "calling" -> 2 [] h = "reading" -> 1 [] OTHER -> 0
CallLeft(c)    == IF c = "open" THEN 1 ELSE 0
StreamLeft(s)  == CASE s = "opening" -> 10 [] s = "open" -> 1 [] OTHER -> 0
JobLeft(j)     == IF j = "running" THEN 5 ELSE 0

\* What is left of the way to rkwhisperd, of the way back, and of the tasks.
AudioLeft(d, n, s, o, w, p) == DecoderLeft(d, n) + PcmLeft(s) + OutLeft(o) + WireLeft(w) + PumpLeft(p)
AnswerLeft(s, r, e, y)      == WhisperLeft(s) + ReaderLeft(r) + EventsLeft(e) + ReplyLeft(y)
TasksLeft(h, c, s, j)       == HandlerLeft(h) + CallLeft(c) + StreamLeft(s) + JobLeft(j)

Outward   == AudioLeft(dec, produced, pcm, out, wire, pump)
Homeward  == AnswerLeft(responses, reader, events, reply)
Tasks     == TasksLeft(handler, call, stream, job)
StepsLeft == Outward + Homeward + Tasks

\* A step that takes the upload nearer to its end.
Shortens == StepsLeft \in Nat /\ StepsLeft' \in Nat /\ StepsLeft' < StepsLeft

\* Only what rkwhisperd hears can make an upload longer.
OnlyHearingLengthens == Hears \/ Shortens

ChunksInBounds == produced <= MaxChunks /\ (dec \in {"send", "count"} => produced < MaxChunks)

LEMMA ChunksStep == ASSUME TypeOK, ChunksInBounds, [Next]_vars PROVE ChunksInBounds'
<1> USE TranscribeAssumption DEF TranscribeAssumption, ChunksInBounds, TypeOK, decoder
<1>1. CASE Decoder
  BY <1>1 DEF Decoder, NextChunk, EndOfUpload, DecodeFails, SendChunk, CountChunk, SendFailure,
     RequestEnded
<1>2. CASE UNCHANGED decoder
  BY <1>2
<1>3. CASE UNCHANGED vars
  BY <1>3 DEF vars
<1> QED
  BY <1>1, <1>2, <1>3
  DEF Next, Idle, Outbound, ForwardChunk, OutboundEnds, OutboundDropped, Handler, Opened,
      CallRefused, ReadEvent, ReadEnd, ReadLost, HangUp, LinkLost, Service, Relay, StreamEnds,
      StreamDropped, Opens, Refuses, Pump, TakeAudio, AudioEnds, AudioFails, PumpAborted, SendAudio,
      SendAudioFails, Finish, Reader, Receive, SendEvent, SendEventFails, ReaderAborted, Hears,
      Completes, Fails, Cancels

\* Every place holds a natural number of steps.
PlacesAreNat ==
  /\ DecoderLeft(dec, produced) \in Nat /\ PcmLeft(pcm) \in Nat /\ OutLeft(out) \in Nat
  /\ WireLeft(wire) \in Nat /\ PumpLeft(pump) \in Nat /\ WhisperLeft(responses) \in Nat
  /\ ReaderLeft(reader) \in Nat /\ EventsLeft(events) \in Nat /\ ReplyLeft(reply) \in Nat
  /\ HandlerLeft(handler) \in Nat /\ CallLeft(call) \in Nat /\ StreamLeft(stream) \in Nat
  /\ JobLeft(job) \in Nat

\* Whichever of the three a step takes from, it has taken a step from the whole.
LEMMA TakenFrom ==
  ASSUME PlacesAreNat, PlacesAreNat',
         \/ Outward' < Outward /\ Homeward' = Homeward /\ Tasks' = Tasks
         \/ Outward' = Outward /\ Homeward' < Homeward /\ Tasks' = Tasks
         \/ Outward' = Outward /\ Homeward' < Homeward /\ Tasks' <= Tasks
         \/ Outward' = Outward /\ Homeward' <= Homeward /\ Tasks' < Tasks
         \/ Outward' = Outward /\ Homeward' <= Homeward + 4 /\ Tasks' + 5 <= Tasks
         \/ Outward' <= Outward + 2 /\ Homeward' <= Homeward + 1 /\ Tasks' + 4 <= Tasks
  PROVE  Shortens
<1>1. Outward \in Nat /\ Homeward \in Nat /\ Tasks \in Nat
  BY DEF PlacesAreNat, Outward, Homeward, Tasks, AudioLeft, AnswerLeft, TasksLeft
<1>2. Outward' \in Nat /\ Homeward' \in Nat /\ Tasks' \in Nat
  BY DEF PlacesAreNat, Outward, Homeward, Tasks, AudioLeft, AnswerLeft, TasksLeft
<1> QED
  BY <1>1, <1>2 DEF Shortens, StepsLeft, Outward, Homeward, Tasks

LEMMA Places == ASSUME TypeOK, ChunksInBounds PROVE PlacesAreNat
<1>1. DecoderLeft(dec, produced) \in Nat
  <2>1. dec \in {"decode", "send", "count", "failed", "ended"}
    BY DEF TypeOK
  <2>2. MaxChunks - produced \in Nat
    BY TranscribeAssumption DEF TranscribeAssumption, TypeOK, ChunksInBounds
  <2>3. \A n \in Nat : 6 * n + 6 \in Nat /\ 6 * n + 5 \in Nat /\ 6 * n + 1 \in Nat
    OBVIOUS
  <2> QED
    BY <2>1, <2>2, <2>3 DEF DecoderLeft
<1>2. /\ OutLeft(out) \in Nat /\ PumpLeft(pump) \in Nat /\ ReaderLeft(reader) \in Nat
      /\ HandlerLeft(handler) \in Nat /\ CallLeft(call) \in Nat /\ StreamLeft(stream) \in Nat
      /\ JobLeft(job) \in Nat
  BY DEF OutLeft, PumpLeft, ReaderLeft, HandlerLeft, CallLeft, StreamLeft, JobLeft
<1>3. /\ PcmLeft(pcm) \in Nat /\ WireLeft(wire) \in Nat /\ WhisperLeft(responses) \in Nat
      /\ EventsLeft(events) \in Nat /\ ReplyLeft(reply) \in Nat
  <2>1. /\ Len(pcm) \in Nat /\ Len(responses) \in Nat /\ Len(events) \in Nat
        /\ Len(reply) \in Nat /\ wire \in Nat
    BY TranscribeAssumption DEF TranscribeAssumption, TypeOK
  <2> QED
    BY <2>1 DEF PcmLeft, WireLeft, WhisperLeft, EventsLeft, ReplyLeft
<1> QED
  BY <1>1, <1>2, <1>3 DEF PlacesAreNat

\* Taking the first item of a channel, and adding one.
LEMMA TakingIsLess ==
  ASSUME NEW S, NEW s \in Seq(S), s # <<>>
  PROVE  /\ PcmLeft(Tail(s)) + 3 = PcmLeft(s) /\ WhisperLeft(Tail(s)) + 4 = WhisperLeft(s)
         /\ EventsLeft(Tail(s)) + 2 = EventsLeft(s) /\ ReplyLeft(Tail(s)) + 1 = ReplyLeft(s)
<1>1. Len(s) \in Nat \ {0} /\ Len(Tail(s)) = Len(s) - 1
  BY Removed
<1> QED
  BY <1>1 DEF PcmLeft, WhisperLeft, EventsLeft, ReplyLeft

LEMMA AddingIsMore ==
  ASSUME NEW S, NEW s \in Seq(S), NEW e \in S
  PROVE  /\ PcmLeft(Append(s, e)) = PcmLeft(s) + 3
         /\ WhisperLeft(Append(s, e)) = WhisperLeft(s) + 4
         /\ EventsLeft(Append(s, e)) = EventsLeft(s) + 2
         /\ ReplyLeft(Append(s, e)) = ReplyLeft(s) + 1
<1>1. Len(s) \in Nat /\ Len(Append(s, e)) = Len(s) + 1
  BY Added
<1> QED
  BY <1>1 DEF PcmLeft, WhisperLeft, EventsLeft, ReplyLeft

LEMMA NothingQueued ==
  PcmLeft(<<>>) = 0 /\ WhisperLeft(<<>>) = 0 /\ EventsLeft(<<>>) = 0 /\ ReplyLeft(<<>>) = 0
<1>1. Len(<<>>) = 0
  OBVIOUS
<1> QED
  BY <1>1 DEF PcmLeft, WhisperLeft, EventsLeft, ReplyLeft

LEMMA DecoderShortens ==
  ASSUME TypeOK, PlacesAreNat, PlacesAreNat', ChunksInBounds, Decoder PROVE Shortens
<1>1. UNCHANGED <<wire, pump, responses, reader, job, events, reply, handler, call, stream, out>>
  BY DEF Decoder, NextChunk, EndOfUpload, DecodeFails, SendChunk, CountChunk, SendFailure,
     RequestEnded, SendPcm, session, whisper, frontend
<1>2. Homeward' = Homeward /\ Tasks' = Tasks
  BY <1>1 DEF Homeward, Tasks
<1> DEFINE left == MaxChunks - produced
           now  == DecoderLeft(dec, produced)
           next == DecoderLeft(dec', produced')
<1>3. left \in Nat /\ produced \in Nat /\ MaxChunks \in Nat
  BY TranscribeAssumption DEF TranscribeAssumption, TypeOK, ChunksInBounds
<1>4. CASE NextChunk \/ EndOfUpload \/ DecodeFails \/ RequestEnded
  <2>1. pcm' = pcm
    BY <1>4 DEF NextChunk, EndOfUpload, DecodeFails, RequestEnded
  <2>2. \/ now = 6 * left + 6 /\ next = 6 * left + 5
        \/ /\ now = 6 * left + 6 \/ now = 6 * left + 5
           /\ next = 4 \/ next = 0
        \/ now = 4 /\ next = 0
    BY <1>4 DEF NextChunk, EndOfUpload, DecodeFails, RequestEnded, DecoderLeft
  <2>3. next < now
    <3> HIDE DEF left, now, next
    <3> QED
      BY <1>3, <2>2
  <2>4. Outward' < Outward
    BY <1>1, <2>1, <2>3 DEF PlacesAreNat, Outward, AudioLeft
  <2> QED
    BY <1>2, <2>4, TakenFrom
<1>5. CASE SendChunk \/ SendFailure
  <2>1. pcm' = Append(pcm, "audio") \/ pcm' = Append(pcm, "error")
    BY <1>5 DEF SendChunk, SendFailure, SendPcm
  <2>2. PcmLeft(pcm') = PcmLeft(pcm) + 3
    <3>1. /\ pcm \in Seq({"audio", "error"})
          /\ "audio" \in {"audio", "error"} /\ "error" \in {"audio", "error"}
      BY DEF TypeOK
    <3> QED
      BY <2>1, <3>1, AddingIsMore
  <2>3. (now = 6 * left + 5 /\ next = 6 * left + 1) \/ (now = 4 /\ next = 0)
    BY <1>5 DEF SendChunk, SendFailure, DecoderLeft
  <2>4. next + 4 = now
    <3> HIDE DEF left, now, next
    <3> QED
      BY <1>3, <2>3
  <2>5. Outward' < Outward
    BY <1>1, <2>2, <2>4 DEF PlacesAreNat, Outward, AudioLeft
  <2> QED
    BY <1>2, <2>5, TakenFrom
<1>6. CASE CountChunk
  <2>1. pcm' = pcm
    BY <1>6 DEF CountChunk
  <2>2. now = 6 * left + 1 /\ next = 6 * (MaxChunks - (produced + 1)) + 6
    BY <1>6 DEF CountChunk, DecoderLeft
  <2>3. 6 * (MaxChunks - (produced + 1)) + 6 = 6 * left
    BY <1>3
  <2>4. next + 1 = now
    <3> HIDE DEF left, now, next
    <3> QED
      BY <1>3, <2>2, <2>3
  <2>5. Outward' < Outward
    BY <1>1, <2>1, <2>4 DEF PlacesAreNat, Outward, AudioLeft
  <2> QED
    BY <1>2, <2>5, TakenFrom
<1> QED
  BY <1>4, <1>5, <1>6 DEF Decoder

LEMMA OutboundShortens ==
  ASSUME TypeOK, PlacesAreNat, PlacesAreNat', Outbound PROVE Shortens
<1>1. UNCHANGED <<dec, produced, pump, responses, reader, job, events, reply, handler, call, stream>>
  BY DEF Outbound, ForwardChunk, OutboundEnds, OutboundDropped, decoder, session, whisper, frontend
<1>2. Homeward' = Homeward /\ Tasks' = Tasks
  BY <1>1 DEF Homeward, Tasks
<1>3. CASE ForwardChunk
  <2>1. PcmLeft(pcm') + 3 = PcmLeft(pcm) /\ out' = out
    BY <1>3, TakingIsLess DEF ForwardChunk, TypeOK
  <2>2. WireLeft(wire') = WireLeft(wire) + 2
    BY <1>3, TranscribeAssumption DEF TranscribeAssumption, ForwardChunk, TypeOK, WireLeft
  <2>3. Outward' < Outward
    BY <1>1, <2>1, <2>2 DEF PlacesAreNat, Outward, AudioLeft
  <2> QED
    BY <1>2, <2>3, TakenFrom
<1>4. CASE OutboundEnds \/ OutboundDropped
  <2>1. PcmLeft(pcm') = 0 /\ wire' = wire
    BY <1>4, NothingQueued DEF OutboundEnds, OutboundDropped
  <2>2. OutLeft(out') = 0 /\ OutLeft(out) = 1
    BY <1>4 DEF OutboundEnds, OutboundDropped, OutLeft
  <2>3. Outward' < Outward
    BY <1>1, <2>1, <2>2 DEF PlacesAreNat, Outward, AudioLeft
  <2> QED
    BY <1>2, <2>3, TakenFrom
<1> QED
  BY <1>3, <1>4 DEF Outbound

LEMMA HandlerShortens ==
  ASSUME TypeOK, PlacesAreNat, PlacesAreNat', Handler \/ HangUp \/ LinkLost PROVE Shortens
<1>1. UNCHANGED <<dec, produced, pcm, out, wire, pump, responses, reader, job, events, stream>>
  BY DEF Handler, Opened, CallRefused, ReadEvent, ReadEnd, ReadLost, HangUp, LinkLost,
     decoder, session, whisper
<1>2. Outward' = Outward
  BY <1>1 DEF Outward
<1>3. CASE ReadEvent
  <2>1. ReplyLeft(reply') + 1 = ReplyLeft(reply)
    BY <1>3, TakingIsLess DEF ReadEvent, TypeOK
  <2>2. /\ HandlerLeft(handler') = 0 \/ handler' = handler
        /\ CallLeft(call') = 0 \/ call' = call
    BY <1>3 DEF ReadEvent, Answer, HandlerLeft, CallLeft
  <2>3. Homeward' < Homeward
    BY <1>1, <2>1, <2>2 DEF PlacesAreNat, Homeward, AnswerLeft
  <2>4. Tasks' <= Tasks
    BY <1>1, <2>1, <2>2 DEF PlacesAreNat, Tasks, TasksLeft
  <2> QED
    BY <1>2, <2>3, <2>4, TakenFrom
<1>4. CASE LinkLost
  <2>1. handler' = handler /\ CallLeft(call') = 0 /\ CallLeft(call) = 1 /\ ReplyLeft(reply') = 0
    BY <1>4, NothingQueued DEF LinkLost, frontend, CallLeft
  <2>2. Homeward' <= Homeward
    BY <1>1, <2>1 DEF PlacesAreNat, Homeward, AnswerLeft
  <2>3. Tasks' < Tasks
    BY <1>1, <2>1 DEF PlacesAreNat, Tasks, TasksLeft
  <2> QED
    BY <1>2, <2>2, <2>3, TakenFrom
<1>5. CASE Opened \/ CallRefused \/ ReadEnd \/ ReadLost \/ HangUp
  <2>1. reply' = reply /\ (CallLeft(call') = 0 \/ call' = call)
    BY <1>5 DEF Opened, CallRefused, ReadEnd, ReadLost, HangUp, Answer, CallLeft
  <2>2. \/ HandlerLeft(handler) = 2 /\ HandlerLeft(handler') = 1
        \/ HandlerLeft(handler) \in {1, 2} /\ HandlerLeft(handler') = 0
    BY <1>5 DEF Opened, CallRefused, ReadEnd, ReadLost, HangUp, Answer, HandlerLeft
  <2>3. Homeward' <= Homeward
    BY <1>1, <2>1, <2>2 DEF PlacesAreNat, Homeward, AnswerLeft
  <2>4. Tasks' < Tasks
    BY <1>1, <2>1, <2>2 DEF PlacesAreNat, Tasks, TasksLeft
  <2> QED
    BY <1>2, <2>3, <2>4, TakenFrom
<1> QED
  BY <1>3, <1>4, <1>5 DEF Handler

LEMMA ServiceShortens ==
  ASSUME TypeOK, SessionLives, PlacesAreNat, PlacesAreNat', Service \/ Opens \/ Refuses PROVE Shortens
<1>1. UNCHANGED <<dec, produced, pcm, out, wire, responses, handler, call>>
  BY DEF Service, Relay, StreamEnds, StreamDropped, Opens, Refuses, decoder, session, whisper,
     frontend
<1>2. CASE Relay
  <2>1. /\ EventsLeft(events') + 2 = EventsLeft(events) /\ ReplyLeft(reply') = ReplyLeft(reply) + 1
        /\ UNCHANGED <<pump, reader, job>>
    <3>1. events \in Seq({"segment", "done", "error"}) /\ reply \in Seq({"segment", "done", "error"})
          /\ events # <<>> /\ events' = Tail(events) /\ reply' = Append(reply, Head(events))
      BY <1>2 DEF Relay, TypeOK
    <3>2. Head(events) \in {"segment", "done", "error"}
      BY <3>1, Removed
    <3> QED
      BY <1>2, <3>1, <3>2, TakingIsLess, AddingIsMore DEF Relay, whisper
  <2>2. stream' = stream \/ StreamLeft(stream') = 0
    BY <1>2 DEF Relay, StreamLeft
  <2>3. Outward' = Outward
    BY <1>1, <2>1, <2>2 DEF PlacesAreNat, Outward
  <2>4. Homeward' < Homeward
    BY <1>1, <2>1, <2>2 DEF PlacesAreNat, Homeward, AnswerLeft
  <2>5. Tasks' <= Tasks
    BY <1>1, <2>1, <2>2 DEF PlacesAreNat, Tasks, TasksLeft
  <2> QED
    BY <2>3, <2>4, <2>5, TakenFrom
<1>3. CASE StreamEnds \/ StreamDropped \/ Refuses
  <2>1. /\ UNCHANGED <<pump, reader, job, reply>>
        /\ EventsLeft(events') = 0 \/ events' = events
    BY <1>3, NothingQueued DEF StreamEnds, StreamDropped, Refuses, session, whisper
  <2>2. StreamLeft(stream) \in {1, 10} /\ StreamLeft(stream') = 0
    BY <1>3 DEF StreamEnds, StreamDropped, Refuses, StreamLeft
  <2>3. Outward' = Outward
    BY <1>1, <2>1, <2>2 DEF PlacesAreNat, Outward
  <2>4. Homeward' <= Homeward
    BY <1>1, <2>1, <2>2 DEF PlacesAreNat, Homeward, AnswerLeft
  <2>5. Tasks' < Tasks
    BY <1>1, <2>1, <2>2 DEF PlacesAreNat, Tasks, TasksLeft
  <2> QED
    BY <2>3, <2>4, <2>5, TakenFrom
<1>4. CASE Opens
  <2>1. UNCHANGED <<events, reply>> /\ pump = "none" /\ reader = "none" /\ job = "none"
    BY <1>4 DEF Opens, SessionLives
  <2>2. /\ StreamLeft(stream) = 10 /\ StreamLeft(stream') = 1
        /\ PumpLeft(pump') = 2 /\ ReaderLeft(reader') = 1 /\ JobLeft(job') = 5
    BY <1>4 DEF Opens, StreamLeft, PumpLeft, ReaderLeft, JobLeft
  <2>3. Outward' <= Outward + 2
    BY <1>1, <2>1, <2>2 DEF PlacesAreNat, Outward, AudioLeft
  <2>4. Homeward' <= Homeward + 1
    BY <1>1, <2>1, <2>2 DEF PlacesAreNat, Homeward, AnswerLeft
  <2>5. Tasks' + 4 <= Tasks
    BY <1>1, <2>1, <2>2 DEF PlacesAreNat, Tasks, TasksLeft
  <2> QED
    BY <2>3, <2>4, <2>5, TakenFrom
<1> QED
  BY <1>2, <1>3, <1>4 DEF Service

LEMMA PumpShortens ==
  ASSUME TypeOK, PlacesAreNat, PlacesAreNat',
         Pump \/ PumpAborted \/ SendAudio \/ SendAudioFails \/ Finish
  PROVE  Shortens
<1>1. UNCHANGED <<dec, produced, pcm, out, responses, handler, call, stream, events, reply, reader, job>>
  BY DEF Pump, TakeAudio, AudioEnds, AudioFails, PumpAborted, SendAudio, SendAudioFails, Finish,
     decoder, whisper, frontend
<1>2. Homeward' = Homeward /\ Tasks' = Tasks
  BY <1>1 DEF Homeward, Tasks
<1>3. CASE TakeAudio
  <2>1. WireLeft(wire') + 2 = WireLeft(wire)
    BY <1>3, TranscribeAssumption DEF TranscribeAssumption, TakeAudio, TypeOK, WireLeft
  <2>2. PumpLeft(pump) = 2 /\ PumpLeft(pump') = 3
    BY <1>3 DEF TakeAudio, Pumps, PumpLeft
  <2>3. Outward' < Outward
    BY <1>1, <2>1, <2>2 DEF PlacesAreNat, Outward, AudioLeft
  <2> QED
    BY <1>2, <2>3, TakenFrom
<1>4. CASE AudioEnds \/ AudioFails \/ PumpAborted \/ SendAudio \/ SendAudioFails \/ Finish
  <2>1. wire' = wire
    BY <1>4 DEF AudioEnds, AudioFails, PumpAborted, SendAudio, SendAudioFails, Finish
  <2>2. \/ PumpLeft(pump) = 3 /\ PumpLeft(pump') = 2
        \/ PumpLeft(pump) = 2 /\ PumpLeft(pump') = 1
        \/ PumpLeft(pump) \in {1, 2, 3} /\ PumpLeft(pump') = 0
    BY <1>4 DEF AudioEnds, AudioFails, PumpAborted, SendAudio, SendAudioFails, Finish, Pumps, PumpLeft
  <2>3. Outward' < Outward
    BY <1>1, <2>1, <2>2 DEF PlacesAreNat, Outward, AudioLeft
  <2> QED
    BY <1>2, <2>3, TakenFrom
<1> QED
  BY <1>3, <1>4 DEF Pump

LEMMA ReaderShortens ==
  ASSUME TypeOK, SessionLives, PlacesAreNat, PlacesAreNat', Reader \/ ReaderAborted PROVE Shortens
<1>1. UNCHANGED <<dec, produced, pcm, out, wire, pump, handler, call, stream, reply, job>>
  BY DEF Reader, Receive, SendEvent, SendEventFails, ReaderAborted, decoder, whisper, frontend
<1>2. Outward' = Outward /\ Tasks' = Tasks
  BY <1>1 DEF Outward, Tasks
<1>3. CASE Receive
  <2>1. WhisperLeft(responses') + 4 = WhisperLeft(responses) /\ events' = events
    BY <1>3, TakingIsLess DEF Receive, TypeOK
  <2>2. ReaderLeft(reader) = 1 /\ ReaderLeft(reader') \in {0, 1, 4}
    BY <1>3 DEF Receive, ReaderLeft
  <2>3. Homeward' < Homeward
    BY <1>1, <2>1, <2>2 DEF PlacesAreNat, Homeward, AnswerLeft
  <2> QED
    BY <1>2, <2>3, TakenFrom
<1>4. CASE SendEvent
  <2>1. event \in {"segment", "done", "error"}
    BY <1>4 DEF SendEvent, SessionLives, TypeOK
  <2>2. EventsLeft(events') = EventsLeft(events) + 2 /\ responses' = responses
    BY <1>4, <2>1, AddingIsMore DEF SendEvent, TypeOK, whisper
  <2>3. ReaderLeft(reader) = 4 /\ ReaderLeft(reader') \in {0, 1}
    BY <1>4 DEF SendEvent, ReaderLeft
  <2>4. Homeward' < Homeward
    BY <1>1, <2>2, <2>3 DEF PlacesAreNat, Homeward, AnswerLeft
  <2> QED
    BY <1>2, <2>4, TakenFrom
<1>5. CASE SendEventFails \/ ReaderAborted
  <2>1. UNCHANGED <<events, responses>>
    BY <1>5 DEF SendEventFails, ReaderAborted, whisper
  <2>2. ReaderLeft(reader) \in {1, 4} /\ ReaderLeft(reader') = 0
    BY <1>5 DEF SendEventFails, ReaderAborted, ReaderLeft
  <2>3. Homeward' < Homeward
    BY <1>1, <2>1, <2>2 DEF PlacesAreNat, Homeward, AnswerLeft
  <2> QED
    BY <1>2, <2>3, TakenFrom
<1> QED
  BY <1>3, <1>4, <1>5 DEF Reader

LEMMA WhisperShortens ==
  ASSUME TypeOK, PlacesAreNat, PlacesAreNat', Completes \/ Fails \/ Cancels PROVE Shortens
<1>1. UNCHANGED <<dec, produced, pcm, out, wire, pump, reader, handler, call, stream, events, reply>>
  BY DEF Completes, Fails, Cancels, decoder, session, frontend
<1> DEFINE Response == {"segment", "note", "done", "error", "cancelled"}
<1>2. responses' = responses \/ WhisperLeft(responses') = WhisperLeft(responses) + 4
  <2>1. \/ responses' = responses
        \/ \E r \in Response : responses' = Append(responses, r)
    BY DEF Completes, Fails, Cancels, Respond
  <2> QED
    <3>1. responses \in Seq(Response)
      BY DEF TypeOK
    <3> HIDE DEF Response
    <3> QED
      BY <2>1, <3>1, AddingIsMore
<1>3. JobLeft(job) = 5 /\ JobLeft(job') = 0
  BY DEF Completes, Fails, Cancels, JobLeft
<1>4. Outward' = Outward
  BY <1>1 DEF Outward
<1>5. Homeward' <= Homeward + 4
  BY <1>1, <1>2 DEF PlacesAreNat, Homeward, AnswerLeft
<1>6. Tasks' + 5 <= Tasks
  BY <1>1, <1>3 DEF PlacesAreNat, Tasks, TasksLeft
<1> QED
  BY <1>4, <1>5, <1>6, TakenFrom

\* Every step of an upload, but for a segment or a note that rkwhisperd adds,
\* shortens it: no path through the failures, hang-ups and aborts of its tasks
\* goes round in a circle (decode.rs:144-158, 237-250, client lib.rs:83-104,
\* transcribe/mod.rs:84-150).
THEOREM UploadsAreFinite == Spec => [][OnlyHearingLengthens]_vars
<1>1. ASSUME IInv, ChunksInBounds, PlacesAreNat, PlacesAreNat', Next, ~UNCHANGED vars
      PROVE  OnlyHearingLengthens
  <2>1. TypeOK /\ SessionLives
    BY <1>1 DEF IInv
  <2> QED
    BY <1>1, <2>1, DecoderShortens, OutboundShortens, HandlerShortens, ServiceShortens,
       PumpShortens, ReaderShortens, WhisperShortens DEF OnlyHearingLengthens, Next, Idle
<1>2. Init => ChunksInBounds
  BY TranscribeAssumption DEF TranscribeAssumption, Init, ChunksInBounds
<1>3. IInv /\ ChunksInBounds /\ [Next]_vars => ChunksInBounds'
  BY ChunksStep DEF IInv
<1>4. IInv /\ ChunksInBounds => PlacesAreNat
  BY Places DEF IInv
<1>5. IInv /\ ChunksInBounds /\ PlacesAreNat /\ PlacesAreNat' /\ [Next]_vars
        => [OnlyHearingLengthens]_vars
  BY <1>1
<1> QED
  BY <1>2, <1>3, <1>4, <1>5, Invariance, PTL DEF Spec
=============================================================================
