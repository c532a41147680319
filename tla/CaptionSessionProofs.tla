------------------------ MODULE CaptionSessionProofs ------------------------
(***************************************************************************)
(* No audio and no final request of a caption session is lost, duplicated  *)
(* or mixed up between its threads, for mailboxes of any capacity and any  *)
(* amount of audio and speech.  The inductive invariant SessionInv has     *)
(* three parts that are taken one by one: types, audio, requests.          *)
(***************************************************************************)
EXTENDS CaptionSession, FiniteSetTheorems, SequenceTheorems, TLAPS

USE SessionAssumption
    DEF told, lifecycle, microphone, audio, recognition, mailboxes, correction,
        correctionMailbox, translation, Chunks, Utterances, Provisionals, Nothing, Sending

-----------------------------------------------------------------------------
(* Mailboxes.                                                              *)

LEMMA QueueAppend ==
    ASSUME NEW S, NEW q \in Seq(S), NEW x \in S
    PROVE  /\ Append(q, x) \in Seq(S)
           /\ Len(Append(q, x)) = Len(q) + 1
           /\ DOMAIN Append(q, x) = 1..Len(q) + 1
           /\ \A i \in 1..Len(q) : Append(q, x)[i] = q[i]
           /\ Append(q, x)[Len(q) + 1] = x
OBVIOUS

LEMMA QueueTail ==
    ASSUME NEW S, NEW q \in Seq(S), q # <<>>
    PROVE  /\ Tail(q) \in Seq(S)
           /\ Len(q) >= 1 /\ Len(Tail(q)) = Len(q) - 1
           /\ DOMAIN Tail(q) = 1..Len(q) - 1
           /\ \A i \in 1..Len(q) - 1 : Tail(q)[i] = q[i + 1]
           /\ Head(q) = q[1] /\ Head(q) \in S
OBVIOUS

LEMMA QueueShift ==
    ASSUME NEW S, NEW q \in Seq(S), q # <<>>, NEW x \in S
    PROVE  /\ Append(Tail(q), x) \in Seq(S)
           /\ Len(q) >= 1 /\ Len(Append(Tail(q), x)) = Len(q)
           /\ DOMAIN Append(Tail(q), x) = 1..Len(q)
           /\ \A i \in 1..Len(q) - 1 : Append(Tail(q), x)[i] = q[i + 1]
           /\ Append(Tail(q), x)[Len(q)] = x
           /\ Head(q) = q[1] /\ Head(q) \in S
<1>1. /\ Tail(q) \in Seq(S) /\ Len(q) \in Nat
      /\ Len(q) >= 1 /\ Len(Tail(q)) = Len(q) - 1
      /\ \A i \in 1..Len(q) - 1 : Tail(q)[i] = q[i + 1]
      /\ Head(q) = q[1] /\ Head(q) \in S
  BY QueueTail
<1>. DEFINE t == Tail(q)
<1>. HIDE DEF t
<1>2. /\ Append(t, x) \in Seq(S)
      /\ Len(Append(t, x)) = Len(t) + 1
      /\ DOMAIN Append(t, x) = 1..Len(t) + 1
      /\ \A i \in 1..Len(t) : Append(t, x)[i] = t[i]
      /\ Append(t, x)[Len(t) + 1] = x
  BY <1>1, QueueAppend DEF t
<1>. QED  BY <1>1, <1>2 DEF t

-----------------------------------------------------------------------------
(* Flags and program counters.                                             *)

LEMMA PreemptIsFlag ==
    ASSUME FlagsOK, Preempt
    PROVE  preempted' \in BOOLEAN
BY Zenon DEF FlagsOK, Preempt

LEMMA FlagsStayFlags ==
    ASSUME FlagsOK, Next
    PROVE  FlagsOK'
<1>. USE DEF FlagsOK, Fail
<1>1. CASE Microphone
  <2>1. CASE MicStarts
    BY <2>1 DEF MicStarts
  <2>2. CASE MicReads
    BY <2>2 DEF MicReads
  <2>3. CASE MicOffers
    BY <2>3 DEF MicOffers
  <2>4. CASE MicStops
    BY <2>4 DEF MicStops
  <2>5. CASE MicFinishes
    BY <2>5 DEF MicFinishes
  <2>. QED  BY <1>1, <2>1, <2>2, <2>3, <2>4, <2>5 DEF Microphone
<1>2. CASE Recognition
  <2>1. CASE AsrInitializes
    BY <2>1 DEF AsrInitializes
  <2>2. CASE AsrAwaits
    BY <2>2 DEF AsrAwaits
  <2>3. CASE AsrFails
    <3>1. cancelled' \in BOOLEAN /\ stopping' \in BOOLEAN /\ interrupting' \in BOOLEAN
      BY <2>3, Zenon DEF AsrFails
    <3>. QED  BY <2>3, <3>1 DEF AsrFails
  <2>4. CASE StartCapture
    BY <2>4 DEF StartCapture
  <2>5. CASE AsrPolls
    BY <2>5 DEF AsrPolls
  <2>6. CASE AsrRebuilds
    BY <2>6 DEF AsrRebuilds
  <2>7. CASE AsrReadsSize
    BY <2>7 DEF AsrReadsSize
  <2>8. CASE AsrDecides
    <3>1. sawAudio' \in BOOLEAN
      BY <2>8, Zenon DEF AsrDecides
    <3>. QED  BY <2>8, <3>1 DEF AsrDecides
  <2>9. CASE Partial
    <3>1. preempted' \in BOOLEAN
      BY <2>9, PreemptIsFlag DEF Partial
    <3>. QED  BY <2>9, <3>1 DEF Partial
  <2>10. CASE BlankEndpoint
    BY <2>10 DEF BlankEndpoint
  <2>11. CASE Endpoint
    BY <2>11 DEF Endpoint
  <2>12. CASE Admit
    BY <2>12 DEF Admit
  <2>18. CASE ClaimCorrector
    <3>1. correctionBusy' \in BOOLEAN
      BY <2>18, Zenon DEF ClaimCorrector
    <3>. QED  BY <2>18, <3>1 DEF ClaimCorrector
  <2>13. CASE OfferCorrection
    <3>1. Preempt \/ UNCHANGED preempted
      BY <2>13 DEF OfferCorrection, EnqueueFinal
    <3>2. preempted' \in BOOLEAN
      BY <3>1, PreemptIsFlag
    <3>3. correctionBusy' \in BOOLEAN
      BY <2>13, Zenon DEF OfferCorrection
    <3>. QED  BY <2>13, <3>2, <3>3 DEF OfferCorrection
  <2>14. CASE EnqueueUncorrected
    <3>1. preempted' \in BOOLEAN
      BY <2>14, PreemptIsFlag DEF EnqueueUncorrected, EnqueueFinal
    <3>. QED  BY <2>14, <3>1 DEF EnqueueUncorrected
  <2>15. CASE AsrReturns
    BY <2>15 DEF AsrReturns
  <2>16. CASE AsrCancelled
    BY <2>16 DEF AsrCancelled
  <2>17. CASE AsrExits
    <3>1. active' \in BOOLEAN /\ asrFinished' \in BOOLEAN
      BY <2>17, Zenon DEF AsrExits
    <3>. QED  BY <2>17, <3>1 DEF AsrExits
  <2>. QED  BY <1>2, <2>1, <2>2, <2>3, <2>4, <2>5, <2>6, <2>7, <2>8, <2>9, <2>10, <2>11, <2>12, <2>13, <2>14, <2>15, <2>16, <2>17, <2>18
            DEF Recognition
<1>3. CASE Correction
  <2>1. CASE CorrectorInitializes
    BY <2>1 DEF CorrectorInitializes
  <2>2. CASE CorrectorBecomesReady
    BY <2>2 DEF CorrectorBecomesReady
  <2>3. CASE CorrectorReads
    BY <2>3 DEF CorrectorReads
  <2>4. CASE CorrectorDecides
    <3>1. sawCorrection' \in BOOLEAN
      BY <2>4, Zenon DEF CorrectorDecides
    <3>. QED  BY <2>4, <3>1 DEF CorrectorDecides
  <2>5. CASE CorrectorPolls
    BY <2>5 DEF CorrectorPolls
  <2>6. CASE CorrectionSuperseded
    BY <2>6 DEF CorrectionSuperseded
  <2>7. CASE CorrectionDecided
    <3>1. Preempt \/ UNCHANGED preempted
      BY <2>7 DEF CorrectionDecided, EnqueueFinal
    <3>2. preempted' \in BOOLEAN
      BY <3>1, PreemptIsFlag
    <3>. QED  BY <2>7, <3>2 DEF CorrectionDecided
  <2>8. CASE CorrectionTimesOut
    <3>1. correctionReady' \in BOOLEAN
      BY <2>8, Zenon DEF CorrectionTimesOut
    <3>. QED  BY <2>8, <3>1 DEF CorrectionTimesOut
  <2>9. CASE FallBack
    <3>1. Preempt \/ UNCHANGED preempted
      BY <2>9 DEF FallBack, EnqueueFinal
    <3>2. preempted' \in BOOLEAN
      BY <3>1, PreemptIsFlag
    <3>. QED  BY <2>9, <3>2 DEF FallBack
  <2>10. CASE DrainCorrections
    <3>1. Preempt \/ UNCHANGED preempted
      BY <2>10 DEF DrainCorrections, EnqueueFinal
    <3>2. preempted' \in BOOLEAN
      BY <3>1, PreemptIsFlag
    <3>. QED  BY <2>10, <3>2 DEF DrainCorrections
  <2>11. CASE EndCorrection
    <3>1. correctionBusy' \in BOOLEAN
      BY <2>11, Zenon DEF EndCorrection
    <3>. QED  BY <2>11, <3>1 DEF EndCorrection
  <2>12. CASE CorrectorExits
    <3>1. correctionReady' \in BOOLEAN /\ correctionFinished' \in BOOLEAN
      BY <2>12, Zenon DEF CorrectorExits
    <3>. QED  BY <2>12, <3>1 DEF CorrectorExits
  <2>. QED  BY <1>3, <2>1, <2>2, <2>3, <2>4, <2>5, <2>6, <2>7, <2>8, <2>9, <2>10, <2>11, <2>12
            DEF Correction
<1>4. CASE Translation
  <2>1. CASE HyInitializes
    BY <2>1 DEF HyInitializes
  <2>2. CASE HyFails
    <3>1. cancelled' \in BOOLEAN /\ stopping' \in BOOLEAN /\ interrupting' \in BOOLEAN
      BY <2>2, Zenon DEF HyFails
    <3>. QED  BY <2>2, <3>1 DEF HyFails
  <2>3. CASE HyReads
    BY <2>3 DEF HyReads
  <2>4. CASE HyDecides
    <3>1. sawRequests' \in BOOLEAN
      BY <2>4, Zenon DEF HyDecides
    <3>. QED  BY <2>4, <3>1 DEF HyDecides
  <2>5. CASE HyPolls
    BY <2>5 DEF HyPolls
  <2>6. CASE HyRejects
    BY <2>6 DEF HyRejects
  <2>7. CASE HyStarts
    BY <2>7 DEF HyStarts
  <2>8. CASE HyReturns
    BY <2>8 DEF HyReturns
  <2>9. CASE HyCancelled
    BY <2>9 DEF HyCancelled
  <2>10. CASE HyClears
    <3>1. preempted' \in BOOLEAN
      BY <2>10, Zenon DEF HyClears
    <3>. QED  BY <2>10, <3>1 DEF HyClears
  <2>. QED  BY <1>4, <2>1, <2>2, <2>3, <2>4, <2>5, <2>6, <2>7, <2>8, <2>9, <2>10
            DEF Translation
<1>5. CASE Stop
  <2>1. stopping' \in BOOLEAN /\ active' \in BOOLEAN
    BY <1>5, Zenon DEF Stop
  <2>. QED  BY <1>5, <2>1 DEF Stop
<1>6. CASE Cancel
  BY <1>6 DEF Cancel
<1>7. CASE InterruptWorkers
  <2>1. interrupting' \in BOOLEAN /\ active' \in BOOLEAN /\ closed' \in BOOLEAN
    BY <1>7, Zenon DEF InterruptWorkers
  <2>. QED  BY <1>7, <2>1 DEF InterruptWorkers
<1>8. CASE ClearCaptions
  BY <1>8 DEF ClearCaptions
<1>. QED  BY <1>1, <1>2, <1>3, <1>4, <1>5, <1>6, <1>7, <1>8 DEF Next

LEMMA ThreadsStayInPlace ==
    ASSUME ThreadsOK, Next
    PROVE  ThreadsOK'
<1>. USE DEF ThreadsOK, Report, Fail, LooksAgain, AtCheck
<1>1. CASE Microphone
  <2>1. CASE MicStarts
    BY <2>1 DEF MicStarts
  <2>2. CASE MicReads
    BY <2>2 DEF MicReads
  <2>3. CASE MicOffers
    BY <2>3 DEF MicOffers
  <2>4. CASE MicStops
    BY <2>4 DEF MicStops
  <2>5. CASE MicFinishes
    BY <2>5 DEF MicFinishes
  <2>. QED  BY <1>1, <2>1, <2>2, <2>3, <2>4, <2>5 DEF Microphone
<1>2. CASE Recognition
  <2>1. CASE AsrInitializes
    BY <2>1 DEF AsrInitializes
  <2>2. CASE AsrAwaits
    BY <2>2 DEF AsrAwaits
  <2>3. CASE AsrFails
    BY <2>3 DEF AsrFails
  <2>4. CASE StartCapture
    BY <2>4 DEF StartCapture
  <2>5. CASE AsrPolls
    BY <2>5 DEF AsrPolls
  <2>6. CASE AsrRebuilds
    BY <2>6 DEF AsrRebuilds
  <2>7. CASE AsrReadsSize
    BY <2>7 DEF AsrReadsSize
  <2>8. CASE AsrDecides
    BY <2>8 DEF AsrDecides
  <2>9. CASE Partial
    BY <2>9 DEF Partial
  <2>10. CASE BlankEndpoint
    BY <2>10 DEF BlankEndpoint
  <2>11. CASE Endpoint
    BY <2>11 DEF Endpoint
  <2>12. CASE Admit
    BY <2>12 DEF Admit
  <2>18. CASE ClaimCorrector
    BY <2>18 DEF ClaimCorrector
  <2>13. CASE OfferCorrection
    BY <2>13 DEF OfferCorrection
  <2>14. CASE EnqueueUncorrected
    BY <2>14 DEF EnqueueUncorrected
  <2>15. CASE AsrReturns
    BY <2>15 DEF AsrReturns
  <2>16. CASE AsrCancelled
    BY <2>16 DEF AsrCancelled
  <2>17. CASE AsrExits
    BY <2>17 DEF AsrExits
  <2>. QED  BY <1>2, <2>1, <2>2, <2>3, <2>4, <2>5, <2>6, <2>7, <2>8, <2>9, <2>10, <2>11, <2>12, <2>13, <2>14, <2>15, <2>16, <2>17, <2>18
            DEF Recognition
<1>3. CASE Correction
  <2>1. CASE CorrectorInitializes
    BY <2>1 DEF CorrectorInitializes
  <2>2. CASE CorrectorBecomesReady
    BY <2>2 DEF CorrectorBecomesReady
  <2>3. CASE CorrectorReads
    BY <2>3 DEF CorrectorReads
  <2>4. CASE CorrectorDecides
    BY <2>4 DEF CorrectorDecides
  <2>5. CASE CorrectorPolls
    BY <2>5 DEF CorrectorPolls
  <2>6. CASE CorrectionSuperseded
    BY <2>6 DEF CorrectionSuperseded
  <2>7. CASE CorrectionDecided
    BY <2>7 DEF CorrectionDecided
  <2>8. CASE CorrectionTimesOut
    BY <2>8 DEF CorrectionTimesOut
  <2>9. CASE FallBack
    BY <2>9 DEF FallBack
  <2>10. CASE DrainCorrections
    BY <2>10 DEF DrainCorrections
  <2>11. CASE EndCorrection
    BY <2>11 DEF EndCorrection
  <2>12. CASE CorrectorExits
    BY <2>12 DEF CorrectorExits
  <2>. QED  BY <1>3, <2>1, <2>2, <2>3, <2>4, <2>5, <2>6, <2>7, <2>8, <2>9, <2>10, <2>11, <2>12
            DEF Correction
<1>4. CASE Translation
  <2>1. CASE HyInitializes
    BY <2>1 DEF HyInitializes
  <2>2. CASE HyFails
    BY <2>2 DEF HyFails
  <2>3. CASE HyReads
    BY <2>3 DEF HyReads
  <2>4. CASE HyDecides
    BY <2>4 DEF HyDecides
  <2>5. CASE HyPolls
    BY <2>5 DEF HyPolls
  <2>6. CASE HyRejects
    BY <2>6 DEF HyRejects
  <2>7. CASE HyStarts
    BY <2>7 DEF HyStarts
  <2>8. CASE HyReturns
    BY <2>8 DEF HyReturns
  <2>9. CASE HyCancelled
    BY <2>9 DEF HyCancelled
  <2>10. CASE HyClears
    BY <2>10 DEF HyClears
  <2>. QED  BY <1>4, <2>1, <2>2, <2>3, <2>4, <2>5, <2>6, <2>7, <2>8, <2>9, <2>10
            DEF Translation
<1>5. CASE Stop
  BY <1>5 DEF Stop
<1>6. CASE Cancel
  BY <1>6 DEF Cancel
<1>7. CASE InterruptWorkers
  BY <1>7 DEF InterruptWorkers
<1>8. CASE ClearCaptions
  BY <1>8 DEF ClearCaptions
<1>. QED  BY <1>1, <1>2, <1>3, <1>4, <1>5, <1>6, <1>7, <1>8 DEF Next

-----------------------------------------------------------------------------
(* Audio.                                                                  *)

AudioInv ==
    /\ AudioOK
    /\ ClosedIsEmpty /\ QueueIsRecent /\ PastIsAccounted
    /\ UtteranceIsContiguous /\ UtteranceEndsAtPrevious

(* What all but six actions leave alone. *)
AudioUntouched ==
    /\ UNCHANGED <<captured, audioQueue, dropped, heard, previous, open, closed>>
    /\ asr = "rebuilding" <=> asr' = "rebuilding"
    /\ mic' \in {"holding", "holdingLast"} =>
           mic \in {"holding", "holdingLast"} \/ captured < MaxChunks

LEMMA AudioFrame ==
    ASSUME ThreadsOK, Next
    PROVE  \/ MicOffers \/ AsrPolls \/ AsrRebuilds \/ BlankEndpoint \/ Endpoint
           \/ InterruptWorkers \/ AudioUntouched
<1>. USE DEF AudioUntouched
<1>1. CASE Microphone
  BY <1>1 DEF Microphone, MicStarts, MicReads, MicStops, MicFinishes
<1>2. CASE Recognition
  <2>1. CASE AsrInitializes \/ AsrAwaits \/ AsrFails \/ StartCapture
    BY <2>1 DEF AsrInitializes, AsrAwaits, AsrFails, Fail, StartCapture
  <2>2. CASE AsrReadsSize \/ AsrDecides \/ Partial \/ Admit \/ ClaimCorrector
    BY <2>2 DEF AsrReadsSize, AsrDecides, Partial, Admit, ClaimCorrector
  <2>3. CASE OfferCorrection \/ EnqueueUncorrected
    BY <2>3 DEF OfferCorrection, EnqueueUncorrected, ThreadsOK
  <2>4. CASE AsrReturns \/ AsrCancelled \/ AsrExits
    BY <2>4 DEF AsrReturns, AsrCancelled, AsrExits
  <2>. QED  BY <1>2, <2>1, <2>2, <2>3, <2>4 DEF Recognition
<1>3. CASE Correction
  BY <1>3 DEF Correction, CorrectorInitializes, CorrectorBecomesReady, CorrectorReads,
              CorrectorDecides, CorrectorPolls, CorrectionSuperseded, CorrectionDecided,
              CorrectionTimesOut, FallBack, DrainCorrections, EndCorrection, CorrectorExits
<1>4. CASE Translation
  BY <1>4 DEF Translation, HyInitializes, HyFails, Fail, HyReads, HyDecides, HyPolls,
              HyRejects, HyStarts, HyReturns, HyCancelled, HyClears
<1>5. CASE Stop \/ Cancel \/ ClearCaptions
  BY <1>5 DEF Stop, Cancel, ClearCaptions
<1>. QED  BY <1>1, <1>2, <1>3, <1>4, <1>5 DEF Next

(* The microphone's chunk follows the last one; the chunk that makes room  *)
(* was the oldest of the queue.                                            *)
LEMMA OfferKeepsAudio ==
    ASSUME AudioInv, MicOffers
    PROVE  AudioInv'
<1>. DEFINE past == captured - Len(audioQueue)
<1>1. /\ captured < MaxChunks /\ OfferChunk
      /\ UNCHANGED <<closed, asr, heard, previous, open>>
      /\ mic' \notin {"holding", "holdingLast"}
  BY DEF AudioInv, AudioOK, MicOffers
<1>2. /\ captured \in 0..MaxChunks /\ captured + 1 \in Chunks
      /\ audioQueue \in Seq(Chunks) /\ Len(audioQueue) \in Nat
      /\ past \in Nat
  BY <1>1 DEF AudioInv, AudioOK, QueueIsRecent
<1>3. UtteranceIsContiguous' /\ UtteranceEndsAtPrevious'
  BY <1>1 DEF AudioInv, UtteranceIsContiguous, UtteranceEndsAtPrevious
<1>4. CASE UNCHANGED <<captured, audioQueue, dropped>>
  BY <1>1, <1>3, <1>4 DEF AudioInv, AudioOK, ClosedIsEmpty, QueueIsRecent, PastIsAccounted, Stray
<1>7. CASE /\ closed /\ captured' = captured + 1
           /\ UNCHANGED audioQueue /\ dropped' = dropped \cup {captured + 1}
  <2>1. audioQueue = <<>>
    BY <1>7 DEF AudioInv, ClosedIsEmpty
  <2>2. AudioOK'
    BY <1>1, <1>2, <1>7 DEF AudioInv, AudioOK
  <2>3. ClosedIsEmpty' /\ QueueIsRecent' /\ PastIsAccounted'
    BY <1>1, <1>2, <1>7, <2>1 DEF ClosedIsEmpty, QueueIsRecent, PastIsAccounted
  <2>. QED  BY <1>3, <2>2, <2>3 DEF AudioInv
<1>5. CASE /\ ~closed /\ Len(audioQueue) < AudioCapacity
           /\ captured' = captured + 1 /\ dropped' = dropped
           /\ audioQueue' = Append(audioQueue, captured + 1)
  <2>1. /\ captured' = captured + 1 /\ dropped' = dropped
        /\ audioQueue' = Append(audioQueue, captured + 1)
    BY <1>5
  <2>2. /\ audioQueue' \in Seq(Chunks) /\ Len(audioQueue') = Len(audioQueue) + 1
        /\ DOMAIN audioQueue' = 1..Len(audioQueue) + 1
        /\ \A i \in 1..Len(audioQueue) : audioQueue'[i] = audioQueue[i]
        /\ audioQueue'[Len(audioQueue) + 1] = captured + 1
    BY <1>2, <2>1, QueueAppend
  <2>3. AudioOK'
    BY <1>1, <1>5, <2>1, <2>2 DEF AudioInv, AudioOK
  <2>4. QueueIsRecent'
    BY <1>2, <2>1, <2>2 DEF AudioInv, QueueIsRecent
  <2>5. captured' - Len(audioQueue') = past
    BY <1>2, <2>1, <2>2
  <2>6. PastIsAccounted' /\ ClosedIsEmpty'
    BY <1>1, <1>5, <2>1, <2>5 DEF AudioInv, PastIsAccounted, Stray, ClosedIsEmpty
  <2>. QED  BY <1>3, <2>3, <2>4, <2>6 DEF AudioInv
<1>6. CASE /\ ~closed /\ ~(Len(audioQueue) < AudioCapacity)
           /\ captured' = captured + 1 /\ dropped' = dropped \cup {Head(audioQueue)}
           /\ audioQueue' = Append(Tail(audioQueue), captured + 1)
  <2>1. /\ captured' = captured + 1 /\ dropped' = dropped \cup {Head(audioQueue)}
        /\ audioQueue' = Append(Tail(audioQueue), captured + 1)
    BY <1>6
  <2>2. audioQueue # <<>> /\ Len(audioQueue) = AudioCapacity
    BY <1>6 DEF AudioInv, AudioOK
  <2>3. /\ audioQueue' \in Seq(Chunks) /\ Len(audioQueue') = Len(audioQueue)
        /\ Len(audioQueue) >= 1
        /\ DOMAIN audioQueue' = 1..Len(audioQueue)
        /\ \A i \in 1..Len(audioQueue) - 1 : audioQueue'[i] = audioQueue[i + 1]
        /\ audioQueue'[Len(audioQueue)] = captured + 1
        /\ Head(audioQueue) = audioQueue[1] /\ Head(audioQueue) \in Chunks
    BY <1>2, <2>1, <2>2, QueueShift
  <2>4. Head(audioQueue) = past + 1
    <3>1. 1 \in DOMAIN audioQueue
      BY <1>2, <2>3
    <3>2. audioQueue[1] = captured - Len(audioQueue) + 1
      BY <3>1 DEF AudioInv, QueueIsRecent
    <3>. QED  BY <2>3, <3>2
  <2>5. AudioOK'
    <3>1. dropped' \subseteq Chunks
      BY <2>1, <2>3 DEF AudioInv, AudioOK
    <3>. QED  BY <1>1, <2>1, <2>2, <2>3, <3>1 DEF AudioInv, AudioOK
  <2>6. QueueIsRecent'
    <3>1. Len(audioQueue') <= captured'
      BY <1>2, <2>1, <2>3
    <3>2. ASSUME NEW i \in DOMAIN audioQueue'
          PROVE  audioQueue'[i] = captured' - Len(audioQueue') + i
      <4>1. CASE i = Len(audioQueue)
        BY <1>2, <2>1, <2>3, <4>1
      <4>2. CASE i # Len(audioQueue)
        <5>1. i \in 1..Len(audioQueue) - 1 /\ i + 1 \in DOMAIN audioQueue
          BY <1>2, <2>3, <4>2, SMTT(30)
        <5>2. audioQueue[i + 1] = captured - Len(audioQueue) + (i + 1)
          BY <5>1 DEF AudioInv, QueueIsRecent
        <5>. QED  BY <1>2, <2>1, <2>3, <5>1, <5>2
      <4>. QED  BY <4>1, <4>2
    <3>. QED  BY <3>1, <3>2 DEF QueueIsRecent
  <2>7. captured' - Len(audioQueue') = past + 1
    BY <1>2, <2>1, <2>3
  <2>8. PastIsAccounted'
    <3>1. /\ heard \cup dropped \cup Stray = 1..past
          /\ heard \cap dropped = {} /\ heard \cap Stray = {} /\ dropped \cap Stray = {}
      BY <1>6 DEF AudioInv, PastIsAccounted
    <3>2. 1..past + 1 = (1..past) \cup {past + 1} /\ past + 1 \notin 1..past
      BY <1>2
    <3>3. Stray' = Stray
      BY <1>1 DEF Stray
    <3>. HIDE DEF past
    <3>. QED  BY <1>1, <2>1, <2>4, <2>7, <3>1, <3>2, <3>3 DEF PastIsAccounted
  <2>9. ClosedIsEmpty'
    BY <1>1, <1>6 DEF ClosedIsEmpty
  <2>. QED  BY <1>3, <2>5, <2>6, <2>8, <2>9 DEF AudioInv
<1>. QED  BY <1>1, <1>4, <1>5, <1>6, <1>7 DEF OfferChunk

(* The recognizer hears the oldest chunk of the queue, and takes it for a  *)
(* continuation only if nothing was lost before it.                        *)
LEMMA PollKeepsAudio ==
    ASSUME AudioInv, AsrPolls
    PROVE  AudioInv'
<1>. DEFINE past == captured - Len(audioQueue)
            chunk == Head(audioQueue)
<1>1. /\ asr = "loop"
      /\ UNCHANGED <<closed, captured, mic, dropped>>
  BY DEF AsrPolls
<1>2. CASE audioQueue = <<>>
  <2>1. asr' = "empty" /\ UNCHANGED <<audioQueue, heard, previous, open>>
    BY <1>2 DEF AsrPolls
  <2>2. AudioOK' /\ ClosedIsEmpty' /\ QueueIsRecent'
    BY <1>1, <2>1 DEF AudioInv, AudioOK, ClosedIsEmpty, QueueIsRecent
  <2>3. PastIsAccounted'
    BY <1>1, <2>1 DEF AudioInv, PastIsAccounted, Stray
  <2>4. UtteranceIsContiguous' /\ UtteranceEndsAtPrevious'
    BY <1>1, <2>1 DEF AudioInv, UtteranceIsContiguous, UtteranceEndsAtPrevious
  <2>. QED  BY <2>2, <2>3, <2>4 DEF AudioInv
<1>3. CASE audioQueue # <<>>
  <2>1. /\ audioQueue' = Tail(audioQueue) /\ previous' = chunk
        /\ \/ /\ Gap(chunk) /\ asr' = "rebuilding" /\ UNCHANGED <<heard, open>>
           \/ /\ ~Gap(chunk) /\ asr' = "accepting"
              /\ heard' = heard \cup {chunk} /\ open' = open \cup {chunk}
    BY <1>3 DEF AsrPolls
  <2>2. /\ captured \in 0..MaxChunks /\ audioQueue \in Seq(Chunks)
        /\ Len(audioQueue) \in Nat /\ past \in Nat
    BY DEF AudioInv, AudioOK, QueueIsRecent
  <2>3. /\ audioQueue' \in Seq(Chunks) /\ Len(audioQueue') = Len(audioQueue) - 1
        /\ Len(audioQueue) >= 1
        /\ DOMAIN audioQueue' = 1..Len(audioQueue) - 1
        /\ \A i \in 1..Len(audioQueue) - 1 : audioQueue'[i] = audioQueue[i + 1]
        /\ chunk = audioQueue[1] /\ chunk \in Chunks
    BY <1>3, <2>1, <2>2, QueueTail
  <2>4. chunk = past + 1
    <3>1. 1 \in DOMAIN audioQueue
      BY <2>2, <2>3
    <3>2. audioQueue[1] = captured - Len(audioQueue) + 1
      BY <3>1 DEF AudioInv, QueueIsRecent
    <3>. QED  BY <2>3, <3>2
  <2>5. AudioOK'
    <3>1. heard' \subseteq Chunks /\ open' \subseteq heard'
      BY <2>1, <2>3 DEF AudioInv, AudioOK
    <3>. QED  BY <1>1, <2>1, <2>2, <2>3, <3>1 DEF AudioInv, AudioOK
  <2>6. QueueIsRecent'
    <3>1. Len(audioQueue') <= captured'
      BY <1>1, <2>2, <2>3
    <3>2. ASSUME NEW i \in DOMAIN audioQueue'
          PROVE  audioQueue'[i] = captured' - Len(audioQueue') + i
      <4>1. i \in 1..Len(audioQueue) - 1 /\ i + 1 \in DOMAIN audioQueue
        BY <2>2, <2>3, SMTT(60)
      <4>2. audioQueue[i + 1] = captured - Len(audioQueue) + (i + 1)
        BY <4>1 DEF AudioInv, QueueIsRecent
      <4>3. captured' - Len(audioQueue') + i = captured - Len(audioQueue) + (i + 1)
        BY <1>1, <2>2, <2>3, <4>1
      <4>. QED  BY <2>3, <4>1, <4>2, <4>3
    <3>. QED  BY <3>1, <3>2 DEF QueueIsRecent
  <2>9. ~closed
    BY <1>3 DEF AudioInv, ClosedIsEmpty
  <2>7. PastIsAccounted'
    <3>1. heard \cup dropped = 1..past /\ heard \cap dropped = {}
      BY <1>1, <2>9 DEF AudioInv, PastIsAccounted, Stray
    <3>2. 1..past + 1 = (1..past) \cup {past + 1} /\ past + 1 \notin 1..past
      BY <2>2
    <3>3. captured' - Len(audioQueue') = past + 1
      BY <1>1, <2>2, <2>3
    <3>. HIDE DEF past, chunk
    <3>. QED  BY <1>1, <2>1, <2>4, <3>1, <3>2, <3>3 DEF PastIsAccounted, Stray
  <2>8. UtteranceIsContiguous' /\ UtteranceEndsAtPrevious'
    <3>. HIDE DEF past, chunk
    <3>1. /\ open # {} => previous \in open /\ \A c \in open : c <= previous
          /\ \A c, d \in open : c..d \subseteq open
          /\ open \subseteq Chunks
      BY <1>1 DEF AudioInv, AudioOK, UtteranceIsContiguous, UtteranceEndsAtPrevious
    <3>2. CASE Gap(chunk)
      BY <2>1, <3>1, <3>2 DEF UtteranceIsContiguous, UtteranceEndsAtPrevious
    <3>3. CASE ~Gap(chunk) /\ open = {}
      <4>1. open' = {chunk} /\ chunk \in Nat
        BY <2>1, <2>3, <3>3
      <4>. QED  BY <2>1, <4>1 DEF UtteranceIsContiguous, UtteranceEndsAtPrevious
    <3>4. CASE ~Gap(chunk) /\ open # {}
      <4>1. previous \in open /\ previous \in Nat /\ previous # 0
        <5>1. previous \in open
          BY <3>1, <3>4
        <5>2. previous \in 1..MaxChunks
          BY <3>1, <5>1
        <5>. QED  BY <5>1, <5>2
      <4>2. chunk = previous + 1
        BY <3>4, <4>1 DEF Gap
      <4>3. open' = open \cup {chunk} /\ previous' = chunk
        BY <2>1, <3>4
      <4>4. UtteranceEndsAtPrevious'
        BY <2>3, <3>1, <4>1, <4>2, <4>3 DEF UtteranceEndsAtPrevious
      <4>5. ASSUME NEW c \in open', NEW d \in open', NEW e \in c..d
            PROVE  e \in open'
        <5>1. e \in Int /\ c \in Int /\ d \in Int /\ c <= e /\ e <= d
          BY <2>3, <3>1, <4>3
        <5>2. CASE d \in open
          <6>1. c \in open
            BY <3>1, <4>1, <4>2, <4>3, <5>1, <5>2
          <6>. QED  BY <3>1, <4>3, <5>2, <6>1
        <5>3. CASE d = chunk /\ c \in open
          BY <3>1, <4>1, <4>2, <4>3, <5>1, <5>3
        <5>4. CASE d = chunk /\ c = chunk
          BY <4>3, <5>1, <5>4
        <5>. QED  BY <4>3, <5>2, <5>3, <5>4
      <4>. QED  BY <4>4, <4>5 DEF UtteranceIsContiguous
    <3>. QED  BY <3>2, <3>3, <3>4
  <2>. QED  BY <1>1, <2>5, <2>6, <2>7, <2>8, <2>9 DEF AudioInv, ClosedIsEmpty
<1>. QED  BY <1>2, <1>3

(* The queue has the chunks that follow the past. *)
LEMMA QueuedIsRecent ==
    ASSUME AudioOK, QueueIsRecent
    PROVE  Queued = (captured - Len(audioQueue) + 1)..captured
<1>. DEFINE past == captured - Len(audioQueue)
<1>1. /\ captured \in Nat /\ audioQueue \in Seq(Chunks)
      /\ Len(audioQueue) \in Nat /\ past \in Nat
  BY DEF AudioOK, QueueIsRecent
<1>2. Queued = {past + i : i \in 1..Len(audioQueue)}
  BY <1>1 DEF QueueIsRecent, Queued
<1>3. ASSUME NEW c \in (past + 1)..captured
      PROVE  c \in {past + i : i \in 1..Len(audioQueue)}
  <2>1. c - past \in 1..Len(audioQueue) /\ c = past + (c - past)
    BY <1>1
  <2>. QED  BY <2>1
<1>4. ASSUME NEW i \in 1..Len(audioQueue)
      PROVE  past + i \in (past + 1)..captured
  BY <1>1
<1>. QED  BY <1>2, <1>3, <1>4

(* A gap throws away the chunk behind it and all that is queued. *)
LEMMA RebuildKeepsAudio ==
    ASSUME AudioInv, AsrRebuilds
    PROVE  AudioInv'
<1>. DEFINE past == captured - Len(audioQueue)
<1>1. /\ asr = "rebuilding" /\ asr' = "loop"
      /\ dropped' = dropped \cup Discarded
      /\ audioQueue' = <<>> /\ previous' = 0 /\ open' = {}
      /\ UNCHANGED <<closed, captured, mic, heard>>
  BY DEF AsrRebuilds
<1>2. /\ captured \in 0..MaxChunks /\ audioQueue \in Seq(Chunks)
      /\ Len(audioQueue) \in Nat /\ past \in Nat
  BY DEF AudioInv, AudioOK, QueueIsRecent
<1>3. Discarded = {previous} \cup ((past + 1)..captured)
  BY QueuedIsRecent DEF AudioInv, Discarded
<1>4. AudioOK'
  <2>1. Discarded \subseteq Chunks
    BY <1>1, <1>2, <1>3 DEF AudioInv, AudioOK
  <2>2. dropped' \subseteq Chunks
    BY <1>1, <2>1 DEF AudioInv, AudioOK
  <2>. QED  BY <1>1, <2>2 DEF AudioInv, AudioOK
<1>5. QueueIsRecent' /\ ClosedIsEmpty'
  BY <1>1, <1>2 DEF QueueIsRecent, ClosedIsEmpty
<1>6. PastIsAccounted'
  <2>. SUFFICES ASSUME ~closed'
                PROVE  /\ heard' \cup dropped' \cup Stray' = 1..captured
                       /\ heard' \cap dropped' = {} /\ Stray' = {}
    <3>1. captured' - Len(audioQueue') = captured
      BY <1>1, <1>2
    <3>. QED  BY <3>1 DEF PastIsAccounted
  <2>1. /\ heard \cup dropped \cup {previous} = 1..past
        /\ heard \cap dropped = {} /\ previous \notin heard
    BY <1>1 DEF AudioInv, PastIsAccounted, Stray
  <2>2. 1..captured = (1..past) \cup ((past + 1)..captured)
    BY <1>2 DEF AudioInv, QueueIsRecent
  <2>3. (1..past) \cap ((past + 1)..captured) = {}
    BY <1>2
  <2>. HIDE DEF past
  <2>. QED  BY <1>1, <1>3, <2>1, <2>2, <2>3 DEF Stray
<1>7. UtteranceIsContiguous' /\ UtteranceEndsAtPrevious'
  BY <1>1 DEF UtteranceIsContiguous, UtteranceEndsAtPrevious
<1>. QED  BY <1>4, <1>5, <1>6, <1>7 DEF AudioInv

LEMMA NextKeepsAudio ==
    ASSUME ThreadsOK, AudioInv, Next
    PROVE  AudioInv'
<1>1. CASE AudioUntouched
  <2>1. AudioOK' /\ ClosedIsEmpty' /\ QueueIsRecent'
    BY <1>1 DEF AudioUntouched, AudioInv, AudioOK, ClosedIsEmpty, QueueIsRecent
  <2>2. PastIsAccounted'
    BY <1>1 DEF AudioUntouched, AudioInv, PastIsAccounted, Stray
  <2>3. UtteranceIsContiguous' /\ UtteranceEndsAtPrevious'
    BY <1>1 DEF AudioUntouched, AudioInv, UtteranceIsContiguous, UtteranceEndsAtPrevious
  <2>. QED  BY <2>1, <2>2, <2>3 DEF AudioInv
<1>2. CASE BlankEndpoint \/ Endpoint
  <2>1. /\ UNCHANGED <<closed, captured, mic, audioQueue, dropped, heard, previous>>
        /\ open' = {} /\ asr # "rebuilding" /\ asr' # "rebuilding"
    BY <1>2 DEF BlankEndpoint, Endpoint
  <2>2. AudioOK' /\ ClosedIsEmpty' /\ QueueIsRecent'
    BY <2>1 DEF AudioInv, AudioOK, ClosedIsEmpty, QueueIsRecent
  <2>3. PastIsAccounted'
    BY <2>1 DEF AudioInv, PastIsAccounted, Stray
  <2>4. UtteranceIsContiguous' /\ UtteranceEndsAtPrevious'
    BY <2>1 DEF UtteranceIsContiguous, UtteranceEndsAtPrevious
  <2>. QED  BY <2>2, <2>3, <2>4 DEF AudioInv
<1>3. CASE InterruptWorkers
  <2>1. /\ UNCHANGED <<captured, mic, dropped, heard, previous, open, asr>>
        /\ audioQueue' = <<>> /\ closed'
    BY <1>3 DEF InterruptWorkers
  <2>2. AudioOK' /\ ClosedIsEmpty' /\ QueueIsRecent'
    BY <2>1 DEF AudioInv, AudioOK, ClosedIsEmpty, QueueIsRecent
  <2>3. PastIsAccounted'
    BY <2>1 DEF PastIsAccounted
  <2>4. UtteranceIsContiguous' /\ UtteranceEndsAtPrevious'
    BY <2>1 DEF AudioInv, UtteranceIsContiguous, UtteranceEndsAtPrevious
  <2>. QED  BY <2>2, <2>3, <2>4 DEF AudioInv
<1>. QED  BY <1>1, <1>2, <1>3, AudioFrame, OfferKeepsAudio, PollKeepsAudio, RebuildKeepsAudio

-----------------------------------------------------------------------------
(* Requests.                                                               *)

RequestInv ==
    /\ RequestsOK /\ ClosedIsCancelled
    /\ BusyCoversOneJob /\ ActiveInRound /\ FinalPreemptsProvisional
    /\ HeldApart /\ EndedIsNewest /\ PendingIsHeld

(* What the actions leave alone that hand over no request. *)
RequestsUntouched ==
    /\ UNCHANGED <<ended, provisional, partials, finals, correctionJob, correctionQueue>>
    /\ UNCHANGED <<correctionBusy, activeHyRequest, preempted, fate>>
    /\ \/ UNCHANGED asr
       \/ asr \notin Sending /\ asr' \notin Sending
    /\ \/ UNCHANGED corrector
       \/ /\ corrector \notin {"correcting", "timedOut", "draining", "jobDone", "retired"}
          /\ corrector' \notin {"correcting", "timedOut", "draining", "jobDone", "retired"}
    /\ \/ UNCHANGED hy
       \/ /\ hy \notin {"checking", "translating", "clearing"}
          /\ hy' \notin {"checking", "translating", "clearing"}
    /\ cancelled => cancelled'
    /\ closed' \/ interrupting' => closed \/ interrupting \/ cancelled'

HandsOver ==
    \/ Partial \/ Endpoint \/ Admit \/ ClaimCorrector \/ OfferCorrection \/ EnqueueUncorrected
    \/ CorrectorPolls \/ CorrectionSuperseded \/ CorrectionDecided \/ CorrectionTimesOut
    \/ FallBack \/ DrainCorrections \/ EndCorrection
    \/ HyPolls \/ HyRejects \/ HyStarts \/ HyReturns \/ HyCancelled \/ HyClears
    \/ InterruptWorkers \/ ClearCaptions

LEMMA RequestFrame ==
    ASSUME Next
    PROVE  HandsOver \/ RequestsUntouched
<1>. USE DEF RequestsUntouched
<1>1. CASE Microphone
  BY <1>1 DEF Microphone, MicStarts, MicReads, MicOffers, MicStops, MicFinishes
<1>2. CASE Recognition
  <2>1. CASE AsrInitializes \/ AsrAwaits \/ AsrFails \/ StartCapture
    BY <2>1 DEF AsrInitializes, AsrAwaits, AsrFails, Fail, StartCapture
  <2>2. CASE AsrPolls \/ AsrRebuilds \/ AsrReadsSize \/ AsrDecides
    BY <2>2 DEF AsrPolls, AsrRebuilds, AsrReadsSize, AsrDecides
  <2>3. CASE BlankEndpoint \/ AsrReturns \/ AsrCancelled \/ AsrExits
    BY <2>3 DEF BlankEndpoint, AsrReturns, AsrCancelled, AsrExits
  <2>. QED  BY <1>2, <2>1, <2>2, <2>3 DEF Recognition, HandsOver
<1>3. CASE Correction
  <2>1. CASE CorrectorInitializes \/ CorrectorBecomesReady \/ CorrectorReads
             \/ CorrectorDecides \/ CorrectorExits
    BY <2>1 DEF CorrectorInitializes, CorrectorBecomesReady, CorrectorReads,
                CorrectorDecides, CorrectorExits
  <2>. QED  BY <1>3, <2>1 DEF Correction, HandsOver
<1>4. CASE Translation
  <2>1. CASE HyInitializes \/ HyFails \/ HyReads \/ HyDecides
    BY <2>1 DEF HyInitializes, HyFails, Fail, HyReads, HyDecides
  <2>. QED  BY <1>4, <2>1 DEF Translation, HandsOver
<1>5. CASE Stop \/ Cancel
  BY <1>5 DEF Stop, Cancel
<1>. QED  BY <1>1, <1>2, <1>3, <1>4, <1>5 DEF Next, HandsOver

LEMMA UntouchedKeepsRequests ==
    ASSUME RequestInv, RequestsUntouched
    PROVE  RequestInv'
<1>. USE DEF RequestInv, RequestsUntouched
<1>1. /\ UNCHANGED <<AtRecognizer, AtCorrectionQueue, AtCorrector, AtFinals, AtHy>>
      /\ UNCHANGED <<Held, ActiveProvisional>>
  BY DEF AtRecognizer, AtCorrectionQueue, AtCorrector, AtFinals, AtHy, Held,
         ActiveProvisional
<1>2. RequestsOK'
  BY DEF RequestsOK
<1>3. ClosedIsCancelled'
  BY DEF ClosedIsCancelled
<1>4. BusyCoversOneJob'
  BY DEF BusyCoversOneJob, AtWork
<1>5. ActiveInRound' /\ FinalPreemptsProvisional'
  BY <1>1 DEF ActiveInRound, FinalPreemptsProvisional
<1>6. HeldApart'
  BY <1>1 DEF HeldApart, NoDuplicates
<1>7. EndedIsNewest' /\ PendingIsHeld'
  BY <1>1 DEF EndedIsNewest, PendingIsHeld
<1>. QED  BY <1>2, <1>3, <1>4, <1>5, <1>6, <1>7

(* A final enters its mailbox; the one it displaces is settled. *)
LEMMA EnqueueFinalEffect ==
    ASSUME RequestsOK, NEW u \in Utterances, EnqueueFinal(u),
           NoDuplicates(finals), u \notin AtFinals
    PROVE  /\ finals' \in Seq(Utterances) /\ Len(finals') <= FinalsCapacity
           /\ fate' \in [Utterances -> {"none", "pending", "translated", "skipped", "cleared"}]
           /\ NoDuplicates(finals')
           /\ AtFinals' \subseteq AtFinals \cup {u}
           /\ closed \/ u \in AtFinals'
           /\ closed => AtFinals' = AtFinals
           /\ \A v \in AtFinals \ AtFinals' : fate'[v] # "pending"
           /\ \A v \in Utterances : /\ fate'[v] = "pending" => fate[v] = "pending"
                                    /\ fate[v] = "none" => fate'[v] = "none"
           /\ preempted' <=> preempted \/ ActiveProvisional
<1>1. preempted' <=> preempted \/ ActiveProvisional
  BY DEF EnqueueFinal, Preempt
<1>2. /\ fate' \in [Utterances -> {"none", "pending", "translated", "skipped", "cleared"}]
      /\ \A v \in Utterances : /\ fate'[v] = "pending" => fate[v] = "pending"
                               /\ fate[v] = "none" => fate'[v] = "none"
                               /\ v \in Displaced(u) => fate'[v] # "pending"
  BY DEF EnqueueFinal, Settle, RequestsOK
<1>3. finals \in Seq(Utterances) /\ Len(finals) \in Nat /\ Len(finals) <= FinalsCapacity
  BY DEF RequestsOK
<1>. DEFINE n == Len(finals)
<1>4. n \in Nat /\ DOMAIN finals = 1..n
  BY <1>3
<1>7. CASE closed
  <2>1. finals' = finals
    BY <1>7 DEF EnqueueFinal, OfferFinal
  <2>. QED  BY <1>1, <1>2, <1>3, <1>7, <2>1 DEF AtFinals, NoDuplicates
<1>5. CASE ~closed /\ Len(finals) < FinalsCapacity
  <2>1. finals' = Append(finals, u)
    BY <1>5 DEF EnqueueFinal, OfferFinal, Displaced
  <2>2. /\ finals' \in Seq(Utterances) /\ Len(finals') = Len(finals) + 1
        /\ DOMAIN finals' = 1..Len(finals) + 1
        /\ \A i \in 1..Len(finals) : finals'[i] = finals[i]
        /\ finals'[Len(finals) + 1] = u
    BY <1>3, <2>1, QueueAppend
  <2>3. AtFinals' = AtFinals \cup {u}
    <3>. HIDE DEF n
    <3>1. \A i \in 1..n : finals'[i] = finals[i] /\ i \in DOMAIN finals'
      BY <1>4, <2>2 DEF n
    <3>2. n + 1 \in DOMAIN finals' /\ finals'[n + 1] = u
      BY <1>4, <2>2 DEF n
    <3>3. \A i \in DOMAIN finals' : i \in 1..n \/ i = n + 1
      BY <1>4, <2>2 DEF n
    <3>. QED  BY <1>4, <3>1, <3>2, <3>3 DEF AtFinals
  <2>4. NoDuplicates(finals')
    <3>. HIDE DEF n
    <3>1. \A i \in DOMAIN finals' :
            \/ i \in DOMAIN finals /\ finals'[i] = finals[i] /\ finals'[i] \in AtFinals
            \/ i = n + 1 /\ finals'[i] = u
      BY <1>4, <2>2 DEF AtFinals, n
    <3>. QED  BY <3>1 DEF NoDuplicates
  <2>. QED  BY <1>1, <1>2, <1>3, <1>5, <2>2, <2>3, <2>4
<1>6. CASE ~closed /\ ~(Len(finals) < FinalsCapacity)
  <2>1. Displaced(u) = {Head(finals)}
    BY <1>6 DEF Displaced
  <2>2. finals' = Append(Tail(finals), u)
    BY <1>6, <2>1 DEF EnqueueFinal, OfferFinal
  <2>3. finals # <<>> /\ Len(finals) = FinalsCapacity
    BY <1>3, <1>6
  <2>4. /\ finals' \in Seq(Utterances) /\ Len(finals') = Len(finals)
        /\ Len(finals) >= 1 /\ DOMAIN finals' = 1..Len(finals)
        /\ \A i \in 1..Len(finals) - 1 : finals'[i] = finals[i + 1]
        /\ finals'[Len(finals)] = u
        /\ Head(finals) = finals[1] /\ Head(finals) \in Utterances
    BY <1>3, <2>2, <2>3, QueueShift
  <2>5. AtFinals' \subseteq AtFinals \cup {u} /\ u \in AtFinals'
    <3>. HIDE DEF n
    <3>1. \A i \in DOMAIN finals' :
            \/ i + 1 \in DOMAIN finals /\ finals'[i] = finals[i + 1]
            \/ i = n /\ finals'[i] = u
      BY <1>4, <2>4, SMTT(30) DEF n
    <3>2. n \in DOMAIN finals' /\ finals'[n] = u
      BY <1>4, <2>4 DEF n
    <3>. QED  BY <3>1, <3>2 DEF AtFinals
  <2>6. \A v \in AtFinals : v = Head(finals) \/ v \in AtFinals'
    <3>. SUFFICES ASSUME NEW i \in DOMAIN finals, i # 1
                  PROVE  finals[i] \in AtFinals'
      BY <1>3, <2>4 DEF AtFinals
    <3>1. i - 1 \in 1..Len(finals) - 1 /\ (i - 1) + 1 = i
      BY <1>3
    <3>2. finals'[i - 1] = finals[i] /\ i - 1 \in DOMAIN finals'
      BY <1>3, <2>4, <3>1
    <3>. QED  BY <3>2 DEF AtFinals
  <2>7. NoDuplicates(finals')
    <3>. SUFFICES ASSUME NEW i \in DOMAIN finals', NEW j \in DOMAIN finals', i < j
                  PROVE  finals'[i] # finals'[j]
      BY <1>3, <2>4 DEF NoDuplicates
    <3>. HIDE DEF n
    <3>1. i \in Nat /\ j \in Nat /\ i + 1 \in DOMAIN finals /\ finals'[i] = finals[i + 1]
      <4>1. i \in 1..n /\ j \in 1..n
        BY <2>4 DEF n
      <4>2. i \in 1..n - 1 /\ i + 1 \in 1..n
        BY <1>4, <4>1
      <4>. QED  BY <1>4, <2>4, <4>1, <4>2, SMTT(30) DEF n
    <3>2. CASE j = n
      BY <2>4, <3>1, <3>2 DEF AtFinals, n
    <3>3. CASE j # n
      <4>1. j + 1 \in DOMAIN finals /\ finals'[j] = finals[j + 1]
        BY <1>4, <2>4, <3>3, SMTT(30) DEF n
      <4>2. i + 1 # j + 1
        BY <3>1
      <4>. QED  BY <3>1, <4>1, <4>2 DEF NoDuplicates
    <3>. QED  BY <3>2, <3>3
  <2>8. \A v \in AtFinals \ AtFinals' : fate'[v] # "pending"
    BY <1>2, <2>1, <2>4, <2>6
  <2>. QED  BY <1>1, <1>2, <1>3, <1>6, <2>3, <2>4, <2>5, <2>7, <2>8
<1>. QED  BY <1>5, <1>6, <1>7

(* A step that settles captions and takes requests from places, but not    *)
(* one whose caption still waits, unless the session is cancelled.         *)
LEMMA HeldShrinks ==
    ASSUME RequestInv, NoDuplicates(finals'), UNCHANGED ended, cancelled => cancelled',
           AtRecognizer' \subseteq AtRecognizer, AtCorrectionQueue' \subseteq AtCorrectionQueue,
           AtCorrector' \subseteq AtCorrector, AtFinals' \subseteq AtFinals, AtHy' \subseteq AtHy,
           \A u \in Utterances : /\ fate'[u] = "pending" => fate[u] = "pending"
                                 /\ fate[u] = "none" => fate'[u] = "none",
           ~cancelled' => \A u \in Utterances \cap (Held \ Held') : fate'[u] # "pending"
    PROVE  HeldApart' /\ EndedIsNewest' /\ PendingIsHeld'
<1>1. HeldApart'
  BY DEF RequestInv, HeldApart, NoDuplicates
<1>2. Held' \subseteq Held
  BY DEF Held
<1>3. EndedIsNewest'
  BY <1>2 DEF RequestInv, EndedIsNewest
<1>4. PendingIsHeld'
  BY DEF RequestInv, PendingIsHeld
<1>. QED  BY <1>1, <1>3, <1>4

(* A final goes from recognizer or corrector to the mailbox of finals. *)
LEMMA MovesToFinals ==
    ASSUME RequestInv, NEW u \in Utterances, EnqueueFinal(u),
           UNCHANGED <<ended, closed, cancelled, interrupting, hy, activeHyRequest>>,
           u \in AtRecognizer \cup AtCorrector,
           AtRecognizer' = AtRecognizer \ {u}, AtCorrector' = AtCorrector \ {u},
           AtCorrectionQueue' = AtCorrectionQueue
    PROVE  /\ finals' \in Seq(Utterances) /\ Len(finals') <= FinalsCapacity
           /\ fate' \in [Utterances -> {"none", "pending", "translated", "skipped", "cleared"}]
           /\ ActiveInRound' /\ FinalPreemptsProvisional'
           /\ HeldApart' /\ EndedIsNewest' /\ PendingIsHeld'
<1>1. NoDuplicates(finals) /\ u \notin AtFinals /\ u \notin AtHy /\ u \notin AtCorrectionQueue
  BY DEF RequestInv, HeldApart
<1>2. /\ finals' \in Seq(Utterances) /\ Len(finals') <= FinalsCapacity
      /\ fate' \in [Utterances -> {"none", "pending", "translated", "skipped", "cleared"}]
      /\ NoDuplicates(finals')
      /\ AtFinals' \subseteq AtFinals \cup {u}
      /\ closed \/ u \in AtFinals'
      /\ \A v \in AtFinals \ AtFinals' : fate'[v] # "pending"
      /\ \A v \in Utterances : /\ fate'[v] = "pending" => fate[v] = "pending"
                               /\ fate[v] = "none" => fate'[v] = "none"
      /\ preempted' <=> preempted \/ ActiveProvisional
  BY <1>1, EnqueueFinalEffect DEF RequestInv
<1>3. AtHy' = AtHy /\ (ActiveProvisional' <=> ActiveProvisional)
  BY DEF AtHy, ActiveProvisional
<1>4. ActiveInRound' /\ FinalPreemptsProvisional'
  BY <1>2, <1>3 DEF RequestInv, ActiveInRound, FinalPreemptsProvisional
<1>5. HeldApart'
  BY <1>1, <1>2, <1>3 DEF RequestInv, HeldApart, NoDuplicates
<1>6. Held' \subseteq Held \cup {u} /\ u \in Held
  BY <1>2, <1>3 DEF Held
<1>7. EndedIsNewest'
  BY <1>2, <1>6 DEF RequestInv, EndedIsNewest
<1>8. PendingIsHeld'
  <2>. SUFFICES ASSUME ~cancelled, NEW v \in Utterances, fate'[v] = "pending"
                PROVE  v \in Held'
    BY DEF PendingIsHeld
  <2>1. v \in Held /\ ~closed
    BY <1>2 DEF RequestInv, PendingIsHeld, ClosedIsCancelled
  <2>2. v \in AtFinals => v \in AtFinals'
    BY <1>2
  <2>. QED  BY <1>2, <1>3, <2>1, <2>2 DEF Held
<1>. QED  BY <1>2, <1>4, <1>5, <1>7, <1>8

LEMMA PartialKeepsRequests ==
    ASSUME RequestInv, Partial
    PROVE  RequestInv'
<1>1. /\ UNCHANGED <<asr, corrector, hy, cancelled, closed, interrupting, ended, finals, fate>>
      /\ UNCHANGED <<correctionJob, correctionQueue, correctionBusy, activeHyRequest>>
      /\ preempted' = preempted \/ (preempted' <=> preempted \/ ActiveProvisional)
  BY DEF Partial, Preempt
<1>2. UNCHANGED <<AtRecognizer, AtCorrectionQueue, AtCorrector, AtFinals, AtHy, Held>>
  BY <1>1 DEF AtRecognizer, AtCorrectionQueue, AtCorrector, AtFinals, AtHy, Held
<1>3. RequestsOK'
  <2>1. -(ended + 1) \in Provisionals /\ partials' \in 0..MaxPartials
    <3>1. /\ ended \in Nat /\ ended < MaxUtterances
          /\ partials \in Nat /\ partials < MaxPartials /\ partials' = partials + 1
      BY DEF Partial, RequestInv, RequestsOK
    <3>2. ended + 1 \in 1..MaxUtterances
      BY <3>1
    <3>. QED  BY <3>1, <3>2
  <2>2. provisional' = provisional \/ provisional' = <<-(ended + 1)>>
    BY DEF Partial
  <2>3. provisional' \in Seq(Provisionals) /\ Len(provisional') <= 1
    <3>1. CASE provisional' = provisional
      BY <3>1 DEF RequestInv, RequestsOK
    <3>2. CASE provisional' = <<-(ended + 1)>>
      <4>. DEFINE request == -(ended + 1)
      <4>1. request \in Provisionals /\ provisional' = <<request>>
        BY <2>1, <3>2
      <4>. HIDE DEF request, Provisionals
      <4>. QED  BY <4>1
    <3>. QED  BY <2>2, <3>1, <3>2
  <2>. QED  BY <1>1, <2>1, <2>3 DEF RequestInv, RequestsOK
<1>4. ClosedIsCancelled' /\ BusyCoversOneJob'
  BY <1>1 DEF RequestInv, ClosedIsCancelled, BusyCoversOneJob, AtWork
<1>5. ActiveInRound' /\ FinalPreemptsProvisional'
  BY <1>1 DEF RequestInv, ActiveInRound, FinalPreemptsProvisional, ActiveProvisional
<1>6. NoDuplicates(finals')
  BY <1>1 DEF RequestInv, HeldApart
<1>7. HeldApart' /\ EndedIsNewest' /\ PendingIsHeld'
  BY <1>1, <1>2, <1>6, HeldShrinks
<1>. QED  BY <1>3, <1>4, <1>5, <1>7 DEF RequestInv

(* An utterance ends: a new final, in the hands of the recognizer. *)
LEMMA EndpointKeepsRequests ==
    ASSUME RequestInv, Endpoint
    PROVE  RequestInv'
<1>1. /\ UNCHANGED <<corrector, hy, cancelled, closed, interrupting, finals, provisional>>
      /\ UNCHANGED <<partials, correctionJob, correctionQueue, correctionBusy>>
      /\ UNCHANGED <<activeHyRequest, preempted>>
      /\ asr \in {"accepting", "flushing"} /\ asr' \in {"admitting", "enqueueing"}
      /\ ended' = ended + 1 /\ fate' = [fate EXCEPT ![ended + 1] = "pending"]
      /\ ended + 1 \in Utterances
  BY SMTT(30) DEF Endpoint, RequestInv, RequestsOK
<1>2. /\ UNCHANGED <<AtCorrectionQueue, AtCorrector, AtFinals, AtHy>>
      /\ AtRecognizer = {} /\ AtRecognizer' = {ended + 1}
  BY <1>1 DEF AtRecognizer, AtCorrectionQueue, AtCorrector, AtFinals, AtHy
<1>3. RequestsOK'
  BY <1>1 DEF RequestInv, RequestsOK
<1>4. ClosedIsCancelled' /\ BusyCoversOneJob'
  BY <1>1 DEF RequestInv, ClosedIsCancelled, BusyCoversOneJob, AtWork
<1>5. ActiveInRound' /\ FinalPreemptsProvisional'
  BY <1>1 DEF RequestInv, ActiveInRound, FinalPreemptsProvisional, ActiveProvisional
<1>6. Held' = Held \cup {ended + 1} /\ ended \in Nat /\ ended + 1 \notin Held
  BY <1>2 DEF RequestInv, RequestsOK, EndedIsNewest, Held
<1>7. Held \subseteq Int
  BY DEF Held, AtRecognizer, AtCorrectionQueue, AtCorrector, AtFinals, AtHy, RequestInv, RequestsOK
<1>8. HeldApart'
  BY <1>1, <1>2, <1>6 DEF RequestInv, HeldApart, NoDuplicates, Held
<1>9. EndedIsNewest'
  BY <1>1, <1>6, <1>7 DEF RequestInv, RequestsOK, EndedIsNewest
<1>10. PendingIsHeld'
  BY <1>1, <1>6 DEF RequestInv, RequestsOK, PendingIsHeld
<1>. QED  BY <1>3, <1>4, <1>5, <1>8, <1>9, <1>10 DEF RequestInv

LEMMA AdmitKeepsRequests ==
    ASSUME RequestInv, Admit \/ ClaimCorrector
    PROVE  RequestInv'
<1>1. /\ UNCHANGED <<corrector, hy, cancelled, closed, interrupting, ended, finals, fate>>
      /\ UNCHANGED <<provisional, partials, correctionJob, correctionQueue>>
      /\ UNCHANGED <<activeHyRequest, preempted>>
      /\ asr \in Sending /\ asr' \in Sending
      /\ \/ ~correctionBusy /\ correctionBusy' /\ asr' = "offering"
         \/ (correctionBusy => correctionBusy') /\ asr' # "offering"
  BY DEF Admit, ClaimCorrector
<1>2. UNCHANGED <<AtRecognizer, AtCorrectionQueue, AtCorrector, AtFinals, AtHy, Held>>
  BY <1>1 DEF AtRecognizer, AtCorrectionQueue, AtCorrector, AtFinals, AtHy, Held
<1>3. RequestsOK' /\ ClosedIsCancelled'
  BY <1>1 DEF RequestInv, RequestsOK, ClosedIsCancelled
<1>4. BusyCoversOneJob'
  BY <1>1 DEF RequestInv, BusyCoversOneJob, AtWork
<1>5. ActiveInRound' /\ FinalPreemptsProvisional'
  BY <1>1 DEF RequestInv, ActiveInRound, FinalPreemptsProvisional, ActiveProvisional
<1>6. NoDuplicates(finals')
  BY <1>1 DEF RequestInv, HeldApart
<1>7. HeldApart' /\ EndedIsNewest' /\ PendingIsHeld'
  BY <1>1, <1>2, <1>6, HeldShrinks
<1>. QED  BY <1>3, <1>4, <1>5, <1>7 DEF RequestInv

(* The correction mailbox is empty when a job is offered to it: nothing is *)
(* displaced, and the job is nowhere else.                                 *)
LEMMA OfferCorrectionKeepsRequests ==
    ASSUME RequestInv, ThreadsOK, OfferCorrection
    PROVE  RequestInv'
<1>1. /\ UNCHANGED <<corrector, hy, cancelled, closed, interrupting, ended>>
      /\ UNCHANGED <<provisional, partials, correctionJob, activeHyRequest>>
      /\ asr = "offering" /\ asr' \in {"accepting", "flushing"}
      /\ ended \in Utterances
  BY DEF OfferCorrection, RequestInv, RequestsOK, ThreadsOK
<1>2. correctionQueue = <<>> /\ correctionBusy /\ ~AtWork
  BY <1>1 DEF RequestInv, BusyCoversOneJob
<1>3. /\ UNCHANGED <<AtCorrector, AtHy>> /\ AtCorrector = {}
      /\ AtRecognizer = {ended} /\ AtRecognizer' = {} /\ AtCorrectionQueue = {}
  BY <1>1, <1>2 DEF AtRecognizer, AtCorrectionQueue, AtCorrector, AtHy, AtWork
<1>4. ClosedIsCancelled'
  BY <1>1 DEF RequestInv, ClosedIsCancelled
<1>5. CASE closed
  <2>1. EnqueueFinal(ended) /\ correctionQueue' = <<>>
    BY <1>2, <1>5 DEF OfferCorrection
  <2>2. AtCorrectionQueue' = AtCorrectionQueue
    BY <1>2, <2>1 DEF AtCorrectionQueue
  <2>3. BusyCoversOneJob'
    BY <1>1, <1>2, <2>1 DEF BusyCoversOneJob, AtWork
  <2>4. /\ finals' \in Seq(Utterances) /\ Len(finals') <= FinalsCapacity
        /\ fate' \in [Utterances -> {"none", "pending", "translated", "skipped", "cleared"}]
        /\ ActiveInRound' /\ FinalPreemptsProvisional'
        /\ HeldApart' /\ EndedIsNewest' /\ PendingIsHeld'
    BY <1>1, <1>3, <2>1, <2>2, MovesToFinals
  <2>5. RequestsOK'
    BY <1>1, <2>1, <2>4 DEF RequestInv, RequestsOK
  <2>. QED  BY <1>4, <2>3, <2>4, <2>5 DEF RequestInv
<1>6. CASE ~closed
  <2>1. /\ correctionQueue' = <<ended>>
        /\ UNCHANGED <<correctionBusy, finals, preempted, fate>>
    BY <1>2, <1>6 DEF OfferCorrection
  <2>2. AtCorrectionQueue' = {ended} /\ AtFinals' = AtFinals
    BY <2>1 DEF AtCorrectionQueue, AtFinals
  <2>3. RequestsOK'
    <3>1. correctionQueue' \in Seq(Utterances) /\ Len(correctionQueue') <= 1
      BY <1>1, <2>1
    <3>. QED  BY <1>1, <2>1, <3>1 DEF RequestInv, RequestsOK
  <2>4. BusyCoversOneJob'
    BY <1>1, <1>2, <2>1 DEF BusyCoversOneJob, AtWork
  <2>5. ActiveInRound' /\ FinalPreemptsProvisional'
    BY <1>1, <2>1 DEF RequestInv, ActiveInRound, FinalPreemptsProvisional, ActiveProvisional
  <2>6. Held' = Held
    BY <1>3, <2>2 DEF Held
  <2>7. HeldApart'
    BY <1>3, <2>1, <2>2 DEF RequestInv, HeldApart, NoDuplicates
  <2>8. EndedIsNewest' /\ PendingIsHeld'
    BY <1>1, <2>1, <2>6 DEF RequestInv, EndedIsNewest, PendingIsHeld
  <2>. QED  BY <1>4, <2>3, <2>4, <2>5, <2>7, <2>8 DEF RequestInv
<1>. QED  BY <1>5, <1>6

LEMMA EnqueueUncorrectedKeepsRequests ==
    ASSUME RequestInv, ThreadsOK, EnqueueUncorrected
    PROVE  RequestInv'
<1>1. /\ UNCHANGED <<corrector, hy, cancelled, closed, interrupting, ended>>
      /\ UNCHANGED <<provisional, partials, correctionJob, activeHyRequest>>
      /\ UNCHANGED <<correctionQueue, correctionBusy>>
      /\ asr = "enqueueing" /\ asr' \in {"accepting", "flushing"}
      /\ ended \in Utterances /\ EnqueueFinal(ended)
  BY DEF EnqueueUncorrected, RequestInv, RequestsOK, ThreadsOK
<1>2. /\ UNCHANGED <<AtCorrectionQueue, AtCorrector>>
      /\ AtRecognizer = {ended} /\ AtRecognizer' = {} /\ ended \notin AtCorrector
  BY <1>1 DEF AtRecognizer, AtCorrectionQueue, AtCorrector, RequestInv, HeldApart
<1>3. /\ finals' \in Seq(Utterances) /\ Len(finals') <= FinalsCapacity
      /\ fate' \in [Utterances -> {"none", "pending", "translated", "skipped", "cleared"}]
      /\ ActiveInRound' /\ FinalPreemptsProvisional'
      /\ HeldApart' /\ EndedIsNewest' /\ PendingIsHeld'
  BY <1>1, <1>2, MovesToFinals
<1>4. RequestsOK'
  BY <1>1, <1>3 DEF RequestInv, RequestsOK
<1>5. ClosedIsCancelled' /\ BusyCoversOneJob'
  BY <1>1 DEF RequestInv, ClosedIsCancelled, BusyCoversOneJob, AtWork
<1>. QED  BY <1>3, <1>4, <1>5 DEF RequestInv

(* The corrector takes the one job there is. *)
LEMMA CorrectorPollsKeepsRequests ==
    ASSUME RequestInv, CorrectorPolls
    PROVE  RequestInv'
<1>1. /\ UNCHANGED <<asr, hy, cancelled, closed, interrupting, ended, finals, fate>>
      /\ UNCHANGED <<provisional, partials, correctionBusy, activeHyRequest, preempted>>
      /\ corrector = "polling"
  BY DEF CorrectorPolls
<1>2. UNCHANGED <<AtRecognizer, AtFinals, AtHy>> /\ AtCorrector = {}
  BY <1>1 DEF AtRecognizer, AtFinals, AtHy, AtCorrector
<1>3. ClosedIsCancelled'
  BY <1>1 DEF RequestInv, ClosedIsCancelled
<1>4. ActiveInRound' /\ FinalPreemptsProvisional'
  BY <1>1 DEF RequestInv, ActiveInRound, FinalPreemptsProvisional, ActiveProvisional
<1>5. CASE correctionQueue = <<>>
  <2>1. corrector' = "loop" /\ UNCHANGED <<correctionQueue, correctionJob>>
    BY <1>5 DEF CorrectorPolls
  <2>2. AtCorrector' = {} /\ UNCHANGED <<AtCorrectionQueue, Held>>
    BY <1>2, <2>1 DEF AtCorrector, AtCorrectionQueue, Held
  <2>3. RequestsOK'
    BY <1>1, <2>1 DEF RequestInv, RequestsOK
  <2>4. BusyCoversOneJob'
    BY <1>1, <2>1 DEF RequestInv, BusyCoversOneJob, AtWork
  <2>5. HeldApart'
    BY <1>1, <1>2, <2>2 DEF RequestInv, HeldApart, NoDuplicates
  <2>6. EndedIsNewest' /\ PendingIsHeld'
    BY <1>1, <2>2 DEF RequestInv, EndedIsNewest, PendingIsHeld
  <2>. QED  BY <1>3, <1>4, <2>3, <2>4, <2>5, <2>6 DEF RequestInv
<1>6. CASE correctionQueue # <<>>
  <2>1. /\ correctionJob' = Head(correctionQueue) /\ correctionQueue' = Tail(correctionQueue)
        /\ corrector' = "correcting"
    BY <1>6 DEF CorrectorPolls
  <2>2. correctionQueue \in Seq(Utterances) /\ Len(correctionQueue) <= 1
    BY DEF RequestInv, RequestsOK
  <2>3. /\ Tail(correctionQueue) \in Seq(Utterances)
        /\ Len(correctionQueue) >= 1 /\ Len(Tail(correctionQueue)) = Len(correctionQueue) - 1
        /\ Head(correctionQueue) = correctionQueue[1] /\ Head(correctionQueue) \in Utterances
    BY <1>6, <2>2, QueueTail
  <2>4. DOMAIN correctionQueue = {1}
    BY <2>2, <2>3
  <2>5. correctionQueue' = <<>>
    BY <2>1, <2>2, <2>3
  <2>6. /\ AtCorrectionQueue = {correctionJob'} /\ AtCorrectionQueue' = {}
        /\ AtCorrector' = {correctionJob'}
    <3>1. AtCorrectionQueue = {correctionJob'}
      BY <2>1, <2>3, <2>4 DEF AtCorrectionQueue
    <3>2. AtCorrectionQueue' = {}
      BY <2>5 DEF AtCorrectionQueue
    <3>. QED  BY <2>1, <3>1, <3>2 DEF AtCorrector
  <2>7. Held' = Held
    BY <1>2, <2>6 DEF Held
  <2>8. RequestsOK'
    <3>1. correctionJob' \in 0..MaxUtterances /\ correctionJob' # 0
      BY <2>1, <2>3
    <3>2. correctionQueue' \in Seq(Utterances) /\ Len(correctionQueue') <= 1
      BY <2>5
    <3>. QED  BY <1>1, <2>1, <3>1, <3>2 DEF RequestInv, RequestsOK
  <2>9. BusyCoversOneJob'
    BY <1>1, <1>6, <2>1, <2>5 DEF RequestInv, BusyCoversOneJob, AtWork
  <2>10. HeldApart'
    BY <1>1, <1>2, <2>6 DEF RequestInv, HeldApart, NoDuplicates
  <2>11. EndedIsNewest' /\ PendingIsHeld'
    BY <1>1, <2>7 DEF RequestInv, EndedIsNewest, PendingIsHeld
  <2>. QED  BY <1>3, <1>4, <2>8, <2>9, <2>10, <2>11 DEF RequestInv
<1>. QED  BY <1>5, <1>6

(* A job that is superseded no longer waits; a timeout keeps the job. *)
LEMMA CorrectionSupersededKeepsRequests ==
    ASSUME RequestInv, CorrectionSuperseded
    PROVE  RequestInv'
<1>1. /\ UNCHANGED <<asr, hy, cancelled, closed, interrupting, ended, finals, fate>>
      /\ UNCHANGED <<provisional, partials, correctionJob, correctionQueue, correctionBusy>>
      /\ UNCHANGED <<activeHyRequest, preempted>>
      /\ corrector = "correcting" /\ corrector' = "jobDone"
      /\ fate[correctionJob] # "pending"
  BY DEF CorrectionSuperseded
<1>2. /\ UNCHANGED <<AtRecognizer, AtCorrectionQueue, AtFinals, AtHy>>
      /\ AtCorrector = {correctionJob} /\ AtCorrector' = {}
  BY <1>1 DEF AtRecognizer, AtCorrectionQueue, AtCorrector, AtFinals, AtHy
<1>3. RequestsOK' /\ ClosedIsCancelled'
  BY <1>1 DEF RequestInv, RequestsOK, ClosedIsCancelled
<1>4. BusyCoversOneJob'
  BY <1>1 DEF RequestInv, BusyCoversOneJob, AtWork
<1>5. ActiveInRound' /\ FinalPreemptsProvisional'
  BY <1>1 DEF RequestInv, ActiveInRound, FinalPreemptsProvisional, ActiveProvisional
<1>6. NoDuplicates(finals')
  BY <1>1 DEF RequestInv, HeldApart
<1>7. \A u \in Held \ Held' : fate'[u] # "pending"
  BY <1>1, <1>2 DEF Held
<1>8. HeldApart' /\ EndedIsNewest' /\ PendingIsHeld'
  BY <1>1, <1>2, <1>6, <1>7, HeldShrinks
<1>. QED  BY <1>3, <1>4, <1>5, <1>8 DEF RequestInv

LEMMA CorrectionTimesOutKeepsRequests ==
    ASSUME RequestInv, CorrectionTimesOut
    PROVE  RequestInv'
<1>1. /\ UNCHANGED <<asr, hy, cancelled, closed, interrupting, ended, finals, fate>>
      /\ UNCHANGED <<provisional, partials, correctionJob, correctionQueue, correctionBusy>>
      /\ UNCHANGED <<activeHyRequest, preempted>>
      /\ corrector = "correcting" /\ corrector' = "timedOut"
  BY DEF CorrectionTimesOut
<1>2. UNCHANGED <<AtRecognizer, AtCorrectionQueue, AtCorrector, AtFinals, AtHy, Held>>
  BY <1>1 DEF AtRecognizer, AtCorrectionQueue, AtCorrector, AtFinals, AtHy, Held
<1>3. RequestsOK' /\ ClosedIsCancelled'
  BY <1>1 DEF RequestInv, RequestsOK, ClosedIsCancelled
<1>4. BusyCoversOneJob'
  BY <1>1 DEF RequestInv, BusyCoversOneJob, AtWork
<1>5. ActiveInRound' /\ FinalPreemptsProvisional'
  BY <1>1 DEF RequestInv, ActiveInRound, FinalPreemptsProvisional, ActiveProvisional
<1>6. NoDuplicates(finals')
  BY <1>1 DEF RequestInv, HeldApart
<1>7. HeldApart' /\ EndedIsNewest' /\ PendingIsHeld'
  BY <1>1, <1>2, <1>6, HeldShrinks
<1>. QED  BY <1>3, <1>4, <1>5, <1>7 DEF RequestInv

(* The job goes to Hy, unless the session is cancelled. *)
LEMMA JobEndsKeepsRequests ==
    ASSUME RequestInv, CorrectionDecided \/ FallBack
    PROVE  RequestInv'
<1>1. /\ UNCHANGED <<asr, hy, cancelled, closed, interrupting, ended>>
      /\ UNCHANGED <<provisional, partials, correctionJob, correctionQueue, correctionBusy>>
      /\ UNCHANGED activeHyRequest
      /\ corrector \in {"correcting", "timedOut"} /\ corrector' \in {"jobDone", "draining"}
      /\ \/ cancelled /\ UNCHANGED <<finals, preempted, fate>>
         \/ EnqueueFinal(correctionJob)
  BY DEF CorrectionDecided, FallBack
<1>2. correctionJob \in Utterances
  BY <1>1 DEF RequestInv, RequestsOK
<1>3. /\ UNCHANGED <<AtRecognizer, AtCorrectionQueue>>
      /\ AtCorrector = {correctionJob} /\ AtCorrector' = {}
      /\ correctionJob \notin AtRecognizer
  BY <1>1 DEF AtRecognizer, AtCorrectionQueue, AtCorrector, RequestInv, HeldApart
<1>4. ClosedIsCancelled' /\ BusyCoversOneJob'
  BY <1>1 DEF RequestInv, ClosedIsCancelled, BusyCoversOneJob, AtWork
<1>5. CASE cancelled /\ UNCHANGED <<finals, preempted, fate>>
  <2>1. UNCHANGED <<finals, preempted, fate>>
    BY <1>5
  <2>2. UNCHANGED <<AtFinals, AtHy>>
    BY <1>1, <2>1 DEF AtFinals, AtHy
  <2>3. RequestsOK'
    BY <1>1, <2>1 DEF RequestInv, RequestsOK
  <2>4. ActiveInRound' /\ FinalPreemptsProvisional'
    BY <1>1, <2>1 DEF RequestInv, ActiveInRound, FinalPreemptsProvisional, ActiveProvisional
  <2>5. NoDuplicates(finals')
    BY <2>1 DEF RequestInv, HeldApart
  <2>6. HeldApart' /\ EndedIsNewest' /\ PendingIsHeld'
    BY <1>1, <1>3, <1>5, <2>1, <2>2, <2>5, HeldShrinks
  <2>. QED  BY <1>4, <2>3, <2>4, <2>6 DEF RequestInv
<1>6. CASE EnqueueFinal(correctionJob)
  <2>2. /\ finals' \in Seq(Utterances) /\ Len(finals') <= FinalsCapacity
        /\ fate' \in [Utterances -> {"none", "pending", "translated", "skipped", "cleared"}]
        /\ ActiveInRound' /\ FinalPreemptsProvisional'
        /\ HeldApart' /\ EndedIsNewest' /\ PendingIsHeld'
    BY <1>1, <1>2, <1>3, <1>6, MovesToFinals
  <2>3. RequestsOK'
    BY <1>1, <2>2 DEF RequestInv, RequestsOK
  <2>. QED  BY <1>4, <2>2, <2>3 DEF RequestInv
<1>. QED  BY <1>1, <1>5, <1>6

(* While the corrector has a job, its mailbox is empty: nothing to drain,  *)
(* and no other job loses its claim when correctionBusy is given back.     *)
LEMMA CorrectionEndsKeepsRequests ==
    ASSUME RequestInv, DrainCorrections \/ EndCorrection
    PROVE  RequestInv'
<1>1. AtWork /\ corrector \notin {"correcting", "timedOut"}
  BY DEF DrainCorrections, EndCorrection, AtWork
<1>2. correctionQueue = <<>> /\ asr # "offering"
  BY <1>1 DEF RequestInv, BusyCoversOneJob
<1>3. /\ UNCHANGED <<asr, hy, cancelled, closed, interrupting, ended, finals, fate>>
      /\ UNCHANGED <<provisional, partials, correctionQueue>>
      /\ UNCHANGED <<activeHyRequest, preempted>>
      /\ correctionJob' = correctionJob \/ correctionJob' = 0
      /\ \/ corrector' = "retired" /\ UNCHANGED correctionBusy
         \/ corrector' \in {"loop", "exit"}
  BY <1>2 DEF DrainCorrections, EndCorrection
<1>4. UNCHANGED <<AtRecognizer, AtCorrectionQueue, AtCorrector, AtFinals, AtHy, Held>>
  BY <1>1, <1>3 DEF AtRecognizer, AtCorrectionQueue, AtCorrector, AtFinals, AtHy, Held
<1>5. RequestsOK' /\ ClosedIsCancelled'
  BY <1>3 DEF RequestInv, RequestsOK, ClosedIsCancelled
<1>6. BusyCoversOneJob'
  BY <1>1, <1>2, <1>3 DEF RequestInv, BusyCoversOneJob, AtWork
<1>7. ActiveInRound' /\ FinalPreemptsProvisional'
  BY <1>3 DEF RequestInv, ActiveInRound, FinalPreemptsProvisional, ActiveProvisional
<1>8. NoDuplicates(finals')
  BY <1>3 DEF RequestInv, HeldApart
<1>9. HeldApart' /\ EndedIsNewest' /\ PendingIsHeld'
  BY <1>3, <1>4, <1>8, HeldShrinks
<1>. QED  BY <1>5, <1>6, <1>7, <1>9 DEF RequestInv

(* The oldest final leaves the mailbox. *)
LEMMA TakeFinal ==
    ASSUME finals \in Seq(Utterances), finals # <<>>, NoDuplicates(finals),
           finals' = Tail(finals)
    PROVE  /\ finals' \in Seq(Utterances) /\ Len(finals') <= Len(finals)
           /\ Head(finals) \in AtFinals /\ Head(finals) \in Utterances
           /\ AtFinals' = AtFinals \ {Head(finals)} /\ NoDuplicates(finals')
<1>. DEFINE n == Len(finals)
<1>1. /\ finals' \in Seq(Utterances)
      /\ n \in Nat /\ n >= 1 /\ Len(finals') = n - 1
      /\ DOMAIN finals = 1..n /\ DOMAIN finals' = 1..n - 1
      /\ \A i \in 1..n - 1 : finals'[i] = finals[i + 1]
      /\ Head(finals) = finals[1] /\ Head(finals) \in Utterances
  BY QueueTail
<1>. HIDE DEF n
<1>2. 1 \in DOMAIN finals
  BY <1>1
<1>3. \A i \in DOMAIN finals' : i + 1 \in DOMAIN finals /\ finals'[i] = finals[i + 1] /\ i + 1 # 1
  BY <1>1
<1>4. \A i \in DOMAIN finals : i # 1 => i - 1 \in DOMAIN finals' /\ finals'[i - 1] = finals[i]
  <2>. SUFFICES ASSUME NEW i \in 1..n, i # 1
                PROVE  i - 1 \in DOMAIN finals' /\ finals'[i - 1] = finals[i]
    BY <1>1
  <2>1. i - 1 \in 1..n - 1 /\ (i - 1) + 1 = i
    BY <1>1
  <2>. QED  BY <1>1, <2>1
<1>5. AtFinals' = AtFinals \ {Head(finals)}
  <2>1. ASSUME NEW i \in DOMAIN finals'
        PROVE  finals'[i] \in AtFinals /\ finals'[i] # Head(finals)
    BY <1>1, <1>2, <1>3, ZenonT(60) DEF AtFinals, NoDuplicates
  <2>2. ASSUME NEW i \in DOMAIN finals, finals[i] # Head(finals)
        PROVE  finals[i] \in AtFinals'
    BY <1>1, <1>4, <2>2 DEF AtFinals
  <2>. QED  BY <2>1, <2>2, ZenonT(60) DEF AtFinals
<1>6. NoDuplicates(finals')
  <2>. SUFFICES ASSUME NEW i \in DOMAIN finals', NEW j \in DOMAIN finals',
                       finals'[i] = finals'[j]
                PROVE  i = j
    BY DEF NoDuplicates
  <2>1. i + 1 = j + 1 /\ i \in Int /\ j \in Int
    BY <1>1, <1>3 DEF NoDuplicates
  <2>. QED  BY <2>1
<1>7. Head(finals) \in AtFinals
  BY <1>1, <1>2 DEF AtFinals
<1>8. Len(finals') <= Len(finals)
  BY <1>1 DEF n
<1>. QED  BY <1>1, <1>5, <1>6, <1>7, <1>8

(* Under the lock, Hy takes a final before a provisional request. *)
LEMMA HyPollsKeepsRequests ==
    ASSUME RequestInv, HyPolls
    PROVE  RequestInv'
<1>1. /\ UNCHANGED <<asr, corrector, cancelled, closed, interrupting, ended, fate, partials>>
      /\ UNCHANGED <<correctionJob, correctionQueue, correctionBusy, preempted>>
      /\ hy = "polling"
  BY DEF HyPolls
<1>2. UNCHANGED <<AtRecognizer, AtCorrectionQueue, AtCorrector>> /\ AtHy = {}
  BY <1>1 DEF AtRecognizer, AtCorrectionQueue, AtCorrector, AtHy
<1>3. activeHyRequest = 0 /\ ~preempted
  BY <1>1 DEF RequestInv, ActiveInRound, ActiveProvisional
<1>4. ClosedIsCancelled' /\ BusyCoversOneJob'
  BY <1>1 DEF RequestInv, ClosedIsCancelled, BusyCoversOneJob, AtWork
<1>5. CASE finals # <<>>
  <2>1. /\ activeHyRequest' = Head(finals) /\ finals' = Tail(finals)
        /\ hy' = "checking" /\ UNCHANGED provisional
    BY <1>5 DEF HyPolls
  <2>2. /\ finals' \in Seq(Utterances) /\ Len(finals') <= Len(finals)
        /\ Head(finals) \in AtFinals /\ Head(finals) \in Utterances
        /\ AtFinals' = AtFinals \ {Head(finals)} /\ NoDuplicates(finals')
    BY <1>5, <2>1, TakeFinal DEF RequestInv, RequestsOK, HeldApart
  <2>3. AtHy' = {Head(finals)}
    BY <2>1 DEF AtHy
  <2>4. RequestsOK'
    <3>1. Len(finals') <= FinalsCapacity
      BY <2>2 DEF RequestInv, RequestsOK
    <3>. QED  BY <1>1, <2>1, <2>2, <3>1 DEF RequestInv, RequestsOK
  <2>5. ActiveInRound' /\ FinalPreemptsProvisional'
    <3>1. activeHyRequest' \in Nat /\ activeHyRequest' > 0
      BY <2>1, <2>2
    <3>. QED  BY <1>1, <1>3, <2>1, <3>1
              DEF ActiveInRound, FinalPreemptsProvisional, ActiveProvisional, IsFinal
  <2>6. HeldApart'
    BY <1>2, <2>2, <2>3 DEF RequestInv, HeldApart
  <2>7. Held' = Held
    BY <1>2, <2>2, <2>3 DEF Held
  <2>8. EndedIsNewest' /\ PendingIsHeld'
    BY <1>1, <2>7 DEF RequestInv, EndedIsNewest, PendingIsHeld
  <2>. QED  BY <1>4, <2>4, <2>5, <2>6, <2>8 DEF RequestInv
<1>6. CASE finals = <<>> /\ provisional # <<>>
  <2>1. /\ activeHyRequest' = Head(provisional) /\ provisional' = Tail(provisional)
        /\ hy' = "checking" /\ UNCHANGED finals
    BY <1>6 DEF HyPolls
  <2>2. /\ provisional' \in Seq(Provisionals) /\ Len(provisional') <= 1
        /\ activeHyRequest' \in Provisionals
    <3>1. provisional \in Seq(Provisionals) /\ Len(provisional) <= 1
      BY DEF RequestInv, RequestsOK
    <3>2. /\ Tail(provisional) \in Seq(Provisionals) /\ Head(provisional) \in Provisionals
          /\ Len(Tail(provisional)) = Len(provisional) - 1 /\ Len(provisional) \in Nat
      <4>. HIDE DEF Provisionals
      <4>. QED  BY <1>6, <3>1, QueueTail
    <3>3. Len(provisional') <= 1
      BY <2>1, <3>1, <3>2
    <3>. HIDE DEF Provisionals
    <3>. QED  BY <2>1, <3>2, <3>3
  <2>3. /\ activeHyRequest' \in Int /\ activeHyRequest' < 0
        /\ activeHyRequest' \notin Utterances
    BY <2>2
  <2>4. AtHy' = {activeHyRequest'} /\ AtFinals' = AtFinals
    BY <2>1 DEF AtHy, AtFinals
  <2>5. RequestsOK'
    BY <1>1, <2>1, <2>2 DEF RequestInv, RequestsOK
  <2>6. ActiveInRound' /\ FinalPreemptsProvisional'
    BY <1>1, <1>3, <1>6, <2>1, <2>3
       DEF ActiveInRound, FinalPreemptsProvisional, ActiveProvisional, IsFinal
  <2>7. AtRecognizer \cup AtCorrectionQueue \cup AtCorrector \cup AtFinals \subseteq Utterances
    <3>1. AtRecognizer \subseteq Utterances /\ AtCorrector \subseteq Utterances
      BY DEF RequestInv, RequestsOK, AtRecognizer, AtCorrector
    <3>2. AtCorrectionQueue \subseteq Utterances /\ AtFinals \subseteq Utterances
      BY SMTT(30) DEF RequestInv, RequestsOK, AtCorrectionQueue, AtFinals
    <3>. QED  BY <3>1, <3>2
  <2>8. HeldApart'
    <3>1. NoDuplicates(finals')
      BY <2>1 DEF RequestInv, HeldApart
    <3>. HIDE DEF Utterances, Provisionals
    <3>. QED  BY <1>2, <2>3, <2>4, <2>7, <3>1 DEF RequestInv, HeldApart
  <2>9. Held' = Held \cup {activeHyRequest'}
    BY <1>2, <2>4 DEF Held
  <2>10. EndedIsNewest' /\ PendingIsHeld'
    BY <1>1, <2>3, <2>9 DEF RequestInv, RequestsOK, EndedIsNewest, PendingIsHeld
  <2>. QED  BY <1>4, <2>5, <2>6, <2>8, <2>10 DEF RequestInv
<1>7. CASE finals = <<>> /\ provisional = <<>>
  <2>1. hy' = "loop" /\ UNCHANGED <<finals, provisional, activeHyRequest>>
    BY <1>7 DEF HyPolls
  <2>2. AtHy' = AtHy /\ AtFinals' = AtFinals /\ Held' = Held
    BY <1>2, <2>1 DEF AtHy, AtFinals, Held
  <2>3. RequestsOK'
    BY <1>1, <2>1 DEF RequestInv, RequestsOK
  <2>4. ActiveInRound' /\ FinalPreemptsProvisional'
    BY <1>1, <2>1 DEF RequestInv, ActiveInRound, FinalPreemptsProvisional, ActiveProvisional
  <2>5. HeldApart'
    BY <1>2, <2>1, <2>2 DEF RequestInv, HeldApart, NoDuplicates
  <2>6. EndedIsNewest' /\ PendingIsHeld'
    BY <1>1, <2>2 DEF RequestInv, EndedIsNewest, PendingIsHeld
  <2>. QED  BY <1>4, <2>3, <2>4, <2>5, <2>6 DEF RequestInv
<1>. QED  BY <1>5, <1>6, <1>7

(* Settling the caption of the active request, or of all. *)
LEMMA SettleEffect ==
    ASSUME RequestsOK, NEW lost, NEW how \in {"translated", "skipped", "cleared"},
           fate' = Settle(lost, how)
    PROVE  /\ fate' \in [Utterances -> {"none", "pending", "translated", "skipped", "cleared"}]
           /\ \A u \in Utterances : /\ fate'[u] = "pending" => fate[u] = "pending" /\ u \notin lost
                                    /\ fate[u] = "none" => fate'[u] = "none"
BY DEF RequestsOK, Settle

(* A request leaves Hy once its caption waits no longer, or because it was *)
(* preempted: then it was provisional.                                     *)
LEMMA HyRoundKeepsRequests ==
    ASSUME RequestInv, HyRejects \/ HyStarts \/ HyReturns \/ HyCancelled
    PROVE  RequestInv'
<1>1. /\ UNCHANGED <<asr, corrector, cancelled, closed, interrupting, ended, finals>>
      /\ UNCHANGED <<provisional, partials, correctionJob, correctionQueue, correctionBusy>>
      /\ UNCHANGED <<activeHyRequest, preempted>>
      /\ hy \in {"checking", "translating"} /\ hy' \in {"translating", "clearing"}
  BY DEF HyRejects, HyStarts, HyReturns, HyCancelled
<1>2. /\ UNCHANGED <<AtRecognizer, AtCorrectionQueue, AtCorrector, AtFinals>>
      /\ AtHy = {activeHyRequest} /\ AtHy' \subseteq AtHy
      /\ hy' = "translating" => AtHy' = AtHy
  BY <1>1 DEF AtRecognizer, AtCorrectionQueue, AtCorrector, AtFinals, AtHy
<1>3. \/ UNCHANGED fate
      \/ /\ IsFinal(activeHyRequest)
         /\ \E how \in {"translated", "skipped", "cleared"} :
                fate' = Settle({activeHyRequest}, how)
  <2>1. CASE HyRejects
    BY <2>1 DEF HyRejects, SettleActive
  <2>2. CASE HyReturns
    <3>1. SettleActive("translated") \/ SettleActive("skipped")
      BY <2>2 DEF HyReturns
    <3>. QED  BY <3>1 DEF SettleActive
  <2>3. CASE HyStarts \/ HyCancelled
    BY <2>3 DEF HyStarts, HyCancelled
  <2>. QED  BY <2>1, <2>2, <2>3
<1>4. /\ fate' \in [Utterances -> {"none", "pending", "translated", "skipped", "cleared"}]
      /\ \A u \in Utterances : /\ fate'[u] = "pending" => fate[u] = "pending"
                               /\ fate[u] = "none" => fate'[u] = "none"
  <2>1. CASE UNCHANGED fate
    BY <2>1 DEF RequestInv, RequestsOK
  <2>2. CASE \E how \in {"translated", "skipped", "cleared"} :
                fate' = Settle({activeHyRequest}, how)
    BY <2>2, SettleEffect DEF RequestInv
  <2>. QED  BY <1>3, <2>1, <2>2
<1>5. ASSUME ~cancelled, hy' = "clearing", activeHyRequest \in Utterances
      PROVE  fate'[activeHyRequest] # "pending"
  <2>1. IsFinal(activeHyRequest)
    BY <1>5 DEF IsFinal
  <2>2. CASE HyRejects
    <3>1. CASE fate[activeHyRequest] # "pending"
      BY <1>4, <1>5, <3>1
    <3>2. CASE SettleActive("skipped")
      <4>1. fate' = Settle({activeHyRequest}, "skipped")
        BY <2>1, <3>2 DEF SettleActive
      <4>. QED  BY <1>5, <4>1, SettleEffect DEF RequestInv
    <3>. QED  BY <2>1, <2>2, <3>1, <3>2 DEF HyRejects
  <2>3. CASE HyReturns
    <3>1. SettleActive("translated") \/ SettleActive("skipped")
      BY <2>3 DEF HyReturns
    <3>2. \E how \in {"translated", "skipped", "cleared"} :
              fate' = Settle({activeHyRequest}, how)
      BY <2>1, <3>1 DEF SettleActive
    <3>. QED  BY <1>5, <3>2, SettleEffect, ZenonT(60) DEF RequestInv
  <2>4. CASE HyCancelled
    <3>1. preempted
      BY <1>5, <2>4 DEF HyCancelled
    <3>. QED  BY <2>1, <3>1 DEF RequestInv, ActiveInRound, ActiveProvisional
  <2>5. CASE HyStarts
    BY <1>5, <2>5 DEF HyStarts
  <2>. QED  BY <2>2, <2>3, <2>4, <2>5
<1>6. RequestsOK' /\ ClosedIsCancelled'
  BY <1>1, <1>4 DEF RequestInv, RequestsOK, ClosedIsCancelled
<1>7. BusyCoversOneJob'
  BY <1>1 DEF RequestInv, BusyCoversOneJob, AtWork
<1>8. ActiveInRound' /\ FinalPreemptsProvisional'
  BY <1>1 DEF RequestInv, ActiveInRound, FinalPreemptsProvisional, ActiveProvisional
<1>9. NoDuplicates(finals')
  BY <1>1 DEF RequestInv, HeldApart
<1>10. ~cancelled' => \A u \in Utterances \cap (Held \ Held') : fate'[u] # "pending"
  BY <1>1, <1>2, <1>5 DEF Held
<1>11. HeldApart' /\ EndedIsNewest' /\ PendingIsHeld'
  BY <1>1, <1>2, <1>4, <1>9, <1>10, HeldShrinks
<1>. QED  BY <1>6, <1>7, <1>8, <1>11 DEF RequestInv

LEMMA HyClearsKeepsRequests ==
    ASSUME RequestInv, HyClears
    PROVE  RequestInv'
<1>1. /\ UNCHANGED <<asr, corrector, cancelled, closed, interrupting, ended, finals, fate>>
      /\ UNCHANGED <<provisional, partials, correctionJob, correctionQueue, correctionBusy>>
      /\ activeHyRequest' = 0 /\ ~preempted'
      /\ hy = "clearing" /\ hy' = "loop"
  BY DEF HyClears
<1>2. UNCHANGED <<AtRecognizer, AtCorrectionQueue, AtCorrector, AtFinals, AtHy, Held>>
  BY <1>1 DEF AtRecognizer, AtCorrectionQueue, AtCorrector, AtFinals, AtHy, Held
<1>3. RequestsOK' /\ ClosedIsCancelled'
  BY <1>1 DEF RequestInv, RequestsOK, ClosedIsCancelled
<1>4. BusyCoversOneJob'
  BY <1>1 DEF RequestInv, BusyCoversOneJob, AtWork
<1>5. ActiveInRound' /\ FinalPreemptsProvisional'
  BY <1>1 DEF ActiveInRound, FinalPreemptsProvisional, ActiveProvisional
<1>6. NoDuplicates(finals')
  BY <1>1 DEF RequestInv, HeldApart
<1>7. HeldApart' /\ EndedIsNewest' /\ PendingIsHeld'
  BY <1>1, <1>2, <1>6, HeldShrinks
<1>. QED  BY <1>3, <1>4, <1>5, <1>7 DEF RequestInv

(* Only a cancelled session empties its mailboxes. *)
LEMMA InterruptKeepsRequests ==
    ASSUME RequestInv, InterruptWorkers
    PROVE  RequestInv'
<1>1. /\ UNCHANGED <<asr, corrector, hy, cancelled, ended, fate, partials>>
      /\ UNCHANGED <<correctionJob, correctionBusy, activeHyRequest, preempted>>
      /\ finals' = <<>> /\ provisional' = <<>> /\ correctionQueue' = <<>>
      /\ cancelled
  BY DEF InterruptWorkers, RequestInv, ClosedIsCancelled
<1>2. UNCHANGED <<AtRecognizer, AtCorrector, AtHy>> /\ AtFinals' = {} /\ AtCorrectionQueue' = {}
  BY <1>1 DEF AtRecognizer, AtCorrectionQueue, AtCorrector, AtFinals, AtHy
<1>3. RequestsOK'
  <2>1. /\ provisional' \in Seq(Provisionals) /\ Len(provisional') <= 1
        /\ finals' \in Seq(Utterances) /\ Len(finals') <= FinalsCapacity
        /\ correctionQueue' \in Seq(Utterances) /\ Len(correctionQueue') <= 1
    BY <1>1
  <2>. QED  BY <1>1, <2>1 DEF RequestInv, RequestsOK
<1>4. ClosedIsCancelled' /\ BusyCoversOneJob'
  BY <1>1 DEF RequestInv, ClosedIsCancelled, BusyCoversOneJob, AtWork
<1>5. ActiveInRound' /\ FinalPreemptsProvisional'
  BY <1>1 DEF RequestInv, ActiveInRound, FinalPreemptsProvisional, ActiveProvisional
<1>6. NoDuplicates(finals')
  BY <1>1 DEF NoDuplicates
<1>7. HeldApart' /\ EndedIsNewest' /\ PendingIsHeld'
  BY <1>1, <1>2, <1>6, HeldShrinks
<1>. QED  BY <1>3, <1>4, <1>5, <1>7 DEF RequestInv

LEMMA ClearKeepsRequests ==
    ASSUME RequestInv, ClearCaptions
    PROVE  RequestInv'
<1>1. /\ UNCHANGED <<asr, corrector, hy, cancelled, closed, interrupting, ended, finals>>
      /\ UNCHANGED <<provisional, partials, correctionJob, correctionQueue, correctionBusy>>
      /\ UNCHANGED <<activeHyRequest, preempted>>
      /\ fate' = Settle(Utterances, "cleared")
  BY DEF ClearCaptions
<1>2. UNCHANGED <<AtRecognizer, AtCorrectionQueue, AtCorrector, AtFinals, AtHy, Held>>
  BY <1>1 DEF AtRecognizer, AtCorrectionQueue, AtCorrector, AtFinals, AtHy, Held
<1>3. /\ fate' \in [Utterances -> {"none", "pending", "translated", "skipped", "cleared"}]
      /\ \A u \in Utterances : /\ fate'[u] = "pending" => fate[u] = "pending"
                               /\ fate[u] = "none" => fate'[u] = "none"
  BY <1>1, SettleEffect DEF RequestInv
<1>4. RequestsOK' /\ ClosedIsCancelled'
  BY <1>1, <1>3 DEF RequestInv, RequestsOK, ClosedIsCancelled
<1>5. BusyCoversOneJob'
  BY <1>1 DEF RequestInv, BusyCoversOneJob, AtWork
<1>6. ActiveInRound' /\ FinalPreemptsProvisional'
  BY <1>1 DEF RequestInv, ActiveInRound, FinalPreemptsProvisional, ActiveProvisional
<1>7. NoDuplicates(finals')
  BY <1>1 DEF RequestInv, HeldApart
<1>8. HeldApart' /\ EndedIsNewest' /\ PendingIsHeld'
  BY <1>1, <1>2, <1>3, <1>7, HeldShrinks
<1>. QED  BY <1>4, <1>5, <1>6, <1>8 DEF RequestInv

LEMMA NextKeepsRequests ==
    ASSUME ThreadsOK, RequestInv, Next
    PROVE  RequestInv'
BY RequestFrame, UntouchedKeepsRequests, PartialKeepsRequests, EndpointKeepsRequests,
   AdmitKeepsRequests, OfferCorrectionKeepsRequests, EnqueueUncorrectedKeepsRequests,
   CorrectorPollsKeepsRequests, CorrectionSupersededKeepsRequests,
   CorrectionTimesOutKeepsRequests, JobEndsKeepsRequests, CorrectionEndsKeepsRequests,
   HyPollsKeepsRequests, HyRoundKeepsRequests, HyClearsKeepsRequests,
   InterruptKeepsRequests, ClearKeepsRequests
   DEF HandsOver

-----------------------------------------------------------------------------
LEMMA SessionInvParts ==
    SessionInv <=> FlagsOK /\ ThreadsOK /\ AudioInv /\ RequestInv
BY DEF SessionInv, TypeOK, AudioInv, RequestInv

LEMMA InitSession ==
    ASSUME Init
    PROVE  SessionInv
<1>. USE DEF Init
<1>1. FlagsOK
  BY DEF FlagsOK
<1>2. ThreadsOK
  BY DEF ThreadsOK
<1>3. AudioInv
  <2>1. AudioOK /\ ClosedIsEmpty /\ QueueIsRecent
    BY DEF AudioOK, ClosedIsEmpty, QueueIsRecent
  <2>2. PastIsAccounted
    BY DEF PastIsAccounted, Stray
  <2>3. UtteranceIsContiguous /\ UtteranceEndsAtPrevious
    BY DEF UtteranceIsContiguous, UtteranceEndsAtPrevious
  <2>. QED  BY <2>1, <2>2, <2>3 DEF AudioInv
<1>4. RequestInv
  <2>1. /\ AtRecognizer = {} /\ AtCorrectionQueue = {} /\ AtCorrector = {}
        /\ AtFinals = {} /\ AtHy = {} /\ Held = {}
    BY DEF AtRecognizer, AtCorrectionQueue, AtCorrector, AtFinals, AtHy, Held
  <2>2. RequestsOK
    BY DEF RequestsOK
  <2>3. ClosedIsCancelled /\ BusyCoversOneJob
    BY DEF ClosedIsCancelled, BusyCoversOneJob, AtWork
  <2>4. ActiveInRound /\ FinalPreemptsProvisional
    BY DEF ActiveInRound, FinalPreemptsProvisional, ActiveProvisional
  <2>5. HeldApart
    BY <2>1 DEF HeldApart, NoDuplicates
  <2>6. EndedIsNewest /\ PendingIsHeld
    BY <2>1 DEF EndedIsNewest, PendingIsHeld
  <2>. QED  BY <2>2, <2>3, <2>4, <2>5, <2>6 DEF RequestInv
<1>. QED  BY <1>1, <1>2, <1>3, <1>4, SessionInvParts

LEMMA StutterKeepsSession ==
    ASSUME SessionInv, UNCHANGED vars
    PROVE  SessionInv'
<1>. USE DEF vars
<1>1. FlagsOK' /\ ThreadsOK'
  BY DEF SessionInv, TypeOK, FlagsOK, ThreadsOK
<1>2. AudioInv'
  BY DEF SessionInv, TypeOK, AudioInv, AudioOK, ClosedIsEmpty, QueueIsRecent,
         PastIsAccounted, Stray, UtteranceIsContiguous, UtteranceEndsAtPrevious
<1>3. RequestInv'
  <2>1. RequestsUntouched
    BY DEF RequestsUntouched
  <2>. QED  BY <2>1, SessionInvParts, UntouchedKeepsRequests
<1>. QED  BY <1>1, <1>2, <1>3 DEF SessionInv, TypeOK, AudioInv, RequestInv

(***************************************************************************)
(* Every step of every thread keeps the session's bookkeeping, for any     *)
(* capacity of the mailboxes, with or without a corrector: types, the      *)
(* order of the queued audio, and who has which final request              *)
(* (CaptionSession, all of it).                                            *)
(***************************************************************************)
THEOREM SessionInvariant == Spec => []SessionInv
<1>1. Init => SessionInv
  BY InitSession
<1>2. SessionInv /\ [Next]_vars => SessionInv'
  <2>1. ASSUME SessionInv, Next
        PROVE  SessionInv'
    <3>1. FlagsOK /\ ThreadsOK /\ AudioInv /\ RequestInv /\ ClosedIsCancelled
      BY <2>1, SessionInvParts DEF RequestInv
    <3>2. FlagsOK' /\ ThreadsOK'
      BY <2>1, <3>1, FlagsStayFlags, ThreadsStayInPlace
    <3>3. AudioInv'
      BY <2>1, <3>1, NextKeepsAudio
    <3>4. RequestInv'
      BY <2>1, <3>1, NextKeepsRequests
    <3>. QED  BY <3>2, <3>3, <3>4 DEF SessionInv, TypeOK, AudioInv, RequestInv
  <2>. QED  BY <2>1, StutterKeepsSession
<1>. QED  BY <1>1, <1>2, PTL DEF Spec

(***************************************************************************)
(* Until the mailboxes of a cancelled session are closed, every captured   *)
(* chunk is heard, counted in droppedAudioMs or still to come, and only    *)
(* one of these (audioQueue, AudioContinuity and the rebuild after a gap). *)
(***************************************************************************)
THEOREM AudioIsAccounted == Spec => []AudioAccounted
<1>1. SessionInv => AudioAccounted
  <2>. SUFFICES ASSUME SessionInv, ~closed
                PROVE  LET pending == Queued \cup Stray IN
                       /\ heard \cup dropped \cup pending = 1..captured
                       /\ heard \cap dropped = {} /\ heard \cap pending = {}
                       /\ dropped \cap pending = {}
    BY DEF AudioAccounted, Stray
  <2>. DEFINE past == captured - Len(audioQueue)
  <2>1. captured \in Nat /\ past \in Nat /\ past <= captured
    BY DEF SessionInv, TypeOK, AudioOK, QueueIsRecent
  <2>2. Queued = (past + 1)..captured
    BY QueuedIsRecent DEF SessionInv, TypeOK
  <2>3. /\ heard \cup dropped \cup Stray = 1..past
        /\ heard \cap dropped = {} /\ heard \cap Stray = {} /\ dropped \cap Stray = {}
    BY DEF SessionInv, PastIsAccounted
  <2>. HIDE DEF past
  <2>4. (1..past) \cup ((past + 1)..captured) = 1..captured
    BY <2>1
  <2>5. (1..past) \cap ((past + 1)..captured) = {}
    BY <2>1
  <2>. QED  BY <2>2, <2>3, <2>4, <2>5
<1>. QED  BY <1>1, SessionInvariant, PTL

(***************************************************************************)
(* No utterance joins speech from the two sides of a gap: what it was      *)
(* recognized from is an unbroken stretch of audio (AudioContinuity.gap    *)
(* and the rebuild of the recognizer).                                     *)
(***************************************************************************)
THEOREM UtterancesAreContiguous == Spec => []UtteranceIsContiguous
<1>1. SessionInv => UtteranceIsContiguous
  BY DEF SessionInv
<1>. QED  BY <1>1, SessionInvariant, PTL

(***************************************************************************)
(* Until the session is cancelled no final request is duplicated between   *)
(* recognizer, correction mailbox, corrector, finals and Hy, and none      *)
(* whose caption waits is forgotten by all of them (endpoint,              *)
(* enqueueFinal, correctLoop, translateLoop).                              *)
(***************************************************************************)
THEOREM FinalsAreHeldOnce == Spec => []HeldExactlyOnce
<1>1. SessionInv => HeldExactlyOnce
  <2>. SUFFICES ASSUME SessionInv, ~cancelled, NEW u \in Utterances
                PROVE  /\ Cardinality(Holders(u)) <= 1
                       /\ fate[u] = "pending" => Holders(u) # {}
    BY DEF HeldExactlyOnce, SessionInv, HeldApart
  <2>1. ASSUME NEW p \in Holders(u), NEW q \in Holders(u)
        PROVE  p = q
    BY <2>1 DEF Holders, SessionInv, HeldApart
  <2>2. Cardinality(Holders(u)) <= 1
    <3>1. CASE Holders(u) = {}
      BY <3>1, FS_EmptySet
    <3>2. CASE Holders(u) # {}
      <4>1. PICK p : p \in Holders(u)
        BY <3>2
      <4>2. Holders(u) = {p}
        BY <2>1, <4>1
      <4>3. Cardinality({p}) = 1
        BY FS_Singleton
      <4>. QED  BY <4>2, <4>3
    <3>. QED  BY <3>1, <3>2
  <2>3. fate[u] = "pending" => Holders(u) # {}
    <3>. SUFFICES ASSUME fate[u] = "pending"
                  PROVE  Holders(u) # {}
      OBVIOUS
    <3>1. u \in Held
      BY DEF SessionInv, PendingIsHeld
    <3>. QED  BY <3>1 DEF Held, Holders
  <2>. QED  BY <2>2, <2>3
<1>. QED  BY <1>1, SessionInvariant, PTL

(***************************************************************************)
(* A final that waits has preempted the provisional request Hy works on:   *)
(* there is no race window in which it misses both the poll and the        *)
(* preemption (hyScheduleLock in enqueueFinal and translateLoop).          *)
(***************************************************************************)
THEOREM FinalsPreempt == Spec => []FinalPreemptsProvisional
<1>1. SessionInv => FinalPreemptsProvisional
  BY DEF SessionInv
<1>. QED  BY <1>1, SessionInvariant, PTL

-----------------------------------------------------------------------------
(* The promise about audio.                                                *)

(* A queue whose elements follow each other holds a range. *)
LEMMA ConsecutiveIsRange ==
    ASSUME NEW q \in Seq(Chunks), NEW n \in Nat, Len(q) <= n,
           \A i \in DOMAIN q : q[i] = n - Len(q) + i
    PROVE  {q[i] : i \in DOMAIN q} = (n - Len(q) + 1)..n
<1>. DEFINE past == n - Len(q)
<1>1. Len(q) \in Nat /\ past \in Nat /\ DOMAIN q = 1..Len(q)
  OBVIOUS
<1>2. {q[i] : i \in DOMAIN q} = {past + i : i \in 1..Len(q)}
  BY <1>1
<1>3. ASSUME NEW c \in (past + 1)..n
      PROVE  c \in {past + i : i \in 1..Len(q)}
  <2>1. c - past \in 1..Len(q) /\ c = past + (c - past)
    BY <1>1
  <2>. QED  BY <2>1
<1>4. ASSUME NEW i \in 1..Len(q)
      PROVE  past + i \in (past + 1)..n
  BY <1>1
<1>. QED  BY <1>2, <1>3, <1>4

(* Before and after a step the queue is the end of what was captured. *)
LEMMA QueuesAreRanges ==
    ASSUME AudioInv, AudioInv'
    PROVE  /\ captured \in Nat /\ captured' \in Nat
           /\ Len(audioQueue) \in 0..captured /\ Len(audioQueue') \in 0..captured'
           /\ Queued = (captured - Len(audioQueue) + 1)..captured
           /\ Queued' = (captured' - Len(audioQueue') + 1)..captured'
<1>1. /\ captured \in Nat /\ audioQueue \in Seq(Chunks) /\ Len(audioQueue) <= captured
      /\ \A i \in DOMAIN audioQueue : audioQueue[i] = captured - Len(audioQueue) + i
  BY DEF AudioInv, AudioOK, QueueIsRecent
<1>2. /\ captured' \in Nat /\ audioQueue' \in Seq(Chunks) /\ Len(audioQueue') <= captured'
      /\ \A i \in DOMAIN audioQueue' : audioQueue'[i] = captured' - Len(audioQueue') + i
  BY DEF AudioInv, AudioOK, QueueIsRecent
<1>3. Len(audioQueue) \in Nat /\ Len(audioQueue') \in Nat
  BY <1>1, <1>2
<1>4. Queued = (captured - Len(audioQueue) + 1)..captured
  BY <1>1, ConsecutiveIsRange DEF Queued
<1>5. Queued' = (captured' - Len(audioQueue') + 1)..captured'
  BY <1>2, ConsecutiveIsRange DEF Queued
<1>. QED  BY <1>1, <1>2, <1>3, <1>4, <1>5

(* What the microphone's offer, the poll and the rebuild do to the past    *)
(* and to the queue.                                                       *)
LEMMA OfferEffect ==
    ASSUME AudioInv, MicOffers
    PROVE  /\ UNCHANGED <<closed, asr, heard, previous>>
           /\ \/ UNCHANGED <<captured, audioQueue, dropped>>
              \/ /\ closed /\ captured' = captured + 1 /\ UNCHANGED audioQueue
                 /\ audioQueue = <<>> /\ dropped' = dropped \cup {captured + 1}
              \/ /\ ~closed /\ captured' = captured + 1 /\ dropped' = dropped
                 /\ Len(audioQueue') = Len(audioQueue) + 1
              \/ /\ ~closed /\ captured' = captured + 1
                 /\ Len(audioQueue) >= 1 /\ Len(audioQueue') = Len(audioQueue)
                 /\ dropped' = dropped \cup {captured - Len(audioQueue) + 1}
<1>1. /\ captured < MaxChunks /\ OfferChunk
      /\ UNCHANGED <<closed, asr, heard, previous>>
  BY DEF AudioInv, AudioOK, MicOffers
<1>2. captured + 1 \in Chunks /\ audioQueue \in Seq(Chunks) /\ Len(audioQueue) \in Nat
  BY <1>1 DEF AudioInv, AudioOK
<1>3. CASE \/ UNCHANGED <<captured, audioQueue, dropped>>
           \/ /\ closed /\ captured' = captured + 1 /\ UNCHANGED audioQueue
              /\ dropped' = dropped \cup {captured + 1}
  BY <1>1, <1>3 DEF AudioInv, ClosedIsEmpty
<1>4. CASE /\ ~closed /\ captured' = captured + 1 /\ dropped' = dropped
           /\ audioQueue' = Append(audioQueue, captured + 1)
  BY <1>1, <1>2, <1>4, QueueAppend
<1>5. CASE /\ ~closed /\ ~(Len(audioQueue) < AudioCapacity)
           /\ captured' = captured + 1 /\ dropped' = dropped \cup {Head(audioQueue)}
           /\ audioQueue' = Append(Tail(audioQueue), captured + 1)
  <2>1. /\ captured' = captured + 1 /\ dropped' = dropped \cup {Head(audioQueue)}
        /\ audioQueue' = Append(Tail(audioQueue), captured + 1)
    BY <1>5
  <2>2. audioQueue # <<>>
    BY <1>5 DEF AudioInv, AudioOK
  <2>3. /\ Len(audioQueue') = Len(audioQueue) /\ Len(audioQueue) >= 1
        /\ Head(audioQueue) = audioQueue[1]
    BY <1>2, <2>1, <2>2, QueueShift
  <2>4. 1 \in DOMAIN audioQueue
    BY <1>2, <2>3
  <2>5. Head(audioQueue) = captured - Len(audioQueue) + 1
    BY <2>3, <2>4 DEF AudioInv, QueueIsRecent
  <2>. QED  BY <1>1, <1>5, <2>1, <2>3, <2>5
<1>. QED  BY <1>1, <1>3, <1>4, <1>5 DEF OfferChunk

LEMMA PollEffect ==
    ASSUME AudioInv, AsrPolls, audioQueue # <<>>
    PROVE  /\ asr = "loop" /\ ~closed
           /\ UNCHANGED <<closed, captured, dropped>>
           /\ Len(audioQueue) >= 1 /\ Len(audioQueue') = Len(audioQueue) - 1
           /\ previous' = captured - Len(audioQueue) + 1
           /\ \/ Gap(previous') /\ asr' = "rebuilding" /\ heard' = heard
              \/ asr' = "accepting" /\ heard' = heard \cup {previous'}
<1>1. /\ asr = "loop"
      /\ UNCHANGED <<closed, captured, dropped>>
      /\ audioQueue' = Tail(audioQueue) /\ previous' = Head(audioQueue)
      /\ \/ Gap(previous') /\ asr' = "rebuilding" /\ heard' = heard
         \/ asr' = "accepting" /\ heard' = heard \cup {previous'}
  BY DEF AsrPolls, Gap
<1>2. audioQueue \in Seq(Chunks) /\ Len(audioQueue) \in Nat
  BY DEF AudioInv, AudioOK
<1>3. /\ Len(audioQueue) >= 1 /\ Len(audioQueue') = Len(audioQueue) - 1
      /\ Head(audioQueue) = audioQueue[1]
  BY <1>1, <1>2, QueueTail
<1>4. 1 \in DOMAIN audioQueue
  BY <1>2, <1>3
<1>5. Head(audioQueue) = captured - Len(audioQueue) + 1
  BY <1>3, <1>4 DEF AudioInv, QueueIsRecent
<1>6. ~closed
  BY DEF AudioInv, ClosedIsEmpty
<1>. QED  BY <1>1, <1>3, <1>5, <1>6

(* A gap is found only where a chunk was dropped: all before the oldest    *)
(* chunk of the queue was heard or dropped, and what was heard ends with   *)
(* the previous one.                                                       *)
LEMMA PreviousStaysPast ==
    ASSUME SessionInv, PreviousIsPast, Next, SessionInv'
    PROVE  PreviousIsPast'
<1>. DEFINE past == captured - Len(audioQueue)
<1>1. AudioInv /\ AudioInv' /\ ThreadsOK
  BY DEF SessionInv, TypeOK, AudioInv
<1>2. /\ captured \in Nat /\ Len(audioQueue) \in 0..captured /\ past \in Nat
      /\ previous \in Nat /\ previous' \in Nat
      /\ heard \subseteq Int /\ dropped \subseteq Int
  BY <1>1, QueuesAreRanges DEF AudioInv, AudioOK
<1>3. CASE MicOffers
  <2>1. UNCHANGED <<asr, heard, previous>> /\ dropped \subseteq dropped'
    BY <1>1, <1>3, OfferEffect
  <2>2. past <= captured' - Len(audioQueue')
    BY <1>1, <1>2, <1>3, OfferEffect
  <2>. QED
    BY <1>2, <2>1, <2>2, QueuesAreRanges, <1>1 DEF PreviousIsPast
<1>4. CASE AsrPolls /\ audioQueue # <<>>
  <2>1. /\ asr = "loop" /\ ~closed
        /\ UNCHANGED <<captured, dropped>>
        /\ Len(audioQueue') = Len(audioQueue) - 1
        /\ previous' = past + 1
        /\ \/ Gap(previous') /\ asr' = "rebuilding" /\ heard' = heard
           \/ asr' = "accepting" /\ heard' = heard \cup {previous'}
    BY <1>1, <1>4, PollEffect
  <2>2. heard \cup dropped = 1..past
    BY <2>1 DEF SessionInv, PastIsAccounted, Stray
  <2>3. \A c \in heard' : c <= previous'
    BY <1>2, <2>1, <2>2
  <2>4. ASSUME asr' = "rebuilding"
        PROVE  previous' - 1 \in dropped'
    <3>1. previous # 0 /\ past # previous
      BY <1>2, <2>1, <2>4 DEF Gap
    <3>2. past > previous /\ past \in 1..past
      BY <1>2, <3>1 DEF PreviousIsPast
    <3>3. past \notin heard
      BY <1>2, <3>1, <3>2 DEF PreviousIsPast
    <3>4. past \in dropped
      BY <2>2, <3>2, <3>3
    <3>. QED  BY <1>2, <2>1, <3>4
  <2>5. previous' <= captured' - Len(audioQueue')
    BY <1>2, <2>1
  <2>. QED  BY <2>3, <2>4, <2>5 DEF PreviousIsPast
<1>5. CASE AsrPolls /\ audioQueue = <<>>
  BY <1>5 DEF AsrPolls, PreviousIsPast
<1>6. CASE AsrRebuilds
  <2>1. previous' = 0 /\ asr' # "rebuilding"
    BY <1>6 DEF AsrRebuilds
  <2>2. Len(audioQueue') \in 0..captured' /\ captured' \in Nat
    BY <1>1, QueuesAreRanges
  <2>. QED  BY <2>1, <2>2 DEF PreviousIsPast
<1>7. CASE BlankEndpoint \/ Endpoint
  BY <1>7 DEF BlankEndpoint, Endpoint, PreviousIsPast
<1>8. CASE InterruptWorkers
  <2>1. UNCHANGED <<captured, dropped, heard, previous, asr>> /\ Len(audioQueue') = 0
    BY <1>8 DEF InterruptWorkers
  <2>. QED  BY <1>2, <2>1 DEF PreviousIsPast
<1>9. CASE AudioUntouched
  BY <1>9 DEF AudioUntouched, PreviousIsPast
<1>. QED  BY <1>1, <1>3, <1>4, <1>5, <1>6, <1>7, <1>8, <1>9, AudioFrame

LEMMA PreviousInvariant == Spec => []PreviousIsPast
<1>1. Init => PreviousIsPast
  BY DEF Init, PreviousIsPast
<1>2. SessionInv /\ SessionInv' /\ PreviousIsPast /\ [Next]_vars => PreviousIsPast'
  <2>1. ASSUME PreviousIsPast, UNCHANGED vars
        PROVE  PreviousIsPast'
    BY <2>1 DEF PreviousIsPast, vars
  <2>. QED  BY <2>1, PreviousStaysPast
<1>. QED  BY <1>1, <1>2, SessionInvariant, PTL DEF Spec

LEMMA AudioStep ==
    ASSUME SessionInv, PreviousIsPast, Next, SessionInv'
    PROVE  [Audio!Next]_(Audio!flow)
<1>. DEFINE past == captured - Len(audioQueue)
<1>1. AudioInv /\ AudioInv' /\ ThreadsOK /\ closed \in BOOLEAN
  BY DEF SessionInv, TypeOK, AudioInv, FlagsOK
<1>2. /\ captured \in Nat /\ Len(audioQueue) \in 0..captured /\ past \in Nat
      /\ previous \in Nat /\ captured' \in Nat /\ Len(audioQueue') \in 0..captured'
      /\ Queued = (past + 1)..captured
      /\ Queued' = (captured' - Len(audioQueue') + 1)..captured'
  BY <1>1, QueuesAreRanges DEF AudioInv, AudioOK
<1>3. ASSUME past + 1 \in Queued
      PROVE  Audio!IsOldest(past + 1)
  BY <1>2, <1>3 DEF Audio!IsOldest
<1>4. CASE MicOffers
  <2>1. /\ UNCHANGED <<closed, asr, heard, previous>>
        /\ \/ UNCHANGED <<captured, audioQueue, dropped>>
           \/ /\ closed /\ captured' = captured + 1 /\ UNCHANGED audioQueue
              /\ audioQueue = <<>> /\ dropped' = dropped \cup {captured + 1}
           \/ /\ ~closed /\ captured' = captured + 1 /\ dropped' = dropped
              /\ Len(audioQueue') = Len(audioQueue) + 1
           \/ /\ ~closed /\ captured' = captured + 1
              /\ Len(audioQueue) >= 1 /\ Len(audioQueue') = Len(audioQueue)
              /\ dropped' = dropped \cup {past + 1}
    BY <1>1, <1>4, OfferEffect
  <2>2. Stray' = Stray
    BY <2>1 DEF Stray
  <2>3. CASE UNCHANGED <<captured, audioQueue, dropped>>
    BY <2>1, <2>2, <2>3 DEF Audio!flow, Queued
  <2>4. CASE /\ closed /\ captured' = captured + 1 /\ UNCHANGED audioQueue
             /\ dropped' = dropped \cup {captured + 1}
    <3>1. Queued' = Queued
      BY <2>4 DEF Queued
    <3>2. Audio!Refuse
      BY <2>1, <2>2, <2>4, <3>1 DEF Audio!Refuse
    <3>. QED  BY <3>2 DEF Audio!Next
  <2>5. CASE /\ ~closed /\ captured' = captured + 1 /\ dropped' = dropped
             /\ Len(audioQueue') = Len(audioQueue) + 1
    <3>1. Queued' = Queued \cup {captured + 1}
      BY <1>2, <2>5
    <3>2. Audio!Capture
      BY <2>1, <2>2, <2>5, <3>1 DEF Audio!Capture
    <3>. QED  BY <3>2 DEF Audio!Next
  <2>6. CASE /\ ~closed /\ captured' = captured + 1
             /\ Len(audioQueue) >= 1 /\ Len(audioQueue') = Len(audioQueue)
             /\ dropped' = dropped \cup {past + 1}
    <3>1. past + 1 \in Queued
      BY <1>2, <2>6
    <3>2. Queued' = (Queued \ {past + 1}) \cup {captured + 1}
      BY <1>2, <2>6
    <3>3. Audio!IsOldest(past + 1)
      BY <1>3, <3>1
    <3>. HIDE DEF past
    <3>4. Audio!Capture
      BY <2>1, <2>2, <2>6, <3>1, <3>2, <3>3 DEF Audio!Capture
    <3>. QED  BY <3>4 DEF Audio!Next
  <2>. QED  BY <2>1, <2>3, <2>4, <2>5, <2>6
<1>5. CASE AsrPolls /\ audioQueue # <<>>
  <2>1. /\ asr = "loop" /\ ~closed
        /\ UNCHANGED <<closed, captured, dropped>>
        /\ Len(audioQueue) >= 1 /\ Len(audioQueue') = Len(audioQueue) - 1
        /\ previous' = past + 1
        /\ \/ Gap(previous') /\ asr' = "rebuilding" /\ heard' = heard
           \/ asr' = "accepting" /\ heard' = heard \cup {previous'}
    BY <1>1, <1>5, PollEffect
  <2>2. Stray = {} /\ past + 1 \in Queued /\ Queued' = Queued \ {past + 1}
    BY <1>2, <2>1 DEF Stray
  <2>3. Audio!IsOldest(past + 1)
    BY <1>3, <2>2
  <2>4. CASE asr' = "rebuilding" /\ heard' = heard
    <3>1. Stray' = {past + 1}
      BY <2>1, <2>4 DEF Stray
    <3>2. previous' - 1 \in dropped'
      BY <2>4, PreviousStaysPast DEF PreviousIsPast
    <3>3. PICK c : c = past + 1
      OBVIOUS
    <3>4. c - 1 \in dropped
      BY <2>1, <3>2, <3>3
    <3>5. c \in Queued /\ Queued' = Queued \ {c} /\ Stray' = {c} /\ Audio!IsOldest(c)
      BY <2>2, <2>3, <3>1, <3>3
    <3>6. Audio!Take(c)
      BY <2>1, <2>2, <2>4, <3>4, <3>5 DEF Audio!Take
    <3>. QED  BY <3>5, <3>6 DEF Audio!Next
  <2>5. CASE asr' = "accepting" /\ heard' = heard \cup {previous'}
    <3>1. Stray' = {}
      BY <2>5 DEF Stray
    <3>2. \A d \in heard : d < past + 1
      <4>1. heard \subseteq 1..past
        BY <2>1 DEF SessionInv, PastIsAccounted
      <4>. QED  BY <1>2, <4>1
    <3>. HIDE DEF past
    <3>3. Audio!Hear(past + 1)
      BY <2>1, <2>2, <2>3, <2>5, <3>1, <3>2 DEF Audio!Hear
    <3>. QED  BY <2>2, <3>3 DEF Audio!Next
  <2>. QED  BY <2>1, <2>4, <2>5
<1>6. CASE AsrPolls /\ audioQueue = <<>>
  BY <1>6 DEF AsrPolls, Audio!flow, Queued, Stray
<1>7. CASE AsrRebuilds
  <2>1. /\ Stray = {previous} /\ Stray' = {} /\ Queued' = {}
        /\ dropped' = dropped \cup Stray \cup Queued
        /\ UNCHANGED <<closed, captured, heard>>
    BY <1>7 DEF AsrRebuilds, Stray, Queued, Discarded
  <2>2. Audio!Discard
    BY <2>1 DEF Audio!Discard
  <2>. QED  BY <2>2 DEF Audio!Next
<1>8. CASE BlankEndpoint \/ Endpoint
  BY <1>8 DEF BlankEndpoint, Endpoint, Audio!flow, Queued, Stray
<1>9. CASE InterruptWorkers
  <2>1. /\ UNCHANGED <<captured, dropped, heard, previous, asr>>
        /\ audioQueue' = <<>> /\ closed' = TRUE
    BY <1>9 DEF InterruptWorkers
  <2>2. Queued' = {} /\ Stray' = Stray
    BY <2>1 DEF Queued, Stray
  <2>3. CASE ~closed
    <3>1. Audio!Close
      BY <2>1, <2>2, <2>3 DEF Audio!Close
    <3>. QED  BY <3>1 DEF Audio!Next
  <2>4. CASE closed
    <3>1. closed = TRUE /\ Queued = {}
      BY <1>1, <2>4 DEF AudioInv, ClosedIsEmpty, Queued
    <3>. QED  BY <2>1, <2>2, <3>1 DEF Audio!flow
  <2>. QED  BY <2>3, <2>4
<1>10. CASE AudioUntouched
  BY <1>10 DEF AudioUntouched, Queued, Stray, Audio!flow
<1>. QED
  BY <1>1, <1>4, <1>5, <1>6, <1>7, <1>8, <1>9, <1>10, AudioFrame

(***************************************************************************)
(* The session keeps the promise of AudioFlow, for queues of any capacity: *)
(* every step of every thread hears the oldest chunk, drops the oldest to  *)
(* make room, discards what lies behind a gap, turns a chunk away from a   *)
(* closed mailbox, or leaves the audio alone (onChunk, AudioContinuity and *)
(* recognize).                                                             *)
(***************************************************************************)
THEOREM SessionImplementsAudioFlow == Spec => ImplementsAudioFlow
<1>1. Init => Audio!Init
  BY DEF Init, Audio!Init, Queued, Stray
<1>2. SessionInv /\ SessionInv' /\ PreviousIsPast /\ [Next]_vars
      => [Audio!Next]_(Audio!flow)
  <2>1. ASSUME UNCHANGED vars
        PROVE  UNCHANGED Audio!flow
    BY <2>1 DEF vars, Audio!flow, Queued, Stray
  <2>. QED  BY <2>1, AudioStep
<1>. QED
  BY <1>1, <1>2, SessionInvariant, PreviousInvariant, PTL
     DEF Spec, ImplementsAudioFlow, Audio!Spec
-----------------------------------------------------------------------------
(* Captions: every step of the session is one of CaptionFlow.              *)

(* A full mailbox gives its oldest for the one that comes. *)
LEMMA ShiftExchanges ==
    ASSUME finals \in Seq(Utterances), finals # <<>>, NoDuplicates(finals),
           NEW x \in Utterances, finals' = Append(Tail(finals), x)
    PROVE  AtFinals' = (AtFinals \ {Head(finals)}) \cup {x}
<1>. DEFINE n == Len(finals)
<1>1. /\ n \in Nat /\ n >= 1 /\ DOMAIN finals = 1..n /\ DOMAIN finals' = 1..n
      /\ \A i \in 1..n - 1 : finals'[i] = finals[i + 1]
      /\ finals'[n] = x /\ Head(finals) = finals[1]
  BY QueueShift
<1>. HIDE DEF n
<1>2. 1 \in DOMAIN finals /\ n \in DOMAIN finals'
  BY <1>1
<1>3. \A i \in DOMAIN finals' :
        i = n \/ (i + 1 \in DOMAIN finals /\ finals'[i] = finals[i + 1] /\ i + 1 # 1)
  BY <1>1
<1>4. \A i \in DOMAIN finals : i # 1 => i - 1 \in DOMAIN finals' /\ finals'[i - 1] = finals[i]
  <2>. SUFFICES ASSUME NEW i \in 1..n, i # 1
                PROVE  i - 1 \in DOMAIN finals' /\ finals'[i - 1] = finals[i]
    BY <1>1
  <2>1. i - 1 \in 1..n - 1 /\ i - 1 \in 1..n /\ (i - 1) + 1 = i
    BY <1>1
  <2>. QED  BY <1>1, <2>1
<1>5. ASSUME NEW i \in DOMAIN finals', i # n
      PROVE  finals'[i] \in {finals[j] : j \in DOMAIN finals} /\ finals'[i] # Head(finals)
  <2>1. i + 1 \in DOMAIN finals /\ finals'[i] = finals[i + 1] /\ i + 1 # 1
    BY <1>3, <1>5
  <2>2. finals[i + 1] # finals[1]
    BY <1>2, <2>1 DEF NoDuplicates
  <2>. QED  BY <1>1, <2>1, <2>2
<1>6. ASSUME NEW i \in DOMAIN finals, finals[i] # Head(finals)
      PROVE  finals[i] \in {finals'[j] : j \in DOMAIN finals'}
  BY <1>1, <1>4, <1>6, ZenonT(60)
<1>. DEFINE before == {finals[i] : i \in DOMAIN finals}
            now == {finals'[i] : i \in DOMAIN finals'}
<1>7. now \subseteq (before \ {Head(finals)}) \cup {x}
  BY <1>1, <1>5, SMTT(30)
<1>8. before \ {Head(finals)} \subseteq now
  BY <1>6
<1>9. x \in now
  BY <1>1, <1>2
<1>. HIDE DEF before, now
<1>10. before = AtFinals /\ now = AtFinals'
  BY DEF before, now, AtFinals
<1>. QED  BY <1>7, <1>8, <1>9, <1>10

LEMMA CaptionAnswered ==
    ASSUME RequestsOK, NEW u \in Utterances, NEW how \in {"translated", "skipped"},
           UNCHANGED <<cancelled, ended>>, u \in Held, Held' = Held \ {u},
           fate' = Settle({u}, how)
    PROVE  Captions!Next
<1>1. fate' = [fate EXCEPT ![u] = IF @ = "pending" THEN how ELSE @]
  BY DEF RequestsOK, Settle
<1>2. Captions!Answer(u, how)
  BY <1>1 DEF Captions!Answer
<1>. QED  BY <1>2 DEF Captions!Next

(* A final that is sent to Hy may be answered on the way, or another one   *)
(* in its place.                                                           *)
LEMMA SendingAnswers ==
    ASSUME RequestInv, NEW u \in Utterances, EnqueueFinal(u),
           UNCHANGED <<ended, cancelled, hy, activeHyRequest>>,
           u \in AtRecognizer \cup AtCorrector,
           AtRecognizer' = AtRecognizer \ {u}, AtCorrector' = AtCorrector \ {u},
           AtCorrectionQueue' = AtCorrectionQueue
    PROVE  [Captions!Next]_(Captions!flow)
<1>1. /\ RequestsOK /\ HeldApart /\ u \in Held
      /\ u \notin AtFinals /\ u \notin AtHy /\ u \notin AtCorrectionQueue
      /\ AtHy' = AtHy /\ fate' = Settle(Displaced(u), "skipped")
  BY DEF RequestInv, HeldApart, Held, AtHy, EnqueueFinal
<1>2. finals \in Seq(Utterances) /\ Len(finals) \in Nat
  BY <1>1 DEF RequestsOK
<1>3. CASE closed
  <2>1. Displaced(u) = {u} /\ AtFinals' = AtFinals
    BY <1>3 DEF Displaced, EnqueueFinal, OfferFinal, AtFinals
  <2>2. Held' = Held \ {u}
    BY <1>1, <2>1 DEF Held
  <2>. QED  BY <1>1, <2>1, <2>2, CaptionAnswered
<1>4. CASE ~closed /\ Len(finals) < FinalsCapacity
  <2>1. Displaced(u) = {} /\ finals' = Append(finals, u)
    BY <1>4 DEF Displaced, EnqueueFinal, OfferFinal
  <2>2. AtFinals' = AtFinals \cup {u}
    <3>. DEFINE n == Len(finals)
    <3>1. /\ n \in Nat /\ DOMAIN finals = 1..n /\ DOMAIN finals' = 1..n + 1
          /\ \A i \in 1..n : finals'[i] = finals[i]
          /\ finals'[n + 1] = u
      BY <1>2, <2>1, QueueAppend
    <3>. HIDE DEF n
    <3>2. /\ \A i \in DOMAIN finals : i \in DOMAIN finals' /\ finals'[i] = finals[i]
          /\ \A i \in DOMAIN finals' : i \in DOMAIN finals \/ i = n + 1
          /\ n + 1 \in DOMAIN finals'
      BY <3>1
    <3>. QED  BY <3>1, <3>2, ZenonT(60) DEF AtFinals
  <2>3. Held' = Held
    BY <1>1, <2>2 DEF Held
  <2>4. fate' = fate
    BY <1>1, <2>1 DEF Settle, RequestsOK
  <2>. QED  BY <2>3, <2>4 DEF Captions!flow
<1>5. CASE ~closed /\ ~(Len(finals) < FinalsCapacity)
  <2>. DEFINE oldest == Head(finals)
  <2>1. finals # <<>> /\ oldest \in Utterances /\ oldest = finals[1] /\ 1 \in DOMAIN finals
    BY <1>2, <1>5
  <2>2. Displaced(u) = {oldest} /\ finals' = Append(Tail(finals), u)
    BY <1>5 DEF Displaced, EnqueueFinal, OfferFinal
  <2>3. NoDuplicates(finals)
    BY <1>1 DEF HeldApart
  <2>4. AtFinals' = (AtFinals \ {oldest}) \cup {u} /\ oldest \in AtFinals
    BY <1>2, <2>1, <2>2, <2>3, ShiftExchanges DEF AtFinals
  <2>. HIDE DEF oldest
  <2>5. /\ oldest # u /\ oldest \in Held
        /\ oldest \notin AtRecognizer \cup AtCorrectionQueue \cup AtCorrector \cup AtHy
    BY <1>1, <2>4 DEF HeldApart, Held
  <2>6. Held' = Held \ {oldest}
    BY <1>1, <2>4, <2>5 DEF Held
  <2>. QED  BY <1>1, <2>1, <2>2, <2>5, <2>6, CaptionAnswered
<1>. QED  BY <1>3, <1>4, <1>5
(* Handing a request on shows nowhere. *)
LEMMA HandingOnStutters ==
    ASSUME RequestInv,
           \/ Partial \/ Admit \/ ClaimCorrector \/ CorrectorPolls \/ CorrectionTimesOut
           \/ DrainCorrections \/ EndCorrection \/ HyStarts \/ HyClears
    PROVE  UNCHANGED Captions!flow
<1>. SUFFICES Held' = Held /\ UNCHANGED <<cancelled, ended, fate>>
  BY DEF Captions!flow
<1>. USE DEF AtRecognizer, AtCorrectionQueue, AtCorrector, AtFinals, AtHy, Held
<1>1. CASE Partial \/ Admit \/ ClaimCorrector
  BY <1>1 DEF Partial, Admit, ClaimCorrector
<1>2. CASE CorrectionTimesOut
  BY <1>2 DEF CorrectionTimesOut
<1>3. CASE HyStarts \/ HyClears
  BY <1>3 DEF HyStarts, HyClears
<1>4. CASE DrainCorrections \/ EndCorrection
  <2>1. AtWork /\ corrector \notin {"correcting", "timedOut"}
    BY <1>4 DEF DrainCorrections, EndCorrection, AtWork
  <2>2. correctionQueue = <<>>
    BY <2>1 DEF RequestInv, BusyCoversOneJob
  <2>3. /\ UNCHANGED <<asr, hy, cancelled, ended, finals, fate, correctionQueue>>
        /\ UNCHANGED activeHyRequest
        /\ corrector' \notin {"correcting", "timedOut"}
    BY <1>4, <2>2 DEF DrainCorrections, EndCorrection
  <2>. QED  BY <2>1, <2>3
<1>5. CASE CorrectorPolls
  <2>1. /\ UNCHANGED <<asr, hy, cancelled, ended, finals, fate, activeHyRequest>>
        /\ corrector = "polling"
    BY <1>5 DEF CorrectorPolls
  <2>2. CASE correctionQueue = <<>>
    <3>1. corrector' = "loop" /\ UNCHANGED correctionQueue
      BY <1>5, <2>2 DEF CorrectorPolls
    <3>. QED  BY <2>1, <3>1
  <2>3. CASE correctionQueue # <<>>
    <3>1. /\ correctionJob' = Head(correctionQueue) /\ correctionQueue' = Tail(correctionQueue)
          /\ corrector' = "correcting"
      BY <1>5, <2>3 DEF CorrectorPolls
    <3>2. correctionQueue \in Seq(Utterances) /\ Len(correctionQueue) <= 1
      BY DEF RequestInv, RequestsOK
    <3>0. /\ Tail(correctionQueue) \in Seq(Utterances) /\ Len(correctionQueue) >= 1
          /\ Len(Tail(correctionQueue)) = Len(correctionQueue) - 1
          /\ Head(correctionQueue) = correctionQueue[1]
      BY <2>3, <3>2, QueueTail
    <3>3. DOMAIN correctionQueue = {1} /\ correctionJob' = correctionQueue[1]
      BY <3>0, <3>1, <3>2
    <3>4. correctionQueue' = <<>>
      BY <3>0, <3>1, <3>2
    <3>5. AtCorrectionQueue = {correctionJob'} /\ AtCorrector = {}
      BY <2>1, <3>3
    <3>6. AtCorrectionQueue' = {} /\ AtCorrector' = {correctionJob'}
      BY <3>1, <3>4
    <3>7. UNCHANGED <<AtRecognizer, AtFinals, AtHy>>
      BY <2>1
    <3>. HIDE DEF AtRecognizer, AtCorrectionQueue, AtCorrector, AtFinals, AtHy
    <3>. QED  BY <2>1, <3>5, <3>6, <3>7
  <2>. QED  BY <2>2, <2>3
<1>. QED  BY <1>1, <1>2, <1>3, <1>4, <1>5

(* What recognizer and corrector do with a final. *)
LEMMA SpeechStep ==
    ASSUME RequestInv, ThreadsOK,
           \/ Endpoint \/ OfferCorrection \/ EnqueueUncorrected
           \/ CorrectionSuperseded \/ CorrectionDecided \/ FallBack
    PROVE  [Captions!Next]_(Captions!flow)
<1>0. RequestsOK
  BY DEF RequestInv
<1>1. CASE Endpoint
  <2>1. /\ UNCHANGED <<corrector, hy, cancelled, finals, correctionJob, correctionQueue>>
        /\ UNCHANGED activeHyRequest
        /\ asr \in {"accepting", "flushing"} /\ asr' \in {"admitting", "enqueueing"}
        /\ ended' = ended + 1 /\ fate' = [fate EXCEPT ![ended + 1] = "pending"]
        /\ ended + 1 \in Utterances /\ ended \in Nat
    BY <1>0, <1>1 DEF Endpoint, RequestsOK
  <2>2. /\ UNCHANGED <<AtCorrectionQueue, AtCorrector, AtFinals, AtHy>>
        /\ AtRecognizer = {} /\ AtRecognizer' = {ended + 1}
    BY <2>1 DEF AtRecognizer, AtCorrectionQueue, AtCorrector, AtFinals, AtHy
  <2>3. Held' = Held \cup {ended + 1}
    BY <2>2 DEF Held
  <2>4. ended + 1 \notin Held /\ fate[ended + 1] = "none"
    BY <2>1 DEF RequestInv, EndedIsNewest
  <2>5. Captions!End
    BY <2>1, <2>3, <2>4 DEF Captions!End
  <2>. QED  BY <2>5 DEF Captions!Next
<1>2. CASE OfferCorrection
  <2>1. /\ UNCHANGED <<corrector, hy, cancelled, closed, ended, correctionJob>>
        /\ UNCHANGED activeHyRequest
        /\ asr = "offering" /\ asr' \in {"accepting", "flushing"} /\ ended \in Utterances
    BY <1>0, <1>2 DEF OfferCorrection, RequestsOK, ThreadsOK
  <2>2. correctionQueue = <<>> /\ ~AtWork
    BY <2>1 DEF RequestInv, BusyCoversOneJob
  <2>3. /\ UNCHANGED <<AtCorrector, AtHy>> /\ AtCorrector = {}
        /\ AtRecognizer = {ended} /\ AtRecognizer' = {} /\ AtCorrectionQueue = {}
    BY <2>1, <2>2 DEF AtRecognizer, AtCorrectionQueue, AtCorrector, AtHy, AtWork
  <2>4. CASE closed
    <3>1. EnqueueFinal(ended) /\ correctionQueue' = <<>>
      BY <1>2, <2>2, <2>4 DEF OfferCorrection
    <3>2. AtCorrectionQueue' = AtCorrectionQueue
      BY <2>2, <3>1 DEF AtCorrectionQueue
    <3>. QED  BY <2>1, <2>3, <3>1, <3>2, SendingAnswers
  <2>5. CASE ~closed
    <3>1. correctionQueue' = <<ended>> /\ UNCHANGED <<finals, fate>>
      BY <1>2, <2>2, <2>5 DEF OfferCorrection
    <3>2. AtCorrectionQueue' = {ended} /\ AtFinals' = AtFinals
      BY <3>1 DEF AtCorrectionQueue, AtFinals
    <3>3. Held' = Held
      BY <2>3, <3>2 DEF Held
    <3>. QED  BY <2>1, <3>1, <3>3 DEF Captions!flow
  <2>. QED  BY <2>4, <2>5
<1>3. CASE EnqueueUncorrected
  <2>1. /\ UNCHANGED <<corrector, hy, cancelled, ended, correctionJob, correctionQueue>>
        /\ UNCHANGED activeHyRequest
        /\ asr = "enqueueing" /\ asr' \in {"accepting", "flushing"}
        /\ ended \in Utterances /\ EnqueueFinal(ended)
    BY <1>0, <1>3 DEF EnqueueUncorrected, RequestsOK, ThreadsOK
  <2>2. /\ UNCHANGED <<AtCorrectionQueue, AtCorrector>>
        /\ AtRecognizer = {ended} /\ AtRecognizer' = {} /\ ended \notin AtCorrector
    BY <2>1 DEF AtRecognizer, AtCorrectionQueue, AtCorrector, RequestInv, HeldApart
  <2>. QED  BY <2>1, <2>2, SendingAnswers
<1>4. CASE CorrectionSuperseded \/ CorrectionDecided \/ FallBack
  <2>1. /\ UNCHANGED <<asr, hy, cancelled, ended, correctionJob, correctionQueue>>
        /\ UNCHANGED activeHyRequest
        /\ corrector \in {"correcting", "timedOut"} /\ corrector' \in {"jobDone", "draining"}
        /\ \/ fate[correctionJob] # "pending" /\ UNCHANGED <<finals, fate>>
           \/ cancelled /\ UNCHANGED <<finals, fate>>
           \/ EnqueueFinal(correctionJob)
    BY <1>4 DEF CorrectionSuperseded, CorrectionDecided, FallBack
  <2>2. correctionJob \in Utterances
    BY <1>0, <2>1 DEF RequestsOK
  <2>3. /\ UNCHANGED <<AtRecognizer, AtCorrectionQueue, AtHy>>
        /\ AtCorrector = {correctionJob} /\ AtCorrector' = {}
        /\ correctionJob \notin AtRecognizer
        /\ correctionJob \notin AtCorrectionQueue \cup AtFinals \cup AtHy
    BY <2>1 DEF AtRecognizer, AtCorrectionQueue, AtCorrector, AtHy, RequestInv, HeldApart
  <2>4. CASE UNCHANGED <<finals, fate>> /\ (fate[correctionJob] # "pending" \/ cancelled)
    <3>1. AtFinals' = AtFinals
      BY <2>4 DEF AtFinals
    <3>2. correctionJob \in Held /\ Held' = Held \ {correctionJob}
      BY <2>3, <3>1 DEF Held
    <3>3. CASE cancelled
      <4>1. Captions!Abandon
        BY <2>1, <2>4, <3>2, <3>3 DEF Captions!Abandon
      <4>. QED  BY <4>1 DEF Captions!Next
    <3>4. CASE fate[correctionJob] # "pending"
      <4>1. fate' = Settle({correctionJob}, "skipped")
        BY <1>0, <2>4, <3>4 DEF Settle, RequestsOK
      <4>. QED  BY <1>0, <2>1, <2>2, <3>2, <4>1, CaptionAnswered
    <3>. QED  BY <2>4, <3>3, <3>4
  <2>5. CASE EnqueueFinal(correctionJob)
    BY <2>1, <2>2, <2>3, <2>5, SendingAnswers
  <2>. QED  BY <2>1, <2>4, <2>5
<1>. QED  BY <1>1, <1>2, <1>3, <1>4
(* What Hy does with a request: a provisional one is none of the finals    *)
(* that CaptionFlow knows.                                                 *)
LEMMA HyStep ==
    ASSUME RequestInv, HyPolls \/ HyRejects \/ HyReturns \/ HyCancelled
    PROVE  [Captions!Next]_(Captions!flow)
<1>1. /\ RequestsOK /\ HeldApart /\ ActiveInRound
      /\ UNCHANGED <<asr, corrector, cancelled, ended, correctionJob, correctionQueue>>
  BY DEF RequestInv, HyPolls, HyRejects, HyReturns, HyCancelled
<1>2. UNCHANGED <<AtRecognizer, AtCorrectionQueue, AtCorrector>>
  BY <1>1 DEF AtRecognizer, AtCorrectionQueue, AtCorrector
<1>3. CASE HyPolls
  <2>1. hy = "polling" /\ AtHy = {} /\ fate' = fate
    BY <1>3 DEF HyPolls, AtHy
  <2>2. CASE finals # <<>> /\ finals' = Tail(finals) /\ activeHyRequest' = Head(finals)
             /\ hy' = "checking"
    <3>1. AtFinals' = AtFinals \ {Head(finals)} /\ Head(finals) \in AtFinals
      BY <1>1, <2>2, TakeFinal DEF RequestsOK, HeldApart
    <3>2. AtHy' = {Head(finals)}
      BY <2>2 DEF AtHy
    <3>3. Held' = Held
      BY <1>2, <2>1, <3>1, <3>2 DEF Held
    <3>. QED  BY <1>1, <2>1, <3>3 DEF Captions!flow
  <2>3. CASE provisional # <<>> /\ finals' = finals /\ activeHyRequest' = Head(provisional)
             /\ hy' = "checking"
    <3>1. Head(provisional) \in Provisionals
      <4>. HIDE DEF Provisionals
      <4>. QED  BY <1>1, <2>3 DEF RequestsOK
    <3>2. AtFinals' = AtFinals /\ AtHy' = {Head(provisional)}
      BY <2>3 DEF AtFinals, AtHy
    <3>3. Head(provisional) \notin Utterances
      BY <3>1
    <3>. HIDE DEF Utterances
    <3>4. Held' \cap Utterances = Held \cap Utterances
      BY <1>2, <2>1, <3>2, <3>3 DEF Held
    <3>. QED  BY <1>1, <2>1, <3>4 DEF Captions!flow
  <2>4. CASE finals' = finals /\ hy' = "loop"
    BY <1>1, <1>2, <2>1, <2>4 DEF AtFinals, AtHy, Held, Captions!flow
  <2>. QED  BY <1>3, <2>2, <2>3, <2>4 DEF HyPolls
<1>4. CASE HyRejects \/ HyReturns \/ HyCancelled
  <2>1. /\ UNCHANGED <<finals, activeHyRequest>>
        /\ hy \in {"checking", "translating"} /\ hy' = "clearing"
    BY <1>4 DEF HyRejects, HyReturns, HyCancelled
  <2>2. AtFinals' = AtFinals /\ AtHy = {activeHyRequest} /\ AtHy' = {}
    BY <2>1 DEF AtFinals, AtHy
  <2>3. activeHyRequest \notin AtRecognizer \cup AtCorrectionQueue \cup AtCorrector \cup AtFinals
    BY <1>1, <2>2 DEF HeldApart
  <2>4. activeHyRequest \in Held /\ Held' = Held \ {activeHyRequest}
    BY <1>2, <2>2, <2>3 DEF Held
  <2>5. CASE IsFinal(activeHyRequest)
    <3>1. activeHyRequest \in Utterances
      BY <1>1, <2>5 DEF RequestsOK, IsFinal
    <3>2. CASE HyRejects \/ HyReturns
      <4>1. \E how \in {"translated", "skipped"} : fate' = Settle({activeHyRequest}, how)
        <5>1. CASE UNCHANGED fate /\ fate[activeHyRequest] # "pending"
          BY <1>1, <3>1, <5>1 DEF Settle, RequestsOK
        <5>2. CASE SettleActive("translated") \/ SettleActive("skipped")
          BY <2>5, <5>2 DEF SettleActive
        <5>. QED  BY <2>5, <3>2, <5>1, <5>2 DEF HyRejects, HyReturns
      <4>. QED  BY <1>1, <2>4, <3>1, <4>1, CaptionAnswered
    <3>3. CASE HyCancelled
      <4>1. cancelled /\ fate' = fate
        BY <1>1, <2>5, <3>3 DEF HyCancelled, ActiveInRound, ActiveProvisional
      <4>2. Captions!Abandon
        BY <1>1, <2>4, <4>1 DEF Captions!Abandon
      <4>. QED  BY <4>2 DEF Captions!Next
    <3>. QED  BY <1>4, <3>2, <3>3
  <2>6. CASE ~IsFinal(activeHyRequest)
    <3>1. activeHyRequest \notin Utterances
      BY <2>6 DEF IsFinal
    <3>2. fate' = fate
      BY <1>4, <2>6 DEF HyRejects, HyReturns, HyCancelled, SettleActive
    <3>. HIDE DEF Utterances
    <3>3. Held' \cap Utterances = Held \cap Utterances
      BY <2>4, <3>1
    <3>. QED  BY <1>1, <3>2, <3>3 DEF Captions!flow
  <2>. QED  BY <2>5, <2>6
<1>. QED  BY <1>3, <1>4

LEMMA CaptionStep ==
    ASSUME SessionInv, Next
    PROVE  [Captions!Next]_(Captions!flow)
<1>1. RequestInv /\ ThreadsOK /\ RequestsOK /\ ClosedIsCancelled
  BY SessionInvParts DEF RequestInv
<1>2. CASE InterruptWorkers
  <2>1. /\ UNCHANGED <<asr, corrector, hy, cancelled, ended, fate, correctionJob>>
        /\ UNCHANGED activeHyRequest
        /\ finals' = <<>> /\ correctionQueue' = <<>> /\ cancelled
    BY <1>1, <1>2 DEF InterruptWorkers, ClosedIsCancelled
  <2>2. /\ UNCHANGED <<AtRecognizer, AtCorrector, AtHy>>
        /\ AtFinals' = {} /\ AtCorrectionQueue' = {}
    BY <2>1 DEF AtRecognizer, AtCorrectionQueue, AtCorrector, AtFinals, AtHy
  <2>3. Held' \subseteq Held
    BY <2>2 DEF Held
  <2>4. Captions!Abandon
    BY <2>1, <2>3 DEF Captions!Abandon
  <2>. QED  BY <2>4 DEF Captions!Next
<1>3. CASE ClearCaptions
  <2>1. /\ UNCHANGED <<asr, corrector, hy, cancelled, ended, finals, correctionJob>>
        /\ UNCHANGED <<activeHyRequest, correctionQueue>>
        /\ fate' = Settle(Utterances, "cleared")
    BY <1>3 DEF ClearCaptions
  <2>2. Held' = Held
    BY <2>1 DEF AtRecognizer, AtCorrectionQueue, AtCorrector, AtFinals, AtHy, Held
  <2>3. fate' = [u \in Utterances |-> IF fate[u] = "pending" THEN "cleared" ELSE fate[u]]
    BY <2>1 DEF Settle
  <2>4. Captions!Clear
    BY <2>1, <2>2, <2>3 DEF Captions!Clear
  <2>. QED  BY <2>4 DEF Captions!Next
<1>4. CASE RequestsUntouched
  <2>1. Held' = Held /\ UNCHANGED <<ended, fate>>
    BY <1>4 DEF RequestsUntouched, AtRecognizer, AtCorrectionQueue, AtCorrector, AtFinals,
                AtHy, Held
  <2>2. cancelled \in BOOLEAN /\ cancelled' \in BOOLEAN /\ (cancelled => cancelled')
    BY <1>4, FlagsStayFlags DEF RequestsUntouched, SessionInv, TypeOK, FlagsOK
  <2>3. CASE cancelled' = cancelled
    BY <2>1, <2>3 DEF Captions!flow
  <2>4. CASE cancelled' # cancelled
    <3>1. Captions!Cancel
      BY <2>1, <2>2, <2>4 DEF Captions!Cancel
    <3>. QED  BY <3>1 DEF Captions!Next
  <2>. QED  BY <2>3, <2>4
<1>. QED
  BY <1>1, <1>2, <1>3, <1>4, RequestFrame, HandingOnStutters, SpeechStep, HyStep
     DEF HandsOver

(***************************************************************************)
(* The session keeps the promise of CaptionFlow, for mailboxes of any      *)
(* capacity, with or without a corrector: whichever thread has a final     *)
(* request hands it on or has it answered once, and the caption is settled *)
(* for good (endpoint, correctLoop, enqueueFinal and translateLoop).       *)
(***************************************************************************)
THEOREM SessionImplementsCaptionFlow == Spec => ImplementsCaptionFlow
<1>1. Init => Captions!Init
  BY DEF Init, Captions!Init, Held, AtRecognizer, AtCorrectionQueue, AtCorrector, AtFinals, AtHy
<1>2. SessionInv /\ [Next]_vars => [Captions!Next]_(Captions!flow)
  <2>1. ASSUME UNCHANGED vars
        PROVE  UNCHANGED Captions!flow
    BY <2>1 DEF vars, Captions!flow, Held, AtRecognizer, AtCorrectionQueue, AtCorrector,
                AtFinals, AtHy
  <2>. QED  BY <2>1, CaptionStep
<1>. QED
  BY <1>1, <1>2, SessionInvariant, PTL DEF Spec, ImplementsCaptionFlow, Captions!Spec
-----------------------------------------------------------------------------
(* The session from its start to its end.                                  *)

(* What each step does to the flags and program counters that decide when  *)
(* a session listens and when it is gone.                                  *)
LEMMA LifeFrame ==
    ASSUME ThreadsOK, Next
    PROVE  /\ stopping => stopping'
           /\ cancelled => cancelled'
           /\ cancelled' => cancelled \/ stopping'
           /\ \A w \in Workers : startup[w] # "none" => startup'[w] = startup[w]
           /\ \/ UNCHANGED mic
              \/ mic \notin {"off", "done"} /\ mic' # "off"
              \/ asr = "opening" /\ mic' = "starting"
           /\ UNCHANGED corrector \/ corrector # "done"
           /\ UNCHANGED hy \/ hy # "done"
<1>1. CASE Microphone
  BY <1>1 DEF Microphone, MicStarts, MicReads, MicOffers, MicStops, MicFinishes
<1>2. CASE AsrInitializes \/ CorrectorInitializes \/ HyInitializes
  BY <1>2 DEF AsrInitializes, CorrectorInitializes, HyInitializes, Report, ThreadsOK
<1>3. CASE AsrFails \/ HyFails \/ Stop \/ Cancel
  BY <1>3 DEF AsrFails, HyFails, Fail, Stop, Cancel
<1>4. CASE AsrAwaits \/ StartCapture
  BY <1>4 DEF AsrAwaits, StartCapture
<1>5. CASE \/ AsrPolls \/ AsrRebuilds \/ AsrReadsSize \/ AsrDecides
           \/ Partial \/ BlankEndpoint \/ Endpoint \/ Admit \/ ClaimCorrector \/ OfferCorrection
           \/ EnqueueUncorrected \/ AsrReturns \/ AsrCancelled \/ AsrExits
  BY <1>5 DEF AsrPolls, AsrRebuilds, AsrReadsSize, AsrDecides, Partial, BlankEndpoint,
              Endpoint, Admit, ClaimCorrector, OfferCorrection, EnqueueUncorrected, AsrReturns,
              AsrCancelled, AsrExits
<1>6. CASE \/ CorrectorBecomesReady \/ CorrectorReads \/ CorrectorDecides \/ CorrectorPolls
           \/ CorrectionSuperseded \/ CorrectionDecided \/ CorrectionTimesOut
           \/ FallBack \/ DrainCorrections \/ EndCorrection \/ CorrectorExits
  BY <1>6 DEF CorrectorBecomesReady, CorrectorReads, CorrectorDecides, CorrectorPolls,
              CorrectionSuperseded, CorrectionDecided, CorrectionTimesOut,
              FallBack, DrainCorrections, EndCorrection, CorrectorExits
<1>7. CASE \/ HyReads \/ HyDecides \/ HyPolls \/ HyRejects \/ HyStarts \/ HyReturns
           \/ HyCancelled \/ HyClears
  BY <1>7 DEF HyReads, HyDecides, HyPolls, HyRejects, HyStarts, HyReturns, HyCancelled,
              HyClears
<1>8. CASE InterruptWorkers \/ ClearCaptions
  BY <1>8 DEF InterruptWorkers, ClearCaptions
<1>. QED
  BY <1>1, <1>2, <1>3, <1>4, <1>5, <1>6, <1>7, <1>8
     DEF Next, Recognition, Correction, Translation
(* The recognizer is the only thread that moves itself, and it comes to    *)
(* open the microphone from the barrier only.                              *)
LEMMA OthersLeaveRecognizer ==
    ASSUME Next
    PROVE  Recognition \/ UNCHANGED <<asr, endpointIn>>
<1>1. CASE Microphone
  BY <1>1 DEF Microphone, MicStarts, MicReads, MicOffers, MicStops, MicFinishes
<1>2. CASE Correction
  BY <1>2 DEF Correction, CorrectorInitializes, CorrectorBecomesReady, CorrectorReads,
              CorrectorDecides, CorrectorPolls, CorrectionSuperseded, CorrectionDecided,
              CorrectionTimesOut, FallBack, DrainCorrections, EndCorrection, CorrectorExits
<1>3. CASE Translation
  BY <1>3 DEF Translation, HyInitializes, HyFails, HyReads, HyDecides, HyPolls, HyRejects,
              HyStarts, HyReturns, HyCancelled, HyClears
<1>4. CASE Stop \/ Cancel \/ InterruptWorkers \/ ClearCaptions
  BY <1>4 DEF Stop, Cancel, InterruptWorkers, ClearCaptions
<1>. QED  BY <1>1, <1>2, <1>3, <1>4 DEF Next

LEMMA OpensFromBarrier ==
    ASSUME ThreadsOK, Next, asr # "opening", asr' = "opening"
    PROVE  AllReported /\ RequiredFailures = {}
<1>1. Recognition
  BY OthersLeaveRecognizer
<1>2. CASE AsrAwaits
  BY <1>2 DEF AsrAwaits
<1>3. CASE OfferCorrection \/ EnqueueUncorrected
  BY <1>3 DEF OfferCorrection, EnqueueUncorrected, ThreadsOK
<1>4. CASE Endpoint \/ Admit \/ ClaimCorrector \/ Partial \/ BlankEndpoint
  BY <1>4 DEF Endpoint, Admit, ClaimCorrector, Partial, BlankEndpoint
<1>5. CASE AsrInitializes \/ AsrFails \/ StartCapture \/ AsrPolls \/ AsrRebuilds
  BY <1>5 DEF AsrInitializes, AsrFails, StartCapture, AsrPolls, AsrRebuilds
<1>6. CASE AsrReadsSize \/ AsrDecides \/ AsrReturns \/ AsrCancelled \/ AsrExits
  BY <1>6 DEF AsrReadsSize, AsrDecides, AsrReturns, AsrCancelled, AsrExits
<1>. QED  BY <1>1, <1>2, <1>3, <1>4, <1>5, <1>6 DEF Recognition

(* The barrier lets the recognizer pass once everybody is ready, and who   *)
(* was ready stays so.                                                     *)
LEMMA BarrierHolds ==
    ASSUME ThreadsOK, ReadyBehindBarrier, Next
    PROVE  ReadyBehindBarrier'
<1>1. \A w \in Workers : startup[w] # "none" => startup'[w] = startup[w]
  BY LifeFrame
<1>2. Required \subseteq Workers
  BY DEF Required, Workers
<1>3. ASSUME AllReported, \A w \in Required : startup[w] = "ready"
      PROVE  ReadyBehindBarrier'
  BY <1>1, <1>2, <1>3 DEF ReadyBehindBarrier, AllReported
<1>4. CASE asr = "opening" \/ mic # "off"
  BY <1>3, <1>4 DEF ReadyBehindBarrier
<1>5. CASE asr # "opening" /\ mic = "off"
  <2>1. mic' = "off"
    BY <1>5, LifeFrame
  <2>2. CASE asr' = "opening"
    <3>1. AllReported /\ RequiredFailures = {}
      BY <1>5, <2>2, OpensFromBarrier
    <3>2. \A w \in Required : startup[w] = "ready"
      BY <1>2, <3>1 DEF AllReported, RequiredFailures, ThreadsOK
    <3>. QED  BY <1>3, <3>1, <3>2
  <2>3. CASE asr' # "opening"
    BY <2>1, <2>3 DEF ReadyBehindBarrier
  <2>. QED  BY <2>2, <2>3
<1>. QED  BY <1>4, <1>5

LEMMA BarrierInvariant == Spec => []ReadyBehindBarrier
<1>1. Init => ReadyBehindBarrier
  BY DEF Init, ReadyBehindBarrier
<1>2. SessionInv /\ ReadyBehindBarrier /\ [Next]_vars => ReadyBehindBarrier'
  <2>1. ASSUME ReadyBehindBarrier, UNCHANGED vars
        PROVE  ReadyBehindBarrier'
    BY <2>1 DEF ReadyBehindBarrier, AllReported, vars
  <2>. QED  BY <2>1, BarrierHolds DEF SessionInv, TypeOK
<1>. QED  BY <1>1, <1>2, SessionInvariant, PTL DEF Spec

(***************************************************************************)
(* The microphone is never on before every worker has reported and the     *)
(* recognizer and Hy are ready, whoever fails, is slow or is cancelled     *)
(* while it loads (WorkerStartupBarrier, and capture.start() in            *)
(* recognize).                                                             *)
(***************************************************************************)
THEOREM ListensWhenReady == Spec => []ListensOnlyWhenReady
<1>1. ReadyBehindBarrier => ListensOnlyWhenReady
  BY DEF ReadyBehindBarrier, ListensOnlyWhenReady
<1>. QED  BY <1>1, BarrierInvariant, PTL

LEMMA LeavingStaysTold ==
    ASSUME ThreadsOK, ClosedIsCancelled, LeavingIsTold, Next
    PROVE  LeavingIsTold'
<1>1. stopping => stopping'
  BY LifeFrame
<1>2. cancelled' => stopping'
  BY <1>1, LifeFrame DEF LeavingIsTold
<1>3. ASSUME UNCHANGED <<asr, endpointIn>>
      PROVE  LeavingIsTold'
  BY <1>1, <1>2, <1>3 DEF LeavingIsTold
<1>4. CASE Recognition
  <2>1. CASE AsrInitializes \/ AsrPolls \/ AsrRebuilds \/ AsrReadsSize \/ StartCapture \/ Admit \/ ClaimCorrector
    BY <1>1, <1>2, <2>1 DEF AsrInitializes, AsrPolls, AsrRebuilds, AsrReadsSize,
                            StartCapture, Admit, ClaimCorrector, LeavingIsTold
  <2>2. CASE AsrAwaits
    BY <1>1, <1>2, <2>2 DEF AsrAwaits, LeavingIsTold, ClosedIsCancelled
  <2>3. CASE AsrFails
    BY <1>1, <1>2, <2>3 DEF AsrFails, Fail, LeavingIsTold
  <2>4. CASE AsrDecides
    BY <1>1, <1>2, <2>4 DEF AsrDecides, ShouldFinishAsr, LeavingIsTold
  <2>5. CASE Partial \/ BlankEndpoint
    BY <1>3, <2>5 DEF Partial, BlankEndpoint
  <2>6. CASE Endpoint
    BY <1>1, <1>2, <2>6 DEF Endpoint, LeavingIsTold
  <2>7. CASE OfferCorrection \/ EnqueueUncorrected
    <3>1. asr' = endpointIn /\ UNCHANGED endpointIn
      BY <2>7 DEF OfferCorrection, EnqueueUncorrected
    <3>. QED  BY <1>1, <1>2, <3>1 DEF LeavingIsTold, ThreadsOK
  <2>8. CASE AsrReturns \/ AsrCancelled \/ AsrExits
    BY <1>1, <1>2, <2>8 DEF AsrReturns, AsrCancelled, AsrExits, LeavingIsTold
  <2>. QED  BY <1>4, <2>1, <2>2, <2>3, <2>4, <2>5, <2>6, <2>7, <2>8 DEF Recognition
<1>. QED  BY <1>3, <1>4, OthersLeaveRecognizer

LEMMA LeavingInvariant == Spec => []LeavingIsTold
<1>1. Init => LeavingIsTold
  BY DEF Init, LeavingIsTold
<1>2. SessionInv /\ LeavingIsTold /\ [Next]_vars => LeavingIsTold'
  <2>1. ASSUME LeavingIsTold, UNCHANGED vars
        PROVE  LeavingIsTold'
    BY <2>1 DEF LeavingIsTold, vars
  <2>. QED  BY <2>1, LeavingStaysTold DEF SessionInv, TypeOK
<1>. QED  BY <1>1, <1>2, SessionInvariant, PTL DEF Spec

(* A thread that is gone stays gone; the last to go leaves a session that  *)
(* was told to.                                                            *)
LEMMA GoneIsTold ==
    ASSUME ThreadsOK, LeavingIsTold, Next
    PROVE  (Gone => Gone') /\ (Gone' => stopping)
<1>1. asr = "done" => asr' = "done"
  <2>1. CASE Recognition
    BY <2>1 DEF Recognition, AsrInitializes, AsrAwaits, AsrFails, StartCapture, AsrPolls,
                AsrRebuilds, AsrReadsSize, AsrDecides, Partial, BlankEndpoint, Endpoint,
                Admit, ClaimCorrector, OfferCorrection, EnqueueUncorrected, AsrReturns, AsrCancelled, AsrExits
  <2>. QED  BY <2>1, OthersLeaveRecognizer
<1>2. asr' = "done" => asr \in {"exit", "done"}
  <2>1. CASE AsrInitializes \/ AsrAwaits \/ AsrFails \/ StartCapture \/ AsrPolls
             \/ AsrRebuilds \/ AsrReadsSize \/ AsrDecides
    BY <2>1 DEF AsrInitializes, AsrAwaits, AsrFails, StartCapture, AsrPolls,
                AsrRebuilds, AsrReadsSize, AsrDecides
  <2>2. CASE OfferCorrection \/ EnqueueUncorrected
    BY <2>2 DEF OfferCorrection, EnqueueUncorrected, ThreadsOK
  <2>3. CASE Partial \/ BlankEndpoint \/ Endpoint \/ Admit \/ ClaimCorrector \/ AsrReturns \/ AsrCancelled
             \/ AsrExits
    BY <2>3 DEF Partial, BlankEndpoint, Endpoint, Admit, ClaimCorrector, AsrReturns, AsrCancelled, AsrExits
  <2>. QED  BY <2>1, <2>2, <2>3, OthersLeaveRecognizer DEF Recognition
<1>. QED  BY <1>1, <1>2, LifeFrame DEF Gone, LeavingIsTold

LEMMA LifeStep ==
    ASSUME ThreadsOK, LeavingIsTold, Next
    PROVE  \/ UNCHANGED Phase
           \/ Phase = "running" /\ Phase' = "stopping"
           \/ Phase \in {"running", "stopping"} /\ Phase' = "cancelled"
           \/ Phase \in {"stopping", "cancelled"} /\ Phase' = "dead"
<1>1. (Gone => Gone') /\ (Gone' => stopping)
  BY GoneIsTold
<1>2. (stopping => stopping') /\ (cancelled => cancelled')
  BY LifeFrame
<1>. HIDE DEF Gone
<1>. QED  BY <1>1, <1>2 DEF Phase, LeavingIsTold

(***************************************************************************)
(* The session that CaptionService owns, seen from outside, lives as       *)
(* SessionLife says: its threads are gone only after stop(), cancel() or a *)
(* failure told them to go, and none of them comes back                    *)
(* (SessionLifecycle, and what each worker does on its way out).           *)
(***************************************************************************)
THEOREM SessionEndsWhenTold == Spec => EndsOnlyWhenTold
<1>. DEFINE life == [s \in {"this"} |-> Phase]
<1>1. Init => Life!Init
  <2>1. Init => Phase = "running"
    BY DEF Init, Phase, Gone
  <2>. QED  BY <2>1 DEF Life!Init
<1>2. SessionInv /\ LeavingIsTold /\ [Next]_vars => [Life!Next]_life
  <2>1. ASSUME UNCHANGED vars
        PROVE  UNCHANGED life
    BY <2>1 DEF vars, Phase, Gone
  <2>2. ASSUME SessionInv, LeavingIsTold, Next
        PROVE  [Life!Next]_life
    <3>1. \/ UNCHANGED Phase
          \/ Phase = "running" /\ Phase' = "stopping"
          \/ Phase \in {"running", "stopping"} /\ Phase' = "cancelled"
          \/ Phase \in {"stopping", "cancelled"} /\ Phase' = "dead"
      BY <2>2, LifeStep DEF SessionInv, TypeOK
    <3>2. life["this"] = Phase /\ life' = [life EXCEPT !["this"] = Phase']
      OBVIOUS
    <3>3. ASSUME NEW next, Phase' = next
          PROVE  Life!Becomes("this", next)
      BY <3>2, <3>3 DEF Life!Becomes
    <3>. QED  BY <3>1, <3>2, <3>3 DEF Life!Next, Life!Stop, Life!Cancel, Life!Die
  <2>. QED  BY <2>1, <2>2
<1>. QED
  BY <1>1, <1>2, SessionInvariant, LeavingInvariant, PTL DEF Spec, EndsOnlyWhenTold, Life!Spec
=============================================================================
