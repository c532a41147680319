----------------------- MODULE CorrectionDecodeProofs -----------------------
(***************************************************************************)
(* What holds of the corrector, its decode threads and the recognizer for  *)
(* any number of jobs: DecodeInv is inductive, and the safety properties   *)
(* the runs check follow from it.                                          *)
(***************************************************************************)
EXTENDS CorrectionDecode, TLAPS

(***************************************************************************)
(* What the methods of the gate leave behind is a gate.                    *)
(***************************************************************************)
LEMMA GateUpdates ==
    ASSUME NEW g \in Gate, NEW a \in BOOLEAN, NEW b \in BOOLEAN
    PROVE  /\ [g EXCEPT !.callStarted = a] \in Gate
           /\ [g EXCEPT !.callFinished = a, !.closed = b] \in Gate
           /\ [g EXCEPT !.retirementRequested = a, !.closed = b] \in Gate
  BY DEF Gate

USE JobsAssumption
    DEF Jobs, correctorVars, decoderVars, sessionVars, CorrectorPc, DecoderPc,
        NewGate, InUse, Goto, EndJob

(***************************************************************************)
(* The parts of DecodeInv are opened throughout: nearly every action needs *)
(* several of them to preserve one.                                        *)
(***************************************************************************)
USE DEF AheadUntouched, BehindOver, ThreadsConsistent, ThreadConsistent,
        ThreadsListed, CorrectorConsistent, RetirementConsistent,
        ClosesCounted, JoinedLast

(***************************************************************************)
(* Every step of the correction thread keeps the invariant: what it        *)
(* concludes from the gate in retire() is still so when it wipes and       *)
(* closes.                                                                 *)
(***************************************************************************)
LEMMA CorrectorKeepsInv == DecodeInv /\ Corrector => DecodeInv'
<1>. SUFFICES ASSUME DecodeInv, Corrector PROVE DecodeInv'
  OBVIOUS
<1>. USE DEF DecodeInv
<1>1. CASE Poll
  <2>a. job' \in 0..MaxJobs
    BY <1>1 DEF Poll, TypeOK
  <2>1. TypeOK'
    BY <1>1, <2>a DEF Poll, TypeOK
  <2>2. AheadUntouched'
    BY <1>1 DEF Poll, TypeOK
  <2>3. BehindOver'
    BY <1>1 DEF Poll, TypeOK
  <2>4. ThreadsConsistent'
    BY <1>1 DEF Poll, TypeOK
  <2>5. ThreadsListed'
    BY <1>1 DEF Poll, TypeOK
  <2>6. CorrectorConsistent'
    BY <1>1 DEF Poll, TypeOK
  <2>7. RetirementConsistent'
    BY <1>1 DEF Poll, TypeOK
  <2>8. ClosesCounted'
    BY <1>1 DEF Poll, TypeOK
  <2>9. JoinedLast'
    BY <1>1 DEF Poll, TypeOK
  <2>. QED  BY <2>1, <2>2, <2>3, <2>4, <2>5, <2>6, <2>7, <2>8, <2>9
<1>2. CASE DropJob
  BY <1>2 DEF DropJob, TypeOK
<1>3. CASE DeadlineElapsedInQueue
  BY <1>3 DEF DeadlineElapsedInQueue, TypeOK
<1>4. CASE StartDecoder
  BY <1>4 DEF StartDecoder, TypeOK
<1>5. CASE GetReturns
  BY <1>5 DEF GetReturns, TypeOK
<1>6. CASE Deadline
  BY <1>6 DEF Deadline, TypeOK
<1>7. CASE GetInterrupted
  BY <1>7, ZenonT(150) DEF GetInterrupted, TypeOK
<1>8. CASE Retire
  <2>x. job \in Jobs /\ gate[job] \in Gate
    BY <1>8 DEF Retire, TypeOK
  <2>y. /\ InUse(gate[job]) \in BOOLEAN
        /\ (gate[job].closed \/ (~InUse(gate[job]) /\ ~gate[job].closed)) \in BOOLEAN
    BY <2>x DEF Gate
  <2>a. gate' \in [Jobs -> Gate]
    BY <1>8, <2>x, <2>y, GateUpdates DEF Retire, TypeOK
  <2>z. /\ gate'[job].callStarted = gate[job].callStarted
        /\ gate'[job].callFinished = gate[job].callFinished
        /\ gate'[job].retirementRequested = TRUE
        /\ gate'[job].closed = (gate[job].closed \/ ~InUse(gate[job]))
    BY <1>8, <2>x DEF Retire, TypeOK, Gate
  <2>1. TypeOK'
    BY <1>8, <2>a DEF Retire, TypeOK
  <2>2. AheadUntouched'
    BY <1>8, ZenonT(150) DEF Retire, TypeOK
  <2>3. BehindOver'
    BY <1>8 DEF Retire, TypeOK
  <2>4. ThreadsConsistent'
    BY <1>8 DEF Retire, TypeOK
  <2>5. ThreadsListed'
    BY <1>8 DEF Retire, TypeOK
  <2>6. CorrectorConsistent'
    BY <1>8 DEF Retire, TypeOK
  <2>7. RetirementConsistent'
    BY <1>8, <2>x, <2>z DEF Retire, TypeOK
  <2>8. ClosesCounted'
    BY <1>8 DEF Retire, TypeOK
  <2>9. JoinedLast'
    BY <1>8 DEF Retire, TypeOK
  <2>. QED  BY <2>1, <2>2, <2>3, <2>4, <2>5, <2>6, <2>7, <2>8, <2>9
<1>9. CASE CancelTask
  BY <1>9 DEF CancelTask, TypeOK
<1>10. CASE WipeUnused
  BY <1>10 DEF WipeUnused, TypeOK
<1>11. CASE CloseUnused
  BY <1>11 DEF CloseUnused, TypeOK
<1>12. CASE LeaveLoop
  BY <1>12 DEF LeaveLoop, TypeOK
<1>13. CASE Exit
  BY <1>13, SMTT(30) DEF Exit, TypeOK
<1>. QED  BY <1>1, <1>2, <1>3, <1>4, <1>5, <1>6, <1>7, <1>8, <1>9, <1>10, <1>11, <1>12, <1>13 DEF Corrector

(***************************************************************************)
(* So does every step of a decode thread, in time or late.                 *)
(***************************************************************************)
LEMMA DecoderKeepsInv ==
    ASSUME NEW j \in Jobs, DecodeInv, Bookkeeping(j) \/ DecodeReturns(j)
    PROVE  DecodeInv'
<1>. USE DEF DecodeInv
<1>1. CASE RunTask(j)
  BY <1>1 DEF RunTask, TypeOK
<1>2. CASE BeginCall(j)
  <2>1. CASE gate[j].retirementRequested
    <3>1. /\ decoder[j] = "entered" /\ Goto(j, "refused")
          /\ UNCHANGED <<correctorVars, gate, task, pcm, decodeThreads, closes, sessionVars>>
      BY <1>2, <2>1 DEF BeginCall
    <3>2. TypeOK' /\ AheadUntouched' /\ BehindOver'
      BY <3>1 DEF TypeOK
    <3>3. ThreadsConsistent'
      BY <2>1, <3>1 DEF TypeOK
    <3>4. ThreadsListed' /\ CorrectorConsistent' /\ JoinedLast'
      BY <3>1 DEF TypeOK
    <3>5. RetirementConsistent' /\ ClosesCounted'
      BY <3>1 DEF TypeOK
    <3>. QED  BY <3>2, <3>3, <3>4, <3>5
  <2>2. CASE ~gate[j].retirementRequested
    <3>1. /\ decoder[j] = "entered" /\ Goto(j, "decoding")
          /\ gate' = [gate EXCEPT ![j].callStarted = TRUE]
          /\ UNCHANGED <<correctorVars, task, pcm, decodeThreads, closes, sessionVars>>
      BY <1>2, <2>2 DEF BeginCall
    <3>2. gate' \in [Jobs -> Gate]
      BY <3>1, GateUpdates, ZenonT(60) DEF TypeOK
    <3>3. /\ gate'[j].callStarted
          /\ ~gate'[j].callFinished
          /\ gate'[j].retirementRequested = gate[j].retirementRequested
          /\ gate'[j].closed = gate[j].closed
      BY <3>1 DEF TypeOK, Gate
    <3>4. \A i \in Jobs : i # j => gate'[i] = gate[i]
      BY <3>1 DEF TypeOK
    <3>5. TypeOK'
      BY <3>1, <3>2 DEF TypeOK
    <3>6. AheadUntouched'
      BY <3>1, <3>4, ZenonT(150) DEF TypeOK
    <3>9. BehindOver' /\ ThreadsListed' /\ JoinedLast'
      BY <3>1, <3>4 DEF TypeOK
    <3>7. ThreadsConsistent'
      BY <2>2, <3>1, <3>3, <3>4 DEF TypeOK
    <3>8. CorrectorConsistent' /\ RetirementConsistent' /\ ClosesCounted'
      BY <2>2, <3>1, <3>3, <3>4 DEF TypeOK
    <3>. QED  BY <3>5, <3>6, <3>9, <3>7, <3>8
  <2>. QED  BY <2>1, <2>2
<1>3. CASE WipeRefused(j)
  BY <1>3 DEF WipeRefused, TypeOK
<1>4. CASE DecodeReturns(j)
  BY <1>4 DEF DecodeReturns, TypeOK
<1>5. CASE WipeDecoded(j)
  BY <1>5 DEF WipeDecoded, TypeOK
<1>6. CASE FinishCall(j)
  <2>x. gate[j] \in Gate
    BY DEF TypeOK
  <2>y. (gate[j].closed \/ (gate[j].retirementRequested /\ ~gate[j].closed)) \in BOOLEAN
    BY <2>x DEF Gate
  <2>a. gate' \in [Jobs -> Gate]
    BY <1>6, <2>x, <2>y, GateUpdates DEF FinishCall, TypeOK
  <2>1. TypeOK'
    BY <1>6, <2>a DEF FinishCall, TypeOK
  <2>2. AheadUntouched'
    BY <1>6, ZenonT(150) DEF FinishCall, TypeOK
  <2>3. BehindOver'
    BY <1>6 DEF FinishCall, TypeOK
  <2>4. ThreadsConsistent'
    BY <1>6 DEF FinishCall, TypeOK
  <2>5. ThreadsListed'
    BY <1>6 DEF FinishCall, TypeOK
  <2>6. CorrectorConsistent'
    BY <1>6 DEF FinishCall, TypeOK
  <2>7. RetirementConsistent'
    BY <1>6 DEF FinishCall, TypeOK
  <2>8. ClosesCounted'
    BY <1>6 DEF FinishCall, TypeOK
  <2>9. JoinedLast'
    BY <1>6 DEF FinishCall, TypeOK
  <2>. QED  BY <2>1, <2>2, <2>3, <2>4, <2>5, <2>6, <2>7, <2>8, <2>9
<1>7. CASE CloseAfterDecode(j)
  BY <1>7 DEF CloseAfterDecode, TypeOK
<1>8. CASE CompleteTask(j)
  BY <1>8 DEF CompleteTask, TypeOK
<1>9. CASE Leave(j)
  BY <1>9 DEF Leave, TypeOK
<1>. QED  BY <1>1, <1>2, <1>3, <1>4, <1>5, <1>6, <1>7, <1>8, <1>9 DEF Bookkeeping

(***************************************************************************)
(* So do stop(), cancel() and join() of the session.                       *)
(***************************************************************************)
LEMMA SessionKeepsInv ==
    ASSUME DecodeInv, Stop \/ Cancel \/ Join
    PROVE  DecodeInv'
<1>1. CASE Stop
  BY <1>1 DEF DecodeInv, TypeOK, Stop
<1>2. CASE Cancel
  BY <1>2 DEF DecodeInv, TypeOK, Cancel
<1>3. CASE Join
  BY <1>3 DEF DecodeInv, TypeOK, Join
<1>. QED  BY <1>1, <1>2, <1>3

(***************************************************************************)
(* DecodeInv holds in every reachable state, whatever the number of jobs:  *)
(* the flags of NativeResourceUseGate always tell where the decode thread  *)
(* is and which of the two threads owes close().                           *)
(***************************************************************************)
THEOREM DecodeInvariant == Spec => []DecodeInv
<1>1. Init => DecodeInv
  <2>. SUFFICES ASSUME Init PROVE DecodeInv
    OBVIOUS
  <2>1. TypeOK
    <3>1. [j \in Jobs |-> NewGate] \in [Jobs -> Gate]
      BY DEF Gate
    <3>2. gate \in [Jobs -> Gate]
      BY <3>1 DEF Init
    <3>3. /\ decoder \in [Jobs -> DecoderPc]
          /\ task \in [Jobs -> {"new", "cancelled", "done"}]
          /\ pcm \in [Jobs -> {"held", "wiped"}]
      BY DEF Init
    <3>4. job \in 0..MaxJobs /\ closes \in Nat /\ decodeThreads \subseteq Jobs
      BY DEF Init
    <3>. QED  BY <3>2, <3>3, <3>4 DEF Init, TypeOK
  <2>2. AheadUntouched /\ BehindOver
    BY DEF Init
  <2>3. ThreadsConsistent
    BY DEF Init
  <2>4. ThreadsListed
    BY DEF Init
  <2>5. CorrectorConsistent /\ RetirementConsistent /\ ClosesCounted /\ JoinedLast
    BY DEF Init
  <2>. QED  BY <2>1, <2>2, <2>3, <2>4, <2>5 DEF DecodeInv
<1>2. DecodeInv /\ [Next]_vars => DecodeInv'
  <2>. SUFFICES ASSUME DecodeInv, [Next]_vars PROVE DecodeInv'
    OBVIOUS
  <2>1. CASE UNCHANGED vars
    BY <2>1 DEF DecodeInv, TypeOK, vars
  <2>2. CASE Next
    BY <2>2, CorrectorKeepsInv, DecoderKeepsInv, SessionKeepsInv DEF Next
  <2>. QED  BY <2>1, <2>2
<1>. QED  BY <1>1, <1>2, PTL DEF Spec

(***************************************************************************)
(* CaptionSession's promise that cancellation never releases an in-use     *)
(* object: decode() is never running once close() was called.              *)
(***************************************************************************)
THEOREM RecognizerOutlivesDecode == Spec => []NeverClosedInUse
<1>1. DecodeInv => NeverClosedInUse
  BY DEF DecodeInv, TypeOK, NeverClosedInUse
<1>. QED  BY <1>1, DecodeInvariant, PTL

(***************************************************************************)
(* The timeout, the late decode thread and the corrector's own finally     *)
(* block never close the recognizer twice.                                 *)
(***************************************************************************)
THEOREM RecognizerClosedOnce == Spec => []ClosedAtMostOnce
<1>1. DecodeInv => ClosedAtMostOnce
  BY DEF DecodeInv, TypeOK, ClosedAtMostOnce
<1>. QED  BY <1>1, DecodeInvariant, PTL

(***************************************************************************)
(* job.samples.fill(0f), which four places call, never hits the samples a  *)
(* decode is reading.                                                      *)
(***************************************************************************)
THEOREM SamplesOutliveDecode == Spec => []PcmIntactWhileDecoding
<1>1. DecodeInv => PcmIntactWhileDecoding
  BY DEF DecodeInv, PcmIntactWhileDecoding
<1>. QED  BY <1>1, DecodeInvariant, PTL

(***************************************************************************)
(* When join() returns true the recognizer is closed and every sample the  *)
(* corrector took is zeroed.                                               *)
(***************************************************************************)
THEOREM JoinIsComplete == Spec => []JoinedMeansReleased
<1>1. DecodeInv => JoinedMeansReleased
  BY SMTT(30) DEF DecodeInv, TypeOK, JoinedMeansReleased
<1>. QED  BY <1>1, DecodeInvariant, PTL
=============================================================================
