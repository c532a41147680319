---------------------------- MODULE StablePrefix ----------------------------
(***************************************************************************)
(* The class StablePrefix of Segments.kt: the part of a growing hypothesis *)
(* that two consecutive hypotheses of the recognizer share.  accept() is   *)
(* called by SegmentLedger.source() for every live hypothesis, reset() at  *)
(* an endpoint, a discontinuity, a cancellation and a clear.               *)
(***************************************************************************)
EXTENDS CaptionText

CONSTANT Hypotheses      \* the texts the recognizer reports

ASSUME HypothesesAssumption == Hypotheses \subseteq Text

VARIABLES previous,      \* the hypothesis before
          committed      \* the stable prefix returned last

stableVars == <<previous, committed>>

(* Mutant: a prefix once committed is never taken back. *)
Committed_NeverInvalidated(before, old, text) ==
    LET candidate == TrimEnd(SubSeq(text, 1, CommonLength(before, text)))
    IN  IF Len(candidate) < Len(old) THEN old ELSE candidate

(* Mutant: a hypothesis is trusted without a second one. *)
Candidate_SingleHypothesis(before, text) == text

(* The longest prefix both hypotheses share, cut back to the end of a word *)
(* unless the new hypothesis ends there or goes on with white space.       *)
Candidate(before, text) ==
    LET common == CommonLength(before, text)
        end    == IF common < Len(text) /\ text[common + 1] \notin Whitespace
                  THEN WordStart(text, common)
                  ELSE common
    IN  TrimEnd(SubSeq(text, 1, end))

Committed(before, old, text) ==
    LET candidate == Candidate(before, text)
    IN  IF IsPrefix(old, text) /\ Len(candidate) < Len(old)
        THEN old ELSE candidate

(* What accept(hypothesis) returns in the current state. *)
StableText(hypothesis) == Committed(previous, committed, Trim(hypothesis))

Accept(hypothesis) ==
    /\ previous'  = Trim(hypothesis)
    /\ committed' = StableText(hypothesis)

Reset ==
    /\ previous'  = <<>>
    /\ committed' = <<>>

StableInit ==
    /\ previous  = <<>>
    /\ committed = <<>>

(* What a caller may do: which texts are handed over is up to it. *)
StableNext == (\E text \in Text : Accept(text)) \/ Reset

StableSpec == StableInit /\ [][StableNext]_stableVars

-----------------------------------------------------------------------------
StableTypeOK ==
    /\ previous  \in Text
    /\ committed \in Text

(***************************************************************************)
(* "Never fabricate a hybrid sentence": the stable text is always a prefix *)
(* of the latest hypothesis, whatever was committed before it was revised. *)
(***************************************************************************)
CommittedHeadsHypothesis == IsPrefix(committed, previous)

(***************************************************************************)
(* accept() commits new text only when the hypothesis before also began    *)
(* with it; no single hypothesis reaches a translator by itself.           *)
(***************************************************************************)
OnlyAgreedTextIsCommitted ==
    [][committed' = committed \/ IsPrefix(committed', previous)]_stableVars
=============================================================================
