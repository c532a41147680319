--------------------------- MODULE SegmentLedger ---------------------------
(***************************************************************************)
(* The class SegmentLedger of Segments.kt behind its synchronized wrapper  *)
(* CaptionState: the caption rows the user sees, and the only place where  *)
(* the workers of a session meet.  The recognition thread writes source    *)
(* text, translation workers publish results for text they read some time  *)
(* ago, the service starts and cancels sessions and the user clears the    *)
(* list.  Every operation is one critical section, hence one action; what  *)
(* a worker read earlier lives in a request in `requests' until the worker *)
(* comes back with it, possibly when its row, its revision or its session  *)
(* is long gone.                                                           *)
(*                                                                         *)
(* A translation is represented by the source text it renders.             *)
(***************************************************************************)
EXTENDS StablePrefix, FiniteSets

CONSTANTS MaxCaptions,     \* rows kept before the oldest one is dropped
          MaxGeneration,   \* bound: sessions ever started
          MaxId,           \* bound: segments ever opened
          MaxRevision,     \* bound: revisions of a segment
          MaxRequests      \* bound: requests under way at a time

ASSUME LedgerAssumption ==
    /\ MaxCaptions \in Nat \ {0}
    /\ MaxGeneration \in Nat
    /\ MaxId \in Nat
    /\ MaxRevision \in Nat
    /\ MaxRequests \in Nat

VARIABLES session,         \* SegmentLedger.session; -1 once cancelled
          generation,      \* CaptionState.generation: the session begun last
          nextId,          \* the id of the next segment
          active,          \* the segment still open, NoId when there is none
          captions,        \* id -> Caption
          requests         \* requests handed to translation workers

ledgerVars == <<session, generation, nextId, active, captions>>
vars == <<ledgerVars, stableVars, requests>>

NoId == 0
NoSession == -1
NoText == <<>>            \* an absent portion: real ones are never blank

Stage == {"PROVISIONAL", "FINAL", "REVISED", "SKIPPED", "CANCELLED"}
Dead == {"SKIPPED", "CANCELLED"}

Key == [session : Int, id : Nat, revision : Nat]

Caption == [key : Key, source : Text, stableSource : Text, portion : Text,
            stage : Stage, endpointed : BOOLEAN, qualityRank : {-1, 0, 2},
            corrected : BOOLEAN]

(* "correction" is a final request that carries the second hypothesis.     *)
Request == [key : Key, source : Text,
            kind : {"provisional", "final", "correction"}]

(* The text a translation of the row has to agree with. *)
CurrentSource(row) == IF row.endpointed THEN row.source ELSE row.stableSource

Current(key) ==
    /\ key.session = session
    /\ key.id \in DOMAIN captions
    /\ captions[key.id].key = key
    /\ captions[key.id].stage \notin Dead

-----------------------------------------------------------------------------
(* source(): the row that text makes of segment id.                        *)

Advances(id, stable, endpoint) ==
    id \notin DOMAIN captions \/ endpoint \/ captions[id].stableSource # stable

(* Mutant: a translation outlives an edit of its text. *)
Keeps_Always(id, stable) ==
    id \in DOMAIN captions /\ captions[id].portion # NoText

(* Mutant: any growth of the text drops the translation. *)
Keeps_SameText(id, stable) ==
    id \in DOMAIN captions /\ captions[id].portion # NoText /\ captions[id].portion = stable

(* A translation survives while the text it covers is still there. *)
Keeps(id, stable) ==
    /\ id \in DOMAIN captions
    /\ captions[id].portion # NoText
    /\ SourceStillHasPrefix(stable, captions[id].portion)

SourceRow(id, text, stable, endpoint) ==
    [key |-> IF Advances(id, stable, endpoint)
             THEN [session |-> session, id |-> id,
                   revision |-> IF id \in DOMAIN captions
                                THEN captions[id].key.revision + 1 ELSE 0]
             ELSE captions[id].key,
     source       |-> text,
     stableSource |-> stable,
     portion      |-> IF Keeps(id, stable) THEN captions[id].portion ELSE NoText,
     qualityRank  |-> IF Keeps(id, stable) THEN captions[id].qualityRank ELSE -1,
     stage        |-> "PROVISIONAL",
     endpointed   |-> endpoint,
     corrected    |-> FALSE]

Put(id, row) ==
    [i \in DOMAIN captions \cup {id} |-> IF i = id THEN row ELSE captions[i]]

(* The newest MaxCaptions rows: ids grow in insertion order. *)
Newest(rows) ==
    [i \in {k \in DOMAIN rows :
              Cardinality({j \in DOMAIN rows : j > k}) < MaxCaptions} |-> rows[i]]

OpenId == IF active = NoId THEN nextId ELSE active

WriteSource(text, stable, endpoint) ==
    /\ captions' = Newest(Put(OpenId, SourceRow(OpenId, text, stable, endpoint)))
    /\ nextId' = IF active = NoId THEN nextId + 1 ELSE nextId

(* The recognizer of session g may report in the state the bounds allow.   *)
Reports(g, text) ==
    /\ g = session
    /\ ~IsBlank(text)
    /\ OpenId <= MaxId
    /\ OpenId \in DOMAIN captions => captions[OpenId].key.revision < MaxRevision

Unchanged(text) ==
    OpenId \in DOMAIN captions /\ captions[OpenId].source = Trim(text)

-----------------------------------------------------------------------------
(* A live hypothesis.  The debounce policy may or may not ask for a        *)
(* translation of the row's stable text.                                   *)

AskFor(kind, row, source) ==
    requests' = requests \cup {[key |-> row.key, source |-> source, kind |-> kind]}

PartialRequest ==
    LET row == captions'[OpenId]
    IN  \/ UNCHANGED requests
        \/ /\ ~IsBlank(row.stableSource)
           /\ Cardinality(requests) < MaxRequests
           /\ AskFor("provisional", row, row.stableSource)

Partial(g, text) ==
    /\ Reports(g, text)
    /\ \/ Unchanged(text) /\ UNCHANGED <<ledgerVars, stableVars>>
       \/ /\ ~Unchanged(text)
          /\ Accept(Trim(text))
          /\ WriteSource(Trim(text), StableText(Trim(text)), FALSE)
          /\ active' = OpenId
          /\ UNCHANGED <<session, generation>>
    /\ PartialRequest

(* An endpoint closes the segment and asks for its final translation.      *)
Endpoint(g, text) ==
    /\ Reports(g, text)
    /\ Cardinality(requests) < MaxRequests
    /\ WriteSource(Trim(text), Trim(text), TRUE)
    /\ active' = NoId
    /\ Reset
    /\ AskFor("final", captions'[OpenId], Trim(text))
    /\ UNCHANGED <<session, generation>>

-----------------------------------------------------------------------------
(* Results.                                                                *)

(* Mutant: the session and the stage are not checked. *)
CanTranslatePortion_AnySession(key, portion, final) ==
    /\ key.id \in DOMAIN captions
    /\ LET old == captions[key.id]
       IN  /\ key.revision <= old.key.revision
           /\ IF final
              THEN old.endpointed /\ old.key = key /\ portion = old.source
              ELSE SourceStillHasPrefix(CurrentSource(old), portion)
           /\ old.portion # NoText => SourceStillHasPrefix(portion, old.portion)

(* Mutant: a late result may cover less. *)
CanTranslatePortion_Rollback(key, portion, final) ==
    /\ key.id \in DOMAIN captions
    /\ LET old == captions[key.id]
       IN  /\ key.session = session
           /\ key.revision <= old.key.revision
           /\ old.stage \notin Dead
           /\ IF final
              THEN old.endpointed /\ old.key = key /\ portion = old.source
              ELSE SourceStillHasPrefix(CurrentSource(old), portion)

(* Mutant: the stage is not checked. *)
CanTranslatePortion_DeadRows(key, portion, final) ==
    /\ key.id \in DOMAIN captions
    /\ LET old == captions[key.id]
       IN  /\ key.session = session
           /\ key.revision <= old.key.revision
           /\ IF final
              THEN old.endpointed /\ old.key = key /\ portion = old.source
              ELSE SourceStillHasPrefix(CurrentSource(old), portion)
           /\ old.portion # NoText => SourceStillHasPrefix(portion, old.portion)

(* A result may extend the covered prefix, never roll it back or jump over *)
(* an edit; a final result must match the closed row exactly.              *)
CanTranslatePortion(key, portion, final) ==
    /\ key.id \in DOMAIN captions
    /\ LET old == captions[key.id]
       IN  /\ key.session = session
           /\ key.revision <= old.key.revision
           /\ old.stage \notin Dead
           /\ IF final
              THEN old.endpointed /\ old.key = key /\ portion = old.source
              ELSE SourceStillHasPrefix(CurrentSource(old), portion)
           /\ old.portion # NoText => SourceStillHasPrefix(portion, old.portion)

(* Mutant: a provisional result replaces a better one. *)
TranslatePortion_AnyRank(key, portion, rank, final) ==
    IF CanTranslatePortion(key, portion, final)
    THEN [captions EXCEPT ![key.id].portion = portion,
                          ![key.id].qualityRank = rank,
                          ![key.id].stage = IF final THEN "FINAL" ELSE "PROVISIONAL"]
    ELSE captions

(* The rows after translatePortion(). *)
TranslatePortion(key, portion, rank, final) ==
    IF CanTranslatePortion(key, portion, final) /\ rank >= captions[key.id].qualityRank
    THEN [captions EXCEPT ![key.id] =
            [@ EXCEPT !.portion = portion,
                      !.qualityRank = rank,
                      !.stage = IF ~final THEN "PROVISIONAL"
                                ELSE IF captions[key.id].corrected THEN "REVISED"
                                ELSE "FINAL"]]
    ELSE captions

(* Mutant: the source is revised before its translation. *)
ReviseTranslated_SourceOnly(key, source) ==
    IF Current(key) /\ captions[key.id].endpointed /\ captions[key.id].source # source
    THEN [captions EXCEPT ![key.id] =
            [@ EXCEPT !.key = [key EXCEPT !.revision = key.revision + 1],
                      !.source = source, !.stableSource = source,
                      !.stage = "REVISED", !.corrected = TRUE]]
    ELSE captions

(* The rows after reviseTranslated(): source and translation of the second *)
(* hypothesis appear together, as one new revision.                        *)
ReviseTranslated(key, source) ==
    IF Current(key) /\ captions[key.id].endpointed /\ captions[key.id].source # source
    THEN [captions EXCEPT ![key.id] =
            [@ EXCEPT !.key = [key EXCEPT !.revision = key.revision + 1],
                      !.source = source, !.stableSource = source,
                      !.portion = source, !.qualityRank = 2,
                      !.stage = "REVISED", !.corrected = TRUE]]
    ELSE captions

(* The rows after skip(). *)
Skip(key) ==
    IF /\ key.id \in DOMAIN captions
       /\ captions[key.id].key = key
       /\ key.session = session
       /\ captions[key.id].stage = "PROVISIONAL"
    THEN [captions EXCEPT ![key.id].stage = "SKIPPED"]
    ELSE captions

Publish(rows) ==
    /\ captions' = rows
    /\ UNCHANGED <<session, generation, nextId, active, stableVars>>

(* Streamed output of a running request is shown as provisional. *)
Progress(r) ==
    /\ r.kind # "correction"
    /\ Publish(TranslatePortion(r.key, r.source, 0, FALSE))
    /\ UNCHANGED requests

Complete(r) ==
    /\ requests' = requests \ {r}
    /\ Publish(CASE r.kind = "provisional" -> TranslatePortion(r.key, r.source, 0, FALSE)
                 [] r.kind = "final"       -> TranslatePortion(r.key, r.source, 2, TRUE)
                 [] r.kind = "correction"  -> ReviseTranslated(r.key, r.source))

(* A request that failed, went stale in the queue or was pushed out of the *)
(* full final queue marks its row.                                         *)
GiveUp(r) ==
    /\ requests' = requests \ {r}
    /\ Publish(Skip(r.key))

(* A provisional request replaced, preempted or found incompatible is just *)
(* forgotten.                                                              *)
Forget(r) ==
    /\ requests' = requests \ {r}
    /\ UNCHANGED <<ledgerVars, stableVars>>

(* The correction worker accepts a second hypothesis for a closed segment. *)
Correct(r, text) ==
    /\ r.kind = "final"
    /\ ~IsBlank(text)
    /\ text # r.source
    /\ requests' = (requests \ {r}) \cup
                     {[r EXCEPT !.kind = "correction", !.source = text]}
    /\ UNCHANGED <<ledgerVars, stableVars>>

-----------------------------------------------------------------------------
(* Sessions.                                                               *)

Cancelled(rows) ==
    [i \in DOMAIN rows |->
       IF rows[i].stage = "PROVISIONAL"
       THEN [rows[i] EXCEPT !.stage = "CANCELLED"] ELSE rows[i]]

Discontinuity(g) ==
    /\ g = session
    /\ captions' = IF active = NoId THEN captions
                   ELSE [captions EXCEPT ![active].stage = "SKIPPED"]
    /\ active' = NoId
    /\ Reset
    /\ UNCHANGED <<session, generation, nextId, requests>>

(* CaptionState.begin(): the service never uses a generation twice. *)
Start(g) ==
    /\ g > generation
    /\ generation' = g
    /\ session' = g
    /\ captions' = Cancelled(captions)
    /\ active' = NoId
    /\ Reset
    /\ UNCHANGED <<nextId, requests>>

(* CaptionState.cancel(generation) *)
Cancel ==
    /\ generation # NoSession
    /\ session' = NoSession
    /\ captions' = Cancelled(captions)
    /\ active' = NoId
    /\ Reset
    /\ UNCHANGED <<generation, nextId, requests>>

(* Mutant: the open segment survives a clear. *)
Clear_KeepsActive ==
    /\ captions' = [i \in {} |-> 0]
    /\ Reset
    /\ UNCHANGED <<session, generation, nextId, active, requests>>

Clear ==
    /\ captions' = [i \in {} |-> 0]
    /\ active' = NoId
    /\ Reset
    /\ UNCHANGED <<session, generation, nextId, requests>>

-----------------------------------------------------------------------------
Init ==
    /\ session = 0
    /\ generation = NoSession
    /\ nextId = 1
    /\ active = NoId
    /\ captions = [i \in {} |-> 0]
    /\ requests = {}
    /\ StableInit

Next ==
    \/ \E g \in 1..MaxGeneration, text \in Hypotheses :
          Partial(g, text) \/ Endpoint(g, text)
    \/ \E r \in requests :
          \/ Progress(r) \/ Complete(r) \/ GiveUp(r) \/ Forget(r)
          \/ \E text \in Hypotheses : Correct(r, text)
    \/ \E g \in 1..MaxGeneration : Discontinuity(g) \/ Start(g)
    \/ Cancel
    \/ Clear

Spec == Init /\ [][Next]_vars

-----------------------------------------------------------------------------
TypeOK ==
    /\ session \in Int
    /\ generation \in Int
    /\ nextId \in Nat \ {0}
    /\ active \in Nat
    /\ DOMAIN captions \subseteq Nat \ {0}
    /\ \A i \in DOMAIN captions : captions[i] \in Caption
    /\ requests \subseteq Request
    /\ StableTypeOK

(***************************************************************************)
(* What is on the screen belongs together: the translation of a row        *)
(* renders a prefix of the text the row shows now, ending between words.   *)
(* source(), translatePortion() and reviseTranslated() each change one     *)
(* side of the pair, interleaved in any order.                             *)
(***************************************************************************)
PortionCoversSource ==
    \A i \in DOMAIN captions :
        captions[i].portion # NoText =>
            SourceStillHasPrefix(CurrentSource(captions[i]), captions[i].portion)

(***************************************************************************)
(* "Session and exact revision matching": while a row still has the key a  *)
(* request was made for, it shows exactly the text of the request, and it  *)
(* is closed exactly when the request is a final one.  A key is never      *)
(* reused for other text, through growth, revision, eviction and clear.    *)
(***************************************************************************)
KeyIdentifiesText ==
    \A r \in requests :
        r.key.id \in DOMAIN captions /\ captions[r.key.id].key = r.key =>
            LET row == captions[r.key.id]
            IN  /\ row.endpointed <=> (r.kind # "provisional")
                /\ r.kind # "correction" => r.source = CurrentSource(row)

(***************************************************************************)
(* A final or revised caption translates all of its own source text, and   *)
(* its segment is closed.                                                  *)
(***************************************************************************)
FinalTranslatesWholeSource ==
    \A i \in DOMAIN captions :
        captions[i].stage \in {"FINAL", "REVISED"} =>
            captions[i].endpointed /\ captions[i].portion = captions[i].source

(***************************************************************************)
(* Work of an old session never changes a row: rows of a session that is   *)
(* not the current one only ever disappear.                                *)
(***************************************************************************)
EndedSessionFrozen ==
    [][\A i \in DOMAIN captions \cap DOMAIN captions' :
          captions[i].key.session # session => captions'[i] = captions[i]]_vars

(***************************************************************************)
(* A final translation is never taken back or replaced by a provisional    *)
(* one; only a revision may follow it.                                     *)
(***************************************************************************)
FinishedRowStays ==
    [][\A i \in DOMAIN captions \cap DOMAIN captions' :
          captions[i].stage \in {"FINAL", "REVISED"} =>
              \/ captions'[i] = captions[i]
              \/ captions'[i].stage = "REVISED"]_vars

(***************************************************************************)
(* "Results may advance coverage, never roll it back": however late and in *)
(* whatever order results arrive, the covered text only grows, until an    *)
(* edit of the source drops it or a correction replaces source and         *)
(* translation together.                                                   *)
(***************************************************************************)
CoverageNeverRollsBack ==
    [][\A i \in DOMAIN captions \cap DOMAIN captions' :
          /\ captions[i].portion # NoText
          /\ captions'[i].portion # NoText
          /\ captions'[i].corrected = captions[i].corrected
          => IsPrefix(captions[i].portion, captions'[i].portion)]_vars

(***************************************************************************)
(* What is over stays over: a row that was skipped or cancelled and is no  *)
(* longer the open segment is never revived by a late hypothesis, result   *)
(* or correction, and a segment that was evicted or cleared never comes    *)
(* back under its old id.                                                  *)
(***************************************************************************)
DeadStaysDead ==
    [][/\ \A i \in DOMAIN captions \cap DOMAIN captions' :
            captions[i].stage \in Dead /\ i # active => captions'[i] = captions[i]
       /\ \A i \in 1..(nextId - 1) :
            i \notin DOMAIN captions => i \notin DOMAIN captions']_vars

(***************************************************************************)
(* Late work never writes to a row that is over, in whichever way the row  *)
(* came to its end: with its session, with a final translation (which a    *)
(* correction may still revise), or skipped, cancelled, evicted or         *)
(* cleared.                                                                *)
(***************************************************************************)
WhatIsOverStays == EndedSessionFrozen /\ FinishedRowStays /\ DeadStaysDead

-----------------------------------------------------------------------------
(* The parts of the inductive invariant that are of no interest by         *)
(* themselves.                                                             *)

(* The open segment is the newest row, still without endpoint, and belongs *)
(* to the current session.                                                 *)
ActiveRowIsOpen ==
    active # NoId =>
        /\ active = nextId - 1
        /\ active \in DOMAIN captions
        /\ ~captions[active].endpointed
        /\ captions[active].key.session = session

RowsAreNumbered ==
    \A i \in DOMAIN captions : i < nextId /\ captions[i].key.id = i

(* Rows of ended sessions are settled. *)
EndedRowsAreSettled ==
    \A i \in DOMAIN captions :
        captions[i].key.session # session => captions[i].stage # "PROVISIONAL"

(* A request never runs ahead of its row. *)
RequestsFollowRows ==
    \A r \in requests :
        /\ r.key.id < nextId
        /\ ~IsBlank(r.source)
        /\ r.key.id \in DOMAIN captions =>
              /\ captions[r.key.id].key.session = r.key.session
              /\ r.key.revision <= captions[r.key.id].key.revision

FinishedRowsHaveTopRank ==
    \A i \in DOMAIN captions :
        captions[i].stage \in {"FINAL", "REVISED"} => captions[i].qualityRank = 2

(***************************************************************************)
(* The inductive invariant behind the ledger's theorems: what requests and *)
(* rows know of each other, and that the open segment, the numbering and   *)
(* the stages are consistent.                                              *)
(***************************************************************************)
LedgerInv ==
    /\ TypeOK
    /\ ActiveRowIsOpen
    /\ RowsAreNumbered
    /\ EndedRowsAreSettled
    /\ RequestsFollowRows
    /\ FinishedRowsHaveTopRank
    /\ PortionCoversSource
    /\ KeyIdentifiesText
    /\ FinalTranslatesWholeSource

(***************************************************************************)
(* What the action properties need besides: a row is corrected once,       *)
(* because the revision that corrects it leaves no request that fits, and  *)
(* a closed row says REVISED from then on.                                 *)
(***************************************************************************)
CorrectionInv ==
    /\ \A i \in DOMAIN captions :
          /\ captions[i].stage = "REVISED" => captions[i].corrected
          /\ captions[i].corrected => captions[i].endpointed
    /\ \A r \in requests :
          r.key.id \in DOMAIN captions /\ captions[r.key.id].key = r.key =>
              ~captions[r.key.id].corrected

-----------------------------------------------------------------------------
(***************************************************************************)
(* The comment in source(): a translation is kept "across append-only      *)
(* growth; an edit inside that span invalidates it".  Growth is text that  *)
(* begins with white space or the punctuation of sourceStillHasPrefix();   *)
(* text with another mark in front drops the translation.                  *)
(***************************************************************************)
AppendOnlyGrowthKeepsTranslation ==
    [][\A i \in DOMAIN captions \cap DOMAIN captions' :
          LET before == CurrentSource(captions[i])
              after  == CurrentSource(captions'[i])
          IN  /\ captions[i].portion # NoText
              /\ IsPrefix(before, after)
              /\ Len(before) < Len(after)
              /\ after[Len(before) + 1] \in Whitespace \cup PortionPunct
              => captions'[i].portion # NoText]_vars
=============================================================================
