------------------------ MODULE SegmentLedgerProofs ------------------------
(***************************************************************************)
(* Stable prefixes and the ledger of captions, for every alphabet, every   *)
(* set of hypotheses and every bound.  The ledger's inductive invariant    *)
(* LedgerInv is regrouped by the row and by the request it speaks about    *)
(* (Rows, Requests), because a step writes at most one row or removes and  *)
(* adds at most one request.                                               *)
(***************************************************************************)
EXTENDS SegmentLedger, WellFoundedInduction, FiniteSetTheorems, TLAPS

-----------------------------------------------------------------------------
(* The smallest and the largest of a set of positions.                     *)

(* The less-than relation of the library theorems, on two naturals. *)
LEMMA LessThanPair ==
    ASSUME NEW i \in Nat, NEW j \in Nat, i < j
    PROVE  <<i, j>> \in OpToRel(<, Nat)
BY DEF OpToRel

(* The order of the naturals as a well-founded relation. *)
LEMMA LessThanWellFounded ==
    \E R : /\ IsWellFoundedOn(R, Nat)
          /\ \A i, j \in Nat : i < j => <<i, j>> \in R
<1>1. \A i, j \in Nat : i < j => <<i, j>> \in OpToRel(<, Nat)
  BY LessThanPair, Zenon
<1> QED
  BY <1>1, NatLessThanWellFounded, Zenon

(* A nonempty set of naturals has an element that is minimal for every     *)
(* well-founded relation on them.                                          *)
LEMMA MinimalNatural ==
    ASSUME NEW R, IsWellFoundedOn(R, Nat), NEW S, S \subseteq Nat, S # {}
    PROVE  \E x \in S : \A y \in S : ~(<<y, x>> \in R)
BY WFMin, ZenonT(60)

(* A nonempty set of naturals has the smallest element that Min chooses.   *)
LEMMA MinChosen ==
    ASSUME NEW S, S \subseteq Nat, S # {}
    PROVE  Min(S) \in S /\ \A y \in S : Min(S) <= y
<1>1. PICK R : /\ IsWellFoundedOn(R, Nat)
               /\ \A i, j \in Nat : i < j => <<i, j>> \in R
  BY LessThanWellFounded, Zenon
<1>2. PICK x \in S : \A y \in S : ~(<<y, x>> \in R)
  BY <1>1, MinimalNatural, Zenon
<1>3. \A y \in S : x <= y
  <2> TAKE y \in S
  <2>1. x \in Nat /\ y \in Nat
    OBVIOUS
  <2>2. ~(y < x)
    BY <1>1, <1>2, <2>1, Zenon
  <2> QED
    BY <2>1, <2>2
<1> QED
  BY <1>3 DEF Min

(* A nonempty set of bounded naturals has the largest element that Max     *)
(* chooses: the loops that scan a text for a position find one.            *)
LEMMA MaxChosen ==
    ASSUME NEW n \in Nat, NEW S, S \subseteq 0..n, S # {}
    PROVE  Max(S) \in S /\ \A y \in S : Max(S) >= y
<1> DEFINE T == {k \in 0..n : n - k \in S}
<1>1. T \subseteq Nat /\ T # {}
  <2>1. PICK x \in S : TRUE
    OBVIOUS
  <2>2. x \in 0..n
    OBVIOUS
  <2>3. n - x \in 0..n /\ n - (n - x) = x
    BY <2>2
  <2>4. n - x \in T
    BY <2>1, <2>3
  <2>5. T \subseteq Nat
    OBVIOUS
  <2> HIDE DEF T
  <2> QED
    BY <2>4, <2>5
<1> HIDE DEF T
<1>2. Min(T) \in T /\ \A k \in T : Min(T) <= k
  BY <1>1, MinChosen
<1>3. Min(T) \in 0..n /\ n - Min(T) \in S
  BY <1>2 DEF T
<1>4. \A y \in S : n - Min(T) >= y
  <2> TAKE y \in S
  <2>1. y \in 0..n
    OBVIOUS
  <2>2. n - y \in 0..n /\ n - (n - y) = y
    BY <2>1
  <2>3. n - y \in T
    BY <2>2 DEF T
  <2>4. Min(T) <= n - y
    BY <1>2, <2>3
  <2> QED
    BY <1>3, <2>1, <2>4
<1> QED
  BY <1>3, <1>4 DEF Max

-----------------------------------------------------------------------------
(* Where the ink of a text begins and ends. *)
LEMMA InkBounds ==
    ASSUME NEW t \in Text, ~IsBlank(t)
    PROVE  /\ Min(Ink(t)) \in Ink(t)
           /\ Max(Ink(t)) \in Ink(t)
           /\ Min(Ink(t)) <= Max(Ink(t))
           /\ Ink(t) \subseteq 1..Len(t)
           /\ Len(t) \in Nat
<1>1. Len(t) \in Nat
  BY DEF Text
<1>2. Ink(t) \subseteq 1..Len(t) /\ Ink(t) # {}
  BY DEF IsBlank, Ink
<1>3. Ink(t) \subseteq 0..Len(t) /\ Ink(t) \subseteq Nat
  BY <1>1, <1>2
<1>4. Max(Ink(t)) \in Ink(t)
  BY <1>1, <1>2, <1>3, MaxChosen
<1>5. Min(Ink(t)) \in Ink(t) /\ \A y \in Ink(t) : Min(Ink(t)) <= y
  BY <1>2, <1>3, MinChosen
<1> QED
  BY <1>1, <1>2, <1>4, <1>5

(* IsPrefix, position by position. *)
LEMMA PrefixByPosition ==
    ASSUME NEW s \in Text, NEW t \in Text
    PROVE  IsPrefix(s, t) <=> /\ Len(s) <= Len(t)
                              /\ \A i \in 1..Len(s) : s[i] = t[i]
BY DEF Text, IsPrefix

(* Prefixes of prefixes are prefixes. *)
LEMMA PrefixTransitive ==
    ASSUME NEW r \in Text, NEW s \in Text, NEW t \in Text,
           IsPrefix(r, s), IsPrefix(s, t)
    PROVE  IsPrefix(r, t)
<1>1. /\ Len(r) \in Nat /\ Len(s) \in Nat /\ Len(t) \in Nat
      /\ Len(r) <= Len(s) /\ Len(s) <= Len(t)
      /\ \A i \in 1..Len(r) : r[i] = s[i]
      /\ \A i \in 1..Len(s) : s[i] = t[i]
  BY PrefixByPosition DEF Text
<1>2. Len(r) <= Len(t) /\ \A i \in 1..Len(r) : r[i] = t[i]
  BY <1>1
<1> QED
  BY <1>2, PrefixByPosition

(* The prefix of a text of a given length. *)
LEMMA HeadOfText ==
    ASSUME NEW t \in Text, NEW n \in 0..Len(t)
    PROVE  /\ SubSeq(t, 1, n) \in Text
           /\ Len(SubSeq(t, 1, n)) = n
           /\ \A i \in 1..n : SubSeq(t, 1, n)[i] = t[i]
           /\ IsPrefix(SubSeq(t, 1, n), t)
<1>1. /\ SubSeq(t, 1, n) \in Text
      /\ Len(SubSeq(t, 1, n)) = n
      /\ \A i \in 1..n : SubSeq(t, 1, n)[i] = t[i]
  BY DEF Text
<1>2. n <= Len(t)
  BY DEF Text
<1> QED
  BY <1>1, <1>2, PrefixByPosition

(* The empty text is a prefix of every text. *)
LEMMA EmptyText == <<>> \in Text /\ \A t \in Text : IsPrefix(<<>>, t)
<1>1. <<>> \in Text /\ Len(<<>>) = 0
  BY DEF Text
<1>2. \A t \in Text : Len(t) \in Nat
  BY DEF Text
<1> QED
  BY <1>1, <1>2, PrefixByPosition

(* Trimming a text that has ink leaves a text that has ink. *)
LEMMA TrimText ==
    ASSUME NEW t \in Text
    PROVE  /\ Trim(t) \in Text
           /\ ~IsBlank(t) => ~IsBlank(Trim(t))
<1>1. CASE IsBlank(t)
  BY <1>1 DEF Trim, Text
<1>2. CASE ~IsBlank(t)
  <2> DEFINE lo == Min(Ink(t))
             hi == Max(Ink(t))
  <2>1. /\ lo \in 1..Len(t) /\ hi \in 1..Len(t) /\ lo <= hi
        /\ t[lo] \notin Whitespace /\ Len(t) \in Nat
    BY <1>2, InkBounds DEF Ink
  <2> HIDE DEF lo, hi
  <2>2. Trim(t) = SubSeq(t, lo, hi)
    BY <1>2 DEF Trim, lo, hi
  <2>3. /\ SubSeq(t, lo, hi) \in Text
        /\ Len(SubSeq(t, lo, hi)) = hi - lo + 1
        /\ SubSeq(t, lo, hi)[1] = t[lo]
    BY <2>1 DEF Text
  <2>4. 1 \in Ink(SubSeq(t, lo, hi))
    BY <2>1, <2>3 DEF Ink
  <2> QED
    BY <2>2, <2>3, <2>4 DEF IsBlank
<1> QED
  BY <1>1, <1>2

(* TrimEnd returns a prefix. *)
LEMMA TrimEndText ==
    ASSUME NEW t \in Text
    PROVE  TrimEnd(t) \in Text /\ IsPrefix(TrimEnd(t), t)
<1>1. PICK n \in 0..Len(t) : TrimEnd(t) = SubSeq(t, 1, n)
  <2>1. CASE IsBlank(t)
    <3>1. 0 \in 0..Len(t) /\ SubSeq(t, 1, 0) = <<>>
      BY DEF Text
    <3> QED
      BY <2>1, <3>1 DEF TrimEnd
  <2>2. CASE ~IsBlank(t)
    BY <2>2, InkBounds DEF TrimEnd
  <2> QED
    BY <2>1, <2>2
<1> QED
  BY <1>1, HeadOfText

(* The shared prefix is a prefix of both hypotheses. *)
LEMMA CommonLengthBounds ==
    ASSUME NEW s \in Text, NEW t \in Text
    PROVE  /\ CommonLength(s, t) \in 0..Len(t)
           /\ CommonLength(s, t) <= Len(s)
           /\ \A i \in 1..CommonLength(s, t) : s[i] = t[i]
<1> DEFINE S == {n \in 0..Len(t) : n <= Len(s) /\ \A i \in 1..n : s[i] = t[i]}
<1>1. Len(s) \in Nat /\ Len(t) \in Nat
  BY DEF Text
<1>2. 0 \in S /\ S \subseteq 0..Len(t)
  BY <1>1
<1>3. CommonLength(s, t) = Max(S)
  BY DEF CommonLength
<1>4. Max(S) \in S
  <2> HIDE DEF S
  <2> QED
    BY <1>1, <1>2, MaxChosen
<1> QED
  BY <1>3, <1>4

(* Stepping back to the end of a word stays inside the text. *)
LEMMA WordStartBounds ==
    ASSUME NEW t, NEW n \in Nat
    PROVE  WordStart(t, n) \in 0..n
<1> DEFINE S == {e \in 0..n : e = 0 \/ t[e] \in Whitespace \cup StablePunct}
<1>1. 0 \in S /\ S \subseteq 0..n
  OBVIOUS
<1>2. WordStart(t, n) = Max(S)
  BY DEF WordStart
<1> HIDE DEF S
<1> QED
  BY <1>1, <1>2, MaxChosen

(* What accept() computes is a prefix of both hypotheses. *)
LEMMA CandidateAgreed ==
    ASSUME NEW before \in Text, NEW text \in Text
    PROVE  /\ Candidate(before, text) \in Text
           /\ IsPrefix(Candidate(before, text), text)
           /\ IsPrefix(Candidate(before, text), before)
<1> DEFINE common == CommonLength(before, text)
           end == IF common < Len(text) /\ text[common + 1] \notin Whitespace
                  THEN WordStart(text, common) ELSE common
           head == SubSeq(text, 1, end)
<1>0. Len(before) \in Nat /\ Len(text) \in Nat
  BY DEF Text
<1>1. common \in 0..Len(text) /\ common <= Len(before)
      /\ \A i \in 1..common : before[i] = text[i]
  BY CommonLengthBounds
<1>2. Candidate(before, text) = TrimEnd(head)
  BY DEF Candidate
<1> HIDE DEF common
<1>3. end \in 0..common
  BY <1>0, <1>1, WordStartBounds
<1> HIDE DEF end
<1>4. end \in 0..Len(text) /\ end <= Len(before) /\ 1..end \subseteq 1..common
  BY <1>0, <1>1, <1>3
<1>5. /\ head \in Text /\ Len(head) = end /\ IsPrefix(head, text)
      /\ \A i \in 1..end : head[i] = text[i]
  BY <1>4, HeadOfText
<1> HIDE DEF head
<1>6. IsPrefix(head, before)
  BY <1>1, <1>4, <1>5, PrefixByPosition
<1>7. TrimEnd(head) \in Text /\ IsPrefix(TrimEnd(head), head)
  BY <1>5, TrimEndText
<1> QED
  BY <1>2, <1>5, <1>6, <1>7, PrefixTransitive

(* The committed text is a prefix of the new hypothesis and either the old *)
(* one, kept because the hypothesis still begins with it, or agreed.       *)
LEMMA CommittedAgreed ==
    ASSUME NEW before \in Text, NEW old \in Text, NEW text \in Text
    PROVE  /\ Committed(before, old, text) \in Text
           /\ IsPrefix(Committed(before, old, text), text)
           /\ \/ Committed(before, old, text) = old
              \/ IsPrefix(Committed(before, old, text), before)
<1>1. Len(old) \in Nat /\ Len(Candidate(before, text)) \in Nat
  BY CandidateAgreed DEF Text
<1> QED
  BY <1>1, CandidateAgreed DEF Committed

-----------------------------------------------------------------------------
(* Both texts of the state are texts. *)
THEOREM StableTypeInvariant == StableSpec => []StableTypeOK
<1>1. StableInit => StableTypeOK
  BY DEF StableInit, StableTypeOK, Text
<1>2. StableTypeOK /\ [StableNext]_stableVars => StableTypeOK'
  <2> SUFFICES ASSUME StableTypeOK, [StableNext]_stableVars
               PROVE  StableTypeOK'
    OBVIOUS
  <2>1. ASSUME NEW text \in Text, Accept(text)
        PROVE  StableTypeOK'
    BY <2>1, TrimText, CommittedAgreed
       DEF StableTypeOK, Accept, StableText
  <2>2. CASE Reset
    BY <2>2 DEF StableTypeOK, Reset, Text
  <2>3. CASE UNCHANGED stableVars
    BY <2>3 DEF StableTypeOK, stableVars
  <2> QED
    BY <2>1, <2>2, <2>3 DEF StableNext
<1> QED
  BY <1>1, <1>2, PTL DEF StableSpec

(***************************************************************************)
(* The stable text is a prefix of the latest hypothesis in every state:    *)
(* accept() never mixes words of two hypotheses.                           *)
(***************************************************************************)
THEOREM StableTextIsNoHybrid == StableSpec => []CommittedHeadsHypothesis
<1>1. StableInit => CommittedHeadsHypothesis
  BY EmptyText DEF StableInit, CommittedHeadsHypothesis
<1>2. /\ StableTypeOK /\ CommittedHeadsHypothesis
      /\ [StableNext]_stableVars
      => CommittedHeadsHypothesis'
  <2> SUFFICES ASSUME StableTypeOK, CommittedHeadsHypothesis,
                      [StableNext]_stableVars
               PROVE  CommittedHeadsHypothesis'
    OBVIOUS
  <2>1. ASSUME NEW text \in Text, Accept(text)
        PROVE  CommittedHeadsHypothesis'
    BY <2>1, TrimText, CommittedAgreed
       DEF StableTypeOK, Accept, StableText, CommittedHeadsHypothesis
  <2>2. CASE Reset
    BY <2>2, EmptyText DEF CommittedHeadsHypothesis, Reset
  <2>3. CASE UNCHANGED stableVars
    BY <2>3 DEF CommittedHeadsHypothesis, stableVars
  <2> QED
    BY <2>1, <2>2, <2>3 DEF StableNext
<1> QED
  BY <1>1, <1>2, StableTypeInvariant, PTL DEF StableSpec

(***************************************************************************)
(* accept() commits only text that the hypothesis before began with too.   *)
(***************************************************************************)
THEOREM CommitsOnlyAgreedText == StableSpec => OnlyAgreedTextIsCommitted
<1>1. StableTypeOK /\ [StableNext]_stableVars
      => [committed' = committed \/ IsPrefix(committed', previous)]_stableVars
  <2> SUFFICES ASSUME StableTypeOK, StableNext
               PROVE  committed' = committed \/ IsPrefix(committed', previous)
    OBVIOUS
  <2>1. ASSUME NEW text \in Text, Accept(text)
        PROVE  committed' = committed \/ IsPrefix(committed', previous)
    BY <2>1, TrimText, CommittedAgreed
       DEF StableTypeOK, Accept, StableText
  <2>2. CASE Reset
    BY <2>2, EmptyText DEF Reset, StableTypeOK
  <2> QED
    BY <2>1, <2>2 DEF StableNext
<1> QED
  BY <1>1, StableTypeInvariant, PTL DEF StableSpec, OnlyAgreedTextIsCommitted

-----------------------------------------------------------------------------
(* The ledger.                                                             *)

Finished == {"FINAL", "REVISED"}

(* What LedgerInv says of row i of the ledger. *)
RowOK(i, row) ==
    /\ i \in Nat \ {0}
    /\ row \in Caption
    /\ row.key.id = i
    /\ row.stage \in Finished =>
          row.qualityRank = 2 /\ row.endpointed /\ row.portion = row.source
    /\ row.portion # NoText => SourceStillHasPrefix(CurrentSource(row), row.portion)

Settled(row, s) == row.key.session # s => row.stage # "PROVISIONAL"

(* What LedgerInv says of a request and the row it was made for. *)
RequestOK(r, row) ==
    /\ row.key.session = r.key.session
    /\ r.key.revision <= row.key.revision
    /\ row.key = r.key =>
          /\ row.endpointed <=> (r.kind # "provisional")
          /\ r.kind # "correction" => r.source = CurrentSource(row)

Rows ==
    \A i \in DOMAIN captions :
        RowOK(i, captions[i]) /\ i < nextId /\ Settled(captions[i], session)

Requests ==
    \A r \in requests :
        /\ r \in Request
        /\ r.key.id < nextId
        /\ ~IsBlank(r.source)
        /\ r.key.id \in DOMAIN captions => RequestOK(r, captions[r.key.id])

Scalars ==
    /\ session \in Int
    /\ generation \in Int
    /\ nextId \in Nat \ {0}
    /\ active \in Nat
    /\ StableTypeOK

(* The regrouped invariant. *)
LedgerInvByRow == Scalars /\ ActiveRowIsOpen /\ Rows /\ Requests

(* Regrouping loses nothing. *)
LEMMA Regrouped == LedgerInv <=> LedgerInvByRow
BY DEF LedgerInv, LedgerInvByRow, TypeOK, ActiveRowIsOpen, RowsAreNumbered,
       EndedRowsAreSettled, RequestsFollowRows, FinishedRowsHaveTopRank,
       PortionCoversSource, KeyIdentifiesText, FinalTranslatesWholeSource,
       Rows, Requests, Scalars, RowOK, RequestOK, Settled, Finished

(* A text with ink covers itself. *)
LEMMA CoversItself ==
    ASSUME NEW t, ~IsBlank(t)
    PROVE  SourceStillHasPrefix(t, t)
<1>1. Len(t) = Len(t)
  OBVIOUS
<1> QED
  BY <1>1 DEF SourceStillHasPrefix, IsPrefix

(* A step that rewrites one row, and starts no request, keeps the          *)
(* invariant when the row stays well formed and its key changes whenever   *)
(* its text does.                                                          *)
LEMMA RowUpdate ==
    ASSUME LedgerInvByRow, NEW k \in DOMAIN captions, NEW row,
           captions' = [captions EXCEPT ![k] = row],
           RowOK(k, row), Settled(row, session),
           row.endpointed = captions[k].endpointed,
           row.key.session = captions[k].key.session,
           row.key.revision >= captions[k].key.revision,
           row.key = captions[k].key =>
               CurrentSource(row) = CurrentSource(captions[k]),
           requests' \subseteq requests,
           UNCHANGED <<session, generation, nextId, active, stableVars>>
    PROVE  LedgerInvByRow'
<1>1. DOMAIN captions' = DOMAIN captions
  OBVIOUS
<1>2. captions'[k] = row
  OBVIOUS
<1>3. \A i \in DOMAIN captions \ {k} : captions'[i] = captions[i]
  OBVIOUS
<1>4. Scalars'
  BY DEF LedgerInvByRow, Scalars, StableTypeOK, stableVars
<1>5. ActiveRowIsOpen'
  BY <1>1, <1>2, <1>3 DEF LedgerInvByRow, ActiveRowIsOpen
<1>6. Rows'
  <2> SUFFICES ASSUME NEW i \in DOMAIN captions
               PROVE  /\ RowOK(i, captions'[i])
                      /\ i < nextId
                      /\ Settled(captions'[i], session)
    BY <1>1 DEF Rows
  <2>1. CASE i = k
    BY <1>2, <2>1 DEF LedgerInvByRow, Rows
  <2>2. CASE i # k
    BY <1>3, <2>2 DEF LedgerInvByRow, Rows
  <2> QED
    BY <2>1, <2>2
<1>7. Requests'
  <2> SUFFICES ASSUME NEW r \in requests, r.key.id \in DOMAIN captions
               PROVE  RequestOK(r, captions'[r.key.id])
    BY <1>1 DEF Requests, LedgerInvByRow
  <2>1. r \in Request /\ RequestOK(r, captions[r.key.id])
    BY DEF LedgerInvByRow, Requests
  <2>2. CASE r.key.id # k
    BY <1>3, <2>1, <2>2
  <2>3. CASE r.key.id = k
    <3>1. /\ RowOK(k, captions[k]) /\ RowOK(k, row)
          /\ r.key \in Key /\ captions[k].key \in Key /\ row.key \in Key
      BY <2>1 DEF LedgerInvByRow, Rows, RowOK, Caption, Request
    <3>2. row.key = r.key => captions[k].key = r.key
      BY <2>1, <2>3, <3>1 DEF RequestOK, RowOK, Key
    <3>3. r.key.revision <= row.key.revision
      BY <2>1, <2>3, <3>1 DEF RequestOK, Key
    <3> QED
      BY <1>2, <2>1, <2>3, <3>2, <3>3 DEF RequestOK
  <2> QED
    BY <2>2, <2>3
<1> QED
  BY <1>4, <1>5, <1>6, <1>7 DEF LedgerInvByRow

(* Writing the open segment: the row is there afterwards, eviction takes   *)
(* only others.                                                            *)
LEMMA OpenRowWritten ==
    ASSUME LedgerInvByRow, NEW row, captions' = Newest(Put(OpenId, row))
    PROVE  /\ OpenId \in DOMAIN captions'
           /\ captions'[OpenId] = row
           /\ \A i \in DOMAIN captions' \ {OpenId} :
                 i \in DOMAIN captions /\ captions'[i] = captions[i]
<1> DEFINE put == Put(OpenId, row)
           kept == {k \in DOMAIN put : Cardinality({j \in DOMAIN put : j > k}) < MaxCaptions}
<1>1. DOMAIN put = DOMAIN captions \cup {OpenId}
      /\ \A i \in DOMAIN put : put[i] = IF i = OpenId THEN row ELSE captions[i]
  BY DEF Put
<1>2. \A j \in DOMAIN captions : ~(j > OpenId)
  <2>1. OpenId \in Nat /\ nextId \in Nat /\ nextId <= OpenId + 1
    BY DEF LedgerInvByRow, Scalars, ActiveRowIsOpen, OpenId, NoId
  <2>2. \A j \in DOMAIN captions : j \in Nat /\ j < nextId
    BY DEF LedgerInvByRow, Rows, RowOK
  <2> QED
    BY <2>1, <2>2
<1>3. ~(OpenId > OpenId)
  BY DEF LedgerInvByRow, Scalars, OpenId, NoId
<1>4. {j \in DOMAIN put : j > OpenId} = {}
  BY <1>1, <1>2, <1>3
<1>5. Cardinality({j \in DOMAIN put : j > OpenId}) < MaxCaptions
  BY <1>4, FS_EmptySet, LedgerAssumption
<1>6. captions' = [i \in kept |-> put[i]]
  BY DEF Newest
<1>7. OpenId \in kept /\ kept \subseteq DOMAIN put
  BY <1>1, <1>5
<1> HIDE DEF put, kept
<1> QED
  BY <1>1, <1>6, <1>7

(* The row source() makes is well formed, belongs to the current session   *)
(* and has a new key unless the row kept its stable text.                  *)
LEMMA SourceRowFacts ==
    ASSUME LedgerInvByRow,
           NEW text \in Text, NEW stable \in Text, NEW endpoint \in BOOLEAN,
           endpoint => stable = text
    PROVE  LET row == SourceRow(OpenId, text, stable, endpoint)
           IN  /\ RowOK(OpenId, row)
               /\ row.key.session = session
               /\ row.stage = "PROVISIONAL"
               /\ row.endpointed = endpoint
               /\ CurrentSource(row) = stable
               /\ \A r \in requests :
                     r.key.id = OpenId => RequestOK(r, row)
<1> DEFINE id  == OpenId
           row == SourceRow(OpenId, text, stable, endpoint)
           old == captions[OpenId]
<1>0. /\ id \in Nat \ {0}
      /\ session \in Int
      /\ id \in DOMAIN captions => active = id /\ active # NoId
      /\ id \notin DOMAIN captions => active = NoId /\ id = nextId
  BY DEF LedgerInvByRow, Scalars, ActiveRowIsOpen, OpenId, NoId, Rows, RowOK
<1>1. id \in DOMAIN captions => /\ RowOK(id, old) /\ ~old.endpointed
                                /\ old.key.session = session
                                /\ old.key \in Key /\ old.key.revision \in Nat
                                /\ old.portion \in Text /\ old.qualityRank \in {-1, 0, 2}
  BY <1>0 DEF LedgerInvByRow, Rows, RowOK, ActiveRowIsOpen, Caption, Key
<1>2. row.key \in Key /\ row.key.id = id /\ row.key.session = session
  BY <1>0, <1>1 DEF SourceRow, Advances, Key, RowOK
<1>3. /\ row.source = text /\ row.stableSource = stable
      /\ row.stage = "PROVISIONAL" /\ row.endpointed = endpoint
      /\ row.corrected = FALSE
      /\ row.portion = IF Keeps(id, stable) THEN old.portion ELSE NoText
      /\ row.qualityRank = IF Keeps(id, stable) THEN old.qualityRank ELSE -1
  BY DEF SourceRow
<1>4. CurrentSource(row) = stable
  BY <1>3 DEF CurrentSource
<1>5. row \in Caption
  <2>1. row.portion \in Text /\ row.qualityRank \in {-1, 0, 2}
    BY <1>1, <1>3, EmptyText DEF Keeps, NoText
  <2>2. \A k \in Key, p \in Text, q \in {-1, 0, 2} :
          [key |-> k, source |-> text, stableSource |-> stable, portion |-> p,
           qualityRank |-> q, stage |-> "PROVISIONAL", endpointed |-> endpoint,
           corrected |-> FALSE] \in Caption
    BY DEF Caption, Stage
  <2>3. row = [key |-> row.key, source |-> text, stableSource |-> stable,
               portion |-> row.portion, qualityRank |-> row.qualityRank,
               stage |-> "PROVISIONAL", endpointed |-> endpoint, corrected |-> FALSE]
    BY DEF SourceRow
  <2> HIDE DEF row
  <2> QED
    BY <1>2, <2>1, <2>2, <2>3, Zenon
<1>6. row.portion # NoText => SourceStillHasPrefix(CurrentSource(row), row.portion)
  BY <1>3, <1>4 DEF Keeps
<1>7. RowOK(id, row)
  BY <1>0, <1>2, <1>3, <1>5, <1>6 DEF RowOK, Finished
<1>8. ASSUME NEW r \in requests, r.key.id = id
      PROVE  RequestOK(r, row)
  <2>1. r \in Request /\ r.key.id < nextId /\ r.key.revision \in Nat
    BY DEF LedgerInvByRow, Requests, Request, Key
  <2>2. id \in DOMAIN captions
    BY <1>0, <1>8, <2>1 DEF LedgerInvByRow, Scalars
  <2>3. RequestOK(r, old)
    BY <1>8, <2>2 DEF LedgerInvByRow, Requests
  <2>4. CASE Advances(id, stable, endpoint)
    <3>1. row.key.revision = old.key.revision + 1
      BY <2>2, <2>4 DEF SourceRow
    <3> QED
      BY <1>1, <1>2, <2>1, <2>2, <2>3, <3>1 DEF RequestOK
  <2>5. CASE ~Advances(id, stable, endpoint)
    <3>1. row.key = old.key /\ ~endpoint /\ old.stableSource = stable
      BY <2>5 DEF SourceRow, Advances
    <3>2. CurrentSource(old) = stable
      BY <1>1, <2>2, <3>1 DEF CurrentSource
    <3> HIDE DEF row, old
    <3> QED
      BY <1>1, <1>3, <1>4, <2>2, <2>3, <3>1, <3>2 DEF RequestOK
  <2> QED
    BY <2>4, <2>5
<1> QED
  BY <1>2, <1>3, <1>4, <1>7, <1>8

(* A request made for row k with the text the row shows matches the row.   *)
LEMMA FreshRequest ==
    ASSUME NEW k, NEW row, RowOK(k, row),
           NEW kind \in {"provisional", "final"},
           row.endpointed <=> kind = "final"
    PROVE  LET r == [key |-> row.key, source |-> CurrentSource(row), kind |-> kind]
           IN  /\ r \in Request
               /\ r.key.id = k
               /\ RequestOK(r, row)
<1>1. row \in Caption /\ row.key \in Key /\ CurrentSource(row) \in Text
      /\ row.key.id = k /\ row.key.revision \in Nat
  BY DEF RowOK, Caption, CurrentSource, Key
<1> QED
  BY <1>1 DEF Request, RequestOK

(* A step of source(), with the request partial() or endpoint() makes of   *)
(* its row, keeps the invariant.                                           *)
LEMMA SourceUpdate ==
    ASSUME LedgerInvByRow,
           NEW text \in Text, NEW stable \in Text, NEW endpoint \in BOOLEAN,
           endpoint => stable = text,
           WriteSource(text, stable, endpoint),
           active' = IF endpoint THEN NoId ELSE OpenId,
           StableTypeOK',
           UNCHANGED <<session, generation>>,
           \/ requests' = requests
           \/ /\ ~IsBlank(stable)
              /\ requests' = requests \cup
                    {[key |-> captions'[OpenId].key, source |-> stable,
                      kind |-> IF endpoint THEN "final" ELSE "provisional"]}
    PROVE  LedgerInvByRow'
<1> DEFINE row == SourceRow(OpenId, text, stable, endpoint)
<1>1. /\ RowOK(OpenId, row) /\ row.key.session = session
      /\ row.stage = "PROVISIONAL" /\ row.endpointed = endpoint
      /\ CurrentSource(row) = stable
      /\ \A r \in requests : r.key.id = OpenId => RequestOK(r, row)
  BY SourceRowFacts
<1>2. captions' = Newest(Put(OpenId, row))
  BY DEF WriteSource
<1> HIDE DEF row
<1>3. /\ OpenId \in DOMAIN captions'
      /\ captions'[OpenId] = row
      /\ \A i \in DOMAIN captions' \ {OpenId} :
            i \in DOMAIN captions /\ captions'[i] = captions[i]
  BY <1>2, OpenRowWritten
<1>4. /\ nextId \in Nat \ {0} /\ nextId' \in Nat \ {0} /\ OpenId \in Nat \ {0}
      /\ nextId <= nextId' /\ OpenId = nextId' - 1 /\ OpenId < nextId'
  BY DEF LedgerInvByRow, Scalars, ActiveRowIsOpen, OpenId, NoId, WriteSource
<1>5. Scalars'
  BY <1>4 DEF LedgerInvByRow, Scalars, NoId
<1>6. ActiveRowIsOpen'
  BY <1>1, <1>3, <1>4 DEF ActiveRowIsOpen, NoId
<1>7. Rows'
  <2> SUFFICES ASSUME NEW i \in DOMAIN captions'
               PROVE  /\ RowOK(i, captions'[i])
                      /\ i < nextId'
                      /\ Settled(captions'[i], session)
    BY DEF Rows
  <2>1. CASE i = OpenId
    <3>1. i < nextId'
      BY <1>4, <2>1
    <3>2. Settled(row, session)
      BY <1>1 DEF Settled
    <3> QED
      BY <1>1, <1>3, <2>1, <3>1, <3>2
  <2>2. CASE i # OpenId
    <3>1. i \in DOMAIN captions /\ captions'[i] = captions[i]
      BY <1>3, <2>2
    <3>2. RowOK(i, captions[i]) /\ i < nextId /\ Settled(captions[i], session) /\ i \in Nat
      BY <3>1 DEF LedgerInvByRow, Rows, RowOK
    <3> QED
      BY <1>4, <3>1, <3>2
  <2> QED
    BY <2>1, <2>2
<1>8. Requests'
  <2> SUFFICES ASSUME NEW r \in requests'
               PROVE  /\ r \in Request
                      /\ r.key.id < nextId'
                      /\ ~IsBlank(r.source)
                      /\ r.key.id \in DOMAIN captions' => RequestOK(r, captions'[r.key.id])
    BY DEF Requests
  <2>1. CASE r \in requests
    <3>1. /\ r \in Request /\ r.key.id < nextId
          /\ ~IsBlank(r.source) /\ r.key.id \in Nat
          /\ r.key.id \in DOMAIN captions => RequestOK(r, captions[r.key.id])
      BY <2>1 DEF LedgerInvByRow, Requests, Request, Key
    <3>2. r.key.id < nextId'
      BY <1>4, <3>1
    <3>3. CASE r.key.id = OpenId
      BY <1>1, <1>3, <2>1, <3>1, <3>2, <3>3
    <3>4. CASE r.key.id # OpenId
      BY <1>3, <3>1, <3>2, <3>4
    <3> QED
      BY <3>3, <3>4
  <2>2. CASE r \notin requests
    <3>1. /\ ~IsBlank(stable)
          /\ r = [key |-> row.key, source |-> CurrentSource(row),
                  kind |-> IF endpoint THEN "final" ELSE "provisional"]
      BY <1>1, <1>3, <2>2
    <3>2. r \in Request /\ r.key.id = OpenId /\ RequestOK(r, row)
      BY <1>1, <3>1, FreshRequest
    <3>3. r.source = stable
      BY <1>1, <3>1
    <3> QED
      BY <1>3, <1>4, <3>1, <3>2, <3>3
  <2> QED
    BY <2>1, <2>2
<1> QED
  BY <1>5, <1>6, <1>7, <1>8 DEF LedgerInvByRow

(* A live hypothesis keeps the invariant. *)
LEMMA PartialKeepsInv ==
    ASSUME LedgerInvByRow, NEW g, NEW text \in Hypotheses, Partial(g, text)
    PROVE  LedgerInvByRow'
<1>0. Trim(text) \in Text /\ text \in Text
  BY HypothesesAssumption, TrimText
<1>1. CASE /\ Unchanged(text) /\ UNCHANGED <<ledgerVars, stableVars>>
           /\ PartialRequest
  <2>1. OpenId \in DOMAIN captions /\ captions' = captions
    BY <1>1 DEF Unchanged, ledgerVars
  <2>2. RowOK(OpenId, captions[OpenId]) /\ OpenId < nextId
    BY <2>1 DEF LedgerInvByRow, Rows
  <2>3. active = OpenId /\ active # NoId
    BY <2>2 DEF LedgerInvByRow, Scalars, OpenId, NoId
  <2>4. ~captions[OpenId].endpointed
    BY <2>3 DEF LedgerInvByRow, ActiveRowIsOpen
  <2>5. CurrentSource(captions[OpenId]) = captions[OpenId].stableSource
    BY <2>4 DEF CurrentSource
  <2>6. Requests'
    <3> DEFINE new == [key |-> captions[OpenId].key,
                       source |-> CurrentSource(captions[OpenId]),
                       kind |-> "provisional"]
    <3>1. new \in Request /\ new.key.id = OpenId /\ RequestOK(new, captions[OpenId])
      BY <2>2, <2>4, FreshRequest
    <3>2. \/ requests' = requests
          \/ requests' = requests \cup {new} /\ ~IsBlank(new.source)
      BY <1>1, <2>1, <2>5 DEF PartialRequest, AskFor
    <3> HIDE DEF new
    <3> QED
      BY <1>1, <2>1, <2>2, <3>1, <3>2
         DEF LedgerInvByRow, Requests, ledgerVars
  <2>7. Scalars' /\ ActiveRowIsOpen' /\ Rows'
    BY <1>1 DEF LedgerInvByRow, Scalars, ActiveRowIsOpen, Rows, ledgerVars,
                stableVars, StableTypeOK
  <2> QED
    BY <2>6, <2>7 DEF LedgerInvByRow
<1>2. CASE /\ Accept(Trim(text))
           /\ WriteSource(Trim(text), StableText(Trim(text)), FALSE)
           /\ active' = OpenId
           /\ UNCHANGED <<session, generation>>
           /\ PartialRequest
  <2> DEFINE stable == StableText(Trim(text))
  <2>1. stable \in Text /\ StableTypeOK'
    BY <1>0, <1>2, TrimText, CommittedAgreed
       DEF LedgerInvByRow, Scalars, StableTypeOK, Accept, StableText
  <2>2. captions'[OpenId].stableSource = stable
    <3>1. captions'[OpenId] = SourceRow(OpenId, Trim(text), stable, FALSE)
      BY <1>2, OpenRowWritten DEF WriteSource
    <3> QED
      BY <3>1 DEF SourceRow
  <2>3. \/ requests' = requests
        \/ /\ ~IsBlank(stable)
           /\ requests' = requests \cup
                 {[key |-> captions'[OpenId].key, source |-> stable,
                   kind |-> "provisional"]}
    BY <1>2, <2>2 DEF PartialRequest, AskFor
  <2> HIDE DEF stable
  <2>4. WriteSource(Trim(text), stable, FALSE)
    BY <1>2 DEF stable
  <2> QED
    BY <1>0, <1>2, <2>1, <2>3, <2>4, SourceUpdate
<1> QED
  BY <1>1, <1>2 DEF Partial

(* An endpoint keeps the invariant. *)
LEMMA EndpointKeepsInv ==
    ASSUME LedgerInvByRow, NEW g, NEW text \in Hypotheses, Endpoint(g, text)
    PROVE  LedgerInvByRow'
<1>1. Trim(text) \in Text /\ ~IsBlank(Trim(text))
  BY HypothesesAssumption, TrimText DEF Endpoint, Reports
<1>2. StableTypeOK'
  BY EmptyText DEF Endpoint, Reset, StableTypeOK
<1>3. /\ WriteSource(Trim(text), Trim(text), TRUE)
      /\ active' = NoId
      /\ UNCHANGED <<session, generation>>
      /\ requests' = requests \cup
            {[key |-> captions'[OpenId].key, source |-> Trim(text), kind |-> "final"]}
  BY DEF Endpoint, AskFor
<1> QED
  BY <1>1, <1>2, <1>3, SourceUpdate

(* A step that writes no row and only forgets requests, or the like, keeps *)
(* the invariant; so does one that leaves the rows alone.                  *)
LEMMA RowsUntouched ==
    ASSUME LedgerInvByRow, UNCHANGED <<ledgerVars, stableVars>>,
           requests' \subseteq requests
    PROVE  LedgerInvByRow'
<1>1. Scalars' /\ ActiveRowIsOpen' /\ Rows'
  BY DEF LedgerInvByRow, Scalars, ActiveRowIsOpen, Rows, ledgerVars,
         stableVars, StableTypeOK
<1>2. Requests'
  BY DEF LedgerInvByRow, Requests, ledgerVars
<1> QED
  BY <1>1, <1>2 DEF LedgerInvByRow

(* Publishing a translation keeps the invariant. *)
LEMMA TranslatePortionKeepsInv ==
    ASSUME LedgerInvByRow, NEW r \in requests, NEW final \in BOOLEAN,
           Publish(TranslatePortion(r.key, r.source, IF final THEN 2 ELSE 0, final)),
           requests' \subseteq requests
    PROVE  LedgerInvByRow'
<1> DEFINE k == r.key.id
           old == captions[k]
           rank == IF final THEN 2 ELSE 0
           row == [old EXCEPT !.portion = r.source,
                              !.qualityRank = rank,
                              !.stage = IF ~final THEN "PROVISIONAL"
                                        ELSE IF old.corrected THEN "REVISED"
                                        ELSE "FINAL"]
<1>1. CASE captions' = captions
  BY <1>1, RowsUntouched DEF Publish, ledgerVars
<1>2. CASE captions' # captions
  <2>1. /\ CanTranslatePortion(r.key, r.source, final)
        /\ rank >= old.qualityRank
        /\ captions' = [captions EXCEPT ![k] = row]
    BY <1>2 DEF Publish, TranslatePortion
  <2>2. /\ k \in DOMAIN captions
        /\ r.key.session = session
        /\ IF final THEN old.endpointed /\ r.source = old.source
                    ELSE SourceStillHasPrefix(CurrentSource(old), r.source)
    BY <2>1 DEF CanTranslatePortion
  <2>3. /\ RowOK(k, old) /\ old \in Caption
        /\ r \in Request /\ r.source \in Text /\ ~IsBlank(r.source)
        /\ old.key.session = session
    BY <2>2 DEF LedgerInvByRow, Rows, RowOK, Requests, RequestOK, Request
  <2>4. /\ row \in Caption
        /\ row.key = old.key /\ row.source = old.source
        /\ row.stableSource = old.stableSource /\ row.endpointed = old.endpointed
        /\ row.portion = r.source /\ row.qualityRank = rank
        /\ row.stage \in Finished => final
    BY <2>3 DEF Caption, Stage, Finished
  <2> HIDE DEF row, old
  <2>5. CurrentSource(row) = CurrentSource(old)
    BY <2>4 DEF CurrentSource
  <2>6. SourceStillHasPrefix(CurrentSource(row), row.portion)
    <3>1. CASE final
      <4>1. CurrentSource(row) = r.source
        BY <2>2, <2>4, <3>1 DEF CurrentSource
      <4> QED
        BY <2>3, <2>4, <4>1, CoversItself
    <3>2. CASE ~final
      BY <2>2, <2>4, <2>5, <3>2
    <3> QED
      BY <3>1, <3>2
  <2>7. RowOK(k, row)
    BY <2>2, <2>3, <2>4, <2>6 DEF RowOK
  <2>8. Settled(row, session)
    BY <2>3, <2>4 DEF Settled
  <2>9. row.key.revision >= old.key.revision
    BY <2>3, <2>4 DEF Caption, Key
  <2>10. UNCHANGED <<session, generation, nextId, active, stableVars>>
    BY DEF Publish
  <2> QED
    BY <2>1, <2>2, <2>4, <2>5, <2>7, <2>8, <2>9, <2>10, RowUpdate DEF old
<1> QED
  BY <1>1, <1>2

(* Publishing a corrected pair keeps the invariant. *)
LEMMA ReviseKeepsInv ==
    ASSUME LedgerInvByRow, NEW r \in requests,
           Publish(ReviseTranslated(r.key, r.source)),
           requests' \subseteq requests
    PROVE  LedgerInvByRow'
<1> DEFINE k == r.key.id
           old == captions[k]
           next == [r.key EXCEPT !.revision = r.key.revision + 1]
           row == [old EXCEPT !.key = next,
                              !.source = r.source, !.stableSource = r.source,
                              !.portion = r.source, !.qualityRank = 2,
                              !.stage = "REVISED", !.corrected = TRUE]
<1>1. CASE captions' = captions
  BY <1>1, RowsUntouched DEF Publish, ledgerVars
<1>2. CASE captions' # captions
  <2>1. /\ Current(r.key) /\ old.endpointed
        /\ captions' = [captions EXCEPT ![k] = row]
    BY <1>2 DEF Publish, ReviseTranslated
  <2>2. k \in DOMAIN captions /\ old.key = r.key /\ r.key.session = session
    BY <2>1 DEF Current
  <2>3. /\ RowOK(k, old) /\ old \in Caption
        /\ r \in Request /\ r.source \in Text /\ ~IsBlank(r.source)
        /\ r.key \in Key /\ r.key.revision \in Nat
    BY <2>2 DEF LedgerInvByRow, Rows, RowOK, Requests, Request, Key
  <2>a. /\ next \in Key /\ next.id = k /\ next.session = session
        /\ next.revision = r.key.revision + 1
    BY <2>2, <2>3 DEF Key
  <2> HIDE DEF next
  <2>4. /\ row \in Caption
        /\ row.key = next
        /\ row.source = r.source /\ row.endpointed = old.endpointed
        /\ row.portion = r.source /\ row.qualityRank = 2
        /\ row.stage = "REVISED"
    BY <2>a, <2>3 DEF Caption, Stage
  <2>5. /\ row.key.id = k /\ row.key.session = session
        /\ row.key.revision = r.key.revision + 1
    BY <2>a, <2>4
  <2> HIDE DEF row, old
  <2>6. CurrentSource(row) = r.source
    BY <2>1, <2>4 DEF CurrentSource
  <2>7. RowOK(k, row)
    BY <2>1, <2>3, <2>4, <2>5, <2>6, CoversItself DEF RowOK
  <2>8. Settled(row, session)
    BY <2>5 DEF Settled
  <2>9. /\ row.key.revision >= old.key.revision
        /\ row.key # old.key
        /\ row.key.session = old.key.session
    BY <2>2, <2>3, <2>5
  <2>10. UNCHANGED <<session, generation, nextId, active, stableVars>>
    BY DEF Publish
  <2> QED
    BY <2>1, <2>2, <2>4, <2>7, <2>8, <2>9, <2>10, RowUpdate DEF old
<1> QED
  BY <1>1, <1>2

(* Changing the stage of a row to SKIPPED keeps the invariant. *)
LEMMA SkipKeepsInv ==
    ASSUME LedgerInvByRow, NEW r \in requests,
           Publish(Skip(r.key)), requests' \subseteq requests
    PROVE  LedgerInvByRow'
<1> DEFINE k == r.key.id
           old == captions[k]
           row == [old EXCEPT !.stage = "SKIPPED"]
<1>1. CASE captions' = captions
  BY <1>1, RowsUntouched DEF Publish, ledgerVars
<1>2. CASE captions' # captions
  <2>1. k \in DOMAIN captions /\ captions' = [captions EXCEPT ![k] = row]
    BY <1>2 DEF Publish, Skip
  <2>2. RowOK(k, old) /\ old \in Caption /\ old.key.revision \in Nat
    BY <2>1 DEF LedgerInvByRow, Rows, RowOK, Caption, Key
  <2>3. /\ row \in Caption /\ row.stage = "SKIPPED" /\ row.key = old.key
        /\ row.source = old.source /\ row.stableSource = old.stableSource
        /\ row.endpointed = old.endpointed /\ row.portion = old.portion
    BY <2>2 DEF Caption, Stage
  <2> HIDE DEF row, old
  <2>4. CurrentSource(row) = CurrentSource(old)
    BY <2>3 DEF CurrentSource
  <2>5. RowOK(k, row) /\ Settled(row, session)
    BY <2>2, <2>3, <2>4 DEF RowOK, Finished, Settled
  <2>6. UNCHANGED <<session, generation, nextId, active, stableVars>>
    BY DEF Publish
  <2>7. row.key.revision >= old.key.revision
    BY <2>2, <2>3
  <2> QED
    BY <2>1, <2>3, <2>4, <2>5, <2>6, <2>7, RowUpdate DEF old
<1> QED
  BY <1>1, <1>2

(* Turning a final request into a correction keeps the invariant. *)
LEMMA CorrectKeepsInv ==
    ASSUME LedgerInvByRow, NEW r \in requests, NEW text \in Hypotheses,
           Correct(r, text)
    PROVE  LedgerInvByRow'
<1> DEFINE new == [r EXCEPT !.kind = "correction", !.source = text]
<1>1. r \in Request /\ r.kind = "final" /\ text \in Text /\ ~IsBlank(text)
  BY HypothesesAssumption DEF LedgerInvByRow, Requests, Correct
<1>2. /\ new \in Request /\ new.key = r.key
      /\ new.source = text /\ new.kind = "correction"
  BY <1>1 DEF Request
<1>3. requests' \subseteq requests \cup {new}
  BY DEF Correct
<1> HIDE DEF new
<1>4. UNCHANGED <<ledgerVars, stableVars>>
  BY DEF Correct
<1>5. Scalars' /\ ActiveRowIsOpen' /\ Rows'
  BY <1>4 DEF LedgerInvByRow, Scalars, ActiveRowIsOpen, Rows, ledgerVars,
              stableVars, StableTypeOK
<1>6. /\ new.key.id < nextId
      /\ new.key.id \in DOMAIN captions => RequestOK(new, captions[new.key.id])
  BY <1>1, <1>2 DEF LedgerInvByRow, Requests, RequestOK
<1>7. Requests'
  BY <1>1, <1>2, <1>3, <1>4, <1>6 DEF LedgerInvByRow, Requests, ledgerVars
<1> QED
  BY <1>5, <1>7 DEF LedgerInvByRow

(* An audio gap closes the open segment. *)
LEMMA DiscontinuityKeepsInv ==
    ASSUME LedgerInvByRow, NEW g, Discontinuity(g)
    PROVE  LedgerInvByRow'
<1>1. Scalars' /\ ActiveRowIsOpen'
  BY EmptyText DEF LedgerInvByRow, Scalars, ActiveRowIsOpen, Discontinuity,
                   Reset, StableTypeOK, NoId
<1>2. CASE active = NoId
  <2>1. captions' = captions
    BY <1>2 DEF Discontinuity
  <2> QED
    BY <1>1, <2>1 DEF LedgerInvByRow, Rows, Requests, Discontinuity
<1>3. CASE active # NoId
  <2> DEFINE old == captions[active]
             row == [old EXCEPT !.stage = "SKIPPED"]
  <2>1. active \in DOMAIN captions
        /\ captions' = [captions EXCEPT ![active] = row]
    BY <1>3 DEF LedgerInvByRow, ActiveRowIsOpen, Discontinuity
  <2>2. RowOK(active, old) /\ old \in Caption
    BY <2>1 DEF LedgerInvByRow, Rows, RowOK
  <2>3. /\ row \in Caption /\ row.stage = "SKIPPED" /\ row.key = old.key
        /\ row.source = old.source /\ row.stableSource = old.stableSource
        /\ row.endpointed = old.endpointed /\ row.portion = old.portion
    BY <2>2 DEF Caption, Stage
  <2> HIDE DEF row, old
  <2>4. CurrentSource(row) = CurrentSource(old)
    BY <2>3 DEF CurrentSource
  <2>5. RowOK(active, row) /\ Settled(row, session)
    BY <2>2, <2>3, <2>4 DEF RowOK, Finished, Settled
  <2>6. DOMAIN captions' = DOMAIN captions /\ captions'[active] = row
        /\ \A i \in DOMAIN captions \ {active} : captions'[i] = captions[i]
    BY <2>1
  <2>7. Rows'
    BY <2>5, <2>6 DEF LedgerInvByRow, Rows, Discontinuity
  <2>8. \A r : RequestOK(r, old) => RequestOK(r, row)
    BY <2>3, <2>4 DEF RequestOK
  <2>9. Requests'
    BY <2>6, <2>8 DEF LedgerInvByRow, Requests, Discontinuity, old
  <2> QED
    BY <1>1, <2>7, <2>9 DEF LedgerInvByRow
<1> QED
  BY <1>2, <1>3

(* Ending a session settles every row. *)
LEMMA CancelledKeepsInv ==
    ASSUME LedgerInvByRow, captions' = Cancelled(captions),
           session' \in Int, generation' \in Int, active' = NoId, Reset,
           UNCHANGED <<nextId, requests>>
    PROVE  LedgerInvByRow'
<1>1. Scalars' /\ ActiveRowIsOpen'
  BY EmptyText DEF LedgerInvByRow, Scalars, ActiveRowIsOpen, Reset,
                   StableTypeOK, NoId
<1>2. DOMAIN captions' = DOMAIN captions
  BY DEF Cancelled
<1>3. ASSUME NEW i \in DOMAIN captions
      PROVE  /\ captions'[i].key = captions[i].key
             /\ captions'[i].endpointed = captions[i].endpointed
             /\ CurrentSource(captions'[i]) = CurrentSource(captions[i])
             /\ RowOK(i, captions'[i])
             /\ captions'[i].stage # "PROVISIONAL"
  <2> DEFINE old == captions[i]
             row == [old EXCEPT !.stage = "CANCELLED"]
  <2>1. RowOK(i, old) /\ old \in Caption
    BY DEF LedgerInvByRow, Rows, RowOK
  <2>2. CASE old.stage # "PROVISIONAL"
    BY <2>1, <2>2 DEF Cancelled
  <2>3. CASE old.stage = "PROVISIONAL"
    <3>1. captions'[i] = row
      BY <2>3 DEF Cancelled
    <3>2. /\ row \in Caption /\ row.stage = "CANCELLED" /\ row.key = old.key
          /\ row.source = old.source /\ row.stableSource = old.stableSource
          /\ row.endpointed = old.endpointed /\ row.portion = old.portion
      BY <2>1 DEF Caption, Stage
    <3> HIDE DEF row, old
    <3>3. CurrentSource(row) = CurrentSource(old)
      BY <3>2 DEF CurrentSource
    <3>4. RowOK(i, row)
      BY <2>1, <3>2, <3>3 DEF RowOK, Finished
    <3> QED
      BY <3>1, <3>2, <3>3, <3>4 DEF old
  <2> QED
    BY <2>2, <2>3
<1>4. Rows'
  BY <1>2, <1>3 DEF LedgerInvByRow, Rows, Settled
<1>5. Requests'
  BY <1>2, <1>3 DEF LedgerInvByRow, Requests, RequestOK
<1> QED
  BY <1>1, <1>4, <1>5 DEF LedgerInvByRow

(* The user's clear keeps the invariant. *)
LEMMA ClearKeepsInv ==
    ASSUME LedgerInvByRow, Clear
    PROVE  LedgerInvByRow'
BY EmptyText DEF LedgerInvByRow, Scalars, ActiveRowIsOpen, Rows, Requests,
                 Clear, Reset, StableTypeOK, NoId

-----------------------------------------------------------------------------
(***************************************************************************)
(* LedgerInv holds in every state the ledger can reach, whatever the       *)
(* workers, the service and the user do in whatever order.                 *)
(***************************************************************************)
THEOREM LedgerInvariant == Spec => []LedgerInv
<1>1. Init => LedgerInvByRow
  BY EmptyText DEF Init, StableInit, StableTypeOK, LedgerInvByRow, Scalars,
                   ActiveRowIsOpen, Rows, Requests, NoId, NoSession
<1>2. LedgerInvByRow /\ [Next]_vars => LedgerInvByRow'
  <2> SUFFICES ASSUME LedgerInvByRow, [Next]_vars
               PROVE  LedgerInvByRow'
    OBVIOUS
  <2>1. ASSUME NEW g \in 1..MaxGeneration, NEW text \in Hypotheses,
               Partial(g, text) \/ Endpoint(g, text)
        PROVE  LedgerInvByRow'
    BY <2>1, PartialKeepsInv, EndpointKeepsInv
  <2>2. ASSUME NEW r \in requests, Progress(r)
        PROVE  LedgerInvByRow'
    <3>1. Publish(TranslatePortion(r.key, r.source, IF FALSE THEN 2 ELSE 0, FALSE))
      BY <2>2 DEF Progress
    <3> QED
      BY <2>2, <3>1, TranslatePortionKeepsInv DEF Progress
  <2>3. ASSUME NEW r \in requests, Complete(r)
        PROVE  LedgerInvByRow'
    <3>0. requests' \subseteq requests
      BY <2>3 DEF Complete
    <3>1. r.kind \in {"provisional", "final", "correction"}
      BY DEF LedgerInvByRow, Requests, Request
    <3>2. CASE r.kind = "provisional"
      <4>1. Publish(TranslatePortion(r.key, r.source, IF FALSE THEN 2 ELSE 0, FALSE))
        BY <2>3, <3>2 DEF Complete
      <4> QED
        BY <3>0, <4>1, TranslatePortionKeepsInv
    <3>3. CASE r.kind = "final"
      <4>1. Publish(TranslatePortion(r.key, r.source, IF TRUE THEN 2 ELSE 0, TRUE))
        BY <2>3, <3>3 DEF Complete
      <4> QED
        BY <3>0, <4>1, TranslatePortionKeepsInv
    <3>4. CASE r.kind = "correction"
      <4>1. Publish(ReviseTranslated(r.key, r.source))
        BY <2>3, <3>4 DEF Complete
      <4> QED
        BY <3>0, <4>1, ReviseKeepsInv
    <3> QED
      BY <3>1, <3>2, <3>3, <3>4
  <2>4. ASSUME NEW r \in requests, GiveUp(r)
        PROVE  LedgerInvByRow'
    BY <2>4, SkipKeepsInv DEF GiveUp
  <2>5. ASSUME NEW r \in requests, Forget(r)
        PROVE  LedgerInvByRow'
    BY <2>5, RowsUntouched DEF Forget
  <2>6. ASSUME NEW r \in requests, NEW text \in Hypotheses, Correct(r, text)
        PROVE  LedgerInvByRow'
    BY <2>6, CorrectKeepsInv
  <2>7. ASSUME NEW g \in 1..MaxGeneration, Discontinuity(g)
        PROVE  LedgerInvByRow'
    BY <2>7, DiscontinuityKeepsInv
  <2>8. ASSUME NEW g \in 1..MaxGeneration, Start(g)
        PROVE  LedgerInvByRow'
    BY <2>8, CancelledKeepsInv DEF Start
  <2>9. CASE Cancel
    <3>1. session' \in Int /\ generation' \in Int
      BY <2>9 DEF Cancel, NoSession, LedgerInvByRow, Scalars
    <3> QED
      BY <2>9, <3>1, CancelledKeepsInv DEF Cancel
  <2>10. CASE Clear
    BY <2>10, ClearKeepsInv
  <2>11. CASE UNCHANGED vars
    BY <2>11, RowsUntouched DEF vars
  <2> QED
    BY <2>1, <2>2, <2>3, <2>4, <2>5, <2>6, <2>7, <2>8, <2>9, <2>10, <2>11
       DEF Next
<1>3. LedgerInv <=> LedgerInvByRow
  BY Regrouped
<1> QED
  BY <1>1, <1>2, <1>3, PTL DEF Spec

(* The ledger's variables keep their types. *)
THEOREM LedgerTypeCorrect == Spec => []TypeOK
<1>1. LedgerInv => TypeOK
  BY DEF LedgerInv
<1> QED
  BY <1>1, LedgerInvariant, PTL

(***************************************************************************)
(* The translation shown with a row always renders a prefix of the text    *)
(* the row shows now.                                                      *)
(***************************************************************************)
THEOREM ShownPairsMatch == Spec => []PortionCoversSource
<1>1. LedgerInv => PortionCoversSource
  BY DEF LedgerInv
<1> QED
  BY <1>1, LedgerInvariant, PTL

(***************************************************************************)
(* A key never stands for two texts.                                       *)
(***************************************************************************)
THEOREM KeysAreExact == Spec => []KeyIdentifiesText
<1>1. LedgerInv => KeyIdentifiesText
  BY DEF LedgerInv
<1> QED
  BY <1>1, LedgerInvariant, PTL

(***************************************************************************)
(* A final or revised row translates all of its closed source.             *)
(***************************************************************************)
THEOREM FinalsAreWhole == Spec => []FinalTranslatesWholeSource
<1>1. LedgerInv => FinalTranslatesWholeSource
  BY DEF LedgerInv
<1> QED
  BY <1>1, LedgerInvariant, PTL

-----------------------------------------------------------------------------
(* No result of any worker rewrites a row of an ended session. *)
LEMMA ResultsRespectSessions ==
    ASSUME LedgerInvByRow, NEW r \in requests,
           NEW i \in DOMAIN captions, captions[i].key.session # session
    PROVE  /\ \A rank, final :
                 TranslatePortion(r.key, r.source, rank, final)[i] = captions[i]
           /\ ReviseTranslated(r.key, r.source)[i] = captions[i]
           /\ Skip(r.key)[i] = captions[i]
<1>1. r.key.id \in DOMAIN captions => captions[r.key.id].key.session = r.key.session
  BY DEF LedgerInvByRow, Requests, RequestOK
<1>2. ASSUME NEW rank, NEW final
      PROVE  TranslatePortion(r.key, r.source, rank, final)[i] = captions[i]
  BY <1>1 DEF TranslatePortion, CanTranslatePortion
<1>3. ReviseTranslated(r.key, r.source)[i] = captions[i]
  BY DEF ReviseTranslated, Current
<1>4. Skip(r.key)[i] = captions[i]
  BY <1>1 DEF Skip
<1> QED
  BY <1>2, <1>3, <1>4

(***************************************************************************)
(* Rows of an ended session never change again: late work of its threads   *)
(* is without effect, whichever call it makes.                             *)
(***************************************************************************)
THEOREM OldWorkIsInert == Spec => EndedSessionFrozen
<1> DEFINE A == \A i \in DOMAIN captions \cap DOMAIN captions' :
                   captions[i].key.session # session => captions'[i] = captions[i]
<1>1. LedgerInvByRow /\ [Next]_vars => [A]_vars
  <2> SUFFICES ASSUME LedgerInvByRow, Next,
                      NEW i \in DOMAIN captions, i \in DOMAIN captions',
                      captions[i].key.session # session
               PROVE  captions'[i] = captions[i]
    OBVIOUS
  <2>0. active # NoId => active # i
    BY DEF LedgerInvByRow, ActiveRowIsOpen
  <2>1. OpenId # i
    <3>1. i \in Nat \ {0} /\ i < nextId /\ nextId \in Nat
      BY DEF LedgerInvByRow, Rows, RowOK, Scalars
    <3> QED
      BY <2>0, <3>1 DEF OpenId
  <2>2. ASSUME NEW row, captions' = Newest(Put(OpenId, row))
        PROVE  captions'[i] = captions[i]
    BY <2>1, <2>2, OpenRowWritten
  <2>3. ASSUME NEW g, NEW text, Partial(g, text) \/ Endpoint(g, text)
        PROVE  captions'[i] = captions[i]
    BY <2>2, <2>3 DEF Partial, Endpoint, WriteSource, ledgerVars
  <2>4. ASSUME NEW r \in requests, Progress(r) \/ GiveUp(r) \/ Forget(r)
        PROVE  captions'[i] = captions[i]
    <3>1. CASE Progress(r)
      BY <3>1, ResultsRespectSessions, ZenonT(60) DEF Progress, Publish
    <3>2. CASE GiveUp(r)
      BY <3>2, ResultsRespectSessions DEF GiveUp, Publish, ledgerVars
    <3>3. CASE Forget(r)
      BY <3>3 DEF Forget, ledgerVars
    <3> QED
      BY <2>4, <3>1, <3>2, <3>3
  <2>5. ASSUME NEW r \in requests, Complete(r)
        PROVE  captions'[i] = captions[i]
    <3>1. r.kind \in {"provisional", "final", "correction"}
      BY DEF LedgerInvByRow, Requests, Request
    <3> QED
      BY <2>5, <3>1, ResultsRespectSessions, ZenonT(60) DEF Complete, Publish
  <2>6. ASSUME NEW r \in requests, NEW text, Correct(r, text)
        PROVE  captions'[i] = captions[i]
    BY <2>6 DEF Correct, ledgerVars
  <2>7. ASSUME NEW g, Discontinuity(g)
        PROVE  captions'[i] = captions[i]
    BY <2>0, <2>7 DEF Discontinuity
  <2>8. ASSUME captions' = Cancelled(captions)
        PROVE  captions'[i] = captions[i]
    BY <2>8 DEF Cancelled, LedgerInvByRow, Rows, Settled
  <2>9. Clear => FALSE
    BY DEF Clear
  <2> QED
    BY <2>3, <2>4, <2>5, <2>6, <2>7, <2>8, <2>9 DEF Next, Start, Cancel
<1>2. LedgerInv => LedgerInvByRow
  BY Regrouped
<1> QED
  BY <1>1, <1>2, LedgerInvariant, PTL DEF Spec, EndedSessionFrozen

-----------------------------------------------------------------------------
(* What a step may make of row i, if the row stays.                        *)

Rewritten(i) ==                                             \* source()
    /\ i = active /\ i # NoId
    /\ captions'[i].stage = "PROVISIONAL" /\ ~captions'[i].corrected
    /\ captions'[i].portion = IF Keeps(i, CurrentSource(captions'[i]))
                              THEN captions[i].portion ELSE NoText

Translated(i) ==                                            \* translatePortion()
    \E portion \in Text, final \in BOOLEAN :
        /\ captions[i].stage \notin Dead
        /\ ~IsBlank(portion)
        /\ captions[i].portion # NoText => SourceStillHasPrefix(portion, captions[i].portion)
        /\ final => captions[i].endpointed /\ portion = captions[i].source
        /\ (IF final THEN 2 ELSE 0) >= captions[i].qualityRank
        /\ captions'[i] = [captions[i] EXCEPT
                             !.portion = portion,
                             !.qualityRank = IF final THEN 2 ELSE 0,
                             !.stage = IF ~final THEN "PROVISIONAL"
                                       ELSE IF captions[i].corrected THEN "REVISED"
                                       ELSE "FINAL"]

Revised(i) ==                                               \* reviseTranslated()
    /\ captions[i].stage \notin Dead
    /\ \E r \in requests : r.key.id = i /\ r.key = captions[i].key
    /\ captions'[i].key.revision = captions[i].key.revision + 1
    /\ captions'[i].stage = "REVISED"
    /\ captions'[i].corrected /\ captions'[i].endpointed
    /\ ~IsBlank(captions'[i].portion)

Ended(i) ==                          \* skip(), discontinuity(), start(), cancel()
    /\ captions[i].stage = "PROVISIONAL" \/ (i = active /\ i # NoId)
    /\ \E stage \in Dead : captions'[i] = [captions[i] EXCEPT !.stage = stage]

LEMMA TranslateStep ==
    ASSUME LedgerInvByRow, NEW r \in requests, NEW final \in BOOLEAN,
           Publish(TranslatePortion(r.key, r.source, IF final THEN 2 ELSE 0, final)),
           NEW i \in DOMAIN captions, captions'[i] # captions[i]
    PROVE  Translated(i)
<1>1. /\ i = r.key.id /\ CanTranslatePortion(r.key, r.source, final)
      /\ (IF final THEN 2 ELSE 0) >= captions[i].qualityRank
      /\ captions'[i] = [captions[i] EXCEPT
                           !.portion = r.source,
                           !.qualityRank = IF final THEN 2 ELSE 0,
                           !.stage = IF ~final THEN "PROVISIONAL"
                                     ELSE IF captions[i].corrected THEN "REVISED"
                                     ELSE "FINAL"]
  BY DEF Publish, TranslatePortion
<1>2. /\ captions[i].stage \notin Dead
      /\ captions[i].portion # NoText => SourceStillHasPrefix(r.source, captions[i].portion)
      /\ final => captions[i].endpointed /\ r.source = captions[i].source
  BY <1>1 DEF CanTranslatePortion
<1>3. r.source \in Text /\ ~IsBlank(r.source)
  BY DEF LedgerInvByRow, Requests, Request
<1> QED
  BY <1>1, <1>2, <1>3, ZenonT(150) DEF Translated

LEMMA ReviseStep ==
    ASSUME LedgerInvByRow, NEW r \in requests,
           Publish(ReviseTranslated(r.key, r.source)),
           NEW i \in DOMAIN captions, captions'[i] # captions[i]
    PROVE  Revised(i)
<1> DEFINE next == [r.key EXCEPT !.revision = r.key.revision + 1]
<1>1. /\ i = r.key.id /\ Current(r.key) /\ captions[i].endpointed
      /\ captions'[i] = [captions[i] EXCEPT
                           !.key = next,
                           !.source = r.source, !.stableSource = r.source,
                           !.portion = r.source, !.qualityRank = 2,
                           !.stage = "REVISED", !.corrected = TRUE]
  BY DEF Publish, ReviseTranslated
<1>2. captions[i].key = r.key /\ captions[i].stage \notin Dead
  BY <1>1 DEF Current
<1>3. r.key \in Key /\ ~IsBlank(r.source) /\ captions[i] \in Caption
  BY DEF LedgerInvByRow, Requests, Request, Rows, RowOK
<1>4. next.revision = captions[i].key.revision + 1
  BY <1>2, <1>3 DEF Key
<1> HIDE DEF next
<1>5. /\ captions'[i].key = next /\ captions'[i].portion = r.source
      /\ captions'[i].stage = "REVISED" /\ captions'[i].corrected
      /\ captions'[i].endpointed = captions[i].endpointed
  BY <1>1, <1>3 DEF Caption
<1> QED
  BY <1>1, <1>2, <1>3, <1>4, <1>5 DEF Revised

(* Every step leaves a row alone, or does one of the four. *)
LEMMA RowStep ==
    ASSUME LedgerInvByRow, Next, NEW i \in DOMAIN captions, i \in DOMAIN captions',
           captions'[i] # captions[i]
    PROVE  Rewritten(i) \/ Translated(i) \/ Revised(i) \/ Ended(i)
<1>1. i \in Nat \ {0} /\ i < nextId /\ captions[i] \in Caption
  BY DEF LedgerInvByRow, Rows, RowOK
<1>2. ASSUME NEW text, NEW stable, NEW endpoint, endpoint => stable = text,
             WriteSource(text, stable, endpoint)
      PROVE  Rewritten(i)
  <2> DEFINE row == SourceRow(OpenId, text, stable, endpoint)
  <2>1. i = OpenId /\ captions'[i] = row
    BY <1>2, OpenRowWritten DEF WriteSource
  <2>2. i = active /\ i # NoId
    BY <1>1, <2>1 DEF OpenId, NoId, LedgerInvByRow, Scalars
  <2>3. /\ row.stage = "PROVISIONAL" /\ ~row.corrected
        /\ row.portion = IF Keeps(OpenId, stable) THEN captions[OpenId].portion ELSE NoText
        /\ CurrentSource(row) = stable
    BY <1>2 DEF SourceRow, CurrentSource
  <2> HIDE DEF row
  <2> QED
    BY <2>1, <2>2, <2>3 DEF Rewritten
<1>3. ASSUME NEW g, NEW text, Partial(g, text)
      PROVE  Rewritten(i)
  <2>1. WriteSource(Trim(text), StableText(Trim(text)), FALSE)
    BY <1>3 DEF Partial, ledgerVars
  <2> QED
    BY <1>2, <2>1
<1>4. ASSUME NEW g, NEW text, Endpoint(g, text)
      PROVE  Rewritten(i)
  <2>1. WriteSource(Trim(text), Trim(text), TRUE)
    BY <1>4 DEF Endpoint
  <2> QED
    BY <1>2, <2>1
<1>5. ASSUME NEW r \in requests, Progress(r)
      PROVE  Translated(i)
  <2>1. Publish(TranslatePortion(r.key, r.source, IF FALSE THEN 2 ELSE 0, FALSE))
    BY <1>5 DEF Progress
  <2> QED
    BY <2>1, TranslateStep
<1>6. ASSUME NEW r \in requests, Complete(r)
      PROVE  Translated(i) \/ Revised(i)
  <2>1. r.kind \in {"provisional", "final", "correction"}
    BY DEF LedgerInvByRow, Requests, Request
  <2>2. CASE r.kind = "provisional"
    <3>1. Publish(TranslatePortion(r.key, r.source, IF FALSE THEN 2 ELSE 0, FALSE))
      BY <1>6, <2>2 DEF Complete
    <3> QED
      BY <3>1, TranslateStep
  <2>3. CASE r.kind = "final"
    <3>1. Publish(TranslatePortion(r.key, r.source, IF TRUE THEN 2 ELSE 0, TRUE))
      BY <1>6, <2>3 DEF Complete
    <3> QED
      BY <3>1, TranslateStep
  <2>4. CASE r.kind = "correction"
    <3>1. Publish(ReviseTranslated(r.key, r.source))
      BY <1>6, <2>4 DEF Complete
    <3> QED
      BY <3>1, ReviseStep
  <2> QED
    BY <2>1, <2>2, <2>3, <2>4
<1>7. ASSUME NEW r \in requests, GiveUp(r)
      PROVE  Ended(i)
  <2>1. captions' = Skip(r.key)
    BY <1>7 DEF GiveUp, Publish
  <2>2. captions[i].stage = "PROVISIONAL"
        /\ captions'[i] = [captions[i] EXCEPT !.stage = "SKIPPED"]
    BY <2>1 DEF Skip
  <2> QED
    BY <2>2 DEF Ended, Dead
<1>8. ASSUME NEW r \in requests, Forget(r) \/ \E text \in Hypotheses : Correct(r, text)
      PROVE  FALSE
  BY <1>8 DEF Forget, Correct, ledgerVars
<1>9. ASSUME NEW g, Discontinuity(g)
      PROVE  Ended(i)
  <2>1. /\ i = active /\ i # NoId
        /\ captions'[i] = [captions[i] EXCEPT !.stage = "SKIPPED"]
    BY <1>9 DEF Discontinuity
  <2> QED
    BY <2>1 DEF Ended, Dead
<1>10. ASSUME captions' = Cancelled(captions)
       PROVE  Ended(i)
  <2>1. captions[i].stage = "PROVISIONAL"
        /\ captions'[i] = [captions[i] EXCEPT !.stage = "CANCELLED"]
    BY <1>10 DEF Cancelled
  <2> QED
    BY <2>1 DEF Ended, Dead
<1>11. Clear => FALSE
  BY DEF Clear
<1> QED
  BY <1>3, <1>4, <1>5, <1>6, <1>7, <1>8, <1>9, <1>10, <1>11 DEF Next, Start, Cancel

(* The fields a translation or the end of a row leaves alone. *)
LEMMA TextOnlyGrows ==
    ASSUME LedgerInvByRow, NEW i \in DOMAIN captions, Translated(i) \/ Ended(i)
    PROVE  /\ captions'[i].key = captions[i].key
           /\ captions'[i].endpointed = captions[i].endpointed
           /\ captions'[i].corrected = captions[i].corrected
           /\ captions'[i].stage = "REVISED" => captions[i].corrected
<1>1. captions[i] \in Caption
  BY DEF LedgerInvByRow, Rows, RowOK
<1>2. CASE Translated(i)
  BY <1>1, <1>2 DEF Translated, Caption
<1>3. CASE Ended(i)
  BY <1>1, <1>3 DEF Ended, Dead, Caption
<1> QED
  BY <1>2, <1>3

(* The requests a step adds are for a row that is not corrected, or take   *)
(* over the key of one that was there.                                     *)
LEMMA NewRequests ==
    ASSUME LedgerInvByRow, CorrectionInv, Next, NEW r \in requests' \ requests
    PROVE  \/ \E q \in requests : r.key = q.key /\ UNCHANGED captions
           \/ /\ OpenId \in DOMAIN captions' /\ r.key = captions'[OpenId].key
              /\ ~captions'[OpenId].corrected
<1>1. ASSUME NEW g, NEW text, Partial(g, text)
      PROVE  /\ OpenId \in DOMAIN captions' /\ r.key = captions'[OpenId].key
             /\ ~captions'[OpenId].corrected
  <2>1. r.key = captions'[OpenId].key
    BY <1>1 DEF Partial, PartialRequest, AskFor
  <2>2. CASE UNCHANGED captions /\ Unchanged(text)
    <3>1. OpenId \in DOMAIN captions /\ OpenId < nextId
      BY <2>2 DEF Unchanged, LedgerInvByRow, Rows
    <3>2. active = OpenId /\ active # NoId
      BY <3>1 DEF LedgerInvByRow, Scalars, OpenId, NoId
    <3>3. ~captions[OpenId].corrected
      BY <3>1, <3>2 DEF LedgerInvByRow, ActiveRowIsOpen, CorrectionInv
    <3> QED
      BY <2>1, <2>2, <3>1, <3>3
  <2>3. CASE WriteSource(Trim(text), StableText(Trim(text)), FALSE)
    <3>1. /\ OpenId \in DOMAIN captions'
          /\ captions'[OpenId] = SourceRow(OpenId, Trim(text), StableText(Trim(text)), FALSE)
      BY <2>3, OpenRowWritten DEF WriteSource
    <3>2. ~captions'[OpenId].corrected
      BY <3>1 DEF SourceRow
    <3> QED
      BY <2>1, <3>1, <3>2
  <2> QED
    BY <1>1, <2>2, <2>3 DEF Partial, ledgerVars
<1>2. ASSUME NEW g, NEW text, Endpoint(g, text)
      PROVE  /\ OpenId \in DOMAIN captions' /\ r.key = captions'[OpenId].key
             /\ ~captions'[OpenId].corrected
  <2>0. WriteSource(Trim(text), Trim(text), TRUE)
    BY <1>2 DEF Endpoint
  <2>1. r.key = captions'[OpenId].key
    <3>1. r = [key |-> captions'[OpenId].key, source |-> Trim(text), kind |-> "final"]
      BY <1>2 DEF Endpoint, AskFor
    <3> QED
      BY <3>1
  <2>2. /\ OpenId \in DOMAIN captions'
        /\ captions'[OpenId] = SourceRow(OpenId, Trim(text), Trim(text), TRUE)
    BY <2>0, OpenRowWritten DEF WriteSource
  <2>3. ~captions'[OpenId].corrected
    BY <2>2 DEF SourceRow
  <2> QED
    BY <2>1, <2>2, <2>3
<1>3. ASSUME NEW q \in requests, NEW text, Correct(q, text)
      PROVE  r.key = q.key /\ UNCHANGED captions
  <2>1. q \in Request /\ r = [q EXCEPT !.kind = "correction", !.source = text]
    BY <1>3 DEF Correct, LedgerInvByRow, Requests
  <2> QED
    BY <1>3, <2>1 DEF Request, Correct, ledgerVars
<1>4. ASSUME NEW q, Progress(q) \/ Complete(q) \/ GiveUp(q) \/ Forget(q)
      PROVE  FALSE
  BY <1>4 DEF Progress, Complete, GiveUp, Forget
<1>5. ASSUME NEW g, Discontinuity(g) \/ Start(g) \/ Cancel \/ Clear
      PROVE  FALSE
  BY <1>5 DEF Discontinuity, Start, Cancel, Clear
<1> QED
  BY <1>1, <1>2, <1>3, <1>4, <1>5 DEF Next

(* A row that a step creates is an open segment. *)
LEMMA NewRows ==
    ASSUME LedgerInvByRow, Next, NEW i \in DOMAIN captions' \ DOMAIN captions
    PROVE  i = nextId /\ ~captions'[i].corrected /\ captions'[i].stage = "PROVISIONAL"
<1>1. ASSUME NEW text, NEW stable, NEW endpoint, WriteSource(text, stable, endpoint)
      PROVE  i = nextId /\ ~captions'[i].corrected /\ captions'[i].stage = "PROVISIONAL"
  <2>1. i = OpenId /\ captions'[i] = SourceRow(OpenId, text, stable, endpoint)
    BY <1>1, OpenRowWritten DEF WriteSource
  <2>2. OpenId = nextId
    BY <2>1 DEF OpenId, LedgerInvByRow, ActiveRowIsOpen
  <2> QED
    BY <2>1, <2>2 DEF SourceRow
<1>2. \/ captions' = captions \/ captions' = Cancelled(captions)
      \/ DOMAIN captions' = DOMAIN captions \/ DOMAIN captions' = {}
      \/ \E text, stable, endpoint : WriteSource(text, stable, endpoint)
  <2>1. ASSUME NEW g, NEW text, Partial(g, text) \/ Endpoint(g, text)
        PROVE  \/ captions' = captions
               \/ \E t, stable, endpoint : WriteSource(t, stable, endpoint)
    BY <2>1 DEF Partial, Endpoint, ledgerVars
  <2>2. ASSUME NEW r \in requests, Progress(r) \/ Complete(r) \/ GiveUp(r)
        PROVE  DOMAIN captions' = DOMAIN captions
    <3>1. r.kind \in {"provisional", "final", "correction"}
      BY DEF LedgerInvByRow, Requests, Request
    <3>2. /\ \A rank, final :
               DOMAIN TranslatePortion(r.key, r.source, rank, final) = DOMAIN captions
          /\ DOMAIN ReviseTranslated(r.key, r.source) = DOMAIN captions
          /\ DOMAIN Skip(r.key) = DOMAIN captions
      BY DEF TranslatePortion, ReviseTranslated, Skip
    <3> QED
      BY <2>2, <3>1, <3>2 DEF Progress, Complete, GiveUp, Publish
  <2>3. ASSUME NEW r, Forget(r) \/ \E text : Correct(r, text)
        PROVE  captions' = captions
    BY <2>3 DEF Forget, Correct, ledgerVars
  <2>4. ASSUME NEW g, Discontinuity(g)
        PROVE  DOMAIN captions' = DOMAIN captions
    BY <2>4 DEF Discontinuity
  <2>5. ASSUME NEW g, Start(g) \/ Cancel
        PROVE  captions' = Cancelled(captions)
    BY <2>5 DEF Start, Cancel
  <2>6. CASE Clear
    BY <2>6 DEF Clear
  <2> QED
    BY <2>1, <2>2, <2>3, <2>4, <2>5, <2>6 DEF Next
<1>3. DOMAIN Cancelled(captions) = DOMAIN captions
  BY DEF Cancelled
<1> QED
  BY <1>1, <1>2, <1>3

(* A row is corrected at most once (reviseTranslated). *)
LEMMA CorrectionInvariant == Spec => []CorrectionInv
<1>1. Init => CorrectionInv
  BY DEF Init, CorrectionInv
<1>2. LedgerInvByRow /\ CorrectionInv /\ LedgerInvByRow' /\ Next => CorrectionInv'
  <2> SUFFICES ASSUME LedgerInvByRow, CorrectionInv, LedgerInvByRow', Next
               PROVE  CorrectionInv'
    OBVIOUS
  <2>1. ASSUME NEW i \in DOMAIN captions'
        PROVE  /\ captions'[i].stage = "REVISED" => captions'[i].corrected
               /\ captions'[i].corrected => captions'[i].endpointed
    <3>1. CASE i \notin DOMAIN captions
      BY <2>1, <3>1, NewRows
    <3>2. CASE i \in DOMAIN captions /\ captions'[i] = captions[i]
      BY <3>2 DEF CorrectionInv
    <3>3. CASE i \in DOMAIN captions /\ captions'[i] # captions[i]
      <4>1. CASE Translated(i) \/ Ended(i)
        BY <3>3, <4>1, TextOnlyGrows DEF CorrectionInv
      <4>2. CASE Rewritten(i) \/ Revised(i)
        BY <4>2 DEF Rewritten, Revised
      <4> QED
        BY <2>1, <3>3, <4>1, <4>2, RowStep
    <3> QED
      BY <3>1, <3>2, <3>3
  <2>2. ASSUME NEW r \in requests, r.key.id \in DOMAIN captions',
               captions'[r.key.id].key = r.key
        PROVE  ~captions'[r.key.id].corrected
    <3> DEFINE i == r.key.id
    <3>1. CASE i \notin DOMAIN captions
      BY <2>2, <3>1, NewRows
    <3>2. CASE i \in DOMAIN captions /\ captions'[i] = captions[i]
      BY <2>2, <3>2 DEF CorrectionInv
    <3>3. CASE i \in DOMAIN captions /\ captions'[i] # captions[i]
      <4>1. CASE Translated(i) \/ Ended(i)
        BY <2>2, <3>3, <4>1, TextOnlyGrows DEF CorrectionInv
      <4>2. CASE Rewritten(i)
        BY <4>2 DEF Rewritten
      <4>3. CASE Revised(i)
        <5>1. /\ r.key.revision <= captions[i].key.revision
              /\ captions[i].key.revision \in Nat
          BY <3>3 DEF LedgerInvByRow, Requests, RequestOK, Rows, RowOK, Caption, Key
        <5> QED
          BY <2>2, <4>3, <5>1 DEF Revised
      <4> QED
        BY <2>2, <3>3, <4>1, <4>2, <4>3, RowStep
    <3> QED
      BY <3>1, <3>2, <3>3
  <2>3. ASSUME NEW r \in requests' \ requests, r.key.id \in DOMAIN captions',
               captions'[r.key.id].key = r.key
        PROVE  ~captions'[r.key.id].corrected
    <3>1. CASE \E q \in requests : r.key = q.key /\ UNCHANGED captions
      BY <2>3, <3>1 DEF CorrectionInv
    <3>2. CASE /\ OpenId \in DOMAIN captions' /\ r.key = captions'[OpenId].key
               /\ ~captions'[OpenId].corrected
      <4>1. captions'[OpenId].key.id = OpenId
        BY <3>2 DEF LedgerInvByRow, Rows, RowOK
      <4> QED
        BY <3>2, <4>1
    <3> QED
      BY <3>1, <3>2, NewRequests
  <2> QED
    BY <2>1, <2>2, <2>3 DEF CorrectionInv
<1>3. CorrectionInv /\ UNCHANGED vars => CorrectionInv'
  BY DEF CorrectionInv, vars, ledgerVars
<1>4. LedgerInv <=> LedgerInvByRow
  BY Regrouped
<1> QED
  BY <1>1, <1>2, <1>3, <1>4, LedgerInvariant, PTL DEF Spec

(***************************************************************************)
(* A final translation is never taken back or replaced by a provisional    *)
(* one, whatever arrives late (translatePortion's qualityRank, source()'s  *)
(* open segment); only a revision may follow it.                           *)
(***************************************************************************)
THEOREM FinalsAreNotTakenBack == Spec => FinishedRowStays
<1> DEFINE A == \A i \in DOMAIN captions \cap DOMAIN captions' :
                   captions[i].stage \in {"FINAL", "REVISED"} =>
                       \/ captions'[i] = captions[i]
                       \/ captions'[i].stage = "REVISED"
<1>1. LedgerInvByRow /\ CorrectionInv /\ [Next]_vars => [A]_vars
  <2> SUFFICES ASSUME LedgerInvByRow, CorrectionInv, Next,
                      NEW i \in DOMAIN captions, i \in DOMAIN captions',
                      captions[i].stage \in {"FINAL", "REVISED"},
                      captions'[i] # captions[i]
               PROVE  captions'[i].stage = "REVISED"
    OBVIOUS
  <2>1. /\ captions[i] \in Caption
        /\ captions[i].qualityRank = 2 /\ captions[i].endpointed
        /\ captions[i].portion = captions[i].source
    BY DEF LedgerInvByRow, Rows, RowOK, Finished
  <2>2. ~(i = active /\ i # NoId)
    BY <2>1 DEF LedgerInvByRow, ActiveRowIsOpen
  <2>3. CASE Translated(i)
    <3>1. PICK portion \in Text, final \in BOOLEAN :
            /\ final => portion = captions[i].source
            /\ (IF final THEN 2 ELSE 0) >= captions[i].qualityRank
            /\ captions'[i] = [captions[i] EXCEPT
                                 !.portion = portion,
                                 !.qualityRank = IF final THEN 2 ELSE 0,
                                 !.stage = IF ~final THEN "PROVISIONAL"
                                           ELSE IF captions[i].corrected THEN "REVISED"
                                           ELSE "FINAL"]
      BY <2>3 DEF Translated
    <3>2. final /\ portion = captions[i].portion
      BY <2>1, <3>1
    <3>3. CASE captions[i].corrected
      BY <2>1, <3>1, <3>2, <3>3 DEF Caption
    <3>4. CASE ~captions[i].corrected
      <4>1. captions[i].stage = "FINAL"
        BY <3>4 DEF CorrectionInv
      <4>2. captions'[i] = captions[i]
        <5>1. captions'[i] = [captions[i] EXCEPT !.portion = captions[i].portion,
                                                 !.qualityRank = captions[i].qualityRank,
                                                 !.stage = captions[i].stage]
          BY <2>1, <3>1, <3>2, <3>4, <4>1
        <5>2. ASSUME NEW row \in Caption
              PROVE  row = [row EXCEPT !.portion = row.portion,
                                       !.qualityRank = row.qualityRank,
                                       !.stage = row.stage]
          BY DEF Caption
        <5> QED
          BY <2>1, <5>1, <5>2
      <4> QED
        BY <4>2
    <3> QED
      BY <3>3, <3>4
  <2>4. CASE Revised(i)
    BY <2>4 DEF Revised
  <2>5. ~Rewritten(i) /\ ~Ended(i)
    BY <2>2 DEF Rewritten, Ended
  <2> QED
    BY <2>3, <2>4, <2>5, RowStep
<1>2. LedgerInv <=> LedgerInvByRow
  BY Regrouped
<1> QED
  BY <1>1, <1>2, LedgerInvariant, CorrectionInvariant, PTL DEF Spec, FinishedRowStays

(***************************************************************************)
(* However late and in whatever order results arrive, the text a           *)
(* translation covers only grows, until an edit drops it or a correction   *)
(* replaces source and translation together (canTranslatePortion).         *)
(***************************************************************************)
THEOREM CoverageGrows == Spec => CoverageNeverRollsBack
<1> DEFINE A == \A i \in DOMAIN captions \cap DOMAIN captions' :
                   /\ captions[i].portion # NoText
                   /\ captions'[i].portion # NoText
                   /\ captions'[i].corrected = captions[i].corrected
                   => IsPrefix(captions[i].portion, captions'[i].portion)
<1>1. LedgerInvByRow /\ CorrectionInv /\ [Next]_vars => [A]_vars
  <2> SUFFICES ASSUME LedgerInvByRow, CorrectionInv, Next,
                      NEW i \in DOMAIN captions, i \in DOMAIN captions',
                      captions[i].portion # NoText, captions'[i].portion # NoText,
                      captions'[i].corrected = captions[i].corrected
               PROVE  IsPrefix(captions[i].portion, captions'[i].portion)
    OBVIOUS
  <2>1. captions[i] \in Caption /\ captions[i].portion \in Text
    BY DEF LedgerInvByRow, Rows, RowOK, Caption
  <2>2. captions'[i].portion = captions[i].portion =>
            IsPrefix(captions[i].portion, captions'[i].portion)
    BY <2>1 DEF IsPrefix, Text
  <2>3. CASE captions'[i] = captions[i] \/ Rewritten(i)
    BY <2>2, <2>3 DEF Rewritten
  <2>4. CASE Ended(i)
    BY <2>1, <2>2, <2>4 DEF Ended, Caption
  <2>5. CASE Translated(i)
    <3>1. SourceStillHasPrefix(captions'[i].portion, captions[i].portion)
      BY <2>1, <2>5 DEF Translated, Caption
    <3> QED
      BY <3>1 DEF SourceStillHasPrefix
  <2>6. CASE Revised(i)
    BY <2>6 DEF Revised, CorrectionInv
  <2> QED
    BY <2>3, <2>4, <2>5, <2>6, RowStep
<1>2. LedgerInv <=> LedgerInvByRow
  BY Regrouped
<1> QED
  BY <1>1, <1>2, LedgerInvariant, CorrectionInvariant, PTL DEF Spec, CoverageNeverRollsBack

(***************************************************************************)
(* A row that was skipped or cancelled and is not the open segment is      *)
(* never revived, and a segment that was evicted or cleared never comes    *)
(* back under its id (nextId only grows, late calls check the stage).      *)
(***************************************************************************)
THEOREM TheDeadStayDead == Spec => DeadStaysDead
<1> DEFINE A == /\ \A i \in DOMAIN captions \cap DOMAIN captions' :
                     captions[i].stage \in Dead /\ i # active => captions'[i] = captions[i]
                /\ \A i \in 1..(nextId - 1) :
                     i \notin DOMAIN captions => i \notin DOMAIN captions'
<1>1. LedgerInvByRow /\ [Next]_vars => [A]_vars
  <2> SUFFICES ASSUME LedgerInvByRow, Next
               PROVE  A
    OBVIOUS
  <2>1. ASSUME NEW i \in DOMAIN captions, i \in DOMAIN captions',
               captions[i].stage \in Dead, i # active
        PROVE  captions'[i] = captions[i]
    <3>1. captions[i].stage # "PROVISIONAL"
      BY <2>1 DEF Dead
    <3>2. ~Rewritten(i) /\ ~Translated(i) /\ ~Revised(i) /\ ~Ended(i)
      BY <2>1, <3>1 DEF Rewritten, Translated, Revised, Ended
    <3> QED
      BY <2>1, <3>2, RowStep
  <2>2. ASSUME NEW i \in 1..(nextId - 1), i \notin DOMAIN captions, i \in DOMAIN captions'
        PROVE  FALSE
    <3>1. i = nextId /\ nextId \in Nat
      BY <2>2, NewRows DEF LedgerInvByRow, Scalars
    <3> QED
      BY <2>2, <3>1
  <2> QED
    BY <2>1, <2>2
<1>2. LedgerInv <=> LedgerInvByRow
  BY Regrouped
<1> QED
  BY <1>1, <1>2, LedgerInvariant, PTL DEF Spec, DeadStaysDead

(* Text that is only appended to, after white space or punctuation, still  *)
(* has the prefixes that it had.                                           *)
LEMMA GrowthKeepsPrefix ==
    ASSUME NEW before \in Text, NEW after \in Text, NEW portion \in Text,
           SourceStillHasPrefix(before, portion), IsPrefix(before, after),
           Len(before) < Len(after),
           after[Len(before) + 1] \in Whitespace \cup PortionPunct
    PROVE  SourceStillHasPrefix(after, portion)
<1> DEFINE p == Len(portion)
           n == Len(before)
           m == Len(after)
<1>1. /\ p \in Nat /\ n \in Nat /\ m \in Nat
      /\ DOMAIN portion = 1..p /\ DOMAIN before = 1..n /\ DOMAIN after = 1..m
  BY DEF Text
<1>2. /\ p <= n /\ \A k \in 1..p : portion[k] = before[k]
      /\ n = p \/ before[p + 1] \in Whitespace \cup PortionPunct
      /\ n <= m /\ \A k \in 1..n : before[k] = after[k]
  BY PrefixByPosition DEF SourceStillHasPrefix
<1> HIDE DEF p, n, m
<1>3. p <= m /\ \A k \in 1..p : portion[k] = after[k]
  BY <1>1, <1>2
<1>4. IsPrefix(portion, after)
  BY <1>3, PrefixByPosition DEF p, m
<1>5. after[p + 1] \in Whitespace \cup PortionPunct
  <2>1. CASE n = p
    BY <2>1 DEF n
  <2>2. CASE n # p
    <3>1. p + 1 \in 1..n
      BY <1>1, <1>2, <2>2
    <3> QED
      BY <1>2, <2>2, <3>1
  <2> QED
    BY <2>1, <2>2
<1> QED
  BY <1>4, <1>5 DEF SourceStillHasPrefix, p

(***************************************************************************)
(* A translation is kept across append-only growth of its source, whether  *)
(* the growth comes from a hypothesis, an endpoint or a correction         *)
(* (source() and sourceStillHasPrefix()).                                  *)
(***************************************************************************)
THEOREM GrowthKeepsTranslation == Spec => AppendOnlyGrowthKeepsTranslation
<1> DEFINE Grows(i) == LET before == CurrentSource(captions[i])
                           after  == CurrentSource(captions'[i])
                       IN  /\ captions[i].portion # NoText
                           /\ IsPrefix(before, after)
                           /\ Len(before) < Len(after)
                           /\ after[Len(before) + 1] \in Whitespace \cup PortionPunct
           A == \A i \in DOMAIN captions \cap DOMAIN captions' :
                   Grows(i) => captions'[i].portion # NoText
<1>1. LedgerInvByRow /\ LedgerInvByRow' /\ [Next]_vars => [A]_vars
  <2> SUFFICES ASSUME LedgerInvByRow, LedgerInvByRow', Next,
                      NEW i \in DOMAIN captions, i \in DOMAIN captions', Grows(i)
               PROVE  captions'[i].portion # NoText
    OBVIOUS
  <2>1. /\ captions[i] \in Caption /\ captions'[i] \in Caption
        /\ captions[i].portion \in Text
        /\ SourceStillHasPrefix(CurrentSource(captions[i]), captions[i].portion)
    BY DEF LedgerInvByRow, Rows, RowOK, Caption
  <2>2. CurrentSource(captions[i]) \in Text /\ CurrentSource(captions'[i]) \in Text
    BY <2>1 DEF CurrentSource, Caption
  <2>3. SourceStillHasPrefix(CurrentSource(captions'[i]), captions[i].portion)
    BY <2>1, <2>2, GrowthKeepsPrefix
  <2>4. IsBlank(NoText)
    BY DEF IsBlank, Ink, NoText
  <2>5. CASE captions'[i] = captions[i]
    BY <2>5
  <2>6. CASE Rewritten(i)
    BY <2>3, <2>6 DEF Rewritten, Keeps
  <2>7. CASE Translated(i)
    BY <2>1, <2>4, <2>7 DEF Translated, Caption
  <2>8. CASE Revised(i)
    BY <2>4, <2>8 DEF Revised
  <2>9. CASE Ended(i)
    BY <2>1, <2>9 DEF Ended, Caption
  <2> QED
    BY <2>5, <2>6, <2>7, <2>8, <2>9, RowStep
<1>2. LedgerInv <=> LedgerInvByRow
  BY Regrouped
<1> QED
  BY <1>1, <1>2, LedgerInvariant, PTL DEF Spec, AppendOnlyGrowthKeepsTranslation

(***************************************************************************)
(* The ledger uses StablePrefix as a caller may: what is proved of the     *)
(* class alone holds in the ledger, whatever happens between two           *)
(* hypotheses.                                                             *)
(***************************************************************************)
THEOREM LedgerUsesStablePrefix == Spec => StableSpec
<1>1. Init => StableInit
  BY DEF Init
<1>2. [Next]_vars => [StableNext]_stableVars
  <2> SUFFICES ASSUME [Next]_vars
               PROVE  StableNext \/ UNCHANGED stableVars
    BY DEF StableNext
  <2>1. ASSUME NEW g, NEW text \in Hypotheses, Partial(g, text)
        PROVE  StableNext \/ UNCHANGED stableVars
    <3>1. Trim(text) \in Text
      BY TrimText, HypothesesAssumption
    <3> QED
      BY <2>1, <3>1 DEF Partial, StableNext
  <2>2. ASSUME NEW g, NEW text, Endpoint(g, text)
        PROVE  StableNext
    BY <2>2 DEF Endpoint, StableNext
  <2>3. ASSUME NEW r, Progress(r) \/ Complete(r) \/ GiveUp(r) \/ Forget(r)
        PROVE  UNCHANGED stableVars
    BY <2>3 DEF Progress, Complete, GiveUp, Forget, Publish
  <2>4. ASSUME NEW r, NEW text, Correct(r, text)
        PROVE  UNCHANGED stableVars
    BY <2>4 DEF Correct
  <2>5. ASSUME NEW g, Discontinuity(g) \/ Start(g)
        PROVE  StableNext
    BY <2>5 DEF Discontinuity, Start, StableNext
  <2>6. CASE Cancel \/ Clear
    BY <2>6 DEF Cancel, Clear, StableNext
  <2>7. CASE UNCHANGED vars
    BY <2>7 DEF vars
  <2> QED
    BY <2>1, <2>2, <2>3, <2>4, <2>5, <2>6, <2>7 DEF Next
<1> QED
  BY <1>1, <1>2, PTL DEF Spec, StableSpec

(***************************************************************************)
(* A row that is over is over for all late work (reset() and the checks of *)
(* key, stage and rank in translatePortion, reviseTranslated and skip).    *)
(***************************************************************************)
THEOREM OverIsOver == Spec => WhatIsOverStays
BY OldWorkIsInert, FinalsAreNotTakenBack, TheDeadStayDead, PTL DEF WhatIsOverStays

(***************************************************************************)
(* Both properties of the stable text, for the ledger.                     *)
(***************************************************************************)
THEOREM LedgerKeepsStableText ==
    Spec => /\ []CommittedHeadsHypothesis
            /\ OnlyAgreedTextIsCommitted
BY LedgerUsesStablePrefix, StableTextIsNoHybrid, CommitsOnlyAgreedText, PTL
=============================================================================
