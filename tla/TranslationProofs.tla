------------------------- MODULE TranslationProofs -------------------------
(***************************************************************************)
(* Two parts of translation.cpp.  The OPUS translator implements           *)
(* Translation, for every vocabulary, every ranking and every number of    *)
(* layers.  What is shown of a translation under way is whole words of     *)
(* well-formed UTF-8, for all pieces that tokens can stand for.            *)
(***************************************************************************)
EXTENDS Opus, TranslationProgress, SequenceTheorems, WellFoundedInduction, TLAPS

(* The past and the token to come are the output one token later. *)
LEMMA OutputFollowsPast ==
    ASSUME NEW T, NEW out \in Seq(T), NEW t
    PROVE  Append(<<Start>> \o out, t) = <<Start>> \o Append(out, t)
<1> DEFINE U == T \cup {Start, t}
           a == <<Start>> \o out
           b == Append(out, t)
           c == <<Start>> \o b
           d == Append(a, t)
<1>1. out \in Seq(U) /\ <<Start>> \in Seq(U) /\ t \in U
  OBVIOUS
<1> HIDE DEF U
<1>2. a \in Seq(U) /\ Len(a) = 1 + Len(out) /\ Len(out) \in Nat
  BY <1>1
<1>3. \A i \in 1..1 + Len(out) : a[i] = IF i <= 1 THEN Start ELSE out[i - 1]
  BY <1>1
<1>4. b \in Seq(U) /\ Len(b) = Len(out) + 1
  BY <1>1
<1>5. \A i \in 1..Len(out) + 1 : b[i] = IF i <= Len(out) THEN out[i] ELSE t
  BY <1>1
<1> HIDE DEF a, b
<1>6. c \in Seq(U) /\ Len(c) = Len(out) + 2
  BY <1>1, <1>4, <1>2
<1>7. \A i \in 1..Len(out) + 2 : c[i] = IF i <= 1 THEN Start ELSE b[i - 1]
  BY <1>1, <1>4, <1>2
<1>8. d \in Seq(U) /\ Len(d) = Len(out) + 2
  BY <1>1, <1>2
<1>9. \A i \in 1..Len(out) + 2 : d[i] = IF i <= 1 + Len(out) THEN a[i] ELSE t
  BY <1>1, <1>2
<1> HIDE DEF c, d
<1>10. ASSUME NEW i \in 1..Len(d) PROVE d[i] = c[i]
  <2>1. i \in 1..Len(out) + 2 /\ (i = 1 \/ i - 1 \in 1..Len(out) + 1)
    BY <1>2, <1>8
  <2>2. CASE i = 1
    BY <1>2, <1>3, <1>7, <1>9, <2>1, <2>2
  <2>3. CASE i > 1 /\ i <= 1 + Len(out)
    <3>1. d[i] = out[i - 1]
      BY <1>2, <1>3, <1>9, <2>1, <2>3
    <3>2. c[i] = b[i - 1] /\ b[i - 1] = out[i - 1]
      BY <1>2, <1>5, <1>7, <2>1, <2>3
    <3> QED
      BY <3>1, <3>2
  <2>4. CASE i = Len(out) + 2
    <3>1. d[i] = t
      BY <1>2, <1>9, <2>1, <2>4
    <3>2. c[i] = b[i - 1] /\ b[i - 1] = t
      BY <1>2, <1>5, <1>7, <2>1, <2>4
    <3> QED
      BY <3>1, <3>2
  <2> QED
    BY <1>2, <2>1, <2>2, <2>3, <2>4
<1>11. d = c
  BY <1>6, <1>8, <1>10, SeqEqual, Zenon
<1> QED
  BY <1>11 DEF a, b, c, d

(* Before the first token. *)
LEMMA FirstPast ==
    /\ <<Start>> \o <<>> = <<Start>>
    /\ \A t : Append(<<Start>>, t) = <<Start>> \o Append(<<>>, t)
<1>1. <<>> \in Seq({Start}) /\ <<Start>> \in Seq({Start})
  OBVIOUS
<1>2. <<Start>> \o <<>> = <<Start>>
  BY <1>1, ConcatEmptySeq, Zenon
<1>3. \A t : Append(<<Start>> \o <<>>, t) = <<Start>> \o Append(<<>>, t)
  BY <1>1, OutputFollowsPast, Zenon
<1> QED
  BY <1>2, <1>3, Zenon

(* There are slots of both kinds. *)
LEMMA BothKindsOfSlots ==
    /\ 0 \in Slots /\ ~IsEncoderSlot(0)
    /\ 2 \in Slots /\ IsEncoderSlot(2)
BY OpusAssumption DEF Slots, IsEncoderSlot

(* Every layer attends to the source of this request and to its output.    *)
LEMMA AttendsToAll ==
    ASSUME OpusInv, pc = "decode"
    PROVE  Attended = Promised(request, output)
<1>1. /\ hidden = Append(request, EndOfText) /\ step = Len(output)
      /\ (cached <=> step > 0) /\ (~cached => token = Start)
      /\ output \in Seq(Token) /\ cached \in BOOLEAN
  BY DEF OpusInv, RoundsAreCounted, TypeOK
<1>2. CASE ~cached
  <2>1. output = <<>>
    BY <1>1, <1>2, EmptySeq
  <2>2. <<token>> = <<Start>> \o output
    BY <1>1, <1>2, <2>1, FirstPast, Zenon
  <2> QED
    BY <1>1, <1>2, <2>2 DEF Attended, Promised
<1>3. CASE cached
  <2>1. \A i \in Slots :
            IF IsEncoderSlot(i) THEN feed[i] = hidden
                                ELSE Append(feed[i], token) = <<Start>> \o output
    BY <1>3 DEF OpusInv, PastIsOutput
  <2> DEFINE text == <<Start>> \o output
             Key(i) == Append(feed[i], token)
  <2>2. /\ \A i \in Slots : IsEncoderSlot(i) => feed[i] = hidden
        /\ \A i \in Slots : ~IsEncoderSlot(i) => Key(i) = text
    BY <2>1
  <2> HIDE DEF text, Key
  <2>3. {feed[i] : i \in {j \in Slots : IsEncoderSlot(j)}} = {hidden}
    BY <2>2, BothKindsOfSlots
  <2>4. {Key(i) : i \in {j \in Slots : ~IsEncoderSlot(j)}} = {text}
    BY <2>2, BothKindsOfSlots
  <2> QED
    BY <1>1, <1>3, <2>3, <2>4 DEF Attended, Promised, Key, text
<1> QED
  BY <1>1, <1>2, <1>3

(* The outputs of the loop are among those ranked. *)
LEMMA OutputIsOutput ==
    ASSUME OpusInv, pc = "decode"
    PROVE  output \in Outputs
<1>1. output \in Seq(Token) /\ Len(output) \in 0..MaxSteps
  BY DEF OpusInv, RoundsAreCounted, TypeOK
<1>2. output \in [1..Len(output) -> Token]
  BY <1>1, LenProperties, ElementOfSeq
<1> QED
  BY <1>1, <1>2 DEF Outputs

(* Padding is never the best, so the best is a piece or the end. *)
LEMMA BestIsPromised ==
    ASSUME OpusInv, pc = "decode"
    PROVE  /\ Best(Attended) \in Continuations(request, output)
           /\ Best(Attended) \in Token \cup {EndOfText}
<1> DEFINE ranked == Ranked(Promised(request, output))
<1>1. Attended = Promised(request, output)
  BY AttendsToAll
<1>2. /\ {ranked[1], ranked[2]} \subseteq Token \cup {EndOfText, Pad}
      /\ ranked[1] # ranked[2]
  BY OutputIsOutput, RankedAssumption DEF OpusInv, TypeOK
<1>3. Best(Attended) = IF ranked[1] = Pad THEN ranked[2] ELSE ranked[1]
  BY <1>1 DEF Best
<1>4. Best(Attended) \in Continuations(request, output)
  BY <1>3 DEF Continuations
<1> HIDE DEF ranked
<1> QED
  BY <1>2, <1>3, <1>4

-----------------------------------------------------------------------------
(* A round adds its token to the past of every decoder slot and leaves the *)
(* cross-attention of the first round where it is.                         *)
LEMMA DecodeKeepsInv ==
    ASSUME OpusInv, Decode
    PROVE  OpusInv'
<1> DEFINE best == Best(Attended)
<1>1. /\ pc = "decode" /\ pc' = "decode" /\ step < MaxSteps /\ best # EndOfText
      /\ token' = best /\ output' = Append(output, best)
      /\ feed' = [i \in Slots |-> Carried(i)] /\ cached' = TRUE /\ step' = step + 1
      /\ UNCHANGED <<request, hidden, returned, cancelled>>
  BY DEF Decode
<1>2. best \in Token
  BY <1>1, BestIsPromised
<1> HIDE DEF best
<1>3. /\ hidden = Append(request, EndOfText) /\ step = Len(output)
      /\ (cached <=> step > 0) /\ (~cached => token = Start)
      /\ output \in Seq(Token) /\ step \in 0..MaxSteps
  BY <1>1 DEF OpusInv, RoundsAreCounted, TypeOK
<1>4. output' \in Seq(Token) /\ Len(output') = Len(output) + 1
  BY <1>1, <1>2, <1>3
<1>5. TypeOK'
  BY <1>1, <1>3, <1>4, OpusAssumption DEF OpusInv, TypeOK
<1>6. RoundsAreCounted'
  BY <1>1, <1>3, <1>4 DEF RoundsAreCounted
<1>7. ASSUME NEW i \in Slots, IsEncoderSlot(i) PROVE feed'[i] = hidden'
  <2>1. CASE step > 0
    BY <1>1, <1>3, <1>7, <2>1 DEF OpusInv, PastIsOutput, Carried
  <2>2. CASE ~(step > 0)
    BY <1>1, <1>3, <1>7, <2>2 DEF Carried, Present
  <2> QED
    BY <2>1, <2>2
<1>8. ASSUME NEW i \in Slots, ~IsEncoderSlot(i) PROVE feed'[i] = <<Start>> \o output
  <2>1. CASE cached
    BY <1>1, <1>8, <2>1 DEF OpusInv, PastIsOutput, Carried, Present
  <2>2. CASE ~cached
    <3>1. output = <<>>
      BY <1>3, <2>2, EmptySeq
    <3>2. feed'[i] = <<Start>>
      BY <1>1, <1>3, <1>8, <2>2 DEF Carried, Present
    <3> QED
      BY <3>1, <3>2, FirstPast, Zenon
  <2> QED
    BY <2>1, <2>2
<1>9. Append(<<Start>> \o output, best) = <<Start>> \o Append(output, best)
  BY <1>3, OutputFollowsPast, Zenon
<1>10. PastIsOutput'
  <2> SUFFICES ASSUME NEW i \in Slots
               PROVE  IF IsEncoderSlot(i) THEN feed'[i] = hidden'
                      ELSE Append(feed'[i], token') = <<Start>> \o output'
    BY DEF PastIsOutput
  <2>1. CASE IsEncoderSlot(i)
    BY <1>7, <2>1
  <2>2. CASE ~IsEncoderSlot(i)
    <3>1. Append(feed'[i], token') = <<Start>> \o output'
      BY <1>1, <1>8, <1>9, <2>2, Zenon
    <3> QED
      BY <2>2, <3>1
  <2> QED
    BY <2>1, <2>2
<1> QED
  BY <1>5, <1>6, <1>10 DEF OpusInv

(* The encoder's state begins a loop without a past. *)
LEMMA EncodeKeepsInv ==
    ASSUME OpusInv, Encode
    PROVE  OpusInv'
<1>1. /\ pc = "encode" /\ pc' = "decode" /\ hidden' = Append(request, EndOfText)
      /\ cached' = FALSE /\ token' = Start /\ step' = 0
      /\ UNCHANGED <<request, output, returned, cancelled>>
  BY DEF Encode
<1>2. output = <<>> /\ Len(output') = 0
  BY <1>1, EmptySeq DEF OpusInv, RoundsAreCounted
<1>3. TypeOK'
  <2>1. step' \in 0..MaxSteps
    BY <1>1, OpusAssumption
  <2> QED
    BY <1>1, <2>1, Zenon DEF OpusInv, TypeOK
<1>4. RoundsAreCounted' /\ PastIsOutput'
  BY <1>1, <1>2 DEF RoundsAreCounted, PastIsOutput
<1> QED
  BY <1>3, <1>4 DEF OpusInv

(* The steps that begin or end a request, and the flag. *)
LEMMA OtherStepsKeepInv ==
    ASSUME OpusInv,
           \/ \E r \in Sources : Translate(r)
           \/ EncodeFails \/ Finish \/ DecodeFails \/ Cancel \/ UNCHANGED vars
    PROVE  OpusInv'
<1>1. CASE \E r \in Sources : Translate(r)
  BY <1>1, EmptySeq
  DEF OpusInv, TypeOK, RoundsAreCounted, PastIsOutput, Translate, loopVars
<1>2. CASE EncodeFails \/ Finish \/ DecodeFails
  BY <1>2
  DEF OpusInv, TypeOK, RoundsAreCounted, PastIsOutput, EncodeFails, Finish, DecodeFails, Throw,
      loopVars
<1>3. CASE Cancel \/ UNCHANGED vars
  <2>1. UNCHANGED <<pc, request, loopVars, output, returned>> /\ cancelled' \in BOOLEAN
    BY <1>3, Zenon DEF OpusInv, TypeOK, Cancel, vars
  <2> QED
    BY <2>1 DEF OpusInv, TypeOK, RoundsAreCounted, PastIsOutput, loopVars
<1> QED
  BY <1>1, <1>2, <1>3

(***************************************************************************)
(* In every round the slots hold the source and the output so far, for     *)
(* every number of layers and of rounds (the feed of Opus::translate).     *)
(***************************************************************************)
THEOREM OpusInvariant == Spec => []OpusInv
<1>1. Init => OpusInv
  <2> SUFFICES ASSUME Init PROVE OpusInv
    OBVIOUS
  <2>1. step \in 0..MaxSteps /\ output \in Seq(Token)
    BY OpusAssumption, EmptySeq DEF Init
  <2>2. TypeOK
    BY <2>1, Zenon DEF Init, TypeOK
  <2> QED
    BY <2>2 DEF Init, OpusInv, RoundsAreCounted, PastIsOutput
<1>2. OpusInv /\ [Next]_vars => OpusInv'
  BY DecodeKeepsInv, EncodeKeepsInv, OtherStepsKeepInv DEF Next, Running
<1> QED
  BY <1>1, <1>2, PTL DEF Spec

-----------------------------------------------------------------------------
(* The refinement, action by action.                                       *)

(* A request begins. *)
LEMMA OpusTranslateIsBegin ==
    ASSUME OpusInv, NEW r \in Sources, Translate(r)
    PROVE  Promise!Begin(r)
<1>1. Phase # "busy" /\ Phase' = "busy"
  BY DEF Translate, Phase, OpusInv, TypeOK
<1> QED
  BY <1>1 DEF Promise!Begin, Translate

(* A piece is the one that may follow the request and the output. *)
LEMMA DecodeIsEmit ==
    ASSUME OpusInv, Decode
    PROVE  \E t \in Token : Promise!Emit(t)
<1>1. pc = "decode" /\ Best(Attended) # EndOfText
  BY DEF Decode
<1>2. Best(Attended) \in Token /\ Best(Attended) \in Continuations(request, output)
  BY <1>1, BestIsPromised
<1>3. Phase = "busy" /\ Phase' = "busy"
  BY DEF Phase, Decode
<1>4. Len(output) < MaxSteps
  BY DEF OpusInv, RoundsAreCounted, Decode
<1>5. ~cancelled /\ output' = Append(output, Best(Attended)) /\ UNCHANGED <<request, cancelled>>
  BY DEF Decode
<1>6. Promise!Emit(Best(Attended))
  BY <1>2, <1>3, <1>4, <1>5 DEF Promise!Emit
<1> QED
  BY <1>2, <1>6

(* A text is delivered where it may end. *)
LEMMA OpusFinishIsDeliver ==
    ASSUME OpusInv, Finish
    PROVE  Promise!Deliver
<1>1. pc = "decode" /\ Best(Attended) = EndOfText
  BY DEF Finish
<1>2. EndOfText \in Continuations(request, output)
  BY <1>1, BestIsPromised
<1>3. Phase = "busy" /\ Phase' = "delivered"
  BY DEF Phase, Finish
<1>4. Len(output) < MaxSteps
  BY DEF OpusInv, RoundsAreCounted, Finish
<1>5. ~cancelled /\ UNCHANGED <<request, output, cancelled>>
  BY DEF Finish
<1> QED
  BY <1>2, <1>3, <1>4, <1>5 DEF Promise!Deliver

(* An exception is a failure. *)
LEMMA ExceptionIsFail ==
    ASSUME OpusInv, EncodeFails \/ DecodeFails
    PROVE  Promise!Fail
<1>1. Phase = "busy" /\ Phase' = "failed"
  BY DEF Phase, EncodeFails, DecodeFails, Throw
<1> QED
  BY <1>1 DEF Promise!Fail, EncodeFails, DecodeFails

(* The encoder cannot be seen, and who cancels changes only the flag. *)
LEMMA EncodeIsHidden ==
    ASSUME OpusInv, Encode \/ Cancel \/ UNCHANGED vars
    PROVE  Promise!Cancel \/ UNCHANGED Promise!vars
<1>1. UNCHANGED Phase
  BY DEF Phase, Encode, Cancel, vars
<1> QED
  BY <1>1 DEF Promise!Cancel, Promise!vars, Encode, Cancel, vars

(***************************************************************************)
(* Opus implements the translator without memory, for every ranking of the *)
(* vocabulary and every number of layers: each token is the best one for   *)
(* the whole source and the whole output, padding is never put out and a   *)
(* text that was cut is not delivered.                                     *)
(***************************************************************************)
THEOREM OpusRefinesTranslation == Spec => OpusImplementsTranslation
<1>1. Init => Promise!Init
  BY DEF Init, Promise!Init, Phase
<1>2. OpusInv /\ [Next]_vars => [Promise!Next]_(Promise!vars)
  <2> SUFFICES ASSUME OpusInv, [Next]_vars PROVE [Promise!Next]_(Promise!vars)
    OBVIOUS
  <2>1. CASE \E r \in Sources : Translate(r)
    BY <2>1, OpusTranslateIsBegin DEF Promise!Next
  <2>2. CASE Decode \/ Finish
    BY <2>2, DecodeIsEmit, OpusFinishIsDeliver DEF Promise!Next
  <2>3. CASE EncodeFails \/ DecodeFails
    BY <2>3, ExceptionIsFail DEF Promise!Next
  <2>4. CASE Encode \/ Cancel \/ UNCHANGED vars
    BY <2>4, EncodeIsHidden DEF Promise!Next
  <2> QED
    BY <2>1, <2>2, <2>3, <2>4 DEF Next, Running
<1> QED
  BY <1>1, <1>2, OpusInvariant, PTL DEF Spec, OpusImplementsTranslation, Promise!Safety

-----------------------------------------------------------------------------
(* Induction over the positions of a text, as facts about sets.            *)

(* A set of naturals has a smallest element. *)
LEMMA Smallest ==
    ASSUME NEW S, S \subseteq Nat, S # {}
    PROVE  \E x \in S : \A y \in S : x <= y
<1> DEFINE R == OpToRel(<, Nat)
<1>1. \A i, j \in Nat : i < j => <<i, j>> \in R
  BY DEF OpToRel
<1>2. IsWellFoundedOn(R, Nat)
  BY NatLessThanWellFounded, Zenon
<1> HIDE DEF R
<1>3. PICK x \in S : \A y \in S : ~(<<y, x>> \in R)
  BY <1>2, WFMin, ZenonT(60)
<1>4. ASSUME NEW y \in S PROVE x <= y
  <2>1. x \in Nat /\ y \in Nat
    OBVIOUS
  <2>2. ~(y < x)
    BY <1>1, <1>3, <2>1, Zenon
  <2> QED
    BY <2>1, <2>2
<1> QED
  BY <1>4

(* What holds at a position whenever it holds at all smaller ones holds at *)
(* all of them.                                                            *)
LEMMA Upward ==
    ASSUME NEW n \in Nat, NEW S,
           \A o \in 0..n : (\A p \in 0..n : p < o => p \in S) => o \in S
    PROVE  0..n \subseteq S
<1> DEFINE T == {o \in 0..n : o \notin S}
<1> SUFFICES ASSUME T # {} PROVE FALSE
  OBVIOUS
<1>1. T \subseteq Nat
  OBVIOUS
<1>2. PICK x \in T : \A y \in T : x <= y
  BY <1>1, Smallest, Zenon
<1>3. \A p \in 0..n : p < x => p \in S
  BY <1>2
<1> QED
  BY <1>2, <1>3

(* And from the end of the text. *)
LEMMA Downward ==
    ASSUME NEW n \in Nat, NEW S,
           \A o \in 0..n : (\A p \in 0..n : p > o => p \in S) => o \in S
    PROVE  0..n \subseteq S
<1> DEFINE T == {k \in 0..n : n - k \in S}
<1>1. ASSUME NEW k \in 0..n, \A j \in 0..n : j < k => j \in T
      PROVE  k \in T
  <2>1. ASSUME NEW p \in 0..n, p > n - k PROVE p \in S
    <3>1. n - p \in 0..n /\ n - p < k /\ n - (n - p) = p
      BY <2>1
    <3>2. n - p \in T
      BY <1>1, <3>1
    <3> QED
      BY <3>1, <3>2
  <2>2. n - k \in 0..n
    OBVIOUS
  <2> QED
    BY <2>1, <2>2
<1> HIDE DEF T
<1>2. 0..n \subseteq T
  BY <1>1, Upward, Zenon
<1>3. ASSUME NEW o \in 0..n PROVE o \in S
  <2>1. n - o \in 0..n /\ n - (n - o) = o
    OBVIOUS
  <2>2. n - o \in T
    BY <1>2, <2>1
  <2> QED
    BY <2>1, <2>2 DEF T
<1> QED
  BY <1>3

(* A set of positions has a largest one, which Max chooses. *)
LEMMA Largest ==
    ASSUME NEW n \in Nat, NEW S, S \subseteq 0..n, S # {}
    PROVE  Max(S) \in S /\ \A y \in S : Max(S) >= y
<1> DEFINE T == {o \in 0..n : o \notin S}
<1>1. PICK x \in S : \A y \in S : x >= y
  <2> SUFFICES ASSUME \A x \in S : \E y \in S : ~(x >= y) PROVE FALSE
    OBVIOUS
  <2>1. ASSUME NEW o \in 0..n, \A p \in 0..n : p > o => p \in T
        PROVE  o \in T
    BY <2>1
  <2> HIDE DEF T
  <2>2. 0..n \subseteq T
    BY <2>1, Downward, Zenon
  <2> QED
    BY <2>2 DEF T
<1> QED
  BY <1>1 DEF Max

-----------------------------------------------------------------------------
(* The scan of a text.                                                     *)

(* Where the loop is after one more round. *)
After(value, offset) ==
    IF offset < Len(value) /\ CharacterAt(value, offset)
    THEN offset + Width(value[offset + 1]) ELSE offset

(* A round goes on by a character, inside the text. *)
LEMMA AfterIsInside ==
    ASSUME NEW value \in Seq(Byte), NEW o \in 0..Len(value)
    PROVE  /\ After(value, o) \in o..Len(value)
           /\ o < Len(value) /\ CharacterAt(value, o) <=> After(value, o) > o
<1>1. CASE o < Len(value) /\ CharacterAt(value, o)
  <2>1. value[o + 1] \in Byte
    BY <1>1, ElementOfSeq, LenProperties
  <2>2. Width(value[o + 1]) \in 0..4
    BY <2>1 DEF Width, Byte
  <2>3. Width(value[o + 1]) > 0 /\ o + Width(value[o + 1]) <= Len(value)
    BY <1>1 DEF CharacterAt
  <2> QED
    BY <1>1, <2>2, <2>3, LenProperties DEF After
<1>2. CASE ~(o < Len(value) /\ CharacterAt(value, o))
  BY <1>2, LenProperties DEF After
<1> QED
  BY <1>1, <1>2

(* A loop that only moves forward ends, wherever it starts. *)
LEMMA LoopEnds ==
    ASSUME NEW n \in Nat, NEW next \in [0..n -> 0..n], \A o \in 0..n : next[o] >= o
    PROVE  \E g : g = [o \in 0..n |-> IF next[o] > o THEN g[next[o]] ELSE o]
<1> DEFINE Ends(k, g) == \A o \in k..n : g[o] = IF next[o] > o THEN g[next[o]] ELSE o
           S == {k \in 0..n : \E g \in [0..n -> 0..n] : Ends(k, g)}
<1>1. ASSUME NEW k \in 0..n, \A p \in 0..n : p > k => p \in S
      PROVE  k \in S
  <2>1. CASE k = n
    <3> DEFINE g == [o \in 0..n |-> o]
    <3>1. g \in [0..n -> 0..n] /\ Ends(k, g)
      BY <2>1
    <3> QED
      BY <3>1
  <2>2. CASE k < n
    <3>1. k + 1 \in S
      <4> HIDE DEF S
      <4> QED
        BY <1>1, <2>2
    <3>2. PICK g \in [0..n -> 0..n] : Ends(k + 1, g)
      BY <3>1, Zenon
    <3> DEFINE h == [g EXCEPT ![k] = IF next[k] > k THEN g[next[k]] ELSE k]
    <3>3. h \in [0..n -> 0..n]
      OBVIOUS
    <3>4. ASSUME NEW o \in k..n PROVE h[o] = IF next[o] > o THEN h[next[o]] ELSE o
      <4>1. CASE o = k
        BY <4>1
      <4>2. CASE o > k
        <5>1. o \in (k + 1)..n /\ o \in 0..n /\ next[o] \in 0..n /\ next[o] > k
          BY <4>2, SMTT(30)
        <5>2. h[o] = g[o] /\ h[next[o]] = g[next[o]]
          BY <5>1
        <5> QED
          BY <3>2, <5>1, <5>2
      <4> QED
        BY <4>1, <4>2
    <3> HIDE DEF h
    <3>5. Ends(k, h)
      BY <3>4
    <3> QED
      BY <3>3, <3>5
  <2> QED
    BY <2>1, <2>2, SMTT(30)
<1>2. 0..n \subseteq S
  <2> HIDE DEF S
  <2> QED
    BY <1>1, Downward, Zenon
<1>3. PICK g \in [0..n -> 0..n] : Ends(0, g)
  <2>1. 0 \in S
    <3> HIDE DEF S
    <3> QED
      BY <1>2
  <2> QED
    BY <2>1, Zenon
<1>4. g = [o \in 0..n |-> IF next[o] > o THEN g[next[o]] ELSE o]
  BY <1>3
<1> QED
  BY <1>4, Zenon

(* The recursion that stands for the loop is what it says. *)
LEMMA ScanUnfolds ==
    ASSUME NEW value \in Seq(Byte)
    PROVE  \A o \in 0..Len(value) :
             /\ After(value, o) > o => ScanEnd(value)[o] = ScanEnd(value)[After(value, o)]
             /\ After(value, o) = o => ScanEnd(value)[o] = o
<1> DEFINE n == Len(value)
           next == [o \in 0..n |-> After(value, o)]
           Body(f) == [offset \in 0..n |->
                IF offset < n /\ CharacterAt(value, offset)
                THEN f[offset + Width(value[offset + 1])] ELSE offset]
<1>1. n \in Nat
  BY LenProperties
<1>2. next \in [0..n -> 0..n] /\ \A o \in 0..n : next[o] >= o
  BY AfterIsInside, LenProperties
<1>3. PICK g : g = [o \in 0..n |-> IF next[o] > o THEN g[next[o]] ELSE o]
  <2> HIDE DEF next, n
  <2> QED
    BY <1>1, <1>2, LoopEnds, Zenon
<1>4. \A f : Body(f) = [o \in 0..n |-> IF next[o] > o THEN f[next[o]] ELSE o]
  <2> TAKE f
  <2>1. ASSUME NEW o \in 0..n
        PROVE  (IF o < n /\ CharacterAt(value, o) THEN f[o + Width(value[o + 1])] ELSE o)
                 = IF next[o] > o THEN f[next[o]] ELSE o
    BY AfterIsInside DEF After
  <2> HIDE DEF next
  <2> QED
    BY <2>1
<1>5. ScanEnd(value) = CHOOSE f : f = Body(f)
  BY DEF ScanEnd
<1> HIDE DEF Body
<1>6. g = Body(g)
  BY <1>3, <1>4, Zenon
<1>7. ScanEnd(value) = Body(ScanEnd(value))
  BY <1>5, <1>6, Zenon
<1>8. ScanEnd(value) = [o \in 0..n |->
          IF next[o] > o THEN ScanEnd(value)[next[o]] ELSE o]
  BY <1>4, <1>7, Zenon
<1>9. ASSUME NEW o \in 0..n
      PROVE  ScanEnd(value)[o] = IF After(value, o) > o THEN ScanEnd(value)[After(value, o)] ELSE o
  BY <1>8, <1>9
<1> QED
  BY <1>1, <1>9, AfterIsInside

(* The scan ends inside the text. *)
LEMMA ScanIsInside ==
    ASSUME NEW value \in Seq(Byte)
    PROVE  \A o \in 0..Len(value) : ScanEnd(value)[o] \in o..Len(value)
<1> DEFINE n == Len(value)
           S == {o \in 0..n : ScanEnd(value)[o] \in o..n}
<1>1. n \in Nat
  BY LenProperties
<1>2. ASSUME NEW o \in 0..n, \A p \in 0..n : p > o => p \in S
      PROVE  o \in S
  <2>1. After(value, o) \in o..n
    BY AfterIsInside
  <2>2. CASE After(value, o) > o
    <3>1. After(value, o) \in 0..n /\ After(value, o) \in S
      BY <1>1, <1>2, <2>1, <2>2
    <3>2. ScanEnd(value)[o] = ScanEnd(value)[After(value, o)]
      BY <2>2, ScanUnfolds
    <3> QED
      BY <1>1, <2>2, <3>1, <3>2
  <2>3. CASE After(value, o) = o
    BY <1>1, <2>3, ScanUnfolds
  <2> HIDE DEF n
  <2> QED
    BY <1>1, <2>1, <2>2, <2>3
<1> HIDE DEF S
<1>3. 0..n \subseteq S
  BY <1>1, <1>2, Downward, Zenon
<1> QED
  BY <1>3 DEF S

(* The leads of each width, and of those the second bytes. *)
LEMMA WidthOfLead ==
    ASSUME NEW a \in Byte
    PROVE  /\ Width(a) \in 0..4
           /\ Width(a) = 1 <=> a \in 0..127
           /\ Width(a) = 2 <=> a \in 192..223 /\ a >= 194
           /\ Width(a) = 3 <=> a \in 224..239
           /\ Width(a) = 4 <=> a \in 240..247 /\ a <= 244
BY DEF Width, Byte

(* What the table of leads and second bytes takes for a character. *)
InTable(c) ==
    /\ Width(c[1]) = Len(c)
    /\ \A i \in 2..Len(c) : c[i] \in 128..191
    /\ Len(c) > 1 => SecondByteFits(c[1], c[2])

(* Two bytes: the shortest form of a scalar value. *)
LEMMA TwoBytes ==
    ASSUME NEW c \in Seq(Byte), Len(c) = 2, c[1] \in Byte
    PROVE  IsEncoding(c) <=> InTable(c)
<1> DEFINE a == c[1]
           b == c[2]
           s == ScalarOf(c)
<1>1. IsEncoding(c) <=> a \in 192..223 /\ b \in 128..191 /\ s >= 128
  BY SMT DEF IsEncoding
<1>2. InTable(c) <=> Width(a) = 2 /\ b \in 128..191 /\ SecondByteFits(a, b)
  BY SMT DEF InTable
<1>3. s = (a % 32) * 64 + (b % 64)
  BY SMT DEF ScalarOf
<1>4. a \in Byte
  OBVIOUS
<1> HIDE DEF a, b, s
<1>5. ASSUME a \in 192..223, b \in 128..191 PROVE s >= 128 <=> a >= 194
  <2>1. a % 32 = a - 192 /\ b % 64 = b - 128
    BY <1>5
  <2>2. s = (a - 192) * 64 + (b - 128)
    BY <1>3, <2>1
  <2> QED
    BY <1>5, <2>2
<1>6. a \in 192..223 => SecondByteFits(a, b)
  BY DEF SecondByteFits
<1>7. Width(a) = 2 <=> a \in 192..223 /\ a >= 194
  BY <1>4, WidthOfLead
<1> QED
  BY <1>1, <1>2, <1>5, <1>6, <1>7

(* Three bytes: neither a longer form nor a surrogate. *)
LEMMA ThreeBytes ==
    ASSUME NEW c \in Seq(Byte), Len(c) = 3, c[1] \in Byte
    PROVE  IsEncoding(c) <=> InTable(c)
<1> DEFINE a == c[1]
           b == c[2]
           d == c[3]
           s == ScalarOf(c)
           fits == (a = 224 => b >= 160) /\ (a = 237 => b < 160)
<1>1. IsEncoding(c) <=> /\ a \in 224..239 /\ b \in 128..191 /\ d \in 128..191
                        /\ s >= 2048 /\ (s < 55296 \/ s > 57343)
  BY SMT DEF IsEncoding
<1>2. InTable(c) <=>
        Width(a) = 3 /\ b \in 128..191 /\ d \in 128..191 /\ SecondByteFits(a, b)
  BY SMT DEF InTable
<1>3. s = (a % 16) * 4096 + (b % 64) * 64 + (d % 64)
  BY SMT DEF ScalarOf
<1>4. a \in Byte
  OBVIOUS
<1> HIDE DEF a, b, d, s
<1>5. ASSUME a \in 224..239, b \in 128..191, d \in 128..191
      PROVE  s >= 2048 /\ (s < 55296 \/ s > 57343) <=> fits
  <2>1. a % 16 = a - 224 /\ b % 64 = b - 128 /\ d % 64 = d - 128
    BY <1>5
  <2>2. s = (a - 224) * 4096 + (b - 128) * 64 + (d - 128)
    BY <1>3, <2>1
  <2> QED
    BY <1>5, <2>2
<1>6. a \in 224..239 => (SecondByteFits(a, b) <=> fits)
  BY DEF SecondByteFits
<1>7. Width(a) = 3 <=> a \in 224..239
  BY <1>4, WidthOfLead
<1> HIDE DEF fits
<1> QED
  BY <1>1, <1>2, <1>5, <1>6, <1>7

(* Four bytes: neither a longer form nor beyond the last plane. *)
LEMMA FourBytes ==
    ASSUME NEW c \in Seq(Byte), Len(c) = 4, c[1] \in Byte
    PROVE  IsEncoding(c) <=> InTable(c)
<1> DEFINE a == c[1]
           b == c[2]
           d == c[3]
           e == c[4]
           s == ScalarOf(c)
           fits == (a = 240 => b >= 144) /\ (a = 244 => b < 144)
<1>1. IsEncoding(c) <=> /\ a \in 240..247 /\ b \in 128..191 /\ d \in 128..191 /\ e \in 128..191
                        /\ s >= 65536 /\ s <= 1114111
  BY SMT DEF IsEncoding
<1>2. InTable(c) <=> /\ Width(a) = 4 /\ b \in 128..191 /\ d \in 128..191 /\ e \in 128..191
                     /\ SecondByteFits(a, b)
  BY SMT DEF InTable
<1>3. s = (a % 8) * 262144 + (b % 64) * 4096 + (d % 64) * 64 + (e % 64)
  BY SMT DEF ScalarOf
<1>4. a \in Byte
  OBVIOUS
<1> HIDE DEF a, b, d, e, s
<1>5. ASSUME a \in 240..247, b \in 128..191, d \in 128..191, e \in 128..191
      PROVE  s >= 65536 /\ s <= 1114111 <=> a <= 244 /\ fits
  <2>1. a % 8 = a - 240 /\ b % 64 = b - 128 /\ d % 64 = d - 128 /\ e % 64 = e - 128
    BY <1>5
  <2>2. s = (a - 240) * 262144 + (b - 128) * 4096 + (d - 128) * 64 + (e - 128)
    BY <1>3, <2>1, SMT
  <2> QED
    BY <1>5, <2>2, SMT
<1>6. a \in 240..247 => (SecondByteFits(a, b) <=> fits)
  BY DEF SecondByteFits
<1>7. Width(a) = 4 <=> a \in 240..247 /\ a <= 244
  BY <1>4, WidthOfLead
<1> HIDE DEF fits
<1> QED
  BY <1>1, <1>2, <1>5, <1>6, <1>7, SMT

(* The table tells the encodings of the scalar values from all other bytes. *)
LEMMA TableIsExact ==
    ASSUME NEW c \in Seq(Byte), Len(c) > 0
    PROVE  IsEncoding(c) <=> InTable(c)
<1>1. Len(c) \in Nat /\ c[1] \in Byte
  BY LenProperties, ElementOfSeq
<1>2. CASE Len(c) = 1
  <2> DEFINE a == c[1]
  <2>1. IsEncoding(c) <=> a \in 0..127
    BY <1>2, SMT DEF IsEncoding
  <2>2. InTable(c) <=> Width(a) = 1
    BY <1>2, SMT DEF InTable
  <2>3. Width(a) = 1 <=> a \in 0..127
    BY <1>1, WidthOfLead
  <2> HIDE DEF a
  <2> QED
    BY <2>1, <2>2, <2>3
<1>3. CASE Len(c) > 4
  <2>1. ~IsEncoding(c)
    BY <1>1, <1>3, SMT DEF IsEncoding
  <2>2. Width(c[1]) \in 0..4
    BY <1>1, WidthOfLead
  <2>3. ~InTable(c)
    BY <1>1, <1>3, <2>2, SMT DEF InTable
  <2> QED
    BY <2>1, <2>3
<1>4. Len(c) = 1 \/ Len(c) = 2 \/ Len(c) = 3 \/ Len(c) = 4 \/ Len(c) > 4
  <2> DEFINE n == Len(c)
  <2>1. n \in Nat /\ n > 0
    BY <1>1
  <2> HIDE DEF n
  <2>2. n = 1 \/ n = 2 \/ n = 3 \/ n = 4 \/ n > 4
    BY <2>1
  <2> QED
    BY <2>2 DEF n
<1> QED
  BY <1>1, <1>2, <1>3, <1>4, TwoBytes, ThreeBytes, FourBytes

-----------------------------------------------------------------------------
(* The rounds of the loop cut a text into encodings.                       *)

(* A part of a text. *)
LEMMA PartOfText ==
    ASSUME NEW value \in Seq(Byte), NEW i \in Nat, NEW j \in Nat, i <= j, j <= Len(value)
    PROVE  /\ SubSeq(value, i + 1, j) \in Seq(Byte)
           /\ Len(SubSeq(value, i + 1, j)) = j - i
           /\ \A k \in 1..j - i : SubSeq(value, i + 1, j)[k] = value[i + k]
<1>1. /\ Len(value) \in Nat
      /\ \A k \in 1..Len(value) : value[k] \in Byte
  BY LenProperties, ElementOfSeq
<1>2. i + 1 \in Int /\ j \in Int /\ \A k \in (i + 1)..j : value[k] \in Byte
  BY <1>1
<1>3. /\ SubSeq(value, i + 1, j) \in Seq(Byte)
      /\ Len(SubSeq(value, i + 1, j)) = IF i + 1 <= j THEN j - (i + 1) + 1 ELSE 0
      /\ \A k \in 1..j - (i + 1) + 1 : SubSeq(value, i + 1, j)[k] = value[(i + 1) + k - 1]
  BY <1>2, SubSeqProperties
<1> QED
  BY <1>3

(* A round goes over one encoding. *)
LEMMA RoundIsEncoding ==
    ASSUME NEW value \in Seq(Byte), NEW i \in Nat, NEW j \in Nat, i < j, j <= Len(value)
    PROVE  IsEncoding(SubSeq(value, i + 1, j)) <=> After(value, i) = j
<1> DEFINE c == SubSeq(value, i + 1, j)
           w == Width(value[i + 1])
<1>1. /\ c \in Seq(Byte) /\ Len(c) = j - i
      /\ \A k \in 1..j - i : c[k] = value[i + k]
  BY PartOfText
<1>2. Len(value) \in Nat /\ value[i + 1] \in Byte /\ w \in 0..4
  <2>1. Len(value) \in Nat /\ value[i + 1] \in Byte
    BY LenProperties, ElementOfSeq
  <2> QED
    BY <2>1, WidthOfLead
<1> HIDE DEF c
<1>3. c[1] = value[i + 1] /\ (j - i > 1 => c[2] = value[i + 2])
  <2>1. 1 \in 1..j - i /\ (j - i > 1 => 2 \in 1..j - i)
    OBVIOUS
  <2> QED
    BY <1>1, <2>1, Zenon
<1>4. IsEncoding(c) <=> InTable(c)
  BY <1>1, TableIsExact
<1>5. (\A k \in 2..Len(c) : c[k] \in 128..191) <=> \A k \in 2..j - i : value[i + k] \in 128..191
  <2>1. \A k \in 2..j - i : k \in 1..j - i
    OBVIOUS
  <2> QED
    BY <1>1, <2>1, ZenonT(60)
<1>6. InTable(c) <=> /\ w = j - i
                     /\ \A k \in 2..j - i : value[i + k] \in 128..191
                     /\ j - i > 1 => SecondByteFits(value[i + 1], value[i + 2])
  BY <1>1, <1>3, <1>5, ZenonT(60) DEF InTable
<1>7. After(value, i) = j <=> w = j - i /\ CharacterAt(value, i)
  BY <1>2, SMTT(30) DEF After
<1>8. ASSUME w = j - i
      PROVE  CharacterAt(value, i) <=>
               /\ \A k \in 2..j - i : value[i + k] \in 128..191
               /\ j - i > 1 => SecondByteFits(value[i + 1], value[i + 2])
  <2>1. CharacterAt(value, i) <=> /\ w > 0 /\ i + w <= Len(value)
                                  /\ \A k \in 2..w : value[i + k] \in 128..191
                                  /\ w > 1 => SecondByteFits(value[i + 1], value[i + 2])
    BY DEF CharacterAt
  <2> HIDE DEF w
  <2>2. w > 0 /\ i + w <= Len(value)
    BY <1>2, <1>8
  <2> QED
    BY <1>8, <2>1, <2>2
<1> QED
  BY <1>4, <1>6, <1>7, <1>8 DEF c

(* Positions between which the rounds of the loop go. *)
IsCut(value, from, to, cuts) ==
    /\ cuts \subseteq from..to /\ from \in cuts /\ to \in cuts
    /\ \A i, j \in cuts :
         i < j /\ ~(\E k \in cuts : i < k /\ k < j) => After(value, i) = j

(* The reference in terms of rounds. *)
LEMMA WellFormedIsCut ==
    ASSUME NEW value \in Seq(Byte), NEW m \in Nat, m <= Len(value)
    PROVE  WellFormed(SubSeq(value, 1, m)) <=> \E cuts : IsCut(value, 0, m, cuts)
<1> DEFINE t == SubSeq(value, 1, m)
<1>1. /\ t \in Seq(Byte) /\ Len(t) = m
      /\ \A k \in 1..m : t[k] = value[k]
  <2>1. 0 \in Nat /\ 0 <= m /\ 0 + 1 = 1 /\ m - 0 = m
    OBVIOUS
  <2>2. /\ SubSeq(value, 0 + 1, m) \in Seq(Byte)
        /\ Len(SubSeq(value, 0 + 1, m)) = m - 0
        /\ \A k \in 1..m - 0 : SubSeq(value, 0 + 1, m)[k] = value[0 + k]
    BY <2>1, PartOfText
  <2> QED
    BY <2>2
<1> HIDE DEF t
<1>2. ASSUME NEW i \in 0..m, NEW j \in 0..m, i < j
      PROVE  IsEncoding(SubSeq(t, i + 1, j)) <=> After(value, i) = j
  <2> DEFINE c == SubSeq(t, i + 1, j)
             d == SubSeq(value, i + 1, j)
  <2>0. i \in Nat /\ j \in Nat /\ i <= j /\ j <= Len(t) /\ j <= Len(value)
    BY <1>1, <1>2, LenProperties
  <2>1. /\ c \in Seq(Byte) /\ Len(c) = j - i
        /\ \A k \in 1..j - i : c[k] = t[i + k]
    BY <1>1, <2>0, PartOfText
  <2>2. /\ d \in Seq(Byte) /\ Len(d) = j - i
        /\ \A k \in 1..j - i : d[k] = value[i + k]
    BY <2>0, PartOfText
  <2> HIDE DEF c, d
  <2>3. ASSUME NEW k \in 1..j - i PROVE c[k] = d[k]
    <3>1. i + k \in 1..m
      BY <2>0
    <3>2. t[i + k] = value[i + k]
      BY <1>1, <3>1
    <3> QED
      BY <2>1, <2>2, <3>2
  <2>4. \A k \in 1..Len(c) : c[k] = d[k]
    BY <2>1, <2>3
  <2>5. c = d
    BY <2>1, <2>2, <2>4, SeqEqual, Zenon
  <2>6. IsEncoding(d) <=> After(value, i) = j
    BY <1>2, <2>0, RoundIsEncoding DEF d
  <2> QED
    BY <2>5, <2>6 DEF c
<1>3. ASSUME NEW cuts, cuts \subseteq 0..m
      PROVE  (\A i, j \in cuts : i < j /\ ~(\E k \in cuts : i < k /\ k < j)
                 => IsEncoding(SubSeq(t, i + 1, j)))
             <=> \A i, j \in cuts : i < j /\ ~(\E k \in cuts : i < k /\ k < j)
                 => After(value, i) = j
  <2>1. \A i, j \in cuts : i \in 0..m /\ j \in 0..m
    BY <1>3, Zenon
  <2>2. \A i, j \in cuts : i < j => (IsEncoding(SubSeq(t, i + 1, j)) <=> After(value, i) = j)
    BY <1>2, <2>1, Zenon
  <2> QED
    BY <2>2, Zenon
<1>4. WellFormed(t) <=> \E cuts \in SUBSET (0..m) :
          /\ {0, m} \subseteq cuts
          /\ \A i, j \in cuts : i < j /\ ~(\E k \in cuts : i < k /\ k < j)
               => IsEncoding(SubSeq(t, i + 1, j))
  BY <1>1, Zenon DEF WellFormed
<1>5. ASSUME WellFormed(t) PROVE \E cuts : IsCut(value, 0, m, cuts)
  <2>1. PICK cuts \in SUBSET (0..m) :
          /\ {0, m} \subseteq cuts
          /\ \A i, j \in cuts : i < j /\ ~(\E k \in cuts : i < k /\ k < j)
               => IsEncoding(SubSeq(t, i + 1, j))
    BY <1>4, <1>5, Zenon
  <2>2. IsCut(value, 0, m, cuts)
    BY <1>3, <2>1, Zenon DEF IsCut
  <2> QED
    BY <2>2
<1>6. ASSUME NEW cuts, IsCut(value, 0, m, cuts) PROVE WellFormed(t)
  <2>1. /\ cuts \in SUBSET (0..m) /\ {0, m} \subseteq cuts
        /\ \A i, j \in cuts : i < j /\ ~(\E k \in cuts : i < k /\ k < j)
             => IsEncoding(SubSeq(t, i + 1, j))
    BY <1>3, <1>6, Zenon DEF IsCut
  <2> QED
    BY <1>4, <2>1, Zenon
<1> QED
  BY <1>5, <1>6, Zenon DEF t

(* The loop itself cuts what it goes over. *)
LEMMA ScanIsCut ==
    ASSUME NEW value \in Seq(Byte)
    PROVE  \A o \in 0..Len(value) : \E cuts : IsCut(value, o, ScanEnd(value)[o], cuts)
<1> DEFINE n == Len(value)
           S == {o \in 0..n : \E cuts : IsCut(value, o, ScanEnd(value)[o], cuts)}
<1>1. n \in Nat
  BY LenProperties
<1>2. ASSUME NEW o \in 0..n, \A p \in 0..n : p > o => p \in S
      PROVE  o \in S
  <2>1. After(value, o) \in o..n
    BY AfterIsInside
  <2>2. CASE After(value, o) = o
    <3>1. ScanEnd(value)[o] = o
      BY <2>2, ScanUnfolds
    <3>2. IsCut(value, o, o, {o})
      BY DEF IsCut
    <3> QED
      BY <3>1, <3>2
  <2>3. CASE After(value, o) > o
    <3> DEFINE p == After(value, o)
               end == ScanEnd(value)[p]
    <3>1. p \in 0..n /\ p \in S /\ p > o
      <4>1. p \in 0..n /\ p > o
        BY <1>1, <2>1, <2>3
      <4> HIDE DEF S, p
      <4> QED
        BY <1>2, <4>1
    <3>2. ScanEnd(value)[o] = end
      BY <2>3, ScanUnfolds
    <3>3. end \in p..n
      BY <3>1, ScanIsInside
    <3>4. PICK cuts : IsCut(value, p, end, cuts)
      BY <3>1, Zenon
    <3>5. After(value, o) = p
      OBVIOUS
    <3> DEFINE more == {o} \cup cuts
    <3> HIDE DEF p, end, S, n
    <3>6. /\ cuts \subseteq p..end /\ p \in cuts /\ end \in cuts
          /\ \A i, j \in cuts : i < j /\ ~(\E k \in cuts : i < k /\ k < j) => After(value, i) = j
      BY <3>4 DEF IsCut
    <3>7. more \subseteq o..end /\ o \in more /\ end \in more
      BY <1>1, <3>1, <3>3, <3>6
    <3>8. ASSUME NEW i \in more, NEW j \in more, i < j, ~(\E k \in more : i < k /\ k < j)
          PROVE  After(value, i) = j
      <4>1. CASE i = o
        <5>1. j \in cuts /\ p \in more /\ j \in p..end
          BY <3>1, <3>6, <3>8, <4>1
        <5>2. j = p
          BY <1>1, <3>1, <3>3, <3>8, <4>1, <5>1
        <5> QED
          BY <3>5, <4>1, <5>2
      <4>2. CASE i \in cuts
        <5>1. i \in p..end
          BY <3>6, <4>2
        <5>2. j \in cuts
          BY <1>1, <3>1, <3>3, <3>8, <5>1
        <5> QED
          BY <3>6, <3>8, <4>2, <5>2
      <4> QED
        BY <4>1, <4>2
    <3> HIDE DEF more
    <3>9. IsCut(value, o, end, more)
      BY <3>7, <3>8 DEF IsCut
    <3> QED
      BY <3>2, <3>9 DEF S
  <2> HIDE DEF S, n
  <2> QED
    BY <1>1, <2>1, <2>2, <2>3
<1> HIDE DEF S
<1>3. 0..n \subseteq S
  BY <1>1, <1>2, Downward, Zenon
<1> QED
  BY <1>3 DEF S

(* However a text was cut, the loop passes all the cuts. *)
LEMMA CutIsScanned ==
    ASSUME NEW value \in Seq(Byte), NEW m \in Nat, m <= Len(value),
           NEW cuts, IsCut(value, 0, m, cuts)
    PROVE  m <= ScanEnd(value)[0]
<1> DEFINE f == ScanEnd(value)
           S == {i \in 0..m : i \in cuts => f[i] = f[0]}
<1>1. /\ cuts \subseteq 0..m /\ 0 \in cuts /\ m \in cuts
      /\ \A i, j \in cuts : i < j /\ ~(\E k \in cuts : i < k /\ k < j) => After(value, i) = j
  BY DEF IsCut
<1>2. ASSUME NEW i \in 0..m, \A p \in 0..m : p < i => p \in S
      PROVE  i \in S
  <2> SUFFICES ASSUME i \in cuts, i # 0 PROVE f[i] = f[0]
    OBVIOUS
  <2> DEFINE T == {c \in cuts : c < i}
             k == Max(T)
  <2>1. T \subseteq 0..m /\ T # {}
    <3>1. 0 \in T
      BY <1>1
    <3> QED
      BY <1>1, <3>1
  <2> HIDE DEF T
  <2>2. k \in T /\ \A y \in T : k >= y
    BY <2>1, Largest
  <2> HIDE DEF k
  <2>3. k \in cuts /\ k < i /\ k \in 0..m
    BY <2>1, <2>2 DEF T
  <2>4. ~(\E c \in cuts : k < c /\ c < i)
    <3> SUFFICES ASSUME NEW c \in cuts, k < c, c < i PROVE FALSE
      OBVIOUS
    <3>1. c \in T /\ c \in 0..m
      BY <1>1 DEF T
    <3>2. k >= c
      BY <2>2, <3>1
    <3> QED
      BY <2>3, <3>1, <3>2
  <2>5. After(value, k) = i
    BY <1>1, <2>3, <2>4
  <2>6. k \in 0..Len(value) /\ After(value, k) > k
    BY <2>3, <2>5, LenProperties
  <2>7. f[k] = f[i]
    BY <2>5, <2>6, ScanUnfolds
  <2>8. f[k] = f[0]
    BY <1>2, <2>3
  <2> QED
    BY <2>7, <2>8
<1>3. 0..m \subseteq S
  <2> HIDE DEF S
  <2> QED
    BY <1>2, Upward, Zenon
<1>4. f[m] = f[0]
  BY <1>1, <1>3
<1>5. m \in 0..Len(value) /\ Len(value) \in Nat
  BY LenProperties
<1>6. f[m] \in m..Len(value)
  BY <1>5, ScanIsInside
<1> HIDE DEF f
<1>7. m <= f[0]
  BY <1>4, <1>5, <1>6
<1> QED
  BY <1>7 DEF f

(* The scan finds the longest beginning that is well-formed. *)
LEMMA ScanIsLongest ==
    ASSUME NEW value \in Seq(Byte)
    PROVE  CompleteUtf8Prefix(value) =
             Max({n \in 0..Len(value) : WellFormed(SubSeq(value, 1, n))})
<1> DEFINE N == {n \in 0..Len(value) : WellFormed(SubSeq(value, 1, n))}
           e == ScanEnd(value)[0]
<1>1. Len(value) \in Nat /\ 0 \in 0..Len(value)
  BY LenProperties
<1>2. e \in 0..Len(value)
  BY <1>1, ScanIsInside
<1>3. \E cuts : IsCut(value, 0, e, cuts)
  BY <1>1, ScanIsCut
<1>4. e \in N
  BY <1>1, <1>2, <1>3, WellFormedIsCut
<1>5. ASSUME NEW m \in N PROVE m <= e
  <2>1. m \in Nat /\ m <= Len(value) /\ WellFormed(SubSeq(value, 1, m))
    BY <1>1
  <2>2. PICK cuts : IsCut(value, 0, m, cuts)
    BY <2>1, WellFormedIsCut
  <2> QED
    BY <2>1, <2>2, CutIsScanned
<1>6. N \subseteq 0..Len(value)
  OBVIOUS
<1> HIDE DEF N, e
<1>7. Max(N) \in N /\ \A y \in N : Max(N) >= y
  BY <1>1, <1>4, <1>6, Largest
<1>8. Max(N) \in 0..Len(value) /\ Max(N) >= e /\ Max(N) <= e
  BY <1>4, <1>5, <1>6, <1>7
<1>9. e = Max(N)
  BY <1>1, <1>2, <1>8
<1> QED
  BY <1>9 DEF N, e, CompleteUtf8Prefix

-----------------------------------------------------------------------------
(* What would be shown of a text.                                          *)

(* A byte of one character is at a cut, or the next one is. *)
LEMMA AsciiIsAtCut ==
    ASSUME NEW value \in Seq(Byte), NEW e \in 0..Len(value), NEW cuts, IsCut(value, 0, e, cuts),
           NEW v \in 1..e, value[v] < 128 \/ (v < e /\ value[v + 1] < 128)
    PROVE  v \in cuts
<1> SUFFICES ASSUME v \notin cuts PROVE FALSE
  OBVIOUS
<1> DEFINE T == {c \in cuts : c < v}
           U == {c \in cuts : c > v}
           i == Max(T)
<1>1. /\ cuts \subseteq 0..e /\ 0 \in cuts /\ e \in cuts
      /\ \A x, y \in cuts : x < y /\ ~(\E k \in cuts : x < k /\ k < y) => After(value, x) = y
  BY DEF IsCut
<1>2. Len(value) \in Nat /\ e \in Nat /\ v \in Nat
  BY LenProperties
<1>3. T \subseteq 0..e /\ 0 \in T
  <2>1. T \subseteq cuts /\ 0 < v
    BY <1>2
  <2> QED
    BY <1>1, <2>1
<1>4. U \subseteq Nat /\ e \in U
  <2>1. v # e /\ v <= e
    BY <1>1
  <2>2. U \subseteq cuts /\ e > v
    BY <1>2, <2>1
  <2>3. cuts \subseteq Nat
    BY <1>1, <1>2
  <2> HIDE DEF U
  <2>4. U \subseteq Nat
    BY <2>2, <2>3
  <2> QED
    BY <1>1, <2>2, <2>4 DEF U
<1>5. i \in T /\ \A y \in T : i >= y
  <2> HIDE DEF T
  <2> QED
    BY <1>2, <1>3, Largest
<1> HIDE DEF i
<1>6. PICK j \in U : \A y \in U : j <= y
  <2> HIDE DEF U
  <2> QED
    BY <1>4, Smallest
<1>7. i \in cuts /\ j \in cuts /\ i \in 0..e /\ j \in 0..e /\ i < v /\ v < j
  BY <1>1, <1>5, <1>6
<1>8. ~(\E k \in cuts : i < k /\ k < j)
  <2> SUFFICES ASSUME NEW k \in cuts, i < k, k < j PROVE FALSE
    OBVIOUS
  <2>1. k \in 0..e /\ k # v
    BY <1>1
  <2>2. CASE k < v
    <3>1. i >= k
      BY <1>5, <2>2
    <3> QED
      BY <1>7, <2>1, <3>1
  <2>3. CASE k > v
    <3>1. j <= k
      BY <1>6, <2>3
    <3> QED
      BY <1>7, <2>1, <3>1
  <2> QED
    BY <1>2, <2>1, <2>2, <2>3
<1> HIDE DEF T, U
<1>9. After(value, i) = j
  BY <1>1, <1>2, <1>7, <1>8
<1> DEFINE lead == value[i + 1]
<1>10. i < Len(value) /\ CharacterAt(value, i) /\ i + Width(lead) = j
  BY <1>2, <1>7, <1>9 DEF After
<1>11. /\ \A k \in 2..Width(lead) : value[i + k] \in 128..191
       /\ lead \in Byte /\ Width(lead) \in 0..4
  <2>1. lead \in Byte
    BY <1>2, <1>7, <1>10, ElementOfSeq
  <2>2. \A k \in 2..Width(lead) : value[i + k] \in 128..191
    BY <1>10 DEF CharacterAt
  <2> QED
    BY <2>1, <2>2, WidthOfLead
<1>12. Width(lead) = j - i /\ j - i >= 2
  BY <1>2, <1>7, <1>10, <1>11, SMTT(30)
<1>13. lead >= 192
  <2> HIDE DEF lead
  <2>1. Width(lead) = 2 \/ Width(lead) = 3 \/ Width(lead) = 4
    BY <1>7, <1>11, <1>12
  <2>2. lead \in 192..223 \/ lead \in 224..239 \/ lead \in 240..247
    BY <1>11, <2>1, WidthOfLead
  <2> DEFINE leads == 192..223 \cup 224..239 \cup 240..247
  <2>3. \A a \in leads : a >= 192
    OBVIOUS
  <2>4. lead \in leads
    BY <2>2, ZenonT(60)
  <2> HIDE DEF leads
  <2> QED
    BY <2>3, <2>4
<1>14. CASE value[v] < 128
  <2>1. CASE v = i + 1
    <3>1. lead < 128 /\ lead \in 0..255
      BY <1>11, <1>14, <2>1 DEF Byte
    <3> HIDE DEF lead
    <3> QED
      BY <1>13, <3>1
  <2>2. CASE v # i + 1
    <3>1. v - i \in 2..Width(lead) /\ i + (v - i) = v
      BY <1>2, <1>7, <1>12, <2>2
    <3>2. value[v] \in 128..191
      BY <1>11, <3>1
    <3> DEFINE x == value[v]
    <3>3. x \in 128..191 /\ x < 128
      BY <1>14, <3>2
    <3> HIDE DEF x
    <3> QED
      BY <3>3, SMTT(30)
  <2> QED
    BY <2>1, <2>2
<1>15. CASE v < e /\ value[v + 1] < 128
  <2>1. v + 1 - i \in 2..Width(lead) /\ i + (v + 1 - i) = v + 1
    BY <1>2, <1>7, <1>12
  <2>2. value[v + 1] \in 128..191
    BY <1>11, <2>1
  <2> DEFINE x == value[v + 1]
  <2>3. x \in 128..191 /\ x < 128
    BY <1>15, <2>2
  <2> HIDE DEF x
  <2> QED
    BY <2>3, SMTT(30)
<1> QED
  BY <1>14, <1>15

(* The beginning of a cut text up to one of its cuts. *)
LEMMA BeginningOfCut ==
    ASSUME NEW value, NEW e \in Nat, NEW cuts, IsCut(value, 0, e, cuts), NEW v \in cuts
    PROVE  \E c : IsCut(value, 0, v, c)
<1> DEFINE c == {k \in cuts : k <= v}
<1>1. /\ cuts \subseteq 0..e /\ 0 \in cuts /\ e \in cuts
      /\ \A x, y \in cuts : x < y /\ ~(\E k \in cuts : x < k /\ k < y) => After(value, x) = y
  BY DEF IsCut
<1>2. v \in 0..e
  BY <1>1
<1>3. c \subseteq 0..v /\ 0 \in c /\ v \in c
  <2>1. ASSUME NEW k \in c PROVE k \in 0..v
    <3>1. k \in 0..e /\ k <= v
      BY <1>1
    <3> QED
      BY <1>2, <3>1
  <2>2. 0 \in c /\ v \in c
    BY <1>1, <1>2
  <2> HIDE DEF c
  <2> QED
    BY <2>1, <2>2
<1>4. ASSUME NEW x \in c, NEW y \in c, x < y, ~(\E k \in c : x < k /\ k < y)
      PROVE  After(value, x) = y
  <2>1. x \in cuts /\ y \in cuts /\ y <= v /\ y \in 0..e
    BY <1>1
  <2>2. ~(\E k \in cuts : x < k /\ k < y)
    <3> SUFFICES ASSUME NEW k \in cuts, x < k, k < y PROVE FALSE
      OBVIOUS
    <3>1. k \in 0..e
      BY <1>1
    <3>2. k \in c
      BY <1>2, <2>1, <3>1
    <3> QED
      BY <1>4, <3>2
  <2> QED
    BY <1>1, <1>4, <2>1, <2>2
<1> HIDE DEF c
<1>5. IsCut(value, 0, v, c)
  BY <1>3, <1>4 DEF IsCut
<1> QED
  BY <1>5

(* The end of the last complete word. *)
LEMMA WordBoundary ==
    ASSUME NEW text \in Seq(Byte), NEW e \in 0..Len(text)
    PROVE  LET b == LastCompleteWordBoundary(text, e)
           IN  /\ b \in 0..e
               /\ b > 0 => text[b] \in Space \cup Punctuation
<1> DEFINE N == {0} \cup {i \in 1..e : text[i] \in Space \cup Punctuation}
<1>1. e \in Nat
  BY LenProperties
<1>2. N \subseteq 0..e /\ N # {}
  BY <1>1
<1>3. ASSUME NEW i \in N, i > 0 PROVE text[i] \in Space \cup Punctuation
  BY <1>3
<1> HIDE DEF N
<1>4. Max(N) \in N
  BY <1>1, <1>2, Largest
<1>5. LastCompleteWordBoundary(text, e) = Max(N)
  BY Zenon DEF LastCompleteWordBoundary, N
<1> QED
  BY <1>2, <1>3, <1>4, <1>5

(* The beginning of a text. *)
LEMMA BeginningOfText ==
    ASSUME NEW value \in Seq(Byte), NEW m \in Nat, m <= Len(value)
    PROVE  /\ SubSeq(value, 1, m) \in Seq(Byte)
           /\ Len(SubSeq(value, 1, m)) = m
           /\ \A k \in 1..m : SubSeq(value, 1, m)[k] = value[k]
<1>1. 0 \in Nat /\ 0 <= m /\ 0 + 1 = 1 /\ m - 0 = m
  OBVIOUS
<1>2. /\ SubSeq(value, 0 + 1, m) \in Seq(Byte)
      /\ Len(SubSeq(value, 0 + 1, m)) = m - 0
      /\ \A k \in 1..m - 0 : SubSeq(value, 0 + 1, m)[k] = value[0 + k]
  BY <1>1, PartOfText
<1> QED
  BY <1>2

(* A beginning of a beginning. *)
LEMMA BeginningOfBeginning ==
    ASSUME NEW value \in Seq(Byte), NEW l \in Nat, NEW m \in Nat, l <= m, m <= Len(value)
    PROVE  SubSeq(SubSeq(value, 1, m), 1, l) = SubSeq(value, 1, l)
<1> DEFINE t == SubSeq(value, 1, m)
           a == SubSeq(t, 1, l)
           b == SubSeq(value, 1, l)
<1>1. t \in Seq(Byte) /\ Len(t) = m /\ \A k \in 1..m : t[k] = value[k]
  BY BeginningOfText
<1>2. Len(value) \in Nat /\ l <= Len(value)
  BY LenProperties
<1>3. b \in Seq(Byte) /\ Len(b) = l /\ \A k \in 1..l : b[k] = value[k]
  BY <1>2, BeginningOfText
<1> HIDE DEF t, b
<1>4. a \in Seq(Byte) /\ Len(a) = l /\ \A k \in 1..l : a[k] = t[k]
  BY <1>1, BeginningOfText
<1> HIDE DEF a
<1>5. \A k \in 1..Len(a) : a[k] = b[k]
  <2> TAKE k \in 1..Len(a)
  <2>1. k \in 1..l /\ k \in 1..m
    BY <1>4
  <2> QED
    BY <1>1, <1>3, <1>4, <2>1
<1>6. a = b
  BY <1>3, <1>4, <1>5, SeqEqual, Zenon
<1> QED
  BY <1>6 DEF a, b, t

(* Trailing white space is dropped. *)
LEMMA Trimmed ==
    ASSUME NEW text \in Seq(Byte)
    PROVE  \E v \in 0..Len(text) :
             /\ TrimProgress(text) = SubSeq(text, 1, v)
             /\ v > 0 => text[v] \notin Space
             /\ \A i \in v + 1..Len(text) : text[i] \in Space
<1> DEFINE N == {0} \cup {i \in 1..Len(text) : text[i] \notin Space}
<1>1. Len(text) \in Nat
  BY LenProperties
<1>2. N \subseteq 0..Len(text) /\ N # {}
  BY <1>1
<1>3. ASSUME NEW i \in N, i > 0 PROVE text[i] \notin Space
  BY <1>3
<1>4. ASSUME NEW i \in 1..Len(text), i \notin N PROVE text[i] \in Space
  BY <1>4
<1>5. TrimProgress(text) = SubSeq(text, 1, Max(N))
  BY Zenon DEF TrimProgress
<1> HIDE DEF N
<1>6. Max(N) \in N /\ \A y \in N : Max(N) >= y
  BY <1>1, <1>2, Largest
<1>7. Max(N) \in 0..Len(text) /\ (Max(N) > 0 => text[Max(N)] \notin Space)
  BY <1>2, <1>3, <1>6
<1>8. ASSUME NEW i \in Max(N) + 1..Len(text) PROVE text[i] \in Space
  <2>1. i \in 1..Len(text) /\ i > Max(N)
    BY <1>1, <1>7
  <2>2. i \notin N
    BY <1>2, <1>6, <1>7, <2>1
  <2> QED
    BY <1>4, <2>1, <2>2
<1> QED
  BY <1>5, <1>7, <1>8

(* What would be shown ends a word and breaks no character. *)
LEMMA VisibleIsWholeWords ==
    ASSUME NEW text \in Seq(Byte)
    PROVE  \E v \in 0..Len(text) :
             /\ Visible(text) = SubSeq(text, 1, v)
             /\ v > 0 => /\ WellFormed(SubSeq(text, 1, v))
                         /\ text[v] \notin Space
                         /\ \/ text[v] \in Punctuation
                            \/ v < Len(text) /\ text[v + 1] \in Space
<1> DEFINE e == CompleteUtf8Prefix(text)
           b == LastCompleteWordBoundary(text, e)
           t == SubSeq(text, 1, b)
<1>1. Len(text) \in Nat /\ 0 \in 0..Len(text)
  BY LenProperties
<1>2. e \in 0..Len(text)
  BY <1>1, ScanIsInside DEF CompleteUtf8Prefix
<1>3. PICK cuts : IsCut(text, 0, e, cuts)
  BY <1>1, ScanIsCut DEF CompleteUtf8Prefix
<1> HIDE DEF e
<1>4. b \in 0..e /\ (b > 0 => text[b] \in Space \cup Punctuation)
  BY <1>2, WordBoundary
<1>5. Visible(text) = TrimProgress(t)
  BY DEF Visible, e, b, t
<1> HIDE DEF b
<1>6. b \in Nat /\ b <= Len(text)
  BY <1>1, <1>2, <1>4
<1>7. t \in Seq(Byte) /\ Len(t) = b /\ \A k \in 1..b : t[k] = text[k]
  BY <1>6, BeginningOfText
<1>8. PICK v \in 0..b : /\ TrimProgress(t) = SubSeq(t, 1, v)
                        /\ v > 0 => t[v] \notin Space
                        /\ \A i \in v + 1..b : t[i] \in Space
  BY <1>7, Trimmed
<1>9. SubSeq(t, 1, v) = SubSeq(text, 1, v)
  BY <1>6, BeginningOfBeginning
<1> HIDE DEF t
<1>10. v \in 0..Len(text) /\ v \in Nat /\ v <= Len(text)
  BY <1>6
<1>11. ASSUME v > 0
       PROVE  /\ text[v] \notin Space
              /\ text[v] \in Punctuation \/ (v < b /\ text[v + 1] \in Space)
  <2>1. text[v] \notin Space
    BY <1>6, <1>7, <1>8, <1>11
  <2>2. CASE v = b
    BY <1>4, <1>11, <2>1, <2>2
  <2>3. CASE v < b
    <3>1. v + 1 \in v + 1..b /\ v + 1 \in 1..b
      BY <1>6, <2>3
    <3> QED
      BY <1>7, <1>8, <2>1, <2>3, <3>1
  <2> QED
    BY <1>6, <2>1, <2>2, <2>3
<1>12. ASSUME v > 0 PROVE WellFormed(SubSeq(text, 1, v))
  <2>1. v \in 1..e /\ (v < b => v < e)
    BY <1>1, <1>2, <1>4, <1>12
  <2>2. text[v] < 128 \/ (v < e /\ text[v + 1] < 128)
    BY <1>11, <1>12, <2>1, SMTT(30) DEF Space, Punctuation
  <2>3. v \in cuts
    BY <1>2, <1>3, <2>1, <2>2, AsciiIsAtCut
  <2>4. \E c : IsCut(text, 0, v, c)
    BY <1>1, <1>2, <1>3, <2>3, BeginningOfCut
  <2> QED
    BY <1>10, <2>4, WellFormedIsCut
<1>13. v < b => v < Len(text)
  BY <1>6
<1> QED
  BY <1>5, <1>8, <1>9, <1>10, <1>11, <1>12, <1>13

-----------------------------------------------------------------------------
(* The invariant of the specification.                                     *)

(* What ShownIsWholeWords says of one text that was shown. *)
WholeWords(visible, text) ==
    /\ visible # <<>> /\ IsPrefixOf(visible, text) /\ WellFormed(visible)
    /\ visible[Len(visible)] \notin Space
    /\ \/ visible[Len(visible)] \in Punctuation
       \/ Len(visible) < Len(text) /\ text[Len(visible) + 1] \in Space

(* A text to which a piece is appended keeps what it has. *)
LEMMA PieceAppended ==
    ASSUME NEW text \in Seq(Byte), NEW piece \in Seq(Byte)
    PROVE  /\ text \o piece \in Seq(Byte)
           /\ Len(text) \in Nat /\ Len(text \o piece) \in Nat /\ Len(text) <= Len(text \o piece)
           /\ \A k \in 1..Len(text) : (text \o piece)[k] = text[k]
<1>1. /\ text \o piece \in Seq(Byte) /\ Len(text \o piece) = Len(text) + Len(piece)
      /\ \A i \in 1..Len(text) + Len(piece) :
           (text \o piece)[i] = IF i <= Len(text) THEN text[i] ELSE piece[i - Len(text)]
  BY ConcatProperties, Zenon
<1>2. Len(text) \in Nat /\ Len(piece) \in Nat
  BY LenProperties
<1> DEFINE more == text \o piece
<1> HIDE DEF more
<1>3. ASSUME NEW k \in 1..Len(text) PROVE more[k] = text[k]
  <2>1. k \in 1..Len(text) + Len(piece) /\ k <= Len(text)
    BY <1>2
  <2> QED
    BY <1>1, <2>1 DEF more
<1>4. more \in Seq(Byte) /\ Len(more) \in Nat /\ Len(text) <= Len(more)
  BY <1>1, <1>2 DEF more
<1> QED
  BY <1>2, <1>3, <1>4 DEF more

(* A prefix, position by position. *)
LEMMA PrefixPositions ==
    ASSUME NEW s \in Seq(Byte), NEW t \in Seq(Byte)
    PROVE  IsPrefixOf(s, t) <=> Len(s) <= Len(t) /\ \A k \in 1..Len(s) : s[k] = t[k]
<1>1. Len(s) \in Nat /\ Len(t) \in Nat
  BY LenProperties
<1>2. ASSUME Len(s) <= Len(t)
      PROVE  s = SubSeq(t, 1, Len(s)) <=> \A k \in 1..Len(s) : s[k] = t[k]
  <2> DEFINE u == SubSeq(t, 1, Len(s))
  <2>1. u \in Seq(Byte) /\ Len(u) = Len(s) /\ \A k \in 1..Len(s) : u[k] = t[k]
    BY <1>1, <1>2, BeginningOfText
  <2> HIDE DEF u
  <2>2. ASSUME \A k \in 1..Len(s) : s[k] = t[k] PROVE s = u
    <3>1. \A k \in 1..Len(s) : s[k] = u[k]
      BY <2>1, <2>2
    <3> QED
      BY <2>1, <3>1, SeqEqual, Zenon
  <2>3. s = u <=> \A k \in 1..Len(s) : s[k] = t[k]
    BY <2>1, <2>2
  <2> QED
    BY <2>3 DEF u
<1> QED
  BY <1>2 DEF IsPrefixOf

(* What was shown stays true of a text that goes on. *)
LEMMA ShownStays ==
    ASSUME NEW text \in Seq(Byte), NEW piece \in Seq(Byte), NEW visible \in Seq(Byte),
           WholeWords(visible, text)
    PROVE  WholeWords(visible, text \o piece)
<1> DEFINE more == text \o piece
<1>1. /\ more \in Seq(Byte)
      /\ Len(text) \in Nat /\ Len(more) \in Nat /\ Len(text) <= Len(more)
      /\ \A k \in 1..Len(text) : more[k] = text[k]
  BY PieceAppended
<1> HIDE DEF more
<1>2. Len(visible) \in Nat
  BY LenProperties
<1>3. Len(visible) <= Len(text) /\ \A k \in 1..Len(visible) : visible[k] = text[k]
  BY PrefixPositions DEF WholeWords
<1>4. Len(visible) <= Len(more) /\ \A k \in 1..Len(visible) : visible[k] = more[k]
  BY <1>1, <1>2, <1>3
<1>5. IsPrefixOf(visible, more)
  BY <1>1, <1>4, PrefixPositions
<1>6. Len(visible) < Len(text) =>
        Len(visible) < Len(more) /\ more[Len(visible) + 1] = text[Len(visible) + 1]
  BY <1>1, <1>2
<1>7. WholeWords(visible, more)
  BY <1>5, <1>6, Zenon DEF WholeWords
<1> QED
  BY <1>7 DEF more

(* What is published is whole words of the text, and more than before. *)
LEMMA PublishableIsShown ==
    ASSUME NEW text \in Seq(Byte), lastPublishedBytes \in Nat, Publishable(text)
    PROVE  /\ Visible(text) \in Seq(Byte) /\ WholeWords(Visible(text), text)
           /\ Len(Visible(text)) > lastPublishedBytes /\ Len(Visible(text)) \in Nat
<1>1. Len(text) \in Nat
  BY LenProperties
<1>2. PICK v \in 0..Len(text) :
        /\ Visible(text) = SubSeq(text, 1, v)
        /\ v > 0 => /\ WellFormed(SubSeq(text, 1, v))
                    /\ text[v] \notin Space
                    /\ \/ text[v] \in Punctuation
                       \/ v < Len(text) /\ text[v + 1] \in Space
  BY VisibleIsWholeWords
<1> DEFINE s == Visible(text)
<1>3. Len(s) > lastPublishedBytes
  BY DEF Publishable
<1>4. s \in Seq(Byte) /\ Len(s) = v /\ \A k \in 1..v : s[k] = text[k]
  BY <1>1, <1>2, BeginningOfText
<1>5. v > 0 /\ v \in 1..v /\ v <= Len(text)
  BY <1>1, <1>3, <1>4
<1>6. WellFormed(s)
  BY <1>2, <1>5
<1> HIDE DEF s
<1>7. s # <<>> /\ s[v] = text[v]
  BY <1>4, <1>5, EmptySeq
<1>8. IsPrefixOf(s, text)
  BY <1>4, <1>5, PrefixPositions
<1>9. WholeWords(s, text)
  BY <1>2, <1>4, <1>5, <1>6, <1>7, <1>8 DEF WholeWords
<1>10. Len(s) \in Nat
  BY <1>4
<1> QED
  BY <1>3, <1>4, <1>9, <1>10 DEF s

(* A token is appended, and perhaps something is published. *)
LEMMA GenerateKeepsInv ==
    ASSUME ProgressInv, NEW piece \in Pieces, Generate(piece)
    PROVE  ProgressInv'
<1>1. /\ result \in Seq(Byte) /\ pieces \in 0..MaxPieces /\ attempt \in {1, 2}
      /\ lastPublishedBytes \in Nat /\ published \in Seq(Seq(Byte))
  BY DEF ProgressInv, ProgressTypeOK
<1>2. piece \in Seq(Byte) /\ MaxPieces \in Nat
  BY ProgressAssumption
<1>3. result' = result \o piece /\ pieces' \in 0..MaxPieces /\ attempt' \in {1, 2}
  BY <1>1, <1>2 DEF Generate
<1>4. /\ result' \in Seq(Byte) /\ Len(result) \in Nat /\ Len(result') \in Nat
      /\ Len(published) \in Nat /\ \A k \in 1..Len(published) : published[k] \in Seq(Byte)
  BY <1>1, <1>2, <1>3, PieceAppended, LenProperties, ElementOfSeq
<1>5. \A k \in 1..Len(published) : WholeWords(published[k], result)
  BY Zenon DEF ProgressInv, ShownIsWholeWords, WholeWords
<1>6. \A k \in 1..Len(published) : WholeWords(published[k], result')
  BY <1>1, <1>2, <1>3, <1>4, <1>5, ShownStays
<1>7. CASE UNCHANGED <<published, lastPublishedBytes>>
  <2>1. ProgressTypeOK'
    BY <1>1, <1>3, <1>4, <1>7 DEF ProgressTypeOK
  <2>2. ShownIsWholeWords'
    BY <1>6, <1>7, Zenon DEF ShownIsWholeWords, WholeWords
  <2>3. ShownTextGrows'
    BY <1>7 DEF ProgressInv, ShownTextGrows
  <2> QED
    BY <2>1, <2>2, <2>3 DEF ProgressInv
<1>8. CASE /\ Publishable(result')
           /\ published' = Append(published, Visible(result'))
           /\ lastPublishedBytes' = Len(Visible(result'))
  <2> DEFINE s == Visible(result')
             n == Len(published)
  <2>1. /\ s \in Seq(Byte) /\ WholeWords(s, result')
        /\ Len(s) > lastPublishedBytes /\ Len(s) \in Nat
    BY <1>1, <1>4, <1>8, PublishableIsShown
  <2>2. published' = Append(published, s) /\ lastPublishedBytes' = Len(s)
    BY <1>8
  <2> HIDE DEF s
  <2>3. /\ published' \in Seq(Seq(Byte)) /\ Len(published') = n + 1
        /\ \A k \in 1..n : published'[k] = published[k]
        /\ published'[n + 1] = s
    BY <1>1, <2>1, <2>2, AppendProperties
  <2>4. ProgressTypeOK'
    BY <1>3, <1>4, <2>1, <2>2, <2>3 DEF ProgressTypeOK
  <2>5. \A k \in 1..Len(published') : WholeWords(published'[k], result')
    <3> TAKE k \in 1..Len(published')
    <3>1. k \in 1..n \/ k = n + 1
      BY <1>4, <2>3
    <3> QED
      BY <1>6, <2>1, <2>3, <3>1
  <2>6. ShownIsWholeWords'
    BY <2>5, Zenon DEF ShownIsWholeWords, WholeWords
  <2>7. ASSUME NEW k \in 2..n + 1
        PROVE  published'[k] # published'[k - 1] /\ IsPrefixOf(published'[k - 1], published'[k])
    <3>1. CASE k <= n
      <4>1. k \in 2..Len(published) /\ k \in 1..n /\ k - 1 \in 1..n
        BY <1>4, <3>1
      <4>2. published[k] # published[k - 1] /\ IsPrefixOf(published[k - 1], published[k])
        BY <4>1, Zenon DEF ProgressInv, ShownTextGrows
      <4> QED
        BY <2>3, <4>1, <4>2
    <3>2. CASE k = n + 1
      <4> DEFINE l == published[n]
      <4>1. n \in 1..n /\ published # <<>> /\ k - 1 = n
        BY <1>4, <3>2, EmptySeq
      <4>2. l \in Seq(Byte) /\ WholeWords(l, result') /\ Len(l) \in Nat
        BY <1>4, <1>6, <4>1, LenProperties
      <4>3. Len(l) = lastPublishedBytes
        BY <4>1 DEF ProgressInv, ShownTextGrows
      <4> HIDE DEF l
      <4>4. Len(l) <= Len(result') /\ \A i \in 1..Len(l) : l[i] = result'[i]
        BY <1>4, <4>2, PrefixPositions DEF WholeWords
      <4>5. Len(s) <= Len(result') /\ \A i \in 1..Len(s) : s[i] = result'[i]
        BY <1>4, <2>1, PrefixPositions DEF WholeWords
      <4>6. Len(l) <= Len(s) /\ \A i \in 1..Len(l) : l[i] = s[i]
        <5>1. Len(l) <= Len(s)
          BY <1>1, <2>1, <4>2, <4>3
        <5>2. \A i \in 1..Len(l) : i \in 1..Len(s)
          BY <2>1, <4>2, <5>1
        <5> QED
          BY <4>4, <4>5, <5>1, <5>2, Zenon
      <4>7. IsPrefixOf(l, s) /\ s # l
        BY <1>1, <2>1, <4>2, <4>3, <4>6, PrefixPositions, SMTT(30)
      <4>8. published'[k] = s /\ published'[k - 1] = l
        BY <2>3, <3>2, <4>1 DEF l
      <4> QED
        BY <4>7, <4>8
    <3> QED
      BY <1>4, <3>1, <3>2
  <2>8. ShownTextGrows'
    <3>1. published' # <<>> /\ published'[Len(published')] = s
      BY <1>4, <2>3, EmptySeq
    <3>2. \A k \in 2..Len(published') :
            published'[k] # published'[k - 1] /\ IsPrefixOf(published'[k - 1], published'[k])
      BY <2>3, <2>7
    <3> QED
      BY <2>2, <3>1, <3>2, Zenon DEF ShownTextGrows
  <2> QED
    BY <2>4, <2>6, <2>8 DEF ProgressInv
<1> QED
  BY <1>7, <1>8 DEF Generate

(* An attempt begins with nothing, the first one and the second. *)
LEMMA NothingShown ==
    /\ ProgressInit => ProgressInv
    /\ ProgressInv /\ Retry => ProgressInv'
<1>1. <<>> \in Seq(Byte) /\ <<>> \in Seq(Seq(Byte)) /\ Len(<<>>) = 0 /\ 0 \in 0..MaxPieces
  BY ProgressAssumption, EmptySeq
<1>2. ASSUME ProgressInit PROVE ProgressInv
  <2>1. ProgressTypeOK
    BY <1>1, <1>2 DEF ProgressInit, ProgressTypeOK
  <2>2. ShownIsWholeWords /\ ShownTextGrows
    BY <1>1, <1>2 DEF ProgressInit, ShownIsWholeWords, ShownTextGrows
  <2> QED
    BY <2>1, <2>2 DEF ProgressInv
<1>3. ASSUME ProgressInv, Retry PROVE ProgressInv'
  <2>1. ProgressTypeOK'
    BY <1>1, <1>3 DEF Retry, ProgressTypeOK
  <2>2. ShownIsWholeWords' /\ ShownTextGrows'
    BY <1>1, <1>3 DEF Retry, ShownIsWholeWords, ShownTextGrows
  <2> QED
    BY <2>1, <2>2 DEF ProgressInv
<1> QED
  BY <1>2, <1>3

(***************************************************************************)
(* The invariant of publishProgress, for every set of pieces and every     *)
(* bound: what was shown is true of the text, which only grows.            *)
(***************************************************************************)
THEOREM ProgressInvariant == ProgressSpec => []ProgressInv
<1>1. ProgressInit => ProgressInv
  BY NothingShown
<1>2. ProgressInv /\ [ProgressNext]_progressVars => ProgressInv'
  <2> SUFFICES ASSUME ProgressInv, [ProgressNext]_progressVars PROVE ProgressInv'
    OBVIOUS
  <2>1. CASE ProgressNext
    BY <2>1, NothingShown, GenerateKeepsInv DEF ProgressNext
  <2>2. CASE UNCHANGED progressVars
    <3>1. ProgressTypeOK'
      BY <2>2 DEF ProgressInv, ProgressTypeOK, progressVars
    <3>2. ShownIsWholeWords'
      BY <2>2 DEF ProgressInv, ShownIsWholeWords, progressVars
    <3>3. ShownTextGrows'
      BY <2>2 DEF ProgressInv, ShownTextGrows, progressVars
    <3> QED
      BY <3>1, <3>2, <3>3 DEF ProgressInv
  <2> QED
    BY <2>1, <2>2
<1> QED
  BY <1>1, <1>2, PTL DEF ProgressSpec

(***************************************************************************)
(* completeUtf8Prefix() finds the longest beginning that is well-formed    *)
(* UTF-8, of every sequence of bytes that tokens can add up to.            *)
(***************************************************************************)
THEOREM Utf8ScanIsExact == ProgressSpec => []ScanIsExact
<1>1. ProgressInv => ScanIsExact
  BY ScanIsLongest DEF ProgressInv, ProgressTypeOK, ScanIsExact
<1> QED
  BY <1>1, ProgressInvariant, PTL

(***************************************************************************)
(* Whatever the tokens are, the callback gets whole characters and whole   *)
(* words.                                                                  *)
(***************************************************************************)
THEOREM WholeWordsAreShown == ProgressSpec => []ShownIsWholeWords
<1>1. ProgressInv => ShownIsWholeWords
  BY DEF ProgressInv
<1> QED
  BY <1>1, ProgressInvariant, PTL

(***************************************************************************)
(* Within one attempt each text the callback gets continues the one before *)
(* and is longer.                                                          *)
(***************************************************************************)
THEOREM ShownGrows == ProgressSpec => []ShownTextGrows
<1>1. ProgressInv => ShownTextGrows
  BY DEF ProgressInv
<1> QED
  BY <1>1, ProgressInvariant, PTL
=============================================================================
