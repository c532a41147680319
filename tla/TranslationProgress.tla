------------------------ MODULE TranslationProgress ------------------------
(***************************************************************************)
(* What is shown of a translation that is still being generated            *)
(* (publishProgress of HyMt::run and its helpers, translation.cpp).  A     *)
(* token is some bytes, which need not be whole characters or whole words; *)
(* a text is shown up to the end of a word, not more often than every      *)
(* 80 ms, and nothing is shown twice.                                      *)
(***************************************************************************)
EXTENDS Integers, Sequences, FiniteSetsExt

CONSTANTS Pieces,           \* what llama_token_to_piece() yields
          MaxPieces         \* max_output (384)

Byte == 0..255

ASSUME ProgressAssumption == Pieces \subseteq Seq(Byte) /\ MaxPieces \in Nat

VARIABLES result,           \* the bytes generated in this attempt
          pieces,           \* how many tokens that took
          attempt,          \* 2 after the fallback to the CPU
          lastPublishedBytes,
          published         \* the texts that the callback got in this attempt

progressVars == <<result, pieces, attempt, lastPublishedBytes, published>>

Space == {32, 9, 13, 10}
Punctuation == {46, 33, 63, 44, 59, 58}       \* . ! ? , ; :

-----------------------------------------------------------------------------
(* completeUtf8Prefix()                                                    *)

Width(lead) ==
    CASE lead <= 127 -> 1
      [] lead \in 194..223 -> 2
      [] lead \in 224..239 -> 3
      [] lead \in 240..244 -> 4
      [] OTHER -> 0

(* Mutant: overlong and surrogate forms are taken for characters. *)
SecondByteFits_Any(lead, second) == TRUE

(* Of some leads not every continuation makes a character. *)
SecondByteFits(lead, second) ==
    /\ lead = 224 => second >= 160
    /\ lead = 237 => second < 160
    /\ lead = 240 => second >= 144
    /\ lead = 244 => second < 144

(* A whole character begins behind offset. *)
CharacterAt(value, offset) ==
    LET lead  == value[offset + 1]
        width == Width(lead)
    IN  /\ width > 0 /\ offset + width <= Len(value)
        /\ \A i \in 2..width : value[offset + i] \in 128..191
        /\ width > 1 => SecondByteFits(lead, value[offset + 2])

(* Where the loop ends that goes on at an offset. *)
ScanEnd(value) ==
    LET scan[offset \in 0..Len(value)] ==
            IF offset < Len(value) /\ CharacterAt(value, offset)
            THEN scan[offset + Width(value[offset + 1])]
            ELSE offset
    IN  scan

CompleteUtf8Prefix(value) == ScanEnd(value)[0]

(* Mutant: a word ends where the text does. *)
LastCompleteWordBoundary_End(value, completeBytes) == completeBytes

LastCompleteWordBoundary(value, completeBytes) ==
    Max({0} \cup {i \in 1..completeBytes : value[i] \in Space \cup Punctuation})

TrimProgress(value) ==
    SubSeq(value, 1, Max({0} \cup {i \in 1..Len(value) : value[i] \notin Space}))

-----------------------------------------------------------------------------
(* What would be shown of some text. *)
Visible(text) ==
    TrimProgress(SubSeq(text, 1, LastCompleteWordBoundary(text, CompleteUtf8Prefix(text))))

(* Mutant: whatever is longer is shown. *)
Publishable_AnyLonger(text) == Len(text) > lastPublishedBytes

(* Mutant: a word that is all white space is shown again. *)
Publishable_SameText(text) ==
    LastCompleteWordBoundary(text, CompleteUtf8Prefix(text)) > lastPublishedBytes

Publishable(text) ==
    /\ LastCompleteWordBoundary(text, CompleteUtf8Prefix(text)) > lastPublishedBytes
    /\ Len(Visible(text)) > lastPublishedBytes

(* A token is appended, and what is complete may be published: not before  *)
(* 80 ms have passed since it was last.                                    *)
Generate(piece) ==
    /\ pieces < MaxPieces
    /\ pieces' = pieces + 1
    /\ result' = result \o piece
    /\ \/ /\ Publishable(result')
          /\ published' = Append(published, Visible(result'))
          /\ lastPublishedBytes' = Len(Visible(result'))
       \/ UNCHANGED <<published, lastPublishedBytes>>
    /\ UNCHANGED attempt

(* run() is called again after the fallback and begins with nothing. *)
Retry ==
    /\ attempt = 1
    /\ attempt' = 2
    /\ result' = <<>> /\ pieces' = 0
    /\ lastPublishedBytes' = 0 /\ published' = <<>>

ProgressInit ==
    /\ result = <<>> /\ pieces = 0 /\ attempt = 1
    /\ lastPublishedBytes = 0 /\ published = <<>>

ProgressNext == (\E piece \in Pieces : Generate(piece)) \/ Retry

ProgressSpec == ProgressInit /\ [][ProgressNext]_progressVars

-----------------------------------------------------------------------------
ProgressTypeOK ==
    /\ result \in Seq(Byte) /\ pieces \in 0..MaxPieces /\ attempt \in {1, 2}
    /\ lastPublishedBytes \in Nat /\ published \in Seq(Seq(Byte))

(* The reference: a text is well-formed if it can be cut into encodings of *)
(* Unicode scalar values, each in its shortest form.                       *)

ScalarOf(c) ==
    CASE Len(c) = 2 -> (c[1] % 32) * 64 + (c[2] % 64)
      [] Len(c) = 3 -> (c[1] % 16) * 4096 + (c[2] % 64) * 64 + (c[3] % 64)
      [] Len(c) = 4 -> (c[1] % 8) * 262144 + (c[2] % 64) * 4096 + (c[3] % 64) * 64 + (c[4] % 64)

IsEncoding(c) ==
    /\ \A i \in 2..Len(c) : c[i] \in 128..191
    /\ \/ Len(c) = 1 /\ c[1] \in 0..127
       \/ Len(c) = 2 /\ c[1] \in 192..223 /\ ScalarOf(c) >= 128
       \/ Len(c) = 3 /\ c[1] \in 224..239 /\ ScalarOf(c) >= 2048
                     /\ (ScalarOf(c) < 55296 \/ ScalarOf(c) > 57343)
       \/ Len(c) = 4 /\ c[1] \in 240..247 /\ ScalarOf(c) >= 65536 /\ ScalarOf(c) <= 1114111

WellFormed(text) ==
    \E cuts \in SUBSET (0..Len(text)) :
        /\ {0, Len(text)} \subseteq cuts
        /\ \A i, j \in cuts :
             i < j /\ ~(\E k \in cuts : i < k /\ k < j) => IsEncoding(SubSeq(text, i + 1, j))

IsPrefixOf(s, t) == Len(s) <= Len(t) /\ s = SubSeq(t, 1, Len(s))

(***************************************************************************)
(* The scan that stops at the first byte that is not part of a character   *)
(* finds the longest beginning that is well-formed: tokens that split a    *)
(* character hold it back, and nothing that could be shown is.             *)
(***************************************************************************)
ScanIsExact ==
    CompleteUtf8Prefix(result) =
        Max({n \in 0..Len(result) : WellFormed(SubSeq(result, 1, n))})

(***************************************************************************)
(* Every text shown is whole characters and whole words of the             *)
(* translation, although tokens are cut anywhere: the callback passes      *)
(* bytes to Java, which would replace half a character.                    *)
(***************************************************************************)
ShownIsWholeWords ==
    \A k \in 1..Len(published) :
        LET visible == published[k]
        IN  /\ visible # <<>> /\ IsPrefixOf(visible, result) /\ WellFormed(visible)
            /\ visible[Len(visible)] \notin Space
            /\ \/ visible[Len(visible)] \in Punctuation
               \/ Len(visible) < Len(result) /\ result[Len(visible) + 1] \in Space

(***************************************************************************)
(* Within an attempt each text shown continues the one before and says     *)
(* more, also where a token brings only white space: the listener is not   *)
(* called with what it has, and lastPublishedBytes is what it has.         *)
(***************************************************************************)
ShownTextGrows ==
    /\ \A k \in 2..Len(published) :
         published[k] # published[k - 1] /\ IsPrefixOf(published[k - 1], published[k])
    /\ lastPublishedBytes = IF published = <<>> THEN 0 ELSE Len(published[Len(published)])

(* Inductive: what was shown was the beginning of less text. *)
ProgressInv == ProgressTypeOK /\ ShownIsWholeWords /\ ShownTextGrows
=============================================================================
