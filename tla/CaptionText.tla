---------------------------- MODULE CaptionText ----------------------------
(***************************************************************************)
(* The text operations on which stable prefixes and caption rows rest      *)
(* (Segments.kt).  A text is a sequence of characters, and all the code    *)
(* ever asks of a character is whether it equals another one, whether it   *)
(* is white space, and whether it is in one of two punctuation sets.  The  *)
(* two sets are not the same: StablePrefix ends a word at a full-width     *)
(* semicolon or colon, sourceStillHasPrefix does not but accepts an        *)
(* ideographic comma.                                                      *)
(***************************************************************************)
EXTENDS Integers, SequencesExt

CONSTANTS Char,          \* the alphabet
          Whitespace,    \* Char.isWhitespace()
          StablePunct,   \* the punctuation at which StablePrefix ends a word
          PortionPunct   \* the punctuation that may follow a translated portion

ASSUME CharAssumption ==
    /\ Whitespace \subseteq Char
    /\ StablePunct \subseteq Char \ Whitespace
    /\ PortionPunct \subseteq Char \ Whitespace

Text == Seq(Char)

(* The positions of the characters that are not white space. *)
Ink(t) == {i \in 1..Len(t) : t[i] \notin Whitespace}

IsBlank(t) == Ink(t) = {}

Trim(t) == IF IsBlank(t) THEN <<>> ELSE SubSeq(t, Min(Ink(t)), Max(Ink(t)))

TrimEnd(t) == IF IsBlank(t) THEN <<>> ELSE SubSeq(t, 1, Max(Ink(t)))

(* The length of the longest common prefix of s and t. *)
CommonLength(s, t) ==
    Max({n \in 0..Len(t) : n <= Len(s) /\ \A i \in 1..n : s[i] = t[i]})

(* The longest prefix of t of at most n characters that ends a word: the   *)
(* loop that steps back over the letters of a word cut at n.               *)
WordStart(t, n) ==
    Max({e \in 0..n : e = 0 \/ t[e] \in Whitespace \cup StablePunct})

(* A translated portion still covers a prefix of the current source, cut   *)
(* between two words.                                                      *)
SourceStillHasPrefix(current, portion) ==
    /\ ~IsBlank(portion)
    /\ IsPrefix(portion, current)
    /\ \/ Len(current) = Len(portion)
       \/ current[Len(portion) + 1] \in Whitespace \cup PortionPunct
=============================================================================
