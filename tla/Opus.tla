-------------------------------- MODULE Opus --------------------------------
(***************************************************************************)
(* The native OPUS translator (class Opus of translation.cpp): a greedy    *)
(* loop over a merged ONNX decoder, whose past keys and values the loop    *)
(* carries from step to step by hand.  It implements Translation.          *)
(*                                                                         *)
(* A key or value of a decoder layer stands for the tokens it was computed *)
(* from, one of an encoder (cross-attention) layer for the source.         *)
(***************************************************************************)
EXTENDS Integers, Sequences

CONSTANTS Token,            \* the ids of the pieces, without eos_id and pad_id
          Sources,          \* texts, as sequences of pieces
          Ranked(_),        \* two best tokens for what the decoder attends to
          Layers,           \* decoder_layers
          MaxInput,         \* pieces of input (383)
          MaxSteps          \* rounds of the decoder (256)

ASSUME OpusAssumption ==
    /\ Sources \subseteq Seq(Token)
    /\ Layers \in Nat \ {0} /\ MaxInput \in Nat /\ MaxSteps \in Nat

EndOfText == "eos"
Pad == "pad"
Start == "start"            \* decoder_start_token_id

VARIABLES pc, request,
          hidden,           \* last_hidden_state of the encoder
          feed,             \* past_key_values, in the order of in_names
          cached,           \* use_cache_branch
          token, step,
          output,           \* translated
          returned,         \* how the last request ended
          cancelled         \* the flag of TranslationEngine

loopVars == <<hidden, feed, cached, token, step>>
vars == <<pc, request, loopVars, output, returned, cancelled>>

Slots == 0..4 * Layers - 1

(* Names alternate: decoder key, decoder value, encoder key, encoder value *)
IsEncoderSlot(i) == i % 4 >= 2

Empty == <<>>

-----------------------------------------------------------------------------
(* The merged decoder, of which only the inputs and outputs are known.     *)

(* What a step attends to: the cached branch takes the cross-attention     *)
(* from the past, the other one computes it.                               *)
Attended ==
    IF cached
    THEN [source |-> {feed[i] : i \in {j \in Slots : IsEncoderSlot(j)}},
          tokens |-> {Append(feed[i], token) : i \in {j \in Slots : ~IsEncoderSlot(j)}}]
    ELSE [source |-> {hidden}, tokens |-> {<<token>>}]

(* present.*; "The cached branch returns empty cross-attention tensors" *)
Present(i) ==
    IF IsEncoderSlot(i)
    THEN IF cached THEN Empty ELSE hidden
    ELSE IF cached THEN Append(feed[i], token) ELSE <<token>>

-----------------------------------------------------------------------------
(* resetCancellation() and translate() up to the encoder. *)
Translate(r) ==
    /\ pc = "idle"
    /\ pc' = "encode" /\ request' = r /\ output' = <<>>
    /\ cancelled' = FALSE
    /\ UNCHANGED <<loopVars, returned>>

(* Any exception ends the request; everything it used was its own. *)
Throw == pc' = "idle" /\ returned' = "failed"

(* The text is cut into pieces and encoded. *)
Encode ==
    /\ pc = "encode"
    /\ ~cancelled /\ Len(request) <= MaxInput
    /\ hidden' = Append(request, EndOfText)
    /\ feed' = [i \in Slots |-> Empty] /\ cached' = FALSE
    /\ token' = Start /\ step' = 0
    /\ pc' = "decode"
    /\ UNCHANGED <<request, output, returned, cancelled>>

(* It was cancelled, cannot be encoded, or is too long. *)
EncodeFails ==
    /\ pc = "encode"
    /\ Throw
    /\ UNCHANGED <<request, loopVars, output, cancelled>>

(* Mutant: the best token is taken whatever it is. *)
Best_WithPad(attended) == Ranked(attended)[1]

(* max_element() after logits[pad_id] was made minus infinity *)
Best(attended) ==
    IF Ranked(attended)[1] = Pad THEN Ranked(attended)[2] ELSE Ranked(attended)[1]

(* Mutant: every tensor is carried over. *)
Carried_All(i) == Present(i)

(* Mutant: the slots are taken to be in the order key, key, value, value. *)
Carried_WrongOrder(i) == IF step > 0 /\ i % 2 = 1 THEN feed[i] ELSE Present(i)

(* The past of the next step: cross-attention is that of the first one. *)
Carried(i) == IF step > 0 /\ IsEncoderSlot(i) THEN feed[i] ELSE Present(i)

(* One round of the loop that yields a piece. *)
Decode ==
    /\ pc = "decode" /\ ~cancelled /\ step < MaxSteps
    /\ Best(Attended) # EndOfText
    /\ token' = Best(Attended)
    /\ output' = Append(output, Best(Attended))
    /\ feed' = [i \in Slots |-> Carried(i)]
    /\ cached' = TRUE
    /\ step' = step + 1
    /\ UNCHANGED <<pc, request, hidden, returned, cancelled>>

(* The round that yields the end of the text. *)
Finish ==
    /\ pc = "decode" /\ ~cancelled /\ step < MaxSteps
    /\ Best(Attended) = EndOfText
    /\ token' = EndOfText
    /\ pc' = "idle" /\ returned' = "delivered"
    /\ UNCHANGED <<request, hidden, feed, cached, step, output, cancelled>>

(* Mutant: what there is at the limit is returned. *)
DecodeFails_Truncates ==
    /\ pc = "decode" /\ step = MaxSteps
    /\ pc' = "idle" /\ returned' = "delivered"
    /\ UNCHANGED <<request, loopVars, output, cancelled>>

(* The request is cancelled, the runtime or the detokenizer fails, or the  *)
(* limit is reached.                                                       *)
DecodeFails ==
    /\ pc = "decode"
    /\ Throw
    /\ UNCHANGED <<request, loopVars, output, cancelled>>

(* cancel(), from another thread; a step that runs is not interrupted. *)
Cancel ==
    /\ pc # "idle"
    /\ cancelled' = TRUE
    /\ UNCHANGED <<pc, request, loopVars, output, returned>>

Init ==
    /\ pc = "idle" /\ request \in Sources
    /\ hidden = Empty /\ feed = [i \in Slots |-> Empty] /\ cached = FALSE
    /\ token = Start /\ step = 0
    /\ output = <<>> /\ returned = "waiting" /\ cancelled = FALSE

Running == Encode \/ EncodeFails \/ Decode \/ Finish \/ DecodeFails

Next == (\E r \in Sources : Translate(r)) \/ Running \/ Cancel

Spec == Init /\ [][Next]_vars

-----------------------------------------------------------------------------
(* What is attended to is one source, the one that was asked, and one      *)
(* sequence of tokens, the output so far, in every layer.                  *)
Promised(r, text) ==
    [source |-> {Append(r, EndOfText)}, tokens |-> {<<Start>> \o text}]

(* Outputs of no more than the rounds there are. *)
Outputs == UNION {[1..n -> Token] : n \in 0..MaxSteps}

(* A ranking is of two different ids of the vocabulary. *)
ASSUME RankedAssumption ==
    \A r \in Sources, text \in Outputs :
        LET ranked == Ranked(Promised(r, text))
        IN  /\ {ranked[1], ranked[2]} \subseteq Token \cup {EndOfText, Pad}
            /\ ranked[1] # ranked[2]

Continuations(r, text) ==
    LET ranked == Ranked(Promised(r, text))
    IN  {IF ranked[1] = Pad THEN ranked[2] ELSE ranked[1]}

TypeOK ==
    /\ pc \in {"idle", "encode", "decode"}
    /\ returned \in {"waiting", "delivered", "failed"}
    /\ request \in Sources /\ output \in Seq(Token)
    /\ cached \in BOOLEAN /\ cancelled \in BOOLEAN
    /\ step \in 0..MaxSteps

(* The rounds are counted, and the first one has no past. *)
RoundsAreCounted ==
    /\ pc = "encode" => output = <<>>
    /\ pc = "decode" =>
         /\ hidden = Append(request, EndOfText)
         /\ step = Len(output)
         /\ cached <=> step > 0
         /\ ~cached => token = Start

(* What each slot holds, the token to come included. *)
PastIsOutput ==
    pc = "decode" /\ cached =>
        \A i \in Slots :
            IF IsEncoderSlot(i) THEN feed[i] = hidden
                                ELSE Append(feed[i], token) = <<Start>> \o output

OpusInv == TypeOK /\ RoundsAreCounted /\ PastIsOutput

Phase == IF pc = "idle" THEN returned ELSE "busy"

Promise == INSTANCE Translation
    WITH Request <- Sources, MaxOutput <- MaxSteps, MaxRestarts <- 0, restarts <- 0,
         phase <- Phase, Continues <- Continuations

(***************************************************************************)
(* The keys and values that the loop carries over make every step attend   *)
(* to the whole source and the whole output of this request (the comment   *)
(* "preserve first-step encoder KV"); padding is never put out; a text cut *)
(* at the limit is not delivered.                                          *)
(***************************************************************************)
OpusImplementsTranslation == Promise!Safety
=============================================================================
