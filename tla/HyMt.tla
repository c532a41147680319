-------------------------------- MODULE HyMt --------------------------------
(***************************************************************************)
(* The native Hy-MT2 translator (class HyMt of translation.cpp): its KV    *)
(* memory, which keeps the prompt of the last request so that a prompt     *)
(* with the same beginning need not be evaluated again, and its fallback   *)
(* from the GPU to the CPU.  It implements Translation, which knows of no  *)
(* memory.                                                                 *)
(*                                                                         *)
(* contextOwner lets in one request at a time; cancel() comes from another *)
(* thread.  An entry of the memory is a token with the session and the     *)
(* scope (languages, glossary, template) for which it was evaluated.       *)
(***************************************************************************)
EXTENDS Integers, Sequences

CONSTANTS Token, Prompts,   \* prompts are token sequences
          Sessions, Scopes,
          Likely(_),        \* what may be sampled from the logits of a memory
          Batch,            \* tokens evaluated at a time while prefilling
          MaxOutput,        \* max_output (384)
          ContextSize       \* n_ctx (2048)

ASSUME HyMtAssumption ==
    /\ Prompts \subseteq Seq(Token) \ {<<>>}
    /\ Batch \in Nat \ {0} /\ MaxOutput \in Nat /\ ContextSize \in Nat

(* A token of the kind llama_vocab_is_eog() tells. *)
EndOfText == "eog"

VARIABLES memory,           \* the KV memory of the context
          logits,           \* the memory for which logits were computed last
          cached,           \* what the memory holds, if it is known
          device,           \* where model and context are: "none" if neither
                            \* is loaded, "noContext" if the model alone is
          preferOpenCL, opencl, activeBackend, fallbackCount,
          pc, request, attempt,
          offset,           \* the first token of the prompt still to evaluate
          output,           \* tokens sampled
          returned,         \* how the last request ended
          cancelled         \* the flag of TranslationEngine

modelVars == <<device, preferOpenCL, opencl, activeBackend, fallbackCount>>
kvVars == <<memory, logits, cached>>
vars == <<kvVars, modelVars, pc, request, attempt, offset, output, returned, cancelled>>

Entry == [token : Token, session : Sessions, scope : Scopes]

Request == [prompt : Prompts, session : Sessions, scope : Scopes,
            allowPrefixCache : BOOLEAN]

(* The entries that a request evaluates for some tokens. *)
EntriesOf(r, tokens) ==
    [i \in 1..Len(tokens) |->
        [token |-> tokens[i], session |-> r.session, scope |-> r.scope]]

Entries(tokens) == EntriesOf(request, tokens)

(* llama_memory_seq_pos_max(); -1 when empty *)
PosMax(entries) == Len(entries) - 1

NothingCached == [valid |-> FALSE]

(* Mutant: whose prompt it was does not matter. *)
CacheIdentityMatches_AnySession ==
    /\ request.allowPrefixCache /\ cached.valid
    /\ cached.scope = request.scope
    /\ PosMax(memory) = cached.positionMax

CacheIdentityMatches ==
    /\ request.allowPrefixCache /\ cached.valid
    /\ cached.session = request.session /\ cached.scope = request.scope
    /\ PosMax(memory) = cached.positionMax

(* longestCommonPrefix(), the n at which its loop stops. *)
IsReusablePrefix(n) ==
    /\ n <= Len(cached.tokens) /\ n <= Len(request.prompt)
    /\ \A i \in 1..n : cached.tokens[i] = request.prompt[i]
    /\ n < Len(cached.tokens) /\ n < Len(request.prompt) =>
         cached.tokens[n + 1] # request.prompt[n + 1]

(* Mutant: the last shared token is kept as well. *)
KeepTokens_All(reusablePrefix) == reusablePrefix

(* All shared tokens but the last, whose logits are needed. *)
KeepTokens(reusablePrefix) == IF reusablePrefix > 0 THEN reusablePrefix - 1 ELSE 0

-----------------------------------------------------------------------------
(* A request.                                                              *)

(* resetCancellation() and translateWithProgress(), or its uncached twin. *)
Translate(r) ==
    /\ pc = "idle"
    /\ request' = r
    /\ attempt' = 1 /\ output' = <<>>
    /\ cancelled' = FALSE
    /\ pc' = "prepare"
    /\ UNCHANGED <<kvVars, modelVars, offset, returned>>

(* Mutant: the room for the output is not counted. *)
Fits_PromptOnly == Len(request.prompt) <= ContextSize

Fits == Len(request.prompt) + MaxOutput <= ContextSize

Loaded == device \in {"opencl", "cpu"}

(* run() fails before it touches the memory: it is cancelled, the chat     *)
(* template or the tokenizer fails, or the prompt leaves no room for the   *)
(* output.  The last is the only way for a prompt that does not fit.  The  *)
(* template and the tokenizer are those of the model.                      *)
Refuse ==
    /\ pc = "prepare" /\ (device = "none" => cancelled)
    /\ pc' = "catch"
    /\ UNCHANGED <<kvVars, modelVars, request, attempt, offset, output, returned, cancelled>>

(* A request after a fallback that failed follows a null pointer: the      *)
(* process dies.  A request that was cancelled does so when the memory is  *)
(* cleared, if llama_get_memory() does not take a null context.            *)
Die ==
    /\ ~Loaded
    /\ \/ pc = "prepare" /\ ~cancelled
       \/ pc = "catch" /\ cancelled
    /\ pc' = "dead" /\ returned' = "failed"
    /\ UNCHANGED <<kvVars, modelVars, request, attempt, offset, output, cancelled>>

(* The memory is cleared, or cut back to what is kept; a cut that fails    *)
(* clears it.                                                              *)
Kept ==
    \/ ~CacheIdentityMatches /\ memory' = <<>> /\ offset' = 0
    \/ /\ CacheIdentityMatches
       /\ \E n \in 0..Len(request.prompt) :
            /\ IsReusablePrefix(n)
            /\ memory' = SubSeq(memory, 1, KeepTokens(n)) /\ offset' = KeepTokens(n)
    \/ CacheIdentityMatches /\ memory' = <<>> /\ offset' = 0

Prepare ==
    /\ pc = "prepare" /\ Loaded
    /\ ~cancelled /\ Fits
    /\ Kept
    /\ cached' = NothingCached
    /\ pc' = "prefill"
    /\ UNCHANGED <<logits, modelVars, request, attempt, output, returned, cancelled>>

(* llama_decode(): the tokens get into the memory, all of them or, when it *)
(* fails or is aborted, a part.                                            *)
Decode(tokens) ==
    /\ memory' = memory \o Entries(tokens)
    /\ logits' = memory \o Entries(tokens)

DecodeFails(tokens) ==
    /\ \E n \in 0..Len(tokens) : memory' = memory \o Entries(SubSeq(tokens, 1, n))
    /\ logits' = <<>>
    /\ pc' = "catch"

PrefillEnd ==
    IF offset + Batch <= Len(request.prompt) THEN offset + Batch ELSE Len(request.prompt)

PrefillBatch == SubSeq(request.prompt, offset + 1, PrefillEnd)

(* checkCancelled() and other errors that leave the memory alone *)
Throw == pc' = "catch" /\ UNCHANGED <<memory, logits>>

(* One round of the prefill loop. *)
Prefill ==
    /\ pc = "prefill" /\ offset < Len(request.prompt)
    /\ \/ cancelled /\ Throw /\ UNCHANGED offset
       \/ ~cancelled /\ Decode(PrefillBatch) /\ offset' = offset + Batch /\ UNCHANGED pc
       \/ ~cancelled /\ DecodeFails(PrefillBatch) /\ UNCHANGED offset
    /\ UNCHANGED <<cached, modelVars, request, attempt, output, returned, cancelled>>

Prefilled ==
    /\ pc = "prefill" /\ offset >= Len(request.prompt)
    /\ pc' = "sample"
    /\ UNCHANGED <<kvVars, modelVars, request, attempt, offset, output, returned, cancelled>>

(* One round of the sampling loop that yields a token, which may have no   *)
(* text; the callback that publishes progress may throw.                   *)
Sample(token) ==
    /\ pc = "sample" /\ ~cancelled /\ Len(output) < MaxOutput
    /\ token \in Likely(logits)
    /\ output' = Append(output, token)
    /\ \/ Throw
       \/ Decode(<<token>>) /\ UNCHANGED pc
       \/ DecodeFails(<<token>>)
    /\ UNCHANGED <<cached, modelVars, request, attempt, offset, returned, cancelled>>

(* Mutant: the limit is not looked at. *)
StopSampling_Unlimited ==
    /\ pc = "sample" /\ cancelled
    /\ Throw
    /\ UNCHANGED <<cached, modelVars, request, attempt, offset, output, returned, cancelled>>

(* Mutant: at the limit what there is is returned. *)
StopSampling_Truncates ==
    /\ pc = "sample" /\ (cancelled \/ Len(output) = MaxOutput)
    /\ pc' = "idle" /\ returned' = "delivered"
    /\ UNCHANGED <<kvVars, modelVars, request, attempt, offset, output, cancelled>>

(* The loop ends without a result: cancelled, or at the output limit. *)
StopSampling ==
    /\ pc = "sample" /\ (cancelled \/ Len(output) = MaxOutput)
    /\ Throw
    /\ UNCHANGED <<cached, modelVars, request, attempt, offset, output, returned, cancelled>>

(* The round that yields the end of generation: the memory is remembered   *)
(* and the result returned.                                                *)
Finish ==
    /\ pc = "sample" /\ ~cancelled /\ Len(output) < MaxOutput
    /\ EndOfText \in Likely(logits)
    /\ cached' = IF request.allowPrefixCache
                 THEN [valid |-> PosMax(memory) >= 0, tokens |-> request.prompt,
                       session |-> request.session, scope |-> request.scope,
                       positionMax |-> PosMax(memory)]
                 ELSE cached
    /\ pc' = "idle" /\ returned' = "delivered"
    /\ UNCHANGED <<memory, logits, modelVars, request, attempt, offset, output, cancelled>>

-----------------------------------------------------------------------------
(* Failure of run().                                                       *)

(* Mutant: the memory is cleared, what is known of it is not. *)
GiveUp_KeepsCache ==
    /\ pc = "catch"
    /\ attempt = 2 \/ ~opencl \/ cancelled
    /\ memory' = <<>>
    /\ pc' = "idle" /\ returned' = "failed"
    /\ UNCHANGED <<logits, cached, modelVars, request, attempt, offset, output, cancelled>>

(* The error is passed on, on the CPU, after a cancellation, and at the    *)
(* second attempt.                                                         *)
GiveUp ==
    /\ pc = "catch"
    /\ attempt = 2 \/ ~opencl \/ cancelled
    /\ memory' = <<>>
    /\ cached' = NothingCached
    /\ pc' = "idle" /\ returned' = "failed"
    /\ UNCHANGED <<logits, modelVars, request, attempt, offset, output, cancelled>>

(* fallbackToCpu(): model and context are released and loaded anew; the    *)
(* load may fail, and then both stay released, or the context alone.       *)
FallBackToCpu ==
    /\ pc = "catch" /\ attempt = 1 /\ opencl /\ ~cancelled
    /\ cached' = NothingCached
    /\ memory' = <<>> /\ logits' = <<>>
    /\ \/ /\ device' = "cpu" /\ opencl' = FALSE
          /\ fallbackCount' = fallbackCount + 1
          /\ activeBackend' = "CPU_inference_failed"
          /\ attempt' = 2 /\ output' = <<>> /\ pc' = "prepare"
          /\ UNCHANGED returned
       \/ /\ device' \in {"none", "noContext"}
          /\ pc' = "idle" /\ returned' = "failed"
          /\ UNCHANGED <<opencl, fallbackCount, activeBackend, attempt, output>>
    /\ UNCHANGED <<preferOpenCL, request, offset, cancelled>>

(* cancel(), from another thread. *)
Cancel ==
    /\ pc \notin {"idle", "dead"}
    /\ cancelled' = TRUE
    /\ UNCHANGED <<kvVars, modelVars, pc, request, attempt, offset, output, returned>>

(* The constructor: OpenCL if it is asked for, is there, and passes the    *)
(* probe and initialize(); the CPU if not, and the label says so.  If      *)
(* initialize() fails on the CPU there is no translator.                   *)
Construct ==
    \/ /\ preferOpenCL = TRUE /\ device = "opencl"
       /\ activeBackend = "OpenCL" /\ fallbackCount = 0
    \/ /\ preferOpenCL = TRUE /\ device = "cpu" /\ fallbackCount = 1
       /\ activeBackend = "CPU_unavailable"
    \/ /\ preferOpenCL = FALSE /\ device = "cpu"
       /\ activeBackend = "CPU" /\ fallbackCount = 0

Init ==
    /\ memory = <<>> /\ logits = <<>>
    /\ cached = NothingCached
    /\ Construct /\ opencl = (device = "opencl")
    /\ pc = "idle" /\ attempt = 1
    /\ request \in Request
    /\ offset = 0 /\ output = <<>> /\ returned = "waiting"
    /\ cancelled = FALSE

Running ==
    \/ Refuse \/ Die \/ Prepare \/ Prefill \/ Prefilled
    \/ \E token \in Token : Sample(token)
    \/ StopSampling \/ Finish \/ GiveUp \/ FallBackToCpu

Next == (\E r \in Request : Translate(r)) \/ Running \/ Cancel

(* A request that runs goes on. *)
Spec == Init /\ [][Next]_vars /\ WF_vars(Running)

-----------------------------------------------------------------------------
Cache ==
    [valid : BOOLEAN, tokens : Prompts, session : Sessions, scope : Scopes, positionMax : Int]

TypeOK ==
    /\ memory \in Seq(Entry) /\ logits \in Seq(Entry)
    /\ cached \in Cache \cup {NothingCached}
    /\ device \in {"opencl", "cpu", "none", "noContext"} /\ preferOpenCL \in BOOLEAN /\ opencl \in BOOLEAN
    /\ activeBackend \in {"OpenCL", "CPU", "CPU_inference_failed", "CPU_unavailable"}
    /\ fallbackCount \in Nat
    /\ pc \in {"idle", "prepare", "prefill", "sample", "catch", "dead"}
    /\ request \in Request
    /\ attempt \in {1, 2}
    /\ offset \in Nat /\ output \in Seq(Token)
    /\ returned \in {"waiting", "delivered", "failed"}
    /\ cancelled \in BOOLEAN

(* One fallback at most, whenever it happens: stats().fallback_count. *)
FallbackIsCounted ==
    /\ opencl => preferOpenCL /\ device # "cpu" /\ fallbackCount = 0
    /\ ~opencl => device = "cpu" /\ fallbackCount = IF preferOpenCL THEN 1 ELSE 0

(* While the prompt is evaluated nothing is remembered and the memory      *)
(* holds its beginning; the logits are of this memory when the whole       *)
(* prompt is in it.                                                        *)
PromptIsEvaluated ==
    /\ pc \in {"prepare", "prefill"} => output = <<>>
    /\ pc \in {"prefill", "sample"} => Fits /\ cached = NothingCached
    /\ pc = "prefill" /\ offset < Len(request.prompt) =>
         memory = Entries(SubSeq(request.prompt, 1, offset))
    /\ pc = "prefill" /\ offset >= Len(request.prompt) =>
         memory = Entries(request.prompt) /\ logits = memory

(* While tokens are sampled the memory holds this prompt and this output,  *)
(* evaluated for this session and scope, and the logits are of this        *)
(* memory.                                                                 *)
SampledFromPrompt ==
    pc = "sample" => memory = Entries(request.prompt \o output) /\ logits = memory

(* Between requests the prompt that is remembered is in the memory, for    *)
(* the session and scope that are remembered.                              *)
CacheDescribesMemory ==
    pc \in {"idle", "prepare"} /\ cached.valid =>
        /\ cached \in Cache
        /\ Len(cached.tokens) <= Len(memory)
        /\ \A i \in 1..Len(cached.tokens) :
             memory[i] = [token |-> cached.tokens[i], session |-> cached.session,
                          scope |-> cached.scope]

(***************************************************************************)
(* The context never overflows: a prompt is taken only with room for the   *)
(* longest output.                                                         *)
(***************************************************************************)
InsideContext == Len(memory) <= ContextSize

OutputIsBounded == Len(output) <= MaxOutput

(***************************************************************************)
(* What a request takes over from the one before is true of the memory,    *)
(* from the moment it is remembered to the last token that is evaluated,   *)
(* through errors, cancellations and the fallback of run() (smoke.cpp:     *)
(* "Divergent KV state contaminated another request", "Session change      *)
(* reused old KV state").                                                  *)
(***************************************************************************)
KvInv ==
    /\ TypeOK
    /\ FallbackIsCounted
    /\ PromptIsEvaluated
    /\ SampledFromPrompt
    /\ CacheDescribesMemory
    /\ InsideContext
    /\ OutputIsBounded

-----------------------------------------------------------------------------
(* The refinement: the memory, the cache and the devices are hidden.       *)

Phase == IF pc \in {"idle", "dead"} THEN returned ELSE "busy"

Continuations(r, text) == Likely(EntriesOf(r, r.prompt \o text))

Promise == INSTANCE Translation
    WITH phase <- Phase, restarts <- attempt - 1, MaxRestarts <- 1,
         Continues <- Continuations

(***************************************************************************)
(* Translations do not depend on what was translated before: with its KV   *)
(* cache, its retry on the CPU and its cancellation the translator         *)
(* implements the one without memory (translation.hpp: "compare            *)
(* prefix-cached results against a full prefill with identical model and   *)
(* sampling parameters").                                                  *)
(***************************************************************************)
ImplementsTranslation == Promise!Safety

(***************************************************************************)
(* Every request ends, also one that is cancelled, that reaches the output *)
(* limit, or whose engine fails twice; contextOwner is free again.         *)
(***************************************************************************)
RequestsEnd == Promise!Ends

(***************************************************************************)
(* docs/ACCELERATION.md: "The UI reports OpenCL only after the             *)
(* model/context load; any fallback changes the label to CPU."             *)
(***************************************************************************)
OpenClLabelMeansLoaded == activeBackend = "OpenCL" => device = "opencl"
=============================================================================
