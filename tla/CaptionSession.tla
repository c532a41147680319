--------------------------- MODULE CaptionSession ---------------------------
(***************************************************************************)
(* One caption session from the start of its threads until they are gone   *)
(* (CaptionSession.kt, SessionLifecycle.kt, AudioCapture.kt and the        *)
(* mailboxes of BoundedMailbox.kt).                                        *)
(*                                                                         *)
(* Four threads pass work along: the microphone fills audioQueue, the      *)
(* recognizer turns audio into utterances, the corrector may give an       *)
(* ended utterance a second hypothesis, and the Hy worker translates.      *)
(* They load their models first; the recognizer waits at a barrier until   *)
(* all have reported, and only then turns the microphone on.               *)
(* stop() lets each of them drain what the ones before it left; cancel()   *)
(* throws everything away.                                                 *)
(*                                                                         *)
(* A chunk of audio is its sequence number, an utterance the order in      *)
(* which it ended.  Atomic steps are single reads and writes of the        *)
(* atomics, and the synchronized blocks.  A thread that looks at           *)
(* isCancelled() and then acts is one step as well: `unaware' has the      *)
(* threads whose look may have come just before the cancellation, and      *)
(* which may still act after it.  The OPUS benchmark worker is switched    *)
(* off.                                                                    *)
(***************************************************************************)
EXTENDS Integers, Sequences, FiniteSets

CONSTANTS CorrectionEnabled,
          AudioCapacity,      \* of audioQueue (16)
          FinalsCapacity,     \* of finals (2)
          MaxChunks,          \* bound: chunks the microphone delivers
          MaxUtterances,      \* bound: utterances that end
          MaxPartials         \* bound: provisional requests

ASSUME SessionAssumption ==
    /\ CorrectionEnabled \in BOOLEAN
    /\ AudioCapacity \in Nat \ {0} /\ FinalsCapacity \in Nat \ {0}
    /\ MaxChunks \in Nat /\ MaxUtterances \in Nat /\ MaxPartials \in Nat

Chunks == 1..MaxChunks
Utterances == 1..MaxUtterances

Nothing == 0                  \* no chunk, utterance or request

(* startupWorkers, and those that a session cannot do without. *)
Workers == {"recognition", "hy"} \cup (IF CorrectionEnabled THEN {"correction"} ELSE {})
Required == {"recognition", "hy"}

VARIABLES cancelled, stopping, asrFinished, correctionFinished,  \* SessionLifecycle
          startup,            \* WorkerStartupBarrier: the outcomes reported
          interrupting,       \* cancel() has not yet called interruptWorkers()
          unaware,            \* may have read isCancelled() before it was set
          mic, active, captureFinished, captured,
          audioQueue, dropped, \* dropped: what droppedAudioMs counts
          asr, sawAudio, heard, previous, open, ended, endpointIn,
          provisional, finals, closed, partials,
          corrector, sawCorrection, correctionJob,
          correctionQueue, correctionBusy, correctionReady,
          hy, sawRequests, activeHyRequest, preempted,
          fate                \* what the caption row of an utterance shows

told == <<cancelled, stopping, asrFinished, correctionFinished, interrupting, startup>>
lifecycle == <<told, unaware>>
microphone == <<mic, active, captureFinished, captured>>
audio == <<audioQueue, dropped>>
recognition == <<asr, sawAudio, heard, previous, open, ended, endpointIn>>
mailboxes == <<provisional, finals, closed, partials>>
correction == <<corrector, sawCorrection, correctionJob>>
correctionMailbox == <<correctionQueue, correctionBusy, correctionReady>>
translation == <<hy, sawRequests, activeHyRequest, preempted>>
vars == <<lifecycle, microphone, audio, recognition, mailboxes, correction,
          correctionMailbox, translation, fate>>

(* A request for Hy is an utterance, or its negative for a provisional     *)
(* translation of what is still being spoken.                              *)
IsFinal(request) == request > 0

Provisionals == {-u : u \in Utterances}

(* activeFinalEndpoint is set *)
ActiveFinal == hy = "translating" /\ IsFinal(activeHyRequest)

ActiveProvisional == activeHyRequest # Nothing /\ ~IsFinal(activeHyRequest)

(* The threads that stand where isCancelled() is read before they act. *)
AtCheck ==
    {t \in {"mic", "asr", "corrector", "hy"} :
        \/ t = "mic" /\ mic \in {"holding", "holdingLast"}
        \/ t = "asr" /\ asr \in {"loop", "accepting", "flushing"}
        \/ t = "corrector" /\ corrector \in {"correcting", "timedOut", "draining"}
        \/ t = "hy" /\ hy = "translating"}

(* isCancelled() was, or is, off for thread t. *)
RunsOn(t) == ~cancelled \/ t \in unaware

(* t went on: it learns of a cancellation when it looks again. *)
LooksAgain(t) == unaware' = unaware \ {t}

-----------------------------------------------------------------------------
(* Starting up (WorkerStartupBarrier and what the workers do with it).     *)

(* Mutant: only what became ready is counted. *)
Report_ReadyOnly(worker, outcome) ==
    startup' = IF outcome = "ready" THEN [startup EXCEPT ![worker] = outcome] ELSE startup

(* ready() and failed(): the first outcome of a worker counts. *)
Report(worker, outcome) ==
    startup' = IF startup[worker] = "none" THEN [startup EXCEPT ![worker] = outcome]
               ELSE startup

AllReported == \A w \in Workers : startup[w] # "none"

RequiredFailures == {w \in Required : startup[w] = "failed"}

(* Mutant: a worker that fails says so and leaves. *)
Fail_ReportsOnly == UNCHANGED <<cancelled, stopping, interrupting, unaware>>

(* fail(): interruptWorkers() is a step of its own, whoever cancels. *)
Fail ==
    IF cancelled THEN UNCHANGED <<cancelled, stopping, interrupting, unaware>>
    ELSE /\ cancelled' = TRUE /\ stopping' = TRUE /\ interrupting' = TRUE
         /\ unaware' = AtCheck

(* recognize(): the recognizer is loaded, or is not. *)
AsrInitializes ==
    /\ asr = "starting"
    /\ \/ Report("recognition", "ready") /\ asr' = "awaiting"
       \/ Report("recognition", "failed") /\ asr' = "failing"
    /\ UNCHANGED <<cancelled, stopping, asrFinished, correctionFinished, interrupting,
                   unaware, microphone, audio, sawAudio, heard, previous, open, ended, endpointIn,
                   mailboxes, correction, correctionMailbox, translation, fate>>

(* startupBarrier.await() and requiredFailures(); the interrupt of a       *)
(* cancelled session ends the wait.                                        *)
AsrAwaits ==
    /\ asr = "awaiting"
    /\ \/ /\ AllReported
          /\ asr' = IF RequiredFailures # {} THEN "failing"
                    ELSE IF cancelled THEN "exit" ELSE "opening"
       \/ closed /\ asr' = "exit"
    /\ UNCHANGED <<lifecycle, microphone, audio, sawAudio, heard, previous, open, ended,
                   endpointIn, mailboxes, correction, correctionMailbox, translation, fate>>

AsrFails ==
    /\ asr = "failing"
    /\ Fail
    /\ asr' = "exit"
    /\ UNCHANGED <<asrFinished, correctionFinished, startup, microphone, audio, sawAudio,
                   heard, previous, open, ended, endpointIn, mailboxes, correction,
                   correctionMailbox, translation, fate>>

(* capture.start(): not if it has been cancelled. *)
StartCapture ==
    /\ asr = "opening"
    /\ mic' = IF active THEN "starting" ELSE mic
    /\ asr' = "loop"
    /\ UNCHANGED <<lifecycle, active, captureFinished, captured, audio, sawAudio, heard,
                   previous, open, ended, endpointIn, mailboxes, correction,
                   correctionMailbox, translation, fate>>

(* correctLoop(): a corrector that cannot be loaded is done without. *)
CorrectorInitializes ==
    /\ corrector = "starting"
    /\ \/ Report("correction", "ready") /\ corrector' = "ready"
       \/ Report("correction", "failed") /\ corrector' = "exit"
    /\ UNCHANGED <<cancelled, stopping, asrFinished, correctionFinished, interrupting,
                   unaware, microphone, audio, recognition, mailboxes, sawCorrection, correctionJob,
                   correctionMailbox, translation, fate>>

CorrectorBecomesReady ==
    /\ corrector = "ready"
    /\ correctionReady' = TRUE
    /\ corrector' = "loop"
    /\ UNCHANGED <<lifecycle, microphone, audio, recognition, mailboxes, sawCorrection,
                   correctionJob, correctionQueue, correctionBusy, translation, fate>>

(* translateLoop(): without a translator there is no session. *)
HyInitializes ==
    /\ hy = "starting"
    /\ \/ Report("hy", "ready") /\ hy' = "loop"
       \/ Report("hy", "failed") /\ hy' = "failing"
    /\ UNCHANGED <<cancelled, stopping, asrFinished, correctionFinished, interrupting,
                   unaware, microphone, audio, recognition, mailboxes, correction,
                   correctionMailbox, sawRequests, activeHyRequest, preempted, fate>>

HyFails ==
    /\ hy = "failing"
    /\ Fail
    /\ hy' = "done"
    /\ UNCHANGED <<asrFinished, correctionFinished, startup, microphone, audio, recognition,
                   mailboxes, correction, correctionMailbox, sawRequests, activeHyRequest,
                   preempted, fate>>

-----------------------------------------------------------------------------
(* The microphone thread (AudioCapture.loop and its callbacks).            *)

(* The device is opened and onStarted() says LISTENING; a failure of the   *)
(* device is a Cancel.                                                     *)
MicStarts ==
    /\ mic = "starting"
    /\ mic' = IF active THEN "reading" ELSE "ending"
    /\ UNCHANGED <<lifecycle, active, captureFinished, captured, audio, recognition,
                   mailboxes, correction, correctionMailbox, translation, fate>>

(* while (active.get()): a full frame was read. *)
MicReads ==
    /\ mic = "reading" /\ active
    /\ captured < MaxChunks
    /\ mic' = "holding"
    /\ UNCHANGED <<lifecycle, active, captureFinished, captured, audio, recognition,
                   mailboxes, correction, correctionMailbox, translation, fate>>

(* Mutant: a full mailbox turns the new chunk away. *)
OfferChunk_DropsNewest ==
    LET chunk == captured + 1 IN
    \/ cancelled /\ UNCHANGED <<captured, audioQueue, dropped>>
    \/ /\ RunsOn("mic")
       /\ captured' = chunk
       /\ IF closed \/ Len(audioQueue) = AudioCapacity
          THEN UNCHANGED audioQueue /\ dropped' = dropped \cup {chunk}
          ELSE audioQueue' = Append(audioQueue, chunk) /\ UNCHANGED dropped

(* onChunk, and BoundedMailbox.offer: the oldest chunk makes room, and a   *)
(* closed mailbox turns the new one away; either is counted.               *)
OfferChunk ==
    LET chunk == captured + 1 IN
    \/ cancelled /\ UNCHANGED <<captured, audioQueue, dropped>>
    \/ /\ RunsOn("mic")
       /\ captured' = chunk
       /\ IF closed
          THEN UNCHANGED audioQueue /\ dropped' = dropped \cup {chunk}
          ELSE IF Len(audioQueue) < AudioCapacity
          THEN audioQueue' = Append(audioQueue, chunk) /\ UNCHANGED dropped
          ELSE /\ audioQueue' = Append(Tail(audioQueue), chunk)
               /\ dropped' = dropped \cup {Head(audioQueue)}

MicOffers ==
    /\ mic \in {"holding", "holdingLast"}
    /\ OfferChunk
    /\ mic' = IF mic = "holding" THEN "reading" ELSE "ending"
    /\ LooksAgain("mic")
    /\ UNCHANGED <<told, active, captureFinished, recognition, mailboxes,
                   correction, correctionMailbox, translation, fate>>

(* active is off: a partly filled frame is kept for the recognizer, unless *)
(* an interrupt cuts the loop short.                                       *)
MicStops ==
    /\ mic = "reading" /\ ~active
    /\ \/ mic' = "holdingLast" /\ captured < MaxChunks
       \/ mic' = "ending"
    /\ UNCHANGED <<lifecycle, active, captureFinished, captured, audio, recognition,
                   mailboxes, correction, correctionMailbox, translation, fate>>

(* Mutant: captureFinished stays off. *)
MicFinishes_Silently ==
    /\ mic = "ending"
    /\ mic' = "done"
    /\ UNCHANGED <<lifecycle, active, captured, captureFinished, audio, recognition,
                   mailboxes, correction, correctionMailbox, translation, fate>>

(* onFinished: closeForDrain() refuses later chunks, of which there are    *)
(* none, and captureFinished is set.                                       *)
MicFinishes ==
    /\ mic = "ending"
    /\ mic' = "done"
    /\ captureFinished' = stopping
    /\ UNCHANGED <<lifecycle, active, captured, audio, recognition, mailboxes,
                   correction, correctionMailbox, translation, fate>>

Microphone == MicStarts \/ MicReads \/ MicOffers \/ MicStops \/ MicFinishes

-----------------------------------------------------------------------------
(* Requests for Hy, made by the recognizer and the corrector.              *)

Settle(lost, how) ==
    [u \in Utterances |-> IF u \in lost /\ fate[u] = "pending" THEN how ELSE fate[u]]

(* finals.offer: the request that is not in the mailbox afterwards. *)
Displaced(u) ==
    IF closed THEN {u}
    ELSE IF Len(finals) < FinalsCapacity THEN {} ELSE {Head(finals)}

OfferFinal(u) ==
    finals' = IF closed THEN finals
              ELSE Append(IF Displaced(u) = {} THEN finals ELSE Tail(finals), u)

(* Mutant: a final waits for the provisional request. *)
Preempt_Never == UNCHANGED preempted

(* finalTranslator.cancel() of the provisional request Hy works on. *)
Preempt == preempted' = (preempted \/ ActiveProvisional)

(* Mutant: a full queue loses a final without a word. *)
EnqueueFinal_DropsSilently(u) == OfferFinal(u) /\ Preempt /\ UNCHANGED fate

(* enqueueFinal: offer and preempt under hyScheduleLock, then skip the     *)
(* caption of the request that was dropped.                                *)
EnqueueFinal(u) ==
    /\ OfferFinal(u)
    /\ Preempt
    /\ fate' = Settle(Displaced(u), "skipped")

-----------------------------------------------------------------------------
(* The recognition thread (recognize, partial, endpoint).                  *)

(* Mutant: losses go unnoticed. *)
Gap_Never(chunk) == FALSE

(* AudioContinuity.gap *)
Gap(chunk) == previous # Nothing /\ chunk # previous + 1

AsrPolls ==
    /\ asr = "loop" /\ RunsOn("asr")
    /\ IF audioQueue = <<>>
       THEN asr' = "empty" /\ UNCHANGED <<audioQueue, heard, previous, open>>
       ELSE LET chunk == Head(audioQueue) IN
            /\ audioQueue' = Tail(audioQueue)
            /\ previous' = chunk
            /\ IF Gap(chunk)
               THEN asr' = "rebuilding" /\ UNCHANGED <<heard, open>>
               ELSE /\ heard' = heard \cup {chunk}
                    /\ open' = open \cup {chunk}
                    /\ asr' = "accepting"
    /\ LooksAgain("asr")
    /\ UNCHANGED <<told, microphone, dropped, sawAudio, ended, endpointIn, mailboxes,
                   correction, correctionMailbox, translation, fate>>

Queued == {audioQueue[i] : i \in DOMAIN audioQueue}

(* Mutant: the drained queue is not counted. *)
Discarded_ChunkOnly == {previous}

(* What a gap throws away: the chunk behind it and the whole queue, with   *)
(* what came while the new recognizer was loaded.                          *)
Discarded == {previous} \cup Queued

(* Mutant: what waits behind a gap is heard after all. *)
AsrRebuilds_KeepsQueue ==
    /\ asr = "rebuilding"
    /\ dropped' = dropped \cup {previous}
    /\ previous' = Nothing /\ open' = {}
    /\ asr' = "loop"
    /\ UNCHANGED <<lifecycle, microphone, audioQueue, sawAudio, heard, ended, endpointIn,
                   mailboxes, correction, correctionMailbox, translation, fate>>

(* Audio was lost: a fresh recognizer, and nothing from either side of the *)
(* gap.                                                                    *)
AsrRebuilds ==
    /\ asr = "rebuilding"
    /\ dropped' = dropped \cup Discarded
    /\ audioQueue' = <<>>
    /\ previous' = Nothing /\ open' = {}
    /\ asr' = "loop"
    /\ UNCHANGED <<lifecycle, microphone, sawAudio, heard, ended, endpointIn, mailboxes,
                   correction, correctionMailbox, translation, fate>>

(* The arguments of shouldFinishAsr: the queue's size is read first ... *)
AsrReadsSize ==
    /\ asr = "empty"
    /\ sawAudio' = (audioQueue # <<>>)
    /\ asr' = "deciding"
    /\ UNCHANGED <<lifecycle, microphone, audio, heard, previous, open, ended, endpointIn,
                   mailboxes, correction, correctionMailbox, translation, fate>>

(* ... captureFinished and the lifecycle later.  inferenceBusy is read by  *)
(* the one thread that sets it, outside accept(): it is off.               *)
ShouldFinishAsr == stopping /\ captureFinished /\ ~sawAudio

AsrDecides ==
    /\ asr = "deciding"
    /\ asr' = IF ShouldFinishAsr THEN "flushing" ELSE "loop"
    /\ sawAudio' = FALSE
    /\ UNCHANGED <<lifecycle, microphone, audio, heard, previous, open, ended,
                   endpointIn, mailboxes, correction, correctionMailbox, translation, fate>>

(* partial(): a provisional translation replaces the one still waiting.    *)
Partial ==
    /\ asr \in {"accepting", "flushing"}
    /\ RunsOn("asr")
    /\ open # {} /\ partials < MaxPartials /\ ended < MaxUtterances
    /\ partials' = partials + 1
    /\ provisional' = IF closed THEN provisional ELSE <<-(ended + 1)>>
    /\ \/ UNCHANGED preempted
       \/ Preempt
    /\ LooksAgain("asr")
    /\ UNCHANGED <<told, microphone, audio, recognition, finals, closed, correction,
                   correctionMailbox, hy, sawRequests, activeHyRequest, fate>>

(* The utterance had no text. *)
BlankEndpoint ==
    /\ asr \in {"accepting", "flushing"}
    /\ open # {}
    /\ open' = {}
    /\ LooksAgain("asr")
    /\ UNCHANGED <<told, microphone, audio, asr, sawAudio, heard, previous, ended,
                   endpointIn, mailboxes, correction, correctionMailbox, translation, fate>>

(* endpoint(): the row gets its final source; then it reads                *)
(* correctionReady, the first condition for a correction.                  *)
Endpoint ==
    /\ asr \in {"accepting", "flushing"}
    /\ open # {} /\ ended < MaxUtterances /\ RunsOn("asr")
    /\ open' = {}
    /\ ended' = ended + 1
    /\ fate' = [fate EXCEPT ![ended + 1] = "pending"]
    /\ endpointIn' = asr
    /\ asr' = IF CorrectionEnabled /\ correctionReady THEN "admitting" ELSE "enqueueing"
    /\ LooksAgain("asr")
    /\ UNCHANGED <<told, microphone, audio, sawAudio, heard, previous, mailboxes,
                   correction, correctionMailbox, translation>>

(* The arguments of CorrectionPolicy.admit, read one after the other: the  *)
(* audio that waits, the finals that wait, and the corrector's and Hy's    *)
(* work (correctionBusy is set by this thread only: what was off stays     *)
(* off).  Each of them, the length of the utterance and the corrector's    *)
(* speed may speak against it.                                             *)
Admit ==
    /\ \/ asr = "admitting" /\ Len(audioQueue) <= 1 /\ asr' = "weighing"
       \/ asr = "weighing" /\ finals = <<>> /\ asr' = "judging"
       \/ asr = "judging" /\ ~correctionBusy /\ ~ActiveFinal /\ asr' = "claiming"
       \/ asr \in {"admitting", "weighing", "judging"} /\ asr' = "enqueueing"
    /\ UNCHANGED <<lifecycle, microphone, audio, sawAudio, heard, previous, open, ended,
                   endpointIn, mailboxes, correction, correctionMailbox, translation, fate>>

(* correctionBusy.compareAndSet(false, true) *)
ClaimCorrector ==
    /\ asr = "claiming"
    /\ asr' = IF correctionBusy THEN "enqueueing" ELSE "offering"
    /\ correctionBusy' = TRUE
    /\ UNCHANGED <<lifecycle, microphone, audio, sawAudio, heard, previous, open, ended,
                   endpointIn, mailboxes, correction, correctionQueue, correctionReady,
                   translation, fate>>

(* correctionQueue.offer: a dropped job sends this request to Hy instead.  *)
OfferCorrection ==
    /\ asr = "offering"
    /\ IF closed
       THEN /\ correctionBusy' = FALSE
            /\ EnqueueFinal(ended)
            /\ UNCHANGED correctionQueue
       ELSE /\ correctionQueue' = <<ended>>
            /\ IF correctionQueue = <<>>
               THEN UNCHANGED <<correctionBusy, finals, preempted, fate>>
               ELSE correctionBusy' = FALSE /\ EnqueueFinal(ended)
    /\ asr' = endpointIn
    /\ UNCHANGED <<lifecycle, microphone, audio, sawAudio, heard, previous, open, ended,
                   endpointIn, provisional, closed, partials, correction, correctionReady,
                   hy, sawRequests, activeHyRequest>>

EnqueueUncorrected ==
    /\ asr = "enqueueing"
    /\ EnqueueFinal(ended)
    /\ asr' = endpointIn
    /\ UNCHANGED <<lifecycle, microphone, audio, sawAudio, heard, previous, open, ended,
                   endpointIn, provisional, closed, partials, correction,
                   correctionMailbox, hy, sawRequests, activeHyRequest>>

(* accept() returns; finish() returns once the last utterance was flushed. *)
AsrReturns ==
    /\ \/ asr = "accepting" /\ asr' = "loop"
       \/ asr = "flushing" /\ (open = {} \/ cancelled) /\ asr' = "exit"
    /\ LooksAgain("asr")
    /\ UNCHANGED <<told, microphone, audio, sawAudio, heard, previous, open, ended,
                   endpointIn, mailboxes, correction, correctionMailbox, translation, fate>>

(* The loop sees the cancellation. *)
AsrCancelled ==
    /\ asr = "loop" /\ cancelled
    /\ asr' = "exit"
    /\ LooksAgain("asr")
    /\ UNCHANGED <<told, microphone, audio, sawAudio, heard, previous, open, ended,
                   endpointIn, mailboxes, correction, correctionMailbox, translation, fate>>

(* The finally block: capture.cancel() and markAsrFinished(). *)
AsrExits ==
    /\ asr = "exit"
    /\ asr' = "done"
    /\ active' = FALSE
    /\ asrFinished' = TRUE
    /\ UNCHANGED <<cancelled, stopping, correctionFinished, interrupting, startup, unaware, mic,
                   captureFinished, captured, audio, sawAudio, heard, previous, open, ended,
                   endpointIn, mailboxes, correction, correctionMailbox, translation, fate>>

Recognition ==
    \/ AsrInitializes \/ AsrAwaits \/ AsrFails \/ StartCapture
    \/ AsrPolls \/ AsrRebuilds \/ AsrReadsSize \/ AsrDecides
    \/ Partial \/ BlankEndpoint \/ Endpoint \/ Admit \/ ClaimCorrector
    \/ OfferCorrection \/ EnqueueUncorrected \/ AsrReturns \/ AsrCancelled \/ AsrExits

-----------------------------------------------------------------------------
(* The correction thread (correctLoop).  What the decode itself does is    *)
(* the subject of CorrectionDecode.                                        *)

(* The arguments of shouldRunCorrection ... *)
CorrectorReads ==
    /\ corrector = "loop"
    /\ sawCorrection' = (correctionQueue # <<>> \/ correctionBusy)
    /\ corrector' = "deciding"
    /\ UNCHANGED <<lifecycle, microphone, audio, recognition, mailboxes, correctionJob,
                   correctionMailbox, translation, fate>>

(* ... and then the lifecycle. *)
ShouldRunCorrection == ~cancelled /\ (~stopping \/ ~asrFinished \/ sawCorrection)

CorrectorDecides ==
    /\ corrector = "deciding"
    /\ corrector' = IF ShouldRunCorrection THEN "polling" ELSE "exit"
    /\ sawCorrection' = FALSE
    /\ UNCHANGED <<lifecycle, microphone, audio, recognition, mailboxes, correctionJob,
                   correctionMailbox, translation, fate>>

CorrectorPolls ==
    /\ corrector = "polling"
    /\ IF correctionQueue = <<>>
       THEN corrector' = "loop" /\ UNCHANGED <<correctionQueue, correctionJob>>
       ELSE /\ correctionJob' = Head(correctionQueue)
            /\ correctionQueue' = Tail(correctionQueue)
            /\ corrector' = "correcting"
    /\ UNCHANGED <<lifecycle, microphone, audio, recognition, mailboxes, sawCorrection,
                   correctionBusy, correctionReady, translation, fate>>

(* The caption is gone. *)
CorrectionSuperseded ==
    /\ corrector = "correcting"
    /\ fate[correctionJob] # "pending"
    /\ corrector' = "jobDone"
    /\ LooksAgain("corrector")
    /\ UNCHANGED <<told, microphone, audio, recognition, mailboxes, sawCorrection,
                   correctionJob, correctionMailbox, translation, fate>>

(* The decode ended in time or failed: with the second hypothesis or the   *)
(* first, the utterance goes to Hy.  After a cancellation it does not.     *)
CorrectionDecided ==
    /\ corrector = "correcting"
    /\ corrector' = "jobDone"
    /\ \/ cancelled /\ UNCHANGED <<finals, preempted, fate>>
       \/ RunsOn("corrector") /\ EnqueueFinal(correctionJob)
    /\ LooksAgain("corrector")
    /\ UNCHANGED <<told, microphone, audio, recognition, provisional, closed, partials,
                   sawCorrection, correctionJob, correctionMailbox, hy, sawRequests,
                   activeHyRequest>>

(* Mutant: the timeout and the fallback after it both send the final. *)
CorrectionTimesOut_Sends ==
    /\ corrector = "correcting"
    /\ correctionReady' = FALSE
    /\ corrector' = "timedOut"
    /\ EnqueueFinal(correctionJob)
    /\ LooksAgain("corrector")
    /\ UNCHANGED <<told, microphone, audio, recognition, provisional, closed, partials,
                   sawCorrection, correctionJob, correctionQueue, correctionBusy, hy,
                   sawRequests, activeHyRequest>>

(* TimeoutException: no more corrections, and the uncorrected final now.   *)
CorrectionTimesOut ==
    /\ corrector = "correcting"
    /\ correctionReady' = FALSE
    /\ corrector' = "timedOut"
    /\ LooksAgain("corrector")
    /\ UNCHANGED <<told, microphone, audio, recognition, mailboxes, sawCorrection,
                   correctionJob, correctionQueue, correctionBusy, translation, fate>>

FallBack ==
    /\ corrector = "timedOut"
    /\ corrector' = "draining"
    /\ \/ cancelled /\ UNCHANGED <<finals, preempted, fate>>
       \/ RunsOn("corrector") /\ EnqueueFinal(correctionJob)
    /\ LooksAgain("corrector")
    /\ UNCHANGED <<told, microphone, audio, recognition, provisional, closed, partials,
                   sawCorrection, correctionJob, correctionMailbox, hy, sawRequests,
                   activeHyRequest>>

(* correctionQueue.drain(): what waits goes to Hy uncorrected. *)
DrainCorrections ==
    /\ corrector = "draining"
    /\ corrector' = "retired"
    /\ correctionQueue' = <<>>
    /\ \/ /\ correctionQueue = <<>> \/ cancelled
          /\ UNCHANGED <<finals, preempted, fate>>
       \/ /\ correctionQueue # <<>> /\ RunsOn("corrector")
          /\ EnqueueFinal(Head(correctionQueue))
    /\ LooksAgain("corrector")
    /\ UNCHANGED <<told, microphone, audio, recognition, provisional, closed, partials,
                   sawCorrection, correctionJob, correctionBusy, correctionReady, hy,
                   sawRequests, activeHyRequest>>

(* The finally block around a job: correctionBusy.set(false). *)
EndCorrection ==
    /\ corrector \in {"jobDone", "retired"}
    /\ corrector' = IF corrector = "jobDone" THEN "loop" ELSE "exit"
    /\ correctionBusy' = FALSE
    /\ correctionJob' = Nothing
    /\ UNCHANGED <<lifecycle, microphone, audio, recognition, mailboxes, sawCorrection,
                   correctionQueue, correctionReady, translation, fate>>

(* The finally block of correctLoop: markCorrectionFinished(). *)
CorrectorExits ==
    /\ corrector = "exit"
    /\ corrector' = "done"
    /\ correctionReady' = FALSE
    /\ correctionFinished' = TRUE
    /\ UNCHANGED <<cancelled, stopping, asrFinished, interrupting, startup, unaware,
                   microphone, audio, recognition, mailboxes, sawCorrection, correctionJob, correctionQueue,
                   correctionBusy, translation, fate>>

Correction ==
    \/ CorrectorInitializes \/ CorrectorBecomesReady
    \/ CorrectorReads \/ CorrectorDecides \/ CorrectorPolls
    \/ CorrectionSuperseded \/ CorrectionDecided \/ CorrectionTimesOut
    \/ FallBack \/ DrainCorrections \/ EndCorrection \/ CorrectorExits

-----------------------------------------------------------------------------
(* The Hy worker (translateLoop).                                          *)

(* The argument of shouldRunHyTranslation ... *)
HyReads ==
    /\ hy = "loop"
    /\ sawRequests' = (finals # <<>> \/ provisional # <<>>)
    /\ hy' = "deciding"
    /\ UNCHANGED <<lifecycle, microphone, audio, recognition, mailboxes, correction,
                   correctionMailbox, activeHyRequest, preempted, fate>>

ShouldRunHyTranslation ==
    ~cancelled /\ (~stopping \/ ~asrFinished \/ ~correctionFinished \/ sawRequests)

(* ... and then the lifecycle. *)
HyDecides ==
    /\ hy = "deciding"
    /\ hy' = IF ShouldRunHyTranslation THEN "polling" ELSE "done"
    /\ sawRequests' = FALSE
    /\ UNCHANGED <<lifecycle, microphone, audio, recognition, mailboxes, correction,
                   correctionMailbox, activeHyRequest, preempted, fate>>

(* Under hyScheduleLock: a final before a provisional request. *)
HyPolls ==
    /\ hy = "polling"
    /\ \/ /\ finals # <<>>
          /\ activeHyRequest' = Head(finals)
          /\ finals' = Tail(finals)
          /\ hy' = "checking"
          /\ UNCHANGED provisional
       \/ /\ finals = <<>> /\ provisional # <<>>
          /\ activeHyRequest' = Head(provisional)
          /\ provisional' = Tail(provisional)
          /\ hy' = "checking"
          /\ UNCHANGED finals
       \/ /\ finals = <<>> /\ provisional = <<>>
          /\ hy' = "loop"
          /\ UNCHANGED <<finals, provisional, activeHyRequest>>
    /\ UNCHANGED <<lifecycle, microphone, audio, recognition, closed, partials, correction,
                   correctionMailbox, sawRequests, preempted, fate>>

(* Mutant: a translation brings a cleared caption back. *)
SettleActive_Cleared(how) ==
    fate' = IF IsFinal(activeHyRequest) THEN [fate EXCEPT ![activeHyRequest] = how] ELSE fate

SettleActive(how) ==
    fate' = IF IsFinal(activeHyRequest) THEN Settle({activeHyRequest}, how) ELSE fate

(* The row moved on, or the final waited for more than 15 seconds. *)
HyRejects ==
    /\ hy = "checking"
    /\ \/ /\ IsFinal(activeHyRequest) => fate[activeHyRequest] # "pending"
          /\ UNCHANGED fate
       \/ IsFinal(activeHyRequest) /\ SettleActive("skipped")
    /\ hy' = "clearing"
    /\ UNCHANGED <<lifecycle, microphone, audio, recognition, mailboxes, correction,
                   correctionMailbox, sawRequests, activeHyRequest, preempted>>

HyStarts ==
    /\ hy = "checking"
    /\ IsFinal(activeHyRequest) => fate[activeHyRequest] = "pending"
    /\ hy' = "translating"
    /\ UNCHANGED <<lifecycle, microphone, audio, recognition, mailboxes, correction,
                   correctionMailbox, sawRequests, activeHyRequest, preempted, fate>>

(* The result is published, or a failure skips the caption.                *)
HyReturns ==
    /\ hy = "translating" /\ RunsOn("hy")
    /\ SettleActive("translated") \/ SettleActive("skipped")
    /\ hy' = "clearing"
    /\ LooksAgain("hy")
    /\ UNCHANGED <<told, microphone, audio, recognition, mailboxes, correction,
                   correctionMailbox, sawRequests, activeHyRequest, preempted>>

(* CancellationException: only what was preempted, or a cancelled session. *)
HyCancelled ==
    /\ hy = "translating"
    /\ preempted \/ cancelled
    /\ hy' = "clearing"
    /\ LooksAgain("hy")
    /\ UNCHANGED <<told, microphone, audio, recognition, mailboxes, correction,
                   correctionMailbox, sawRequests, activeHyRequest, preempted, fate>>

(* clearActiveHyRequest() *)
HyClears ==
    /\ hy = "clearing"
    /\ activeHyRequest' = Nothing
    /\ preempted' = FALSE
    /\ hy' = "loop"
    /\ UNCHANGED <<lifecycle, microphone, audio, recognition, mailboxes, correction,
                   correctionMailbox, sawRequests, fate>>

Translation ==
    \/ HyInitializes \/ HyFails \/ HyReads \/ HyDecides \/ HyPolls \/ HyRejects \/ HyStarts
    \/ HyReturns \/ HyCancelled \/ HyClears

-----------------------------------------------------------------------------
(* The service's calls, and the user's.  The service stops a session that  *)
(* is LISTENING and cancels one that is not yet.                           *)

Stop ==
    /\ mic \notin {"off", "starting"}
    /\ ~cancelled /\ ~stopping
    /\ stopping' = TRUE
    /\ active' = FALSE
    /\ UNCHANGED <<cancelled, asrFinished, correctionFinished, interrupting, startup, unaware,
                   mic, captureFinished, captured, audio, recognition, mailboxes, correction,
                   correctionMailbox, translation, fate>>

(* cancel(), and fail() of any worker. *)
Cancel ==
    /\ ~cancelled
    /\ cancelled' = TRUE /\ stopping' = TRUE
    /\ interrupting' = TRUE
    /\ unaware' = AtCheck
    /\ UNCHANGED <<asrFinished, correctionFinished, startup, microphone, audio, recognition,
                   mailboxes, correction, correctionMailbox, translation, fate>>

(* interruptWorkers(): every mailbox is closed and emptied. *)
InterruptWorkers ==
    /\ interrupting
    /\ interrupting' = FALSE
    /\ active' = FALSE
    /\ closed' = TRUE
    /\ audioQueue' = <<>> /\ provisional' = <<>> /\ finals' = <<>> /\ correctionQueue' = <<>>
    /\ UNCHANGED <<cancelled, stopping, asrFinished, correctionFinished, startup, unaware,
                   mic, captureFinished, captured, dropped, recognition, partials, correction,
                   correctionBusy, correctionReady, translation, fate>>

(* CaptionState.clear(), from the screen. *)
ClearCaptions ==
    /\ fate' = Settle(Utterances, "cleared")
    /\ fate' # fate
    /\ UNCHANGED <<lifecycle, microphone, audio, recognition, mailboxes, correction,
                   correctionMailbox, translation>>

-----------------------------------------------------------------------------
Init ==
    /\ cancelled = FALSE /\ stopping = FALSE
    /\ asrFinished = FALSE /\ correctionFinished = ~CorrectionEnabled
    /\ interrupting = FALSE /\ unaware = {}
    /\ startup = [w \in Workers |-> "none"]
    /\ mic = "off" /\ active = TRUE /\ captureFinished = FALSE /\ captured = 0
    /\ audioQueue = <<>> /\ dropped = {}
    /\ asr = "starting" /\ sawAudio = FALSE /\ heard = {} /\ previous = Nothing
    /\ open = {} /\ ended = 0 /\ endpointIn = "accepting"
    /\ provisional = <<>> /\ finals = <<>> /\ closed = FALSE /\ partials = 0
    /\ corrector = IF CorrectionEnabled THEN "starting" ELSE "done"
    /\ sawCorrection = FALSE /\ correctionJob = Nothing
    /\ correctionQueue = <<>> /\ correctionBusy = FALSE
    /\ correctionReady = FALSE
    /\ hy = "starting" /\ sawRequests = FALSE /\ activeHyRequest = Nothing /\ preempted = FALSE
    /\ fate = [u \in Utterances |-> "none"]

Next ==
    \/ Microphone \/ Recognition \/ Correction \/ Translation
    \/ Stop \/ Cancel \/ InterruptWorkers \/ ClearCaptions

(* Every thread is scheduled, and native calls return. *)
Fairness ==
    /\ WF_vars(Microphone) /\ WF_vars(Recognition)
    /\ WF_vars(Correction) /\ WF_vars(Translation)
    /\ WF_vars(InterruptWorkers)

Spec == Init /\ [][Next]_vars /\ Fairness

-----------------------------------------------------------------------------
FlagsOK ==
    /\ cancelled \in BOOLEAN /\ stopping \in BOOLEAN /\ interrupting \in BOOLEAN
    /\ asrFinished \in BOOLEAN /\ correctionFinished \in BOOLEAN
    /\ active \in BOOLEAN /\ captureFinished \in BOOLEAN /\ sawAudio \in BOOLEAN
    /\ closed \in BOOLEAN
    /\ sawCorrection \in BOOLEAN /\ correctionBusy \in BOOLEAN /\ correctionReady \in BOOLEAN
    /\ sawRequests \in BOOLEAN /\ preempted \in BOOLEAN

ThreadsOK ==
    /\ startup \in [Workers -> {"none", "ready", "failed"}]
    /\ unaware \subseteq {"mic", "asr", "corrector", "hy"}
    /\ mic \in {"off", "starting", "reading", "holding", "holdingLast", "ending", "done"}
    /\ asr \in {"starting", "awaiting", "failing", "opening", "loop", "empty", "rebuilding",
                "deciding", "accepting", "flushing", "admitting", "weighing", "judging",
                "claiming", "offering", "enqueueing", "exit", "done"}
    /\ endpointIn \in {"accepting", "flushing"}
    /\ corrector \in {"starting", "ready", "loop", "deciding", "polling", "correcting",
                      "timedOut", "draining", "jobDone", "retired", "exit", "done"}
    /\ hy \in {"starting", "failing", "loop", "deciding", "polling", "checking",
               "translating", "clearing", "done"}

AudioOK ==
    /\ captured \in 0..MaxChunks
    /\ mic \in {"holding", "holdingLast"} => captured < MaxChunks
    /\ audioQueue \in Seq(Chunks) /\ Len(audioQueue) <= AudioCapacity
    /\ dropped \subseteq Chunks /\ heard \subseteq Chunks /\ open \subseteq heard
    /\ previous \in 0..MaxChunks
    /\ asr = "rebuilding" => previous # Nothing

(* Where the recognizer has the request of the utterance that just ended. *)
Sending == {"admitting", "weighing", "judging", "claiming", "offering", "enqueueing"}

RequestsOK ==
    /\ ended \in 0..MaxUtterances /\ partials \in 0..MaxPartials
    /\ provisional \in Seq(Provisionals) /\ Len(provisional) <= 1
    /\ finals \in Seq(Utterances) /\ Len(finals) <= FinalsCapacity
    /\ correctionJob \in 0..MaxUtterances
    /\ corrector \in {"correcting", "timedOut"} => correctionJob # Nothing
    /\ correctionQueue \in Seq(Utterances) /\ Len(correctionQueue) <= 1
    /\ asr \in Sending => ended # 0
    /\ activeHyRequest \in {Nothing} \cup Utterances \cup Provisionals
    /\ fate \in [Utterances -> {"none", "pending", "translated", "skipped", "cleared"}]

(* No mailbox outgrows its capacity, and every job is one. *)
TypeOK == FlagsOK /\ ThreadsOK /\ AudioOK /\ RequestsOK

(* The utterances whose final request each of the places has. *)
AtRecognizer == IF asr \in Sending THEN {ended} ELSE {}
AtCorrectionQueue == {correctionQueue[i] : i \in DOMAIN correctionQueue}
AtCorrector == IF corrector \in {"correcting", "timedOut"} THEN {correctionJob} ELSE {}
AtFinals == {finals[i] : i \in DOMAIN finals}
AtHy == IF hy \in {"checking", "translating"} THEN {activeHyRequest} ELSE {}

Holders(u) ==
    {place \in {"recognizer", "correctionQueue", "corrector", "finals", "hy"} :
        \/ place = "recognizer" /\ u \in AtRecognizer
        \/ place = "correctionQueue" /\ u \in AtCorrectionQueue
        \/ place = "corrector" /\ u \in AtCorrector
        \/ place = "finals" /\ u \in AtFinals
        \/ place = "hy" /\ u \in AtHy}

NoDuplicates(queue) ==
    \A i, j \in DOMAIN queue : queue[i] = queue[j] => i = j

(***************************************************************************)
(* Until the session is cancelled, the final request of an utterance is    *)
(* never in two places, and one whose caption still waits for its          *)
(* translation is in exactly one: on its way through the corrector, past a *)
(* timeout, a full queue or a failure, no final is duplicated or forgotten.*)
(***************************************************************************)
HeldExactlyOnce ==
    ~cancelled =>
        /\ NoDuplicates(finals)
        /\ \A u \in Utterances :
             /\ Cardinality(Holders(u)) <= 1
             /\ fate[u] = "pending" => Holders(u) # {}

(***************************************************************************)
(* "A final can therefore either win the poll or preempt the active        *)
(* provisional; there is no race window in which it misses both."          *)
(***************************************************************************)
FinalPreemptsProvisional ==
    finals # <<>> /\ ActiveProvisional => preempted

(***************************************************************************)
(* Until the mailboxes of a cancelled session are closed, every captured   *)
(* chunk is heard, counted as dropped, or still to be heard or discarded,  *)
(* and only one of these.                                                  *)
(***************************************************************************)
AudioAccounted ==
    LET pending == IF asr = "rebuilding" THEN Queued \cup {previous} ELSE Queued IN
    ~closed =>
        /\ heard \cup dropped \cup pending = 1..captured
        /\ heard \cap dropped = {} /\ heard \cap pending = {} /\ dropped \cap pending = {}

(***************************************************************************)
(* "Do not join speech from either side into one hypothesis": what one     *)
(* utterance was recognized from is an unbroken stretch of audio.          *)
(***************************************************************************)
UtteranceIsContiguous ==
    \A c, d \in open : c..d \subseteq open

-----------------------------------------------------------------------------
(* What the four rest on.                                                  *)

(* Mailboxes are closed by a cancelled session only, and stay empty. *)
ClosedIsCancelled == closed \/ interrupting => cancelled

ClosedIsEmpty == closed => audioQueue = <<>>

(* The queue holds the chunks captured last, in order. *)
QueueIsRecent ==
    /\ Len(audioQueue) <= captured
    /\ \A i \in DOMAIN audioQueue : audioQueue[i] = captured - Len(audioQueue) + i

(* What was captured before is heard, dropped, or behind a gap. *)
Stray == IF asr = "rebuilding" THEN {previous} ELSE {}

PastIsAccounted ==
    ~closed =>
        /\ heard \cup dropped \cup Stray = 1..(captured - Len(audioQueue))
        /\ heard \cap dropped = {} /\ heard \cap Stray = {} /\ dropped \cap Stray = {}

(* An utterance ends with the chunk that was polled last. *)
UtteranceEndsAtPrevious ==
    asr # "rebuilding" /\ open # {} => previous \in open /\ \A c \in open : c <= previous

(* correctionBusy is taken for one job, from its admission to its end. *)
AtWork == corrector \in {"correcting", "timedOut", "draining", "jobDone", "retired"}

BusyCoversOneJob ==
    /\ asr = "offering" => correctionBusy /\ correctionQueue = <<>> /\ ~AtWork
    /\ correctionQueue # <<>> => correctionBusy /\ ~AtWork
    /\ AtWork => correctionBusy

(* A request is active from the poll to the end of its round, and only a   *)
(* provisional one is preempted: a final is not lost to HyCancelled.       *)
ActiveInRound ==
    /\ activeHyRequest # Nothing <=> hy \in {"checking", "translating", "clearing"}
    /\ preempted => ActiveProvisional

(* No two places have the request of an utterance, and none has one of an  *)
(* utterance that has not ended.                                           *)
HeldApart ==
    /\ NoDuplicates(finals)
    /\ AtRecognizer \cap (AtCorrectionQueue \cup AtCorrector \cup AtFinals \cup AtHy) = {}
    /\ AtCorrectionQueue \cap (AtCorrector \cup AtFinals \cup AtHy) = {}
    /\ AtCorrector \cap (AtFinals \cup AtHy) = {}
    /\ AtFinals \cap AtHy = {}

Held == AtRecognizer \cup AtCorrectionQueue \cup AtCorrector \cup AtFinals \cup AtHy

EndedIsNewest ==
    /\ \A u \in Held : u <= ended
    /\ \A u \in Utterances : u > ended => fate[u] = "none"

PendingIsHeld ==
    ~cancelled => \A u \in Utterances : fate[u] = "pending" => u \in Held

(***************************************************************************)
(* The session's bookkeeping of audio and of requests: strong enough to be *)
(* preserved by every step of every thread, and to give the four           *)
(* properties above.                                                       *)
(***************************************************************************)
SessionInv ==
    /\ TypeOK
    /\ ClosedIsCancelled
    /\ ClosedIsEmpty /\ QueueIsRecent /\ PastIsAccounted
    /\ UtteranceIsContiguous /\ UtteranceEndsAtPrevious
    /\ BusyCoversOneJob /\ ActiveInRound
    /\ FinalPreemptsProvisional
    /\ HeldApart /\ EndedIsNewest /\ PendingIsHeld

-----------------------------------------------------------------------------
(* What the session promises.                                              *)

Audio == INSTANCE AudioFlow WITH over <- closed, waiting <- Queued, taken <- Stray

(***************************************************************************)
(* Whatever the microphone, the recognizer and a cancellation do to the    *)
(* audio, and in which order, is a step of AudioFlow: chunks are heard in  *)
(* order and at most once, and one that is not heard was the oldest and    *)
(* made room for another, lies behind a gap, or met a closed mailbox.      *)
(***************************************************************************)
ImplementsAudioFlow == Audio!Spec

Captions == INSTANCE CaptionFlow WITH over <- cancelled, held <- Held \cap Utterances

(***************************************************************************)
(* Whatever the threads do with a final request is a step of CaptionFlow:  *)
(* it is handed on, or answered once; a caption that was settled stays as  *)
(* it is, though a timeout, a preemption or a full mailbox sends the       *)
(* request by another way.                                                 *)
(***************************************************************************)
ImplementsCaptionFlow == Captions!Spec

(* A gap is found where a chunk was dropped, and what was heard is past. *)
PreviousIsPast ==
    /\ previous <= captured - Len(audioQueue)
    /\ previous # Nothing => \A c \in heard : c <= previous
    /\ asr = "rebuilding" => previous - 1 \in dropped

-----------------------------------------------------------------------------
(* Every thread of the session is gone, so that join() returns. *)
Gone == mic \in {"off", "done"} /\ asr = "done" /\ corrector = "done" /\ hy = "done"

(***************************************************************************)
(* Nobody waits at the startup barrier for good: whichever worker fails to *)
(* load or is cancelled while it does, the session comes to listen with    *)
(* recognizer and translator in place, or ends by itself.                  *)
(***************************************************************************)
StartupEnds ==
    mic = "off" ~> \/ mic # "off" /\ \A w \in Required : startup[w] = "ready"
                   \/ Gone

(***************************************************************************)
(* The microphone is on only when every worker has reported to the barrier *)
(* and the ones a session needs have their models.                         *)
(***************************************************************************)
ListensOnlyWhenReady ==
    mic # "off" => AllReported /\ \A w \in Required : startup[w] = "ready"

Phase ==
    IF Gone THEN "dead"
    ELSE IF cancelled THEN "cancelled"
    ELSE IF stopping THEN "stopping"
    ELSE "running"

Life == INSTANCE SessionLife WITH Sessions <- {"this"}, phase <- [s \in {"this"} |-> Phase]

(***************************************************************************)
(* Seen from outside this is the session that CaptionService works with:   *)
(* it ends only after it was stopped or cancelled, by its owner or by a    *)
(* failure of its own, and no thread of it comes back.                     *)
(***************************************************************************)
EndsOnlyWhenTold == Life!Spec

(* What the two rest on: the recognizer goes past the barrier only when    *)
(* everybody is ready, and leaves only a session that was told to stop.    *)
ReadyBehindBarrier ==
    asr = "opening" \/ mic # "off" => AllReported /\ \A w \in Required : startup[w] = "ready"

LeavingIsTold ==
    /\ cancelled => stopping
    /\ asr \in {"flushing", "exit", "done"} => stopping
    /\ endpointIn = "flushing" => stopping

(***************************************************************************)
(* A session that is stopped or cancelled ends: join() finds every thread  *)
(* gone.                                                                   *)
(***************************************************************************)
StopTerminates == stopping ~> Gone

-----------------------------------------------------------------------------
(***************************************************************************)
(* stop() promises to "drain queued PCM, flush ASR and finish caption      *)
(* translations": unless the session was cancelled, no audio is left when  *)
(* the recognizer has gone, and no caption waits when Hy has.              *)
(***************************************************************************)
StopDrainsEverything ==
    ~cancelled =>
        /\ asr \in {"flushing", "exit", "done"} => audioQueue = <<>>
        /\ hy = "done" => \A u \in Utterances : fate[u] # "pending"
=============================================================================
