# Live Captions: a TLA+ verification project

Live Captions is an Android application that listens to the microphone,
recognizes speech with a native model, translates it with another and shows
source and translation as captions, all on the device. This directory holds
TLA+ models of its concurrent core, translated from the Kotlin and C++ sources
under `app/src/main/`, the TLC configurations that check them and the TLAPS
proofs about them. `PROJECT.json` lists components, runs, mutants, findings,
hazards and theorems, and maps each definition to the lines it stands for.

## 1. The system

| Component | Source | State | Operations |
|---|---|---|---|
| `StablePrefix` | `pipeline/Segments.kt` | last hypothesis, committed prefix | `accept`, `reset` |
| `SegmentLedger` | `pipeline/Segments.kt` | caption rows, open segment, session, ids | `source`, `translatePortion`, `reviseTranslated`, `skip`, `discontinuity`, `start`, `cancel`, `clear` |
| `CaptionState` | `service/CaptionState.kt` | the ledger, lifecycle, generation, metrics | synchronized wrappers of the ledger; `begin`, `listening`, `stopping`, `stopped`, `cancel` |
| `CaptionSession` | `service/CaptionSession.kt` | four mailboxes, active Hy request, correction flags | threads: recognition, correction, Hy, OPUS; `stop`, `cancel`, `fail`, `join` |
| `SessionLifecycle` | `service/SessionLifecycle.kt` | four flags | `shouldFinishAsr`, `shouldRunCorrection`, `shouldRunHyTranslation` |
| `NativeResourceUseGate` | `service/SessionLifecycle.kt` | call started/finished, retirement, closed | `beginCall`, `finishCall`, `retire` |
| `AudioCapture` | `audio/AudioCapture.kt` | active flag, partial frame | capture loop, `stopCapturing`, `cancel` |
| `BoundedMailbox`, `AudioContinuity` | `pipeline/BoundedMailbox.kt` | bounded queue; last sequence number | `offer`, `poll`, `size`, `close`; gap detection |
| `CaptionService` | `service/CaptionService.kt` | current session, waiters, request generation | start, stop and overlay commands, `onDestroy`, `afterTermination` |
| `NativeTranslator` | `i18n/NativeTranslator.kt` | native handle, active and cancelled request, lock | `translate`, `cancel`, `close` |
| `WorkerStartupBarrier` | `service/SessionLifecycle.kt` | outcome of each worker | `ready`, `failed`, `await`, `requiredFailures` |
| Native Hy translator | `cpp/translation.cpp` | model, KV cache, backend | prefill, sampling, progress, fallback to the CPU |
| Native OPUS translator | `cpp/translation.cpp` | keys and values of one request | encoder, greedy decoder loop |
| QNN engine and service | `asr/QnnEngine.kt`, `asr/QnnService.kt` | remote process, fallback engine | accept, flush, fall back |
| Models | `model/*.kt` | files, manifests, staging directory | download, verify, install, remove |
| Overlay, screens, telemetry, benchmarks | `overlay/`, `ui/`, `asr/*Telemetry.kt`, ... | preferences, measurements | rendering, reporting |

**How they interact.** The microphone thread offers chunks to the audio
mailbox. The recognition thread polls it, feeds the recognizer, and writes
every partial and every endpoint into `CaptionState` (a synchronized ledger).
It makes translation requests from the rows it gets back: provisional ones, of
which only the newest is kept, and finals. An endpoint may first go to the
correction thread, which decodes the utterance again on a thread of its own
under a deadline. The Hy thread picks a final before a provisional and
publishes results, which the ledger accepts or rejects by key, text, rank and
session. `CaptionService`, on the main thread, starts and stops sessions,
serializes them by waiting for `join()`, and drives the lifecycle that the
screen shows. `NativeTranslator` stands between the Hy thread and the native
model, and takes cancellations from other threads. Models are downloaded and
installed under a mutex that sessions do not take; a session verifies what it
loads.

**What is hard.** Results arrive after the row they were asked for has grown,
been revised, ended, been evicted or lost its session. Native calls cannot be
interrupted, so objects and audio must outlive them without leaking. Every
queue is bounded and drops. A graceful stop is a chain of threads that each
read a queue and a flag in two steps. Commands overlap with the termination of
the session before. A translator keeps its KV memory from one request to the
next. Installing a model may be cut off at any step, by the process or by the
power. The list of hazards in `PROJECT.json` gives each at its
line.

## 2. Modules

| Module | Models | Composes |
|---|---|---|
| `CaptionText` | texts as sequences of characters; trim, common prefix, word start, `sourceStillHasPrefix` | |
| `StablePrefix` | the class of that name | `CaptionText` |
| `SegmentLedger` | the ledger behind `CaptionState`, with the requests that call it late | `StablePrefix` |
| `CorrectionDecode` | corrector thread, decode threads, gate, `FutureTask`, PCM ownership, `join` | |
| `AudioFlow` | what a session promises about its audio | |
| `CaptionFlow` | what a session promises about its captions | |
| `SessionLife` | the life of a session as its owner sees it | |
| `CaptionSession` | microphone, recognition, correction and Hy threads, mailboxes, lifecycle | implements `AudioFlow`, `CaptionFlow` and `SessionLife` |
| `CaptionService` | commands, waiters, generations, lifecycle of the screen | stays within `SessionLife` |
| `NativeTranslator` | worker, cancelling threads, closing thread, native flag | |
| `Translation` | what an engine promises: an abstract translator without memory | |
| `HyMt` | the native translator: KV memory, prompt cache, prefill, sampling, fallback to the CPU | implements `Translation` |
| `Opus` | the native OPUS translator: the decoder loop and what it carries over | implements `Translation` |
| `TranslationProgress` | what is shown of a translation under way, in bytes | |
| `ModelInstall` | download, installation, verification and removal of a speech model and of a bundle | |
| `MC...` | constants for TLC | the module of the same name |
| `...Proofs` | theorems and lemmas | the module of the same name; `SegmentLedgerProofs` also of `StablePrefix`, `TranslationProofs` of `Opus` and `TranslationProgress` |

### CaptionText, StablePrefix

Characters fall into classes: letters, white space, and the two punctuation
lists of `Segments.kt` (`StablePunct`: the boundaries of `StablePrefix`;
`PortionPunct`: the shorter list of `sourceStillHasPrefix`). `Accept` and
`Reset` are the two methods; `StableNext` is any use of them. `SegmentLedger`
is one (theorem `LedgerUsesStablePrefix`), so the properties of the prefix are
checked in the ledger, which feeds it as `source()` does: trimmed, non-blank
text that differs from what the row holds.

### SegmentLedger

One action per synchronized operation. `Partial` and `Endpoint` are the calls
of the recognition thread together with the request each makes; `Progress`,
`Complete`, `GiveUp`, `Forget` and `Correct` are what a worker does with a
request it got some time ago, so any interleaving of late results is a
behaviour. A translation is represented by the source text it renders: that is
what makes it possible to say that a shown pair belongs together. The choice
whether to ask for a translation (length, word count and time policies) may go
either way. A skipped row that is still open comes back to life with the next
hypothesis, as in `source()`; `DeadStaysDead` therefore speaks of rows that
are not open, and of ids whose row is gone.

### CorrectionDecode

One program counter per thread. Atomic steps are the gate's synchronized
methods, the transitions of the `FutureTask` (external, from
`java.util.concurrent`), and single writes to PCM and native object. Deadline
and interrupt may come at each of them.

### CaptionSession

One program counter for each of the four threads. Every loop that reads a
queue and then a flag reads them in two actions, in the code's order. Reads
that cannot be told apart are merged: size and busy flag of the correction
mailbox (the flag covers the queue), the sizes of the Hy mailboxes, and the
skip of a displaced final with the offer that displaced it. The sizes and flags
that decide about a correction are read one by one (`Admit`), and
`ClaimCorrector` is the compare-and-set. A look at `isCancelled()` and what
follows it are one action, but a cancellation may come between the two: `unaware`
has the threads that stood at such a place when it came (`AtCheck`), each may act
once more as if it had not (`RunsOn`), and learns of it when it looks again
(`LooksAgain`). So a chunk may be offered to a closed mailbox, and a caption be
ended or answered after the cancellation. Rebuilding the
recognizer after a gap takes time: chunks may come, and overflow the queue,
before the queue is drained. `fail()` does what
`cancel()` does. The model begins with `start()`: recognizer, corrector and Hy
load or fail to, report to the barrier, and the recognizer opens the microphone
when everybody has reported and nobody it needs has failed. `Stop` waits until
the microphone has started: only then does the service stop gracefully
(`CaptionService.kt:122`). Chunks are sequence numbers,
utterances the order in which they end; `fate` is the stage of an utterance's
row. The OPUS worker is off, as in the default configuration.

Three abstract specifications say what all this is for. `AudioFlow` has no
queue and no recognizer: chunks that wait are heard, oldest first and once
(`Hear`), only the oldest makes room for a new one (`Capture`), the first chunk
behind a gap is taken and goes with all that wait by then (`Take`, `Discard`),
and from `Close` on nothing waits and new chunks are refused and counted. The
mapping takes the queue for the chunks that wait and the chunk for which the
recognizer is rebuilt for the one taken.
`CaptionFlow` has no mailboxes: the session holds one request for an utterance
that ended and answers it once. The mapping takes the union of all places
where a final may be. `SessionLife` is the life of a session seen from outside
(`Phase`): dead is when every thread is gone.

### CaptionService

Commands, termination reports and posted failures are actions of the main
thread; sessions are seen from outside. `stopSelf` is a granted
`stopSelfResult()`: a command that comes before `onDestroy()` takes it back.
`Destroy` comes after that or because the system says so, at any moment once
the service was created. Afterwards the variables are those of the instance
the next command creates, while `requests` and `CaptionState` live on.
`orphaned` is a history variable: `onDestroy()` met a session that had threads
left. It cancels such a session, but clears the waiters and forgets it.

The sessions of this model are those of `SessionLife`, and `SessionsLiveOnce`
says that the service moves them only as `SessionLife` allows. `CaptionSession`
provides the same life in detail, so the two modules meet in one contract. What
the service needs beyond it, that a stopped session does end, is the fairness
on `Die` here and `StopTerminates` there.

### NativeTranslator

The worker's way through `translateInternal`, step by step, and the `backend`
getter, which it calls before its first request and with the metrics of a
result; the getter holds the lock and the monitor while the native object is
read (`MonitorIsFree`). Against these run
`cancel(requestId)` of the picked request, `CaptionSession.cancel()` (flag,
read of the active request, cancellation of what was read) and `close()` by
any thread. That a late `cancel()` cannot hit a newer request is not a
property of the class: it follows from the session, whose loop picks nothing
once `lifecycle.cancel()` was called, so the loop is part of the model.
`asked` is a history variable.

### HyMt

Below `NativeTranslator`, one request at a time (`contextOwner`), with
`cancel()` from another thread. An entry of the KV memory is a token together
with the session and scope for which it was evaluated, so that reuse across
sessions shows even where the tokens are the same. `logits` is the memory for
which logits were computed last. `llama_decode` is external: it adds all
tokens or fails after a part of them. A round of a loop is one step; a
cancellation inside a round that the code notices at the next check comes
after the round in the model, one that aborts the decode is a failed decode.
Clock and statistics are left out; the progress callback may throw. A fallback
may fail to load the model (`device = "none"`) or, with the model loaded, to
create the context (`"noContext"`). The next request follows a null pointer
(`Die`), unless it is refused before (a cancellation, or, if there is a model,
its template, its tokenizer or the length of the prompt); a refused request that
was not cancelled tries the fallback again, one that was cancelled clears the
memory of a null context, which may or may not be let pass by `llama.cpp`.

`Promise` hides memory, cache, device and batches: `output`, `request` and
`cancelled` are those of `Translation`, `phase` is how the last request ended
or `busy`, `restarts` is the second attempt. `Translation` chooses each token
from what may follow the request and its output *for that request alone*
(`Continues`), so a translator that kept an entry of another session, sampled
from stale logits or delivered a text cut at the limit would not implement it.

### Opus

A key or value stands for what it was computed from. The merged decoder is
external: `Attended` is what a step sees, `Present` what it returns (the cached
branch returns empty cross-attention tensors, as the comment in the code says).
The refinement to `Translation` says that, in every layer, a step sees the
whole source and the whole output and nothing else.

### TranslationProgress

Real bytes, because the properties are about where texts are cut. `WellFormed`
is an independent definition of UTF-8 (a text that can be cut into shortest
encodings of scalar values) to which the scan is compared. `ScanEnd` is the
loop of `completeUtf8Prefix()` as a recursive function of the offset. The 80 ms
between two texts are a choice to publish or not.

### ModelInstall

Files are told apart by what the checks can tell: absent, cut, same size but
wrong, of an earlier pin, or the pinned content. Transfer, check, move,
extraction, manifest, deletion and clean-up are steps of their own, and
`Crash` may come between any two; a deletion goes entry by entry and may stop.
Each access to the disk may fail: a write or a move ends the attempt or the
operation, a deletion whose result is not looked at leaves something, and a
`verify()` that cannot read a good model starts a download that replaces it
(`op = "replace"`). `PowerCut` damages any part of what was written without a
sync (extracted files and manifests; downloaded files are synced); a manifest
that lost its archive or a size is rejected by every check like one that is
missing, so these are one case (`Torn`). The screen looks once for a session
before a row of downloads (`CaptionViewModel.kt:283`), and `download()` does
not look: a download may run beside a session. A session goes from the screen's check
through `CaptionState.running` and `verify()` to loading, beside the mutex.
Init is an empty disk or what an earlier version of the app installed.

## 3. Runs

| Run | Shows |
|---|---|
| `ledger` | two sessions, two segments, three revisions, one kept row (so rows are evicted), two late requests: seven properties of the stable text, of rows and of late results |
| `correction_decode` | three jobs with deadlines, interrupts and stops at any step: recognizer and PCM outlive the decode and are released before `join()` returns true; the corrector is never stuck and a stop releases everything |
| `session` | four chunks, two utterances, a provisional request, an audio queue and a final queue of one, from startup on: no utterance spans a gap, no final is lost or duplicated between threads, a final never waits behind a provisional, and the session implements `AudioFlow` and `CaptionFlow` |
| `session_stop` | whichever workers fail or are cancelled while they load, the session comes to listen with all it needs or ends; after stop or cancel every worker leaves its loop, and not before (`SessionLife`) |
| `service` | five commands in any order, `onDestroy()` at any moment: LISTENING is never said of a stopped session, the newest start is served, and each generation has one session that is not touched after its end; while no session was orphaned sessions do not overlap and STOPPING ends |
| `translator` | three requests, with the backend asked for before and after: the native translator outlives its use, a cancellation hits the request it names and no other, and `close()` returns |
| `hymt` | requests of two sessions and two scopes, any number one after another, that complete, fail or are cancelled at any token, on GPU and CPU: what is remembered of the memory is true (`KvInv`), the translator implements `Translation`, and every request ends |
| `opus` | texts of one to three pieces (the longest is refused), a model that prefers padding, a piece or the end depending on all it sees: the translator implements `Translation` |
| `progress` | four tokens out of bytes of every class the scan tells apart and pieces of several bytes, two attempts: the scan is exact, what is shown is whole words, and it grows within an attempt |
| `install` | a model of two files and a bundle of one, two faults of any kind at any step, one removal: only pinned content is loaded, reports are true, a usable model is not lost, asking again installs |

Runs that end in a violation compare the code with what its comments and docs
say. Each is a finding in `PROJECT.json`.

| Run | The comment or doc | What the code does |
|---|---|---|
| `session_stop_drain` | a stop drains queued PCM and finishes caption translations | the queue's size is read before `captureFinished`, so the last frame may stay; the run shows this window and stops there. The same property also fails where Hy reads its mailboxes before the flags and where a job is offered to a corrector that has left |
| `hymt_label` | any fallback changes the label to CPU | not if loading the CPU model fails: OpenCL is reported with nothing loaded |

**Bounds.** They are named constants in the guards of the actions. Two
sessions, segments and requests are the least with which work of one is late
for another; one kept row makes eviction happen. Three jobs or requests give a
late one, its successor, and one behind a close. A final queue
and an audio queue of one overflow with two utterances and three chunks; a
fourth comes while the recognizer is rebuilt (the code has 2 and 16: what
matters is that they overflow). Of these and a provisional request `MaxWork`
lets four things happen in one behaviour: a gap after an utterance, or two
utterances that meet in the queue, or a final that meets a provisional request
in it. A cancelled session is followed for three of these, or two utterances of
a chunk each (`WithinMaxWork`). For queues and numbers of any size there are the
theorems. A stop needs
one of each. Five commands allow a start, a
restart while the first session winds down, a stop during the wait, and two
more. Prompts of one to three tokens over two letters share no, some or all
tokens; a fourth length does not fit the context. Two layers and four steps
let a key be carried twice. Four tokens build characters of four bytes from
single bytes, and words from pieces. Two faults make a download fail or crash
and its successor meet another fault among the leftovers; the three attempts at
one file share one fault, so all of them may fail (`FetchFault`).
Each passing property has a mutant of the code that breaks it within the
same bounds.

**Deadlock.** `CHECK_DEADLOCK FALSE` where the system may end: a session that
was joined, a service without commands, a bound that is used up.

**Fairness.** Each thread is weakly fair: the scheduler runs it. In
`CorrectionDecode` the native decode is not fair, and `CorrectorIsNeverStuck`
needs only that the deadline of `FutureTask.get` passes;
`StopReleasesEverything` assumes that decodes return, and says so in its
formula. `Join` is fair because `afterTermination` retries it. In
`CaptionSession` native calls return. In `CaptionService` main thread and
session threads run and a stopped session ends, which is what `session_stop`
and `correction_decode` show; nobody has to give a command. In
`HyMt` a request that runs goes on (`Running`): `llama_decode` and the loads
return; that it ends is then a result. In `ModelInstall` an operation that was
begun goes on (`Working`); nobody has to begin one, and `AskingAgainInstalls`
is about somebody who asks again and again. In
`NativeTranslator` `run()` returns, bounded by the output limit, and the
closing thread gets the lock once it stays free: the worker takes a bounded
number of requests.

## 4. Proofs

The theorems hold for every value of the constants under the named
assumptions of the modules: bounds are naturals, classes of characters are
sets of characters, pieces are bytes, a decoder has at least one layer, and a
ranking names two different ids of the vocabulary (`RankedAssumption`).

- **SegmentLedgerProofs, stable prefix.** `CommittedHeadsHypothesis` is
  inductive with the type invariant; the action property
  `OnlyAgreedTextIsCommitted` follows from lemmas on `TrimEnd`, `CommonLength`
  and `WordStart` (each returns a prefix, no longer than its argument).
- **SegmentLedgerProofs, ledger.** The ledger implements `StableSpec`
  (`LedgerUsesStablePrefix`), so both properties hold of it too.
  `LedgerInv` is inductive. The properties alone are
  not: that a key identifies its text needs that requests carry revisions no
  newer than their row (`RequestsFollowRows`), that ids are below `nextId`
  (`RowsAreNumbered`), and that the open row is the active one
  (`ActiveRowIsOpen`); that finals are whole needs that rows which ended are
  settled (`EndedRowsAreSettled`) and that finished rows have the top rank.
  The action properties `FinishedRowStays`, `CoverageNeverRollsBack`,
  `DeadStaysDead` and `AppendOnlyGrowthKeepsTranslation` rest on one lemma,
  `RowStep`: under the invariant every step leaves a row alone or is one of a
  translation, a revision, a change of the source of the open row, or an end.
  That a finished row stays needs `CorrectionInv` too: a row that says REVISED
  was corrected, a corrected row is endpointed, and no request that still fits
  its row belongs to a corrected one; so a row is corrected at most once.
- **CaptionSessionProofs.** `SessionInv` has two halves that meet in the
  recognizer. Audio: the queue holds the chunks captured last, in order
  (`QueueIsRecent`), all earlier ones are accounted for until the mailboxes are
  closed (`PastIsAccounted`), a closed mailbox is empty (`ClosedIsEmpty`), and
  the open utterance ends with the chunk heard last (`UtteranceEndsAtPrevious`);
  without the last one `UtteranceIsContiguous` is not inductive. Requests:
  the busy flag covers one job, in the corrector's mailbox or at work
  (`BusyCoversOneJob`), a request is active exactly inside a round of Hy and
  only a provisional one is preempted (`ActiveInRound`), two places never hold the same final (`HeldApart`, for
  every pair of places), an utterance that has not ended is held nowhere and has
  no fate yet (`EndedIsNewest`), and a pending caption is held somewhere
  (`PendingIsHeld`). `HeldExactlyOnce` is the step from there to cardinality.
  For any number of chunks and utterances and any queue sizes, with every
  failure, preemption and cancellation of the model.
- **CaptionSessionProofs, refinements.** `SessionImplementsAudioFlow` needs one
  more fact than `SessionInv`: what was heard lies before `previous`, and a
  recognizer that is rebuilt is so because the chunk before was dropped
  (`PreviousIsPast`); it gives the order of hearing and the reason to discard.
  `SessionImplementsCaptionFlow` follows from `SessionInv`. Every action hands a
  final from one place to another, which is a stutter (`HandingOnStutters`), or is an end, an
  answer, a clearance, a cancellation, or a loss after one
  (`SpeechStep`, `HyStep`). Where one step both answers a displaced final and
  takes another, `ShiftExchanges` and `SendingAnswers` say which is which; there `HeldApart` is
  needed, so that nothing else moves.
- **CaptionSessionProofs, startup and end.** `ListensWhenReady` needs that the
  recognizer passes the barrier only when all are ready, and that no report is
  taken back afterwards (`ReadyBehindBarrier`). `SessionEndsWhenTold` needs
  that a recognizer which flushes or leaves was told to
  (`LeavingIsTold`; an endpoint remembers in `endpointIn` where it came from);
  that no thread comes back is a case for each action. Both are separate from
  `SessionInv`.
- **CorrectionDecodeProofs.** `DecodeInv` relates the corrector's program
  counter, the decode thread's, the task's state and the gate's four flags, and
  says who owns the samples; the safety properties are corollaries. One lemma
  per thread, one case per action.
- **CaptionServiceProofs.** `ServiceInv` holds whoever destroys the service:
  only the current session has waiters (`OnlyCurrentHasWaiters`), a session to
  be started is fresh and, while no session was orphaned, only the current one
  is live (`OnlyCurrentIsLive`) and a service which says STOPPED or asked to be
  destroyed has none. The overlap theorem takes the step from there to
  cardinality. `ListeningInv` adds what `ListeningMeansRunning` needs: the
  generation displayed is the newest one while there is a session
  (`DisplayedIsNewest`), and its session is told to stop only together with
  `CaptionState` (`AnnouncedRuns`). `ServiceKeepsSessionLife` is the
  refinement of `SessionLife` for any number of commands: a generation is fresh
  when its session is created, also by a start that waited for a termination
  (`GenerationsAreFresh`), and a stop or cancellation of a dead session leaves
  it dead.
- **NativeTranslatorProofs.** `TranslatorInv` ties the active id to the lock
  and to the worker's place (`ActiveIsInside`), cancellations to the request
  picked last (`AskedIsKnown`, `SeenIsLast`), and the native flag to the
  requests cancelled (`FlagIsForPicked`).
- **ModelInstallProofs.** `InstallInv` says what each step of a download has
  established when the next one, or a crash, comes: what is extracted is the
  pinned content (`StagedIsPinned`), a manifest that names the pinned archive
  has true hashes or none (`ManifestIsTrue`, the reason why a manifest that the
  app writes itself can be trusted), what a session verified is there or gone
  (`VerifiedOrGone`, the reason why removal beside it is harmless), and a
  download runs only for a model that does not verify (`DownloadIsNeeded`, the
  reason why discarding loses nothing). A download after a read error is the
  exception: `UsableIsNeverLost` lets it discard the model once the replacement
  in the staging directory verifies. For any files and any number of faults.
- **HyMtProofs.** `KvInv` ties memory, cache and logits to request and output
  at each program counter; it is inductive. `HyMtImplementsTranslation` is the
  refinement: initial states map to initial states, and under `KvInv` every
  step maps to a step of `Translation` or a stutter. For prompts of any length
  and any sampling distribution.
- **TranslationProofs, OPUS.** `OpusInv`: in every round after the first the
  encoder slots hold the source and the decoder slots, with the token to come,
  the output (`PastIsOutput`); the first round has no past
  (`RoundsAreCounted`). So a round attends to what is promised
  (`AttendsToAll`; this is where a layer of each kind is needed), and
  `OpusRefinesTranslation` maps each step to a step of `Translation`. For any
  ranking, any number of layers and texts of any length.
- **TranslationProofs, progress.** The loop of `completeUtf8Prefix()` is
  proved, not only run: it ends wherever it starts (`LoopEnds`, hence the
  recursion means what it says, `ScanUnfolds`), the table of leads and second
  bytes is exactly the shortest encodings of scalar values (`TableIsExact`, by
  the number of bytes), the rounds of the loop cut a text into encodings
  (`ScanIsCut`), and every other way to cut it is passed by the loop
  (`CutIsScanned`). `Utf8ScanIsExact` follows for texts of any length. That a
  word boundary is no byte inside a character (`AsciiIsAtCut`) then gives
  `WholeWordsAreShown`; with `ShownTextGrows` it is inductive, as the text only
  grows. The inductions over positions are stated as facts about sets of
  positions (`Upward`, `Downward`), which the provers can instantiate.

The inductive invariants other than `KvInv` are proved and not listed in the
configurations: each run checks the properties that follow from them.
`ClosedAtMostOnce`, `FreedAtMostOnce`, `ClosedIsFreed`, `StoppedMeansDead`,
`KeyIdentifiesText`, `AudioAccounted` and `ListensOnlyWhenReady` are
proved from the inductive invariants and have no run of their own: the runs
check what rests on them (`PortionCoversSource`, `ImplementsAudioFlow`,
`StartupEnds`). `WhatIsOverStays` is the conjunction of `EndedSessionFrozen`,
`FinishedRowStays` and `DeadStaysDead`, each with its own theorem and mutant.

Every invariant and every action property of the passing runs is proved. Only
model-checked: the liveness properties (`RequestsEnd`,
`AskingAgainInstalls`, `StartupEnds`, `StopTerminates`, `NewestStartIsServed`,
`StoppingEnds`, `CloseReturns`, `CorrectorIsNeverStuck`,
`StopReleasesEverything`), which are out of the prover's reach.

## 5. Known limits

- If the system destroys the service while a session runs, the waiters are
  cleared: the lifecycle stays STOPPING until the next start, and a new
  instance may start a session beside the dying one. `OneSessionAtATime`,
  `StoppedMeansDead` and `StoppingEnds` are claimed without that step only;
  `ListeningMeansRunning` and `NewestStartIsServed` hold with it, and say nothing
  about the lasting STOPPING or the overlap.
- `StablePrefix` compares characters: a hypothesis that ends inside a word of
  the one before commits the cut word, and `OnlyAgreedTextIsCommitted` is stated
  for characters accordingly. A committed word that grows letters ("a b", then
  "a bb") keeps the prefix, as it still heads the hypothesis; the comment
  "A revised earlier word invalidates the old prefix" (`Segments.kt:39`) can be
  read to say the opposite. No property here claims either.
- `sourceStillHasPrefix` does not list the full-width semicolon and colon that
  `StablePrefix` treats as boundaries: growth by one of them drops the
  translation until the next one arrives. `AppendOnlyGrowthKeepsTranslation`
  speaks of white space and the marks that are listed.
- `NativeTranslator.cancel()` acts on the active request; one that the worker
  has taken but not registered yet runs to its end, and the loop then discards
  its result. No property says how soon a cancelled session's request stops.
- `stop()` before the microphone starts would never end: `capture.start()`
  returns without a thread once `active` is down, and nobody sets
  `captureFinished`. It is safe because the service cancels a session that
  does not listen yet, which the guard of `Stop` states.
- Any error on the GPU that is not a cancellation (a prompt that is too long,
  the output limit, an exception of the progress callback) makes `HyMt` fall
  back to the CPU for good, with the label "inference failed". The retry starts
  its progress from nothing: the texts shown grow within an attempt only.
- The JNI callback returns silently when `NewByteArray` fails; the text is
  counted as shown. `TranslationProgress` ends at the callback.
- An error when `verify()` reads a good model is taken for an invalid one: the
  download fetches it again and discards the good one for the replacement. A
  crash between the two leaves no model until the next download.
- After a crash the archive stays in the cache until the next download;
  `remove()` does not delete `<id>.installing`. Neither is read by anything but
  the next download, which replaces them. `remove()` looks at
  `CaptionState.running` once: a session that begins meanwhile fails to verify
  or to load (`LoadsOnlyGenuine`).
- The OPUS worker of the session and the periodic metrics are not in the
  session model.
- `CaptionState`'s accounting of computed and displayed results is left out;
  no guard of the ledger reads it.
- Recognizers, ML Kit, llama.cpp and ONNX Runtime are third-party code; what
  the program sees of them is modelled at the calls.
- **Not modelled:** rendering, preferences, telemetry, benchmarks and scripts;
  `prepareTranslation` and the ML Kit translator, which hand over to a library;
  the QNN process. `smoke.cpp` and `translation-benchmark.cpp` are test
  programs. Of the C and C++ lines of the repository nineteen in twenty are the
  ONNX Runtime headers under `cpp/ort/`, which hold declarations and no logic
  of this program; the program's own C++ is `translation.cpp`, `translation.hpp`
  and `jni.cpp`, and most of the program is Kotlin.

## 6. What could come next

1. `QnnFallback`: the remote recognizer and its local replacement.
2. The corrector of `CaptionSession` as an abstraction of `CorrectionDecode`:
   today the two agree by construction (a job ends in time or is given up),
   not by a theorem.
3. The OPUS worker of a session, as a second consumer of the finals.
