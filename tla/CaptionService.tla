--------------------------- MODULE CaptionService ---------------------------
(***************************************************************************)
(* The foreground service that starts, replaces and stops caption sessions *)
(* (CaptionService.kt), with the lifecycle half of CaptionState.           *)
(*                                                                         *)
(* Commands, termination reports and posted failures run one at a time on  *)
(* the main thread: each is one action.  A session lives on threads of its *)
(* own and is seen from outside: it starts to listen, fails, and dies some *)
(* time after it was stopped or cancelled.  A session is known by the      *)
(* generation that started it.                                             *)
(***************************************************************************)
EXTENDS Integers, FiniteSets

CONSTANT MaxRequests         \* bound: commands that take a generation

ASSUME ServiceAssumption == MaxRequests \in Nat

Generations == 1..MaxRequests

NoSession == 0

VARIABLES requests,           \* the generation taken last (companion object)
          created,            \* there is an instance of the service
          displayedGeneration, current, terminationWaiters,
          stopSelf,           \* stopSelfResult() was granted: onDestroy() follows
          lifecycle, generation,  \* of CaptionState
          session,            \* what each session is doing
          microphone,         \* where each one is in onStarted
          failing, posted,    \* onFailure is under way; its launch waits
          orphaned            \* history: onDestroy() met a session

serviceVars == <<requests, created, displayedGeneration, current, terminationWaiters,
                 stopSelf>>
stateVars == <<lifecycle, generation>>
sessionVars == <<session, microphone, failing, posted>>
vars == <<serviceVars, stateVars, sessionVars, orphaned>>

Session == {"none", "running", "stopping", "cancelled", "dead"}

Live(s) == session[s] \in {"running", "stopping", "cancelled"}

-----------------------------------------------------------------------------
(* CaptionState.  A call for another generation does nothing.              *)

(* cancel() and stopping() *)
Stopping(g) == IF g = generation THEN "STOPPING" ELSE lifecycle

Stopped(g, now) == IF g = generation THEN "STOPPED" ELSE now

(* Mutant: a late microphone undoes a stop. *)
Listening_AnyState(g) == IF g = generation THEN "LISTENING" ELSE lifecycle

Listening(g) == IF g = generation /\ lifecycle = "STARTING" THEN "LISTENING" ELSE lifecycle

-----------------------------------------------------------------------------
(* What is to be done when a session has terminated.                       *)

StartNext(g) == [kind |-> "start", request |-> g, stopped |-> NoSession]
FinishStop(stopped, g) == [kind |-> "stop", request |-> g, stopped |-> stopped]
Waiter == [kind : {"start", "stop"}, request : Generations, stopped : 0..MaxRequests]

(* Mutant: the session already has a waiter, and the new one is forgotten. *)
AfterTermination_FirstOnly(s, waiter) ==
    [terminationWaiters EXCEPT ![s] = IF @ = {} THEN {waiter} ELSE @]

AfterTermination(s, waiter) ==
    [terminationWaiters EXCEPT ![s] = @ \cup {waiter}]

(* stop() and cancel() of a session; a call that comes too late changes    *)
(* nothing.                                                                *)
StopSession(s) ==
    [session EXCEPT ![s] = IF @ = "running" THEN "stopping" ELSE @]

(* Mutant: a session is cancelled that is dead already. *)
CancelSession_Dead(s) == [session EXCEPT ![s] = "cancelled"]

CancelSession(s) ==
    [session EXCEPT ![s] = IF @ \in {"running", "stopping"} THEN "cancelled" ELSE @]

(* createAndStartSession: the threads start, or one cannot and the session *)
(* is cancelled at once.                                                   *)
CreateAndStartSession(g, sessions, waiters) ==
    /\ current' = g
    /\ \/ /\ session' = [sessions EXCEPT ![g] = "running"]
          /\ terminationWaiters' = waiters
       \/ /\ session' = [sessions EXCEPT ![g] = "cancelled"]
          /\ terminationWaiters' = [waiters EXCEPT ![g] = @ \cup {FinishStop(g, g)}]

Failed(g) == current' = g /\ session'[g] = "cancelled"

(* Mutant: the replacement does not wait. *)
StartCommand_Overlapping ==
    LET g == requests + 1 IN
    /\ requests < MaxRequests
    /\ requests' = g /\ created' = TRUE
    /\ displayedGeneration' = g
    /\ stopSelf' = FALSE
    /\ generation' = g
    /\ CreateAndStartSession(g, IF current = NoSession THEN session ELSE CancelSession(current),
                             terminationWaiters)
    /\ lifecycle' = IF Failed(g) THEN "STOPPING" ELSE "STARTING"
    /\ UNCHANGED <<microphone, failing, posted, orphaned>>

(* onStartCommand with a configuration, and CaptionState.begin(). *)
StartCommand ==
    LET g == requests + 1 IN
    /\ requests < MaxRequests
    /\ requests' = g /\ created' = TRUE
    /\ displayedGeneration' = g
    /\ stopSelf' = FALSE
    /\ generation' = g
    /\ IF current = NoSession
       THEN CreateAndStartSession(g, session, terminationWaiters)
       ELSE /\ session' = CancelSession(current)
            /\ terminationWaiters' = AfterTermination(current, StartNext(g))
            /\ UNCHANGED current
    /\ lifecycle' = IF Failed(g) THEN "STOPPING" ELSE "STARTING"
    /\ UNCHANGED <<microphone, failing, posted, orphaned>>

(* Mutant: STOPPED is announced while the session winds down. *)
StopCommand_DoesNotWait ==
    /\ requests < MaxRequests
    /\ requests' = requests + 1 /\ created' = TRUE
    /\ lifecycle' = Stopped(displayedGeneration, Stopping(displayedGeneration))
    /\ stopSelf' = TRUE
    /\ session' = IF current = NoSession THEN session ELSE CancelSession(current)
    /\ current' = NoSession
    /\ UNCHANGED <<displayedGeneration, terminationWaiters, generation, microphone,
                   failing, posted, orphaned>>

(* onStartCommand with ACTION_STOP: a listening session drains, one that   *)
(* starts or already stops is cancelled.                                   *)
StopCommand ==
    LET g == requests + 1 IN
    /\ requests < MaxRequests
    /\ requests' = g /\ created' = TRUE
    /\ IF current = NoSession
       THEN /\ lifecycle' = Stopped(displayedGeneration, Stopping(displayedGeneration))
            /\ stopSelf' = TRUE
            /\ UNCHANGED <<session, terminationWaiters>>
       ELSE /\ lifecycle' = Stopping(displayedGeneration)
            /\ stopSelf' = FALSE
            /\ session' = IF lifecycle = "LISTENING" THEN StopSession(current)
                          ELSE CancelSession(current)
            /\ terminationWaiters' =
                 AfterTermination(current, FinishStop(displayedGeneration, g))
    /\ UNCHANGED <<displayedGeneration, current, generation, microphone, failing, posted,
                   orphaned>>

(* onStartCommand with ACTION_OVERLAY while nothing runs. *)
OverlayCommand ==
    /\ lifecycle = "STOPPED"
    /\ stopSelf' = TRUE /\ created' = TRUE
    /\ UNCHANGED <<requests, displayedGeneration, current, terminationWaiters,
                   stateVars, sessionVars, orphaned>>

(* join() returned true: the waiting actions, of which only the one for    *)
(* the newest request still matters.                                       *)
SessionTerminated(s) ==
    LET waiters == [terminationWaiters EXCEPT ![s] = {}]
        due == {w \in terminationWaiters[s] : w.request = requests}
        without == IF current = s THEN NoSession ELSE current
    IN
    /\ session[s] = "dead"
    /\ terminationWaiters[s] # {}
    /\ \/ /\ due = {}
          /\ current' = without
          /\ terminationWaiters' = waiters
          /\ UNCHANGED <<session, lifecycle, stopSelf>>
       \/ \E w \in due :
             /\ w.kind = "start"
             /\ CreateAndStartSession(w.request, session, waiters)
             /\ lifecycle' = IF Failed(w.request) THEN Stopping(w.request) ELSE lifecycle
             /\ UNCHANGED stopSelf
       \/ \E w \in due :
             /\ w.kind = "stop"
             /\ current' = without
             /\ terminationWaiters' = waiters
             /\ lifecycle' = Stopped(w.stopped, lifecycle)
             /\ stopSelf' = TRUE
             /\ UNCHANGED session
    /\ UNCHANGED <<requests, created, displayedGeneration, generation, microphone, failing, posted,
                   orphaned>>

(* onDestroy(), by the service's own request or the system's, and the      *)
(* instance that the next command creates.                                 *)
Destroy ==
    /\ created
    /\ requests < MaxRequests
    /\ requests' = requests + 1 /\ created' = FALSE
    /\ terminationWaiters' = [s \in Generations |-> {}]
    /\ IF current = NoSession THEN UNCHANGED <<lifecycle, session>>
       ELSE lifecycle' = Stopping(current) /\ session' = CancelSession(current)
    /\ current' = NoSession
    /\ displayedGeneration' = NoSession
    /\ stopSelf' = FALSE
    /\ posted' = {}
    /\ orphaned' = (orphaned \/ current # NoSession)
    /\ UNCHANGED <<generation, microphone, failing>>

(* Mutant: nobody waits for a failed session. *)
FailureHandled_Forgets(s) ==
    /\ s \in posted
    /\ posted' = posted \ {s}
    /\ UNCHANGED <<serviceVars, stateVars, session, microphone, failing, orphaned>>

(* What onFailure launched on the main thread. *)
FailureHandled(s) ==
    /\ s \in posted
    /\ posted' = posted \ {s}
    /\ terminationWaiters' = IF s = requests /\ current = s
                             THEN AfterTermination(s, FinishStop(s, s))
                             ELSE terminationWaiters
    /\ UNCHANGED <<requests, created, displayedGeneration, current, stopSelf, stateVars,
                   session, microphone, failing, orphaned>>

-----------------------------------------------------------------------------
(* Sessions, on their own threads.                                         *)

(* onStarted of the microphone: isCancelled() ... *)
SessionStarts(s) ==
    /\ session[s] = "running" /\ microphone[s] = "off"
    /\ microphone' = [microphone EXCEPT ![s] = "starting"]
    /\ UNCHANGED <<serviceVars, stateVars, session, failing, posted, orphaned>>

(* ... and then CaptionState.listening(). *)
SessionListens(s) ==
    /\ microphone[s] = "starting"
    /\ microphone' = [microphone EXCEPT ![s] = "on"]
    /\ lifecycle' = Listening(s)
    /\ UNCHANGED <<serviceVars, generation, session, failing, posted, orphaned>>

(* fail(): lifecycle.cancel() ... *)
SessionFails(s) ==
    /\ session[s] \in {"running", "stopping"}
    /\ session' = [session EXCEPT ![s] = "cancelled"]
    /\ failing' = failing \cup {s}
    /\ UNCHANGED <<serviceVars, stateVars, microphone, posted, orphaned>>

(* ... and then onFailure: CaptionState.cancel() and scope.launch. *)
FailureReported(s) ==
    /\ s \in failing
    /\ failing' = failing \ {s}
    /\ lifecycle' = Stopping(s)
    /\ posted' = posted \cup {s}
    /\ UNCHANGED <<serviceVars, generation, session, microphone, orphaned>>

(* Every thread of a stopped or cancelled session has ended. *)
SessionDies(s) ==
    /\ session[s] \in {"stopping", "cancelled"}
    /\ s \notin failing /\ microphone[s] # "starting"
    /\ session' = [session EXCEPT ![s] = "dead"]
    /\ UNCHANGED <<serviceVars, stateVars, microphone, failing, posted, orphaned>>

-----------------------------------------------------------------------------
Init ==
    /\ requests = 0 /\ created = FALSE /\ displayedGeneration = NoSession
    /\ current = NoSession /\ stopSelf = FALSE
    /\ terminationWaiters = [s \in Generations |-> {}]
    /\ lifecycle = "STOPPED" /\ generation = -1
    /\ session = [s \in Generations |-> "none"]
    /\ microphone = [s \in Generations |-> "off"]
    /\ failing = {} /\ posted = {}
    /\ orphaned = FALSE

Command == StartCommand \/ StopCommand \/ OverlayCommand \/ Destroy

MainThread(s) == SessionTerminated(s) \/ FailureHandled(s)

Threads(s) == SessionListens(s) \/ FailureReported(s) \/ SessionDies(s)

Next ==
    \/ Command
    \/ \E s \in Generations :
         MainThread(s) \/ Threads(s) \/ SessionStarts(s) \/ SessionFails(s)

(* The main thread and the threads of a session run; a stopped session     *)
(* ends.  Nobody has to give a command.                                    *)
Fairness == \A s \in Generations : WF_vars(MainThread(s)) /\ WF_vars(Threads(s))

Spec == Init /\ [][Next]_vars /\ Fairness

-----------------------------------------------------------------------------
TypeOK ==
    /\ requests \in 0..MaxRequests
    /\ displayedGeneration \in 0..MaxRequests
    /\ current \in 0..MaxRequests
    /\ terminationWaiters \in [Generations -> SUBSET Waiter]
    /\ created \in BOOLEAN /\ stopSelf \in BOOLEAN
    /\ lifecycle \in {"STOPPED", "STARTING", "LISTENING", "STOPPING"}
    /\ generation \in Generations \cup {-1}
    /\ session \in [Generations -> Session]
    /\ microphone \in [Generations -> {"off", "starting", "on"}]
    /\ failing \subseteq Generations
    /\ posted \subseteq Generations
    /\ orphaned \in BOOLEAN

(***************************************************************************)
(* Two sessions never hold the microphone and the models at once: a        *)
(* replacement is created only after the threads of the session before it  *)
(* have ended, whatever commands and failures come in between              *)
(* (afterTermination).  A session that onDestroy() met is on its own.      *)
(***************************************************************************)
OneSessionAtATime ==
    ~orphaned => Cardinality({s \in Generations : Live(s)}) <= 1

(***************************************************************************)
(* CaptionState.running is off only when no session has a thread left:     *)
(* ModelRepository.remove() deletes the models of a session on the         *)
(* strength of it.                                                         *)
(***************************************************************************)
StoppedMeansDead ==
    ~orphaned /\ lifecycle = "STOPPED" => \A s \in Generations : ~Live(s)

(* What the two rest on: only the current session can have waiters or, if  *)
(* none was orphaned, be live; generations are taken in order, and a       *)
(* service that asked to be destroyed, or says STOPPED, has no session.    *)
OnlyCurrentHasWaiters ==
    \A s \in Generations : terminationWaiters[s] # {} => s = current

OnlyCurrentIsLive == \A s \in Generations : Live(s) => s = current

GenerationsAreFresh ==
    /\ \A s \in Generations : s > requests => session[s] = "none"
    /\ \A s \in Generations : \A w \in terminationWaiters[s] :
         w.kind = "start" => session[w.request] = "none" /\ w.request # NoSession

FailingIsCancelled == \A s \in failing : session[s] = "cancelled"

StartingIsLive == \A s \in Generations : microphone[s] = "starting" => Live(s)

StopSelfIsIdle == stopSelf => current = NoSession

StoppedIsIdle == lifecycle = "STOPPED" => current = NoSession

(***************************************************************************)
(* The service's bookkeeping of sessions: strong enough to be preserved by *)
(* every handler, and to give the two properties above (CaptionService's   *)
(* current and terminationWaiters).                                        *)
(***************************************************************************)
ServiceInv ==
    /\ TypeOK
    /\ OnlyCurrentHasWaiters
    /\ GenerationsAreFresh
    /\ FailingIsCancelled
    /\ StartingIsLive
    /\ StopSelfIsIdle
    /\ StoppedIsIdle
    /\ ~orphaned => OnlyCurrentIsLive

Life == INSTANCE SessionLife WITH Sessions <- Generations, phase <- session

(***************************************************************************)
(* The service asks of a session no more than SessionLife: each generation *)
(* gets one session, however many waiters or posted failures name it, and  *)
(* a session that has ended is never touched again.                        *)
(***************************************************************************)
SessionsLiveOnce == Life!Spec

(***************************************************************************)
(* The screen says LISTENING only of a session that was not told to stop;  *)
(* the microphone's late onStarted does not undo a stop, a restart or a    *)
(* reported failure (CaptionState.listening).                              *)
(***************************************************************************)
ListeningMeansRunning ==
    lifecycle = "LISTENING" =>
        /\ generation \in Generations
        /\ session[generation] = "running" \/ generation \in failing

(* What it rests on: the service displays the generation of CaptionState   *)
(* while it has a session, and that generation's session, once created, is *)
(* told to stop only together with CaptionState.                           *)
DisplayedIsNewest == current # NoSession => displayedGeneration = generation

AnnouncedRuns ==
    lifecycle \in {"STARTING", "LISTENING"} =>
        /\ generation \in Generations
        /\ \/ session[generation] = "running" \/ generation \in failing
           \/ lifecycle = "STARTING" /\ session[generation] = "none"

ListeningInv == DisplayedIsNewest /\ AnnouncedRuns

(***************************************************************************)
(* Whatever is stopping is stopped in the end, or replaced: no failure,    *)
(* repeated stop or restart loses the report of its termination.           *)
(***************************************************************************)
StoppingEnds ==
    lifecycle = "STOPPING" ~> (lifecycle # "STOPPING" \/ orphaned)

(***************************************************************************)
(* The newest start is served: its session is created, unless another      *)
(* command overtakes it.                                                   *)
(***************************************************************************)
NewestStartIsServed ==
    \A g \in Generations :
        (requests = g /\ lifecycle = "STARTING" /\ generation = g)
            ~> (session[g] # "none" \/ requests # g)
=============================================================================
