------------------------ MODULE CaptionServiceProofs ------------------------
(***************************************************************************)
(* For any number of commands: as long as onDestroy() meets no session,    *)
(* sessions never overlap and STOPPED means that the last one is gone;     *)
(* LISTENING is said only of a session that runs.                          *)
(***************************************************************************)
EXTENDS CaptionService, FiniteSetTheorems, TLAPS

USE ServiceAssumption
    DEF Generations, NoSession, Session, Live, Waiter, serviceVars, stateVars, sessionVars,
        StartNext, FinishStop, AfterTermination, StopSession, CancelSession,
        Stopping, Stopped, Listening, Failed, CreateAndStartSession

(***************************************************************************)
(* A command keeps the service's bookkeeping: StartCommand hands the       *)
(* current session to the waiters before it replaces it, StopCommand waits *)
(* before it announces STOPPED.                                            *)
(***************************************************************************)
LEMMA CommandKeepsInv ==
    ASSUME ServiceInv, Command
    PROVE  ServiceInv'
<1>. USE DEF ServiceInv, OnlyCurrentHasWaiters, OnlyCurrentIsLive, GenerationsAreFresh,
             FailingIsCancelled, StartingIsLive, StopSelfIsIdle, StoppedIsIdle, TypeOK
<1>1. CASE StartCommand
  <2>1. TypeOK'
    <3>1. terminationWaiters' \in [Generations -> SUBSET Waiter]
      BY <1>1 DEF StartCommand
    <3>2. session' \in [Generations -> Session]
      BY <1>1 DEF StartCommand
    <3>3. stopSelf' \in BOOLEAN
      BY <1>1 DEF StartCommand
    <3>4. lifecycle' \in {"STOPPED", "STARTING", "LISTENING", "STOPPING"}
      BY <1>1 DEF StartCommand
    <3>5. /\ requests' \in 0..MaxRequests /\ displayedGeneration' \in 0..MaxRequests
          /\ current' \in 0..MaxRequests /\ generation' \in Generations \cup {-1}
      BY <1>1 DEF StartCommand
    <3>6. /\ microphone' \in [Generations -> {"off", "starting", "on"}]
          /\ failing' \subseteq Generations /\ posted' \subseteq Generations
      BY <1>1 DEF StartCommand
    <3>7. orphaned' \in BOOLEAN /\ created' \in BOOLEAN
      BY <1>1 DEF StartCommand
    <3>. QED  BY <3>1, <3>2, <3>3, <3>4, <3>5, <3>6, <3>7
  <2>2. OnlyCurrentHasWaiters' /\ (~orphaned' => OnlyCurrentIsLive')
    BY <1>1, SMTT(30) DEF StartCommand
  <2>3. GenerationsAreFresh'
    BY <1>1 DEF StartCommand
  <2>4. FailingIsCancelled'
    BY <1>1 DEF StartCommand
  <2>5. StartingIsLive'
    BY <1>1 DEF StartCommand
  <2>6. StopSelfIsIdle'
    BY <1>1 DEF StartCommand
  <2>7. StoppedIsIdle'
    BY <1>1 DEF StartCommand
  <2>. QED  BY <2>1, <2>2, <2>3, <2>4, <2>5, <2>6, <2>7
<1>2. CASE StopCommand
  <2>1. TypeOK'
    <3>1. terminationWaiters' \in [Generations -> SUBSET Waiter]
      BY <1>2 DEF StopCommand
    <3>2. session' \in [Generations -> Session]
      BY <1>2 DEF StopCommand
    <3>3. stopSelf' \in BOOLEAN
      BY <1>2 DEF StopCommand
    <3>4. lifecycle' \in {"STOPPED", "STARTING", "LISTENING", "STOPPING"}
      BY <1>2 DEF StopCommand
    <3>5. /\ requests' \in 0..MaxRequests /\ displayedGeneration' \in 0..MaxRequests
          /\ current' \in 0..MaxRequests /\ generation' \in Generations \cup {-1}
      BY <1>2 DEF StopCommand
    <3>6. /\ microphone' \in [Generations -> {"off", "starting", "on"}]
          /\ failing' \subseteq Generations /\ posted' \subseteq Generations
      BY <1>2 DEF StopCommand
    <3>7. orphaned' \in BOOLEAN /\ created' \in BOOLEAN
      BY <1>2 DEF StopCommand
    <3>. QED  BY <3>1, <3>2, <3>3, <3>4, <3>5, <3>6, <3>7
  <2>2. OnlyCurrentHasWaiters' /\ (~orphaned' => OnlyCurrentIsLive')
    BY <1>2 DEF StopCommand
  <2>3. GenerationsAreFresh'
    BY <1>2 DEF StopCommand
  <2>4. FailingIsCancelled'
    BY <1>2 DEF StopCommand
  <2>5. StartingIsLive'
    BY <1>2 DEF StopCommand
  <2>6. StopSelfIsIdle'
    BY <1>2 DEF StopCommand
  <2>7. StoppedIsIdle'
    BY <1>2 DEF StopCommand
  <2>. QED  BY <2>1, <2>2, <2>3, <2>4, <2>5, <2>6, <2>7
<1>3. CASE OverlayCommand
  BY <1>3 DEF OverlayCommand
<1>4. CASE Destroy
  <2>1. TypeOK'
    <3>1. terminationWaiters' \in [Generations -> SUBSET Waiter]
      BY <1>4 DEF Destroy
    <3>2. session' \in [Generations -> Session]
      BY <1>4 DEF Destroy
    <3>3. stopSelf' \in BOOLEAN
      BY <1>4 DEF Destroy
    <3>4. lifecycle' \in {"STOPPED", "STARTING", "LISTENING", "STOPPING"}
      BY <1>4 DEF Destroy
    <3>5. /\ requests' \in 0..MaxRequests /\ displayedGeneration' \in 0..MaxRequests
          /\ current' \in 0..MaxRequests /\ generation' \in Generations \cup {-1}
      BY <1>4 DEF Destroy
    <3>6. /\ microphone' \in [Generations -> {"off", "starting", "on"}]
          /\ failing' \subseteq Generations /\ posted' \subseteq Generations
      BY <1>4 DEF Destroy
    <3>7. orphaned' \in BOOLEAN /\ created' \in BOOLEAN
      BY <1>4 DEF Destroy
    <3>. QED  BY <3>1, <3>2, <3>3, <3>4, <3>5, <3>6, <3>7
  <2>2. OnlyCurrentHasWaiters' /\ (~orphaned' => OnlyCurrentIsLive')
    BY <1>4 DEF Destroy
  <2>3. GenerationsAreFresh'
    BY <1>4 DEF Destroy
  <2>4. FailingIsCancelled'
    BY <1>4 DEF Destroy
  <2>5. StartingIsLive'
    BY <1>4 DEF Destroy
  <2>6. StopSelfIsIdle'
    BY <1>4 DEF Destroy
  <2>7. StoppedIsIdle'
    BY <1>4 DEF Destroy
  <2>. QED  BY <2>1, <2>2, <2>3, <2>4, <2>5, <2>6, <2>7
<1>. QED  BY <1>1, <1>2, <1>3, <1>4 DEF Command

(***************************************************************************)
(* So does what runs on the main thread when a session has terminated or   *)
(* failed.                                                                 *)
(***************************************************************************)
LEMMA MainThreadKeepsInv ==
    ASSUME ServiceInv, NEW s \in Generations, MainThread(s)
    PROVE  ServiceInv'
<1>. USE DEF ServiceInv, OnlyCurrentHasWaiters, OnlyCurrentIsLive, GenerationsAreFresh,
             FailingIsCancelled, StartingIsLive, StopSelfIsIdle, StoppedIsIdle, TypeOK
<1>1. CASE SessionTerminated(s)
  <2>. HIDE DEF CreateAndStartSession
  <2>. DEFINE none == [r \in Generations |-> {}]
              idle == /\ terminationWaiters' = none
                      /\ session' = session /\ current' = NoSession
              started(g, as, waiters) ==
                      /\ session[g] = "none" /\ current' = g
                      /\ session' = [session EXCEPT ![g] = as]
                      /\ terminationWaiters' = waiters
                      /\ stopSelf' = stopSelf
                      /\ lifecycle' \in {lifecycle, "STOPPING"}
  <2>1. /\ current = s /\ s # NoSession /\ ~stopSelf /\ lifecycle # "STOPPED"
        /\ session[s] = "dead"
    BY <1>1 DEF SessionTerminated
  <2>2. [terminationWaiters EXCEPT ![s] = {}] = none
    BY <2>1
  <2>3. /\ UNCHANGED <<requests, created, displayedGeneration, generation>>
        /\ UNCHANGED <<microphone, failing, posted, orphaned>>
    BY <1>1 DEF SessionTerminated
  <2>4. \/ idle /\ lifecycle' = lifecycle /\ stopSelf' = stopSelf
        \/ idle /\ lifecycle' \in {lifecycle, "STOPPED"} /\ stopSelf' = TRUE
        \/ \E g \in Generations :
             /\ g = requests
             /\ \/ started(g, "running", none)
                \/ started(g, "cancelled", [none EXCEPT ![g] = {FinishStop(g, g)}])
    <3>1. \/ idle /\ lifecycle' = lifecycle /\ stopSelf' = stopSelf
          \/ \E w \in terminationWaiters[s] :
               /\ w.request = requests /\ w.kind = "start"
               /\ CreateAndStartSession(w.request, session, none)
               /\ lifecycle' \in {lifecycle, "STOPPING"} /\ stopSelf' = stopSelf
          \/ idle /\ lifecycle' \in {lifecycle, "STOPPED"} /\ stopSelf' = TRUE
      BY <1>1, <2>1, <2>2, SMTT(30) DEF SessionTerminated
    <3>2. ASSUME NEW w \in terminationWaiters[s], w.request = requests, w.kind = "start",
                 CreateAndStartSession(w.request, session, none),
                 lifecycle' \in {lifecycle, "STOPPING"}, stopSelf' = stopSelf
          PROVE  \E g \in Generations :
                   /\ g = requests
                   /\ \/ started(g, "running", none)
                      \/ started(g, "cancelled", [none EXCEPT ![g] = {FinishStop(g, g)}])
      <4>1. requests \in Generations /\ session[requests] = "none"
        BY <3>2
      <4>2. [none EXCEPT ![requests] = @ \cup {FinishStop(requests, requests)}]
              = [none EXCEPT ![requests] = {FinishStop(requests, requests)}]
        BY <4>1
      <4>. QED  BY <3>2, <4>1, <4>2 DEF CreateAndStartSession
    <3>. QED  BY <3>1, <3>2
  <2>5. CASE idle /\ lifecycle' \in {lifecycle, "STOPPED"} /\ stopSelf' \in BOOLEAN
    BY <2>1, <2>3, <2>5
  <2>6. ASSUME NEW g \in Generations, g = requests, started(g, "running", none)
        PROVE  ServiceInv'
    BY <2>1, <2>3, <2>6
  <2>7. ASSUME NEW g \in Generations, g = requests,
               started(g, "cancelled", [none EXCEPT ![g] = {FinishStop(g, g)}])
        PROVE  ServiceInv'
    BY <2>1, <2>3, <2>7
  <2>. QED  BY <2>4, <2>5, <2>6, <2>7
<1>2. CASE FailureHandled(s)
  BY <1>2 DEF FailureHandled
<1>. QED  BY <1>1, <1>2 DEF MainThread

(***************************************************************************)
(* So does a session on its own threads.                                   *)
(***************************************************************************)
LEMMA SessionKeepsInv ==
    ASSUME ServiceInv, NEW s \in Generations,
           Threads(s) \/ SessionStarts(s) \/ SessionFails(s)
    PROVE  ServiceInv'
<1>. USE DEF ServiceInv, OnlyCurrentHasWaiters, OnlyCurrentIsLive, GenerationsAreFresh,
             FailingIsCancelled, StartingIsLive, StopSelfIsIdle, StoppedIsIdle, TypeOK
<1>1. CASE SessionStarts(s)
  BY <1>1 DEF SessionStarts
<1>2. CASE SessionListens(s)
  BY <1>2 DEF SessionListens
<1>3. CASE SessionFails(s)
  BY <1>3 DEF SessionFails
<1>4. CASE FailureReported(s)
  BY <1>4 DEF FailureReported
<1>5. CASE SessionDies(s)
  BY <1>5 DEF SessionDies
<1>. QED  BY <1>1, <1>2, <1>3, <1>4, <1>5 DEF Threads

(***************************************************************************)
(* The service's bookkeeping of current, terminationWaiters and requests   *)
(* is an invariant, whoever destroys the service and when.                 *)
(***************************************************************************)
THEOREM ServiceInvariant == Spec => []ServiceInv
<1>1. Init => ServiceInv
  <2>. SUFFICES ASSUME Init PROVE ServiceInv
    OBVIOUS
  <2>1. TypeOK
    <3>1. stopSelf \in BOOLEAN /\ orphaned \in BOOLEAN /\ created \in BOOLEAN
      BY DEF Init
    <3>2. terminationWaiters \in [Generations -> SUBSET Waiter]
      BY DEF Init
    <3>. QED  BY <3>1, <3>2 DEF Init, TypeOK
  <2>2. /\ OnlyCurrentHasWaiters /\ OnlyCurrentIsLive /\ GenerationsAreFresh
        /\ FailingIsCancelled /\ StartingIsLive
    BY DEF Init, OnlyCurrentHasWaiters, OnlyCurrentIsLive, GenerationsAreFresh,
           FailingIsCancelled, StartingIsLive
  <2>3. StopSelfIsIdle /\ StoppedIsIdle
    BY DEF Init, StopSelfIsIdle, StoppedIsIdle
  <2>. QED  BY <2>1, <2>2, <2>3 DEF ServiceInv
<1>2. ServiceInv /\ [Next]_vars => ServiceInv'
  <2>1. ServiceInv /\ UNCHANGED vars => ServiceInv'
    BY DEF vars, ServiceInv, OnlyCurrentHasWaiters, OnlyCurrentIsLive, GenerationsAreFresh,
           FailingIsCancelled, StartingIsLive, StopSelfIsIdle, StoppedIsIdle, TypeOK
  <2>2. ServiceInv /\ Next => ServiceInv'
    BY CommandKeepsInv, MainThreadKeepsInv, SessionKeepsInv DEF Next
  <2>. QED  BY <2>1, <2>2
<1>. QED  BY <1>1, <1>2, PTL DEF Spec

(***************************************************************************)
(* Two sessions never hold the microphone and the models at once, however  *)
(* many starts, stops and failures there are.                              *)
(***************************************************************************)
THEOREM SessionsNeverOverlap == Spec => []OneSessionAtATime
<1>1. ServiceInv => OneSessionAtATime
  <2>. SUFFICES ASSUME ServiceInv, ~orphaned
                PROVE  Cardinality({s \in Generations : Live(s)}) <= 1
    BY DEF OneSessionAtATime
  <2>. DEFINE live == {s \in Generations : Live(s)}
  <2>1. live \subseteq {current}
    BY DEF ServiceInv, OnlyCurrentIsLive
  <2>2. IsFiniteSet({current}) /\ Cardinality({current}) = 1
    BY FS_Singleton
  <2>3. Cardinality(live) <= 1
    BY <2>1, <2>2, FS_Subset
  <2>. QED  BY <2>3
<1>. QED  BY <1>1, ServiceInvariant, PTL

(***************************************************************************)
(* When CaptionState says STOPPED no session has a thread left, so         *)
(* ModelRepository.remove() may delete its models.                         *)
(***************************************************************************)
THEOREM StoppedSessionsAreGone == Spec => []StoppedMeansDead
<1>1. ServiceInv => StoppedMeansDead
  BY DEF ServiceInv, TypeOK, OnlyCurrentIsLive, StoppedIsIdle, StoppedMeansDead
<1>. QED  BY <1>1, ServiceInvariant, PTL

(***************************************************************************)
(* A session that CaptionState announces loses the announcement in the     *)
(* step that stops or cancels it, except for fail(), which reports a       *)
(* little later.                                                           *)
(***************************************************************************)
LEMMA CommandKeepsAnnouncement ==
    ASSUME ServiceInv, ListeningInv, Command
    PROVE  ListeningInv'
<1>. USE DEF ListeningInv, DisplayedIsNewest, AnnouncedRuns
<1>1. /\ requests \in 0..MaxRequests /\ current \in 0..MaxRequests
      /\ session \in [Generations -> Session] /\ failing \subseteq Generations
      /\ \A s \in Generations : s > requests => session[s] = "none"
  BY DEF ServiceInv, TypeOK, GenerationsAreFresh
<1>2. CASE StartCommand
  <2>. DEFINE g == requests + 1
  <2>1. /\ g \in Generations /\ session[g] = "none"
        /\ generation' = g /\ displayedGeneration' = g /\ UNCHANGED failing
    BY <1>1, <1>2 DEF StartCommand
  <2>2. CASE current = NoSession
    BY <1>1, <1>2, <2>1, <2>2 DEF StartCommand
  <2>3. CASE current # NoSession
    <3>1. session' = CancelSession(current) /\ current' = current
      BY <1>2, <2>3 DEF StartCommand
    <3>2. session'[g] = "none"
      BY <1>1, <2>1, <3>1
    <3>3. lifecycle' = "STARTING"
      BY <1>2, <3>2 DEF StartCommand
    <3>. QED  BY <2>1, <3>2, <3>3
  <2>. QED  BY <2>2, <2>3
<1>3. CASE StopCommand
  <2>1. UNCHANGED <<displayedGeneration, current, generation, failing>>
    BY <1>3 DEF StopCommand
  <2>2. CASE current = NoSession
    BY <1>3, <2>1, <2>2 DEF StopCommand
  <2>3. CASE current # NoSession
    <3>1. lifecycle' = "STOPPING"
      BY <1>3, <2>3 DEF StopCommand
    <3>. QED  BY <2>1, <3>1
  <2>. QED  BY <2>2, <2>3
<1>4. CASE OverlayCommand
  BY <1>4 DEF OverlayCommand
<1>5. CASE Destroy
  <2>1. current' = NoSession /\ UNCHANGED <<generation, failing>>
    BY <1>5 DEF Destroy
  <2>2. CASE current = NoSession \/ current # generation
    BY <1>1, <1>5, <2>1, <2>2 DEF Destroy
  <2>3. CASE current # NoSession /\ current = generation
    BY <1>5, <2>1, <2>3 DEF Destroy
  <2>. QED  BY <2>2, <2>3
<1>. QED  BY <1>2, <1>3, <1>4, <1>5 DEF Command

LEMMA MainThreadKeepsAnnouncement ==
    ASSUME ServiceInv, ListeningInv, NEW s \in Generations, MainThread(s)
    PROVE  ListeningInv'
<1>. USE DEF ListeningInv, DisplayedIsNewest, AnnouncedRuns
<1>1. CASE SessionTerminated(s)
  <2>1. /\ current = s /\ s # NoSession
        /\ UNCHANGED <<displayedGeneration, generation, failing>>
    BY <1>1 DEF SessionTerminated, ServiceInv, OnlyCurrentHasWaiters
  <2>2. DisplayedIsNewest'
    BY <2>1
  <2>3. \/ session' = session /\ lifecycle' \in {lifecycle, "STOPPED"}
        \/ \E g \in Generations :
             \/ session' = [session EXCEPT ![g] = "running"] /\ lifecycle' = lifecycle
             \/ /\ session' = [session EXCEPT ![g] = "cancelled"]
                /\ lifecycle' = Stopping(g)
    <3>1. CASE session' = session /\ lifecycle' \in {lifecycle, "STOPPED"}
      BY <3>1
    <3>2. ASSUME NEW w \in terminationWaiters[s], w.kind = "start",
                 CreateAndStartSession(w.request, session,
                                       [terminationWaiters EXCEPT ![s] = {}]),
                 lifecycle' = IF Failed(w.request) THEN Stopping(w.request) ELSE lifecycle
          PROVE  \E g \in Generations :
                   \/ session' = [session EXCEPT ![g] = "running"] /\ lifecycle' = lifecycle
                   \/ /\ session' = [session EXCEPT ![g] = "cancelled"]
                      /\ lifecycle' = Stopping(g)
      <4>1. w.request \in Generations /\ session \in [Generations -> Session]
        BY DEF ServiceInv, TypeOK
      <4>. QED  BY <3>2, <4>1
    <3>. HIDE DEF CreateAndStartSession, Failed, Stopping
    <3>. QED  BY <1>1, <3>1, <3>2 DEF SessionTerminated
  <2>4. session \in [Generations -> Session]
    BY DEF ServiceInv, TypeOK
  <2>5. AnnouncedRuns'
    BY <2>1, <2>3, <2>4
  <2>. QED  BY <2>2, <2>5
<1>2. CASE FailureHandled(s)
  BY <1>2 DEF FailureHandled
<1>. QED  BY <1>1, <1>2 DEF MainThread

LEMMA SessionKeepsAnnouncement ==
    ASSUME ServiceInv, ListeningInv, NEW s \in Generations,
           Threads(s) \/ SessionStarts(s) \/ SessionFails(s)
    PROVE  ListeningInv'
<1>. USE DEF ListeningInv, DisplayedIsNewest, AnnouncedRuns
<1>1. session \in [Generations -> Session]
  BY DEF ServiceInv, TypeOK
<1>2. CASE SessionStarts(s)
  BY <1>2 DEF SessionStarts
<1>3. CASE SessionListens(s)
  <2>1. Live(s)
    BY <1>3 DEF SessionListens, ServiceInv, StartingIsLive
  <2>. QED  BY <1>3, <2>1 DEF SessionListens
<1>4. CASE SessionFails(s)
  BY <1>1, <1>4 DEF SessionFails
<1>5. CASE FailureReported(s)
  BY <1>5 DEF FailureReported
<1>6. CASE SessionDies(s)
  BY <1>1, <1>6 DEF SessionDies
<1>. QED  BY <1>2, <1>3, <1>4, <1>5, <1>6 DEF Threads

(***************************************************************************)
(* The screen says LISTENING only of a session that runs, or that has      *)
(* failed and is about to report it: a late onStarted of the microphone    *)
(* undoes no stop, restart or reported failure (CaptionState.listening).   *)
(***************************************************************************)
THEOREM ListeningIsTrue == Spec => []ListeningMeansRunning
<1>1. Init => ListeningInv
  BY DEF Init, ListeningInv, DisplayedIsNewest, AnnouncedRuns
<1>2. ServiceInv /\ ListeningInv /\ [Next]_vars => ListeningInv'
  <2>1. ListeningInv /\ UNCHANGED vars => ListeningInv'
    BY DEF vars, ListeningInv, DisplayedIsNewest, AnnouncedRuns
  <2>2. ServiceInv /\ ListeningInv /\ Next => ListeningInv'
    BY CommandKeepsAnnouncement, MainThreadKeepsAnnouncement, SessionKeepsAnnouncement
       DEF Next
  <2>. QED  BY <2>1, <2>2
<1>3. ListeningInv => ListeningMeansRunning
  BY DEF ListeningInv, AnnouncedRuns, ListeningMeansRunning
<1>. QED  BY <1>1, <1>2, <1>3, ServiceInvariant, PTL DEF Spec
-----------------------------------------------------------------------------
(* What the service and the threads do to a session is a step of its life. *)

(* stop() and cancel(), which may come too late to do anything. *)
LEMMA StopIsLife ==
    ASSUME TypeOK, NEW s \in Generations, session' \in {StopSession(s), CancelSession(s)}
    PROVE  [Life!Next]_session
<1>1. session \in [Generations -> Session]
  BY DEF TypeOK
<1>2. \/ session' = session
      \/ session[s] = "running" /\ session' = [session EXCEPT ![s] = "stopping"]
      \/ /\ session[s] \in {"running", "stopping"}
         /\ session' = [session EXCEPT ![s] = "cancelled"]
  BY <1>1
<1>. QED  BY <1>2 DEF Life!Next, Life!Stop, Life!Cancel, Life!Becomes

LEMMA CreationIsLife ==
    ASSUME NEW g \in Generations, session[g] = "none",
           session' \in {[session EXCEPT ![g] = "running"], [session EXCEPT ![g] = "cancelled"]}
    PROVE  Life!Next
BY DEF Life!Next, Life!Create, Life!Becomes

LEMMA ServiceLifeStep ==
    ASSUME ServiceInv, Next
    PROVE  [Life!Next]_session
<1>1. TypeOK /\ GenerationsAreFresh /\ current \in 0..MaxRequests /\ requests \in Nat
  BY DEF ServiceInv, TypeOK
<1>2. CASE StartCommand
  <2>1. requests + 1 \in Generations /\ session[requests + 1] = "none"
    BY <1>1, <1>2 DEF StartCommand, GenerationsAreFresh
  <2>2. CASE current = NoSession
    <3>1. session' \in {[session EXCEPT ![requests + 1] = "running"],
                        [session EXCEPT ![requests + 1] = "cancelled"]}
      BY <1>2, <2>2 DEF StartCommand
    <3>. QED  BY <2>1, <3>1, CreationIsLife
  <2>3. CASE current # NoSession
    <3>1. session' = CancelSession(current) /\ current \in Generations
      BY <1>1, <1>2, <2>3 DEF StartCommand
    <3>. QED  BY <1>1, <3>1, StopIsLife
  <2>. QED  BY <2>2, <2>3
<1>3. CASE StopCommand \/ Destroy
  <2>1. \/ session' = session
        \/ current # NoSession /\ session' \in {StopSession(current), CancelSession(current)}
    BY <1>3 DEF StopCommand, Destroy
  <2>2. current # NoSession => current \in Generations
    BY <1>1
  <2>. QED  BY <1>1, <2>1, <2>2, StopIsLife
<1>4. CASE OverlayCommand
  BY <1>4 DEF OverlayCommand
<1>5. ASSUME NEW s \in Generations, SessionTerminated(s)
      PROVE  [Life!Next]_session
  <2>1. \/ session' = session
        \/ \E w \in terminationWaiters[s] :
             /\ w.kind = "start"
             /\ session' \in {[session EXCEPT ![w.request] = "running"],
                              [session EXCEPT ![w.request] = "cancelled"]}
    BY <1>5 DEF SessionTerminated
  <2>2. ASSUME NEW w \in terminationWaiters[s], w.kind = "start"
        PROVE  w.request \in Generations /\ session[w.request] = "none"
    BY <1>1, <2>2 DEF TypeOK, GenerationsAreFresh
  <2>. QED  BY <2>1, <2>2, CreationIsLife
<1>6. ASSUME NEW s \in Generations,
             FailureHandled(s) \/ SessionListens(s) \/ FailureReported(s) \/ SessionStarts(s)
      PROVE  session' = session
  BY <1>6 DEF FailureHandled, SessionListens, FailureReported, SessionStarts
<1>7. ASSUME NEW s \in Generations, SessionFails(s) \/ SessionDies(s)
      PROVE  Life!Next
  BY <1>7 DEF SessionFails, SessionDies, Life!Next, Life!Cancel, Life!Die, Life!Becomes
<1>. QED
  BY <1>2, <1>3, <1>4, <1>5, <1>6, <1>7 DEF Next, Command, MainThread, Threads

(***************************************************************************)
(* For any number of commands, the service creates the session of a        *)
(* generation once, and what it asks of it afterwards a session can do:    *)
(* SessionLife is the contract that CaptionSession was proved to keep      *)
(* (createAndStartSession, afterTermination and onFailure).                *)
(***************************************************************************)
THEOREM ServiceKeepsSessionLife == Spec => SessionsLiveOnce
<1>1. Init => Life!Init
  BY DEF Init, Life!Init
<1>2. ServiceInv /\ [Next]_vars => [Life!Next]_session
  <2>1. UNCHANGED vars => UNCHANGED session
    BY DEF vars
  <2>. QED  BY <2>1, ServiceLifeStep
<1>. QED  BY <1>1, <1>2, ServiceInvariant, PTL DEF Spec, SessionsLiveOnce, Life!Spec
=============================================================================
