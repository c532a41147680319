----------------------- MODULE NativeTranslatorProofs -----------------------
(***************************************************************************)
(* For any number of requests: the native translator outlives every        *)
(* translation, is freed once, and a cancellation by id aborts the request *)
(* it names and no other.                                                  *)
(***************************************************************************)
EXTENDS NativeTranslator, TLAPS

USE TranslatorAssumption DEF Requests, NoRequest, Inside, translator

(***************************************************************************)
(* The worker keeps the invariant: on its way in it takes the lock before  *)
(* the active id, on its way out it gives them back in the opposite order. *)
(***************************************************************************)
LEMMA WorkerKeepsInv ==
    ASSUME TranslatorInv, Loop \/ Pick \/ Entering \/ Leaving \/ Naming
    PROVE  TranslatorInv'
<1>. USE DEF TranslatorInv, TypeOK, ActiveIsInside, AskedIsKnown, SeenIsLast,
             OpenUntilClosing, FlagIsForPicked
<1>1. CASE Loop
  BY <1>1 DEF Loop
<1>2. CASE Pick
  BY <1>2 DEF Pick
<1>3. CASE Acquire
  BY <1>3 DEF Acquire
<1>4. CASE Register
  BY <1>4 DEF Register
<1>5. CASE ResetCancellation
  BY <1>5, ZenonT(60) DEF ResetCancellation
<1>6. CASE Recheck
  BY <1>6, ZenonT(60) DEF Recheck
<1>7. CASE RunEnds
  BY <1>7 DEF RunEnds
<1>8. CASE Unregister
  BY <1>8 DEF Unregister
<1>9. CASE Leave
  BY <1>9 DEF Leave, FreeIfClosing
<1>10. CASE ClearPicked
  BY <1>10 DEF ClearPicked
<1>11. CASE AskBackend
  BY <1>11 DEF AskBackend
<1>12. CASE EnterBackend
  BY <1>12 DEF EnterBackend, GiveBack
<1>13. CASE BackendReturns
  BY <1>13 DEF BackendReturns, GiveBack
<1>. QED
  BY <1>1, <1>2, <1>3, <1>4, <1>5, <1>6, <1>7, <1>8, <1>9, <1>10, <1>11, <1>12, <1>13
     DEF Entering, Leaving, Naming

(***************************************************************************)
(* So do the threads that cancel: the id they write is that of the request *)
(* picked last.                                                            *)
(***************************************************************************)
LEMMA CancellingKeepsInv ==
    ASSUME TranslatorInv, Cancelling
    PROVE  TranslatorInv'
<1>. USE DEF TranslatorInv, TypeOK, ActiveIsInside, AskedIsKnown, SeenIsLast,
             OpenUntilClosing, FlagIsForPicked
<1>1. CASE CancelPicked
  <2>1. TypeOK'
    BY <1>1 DEF CancelPicked, CancelId, MonitorIsFree
  <2>2. ActiveIsInside'
    BY <1>1 DEF CancelPicked, CancelId, MonitorIsFree
  <2>3. AskedIsKnown'
    BY <1>1 DEF CancelPicked, CancelId, MonitorIsFree
  <2>4. SeenIsLast'
    BY <1>1 DEF CancelPicked, CancelId, MonitorIsFree
  <2>5. OpenUntilClosing'
    BY <1>1 DEF CancelPicked, CancelId, MonitorIsFree
  <2>6. FlagIsForPicked'
    BY <1>1 DEF CancelPicked, CancelId, MonitorIsFree
  <2>. QED  BY <2>1, <2>2, <2>3, <2>4, <2>5, <2>6
<1>2. CASE CancelSession
  BY <1>2 DEF CancelSession
<1>3. CASE ReadActive
  BY <1>3 DEF ReadActive
<1>4. CASE CancelActive
  <2>1. TypeOK'
    BY <1>4 DEF CancelActive, CancelId, MonitorIsFree
  <2>2. ActiveIsInside'
    BY <1>4 DEF CancelActive, CancelId, MonitorIsFree
  <2>3. AskedIsKnown'
    BY <1>4 DEF CancelActive, CancelId, MonitorIsFree
  <2>4. SeenIsLast'
    BY <1>4 DEF CancelActive, CancelId, MonitorIsFree
  <2>5. OpenUntilClosing'
    BY <1>4 DEF CancelActive, CancelId, MonitorIsFree
  <2>6. FlagIsForPicked'
    BY <1>4 DEF CancelActive, CancelId, MonitorIsFree
  <2>. QED  BY <2>1, <2>2, <2>3, <2>4, <2>5, <2>6
<1>. QED  BY <1>1, <1>2, <1>3, <1>4 DEF Cancelling

(***************************************************************************)
(* So does close(), before and after it waited for the worker.             *)
(***************************************************************************)
LEMMA CloseKeepsInv ==
    ASSUME TranslatorInv, CloseBegins \/ CloseEnds
    PROVE  TranslatorInv'
<1>. USE DEF TranslatorInv, TypeOK, ActiveIsInside, AskedIsKnown, SeenIsLast,
             OpenUntilClosing, FlagIsForPicked
<1>1. CASE CloseBegins
  <2>1. TypeOK'
    <3>1. closing' \in BOOLEAN /\ cancelled' \in BOOLEAN
      BY <1>1 DEF CloseBegins
    <3>2. handle' \in {"loaded", "freed"} /\ frees' \in Nat
      BY <1>1 DEF CloseBegins, FreeIfClosing, MonitorIsFree
    <3>3. cancelledRequestId' \in Requests \cup {NoRequest} /\ asked' \subseteq Requests
      BY <1>1 DEF CloseBegins
    <3>. QED  BY <1>1, <3>1, <3>2, <3>3 DEF CloseBegins
  <2>2. ActiveIsInside'
    BY <1>1 DEF CloseBegins, FreeIfClosing, MonitorIsFree
  <2>3. AskedIsKnown'
    <3>. last' = last
      BY <1>1 DEF CloseBegins
    <3>1. CASE activeRequestId = NoRequest
      <4>1. cancelledRequestId' = cancelledRequestId /\ asked' = asked
        BY <1>1, <3>1 DEF CloseBegins
      <4>. QED  BY <4>1
    <3>2. CASE activeRequestId # NoRequest
      <4>1. activeRequestId = last /\ handle = "loaded"
        BY <3>2
      <4>2. cancelledRequestId' = last /\ asked' = asked \cup {last}
        BY <1>1, <3>2, <4>1 DEF CloseBegins
      <4>. QED  BY <4>2
    <3>. QED  BY <3>1, <3>2
  <2>4. SeenIsLast'
    BY <1>1 DEF CloseBegins, FreeIfClosing, MonitorIsFree
  <2>5. OpenUntilClosing'
    BY <1>1 DEF CloseBegins, FreeIfClosing, MonitorIsFree
  <2>6. FlagIsForPicked'
    BY <1>1 DEF CloseBegins, FreeIfClosing, MonitorIsFree
  <2>. QED  BY <2>1, <2>2, <2>3, <2>4, <2>5, <2>6
<1>2. CASE CloseEnds
  BY <1>2 DEF CloseEnds, FreeIfClosing
<1>. QED  BY <1>1, <1>2

(***************************************************************************)
(* The inductive invariant holds of every behaviour.                       *)
(***************************************************************************)
THEOREM TranslatorInvariant == Spec => []TranslatorInv
<1>1. Init => TranslatorInv
  <2>. SUFFICES ASSUME Init PROVE TranslatorInv
    OBVIOUS
  <2>1. closing \in BOOLEAN /\ cancelled \in BOOLEAN
    BY DEF Init
  <2>2. TypeOK
    BY <2>1 DEF Init, TypeOK
  <2>3. ActiveIsInside /\ AskedIsKnown /\ SeenIsLast /\ OpenUntilClosing /\ FlagIsForPicked
    BY DEF Init, ActiveIsInside, AskedIsKnown, SeenIsLast, OpenUntilClosing, FlagIsForPicked
  <2>. QED  BY <2>2, <2>3 DEF TranslatorInv
<1>2. TranslatorInv /\ [Next]_vars => TranslatorInv'
  <2>1. TranslatorInv /\ UNCHANGED vars => TranslatorInv'
    BY DEF vars, TranslatorInv, TypeOK, ActiveIsInside, AskedIsKnown, SeenIsLast,
           OpenUntilClosing, FlagIsForPicked
  <2>2. TranslatorInv /\ Next => TranslatorInv'
    BY WorkerKeepsInv, CancellingKeepsInv, CloseKeepsInv DEF Next
  <2>. QED  BY <2>1, <2>2
<1>. QED  BY <1>1, <1>2, PTL DEF Spec

(***************************************************************************)
(* The native translator is never used after free(), never freed twice,    *)
(* and gone when close() returns.                                          *)
(***************************************************************************)
THEOREM TranslatorOutlivesRun ==
    Spec => [](NeverUsedAfterFree /\ FreedAtMostOnce /\ ClosedIsFreed)
<1>1. TranslatorInv => NeverUsedAfterFree /\ FreedAtMostOnce /\ ClosedIsFreed
  BY DEF TranslatorInv, OpenUntilClosing, NeverUsedAfterFree, FreedAtMostOnce, ClosedIsFreed
<1>. QED  BY <1>1, TranslatorInvariant, PTL

(***************************************************************************)
(* A request runs with the native flag up if and only if it was cancelled. *)
(***************************************************************************)
THEOREM CancellationIsExact == Spec => []AbortedIffAsked
<1>1. TranslatorInv => AbortedIffAsked
  BY DEF TranslatorInv, TypeOK, FlagIsForPicked, AbortedIffAsked
<1>. QED  BY <1>1, TranslatorInvariant, PTL
=============================================================================
