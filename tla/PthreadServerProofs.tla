------------------------ MODULE PthreadServerProofs ------------------------
(***************************************************************************)
(* What PthreadServer promises, for any number of service threads and      *)
(* connections.                                                            *)
(*                                                                         *)
(* Neither property is inductive.  That the list stands still under the    *)
(* walk rests on who holds the mutex (Exclusion), and, because             *)
(* lws_context_destroy() empties the list without it, on the order in      *)
(* which main() starts, joins and frees (Phases): a thread main() has      *)
(* joined, or never got to start, does not run again.                      *)
(***************************************************************************)
EXTENDS PthreadServer, TLAPS

(* The mutex is held by the thread that walks or changes the list.         *)
Exclusion ==
  /\ dumb = "walk" => owner = DUMB
  /\ \A t \in Threads : svc[t] \in {"change", "unlock"} => owner = t

(* A thread that changes the list does so for a connection.                *)
JobsNamed == \A t \in Threads : svc[t] \in {"lock", "change"} => job[t] \in Wsis

AllQuiet == dumb \in {"unborn", "exited"} /\ \A t \in Threads : svc[t] \in {"unborn", "exited"}

(* Which threads may run, by where main() is.                              *)
Phases ==
  /\ main \in {"setup", "start_dumb"} =>
       n = 0 /\ dumb = "unborn" /\ \A t \in Threads : svc[t] = "unborn"
  /\ main = "start_service" =>
       n \in Threads /\ \A t \in Threads : t >= n => svc[t] = "unborn"
  /\ main = "join_service" =>
       \A t \in Threads : t >= n => svc[t] \in {"unborn", "exited"}
  /\ main \in {"done", "destroy_mutex", "exited"} => AllQuiet
  /\ context = "freed" \/ mutex = "destroyed" => main \in {"destroy_mutex", "exited"}

IInv == TypeOK /\ Exclusion /\ JobsNamed /\ Phases /\ ListStableUnderWalk

-----------------------------------------------------------------------------
(* A program starts with no thread, no context and a free mutex.           *)
LEMMA InitInv == Init => IInv
<1> SUFFICES ASSUME Init PROVE IInv
  OBVIOUS
<1>1. 0 \in Threads /\ 0 \in 0 .. count_threads /\ 0 \in 0 .. MaxNumber /\ 0 \in 0 .. MaxConns
  BY ThreadsAssumption, NumbersAssumption DEF Threads
<1>2. TypeOK
  BY <1>1 DEF Init, TypeOK
<1>3. Exclusion /\ JobsNamed /\ Phases /\ ListStableUnderWalk
  BY DEF Init, Exclusion, JobsNamed, Phases, AllQuiet, ListStableUnderWalk
<1> QED BY <1>2, <1>3 DEF IInv

(* main() touches neither the mutex nor a thread that runs; it empties the *)
(* list only when no thread is left.                                       *)
LEMMA MainInv == ASSUME IInv, Main PROVE IInv'
<1> USE ThreadsAssumption, NumbersAssumption
<1> USE DEF IInv, TypeOK, Threads, libVars
<1>1. CASE SetupFails
  BY <1>1 DEF SetupFails, Exclusion, JobsNamed, Phases, AllQuiet, ListStableUnderWalk
<1>2. CASE CreateContext
  BY <1>2 DEF CreateContext, Exclusion, JobsNamed, Phases, AllQuiet, ListStableUnderWalk
<1>3. CASE StartDumb
  BY <1>3 DEF StartDumb, Exclusion, JobsNamed, Phases, AllQuiet, ListStableUnderWalk
<1>4. CASE StartService
  <2>1. TypeOK' /\ Exclusion' /\ JobsNamed' /\ ListStableUnderWalk'
    BY <1>4 DEF StartService, Exclusion, JobsNamed, ListStableUnderWalk
  <2>2. Phases'
    BY <1>4 DEF StartService, Phases, AllQuiet
  <2> QED BY <2>1, <2>2
<1>5. CASE JoinThread
  BY <1>5 DEF JoinThread, Exclusion, JobsNamed, Phases, AllQuiet, ListStableUnderWalk
<1>6. CASE JoinUnset
  BY <1>6 DEF JoinUnset, Exclusion, JobsNamed, Phases, AllQuiet, ListStableUnderWalk
<1>7. CASE JoinDumb
  BY <1>7 DEF JoinDumb, Exclusion, JobsNamed, Phases, AllQuiet, ListStableUnderWalk
<1>8. CASE DestroyContext
  BY <1>8 DEF DestroyContext, Exclusion, JobsNamed, Phases, AllQuiet, ListStableUnderWalk
<1>9. CASE DestroyMutex
  BY <1>9 DEF DestroyMutex, Exclusion, JobsNamed, Phases, AllQuiet, ListStableUnderWalk
<1> QED
  BY <1>1, <1>2, <1>3, <1>4, <1>5, <1>6, <1>7, <1>8, <1>9 DEF Main

(* SIGINT sets the flag and may take the process down.                     *)
LEMMA SigintInv == ASSUME IInv, Sigint PROVE IInv'
BY DEF IInv, TypeOK, Sigint, Exclusion, JobsNamed, Phases, AllQuiet,
       ListStableUnderWalk, mainVars, libVars

(* The dumb thread walks only with the mutex, and only what it found.      *)
LEMMA DumbInv == ASSUME IInv, Dumb PROVE IInv'
<1> USE ThreadsAssumption
<1> USE DEF IInv, TypeOK, Threads, mainVars, NOBODY, DUMB
<1>1. dumb \in {"check", "lock", "walk"}
  BY DEF Dumb, DumbCheck, DumbLock, DumbWalk, DumbUnlock
<1>2. Phases'
  BY <1>1 DEF Dumb, DumbCheck, DumbLock, DumbWalk, DumbUnlock, Phases, AllQuiet
<1>3. JobsNamed'
  BY DEF Dumb, JobsNamed
<1>4. TypeOK' /\ Exclusion' /\ ListStableUnderWalk'
  <2>1. CASE DumbCheck
    BY <2>1 DEF Dumb, DumbCheck, Exclusion, ListStableUnderWalk
  <2>2. CASE DumbLock
    BY <2>2 DEF Dumb, DumbLock, Exclusion, ListStableUnderWalk
  <2>3. CASE DumbWalk
    BY <2>3 DEF Dumb, DumbWalk, test_server_lock, Exclusion, ListStableUnderWalk
  <2>4. CASE DumbUnlock
    BY <2>4 DEF Dumb, DumbUnlock, Exclusion, ListStableUnderWalk
  <2> QED BY <2>1, <2>2, <2>3, <2>4 DEF Dumb
<1> QED BY <1>2, <1>3, <1>4

(* A service thread changes the list only with the mutex, so never while   *)
(* the dumb thread walks.                                                  *)
LEMMA ServiceInv == ASSUME IInv, NEW t \in Threads, Service(t) PROVE IInv'
<1> USE ThreadsAssumption, NumbersAssumption
<1> USE DEF IInv, TypeOK, mainVars
<1>1. NOBODY # DUMB /\ \A u \in Threads : u # NOBODY /\ u # DUMB
  BY DEF Threads, NOBODY, DUMB
<1>2. /\ svc[t] \in {"service", "lock", "change", "unlock"}
      /\ svc' \in [Threads -> {"unborn", "service", "lock", "change", "unlock", "exited"}]
      /\ \A u \in Threads : u # t => svc'[u] = svc[u] /\ job'[u] = job[u]
  BY DEF Service, Begin, Writeable, Reset, LockList, ChangeList, UnlockList, Timeout,
         ServiceFails, AfterService
<1>3. Phases'
  BY <1>2 DEF Service, Phases, AllQuiet
<1>4. ASSUME NEW w \in Wsis, Begin(t, w) PROVE IInv'
  BY <1>1, <1>2, <1>3, <1>4 DEF Service, Begin, Exclusion, JobsNamed, ListStableUnderWalk
<1>5. ASSUME NEW w \in Wsis, Writeable(t, w) PROVE IInv'
  <2>1. TypeOK' /\ ListStableUnderWalk'
    BY <1>2, <1>5 DEF Service, Writeable, AfterService, ListStableUnderWalk
  <2>2. Exclusion' /\ JobsNamed'
    BY <1>1, <1>2, <1>5 DEF Service, Writeable, AfterService, Exclusion, JobsNamed
  <2> QED BY <1>3, <2>1, <2>2
<1>6. ASSUME NEW w \in Wsis, Reset(t, w) PROVE IInv'
  BY <1>1, <1>2, <1>3, <1>6 DEF Service, Reset, AfterService, Exclusion, JobsNamed,
     ListStableUnderWalk
<1>7. CASE LockList(t)
  <2>1. \A u \in Threads : svc[u] \notin {"change", "unlock"}
    BY <1>1, <1>7 DEF LockList, test_server_lock, Exclusion
  <2>2. TypeOK' /\ JobsNamed' /\ ListStableUnderWalk'
    BY <1>2, <1>7 DEF Service, LockList, test_server_lock, libVars, JobsNamed, ListStableUnderWalk
  <2>3. Exclusion'
    BY <1>1, <1>2, <1>7, <2>1 DEF Service, LockList, test_server_lock, Exclusion
  <2> QED BY <1>3, <2>2, <2>3
<1>8. CASE ChangeList(t)
  <2>1. owner = t /\ job[t] \in Wsis /\ dumb # "walk"
    BY <1>1, <1>8 DEF ChangeList, Exclusion, JobsNamed
  <2>2. TypeOK'
    <3>1. list' \subseteq Wsis /\ tsi' \in [Wsis -> Threads] /\ want' \in [Wsis -> BOOLEAN]
      BY <1>8, <2>1 DEF ChangeList
    <3>2. number' \in [Wsis -> 0 .. MaxNumber]
      BY <1>8, <2>1 DEF ChangeList
    <3> QED BY <1>2, <1>8, <3>1, <3>2 DEF Service, ChangeList
  <2>3. Exclusion' /\ JobsNamed' /\ ListStableUnderWalk'
    BY <1>2, <1>8, <2>1 DEF Service, ChangeList, Exclusion, JobsNamed, ListStableUnderWalk
  <2> QED BY <1>3, <2>2, <2>3
<1>9. CASE UnlockList(t)
  <2>1. owner = t /\ dumb # "walk"
    BY <1>1, <1>9 DEF UnlockList, Exclusion
  <2>2. \A u \in Threads : u # t => svc[u] \notin {"change", "unlock"}
    BY <2>1 DEF Exclusion
  <2> QED
    BY <1>1, <1>2, <1>3, <1>9, <2>1, <2>2 DEF Service, UnlockList, test_server_unlock,
       AfterService, libVars, Exclusion, JobsNamed, ListStableUnderWalk
<1>10. CASE Timeout(t)
  BY <1>1, <1>2, <1>3, <1>10 DEF Service, Timeout, AfterService, libVars, Exclusion,
     JobsNamed, ListStableUnderWalk
<1>11. CASE ServiceFails(t)
  BY <1>1, <1>2, <1>3, <1>11 DEF Service, ServiceFails, libVars, Exclusion, JobsNamed,
     ListStableUnderWalk
<1> QED
  BY <1>4, <1>5, <1>6, <1>7, <1>8, <1>9, <1>10, <1>11 DEF Service

(* The inductive invariant holds of every behaviour.                       *)
THEOREM InvariantHolds == Spec => []IInv
<1>1. IInv /\ UNCHANGED vars => IInv'
  BY DEF IInv, TypeOK, Exclusion, JobsNamed, Phases, AllQuiet, ListStableUnderWalk,
         vars, mainVars, libVars
<1>2. IInv /\ [Next]_vars => IInv'
  BY <1>1, MainInv, SigintInv, DumbInv, ServiceInv DEF Next
<1> QED BY InitInv, <1>2, PTL DEF Spec

(* Every thread of the pthreads server is at a line it has, the lock has   *)
(* one owner or none, and connections belong to service threads.           *)
THEOREM TypeCorrect == Spec => []TypeOK
<1>1. IInv => TypeOK
  BY DEF IInv
<1> QED BY <1>1, InvariantHolds, PTL

(* While thread_dumb_increment() walks the connections, none of those it   *)
(* has still to visit leaves the list, whatever the service threads do.    *)
THEOREM WalksAreStable == Spec => []ListStableUnderWalk
<1>1. IInv => ListStableUnderWalk
  BY DEF IInv
<1> QED BY <1>1, InvariantHolds, PTL

(* main() frees the context and the mutex only when no thread that could   *)
(* be created is left running.                                             *)
THEOREM FreedLast == Spec => []NothingUsedAfterFree
<1>1. IInv => NothingUsedAfterFree
  BY DEF IInv, Phases, AllQuiet, NothingUsedAfterFree, Started
<1> QED BY <1>1, InvariantHolds, PTL
=============================================================================
