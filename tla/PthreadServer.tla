--------------------------- MODULE PthreadServer ---------------------------
(***************************************************************************)
(* test-server-pthreads.c: main, the dumb-increment thread, the service    *)
(* threads and the SIGINT handler, around the library's list of            *)
(* connections and the mutex lock_established_conns; and the protocol they *)
(* serve, test-server-dumb-increment.c.                                    *)
(*                                                                         *)
(* External: the library runs a connection's callbacks on the one service  *)
(* thread it belongs to, and calls LOCK_POLL and UNLOCK_POLL around        *)
(* changes, with len = 1 when the list of connections changes and len = 0  *)
(* when only what a connection waits for does.                             *)
(***************************************************************************)
EXTENDS Integers

CONSTANTS
  count_threads,  \* service threads: the -j option
  Wsis,           \* connections of the dumb-increment protocol
  close_testing,  \* the -c option
  CLOSE_AT,       \* numbers sent before close testing closes: 50
  MaxNumber,      \* bound: where pss->number stops without close testing
  MaxConns        \* bound: connections made over the whole run

ASSUME ThreadsAssumption == count_threads \in 1 .. 32
ASSUME NumbersAssumption ==
  /\ MaxNumber \in Nat /\ MaxConns \in Nat
  /\ CLOSE_AT \in 1 .. MaxNumber /\ close_testing \in BOOLEAN

Threads == 0 .. count_threads - 1

NOBODY == -1
DUMB   == -2
NOWSI  == "none"

VARIABLES
  context,      \* "null", "live" or "freed"
  mutex,        \* "live" or "destroyed"
  owner,        \* thread that holds the mutex
  force_exit,
  main,         \* where main is
  n,            \* main's loop counter
  dumb,         \* where thread_dumb_increment is
  todo,         \* connections its call still has to visit
  svc,          \* where each service thread is
  job,          \* the connection a service thread is adding or removing
  list,         \* the library's list: connections
  tsi,          \* the service thread of a connection
  want,         \* a writeable callback is requested
  number,       \* pss->number
  conns,        \* connections made
  crashed       \* undefined behaviour took the process down

libVars  == <<list, tsi, want, number, conns>>
mainVars == <<main, n, context, mutex>>
vars == <<mainVars, owner, force_exit, dumb, todo, svc, job, libVars, crashed>>

Init ==
  /\ context = "null" /\ mutex = "live" /\ owner = NOBODY
  /\ force_exit = FALSE
  /\ main = "setup" /\ n = 0
  /\ dumb = "unborn" /\ todo = {}
  /\ svc = [t \in Threads |-> "unborn"]
  /\ job = [t \in Threads |-> NOWSI]
  /\ list = {} /\ tsi = [w \in Wsis |-> 0]
  /\ want = [w \in Wsis |-> FALSE] /\ number = [w \in Wsis |-> 0]
  /\ conns = 0
  /\ crashed = FALSE

Started(pc) == pc \notin {"unborn", "exited"}

(* Fault: every poll callback takes the lock.                              *)
LockAlways(me, care) == owner = NOBODY /\ owner' = me

(* test_server_lock(care), the mutex being of the default kind.            *)
test_server_lock(me, care) ==
  IF care THEN owner = NOBODY /\ owner' = me ELSE UNCHANGED owner

test_server_unlock(me, care) ==
  IF care THEN owner' = NOBODY ELSE UNCHANGED owner

-----------------------------------------------------------------------------
(* main()                                                                  *)

(* Usage, too many threads, no daemon, no memory, no context or no vhost.   *)
SetupFails ==
  /\ main = "setup"
  /\ main' = "exited"
  /\ UNCHANGED <<n, context, mutex, owner, force_exit, dumb, todo, svc, job, libVars, crashed>>

CreateContext ==
  /\ main = "setup"
  /\ context' = "live"
  /\ main' = "start_dumb"
  /\ UNCHANGED <<n, mutex, owner, force_exit, dumb, todo, svc, job, libVars, crashed>>

StartDumb ==
  /\ main = "start_dumb"
  /\ \/ dumb' = "check" /\ main' = "start_service"
     \/ dumb' = dumb /\ main' = "done"
  /\ UNCHANGED <<n, context, mutex, owner, force_exit, todo, svc, job, libVars, crashed>>

(* A thread that cannot be created is only complained about.               *)
StartService ==
  /\ main = "start_service" /\ n \in Threads
  /\ \/ svc' = [svc EXCEPT ![n] = "service"]
     \/ svc' = svc
  /\ n' = n + 1
  /\ main' = IF n' \in Threads THEN "start_service" ELSE "join_service"
  /\ UNCHANGED <<context, mutex, owner, force_exit, dumb, todo, job, libVars, crashed>>

(* while ((--n) >= 0) pthread_join(pthread_service[n])                     *)
JoinThread ==
  /\ main = "join_service" /\ n > 0
  /\ svc[n - 1] = "exited"
  /\ n' = n - 1
  /\ UNCHANGED <<main, context, mutex, owner, force_exit, dumb, todo, svc, job, libVars, crashed>>

(* pthread_service[n - 1] was never set: the join fails or does harm.      *)
JoinUnset ==
  /\ main = "join_service" /\ n > 0
  /\ svc[n - 1] = "unborn"
  /\ n' = n - 1
  /\ crashed' \in BOOLEAN
  /\ UNCHANGED <<main, context, mutex, owner, force_exit, dumb, todo, svc, job, libVars>>

(* Fault: the dumb thread is not waited for.                               *)
JoinServiceOnly ==
  /\ main = "join_service" /\ n = 0
  /\ main' = "done"
  /\ UNCHANGED <<n, context, mutex, owner, force_exit, dumb, todo, svc, job, libVars, crashed>>

JoinDumb ==
  /\ main = "join_service" /\ n = 0
  /\ dumb = "exited"
  /\ main' = "done"
  /\ UNCHANGED <<n, context, mutex, owner, force_exit, dumb, todo, svc, job, libVars, crashed>>

(* lws_context_destroy(): closes what is left and frees the context.       *)
DestroyContext ==
  /\ main = "done"
  /\ context' = "freed"
  /\ list' = {}
  /\ want' = [w \in Wsis |-> FALSE]
  /\ main' = "destroy_mutex"
  /\ UNCHANGED <<n, mutex, owner, force_exit, dumb, todo, svc, job, tsi, number, conns, crashed>>

DestroyMutex ==
  /\ main = "destroy_mutex"
  /\ mutex' = "destroyed"
  /\ main' = "exited"
  /\ UNCHANGED <<n, context, owner, force_exit, dumb, todo, svc, job, libVars, crashed>>

Main ==
  /\ ~crashed
  /\ \/ SetupFails \/ CreateContext \/ StartDumb \/ StartService
     \/ JoinThread \/ JoinUnset \/ JoinDumb
     \/ DestroyContext \/ DestroyMutex

(* sighandler(), at any time and any number of times.  What                *)
(* lws_cancel_service() does without a context, or with a freed one, is    *)
(* undefined.                                                              *)
Sigint ==
  /\ ~crashed
  /\ main # "exited"
  /\ force_exit' = TRUE
  /\ crashed' \in IF context = "live" THEN {FALSE} ELSE BOOLEAN
  /\ UNCHANGED <<mainVars, owner, dumb, todo, svc, job, libVars>>

-----------------------------------------------------------------------------
(* thread_dumb_increment(): lock, lws_callback_on_writable_all_protocol()  *)
(* one connection at a time, unlock.                                       *)

DumbCheck ==
  /\ dumb = "check"
  /\ dumb' = IF force_exit THEN "exited" ELSE "lock"
  /\ UNCHANGED <<owner, todo, want>>

DumbLock ==
  /\ dumb = "lock"
  /\ owner = NOBODY
  /\ owner' = DUMB
  /\ todo' = list
  /\ dumb' = "walk"
  /\ UNCHANGED want

(* lws_callback_on_writable() of one connection: LOCK_POLL with len = 0.   *)
DumbWalk ==
  /\ dumb = "walk"
  /\ \E w \in todo :
       /\ test_server_lock(DUMB, FALSE)
       /\ want' = [want EXCEPT ![w] = TRUE]
       /\ todo' = todo \ {w}
  /\ UNCHANGED dumb

DumbUnlock ==
  /\ dumb = "walk"
  /\ todo = {}
  /\ owner' = NOBODY
  /\ dumb' = "check"
  /\ UNCHANGED <<todo, want>>

Dumb ==
  /\ ~crashed
  /\ DumbCheck \/ DumbLock \/ DumbWalk \/ DumbUnlock
  /\ UNCHANGED <<mainVars, force_exit, svc, job, list, tsi, number, conns, crashed>>

-----------------------------------------------------------------------------
(* thread_service(): one thing at a time inside lws_service_tsi(), and     *)
(* then a look at force_exit.                                              *)

AfterService == IF force_exit THEN "exited" ELSE "service"

(* A connection is accepted or closed: the list changes under the lock.    *)
Begin(t, w) ==
  /\ svc[t] = "service"
  /\ \/ /\ w \notin list /\ \A u \in Threads : job[u] # w
        /\ conns < MaxConns
        /\ conns' = conns + 1
     \/ /\ w \in list /\ tsi[w] = t
        /\ UNCHANGED conns
  /\ svc' = [svc EXCEPT ![t] = "lock"]
  /\ job' = [job EXCEPT ![t] = w]
  /\ UNCHANGED <<owner, list, tsi, want, number>>

(* Fault: the list is changed without the lock.                            *)
LockListNot(t) ==
  /\ svc[t] = "lock"
  /\ svc' = [svc EXCEPT ![t] = "change"]
  /\ UNCHANGED <<owner, job, libVars>>

LockList(t) ==
  /\ svc[t] = "lock"
  /\ test_server_lock(t, TRUE)
  /\ svc' = [svc EXCEPT ![t] = "change"]
  /\ UNCHANGED <<job, libVars>>

(* LWS_CALLBACK_ESTABLISHED zeroes the number.                             *)
ChangeList(t) ==
  LET w == job[t]
  IN /\ svc[t] = "change"
     /\ svc' = [svc EXCEPT ![t] = "unlock"]
     /\ \/ /\ w \notin list
           /\ list' = list \cup {w}
           /\ tsi' = [tsi EXCEPT ![w] = t]
           /\ number' = [number EXCEPT ![w] = 0]
           /\ UNCHANGED want
        \/ /\ w \in list
           /\ list' = list \ {w}
           /\ want' = [want EXCEPT ![w] = FALSE]
           /\ number' = [number EXCEPT ![w] = 0]
           /\ UNCHANGED tsi
     /\ UNCHANGED <<owner, job, conns>>

UnlockList(t) ==
  /\ svc[t] = "unlock"
  /\ test_server_unlock(t, TRUE)
  /\ svc' = [svc EXCEPT ![t] = AfterService]
  /\ job' = [job EXCEPT ![t] = NOWSI]
  /\ UNCHANGED libVars

(* if (close_testing && pss->number == 50) return -1                       *)
CloseTest(k) == close_testing /\ k = CLOSE_AT

(* LWS_CALLBACK_SERVER_WRITEABLE: the number goes out and is incremented.  *)
Writeable(t, w) ==
  /\ svc[t] = "service"
  /\ w \in list /\ tsi[w] = t
  /\ want[w]
  /\ number[w] < MaxNumber
  /\ number' = [number EXCEPT ![w] = @ + 1]
  /\ want' = [want EXCEPT ![w] = FALSE]
  /\ IF CloseTest(number'[w])
     THEN /\ svc' = [svc EXCEPT ![t] = "lock"]
          /\ job' = [job EXCEPT ![t] = w]
     ELSE /\ svc' = [svc EXCEPT ![t] = AfterService]
          /\ UNCHANGED job
  /\ UNCHANGED <<owner, list, tsi, conns>>

(* LWS_CALLBACK_RECEIVE of "reset\n"; "closeme\n" closes, as Begin does.   *)
Reset(t, w) ==
  /\ svc[t] = "service"
  /\ w \in list /\ tsi[w] = t
  /\ number' = [number EXCEPT ![w] = 0]
  /\ svc' = [svc EXCEPT ![t] = AfterService]
  /\ UNCHANGED <<owner, job, list, tsi, want, conns>>

(* Nothing for 50 ms, or lws_cancel_service().                             *)
Timeout(t) ==
  /\ svc[t] = "service"
  /\ svc' = [svc EXCEPT ![t] = AfterService]
  /\ UNCHANGED <<owner, job, libVars>>

(* lws_service_tsi() returns a negative value: this thread is done, the    *)
(* others are not told.                                                    *)
ServiceFails(t) ==
  /\ svc[t] = "service"
  /\ svc' = [svc EXCEPT ![t] = "exited"]
  /\ UNCHANGED <<owner, job, libVars>>

Service(t) ==
  /\ ~crashed
  /\ \/ \E w \in Wsis : Begin(t, w) \/ Writeable(t, w) \/ Reset(t, w)
     \/ LockList(t) \/ ChangeList(t) \/ UnlockList(t)
     \/ Timeout(t) \/ ServiceFails(t)
  /\ UNCHANGED <<mainVars, force_exit, dumb, todo, crashed>>

Next == Main \/ Sigint \/ Dumb \/ \E t \in Threads : Service(t)

Spec == Init /\ [][Next]_vars

(***************************************************************************)
(* The scheduler runs every thread, and lws_service_tsi() returns within   *)
(* 50 ms.  The dumb thread sleeps 100 ms without the lock in every turn,   *)
(* so a service thread that waits for it gets it (SF); poll() reports a    *)
(* socket that can be written to until it has been.                        *)
(***************************************************************************)
ServiceStep(A) == ~crashed /\ A /\ UNCHANGED <<mainVars, force_exit, dumb, todo, crashed>>

FairSpec ==
  /\ Spec
  /\ WF_vars(Main) /\ WF_vars(Dumb)
  /\ \A t \in Threads :
       /\ WF_vars(ServiceStep(ChangeList(t) \/ UnlockList(t) \/ Timeout(t)))
       /\ SF_vars(ServiceStep(LockList(t)))
       /\ \A w \in Wsis : WF_vars(ServiceStep(Writeable(t, w)))

-----------------------------------------------------------------------------
(* Threads, list and lock keep their type: each thread is at a line it has.*)
TypeOK ==
  /\ context \in {"null", "live", "freed"} /\ mutex \in {"live", "destroyed"}
  /\ owner \in Threads \cup {DUMB, NOBODY}
  /\ force_exit \in BOOLEAN /\ crashed \in BOOLEAN
  /\ main \in {"setup", "start_dumb", "start_service", "join_service", "done",
               "destroy_mutex", "exited"}
  /\ n \in 0 .. count_threads
  /\ dumb \in {"unborn", "check", "lock", "walk", "exited"}
  /\ todo \subseteq Wsis /\ list \subseteq Wsis
  /\ svc \in [Threads -> {"unborn", "service", "lock", "change", "unlock", "exited"}]
  /\ job \in [Threads -> Wsis \cup {NOWSI}]
  /\ tsi \in [Wsis -> Threads]
  /\ want \in [Wsis -> BOOLEAN]
  /\ number \in [Wsis -> 0 .. MaxNumber]
  /\ conns \in 0 .. MaxConns

(***************************************************************************)
(* Lines 128-132: "this lock means wsi in the active list cannot disappear *)
(* underneath us": whatever the service threads do, each connection the    *)
(* dumb thread still has to visit is in the list.                          *)
(***************************************************************************)
ListStableUnderWalk == dumb = "walk" => todo \subseteq list

(* No thread is left running when the context and the mutex it uses go     *)
(* away, whichever of the threads could be created.                        *)
NothingUsedAfterFree ==
  (context = "freed" \/ mutex = "destroyed") =>
    ~Started(dumb) /\ \A t \in Threads : ~Started(svc[t])

(* After SIGINT the process ends: no thread waits for the lock or for      *)
(* another thread for ever.                                                *)
CleanExit == force_exit ~> (main = "exited" \/ crashed)
=============================================================================
