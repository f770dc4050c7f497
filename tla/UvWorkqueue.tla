---------------------------- MODULE UvWorkqueue ----------------------------
(***************************************************************************)
(* uv_workqueue.c: work items on the threads of libuv's pool, which report *)
(* progress through the data field of one async handle.  uv_async_send()   *)
(* only promises one callback after the last send; the field is written    *)
(* and read without a lock.                                                *)
(* External: the pool (four threads, so every item may run at once), the   *)
(* async handle, the completion queue.                                     *)
(***************************************************************************)
EXTENDS Integers

CONSTANT FIB_UNTIL

ASSUME WorksAssumption == FIB_UNTIL \in Nat

Works == 0 .. FIB_UNTIL - 1

VARIABLES
  work,       \* item -> "queued", "stored", "sent", "done", "reported"
  asyncData,  \* async.data
  asyncSent,  \* external: the handle is marked, its callback is due
  inProgress, \* the loop has unmarked it and has not read the data yet
  shown       \* the value print_progress() printed last, -1 before the first

queueVars == <<work, asyncData, asyncSent, inProgress, shown>>

QueueInit ==
  /\ work = [n \in Works |-> "queued"]
  /\ asyncData = 0
  /\ asyncSent = FALSE /\ inProgress = FALSE
  /\ shown = -1

(* fib(): async.data = n * 8, after a sleep of one to three seconds.       *)
fib_store(n) ==
  /\ work[n] = "queued"
  /\ work' = [work EXCEPT ![n] = "stored"]
  /\ asyncData' = n * 8
  /\ UNCHANGED <<asyncSent, inProgress, shown>>

(* Fault: a value of zero is taken for none.                               *)
fib_send_nonzero(n) ==
  /\ work[n] = "stored"
  /\ work' = [work EXCEPT ![n] = "sent"]
  /\ asyncSent' = (asyncSent \/ n # 0)
  /\ UNCHANGED <<asyncData, inProgress, shown>>

(* uv_async_send()                                                         *)
fib_send(n) ==
  /\ work[n] = "stored"
  /\ work' = [work EXCEPT ![n] = "sent"]
  /\ asyncSent' = TRUE
  /\ UNCHANGED <<asyncData, inProgress, shown>>

(* The number is computed and the thread is done with the item.            *)
fib_finish(n) ==
  /\ work[n] = "sent"
  /\ work' = [work EXCEPT ![n] = "done"]
  /\ UNCHANGED <<asyncData, asyncSent, inProgress, shown>>

after_fib(n) ==
  /\ ~inProgress
  /\ work[n] = "done"
  /\ work' = [work EXCEPT ![n] = "reported"]
  /\ UNCHANGED <<asyncData, asyncSent, inProgress, shown>>

(* The loop takes the mark, then calls print_progress().                   *)
TakeAsync ==
  /\ asyncSent /\ ~inProgress
  /\ asyncSent' = FALSE
  /\ inProgress' = TRUE
  /\ UNCHANGED <<work, asyncData, shown>>

print_progress ==
  /\ inProgress
  /\ inProgress' = FALSE
  /\ shown' = asyncData
  /\ UNCHANGED <<work, asyncData, asyncSent>>

QueueNext ==
  \/ \E n \in Works : fib_store(n) \/ fib_send(n) \/ fib_finish(n) \/ after_fib(n)
  \/ TakeAsync \/ print_progress

QueueSpec == QueueInit /\ [][QueueNext]_queueVars

-----------------------------------------------------------------------------
(***************************************************************************)
(* Progress may be overwritten before it is printed, and printed twice,    *)
(* but the last value any thread stored is printed in the end, and every   *)
(* item is reported done.                                                  *)
(***************************************************************************)
LastProgressShown ==
  (\E n \in Works : work[n] # "queued") ~>
    [](/\ \A n \in Works : work[n] = "reported"
       /\ shown = asyncData)
=============================================================================
