------------------------------ MODULE UvSignal ------------------------------
(***************************************************************************)
(* uv_signal.c: timers that raise signals and watchers that count them.    *)
(* we_get_signals, which main() runs, has two watchers and one timer per   *)
(* signal; we_get_signal runs the loop three times with one of each.       *)
(* External: libuv.  raise() calls its handler at once, which writes one   *)
(* message per started watcher of the signal into a pipe; the loop reads   *)
(* them and drops those of a watcher that has stopped.  Messages are only  *)
(* counted: a watcher's are alike, and any watcher's may be read first.    *)
(***************************************************************************)
EXTENDS Integers

CONSTANT NSIGNALS

ASSUME SignalAssumption == NSIGNALS \in Nat \ {0}

Watchers == 1 .. 4
Timers == 1 .. 2

VARIABLES
  test,      \* "we_get_signals" or "we_get_signal"
  round,     \* how often uv_run() was called; 4 after the last
  sc,        \* watcher -> [signum, ncalls]
  tc,        \* timer -> [signum, ncalls]
  watching,  \* watchers that are started, neither stopped nor closed
  ticking,   \* timers that are started and not closed
  sigpipe,   \* external: watcher -> messages in the pipe
  killed     \* a signal was raised that nothing handled, and it ends the process

signalVars == <<test, round, sc, tc, watching, ticking, sigpipe, killed>>

(* A signal_ctx or timer_ctx that waits for signal s, "none" if not used.  *)
Ctx(s) == [signum |-> s, ncalls |-> 0]

SigOf(i) == IF i <= 2 THEN "USR1" ELSE "USR2"

SignalInit ==
  /\ test \in {"we_get_signals", "we_get_signal"}
  /\ round = 1
  /\ IF test = "we_get_signals"
     THEN /\ sc = [w \in Watchers |-> Ctx(SigOf(w))]
          /\ tc = [t \in Timers |-> Ctx(SigOf(2 * t))]
          /\ watching = Watchers /\ ticking = Timers
     ELSE /\ sc = [w \in Watchers |-> Ctx(IF w = 1 THEN "CHLD" ELSE "none")]
          /\ tc = [t \in Timers |-> Ctx(IF t = 1 THEN "CHLD" ELSE "none")]
          /\ watching = {1} /\ ticking = {1}
  /\ sigpipe = [w \in Watchers |-> 0]
  /\ killed = FALSE

Listening(s) == {w \in watching : sc[w].signum = s}

(* One more message for each of these watchers.                            *)
Notified(ws) == [w \in Watchers |-> IF w \in ws THEN sigpipe[w] + 1 ELSE sigpipe[w]]

(* raise(): an unhandled SIGCHLD is ignored, SIGUSR1 and SIGUSR2 end the   *)
(* process.                                                                *)
Raise(s) ==
  /\ sigpipe' = Notified(Listening(s))
  /\ killed' = (Listening(s) = {} /\ s # "CHLD")

(* Fault: the timer raises once more.                                      *)
timer_cb_late(t) ==
  /\ ~killed /\ t \in ticking
  /\ Raise(tc[t].signum)
  /\ tc' = [tc EXCEPT ![t].ncalls = @ + 1]
  /\ ticking' = IF tc[t].ncalls = NSIGNALS THEN ticking \ {t} ELSE ticking
  /\ UNCHANGED <<test, round, sc, watching>>

(* timer_cb(): raise(), and the timer is closed after NSIGNALS times.      *)
timer_cb(t) ==
  /\ ~killed /\ t \in ticking
  /\ Raise(tc[t].signum)
  /\ tc' = [tc EXCEPT ![t].ncalls = @ + 1]
  /\ ticking' = IF tc[t].ncalls + 1 = NSIGNALS THEN ticking \ {t} ELSE ticking
  /\ UNCHANGED <<test, round, sc, watching>>

(* signal_cb(): after NSIGNALS calls the watcher is stopped or closed.     *)
signal_cb(w) ==
  /\ ~killed /\ sigpipe[w] > 0
  /\ sigpipe' = [sigpipe EXCEPT ![w] = @ - 1]
  /\ IF w \in watching
     THEN /\ sc' = [sc EXCEPT ![w].ncalls = @ + 1]
          /\ watching' = IF sc[w].ncalls + 1 = NSIGNALS THEN watching \ {w} ELSE watching
     ELSE UNCHANGED <<sc, watching>>
  /\ UNCHANGED <<test, round, tc, ticking, killed>>

(* uv_run() returns when no timer and no watcher is active.                *)
Quiet == watching = {} /\ ticking = {}

(* The only run of we_get_signals is over.                                 *)
Finish ==
  /\ test = "we_get_signals"
  /\ ~killed /\ Quiet /\ round = 1
  /\ round' = 4
  /\ UNCHANGED <<test, sc, tc, watching, ticking, sigpipe, killed>>

(* we_get_signal goes on: the timer alone, then with the watcher again,    *)
(* which is now to be closed.                                              *)
NextRound ==
  /\ test = "we_get_signal"
  /\ ~killed /\ Quiet /\ round < 4
  /\ round' = round + 1
  /\ tc' = IF round < 3 THEN [tc EXCEPT ![1] = Ctx("CHLD")] ELSE tc
  /\ ticking' = IF round < 3 THEN {1} ELSE {}
  /\ sc' = IF round = 2 THEN [sc EXCEPT ![1] = Ctx("CHLD")] ELSE sc
  /\ watching' = IF round = 2 THEN {1} ELSE {}
  /\ UNCHANGED <<test, sigpipe, killed>>

SignalNext ==
  \/ Finish \/ NextRound
  \/ \E t \in Timers : timer_cb(t)
  \/ \E w \in Watchers : signal_cb(w)

SignalSpec == SignalInit /\ [][SignalNext]_signalVars

-----------------------------------------------------------------------------
(***************************************************************************)
(* The assertions of both tests: when uv_run() returns, every timer has    *)
(* fired and every watcher was called exactly NSIGNALS times, however the  *)
(* two timers and the deliveries interleave; and no signal was raised with *)
(* nobody to handle it.                                                    *)
(***************************************************************************)
SignalsCounted ==
  /\ ~killed
  /\ Quiet => /\ \A w \in Watchers : sc[w].signum # "none" => sc[w].ncalls = NSIGNALS
              /\ \A t \in Timers : tc[t].signum # "none" => tc[t].ncalls = NSIGNALS

=============================================================================
