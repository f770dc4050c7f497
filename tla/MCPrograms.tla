----------------------------- MODULE MCPrograms -----------------------------
(* Small instances, for TLC, of the programs that stand alone: the web     *)
(* clients and the three libuv samples.  One of them runs.                 *)
EXTENDS TestClient, UvEcho, UvWorkqueue, UvSignal

VARIABLE prog

(* A step of the program that runs.                                        *)
Client(A) == prog = "client" /\ A /\ UNCHANGED <<prog, echoVars, queueVars, signalVars>>
Echo(A)   == prog = "echo" /\ A /\ UNCHANGED <<prog, vars, queueVars, signalVars>>
Queue(A)  == prog = "queue" /\ A /\ UNCHANGED <<prog, vars, echoVars, signalVars>>
Signal(A) == prog = "signal" /\ A /\ UNCHANGED <<prog, vars, echoVars, queueVars>>

ProgInit ==
  /\ prog \in {"client", "echo", "queue", "signal"}
  /\ Init /\ EchoInit /\ QueueInit /\ SignalInit
  /\ prog # "client" => mode = "single" /\ method = "http"
  /\ prog # "echo" => quits = {} /\ listening
  /\ prog # "signal" => test = "we_get_signal"

ProgNext == Client(Next) \/ Echo(EchoNext) \/ Queue(QueueNext) \/ Signal(SignalNext)

progVars == <<prog, vars, echoVars, queueVars, signalVars>>

(* Every program's loop runs, every thread of the pool runs, time goes on. *)
ProgSpec ==
  /\ ProgInit /\ [][ProgNext]_progVars
  /\ WF_progVars(Client(Loop)) /\ WF_progVars(Client(Tick))
  /\ WF_progVars(Echo(EchoServer)) /\ WF_progVars(Echo(EchoClient))
  /\ WF_progVars(Queue(TakeAsync \/ print_progress))
  /\ \A n \in Works : /\ WF_progVars(Queue(after_fib(n)))
                      /\ WF_progVars(Queue(fib_store(n) \/ fib_send(n) \/ fib_finish(n)))
  /\ WF_progVars(Signal(SignalNext))
=============================================================================
