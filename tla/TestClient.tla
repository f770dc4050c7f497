----------------------------- MODULE TestClient -----------------------------
(***************************************************************************)
(* The main loops of test-client.c and test-file-client.c: which           *)
(* connections are opened, through which pointer, and when again.          *)
(*                                                                         *)
(* A connection is known by its address, which the library may give to a   *)
(* new connection after the old one is freed; the client keeps addresses   *)
(* in wsi_dumb, wsi_fsc and wsi_multi[] and compares callbacks with them.  *)
(* Time is the number of whole seconds since a slot's last attempt, up to  *)
(* the limit that is compared with it; the clock does not go back.         *)
(* External: the library, the server, the user's SIGINT.  The mirror       *)
(* connection is compiled out of both main loops.                          *)
(***************************************************************************)
EXTENDS Integers

CONSTANTS
  Multi,   \* slots of wsi_multi[]
  Addrs,   \* addresses of connections
  NULL,
  RATE     \* seconds between two attempts: 2

ASSUME ClientAssumption ==
  /\ RATE \in Nat \ {0} /\ NULL \notin Addrs
  /\ "wsi_dumb" \notin Multi /\ "wsi_fsc" \notin Multi

(* The main loops: test-client's, the same with -m, test-file-client's.    *)
Modes == {"single", "multi", "file"}
(* What the address and -o select; -o matters with an http address only.   *)
Methods == {"ws", "http", "post", "raw"}
Slots == Multi \cup {"wsi_dumb", "wsi_fsc"}

VARIABLES
  mode, method,
  slot,        \* slot -> address or NULL
  rl,          \* slot -> seconds since ratelimit_connects() last said yes
  force_exit,
  pc,          \* "start", "connect", "service", "write" or "exited"
  todo,        \* slots this turn of the loop has not looked at (initial == 0)
  conn,        \* external: address -> "free", "connecting" or "open"
  body,        \* address -> "none", "pending" or "sent": the form of a POST
  asked,       \* external: addresses with a writeable callback requested
  via,         \* history: the slot a live connection was opened through
  used         \* history: the last pointer handed to the library was freed

connVars == <<conn, via, body, asked>>
vars == <<mode, method, slot, rl, force_exit, pc, todo, connVars, used>>

(* The slots the loop of this mode opens connections through.              *)
SlotsOf(md) == CASE md = "multi"  -> Multi
                 [] md = "file"   -> {"wsi_dumb", "wsi_fsc"}
                 [] md = "single" -> {"wsi_dumb"}

(* The command line selects mode and method; ports, certificates, versions *)
(* and log levels are left out.  The rl_ variables are zero, long ago.     *)
Init ==
  /\ mode \in Modes
  /\ method \in Methods
  /\ slot = [k \in Slots |-> NULL]
  /\ rl = [k \in Slots |-> RATE]
  /\ force_exit = FALSE
  /\ pc = "start"
  /\ todo = SlotsOf(mode)
  /\ conn = [a \in Addrs |-> "free"]
  /\ body = [a \in Addrs |-> "none"]
  /\ asked = {}
  /\ via = [a \in Addrs |-> NULL]
  /\ used = FALSE

Live == {a \in Addrs : conn[a] # "free"}

-----------------------------------------------------------------------------
(* No address, -h, an address that does not parse: the usage message.      *)
Usage ==
  /\ pc = "start"
  /\ pc' = "exited"
  /\ UNCHANGED <<mode, method, slot, rl, force_exit, todo, connVars, used>>

(* lws_create_context(), which may fail, and the first test of the loop.   *)
ContextMade ==
  /\ pc = "start"
  /\ pc' \in {IF force_exit THEN "exited" ELSE "connect", "exited"}
  /\ UNCHANGED <<mode, method, slot, rl, force_exit, todo, connVars, used>>

CreateContext == mode # "file" /\ ContextMade

FileCreateContext == mode = "file" /\ ContextMade

(* lws_client_connect_via_info() with pwsi: the address is stored before   *)
(* anything can fail.                                                      *)
ConnectVia(k) == \E a \in Addrs \ Live :
  /\ slot' = [slot EXCEPT ![k] = a]
  /\ conn' = [conn EXCEPT ![a] = "connecting"]
  /\ via' = [via EXCEPT ![a] = k]
  /\ UNCHANGED <<body, asked>>

(* ratelimit_connects(): enough seconds since the last yes.                *)
ratelimit_connects(k, secs) == rl[k] >= secs

(* One slot of the loop of test-client: connect if NULL and not too soon.  *)
LookAt(k) ==
  /\ mode # "file"
  /\ pc = "connect"
  /\ k \in todo
  /\ todo' = todo \ {k}
  /\ IF slot[k] = NULL /\ ratelimit_connects(k, RATE)
     THEN /\ rl' = [rl EXCEPT ![k] = 0]
          /\ ConnectVia(k)
     ELSE UNCHANGED <<rl, slot, connVars>>
  /\ UNCHANGED <<mode, method, force_exit, pc, used>>

(* if (initial == 0): the first turn of test-file-client, with no limit;   *)
(* wsi_dumb comes first.                                                   *)
ConnectBoth(k) ==
  /\ mode = "file"
  /\ pc = "connect"
  /\ k \in todo /\ (k = "wsi_fsc" => "wsi_dumb" \notin todo)
  /\ todo' = todo \ {k}
  /\ ConnectVia(k)
  /\ UNCHANGED <<mode, method, rl, force_exit, pc, used>>

(* On to lws_service(), which waits 500 or 5 ms for something to happen.   *)
EnterService ==
  /\ pc = "connect"
  /\ todo = {}
  /\ pc' = "service"
  /\ UNCHANGED <<mode, method, slot, rl, force_exit, todo, connVars, used>>

(* Nothing happened.  In -m mode every tenth turn also asks for writeable  *)
(* callbacks, which do nothing.                                            *)
ServiceReturns ==
  /\ pc = "service"
  /\ pc' = "write"
  /\ UNCHANGED <<mode, method, slot, rl, force_exit, todo, connVars, used>>

(* test-file-client asks for lws_callback_on_writable(wsi_dumb) once a     *)
(* second.                                                                 *)
AskWriteable ==
  IF mode = "file" /\ slot["wsi_dumb"] # NULL /\ ratelimit_connects("wsi_dumb", 1)
  THEN /\ rl' = [rl EXCEPT !["wsi_dumb"] = 0]
       /\ used' = (slot["wsi_dumb"] \notin Live)
       /\ asked' = asked \cup ({slot["wsi_dumb"]} \cap Live)
  ELSE UNCHANGED <<rl, used, asked>>

(* while (!force_exit), or lws_context_destroy() and the end.              *)
TurnAround ==
  /\ pc = "write"
  /\ AskWriteable
  /\ IF force_exit
     THEN pc' = "exited" /\ UNCHANGED todo
     ELSE /\ pc' = "connect"
          /\ todo' = IF mode = "file" THEN {} ELSE SlotsOf(mode)
  /\ UNCHANGED <<mode, method, slot, force_exit, conn, via, body>>

-----------------------------------------------------------------------------
(* The callbacks.  The library makes them from lws_service(), and          *)
(* CLIENT_CONNECTION_ERROR also from within the connect.                   *)

Free(a) ==
  /\ conn' = [conn EXCEPT ![a] = "free"]
  /\ via' = [via EXCEPT ![a] = NULL]
  /\ body' = [body EXCEPT ![a] = "none"]
  /\ asked' = asked \ {a}

(* LWS_CALLBACK_CLIENT_APPEND_HANDSHAKE_HEADER with -o.  Headers that do   *)
(* not fit are a ConnectionError.                                          *)
AppendHandshakeHeader(a) ==
  /\ pc = "service" /\ method = "post"
  /\ conn[a] = "connecting" /\ body[a] = "none"
  /\ body' = [body EXCEPT ![a] = "pending"]
  /\ asked' = asked \cup {a}
  /\ pc' = "write"
  /\ UNCHANGED <<mode, method, slot, rl, force_exit, todo, conn, via, used>>

(* LWS_CALLBACK_CLIENT_HTTP_WRITEABLE sends the form.  A failed write is a *)
(* ConnectionError: the connection is not established yet.                 *)
ClientHttpWriteable(a) ==
  /\ pc = "service"
  /\ body[a] = "pending" /\ a \in asked
  /\ body' = [body EXCEPT ![a] = "sent"]
  /\ asked' = asked \ {a}
  /\ pc' = "write"
  /\ UNCHANGED <<mode, method, slot, rl, force_exit, todo, conn, via, used>>

(* LWS_CALLBACK_CLIENT_ESTABLISHED, or the http or raw equivalent; a POST  *)
(* is answered when its form has arrived.                                  *)
ClientEstablished(a) ==
  /\ pc = "service"
  /\ conn[a] = "connecting"
  /\ method = "post" => body[a] = "sent"
  /\ conn' = [conn EXCEPT ![a] = "open"]
  /\ pc' = "write"
  /\ UNCHANGED <<mode, method, slot, rl, force_exit, todo, via, body, asked, used>>

(* LWS_CALLBACK_CLIENT_RECEIVE prints.                                     *)
ClientReceive(a) ==
  /\ pc = "service" /\ method = "ws"
  /\ conn[a] = "open"
  /\ pc' = "write"
  /\ UNCHANGED <<mode, method, slot, rl, force_exit, todo, connVars, used>>

(* callback_test_raw_client(): whatever happens on a raw connection is     *)
(* printed and nothing more; its end, RAW_CLOSE, forgets no pointer.  The  *)
(* other loops name dumb-increment, which ignores what a raw one reports.  *)
callback_test_raw_client(a) ==
  /\ pc = "service" /\ method = "raw" /\ mode = "single"
  /\ conn[a] = "open"
  /\ Free(a) \/ UNCHANGED connVars
  /\ pc' = "write"
  /\ UNCHANGED <<mode, method, slot, rl, force_exit, todo, used>>

(* LWS_CALLBACK_RECEIVE_CLIENT_HTTP reads, and each piece is shown; a read *)
(* that fails ends the connection.                                         *)
HttpRead(a) ==
  /\ pc = "service" /\ method \in {"http", "post"}
  /\ conn[a] = "open"
  /\ Free(a) \/ UNCHANGED connVars
  /\ pc' = "write"
  /\ UNCHANGED <<mode, method, slot, rl, force_exit, todo, used>>

ReceiveClientHttp(a) == mode # "file" /\ HttpRead(a)

FileReceiveClientHttp(a) == mode = "file" /\ HttpRead(a)

(* LWS_CALLBACK_CLIENT_WRITEABLE in test-file-client sends a counter.      *)
ClientWriteable(a) ==
  /\ pc = "service" /\ mode = "file"
  /\ conn[a] = "open" /\ a \in asked
  /\ asked' = asked \ {a}
  /\ pc' = "write"
  /\ UNCHANGED <<mode, method, slot, rl, force_exit, todo, conn, via, body, used>>

(* Fault: the address is not compared for wsi_dumb and wsi_multi[].        *)
ForgetAll(a) == slot' = [k \in Slots |-> IF k = "wsi_fsc" THEN slot[k] ELSE NULL]

(* Every pointer that holds this address is cleared, wsi_fsc excepted.     *)
Forget(a) ==
  slot' = [k \in Slots |-> IF slot[k] = a /\ k # "wsi_fsc" THEN NULL ELSE slot[k]]

(* LWS_CALLBACK_CLIENT_CONNECTION_ERROR, which turns up at protocols[0].   *)
ConnectionError(a) ==
  /\ pc \in {"connect", "service"}
  /\ conn[a] = "connecting"
  /\ Free(a)
  /\ Forget(a)
  /\ pc' = IF pc = "service" THEN "write" ELSE pc
  /\ UNCHANGED <<mode, method, rl, force_exit, todo, used>>

(* Fault: the pointer is kept.                                             *)
ClosedKeeps(a) ==
  /\ pc = "service"
  /\ conn[a] = "open"
  /\ Free(a)
  /\ pc' = "write"
  /\ UNCHANGED <<mode, method, slot, rl, force_exit, todo, used>>

(* LWS_CALLBACK_CLOSED of a dumb-increment connection clears wsi_dumb,     *)
(* whichever connection it was; RAW_CLOSE, the close of an http connection *)
(* and that of the file connection clear nothing.                          *)
Closed(a) ==
  /\ pc = "service"
  /\ conn[a] = "open"
  /\ Free(a)
  /\ slot' = IF method = "ws" /\ via[a] # "wsi_fsc"
             THEN [slot EXCEPT !["wsi_dumb"] = NULL] ELSE slot
  /\ pc' = "write"
  /\ UNCHANGED <<mode, method, rl, force_exit, todo, used>>

(* LWS_CALLBACK_COMPLETED_CLIENT_HTTP: a request is answered, and that is  *)
(* all the client was for.                                                 *)
CompletedClientHttp(a) ==
  /\ pc = "service" /\ method \in {"http", "post"}
  /\ conn[a] = "open" /\ via[a] # "wsi_fsc"
  /\ Free(a)
  /\ slot' = [slot EXCEPT !["wsi_dumb"] = NULL]
  /\ force_exit' = TRUE
  /\ pc' = "write"
  /\ UNCHANGED <<mode, method, rl, todo, used>>

(* sighandler()                                                            *)
sighandler ==
  /\ pc # "exited"
  /\ ~force_exit
  /\ force_exit' = TRUE
  /\ UNCHANGED <<mode, method, slot, rl, pc, todo, connVars, used>>

(* A second passes.                                                        *)
Tick ==
  /\ pc # "exited"
  /\ \E k \in Slots : rl[k] < RATE
  /\ rl' = [k \in Slots |-> IF rl[k] < RATE THEN rl[k] + 1 ELSE rl[k]]
  /\ UNCHANGED <<mode, method, slot, force_exit, pc, todo, connVars, used>>

-----------------------------------------------------------------------------
Loop ==
  \/ CreateContext \/ FileCreateContext
  \/ \E k \in Slots : LookAt(k) \/ ConnectBoth(k)
  \/ EnterService \/ ServiceReturns \/ TurnAround

Next ==
  \/ Usage \/ CreateContext \/ FileCreateContext
  \/ \E k \in Slots : LookAt(k) \/ ConnectBoth(k)
  \/ EnterService \/ ServiceReturns \/ TurnAround
  \/ \E a \in Addrs : \/ AppendHandshakeHeader(a) \/ ClientHttpWriteable(a)
                      \/ ClientEstablished(a) \/ ConnectionError(a)
                      \/ ClientReceive(a) \/ callback_test_raw_client(a)
                      \/ ReceiveClientHttp(a) \/ FileReceiveClientHttp(a)
                      \/ ClientWriteable(a)
                      \/ Closed(a) \/ CompletedClientHttp(a)
  \/ sighandler \/ Tick

Spec == Init /\ [][Next]_vars

-----------------------------------------------------------------------------
(* Pointers, clocks and connections keep their type.                       *)
TypeOK ==
  /\ mode \in Modes /\ method \in Methods
  /\ slot \in [Slots -> Addrs \cup {NULL}]
  /\ rl \in [Slots -> 0 .. RATE]
  /\ force_exit \in BOOLEAN /\ used \in BOOLEAN
  /\ pc \in {"start", "connect", "service", "write", "exited"}
  /\ todo \subseteq Slots
  /\ conn \in [Addrs -> {"free", "connecting", "open"}]
  /\ body \in [Addrs -> {"none", "pending", "sent"}]
  /\ asked \subseteq Addrs
  /\ via \in [Addrs -> Slots \cup {NULL}]

(***************************************************************************)
(* A live connection is the one its slot points to, however addresses are  *)
(* reused and whichever connections fail: so no slot ever has two, and a   *)
(* failure is charged to the right one.  With a ws address wsi_dumb never  *)
(* points to a freed connection, which is what makes test-client connect   *)
(* again and what test-file-client's use of the pointer rests on.          *)
(***************************************************************************)
SlotsExact ==
  /\ \A a \in Live : slot[via[a]] = a
  /\ method = "ws" => ~used
  /\ method = "ws" => slot["wsi_dumb"] \in Live \cup {NULL}

(***************************************************************************)
(* Until it is told to exit, the client tries again: without -m and with a *)
(* ws address, whenever it has no connection; with -m, for every slot that *)
(* is NULL, which an attempt that fails makes it (test-client.c:121-136).  *)
(* It does not try again for a slot of -m whose connection was established *)
(* and closed: CLOSED (:106-109) clears wsi_dumb only, the slot keeps the  *)
(* freed address, and the loop (:659) takes it for a connection.           *)
(***************************************************************************)
Reconnects ==
  /\ (mode = "single" /\ method = "ws" /\ Live = {}) ~>
       (Live # {} \/ force_exit \/ pc = "exited")
  /\ \A k \in Multi :
       (mode = "multi" /\ slot[k] = NULL) ~>
         (slot[k] # NULL \/ force_exit \/ pc = "exited")
=============================================================================
