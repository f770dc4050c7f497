------------------------------ MODULE LwsMirror ------------------------------
(***************************************************************************)
(* The lws-mirror protocol plugin (plugins/protocol_lws_mirror.c): every   *)
(* packet received on one connection is copied to all of them through a    *)
(* ring buffer shared by the vhost.  Each connection reads the ring with a *)
(* cursor of its own.                                                      *)
(*                                                                         *)
(* Callbacks run one at a time on the service thread, so each is one       *)
(* action.  What the plugin asks of libwebsockets (a writeable callback,   *)
(* throttling of a connection's input) is the external part: `want' and    *)
(* `allowed' record the request, and the library honours it later.         *)
(***************************************************************************)
EXTENDS Integers, FiniteSets

CONSTANTS
  Sessions,           \* connection slots (a closed slot may be reused)
  MAX_MESSAGE_QUEUE,  \* slots of the ring: 512 in the code
  AllowGap,           \* the code's literal 15: input is re-allowed when a
                      \* cursor's lag falls to MAX_MESSAGE_QUEUE - AllowGap
  MaxPackets          \* bound: packets received over the whole run

NULL == 0             \* an empty slot; packets are numbered from 1

ASSUME SizeAssumption ==
  /\ MAX_MESSAGE_QUEUE \in Nat
  /\ AllowGap \in 3 .. MAX_MESSAGE_QUEUE - 1

ASSUME BoundAssumption == MaxPackets \in Nat

VARIABLES
  up,               \* FALSE once the vhost data is destroyed
  ringbuffer,       \* slot -> number of the packet whose payload it holds
  ringbuffer_head,  \* next slot to fill
  heap,             \* packets whose malloc'ed payload has not been freed
  live,             \* established connections
  ringbuffer_tail,  \* per connection: next slot to send
  want,             \* per connection: a writeable callback is requested
  allowed,          \* per connection: the library may deliver its input
  appended,         \* history: packets put in the ring
  dropped,          \* history: packets discarded at the "dropping!" branch
  last              \* history, per connection: last packet written to it
                    \* (at first, the last one put in before it connected)

vhostVars   == <<ringbuffer, ringbuffer_head, heap>>
sessionVars == <<live, ringbuffer_tail, want, allowed>>
historyVars == <<appended, dropped, last>>
vars        == <<up, vhostVars, sessionVars, historyVars>>

Slots == 0 .. MAX_MESSAGE_QUEUE - 1

(***************************************************************************)
(* (v->ringbuffer_head - t) & (MAX_MESSAGE_QUEUE - 1): the slots between   *)
(* cursor t and the head, counted around the ring.                         *)
(***************************************************************************)
Lag(t) == IF ringbuffer_head >= t
          THEN ringbuffer_head - t
          ELSE ringbuffer_head - t + MAX_MESSAGE_QUEUE

(* A cursor moved k slots on, wrapping after the last slot.                *)
Advance(t, k) == IF t + k >= MAX_MESSAGE_QUEUE
                 THEN t + k - MAX_MESSAGE_QUEUE
                 ELSE t + k

(* LWS_CALLBACK_PROTOCOL_INIT: the zeroed per-vhost data.                  *)
Init ==
  /\ up              = TRUE
  /\ ringbuffer      = [i \in Slots |-> NULL]
  /\ ringbuffer_head = 0
  /\ heap            = {}
  /\ live            = {}
  /\ ringbuffer_tail = [s \in Sessions |-> 0]
  /\ want            = [s \in Sessions |-> FALSE]
  /\ allowed         = [s \in Sessions |-> TRUE]
  /\ appended        = 0
  /\ dropped         = 0
  /\ last            = [s \in Sessions |-> 0]

(* Fault: the zeroed cursor of a new connection is left at slot 0.         *)
EstablishedAtZero(s) ==
  /\ up
  /\ s \notin live
  /\ live'    = live \cup {s}
  /\ want'    = [want EXCEPT ![s] = FALSE]
  /\ allowed' = [allowed EXCEPT ![s] = TRUE]
  /\ last'    = [last EXCEPT ![s] = appended]
  /\ UNCHANGED <<up, vhostVars, ringbuffer_tail, appended, dropped>>

(* LWS_CALLBACK_ESTABLISHED: a new connection starts at the head.          *)
Established(s) ==
  /\ up
  /\ s \notin live
  /\ live'            = live \cup {s}
  /\ ringbuffer_tail' = [ringbuffer_tail EXCEPT ![s] = ringbuffer_head]
  /\ want'            = [want EXCEPT ![s] = FALSE]
  /\ allowed'         = [allowed EXCEPT ![s] = TRUE]
  /\ last'            = [last EXCEPT ![s] = appended]
  /\ UNCHANGED <<up, vhostVars, appended, dropped>>

(* The per-session data of s goes away with its connection.                *)
Forget(s) ==
  /\ live'            = live \ {s}
  /\ ringbuffer_tail' = [ringbuffer_tail EXCEPT ![s] = 0]
  /\ last'            = [last EXCEPT ![s] = 0]

(* Fault: the writeable callbacks are not requested.                       *)
WantNone == UNCHANGED want

(* lws_callback_on_writable_all_protocol()                                 *)
WantAll == want' = [s \in Sessions |-> s \in live]

(***************************************************************************)
(* LWS_CALLBACK_RECEIVE of one packet from s.  Only the receiving          *)
(* connection's own cursor decides whether the ring is full, and only its  *)
(* own input is throttled.                                                 *)
(***************************************************************************)
DropPacket(s) ==
  /\ Lag(ringbuffer_tail[s]) = MAX_MESSAGE_QUEUE - 1
  /\ dropped' = dropped + 1
  /\ allowed' = [allowed EXCEPT ![s] = FALSE]
  /\ UNCHANGED <<vhostVars, appended>>

(* Fault: the head moves on before the slot is filled.                     *)
AppendAfterMove(s) ==
  LET h == Advance(ringbuffer_head, 1)
  IN /\ Lag(ringbuffer_tail[s]) # MAX_MESSAGE_QUEUE - 1
     /\ appended'        = appended + 1
     /\ heap'            = (heap \ {ringbuffer[h]}) \cup {appended + 1}
     /\ ringbuffer'      = [ringbuffer EXCEPT ![h] = appended + 1]
     /\ ringbuffer_head' = h
     /\ UNCHANGED <<allowed, dropped>>

(* Faults: the overwritten payload is not freed; the sender is not         *)
(* throttled.                                                              *)
AppendLeaking(s) ==
  LET h == ringbuffer_head
  IN /\ Lag(ringbuffer_tail[s]) # MAX_MESSAGE_QUEUE - 1
     /\ appended'        = appended + 1
     /\ heap'            = heap \cup {appended + 1}
     /\ ringbuffer'      = [ringbuffer EXCEPT ![h] = appended + 1]
     /\ ringbuffer_head' = Advance(h, 1)
     /\ UNCHANGED <<allowed, dropped>>

AppendPacket(s) ==
  LET h   == ringbuffer_head
      lag == Lag(ringbuffer_tail[s])
  IN /\ lag # MAX_MESSAGE_QUEUE - 1
     /\ appended'        = appended + 1
     /\ heap'            = (heap \ {ringbuffer[h]}) \cup {appended + 1}
     /\ ringbuffer'      = [ringbuffer EXCEPT ![h] = appended + 1]
     /\ ringbuffer_head' = Advance(h, 1)
     /\ allowed' = IF lag + 1 = MAX_MESSAGE_QUEUE - 2
                   THEN [allowed EXCEPT ![s] = FALSE]
                   ELSE allowed
     /\ UNCHANGED dropped

Receive(s) ==
  /\ s \in live
  /\ allowed[s]
  /\ appended + dropped < MaxPackets
  /\ DropPacket(s) \/ AppendPacket(s)
  /\ WantAll
  /\ UNCHANGED <<up, live, ringbuffer_tail, last>>

(***************************************************************************)
(* LWS_CALLBACK_SERVER_WRITEABLE: the loop sends k packets of the backlog. *)
(* On the way past the low-water mark it lets every connection's input in. *)
(***************************************************************************)
LowWater == MAX_MESSAGE_QUEUE - AllowGap

(* Fault: the mark is looked at once, after the loop.                      *)
RxFlowAllowAtEnd(s, k) ==
  IF Lag(ringbuffer_tail[s]) - k = LowWater
  THEN [x \in Sessions |-> TRUE]
  ELSE allowed

RxFlowAllowAll(s, k) ==
  LET lag == Lag(ringbuffer_tail[s])
  IN IF lag > LowWater /\ LowWater >= lag - k
     THEN [x \in Sessions |-> TRUE]
     ELSE allowed

(* The packet in the k-th slot of the backlog of s.                        *)
Backlog(s, k) == ringbuffer[Advance(ringbuffer_tail[s], k - 1)]

(* Fault: a choked pipe is not waited for.                                 *)
SendNoRearm(s, k, choked) ==
  /\ k \in 1 .. Lag(ringbuffer_tail[s])
  /\ choked \/ k = Lag(ringbuffer_tail[s])
  /\ ringbuffer_tail' = [ringbuffer_tail EXCEPT ![s] = Advance(@, k)]
  /\ last'    = [last EXCEPT ![s] = Backlog(s, k)]
  /\ allowed' = RxFlowAllowAll(s, k)
  /\ want'    = [want EXCEPT ![s] = FALSE]
  /\ UNCHANGED live

(* k >= 1 packets go out; choked: the pipe filled up after the last one.   *)
Send(s, k, choked) ==
  /\ k \in 1 .. Lag(ringbuffer_tail[s])
  /\ choked \/ k = Lag(ringbuffer_tail[s])
  /\ ringbuffer_tail' = [ringbuffer_tail EXCEPT ![s] = Advance(@, k)]
  /\ last'    = [last EXCEPT ![s] = Backlog(s, k)]
  /\ allowed' = RxFlowAllowAll(s, k)
  /\ want'    = [want EXCEPT ![s] = choked]
  /\ UNCHANGED live

(* Nothing in the backlog: the callback does nothing.                      *)
SendNothing(s) ==
  /\ Lag(ringbuffer_tail[s]) = 0
  /\ want' = [want EXCEPT ![s] = FALSE]
  /\ UNCHANGED <<live, ringbuffer_tail, allowed, last>>

(* lws_write fails after k packets: -1 makes the library close s.          *)
SendFails(s, k) ==
  /\ k \in 0 .. Lag(ringbuffer_tail[s]) - 1
  /\ Forget(s)
  /\ want'    = [want EXCEPT ![s] = FALSE]
  /\ allowed' = [RxFlowAllowAll(s, k) EXCEPT ![s] = TRUE]

Writeable(s) ==
  /\ s \in live
  /\ want[s]
  /\ \/ \E k \in Slots, choked \in BOOLEAN : Send(s, k, choked)
     \/ SendNothing(s)
     \/ \E k \in Slots : SendFails(s, k)
  /\ UNCHANGED <<up, vhostVars, appended, dropped>>

(* The peer goes away; the plugin has no code for it.                      *)
Closed(s) ==
  /\ s \in live
  /\ Forget(s)
  /\ want'    = [want EXCEPT ![s] = FALSE]
  /\ allowed' = [allowed EXCEPT ![s] = TRUE]
  /\ UNCHANGED <<up, vhostVars, appended, dropped>>

(* LWS_CALLBACK_PROTOCOL_DESTROY, after the library closed all of them.    *)
Destroy ==
  /\ up
  /\ live = {}
  /\ up' = FALSE
  /\ heap' = heap \ {ringbuffer[i] : i \in Slots}
  /\ ringbuffer' = [i \in Slots |-> NULL]
  /\ UNCHANGED <<ringbuffer_head, sessionVars, historyVars>>

Next ==
  \/ \E s \in Sessions : Established(s)
  \/ \E s \in Sessions : Receive(s)
  \/ \E s \in Sessions : Writeable(s)
  \/ \E s \in Sessions : Closed(s)
  \/ Destroy

Spec == Init /\ [][Next]_vars

(***************************************************************************)
(* The library's poll loop serves a requested writeable callback when the  *)
(* socket can take data, and a socket whose peer reads always can again.   *)
(***************************************************************************)
FairSpec == Spec /\ \A s \in Sessions : WF_vars(Writeable(s))

-----------------------------------------------------------------------------
(* The state of the plugin and of the histories kept about it.             *)
TypeOK ==
  /\ up              \in BOOLEAN
  /\ ringbuffer      \in [Slots -> Nat]
  /\ ringbuffer_head \in Slots
  /\ heap            \in SUBSET (Nat \ {NULL})
  /\ live            \in SUBSET Sessions
  /\ ringbuffer_tail \in [Sessions -> Slots]
  /\ want            \in [Sessions -> BOOLEAN]
  /\ allowed         \in [Sessions -> BOOLEAN]
  /\ appended        \in Nat
  /\ dropped         \in Nat
  /\ last            \in [Sessions -> Nat]

(***************************************************************************)
(* A connection that has something to send has a writeable callback        *)
(* requested: neither a choked pipe nor a packet received on another       *)
(* connection leaves a backlog nobody will ever be woken for.              *)
(***************************************************************************)
NoLostWakeup ==
  \A s \in live : ringbuffer_tail[s] # ringbuffer_head => want[s]

(***************************************************************************)
(* Whatever the other connections overwrite under it, the backlog of a     *)
(* connection is always the newest run of packets, in order, with no hole, *)
(* and none of it was sent on that connection before.                      *)
(***************************************************************************)
BacklogIsNewest ==
  \A s \in live :
    LET lag == Lag(ringbuffer_tail[s])
    IN /\ last[s] <= appended - lag
       /\ \A k \in 1 .. lag : Backlog(s, k) = appended - lag + k

(***************************************************************************)
(* The malloc'ed payloads are exactly those the ring points to: none leaks *)
(* when its slot is overwritten, none is freed while a slot holds it, and  *)
(* PROTOCOL_DESTROY leaves none behind.                                    *)
(***************************************************************************)
PayloadOwnership ==
  /\ heap = {ringbuffer[i] : i \in Slots} \ {NULL}
  /\ ~up => heap = {}

(***************************************************************************)
(* A connection never gets a packet twice, or after a later one, even when *)
(* it is lapped between two writeable callbacks.                           *)
(***************************************************************************)
DeliveredInOrder ==
  [][\A s \in live \cap live' :
       /\ last[s] <= last'[s]
       /\ ringbuffer_tail[s] # ringbuffer_tail'[s] => last[s] < last'[s]]_vars

(***************************************************************************)
(* test-server.c:93: "lws-mirror-protocol: copies any received packet to   *)
(* every connection also using this protocol, including the sender": no    *)
(* received packet is discarded, and what a connection has not been sent   *)
(* is still in its backlog.                                                *)
(***************************************************************************)
EveryPacketMirrored ==
  /\ dropped = 0
  /\ \A s \in live : last[s] + Lag(ringbuffer_tail[s]) = appended

(* The ring has gone once around s: all that was in its backlog has been   *)
(* overwritten, and the cursor seems to have nothing to send.              *)
Overrun(s) == Lag(ringbuffer_tail[s]) = 0 /\ last[s] < appended

(***************************************************************************)
(* A throttled connection is let in again or goes away, unless the others  *)
(* overrun it first.  It is always throttled with a backlog above the      *)
(* low-water mark, which its own cursor passes on the way to the head; but *)
(* once packets of other connections wrap its lag to 0 its cursor has      *)
(* nothing to pass, and it stays throttled until another one goes past its *)
(* own mark (protocol_lws_mirror.c:107-109, :138-144).                     *)
(***************************************************************************)
ThrottleReleased ==
  \A s \in Sessions :
    (~allowed[s] /\ Lag(ringbuffer_tail[s]) > LowWater)
      ~> (allowed[s] \/ Overrun(s))

(***************************************************************************)
(* Every packet put in the ring reaches a connection that stays, when no   *)
(* other one is there to overrun it.                                       *)
(***************************************************************************)
EveryPacketArrives ==
  \A s \in Sessions, p \in 1 .. MaxPackets :
    [](live \subseteq {s}) =>
      ((s \in live /\ p <= appended) ~> (s \notin live \/ last[s] >= p))
=============================================================================
