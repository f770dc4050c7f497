-------------------------- MODULE LwsMirrorProofs --------------------------
(***************************************************************************)
(* What LwsMirror promises for any number of connections, any size of the  *)
(* ring and any number of packets.                                         *)
(***************************************************************************)
EXTENDS LwsMirror, TLAPS

(* How many packets ago slot i was filled: 1 for the slot before the head, *)
(* a whole lap for the one at the head.                                    *)
Age(i) == IF ringbuffer_head > i
          THEN ringbuffer_head - i
          ELSE ringbuffer_head - i + MAX_MESSAGE_QUEUE

(***************************************************************************)
(* The strengthening.  A slot's content follows from its age; a cursor is  *)
(* behind the head by no more packets than it has still to be sent; the    *)
(* vhost data outlives the connections.                                    *)
(***************************************************************************)
RingByAge ==
  up => \A i \in Slots : ringbuffer[i] = IF Age(i) <= appended
                                         THEN appended - Age(i) + 1
                                         ELSE NULL

HeapOwned ==
  /\ \A p \in heap : \E i \in Slots : ringbuffer[i] = p
  /\ \A i \in Slots : ringbuffer[i] # NULL => ringbuffer[i] \in heap
  /\ ~up => heap = {}

CursorOK == \A s \in live : last[s] + Lag(ringbuffer_tail[s]) <= appended

UpWhileLive == live # {} => up

IInv == TypeOK /\ NoLostWakeup /\ RingByAge /\ HeapOwned /\ CursorOK /\ UpWhileLive

-----------------------------------------------------------------------------
(* A cursor stays in the ring, and moving it k slots on takes k off the    *)
(* lag, wherever the wrap is (the masked differences at lines 109 and 134).*)
LEMMA AdvanceLag ==
  ASSUME TypeOK, NEW t \in Slots, NEW k \in 0 .. Lag(t)
  PROVE  /\ Lag(t) \in Slots
         /\ Advance(t, k) \in Slots
         /\ Lag(Advance(t, k)) = Lag(t) - k
         /\ k < Lag(t) => Age(Advance(t, k)) = Lag(t) - k
BY SizeAssumption DEF TypeOK, Slots, Lag, Advance, Age

(* The head moves on within the ring.                                      *)
LEMMA HeadInRing ==
  ASSUME NEW h \in Slots
  PROVE  Advance(h, 1) \in Slots
BY SizeAssumption DEF Slots, Advance

(* What is in the backlog of a connection (lines 91-94), from the ages.    *)
LEMMA BacklogValue ==
  ASSUME IInv, NEW s \in live, NEW k \in 1 .. Lag(ringbuffer_tail[s])
  PROVE  Backlog(s, k) = appended - Lag(ringbuffer_tail[s]) + k
<1> DEFINE t == ringbuffer_tail[s]
           a == Advance(t, k - 1)
<1>1. t \in Slots /\ s \in Sessions /\ Lag(t) \in Int
  BY SizeAssumption DEF IInv, TypeOK, Slots, Lag
<1>2. k - 1 \in 0 .. Lag(t) /\ k - 1 < Lag(t)
  BY <1>1
<1>3. a \in Slots /\ Age(a) = Lag(t) - (k - 1)
  BY <1>1, <1>2, AdvanceLag DEF IInv
<1>4. last[s] \in Nat /\ last[s] + Lag(t) <= appended /\ appended \in Nat /\ up
  BY <1>1 DEF IInv, TypeOK, CursorOK, UpWhileLive
<1>5. ringbuffer[a] = appended - Age(a) + 1
  BY <1>1, <1>2, <1>3, <1>4 DEF IInv, RingByAge
<1> QED
  BY <1>1, <1>3, <1>4, <1>5 DEF Backlog

(* Slots hold different packets (line 126 frees one that no other holds).  *)
LEMMA SlotsDiffer ==
  ASSUME IInv, up, NEW i \in Slots, NEW j \in Slots, i # j,
         ringbuffer[i] # NULL
  PROVE  ringbuffer[i] # ringbuffer[j]
<1>1. Age(i) # Age(j) /\ Age(i) \in Int /\ Age(j) \in Int
  BY SizeAssumption DEF IInv, TypeOK, Slots, Age
<1> QED
  BY <1>1 DEF IInv, TypeOK, RingByAge, NULL

(* The zeroed vhost data of PROTOCOL_INIT is a good start.                 *)
LEMMA InitInv == Init => IInv
<1> SUFFICES ASSUME Init PROVE IInv
  OBVIOUS
<1>1. TypeOK
  BY SizeAssumption DEF Init, TypeOK, Slots, NULL
<1>2. RingByAge
  BY SizeAssumption DEF Init, RingByAge, Slots, NULL, Age
<1> QED
  BY <1>1, <1>2 DEF Init, IInv, NoLostWakeup, HeapOwned, CursorOK, UpWhileLive, NULL

(* ESTABLISHED preserves the invariant.                                    *)
LEMMA EstablishedInv ==
  ASSUME IInv, NEW s \in Sessions, Established(s)
  PROVE  IInv'
<1> USE DEF Established, vhostVars
<1>1. TypeOK'
  BY DEF IInv, TypeOK
<1>2. NoLostWakeup'
  BY DEF IInv, TypeOK, NoLostWakeup
<1>3. RingByAge' /\ HeapOwned' /\ UpWhileLive'
  BY DEF IInv, RingByAge, HeapOwned, UpWhileLive, Age
<1>4. CursorOK'
  <2> SUFFICES ASSUME NEW x \in live'
               PROVE  last'[x] + Lag(ringbuffer_tail[x])' <= appended
    BY DEF CursorOK, Lag
  <2>1. CASE x = s
    BY <2>1, SizeAssumption DEF IInv, TypeOK, Slots, Lag
  <2>2. CASE x # s
    BY <2>2 DEF IInv, TypeOK, CursorOK, Lag
  <2> QED
    BY <2>1, <2>2
<1> QED
  BY <1>1, <1>2, <1>3, <1>4 DEF IInv

(* The "dropping!" branch of RECEIVE preserves the invariant.              *)
LEMMA DropInv ==
  ASSUME IInv, NEW s \in Sessions, Receive(s), DropPacket(s)
  PROVE  IInv'
<1> USE DEF Receive, DropPacket, vhostVars, WantAll
<1>1. TypeOK'
  BY DEF IInv, TypeOK
<1>2. NoLostWakeup'
  BY DEF IInv, TypeOK, NoLostWakeup
<1>3. RingByAge' /\ HeapOwned' /\ CursorOK' /\ UpWhileLive'
  BY DEF IInv, RingByAge, HeapOwned, CursorOK, UpWhileLive, Age, Lag
<1> QED
  BY <1>1, <1>2, <1>3 DEF IInv

(***************************************************************************)
(* RECEIVE of a packet that goes into the ring.  Every other slot is one   *)
(* packet older; a cursor's lag grows by one or, when it is lapped, falls  *)
(* to zero.                                                                *)
(***************************************************************************)
LEMMA AppendInv ==
  ASSUME IInv, NEW s \in Sessions, Receive(s), AppendPacket(s)
  PROVE  IInv'
<1> DEFINE h == ringbuffer_head
<1> USE DEF Receive, WantAll
<1>1. /\ h \in Slots /\ appended \in Nat /\ up
      /\ h' = Advance(h, 1) /\ Advance(h, 1) \in Slots
      /\ appended' = appended + 1
      /\ ringbuffer' = [ringbuffer EXCEPT ![h] = appended + 1]
      /\ heap' = (heap \ {ringbuffer[h]}) \cup {appended + 1}
  BY HeadInRing DEF IInv, TypeOK, UpWhileLive, AppendPacket
<1>2. TypeOK'
  <2>1. allowed' \in [Sessions -> BOOLEAN]
    BY DEF AppendPacket, IInv, TypeOK
  <2>2. heap' \in SUBSET (Nat \ {NULL}) /\ ringbuffer' \in [Slots -> Nat]
    <3>1. appended + 1 \in Nat \ {NULL}
      BY <1>1 DEF NULL
    <3>2. heap \in SUBSET (Nat \ {NULL}) /\ ringbuffer \in [Slots -> Nat]
      BY DEF IInv, TypeOK
    <3> QED
      BY <1>1, <3>1, <3>2
  <2> QED
    BY <1>1, <2>1, <2>2 DEF AppendPacket, IInv, TypeOK
<1>3. NoLostWakeup'
  BY DEF IInv, TypeOK, NoLostWakeup
<1>4. RingByAge'
  <2> SUFFICES ASSUME NEW i \in Slots
               PROVE  (ringbuffer[i] = IF Age(i) <= appended
                                       THEN appended - Age(i) + 1
                                       ELSE NULL)'
    BY DEF RingByAge
  <2>1. CASE i = h
    <3>1. Age(i)' = 1
      BY <1>1, <2>1, SizeAssumption DEF Age, Advance, Slots
    <3>2. ringbuffer'[i] = appended + 1
      BY <1>1, <2>1 DEF IInv, TypeOK
    <3> QED
      BY <1>1, <3>1, <3>2
  <2>2. CASE i # h
    <3>1. Age(i)' = Age(i) + 1 /\ Age(i) \in Int
      BY <1>1, <2>2, SizeAssumption DEF Age, Advance, Slots
    <3>2. ringbuffer'[i] = ringbuffer[i]
      BY <1>1, <2>2 DEF IInv, TypeOK
    <3> QED
      BY <1>1, <3>1, <3>2 DEF IInv, RingByAge
  <2> QED
    BY <2>1, <2>2
<1>5. HeapOwned'
  <2>1. ASSUME NEW p \in heap'
        PROVE  \E i \in Slots : ringbuffer'[i] = p
    <3>1. CASE p = appended + 1
      BY <1>1, <3>1 DEF IInv, TypeOK
    <3>2. CASE p # appended + 1
      <4>1. p \in heap /\ p # ringbuffer[h]
        BY <1>1, <2>1, <3>2
      <4>2. PICK i \in Slots : ringbuffer[i] = p
        BY <4>1 DEF IInv, HeapOwned
      <4>3. i # h
        BY <4>1, <4>2
      <4> QED
        BY <1>1, <4>2, <4>3 DEF IInv, TypeOK
    <3> QED
      BY <3>1, <3>2
  <2>2. ASSUME NEW i \in Slots, ringbuffer'[i] # NULL
        PROVE  ringbuffer'[i] \in heap'
    <3>1. CASE i = h
      BY <1>1, <3>1 DEF IInv, TypeOK
    <3>2. CASE i # h
      <4>1. ringbuffer'[i] = ringbuffer[i]
        BY <1>1, <3>2 DEF IInv, TypeOK
      <4>2. ringbuffer[i] # ringbuffer[h] /\ ringbuffer[i] \in heap
        BY <1>1, <2>2, <3>2, <4>1, SlotsDiffer DEF IInv, HeapOwned
      <4> QED
        BY <1>1, <4>1, <4>2
    <3> QED
      BY <3>1, <3>2
  <2> QED
    BY <1>1, <2>1, <2>2 DEF HeapOwned, Slots
<1>6. CursorOK'
  <2> SUFFICES ASSUME NEW x \in live
               PROVE  last[x] + Lag(ringbuffer_tail[x])' <= appended + 1
    BY <1>1 DEF CursorOK, Lag
  <2>1. ringbuffer_tail[x] \in Slots /\ last[x] \in Nat
    BY DEF IInv, TypeOK
  <2>2. last[x] + Lag(ringbuffer_tail[x]) <= appended
    BY DEF IInv, CursorOK
  <2> QED
    BY <1>1, <2>1, <2>2, SizeAssumption DEF Lag, Advance, Slots
<1>7. UpWhileLive'
  BY DEF IInv, UpWhileLive
<1> QED
  BY <1>2, <1>3, <1>4, <1>5, <1>6, <1>7 DEF IInv

(* SERVER_WRITEABLE that gets k packets out preserves the invariant.       *)
LEMMA SendInv ==
  ASSUME IInv, NEW s \in live, NEW k \in Slots, NEW choked \in BOOLEAN,
         Send(s, k, choked), UNCHANGED <<up, vhostVars, appended, dropped>>
  PROVE  IInv' /\ last[s] < last'[s]
<1> DEFINE t == ringbuffer_tail[s]
<1>1. /\ t \in Slots /\ s \in Sessions /\ k \in 1 .. Lag(t)
      /\ last[s] \in Nat /\ appended \in Nat
      /\ last[s] + Lag(t) <= appended
      /\ Lag(t) \in Slots
      /\ ringbuffer_head' = ringbuffer_head /\ appended' = appended
  <2>1. t \in Slots /\ s \in Sessions /\ last[s] \in Nat /\ appended \in Nat
    BY DEF IInv, TypeOK
  <2>2. Lag(t) \in Slots
    BY <2>1, SizeAssumption DEF IInv, TypeOK, Lag, Slots
  <2> QED
    BY <2>1, <2>2 DEF Send, IInv, CursorOK, vhostVars
<1>2. /\ Advance(t, k) \in Slots
      /\ Lag(Advance(t, k)) = Lag(t) - k
  <2>1. k \in 0 .. Lag(t)
    BY <1>1 DEF Slots
  <2> QED
    BY <1>1, <2>1, AdvanceLag DEF IInv
<1>3. Backlog(s, k) = appended - Lag(t) + k
  BY <1>1, BacklogValue
<1>4. Backlog(s, k) \in Nat /\ last[s] < Backlog(s, k)
  BY <1>1, <1>3 DEF Slots
<1>5. TypeOK'
  <2>1. allowed' \in [Sessions -> BOOLEAN]
    BY DEF Send, RxFlowAllowAll, IInv, TypeOK
  <2>2. ringbuffer_tail' \in [Sessions -> Slots]
    BY <1>1, <1>2 DEF Send, IInv, TypeOK
  <2>3. last' \in [Sessions -> Nat]
    BY <1>4 DEF Send, IInv, TypeOK
  <2> QED
    BY <2>1, <2>2, <2>3 DEF Send, IInv, TypeOK, vhostVars
<1>6. NoLostWakeup'
  <2> SUFFICES ASSUME NEW x \in live, ringbuffer_tail'[x] # ringbuffer_head
               PROVE  want'[x]
    BY <1>1 DEF NoLostWakeup, Send
  <2>1. CASE x # s
    BY <2>1 DEF Send, IInv, TypeOK, NoLostWakeup
  <2>2. CASE x = s
    <3>1. Lag(t) - k # 0
      <4>1. Advance(t, k) # ringbuffer_head
        BY <1>1, <2>2 DEF Send, IInv, TypeOK
      <4>2. Lag(Advance(t, k)) # 0
        BY <1>2, <4>1, SizeAssumption DEF IInv, TypeOK, Lag, Slots
      <4> QED
        BY <1>2, <4>2
    <3>2. choked
      BY <1>1, <3>1 DEF Send, Slots
    <3> QED
      BY <1>1, <2>2, <3>2 DEF Send, IInv, TypeOK
  <2> QED
    BY <2>1, <2>2
<1>7. RingByAge' /\ HeapOwned' /\ UpWhileLive'
  BY DEF Send, IInv, RingByAge, HeapOwned, UpWhileLive, Age, vhostVars
<1>8. CursorOK'
  <2> SUFFICES ASSUME NEW x \in live
               PROVE  last'[x] + Lag(ringbuffer_tail'[x]) <= appended
    BY <1>1 DEF CursorOK, Send, Lag
  <2>1. CASE x # s
    BY <2>1 DEF Send, IInv, TypeOK, CursorOK
  <2>2. CASE x = s
    <3>1. last'[x] = Backlog(s, k) /\ ringbuffer_tail'[x] = Advance(t, k)
      BY <1>1, <2>2 DEF Send, IInv, TypeOK
    <3> QED
      BY <1>1, <1>2, <1>3, <3>1 DEF Slots
  <2> QED
    BY <2>1, <2>2
<1>9. last[s] < last'[s]
  BY <1>1, <1>4 DEF Send, IInv, TypeOK
<1> QED
  BY <1>5, <1>6, <1>7, <1>8, <1>9 DEF IInv

(* The callback with nothing to send preserves the invariant.              *)
LEMMA SendNothingInv ==
  ASSUME IInv, NEW s \in live, SendNothing(s),
         UNCHANGED <<up, vhostVars, appended, dropped>>
  PROVE  IInv'
<1> USE DEF SendNothing, vhostVars
<1>1. TypeOK'
  BY DEF IInv, TypeOK
<1>2. NoLostWakeup'
  <2>1. ringbuffer_tail[s] = ringbuffer_head
    BY SizeAssumption DEF IInv, TypeOK, Lag, Slots
  <2> QED
    BY <2>1 DEF IInv, TypeOK, NoLostWakeup
<1>3. RingByAge' /\ HeapOwned' /\ CursorOK' /\ UpWhileLive'
  BY DEF IInv, RingByAge, HeapOwned, CursorOK, UpWhileLive, Age, Lag
<1> QED
  BY <1>1, <1>2, <1>3 DEF IInv

(* Losing a connection, to a failed write or to its peer, preserves it.    *)
LEMMA ForgetInv ==
  ASSUME IInv, NEW s \in live, Forget(s),
         want' = [want EXCEPT ![s] = FALSE],
         allowed' \in [Sessions -> BOOLEAN],
         UNCHANGED <<up, vhostVars, appended, dropped>>
  PROVE  IInv'
<1> USE DEF Forget, vhostVars
<1>1. TypeOK'
  <2>1. 0 \in Slots
    BY SizeAssumption DEF Slots
  <2>2. ringbuffer_tail' \in [Sessions -> Slots] /\ last' \in [Sessions -> Nat]
    BY <2>1 DEF IInv, TypeOK
  <2> QED
    BY <2>2 DEF IInv, TypeOK
<1>2. NoLostWakeup'
  BY DEF IInv, TypeOK, NoLostWakeup
<1>3. RingByAge' /\ HeapOwned' /\ UpWhileLive'
  BY DEF IInv, RingByAge, HeapOwned, UpWhileLive, Age
<1>4. CursorOK'
  BY DEF IInv, TypeOK, CursorOK, Lag
<1> QED
  BY <1>1, <1>2, <1>3, <1>4 DEF IInv

(* PROTOCOL_DESTROY preserves the invariant.                               *)
LEMMA DestroyInv ==
  ASSUME IInv, Destroy
  PROVE  IInv'
<1> USE DEF Destroy, sessionVars, historyVars
<1>1. TypeOK'
  BY DEF IInv, TypeOK, NULL
<1>2. HeapOwned'
  <2>1. heap' = {}
    BY DEF IInv, HeapOwned
  <2> QED
    BY <2>1 DEF HeapOwned, Slots
<1>3. NoLostWakeup' /\ RingByAge' /\ CursorOK' /\ UpWhileLive'
  BY DEF IInv, NoLostWakeup, RingByAge, CursorOK, UpWhileLive
<1> QED
  BY <1>1, <1>2, <1>3 DEF IInv

-----------------------------------------------------------------------------
(* Every callback preserves the invariant, and a connection that stays is  *)
(* only ever sent packets later than what it was sent before.              *)
LEMMA StepInv ==
  ASSUME IInv, [Next]_vars
  PROVE  /\ IInv'
         /\ \A s \in live \cap live' :
              /\ last[s] <= last'[s]
              /\ ringbuffer_tail[s] # ringbuffer_tail'[s] => last[s] < last'[s]
<1> DEFINE Ordered(s) ==
             /\ last[s] <= last'[s]
             /\ ringbuffer_tail[s] # ringbuffer_tail'[s] => last[s] < last'[s]
<1>0. last \in [Sessions -> Nat] /\ live \subseteq Sessions
      /\ ringbuffer_tail \in [Sessions -> Slots]
  BY DEF IInv, TypeOK
<1>1. ASSUME NEW s \in Sessions, Established(s)
      PROVE  IInv' /\ \A x \in live \cap live' : Ordered(x)
  <2>1. IInv'
    BY <1>1, EstablishedInv
  <2>2. \A x \in live : last'[x] = last[x] /\ ringbuffer_tail'[x] = ringbuffer_tail[x]
    BY <1>0, <1>1 DEF Established
  <2> QED
    BY <1>0, <2>1, <2>2
<1>2. ASSUME NEW s \in Sessions, Receive(s)
      PROVE  IInv' /\ \A x \in live \cap live' : Ordered(x)
  <2>1. IInv'
    BY <1>2, DropInv, AppendInv DEF Receive
  <2>2. last' = last /\ ringbuffer_tail' = ringbuffer_tail
    BY <1>2 DEF Receive
  <2> QED
    BY <1>0, <2>1, <2>2
<1>3. ASSUME NEW s \in Sessions, Writeable(s)
      PROVE  IInv' /\ \A x \in live \cap live' : Ordered(x)
  <2>0. s \in live /\ UNCHANGED <<up, vhostVars, appended, dropped>>
    BY <1>3 DEF Writeable
  <2>1. ASSUME NEW k \in Slots, NEW choked \in BOOLEAN, Send(s, k, choked)
        PROVE  IInv' /\ \A x \in live \cap live' : Ordered(x)
    <3>1. IInv' /\ last[s] < last'[s]
      BY <2>0, <2>1, SendInv
    <3>2. \A x \in live : x # s => last'[x] = last[x] /\ ringbuffer_tail'[x] = ringbuffer_tail[x]
      BY <1>0, <2>1 DEF Send
    <3>3. last'[s] \in Nat /\ last[s] \in Nat
      BY <3>1 DEF IInv, TypeOK
    <3>4. last[s] <= last'[s]
      BY <3>1, <3>3
    <3> QED
      BY <1>0, <3>1, <3>2, <3>4
  <2>2. ASSUME SendNothing(s)
        PROVE  IInv' /\ \A x \in live \cap live' : Ordered(x)
    <3>1. IInv'
      BY <2>0, <2>2, SendNothingInv
    <3>2. last' = last /\ ringbuffer_tail' = ringbuffer_tail
      BY <2>2 DEF SendNothing
    <3> QED
      BY <1>0, <3>1, <3>2
  <2>3. ASSUME NEW k \in Slots, SendFails(s, k)
        PROVE  IInv' /\ \A x \in live \cap live' : Ordered(x)
    <3>1. allowed' \in [Sessions -> BOOLEAN]
      BY <2>3 DEF SendFails, RxFlowAllowAll, IInv, TypeOK
    <3>2. IInv'
      BY <2>0, <2>3, <3>1, ForgetInv DEF SendFails
    <3> QED
      BY <1>0, <2>3, <3>2 DEF SendFails, Forget
  <2> QED
    BY <1>3, <2>1, <2>2, <2>3 DEF Writeable
<1>4. ASSUME NEW s \in Sessions, Closed(s)
      PROVE  IInv' /\ \A x \in live \cap live' : Ordered(x)
  <2>1. allowed' \in [Sessions -> BOOLEAN]
    BY <1>4 DEF Closed, IInv, TypeOK
  <2>2. IInv'
    BY <1>4, <2>1, ForgetInv DEF Closed
  <2> QED
    BY <1>0, <1>4, <2>2 DEF Closed, Forget
<1>5. CASE Destroy
  BY <1>5, DestroyInv DEF Destroy
<1>6. CASE UNCHANGED vars
  <2>1. IInv'
    BY <1>6 DEF vars, vhostVars, sessionVars, historyVars, IInv, TypeOK, NoLostWakeup,
                RingByAge, HeapOwned, CursorOK, UpWhileLive, Age, Lag
  <2> QED
    BY <1>0, <1>6, <2>1 DEF vars, sessionVars, historyVars
<1> QED
  BY <1>1, <1>2, <1>3, <1>4, <1>5, <1>6 DEF Next

(* The strengthened invariant holds of every behaviour.                    *)
THEOREM InvariantHolds == Spec => []IInv
<1>1. IInv /\ [Next]_vars => IInv'
  BY StepInv
<1> QED
  BY InitInv, <1>1, PTL DEF Spec

(* The plugin's state keeps its type.                                      *)
THEOREM TypeCorrect == Spec => []TypeOK
<1>1. IInv => TypeOK
  BY DEF IInv
<1> QED
  BY InvariantHolds, <1>1, PTL

(* No backlog is left without a requested writeable callback.              *)
THEOREM WakeupsAreNotLost == Spec => []NoLostWakeup
<1>1. IInv => NoLostWakeup
  BY DEF IInv
<1> QED
  BY InvariantHolds, <1>1, PTL

(* The backlog of every connection is the newest run of packets.           *)
THEOREM BacklogsAreNewest == Spec => []BacklogIsNewest
<1>1. IInv => BacklogIsNewest
  <2> SUFFICES ASSUME IInv, NEW s \in live
               PROVE  LET lag == Lag(ringbuffer_tail[s])
                      IN /\ last[s] <= appended - lag
                         /\ \A k \in 1 .. lag : Backlog(s, k) = appended - lag + k
    BY DEF BacklogIsNewest
  <2>1. /\ last[s] \in Nat /\ appended \in Nat /\ Lag(ringbuffer_tail[s]) \in Int
        /\ last[s] + Lag(ringbuffer_tail[s]) <= appended
    BY SizeAssumption DEF IInv, TypeOK, CursorOK, Lag, Slots
  <2>2. last[s] <= appended - Lag(ringbuffer_tail[s])
    BY <2>1
  <2> QED
    BY <2>2, BacklogValue
<1> QED
  BY InvariantHolds, <1>1, PTL

(* The ring owns exactly the payloads that are allocated.                  *)
THEOREM PayloadsAreOwned == Spec => []PayloadOwnership
<1>1. IInv => PayloadOwnership
  <2> SUFFICES ASSUME IInv PROVE PayloadOwnership
    OBVIOUS
  <2>1. ASSUME NEW p \in heap
        PROVE  p # NULL /\ p \in {ringbuffer[i] : i \in Slots}
    BY DEF IInv, TypeOK, HeapOwned
  <2>2. ASSUME NEW i \in Slots, ringbuffer[i] # NULL
        PROVE  ringbuffer[i] \in heap
    BY <2>2 DEF IInv, HeapOwned
  <2> QED
    BY <2>1, <2>2 DEF IInv, HeapOwned, PayloadOwnership
<1> QED
  BY InvariantHolds, <1>1, PTL

(* No connection is sent a packet twice or out of order.                   *)
THEOREM DeliveryIsOrdered == Spec => DeliveredInOrder
<1>1. IInv /\ [Next]_vars =>
        [\A s \in live \cap live' :
           /\ last[s] <= last'[s]
           /\ ringbuffer_tail[s] # ringbuffer_tail'[s] => last[s] < last'[s]]_vars
  BY StepInv
<1> QED
  BY InvariantHolds, <1>1, PTL DEF Spec, DeliveredInOrder
=============================================================================
