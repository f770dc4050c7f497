--------------------------- MODULE ProgramsProofs ---------------------------
(***************************************************************************)
(* Proofs about the programs that stand alone, for every value of their    *)
(* constants: SlotsExact of the web clients, EchoedInOrder of the echo     *)
(* server with the tty client, SignalsCounted of the signal sample, and    *)
(* the safety half of what the work queue sample promises.                 *)
(***************************************************************************)
EXTENDS TestClient, UvEcho, UvWorkqueue, UvSignal, TLAPS

-----------------------------------------------------------------------------
(***************************************************************************)
(* The web clients, for any number of -m slots and of addresses, that is   *)
(* however early the library gives an address out again.                   *)
(*                                                                         *)
(* SlotsExact alone does not survive a close: LWS_CALLBACK_CLOSED clears   *)
(* wsi_dumb whichever connection closed, and a close of the file           *)
(* connection clears nothing. ClientInv adds through which slots this main *)
(* loop opens connections (Opened), that a slot the file client has not    *)
(* come to yet has no connection (Unopened), and that what wsi_dumb holds  *)
(* is a connection that was opened through it (DumbExact).                 *)
(***************************************************************************)

(* A live connection was opened through a slot of this loop, and is there. *)
Opened == \A a \in Live : via[a] \in SlotsOf(mode) /\ slot[via[a]] = a

Unopened ==
  /\ todo \subseteq SlotsOf(mode)
  /\ mode = "file" => \A a \in Live : via[a] \notin todo

DumbExact ==
  method = "ws" =>
    /\ ~used
    /\ slot["wsi_dumb"] # NULL =>
         slot["wsi_dumb"] \in Live /\ via[slot["wsi_dumb"]] = "wsi_dumb"

ClientInv == TypeOK /\ Opened /\ Unopened /\ DumbExact

-----------------------------------------------------------------------------
(* What the three loops open.                                              *)
LEMMA LoopSlots ==
  ASSUME mode \in Modes
  PROVE  /\ SlotsOf(mode) \subseteq Slots
         /\ mode = "single" => SlotsOf(mode) = {"wsi_dumb"}
         /\ mode = "file" => SlotsOf(mode) = {"wsi_dumb", "wsi_fsc"}
         /\ mode = "multi" => SlotsOf(mode) = Multi
BY DEF SlotsOf, Slots, Modes

(* The client starts without a connection.                                 *)
LEMMA ClientInitInv == Init => ClientInv
<1> SUFFICES ASSUME Init PROVE ClientInv
  OBVIOUS
<1>1. Live = {} /\ RATE \in 0 .. RATE
  BY ClientAssumption DEF Init, Live
<1>2. SlotsOf(mode) \subseteq Slots
  BY LoopSlots DEF Init
<1>3. TypeOK
  BY <1>1, <1>2 DEF Init, TypeOK
<1>4. Opened /\ Unopened
  BY <1>1 DEF Init, Opened, Unopened
<1>5. DumbExact
  BY DEF Init, DumbExact, Slots
<1> QED BY <1>3, <1>4, <1>5 DEF ClientInv

(* Opening a connection through a slot that has none.                      *)
LEMMA ConnectInv ==
  ASSUME ClientInv, NEW k \in todo, ConnectVia(k),
         \A a \in Live : via[a] # k,
         todo' = todo \ {k}, rl' \in [Slots -> 0 .. RATE],
         UNCHANGED <<mode, method, force_exit, pc, used>>
  PROVE  ClientInv'
<1> USE DEF ClientInv
<1>1. PICK a \in Addrs \ Live :
        /\ slot' = [slot EXCEPT ![k] = a]
        /\ conn' = [conn EXCEPT ![a] = "connecting"]
        /\ via' = [via EXCEPT ![a] = k]
        /\ UNCHANGED <<body, asked>>
  BY DEF ConnectVia
<1>2. k \in Slots /\ k \in SlotsOf(mode) /\ SlotsOf(mode') = SlotsOf(mode)
  BY DEF TypeOK, Unopened, SlotsOf
<1>3. Live' = Live \cup {a}
  BY <1>1 DEF Live, TypeOK
<1>4. \A b \in Live : b # a /\ via'[b] = via[b] /\ slot'[via[b]] = slot[via[b]]
  BY <1>1, <1>2 DEF Opened, TypeOK, Live
<1>5. via'[a] = k /\ slot'[k] = a
  BY <1>1, <1>2 DEF TypeOK
<1>6. TypeOK'
  BY <1>1, <1>2 DEF TypeOK
<1>7. Opened'
  BY <1>2, <1>3, <1>4, <1>5 DEF Opened
<1>8. Unopened'
  BY <1>2, <1>3, <1>4, <1>5 DEF Unopened
<1>9. DumbExact'
  BY <1>1, <1>2, <1>3, <1>4, <1>5 DEF DumbExact, TypeOK, Slots
<1> QED BY <1>6, <1>7, <1>8, <1>9

(* A connection goes away, and the pointers are left or cleared in such a  *)
(* way that the other connections keep theirs.                             *)
LEMMA FreeInv ==
  ASSUME ClientInv, NEW a \in Live, Free(a),
         slot' \in [Slots -> Addrs \cup {NULL}],
         \A b \in Live \ {a} : slot'[via[b]] = slot[via[b]],
         method = "ws" => slot'["wsi_dumb"] = NULL
                          \/ (slot'["wsi_dumb"] = slot["wsi_dumb"] /\ slot["wsi_dumb"] # a),
         pc' \in {"connect", "service", "write"}, force_exit' \in BOOLEAN,
         UNCHANGED <<mode, method, rl, todo, used>>
  PROVE  ClientInv'
<1> USE DEF ClientInv
<1>1. Live' = Live \ {a} /\ a \in Addrs
  BY DEF Live, Free, TypeOK
<1>2. \A b \in Live' : via'[b] = via[b]
  BY <1>1 DEF Free, TypeOK, Live
<1>3. SlotsOf(mode') = SlotsOf(mode)
  BY DEF SlotsOf
<1>4. TypeOK'
  BY <1>1 DEF TypeOK, Free
<1>5. Opened'
  BY <1>1, <1>2, <1>3 DEF Opened
<1>6. Unopened'
  BY <1>1, <1>2, <1>3 DEF Unopened
<1>7. DumbExact'
  BY <1>1, <1>2 DEF DumbExact
<1> QED BY <1>4, <1>5, <1>6, <1>7

(* In every loop, no other connection than one of wsi_dumb's or of         *)
(* wsi_multi[] is there while such a one is, that wsi_dumb points to.      *)
LEMMA OthersElsewhere ==
  ASSUME ClientInv, NEW a \in Live, via[a] # "wsi_fsc", NEW b \in Live \ {a}
  PROVE  via[b] # "wsi_dumb"
BY LoopSlots, ClientAssumption DEF ClientInv, Opened, TypeOK, Modes

(* A step that opens and closes nothing and leaves the pointers alone.     *)
LEMMA QuietInv ==
  ASSUME ClientInv, UNCHANGED <<mode, method, slot, via>>, Live' = Live,
         TypeOK', todo' \subseteq todo \/ (mode # "file" /\ todo' = SlotsOf(mode)),
         method = "ws" => ~used'
  PROVE  ClientInv'
<1>1. SlotsOf(mode') = SlotsOf(mode)
  BY DEF SlotsOf
<1> QED BY <1>1 DEF ClientInv, Opened, Unopened, DumbExact

(* The main loops.                                                         *)
LEMMA ClientLoopInv ==
  ASSUME ClientInv, Usage \/ Loop PROVE ClientInv'
<1> USE ClientAssumption
<1> USE DEF ClientInv
<1>1. CASE Usage \/ CreateContext \/ FileCreateContext \/ EnterService \/ ServiceReturns
  <2>1. /\ pc' \in {"start", "connect", "service", "write", "exited"}
        /\ UNCHANGED <<mode, method, slot, rl, force_exit, todo, connVars, used>>
    BY <1>1 DEF Usage, CreateContext, FileCreateContext, ContextMade, EnterService, ServiceReturns
  <2>2. TypeOK' /\ Live' = Live
    BY <2>1 DEF TypeOK, Live, connVars
  <2> QED BY <2>1, <2>2, QuietInv DEF connVars, DumbExact
<1>2. ASSUME NEW k \in Slots, LookAt(k) PROVE ClientInv'
  <2>1. CASE slot[k] = NULL /\ ratelimit_connects(k, RATE)
    <3>1. \A a \in Live : via[a] # k
      BY <2>1 DEF Opened, Live
    <3>2. rl' \in [Slots -> 0 .. RATE]
      BY <1>2, <2>1 DEF LookAt, TypeOK
    <3> QED BY <1>2, <2>1, <3>1, <3>2, ConnectInv DEF LookAt
  <2>2. CASE ~(slot[k] = NULL /\ ratelimit_connects(k, RATE))
    <3>1. /\ todo' = todo \ {k}
          /\ UNCHANGED <<mode, method, slot, rl, force_exit, pc, connVars, used>>
      BY <1>2, <2>2 DEF LookAt
    <3>2. TypeOK' /\ Live' = Live
      BY <3>1 DEF TypeOK, Live, connVars
    <3> QED BY <3>1, <3>2, QuietInv DEF connVars, DumbExact
  <2> QED BY <2>1, <2>2
<1>3. ASSUME NEW k \in Slots, ConnectBoth(k) PROVE ClientInv'
  <2>1. \A a \in Live : via[a] # k
    BY <1>3 DEF ConnectBoth, Unopened
  <2> QED BY <1>3, <2>1, ConnectInv DEF ConnectBoth, TypeOK
<1>4. CASE TurnAround
  <2>1. /\ UNCHANGED <<mode, method, slot, force_exit, conn, via, body>>
        /\ todo' \subseteq todo \/ (mode # "file" /\ todo' = SlotsOf(mode))
        /\ pc' \in {"exited", "connect"}
    BY <1>4 DEF TurnAround
  <2>2. Live' = Live
    BY <2>1 DEF Live
  <2>3. rl' \in [Slots -> 0 .. RATE] /\ asked' \subseteq Addrs
    BY <1>4 DEF TurnAround, AskWriteable, TypeOK, Live
  <2>6. used' \in BOOLEAN /\ (method = "ws" => ~used')
    BY <1>4 DEF TurnAround, AskWriteable, TypeOK, DumbExact
  <2>4. todo' \subseteq Slots
    BY <2>1, LoopSlots DEF TypeOK
  <2>5. TypeOK'
    BY <2>1, <2>3, <2>4, <2>6 DEF TypeOK
  <2> QED BY <2>1, <2>2, <2>5, <2>6, QuietInv
<1> QED BY <1>1, <1>2, <1>3, <1>4 DEF Loop

(* Callbacks that leave the connection where it is.                        *)
LEMMA CallbackInv ==
  ASSUME ClientInv, NEW a \in Addrs,
         \/ AppendHandshakeHeader(a) \/ ClientHttpWriteable(a) \/ ClientEstablished(a)
         \/ ClientReceive(a) \/ ClientWriteable(a)
  PROVE  ClientInv'
<1> USE DEF ClientInv
<1>1. /\ UNCHANGED <<mode, method, slot, rl, force_exit, todo, via, used>>
      /\ pc' = "write"
  BY DEF AppendHandshakeHeader, ClientHttpWriteable, ClientEstablished, ClientReceive,
         ClientWriteable, connVars
<1>2. Live' = Live /\ conn' \in [Addrs -> {"free", "connecting", "open"}]
  BY DEF AppendHandshakeHeader, ClientHttpWriteable, ClientEstablished, ClientReceive,
         ClientWriteable, connVars, Live, TypeOK
<1>3. body' \in [Addrs -> {"none", "pending", "sent"}] /\ asked' \subseteq Addrs
  BY DEF AppendHandshakeHeader, ClientHttpWriteable, ClientEstablished, ClientReceive,
         ClientWriteable, connVars, TypeOK
<1>4. TypeOK'
  BY <1>1, <1>2, <1>3 DEF TypeOK
<1> QED BY <1>1, <1>2, <1>4, QuietInv DEF DumbExact

(* Callbacks after which the connection is gone, or may be.                *)
LEMMA EndInv ==
  ASSUME ClientInv, NEW a \in Addrs,
         \/ ConnectionError(a) \/ Closed(a) \/ CompletedClientHttp(a)
         \/ callback_test_raw_client(a) \/ ReceiveClientHttp(a) \/ FileReceiveClientHttp(a)
  PROVE  ClientInv'
<1> USE DEF ClientInv
<1>0. a \in Live /\ pc' \in {"connect", "service", "write"} /\ "wsi_dumb" \in Slots
  BY DEF ConnectionError, Closed, CompletedClientHttp, callback_test_raw_client,
         ReceiveClientHttp, FileReceiveClientHttp, HttpRead, Live, Slots
<1>1. \A b \in Live : via[b] \in Slots
  BY LoopSlots DEF Opened, TypeOK
<1>2. CASE ConnectionError(a)
  <2>0. slot' \in [Slots -> Addrs \cup {NULL}]
    BY <1>2 DEF ConnectionError, Forget, TypeOK
  <2>1. slot'["wsi_dumb"] = IF slot["wsi_dumb"] = a THEN NULL ELSE slot["wsi_dumb"]
    BY <1>0, <1>2 DEF ConnectionError, Forget
  <2>2. \A b \in Live \ {a} : slot'[via[b]] = slot[via[b]]
    BY <1>1, <1>2 DEF ConnectionError, Forget, Opened
  <2>3. slot'["wsi_dumb"] = NULL \/ (slot'["wsi_dumb"] = slot["wsi_dumb"] /\ slot["wsi_dumb"] # a)
    BY <2>1
  <2>4. /\ Free(a) /\ force_exit' \in BOOLEAN
        /\ UNCHANGED <<mode, method, rl, todo, used>>
    BY <1>2 DEF ConnectionError, TypeOK
  <2> HIDE DEF ClientInv
  <2> QED BY <1>0, <2>0, <2>2, <2>3, <2>4, FreeInv
<1>3. CASE Closed(a)
  <2>0. slot' \in [Slots -> Addrs \cup {NULL}]
    BY <1>3 DEF Closed, TypeOK
  <2>1. method = "ws" => slot'["wsi_dumb"] = NULL
             \/ (slot'["wsi_dumb"] = slot["wsi_dumb"] /\ slot["wsi_dumb"] # a)
    <3>1. ASSUME method = "ws", via[a] # "wsi_fsc" PROVE slot'["wsi_dumb"] = NULL
      <4>1. slot' = [slot EXCEPT !["wsi_dumb"] = NULL]
        BY <1>3, <3>1 DEF Closed
      <4> QED BY <1>0, <4>1 DEF TypeOK
    <3>2. ASSUME method = "ws", via[a] = "wsi_fsc"
          PROVE  slot' = slot /\ (slot["wsi_dumb"] # a \/ slot["wsi_dumb"] = NULL)
      <4>1. slot' = slot
        BY <1>3, <3>2 DEF Closed
      <4>2. slot["wsi_dumb"] # NULL => via[slot["wsi_dumb"]] = "wsi_dumb"
        BY <3>2 DEF DumbExact
      <4>3. slot["wsi_dumb"] = a => slot["wsi_dumb"] = NULL
        BY <3>2, <4>2
      <4> QED BY <4>1, <4>3
    <3> QED BY <3>1, <3>2
  <2>2. \A b \in Live \ {a} : slot'[via[b]] = slot[via[b]]
    BY <1>0, <1>1, <1>3, OthersElsewhere DEF Closed, TypeOK
  <2> QED BY <1>0, <1>3, <2>0, <2>1, <2>2, FreeInv DEF Closed, TypeOK
<1>4. CASE CompletedClientHttp(a)
  <2>1. slot' \in [Slots -> Addrs \cup {NULL}]
    BY <1>4 DEF CompletedClientHttp, TypeOK
  <2>2. \A b \in Live \ {a} : slot'[via[b]] = slot[via[b]]
    BY <1>0, <1>1, <1>4, OthersElsewhere DEF CompletedClientHttp, TypeOK
  <2> QED BY <1>0, <1>4, <2>1, <2>2, FreeInv DEF CompletedClientHttp
<1>5. CASE callback_test_raw_client(a) \/ ReceiveClientHttp(a) \/ FileReceiveClientHttp(a)
  <2>1. /\ UNCHANGED <<mode, method, slot, rl, force_exit, todo, used>>
        /\ method # "ws"
        /\ Free(a) \/ UNCHANGED connVars
    BY <1>5 DEF callback_test_raw_client, ReceiveClientHttp, FileReceiveClientHttp, HttpRead
  <2>2. CASE Free(a)
    BY <1>0, <2>1, <2>2, FreeInv DEF TypeOK
  <2>3. CASE UNCHANGED connVars
    <3>1. TypeOK' /\ Live' = Live
      BY <1>0, <2>1, <2>3 DEF TypeOK, Live, connVars
    <3> QED BY <2>1, <2>3, <3>1, QuietInv DEF connVars
  <2> QED BY <2>1, <2>2, <2>3
<1> QED BY <1>2, <1>3, <1>4, <1>5

(* SIGINT, and a second.                                                   *)
LEMMA OutsideInv == ASSUME ClientInv, sighandler \/ Tick PROVE ClientInv'
<1> USE DEF ClientInv
<1>1. /\ UNCHANGED <<mode, method, slot, pc, todo, connVars, used>>
      /\ force_exit' \in BOOLEAN
  BY DEF sighandler, Tick, TypeOK
<1>2. rl' \in [Slots -> 0 .. RATE]
  BY ClientAssumption DEF sighandler, Tick, TypeOK
<1>3. TypeOK' /\ Live' = Live
  BY <1>1, <1>2 DEF TypeOK, Live, connVars
<1> QED BY <1>1, <1>3, QuietInv DEF connVars, DumbExact

(* The inductive invariant holds of every behaviour.                       *)
THEOREM ClientInvariant == Spec => []ClientInv
<1>1. ASSUME ClientInv, UNCHANGED vars PROVE ClientInv'
  <2>1. TypeOK' /\ Live' = Live
    BY <1>1 DEF ClientInv, TypeOK, vars, connVars, Live
  <2> QED BY <1>1, <2>1, QuietInv DEF vars, connVars, ClientInv, DumbExact
<1>2. ClientInv /\ [Next]_vars => ClientInv'
  BY <1>1, ClientLoopInv, CallbackInv, EndInv, OutsideInv DEF Next, Loop
<1> QED BY ClientInitInv, <1>2, PTL DEF Spec

(* The pointers of the clients hold addresses or NULL, throughout.         *)
THEOREM ClientTypeCorrect == Spec => []TypeOK
<1>1. ClientInv => TypeOK
  BY DEF ClientInv
<1> QED BY <1>1, ClientInvariant, PTL

(* A live connection of test-client or test-file-client is the one its     *)
(* slot points to, and with a ws address wsi_dumb is never stale, however  *)
(* addresses are reused.                                                   *)
THEOREM SlotsAreExact == Spec => []SlotsExact
<1>1. ClientInv => SlotsExact
  BY DEF ClientInv, Opened, DumbExact, SlotsExact
<1> QED BY <1>1, ClientInvariant, PTL

-----------------------------------------------------------------------------
(***************************************************************************)
(* The echo server and the tty client, for any number of pieces.           *)
(*                                                                         *)
(* EchoedInOrder says nothing of the pieces that are under way, and is not *)
(* kept by a read that prints them. EchoInv follows a piece through its    *)
(* four places: typed and not read yet (up), in an unfinished write        *)
(* (writes), sent back (down), printed. The places hold consecutive        *)
(* numbers, each place going on where the one after it ends, as long as    *)
(* both ends are there; once the server has seen "quit", its stream is not *)
(* writable or the user has killed the client, only what is already on its *)
(* way back has to stay in order.                                          *)
(***************************************************************************)

(* Pieces are numbers.                                                     *)
EchoTypeOK ==
  /\ quits \subseteq Nat /\ typed \in Nat /\ quitAt \in Nat /\ bufs \in Int
  /\ refused \in Nat
  /\ printed \in Seq(Nat) /\ up \in Seq(Nat) /\ down \in Seq(Nat)
  /\ writes \in Seq(Seq(Nat))
  /\ tty \in {"connecting", "failed", "open", "ended", "killed"}
  /\ peer \in {"none", "reading", "unwritable", "shutdown", "closing", "freed", "leaked"}

(* Where the two programs can be at the same time.                         *)
Stages ==
  /\ tty \in {"connecting", "failed"} => peer = "none"
  /\ peer = "none" => writes = <<>> /\ down = <<>> /\ printed = <<>>
  /\ peer = "shutdown" => tty = "killed"
  /\ (peer = "leaked" /\ tty # "killed") => writes = <<>>

(* The number of pieces the client has been given, the server has read.    *)
Given == Len(printed) + Len(down)
ReadUp == typed - Len(up)

(* What is printed and what is on the way back is numbered without a gap.  *)
BackInOrder ==
  /\ \A k \in 1 .. Len(printed) : printed[k] = k
  /\ \A k \in 1 .. Len(down) : down[k] = Len(printed) + k
  /\ Given <= typed

(* And so is what is on the way to a server that still reads.              *)
UpInOrder ==
  (peer \in {"none", "reading", "unwritable"} /\ tty # "failed") =>
    /\ \A k \in 1 .. Len(up) : up[k] = ReadUp + k
    /\ Given <= ReadUp

LastOf(s) == s[1] + Len(s) - 1

(* The unfinished writes fill the gap between the two.                     *)
WritesInOrder ==
  (peer \in {"none", "reading"} /\ tty \in {"connecting", "open"}) =>
    /\ \A i \in 1 .. Len(writes) :
         /\ Len(writes[i]) > 0
         /\ \A j \in 1 .. Len(writes[i]) : writes[i][j] = writes[i][1] + j - 1
         /\ LastOf(writes[i]) <= ReadUp
    /\ \A i \in 1 .. Len(writes) - 1 : writes[i + 1][1] = LastOf(writes[i]) + 1
    /\ IF writes = <<>> THEN Given = ReadUp
       ELSE writes[1][1] = Given + 1 /\ LastOf(writes[Len(writes)]) = ReadUp

QuitIsLast ==
  /\ quitAt # 0 => peer \in {"closing", "freed"} /\ Given < quitAt
  /\ bufs = Len(writes) + refused + (IF quitAt = 0 THEN 0 ELSE 1)

EchoInv == EchoTypeOK /\ Stages /\ BackInOrder /\ UpInOrder /\ WritesInOrder /\ QuitIsLast

(* Parts, concatenations, tails and extensions, element by element.        *)
LEMMA SubSeqNat ==
  ASSUME NEW s \in Seq(Nat), NEW m \in 1 .. Len(s) + 1, NEW n \in m - 1 .. Len(s)
  PROVE  /\ SubSeq(s, m, n) \in Seq(Nat)
         /\ Len(SubSeq(s, m, n)) = n - m + 1
         /\ \A i \in 1 .. n - m + 1 : SubSeq(s, m, n)[i] = s[m + i - 1]
<1>1. Len(s) \in Nat
  OBVIOUS
<1>2. Len(SubSeq(s, m, n)) = n - m + 1
  BY <1>1
<1>3. \A i \in 1 .. n - m + 1 : SubSeq(s, m, n)[i] = s[m + i - 1]
  BY <1>1
<1>4. SubSeq(s, m, n) \in Seq(Nat)
  BY <1>1
<1> QED BY <1>2, <1>3, <1>4

LEMMA ConcatNat ==
  ASSUME NEW s \in Seq(Nat), NEW t \in Seq(Nat)
  PROVE  /\ s \o t \in Seq(Nat) /\ Len(s \o t) = Len(s) + Len(t)
         /\ \A i \in 1 .. Len(s) + Len(t) :
              (s \o t)[i] = IF i <= Len(s) THEN s[i] ELSE t[i - Len(s)]
OBVIOUS

LEMMA TailWrites ==
  ASSUME NEW s \in Seq(Seq(Nat)), s # <<>>
  PROVE  /\ Tail(s) \in Seq(Seq(Nat)) /\ Len(Tail(s)) = Len(s) - 1
         /\ \A i \in 1 .. Len(s) - 1 : Tail(s)[i] = s[i + 1]
         /\ Head(s) = s[1] /\ s[1] \in Seq(Nat) /\ Len(s) > 0
OBVIOUS

LEMMA AppendWrites ==
  ASSUME NEW s \in Seq(Seq(Nat)), NEW e \in Seq(Nat)
  PROVE  /\ Append(s, e) \in Seq(Seq(Nat)) /\ Len(Append(s, e)) = Len(s) + 1
         /\ \A i \in 1 .. Len(s) : Append(s, e)[i] = s[i]
         /\ Append(s, e)[Len(s) + 1] = e
         /\ Append(s, e) # <<>>
<1>1. /\ Append(s, e) \in Seq(Seq(Nat)) /\ Len(Append(s, e)) = Len(s) + 1 /\ Len(s) \in Nat
  OBVIOUS
<1>2. /\ \A i \in 1 .. Len(s) : Append(s, e)[i] = s[i]
      /\ Append(s, e)[Len(s) + 1] = e
  OBVIOUS
<1>3. Append(s, e) # <<>>
  <2>1. Len(<<>>) = 0
    OBVIOUS
  <2>2. Len(Append(s, e)) # 0
    BY <1>1
  <2> QED BY <2>1, <2>2
<1> QED BY <1>1, <1>2, <1>3

(* Lengths are numbers, and so are pieces.                                 *)
LEMMA EchoLens ==
  ASSUME EchoTypeOK
  PROVE  /\ Len(printed) \in Nat /\ Len(down) \in Nat /\ Len(up) \in Nat /\ Len(writes) \in Nat
         /\ Given \in Nat /\ ReadUp \in Int /\ typed \in Nat
         /\ \A i \in 1 .. Len(writes) : writes[i] \in Seq(Nat) /\ Len(writes[i]) \in Nat
         /\ \A i \in 1 .. Len(writes) : Len(writes[i]) > 0 => writes[i][1] \in Nat
<1>1. /\ Len(printed) \in Nat /\ Len(down) \in Nat /\ Len(up) \in Nat /\ Len(writes) \in Nat
      /\ typed \in Nat
  BY DEF EchoTypeOK
<1>2. Given \in Nat /\ ReadUp \in Int
  BY <1>1 DEF Given, ReadUp
<1>3. \A i \in 1 .. Len(writes) : writes[i] \in Seq(Nat)
  BY DEF EchoTypeOK
<1>4. \A i \in 1 .. Len(writes) : Len(writes[i]) \in Nat /\ (Len(writes[i]) > 0 => writes[i][1] \in Nat)
  BY <1>3
<1> QED BY <1>1, <1>2, <1>3, <1>4

(* Nothing is typed yet.                                                   *)
LEMMA EchoInitInv == EchoInit => EchoInv
<1> SUFFICES ASSUME EchoInit PROVE EchoInv
  OBVIOUS
<1>1. EchoTypeOK
  BY PiecesAssumption DEF EchoInit, EchoTypeOK
<1>2. /\ Len(printed) = 0 /\ Len(down) = 0 /\ Len(up) = 0 /\ Len(writes) = 0 /\ typed = 0
      /\ Given = 0 /\ ReadUp = 0
  <2>0. typed = 0
    BY DEF EchoInit
  <2>1. printed = <<>> /\ down = <<>> /\ up = <<>> /\ writes = <<>> /\ typed = 0
    BY DEF EchoInit
  <2>2. Len(<<>>) = 0
    OBVIOUS
  <2>3. /\ Len(printed) = 0 /\ Len(down) = 0 /\ Len(up) = 0 /\ Len(writes) = 0
    BY <2>1, <2>2
  <2>4. Given = 0 /\ ReadUp = 0
    BY <2>3, <2>0 DEF Given, ReadUp
  <2> QED BY <2>1, <2>3, <2>4
<1>3. Stages /\ QuitIsLast
  BY <1>2 DEF EchoInit, Stages, QuitIsLast
<1>4. BackInOrder /\ UpInOrder
  BY <1>2 DEF BackInOrder, UpInOrder
<1>5. WritesInOrder
  BY <1>2 DEF WritesInOrder, EchoInit
<1> QED BY <1>1, <1>3, <1>4, <1>5 DEF EchoInv

(* A typed piece goes to the end of the first place.                       *)
LEMMA RecvInv == ASSUME EchoInv, recv_cb PROVE EchoInv'
<1> USE DEF EchoInv
<1>1. /\ typed' = typed + 1 /\ tty \in {"connecting", "failed", "open"} /\ typed \in Nat
      /\ up' = IF tty = "failed" \/ peer \in {"freed", "leaked"} THEN up ELSE Append(up, typed + 1)
      /\ UNCHANGED <<listening, quits, printed, tty, down, peer, writes, bufs, quitAt, refused>>
  BY DEF recv_cb, peerVars, EchoTypeOK
<1>2. Given' = Given /\ Given \in Nat
  BY <1>1 DEF Given, EchoTypeOK
<1>3. EchoTypeOK' /\ Stages' /\ QuitIsLast'
  BY <1>1, <1>2 DEF EchoTypeOK, Stages, QuitIsLast
<1>4. BackInOrder'
  BY <1>1, <1>2 DEF BackInOrder
<1>5. peer \in {"none", "reading", "unwritable"} /\ tty # "failed" =>
         /\ ReadUp' = ReadUp /\ Len(up') = Len(up) + 1
         /\ \A k \in 1 .. Len(up) : up'[k] = up[k]
         /\ up'[Len(up) + 1] = typed + 1
  BY <1>1 DEF ReadUp, EchoTypeOK
<1>6. Len(up) \in Nat /\ ReadUp = typed - Len(up) /\ ReadUp \in Int
  BY <1>1 DEF ReadUp, EchoTypeOK
<1>7. UpInOrder'
  <2> SUFFICES ASSUME peer \in {"none", "reading", "unwritable"}, tty # "failed"
               PROVE  (\A k \in 1 .. Len(up') : up'[k] = ReadUp' + k) /\ Given' <= ReadUp'
    BY <1>1 DEF UpInOrder
  <2>1. /\ \A k \in 1 .. Len(up) : up[k] = ReadUp + k
        /\ Given <= ReadUp
    BY DEF UpInOrder
  <2>2. ASSUME NEW k \in 1 .. Len(up') PROVE up'[k] = ReadUp' + k
    <3>1. CASE k = Len(up) + 1
      BY <1>1, <1>5, <1>6, <3>1
    <3>2. CASE k \in 1 .. Len(up)
      BY <1>5, <2>1, <3>2
    <3> QED BY <1>5, <1>6, <3>1, <3>2
  <2> QED BY <1>2, <1>5, <2>1, <2>2
<1>8. WritesInOrder'
  BY <1>1, <1>2, <1>5 DEF WritesInOrder
<1> QED BY <1>3, <1>4, <1>7, <1>8

(* From the third place to the fourth.                                     *)
LEMMA TtyReadInv == ASSUME EchoInv, NEW k \in 1 .. MaxPieces, tcp_read_cb(k) PROVE EchoInv'
<1> USE DEF EchoInv
<1>1. /\ k \in 1 .. Len(down) /\ tty = "open"
      /\ printed' = printed \o SubSeq(down, 1, k)
      /\ down' = SubSeq(down, k + 1, Len(down))
      /\ UNCHANGED <<listening, quits, typed, tty, up, peer, writes, bufs, quitAt, refused>>
  BY DEF tcp_read_cb, peerVars
<1>2. /\ Len(printed') = Len(printed) + k
      /\ \A i \in 1 .. Len(printed) + k :
           printed'[i] = IF i <= Len(printed) THEN printed[i] ELSE down[i - Len(printed)]
      /\ printed' \in Seq(Nat)
  <2>1. /\ SubSeq(down, 1, k) \in Seq(Nat) /\ Len(SubSeq(down, 1, k)) = k
        /\ \A i \in 1 .. k : SubSeq(down, 1, k)[i] = down[i]
    BY <1>1, SubSeqNat DEF EchoTypeOK
  <2> DEFINE part == SubSeq(down, 1, k)
  <2>2. printed' = printed \o part /\ printed \in Seq(Nat) /\ k \in Nat
    BY <1>1 DEF EchoTypeOK
  <2> HIDE DEF part
  <2>3. /\ part \in Seq(Nat) /\ Len(part) = k
        /\ \A i \in 1 .. k : part[i] = down[i]
    BY <2>1 DEF part
  <2>4. /\ printed \o part \in Seq(Nat) /\ Len(printed \o part) = Len(printed) + k
        /\ \A i \in 1 .. Len(printed) + k :
             (printed \o part)[i] = IF i <= Len(printed) THEN printed[i] ELSE part[i - Len(printed)]
    BY <2>2, <2>3, ConcatNat
  <2> QED BY <2>2, <2>3, <2>4, EchoLens
<1>3. /\ down' \in Seq(Nat) /\ Len(down') = Len(down) - k
      /\ \A i \in 1 .. Len(down) - k : down'[i] = down[k + i]
  BY <1>1, SubSeqNat DEF EchoTypeOK
<1>4. Given' = Given /\ Given \in Nat /\ ReadUp' = ReadUp
  <2>1. Given = Len(printed) + Len(down) /\ Given' = Len(printed') + Len(down')
    BY DEF Given
  <2>2. k \in Nat /\ Len(printed) \in Nat /\ Len(down) \in Nat
    BY EchoLens
  <2> QED BY <1>1, <1>2, <1>3, <2>1, <2>2 DEF ReadUp
<1>5. EchoTypeOK' /\ QuitIsLast'
  BY <1>1, <1>2, <1>3, <1>4 DEF EchoTypeOK, QuitIsLast
<1>6. Stages'
  BY <1>1, <1>2, <1>3 DEF Stages, EchoTypeOK
<1>7. BackInOrder'
  <2> USE DEF BackInOrder
  <2>1. \A i \in 1 .. Len(printed') : printed'[i] = i
    BY <1>1, <1>2 DEF EchoTypeOK
  <2>2. \A i \in 1 .. Len(down') : down'[i] = Len(printed') + i
    BY <1>1, <1>2, <1>3 DEF EchoTypeOK
  <2> QED BY <1>1, <1>4, <2>1, <2>2
<1>8. UpInOrder' /\ WritesInOrder'
  BY <1>1, <1>4 DEF UpInOrder, WritesInOrder
<1> QED BY <1>5, <1>6, <1>7, <1>8

(* From the first place to the second; or "quit" or a refused write, and   *)
(* the places part.                                                        *)
LEMMA ReadInv == ASSUME EchoInv, NEW k \in 1 .. MaxPieces, echo_read(k) PROVE EchoInv'
<1> USE DEF EchoInv
<1> DEFINE data == SubSeq(up, 1, k)
<1>1. /\ k \in 1 .. Len(up) /\ peer \in {"reading", "unwritable"} /\ quitAt = 0
      /\ up' = SubSeq(up, k + 1, Len(up))
      /\ bufs' = bufs + 1
      /\ UNCHANGED <<listening, quits, typed, printed, tty, down>>
      /\ tty \in {"open", "killed", "ended"}
  BY DEF echo_read, ttyVars, QuitIsLast, Stages, EchoTypeOK
<1>2. /\ data \in Seq(Nat) /\ Len(data) = k
      /\ \A i \in 1 .. k : data[i] = up[i]
  BY <1>1, SubSeqNat DEF EchoTypeOK
<1>3. /\ up' \in Seq(Nat) /\ Len(up') = Len(up) - k
      /\ \A i \in 1 .. Len(up) - k : up'[i] = up[k + i]
  <2>1. up \in Seq(Nat) /\ k + 1 \in 1 .. Len(up) + 1 /\ Len(up) \in k .. Len(up) /\ k \in Nat
    BY <1>1, EchoLens DEF EchoTypeOK
  <2>2. Len(up) - (k + 1) + 1 = Len(up) - k /\ \A i \in Nat : (k + 1) + i - 1 = k + i
    BY <2>1, EchoLens
  <2> DEFINE rest == SubSeq(up, k + 1, Len(up))
  <2>3. /\ rest \in Seq(Nat) /\ Len(rest) = Len(up) - (k + 1) + 1
        /\ \A i \in 1 .. Len(up) - (k + 1) + 1 : rest[i] = up[(k + 1) + i - 1]
    BY <2>1, SubSeqNat
  <2>4. up' = rest
    BY <1>1
  <2> HIDE DEF rest
  <2>5. /\ rest \in Seq(Nat) /\ Len(rest) = Len(up) - k
        /\ \A i \in 1 .. Len(up) - k : rest[i] = up[(k + 1) + i - 1]
    BY <2>2, <2>3
  <2>6. \A i \in 1 .. Len(up) - k : (k + 1) + i - 1 = k + i
    BY <2>1, EchoLens
  <2> QED BY <2>4, <2>5, <2>6
<1>4. Given' = Given /\ Given \in Nat /\ ReadUp' = ReadUp + k /\ ReadUp \in Int
      /\ Len(up) \in Nat /\ Len(writes) \in Nat /\ k \in Nat
  <2>1. Given' = Given /\ typed' = typed
    BY <1>1 DEF Given
  <2> QED BY <1>1, <1>3, <2>1, EchoLens DEF ReadUp
<1>5. /\ \A i \in 1 .. Len(up) : up[i] = ReadUp + i
      /\ Given <= ReadUp
  BY <1>1 DEF UpInOrder
<1>6. Head(data) = ReadUp + 1
  <2>1. Head(data) = data[1]
    BY <1>2
  <2> HIDE DEF data
  <2> QED BY <1>1, <1>2, <1>5, <2>1
<1>7. BackInOrder'
  BY <1>1, <1>4 DEF BackInOrder
<1>8. CASE QuitClose(data)
  <2>1. peer' = "closing" /\ quitAt' = ReadUp + 1 /\ writes' = writes /\ refused' = refused
    BY <1>6, <1>8 DEF QuitClose
  <2>2. EchoTypeOK'
    BY <1>1, <1>3, <1>4, <1>5, <2>1 DEF EchoTypeOK
  <2>3. Stages' /\ UpInOrder' /\ WritesInOrder'
    BY <1>1, <2>1 DEF Stages, UpInOrder, WritesInOrder
  <2>4. QuitIsLast'
    BY <1>1, <1>4, <1>5, <2>1 DEF QuitIsLast, EchoTypeOK
  <2> QED BY <1>7, <2>2, <2>3, <2>4
<1>9. CASE EchoBack(data)
  <2>1. /\ peer = "reading" /\ peer' = peer /\ quitAt' = quitAt /\ refused' = refused
        /\ writes' = Append(writes, data)
    BY <1>9 DEF EchoBack
  <2> HIDE DEF data
  <2>2. /\ writes' \in Seq(Seq(Nat)) /\ Len(writes') = Len(writes) + 1
        /\ \A i \in 1 .. Len(writes) : writes'[i] = writes[i]
        /\ writes'[Len(writes) + 1] = data /\ writes' # <<>>
    BY <1>2, <2>1, AppendWrites DEF EchoTypeOK
  <2>3. EchoTypeOK' /\ Stages'
    BY <1>1, <1>3, <2>1, <2>2 DEF EchoTypeOK, Stages
  <2>4. QuitIsLast'
    BY <1>1, <1>4, <2>1, <2>2 DEF QuitIsLast, EchoTypeOK
  <2>5. UpInOrder'
    BY <1>1, <1>3, <1>4, <1>5 DEF UpInOrder
  <2>6. WritesInOrder'
    <3> SUFFICES ASSUME tty = "open" PROVE WritesInOrder'
      BY <1>1 DEF WritesInOrder
    <3>1. /\ Len(data) > 0 /\ \A j \in 1 .. Len(data) : data[j] = data[1] + j - 1
          /\ LastOf(data) = ReadUp + k /\ data[1] = ReadUp + 1
      <4>1. \A j \in 1 .. k : data[j] = ReadUp + j
        <5>1. \A j \in 1 .. k : j \in 1 .. Len(up)
          BY <1>1, <1>4
        <5> QED BY <1>2, <1>5, <5>1
      <4>2. data[1] = ReadUp + 1 /\ Len(data) > 0
        BY <1>1, <1>2, <4>1
      <4>3. LastOf(data) = ReadUp + k
        BY <1>2, <1>4, <4>2 DEF LastOf
      <4>4. \A j \in 1 .. k : data[j] = data[1] + j - 1
        BY <1>4, <4>1, <4>2
      <4> QED BY <1>2, <4>2, <4>3, <4>4
    <3>2. /\ \A i \in 1 .. Len(writes) :
               /\ Len(writes[i]) > 0
               /\ \A j \in 1 .. Len(writes[i]) : writes[i][j] = writes[i][1] + j - 1
               /\ LastOf(writes[i]) <= ReadUp
          /\ \A i \in 1 .. Len(writes) - 1 : writes[i + 1][1] = LastOf(writes[i]) + 1
      BY <1>1, <2>1 DEF WritesInOrder
    <3>3. \A i \in 1 .. Len(writes') :
            /\ Len(writes'[i]) > 0
            /\ \A j \in 1 .. Len(writes'[i]) : writes'[i][j] = writes'[i][1] + j - 1
            /\ LastOf(writes'[i]) <= ReadUp'
      <4> SUFFICES ASSUME NEW i \in 1 .. Len(writes')
                   PROVE  /\ Len(writes'[i]) > 0
                          /\ \A j \in 1 .. Len(writes'[i]) : writes'[i][j] = writes'[i][1] + j - 1
                          /\ LastOf(writes'[i]) <= ReadUp'
        OBVIOUS
      <4>1. CASE i = Len(writes) + 1
        BY <1>4, <2>2, <3>1, <4>1
      <4>2. CASE i \in 1 .. Len(writes)
        <5>1. LastOf(writes[i]) \in Int
          BY <3>2, <4>2, EchoLens DEF LastOf
        <5>2. LastOf(writes[i]) <= ReadUp'
          BY <1>4, <3>2, <4>2, <5>1
        <5> QED BY <2>2, <3>2, <4>2, <5>2
      <4> QED BY <1>4, <2>2, <4>1, <4>2
    <3>4. \A i \in 1 .. Len(writes') - 1 : writes'[i + 1][1] = LastOf(writes'[i]) + 1
      <4> SUFFICES ASSUME NEW i \in 1 .. Len(writes') - 1
                   PROVE  writes'[i + 1][1] = LastOf(writes'[i]) + 1
        OBVIOUS
      <4>1. CASE i = Len(writes)
        <5>1. writes # <<>> /\ i \in 1 .. Len(writes)
          BY <1>4, <2>2, <4>1
        <5>2. LastOf(writes[i]) = ReadUp
          BY <1>1, <2>1, <4>1, <5>1 DEF WritesInOrder
        <5> QED BY <2>2, <3>1, <4>1, <5>1, <5>2
      <4>2. CASE i \in 1 .. Len(writes) - 1
        <5>1. i \in 1 .. Len(writes) /\ i + 1 \in 1 .. Len(writes)
          BY <1>4, <4>2
        <5> QED BY <2>2, <3>2, <4>2, <5>1
      <4> QED BY <1>4, <2>2, <4>1, <4>2
    <3>5. writes'[1][1] = Given' + 1 /\ LastOf(writes'[Len(writes')]) = ReadUp'
      <4>1. LastOf(writes'[Len(writes')]) = ReadUp'
        BY <1>4, <2>2, <3>1
      <4>2. CASE writes = <<>>
        BY <1>1, <1>4, <2>1, <2>2, <3>1, <4>2 DEF WritesInOrder
      <4>3. CASE writes # <<>>
        <5>1. 1 \in 1 .. Len(writes)
          BY <4>3 DEF EchoTypeOK
        <5> QED BY <1>1, <1>4, <2>1, <2>2, <4>1, <4>3, <5>1 DEF WritesInOrder
      <4> QED BY <4>2, <4>3
    <3> QED BY <1>1, <2>2, <3>3, <3>4, <3>5 DEF WritesInOrder
  <2> QED BY <1>7, <2>3, <2>4, <2>5, <2>6
<1>10. CASE EchoRefused(data)
  <2>1. peer' = "unwritable" /\ refused' = refused + 1 /\ writes' = writes /\ quitAt' = quitAt
    BY <1>10 DEF EchoRefused
  <2> HIDE DEF data
  <2>2. EchoTypeOK'
    BY <1>1, <1>3, <1>4, <2>1 DEF EchoTypeOK
  <2>3. Stages'
    BY <1>1, <2>1 DEF Stages
  <2>4. QuitIsLast'
    BY <1>1, <1>4, <2>1 DEF QuitIsLast, EchoTypeOK
  <2>5. UpInOrder' /\ WritesInOrder'
    BY <1>1, <1>3, <1>4, <1>5, <2>1 DEF UpInOrder, WritesInOrder
  <2> QED BY <1>7, <2>2, <2>3, <2>4, <2>5
<1> QED BY <1>8, <1>9, <1>10 DEF echo_read

(* From the second place to the third; after a kill or a refusal, nowhere. *)
LEMMA AfterWriteInv == ASSUME EchoInv, after_write PROVE EchoInv'
<1> USE DEF EchoInv
<1>1. /\ writes # <<>> /\ writes' = Tail(writes) /\ bufs' = bufs - 1
      /\ down' = IF tty = "open" /\ peer = "reading" THEN down \o Head(writes) ELSE down
      /\ UNCHANGED <<listening, quits, typed, printed, tty, up, peer, quitAt, refused>>
      /\ peer \in {"reading", "unwritable", "shutdown", "leaked"} /\ quitAt = 0
  BY DEF after_write, ttyVars, QuitIsLast
<1>2. /\ writes' \in Seq(Seq(Nat)) /\ Len(writes') = Len(writes) - 1
      /\ \A i \in 1 .. Len(writes) - 1 : writes'[i] = writes[i + 1]
      /\ Head(writes) = writes[1] /\ writes[1] \in Seq(Nat) /\ Len(writes) > 0
      /\ Len(writes) \in Nat
  BY <1>1, TailWrites DEF EchoTypeOK
<1>3. ReadUp' = ReadUp /\ ReadUp \in Int /\ Given \in Nat
  BY <1>1 DEF ReadUp, Given, EchoTypeOK
<1>4. QuitIsLast'
  BY <1>1, <1>2 DEF QuitIsLast, EchoTypeOK
<1>5. CASE tty # "open" \/ peer # "reading"
  <2>1. down' = down /\ Given' = Given
    BY <1>1, <1>5 DEF Given
  <2>2. EchoTypeOK' /\ Stages'
    BY <1>1, <1>2, <1>5, <2>1 DEF EchoTypeOK, Stages
  <2>3. BackInOrder' /\ UpInOrder' /\ WritesInOrder'
    BY <1>1, <1>3, <1>5, <2>1 DEF BackInOrder, UpInOrder, WritesInOrder, Stages
  <2> QED BY <1>4, <2>2, <2>3
<1>6. CASE tty = "open" /\ peer = "reading"
  <2>1. peer = "reading"
    BY <1>6
  <2>2. /\ down' \in Seq(Nat) /\ Len(down') = Len(down) + Len(writes[1])
        /\ \A i \in 1 .. Len(down) + Len(writes[1]) :
             down'[i] = IF i <= Len(down) THEN down[i] ELSE writes[1][i - Len(down)]
    BY <1>1, <1>2, <1>6, ConcatNat DEF EchoTypeOK
  <2>3. Given' = Given + Len(writes[1]) /\ Len(writes[1]) \in Nat /\ Len(down) \in Nat
        /\ Len(printed) \in Nat /\ Given = Len(printed) + Len(down)
    <3>1. Len(writes[1]) \in Nat /\ Len(down) \in Nat /\ Len(printed) \in Nat
      BY <1>2, EchoLens
    <3>2. Given = Len(printed) + Len(down) /\ Given' = Len(printed) + Len(down')
      BY <1>1 DEF Given
    <3>3. Given' = Len(printed) + (Len(down) + Len(writes[1]))
      BY <2>2, <3>2
    <3>4. \A a, b, c \in Nat : a + (b + c) = (a + b) + c
      OBVIOUS
    <3> QED BY <3>1, <3>2, <3>3, <3>4
  <2>4. 1 \in 1 .. Len(writes)
    BY <1>2
  <2>5. /\ writes[1][1] = Given + 1 /\ LastOf(writes[1]) <= ReadUp
        /\ \A j \in 1 .. Len(writes[1]) : writes[1][j] = writes[1][1] + j - 1
    BY <1>1, <1>6, <2>1, <2>4 DEF WritesInOrder
  <2>6. LastOf(writes[1]) = Given' /\ Given' \in Nat
    <3>1. LastOf(writes[1]) = Given + 1 + Len(writes[1]) - 1
      BY <2>5 DEF LastOf
    <3>2. \A a, b \in Nat : a + 1 + b - 1 = a + b /\ a + b \in Nat
      OBVIOUS
    <3> QED BY <1>3, <2>3, <3>1, <3>2
  <2>7. EchoTypeOK' /\ Stages'
    BY <1>1, <1>2, <1>6, <2>1, <2>2 DEF EchoTypeOK, Stages
  <2>8. Given' <= ReadUp /\ Given' <= typed
    BY <2>5, <2>6, EchoLens DEF ReadUp
  <2>9. BackInOrder'
    <3>1. \A i \in 1 .. Len(down') : down'[i] = Len(printed) + i
      <4> SUFFICES ASSUME NEW i \in 1 .. Len(down') PROVE down'[i] = Len(printed) + i
        OBVIOUS
      <4>1. CASE i <= Len(down)
        BY <2>2, <2>3, <4>1 DEF BackInOrder
      <4>2. CASE i > Len(down)
        <5>1. i - Len(down) \in 1 .. Len(writes[1]) /\ down'[i] = writes[1][i - Len(down)]
          BY <2>2, <2>3, <4>2
        <5>2. writes[1][i - Len(down)] = Given + 1 + (i - Len(down)) - 1
          BY <2>5, <5>1
        <5> QED BY <2>3, <5>1, <5>2
      <4> QED BY <2>3, <4>1, <4>2
    <3> QED BY <1>1, <2>8, <3>1 DEF BackInOrder
  <2>10. UpInOrder'
    BY <1>1, <1>3, <2>8 DEF UpInOrder
  <2>11. WritesInOrder'
    <3>1. \A i \in 1 .. Len(writes') :
            /\ Len(writes'[i]) > 0
            /\ \A j \in 1 .. Len(writes'[i]) : writes'[i][j] = writes'[i][1] + j - 1
            /\ LastOf(writes'[i]) <= ReadUp'
      <4> SUFFICES ASSUME NEW i \in 1 .. Len(writes')
                   PROVE  /\ Len(writes'[i]) > 0
                          /\ \A j \in 1 .. Len(writes'[i]) : writes'[i][j] = writes'[i][1] + j - 1
                          /\ LastOf(writes'[i]) <= ReadUp'
        OBVIOUS
      <4>1. i + 1 \in 1 .. Len(writes) /\ writes'[i] = writes[i + 1]
        BY <1>2
      <4> QED BY <1>3, <1>6, <2>1, <4>1 DEF WritesInOrder
    <3>2. \A i \in 1 .. Len(writes') - 1 : writes'[i + 1][1] = LastOf(writes'[i]) + 1
      <4> SUFFICES ASSUME NEW i \in 1 .. Len(writes') - 1
                   PROVE  writes'[i + 1][1] = LastOf(writes'[i]) + 1
        OBVIOUS
      <4>1. /\ i + 1 \in 1 .. Len(writes) - 1 /\ writes'[i] = writes[i + 1]
            /\ writes'[i + 1] = writes[i + 1 + 1]
        <5>1. i \in 1 .. Len(writes) - 1 /\ i + 1 \in 1 .. Len(writes) - 1
          BY <1>2
        <5> QED BY <1>2, <5>1
      <4>2. \A n \in 1 .. Len(writes) - 1 : writes[n + 1][1] = LastOf(writes[n]) + 1
        BY <1>6, <2>1 DEF WritesInOrder
      <4> QED BY <4>1, <4>2
    <3>3. IF writes' = <<>> THEN Given' = ReadUp'
          ELSE writes'[1][1] = Given' + 1 /\ LastOf(writes'[Len(writes')]) = ReadUp'
      <4>1. LastOf(writes[Len(writes)]) = ReadUp
        BY <1>1, <1>6, <2>1 DEF WritesInOrder
      <4>2. CASE writes' = <<>>
        <5>1. Len(writes) = 1
          BY <1>2, <4>2
        <5> QED BY <1>3, <2>6, <4>1, <4>2, <5>1
      <4>3. CASE writes' # <<>>
        <5>1. Len(writes) - 1 > 0
          BY <1>2, <4>3
        <5>2. \A n \in 1 .. Len(writes) - 1 : writes[n + 1][1] = LastOf(writes[n]) + 1
          BY <1>6, <2>1 DEF WritesInOrder
        <5>3. 1 \in 1 .. Len(writes) - 1 /\ 1 + 1 = 2
          BY <1>2, <5>1
        <5>4. writes[2][1] = LastOf(writes[1]) + 1 /\ writes'[1] = writes[2]
          BY <1>2, <5>2, <5>3
        <5>5. writes'[Len(writes')] = writes[Len(writes)]
          BY <1>2, <5>1
        <5> QED BY <1>3, <2>6, <4>1, <4>3, <5>4, <5>5
      <4> QED BY <4>2, <4>3
    <3> QED BY <3>1, <3>2, <3>3 DEF WritesInOrder
  <2> QED BY <1>4, <2>7, <2>9, <2>10, <2>11
<1> QED BY <1>5, <1>6

(* The steps that move no piece: connecting, ending, closing.              *)
LEMMA EdgesInv ==
  ASSUME EchoInv,
         \/ connect_cb \/ connect_cb_failed \/ tcp_read_cb_end \/ Kill
         \/ on_new_connection \/ on_new_connection_refused
         \/ echo_read_eof \/ echo_read_error \/ after_shutdown \/ on_close
  PROVE  EchoInv'
<1> USE DEF EchoInv
<1>1. typed' = typed /\ quits' = quits /\ printed' = printed /\ quitAt' = quitAt /\ refused' = refused
      /\ (down' = down \/ down' = <<>>) /\ (up' = up \/ up' = <<>>)
      /\ Len(down) \in Nat /\ Len(printed) \in Nat /\ typed \in Nat /\ Given \in Nat
  BY DEF connect_cb, connect_cb_failed, tcp_read_cb_end, Kill, on_new_connection,
    on_new_connection_refused, echo_read_eof, echo_read_error, after_shutdown, on_close,
    ttyVars, peerVars, EchoTypeOK, Given
<1>2. Given' <= Given /\ Given' \in Nat /\ (down' = down => Given' = Given)
      /\ (up' = up => ReadUp' = ReadUp)
  BY <1>1 DEF Given, ReadUp
<1>3. EchoTypeOK'
  <2>1. writes' \in Seq(Seq(Nat)) /\ bufs' \in Int
    <3>1. (writes' = writes /\ bufs' = bufs) \/ (writes' = <<>> /\ bufs' = bufs - Len(writes))
      BY DEF connect_cb, connect_cb_failed, tcp_read_cb_end, Kill, on_new_connection,
        on_new_connection_refused, echo_read_eof, echo_read_error, after_shutdown, on_close,
        ttyVars, peerVars
    <3>2. writes \in Seq(Seq(Nat)) /\ bufs \in Int /\ Len(writes) \in Nat
      BY EchoLens DEF EchoTypeOK
    <3>3. <<>> \in Seq(Seq(Nat)) /\ bufs - Len(writes) \in Int
      BY <3>2
    <3> QED BY <3>1, <3>2, <3>3
  <2>2. tty' \in {"connecting", "failed", "open", "ended", "killed"}
        /\ peer' \in {"none", "reading", "unwritable", "shutdown", "closing", "freed", "leaked"}
    BY DEF connect_cb, connect_cb_failed, tcp_read_cb_end, Kill, on_new_connection,
      on_new_connection_refused, echo_read_eof, echo_read_error, after_shutdown, on_close,
      ttyVars, peerVars, EchoTypeOK
  <2>3. printed' \in Seq(Nat) /\ up' \in Seq(Nat) /\ down' \in Seq(Nat)
    <3>1. <<>> \in Seq(Nat)
      OBVIOUS
    <3> QED BY <1>1, <3>1 DEF EchoTypeOK
  <2> QED BY <1>1, <2>1, <2>2, <2>3 DEF EchoTypeOK
<1>4. Stages'
  BY DEF connect_cb, connect_cb_failed, tcp_read_cb_end, Kill, on_new_connection,
    on_new_connection_refused, echo_read_eof, echo_read_error, after_shutdown, on_close,
    ttyVars, peerVars, Stages, EchoTypeOK
<1>5. BackInOrder'
  BY <1>1, <1>2 DEF BackInOrder
<1>6. UpInOrder'
  <2> SUFFICES ASSUME peer' \in {"none", "reading", "unwritable"}, tty' # "failed"
               PROVE  UpInOrder'
    BY DEF UpInOrder
  <2>1. peer \in {"none", "reading", "unwritable"} /\ tty # "failed" /\ up' = up
    BY DEF connect_cb, connect_cb_failed, tcp_read_cb_end, Kill, on_new_connection,
      on_new_connection_refused, echo_read_eof, echo_read_error, after_shutdown, on_close,
      ttyVars, peerVars, Stages
  <2> QED BY <1>1, <1>2, <2>1 DEF UpInOrder, ReadUp, EchoTypeOK
<1>7. WritesInOrder'
  <2> SUFFICES ASSUME peer' \in {"none", "reading"}, tty' \in {"connecting", "open"}
               PROVE  WritesInOrder'
    BY DEF WritesInOrder
  <2>1. /\ peer \in {"none", "reading"} /\ tty \in {"connecting", "open"}
        /\ up' = up /\ down' = down /\ writes' = writes
    BY DEF connect_cb, connect_cb_failed, tcp_read_cb_end, Kill, on_new_connection,
      on_new_connection_refused, echo_read_eof, echo_read_error, after_shutdown, on_close,
      ttyVars, peerVars, Stages
  <2> QED BY <1>2, <2>1 DEF WritesInOrder
<1>8. QuitIsLast'
  <2>1. quitAt # 0 => peer' \in {"closing", "freed"}
    BY DEF connect_cb, connect_cb_failed, tcp_read_cb_end, Kill, on_new_connection,
      on_new_connection_refused, echo_read_eof, echo_read_error, after_shutdown, on_close,
      ttyVars, peerVars, QuitIsLast
  <2>2. bufs' = Len(writes') + refused + (IF quitAt = 0 THEN 0 ELSE 1)
    <3>1. (writes' = writes /\ bufs' = bufs) \/ (writes' = <<>> /\ bufs' = bufs - Len(writes))
      BY DEF connect_cb, connect_cb_failed, tcp_read_cb_end, Kill, on_new_connection,
        on_new_connection_refused, echo_read_eof, echo_read_error, after_shutdown, on_close,
        ttyVars, peerVars
    <3>2. /\ bufs = Len(writes) + refused + (IF quitAt = 0 THEN 0 ELSE 1)
          /\ bufs \in Int /\ Len(writes) \in Nat /\ refused \in Nat
      BY EchoLens DEF QuitIsLast, EchoTypeOK
    <3>3. Len(<<>>) = 0
      OBVIOUS
    <3> HIDE DEF EchoInv
    <3> QED BY <3>1, <3>2, <3>3
  <2> QED BY <1>1, <1>2, <2>1, <2>2 DEF QuitIsLast, EchoTypeOK
<1> QED BY <1>3, <1>4, <1>5, <1>6, <1>7, <1>8

(* Whatever the reads are, whenever the client is killed or refused: the   *)
(* tty client prints what was typed in order, nothing twice or left out,   *)
(* nothing from the quit on, and the echo server's buffers are counted.    *)
THEOREM EchoKeepsOrder == EchoSpec => []EchoedInOrder
<1>1. ASSUME EchoInv, UNCHANGED echoVars PROVE EchoInv'
  BY <1>1 DEF echoVars, EchoInv, EchoTypeOK, Stages, BackInOrder, UpInOrder, WritesInOrder,
    QuitIsLast, Given, ReadUp
<1>2. EchoInv /\ [EchoNext]_echoVars => EchoInv'
  BY <1>1, RecvInv, TtyReadInv, ReadInv, AfterWriteInv, EdgesInv
     DEF EchoNext, EchoClient, EchoServer
<1>3. EchoInv => EchoedInOrder
  BY DEF EchoInv, BackInOrder, QuitIsLast, EchoedInOrder, Given, EchoTypeOK
<1> QED BY EchoInitInv, <1>2, <1>3, PTL DEF EchoSpec

-----------------------------------------------------------------------------
(***************************************************************************)
(* The work queue sample. LastProgressShown is a liveness property and     *)
(* stays with TLC; this is the safety it rests on, for any number of work  *)
(* items: the last value stored is never forgotten.                        *)
(***************************************************************************)

(* A value stored is shown, or somebody still has to do something: a       *)
(* thread to send, the loop to take the mark or to read the value.         *)
ProgressDue ==
  (\E n \in Works : work[n] # "queued") =>
    shown = asyncData \/ asyncSent \/ inProgress \/ \E n \in Works : work[n] = "stored"

(* async.data of the work queue sample is never a value that the threads   *)
(* are done with, that is not printed and that no callback is due for,     *)
(* however stores, sends and callbacks interleave.                         *)
THEOREM ProgressIsDue == QueueSpec => []ProgressDue
<1> DEFINE Inv == ProgressDue /\ work \in [Works -> {"queued", "stored", "sent", "done", "reported"}]
<1>1. QueueInit => Inv
  BY DEF QueueInit, ProgressDue
<1>2. Inv /\ [QueueNext]_queueVars => Inv'
  <2> SUFFICES ASSUME Inv, [QueueNext]_queueVars PROVE Inv'
    OBVIOUS
  <2>1. ASSUME NEW n \in Works, fib_store(n) PROVE Inv'
    BY <2>1 DEF fib_store, ProgressDue
  <2>2. ASSUME NEW n \in Works, fib_send(n) PROVE Inv'
    BY <2>2 DEF fib_send, ProgressDue
  <2>3. ASSUME NEW n \in Works, fib_finish(n) \/ after_fib(n) PROVE Inv'
    BY <2>3 DEF fib_finish, after_fib, ProgressDue
  <2>4. ASSUME TakeAsync \/ print_progress \/ UNCHANGED queueVars PROVE Inv'
    BY <2>4 DEF TakeAsync, print_progress, queueVars, ProgressDue
  <2> QED BY <2>1, <2>2, <2>3, <2>4 DEF QueueNext
<1> QED BY <1>1, <1>2, PTL DEF QueueSpec

-----------------------------------------------------------------------------
(***************************************************************************)
(* The signal sample, for any number of signals per timer.                 *)
(*                                                                         *)
(* SignalsCounted looks at the state only when the loop is quiet.          *)
(* SignalInv says in between that every raise of a timer is, for each of   *)
(* its watchers, a call made or a message in the pipe (Balanced), and who  *)
(* is running (RunsUntilDone): with both, a watcher stops at the same      *)
(* count as its timer, and the pipe is empty then.                         *)
(***************************************************************************)

(* The signals, and what an unused watcher or timer has.                   *)
Signums == {"USR1", "USR2", "CHLD", "none"}

SignalTypeOK ==
  /\ test \in {"we_get_signals", "we_get_signal"}
  /\ round \in 1 .. 4
  /\ sc \in [Watchers -> [signum : Signums, ncalls : 0 .. NSIGNALS]]
  /\ tc \in [Timers -> [signum : Signums, ncalls : 0 .. NSIGNALS]]
  /\ watching \subseteq Watchers /\ ticking \subseteq Timers
  /\ sigpipe \in [Watchers -> Nat]
  /\ killed = FALSE

(* The timer that raises what watcher w waits for.                         *)
TimerOf(w) == IF w <= 2 THEN 1 ELSE 2

(* Who waits for which signal.                                             *)
Assigned ==
  IF test = "we_get_signals"
  THEN /\ \A w \in Watchers : sc[w].signum = SigOf(w)
       /\ \A t \in Timers : tc[t].signum = SigOf(2 * t)
  ELSE /\ \A w \in Watchers : sc[w].signum = IF w = 1 THEN "CHLD" ELSE "none"
       /\ \A t \in Timers : tc[t].signum = IF t = 1 THEN "CHLD" ELSE "none"

(* A timer or watcher runs until its NSIGNALS calls are made.              *)
RunsUntilDone ==
  /\ \A w \in Watchers : w \in watching <=> sc[w].signum # "none" /\ sc[w].ncalls < NSIGNALS
  /\ \A t \in Timers : t \in ticking <=> tc[t].signum # "none" /\ tc[t].ncalls < NSIGNALS

(* Every raise is a call made or a message in the pipe; when the timer     *)
(* runs alone, nobody is told.                                             *)
Alone == test = "we_get_signal" /\ round = 2

Balanced ==
  \A w \in Watchers :
    IF sc[w].signum = "none" THEN sigpipe[w] = 0
    ELSE IF Alone THEN sigpipe[w] = 0 /\ sc[w].ncalls = NSIGNALS
    ELSE sc[w].ncalls + sigpipe[w] = tc[TimerOf(w)].ncalls

SignalInv == SignalTypeOK /\ Assigned /\ RunsUntilDone /\ Balanced

(* Either test at its start.                                               *)
LEMMA SignalInitInv == SignalInit => SignalInv
<1> SUFFICES ASSUME SignalInit PROVE SignalInv
  OBVIOUS
<1> USE SignalAssumption DEF Watchers, Timers
<1>1. 0 \in 0 .. NSIGNALS /\ 0 < NSIGNALS
  OBVIOUS
<1>2. SignalTypeOK
  BY <1>1 DEF SignalInit, SignalTypeOK, Ctx, SigOf, Signums
<1>3. Assigned
  BY DEF SignalInit, Assigned, Ctx
<1>4. RunsUntilDone
  BY <1>1 DEF SignalInit, RunsUntilDone, Ctx, SigOf
<1>5. Balanced
  BY DEF SignalInit, Balanced, Alone, Ctx, TimerOf
<1> QED BY <1>2, <1>3, <1>4, <1>5 DEF SignalInv

(* A timer that runs is heard by all its watchers, or runs alone.          *)
LEMMA TimerInv == ASSUME SignalInv, NEW t \in Timers, timer_cb(t) PROVE SignalInv'
<1> USE SignalAssumption DEF SignalInv
<1>1. /\ tc' = [tc EXCEPT ![t].ncalls = tc[t].ncalls + 1] /\ t \in ticking
      /\ UNCHANGED <<sc, test, round, watching>>
      /\ sigpipe' = Notified(Listening(tc[t].signum))
      /\ ticking' = IF tc[t].ncalls + 1 = NSIGNALS THEN ticking \ {t} ELSE ticking
  BY DEF timer_cb, Raise
<1>2. tc[t].ncalls \in Nat /\ tc[t].ncalls < NSIGNALS /\ tc[t].signum # "none"
  BY <1>1 DEF RunsUntilDone, SignalTypeOK
<1>3. /\ tc'[t].ncalls = tc[t].ncalls + 1 /\ tc'[t].signum = tc[t].signum
      /\ \A u \in Timers \ {t} : tc'[u] = tc[u]
  BY <1>1 DEF SignalTypeOK
<1>4. \A w \in Watchers : sc[w].signum # "none" =>
         (sc[w].signum = tc[t].signum <=> TimerOf(w) = t)
  BY DEF Assigned, SigOf, TimerOf, Timers, Watchers
<1>5. \A w \in Watchers : (TimerOf(w) = t /\ sc[w].signum # "none" /\ ~Alone) => w \in watching
  BY <1>2 DEF Balanced, RunsUntilDone, SignalTypeOK
<1>6. \A w \in Watchers : Alone => w \notin watching
  BY DEF Balanced, RunsUntilDone, SignalTypeOK, Assigned
<1>7. \A w \in Watchers :
         w \in Listening(tc[t].signum) <=> sc[w].signum # "none" /\ TimerOf(w) = t /\ ~Alone
  BY <1>2, <1>4, <1>5, <1>6 DEF Listening
<1>8. killed' = FALSE
  <2>1. tc[t].signum = "CHLD" \/ Listening(tc[t].signum) # {}
    <3>1. CASE test = "we_get_signal"
      BY <1>2, <3>1 DEF Assigned
    <3>2. CASE test # "we_get_signal"
      <4>1. 2 * t \in Watchers /\ TimerOf(2 * t) = t
        BY DEF Watchers, Timers, TimerOf
      <4>2. sc[2 * t].signum # "none" /\ ~Alone
        BY <3>2, <4>1 DEF Assigned, SigOf, Alone, SignalTypeOK
      <4> QED BY <1>7, <4>1, <4>2
    <3> QED BY <3>1, <3>2
  <2> QED BY <2>1 DEF timer_cb, Raise
<1>9. SignalTypeOK'
  <2>1. tc' \in [Timers -> [signum : Signums, ncalls : 0 .. NSIGNALS]]
    BY <1>1, <1>2 DEF SignalTypeOK
  <2>2. sigpipe' \in [Watchers -> Nat]
    BY <1>1 DEF SignalTypeOK, Notified
  <2> QED BY <1>1, <1>8, <2>1, <2>2 DEF SignalTypeOK
<1>10. Assigned'
  BY <1>1, <1>3 DEF Assigned
<1>11. RunsUntilDone'
  BY <1>1, <1>2, <1>3 DEF RunsUntilDone
<1>12. Balanced'
  <2> SUFFICES ASSUME NEW w \in Watchers
               PROVE  IF sc[w].signum = "none" THEN sigpipe'[w] = 0
                      ELSE IF Alone THEN sigpipe'[w] = 0 /\ sc[w].ncalls = NSIGNALS
                      ELSE sc[w].ncalls + sigpipe'[w] = tc'[TimerOf(w)].ncalls
    BY <1>1 DEF Balanced, Alone
  <2>1. sigpipe'[w] = IF w \in Listening(tc[t].signum) THEN sigpipe[w] + 1 ELSE sigpipe[w]
    BY <1>1 DEF Notified
  <2>2. TimerOf(w) \in Timers
    BY DEF TimerOf, Timers
  <2>3. sc[w].ncalls \in Nat /\ sigpipe[w] \in Nat
    BY DEF SignalTypeOK
  <2> QED BY <1>3, <1>7, <2>1, <2>2, <2>3 DEF Balanced
<1> QED BY <1>9, <1>10, <1>11, <1>12

(* A message is for a watcher that still waits for it.                     *)
LEMMA WatcherInv == ASSUME SignalInv, NEW w \in Watchers, signal_cb(w) PROVE SignalInv'
<1> USE SignalAssumption DEF SignalInv
<1>1. /\ sigpipe' = [sigpipe EXCEPT ![w] = sigpipe[w] - 1] /\ sigpipe[w] > 0
      /\ UNCHANGED <<tc, test, round, killed, ticking>>
  BY DEF signal_cb
<1>2. TimerOf(w) \in Timers
  BY DEF TimerOf, Timers
<1>3. /\ sc[w].signum # "none" /\ ~Alone /\ sc[w].ncalls < NSIGNALS /\ w \in watching
      /\ sc[w].ncalls \in Nat /\ sigpipe[w] \in Nat
  BY <1>1, <1>2 DEF Balanced, RunsUntilDone, SignalTypeOK
<1>4. /\ sc' = [sc EXCEPT ![w].ncalls = sc[w].ncalls + 1]
      /\ watching' = IF sc[w].ncalls + 1 = NSIGNALS THEN watching \ {w} ELSE watching
  BY <1>3 DEF signal_cb
<1>5. /\ sc'[w].ncalls = sc[w].ncalls + 1 /\ sc'[w].signum = sc[w].signum
      /\ \A v \in Watchers \ {w} : sc'[v] = sc[v]
  BY <1>4 DEF SignalTypeOK
<1>6. SignalTypeOK'
  <2>1. sc' \in [Watchers -> [signum : Signums, ncalls : 0 .. NSIGNALS]]
    BY <1>3, <1>4 DEF SignalTypeOK
  <2>2. sigpipe' \in [Watchers -> Nat]
    BY <1>1, <1>3 DEF SignalTypeOK
  <2>3. watching' \subseteq Watchers
    BY <1>4 DEF SignalTypeOK
  <2> QED BY <1>1, <2>1, <2>2, <2>3 DEF SignalTypeOK
<1>7. Assigned'
  BY <1>1, <1>5 DEF Assigned
<1>8. RunsUntilDone'
  BY <1>1, <1>3, <1>4, <1>5 DEF RunsUntilDone
<1>9. Balanced'
  <2>1. sigpipe'[w] = sigpipe[w] - 1 /\ \A v \in Watchers \ {w} : sigpipe'[v] = sigpipe[v]
    BY <1>1 DEF SignalTypeOK
  <2>2. sc'[w].ncalls + sigpipe'[w] = tc'[TimerOf(w)].ncalls
    BY <1>1, <1>3, <1>5, <2>1 DEF Balanced
  <2> QED BY <1>1, <1>3, <1>5, <2>1, <2>2 DEF Balanced, Alone
<1> QED BY <1>6, <1>7, <1>8, <1>9

(* At the end of a run nothing is left in the pipe.                        *)
LEMMA QuietDone ==
  ASSUME SignalInv, Quiet
  PROVE  /\ \A t \in Timers : tc[t].signum # "none" => tc[t].ncalls = NSIGNALS
         /\ \A w \in Watchers : sc[w].signum # "none" => sc[w].ncalls = NSIGNALS
         /\ \A w \in Watchers : sigpipe[w] = 0
<1> USE SignalAssumption DEF SignalInv
<1>1. \A t \in Timers : tc[t].signum # "none" => tc[t].ncalls = NSIGNALS
  <2> SUFFICES ASSUME NEW t \in Timers, tc[t].signum # "none" PROVE tc[t].ncalls = NSIGNALS
    OBVIOUS
  <2>1. tc[t].ncalls \in 0 .. NSIGNALS
    BY DEF SignalTypeOK
  <2>2. ~(tc[t].ncalls < NSIGNALS)
    BY DEF Quiet, RunsUntilDone
  <2> QED BY <2>1, <2>2
<1>2. \A w \in Watchers : sc[w].signum # "none" => sc[w].ncalls = NSIGNALS
  <2> SUFFICES ASSUME NEW w \in Watchers, sc[w].signum # "none" PROVE sc[w].ncalls = NSIGNALS
    OBVIOUS
  <2>1. sc[w].ncalls \in 0 .. NSIGNALS
    BY DEF SignalTypeOK
  <2>2. ~(sc[w].ncalls < NSIGNALS)
    BY DEF Quiet, RunsUntilDone
  <2> QED BY <2>1, <2>2
<1>3. ASSUME NEW w \in Watchers PROVE sigpipe[w] = 0
  <2>1. TimerOf(w) \in Timers
    BY DEF TimerOf, Timers
  <2>2. sc[w].signum # "none" => tc[TimerOf(w)].signum # "none"
    BY DEF Assigned, SigOf, TimerOf, Watchers, Timers
  <2> QED BY <1>1, <1>2, <2>1, <2>2 DEF Balanced, SignalTypeOK
<1> QED BY <1>1, <1>2, <1>3

(* The next run starts with an empty pipe.                                 *)
LEMMA RoundInv == ASSUME SignalInv, NextRound PROVE SignalInv'
<1> USE SignalAssumption DEF SignalInv
<1>0. /\ test = "we_get_signal" /\ Quiet /\ round \in 1 .. 3 /\ round' = round + 1
      /\ UNCHANGED <<test, sigpipe, killed>>
  BY DEF NextRound, SignalTypeOK
<1>1. /\ \A t \in Timers : tc[t].signum # "none" => tc[t].ncalls = NSIGNALS
      /\ \A w \in Watchers : sc[w].signum # "none" => sc[w].ncalls = NSIGNALS
      /\ \A w \in Watchers : sigpipe[w] = 0
  BY <1>0, QuietDone
<1>2. 1 \in Timers /\ 1 \in Watchers /\ TimerOf(1) = 1
  BY DEF Timers, Watchers, TimerOf
<1>3. \A w \in Watchers \ {1} : sc[w].signum = "none" /\ sc'[w] = sc[w]
  BY <1>0 DEF NextRound, Assigned, SignalTypeOK
<1>4. CASE round = 3
  <2>1. UNCHANGED <<sc, tc>> /\ watching' = {} /\ ticking' = {}
    BY <1>4 DEF NextRound
  <2>2. SignalTypeOK' /\ Assigned' /\ RunsUntilDone'
    BY <1>0, <1>4, <2>1 DEF SignalTypeOK, Assigned, RunsUntilDone, Quiet
  <2>3. sc[1].ncalls = tc[1].ncalls /\ sigpipe[1] = 0
    BY <1>0, <1>1, <1>2 DEF Assigned
  <2>4. Balanced'
    BY <1>0, <1>1, <1>2, <1>3, <1>4, <2>1, <2>3 DEF Balanced, Alone, SignalTypeOK
  <2> QED BY <2>2, <2>4
<1>5. CASE round < 3
  <2>1. tc' = [tc EXCEPT ![1] = Ctx("CHLD")] /\ ticking' = {1}
    BY <1>5 DEF NextRound
  <2>2. /\ sc' = IF round = 2 THEN [sc EXCEPT ![1] = Ctx("CHLD")] ELSE sc
        /\ watching' = IF round = 2 THEN {1} ELSE {}
    BY DEF NextRound
  <2>3. SignalTypeOK'
    BY <1>0, <1>2, <1>5, <2>1, <2>2 DEF SignalTypeOK, Ctx, Signums
  <2>4. Assigned'
    BY <1>0, <1>2, <2>1, <2>2 DEF Assigned, Ctx, SignalTypeOK
  <2>5. RunsUntilDone'
    <3>1. \A t \in Timers \ {1} : tc'[t].signum = "none"
      BY <1>0, <2>4 DEF Assigned
    <3>2. \A w \in Watchers \ {1} : sc'[w].signum = "none"
      BY <1>3
    <3>3. tc'[1] = Ctx("CHLD")
      BY <1>2, <2>1 DEF SignalTypeOK
    <3>4. IF round = 2 THEN sc'[1] = Ctx("CHLD") ELSE sc'[1].ncalls = NSIGNALS
      BY <1>0, <1>1, <1>2, <2>2 DEF SignalTypeOK, Assigned
    <3> QED BY <1>2, <2>1, <2>2, <3>1, <3>2, <3>3, <3>4 DEF RunsUntilDone, Ctx
  <2>6. Balanced'
    <3>1. CASE round = 1
      BY <1>0, <1>1, <1>3, <2>2, <3>1 DEF Balanced, Alone
    <3>2. CASE round = 2
      <4>1. sc'[1].ncalls = 0 /\ tc'[1].ncalls = 0
        BY <1>2, <2>1, <2>2, <3>2 DEF Ctx, SignalTypeOK
      <4> QED BY <1>0, <1>1, <1>2, <1>3, <3>2, <4>1 DEF Balanced, Alone
    <3> QED BY <1>0, <1>5, <3>1, <3>2
  <2> QED BY <2>3, <2>4, <2>5, <2>6
<1> QED BY <1>0, <1>4, <1>5

(* we_get_signals has one run.                                             *)
LEMMA FinishInv == ASSUME SignalInv, Finish PROVE SignalInv'
BY DEF Finish, SignalInv, SignalTypeOK, Assigned, RunsUntilDone, Balanced, Alone

(* The assertions of the two signal tests hold when uv_run() returns, and  *)
(* no raise() ends the process, for every NSIGNALS.                        *)
THEOREM SignalsAreCounted == SignalSpec => []SignalsCounted
<1>1. ASSUME SignalInv, UNCHANGED signalVars PROVE SignalInv'
  BY <1>1 DEF signalVars, SignalInv, SignalTypeOK, Assigned, RunsUntilDone, Balanced, Alone
<1>2. SignalInv /\ [SignalNext]_signalVars => SignalInv'
  BY <1>1, TimerInv, WatcherInv, RoundInv, FinishInv DEF SignalNext
<1>3. SignalInv => SignalsCounted
  BY QuietDone DEF SignalInv, SignalTypeOK, SignalsCounted
<1> QED BY SignalInitInv, <1>2, <1>3, PTL DEF SignalSpec
=============================================================================
