---------------------------- MODULE FileTransfer ----------------------------
(***************************************************************************)
(* The file protocol of test-server-file.c: callback_file_client in        *)
(* test-file-client and callback_file_server in test-server, joined by a   *)
(* websocket.  The client asks, the server confirms, the client starts,    *)
(* and the server sends testfile.bin in frames of CHUNK bytes, which the   *)
(* client's library hands over in pieces of at most RX bytes.              *)
(*                                                                         *)
(* External: the websocket (two reliable queues that can break together),  *)
(* fopen, and the library calling back when a socket is writeable.  The    *)
(* two ends are taken to have negotiated the protocol.                     *)
(***************************************************************************)
EXTENDS Integers, Sequences

CONSTANTS
  FileSizes,    \* sizes testfile.bin may have; MISSING for no such file
  CHUNK,        \* bytes per fread: 10000 in the code
  RX,           \* the client's receive buffer: 4096
  END_BYTES,    \* where the client stops: 83762340
  Headers,      \* request headers: [magic : BOOLEAN, filesize : Int]
  MAX_SIZE,     \* FSS_MAX_FILE_SIZE
  MAX_OPEN,     \* bound: files the server process may have open
  MaxRuns       \* bound: runs of the client

MISSING == -1

(* In 83762340 = 8376 * 10000 + 2340 the remainder is less than one piece. *)
ASSUME SizesAssumption ==
  /\ FileSizes \subseteq Nat \cup {MISSING}
  /\ CHUNK \in Nat /\ RX \in 1 .. CHUNK - 1
  /\ END_BYTES \in Nat /\ END_BYTES % CHUNK \in 1 .. RX - 1
  /\ MAX_OPEN \in Nat

VARIABLES
  file,       \* size of testfile.bin
  conn,       \* "none", "open" or "closed"
  cstate,     \* psc->state
  bytes,      \* psc->bytes
  outfp,      \* psc->outfp is an open file
  cwant,      \* the client has a writeable callback requested
  exited,     \* the client called exit(0)
  sstate,     \* pss->state
  pos,        \* the read position of pss->fp
  swant,      \* the server has a writeable callback requested
  opened,     \* files open in the server process
  c2s, s2c,   \* frames on their way
  runs        \* times the client was started

clientVars == <<cstate, bytes, outfp, cwant, exited>>
serverVars == <<sstate, pos, swant, opened>>
vars == <<file, conn, clientVars, serverVars, c2s, s2c, runs>>

ClientStates == {"FSC_NONE", "FSC_CONNECTED", "FSC_WAIT_CONFIRM", "FSC_CONFIRMED",
                 "FSC_TRANSFER", "FSC_DONE", "FSC_ERROR"}
ServerStates == {"FSS_NONE", "FSS_CONNECTED", "FSS_HEADER_READY", "FSS_WAIT_START",
                 "FSS_TRANSFER", "FSS_DONE", "FSS_ERROR"}

Data(from, len) == [type |-> "DATA", from |-> from, len |-> len]

Init ==
  /\ file \in FileSizes
  /\ conn = "none"
  /\ cstate = "FSC_NONE" /\ bytes = 0 /\ outfp = FALSE
  /\ cwant = FALSE /\ exited = FALSE
  /\ sstate = "FSS_NONE" /\ pos = 0 /\ swant = FALSE /\ opened = 0
  /\ c2s = <<>> /\ s2c = <<>>
  /\ runs = 0

(* A new client process connects: the ESTABLISHED callbacks of both ends.  *)
Established ==
  /\ conn # "open"
  /\ runs < MaxRuns
  /\ runs'   = runs + 1
  /\ conn'   = "open"
  /\ cstate' = "FSC_CONNECTED" /\ bytes' = 0 /\ outfp' = FALSE
  /\ cwant'  = TRUE /\ exited' = FALSE
  /\ sstate' = "FSS_CONNECTED" /\ pos' = 0 /\ swant' = FALSE
  /\ c2s' = <<>> /\ s2c' = <<>>
  /\ UNCHANGED <<file, opened>>

(* The websocket is gone; pss->fp, if any, stays open.                     *)
Break ==
  /\ conn' = "closed"
  /\ c2s' = <<>> /\ s2c' = <<>>
  /\ swant' = FALSE /\ cwant' = FALSE

(* The connection is lost, or a callback returns -1 after a failed write.  *)
Disconnect ==
  /\ conn = "open"
  /\ Break
  /\ UNCHANGED <<file, cstate, bytes, outfp, exited, sstate, pos, opened, runs>>

-----------------------------------------------------------------------------
(* The client.                                                             *)

(* LWS_CALLBACK_CLIENT_WRITEABLE                                           *)
ClientRequest ==
  /\ cstate = "FSC_CONNECTED"
  /\ \E h \in Headers :
       c2s' = Append(c2s, [type |-> "FSS_FILE_REQ", magic |-> h.magic,
                           filesize |-> h.filesize])
  /\ cstate' = "FSC_WAIT_CONFIRM"
  /\ UNCHANGED outfp

(* Fault: the state is left as it was after FSS_FILE_START.                *)
StartAgain ==
  /\ cstate = "FSC_CONFIRMED"
  /\ outfp' = TRUE
  /\ c2s' = Append(c2s, [type |-> "FSS_FILE_START"])
  /\ UNCHANGED cstate

ClientStart ==
  /\ cstate = "FSC_CONFIRMED"
  /\ outfp' = TRUE
  /\ c2s' = Append(c2s, [type |-> "FSS_FILE_START"])
  /\ cstate' = "FSC_TRANSFER"

ClientIdle ==
  /\ cstate \notin {"FSC_CONNECTED", "FSC_CONFIRMED"}
  /\ UNCHANGED <<cstate, outfp, c2s>>

ClientWriteable ==
  /\ conn = "open" /\ cwant
  /\ cwant' = FALSE
  /\ ClientRequest \/ ClientStart \/ ClientIdle
  /\ UNCHANGED <<file, conn, bytes, exited, serverVars, s2c, runs>>

(* The piece of frame f the library hands over, and what is left of it.    *)
Piece(f) == IF f.type = "DATA" /\ f.len > RX THEN RX ELSE f.len

Rest(f) == IF f.len > Piece(f)
           THEN <<Data(f.from + Piece(f), f.len - Piece(f))>>
           ELSE <<>>

(***************************************************************************)
(* LWS_CALLBACK_CLIENT_RECEIVE.  In FSC_WAIT_CONFIRM the frame is read as  *)
(* a reply, in FSC_TRANSFER as content, and otherwise it is "unexpected    *)
(* data" and ignored.                                                      *)
(***************************************************************************)
Reply(f) == cstate = "FSC_WAIT_CONFIRM" /\ f.type = "FSS_FILE_RESP_OK"

Rejected(f) == cstate = "FSC_WAIT_CONFIRM" /\ f.type # "FSS_FILE_RESP_OK"

(* if (psc->bytes == 83762340)                                             *)
AtEnd(n) == cstate = "FSC_TRANSFER" /\ n = END_BYTES

ClientReceive ==
  /\ conn = "open" /\ s2c # <<>>
  /\ LET f == Head(s2c)
     IN /\ bytes'  = IF cstate = "FSC_TRANSFER" THEN bytes + Piece(f) ELSE bytes
        /\ cstate' = IF Reply(f) THEN "FSC_CONFIRMED" ELSE cstate
        /\ exited' = AtEnd(bytes')
        /\ outfp'  = (outfp /\ ~exited')
        /\ \/ /\ exited' \/ Rejected(f)
              /\ Break
           \/ /\ ~exited' /\ ~Rejected(f)
              /\ s2c' = Rest(f) \o Tail(s2c)
              /\ cwant' = TRUE
              /\ UNCHANGED <<conn, c2s, swant>>
  /\ UNCHANGED <<file, sstate, pos, opened, runs>>

-----------------------------------------------------------------------------
(* The server.                                                             *)

(* Fault: no writeable callback is asked for.                              *)
IdleLoop == conn = "open" /\ UNCHANGED vars

(* The main loop asks for writeable callbacks on every turn.               *)
MainLoop ==
  /\ conn = "open"
  /\ swant' = TRUE
  /\ UNCHANGED <<file, conn, clientVars, sstate, pos, opened, c2s, s2c, runs>>

(* LWS_CALLBACK_SERVER_WRITEABLE                                           *)
SendResponse ==
  /\ sstate = "FSS_HEADER_READY"
  /\ s2c' = Append(s2c, [type |-> "FSS_FILE_RESP_OK", from |-> 0, len |-> 8])
  /\ sstate' = "FSS_WAIT_START"
  /\ swant' = FALSE
  /\ UNCHANGED pos

(* Fault: a full chunk is taken for the last one.                          *)
ContentDoneEarly ==
  /\ sstate = "FSS_TRANSFER"
  /\ LET n == IF file - pos < CHUNK THEN file - pos ELSE CHUNK
     IN /\ s2c' = Append(s2c, Data(pos, n))
        /\ pos' = pos + n
        /\ sstate' = IF n <= CHUNK THEN "FSS_DONE" ELSE sstate
  /\ swant' = TRUE

SendContent ==
  /\ sstate = "FSS_TRANSFER"
  /\ LET n == IF file - pos < CHUNK THEN file - pos ELSE CHUNK
     IN /\ s2c' = Append(s2c, Data(pos, n))
        /\ pos' = pos + n
        /\ sstate' = IF n < CHUNK THEN "FSS_DONE" ELSE sstate
  /\ swant' = TRUE

SendNothing ==
  /\ sstate \notin {"FSS_HEADER_READY", "FSS_TRANSFER"}
  /\ swant' = FALSE
  /\ UNCHANGED <<s2c, sstate, pos>>

ServerWriteable ==
  /\ conn = "open" /\ swant
  /\ SendResponse \/ SendContent \/ SendNothing
  /\ UNCHANGED <<file, conn, clientVars, opened, c2s, runs>>

(* LWS_CALLBACK_RECEIVE                                                    *)
HeaderOK(h) == h.magic /\ ~(h.filesize > MAX_SIZE)

(* fopen("testfile.bin")                                                   *)
CanOpen == file # MISSING /\ opened < MAX_OPEN

(* What the server makes of frame f: in FSS_WAIT_START any frame starts    *)
(* the transfer; after that a frame is "unexpected".                       *)
Received(f) ==
  CASE sstate = "FSS_CONNECTED"  -> IF HeaderOK(f) THEN "FSS_HEADER_READY" ELSE "FSS_ERROR"
    [] sstate = "FSS_WAIT_START" -> IF CanOpen THEN "FSS_TRANSFER" ELSE "FSS_ERROR"
    [] OTHER                     -> sstate

ServerReceive ==
  /\ conn = "open" /\ c2s # <<>>
  /\ sstate' = Received(Head(c2s))
  /\ opened' = IF sstate = "FSS_WAIT_START" /\ CanOpen THEN opened + 1 ELSE opened
  /\ c2s' = Tail(c2s)
  /\ UNCHANGED <<file, conn, clientVars, pos, swant, s2c, runs>>

Next ==
  \/ Established \/ Disconnect
  \/ ClientWriteable \/ ClientReceive
  \/ MainLoop \/ ServerWriteable \/ ServerReceive

Spec == Init /\ [][Next]_vars

(***************************************************************************)
(* Both processes poll: a frame that has arrived is handed over, a         *)
(* requested writeable callback is made once the socket can take data, and *)
(* test-server's main loop keeps turning.                                  *)
(***************************************************************************)
FairSpec ==
  /\ Spec
  /\ WF_vars(ClientWriteable) /\ WF_vars(ClientReceive)
  /\ WF_vars(MainLoop) /\ WF_vars(ServerWriteable) /\ WF_vars(ServerReceive)

-----------------------------------------------------------------------------
(* The states of both ends are ones the code has, and the server never has *)
(* more files open than the process may.                                   *)
TypeOK ==
  /\ file \in FileSizes
  /\ conn \in {"none", "open", "closed"}
  /\ cstate \in ClientStates \ {"FSC_DONE", "FSC_ERROR"}
  /\ sstate \in ServerStates
  /\ bytes \in Nat /\ pos \in Nat
  /\ opened \in 0 .. MAX_OPEN
  /\ outfp \in BOOLEAN /\ exited \in BOOLEAN
  /\ cwant \in BOOLEAN /\ swant \in BOOLEAN

(***************************************************************************)
(* Each end is in the state that understands whatever is on its way to it: *)
(* no "unexpected" branch is taken, a reply is never read as content, and  *)
(* content is never written to an outfp that is not open.                  *)
(***************************************************************************)
EveryFrameExpected ==
  /\ \A i \in DOMAIN s2c :
       IF s2c[i].type = "DATA"
       THEN cstate = "FSC_TRANSFER" /\ outfp
       ELSE cstate = "FSC_WAIT_CONFIRM"
  /\ \A i \in DOMAIN c2s :
       IF c2s[i].type = "FSS_FILE_START"
       THEN sstate = "FSS_WAIT_START"
       ELSE sstate = "FSS_CONNECTED"

(***************************************************************************)
(* What the client has counted, what is in flight and what the server has  *)
(* read are consecutive parts of the file: nothing is lost, repeated or    *)
(* counted twice where a frame is handed over in pieces; FSS_DONE is       *)
(* reached only at the end, also of a file that is a multiple of the       *)
(* chunk; and the client calls exit(0) only when it has the whole file: no *)
(* piece of a larger one ends just where it stops (test-server-file.c:96). *)
(***************************************************************************)
ContentAccounted ==
  /\ (conn = "open" /\ sstate \in {"FSS_TRANSFER", "FSS_DONE"}) =>
       LET From(i) == IF i > Len(s2c) THEN pos ELSE s2c[i].from
       IN /\ From(1) = bytes
          /\ \A i \in DOMAIN s2c : s2c[i].from + s2c[i].len = From(i + 1)
          /\ sstate = "FSS_DONE" => pos = file
  /\ exited => bytes = file

(***************************************************************************)
(* A client whose request the server accepts, for a file of the size it    *)
(* expects and while the server can open it, gets all of it unless the     *)
(* connection breaks.                                                      *)
(***************************************************************************)
TransferCompletes ==
  (conn = "open" /\ sstate = "FSS_HEADER_READY" /\ file = END_BYTES /\ CanOpen)
    ~> (exited \/ conn = "closed")

(***************************************************************************)
(* test-server-file.c:180, in the branch for FSS_DONE: "server close       *)
(* socket".                                                                *)
(***************************************************************************)
ServerClosesWhenDone ==
  (conn = "open" /\ sstate = "FSS_DONE") ~> (conn = "closed")
=============================================================================
