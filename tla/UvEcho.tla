------------------------------- MODULE UvEcho -------------------------------
(***************************************************************************)
(* sample_echo_server.c and test-tty.c, one connection of each: the tty    *)
(* client sends what is typed, the server sends back what it reads and     *)
(* closes the connection on a read that begins with "quit".                *)
(*                                                                         *)
(* Both programs are callbacks of one libuv loop, so a callback is one     *)
(* step; between them are the two directions of a TCP stream or a pipe.    *)
(* The stream keeps order but not the borders of writes: the text is a row *)
(* of numbered pieces, and a read takes any number of those that have      *)
(* arrived.  A piece is shorter than "quit" and two of them are not, so    *)
(* reads are cut inside that word as well as around it.                    *)
(* External: libuv, the stream, the user.                                  *)
(***************************************************************************)
EXTENDS Integers, Sequences

CONSTANT MaxPieces   \* bound on the pieces that are typed

ASSUME PiecesAssumption == MaxPieces \in Nat

VARIABLES
  listening, \* uv_listen() succeeded
  quits,    \* the pieces at which the text will read "quit"
  typed,    \* number of pieces typed
  printed,  \* pieces printed by the client
  tty,      \* client: "connecting", "failed", "open", "ended", "killed"
  up, down, \* pieces in flight to the server, and back
  peer,     \* server's handle: "none", "reading", "unwritable" (it reads,
            \* but uv_write() has been refused), "shutdown", "closing",
            \* "freed"; "leaked" when nothing will ever free it
  writes,   \* write_req_t's not called back yet: their pieces
  bufs,     \* read buffers the server has allocated and not freed
  quitAt,   \* history: the "quit" the server acted on, 0 before
  refused   \* history: the number of writes that were refused

echoVars ==
  <<listening, quits, typed, printed, tty, up, down, peer, writes, bufs, quitAt, refused>>

(* main() of the server, in either build: bind, listen, or give up.        *)
ServerMain == listening \in BOOLEAN

EchoInit ==
  /\ ServerMain
  /\ quits \in SUBSET (1 .. MaxPieces)
  /\ typed = 0 /\ printed = <<>>
  /\ tty = "connecting"
  /\ up = <<>> /\ down = <<>>
  /\ peer = "none"
  /\ writes = <<>>
  /\ bufs = 0 /\ quitAt = 0 /\ refused = 0

ttyVars == <<listening, quits, typed, printed, tty>>
peerVars == <<peer, writes, bufs, quitAt, refused>>

-----------------------------------------------------------------------------
(* test-tty.c                                                              *)

(* recv_cb(): what was typed goes out, or waits for the connection; one    *)
(* that failed or that the server has closed loses it.  More than a piece  *)
(* at once is the same as its pieces one after another, since the stream   *)
(* has no borders.                                                         *)
recv_cb ==
  /\ tty \in {"connecting", "failed", "open"}
  /\ typed < MaxPieces
  /\ typed' = typed + 1
  /\ up' = IF tty = "failed" \/ peer \in {"freed", "leaked"} THEN up ELSE Append(up, typed + 1)
  /\ UNCHANGED <<listening, quits, printed, tty, down, peerVars>>

(* connect_cb() does not look at its status and starts to read, which on a *)
(* stream that is not connected does nothing.                              *)
connect_cb ==
  /\ tty = "connecting" /\ listening
  /\ tty' = "open"
  /\ UNCHANGED <<listening, quits, typed, printed, up, down, peerVars>>

connect_cb_failed ==
  /\ tty = "connecting" /\ peer = "none"
  /\ tty' = "failed"
  /\ up' = <<>>
  /\ UNCHANGED <<listening, quits, typed, printed, down, peerVars>>

(* tcp_read_cb() with data.                                                *)
tcp_read_cb(k) ==
  /\ tty = "open"
  /\ k \in 1 .. Len(down)
  /\ printed' = printed \o SubSeq(down, 1, k)
  /\ down' = SubSeq(down, k + 1, Len(down))
  /\ UNCHANGED <<listening, quits, typed, tty, up, peerVars>>

(* tcp_read_cb() at the end: uv_close(), on_close(), uv_stop() and out of  *)
(* main().                                                                 *)
tcp_read_cb_end ==
  /\ tty = "open"
  /\ peer = "freed" /\ down = <<>>
  /\ tty' = "ended"
  /\ UNCHANGED <<listening, quits, typed, printed, up, down, peerVars>>

(* The user ends the client; what it sent before still arrives.            *)
Kill ==
  /\ tty = "open"
  /\ tty' = "killed"
  /\ down' = <<>>
  /\ UNCHANGED <<listening, quits, typed, printed, up, peerVars>>

-----------------------------------------------------------------------------
(* sample_echo_server.c                                                    *)

(* on_new_connection(), which is reported once the kernel has connected.   *)
on_new_connection ==
  /\ tty \in {"open", "killed"}
  /\ peer = "none"
  /\ peer' = "reading"
  /\ UNCHANGED <<ttyVars, up, down, writes, bufs, quitAt, refused>>

(* uv_accept() fails: the handle is closed with no callback to free it.    *)
on_new_connection_refused ==
  /\ tty \in {"open", "killed"}
  /\ peer = "none"
  /\ peer' = "leaked"
  /\ UNCHANGED <<ttyVars, up, down, writes, bufs, quitAt, refused>>

(* What strncmp(buf->base, "quit", 4) may say: a read of one piece is too  *)
(* short for it, and is compared with what malloc() left after it.         *)
Quit(data) == IF Len(data) = 1 THEN BOOLEAN ELSE {Head(data) \in quits}

(* The end of the connection; the buffer is forgotten.                     *)
QuitClose(data) ==
  /\ TRUE \in Quit(data)
  /\ peer' = "closing"
  /\ quitAt' = Head(data)
  /\ UNCHANGED <<writes, refused>>

(* Fault: only the first piece of a read is written back.                  *)
EchoBackFirst(data) ==
  /\ FALSE \in Quit(data) /\ peer = "reading"
  /\ writes' = Append(writes, <<Head(data)>>)
  /\ UNCHANGED <<peer, quitAt, refused>>

(* The read is written back from its own buffer.                           *)
EchoBack(data) ==
  /\ FALSE \in Quit(data) /\ peer = "reading"
  /\ writes' = Append(writes, data)
  /\ UNCHANGED <<peer, quitAt, refused>>

(* uv_write() refuses: FATAL only prints, the buffer and the write_req_t   *)
(* are forgotten, and the server reads on.  What is refused once is        *)
(* refused from then on: the stream is not writable any more.              *)
EchoRefused(data) ==
  /\ FALSE \in Quit(data)
  /\ peer' = "unwritable"
  /\ refused' = refused + 1
  /\ UNCHANGED <<writes, quitAt>>

(* echo_read() of k pieces into a buffer from alloc_buffer().  An empty    *)
(* read frees its buffer at once.                                          *)
echo_read(k) ==
  LET data == SubSeq(up, 1, k)
  IN /\ peer \in {"reading", "unwritable"}
     /\ k \in 1 .. Len(up)
     /\ up' = SubSeq(up, k + 1, Len(up))
     /\ bufs' = bufs + 1
     /\ QuitClose(data) \/ EchoBack(data) \/ EchoRefused(data)
     /\ UNCHANGED <<ttyVars, down>>

(* echo_read() at the end of the stream: uv_shutdown() waits for writes.   *)
echo_read_eof ==
  /\ peer = "reading"
  /\ tty = "killed" /\ up = <<>>
  /\ peer' = "shutdown"
  /\ UNCHANGED <<ttyVars, up, down, writes, bufs, quitAt, refused>>

(* echo_read() with an error, on a stream that was reset: uv_shutdown() is *)
(* refused, its result is not looked at, and nobody closes the handle.     *)
(* The same at the end of a stream that is not writable.                   *)
echo_read_error ==
  /\ peer \in {"reading", "unwritable"}
  /\ tty = "killed"
  /\ peer' = "leaked"
  /\ up' = <<>>
  /\ UNCHANGED <<ttyVars, down, writes, bufs, quitAt, refused>>

(* Fault: a write that failed keeps its buffer.                            *)
after_write_keeps ==
  /\ peer \in {"reading", "unwritable", "shutdown", "leaked"}
  /\ writes # <<>>
  /\ writes' = Tail(writes)
  /\ bufs' = IF tty = "open" THEN bufs - 1 ELSE bufs
  /\ down' = IF tty = "open" /\ peer = "reading" THEN down \o Head(writes) ELSE down
  /\ UNCHANGED <<ttyVars, up, peer, quitAt, refused>>

(* after_write(): the oldest write is done, or failed, as it does when the *)
(* client is gone or the stream not writable.  Its buffer is freed either  *)
(* way.                                                                    *)
after_write ==
  /\ peer \in {"reading", "unwritable", "shutdown", "leaked"}
  /\ writes # <<>>
  /\ writes' = Tail(writes)
  /\ bufs' = bufs - 1
  /\ down' = IF tty = "open" /\ peer = "reading" THEN down \o Head(writes) ELSE down
  /\ UNCHANGED <<ttyVars, up, peer, quitAt, refused>>

after_shutdown ==
  /\ peer = "shutdown" /\ writes = <<>>
  /\ peer' = "closing"
  /\ UNCHANGED <<ttyVars, up, down, writes, bufs, quitAt, refused>>

(* on_close(), after after_write() was called for every cancelled write.   *)
on_close ==
  /\ peer = "closing"
  /\ peer' = "freed"
  /\ writes' = <<>>
  /\ bufs' = bufs - Len(writes)
  /\ up' = <<>>
  /\ UNCHANGED <<ttyVars, down, quitAt, refused>>

EchoClient == connect_cb \/ tcp_read_cb_end \/ \E k \in 1 .. MaxPieces : tcp_read_cb(k)

EchoServer ==
  \/ on_new_connection \/ echo_read_eof \/ after_write \/ after_shutdown \/ on_close
  \/ \E k \in 1 .. MaxPieces : echo_read(k)

EchoNext ==
  \/ EchoClient \/ EchoServer
  \/ recv_cb \/ connect_cb_failed \/ Kill
  \/ on_new_connection_refused \/ echo_read_error

EchoSpec == EchoInit /\ [][EchoNext]_echoVars

-----------------------------------------------------------------------------
(***************************************************************************)
(* However reads are cut, the client prints what was typed, in order,      *)
(* nothing twice and nothing left out before the last piece printed, and   *)
(* nothing from the "quit" on that the server acted on.  The server's      *)
(* buffers are those of its unfinished writes, the one that "quit" came in *)
(* and those of refused writes, which nobody frees                         *)
(* (sample_echo_server.c:97-108).                                          *)
(***************************************************************************)
EchoedInOrder ==
  /\ \A k \in DOMAIN printed : printed[k] = k
  /\ Len(printed) <= typed
  /\ quitAt # 0 => Len(printed) < quitAt
  /\ bufs = Len(writes) + refused + (IF quitAt = 0 THEN 0 ELSE 1)

(***************************************************************************)
(* What was typed is printed, unless the connection ends or the server can *)
(* write no more first; a client whose connection was ended by a "quit"    *)
(* ends too; and once the server sees that a client has gone it gives the  *)
(* connection back, whatever it still had to write.                        *)
(***************************************************************************)
EchoSettles ==
  /\ \A n \in 1 .. MaxPieces :
       typed >= n ~>
         \/ Len(printed) >= n \/ tty # "open"
         \/ peer \in {"unwritable", "closing", "freed", "leaked"}
  /\ (peer = "closing" /\ tty = "open") ~> tty \in {"ended", "killed"}
  /\ peer = "shutdown" ~> peer = "freed"
=============================================================================
