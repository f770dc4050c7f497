------------------------- MODULE FileTransferProofs -------------------------
(***************************************************************************)
(* EveryFrameExpected and ContentAccounted for files, chunks and pieces of *)
(* any size, as long as the remainder of the client's end modulo the chunk *)
(* is smaller than a piece (SizesAssumption).                              *)
(*                                                                         *)
(* Neither is inductive.  IInv names the stages an open connection goes    *)
(* through, each with the states of both ends and what is on the way.  In  *)
(* the last one, Flowing, every frame lies in one chunk of the file and    *)
(* ends with it or with the file (InOneChunk), and the server's position   *)
(* is at a chunk until it is done: that is why a piece that ends where the *)
(* client stops is the last of the file.                                   *)
(***************************************************************************)
EXTENDS FileTransfer, TLAPS

Frames == [type : {"DATA", "FSS_FILE_RESP_OK"}, from : Nat, len : Nat]

(* q holds one frame, of type t.                                           *)
Only(q, t) == q = <<q[1]>> /\ q[1].type = t

Fresh ==
  /\ cstate = "FSC_CONNECTED" /\ sstate = "FSS_CONNECTED"
  /\ c2s = <<>> /\ s2c = <<>>

Requested ==
  /\ cstate = "FSC_WAIT_CONFIRM" /\ sstate = "FSS_CONNECTED"
  /\ Only(c2s, "FSS_FILE_REQ") /\ s2c = <<>>

Judged ==
  /\ cstate = "FSC_WAIT_CONFIRM" /\ sstate \in {"FSS_HEADER_READY", "FSS_ERROR"}
  /\ c2s = <<>> /\ s2c = <<>>

Answered ==
  /\ cstate = "FSC_WAIT_CONFIRM" /\ sstate = "FSS_WAIT_START"
  /\ c2s = <<>> /\ Only(s2c, "FSS_FILE_RESP_OK")

Ready ==
  /\ cstate = "FSC_CONFIRMED" /\ sstate = "FSS_WAIT_START"
  /\ c2s = <<>> /\ s2c = <<>>

Started ==
  /\ cstate = "FSC_TRANSFER" /\ sstate = "FSS_WAIT_START" /\ outfp
  /\ Only(c2s, "FSS_FILE_START") /\ s2c = <<>>

(* fopen failed: both ends wait.                                           *)
Unopenable ==
  /\ cstate = "FSC_TRANSFER" /\ sstate = "FSS_ERROR"
  /\ c2s = <<>> /\ s2c = <<>>

From(i) == IF i > Len(s2c) THEN pos ELSE s2c[i].from

InOneChunk(f) ==
  \E k \in Nat : /\ k * CHUNK <= f.from
                 /\ f.from + f.len <= k * CHUNK + CHUNK
                 /\ f.from + f.len \in {k * CHUNK + CHUNK, file}

AtChunk == pos <= file /\ \E k \in Nat : pos = k * CHUNK

Flowing ==
  /\ cstate = "FSC_TRANSFER" /\ outfp /\ file \in Nat
  /\ c2s = <<>>
  /\ \A i \in 1 .. Len(s2c) : s2c[i].type = "DATA" /\ InOneChunk(s2c[i])
  /\ From(1) = bytes
  /\ \A i \in 1 .. Len(s2c) : s2c[i].from + s2c[i].len = From(i + 1)
  /\ \/ sstate = "FSS_TRANSFER" /\ AtChunk
     \/ sstate = "FSS_DONE" /\ pos = file

Before ==
  /\ bytes = 0 /\ pos = 0
  /\ Fresh \/ Requested \/ Judged \/ Answered \/ Ready \/ Started \/ Unopenable

IInv ==
  /\ TypeOK
  /\ s2c \in Seq(Frames)
  /\ conn = "open" => ~exited /\ (Before \/ Flowing)
  /\ conn # "open" => c2s = <<>> /\ s2c = <<>>
  /\ exited => bytes = file

-----------------------------------------------------------------------------
(* The empty queue.                                                        *)
LEMMA NothingOnTheWay == <<>> \in Seq(Frames)
OBVIOUS

(* What appending a frame does to a queue.                                 *)
LEMMA Appended ==
  ASSUME NEW q \in Seq(Frames), NEW f \in Frames
  PROVE  /\ Append(q, f) \in Seq(Frames)
         /\ Len(Append(q, f)) = Len(q) + 1
         /\ \A i \in 1 .. Len(q) : Append(q, f)[i] = q[i]
         /\ Append(q, f)[Len(q) + 1] = f
OBVIOUS

(* What taking the first frame away does.                                  *)
LEMMA Taken ==
  ASSUME NEW q \in Seq(Frames), q # <<>>
  PROVE  /\ Head(q) = q[1] /\ q[1] \in Frames
         /\ Tail(q) \in Seq(Frames)
         /\ Len(q) \in Nat \ {0}
         /\ Len(Tail(q)) = Len(q) - 1
         /\ \A i \in 1 .. Len(q) - 1 : Tail(q)[i] = q[i + 1]
         /\ <<>> \o Tail(q) = Tail(q)
OBVIOUS

(* What is left of the first frame takes its place.                        *)
LEMMA Replaced ==
  ASSUME NEW q \in Seq(Frames), q # <<>>, NEW f \in Frames
  PROVE  /\ <<f>> \o Tail(q) \in Seq(Frames)
         /\ Len(<<f>> \o Tail(q)) = Len(q)
         /\ (<<f>> \o Tail(q))[1] = f
         /\ \A i \in 2 .. Len(q) : (<<f>> \o Tail(q))[i] = q[i]
OBVIOUS

(* A queue of one frame.                                                   *)
LEMMA OneFrame ==
  ASSUME NEW r
  PROVE  /\ Append(<<>>, r) = <<r>> /\ <<r>>[1] = r /\ <<r>> # <<>>
         /\ Head(<<r>>) = r /\ Tail(<<r>>) = <<>> /\ <<>> \o <<>> = <<>>
         /\ DOMAIN <<r>> = {1} /\ Len(<<>>) = 0
OBVIOUS

(* The client's end is not at the end of a chunk, and is less than a piece *)
(* behind the last one.                                                    *)
LEMMA EndInChunk ==
  ASSUME NEW k \in Nat, k * CHUNK <= END_BYTES, END_BYTES <= k * CHUNK + CHUNK
  PROVE  END_BYTES < k * CHUNK + RX /\ END_BYTES # k * CHUNK + CHUNK
<1> DEFINE q == END_BYTES \div CHUNK
           r == END_BYTES % CHUNK
<1>1. CHUNK \in Nat /\ CHUNK > 0 /\ RX \in 1 .. CHUNK - 1 /\ END_BYTES \in Nat
  BY SizesAssumption
<1>2. q \in Nat /\ r \in 1 .. RX - 1 /\ END_BYTES = q * CHUNK + r
  BY <1>1, SizesAssumption
<1>3. q * CHUNK \in Nat /\ k * CHUNK \in Nat
  BY <1>1, <1>2
<1> HIDE DEF q, r
<1>4. ~(q < k)
  <2> SUFFICES ASSUME q + 1 <= k PROVE FALSE
    BY <1>2
  <2>1. (q + 1) * CHUNK <= k * CHUNK
    BY <1>1, <1>2
  <2>2. (q + 1) * CHUNK = q * CHUNK + CHUNK
    BY <1>1, <1>2
  <2> QED BY <2>1, <2>2, <1>1, <1>2, <1>3
<1>5. ~(k < q)
  <2> SUFFICES ASSUME k + 1 <= q PROVE FALSE
    BY <1>2
  <2>1. (k + 1) * CHUNK <= q * CHUNK
    BY <1>1, <1>2
  <2>2. (k + 1) * CHUNK = k * CHUNK + CHUNK
    BY <1>1, <1>2
  <2> QED BY <2>1, <2>2, <1>1, <1>2, <1>3
<1>6. q = k
  BY <1>2, <1>4, <1>5
<1> QED BY <1>1, <1>2, <1>3, <1>6

(* A piece of a frame that lies in one chunk, and what is left of it.      *)
LEMMA PieceAndRest ==
  ASSUME NEW f \in Frames, f.type = "DATA"
  PROVE  /\ Piece(f) \in 0 .. f.len
         /\ f.len > Piece(f) => Piece(f) = RX
         /\ f.len > Piece(f) =>
              LET g == Data(f.from + Piece(f), f.len - Piece(f))
              IN /\ Rest(f) = <<g>> /\ g \in Frames /\ g.type = "DATA"
                 /\ g.from = f.from + Piece(f)
                 /\ g.from + g.len = f.from + f.len
         /\ ~(f.len > Piece(f)) => Rest(f) = <<>> /\ Piece(f) = f.len
BY SizesAssumption DEF Frames, Piece, Rest, Data

(* A piece that brings the count to the client's end ends the file: it is  *)
(* shorter than RX, so it is the last of a frame, and that frame does not  *)
(* end with a chunk.                                                       *)
LEMMA EndIsEndOfFile ==
  ASSUME NEW f \in Frames, f.type = "DATA", InOneChunk(f), file \in Nat,
         f.from + Piece(f) = END_BYTES
  PROVE  END_BYTES = file
<1>1. /\ CHUNK \in Nat /\ RX \in Nat /\ f.from \in Nat /\ f.len \in Nat
      /\ Piece(f) \in 0 .. f.len
      /\ f.len > Piece(f) => Piece(f) = RX
      /\ ~(f.len > Piece(f)) => Piece(f) = f.len
  BY PieceAndRest, SizesAssumption DEF Frames
<1>2. PICK k \in Nat : /\ k * CHUNK <= f.from
                       /\ f.from + f.len <= k * CHUNK + CHUNK
                       /\ f.from + f.len \in {k * CHUNK + CHUNK, file}
  BY DEF InOneChunk
<1>3. k * CHUNK \in Nat
  BY <1>1
<1> HIDE DEF Piece
<1>4. k * CHUNK <= END_BYTES /\ END_BYTES <= k * CHUNK + CHUNK
  BY <1>1, <1>2, <1>3
<1>5. END_BYTES < k * CHUNK + RX /\ END_BYTES # k * CHUNK + CHUNK
  BY <1>4, EndInChunk
<1> QED BY <1>1, <1>2, <1>3, <1>5

-----------------------------------------------------------------------------
(* No connection yet.                                                      *)
LEMMA InitInv == Init => IInv
<1> SUFFICES ASSUME Init PROVE IInv
  OBVIOUS
<1>0. 0 \in Nat /\ 0 \in 0 .. MAX_OPEN
  BY SizesAssumption
<1>1. TypeOK
  BY <1>0, Zenon DEF Init, TypeOK, ClientStates, ServerStates
<1>2. s2c \in Seq(Frames)
  BY NothingOnTheWay DEF Init
<1>3. conn # "open" /\ ~exited
  BY DEF Init
<1> QED BY <1>1, <1>2, <1>3 DEF Init, IInv

(* A connection begins with both ends in their first state.                *)
LEMMA EstablishedInv == IInv /\ Established => IInv'
<1> SUFFICES ASSUME IInv, Established PROVE IInv'
  OBVIOUS
<1>1. TypeOK'
  BY DEF IInv, TypeOK, Established, ClientStates, ServerStates
<1>2. Before'
  BY DEF Established, Before, Fresh
<1>3. s2c' \in Seq(Frames) /\ conn' = "open" /\ ~exited'
  BY NothingOnTheWay DEF Established
<1> QED BY <1>1, <1>2, <1>3 DEF IInv

(* A broken connection leaves nothing on the way.                          *)
LEMMA DisconnectInv == IInv /\ Disconnect => IInv'
<1> SUFFICES ASSUME IInv, Disconnect PROVE IInv'
  OBVIOUS
<1>1. TypeOK'
  BY DEF IInv, TypeOK, Disconnect, Break
<1>2. s2c' \in Seq(Frames) /\ c2s' = <<>> /\ s2c' = <<>> /\ conn' # "open"
  BY NothingOnTheWay DEF Disconnect, Break
<1>3. exited' => bytes' = file'
  BY DEF IInv, Disconnect
<1> QED BY <1>1, <1>2, <1>3 DEF IInv

(* The writeable callback of the client: request and start.                *)
LEMMA ClientWriteableInv == IInv /\ ClientWriteable => IInv'
<1> SUFFICES ASSUME IInv, ClientWriteable PROVE IInv'
  OBVIOUS
<1>0. /\ conn = "open" /\ conn' = "open" /\ ~exited /\ ~exited'
      /\ s2c' = s2c /\ bytes' = bytes /\ pos' = pos /\ sstate' = sstate
      /\ file' = file
  BY DEF IInv, ClientWriteable, serverVars
<1>1. TypeOK'
  BY DEF IInv, TypeOK, ClientWriteable, ClientRequest, ClientStart, ClientIdle,
         serverVars, ClientStates
<1>2. Before' \/ Flowing'
  <2>1. CASE ClientRequest
    <3>1. Before /\ Fresh
      BY <1>0, <2>1 DEF IInv, ClientRequest, Before, Flowing, Requested, Judged,
             Answered, Ready, Started, Unopenable
    <3>2. PICK h \in Headers :
            c2s' = Append(c2s, [type |-> "FSS_FILE_REQ", magic |-> h.magic,
                                filesize |-> h.filesize])
      BY <2>1 DEF ClientRequest
    <3>3. Only(c2s', "FSS_FILE_REQ")
      BY <3>1, <3>2, OneFrame DEF Fresh, Only
    <3> QED BY <1>0, <2>1, <3>1, <3>3 DEF ClientRequest, Before, Fresh, Requested
  <2>2. CASE ClientStart
    <3>1. Before /\ Ready
      BY <1>0, <2>2 DEF IInv, ClientStart, Before, Flowing, Requested, Judged,
             Answered, Fresh, Started, Unopenable
    <3>2. Only(c2s', "FSS_FILE_START")
      BY <2>2, <3>1, OneFrame DEF ClientStart, Ready, Only
    <3> QED BY <1>0, <2>2, <3>1, <3>2 DEF ClientStart, Before, Ready, Started
  <2>3. CASE ClientIdle
    BY <1>0, <2>3 DEF IInv, ClientIdle, Before, Flowing, Fresh, Requested, Judged,
           Answered, Ready, Started, Unopenable, From, InOneChunk, AtChunk
  <2> QED BY <2>1, <2>2, <2>3 DEF ClientWriteable
<1> QED BY <1>0, <1>1, <1>2 DEF IInv

(* The request for a callback in each turn of the main loop.               *)
LEMMA MainLoopInv == IInv /\ MainLoop => IInv'
BY DEF IInv, MainLoop, TypeOK, clientVars, Before, Flowing, Fresh, Requested, Judged,
       Answered, Ready, Started, Unopenable, From, InOneChunk, AtChunk

(* The server takes the request, or the start.                             *)
LEMMA ServerReceiveInv == IInv /\ ServerReceive => IInv'
<1> SUFFICES ASSUME IInv, ServerReceive PROVE IInv'
  OBVIOUS
<1>0. /\ conn = "open" /\ conn' = "open" /\ ~exited /\ ~exited' /\ s2c' = s2c
      /\ bytes' = bytes /\ pos' = pos /\ cstate' = cstate /\ outfp' = outfp
      /\ file' = file /\ c2s # <<>>
  BY DEF IInv, ServerReceive, clientVars
<1>1. TypeOK'
  BY SizesAssumption DEF IInv, TypeOK, ServerReceive, Received, CanOpen, clientVars, ServerStates
<1>2. Before /\ (Requested \/ Started)
  BY <1>0 DEF IInv, Before, Flowing, Fresh, Judged, Answered, Ready, Unopenable
<1>3. c2s' = <<>>
  BY <1>2, OneFrame DEF ServerReceive, Requested, Started, Only
<1>4. CASE Requested
  BY <1>0, <1>1, <1>2, <1>3, <1>4
     DEF IInv, ServerReceive, Received, Before, Requested, Judged
<1>5. CASE Started /\ ~CanOpen
  BY <1>0, <1>1, <1>2, <1>3, <1>5
     DEF IInv, ServerReceive, Received, Before, Started, Unopenable
<1>6. CASE Started /\ CanOpen
  <2>1. file \in Nat
    BY <1>6, SizesAssumption DEF IInv, TypeOK, CanOpen
  <2>2. sstate' = "FSS_TRANSFER" /\ s2c' = <<>> /\ pos' = 0 /\ bytes' = 0
    BY <1>0, <1>2, <1>6 DEF ServerReceive, Received, Started, Before
  <2>3. 0 = 0 * CHUNK /\ 0 \in Nat
    BY SizesAssumption
  <2>4. AtChunk'
    BY <1>0, <2>1, <2>2, <2>3 DEF AtChunk
  <2>5. Flowing'
    BY <1>0, <1>3, <1>6, <2>1, <2>2, <2>4, OneFrame DEF Flowing, Started, From
  <2> QED BY <1>0, <1>1, <2>5 DEF IInv
<1> QED BY <1>2, <1>4, <1>5, <1>6

(* The server answers, or sends a chunk.                                   *)
LEMMA ServerWriteableInv == IInv /\ ServerWriteable => IInv'
<1> SUFFICES ASSUME IInv, ServerWriteable PROVE IInv'
  OBVIOUS
<1>0. /\ conn = "open" /\ conn' = "open" /\ ~exited /\ exited' = exited /\ c2s' = c2s
      /\ bytes' = bytes /\ cstate' = cstate /\ outfp' = outfp
      /\ file' = file /\ opened' = opened /\ cwant' = cwant
  BY DEF IInv, ServerWriteable, clientVars
<1>1. CASE SendResponse
  <2> DEFINE f == [type |-> "FSS_FILE_RESP_OK", from |-> 0, len |-> 8]
  <2>1. Before /\ Judged
    BY <1>0, <1>1 DEF IInv, SendResponse, Before, Flowing, Fresh, Requested,
           Answered, Ready, Started, Unopenable
  <2>2. f \in Frames /\ s2c' = Append(s2c, f) /\ s2c = <<>>
    BY <1>1, <2>1 DEF Frames, SendResponse, Judged
  <2>3. s2c' \in Seq(Frames)
    BY <2>2, Appended DEF IInv
  <2>4. Only(s2c', "FSS_FILE_RESP_OK")
    BY <2>2, OneFrame DEF Only
  <2>5. Before'
    BY <1>0, <1>1, <2>1, <2>4 DEF SendResponse, Before, Judged, Answered
  <2>6. TypeOK'
    BY <1>0, <1>1 DEF IInv, TypeOK, SendResponse, ServerStates
  <2> QED BY <1>0, <2>3, <2>5, <2>6 DEF IInv
<1>2. CASE SendContent
  <2> DEFINE n == IF file - pos < CHUNK THEN file - pos ELSE CHUNK
             f == Data(pos, n)
             L == Len(s2c)
  <2>1. Flowing /\ AtChunk /\ file \in Nat /\ c2s = <<>>
    BY <1>0, <1>2 DEF IInv, SendContent, Before, Flowing, Fresh, Requested,
           Judged, Answered, Ready, Started, Unopenable
  <2>2. /\ pos \in Nat /\ pos <= file /\ CHUNK \in Nat /\ n \in 0 .. CHUNK
        /\ pos + n <= file /\ (n < CHUNK => pos + n = file)
        /\ L \in Nat /\ s2c \in Seq(Frames)
    BY <2>1, SizesAssumption DEF IInv, TypeOK, AtChunk
  <2>3. /\ s2c' = Append(s2c, f) /\ pos' = pos + n /\ swant' = TRUE
        /\ sstate' = IF n < CHUNK THEN "FSS_DONE" ELSE "FSS_TRANSFER"
    BY <1>2 DEF SendContent
  <2>4. f \in Frames /\ f.from = pos /\ f.len = n /\ f.type = "DATA"
    BY <2>2 DEF Frames, Data
  <2>5. PICK k \in Nat : pos = k * CHUNK
    BY <2>1 DEF AtChunk
  <2>6. k * CHUNK \in Nat /\ k + 1 \in Nat /\ (k + 1) * CHUNK = k * CHUNK + CHUNK
    BY <2>2
  <2>7. InOneChunk(f)
    <3>1. /\ k * CHUNK <= pos /\ pos + n <= k * CHUNK + CHUNK
          /\ pos + n \in {k * CHUNK + CHUNK, file}
      BY <2>1, <2>2, <2>5, <2>6
    <3> QED BY <2>4, <3>1 DEF InOneChunk
  <2> HIDE DEF f, n
  <2>8. /\ s2c' \in Seq(Frames) /\ Len(s2c') = L + 1 /\ s2c'[L + 1] = f
        /\ \A i \in 1 .. L : s2c'[i] = s2c[i]
    BY <2>2, <2>3, <2>4, Appended
  <2>9. From(L + 1) = pos /\ \A i \in 1 .. L : From(i) = s2c[i].from
    BY <2>2 DEF From
  <2>10. /\ \A i \in Nat : i = L + 2 => From(i)' = pos + n
         /\ \A i \in 1 .. L + 1 : From(i)' = From(i)
    BY <2>2, <2>3, <2>4, <2>8, <2>9 DEF From
  <2>11. \A i \in 1 .. L + 1 : s2c'[i].type = "DATA" /\ InOneChunk(s2c'[i])
    <3> SUFFICES ASSUME NEW i \in 1 .. L + 1
                 PROVE  s2c'[i].type = "DATA" /\ InOneChunk(s2c'[i])
      OBVIOUS
    <3>1. CASE i \in 1 .. L
      <4>1. s2c[i].type = "DATA" /\ InOneChunk(s2c[i])
        BY <2>1, <3>1 DEF Flowing
      <4>2. s2c'[i] = s2c[i]
        BY <2>8, <3>1
      <4> QED BY <4>1, <4>2
    <3>2. CASE i = L + 1
      <4>1. s2c'[i] = f
        BY <2>8, <3>2
      <4> QED BY <2>4, <2>7, <4>1
    <3> QED BY <2>2, <3>1, <3>2
  <2>12. \A i \in 1 .. L + 1 : s2c'[i].from + s2c'[i].len = From(i + 1)'
    <3> SUFFICES ASSUME NEW i \in 1 .. L + 1
                 PROVE  s2c'[i].from + s2c'[i].len = From(i + 1)'
      OBVIOUS
    <3>1. CASE i \in 1 .. L
      <4>1. From(i + 1)' = From(i + 1)
        BY <2>2, <2>10, <3>1
      <4> QED BY <2>1, <2>8, <3>1, <4>1 DEF Flowing
    <3>2. CASE i = L + 1
      <4>1. i + 1 = L + 2
        BY <2>2, <3>2
      <4>2. s2c'[i] = f
        BY <2>8, <3>2
      <4>3. s2c'[i].from + s2c'[i].len = pos + n
        BY <2>4, <4>2
      <4>4. From(i + 1)' = pos + n
        BY <2>2, <2>10, <3>2, <4>1
      <4> QED BY <4>3, <4>4
    <3> QED BY <2>2, <3>1, <3>2
  <2>13. From(1)' = bytes
    BY <2>1, <2>2, <2>10 DEF Flowing
  <2>14. \/ sstate' = "FSS_TRANSFER" /\ AtChunk'
         \/ sstate' = "FSS_DONE" /\ pos' = file
    <3>1. CASE n < CHUNK
      <4>1. pos + n = file
        BY <2>1, <2>2, <3>1
      <4> QED BY <2>3, <3>1, <4>1
    <3>2. CASE ~(n < CHUNK)
      <4>1. n = CHUNK
        BY <2>2, <3>2
      <4>2. pos' = (k + 1) * CHUNK /\ pos' <= file
        BY <2>2, <2>3, <2>5, <2>6, <4>1
      <4> QED BY <1>0, <2>3, <2>6, <3>2, <4>2 DEF AtChunk
    <3> QED BY <3>1, <3>2
  <2>15. (\A i \in 1 .. Len(s2c) : InOneChunk(s2c[i]))'
    BY <1>0, <2>8, <2>11 DEF InOneChunk
  <2>16. Flowing'
    BY <1>0, <2>1, <2>8, <2>11, <2>12, <2>13, <2>14, <2>15 DEF Flowing
  <2>17. TypeOK'
    <3>1. pos' \in Nat
      BY <2>2, <2>3
    <3>2. sstate' \in ServerStates /\ swant' \in BOOLEAN
      BY <2>3 DEF ServerStates
    <3> QED BY <1>0, <3>1, <3>2 DEF IInv, TypeOK
  <2> QED BY <1>0, <2>8, <2>16, <2>17 DEF IInv
<1>3. CASE SendNothing
  <2>1. s2c' = s2c /\ sstate' = sstate /\ pos' = pos /\ swant' = FALSE
    BY <1>3 DEF SendNothing
  <2>2. Before' \/ Flowing'
    BY <1>0, <2>1 DEF IInv, Before, Flowing, Fresh, Requested, Judged,
           Answered, Ready, Started, Unopenable, From, InOneChunk, AtChunk
  <2>3. TypeOK'
    BY <1>0, <2>1 DEF IInv, TypeOK
  <2> QED BY <1>0, <2>1, <2>2, <2>3 DEF IInv
<1> QED BY <1>1, <1>2, <1>3 DEF ServerWriteable

(* The client takes the answer, or a piece of content.                     *)
LEMMA ClientReceiveInv == IInv /\ ClientReceive => IInv'
<1> SUFFICES ASSUME IInv, ClientReceive PROVE IInv'
  OBVIOUS
<1> DEFINE f == Head(s2c)
<1>0. /\ conn = "open" /\ s2c # <<>> /\ s2c \in Seq(Frames) /\ ~exited
      /\ file' = file /\ sstate' = sstate /\ pos' = pos /\ opened' = opened
  BY DEF IInv, ClientReceive
<1>1. /\ f = s2c[1] /\ f \in Frames /\ Tail(s2c) \in Seq(Frames)
      /\ f.from \in Nat /\ f.len \in Nat
  BY <1>0, Taken DEF Frames
<1>2. (Before /\ Answered) \/ Flowing
  BY <1>0 DEF IInv, Before, Fresh, Requested, Judged, Ready, Started, Unopenable
<1>3. CASE Before /\ Answered
  <2>1. /\ cstate = "FSC_WAIT_CONFIRM" /\ bytes = 0 /\ pos = 0 /\ c2s = <<>>
        /\ sstate = "FSS_WAIT_START"
        /\ f.type = "FSS_FILE_RESP_OK" /\ Tail(s2c) = <<>>
    BY <1>1, <1>3, OneFrame DEF Before, Answered, Only
  <2>2. Rest(f) = <<>>
    BY <1>1, <2>1 DEF Rest, Piece
  <2>3. /\ bytes' = 0 /\ cstate' = "FSC_CONFIRMED" /\ exited' = FALSE
        /\ outfp' = (outfp /\ ~exited') /\ cwant' = TRUE /\ conn' = "open"
        /\ c2s' = <<>> /\ s2c' = Rest(f) \o Tail(s2c) /\ swant' = swant
    BY <1>0, <2>1 DEF ClientReceive, Reply, AtEnd, Rejected
  <2>4. s2c' = <<>>
    BY <2>1, <2>2, <2>3, OneFrame
  <2>5. Before'
    BY <1>0, <2>1, <2>3, <2>4 DEF Before, Ready
  <2>6. TypeOK'
    BY <1>0, <2>1, <2>3 DEF IInv, TypeOK, ClientStates
  <2>7. s2c' \in Seq(Frames) /\ ~exited'
    BY <2>3, <2>4, NothingOnTheWay
  <2> QED BY <2>3, <2>5, <2>6, <2>7 DEF IInv
<1>4. CASE Flowing
  <2>1. Len(s2c) \in Nat \ {0} /\ 1 \in 1 .. Len(s2c)
    BY <1>0, Taken
  <2>2. /\ cstate = "FSC_TRANSFER" /\ outfp /\ file \in Nat /\ c2s = <<>>
        /\ f.type = "DATA" /\ InOneChunk(f)
        /\ f.from = bytes /\ f.from + f.len = From(2)
    BY <1>1, <1>4, <2>1 DEF Flowing, From
  <2>3. /\ Piece(f) \in 0 .. f.len /\ bytes \in Nat /\ bytes + Piece(f) \in Nat
    BY <1>1, <2>2, PieceAndRest DEF IInv, TypeOK
  <2>4. /\ bytes' = bytes + Piece(f) /\ cstate' = "FSC_TRANSFER"
        /\ exited' = (bytes' = END_BYTES)
        /\ outfp' = ~exited'
        /\ \/ exited' /\ Break
           \/ /\ ~exited' /\ conn' = "open" /\ c2s' = <<>> /\ cwant' = TRUE
              /\ s2c' = Rest(f) \o Tail(s2c) /\ swant' = swant
    BY <1>0, <2>2 DEF ClientReceive, Reply, AtEnd, Rejected
  <2>5. TypeOK'
    BY <1>0, <2>3, <2>4 DEF IInv, TypeOK, Break, ClientStates
  <2>6. CASE exited'
    <3>1. bytes' = file
      BY <1>1, <2>2, <2>4, <2>6, EndIsEndOfFile
    <3>2. conn' # "open" /\ c2s' = <<>> /\ s2c' = <<>>
      BY <2>4, <2>6 DEF Break
    <3> QED BY <1>0, <2>5, <3>1, <3>2, NothingOnTheWay DEF IInv
  <2>7. CASE ~exited'
    <3>1. Flowing' /\ s2c' \in Seq(Frames)
      <4>1. CASE f.len > Piece(f)
        <5> DEFINE g == Data(f.from + Piece(f), f.len - Piece(f))
        <5>1. /\ Rest(f) = <<g>> /\ g \in Frames /\ g.type = "DATA"
              /\ g.from = bytes' /\ g.from + g.len = f.from + f.len
          BY <1>1, <2>2, <2>4, <4>1, PieceAndRest
        <5>2. InOneChunk(g)
          <6>1. PICK k \in Nat :
                  /\ k * CHUNK <= f.from
                  /\ f.from + f.len <= k * CHUNK + CHUNK
                  /\ f.from + f.len \in {k * CHUNK + CHUNK, file}
            BY <2>2 DEF InOneChunk
          <6>2. k * CHUNK \in Int
            BY SizesAssumption
          <6>3. k * CHUNK <= g.from
            BY <1>1, <2>2, <2>3, <2>4, <5>1, <6>1, <6>2
          <6> QED BY <5>1, <6>1, <6>3 DEF InOneChunk
        <5> HIDE DEF g
        <5>3. /\ s2c' \in Seq(Frames) /\ Len(s2c') = Len(s2c) /\ s2c'[1] = g
              /\ \A i \in 2 .. Len(s2c) : s2c'[i] = s2c[i]
          <6>1. s2c' = <<g>> \o Tail(s2c) /\ g \in Frames
            BY <2>4, <2>7, <5>1
          <6> QED BY <1>0, <6>1, Replaced
        <5>4. \A i \in 2 .. Len(s2c) + 1 : From(i)' = From(i)
          BY <1>0, <2>1, <5>3 DEF From
        <5>5. (\A i \in 1 .. Len(s2c) : s2c[i].type = "DATA" /\ InOneChunk(s2c[i]))'
          <6> SUFFICES ASSUME NEW i \in 1 .. Len(s2c)
                       PROVE  s2c'[i].type = "DATA" /\ InOneChunk(s2c'[i])
            BY <1>0, <5>3 DEF InOneChunk
          <6>1. CASE i = 1
            BY <5>1, <5>2, <5>3, <6>1
          <6>2. CASE i \in 2 .. Len(s2c)
            <7>1. s2c[i].type = "DATA" /\ InOneChunk(s2c[i])
              BY <1>4 DEF Flowing
            <7>2. s2c'[i] = s2c[i]
              BY <5>3, <6>2
            <7> QED BY <7>1, <7>2
          <6> QED BY <2>1, <6>1, <6>2
        <5>6. From(1)' = bytes'
          BY <2>1, <5>1, <5>3 DEF From
        <5>7. (\A i \in 1 .. Len(s2c) : s2c[i].from + s2c[i].len = From(i + 1))'
          <6> SUFFICES ASSUME NEW i \in 1 .. Len(s2c)
                       PROVE  s2c'[i].from + s2c'[i].len = From(i + 1)
            BY <2>1, <5>3, <5>4
          <6>1. CASE i = 1
            <7>1. s2c'[i] = g /\ i + 1 = 2
              BY <5>3, <6>1
            <7> QED BY <2>2, <5>1, <7>1
          <6>2. CASE i \in 2 .. Len(s2c)
            BY <1>4, <5>3, <6>2 DEF Flowing
          <6> QED BY <2>1, <6>1, <6>2
        <5> QED
          BY <1>0, <1>4, <2>2, <2>4, <2>7, <5>3, <5>5, <5>6, <5>7 DEF Flowing, AtChunk
      <4>2. CASE ~(f.len > Piece(f))
        <5>1. Rest(f) = <<>> /\ Piece(f) = f.len
          BY <1>1, <2>2, <4>2, PieceAndRest
        <5>2. /\ s2c' \in Seq(Frames) /\ Len(s2c') = Len(s2c) - 1
              /\ \A i \in 1 .. Len(s2c) - 1 : s2c'[i] = s2c[i + 1]
          BY <1>0, <2>4, <2>7, <5>1, Taken
        <5>3. \A i \in 1 .. Len(s2c) : From(i)' = From(i + 1)
          BY <1>0, <2>1, <5>2 DEF From
        <5>4. (\A i \in 1 .. Len(s2c) : s2c[i].type = "DATA" /\ InOneChunk(s2c[i]))'
          <6> SUFFICES ASSUME NEW i \in 1 .. Len(s2c) - 1
                       PROVE  s2c'[i].type = "DATA" /\ InOneChunk(s2c'[i])
            BY <1>0, <5>2 DEF InOneChunk
          <6>1. i + 1 \in 1 .. Len(s2c)
            BY <2>1
          <6>2. s2c[i + 1].type = "DATA" /\ InOneChunk(s2c[i + 1])
            BY <1>4, <6>1 DEF Flowing
          <6> QED BY <5>2, <6>2
        <5>5. From(1)' = bytes'
          <6>1. From(1)' = From(2)
            BY <2>1, <5>3
          <6> QED BY <2>2, <2>4, <5>1, <6>1
        <5>6. (\A i \in 1 .. Len(s2c) : s2c[i].from + s2c[i].len = From(i + 1))'
          <6> SUFFICES ASSUME NEW i \in 1 .. Len(s2c) - 1
                       PROVE  s2c[i + 1].from + s2c[i + 1].len = From(i + 2)
            BY <2>1, <5>2, <5>3
          <6>1. i + 1 \in 1 .. Len(s2c) /\ (i + 1) + 1 = i + 2
            BY <2>1
          <6> QED BY <1>4, <6>1 DEF Flowing
        <5> QED
          BY <1>0, <1>4, <2>2, <2>4, <2>7, <5>2, <5>4, <5>5, <5>6 DEF Flowing, AtChunk
      <4> QED BY <4>1, <4>2
    <3> QED BY <2>4, <2>5, <2>7, <3>1 DEF IInv
  <2> QED BY <2>6, <2>7
<1> QED BY <1>2, <1>3, <1>4

-----------------------------------------------------------------------------
(* The stages hold in every reachable state, whatever the sizes of file,   *)
(* chunk and piece.                                                        *)
THEOREM InvariantHolds == Spec => []IInv
<1>1. Init => IInv
  BY InitInv
<1>2. IInv /\ [Next]_vars => IInv'
  <2> SUFFICES ASSUME IInv, [Next]_vars PROVE IInv'
    OBVIOUS
  <2>1. CASE UNCHANGED vars
    BY <2>1 DEF vars, clientVars, serverVars, IInv, TypeOK, Before, Flowing, Fresh,
           Requested, Judged, Answered, Ready, Started, Unopenable, From,
           InOneChunk, AtChunk
  <2>2. CASE Next
    BY <2>2, EstablishedInv, DisconnectInv, ClientWriteableInv, ClientReceiveInv,
       MainLoopInv, ServerWriteableInv, ServerReceiveInv DEF Next
  <2> QED BY <2>1, <2>2
<1> QED BY <1>1, <1>2, PTL DEF Spec

(* Both state machines stay in the states the code has, and the server     *)
(* within the files its process may open.                                  *)
THEOREM TypeCorrect == Spec => []TypeOK
<1>1. IInv => TypeOK
  BY DEF IInv
<1> QED BY <1>1, InvariantHolds, PTL

(* However the callbacks of both ends interleave and wherever the          *)
(* connection breaks, no end ever gets a frame its state does not expect.  *)
THEOREM FramesAreExpected == Spec => []EveryFrameExpected
<1>1. IInv => EveryFrameExpected
  <2> SUFFICES ASSUME IInv PROVE EveryFrameExpected
    OBVIOUS
  <2>1. DOMAIN s2c = 1 .. Len(s2c) /\ DOMAIN <<>> = {}
    BY DEF IInv
  <2>2. CASE conn # "open"
    BY <2>1, <2>2 DEF IInv, EveryFrameExpected
  <2>3. CASE conn = "open" /\ Flowing
    BY <2>1, <2>3 DEF Flowing, EveryFrameExpected
  <2>4. CASE conn = "open" /\ Before
    <3>1. CASE Fresh \/ Judged \/ Ready \/ Unopenable
      BY <2>1, <3>1 DEF Fresh, Judged, Ready, Unopenable, EveryFrameExpected
    <3>2. CASE Requested
      <4>1. DOMAIN c2s = {1} /\ c2s[1].type = "FSS_FILE_REQ"
        BY <3>2, OneFrame DEF Requested, Only
      <4> QED BY <2>1, <3>2, <4>1 DEF Requested, EveryFrameExpected
    <3>3. CASE Answered
      <4>1. DOMAIN s2c = {1} /\ s2c[1].type = "FSS_FILE_RESP_OK"
        BY <3>3, OneFrame DEF Answered, Only
      <4> QED BY <2>1, <3>3, <4>1 DEF Answered, EveryFrameExpected
    <3>4. CASE Started
      <4>1. DOMAIN c2s = {1} /\ c2s[1].type = "FSS_FILE_START"
        BY <3>4, OneFrame DEF Started, Only
      <4> QED BY <2>1, <3>4, <4>1 DEF Started, EveryFrameExpected
    <3> QED BY <2>4, <3>1, <3>2, <3>3, <3>4 DEF Before
  <2> QED BY <2>2, <2>3, <2>4 DEF IInv
<1> QED BY <1>1, InvariantHolds, PTL

(* For a file of any size, what was counted, what is on the way and what   *)
(* was read are consecutive, and the client exits only with all of it.     *)
THEOREM ContentIsAccounted == Spec => []ContentAccounted
<1>1. IInv => ContentAccounted
  <2> SUFFICES ASSUME IInv PROVE ContentAccounted
    OBVIOUS
  <2>1. DOMAIN s2c = 1 .. Len(s2c)
    BY DEF IInv
  <2>2. exited => bytes = file
    BY DEF IInv
  <2>3. (conn = "open" /\ sstate \in {"FSS_TRANSFER", "FSS_DONE"}) => Flowing
    BY DEF IInv, Before, Fresh, Requested, Judged, Answered, Ready, Started,
           Unopenable
  <2> QED BY <2>1, <2>2, <2>3 DEF ContentAccounted, Flowing, From
<1> QED BY <1>1, InvariantHolds, PTL
=============================================================================
