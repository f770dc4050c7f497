----------------------------- MODULE HttpServer -----------------------------
(***************************************************************************)
(* The http side of the test servers, callback_http in test-server-http.c: *)
(* files served by the library, /leaf.jpg sent "by hand" piece by piece,   *)
(* form posts with an uploaded file, and the /proxytest relay through a    *)
(* client connection that is the child of the server connection.           *)
(*                                                                         *)
(* Data: a URI is one of the classes the handler tells apart; a body is    *)
(* its length in units; the upload's bytes are tagged with the connection  *)
(* that wrote them.  One service thread makes every callback, so a         *)
(* callback is one step.  External: the peers, the form parser, the        *)
(* upstream server, and the library's bookkeeping: it destroys the         *)
(* session data (after HTTP_DROP_PROTOCOL) when a transaction completes or *)
(* the connection closes, and closes the child when its parent closes, not *)
(* when a transaction of the parent completes.  It delivers the body of a  *)
(* request whatever the handler did with the request, unless it is sending *)
(* a file itself or the transaction is over.                               *)
(***************************************************************************)
EXTENDS Integers, Sequences, FiniteSets

CONSTANTS
  Conns,    \* connection slots
  LeafLen,  \* length of leaf.jpg
  Lump,     \* sizeof(buffer) - LWS_PRE
  Burst,    \* 1024 * 1024: no more than this (and a lump) per callback
  Limit,    \* 100000: longest upload accepted
  UpLen     \* length of the upstream's content

ASSUME HttpAssumption ==
  /\ IsFiniteSet(Conns)
  /\ LeafLen \in Nat \ {0} /\ Lump \in Nat \ {0} /\ Burst \in Nat \ {0}
  /\ Limit \in Nat \ {0}   /\ UpLen \in Nat \ {0}

NONE == -1
HOLE == "hole"

(* in, as far as callback_http looks at it.  /cgit-data/ is in "dirs".     *)
Uris == {"empty", "proxytest", "dirs", "leaf", "root", "page", "nomime"}

VARIABLES
  phase,    \* what the connection is doing; "closed" or "idle" between uses
  pss,      \* struct per_session_data__http
  body,     \* external: the body of the request has not all arrived
  booked,   \* external: a writeable callback was asked for
  child,    \* external: the client connection of a proxied request
  upstream, \* external: content the child has not read yet
  inpart,   \* external: the form parser is inside a file part
  spas,     \* external: parsers allocated and not destroyed
  postfile, \* external: content of /tmp/post-file
  heads,    \* history: response heads sent for this request
  out,      \* history: body sent for this request
  part,     \* history: bytes accepted of the last file part
  mixed,    \* history: connections on which a request other than a form
            \* post has had a body, which its handler did not expect
  sole      \* history: the one connection whose upload nobody disturbed

libVars  == <<body, booked, child, upstream, inpart, spas>>
fileVars == <<postfile, sole>>
history  == <<heads, out, part, mixed>>
vars == <<phase, pss, libVars, fileVars, history>>

(* The library allocates session data zeroed; post_fd is read only after   *)
(* LWS_UFS_OPEN set it.                                                    *)
FreshSession ==
  [fop_fd |-> NONE, bf |-> FALSE, client_finished |-> FALSE, spa |-> FALSE,
   file_length |-> 0, post_fd |-> NONE]

Init ==
  /\ phase = [c \in Conns |-> "closed"]
  /\ pss = [c \in Conns |-> FreshSession]
  /\ body = [c \in Conns |-> FALSE]
  /\ booked = [c \in Conns |-> FALSE]
  /\ child = [c \in Conns |-> "none"]
  /\ upstream = [c \in Conns |-> 0]
  /\ inpart = [c \in Conns |-> FALSE]
  /\ spas = 0
  /\ postfile = << >>
  /\ sole = {}
  /\ heads = [c \in Conns |-> 0]
  /\ out = [c \in Conns |-> 0]
  /\ part = [c \in Conns |-> 0]
  /\ mixed = {}

-----------------------------------------------------------------------------
(* LWS_CALLBACK_HTTP_DROP_PROTOCOL: destroy the parser if there is one.    *)
(* An open fop_fd or post_fd is not closed here.                           *)
DropProtocol(c) == spas' = IF pss[c].spa THEN spas - 1 ELSE spas

(* The session is over, and the connection in phase p.                     *)
EndSession(c, p) ==
  /\ DropProtocol(c)
  /\ phase' = [phase EXCEPT ![c] = p]
  /\ pss' = [pss EXCEPT ![c] = FreshSession]
  /\ body' = [body EXCEPT ![c] = FALSE]
  /\ inpart' = [inpart EXCEPT ![c] = FALSE]

(* A non-zero return from the callback: the library closes the connection. *)
Fail(c) ==
  /\ EndSession(c, "closed")
  /\ booked' = [booked EXCEPT ![c] = FALSE]
  /\ child' = [child EXCEPT ![c] = "none"]
  /\ upstream' = [upstream EXCEPT ![c] = 0]

(* try_to_reuse: lws_http_transaction_completed() keeps the connection for *)
(* another request if it can, and otherwise the callback returns -1.  A    *)
(* writeable callback that was asked for still comes, unless this is it.   *)
TryToReuse(c, still) ==
  \/ /\ EndSession(c, "idle")
     /\ booked' = [booked EXCEPT ![c] = still]
     /\ UNCHANGED <<child, upstream>>
  \/ Fail(c)

(* lws_write(LWS_WRITE_HTTP_HEADERS)                                       *)
SendHead(c) == heads' = [heads EXCEPT ![c] = @ + 1]

(* A new connection, in a slot that was free.                              *)
Connect(c) ==
  /\ phase[c] = "closed"
  /\ phase' = [phase EXCEPT ![c] = "idle"]
  /\ heads' = [heads EXCEPT ![c] = 0]
  /\ mixed' = mixed \ {c}
  /\ UNCHANGED <<pss, libVars, fileVars, out, part>>

(* The peer goes away, or a timeout of the library fires.                  *)
Closed(c) ==
  /\ phase[c] # "closed"
  /\ Fail(c)
  /\ UNCHANGED <<fileVars, history>>

-----------------------------------------------------------------------------
(* LWS_CALLBACK_HTTP.  The tests come in the order of the code: the        *)
(* proxied path and a path with directories before POST, POST before files.*)

NewRequest(c) ==
  /\ phase[c] = "idle"
  /\ out' = [out EXCEPT ![c] = 0]
  /\ UNCHANGED <<fileVars, part>>

(* lws_return_http_status(400 or 406) and ready for the next request.      *)
Refuse(c, uri) ==
  /\ uri \in {"empty", "dirs"}
  /\ heads' = [heads EXCEPT ![c] = 1]
  /\ TryToReuse(c, booked[c])
  /\ UNCHANGED mixed

(* The handler goes on to answer a request without a look at its method.   *)
Unasked(c, content) ==
  /\ body' = [body EXCEPT ![c] = content]
  /\ mixed' = IF content THEN mixed \cup {c} ELSE mixed

(* A post comes here too.  The connect may fail at once: the handler       *)
(* breaks all the same, and the request waits for a timeout.  With a child *)
(* of an earlier request it breaks before the connect.                     *)
StartProxy(c, uri, content) ==
  /\ uri = "proxytest"
  /\ heads' = [heads EXCEPT ![c] = 0]
  /\ phase' = [phase EXCEPT ![c] = "proxy"]
  /\ Unasked(c, content)
  /\ \/ child[c] # "none" /\ UNCHANGED <<pss, child, upstream>>
     \/ /\ child[c] = "none"
        /\ pss' = [pss EXCEPT ![c].client_finished = FALSE]
        /\ \/ /\ child' = [child EXCEPT ![c] = "connecting"]
              /\ upstream' = [upstream EXCEPT ![c] = UpLen]
           \/ UNCHANGED <<child, upstream>>
  /\ UNCHANGED <<booked, inpart, spas>>

(* Fault: the post asks for a writeable callback, as the leaf does.        *)
AcceptPostBooked(c, uri) ==
  /\ uri \notin {"empty", "proxytest", "dirs"}
  /\ heads' = [heads EXCEPT ![c] = 0]
  /\ phase' = [phase EXCEPT ![c] = "post"]
  /\ body' = [body EXCEPT ![c] = TRUE]
  /\ booked' = [booked EXCEPT ![c] = TRUE]
  /\ UNCHANGED <<pss, child, upstream, inpart, spas, mixed>>

(* "if a legal POST URL, let it continue and accept data"                  *)
AcceptPost(c, uri) ==
  /\ uri \notin {"empty", "proxytest", "dirs"}
  /\ heads' = [heads EXCEPT ![c] = 0]
  /\ phase' = [phase EXCEPT ![c] = "post"]
  /\ body' = [body EXCEPT ![c] = TRUE]
  /\ UNCHANGED <<pss, booked, child, upstream, inpart, spas, mixed>>

(* The file is opened, its head sent with the content length, and the      *)
(* first writeable callback booked.  Opening or sending can fail.          *)
StartLeaf(c, uri, content) ==
  /\ uri = "leaf"
  /\ \/ heads' = [heads EXCEPT ![c] = 0] /\ Fail(c) /\ UNCHANGED mixed
     \/ /\ heads' = [heads EXCEPT ![c] = 1]
        /\ phase' = [phase EXCEPT ![c] = "leaf"]
        /\ pss' = [pss EXCEPT ![c].fop_fd = 0]
        /\ booked' = [booked EXCEPT ![c] = TRUE]
        /\ Unasked(c, content)
        /\ UNCHANGED <<child, upstream, inpart, spas>>

(* get_mimetype knows .ico, .png, .html, .css and .js; "/" is /test.html.  *)
mimetype(uri) == uri \in {"root", "page"}

(* lws_serve_http_file sends head and body by itself and reports with      *)
(* HTTP_FILE_COMPLETION.                                                   *)
ServeFile(c, uri) ==
  /\ uri \in {"root", "page", "nomime"}
  /\ \/ /\ heads' = [heads EXCEPT ![c] = IF mimetype(uri) THEN 0 ELSE 1]
        /\ Fail(c)
     \/ /\ mimetype(uri)
        /\ heads' = [heads EXCEPT ![c] = 1]
        /\ phase' = [phase EXCEPT ![c] = "file"]
        /\ UNCHANGED <<pss, libVars>>
  /\ UNCHANGED mixed

(* content: the request has a body; the body of a post is not empty.       *)
Request(c, uri, post, content) ==
  /\ NewRequest(c)
  /\ post => content
  /\ \/ Refuse(c, uri)
     \/ StartProxy(c, uri, content)
     \/ post /\ AcceptPost(c, uri)
     \/ ~post /\ (StartLeaf(c, uri, content) \/ ServeFile(c, uri))

(* LWS_CALLBACK_HTTP_FILE_COMPLETION                                       *)
FileCompletion(c) ==
  /\ phase[c] = "file"
  /\ TryToReuse(c, booked[c])
  /\ UNCHANGED <<fileVars, history>>

-----------------------------------------------------------------------------
(* LWS_CALLBACK_HTTP_BODY: the parser is created with the first piece, and *)
(* calls file_upload_cb for what it finds.  A piece is cut so that it      *)
(* holds one event.  Nothing here looks at what the request was.           *)

(* The connection's session once the parser exists.                        *)
WithParser(c) ==
  IF pss[c].spa THEN pss[c] ELSE [pss[c] EXCEPT !.spa = TRUE, !.file_length = 0]

(* Text fields stay in the parser.  Creating or parsing can fail.          *)
BodyText(c) ==
  /\ body[c]
  /\ \/ /\ pss' = [pss EXCEPT ![c] = WithParser(c)]
        /\ spas' = IF pss[c].spa THEN spas ELSE spas + 1
        /\ UNCHANGED <<phase, body, booked, child, upstream, inpart>>
     \/ Fail(c)
  /\ UNCHANGED <<fileVars, history>>

(* Fault: the file is opened without O_TRUNC.                              *)
UfsOpenKeep(c) ==
  /\ pss' = [pss EXCEPT ![c] = [WithParser(c) EXCEPT !.post_fd = 0]]
  /\ sole' = {c}
  /\ UNCHANGED postfile

(* LWS_UFS_OPEN: always the same file; open() can fail, unnoticed.         *)
UfsOpen(c) ==
  \/ /\ pss' = [pss EXCEPT ![c] = [WithParser(c) EXCEPT !.post_fd = 0]]
     /\ postfile' = << >>
     /\ sole' = {c}
  \/ /\ pss' = [pss EXCEPT ![c] = [WithParser(c) EXCEPT !.post_fd = NONE]]
     /\ sole' = sole \ {c}
     /\ UNCHANGED postfile

BodyOpen(c) ==
  /\ body[c]
  /\ ~inpart[c]
  /\ inpart' = [inpart EXCEPT ![c] = TRUE]
  /\ spas' = IF pss[c].spa THEN spas ELSE spas + 1
  /\ part' = [part EXCEPT ![c] = 0]
  /\ UfsOpen(c)
  /\ UNCHANGED <<phase, body, booked, child, upstream, heads, out, mixed>>

(* write(fd) at the descriptor's own offset in the shared file.            *)
Written(c, at, len) ==
  [i \in 1 .. (IF at + len > Len(postfile) THEN at + len ELSE Len(postfile)) |->
     IF i > at /\ i <= at + len THEN c
     ELSE IF i <= Len(postfile) THEN postfile[i] ELSE HOLE]

(* LWS_UFS_CONTENT and LWS_UFS_FINAL_CONTENT: count, drop the connection   *)
(* if it is too much, write, and close after the last piece.               *)
UfsContent(c, len, final) ==
  LET total == pss[c].file_length + len
      fd == pss[c].post_fd
  IN IF len > 0 /\ total > Limit
     THEN Fail(c) /\ UNCHANGED fileVars
     ELSE /\ postfile' = IF len > 0 /\ fd # NONE THEN Written(c, fd, len)
                         ELSE postfile
          /\ sole' = IF len > 0 /\ fd # NONE THEN sole \cap {c} ELSE sole
          /\ pss' = [pss EXCEPT ![c].file_length = total,
                                ![c].post_fd = IF final \/ fd = NONE THEN NONE
                                               ELSE fd + len]
          /\ inpart' = [inpart EXCEPT ![c] = ~final]
          /\ UNCHANGED <<phase, body, booked, child, upstream, spas>>

(* Pieces are at most Lump long; only the last one may be empty.           *)
BodyContent(c) ==
  /\ body[c]
  /\ inpart[c]
  /\ \E len \in 0 .. Lump, final \in BOOLEAN :
       /\ final \/ len > 0
       /\ UfsContent(c, len, final)
       /\ part' = [part EXCEPT ![c] = IF phase'[c] = "closed" THEN @ ELSE @ + len]
  /\ UNCHANGED <<heads, out, mixed>>

(* LWS_CALLBACK_HTTP_BODY_COMPLETION: the form results, then reuse.  A     *)
(* body that is not empty was delivered; its last part may be unfinished.  *)
BodyCompletion(c) ==
  /\ body[c]
  /\ pss[c].spa
  /\ \/ /\ SendHead(c)
        /\ TryToReuse(c, booked[c])
     \/ /\ Fail(c)
        /\ UNCHANGED heads
  /\ UNCHANGED <<fileVars, out, part, mixed>>

-----------------------------------------------------------------------------
(* LWS_CALLBACK_HTTP_WRITEABLE.  While the library sends a file it keeps   *)
(* the writeable events to itself.                                         *)

Called(c) == booked[c] /\ phase[c] \notin {"closed", "file"}

Writeable(c) == Called(c) /\ ~pss[c].client_finished

(* "we can send more of whatever it is we were sending": leaf.jpg.         *)
SendsMore(c) ==
  /\ Writeable(c) /\ child[c] = "none"
  /\ pss[c].fop_fd # NONE /\ ~pss[c].bf

Left(c) == LeafLen - pss[c].fop_fd

(* Fault: no further callback is booked.                                   *)
LeafLaterOnce(c) ==
  /\ SendsMore(c)
  /\ \E sent \in 0 .. Left(c) :
       /\ sent < Burst + Lump
       /\ pss' = [pss EXCEPT ![c].fop_fd = @ + sent]
       /\ out' = [out EXCEPT ![c] = @ + sent]
  /\ booked' = [booked EXCEPT ![c] = FALSE]
  /\ UNCHANGED <<phase, body, child, upstream, inpart, spas, fileVars, heads, part, mixed>>

(* One callback sends lump after lump and stops with an allowance of 0, a  *)
(* choked pipe or a full burst: later, book another callback.              *)
LeafLater(c) ==
  /\ SendsMore(c)
  /\ \E sent \in 0 .. Left(c) :
       /\ sent < Burst + Lump
       /\ pss' = [pss EXCEPT ![c].fop_fd = @ + sent]
       /\ out' = [out EXCEPT ![c] = @ + sent]
  /\ booked' = [booked EXCEPT ![c] = TRUE]
  /\ UNCHANGED <<phase, body, child, upstream, inpart, spas, fileVars, heads, part, mixed>>

(* Fault: a read that does not fill the buffer is taken for the end.       *)
LeafEndShort(c) ==
  /\ SendsMore(c)
  /\ \E sent \in 0 .. Left(c) :
       /\ sent < Burst /\ Left(c) - sent < Lump
       /\ out' = [out EXCEPT ![c] = @ + sent]
  /\ TryToReuse(c, FALSE)
  /\ UNCHANGED <<fileVars, heads, part, mixed>>

(* penultimate: the read after the last lump returns 0.                    *)
LeafEnd(c) ==
  /\ SendsMore(c)
  /\ Left(c) < Burst
  /\ out' = [out EXCEPT ![c] = @ + Left(c)]
  /\ TryToReuse(c, FALSE)
  /\ UNCHANGED <<fileVars, heads, part, mixed>>

(* bail: a read or a write failed.                                         *)
LeafBail(c) ==
  /\ SendsMore(c)
  /\ Fail(c)
  /\ UNCHANGED <<fileVars, history>>

-----------------------------------------------------------------------------
(* The proxied request: callbacks on the child connection, and the parent's *)
(* LWS_CALLBACK_HTTP_WRITEABLE.                                            *)

(* LWS_CALLBACK_ESTABLISHED_CLIENT_HTTP: the head, sent on the parent; a   *)
(* failure closes the child.                                               *)
EstablishedClient(c) ==
  /\ child[c] = "connecting"
  /\ \/ /\ child' = [child EXCEPT ![c] = "open"]
        /\ SendHead(c)
        /\ UNCHANGED upstream
     \/ /\ child' = [child EXCEPT ![c] = "none"]
        /\ upstream' = [upstream EXCEPT ![c] = 0]
        /\ UNCHANGED heads
  /\ UNCHANGED <<phase, pss, body, booked, inpart, spas, fileVars, out, part, mixed>>

(* Fault: the parent is not asked to write.                                *)
ReceiveClientQuiet(c) ==
  /\ child[c] = "open" /\ ~pss[c].bf
  /\ pss' = [pss EXCEPT ![c].bf = TRUE]
  /\ UNCHANGED <<phase, libVars, fileVars, history>>

(* LWS_CALLBACK_RECEIVE_CLIENT_HTTP: content, or the mark of its end, has  *)
(* arrived; note it, and have the parent written.                          *)
ReceiveClient(c) ==
  /\ child[c] = "open" /\ ~pss[c].bf
  /\ pss' = [pss EXCEPT ![c].bf = TRUE]
  /\ booked' = [booked EXCEPT ![c] = TRUE]
  /\ UNCHANGED <<phase, body, child, upstream, inpart, spas, fileVars, history>>

(* LWS_CALLBACK_COMPLETED_CLIENT_HTTP outside a read: the parent will be   *)
(* closed when it is next written, but is not asked to.                    *)
CompletedClient(c) ==
  /\ child[c] = "open" /\ upstream[c] = 0
  /\ pss' = [pss EXCEPT ![c].client_finished = TRUE]
  /\ child' = [child EXCEPT ![c] = "none"]
  /\ UNCHANGED <<phase, body, booked, upstream, inpart, spas, fileVars, history>>

(* LWS_CALLBACK_CLOSED_CLIENT_HTTP: the child goes away unfinished.        *)
ClosedClient(c) ==
  /\ child[c] # "none"
  /\ child' = [child EXCEPT ![c] = "none"]
  /\ upstream' = [upstream EXCEPT ![c] = 0]
  /\ UNCHANGED <<phase, pss, body, booked, inpart, spas, fileVars, history>>

(* The parent is writeable and the child has content: a lump is read, and  *)
(* RECEIVE_CLIENT_HTTP_READ writes it on from inside the read.  When the   *)
(* read meets the end, COMPLETED_CLIENT_HTTP sets client_finished and the  *)
(* parent is closed; it is closed too when the read fails.                 *)
Relay(c) ==
  /\ Writeable(c) /\ child[c] # "none" /\ pss[c].bf
  /\ \E len \in 0 .. upstream[c] :
       /\ len <= Lump
       /\ out' = [out EXCEPT ![c] = @ + len]
       /\ \/ Fail(c)
          \/ /\ len > 0
             /\ upstream' = [upstream EXCEPT ![c] = @ - len]
             /\ pss' = [pss EXCEPT ![c].bf = FALSE]
             /\ booked' = [booked EXCEPT ![c] = FALSE]
             /\ UNCHANGED <<phase, body, child, inpart, spas>>
  /\ UNCHANGED <<fileVars, heads, part, mixed>>

(* client_finished was set before this callback.                           *)
CloseFinished(c) ==
  /\ Called(c) /\ pss[c].client_finished
  /\ Fail(c)
  /\ UNCHANGED <<fileVars, history>>

(* The child is gone when the parent becomes writeable: "fop_fd NULL".     *)
RelayNoChild(c) ==
  /\ Writeable(c) /\ child[c] = "none" /\ pss[c].fop_fd = NONE
  /\ TryToReuse(c, FALSE)
  /\ UNCHANGED <<fileVars, history>>

(* A child that has sent nothing new, or one that went away after it had:  *)
(* the callback breaks, and books no other.                                *)
BreakForChild(c) ==
  /\ Writeable(c)
  /\ \/ child[c] # "none" /\ ~pss[c].bf
     \/ child[c] = "none" /\ pss[c].fop_fd # NONE /\ pss[c].bf
  /\ pss' = [pss EXCEPT ![c].bf = FALSE]
  /\ booked' = [booked EXCEPT ![c] = FALSE]
  /\ UNCHANGED <<phase, body, child, upstream, inpart, spas, fileVars, history>>

-----------------------------------------------------------------------------
(* The cases of LWS_CALLBACK_HTTP_WRITEABLE.                               *)
HttpWriteable(c) ==
  \/ LeafLater(c) \/ LeafEnd(c) \/ LeafBail(c) \/ Relay(c) \/ RelayNoChild(c)
  \/ BreakForChild(c) \/ CloseFinished(c)

Next == \E c \in Conns :
  \/ Connect(c) \/ Closed(c)
  \/ \E uri \in Uris, post, content \in BOOLEAN : Request(c, uri, post, content)
  \/ FileCompletion(c)
  \/ BodyText(c) \/ BodyOpen(c) \/ BodyContent(c) \/ BodyCompletion(c)
  \/ LeafLater(c) \/ LeafEnd(c) \/ LeafBail(c)
  \/ EstablishedClient(c) \/ ReceiveClient(c) \/ CompletedClient(c)
  \/ ClosedClient(c) \/ Relay(c) \/ RelayNoChild(c) \/ BreakForChild(c)
  \/ CloseFinished(c)

(* The library serves a writeable connection, and a child that has data.   *)
(* A peer accepts something in the end: one that never does runs into the  *)
(* 5 second timeout the handler sets, and is closed.                       *)
PeerTakes(c) ==
  HttpWriteable(c) /\ (out'[c] # out[c] \/ phase'[c] # phase[c])

Fairness == \A c \in Conns :
  /\ WF_vars(ReceiveClient(c))
  /\ WF_vars(PeerTakes(c))

Spec     == Init /\ [][Next]_vars
FairSpec == Spec /\ Fairness

-----------------------------------------------------------------------------
(* Sessions, library and file keep their types; no offset of an open file  *)
(* is past its end, and no upload is counted past the limit.               *)
TypeOK ==
  /\ phase \in [Conns -> {"closed", "idle", "file", "leaf", "post", "proxy"}]
  /\ pss \in [Conns -> [fop_fd : {NONE} \cup 0 .. LeafLen,
                        bf : BOOLEAN, client_finished : BOOLEAN, spa : BOOLEAN,
                        file_length : 0 .. Limit,
                        post_fd : {NONE} \cup 0 .. Limit]]
  /\ body \in [Conns -> BOOLEAN] /\ mixed \in SUBSET Conns
  /\ booked \in [Conns -> BOOLEAN] /\ inpart \in [Conns -> BOOLEAN]
  /\ child \in [Conns -> {"none", "connecting", "open"}]
  /\ upstream \in [Conns -> 0 .. UpLen]
  /\ spas \in Nat
  /\ postfile \in Seq(Conns \cup {HOLE}) /\ sole \in SUBSET Conns
  /\ heads \in [Conns -> Nat] /\ out \in [Conns -> Nat] /\ part \in [Conns -> Nat]

(***************************************************************************)
(* A kept-alive connection that waits for its next request has sent one    *)
(* response head for the last one, never none and never two: the stray     *)
(* writeable callback that would complete a transaction early, in the      *)
(* "fop_fd NULL" branch, does not happen.  That is so as long as only form *)
(* posts have bodies.  The body of any other request, a POST to /proxytest *)
(* for one, is parsed and answered as a form's: HTTP_BODY_COMPLETION sends *)
(* a head beside the child's or the leaf's and completes the transaction,  *)
(* while the child or the booked callback goes on into the next one.       *)
(***************************************************************************)
AnsweredOnce == [][\A c \in Conns \ mixed :
  (phase[c] \notin {"closed", "idle"} /\ phase'[c] = "idle") => heads'[c] = 1]_vars

(* A leaf.jpg transaction that completes has sent as much as the content   *)
(* length said, whatever the allowances, chokes and bursts were, so the    *)
(* next response on the connection is not taken for its tail; the file is  *)
(* closed again.  As above, as long as only form posts have bodies.        *)
LeafSentWhole == [][\A c \in Conns \ mixed :
  (phase[c] = "leaf" /\ phase'[c] = "idle")
    => out'[c] = LeafLen /\ pss'[c].fop_fd = NONE]_vars

(* An upload that no other upload disturbed is on disk as it was sent:     *)
(* nothing is left of an earlier and longer one.  "if the file length is   *)
(* too big, drop it": the file never grows past the limit, even with       *)
(* several file parts in a form and several uploads writing to the same    *)
(* file at their own offsets.  Every parser is destroyed with its session, *)
(* however the post ends.                                                  *)
UploadIntact ==
  /\ \A c \in sole : postfile = [i \in 1 .. part[c] |-> c]
  /\ Len(postfile) <= Limit
  /\ spas = Cardinality({c \in Conns : pss[c].spa})

(* leaf.jpg is sent to the end, or its connection is closed: every         *)
(* callback that does not finish books another.  Beside a child that a     *)
(* proxied post has left behind it does not, and the leaf stops.           *)
LeafFinishes == \A c \in Conns :
  (phase[c] = "leaf" /\ c \notin mixed) ~> phase[c] # "leaf"

(* Content the child has received is relayed to its end or given up: the   *)
(* parent is asked to write for every piece, and nobody waits for a        *)
(* callback that does not come.  Again but for a child left behind, whose  *)
(* mark a completed transaction forgets.                                   *)
RelayMoves == \A c \in Conns :
  (child[c] = "open" /\ c \notin mixed) ~> (child[c] # "open" \/ upstream[c] = 0)
=============================================================================
