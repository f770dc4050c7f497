-------------------------- MODULE HttpServerProofs --------------------------
(***************************************************************************)
(* AnsweredOnce, LeafSentWhole and UploadIntact for any finite number of   *)
(* connections, and for files, lumps and limits of any size.               *)
(*                                                                         *)
(* Transaction says for each phase of a connection which callbacks can     *)
(* still come and how many response heads have gone out: a callback that   *)
(* ends a transaction is booked only once the head has been sent, and a    *)
(* body comes only with a form post.  It holds on a connection on which no *)
(* other request had a body.  Upload says where the descriptor of an       *)
(* upload stands, whatever the request was: never behind the bytes the     *)
(* session has counted, and at the end of the file for the connection      *)
(* that nobody disturbed.                                                  *)
(***************************************************************************)
EXTENDS HttpServer, FiniteSetTheorems, TLAPS

SessionData ==
  [fop_fd : {NONE} \cup 0 .. LeafLen, bf : BOOLEAN, client_finished : BOOLEAN,
   spa : BOOLEAN, file_length : 0 .. Limit, post_fd : {NONE} \cup 0 .. Limit]

ChildState == {"none", "connecting", "open"}

Transaction(c) ==
  /\ body[c] => phase[c] = "post"
  /\ booked[c] => phase[c] \in {"leaf", "proxy"} /\ heads[c] = 1
  /\ child[c] # "none" => phase[c] = "proxy"
  /\ child[c] = "open" => heads[c] = 1
  /\ child[c] = "connecting" => heads[c] = 0
  /\ phase[c] = "post" => heads[c] = 0
  /\ phase[c] \in {"file", "leaf"} => heads[c] = 1
  /\ pss[c].fop_fd = IF phase[c] = "leaf" THEN out[c] ELSE NONE

Shape(c) ==
  /\ c \in mixed \/ Transaction(c)
  /\ phase[c] \in {"closed", "idle"} => ~body[c]
  /\ phase[c] = "closed" => ~booked[c] /\ child[c] = "none" /\ pss[c].fop_fd = NONE
  /\ inpart[c] => body[c] /\ pss[c].spa
  /\ ~inpart[c] => pss[c].post_fd = NONE
  /\ pss[c].post_fd <= pss[c].file_length

Upload(c) ==
  c \in sole =>
    /\ postfile = [i \in 1 .. part[c] |-> c]
    /\ inpart[c] => pss[c].post_fd = part[c]

Parsers == {c \in Conns : pss[c].spa}

IInv ==
  /\ TypeOK
  /\ \A c \in Conns : Shape(c) /\ Upload(c)
  /\ Len(postfile) <= Limit
  /\ spas = Cardinality(Parsers)

(* Only the connection c takes part in the step.                           *)
Others(c) ==
  \A d \in Conns \ {c} :
    /\ phase'[d] = phase[d] /\ pss'[d] = pss[d] /\ body'[d] = body[d]
    /\ booked'[d] = booked[d] /\ child'[d] = child[d] /\ inpart'[d] = inpart[d]
    /\ heads'[d] = heads[d] /\ out'[d] = out[d] /\ part'[d] = part[d]
    /\ d \in mixed' <=> d \in mixed

(* Only the counts of c change, and they stay counts.                      *)
Counted(c) ==
  /\ heads' \in [Conns -> Nat] /\ out' \in [Conns -> Nat]
  /\ \A d \in Conns \ {c} : heads'[d] = heads[d] /\ out'[d] = out[d]

(* What a step of c does to c, as the two action properties demand it.     *)
Answer(c) ==
  (c \notin mixed /\ phase[c] \notin {"closed", "idle"} /\ phase'[c] = "idle")
    => heads'[c] = 1

Whole(c) ==
  (c \notin mixed /\ phase[c] = "leaf" /\ phase'[c] = "idle")
    => out'[c] = LeafLen /\ pss'[c].fop_fd = NONE

Good(c) == Others(c) /\ Answer(c) /\ Whole(c)

-----------------------------------------------------------------------------
(* A step of c leaves the other connections as they should be, if it       *)
(* leaves the upload file alone or takes it over.                          *)
LEMMA OthersInv ==
  ASSUME IInv, NEW c \in Conns, Others(c),
         \/ postfile' = postfile /\ sole' \subseteq sole
         \/ sole' \subseteq {c}
  PROVE  \A d \in Conns \ {c} : Shape(d)' /\ Upload(d)'
<1> SUFFICES ASSUME NEW d \in Conns \ {c} PROVE Shape(d)' /\ Upload(d)'
  OBVIOUS
<1>1. Shape(d)'
  BY DEF IInv, Others, Shape, Transaction
<1>2. Upload(d)'
  BY DEF IInv, Others, Upload
<1> QED BY <1>1, <1>2

(* The session data, when a step gives c the session r.                    *)
LEMMA SessionReplaced ==
  ASSUME IInv, NEW c \in Conns, NEW r \in SessionData, pss' = [pss EXCEPT ![c] = r]
  PROVE  /\ pss' \in [Conns -> SessionData] /\ pss'[c] = r
         /\ \A d \in Conns \ {c} : pss'[d] = pss[d]
<1>1. pss \in [Conns -> SessionData]
  BY DEF IInv, TypeOK, SessionData
<1> QED BY <1>1

(* The number of parsers, when a step gives c the session r.               *)
LEMMA ParsersCounted ==
  ASSUME IInv, NEW c \in Conns, Others(c), pss'[c].spa \in BOOLEAN,
         spas' = IF pss'[c].spa
                 THEN IF pss[c].spa THEN spas ELSE spas + 1
                 ELSE IF pss[c].spa THEN spas - 1 ELSE spas
  PROVE  spas' = Cardinality(Parsers') /\ spas' \in Nat
<1>1. IsFiniteSet(Parsers) /\ spas = Cardinality(Parsers) /\ spas \in Nat
  <2>1. Parsers \subseteq Conns
    BY DEF Parsers
  <2> QED BY <2>1, FS_Subset, HttpAssumption DEF IInv, TypeOK
<1>2. CASE pss'[c].spa /\ ~pss[c].spa
  <2>1. Parsers' = Parsers \cup {c} /\ c \notin Parsers
    BY <1>2 DEF Parsers, Others
  <2>2. Cardinality(Parsers') = Cardinality(Parsers) + 1
    BY <1>1, <2>1, FS_AddElement
  <2> QED BY <1>1, <1>2, <2>2
<1>3. CASE ~pss'[c].spa /\ pss[c].spa
  <2>1. Parsers' = Parsers \ {c} /\ c \in Parsers
    BY <1>3 DEF Parsers, Others
  <2>2. Cardinality(Parsers') = Cardinality(Parsers) - 1 /\ IsFiniteSet(Parsers')
    BY <1>1, <2>1, FS_RemoveElement
  <2>3. Cardinality(Parsers') \in Nat
    BY <2>2, FS_CardinalityType
  <2> QED BY <1>1, <1>3, <2>2, <2>3
<1>4. CASE pss'[c].spa <=> pss[c].spa
  <2>1. Parsers' = Parsers
    BY <1>4 DEF Parsers, Others
  <2>2. spas' = spas
    BY <1>4
  <2> QED BY <1>1, <2>1, <2>2
<1> QED BY <1>2, <1>3, <1>4

(* The end of a session, however it comes about.                           *)
LEMMA EndSessionInv ==
  ASSUME IInv, NEW c \in Conns, NEW p \in {"closed", "idle"}, EndSession(c, p),
         NEW b \in BOOLEAN, booked' = [booked EXCEPT ![c] = b],
         NEW k \in ChildState, child' = [child EXCEPT ![c] = k],
         upstream' \in [Conns -> 0 .. UpLen],
         UNCHANGED <<fileVars, part, mixed>>, Counted(c),
         p = "closed" => ~b /\ k = "none",
         p = "idle" => \/ c \in mixed
                       \/ /\ ~b /\ k = "none"
                          /\ phase[c] = "idle" \/ heads'[c] = 1
                          /\ phase[c] = "leaf" => out'[c] = LeafLen
  PROVE  IInv' /\ Good(c)
<1>1. /\ phase'[c] = p /\ pss'[c] = FreshSession /\ booked'[c] = b /\ child'[c] = k
      /\ body'[c] = FALSE /\ inpart'[c] = FALSE
      /\ postfile' = postfile /\ sole' = sole /\ part' = part /\ mixed' = mixed
  BY DEF EndSession, IInv, TypeOK, fileVars
<1>2. Others(c)
  BY <1>1 DEF EndSession, IInv, TypeOK, Others, Counted
<1>3. pss' \in [Conns -> SessionData]
  BY HttpAssumption DEF EndSession, IInv, TypeOK, SessionData, FreshSession
<1>4. pss'[c].spa = FALSE /\ pss'[c].fop_fd = NONE
  BY <1>1 DEF FreshSession
<1>5. spas' = Cardinality(Parsers') /\ spas' \in Nat
  <2>1. pss'[c].spa \in BOOLEAN /\ ~pss'[c].spa
    BY <1>4
  <2> QED BY <1>2, <2>1, ParsersCounted DEF EndSession, DropProtocol
<1>6. TypeOK'
  <2>1. /\ phase' \in [Conns -> {"closed", "idle", "file", "leaf", "post", "proxy"}]
        /\ child' \in [Conns -> {"none", "connecting", "open"}]
    BY DEF EndSession, IInv, TypeOK, ChildState
  <2>2. /\ booked' \in [Conns -> BOOLEAN] /\ inpart' \in [Conns -> BOOLEAN]
        /\ body' \in [Conns -> BOOLEAN]
    BY DEF EndSession, IInv, TypeOK
  <2> QED BY <1>1, <1>3, <1>5, <2>1, <2>2 DEF IInv, TypeOK, SessionData, Counted
<1>7. Shape(c)' /\ Upload(c)'
  BY <1>1, HttpAssumption DEF Shape, Transaction, Upload, FreshSession, NONE, IInv
<1>8. \A d \in Conns \ {c} : Shape(d)' /\ Upload(d)'
  BY <1>1, <1>2, OthersInv
<1>9. Good(c)
  BY <1>1, <1>2, <1>4 DEF Good, Answer, Whole
<1> QED BY <1>1, <1>2, <1>4, <1>5, <1>6, <1>7, <1>8, <1>9 DEF IInv

(* The connection is closed.                                               *)
LEMMA FailInv ==
  ASSUME IInv, NEW c \in Conns, Fail(c), UNCHANGED <<fileVars, part, mixed>>, Counted(c)
  PROVE  IInv' /\ Good(c)
<1>1. upstream' \in [Conns -> 0 .. UpLen]
  <2>1. 0 \in 0 .. UpLen
    BY HttpAssumption
  <2> QED BY <2>1 DEF Fail, IInv, TypeOK
<1> QED BY <1>1, EndSessionInv DEF Fail, ChildState

(* A transaction completes: on a connection without unasked bodies, with   *)
(* nothing left behind and one head sent.                                  *)
LEMMA ReuseInv ==
  ASSUME IInv, NEW c \in Conns, NEW still \in BOOLEAN, TryToReuse(c, still),
         UNCHANGED <<fileVars, part, mixed>>, Counted(c),
         \/ c \in mixed
         \/ /\ ~still /\ child[c] = "none"
            /\ phase[c] = "idle" \/ heads'[c] = 1
            /\ phase[c] = "leaf" => out'[c] = LeafLen
  PROVE  IInv' /\ Good(c)
<1>1. CASE Fail(c)
  BY <1>1, FailInv
<1>2. CASE /\ EndSession(c, "idle") /\ booked' = [booked EXCEPT ![c] = still]
           /\ UNCHANGED <<child, upstream>>
  <2>1. /\ child' = [child EXCEPT ![c] = child[c]] /\ child[c] \in ChildState
        /\ upstream' \in [Conns -> 0 .. UpLen]
    BY <1>2 DEF IInv, TypeOK, ChildState
  <2> QED BY <1>2, <2>1, EndSessionInv
<1> QED BY <1>1, <1>2 DEF TryToReuse

(* A step of c that neither creates nor destroys its parser.               *)
LEMMA StepInv ==
  ASSUME IInv, NEW c \in Conns, Others(c), TypeOK', Shape(c)', Upload(c)',
         UNCHANGED fileVars, spas' = spas, pss'[c].spa = pss[c].spa
  PROVE  IInv'
<1>1. \A d \in Conns \ {c} : Shape(d)' /\ Upload(d)'
  BY OthersInv DEF fileVars
<1>2. Parsers' = Parsers
  BY DEF Parsers, Others
<1> QED BY <1>1, <1>2 DEF IInv, fileVars

-----------------------------------------------------------------------------
(* The server begins without connections.                                  *)
LEMMA InitInv == Init => IInv
<1> SUFFICES ASSUME Init PROVE IInv
  OBVIOUS
<1>1. FreshSession \in SessionData
  BY HttpAssumption DEF FreshSession, SessionData
<1>2. <<>> \in Seq(Conns \cup {HOLE}) /\ Len(<<>>) = 0 /\ 0 \in 0 .. UpLen
  BY HttpAssumption
<1>3. TypeOK
  BY <1>1, <1>2 DEF Init, TypeOK, SessionData
<1>4. \A c \in Conns : Shape(c) /\ Upload(c)
  BY DEF Init, Shape, Transaction, Upload, FreshSession, NONE
<1>5. Parsers = {}
  BY DEF Init, Parsers, FreshSession
<1>6. spas = Cardinality(Parsers)
  BY <1>5, FS_EmptySet DEF Init
<1>7. Len(postfile) <= Limit
  BY <1>2, HttpAssumption DEF Init
<1> QED BY <1>3, <1>4, <1>6, <1>7 DEF IInv

(* A connection is accepted: nothing is left of the one before.            *)
LEMMA ConnectInv ==
  ASSUME IInv, NEW c \in Conns, Connect(c)
  PROVE  IInv' /\ Good(c)
<1>1. Others(c) /\ TypeOK'
  BY DEF Connect, IInv, TypeOK, Others, libVars, fileVars
<1>2. Shape(c)' /\ Upload(c)'
  BY DEF Connect, IInv, TypeOK, Shape, Transaction, Upload, libVars, fileVars
<1>3. IInv'
  BY <1>1, <1>2, StepInv DEF Connect, libVars
<1> QED BY <1>1, <1>3 DEF Connect, Good, Answer, Whole

(* The peer goes away.                                                     *)
LEMMA ClosedInv ==
  ASSUME IInv, NEW c \in Conns, Closed(c)
  PROVE  IInv' /\ Good(c)
<1>1. heads' = heads /\ out' = out /\ UNCHANGED <<fileVars, part, mixed>>
  BY DEF Closed, history
<1>2. Counted(c)
  BY <1>1 DEF Counted, IInv, TypeOK
<1> QED BY <1>1, <1>2, FailInv DEF Closed

(* A request whose handler goes on, up to its phase.                       *)
LEMMA RequestStepInv ==
  ASSUME IInv, NEW c \in Conns, phase[c] = "idle",
         NEW p \in {"file", "leaf", "post", "proxy"}, phase' = [phase EXCEPT ![c] = p],
         NEW r \in SessionData, pss' = [pss EXCEPT ![c] = r],
         r.spa = pss[c].spa, r.post_fd = pss[c].post_fd,
         r.file_length = pss[c].file_length,
         body' \in [Conns -> BOOLEAN], booked' \in [Conns -> BOOLEAN],
         child' \in [Conns -> ChildState], upstream' \in [Conns -> 0 .. UpLen],
         mixed' \in SUBSET Conns, Counted(c),
         \A d \in Conns \ {c} : /\ body'[d] = body[d] /\ booked'[d] = booked[d]
                                /\ child'[d] = child[d]
                                /\ d \in mixed' <=> d \in mixed,
         UNCHANGED <<inpart, spas, fileVars, part>>,
         c \in mixed' \/ Transaction(c)'
  PROVE  IInv' /\ Good(c)
<1>1. /\ pss' \in [Conns -> SessionData] /\ pss'[c] = r
      /\ \A d \in Conns \ {c} : pss'[d] = pss[d]
  BY SessionReplaced
<1>2. /\ phase'[c] = p /\ \A d \in Conns \ {c} : phase'[d] = phase[d]
      /\ phase' \in [Conns -> {"closed", "idle", "file", "leaf", "post", "proxy"}]
  BY DEF IInv, TypeOK
<1>3. Others(c)
  BY <1>1, <1>2 DEF Others, Counted
<1>4. TypeOK'
  BY <1>1, <1>2 DEF IInv, TypeOK, SessionData, fileVars, Counted, ChildState
<1>5. ~inpart[c] /\ Shape(c) /\ Upload(c)
  BY DEF IInv, Shape
<1>6. Shape(c)' /\ Upload(c)'
  BY <1>1, <1>2, <1>5 DEF Shape, Upload, fileVars
<1>7. IInv'
  BY <1>1, <1>3, <1>4, <1>6, StepInv
<1> QED BY <1>2, <1>3, <1>7 DEF Good, Answer, Whole

(* LWS_CALLBACK_HTTP.                                                      *)
LEMMA RequestInv ==
  ASSUME IInv, NEW c \in Conns, NEW uri \in Uris, NEW post \in BOOLEAN,
         NEW content \in BOOLEAN, Request(c, uri, post, content)
  PROVE  IInv' /\ Good(c)
<1>1. /\ phase[c] = "idle" /\ out' = [out EXCEPT ![c] = 0] /\ UNCHANGED fileVars
      /\ part' = part
  BY DEF Request, NewRequest
<1>2. /\ Shape(c) /\ ~body[c] /\ ~inpart[c] /\ pss[c] \in SessionData
      /\ pss = [pss EXCEPT ![c] = pss[c]]
      /\ c \in mixed \/ (~booked[c] /\ child[c] = "none" /\ pss[c].fop_fd = NONE)
  BY <1>1 DEF IInv, Shape, Transaction, TypeOK, SessionData
<1>3. out' \in [Conns -> Nat] /\ out'[c] = 0 /\ \A d \in Conns \ {c} : out'[d] = out[d]
  BY <1>1 DEF IInv, TypeOK
<1>4. ASSUME NEW n \in Nat, heads' = [heads EXCEPT ![c] = n]
      PROVE  Counted(c) /\ heads'[c] = n
  BY <1>3, <1>4 DEF IInv, TypeOK, Counted
<1>5. ASSUME NEW n \in Nat, heads' = [heads EXCEPT ![c] = n], Fail(c), mixed' = mixed
      PROVE  IInv' /\ Good(c)
  BY <1>1, <1>4, <1>5, FailInv
<1>6. ASSUME Unasked(c, content)
      PROVE  /\ body' \in [Conns -> BOOLEAN] /\ body'[c] = content
             /\ mixed' \in SUBSET Conns /\ (content => c \in mixed')
             /\ mixed \subseteq mixed'
             /\ \A d \in Conns \ {c} : /\ body'[d] = body[d]
                                       /\ d \in mixed' <=> d \in mixed
  BY <1>6 DEF Unasked, IInv, TypeOK
<1>7. CASE Refuse(c, uri)
  <2>1. heads' = [heads EXCEPT ![c] = 1] /\ TryToReuse(c, booked[c]) /\ mixed' = mixed
    BY <1>7 DEF Refuse
  <2>2. Counted(c) /\ booked[c] \in BOOLEAN
    BY <1>4, <2>1 DEF IInv, TypeOK
  <2> QED BY <1>1, <1>2, <2>1, <2>2, ReuseInv
<1>8. CASE StartProxy(c, uri, content)
  <2>1. /\ heads' = [heads EXCEPT ![c] = 0] /\ Unasked(c, content)
        /\ phase' = [phase EXCEPT ![c] = "proxy"]
        /\ UNCHANGED <<booked, inpart, spas>>
    BY <1>8 DEF StartProxy
  <2> DEFINE q == [pss[c] EXCEPT !.client_finished = FALSE]
  <2>2. q \in SessionData /\ q.spa = pss[c].spa /\ q.post_fd = pss[c].post_fd
        /\ q.file_length = pss[c].file_length /\ q.fop_fd = pss[c].fop_fd
    BY <1>2 DEF SessionData
  <2>3. PICK r \in {pss[c], q} : pss' = [pss EXCEPT ![c] = r]
    BY <1>2, <1>8 DEF StartProxy
  <2> HIDE DEF q
  <2>4. /\ r \in SessionData /\ r.spa = pss[c].spa /\ r.post_fd = pss[c].post_fd
        /\ r.file_length = pss[c].file_length /\ r.fop_fd = pss[c].fop_fd
    BY <1>2, <2>2
  <2>5. UpLen \in 0 .. UpLen
    BY HttpAssumption
  <2>6. /\ child' \in [Conns -> ChildState] /\ upstream' \in [Conns -> 0 .. UpLen]
        /\ \A d \in Conns \ {c} : child'[d] = child[d]
        /\ child[c] = "none" => child'[c] \in {"none", "connecting"}
    <3>1. child \in [Conns -> ChildState] /\ upstream \in [Conns -> 0 .. UpLen]
      BY DEF IInv, TypeOK, ChildState
    <3>2. CASE UNCHANGED <<child, upstream>>
      BY <3>1, <3>2
    <3>3. CASE /\ child' = [child EXCEPT ![c] = "connecting"]
               /\ upstream' = [upstream EXCEPT ![c] = UpLen]
      BY <2>5, <3>1, <3>3 DEF ChildState
    <3> QED BY <1>8, <3>2, <3>3 DEF StartProxy
  <2>7. Counted(c) /\ heads'[c] = 0
    BY <1>4, <2>1
  <2>8. phase'[c] = "proxy" /\ pss'[c] = r
    BY <2>1, <2>3, <2>4, SessionReplaced DEF IInv, TypeOK
  <2>9. c \in mixed' \/ Transaction(c)'
    BY <1>2, <1>6, <2>1, <2>4, <2>6, <2>7, <2>8 DEF Transaction
  <2>10. booked' \in [Conns -> BOOLEAN] /\ \A d \in Conns \ {c} : booked'[d] = booked[d]
    BY <2>1 DEF IInv, TypeOK
  <2> QED BY <1>1, <1>6, <2>1, <2>3, <2>4, <2>6, <2>7, <2>9, <2>10, RequestStepInv
<1>9. CASE AcceptPost(c, uri)
  <2>1. /\ heads' = [heads EXCEPT ![c] = 0]
        /\ phase' = [phase EXCEPT ![c] = "post"]
        /\ body' = [body EXCEPT ![c] = TRUE]
        /\ UNCHANGED <<pss, booked, child, upstream, inpart, spas, mixed>>
    BY <1>9 DEF AcceptPost
  <2>2. Counted(c) /\ heads'[c] = 0
    BY <1>4, <2>1
  <2>3. /\ phase'[c] = "post" /\ body' \in [Conns -> BOOLEAN]
        /\ booked' \in [Conns -> BOOLEAN]
        /\ child' \in [Conns -> ChildState] /\ upstream' \in [Conns -> 0 .. UpLen]
        /\ mixed' \in SUBSET Conns /\ \A d \in Conns \ {c} : body'[d] = body[d]
    BY <2>1 DEF IInv, TypeOK, ChildState
  <2>4. c \in mixed' \/ Transaction(c)'
    BY <1>2, <2>1, <2>2, <2>3 DEF Transaction
  <2> QED BY <1>1, <1>2, <2>1, <2>2, <2>3, <2>4, RequestStepInv
<1>10. CASE StartLeaf(c, uri, content)
  <2>1. CASE heads' = [heads EXCEPT ![c] = 0] /\ Fail(c) /\ UNCHANGED mixed
    BY <1>5, <2>1
  <2>2. CASE /\ heads' = [heads EXCEPT ![c] = 1]
             /\ phase' = [phase EXCEPT ![c] = "leaf"]
             /\ pss' = [pss EXCEPT ![c].fop_fd = 0]
             /\ booked' = [booked EXCEPT ![c] = TRUE]
             /\ Unasked(c, content)
             /\ UNCHANGED <<child, upstream, inpart, spas>>
    <3> DEFINE r == [pss[c] EXCEPT !.fop_fd = 0]
    <3>1. 0 \in {NONE} \cup 0 .. LeafLen
      BY HttpAssumption
    <3>2. /\ r \in SessionData /\ r.spa = pss[c].spa /\ r.post_fd = pss[c].post_fd
          /\ r.file_length = pss[c].file_length /\ r.fop_fd = 0
      BY <1>2, <3>1 DEF SessionData
    <3>3. pss' = [pss EXCEPT ![c] = r]
      BY <2>2
    <3> HIDE DEF r
    <3>4. Counted(c) /\ heads'[c] = 1
      BY <1>4, <2>2
    <3>5. /\ phase'[c] = "leaf" /\ booked' \in [Conns -> BOOLEAN]
          /\ child' \in [Conns -> ChildState] /\ upstream' \in [Conns -> 0 .. UpLen]
          /\ \A d \in Conns \ {c} : booked'[d] = booked[d] /\ child'[d] = child[d]
      BY <2>2 DEF IInv, TypeOK, ChildState
    <3>6. pss'[c] = r
      BY <3>2, <3>3, SessionReplaced
    <3>7. c \in mixed' \/ Transaction(c)'
      BY <1>2, <1>3, <1>6, <2>2, <3>2, <3>4, <3>5, <3>6 DEF Transaction
    <3> QED BY <1>1, <1>6, <2>2, <3>2, <3>3, <3>4, <3>5, <3>7, RequestStepInv
  <2> QED BY <1>10, <2>1, <2>2 DEF StartLeaf
<1>11. CASE ServeFile(c, uri)
  <2>1. CASE /\ heads' = [heads EXCEPT ![c] = IF mimetype(uri) THEN 0 ELSE 1]
             /\ Fail(c) /\ UNCHANGED mixed
    BY <1>5, <2>1
  <2>2. CASE /\ heads' = [heads EXCEPT ![c] = 1]
             /\ phase' = [phase EXCEPT ![c] = "file"]
             /\ UNCHANGED <<pss, body, booked, child, upstream, inpart, spas, mixed>>
    <3>1. Counted(c) /\ heads'[c] = 1
      BY <1>4, <2>2
    <3>2. /\ phase'[c] = "file" /\ body' \in [Conns -> BOOLEAN]
          /\ booked' \in [Conns -> BOOLEAN] /\ child' \in [Conns -> ChildState]
          /\ upstream' \in [Conns -> 0 .. UpLen] /\ mixed' \in SUBSET Conns
      BY <2>2 DEF IInv, TypeOK, ChildState
    <3>3. c \in mixed' \/ Transaction(c)'
      BY <1>2, <2>2, <3>1, <3>2 DEF Transaction
    <3> QED BY <1>1, <1>2, <2>2, <3>1, <3>2, <3>3, RequestStepInv
  <2> QED BY <1>11, <2>1, <2>2 DEF ServeFile, libVars
<1> QED BY <1>7, <1>8, <1>9, <1>10, <1>11 DEF Request

(* The library has sent a file.                                            *)
LEMMA FileCompletionInv ==
  ASSUME IInv, NEW c \in Conns, FileCompletion(c)
  PROVE  IInv' /\ Good(c)
<1>1. /\ heads' = heads /\ out' = out /\ UNCHANGED <<fileVars, part, mixed>>
      /\ phase[c] = "file" /\ TryToReuse(c, booked[c])
  BY DEF FileCompletion, history
<1>2. Counted(c) /\ booked[c] \in BOOLEAN
  BY <1>1 DEF Counted, IInv, TypeOK
<1>3. c \in mixed \/ (~booked[c] /\ child[c] = "none" /\ heads'[c] = 1)
  BY <1>1 DEF IInv, Shape, Transaction
<1> QED BY <1>1, <1>2, <1>3, ReuseInv

-----------------------------------------------------------------------------
(* A piece of a body that does not end the session.                        *)
LEMMA PostStepInv ==
  ASSUME IInv, NEW c \in Conns, NEW r \in SessionData,
         pss' = [pss EXCEPT ![c] = r], r.spa, body[c],
         r.fop_fd = pss[c].fop_fd, r.post_fd <= r.file_length,
         spas' = IF pss[c].spa THEN spas ELSE spas + 1,
         inpart' \in [Conns -> BOOLEAN], ~inpart'[c] => r.post_fd = NONE,
         part' \in [Conns -> Nat],
         \A d \in Conns \ {c} : inpart'[d] = inpart[d] /\ part'[d] = part[d],
         UNCHANGED <<phase, body, booked, child, upstream, heads, out, mixed>>,
         postfile' \in Seq(Conns \cup {HOLE}), Len(postfile') <= Limit,
         sole' \in SUBSET Conns,
         \/ postfile' = postfile /\ sole' \subseteq sole
         \/ sole' \subseteq {c},
         Upload(c)'
  PROVE  IInv' /\ Good(c)
<1>1. /\ pss' \in [Conns -> SessionData] /\ pss'[c] = r
      /\ \A d \in Conns \ {c} : pss'[d] = pss[d]
  BY SessionReplaced
<1>2. Others(c)
  BY <1>1 DEF Others
<1>3. r.spa \in BOOLEAN
  BY DEF SessionData
<1>4. spas' = Cardinality(Parsers') /\ spas' \in Nat
  BY <1>1, <1>2, <1>3, ParsersCounted
<1>5. TypeOK'
  BY <1>1, <1>4 DEF IInv, TypeOK, SessionData
<1>6. Shape(c)'
  BY <1>1 DEF IInv, Shape, Transaction
<1>7. \A d \in Conns \ {c} : Shape(d)' /\ Upload(d)'
  BY <1>2, OthersInv
<1>8. Good(c)
  BY <1>2 DEF Good, Answer, Whole
<1> QED BY <1>4, <1>5, <1>6, <1>7, <1>8 DEF IInv

(* The session with a parser.                                              *)
LEMMA ParserMade ==
  ASSUME IInv, NEW c \in Conns
  PROVE  /\ WithParser(c) \in SessionData /\ WithParser(c).spa
         /\ WithParser(c).fop_fd = pss[c].fop_fd
         /\ WithParser(c).post_fd = pss[c].post_fd
         /\ WithParser(c).post_fd <= WithParser(c).file_length
         /\ WithParser(c).file_length \in 0 .. Limit
<1>1. pss[c] \in SessionData /\ Shape(c) /\ 0 \in 0 .. Limit
  BY HttpAssumption DEF IInv, TypeOK, SessionData
<1>2. CASE pss[c].spa
  BY <1>1, <1>2 DEF WithParser, SessionData, Shape
<1>3. CASE ~pss[c].spa
  <2> DEFINE r == [pss[c] EXCEPT !.spa = TRUE, !.file_length = 0]
  <2>1. /\ r \in SessionData /\ r.spa = TRUE /\ r.fop_fd = pss[c].fop_fd
        /\ r.post_fd = pss[c].post_fd /\ r.file_length = 0
    BY <1>1 DEF SessionData
  <2>2. pss[c].post_fd = NONE
    BY <1>1, <1>3 DEF Shape, IInv, TypeOK
  <2>3. WithParser(c) = r
    BY <1>3 DEF WithParser
  <2> HIDE DEF r
  <2> QED BY <1>1, <2>1, <2>2, <2>3 DEF NONE
<1> QED BY <1>2, <1>3

(* Text of a form arrives.                                                 *)
LEMMA BodyTextInv ==
  ASSUME IInv, NEW c \in Conns, BodyText(c)
  PROVE  IInv' /\ Good(c)
<1>1. /\ body[c] /\ UNCHANGED fileVars
      /\ heads' = heads /\ out' = out /\ part' = part /\ mixed' = mixed
  BY DEF BodyText, history
<1>2. CASE Fail(c)
  <2>1. Counted(c)
    BY <1>1 DEF Counted, IInv, TypeOK
  <2> QED BY <1>1, <1>2, <2>1, FailInv
<1>3. CASE /\ pss' = [pss EXCEPT ![c] = WithParser(c)]
           /\ spas' = IF pss[c].spa THEN spas ELSE spas + 1
           /\ UNCHANGED <<phase, body, booked, child, upstream, inpart>>
  <2>1. postfile' = postfile /\ sole' = sole /\ inpart' = inpart
    BY <1>1, <1>3 DEF fileVars
  <2>2. /\ WithParser(c) \in SessionData /\ WithParser(c).spa
        /\ WithParser(c).fop_fd = pss[c].fop_fd
        /\ WithParser(c).post_fd = pss[c].post_fd
        /\ WithParser(c).post_fd <= WithParser(c).file_length
    BY ParserMade
  <2>3. pss'[c] = WithParser(c) /\ Shape(c) /\ Upload(c)
    BY <1>3, <2>2, SessionReplaced DEF IInv
  <2>4. Upload(c)'
    BY <1>1, <2>1, <2>2, <2>3 DEF Upload
  <2>5. /\ postfile' \in Seq(Conns \cup {HOLE}) /\ Len(postfile') <= Limit
        /\ sole' \in SUBSET Conns /\ inpart' \in [Conns -> BOOLEAN]
        /\ part' \in [Conns -> Nat]
    BY <1>1, <2>1 DEF IInv, TypeOK
  <2>6. ~inpart'[c] => WithParser(c).post_fd = NONE
    BY <2>1, <2>2, <2>3 DEF Shape
  <2> HIDE DEF WithParser
  <2> QED BY <1>1, <1>3, <2>1, <2>2, <2>4, <2>5, <2>6, PostStepInv
<1> QED BY <1>2, <1>3 DEF BodyText

(* A file part begins: the file is emptied, or could not be opened.        *)
LEMMA BodyOpenInv ==
  ASSUME IInv, NEW c \in Conns, BodyOpen(c)
  PROVE  IInv' /\ Good(c)
<1>1. /\ body[c] /\ inpart' = [inpart EXCEPT ![c] = TRUE]
      /\ spas' = IF pss[c].spa THEN spas ELSE spas + 1
      /\ part' = [part EXCEPT ![c] = 0] /\ UfsOpen(c)
      /\ UNCHANGED <<phase, body, booked, child, upstream, heads, out, mixed>>
  BY DEF BodyOpen
<1>2. /\ inpart' \in [Conns -> BOOLEAN] /\ inpart'[c] = TRUE
      /\ part' \in [Conns -> Nat] /\ part'[c] = 0
      /\ \A d \in Conns \ {c} : inpart'[d] = inpart[d] /\ part'[d] = part[d]
  BY <1>1 DEF IInv, TypeOK
<1> DEFINE w == WithParser(c)
<1>3. /\ w \in SessionData /\ w.spa /\ w.fop_fd = pss[c].fop_fd
      /\ w.file_length \in 0 .. Limit
  BY ParserMade
<1> HIDE DEF w
<1>4. ASSUME NEW v \in {NONE, 0}
      PROVE  LET r == [w EXCEPT !.post_fd = v]
             IN /\ r \in SessionData /\ r.spa /\ r.fop_fd = pss[c].fop_fd
                /\ r.post_fd = v /\ r.post_fd <= r.file_length
  <2> DEFINE r == [w EXCEPT !.post_fd = v]
  <2>1. v \in {NONE} \cup 0 .. Limit /\ v \in Int /\ v <= 0
    BY HttpAssumption DEF NONE
  <2>2. /\ r \in SessionData /\ r.spa = w.spa /\ r.fop_fd = w.fop_fd
        /\ r.post_fd = v /\ r.file_length = w.file_length
    BY <1>3, <2>1 DEF SessionData
  <2> HIDE DEF r
  <2>3. r.post_fd <= r.file_length
    BY <1>3, <2>1, <2>2
  <2> QED BY <1>3, <2>2, <2>3 DEF r
<1>5. CASE /\ pss' = [pss EXCEPT ![c] = [w EXCEPT !.post_fd = 0]]
           /\ postfile' = << >>
           /\ sole' = {c}
  <2> DEFINE r == [w EXCEPT !.post_fd = 0]
  <2>1. r \in SessionData /\ r.spa /\ r.fop_fd = pss[c].fop_fd
        /\ r.post_fd = 0 /\ r.post_fd <= r.file_length
    BY <1>4
  <2>2. pss' = [pss EXCEPT ![c] = r]
    BY <1>5
  <2> HIDE DEF r
  <2>3. pss'[c] = r
    BY <2>1, <2>2, SessionReplaced
  <2>4. /\ postfile' \in Seq(Conns \cup {HOLE}) /\ Len(postfile') <= Limit
        /\ sole' \in SUBSET Conns /\ postfile' = [i \in 1 .. 0 |-> c]
    BY <1>5, HttpAssumption
  <2>5. Upload(c)'
    BY <1>2, <2>1, <2>3, <2>4 DEF Upload
  <2> QED BY <1>1, <1>2, <1>5, <2>1, <2>2, <2>4, <2>5, PostStepInv
<1>6. CASE /\ pss' = [pss EXCEPT ![c] = [w EXCEPT !.post_fd = NONE]]
           /\ sole' = sole \ {c}
           /\ postfile' = postfile
  <2> DEFINE r == [w EXCEPT !.post_fd = NONE]
  <2>1. r \in SessionData /\ r.spa /\ r.fop_fd = pss[c].fop_fd
        /\ r.post_fd = NONE /\ r.post_fd <= r.file_length
    BY <1>4
  <2>2. pss' = [pss EXCEPT ![c] = r]
    BY <1>6
  <2> HIDE DEF r
  <2>3. /\ postfile' \in Seq(Conns \cup {HOLE}) /\ Len(postfile') <= Limit
        /\ sole' \in SUBSET Conns /\ sole' \subseteq sole /\ c \notin sole'
    BY <1>6 DEF IInv, TypeOK
  <2>4. Upload(c)'
    BY <2>3 DEF Upload
  <2> QED BY <1>1, <1>2, <1>6, <2>1, <2>2, <2>3, <2>4, PostStepInv
<1> QED BY <1>1, <1>5, <1>6 DEF UfsOpen, w

(* What a write leaves in the file.                                        *)
LEMMA WrittenFile ==
  ASSUME IInv, NEW c \in Conns, NEW at \in Nat, NEW len \in Nat
  PROVE  /\ Written(c, at, len) \in Seq(Conns \cup {HOLE})
         /\ Len(Written(c, at, len)) =
              IF at + len > Len(postfile) THEN at + len ELSE Len(postfile)
         /\ postfile = [i \in 1 .. at |-> c] =>
              Written(c, at, len) = [i \in 1 .. at + len |-> c]
<1> DEFINE n == IF at + len > Len(postfile) THEN at + len ELSE Len(postfile)
           w == [i \in 1 .. n |-> IF i > at /\ i <= at + len THEN c
                                  ELSE IF i <= Len(postfile) THEN postfile[i] ELSE HOLE]
<1>1. /\ Len(postfile) \in Nat /\ n \in Nat
      /\ \A i \in 1 .. Len(postfile) : postfile[i] \in Conns \cup {HOLE}
  BY DEF IInv, TypeOK
<1>2. Written(c, at, len) = w
  BY DEF Written
<1>3. \A i \in 1 .. n : w[i] \in Conns \cup {HOLE}
  BY <1>1
<1>4. w \in Seq(Conns \cup {HOLE}) /\ Len(w) = n
  <2> HIDE DEF n
  <2> QED BY <1>1, <1>3
<1>5. ASSUME postfile = [i \in 1 .. at |-> c]
      PROVE  w = [i \in 1 .. at + len |-> c]
  <2>1. Len(postfile) = at /\ \A i \in 1 .. at : postfile[i] = c
    BY <1>5
  <2>2. n = at + len
    BY <1>1, <2>1
  <2>3. \A i \in 1 .. at + len : w[i] = c
    BY <1>1, <2>1, <2>2
  <2> QED BY <2>2, <2>3
<1> HIDE DEF w
<1> QED BY <1>2, <1>4, <1>5

(* A piece of an upload arrives.                                           *)
LEMMA BodyContentInv ==
  ASSUME IInv, NEW c \in Conns, BodyContent(c)
  PROVE  IInv' /\ Good(c)
<1>1. PICK len \in 0 .. Lump, final \in BOOLEAN :
        /\ UfsContent(c, len, final)
        /\ part' = [part EXCEPT ![c] = IF phase'[c] = "closed" THEN @ ELSE @ + len]
  BY DEF BodyContent
<1>2. /\ body[c] /\ inpart[c] /\ heads' = heads /\ out' = out /\ mixed' = mixed
      /\ phase[c] # "closed"
  BY DEF BodyContent, IInv, Shape
<1> DEFINE fd == pss[c].post_fd
           total == pss[c].file_length + len
<1>3. /\ len \in Nat /\ fd \in {NONE} \cup 0 .. Limit /\ pss[c] \in SessionData
      /\ pss[c].file_length \in 0 .. Limit /\ total \in Nat /\ Limit \in Nat
      /\ fd \in Int /\ fd <= pss[c].file_length /\ pss[c].spa /\ part[c] \in Nat
      /\ Shape(c) /\ Upload(c)
  BY <1>2, HttpAssumption DEF IInv, TypeOK, SessionData, Shape, NONE
<1>4. CASE len > 0 /\ total > Limit
  <2>1. Fail(c) /\ UNCHANGED fileVars
    BY <1>1, <1>4 DEF UfsContent
  <2>2. phase'[c] = "closed"
    BY <2>1 DEF Fail, EndSession, IInv, TypeOK
  <2>3. part' = part
    BY <1>1, <2>2 DEF IInv, TypeOK
  <2>4. Counted(c)
    BY <1>2 DEF Counted, IInv, TypeOK
  <2> QED BY <1>2, <2>1, <2>3, <2>4, FailInv
<1>5. CASE ~(len > 0 /\ total > Limit)
  <2>1. /\ postfile' = IF len > 0 /\ fd # NONE THEN Written(c, fd, len) ELSE postfile
        /\ sole' = IF len > 0 /\ fd # NONE THEN sole \cap {c} ELSE sole
        /\ pss' = [pss EXCEPT ![c].file_length = total,
                              ![c].post_fd = IF final \/ fd = NONE THEN NONE
                                             ELSE fd + len]
        /\ inpart' = [inpart EXCEPT ![c] = ~final]
        /\ UNCHANGED <<phase, body, booked, child, upstream, spas>>
    BY <1>1, <1>5 DEF UfsContent
  <2>2. total \in 0 .. Limit
    BY <1>3, <1>5
  <2> DEFINE v == IF final \/ fd = NONE THEN NONE ELSE fd + len
             r == [pss[c] EXCEPT !.file_length = total, !.post_fd = v]
  <2>3. v \in {NONE} \cup 0 .. Limit /\ v <= total
    <3>1. CASE final \/ fd = NONE
      BY <1>3, <3>1 DEF NONE
    <3>2. CASE ~(final \/ fd = NONE)
      <4>1. fd \in 0 .. Limit /\ fd + len <= total
        BY <1>3, <3>2
      <4> QED BY <1>3, <2>2, <3>2, <4>1
    <3> QED BY <3>1, <3>2
  <2>4. /\ r \in SessionData /\ r.spa = pss[c].spa /\ r.fop_fd = pss[c].fop_fd
        /\ r.post_fd = v /\ r.file_length = total
    BY <1>3, <2>2, <2>3 DEF SessionData
  <2>5. pss' = [pss EXCEPT ![c] = r]
    BY <1>3, <2>1 DEF IInv, TypeOK, SessionData
  <2> HIDE DEF r
  <2>6. pss'[c] = r
    BY <2>4, <2>5, SessionReplaced
  <2>7. /\ inpart' \in [Conns -> BOOLEAN] /\ inpart'[c] = ~final
        /\ \A d \in Conns \ {c} : inpart'[d] = inpart[d]
    BY <2>1 DEF IInv, TypeOK
  <2>8. /\ part' \in [Conns -> Nat] /\ part'[c] = part[c] + len
        /\ \A d \in Conns \ {c} : part'[d] = part[d]
    <3>1. part' = [part EXCEPT ![c] = part[c] + len] /\ part[c] + len \in Nat
      BY <1>1, <1>2, <1>3, <2>1
    <3> QED BY <3>1 DEF IInv, TypeOK
  <2>9. ~inpart'[c] => r.post_fd = NONE
    BY <2>4, <2>7
  <2>10. /\ postfile' \in Seq(Conns \cup {HOLE}) /\ Len(postfile') <= Limit
         /\ sole' \in SUBSET Conns
         /\ \/ postfile' = postfile /\ sole' \subseteq sole
            \/ sole' \subseteq {c}
    <3>1. CASE len > 0 /\ fd # NONE
      <4>1. fd \in Nat
        BY <1>3, <3>1
      <4>2. postfile' = Written(c, fd, len) /\ sole' = sole \cap {c}
        BY <2>1, <3>1
      <4>3. fd + len <= Limit /\ Len(postfile) <= Limit
        BY <1>3, <2>2 DEF IInv
      <4> QED BY <1>3, <4>1, <4>2, <4>3, WrittenFile DEF IInv, TypeOK
    <3>2. CASE ~(len > 0 /\ fd # NONE)
      BY <2>1, <3>2 DEF IInv, TypeOK
    <3> QED BY <3>1, <3>2
  <2>11. Upload(c)'
    <3> SUFFICES ASSUME c \in sole'
                 PROVE  /\ postfile' = [i \in 1 .. part'[c] |-> c]
                        /\ inpart'[c] => pss'[c].post_fd = part'[c]
      BY DEF Upload
    <3>1. /\ c \in sole /\ fd = part[c] /\ fd \in Nat /\ fd # NONE
          /\ postfile = [i \in 1 .. fd |-> c]
      BY <1>2, <1>3, <2>1 DEF Upload, NONE
    <3>2. postfile' = [i \in 1 .. fd + len |-> c]
      <4>1. CASE len > 0
        <5>1. postfile' = Written(c, fd, len)
          BY <2>1, <3>1, <4>1
        <5> QED BY <1>3, <3>1, <5>1, WrittenFile
      <4>2. CASE len = 0
        <5>1. postfile' = postfile /\ fd + len = fd
          BY <2>1, <3>1, <4>2
        <5> QED BY <3>1, <5>1
      <4> QED BY <1>3, <4>1, <4>2
    <3>3. inpart'[c] => pss'[c].post_fd = fd + len
      BY <2>4, <2>6, <2>7, <3>1
    <3> QED BY <2>8, <3>1, <3>2, <3>3
  <2>12. r.post_fd <= r.file_length /\ r.spa
    BY <1>3, <2>3, <2>4
  <2>13. spas' = IF pss[c].spa THEN spas ELSE spas + 1
    BY <1>3, <2>1
  <2> QED
    BY <1>2, <2>1, <2>4, <2>5, <2>7, <2>8, <2>9, <2>10, <2>11, <2>12, <2>13,
       PostStepInv
<1> QED BY <1>4, <1>5

(* The body is complete: the answer, or a failure.                         *)
LEMMA BodyCompletionInv ==
  ASSUME IInv, NEW c \in Conns, BodyCompletion(c)
  PROVE  IInv' /\ Good(c)
<1>1. body[c] /\ out' = out /\ UNCHANGED <<fileVars, part, mixed>>
  BY DEF BodyCompletion
<1>2. c \in mixed \/ (/\ phase[c] = "post" /\ heads[c] = 0 /\ ~booked[c]
                      /\ child[c] = "none")
  BY <1>1 DEF IInv, Shape, Transaction
<1>3. CASE SendHead(c) /\ TryToReuse(c, booked[c])
  <2>1. Counted(c) /\ heads'[c] = heads[c] + 1 /\ booked[c] \in BOOLEAN
    BY <1>1, <1>3 DEF SendHead, Counted, IInv, TypeOK
  <2> QED BY <1>1, <1>2, <1>3, <2>1, ReuseInv
<1>4. CASE Fail(c) /\ UNCHANGED heads
  <2>1. Counted(c)
    BY <1>1, <1>4 DEF Counted, IInv, TypeOK
  <2> QED BY <1>1, <1>4, <2>1, FailInv
<1> QED BY <1>3, <1>4 DEF BodyCompletion

-----------------------------------------------------------------------------
(* A step that keeps the phase of c and the files, and changes only fields *)
(* of its session that the uploads do not use.                             *)
LEMMA QuietStepInv ==
  ASSUME IInv, NEW c \in Conns, phase[c] # "closed", NEW r \in SessionData,
         pss' = [pss EXCEPT ![c] = r],
         r.spa = pss[c].spa, r.post_fd = pss[c].post_fd,
         r.file_length = pss[c].file_length,
         NEW b \in BOOLEAN, booked' = [booked EXCEPT ![c] = b],
         NEW k \in ChildState, child' = [child EXCEPT ![c] = k],
         upstream' \in [Conns -> 0 .. UpLen], Counted(c),
         UNCHANGED <<phase, body, inpart, spas, fileVars, part, mixed>>,
         c \in mixed \/
           (/\ r.fop_fd = IF phase[c] = "leaf" THEN out'[c] ELSE NONE
            /\ b => phase[c] \in {"leaf", "proxy"} /\ heads'[c] = 1
            /\ k # "none" => phase[c] = "proxy"
            /\ k = "open" => heads'[c] = 1
            /\ k = "connecting" => heads'[c] = 0
            /\ phase[c] # "proxy" => heads'[c] = heads[c])
  PROVE  IInv' /\ Good(c)
<1>1. /\ pss' \in [Conns -> SessionData] /\ pss'[c] = r
      /\ \A d \in Conns \ {c} : pss'[d] = pss[d]
  BY SessionReplaced
<1>2. /\ booked' \in [Conns -> BOOLEAN] /\ booked'[c] = b
      /\ child' \in [Conns -> ChildState] /\ child'[c] = k
      /\ \A d \in Conns \ {c} : booked'[d] = booked[d] /\ child'[d] = child[d]
  BY DEF IInv, TypeOK, ChildState
<1>3. Others(c)
  BY <1>1, <1>2 DEF Others, Counted
<1>4. TypeOK'
  BY <1>1, <1>2 DEF IInv, TypeOK, SessionData, fileVars, Counted, ChildState
<1>5. c \in mixed \/ Transaction(c)'
  BY <1>1, <1>2 DEF IInv, Shape, Transaction
<1>6. Shape(c)' /\ Upload(c)'
  BY <1>1, <1>5 DEF IInv, Shape, Upload, fileVars
<1>7. IInv'
  BY <1>1, <1>3, <1>4, <1>6, StepInv
<1> QED BY <1>3, <1>7 DEF Good, Answer, Whole

(* What is known when leaf.jpg is written.                                 *)
LEMMA LeafState ==
  ASSUME IInv, NEW c \in Conns, SendsMore(c)
  PROVE  /\ phase[c] # "closed" /\ child[c] = "none" /\ pss[c] \in SessionData
         /\ pss[c].fop_fd \in 0 .. LeafLen /\ LeafLen \in Nat /\ out[c] \in Nat
         /\ c \in mixed \/ (/\ phase[c] = "leaf" /\ heads[c] = 1
                            /\ pss[c].fop_fd = out[c])
BY HttpAssumption DEF IInv, Shape, Transaction, TypeOK, SessionData, SendsMore,
   Writeable, Called

(* A part of leaf.jpg goes out.                                            *)
LEMMA LeafLaterInv ==
  ASSUME IInv, NEW c \in Conns, LeafLater(c)
  PROVE  IInv' /\ Good(c)
<1>1. /\ SendsMore(c) /\ booked' = [booked EXCEPT ![c] = TRUE]
      /\ UNCHANGED <<phase, body, child, upstream, inpart, spas, fileVars, heads,
                     part, mixed>>
  BY DEF LeafLater
<1>2. /\ phase[c] # "closed" /\ child[c] = "none" /\ pss[c] \in SessionData
      /\ pss[c].fop_fd \in 0 .. LeafLen /\ LeafLen \in Nat /\ out[c] \in Nat
      /\ c \in mixed \/ (/\ phase[c] = "leaf" /\ heads[c] = 1
                         /\ pss[c].fop_fd = out[c])
  BY <1>1, LeafState
<1>3. PICK sent \in 0 .. Left(c) :
        /\ pss' = [pss EXCEPT ![c].fop_fd = @ + sent]
        /\ out' = [out EXCEPT ![c] = @ + sent]
  BY DEF LeafLater
<1> DEFINE n == pss[c].fop_fd + sent
           r == [pss[c] EXCEPT !.fop_fd = n]
<1>4. n \in {NONE} \cup 0 .. LeafLen /\ out[c] + sent \in Nat
  BY <1>2 DEF Left
<1>5. /\ r \in SessionData /\ r.spa = pss[c].spa /\ r.post_fd = pss[c].post_fd
      /\ r.file_length = pss[c].file_length /\ r.fop_fd = n
  BY <1>2, <1>4 DEF SessionData
<1>6. pss' = [pss EXCEPT ![c] = r]
  BY <1>3
<1>7. Counted(c) /\ out'[c] = out[c] + sent
  BY <1>1, <1>3, <1>4 DEF IInv, TypeOK, Counted
<1>8. /\ child' = [child EXCEPT ![c] = "none"] /\ upstream' \in [Conns -> 0 .. UpLen]
      /\ "none" \in ChildState
  BY <1>1, <1>2 DEF IInv, TypeOK, ChildState
<1>9. c \in mixed \/ (phase[c] = "leaf" /\ heads'[c] = 1 /\ r.fop_fd = out'[c])
  BY <1>1, <1>2, <1>5, <1>7
<1> HIDE DEF r, n
<1> QED BY <1>1, <1>2, <1>5, <1>6, <1>7, <1>8, <1>9, QuietStepInv

(* The rest of leaf.jpg goes out.                                          *)
LEMMA LeafEndInv ==
  ASSUME IInv, NEW c \in Conns, LeafEnd(c)
  PROVE  IInv' /\ Good(c)
<1>1. /\ SendsMore(c) /\ TryToReuse(c, FALSE) /\ out' = [out EXCEPT ![c] = @ + Left(c)]
      /\ heads' = heads /\ UNCHANGED <<fileVars, part, mixed>>
  BY DEF LeafEnd
<1>2. /\ child[c] = "none" /\ pss[c].fop_fd \in 0 .. LeafLen /\ LeafLen \in Nat
      /\ out[c] \in Nat
      /\ c \in mixed \/ (/\ phase[c] = "leaf" /\ heads[c] = 1
                         /\ pss[c].fop_fd = out[c])
  BY <1>1, LeafState
<1>3. out[c] + Left(c) \in Nat /\ (c \in mixed \/ out[c] + Left(c) = LeafLen)
  BY <1>2 DEF Left
<1>4. Counted(c) /\ out'[c] = out[c] + Left(c)
  BY <1>1, <1>3 DEF IInv, TypeOK, Counted
<1> QED BY <1>1, <1>2, <1>3, <1>4, ReuseInv

(* Reading or writing leaf.jpg fails.                                      *)
LEMMA LeafBailInv ==
  ASSUME IInv, NEW c \in Conns, LeafBail(c)
  PROVE  IInv' /\ Good(c)
<1>1. heads' = heads /\ out' = out /\ UNCHANGED <<fileVars, part, mixed>> /\ Fail(c)
  BY DEF LeafBail, history
<1>2. Counted(c)
  BY <1>1 DEF Counted, IInv, TypeOK
<1> QED BY <1>1, <1>2, FailInv

(* The callbacks of the child connection.                                  *)
LEMMA ChildInv ==
  ASSUME IInv, NEW c \in Conns,
         \/ EstablishedClient(c) \/ ReceiveClient(c) \/ CompletedClient(c)
         \/ ClosedClient(c)
  PROVE  IInv' /\ Good(c)
<1>1. /\ child[c] # "none" /\ phase[c] # "closed" /\ pss[c] \in SessionData
      /\ pss = [pss EXCEPT ![c] = pss[c]] /\ booked = [booked EXCEPT ![c] = booked[c]]
      /\ child = [child EXCEPT ![c] = child[c]] /\ booked[c] \in BOOLEAN
      /\ child[c] \in ChildState /\ heads[c] \in Nat
      /\ "none" \in ChildState /\ "open" \in ChildState
  BY DEF IInv, Shape, TypeOK, SessionData, ChildState, EstablishedClient,
         ReceiveClient, CompletedClient, ClosedClient
<1>2. c \in mixed \/ Transaction(c)
  BY DEF IInv, Shape
<1>3. /\ upstream \in [Conns -> 0 .. UpLen]
      /\ [upstream EXCEPT ![c] = 0] \in [Conns -> 0 .. UpLen]
  <2>1. 0 \in 0 .. UpLen
    BY HttpAssumption
  <2> QED BY <2>1 DEF IInv, TypeOK
<1>4. ASSUME heads' = heads, out' = out
      PROVE  Counted(c) /\ heads'[c] = heads[c]
  BY <1>4 DEF Counted, IInv, TypeOK
<1>5. CASE EstablishedClient(c)
  <2>1. /\ child[c] = "connecting" /\ out' = out
        /\ UNCHANGED <<phase, pss, body, booked, inpart, spas, fileVars, part, mixed>>
    BY <1>5 DEF EstablishedClient
  <2>2. CASE /\ child' = [child EXCEPT ![c] = "open"] /\ SendHead(c)
             /\ UNCHANGED upstream
    <3>1. Counted(c) /\ heads'[c] = heads[c] + 1
      BY <2>1, <2>2 DEF SendHead, Counted, IInv, TypeOK
    <3>2. c \in mixed \/ (/\ phase[c] = "proxy" /\ heads'[c] = 1 /\ ~booked[c]
                          /\ pss[c].fop_fd = NONE)
      BY <1>2, <2>1, <3>1 DEF Transaction
    <3> QED BY <1>1, <1>3, <2>1, <2>2, <3>1, <3>2, QuietStepInv
  <2>3. CASE /\ child' = [child EXCEPT ![c] = "none"]
             /\ upstream' = [upstream EXCEPT ![c] = 0]
             /\ UNCHANGED heads
    <3>1. Counted(c) /\ heads'[c] = heads[c]
      BY <1>4, <2>1, <2>3
    <3>2. c \in mixed \/ (phase[c] = "proxy" /\ ~booked[c] /\ pss[c].fop_fd = NONE)
      BY <1>2, <2>1 DEF Transaction
    <3> QED BY <1>1, <1>3, <2>1, <2>3, <3>1, <3>2, QuietStepInv
  <2> QED BY <1>5, <2>2, <2>3 DEF EstablishedClient
<1>6. CASE ReceiveClient(c)
  <2> DEFINE r == [pss[c] EXCEPT !.bf = TRUE]
  <2>1. /\ r \in SessionData /\ r.spa = pss[c].spa /\ r.post_fd = pss[c].post_fd
        /\ r.file_length = pss[c].file_length /\ r.fop_fd = pss[c].fop_fd
    BY <1>1 DEF SessionData
  <2>2. /\ pss' = [pss EXCEPT ![c] = r] /\ booked' = [booked EXCEPT ![c] = TRUE]
        /\ UNCHANGED <<phase, body, child, upstream, inpart, spas, fileVars, heads,
                       out, part, mixed>>
    BY <1>6 DEF ReceiveClient, history
  <2> HIDE DEF r
  <2>3. Counted(c) /\ heads'[c] = heads[c] /\ child[c] = "open"
    BY <1>4, <1>6, <2>2 DEF ReceiveClient
  <2>4. c \in mixed \/ (phase[c] = "proxy" /\ heads'[c] = 1 /\ r.fop_fd = NONE)
    BY <1>2, <2>1, <2>3 DEF Transaction
  <2> QED BY <1>1, <1>3, <2>1, <2>2, <2>3, <2>4, QuietStepInv
<1>7. CASE CompletedClient(c)
  <2> DEFINE r == [pss[c] EXCEPT !.client_finished = TRUE]
  <2>1. /\ r \in SessionData /\ r.spa = pss[c].spa /\ r.post_fd = pss[c].post_fd
        /\ r.file_length = pss[c].file_length /\ r.fop_fd = pss[c].fop_fd
    BY <1>1 DEF SessionData
  <2>2. /\ pss' = [pss EXCEPT ![c] = r] /\ child' = [child EXCEPT ![c] = "none"]
        /\ UNCHANGED <<phase, body, booked, upstream, inpart, spas, fileVars, heads,
                       out, part, mixed>>
    BY <1>7 DEF CompletedClient, history
  <2> HIDE DEF r
  <2>3. Counted(c) /\ heads'[c] = heads[c]
    BY <1>4, <2>2
  <2>4. c \in mixed \/ (/\ phase[c] = "proxy" /\ (booked[c] => heads'[c] = 1)
                        /\ r.fop_fd = NONE)
    BY <1>1, <1>2, <2>1, <2>3 DEF Transaction
  <2> QED BY <1>1, <1>3, <2>1, <2>2, <2>3, <2>4, QuietStepInv
<1>8. CASE ClosedClient(c)
  <2>1. /\ child' = [child EXCEPT ![c] = "none"]
        /\ upstream' = [upstream EXCEPT ![c] = 0]
        /\ UNCHANGED <<phase, pss, body, booked, inpart, spas, fileVars, heads, out,
                       part, mixed>>
    BY <1>8 DEF ClosedClient, history
  <2>2. Counted(c) /\ heads'[c] = heads[c]
    BY <1>4, <2>1
  <2>3. c \in mixed \/ (/\ phase[c] = "proxy" /\ (booked[c] => heads'[c] = 1)
                        /\ pss[c].fop_fd = NONE)
    BY <1>1, <1>2, <2>2 DEF Transaction
  <2> QED BY <1>1, <1>3, <2>1, <2>2, <2>3, QuietStepInv
<1> QED BY <1>5, <1>6, <1>7, <1>8

(* Content of the child is sent on, or the relay ends.                     *)
LEMMA RelayInv ==
  ASSUME IInv, NEW c \in Conns, Relay(c)
  PROVE  IInv' /\ Good(c)
<1>1. /\ booked[c] /\ phase[c] # "closed" /\ child[c] # "none"
      /\ heads' = heads /\ UNCHANGED <<fileVars, part, mixed>>
  BY DEF Relay, Writeable, Called
<1>2. /\ pss[c] \in SessionData /\ upstream[c] \in 0 .. UpLen /\ out[c] \in Nat
      /\ child[c] \in ChildState /\ Shape(c)
  BY DEF IInv, TypeOK, SessionData, ChildState
<1>3. PICK len \in 0 .. upstream[c] :
        /\ out' = [out EXCEPT ![c] = @ + len]
        /\ \/ Fail(c)
           \/ /\ len > 0
              /\ upstream' = [upstream EXCEPT ![c] = @ - len]
              /\ pss' = [pss EXCEPT ![c].bf = FALSE]
              /\ booked' = [booked EXCEPT ![c] = FALSE]
              /\ UNCHANGED <<phase, body, child, inpart, spas>>
  BY DEF Relay
<1>4. Counted(c) /\ heads'[c] = heads[c]
  <2>1. out[c] + len \in Nat
    BY <1>2
  <2> QED BY <1>1, <1>3, <2>1 DEF IInv, TypeOK, Counted
<1>5. CASE Fail(c)
  BY <1>1, <1>4, <1>5, FailInv
<1>6. CASE /\ upstream' = [upstream EXCEPT ![c] = @ - len]
           /\ pss' = [pss EXCEPT ![c].bf = FALSE]
           /\ booked' = [booked EXCEPT ![c] = FALSE]
           /\ UNCHANGED <<phase, body, child, inpart, spas>>
  <2> DEFINE r == [pss[c] EXCEPT !.bf = FALSE]
  <2>1. /\ r \in SessionData /\ r.spa = pss[c].spa /\ r.post_fd = pss[c].post_fd
        /\ r.file_length = pss[c].file_length /\ r.fop_fd = pss[c].fop_fd
    BY <1>2 DEF SessionData
  <2>2. pss' = [pss EXCEPT ![c] = r]
    BY <1>6
  <2> HIDE DEF r
  <2>3. upstream[c] - len \in 0 .. UpLen
    BY <1>2, HttpAssumption
  <2>4. upstream' \in [Conns -> 0 .. UpLen] /\ child' = [child EXCEPT ![c] = child[c]]
    BY <1>6, <2>3 DEF IInv, TypeOK
  <2>5. c \in mixed \/ (/\ phase[c] = "proxy" /\ r.fop_fd = NONE
                        /\ child[c] = "open" => heads'[c] = 1
                        /\ child[c] = "connecting" => heads'[c] = 0)
    BY <1>1, <1>2, <1>4, <2>1 DEF Shape, Transaction
  <2> QED BY <1>1, <1>2, <1>4, <1>6, <2>1, <2>2, <2>4, <2>5, QuietStepInv
<1> QED BY <1>3, <1>5, <1>6

(* The callback breaks for a child that has nothing, or is gone.           *)
LEMMA BreakForChildInv ==
  ASSUME IInv, NEW c \in Conns, BreakForChild(c)
  PROVE  IInv' /\ Good(c)
<1>1. /\ phase[c] # "closed" /\ pss' = [pss EXCEPT ![c].bf = FALSE]
      /\ booked' = [booked EXCEPT ![c] = FALSE]
      /\ UNCHANGED <<phase, body, child, upstream, inpart, spas, fileVars, heads, out,
                     part, mixed>>
  BY DEF BreakForChild, Writeable, Called, history
<1>2. /\ pss[c] \in SessionData /\ child[c] \in ChildState /\ Shape(c)
      /\ child' = [child EXCEPT ![c] = child[c]] /\ upstream' \in [Conns -> 0 .. UpLen]
  BY <1>1 DEF IInv, TypeOK, SessionData, ChildState
<1>3. Counted(c) /\ heads'[c] = heads[c] /\ out'[c] = out[c]
  BY <1>1 DEF IInv, TypeOK, Counted
<1> DEFINE r == [pss[c] EXCEPT !.bf = FALSE]
<1>4. /\ r \in SessionData /\ r.spa = pss[c].spa /\ r.post_fd = pss[c].post_fd
      /\ r.file_length = pss[c].file_length /\ r.fop_fd = pss[c].fop_fd
  BY <1>2 DEF SessionData
<1>5. pss' = [pss EXCEPT ![c] = r]
  BY <1>1
<1> HIDE DEF r
<1>6. c \in mixed \/ (/\ r.fop_fd = IF phase[c] = "leaf" THEN out'[c] ELSE NONE
                      /\ child[c] # "none" => phase[c] = "proxy"
                      /\ child[c] = "open" => heads'[c] = 1
                      /\ child[c] = "connecting" => heads'[c] = 0)
  BY <1>2, <1>3, <1>4 DEF Shape, Transaction
<1> QED BY <1>1, <1>2, <1>3, <1>4, <1>5, <1>6, QuietStepInv

(* The parent is writeable without a child, or after it has finished.      *)
LEMMA RelayOverInv ==
  ASSUME IInv, NEW c \in Conns, RelayNoChild(c) \/ CloseFinished(c)
  PROVE  IInv' /\ Good(c)
<1>1. heads' = heads /\ out' = out /\ UNCHANGED <<fileVars, part, mixed>> /\ booked[c]
  BY DEF RelayNoChild, CloseFinished, Writeable, Called, history
<1>2. Counted(c)
  BY <1>1 DEF Counted, IInv, TypeOK
<1>3. CASE RelayNoChild(c)
  <2>1. child[c] = "none" /\ pss[c].fop_fd = NONE /\ out[c] # NONE
    BY <1>3 DEF RelayNoChild, IInv, TypeOK, NONE
  <2>2. c \in mixed \/ (heads'[c] = 1 /\ phase[c] # "leaf")
    BY <1>1, <2>1 DEF IInv, Shape, Transaction
  <2> QED BY <1>1, <1>2, <1>3, <2>1, <2>2, ReuseInv DEF RelayNoChild
<1>4. CASE CloseFinished(c)
  BY <1>1, <1>2, <1>4, FailInv DEF CloseFinished
<1> QED BY <1>3, <1>4

-----------------------------------------------------------------------------
(* Every step is one of one connection, keeps the invariant and answers    *)
(* no request without a head or with two.                                  *)
LEMMA NextInv ==
  ASSUME IInv, Next
  PROVE  IInv' /\ \E c \in Conns : Good(c)
<1>1. PICK c \in Conns :
        \/ Connect(c) \/ Closed(c)
        \/ \E uri \in Uris, post, content \in BOOLEAN : Request(c, uri, post, content)
        \/ FileCompletion(c)
        \/ BodyText(c) \/ BodyOpen(c) \/ BodyContent(c) \/ BodyCompletion(c)
        \/ LeafLater(c) \/ LeafEnd(c) \/ LeafBail(c)
        \/ EstablishedClient(c) \/ ReceiveClient(c) \/ CompletedClient(c)
        \/ ClosedClient(c) \/ Relay(c) \/ RelayNoChild(c) \/ BreakForChild(c)
        \/ CloseFinished(c)
  BY DEF Next
<1>2. IInv' /\ Good(c)
  BY <1>1, ConnectInv, ClosedInv, RequestInv, FileCompletionInv, BodyTextInv,
     BodyOpenInv, BodyContentInv, BodyCompletionInv, LeafLaterInv, LeafEndInv,
     LeafBailInv, ChildInv, RelayInv, BreakForChildInv, RelayOverInv
<1> QED BY <1>2

(* The invariant holds whatever the peers request, send and break off.     *)
THEOREM InvariantHolds == Spec => []IInv
<1>1. Init => IInv
  BY InitInv
<1>2. IInv /\ [Next]_vars => IInv'
  <2> SUFFICES ASSUME IInv, [Next]_vars PROVE IInv'
    OBVIOUS
  <2>1. CASE UNCHANGED vars
    BY <2>1 DEF vars, libVars, fileVars, history, IInv, TypeOK, Shape, Transaction,
              Upload, Parsers
  <2>2. CASE Next
    BY <2>2, NextInv
  <2> QED BY <2>1, <2>2
<1> QED BY <1>1, <1>2, PTL DEF Spec

(* Sessions, offsets and counts keep their types.                          *)
THEOREM TypeCorrect == Spec => []TypeOK
<1>1. IInv => TypeOK
  BY DEF IInv
<1> QED BY <1>1, InvariantHolds, PTL

(* With any number of connections posting to the one file, the upload that *)
(* nobody disturbed is whole, the file is bounded and no parser is lost.   *)
THEOREM UploadsAreIntact == Spec => []UploadIntact
<1>1. IInv => UploadIntact
  BY DEF IInv, TypeOK, Upload, Parsers, UploadIntact
<1> QED BY <1>1, InvariantHolds, PTL

(* No kept-alive connection on which only form posts had bodies goes on to *)
(* its next request with no answer, or two, to the last, whatever came     *)
(* with or between the bodies of the other connections.                    *)
THEOREM RequestsAnsweredOnce == Spec => AnsweredOnce
<1> DEFINE Step == \A c \in Conns \ mixed :
             (phase[c] \notin {"closed", "idle"} /\ phase'[c] = "idle") => heads'[c] = 1
<1>1. IInv /\ [Next]_vars => [Step]_vars
  <2> SUFFICES ASSUME IInv, Next PROVE Step
    OBVIOUS
  <2>1. PICK c \in Conns : Good(c)
    BY NextInv
  <2> QED BY <2>1 DEF Good, Others, Answer
<1> QED BY <1>1, InvariantHolds, PTL DEF Spec, AnsweredOnce

(* For a leaf.jpg of any length, sent in any lumps, a transaction that     *)
(* completes has sent all of it; on the same connections.                  *)
THEOREM LeavesAreWhole == Spec => LeafSentWhole
<1> DEFINE Step == \A c \in Conns \ mixed :
             (phase[c] = "leaf" /\ phase'[c] = "idle")
               => out'[c] = LeafLen /\ pss'[c].fop_fd = NONE
<1>1. IInv /\ [Next]_vars => [Step]_vars
  <2> SUFFICES ASSUME IInv, Next PROVE Step
    OBVIOUS
  <2>1. PICK c \in Conns : Good(c)
    BY NextInv
  <2> QED BY <2>1 DEF Good, Others, Whole
<1> QED BY <1>1, InvariantHolds, PTL DEF Spec, LeafSentWhole
=============================================================================
