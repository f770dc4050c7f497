-------------------------- MODULE LwsStatusProofs --------------------------
(***************************************************************************)
(* UntouchedWalkExact and RestingIsInformed for any number of sessions and *)
(* of connections, that is however addresses are reused.                   *)
(*                                                                         *)
(* That a session rests on an up-to-date report is not inductive: it needs *)
(* to be known of a report that is still being sent.  IInv says it by      *)
(* place: an untouched message holds the first sessions of the list and    *)
(* walk_next is the one that follows (Sent); a touched one has noticed     *)
(* the change (Noticed); a walk at its end with no change noticed has      *)
(* nothing left (Ended); and the list holds no session twice (Distinct),   *)
(* so that a session found by its address is the right one.                *)
(***************************************************************************)
EXTENDS LwsStatus, SequenceTheorems, TLAPS

Distinct ==
  \A i, j \in 1 .. Len(live_pss_list) :
    live_pss_list[i] = live_pss_list[j] => i = j

(* The session at place i of the list, or the end of it.                   *)
At(i) == IF i > Len(live_pss_list) THEN NULL ELSE live_pss_list[i]

Sent(s) ==
  /\ Len(report[s]) <= Len(live_pss_list)
  /\ \A i \in 1 .. Len(report[s]) : report[s][i] = live_pss_list[i]
  /\ walk_next[s] = At(Len(report[s]) + 1)

OneMessage(s) == open[s] <=> walk[s] \in {"WALK_LIST", "WALK_FINAL"}
Exact(s)      == open[s] /\ ~touched[s] => Sent(s)
Noticed(s)    == open[s] /\ touched[s] => changed_partway[s]
Ended(s)      == walk[s] = "WALK_FINAL" /\ ~changed_partway[s] => walk_next[s] = NULL
Informed(s)   == walk[s] = "WALK_NONE" => last[s] = live_pss_list

Session(s) == OneMessage(s) /\ Exact(s) /\ Noticed(s) /\ Ended(s) /\ Informed(s)

IInv == TypeOK /\ Distinct /\ \A s \in Live : Session(s)

-----------------------------------------------------------------------------
(* Sessions are found where they are.                                      *)
LEMMA Found ==
  ASSUME TypeOK, Distinct, NEW i \in 1 .. Len(live_pss_list)
  PROVE  /\ Place(live_pss_list[i]) = i
         /\ live_pss_list[i] \in Live
         /\ live_pss_list[i] \in Sessions /\ live_pss_list[i] # NULL
         /\ After(live_pss_list[i]) = At(i + 1)
<1>1. DOMAIN live_pss_list = 1 .. Len(live_pss_list) /\ Len(live_pss_list) \in Nat
  BY DEF TypeOK
<1>2. Place(live_pss_list[i]) = i
  BY <1>1 DEF Place, Distinct
<1>3. live_pss_list[i] \in Live
  BY <1>1 DEF Live, Members
<1>4. live_pss_list[i] \in Sessions /\ live_pss_list[i] # NULL
  BY <1>1, NullAssumption DEF TypeOK
<1>5. After(live_pss_list[i]) = At(i + 1)
  <2>0. i \in Int /\ i <= Len(live_pss_list) /\ Len(live_pss_list) \in Int
    BY <1>1
  <2>1. After(live_pss_list[i]) =
          IF i = Len(live_pss_list) THEN NULL ELSE live_pss_list[i + 1]
    BY <1>2 DEF After
  <2>2. CASE i = Len(live_pss_list)
    BY <2>0, <2>1, <2>2 DEF At
  <2>3. CASE i < Len(live_pss_list)
    <3>1. ~(i + 1 > Len(live_pss_list)) /\ i # Len(live_pss_list)
      BY <2>0, <2>3
    <3> QED BY <2>1, <3>1 DEF At
  <2> QED BY <2>0, <2>2, <2>3
<1> QED BY <1>2, <1>3, <1>4, <1>5

(* A session of the list has a place there.                                *)
LEMMA HasPlace ==
  ASSUME TypeOK, NEW s \in Live
  PROVE  /\ s \in Sessions
         /\ Place(s) \in 1 .. Len(live_pss_list) /\ live_pss_list[Place(s)] = s
<1>1. DOMAIN live_pss_list = 1 .. Len(live_pss_list) /\ Len(live_pss_list) \in Nat
  BY DEF TypeOK
<1> QED BY <1>1 DEF Place, Live, Members, TypeOK

(* A beginning of t and the rest of it make up t.                          *)
LEMMA Rejoined ==
  ASSUME NEW S, NEW r \in Seq(S), NEW t \in Seq(S), NEW n \in Nat, n = Len(r),
         n < Len(t), \A i \in 1 .. n : r[i] = t[i]
  PROVE  r \o SubSeq(t, n + 1, Len(t)) = t
<1> DEFINE q == SubSeq(t, n + 1, Len(t))
           L == Len(t)
<1>1. L \in Nat /\ n + 1 \in Int /\ L \in Int /\ \A i \in n + 1 .. L : t[i] \in S
  OBVIOUS
<1>2. /\ q \in Seq(S)
      /\ Len(q) = IF n + 1 <= L THEN L - (n + 1) + 1 ELSE 0
      /\ \A i \in 1 .. L - (n + 1) + 1 : q[i] = t[(n + 1) + i - 1]
  BY <1>1, SubSeqProperties
<1>3. Len(q) = L - n
  BY <1>1, <1>2
<1> HIDE DEF q
<1>4. \A i \in 1 .. L - n : q[i] = t[n + i]
  <2> SUFFICES ASSUME NEW i \in 1 .. L - n PROVE q[i] = t[n + i]
    OBVIOUS
  <2>1. i \in 1 .. L - (n + 1) + 1 /\ (n + 1) + i - 1 = n + i
    BY <1>1
  <2>2. q[i] = t[(n + 1) + i - 1]
    BY <1>2, <2>1
  <2> QED BY <2>1, <2>2
<1>5. /\ r \o q \in Seq(S) /\ Len(r \o q) = n + (L - n)
      /\ \A i \in 1 .. n + (L - n) : (r \o q)[i] = IF i <= n THEN r[i] ELSE q[i - n]
  BY <1>2, <1>3, ConcatProperties
<1>6. n + (L - n) = L
  BY <1>1
<1>7. \A i \in 1 .. L : (r \o q)[i] = t[i]
  <2> SUFFICES ASSUME NEW i \in 1 .. L PROVE (r \o q)[i] = t[i]
    OBVIOUS
  <2>1. CASE i <= n
    BY <1>5, <1>6, <2>1
  <2>2. CASE i > n
    <3>1. i - n \in 1 .. L - n /\ n + (i - n) = i /\ ~(i <= n)
      BY <1>1, <2>2
    <3>2. q[i - n] = t[i]
      BY <1>4, <3>1
    <3> QED BY <1>5, <1>6, <3>1, <3>2
  <2>3. i <= n \/ i > n
    BY <1>1
  <2> QED BY <2>1, <2>2, <2>3
<1>8. Len(r \o q) = Len(t)
  BY <1>5, <1>6
<1> QED BY <1>5, <1>7, <1>8, SeqEqual DEF q

(* An untouched walk that has nothing left has sent the list.              *)
LEMMA AllSent ==
  ASSUME TypeOK, Distinct, NEW s \in Sessions, Sent(s), walk_next[s] = NULL
  PROVE  report[s] = live_pss_list
<1>1. /\ report[s] \in Seq(Sessions \cup {NULL}) /\ live_pss_list \in Seq(Sessions)
      /\ Len(report[s]) \in Nat /\ Len(live_pss_list) \in Nat
  BY DEF TypeOK
<1>2. Len(report[s]) = Len(live_pss_list)
  <2> SUFFICES ASSUME Len(report[s]) < Len(live_pss_list) PROVE FALSE
    BY <1>1 DEF Sent
  <2>1. At(Len(report[s]) + 1) # NULL
    BY <1>1, Found DEF At
  <2> QED BY <2>1 DEF Sent
<1>3. \A i \in 1 .. Len(report[s]) : report[s][i] = live_pss_list[i]
  BY DEF Sent
<1> QED BY <1>1, <1>2, <1>3

(* The list after a new session is put in front of it.                     *)
LEMMA Fronted ==
  ASSUME TypeOK, Distinct, NEW s \in Sessions, s \notin Live,
         live_pss_list' = <<s>> \o live_pss_list
  PROVE  /\ live_pss_list' \in Seq(Sessions) /\ Distinct'
         /\ Len(live_pss_list') = Len(live_pss_list) + 1
         /\ Live' = Live \cup {s}
<1> DEFINE L == Len(live_pss_list)
<1>1. /\ live_pss_list' \in Seq(Sessions) /\ Len(live_pss_list') = L + 1
      /\ L \in Nat /\ live_pss_list'[1] = s
      /\ \A i \in 2 .. L + 1 : live_pss_list'[i] = live_pss_list[i - 1]
      /\ DOMAIN live_pss_list = 1 .. L /\ DOMAIN live_pss_list' = 1 .. L + 1
  BY DEF TypeOK
<1> HIDE DEF L
<1>2. \A i \in 1 .. L : live_pss_list[i] \in Live
  BY <1>1 DEF Live, Members
<1>3. \A i, j \in 1 .. L + 1 : live_pss_list'[i] = live_pss_list'[j] => i = j
  <2> SUFFICES ASSUME NEW i \in 1 .. L + 1, NEW j \in 1 .. L + 1,
                      live_pss_list'[i] = live_pss_list'[j]
               PROVE  i = j
    OBVIOUS
  <2>1. CASE i = 1 \/ j = 1
    BY <1>1, <1>2, <2>1
  <2>2. CASE i # 1 /\ j # 1
    <3>1. i - 1 \in 1 .. L /\ j - 1 \in 1 .. L
      BY <1>1, <2>2
    <3>2. live_pss_list[i - 1] = live_pss_list[j - 1]
      BY <1>1, <2>2
    <3>3. i - 1 = j - 1
      BY <3>1, <3>2 DEF Distinct, L
    <3> QED BY <3>3
  <2> QED BY <2>1, <2>2
<1>4. Distinct'
  BY <1>1, <1>3 DEF Distinct
<1>5. Live' = Live \cup {s}
  <2>1. ASSUME NEW x \in Live' PROVE x \in Live \cup {s}
    <3>1. PICK i \in 1 .. L + 1 : x = live_pss_list'[i]
      BY <1>1 DEF Live, Members
    <3>2. CASE i = 1
      BY <1>1, <3>1, <3>2
    <3>3. CASE i # 1
      <4>1. i - 1 \in 1 .. L /\ x = live_pss_list[i - 1]
        BY <1>1, <3>1, <3>3
      <4> QED BY <1>2, <4>1
    <3> QED BY <3>2, <3>3
  <2>2. ASSUME NEW x \in Live \cup {s} PROVE x \in Live'
    <3>1. CASE x = s
      <4>1. 1 \in DOMAIN live_pss_list'
        BY <1>1
      <4> QED BY <1>1, <3>1, <4>1 DEF Live, Members
    <3>2. CASE x \in Live
      <4>1. PICK i \in 1 .. L : x = live_pss_list[i]
        BY <1>1, <3>2 DEF Live, Members
      <4>2. i + 1 \in 2 .. L + 1 /\ (i + 1) - 1 = i
        BY <1>1
      <4>3. live_pss_list'[i + 1] = x /\ i + 1 \in DOMAIN live_pss_list'
        BY <1>1, <4>1, <4>2
      <4> QED BY <4>3 DEF Live, Members
    <3> QED BY <3>1, <3>2
  <2> QED BY <2>1, <2>2
<1> QED BY <1>1, <1>4, <1>5 DEF L

(* The list after a session is unlinked from it.                           *)
LEMMA Unlinked ==
  ASSUME TypeOK, Distinct, NEW s \in Live, live_pss_list' = Unlink(s)
  PROVE  /\ live_pss_list' \in Seq(Sessions) /\ Distinct'
         /\ Len(live_pss_list') = Len(live_pss_list) - 1
         /\ Live' = Live \ {s}
<1> DEFINE L == Len(live_pss_list)
           p == Place(s)
<1>1. /\ L \in Nat /\ p \in 1 .. L /\ live_pss_list[p] = s
      /\ DOMAIN live_pss_list = 1 .. L
      /\ \A i \in 1 .. L : live_pss_list[i] \in Sessions
  BY HasPlace DEF TypeOK
<1>2. live_pss_list' =
        [i \in 1 .. L - 1 |-> IF i < p THEN live_pss_list[i] ELSE live_pss_list[i + 1]]
  BY DEF Unlink
<1> HIDE DEF L, p
<1>3. \A i \in 1 .. L - 1 : live_pss_list'[i] \in Sessions
  BY <1>1, <1>2
<1>4. /\ live_pss_list' \in Seq(Sessions) /\ Len(live_pss_list') = L - 1
      /\ DOMAIN live_pss_list' = 1 .. L - 1
  BY <1>1, <1>2, <1>3
<1> DEFINE From(i) == IF i < p THEN i ELSE i + 1
<1>5. \A i \in 1 .. L - 1 : /\ live_pss_list'[i] = live_pss_list[From(i)]
                            /\ From(i) \in 1 .. L /\ From(i) # p
  BY <1>1, <1>2
<1>6. \A i \in 1 .. L : i # p => \E j \in 1 .. L - 1 : From(j) = i
  <2> SUFFICES ASSUME NEW i \in 1 .. L, i # p
               PROVE  \E j \in 1 .. L - 1 : From(j) = i
    OBVIOUS
  <2>1. CASE i < p
    <3>1. i \in 1 .. L - 1 /\ From(i) = i
      BY <1>1, <2>1
    <3> QED BY <3>1
  <2>2. CASE i > p
    <3>1. i - 1 \in 1 .. L - 1 /\ From(i - 1) = i
      BY <1>1, <2>2
    <3> QED BY <3>1
  <2> QED BY <1>1, <2>1, <2>2
<1>7. \A i, j \in 1 .. L - 1 : From(i) = From(j) => i = j
  BY <1>1
<1>8. \A i, j \in 1 .. L : live_pss_list[i] = live_pss_list[j] => i = j
  BY DEF Distinct, L
<1> HIDE DEF From
<1>9. Distinct'
  <2>1. \A i, j \in 1 .. L - 1 : live_pss_list'[i] = live_pss_list'[j] => i = j
    BY <1>5, <1>7, <1>8
  <2> QED BY <1>4, <2>1 DEF Distinct
<1>10. Live' = Live \ {s}
  <2>1. ASSUME NEW x \in Live' PROVE x \in Live \ {s}
    <3>1. PICK i \in 1 .. L - 1 : x = live_pss_list'[i]
      BY <1>4 DEF Live, Members
    <3>2. x = live_pss_list[From(i)] /\ From(i) \in 1 .. L /\ From(i) # p
      BY <1>5, <3>1
    <3>3. x # s
      BY <1>1, <1>8, <3>2
    <3> QED BY <1>1, <3>2, <3>3 DEF Live, Members
  <2>2. ASSUME NEW x \in Live \ {s} PROVE x \in Live'
    <3>1. PICK i \in 1 .. L : x = live_pss_list[i]
      BY <1>1 DEF Live, Members
    <3>2. PICK j \in 1 .. L - 1 : From(j) = i
      BY <1>1, <1>6, <3>1
    <3>3. x = live_pss_list'[j]
      BY <1>5, <3>1, <3>2
    <3> QED BY <1>4, <3>3 DEF Live, Members
  <2> QED BY <2>1, <2>2
<1> QED BY <1>4, <1>9, <1>10 DEF L

-----------------------------------------------------------------------------
(* The list begins empty.                                                  *)
LEMMA InitInv == Init => IInv
<1> SUFFICES ASSUME Init PROVE IInv
  OBVIOUS
<1>1. Len(live_pss_list) = 0 /\ live_pss_list \in Seq(Sessions)
  BY DEF Init
<1>2. Live = {} /\ Distinct
  BY <1>1 DEF Live, Members, Distinct, Init
<1>3. <<>> \in Seq(Sessions \cup {NULL})
  OBVIOUS
<1>4. count_live_pss \in Len(live_pss_list) .. MaxConns
  BY <1>1, ConnsAssumption DEF Init
<1>5. TypeOK
  BY <1>1, <1>3, <1>4 DEF Init, TypeOK
<1> QED BY <1>2, <1>5 DEF IInv

(***************************************************************************)
(* trigger_resend() on the list without the session that has just been     *)
(* created or closed: whoever rests starts to walk, and whoever walks      *)
(* notices.                                                                *)
(***************************************************************************)
LEMMA ResendInv ==
  ASSUME IInv, NEW s \in Sessions,
         live_pss_list' \in Seq(Sessions), Distinct',
         Live' \subseteq Live \cup {s},
         count_live_pss' \in Len(live_pss_list') .. MaxConns,
         trigger_resend(live_pss_list', s), ForgetSent(s)
  PROVE  IInv'
<1> USE DEF IInv
<1>1. Live' = Members(live_pss_list') /\ Live' \subseteq Sessions
  <2>1. Members(live_pss_list') \subseteq Sessions
    BY DEF Members
  <2> QED BY <2>1 DEF Live, Members
<1>2. \A x \in Live' \ {s} :
        /\ x \in Live /\ open'[x] = open[x] /\ touched'[x] = TRUE
        /\ walk[x] = "WALK_NONE" => walk'[x] = "WALK_INITIAL"
        /\ walk[x] # "WALK_NONE" => walk'[x] = walk[x] /\ changed_partway'[x]
  BY <1>1 DEF trigger_resend, ForgetSent, Resting, TypeOK
<1>3. s \in Live' => open'[s] = FALSE /\ walk'[s] = "WALK_INITIAL"
  BY <1>1 DEF trigger_resend, ForgetSent, Resting, TypeOK
<1>4. \A x \in Live' \ {s} : Session(x)'
  <2> SUFFICES ASSUME NEW x \in Live' \ {s} PROVE Session(x)'
    OBVIOUS
  <2>1. x \in Live /\ OneMessage(x) /\ x \in Sessions
    BY <1>1, <1>2 DEF Session
  <2>2. CASE walk[x] = "WALK_NONE"
    <3>1. ~open[x]
      BY <2>1, <2>2 DEF OneMessage
    <3> QED
      BY <1>2, <2>2, <3>1 DEF Session, OneMessage, Exact, Noticed, Ended, Informed
  <2>3. CASE walk[x] # "WALK_NONE"
    BY <1>2, <2>1, <2>3 DEF Session, OneMessage, Exact, Noticed, Ended, Informed
  <2> QED BY <2>2, <2>3
<1>5. s \in Live' => Session(s)'
  BY <1>3 DEF Session, OneMessage, Exact, Noticed, Ended, Informed
<1>6. TypeOK'
  <2>1. First(live_pss_list') \in Sessions \cup {NULL}
    BY DEF First
  <2>2. <<>> \in Seq(Sessions \cup {NULL})
    OBVIOUS
  <2>3. walk_next' \in [Sessions -> Sessions \cup {NULL}]
    BY <2>1 DEF trigger_resend, TypeOK
  <2>4. walk' \in [Sessions -> {"WALK_NONE", "WALK_INITIAL", "WALK_LIST", "WALK_FINAL"}]
    BY DEF trigger_resend, TypeOK
  <2>5. /\ subsequent' \in [Sessions -> BOOLEAN]
        /\ changed_partway' \in [Sessions -> BOOLEAN]
        /\ want' \in [Sessions -> BOOLEAN] /\ touched' \in [Sessions -> BOOLEAN]
    <3>1. subsequent' \in [Sessions -> BOOLEAN]
      BY DEF trigger_resend, TypeOK
    <3>2. changed_partway' \in [Sessions -> BOOLEAN]
      BY DEF trigger_resend, TypeOK
    <3>3. want' \in [Sessions -> BOOLEAN]
      BY DEF trigger_resend
    <3>4. touched' \in [Sessions -> BOOLEAN]
      BY DEF trigger_resend
    <3> QED BY <3>1, <3>2, <3>3, <3>4
  <2>6. /\ open' \in [Sessions -> BOOLEAN]
        /\ report' \in [Sessions -> Seq(Sessions \cup {NULL})]
        /\ last' \in [Sessions -> Seq(Sessions \cup {NULL})]
    BY <2>2 DEF ForgetSent, TypeOK
  <2> QED BY <2>3, <2>4, <2>5, <2>6 DEF TypeOK
<1> QED BY <1>4, <1>5, <1>6

(* A connection is made.                                                   *)
LEMMA EstablishedInv ==
  ASSUME IInv, NEW s \in Sessions, Established(s)
  PROVE  IInv'
<1>1. /\ live_pss_list' \in Seq(Sessions) /\ Distinct'
      /\ Len(live_pss_list') = Len(live_pss_list) + 1
      /\ Live' = Live \cup {s}
  BY Fronted DEF IInv, Established
<1>2. count_live_pss' \in Len(live_pss_list') .. MaxConns
  BY <1>1, ConnsAssumption DEF IInv, TypeOK, Established
<1> QED BY <1>1, <1>2, ResendInv DEF Established

(* A connection is closed.                                                 *)
LEMMA ClosedInv ==
  ASSUME IInv, NEW s \in Sessions, Closed(s)
  PROVE  IInv'
<1>1. /\ live_pss_list' \in Seq(Sessions) /\ Distinct'
      /\ Len(live_pss_list') = Len(live_pss_list) - 1
      /\ Live' = Live \ {s}
  BY Unlinked DEF IInv, Closed
<1>2. count_live_pss' \in Len(live_pss_list') .. MaxConns
  BY <1>1, ConnsAssumption DEF IInv, TypeOK, Closed
<1> QED BY <1>1, <1>2, ResendInv DEF Closed

-----------------------------------------------------------------------------
(***************************************************************************)
(* One fragment for s.                                                     *)
(***************************************************************************)
LEMMA WriteableInv ==
  ASSUME IInv, NEW s \in Sessions, Writeable(s)
  PROVE  IInv'
<1> USE DEF IInv
<1>1. /\ s \in Live /\ Session(s) /\ want' = [want EXCEPT ![s] = walk'[s] # "WALK_NONE"]
      /\ live_pss_list' = live_pss_list /\ count_live_pss' = count_live_pss
      /\ Live' = Live /\ Distinct'
  BY DEF Writeable, WantMore, Live, Distinct
<1>2. \A i \in Nat : At(i)' = At(i)
  BY <1>1 DEF At
<1>3. want' \in [Sessions -> BOOLEAN]
  BY <1>1 DEF TypeOK
<1>4. SUFFICES TypeOK' /\ Session(s)' /\ \A x \in Live \ {s} : Session(x)'
  BY <1>1
<1>5. ASSUME \A x \in Sessions \ {s} :
               /\ walk'[x] = walk[x] /\ walk_next'[x] = walk_next[x]
               /\ changed_partway'[x] = changed_partway[x] /\ open'[x] = open[x]
               /\ report'[x] = report[x] /\ last'[x] = last[x]
               /\ touched'[x] = touched[x]
      PROVE  \A x \in Live \ {s} : Session(x)'
  <2> SUFFICES ASSUME NEW x \in Live \ {s} PROVE Session(x)'
    OBVIOUS
  <2>1. x \in Sessions \ {s} /\ Session(x)
    BY HasPlace
  <2>2. report[x] \in Seq(Sessions \cup {NULL}) /\ Len(report[x]) \in Nat
    BY <2>1 DEF TypeOK
  <2>3. At(Len(report[x]) + 1)' = At(Len(report[x]) + 1)
    BY <1>1, <1>5, <2>1 DEF At
  <2>4. Sent(x) => Sent(x)'
    BY <1>1, <1>5, <2>1, <2>3 DEF Sent
  <2> QED
    BY <1>1, <1>5, <2>1, <2>4 DEF Session, OneMessage, Exact, Noticed, Ended, Informed
<1>6. CASE WalkInitial(s)
  <2>1. <<>> \in Seq(Sessions \cup {NULL}) /\ Len(<<>>) = 0
    OBVIOUS
  <2>2. Len(live_pss_list) \in Nat \ {0} /\ live_pss_list # <<>>
    BY <1>1, HasPlace DEF TypeOK
  <2>3. First(live_pss_list) = At(1) /\ First(live_pss_list) \in Sessions \cup {NULL}
    BY <2>2 DEF First, At, TypeOK
  <2>4. TypeOK'
    BY <1>1, <1>3, <1>6, <2>1, <2>3 DEF WalkInitial, TypeOK
  <2>5. /\ walk'[s] = "WALK_LIST" /\ open'[s] = TRUE /\ touched'[s] = FALSE
        /\ report'[s] = <<>> /\ walk_next'[s] = At(1)
    BY <1>6, <2>3 DEF WalkInitial, TypeOK
  <2>6. Sent(s)'
    <3>1. Len(report'[s]) = 0
      BY <2>1, <2>5
    <3>2. At(Len(report[s]) + 1)' = At(1)
      BY <1>1, <3>1 DEF At
    <3> QED BY <1>1, <2>2, <2>5, <3>1, <3>2 DEF Sent
  <2>7. Session(s)'
    BY <2>5, <2>6 DEF Session, OneMessage, Exact, Noticed, Ended, Informed
  <2>8. \A x \in Live \ {s} : Session(x)'
    BY <1>5, <1>6 DEF WalkInitial, TypeOK
  <2> QED BY <2>4, <2>7, <2>8
<1>7. CASE WalkEntry(s)
  <2> DEFINE x == walk_next[s]
             n == Len(report[s])
  <2>1. x \in Live /\ x \in Sessions /\ x # NULL
    BY <1>7, HasPlace, NullAssumption DEF WalkEntry
  <2>2. After(x) \in Sessions \cup {NULL}
    BY <2>1, HasPlace DEF After, TypeOK
  <2>3. /\ report[s] \in Seq(Sessions \cup {NULL}) /\ n \in Nat
        /\ Append(report[s], x) \in Seq(Sessions \cup {NULL})
        /\ Len(Append(report[s], x)) = n + 1 /\ Append(report[s], x)[n + 1] = x
        /\ \A i \in 1 .. n : Append(report[s], x)[i] = report[s][i]
    BY <2>1 DEF TypeOK
  <2>4. TypeOK'
    BY <1>1, <1>3, <1>7, <2>2, <2>3 DEF WalkEntry, TypeOK
  <2>5. /\ report'[s] = Append(report[s], x) /\ walk_next'[s] = After(x)
        /\ walk'[s] = IF After(x) = NULL THEN "WALK_FINAL" ELSE "WALK_LIST"
        /\ walk[s] = "WALK_LIST"
        /\ UNCHANGED <<changed_partway, open, last, touched>>
    BY <1>7 DEF WalkEntry, TypeOK
  <2>6. open[s]
    BY <1>1, <2>5 DEF Session, OneMessage
  <2>7. Sent(s) => Sent(s)'
    <3> SUFFICES ASSUME Sent(s) PROVE Sent(s)'
      OBVIOUS
    <3>1. Len(live_pss_list) \in Nat /\ n + 1 <= Len(live_pss_list)
          /\ x = live_pss_list[n + 1] /\ n + 1 \in 1 .. Len(live_pss_list)
      BY <2>1, <2>3 DEF Sent, At, TypeOK
    <3>2. After(x) = At(n + 2)
      <4>1. After(live_pss_list[n + 1]) = At((n + 1) + 1)
        BY <3>1, Found
      <4>2. (n + 1) + 1 = n + 2
        BY <2>3
      <4> QED BY <3>1, <4>1, <4>2
    <3>3. Len(report'[s]) = n + 1
      BY <2>3, <2>5
    <3>4. At(Len(report[s]) + 1)' = At(n + 2)
      <4>1. Len(report'[s]) + 1 = n + 2
        BY <2>3, <3>3
      <4> QED BY <1>1, <4>1 DEF At
    <3>5. \A i \in 1 .. n + 1 : report'[s][i] = live_pss_list[i]
      <4> SUFFICES ASSUME NEW i \in 1 .. n + 1 PROVE report'[s][i] = live_pss_list[i]
        OBVIOUS
      <4>1. CASE i = n + 1
        BY <2>3, <2>5, <3>1, <4>1
      <4>2. CASE i \in 1 .. n
        BY <2>3, <2>5, <4>2 DEF Sent
      <4> QED BY <2>3, <4>1, <4>2
    <3> QED BY <1>1, <2>5, <3>1, <3>2, <3>3, <3>4, <3>5 DEF Sent
  <2>8. Session(s)'
    BY <1>1, <2>5, <2>6, <2>7 DEF Session, OneMessage, Exact, Noticed, Ended, Informed
  <2>9. \A y \in Live \ {s} : Session(y)'
    BY <1>5, <1>7 DEF WalkEntry, TypeOK
  <2> QED BY <2>4, <2>8, <2>9
<1>8. CASE WalkWentAway(s)
  <2>1. Append(report[s], NULL) \in Seq(Sessions \cup {NULL})
    BY DEF TypeOK
  <2>2. TypeOK'
    BY <1>1, <1>3, <1>8, <2>1 DEF WalkWentAway, TypeOK
  <2>3. /\ walk[s] = "WALK_LIST" /\ walk_next[s] \notin Live /\ walk_next[s] # NULL
        /\ walk'[s] = "WALK_FINAL" /\ changed_partway'[s] = TRUE
        /\ UNCHANGED <<walk_next, open, last, touched>>
    BY <1>8 DEF WalkWentAway, TypeOK
  <2>4. ~Sent(s)
    <3>1. Len(report[s]) \in Nat /\ Len(live_pss_list) \in Nat
      BY DEF TypeOK
    <3>2. At(Len(report[s]) + 1) \in Live \cup {NULL}
      BY <3>1, Found DEF At
    <3> QED BY <2>3, <3>2 DEF Sent
  <2>5. Session(s)'
    BY <1>1, <2>3, <2>4 DEF Session, OneMessage, Exact, Noticed, Ended, Informed
  <2>6. \A x \in Live \ {s} : Session(x)'
    BY <1>5, <1>8 DEF WalkWentAway, TypeOK
  <2> QED BY <2>2, <2>5, <2>6
<1>9. CASE WalkFinal(s)
  <2>1. First(live_pss_list) \in Sessions \cup {NULL}
    BY <1>1, HasPlace DEF First, TypeOK
  <2>2. TypeOK'
    <3>1. CASE changed_partway[s]
      BY <1>1, <1>3, <1>9, <2>1, <3>1 DEF WalkFinal, TypeOK
    <3>2. CASE ~changed_partway[s]
      BY <1>1, <1>3, <1>9, <3>2 DEF WalkFinal, TypeOK
    <3> QED BY <3>1, <3>2
  <2>3. /\ open'[s] = FALSE /\ last'[s] = report[s]
        /\ walk'[s] = IF changed_partway[s] THEN "WALK_INITIAL" ELSE "WALK_NONE"
        /\ AtEnd(s)
    BY <1>9 DEF WalkFinal, TypeOK
  <2>4. ~changed_partway[s] => report[s] = live_pss_list
    <3> SUFFICES ASSUME ~changed_partway[s] PROVE report[s] = live_pss_list
      OBVIOUS
    <3>1. open[s] /\ walk_next[s] = NULL
      BY <1>1, <2>3 DEF Session, OneMessage, Ended, AtEnd
    <3>2. Sent(s)
      BY <1>1, <3>1 DEF Session, Exact, Noticed
    <3> QED BY <3>1, <3>2, AllSent
  <2>5. Session(s)'
    BY <1>1, <2>3, <2>4 DEF Session, OneMessage, Exact, Noticed, Ended, Informed
  <2>6. \A x \in Live \ {s} : Session(x)'
    BY <1>5, <1>9 DEF WalkFinal, TypeOK
  <2> QED BY <2>2, <2>5, <2>6
<1> QED BY <1>6, <1>7, <1>8, <1>9 DEF Writeable

-----------------------------------------------------------------------------
(* Whatever connections come and go between two fragments, IInv holds.     *)
THEOREM InvariantHolds == Spec => []IInv
<1>1. Init => IInv
  BY InitInv
<1>2. IInv /\ [Next]_vars => IInv'
  <2> SUFFICES ASSUME IInv, [Next]_vars PROVE IInv'
    OBVIOUS
  <2>1. CASE UNCHANGED vars
    BY <2>1 DEF vars, pssVars, sentVars, IInv, TypeOK, Distinct, Live, Members, Session,
           OneMessage, Exact, Noticed, Ended, Informed, Sent, At
  <2>2. CASE Next
    BY <2>2, EstablishedInv, ClosedInv, WriteableInv DEF Next
  <2> QED BY <2>1, <2>2
<1> QED BY <1>1, <1>2, PTL DEF Spec

(* The walks of the sessions keep their type, and no session is in the     *)
(* list without having been counted.                                       *)
THEOREM TypeCorrect == Spec => []TypeOK
<1>1. IInv => TypeOK
  BY DEF IInv
<1> QED BY <1>1, InvariantHolds, PTL

(* With any number of connections, the fragments of one report are one     *)
(* message, and an untouched one lists every connection once, in order.    *)
THEOREM WalksAreExact == Spec => []UntouchedWalkExact
<1>1. IInv => UntouchedWalkExact
  <2> SUFFICES ASSUME IInv PROVE UntouchedWalkExact
    OBVIOUS
  <2>1. OneMessageAtATime
    BY DEF IInv, Session, OneMessage, OneMessageAtATime
  <2>2. ASSUME NEW s \in Live, open[s], ~touched[s]
        PROVE  report[s] \o ListFrom(walk_next[s]) = live_pss_list
    <3> DEFINE n == Len(report[s])
               L == Len(live_pss_list)
    <3>1. /\ s \in Sessions /\ Sent(s)
          /\ report[s] \in Seq(Sessions \cup {NULL}) /\ live_pss_list \in Seq(Sessions)
          /\ n \in Nat /\ L \in Nat /\ n <= L
          /\ \A i \in 1 .. n : report[s][i] = live_pss_list[i]
      BY <2>2, HasPlace DEF IInv, Session, Exact, TypeOK, Sent
    <3>2. CASE walk_next[s] = NULL
      <4>1. report[s] = live_pss_list
        BY <3>1, <3>2, AllSent DEF IInv
      <4>2. live_pss_list \o <<>> = live_pss_list
        BY <3>1
      <4> QED BY <3>2, <4>1, <4>2 DEF ListFrom
    <3>3. CASE walk_next[s] # NULL
      <4>1. n + 1 <= L /\ walk_next[s] = live_pss_list[n + 1]
        BY <3>1, <3>3 DEF Sent, At
      <4>2. Place(walk_next[s]) = n + 1
        BY <3>1, <4>1, Found DEF IInv
      <4>3. ListFrom(walk_next[s]) = SubSeq(live_pss_list, n + 1, L)
        BY <3>3, <4>2 DEF ListFrom
      <4>4. live_pss_list \in Seq(Sessions \cup {NULL})
        BY <3>1
      <4>5. n < L
        BY <3>1, <4>1
      <4>6. report[s] \o SubSeq(live_pss_list, n + 1, L) = live_pss_list
        BY <3>1, <4>4, <4>5, Rejoined, Zenon
      <4> QED BY <4>3, <4>6
    <3> QED BY <3>2, <3>3
  <2> QED BY <2>1, <2>2 DEF UntouchedWalkExact
<1> QED BY <1>1, InvariantHolds, PTL

(* With any number of connections and however addresses are reused, a      *)
(* session comes to rest only when its browser has the present list.       *)
THEOREM RestersAreInformed == Spec => []RestingIsInformed
<1>1. IInv => RestingIsInformed
  BY DEF IInv, Session, Informed, RestingIsInformed
<1> QED BY <1>1, InvariantHolds, PTL
=============================================================================
