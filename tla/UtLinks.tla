------------------------------ MODULE UtLinks ------------------------------
(***************************************************************************)
(* utlist.h: the lists as memory, and the macros of the doubly linked (DL) *)
(* and circular (CDL) families that do not walk.  A macro is an operator   *)
(* from a list record to a list record; where two of its writes could hit  *)
(* the same field, the EXCEPT keeps their order.                           *)
(*                                                                         *)
(* The state machine is a caller that uses them on two lists in any order. *)
(* seqs is a history variable: the sequences the lists stand for.  UtList  *)
(* adds the macros that walk and the singly linked (LL) family.            *)
(***************************************************************************)
EXTENDS UtMemory, SequencesExt

CONSTANTS ListKeys,   \* what cmp() looks at
          MaxNodes,   \* bound on the number of elements in both lists
          MaxSecond   \* bound on the length of the second list

Kinds == {"LL", "DL", "CDL"}
Lists == {1, 2}

VARIABLES
  kind,   \* which family of macros the caller uses
  lst,    \* [head, next, prev, key]
  seqs    \* history: the list's elements in order

listVars == <<kind, lst, seqs>>

InUse == ToSet(seqs[1]) \cup ToSet(seqs[2])

(* List a is the sequence s, link by link.                                 *)
Linked(a, s) ==
  LET n == Len(s)
  IN /\ lst.head[a] = IF n = 0 THEN NULL ELSE s[1]
     /\ \A i \in 1 .. n :
          /\ lst.next[s[i]] = IF i < n THEN s[i + 1] ELSE IF kind = "CDL" THEN s[1] ELSE NULL
          /\ lst.prev[s[i]] = IF kind = "LL" THEN JUNK ELSE IF i > 1 THEN s[i - 1] ELSE s[n]

-----------------------------------------------------------------------------
(* Doubly linked lists: the head's prev is the tail.                       *)
DL_PREPEND2(m, a, x) ==
  LET h == m.head[a]
  IN IF h = NULL THEN [m EXCEPT !.next[x] = h, !.prev[x] = x, !.head[a] = x]
     ELSE [m EXCEPT !.next[x] = h, !.prev[x] = m.prev[h], !.prev[h] = x, !.head[a] = x]

DL_APPEND2(m, a, x) ==
  LET h == m.head[a]
  IN IF h = NULL THEN [m EXCEPT !.head[a] = x, !.prev[x] = x, !.next[x] = NULL]
     ELSE [m EXCEPT !.prev[x] = m.prev[h], !.next[m.prev[h]] = x,
                    !.prev[h] = x, !.next[x] = NULL]

DL_CONCAT2(m, a, b) ==
  LET h1 == m.head[a]
      h2 == m.head[b]
  IN CASE h2 = NULL -> m
       [] h2 # NULL /\ h1 = NULL -> [m EXCEPT !.head[a] = h2]
       [] OTHER -> [m EXCEPT !.prev[h2] = m.prev[h1], !.next[m.prev[h1]] = h2,
                             !.prev[h1] = m.prev[h2]]

DL_DELETE2(m, a, del) ==
  IF m.prev[del] = del THEN [m EXCEPT !.head[a] = NULL]
  ELSE IF del = m.head[a]
  THEN [m EXCEPT !.prev[m.next[del]] = m.prev[del], !.head[a] = m.next[del]]
  ELSE [m EXCEPT !.next[m.prev[del]] = m.next[del],
                 !.prev[IF m.next[del] = NULL THEN m.head[a] ELSE m.next[del]] = m.prev[del]]

DL_REPLACE_ELEM2(m, a, el, x) ==
  LET last == m.next[el] = NULL
      behind == IF last THEN m.head[a] ELSE m.next[el]   \* whose prev is el
  IN IF m.head[a] = el
     THEN [m EXCEPT !.head[a] = x, !.next[x] = m.next[el],
                    !.prev[x] = IF last THEN x ELSE m.prev[el],
                    !.prev[IF last THEN x ELSE behind] = x]
     ELSE [m EXCEPT !.next[x] = m.next[el], !.prev[x] = m.prev[el],
                    !.next[m.prev[el]] = x, !.prev[behind] = x]

DL_PREPEND_ELEM2(m, a, el, x) ==
  IF el = NULL THEN DL_APPEND2(m, a, x)
  ELSE IF m.head[a] = el
  THEN [m EXCEPT !.next[x] = el, !.prev[x] = m.prev[el], !.prev[el] = x, !.head[a] = x]
  ELSE [m EXCEPT !.next[x] = el, !.prev[x] = m.prev[el], !.prev[el] = x,
                 !.next[m.prev[el]] = x]

DL_APPEND_ELEM2(m, a, el, x) ==
  IF el = NULL THEN DL_PREPEND2(m, a, x)
  ELSE [m EXCEPT !.next[x] = m.next[el], !.prev[x] = el, !.next[el] = x,
                 !.prev[IF m.next[el] = NULL THEN m.head[a] ELSE m.next[el]] = x]

-----------------------------------------------------------------------------
(* Circular lists                                                          *)
CDL_APPEND2(m, a, x) ==
  LET h == m.head[a]
  IN IF h = NULL THEN [m EXCEPT !.prev[x] = x, !.next[x] = x, !.head[a] = x]
     ELSE [m EXCEPT !.prev[x] = m.prev[h], !.next[x] = h, !.prev[h] = x,
                    !.next[m.prev[h]] = x]

CDL_PREPEND2(m, a, x) == [CDL_APPEND2(m, a, x) EXCEPT !.head[a] = x]

CDL_DELETE2(m, a, del) ==
  IF m.head[a] = del /\ m.next[del] = del THEN [m EXCEPT !.head[a] = NULL]
  ELSE [m EXCEPT !.prev[m.next[del]] = m.prev[del], !.next[m.prev[del]] = m.next[del],
                 !.head[a] = IF @ = del THEN m.next[del] ELSE @]

CDL_REPLACE_ELEM2(m, a, el, x) ==
  IF m.next[el] = el THEN [m EXCEPT !.next[x] = x, !.prev[x] = x, !.head[a] = x]
  ELSE [m EXCEPT !.next[x] = m.next[el], !.prev[x] = m.prev[el],
                 !.prev[m.next[el]] = x, !.next[m.prev[el]] = x,
                 !.head[a] = IF @ = el THEN x ELSE @]

CDL_PREPEND_ELEM2(m, a, el, x) ==
  IF el = NULL THEN CDL_APPEND2(m, a, x)
  ELSE [m EXCEPT !.next[x] = el, !.prev[x] = m.prev[el], !.prev[el] = x,
                 !.next[m.prev[el]] = x, !.head[a] = IF @ = el THEN x ELSE @]

CDL_APPEND_ELEM2(m, a, el, x) ==
  IF el = NULL THEN CDL_PREPEND2(m, a, x)
  ELSE [m EXCEPT !.next[x] = m.next[el], !.prev[x] = el, !.next[el] = x,
                 !.prev[m.next[el]] = x]

-----------------------------------------------------------------------------
(* The caller frees an element it has taken out.                           *)
Freed(m, x) == [m EXCEPT !.next[x] = JUNK, !.prev[x] = JUNK, !.key[x] = JUNK]

ListInit ==
  /\ kind \in Kinds
  /\ lst = [head |-> [a \in Lists |-> NULL], next |-> Blank, prev |-> Blank, key |-> Blank]
  /\ seqs = [a \in Lists |-> <<>>]

(* Room for one more element in list a.                                    *)
Room(a) ==
  /\ Cardinality(InUse) < MaxNodes
  /\ a = 2 => Len(seqs[a]) < MaxSecond

(* The macro of the caller's family.                                       *)
Either(dl, cdl) == IF kind = "DL" THEN dl ELSE cdl

(* A macro's result, with x at place i of list a.                          *)
Put(m, a, i, x) ==
  /\ lst' = m
  /\ seqs' = [seqs EXCEPT ![a] = InsertAt(@, i, x)]
  /\ UNCHANGED kind

(* A fresh element x with key k goes to either end, or beside an element.  *)
LinkIn(a, x, k) ==
  LET m == [lst EXCEPT !.key[x] = k]
      s == seqs[a]
  IN /\ kind # "LL"
     /\ Room(a)
     /\ \/ Put(Either(DL_PREPEND2(m, a, x), CDL_PREPEND2(m, a, x)), a, 1, x)
        \/ Put(Either(DL_APPEND2(m, a, x), CDL_APPEND2(m, a, x)), a, Len(s) + 1, x)
        \/ \E i \in DOMAIN s :
             \/ Put(Either(DL_PREPEND_ELEM2(m, a, s[i], x), CDL_PREPEND_ELEM2(m, a, s[i], x)),
                    a, i, x)
             \/ Put(Either(DL_APPEND_ELEM2(m, a, s[i], x), CDL_APPEND_ELEM2(m, a, s[i], x)),
                    a, i + 1, x)

(* x takes the place of an element, which is freed.                        *)
Exchange(a, x, k) ==
  LET m == [lst EXCEPT !.key[x] = k]
  IN /\ kind # "LL"
     /\ \E i \in DOMAIN seqs[a] :
          LET el == seqs[a][i]
          IN /\ lst' = Freed(Either(DL_REPLACE_ELEM2(m, a, el, x),
                                    CDL_REPLACE_ELEM2(m, a, el, x)), el)
             /\ seqs' = [seqs EXCEPT ![a] = ReplaceAt(@, i, x)]
     /\ UNCHANGED kind

(* An element is taken out and freed.                                      *)
LinkOut(a) ==
  /\ kind # "LL"
  /\ \E i \in DOMAIN seqs[a] :
       LET del == seqs[a][i]
       IN /\ lst' = Freed(Either(DL_DELETE2(lst, a, del), CDL_DELETE2(lst, a, del)), del)
          /\ seqs' = [seqs EXCEPT ![a] = RemoveAt(@, i)]
  /\ UNCHANGED kind

(* There is no CDL_CONCAT.  The caller forgets the second head.            *)
Join ==
  /\ kind = "DL"
  /\ lst' = [DL_CONCAT2(lst, 1, 2) EXCEPT !.head[2] = NULL]
  /\ seqs' = [a \in Lists |-> IF a = 1 THEN seqs[1] \o seqs[2] ELSE <<>>]
  /\ UNCHANGED kind

LinksNext ==
  \/ \E a \in Lists, x \in Malloc(InUse), k \in ListKeys : LinkIn(a, x, k) \/ Exchange(a, x, k)
  \/ \E a \in Lists : LinkOut(a)
  \/ Join

LinksSpec == ListInit /\ kind # "LL" /\ [][LinksNext]_listVars

-----------------------------------------------------------------------------
(***************************************************************************)
(* The links are exactly the sequences that the operations describe:       *)
(* nothing is lost or duplicated, no element that was freed is still       *)
(* linked, and nothing was written through a bad pointer.                  *)
(***************************************************************************)
LinksFaithful ==
  /\ \A a \in Lists : Linked(a, seqs[a])
  /\ \A x \in Elem \ InUse : lst.next[x] = JUNK /\ lst.prev[x] = JUNK
  /\ NoStrayWrite(lst.next) /\ NoStrayWrite(lst.prev)
=============================================================================
