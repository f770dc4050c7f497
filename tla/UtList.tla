------------------------------- MODULE UtList -------------------------------
(***************************************************************************)
(* utlist.h: the rest of its macros.  UtLinks has the doubly linked (DL)   *)
(* and circular (CDL) macros that take a constant number of steps; here    *)
(* are the singly linked family (LL), the walks, the insertions in order,  *)
(* the sorts and the deletion while walking.  The NO_DECLTYPE builds       *)
(* replace some macros (suffix _nd).                                       *)
(*                                                                         *)
(* The state machine adds the calls of these macros to those of UtLinks.   *)
(***************************************************************************)
EXTENDS UtLinks, UtSort

-----------------------------------------------------------------------------
(* Walks.  while (tmp->next && tmp->next != stop) tmp = tmp->next          *)
RECURSIVE WalkTo(_, _, _)
WalkTo(f, x, stop) == IF f[x] \in {NULL, stop} THEN x ELSE WalkTo(f, f[x], stop)

(* The elements a FOREACH visits: until NULL, or back at the head.         *)
RECURSIVE Visit(_, _, _, _)
Visit(f, h, x, n) ==
  IF x = NULL \/ n = 0 THEN <<>>
  ELSE <<x>> \o Visit(f, h, IF f[x] = h THEN NULL ELSE f[x], n - 1)

LL_FOREACH2(m, a)  == Visit(m.next, NULL, m.head[a], 1 + Cardinality(Elem))
CDL_FOREACH2(m, a) == Visit(m.next, m.head[a], m.head[a], 1 + Cardinality(Elem))

ForEach(m, a) == IF kind = "CDL" THEN CDL_FOREACH2(m, a) ELSE LL_FOREACH2(m, a)

(* COUNT: how many elements the walk visits.                               *)
LL_COUNT2(m, a)  == Len(LL_FOREACH2(m, a))
CDL_COUNT2(m, a) == Len(CDL_FOREACH2(m, a))

(* SEARCH: the element on which the walk is left, NULL if it ends.         *)
RECURSIVE SearchOn(_, _, _, _)
SearchOn(m, h, x, k) ==
  IF x = NULL \/ m.key[x] = k THEN x
  ELSE SearchOn(m, h, IF m.next[x] = h THEN NULL ELSE m.next[x], k)

LL_SEARCH(m, a, k)  == SearchOn(m, NULL, m.head[a], k)
CDL_SEARCH(m, a, k) == SearchOn(m, m.head[a], m.head[a], k)

(* The last element that comes before `like', NULL when the head does not. *)
RECURSIVE Bound(_, _, _, _)
Bound(m, x, end, k) ==
  IF m.next[x] = end \/ m.key[m.next[x]] >= k THEN x ELSE Bound(m, m.next[x], end, k)

LL_LOWER_BOUND2(m, a, k) ==
  LET h == m.head[a]
  IN IF h = NULL \/ m.key[h] >= k THEN NULL ELSE Bound(m, h, NULL, k)

CDL_LOWER_BOUND2(m, a, k) ==
  LET h == m.head[a]
  IN IF h = NULL \/ m.key[h] >= k THEN NULL ELSE Bound(m, h, h, k)

-----------------------------------------------------------------------------
(* Singly linked lists                                                     *)
LL_PREPEND2(m, a, x) == [m EXCEPT !.next[x] = m.head[a], !.head[a] = x]

LL_APPEND2(m, a, x) ==
  IF m.head[a] = NULL THEN [m EXCEPT !.next[x] = NULL, !.head[a] = x]
  ELSE [m EXCEPT !.next[x] = NULL, !.next[WalkTo(m.next, m.head[a], NULL)] = x]

LL_CONCAT2(m, a, b) ==
  IF m.head[a] = NULL THEN [m EXCEPT !.head[a] = m.head[b]]
  ELSE [m EXCEPT !.next[WalkTo(m.next, m.head[a], NULL)] = m.head[b]]

(* Fault: the new element is not linked to the rest of the list.           *)
LL_APPEND_ELEM2_cut(m, a, el, x) ==
  IF el = NULL THEN LL_PREPEND2(m, a, x)
  ELSE [m EXCEPT !.next[x] = NULL, !.next[el] = x]

LL_APPEND_ELEM2(m, a, el, x) ==
  IF el = NULL THEN LL_PREPEND2(m, a, x)
  ELSE [m EXCEPT !.next[x] = m.next[el], !.next[el] = x]

LL_INSERT_INORDER2(m, a, x) ==
  IF m.head[a] = NULL THEN [m EXCEPT !.head[a] = x, !.next[x] = NULL]
  ELSE LL_APPEND_ELEM2(m, a, LL_LOWER_BOUND2(m, a, m.key[x]), x)

(* Let what points at el, if anything does, point at y.                    *)
Redirect(m, a, el, y) ==
  IF m.head[a] = el THEN [m EXCEPT !.head[a] = y]
  ELSE LET t == WalkTo(m.next, m.head[a], el)
       IN IF m.next[t] = NULL THEN m ELSE [m EXCEPT !.next[t] = y]

LL_DELETE2(m, a, del) == Redirect(m, a, del, m.next[del])

LL_REPLACE_ELEM2(m, a, el, x) ==
  Redirect([m EXCEPT !.next[x] = m.next[el]], a, el, x)

LL_PREPEND_ELEM2(m, a, el, x) ==
  IF el = NULL THEN LL_APPEND2(m, a, x)
  ELSE Redirect([m EXCEPT !.next[x] = el], a, el, x)

LL_SORT2(m, a) ==
  IF m.head[a] = NULL THEN m
  ELSE LET r == Sorted(m.head[a], m.next, m.prev, "LL", m.key)
       IN [m EXCEPT !.head[a] = r.list, !.next = r.next]

(* NO_DECLTYPE: the walk is made with add->next, or with the head itself,  *)
(* which is put back afterwards.                                           *)
RECURSIVE WalkIn(_, _, _)
WalkIn(m, x, stop) ==
  IF m.next[m.next[x]] \in {NULL, stop} THEN m
  ELSE WalkIn([m EXCEPT !.next[x] = m.next[m.next[x]]], x, stop)

LL_APPEND2_nd(m, a, x) ==
  IF m.head[a] = NULL THEN [m EXCEPT !.head[a] = x, !.next[x] = NULL]
  ELSE LET w == WalkIn([m EXCEPT !.next[x] = m.head[a]], x, NULL)
       IN [w EXCEPT !.next[w.next[x]] = x, !.next[x] = NULL]

LL_CONCAT2_nd(m, a, b) ==
  IF m.head[a] = NULL THEN [m EXCEPT !.head[a] = m.head[b]]
  ELSE LET w == [m EXCEPT !.head[a] = WalkTo(m.next, @, NULL)]
       IN [w EXCEPT !.next[w.head[a]] = m.head[b], !.head[a] = m.head[a]]

LL_INSERT_INORDER2_nd(m, a, x) ==
  LET h == m.head[a]
      w == [m EXCEPT !.head[a] = Bound(m, @, NULL, m.key[x])]
  IN IF h = NULL \/ m.key[h] >= m.key[x] THEN [m EXCEPT !.next[x] = h, !.head[a] = x]
     ELSE [w EXCEPT !.next[x] = w.next[w.head[a]], !.next[w.head[a]] = x, !.head[a] = h]

(* Fault: the head, used as the cursor, is not put back.                   *)
LL_DELETE2_nd_lost(m, a, del) ==
  IF m.head[a] = del THEN [m EXCEPT !.head[a] = m.next[del]]
  ELSE LET w == [m EXCEPT !.head[a] = WalkTo(m.next, @, del)]
       IN [w EXCEPT !.next[w.head[a]] = IF @ = NULL THEN @ ELSE m.next[del]]

LL_DELETE2_nd(m, a, del) ==
  IF m.head[a] = del THEN [m EXCEPT !.head[a] = m.next[del]]
  ELSE LET w == [m EXCEPT !.head[a] = WalkTo(m.next, @, del)]
       IN [w EXCEPT !.next[w.head[a]] = IF @ = NULL THEN @ ELSE m.next[del],
                    !.head[a] = m.head[a]]

(* The redirection of the two macros below, with add->next as the cursor.  *)
RedirectIn(m, a, el, x) ==
  IF m.head[a] = el THEN [m EXCEPT !.head[a] = x]
  ELSE LET w == WalkIn([m EXCEPT !.next[x] = m.head[a]], x, el)
       IN IF w.next[w.next[x]] = NULL THEN w ELSE [w EXCEPT !.next[w.next[x]] = x]

LL_REPLACE_ELEM2_nd(m, a, el, x) ==
  LET w == RedirectIn(m, a, el, x) IN [w EXCEPT !.next[x] = w.next[el]]

LL_PREPEND_ELEM2_nd(m, a, el, x) ==
  IF el = NULL THEN LL_APPEND2_nd(m, a, x)
  ELSE [RedirectIn(m, a, el, x) EXCEPT !.next[x] = el]

-----------------------------------------------------------------------------
(* Doubly linked lists: the head's prev is the tail.                       *)
DL_LOWER_BOUND2(m, a, k) == LL_LOWER_BOUND2(m, a, k)

(* "these are identical to their singly-linked list counterparts"          *)
DL_SEARCH(m, a, k) == LL_SEARCH(m, a, k)
DL_COUNT2(m, a)    == LL_COUNT2(m, a)

DL_INSERT_INORDER2(m, a, x) ==
  IF m.head[a] = NULL THEN [m EXCEPT !.head[a] = x, !.prev[x] = x, !.next[x] = NULL]
  ELSE DL_APPEND_ELEM2(m, a, DL_LOWER_BOUND2(m, a, m.key[x]), x)

DL_SORT2(m, a) ==
  IF m.head[a] = NULL THEN m
  ELSE LET r == Sorted(m.head[a], m.next, m.prev, "DL", m.key)
       IN [m EXCEPT !.head[a] = r.list, !.next = r.next, !.prev = r.prev]

(* NO_DECLTYPE: the loop ends at the head, as in a circular list; where x  *)
(* belongs at the end it hands NULL to cmp(), and there is no result.      *)
RECURSIVE BoundToHead(_, _, _, _)
BoundToHead(m, x, h, k) ==
  IF m.next[x] = NULL THEN NULL
  ELSE IF m.next[x] = h \/ m.key[m.next[x]] >= k THEN x
  ELSE BoundToHead(m, m.next[x], h, k)

DL_INSERT_INORDER2_nd(m, a, x) ==
  LET h == m.head[a]
      w == [m EXCEPT !.head[a] = BoundToHead(m, @, h, m.key[x])]
      r == [w EXCEPT !.prev[x] = w.head[a], !.next[x] = w.next[w.head[a]],
                     !.next[w.head[a]] = x, !.head[a] = h]
  IN IF h = NULL \/ m.key[h] >= m.key[x] THEN DL_PREPEND2(m, a, x)
     ELSE IF w.head[a] = NULL THEN NULL
     ELSE [r EXCEPT !.prev[IF r.next[x] # NULL THEN r.next[x] ELSE r.head[a]] = x]

-----------------------------------------------------------------------------
(* Circular lists                                                          *)
CDL_INSERT_INORDER2(m, a, x) ==
  IF m.head[a] = NULL THEN [m EXCEPT !.head[a] = x, !.next[x] = x, !.prev[x] = x]
  ELSE CDL_APPEND_ELEM2(m, a, CDL_LOWER_BOUND2(m, a, m.key[x]), x)

CDL_INSERT_INORDER2_nd(m, a, x) ==
  LET h == m.head[a]
      w == [m EXCEPT !.head[a] = Bound(m, @, h, m.key[x])]
  IN IF h = NULL \/ m.key[h] >= m.key[x] THEN CDL_PREPEND2(m, a, x)
     ELSE [w EXCEPT !.prev[x] = w.head[a], !.next[x] = w.next[w.head[a]],
                    !.prev[w.next[w.head[a]]] = x, !.next[w.head[a]] = x, !.head[a] = h]

CDL_SORT2(m, a) ==
  IF m.head[a] = NULL THEN m
  ELSE LET r == Sorted(m.head[a], m.next, m.prev, "CDL", m.key)
       IN [m EXCEPT !.head[a] = r.list, !.next = r.next, !.prev = r.prev]

-----------------------------------------------------------------------------
(* The macros of the caller's family                                       *)
ByKind(ll, dl, cdl) == CASE kind = "LL" -> ll [] kind = "DL" -> dl [] kind = "CDL" -> cdl

Delete(m, a, x) ==
  ByKind(LL_DELETE2(m, a, x), DL_DELETE2(m, a, x), CDL_DELETE2(m, a, x))

(* FOREACH_SAFE with a delete in the body: the successor is read first; a  *)
(* circular walk stops behind the element that was last when it began.     *)
RECURSIVE PurgeFrom(_, _, _, _, _)
PurgeFrom(m, a, x, last, k) ==
  IF x = NULL THEN m
  ELSE LET tmp == IF kind = "CDL" /\ x = last THEN NULL ELSE m.next[x]
       IN PurgeFrom(IF m.key[x] = k THEN Freed(Delete(m, a, x), x) ELSE m, a, tmp, last, k)

Purge(m, a, k) ==
  PurgeFrom(m, a, m.head[a],
            IF kind = "CDL" /\ m.head[a] # NULL THEN m.prev[m.head[a]] ELSE NULL, k)

(* A fresh element x with key k goes into list a: in order, or, into one   *)
(* of the singly linked lists, to either end or beside an element.         *)
Insert(a, x, k) ==
  LET m == [lst EXCEPT !.key[x] = k]
      s == seqs[a]
  IN /\ Room(a)
     /\ \/ Put(ByKind(LL_INSERT_INORDER2(m, a, x), DL_INSERT_INORDER2(m, a, x),
                      CDL_INSERT_INORDER2(m, a, x)),
               a, FirstPlace(s, LAMBDA y : m.key[y] >= k), x)
        \/ /\ kind = "LL"
           /\ \/ Put(LL_PREPEND2(m, a, x), a, 1, x)
              \/ Put(LL_APPEND2(m, a, x), a, Len(s) + 1, x)
              \/ \E i \in DOMAIN s : \/ Put(LL_PREPEND_ELEM2(m, a, s[i], x), a, i, x)
                                     \/ Put(LL_APPEND_ELEM2(m, a, s[i], x), a, i + 1, x)

Replace(a, x, k) ==
  LET m == [lst EXCEPT !.key[x] = k]
  IN /\ kind = "LL"
     /\ \E i \in DOMAIN seqs[a] :
          LET el == seqs[a][i]
          IN /\ lst' = Freed(LL_REPLACE_ELEM2(m, a, el, x), el)
             /\ seqs' = [seqs EXCEPT ![a] = ReplaceAt(@, i, x)]
     /\ UNCHANGED kind

DeleteOne(a) ==
  /\ kind = "LL"
  /\ \E i \in DOMAIN seqs[a] :
       /\ lst' = Freed(LL_DELETE2(lst, a, seqs[a][i]), seqs[a][i])
       /\ seqs' = [seqs EXCEPT ![a] = RemoveAt(@, i)]
  /\ UNCHANGED kind

DeleteMatching(a, k) ==
  /\ lst' = Purge(lst, a, k)
  /\ seqs' = [seqs EXCEPT ![a] = SelectSeq(@, LAMBDA x : lst.key[x] # k)]
  /\ UNCHANGED kind

Sort(a) ==
  /\ lst' = ByKind(LL_SORT2(lst, a), DL_SORT2(lst, a), CDL_SORT2(lst, a))
  /\ seqs' = [seqs EXCEPT ![a] = StableSort(@, lst.key)]
  /\ UNCHANGED kind

Concat ==
  /\ kind = "LL"
  /\ lst' = [LL_CONCAT2(lst, 1, 2) EXCEPT !.head[2] = NULL]
  /\ seqs' = [a \in Lists |-> IF a = 1 THEN seqs[1] \o seqs[2] ELSE <<>>]
  /\ UNCHANGED kind

ListNext ==
  \/ LinksNext
  \/ \E a \in Lists : DeleteOne(a) \/ Sort(a)
  \/ \E a \in Lists, k \in ListKeys : DeleteMatching(a, k)
  \/ \E a \in Lists, x \in Malloc(InUse), k \in ListKeys : Insert(a, x, k) \/ Replace(a, x, k)
  \/ Concat

-----------------------------------------------------------------------------
(***************************************************************************)
(* After any sequence of macros on two lists of any of the three families  *)
(* the links are exactly the sequences the operations describe: nothing is *)
(* lost or duplicated, sorts are stable, a list deleted from while it is   *)
(* walked stays whole, no element that was freed is still linked, and the  *)
(* walks and searches see that sequence.                                   *)
(***************************************************************************)
ListsFaithful ==
  /\ LinksFaithful
  /\ \A a \in Lists :
       /\ ForEach(lst, a) = seqs[a]
       /\ ByKind(LL_COUNT2(lst, a), DL_COUNT2(lst, a), CDL_COUNT2(lst, a)) = Len(seqs[a])
       /\ \A k \in ListKeys :
            ByKind(LL_SEARCH(lst, a, k), DL_SEARCH(lst, a, k), CDL_SEARCH(lst, a, k)) =
              LET i == FirstPlace(seqs[a], LAMBDA x : lst.key[x] = k)
              IN IF i > Len(seqs[a]) THEN NULL ELSE seqs[a][i]

(***************************************************************************)
(* The macros that a NO_DECLTYPE build replaces (utlist.h: "Here are       *)
(* VS2008 / NO_DECLTYPE replacements for a few functions") leave the same  *)
(* memory as the ones they replace, although they use the new element or   *)
(* the head as their cursor.  The one exception is named: the replacement  *)
(* of DL_INSERT_INORDER2 has no result for an element that belongs last.   *)
(***************************************************************************)
ListBuildsAgree ==
  \A a \in Lists, x \in Elem \ InUse, k \in ListKeys :
    LET m == [lst EXCEPT !.key[x] = k]
        belongsLast == \A y \in ToSet(seqs[a]) : m.key[y] < k
    IN CASE kind = "LL" ->
              /\ LL_APPEND2_nd(m, a, x) = LL_APPEND2(m, a, x)
              /\ LL_INSERT_INORDER2_nd(m, a, x) = LL_INSERT_INORDER2(m, a, x)
              /\ a = 1 => LL_CONCAT2_nd(m, 1, 2) = LL_CONCAT2(m, 1, 2)
              /\ \A el \in ToSet(seqs[a]) :
                   /\ LL_DELETE2_nd(m, a, el) = LL_DELETE2(m, a, el)
                   /\ LL_REPLACE_ELEM2_nd(m, a, el, x) = LL_REPLACE_ELEM2(m, a, el, x)
                   /\ LL_PREPEND_ELEM2_nd(m, a, el, x) = LL_PREPEND_ELEM2(m, a, el, x)
         [] kind = "DL" ->
              IF seqs[a] # <<>> /\ belongsLast
              THEN DL_INSERT_INORDER2_nd(m, a, x) = NULL
              ELSE DL_INSERT_INORDER2_nd(m, a, x) = DL_INSERT_INORDER2(m, a, x)
         [] kind = "CDL" ->
              CDL_INSERT_INORDER2_nd(m, a, x) = CDL_INSERT_INORDER2(m, a, x)
=============================================================================
