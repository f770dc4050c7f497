----------------------------- MODULE UtlistTest -----------------------------
(***************************************************************************)
(* utlist_test.c: one list, built by appending and prepending, searched    *)
(* with two comparison functions, counted and sorted.  The list starts as  *)
(* an element from malloc() whose next field nobody writes: it may hold    *)
(* NULL, or anything, which the first LL_APPEND then follows.              *)
(***************************************************************************)
EXTENDS UtList

CONSTANTS
  max,        \* elements appended, and prepended: 100
  FIRST_ID,   \* the id searched with session_item_cmp: 23
  SECOND_ID   \* the id searched with session_item_cmp_id: 78

VARIABLES
  step,    \* "head", "append", "prepend", "delete", "again", "sort", "end"
           \* or "crashed"
  itemNo,  \* main()'s counter
  count    \* what LL_COUNT counted

testVars == <<step, itemNo, count>>

TestInit == step = "head" /\ itemNo = 1 /\ count = 0

(* new_item(): everything but next is written.                             *)
new_item(m, x, n) == [m EXCEPT !.key[x] = n]

(* head = new_item(0, "HEAD"), with what malloc() left in its next field.  *)
Head0 ==
  /\ step = "head"
  /\ \/ /\ \E x \in Malloc(InUse) :
             /\ lst' = [new_item(lst, x, 0) EXCEPT !.head[1] = x, !.next[x] = NULL]
             /\ seqs' = [seqs EXCEPT ![1] = <<x>>]
        /\ step' = "append"
     \/ /\ step' = "crashed"
        /\ UNCHANGED <<lst, seqs>>
  /\ UNCHANGED <<kind, itemNo, count>>

AppendItem ==
  /\ step = "append"
  /\ \E x \in Malloc(InUse) :
       /\ lst' = LL_APPEND2(new_item(lst, x, itemNo), 1, x)
       /\ seqs' = [seqs EXCEPT ![1] = Append(@, x)]
  /\ itemNo' = itemNo + 1
  /\ step' = IF itemNo' < max THEN step ELSE "prepend"
  /\ UNCHANGED <<kind, count>>

PrependItem ==
  /\ step = "prepend"
  /\ \E x \in Malloc(InUse) :
       /\ lst' = LL_PREPEND2(new_item(lst, x, itemNo), 1, x)
       /\ seqs' = [seqs EXCEPT ![1] = <<x>> \o @]
  /\ itemNo' = itemNo + 1
  /\ step' = IF itemNo' < 2 * max THEN step ELSE "delete"
  /\ UNCHANGED <<kind, count>>

(* LL_SEARCH and, if it found something, LL_DELETE.  The item is leaked:   *)
(* nothing uses it again, so it may as well have been freed.               *)
Unlink(n, before, after) ==
  LET item == LL_SEARCH(lst, 1, n)
  IN /\ step = before
     /\ step' = after
     /\ lst' = IF item = NULL THEN lst
               ELSE Freed(LL_DELETE2(lst, 1, item), item)
     /\ seqs' = [seqs EXCEPT ![1] = SelectSeq(@, LAMBDA x : lst.key[x] # n)]
     /\ UNCHANGED <<kind, itemNo, count>>

(* LL_COUNT, LL_SORT and the end of main().                                *)
CountAndSort ==
  /\ step = "sort"
  /\ step' = "end"
  /\ count' = LL_COUNT2(lst, 1)
  /\ lst' = LL_SORT2(lst, 1)
  /\ seqs' = [seqs EXCEPT ![1] = StableSort(@, lst.key)]
  /\ UNCHANGED <<kind, itemNo>>

TestNext ==
  \/ Head0 \/ AppendItem \/ PrependItem
  \/ Unlink(FIRST_ID, "delete", "again") \/ Unlink(SECOND_ID, "again", "sort")
  \/ CountAndSort
=============================================================================
