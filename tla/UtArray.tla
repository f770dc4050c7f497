------------------------------ MODULE UtArray ------------------------------
(***************************************************************************)
(* utarray.h: an array of strings that grows as it is used.                *)
(***************************************************************************)
EXTENDS UtIcd, Functions

CONSTANT FirstSlots   \* slots of the first reservation (8 in the header)

ASSUME SlotAssumption == FirstSlots \in Nat \ {0}

(* strcmp() orders any two strings.                                        *)
ASSUME OrderAssumption == Strings \subseteq Int

VARIABLES
  vec,         \* the array
  content      \* history: the elements a reader should find

arrayVars == <<vec, content>>

(* The first number of slots that is enough, of n and its doublings.       *)
Slots(n, need) ==
  LET tried[k \in 0 .. need] ==
        IF k = 0 THEN n ELSE IF tried[k - 1] = 0 THEN FirstSlots ELSE 2 * tried[k - 1]
  IN tried[CHOOSE k \in 0 .. need : tried[k] >= need /\ \A j \in 0 .. k - 1 : tried[j] < need]

(* realloc keeps the old slots and leaves the new ones unwritten.          *)
utarray_reserve(a, by) ==
  LET n == Slots(a.n, a.i + by)
  IN [a EXCEPT !.n = n,
               !.d = [k \in 0 .. n - 1 |-> IF k \in DOMAIN a.d THEN a.d[k] ELSE JUNK]]

(* memmove of the slots from j on up to index i, to index to.              *)
memmove(a, to, j) ==
  LET target == to .. to + (a.i - j) - 1
  IN [a EXCEPT !.d = [k \in DOMAIN @ |-> IF k \in target THEN @[j + (k - to)] ELSE @[k]],
               !.bad = @ \/ ~(target \subseteq DOMAIN a.d)]

utarray_push_back(a, s) ==
  LET r == utarray_reserve(a, 1)
  IN [utarray_str_cpy(r, r.i, s) EXCEPT !.i = @ + 1]

utarray_pop_back(a) == [utarray_str_dtor(a, a.i - 1) EXCEPT !.i = @ - 1]

(* ut_str_icd has no init: a new slot is NULL.                             *)
utarray_extend_back(a) ==
  LET r == utarray_reserve(a, 1)
  IN [Store(r, r.i, NULL) EXCEPT !.i = @ + 1]

utarray_resize(a, num) ==
  LET r == IF a.i > num THEN DtorAll(a, num .. a.i - 1)
           ELSE IF a.i < num THEN utarray_reserve(a, num - a.i) ELSE a
  IN [r EXCEPT !.d = [k \in DOMAIN @ |-> IF k \in a.i .. num - 1 THEN NULL ELSE @[k]],
               !.i = num]

(* Fault: the slots are moved before there is room for one more.           *)
utarray_insert_early(a, s, j) ==
  LET g == IF j > a.i THEN utarray_resize(a, j) ELSE a
      m == utarray_reserve(IF j < g.i THEN memmove(g, j + 1, j) ELSE g, 1)
  IN [utarray_str_cpy(m, j, s) EXCEPT !.i = @ + 1]

(* Beyond the end the array is first filled up with NULLs.                 *)
utarray_insert(a, s, j) ==
  LET g == utarray_reserve(IF j > a.i THEN utarray_resize(a, j) ELSE a, 1)
      m == IF j < g.i THEN memmove(g, j + 1, j) ELSE g
  IN [utarray_str_cpy(m, j, s) EXCEPT !.i = @ + 1]

(* A loop that copies the strings w to the slots from j on.                *)
CopyAll(a, j, w) ==
  LET after[k \in 0 .. Len(w)] ==
        IF k = 0 THEN a ELSE utarray_str_cpy(after[k - 1], j + k - 1, w[k])
  IN after[Len(w)]

(* w is another array's elements.                                          *)
utarray_inserta(a, w, j) ==
  IF Len(w) = 0 THEN a
  ELSE LET g == utarray_reserve(IF j > a.i THEN utarray_resize(a, j) ELSE a, Len(w))
           m == IF j < g.i THEN memmove(g, j + Len(w), j) ELSE g
       IN [CopyAll(m, j, w) EXCEPT !.i = @ + Len(w)]

utarray_concat(a, w) == utarray_inserta(a, w, a.i)

utarray_erase(a, pos, len) ==
  LET b == DtorAll(a, pos .. pos + len - 1)
  IN [IF b.i > pos + len THEN memmove(b, pos, pos + len) ELSE b EXCEPT !.i = @ - len]

utarray_clear(a) == IF a.i > 0 THEN [DtorAll(a, 0 .. a.i - 1) EXCEPT !.i = 0] ELSE a

(* utarray_done(), and utarray_init() for the next use.                    *)
utarray_done(a) ==
  LET b == IF a.n # 0 THEN DtorAll(a, 0 .. a.i - 1) ELSE a
  IN [NewVec(0) EXCEPT !.live = b.live, !.bad = b.bad]

(* The permutations that bring these strings into order.                   *)
Orders(s) ==
  LET n == Len(s)
  IN {p \in Bijection(1 .. n, 1 .. n) : \A j, k \in 1 .. n : j < k => s[p[j]] <= s[p[k]]}

(* qsort() on the pointers: p is one of the orders of their strings, for   *)
(* it need not keep equal ones as they were.                               *)
utarray_sort(a, p) ==
  [a EXCEPT !.d = [k \in DOMAIN @ |-> IF k < a.i THEN @[p[k + 1] - 1] ELSE @[k]]]

utarray_len(a) == a.i
utarray_eltptr(a, j) == IF j < a.i THEN j ELSE NULL

utarray_front(a) == IF a.i > 0 THEN 0 ELSE NULL
utarray_back(a) == IF a.i > 0 THEN a.i - 1 ELSE NULL
utarray_next(a, e) ==
  IF e = NULL THEN utarray_front(a) ELSE IF a.i > e + 1 THEN e + 1 ELSE NULL
utarray_prev(a, e) ==
  IF e = NULL THEN utarray_back(a) ELSE IF e > 0 THEN e - 1 ELSE NULL

-----------------------------------------------------------------------------
Nulls(k) == [j \in 1 .. k |-> NULL]
Upto(s, k) == SubSeq(s, 1, k)
From(s, k) == SubSeq(s, k + 1, Len(s))

ArrayInit == vec = NewVec(0) /\ content = <<>>

(* An array operation and what it should do to the elements.               *)
Does(result, s) ==
  /\ Len(s) <= MaxItems
  /\ vec' = result
  /\ content' = s

PushBack(s) == Does(utarray_push_back(vec, s), Append(content, s))

PopBack == content # <<>> /\ Does(utarray_pop_back(vec), Upto(content, Len(content) - 1))

ExtendBack == Does(utarray_extend_back(vec), Append(content, NULL))

(* The elements with w put in at j, after filling up to j.                 *)
Spliced(w, j) ==
  IF w = <<>> THEN content
  ELSE LET c == content \o Nulls(j - Len(content)) IN Upto(c, j) \o w \o From(c, j)

InsertAtSlot(s, j) == Does(utarray_insert(vec, s, j), Spliced(<<s>>, j))

InsertArray(w, j) == Does(utarray_inserta(vec, w, j), Spliced(w, j))

ConcatArray(w) == Does(utarray_concat(vec, w), content \o w)

Resize(k) ==
  Does(utarray_resize(vec, k),
       IF k <= Len(content) THEN Upto(content, k) ELSE content \o Nulls(k - Len(content)))

Erase(p, k) ==
  /\ p + k <= Len(content)
  /\ Does(utarray_erase(vec, p, k), Upto(content, p) \o From(content, p + k))

ClearArray == Does(utarray_clear(vec), <<>>)

DoneArray == Does(utarray_done(vec), <<>>)

SortArray ==
  /\ \A k \in 1 .. Len(content) : content[k] # NULL
  /\ \E p \in Orders([k \in 1 .. vec.i |-> Pointee(vec, k - 1)]), q \in Orders(content) :
       Does(utarray_sort(vec, p), [k \in 1 .. Len(content) |-> content[q[k]]])

(* What another array may hold.                                            *)
Others == UNION {[1 .. n -> Item] : n \in 0 .. MaxItems}

ArrayNext ==
  \/ \E s \in Item : PushBack(s)
  \/ PopBack \/ ExtendBack \/ ClearArray \/ DoneArray \/ SortArray
  \/ \E s \in Item, j \in 0 .. MaxItems : InsertAtSlot(s, j)
  \/ \E w \in Others, j \in 0 .. MaxItems : InsertArray(w, j)
  \/ \E w \in Others : ConcatArray(w)
  \/ \E k \in 0 .. MaxItems : Resize(k)
  \/ \E p, k \in 0 .. MaxItems : Erase(p, k)

ArraySpec == ArrayInit /\ [][ArrayNext]_arrayVars

-----------------------------------------------------------------------------
(***************************************************************************)
(* Walking forward, backward or by index, a reader of an array finds just  *)
(* the elements that the calls so far leave in it, in order: through       *)
(* reallocation, moves inside d and padding with NULLs; and the array owns *)
(* the strings of exactly these.                                           *)
(***************************************************************************)
ArrayFaithful ==
  LET n == Len(content)
      Slot(k) == utarray_eltptr(vec, k - 1)
  IN /\ utarray_len(vec) = n
     /\ utarray_next(vec, NULL) = Slot(1)
     /\ utarray_prev(vec, NULL) = IF n = 0 THEN NULL ELSE Slot(n)
     /\ \A k \in 1 .. n : /\ Pointee(vec, Slot(k)) = content[k]
                          /\ utarray_next(vec, Slot(k)) = Slot(k + 1)
                          /\ utarray_prev(vec, Slot(k)) = IF k = 1 THEN NULL ELSE Slot(k - 1)
     /\ Owned(vec, 0 .. n - 1)
=============================================================================
