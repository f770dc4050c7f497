------------------------------- MODULE UtHash -------------------------------
(***************************************************************************)
(* uthash.h: a hash table whose elements carry their own hash handle.  An  *)
(* element is linked twice: prev and next in the order of insertion (the   *)
(* app order), hh_prev and hh_next in its bucket's chain.  The macros are  *)
(* operators from a table record to a table record.                        *)
(*                                                                         *)
(* The hash function is any function of the key.  The numbers of buckets   *)
(* and the capacity of a chain are constants (32 and 10 in the header).    *)
(***************************************************************************)
EXTENDS UtSort

CONSTANTS
  INITIAL_NUM_BUCKETS,   \* HASH_INITIAL_NUM_BUCKETS, a power of two
  BKT_CAPACITY_THRESH,   \* HASH_BKT_CAPACITY_THRESH
  BLOOM_BITS,            \* 1 << HASH_BLOOM, or 0 in a build without the filter
  HashFunctions          \* functions from keys to hash values

(* HASH_SELECT counts an item after it has entered it, and an expansion    *)
(* divides by the ideal chain length: a chain of one must not expand.      *)
ASSUME ThreshAssumption == BKT_CAPACITY_THRESH \in Nat \ {0, 1}

(* UT_hash_handle's links and the fields of UT_hash_table.                 *)
NoTable ==
  [head |-> NULL, tail |-> NULL, next |-> Blank, prev |-> Blank,
   hh_next |-> Blank, hh_prev |-> Blank, hashv |-> Blank, key |-> Blank,
   buckets |-> <<>>, num_items |-> 0, ideal_chain_maxlen |-> 0,
   nonideal_items |-> 0, ineff_expands |-> 0, noexpand |-> FALSE, bloom |-> {}]

NewBucket == [hh_head |-> NULL, count |-> 0, expand_mult |-> 0]

NewBuckets(n) == [b \in 0 .. n - 1 |-> NewBucket]

num_buckets(t) == Cardinality(DOMAIN t.buckets)

HASH_TO_BKT(v, n) == v % n

HASH_BLOOM_ADD(t, v) ==
  IF BLOOM_BITS = 0 THEN t ELSE [t EXCEPT !.bloom = @ \cup {v % BLOOM_BITS}]

HASH_BLOOM_TEST(t, v) == BLOOM_BITS = 0 \/ v % BLOOM_BITS \in t.bloom

HASH_MAKE_TABLE(t, x) ==
  [t EXCEPT !.head = x, !.tail = x, !.buckets = NewBuckets(INITIAL_NUM_BUCKETS)]

-----------------------------------------------------------------------------
(* Buckets                                                                 *)
RECURSIVE ChainFrom(_, _)
ChainFrom(t, x) == IF x = NULL THEN <<>> ELSE <<x>> \o ChainFrom(t, t.hh_next[x])

Chain(t, b) == ChainFrom(t, t.buckets[b].hh_head)

(* All items, bucket by bucket.                                            *)
AllChains(t) ==
  FlattenSeq([i \in 1 .. num_buckets(t) |-> Chain(t, i - 1)])

(* Put x at the front of bucket b's chain.                                 *)
PushFront(t, b, x) ==
  LET h == t.buckets[b].hh_head
      u == [t EXCEPT !.hh_next[x] = h, !.hh_prev[x] = NULL, !.buckets[b].hh_head = x]
  IN IF h = NULL THEN u ELSE [u EXCEPT !.hh_prev[h] = x]

(* Fault: items keep the bucket they had.                                  *)
HASH_EXPAND_BUCKETS_same(t) ==
  [t EXCEPT !.buckets = [b \in 0 .. 2 * num_buckets(t) - 1 |->
                           IF b < num_buckets(t) THEN @[b] ELSE NewBucket]]

(* Twice the buckets; every item goes to the front of its new chain.  Two  *)
(* expansions in a row that leave more than half the items in non-ideal    *)
(* places end all expansion.                                               *)
HASH_EXPAND_BUCKETS(t) ==
  LET n == 2 * num_buckets(t)
      ideal == (t.num_items \div n) + (IF t.num_items % n = 0 THEN 0 ELSE 1)
      Move(u, x) ==
        LET b == HASH_TO_BKT(t.hashv[x], n)
            c == u.buckets[b].count + 1
            v == [u EXCEPT !.buckets[b].count = c]
        IN PushFront(IF c > ideal
                     THEN [v EXCEPT !.nonideal_items = @ + 1,
                                    !.buckets[b].expand_mult = c \div ideal]
                     ELSE v, b, x)
      moved == FoldLeft(Move, [t EXCEPT !.buckets = NewBuckets(n), !.nonideal_items = 0,
                                        !.ideal_chain_maxlen = ideal], AllChains(t))
      ineff == IF moved.nonideal_items > t.num_items \div 2 THEN t.ineff_expands + 1 ELSE 0
  IN [moved EXCEPT !.ineff_expands = ineff, !.noexpand = @ \/ ineff > 1]

(* Fault: a chain may grow without end.                                    *)
HASH_ADD_TO_BKT_flat(t, b, x) == PushFront([t EXCEPT !.buckets[b].count = @ + 1], b, x)

HASH_ADD_TO_BKT(t, b, x) ==
  LET u == PushFront([t EXCEPT !.buckets[b].count = @ + 1], b, x)
  IN IF /\ u.buckets[b].count >= (u.buckets[b].expand_mult + 1) * BKT_CAPACITY_THRESH
        /\ ~u.noexpand
     THEN HASH_EXPAND_BUCKETS(u) ELSE u

HASH_DEL_IN_BKT(t, b, x) ==
  LET nx == t.hh_next[x]
      pv == t.hh_prev[x]
      u == [t EXCEPT !.buckets[b].count = @ - 1,
                     !.buckets[b].hh_head = IF @ = x THEN nx ELSE @]
      v == IF pv = NULL THEN u ELSE [u EXCEPT !.hh_next[pv] = nx]
  IN IF nx = NULL THEN v ELSE [v EXCEPT !.hh_prev[nx] = pv]

(* The first of the chain with this hash value and key.                    *)
HASH_FIND_IN_BKT(t, b, v, k) ==
  LET c == Chain(t, b)
      i == SelectInSeq(c, LAMBDA x : t.hashv[x] = v /\ t.key[x] = k)
  IN IF i = 0 THEN NULL ELSE c[i]

HASH_FIND(t, hash, k) ==
  IF t.head = NULL \/ ~HASH_BLOOM_TEST(t, hash[k]) THEN NULL
  ELSE HASH_FIND_IN_BKT(t, HASH_TO_BKT(hash[k], num_buckets(t)), hash[k], k)

-----------------------------------------------------------------------------
(* Adding and deleting                                                     *)
HASH_APPEND_LIST(t, x) ==
  [t EXCEPT !.next[x] = NULL, !.prev[x] = t.tail, !.next[t.tail] = x, !.tail = x]

(* The handle's key and hash value, set before x is linked.                *)
Keyed(t, hash, x, k) == [t EXCEPT !.hashv[x] = hash[k], !.key[x] = k]

(* Count x and put it in its bucket, once it is linked in app order.       *)
Enter(t, v, x) ==
  HASH_BLOOM_ADD(HASH_ADD_TO_BKT([t EXCEPT !.num_items = @ + 1],
                                 HASH_TO_BKT(v, num_buckets(t)), x), v)

First(t, x) == HASH_MAKE_TABLE([t EXCEPT !.next[x] = NULL, !.prev[x] = NULL], x)

HASH_ADD_KEYPTR(t, hash, x, k) ==
  LET u == Keyed(t, hash, x, k)
  IN Enter(IF t.head = NULL THEN First(u, x) ELSE HASH_APPEND_LIST(u, x), hash[k], x)

(* Where an element with sort value s belongs: before the first one whose  *)
(* value is greater.                                                       *)
RECURSIVE HASH_AKBI_INNER_LOOP(_, _, _, _)
HASH_AKBI_INNER_LOOP(t, it, cmp, s) ==
  IF it = NULL \/ cmp[it] > s THEN it
  ELSE HASH_AKBI_INNER_LOOP(t, t.next[it], cmp, s)

HASH_ADD_KEYPTR_INORDER(t, hash, x, k, cmp) ==
  LET u == Keyed(t, hash, x, k)
      it == HASH_AKBI_INNER_LOOP(t, t.head, cmp, cmp[x])
      pv == t.prev[it]
      link == [u EXCEPT !.next[x] = it, !.prev[x] = pv, !.prev[it] = x,
                        !.head = IF pv = NULL THEN x ELSE @]
  IN Enter(IF t.head = NULL THEN First(u, x)
           ELSE IF it = NULL THEN HASH_APPEND_LIST(u, x)
           ELSE IF pv = NULL THEN link ELSE [link EXCEPT !.next[pv] = x], hash[k], x)

(* Fault: deleting the last item leaves the tail where it was.             *)
HASH_DELETE_HH_tail(t, x) ==
  IF t.prev[x] = NULL /\ t.next[x] = NULL THEN NoTable
  ELSE LET u == IF t.prev[x] # NULL THEN [t EXCEPT !.next[t.prev[x]] = t.next[x]]
                ELSE [t EXCEPT !.head = t.next[x]]
           v == IF t.next[x] = NULL THEN u ELSE [u EXCEPT !.prev[t.next[x]] = t.prev[x]]
       IN [HASH_DEL_IN_BKT(v, HASH_TO_BKT(t.hashv[x], num_buckets(t)), x)
             EXCEPT !.num_items = @ - 1]

(* The only item takes the table with it.                                  *)
HASH_DELETE_HH(t, x) ==
  IF t.prev[x] = NULL /\ t.next[x] = NULL THEN NoTable
  ELSE LET s == [t EXCEPT !.tail = IF @ = x THEN t.prev[x] ELSE @]
           u == IF t.prev[x] # NULL THEN [s EXCEPT !.next[t.prev[x]] = t.next[x]]
                ELSE [s EXCEPT !.head = t.next[x]]
           v == IF t.next[x] = NULL THEN u ELSE [u EXCEPT !.prev[t.next[x]] = t.prev[x]]
       IN [HASH_DEL_IN_BKT(v, HASH_TO_BKT(t.hashv[x], num_buckets(t)), x)
             EXCEPT !.num_items = @ - 1]

(* The caller frees an item it has deleted, handle included.               *)
FreeItem(t, x) ==
  [t EXCEPT !.next[x] = JUNK, !.prev[x] = JUNK, !.hh_next[x] = JUNK, !.hh_prev[x] = JUNK,
            !.hashv[x] = JUNK, !.key[x] = JUNK]

(* The item with x's key, if there is one, is deleted first.               *)
Displace(t, hash, k) ==
  LET old == HASH_FIND(t, hash, k)
  IN IF old = NULL THEN t ELSE FreeItem(HASH_DELETE_HH(t, old), old)

HASH_REPLACE(t, hash, x, k) == HASH_ADD_KEYPTR(Displace(t, hash, k), hash, x, k)

HASH_REPLACE_INORDER(t, hash, x, k, cmp) ==
  HASH_ADD_KEYPTR_INORDER(Displace(t, hash, k), hash, x, k, cmp)

HASH_CLEAR(t) == NoTable

HASH_SRT(t, cmp) ==
  IF t.head = NULL THEN t
  ELSE LET r == Sorted(t.head, t.next, t.prev, "HASH", cmp)
       IN [t EXCEPT !.head = r.list, !.tail = r.tail, !.next = r.next, !.prev = r.prev]

HASH_COUNT(t) == IF t.head = NULL THEN 0 ELSE t.num_items

(* HASH_ITER: the items in app order; the walk is cut off if it has no end.*)
RECURSIVE IterFrom(_, _, _)
IterFrom(t, x, n) ==
  IF x = NULL \/ n = 0 THEN <<>> ELSE <<x>> \o IterFrom(t, t.next[x], n - 1)

HASH_ITER(t) == IterFrom(t, t.head, 1 + Cardinality(Elem))

(* The items of t that satisfy cond, in bucket order, in a new table that  *)
(* uses a second handle.  An item is counted after it is in its bucket,    *)
(* and the new table's tail stays the item it was made with.               *)
HASH_SELECT(t, cond) ==
  LET Take(r, x) ==
        LET u == [r.dst EXCEPT !.hashv[x] = t.hashv[x], !.key[x] = t.key[x],
                               !.prev[x] = r.last, !.next[x] = NULL]
            v == IF r.last = NULL THEN HASH_MAKE_TABLE(u, x)
                 ELSE [u EXCEPT !.next[r.last] = x]
            w == HASH_ADD_TO_BKT(v, HASH_TO_BKT(t.hashv[x], num_buckets(v)), x)
        IN [dst |-> [HASH_BLOOM_ADD(w, t.hashv[x]) EXCEPT !.num_items = @ + 1], last |-> x]
  IN IF t.head = NULL THEN NoTable
     ELSE FoldLeft(Take, [dst |-> NoTable, last |-> NULL],
                   SelectSeq(AllChains(t), LAMBDA x : x \in cond)).dst

(* HASH_FSCK, compiled in with HASH_DEBUG: back links, chain counts and    *)
(* the number of items, once along the buckets and once in app order.      *)
BackLinked(s, back) ==
  \A i \in DOMAIN s : back[s[i]] = IF i = 1 THEN NULL ELSE s[i - 1]

HASH_FSCK(t) ==
  t.head # NULL =>
    /\ \A b \in DOMAIN t.buckets :
         /\ BackLinked(Chain(t, b), t.hh_prev)
         /\ t.buckets[b].count = Len(Chain(t, b))
    /\ Len(AllChains(t)) = t.num_items
    /\ BackLinked(HASH_ITER(t), t.prev)
    /\ Len(HASH_ITER(t)) = t.num_items
=============================================================================
