---------------------------- MODULE UthashSample ----------------------------
(***************************************************************************)
(* uthash_sample.c: a menu over a table of users, the key being the user's *)
(* id; and uthash_test.c, a benchmark that fills a table with records,     *)
(* looks some up, replaces one and empties it.  Beside them, LibraryNext   *)
(* uses the macros of uthash.h that neither has: in-order additions,       *)
(* replacement and clearing.                                               *)
(*                                                                         *)
(* order and dict are history variables: the users in app order, and the   *)
(* name each id was last given.                                            *)
(***************************************************************************)
EXTENDS UtHash

CONSTANTS
  Ids,      \* bound on the counter
  TypedIds, \* ids the user types
  Names,    \* names; strcmp() orders them
  RandomRecords  \* UT_BENCH_TOTAL_RECORDS, of which some have the same key

VARIABLES
  users,    \* the table
  name,     \* element -> name
  id,       \* main()'s counter
  phase,    \* "menu" or "quit"; the benchmark: "add", "more", "replace",
            \* "half", "all", "end"
  hash,     \* the hash function in use
  order, dict

hashVars == <<users, name, id, phase, hash, order, dict>>

HashInit ==
  /\ users = NoTable
  /\ name = Blank
  /\ id = 1
  /\ phase \in {"menu", "add"}
  /\ hash \in HashFunctions
  /\ order = <<>>
  /\ dict = [i \in {} |-> 0]

Fresh == Malloc(ToSet(order))

(* History: user i is called n.                                            *)
Called(i, n) == dict' = [j \in DOMAIN dict \cup {i} |-> IF j = i THEN n ELSE dict[j]]

(* History: users with these ids are gone.                                 *)
Gone(ids) == dict' = [j \in DOMAIN dict \ ids |-> dict[j]]

-----------------------------------------------------------------------------
(* add_user(): renames the user if the id is already in the table.         *)
add_user(i, n) ==
  LET s == HASH_FIND(users, hash, i)
  IN /\ Called(i, n)
     /\ IF s # NULL
        THEN /\ name' = [name EXCEPT ![s] = n]
             /\ UNCHANGED <<users, order>>
        ELSE \E x \in Fresh :
               /\ users' = HASH_ADD_KEYPTR(users, hash, x, i)
               /\ name' = [name EXCEPT ![x] = n]
               /\ order' = Append(order, x)

(* Choice 1: the counter is the id and goes up.                            *)
MenuAdd(n) ==
  /\ phase = "menu"
  /\ id \in Ids
  /\ add_user(id, n)
  /\ id' = id + 1
  /\ UNCHANGED <<phase, hash>>

(* Choice 2: the id that is typed becomes the counter.                     *)
MenuAddById(i, n) ==
  /\ phase = "menu"
  /\ id' = i
  /\ add_user(i, n)
  /\ UNCHANGED <<phase, hash>>

(* Choice 4: find_user() and, if it is there, delete_user().               *)
MenuDelete(i) ==
  LET s == HASH_FIND(users, hash, i)
  IN /\ phase = "menu"
     /\ s # NULL
     /\ users' = FreeItem(HASH_DELETE_HH(users, s), s)
     /\ name' = [name EXCEPT ![s] = JUNK]
     /\ order' = RemoveFirst(order, s)
     /\ Gone({i})
     /\ UNCHANGED <<id, phase, hash>>

(* delete_all(): HASH_ITER reads the next user before this one is freed.   *)
RECURSIVE DeleteFrom(_, _)
DeleteFrom(t, x) ==
  IF x = NULL THEN t ELSE DeleteFrom(FreeItem(HASH_DELETE_HH(t, x), x), t.next[x])

delete_all ==
  /\ users' = DeleteFrom(users, users.head)
  /\ name' = Blank
  /\ order' = <<>>
  /\ Gone(DOMAIN dict)

(* Choice 5.                                                               *)
MenuDeleteAll ==
  /\ phase = "menu"
  /\ delete_all
  /\ UNCHANGED <<id, phase, hash>>

(* Choice 10 ends the loop, and everything is freed.                       *)
MenuQuit ==
  /\ phase = "menu"
  /\ delete_all
  /\ phase' = "quit"
  /\ UNCHANGED <<id, hash>>

SortBy(cmp) ==
  /\ phase = "menu"
  /\ users' = HASH_SRT(users, cmp)
  /\ order' = StableSort(order, cmp)
  /\ UNCHANGED <<name, id, phase, hash, dict>>

(* Choices 6 and 7: name_sort and id_sort.                                 *)
MenuSortByName == SortBy(name)
MenuSortById == SortBy(users.key)

MenuNext ==
  \/ \E n \in Names : id \in TypedIds /\ MenuAdd(n)
  \/ \E n \in Names, i \in TypedIds : MenuAddById(i, n)
  \/ \E i \in TypedIds : MenuDelete(i)
  \/ MenuDeleteAll \/ MenuQuit \/ MenuSortByName \/ MenuSortById

-----------------------------------------------------------------------------
(* HASH_REPLACE, and both in-order additions by name.                      *)
Enters(i, n, x, t, place) ==
  LET old == HASH_FIND(users, hash, i)
      rest == IF old = NULL THEN order ELSE RemoveFirst(order, old)
  IN /\ phase = "menu"
     /\ users' = t
     /\ name' = [c \in Cells |-> IF c = x THEN n ELSE IF c = old THEN JUNK ELSE name[c]]
     /\ order' = IF place = "end" THEN Append(rest, x)
                 ELSE InsertAt(rest, FirstPlace(rest, LAMBDA y : name[y] > n), x)
     /\ Called(i, n)
     /\ UNCHANGED <<id, phase, hash>>

LibReplace(i, n, x) == Enters(i, n, x, HASH_REPLACE(users, hash, x, i), "end")

LibReplaceInorder(i, n, x) ==
  Enters(i, n, x, HASH_REPLACE_INORDER(users, hash, x, i, [name EXCEPT ![x] = n]), "inorder")

LibAddInorder(i, n, x) ==
  /\ HASH_FIND(users, hash, i) = NULL
  /\ Enters(i, n, x, HASH_ADD_KEYPTR_INORDER(users, hash, x, i, [name EXCEPT ![x] = n]),
            "inorder")

LibClear ==
  /\ phase = "menu"
  /\ users' = HASH_CLEAR(users)
  /\ name' = Blank
  /\ order' = <<>>
  /\ Gone(DOMAIN dict)
  /\ UNCHANGED <<id, phase, hash>>

LibraryNext ==
  \/ \E i \in TypedIds, n \in Names, x \in Fresh :
       LibReplace(i, n, x) \/ LibReplaceInorder(i, n, x) \/ LibAddInorder(i, n, x)
  \/ LibClear

-----------------------------------------------------------------------------
(* uthash_test.c.  Keys of the records that are added first are random;    *)
(* those of the MORE_REC_NUM records after them differ in one byte.        *)
MoreIds == Ids \ TypedIds
MORE_REC_NUM == Cardinality(MoreIds)

(* A record whose key is in the table is forgotten.                        *)
BenchAdd(i) ==
  /\ phase = "add"
  /\ IF HASH_FIND(users, hash, i) = NULL
     THEN add_user(i, 1)
     ELSE UNCHANGED <<users, name, order, dict>>
  /\ IF id = RandomRecords
     THEN phase' = "more" /\ id' = Min(MoreIds)
     ELSE phase' = phase /\ id' = id + 1
  /\ UNCHANGED hash

(* These are added without a look.                                         *)
BenchMore ==
  /\ phase = "more"
  /\ \E x \in Fresh :
       /\ users' = HASH_ADD_KEYPTR(users, hash, x, id)
       /\ name' = [name EXCEPT ![x] = 1]
       /\ order' = Append(order, x)
  /\ Called(id, 1)
  /\ id' = id + 1
  /\ phase' = IF id = Max(MoreIds) THEN "replace" ELSE phase
  /\ UNCHANGED hash

(* If the last of them is found again, the first is replaced.  The new     *)
(* record is not cleared, so its key may or may not be the one it should.  *)
BenchReplace ==
  /\ phase = "replace"
  /\ IF HASH_FIND(users, hash, Max(MoreIds)) = NULL
     THEN UNCHANGED <<users, name, order, dict>>
     ELSE \E x \in Fresh, k \in {Min(MoreIds), 0} :
            LET old == HASH_FIND(users, hash, k)
            IN /\ users' = HASH_REPLACE(users, hash, x, k)
               /\ name' = [c \in Cells |->
                             IF c = x THEN 2 ELSE IF c = old THEN JUNK ELSE name[c]]
               /\ order' = Append(SelectSeq(order, LAMBDA y : y # old), x)
               /\ Called(k, 2)
  /\ phase' = "half"
  /\ UNCHANGED <<id, hash>>

(* Every other record goes, until MORE_REC_NUM are gone; the walk keeps    *)
(* the next record while this one is freed.                                *)
RECURSIVE HalfFrom(_, _, _, _)
HalfFrom(t, p, i, x) ==
  IF p = NULL \/ x >= MORE_REC_NUM THEN t
  ELSE HalfFrom(IF i % 2 = 1 THEN FreeItem(HASH_DELETE_HH(t, p), p) ELSE t,
                t.next[p], i + 1, x + (i % 2))

BenchHalf ==
  LET gone == {order[i] : i \in {i \in DOMAIN order : i % 2 = 1 /\ i < 2 * MORE_REC_NUM}}
  IN /\ phase = "half"
     /\ users' = HalfFrom(users, users.head, 1, 0)
     /\ name' = [c \in Cells |-> IF c \in gone THEN JUNK ELSE name[c]]
     /\ order' = SelectSeq(order, LAMBDA y : y \notin gone)
     /\ Gone({users.key[x] : x \in gone})
     /\ phase' = "all"
     /\ UNCHANGED <<id, hash>>

BenchAll ==
  /\ phase = "all"
  /\ delete_all
  /\ phase' = "end"
  /\ UNCHANGED <<id, hash>>

BenchNext ==
  \/ \E i \in TypedIds : BenchAdd(i)
  \/ BenchMore \/ BenchReplace \/ BenchHalf \/ BenchAll

-----------------------------------------------------------------------------
HashNext == MenuNext \/ LibraryNext \/ BenchNext

(* A user who only adds and deletes gets through more ids: enough for two  *)
(* ineffective expansions in a row.                                        *)
GrowNext ==
  \/ \E n \in Names : MenuAdd(n)
  \/ \E i \in Ids : MenuDelete(i)

-----------------------------------------------------------------------------
(***************************************************************************)
(* A user is found by every id that was added and not deleted, under the   *)
(* name given last, and by no other id - whatever was added, renamed,      *)
(* replaced, sorted or deleted in between, however often the buckets were  *)
(* doubled, and although the filter keeps the bits of deleted keys.        *)
(***************************************************************************)
FindsExactly ==
  \A i \in Ids \cup {0} :
    LET s == HASH_FIND(users, hash, i)
    IN IF i \in DOMAIN dict THEN s \in ToSet(order) /\ name[s] = dict[i] ELSE s = NULL

(***************************************************************************)
(* What HASH_FSCK checks in a debug build holds after every operation, and *)
(* what it leaves out too: the app order is the order of insertion as      *)
(* sorts and in-order additions change it, the tail is its last item, no   *)
(* freed item is linked, and a table selected from this one passes and     *)
(* holds just the selected users.                                          *)
(***************************************************************************)
TableSound ==
  /\ HASH_FSCK(users)
  /\ HASH_ITER(users) = order
  /\ HASH_COUNT(users) = Len(order)
  /\ order # <<>> => users.tail = order[Len(order)]
  /\ NoStrayWrite(users.next) /\ NoStrayWrite(users.prev)
  /\ NoStrayWrite(users.hh_next) /\ NoStrayWrite(users.hh_prev)
  /\ \A S \in SUBSET ToSet(order) :
       LET d == HASH_SELECT(users, S)
       IN HASH_FSCK(d) /\ ToSet(HASH_ITER(d)) = S

(***************************************************************************)
(* "By expanding buckets the hash keeps a bound on the chain length": as   *)
(* long as expansion is not inhibited no chain is longer than its          *)
(* threshold, which is a multiple of BKT_CAPACITY_THRESH, or than what the *)
(* last expansion itself called ideal; and expansion is inhibited only     *)
(* after two ineffective ones.                                             *)
(***************************************************************************)
ChainsBounded ==
  /\ users.noexpand <=> users.ineff_expands > 1
  /\ ~users.noexpand =>
       \A b \in DOMAIN users.buckets :
         users.buckets[b].count <=
           (users.buckets[b].expand_mult + 1) * Max({BKT_CAPACITY_THRESH, users.ideal_chain_maxlen})
=============================================================================
