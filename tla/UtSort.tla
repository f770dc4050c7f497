------------------------------- MODULE UtSort -------------------------------
(***************************************************************************)
(* The three list sorts of utlist.h and HASH_SRT of uthash.h are one       *)
(* algorithm, Tatham's bottom-up mergesort on links; it is written once    *)
(* here, over records with the fields list, next and prev.                 *)
(***************************************************************************)
EXTENDS UtMemory, SequencesExt

(* The element after x; in a circular list the walk ends before the head.  *)
After(f, old, x) == IF f[x] = old THEN NULL ELSE f[x]

(* for (i = 0; i < insize; i++) { psize++; q = q->next; if (!q) break; }   *)
RECURSIVE Skip(_, _, _, _, _)
Skip(f, old, q, psize, insize) ==
  IF q = NULL \/ psize = insize
  THEN [q |-> q, psize |-> psize]
  ELSE Skip(f, old, After(f, old, q), psize + 1, insize)

(* The next element of the merge is p's unless p's run is used up or q's   *)
(* comes strictly first; it is linked behind the tail.                     *)
RECURSIVE Merge(_, _, _, _)
Merge(s, old, key, double) ==
  IF s.psize = 0 /\ (s.qsize = 0 \/ s.q = NULL) THEN s
  ELSE LET fromP == s.psize > 0 /\ (s.qsize = 0 \/ s.q = NULL \/ key[s.p] <= key[s.q])
           e == IF fromP THEN s.p ELSE s.q
           t == [s EXCEPT !.list = IF s.tail = NULL THEN e ELSE @,
                          !.next = IF s.tail = NULL THEN @ ELSE [@ EXCEPT ![s.tail] = e],
                          !.prev = IF double THEN [@ EXCEPT ![e] = s.tail] ELSE @,
                          !.tail = e]
       IN Merge(IF fromP
                THEN [t EXCEPT !.p = After(s.next, old, @), !.psize = @ - 1]
                ELSE [t EXCEPT !.q = After(s.next, old, @), !.qsize = @ - 1],
                old, key, double)

(* while (p) { ...; p = q; }: merges pairs of runs, and counts them.       *)
RECURSIVE MergePass(_, _, _, _, _)
MergePass(s, old, key, insize, double) ==
  IF s.p = NULL THEN s
  ELSE LET k == Skip(s.next, old, s.p, 0, insize)
           m == Merge([s EXCEPT !.q = k.q, !.psize = k.psize, !.qsize = insize,
                                !.nmerges = @ + 1], old, key, double)
       IN MergePass([m EXCEPT !.p = m.q], old, key, insize, double)

(* What a pass does to the ends of the list it has built.                  *)
Close(s, kind) ==
  CASE kind \in {"LL", "HASH"} -> [s EXCEPT !.next[s.tail] = NULL]
    [] kind = "DL"  -> [s EXCEPT !.next[s.tail] = NULL, !.prev[s.list] = s.tail]
    [] kind = "CDL" -> [s EXCEPT !.next[s.tail] = s.list, !.prev[s.list] = s.tail]

RECURSIVE MergeSort(_, _, _, _)
MergeSort(s, kind, key, insize) ==
  LET start == [s EXCEPT !.p = s.list, !.list = NULL, !.tail = NULL, !.nmerges = 0]
      old == IF kind = "CDL" THEN s.list ELSE NULL
      done == Close(MergePass(start, old, key, insize, kind # "LL"), kind)
  IN IF done.nmerges <= 1 THEN done ELSE MergeSort(done, kind, key, 2 * insize)

(* The list that begins at h, sorted by key.                               *)
Sorted(h, next, prev, kind, key) ==
  MergeSort([list |-> h, next |-> next, prev |-> prev, tail |-> NULL, p |-> NULL,
             q |-> NULL, psize |-> 0, qsize |-> 0, nmerges |-> 0], kind, key, 1)

-----------------------------------------------------------------------------
(* Reference: the stable sort of a sequence of elements by their keys.     *)
StableSort(s, key) ==
  LET Rank(i) == Cardinality({j \in DOMAIN s :
                   key[s[j]] < key[s[i]] \/ (key[s[j]] = key[s[i]] /\ j <= i)})
  IN [r \in DOMAIN s |-> s[CHOOSE i \in DOMAIN s : Rank(i) = r]]

(* Reference: the first place in s whose element satisfies P, or the end.  *)
FirstPlace(s, P(_)) ==
  IF SelectInSeq(s, P) = 0 THEN Len(s) + 1 ELSE SelectInSeq(s, P)
=============================================================================
