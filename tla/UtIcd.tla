------------------------------- MODULE UtIcd -------------------------------
(***************************************************************************)
(* Elements of utarray.h and utringbuffer.h, as ut_str_icd has them: a     *)
(* slot holds a pointer to a copy that the container owns (utarray_str_cpy *)
(* duplicates a string, utarray_str_dtor frees it) or NULL.  A container   *)
(* is a record; a pointer into d is the index of its slot.                 *)
(*                                                                         *)
(* What malloc returns is an address that is free.  bad records a free of  *)
(* something that is not allocated, and a write outside d.                 *)
(***************************************************************************)
EXTENDS UtMemory

CONSTANTS
  Strings,     \* integers, standing for strings in strcmp() order
  MaxItems     \* bound on the number of elements

ASSUME ItemAssumption ==
  /\ MaxItems \in Nat
  /\ NULL \notin Strings /\ JUNK \notin Strings

Item == Strings \cup {NULL}

Addresses == 1 .. MaxItems + 2

NewVec(slots) ==
  [i |-> 0, n |-> slots, f |-> FALSE, d |-> [k \in 0 .. slots - 1 |-> JUNK],
   live |-> [x \in {} |-> 0], bad |-> FALSE]

(* *d = p, for a slot that must exist.                                     *)
Store(a, k, p) ==
  IF k \in DOMAIN a.d THEN [a EXCEPT !.d[k] = p] ELSE [a EXCEPT !.bad = TRUE]

(* strdup(): the address of the copy.                                      *)
FreeAddress(a) == CHOOSE x \in Addresses : x \notin DOMAIN a.live

utarray_str_cpy(a, k, s) ==
  IF s = NULL THEN Store(a, k, NULL)
  ELSE LET x == FreeAddress(a)
       IN Store([a EXCEPT !.live = [y \in DOMAIN a.live \cup {x} |->
                                      IF y = x THEN s ELSE a.live[y]]], k, x)

utarray_str_dtor(a, k) ==
  LET p == a.d[k]
  IN IF p = NULL THEN a
     ELSE IF p \notin DOMAIN a.live THEN [a EXCEPT !.bad = TRUE]
     ELSE [a EXCEPT !.live = [y \in DOMAIN a.live \ {p} |-> a.live[y]]]

(* A loop that calls dtor() on each of these slots; one string in two of   *)
(* them would be freed twice.                                              *)
DtorAll(a, slots) ==
  LET held == {k \in slots : a.d[k] # NULL}
      gone == {a.d[k] : k \in held}
  IN [a EXCEPT !.live = [y \in DOMAIN a.live \ gone |-> a.live[y]],
               !.bad = \/ @
                       \/ ~(gone \subseteq DOMAIN a.live)
                       \/ \E j, k \in held : j # k /\ a.d[j] = a.d[k]]

(* The string slot k leads to; JUNK if it was never written or is freed.   *)
Pointee(a, k) == CASE a.d[k] = NULL -> NULL
                   [] a.d[k] \in DOMAIN a.live -> a.live[a.d[k]]
                   [] OTHER -> JUNK

(* The container owns each of its strings exactly once: every allocated    *)
(* copy is in one of the slots that are in use, none was freed twice or    *)
(* lost, and nothing was written outside the slots.                        *)
Owned(a, used) ==
  LET held == {k \in used : a.d[k] # NULL}
  IN /\ ~a.bad
     /\ used \subseteq DOMAIN a.d
     /\ {a.d[k] : k \in held} = DOMAIN a.live
     /\ \A j, k \in held : a.d[j] = a.d[k] => j = k
=============================================================================
