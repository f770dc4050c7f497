------------------------------ MODULE UtMemory ------------------------------
(***************************************************************************)
(* Memory as the uthash headers use it: elements with pointer fields, NULL,*)
(* and fields that were never written or belong to a freed element.  A     *)
(* field function also has the cells NULL and JUNK, so that a write        *)
(* through a bad pointer changes something an invariant can see.           *)
(***************************************************************************)
EXTENDS Integers, Sequences, FiniteSets

CONSTANTS Elem, NULL, JUNK

ASSUME CellAssumption == NULL \notin Elem /\ JUNK \notin Elem /\ NULL # JUNK

(* No pointer is a number, and neither is NULL.                            *)
ASSUME PointerAssumption == NULL \notin Int /\ JUNK \notin Int

Cells == Elem \cup {NULL, JUNK}

Blank == [c \in Cells |-> JUNK]

(* What malloc() may return: which of the free elements it is does not     *)
(* matter, since no macro compares addresses except for equality.          *)
Malloc(inUse) ==
  IF Elem \subseteq inUse THEN {} ELSE {CHOOSE x \in Elem : x \notin inUse}

(* Nothing was written through NULL or through an unwritten pointer.       *)
NoStrayWrite(f) == f[NULL] = JUNK /\ f[JUNK] = JUNK
=============================================================================
