---------------------------- MODULE UtStringFind ----------------------------
(***************************************************************************)
(* The substring search of utstring.h: Knuth-Morris-Pratt, in both         *)
(* directions.  A needle and a table are indexed from 0.  A turn of a loop *)
(* is a step; the string stays as it is while a call is under way.         *)
(***************************************************************************)
EXTENDS UtString

CONSTANTS
  Chars,      \* what needles are made of
  MaxNeedle   \* bound on the length of a needle

ASSUME NeedleAssumption == MaxNeedle \in Nat

VARIABLES
  call,        \* what the call was given, NULL between calls
  loop,        \* "build": the table; "search", "match": the outer and the
               \* inner loop of the search; "returned"
  at_i, at_j,  \* i and j of the loop it is in
  P_KMP_Table,
  V_FindPosition

findLocals == <<loop, at_i, at_j, P_KMP_Table, V_FindPosition>>
findVars == <<stringVars, call, findLocals>>

(* A negative start counts from the end.                                   *)
StartOf(s, start) == IF start < 0 THEN s.i + start ELSE start

(* A search of hlen characters of the string, from at on, that begins with *)
(* these i and j.  The table's entry k is j, the others are as malloc()    *)
(* leaves them.                                                            *)
Searching(way, start, at, hlen, P, len, i, j, k) ==
  /\ call = NULL /\ format = NULL
  /\ call' = [way |-> way, start |-> start, at |-> at, hlen |-> hlen, P |-> P, len |-> len]
  /\ loop' = IF hlen >= len /\ len > 0 THEN "build" ELSE "returned"
  /\ at_i' = i /\ at_j' = j
  /\ P_KMP_Table' = [e \in 0 .. len |-> IF e = k THEN j ELSE JUNK]
  /\ V_FindPosition' = -1
  /\ UNCHANGED stringVars

utstring_find(start, P, len) ==
  LET at == StartOf(str, start)
  IN Searching("find", start, at, str.i - at, P, len, 0, -1, 0)

utstring_findR(start, P, len) ==
  LET at == StartOf(str, start)
  IN Searching("findR", start, 0, at + 1, P, len, len - 1, len, len)

Runs(way, l) == call # NULL /\ call.way = way /\ loop = l /\ UNCHANGED <<stringVars, call>>

(* P_Haystack                                                              *)
Hay(k) == str.d[call.at + k]

-----------------------------------------------------------------------------
(* The table, from left to right; then _utstring_find() begins.            *)
_utstring_BuildTable ==
  LET P == call.P
      i == at_i + 1
      j == at_j + 1
      differ == at_j > -1 /\ P[at_i] # P[at_j]
  IN /\ Runs("find", "build")
     /\ \/ /\ at_i < call.len /\ differ
           /\ at_j' = P_KMP_Table[at_j]
           /\ UNCHANGED <<loop, at_i, P_KMP_Table>>
        \/ /\ at_i < call.len /\ ~differ
           /\ at_i' = i /\ at_j' = j
           /\ P_KMP_Table' = [P_KMP_Table EXCEPT ![i] =
                IF i < call.len /\ P[i] = P[j] THEN P_KMP_Table[j] ELSE j]
           /\ UNCHANGED loop
        \/ /\ at_i >= call.len
           /\ loop' = "search" /\ at_i' = 0 /\ at_j' = 0
           /\ UNCHANGED P_KMP_Table
     /\ UNCHANGED V_FindPosition

(* The condition of the outer loop: what is left is long enough.           *)
Fits == at_j < call.hlen /\ call.hlen - at_j + at_i >= call.len

(* The outer loop, a turn of the inner one, and what follows it.           *)
_utstring_find ==
  LET i == at_i + 1
      j == at_j + 1
      differ == at_i > -1 /\ call.P[at_i] # Hay(at_j)
      found == i >= call.len
  IN /\ \/ /\ Runs("find", "search")
           /\ loop' = IF Fits THEN "match" ELSE "returned"
           /\ UNCHANGED <<at_i, at_j, V_FindPosition>>
        \/ /\ Runs("find", "match") /\ differ
           /\ at_i' = P_KMP_Table[at_i]
           /\ UNCHANGED <<loop, at_j, V_FindPosition>>
        \/ /\ Runs("find", "match") /\ ~differ
           /\ at_i' = i /\ at_j' = j
           /\ loop' = IF found THEN "returned" ELSE "search"
           /\ V_FindPosition' = IF found THEN j - i + call.at ELSE V_FindPosition
     /\ UNCHANGED P_KMP_Table

-----------------------------------------------------------------------------
(* From right to left: the entry for i is at i + 1, and the needle's       *)
(* length is the end.                                                      *)
_utstring_BuildTableR ==
  LET P == call.P
      i == at_i - 1
      j == at_j - 1
      differ == at_j < call.len /\ P[at_i] # P[at_j]
  IN /\ Runs("findR", "build")
     /\ \/ /\ at_i >= 0 /\ differ
           /\ at_j' = P_KMP_Table[at_j + 1]
           /\ UNCHANGED <<loop, at_i, P_KMP_Table>>
        \/ /\ at_i >= 0 /\ ~differ
           /\ at_i' = i /\ at_j' = j
           /\ P_KMP_Table' = [P_KMP_Table EXCEPT ![i + 1] =
                IF i >= 0 /\ P[i] = P[j] THEN P_KMP_Table[j + 1] ELSE j]
           /\ UNCHANGED loop
        \/ /\ at_i < 0
           /\ loop' = "search" /\ at_i' = call.len - 1 /\ at_j' = call.hlen - 1
           /\ UNCHANGED P_KMP_Table
     /\ UNCHANGED V_FindPosition

(* Fault: the needle is not looked for at the very beginning.              *)
FitsR_strict == at_j >= 0 /\ at_j > at_i

FitsR == at_j >= 0 /\ at_j >= at_i

_utstring_findR ==
  LET i == at_i - 1
      j == at_j - 1
      differ == at_i < call.len /\ call.P[at_i] # Hay(at_j)
      found == i < 0
  IN /\ \/ /\ Runs("findR", "search")
           /\ loop' = IF FitsR THEN "match" ELSE "returned"
           /\ UNCHANGED <<at_i, at_j, V_FindPosition>>
        \/ /\ Runs("findR", "match") /\ differ
           /\ at_i' = P_KMP_Table[at_i + 1]
           /\ UNCHANGED <<loop, at_j, V_FindPosition>>
        \/ /\ Runs("findR", "match") /\ ~differ
           /\ at_i' = i /\ at_j' = j
           /\ loop' = IF found THEN "returned" ELSE "search"
           /\ V_FindPosition' = IF found THEN j + 1 ELSE V_FindPosition
     /\ UNCHANGED P_KMP_Table

-----------------------------------------------------------------------------
FindInit ==
  /\ StringInit
  /\ call = NULL /\ loop = NULL /\ at_i = NULL /\ at_j = NULL
  /\ P_KMP_Table = NULL /\ V_FindPosition = NULL

(* The caller has the result, and the locals are gone.                     *)
Returns ==
  /\ call # NULL /\ loop = "returned"
  /\ call' = NULL /\ loop' = NULL /\ at_i' = NULL /\ at_j' = NULL
  /\ P_KMP_Table' = NULL /\ V_FindPosition' = NULL
  /\ UNCHANGED stringVars

(* Every place in the string.                                              *)
Starts == -Len(text) .. Len(text) - 1

FindTurns ==
  \/ \E len \in 0 .. MaxNeedle : \E P \in [0 .. len - 1 -> Chars], start \in Starts :
       utstring_find(start, P, len) \/ utstring_findR(start, P, len)
  \/ _utstring_BuildTable \/ _utstring_find
  \/ _utstring_BuildTableR \/ _utstring_findR
  \/ Returns

FindNext == FindTurns \/ (call = NULL /\ StringNext /\ UNCHANGED <<call, findLocals>>)

FindSpec == FindInit /\ [][FindNext]_findVars

-----------------------------------------------------------------------------
(* The places of its needle in the text that a call may return.            *)
Places ==
  LET from == IF call.start < 0 THEN Len(text) + call.start ELSE call.start
      here(p) == \A k \in 0 .. call.len - 1 : text[p + k + 1] = call.P[k]
  IN IF call.way = "find"
     THEN {p \in from .. Len(text) - call.len : here(p)}
     ELSE {p \in 0 .. from + 1 - call.len : here(p)}

(***************************************************************************)
(* From every start inside the string, also one counted from its end, a    *)
(* forward search returns the first place of the needle at or after the    *)
(* start, and a backward search the last place that ends at or before it;  *)
(* both return -1 when there is none, and for an empty needle.             *)
(***************************************************************************)
SubstringFound ==
  (call # NULL /\ loop = "returned") =>
    IF call.len = 0 \/ Places = {} THEN V_FindPosition = -1
    ELSE /\ V_FindPosition \in Places
         /\ \A p \in Places :
              IF call.way = "find" THEN V_FindPosition <= p ELSE p <= V_FindPosition
=============================================================================
