------------------------------ MODULE UtString ------------------------------
(***************************************************************************)
(* utstring.h: a string of known length that is also terminated.  A        *)
(* character is a positive integer, NUL is 0; d is indexed from 0 as in C. *)
(* The search functions are in UtStringFind.                               *)
(***************************************************************************)
EXTENDS UtMemory

CONSTANTS
  InitReserve, \* bytes utstring_init() reserves (100 in the header)
  Pieces,      \* what callers append: sequences of characters
  MaxText      \* bound on the length of the string

ASSUME StringAssumption ==
  /\ InitReserve \in Nat \ {0}
  /\ MaxText \in Nat
  /\ \A b \in Pieces : b \in Seq(Nat)

VARIABLES
  str,         \* UT_string
  text,        \* history: what was put into it, as a sequence
  format       \* what utstring_printf() is trying to append, and whether the
               \* C library reports lengths as C99 does; NULL between calls

stringVars == <<str, text, format>>

NUL == 0

utstring_len(s) == s.i

utstring_reserve(s, amt) ==
  IF s.n - s.i < amt
  THEN [s EXCEPT !.n = @ + amt,
                 !.d = [k \in 0 .. s.n + amt - 1 |-> IF k < s.n THEN s.d[k] ELSE JUNK]]
  ELSE s

(* s->d[k .. ] = b, and bytes that do not fit are lost to another object.  *)
Copy(s, k, b) ==
  [s EXCEPT !.d = [j \in DOMAIN @ |-> IF j \in k .. k + Len(b) - 1 THEN b[j - k + 1] ELSE @[j]]]

utstring_init ==
  Copy(utstring_reserve([d |-> [k \in {} |-> NUL], n |-> 0, i |-> 0], InitReserve), 0, <<NUL>>)

utstring_clear(s) == Copy([s EXCEPT !.i = 0], 0, <<NUL>>)

(* Fault: no room is reserved for the terminator.                          *)
utstring_bincpy_tight(s, b) ==
  LET r == utstring_reserve(s, Len(b))
  IN [Copy(r, r.i, Append(b, NUL)) EXCEPT !.i = @ + Len(b)]

utstring_bincpy(s, b) ==
  LET r == utstring_reserve(s, Len(b) + 1)
  IN [Copy(r, r.i, Append(b, NUL)) EXCEPT !.i = @ + Len(b)]

(* src is another string's body.                                           *)
utstring_concat(s, src) == utstring_bincpy(s, src)

(* vsnprintf() of text b: as much as fits with a terminator, and the       *)
(* length it wanted; a C library from before C99 answers -1 instead.       *)
Written(s, b) ==
  LET room == s.n - s.i
  IN IF room = 0 THEN s
     ELSE Copy(s, s.i, SubSeq(b, 1, IF Len(b) < room THEN Len(b) ELSE room - 1) \o <<NUL>>)

-----------------------------------------------------------------------------
StringInit == str = utstring_init /\ text = <<>> /\ format = NULL

(* A call that appends at once, or clears.                                 *)
Puts(s, t) ==
  /\ format = NULL
  /\ Len(t) <= MaxText
  /\ str' = s /\ text' = t
  /\ UNCHANGED format

PutBytes(b) == Puts(utstring_bincpy(str, b), text \o b)

PutString(b) == Puts(utstring_concat(str, b), text \o b)

(* utstring_renew() of a string that exists, too.                          *)
ClearText == Puts(utstring_clear(str), <<>>)

(* utstring_done() and utstring_init(), or free and new.                   *)
RemakeText == Puts(utstring_init, <<>>)

(* utstring_printf()                                                       *)
PutFormat(b, c99) ==
  /\ format = NULL
  /\ Len(text \o b) <= MaxText
  /\ format' = [b |-> b, c99 |-> c99]
  /\ UNCHANGED <<str, text>>

(* One turn of its loop: the text fits, or the next turn has more space.   *)
utstring_printf_va ==
  /\ format # NULL
  /\ LET b == format.b
         w == Written(str, b)
     IN IF Len(b) < str.n - str.i
        THEN /\ str' = [w EXCEPT !.i = @ + Len(b)]
             /\ text' = text \o b
             /\ format' = NULL
        ELSE /\ str' = utstring_reserve(w, IF format.c99 THEN Len(b) + 1 ELSE 2 * w.n)
             /\ UNCHANGED <<text, format>>

StringNext ==
  \/ \E b \in Pieces : PutBytes(b) \/ PutString(b)
  \/ \E b \in Pieces, c99 \in BOOLEAN : PutFormat(b, c99)
  \/ utstring_printf_va
  \/ ClearText \/ RemakeText

StringSpec == StringInit /\ [][StringNext]_stringVars

-----------------------------------------------------------------------------
(***************************************************************************)
(* The string is what was appended to it, followed by its terminator, and  *)
(* both lie inside the allocation, whatever way the bytes came.  Inside    *)
(* utstring_printf(), however often the format is tried, what was there    *)
(* before stays and there is room to try.                                  *)
(***************************************************************************)
TextTerminated ==
  /\ str.i = Len(text) /\ str.i < str.n
  /\ DOMAIN str.d = 0 .. str.n - 1
  /\ \A k \in 0 .. str.i - 1 : str.d[k] = text[k + 1]
  /\ format = NULL => str.d[str.i] = NUL
=============================================================================
