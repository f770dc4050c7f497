-------------------------- MODULE ContainersProofs --------------------------
(***************************************************************************)
(* Proofs about the containers of the uthash headers, for every value of   *)
(* their constants: TextTerminated and SubstringFound of the string        *)
(* buffer, RingFaithful of the ring buffer, ArrayFaithful of the dynamic   *)
(* array, and LinksFaithful of the doubly linked and circular lists.       *)
(***************************************************************************)
EXTENDS UtStringFind, UtRing, UtArray, UtLinks, SequenceTheorems, FiniteSetTheorems,
        WellFoundedInduction, TLAPS

-----------------------------------------------------------------------------
(* A set of numbers that is not empty has a least one.                     *)
LEMMA NatLeast ==
  ASSUME NEW T, T \subseteq Nat, T # {}
  PROVE  \E x \in T : \A y \in T : x <= y
<1> DEFINE R == OpToRel(<, Nat)
<1>1. IsWellFoundedOn(R, Nat)
  BY NatLessThanWellFounded
<1>2. R = {ss \in Nat \X Nat : ss[1] < ss[2]}
  BY DEF OpToRel
<1> HIDE DEF R
<1>3. PICK x \in T : \A y \in T : ~(<<y, x>> \in R)
  BY <1>1, WFMin
<1>4. \A y \in T : ~(y < x)
  BY <1>2, <1>3
<1>5. \A y \in T : x <= y
  BY <1>4
<1> QED BY <1>5

(* Induction, for a set of numbers.                                        *)
LEMMA SetInduction ==
  ASSUME NEW S, S \subseteq Nat, 0 \in S, \A n \in S : n + 1 \in S
  PROVE  S = Nat
<1> DEFINE T == Nat \ S
<1> SUFFICES ASSUME T # {} PROVE FALSE
  OBVIOUS
<1>1. PICK x \in T : \A y \in T : x <= y
  <2>1. T \subseteq Nat
    OBVIOUS
  <2> HIDE DEF T
  <2> QED BY <2>1, NatLeast
<1>2. x # 0 /\ x - 1 \in Nat
  OBVIOUS
<1>3. x - 1 \in S
  BY <1>1, <1>2
<1> QED BY <1>2, <1>3

-----------------------------------------------------------------------------
(***************************************************************************)
(* The string buffer, for every first reservation, all texts and any       *)
(* length.                                                                 *)
(*                                                                         *)
(* TextTerminated says where the text and its terminator are. To survive a *)
(* call it needs what every writer relies on: the block is as long as n    *)
(* says, and there is room for one byte more than the text (Holds). Inside *)
(* utstring_printf() the terminator may be gone for a while: a try that    *)
(* does not fit ends in the last byte of the block, which the next         *)
(* reservation moves on.                                                   *)
(***************************************************************************)

(* What a byte of the block may hold.                                      *)
Byte == Nat \cup {JUNK}

(* s is a UT_string whose first bytes are t, with room for one more.       *)
Holds(s, t) ==
  /\ s = [d |-> s.d, n |-> s.n, i |-> s.i]
  /\ s.n \in Nat /\ s.i \in Nat /\ t \in Seq(Nat)
  /\ s.d \in [0 .. s.n - 1 -> Byte]
  /\ s.i = Len(t) /\ s.i < s.n
  /\ \A k \in 0 .. s.i - 1 : s.d[k] = t[k + 1]

(* Between two tries of a format the terminator may be gone.               *)
StringInv ==
  /\ Holds(str, text)
  /\ format = NULL \/ \E b \in Pieces, c99 \in BOOLEAN : format = [b |-> b, c99 |-> c99]
  /\ format = NULL => str.d[str.i] = NUL

(* utstring_reserve() moves the bytes to a larger block and makes room for *)
(* amt of them.                                                            *)
LEMMA ReserveHolds ==
  ASSUME NEW s, NEW t, Holds(s, t), NEW amt \in Nat
  PROVE  /\ Holds(utstring_reserve(s, amt), t)
         /\ utstring_reserve(s, amt).i = s.i
         /\ utstring_reserve(s, amt).n - s.i >= amt
<1> DEFINE r == utstring_reserve(s, amt)
<1>1. CASE s.n - s.i < amt
  <2> DEFINE d == [k \in 0 .. s.n + amt - 1 |-> IF k < s.n THEN s.d[k] ELSE JUNK]
  <2>1. r = [d |-> d, n |-> s.n + amt, i |-> s.i]
    <3>1. r = [s EXCEPT !.n = s.n + amt, !.d = d]
      BY <1>1 DEF utstring_reserve
    <3> HIDE DEF r, d
    <3>2. s = [d |-> s.d, n |-> s.n, i |-> s.i]
      BY DEF Holds
    <3> QED BY <3>1, <3>2
  <2>2. d \in [0 .. s.n + amt - 1 -> Byte] /\ \A k \in 0 .. s.n - 1 : d[k] = s.d[k]
    BY DEF Holds, Byte
  <2> HIDE DEF r, d
  <2>3. r.i = s.i /\ r.n = s.n + amt /\ r.d = d
    BY <2>1
  <2>4. s.n \in Nat /\ s.i \in Nat /\ s.i < s.n
    BY DEF Holds
  <2>5. \A k \in 0 .. s.i - 1 : d[k] = t[k + 1]
    BY <2>2, <2>4 DEF Holds
  <2>6. Holds(r, t)
    <3>1. r = [d |-> r.d, n |-> r.n, i |-> r.i]
      BY <2>1, <2>3
    <3>2. r.d \in [0 .. r.n - 1 -> Byte]
      <4>1. r.n - 1 = s.n + amt - 1
        BY <2>3, <2>4
      <4> QED BY <2>2, <2>3, <4>1
    <3>3. r.n \in Nat /\ r.i \in Nat /\ r.i < r.n
      BY <2>3, <2>4
    <3>4. t \in Seq(Nat) /\ r.i = Len(t)
      BY <2>3 DEF Holds
    <3> QED BY <2>3, <2>5, <3>1, <3>2, <3>3, <3>4 DEF Holds
  <2>7. r.n - s.i >= amt
    BY <2>3, <2>4
  <2>8. r = utstring_reserve(s, amt)
    BY DEF r
  <2> QED BY <2>3, <2>6, <2>7, <2>8
<1>2. CASE ~(s.n - s.i < amt)
  BY <1>2 DEF utstring_reserve, Holds
<1> QED BY <1>1, <1>2

(* What memcpy() into the block leaves, byte by byte.                      *)
LEMMA CopyFields ==
  ASSUME NEW s, NEW t, Holds(s, t), NEW k \in Nat, NEW b \in Seq(Nat)
  PROVE  /\ Copy(s, k, b) = [d |-> Copy(s, k, b).d, n |-> s.n, i |-> s.i]
         /\ Copy(s, k, b).d \in [0 .. s.n - 1 -> Byte]
         /\ Copy(s, k, b).n = s.n /\ Copy(s, k, b).i = s.i
         /\ \A j \in 0 .. s.n - 1 :
              Copy(s, k, b).d[j] = IF j \in k .. k + Len(b) - 1 THEN b[j - k + 1] ELSE s.d[j]
<1> DEFINE d == [j \in 0 .. s.n - 1 |-> IF j \in k .. k + Len(b) - 1 THEN b[j - k + 1] ELSE s.d[j]]
<1>0. s = [d |-> s.d, n |-> s.n, i |-> s.i] /\ s.d \in [0 .. s.n - 1 -> Byte] /\ s.n \in Nat
  BY DEF Holds
<1>1. Copy(s, k, b) = [s EXCEPT !.d = d]
  <2>1. DOMAIN s.d = 0 .. s.n - 1
    BY <1>0
  <2> QED BY <2>1 DEF Copy
<1>2. d \in [0 .. s.n - 1 -> Byte]
  <2> SUFFICES ASSUME NEW j \in 0 .. s.n - 1
               PROVE  (IF j \in k .. k + Len(b) - 1 THEN b[j - k + 1] ELSE s.d[j]) \in Byte
    OBVIOUS
  <2>1. CASE j \in k .. k + Len(b) - 1
    <3>1. j - k + 1 \in 1 .. Len(b) /\ Len(b) \in Nat
      BY <2>1
    <3>2. b[j - k + 1] \in Nat
      BY <3>1
    <3> QED BY <2>1, <3>2 DEF Byte
  <2>2. CASE j \notin k .. k + Len(b) - 1
    BY <1>0, <2>2
  <2> QED BY <2>1, <2>2
<1>3. \A j \in 0 .. s.n - 1 :
        d[j] = IF j \in k .. k + Len(b) - 1 THEN b[j - k + 1] ELSE s.d[j]
  OBVIOUS
<1> HIDE DEF d
<1>4. Copy(s, k, b) = [d |-> d, n |-> s.n, i |-> s.i]
  BY <1>0, <1>1
<1> QED BY <1>2, <1>3, <1>4

(* Text b and its terminator, written where the string ends, with room for *)
(* both.                                                                   *)
LEMMA AppendHolds ==
  ASSUME NEW s, NEW t, Holds(s, t), NEW b \in Seq(Nat), Len(b) < s.n - s.i
  PROVE  LET c == [Copy(s, s.i, Append(b, NUL)) EXCEPT !.i = @ + Len(b)]
         IN Holds(c, t \o b) /\ c.d[c.i] = NUL
<1> DEFINE e == Append(b, NUL)
           w == Copy(s, s.i, e)
           c == [w EXCEPT !.i = @ + Len(b)]
<1>1. e \in Seq(Nat) /\ Len(e) = Len(b) + 1 /\ Len(b) \in Nat
      /\ e[Len(b) + 1] = NUL /\ \A j \in 1 .. Len(b) : e[j] = b[j]
  BY DEF NUL
<1>2. s.n \in Nat /\ s.i \in Nat /\ s.i < s.n /\ s.i = Len(t) /\ t \in Seq(Nat)
      /\ \A k \in 0 .. s.i - 1 : s.d[k] = t[k + 1]
  BY DEF Holds
<1> HIDE DEF e
<1>3. /\ w = [d |-> w.d, n |-> s.n, i |-> s.i] /\ w.n = s.n /\ w.i = s.i
      /\ w.d \in [0 .. s.n - 1 -> Byte]
      /\ \A j \in 0 .. s.n - 1 :
           w.d[j] = IF j \in s.i .. s.i + Len(e) - 1 THEN e[j - s.i + 1] ELSE s.d[j]
  <2>1. e \in Seq(Nat) /\ s.i \in Nat
    BY <1>1, <1>2
  <2> QED BY <2>1, CopyFields
<1> HIDE DEF w
<1>4. c = [d |-> w.d, n |-> s.n, i |-> s.i + Len(b)]
  BY <1>3
<1> HIDE DEF c
<1>5. c.d = w.d /\ c.n = s.n /\ c.i = s.i + Len(b) /\ c = [d |-> c.d, n |-> c.n, i |-> c.i]
  BY <1>4
<1>6. /\ t \o b \in Seq(Nat) /\ Len(t \o b) = Len(t) + Len(b)
      /\ \A j \in 1 .. Len(t) + Len(b) : (t \o b)[j] = IF j <= Len(t) THEN t[j] ELSE b[j - Len(t)]
  BY <1>2
<1>7. ASSUME NEW k \in 0 .. c.i - 1 PROVE c.d[k] = (t \o b)[k + 1]
  <2>0. k \in 0 .. s.n - 1 /\ k + 1 \in 1 .. Len(t) + Len(b)
    BY <1>1, <1>2, <1>5, SMTT(20)
  <2>1. CASE k < s.i
    <3>1. k \in 0 .. s.i - 1 /\ k \notin s.i .. s.i + Len(e) - 1 /\ k + 1 <= Len(t)
      BY <1>1, <1>2, <2>1
    <3> QED BY <1>2, <1>3, <1>5, <1>6, <2>0, <3>1
  <2>2. CASE ~(k < s.i)
    <3>1. k \in s.i .. s.i + Len(e) - 1 /\ k - s.i + 1 \in 1 .. Len(b) /\ ~(k + 1 <= Len(t))
          /\ k + 1 - Len(t) = k - s.i + 1
      <4>1. k \in Nat /\ k <= s.i + Len(b) - 1 /\ s.i <= k /\ Len(t) = s.i
        BY <1>1, <1>2, <1>5, <2>2
      <4>2. Len(e) = Len(b) + 1 /\ s.i \in Nat /\ Len(b) \in Nat
        BY <1>1, <1>2
      <4>3. k \in s.i .. s.i + Len(e) - 1
        BY <4>1, <4>2
      <4>4. k - s.i + 1 \in 1 .. Len(b)
        BY <4>1, <4>2
      <4> QED BY <4>1, <4>2, <4>3, <4>4
    <3>2. c.d[k] = e[k - s.i + 1]
      BY <1>3, <1>5, <2>0, <3>1
    <3>3. (t \o b)[k + 1] = b[k - s.i + 1]
      BY <1>6, <2>0, <3>1
    <3> QED BY <1>1, <3>1, <3>2, <3>3
  <2> QED BY <2>1, <2>2
<1>8. c.d[c.i] = NUL
  <2>1. c.i \in 0 .. s.n - 1 /\ c.i \in s.i .. s.i + Len(e) - 1 /\ c.i - s.i + 1 = Len(b) + 1
    BY <1>1, <1>2, <1>5
  <2> QED BY <1>1, <1>3, <1>5, <2>1
<1>9. c.n \in Nat /\ c.i \in Nat /\ c.i = Len(t \o b) /\ c.i < c.n
  BY <1>1, <1>2, <1>5, <1>6
<1>10. c.d \in [0 .. c.n - 1 -> Byte]
  BY <1>3, <1>5
<1>11. Holds(c, t \o b)
  BY <1>5, <1>6, <1>7, <1>9, <1>10 DEF Holds
<1> QED BY <1>8, <1>11 DEF c, w, e

(* utstring_bincpy() reserves room for the terminator too, so it always    *)
(* has room for both.                                                      *)
LEMMA BincpyHolds ==
  ASSUME NEW s, NEW t, Holds(s, t), NEW b \in Seq(Nat)
  PROVE  LET c == utstring_bincpy(s, b) IN Holds(c, t \o b) /\ c.d[c.i] = NUL
<1> DEFINE r == utstring_reserve(s, Len(b) + 1)
<1>1. Len(b) + 1 \in Nat /\ Len(b) \in Nat
  OBVIOUS
<1>2. Holds(r, t) /\ r.n - r.i >= Len(b) + 1
  BY <1>1, ReserveHolds
<1>3. r.n \in Nat /\ r.i \in Nat
  BY <1>2 DEF Holds
<1>4. utstring_bincpy(s, b) = [Copy(r, r.i, Append(b, NUL)) EXCEPT !.i = @ + Len(b)]
  BY DEF utstring_bincpy
<1> HIDE DEF r
<1>5. Len(b) < r.n - r.i
  BY <1>1, <1>2, <1>3
<1> QED BY <1>2, <1>4, <1>5, AppendHolds

(* An empty string, once its first byte is the terminator.                 *)
LEMMA EmptyHolds ==
  ASSUME NEW s, s = [d |-> s.d, n |-> s.n, i |-> 0], s.n \in Nat \ {0},
         s.d \in [0 .. s.n - 1 -> Byte]
  PROVE  LET c == Copy(s, 0, <<NUL>>) IN Holds(c, <<>>) /\ c.d[c.i] = NUL
<1> DEFINE c == Copy(s, 0, <<NUL>>)
<1>1. s.i = 0
  OBVIOUS
<1>2. Holds(s, <<>>)
  BY <1>1 DEF Holds
<1>3. <<NUL>> \in Seq(Nat) /\ Len(<<NUL>>) = 1 /\ <<NUL>>[1] = NUL
  BY DEF NUL
<1> DEFINE e == <<NUL>>
<1>4. /\ Copy(s, 0, e) = [d |-> Copy(s, 0, e).d, n |-> s.n, i |-> s.i]
      /\ Copy(s, 0, e).d \in [0 .. s.n - 1 -> Byte]
      /\ Copy(s, 0, e).n = s.n /\ Copy(s, 0, e).i = s.i
      /\ \A j \in 0 .. s.n - 1 :
              Copy(s, 0, e).d[j] = IF j \in 0 .. 0 + Len(e) - 1 THEN e[j - 0 + 1] ELSE s.d[j]
  BY <1>2, <1>3, CopyFields
<1>5. c.d[0] = NUL
  BY <1>3, <1>4
<1>6. /\ c = [d |-> c.d, n |-> c.n, i |-> c.i] /\ c.n = s.n /\ c.i = 0
      /\ c.d \in [0 .. c.n - 1 -> Byte]
  BY <1>1, <1>4
<1> HIDE DEF c
<1>7. Holds(c, <<>>)
  BY <1>6 DEF Holds
<1> QED BY <1>5, <1>6, <1>7 DEF c

(* utstring_init() leaves the empty string.                                *)
LEMMA InitHolds == Holds(utstring_init, <<>>) /\ utstring_init.d[utstring_init.i] = NUL
<1> DEFINE z == [d |-> [k \in {} |-> NUL], n |-> 0, i |-> 0]
           s == utstring_reserve(z, InitReserve)
           e == [k \in 0 .. InitReserve - 1 |-> JUNK]
<1>1. InitReserve \in Nat \ {0}
  BY StringAssumption
<1>2. z.n = 0 /\ z.i = 0 /\ z = [d |-> z.d, n |-> z.n, i |-> z.i]
  OBVIOUS
<1>3. s = [d |-> e, n |-> InitReserve, i |-> 0]
  <2> HIDE DEF z
  <2> DEFINE g == [k \in 0 .. z.n + InitReserve - 1 |-> IF k < z.n THEN z.d[k] ELSE JUNK]
  <2>1. s = [z EXCEPT !.n = z.n + InitReserve, !.d = g]
    BY <1>1, <1>2 DEF utstring_reserve
  <2>2. g = e
    BY <1>1, <1>2
  <2>3. z.n + InitReserve = InitReserve
    BY <1>1, <1>2
  <2> HIDE DEF g, s, e
  <2>4. s = [z EXCEPT !.n = InitReserve, !.d = e]
    BY <2>1, <2>2, <2>3
  <2> QED BY <1>2, <2>4
<1>4. e \in [0 .. InitReserve - 1 -> Byte]
  BY DEF Byte
<1>5. utstring_init = Copy(s, 0, <<NUL>>)
  BY DEF utstring_init
<1> HIDE DEF s, e
<1>6. s = [d |-> s.d, n |-> s.n, i |-> 0] /\ s.n \in Nat \ {0} /\ s.d \in [0 .. s.n - 1 -> Byte]
  BY <1>1, <1>3, <1>4
<1> QED BY <1>5, <1>6, EmptyHolds

(* utstring_clear() leaves the empty string in the block there is.         *)
LEMMA ClearHolds ==
  ASSUME NEW s, NEW t, Holds(s, t)
  PROVE  LET c == utstring_clear(s) IN Holds(c, <<>>) /\ c.d[c.i] = NUL
<1> DEFINE z == [s EXCEPT !.i = 0]
<1>1. z = [d |-> s.d, n |-> s.n, i |-> 0] /\ s.n \in Nat \ {0} /\ s.d \in [0 .. s.n - 1 -> Byte]
  BY DEF Holds
<1>2. utstring_clear(s) = Copy(z, 0, <<NUL>>)
  BY DEF utstring_clear
<1> HIDE DEF z
<1>3. z = [d |-> z.d, n |-> z.n, i |-> 0] /\ z.n \in Nat \ {0} /\ z.d \in [0 .. z.n - 1 -> Byte]
  BY <1>1
<1> QED BY <1>2, <1>3, EmptyHolds

(* A try of vsnprintf() that does not fit writes behind the text only.     *)
LEMMA WrittenHolds ==
  ASSUME NEW s, NEW t, Holds(s, t), NEW b \in Seq(Nat), ~(Len(b) < s.n - s.i)
  PROVE  Holds(Written(s, b), t) /\ Written(s, b).n = s.n
<1> DEFINE room == s.n - s.i
           e == SubSeq(b, 1, room - 1) \o <<NUL>>
           w == Copy(s, s.i, e)
<1>1. s.n \in Nat /\ s.i \in Nat /\ s.i < s.n /\ s.i = Len(t) /\ t \in Seq(Nat)
      /\ \A k \in 0 .. s.i - 1 : s.d[k] = t[k + 1]
  BY DEF Holds
<1>2. Written(s, b) = w
  BY <1>1 DEF Written
<1>3. e \in Seq(Nat) /\ Len(e) \in Nat
  <2>1. room - 1 \in 0 .. Len(b) /\ Len(b) \in Nat
    BY <1>1
  <2> HIDE DEF room
  <2>2. SubSeq(b, 1, room - 1) \in Seq(Nat) /\ <<NUL>> \in Seq(Nat)
    BY <2>1 DEF NUL
  <2> QED BY <2>2
<1> HIDE DEF e
<1>4. /\ w = [d |-> w.d, n |-> s.n, i |-> s.i] /\ w.n = s.n /\ w.i = s.i
      /\ w.d \in [0 .. s.n - 1 -> Byte]
      /\ \A j \in 0 .. s.n - 1 :
           w.d[j] = IF j \in s.i .. s.i + Len(e) - 1 THEN e[j - s.i + 1] ELSE s.d[j]
  <2>1. e \in Seq(Nat) /\ s.i \in Nat
    BY <1>1, <1>3
  <2> QED BY <2>1, CopyFields
<1> HIDE DEF w
<1>5. \A k \in 0 .. s.i - 1 : w.d[k] = t[k + 1]
  <2>1. \A k \in 0 .. s.i - 1 : k \in 0 .. s.n - 1 /\ k \notin s.i .. s.i + Len(e) - 1
    BY <1>1, <1>3
  <2> QED BY <1>1, <1>4, <2>1
<1>6. Holds(w, t)
  BY <1>1, <1>4, <1>5 DEF Holds
<1> QED BY <1>2, <1>4, <1>6

(* A try that fits writes just what utstring_bincpy() would.               *)
LEMMA WrittenFits ==
  ASSUME NEW s, NEW t, Holds(s, t), NEW b \in Seq(Nat), Len(b) < s.n - s.i
  PROVE  Written(s, b) = Copy(s, s.i, Append(b, NUL))
<1>1. s.n \in Nat /\ s.i \in Nat /\ Len(b) \in Nat
  BY DEF Holds
<1>2. SubSeq(b, 1, Len(b)) = b
  OBVIOUS
<1>3. b \o <<NUL>> = Append(b, NUL)
  BY DEF NUL
<1>4. s.n - s.i # 0
  BY <1>1
<1>5. Written(s, b) = Copy(s, s.i, SubSeq(b, 1, Len(b)) \o <<NUL>>)
  BY <1>4 DEF Written
<1> QED BY <1>2, <1>3, <1>5

(* One turn of the loop of utstring_printf_va().                           *)
LEMMA PrintfInv == ASSUME StringInv, utstring_printf_va PROVE StringInv'
<1>1. format # NULL
  BY DEF utstring_printf_va
<1>2. PICK b \in Pieces, c99 \in BOOLEAN : format = [b |-> b, c99 |-> c99]
  BY <1>1 DEF StringInv
<1>3. format.b = b /\ format.c99 = c99 /\ b \in Seq(Nat) /\ Len(b) \in Nat
  BY <1>2, StringAssumption
<1>4. Holds(str, text)
  BY DEF StringInv
<1>5. CASE Len(b) < str.n - str.i
  <2> DEFINE c == [Copy(str, str.i, Append(b, NUL)) EXCEPT !.i = @ + Len(b)]
  <2>1. str' = c /\ text' = text \o b /\ format' = NULL
    BY <1>3, <1>4, <1>5, WrittenFits DEF utstring_printf_va
  <2>2. Holds(c, text \o b) /\ c.d[c.i] = NUL
    BY <1>3, <1>4, <1>5, AppendHolds
  <2> HIDE DEF c
  <2> QED BY <2>1, <2>2 DEF StringInv
<1>6. CASE ~(Len(b) < str.n - str.i)
  <2> DEFINE w == Written(str, b)
             amt == IF c99 THEN Len(b) + 1 ELSE 2 * w.n
  <2>1. str' = utstring_reserve(w, amt) /\ text' = text /\ format' = format
    BY <1>3, <1>6 DEF utstring_printf_va
  <2>2. Holds(w, text)
    BY <1>3, <1>4, <1>6, WrittenHolds
  <2>3. amt \in Nat
    BY <1>3, <2>2 DEF Holds
  <2> HIDE DEF w, amt
  <2>4. Holds(str', text')
    BY <2>1, <2>2, <2>3, ReserveHolds
  <2> QED BY <1>1, <2>1, <2>4 DEF StringInv
<1> QED BY <1>5, <1>6

(* Every call, and every try of a format, keeps the text and its room.     *)
LEMMA StringStep == ASSUME StringInv, [StringNext]_stringVars PROVE StringInv'
<1>0. Holds(str, text)
  BY DEF StringInv
<1>1. ASSUME NEW b \in Pieces, PutBytes(b) \/ PutString(b) PROVE StringInv'
  <2>1. b \in Seq(Nat)
    BY StringAssumption
  <2>2. str' = utstring_bincpy(str, b) /\ text' = text \o b /\ format' = format /\ format = NULL
    BY <1>1 DEF PutBytes, PutString, Puts, utstring_concat
  <2>3. Holds(str', text') /\ str'.d[str'.i] = NUL
    BY <1>0, <2>1, <2>2, BincpyHolds
  <2> QED BY <2>2, <2>3 DEF StringInv
<1>2. ASSUME NEW b \in Pieces, NEW c99 \in BOOLEAN, PutFormat(b, c99) PROVE StringInv'
  <2>1. format' = [b |-> b, c99 |-> c99] /\ str' = str /\ text' = text
    BY <1>2 DEF PutFormat
  <2>2. str.d[str.i] = NUL
    BY <1>2 DEF PutFormat, StringInv
  <2> QED BY <1>0, <2>1, <2>2 DEF StringInv
<1>3. CASE utstring_printf_va
  BY <1>3, PrintfInv
<1>4. CASE ClearText
  <2>1. str' = utstring_clear(str) /\ text' = <<>> /\ format' = format /\ format = NULL
    BY <1>4 DEF ClearText, Puts
  <2>2. Holds(str', text') /\ str'.d[str'.i] = NUL
    BY <1>0, <2>1, ClearHolds
  <2> QED BY <2>1, <2>2 DEF StringInv
<1>5. CASE RemakeText
  <2>1. str' = utstring_init /\ text' = <<>> /\ format' = format /\ format = NULL
    BY <1>5 DEF RemakeText, Puts
  <2>2. Holds(str', text') /\ str'.d[str'.i] = NUL
    BY <2>1, InitHolds
  <2> QED BY <2>1, <2>2 DEF StringInv
<1>6. CASE UNCHANGED stringVars
  BY <1>6 DEF stringVars, StringInv
<1> QED BY <1>1, <1>2, <1>3, <1>4, <1>5, <1>6 DEF StringNext

(* The block holds the text with room for one more byte, in every state of *)
(* the string.                                                             *)
THEOREM StringInvariant == StringSpec => []StringInv
<1>1. StringInit => StringInv
  BY InitHolds DEF StringInit, StringInv
<1> QED BY <1>1, StringStep, PTL DEF StringSpec

(* After any calls, and between the tries of a format, the string is what  *)
(* was appended to it, inside its allocation, and it is terminated between *)
(* calls; for every first reservation, all texts and any number of calls.  *)
THEOREM TextIsTerminated == StringSpec => []TextTerminated
<1>1. StringInv => TextTerminated
  BY DEF StringInv, Holds, TextTerminated
<1> QED BY <1>1, StringInvariant, PTL

-----------------------------------------------------------------------------
(***************************************************************************)
(* The substring search, for all texts and needles of every length.        *)
(*                                                                         *)
(* SubstringFound speaks of a search that has returned. Goes says what     *)
(* holds at each turn before: which entries of the table are made and what *)
(* they are (Entry), how much of the needle matches, and that no place was *)
(* passed over (Matching). The lemmas up to FindHits are about one         *)
(* direction and about no macro: a needle, a table, a haystack and two     *)
(* indices. The search from right to left runs the same on the mirror      *)
(* images of the needle, the table and the haystack (GoesLeft).            *)
(***************************************************************************)

(* The b characters before i are the first b, too.                         *)
Border(P, b, i) == b \in 0 .. i - 1 /\ \A k \in 0 .. b - 1 : P[k] = P[i - b + k]

(* A border of a border is a border,                                       *)
LEMMA BorderTrans ==
  ASSUME NEW P, NEW i \in Int, NEW j \in Int, NEW b \in Int, Border(P, b, j), Border(P, j, i)
  PROVE  Border(P, b, i)
<1> SUFFICES ASSUME NEW k \in 0 .. b - 1 PROVE P[k] = P[i - b + k]
  BY DEF Border
<1>1. P[k] = P[j - b + k]
  BY DEF Border
<1>2. j - b + k \in 0 .. j - 1
  BY DEF Border
<1>3. P[j - b + k] = P[i - j + (j - b + k)]
  BY <1>2 DEF Border
<1>4. i - j + (j - b + k) = i - b + k
  BY DEF Border
<1> QED BY <1>1, <1>3, <1>4

(* and a shorter border is one of a longer border.                         *)
LEMMA BorderOfBorder ==
  ASSUME NEW P, NEW i \in Int, NEW j \in Int, NEW b \in Int, Border(P, b, i), Border(P, j, i), b < j
  PROVE  Border(P, b, j)
<1> SUFFICES ASSUME NEW k \in 0 .. b - 1 PROVE P[k] = P[j - b + k]
  BY DEF Border
<1>1. P[k] = P[i - b + k]
  BY DEF Border
<1>2. j - b + k \in 0 .. j - 1
  BY DEF Border
<1>3. P[j - b + k] = P[i - j + (j - b + k)]
  BY <1>2 DEF Border
<1>4. i - j + (j - b + k) = i - b + k
  BY DEF Border
<1> QED BY <1>1, <1>3, <1>4

(* A border that the same character follows is one character longer,       *)
LEMMA BorderGrows ==
  ASSUME NEW P, NEW i \in Int, NEW b \in Int, Border(P, b, i), P[b] = P[i]
  PROVE  Border(P, b + 1, i + 1)
<1> SUFFICES ASSUME NEW k \in 0 .. b PROVE P[k] = P[i + 1 - (b + 1) + k]
  BY DEF Border
<1>1. i + 1 - (b + 1) + k = i - b + k
  OBVIOUS
<1>2. CASE k = b
  BY <1>1, <1>2
<1>3. CASE k # b
  BY <1>1, <1>3 DEF Border
<1> QED BY <1>2, <1>3

(* and every border that is not empty has come from such a one.            *)
LEMMA BorderShrinks ==
  ASSUME NEW P, NEW i \in Int, NEW b \in Int, Border(P, b, i + 1), b > 0
  PROVE  Border(P, b - 1, i) /\ P[b - 1] = P[i]
<1>1. b - 1 \in 0 .. i - 1 /\ b - 1 \in 0 .. b - 1
  BY DEF Border
<1>2. ASSUME NEW k \in 0 .. b - 1 PROVE P[k] = P[i + 1 - b + k]
  BY DEF Border
<1>3. P[b - 1] = P[i]
  <2>1. i + 1 - b + (b - 1) = i
    OBVIOUS
  <2> QED BY <1>1, <1>2, <2>1
<1>4. ASSUME NEW k \in 0 .. (b - 1) - 1 PROVE P[k] = P[i - (b - 1) + k]
  <2>1. i - (b - 1) + k = i + 1 - b + k
    OBVIOUS
  <2> QED BY <1>2, <2>1
<1> QED BY <1>1, <1>3, <1>4 DEF Border

(* An entry of the table: the longest border of the first i characters     *)
(* that another character than the next one follows, -1 if there is none.  *)
Entry(P, len, t, i) ==
  /\ t \in -1 .. i - 1
  /\ t >= 0 => Border(P, t, i)
  /\ \A b \in Int : (Border(P, b, i) /\ (i < len => P[b] # P[i])) => b <= t

(* The table is made up to i, and j is the border it goes on from.         *)
Building(P, len, T, i, j) ==
  /\ i \in 0 .. len
  /\ j \in -1 .. i - 1
  /\ j >= 0 => Border(P, j, i)
  /\ \A k \in 0 .. i : Entry(P, len, T[k], k)
  /\ i < len => \A b \in Int : (Border(P, b, i) /\ P[b] = P[i]) => b <= j

(* At a wrong character, the table leads to the next shorter border.       *)
LEMMA BuildFalls ==
  ASSUME NEW P, NEW len \in Nat, NEW T, NEW i, NEW j, Building(P, len, T, i, j),
         i < len, j > -1, P[i] # P[j]
  PROVE  Building(P, len, T, i, T[j])
<1>1. i \in Int /\ j \in Int /\ j \in 0 .. i - 1 /\ Border(P, j, i) /\ Entry(P, len, T[j], j)
  BY DEF Building
<1>2. T[j] \in -1 .. j - 1 /\ T[j] \in Int
  BY <1>1 DEF Entry
<1>3. T[j] >= 0 => Border(P, T[j], i)
  BY <1>1, <1>2, BorderTrans DEF Entry
<1>4. ASSUME NEW b \in Int, Border(P, b, i), P[b] = P[i] PROVE b <= T[j]
  <2>1. b <= j /\ b # j
    BY <1>4 DEF Building
  <2>2. Border(P, b, j)
    BY <1>1, <1>4, <2>1, BorderOfBorder
  <2> QED BY <1>1, <1>4, <2>2 DEF Entry
<1> QED BY <1>1, <1>2, <1>3, <1>4 DEF Building

(* At a right one, the next entry is the longest that can be used.         *)
LEMMA BuildAdvances ==
  ASSUME NEW P, NEW len \in Nat, NEW T, NEW U, NEW i, NEW j, Building(P, len, T, i, j),
         i < len, ~(j > -1 /\ P[i] # P[j]),
         \A k \in 0 .. i : U[k] = T[k],
         U[i + 1] = IF i + 1 < len /\ P[i + 1] = P[j + 1] THEN T[j + 1] ELSE j + 1
  PROVE  Building(P, len, U, i + 1, j + 1)
<1>1. i \in Int /\ j \in Int /\ i \in 0 .. len - 1 /\ j + 1 \in 0 .. i
  BY DEF Building
<1>2. Border(P, j + 1, i + 1)
  <2>1. CASE j = -1
    BY <1>1, <2>1 DEF Border
  <2>2. CASE j # -1
    <3>1. Border(P, j, i) /\ P[j] = P[i]
      BY <1>1, <2>2 DEF Building
    <3> QED BY <1>1, <3>1, BorderGrows
  <2> QED BY <2>1, <2>2
<1>3. ASSUME NEW b \in Int, Border(P, b, i + 1) PROVE b <= j + 1
  <2>1. CASE b > 0
    <3>1. Border(P, b - 1, i) /\ P[b - 1] = P[i] /\ b - 1 \in Int
      BY <1>1, <1>3, <2>1, BorderShrinks
    <3>2. b - 1 <= j
      BY <1>1, <3>1 DEF Building
    <3> QED BY <1>1, <3>2
  <2>2. CASE ~(b > 0)
    BY <1>1, <2>2
  <2> QED BY <2>1, <2>2
<1>4. Entry(P, len, U[i + 1], i + 1)
  <2>1. CASE i + 1 < len /\ P[i + 1] = P[j + 1]
    <3>1. U[i + 1] = T[j + 1] /\ Entry(P, len, T[j + 1], j + 1)
      BY <1>1, <2>1 DEF Building
    <3>2. T[j + 1] \in -1 .. j /\ T[j + 1] \in Int
      BY <1>1, <3>1 DEF Entry
    <3>3. T[j + 1] >= 0 => Border(P, T[j + 1], i + 1)
      BY <1>1, <1>2, <3>1, <3>2, BorderTrans DEF Entry
    <3>4. ASSUME NEW b \in Int, Border(P, b, i + 1), P[b] # P[i + 1] PROVE b <= T[j + 1]
      <4>1. b <= j + 1 /\ b # j + 1
        BY <1>3, <2>1, <3>4
      <4>2. Border(P, b, j + 1)
        BY <1>1, <1>2, <3>4, <4>1, BorderOfBorder
      <4> QED BY <1>1, <2>1, <3>1, <3>4, <4>2 DEF Entry
    <3> QED BY <1>1, <2>1, <3>1, <3>2, <3>3, <3>4 DEF Entry
  <2>2. CASE ~(i + 1 < len /\ P[i + 1] = P[j + 1])
    <3>1. U[i + 1] = j + 1
      BY <2>2
    <3> QED BY <1>1, <1>2, <1>3, <3>1 DEF Entry
  <2> QED BY <2>1, <2>2
<1>5. ASSUME NEW k \in 0 .. i + 1 PROVE Entry(P, len, U[k], k)
  <2>1. CASE k = i + 1
    BY <1>4, <2>1
  <2>2. CASE k # i + 1
    BY <1>1, <2>2 DEF Building
  <2> QED BY <2>1, <2>2
<1> QED BY <1>1, <1>2, <1>3, <1>5 DEF Building

-----------------------------------------------------------------------------
(* The needle is in H at p.                                                *)
Here(P, len, H, p) == \A k \in 0 .. len - 1 : P[k] = H[p + k]

(* The first i characters match before j, and it is nowhere earlier.       *)
Matching(P, len, H, hlen, i, j) ==
  /\ i \in -1 .. len - 1
  /\ j \in 0 .. hlen
  /\ i <= j
  /\ \A k \in 0 .. i - 1 : P[k] = H[j - i + k]
  /\ \A p \in 0 .. hlen - len : Here(P, len, H, p) => p >= j - i

(* At a wrong character no place is lost, those passed over fail.          *)
LEMMA FindFalls ==
  ASSUME NEW P, NEW len \in Nat, NEW T, NEW H, NEW hlen \in Nat, NEW i, NEW j,
         Matching(P, len, H, hlen, i, j), \A k \in 0 .. len : Entry(P, len, T[k], k),
         j < hlen, i > -1, P[i] # H[j]
  PROVE  Matching(P, len, H, hlen, T[i], j)
<1>1. i \in 0 .. len - 1 /\ i \in Int /\ j \in Int /\ j \in 0 .. hlen - 1 /\ Entry(P, len, T[i], i)
  BY DEF Matching
<1>2. T[i] \in -1 .. i - 1 /\ T[i] \in Int
  BY <1>1 DEF Entry
<1>3. ASSUME NEW k \in 0 .. T[i] - 1 PROVE P[k] = H[j - T[i] + k]
  <2>1. Border(P, T[i], i)
    BY <1>1, <1>2, <1>3 DEF Entry
  <2>2. P[k] = P[i - T[i] + k]
    BY <1>3, <2>1 DEF Border
  <2>3. i - T[i] + k \in 0 .. i - 1
    BY <1>1, <1>2, <1>3
  <2>4. P[i - T[i] + k] = H[j - i + (i - T[i] + k)]
    BY <1>1, <2>3 DEF Matching
  <2>5. j - i + (i - T[i] + k) = j - T[i] + k
    BY <1>1, <1>2, <1>3
  <2> QED BY <2>2, <2>4, <2>5
<1>4. ASSUME NEW p \in 0 .. hlen - len, Here(P, len, H, p) PROVE p >= j - T[i]
  <2>1. p >= j - i
    BY <1>4 DEF Matching
  <2>2. p # j - i
    <3> SUFFICES ASSUME p = j - i PROVE FALSE
      OBVIOUS
    <3>1. P[i] = H[p + i]
      BY <1>1, <1>4 DEF Here
    <3>2. p + i = j
      BY <1>1
    <3> QED BY <3>1, <3>2
  <2>3. CASE p > j
    BY <1>1, <1>2, <2>3
  <2>4. CASE p <= j
    <3> DEFINE b == j - p
    <3>1. b \in Int /\ b \in 0 .. i - 1
      BY <1>1, <2>1, <2>2, <2>4
    <3>2. ASSUME NEW k \in 0 .. b - 1 PROVE P[k] = P[i - b + k]
      <4>1. P[k] = H[p + k]
        BY <1>1, <1>4, <3>1, <3>2 DEF Here
      <4>2. i - b + k \in 0 .. i - 1
        BY <1>1, <3>1, <3>2
      <4>3. P[i - b + k] = H[j - i + (i - b + k)]
        BY <1>1, <4>2 DEF Matching
      <4>4. j - i + (i - b + k) = p + k
        BY <1>1, <3>2
      <4> QED BY <4>1, <4>3, <4>4
    <3>3. Border(P, b, i)
      BY <3>1, <3>2 DEF Border
    <3>4. P[b] = H[p + b]
      BY <1>1, <1>4, <3>1 DEF Here
    <3>5. p + b = j
      BY <1>1
    <3>6. b <= T[i]
      BY <1>1, <3>1, <3>3, <3>4, <3>5 DEF Entry
    <3> QED BY <1>1, <1>2, <3>6
  <2> QED BY <1>1, <2>3, <2>4
<1> QED BY <1>1, <1>2, <1>3, <1>4 DEF Matching

(* At a right one the match grows, until it is complete.                   *)
LEMMA FindAdvances ==
  ASSUME NEW P, NEW len \in Nat, NEW H, NEW hlen \in Nat, NEW i, NEW j,
         Matching(P, len, H, hlen, i, j), j < hlen, ~(i > -1 /\ P[i] # H[j])
  PROVE  /\ i + 1 < len => Matching(P, len, H, hlen, i + 1, j + 1)
         /\ i + 1 >= len => j - i \in 0 .. hlen - len /\ Here(P, len, H, j - i)
<1>1. i \in -1 .. len - 1 /\ i \in Int /\ j \in Int /\ j \in 0 .. hlen - 1 /\ i <= j
  BY DEF Matching
<1>2. ASSUME NEW k \in 0 .. i PROVE P[k] = H[j + 1 - (i + 1) + k]
  <2>1. j + 1 - (i + 1) + k = j - i + k
    BY <1>1
  <2>2. CASE k = i
    BY <1>1, <2>1, <2>2
  <2>3. CASE k # i
    BY <1>1, <2>1, <2>3 DEF Matching
  <2> QED BY <2>2, <2>3
<1>3. \A p \in 0 .. hlen - len : Here(P, len, H, p) => p >= j + 1 - (i + 1)
  BY <1>1 DEF Matching
<1>4. ASSUME i + 1 < len PROVE Matching(P, len, H, hlen, i + 1, j + 1)
  BY <1>1, <1>2, <1>3, <1>4 DEF Matching
<1>5. ASSUME i + 1 >= len PROVE j - i \in 0 .. hlen - len /\ Here(P, len, H, j - i)
  <2>1. i + 1 = len /\ j - i \in 0 .. hlen - len
    BY <1>1, <1>5
  <2>2. \A k \in 0 .. len - 1 : P[k] = H[j - i + k]
    <3> TAKE k \in 0 .. len - 1
    <3>1. k \in 0 .. i /\ j + 1 - (i + 1) + k = j - i + k
      BY <1>1, <2>1
    <3> QED BY <1>2, <3>1
  <2> QED BY <2>1, <2>2 DEF Here
<1> QED BY <1>4, <1>5

(* The table is complete, and the search begins at the first character.    *)
LEMMA BuildEnds ==
  ASSUME NEW P, NEW len \in Nat \ {0}, NEW T, NEW H, NEW hlen \in Nat, NEW i, NEW j,
         Building(P, len, T, i, j), i >= len
  PROVE  Matching(P, len, H, hlen, 0, 0) /\ \A k \in 0 .. len : Entry(P, len, T[k], k)
<1>1. i = len
  BY DEF Building
<1> QED BY <1>1 DEF Building, Matching

(* found is the first place of the needle, -1 if there is none.            *)
First(P, len, H, hlen, found) ==
  IF \E p \in 0 .. hlen - len : Here(P, len, H, p)
  THEN /\ found \in 0 .. hlen - len /\ Here(P, len, H, found)
       /\ \A p \in 0 .. hlen - len : Here(P, len, H, p) => found <= p
  ELSE found = -1

(* What is left of the haystack is too short.                              *)
LEMMA FindMisses ==
  ASSUME NEW P, NEW len \in Nat, NEW H, NEW hlen \in Nat, NEW i, NEW j,
         Matching(P, len, H, hlen, i, j), i >= 0, ~(j < hlen /\ hlen - j + i >= len)
  PROVE  First(P, len, H, hlen, -1)
<1>1. i \in Int /\ j \in Int /\ i \in 0 .. len - 1 /\ j \in 0 .. hlen
  BY DEF Matching
<1>2. ASSUME NEW p \in 0 .. hlen - len, Here(P, len, H, p) PROVE FALSE
  <2>1. p >= j - i
    BY <1>2 DEF Matching
  <2> QED BY <1>1, <2>1
<1> QED BY <1>2 DEF First

(* The needle is here, and it is nowhere before.                           *)
LEMMA FindHits ==
  ASSUME NEW P, NEW len \in Nat, NEW H, NEW hlen \in Nat, NEW i, NEW j,
         Matching(P, len, H, hlen, i, j), j < hlen, ~(i > -1 /\ P[i] # H[j]), i + 1 >= len
  PROVE  j - i \in 0 .. hlen - len /\ First(P, len, H, hlen, j - i)
<1>1. j - i \in 0 .. hlen - len /\ Here(P, len, H, j - i)
  BY FindAdvances
<1>2. \A p \in 0 .. hlen - len : Here(P, len, H, p) => j - i <= p
  BY <1>1 DEF Matching
<1> QED BY <1>1, <1>2 DEF First

-----------------------------------------------------------------------------
(* A search from left to right, at each place of the code.                 *)
Goes(P, len, T, H, hlen, i, j, pc, found) ==
  /\ pc = "build" => Building(P, len, T, i, j)
  /\ pc \in {"search", "match"} =>
       Matching(P, len, H, hlen, i, j) /\ \A k \in 0 .. len : Entry(P, len, T[k], k)
  /\ pc = "search" => i >= 0
  /\ pc = "match" => j < hlen
  /\ (pc = "returned" /\ len > 0) => First(P, len, H, hlen, found)

(* What a call has been given, and the types of its locals.                *)
Given ==
  /\ call.len \in Nat
  /\ call.P \in [0 .. call.len - 1 -> Chars]
  /\ call.start \in Starts
  /\ \/ call.way = "find" /\ call.at = StartOf(str, call.start) /\ call.hlen = str.i - call.at
     \/ call.way = "findR" /\ call.at = 0 /\ call.hlen = StartOf(str, call.start) + 1
  /\ call.at \in Nat /\ call.hlen \in Nat /\ call.at + call.hlen <= str.i

Locals ==
  /\ loop \in {"build", "search", "match", "returned"}
  /\ loop # "returned" => call.len > 0 /\ call.hlen >= call.len
  /\ at_i \in Int /\ at_j \in Int /\ V_FindPosition \in Int
  /\ P_KMP_Table = [k \in 0 .. call.len |-> P_KMP_Table[k]]
  /\ \/ V_FindPosition = -1
     \/ /\ loop = "returned" /\ call.len > 0
        /\ V_FindPosition - call.at \in 0 .. call.hlen - call.len

(* What it searches.                                                       *)
Window == [k \in 0 .. call.hlen - 1 |-> str.d[call.at + k]]

(* A search from left to right.                                            *)
GoesRight ==
  Goes(call.P, call.len, P_KMP_Table, Window, call.hlen, at_i, at_j, loop,
       IF V_FindPosition = -1 THEN -1 ELSE V_FindPosition - call.at)

(* A search from right to left is one from left to right in a mirror.      *)
Mirrored(f, n) == [k \in 0 .. n - 1 |-> f[n - 1 - k]]
MirroredTable == [k \in 0 .. call.len |-> call.len - 1 - P_KMP_Table[call.len - k]]

GoesLeft ==
  Goes(Mirrored(call.P, call.len), call.len, MirroredTable, Mirrored(Window, call.hlen), call.hlen,
       call.len - 1 - at_i, (IF loop = "build" THEN call.len ELSE call.hlen) - 1 - at_j, loop,
       IF V_FindPosition = -1 THEN -1 ELSE call.hlen - call.len - V_FindPosition)

(* The entries it has made.                                                *)
Filled ==
  loop # "returned" =>
    \A k \in 0 .. call.len : (loop # "build" \/ k > at_i) => P_KMP_Table[k] \in Int

(* The inductive invariant.                                                *)
FindInv ==
  /\ StringInv
  /\ call # NULL =>
       /\ format = NULL
       /\ Given
       /\ Locals
       /\ IF call.way = "find" THEN GoesRight ELSE GoesLeft /\ Filled

(* A turn leaves the call and the string as they are.                      *)
LEMMA TurnKeeps ==
  ASSUME FindInv, call # NULL, UNCHANGED <<stringVars, call>>
  PROVE  /\ StringInv' /\ format' = NULL /\ Given' /\ call' = call /\ Window' = Window
         /\ str' = str /\ text' = text
<1>1. str' = str /\ text' = text /\ format' = format /\ call' = call
  BY DEF stringVars
<1> QED BY <1>1 DEF FindInv, StringInv, Given, Window, Starts, StartOf, Holds

(* A call begins with an empty table, or returns at once.                  *)
LEMMA CallInv ==
  ASSUME FindInv, NEW len \in 0 .. MaxNeedle, NEW P \in [0 .. len - 1 -> Chars], NEW start \in Starts,
         utstring_find(start, P, len)
  PROVE  FindInv'
<1> DEFINE at == StartOf(str, start)
<1>1. /\ call = NULL /\ format = NULL /\ UNCHANGED stringVars
      /\ call' = [way |-> "find", start |-> start, at |-> at, hlen |-> str.i - at, P |-> P, len |-> len]
      /\ loop' = (IF str.i - at >= len /\ len > 0 THEN "build" ELSE "returned")
      /\ at_i' = 0 /\ at_j' = -1 /\ V_FindPosition' = -1
      /\ P_KMP_Table' = [e \in 0 .. len |-> IF e = 0 THEN -1 ELSE JUNK]
  BY DEF utstring_find, Searching
<1>2. str' = str /\ text' = text /\ format' = NULL
  BY <1>1 DEF stringVars
<1>3. /\ call'.way = "find" /\ call'.start = start /\ call'.at = at /\ call'.hlen = str.i - at
      /\ call'.P = P /\ call'.len = len
  BY <1>1
<1>4. at \in 0 .. str.i - 1 /\ str.i \in Nat /\ str.i = Len(text)
  BY SMTT(20) DEF FindInv, StringInv, Holds, StartOf, Starts
<1>5. len \in Nat
  BY NeedleAssumption
<1>6. Given'
  BY <1>1, <1>2, <1>3, <1>4, <1>5 DEF Given, Starts
<1>7. Locals'
  BY <1>1, <1>3, <1>5 DEF Locals
<1>8. GoesRight'
  <2> DEFINE H == Window'
             T == P_KMP_Table'
             h == str.i - at
  <2> HIDE DEF H
  <2>1. CASE h >= len /\ len > 0
    <3>1. Entry(P, len, -1, 0)
      BY DEF Entry, Border
    <3>2. T[0] = -1
      BY <1>1, <1>5
    <3>3. Building(P, len, T, 0, -1)
      BY <1>5, <3>1, <3>2, <2>1 DEF Building, Border
    <3>4. loop' = "build"
      BY <1>1, <2>1
    <3>5. Goes(P, len, T, H, h, 0, -1, loop', -1)
      BY <3>3, <3>4, <2>1 DEF Goes
    <3> QED BY <1>1, <1>3, <3>5 DEF GoesRight, H
  <2>2. CASE ~(h >= len /\ len > 0)
    <3>1. loop' = "returned"
      BY <1>1, <2>2
    <3>2. len > 0 => First(P, len, H, h, -1)
      BY <1>4, <1>5, <2>2 DEF First
    <3>3. Goes(P, len, T, H, h, 0, -1, loop', -1)
      BY <3>1, <3>2 DEF Goes
    <3> QED BY <1>1, <1>3, <3>3 DEF GoesRight, H
  <2> QED BY <2>1, <2>2
<1>9. StringInv'
  BY <1>1, StringStep DEF FindInv
<1> QED BY <1>2, <1>3, <1>6, <1>7, <1>8, <1>9 DEF FindInv

(* The same, from the right.                                               *)
LEMMA CallRInv ==
  ASSUME FindInv, NEW len \in 0 .. MaxNeedle, NEW P \in [0 .. len - 1 -> Chars], NEW start \in Starts,
         utstring_findR(start, P, len)
  PROVE  FindInv'
<1> DEFINE h == StartOf(str, start) + 1
<1>1. /\ call = NULL /\ format = NULL /\ UNCHANGED stringVars
      /\ call' = [way |-> "findR", start |-> start, at |-> 0, hlen |-> h, P |-> P, len |-> len]
      /\ loop' = (IF h >= len /\ len > 0 THEN "build" ELSE "returned")
      /\ at_i' = len - 1 /\ at_j' = len /\ V_FindPosition' = -1
      /\ P_KMP_Table' = [e \in 0 .. len |-> IF e = len THEN len ELSE JUNK]
  BY DEF utstring_findR, Searching
<1>2. str' = str /\ text' = text /\ format' = NULL
  BY <1>1 DEF stringVars
<1>3. /\ call'.way = "findR" /\ call'.start = start /\ call'.at = 0 /\ call'.hlen = h
      /\ call'.P = P /\ call'.len = len
  BY <1>1, SMTT(20)
<1>4. h \in 1 .. str.i /\ str.i \in Nat /\ str.i = Len(text)
  BY SMTT(20) DEF FindInv, StringInv, Holds, StartOf, Starts
<1>5. len \in Nat
  BY NeedleAssumption
<1>6. Given'
  BY <1>1, <1>2, <1>3, <1>4, <1>5 DEF Given, Starts
<1>7. Locals'
  BY <1>1, <1>3, <1>5 DEF Locals
<1>8. GoesLeft'
  <2> DEFINE H == Mirrored(Window', h)
             Q == Mirrored(P, len)
             T == MirroredTable'
  <2>0. T[0] = -1
    <3>1. T[0] = len - 1 - P_KMP_Table'[len - 0]
      BY <1>3, <1>5 DEF MirroredTable
    <3>2. P_KMP_Table'[len - 0] = len
      BY <1>1, <1>5
    <3> QED BY <1>5, <3>1, <3>2
  <2>a. len - 1 - (len - 1) = 0 /\ len - 1 - len = -1
    BY <1>5
  <2> HIDE DEF H, Q, T, h
  <2>1. CASE h >= len /\ len > 0
    <3>1. Entry(Q, len, -1, 0)
      BY DEF Entry, Border
    <3>3. Building(Q, len, T, 0, -1)
      BY <1>5, <3>1, <2>0, <2>1 DEF Building, Border
    <3>4. loop' = "build"
      BY <1>1, <2>1
    <3>5. Goes(Q, len, T, H, h, 0, -1, loop', -1)
      BY <3>3, <3>4, <2>1 DEF Goes
    <3> QED BY <1>1, <1>3, <2>a, <3>4, <3>5 DEF GoesLeft, H, Q, T
  <2>2. CASE ~(h >= len /\ len > 0)
    <3> DEFINE j == h - 1 - len
    <3>1. loop' = "returned"
      BY <1>1, <2>2
    <3>2. len > 0 => First(Q, len, H, h, -1)
      BY <1>4, <1>5, <2>2 DEF First
    <3>3. Goes(Q, len, T, H, h, 0, j, loop', -1)
      BY <3>1, <3>2 DEF Goes
    <3> QED BY <1>1, <1>3, <2>a, <3>1, <3>3 DEF GoesLeft, H, Q, T
  <2> QED BY <2>1, <2>2
<1>9. StringInv'
  BY <1>1, StringStep DEF FindInv
<1>10. Filled'
  BY <1>1, <1>3, <1>5 DEF Filled
<1> QED BY <1>2, <1>3, <1>6, <1>7, <1>8, <1>9, <1>10 DEF FindInv

(* What is known of a call before a turn.                                  *)
LEMMA CallFacts ==
  ASSUME FindInv, call # NULL, loop # "returned"
  PROVE  /\ call.len \in Nat /\ call.len > 0 /\ call.hlen \in Nat /\ call.hlen >= call.len
         /\ at_i \in Int /\ at_j \in Int /\ call.at \in Nat
         /\ P_KMP_Table = [k \in 0 .. call.len |-> P_KMP_Table[k]]
         /\ V_FindPosition = -1
         /\ call.way = "find" => GoesRight
         /\ call.way = "findR" => call.at = 0 /\ GoesLeft /\ Filled
<1>1. Given /\ Locals
  BY DEF FindInv
<1>2. call.way = "find" => GoesRight
  BY DEF FindInv
<1>3. call.way = "findR" => GoesLeft /\ Filled
  BY DEF FindInv
<1>4. call.way = "findR" => call.at = 0
  BY <1>1 DEF Given
<1>5. call.len \in Nat /\ call.hlen \in Nat /\ call.at \in Nat
  BY <1>1 DEF Given
<1> QED BY <1>1, <1>2, <1>3, <1>4, <1>5 DEF Locals

(* A turn of _utstring_BuildTable().                                       *)
LEMMA BuildTableInv == ASSUME FindInv, _utstring_BuildTable PROVE FindInv'
<1> DEFINE P == call.P
           len == call.len
           h == call.hlen
           T == P_KMP_Table
           i == at_i + 1
           j == at_j + 1
           differ == at_j > -1 /\ P[at_i] # P[at_j]
           x == IF i < len /\ P[i] = P[j] THEN T[j] ELSE j
<1>1. call # NULL /\ call.way = "find" /\ loop = "build" /\ UNCHANGED <<stringVars, call>>
  BY DEF _utstring_BuildTable, Runs
<1>2. /\ StringInv' /\ format' = NULL /\ Given' /\ call' = call /\ Window' = Window
  BY <1>1, TurnKeeps
<1>3. /\ len \in Nat \ {0} /\ h \in Nat /\ h >= len /\ at_i \in Int /\ at_j \in Int
      /\ T = [k \in 0 .. len |-> T[k]] /\ V_FindPosition = -1
      /\ Building(P, len, T, at_i, at_j)
  BY <1>1, CallFacts DEF GoesRight, Goes
<1>4. V_FindPosition' = -1
  BY <1>3 DEF _utstring_BuildTable
<1>5. SUFFICES Locals' /\ GoesRight'
  BY <1>1, <1>2 DEF FindInv
<1>6. CASE at_i < len /\ differ
  <2>1. at_j' = T[at_j] /\ loop' = "build" /\ at_i' = at_i /\ T' = T
    BY <1>1, <1>3, <1>6 DEF _utstring_BuildTable
  <2>2. Building(P, len, T, at_i, T[at_j])
    BY <1>3, <1>6, BuildFalls
  <2>3. T[at_j] \in Int
    BY <2>2 DEF Building
  <2>4. Locals'
    BY <1>2, <1>3, <1>4, <2>1, <2>3 DEF Locals
  <2>5. Goes(P, len, T, Window, h, at_i, T[at_j], "build", -1)
    BY <2>2 DEF Goes
  <2> QED BY <1>2, <1>4, <2>1, <2>4, <2>5 DEF GoesRight
<1>7. CASE at_i < len /\ ~differ
  <2>1. at_i' = i /\ at_j' = j /\ loop' = "build" /\ T' = [T EXCEPT ![i] = x]
    BY <1>1, <1>3, <1>7 DEF _utstring_BuildTable
  <2>2. i \in 0 .. len
    BY <1>3, <1>7 DEF Building
  <2> DEFINE U == [T EXCEPT ![i] = x]
  <2>3. U[i] = x /\ (\A k \in 0 .. at_i : U[k] = T[k]) /\ U = [k \in 0 .. len |-> U[k]]
    <3> HIDE DEF x, T
    <3>1. i # at_i /\ 0 .. at_i \subseteq 0 .. len /\ \A k \in 0 .. at_i : k # i
      BY <1>3, <2>2
    <3> QED BY <1>3, <2>2, <3>1, Zenon
  <2> HIDE DEF U
  <2>4. Building(P, len, U, i, j)
    BY <1>3, <1>7, <2>3, BuildAdvances
  <2>5. Locals'
    BY <1>2, <1>3, <1>4, <2>1, <2>3 DEF Locals, U
  <2>6. Goes(P, len, U, Window, h, i, j, "build", -1)
    BY <2>4 DEF Goes
  <2> QED BY <1>2, <1>4, <2>1, <2>5, <2>6 DEF GoesRight, U
<1>8. CASE ~(at_i < len)
  <2>1. at_i' = 0 /\ at_j' = 0 /\ loop' = "search" /\ T' = T
    BY <1>1, <1>3, <1>8 DEF _utstring_BuildTable
  <2>2. Matching(P, len, Window, h, 0, 0) /\ \A k \in 0 .. len : Entry(P, len, T[k], k)
    <3>1. at_i >= len
      BY <1>3, <1>8
    <3> HIDE DEF P, T, h
    <3> QED BY <1>3, <3>1, BuildEnds
  <2>3. Locals'
    BY <1>2, <1>3, <1>4, <2>1 DEF Locals
  <2>4. Goes(P, len, T, Window, h, 0, 0, "search", -1)
    BY <2>2 DEF Goes
  <2> QED BY <1>2, <1>4, <2>1, <2>3, <2>4 DEF GoesRight
<1> QED BY <1>6, <1>7, <1>8

(* A turn of either loop of _utstring_find().                              *)
LEMMA FindTurnInv == ASSUME FindInv, _utstring_find PROVE FindInv'
<1> DEFINE P == call.P
           len == call.len
           h == call.hlen
           T == P_KMP_Table
           H == Window
           differ == at_i > -1 /\ P[at_i] # Hay(at_j)
<1>1. /\ call # NULL /\ call.way = "find" /\ loop \in {"search", "match"}
      /\ UNCHANGED <<stringVars, call>> /\ T' = T
  BY DEF _utstring_find, Runs
<1>2. /\ StringInv' /\ format' = NULL /\ Given' /\ call' = call /\ Window' = Window
  BY <1>1, TurnKeeps
<1>3. /\ len \in Nat \ {0} /\ h \in Nat /\ h >= len /\ at_i \in Int /\ at_j \in Int
      /\ T = [k \in 0 .. len |-> T[k]] /\ V_FindPosition = -1 /\ call.at \in Nat
      /\ Matching(P, len, H, h, at_i, at_j)
      /\ \A k \in 0 .. len : Entry(P, len, T[k], k)
  BY <1>1, CallFacts DEF GoesRight, Goes
<1>4. at_j < h => Hay(at_j) = H[at_j]
  BY <1>3 DEF Hay, Window, Matching
<1> HIDE DEF H
<1>5. SUFFICES Locals' /\ GoesRight'
  BY <1>1, <1>2 DEF FindInv
<1>6. CASE loop = "search"
  <2>1. /\ loop' = (IF Fits THEN "match" ELSE "returned") /\ at_i' = at_i /\ at_j' = at_j
        /\ V_FindPosition' = -1
    BY <1>3, <1>6 DEF _utstring_find, Runs
  <2>2. Locals'
    BY <1>1, <1>2, <1>3, <2>1 DEF Locals
  <2>3. at_i >= 0
    BY <1>1, <1>6 DEF FindInv, GoesRight, Goes
  <2>4. CASE Fits
    <3>1. Goes(P, len, T, H, h, at_i, at_j, "match", -1)
      BY <1>3, <2>4 DEF Goes, Fits
    <3> QED BY <1>1, <1>2, <2>1, <2>2, <2>4, <3>1 DEF GoesRight, H
  <2>5. CASE ~Fits
    <3>1. First(P, len, H, h, -1)
      BY <1>3, <2>3, <2>5, FindMisses DEF Fits
    <3>2. Goes(P, len, T, H, h, at_i, at_j, "returned", -1)
      BY <1>3, <3>1 DEF Goes
    <3> QED BY <1>1, <1>2, <2>1, <2>2, <2>5, <3>2 DEF GoesRight, H
  <2> QED BY <2>4, <2>5
<1>7. CASE loop = "match" /\ differ
  <2>1. loop' = "match" /\ at_i' = T[at_i] /\ at_j' = at_j /\ V_FindPosition' = -1
    BY <1>3, <1>7 DEF _utstring_find, Runs
  <2>2. at_j < h
    BY <1>1, <1>7 DEF FindInv, GoesRight, Goes
  <2>3. Matching(P, len, H, h, T[at_i], at_j)
    BY <1>3, <1>4, <1>7, <2>2, FindFalls
  <2>4. T[at_i] \in Int
    BY <2>3 DEF Matching
  <2>5. Locals'
    BY <1>1, <1>2, <1>3, <2>1, <2>4 DEF Locals
  <2>6. Goes(P, len, T, H, h, T[at_i], at_j, "match", -1)
    BY <1>3, <2>2, <2>3 DEF Goes
  <2> QED BY <1>1, <1>2, <2>1, <2>5, <2>6 DEF GoesRight, H
<1>8. CASE loop = "match" /\ ~differ
  <2>1. /\ at_i' = at_i + 1 /\ at_j' = at_j + 1
        /\ loop' = IF at_i + 1 >= len THEN "returned" ELSE "search"
        /\ V_FindPosition' = IF at_i + 1 >= len THEN (at_j + 1) - (at_i + 1) + call.at ELSE -1
    BY <1>3, <1>8 DEF _utstring_find, Runs
  <2>2. at_j < h
    BY <1>1, <1>8 DEF FindInv, GoesRight, Goes
  <2>4. CASE at_i + 1 >= len
    <3>1. at_j - at_i \in 0 .. h - len /\ First(P, len, H, h, at_j - at_i)
      BY <1>3, <1>4, <1>8, <2>2, <2>4, FindHits, SMTT(20)
    <3>2. /\ V_FindPosition' # -1 /\ V_FindPosition' - call.at = at_j - at_i
          /\ loop' = "returned"
      BY <1>3, <2>1, <2>4, <3>1
    <3>3. Goes(P, len, T, H, h, at_i + 1, at_j + 1, "returned", at_j - at_i)
      BY <1>3, <3>1 DEF Goes
    <3>4. Locals'
      BY <1>1, <1>2, <1>3, <2>1, <3>1, <3>2, SMTT(20) DEF Locals
    <3> QED BY <1>1, <1>2, <2>1, <3>2, <3>3, <3>4 DEF GoesRight, H
  <2>5. CASE ~(at_i + 1 >= len)
    <3>1. Matching(P, len, H, h, at_i + 1, at_j + 1)
      <4>1. at_i + 1 < len
        BY <1>3, <2>5
      <4> HIDE DEF P
      <4> QED BY <1>3, <1>4, <1>8, <2>2, <4>1, FindAdvances
    <3>2. at_i + 1 >= 0 /\ V_FindPosition' = -1 /\ loop' = "search"
      BY <1>3, <2>1, <2>5 DEF Matching
    <3>3. Goes(P, len, T, H, h, at_i + 1, at_j + 1, "search", -1)
      BY <1>3, <3>1, <3>2 DEF Goes
    <3>4. Locals'
      BY <1>1, <1>2, <1>3, <2>1, <3>2 DEF Locals
    <3> QED BY <1>1, <1>2, <2>1, <3>2, <3>3, <3>4 DEF GoesRight, H
  <2> QED BY <2>4, <2>5
<1> QED BY <1>1, <1>6, <1>7, <1>8
(* What is k from the right is n - 1 - k from the left.                    *)
LEMMA MirrorAt ==
  ASSUME NEW f, NEW n \in Nat, NEW k \in 0 .. n - 1
  PROVE  Mirrored(f, n)[n - 1 - k] = f[k]
<1>1. n - 1 - k \in 0 .. n - 1 /\ n - 1 - (n - 1 - k) = k
  OBVIOUS
<1> QED BY <1>1 DEF Mirrored

(* A turn of _utstring_BuildTableR().                                      *)
LEMMA BuildTableRInv == ASSUME FindInv, _utstring_BuildTableR PROVE FindInv'
<1> DEFINE P == call.P
           len == call.len
           h == call.hlen
           T == P_KMP_Table
           i == at_i - 1
           j == at_j - 1
           differ == at_j < len /\ P[at_i] # P[at_j]
           x == IF i >= 0 /\ P[i] = P[j] THEN T[j + 1] ELSE j
           Q == Mirrored(P, len)
           S == MirroredTable
           H == Mirrored(Window, h)
           a == len - 1 - at_i
           b == len - 1 - at_j
<1>1. call # NULL /\ call.way = "findR" /\ loop = "build" /\ UNCHANGED <<stringVars, call>>
  BY DEF _utstring_BuildTableR, Runs
<1>2. /\ StringInv' /\ format' = NULL /\ Given' /\ call' = call /\ Window' = Window
  BY <1>1, TurnKeeps
<1>3. /\ len \in Nat /\ len > 0 /\ h \in Nat /\ h >= len /\ at_i \in Int /\ at_j \in Int
      /\ T = [k \in 0 .. len |-> T[k]] /\ V_FindPosition = -1
      /\ Building(Q, len, S, a, b) /\ Filled
  BY <1>1, CallFacts DEF GoesLeft, Goes
<1>4. V_FindPosition' = -1
  BY <1>3 DEF _utstring_BuildTableR
<1>5. SUFFICES Locals' /\ GoesLeft' /\ Filled'
  BY <1>1, <1>2 DEF FindInv
<1>6. a \in 0 .. len /\ b \in -1 .. a - 1 /\ a \in Int /\ b \in Int
  BY <1>3 DEF Building
<1>7. \A k \in 0 .. len - 1 : Q[len - 1 - k] = P[k]
  BY <1>3, MirrorAt
<1>8. \A k \in 0 .. len : S[k] = len - 1 - T[len - k]
  BY DEF MirroredTable
<1> HIDE DEF Q, S, H
<1>9. CASE at_i >= 0 /\ differ
  <2>1. at_j' = T[at_j + 1] /\ loop' = "build" /\ at_i' = at_i /\ T' = T
    BY <1>1, <1>3, <1>9 DEF _utstring_BuildTableR
  <2>2. at_i \in 0 .. len - 1 /\ at_j \in 0 .. len - 1
    BY <1>3, <1>6, <1>9
  <2>3. a < len /\ b > -1 /\ Q[a] # Q[b]
    BY <1>3, <1>7, <1>9, <2>2
  <2>4. Building(Q, len, S, a, S[b])
    <3> HIDE DEF a, b
    <3> QED BY <1>3, <2>3, BuildFalls
  <2>5. S[b] = len - 1 - T[at_j + 1] /\ S[b] \in Int
    <3>1. b \in 0 .. len /\ len - b = at_j + 1
      BY <1>3, <2>2
    <3>2. S[b] \in Int
      BY <2>4, SMTT(20) DEF Building
    <3> QED BY <1>8, <3>1, <3>2, SMTT(20)
  <2>6. T[at_j + 1] \in Int
    <3>1. at_j + 1 \in 0 .. len /\ at_j + 1 > at_i
      BY <1>3, <1>6, <2>2, SMTT(20)
    <3> QED BY <1>1, <1>3, <3>1 DEF Filled
  <2>7. Locals'
    BY <1>2, <1>3, <1>4, <2>1, <2>6 DEF Locals
  <2>8. Goes(Q, len, S, H, h, a, S[b], "build", -1)
    BY <2>4 DEF Goes
  <2>9. S' = S
    BY <1>2, <2>1 DEF S, MirroredTable
  <2>10. Filled'
    BY <1>1, <1>2, <1>3, <2>1 DEF Filled
  <2>11. GoesLeft'
    BY <1>2, <1>4, <2>1, <2>5, <2>8, <2>9 DEF GoesLeft, Q, S, H
  <2> QED BY <2>7, <2>10, <2>11
<1>10. CASE at_i >= 0 /\ ~differ
  <2>1. at_i' = i /\ at_j' = j /\ loop' = "build" /\ T' = [T EXCEPT ![i + 1] = x]
    BY <1>1, <1>3, <1>10 DEF _utstring_BuildTableR
  <2> DEFINE U == [T EXCEPT ![i + 1] = x]
             V == MirroredTable'
  <2>2. i + 1 = at_i /\ at_i \in 0 .. len - 1 /\ at_j \in 0 .. len /\ j + 1 = at_j
    BY <1>3, <1>6, <1>10
  <2>3. U[at_i] = x /\ (\A k \in at_i + 1 .. len : U[k] = T[k]) /\ U = [k \in 0 .. len |-> U[k]]
    <3> HIDE DEF x, T
    <3>1. \A k \in at_i + 1 .. len : k \in 0 .. len /\ k # at_i
      BY <1>3, <2>2
    <3>2. at_i \in 0 .. len
      BY <1>3, <2>2
    <3> QED BY <1>3, <2>2, <3>1, <3>2, Zenon
  <2>4. \A k \in 0 .. len : V[k] = len - 1 - U[len - k]
    BY <1>2, <2>1 DEF MirroredTable
  <2> HIDE DEF U, V
  <2>5. \A k \in 0 .. a : V[k] = S[k]
    <3> TAKE k \in 0 .. a
    <3>1. k \in 0 .. len /\ len - k \in at_i + 1 .. len
      BY <1>3, <2>2
    <3> QED BY <1>8, <2>3, <2>4, <3>1
  <2>6. V[a + 1] = IF a + 1 < len /\ Q[a + 1] = Q[b + 1] THEN S[b + 1] ELSE b + 1
    <3>0. len \in Int /\ at_i \in Int /\ at_j \in Int /\ at_i >= 0 /\ at_i <= len - 1
      BY <1>3, <2>2
    <3>1. a + 1 \in 0 .. len /\ len - (a + 1) = at_i /\ a + 1 = len - 1 - i /\ b + 1 = len - 1 - j
      BY <3>0
    <3>2. V[a + 1] = len - 1 - x
      BY <2>3, <2>4, <3>1
    <3>3. a + 1 < len <=> i >= 0
      BY <1>3, <3>1
    <3>4. ASSUME i >= 0 PROVE Q[a + 1] = P[i] /\ Q[b + 1] = P[j] /\ S[b + 1] = len - 1 - T[j + 1]
      <4>1. i \in 0 .. len - 1 /\ j \in 0 .. len - 1 /\ b + 1 \in 0 .. len /\ len - (b + 1) = j + 1
        BY <3>0, <1>6, <2>2, <3>4
      <4> QED BY <1>7, <1>8, <3>1, <4>1
    <3>5. CASE i >= 0 /\ P[i] = P[j]
      BY <3>2, <3>3, <3>4, <3>5
    <3>6. CASE ~(i >= 0 /\ P[i] = P[j])
      <4>1. x = j
        BY <3>6
      <4>2. len - 1 - j = b + 1
        BY <1>3
      <4> HIDE DEF x, j
      <4> QED BY <3>2, <3>3, <3>4, <3>6, <4>1, <4>2
    <3> QED BY <3>5, <3>6
  <2>7. a < len /\ ~(b > -1 /\ Q[a] # Q[b])
    <3>1. a < len
      BY <1>3, <2>2
    <3>2. ASSUME b > -1 PROVE Q[a] = Q[b]
      <4>1. at_j \in 0 .. len - 1
        BY <1>3, <2>2, <3>2
      <4> QED BY <1>3, <1>7, <1>10, <2>2, <4>1
    <3> QED BY <3>1, <3>2
  <2>8. Building(Q, len, V, a + 1, b + 1)
    <3> HIDE DEF a, b
    <3> QED BY <1>3, <2>5, <2>6, <2>7, BuildAdvances
  <2>9. Locals'
    BY <1>2, <1>3, <1>4, <2>1, <2>3 DEF Locals, U
  <2>10. Goes(Q, len, V, H, h, a + 1, b + 1, "build", -1)
    BY <2>8 DEF Goes
  <2>11. len - 1 - at_i' = a + 1 /\ len - 1 - at_j' = b + 1
    BY <1>3, <2>1
  <2>12. GoesLeft'
    BY <1>2, <1>4, <2>1, <2>10, <2>11 DEF GoesLeft, Q, V, H
  <2>13. Filled'
    <3>1. x \in Int
      <4>1. i >= 0 => at_j \in 0 .. len /\ at_j > at_i
        BY <1>3, <1>6, <2>2
      <4>2. i >= 0 => T[at_j] \in Int
        BY <1>1, <1>3, <4>1 DEF Filled
      <4> QED BY <1>3, <2>2, <4>2
    <3> SUFFICES ASSUME NEW k \in 0 .. len, k > i PROVE U[k] \in Int
      BY <1>2, <2>1 DEF Filled, U
    <3>2. CASE k = at_i
      BY <2>3, <3>1, <3>2
    <3>3. CASE k # at_i
      <4>1. k \in at_i + 1 .. len /\ k > at_i
        BY <1>3, <2>2, <3>3
      <4> QED BY <1>1, <1>3, <2>3, <4>1 DEF Filled
    <3> QED BY <3>2, <3>3
  <2> QED BY <2>9, <2>12, <2>13
<1>11. CASE ~(at_i >= 0)
  <2>1. at_i' = len - 1 /\ at_j' = h - 1 /\ loop' = "search" /\ T' = T
    BY <1>1, <1>3, <1>11 DEF _utstring_BuildTableR
  <2>2. Matching(Q, len, H, h, 0, 0) /\ \A k \in 0 .. len : Entry(Q, len, S[k], k)
    <3>1. a >= len /\ len \in Nat \ {0}
      BY <1>3, <1>11
    <3> HIDE DEF a, b, len
    <3> QED BY <1>3, <3>1, BuildEnds
  <2>3. Locals'
    BY <1>2, <1>3, <1>4, <2>1 DEF Locals
  <2>4. Goes(Q, len, S, H, h, 0, 0, "search", -1)
    BY <2>2 DEF Goes
  <2>5. S' = S
    BY <1>2, <2>1 DEF S, MirroredTable
  <2>6. len - 1 - at_i' = 0 /\ h - 1 - at_j' = 0
    BY <1>3, <2>1
  <2>7. GoesLeft'
    BY <1>2, <1>4, <2>1, <2>4, <2>5, <2>6 DEF GoesLeft, Q, S, H
  <2>8. Filled'
    <3>1. \A k \in 0 .. len : k > at_i
      BY <1>3, <1>11
    <3>2. \A k \in 0 .. len : T[k] \in Int
      BY <1>1, <1>3, <3>1 DEF Filled
    <3> QED BY <1>2, <2>1, <3>2 DEF Filled
  <2> QED BY <2>3, <2>7, <2>8
<1> QED BY <1>9, <1>10, <1>11

(* A turn of either loop of _utstring_findR().                             *)
LEMMA FindTurnRInv == ASSUME FindInv, _utstring_findR PROVE FindInv'
<1> DEFINE P == call.P
           len == call.len
           h == call.hlen
           T == P_KMP_Table
           differ == at_i < len /\ P[at_i] # Hay(at_j)
           Q == Mirrored(P, len)
           S == MirroredTable
           H == Mirrored(Window, h)
           a == len - 1 - at_i
           b == h - 1 - at_j
<1>1. /\ call # NULL /\ call.way = "findR" /\ loop \in {"search", "match"}
      /\ UNCHANGED <<stringVars, call>> /\ T' = T
  BY DEF _utstring_findR, Runs
<1>2. /\ StringInv' /\ format' = NULL /\ Given' /\ call' = call /\ Window' = Window
  BY <1>1, TurnKeeps
<1>3. /\ len \in Nat /\ len > 0 /\ h \in Nat /\ h >= len /\ at_i \in Int /\ at_j \in Int
      /\ T = [k \in 0 .. len |-> T[k]] /\ V_FindPosition = -1 /\ call.at = 0
      /\ Matching(Q, len, H, h, a, b)
      /\ \A k \in 0 .. len : Entry(Q, len, S[k], k)
  BY <1>1, CallFacts DEF GoesLeft, Goes
<1>4. \A k \in 0 .. len : T[k] \in Int
  BY <1>1, CallFacts DEF Filled
<1>5. SUFFICES Locals' /\ GoesLeft'
  <2>1. Filled'
    BY <1>1, <1>2, <1>4 DEF Filled
  <2> QED BY <1>1, <1>2, <2>1 DEF FindInv
<1>6. a \in -1 .. len - 1 /\ b \in 0 .. h
  BY <1>3 DEF Matching
<1>7. \A k \in 0 .. len - 1 : Q[len - 1 - k] = P[k]
  BY <1>3, MirrorAt
<1>8. ASSUME b < h PROVE Hay(at_j) = H[b]
  <2>1. at_j \in 0 .. h - 1
    BY <1>3, <1>6, <1>8
  <2>2. Hay(at_j) = Window[at_j]
    BY <1>3, <2>1 DEF Hay, Window
  <2>3. H[h - 1 - at_j] = Window[at_j]
    BY <1>3, <2>1, MirrorAt
  <2> QED BY <2>2, <2>3
<1>9. S' = S
  BY <1>1, <1>2 DEF MirroredTable
<1> HIDE DEF Q, S, H
<1>10. CASE loop = "search"
  <2>1. /\ loop' = (IF FitsR THEN "match" ELSE "returned") /\ at_i' = at_i /\ at_j' = at_j
        /\ V_FindPosition' = -1
    BY <1>3, <1>10 DEF _utstring_findR, Runs
  <2>2. Locals'
    BY <1>1, <1>2, <1>3, <2>1 DEF Locals
  <2>3. a >= 0
    BY <1>1, <1>10, CallFacts DEF GoesLeft, Goes
  <2>4. FitsR <=> b < h /\ h - b + a >= len
    BY <1>3 DEF FitsR
  <2>5. CASE FitsR
    <3>1. Goes(Q, len, S, H, h, a, b, "match", -1)
      BY <1>3, <2>4, <2>5 DEF Goes
    <3> QED BY <1>1, <1>2, <1>9, <2>1, <2>2, <2>5, <3>1 DEF GoesLeft, Q, S, H
  <2>6. CASE ~FitsR
    <3>1. First(Q, len, H, h, -1)
      <4> HIDE DEF a, b
      <4> QED BY <1>3, <2>3, <2>4, <2>6, FindMisses
    <3>2. Goes(Q, len, S, H, h, a, b, "returned", -1)
      BY <1>3, <3>1 DEF Goes
    <3> QED BY <1>1, <1>2, <1>9, <2>1, <2>2, <2>6, <3>2 DEF GoesLeft, Q, S, H
  <2> QED BY <2>5, <2>6
<1>11. CASE loop = "match" /\ differ
  <2>1. loop' = "match" /\ at_i' = T[at_i + 1] /\ at_j' = at_j /\ V_FindPosition' = -1
    BY <1>3, <1>11 DEF _utstring_findR, Runs
  <2>2. b < h
    BY <1>1, <1>11, CallFacts DEF GoesLeft, Goes
  <2>3. at_i \in 0 .. len - 1 /\ a > -1
    BY <1>3, <1>6, <1>11
  <2>4. Q[a] # H[b]
    BY <1>7, <1>8, <1>11, <2>2, <2>3
  <2>5. Matching(Q, len, H, h, S[a], b)
    <3> HIDE DEF a, b
    <3> QED BY <1>3, <2>2, <2>3, <2>4, FindFalls
  <2>6. S[a] = len - 1 - T[at_i + 1] /\ T[at_i + 1] \in Int
    <3>1. a \in 0 .. len /\ len - a = at_i + 1 /\ at_i + 1 \in 0 .. len
      BY <1>3, <2>3
    <3> QED BY <1>4, <3>1 DEF S, MirroredTable
  <2>7. Locals'
    BY <1>1, <1>2, <1>3, <2>1, <2>6 DEF Locals
  <2>8. Goes(Q, len, S, H, h, S[a], b, "match", -1)
    BY <1>3, <2>2, <2>5 DEF Goes
  <2> QED BY <1>1, <1>2, <1>9, <2>1, <2>6, <2>7, <2>8 DEF GoesLeft, Q, S, H
<1>12. CASE loop = "match" /\ ~differ
  <2>1. /\ at_i' = at_i - 1 /\ at_j' = at_j - 1
        /\ loop' = IF at_i - 1 < 0 THEN "returned" ELSE "search"
        /\ V_FindPosition' = IF at_i - 1 < 0 THEN (at_j - 1) + 1 ELSE -1
    BY <1>3, <1>12 DEF _utstring_findR, Runs
  <2>2. b < h
    BY <1>1, <1>12, CallFacts DEF GoesLeft, Goes
  <2>3. ~(a > -1 /\ Q[a] # H[b])
    <3> SUFFICES ASSUME a > -1 PROVE Q[a] = H[b]
      OBVIOUS
    <3>1. at_i \in 0 .. len - 1
      BY <1>3, <1>6
    <3>2. P[at_i] = Hay(at_j)
      BY <1>3, <1>12, <3>1
    <3> QED BY <1>7, <1>8, <2>2, <3>1, <3>2
  <2>4. len - 1 - at_i' = a + 1 /\ h - 1 - at_j' = b + 1 /\ (a + 1 >= len <=> at_i - 1 < 0)
    BY <1>3, <2>1
  <2>5. CASE at_i - 1 < 0
    <3>1. b - a \in 0 .. h - len /\ First(Q, len, H, h, b - a)
      <4> HIDE DEF a, b
      <4> QED BY <1>3, <2>2, <2>3, <2>4, <2>5, FindHits
    <3>2. at_i = 0
      BY <1>3, <1>6, <2>5
    <3>3. /\ V_FindPosition' = at_j /\ at_j \in 0 .. h - len /\ h - len - at_j = b - a
          /\ loop' = "returned"
      BY <1>3, <2>1, <2>5, <3>1, <3>2
    <3>4. Goes(Q, len, S, H, h, a + 1, b + 1, "returned", b - a)
      BY <1>3, <3>1 DEF Goes
    <3>5. Locals'
      BY <1>1, <1>2, <1>3, <2>1, <3>3 DEF Locals
    <3>6. V_FindPosition' # -1
      BY <3>3
    <3> QED BY <1>1, <1>2, <1>9, <2>1, <2>4, <3>3, <3>4, <3>5, <3>6 DEF GoesLeft, Q, S, H
  <2>6. CASE ~(at_i - 1 < 0)
    <3>1. a + 1 < len
      BY <1>3, <2>6
    <3>2. Matching(Q, len, H, h, a + 1, b + 1)
      <4> HIDE DEF a, b
      <4> QED BY <1>3, <2>2, <2>3, <3>1, FindAdvances
    <3>3. a + 1 >= 0 /\ V_FindPosition' = -1 /\ loop' = "search"
      BY <1>6, <2>1, <2>6
    <3>4. Goes(Q, len, S, H, h, a + 1, b + 1, "search", -1)
      BY <1>3, <3>2, <3>3 DEF Goes
    <3>5. Locals'
      BY <1>1, <1>2, <1>3, <2>1, <3>3 DEF Locals
    <3> QED BY <1>1, <1>2, <1>9, <2>1, <2>4, <3>3, <3>4, <3>5 DEF GoesLeft, Q, S, H
  <2> QED BY <2>5, <2>6
<1> QED BY <1>1, <1>10, <1>11, <1>12

(* The three ways out of a state between two turns.                        *)
LEMMA FindStep == ASSUME FindInv, [FindNext]_findVars PROVE FindInv'
<1>1. ASSUME NEW len \in 0 .. MaxNeedle, NEW P \in [0 .. len - 1 -> Chars], NEW start \in Starts,
             utstring_find(start, P, len) \/ utstring_findR(start, P, len)
      PROVE  FindInv'
  BY <1>1, CallInv, CallRInv
<1>2. CASE _utstring_BuildTable \/ _utstring_find \/ _utstring_BuildTableR \/ _utstring_findR
  BY <1>2, BuildTableInv, FindTurnInv, BuildTableRInv, FindTurnRInv
<1>3. CASE Returns
  <2>1. StringInv'
    BY <1>3, StringStep DEF Returns, FindInv
  <2> QED BY <1>3, <2>1 DEF Returns, FindInv
<1>4. CASE call = NULL /\ StringNext /\ UNCHANGED <<call, findLocals>>
  <2>1. StringInv'
    BY <1>4, StringStep DEF FindInv
  <2> QED BY <1>4, <2>1 DEF FindInv
<1>5. CASE UNCHANGED findVars
  <2>1. UNCHANGED <<stringVars, call>> /\ UNCHANGED findLocals
    BY <1>5 DEF findVars
  <2>2. StringInv'
    BY <2>1, StringStep DEF FindInv
  <2>3. CASE call = NULL
    BY <2>1, <2>2, <2>3 DEF FindInv
  <2>4. CASE call # NULL
    <3>1. format' = NULL /\ Given' /\ call' = call /\ Window' = Window
      BY <2>1, <2>4, TurnKeeps
    <3>2. loop' = loop /\ at_i' = at_i /\ at_j' = at_j /\ P_KMP_Table' = P_KMP_Table
          /\ V_FindPosition' = V_FindPosition
      BY <2>1 DEF findLocals
    <3>3. Locals' <=> Locals
      BY <3>1, <3>2 DEF Locals
    <3>4. GoesRight' <=> GoesRight
      BY <3>1, <3>2 DEF GoesRight
    <3>5. GoesLeft' <=> GoesLeft
      BY <3>1, <3>2 DEF GoesLeft, MirroredTable
    <3>6. Filled' <=> Filled
      BY <3>1, <3>2 DEF Filled
    <3> QED BY <2>2, <2>4, <3>1, <3>3, <3>4, <3>5, <3>6 DEF FindInv
  <2> QED BY <2>3, <2>4
<1> QED BY <1>1, <1>2, <1>3, <1>4, <1>5 DEF FindNext, FindTurns

(* The table and the search stay right through all turns of all calls.     *)
LEMMA FindInvariant == FindSpec => []FindInv
<1>1. FindInit => FindInv
  BY InitHolds DEF FindInit, StringInit, StringInv, FindInv
<1>2. FindInv /\ [FindNext]_findVars => FindInv'
  BY FindStep
<1> QED BY <1>1, <1>2, PTL DEF FindSpec

(* Where the needle is in the window, it is in the text.                   *)
LEMMA InText ==
  ASSUME FindInv, call # NULL, NEW p \in 0 .. call.hlen - call.len
  PROVE  (\A k \in 0 .. call.len - 1 : text[p + call.at + k + 1] = call.P[k])
           <=> Here(call.P, call.len, Window, p)
<1>1. call.len \in Nat /\ call.hlen \in Nat /\ call.at \in Nat /\ call.at + call.hlen <= str.i
  BY DEF FindInv, Given
<1>2. str.i \in Nat /\ str.i = Len(text) /\ \A k \in 0 .. str.i - 1 : str.d[k] = text[k + 1]
  BY DEF FindInv, StringInv, Holds
<1>3. ASSUME NEW k \in 0 .. call.len - 1 PROVE Window[p + k] = text[p + call.at + k + 1]
  <2> DEFINE x == p + k
             y == call.at + x
  <2>1. x \in 0 .. call.hlen - 1
    BY <1>1, <1>3
  <2>2. y \in 0 .. str.i - 1 /\ y + 1 = p + call.at + k + 1
    BY <1>1, <1>2, <1>3, <2>1
  <2>3. Window[x] = str.d[y]
    <3> HIDE DEF x
    <3> QED BY <2>1 DEF Window
  <2> HIDE DEF x, y
  <2>4. str.d[y] = text[y + 1]
    BY <1>2, <2>2
  <2> QED BY <2>2, <2>3, <2>4 DEF x
<1> QED BY <1>3 DEF Here

(* From right to left, a place counts from the other end.                  *)
LEMMA InMirror ==
  ASSUME NEW P, NEW len \in Nat, NEW H, NEW h \in Nat, NEW p \in 0 .. h - len
  PROVE  Here(Mirrored(P, len), len, Mirrored(H, h), h - len - p) <=> Here(P, len, H, p)
<1>1. ASSUME NEW k \in 0 .. len - 1
      PROVE  /\ len - 1 - k \in 0 .. len - 1
             /\ Mirrored(P, len)[len - 1 - k] = P[k]
             /\ Mirrored(H, h)[h - len - p + (len - 1 - k)] = H[p + k]
  <2>1. p + k \in 0 .. h - 1 /\ h - 1 - (p + k) = h - len - p + (len - 1 - k)
    BY <1>1
  <2>2. Mirrored(H, h)[h - 1 - (p + k)] = H[p + k]
    BY <2>1, MirrorAt
  <2> QED BY <1>1, <2>1, <2>2, MirrorAt
<1>2. ASSUME Here(P, len, H, p)
      PROVE  Here(Mirrored(P, len), len, Mirrored(H, h), h - len - p)
  <2> SUFFICES ASSUME NEW m \in 0 .. len - 1
               PROVE  Mirrored(P, len)[m] = Mirrored(H, h)[h - len - p + m]
    BY DEF Here
  <2> DEFINE k == len - 1 - m
  <2>1. k \in 0 .. len - 1 /\ len - 1 - k = m
    OBVIOUS
  <2> HIDE DEF k
  <2>2. P[k] = H[p + k]
    BY <1>2, <2>1 DEF Here
  <2> QED BY <1>1, <2>1, <2>2
<1>3. ASSUME Here(Mirrored(P, len), len, Mirrored(H, h), h - len - p)
      PROVE  Here(P, len, H, p)
  <2> SUFFICES ASSUME NEW k \in 0 .. len - 1 PROVE P[k] = H[p + k]
    BY DEF Here
  <2>1. Mirrored(P, len)[len - 1 - k] = Mirrored(H, h)[h - len - p + (len - 1 - k)]
    BY <1>1, <1>3 DEF Here
  <2> QED BY <1>1, <2>1
<1> QED BY <1>2, <1>3

(* What a call returns, from the state its search ends in.                 *)
LEMMA FindResult == ASSUME FindInv PROVE SubstringFound
<1> SUFFICES ASSUME call # NULL, loop = "returned"
             PROVE  IF call.len = 0 \/ Places = {} THEN V_FindPosition = -1
                    ELSE /\ V_FindPosition \in Places
                         /\ \A p \in Places :
                              IF call.way = "find" THEN V_FindPosition <= p ELSE p <= V_FindPosition
  BY DEF SubstringFound
<1> DEFINE len == call.len
           h == call.hlen
           at == call.at
           there(p) == \A k \in 0 .. len - 1 : text[p + k + 1] = call.P[k]
<1>1. Given /\ Locals
  BY DEF FindInv
<1>2. str.i = Len(text) /\ str.i \in Nat
  BY DEF FindInv, StringInv, Holds
<1>3. len \in Nat /\ h \in Nat /\ at \in Nat /\ at + h <= str.i
  BY <1>1 DEF Given
<1>4. \/ V_FindPosition = -1
      \/ len > 0 /\ V_FindPosition - at \in 0 .. h - len /\ V_FindPosition \in Int
  BY <1>1 DEF Locals
<1>5. CASE len = 0
  BY <1>4, <1>5
<1>6. CASE len > 0 /\ call.way = "find"
  <2>1. at + h = str.i
    BY <1>1, <1>2, <1>3, <1>6 DEF Given
  <2>2. Places = {p \in at .. at + h - len : there(p)}
    <3>1. (IF call.start < 0 THEN Len(text) + call.start ELSE call.start) = at
      BY <1>1, <1>2, <1>6 DEF Given, StartOf
    <3>2. Len(text) - len = at + h - len
      BY <1>2, <1>3, <2>1
    <3> HIDE DEF at, len, h
    <3> QED BY <1>6, <3>1, <3>2, Zenon DEF Places, at, len, h
  <2>3. First(call.P, len, Window, h, IF V_FindPosition = -1 THEN -1 ELSE V_FindPosition - at)
    BY <1>6 DEF FindInv, GoesRight, Goes
  <2>4. ASSUME NEW p \in 0 .. h - len PROVE (p + at) \in Places <=> Here(call.P, len, Window, p)
    BY <1>3, <2>2, <2>4, InText
  <2>5. ASSUME NEW q \in Places PROVE q - at \in 0 .. h - len /\ (q - at) + at = q
    BY <1>3, <2>2, <2>5
  <2>6. CASE Places = {}
    <3>1. \A p \in 0 .. h - len : ~Here(call.P, len, Window, p)
      BY <2>4, <2>6
    <3> QED BY <1>3, <1>4, <2>3, <2>6, <3>1 DEF First
  <2>7. CASE Places # {}
    <3>1. \E p \in 0 .. h - len : Here(call.P, len, Window, p)
      BY <2>4, <2>5, <2>7
    <3>2. V_FindPosition # -1
      BY <1>3, <2>3, <3>1 DEF First
    <3> DEFINE v == V_FindPosition - at
    <3>3. v \in 0 .. h - len /\ v + at = V_FindPosition
      BY <1>3, <1>4, <3>2
    <3> HIDE DEF v
    <3>4. Here(call.P, len, Window, v) /\ \A p \in 0 .. h - len : Here(call.P, len, Window, p) => v <= p
      BY <2>3, <3>1, <3>2 DEF First, v
    <3>5. V_FindPosition \in Places
      BY <2>4, <3>3, <3>4
    <3>6. ASSUME NEW q \in Places PROVE V_FindPosition <= q
      <4>1. Here(call.P, len, Window, q - at)
        BY <2>4, <2>5
      <4>2. v <= q - at
        BY <2>5, <3>4, <4>1
      <4> QED BY <1>3, <2>2, <3>3, <4>2
    <3> QED BY <1>6, <2>7, <3>5, <3>6
  <2> QED BY <2>6, <2>7
<1>7. CASE len > 0 /\ call.way # "find"
  <2> DEFINE Q == Mirrored(call.P, len)
             H == Mirrored(Window, h)
             f == IF V_FindPosition = -1 THEN -1 ELSE h - len - V_FindPosition
  <2>1. at = 0 /\ call.way = "findR"
    BY <1>1, <1>7 DEF Given
  <2>2. Places = {p \in 0 .. h - len : there(p)}
    <3>1. call.way # "find"
      BY <1>7
    <3>2. (IF call.start < 0 THEN Len(text) + call.start ELSE call.start) + 1 - call.len = h - len
      BY <1>1, <1>2, <1>3, <1>7, <2>1 DEF Given, StartOf, Starts
    <3> HIDE DEF len, h
    <3>3. 0 .. (IF call.start < 0 THEN Len(text) + call.start ELSE call.start) + 1 - call.len
            = 0 .. h - len
      BY <3>2, Zenon
    <3> QED BY <3>1, <3>3, Zenon DEF Places, len, h
  <2>3. First(Q, len, H, h, f)
    BY <1>7 DEF FindInv, GoesLeft, Goes
  <2>4. ASSUME NEW p \in 0 .. h - len PROVE p \in Places <=> Here(Q, len, H, h - len - p)
    <3>1. p + at = p
      BY <2>1
    <3>2. there(p) <=> Here(call.P, len, Window, p)
      BY <2>4, <3>1, InText
    <3>3. Here(Q, len, H, h - len - p) <=> Here(call.P, len, Window, p)
      BY <1>3, InMirror
    <3> QED BY <2>2, <3>2, <3>3
  <2> HIDE DEF Q, H
  <2>5. ASSUME NEW p \in 0 .. h - len PROVE h - len - p \in 0 .. h - len /\ h - len - (h - len - p) = p
    BY <1>3
  <2>6. CASE Places = {}
    <3>1. \A p \in 0 .. h - len : ~Here(Q, len, H, p)
      BY <2>4, <2>5, <2>6
    <3> QED BY <1>3, <1>4, <2>1, <2>3, <2>6, <3>1 DEF First
  <2>7. CASE Places # {}
    <3>1. \E p \in 0 .. h - len : Here(Q, len, H, p)
      BY <2>2, <2>4, <2>5, <2>7
    <3>2. V_FindPosition # -1
      BY <1>3, <2>3, <3>1 DEF First
    <3>3. V_FindPosition \in 0 .. h - len /\ f = h - len - V_FindPosition
      BY <1>3, <1>4, <2>1, <3>2
    <3> HIDE DEF f
    <3>4. Here(Q, len, H, f) /\ \A p \in 0 .. h - len : Here(Q, len, H, p) => f <= p
      BY <2>3, <3>1 DEF First
    <3>5. V_FindPosition \in Places
      BY <2>4, <3>3, <3>4
    <3>6. ASSUME NEW q \in Places PROVE q <= V_FindPosition
      <4>1. q \in 0 .. h - len
        BY <2>2
      <4>2. Here(Q, len, H, h - len - q)
        BY <2>4, <4>1
      <4>3. f <= h - len - q
        BY <2>5, <3>4, <4>1, <4>2
      <4> QED BY <1>3, <3>3, <4>1, <4>3
    <3> QED BY <1>7, <2>7, <3>5, <3>6
  <2> QED BY <2>6, <2>7
<1> QED BY <1>3, <1>5, <1>6, <1>7

(* Every utstring_find() and utstring_findR() returns the place it should, *)
(* for all texts, needles of every length and all starts in the string.    *)
THEOREM SubstringsAreFound == FindSpec => []SubstringFound
BY FindInvariant, FindResult, PTL

-----------------------------------------------------------------------------
(***************************************************************************)
(* The ring buffer, for rings of every size below the range of size_t, all *)
(* strings and any number of pushes.                                       *)
(*                                                                         *)
(* RingFaithful follows the macros' own arithmetic (a remainder of the     *)
(* number of slots, indices that wrap at the range of size_t). RingOK says *)
(* the same of the slots directly: where the k-th element is without a     *)
(* remainder (SlotOf), that the slots in use are a prefix of the block,    *)
(* and that the strings the ring owns and the slots in use that hold one   *)
(* are in one-to-one correspondence (OneSlotEach). A push into a full ring *)
(* breaks this twice, when the oldest string is freed and when the new one *)
(* is copied to an address that malloc() may give out at once again, and   *)
(* restores it.                                                            *)
(***************************************************************************)

(* The slot of the k-th element, without a remainder.                      *)
SlotOf(a, k) ==
  IF ~a.f THEN k - 1 ELSE IF k - 1 + a.i < a.n THEN k - 1 + a.i ELSE k - 1 + a.i - a.n

(* The string in slot j of a container that owns it.                       *)
ValueAt(a, j) == IF a.d[j] = NULL THEN NULL ELSE a.live[a.d[j]]

(* A container as a record of its fields.                                  *)
Vec(i, n, f, d, live, bad) ==
  [i |-> i, n |-> n, f |-> f, d |-> d, live |-> live, bad |-> bad]

IsVec(a) == \E i, n, f, d, live, bad : a = Vec(i, n, f, d, live, bad)

(* A container of n slots.                                                 *)
VecOK(a) ==
  /\ IsVec(a)
  /\ a.n \in Nat /\ a.bad = FALSE
  /\ a.d \in [0 .. a.n - 1 -> Addresses \cup {NULL, JUNK}]
  /\ DOMAIN a.live \subseteq Addresses
  /\ a.live = [x \in DOMAIN a.live |-> a.live[x]]
  /\ \A x \in DOMAIN a.live : a.live[x] \in Strings

(* Each string is in one slot.                                             *)
OneSlotEach(a, used) ==
  /\ \A k \in used : a.d[k] = NULL \/ a.d[k] \in DOMAIN a.live
  /\ \A x \in DOMAIN a.live : \E k \in used : a.d[k] = x
  /\ \A j, k \in used : (a.d[j] = a.d[k] /\ a.d[j] # NULL) => j = k

(* The ring a holds the elements s, from the oldest.                       *)
RingOK(a, s) ==
  LET len == IF a.f THEN a.n ELSE a.i
  IN /\ VecOK(a)
     /\ a.n \in 1 .. MaxItems /\ a.i \in 0 .. a.n - 1 /\ a.f \in BOOLEAN
     /\ OneSlotEach(a, 0 .. len - 1)
     /\ s \in Seq(Item) /\ Len(s) = len
     /\ \A k \in 1 .. len : ValueAt(a, SlotOf(a, k)) = s[k]

RingInv == RingOK(ring, oldest)

(* The three remainders a ring takes: of an index below its modulus,       *)
LEMMA ModSmall == ASSUME NEW n \in Nat \ {0}, NEW x \in 0 .. n - 1 PROVE x % n = x
OBVIOUS

(* of one that has wrapped around once,                                    *)
LEMMA ModOver == ASSUME NEW n \in Nat \ {0}, NEW x \in n .. 2 * n - 1 PROVE x % n = x - n
OBVIOUS

(* and of the index before the first, as unsigned arithmetic has it.       *)
LEMMA ModUnder == ASSUME NEW n \in Nat \ {0} PROVE (-1) % n = n - 1
OBVIOUS

(* Neither NULL nor JUNK is an address or an index.                        *)
LEMMA NotNumbers ==
  /\ NULL \notin Addresses /\ JUNK \notin Addresses /\ NULL # JUNK
  /\ \A k \in Int : k # NULL
  /\ Addresses \subseteq Nat
BY PointerAssumption, CellAssumption, ItemAssumption DEF Addresses

(* There is an address left as long as there is a slot left.               *)
LEMMA AddressLeft ==
  ASSUME NEW a, NEW n \in 0 .. MaxItems, NEW d,
         \A x \in DOMAIN a.live : \E k \in 0 .. n - 1 : d[k] = x
  PROVE  FreeAddress(a) \in Addresses /\ FreeAddress(a) \notin DOMAIN a.live
<1> SUFFICES ASSUME Addresses \subseteq DOMAIN a.live PROVE FALSE
  BY DEF FreeAddress
<1> DEFINE g == [x \in Addresses |-> CHOOSE k \in 0 .. n - 1 : d[k] = x]
<1>1. \A x \in Addresses : g[x] \in 0 .. n - 1 /\ d[g[x]] = x
  OBVIOUS
<1>2. g \in [Addresses -> 0 .. n - 1]
  BY <1>1
<1>3. n \in Nat /\ MaxItems \in Nat /\ n <= MaxItems
  BY ItemAssumption
<1>4. IsFiniteSet(0 .. n - 1) /\ Cardinality(0 .. n - 1) = n
  <2> DEFINE e == n - 1
  <2>1. 0 \in Int /\ e \in Int /\ (0 > e => n = 0) /\ e - 0 + 1 = n
    BY <1>3
  <2> HIDE DEF e
  <2>2. IsFiniteSet(0 .. e)
    BY <2>1, FS_Interval
  <2>3. Cardinality(0 .. e) = IF 0 > e THEN 0 ELSE e - 0 + 1
    BY <2>1, FS_Interval
  <2>4. Cardinality(0 .. e) = n
    BY <2>1, <2>3
  <2> QED BY <2>2, <2>4 DEF e
<1>5. IsFiniteSet(Addresses) /\ Cardinality(Addresses) = MaxItems + 2
  <2> DEFINE m == MaxItems + 2
  <2>1. m \in Nat /\ m > 1
    BY <1>3
  <2>2. Addresses = 1 .. m
    BY DEF Addresses
  <2> HIDE DEF m
  <2>3. IsFiniteSet(1 .. m) /\ Cardinality(1 .. m) = m
    <3>1. 1 \in Int /\ m \in Int
      BY <2>1
    <3>2. Cardinality(1 .. m) = IF 1 > m THEN 0 ELSE m - 1 + 1
      BY <3>1, FS_Interval
    <3> QED BY <2>1, <3>1, <3>2, FS_Interval
  <2> QED BY <2>2, <2>3 DEF m
<1>6. Cardinality(0 .. n - 1) < Cardinality(Addresses)
  BY <1>3, <1>4, <1>5
<1> HIDE DEF g
<1>7. \E x, y \in Addresses : x # y /\ g[x] = g[y]
  BY <1>2, <1>4, <1>5, <1>6, FS_PigeonHole
<1> QED BY <1>1, <1>7

-----------------------------------------------------------------------------
(* The slots of the elements are just the ones in use.                     *)
LEMMA SlotRange ==
  ASSUME NEW a, NEW s, RingOK(a, s)
  PROVE  /\ Len(s) \in Nat /\ Len(s) = (IF a.f THEN a.n ELSE a.i)
         /\ \A k \in 1 .. Len(s) : SlotOf(a, k) \in 0 .. Len(s) - 1
         /\ \A j \in 0 .. Len(s) - 1 : \E k \in 1 .. Len(s) : SlotOf(a, k) = j
<1>1. /\ a.n \in Nat /\ a.i \in Nat /\ a.i < a.n /\ a.f \in BOOLEAN
      /\ Len(s) = IF a.f THEN a.n ELSE a.i
  BY ItemAssumption DEF RingOK
<1>2. \A k \in 1 .. Len(s) : SlotOf(a, k) \in 0 .. Len(s) - 1
  BY <1>1 DEF SlotOf
<1>3. ASSUME NEW j \in 0 .. Len(s) - 1 PROVE \E k \in 1 .. Len(s) : SlotOf(a, k) = j
  <2>1. CASE ~a.f
    <3>1. j + 1 \in 1 .. Len(s) /\ SlotOf(a, j + 1) = j
      BY <1>1, <2>1 DEF SlotOf
    <3> QED BY <3>1
  <2>2. CASE a.f /\ j >= a.i
    <3>1. j - a.i + 1 \in 1 .. Len(s) /\ SlotOf(a, j - a.i + 1) = j
      BY <1>1, <2>2 DEF SlotOf
    <3> QED BY <3>1
  <2>3. CASE a.f /\ j < a.i
    <3>1. j + a.n - a.i + 1 \in 1 .. Len(s) /\ SlotOf(a, j + a.n - a.i + 1) = j
      BY <1>1, <2>3 DEF SlotOf
    <3> QED BY <3>1
  <2> QED BY <1>1, <2>1, <2>2, <2>3
<1> QED BY <1>1, <1>2, <1>3

(* The macros' positions: from an index to its slot and back.              *)
LEMMA EltptrIsSlot ==
  ASSUME NEW a, NEW s, RingOK(a, s)
  PROVE  /\ \A k \in 1 .. Len(s) : utringbuffer_eltptr(a, k - 1) = SlotOf(a, k)
         /\ \A k \in 1 .. Len(s) : utringbuffer_eltidx(a, SlotOf(a, k)) = k - 1
         /\ \A j \in Nat : j >= Len(s) => utringbuffer_eltptr(a, j) = NULL
         /\ utringbuffer_len(a) = Len(s)
<1>1. /\ a.n \in Nat \ {0} /\ a.i \in Nat /\ a.i < a.n /\ a.f \in BOOLEAN
      /\ Len(s) = (IF a.f THEN a.n ELSE a.i) /\ Len(s) \in Nat
  BY ItemAssumption DEF RingOK
<1>2. utringbuffer_len(a) = Len(s)
  BY <1>1 DEF utringbuffer_len
<1>3. ASSUME NEW k \in 1 .. Len(s) PROVE utringbuffer_eltptr(a, k - 1) = SlotOf(a, k)
  <2>1. utringbuffer_eltptr(a, k - 1) = _real_idx(a, k - 1)
    BY <1>1, <1>2 DEF utringbuffer_eltptr
  <2>2. CASE ~a.f
    BY <2>1, <2>2 DEF _real_idx, SlotOf
  <2>3. CASE a.f /\ k - 1 + a.i < a.n
    <3> DEFINE x == k - 1 + a.i
    <3>1. x \in 0 .. a.n - 1
      BY <1>1, <2>3
    <3> HIDE DEF x
    <3>2. x % a.n = x
      BY <1>1, <3>1, ModSmall
    <3> QED BY <2>1, <2>3, <3>2 DEF _real_idx, SlotOf, x
  <2>4. CASE a.f /\ ~(k - 1 + a.i < a.n)
    <3> DEFINE x == k - 1 + a.i
    <3>1. x \in a.n .. 2 * a.n - 1
      BY <1>1, <2>4
    <3> HIDE DEF x
    <3>2. x % a.n = x - a.n
      BY <1>1, <3>1, ModOver
    <3>3. _real_idx(a, k - 1) = x % a.n
      BY <2>4 DEF _real_idx, x
    <3>4. SlotOf(a, k) = k - 1 + a.i - a.n
      BY <2>4 DEF SlotOf
    <3>5. SlotOf(a, k) = x - a.n
      BY <1>1, <3>4 DEF x
    <3> QED BY <2>1, <3>2, <3>3, <3>5
  <2> QED BY <2>2, <2>3, <2>4
<1>4. ASSUME NEW k \in 1 .. Len(s) PROVE utringbuffer_eltidx(a, SlotOf(a, k)) = k - 1
  <2>1. CASE ~a.f
    BY <2>1 DEF utringbuffer_eltidx, _fake_idx, SlotOf
  <2>2. CASE a.f /\ k - 1 + a.i < a.n
    <3>1. SlotOf(a, k) + a.n - a.i = k - 1 + a.n
      BY <1>1, <2>2 DEF SlotOf
    <3>2. k - 1 + a.n \in a.n .. 2 * a.n - 1 /\ k - 1 + a.n - a.n = k - 1
      BY <1>1, <2>2
    <3>3. (k - 1 + a.n) % a.n = k - 1
      BY <1>1, <3>2, ModOver
    <3> QED BY <2>2, <3>1, <3>3 DEF utringbuffer_eltidx, _fake_idx
  <2>3. CASE a.f /\ ~(k - 1 + a.i < a.n)
    <3>1. SlotOf(a, k) + a.n - a.i = k - 1 /\ k - 1 \in 0 .. a.n - 1
      BY <1>1, <2>3 DEF SlotOf
    <3>2. (k - 1) % a.n = k - 1
      BY <1>1, <3>1, ModSmall
    <3> QED BY <2>3, <3>1, <3>2 DEF utringbuffer_eltidx, _fake_idx
  <2> QED BY <2>1, <2>2, <2>3
<1>5. \A j \in Nat : j >= Len(s) => utringbuffer_eltptr(a, j) = NULL
  BY <1>1, <1>2 DEF utringbuffer_eltptr
<1> QED BY <1>2, <1>3, <1>4, <1>5

(* A slot in use leads to its string.                                      *)
LEMMA SlotRead ==
  ASSUME NEW a, VecOK(a), NEW used, OneSlotEach(a, used), NEW k \in used
  PROVE  Pointee(a, k) = ValueAt(a, k)
<1> DEFINE p == a.d[k]
<1>1. p = NULL \/ p \in DOMAIN a.live
  BY DEF OneSlotEach
<1>2. NULL \notin DOMAIN a.live
  BY NotNumbers DEF VecOK
<1>3. Pointee(a, k) = CASE p = NULL -> NULL
                        [] p \in DOMAIN a.live -> a.live[p]
                        [] OTHER -> JUNK
  BY DEF Pointee
<1>4. ValueAt(a, k) = IF p = NULL THEN NULL ELSE a.live[p]
  BY DEF ValueAt
<1> HIDE DEF p
<1>5. CASE p = NULL
  BY <1>2, <1>3, <1>4, <1>5
<1>6. CASE p # NULL
  BY <1>1, <1>3, <1>4, <1>6
<1> QED BY <1>5, <1>6

(* The strings of the slots in use are those that are allocated.           *)
LEMMA InvOwned ==
  ASSUME NEW a, VecOK(a), NEW used, OneSlotEach(a, used), used \subseteq 0 .. a.n - 1
  PROVE  Owned(a, used)
<1>1. used \subseteq DOMAIN a.d
  BY DEF VecOK
<1>2. {a.d[k] : k \in {j \in used : a.d[j] # NULL}} = DOMAIN a.live
  <2>1. \A k \in used : a.d[k] # NULL => a.d[k] \in DOMAIN a.live
    BY DEF OneSlotEach
  <2>2. \A x \in DOMAIN a.live : \E k \in used : a.d[k] = x /\ x # NULL
    BY NotNumbers DEF OneSlotEach, VecOK
  <2> QED BY <2>1, <2>2
<1> QED BY <1>1, <1>2 DEF Owned, OneSlotEach, VecOK

(* What the invariant says is what a reader sees.                          *)
LEMMA InvFaithful == RingInv => RingFaithful
<1> SUFFICES ASSUME RingInv PROVE RingFaithful
  OBVIOUS
<1> DEFINE n == Len(oldest)
<1>1. RingOK(ring, oldest)
  BY DEF RingInv
<1>2. /\ n \in Nat /\ n = (IF ring.f THEN ring.n ELSE ring.i)
      /\ \A k \in 1 .. n : SlotOf(ring, k) \in 0 .. n - 1
      /\ \A j \in 0 .. n - 1 : \E k \in 1 .. n : SlotOf(ring, k) = j
  BY <1>1, SlotRange
<1>3. /\ \A k \in 1 .. n : utringbuffer_eltptr(ring, k - 1) = SlotOf(ring, k)
      /\ \A k \in 1 .. n : utringbuffer_eltidx(ring, SlotOf(ring, k)) = k - 1
      /\ \A j \in Nat : j >= n => utringbuffer_eltptr(ring, j) = NULL
      /\ utringbuffer_len(ring) = n
  BY <1>1, EltptrIsSlot
<1>4. RingSlots = [k \in 1 .. n |-> SlotOf(ring, k)]
  BY <1>3 DEF RingSlots
<1>5. n <= MaxItems /\ MaxItems \in Nat /\ WORD \in Nat \ {0} /\ n < WORD
  BY <1>1, <1>2, ItemAssumption, WordAssumption DEF RingOK
<1> DEFINE Slot(k) == IF k \in 1 .. n THEN RingSlots[k] ELSE NULL
<1>6. utringbuffer_next(ring, NULL) = Slot(1)
  <2>1. utringbuffer_next(ring, NULL) = utringbuffer_eltptr(ring, 0)
    BY DEF utringbuffer_next, utringbuffer_front
  <2>2. CASE n = 0
    BY <1>2, <1>3, <2>1, <2>2
  <2>3. CASE n # 0
    <3>1. 1 \in 1 .. n /\ 1 - 1 = 0
      BY <1>2, <2>3
    <3>2. utringbuffer_eltptr(ring, 1 - 1) = SlotOf(ring, 1)
      BY <1>3, <3>1
    <3> QED BY <1>4, <2>1, <3>1, <3>2
  <2> QED BY <2>2, <2>3
<1>7. utringbuffer_prev(ring, NULL) = Slot(n)
  <2>1. utringbuffer_prev(ring, NULL) = utringbuffer_back(ring)
    BY DEF utringbuffer_prev
  <2>2. utringbuffer_empty(ring) <=> n = 0
    BY <1>1, <1>2, ItemAssumption DEF utringbuffer_empty, RingOK
  <2>3. CASE n = 0
    BY <1>2, <2>1, <2>2, <2>3 DEF utringbuffer_back
  <2>4. CASE n # 0
    <3>1. n \in 1 .. n
      BY <1>2, <2>4
    <3>2. utringbuffer_back(ring) = utringbuffer_eltptr(ring, n - 1)
      BY <1>3, <2>2, <2>4 DEF utringbuffer_back
    <3> QED BY <1>3, <1>4, <2>1, <3>1, <3>2
  <2> QED BY <2>3, <2>4
<1>8. ASSUME NEW k \in 1 .. n
      PROVE  /\ Slot(k) # NULL
             /\ utringbuffer_next(ring, Slot(k)) = Slot(k + 1)
             /\ utringbuffer_prev(ring, Slot(k)) = Slot(k - 1)
  <2>1. Slot(k) = SlotOf(ring, k) /\ Slot(k) # NULL
    BY <1>2, <1>4, NotNumbers
  <2>2. utringbuffer_eltidx(ring, Slot(k)) = k - 1
    BY <1>3, <2>1
  <2>3. utringbuffer_next(ring, Slot(k)) = utringbuffer_eltptr(ring, k)
    <3>1. k - 1 + 1 = k /\ k \in 0 .. WORD - 1
      BY <1>2, <1>5
    <3>2. k % WORD = k
      BY <1>5, <3>1, ModSmall
    <3> QED BY <2>1, <2>2, <3>1, <3>2 DEF utringbuffer_next
  <2>4. utringbuffer_eltptr(ring, k) = Slot(k + 1)
    <3>1. CASE k = n
      BY <1>2, <1>3, <3>1
    <3>2. CASE k # n
      <4>1. k + 1 \in 1 .. n /\ k + 1 - 1 = k
        BY <1>2, <3>2
      <4>2. utringbuffer_eltptr(ring, k + 1 - 1) = SlotOf(ring, k + 1)
        BY <1>3, <4>1
      <4> QED BY <1>4, <4>1, <4>2
    <3> QED BY <3>1, <3>2
  <2>5. utringbuffer_prev(ring, Slot(k)) = Slot(k - 1)
    <3>0. utringbuffer_prev(ring, Slot(k)) = utringbuffer_eltptr(ring, (k - 1 - 1) % WORD)
      BY <2>1, <2>2 DEF utringbuffer_prev
    <3>1. CASE k = 1
      <4>1. (k - 1 - 1) % WORD = WORD - 1
        BY <1>5, <3>1, ModUnder
      <4>2. WORD - 1 \in Nat /\ WORD - 1 >= n
        BY <1>2, <1>5
      <4>3. utringbuffer_eltptr(ring, WORD - 1) = NULL
        BY <1>3, <4>2
      <4> QED BY <1>2, <3>0, <3>1, <4>1, <4>3
    <3>2. CASE k # 1
      <4>1. k - 1 \in 1 .. n /\ k - 1 - 1 \in 0 .. WORD - 1
        BY <1>2, <1>5, <3>2
      <4>2. (k - 1 - 1) % WORD = k - 1 - 1
        BY <1>5, <4>1, ModSmall
      <4>3. utringbuffer_eltptr(ring, k - 1 - 1) = SlotOf(ring, k - 1)
        BY <1>3, <4>1
      <4> QED BY <1>4, <3>0, <4>1, <4>2, <4>3
    <3> QED BY <3>1, <3>2
  <2> QED BY <2>1, <2>3, <2>4, <2>5
<1>9. RingWalks
  BY <1>6, <1>7, <1>8 DEF RingWalks
<1>10. {RingSlots[k] : k \in 1 .. n} = 0 .. n - 1
  BY <1>2, <1>4
<1>11. OneSlotEach(ring, 0 .. n - 1) /\ VecOK(ring)
  BY <1>1, <1>2 DEF RingOK
<1>12. Owned(ring, 0 .. n - 1)
  <2>1. 0 .. n - 1 \subseteq 0 .. ring.n - 1
    BY <1>1, <1>2, ItemAssumption DEF RingOK
  <2> QED BY <1>11, <2>1, InvOwned
<1>13. ASSUME NEW k \in 1 .. n PROVE Pointee(ring, RingSlots[k]) = oldest[k]
  <2>1. RingSlots[k] = SlotOf(ring, k) /\ SlotOf(ring, k) \in 0 .. n - 1
    BY <1>2, <1>4
  <2>2. Pointee(ring, SlotOf(ring, k)) = ValueAt(ring, SlotOf(ring, k))
    BY <1>11, <2>1, SlotRead
  <2>3. ValueAt(ring, SlotOf(ring, k)) = oldest[k]
    BY <1>1, <1>2 DEF RingOK
  <2> QED BY <2>1, <2>2, <2>3
<1> QED BY <1>3, <1>9, <1>10, <1>12, <1>13 DEF RingFaithful

-----------------------------------------------------------------------------
(* The assignments to a container's fields that the macros make.           *)
SetLive(a, x) == [a EXCEPT !.live = x]
SetLiveBad(a, x, y) == [a EXCEPT !.live = x, !.bad = y]
SetI(a, x) == [a EXCEPT !.i = x]
SetIF(a, x, y) == [a EXCEPT !.i = x, !.f = y]
SetSlot(a, k, p) == [a EXCEPT !.d[k] = p]

(* Two fields assigned at once.                                            *)
LEMMA LiveBadUpdate ==
  ASSUME NEW a, IsVec(a), NEW x, NEW y
  PROVE  SetLiveBad(a, x, y) = Vec(a.i, a.n, a.f, a.d, x, y)
<1>1. PICK i, n, f, d, live, bad : a = Vec(i, n, f, d, live, bad)
  BY DEF IsVec
<1>2. a.i = i /\ a.n = n /\ a.f = f /\ a.d = d /\ a.live = live /\ a.bad = bad
  BY <1>1 DEF Vec
<1>3. [a EXCEPT !.live = x] = Vec(i, n, f, d, x, bad)
  BY <1>1 DEF Vec
<1>4. [a EXCEPT !.live = x, !.bad = y] = Vec(i, n, f, d, x, y)
  <2> DEFINE b == [a EXCEPT !.live = x]
  <2>1. b = Vec(i, n, f, d, x, bad)
    BY <1>3
  <2>2. [a EXCEPT !.live = x, !.bad = y] = [b EXCEPT !.bad = y]
    BY <1>1, Zenon DEF Vec
  <2> HIDE DEF b
  <2>3. [b EXCEPT !.bad = y] = Vec(i, n, f, d, x, y)
    BY <2>1 DEF Vec
  <2> QED BY <2>2, <2>3
<1> QED BY <1>2, <1>4 DEF SetLiveBad

(* What each of the others leaves of the record.                           *)
LEMMA VecUpdates ==
  ASSUME NEW a, IsVec(a), NEW x, NEW y
  PROVE  /\ a = Vec(a.i, a.n, a.f, a.d, a.live, a.bad)
         /\ SetLive(a, x) = Vec(a.i, a.n, a.f, a.d, x, a.bad)
         /\ SetI(a, x) = Vec(x, a.n, a.f, a.d, a.live, a.bad)
         /\ SetIF(a, x, y) = Vec(x, a.n, y, a.d, a.live, a.bad)
         /\ SetSlot(a, y, x) = Vec(a.i, a.n, a.f, [a.d EXCEPT ![y] = x], a.live, a.bad)
<1>1. PICK i, n, f, d, live, bad : a = Vec(i, n, f, d, live, bad)
  BY DEF IsVec
<1>2. a.i = i /\ a.n = n /\ a.f = f /\ a.d = d /\ a.live = live /\ a.bad = bad
  BY <1>1 DEF Vec
<1>3. [a EXCEPT !.live = x] = Vec(i, n, f, d, x, bad)
  BY <1>1 DEF Vec
<1>5. [a EXCEPT !.i = x] = Vec(x, n, f, d, live, bad)
  BY <1>1 DEF Vec
<1>6. [a EXCEPT !.i = x, !.f = y] = Vec(x, n, y, d, live, bad)
  <2> DEFINE b == [a EXCEPT !.i = x]
  <2>1. b = Vec(x, n, f, d, live, bad)
    BY <1>5
  <2>2. [a EXCEPT !.i = x, !.f = y] = [b EXCEPT !.f = y]
    BY <1>1, Zenon DEF Vec
  <2> HIDE DEF b
  <2>3. [b EXCEPT !.f = y] = Vec(x, n, y, d, live, bad)
    BY <2>1 DEF Vec
  <2> QED BY <2>2, <2>3
<1>7. [a EXCEPT !.d[y] = x] = Vec(i, n, f, [d EXCEPT ![y] = x], live, bad)
  BY <1>1 DEF Vec
<1>8. /\ SetLive(a, x) = Vec(i, n, f, d, x, bad)
      /\ SetI(a, x) = Vec(x, n, f, d, live, bad)
      /\ SetIF(a, x, y) = Vec(x, n, y, d, live, bad)
      /\ SetSlot(a, y, x) = Vec(i, n, f, [d EXCEPT ![y] = x], live, bad)
  BY <1>3, <1>5, <1>6, <1>7 DEF SetLive, SetI, SetIF, SetSlot
<1> QED BY <1>1, <1>2, <1>8

(* What dtor() does to a slot that is in use, field by field.              *)
LEMMA DtorFields ==
  ASSUME NEW a, VecOK(a), NEW k, a.d[k] = NULL \/ a.d[k] \in DOMAIN a.live
  PROVE  utarray_str_dtor(a, k)
           = Vec(a.i, a.n, a.f, a.d, [y \in DOMAIN a.live \ {a.d[k]} |-> a.live[y]], a.bad)
<1>1. IsVec(a) /\ a = Vec(a.i, a.n, a.f, a.d, a.live, a.bad)
  BY VecUpdates DEF VecOK
<1>2. CASE a.d[k] = NULL
  <2>1. NULL \notin DOMAIN a.live
    BY NotNumbers DEF VecOK
  <2>2. [y \in DOMAIN a.live \ {a.d[k]} |-> a.live[y]] = a.live
    BY <1>2, <2>1 DEF VecOK
  <2>3. utarray_str_dtor(a, k) = a
    BY <1>2 DEF utarray_str_dtor
  <2> QED BY <1>1, <2>2, <2>3
<1>3. CASE a.d[k] # NULL
  <2> DEFINE L == [y \in DOMAIN a.live \ {a.d[k]} |-> a.live[y]]
  <2>1. utarray_str_dtor(a, k) = SetLive(a, L)
    BY <1>3 DEF utarray_str_dtor, SetLive
  <2> HIDE DEF L
  <2>2. SetLive(a, L) = Vec(a.i, a.n, a.f, a.d, L, a.bad)
    BY <1>1, VecUpdates
  <2> QED BY <2>1, <2>2 DEF L
<1> QED BY <1>2, <1>3

(* What cpy() does to a slot when there is an address left, field by       *)
(* field.                                                                  *)
LEMMA CpyFields ==
  ASSUME NEW a, VecOK(a), NEW k \in 0 .. a.n - 1, NEW e \in Item,
         FreeAddress(a) \in Addresses, FreeAddress(a) \notin DOMAIN a.live
  PROVE  \E p \in Addresses \cup {NULL} :
           /\ p = NULL <=> e = NULL
           /\ p \notin DOMAIN a.live
           /\ utarray_str_cpy(a, k, e)
                = Vec(a.i, a.n, a.f, [a.d EXCEPT ![k] = p],
                      [y \in DOMAIN a.live \cup ({p} \ {NULL}) |-> IF y = p THEN e ELSE a.live[y]],
                      a.bad)
<1>1. IsVec(a) /\ a = Vec(a.i, a.n, a.f, a.d, a.live, a.bad)
  BY VecUpdates DEF VecOK
<1>2. k \in DOMAIN a.d
  BY DEF VecOK
<1>3. NULL \notin DOMAIN a.live
  BY NotNumbers DEF VecOK
<1>4. CASE e = NULL
  <2>1. utarray_str_cpy(a, k, e) = SetSlot(a, k, NULL)
    BY <1>2, <1>4 DEF utarray_str_cpy, Store, SetSlot
  <2>2. SetSlot(a, k, NULL) = Vec(a.i, a.n, a.f, [a.d EXCEPT ![k] = NULL], a.live, a.bad)
    BY <1>1, VecUpdates
  <2>3. [y \in DOMAIN a.live \cup ({NULL} \ {NULL}) |-> IF y = NULL THEN e ELSE a.live[y]] = a.live
    BY <1>3 DEF VecOK
  <2> WITNESS NULL \in Addresses \cup {NULL}
  <2> QED BY <1>3, <1>4, <2>1, <2>2, <2>3
<1>5. CASE e # NULL
  <2> DEFINE p == FreeAddress(a)
             L == [y \in DOMAIN a.live \cup {p} |-> IF y = p THEN e ELSE a.live[y]]
             c == SetLive(a, L)
  <2>0. p \in Addresses /\ p \notin DOMAIN a.live /\ p # NULL
    BY NotNumbers
  <2>1. utarray_str_cpy(a, k, e) = Store(c, k, p)
    BY <1>5 DEF utarray_str_cpy, SetLive
  <2> HIDE DEF L, p
  <2>2. c = Vec(a.i, a.n, a.f, a.d, L, a.bad)
    BY <1>1, VecUpdates
  <2> HIDE DEF c
  <2>3. /\ c.i = a.i /\ c.n = a.n /\ c.f = a.f /\ c.d = a.d /\ c.live = L /\ c.bad = a.bad
        /\ IsVec(c)
    BY <2>2 DEF Vec, IsVec
  <2>4. Store(c, k, p) = SetSlot(c, k, p)
    BY <1>2, <2>3 DEF Store, SetSlot
  <2>5. SetSlot(c, k, p) = Vec(a.i, a.n, a.f, [a.d EXCEPT ![k] = p], L, a.bad)
    BY <2>3, VecUpdates
  <2>6. DOMAIN a.live \cup ({p} \ {NULL}) = DOMAIN a.live \cup {p}
    BY <2>0
  <2>7. L = [y \in DOMAIN a.live \cup ({p} \ {NULL}) |-> IF y = p THEN e ELSE a.live[y]]
    BY <2>6 DEF L
  <2>8. p \in Addresses \cup {NULL}
    BY <2>0
  <2> WITNESS p \in Addresses \cup {NULL}
  <2> QED BY <1>5, <2>0, <2>1, <2>4, <2>5, <2>7
<1> QED BY <1>4, <1>5

(* Freeing the string of a slot that is in use leaves the others as they   *)
(* are.                                                                    *)
LEMMA DropSlot ==
  ASSUME NEW a, VecOK(a), NEW used \in SUBSET (0 .. a.n - 1), OneSlotEach(a, used), NEW k \in used
  PROVE  LET b == utarray_str_dtor(a, k)
         IN /\ VecOK(b) /\ OneSlotEach(b, used \ {k})
            /\ b.i = a.i /\ b.n = a.n /\ b.f = a.f /\ b.d = a.d
            /\ \A j \in used \ {k} : ValueAt(b, j) = ValueAt(a, j)
<1> DEFINE b == utarray_str_dtor(a, k)
           L == [y \in DOMAIN a.live \ {a.d[k]} |-> a.live[y]]
<1>1. a.d[k] = NULL \/ a.d[k] \in DOMAIN a.live
  BY DEF OneSlotEach
<1>2. b = Vec(a.i, a.n, a.f, a.d, L, a.bad)
  BY <1>1, DtorFields
<1> HIDE DEF b
<1>3. DOMAIN L = DOMAIN a.live \ {a.d[k]} /\ \A x \in DOMAIN L : L[x] = a.live[x]
  OBVIOUS
<1>4. L = [x \in DOMAIN L |-> L[x]]
  OBVIOUS
<1> HIDE DEF L
<1>5. /\ b.i = a.i /\ b.n = a.n /\ b.f = a.f /\ b.d = a.d /\ b.live = L /\ b.bad = a.bad
      /\ IsVec(b)
  BY <1>2 DEF Vec, IsVec
<1>6. VecOK(b)
  BY <1>3, <1>4, <1>5 DEF VecOK
<1>7. \A j \in used \ {k} : b.d[j] = NULL \/ b.d[j] \in DOMAIN L
  BY <1>3, <1>5 DEF OneSlotEach
<1>8. OneSlotEach(b, used \ {k})
  <2>1. \A x \in DOMAIN L : \E j \in used \ {k} : b.d[j] = x
    BY <1>3, <1>5 DEF OneSlotEach
  <2>2. \A i, j \in used \ {k} : (b.d[i] = b.d[j] /\ b.d[i] # NULL) => i = j
    BY <1>5 DEF OneSlotEach
  <2> QED BY <1>5, <1>7, <2>1, <2>2 DEF OneSlotEach
<1>9. \A j \in used \ {k} : ValueAt(b, j) = ValueAt(a, j)
  BY <1>3, <1>5, <1>7 DEF ValueAt
<1> QED BY <1>5, <1>6, <1>8, <1>9 DEF b

(* Copying a string into a slot that is not in use.                        *)
LEMMA FillSlot ==
  ASSUME NEW a, VecOK(a), NEW used \in SUBSET (0 .. a.n - 1), used \subseteq 0 .. MaxItems - 1,
         OneSlotEach(a, used), NEW k \in (0 .. a.n - 1) \ used, NEW e \in Item
  PROVE  LET c == utarray_str_cpy(a, k, e)
         IN /\ VecOK(c) /\ OneSlotEach(c, used \cup {k})
            /\ c.i = a.i /\ c.n = a.n /\ c.f = a.f
            /\ \A j \in used : ValueAt(c, j) = ValueAt(a, j)
            /\ ValueAt(c, k) = e
<1> DEFINE c == utarray_str_cpy(a, k, e)
<1>1. FreeAddress(a) \in Addresses /\ FreeAddress(a) \notin DOMAIN a.live
  <2>1. MaxItems \in 0 .. MaxItems
    BY ItemAssumption
  <2>2. \A x \in DOMAIN a.live : \E j \in 0 .. MaxItems - 1 : a.d[j] = x
    BY DEF OneSlotEach
  <2> QED BY <2>1, <2>2, AddressLeft
<1>2. PICK p \in Addresses \cup {NULL} :
        /\ p = NULL <=> e = NULL
        /\ p \notin DOMAIN a.live
        /\ c = Vec(a.i, a.n, a.f, [a.d EXCEPT ![k] = p],
                   [y \in DOMAIN a.live \cup ({p} \ {NULL}) |-> IF y = p THEN e ELSE a.live[y]],
                   a.bad)
  BY <1>1, CpyFields
<1> HIDE DEF c
<1> DEFINE L == [y \in DOMAIN a.live \cup ({p} \ {NULL}) |-> IF y = p THEN e ELSE a.live[y]]
           D == [a.d EXCEPT ![k] = p]
<1>3. /\ DOMAIN L = DOMAIN a.live \cup ({p} \ {NULL})
      /\ \A x \in DOMAIN a.live : L[x] = a.live[x]
      /\ p # NULL => L[p] = e
  BY <1>2
<1>4. L = [x \in DOMAIN L |-> L[x]]
  OBVIOUS
<1>5. D \in [0 .. a.n - 1 -> Addresses \cup {NULL, JUNK}]
  BY DEF VecOK
<1>6. D[k] = p /\ \A j \in used : D[j] = a.d[j]
  BY DEF VecOK
<1>7. c = Vec(a.i, a.n, a.f, D, L, a.bad)
  BY <1>2
<1> HIDE DEF L, D
<1>8. /\ c.i = a.i /\ c.n = a.n /\ c.f = a.f /\ c.d = D /\ c.live = L /\ c.bad = a.bad
      /\ IsVec(c)
  BY <1>7 DEF Vec, IsVec
<1>9. VecOK(c)
  <2>1. \A x \in DOMAIN L : L[x] \in Strings
    BY <1>2, <1>3 DEF VecOK, Item
  <2>2. DOMAIN L \subseteq Addresses
    BY <1>2, <1>3 DEF VecOK
  <2> QED BY <1>4, <1>5, <1>8, <2>1, <2>2 DEF VecOK
<1>10. NULL \notin DOMAIN a.live
  BY NotNumbers DEF VecOK
<1>11. OneSlotEach(c, used \cup {k})
  <2>1. \A j \in used \cup {k} : D[j] = NULL \/ D[j] \in DOMAIN L
    BY <1>3, <1>6 DEF OneSlotEach
  <2>2. \A x \in DOMAIN L : \E j \in used \cup {k} : D[j] = x
    BY <1>3, <1>6 DEF OneSlotEach
  <2>3. \A j \in used : D[j] # NULL => D[j] # p
    BY <1>2, <1>6 DEF OneSlotEach
  <2>4. \A i, j \in used \cup {k} : (D[i] = D[j] /\ D[i] # NULL) => i = j
    BY <1>6, <2>3 DEF OneSlotEach
  <2> QED BY <1>8, <2>1, <2>2, <2>4 DEF OneSlotEach
<1>12. \A j \in used : ValueAt(c, j) = ValueAt(a, j)
  BY <1>3, <1>6, <1>8 DEF ValueAt, OneSlotEach
<1>13. ValueAt(c, k) = e
  BY <1>2, <1>3, <1>6, <1>8 DEF ValueAt
<1> QED BY <1>8, <1>9, <1>11, <1>12, <1>13 DEF c

(* A string is pushed: the slot at i is emptied if the ring is full, then  *)
(* filled, and is the newest element's from then on.                       *)
LEMMA PushKeeps ==
  ASSUME NEW a, NEW s, RingOK(a, s), NEW e \in Item
  PROVE  RingOK(utringbuffer_push_back(a, e), Append(IF Len(s) = a.n THEN Tail(s) ELSE s, e))
<1> DEFINE used == IF a.f THEN (0 .. a.n - 1) \ {a.i} ELSE 0 .. a.i - 1
           b == IF a.f THEN utarray_str_dtor(a, a.i) ELSE a
           c == utarray_str_cpy(b, a.i, e)
           r == utringbuffer_push_back(a, e)
<1>1. /\ a.n \in Nat \ {0} /\ a.n \in 1 .. MaxItems /\ a.n <= MaxItems
      /\ a.i \in Nat /\ a.i < a.n /\ a.f \in BOOLEAN
      /\ Len(s) = (IF a.f THEN a.n ELSE a.i) /\ s \in Seq(Item) /\ VecOK(a)
      /\ OneSlotEach(a, 0 .. Len(s) - 1)
      /\ \A k \in 1 .. Len(s) : ValueAt(a, SlotOf(a, k)) = s[k]
  BY ItemAssumption DEF RingOK
<1>2. /\ VecOK(b) /\ OneSlotEach(b, used)
      /\ b.i = a.i /\ b.n = a.n /\ b.f = a.f
      /\ \A j \in used : ValueAt(b, j) = ValueAt(a, j)
  <2>1. CASE a.f
    <3> DEFINE all == 0 .. a.n - 1
    <3>1. OneSlotEach(a, all) /\ a.i \in all /\ all \in SUBSET (0 .. a.n - 1)
      BY <1>1, <2>1
    <3>2. b = utarray_str_dtor(a, a.i) /\ used = all \ {a.i}
      BY <2>1
    <3> HIDE DEF all, used, b
    <3>3. LET x == utarray_str_dtor(a, a.i)
          IN /\ VecOK(x) /\ OneSlotEach(x, all \ {a.i})
             /\ x.i = a.i /\ x.n = a.n /\ x.f = a.f /\ x.d = a.d
             /\ \A j \in all \ {a.i} : ValueAt(x, j) = ValueAt(a, j)
      BY <1>1, <3>1, DropSlot
    <3> QED BY <3>2, <3>3
  <2>2. CASE ~a.f
    <3>1. b = a /\ used = 0 .. Len(s) - 1
      BY <1>1, <2>2
    <3> QED BY <1>1, <3>1
  <2> QED BY <1>1, <2>1, <2>2
<1>3. used \in SUBSET (0 .. a.n - 1) /\ a.i \in (0 .. a.n - 1) \ used
  BY <1>1
<1> HIDE DEF used, b
<1>4. /\ VecOK(c) /\ OneSlotEach(c, used \cup {a.i})
      /\ c.i = a.i /\ c.n = a.n /\ c.f = a.f
      /\ \A j \in used : ValueAt(c, j) = ValueAt(a, j)
      /\ ValueAt(c, a.i) = e
  <2>1. /\ VecOK(c) /\ OneSlotEach(c, used \cup {a.i})
        /\ c.i = b.i /\ c.n = b.n /\ c.f = b.f
        /\ \A j \in used : ValueAt(c, j) = ValueAt(b, j)
        /\ ValueAt(c, a.i) = e
    <3>1. /\ used \in SUBSET (0 .. b.n - 1) /\ a.i \in (0 .. b.n - 1) \ used
          /\ used \subseteq 0 .. MaxItems - 1
      BY <1>1, <1>2, <1>3, ItemAssumption
    <3> QED BY <1>2, <3>1, FillSlot
  <2> QED BY <1>2, <2>1
<1> HIDE DEF c
<1>5. r = IF a.i + 1 = a.n THEN SetIF(c, 0, TRUE) ELSE SetI(c, a.i + 1)
  BY <1>4 DEF utringbuffer_push_back, SetIF, SetI, b, c
<1> HIDE DEF r
<1>6. /\ r.n = a.n /\ r.d = c.d /\ r.live = c.live /\ r.bad = c.bad /\ IsVec(r)
      /\ a.i + 1 = a.n => (r.i = 0 /\ r.f)
      /\ a.i + 1 # a.n => (r.i = a.i + 1 /\ r.f = a.f)
      /\ r.f \in BOOLEAN
  <2>1. CASE a.i + 1 = a.n
    <3>1. r = Vec(0, c.n, TRUE, c.d, c.live, c.bad)
      BY <1>4, <1>5, <2>1, VecUpdates DEF VecOK
    <3>2. IsVec(r)
      BY <3>1 DEF IsVec
    <3>3. r.n = c.n /\ r.d = c.d /\ r.live = c.live /\ r.bad = c.bad /\ r.i = 0 /\ r.f = TRUE
      BY <3>1 DEF Vec
    <3> QED BY <1>4, <2>1, <3>2, <3>3
  <2>2. CASE a.i + 1 # a.n
    <3>1. r = Vec(a.i + 1, c.n, c.f, c.d, c.live, c.bad)
      BY <1>4, <1>5, <2>2, VecUpdates DEF VecOK
    <3>2. IsVec(r)
      BY <3>1 DEF IsVec
    <3>3. /\ r.n = c.n /\ r.d = c.d /\ r.live = c.live /\ r.bad = c.bad
          /\ r.i = a.i + 1 /\ r.f = c.f
      BY <3>1 DEF Vec
    <3> QED BY <1>1, <1>4, <2>2, <3>2, <3>3
  <2> QED BY <2>1, <2>2
<1>7. /\ VecOK(r) /\ OneSlotEach(r, used \cup {a.i})
      /\ \A j \in used : ValueAt(r, j) = ValueAt(a, j)
      /\ ValueAt(r, a.i) = e
  BY <1>4, <1>6 DEF VecOK, OneSlotEach, ValueAt
<1>8. r.n \in 1 .. MaxItems /\ r.i \in 0 .. r.n - 1 /\ r.f \in BOOLEAN
  BY <1>1, <1>6
<1>9. CASE ~a.f
  <2> DEFINE t == Append(s, e)
             len == a.i + 1
  <2>1. (IF Len(s) = a.n THEN Tail(s) ELSE s) = s
    BY <1>1, <1>9
  <2>2. t \in Seq(Item) /\ Len(t) = len /\ len = IF r.f THEN r.n ELSE r.i
    BY <1>1, <1>6, <1>9
  <2>3. 0 .. len - 1 = used \cup {a.i}
    BY <1>1, <1>9 DEF used
  <2>4. ASSUME NEW k \in 1 .. len PROVE ValueAt(r, SlotOf(r, k)) = t[k]
    <3>1. SlotOf(r, k) = k - 1
      BY <1>1, <1>6, <1>9 DEF SlotOf
    <3>2. CASE k = len
      <4>1. k - 1 = a.i /\ t[k] = e
        BY <1>1, <1>9, <3>2
      <4> QED BY <1>7, <3>1, <4>1
    <3>3. CASE k # len
      <4>1. k \in 1 .. Len(s) /\ k - 1 \in used
        BY <1>1, <1>9, <3>3 DEF used
      <4>2. t[k] = s[k] /\ SlotOf(a, k) = k - 1
        BY <1>1, <1>9, <4>1 DEF SlotOf
      <4> QED BY <1>1, <1>7, <3>1, <4>1, <4>2
    <3> QED BY <3>2, <3>3
  <2> HIDE DEF t, len
  <2> QED BY <1>7, <1>8, <2>1, <2>2, <2>3, <2>4 DEF RingOK, r, t
<1>10. CASE a.f
  <2> DEFINE t == Append(Tail(s), e)
  <2>1. (IF Len(s) = a.n THEN Tail(s) ELSE s) = Tail(s)
    BY <1>1, <1>10
  <2>2. t \in Seq(Item) /\ Len(t) = a.n /\ r.f
    <3>1. s \in Seq(Item) /\ Len(s) = a.n /\ a.n \in Nat \ {0}
      BY <1>1, <1>10
    <3>2. Tail(s) \in Seq(Item) /\ Len(Tail(s)) = a.n - 1
      BY <3>1
    <3>3. r.f
      BY <1>6, <1>10
    <3> QED BY <3>1, <3>2, <3>3
  <2>3. 0 .. a.n - 1 = used \cup {a.i}
    BY <1>1, <1>10 DEF used
  <2>4. ASSUME NEW k \in 1 .. a.n PROVE ValueAt(r, SlotOf(r, k)) = t[k]
    <3>1. CASE k = a.n
      <4>1. SlotOf(r, k) = a.i
        <5>1. CASE a.i + 1 = a.n
          BY <1>1, <1>6, <2>2, <3>1, <5>1 DEF SlotOf
        <5>2. CASE a.i + 1 # a.n
          BY <1>1, <1>6, <2>2, <3>1, <5>2 DEF SlotOf
        <5> QED BY <5>1, <5>2
      <4>2. t[k] = e
        BY <1>1, <1>10, <3>1
      <4> QED BY <1>7, <4>1, <4>2
    <3>2. CASE k # a.n
      <4>1. k + 1 \in 1 .. Len(s)
        BY <1>1, <1>10, <3>2
      <4>2. t[k] = s[k + 1]
        BY <1>1, <1>10, <3>2, SMTT(20)
      <4>3. SlotOf(r, k) = SlotOf(a, k + 1)
        <5>1. CASE a.i + 1 = a.n
          BY <1>1, <1>6, <1>10, <2>2, <3>2, <5>1, SMTT(20) DEF SlotOf
        <5>2. CASE a.i + 1 # a.n
          BY <1>1, <1>6, <1>10, <2>2, <3>2, <5>2 DEF SlotOf
        <5> QED BY <5>1, <5>2
      <4>4. SlotOf(a, k + 1) \in used
        BY <1>1, <1>10, <3>2, SMTT(20) DEF SlotOf, used
      <4> QED BY <1>1, <1>7, <4>1, <4>2, <4>3, <4>4
    <3> QED BY <3>1, <3>2
  <2> HIDE DEF t
  <2> QED BY <1>6, <1>7, <1>8, <2>1, <2>2, <2>3, <2>4 DEF RingOK, r, t
<1> QED BY <1>1, <1>9, <1>10

(* A ring of which no slot is in use.                                      *)
LEMMA EmptyRing ==
  ASSUME NEW a, VecOK(a), a.n \in 1 .. MaxItems, a.i = 0, a.f \in BOOLEAN, ~a.f, DOMAIN a.live = {}
  PROVE  RingOK(a, <<>>)
<1>1. (IF a.f THEN a.n ELSE a.i) = 0
  OBVIOUS
<1>2. a.i \in 0 .. a.n - 1
  BY ItemAssumption
<1>3. OneSlotEach(a, 0 .. 0 - 1)
  BY DEF OneSlotEach
<1>4. <<>> \in Seq(Item) /\ Len(<<>>) = 0
  OBVIOUS
<1>5. \A k \in 1 .. 0 : ValueAt(a, SlotOf(a, k)) = <<>>[k]
  OBVIOUS
<1> QED BY <1>1, <1>2, <1>3, <1>4, <1>5 DEF RingOK

(* An empty container, as it is made.                                      *)
LEMMA NewIsEmpty ==
  ASSUME NEW n \in 1 .. MaxItems
  PROVE  RingOK(NewVec(n), <<>>)
<1> DEFINE a == NewVec(n)
<1>1. a = Vec(0, n, FALSE, [k \in 0 .. n - 1 |-> JUNK], [x \in {} |-> 0], FALSE)
  BY DEF NewVec, Vec
<1> HIDE DEF a
<1>2. /\ a.i = 0 /\ a.n = n /\ a.f = FALSE /\ a.d = [k \in 0 .. n - 1 |-> JUNK]
      /\ a.live = [x \in {} |-> 0] /\ a.bad = FALSE /\ IsVec(a)
  BY <1>1 DEF Vec, IsVec
<1>3. n \in Nat /\ n > 0
  BY ItemAssumption
<1>4. VecOK(a)
  BY <1>2, <1>3 DEF VecOK
<1> QED BY <1>2, <1>3, <1>4, EmptyRing DEF a

(* Clearing calls dtor() on just the slots in use, so that nothing is left *)
(* and nothing is freed twice.                                             *)
LEMMA ClearKeeps ==
  ASSUME NEW a, NEW s, RingOK(a, s)
  PROVE  LET r == utringbuffer_clear(a)
         IN RingOK(r, <<>>) /\ DOMAIN r.live = {} /\ r.bad = FALSE
<1> DEFINE len == Len(s)
           slots == {utringbuffer_eltptr(a, j) : j \in 0 .. utringbuffer_len(a) - 1}
           held == {k \in slots : a.d[k] # NULL}
           gone == {a.d[k] : k \in held}
           L == [y \in DOMAIN a.live \ gone |-> a.live[y]]
           B == \/ a.bad
                \/ ~(gone \subseteq DOMAIN a.live)
                \/ \E j, k \in held : j # k /\ a.d[j] = a.d[k]
           r == utringbuffer_clear(a)
<1>1. /\ len \in Nat /\ VecOK(a) /\ OneSlotEach(a, 0 .. len - 1) /\ a.n \in 1 .. MaxItems
      /\ a.n \in Nat /\ a.n > 0
  BY SlotRange, ItemAssumption DEF RingOK
<1>2. slots = 0 .. len - 1
  <2>1. utringbuffer_len(a) = len
    BY EltptrIsSlot
  <2>2. \A j \in 0 .. len - 1 : utringbuffer_eltptr(a, j) \in 0 .. len - 1
    <3> SUFFICES ASSUME NEW j \in 0 .. len - 1
                 PROVE  utringbuffer_eltptr(a, j) \in 0 .. len - 1
      OBVIOUS
    <3>1. j + 1 \in 1 .. len /\ j + 1 - 1 = j
      BY <1>1
    <3>2. utringbuffer_eltptr(a, j + 1 - 1) = SlotOf(a, j + 1)
      BY <3>1, EltptrIsSlot
    <3> QED BY <3>1, <3>2, SlotRange
  <2>3. \A m \in 0 .. len - 1 : \E j \in 0 .. len - 1 : utringbuffer_eltptr(a, j) = m
    <3> SUFFICES ASSUME NEW m \in 0 .. len - 1
                 PROVE  \E j \in 0 .. len - 1 : utringbuffer_eltptr(a, j) = m
      OBVIOUS
    <3>1. PICK k \in 1 .. len : SlotOf(a, k) = m
      BY SlotRange
    <3>2. k - 1 \in 0 .. len - 1 /\ utringbuffer_eltptr(a, k - 1) = m
      BY <1>1, <3>1, EltptrIsSlot
    <3> QED BY <3>2
  <2> QED BY <2>1, <2>2, <2>3
<1> HIDE DEF slots
<1>3. NULL \notin DOMAIN a.live
  BY <1>1, NotNumbers DEF VecOK
<1>4. gone = DOMAIN a.live
  BY <1>1, <1>2, <1>3 DEF OneSlotEach
<1>5. ~B
  BY <1>1, <1>2, <1>4 DEF OneSlotEach, VecOK
<1>6. DOMAIN L = {}
  BY <1>4
<1>7. r = SetIF(SetLiveBad(a, L, B), 0, FALSE)
  BY DEF utringbuffer_clear, DtorAll, SetIF, SetLiveBad, slots
<1> HIDE DEF L, B, r
<1> DEFINE b == SetLiveBad(a, L, B)
<1>8. b = Vec(a.i, a.n, a.f, a.d, L, B)
  BY <1>1, LiveBadUpdate DEF VecOK
<1> HIDE DEF b
<1>9. b.n = a.n /\ b.d = a.d /\ b.live = L /\ b.bad = B /\ IsVec(b)
  BY <1>8 DEF Vec, IsVec
<1>10. r = Vec(0, b.n, FALSE, b.d, b.live, b.bad)
  BY <1>7, <1>9, VecUpdates DEF b
<1>11. /\ r.i = 0 /\ r.n = a.n /\ r.f = FALSE /\ r.d = a.d /\ r.live = L /\ r.bad = FALSE
       /\ IsVec(r)
  <2>1. IsVec(r)
    BY <1>10 DEF IsVec
  <2>2. r.i = 0 /\ r.n = b.n /\ r.f = FALSE /\ r.d = b.d /\ r.live = b.live /\ r.bad = b.bad
    BY <1>10 DEF Vec
  <2>3. r.bad = B
    BY <1>9, <2>2
  <2>4. B = FALSE
    BY <1>5 DEF B
  <2>5. r.bad = FALSE
    BY <2>3, <2>4
  <2> QED BY <1>9, <2>1, <2>2, <2>5
<1>12. VecOK(r)
  <2>1. L = [x \in DOMAIN L |-> L[x]]
    BY DEF L
  <2> QED BY <1>1, <1>6, <1>11, <2>1 DEF VecOK
<1>13. RingOK(r, <<>>)
  BY <1>1, <1>6, <1>11, <1>12, EmptyRing
<1> QED BY <1>6, <1>11, <1>13 DEF r

(* Freeing a ring and making one of n slots.                               *)
LEMMA RemakeKeeps ==
  ASSUME NEW a, NEW s, RingOK(a, s), NEW n \in 1 .. MaxItems
  PROVE  RingOK(utringbuffer_init(utringbuffer_done(a), n), <<>>)
<1> DEFINE c == utringbuffer_clear(a)
           b == utringbuffer_done(a)
           r == utringbuffer_init(b, n)
<1>0. PICK v : v = NewVec(n)
  OBVIOUS
<1>1. RingOK(c, <<>>) /\ DOMAIN c.live = {} /\ c.bad = FALSE
  BY ClearKeeps
<1>2. IsVec(c) /\ c.live = [x \in DOMAIN c.live |-> c.live[x]]
  BY <1>1 DEF RingOK, VecOK
<1>3. b = [c EXCEPT !.n = 0, !.d = [k \in {} |-> JUNK]]
  BY DEF utringbuffer_done
<1> HIDE DEF c, b
<1>4. b.live = c.live /\ b.bad = c.bad
  <2>1. PICK i, m, f, d, live, bad : c = Vec(i, m, f, d, live, bad)
    BY <1>2 DEF IsVec
  <2>2. b.live = live /\ b.bad = bad /\ c.live = live /\ c.bad = bad
    BY <1>3, <2>1 DEF Vec
  <2> QED BY <2>2
<1>5. r = SetLiveBad(v, b.live, b.bad)
  BY <1>0 DEF utringbuffer_init, SetLiveBad
<1>6. v = Vec(0, n, FALSE, [k \in 0 .. n - 1 |-> JUNK], [x \in {} |-> 0], FALSE)
  BY <1>0 DEF NewVec, Vec
<1> HIDE DEF r
<1>7. v.i = 0 /\ v.n = n /\ v.f = FALSE /\ v.d = [k \in 0 .. n - 1 |-> JUNK] /\ IsVec(v)
  BY <1>6 DEF Vec, IsVec
<1>8. r = Vec(v.i, v.n, v.f, v.d, b.live, b.bad)
  BY <1>5, <1>7, LiveBadUpdate
<1>9. /\ r.i = v.i /\ r.n = v.n /\ r.f = v.f /\ r.d = v.d /\ r.live = b.live /\ r.bad = b.bad
      /\ IsVec(r)
  BY <1>8 DEF Vec, IsVec
<1>10. /\ r.i = 0 /\ r.n = n /\ r.f = FALSE /\ r.d = [k \in 0 .. n - 1 |-> JUNK]
       /\ DOMAIN r.live = {} /\ r.bad = FALSE /\ r.live = [x \in DOMAIN r.live |-> r.live[x]]
  <2>1. r.bad = FALSE
    BY <1>1, <1>4, <1>9
  <2>2. DOMAIN r.live = {} /\ r.live = [x \in DOMAIN r.live |-> r.live[x]]
    BY <1>1, <1>2, <1>4, <1>9
  <2> QED BY <1>7, <1>9, <2>1, <2>2
<1>11. n \in Nat
  BY ItemAssumption
<1>12. VecOK(r)
  BY <1>9, <1>10, <1>11 DEF VecOK
<1> QED BY <1>10, <1>12, EmptyRing DEF r, b

(* Every push, clear and remake of a ring keeps each of its strings in one *)
(* of the slots in use.                                                    *)
THEOREM RingInvariant == RingSpec => []RingInv
<1>1. RingInit => RingInv
  BY NewIsEmpty DEF RingInit, RingInv
<1>2. RingInv /\ [RingNext]_ringVars => RingInv'
  <2> SUFFICES ASSUME RingInv, [RingNext]_ringVars PROVE RingInv'
    OBVIOUS
  <2>1. RingOK(ring, oldest)
    BY DEF RingInv
  <2>2. SUFFICES RingOK(ring', oldest')
    BY DEF RingInv, RingOK, VecOK, OneSlotEach, ValueAt, SlotOf
  <2>3. ASSUME NEW s \in Item, RingPush(s) PROVE RingOK(ring', oldest')
    BY <2>1, <2>3, PushKeeps DEF RingPush
  <2>4. CASE RingClear
    BY <2>1, <2>4, ClearKeeps DEF RingClear
  <2>5. ASSUME NEW n \in 1 .. MaxItems, RingRemake(n) PROVE RingOK(ring', oldest')
    BY <2>1, <2>5, RemakeKeeps DEF RingRemake
  <2>6. CASE UNCHANGED ringVars
    BY <2>1, <2>6 DEF ringVars
  <2> QED BY <2>3, <2>4, <2>5, <2>6 DEF RingNext
<1> QED BY <1>1, <1>2, PTL DEF RingSpec

(* A reader of the ring, by index or walking either way, finds just the    *)
(* last elements pushed, in order, and the ring owns exactly their         *)
(* strings; for rings of every size, all strings and any number of pushes. *)
THEOREM RingIsFaithful == RingSpec => []RingFaithful
BY RingInvariant, InvFaithful, PTL

-----------------------------------------------------------------------------
(***************************************************************************)
(* The dynamic array, for any strings, any first reservation and any       *)
(* number of calls.                                                        *)
(*                                                                         *)
(* ArrayOK is what survives a call: the slots below i hold the strings of  *)
(* the elements, one slot each, and nothing else is allocated. A macro is  *)
(* several writes, between which the slots in use are not a prefix of the  *)
(* block: the lemmas on the single writes (ReserveKeeps to CopyAllKeeps)   *)
(* are about any set of slots in use (Holding), and each macro is put      *)
(* together from them. Sorting needs more: the order of the strings is the *)
(* same whichever of the orders qsort() picks (OrdersAgree).               *)
(***************************************************************************)

(* n and its doublings, up to the m-th.                                    *)
LEMMA Doublings ==
  ASSUME NEW n \in Nat, NEW m \in Nat
  PROVE  \E g : g = [k \in 0 .. m |-> IF k = 0 THEN n ELSE IF g[k - 1] = 0 THEN FirstSlots ELSE 2 * g[k - 1]]
<1> DEFINE Upd(g, k) == IF k = 0 THEN n ELSE IF g[k - 1] = 0 THEN FirstSlots ELSE 2 * g[k - 1]
           S == {i \in Nat : \E g : g = [k \in 0 .. i |-> Upd(g, k)]}
<1>1. 0 \in S
  <2> DEFINE g == [k \in 0 .. 0 |-> n]
  <2>1. g = [k \in 0 .. 0 |-> Upd(g, k)]
    OBVIOUS
  <2> QED BY <2>1
<1>2. ASSUME NEW i \in S PROVE i + 1 \in S
  <2>1. PICK g : g = [k \in 0 .. i |-> Upd(g, k)]
    OBVIOUS
  <2> DEFINE h == [k \in 0 .. i + 1 |-> IF k = i + 1 THEN Upd(g, k) ELSE g[k]]
  <2>2. \A k \in 0 .. i : h[k] = g[k]
    OBVIOUS
  <2>3. ASSUME NEW k \in 0 .. i + 1 PROVE h[k] = Upd(h, k)
    <3>1. k # 0 => k - 1 \in 0 .. i
      OBVIOUS
    <3>2. Upd(h, k) = Upd(g, k)
      BY <2>2, <3>1
    <3>3. h[k] = Upd(g, k)
      <4>1. CASE k = i + 1
        BY <4>1
      <4>2. CASE k # i + 1
        BY <2>1, <2>2, <4>2
      <4> QED BY <4>1, <4>2
    <3> QED BY <3>2, <3>3
  <2>4. h = [k \in 0 .. i + 1 |-> h[k]]
    OBVIOUS
  <2>5. h = [k \in 0 .. i + 1 |-> Upd(h, k)]
    <3> HIDE DEF h, Upd
    <3> QED BY <2>3, <2>4
  <2>6. i + 1 \in Nat
    OBVIOUS
  <2>7. \E e : e = [k \in 0 .. i + 1 |-> Upd(e, k)]
    <3> HIDE DEF h, Upd
    <3> QED BY <2>5
  <2> QED BY <2>6, <2>7
<1>3. S = Nat
  <2> HIDE DEF S
  <2>1. S \subseteq Nat
    BY DEF S
  <2> QED BY <1>1, <1>2, <2>1, SetInduction
<1> QED BY <1>3

(* The reservation is large enough, and never smaller than it was.         *)
LEMMA SlotsEnough ==
  ASSUME NEW n \in Nat, NEW need \in Nat
  PROVE  Slots(n, need) \in Nat /\ Slots(n, need) >= need /\ Slots(n, need) >= n
<1> DEFINE f == CHOOSE g : g = [k \in 0 .. need |-> IF k = 0 THEN n ELSE IF g[k - 1] = 0 THEN FirstSlots ELSE 2 * g[k - 1]]
           T == {k \in 0 .. need : f[k] >= need}
           c == CHOOSE k \in 0 .. need : f[k] >= need /\ \A j \in 0 .. k - 1 : f[j] < need
           S == {k \in Nat : k <= need => f[k] \in Nat /\ f[k] >= k /\ f[k] >= n}
<1>1. Slots(n, need) = f[c]
  BY Zenon DEF Slots
<1>2. f = [k \in 0 .. need |-> IF k = 0 THEN n ELSE IF f[k - 1] = 0 THEN FirstSlots ELSE 2 * f[k - 1]]
  BY Doublings
<1> HIDE DEF f
<1>3. \A k \in 0 .. need : f[k] = IF k = 0 THEN n ELSE IF f[k - 1] = 0 THEN FirstSlots ELSE 2 * f[k - 1]
  BY <1>2
<1>4. S = Nat
  <2>1. 0 \in S
    BY <1>3
  <2>2. ASSUME NEW k \in S PROVE k + 1 \in S
    <3> SUFFICES ASSUME k + 1 <= need PROVE f[k + 1] \in Nat /\ f[k + 1] >= k + 1 /\ f[k + 1] >= n
      OBVIOUS
    <3>1. f[k] \in Nat /\ f[k] >= k /\ f[k] >= n
      OBVIOUS
    <3>2. k + 1 \in 0 .. need /\ k + 1 # 0 /\ k + 1 - 1 = k
      OBVIOUS
    <3>3. f[k + 1] = IF f[k] = 0 THEN FirstSlots ELSE 2 * f[k]
      BY <1>3, <3>2
    <3> QED BY <3>1, <3>3, SlotAssumption
  <2> HIDE DEF S
  <2>3. S \subseteq Nat
    BY DEF S
  <2> QED BY <2>1, <2>2, <2>3, SetInduction
<1>5. \A k \in 0 .. need : f[k] \in Nat /\ f[k] >= k /\ f[k] >= n
  BY <1>4
<1>6. PICK x \in T : \A y \in T : x <= y
  <2>1. T \subseteq Nat /\ need \in T
    BY <1>5
  <2> HIDE DEF T
  <2> QED BY <2>1, NatLeast
<1>7. \A j \in 0 .. x - 1 : f[j] < need
  BY <1>5, <1>6
<1>8. c \in 0 .. need /\ f[c] >= need
  BY <1>6, <1>7
<1> QED BY <1>1, <1>5, <1>8

-----------------------------------------------------------------------------
(* The assignments to an array's fields that the macros make.              *)
SetD(a, x) == [a EXCEPT !.d = x]
SetND(a, x, y) == [a EXCEPT !.n = x, !.d = y]
SetDI(a, x, y) == [a EXCEPT !.d = x, !.i = y]
SetDBad(a, x, y) == [a EXCEPT !.d = x, !.bad = y]

(* r has these fields.                                                     *)
Has(r, i, n, d, live, bad) ==
  IsVec(r) /\ r.i = i /\ r.n = n /\ r.d = d /\ r.live = live /\ r.bad = bad

(* A record is its fields.                                                 *)
LEMMA VecHas ==
  ASSUME NEW i, NEW n, NEW f, NEW d, NEW live, NEW bad
  PROVE  Has(Vec(i, n, f, d, live, bad), i, n, d, live, bad)
BY DEF Has, IsVec, Vec

(* What each of these assignments leaves of the record.                    *)
(* What each of these assignments leaves of the record.                    *)
(* What each of these assignments leaves of the record.                    *)
(* What each of these assignments leaves of the record.                    *)
(* What each of these assignments leaves of the record.                    *)
(* What each of these assignments leaves of the record.                    *)
(* What each of these assignments leaves of the record.                    *)
LEMMA ArrayUpdates ==
  ASSUME NEW a, IsVec(a), NEW x, NEW y
  PROVE  /\ Has(SetI(a, x), x, a.n, a.d, a.live, a.bad)
         /\ Has(SetD(a, x), a.i, a.n, x, a.live, a.bad)
         /\ Has(SetND(a, x, y), a.i, x, y, a.live, a.bad)
         /\ Has(SetDI(a, x, y), y, a.n, x, a.live, a.bad)
         /\ Has(SetDBad(a, x, y), a.i, a.n, x, a.live, y)
         /\ Has(SetLiveBad(a, x, y), a.i, a.n, a.d, x, y)
         /\ Has(SetSlot(a, y, x), a.i, a.n, [a.d EXCEPT ![y] = x], a.live, a.bad)
<1>1. PICK i, n, f, d, live, bad : a = Vec(i, n, f, d, live, bad)
  BY DEF IsVec
<1>2. a.i = i /\ a.n = n /\ a.f = f /\ a.d = d /\ a.live = live /\ a.bad = bad
  BY <1>1 DEF Vec
<1>3. SetD(a, x) = Vec(i, n, f, x, live, bad)
  BY <1>1 DEF Vec, SetD
<1>4. SetND(a, x, y) = Vec(i, x, f, y, live, bad)
  <2> DEFINE b == [a EXCEPT !.n = x]
  <2>1. b = Vec(i, x, f, d, live, bad)
    BY <1>1 DEF Vec
  <2>2. SetND(a, x, y) = [b EXCEPT !.d = y]
    BY <1>1, Zenon DEF Vec, SetND
  <2> HIDE DEF b
  <2> QED BY <2>1, <2>2 DEF Vec
<1>5. SetDI(a, x, y) = Vec(y, n, f, x, live, bad)
  <2> DEFINE b == [a EXCEPT !.d = x]
  <2>1. b = Vec(i, n, f, x, live, bad)
    BY <1>1 DEF Vec
  <2>2. SetDI(a, x, y) = [b EXCEPT !.i = y]
    BY <1>1, Zenon DEF Vec, SetDI
  <2> HIDE DEF b
  <2> QED BY <2>1, <2>2 DEF Vec
<1>6. SetDBad(a, x, y) = Vec(i, n, f, x, live, y)
  <2> DEFINE b == [a EXCEPT !.d = x]
  <2>1. b = Vec(i, n, f, x, live, bad)
    BY <1>1 DEF Vec
  <2>2. SetDBad(a, x, y) = [b EXCEPT !.bad = y]
    BY <1>1, Zenon DEF Vec, SetDBad
  <2> HIDE DEF b
  <2> QED BY <2>1, <2>2 DEF Vec
<1>7. /\ SetI(a, x) = Vec(x, n, f, d, live, bad)
      /\ SetSlot(a, y, x) = Vec(i, n, f, [d EXCEPT ![y] = x], live, bad)
      /\ SetLiveBad(a, x, y) = Vec(i, n, f, d, x, y)
  BY <1>2, VecUpdates, LiveBadUpdate
<1> QED BY <1>2, <1>3, <1>4, <1>5, <1>6, <1>7, VecHas

(* The slots used hold strings, each of its own, and no other slot does.   *)
Holding(a, used) ==
  /\ VecOK(a) /\ a.i \in Nat
  /\ used \subseteq 0 .. a.n - 1 /\ OneSlotEach(a, used)

(* r has the same strings in the same slots.                               *)
SameIn(r, a, used) == \A k \in used : ValueAt(r, k) = ValueAt(a, k)

(* More room: the slots in use stay as they are.                           *)
LEMMA ReserveKeeps ==
  ASSUME NEW a, NEW used, Holding(a, used), NEW by \in Nat
  PROVE  LET r == utarray_reserve(a, by)
         IN Holding(r, used) /\ r.i = a.i /\ r.n >= a.n /\ r.n >= a.i + by /\ SameIn(r, a, used)
<1> DEFINE n == Slots(a.n, a.i + by)
           D == [k \in 0 .. n - 1 |-> IF k \in DOMAIN a.d THEN a.d[k] ELSE JUNK]
           r == utarray_reserve(a, by)
<1>1. /\ IsVec(a) /\ a.n \in Nat /\ a.i \in Nat /\ a.bad = FALSE
      /\ a.d \in [0 .. a.n - 1 -> Addresses \cup {NULL, JUNK}]
      /\ used \subseteq 0 .. a.n - 1
  BY DEF Holding, VecOK
<1>2. n \in Nat /\ n >= a.n /\ n >= a.i + by
  <2>1. a.i + by \in Nat
    BY <1>1
  <2> QED BY <1>1, <2>1, SlotsEnough
<1>3. r = SetND(a, n, D)
  BY DEF utarray_reserve, SetND
<1> HIDE DEF n
<1>4. D \in [0 .. n - 1 -> Addresses \cup {NULL, JUNK}] /\ \A k \in used : D[k] = a.d[k]
  <2>1. \A k \in DOMAIN a.d : a.d[k] \in Addresses \cup {NULL, JUNK}
    BY <1>1
  <2>2. \A k \in used : k \in 0 .. n - 1 /\ k \in DOMAIN a.d
    BY <1>1, <1>2
  <2> QED BY <2>1, <2>2
<1> HIDE DEF D, r
<1>5. Has(r, a.i, n, D, a.live, a.bad)
  BY <1>1, <1>3, ArrayUpdates
<1>6. IsVec(r) /\ r.i = a.i /\ r.n = n /\ r.d = D /\ r.live = a.live /\ r.bad = a.bad
  BY <1>5 DEF Has
<1>7. VecOK(r)
  BY <1>2, <1>4, <1>6 DEF VecOK, Holding
<1>8. OneSlotEach(r, used)
  BY <1>4, <1>6 DEF OneSlotEach, Holding
<1>9. SameIn(r, a, used)
  BY <1>4, <1>6 DEF SameIn, ValueAt
<1>10. used \subseteq 0 .. n - 1
  BY <1>1, <1>2
<1> QED BY <1>1, <1>2, <1>6, <1>7, <1>8, <1>9, <1>10 DEF Holding, r

(* Only i changes.                                                         *)
LEMMA CountKeeps ==
  ASSUME NEW a, NEW used, Holding(a, used), NEW x \in Nat
  PROVE  Holding(SetI(a, x), used) /\ SetI(a, x).i = x /\ SetI(a, x).n = a.n /\ SameIn(SetI(a, x), a, used)
<1> DEFINE r == SetI(a, x)
<1>1. Has(r, x, a.n, a.d, a.live, a.bad)
  BY ArrayUpdates DEF Holding, VecOK
<1> HIDE DEF r
<1>2. IsVec(r) /\ r.i = x /\ r.n = a.n /\ r.d = a.d /\ r.live = a.live /\ r.bad = a.bad
  BY <1>1 DEF Has
<1>3. VecOK(r) /\ OneSlotEach(r, used)
  BY <1>2 DEF VecOK, OneSlotEach, Holding
<1> QED BY <1>2, <1>3 DEF Holding, SameIn, ValueAt, r

(* a with NULL in the slots new, and x elements.                           *)
Nulled(a, new, x) == SetDI(a, [k \in DOMAIN a.d |-> IF k \in new THEN NULL ELSE a.d[k]], x)

(* Slots that the array has and does not use.                              *)
Vacant(a, used, new) == new \subseteq (0 .. a.n - 1) \ used

(* Such slots can be set to NULL.                                          *)
LEMMA NullsKeep ==
  ASSUME NEW a, NEW used, Holding(a, used), NEW new, Vacant(a, used, new), NEW x \in Nat
  PROVE  LET r == Nulled(a, new, x)
         IN /\ Holding(r, used \cup new) /\ r.i = x /\ r.n = a.n /\ SameIn(r, a, used)
            /\ \A k \in new : ValueAt(r, k) = NULL
<1> new \subseteq (0 .. a.n - 1) \ used
  BY DEF Vacant
<1> DEFINE D == [k \in DOMAIN a.d |-> IF k \in new THEN NULL ELSE a.d[k]]
           r == SetDI(a, D, x)
<1>1. /\ IsVec(a) /\ a.n \in Nat /\ a.d \in [0 .. a.n - 1 -> Addresses \cup {NULL, JUNK}]
      /\ used \subseteq 0 .. a.n - 1
  BY DEF Holding, VecOK
<1>2. /\ D \in [0 .. a.n - 1 -> Addresses \cup {NULL, JUNK}]
      /\ \A k \in used : D[k] = a.d[k]
      /\ \A k \in new : D[k] = NULL
  BY <1>1
<1> HIDE DEF D
<1>3. Has(r, x, a.n, D, a.live, a.bad)
  BY <1>1, ArrayUpdates
<1> HIDE DEF r
<1>4. IsVec(r) /\ r.i = x /\ r.n = a.n /\ r.d = D /\ r.live = a.live /\ r.bad = a.bad
  BY <1>3 DEF Has
<1>5. VecOK(r)
  BY <1>2, <1>4 DEF VecOK, Holding
<1>6. NULL \notin DOMAIN a.live
  BY NotNumbers DEF Holding, VecOK
<1>7. OneSlotEach(r, used \cup new)
  <2>1. \A k \in used \cup new : D[k] = NULL \/ D[k] \in DOMAIN a.live
    BY <1>2 DEF OneSlotEach, Holding
  <2>2. \A y \in DOMAIN a.live : \E k \in used \cup new : D[k] = y
    BY <1>2 DEF OneSlotEach, Holding
  <2>3. \A j, k \in used \cup new : (D[j] = D[k] /\ D[j] # NULL) => j = k
    BY <1>2 DEF OneSlotEach, Holding
  <2> QED BY <1>4, <2>1, <2>2, <2>3 DEF OneSlotEach
<1>8. SameIn(r, a, used) /\ \A k \in new : ValueAt(r, k) = NULL
  BY <1>2, <1>4 DEF SameIn, ValueAt
<1> QED BY <1>1, <1>4, <1>5, <1>7, <1>8 DEF Holding, r, D, Nulled

(* The loops that call dtor().                                             *)
LEMMA DtorKeeps ==
  ASSUME NEW a, NEW used, Holding(a, used), NEW slots \in SUBSET used
  PROVE  LET r == DtorAll(a, slots)
         IN Holding(r, used \ slots) /\ r.i = a.i /\ r.n = a.n /\ SameIn(r, a, used \ slots)
<1> DEFINE held == {k \in slots : a.d[k] # NULL}
           gone == {a.d[k] : k \in held}
           L == [y \in DOMAIN a.live \ gone |-> a.live[y]]
           B == \/ a.bad
                \/ ~(gone \subseteq DOMAIN a.live)
                \/ \E j, k \in held : j # k /\ a.d[j] = a.d[k]
           r == DtorAll(a, slots)
<1>1. /\ VecOK(a) /\ OneSlotEach(a, used) /\ used \subseteq 0 .. a.n - 1 /\ a.i \in Nat
  BY DEF Holding
<1>2. NULL \notin DOMAIN a.live
  BY <1>1, NotNumbers DEF VecOK
<1>3. gone \subseteq DOMAIN a.live
  BY <1>1 DEF OneSlotEach
<1>4. B = FALSE
  BY <1>1, <1>3 DEF OneSlotEach, VecOK
<1>5. r = SetLiveBad(a, L, B)
  BY DEF DtorAll, SetLiveBad
<1>6. \A k \in used \ slots : a.d[k] # NULL => a.d[k] \notin gone
  BY <1>1 DEF OneSlotEach
<1>7. /\ DOMAIN L = DOMAIN a.live \ gone /\ \A y \in DOMAIN L : L[y] = a.live[y]
      /\ L = [y \in DOMAIN L |-> L[y]]
  OBVIOUS
<1>8. \A y \in gone : \E k \in slots : a.d[k] = y
  OBVIOUS
<1>9. \A k \in slots : a.d[k] # NULL => a.d[k] \in gone
  OBVIOUS
<1> HIDE DEF L, B, r, gone
<1>10. Has(r, a.i, a.n, a.d, L, B)
  BY <1>1, <1>5, ArrayUpdates DEF VecOK
<1>11. IsVec(r) /\ r.i = a.i /\ r.n = a.n /\ r.d = a.d /\ r.live = L /\ r.bad = FALSE
  BY <1>4, <1>10 DEF Has
<1>12. VecOK(r)
  BY <1>1, <1>7, <1>11 DEF VecOK
<1>13. \A k \in used \ slots : r.d[k] = NULL \/ r.d[k] \in DOMAIN L
  BY <1>1, <1>6, <1>7, <1>11 DEF OneSlotEach
<1>14. \A y \in DOMAIN L : \E k \in used \ slots : r.d[k] = y
  BY <1>1, <1>2, <1>7, <1>9, <1>11 DEF OneSlotEach
<1>15. OneSlotEach(r, used \ slots)
  BY <1>1, <1>11, <1>13, <1>14 DEF OneSlotEach
<1>16. SameIn(r, a, used \ slots)
  BY <1>7, <1>11, <1>13 DEF SameIn, ValueAt
<1>17. used \ slots \subseteq 0 .. r.n - 1
  BY <1>1, <1>11
<1> QED BY <1>1, <1>11, <1>12, <1>15, <1>16, <1>17 DEF Holding, r

(* The slots from j on can move; the x slots before both places stay.      *)
Movable(a, x, j, to) ==
  /\ x \in Nat /\ j \in Nat /\ to \in Nat /\ a.i \in Nat
  /\ Holding(a, (0 .. x - 1) \cup (j .. a.i - 1))
  /\ x <= j /\ x <= to /\ j <= a.i /\ to + (a.i - j) <= a.n

(* r is a with these slots moved.                                          *)
MovedTo(r, a, x, j, to) ==
  /\ Holding(r, (0 .. x - 1) \cup (to .. to + (a.i - j) - 1))
  /\ r.i = a.i /\ r.n = a.n /\ SameIn(r, a, 0 .. x - 1)
  /\ \A k \in to .. to + (a.i - j) - 1 : ValueAt(r, k) = ValueAt(a, j + (k - to))

(* memmove() moves them.                                                   *)
LEMMA MoveKeeps ==
  ASSUME NEW a, NEW x, NEW j, NEW to, Movable(a, x, j, to)
  PROVE  MovedTo(memmove(a, to, j), a, x, j, to)
<1> SUFFICES ASSUME x \in Nat, j \in Nat, to \in Nat,
                    Holding(a, (0 .. x - 1) \cup (j .. a.i - 1)),
                    x <= j, x <= to, j <= a.i, to + (a.i - j) <= a.n
             PROVE  MovedTo(memmove(a, to, j), a, x, j, to)
  BY DEF Movable
<1> DEFINE target == to .. to + (a.i - j) - 1
           keep == 0 .. x - 1
           from == j .. a.i - 1
           D == [k \in DOMAIN a.d |-> IF k \in target THEN a.d[j + (k - to)] ELSE a.d[k]]
           B == a.bad \/ ~(target \subseteq DOMAIN a.d)
           r == memmove(a, to, j)
<1>1. /\ VecOK(a) /\ a.i \in Nat /\ OneSlotEach(a, keep \cup from) /\ a.n \in Nat
      /\ a.d \in [0 .. a.n - 1 -> Addresses \cup {NULL, JUNK}] /\ a.bad = FALSE
      /\ keep \cup from \subseteq 0 .. a.n - 1
  BY DEF Holding, VecOK
<1>2. /\ target \subseteq 0 .. a.n - 1 /\ keep \cap target = {} /\ keep \cap from = {}
      /\ \A k \in target : j + (k - to) \in from
      /\ \A m \in from : to + (m - j) \in target /\ j + ((to + (m - j)) - to) = m
      /\ \A k, m \in target : j + (k - to) = j + (m - to) => k = m
  <2>1. target \subseteq 0 .. a.n - 1
    BY <1>1
  <2>2. keep \cap target = {} /\ keep \cap from = {}
    BY <1>1
  <2>3. \A k \in target : j + (k - to) \in from
    BY <1>1
  <2>4. \A m \in from : to + (m - j) \in target /\ j + ((to + (m - j)) - to) = m
    BY <1>1
  <2>5. \A k, m \in target : j + (k - to) = j + (m - to) => k = m
    BY <1>1
  <2> QED BY <2>1, <2>2, <2>3, <2>4, <2>5
<1>3. r = SetDBad(a, D, B)
  BY DEF memmove, SetDBad
<1>4. B = FALSE
  BY <1>1, <1>2
<1> HIDE DEF target, keep, from
<1>5. \A k \in target : D[k] = a.d[j + (k - to)]
  BY <1>1, <1>2
<1>6. \A k \in keep : D[k] = a.d[k]
  BY <1>1, <1>2
<1>7. D \in [0 .. a.n - 1 -> Addresses \cup {NULL, JUNK}]
  BY <1>1, <1>2
<1> HIDE DEF D, B, r
<1>8. Has(r, a.i, a.n, D, a.live, B)
  BY <1>1, <1>3, ArrayUpdates DEF VecOK
<1>9. IsVec(r) /\ r.i = a.i /\ r.n = a.n /\ r.d = D /\ r.live = a.live /\ r.bad = FALSE
  BY <1>4, <1>8 DEF Has
<1>10. VecOK(r)
  BY <1>1, <1>7, <1>9 DEF VecOK
<1>11. \A k \in keep \cup target : D[k] = NULL \/ D[k] \in DOMAIN a.live
  BY <1>1, <1>2, <1>5, <1>6 DEF OneSlotEach
<1>12. \A y \in DOMAIN a.live : \E k \in keep \cup target : D[k] = y
  <2> TAKE y \in DOMAIN a.live
  <2>1. PICK m \in keep \cup from : a.d[m] = y
    BY <1>1 DEF OneSlotEach
  <2>2. CASE m \in keep
    BY <1>6, <2>1, <2>2
  <2>3. CASE m \in from
    <3>1. D[to + (m - j)] = a.d[m]
      <4> DEFINE k == to + (m - j)
      <4>1. k \in target /\ j + (k - to) = m
        BY <1>2, <2>3
      <4> HIDE DEF k
      <4>2. D[k] = a.d[m]
        BY <1>5, <4>1
      <4> QED BY <4>2 DEF k
    <3> QED BY <1>2, <2>1, <2>3, <3>1
  <2> QED BY <2>1, <2>2, <2>3
<1>13. ASSUME NEW k \in keep \cup target, NEW m \in keep \cup target, D[k] = D[m], D[k] # NULL
       PROVE  k = m
  <2>1. CASE k \in keep /\ m \in keep
    BY <1>1, <1>6, <1>13, <2>1 DEF OneSlotEach
  <2>2. CASE k \in target /\ m \in target
    <3>1. a.d[j + (k - to)] = a.d[j + (m - to)] /\ a.d[j + (k - to)] # NULL
      BY <1>5, <1>13, <2>2
    <3>2. j + (k - to) = j + (m - to)
      BY <1>1, <1>2, <2>2, <3>1 DEF OneSlotEach
    <3> QED BY <1>2, <2>2, <3>2
  <2>3. CASE k \in keep /\ m \in target
    <3>1. a.d[k] = a.d[j + (m - to)] /\ a.d[k] # NULL
      BY <1>5, <1>6, <1>13, <2>3
    <3>2. k = j + (m - to)
      BY <1>1, <1>2, <2>3, <3>1 DEF OneSlotEach
    <3> QED BY <1>2, <2>3, <3>2
  <2>4. CASE k \in target /\ m \in keep
    <3>1. a.d[m] = a.d[j + (k - to)] /\ a.d[m] # NULL
      BY <1>5, <1>6, <1>13, <2>4
    <3>2. m = j + (k - to)
      BY <1>1, <1>2, <2>4, <3>1 DEF OneSlotEach
    <3> QED BY <1>2, <2>4, <3>2
  <2> QED BY <2>1, <2>2, <2>3, <2>4
<1>14. OneSlotEach(r, keep \cup target)
  BY <1>9, <1>11, <1>12, <1>13 DEF OneSlotEach
<1>15. SameIn(r, a, keep) /\ \A k \in target : ValueAt(r, k) = ValueAt(a, j + (k - to))
  BY <1>5, <1>6, <1>9 DEF SameIn, ValueAt
<1>16. keep \cup target \subseteq 0 .. r.n - 1
  BY <1>1, <1>2, <1>9
<1> QED BY <1>1, <1>9, <1>10, <1>14, <1>15, <1>16 DEF Holding, r, keep, target, MovedTo

(* The slots in use change places.                                         *)
LEMMA PermuteKeeps ==
  ASSUME NEW a, Holding(a, 0 .. a.i - 1), NEW p \in Bijection(1 .. a.i, 1 .. a.i)
  PROVE  LET r == utarray_sort(a, p)
         IN /\ Holding(r, 0 .. a.i - 1) /\ r.i = a.i
            /\ \A k \in 1 .. a.i : ValueAt(r, k - 1) = ValueAt(a, p[k] - 1)
<1> DEFINE used == 0 .. a.i - 1
           D == [k \in DOMAIN a.d |-> IF k < a.i THEN a.d[p[k + 1] - 1] ELSE a.d[k]]
           r == utarray_sort(a, p)
<1>1. /\ VecOK(a) /\ a.i \in Nat /\ OneSlotEach(a, used) /\ a.n \in Nat
      /\ a.d \in [0 .. a.n - 1 -> Addresses \cup {NULL, JUNK}] /\ a.bad = FALSE
      /\ used \subseteq 0 .. a.n - 1
  BY DEF Holding, VecOK
<1>2. /\ p \in [1 .. a.i -> 1 .. a.i]
      /\ \A j, k \in 1 .. a.i : p[j] = p[k] => j = k
      /\ \A m \in 1 .. a.i : \E k \in 1 .. a.i : p[k] = m
  BY DEF Bijection, Injection, Surjection, IsInjective
<1>3. \A k \in used : k + 1 \in 1 .. a.i /\ p[k + 1] - 1 \in used
  <2> TAKE k \in used
  <2>1. k + 1 \in 1 .. a.i
    BY <1>1
  <2>2. p[k + 1] \in 1 .. a.i
    BY <1>2, <2>1
  <2> QED BY <1>1, <2>1, <2>2
<1>4. r = SetD(a, D)
  BY DEF utarray_sort, SetD
<1>5. \A k \in used : D[k] = a.d[p[k + 1] - 1]
  BY <1>1
<1>6. D \in [0 .. a.n - 1 -> Addresses \cup {NULL, JUNK}]
  <2> SUFFICES ASSUME NEW k \in 0 .. a.n - 1 PROVE D[k] \in Addresses \cup {NULL, JUNK}
    BY <1>1
  <2>1. CASE k < a.i
    <3>1. k \in used
      BY <1>1, <2>1
    <3> QED BY <1>1, <1>3, <1>5, <3>1
  <2>2. CASE ~(k < a.i)
    BY <1>1, <2>2
  <2> QED BY <2>1, <2>2
<1> HIDE DEF D, r
<1>7. Has(r, a.i, a.n, D, a.live, a.bad)
  BY <1>1, <1>4, ArrayUpdates DEF VecOK
<1>8. IsVec(r) /\ r.i = a.i /\ r.n = a.n /\ r.d = D /\ r.live = a.live /\ r.bad = FALSE
  BY <1>1, <1>7 DEF Has
<1>9. VecOK(r)
  BY <1>1, <1>6, <1>8 DEF VecOK
<1>10. \A k \in used : D[k] = NULL \/ D[k] \in DOMAIN a.live
  BY <1>1, <1>3, <1>5 DEF OneSlotEach
<1>11. \A y \in DOMAIN a.live : \E k \in used : D[k] = y
  <2> TAKE y \in DOMAIN a.live
  <2>1. PICK m \in used : a.d[m] = y
    BY <1>1 DEF OneSlotEach
  <2>2. PICK k \in 1 .. a.i : p[k] = m + 1
    BY <1>2, <1>3
  <2>3. k - 1 \in used /\ k - 1 + 1 = k /\ m + 1 - 1 = m
    BY <1>1
  <2>4. D[k - 1] = a.d[m]
    BY <1>5, <2>2, <2>3
  <2> QED BY <2>1, <2>3, <2>4
<1>12. ASSUME NEW k \in used, NEW m \in used, D[k] = D[m], D[k] # NULL PROVE k = m
  <2>0. k + 1 \in 1 .. a.i /\ m + 1 \in 1 .. a.i /\ p[k + 1] - 1 \in used /\ p[m + 1] - 1 \in used
    BY <1>3
  <2>1. p[k + 1] - 1 = p[m + 1] - 1
    <3> DEFINE u == p[k + 1] - 1
               v == p[m + 1] - 1
    <3>1. u \in used /\ v \in used /\ D[k] = a.d[u] /\ D[m] = a.d[v]
      BY <1>5, <2>0
    <3> HIDE DEF u, v, used
    <3>2. u = v
      BY <1>1, <1>12, <3>1 DEF OneSlotEach
    <3> QED BY <3>2 DEF u, v
  <2>2. p[k + 1] \in Int /\ p[m + 1] \in Int
    <3>1. p[k + 1] \in 1 .. a.i /\ p[m + 1] \in 1 .. a.i
      BY <1>2, <2>0
    <3> QED BY <1>1, <3>1
  <2>3. p[k + 1] = p[m + 1]
    BY <2>1, <2>2
  <2>4. k + 1 = m + 1
    BY <1>2, <1>3, <2>3
  <2> QED BY <1>1, <2>4
<1>13. OneSlotEach(r, used)
  BY <1>8, <1>10, <1>11, <1>12 DEF OneSlotEach
<1>14. ASSUME NEW k \in 1 .. a.i PROVE ValueAt(r, k - 1) = ValueAt(a, p[k] - 1)
  <2>1. k - 1 \in used /\ k - 1 + 1 = k
    BY <1>1
  <2>2. D[k - 1] = a.d[p[k] - 1]
    BY <1>5, <2>1
  <2> QED BY <1>8, <2>2 DEF ValueAt
<1> QED BY <1>1, <1>8, <1>9, <1>13, <1>14 DEF Holding, r

(* One string is copied into a slot that is not in use.                    *)
LEMMA CopyKeeps ==
  ASSUME NEW a, NEW used, Holding(a, used), used \subseteq 0 .. MaxItems - 1,
         NEW k \in (0 .. a.n - 1) \ used, NEW e \in Item
  PROVE  LET c == utarray_str_cpy(a, k, e)
         IN /\ Holding(c, used \cup {k}) /\ c.i = a.i /\ c.n = a.n
            /\ SameIn(c, a, used) /\ ValueAt(c, k) = e
<1>1. VecOK(a) /\ used \in SUBSET (0 .. a.n - 1) /\ OneSlotEach(a, used) /\ a.i \in Nat
  BY DEF Holding
<1> DEFINE c == utarray_str_cpy(a, k, e)
<1>2. /\ VecOK(c) /\ OneSlotEach(c, used \cup {k})
      /\ c.i = a.i /\ c.n = a.n
      /\ \A j \in used : ValueAt(c, j) = ValueAt(a, j)
      /\ ValueAt(c, k) = e
  BY <1>1, FillSlot
<1> HIDE DEF c
<1>3. used \cup {k} \subseteq 0 .. c.n - 1
  BY <1>1, <1>2
<1> QED BY <1>1, <1>2, <1>3 DEF Holding, SameIn, c

(* g is the array after each of the first m copies.                        *)
Copied(g, a, j, w, m) ==
  g = [k \in 0 .. m |-> IF k = 0 THEN a ELSE utarray_str_cpy(g[k - 1], j + k - 1, w[k])]

(* There is such a function.                                               *)
LEMMA CopiesExist ==
  ASSUME NEW a, NEW j, NEW w, NEW m \in Nat
  PROVE  \E g : Copied(g, a, j, w, m)
<1> DEFINE Upd(g, k) == IF k = 0 THEN a ELSE utarray_str_cpy(g[k - 1], j + k - 1, w[k])
           S == {i \in Nat : \E g : g = [k \in 0 .. i |-> Upd(g, k)]}
<1>1. 0 \in S
  <2> DEFINE g == [k \in 0 .. 0 |-> a]
  <2>1. g = [k \in 0 .. 0 |-> Upd(g, k)]
    OBVIOUS
  <2> QED BY <2>1
<1>2. ASSUME NEW i \in S PROVE i + 1 \in S
  <2>1. PICK g : g = [k \in 0 .. i |-> Upd(g, k)]
    OBVIOUS
  <2> DEFINE h == [k \in 0 .. i + 1 |-> IF k = i + 1 THEN Upd(g, k) ELSE g[k]]
  <2>2. \A k \in 0 .. i : h[k] = g[k]
    OBVIOUS
  <2>3. ASSUME NEW k \in 0 .. i + 1 PROVE h[k] = Upd(h, k)
    <3>1. k # 0 => k - 1 \in 0 .. i
      OBVIOUS
    <3>2. Upd(h, k) = Upd(g, k)
      BY <2>2, <3>1
    <3>3. h[k] = Upd(g, k)
      <4>1. CASE k = i + 1
        BY <4>1
      <4>2. CASE k # i + 1
        BY <2>1, <2>2, <4>2
      <4> QED BY <4>1, <4>2
    <3> QED BY <3>2, <3>3
  <2>4. h = [k \in 0 .. i + 1 |-> h[k]]
    OBVIOUS
  <2>5. h = [k \in 0 .. i + 1 |-> Upd(h, k)]
    <3> HIDE DEF h, Upd
    <3> QED BY <2>3, <2>4
  <2>6. i + 1 \in Nat
    OBVIOUS
  <2>7. \E e : e = [k \in 0 .. i + 1 |-> Upd(e, k)]
    <3> HIDE DEF h, Upd
    <3> QED BY <2>5
  <2> QED BY <2>6, <2>7
<1>3. S = Nat
  <2> HIDE DEF S
  <2>1. S \subseteq Nat
    BY DEF S
  <2> QED BY <1>1, <1>2, <2>1, SetInduction
<1> QED BY <1>3 DEF Copied

(* Another array's strings are copied into slots that are not in use.      *)
LEMMA CopyAllKeeps ==
  ASSUME NEW a, NEW used, Holding(a, used), used \subseteq 0 .. MaxItems - 1,
         NEW w \in Seq(Item), NEW j \in Nat,
         j .. j + Len(w) - 1 \subseteq (0 .. a.n - 1) \ used,
         j .. j + Len(w) - 1 \subseteq 0 .. MaxItems - 1
  PROVE  LET c == CopyAll(a, j, w)
         IN /\ Holding(c, used \cup (j .. j + Len(w) - 1)) /\ c.i = a.i /\ c.n = a.n
            /\ SameIn(c, a, used)
            /\ \A i \in 1 .. Len(w) : ValueAt(c, j + i - 1) = w[i]
<1> DEFINE n == Len(w)
           f == CHOOSE g : g = [k \in 0 .. n |-> IF k = 0 THEN a ELSE utarray_str_cpy(g[k - 1], j + k - 1, w[k])]
           Done(c, k) == /\ Holding(c, used \cup (j .. j + k - 1)) /\ c.i = a.i /\ c.n = a.n
                         /\ SameIn(c, a, used)
                         /\ \A i \in 1 .. k : ValueAt(c, j + i - 1) = w[i]
           S == {k \in Nat : k <= n => Done(f[k], k)}
<1>0. n \in Nat
  OBVIOUS
<1>1. CopyAll(a, j, w) = f[n]
  BY Zenon DEF CopyAll
<1>2. f = [k \in 0 .. n |-> IF k = 0 THEN a ELSE utarray_str_cpy(f[k - 1], j + k - 1, w[k])]
  <2>1. \E g : Copied(g, a, j, w, n)
    <3> HIDE DEF n
    <3> QED BY <1>0, CopiesExist
  <2> QED BY <2>1, Zenon DEF Copied
<1> HIDE DEF f, n
<1>3. \A k \in 0 .. n : f[k] = IF k = 0 THEN a ELSE utarray_str_cpy(f[k - 1], j + k - 1, w[k])
  BY <1>2
<1>4. Done(f[0], 0)
  <2>1. f[0] = a
    BY <1>0, <1>3
  <2>2. used \cup (j .. j + 0 - 1) = used
    OBVIOUS
  <2>3. Holding(f[0], used \cup (j .. j + 0 - 1))
    BY <2>1, <2>2
  <2>4. \A i \in 1 .. 0 : ValueAt(f[0], j + i - 1) = w[i]
    OBVIOUS
  <2> QED BY <2>1, <2>3, <2>4 DEF SameIn
<1>5. ASSUME NEW k \in Nat, k + 1 <= n, Done(f[k], k) PROVE Done(f[k + 1], k + 1)
  <2> DEFINE b == f[k]
             c == f[k + 1]
             now == used \cup (j .. j + k - 1)
             e == w[k + 1]
  <2>1. k + 1 \in 0 .. n /\ k + 1 # 0 /\ k + 1 - 1 = k /\ j + (k + 1) - 1 = j + k
    BY <1>0, <1>5
  <2>2. c = utarray_str_cpy(b, j + k, e)
    BY <1>3, <2>1
  <2>3. e \in Item
    BY <1>5 DEF n
  <2>4. j + k \in j .. j + n - 1 /\ j .. j + k - 1 \subseteq j .. j + n - 1 /\ j + k \notin j .. j + k - 1
    BY <1>0, <1>5, SMTT(20)
  <2>5. j + k \in (0 .. a.n - 1) \ now
    BY <2>4, SMTT(20) DEF n
  <2>6. now \subseteq 0 .. MaxItems - 1
    BY <2>4, SMTT(20) DEF n
  <2>7. now \cup {j + k} = used \cup (j .. j + (k + 1) - 1)
    BY <1>5, SMTT(20)
  <2>8. Holding(b, now) /\ b.n = a.n /\ b.i = a.i /\ SameIn(b, a, used)
        /\ \A i \in 1 .. k : ValueAt(b, j + i - 1) = w[i]
    BY <1>5
  <2>9. \A i \in 1 .. k : j + i - 1 \in now
    BY <1>5
  <2>10. used \subseteq now
    OBVIOUS
  <2> HIDE DEF now, b, c, e
  <2>11. /\ Holding(c, now \cup {j + k}) /\ c.i = b.i /\ c.n = b.n
         /\ SameIn(c, b, now) /\ ValueAt(c, j + k) = e
    <3> DEFINE x == j + k
    <3>1. x \in (0 .. b.n - 1) \ now /\ c = utarray_str_cpy(b, x, e)
      BY <2>2, <2>5, <2>8
    <3> HIDE DEF x
    <3>2. LET r == utarray_str_cpy(b, x, e)
          IN /\ Holding(r, now \cup {x}) /\ r.i = b.i /\ r.n = b.n
             /\ SameIn(r, b, now) /\ ValueAt(r, x) = e
      BY <2>3, <2>6, <2>8, <3>1, CopyKeeps, ZenonT(30)
    <3> QED BY <3>1, <3>2 DEF x
  <2>12. SameIn(c, a, used)
    BY <2>8, <2>10, <2>11 DEF SameIn
  <2>13. ASSUME NEW i \in 1 .. k + 1 PROVE ValueAt(c, j + i - 1) = w[i]
    <3>1. CASE i = k + 1
      <4>1. j + i - 1 = j + k
        BY <3>1
      <4> QED BY <2>11, <3>1, <4>1 DEF e
    <3>2. CASE i # k + 1
      <4>1. i \in 1 .. k
        BY <1>5, <3>2
      <4> QED BY <2>8, <2>9, <2>11, <4>1 DEF SameIn
    <3> QED BY <3>1, <3>2
  <2>14. Holding(c, used \cup (j .. j + (k + 1) - 1))
    BY <2>7, <2>11
  <2> QED BY <2>8, <2>11, <2>12, <2>13, <2>14 DEF c
<1>6. S = Nat
  <2> HIDE DEF Done
  <2>1. 0 \in S
    BY <1>4
  <2>2. ASSUME NEW k \in S PROVE k + 1 \in S
    BY <1>0, <1>5
  <2> HIDE DEF S
  <2>3. S \subseteq Nat
    BY DEF S
  <2> QED BY <2>1, <2>2, <2>3, SetInduction
<1>7. Done(f[n], n)
  <2> HIDE DEF Done
  <2> QED BY <1>0, <1>6
<1> QED BY <1>1, <1>7 DEF n

-----------------------------------------------------------------------------
(* The array a holds the elements s.                                       *)
ArrayOK(a, s) ==
  /\ s \in Seq(Item) /\ a.i = Len(s) /\ Len(s) <= MaxItems
  /\ Holding(a, 0 .. Len(s) - 1)
  /\ \A k \in 1 .. Len(s) : ValueAt(a, k - 1) = s[k]

ArrayInv == ArrayOK(vec, content)

(* The elements before and after a place.                                  *)
LEMMA Parts ==
  ASSUME NEW s \in Seq(Item), NEW k \in 0 .. Len(s)
  PROVE  /\ Upto(s, k) \in Seq(Item) /\ Len(Upto(s, k)) = k
         /\ \A i \in 1 .. k : Upto(s, k)[i] = s[i]
         /\ From(s, k) \in Seq(Item) /\ Len(From(s, k)) = Len(s) - k
         /\ \A i \in 1 .. Len(s) - k : From(s, k)[i] = s[k + i]
<1>1. Len(s) \in Nat /\ \A i \in 1 .. Len(s) : s[i] \in Item
  OBVIOUS
<1>2. /\ Upto(s, k) \in Seq(Item) /\ Len(Upto(s, k)) = k
      /\ \A i \in 1 .. k : Upto(s, k)[i] = s[i]
  <2>1. \A i \in 1 .. k : s[i] \in Item
    BY <1>1
  <2>2. /\ SubSeq(s, 1, k) \in Seq(Item) /\ Len(SubSeq(s, 1, k)) = (IF 1 <= k THEN k - 1 + 1 ELSE 0)
        /\ \A i \in 1 .. k - 1 + 1 : SubSeq(s, 1, k)[i] = s[1 + i - 1]
    BY <1>1, <2>1, SubSeqProperties
  <2>3. k - 1 + 1 = k /\ \A i \in 1 .. k : 1 + i - 1 = i
    BY <1>1
  <2> QED BY <1>1, <2>2, <2>3 DEF Upto
<1>3. /\ From(s, k) \in Seq(Item) /\ Len(From(s, k)) = Len(s) - k
      /\ \A i \in 1 .. Len(s) - k : From(s, k)[i] = s[k + i]
  <2> DEFINE m == k + 1
             n == Len(s)
  <2>1. m \in Int /\ n \in Int /\ \A i \in m .. n : s[i] \in Item
    BY <1>1
  <2>2. n - m + 1 = n - k /\ \A i \in 1 .. n - k : m + i - 1 = k + i
    BY <1>1
  <2>3. (IF m <= n THEN n - m + 1 ELSE 0) = n - k
    BY <1>1
  <2> HIDE DEF m, n
  <2>4. /\ SubSeq(s, m, n) \in Seq(Item) /\ Len(SubSeq(s, m, n)) = (IF m <= n THEN n - m + 1 ELSE 0)
        /\ \A i \in 1 .. n - m + 1 : SubSeq(s, m, n)[i] = s[m + i - 1]
    BY <2>1, SubSeqProperties
  <2> QED BY <2>2, <2>3, <2>4 DEF From, m, n
<1> QED BY <1>2, <1>3

(* A sequence filled up with NULLs.                                        *)
LEMMA Padding ==
  ASSUME NEW s \in Seq(Item), NEW j \in Nat
  PROVE  LET c == s \o Nulls(j - Len(s))
             n == IF j > Len(s) THEN j ELSE Len(s)
         IN /\ c \in Seq(Item) /\ Len(c) = n
            /\ \A k \in 1 .. n : c[k] = IF k <= Len(s) THEN s[k] ELSE NULL
            /\ j <= Len(s) => c = s
<1> DEFINE z == Nulls(j - Len(s))
           m == IF j > Len(s) THEN j - Len(s) ELSE 0
<1>1. Len(s) \in Nat /\ m \in Nat
  OBVIOUS
<1>2. z = [k \in 1 .. m |-> NULL]
  <2>1. 1 .. j - Len(s) = 1 .. m
    BY <1>1
  <2> QED BY <2>1 DEF Nulls
<1> HIDE DEF z
<1>3. z \in Seq(Item) /\ Len(z) = m /\ \A k \in 1 .. m : z[k] = NULL
  BY <1>1, <1>2 DEF Item
<1>4. /\ s \o z \in Seq(Item) /\ Len(s \o z) = Len(s) + Len(z)
      /\ \A i \in 1 .. Len(s) + Len(z) : (s \o z)[i] = IF i <= Len(s) THEN s[i] ELSE z[i - Len(s)]
  BY <1>3, ConcatProperties
<1>5. Len(s) + Len(z) = IF j > Len(s) THEN j ELSE Len(s)
  BY <1>1, <1>3
<1>6. ASSUME j <= Len(s) PROVE s \o z = s
  <2>1. m = 0
    BY <1>1, <1>6
  <2>2. z = <<>>
    BY <1>3, <2>1, EmptySeq
  <2> QED BY <2>2, ConcatEmptySeq
<1>7. ASSUME NEW k \in 1 .. (IF j > Len(s) THEN j ELSE Len(s))
      PROVE  (s \o z)[k] = IF k <= Len(s) THEN s[k] ELSE NULL
  <2>1. k \in 1 .. Len(s) + Len(z)
    BY <1>5
  <2>2. CASE k <= Len(s)
    BY <1>4, <2>1, <2>2
  <2>3. CASE ~(k <= Len(s))
    <3>1. k - Len(s) \in 1 .. m
      BY <1>1, <1>7, <2>3
    <3> QED BY <1>3, <1>4, <2>1, <2>3, <3>1
  <2> QED BY <2>2, <2>3
<1> QED BY <1>4, <1>5, <1>6, <1>7 DEF z

(* w put in between the elements before j and those from j on.             *)
LEMMA Splicing ==
  ASSUME NEW c \in Seq(Item), NEW w \in Seq(Item), NEW j \in 0 .. Len(c)
  PROVE  LET t == Upto(c, j) \o w \o From(c, j)
         IN /\ t \in Seq(Item) /\ Len(t) = Len(c) + Len(w)
            /\ \A k \in 1 .. j : t[k] = c[k]
            /\ \A k \in 1 .. Len(w) : t[j + k] = w[k]
            /\ \A k \in j + 1 .. Len(c) : t[k + Len(w)] = c[k]
<1> DEFINE x == Upto(c, j)
           y == From(c, j)
           t == x \o w \o y
<1>1. /\ x \in Seq(Item) /\ Len(x) = j /\ \A i \in 1 .. j : x[i] = c[i]
      /\ y \in Seq(Item) /\ Len(y) = Len(c) - j /\ \A i \in 1 .. Len(c) - j : y[i] = c[j + i]
  BY Parts
<1>2. Len(c) \in Nat /\ Len(w) \in Nat /\ j \in Nat /\ j <= Len(c)
  OBVIOUS
<1> HIDE DEF x, y
<1> DEFINE u == x \o w
<1>3. /\ u \in Seq(Item) /\ Len(u) = j + Len(w)
      /\ \A i \in 1 .. j + Len(w) : u[i] = IF i <= j THEN x[i] ELSE w[i - j]
  BY <1>1, ConcatProperties
<1> HIDE DEF u
<1>4. /\ u \o y \in Seq(Item) /\ Len(u \o y) = j + Len(w) + (Len(c) - j)
      /\ \A i \in 1 .. j + Len(w) + (Len(c) - j) :
           (u \o y)[i] = IF i <= j + Len(w) THEN u[i] ELSE y[i - (j + Len(w))]
  <2>1. /\ u \o y \in Seq(Item) /\ Len(u \o y) = Len(u) + Len(y)
        /\ \A i \in 1 .. Len(u) + Len(y) :
             (u \o y)[i] = IF i <= Len(u) THEN u[i] ELSE y[i - Len(u)]
    <3>1. u \in Seq(Item) /\ y \in Seq(Item)
      BY <1>1, <1>3
    <3> QED BY ONLY <3>1, ConcatProperties
  <2>2. Len(u) = j + Len(w) /\ Len(y) = Len(c) - j
    BY <1>1, <1>3
  <2> QED BY <2>1, <2>2
<1>5. t = u \o y
  BY DEF u
<1>6. ASSUME NEW k \in 1 .. j PROVE t[k] = c[k]
  <2>1. k \in 1 .. j + Len(w) + (Len(c) - j) /\ k <= j + Len(w) /\ k \in 1 .. j + Len(w)
    BY <1>2
  <2> QED BY <1>1, <1>3, <1>4, <1>5, <2>1
<1>7. ASSUME NEW k \in 1 .. Len(w) PROVE t[j + k] = w[k]
  <2> DEFINE p == j + k
  <2>1. /\ p \in 1 .. j + Len(w) + (Len(c) - j) /\ p <= j + Len(w)
        /\ p \in 1 .. j + Len(w) /\ ~(p <= j) /\ p - j = k
    BY <1>2
  <2> HIDE DEF p
  <2>2. (u \o y)[p] = u[p] /\ u[p] = w[k]
    BY <1>3, <1>4, <2>1
  <2> QED BY <1>5, <2>2 DEF p
<1>8. ASSUME NEW k \in j + 1 .. Len(c) PROVE t[k + Len(w)] = c[k]
  <2> DEFINE p == k + Len(w)
             i == k - j
  <2>1. /\ p \in 1 .. j + Len(w) + (Len(c) - j) /\ ~(p <= j + Len(w))
        /\ p - (j + Len(w)) = i /\ i \in 1 .. Len(c) - j /\ j + i = k
    BY <1>2
  <2> HIDE DEF p, i
  <2>2. (u \o y)[p] = y[i]
    BY <1>4, <2>1
  <2>3. y[i] = c[k]
    BY <1>1, <2>1
  <2> QED BY <1>5, <2>2, <2>3 DEF p
<1>9. t \in Seq(Item) /\ Len(t) = Len(c) + Len(w)
  <2>1. j + Len(w) + (Len(c) - j) = Len(c) + Len(w)
    BY <1>2
  <2> HIDE DEF t
  <2> QED BY <1>4, <1>5, <2>1
<1> QED BY <1>6, <1>7, <1>8, <1>9 DEF x, y

(* A string at the end: in the slot after the last one, once there is one. *)
LEMMA PushArray ==
  ASSUME NEW a, NEW s, ArrayOK(a, s), NEW e \in Item, Len(s) + 1 <= MaxItems
  PROVE  LET r == utarray_reserve(a, 1)
             c == utarray_str_cpy(r, r.i, e)
         IN ArrayOK(SetI(c, c.i + 1), Append(s, e))
<1> DEFINE n == Len(s)
           used == 0 .. n - 1
           r == utarray_reserve(a, 1)
           c == utarray_str_cpy(r, n, e)
           m == n + 1
           x == SetI(c, m)
           t == Append(s, e)
<1>1. /\ s \in Seq(Item) /\ n \in Nat /\ a.i = n /\ Holding(a, used) /\ n + 1 <= MaxItems
      /\ \A k \in 1 .. n : ValueAt(a, k - 1) = s[k]
  BY DEF ArrayOK
<1>2. /\ Holding(r, used) /\ r.i = n /\ r.n >= n + 1 /\ SameIn(r, a, used) /\ r.n \in Nat
  <2>1. Holding(r, used) /\ r.i = n /\ r.n >= n + 1 /\ SameIn(r, a, used)
    BY <1>1, ReserveKeeps
  <2> QED BY <2>1 DEF Holding, VecOK
<1>3. t \in Seq(Item) /\ Len(t) = n + 1 /\ t[n + 1] = e /\ \A k \in 1 .. n : t[k] = s[k]
  BY <1>1
<1>4. used \subseteq 0 .. MaxItems - 1 /\ n \in (0 .. r.n - 1) \ used /\ used \cup {n} = 0 .. (n + 1) - 1
  BY <1>1, <1>2, ItemAssumption
<1>m. m \in Nat
  BY <1>1
<1> HIDE DEF r, used, n, m
<1>5. Holding(c, used \cup {n}) /\ c.i = n /\ SameIn(c, r, used) /\ ValueAt(c, n) = e
  <2>1. LET y == utarray_str_cpy(r, n, e)
        IN /\ Holding(y, used \cup {n}) /\ y.i = r.i /\ y.n = r.n
           /\ SameIn(y, r, used) /\ ValueAt(y, n) = e
    BY <1>2, <1>4, CopyKeeps
  <2> QED BY <1>2, <2>1
<1> HIDE DEF c
<1>6. Holding(x, used \cup {n}) /\ x.i = m /\ SameIn(x, c, used \cup {n})
  <2> DEFINE all == used \cup {n}
  <2>1. Holding(c, all)
    BY <1>5
  <2> HIDE DEF all
  <2>2. /\ Holding(SetI(c, m), all) /\ SetI(c, m).i = m /\ SetI(c, m).n = c.n
        /\ SameIn(SetI(c, m), c, all)
    BY <1>m, <2>1, CountKeeps
  <2> QED BY <2>2 DEF all
<1> HIDE DEF x, t
<1>7. ASSUME NEW k \in 1 .. n + 1 PROVE ValueAt(x, k - 1) = t[k]
  <2>1. CASE k = n + 1
    <3>1. k - 1 = n
      BY <1>1, <2>1
    <3> QED BY <1>3, <1>5, <1>6, <2>1, <3>1 DEF SameIn
  <2>2. CASE k # n + 1
    <3>1. k \in 1 .. n /\ k - 1 \in used
      BY <1>1, <2>2 DEF used
    <3> QED BY <1>1, <1>2, <1>3, <1>5, <1>6, <3>1 DEF SameIn
  <2> QED BY <2>1, <2>2
<1>8. Holding(x, 0 .. (n + 1) - 1)
  BY <1>4, <1>6
<1>9. ArrayOK(x, t)
  BY <1>1, <1>3, <1>6, <1>7, <1>8 DEF ArrayOK, m
<1> QED BY <1>2, <1>5, <1>9 DEF r, c, x, t, m

(* The last slot's string is freed.                                        *)
LEMMA PopArray ==
  ASSUME NEW a, NEW s, ArrayOK(a, s), s # <<>>
  PROVE  ArrayOK(utarray_pop_back(a), Upto(s, Len(s) - 1))
<1> DEFINE n == Len(s)
           used == 0 .. n - 1
           b == utarray_str_dtor(a, n - 1)
           x == SetI(b, n - 1)
           t == Upto(s, n - 1)
<1>1. /\ s \in Seq(Item) /\ n \in Nat /\ n > 0 /\ a.i = n /\ Holding(a, used) /\ n <= MaxItems
      /\ \A k \in 1 .. n : ValueAt(a, k - 1) = s[k]
  BY EmptySeq DEF ArrayOK
<1>2. n - 1 \in 0 .. n /\ n - 1 \in used /\ used \ {n - 1} = 0 .. (n - 1) - 1 /\ n - 1 \in Nat
  BY <1>1
<1>3. t \in Seq(Item) /\ Len(t) = n - 1 /\ \A k \in 1 .. n - 1 : t[k] = s[k]
  BY <1>1, <1>2, Parts
<1> HIDE DEF used
<1>4. /\ VecOK(b) /\ OneSlotEach(b, used \ {n - 1}) /\ b.i = n /\ b.n = a.n
      /\ \A j \in used \ {n - 1} : ValueAt(b, j) = ValueAt(a, j)
  <2> DEFINE m == n - 1
  <2>1. VecOK(a) /\ used \in SUBSET (0 .. a.n - 1) /\ OneSlotEach(a, used) /\ m \in used
    BY <1>1, <1>2 DEF Holding
  <2> HIDE DEF m
  <2>2. LET y == utarray_str_dtor(a, m)
        IN /\ VecOK(y) /\ OneSlotEach(y, used \ {m})
           /\ y.i = a.i /\ y.n = a.n /\ y.f = a.f /\ y.d = a.d
           /\ \A j \in used \ {m} : ValueAt(y, j) = ValueAt(a, j)
    BY <2>1, DropSlot
  <2> QED BY <1>1, <2>2 DEF m
<1> HIDE DEF b
<1>5. Holding(b, 0 .. (n - 1) - 1) /\ SameIn(b, a, 0 .. (n - 1) - 1)
  <2>1. used \ {n - 1} \subseteq 0 .. b.n - 1
    BY <1>1, <1>4 DEF Holding
  <2>2. Holding(b, used \ {n - 1}) /\ SameIn(b, a, used \ {n - 1})
    BY <1>1, <1>4, <2>1 DEF Holding, SameIn
  <2> QED BY <1>2, <2>2
<1>6. Holding(x, 0 .. (n - 1) - 1) /\ x.i = n - 1 /\ SameIn(x, b, 0 .. (n - 1) - 1)
  BY <1>2, <1>5, CountKeeps
<1> HIDE DEF x, t
<1>7. ASSUME NEW k \in 1 .. n - 1 PROVE ValueAt(x, k - 1) = t[k]
  <2>1. k - 1 \in 0 .. (n - 1) - 1 /\ k \in 1 .. n
    BY <1>1
  <2> QED BY <1>1, <1>3, <1>5, <1>6, <2>1 DEF SameIn
<1>8. ArrayOK(x, t)
  <2>1. n - 1 <= MaxItems
    BY <1>1, ItemAssumption
  <2> QED BY <1>3, <1>6, <1>7, <2>1 DEF ArrayOK
<1>9. utarray_pop_back(a) = x
  BY <1>1, <1>4 DEF utarray_pop_back, SetI, b, x
<1> QED BY <1>8, <1>9 DEF t

(* The sequence that resizing leaves.                                      *)
Resized(s, num) == IF num <= Len(s) THEN Upto(s, num) ELSE s \o Nulls(num - Len(s))

(* Resizing frees what is beyond, or fills up.                             *)
LEMMA ResizeArray ==
  ASSUME NEW a, NEW s, ArrayOK(a, s), NEW num \in Nat, num <= MaxItems
  PROVE  ArrayOK(utarray_resize(a, num), Resized(s, num))
<1> DEFINE n == Len(s)
           used == 0 .. n - 1
           low == IF num < n THEN num ELSE n
           r == IF a.i > num THEN DtorAll(a, num .. a.i - 1)
                ELSE IF a.i < num THEN utarray_reserve(a, num - a.i) ELSE a
           new == n .. num - 1
           x == Nulled(r, new, num)
           t == Resized(s, num)
<1>1. /\ s \in Seq(Item) /\ n \in Nat /\ a.i = n /\ Holding(a, used) /\ n <= MaxItems
      /\ \A k \in 1 .. n : ValueAt(a, k - 1) = s[k]
  BY DEF ArrayOK
<1>2. Holding(r, 0 .. low - 1) /\ SameIn(r, a, 0 .. low - 1) /\ (num > n => r.n >= num)
  <2>1. CASE n > num
    <3>1. r = DtorAll(a, num .. n - 1) /\ num .. n - 1 \in SUBSET used
      BY <1>1, <2>1
    <3>2. used \ (num .. n - 1) = 0 .. low - 1
      BY <1>1, <2>1
    <3>3. LET y == DtorAll(a, num .. n - 1)
          IN /\ Holding(y, used \ (num .. n - 1)) /\ y.i = a.i /\ y.n = a.n
             /\ SameIn(y, a, used \ (num .. n - 1))
      <4> HIDE DEF used
      <4> QED BY <1>1, <3>1, DtorKeeps
    <3>4. ~(num > n)
      BY <1>1, <2>1
    <3> HIDE DEF r, used, low
    <3> QED BY <3>1, <3>2, <3>3, <3>4
  <2>2. CASE n < num
    <3>1. r = utarray_reserve(a, num - n) /\ num - n \in Nat /\ low = n /\ n + (num - n) = num
      BY <1>1, <2>2
    <3>2. LET y == utarray_reserve(a, num - n)
          IN /\ Holding(y, used) /\ y.i = a.i /\ y.n >= a.n /\ y.n >= a.i + (num - n)
             /\ SameIn(y, a, used)
      <4> HIDE DEF used
      <4> QED BY <1>1, <3>1, ReserveKeeps
    <3> HIDE DEF r, low
    <3> QED BY <1>1, <3>1, <3>2
  <2>3. CASE n = num
    <3>1. r = a /\ low = n
      BY <1>1, <2>3
    <3> QED BY <1>1, <2>3, <3>1 DEF SameIn
  <2> QED BY <1>1, <2>1, <2>2, <2>3
<1>3. utarray_resize(a, num) = x
  BY <1>1 DEF utarray_resize, SetDI, Nulled
<1> HIDE DEF r
<1>4. r.n \in Nat
  BY <1>2 DEF Holding, VecOK
<1>5. new \in SUBSET ((0 .. r.n - 1) \ (0 .. low - 1)) /\ (0 .. low - 1) \cup new = 0 .. num - 1
  BY <1>1, <1>2, <1>4
<1> DEFINE kept == 0 .. low - 1
<1> HIDE DEF kept, new, low
<1>6. /\ Holding(x, kept \cup new) /\ x.i = num /\ SameIn(x, r, kept)
      /\ \A k \in new : ValueAt(x, k) = NULL
  <2>1. Holding(r, kept) /\ Vacant(r, kept, new)
    BY <1>2, <1>5 DEF kept, Vacant
  <2>2. LET y == Nulled(r, new, num)
        IN /\ Holding(y, kept \cup new) /\ y.i = num /\ y.n = r.n /\ SameIn(y, r, kept)
           /\ \A k \in new : ValueAt(y, k) = NULL
    BY <2>1, NullsKeep
  <2> QED BY <2>2
<1> HIDE DEF x
<1>7. /\ t \in Seq(Item) /\ Len(t) = num
      /\ \A k \in 1 .. num : t[k] = IF k <= n THEN s[k] ELSE NULL
  <2>1. CASE num <= n
    <3>1. num \in 0 .. n
      BY <1>1, <2>1
    <3>2. t = Upto(s, num)
      BY <2>1 DEF Resized
    <3>3. /\ Upto(s, num) \in Seq(Item) /\ Len(Upto(s, num)) = num
          /\ \A i \in 1 .. num : Upto(s, num)[i] = s[i]
      BY <1>1, <3>1, Parts
    <3>4. \A k \in 1 .. num : k <= n
      BY <1>1, <2>1
    <3> HIDE DEF t
    <3> QED BY <3>2, <3>3, <3>4
  <2>2. CASE ~(num <= n)
    <3>1. t = s \o Nulls(num - n) /\ num > n
      BY <1>1, <2>2 DEF Resized
    <3> QED BY <1>1, <3>1, Padding
  <2> QED BY <2>1, <2>2
<1> HIDE DEF t
<1>8. ASSUME NEW k \in 1 .. num PROVE ValueAt(x, k - 1) = t[k]
  <2>1. CASE k <= n
    <3>1. k - 1 \in kept /\ k \in 1 .. n
      BY <1>1, <2>1 DEF kept, low
    <3> QED BY <1>1, <1>2, <1>6, <1>7, <2>1, <3>1 DEF SameIn, kept
  <2>2. CASE ~(k <= n)
    <3>1. k - 1 \in new
      BY <1>1, <2>2 DEF new
    <3> QED BY <1>6, <1>7, <2>2, <3>1
  <2> QED BY <2>1, <2>2
<1>9. Holding(x, 0 .. num - 1)
  BY <1>5, <1>6 DEF kept
<1>10. ArrayOK(x, t)
  BY <1>6, <1>7, <1>8, <1>9 DEF ArrayOK
<1> QED BY <1>3, <1>10 DEF t

-----------------------------------------------------------------------------
(* The array with l slots open at j, as the insertions have it before they *)
(* copy anything.                                                          *)
Opened(a, j, l) ==
  LET g == utarray_reserve(IF j > a.i THEN utarray_resize(a, j) ELSE a, l)
  IN IF j < g.i THEN memmove(g, j + l, j) ELSE g

(* m holds the elements c, with l slots open at j.                         *)
OpenAt(m, c, j, l) ==
  /\ c \in Seq(Item) /\ j \in 0 .. Len(c) /\ m.i = Len(c) /\ m.n \in Nat /\ m.n >= Len(c) + l
  /\ Holding(m, (0 .. j - 1) \cup (j + l .. Len(c) + l - 1))
  /\ \A k \in 1 .. j : ValueAt(m, k - 1) = c[k]
  /\ \A k \in j + 1 .. Len(c) : ValueAt(m, k + l - 1) = c[k]

(* Filled up to j.                                                         *)
LEMMA PadArray ==
  ASSUME NEW a, NEW s, ArrayOK(a, s), NEW j \in Nat, j <= MaxItems
  PROVE  ArrayOK(IF j > a.i THEN utarray_resize(a, j) ELSE a, s \o Nulls(j - Len(s)))
<1>1. s \in Seq(Item) /\ Len(s) \in Nat /\ a.i = Len(s)
  BY DEF ArrayOK
<1>2. CASE j > Len(s)
  <2>1. ArrayOK(utarray_resize(a, j), Resized(s, j))
    BY ResizeArray
  <2>2. ~(j <= Len(s))
    BY <1>1, <1>2
  <2>3. Resized(s, j) = s \o Nulls(j - Len(s))
    BY <2>2 DEF Resized
  <2> QED BY <1>1, <1>2, <2>1, <2>3
<1>3. CASE ~(j > Len(s))
  <2>1. j <= Len(s)
    BY <1>1, <1>3
  <2>2. s \o Nulls(j - Len(s)) = s
    BY <1>1, <2>1, Padding
  <2> QED BY <1>1, <1>3, <2>2
<1> QED BY <1>2, <1>3

(* Room for l more, with what is at j and after it moved up.               *)
LEMMA OpenArray ==
  ASSUME NEW a, NEW s, ArrayOK(a, s), NEW j \in Nat, j <= MaxItems, NEW l \in Nat
  PROVE  OpenAt(Opened(a, j, l), s \o Nulls(j - Len(s)), j, l)
<1> DEFINE c == s \o Nulls(j - Len(s))
           n == Len(c)
           used == 0 .. n - 1
           b == IF j > a.i THEN utarray_resize(a, j) ELSE a
           g == utarray_reserve(b, l)
           m == Opened(a, j, l)
           to == j + l
<1>1. ArrayOK(b, c)
  BY PadArray
<1>2. j <= Len(c)
  <2>1. s \in Seq(Item)
    BY DEF ArrayOK
  <2>2. Len(c) = (IF j > Len(s) THEN j ELSE Len(s)) /\ Len(s) \in Nat
    BY <2>1, Padding
  <2> HIDE DEF c
  <2> QED BY <2>2
<1>3. m = IF j < g.i THEN memmove(g, to, j) ELSE g
  BY DEF Opened
<1> HIDE DEF b, c, m
<1>4. /\ c \in Seq(Item) /\ n \in Nat /\ b.i = n /\ Holding(b, used)
      /\ \A k \in 1 .. n : ValueAt(b, k - 1) = c[k]
  BY <1>1 DEF ArrayOK
<1>5. j \in 0 .. n /\ to \in Nat /\ to + (n - j) = n + l
  BY <1>2, <1>4
<1> HIDE DEF n, used, to
<1>6. Holding(g, used) /\ g.i = n /\ g.n >= n + l /\ SameIn(g, b, used) /\ g.n \in Nat
  <2>1. LET r == utarray_reserve(b, l)
        IN Holding(r, used) /\ r.i = b.i /\ r.n >= b.n /\ r.n >= b.i + l /\ SameIn(r, b, used)
    BY <1>4, ReserveKeeps
  <2>2. Holding(g, used) /\ g.i = n /\ g.n >= n + l /\ SameIn(g, b, used)
    BY <1>4, <2>1
  <2> QED BY <2>2 DEF Holding, VecOK
<1> HIDE DEF g
<1>7. \A k \in 1 .. n : ValueAt(g, k - 1) = c[k]
  <2>1. \A k \in 1 .. n : k - 1 \in used
    BY <1>4 DEF used
  <2> QED BY <1>4, <1>6, <2>1 DEF SameIn
<1> DEFINE low == 0 .. j - 1
           high == to .. to + (n - j) - 1
<1>8. /\ Holding(m, low \cup high) /\ m.i = n /\ m.n = g.n /\ SameIn(m, g, low)
      /\ \A k \in high : ValueAt(m, k) = ValueAt(g, j + (k - to))
  <2>1. CASE j < n
    <3>1. low \cup (j .. g.i - 1) = used /\ j <= g.i /\ to + (g.i - j) <= g.n
      BY <1>4, <1>5, <1>6, <2>1 DEF used
    <3>2. j <= to
      BY <1>5 DEF to
    <3>3. MovedTo(memmove(g, to, j), g, j, j, to)
      <4>1. Holding(g, (0 .. j - 1) \cup (j .. g.i - 1))
        BY <1>6, <3>1
      <4>2. Movable(g, j, j, to)
        BY <1>4, <1>5, <1>6, <3>1, <3>2, <4>1 DEF Movable
      <4> QED BY <4>2, MoveKeeps
    <3>4. m = memmove(g, to, j)
      BY <1>3, <1>6, <2>1
    <3> QED BY <1>6, <3>3, <3>4 DEF MovedTo
  <2>2. CASE ~(j < n)
    <3>1. j = n /\ high = {} /\ low = used
      BY <1>4, <1>5, <2>2 DEF used
    <3>2. m = g
      BY <1>3, <1>6, <3>1, <1>4
    <3>3. SameIn(g, g, low)
      BY DEF SameIn
    <3> HIDE DEF low, high
    <3>4. low \cup high = used
      BY <3>1
    <3> QED BY <1>6, <3>1, <3>2, <3>3, <3>4
  <2> QED BY <2>1, <2>2
<1>9. ASSUME NEW k \in 1 .. j PROVE ValueAt(m, k - 1) = c[k]
  <2>1. k - 1 \in low /\ k \in 1 .. n
    BY <1>4, <1>5
  <2> QED BY <1>7, <1>8, <2>1 DEF SameIn
<1>10. ASSUME NEW k \in j + 1 .. n PROVE ValueAt(m, k + l - 1) = c[k]
  <2>1. k + l - 1 \in high /\ j + ((k + l - 1) - to) = k - 1 /\ k \in 1 .. n
    BY <1>4, <1>5 DEF to
  <2> HIDE DEF high
  <2> QED BY <1>7, <1>8, <2>1
<1>11. high = j + l .. n + l - 1
  BY <1>4, <1>5 DEF to
<1>12. m.n \in Nat /\ m.n >= n + l /\ Holding(m, (0 .. j - 1) \cup (j + l .. n + l - 1))
  BY <1>6, <1>8, <1>11
<1>13. OpenAt(m, c, j, l)
  BY <1>4, <1>5, <1>8, <1>9, <1>10, <1>12 DEF OpenAt, n
<1> QED BY <1>13 DEF m, c

(* w copied to the open slots: the insertion is complete.                  *)
LEMMA FillOpened ==
  ASSUME NEW m, NEW c, NEW j, NEW w \in Seq(Item), OpenAt(m, c, j, Len(w)),
         Len(c) + Len(w) <= MaxItems,
         NEW q, q.i = m.i, q.n = m.n,
         SameIn(q, m, (0 .. j - 1) \cup (j + Len(w) .. Len(c) + Len(w) - 1)),
         Holding(q, ((0 .. j - 1) \cup (j + Len(w) .. Len(c) + Len(w) - 1)) \cup (j .. j + Len(w) - 1)),
         \A i \in 1 .. Len(w) : ValueAt(q, j + i - 1) = w[i]
  PROVE  ArrayOK(SetI(q, q.i + Len(w)), Upto(c, j) \o w \o From(c, j))
<1> DEFINE l == Len(w)
           n == Len(c)
           rest == (0 .. j - 1) \cup (j + l .. n + l - 1)
           all == 0 .. n + l - 1
           e == n + l
           x == SetI(q, e)
           t == Upto(c, j) \o w \o From(c, j)
<1>1. /\ c \in Seq(Item) /\ j \in 0 .. n /\ q.i = n /\ n \in Nat /\ l \in Nat /\ e \in Nat
      /\ \A k \in 1 .. j : ValueAt(m, k - 1) = c[k]
      /\ \A k \in j + 1 .. n : ValueAt(m, k + l - 1) = c[k]
  BY DEF OpenAt
<1>2. /\ t \in Seq(Item) /\ Len(t) = n + l
      /\ \A k \in 1 .. j : t[k] = c[k]
      /\ \A k \in 1 .. l : t[j + k] = w[k]
      /\ \A k \in j + 1 .. n : t[k + l] = c[k]
  BY <1>1, Splicing
<1> HIDE DEF t
<1>3. rest \cup (j .. j + l - 1) = all
  BY <1>1
<1>4. Holding(q, all)
  BY <1>3
<1> HIDE DEF all
<1>5. Holding(x, all) /\ x.i = e /\ SameIn(x, q, all)
  <2> HIDE DEF e
  <2>1. /\ Holding(SetI(q, e), all) /\ SetI(q, e).i = e /\ SetI(q, e).n = q.n
        /\ SameIn(SetI(q, e), q, all)
    BY <1>1, <1>4, CountKeeps
  <2> QED BY <2>1
<1> HIDE DEF x
<1>6. ASSUME NEW k \in 1 .. n + l PROVE ValueAt(x, k - 1) = t[k]
  <2>1. k - 1 \in all
    BY <1>1 DEF all
  <2>2. ValueAt(x, k - 1) = ValueAt(q, k - 1)
    BY <1>5, <2>1 DEF SameIn
  <2>3. CASE k \in 1 .. j
    <3>1. k - 1 \in rest
      BY <1>1, <2>3
    <3> QED BY <1>1, <1>2, <2>2, <2>3, <3>1 DEF SameIn
  <2>4. CASE k \in j + 1 .. j + l
    <3> DEFINE i == k - j
    <3>1. i \in 1 .. l /\ j + i - 1 = k - 1 /\ j + i = k
      BY <1>1, <2>4
    <3> HIDE DEF i
    <3>2. ValueAt(q, j + i - 1) = w[i] /\ t[j + i] = w[i]
      BY <1>2, <3>1
    <3> QED BY <2>2, <3>1, <3>2
  <2>5. CASE k \in j + l + 1 .. n + l
    <3> DEFINE i == k - l
    <3>1. i \in j + 1 .. n /\ i + l - 1 = k - 1 /\ i + l = k /\ k - 1 \in rest
      BY <1>1, <2>5
    <3> HIDE DEF i, rest
    <3>2. ValueAt(m, i + l - 1) = c[i] /\ t[i + l] = c[i]
      BY <1>1, <1>2, <3>1
    <3>3. ValueAt(q, k - 1) = ValueAt(m, k - 1)
      BY <3>1 DEF SameIn, rest
    <3> QED BY <2>2, <3>1, <3>2, <3>3
  <2> QED BY <1>1, <2>3, <2>4, <2>5
<1>7. ArrayOK(x, t)
  BY <1>1, <1>2, <1>5, <1>6 DEF ArrayOK, all
<1> QED BY <1>1, <1>7 DEF x, t

(* One string put in.                                                      *)
LEMMA InsertArrayAt ==
  ASSUME NEW a, NEW s, ArrayOK(a, s), NEW j \in Nat, j <= MaxItems, NEW e \in Item,
         Len(s \o Nulls(j - Len(s))) + 1 <= MaxItems
  PROVE  LET c == s \o Nulls(j - Len(s))
         IN ArrayOK(utarray_insert(a, e, j), Upto(c, j) \o <<e>> \o From(c, j))
<1> DEFINE c == s \o Nulls(j - Len(s))
           m == Opened(a, j, 1)
           w == <<e>>
           rest == (0 .. j - 1) \cup (j + 1 .. Len(c) + 1 - 1)
           q == utarray_str_cpy(m, j, e)
<1>1. OpenAt(m, c, j, 1)
  BY OpenArray
<1>2. w \in Seq(Item) /\ Len(w) = 1 /\ w[1] = e
  OBVIOUS
<1>3. utarray_insert(a, e, j) = SetI(q, q.i + 1)
  BY DEF utarray_insert, Opened, SetI
<1>4. Len(c) + 1 <= MaxItems
  OBVIOUS
<1> HIDE DEF c, m, w
<1>5. Len(c) \in Nat /\ j \in 0 .. Len(c) /\ m.n \in Nat /\ m.n >= Len(c) + 1 /\ Holding(m, rest)
  BY <1>1 DEF OpenAt
<1>6. rest \subseteq 0 .. MaxItems - 1 /\ j \in (0 .. m.n - 1) \ rest
  BY <1>4, <1>5, ItemAssumption
<1> HIDE DEF rest
<1>7. /\ Holding(q, rest \cup {j}) /\ q.i = m.i /\ q.n = m.n /\ SameIn(q, m, rest) /\ ValueAt(q, j) = e
  <2>1. LET y == utarray_str_cpy(m, j, e)
        IN /\ Holding(y, rest \cup {j}) /\ y.i = m.i /\ y.n = m.n
           /\ SameIn(y, m, rest) /\ ValueAt(y, j) = e
    BY <1>5, <1>6, CopyKeeps
  <2> QED BY <2>1
<1> HIDE DEF q
<1>8. j .. j + Len(w) - 1 = {j} /\ \A i \in 1 .. Len(w) : i = 1 /\ j + i - 1 = j
  BY <1>2
<1>9. OpenAt(m, c, j, Len(w)) /\ Len(c) + Len(w) <= MaxItems
  BY <1>1, <1>2, <1>4
<1>10. rest = (0 .. j - 1) \cup (j + Len(w) .. Len(c) + Len(w) - 1)
  BY <1>2 DEF rest
<1>11. \A i \in 1 .. Len(w) : ValueAt(q, j + i - 1) = w[i]
  BY <1>2, <1>7, <1>8
<1>12. Holding(q, rest \cup (j .. j + Len(w) - 1))
  BY <1>7, <1>8
<1>13. ArrayOK(SetI(q, q.i + Len(w)), Upto(c, j) \o w \o From(c, j))
  BY <1>2, <1>7, <1>9, <1>10, <1>11, <1>12, FillOpened
<1> QED BY <1>2, <1>3, <1>13 DEF c, w

(* Another array put in.                                                   *)
LEMMA InsertAllAt ==
  ASSUME NEW a, NEW s, ArrayOK(a, s), NEW j \in Nat, j <= MaxItems, NEW w \in Seq(Item), w # <<>>,
         Len(s \o Nulls(j - Len(s))) + Len(w) <= MaxItems
  PROVE  LET c == s \o Nulls(j - Len(s))
         IN ArrayOK(utarray_inserta(a, w, j), Upto(c, j) \o w \o From(c, j))
<1> DEFINE c == s \o Nulls(j - Len(s))
           l == Len(w)
           m == Opened(a, j, l)
           rest == (0 .. j - 1) \cup (j + l .. Len(c) + l - 1)
           q == CopyAll(m, j, w)
<1>1. OpenAt(m, c, j, l) /\ l \in Nat /\ l # 0
  BY OpenArray, EmptySeq
<1>2. utarray_inserta(a, w, j) = SetI(q, q.i + l)
  BY <1>1 DEF utarray_inserta, Opened, SetI
<1>4. Len(c) + l <= MaxItems
  OBVIOUS
<1> HIDE DEF c, m
<1>5. Len(c) \in Nat /\ j \in 0 .. Len(c) /\ m.n \in Nat /\ m.n >= Len(c) + l /\ Holding(m, rest)
  BY <1>1 DEF OpenAt
<1>6. /\ rest \subseteq 0 .. MaxItems - 1
      /\ j .. j + Len(w) - 1 \subseteq (0 .. m.n - 1) \ rest
      /\ j .. j + Len(w) - 1 \subseteq 0 .. MaxItems - 1
  BY <1>1, <1>4, <1>5, ItemAssumption
<1> HIDE DEF rest
<1>7. /\ Holding(q, rest \cup (j .. j + Len(w) - 1)) /\ q.i = m.i /\ q.n = m.n
      /\ SameIn(q, m, rest)
      /\ \A i \in 1 .. Len(w) : ValueAt(q, j + i - 1) = w[i]
  <2>1. LET y == CopyAll(m, j, w)
        IN /\ Holding(y, rest \cup (j .. j + Len(w) - 1)) /\ y.i = m.i /\ y.n = m.n
           /\ SameIn(y, m, rest)
           /\ \A i \in 1 .. Len(w) : ValueAt(y, j + i - 1) = w[i]
    <3>1. w \in Seq(Item) /\ j \in Nat /\ Holding(m, rest)
      BY <1>5
    <3> QED BY ONLY <1>6, <3>1, CopyAllKeeps, ZenonT(30)
  <2> QED BY <2>1
<1> HIDE DEF q
<1>8. rest = (0 .. j - 1) \cup (j + Len(w) .. Len(c) + Len(w) - 1)
  BY DEF rest
<1>9. ArrayOK(SetI(q, q.i + Len(w)), Upto(c, j) \o w \o From(c, j))
  BY <1>1, <1>4, <1>7, <1>8, FillOpened
<1> QED BY <1>2, <1>9 DEF c

-----------------------------------------------------------------------------
(* A new slot with NULL at the end.                                        *)
LEMMA ExtendArray ==
  ASSUME NEW a, NEW s, ArrayOK(a, s), Len(s) + 1 <= MaxItems
  PROVE  ArrayOK(utarray_extend_back(a), Append(s, NULL))
<1> DEFINE r == utarray_reserve(a, 1)
           c == utarray_str_cpy(r, r.i, NULL)
<1>1. ArrayOK(SetI(c, c.i + 1), Append(s, NULL))
  BY PushArray DEF Item
<1>2. c = Store(r, r.i, NULL)
  BY DEF utarray_str_cpy
<1>3. utarray_extend_back(a) = [Store(r, r.i, NULL) EXCEPT !.i = @ + 1]
  BY DEF utarray_extend_back
<1> HIDE DEF r, c
<1>4. utarray_extend_back(a) = SetI(c, c.i + 1)
  BY <1>2, <1>3 DEF SetI
<1> QED BY <1>1, <1>4 DEF c, r

(* Another array at the end.                                               *)
LEMMA ConcatArrays ==
  ASSUME NEW a, NEW s, ArrayOK(a, s), NEW w \in Seq(Item), Len(s \o w) <= MaxItems
  PROVE  ArrayOK(utarray_concat(a, w), s \o w)
<1> DEFINE n == Len(s)
<1>1. s \in Seq(Item) /\ n \in Nat /\ a.i = n /\ n <= MaxItems
  BY DEF ArrayOK
<1>2. utarray_concat(a, w) = utarray_inserta(a, w, n)
  BY <1>1 DEF utarray_concat
<1>3. CASE w = <<>>
  <2>1. s \o w = s
    BY <1>1, <1>3, ConcatEmptySeq
  <2>2. utarray_inserta(a, w, n) = a
    BY <1>3 DEF utarray_inserta
  <2> QED BY <1>2, <2>1, <2>2
<1>4. CASE w # <<>>
  <2> DEFINE c == s \o Nulls(n - Len(s))
  <2>1. c = s
    <3>1. n \in Nat /\ n <= Len(s)
      BY <1>1
    <3> HIDE DEF n
    <3> QED BY <1>1, <3>1, Padding
  <2>2. Len(s \o w) = n + Len(w)
    BY <1>1, ConcatProperties
  <2>3. ArrayOK(utarray_inserta(a, w, n), Upto(c, n) \o w \o From(c, n))
    BY <1>1, <1>4, <2>1, <2>2, InsertAllAt
  <2> HIDE DEF c
  <2>4. Upto(c, n) = s
    BY <1>1, <2>1, SubSeqFull DEF Upto
  <2>5. From(c, n) = <<>>
    <3>1. From(s, n) \in Seq(Item) /\ Len(From(s, n)) = n - n
      BY <1>1, Parts
    <3> QED BY <1>1, <2>1, <3>1, EmptySeq
  <2>6. s \o w \in Seq(Item)
    BY <1>1, ConcatProperties
  <2>7. (s \o w) \o <<>> = s \o w
    BY <2>6, ConcatEmptySeq
  <2> QED BY <1>2, <2>3, <2>4, <2>5, <2>7
<1> QED BY <1>3, <1>4

(* What is left without the elements from p on up to e.                    *)
LEMMA Cutting ==
  ASSUME NEW s \in Seq(Item), NEW p \in 0 .. Len(s), NEW e \in p .. Len(s)
  PROVE  LET t == Upto(s, p) \o From(s, e)
         IN /\ t \in Seq(Item) /\ Len(t) = Len(s) - (e - p)
            /\ \A k \in 1 .. p : t[k] = s[k]
            /\ \A k \in p + 1 .. Len(s) - (e - p) : t[k] = s[k + (e - p)]
<1> DEFINE x == Upto(s, p)
           y == From(s, e)
           n == Len(s)
           t == x \o y
<1>1. n \in Nat /\ p \in Nat /\ e \in 0 .. n /\ e \in Nat /\ p <= e
  OBVIOUS
<1>2. /\ x \in Seq(Item) /\ Len(x) = p /\ \A i \in 1 .. p : x[i] = s[i]
      /\ y \in Seq(Item) /\ Len(y) = n - e /\ \A i \in 1 .. n - e : y[i] = s[e + i]
  BY <1>1, Parts
<1> HIDE DEF x, y
<1>3. /\ x \o y \in Seq(Item) /\ Len(x \o y) = Len(x) + Len(y)
      /\ \A i \in 1 .. Len(x) + Len(y) :
           (x \o y)[i] = IF i <= Len(x) THEN x[i] ELSE y[i - Len(x)]
  <2>1. x \in Seq(Item) /\ y \in Seq(Item)
    BY <1>2
  <2> QED BY ONLY <2>1, ConcatProperties
<1> HIDE DEF n, t
<1>4. /\ t \in Seq(Item) /\ Len(t) = p + (n - e)
      /\ \A i \in 1 .. p + (n - e) : t[i] = IF i <= p THEN x[i] ELSE y[i - p]
  BY <1>2, <1>3 DEF t
<1>5. Len(t) = n - (e - p)
  BY <1>1, <1>4
<1>6. ASSUME NEW k \in 1 .. p PROVE t[k] = s[k]
  <2>1. k \in 1 .. p + (n - e) /\ k <= p
    BY <1>1
  <2> QED BY <1>2, <1>4, <2>1
<1>7. ASSUME NEW k \in p + 1 .. n - (e - p) PROVE t[k] = s[k + (e - p)]
  <2>1. /\ k \in 1 .. p + (n - e) /\ ~(k <= p) /\ k - p \in 1 .. n - e
        /\ e + (k - p) = k + (e - p)
    BY <1>1
  <2> QED BY <1>2, <1>4, <2>1
<1> QED BY <1>4, <1>5, <1>6, <1>7 DEF t, x, y, n

(* Erasing frees the strings of the slots and moves what is after them.    *)
LEMMA EraseArray ==
  ASSUME NEW a, NEW s, ArrayOK(a, s), NEW p \in Nat, NEW l \in Nat, p + l <= Len(s)
  PROVE  ArrayOK(utarray_erase(a, p, l), Upto(s, p) \o From(s, p + l))
<1> DEFINE n == Len(s)
           used == 0 .. n - 1
           e == p + l
           slots == p .. p + l - 1
           low == 0 .. p - 1
           high == e .. n - 1
           b == DtorAll(a, slots)
           m == IF n > e THEN memmove(b, p, e) ELSE b
           c == n - l
           x == SetI(m, c)
           t == Upto(s, p) \o From(s, e)
<1>1. /\ s \in Seq(Item) /\ n \in Nat /\ a.i = n /\ Holding(a, used) /\ n <= MaxItems
      /\ \A k \in 1 .. n : ValueAt(a, k - 1) = s[k]
  BY DEF ArrayOK
<1>2. /\ p \in 0 .. n /\ e \in p .. n /\ e \in Nat /\ c \in Nat /\ slots \subseteq used
      /\ used \ slots = low \cup high /\ e - p = l /\ c <= n
  BY <1>1
<1>3. /\ t \in Seq(Item) /\ Len(t) = n - (e - p)
      /\ \A k \in 1 .. p : t[k] = s[k]
      /\ \A k \in p + 1 .. n - (e - p) : t[k] = s[k + (e - p)]
  <2> HIDE DEF e
  <2> QED BY <1>1, <1>2, Cutting
<1>4. Holding(b, low \cup high) /\ b.i = n /\ b.n = a.n /\ SameIn(b, a, low \cup high) /\ b.n \in Nat
  <2> HIDE DEF slots, used, low, high
  <2>1. LET r == DtorAll(a, slots)
        IN Holding(r, used \ slots) /\ r.i = a.i /\ r.n = a.n /\ SameIn(r, a, used \ slots)
    BY <1>1, <1>2, DtorKeeps
  <2>2. Holding(b, low \cup high) /\ b.i = n /\ b.n = a.n /\ SameIn(b, a, low \cup high)
    BY <1>1, <1>2, <2>1
  <2> QED BY <2>2 DEF Holding, VecOK
<1>5. n <= b.n
  <2>1. used \subseteq 0 .. a.n - 1 /\ a.n \in Nat
    BY <1>1 DEF Holding, VecOK
  <2>2. n = 0 \/ n - 1 \in used
    BY <1>1
  <2> QED BY <1>1, <1>4, <2>1, <2>2
<1> HIDE DEF t, b
<1>6. /\ Holding(m, 0 .. c - 1) /\ m.i = n
      /\ \A k \in 0 .. p - 1 : ValueAt(m, k) = ValueAt(b, k)
      /\ \A k \in p .. c - 1 : ValueAt(m, k) = ValueAt(b, k + l)
  <2>1. CASE n > e
    <3>1. Movable(b, p, e, p)
      <4>1. Holding(b, (0 .. p - 1) \cup (e .. b.i - 1))
        BY <1>4
      <4>2. p <= e /\ e <= b.i /\ p + (b.i - e) <= b.n
        BY <1>1, <1>2, <1>4, <1>5
      <4> QED BY <1>1, <1>2, <1>4, <4>1, <4>2 DEF Movable
    <3>2. MovedTo(m, b, p, e, p)
      BY <2>1, <3>1, MoveKeeps
    <3> HIDE DEF m
    <3>3. /\ Holding(m, (0 .. p - 1) \cup (p .. p + (n - e) - 1)) /\ m.i = n
          /\ SameIn(m, b, 0 .. p - 1)
          /\ \A k \in p .. p + (n - e) - 1 : ValueAt(m, k) = ValueAt(b, e + (k - p))
      BY <1>4, <3>2 DEF MovedTo
    <3>4. /\ p + (n - e) - 1 = c - 1 /\ (0 .. p - 1) \cup (p .. c - 1) = 0 .. c - 1
          /\ \A k \in p .. c - 1 : e + (k - p) = k + l
      BY <1>1, <1>2
    <3>5. Holding(m, 0 .. c - 1)
      <4> HIDE DEF c
      <4> QED BY <3>3, <3>4
    <3>6. \A k \in p .. c - 1 : ValueAt(m, k) = ValueAt(b, k + l)
      <4> HIDE DEF c, e
      <4> QED BY <3>3, <3>4
    <3> QED BY <3>3, <3>5, <3>6 DEF SameIn
  <2>2. CASE ~(n > e)
    <3>1. n = e /\ c = p /\ m = b /\ low \cup high = 0 .. c - 1 /\ p .. c - 1 = {}
      BY <1>1, <1>2, <2>2
    <3>2. Holding(m, 0 .. c - 1) /\ m.i = n
      <4> HIDE DEF low, high, c, m
      <4> QED BY <1>4, <3>1
    <3> HIDE DEF low, high, c, m
    <3> QED BY <3>1, <3>2
  <2> QED BY <2>1, <2>2
<1>7. utarray_erase(a, p, l) = x
  <2>1. utarray_erase(a, p, l) = [(IF b.i > e THEN memmove(b, p, e) ELSE b) EXCEPT !.i = @ - l]
    BY DEF utarray_erase, b
  <2>2. utarray_erase(a, p, l) = [m EXCEPT !.i = @ - l]
    BY <1>4, <2>1
  <2> HIDE DEF m
  <2> QED BY <1>6, <2>2 DEF SetI
<1> HIDE DEF m, c
<1> DEFINE left == 0 .. c - 1
<1>8. Holding(x, left) /\ x.i = c /\ SameIn(x, m, left)
  <2>1. Holding(m, left) /\ c \in Nat
    BY <1>2, <1>6
  <2> HIDE DEF left
  <2>2. /\ Holding(SetI(m, c), left) /\ SetI(m, c).i = c /\ SetI(m, c).n = m.n
        /\ SameIn(SetI(m, c), m, left)
    BY <2>1, CountKeeps
  <2> QED BY <2>2
<1> HIDE DEF x
<1>9. ASSUME NEW k \in 1 .. c PROVE ValueAt(x, k - 1) = t[k]
  <2>1. k - 1 \in left /\ ValueAt(x, k - 1) = ValueAt(m, k - 1)
    BY <1>2, <1>8 DEF SameIn
  <2>2. CASE k <= p
    <3>1. k - 1 \in low /\ k \in 1 .. n /\ k \in 1 .. p
      BY <1>1, <1>2, <2>2
    <3>2. ValueAt(m, k - 1) = ValueAt(b, k - 1) /\ ValueAt(b, k - 1) = ValueAt(a, k - 1)
      BY <1>4, <1>6, <3>1 DEF SameIn
    <3> QED BY <1>1, <1>3, <2>1, <3>1, <3>2
  <2>3. CASE ~(k <= p)
    <3> DEFINE i == k + l
    <3>1. /\ k - 1 \in p .. c - 1 /\ i \in 1 .. n /\ i - 1 \in high /\ (k - 1) + l = i - 1
          /\ k \in p + 1 .. n - (e - p) /\ k + (e - p) = i
      BY <1>1, <1>2, <2>3 DEF c
    <3> HIDE DEF i, high
    <3>2. ValueAt(m, k - 1) = ValueAt(b, i - 1)
      BY <1>6, <3>1
    <3>3. ValueAt(b, i - 1) = ValueAt(a, i - 1)
      BY <1>4, <3>1 DEF SameIn
    <3>4. ValueAt(a, i - 1) = s[i]
      BY <1>1, <3>1
    <3>5. t[k] = s[i]
      BY <1>3, <3>1
    <3> QED BY <2>1, <3>2, <3>3, <3>4, <3>5
  <2> QED BY <2>2, <2>3
<1>10. Len(t) = c /\ c <= MaxItems
  BY <1>1, <1>2, <1>3, ItemAssumption DEF c
<1>11. ArrayOK(x, t)
  BY <1>3, <1>8, <1>9, <1>10 DEF ArrayOK
<1> QED BY <1>7, <1>11 DEF t

(* A container with no slots in use is an empty array.                     *)
LEMMA EmptyArray ==
  ASSUME NEW a, Holding(a, {}), a.i = 0
  PROVE  ArrayOK(a, <<>>)
<1>1. <<>> \in Seq(Item) /\ Len(<<>>) = 0 /\ 0 .. 0 - 1 = {} /\ 1 .. 0 = {} /\ 0 <= MaxItems
  BY ItemAssumption
<1>2. Holding(a, 0 .. Len(<<>>) - 1)
  BY <1>1
<1> QED BY <1>1, <1>2 DEF ArrayOK

(* All strings are freed.                                                  *)
LEMMA FreeAll ==
  ASSUME NEW a, NEW s, ArrayOK(a, s)
  PROVE  LET r == DtorAll(a, 0 .. a.i - 1) IN Holding(r, {}) /\ r.i = a.i /\ r.n = a.n
<1> DEFINE used == 0 .. Len(s) - 1
<1>1. Holding(a, used) /\ a.i = Len(s) /\ used \ used = {}
  BY DEF ArrayOK
<1> HIDE DEF used
<1>2. LET r == DtorAll(a, used)
      IN Holding(r, used \ used) /\ r.i = a.i /\ r.n = a.n /\ SameIn(r, a, used \ used)
  BY <1>1, DtorKeeps
<1> QED BY <1>1, <1>2 DEF used

(* Clearing.                                                               *)
LEMMA ClearedArray ==
  ASSUME NEW a, NEW s, ArrayOK(a, s)
  PROVE  ArrayOK(utarray_clear(a), <<>>)
<1>1. s \in Seq(Item) /\ a.i = Len(s) /\ Len(s) \in Nat
  BY DEF ArrayOK
<1>2. CASE a.i > 0
  <2> DEFINE r == DtorAll(a, 0 .. a.i - 1)
  <2>1. Holding(r, {})
    BY FreeAll
  <2>2. utarray_clear(a) = SetI(r, 0)
    BY <1>2 DEF utarray_clear, SetI
  <2> HIDE DEF r
  <2>3. Holding(SetI(r, 0), {}) /\ SetI(r, 0).i = 0
    BY <2>1, CountKeeps
  <2> QED BY <2>2, <2>3, EmptyArray
<1>3. CASE ~(a.i > 0)
  <2>1. s = <<>>
    BY <1>1, <1>3, EmptySeq
  <2> QED BY <1>3, <2>1 DEF utarray_clear
<1> QED BY <1>2, <1>3

(* An array as utarray_init() leaves it, with nothing allocated.           *)
LEMMA FreshArray ==
  ASSUME NEW live, DOMAIN live = {}, live = [x \in {} |-> live[x]]
  PROVE  ArrayOK([NewVec(0) EXCEPT !.live = live, !.bad = FALSE], <<>>)
<1> PICK v : v = NewVec(0)
  OBVIOUS
<1>1. v = Vec(0, 0, FALSE, [k \in 0 .. 0 - 1 |-> JUNK], [x \in {} |-> 0], FALSE)
  BY DEF NewVec, Vec
<1>2. v.i = 0 /\ v.n = 0 /\ v.d = [k \in 0 .. 0 - 1 |-> JUNK] /\ IsVec(v)
  BY <1>1 DEF Vec, IsVec
<1> DEFINE r == SetLiveBad(v, live, FALSE)
<1>3. Has(r, v.i, v.n, v.d, live, FALSE)
  BY <1>2, ArrayUpdates
<1>4. r = [NewVec(0) EXCEPT !.live = live, !.bad = FALSE]
  BY DEF SetLiveBad
<1> HIDE DEF r
<1>5. /\ IsVec(r) /\ r.i = 0 /\ r.n = 0 /\ r.d = [k \in 0 .. 0 - 1 |-> JUNK] /\ r.live = live
      /\ r.bad = FALSE
  BY <1>2, <1>3 DEF Has
<1>6. VecOK(r)
  BY <1>5 DEF VecOK
<1>7. OneSlotEach(r, {})
  BY <1>5 DEF OneSlotEach
<1>8. Holding(r, {})
  BY <1>5, <1>6, <1>7 DEF Holding
<1> QED BY <1>4, <1>5, <1>8, EmptyArray

(* Freeing an array, and making it again.                                  *)
LEMMA RemadeArray ==
  ASSUME NEW a, NEW s, ArrayOK(a, s)
  PROVE  ArrayOK(utarray_done(a), <<>>)
<1> DEFINE b == IF a.n # 0 THEN DtorAll(a, 0 .. a.i - 1) ELSE a
<1>1. Holding(b, {})
  <2>1. CASE a.n # 0
    BY <2>1, FreeAll
  <2>2. CASE a.n = 0
    <3>1. Holding(a, 0 .. Len(s) - 1)
      BY DEF ArrayOK
    <3>2. 0 .. Len(s) - 1 = {}
      BY <2>2, <3>1 DEF Holding
    <3> QED BY <2>2, <3>1, <3>2
  <2> QED BY <2>1, <2>2
<1>2. utarray_done(a) = [NewVec(0) EXCEPT !.live = b.live, !.bad = b.bad]
  BY DEF utarray_done
<1> HIDE DEF b
<1>3. DOMAIN b.live = {} /\ b.bad = FALSE /\ b.live = [x \in DOMAIN b.live |-> b.live[x]]
  BY <1>1 DEF Holding, VecOK, OneSlotEach
<1>4. utarray_done(a) = [NewVec(0) EXCEPT !.live = b.live, !.bad = FALSE]
  BY <1>2, <1>3
<1> QED BY <1>3, <1>4, FreshArray

-----------------------------------------------------------------------------
(* Of two orders of the same strings, neither has a greater one first.     *)
LEMMA OrdersAgreeHalf ==
  ASSUME NEW s \in Seq(Int), NEW p \in Orders(s), NEW q \in Orders(s), NEW r \in 1 .. Len(s)
  PROVE  ~(s[p[r]] < s[q[r]])
<1> DEFINE n == Len(s)
           dom == 1 .. n
           X == [i \in dom |-> s[p[i]]]
           Y == [i \in dom |-> s[q[i]]]
<1>1. n \in Nat /\ r \in dom /\ r \in Nat /\ r >= 1 /\ \A k \in dom : s[k] \in Int
  OBVIOUS
<1>2. /\ p \in Bijection(dom, dom) /\ \A j, k \in dom : j < k => s[p[j]] <= s[p[k]]
      /\ q \in Bijection(dom, dom) /\ \A j, k \in dom : j < k => s[q[j]] <= s[q[k]]
  BY DEF Orders
<1>3. \A i \in 1 .. r : i \in dom
  BY <1>1
<1>4. \A i \in dom : i \in Nat /\ i >= 1
  BY <1>1
<1> SUFFICES ASSUME s[p[r]] < s[q[r]] PROVE FALSE
  OBVIOUS
<1> HIDE DEF n, dom
<1>5. /\ p \in [dom -> dom] /\ q \in [dom -> dom]
      /\ \A j, k \in dom : p[j] = p[k] => j = k
      /\ \A m \in dom : \E k \in dom : q[k] = m
  BY <1>2 DEF Bijection, Injection, Surjection, IsInjective
<1>6. /\ X \in [dom -> Int] /\ \A j, k \in dom : j < k => X[j] <= X[k]
      /\ Y \in [dom -> Int] /\ \A j, k \in dom : j < k => Y[j] <= Y[k]
      /\ \A i, k \in dom : q[k] = p[i] => Y[k] = X[i]
      /\ X[r] < Y[r]
  BY <1>1, <1>2, <1>5
<1> DEFINE S == 1 .. r
           T == 1 .. r - 1
           g == [i \in S |-> CHOOSE k \in dom : q[k] = p[i]]
<1> HIDE DEF X, Y
<1>7. ASSUME NEW i \in S PROVE g[i] \in T /\ q[g[i]] = p[i]
  <2>1. i \in dom /\ p[i] \in dom
    BY <1>3, <1>5
  <2>2. g[i] \in dom /\ q[g[i]] = p[i]
    BY <1>5, <2>1
  <2> HIDE DEF g
  <2>3. X[i] <= X[r]
    <3>1. CASE i = r
      BY <1>1, <1>6, <3>1
    <3>2. CASE i # r
      <4>1. i < r
        BY <1>1, <3>2
      <4> QED BY <1>1, <1>6, <2>1, <4>1
    <3> QED BY <3>1, <3>2
  <2>4. Y[g[i]] < Y[r]
    <3>1. Y[g[i]] = X[i]
      BY <1>6, <2>1, <2>2
    <3>2. X[i] \in Int /\ X[r] \in Int /\ Y[r] \in Int
      BY <1>1, <1>6, <2>1
    <3> QED BY <1>6, <2>3, <3>1, <3>2
  <2>5. ~(r < g[i]) /\ g[i] # r
    <3>1. Y[g[i]] \in Int /\ Y[r] \in Int
      BY <1>1, <1>6, <2>2
    <3>2. r < g[i] => Y[r] <= Y[g[i]]
      BY <1>1, <1>6, <2>2
    <3> QED BY <2>4, <3>1, <3>2
  <2>6. g[i] \in Nat /\ g[i] >= 1
    BY <1>4, <2>2
  <2> QED BY <1>1, <2>2, <2>5, <2>6
<1>8. g \in [S -> T]
  <2>1. g = [i \in S |-> g[i]]
    OBVIOUS
  <2> HIDE DEF g
  <2> QED BY <1>7, <2>1
<1> HIDE DEF g
<1>9. \A i, k \in S : g[i] = g[k] => i = k
  <2> SUFFICES ASSUME NEW i \in S, NEW k \in S, g[i] = g[k] PROVE i = k
    OBVIOUS
  <2>1. p[i] = p[k]
    BY <1>7
  <2>2. i \in dom /\ k \in dom
    BY <1>3
  <2> QED BY <1>5, <2>1, <2>2
<1>10. IsFiniteSet(S) /\ IsFiniteSet(T) /\ Cardinality(T) < Cardinality(S)
  <2>1. IsFiniteSet(1 .. r) /\ Cardinality(1 .. r) = IF 1 > r THEN 0 ELSE r - 1 + 1
    BY <1>1, FS_Interval
  <2> DEFINE m == r - 1
  <2>2. m \in Int
    BY <1>1
  <2> HIDE DEF m
  <2>3. IsFiniteSet(1 .. m) /\ Cardinality(1 .. m) = IF 1 > m THEN 0 ELSE m - 1 + 1
    BY ONLY <2>2, FS_Interval
  <2>4. Cardinality(S) = r /\ Cardinality(T) = r - 1
    BY <1>1, <2>1, <2>3 DEF m
  <2> QED BY <1>1, <2>1, <2>3, <2>4 DEF m
<1> HIDE DEF S, T
<1>11. \E i, k \in S : i # k /\ g[i] = g[k]
  BY <1>8, <1>10, FS_PigeonHole
<1> QED BY <1>9, <1>11

(* Any two orders of the same strings put the same strings in each place.  *)
LEMMA OrdersAgree ==
  ASSUME NEW s \in Seq(Int), NEW p \in Orders(s), NEW q \in Orders(s), NEW r \in 1 .. Len(s)
  PROVE  s[p[r]] = s[q[r]]
<1>1. ~(s[p[r]] < s[q[r]]) /\ ~(s[q[r]] < s[p[r]])
  BY OrdersAgreeHalf
<1>2. p[r] \in 1 .. Len(s) /\ q[r] \in 1 .. Len(s)
  BY DEF Orders, Bijection, Injection
<1>3. s[p[r]] \in Int /\ s[q[r]] \in Int
  BY <1>2
<1> QED BY <1>1, <1>3

(* The order of the strings that the slots lead to is one of the elements, *)
(* whichever of those qsort() leaves.                                      *)
LEMMA SortedArray ==
  ASSUME NEW a, NEW s, ArrayOK(a, s), \A k \in 1 .. Len(s) : s[k] # NULL,
         NEW p \in Orders([k \in 1 .. a.i |-> Pointee(a, k - 1)]), NEW q \in Orders(s)
  PROVE  ArrayOK(utarray_sort(a, p), [k \in 1 .. Len(s) |-> s[q[k]]])
<1> DEFINE n == Len(s)
           u == [k \in 1 .. a.i |-> Pointee(a, k - 1)]
           r == utarray_sort(a, p)
           t == [k \in 1 .. n |-> s[q[k]]]
<1>1. /\ s \in Seq(Item) /\ n \in Nat /\ a.i = n /\ Holding(a, 0 .. n - 1) /\ n <= MaxItems
      /\ \A k \in 1 .. n : ValueAt(a, k - 1) = s[k]
  BY DEF ArrayOK
<1>2. ASSUME NEW k \in 1 .. n PROVE Pointee(a, k - 1) = s[k]
  <2> DEFINE used == 0 .. n - 1
             j == k - 1
  <2>1. VecOK(a) /\ OneSlotEach(a, used) /\ j \in used
    BY <1>1 DEF Holding
  <2> HIDE DEF used, j
  <2>2. Pointee(a, j) = ValueAt(a, j)
    BY <2>1, SlotRead
  <2> QED BY <1>1, <2>2 DEF j
<1>3. u = s
  <2>1. u = [k \in 1 .. n |-> s[k]]
    BY <1>1, <1>2
  <2>2. s = [k \in 1 .. n |-> s[k]]
    BY <1>1
  <2> QED BY <2>1, <2>2
<1>4. s \in Seq(Int)
  <2>1. \A k \in 1 .. n : s[k] \in Strings
    BY <1>1 DEF Item
  <2>2. \A k \in 1 .. n : s[k] \in Int
    BY <2>1, OrderAssumption
  <2> QED BY <1>1, <2>2
<1>5. p \in Orders(s)
  BY <1>3
<1>6. /\ p \in Bijection(1 .. a.i, 1 .. a.i)
      /\ q \in [1 .. n -> 1 .. n] /\ p \in [1 .. n -> 1 .. n]
  BY <1>1, <1>5 DEF Orders, Bijection, Injection
<1>7. LET y == utarray_sort(a, p)
      IN /\ Holding(y, 0 .. a.i - 1) /\ y.i = a.i
         /\ \A k \in 1 .. a.i : ValueAt(y, k - 1) = ValueAt(a, p[k] - 1)
  <2>1. Holding(a, 0 .. a.i - 1)
    BY <1>1
  <2> QED BY <1>6, <2>1, PermuteKeeps
<1> HIDE DEF r, u
<1>8. ASSUME NEW k \in 1 .. n PROVE ValueAt(r, k - 1) = t[k]
  <2>1. ValueAt(r, k - 1) = ValueAt(a, p[k] - 1)
    BY <1>1, <1>7 DEF r
  <2>2. p[k] \in 1 .. n
    BY <1>6
  <2>3. s[p[k]] = s[q[k]]
    BY <1>4, <1>5, OrdersAgree
  <2> QED BY <1>1, <2>1, <2>2, <2>3
<1>9. t \in Seq(Item) /\ Len(t) = n
  <2>1. \A k \in 1 .. n : s[q[k]] \in Item
    BY <1>1, <1>6
  <2> QED BY <1>1, <2>1
<1> HIDE DEF t
<1>10. ArrayOK(r, t)
  BY <1>1, <1>7, <1>8, <1>9 DEF ArrayOK, r
<1> QED BY <1>10 DEF r, t

-----------------------------------------------------------------------------
(* What the invariant says is what a reader of the array sees.             *)
LEMMA ArrayInvFaithful == ArrayInv => ArrayFaithful
<1> SUFFICES ASSUME ArrayInv PROVE ArrayFaithful
  OBVIOUS
<1> DEFINE n == Len(content)
           Slot(k) == utarray_eltptr(vec, k - 1)
           used == 0 .. n - 1
<1>1. /\ content \in Seq(Item) /\ n \in Nat /\ vec.i = n /\ Holding(vec, used)
      /\ \A k \in 1 .. n : ValueAt(vec, k - 1) = content[k]
  BY DEF ArrayInv, ArrayOK
<1>2. VecOK(vec) /\ OneSlotEach(vec, used) /\ used \subseteq 0 .. vec.n - 1
  BY <1>1 DEF Holding
<1>3. \A k \in Int : k # NULL
  BY NotNumbers
<1> HIDE DEF n
<1>4. ASSUME NEW k \in 1 .. n PROVE Slot(k) = k - 1
  <2>1. k - 1 < vec.i
    BY <1>1
  <2> QED BY <2>1 DEF utarray_eltptr
<1>5. Slot(n + 1) = NULL
  BY <1>1 DEF utarray_eltptr
<1>6. utarray_next(vec, NULL) = Slot(1)
  BY <1>1 DEF utarray_next, utarray_front, utarray_eltptr
<1>7. utarray_prev(vec, NULL) = IF n = 0 THEN NULL ELSE Slot(n)
  BY <1>1 DEF utarray_prev, utarray_back, utarray_eltptr
<1>8. ASSUME NEW k \in 1 .. n
      PROVE  /\ Pointee(vec, Slot(k)) = content[k]
             /\ utarray_next(vec, Slot(k)) = Slot(k + 1)
             /\ utarray_prev(vec, Slot(k)) = IF k = 1 THEN NULL ELSE Slot(k - 1)
  <2> DEFINE j == k - 1
  <2>1. j \in used /\ j \in Int /\ Slot(k) = j /\ j # NULL
    BY <1>1, <1>3, <1>4
  <2>2. Pointee(vec, Slot(k)) = content[k]
    <3>1. ValueAt(vec, j) = content[k]
      BY <1>1
    <3> HIDE DEF j, used, Slot
    <3>2. Pointee(vec, j) = ValueAt(vec, j)
      BY <1>2, <2>1, SlotRead
    <3> QED BY <2>1, <3>1, <3>2
  <2>3. utarray_next(vec, j) = IF vec.i > j + 1 THEN j + 1 ELSE NULL
    BY <2>1 DEF utarray_next
  <2>4. Slot(k + 1) = IF k < n THEN k ELSE NULL
    BY <1>1 DEF utarray_eltptr
  <2>5. utarray_prev(vec, j) = IF j > 0 THEN j - 1 ELSE NULL
    BY <2>1 DEF utarray_prev
  <2>6. ASSUME k # 1 PROVE Slot(k - 1) = j - 1
    <3>1. k - 1 \in 1 .. n
      BY <1>1, <2>6
    <3> QED BY <1>4, <3>1
  <2>7. utarray_next(vec, Slot(k)) = Slot(k + 1)
    <3>1. vec.i > j + 1 <=> k < n
      BY <1>1
    <3>2. j + 1 = k
      OBVIOUS
    <3> HIDE DEF j, Slot
    <3> QED BY <2>1, <2>3, <2>4, <3>1, <3>2
  <2>8. utarray_prev(vec, Slot(k)) = IF k = 1 THEN NULL ELSE Slot(k - 1)
    <3>1. j > 0 <=> k # 1
      BY <1>1
    <3> HIDE DEF j, Slot
    <3> QED BY <2>1, <2>5, <2>6, <3>1
  <2> QED BY <2>2, <2>7, <2>8
<1>9. Owned(vec, used)
  <2> HIDE DEF used
  <2> QED BY <1>2, InvOwned
<1>10. utarray_len(vec) = n
  BY <1>1 DEF utarray_len
<1> QED BY <1>6, <1>7, <1>8, <1>9, <1>10 DEF ArrayFaithful, n

(* Each call of the array leaves it with the elements that it should.      *)
LEMMA ArrayStep == ArrayInv /\ [ArrayNext]_arrayVars => ArrayInv'
<1> SUFFICES ASSUME ArrayInv, [ArrayNext]_arrayVars PROVE ArrayInv'
  OBVIOUS
<1>1. ArrayOK(vec, content) /\ content \in Seq(Item) /\ Len(content) \in Nat
  BY DEF ArrayInv, ArrayOK
<1> USE DEF Does
<1>2. CASE UNCHANGED arrayVars
  BY <1>2 DEF arrayVars, ArrayInv
<1>3. ASSUME NEW e \in Item, PushBack(e) PROVE ArrayInv'
  <2>1. Len(content) + 1 <= MaxItems /\ content' = Append(content, e)
    BY <1>1, <1>3 DEF PushBack
  <2>2. LET r == utarray_reserve(vec, 1)
            c == utarray_str_cpy(r, r.i, e)
        IN ArrayOK(SetI(c, c.i + 1), Append(content, e))
    BY <1>1, <2>1, PushArray
  <2>3. LET r == utarray_reserve(vec, 1)
            c == utarray_str_cpy(r, r.i, e)
        IN vec' = SetI(c, c.i + 1)
    BY <1>3 DEF PushBack, utarray_push_back, SetI
  <2> QED BY <2>1, <2>2, <2>3 DEF ArrayInv
<1>4. CASE PopBack
  BY <1>1, <1>4, PopArray DEF PopBack, ArrayInv
<1>5. CASE ExtendBack
  <2>1. Len(content) + 1 <= MaxItems
    BY <1>1, <1>5, NotNumbers DEF ExtendBack
  <2> QED BY <1>1, <1>5, <2>1, ExtendArray DEF ExtendBack, ArrayInv
<1>6. CASE ClearArray
  BY <1>1, <1>6, ClearedArray DEF ClearArray, ArrayInv
<1>7. CASE DoneArray
  BY <1>1, <1>7, RemadeArray DEF DoneArray, ArrayInv
<1>8. CASE SortArray
  <2> DEFINE u == [k \in 1 .. vec.i |-> Pointee(vec, k - 1)]
  <2>1. PICK p \in Orders(u), q \in Orders(content) :
           /\ vec' = utarray_sort(vec, p)
           /\ content' = [k \in 1 .. Len(content) |-> content[q[k]]]
    BY <1>8 DEF SortArray
  <2>2. \A k \in 1 .. Len(content) : content[k] # NULL
    BY <1>8 DEF SortArray
  <2>3. ArrayOK(utarray_sort(vec, p), [k \in 1 .. Len(content) |-> content[q[k]]])
    BY <1>1, <2>2, SortedArray
  <2> QED BY <2>1, <2>3 DEF ArrayInv
<1>9. ASSUME NEW e \in Item, NEW j \in 0 .. MaxItems, InsertAtSlot(e, j) PROVE ArrayInv'
  <2> DEFINE c == content \o Nulls(j - Len(content))
             w == <<e>>
  <2>1. j \in Nat /\ j <= MaxItems
    BY ItemAssumption
  <2>2. vec' = utarray_insert(vec, e, j) /\ content' = Upto(c, j) \o w \o From(c, j)
    BY <1>9 DEF InsertAtSlot, Spliced
  <2>3. Len(content') <= MaxItems
    BY <1>9 DEF InsertAtSlot
  <2>4. c \in Seq(Item) /\ j \in 0 .. Len(c) /\ Len(c) \in Nat
    <3>1. c \in Seq(Item) /\ Len(c) = IF j > Len(content) THEN j ELSE Len(content)
      BY <1>1, <2>1, Padding
    <3> HIDE DEF c
    <3> QED BY <1>1, <2>1, <3>1
  <2>5. w \in Seq(Item) /\ Len(w) = 1
    OBVIOUS
  <2> HIDE DEF c, w
  <2>6. Len(content') = Len(c) + 1
    <3>1. Len(Upto(c, j) \o w \o From(c, j)) = Len(c) + Len(w)
      BY <2>4, <2>5, Splicing
    <3> QED BY <2>2, <2>5, <3>1
  <2>7. Len(c) + 1 <= MaxItems
    BY <2>3, <2>6
  <2>8. ArrayOK(utarray_insert(vec, e, j), Upto(c, j) \o w \o From(c, j))
    BY <1>1, <2>1, <2>7, InsertArrayAt DEF c, w
  <2> QED BY <2>2, <2>8 DEF ArrayInv
<1>10. ASSUME NEW w \in Others, NEW j \in 0 .. MaxItems, InsertArray(w, j) PROVE ArrayInv'
  <2> DEFINE c == content \o Nulls(j - Len(content))
  <2>1. j \in Nat /\ j <= MaxItems /\ w \in Seq(Item)
    BY ItemAssumption DEF Others
  <2>2. CASE w = <<>>
    <3>1. Len(w) = 0
      BY <2>2
    <3> QED BY <1>1, <1>10, <2>2, <3>1 DEF InsertArray, Spliced, utarray_inserta, ArrayInv
  <2>3. CASE w # <<>>
    <3>2. vec' = utarray_inserta(vec, w, j) /\ content' = Upto(c, j) \o w \o From(c, j)
      BY <1>10, <2>3 DEF InsertArray, Spliced
    <3>3. Len(content') <= MaxItems
      BY <1>10 DEF InsertArray
    <3>4. c \in Seq(Item) /\ j \in 0 .. Len(c) /\ Len(c) \in Nat
      <4>1. c \in Seq(Item) /\ Len(c) = IF j > Len(content) THEN j ELSE Len(content)
        BY <1>1, <2>1, Padding
      <4> HIDE DEF c
      <4> QED BY <1>1, <2>1, <4>1
    <3> HIDE DEF c
    <3>6. Len(content') = Len(c) + Len(w)
      BY <2>1, <3>2, <3>4, Splicing
    <3>7. Len(c) + Len(w) <= MaxItems
      BY <3>3, <3>6
    <3>8. ArrayOK(utarray_inserta(vec, w, j), Upto(c, j) \o w \o From(c, j))
      BY <1>1, <2>1, <2>3, <3>7, InsertAllAt DEF c
    <3> QED BY <3>2, <3>8 DEF ArrayInv
  <2> QED BY <2>2, <2>3
<1>11. ASSUME NEW w \in Others, ConcatArray(w) PROVE ArrayInv'
  <2>1. w \in Seq(Item)
    BY ItemAssumption DEF Others
  <2> QED BY <1>1, <1>11, <2>1, ConcatArrays DEF ConcatArray, ArrayInv
<1>12. ASSUME NEW k \in 0 .. MaxItems, Resize(k) PROVE ArrayInv'
  <2>1. k \in Nat /\ k <= MaxItems
    BY ItemAssumption
  <2>2. vec' = utarray_resize(vec, k) /\ content' = Resized(content, k)
    BY <1>12 DEF Resize, Resized
  <2> QED BY <1>1, <2>1, <2>2, ResizeArray DEF ArrayInv
<1>13. ASSUME NEW p \in 0 .. MaxItems, NEW k \in 0 .. MaxItems, Erase(p, k) PROVE ArrayInv'
  <2>1. p \in Nat /\ k \in Nat
    BY ItemAssumption
  <2> QED BY <1>1, <1>13, <2>1, EraseArray DEF Erase, ArrayInv
<1> QED BY <1>2, <1>3, <1>4, <1>5, <1>6, <1>7, <1>8, <1>9, <1>10, <1>11, <1>12, <1>13 DEF ArrayNext

(* A new array is empty.                                                   *)
LEMMA ArrayStart == ArrayInit => ArrayInv
<1> SUFFICES ASSUME ArrayInit PROVE ArrayInv
  OBVIOUS
<1> DEFINE none == [x \in {} |-> 0]
<1>1. NewVec(0) = [NewVec(0) EXCEPT !.live = none, !.bad = FALSE]
  <2> DEFINE v == NewVec(0)
             d == [k \in 0 .. 0 - 1 |-> JUNK]
  <2>1. v = Vec(0, 0, FALSE, d, none, FALSE)
    BY DEF NewVec, Vec
  <2> HIDE DEF v, d, none
  <2>2. v.i = 0 /\ v.n = 0 /\ v.f = FALSE /\ v.d = d /\ IsVec(v)
    BY <2>1 DEF Vec, IsVec
  <2>3. SetLiveBad(v, none, FALSE) = Vec(v.i, v.n, v.f, v.d, none, FALSE)
    BY <2>2, LiveBadUpdate
  <2>4. v = SetLiveBad(v, none, FALSE)
    BY <2>1, <2>2, <2>3
  <2> QED BY <2>4 DEF SetLiveBad, v
<1>2. DOMAIN none = {} /\ none = [x \in {} |-> none[x]]
  OBVIOUS
<1> HIDE DEF none
<1>3. ArrayOK([NewVec(0) EXCEPT !.live = none, !.bad = FALSE], <<>>)
  BY <1>2, FreshArray
<1> QED BY <1>1, <1>3 DEF ArrayInit, ArrayInv

(* Through any calls, the slots below i have the strings of the elements,  *)
(* each allocated once, and no others are allocated.                       *)
THEOREM ArrayInvariant == ArraySpec => []ArrayInv
BY ArrayStart, ArrayStep, PTL DEF ArraySpec

(* A reader of a utarray finds just the elements that the calls leave in   *)
(* it, for any strings and any number of slots of the first reservation.   *)
THEOREM ArrayIsFaithful == ArraySpec => []ArrayFaithful
BY ArrayInvariant, ArrayInvFaithful, PTL

-----------------------------------------------------------------------------
(***************************************************************************)
(* Doubly linked and circular lists, for any set of elements, all keys and *)
(* lists of every length.                                                  *)
(*                                                                         *)
(* The argument has three layers. First, what the fields of a list must    *)
(* become when an element is put in at place p, taken out or exchanged     *)
(* (InsertChains, RemoveChains, ReplaceChains, ConcatChains): these speak  *)
(* of two field functions and two sequences and of no macro. Second, that  *)
(* each macro makes just those writes, in each of its branches and         *)
(* although some of its writes may meet in one cell (DlPrepend to          *)
(* CdlReplace, DlConcat). Third, that a step which turns one list into     *)
(* another and writes only its elements leaves the other list, the free    *)
(* elements and the cells no pointer may reach (BecomesKeeps).             *)
(*                                                                         *)
(* LinksInv adds to LinksFaithful what makes it inductive: an element is   *)
(* in one list at most, and at one place, so that two writes of a macro    *)
(* meet only where the sequence says so.                                   *)
(***************************************************************************)

(* The list that starts at hd, through the fields nx and pv, is s.         *)
Chain(hd, nx, pv, k, s) ==
  LET n == Len(s)
  IN /\ hd = IF n = 0 THEN NULL ELSE s[1]
     /\ \A i \in 1 .. n :
          /\ nx[s[i]] = IF i < n THEN s[i + 1] ELSE IF k = "CDL" THEN s[1] ELSE NULL
          /\ pv[s[i]] = IF i > 1 THEN s[i - 1] ELSE s[n]

(* t is s with x put in at place p.                                        *)
IsInsert(t, s, p, x) ==
  /\ p \in 1 .. Len(s) + 1
  /\ t \in Seq(Elem) /\ Len(t) = Len(s) + 1
  /\ t[p] = x
  /\ \A i \in 1 .. Len(s) : t[IF i < p THEN i ELSE i + 1] = s[i]
  /\ \A i \in 1 .. Len(t) : t[i] = IF i < p THEN s[i] ELSE IF i = p THEN x ELSE s[i - 1]

(* t is s with place p taken out.                                          *)
IsRemove(t, s, p) ==
  /\ p \in 1 .. Len(s)
  /\ t \in Seq(Elem) /\ Len(t) = Len(s) - 1
  /\ \A i \in 1 .. Len(t) : t[i] = s[IF i < p THEN i ELSE i + 1]

Distinct(s) == \A i, j \in 1 .. Len(s) : s[i] = s[j] => i = j

(* A list record, field by field.                                          *)
Mem ==
  [head : [Lists -> Cells], next : [Cells -> Cells], prev : [Cells -> Cells],
   key : [Cells -> ListKeys \cup {JUNK}]]

(* A macro that turns list a from s into t, writing only its elements and  *)
(* x.                                                                      *)
Becomes(m, r, a, k, s, t, x) ==
  /\ r \in Mem
  /\ Chain(r.head[a], r.next, r.prev, k, t)
  /\ \A b \in Lists : b # a => r.head[b] = m.head[b]
  /\ \A y \in Cells : (y # x /\ \A i \in 1 .. Len(s) : y # s[i])
                      => r.next[y] = m.next[y] /\ r.prev[y] = m.prev[y]

(* InsertAt() element by element.                                          *)
LEMMA InsertAtIs ==
  ASSUME NEW s \in Seq(Elem), NEW p \in 1 .. Len(s) + 1, NEW x \in Elem
  PROVE  IsInsert(InsertAt(s, p, x), s, p, x)
<1> DEFINE u == SubSeq(s, 1, p - 1)
           w == u \o <<x>>
           v == SubSeq(s, p, Len(s))
           t == w \o v
<1>1. InsertAt(s, p, x) = t
  BY DEF InsertAt
<1>2. /\ u \in Seq(Elem) /\ Len(u) = p - 1
      /\ \A i \in 1 .. p - 1 : u[i] = s[i]
  OBVIOUS
<1>3. /\ v \in Seq(Elem) /\ Len(v) = Len(s) - p + 1
      /\ \A i \in 1 .. Len(s) - p + 1 : v[i] = s[p + i - 1]
  OBVIOUS
<1> HIDE DEF u, v
<1>10. w \in Seq(Elem) /\ Len(w) = p /\ w[p] = x /\ \A i \in 1 .. p - 1 : w[i] = s[i]
  BY <1>2
<1> HIDE DEF w
<1>11. t \in Seq(Elem)
  BY <1>10, <1>3
<1>12. Len(t) = Len(w) + Len(v)
  <2>1. w \in Seq(Elem)
    BY <1>10
  <2>2. v \in Seq(Elem)
    BY <1>3
  <2> QED BY <2>1, <2>2
<1>13. Len(s) \in Nat
  OBVIOUS
<1>4. t \in Seq(Elem) /\ Len(t) = Len(s) + 1
  BY <1>10, <1>3, <1>11, <1>12, <1>13
<1>5. \A i \in 1 .. Len(t) : t[i] = IF i < p THEN s[i] ELSE IF i = p THEN x ELSE s[i - 1]
  <2> SUFFICES ASSUME NEW i \in 1 .. Len(t)
               PROVE  t[i] = IF i < p THEN s[i] ELSE IF i = p THEN x ELSE s[i - 1]
    OBVIOUS
  <2>1. i \in 1 .. Len(s) + 1
    BY <1>4
  <2>2. CASE i < p
    BY <1>10, <1>3, <2>1, <2>2
  <2>3. CASE i = p
    BY <1>10, <1>3, <2>1, <2>3
  <2>4. CASE i > p
    <3> DEFINE j == i - p
    <3>1. t[i] = v[j]
      BY <1>10, <1>3, <2>1, <2>4
    <3>2. j \in 1 .. Len(s) - p + 1 /\ p + j - 1 = i - 1
      BY <2>1, <2>4
    <3> HIDE DEF j, t
    <3>3. t[i] = s[p + j - 1]
      BY <3>1, <3>2, <1>3
    <3>4. t[i] = s[i - 1]
      BY <3>2, <3>3
    <3> QED BY <2>1, <2>4, <3>4
  <2> QED BY <2>1, <2>2, <2>3, <2>4
<1> HIDE DEF t
<1>6. t[p] = x
  BY <1>4, <1>5
<1>7. \A i \in 1 .. Len(s) : t[IF i < p THEN i ELSE i + 1] = s[i]
  BY <1>4, <1>5
<1> QED BY <1>1, <1>4, <1>5, <1>6, <1>7 DEF IsInsert

(* RemoveAt() element by element.                                          *)
LEMMA RemoveAtIs ==
  ASSUME NEW s \in Seq(Elem), NEW p \in 1 .. Len(s)
  PROVE  IsRemove(RemoveAt(s, p), s, p)
<1> DEFINE u == SubSeq(s, 1, p - 1)
           v == SubSeq(s, p + 1, Len(s))
           t == u \o v
<1>1. RemoveAt(s, p) = t
  BY DEF RemoveAt
<1>2. /\ u \in Seq(Elem) /\ Len(u) = p - 1
      /\ \A i \in 1 .. p - 1 : u[i] = s[i]
  OBVIOUS
<1>3. /\ v \in Seq(Elem) /\ Len(v) = Len(s) - p
      /\ \A i \in 1 .. Len(s) - p : v[i] = s[p + i]
  OBVIOUS
<1> HIDE DEF u, v
<1>4. t \in Seq(Elem) /\ Len(t) = Len(s) - 1
  BY <1>2, <1>3
<1>5. \A i \in 1 .. Len(t) : t[i] = s[IF i < p THEN i ELSE i + 1]
  <2> SUFFICES ASSUME NEW i \in 1 .. Len(t)
               PROVE  t[i] = s[IF i < p THEN i ELSE i + 1]
    OBVIOUS
  <2>1. i \in 1 .. Len(s) - 1
    BY <1>4
  <2>2. CASE i < p
    BY <1>2, <1>3, <2>1, <2>2
  <2>3. CASE i >= p
    <3> DEFINE j == i - (p - 1)
    <3>1. t[i] = v[j]
      BY <1>2, <1>3, <2>1, <2>3
    <3>2. j \in 1 .. Len(s) - p /\ p + j = i + 1
      BY <2>1, <2>3
    <3> HIDE DEF j
    <3>3. v[j] = s[p + j]
      BY <1>3, <3>2
    <3>4. ~(i < p)
      BY <2>1, <2>3
    <3>5. t[i] = s[i + 1]
      BY <3>1, <3>2, <3>3
    <3> QED BY <3>4, <3>5
  <2> QED BY <2>1, <2>2, <2>3
<1> HIDE DEF t
<1> QED BY <1>1, <1>4, <1>5 DEF IsRemove

(* What putting x in at place p must do to the fields.                     *)
PutsIn(hd2, nx2, pv2, hd, nx, pv, k, s, p, x) ==
  LET n == Len(s)
  IN /\ hd2 = IF p = 1 THEN x ELSE hd
     /\ nx2[x] = IF p <= n THEN s[p] ELSE IF k # "CDL" THEN NULL ELSE IF n = 0 THEN x ELSE s[1]
     /\ pv2[x] = IF p > 1 THEN s[p - 1] ELSE IF n = 0 THEN x ELSE s[n]
     /\ \A i \in 1 .. n :
          nx2[s[i]] = IF i = p - 1 \/ (k = "CDL" /\ p = 1 /\ i = n) THEN x ELSE nx[s[i]]
     /\ \A i \in 1 .. n :
          pv2[s[i]] = IF i = p \/ (p = n + 1 /\ i = 1) THEN x ELSE pv[s[i]]

(* Fields that have become so are the list with x in it.                   *)
LEMMA InsertChains ==
  ASSUME NEW hd, NEW nx, NEW pv, NEW k, NEW s \in Seq(Elem), NEW p, NEW x, NEW t,
         NEW hd2, NEW nx2, NEW pv2,
         IsInsert(t, s, p, x), Chain(hd, nx, pv, k, s),
         PutsIn(hd2, nx2, pv2, hd, nx, pv, k, s, p, x)
  PROVE  Chain(hd2, nx2, pv2, k, t)
<1> DEFINE n == Len(s)
<1>1. n \in Nat /\ p \in 1 .. n + 1 /\ Len(t) = n + 1
  BY DEF IsInsert
<1>2. t[p] = x /\ \A i \in 1 .. n : t[IF i < p THEN i ELSE i + 1] = s[i]
  BY DEF IsInsert
<1>3. \A i \in 1 .. n + 1 : t[i] = IF i < p THEN s[i] ELSE IF i = p THEN x ELSE s[i - 1]
  BY DEF IsInsert
<1>4. \A i \in 1 .. n : nx[s[i]] = IF i < n THEN s[i + 1] ELSE IF k = "CDL" THEN s[1] ELSE NULL
  BY DEF Chain
<1>5. \A i \in 1 .. n : pv[s[i]] = IF i > 1 THEN s[i - 1] ELSE s[n]
  BY DEF Chain
<1>6. hd = IF n = 0 THEN NULL ELSE s[1]
  BY DEF Chain
<1>7. \A i \in 1 .. n :
        nx2[s[i]] = IF i = p - 1 \/ (k = "CDL" /\ p = 1 /\ i = n) THEN x ELSE nx[s[i]]
  BY DEF PutsIn
<1>8. \A i \in 1 .. n : pv2[s[i]] = IF i = p \/ (p = n + 1 /\ i = 1) THEN x ELSE pv[s[i]]
  BY DEF PutsIn
<1>9. nx2[x] = IF p <= n THEN s[p] ELSE IF k # "CDL" THEN NULL ELSE IF n = 0 THEN x ELSE s[1]
  BY DEF PutsIn
<1>10. pv2[x] = IF p > 1 THEN s[p - 1] ELSE IF n = 0 THEN x ELSE s[n]
  BY DEF PutsIn
<1> HIDE DEF n
<1>11. hd2 = t[1]
  BY <1>1, <1>3, <1>6 DEF PutsIn
<1>12. ASSUME NEW i \in 1 .. n + 1
       PROVE  nx2[t[i]] = IF i < n + 1 THEN t[i + 1] ELSE IF k = "CDL" THEN t[1] ELSE NULL
  <2>1. CASE i = p
    BY <1>1, <1>3, <1>9, <2>1
  <2>2. CASE i < p
    <3>1. t[i] = s[i] /\ i \in 1 .. n /\ i < n + 1
      BY <1>1, <1>3, <2>2
    <3>2. nx2[s[i]] = IF i = p - 1 THEN x ELSE s[i + 1]
      BY <1>1, <1>4, <1>7, <3>1, <2>2
    <3> QED BY <1>1, <1>3, <3>1, <3>2, <2>2
  <2>3. CASE i > p
    <3>1. t[i] = s[i - 1] /\ i - 1 \in 1 .. n
      BY <1>1, <1>3, <2>3
    <3>2. CASE i < n + 1
      <4>1. nx2[s[i - 1]] = s[i]
        BY <1>1, <1>4, <1>7, <3>1, <3>2, <2>3
      <4>2. t[i + 1] = s[i]
        BY <1>1, <1>3, <3>2, <2>3
      <4> QED BY <3>1, <3>2, <4>1, <4>2
    <3>3. CASE i = n + 1
      <4>1. nx2[s[n]] = IF k = "CDL" THEN IF p = 1 THEN x ELSE s[1] ELSE NULL
        BY <1>1, <1>4, <1>7, <3>1, <3>3, <2>3
      <4> QED BY <1>1, <1>3, <3>1, <3>3, <4>1, <2>3
    <3> QED BY <1>1, <3>2, <3>3
  <2> QED BY <1>1, <2>1, <2>2, <2>3
<1>13. ASSUME NEW i \in 1 .. n + 1
       PROVE  pv2[t[i]] = IF i > 1 THEN t[i - 1] ELSE t[n + 1]
  <2>1. CASE i = p
    <3>1. t[i] = x
      BY <1>3, <2>1
    <3>2. i > 1 => t[i - 1] = s[i - 1]
      BY <1>1, <1>3, <2>1
    <3>3. i = 1 => t[n + 1] = IF n = 0 THEN x ELSE s[n]
      BY <1>1, <1>3, <2>1
    <3> QED BY <1>1, <1>10, <2>1, <3>1, <3>2, <3>3
  <2>2. CASE i < p
    <3>1. t[i] = s[i] /\ i \in 1 .. n
      BY <1>1, <1>3, <2>2
    <3>2. pv2[s[i]] = IF i > 1 THEN s[i - 1] ELSE IF p = n + 1 THEN x ELSE s[n]
      BY <1>1, <1>5, <1>8, <3>1, <2>2
    <3> QED BY <1>1, <1>3, <3>1, <3>2, <2>2
  <2>3. CASE i > p
    <3>1. t[i] = s[i - 1] /\ i - 1 \in 1 .. n /\ i > 1
      BY <1>1, <1>3, <2>3
    <3>2. pv2[s[i - 1]] = IF i - 1 = p THEN x ELSE s[i - 2]
      BY <1>1, <1>5, <1>8, <3>1, <2>3
    <3>3. t[i - 1] = IF i - 1 = p THEN x ELSE s[i - 2]
      <4> DEFINE j == i - 1
      <4>1. j \in 1 .. n + 1 /\ j >= p /\ j - 1 = i - 2
        BY <1>1, <2>3
      <4> HIDE DEF j
      <4>2. t[j] = IF j = p THEN x ELSE s[j - 1]
        BY <1>1, <1>3, <4>1
      <4> QED BY <4>1, <4>2 DEF j
    <3> QED BY <3>1, <3>2, <3>3
  <2> QED BY <1>1, <2>1, <2>2, <2>3
<1> QED BY <1>1, <1>11, <1>12, <1>13 DEF Chain

(* What taking place p out must do to the fields.                          *)
TakesOut(hd2, nx2, pv2, hd, nx, pv, k, s, p) ==
  LET n == Len(s)
  IN /\ hd2 = IF n = 1 THEN NULL ELSE IF p = 1 THEN s[2] ELSE hd
     /\ \A i \in 1 .. n : i # p =>
          nx2[s[i]] = IF i = p - 1 \/ (k = "CDL" /\ p = 1 /\ i = n) THEN nx[s[p]] ELSE nx[s[i]]
     /\ \A i \in 1 .. n : i # p =>
          pv2[s[i]] = IF i = p + 1 \/ (p = n /\ i = 1) THEN pv[s[p]] ELSE pv[s[i]]

(* Fields that have become so are the list without that element.           *)
LEMMA RemoveChains ==
  ASSUME NEW hd, NEW nx, NEW pv, NEW k, NEW s \in Seq(Elem), NEW p, NEW t,
         NEW hd2, NEW nx2, NEW pv2,
         IsRemove(t, s, p), Chain(hd, nx, pv, k, s),
         TakesOut(hd2, nx2, pv2, hd, nx, pv, k, s, p)
  PROVE  Chain(hd2, nx2, pv2, k, t)
<1> DEFINE n == Len(s)
<1>1. n \in Nat /\ p \in 1 .. n /\ Len(t) = n - 1
  BY DEF IsRemove
<1>3. \A i \in 1 .. n - 1 : t[i] = s[IF i < p THEN i ELSE i + 1]
  BY DEF IsRemove
<1>4. \A i \in 1 .. n : nx[s[i]] = IF i < n THEN s[i + 1] ELSE IF k = "CDL" THEN s[1] ELSE NULL
  BY DEF Chain
<1>5. \A i \in 1 .. n : pv[s[i]] = IF i > 1 THEN s[i - 1] ELSE s[n]
  BY DEF Chain
<1>6. hd = IF n = 0 THEN NULL ELSE s[1]
  BY DEF Chain
<1>7. \A i \in 1 .. n : i # p =>
        nx2[s[i]] = IF i = p - 1 \/ (k = "CDL" /\ p = 1 /\ i = n) THEN nx[s[p]] ELSE nx[s[i]]
  BY DEF TakesOut
<1>8. \A i \in 1 .. n : i # p =>
        pv2[s[i]] = IF i = p + 1 \/ (p = n /\ i = 1) THEN pv[s[p]] ELSE pv[s[i]]
  BY DEF TakesOut
<1> HIDE DEF n
<1>9. hd2 = IF n = 1 THEN NULL ELSE IF p = 1 THEN s[2] ELSE hd
  BY DEF n, TakesOut
<1>10. hd2 = IF n - 1 = 0 THEN NULL ELSE t[1]
  BY <1>1, <1>3, <1>6, <1>9
<1>12. ASSUME NEW i \in 1 .. n - 1
       PROVE  nx2[t[i]] = IF i < n - 1 THEN t[i + 1] ELSE IF k = "CDL" THEN t[1] ELSE NULL
  <2>1. CASE i < p
    <3>1. t[i] = s[i] /\ i \in 1 .. n /\ i # p /\ i < n
      BY <1>1, <1>3, <2>1
    <3>2. CASE i = p - 1
      <4>1. nx2[s[i]] = IF p < n THEN s[p + 1] ELSE IF k = "CDL" THEN s[1] ELSE NULL
        BY <1>1, <1>4, <1>7, <3>1, <3>2
      <4>2. i < n - 1 => p < n /\ t[i + 1] = s[p + 1]
        <5>1. i + 1 = p
          BY <1>1, <3>2
        <5>2. i < n - 1 => p \in 1 .. n - 1 /\ p < n
          BY <1>1, <5>1
        <5>3. i < n - 1 => t[p] = s[p + 1]
          BY <1>1, <1>3, <5>2
        <5> QED BY <5>1, <5>2, <5>3
      <4>3. t[1] = s[1]
        BY <1>1, <1>3, <2>1
      <4> QED BY <1>1, <3>1, <3>2, <4>1, <4>2, <4>3
    <3>3. CASE i # p - 1
      <4>1. nx2[s[i]] = s[i + 1]
        BY <1>1, <1>4, <1>7, <3>1, <3>3
      <4>2. i < n - 1 /\ t[i + 1] = s[i + 1]
        BY <1>1, <1>3, <3>1, <3>3, <2>1
      <4> QED BY <3>1, <4>1, <4>2
    <3> QED BY <3>2, <3>3
  <2>2. CASE i >= p
    <3> DEFINE j == i + 1
    <3>1. j \in 1 .. n /\ j # p /\ j # p - 1 /\ j > p /\ t[i] = s[j]
      BY <1>1, <1>3, <2>2
    <3>2. (i < n - 1) <=> (j < n)
      BY <1>1
    <3>3. i < n - 1 => t[i + 1] = s[j + 1]
      BY <1>1, <1>3, <2>2
    <3>4. t[1] = IF p = 1 THEN s[2] ELSE s[1]
      BY <1>1, <1>3, <2>2
    <3>5. nx[s[p]] = s[p + 1]
      BY <1>1, <1>4, <3>1
    <3> HIDE DEF j
    <3>6. nx2[s[j]] = IF k = "CDL" /\ p = 1 /\ j = n THEN nx[s[p]] ELSE nx[s[j]]
      BY <1>7, <3>1
    <3>7. nx[s[j]] = IF j < n THEN s[j + 1] ELSE IF k = "CDL" THEN s[1] ELSE NULL
      BY <1>4, <3>1
    <3> QED BY <1>1, <3>1, <3>2, <3>3, <3>4, <3>5, <3>6, <3>7
  <2> QED BY <1>1, <2>1, <2>2
<1>13. ASSUME NEW i \in 1 .. n - 1
       PROVE  pv2[t[i]] = IF i > 1 THEN t[i - 1] ELSE t[n - 1]
  <2>1. CASE i < p
    <3>1. t[i] = s[i] /\ i \in 1 .. n /\ i # p /\ i # p + 1
      BY <1>1, <1>3, <2>1
    <3>2. pv2[s[i]] = IF p = n /\ i = 1 THEN pv[s[p]] ELSE pv[s[i]]
      BY <1>8, <3>1
    <3>3. pv[s[p]] = s[p - 1]
      BY <1>1, <1>5, <2>1
    <3>4. pv[s[i]] = IF i > 1 THEN s[i - 1] ELSE s[n]
      BY <1>5, <3>1
    <3>5. i > 1 => t[i - 1] = s[i - 1]
      BY <1>1, <1>3, <2>1
    <3>6. t[n - 1] = IF p = n THEN s[p - 1] ELSE s[n]
      BY <1>1, <1>3, <2>1
    <3> QED BY <1>1, <3>1, <3>2, <3>3, <3>4, <3>5, <3>6
  <2>2. CASE i >= p
    <3> DEFINE j == i + 1
    <3>1. j \in 1 .. n /\ j # p /\ j > 1 /\ t[i] = s[j] /\ n > 1 /\ p < n
      BY <1>1, <1>3, <2>2
    <3>2. (j = p + 1) <=> (i = p)
      BY <1>1
    <3>3. j - 1 = i
      BY <1>1
    <3>4. i > 1 => t[i - 1] = IF i = p THEN s[i - 1] ELSE s[i]
      <4> DEFINE l == i - 1
      <4>1. i > 1 => l \in 1 .. n - 1 /\ (l < p <=> i = p) /\ l + 1 = i
        BY <1>1, <2>2
      <4> HIDE DEF l
      <4>2. i > 1 => t[l] = IF i = p THEN s[l] ELSE s[i]
        BY <1>1, <1>3, <4>1
      <4> QED BY <4>2 DEF l
    <3>5. t[n - 1] = s[n]
      BY <1>1, <1>3, <2>2
    <3>6. pv[s[p]] = IF p > 1 THEN s[p - 1] ELSE s[n]
      BY <1>1, <1>5
    <3> HIDE DEF j
    <3>7. pv2[s[j]] = IF j = p + 1 THEN pv[s[p]] ELSE pv[s[j]]
      BY <1>1, <1>8, <3>1
    <3>8. pv[s[j]] = s[i]
      BY <1>5, <3>1, <3>3
    <3> QED BY <1>1, <2>2, <3>1, <3>2, <3>4, <3>5, <3>6, <3>7, <3>8
  <2> QED BY <1>1, <2>1, <2>2
<1> QED BY <1>1, <1>10, <1>12, <1>13 DEF Chain

(* What putting x in the place of p must do to the fields.                 *)
LEMMA ReplaceChains ==
  ASSUME NEW hd, NEW nx, NEW pv, NEW k, NEW s \in Seq(Elem), NEW p \in 1 .. Len(s),
         NEW x \in Elem, NEW hd2, NEW nx2, NEW pv2,
         Chain(hd, nx, pv, k, s),
         hd2 = IF p = 1 THEN x ELSE hd,
         nx2[x] = IF Len(s) = 1 /\ k = "CDL" THEN x ELSE nx[s[p]],
         pv2[x] = IF Len(s) = 1 THEN x ELSE pv[s[p]],
         \A i \in 1 .. Len(s) : i # p =>
           nx2[s[i]] = IF i = p - 1 \/ (k = "CDL" /\ p = 1 /\ i = Len(s)) THEN x ELSE nx[s[i]],
         \A i \in 1 .. Len(s) : i # p =>
           pv2[s[i]] = IF i = p + 1 \/ (p = Len(s) /\ i = 1) THEN x ELSE pv[s[i]]
  PROVE  Chain(hd2, nx2, pv2, k, ReplaceAt(s, p, x))
<1> DEFINE n == Len(s)
           t == ReplaceAt(s, p, x)
<1>1. n \in Nat /\ p \in 1 .. n /\ Len(t) = n
  BY DEF ReplaceAt
<1>3. \A i \in 1 .. n : t[i] = IF i = p THEN x ELSE s[i]
  BY DEF ReplaceAt
<1>4. \A i \in 1 .. n : nx[s[i]] = IF i < n THEN s[i + 1] ELSE IF k = "CDL" THEN s[1] ELSE NULL
  BY DEF Chain
<1>5. \A i \in 1 .. n : pv[s[i]] = IF i > 1 THEN s[i - 1] ELSE s[n]
  BY DEF Chain
<1>6. hd = IF n = 0 THEN NULL ELSE s[1]
  BY DEF Chain
<1>7. \A i \in 1 .. n : i # p =>
        nx2[s[i]] = IF i = p - 1 \/ (k = "CDL" /\ p = 1 /\ i = n) THEN x ELSE nx[s[i]]
  OBVIOUS
<1>8. \A i \in 1 .. n : i # p =>
        pv2[s[i]] = IF i = p + 1 \/ (p = n /\ i = 1) THEN x ELSE pv[s[i]]
  OBVIOUS
<1> HIDE DEF n, t
<1>9. nx2[x] = IF n = 1 /\ k = "CDL" THEN x ELSE nx[s[p]]
  BY DEF n
<1>10. pv2[x] = IF n = 1 THEN x ELSE pv[s[p]]
  BY DEF n
<1>11. n # 0 /\ hd2 = t[1]
  BY <1>1, <1>3, <1>6
<1>12. ASSUME NEW i \in 1 .. n
       PROVE  nx2[t[i]] = IF i < n THEN t[i + 1] ELSE IF k = "CDL" THEN t[1] ELSE NULL
  <2>1. nx[s[i]] = IF i < n THEN s[i + 1] ELSE IF k = "CDL" THEN s[1] ELSE NULL
    BY <1>4
  <2>2. CASE i = p
    BY <1>1, <1>3, <1>9, <2>1, <2>2
  <2>3. CASE i # p
    <3>1. nx2[t[i]] = IF i = p - 1 \/ (k = "CDL" /\ p = 1 /\ i = n) THEN x ELSE nx[s[i]]
      BY <1>3, <1>7, <2>3
    <3> QED BY <1>1, <1>3, <2>1, <2>3, <3>1
  <2> QED BY <2>2, <2>3
<1>13. ASSUME NEW i \in 1 .. n
       PROVE  pv2[t[i]] = IF i > 1 THEN t[i - 1] ELSE t[n]
  <2>1. pv[s[i]] = IF i > 1 THEN s[i - 1] ELSE s[n]
    BY <1>5
  <2>2. CASE i = p
    BY <1>1, <1>3, <1>10, <2>1, <2>2
  <2>3. CASE i # p
    <3>1. pv2[t[i]] = IF i = p + 1 \/ (p = n /\ i = 1) THEN x ELSE pv[s[i]]
      BY <1>3, <1>8, <2>3
    <3> QED BY <1>1, <1>3, <2>1, <2>3, <3>1
  <2> QED BY <2>2, <2>3
<1>14. Chain(hd2, nx2, pv2, k, t)
  BY <1>1, <1>11, <1>12, <1>13 DEF Chain
<1> QED BY <1>14 DEF t

(* The element whose next is place p's, x itself when there is none; and   *)
(* the one whose prev is.                                                  *)
Pred(k, s, p, x) == IF p > 1 THEN s[p - 1] ELSE IF k = "CDL" /\ Len(s) > 0 THEN s[Len(s)] ELSE x
Succ(s, p, x) == IF p <= Len(s) THEN s[p] ELSE IF Len(s) > 0 THEN s[1] ELSE x

(* The writes that put x in at place p.                                    *)
Splices(m, r, a, k, s, p, x) ==
  /\ r \in Mem
  /\ r.head[a] = IF p = 1 THEN x ELSE m.head[a]
  /\ \A b \in Lists : b # a => r.head[b] = m.head[b]
  /\ \A y \in Cells :
       r.next[y] = IF y = x THEN IF p <= Len(s) \/ k = "CDL" THEN Succ(s, p, x) ELSE NULL
                   ELSE IF y = Pred(k, s, p, x) THEN x ELSE m.next[y]
  /\ \A y \in Cells :
       r.prev[y] = IF y = x THEN Pred("CDL", s, p, x)
                   ELSE IF y = Succ(s, p, x) THEN x ELSE m.prev[y]

(* Those writes make the longer list, and touch no other cell.             *)
LEMMA SpliceInserts ==
  ASSUME NEW m \in Mem, NEW a \in Lists, NEW k, NEW s \in Seq(Elem),
         NEW p \in 1 .. Len(s) + 1, NEW x \in Elem, NEW r,
         Distinct(s), \A i \in 1 .. Len(s) : s[i] # x,
         Chain(m.head[a], m.next, m.prev, k, s),
         Splices(m, r, a, k, s, p, x)
  PROVE  Becomes(m, r, a, k, s, InsertAt(s, p, x), x)
<1> DEFINE n == Len(s)
           u == Pred(k, s, p, x)
           v == Succ(s, p, x)
           hd == m.head[a]
           nx == m.next
           pv == m.prev
           hd2 == r.head[a]
           nx2 == r.next
           pv2 == r.prev
           t == InsertAt(s, p, x)
<1>1. n \in Nat /\ p \in 1 .. n + 1 /\ \A i \in 1 .. n : s[i] \in Elem
  OBVIOUS
<1>2. r \in Mem
  BY DEF Splices
<1>4. hd2 = IF p = 1 THEN x ELSE hd
  BY DEF Splices
<1>5. \A b \in Lists : b # a => r.head[b] = m.head[b]
  BY DEF Splices
<1>6. \A y \in Cells :
        nx2[y] = IF y = x THEN IF p <= n \/ k = "CDL" THEN v ELSE NULL
                 ELSE IF y = u THEN x ELSE nx[y]
  BY DEF Splices
<1>7. \A y \in Cells :
        pv2[y] = IF y = x THEN Pred("CDL", s, p, x) ELSE IF y = v THEN x ELSE pv[y]
  BY DEF Splices
<1>8. \A i \in 1 .. n : s[i] \in Cells /\ s[i] # x
  BY <1>1 DEF Cells
<1>9. x \in Cells
  BY DEF Cells
<1>10. \A i \in 1 .. n : s[i] = u <=> i = p - 1 \/ (k = "CDL" /\ p = 1 /\ i = n)
  BY <1>1, <1>8 DEF Distinct, Pred
<1>11. \A i \in 1 .. n : s[i] = v <=> i = p \/ (p = n + 1 /\ i = 1)
  BY <1>1, <1>8 DEF Distinct, Succ
<1>12. \A y \in Cells : (y # x /\ \A i \in 1 .. n : y # s[i]) => y # u /\ y # v
  BY <1>1 DEF Pred, Succ
<1>13. nx2[x] = IF p <= n THEN s[p] ELSE IF k # "CDL" THEN NULL ELSE IF n = 0 THEN x ELSE s[1]
  BY <1>1, <1>6, <1>9 DEF Succ
<1>14. pv2[x] = IF p > 1 THEN s[p - 1] ELSE IF n = 0 THEN x ELSE s[n]
  BY <1>1, <1>7, <1>9 DEF Pred
<1>15. Chain(hd, nx, pv, k, s)
  OBVIOUS
<1>16. IsInsert(t, s, p, x)
  BY InsertAtIs
<1> HIDE DEF u, v, hd, nx, pv, hd2, nx2, pv2, t
<1>17. \A i \in 1 .. n :
         nx2[s[i]] = IF i = p - 1 \/ (k = "CDL" /\ p = 1 /\ i = n) THEN x ELSE nx[s[i]]
  BY <1>6, <1>8, <1>10
<1>18. \A i \in 1 .. n : pv2[s[i]] = IF i = p \/ (p = n + 1 /\ i = 1) THEN x ELSE pv[s[i]]
  BY <1>7, <1>8, <1>11
<1>19. Chain(hd2, nx2, pv2, k, t)
  <2>1. PutsIn(hd2, nx2, pv2, hd, nx, pv, k, s, p, x)
    BY <1>4, <1>13, <1>14, <1>17, <1>18 DEF PutsIn
  <2> QED BY <1>15, <1>16, <2>1, InsertChains
<1>20. \A y \in Cells : (y # x /\ \A i \in 1 .. n : y # s[i])
         => nx2[y] = nx[y] /\ pv2[y] = pv[y]
  BY <1>6, <1>7, <1>12
<1> QED BY <1>2, <1>5, <1>19, <1>20 DEF Becomes, hd2, nx2, pv2, nx, pv, t

(* The writes that take place p out and free its element.                  *)
Unlinks(m, r, a, k, s, p) ==
  /\ r \in Mem
  /\ r.head[a] = IF Len(s) = 1 THEN NULL ELSE IF p = 1 THEN s[2] ELSE m.head[a]
  /\ \A b \in Lists : b # a => r.head[b] = m.head[b]
  /\ \A y \in Cells :
       r.next[y] = IF y = s[p] THEN JUNK
                   ELSE IF y = Pred(k, s, p, s[p]) THEN m.next[s[p]] ELSE m.next[y]
  /\ \A y \in Cells :
       r.prev[y] = IF y = s[p] THEN JUNK
                   ELSE IF y = Succ(s, p + 1, s[p]) THEN m.prev[s[p]] ELSE m.prev[y]

(* Those writes make the shorter list, and touch no other cell.            *)
LEMMA UnlinkRemoves ==
  ASSUME NEW m \in Mem, NEW a \in Lists, NEW k, NEW s \in Seq(Elem),
         NEW p \in 1 .. Len(s), NEW r, Distinct(s),
         Chain(m.head[a], m.next, m.prev, k, s),
         Unlinks(m, r, a, k, s, p)
  PROVE  Becomes(m, r, a, k, s, RemoveAt(s, p), s[p])
<1> DEFINE n == Len(s)
           x == s[p]
           u == Pred(k, s, p, x)
           v == Succ(s, p + 1, x)
           hd == m.head[a]
           nx == m.next
           pv == m.prev
           hd2 == r.head[a]
           nx2 == r.next
           pv2 == r.prev
           t == RemoveAt(s, p)
<1>1. n \in Nat /\ p \in 1 .. n /\ \A i \in 1 .. n : s[i] \in Elem
  OBVIOUS
<1>2. r \in Mem
  BY DEF Unlinks
<1>4. hd2 = IF n = 1 THEN NULL ELSE IF p = 1 THEN s[2] ELSE hd
  BY DEF Unlinks
<1>5. \A b \in Lists : b # a => r.head[b] = m.head[b]
  BY DEF Unlinks
<1>6. \A y \in Cells :
        nx2[y] = IF y = x THEN JUNK ELSE IF y = u THEN nx[x] ELSE nx[y]
  BY DEF Unlinks
<1>7. \A y \in Cells :
        pv2[y] = IF y = x THEN JUNK ELSE IF y = v THEN pv[x] ELSE pv[y]
  BY DEF Unlinks
<1>8. \A i \in 1 .. n : s[i] \in Cells /\ (s[i] = x <=> i = p)
  BY <1>1 DEF Cells, Distinct
<1>10. \A i \in 1 .. n : i # p => (s[i] = u <=> i = p - 1 \/ (k = "CDL" /\ p = 1 /\ i = n))
  BY <1>1, <1>8 DEF Distinct, Pred
<1>11. \A i \in 1 .. n : i # p => (s[i] = v <=> i = p + 1 \/ (p = n /\ i = 1))
  BY <1>1, <1>8 DEF Distinct, Succ
<1>12. \A y \in Cells : (y # x /\ \A i \in 1 .. n : y # s[i]) => y # u /\ y # v
  BY <1>1 DEF Pred, Succ
<1>15. Chain(hd, nx, pv, k, s)
  OBVIOUS
<1>16. IsRemove(t, s, p)
  BY RemoveAtIs
<1> HIDE DEF x, u, v, hd, nx, pv, hd2, nx2, pv2, t
<1>17. \A i \in 1 .. n : i # p =>
         nx2[s[i]] = IF i = p - 1 \/ (k = "CDL" /\ p = 1 /\ i = n) THEN nx[x] ELSE nx[s[i]]
  BY <1>6, <1>8, <1>10
<1>18. \A i \in 1 .. n : i # p =>
         pv2[s[i]] = IF i = p + 1 \/ (p = n /\ i = 1) THEN pv[x] ELSE pv[s[i]]
  BY <1>7, <1>8, <1>11
<1>19. Chain(hd2, nx2, pv2, k, t)
  <2>1. TakesOut(hd2, nx2, pv2, hd, nx, pv, k, s, p)
    BY <1>4, <1>17, <1>18 DEF TakesOut, x
  <2> QED BY <1>15, <1>16, <2>1, RemoveChains
<1>20. \A y \in Cells : (y # x /\ \A i \in 1 .. n : y # s[i])
         => nx2[y] = nx[y] /\ pv2[y] = pv[y]
  BY <1>6, <1>7, <1>12
<1> QED BY <1>2, <1>5, <1>19, <1>20 DEF Becomes, hd2, nx2, pv2, nx, pv, t, x

(* The writes that put x in the place of place p's element and free that.  *)
Swaps(m, r, a, k, s, p, x) ==
  /\ r \in Mem
  /\ r.head[a] = IF p = 1 THEN x ELSE m.head[a]
  /\ \A b \in Lists : b # a => r.head[b] = m.head[b]
  /\ \A y \in Cells :
       r.next[y] = IF y = s[p] THEN JUNK
                   ELSE IF y = x THEN IF Len(s) = 1 /\ k = "CDL" THEN x ELSE m.next[s[p]]
                   ELSE IF y = Pred(k, s, p, s[p]) THEN x ELSE m.next[y]
  /\ \A y \in Cells :
       r.prev[y] = IF y = s[p] THEN JUNK
                   ELSE IF y = x THEN IF Len(s) = 1 THEN x ELSE m.prev[s[p]]
                   ELSE IF y = Succ(s, p + 1, s[p]) THEN x ELSE m.prev[y]

(* Those writes make the changed list, and touch no other cell.            *)
LEMMA SwapReplaces ==
  ASSUME NEW m \in Mem, NEW a \in Lists, NEW k, NEW s \in Seq(Elem),
         NEW p \in 1 .. Len(s), NEW x \in Elem, NEW r,
         Distinct(s), \A i \in 1 .. Len(s) : s[i] # x,
         Chain(m.head[a], m.next, m.prev, k, s),
         Swaps(m, r, a, k, s, p, x)
  PROVE  Becomes(m, r, a, k, s, ReplaceAt(s, p, x), x)
<1> DEFINE n == Len(s)
           el == s[p]
           u == Pred(k, s, p, el)
           v == Succ(s, p + 1, el)
           hd == m.head[a]
           nx == m.next
           pv == m.prev
           hd2 == r.head[a]
           nx2 == r.next
           pv2 == r.prev
<1>1. n \in Nat /\ p \in 1 .. n /\ \A i \in 1 .. n : s[i] \in Elem
  OBVIOUS
<1>2. r \in Mem
  BY DEF Swaps
<1>4. hd2 = IF p = 1 THEN x ELSE hd
  BY DEF Swaps
<1>5. \A b \in Lists : b # a => r.head[b] = m.head[b]
  BY DEF Swaps
<1>6. \A y \in Cells :
        nx2[y] = IF y = el THEN JUNK ELSE IF y = x THEN IF n = 1 /\ k = "CDL" THEN x ELSE nx[el]
                 ELSE IF y = u THEN x ELSE nx[y]
  BY DEF Swaps
<1>7. \A y \in Cells :
        pv2[y] = IF y = el THEN JUNK ELSE IF y = x THEN IF n = 1 THEN x ELSE pv[el]
                 ELSE IF y = v THEN x ELSE pv[y]
  BY DEF Swaps
<1>8. \A i \in 1 .. n : s[i] \in Cells /\ s[i] # x /\ (s[i] = el <=> i = p)
  BY <1>1 DEF Cells, Distinct
<1>9. x \in Cells /\ x # el
  BY <1>1 DEF Cells
<1>10. \A i \in 1 .. n : i # p => (s[i] = u <=> i = p - 1 \/ (k = "CDL" /\ p = 1 /\ i = n))
  BY <1>1, <1>8 DEF Distinct, Pred
<1>11. \A i \in 1 .. n : i # p => (s[i] = v <=> i = p + 1 \/ (p = n /\ i = 1))
  BY <1>1, <1>8 DEF Distinct, Succ
<1>12. \A y \in Cells : (y # x /\ \A i \in 1 .. n : y # s[i]) => y # u /\ y # v /\ y # el
  BY <1>1 DEF Pred, Succ
<1>15. Chain(hd, nx, pv, k, s)
  OBVIOUS
<1> HIDE DEF el, u, v, hd, nx, pv, hd2, nx2, pv2
<1>16. nx2[x] = (IF n = 1 /\ k = "CDL" THEN x ELSE nx[el]) /\ pv2[x] = IF n = 1 THEN x ELSE pv[el]
  BY <1>6, <1>7, <1>9
<1>17. \A i \in 1 .. n : i # p =>
         nx2[s[i]] = IF i = p - 1 \/ (k = "CDL" /\ p = 1 /\ i = n) THEN x ELSE nx[s[i]]
  BY <1>6, <1>8, <1>10
<1>18. \A i \in 1 .. n : i # p =>
         pv2[s[i]] = IF i = p + 1 \/ (p = n /\ i = 1) THEN x ELSE pv[s[i]]
  BY <1>7, <1>8, <1>11
<1>19. Chain(hd2, nx2, pv2, k, ReplaceAt(s, p, x))
  BY <1>4, <1>15, <1>16, <1>17, <1>18, ReplaceChains DEF el
<1>20. \A y \in Cells : (y # x /\ \A i \in 1 .. n : y # s[i])
         => nx2[y] = nx[y] /\ pv2[y] = pv[y]
  BY <1>6, <1>7, <1>12
<1> QED BY <1>2, <1>5, <1>19, <1>20 DEF Becomes, hd2, nx2, pv2, nx, pv

(* List a of m is s, and x is not one of its elements.                     *)
IsList(m, a, k, s) ==
  /\ m \in Mem /\ a \in Lists /\ s \in Seq(Elem) /\ Distinct(s)
  /\ Chain(m.head[a], m.next, m.prev, k, s)

IsFresh(x, s) == x \in Elem /\ \A i \in 1 .. Len(s) : s[i] # x

(* What the macros read from a list.                                       *)
LEMMA ListReads ==
  ASSUME NEW m, NEW a, NEW k, NEW s, IsList(m, a, k, s)
  PROVE  /\ m \in Mem /\ a \in Lists /\ s \in Seq(Elem) /\ Len(s) \in Nat
         /\ m.head \in [Lists -> Cells]
         /\ m.next \in [Cells -> Cells] /\ m.prev \in [Cells -> Cells]
         /\ NULL \in Cells /\ NULL \notin Elem
         /\ \A i \in 1 .. Len(s) : s[i] \in Elem /\ s[i] \in Cells /\ s[i] # NULL
         /\ Len(s) = 0 => m.head[a] = NULL
         /\ Len(s) > 0 => m.head[a] = s[1]
         /\ \A i, j \in 1 .. Len(s) : s[i] = s[j] => i = j
         /\ \A i \in 1 .. Len(s) :
              m.next[s[i]] = IF i < Len(s) THEN s[i + 1] ELSE IF k = "CDL" THEN s[1] ELSE NULL
         /\ \A i \in 1 .. Len(s) :
              m.prev[s[i]] = IF i > 1 THEN s[i - 1] ELSE s[Len(s)]
<1>1. m \in Mem /\ a \in Lists /\ s \in Seq(Elem)
  BY DEF IsList
<1>2. Chain(m.head[a], m.next, m.prev, k, s)
  BY DEF IsList
<1>3. \A i, j \in 1 .. Len(s) : s[i] = s[j] => i = j
  BY DEF IsList, Distinct
<1>4. Len(s) \in Nat /\ \A i \in 1 .. Len(s) : s[i] \in Elem /\ s[i] \in Cells /\ s[i] # NULL
  BY <1>1, CellAssumption DEF Cells
<1>5. /\ m.head \in [Lists -> Cells]
      /\ m.next \in [Cells -> Cells] /\ m.prev \in [Cells -> Cells]
  BY <1>1 DEF Mem
<1>6. NULL \in Cells /\ NULL \notin Elem
  BY CellAssumption DEF Cells
<1>7. (Len(s) = 0 => m.head[a] = NULL) /\ (Len(s) > 0 => m.head[a] = s[1])
  BY <1>2, <1>4 DEF Chain
<1>8. \A i \in 1 .. Len(s) :
        m.next[s[i]] = IF i < Len(s) THEN s[i + 1] ELSE IF k = "CDL" THEN s[1] ELSE NULL
  BY <1>2 DEF Chain
<1>9. \A i \in 1 .. Len(s) : m.prev[s[i]] = IF i > 1 THEN s[i - 1] ELSE s[Len(s)]
  BY <1>2 DEF Chain
<1> QED BY <1>1, <1>3, <1>4, <1>5, <1>6, <1>7, <1>8, <1>9

(* DL_PREPEND: x becomes the head, and the tail stays the head's prev.     *)
LEMMA DlPrepend ==
  ASSUME NEW m, NEW a, NEW s, NEW x,
         IsList(m, a, "DL", s), IsFresh(x, s)
  PROVE  Splices(m, DL_PREPEND2(m, a, x), a, "DL", s, 1, x)
<1> DEFINE n == Len(s)
           l == s[n]
           f == s[1]
           r == DL_PREPEND2(m, a, x)
<1>1. /\ m \in Mem /\ a \in Lists /\ n \in Nat /\ NULL \in Cells
      /\ m.head \in [Lists -> Cells]
      /\ n = 0 => m.head[a] = NULL
      /\ n > 0 => /\ m.head[a] = f /\ m.prev[f] = l
                  /\ f \in Cells /\ l \in Cells /\ f # NULL
  BY ListReads
<1>2. x \in Cells /\ (n > 0 => f # x /\ l # x)
  BY <1>1 DEF IsFresh, Cells
<1>3. /\ Pred("DL", s, 1, x) = x
      /\ Pred("CDL", s, 1, x) = IF n = 0 THEN x ELSE l
      /\ Succ(s, 1, x) = IF n = 0 THEN x ELSE f
  BY <1>1 DEF Pred, Succ
<1>4. CASE n = 0
  <2> HIDE DEF l, f
  <2> DEFINE e == [m EXCEPT !.next[x] = NULL, !.prev[x] = x, !.head[a] = x]
  <2>1. r = e
    BY <1>1, <1>2, <1>4 DEF DL_PREPEND2
  <2>2. m \in Mem /\ a \in Lists /\ x \in Cells /\ NULL \in Cells
    BY <1>1, <1>2, <1>4
  <2>3. e \in Mem
    BY <2>2 DEF Mem
  <2>4. r \in Mem
    BY <2>1, <2>3
  <2>5. r.head[a] = x /\ \A c \in Lists : c # a => r.head[c] = m.head[c]
    BY <2>1, <2>2 DEF Mem
  <2>6. \A y \in Cells : r.next[y] = IF y = x THEN NULL ELSE m.next[y]
    BY <2>1, <2>2 DEF Mem
  <2>7. \A y \in Cells : r.prev[y] = IF y = x THEN x ELSE m.prev[y]
    BY <2>1, <2>2 DEF Mem
  <2> HIDE DEF r
  <2>8. Splices(m, r, a, "DL", s, 1, x)
    BY <1>1, <1>2, <1>4, <1>3, <2>4, <2>5, <2>6, <2>7 DEF Splices
  <2> QED BY <2>8 DEF r
<1>5. CASE n > 0
  <2> HIDE DEF l, f
  <2> DEFINE e == [m EXCEPT !.next[x] = f, !.prev[x] = l, !.prev[f] = x, !.head[a] = x]
  <2>1. r = e
    BY <1>1, <1>2, <1>5 DEF DL_PREPEND2
  <2>2. m \in Mem /\ a \in Lists /\ x \in Cells /\ NULL \in Cells /\ l \in Cells /\ f \in Cells
       /\ x # l /\ x # f
    BY <1>1, <1>2, <1>5
  <2>3. e \in Mem
    BY <2>2 DEF Mem
  <2>4. r \in Mem
    BY <2>1, <2>3
  <2>5. r.head[a] = x /\ \A c \in Lists : c # a => r.head[c] = m.head[c]
    BY <2>1, <2>2 DEF Mem
  <2>6. \A y \in Cells : r.next[y] = IF y = x THEN f ELSE m.next[y]
    BY <2>1, <2>2 DEF Mem
  <2>7. \A y \in Cells : r.prev[y] = IF y = x THEN l ELSE IF y = f THEN x ELSE m.prev[y]
    BY <2>1, <2>2 DEF Mem
  <2> HIDE DEF r
  <2>8. Splices(m, r, a, "DL", s, 1, x)
    BY <1>1, <1>2, <1>5, <1>3, <2>4, <2>5, <2>6, <2>7 DEF Splices
  <2> QED BY <2>8 DEF r
<1> QED BY <1>1, <1>4, <1>5

(* DL_APPEND: x becomes the tail, found through the head's prev.           *)
LEMMA DlAppend ==
  ASSUME NEW m, NEW a, NEW s, NEW x,
         IsList(m, a, "DL", s), IsFresh(x, s)
  PROVE  Splices(m, DL_APPEND2(m, a, x), a, "DL", s, Len(s) + 1, x)
<1> DEFINE n == Len(s)
           l == s[n]
           f == s[1]
           r == DL_APPEND2(m, a, x)
<1>1. /\ m \in Mem /\ a \in Lists /\ n \in Nat /\ NULL \in Cells
      /\ m.head \in [Lists -> Cells]
      /\ n = 0 => m.head[a] = NULL
      /\ n > 0 => /\ m.head[a] = f /\ m.prev[f] = l
                  /\ f \in Cells /\ l \in Cells /\ f # NULL
  BY ListReads
<1>2. x \in Cells /\ (n > 0 => f # x /\ l # x)
  BY <1>1 DEF IsFresh, Cells
<1>3. /\ Pred("DL", s, n + 1, x) = IF n = 0 THEN x ELSE l
      /\ Pred("CDL", s, n + 1, x) = IF n = 0 THEN x ELSE l
      /\ Succ(s, n + 1, x) = IF n = 0 THEN x ELSE f
  BY <1>1 DEF Pred, Succ
<1>4. CASE n = 0
  <2> HIDE DEF l, f
  <2> DEFINE e == [m EXCEPT !.head[a] = x, !.prev[x] = x, !.next[x] = NULL]
  <2>1. r = e
    BY <1>1, <1>2, <1>4 DEF DL_APPEND2
  <2>2. m \in Mem /\ a \in Lists /\ x \in Cells /\ NULL \in Cells
    BY <1>1, <1>2, <1>4
  <2>3. e \in Mem
    BY <2>2 DEF Mem
  <2>4. r \in Mem
    BY <2>1, <2>3
  <2>5. r.head[a] = x /\ \A c \in Lists : c # a => r.head[c] = m.head[c]
    BY <2>1, <2>2 DEF Mem
  <2>6. \A y \in Cells : r.next[y] = IF y = x THEN NULL ELSE m.next[y]
    BY <2>1, <2>2 DEF Mem
  <2>7. \A y \in Cells : r.prev[y] = IF y = x THEN x ELSE m.prev[y]
    BY <2>1, <2>2 DEF Mem
  <2> HIDE DEF r
  <2>8. Splices(m, r, a, "DL", s, n + 1, x)
    BY <1>1, <1>2, <1>4, <1>3, <2>4, <2>5, <2>6, <2>7 DEF Splices
  <2> QED BY <2>8 DEF r
<1>5. CASE n > 0
  <2> HIDE DEF l, f
  <2> DEFINE e == [m EXCEPT !.prev[x] = l, !.next[l] = x, !.prev[f] = x, !.next[x] = NULL]
  <2>1. r = e
    BY <1>1, <1>2, <1>5 DEF DL_APPEND2
  <2>2. m \in Mem /\ a \in Lists /\ x \in Cells /\ NULL \in Cells /\ l \in Cells /\ f \in Cells
       /\ x # l /\ x # f
    BY <1>1, <1>2, <1>5
  <2>3. e \in Mem
    BY <2>2 DEF Mem
  <2>4. r \in Mem
    BY <2>1, <2>3
  <2>5. r.head = m.head
    BY <2>1, <2>2 DEF Mem
  <2>6. \A y \in Cells : r.next[y] = IF y = x THEN NULL ELSE IF y = l THEN x ELSE m.next[y]
    BY <2>1, <2>2 DEF Mem
  <2>7. \A y \in Cells : r.prev[y] = IF y = x THEN l ELSE IF y = f THEN x ELSE m.prev[y]
    BY <2>1, <2>2 DEF Mem
  <2> HIDE DEF r
  <2>8. Splices(m, r, a, "DL", s, n + 1, x)
    BY <1>1, <1>2, <1>5, <1>3, <2>4, <2>5, <2>6, <2>7 DEF Splices
  <2> QED BY <2>8 DEF r
<1> QED BY <1>1, <1>4, <1>5

(* CDL_APPEND: x goes between the last element and the first.              *)
LEMMA CdlAppend ==
  ASSUME NEW m, NEW a, NEW s, NEW x,
         IsList(m, a, "CDL", s), IsFresh(x, s)
  PROVE  Splices(m, CDL_APPEND2(m, a, x), a, "CDL", s, Len(s) + 1, x)
<1> DEFINE n == Len(s)
           l == s[n]
           f == s[1]
           r == CDL_APPEND2(m, a, x)
<1>1. /\ m \in Mem /\ a \in Lists /\ n \in Nat /\ NULL \in Cells
      /\ m.head \in [Lists -> Cells]
      /\ n = 0 => m.head[a] = NULL
      /\ n > 0 => /\ m.head[a] = f /\ m.prev[f] = l
                  /\ f \in Cells /\ l \in Cells /\ f # NULL
  BY ListReads
<1>2. x \in Cells /\ (n > 0 => f # x /\ l # x)
  BY <1>1 DEF IsFresh, Cells
<1>3. /\ Pred("DL", s, n + 1, x) = IF n = 0 THEN x ELSE l
      /\ Pred("CDL", s, n + 1, x) = IF n = 0 THEN x ELSE l
      /\ Succ(s, n + 1, x) = IF n = 0 THEN x ELSE f
  BY <1>1 DEF Pred, Succ
<1>4. CASE n = 0
  <2> HIDE DEF l, f
  <2> DEFINE e == [m EXCEPT !.prev[x] = x, !.next[x] = x, !.head[a] = x]
  <2>1. r = e
    BY <1>1, <1>2, <1>4 DEF CDL_APPEND2
  <2>2. m \in Mem /\ a \in Lists /\ x \in Cells /\ NULL \in Cells
    BY <1>1, <1>2, <1>4
  <2>3. e \in Mem
    BY <2>2 DEF Mem
  <2>4. r \in Mem
    BY <2>1, <2>3
  <2>5. r.head[a] = x /\ \A c \in Lists : c # a => r.head[c] = m.head[c]
    BY <2>1, <2>2 DEF Mem
  <2>6. \A y \in Cells : r.next[y] = IF y = x THEN x ELSE m.next[y]
    BY <2>1, <2>2 DEF Mem
  <2>7. \A y \in Cells : r.prev[y] = IF y = x THEN x ELSE m.prev[y]
    BY <2>1, <2>2 DEF Mem
  <2> HIDE DEF r
  <2>8. Splices(m, r, a, "CDL", s, n + 1, x)
    BY <1>1, <1>2, <1>4, <1>3, <2>4, <2>5, <2>6, <2>7 DEF Splices
  <2> QED BY <2>8 DEF r
<1>5. CASE n > 0
  <2> HIDE DEF l, f
  <2> DEFINE e == [m EXCEPT !.prev[x] = l, !.next[x] = f, !.prev[f] = x, !.next[l] = x]
  <2>1. r = e
    BY <1>1, <1>2, <1>5 DEF CDL_APPEND2
  <2>2. m \in Mem /\ a \in Lists /\ x \in Cells /\ NULL \in Cells /\ l \in Cells /\ f \in Cells
       /\ x # l /\ x # f
    BY <1>1, <1>2, <1>5
  <2>3. e \in Mem
    BY <2>2 DEF Mem
  <2>4. r \in Mem
    BY <2>1, <2>3
  <2>5. r.head = m.head
    BY <2>1, <2>2 DEF Mem
  <2>6. \A y \in Cells : r.next[y] = IF y = x THEN f ELSE IF y = l THEN x ELSE m.next[y]
    BY <2>1, <2>2 DEF Mem
  <2>7. \A y \in Cells : r.prev[y] = IF y = x THEN l ELSE IF y = f THEN x ELSE m.prev[y]
    BY <2>1, <2>2 DEF Mem
  <2> HIDE DEF r
  <2>8. Splices(m, r, a, "CDL", s, n + 1, x)
    BY <1>1, <1>2, <1>5, <1>3, <2>4, <2>5, <2>6, <2>7 DEF Splices
  <2> QED BY <2>8 DEF r
<1> QED BY <1>1, <1>4, <1>5

(* DL_PREPEND_ELEM: x goes before the element at place p.                  *)
LEMMA DlPrependElem ==
  ASSUME NEW m, NEW a, NEW s, NEW x, NEW p \in 1 .. Len(s),
         IsList(m, a, "DL", s), IsFresh(x, s)
  PROVE  Splices(m, DL_PREPEND_ELEM2(m, a, s[p], x), a, "DL", s, p, x)
<1> DEFINE n == Len(s)
           el == s[p]
           f == s[1]
           b == IF p > 1 THEN s[p - 1] ELSE s[n]
           r == DL_PREPEND_ELEM2(m, a, el, x)
<1>1. /\ m \in Mem /\ a \in Lists /\ n \in Nat /\ NULL \in Cells
      /\ m.head \in [Lists -> Cells] /\ n > 0
      /\ el \in Cells /\ el # NULL /\ f \in Cells /\ f # NULL
      /\ m.head[a] = f /\ (f = el <=> p = 1)
      /\ b \in Cells /\ m.prev[el] = b
  BY ListReads
<1>2. x \in Cells /\ f # x /\ el # x /\ b # x
  BY <1>1 DEF IsFresh, Cells
<1>3. /\ Pred("DL", s, p, x) = IF p > 1 THEN b ELSE x
      /\ Pred("CDL", s, p, x) = b
      /\ Succ(s, p, x) = el /\ p <= n
  BY <1>1 DEF Pred, Succ
<1>4. CASE p = 1
  <2> HIDE DEF el, f, b
  <2> DEFINE e == [m EXCEPT !.next[x] = el, !.prev[x] = b, !.prev[el] = x, !.head[a] = x]
  <2>1. r = e
    BY <1>1, <1>2, <1>4 DEF DL_PREPEND_ELEM2
  <2>2. m \in Mem /\ a \in Lists /\ x \in Cells /\ NULL \in Cells /\ el \in Cells /\ b \in Cells
       /\ x # el
    BY <1>1, <1>2, <1>4
  <2>3. e \in Mem
    BY <2>2 DEF Mem
  <2>4. r \in Mem
    BY <2>1, <2>3
  <2>5. r.head[a] = x /\ \A c \in Lists : c # a => r.head[c] = m.head[c]
    BY <2>1, <2>2 DEF Mem
  <2>6. \A y \in Cells : r.next[y] = IF y = x THEN el ELSE m.next[y]
    BY <2>1, <2>2 DEF Mem
  <2>7. \A y \in Cells : r.prev[y] = IF y = x THEN b ELSE IF y = el THEN x ELSE m.prev[y]
    BY <2>1, <2>2 DEF Mem
  <2> HIDE DEF r
  <2>8. Splices(m, r, a, "DL", s, p, x)
    BY <1>1, <1>2, <1>4, <1>3, <2>4, <2>5, <2>6, <2>7 DEF Splices
  <2> QED BY <2>8 DEF r, el
<1>5. CASE p > 1
  <2> HIDE DEF el, f, b
  <2> DEFINE e == [m EXCEPT !.next[x] = el, !.prev[x] = b, !.prev[el] = x, !.next[b] = x]
  <2>1. r = e
    BY <1>1, <1>2, <1>5 DEF DL_PREPEND_ELEM2
  <2>2. m \in Mem /\ a \in Lists /\ x \in Cells /\ NULL \in Cells /\ el \in Cells /\ b \in Cells
       /\ x # el /\ x # b
    BY <1>1, <1>2, <1>5
  <2>3. e \in Mem
    BY <2>2 DEF Mem
  <2>4. r \in Mem
    BY <2>1, <2>3
  <2>5. r.head = m.head
    BY <2>1, <2>2 DEF Mem
  <2>6. \A y \in Cells : r.next[y] = IF y = x THEN el ELSE IF y = b THEN x ELSE m.next[y]
    BY <2>1, <2>2 DEF Mem
  <2>7. \A y \in Cells : r.prev[y] = IF y = x THEN b ELSE IF y = el THEN x ELSE m.prev[y]
    BY <2>1, <2>2 DEF Mem
  <2> HIDE DEF r
  <2>8. Splices(m, r, a, "DL", s, p, x)
    BY <1>1, <1>2, <1>5, <1>3, <2>4, <2>5, <2>6, <2>7 DEF Splices
  <2> QED BY <2>8 DEF r, el
<1> QED BY <1>1, <1>4, <1>5

(* DL_APPEND_ELEM: x goes behind the element at place p.                   *)
LEMMA DlAppendElem ==
  ASSUME NEW m, NEW a, NEW s, NEW x, NEW p \in 1 .. Len(s),
         IsList(m, a, "DL", s), IsFresh(x, s)
  PROVE  Splices(m, DL_APPEND_ELEM2(m, a, s[p], x), a, "DL", s, p + 1, x)
<1> DEFINE n == Len(s)
           el == s[p]
           f == s[1]
           w == IF p < n THEN s[p + 1] ELSE NULL
           b == IF p < n THEN s[p + 1] ELSE s[1]
           r == DL_APPEND_ELEM2(m, a, el, x)
<1>1. /\ m \in Mem /\ a \in Lists /\ n \in Nat /\ NULL \in Cells
      /\ m.head \in [Lists -> Cells] /\ n > 0
      /\ el \in Cells /\ el # NULL /\ f \in Cells /\ f # NULL
      /\ m.head[a] = f /\ (f = el <=> p = 1)
      /\ w \in Cells /\ m.next[el] = w /\ b \in Cells
      /\ b = IF w = NULL THEN f ELSE w
  BY ListReads
<1>2. x \in Cells /\ el # x /\ b # x
  BY <1>1 DEF IsFresh, Cells
<1>3. /\ Pred("DL", s, p + 1, x) = el
      /\ Pred("CDL", s, p + 1, x) = el
      /\ Succ(s, p + 1, x) = b /\ p + 1 # 1
      /\ w = IF p + 1 <= n THEN b ELSE NULL
  BY <1>1 DEF Pred, Succ
<1> HIDE DEF el, f, w, b
<1> DEFINE e == [m EXCEPT !.next[x] = w, !.prev[x] = el, !.next[el] = x, !.prev[b] = x]
<1>4. r = e
  BY <1>1, <1>2 DEF DL_APPEND_ELEM2
<1>5. m \in Mem /\ a \in Lists /\ x \in Cells /\ NULL \in Cells
     /\ el \in Cells /\ b \in Cells /\ w \in Cells /\ x # el /\ x # b
  BY <1>1, <1>2
<1>6. e \in Mem
  BY <1>5 DEF Mem
<1>7. r \in Mem
  BY <1>4, <1>6
<1>8. r.head = m.head
  BY <1>4, <1>5 DEF Mem
<1>9. \A y \in Cells : r.next[y] = IF y = x THEN w ELSE IF y = el THEN x ELSE m.next[y]
  BY <1>4, <1>5 DEF Mem
<1>10. \A y \in Cells : r.prev[y] = IF y = x THEN el ELSE IF y = b THEN x ELSE m.prev[y]
  BY <1>4, <1>5 DEF Mem
<1> HIDE DEF r
<1>11. Splices(m, r, a, "DL", s, p + 1, x)
  BY <1>1, <1>2, <1>3, <1>7, <1>8, <1>9, <1>10 DEF Splices
<1> QED BY <1>11 DEF r, el

(* CDL_PREPEND_ELEM: the same in the ring, which may move the head.        *)
LEMMA CdlPrependElem ==
  ASSUME NEW m, NEW a, NEW s, NEW x, NEW p \in 1 .. Len(s),
         IsList(m, a, "CDL", s), IsFresh(x, s)
  PROVE  Splices(m, CDL_PREPEND_ELEM2(m, a, s[p], x), a, "CDL", s, p, x)
<1> DEFINE n == Len(s)
           el == s[p]
           f == s[1]
           b == IF p > 1 THEN s[p - 1] ELSE s[n]
           r == CDL_PREPEND_ELEM2(m, a, el, x)
<1>1. /\ m \in Mem /\ a \in Lists /\ n \in Nat /\ NULL \in Cells
      /\ m.head \in [Lists -> Cells] /\ n > 0
      /\ el \in Cells /\ el # NULL /\ f \in Cells /\ f # NULL
      /\ m.head[a] = f /\ (f = el <=> p = 1)
      /\ b \in Cells /\ m.prev[el] = b
  BY ListReads
<1>2. x \in Cells /\ f # x /\ el # x /\ b # x
  BY <1>1 DEF IsFresh, Cells
<1>3. /\ Pred("CDL", s, p, x) = b
      /\ Succ(s, p, x) = el /\ p <= n
  BY <1>1 DEF Pred, Succ
<1> HIDE DEF el, f, b
<1> DEFINE e == [m EXCEPT !.next[x] = el, !.prev[x] = b, !.prev[el] = x, !.next[b] = x,
                          !.head[a] = IF @ = el THEN x ELSE @]
<1>4. r = e
  BY <1>1, <1>2 DEF CDL_PREPEND_ELEM2
<1>5. m \in Mem /\ a \in Lists /\ x \in Cells /\ NULL \in Cells
     /\ el \in Cells /\ b \in Cells /\ f \in Cells /\ x # el /\ x # b
     /\ m.head[a] = f /\ (f = el <=> p = 1)
  BY <1>1, <1>2
<1>6. e \in Mem
  BY <1>5 DEF Mem
<1>7. r \in Mem
  BY <1>4, <1>6
<1>8. r.head[a] = (IF p = 1 THEN x ELSE f) /\ \A c \in Lists : c # a => r.head[c] = m.head[c]
  BY <1>4, <1>5 DEF Mem
<1>9. \A y \in Cells : r.next[y] = IF y = x THEN el ELSE IF y = b THEN x ELSE m.next[y]
  BY <1>4, <1>5 DEF Mem
<1>10. \A y \in Cells : r.prev[y] = IF y = x THEN b ELSE IF y = el THEN x ELSE m.prev[y]
  BY <1>4, <1>5 DEF Mem
<1> HIDE DEF r
<1>11. Splices(m, r, a, "CDL", s, p, x)
  BY <1>1, <1>2, <1>3, <1>7, <1>8, <1>9, <1>10 DEF Splices
<1> QED BY <1>11 DEF r, el

(* CDL_APPEND_ELEM: the same in the ring.                                  *)
LEMMA CdlAppendElem ==
  ASSUME NEW m, NEW a, NEW s, NEW x, NEW p \in 1 .. Len(s),
         IsList(m, a, "CDL", s), IsFresh(x, s)
  PROVE  Splices(m, CDL_APPEND_ELEM2(m, a, s[p], x), a, "CDL", s, p + 1, x)
<1> DEFINE n == Len(s)
           el == s[p]
           f == s[1]
           b == IF p < n THEN s[p + 1] ELSE s[1]
           r == CDL_APPEND_ELEM2(m, a, el, x)
<1>1. /\ m \in Mem /\ a \in Lists /\ n \in Nat /\ NULL \in Cells
      /\ m.head \in [Lists -> Cells] /\ n > 0
      /\ el \in Cells /\ el # NULL /\ f \in Cells /\ f # NULL
      /\ m.head[a] = f /\ (f = el <=> p = 1)
      /\ b \in Cells /\ m.next[el] = b
  BY ListReads
<1>2. x \in Cells /\ el # x /\ b # x
  BY <1>1 DEF IsFresh, Cells
<1>3. /\ Pred("CDL", s, p + 1, x) = el
      /\ Succ(s, p + 1, x) = b /\ p + 1 # 1
  BY <1>1 DEF Pred, Succ
<1> HIDE DEF el, f, b
<1> DEFINE e == [m EXCEPT !.next[x] = b, !.prev[x] = el, !.next[el] = x, !.prev[b] = x]
<1>4. r = e
  BY <1>1, <1>2 DEF CDL_APPEND_ELEM2
<1>5. m \in Mem /\ a \in Lists /\ x \in Cells /\ NULL \in Cells
     /\ el \in Cells /\ b \in Cells /\ x # el /\ x # b
  BY <1>1, <1>2
<1>6. e \in Mem
  BY <1>5 DEF Mem
<1>7. r \in Mem
  BY <1>4, <1>6
<1>8. r.head = m.head
  BY <1>4, <1>5 DEF Mem
<1>9. \A y \in Cells : r.next[y] = IF y = x THEN b ELSE IF y = el THEN x ELSE m.next[y]
  BY <1>4, <1>5 DEF Mem
<1>10. \A y \in Cells : r.prev[y] = IF y = x THEN el ELSE IF y = b THEN x ELSE m.prev[y]
  BY <1>4, <1>5 DEF Mem
<1> HIDE DEF r
<1>11. Splices(m, r, a, "CDL", s, p + 1, x)
  BY <1>1, <1>2, <1>3, <1>7, <1>8, <1>9, <1>10 DEF Splices
<1> QED BY <1>11 DEF r, el

(* CDL_PREPEND: CDL_APPEND, and the head moves to x.                       *)
LEMMA CdlPrepend ==
  ASSUME NEW m, NEW a, NEW s, NEW x, IsList(m, a, "CDL", s), IsFresh(x, s)
  PROVE  Splices(m, CDL_PREPEND2(m, a, x), a, "CDL", s, 1, x)
<1> DEFINE n == Len(s)
           q == CDL_APPEND2(m, a, x)
           r == CDL_PREPEND2(m, a, x)
<1>1. n \in Nat /\ a \in Lists
  BY ListReads
<1>2. x \in Cells
  BY DEF IsFresh, Cells
<1>3. Splices(m, q, a, "CDL", s, n + 1, x)
  BY CdlAppend
<1>4. /\ Pred("CDL", s, 1, x) = Pred("CDL", s, n + 1, x)
      /\ Succ(s, 1, x) = Succ(s, n + 1, x)
  BY <1>1 DEF Pred, Succ
<1>5. q \in Mem /\ r = [q EXCEPT !.head[a] = x]
  BY <1>3 DEF Splices, CDL_PREPEND2
<1> HIDE DEF q, r
<1>6. [q EXCEPT !.head[a] = x] \in Mem
  BY <1>1, <1>2, <1>5 DEF Mem
<1>7. r.next = q.next /\ r.prev = q.prev
  BY <1>5 DEF Mem
<1>8. r.head[a] = x /\ \A c \in Lists : c # a => r.head[c] = q.head[c]
  BY <1>1, <1>2, <1>5 DEF Mem
<1>9. \A c \in Lists : c # a => q.head[c] = m.head[c]
  BY <1>3 DEF Splices
<1>10. \A y \in Cells :
         r.next[y] = IF y = x THEN Succ(s, 1, x)
                     ELSE IF y = Pred("CDL", s, 1, x) THEN x ELSE m.next[y]
  BY <1>3, <1>4, <1>7 DEF Splices
<1>11. \A y \in Cells :
         r.prev[y] = IF y = x THEN Pred("CDL", s, 1, x)
                     ELSE IF y = Succ(s, 1, x) THEN x ELSE m.prev[y]
  BY <1>3, <1>4, <1>7 DEF Splices
<1>12. Splices(m, r, a, "CDL", s, 1, x)
  BY <1>5, <1>6, <1>8, <1>9, <1>10, <1>11 DEF Splices
<1> QED BY <1>12 DEF r

(* What free() leaves of an element's fields.                              *)
LEMMA FreedReads ==
  ASSUME NEW m \in Mem, NEW x \in Cells
  PROVE  /\ Freed(m, x) \in Mem
         /\ Freed(m, x).head = m.head
         /\ \A y \in Cells : Freed(m, x).next[y] = IF y = x THEN JUNK ELSE m.next[y]
         /\ \A y \in Cells : Freed(m, x).prev[y] = IF y = x THEN JUNK ELSE m.prev[y]
<1> DEFINE e == [m EXCEPT !.next[x] = JUNK, !.prev[x] = JUNK, !.key[x] = JUNK]
<1>1. Freed(m, x) = e
  BY DEF Freed
<1>2. JUNK \in Cells
  BY DEF Cells
<1>3. e \in Mem
  BY <1>2 DEF Mem
<1>4. e.head = m.head
  BY DEF Mem
<1>5. \A y \in Cells : e.next[y] = IF y = x THEN JUNK ELSE m.next[y]
  BY <1>2 DEF Mem
<1>6. \A y \in Cells : e.prev[y] = IF y = x THEN JUNK ELSE m.prev[y]
  BY <1>2 DEF Mem
<1> QED BY <1>1, <1>3, <1>4, <1>5, <1>6

(* An element is its own neighbour only when it is alone.                  *)
LEMMA Neighbours ==
  ASSUME NEW s, NEW p \in 1 .. Len(s), Len(s) \in Nat, Distinct(s)
  PROVE  /\ Len(s) > 1 => (IF p > 1 THEN s[p - 1] ELSE s[Len(s)]) # s[p]
         /\ Len(s) > 1 => (IF p < Len(s) THEN s[p + 1] ELSE s[1]) # s[p]
<1> DEFINE i == IF p > 1 THEN p - 1 ELSE Len(s)
           j == IF p < Len(s) THEN p + 1 ELSE 1
<1>1. i \in 1 .. Len(s) /\ (Len(s) > 1 => i # p)
  OBVIOUS
<1>2. j \in 1 .. Len(s) /\ (Len(s) > 1 => j # p)
  OBVIOUS
<1>3. s[i] = IF p > 1 THEN s[p - 1] ELSE s[Len(s)]
  OBVIOUS
<1>4. s[j] = IF p < Len(s) THEN s[p + 1] ELSE s[1]
  OBVIOUS
<1> HIDE DEF i, j
<1>5. (i # p => s[i] # s[p]) /\ (j # p => s[j] # s[p])
  BY <1>1, <1>2 DEF Distinct
<1> QED BY <1>1, <1>2, <1>3, <1>4, <1>5

(* DL_DELETE: the only element, the head, or one behind it.                *)
LEMMA DlDelete ==
  ASSUME NEW m, NEW a, NEW s, NEW p \in 1 .. Len(s),
         IsList(m, a, "DL", s)
  PROVE  Unlinks(m, Freed(DL_DELETE2(m, a, s[p]), s[p]), a, "DL", s, p)
<1> DEFINE n == Len(s)
           el == s[p]
           f == s[1]
           b == IF p > 1 THEN s[p - 1] ELSE s[n]
           w == IF p < n THEN s[p + 1] ELSE NULL
           g == IF p < n THEN s[p + 1] ELSE s[1]
           d == DL_DELETE2(m, a, el)
           r == Freed(d, el)
<1>1. /\ m \in Mem /\ a \in Lists /\ n \in Nat /\ NULL \in Cells /\ p \in 1 .. n
      /\ m.head \in [Lists -> Cells]
      /\ el \in Cells /\ f \in Cells /\ m.head[a] = f /\ (f = el <=> p = 1)
      /\ b \in Cells /\ m.prev[el] = b
      /\ n > 1 => b # el
      /\ n = 1 => b = el
      /\ w \in Cells /\ g \in Cells /\ m.next[el] = w /\ (w = NULL <=> p = n)
      /\ g = IF w = NULL THEN f ELSE w
      /\ p = 1 /\ n > 1 => w = s[2]
  <2>1. m \in Mem /\ a \in Lists /\ n \in Nat /\ NULL \in Cells /\ p \in 1 .. n
    BY ListReads
  <2>2. m.head \in [Lists -> Cells]
    BY <2>1, ListReads
  <2>3. el \in Cells /\ f \in Cells /\ m.head[a] = f /\ (f = el <=> p = 1)
    BY <2>1, ListReads
  <2>4. b \in Cells /\ m.prev[el] = b
    BY <2>1, ListReads
  <2>5. n > 1 => b # el
    BY <2>1, ListReads, Neighbours DEF IsList
  <2>6. n = 1 => b = el
    BY <2>1, ListReads
  <2>7. w \in Cells /\ g \in Cells /\ m.next[el] = w /\ (w = NULL <=> p = n)
    BY <2>1, ListReads
  <2>8. g = IF w = NULL THEN f ELSE w
    BY <2>1, ListReads
  <2>9. p = 1 /\ n > 1 => w = s[2]
    BY <2>1, ListReads
  <2> QED BY <2>1, <2>2, <2>3, <2>4, <2>5, <2>6, <2>7, <2>8, <2>9
<1>3. /\ Pred("DL", s, p, el) = IF p > 1 THEN b ELSE el
      /\ Succ(s, p + 1, el) = g
  BY <1>1 DEF Pred, Succ
<1>4. CASE n = 1
  <2> HIDE DEF el, f, b, w, g
  <2> DEFINE e == [m EXCEPT !.head[a] = NULL]
  <2>1. d = e
    BY <1>1, <1>4 DEF DL_DELETE2
  <2>2. m \in Mem /\ a \in Lists /\ NULL \in Cells
    BY <1>1, <1>4
  <2>3. e \in Mem
    BY <2>2 DEF Mem
  <2>4. d \in Mem
    BY <2>1, <2>3
  <2>5. d.head[a] = NULL /\ \A c \in Lists : c # a => d.head[c] = m.head[c]
    BY <2>1, <2>2 DEF Mem
  <2>6. \A y \in Cells : d.next[y] = m.next[y]
    BY <2>1, <2>2 DEF Mem
  <2>7. \A y \in Cells : d.prev[y] = m.prev[y]
    BY <2>1, <2>2 DEF Mem
  <2> HIDE DEF d
  <2>8. /\ r \in Mem /\ r.head = d.head
        /\ \A y \in Cells : r.next[y] = IF y = el THEN JUNK ELSE d.next[y]
        /\ \A y \in Cells : r.prev[y] = IF y = el THEN JUNK ELSE d.prev[y]
    <3>1. d \in Mem /\ el \in Cells
      BY <1>1, <2>4
    <3> QED BY <3>1, FreedReads
  <2> HIDE DEF r
  <2>9. Unlinks(m, r, a, "DL", s, p)
    BY <1>1, <1>4, <1>3, <2>5, <2>6, <2>7, <2>8 DEF Unlinks, el
  <2> QED BY <2>9 DEF r, d, el
<1>5. CASE n > 1 /\ p = 1
  <2> HIDE DEF el, f, b, w, g
  <2> DEFINE e == [m EXCEPT !.prev[w] = b, !.head[a] = w]
  <2>1. d = e
    BY <1>1, <1>5 DEF DL_DELETE2
  <2>2. m \in Mem /\ a \in Lists /\ NULL \in Cells /\ b \in Cells
        /\ w \in Cells /\ g \in Cells /\ el \in Cells
    BY <1>1, <1>5
  <2>3. e \in Mem
    BY <2>2 DEF Mem
  <2>4. d \in Mem
    BY <2>1, <2>3
  <2>5. d.head[a] = w /\ \A c \in Lists : c # a => d.head[c] = m.head[c]
    BY <2>1, <2>2 DEF Mem
  <2>6. \A y \in Cells : d.next[y] = m.next[y]
    BY <2>1, <2>2 DEF Mem
  <2>7. \A y \in Cells : d.prev[y] = IF y = w THEN b ELSE m.prev[y]
    BY <2>1, <2>2 DEF Mem
  <2> HIDE DEF d
  <2>8. /\ r \in Mem /\ r.head = d.head
        /\ \A y \in Cells : r.next[y] = IF y = el THEN JUNK ELSE d.next[y]
        /\ \A y \in Cells : r.prev[y] = IF y = el THEN JUNK ELSE d.prev[y]
    <3>1. d \in Mem /\ el \in Cells
      BY <1>1, <2>4
    <3> QED BY <3>1, FreedReads
  <2> HIDE DEF r
  <2>9. Unlinks(m, r, a, "DL", s, p)
    BY <1>1, <1>5, <1>3, <2>5, <2>6, <2>7, <2>8 DEF Unlinks, el
  <2> QED BY <2>9 DEF r, d, el
<1>6. CASE n > 1 /\ p > 1
  <2> HIDE DEF el, f, b, w, g
  <2> DEFINE e == [m EXCEPT !.next[b] = w, !.prev[g] = b]
  <2>1. d = e
    <3>1. m.prev[el] = b /\ b # el
      BY <1>1, <1>6
    <3>2. el # m.head[a]
      BY <1>1, <1>6
    <3>3. m.next[el] = w /\ g = IF w = NULL THEN m.head[a] ELSE w
      BY <1>1, <1>6
    <3> QED BY <3>1, <3>2, <3>3 DEF DL_DELETE2
  <2>2. m \in Mem /\ a \in Lists /\ NULL \in Cells /\ b \in Cells
        /\ w \in Cells /\ g \in Cells /\ el \in Cells
    BY <1>1, <1>6
  <2>3. e \in Mem
    BY <2>2 DEF Mem
  <2>4. d \in Mem
    BY <2>1, <2>3
  <2>5. d.head = m.head
    BY <2>1, <2>2 DEF Mem
  <2>6. \A y \in Cells : d.next[y] = IF y = b THEN w ELSE m.next[y]
    BY <2>1, <2>2 DEF Mem
  <2>7. \A y \in Cells : d.prev[y] = IF y = g THEN b ELSE m.prev[y]
    BY <2>1, <2>2 DEF Mem
  <2> HIDE DEF d
  <2>8. /\ r \in Mem /\ r.head = d.head
        /\ \A y \in Cells : r.next[y] = IF y = el THEN JUNK ELSE d.next[y]
        /\ \A y \in Cells : r.prev[y] = IF y = el THEN JUNK ELSE d.prev[y]
    <3>1. d \in Mem /\ el \in Cells
      BY <1>1, <2>4
    <3> QED BY <3>1, FreedReads
  <2> HIDE DEF r
  <2>9. Unlinks(m, r, a, "DL", s, p)
    BY <1>1, <1>6, <1>3, <2>5, <2>6, <2>7, <2>8 DEF Unlinks, el
  <2> QED BY <2>9 DEF r, d, el
<1>7. n = 1 \/ (n > 1 /\ p = 1) \/ (n > 1 /\ p > 1)
  <2>1. n \in Nat /\ p \in 1 .. n
    BY <1>1
  <2> HIDE DEF n
  <2> QED BY <2>1
<1> QED BY <1>7, <1>4, <1>5, <1>6

(* CDL_DELETE: the only element, or one of several.                        *)
LEMMA CdlDelete ==
  ASSUME NEW m, NEW a, NEW s, NEW p \in 1 .. Len(s),
         IsList(m, a, "CDL", s)
  PROVE  Unlinks(m, Freed(CDL_DELETE2(m, a, s[p]), s[p]), a, "CDL", s, p)
<1> DEFINE n == Len(s)
           el == s[p]
           f == s[1]
           b == IF p > 1 THEN s[p - 1] ELSE s[n]
           w == IF p < n THEN s[p + 1] ELSE s[1]
           d == CDL_DELETE2(m, a, el)
           r == Freed(d, el)
<1>1. /\ m \in Mem /\ a \in Lists /\ n \in Nat /\ NULL \in Cells /\ p \in 1 .. n
      /\ m.head \in [Lists -> Cells]
      /\ el \in Cells /\ f \in Cells /\ m.head[a] = f /\ (f = el <=> p = 1)
      /\ b \in Cells /\ m.prev[el] = b
      /\ n > 1 => b # el
      /\ n = 1 => b = el
      /\ w \in Cells /\ m.next[el] = w
      /\ n > 1 => w # el
      /\ n = 1 => w = el
      /\ p = 1 /\ n > 1 => w = s[2]
  <2>1. m \in Mem /\ a \in Lists /\ n \in Nat /\ NULL \in Cells /\ p \in 1 .. n
    BY ListReads
  <2>2. m.head \in [Lists -> Cells]
    BY <2>1, ListReads
  <2>3. el \in Cells /\ f \in Cells /\ m.head[a] = f /\ (f = el <=> p = 1)
    BY <2>1, ListReads
  <2>4. b \in Cells /\ m.prev[el] = b
    BY <2>1, ListReads
  <2>5. n > 1 => b # el
    BY <2>1, ListReads, Neighbours DEF IsList
  <2>6. n = 1 => b = el
    BY <2>1, ListReads
  <2>7. w \in Cells /\ m.next[el] = w
    BY <2>1, ListReads
  <2>8. n > 1 => w # el
    BY <2>1, ListReads, Neighbours DEF IsList
  <2>9. n = 1 => w = el
    BY <2>1, ListReads
  <2>10. p = 1 /\ n > 1 => w = s[2]
    BY <2>1, ListReads
  <2> QED BY <2>1, <2>2, <2>3, <2>4, <2>5, <2>6, <2>7, <2>8, <2>9, <2>10
<1>3. /\ Pred("CDL", s, p, el) = b
      /\ Succ(s, p + 1, el) = w
  BY <1>1 DEF Pred, Succ
<1>4. CASE n = 1
  <2> HIDE DEF el, f, b, w
  <2> DEFINE e == [m EXCEPT !.head[a] = NULL]
  <2>1. d = e
    BY <1>1, <1>4 DEF CDL_DELETE2
  <2>2. m \in Mem /\ a \in Lists /\ NULL \in Cells
    BY <1>1, <1>4
  <2>3. e \in Mem
    BY <2>2 DEF Mem
  <2>4. d \in Mem
    BY <2>1, <2>3
  <2>5. d.head[a] = NULL /\ \A c \in Lists : c # a => d.head[c] = m.head[c]
    BY <2>1, <2>2 DEF Mem
  <2>6. \A y \in Cells : d.next[y] = m.next[y]
    BY <2>1, <2>2 DEF Mem
  <2>7. \A y \in Cells : d.prev[y] = m.prev[y]
    BY <2>1, <2>2 DEF Mem
  <2> HIDE DEF d
  <2>8. /\ r \in Mem /\ r.head = d.head
        /\ \A y \in Cells : r.next[y] = IF y = el THEN JUNK ELSE d.next[y]
        /\ \A y \in Cells : r.prev[y] = IF y = el THEN JUNK ELSE d.prev[y]
    <3>1. d \in Mem /\ el \in Cells
      BY <1>1, <2>4
    <3> QED BY <3>1, FreedReads
  <2> HIDE DEF r
  <2>9. Unlinks(m, r, a, "CDL", s, p)
    BY <1>1, <1>4, <1>3, <2>5, <2>6, <2>7, <2>8 DEF Unlinks, el
  <2> QED BY <2>9 DEF r, d, el
<1>5. CASE n > 1
  <2> HIDE DEF el, f, b, w
  <2> DEFINE e == [m EXCEPT !.prev[w] = b, !.next[b] = w, !.head[a] = IF @ = el THEN w ELSE @]
  <2>1. d = e
    BY <1>1, <1>5 DEF CDL_DELETE2
  <2>2. m \in Mem /\ a \in Lists /\ NULL \in Cells /\ b \in Cells
        /\ w \in Cells /\ f \in Cells /\ el \in Cells /\ m.head[a] = f /\ (f = el <=> p = 1)
    BY <1>1, <1>5
  <2>3. e \in Mem
    BY <2>2 DEF Mem
  <2>4. d \in Mem
    BY <2>1, <2>3
  <2>5. d.head[a] = (IF p = 1 THEN w ELSE f) /\ \A c \in Lists : c # a => d.head[c] = m.head[c]
    BY <2>1, <2>2 DEF Mem
  <2>6. \A y \in Cells : d.next[y] = IF y = b THEN w ELSE m.next[y]
    BY <2>1, <2>2 DEF Mem
  <2>7. \A y \in Cells : d.prev[y] = IF y = w THEN b ELSE m.prev[y]
    BY <2>1, <2>2 DEF Mem
  <2> HIDE DEF d
  <2>8. /\ r \in Mem /\ r.head = d.head
        /\ \A y \in Cells : r.next[y] = IF y = el THEN JUNK ELSE d.next[y]
        /\ \A y \in Cells : r.prev[y] = IF y = el THEN JUNK ELSE d.prev[y]
    <3>1. d \in Mem /\ el \in Cells
      BY <1>1, <2>4
    <3> QED BY <3>1, FreedReads
  <2> HIDE DEF r
  <2>9. Unlinks(m, r, a, "CDL", s, p)
    BY <1>1, <1>5, <1>3, <2>5, <2>6, <2>7, <2>8 DEF Unlinks, el
  <2> QED BY <2>9 DEF r, d, el
<1>6. n = 1 \/ n > 1
  <2>1. n \in Nat /\ p \in 1 .. n
    BY <1>1
  <2> HIDE DEF n
  <2> QED BY <2>1
<1> QED BY <1>6, <1>4, <1>5

(* DL_REPLACE_ELEM: the only element, the head, or one behind it.          *)
LEMMA DlReplace ==
  ASSUME NEW m, NEW a, NEW s, NEW p \in 1 .. Len(s), NEW x,
         IsList(m, a, "DL", s), IsFresh(x, s)
  PROVE  Swaps(m, Freed(DL_REPLACE_ELEM2(m, a, s[p], x), s[p]), a, "DL", s, p, x)
<1> DEFINE n == Len(s)
           el == s[p]
           f == s[1]
           b == IF p > 1 THEN s[p - 1] ELSE s[n]
           w == IF p < n THEN s[p + 1] ELSE NULL
           g == IF p < n THEN s[p + 1] ELSE s[1]
           d == DL_REPLACE_ELEM2(m, a, el, x)
           r == Freed(d, el)
<1>1. /\ m \in Mem /\ a \in Lists /\ n \in Nat /\ NULL \in Cells /\ p \in 1 .. n
      /\ m.head \in [Lists -> Cells]
      /\ el \in Cells /\ f \in Cells /\ m.head[a] = f /\ (f = el <=> p = 1)
      /\ b \in Cells /\ m.prev[el] = b
      /\ n > 1 => b # el
      /\ n = 1 => b = el
      /\ w \in Cells /\ g \in Cells /\ m.next[el] = w /\ (w = NULL <=> p = n)
      /\ g = IF w = NULL THEN f ELSE w
      /\ p = 1 /\ n > 1 => w = s[2]
  <2>1. m \in Mem /\ a \in Lists /\ n \in Nat /\ NULL \in Cells /\ p \in 1 .. n
    BY ListReads
  <2>2. m.head \in [Lists -> Cells]
    BY <2>1, ListReads
  <2>3. el \in Cells /\ f \in Cells /\ m.head[a] = f /\ (f = el <=> p = 1)
    BY <2>1, ListReads
  <2>4. b \in Cells /\ m.prev[el] = b
    BY <2>1, ListReads
  <2>5. n > 1 => b # el
    BY <2>1, ListReads, Neighbours DEF IsList
  <2>6. n = 1 => b = el
    BY <2>1, ListReads
  <2>7. w \in Cells /\ g \in Cells /\ m.next[el] = w /\ (w = NULL <=> p = n)
    BY <2>1, ListReads
  <2>8. g = IF w = NULL THEN f ELSE w
    BY <2>1, ListReads
  <2>9. p = 1 /\ n > 1 => w = s[2]
    BY <2>1, ListReads
  <2> QED BY <2>1, <2>2, <2>3, <2>4, <2>5, <2>6, <2>7, <2>8, <2>9
<1>2. x \in Cells /\ x # el /\ x # f /\ x # b /\ x # g
  BY <1>1 DEF IsFresh, Cells
<1>3. /\ Pred("DL", s, p, el) = IF p > 1 THEN b ELSE el
      /\ Succ(s, p + 1, el) = g
  BY <1>1 DEF Pred, Succ
<1>4. CASE n = 1
  <2> HIDE DEF el, f, b, w, g
  <2> DEFINE e == [m EXCEPT !.head[a] = x, !.next[x] = NULL, !.prev[x] = x, !.prev[x] = x]
  <2>1. d = e
    BY <1>1, <1>2, <1>4 DEF DL_REPLACE_ELEM2
  <2>2. m \in Mem /\ a \in Lists /\ NULL \in Cells /\ x \in Cells
    BY <1>1, <1>2, <1>4
  <2>3. e \in Mem
    BY <2>2 DEF Mem
  <2>4. d \in Mem
    BY <2>1, <2>3
  <2>5. d.head[a] = x /\ \A c \in Lists : c # a => d.head[c] = m.head[c]
    BY <2>1, <2>2 DEF Mem
  <2>6. \A y \in Cells : d.next[y] = IF y = x THEN NULL ELSE m.next[y]
    BY <2>1, <2>2 DEF Mem
  <2>7. \A y \in Cells : d.prev[y] = IF y = x THEN x ELSE m.prev[y]
    BY <2>1, <2>2 DEF Mem
  <2> HIDE DEF d
  <2>8. /\ r \in Mem /\ r.head = d.head
        /\ \A y \in Cells : r.next[y] = IF y = el THEN JUNK ELSE d.next[y]
        /\ \A y \in Cells : r.prev[y] = IF y = el THEN JUNK ELSE d.prev[y]
    <3>1. d \in Mem /\ el \in Cells
      BY <1>1, <2>4
    <3> QED BY <3>1, FreedReads
  <2> HIDE DEF r
  <2>9. Swaps(m, r, a, "DL", s, p, x)
    BY <1>1, <1>2, <1>4, <1>3, <2>5, <2>6, <2>7, <2>8 DEF Swaps, el
  <2> QED BY <2>9 DEF r, d, el
<1>5. CASE n > 1 /\ p = 1
  <2> HIDE DEF el, f, b, w, g
  <2> DEFINE e == [m EXCEPT !.head[a] = x, !.next[x] = w, !.prev[x] = b, !.prev[w] = x]
  <2>1. d = e
    <3>1. m.prev[el] = b
      BY <1>1, <1>2, <1>5
    <3>2. el = m.head[a]
      BY <1>1, <1>2, <1>5
    <3>3. m.next[el] = w /\ w # NULL
      BY <1>1, <1>2, <1>5
    <3> QED BY <3>1, <3>2, <3>3 DEF DL_REPLACE_ELEM2
  <2>2. m \in Mem /\ a \in Lists /\ NULL \in Cells /\ x \in Cells /\ b \in Cells
        /\ w \in Cells /\ g \in Cells /\ el \in Cells /\ x # w
    BY <1>1, <1>2, <1>5
  <2>3. e \in Mem
    BY <2>2 DEF Mem
  <2>4. d \in Mem
    BY <2>1, <2>3
  <2>5. d.head[a] = x /\ \A c \in Lists : c # a => d.head[c] = m.head[c]
    BY <2>1, <2>2 DEF Mem
  <2>6. \A y \in Cells : d.next[y] = IF y = x THEN w ELSE m.next[y]
    BY <2>1, <2>2 DEF Mem
  <2>7. \A y \in Cells : d.prev[y] = IF y = x THEN b ELSE IF y = w THEN x ELSE m.prev[y]
    BY <2>1, <2>2 DEF Mem
  <2> HIDE DEF d
  <2>8. /\ r \in Mem /\ r.head = d.head
        /\ \A y \in Cells : r.next[y] = IF y = el THEN JUNK ELSE d.next[y]
        /\ \A y \in Cells : r.prev[y] = IF y = el THEN JUNK ELSE d.prev[y]
    <3>1. d \in Mem /\ el \in Cells
      BY <1>1, <2>4
    <3> QED BY <3>1, FreedReads
  <2> HIDE DEF r
  <2>9. Swaps(m, r, a, "DL", s, p, x)
    BY <1>1, <1>2, <1>5, <1>3, <2>5, <2>6, <2>7, <2>8 DEF Swaps, el
  <2> QED BY <2>9 DEF r, d, el
<1>6. CASE n > 1 /\ p > 1
  <2> HIDE DEF el, f, b, w, g
  <2> DEFINE e == [m EXCEPT !.next[x] = w, !.prev[x] = b, !.next[b] = x, !.prev[g] = x]
  <2>1. d = e
    <3>1. m.prev[el] = b
      BY <1>1, <1>2, <1>6
    <3>2. el # m.head[a]
      BY <1>1, <1>2, <1>6
    <3>3. m.next[el] = w /\ g = IF w = NULL THEN m.head[a] ELSE w
      BY <1>1, <1>2, <1>6
    <3> QED BY <3>1, <3>2, <3>3 DEF DL_REPLACE_ELEM2
  <2>2. m \in Mem /\ a \in Lists /\ NULL \in Cells /\ x \in Cells /\ b \in Cells
        /\ w \in Cells /\ g \in Cells /\ el \in Cells /\ x # b /\ x # g
    BY <1>1, <1>2, <1>6
  <2>3. e \in Mem
    BY <2>2 DEF Mem
  <2>4. d \in Mem
    BY <2>1, <2>3
  <2>5. d.head = m.head
    BY <2>1, <2>2 DEF Mem
  <2>6. \A y \in Cells : d.next[y] = IF y = x THEN w ELSE IF y = b THEN x ELSE m.next[y]
    BY <2>1, <2>2 DEF Mem
  <2>7. \A y \in Cells : d.prev[y] = IF y = x THEN b ELSE IF y = g THEN x ELSE m.prev[y]
    BY <2>1, <2>2 DEF Mem
  <2> HIDE DEF d
  <2>8. /\ r \in Mem /\ r.head = d.head
        /\ \A y \in Cells : r.next[y] = IF y = el THEN JUNK ELSE d.next[y]
        /\ \A y \in Cells : r.prev[y] = IF y = el THEN JUNK ELSE d.prev[y]
    <3>1. d \in Mem /\ el \in Cells
      BY <1>1, <2>4
    <3> QED BY <3>1, FreedReads
  <2> HIDE DEF r
  <2>9. Swaps(m, r, a, "DL", s, p, x)
    BY <1>1, <1>2, <1>6, <1>3, <2>5, <2>6, <2>7, <2>8 DEF Swaps, el
  <2> QED BY <2>9 DEF r, d, el
<1>7. n = 1 \/ (n > 1 /\ p = 1) \/ (n > 1 /\ p > 1)
  <2>1. n \in Nat /\ p \in 1 .. n
    BY <1>1
  <2> HIDE DEF n
  <2> QED BY <2>1
<1> QED BY <1>7, <1>4, <1>5, <1>6

(* CDL_REPLACE_ELEM: the only element, or one of several.                  *)
LEMMA CdlReplace ==
  ASSUME NEW m, NEW a, NEW s, NEW p \in 1 .. Len(s), NEW x,
         IsList(m, a, "CDL", s), IsFresh(x, s)
  PROVE  Swaps(m, Freed(CDL_REPLACE_ELEM2(m, a, s[p], x), s[p]), a, "CDL", s, p, x)
<1> DEFINE n == Len(s)
           el == s[p]
           f == s[1]
           b == IF p > 1 THEN s[p - 1] ELSE s[n]
           w == IF p < n THEN s[p + 1] ELSE s[1]
           d == CDL_REPLACE_ELEM2(m, a, el, x)
           r == Freed(d, el)
<1>1. /\ m \in Mem /\ a \in Lists /\ n \in Nat /\ NULL \in Cells /\ p \in 1 .. n
      /\ m.head \in [Lists -> Cells]
      /\ el \in Cells /\ f \in Cells /\ m.head[a] = f /\ (f = el <=> p = 1)
      /\ b \in Cells /\ m.prev[el] = b
      /\ n > 1 => b # el
      /\ n = 1 => b = el
      /\ w \in Cells /\ m.next[el] = w
      /\ n > 1 => w # el
      /\ n = 1 => w = el
      /\ p = 1 /\ n > 1 => w = s[2]
  <2>1. m \in Mem /\ a \in Lists /\ n \in Nat /\ NULL \in Cells /\ p \in 1 .. n
    BY ListReads
  <2>2. m.head \in [Lists -> Cells]
    BY <2>1, ListReads
  <2>3. el \in Cells /\ f \in Cells /\ m.head[a] = f /\ (f = el <=> p = 1)
    BY <2>1, ListReads
  <2>4. b \in Cells /\ m.prev[el] = b
    BY <2>1, ListReads
  <2>5. n > 1 => b # el
    BY <2>1, ListReads, Neighbours DEF IsList
  <2>6. n = 1 => b = el
    BY <2>1, ListReads
  <2>7. w \in Cells /\ m.next[el] = w
    BY <2>1, ListReads
  <2>8. n > 1 => w # el
    BY <2>1, ListReads, Neighbours DEF IsList
  <2>9. n = 1 => w = el
    BY <2>1, ListReads
  <2>10. p = 1 /\ n > 1 => w = s[2]
    BY <2>1, ListReads
  <2> QED BY <2>1, <2>2, <2>3, <2>4, <2>5, <2>6, <2>7, <2>8, <2>9, <2>10
<1>2. x \in Cells /\ x # el /\ x # f /\ x # b /\ x # w
  BY <1>1 DEF IsFresh, Cells
<1>3. /\ Pred("CDL", s, p, el) = b
      /\ Succ(s, p + 1, el) = w
  BY <1>1 DEF Pred, Succ
<1>4. CASE n = 1
  <2> HIDE DEF el, f, b, w
  <2> DEFINE e == [m EXCEPT !.next[x] = x, !.prev[x] = x, !.head[a] = x]
  <2>1. d = e
    BY <1>1, <1>2, <1>4 DEF CDL_REPLACE_ELEM2
  <2>2. m \in Mem /\ a \in Lists /\ NULL \in Cells /\ x \in Cells
    BY <1>1, <1>2, <1>4
  <2>3. e \in Mem
    BY <2>2 DEF Mem
  <2>4. d \in Mem
    BY <2>1, <2>3
  <2>5. d.head[a] = x /\ \A c \in Lists : c # a => d.head[c] = m.head[c]
    BY <2>1, <2>2 DEF Mem
  <2>6. \A y \in Cells : d.next[y] = IF y = x THEN x ELSE m.next[y]
    BY <2>1, <2>2 DEF Mem
  <2>7. \A y \in Cells : d.prev[y] = IF y = x THEN x ELSE m.prev[y]
    BY <2>1, <2>2 DEF Mem
  <2> HIDE DEF d
  <2>8. /\ r \in Mem /\ r.head = d.head
        /\ \A y \in Cells : r.next[y] = IF y = el THEN JUNK ELSE d.next[y]
        /\ \A y \in Cells : r.prev[y] = IF y = el THEN JUNK ELSE d.prev[y]
    <3>1. d \in Mem /\ el \in Cells
      BY <1>1, <2>4
    <3> QED BY <3>1, FreedReads
  <2> HIDE DEF r
  <2>9. Swaps(m, r, a, "CDL", s, p, x)
    BY <1>1, <1>2, <1>4, <1>3, <2>5, <2>6, <2>7, <2>8 DEF Swaps, el
  <2> QED BY <2>9 DEF r, d, el
<1>5. CASE n > 1
  <2> HIDE DEF el, f, b, w
  <2> DEFINE e == [m EXCEPT !.next[x] = w, !.prev[x] = b, !.prev[w] = x, !.next[b] = x,
                            !.head[a] = IF @ = el THEN x ELSE @]
  <2>1. d = e
    <3>1. m.prev[el] = b
      BY <1>1, <1>2, <1>5
    <3>2. m.next[el] = w /\ w # el
      BY <1>1, <1>2, <1>5
    <3> QED BY <3>1, <3>2 DEF CDL_REPLACE_ELEM2
  <2>2. m \in Mem /\ a \in Lists /\ NULL \in Cells /\ x \in Cells /\ b \in Cells
        /\ w \in Cells /\ f \in Cells /\ el \in Cells /\ m.head[a] = f /\ (f = el <=> p = 1)
        /\ x # w /\ x # b
    BY <1>1, <1>2, <1>5
  <2>3. e \in Mem
    BY <2>2 DEF Mem
  <2>4. d \in Mem
    BY <2>1, <2>3
  <2>5. d.head[a] = (IF p = 1 THEN x ELSE f) /\ \A c \in Lists : c # a => d.head[c] = m.head[c]
    BY <2>1, <2>2 DEF Mem
  <2>6. \A y \in Cells : d.next[y] = IF y = x THEN w ELSE IF y = b THEN x ELSE m.next[y]
    BY <2>1, <2>2 DEF Mem
  <2>7. \A y \in Cells : d.prev[y] = IF y = x THEN b ELSE IF y = w THEN x ELSE m.prev[y]
    BY <2>1, <2>2 DEF Mem
  <2> HIDE DEF d
  <2>8. /\ r \in Mem /\ r.head = d.head
        /\ \A y \in Cells : r.next[y] = IF y = el THEN JUNK ELSE d.next[y]
        /\ \A y \in Cells : r.prev[y] = IF y = el THEN JUNK ELSE d.prev[y]
    <3>1. d \in Mem /\ el \in Cells
      BY <1>1, <2>4
    <3> QED BY <3>1, FreedReads
  <2> HIDE DEF r
  <2>9. Swaps(m, r, a, "CDL", s, p, x)
    BY <1>1, <1>2, <1>5, <1>3, <2>5, <2>6, <2>7, <2>8 DEF Swaps, el
  <2> QED BY <2>9 DEF r, d, el
<1>6. n = 1 \/ n > 1
  <2>1. n \in Nat /\ p \in 1 .. n
    BY <1>1
  <2> HIDE DEF n
  <2> QED BY <2>1
<1> QED BY <1>6, <1>4, <1>5

-----------------------------------------------------------------------------
(* x is one of the elements of s.                                          *)
In(x, s) == \E i \in 1 .. Len(s) : s[i] = x

(* An insertion adds x to the elements,                                    *)
LEMMA InsertElements ==
  ASSUME NEW s \in Seq(Elem), NEW p \in 1 .. Len(s) + 1, NEW x \in Elem,
         Distinct(s), ~In(x, s)
  PROVE  LET t == InsertAt(s, p, x)
         IN /\ t \in Seq(Elem) /\ Distinct(t)
            /\ \A y : In(y, t) <=> In(y, s) \/ y = x
<1> DEFINE t == InsertAt(s, p, x)
           n == Len(s)
<1>1. n \in Nat /\ p \in 1 .. n + 1
  OBVIOUS
<1>2. IsInsert(t, s, p, x)
  BY InsertAtIs
<1> HIDE DEF t
<1>3. t \in Seq(Elem) /\ Len(t) = n + 1 /\ t[p] = x
  BY <1>2 DEF IsInsert
<1>4. \A i \in 1 .. n : t[IF i < p THEN i ELSE i + 1] = s[i]
  BY <1>2 DEF IsInsert
<1>5. \A i \in 1 .. n + 1 : t[i] = IF i < p THEN s[i] ELSE IF i = p THEN x ELSE s[i - 1]
  BY <1>2, <1>3 DEF IsInsert
<1>6. \A i \in 1 .. n : s[i] # x
  BY DEF In
<1>7. \A i, j \in 1 .. n : s[i] = s[j] => i = j
  BY DEF Distinct
<1> HIDE DEF n
<1>8. ASSUME NEW i \in 1 .. n + 1
      PROVE  i # p => \E j \in 1 .. n : t[i] = s[j] /\ i = IF j < p THEN j ELSE j + 1
  <2>1. CASE i < p
    <3>1. i \in 1 .. n /\ t[i] = s[i]
      BY <1>1, <1>5, <2>1
    <3> QED BY <2>1, <3>1
  <2>2. CASE i > p
    <3> DEFINE j == i - 1
    <3>1. j \in 1 .. n /\ t[i] = s[j] /\ ~(j < p) /\ i = j + 1
      BY <1>1, <1>5, <2>2
    <3> QED BY <3>1
  <2> QED BY <1>1, <2>1, <2>2
<1>9. Distinct(t)
  <2> SUFFICES ASSUME NEW i \in 1 .. n + 1, NEW j \in 1 .. n + 1, t[i] = t[j]
               PROVE  i = j
    BY <1>3 DEF Distinct
  <2>1. CASE i = p /\ j = p
    BY <2>1
  <2>2. CASE i # p /\ j = p
    BY <1>3, <1>6, <1>8, <2>2
  <2>3. CASE i = p /\ j # p
    BY <1>3, <1>6, <1>8, <2>3
  <2>4. CASE i # p /\ j # p
    <3>1. PICK k \in 1 .. n : t[i] = s[k] /\ i = IF k < p THEN k ELSE k + 1
      BY <1>8, <2>4
    <3>2. PICK l \in 1 .. n : t[j] = s[l] /\ j = IF l < p THEN l ELSE l + 1
      BY <1>8, <2>4
    <3>3. k = l
      BY <1>7, <3>1, <3>2
    <3> QED BY <3>1, <3>2, <3>3
  <2> QED BY <2>1, <2>2, <2>3, <2>4
<1>10. ASSUME NEW y PROVE In(y, t) => In(y, s) \/ y = x
  BY <1>3, <1>8 DEF In, n
<1>11. ASSUME NEW y PROVE In(y, s) => In(y, t)
  <2> SUFFICES ASSUME In(y, s) PROVE In(y, t)
    OBVIOUS
  <2>1. PICK i \in 1 .. n : s[i] = y
    BY DEF In, n
  <2> DEFINE j == IF i < p THEN i ELSE i + 1
  <2>2. j \in 1 .. n + 1 /\ t[j] = y
    BY <1>1, <1>4, <2>1
  <2> HIDE DEF j
  <2> QED BY <1>3, <2>2 DEF In
<1>12. In(x, t)
  BY <1>1, <1>3 DEF In
<1> QED BY <1>3, <1>9, <1>10, <1>11, <1>12 DEF t

(* a removal takes one of them away,                                       *)
LEMMA RemoveElements ==
  ASSUME NEW s \in Seq(Elem), NEW p \in 1 .. Len(s), Distinct(s)
  PROVE  LET t == RemoveAt(s, p)
         IN /\ t \in Seq(Elem) /\ Distinct(t)
            /\ \A y : In(y, t) <=> In(y, s) /\ y # s[p]
<1> DEFINE t == RemoveAt(s, p)
           n == Len(s)
<1>1. n \in Nat /\ p \in 1 .. n
  OBVIOUS
<1>2. IsRemove(t, s, p)
  BY RemoveAtIs
<1> HIDE DEF t
<1>3. t \in Seq(Elem) /\ Len(t) = n - 1
  BY <1>2 DEF IsRemove
<1>4. \A i \in 1 .. n - 1 : t[i] = s[IF i < p THEN i ELSE i + 1]
  BY <1>2, <1>3 DEF IsRemove
<1>5. \A i, j \in 1 .. n : s[i] = s[j] => i = j
  BY DEF Distinct
<1> HIDE DEF n
<1>6. ASSUME NEW i \in 1 .. n - 1
      PROVE  \E j \in 1 .. n : t[i] = s[j] /\ j # p /\ j = IF i < p THEN i ELSE i + 1
  <2> DEFINE j == IF i < p THEN i ELSE i + 1
  <2>1. j \in 1 .. n /\ j # p
    BY <1>1
  <2>2. t[i] = s[j]
    BY <1>4
  <2> QED BY <2>1, <2>2
<1>7. Distinct(t)
  <2> SUFFICES ASSUME NEW i \in 1 .. n - 1, NEW j \in 1 .. n - 1, t[i] = t[j]
               PROVE  i = j
    BY <1>3 DEF Distinct
  <2>1. PICK k \in 1 .. n : t[i] = s[k] /\ k = IF i < p THEN i ELSE i + 1
    BY <1>6
  <2>2. PICK l \in 1 .. n : t[j] = s[l] /\ l = IF j < p THEN j ELSE j + 1
    BY <1>6
  <2>3. k = l
    BY <1>5, <2>1, <2>2
  <2> QED BY <1>1, <2>1, <2>2, <2>3
<1>8. ASSUME NEW y PROVE In(y, t) => In(y, s) /\ y # s[p]
  BY <1>1, <1>3, <1>5, <1>6 DEF In, n
<1>9. ASSUME NEW y PROVE In(y, s) /\ y # s[p] => In(y, t)
  <2> SUFFICES ASSUME In(y, s), y # s[p] PROVE In(y, t)
    OBVIOUS
  <2>1. PICK i \in 1 .. n : s[i] = y /\ i # p
    BY DEF In, n
  <2> DEFINE j == IF i < p THEN i ELSE i - 1
  <2>2. j \in 1 .. n - 1 /\ i = IF j < p THEN j ELSE j + 1
    BY <1>1, <2>1
  <2> HIDE DEF j
  <2>3. t[j] = y
    BY <1>4, <2>1, <2>2
  <2> QED BY <1>3, <2>2, <2>3 DEF In
<1> QED BY <1>3, <1>7, <1>8, <1>9 DEF t

(* and an exchange does both.                                              *)
LEMMA ReplaceElements ==
  ASSUME NEW s \in Seq(Elem), NEW p \in 1 .. Len(s), NEW x \in Elem,
         Distinct(s), ~In(x, s)
  PROVE  LET t == ReplaceAt(s, p, x)
         IN /\ t \in Seq(Elem) /\ Distinct(t)
            /\ \A y : In(y, t) <=> (In(y, s) /\ y # s[p]) \/ y = x
<1> DEFINE t == ReplaceAt(s, p, x)
           n == Len(s)
<1>1. n \in Nat /\ p \in 1 .. n
  OBVIOUS
<1>2. t \in Seq(Elem) /\ Len(t) = n
  BY DEF ReplaceAt
<1>3. \A i \in 1 .. n : t[i] = IF i = p THEN x ELSE s[i]
  BY DEF ReplaceAt
<1> HIDE DEF t
<1>4. \A i, j \in 1 .. n : s[i] = s[j] => i = j
  BY DEF Distinct
<1>5. \A i \in 1 .. n : s[i] # x
  BY DEF In
<1>6. Distinct(t)
  BY <1>2, <1>3, <1>4, <1>5 DEF Distinct
<1>7. ASSUME NEW y PROVE In(y, t) <=> (In(y, s) /\ y # s[p]) \/ y = x
  BY <1>1, <1>2, <1>3, <1>4, <1>5 DEF In
<1> QED BY <1>2, <1>6, <1>7 DEF t

(* A list whose elements are not written stays the list it is.             *)
LEMMA ChainFrame ==
  ASSUME NEW hd, NEW nx, NEW pv, NEW nx2, NEW pv2, NEW k, NEW s,
         Chain(hd, nx, pv, k, s),
         \A i \in 1 .. Len(s) : nx2[s[i]] = nx[s[i]] /\ pv2[s[i]] = pv[s[i]]
  PROVE  Chain(hd, nx2, pv2, k, s)
BY DEF Chain

(***************************************************************************)
(* The inductive invariant: the links are the two sequences, and each      *)
(* element is at most once in either.                                      *)
(***************************************************************************)
LinksInv ==
  /\ kind \in {"DL", "CDL"} /\ lst \in Mem
  /\ \A a \in Lists : seqs[a] \in Seq(Elem) /\ Distinct(seqs[a])
  /\ seqs = [a \in Lists |-> seqs[a]]
  /\ \A y : ~(In(y, seqs[1]) /\ In(y, seqs[2]))
  /\ \A a \in Lists : Chain(lst.head[a], lst.next, lst.prev, kind, seqs[a])
  /\ \A y \in Elem : (\A a \in Lists : ~In(y, seqs[a])) => lst.next[y] = JUNK /\ lst.prev[y] = JUNK
  /\ NoStrayWrite(lst.next) /\ NoStrayWrite(lst.prev)

(* The elements in use are those of the lists.                             *)
LEMMA InUseIs ==
  ASSUME \A a \in Lists : seqs[a] \in Seq(Elem), NEW y
  PROVE  y \in InUse <=> \E a \in Lists : In(y, seqs[a])
<1>1. \A a \in Lists : y \in ToSet(seqs[a]) <=> In(y, seqs[a])
  BY DEF ToSet, In
<1> QED BY <1>1 DEF InUse, Lists

(* The invariant gives the property.                                       *)
LEMMA LinksInvFaithful ==
  ASSUME LinksInv
  PROVE  LinksFaithful
<1>1. \A a \in Lists : Linked(a, seqs[a])
  BY DEF LinksInv, Chain, Linked
<1>2. \A y \in Elem \ InUse : lst.next[y] = JUNK /\ lst.prev[y] = JUNK
  BY InUseIs DEF LinksInv
<1>3. NoStrayWrite(lst.next) /\ NoStrayWrite(lst.prev)
  BY DEF LinksInv
<1> QED BY <1>1, <1>2, <1>3 DEF LinksFaithful

(* Two empty lists.                                                        *)
LEMMA LinksInit ==
  ASSUME ListInit, kind # "LL"
  PROVE  LinksInv
<1>1. \A a \in Lists : seqs[a] = <<>>
  BY DEF ListInit
<1>2. seqs = [a \in Lists |-> seqs[a]]
  BY DEF ListInit
<1>3. \A a \in Lists : seqs[a] \in Seq(Elem) /\ Distinct(seqs[a]) /\ \A y : ~In(y, seqs[a])
  <2>1. <<>> \in Seq(Elem) /\ Len(<<>>) = 0
    OBVIOUS
  <2>2. Distinct(<<>>)
    BY <2>1 DEF Distinct
  <2>3. \A y : ~In(y, <<>>)
    BY <2>1 DEF In
  <2> QED BY <1>1, <2>1, <2>2, <2>3
<1>4. \A a \in Lists : lst.head[a] = NULL
  BY DEF ListInit
<1>5. \A y \in Cells : lst.next[y] = JUNK /\ lst.prev[y] = JUNK
  BY DEF ListInit, Blank
<1>6. lst \in Mem
  BY DEF ListInit, Blank, Mem, Cells
<1>7. \A a \in Lists : Chain(lst.head[a], lst.next, lst.prev, kind, seqs[a])
  BY <1>1, <1>4 DEF Chain
<1>8. NULL \in Cells /\ JUNK \in Cells /\ Elem \subseteq Cells
  BY DEF Cells
<1>9. NoStrayWrite(lst.next) /\ NoStrayWrite(lst.prev)
  BY <1>5, <1>8 DEF NoStrayWrite
<1>10. kind \in {"DL", "CDL"}
  BY DEF ListInit, Kinds
<1>11. \A y \in Elem : lst.next[y] = JUNK /\ lst.prev[y] = JUNK
  BY <1>5, <1>8
<1>12. 1 \in Lists
  BY DEF Lists
<1> QED BY <1>2, <1>3, <1>6, <1>7, <1>9, <1>10, <1>11, <1>12 DEF LinksInv

(* A macro that turns list a into t, after which the elements that left it *)
(* are freed.                                                              *)
LEMMA BecomesKeeps ==
  ASSUME LinksInv, NEW m, NEW a \in Lists, NEW t, NEW x \in Elem,
         m.head = lst.head, m.next = lst.next, m.prev = lst.prev,
         Becomes(m, lst', a, kind, seqs[a], t, x),
         t \in Seq(Elem), Distinct(t),
         \A y : In(y, t) => In(y, seqs[a]) \/ y = x,
         \A c \in Lists : c # a => ~In(x, seqs[c]),
         \A y \in Elem : (In(y, seqs[a]) \/ y = x) /\ ~In(y, t)
                           => lst'.next[y] = JUNK /\ lst'.prev[y] = JUNK,
         seqs' = [seqs EXCEPT ![a] = t], kind' = kind
  PROVE  LinksInv'
<1>1. seqs'[a] = t /\ \A c \in Lists : c # a => seqs'[c] = seqs[c]
  BY DEF LinksInv
<1>2. seqs' = [c \in Lists |-> seqs'[c]]
  BY DEF LinksInv
<1>3. kind' \in {"DL", "CDL"} /\ lst' \in Mem
  BY DEF LinksInv, Becomes
<1>4. \A c \in Lists : seqs'[c] \in Seq(Elem) /\ Distinct(seqs'[c])
  BY <1>1 DEF LinksInv
<1>5. \A y : ~(In(y, seqs'[1]) /\ In(y, seqs'[2]))
  <2> SUFFICES ASSUME NEW y, In(y, seqs'[1]), In(y, seqs'[2])
               PROVE  FALSE
    OBVIOUS
  <2>1. ~(In(y, seqs[1]) /\ In(y, seqs[2]))
    BY DEF LinksInv
  <2>2. CASE a = 1
    BY <1>1, <2>1, <2>2 DEF Lists
  <2>3. CASE a = 2
    BY <1>1, <2>1, <2>3 DEF Lists
  <2> QED BY <2>2, <2>3 DEF Lists
<1>6. \A y \in Cells : (y # x /\ ~In(y, seqs[a])) =>
                         lst'.next[y] = lst.next[y] /\ lst'.prev[y] = lst.prev[y]
  BY DEF Becomes, In
<1>7. \A c \in Lists : Chain(lst'.head[c], lst'.next, lst'.prev, kind, seqs'[c])
  <2> SUFFICES ASSUME NEW c \in Lists
               PROVE  Chain(lst'.head[c], lst'.next, lst'.prev, kind, seqs'[c])
    OBVIOUS
  <2>1. CASE c = a
    BY <1>1, <2>1 DEF Becomes
  <2>2. CASE c # a
    <3> DEFINE s == seqs[c]
               h == lst.head[c]
               nx == lst.next
               pv == lst.prev
               nx2 == lst'.next
               pv2 == lst'.prev
    <3>1. Chain(h, nx, pv, kind, s) /\ s \in Seq(Elem)
      BY DEF LinksInv
    <3>2. lst'.head[c] = h /\ seqs'[c] = s
      BY <1>1, <2>2 DEF Becomes
    <3>3. ASSUME NEW i \in 1 .. Len(s)
          PROVE  nx2[s[i]] = nx[s[i]] /\ pv2[s[i]] = pv[s[i]]
      <4>1. s[i] \in Elem /\ s[i] \in Cells
        BY <3>1 DEF Cells
      <4>2. In(s[i], s)
        BY DEF In
      <4>3. s[i] # x
        BY <2>2, <4>2
      <4>4. ~In(s[i], seqs[a])
        <5>1. ~(In(s[i], seqs[1]) /\ In(s[i], seqs[2]))
          BY DEF LinksInv
        <5> QED BY <2>2, <4>2, <5>1 DEF Lists
      <4> QED BY <1>6, <4>1, <4>3, <4>4
    <3> HIDE DEF s, h, nx, pv, nx2, pv2
    <3>4. Chain(h, nx2, pv2, kind, s)
      BY <3>1, <3>3, ChainFrame
    <3> QED BY <3>2, <3>4 DEF nx2, pv2
  <2> QED BY <2>1, <2>2
<1>8. ASSUME NEW y \in Elem, \A c \in Lists : ~In(y, seqs'[c])
      PROVE  lst'.next[y] = JUNK /\ lst'.prev[y] = JUNK
  <2>1. CASE In(y, seqs[a]) \/ y = x
    BY <1>1, <1>8, <2>1
  <2>2. CASE ~(In(y, seqs[a]) \/ y = x)
    <3>1. \A c \in Lists : ~In(y, seqs[c])
      BY <1>1, <1>8, <2>2
    <3>2. lst.next[y] = JUNK /\ lst.prev[y] = JUNK
      BY <3>1 DEF LinksInv
    <3>3. y \in Cells
      BY DEF Cells
    <3> QED BY <1>6, <2>2, <3>2, <3>3
  <2> QED BY <2>1, <2>2
<1>9. NoStrayWrite(lst'.next) /\ NoStrayWrite(lst'.prev)
  <2>1. seqs[a] \in Seq(Elem) /\ NoStrayWrite(lst.next) /\ NoStrayWrite(lst.prev)
    BY DEF LinksInv
  <2>2. \A y : In(y, seqs[a]) => y \in Elem
    BY <2>1 DEF In
  <2>3. /\ NULL \in Cells /\ JUNK \in Cells /\ NULL # x /\ JUNK # x
        /\ ~In(NULL, seqs[a]) /\ ~In(JUNK, seqs[a])
    BY <2>2, CellAssumption DEF Cells
  <2> QED BY <1>6, <2>1, <2>3 DEF NoStrayWrite
<1> QED BY <1>2, <1>3, <1>4, <1>5, <1>7, <1>8, <1>9 DEF LinksInv

(* What a new element finds: a list record whose key field alone differs.  *)
LEMMA KeyWrite ==
  ASSUME LinksInv, NEW x \in Elem, NEW k \in ListKeys, NEW a \in Lists, ~In(x, seqs[a])
  PROVE  LET m == [lst EXCEPT !.key[x] = k]
         IN /\ m.head = lst.head /\ m.next = lst.next /\ m.prev = lst.prev
            /\ IsList(m, a, kind, seqs[a]) /\ IsFresh(x, seqs[a])
<1> DEFINE m == [lst EXCEPT !.key[x] = k]
<1>1. lst \in Mem /\ x \in Cells
  BY DEF LinksInv, Cells
<1>2. m \in Mem
  BY <1>1 DEF Mem
<1>3. m.head = lst.head /\ m.next = lst.next /\ m.prev = lst.prev
  BY <1>1 DEF Mem
<1> HIDE DEF m
<1>4. IsList(m, a, kind, seqs[a])
  BY <1>2, <1>3 DEF LinksInv, IsList
<1>5. IsFresh(x, seqs[a])
  BY DEF IsFresh, In
<1> QED BY <1>3, <1>4, <1>5 DEF m

(* What malloc() returns is in neither list.                               *)
LEMMA MallocIsFresh ==
  ASSUME LinksInv, NEW x \in Malloc(InUse)
  PROVE  x \in Elem /\ \A a \in Lists : ~In(x, seqs[a])
<1>1. x \in Elem /\ x \notin InUse
  BY DEF Malloc
<1>2. \A a \in Lists : seqs[a] \in Seq(Elem)
  BY DEF LinksInv
<1> QED BY <1>1, <1>2, InUseIs

(* Any insertion that a macro makes.                                       *)
LEMMA PutKeeps ==
  ASSUME LinksInv, NEW a \in Lists, NEW x \in Elem, NEW k \in ListKeys, NEW p, NEW m, NEW r,
         \A c \in Lists : ~In(x, seqs[c]),
         m = [lst EXCEPT !.key[x] = k],
         p \in 1 .. Len(seqs[a]) + 1,
         Splices(m, r, a, kind, seqs[a], p, x),
         Put(r, a, p, x)
  PROVE  LinksInv'
<1> DEFINE s == seqs[a]
           t == InsertAt(s, p, x)
<1>1. lst' = r /\ seqs' = [seqs EXCEPT ![a] = t] /\ kind' = kind
  BY DEF Put, LinksInv
<1>2. /\ m.head = lst.head /\ m.next = lst.next /\ m.prev = lst.prev
      /\ IsList(m, a, kind, s) /\ IsFresh(x, s)
  BY KeyWrite
<1>3. s \in Seq(Elem) /\ Distinct(s) /\ ~In(x, s)
  BY DEF LinksInv
<1>4. t \in Seq(Elem) /\ Distinct(t) /\ \A y : In(y, t) <=> In(y, s) \/ y = x
  BY <1>3, InsertElements
<1>5. Becomes(m, r, a, kind, s, t, x)
  BY <1>2, SpliceInserts DEF IsList, IsFresh
<1> HIDE DEF t
<1> QED BY <1>1, <1>2, <1>4, <1>5, BecomesKeeps

(* Each macro that inserts, of either family.                              *)
LEMMA LinkInKeeps ==
  ASSUME LinksInv, NEW a \in Lists, NEW x \in Malloc(InUse), NEW k \in ListKeys, LinkIn(a, x, k)
  PROVE  LinksInv'
<1> DEFINE m == [lst EXCEPT !.key[x] = k]
           s == seqs[a]
           n == Len(s)
<1>1. x \in Elem /\ \A c \in Lists : ~In(x, seqs[c])
  BY MallocIsFresh
<1>2. kind \in {"DL", "CDL"} /\ s \in Seq(Elem) /\ n \in Nat
  BY DEF LinksInv
<1>3. IsList(m, a, kind, s) /\ IsFresh(x, s)
  BY <1>1, KeyWrite
<1>4. \A i \in DOMAIN s : i \in 1 .. n /\ s[i] # NULL
  BY <1>2, CellAssumption
<1> HIDE DEF m
<1>5. CASE Put(Either(DL_PREPEND2(m, a, x), CDL_PREPEND2(m, a, x)), a, 1, x)
  <2> DEFINE r == Either(DL_PREPEND2(m, a, x), CDL_PREPEND2(m, a, x))
  <2>1. Splices(m, r, a, kind, s, 1, x)
    BY <1>2, <1>3, DlPrepend, CdlPrepend DEF Either
  <2>2. 1 \in 1 .. n + 1
    BY <1>2
  <2> HIDE DEF r
  <2> QED BY <1>1, <1>5, <2>1, <2>2, PutKeeps DEF m, r
<1>6. CASE Put(Either(DL_APPEND2(m, a, x), CDL_APPEND2(m, a, x)), a, n + 1, x)
  <2> DEFINE r == Either(DL_APPEND2(m, a, x), CDL_APPEND2(m, a, x))
  <2>1. Splices(m, r, a, kind, s, n + 1, x)
    BY <1>2, <1>3, DlAppend, CdlAppend DEF Either
  <2>2. n + 1 \in 1 .. n + 1
    BY <1>2
  <2> HIDE DEF r
  <2> QED BY <1>1, <1>6, <2>1, <2>2, PutKeeps DEF m, r
<1>7. ASSUME NEW i \in DOMAIN s,
             Put(Either(DL_PREPEND_ELEM2(m, a, s[i], x), CDL_PREPEND_ELEM2(m, a, s[i], x)),
                 a, i, x)
      PROVE  LinksInv'
  <2> DEFINE r == Either(DL_PREPEND_ELEM2(m, a, s[i], x), CDL_PREPEND_ELEM2(m, a, s[i], x))
  <2>1. Splices(m, r, a, kind, s, i, x)
    BY <1>2, <1>3, <1>4, DlPrependElem, CdlPrependElem DEF Either
  <2>2. i \in 1 .. n + 1
    BY <1>2, <1>4
  <2> HIDE DEF r
  <2> QED BY <1>1, <1>7, <2>1, <2>2, PutKeeps DEF m, r
<1>8. ASSUME NEW i \in DOMAIN s,
             Put(Either(DL_APPEND_ELEM2(m, a, s[i], x), CDL_APPEND_ELEM2(m, a, s[i], x)),
                 a, i + 1, x)
      PROVE  LinksInv'
  <2> DEFINE r == Either(DL_APPEND_ELEM2(m, a, s[i], x), CDL_APPEND_ELEM2(m, a, s[i], x))
  <2>1. Splices(m, r, a, kind, s, i + 1, x)
    BY <1>2, <1>3, <1>4, DlAppendElem, CdlAppendElem DEF Either
  <2>2. i + 1 \in 1 .. n + 1
    BY <1>2, <1>4
  <2> HIDE DEF r
  <2> QED BY <1>1, <1>8, <2>1, <2>2, PutKeeps DEF m, r
<1> QED BY <1>5, <1>6, <1>7, <1>8 DEF LinkIn, m

(* DL_REPLACE_ELEM and CDL_REPLACE_ELEM.                                   *)
LEMMA ExchangeKeeps ==
  ASSUME LinksInv, NEW a \in Lists, NEW x \in Malloc(InUse), NEW k \in ListKeys,
         Exchange(a, x, k)
  PROVE  LinksInv'
<1> DEFINE m == [lst EXCEPT !.key[x] = k]
           s == seqs[a]
<1>1. x \in Elem /\ \A c \in Lists : ~In(x, seqs[c])
  BY MallocIsFresh
<1>2. kind \in {"DL", "CDL"} /\ s \in Seq(Elem) /\ Distinct(s)
  BY DEF LinksInv
<1>3. /\ m.head = lst.head /\ m.next = lst.next /\ m.prev = lst.prev
      /\ IsList(m, a, kind, s) /\ IsFresh(x, s)
  BY <1>1, KeyWrite
<1>4. PICK p \in DOMAIN s :
        /\ lst' = Freed(Either(DL_REPLACE_ELEM2(m, a, s[p], x),
                               CDL_REPLACE_ELEM2(m, a, s[p], x)), s[p])
        /\ seqs' = [seqs EXCEPT ![a] = ReplaceAt(s, p, x)]
  BY DEF Exchange, LinksInv
<1>5. kind' = kind
  BY DEF Exchange
<1>6. p \in 1 .. Len(s)
  BY <1>2
<1> HIDE DEF m
<1>7. Swaps(m, lst', a, kind, s, p, x)
  BY <1>2, <1>3, <1>4, <1>6, DlReplace, CdlReplace DEF Either
<1> DEFINE t == ReplaceAt(s, p, x)
<1>8. Becomes(m, lst', a, kind, s, t, x)
  BY <1>3, <1>6, <1>7, SwapReplaces DEF IsList, IsFresh
<1>9. t \in Seq(Elem) /\ Distinct(t) /\ \A y : In(y, t) <=> (In(y, s) /\ y # s[p]) \/ y = x
  BY <1>1, <1>2, <1>6, ReplaceElements
<1>10. s[p] \in Cells /\ lst'.next[s[p]] = JUNK /\ lst'.prev[s[p]] = JUNK
  <2>1. s[p] \in Cells
    BY <1>2, <1>6 DEF Cells
  <2> QED BY <1>7, <2>1 DEF Swaps
<1> HIDE DEF t
<1>11. seqs' = [seqs EXCEPT ![a] = t]
  BY <1>4 DEF t
<1> QED BY <1>1, <1>3, <1>5, <1>8, <1>9, <1>10, <1>11, BecomesKeeps

(* DL_DELETE and CDL_DELETE.                                               *)
LEMMA LinkOutKeeps ==
  ASSUME LinksInv, NEW a \in Lists, LinkOut(a)
  PROVE  LinksInv'
<1> DEFINE s == seqs[a]
<1>1. kind \in {"DL", "CDL"} /\ s \in Seq(Elem) /\ Distinct(s) /\ IsList(lst, a, kind, s)
  BY DEF LinksInv, IsList
<1>2. PICK p \in DOMAIN s :
        /\ lst' = Freed(Either(DL_DELETE2(lst, a, s[p]), CDL_DELETE2(lst, a, s[p])), s[p])
        /\ seqs' = [seqs EXCEPT ![a] = RemoveAt(s, p)]
  BY DEF LinkOut, LinksInv
<1>3. kind' = kind
  BY DEF LinkOut
<1>4. p \in 1 .. Len(s) /\ s[p] \in Elem /\ s[p] \in Cells
  BY <1>1 DEF Cells
<1>5. Unlinks(lst, lst', a, kind, s, p)
  BY <1>1, <1>2, <1>4, DlDelete, CdlDelete DEF Either
<1> DEFINE t == RemoveAt(s, p)
           x == s[p]
<1>6. Becomes(lst, lst', a, kind, s, t, x)
  BY <1>1, <1>4, <1>5, UnlinkRemoves DEF IsList
<1>7. t \in Seq(Elem) /\ Distinct(t) /\ \A y : In(y, t) <=> In(y, s) /\ y # x
  BY <1>1, <1>4, RemoveElements
<1>8. lst'.next[x] = JUNK /\ lst'.prev[x] = JUNK
  BY <1>4, <1>5 DEF Unlinks
<1>9. In(x, s)
  BY <1>4 DEF In
<1>10. \A c \in Lists : c # a => ~In(x, seqs[c])
  <2>1. ~(In(x, seqs[1]) /\ In(x, seqs[2]))
    BY DEF LinksInv
  <2> QED BY <1>9, <2>1 DEF Lists
<1> HIDE DEF t, x
<1>11. seqs' = [seqs EXCEPT ![a] = t]
  BY <1>2 DEF t
<1>12. x \in Elem
  BY <1>4 DEF x
<1> QED BY <1>3, <1>6, <1>7, <1>8, <1>10, <1>11, <1>12, BecomesKeeps

(* What makes one list of s and u must do to the fields.                   *)
LEMMA ConcatChains ==
  ASSUME NEW s \in Seq(Elem), NEW u \in Seq(Elem), NEW hd, NEW nx, NEW pv,
         hd = IF Len(s) > 0 THEN s[1] ELSE IF Len(u) > 0 THEN u[1] ELSE NULL,
         \A i \in 1 .. Len(s) :
           nx[s[i]] = IF i < Len(s) THEN s[i + 1] ELSE IF Len(u) > 0 THEN u[1] ELSE NULL,
         \A i \in 1 .. Len(u) : nx[u[i]] = IF i < Len(u) THEN u[i + 1] ELSE NULL,
         \A i \in 1 .. Len(s) :
           pv[s[i]] = IF i > 1 THEN s[i - 1] ELSE IF Len(u) > 0 THEN u[Len(u)] ELSE s[Len(s)],
         \A i \in 1 .. Len(u) :
           pv[u[i]] = IF i > 1 THEN u[i - 1] ELSE IF Len(s) > 0 THEN s[Len(s)] ELSE u[Len(u)]
  PROVE  Chain(hd, nx, pv, "DL", s \o u)
<1> DEFINE n == Len(s)
           q == Len(u)
           t == s \o u
<1>1. n \in Nat /\ q \in Nat
  OBVIOUS
<1>2. Len(t) = n + q
  OBVIOUS
<1>3. \A i \in 1 .. n + q : t[i] = IF i <= n THEN s[i] ELSE u[i - n]
  OBVIOUS
<1>4. hd = IF n > 0 THEN s[1] ELSE IF q > 0 THEN u[1] ELSE NULL
  OBVIOUS
<1>5. \A i \in 1 .. n : nx[s[i]] = IF i < n THEN s[i + 1] ELSE IF q > 0 THEN u[1] ELSE NULL
  OBVIOUS
<1>6. \A i \in 1 .. q : nx[u[i]] = IF i < q THEN u[i + 1] ELSE NULL
  OBVIOUS
<1>7. \A i \in 1 .. n : pv[s[i]] = IF i > 1 THEN s[i - 1] ELSE IF q > 0 THEN u[q] ELSE s[n]
  OBVIOUS
<1>8. \A i \in 1 .. q : pv[u[i]] = IF i > 1 THEN u[i - 1] ELSE IF n > 0 THEN s[n] ELSE u[q]
  OBVIOUS
<1> HIDE DEF n, q, t
<1>9. hd = IF n + q = 0 THEN NULL ELSE t[1]
  BY <1>1, <1>3, <1>4
<1>10. ASSUME NEW i \in 1 .. n + q
       PROVE  nx[t[i]] = IF i < n + q THEN t[i + 1] ELSE NULL
  <2>1. CASE i <= n
    <3>1. i \in 1 .. n /\ t[i] = s[i]
      BY <1>1, <1>3, <2>1
    <3>2. i < n => t[i + 1] = s[i + 1] /\ i < n + q
      BY <1>1, <1>3, <3>1
    <3>3. i = n /\ q > 0 => t[i + 1] = u[1] /\ i < n + q
      BY <1>1, <1>3, <3>1
    <3> QED BY <1>1, <1>5, <3>1, <3>2, <3>3
  <2>2. CASE i > n
    <3> DEFINE j == i - n
    <3>1. j \in 1 .. q /\ t[i] = u[j] /\ (i < n + q <=> j < q)
      BY <1>1, <1>3, <2>2
    <3>2. i < n + q => t[i + 1] = u[j + 1]
      <4> DEFINE l == i + 1
      <4>1. i < n + q => l \in 1 .. n + q /\ ~(l <= n) /\ l - n = j + 1
        BY <1>1, <2>2
      <4> HIDE DEF l, j
      <4>2. i < n + q => t[l] = u[j + 1]
        BY <1>3, <4>1
      <4> QED BY <4>2 DEF l
    <3> HIDE DEF j
    <3> QED BY <1>6, <3>1, <3>2
  <2> QED BY <1>1, <2>1, <2>2
<1>11. ASSUME NEW i \in 1 .. n + q
       PROVE  pv[t[i]] = IF i > 1 THEN t[i - 1] ELSE t[n + q]
  <2>1. t[n + q] = IF q > 0 THEN u[q] ELSE s[n]
    <3> DEFINE l == n + q
    <3>1. l \in 1 .. n + q /\ (l <= n <=> q = 0) /\ l - n = q /\ (q = 0 => l = n)
      BY <1>1
    <3> HIDE DEF l
    <3>2. t[l] = IF q > 0 THEN u[q] ELSE s[n]
      BY <1>1, <1>3, <3>1
    <3> QED BY <3>2 DEF l
  <2>2. CASE i <= n
    <3>1. i \in 1 .. n /\ t[i] = s[i]
      BY <1>1, <1>3, <2>2
    <3>2. i > 1 => t[i - 1] = s[i - 1]
      <4> DEFINE l == i - 1
      <4>1. i > 1 => l \in 1 .. n + q /\ l <= n
        BY <1>1, <3>1
      <4> HIDE DEF l
      <4>2. i > 1 => t[l] = s[l]
        BY <1>3, <4>1
      <4> QED BY <4>2 DEF l
    <3> QED BY <1>1, <1>7, <2>1, <3>1, <3>2
  <2>3. CASE i > n
    <3> DEFINE j == i - n
    <3>1. j \in 1 .. q /\ t[i] = u[j] /\ q > 0
      BY <1>1, <1>3, <2>3
    <3>2. j > 1 => i > 1 /\ t[i - 1] = u[j - 1]
      <4> DEFINE l == i - 1
      <4>1. j > 1 => i > 1 /\ l \in 1 .. n + q /\ ~(l <= n) /\ l - n = j - 1
        BY <1>1, <2>3
      <4> HIDE DEF l, j
      <4>2. j > 1 => t[l] = u[j - 1]
        BY <1>3, <4>1
      <4> QED BY <4>1, <4>2 DEF l
    <3>3. j = 1 => (i > 1 <=> n > 0) /\ i - 1 = n
      BY <1>1
    <3>4. j = 1 /\ n > 0 => t[i - 1] = s[n]
      BY <1>1, <1>3, <3>3
    <3> HIDE DEF j
    <3>5. pv[u[j]] = IF j > 1 THEN u[j - 1] ELSE IF n > 0 THEN s[n] ELSE u[q]
      BY <1>8, <3>1
    <3> QED BY <1>1, <2>1, <3>1, <3>2, <3>3, <3>4, <3>5
  <2> QED BY <1>1, <2>2, <2>3
<1>12. Chain(hd, nx, pv, "DL", t)
  BY <1>1, <1>2, <1>9, <1>10, <1>11 DEF Chain
<1> QED BY <1>12 DEF t

(* One list of both has the elements of both.                              *)
LEMMA ConcatElements ==
  ASSUME NEW s \in Seq(Elem), NEW u \in Seq(Elem), Distinct(s), Distinct(u),
         \A y : ~(In(y, s) /\ In(y, u))
  PROVE  LET t == s \o u
         IN /\ t \in Seq(Elem) /\ Distinct(t)
            /\ \A y : In(y, t) <=> In(y, s) \/ In(y, u)
<1> DEFINE n == Len(s)
           q == Len(u)
           t == s \o u
<1>1. n \in Nat /\ q \in Nat
  OBVIOUS
<1>2. t \in Seq(Elem) /\ Len(t) = n + q
  OBVIOUS
<1>3. \A i \in 1 .. n + q : t[i] = IF i <= n THEN s[i] ELSE u[i - n]
  OBVIOUS
<1>4. \A i \in 1 .. n, j \in 1 .. q : s[i] # u[j]
  BY DEF In
<1>5. /\ \A i, j \in 1 .. n : s[i] = s[j] => i = j
      /\ \A i, j \in 1 .. q : u[i] = u[j] => i = j
  BY DEF Distinct
<1> HIDE DEF n, q, t
<1>6. ASSUME NEW i \in 1 .. n + q
      PROVE  \/ i \in 1 .. n /\ t[i] = s[i]
             \/ \E j \in 1 .. q : t[i] = u[j] /\ i = j + n
  <2>1. CASE i <= n
    BY <1>1, <1>3, <2>1
  <2>2. CASE i > n
    <3> DEFINE j == i - n
    <3>1. j \in 1 .. q /\ t[i] = u[j] /\ i = j + n
      BY <1>1, <1>3, <2>2
    <3> QED BY <3>1
  <2> QED BY <1>1, <2>1, <2>2
<1>7. Distinct(t)
  <2> SUFFICES ASSUME NEW i \in 1 .. n + q, NEW j \in 1 .. n + q, t[i] = t[j]
               PROVE  i = j
    BY <1>2 DEF Distinct
  <2>1. CASE i \in 1 .. n /\ t[i] = s[i]
    BY <1>4, <1>5, <1>6, <2>1
  <2>2. CASE \E l \in 1 .. q : t[i] = u[l] /\ i = l + n
    BY <1>4, <1>5, <1>6, <2>2
  <2> QED BY <1>6, <2>1, <2>2
<1>8. ASSUME NEW y PROVE In(y, t) => In(y, s) \/ In(y, u)
  BY <1>2, <1>6 DEF In, n, q
<1>9. ASSUME NEW y, In(y, s) PROVE In(y, t)
  <2>1. PICK i \in 1 .. n : s[i] = y
    BY <1>9 DEF In, n
  <2>2. i \in 1 .. n + q /\ t[i] = y
    BY <1>1, <1>3, <2>1
  <2> QED BY <1>2, <2>2 DEF In
<1>10. ASSUME NEW y, In(y, u) PROVE In(y, t)
  <2>1. PICK j \in 1 .. q : u[j] = y
    BY <1>10 DEF In, q
  <2> DEFINE i == j + n
  <2>2. i \in 1 .. n + q /\ ~(i <= n) /\ i - n = j
    BY <1>1, <2>1
  <2> HIDE DEF i
  <2>3. t[i] = y
    BY <1>3, <2>1, <2>2
  <2> QED BY <1>2, <2>2, <2>3 DEF In
<1> QED BY <1>2, <1>7, <1>8, <1>9, <1>10 DEF t

(* DL_CONCAT: the tail of the first list is linked to the head of the      *)
(* second, whose tail becomes the first one's.                             *)
LEMMA DlConcat ==
  ASSUME NEW m, NEW s, NEW u, IsList(m, 1, "DL", s), IsList(m, 2, "DL", u)
  PROVE  LET n == Len(s)
             q == Len(u)
             d == DL_CONCAT2(m, 1, 2)
         IN /\ d \in Mem
            /\ d.head[1] = IF n > 0 THEN s[1] ELSE IF q > 0 THEN u[1] ELSE NULL
            /\ \A y \in Cells :
                 d.next[y] = IF n > 0 /\ q > 0 /\ y = s[n] THEN u[1] ELSE m.next[y]
            /\ \A y \in Cells :
                 d.prev[y] = IF n > 0 /\ q > 0 /\ y = s[1] THEN u[q]
                             ELSE IF n > 0 /\ q > 0 /\ y = u[1] THEN s[n] ELSE m.prev[y]
<1> DEFINE n == Len(s)
           q == Len(u)
           h == s[1]
           l == s[n]
           g == u[1]
           k == u[q]
           d == DL_CONCAT2(m, 1, 2)
<1>1. /\ m \in Mem /\ n \in Nat /\ NULL \in Cells
      /\ n = 0 => m.head[1] = NULL
      /\ n > 0 => /\ m.head[1] = h /\ m.prev[h] = l
                  /\ h \in Cells /\ l \in Cells /\ h # NULL
  BY ListReads
<1>2. /\ q \in Nat
      /\ q = 0 => m.head[2] = NULL
      /\ q > 0 => /\ m.head[2] = g /\ m.prev[g] = k
                  /\ g \in Cells /\ k \in Cells /\ g # NULL
  BY ListReads
<1> HIDE DEF n, q, h, l, g, k
<1>3. 1 \in Lists /\ 2 \in Lists
  BY DEF Lists
<1>4. CASE q = 0
  <2>1. d = m
    BY <1>2, <1>4 DEF DL_CONCAT2
  <2>2. d.head[1] = IF n > 0 THEN h ELSE NULL
    BY <1>1, <2>1
  <2> QED BY <1>1, <1>2, <1>4, <2>1, <2>2 DEF n, q, h
<1>5. CASE q > 0 /\ n = 0
  <2> DEFINE e == [m EXCEPT !.head[1] = g]
  <2>1. d = e
    BY <1>1, <1>2, <1>5 DEF DL_CONCAT2
  <2>2. m \in Mem /\ g \in Cells
    BY <1>1, <1>2, <1>5
  <2>3. e \in Mem
    BY <1>3, <2>2 DEF Mem
  <2>4. e.head[1] = g
    BY <1>3, <2>2 DEF Mem
  <2>5. e.next = m.next /\ e.prev = m.prev
    BY <2>2 DEF Mem
  <2> HIDE DEF d, e
  <2>6. /\ d \in Mem /\ d.head[1] = g /\ d.next = m.next /\ d.prev = m.prev
    BY <2>1, <2>3, <2>4, <2>5
  <2> QED BY <1>1, <1>2, <1>5, <2>6 DEF n, q, g, d
<1>6. CASE q > 0 /\ n > 0
  <2> DEFINE e == [m EXCEPT !.prev[g] = l, !.next[l] = g, !.prev[h] = k]
  <2>1. d = e
    <3>1. m.head[1] = h /\ m.head[2] = g /\ m.prev[h] = l /\ m.prev[g] = k
      BY <1>1, <1>2, <1>6
    <3>2. h # NULL /\ g # NULL
      BY <1>1, <1>2, <1>6
    <3> QED BY <3>1, <3>2 DEF DL_CONCAT2
  <2>2. m \in Mem /\ g \in Cells /\ l \in Cells /\ h \in Cells /\ k \in Cells
    BY <1>1, <1>2, <1>6
  <2>3. e \in Mem
    BY <2>2 DEF Mem
  <2>4. e.head = m.head
    BY <2>2 DEF Mem
  <2>5. \A y \in Cells : e.next[y] = IF y = l THEN g ELSE m.next[y]
    BY <2>2 DEF Mem
  <2>6. \A y \in Cells : e.prev[y] = IF y = h THEN k ELSE IF y = g THEN l ELSE m.prev[y]
    BY <2>2 DEF Mem
  <2> HIDE DEF d, e
  <2>7. /\ d \in Mem /\ d.head[1] = h
        /\ \A y \in Cells : d.next[y] = IF y = l THEN g ELSE m.next[y]
        /\ \A y \in Cells : d.prev[y] = IF y = h THEN k ELSE IF y = g THEN l ELSE m.prev[y]
    BY <1>1, <1>6, <2>1, <2>3, <2>4, <2>5, <2>6
  <2> QED BY <1>1, <1>2, <1>6, <2>7 DEF n, q, h, l, g, k, d
<1> QED BY <1>1, <1>2, <1>4, <1>5, <1>6

(* DL_CONCAT, after which the second head is forgotten.                    *)
LEMMA JoinKeeps ==
  ASSUME LinksInv, Join
  PROVE  LinksInv'
<1> DEFINE s == seqs[1]
           u == seqs[2]
           n == Len(s)
           q == Len(u)
           t == s \o u
           d == DL_CONCAT2(lst, 1, 2)
           nx == lst'.next
           pv == lst'.prev
<1>1. 1 \in Lists /\ 2 \in Lists
  BY DEF Lists
<1>2. /\ s \in Seq(Elem) /\ u \in Seq(Elem) /\ Distinct(s) /\ Distinct(u)
      /\ \A y : ~(In(y, s) /\ In(y, u))
      /\ n \in Nat /\ q \in Nat
  BY <1>1 DEF LinksInv
<1>3. kind = "DL" /\ kind' = "DL"
  BY DEF Join
<1>4. lst \in Mem /\ IsList(lst, 1, "DL", s) /\ IsList(lst, 2, "DL", u)
  BY <1>1, <1>3 DEF LinksInv, IsList
<1>5. /\ d \in Mem
      /\ d.head[1] = IF n > 0 THEN s[1] ELSE IF q > 0 THEN u[1] ELSE NULL
      /\ \A y \in Cells : d.next[y] = IF n > 0 /\ q > 0 /\ y = s[n] THEN u[1] ELSE lst.next[y]
      /\ \A y \in Cells :
           d.prev[y] = IF n > 0 /\ q > 0 /\ y = s[1] THEN u[q]
                       ELSE IF n > 0 /\ q > 0 /\ y = u[1] THEN s[n] ELSE lst.prev[y]
  BY <1>4, DlConcat
<1>6. lst' = [d EXCEPT !.head[2] = NULL]
  BY DEF Join
<1> HIDE DEF d
<1>7. NULL \in Cells
  BY DEF Cells
<1>8. [d EXCEPT !.head[2] = NULL] \in Mem
  BY <1>1, <1>5, <1>7 DEF Mem
<1>9. lst'.head[1] = d.head[1] /\ lst'.head[2] = NULL
  BY <1>1, <1>5, <1>6, <1>7 DEF Mem
<1>10. nx = d.next /\ pv = d.prev
  BY <1>5, <1>6 DEF Mem
<1>11. seqs' = [a \in Lists |-> IF a = 1 THEN t ELSE <<>>]
  BY DEF Join
<1>12. seqs'[1] = t /\ seqs'[2] = <<>>
  <2> HIDE DEF t
  <2> QED BY <1>1, <1>11
<1>13. t \in Seq(Elem) /\ Distinct(t) /\ \A y : In(y, t) <=> In(y, s) \/ In(y, u)
  BY <1>2, ConcatElements
<1>14. <<>> \in Seq(Elem) /\ Distinct(<<>>) /\ \A y : ~In(y, <<>>)
  <2>1. <<>> \in Seq(Elem) /\ Len(<<>>) = 0
    OBVIOUS
  <2>2. Distinct(<<>>)
    BY <2>1 DEF Distinct
  <2>3. \A y : ~In(y, <<>>)
    BY <2>1 DEF In
  <2> QED BY <2>1, <2>2, <2>3
<1>15. /\ \A i \in 1 .. n : s[i] \in Cells /\ (s[i] = s[n] => i = n) /\ (s[i] = s[1] => i = 1)
       /\ \A i \in 1 .. q : u[i] \in Cells /\ (u[i] = u[1] => i = 1)
       /\ \A i \in 1 .. n, j \in 1 .. q : s[i] # u[j]
  <2>1. \A i \in 1 .. n : s[i] \in Cells
    BY <1>2 DEF Cells
  <2>2. \A i \in 1 .. q : u[i] \in Cells
    BY <1>2 DEF Cells
  <2>3. \A i, j \in 1 .. n : s[i] = s[j] => i = j
    BY <1>2 DEF Distinct
  <2>4. \A i, j \in 1 .. q : u[i] = u[j] => i = j
    BY <1>2 DEF Distinct
  <2>5. \A i \in 1 .. n, j \in 1 .. q : s[i] # u[j]
    BY <1>2 DEF In
  <2> QED BY <1>2, <2>1, <2>2, <2>3, <2>4, <2>5
<1>16. \A i \in 1 .. n : lst.next[s[i]] = IF i < n THEN s[i + 1] ELSE NULL
  BY <1>4, ListReads
<1>17. \A i \in 1 .. q : lst.next[u[i]] = IF i < q THEN u[i + 1] ELSE NULL
  BY <1>4, ListReads
<1>18. \A i \in 1 .. n : lst.prev[s[i]] = IF i > 1 THEN s[i - 1] ELSE s[n]
  BY <1>4, ListReads
<1>19. \A i \in 1 .. q : lst.prev[u[i]] = IF i > 1 THEN u[i - 1] ELSE u[q]
  BY <1>4, ListReads
<1> HIDE DEF s, u, n, q, t, nx, pv
<1>20. \A i \in 1 .. n :
         nx[s[i]] = IF i < n THEN s[i + 1] ELSE IF q > 0 THEN u[1] ELSE NULL
  BY <1>2, <1>5, <1>10, <1>15, <1>16, SMTT(20)
<1>21. \A i \in 1 .. q : nx[u[i]] = IF i < q THEN u[i + 1] ELSE NULL
  BY <1>2, <1>5, <1>10, <1>15, <1>17, SMTT(20)
<1>22. \A i \in 1 .. n :
         pv[s[i]] = IF i > 1 THEN s[i - 1] ELSE IF q > 0 THEN u[q] ELSE s[n]
  BY <1>2, <1>5, <1>10, <1>15, <1>18, SMTT(20)
<1>23. \A i \in 1 .. q :
         pv[u[i]] = IF i > 1 THEN u[i - 1] ELSE IF n > 0 THEN s[n] ELSE u[q]
  BY <1>2, <1>5, <1>10, <1>15, <1>19, SMTT(20)
<1> DEFINE h == lst'.head[1]
<1>24. h = IF n > 0 THEN s[1] ELSE IF q > 0 THEN u[1] ELSE NULL
  BY <1>5, <1>9
<1> HIDE DEF h
<1>25. Chain(h, nx, pv, "DL", t)
  BY <1>2, <1>20, <1>21, <1>22, <1>23, <1>24, ConcatChains DEF n, q, t
<1>26. Chain(NULL, nx, pv, "DL", <<>>)
  BY DEF Chain
<1>27. \A y \in Cells : ~In(y, s) /\ ~In(y, u) => nx[y] = lst.next[y] /\ pv[y] = lst.prev[y]
  BY <1>2, <1>5, <1>10 DEF In, n, q
<1>28. \A a \in Lists : Chain(lst'.head[a], lst'.next, lst'.prev, kind', seqs'[a])
  BY <1>3, <1>9, <1>12, <1>25, <1>26 DEF Lists, h, nx, pv
<1>29. ASSUME NEW y \in Elem, \A a \in Lists : ~In(y, seqs'[a])
       PROVE  lst'.next[y] = JUNK /\ lst'.prev[y] = JUNK
  <2>1. ~In(y, s) /\ ~In(y, u)
    BY <1>1, <1>12, <1>13, <1>29
  <2>2. lst.next[y] = JUNK /\ lst.prev[y] = JUNK
    BY <2>1 DEF LinksInv, Lists, s, u
  <2>3. y \in Cells
    BY DEF Cells
  <2> QED BY <1>27, <2>1, <2>2, <2>3 DEF nx, pv
<1>30. NoStrayWrite(nx) /\ NoStrayWrite(pv)
  <2>1. \A y : In(y, s) \/ In(y, u) => y \in Elem
    BY <1>2 DEF In
  <2>2. NULL \in Cells /\ JUNK \in Cells /\ NULL \notin Elem /\ JUNK \notin Elem
    BY CellAssumption DEF Cells
  <2>3. NoStrayWrite(lst.next) /\ NoStrayWrite(lst.prev)
    BY DEF LinksInv
  <2> QED BY <1>27, <2>1, <2>2, <2>3 DEF NoStrayWrite
<1>31. seqs' = [a \in Lists |-> seqs'[a]]
  BY <1>11
<1>32. \A a \in Lists : seqs'[a] \in Seq(Elem) /\ Distinct(seqs'[a])
  BY <1>12, <1>13, <1>14 DEF Lists
<1>33. \A y : ~(In(y, seqs'[1]) /\ In(y, seqs'[2]))
  BY <1>12, <1>14
<1>34. kind' \in {"DL", "CDL"} /\ lst' \in Mem
  BY <1>3, <1>6, <1>8
<1> QED BY <1>28, <1>29, <1>30, <1>31, <1>32, <1>33, <1>34 DEF LinksInv, nx, pv

(* Every macro that does not walk keeps both lists.                        *)
THEOREM LinksInvariant == LinksSpec => []LinksInv
<1>1. ListInit /\ kind # "LL" => LinksInv
  BY LinksInit
<1>2. LinksInv /\ [LinksNext]_listVars => LinksInv'
  <2> SUFFICES ASSUME LinksInv, [LinksNext]_listVars
               PROVE  LinksInv'
    OBVIOUS
  <2>1. ASSUME NEW a \in Lists, NEW x \in Malloc(InUse), NEW k \in ListKeys, LinkIn(a, x, k)
        PROVE  LinksInv'
    BY <2>1, LinkInKeeps
  <2>2. ASSUME NEW a \in Lists, NEW x \in Malloc(InUse), NEW k \in ListKeys, Exchange(a, x, k)
        PROVE  LinksInv'
    BY <2>2, ExchangeKeeps
  <2>3. ASSUME NEW a \in Lists, LinkOut(a) PROVE LinksInv'
    BY <2>3, LinkOutKeeps
  <2>4. CASE Join
    BY <2>4, JoinKeeps
  <2>5. CASE UNCHANGED listVars
    BY <2>5 DEF LinksInv, listVars
  <2> QED BY <2>1, <2>2, <2>3, <2>4, <2>5 DEF LinksNext
<1> QED BY <1>1, <1>2, PTL DEF LinksSpec

(* In any order of calls of the macros that do not walk, of the doubly     *)
(* linked or of the circular family, on two lists: the next and prev       *)
(* fields are exactly the two sequences the calls describe, elements that  *)
(* were freed are not linked any more, and nothing is written through a    *)
(* bad pointer; for any number of elements, all keys and every length.     *)
THEOREM LinksAreFaithful == LinksSpec => []LinksFaithful
<1>1. LinksInv => LinksFaithful
  BY LinksInvFaithful
<1> QED BY <1>1, LinksInvariant, PTL
=============================================================================
