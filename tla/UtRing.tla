------------------------------- MODULE UtRing -------------------------------
(***************************************************************************)
(* utringbuffer.h: a ring of a fixed number of slots, in which a new       *)
(* element replaces the oldest one once it is full.  Readers number the    *)
(* elements from the oldest; the slot of an element depends on where the   *)
(* next one will go.                                                       *)
(***************************************************************************)
EXTENDS UtIcd

CONSTANT WORD   \* indices are size_t: 2^64

ASSUME WordAssumption == WORD \in Nat /\ MaxItems < WORD

VARIABLES
  ring,     \* the ring buffer
  oldest    \* history: the elements a reader should find, from the oldest

ringVars == <<ring, oldest>>

utringbuffer_len(a) == IF a.f THEN a.n ELSE a.i

utringbuffer_empty(a) == a.i = 0 /\ ~a.f

_real_idx(a, j) == IF a.f THEN (j + a.i) % a.n ELSE j
_fake_idx(a, j) == IF a.f THEN (j + a.n - a.i) % a.n ELSE j

utringbuffer_eltptr(a, j) ==
  IF 0 <= j /\ j < utringbuffer_len(a) THEN _real_idx(a, j) ELSE NULL

utringbuffer_eltidx(a, e) == _fake_idx(a, e)

utringbuffer_front(a) == utringbuffer_eltptr(a, 0)
utringbuffer_back(a) ==
  IF utringbuffer_empty(a) THEN NULL ELSE utringbuffer_eltptr(a, utringbuffer_len(a) - 1)
utringbuffer_next(a, e) ==
  IF e = NULL THEN utringbuffer_front(a)
  ELSE utringbuffer_eltptr(a, (utringbuffer_eltidx(a, e) + 1) % WORD)
utringbuffer_prev(a, e) ==
  IF e = NULL THEN utringbuffer_back(a)
  ELSE utringbuffer_eltptr(a, (utringbuffer_eltidx(a, e) - 1) % WORD)

(* Fault: the string that is replaced is not freed.                        *)
utringbuffer_push_back_keep(a, s) ==
  LET c == utarray_str_cpy(a, a.i, s)
  IN IF c.i + 1 = c.n THEN [c EXCEPT !.i = 0, !.f = TRUE] ELSE [c EXCEPT !.i = @ + 1]

utringbuffer_push_back(a, s) ==
  LET b == IF a.f THEN utarray_str_dtor(a, a.i) ELSE a
      c == utarray_str_cpy(b, a.i, s)
  IN IF c.i + 1 = c.n THEN [c EXCEPT !.i = 0, !.f = TRUE] ELSE [c EXCEPT !.i = @ + 1]

utringbuffer_clear(a) ==
  [DtorAll(a, {utringbuffer_eltptr(a, j) : j \in 0 .. utringbuffer_len(a) - 1})
     EXCEPT !.i = 0, !.f = FALSE]

utringbuffer_done(a) == [utringbuffer_clear(a) EXCEPT !.n = 0, !.d = [k \in {} |-> JUNK]]

(* utringbuffer_init() or _new(), of what utringbuffer_done() leaves.      *)
utringbuffer_init(a, n) == [NewVec(n) EXCEPT !.live = a.live, !.bad = a.bad]

-----------------------------------------------------------------------------
RingInit ==
  /\ \E n \in 1 .. MaxItems : ring = NewVec(n)
  /\ oldest = <<>>

(* A full ring drops its oldest element.                                   *)
RingPush(s) ==
  /\ ring' = utringbuffer_push_back(ring, s)
  /\ oldest' = Append(IF Len(oldest) = ring.n THEN Tail(oldest) ELSE oldest, s)

RingClear ==
  /\ ring' = utringbuffer_clear(ring)
  /\ oldest' = <<>>

(* utringbuffer_free() and a new one.                                      *)
RingRemake(n) ==
  /\ ring' = utringbuffer_init(utringbuffer_done(ring), n)
  /\ oldest' = <<>>

RingNext ==
  \/ \E s \in Item : RingPush(s)
  \/ RingClear
  \/ \E n \in 1 .. MaxItems : RingRemake(n)

RingSpec == RingInit /\ [][RingNext]_ringVars

-----------------------------------------------------------------------------
(* The slots of the elements, from the oldest.                             *)
RingSlots == [k \in 1 .. Len(oldest) |-> utringbuffer_eltptr(ring, k - 1)]

(* Going forward or back from each end, and from each element to the next. *)
RingWalks ==
  LET n == Len(oldest)
      Slot(k) == IF k \in 1 .. n THEN RingSlots[k] ELSE NULL
  IN /\ utringbuffer_next(ring, NULL) = Slot(1)
     /\ utringbuffer_prev(ring, NULL) = Slot(n)
     /\ \A k \in 1 .. n : /\ Slot(k) # NULL
                          /\ utringbuffer_next(ring, Slot(k)) = Slot(k + 1)
                          /\ utringbuffer_prev(ring, Slot(k)) = Slot(k - 1)

(***************************************************************************)
(* A reader of a ring, by index or walking either way, finds just the last *)
(* elements that were pushed, as many as the ring has slots, in order,     *)
(* however often it has wrapped; and the ring owns the strings of exactly  *)
(* these.                                                                  *)
(***************************************************************************)
RingFaithful ==
  /\ utringbuffer_len(ring) = Len(oldest)
  /\ RingWalks
  /\ \A k \in 1 .. Len(oldest) : Pointee(ring, RingSlots[k]) = oldest[k]
  /\ Owned(ring, {RingSlots[k] : k \in 1 .. Len(oldest)})
=============================================================================
