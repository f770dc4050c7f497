-------------------------- MODULE UtHashFunctions --------------------------
(***************************************************************************)
(* Hash functions of uthash.h on keys that are sequences of bytes.  They   *)
(* compute with unsigned ints of 32 bits; a Word is such a number as its   *)
(* two halves, the high one first, so that no product leaves TLC's range.  *)
(* HASH_SFH and HASH_MUR read larger units of the key, lowest byte first,  *)
(* as they do on x86.                                                      *)
(***************************************************************************)
EXTENDS Integers, Sequences, Bitwise, SequencesExt

HALF == 2 ^ 16

Word(n) == <<n \div HALF, n % HALF>>

Plus(x, y) ==
  <<(x[1] + y[1] + ((x[2] + y[2]) \div HALF)) % HALF, (x[2] + y[2]) % HALF>>

Complement(x) == <<HALF - 1 - x[1], HALF - 1 - x[2]>>

Minus(x, y) == Plus(x, Plus(Complement(y), Word(1)))

Xored(x, y) == <<x[1] ^^ y[1], x[2] ^^ y[2]>>

(* x << k and x >> k                                                       *)
Left(x, k) ==
  IF k < 16
  THEN <<(x[1] * 2 ^ k + ((x[2] * 2 ^ k) \div HALF)) % HALF, (x[2] * 2 ^ k) % HALF>>
  ELSE <<(x[2] * 2 ^ (k - 16)) % HALF, 0>>

Right(x, k) ==
  IF k < 16
  THEN <<x[1] \div 2 ^ k, (x[1] % 2 ^ k) * 2 ^ (16 - k) + (x[2] \div 2 ^ k)>>
  ELSE <<0, x[1] \div 2 ^ (k - 16)>>

(* The product, a byte of y at a time.                                    *)
Times(x, y) ==
  LET TimesByte(b) == <<(x[1] * b + ((x[2] * b) \div HALF)) % HALF, (x[2] * b) % HALF>>
      Part(half, p) == Left(TimesByte((half \div 256 ^ (p % 2)) % 256), 8 * p)
  IN Plus(Plus(Part(y[2], 0), Part(y[2], 1)), Plus(Part(y[1], 2), Part(y[1], 3)))

(* A byte shifted to place p (0 .. 3) of a word.                           *)
ByteAt(c, p) == IF p < 2 THEN <<0, c * 256 ^ p>> ELSE <<c * 256 ^ (p - 2), 0>>

-----------------------------------------------------------------------------
(* The Bernstein hash                                                      *)
HASH_BER(key) ==
  FoldLeft(LAMBDA h, c : Plus(Plus(Left(h, 5), h), Word(c)), Word(0), key)

HASH_SAX(key) ==
  FoldLeft(LAMBDA h, c : Xored(h, Plus(Plus(Left(h, 5), Right(h, 2)), Word(c))),
           Word(0), key)

HASH_FNV(key) ==
  LET Round(h, c) == Times(Xored(h, Word(c)), Word(16777619))
  IN FoldLeft(Round, <<33052, 40389>>, key)   \* 2166136261

HASH_OAT(key) ==
  LET Round(h, c) == LET x == Plus(h, Word(c))
                         y == Plus(x, Left(x, 10))
                     IN Xored(y, Right(y, 6))
      z == FoldLeft(Round, Word(0), key)
      u == Plus(z, Left(z, 3))
      v == Xored(u, Right(u, 11))
  IN Plus(v, Left(v, 15))

(* Three lines of HASH_JEN_MIX on <<a, b, c>>; the shifts differ.          *)
JenLines(m, s1, s2, s3) ==
  LET a == Xored(Minus(Minus(m[1], m[2]), m[3]), Right(m[3], s1))
      b == Xored(Minus(Minus(m[2], m[3]), a), Left(a, s2))
      c == Xored(Minus(Minus(m[3], a), b), Right(b, s3))
  IN <<a, b, c>>

HASH_JEN_MIX(m) == JenLines(JenLines(JenLines(m, 13, 8, 13), 12, 16, 5), 3, 10, 15)

(* What the bytes of (a part of) a key add to <<i, j, hashv>>: bytes 0 to  *)
(* 3 to i, 4 to 7 to j, the others to hashv, from place `first' on.        *)
JenBytes(m, key, first) ==
  LET AddByte(n, k) ==   \* key[k + 1] is the byte the code calls key[k]
        LET part == IF k < 8 THEN k \div 4 + 1 ELSE 3
            place == IF k < 8 THEN k % 4 ELSE k - 8 + first
        IN [n EXCEPT ![part] = Plus(@, ByteAt(key[k + 1], place))]
  IN FoldLeft(AddByte, m, [k \in 1 .. Len(key) |-> k - 1])

(* Jenkins' hash, the default: blocks of twelve bytes, then the rest, with *)
(* the length in the lowest byte of hashv.                                 *)
HASH_JEN(key) ==
  LET golden == <<40503, 31161>>   \* 0x9e3779b9
      blocks == Len(key) \div 12
      Block(m, n) == HASH_JEN_MIX(JenBytes(m, SubSeq(key, 12 * n - 11, 12 * n), 0))
      mixed == FoldLeft(Block, <<golden, golden, <<65261, 48879>>>>,   \* 0xfeedbeef
                        [n \in 1 .. blocks |-> n])
      sized == [mixed EXCEPT ![3] = Plus(@, Word(Len(key)))]
  IN HASH_JEN_MIX(JenBytes(sized, SubSeq(key, 12 * blocks + 1, Len(key)), 1))[3]

-----------------------------------------------------------------------------
(* h ^= h << k; h += h >> n, the closing pair of every step of HASH_SFH    *)
Stir(h, k, n) ==
  LET x == Xored(h, Left(h, k)) IN Plus(x, Right(x, n))

(* The number in `bytes', lowest first.                                    *)
GetBlock(bytes) ==
  FoldLeft(LAMBDA w, k : Plus(w, ByteAt(bytes[k], k - 1)), Word(0),
           [k \in 1 .. Len(bytes) |-> k])

(* The key in fours, and what is left of it.                               *)
Fours(key) == [n \in 1 .. Len(key) \div 4 |-> SubSeq(key, 4 * n - 3, 4 * n)]
Tail4(key) == SubSeq(key, 4 * (Len(key) \div 4) + 1, Len(key))

(* Paul Hsieh's hash                                                       *)
HASH_SFH(key) ==
  LET Four(h, b) ==
        LET x == Plus(h, GetBlock(SubSeq(b, 1, 2)))
            y == Xored(Left(x, 16), Xored(Left(GetBlock(SubSeq(b, 3, 4)), 11), x))
        IN Plus(y, Right(y, 11))
      h == FoldLeft(Four, <<51966, 47806>>, Fours(key))   \* 0xcafebabe
      rem == Tail4(key)
      x == Plus(h, GetBlock(SubSeq(rem, 1, IF Len(rem) > 2 THEN 2 ELSE Len(rem))))
      u == Xored(Xored(x, Left(x, 16)), Left(Word(rem[3]), 18))
      z == CASE Len(rem) = 3 -> Plus(u, Right(u, 11))
             [] Len(rem) = 2 -> Stir(x, 11, 17)
             [] Len(rem) = 1 -> Stir(x, 10, 1)
             [] OTHER -> h
  IN Stir(Stir(Stir(z, 3, 5), 4, 17), 25, 6)

MUR_ROTL32(x, r) == Plus(Left(x, r), Right(x, 32 - r))

MUR_FMIX(h) ==
  LET x == Times(Xored(h, Right(h, 16)), <<34283, 51819>>)   \* 0x85ebca6b
      y == Times(Xored(x, Right(x, 13)), <<49842, 44597>>)   \* 0xc2b2ae35
  IN Xored(y, Right(y, 16))

(* MurmurHash                                                              *)
HASH_MUR(key) ==
  LET Scramble(k1) ==   \* c1 = 0xcc9e2d51, c2 = 0x1b873593
        Times(MUR_ROTL32(Times(k1, <<52382, 11601>>), 15), <<7047, 13715>>)
      Four(h, b) ==
        Plus(Times(MUR_ROTL32(Xored(h, Scramble(GetBlock(b))), 13), Word(5)),
             <<58964, 27492>>)                            \* 0xe6546b64
      h == FoldLeft(Four, <<63629, 21331>>, Fours(key))   \* 0xf88d5353
      t == Tail4(key)
      x == IF t = <<>> THEN h ELSE Xored(h, Scramble(GetBlock(t)))
  IN MUR_FMIX(Xored(x, Word(Len(key))))
=============================================================================
