---------------------------- MODULE MCContainers ----------------------------
(* Small instances, for TLC, of the containers of inc/uthash.  One kind is *)
(* in use; "grow" is the hash table with more keys and fewer operations,   *)
(* "search" the string buffer filled byte by byte and searched.            *)
EXTENDS UtList, UtlistTest, UthashSample, UtHashFunctions, UtArray, UtRing, UtStringFind

VARIABLE using

(* An int key is hashed as its bytes; buckets and filter take low bits.    *)
OnInts(F(_)) == [i \in Ids \cup {0} |-> F(<<i, 0, 0, 0>>)[2]]

Default == OnInts(HASH_JEN)

(* Two values only, so that chains get long.                               *)
Clumped == [i \in Ids \cup {0} |-> IF i < 4 THEN 0 ELSE 1]

SomeHashFunctions ==
  {Default, Clumped, OnInts(HASH_BER), OnInts(HASH_SAX), OnInts(HASH_FNV), OnInts(HASH_OAT),
   OnInts(HASH_SFH), OnInts(HASH_MUR)}

(* Texts of up to two characters.                                          *)
ShortTexts == SeqOf(Chars, 2)

UsingInit ==
  /\ using \in {"list", "test", "hash", "grow", "array", "ring", "string", "search"}
  /\ ListInit /\ TestInit /\ HashInit /\ ArrayInit /\ RingInit /\ FindInit
  /\ using # "list" => kind = "LL"
  /\ using # "hash" => phase = "menu"
  /\ using = "hash" => hash \in {Default, Clumped}
  /\ using \notin {"hash", "grow"} => hash = Default
  /\ using # "ring" => ring.n = 1

listsVars == <<listVars, testVars>>

(* Bound on a string that is searched; one more than the longest needle.   *)
MaxHaystack == MaxNeedle + 1

(* No search is under way.                                                 *)
Idle == call = NULL /\ UNCHANGED <<call, findLocals>>

Use(u, A) == using = u /\ A /\ UNCHANGED using

UsingNext ==
  \/ /\ Use("list", ListNext /\ UNCHANGED testVars) \/ Use("test", TestNext)
     /\ UNCHANGED <<hashVars, arrayVars, ringVars, findVars>>
  \/ /\ Use("hash", HashNext) \/ Use("grow", GrowNext)
     /\ UNCHANGED <<listsVars, arrayVars, ringVars, findVars>>
  \/ /\ Use("array", ArrayNext)
     /\ UNCHANGED <<listsVars, hashVars, ringVars, findVars>>
  \/ /\ Use("ring", RingNext)
     /\ UNCHANGED <<listsVars, hashVars, arrayVars, findVars>>
  \/ /\ \/ Use("string", StringNext /\ Idle)
        \/ Use("search", Len(text) < MaxHaystack /\ (\E c \in Chars : PutBytes(<<c>>)) /\ Idle)
        \/ Use("search", FindTurns)
     /\ UNCHANGED <<listsVars, hashVars, arrayVars, ringVars>>

Spec ==
  /\ UsingInit
  /\ [][UsingNext]_<<using, listsVars, hashVars, arrayVars, ringVars, findVars>>
=============================================================================
