--------------------------- MODULE MCFileTransfer ---------------------------
(* TLC instances of FileTransfer.                                          *)
EXTENDS FileTransfer

(* Around the client's END_BYTES, a multiple of CHUNK, empty and missing.  *)
Sizes == {MISSING, 0, 4, 10, 11, 12, 16}

(* The shipped client's request, and one the server refuses.               *)
SomeHeaders == {[magic |-> TRUE, filesize |-> 1], [magic |-> TRUE, filesize |-> 9],
                [magic |-> FALSE, filesize |-> 1]}

ClientHeader == {[magic |-> TRUE, filesize |-> 1]}
=============================================================================
