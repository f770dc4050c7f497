---------------------------- MODULE MCHttpServer ----------------------------
(* A small instance of the http server for TLC.  Connections meet in the   *)
(* uploaded file and nowhere else.  So one connection makes every kind of  *)
(* request, with a body or without, and the others only post forms, while  *)
(* that one posts a form, waits or is closed.  The proofs have none of     *)
(* these restrictions.                                                     *)
EXTENDS HttpServer

CONSTANT Posters   \* the connections that only post

Posting == {"closed", "idle", "post"}

Restricted == \A c \in Posters :
  /\ phase'[c] \in Posting
  /\ phase'[c] # "closed" => mixed' = {} /\ \A d \in Conns : phase'[d] \in Posting

MCSpec == Init /\ [][Next /\ Restricted]_vars /\ Fairness
=============================================================================
