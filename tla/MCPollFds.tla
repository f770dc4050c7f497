----------------------------- MODULE MCPollFds -----------------------------
(* A TLC instance of PollFds.                                              *)
EXTENDS PollFds

(* One descriptor's events change, the others' do not: descriptors are     *)
(* told apart only by their order of arrival, so which one it is does not  *)
(* matter.                                                                 *)
OneChanges == \A f \in DOMAIN asked' \ {0} : asked'[f] = 1

MCSpec ==
  /\ Init /\ \A f \in Fds : fd_lookup[f] = fd_lookup[0]
  /\ [][Next /\ OneChanges]_vars
  /\ WF_vars(Turn)
=============================================================================
