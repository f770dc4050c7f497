-------------------------- MODULE MCPthreadServer --------------------------
(* TLC instances of PthreadServer.                                         *)
EXTENDS PthreadServer
=============================================================================
