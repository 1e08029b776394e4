----------------------------- MODULE MCProcess -----------------------------
(* Model-checking instance of Process: three threads over the life of the  *)
(* machine, the loader's and two more.                                     *)
EXTENDS Process

CONSTANTS t1, t2, t3
=============================================================================
