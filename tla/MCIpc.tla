------------------------------- MODULE MCIpc -------------------------------
(* Model-checking instance of Ipc: the loader, which only yields, a server *)
(* process with two threads and a client process with one.                 *)
EXTENDS Ipc

CONSTANTS loader, server, worker, client, P0, P1, P2, svc

ThreeThreads == (loader :> P0) @@ (server :> P1) @@ (worker :> P1)

FourThreads == (loader :> P0) @@ (server :> P1) @@ (worker :> P1) @@ (client :> P2)
=============================================================================
