---------------------------- MODULE MCSecretStore ----------------------------
(* A small instance of SecretStore: a writer, a reader with the same master   *)
(* key or another, and a process without one, over two names and two texts.   *)
EXTENDS SecretStore

CONSTANTS p1, p2, p3, k1, k2

MCMasterOf == [p \in Process |-> CASE p = p1 -> k1 [] p = p2 -> k2 [] OTHER -> NoMaster]
MCSameKey  == [p \in Process |-> k1]
=============================================================================
