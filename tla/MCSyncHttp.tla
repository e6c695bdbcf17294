---------------------------- MODULE MCSyncHttp -----------------------------
(* Model-checking instances of SyncHttp: clients are interchangeable. *)
EXTENDS SyncHttp, TLC

ClientSymmetry == Permutations(Client)
============================================================================
