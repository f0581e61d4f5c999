------------------------ MODULE MCReferenceRecovery ------------------------
(* Small instances of ReferenceRecovery: see the .cfg files.               *)
EXTENDS ReferenceRecovery

\* Every file name fits its own reference and no other.
OwnNames == [r \in Refs |-> {r}]
=============================================================================
