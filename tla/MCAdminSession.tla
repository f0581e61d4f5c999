--------------------------- MODULE MCAdminSession ---------------------------
(* Small instances of AdminSession: see the .cfg files.                    *)
EXTENDS AdminSession, TLC

Symmetry == Permutations(Clients) \cup Permutations(Requests)
=============================================================================
