-------------------------- MODULE MCCatalogSwitch --------------------------
(* Small instances of CatalogSwitch: see the .cfg files.                   *)
EXTENDS CatalogSwitch, TLC

LoaderSymmetry == Permutations(Loaders)
BothSymmetry == Permutations(Loaders) \cup Permutations(Readers)
=============================================================================
