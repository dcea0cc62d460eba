-------------------------- MODULE MCStorageFormat --------------------------
(* Small instances of StorageFormat for TLC: one recorder starts at boot;  *)
(* requests do not differ in who makes them.                               *)
EXTENDS StorageFormat, TLC

OneStarts == {0}
ClientSymmetry == Permutations(Clients)
=============================================================================
