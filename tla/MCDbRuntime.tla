---------------------------- MODULE MCDbRuntime ----------------------------
(***************************************************************************)
(* Instances of DbRuntime: which requests the clients send, and what can   *)
(* fail, is given by the configurations.                                   *)
(***************************************************************************)
EXTENDS DbRuntime, TLC

AllKinds == {"app", "use", "create", "import", "duplicate", "restore", "drop"}
NoImport == AllKinds \ {"import"}
Selecting == {"app", "use"}
Sharing == {"app", "use", "import", "duplicate", "drop"}

\* Two databases, or two clients, are alike
DbSymmetry == Permutations(Dbs)
BothSymmetry == Permutations(Dbs) \cup Permutations(Clients)
=============================================================================
