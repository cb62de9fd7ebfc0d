----------------------------- MODULE MCWorkspace -----------------------------
(* Instances of Workspace small enough for TLC. *)
EXTENDS Workspace, TLC

CONSTANTS f1, f2, s, w, c1, c2

\* Folders are interchangeable, and so are socket clients.
Symmetry == Permutations(Folder) \union Permutations(Client)
=============================================================================
