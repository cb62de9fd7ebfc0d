----------------------------- MODULE MCAddresses -----------------------------
(* Instances of Addresses small enough for TLC. *)
EXTENDS Addresses

Notes  == <<1>>
Notes2 == <<1, 2>>

\* "My Notes" is notes-2 if "notes" is there first, and the other way about.
Folders == {1, 2}
Names   == [f \in Folders |-> Notes]
Labels  == {Notes, Notes2}
Theirs  == {Notes}

\* No folder is copied with its manifest.
NoCopies == ~("slug" \in excuses' \ excuses /\ hands' # hands)
SpecNoCopies == Init /\ [][Next /\ NoCopies]_vars
=============================================================================
