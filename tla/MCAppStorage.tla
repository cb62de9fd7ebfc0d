---------------------------- MODULE MCAppStorage ----------------------------
(* Sizes for TLC: a letter outside ASCII takes two bytes.  The daemon's store and the pages that use   *)
(* one, one beside the other: in a behaviour one of the two moves.            *)
EXTENDS AppStorage, PageStorage

CONSTANTS k1, k2, empty, small, large, letters, phone, laptop

VARIABLE moving

\* Two pages of the app on the phone, one on the laptop.
PagesOn == [p \in Page |-> IF p = 3 THEN laptop ELSE phone]

MCInit ==
    /\ Init /\ PageInit
    /\ \/ moving = "store" /\ paired = {} /\ manifest = [mode |-> "synced", backup |-> TRUE]
       \/ moving = "pages" /\ \A s \in Slug : held[s] = NoApp

MCNext ==
    /\ UNCHANGED moving
    /\ \/ moving = "store" /\ Next     /\ UNCHANGED pageVars
       \/ moving = "pages" /\ PageNext /\ UNCHANGED vars

MCSpec == MCInit /\ [][MCNext]_<<moving, vars, pageVars>>

\* The second key and one value are of letters that take two bytes.
LetterChars == [x \in Key \union Value |->
    CASE x = letters -> 2 [] x = large -> 3 [] x = empty -> 0 [] OTHER -> 1]
LetterBytes == [x \in Key \union Value |->
    CASE x = letters -> 4 [] x = k2 -> 2 [] OTHER -> LetterChars[x]]
=============================================================================
