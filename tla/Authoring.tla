------------------------------- MODULE Authoring -------------------------------
(***************************************************************************)
(* Making apps from the socket: an empty one, or a folder or a file of the   *)
(* owner's copied in. And choosing the folder all of them live in.          *)
(*                                                                         *)
(* Each caller's command runs to its end on a task of its own: between       *)
(* finding a free name and making the folder, and between the files of a     *)
(* copy, the other caller's command and the owner's file manager come in.   *)
(***************************************************************************)
EXTENDS Naturals, Sequences, SequencesExt, FiniteSets

CONSTANTS Author,     \* callers on the socket
          Typed,      \* names somebody may type, as sequences of classes of characters
          Cut,        \* how many characters of a name are kept
          NameMax,    \* how many bytes of a name the file system takes
          Tries,      \* how many numbered names are tried
          MaxCalls

ASSUME AuthoringAssumption ==
    /\ {Cut, NameMax, MaxCalls} \subseteq Nat /\ Tries \in Nat \ {0}
    /\ Typed \subseteq Seq({".", "blank", "/", "-", "a", "wide"})

Unwritten == "nobody"
TheOwner == "owner"

-----------------------------------------------------------------------------
(* Names.                                                                  *)

TrimOf(s, drop) ==
    LET kept == {i \in DOMAIN s : s[i] \notin drop}
        first == CHOOSE i \in kept : \A j \in kept : i <= j
        last == CHOOSE i \in kept : \A j \in kept : i >= j
    IN  IF kept = {} THEN <<>> ELSE SubSeq(s, first, last)

Take(s, n) == IF Len(s) <= n THEN s ELSE SubSeq(s, 1, n)

Clean(raw) == [i \in DOMAIN raw |-> IF raw[i] = "/" THEN "-" ELSE raw[i]]

\* Faulty variant: the name's own leading dot is kept.
FolderNameAsTyped(raw) == TrimOf(Take(Clean(TrimOf(raw, {"blank"})), Cut), {"blank"})

\* folder_name; <<>> stands for its two errors.
FolderName(raw) ==
    TrimOf(Take(TrimOf(Clean(TrimOf(raw, {"blank"})), {".", "blank"}), Cut), {"blank"})

Bytes(name) == Len(name) + 3 * Len(SelectSeq(name, LAMBDA c : c = "wide"))

-----------------------------------------------------------------------------
(* What is brought in. An entry of the source is copied, walked into, or      *)
(* left where it is.                                                       *)

Source == {"folder", "file", "within", "above", "missing", "socket"}

Entries(item) ==
    CASE item = "folder"    -> {"page", "sub", ".git", "link"}
      [] item = "sub"       -> {"deep"}
      [] item = "above"     -> {"page", "workspace"}
      [] item = "workspace" -> {"itself"}      \* the folder the copy is going to
      [] item = ".git"      -> {"object"}
      [] item = "link"      -> {"secret"}
      [] OTHER              -> {}

Regular == {"page", "deep", "object", "secret"}
File == {"index"} \union Regular \union {"itself"}

\* Faulty variant: what a link points at is looked at instead of the link.
WorthFollowing(item) == item # ".git"

\* SKIP, and links, which are never followed.
Worth(item) == item \notin {".git", "link"}

-----------------------------------------------------------------------------
VARIABLES shelf,     \* the workspace: each folder's files, and who wrote each
          job,       \* what each caller's command is doing
          crossed,   \* history: folders two commands found free at the same time
          calls,
          setting    \* the folder to watch from the next start on

authoringVars == <<shelf, job, crossed, calls, setting>>

\* A folder's name: what was wanted, and the number after it when that was taken, or the
\* clock when all of those were.
FolderId == {FolderName(t) : t \in Typed} \X (1..(Tries + MaxCalls))

NoJob == [at |-> "idle", op |-> "none", folder |-> <<>>, todo |-> {}, missed |-> FALSE]

Blank == [f \in File |-> Unwritten]

AuthoringInit ==
    /\ shelf = <<>>
    /\ job = [a \in Author |-> NoJob]
    /\ crossed = {} /\ calls = 0 /\ setting = "default"

Doing(a, at) == job[a].at = at

\* Faulty variant: the name is given out whatever is there.
UniqueInAny(wanted) == <<wanted, 1>>

\* Faulty variant: the first name tried has a number too.
UniqueInNumbered(wanted) ==
    <<wanted, CHOOSE n \in 0..Tries : <<wanted, n>> \notin DOMAIN shelf /\ \A m \in 0..n : m < n => <<wanted, m>> \in DOMAIN shelf>>

\* unique_in: the first name that is free now. Past the last number the clock is appended,
\* which is taken to have moved on since any earlier call.
UniqueIn(wanted) ==
    LET free == {n \in 1..Tries : <<wanted, n>> \notin DOMAIN shelf}
    IN  <<wanted, IF free = {} THEN Tries + 1 + calls ELSE CHOOSE n \in free : \A m \in free : n <= m>>

Begin(a, op, wanted, todo) ==
    /\ Doing(a, "idle") /\ calls < MaxCalls /\ calls' = calls + 1
    /\ IF wanted = <<>>
       THEN job' = [job EXCEPT ![a] = [NoJob EXCEPT !.op = op, !.at = "refused"]]
       ELSE job' = [job EXCEPT ![a] = [at |-> "make", op |-> op, folder |-> UniqueIn(wanted),
                                       todo |-> todo, missed |-> FALSE]]
    /\ crossed' = crossed \union {job'[b].folder : b \in {b \in Author \ {a} :
                                   job[b].at = "make" /\ job[b].folder = job'[a].folder}}
    /\ UNCHANGED <<shelf, setting>>

\* create
Create(a) == \E name \in Typed : Begin(a, "create", FolderName(name), {"index"})

\* import: the source's containment is checked before anything is made.
Import(a) ==
    \E source \in Source, name \in Typed :
        Begin(a, source,
              IF source \in {"folder", "file"} THEN FolderName(name) ELSE <<>>,
              IF source = "file" THEN {"page"} ELSE Entries(source))

Becomes(a, record) == job' = [job EXCEPT ![a] = record]

\* create_dir_all, which does not mind a folder that is there already.
MakeFolder(a) ==
    /\ Doing(a, "make")
    /\ LET f == job[a].folder IN
       IF Bytes(f[1]) > NameMax
       THEN Becomes(a, [job[a] EXCEPT !.at = "too_long"]) /\ UNCHANGED shelf
       ELSE \/ /\ Becomes(a, [job[a] EXCEPT !.at = "fill"])
               /\ shelf' = IF f \in DOMAIN shelf THEN shelf
                           ELSE [g \in DOMAIN shelf \union {f} |-> IF g = f THEN Blank ELSE shelf[g]]
            \/ Becomes(a, [job[a] EXCEPT !.at = "failed"]) /\ UNCHANGED shelf
    /\ UNCHANGED <<crossed, calls, setting>>

\* Faulty variant: a file that cannot be copied is passed over.
CopyOnwards(a) ==
    /\ Doing(a, "fill")
    /\ \E item \in job[a].todo :
        LET rest == job[a].todo \ {item} IN
        IF item \notin File THEN Becomes(a, [job[a] EXCEPT !.todo = rest \union Entries(item)]) /\ UNCHANGED shelf
        ELSE \/ /\ shelf' = [shelf EXCEPT ![job[a].folder][item] = a]
                /\ Becomes(a, [job[a] EXCEPT !.todo = rest])
             \/ Becomes(a, [job[a] EXCEPT !.todo = rest]) /\ UNCHANGED shelf
    /\ UNCHANGED <<crossed, calls, setting>>

\* Write the starter page, or copy the next entry: a folder is walked into, an entry that
\* cannot be examined is passed over, and the first file that cannot be written ends the
\* copy where it is.
CopyNext(a) ==
    /\ Doing(a, "fill")
    /\ \E item \in job[a].todo :
        LET rest == [job[a] EXCEPT !.todo = @ \ {item}] IN
        \/ ~Worth(item) /\ Becomes(a, rest) /\ UNCHANGED shelf
        \/ /\ Worth(item) /\ item \notin File
           /\ Becomes(a, [rest EXCEPT !.todo = @ \union Entries(item)]) /\ UNCHANGED shelf
        \/ /\ Worth(item) /\ item \in File
           /\ shelf' = [shelf EXCEPT ![job[a].folder][item] = a]
           /\ Becomes(a, rest)
        \/ job[a].op # "create" /\ Worth(item) /\ Becomes(a, [rest EXCEPT !.missed = TRUE]) /\ UNCHANGED shelf
        \/ Worth(item) /\ Becomes(a, [rest EXCEPT !.at = "failed"]) /\ UNCHANGED shelf
    /\ UNCHANGED <<crossed, calls, setting>>

Filled(a) ==
    /\ Doing(a, "fill") /\ job[a].todo = {}
    /\ Becomes(a, [job[a] EXCEPT !.at = "made"])
    /\ UNCHANGED <<shelf, crossed, calls, setting>>

\* The answer is on its way and the caller's next command may come.
Answered(a) ==
    /\ job[a].at \in {"made", "failed", "refused", "too_long"}
    /\ Becomes(a, NoJob)
    /\ UNCHANGED <<shelf, crossed, calls, setting>>

\* The owner's file manager makes a folder, whose name is no time of the clock.
ByOwner ==
    /\ calls < MaxCalls /\ calls' = calls + 1
    /\ \E f \in FolderId :
        /\ f \notin DOMAIN shelf /\ f[1] # <<>> /\ f[2] <= Tries
        /\ shelf' = [g \in DOMAIN shelf \union {f} |->
                        IF g = f THEN [Blank EXCEPT !["page"] = TheOwner] ELSE shelf[g]]
        /\ crossed' = crossed \union {job[b].folder : b \in {b \in Author :
                                       job[b].at = "make" /\ job[b].folder = f}}
    /\ UNCHANGED <<job, setting>>

-----------------------------------------------------------------------------
(* Choosing the workspace. `state` is Kitchen Table's own folder, which is in *)
(* `support`; `link` is a link to it and `checkout` a repository.           *)

Place == {"documents", "relative", "gone", "file", "shut", "checkout", "in_checkout",
          "support", "state", "in_state", "link"}

Real(p) == IF p = "link" THEN "state" ELSE p

\* Faulty variant: the path is compared as it was spelled.
ValidAsSpelled(p) ==
    p \notin {"relative", "gone", "file", "shut", "checkout", "state", "in_state"}

\* validate
Valid(p) == Real(p) \notin {"relative", "gone", "file", "shut", "checkout", "state", "in_state"}

SetWorkspace ==
    /\ calls < MaxCalls /\ calls' = calls + 1
    /\ \E p \in Place : Valid(p) /\ setting' = Real(p)
    /\ UNCHANGED <<shelf, job, crossed>>

AuthorStep(a) == Create(a) \/ Import(a) \/ MakeFolder(a) \/ CopyNext(a) \/ Filled(a) \/ Answered(a)

AuthoringNext == (\E a \in Author : AuthorStep(a)) \/ ByOwner \/ SetWorkspace

AuthoringSpec == AuthoringInit /\ [][AuthoringNext]_authoringVars

-----------------------------------------------------------------------------
AuthoringTypeOK ==
    /\ DOMAIN shelf \subseteq FolderId
    /\ \A f \in DOMAIN shelf : shelf[f] \in [File -> Author \union {Unwritten, TheOwner}]
    /\ \A a \in Author : job[a].at \in {"idle", "make", "fill", "made", "failed", "refused", "too_long"}
    /\ crossed \subseteq FolderId /\ calls \in 0..MaxCalls
    /\ setting \in Place \union {"default"}

WritersOf(f) == {shelf[f][file] : file \in File} \ {Unwritten}

\* "`Name`, or `Name 2` if that is taken": nothing is ever written into a folder somebody
\* else made, whatever was wanted, unless both found the name free before either made it.
FoldersAreOnes ==
    \A f \in DOMAIN shelf \ crossed : Cardinality(WritersOf(f)) <= 1

\* The same however the commands overlap.
FoldersAreAlwaysOnes ==
    \A f \in DOMAIN shelf : Cardinality(WritersOf(f)) <= 1

\* Whatever was typed, the folder is one the registry lists and the file system cannot
\* mistake for another place: it has a name, that is not hidden, and holds no separator.
FoldersShow ==
    \A f \in DOMAIN shelf :
        f[1] # <<>> /\ f[1][1] # "." /\ "/" \notin Range(f[1])

\* A copy takes the source's own files: not what a link in it points at, not the
\* repository it is kept in, and never the workspace it is going into.
OnlyTheSourceIsCopied ==
    \A f \in DOMAIN shelf : \A file \in {"object", "secret", "itself"} : shelf[f][file] = Unwritten

\* An import that says it worked brought everything it could look at.
MadeIsWhole ==
    \A a \in Author :
        Doing(a, "made") /\ job[a].op \in {"file", "folder"} /\ ~job[a].missed
          /\ job[a].folder \notin crossed =>
            \A file \in IF job[a].op = "file" THEN {"page"} ELSE {"page", "deep"} :
                shelf[job[a].folder][file] = a

\* The daemon's own folder never becomes the workspace, however the path is spelled.
OwnFolderIsNotTheWorkspace == setting \notin {"state", "in_state", "link"}

\* "every folder inside a workspace gets an app.json written into it", and watching its own
\* folder "would have the daemon serving its own database": no folder of the workspace is
\* the daemon's, and none of somebody's source tree.
OwnFolderIsNoApp == setting \notin {"support", "in_checkout"}

\* "short enough to stay under the 255-byte limit every filesystem we target shares".
NamesFit == \A a \in Author : ~Doing(a, "too_long")

\* Whoever makes apps at the same time and whatever is in the folder brought in: each gets a
\* folder of its own that the library shows, whole, with nothing from outside the source,
\* and none of it is in the daemon's own folder.
AuthoringSafe ==
    /\ AuthoringTypeOK
    /\ FoldersAreOnes
    /\ FoldersShow
    /\ OnlyTheSourceIsCopied
    /\ MadeIsWhole
    /\ OwnFolderIsNotTheWorkspace
=============================================================================
