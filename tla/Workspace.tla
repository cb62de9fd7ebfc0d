------------------------------ MODULE Workspace ------------------------------
(***************************************************************************)
(* From a folder on disk to an app being served.  app.json is the source of *)
(* truth; a rescan reads every folder, makes the store's apps table agree,  *)
(* and swaps the library the HTTP server looks apps up in.                  *)
(*                                                                         *)
(* The daemon's start scans once, before anything watches.  After that one  *)
(* closure does all rescans: the watcher's thread calls it when the         *)
(* workspace has been quiet for a while, and every socket client calls it   *)
(* on the task that answers it, so several rescans may run at once; nothing *)
(* orders them, and one that fails half-way goes on all the same.  Commands *)
(* that edit app.json read the whole file, change one key and write the     *)
(* whole file back.                                                         *)
(*                                                                         *)
(* A slug is identified with its folder.  A manifest keeps the two keys the *)
(* properties tell apart; relay, storage and public_label are read and      *)
(* written by the same steps as visibility.                                 *)
(***************************************************************************)
EXTENDS Naturals

CONSTANTS Folder,
          Starter,      \* the task that starts the daemon
          Watcher,      \* the workspace thread: none if it could not be started
          Client,       \* socket clients, each with a task of its own
          Ops,          \* the commands clients send
          MayFail,      \* whether the disk and the store may fail
          MaxChanges,   \* bound: commands, edits by hand and failures
          NoFolder,     \* on disk: no such folder,
          NoFile,       \*   a folder without app.json,
          Cut,          \*   app.json truncated by a write that is under way,
          Garbled,      \*   app.json that does not parse
          NoApp         \* in the library or the table: no entry

Manifest == [paused : BOOLEAN, visibility : {"private", "public"}]

ASSUME WorkspaceAssumption ==
    /\ Ops \subseteq {"pause", "resume", "open", "shut", "forget", "create"}
    /\ MayFail \in BOOLEAN
    /\ MaxChanges \in Nat
    /\ Watcher \intersect Client = {} /\ Starter \notin Watcher \union Client
    /\ NoFolder \notin Folder
    /\ Manifest \intersect {NoFolder, NoFile, Cut, Garbled, NoApp} = {}
    /\ NoFolder \notin {NoFile, Cut, Garbled}

Thread == {Starter} \union Watcher \union Client
Entry  == Manifest \union {NoApp}
Unread == {NoFile, Cut, Garbled}
None   == [f \in Folder |-> NoApp]

Public(m) == m \in Manifest /\ m.visibility = "public"
Private   == {m \in Manifest : ~Public(m)}

\* Faulty variant: a regenerated manifest shares the app.
DefaultShared == [paused |-> FALSE, visibility |-> "public"]

\* Registry::generate.
Default == [paused |-> FALSE, visibility |-> "private"]

VARIABLES disk,        \* what each folder holds
          forgotten,   \* paths the owner told the daemon to forget
          stored,      \* the apps table
          live,        \* the library requests look apps up in
          watched,     \* the workspace is being watched
          dirty,       \* a change the watcher has not started a rescan for
          thread,      \* what each thread is doing
          changes,     \* commands, hand edits and failures so far
          whole,       \* history: the library as last completely installed
          opened,      \* history: folders the owner ever made public
          owed,        \* history: what the owner was told, or asked for, of each folder
          latest,      \* history: whose scan was the last to begin
          spoilt      \* history: since it began a change was missed, something failed, or a
                       \* scan that had begun earlier wrote after it

vars == <<disk, forgotten, stored, live, watched, dirty, thread, changes, whole, opened, owed,
          latest, spoilt>>
history == <<whole, opened, owed, latest, spoilt>>

\* op and folder are the command being answered; copy is the manifest an edit read; seen and
\* todo are a scan's results and the folders it has yet to visit, gen the one whose manifest
\* it is writing.
Idle == [step |-> "idle", op |-> "none", folder |-> NoFolder, copy |-> Default,
         seen |-> None, todo |-> {}, gen |-> NoFolder]

\* The daemon starts over whatever the owner did since it last ran.
Init == /\ disk \in [Folder -> {NoFolder, NoFile} \union Private]
        /\ stored \in [Folder -> {NoApp} \union Private]
        /\ live = None /\ whole = None
        /\ forgotten = {}
        /\ watched = FALSE /\ dirty = FALSE
        /\ thread = [t \in Thread |-> IF t = Starter THEN [Idle EXCEPT !.step = "list"] ELSE Idle]
        /\ changes = 0
        /\ opened = {}
        /\ owed = [f \in Folder |-> "nothing"]
        /\ latest = Starter /\ spoilt = FALSE

At(t, step) == thread[t].step = step
Goto(t, step) == thread' = [thread EXCEPT ![t] = [@ EXCEPT !.step = step]]
Spend == changes < MaxChanges /\ changes' = changes + 1
Fails == MayFail /\ Spend

\* Something changed on disk: nobody notices before the watch.
Changed == dirty' = (dirty \/ watched)

\* What a write leaves of itself: cut short by nothing, all of it; over what somebody else put
\* there meanwhile, perhaps with the tail of theirs; with a file that was replaced or a folder
\* that has gone, nothing.
Lands(f, m) ==
    \E content \in IF disk[f] = Cut THEN {m} ELSE {m, Garbled, disk[f]} :
        disk' = [disk EXCEPT ![f] = IF @ = NoFolder THEN @ ELSE content]

-----------------------------------------------------------------------------
(* Commands from the window or the CLI.                                    *)

Edits == {"pause", "resume", "open", "shut"}

\* The commands that rescan before they answer.
Rescans(op) == op \in {"pause", "resume", "forget", "create"}

\* Faulty variant: a level that is not one is written.
EditedMisnamed(op, m) ==
    CASE op = "pause"  -> [m EXCEPT !.paused = TRUE]
      [] op = "resume" -> [m EXCEPT !.paused = FALSE]
      [] op = "open"   -> [m EXCEPT !.visibility = "public"]
      [] op = "shut"   -> [m EXCEPT !.visibility = "closed"]

Edited(op, m) ==
    CASE op = "pause"  -> [m EXCEPT !.paused = TRUE]
      [] op = "resume" -> [m EXCEPT !.paused = FALSE]
      [] op = "open"   -> [m EXCEPT !.visibility = "public"]
      [] op = "shut"   -> [m EXCEPT !.visibility = "private"]

\* What the owner was told about a folder, unless two commands overlap on it.
Overlaps(c, f) == \E t \in Thread \ {c} : ~At(t, "idle") /\ thread[t].folder = f
Promise(c, f, op) ==
    owed' = [owed EXCEPT ![f] =
        CASE op = "pause" /\ ~Overlaps(c, f)                 -> "asked"
          [] op = "create" /\ ~Overlaps(c, f)                -> "created"
          [] op \in {"open", "shut", "forget"} /\ @ = "paused" -> "paused"
          [] OTHER                                           -> "nothing"]

\* The app must be in the library and its manifest must parse, or the command
\* ends in an error and changes nothing.
BeginEdit(c, f, op) ==
    /\ watched /\ At(c, "idle")
    /\ op \in Ops \intersect Edits
    /\ live[f] # NoApp
    /\ disk[f] \in Manifest
    /\ Spend
    /\ thread' = [thread EXCEPT ![c] =
         [@ EXCEPT !.step = "cut", !.op = op, !.folder = f, !.copy = disk[f]]]
    /\ Promise(c, f, op)
    /\ UNCHANGED <<disk, forgotten, stored, live, watched, dirty, whole, opened, latest, spoilt>>

\* fs::write, first half: the file is opened and truncated.
Truncate(c) ==
    LET f == thread[c].folder IN
    /\ At(c, "cut")
    /\ IF disk[f] = NoFolder
       THEN thread' = [thread EXCEPT ![c] = Idle] /\ UNCHANGED <<disk, dirty>>
       ELSE Goto(c, "fill") /\ disk' = [disk EXCEPT ![f] = Cut] /\ Changed
    /\ UNCHANGED <<forgotten, stored, live, watched, changes, history>>

\* Second half.
Fill(c) ==
    LET f == thread[c].folder
        m == Edited(thread[c].op, thread[c].copy)
    IN  /\ At(c, "fill")
        /\ Lands(f, m)
        /\ Changed
        /\ opened' = IF thread[c].op = "open" THEN opened \union {f} ELSE opened
        /\ Goto(c, IF Rescans(thread[c].op) THEN "list" ELSE "reply")
        /\ UNCHANGED <<forgotten, stored, live, watched, changes, whole, owed, latest, spoilt>>

\* app.forget: the path goes on the list, the folder stays.
BeginForget(c, f) ==
    /\ watched /\ At(c, "idle")
    /\ "forget" \in Ops
    /\ live[f] # NoApp
    /\ Spend
    /\ forgotten' = forgotten \union {f}
    /\ thread' = [thread EXCEPT ![c] =
         [@ EXCEPT !.step = "list", !.op = "forget", !.folder = f]]
    /\ Promise(c, f, "forget")
    /\ UNCHANGED <<disk, stored, live, watched, dirty, whole, opened, latest, spoilt>>

\* app.create and app.import: a new folder, whose name was free on disk.
BeginCreate(c, f) ==
    /\ watched /\ At(c, "idle")
    /\ "create" \in Ops
    /\ disk[f] = NoFolder
    /\ Spend
    /\ disk' = [disk EXCEPT ![f] = NoFile]
    /\ Changed
    /\ thread' = [thread EXCEPT ![c] =
         [@ EXCEPT !.step = "list", !.op = "create", !.folder = f]]
    /\ Promise(c, f, "create")
    /\ UNCHANGED <<forgotten, stored, live, watched, whole, opened, latest, spoilt>>

\* The answer goes out.  create answers with the app, or with an error when the
\* library does not have it.
Reply(c) ==
    LET f == thread[c].folder IN
    /\ At(c, "reply")
    /\ thread' = [thread EXCEPT ![c] = Idle]
    /\ owed' = [owed EXCEPT ![f] =
         IF thread[c].op = "pause" /\ @ = "asked" THEN "paused" ELSE @]
    /\ UNCHANGED <<disk, forgotten, stored, live, watched, dirty, changes, whole, opened, latest, spoilt>>

-----------------------------------------------------------------------------
(* One rescan.                                                             *)

AfterScan(t) == IF t \in Client THEN "reply" ELSE "idle"

\* The first scan is over: registry.watch, and then the socket is served.
StartWatch ==
    /\ ~watched /\ At(Starter, "idle")
    /\ watched' = TRUE
    /\ UNCHANGED <<disk, forgotten, stored, live, dirty, thread, changes, history>>

\* The quiet interval is over.  Whatever changes from here on wakes it again.
\* The halves of one write are never a whole quiet interval apart.
WatcherWakes(w) ==
    /\ At(w, "idle")
    /\ dirty
    /\ \A t \in Thread : thread[t].step \notin {"fill", "genfill"}
    /\ dirty' = FALSE
    /\ Goto(w, "list")
    /\ UNCHANGED <<disk, forgotten, stored, live, watched, changes, history>>

\* read_dir.
List(t) ==
    /\ At(t, "list")
    /\ thread' = [thread EXCEPT ![t] =
         [@ EXCEPT !.step = "read", !.seen = None,
                   !.todo = {f \in Folder : disk[f] # NoFolder}]]
    /\ latest' = t /\ spoilt' = FALSE
    /\ UNCHANGED <<disk, forgotten, stored, live, watched, dirty, changes, whole, opened, owed>>

\* It failed: the previous library keeps serving.
ListFails(t) ==
    /\ At(t, "list") /\ Fails
    /\ Goto(t, AfterScan(t))
    /\ spoilt' = TRUE
    /\ UNCHANGED <<disk, forgotten, stored, live, watched, dirty, whole, opened, owed, latest>>

\* A folder is done with, and is an app or is not.
Visited(t, f, entry) ==
    thread' = [thread EXCEPT ![t] =
        [@ EXCEPT !.step = "read", !.gen = NoFolder, !.todo = thread[t].todo \ {f},
                  !.seen = [thread[t].seen EXCEPT ![f] = entry]]]

\* load_or_create.  A folder that has gone is skipped; a manifest that is missing or does not
\* parse is to be replaced by the defaults.
Load(t, f) ==
    /\ At(t, "read")
    /\ f \in thread[t].todo
    /\ IF disk[f] \in Unread
       THEN thread' = [thread EXCEPT ![t] = [@ EXCEPT !.step = "gencut", !.gen = f]]
       ELSE Visited(t, f, IF disk[f] = NoFolder THEN NoApp ELSE disk[f])
    /\ UNCHANGED <<disk, forgotten, stored, live, watched, dirty, changes, history>>

\* generate writes without another look, first half ...
GenerateCut(t) ==
    LET f == thread[t].gen IN
    /\ At(t, "gencut")
    /\ IF disk[f] = NoFolder
       THEN Visited(t, f, NoApp) /\ UNCHANGED <<disk, dirty>>
       ELSE Goto(t, "genfill") /\ disk' = [disk EXCEPT ![f] = Cut] /\ Changed
    /\ UNCHANGED <<forgotten, stored, live, watched, changes, history>>

\* ... and second.
GenerateFill(t) ==
    LET f == thread[t].gen IN
    /\ At(t, "genfill")
    /\ Lands(f, Default)
    /\ Changed
    /\ Visited(t, f, Default)
    /\ UNCHANGED <<forgotten, stored, live, watched, changes, history>>

\* A manifest that cannot be read, or not be written: the folder is skipped.
LoadFails(t) ==
    /\ \/ At(t, "read") /\ \E f \in thread[t].todo : Visited(t, f, NoApp)
       \/ thread[t].step \in {"gencut", "genfill"} /\ Visited(t, thread[t].gen, NoApp)
    /\ Fails
    /\ spoilt' = TRUE
    /\ UNCHANGED <<disk, forgotten, stored, live, watched, dirty, whole, opened, owed, latest>>

\* Folders on the forgotten list are left out of the rest; a list that cannot be read is empty.
Filter(t) ==
    /\ At(t, "read")
    /\ thread[t].todo = {}
    /\ \E hidden \in {forgotten, {}} :
         LET kept == [f \in Folder |-> IF f \in hidden THEN NoApp ELSE thread[t].seen[f]]
         IN  /\ IF hidden = forgotten
                THEN UNCHANGED <<changes, spoilt>>
                ELSE Fails /\ spoilt' = TRUE
             /\ thread' = [thread EXCEPT ![t] =
                  [@ EXCEPT !.step = "persist", !.seen = kept,
                            !.todo = {f \in Folder : kept[f] # NoApp}]]
    /\ UNCHANGED <<disk, forgotten, stored, live, watched, dirty, whole, opened, owed, latest>>

\* What this scan writes comes after what a scan that began later has written.
Overtaken(t) == latest # t /\ thread[latest].step \notin {"read", "gencut", "genfill"}
Writing(t)   == spoilt' = (spoilt \/ Overtaken(t)) /\ UNCHANGED changes

\* upsert_app, one row at a time; one that fails is logged.
Persist(t, f) ==
    /\ At(t, "persist")
    /\ f \in thread[t].todo
    /\ \/ stored' = [stored EXCEPT ![f] = thread[t].seen[f]] /\ Writing(t)
       \/ Fails /\ spoilt' = TRUE /\ UNCHANGED stored
    /\ thread' = [thread EXCEPT ![t] = [@ EXCEPT !.todo = thread[t].todo \ {f}]]
    /\ UNCHANGED <<disk, forgotten, live, watched, dirty, whole, opened, owed, latest>>

\* retain_apps: rows this scan did not see are deleted; when that fails it is logged.
Retain(t) ==
    /\ At(t, "persist")
    /\ thread[t].todo = {}
    /\ \/ /\ stored' = [f \in Folder |-> IF thread[t].seen[f] = NoApp THEN NoApp ELSE stored[f]]
          /\ Writing(t)
       \/ Fails /\ spoilt' = TRUE /\ UNCHANGED stored
    /\ Goto(t, "take")
    /\ UNCHANGED <<disk, forgotten, live, watched, dirty, whole, opened, owed, latest>>

\* replace_announcing: the library's map is taken out under one lock ...
Take(t) ==
    /\ At(t, "take")
    /\ live' = None
    /\ Goto(t, "install")
    /\ UNCHANGED <<disk, forgotten, stored, watched, dirty, changes, history>>

\* The library as this scan leaves it: a folder that no longer resolves is left out.
Resolving(t) == [f \in Folder |-> IF disk[f] = NoFolder THEN NoApp ELSE thread[t].seen[f]]
Scanned(t) ==
    thread' = [thread EXCEPT ![t] =
        IF t \in Client THEN [@ EXCEPT !.step = "reply", !.seen = None] ELSE Idle]

\* Faulty variant: events that arrived during the rescan are thrown away.
InstallDraining(t) ==
    /\ At(t, "install")
    /\ live' = Resolving(t) /\ whole' = live'
    /\ dirty' = FALSE
    /\ Scanned(t)
    /\ Writing(t)
    /\ UNCHANGED <<disk, forgotten, stored, watched, opened, owed, latest>>

\* ... and the new one, announced name by name meanwhile, put in under another.
Install(t) ==
    /\ At(t, "install")
    /\ live' = Resolving(t) /\ whole' = live'
    /\ Scanned(t)
    /\ Writing(t)
    /\ UNCHANGED <<disk, forgotten, stored, watched, dirty, opened, owed, latest>>

-----------------------------------------------------------------------------
(* The owner, in Finder or an editor.                                      *)

Writes(f, content) ==
    /\ Spend
    /\ disk' = [disk EXCEPT ![f] = content]
    /\ Changed
    /\ opened' = IF content \in Manifest /\ content.visibility = "public"
                 THEN opened \union {f} ELSE opened
    /\ owed' = [owed EXCEPT ![f] = "nothing"]
    /\ spoilt' = (spoilt \/ (~watched /\ ~At(Starter, "list")))
    /\ UNCHANGED <<forgotten, stored, live, watched, thread, whole, latest>>

AddFolder(f) ==
    /\ disk[f] = NoFolder
    /\ \E content \in Manifest \union {NoFile} : Writes(f, content)

EditByHand(f) ==
    /\ disk[f] # NoFolder
    /\ \E content \in Manifest \union {Garbled} : Writes(f, content)

RemoveFolder(f) == disk[f] # NoFolder /\ Writes(f, NoFolder)

-----------------------------------------------------------------------------
Command(c) ==
    \E f \in Folder :
        \/ \E op \in Edits : BeginEdit(c, f, op)
        \/ BeginForget(c, f)
        \/ BeginCreate(c, f)

Rescan(t) ==
    \/ List(t) \/ ListFails(t) \/ GenerateCut(t) \/ GenerateFill(t) \/ LoadFails(t)
    \/ Filter(t) \/ Retain(t) \/ Take(t) \/ Install(t)
    \/ \E f \in Folder : Load(t, f) \/ Persist(t, f)

Answer(c) == Truncate(c) \/ Fill(c) \/ Reply(c)

ByHand == \E f \in Folder : AddFolder(f) \/ EditByHand(f) \/ RemoveFolder(f)

Next ==
    \/ \E c \in Client : Command(c) \/ Answer(c)
    \/ StartWatch
    \/ \E w \in Watcher : WatcherWakes(w)
    \/ \E t \in Thread : Rescan(t)
    \/ ByHand

Spec == Init /\ [][Next]_vars

\* Threads that have begun something finish it, and the watcher's timer fires.
\* Nobody owes the daemon a command or an edit.
Fairness ==
    /\ WF_vars(StartWatch)
    /\ \A t \in Thread : WF_vars(Rescan(t))
    /\ \A c \in Client : WF_vars(Answer(c))
    /\ \A w \in Watcher : WF_vars(WatcherWakes(w))

FairSpec == Spec /\ Fairness

-----------------------------------------------------------------------------
(* Properties.                                                             *)

ThreadStep == {"idle", "cut", "fill", "list", "read", "gencut", "genfill", "persist", "take", "install",
               "reply"}

ThreadRecord ==
    [step : ThreadStep, op : Ops \union {"none"}, folder : Folder \union {NoFolder},
     copy : Manifest, seen : [Folder -> Entry], todo : SUBSET Folder,
     gen : Folder \union {NoFolder}]

TypeOK ==
    /\ disk \in [Folder -> Manifest \union {NoFolder} \union Unread]
    /\ forgotten \subseteq Folder /\ opened \subseteq Folder
    /\ stored \in [Folder -> Entry]
    /\ live \in [Folder -> Entry] /\ whole \in [Folder -> Entry]
    /\ watched \in BOOLEAN /\ dirty \in BOOLEAN
    /\ changes \in 0 .. MaxChanges
    /\ owed \in [Folder -> {"nothing", "asked", "paused", "created"}]
    /\ thread \in [Thread -> ThreadRecord]
    /\ latest \in Thread /\ spoilt \in BOOLEAN

\* kt-registry: "nothing becomes reachable merely by appearing on disk".  Through
\* torn reads, regenerated manifests, stale scans and racing edits, an app is
\* served to the public only if the owner once said so.
OnlyTheOwnerOpens == \A f \in Folder : Public(live[f]) \/ Public(stored[f]) => f \in opened

\* sync_with: "make the store and the live library agree".  Once changes and failures stop, the
\* table and the library come to say what is on disk, and stay so, unless in the last scan
\* something failed, an older scan wrote after it, or a change came before the watch.
Agree ==
    \A f \in Folder :
        /\ disk[f] \in Manifest \union {NoFolder}
        /\ live[f] = IF f \in forgotten \/ disk[f] = NoFolder THEN NoApp ELSE disk[f]
        /\ stored[f] = live[f]
SettlesOnDisk == <>[](Agree \/ spoilt)

\* The same however scans fall (Registry::watch: "any event triggers a full rescan").
SettlesAnyhow == <>[]Agree

\* library.rs: a request "either sees the whole old library or the whole new
\* one, never a half-applied update".
RequestsSeeAWholeLibrary == live = whole

\* app.pause: "an owner who pauses an app expects it to stop answering now".
\* Once the command has been answered, nothing serves the app until the owner
\* resumes it or edits the folder.
PausedIsNotServed ==
    \A f \in Folder : owed[f] = "paused" => live[f] = NoApp \/ live[f].paused

\* write_visibility: "leaving everything else ... exactly as it was".  The file a
\* command is about to overwrite is the file it read.
EditsKeepTheRest ==
    [][\A c \in Client :
         At(c, "cut") /\ ~At(c, "cut")' /\ disk[thread[c].folder] # NoFolder
             => disk[thread[c].folder] = thread[c].copy]_vars

\* app.create "has to answer with the app it just made": the folder it made, if
\* nobody touched it since, is in the library when the answer goes out.
CreatedIsAnswered ==
    \A c \in Client :
        At(c, "reply") /\ owed[thread[c].folder] = "created"
            => live[thread[c].folder] # NoApp
=============================================================================
