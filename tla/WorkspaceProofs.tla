--------------------------- MODULE WorkspaceProofs ---------------------------
(***************************************************************************)
(* What holds of the workspace for any number of folders, socket clients,   *)
(* watchers and changes; and of the start of a daemon, with its keys and its *)
(* files, for any number of starts. Two machines that share nothing: what is *)
(* proved of each is proved from its own specification.                     *)
(***************************************************************************)
EXTENDS Workspace, Startup, Integers, FiniteSetTheorems, TLAPS

\* An edit leaves a manifest a manifest, and only "open" makes one public.
LEMMA EditedManifest ==
    ASSUME NEW op \in Edits, NEW m \in Manifest
    PROVE  /\ Edited(op, m) \in Manifest
           /\ Public(Edited(op, m)) => op = "open" \/ Public(m)
<1>0. \A b \in BOOLEAN : [m EXCEPT !.paused = b] \in Manifest
  BY ZenonT(30) DEF Manifest
<1>1. CASE op = "pause"
  <2>1. Edited(op, m) = [m EXCEPT !.paused = TRUE]
    BY <1>1 DEF Edited
  <2>2. [m EXCEPT !.paused = TRUE].visibility = m.visibility
    BY DEF Manifest
  <2> QED BY <1>0, <2>1, <2>2 DEF Public
<1>2. CASE op = "resume"
  <2>1. Edited(op, m) = [m EXCEPT !.paused = FALSE]
    BY <1>2 DEF Edited
  <2>2. [m EXCEPT !.paused = FALSE].visibility = m.visibility
    BY DEF Manifest
  <2> QED BY <1>0, <2>1, <2>2 DEF Public
<1>3. CASE op = "open"
  BY <1>3, SMT DEF Edited, Manifest, Public
<1>4. CASE op = "shut"
  BY <1>4, SMT DEF Edited, Manifest, Public
<1> QED BY <1>1, <1>2, <1>3, <1>4 DEF Edits

\* The manifest a scan writes where it finds none keeps the app private.
LEMMA DefaultManifest == Default \in Manifest /\ ~Public(Default)
BY DEF Default, Manifest, Public

\* Nothing on disk, in the table or in a scan stands for two things at once.
LEMMA Sentinels ==
    /\ NoFolder \notin Manifest /\ NoApp \notin Manifest
    /\ ~Public(NoFolder) /\ ~Public(NoFile) /\ ~Public(Cut)
    /\ ~Public(Garbled) /\ ~Public(NoApp)
BY WorkspaceAssumption DEF Public

\* The records threads move to are well typed.
LEMMA Records ==
    ASSUME NEW r \in ThreadRecord, NEW step \in ThreadStep,
           NEW seen \in [Folder -> Entry], NEW todo \in SUBSET Folder
    PROVE  /\ [r EXCEPT !.step = step] \in ThreadRecord
           /\ [r EXCEPT !.step = step, !.seen = seen] \in ThreadRecord
           /\ [r EXCEPT !.todo = todo, !.seen = seen] \in ThreadRecord
           /\ [r EXCEPT !.todo = todo] \in ThreadRecord
           /\ [r EXCEPT !.step = step, !.seen = seen, !.todo = todo] \in ThreadRecord
BY DEF ThreadRecord

\* A thread at rest is a thread.
LEMMA IdleRecord == Idle \in ThreadRecord /\ None \in [Folder -> Entry]
<1>1. None \in [Folder -> Entry]
  BY DEF None, Entry
<1> QED BY <1>1, DefaultManifest DEF Idle, ThreadRecord, ThreadStep

\* What a write leaves is a manifest or unreadable, and public only if it was, or the bytes are.
LEMMA WriteLands ==
    ASSUME NEW f, NEW m \in Manifest, NEW open, Lands(f, m),
           disk \in [Folder -> Manifest \union {NoFolder} \union Unread]
    PROVE  /\ disk' \in [Folder -> Manifest \union {NoFolder} \union Unread]
           /\ \A g \in Folder : Public(disk'[g]) => Public(disk[g]) \/ (g = f /\ Public(m))
<1>1. PICK content \in {m, Garbled, disk[f]} :
        disk' = [disk EXCEPT ![f] = IF disk[f] = NoFolder THEN disk[f] ELSE content]
  BY DEF Lands
<1>2. \A g \in Folder : disk'[g] = IF g = f THEN (IF disk[f] = NoFolder THEN disk[f] ELSE content) ELSE disk[g]
  BY <1>1
<1>3. Garbled \in Unread
  BY DEF Unread
<1>4. \A g \in Folder : disk'[g] \in Manifest \union {NoFolder} \union Unread
  BY <1>1, <1>2, <1>3
<1>5. DOMAIN disk' = Folder /\ disk' = [g \in Folder |-> disk'[g]]
  BY <1>1
<1> QED BY <1>1, <1>2, <1>4, <1>5, Sentinels

-----------------------------------------------------------------------------
\* TypeOK, one action at a time: the part about threads.
ThreadsOK == thread \in [Thread -> ThreadRecord]

\* Every statement of a scan or a command leaves its thread well typed.
LEMMA ThreadsStep == TypeOK /\ [Next]_vars => ThreadsOK'
<1> SUFFICES ASSUME TypeOK, [Next]_vars PROVE ThreadsOK'
  OBVIOUS
<1>0. ThreadsOK /\ disk \in [Folder -> Manifest \union {NoFolder} \union Unread]
  BY DEF TypeOK, ThreadsOK
<1> DEFINE becomes(t, r) == t \in Thread /\ r \in ThreadRecord
                              /\ thread' = [thread EXCEPT ![t] = r]
<1>1. ASSUME NEW t, NEW r, becomes(t, r) PROVE ThreadsOK'
  BY <1>0, <1>1 DEF ThreadsOK
<1>2. ASSUME NEW t \in Thread, NEW step \in ThreadStep, Goto(t, step) PROVE ThreadsOK'
  <2>1. [thread[t] EXCEPT !.step = step] \in ThreadRecord
    BY <1>0, Records, IdleRecord DEF ThreadsOK
  <2> QED BY <1>1, <1>2, <2>1 DEF Goto
<1>3. \A t \in Thread : thread[t] \in ThreadRecord
  BY <1>0 DEF ThreadsOK
<1> HIDE DEF becomes
<1>4. Client \subseteq Thread /\ Watcher \subseteq Thread
  BY DEF Thread
<1>5. ASSUME NEW c \in Client, NEW f \in Folder, NEW op \in Edits, BeginEdit(c, f, op)
      PROVE  ThreadsOK'
  <2>1. op \in Ops /\ disk[f] \in Manifest
    BY <1>5 DEF BeginEdit
  <2>2. [thread[c] EXCEPT !.step = "cut", !.op = op, !.folder = f, !.copy = disk[f]]
          \in ThreadRecord
    BY <1>3, <1>4, <2>1 DEF ThreadRecord, ThreadStep
  <2> QED BY <1>1, <1>4, <1>5, <2>2 DEF BeginEdit, becomes
<1>6. ASSUME NEW c \in Client, NEW f \in Folder, BeginForget(c, f) \/ BeginCreate(c, f)
      PROVE  ThreadsOK'
  <2>1. PICK op \in Ops : thread' = [thread EXCEPT ![c] =
              [thread[c] EXCEPT !.step = "list", !.op = op, !.folder = f]]
    BY <1>6 DEF BeginForget, BeginCreate
  <2>2. [thread[c] EXCEPT !.step = "list", !.op = op, !.folder = f] \in ThreadRecord
    BY <1>3, <1>4, <2>1 DEF ThreadRecord, ThreadStep
  <2> QED BY <1>1, <1>4, <2>1, <2>2 DEF becomes
<1>7. ASSUME NEW c \in Client, Answer(c) PROVE ThreadsOK'
  <2>1. CASE Truncate(c)
    <3>1. CASE thread' = [thread EXCEPT ![c] = Idle]
      BY <1>1, <1>4, <3>1, IdleRecord DEF becomes
    <3>2. CASE Goto(c, "fill")
      BY <1>2, <1>4, <3>2 DEF ThreadStep
    <3> QED BY <2>1, <3>1, <3>2 DEF Truncate
  <2>2. CASE Fill(c)
    BY <1>2, <1>4, <2>2 DEF Fill, ThreadStep
  <2>3. CASE Reply(c)
    BY <1>1, <1>4, <2>3, IdleRecord DEF becomes, Reply
  <2> QED BY <1>7, <2>1, <2>2, <2>3 DEF Answer
<1>8. ASSUME NEW w \in Watcher, WatcherWakes(w) PROVE ThreadsOK'
  BY <1>2, <1>4, <1>8 DEF WatcherWakes, ThreadStep
<1>9. ASSUME NEW t \in Thread, Rescan(t) PROVE ThreadsOK'
  <2>0. thread[t].seen \in [Folder -> Entry] /\ thread[t].todo \in SUBSET Folder
    BY <1>3 DEF ThreadRecord
  <2>1. CASE List(t)
    <3>1. [thread[t] EXCEPT !.step = "read", !.seen = None,
                            !.todo = {f \in Folder : disk[f] # NoFolder}] \in ThreadRecord
      BY <1>3, Records, IdleRecord DEF ThreadStep
    <3> QED BY <1>1, <2>1, <3>1 DEF becomes, List
  <2>2. CASE ListFails(t)
    BY <1>2, <2>2 DEF ListFails, AfterScan, ThreadStep
  <2>9. ASSUME NEW f, NEW entry \in Entry, Visited(t, f, entry) PROVE ThreadsOK'
    <3> DEFINE next == [thread[t].seen EXCEPT ![f] = entry]
    <3>1. next \in [Folder -> Entry]
      BY <2>0, <2>9
    <3>2. thread' = [thread EXCEPT ![t] =
              [thread[t] EXCEPT !.step = "read", !.gen = NoFolder, !.todo = thread[t].todo \ {f}, !.seen = next]]
      BY <2>9 DEF Visited
    <3> HIDE DEF next
    <3>3. [thread[t] EXCEPT !.step = "read", !.gen = NoFolder, !.todo = thread[t].todo \ {f}, !.seen = next]
            \in ThreadRecord
      BY <1>3, <2>0, <3>1 DEF ThreadRecord, ThreadStep
    <3> QED BY <1>1, <3>2, <3>3 DEF becomes
  <2>10. NoApp \in Entry /\ Default \in Entry
    BY DefaultManifest DEF Entry
  <2>3. ASSUME NEW f \in Folder, Load(t, f) PROVE ThreadsOK'
    <3>1. CASE disk[f] \in Unread
      <4>1. [thread[t] EXCEPT !.step = "gencut", !.gen = f] \in ThreadRecord
        BY <1>3 DEF ThreadRecord, ThreadStep
      <4> QED BY <1>1, <2>3, <3>1, <4>1 DEF becomes, Load
    <3>2. CASE disk[f] \notin Unread
      <4>1. (IF disk[f] = NoFolder THEN NoApp ELSE disk[f]) \in Entry
        BY <1>0, <3>2 DEF Entry
      <4> QED BY <2>3, <2>9, <3>2, <4>1 DEF Load
    <3> QED BY <3>1, <3>2
  <2>11. CASE GenerateCut(t)
    <3>1. CASE Visited(t, thread[t].gen, NoApp)
      BY <2>9, <2>10, <3>1
    <3>2. CASE Goto(t, "genfill")
      BY <1>2, <3>2 DEF ThreadStep
    <3> QED BY <2>11, <3>1, <3>2 DEF GenerateCut
  <2>12. CASE GenerateFill(t)
    BY <2>9, <2>10, <2>12 DEF GenerateFill
  <2>13. CASE LoadFails(t)
    BY <2>9, <2>10, <2>13 DEF LoadFails
  <2>4. CASE Filter(t)
    <3>0. PICK hidden \in {forgotten, {}} :
            thread' = [thread EXCEPT ![t] =
              [thread[t] EXCEPT !.step = "persist",
                  !.seen = [f \in Folder |-> IF f \in hidden THEN NoApp ELSE thread[t].seen[f]],
                  !.todo = {f \in Folder : [g \in Folder |-> IF g \in hidden THEN NoApp ELSE thread[t].seen[g]][f] # NoApp}]]
      BY <2>4 DEF Filter
    <3> DEFINE kept == [f \in Folder |-> IF f \in hidden THEN NoApp ELSE thread[t].seen[f]]
    <3> DEFINE left == {f \in Folder : kept[f] # NoApp}
    <3>1. kept \in [Folder -> Entry] /\ left \in SUBSET Folder
      BY <2>0 DEF Entry
    <3>2. thread' = [thread EXCEPT ![t] =
              [thread[t] EXCEPT !.step = "persist", !.seen = kept, !.todo = left]]
      BY <3>0
    <3> HIDE DEF kept, left
    <3>3. [thread[t] EXCEPT !.step = "persist", !.seen = kept, !.todo = left] \in ThreadRecord
      BY <1>3, <3>1, Records DEF ThreadStep
    <3> QED BY <1>1, <3>2, <3>3 DEF becomes
  <2>5. ASSUME NEW f \in Folder, Persist(t, f) PROVE ThreadsOK'
    <3>1. [thread[t] EXCEPT !.todo = thread[t].todo \ {f}] \in ThreadRecord
      BY <1>3, <2>0 DEF ThreadRecord
    <3> QED BY <1>1, <2>5, <3>1 DEF becomes, Persist
  <2>6. CASE Retain(t)
    BY <1>2, <2>6 DEF Retain, ThreadStep
  <2>7. CASE Take(t)
    BY <1>2, <2>7 DEF Take, ThreadStep
  <2>8. CASE Install(t)
    <3>1. [thread[t] EXCEPT !.step = "reply", !.seen = None] \in ThreadRecord
      BY <1>3, Records, IdleRecord DEF ThreadStep
    <3>2. thread' = [thread EXCEPT ![t] =
              IF t \in Client THEN [thread[t] EXCEPT !.step = "reply", !.seen = None] ELSE Idle]
      BY <2>8 DEF Install, Scanned
    <3> QED BY <1>1, <3>1, <3>2, IdleRecord DEF becomes
  <2> QED BY <1>9, <2>1, <2>2, <2>3, <2>4, <2>5, <2>6, <2>7, <2>8, <2>11, <2>12, <2>13 DEF Rescan
<1>10. CASE StartWatch \/ ByHand \/ UNCHANGED vars
  <2>1. thread' = thread
    BY <1>10 DEF StartWatch, ByHand, AddFolder, EditByHand, RemoveFolder, Writes, vars
  <2> QED BY <1>0, <2>1 DEF ThreadsOK
<1> QED BY <1>5, <1>6, <1>7, <1>8, <1>9, <1>10 DEF Next, Command

-----------------------------------------------------------------------------
(* The invariant behind OnlyTheOwnerOpens: everything a thread may yet put   *)
(* on disk, in the table or in the library is covered by what the owner      *)
(* opened, and a command that is editing is one of the four edits.           *)
Covered(map, open) == \A f \in Folder : Public(map[f]) => f \in open

Sound(r, open) ==
    /\ Covered(r.seen, open)
    /\ r.step \in {"cut", "fill"} =>
         r.op \in Edits /\ r.folder \in Folder /\ (Public(r.copy) => r.folder \in open)

OpenInv ==
    /\ Covered(disk, opened) /\ Covered(live, opened) /\ Covered(stored, opened)
    /\ \A t \in Thread : Sound(thread[t], opened)

RestOK ==
    /\ disk \in [Folder -> Manifest \union {NoFolder} \union Unread]
    /\ forgotten \subseteq Folder /\ opened \subseteq Folder
    /\ stored \in [Folder -> Entry]
    /\ live \in [Folder -> Entry] /\ whole \in [Folder -> Entry]
    /\ watched \in BOOLEAN /\ dirty \in BOOLEAN
    /\ changes \in 0 .. MaxChanges
    /\ owed \in [Folder -> {"nothing", "asked", "paused", "created"}]
    /\ latest \in Thread /\ spoilt \in BOOLEAN

\* And everything the threads share.
LEMMA RestStep == TypeOK /\ OpenInv /\ [Next]_vars => RestOK'
<1> SUFFICES ASSUME TypeOK, OpenInv, [Next]_vars PROVE RestOK'
  OBVIOUS
<1>0. RestOK /\ \A t \in Thread : thread[t] \in ThreadRecord /\ Sound(thread[t], opened)
  BY DEF TypeOK, RestOK, OpenInv
<1> USE <1>0
<1>1. ASSUME Spend \/ Fails \/ UNCHANGED changes PROVE changes' \in 0 .. MaxChanges
  BY <1>1, WorkspaceAssumption DEF Spend, Fails, RestOK
<1>10. Changed => dirty' \in BOOLEAN
  BY DEF Changed
<1>2. ASSUME NEW c, NEW f \in Folder, NEW op, Promise(c, f, op)
      PROVE  owed' \in [Folder -> {"nothing", "asked", "paused", "created"}]
  BY <1>2 DEF Promise, RestOK
<1>3. Client \subseteq Thread
  BY DEF Thread
<1>4. ASSUME NEW c \in Client, Command(c) PROVE RestOK'
  <2> PICK f \in Folder : \/ \E op \in Edits : BeginEdit(c, f, op)
                          \/ BeginForget(c, f)
                          \/ BeginCreate(c, f)
    BY <1>4 DEF Command
  <2>1. Spend /\ (\E op : Promise(c, f, op)) /\ UNCHANGED <<stored, live, watched, whole, opened, latest, spoilt>>
    BY DEF BeginEdit, BeginForget, BeginCreate
  <2>2. /\ disk' \in [Folder -> Manifest \union {NoFolder} \union Unread]
        /\ forgotten' \subseteq Folder /\ dirty' \in BOOLEAN
    BY <1>10 DEF BeginEdit, BeginForget, BeginCreate, RestOK, Unread
  <2> QED BY <1>1, <1>2, <2>1, <2>2 DEF RestOK
<1>5. ASSUME NEW c \in Client, Answer(c) PROVE RestOK'
  <2>0. thread[c] \in ThreadRecord /\ Sound(thread[c], opened)
    BY <1>3
  <2>1. CASE Truncate(c)
    BY <1>10, <2>1 DEF Truncate, RestOK, Unread, history
  <2>2. CASE Fill(c)
    <3>1. thread[c].op \in Edits /\ thread[c].folder \in Folder
      BY <2>0, <2>2 DEF Fill, Sound, At
    <3>2. Edited(thread[c].op, thread[c].copy) \in Manifest
      BY <2>0, <3>1, EditedManifest DEF ThreadRecord
    <3>5. disk' \in [Folder -> Manifest \union {NoFolder} \union Unread]
      BY <2>2, <3>2, WriteLands DEF Fill, RestOK
    <3>6. opened' \subseteq Folder /\ dirty' \in BOOLEAN
          /\ UNCHANGED <<forgotten, stored, live, watched, changes, whole, owed, latest, spoilt>>
      BY <1>10, <2>2, <3>1 DEF Fill, RestOK
    <3> QED BY <3>5, <3>6 DEF RestOK
  <2>3. CASE Reply(c)
    BY <2>3 DEF Reply, RestOK
  <2> QED BY <1>5, <2>1, <2>2, <2>3 DEF Answer
<1>6. ASSUME NEW w \in Watcher, WatcherWakes(w) PROVE RestOK'
  BY <1>6 DEF WatcherWakes, RestOK, history
<1>7. ASSUME NEW t \in Thread, Rescan(t) PROVE RestOK'
  <2>0. thread[t].seen \in [Folder -> Entry]
    BY DEF ThreadRecord
  <2>1. CASE List(t)
    BY <2>1 DEF List, RestOK
  <2>7. CASE ListFails(t) \/ LoadFails(t)
    BY <1>1, <2>7 DEF ListFails, LoadFails, RestOK
  <2>8. CASE Filter(t)
    <3>1. (Fails \/ UNCHANGED changes) /\ spoilt' \in BOOLEAN
      BY <2>8 DEF Filter, RestOK
    <3> QED BY <1>1, <2>8, <3>1 DEF Filter, RestOK
  <2>9. Writing(t) => UNCHANGED changes /\ spoilt' \in BOOLEAN
    BY DEF Writing, RestOK, Overtaken
  <2>2. ASSUME NEW f \in Folder, Load(t, f) PROVE RestOK'
    BY <2>2 DEF Load, RestOK, history
  <2>10. CASE GenerateCut(t)
    <3>1. disk' = disk \/ disk' = [disk EXCEPT ![thread[t].gen] = Cut]
      BY <2>10 DEF GenerateCut
    <3>2. disk' \in [Folder -> Manifest \union {NoFolder} \union Unread]
      BY <3>1 DEF RestOK, Unread
    <3>3. dirty' \in BOOLEAN
      BY <1>10, <2>10 DEF GenerateCut, RestOK
    <3> QED BY <2>10, <3>2, <3>3 DEF GenerateCut, RestOK, history
  <2>11. CASE GenerateFill(t)
    <3>1. disk' \in [Folder -> Manifest \union {NoFolder} \union Unread]
      BY <2>11, DefaultManifest, WriteLands DEF GenerateFill, RestOK
    <3> QED BY <1>10, <2>11, <3>1 DEF GenerateFill, RestOK, history
  <2>3. ASSUME NEW f \in Folder, Persist(t, f) PROVE RestOK'
    <3>1. stored' \in [Folder -> Entry] /\ (Fails \/ UNCHANGED changes) /\ spoilt' \in BOOLEAN
      BY <2>0, <2>3, <2>9 DEF Persist, RestOK
    <3> QED BY <1>1, <2>3, <3>1 DEF Persist, RestOK
  <2>4. CASE Retain(t)
    <3>1. stored' \in [Folder -> Entry] /\ (Fails \/ UNCHANGED changes) /\ spoilt' \in BOOLEAN
      BY <2>4, <2>9 DEF Retain, RestOK, Entry
    <3> QED BY <1>1, <2>4, <3>1 DEF Retain, RestOK
  <2>5. CASE Take(t)
    BY <2>5, IdleRecord DEF Take, RestOK, history
  <2>6. CASE Install(t)
    <3>1. [f \in Folder |-> IF disk[f] = NoFolder THEN NoApp ELSE thread[t].seen[f]]
            \in [Folder -> Entry]
      BY <2>0 DEF Entry
    <3>2. live' \in [Folder -> Entry] /\ whole' \in [Folder -> Entry]
      BY <2>6, <3>1 DEF Install, Resolving
    <3> QED BY <2>6, <2>9, <3>2 DEF Install, RestOK
  <2> QED BY <1>7, <2>1, <2>2, <2>3, <2>4, <2>5, <2>6, <2>7, <2>8, <2>10, <2>11 DEF Rescan
<1>8. CASE ByHand
  <2> PICK f \in Folder, content \in Manifest \union {NoFolder} \union Unread :
        Writes(f, content)
    BY <1>8 DEF ByHand, AddFolder, EditByHand, RemoveFolder, Unread
  <2>1. disk' \in [Folder -> Manifest \union {NoFolder} \union Unread]
    BY DEF Writes, RestOK
  <2>2. spoilt' \in BOOLEAN
    BY DEF Writes, RestOK
  <2> QED BY <1>1, <1>10, <2>1, <2>2 DEF Writes, RestOK
<1>9. CASE StartWatch \/ UNCHANGED vars
  BY <1>9 DEF StartWatch, vars, RestOK, history
<1> QED BY <1>4, <1>5, <1>6, <1>7, <1>8, <1>9 DEF Next

\* Where no manifest was read nothing is open.
LEMMA NoneIsCovered ==
    ASSUME NEW open
    PROVE  Covered(None, open) /\ Sound(Idle, open)
BY Sentinels DEF Covered, None, Sound, Idle

\* What is covered stays covered as the owner opens more.
LEMMA CoverGrows ==
    ASSUME NEW open, NEW more, open \subseteq more
    PROVE  /\ \A map : Covered(map, open) => Covered(map, more)
           /\ \A r : Sound(r, open) => Sound(r, more)
BY DEF Covered, Sound

\* No statement carries an app that its owner did not open to where it is served.
LEMMA OpenStep == TypeOK /\ OpenInv /\ [Next]_vars => OpenInv'
<1> SUFFICES ASSUME TypeOK, OpenInv, [Next]_vars PROVE OpenInv'
  OBVIOUS
<1>0. /\ thread \in [Thread -> ThreadRecord]
      /\ \A t \in Thread : thread[t] \in ThreadRecord /\ Sound(thread[t], opened)
      /\ disk \in [Folder -> Manifest \union {NoFolder} \union Unread]
      /\ live \in [Folder -> Entry] /\ stored \in [Folder -> Entry]
      /\ Covered(disk, opened) /\ Covered(live, opened) /\ Covered(stored, opened)
  BY DEF TypeOK, OpenInv
<1> DEFINE becomes(t, r) == t \in Thread /\ thread' = [thread EXCEPT ![t] = r]
\* It is enough to look at the record of the thread that moved.
<1>1. ASSUME NEW t, NEW r, becomes(t, r), Sound(r, opened'), opened \subseteq opened'
      PROVE  \A u \in Thread : Sound(thread'[u], opened')
  <2>1. \A u \in Thread : thread'[u] = IF u = t THEN r ELSE thread[u]
    BY <1>0, <1>1
  <2> QED BY <1>0, <1>1, <2>1, CoverGrows
<1>2. ASSUME NEW t \in Thread, NEW step \in ThreadStep \ {"cut"}, Goto(t, step),
             opened \subseteq opened', step = "fill" => thread[t].step = "cut"
      PROVE  \A u \in Thread : Sound(thread'[u], opened')
  <2> DEFINE r == [thread[t] EXCEPT !.step = step]
  <2>1. /\ r.step = step /\ r.seen = thread[t].seen /\ r.op = thread[t].op
        /\ r.folder = thread[t].folder /\ r.copy = thread[t].copy
    BY <1>0 DEF ThreadRecord
  <2>2. becomes(t, r)
    BY <1>2 DEF Goto
  <2> HIDE DEF r, becomes
  <2>3. Sound(r, opened')
    <3>1. Sound(thread[t], opened')
      BY <1>0, <1>2, CoverGrows
    <3> QED BY <1>2, <2>1, <3>1 DEF Sound
  <2> QED BY <1>1, <1>2, <2>2, <2>3
<1> HIDE DEF becomes
<1>3. Client \subseteq Thread /\ Watcher \subseteq Thread
  BY DEF Thread
<1>4. ASSUME NEW c \in Client, NEW f \in Folder, NEW op \in Edits, BeginEdit(c, f, op)
      PROVE  OpenInv'
  <2> DEFINE r == [thread[c] EXCEPT !.step = "cut", !.op = op, !.folder = f, !.copy = disk[f]]
  <2>1. /\ becomes(c, r) /\ disk[f] \in Manifest
        /\ UNCHANGED <<disk, live, stored, opened>>
    BY <1>3, <1>4 DEF BeginEdit, becomes
  <2>2. r.seen = thread[c].seen /\ r.op = op /\ r.folder = f /\ r.copy = disk[f]
    BY <1>0, <1>3 DEF ThreadRecord
  <2> HIDE DEF r
  <2>3. Sound(r, opened')
    BY <1>0, <1>3, <2>1, <2>2 DEF Sound, Covered
  <2> QED BY <1>0, <1>1, <2>1, <2>3 DEF OpenInv
<1>5. ASSUME NEW c \in Client, NEW f \in Folder, BeginForget(c, f) \/ BeginCreate(c, f)
      PROVE  OpenInv'
  <2>1. PICK op : thread' = [thread EXCEPT ![c] =
              [thread[c] EXCEPT !.step = "list", !.op = op, !.folder = f]]
    BY <1>5 DEF BeginForget, BeginCreate
  <2> DEFINE r == [thread[c] EXCEPT !.step = "list", !.op = op, !.folder = f]
  <2>2. becomes(c, r)
    BY <1>3, <2>1 DEF becomes
  <2>3. r.seen = thread[c].seen /\ r.step = "list"
    BY <1>0, <1>3 DEF ThreadRecord
  <2> HIDE DEF r
  <2>4. UNCHANGED <<live, stored, opened>> /\ Covered(disk', opened)
    BY <1>0, <1>5, Sentinels DEF BeginForget, BeginCreate, Covered
  <2>5. Sound(r, opened')
    BY <1>0, <1>3, <2>3, <2>4 DEF Sound
  <2> QED BY <1>0, <1>1, <2>2, <2>4, <2>5 DEF OpenInv
<1>6. ASSUME NEW c \in Client, Answer(c) PROVE OpenInv'
  <2>1. CASE Truncate(c)
    <3>1. UNCHANGED <<live, stored, opened>> /\ Covered(disk', opened)
      BY <1>0, <2>1, Sentinels DEF Truncate, Covered, history
    <3>2. CASE thread' = [thread EXCEPT ![c] = Idle]
      BY <1>0, <1>1, <1>3, <3>1, <3>2, NoneIsCovered DEF becomes, OpenInv
    <3>3. CASE Goto(c, "fill")
      <4>1. thread[c].step = "cut"
        BY <2>1 DEF Truncate, At
      <4> QED BY <1>0, <1>2, <1>3, <3>1, <3>3, <4>1 DEF OpenInv, ThreadStep
    <3> QED BY <2>1, <3>2, <3>3 DEF Truncate
  <2>2. CASE Fill(c)
    <3> DEFINE f == thread[c].folder
    <3> DEFINE m == Edited(thread[c].op, thread[c].copy)
    <3>1. thread[c] \in ThreadRecord /\ thread[c].op \in Edits /\ f \in Folder
          /\ (Public(thread[c].copy) => f \in opened)
      BY <1>0, <1>3, <2>2 DEF Fill, Sound, At
    <3>2. opened' = IF thread[c].op = "open" THEN opened \union {f} ELSE opened
      BY <2>2 DEF Fill
    <3>3. Public(m) => f \in opened'
      BY <3>1, <3>2, EditedManifest DEF ThreadRecord
    <3>4. \A g \in Folder : Public(disk'[g]) => Public(disk[g]) \/ (g = f /\ Public(m))
      <4>1. m \in Manifest /\ Lands(f, m)
        BY <2>2, <3>1, EditedManifest DEF Fill, ThreadRecord
      <4> HIDE DEF m, f
      <4> QED BY <1>0, <4>1, WriteLands
    <3>5. UNCHANGED <<live, stored>>
          /\ Goto(c, IF Rescans(thread[c].op) THEN "list" ELSE "reply")
      BY <2>2 DEF Fill
    <3>6. opened \subseteq opened'
      BY <3>2
    <3> HIDE DEF m, f
    <3>7. Covered(disk', opened')
      BY <1>0, <3>3, <3>4, <3>6 DEF Covered
    <3>8. Covered(live', opened') /\ Covered(stored', opened')
      BY <1>0, <3>5, <3>6, CoverGrows
    <3>9. \A u \in Thread : Sound(thread'[u], opened')
      BY <1>2, <1>3, <3>5, <3>6 DEF ThreadStep
    <3> QED BY <3>7, <3>8, <3>9 DEF OpenInv
  <2>3. CASE Reply(c)
    BY <1>0, <1>1, <1>3, <2>3, NoneIsCovered DEF Reply, becomes, OpenInv
  <2> QED BY <1>6, <2>1, <2>2, <2>3 DEF Answer
<1>7. ASSUME NEW w \in Watcher, WatcherWakes(w) PROVE OpenInv'
  BY <1>0, <1>2, <1>3, <1>7 DEF WatcherWakes, history, OpenInv, ThreadStep
<1>8. ASSUME NEW t \in Thread, Rescan(t) PROVE OpenInv'
  <2>0. opened' = opened
    BY <1>8 DEF Rescan, ListFails, List, Load, GenerateCut, GenerateFill, LoadFails, Filter, Persist, Retain, Take,
       Install, history
  <2>1. CASE ListFails(t) \/ Retain(t) \/ Take(t)
    <3>1. PICK step \in ThreadStep \ {"cut", "fill"} : Goto(t, step)
      BY <2>1 DEF ListFails, Retain, Take, AfterScan, ThreadStep
    <3>2. disk' = disk /\ Covered(live', opened) /\ Covered(stored', opened)
      BY <1>0, <2>1, Sentinels, NoneIsCovered DEF ListFails, Retain, Take, Covered
    <3> QED BY <1>0, <1>2, <2>0, <3>1, <3>2 DEF OpenInv
  <2>2. CASE List(t)
    <3>1. PICK todo : thread' = [thread EXCEPT ![t] =
              [thread[t] EXCEPT !.step = "read", !.seen = None, !.todo = todo]]
      BY <2>2 DEF List
    <3> DEFINE r == [thread[t] EXCEPT !.step = "read", !.seen = None, !.todo = todo]
    <3>2. r.seen = None /\ r.step = "read"
      BY <1>0 DEF ThreadRecord
    <3>3. becomes(t, r)
      BY <3>1 DEF becomes
    <3> HIDE DEF r
    <3>4. Sound(r, opened')
      BY <3>2, NoneIsCovered DEF Sound
    <3> QED BY <1>0, <1>1, <2>0, <2>2, <3>3, <3>4 DEF List, OpenInv
  <2>7. ASSUME NEW f, NEW entry, Visited(t, f, entry), Public(entry) => f \in opened
        PROVE  \A u \in Thread : Sound(thread'[u], opened')
    <3> DEFINE next == [thread[t].seen EXCEPT ![f] = entry]
    <3> DEFINE r == [thread[t] EXCEPT !.step = "read", !.gen = NoFolder, !.todo = thread[t].todo \ {f}, !.seen = next]
    <3>1. becomes(t, r)
      BY <2>7 DEF Visited, becomes
    <3>2. r.seen = next /\ r.step = "read"
      BY <1>0 DEF ThreadRecord
    <3>3. thread[t].seen \in [Folder -> Entry] /\ Covered(thread[t].seen, opened)
      BY <1>0 DEF ThreadRecord, Sound
    <3> HIDE DEF r
    <3>4. Covered(next, opened)
      BY <2>7, <3>3 DEF Covered
    <3>5. Sound(r, opened')
      BY <2>0, <3>2, <3>4 DEF Sound
    <3> QED BY <1>1, <2>0, <3>1, <3>5
  <2>3. ASSUME NEW f \in Folder, Load(t, f) PROVE OpenInv'
    <3>1. UNCHANGED <<disk, live, stored>>
      BY <2>3 DEF Load
    <3>2. CASE disk[f] \in Unread
      <4> DEFINE r == [thread[t] EXCEPT !.step = "gencut", !.gen = f]
      <4>1. becomes(t, r)
        BY <2>3, <3>2 DEF Load, becomes
      <4>2. r.seen = thread[t].seen /\ r.step = "gencut"
        BY <1>0 DEF ThreadRecord
      <4> HIDE DEF r
      <4>3. Sound(r, opened')
        BY <1>0, <2>0, <4>2 DEF Sound
      <4> QED BY <1>0, <1>1, <2>0, <3>1, <4>1, <4>3 DEF OpenInv
    <3>3. CASE disk[f] \notin Unread
      <4> DEFINE entry == IF disk[f] = NoFolder THEN NoApp ELSE disk[f]
      <4>1. Visited(t, f, entry)
        BY <2>3, <3>3 DEF Load
      <4>2. Public(entry) => f \in opened
        BY <1>0, Sentinels DEF Covered
      <4> HIDE DEF entry
      <4> QED BY <1>0, <2>0, <2>7, <3>1, <4>1, <4>2 DEF OpenInv
    <3> QED BY <3>2, <3>3
  <2>8. CASE GenerateCut(t)
    <3>1. UNCHANGED <<live, stored>>
      BY <2>8 DEF GenerateCut
    <3>2. Covered(disk', opened)
      <4>1. disk' = disk \/ disk' = [disk EXCEPT ![thread[t].gen] = Cut]
        BY <2>8 DEF GenerateCut
      <4> QED BY <1>0, <4>1, Sentinels DEF Covered
    <3>3. CASE Visited(t, thread[t].gen, NoApp)
      BY <1>0, <2>0, <2>7, <3>1, <3>2, <3>3, Sentinels DEF OpenInv
    <3>4. CASE Goto(t, "genfill")
      BY <1>0, <1>2, <2>0, <3>1, <3>2, <3>4 DEF OpenInv, ThreadStep
    <3> QED BY <2>8, <3>3, <3>4 DEF GenerateCut
  <2>9. CASE GenerateFill(t)
    <3>1. UNCHANGED <<live, stored>> /\ Visited(t, thread[t].gen, Default) /\ Lands(thread[t].gen, Default)
      BY <2>9 DEF GenerateFill
    <3>2. Covered(disk', opened)
      BY <1>0, <3>1, DefaultManifest, WriteLands DEF Covered
    <3> QED BY <1>0, <2>0, <2>7, <3>1, <3>2, DefaultManifest DEF OpenInv
  <2>10. CASE LoadFails(t)
    <3>1. UNCHANGED <<disk, live, stored>> /\ \E f : Visited(t, f, NoApp)
      BY <2>10 DEF LoadFails
    <3> QED BY <1>0, <2>0, <2>7, <3>1, Sentinels DEF OpenInv
  <2>4. CASE Filter(t)
    <3>a. PICK hidden \in {forgotten, {}} : \E todo :
            thread' = [thread EXCEPT ![t] =
              [thread[t] EXCEPT !.step = "persist",
                  !.seen = [f \in Folder |-> IF f \in hidden THEN NoApp ELSE thread[t].seen[f]],
                  !.todo = todo]]
      BY <2>4 DEF Filter
    <3>0. PICK todo :
            thread' = [thread EXCEPT ![t] =
              [thread[t] EXCEPT !.step = "persist",
                  !.seen = [f \in Folder |-> IF f \in hidden THEN NoApp ELSE thread[t].seen[f]],
                  !.todo = todo]]
      BY <3>a
    <3> DEFINE kept == [f \in Folder |-> IF f \in hidden THEN NoApp ELSE thread[t].seen[f]]
    <3>1. thread' = [thread EXCEPT ![t] =
              [thread[t] EXCEPT !.step = "persist", !.seen = kept, !.todo = todo]]
      BY <3>0
    <3> DEFINE r == [thread[t] EXCEPT !.step = "persist", !.seen = kept, !.todo = todo]
    <3>2. r.seen = kept /\ r.step = "persist"
      BY <1>0 DEF ThreadRecord
    <3>3. becomes(t, r)
      BY <3>1 DEF becomes
    <3> HIDE DEF r
    <3>4. Covered(kept, opened)
      BY <1>0, Sentinels DEF Covered, Sound
    <3>5. Sound(r, opened')
      BY <2>0, <3>2, <3>4 DEF Sound
    <3> QED BY <1>0, <1>1, <2>0, <2>4, <3>3, <3>5 DEF Filter, OpenInv
  <2>5. ASSUME NEW f \in Folder, Persist(t, f) PROVE OpenInv'
    <3> DEFINE r == [thread[t] EXCEPT !.todo = thread[t].todo \ {f}]
    <3>1. r.seen = thread[t].seen /\ r.step = thread[t].step
      BY <1>0 DEF ThreadRecord
    <3>2. becomes(t, r) /\ r.step = "persist" /\ UNCHANGED <<disk, live>>
      BY <2>5, <3>1 DEF Persist, becomes, At
    <3> HIDE DEF r
    <3>3. Covered(thread[t].seen, opened)
      BY <1>0 DEF Sound
    <3>4. Covered(stored', opened)
      BY <1>0, <2>5, <3>3 DEF Persist, Covered
    <3>5. Sound(r, opened')
      BY <2>0, <3>1, <3>2, <3>3 DEF Sound
    <3> QED BY <1>0, <1>1, <2>0, <3>2, <3>4, <3>5 DEF OpenInv
  <2>6. CASE Install(t)
    <3> DEFINE next == [f \in Folder |-> IF disk[f] = NoFolder THEN NoApp ELSE thread[t].seen[f]]
    <3> DEFINE r == IF t \in Client THEN [thread[t] EXCEPT !.step = "reply", !.seen = None] ELSE Idle
    <3>1. live' = next /\ becomes(t, r) /\ UNCHANGED <<disk, stored>>
      BY <2>6 DEF Install, Resolving, Scanned, becomes
    <3>2. Sound(r, opened')
      <4>1. LET q == [thread[t] EXCEPT !.step = "reply", !.seen = None]
            IN  q.step = "reply" /\ q.seen = None
        BY <1>0 DEF ThreadRecord
      <4> QED BY <4>1, NoneIsCovered DEF Sound
    <3>3. Covered(next, opened)
      BY <1>0, Sentinels DEF Covered, Sound
    <3> HIDE DEF next, r
    <3> QED BY <1>0, <1>1, <2>0, <3>1, <3>2, <3>3 DEF OpenInv
  <2> QED BY <1>8, <2>1, <2>2, <2>3, <2>4, <2>5, <2>6, <2>8, <2>9, <2>10 DEF Rescan
<1>9. CASE ByHand
  <2> PICK f \in Folder, content \in Manifest \union {NoFolder, NoFile, Garbled} :
        Writes(f, content)
    BY <1>9 DEF ByHand, AddFolder, EditByHand, RemoveFolder
  <2>1. /\ opened \subseteq opened' /\ (Public(content) => f \in opened')
        /\ UNCHANGED <<live, stored, thread>>
    BY Sentinels DEF Writes, Public
  <2>2. Covered(disk', opened')
    BY <1>0, <2>1 DEF Writes, Covered
  <2> QED BY <1>0, <2>1, <2>2, CoverGrows DEF OpenInv
<1>10. CASE StartWatch \/ UNCHANGED vars
  BY <1>0, <1>10 DEF StartWatch, vars, OpenInv, history
<1> QED BY <1>4, <1>5, <1>6, <1>7, <1>8, <1>9, <1>10 DEF Next, Command

-----------------------------------------------------------------------------
\* So it is at all times.
LEMMA WorkspaceInvariant == Spec => [](TypeOK /\ OpenInv)
<1>1. Init => TypeOK
  <2> SUFFICES ASSUME Init PROVE TypeOK
    OBVIOUS
  <2>1. live \in [Folder -> Entry] /\ disk \in [Folder -> Manifest \union {NoFolder} \union Unread]
    BY IdleRecord DEF Init, Private, Unread
  <2>2. stored \in [Folder -> Entry] /\ whole \in [Folder -> Entry]
    BY IdleRecord DEF Init, Entry, Private
  <2>3. owed \in [Folder -> {"nothing", "asked", "paused", "created"}]
    BY DEF Init
  <2>4. thread \in [Thread -> ThreadRecord]
    <3>1. [Idle EXCEPT !.step = "list"] \in ThreadRecord
      BY IdleRecord DEF ThreadRecord, ThreadStep
    <3> QED BY <3>1, IdleRecord DEF Init
  <2>5. /\ forgotten \subseteq Folder /\ opened \subseteq Folder
        /\ watched \in BOOLEAN /\ dirty \in BOOLEAN /\ changes = 0
        /\ latest \in Thread /\ spoilt \in BOOLEAN
    BY DEF Init, Thread
  <2>6. MaxChanges \in Nat
    BY WorkspaceAssumption
  <2>7. changes \in 0 .. MaxChanges
    BY <2>5, <2>6
  <2> QED BY <2>1, <2>2, <2>3, <2>4, <2>5, <2>7 DEF TypeOK
<1>2. Init => OpenInv
  <2> SUFFICES ASSUME Init PROVE OpenInv
    OBVIOUS
  <2>1. Covered(disk, opened) /\ Covered(live, opened)
    BY NoneIsCovered, Sentinels DEF Init, Covered, Private
  <2>2. Covered(stored, opened)
    BY Sentinels DEF Init, Covered, Private
  <2>3. ASSUME NEW t \in Thread PROVE Sound(thread[t], opened)
    <3>1. thread[t].step \notin {"cut", "fill"} /\ thread[t].seen = None
      BY DEF Init, Idle
    <3> QED BY <3>1, NoneIsCovered DEF Sound
  <2> QED BY <2>1, <2>2, <2>3 DEF OpenInv
<1>3. TypeOK /\ OpenInv /\ [Next]_vars => (TypeOK /\ OpenInv)'
  <2>1. RestOK' /\ ThreadsOK' => TypeOK'
    BY DEF TypeOK, RestOK, ThreadsOK
  <2> QED BY <2>1, ThreadsStep, RestStep, OpenStep
<1> QED BY <1>1, <1>2, <1>3, PTL DEF Spec

\* Type correctness: folders, table, library and every thread's copies stay in
\* range, however commands, rescans and hand edits interleave.
THEOREM TypeCorrect == Spec => []TypeOK
BY WorkspaceInvariant, PTL

\* kt-registry: "nothing becomes reachable merely by appearing on disk".  For any
\* number of folders, clients, watchers and edits, torn and stale ones included,
\* no app is served to the public, or stored as public, unless the owner opened it.
THEOREM NothingOpensByItself == Spec => []OnlyTheOwnerOpens
<1>1. OpenInv => OnlyTheOwnerOpens
  BY DEF OpenInv, Covered, OnlyTheOwnerOpens
<1> QED BY <1>1, WorkspaceInvariant, PTL

-----------------------------------------------------------------------------
(***************************************************************************)
(* The start of a daemon.                                                  *)
(***************************************************************************)

Where == {"off", "migrating", "seeding", "marking", "keys", "ports", "looking",
          "clearing", "binding", "bound", "serving", "stopping"}
Stage == {"idle", "get", "set", "again", "back", "done"}
Keyring == [session : Nat, kept : BOOLEAN, install : Nat]
Filed == [key : Nat, legible : BOOLEAN]
Unasked == {"off", "migrating", "seeding", "marking"}

\* The keystore thread, what it serves with and what is filed.
KeysTypes ==
    /\ asker \in [Process -> [at : Stage, name : Names, new : Nat, got : Keyring]]
    /\ held \in [Process -> Keyring]
    /\ drawer \in [kind : {"keychain", "file"}, session : Filed, install : Filed]
    /\ minted \in Nat
    /\ \A n \in Names : drawer[n].key <= minted
    /\ \A p \in Process : asker[p].new <= minted

\* A thread asks only once its process has got so far.
AskedInTime == \A p \in Process : at[p] \in Unasked => asker[p].at = "idle"

PlacesTypes ==
    /\ at \in [Process -> Where]
    /\ sockfile \in Process \union {NoProcess, Stranger}
    /\ busy \in [Port -> Process \union {NoProcess, Stranger}]
    /\ \A n \in Port : busy[n] \in Process => Alive(busy[n])

\* Who is there, or was until just now, is where the file says, and a file that is being cleared is stale.
SocketIsKept ==
    ~raced /\ ~mistaken =>
      /\ \A p \in Process : at[p] \in {"bound", "serving", "stopping"} => sockfile = p
      /\ \A p, q \in Process : at[p] = "clearing" /\ at[q] = "clearing" => p = q
      /\ (\E p \in Process : at[p] = "clearing") => sockfile # NoProcess /\ ~Holds(sockfile)

\* A migration is recorded with it, and the sample app is written down, about to be, or excused.
StoresAreKept ==
    /\ database \in [tables : 0..Latest, version : 0..Latest, marked : BOOLEAN]
    /\ database.tables = database.version
    /\ sample \in {"none", "there"}
    /\ made \in Nat /\ excused \in Nat /\ made <= 1 + excused
    /\ ~database.marked /\ (\A p \in Process : at[p] # "marking") => made <= excused

StartupInv == KeysTypes /\ AskedInTime /\ PlacesTypes /\ SocketIsKept /\ StoresAreKept

-----------------------------------------------------------------------------
\* What a start can find.
LEMMA StartupStart == StartupInit => StartupInv
<1> SUFFICES ASSUME StartupInit PROVE StartupInv
  OBVIOUS
<1>1. /\ at = [p \in Process |-> "off"] /\ asker = [p \in Process |-> Resting]
      /\ held = [p \in Process |-> Unheld]
      /\ database = [tables |-> 0, version |-> 0, marked |-> FALSE]
      /\ sample = "none" /\ sockfile \in {NoProcess, Stranger}
      /\ made = 0 /\ excused = 0 /\ crowded = FALSE /\ raced = FALSE /\ mistaken = FALSE
      /\ minted = 2
  BY DEF StartupInit
<1>2. PICK kind \in {"keychain", "file"}, key \in {Absent, Misshapen, 2}, old \in {Absent, 2} :
        drawer = [kind |-> kind, session |-> [key |-> old, legible |-> TRUE],
                  install |-> [key |-> key, legible |-> TRUE]]
  BY DEF StartupInit
<1>3. PICK taken \in {0, 80} : busy = [n \in Port |-> IF n = taken THEN Stranger ELSE NoProcess]
  BY DEF StartupInit
<1>4. Unheld \in Keyring
  BY DEF Unheld, Keyring, Absent
<1>5. Resting \in [at : Stage, name : Names, new : Nat, got : Keyring] /\ Resting.at = "idle" /\ Resting.new = 0
  BY <1>4 DEF Resting, Stage, Names, Absent
<1>6. /\ drawer \in [kind : {"keychain", "file"}, session : Filed, install : Filed]
      /\ drawer.session.key <= 2 /\ drawer.install.key <= 2
  BY <1>2 DEF Filed, Absent, Misshapen
<1>7. KeysTypes
  BY <1>1, <1>4, <1>5, <1>6 DEF KeysTypes, Names
<1>8. AskedInTime
  BY <1>1, <1>5 DEF AskedInTime
<1>9. PlacesTypes
  <2>1. busy \in [Port -> Process \union {NoProcess, Stranger}] /\ \A n \in Port : busy[n] \in {NoProcess, Stranger}
    BY <1>3
  <2>2. NoProcess \notin Process /\ Stranger \notin Process
    BY StartupAssumption DEF NoProcess, Stranger
  <2> QED BY <1>1, <2>1, <2>2 DEF PlacesTypes, Where
<1>10. SocketIsKept /\ StoresAreKept
  BY <1>1, StartupAssumption DEF SocketIsKept, StoresAreKept
<1> QED BY <1>7, <1>8, <1>9, <1>10 DEF StartupInv

-----------------------------------------------------------------------------
(* The keystore thread.                                                    *)

Ends(p) == asker' = [asker EXCEPT ![p] = Resting]
Asks(p) == asker' = [asker EXCEPT ![p] = [Resting EXCEPT !.at = "get"]]

\* A thread that is not asking holds nothing of an earlier one (keys::load_or_create).
LEMMA RestingType ==
    /\ Unheld \in Keyring
    /\ Resting \in [at : Stage, name : Names, new : Nat, got : Keyring] /\ Resting.at = "idle" /\ Resting.new = 0
    /\ Resting.name = "session" /\ Resting.got = Unheld
    /\ [Resting EXCEPT !.at = "get"] \in [at : Stage, name : Names, new : Nat, got : Keyring]
    /\ [Resting EXCEPT !.at = "get"].new = 0 /\ [Resting EXCEPT !.at = "get"].at = "get"
    /\ [Resting EXCEPT !.at = "get"].name = "session" /\ [Resting EXCEPT !.at = "get"].got = Unheld
<1>1. Unheld \in Keyring
  BY DEF Unheld, Keyring, Absent
<1> QED BY <1>1 DEF Resting, Stage, Names, Absent

\* What the thread's item is.
LEMMA ItemType ==
    ASSUME KeysTypes, NEW p \in Process
    PROVE  /\ Name(p) \in Names /\ Item(p) \in Filed /\ Item(p).key <= minted
           /\ asker[p].new \in Nat /\ asker[p].new <= minted /\ asker[p].got \in Keyring
BY DEF KeysTypes, Name, Item, Names

\* One name settled leaves a key of its kind under it (resolve, resolve_install).
LEMMA SettleKeeps ==
    ASSUME KeysTypes, NEW p \in Process, NEW key \in Nat, NEW kept \in BOOLEAN, Settle(p, key, kept)
    PROVE  /\ asker' \in [Process -> [at : Stage, name : Names, new : Nat, got : Keyring]]
           /\ asker'[p].new = 0 /\ asker'[p].name = "install"
           /\ asker'[p].at = (IF Name(p) = "session" THEN "get" ELSE "done")
           /\ Name(p) = "session" =>
                /\ asker'[p].got.session = key /\ asker'[p].got.kept = kept
                /\ asker'[p].got.install = asker[p].got.install
           /\ Name(p) # "session" =>
                /\ asker'[p].got.session = asker[p].got.session /\ asker'[p].got.kept = asker[p].got.kept
                /\ asker'[p].got.install = key
           /\ \A q \in Process \ {p} : asker'[q] = asker[q]
<1> DEFINE got == IF Name(p) = "session"
                  THEN [asker[p].got EXCEPT !.session = key, !.kept = kept]
                  ELSE [asker[p].got EXCEPT !.install = key]
           record == [at |-> IF Name(p) = "session" THEN "get" ELSE "done",
                      name |-> "install", new |-> Absent, got |-> got]
<1>1. asker' = [asker EXCEPT ![p] = record]
  BY DEF Settle, Step
<1>2. asker[p].got \in Keyring
  BY ItemType
<1>3. /\ got \in Keyring
      /\ Name(p) = "session" => got.session = key /\ got.kept = kept /\ got.install = asker[p].got.install
      /\ Name(p) # "session" =>
           got.session = asker[p].got.session /\ got.kept = asker[p].got.kept /\ got.install = key
  BY <1>2 DEF Keyring
<1> HIDE DEF got
<1>4. record \in [at : Stage, name : Names, new : Nat, got : Keyring]
  BY <1>3 DEF Stage, Names, Absent
<1>5. /\ record.new = 0 /\ record.name = "install" /\ record.got = got
      /\ record.at = (IF Name(p) = "session" THEN "get" ELSE "done")
  BY DEF Absent
<1> HIDE DEF record
<1>6. asker \in [Process -> [at : Stage, name : Names, new : Nat, got : Keyring]]
  BY DEF KeysTypes
<1>7. asker'[p] = record /\ \A q \in Process \ {p} : asker'[q] = asker[q]
  BY <1>1, <1>6
<1> QED BY <1>1, <1>3, <1>4, <1>5, <1>6, <1>7

\* Settling touches neither what is filed nor what is minted.
LEMMA SettledTypes ==
    ASSUME KeysTypes, NEW p \in Process, NEW key \in Nat, NEW kept \in BOOLEAN, Settle(p, key, kept),
           UNCHANGED <<held, drawer, minted>>
    PROVE  KeysTypes'
<1>1. /\ asker' \in [Process -> [at : Stage, name : Names, new : Nat, got : Keyring]]
      /\ asker'[p].new = 0 /\ \A q \in Process \ {p} : asker'[q] = asker[q]
  BY SettleKeeps
<1>2. \A q \in Process : asker'[q].new <= minted
  BY <1>1 DEF KeysTypes
<1> QED BY <1>1, <1>2 DEF KeysTypes

\* A key that could not be kept is settled on all the same (resolve, Unsaved).
LEMMA UnsavedIsSettled ==
    ASSUME KeysTypes, NEW p \in Process, Unsaved(p)
    PROVE  \E key \in Nat : Settle(p, key, FALSE) /\ (Name(p) # "session" => key = Absent)
<1>1. asker[p].new \in Nat /\ Absent \in Nat
  BY ItemType DEF Absent
<1> QED BY <1>1 DEF Unsaved

\* A step of the thread keeps its keys keys.
LEMMA AskerKeepsTypes ==
    ASSUME KeysTypes, NEW p \in Process, AskerStep(p) PROVE KeysTypes' /\ (at' = at)
<1>0. at' = at /\ held' = held
  BY DEF AskerStep
<1>1. /\ Name(p) \in Names /\ Item(p) \in Filed /\ Item(p).key <= minted /\ Item(p).key \in Nat
      /\ asker[p].new \in Nat /\ asker[p].new <= minted /\ minted \in Nat
  BY ItemType DEF KeysTypes, Filed
<1>2. CASE LoadKey(p)
  <2>1. UNCHANGED <<drawer, minted>> /\ Settle(p, Item(p).key, TRUE)
    BY <1>2 DEF LoadKey
  <2> QED BY <1>0, <1>1, <2>1, SettledTypes
<1>3. CASE Renew(p)
  <2>1. drawer' = drawer /\ minted' = minted + 1 /\ asker' = [asker EXCEPT ![p] = [asker[p] EXCEPT !.at = "set", !.new = minted + 1]]
    BY <1>3 DEF Renew, Replace, Step
  <2>2. asker' \in [Process -> [at : Stage, name : Names, new : Nat, got : Keyring]]
    <3>1. [asker[p] EXCEPT !.at = "set", !.new = minted + 1]
            \in [at : Stage, name : Names, new : Nat, got : Keyring]
      <4>1. asker[p] \in [at : Stage, name : Names, new : Nat, got : Keyring] /\ "set" \in Stage /\ minted + 1 \in Nat
        BY <1>1 DEF KeysTypes, Stage
      <4> QED BY <4>1
    <3> QED BY <2>1, <3>1 DEF KeysTypes
  <2>3. \A q \in Process : asker'[q].new <= minted'
    BY <1>1, <2>1 DEF KeysTypes
  <2>4. \A n \in Names : drawer[n].key \in Nat
    BY DEF KeysTypes, Names, Filed
  <2>5. minted' \in Nat /\ \A n \in Names : drawer'[n].key <= minted'
    BY <1>1, <2>1, <2>4 DEF KeysTypes
  <2> QED BY <1>0, <2>1, <2>2, <2>3, <2>5 DEF KeysTypes
<1>4. CASE LeaveAlone(p)
  <2>1. UNCHANGED <<drawer, minted>> /\ Settle(p, 0, FALSE)
    BY <1>4 DEF LeaveAlone, Absent
  <2> QED BY <1>0, <2>1, SettledTypes
<1>5. CASE Save(p) \/ RemoveOld(p)
  <2>1. PICK key \in Nat, legible \in BOOLEAN, phase \in Stage :
          /\ key <= minted /\ minted' = minted
          /\ drawer' = [drawer EXCEPT ![Name(p)] = [key |-> key, legible |-> legible]]
          /\ asker' = [asker EXCEPT ![p] = [asker[p] EXCEPT !.at = phase]]
    <3>1. CASE Save(p)
      <4>1. "back" \in Stage
        BY DEF Stage
      <4> QED BY <1>1, <3>1, <4>1 DEF Save, Write, Step
    <3>2. CASE RemoveOld(p)
      <4>1. "again" \in Stage /\ Absent \in Nat /\ Absent <= minted
        BY <1>1 DEF Stage, Absent
      <4> QED BY <3>2, <4>1 DEF RemoveOld, Write, Step
    <3> QED BY <1>5, <3>1, <3>2
  <2>2. [key |-> key, legible |-> legible] \in Filed
    BY DEF Filed
  <2>3. /\ drawer' \in [kind : {"keychain", "file"}, session : Filed, install : Filed]
        /\ \A n \in Names : drawer'[n].key <= minted
    BY <1>1, <2>1, <2>2 DEF KeysTypes, Names
  <2>4. /\ asker' \in [Process -> [at : Stage, name : Names, new : Nat, got : Keyring]]
        /\ \A q \in Process : asker'[q].new <= minted
    BY <2>1 DEF KeysTypes
  <2> QED BY <1>0, <2>1, <2>3, <2>4 DEF KeysTypes
<1>6. CASE SaveFails(p)
  <2>1. UNCHANGED <<drawer, minted>> /\ \E key \in Nat : Settle(p, key, FALSE)
    BY <1>6, UnsavedIsSettled DEF SaveFails
  <2> QED BY <1>0, <2>1, SettledTypes
<1>7. CASE ReadBack(p)
  <2>1. UNCHANGED <<drawer, minted>> /\ \E key \in Nat, kept \in BOOLEAN : Settle(p, key, kept)
    BY <1>1, <1>7, UnsavedIsSettled DEF ReadBack
  <2> QED BY <1>0, <2>1, SettledTypes
<1> QED BY <1>2, <1>3, <1>4, <1>5, <1>6, <1>7 DEF AskerStep

-----------------------------------------------------------------------------
(* The other steps of a daemon.                                            *)

\* What a step of run() is, seen from its place: it goes to another one, or its process ends.
Moves(p, x)  == at' = [at EXCEPT ![p] = x]
Leaves(p) ==
    /\ Moves(p, "off") /\ Ends(p)
    /\ busy' = [n \in Port |-> IF busy[n] = p THEN NoProcess ELSE busy[n]]

\* A process is neither of the two strangers to the files and the ports.
LEMMA ProcessIsNumber == \A p \in Process : p \in Nat /\ p # NoProcess /\ p # Stranger
BY StartupAssumption DEF NoProcess, Stranger

\* The places after a move: each process but one is where it was.
LEMMA MoveIsOnes ==
    ASSUME PlacesTypes, NEW p \in Process, NEW x \in Where, Moves(p, x)
    PROVE  /\ at' \in [Process -> Where] /\ at'[p] = x
           /\ \A q \in Process \ {p} : at'[q] = at[q]
BY DEF PlacesTypes, Moves

\* A process that ends gives its ports back and its thread goes with it (the operating system).
LEMMA LeavesKeeps ==
    ASSUME KeysTypes, AskedInTime, PlacesTypes, NEW p \in Process, Leaves(p),
           UNCHANGED <<held, drawer, minted>>, sockfile' \in {sockfile, NoProcess}
    PROVE  KeysTypes' /\ AskedInTime' /\ PlacesTypes'
<1>1. /\ at' \in [Process -> Where] /\ at'[p] = "off" /\ \A q \in Process \ {p} : at'[q] = at[q]
  BY MoveIsOnes DEF Leaves, Where
<1>2. /\ asker' \in [Process -> [at : Stage, name : Names, new : Nat, got : Keyring]]
      /\ asker'[p] = Resting /\ \A q \in Process \ {p} : asker'[q] = asker[q]
  BY RestingType DEF Leaves, Ends, KeysTypes
<1>3. KeysTypes'
  BY <1>2, RestingType DEF KeysTypes
<1>4. AskedInTime'
  BY <1>1, <1>2, RestingType DEF AskedInTime
<1>5. PlacesTypes'
  <2>1. busy' \in [Port -> Process \union {NoProcess, Stranger}]
    BY DEF PlacesTypes, Leaves
  <2>2. ASSUME NEW n \in Port, busy'[n] \in Process PROVE at'[busy'[n]] # "off"
    <3>1. busy'[n] = busy[n] /\ busy[n] # p
      BY <2>2, ProcessIsNumber DEF Leaves
    <3> QED BY <1>1, <2>2, <3>1 DEF PlacesTypes, Alive
  <2>3. sockfile' \in Process \union {NoProcess, Stranger}
    BY DEF PlacesTypes
  <2> QED BY <1>1, <2>1, <2>2, <2>3 DEF PlacesTypes, Alive
<1> QED BY <1>3, <1>4, <1>5

\* The database and what is known of the sample app do not depend on a process that was not
\* about to write the mark.
LEMMA StoresStay ==
    ASSUME StoresAreKept, PlacesTypes, NEW p \in Process, NEW x \in Where, Moves(p, x), at[p] # "marking",
           UNCHANGED <<database, sample, made, excused>>
    PROVE  StoresAreKept'
<1>1. at'[p] = x /\ \A q \in Process \ {p} : at'[q] = at[q]
  BY MoveIsOnes
<1>2. (\A q \in Process : at'[q] # "marking") => \A q \in Process : at[q] # "marking"
  BY <1>1
<1> QED BY <1>2 DEF StoresAreKept

\* A process at a place from which it neither answers nor clears, and that it leaves for another,
\* changes nothing about the socket.
LEMMA SocketStays ==
    ASSUME SocketIsKept, PlacesTypes, NEW p \in Process, NEW x \in Where \ {"clearing", "bound", "serving", "stopping"},
           Moves(p, x), UNCHANGED <<sockfile, raced, mistaken>>
    PROVE  SocketIsKept'
<1>1. at'[p] = x /\ \A q \in Process \ {p} : at'[q] = at[q]
  BY MoveIsOnes
<1> SUFFICES ASSUME ~raced, ~mistaken
    PROVE  /\ \A q \in Process : at'[q] \in {"bound", "serving", "stopping"} => sockfile = q
           /\ \A q, r \in Process : at'[q] = "clearing" /\ at'[r] = "clearing" => q = r
           /\ (\E q \in Process : at'[q] = "clearing") => sockfile # NoProcess /\ ~Holds(sockfile)'
  BY DEF SocketIsKept, Holds, Answers
<1>2. \A q \in Process : at'[q] \in {"clearing", "bound", "serving", "stopping"} => at'[q] = at[q]
  BY <1>1
<1>3. ~Holds(sockfile) => ~Holds(sockfile)'
  BY <1>2 DEF Holds, Answers
<1> QED BY <1>2, <1>3 DEF SocketIsKept

\* The same of the ports and of the file, wherever a living process goes.
LEMMA PlaceStays ==
    ASSUME PlacesTypes, NEW p \in Process, NEW x \in Where \ {"off"}, Moves(p, x), UNCHANGED busy,
           sockfile' \in Process \union {NoProcess, Stranger}
    PROVE  PlacesTypes'
<1>1. /\ at' \in [Process -> Where] /\ at'[p] = x /\ \A q \in Process \ {p} : at'[q] = at[q]
  BY MoveIsOnes
<1> QED BY <1>1 DEF PlacesTypes, Alive

\* The same of the thread, where nobody goes back to before it was let go.
LEMMA AskedStays ==
    ASSUME AskedInTime, PlacesTypes, NEW p \in Process, NEW x \in Where, Moves(p, x), UNCHANGED asker,
           x \in Unasked => at[p] \in Unasked
    PROVE  AskedInTime'
<1>1. at'[p] = x /\ \A q \in Process \ {p} : at'[q] = at[q]
  BY MoveIsOnes
<1> QED BY <1>1 DEF AskedInTime

\* A process begins (run).
LEMMA StartKeeps == ASSUME StartupInv, NEW p \in Process, Start(p) PROVE StartupInv'
<1>1. /\ at[p] = "off" /\ Moves(p, "migrating") /\ held' = [held EXCEPT ![p] = Unheld]
      /\ UNCHANGED <<asker, drawer, database, sample, sockfile, busy, made, excused, crowded, raced, mistaken, minted>>
  BY DEF Start, Moves, stores, histories
<1>2. "migrating" \in Where \ {"off", "clearing", "bound", "serving", "stopping"} /\ "migrating" \in Unasked /\ at[p] \in Unasked
  BY <1>1 DEF Where, Unasked
<1>3. held' \in [Process -> Keyring]
  BY <1>1, RestingType DEF StartupInv, KeysTypes
<1>4. KeysTypes'
  BY <1>1, <1>3 DEF StartupInv, KeysTypes
<1>5. AskedInTime'
  BY <1>1, <1>2, AskedStays DEF StartupInv
<1>6. PlacesTypes'
  <2>1. sockfile' \in Process \union {NoProcess, Stranger}
    BY <1>1 DEF StartupInv, PlacesTypes
  <2> QED BY <1>1, <1>2, <2>1, PlaceStays DEF StartupInv
<1>7. SocketIsKept'
  BY <1>1, <1>2, SocketStays DEF StartupInv
<1>8. StoresAreKept'
  BY <1>1, <1>2, StoresStay DEF StartupInv
<1> QED BY <1>4, <1>5, <1>6, <1>7, <1>8 DEF StartupInv

\* And ends: killed, tidied up after, or by giving up (run, socket::cleanup).
LEMMA EndKeeps ==
    ASSUME StartupInv, NEW p \in Process,
           \/ Crash(p) \/ Cleanup(p) \/ NotOpened(p) \/ NoPort(p) \/ AlreadyRunning(p) \/ SocketFails(p)
           \/ WatchFails(p)
    PROVE  StartupInv'
<1>1. Leaves(p) /\ UNCHANGED <<held, drawer, database, sample, made, crowded, raced, mistaken, minted>>
  BY DEF Crash, Cleanup, NotOpened, NoPort, AlreadyRunning, SocketFails, WatchFails, GiveUp, Ended, Leaves, Moves, Ends,
         stores, histories
<1>2. \/ at[p] = "stopping" /\ sockfile' = NoProcess
      \/ sockfile' = sockfile
  BY DEF Crash, Cleanup, NotOpened, NoPort, AlreadyRunning, SocketFails, WatchFails, GiveUp
<1>3. KeysTypes' /\ AskedInTime' /\ PlacesTypes'
  BY <1>1, <1>2, LeavesKeeps DEF StartupInv
<1>4. "off" \in Where \ {"clearing", "bound", "serving", "stopping"} /\ Moves(p, "off")
  BY <1>1 DEF Where, Leaves
<1>5. at'[p] = "off" /\ \A q \in Process \ {p} : at'[q] = at[q]
  BY <1>4, MoveIsOnes DEF StartupInv
<1>6. SocketIsKept'
  <2>1. CASE sockfile' = sockfile
    BY <1>1, <1>4, <2>1, SocketStays DEF StartupInv
  <2>2. CASE at[p] = "stopping" /\ sockfile' = NoProcess
    <3>1. ~raced /\ ~mistaken => sockfile = p /\ Holds(p)
      BY <2>2 DEF StartupInv, SocketIsKept, Holds
    <3>2. ~raced /\ ~mistaken => \A q \in Process \ {p} : at[q] \notin {"bound", "serving", "stopping", "clearing"}
      BY <2>2, <3>1 DEF StartupInv, SocketIsKept
    <3> QED BY <1>1, <1>5, <3>2 DEF SocketIsKept
  <2> QED BY <1>2, <2>1, <2>2
<1>7. StoresAreKept'
  <2>1. CASE at[p] # "marking"
    <3>1. UNCHANGED excused
      BY <2>1 DEF Crash, Cleanup, NotOpened, NoPort, AlreadyRunning, SocketFails, WatchFails, histories
    <3> QED BY <1>1, <1>4, <2>1, <3>1, StoresStay DEF StartupInv
  <2>2. CASE at[p] = "marking"
    <3>1. excused' = excused + 1
      BY <2>2 DEF Crash, Cleanup, NotOpened, NoPort, AlreadyRunning, SocketFails, WatchFails
    <3> QED BY <1>1, <3>1 DEF StartupInv, StoresAreKept
  <2> QED BY <2>1, <2>2
<1> QED BY <1>3, <1>6, <1>7 DEF StartupInv

\* The database is brought up and the workspace opened (Db::open).
LEMMA OpenKeeps ==
    ASSUME StartupInv, NEW p \in Process, Migrate(p) \/ Opened(p) PROVE StartupInv'
<1>1. CASE Migrate(p)
  <2>1. /\ UNCHANGED <<at, asker, held, drawer, sample, sockfile, busy, made, excused, crowded, raced, mistaken, minted>>
        /\ database.version < Latest
        /\ database' = [database EXCEPT !.tables = @ + 1, !.version = @ + 1]
    BY <1>1 DEF Migrate, histories
  <2>2. StoresAreKept'
    <3>1. database \in [tables : 0..Latest, version : 0..Latest, marked : BOOLEAN] /\ database.tables = database.version
      BY DEF StartupInv, StoresAreKept
    <3>2. database.version + 1 \in 0..Latest
      BY <2>1, <3>1, StartupAssumption
    <3>3. /\ database' \in [tables : 0..Latest, version : 0..Latest, marked : BOOLEAN]
          /\ database'.tables = database'.version /\ database'.marked = database.marked
      BY <2>1, <3>1, <3>2
    <3> QED BY <2>1, <3>3 DEF StartupInv, StoresAreKept
  <2>3. KeysTypes' /\ AskedInTime' /\ PlacesTypes' /\ SocketIsKept'
    BY <2>1 DEF StartupInv, KeysTypes, AskedInTime, PlacesTypes, SocketIsKept, Alive, Holds, Answers
  <2> QED BY <2>2, <2>3 DEF StartupInv
<1>2. CASE Opened(p)
  <2>1. /\ UNCHANGED <<asker, held, drawer, database, sample, sockfile, busy, made, excused, crowded, raced, mistaken, minted>>
        /\ at[p] = "migrating" /\ Moves(p, "seeding")
    BY <1>2 DEF Opened, Moves, stores, histories
  <2>2. "seeding" \in Where \ {"off", "clearing", "bound", "serving", "stopping"} /\ at[p] \in Unasked
    BY <2>1 DEF Where, Unasked
  <2>3. KeysTypes'
    BY <2>1 DEF StartupInv, KeysTypes
  <2>4. sockfile' \in Process \union {NoProcess, Stranger}
    BY <2>1 DEF StartupInv, PlacesTypes
  <2>5. PlacesTypes'
    BY <2>1, <2>2, <2>4, PlaceStays DEF StartupInv
  <2>6. AskedInTime' /\ SocketIsKept' /\ StoresAreKept'
    BY <2>1, <2>2, AskedStays, SocketStays, StoresStay DEF StartupInv
  <2> QED BY <2>3, <2>5, <2>6 DEF StartupInv
<1> QED BY <1>1, <1>2

\* The keystore thread is let go as its process comes to wait for it (run: the keys).
LEMMA AskKeeps ==
    ASSUME KeysTypes, AskedInTime, PlacesTypes, SocketIsKept, NEW p \in Process, Moves(p, "keys"), Asks(p),
           UNCHANGED <<held, drawer, minted, sockfile, busy, raced, mistaken>>
    PROVE  KeysTypes' /\ AskedInTime' /\ PlacesTypes' /\ SocketIsKept'
<1>1. "keys" \in Where \ {"off", "clearing", "bound", "serving", "stopping"} /\ "keys" \notin Unasked
  BY DEF Where, Unasked
<1>2. at'[p] = "keys" /\ \A q \in Process \ {p} : at'[q] = at[q]
  BY <1>1, MoveIsOnes
<1>3. /\ asker' \in [Process -> [at : Stage, name : Names, new : Nat, got : Keyring]]
      /\ asker'[p].new = 0 /\ \A q \in Process \ {p} : asker'[q] = asker[q]
  BY RestingType DEF Asks, KeysTypes
<1>4. KeysTypes'
  BY <1>3 DEF KeysTypes
<1>5. AskedInTime'
  BY <1>1, <1>2, <1>3 DEF AskedInTime
<1>6. sockfile' \in Process \union {NoProcess, Stranger}
  BY DEF PlacesTypes
<1>7. PlacesTypes'
  BY <1>1, <1>6, PlaceStays
<1>8. SocketIsKept'
  BY <1>1, SocketStays
<1> QED BY <1>4, <1>5, <1>7, <1>8

\* The sample app is put there, or not, and that is written down, or not (sample::seed, mark).
LEMMA SeedKeeps ==
    ASSUME StartupInv, NEW p \in Process, Seed(p) PROVE StartupInv'
<1>1. /\ UNCHANGED <<asker, held, drawer, database, sockfile, busy, crowded, raced, mistaken, minted>>
      /\ at[p] = "seeding" /\ Moves(p, "marking") /\ ~database.marked
      /\ \/ UNCHANGED <<sample, made, excused>>
         \/ /\ sample' = "there" /\ made' = made + 1
            /\ excused' = IF \E q \in Process : at[q] = "marking" THEN excused + 1 ELSE excused
  BY DEF Seed, Moves
<1>2. "marking" \in Where \ {"off", "clearing", "bound", "serving", "stopping"} /\ at[p] \in Unasked
  BY <1>1 DEF Where, Unasked
<1>3. KeysTypes'
  BY <1>1 DEF StartupInv, KeysTypes
<1>4. sockfile' \in Process \union {NoProcess, Stranger}
  BY <1>1 DEF StartupInv, PlacesTypes
<1>5. PlacesTypes'
  BY <1>1, <1>2, <1>4, PlaceStays DEF StartupInv
<1>6. AskedInTime' /\ SocketIsKept'
  BY <1>1, <1>2, AskedStays, SocketStays DEF StartupInv
<1>7. at'[p] = "marking"
  BY <1>1, <1>2, MoveIsOnes DEF StartupInv
<1>8. StoresAreKept'
  <2>1. made \in Nat /\ excused \in Nat /\ made <= 1 + excused
    BY DEF StartupInv, StoresAreKept
  <2>2. made' \in Nat /\ excused' \in Nat /\ sample' \in {"none", "there"}
    BY <1>1, <2>1 DEF StartupInv, StoresAreKept
  <2>3. made' <= 1 + excused'
    <3>1. CASE \E q \in Process : at[q] = "marking"
      BY <1>1, <2>1, <3>1
    <3>2. CASE ~ \E q \in Process : at[q] = "marking"
      <4>1. made <= excused
        BY <1>1, <3>2 DEF StartupInv, StoresAreKept
      <4> QED BY <1>1, <2>1, <3>2, <4>1
    <3> QED BY <3>1, <3>2
  <2> QED BY <1>1, <1>7, <2>2, <2>3 DEF StartupInv, StoresAreKept
<1> QED BY <1>3, <1>5, <1>6, <1>8 DEF StartupInv

\* A database that was seeded before, or is marked as seeded now (welcome::seed).
LEMMA MarkKeeps ==
    ASSUME StartupInv, NEW p \in Process, SkipSeed(p) \/ Mark(p) PROVE StartupInv'
<1>1. /\ UNCHANGED <<held, drawer, sample, sockfile, busy, made, raced, mistaken, minted>>
      /\ Moves(p, "keys") /\ Asks(p)
  BY DEF SkipSeed, Mark, Moves, Asks, AskKeystore, stores
<1>2. KeysTypes' /\ AskedInTime' /\ PlacesTypes' /\ SocketIsKept'
  BY <1>1, AskKeeps DEF StartupInv
<1>3. "keys" \in Where
  BY DEF Where
<1>4. at'[p] = "keys" /\ \A q \in Process \ {p} : at'[q] = at[q]
  BY <1>1, <1>3, MoveIsOnes DEF StartupInv
<1>5. StoresAreKept'
  <2>1. CASE SkipSeed(p)
    <3>1. at[p] # "marking" /\ UNCHANGED <<database, excused>>
      BY <2>1 DEF SkipSeed, stores
    <3> QED BY <1>1, <1>3, <3>1, StoresStay DEF StartupInv
  <2>2. CASE Mark(p)
    <3>1. \/ database' = [database EXCEPT !.marked = TRUE] /\ UNCHANGED excused
          \/ excused' = excused + 1 /\ UNCHANGED database
      BY <2>2 DEF Mark
    <3>2. made \in Nat /\ excused \in Nat /\ made <= 1 + excused
      BY DEF StartupInv, StoresAreKept
    <3>3. CASE database' = [database EXCEPT !.marked = TRUE] /\ UNCHANGED excused
      <4>1. /\ database' \in [tables : 0..Latest, version : 0..Latest, marked : BOOLEAN]
            /\ database'.tables = database'.version /\ database'.marked
        BY <3>3 DEF StartupInv, StoresAreKept
      <4> QED BY <1>1, <3>2, <3>3, <4>1 DEF StartupInv, StoresAreKept
    <3>4. CASE excused' = excused + 1 /\ UNCHANGED database
      BY <1>1, <3>2, <3>4 DEF StartupInv, StoresAreKept
    <3> QED BY <3>1, <3>3, <3>4
  <2> QED BY <2>1, <2>2
<1> QED BY <1>2, <1>5 DEF StartupInv

\* The owner throws the sample away.
LEMMA DiscardKeeps == ASSUME StartupInv, Discard PROVE StartupInv'
<1>1. /\ UNCHANGED <<at, asker, held, drawer, database, sockfile, busy, made, excused, crowded, raced, mistaken, minted>>
      /\ sample' = "none"
  BY DEF Discard, histories
<1> QED BY <1>1 DEF StartupInv, KeysTypes, AskedInTime, PlacesTypes, SocketIsKept, StoresAreKept, Alive, Holds, Answers

\* The keys are taken, or not waited for (keystore_keys, KEYSTORE_BUDGET).
LEMMA KeysKeep ==
    ASSUME StartupInv, NEW p \in Process, TakeKeys(p) \/ Deadline(p) PROVE StartupInv'
<1>1. /\ UNCHANGED <<drawer, database, sample, sockfile, busy, made, excused, crowded, raced, mistaken>>
      /\ at[p] = "keys" /\ Moves(p, "ports")
  BY DEF TakeKeys, Deadline, Moves, stores, histories
<1>2. "ports" \in Where \ {"off", "clearing", "bound", "serving", "stopping"} /\ "ports" \notin Unasked
  BY DEF Where, Unasked
<1>3. at'[p] = "ports" /\ \A q \in Process \ {p} : at'[q] = at[q]
  BY <1>1, <1>2, MoveIsOnes DEF StartupInv
<1>4. KeysTypes' /\ AskedInTime'
  <2>1. CASE TakeKeys(p)
    <3>1. Ends(p) /\ held' = [held EXCEPT ![p] = asker[p].got] /\ UNCHANGED minted
      BY <2>1 DEF TakeKeys, Step, Ends
    <3>2. asker[p].got \in Keyring
      BY ItemType DEF StartupInv
    <3>3. /\ asker' \in [Process -> [at : Stage, name : Names, new : Nat, got : Keyring]]
          /\ asker'[p] = Resting /\ \A q \in Process \ {p} : asker'[q] = asker[q]
      BY <3>1, RestingType DEF Ends, StartupInv, KeysTypes
    <3>4. held' \in [Process -> Keyring]
      BY <3>1, <3>2 DEF StartupInv, KeysTypes
    <3>5. KeysTypes'
      BY <1>1, <3>1, <3>3, <3>4, RestingType DEF StartupInv, KeysTypes
    <3>6. AskedInTime'
      BY <1>2, <1>3, <3>3 DEF StartupInv, AskedInTime
    <3> QED BY <3>5, <3>6
  <2>2. CASE Deadline(p)
    <3>1. /\ UNCHANGED asker /\ minted' = minted + 1
          /\ held' = [held EXCEPT ![p] = [Unheld EXCEPT !.session = minted + 1]]
      BY <2>2 DEF Deadline
    <3>2. minted \in Nat
      BY DEF StartupInv, KeysTypes
    <3>3. [Unheld EXCEPT !.session = minted + 1] \in Keyring
      BY <3>2, RestingType DEF Keyring
    <3>4. held' \in [Process -> Keyring]
      BY <3>1, <3>3 DEF StartupInv, KeysTypes
    <3>5. \A n \in Names : drawer[n].key \in Nat /\ drawer[n].key <= minted + 1
      BY <3>2 DEF StartupInv, KeysTypes, Names, Filed
    <3>6. \A q \in Process : asker[q].new \in Nat /\ asker[q].new <= minted + 1
      BY <3>2 DEF StartupInv, KeysTypes
    <3>7. KeysTypes'
      BY <1>1, <3>1, <3>2, <3>4, <3>5, <3>6 DEF StartupInv, KeysTypes
    <3> QED BY <1>1, <1>2, <3>1, <3>7, AskedStays DEF StartupInv
  <2> QED BY <2>1, <2>2
<1>5. sockfile' \in Process \union {NoProcess, Stranger}
  BY <1>1 DEF StartupInv, PlacesTypes
<1>6. PlacesTypes'
  BY <1>1, <1>2, <1>5, PlaceStays DEF StartupInv
<1>7. SocketIsKept' /\ StoresAreKept'
  BY <1>1, <1>2, SocketStays, StoresStay DEF StartupInv
<1> QED BY <1>4, <1>6, <1>7 DEF StartupInv

\* The first free port (bind_http).
LEMMA PortKeeps ==
    ASSUME StartupInv, NEW p \in Process, BindPort(p) PROVE StartupInv'
<1>1. /\ UNCHANGED <<asker, held, drawer, database, sample, sockfile, made, excused, crowded, raced, mistaken, minted>>
      /\ at[p] = "ports" /\ Moves(p, "looking") /\ \E n \in Port : busy' = [busy EXCEPT ![n] = p]
  BY DEF BindPort, Moves, stores, histories, FreePorts
<1>2. "looking" \in Where \ {"off", "clearing", "bound", "serving", "stopping"} /\ "looking" \notin Unasked
  BY DEF Where, Unasked
<1>3. at' \in [Process -> Where] /\ at'[p] = "looking" /\ \A q \in Process \ {p} : at'[q] = at[q]
  BY <1>1, <1>2, MoveIsOnes DEF StartupInv
<1>4. KeysTypes'
  BY <1>1 DEF StartupInv, KeysTypes
<1>5. PlacesTypes'
  <2>1. busy' \in [Port -> Process \union {NoProcess, Stranger}] /\ \A n \in Port : busy'[n] = busy[n] \/ busy'[n] = p
    BY <1>1 DEF StartupInv, PlacesTypes
  <2> QED BY <1>1, <1>3, <2>1 DEF StartupInv, PlacesTypes, Alive
<1>6. AskedInTime' /\ SocketIsKept' /\ StoresAreKept'
  BY <1>1, <1>2, AskedStays, SocketStays, StoresStay DEF StartupInv
<1> QED BY <1>4, <1>5, <1>6 DEF StartupInv

\* The socket: looked at, cleared, bound, served on and let go of (socket.rs, bind; run).
LEMMA SocketKeeps ==
    ASSUME StartupInv, NEW p \in Process, Look(p) \/ RemoveStale(p) \/ BindSocket(p) \/ Serve(p) \/ Stop(p)
    PROVE  StartupInv'
<1>1. UNCHANGED <<asker, held, drawer, database, sample, busy, made, excused, crowded, minted>>
  BY DEF Look, RemoveStale, BindSocket, Serve, Stop, stores, histories
<1>2. PICK x \in {"binding", "clearing", "bound", "serving", "stopping"} : Moves(p, x)
  BY DEF Look, RemoveStale, BindSocket, Serve, Stop, Moves
<1>3. at[p] \in {"looking", "clearing", "binding", "bound", "serving"}
  BY DEF Look, RemoveStale, BindSocket, Serve, Stop, Serving
<1>4. x \in Where \ {"off"} /\ x \notin Unasked /\ at[p] # "marking"
  BY <1>3 DEF Where, Unasked
<1>5. at'[p] = x /\ \A q \in Process \ {p} : at'[q] = at[q]
  BY <1>2, <1>4, MoveIsOnes DEF StartupInv
<1>6. sockfile' \in Process \union {NoProcess, Stranger}
  BY DEF Look, RemoveStale, BindSocket, Serve, Stop, StartupInv, PlacesTypes
<1>7. KeysTypes'
  BY <1>1 DEF StartupInv, KeysTypes
<1>8. PlacesTypes'
  BY <1>1, <1>2, <1>4, <1>6, PlaceStays DEF StartupInv
<1>9. AskedInTime' /\ StoresAreKept'
  BY <1>1, <1>2, <1>4, AskedStays, StoresStay DEF StartupInv
<1>10. SocketIsKept'
  <2>1. CASE Look(p) /\ sockfile = NoProcess
    <3>1. /\ at' = [at EXCEPT ![p] = "binding"] /\ UNCHANGED <<sockfile, raced, mistaken>>
      BY <2>1 DEF Look
    <3>2. "binding" \in Where \ {"clearing", "bound", "serving", "stopping"}
      BY DEF Where
    <3> QED BY <3>1, <3>2, SocketStays DEF StartupInv, Moves
  <2>2. CASE Look(p) /\ sockfile # NoProcess
    <3>1. /\ at[p] = "looking" /\ at' = [at EXCEPT ![p] = "clearing"] /\ UNCHANGED sockfile
          /\ raced' = (raced \/ \E q \in Process : at[q] = "clearing")
          /\ mistaken' = (mistaken \/ Holds(sockfile))
      BY <2>2 DEF Look
    <3>2. at'[p] = "clearing"
      BY <3>1 DEF StartupInv, PlacesTypes
    <3>3. ~Holds(sockfile) => ~Holds(sockfile)'
      BY <1>5, <3>1, <3>2 DEF Holds, Answers
    <3> QED BY <1>5, <2>2, <3>1, <3>2, <3>3 DEF StartupInv, SocketIsKept
  <2>3. CASE RemoveStale(p)
    <3>1. /\ at[p] = "clearing" /\ at' = [at EXCEPT ![p] = "binding"] /\ sockfile' = NoProcess
          /\ UNCHANGED <<raced, mistaken>>
      BY <2>3 DEF RemoveStale, histories
    <3>2. at'[p] = "binding"
      BY <3>1 DEF StartupInv, PlacesTypes
    <3>3. ~raced /\ ~mistaken => \A q \in Process \ {p} : at[q] \notin {"clearing", "bound", "serving", "stopping"}
      BY <3>1 DEF StartupInv, SocketIsKept, Holds, Answers
    <3> QED BY <1>5, <3>1, <3>2, <3>3 DEF SocketIsKept
  <2>4. CASE BindSocket(p)
    <3>1. /\ sockfile = NoProcess /\ at' = [at EXCEPT ![p] = "bound"] /\ sockfile' = p
          /\ UNCHANGED <<raced, mistaken>>
      BY <2>4 DEF BindSocket, histories
    <3>2. at'[p] = "bound"
      BY <3>1 DEF StartupInv, PlacesTypes
    <3>3. ~raced /\ ~mistaken => \A q \in Process : at[q] \notin {"clearing", "bound", "serving", "stopping"}
      BY <3>1, ProcessIsNumber DEF StartupInv, SocketIsKept
    <3> QED BY <1>5, <3>1, <3>2, <3>3 DEF SocketIsKept
  <2>5. CASE Serve(p)
    <3>1. /\ at[p] = "bound" /\ at' = [at EXCEPT ![p] = "serving"] /\ UNCHANGED <<sockfile, raced, mistaken>>
      BY <2>5 DEF Serve, histories
    <3>2. at'[p] = "serving"
      BY <3>1 DEF StartupInv, PlacesTypes
    <3>3. ~Holds(sockfile) => ~Holds(sockfile)'
      BY <1>5, <3>1, <3>2 DEF Holds, Answers
    <3> QED BY <1>5, <3>1, <3>2, <3>3 DEF StartupInv, SocketIsKept
  <2>6. CASE Stop(p)
    <3>1. /\ at[p] = "serving" /\ at' = [at EXCEPT ![p] = "stopping"] /\ UNCHANGED <<sockfile, raced, mistaken>>
      BY <2>6 DEF Stop, Serving, histories
    <3>2. at'[p] = "stopping"
      BY <3>1 DEF StartupInv, PlacesTypes
    <3>3. ~Holds(sockfile) => ~Holds(sockfile)'
      BY <1>5, <3>1, <3>2 DEF Holds, Answers
    <3> QED BY <1>5, <3>1, <3>2, <3>3 DEF StartupInv, SocketIsKept
  <2> QED BY <2>1, <2>2, <2>3, <2>4, <2>5, <2>6
<1> QED BY <1>7, <1>8, <1>9, <1>10 DEF StartupInv

\* A build of another identity (the keychain's access lists).
LEMMA RebuildTypes ==
    ASSUME KeysTypes, Rebuild
    PROVE  /\ KeysTypes' /\ \A p \in Process : at[p] = "off"
           /\ UNCHANGED <<at, asker, held, database, sample, sockfile, busy, made, excused, crowded, raced, mistaken, minted>>
           /\ drawer'.install.key = drawer.install.key
<1>1. /\ UNCHANGED <<at, asker, held, database, sample, sockfile, busy, made, excused, crowded, raced, mistaken, minted>>
      /\ drawer' = [n \in DOMAIN drawer |->
                      IF n \in Names /\ drawer[n].key # Absent
                      THEN [drawer[n] EXCEPT !.legible = ~@] ELSE drawer[n]]
      /\ \A p \in Process : at[p] = "off"
  BY DEF Rebuild, histories, Alive
<1>2. drawer \in [kind : {"keychain", "file"}, session : Filed, install : Filed]
  BY DEF KeysTypes
<1>3. /\ drawer' \in [kind : {"keychain", "file"}, session : Filed, install : Filed]
      /\ drawer'.session.key = drawer.session.key /\ drawer'.install.key = drawer.install.key
  BY <1>1, <1>2 DEF Names, Filed
<1>4. \A n \in Names : drawer'[n].key = drawer[n].key
  BY <1>2, <1>3 DEF Names
<1> QED BY <1>1, <1>3, <1>4 DEF KeysTypes

\* Each step keeps it true.
LEMMA StartupStep == StartupInv /\ [StartupNext]_startupVars => StartupInv'
<1> SUFFICES ASSUME StartupInv, [StartupNext]_startupVars PROVE StartupInv'
  OBVIOUS
<1>1. CASE UNCHANGED startupVars
  <2>1. /\ UNCHANGED <<at, asker, held, drawer, database, sample, sockfile, busy, made, excused>>
        /\ UNCHANGED <<crowded, raced, mistaken, minted>>
    BY <1>1 DEF startupVars
  <2> QED BY <2>1 DEF StartupInv, KeysTypes, AskedInTime, PlacesTypes, SocketIsKept, StoresAreKept, Alive, Holds, Answers
<1>2. CASE Rebuild
  <2>1. KeysTypes'
    BY <1>2, RebuildTypes DEF StartupInv
  <2>2. UNCHANGED <<at, asker, held, database, sample, sockfile, busy, made, excused, raced, mistaken>>
    BY <1>2, RebuildTypes DEF StartupInv
  <2> QED BY <2>1, <2>2 DEF StartupInv, AskedInTime, PlacesTypes, SocketIsKept, StoresAreKept, Alive, Holds, Answers
<1>3. ASSUME NEW p \in Process, AskerStep(p) PROVE StartupInv'
  <2>1. KeysTypes'
    BY <1>3, AskerKeepsTypes DEF StartupInv
  <2>2. UNCHANGED <<at, database, sample, sockfile, busy, made, excused, raced, mistaken>>
    BY <1>3 DEF AskerStep, histories
  <2>3. AskedInTime'
    <3>1. asker[p].at # "idle" /\ \A q \in Process \ {p} : asker'[q] = asker[q]
      <4>1. asker[p].at # "idle"
        BY <1>3 DEF AskerStep, LoadKey, Renew, LeaveAlone, Save, RemoveOld, SaveFails, ReadBack, AskerAt
      <4>2. \E r : asker' = [asker EXCEPT ![p] = r]
        BY <1>3 DEF AskerStep, LoadKey, Renew, LeaveAlone, Save, RemoveOld, SaveFails, ReadBack, Step, Settle, Replace, Unsaved
      <4> QED BY <4>1, <4>2 DEF StartupInv, KeysTypes
    <3> QED BY <2>2, <3>1 DEF StartupInv, AskedInTime
  <2> QED BY <2>1, <2>2, <2>3 DEF StartupInv, PlacesTypes, SocketIsKept, StoresAreKept, Alive, Holds, Answers
<1>4. ASSUME NEW p \in Process, DaemonStep(p) PROVE StartupInv'
  BY <1>4, EndKeeps, OpenKeeps, SeedKeeps, MarkKeeps, KeysKeep, PortKeeps, SocketKeeps DEF DaemonStep
<1> QED BY <1>1, <1>2, <1>3, <1>4, StartKeeps, EndKeeps, SocketKeeps, DiscardKeeps DEF StartupNext

\* For any processes, ports, migrations, starts and faults: a crash leaves a database the next
\* start can go on from, the sample app is put there once for each time it was not written
\* down, and a daemon that serves is the one its socket reaches, unless two raced for a stale
\* file or one took for stale the file of a daemon that still ran (run, Db::open, sample::seed, socket::bind).
THEOREM StartupIsAlwaysSafe == StartupSpec => []StartupSafe
<1>1. StartupInv => StartupSafe
  <2> SUFFICES ASSUME StartupInv PROVE StartupSafe
    OBVIOUS
  <2>1. StartupTypeOK
    <3>1. \A p \in Process :
            /\ asker[p].at \in Stage /\ held[p].session \in Nat /\ held[p].install \in Nat
            /\ asker[p].at # "idle" => at[p] # "off"
      BY DEF StartupInv, KeysTypes, AskedInTime, Keyring, Unasked
    <3>2. \A n \in Names : drawer[n].key \in 0..minted
      BY DEF StartupInv, KeysTypes, Names, Filed
    <3>3. database.version \in 0..Latest /\ database.marked \in BOOLEAN /\ sample \in {"none", "there"}
      BY DEF StartupInv, StoresAreKept
    <3>4. /\ at \in [Process -> Where] /\ sockfile \in Process \union {NoProcess, Stranger}
          /\ \A n \in Port : busy[n] \in {NoProcess, Stranger} \/ (busy[n] \in Process /\ Alive(busy[n]))
      BY DEF StartupInv, PlacesTypes
    <3> QED BY <3>1, <3>2, <3>3, <3>4 DEF StartupTypeOK, Where, Stage
  <2>2. DatabaseOpens /\ SampleOnce
    BY DEF StartupInv, StoresAreKept, DatabaseOpens, SampleOnce
  <2>3. ServingIsReachable
    BY DEF StartupInv, SocketIsKept, ServingIsReachable, Serving
  <2> QED BY <2>1, <2>2, <2>3 DEF StartupSafe
<1> QED BY <1>1, StartupStart, StartupStep, PTL DEF StartupSpec

-----------------------------------------------------------------------------
(* The keys it goes by.                                                    *)

\* Until two were at work at once, one thread at most asks the keystore.
OneAsks == ~crowded => \A p, q \in Process : asker[p].at # "idle" /\ asker[q].at # "idle" => p = q

\* The names in turn: nothing is known of a name before it was settled.
InItsTurn(p) ==
    /\ asker[p].name = "session" => asker[p].got = Unheld
    /\ asker[p].at = "done" => asker[p].name = "install"
    /\ asker[p].name = "install" /\ asker[p].at # "done" => asker[p].got.install = Absent

\* What a thread takes to be kept is what is filed; and it only puts a key of its own in the
\* place of an install key that is none.
FiledAsTaken(p) ==
    /\ asker[p].name = "install" /\ asker[p].got.kept =>
         drawer.session = [key |-> asker[p].got.session, legible |-> TRUE]
    /\ asker[p].at = "done" /\ asker[p].got.install # Absent =>
         drawer.install = [key |-> asker[p].got.install, legible |-> TRUE]
    /\ asker[p].name = "install" /\ asker[p].at \in {"set", "again"} => ~Genuine(drawer.install.key)

ThreadInv ==
    \A p \in Process : asker[p].at # "idle" => InItsTurn(p) /\ (~crowded => FiledAsTaken(p))

HonestInv == StartupInv /\ OneAsks /\ ThreadInv

\* A genuine install key stays where it is, unless two were at work.
InstallStays == (Genuine(drawer.install.key) /\ ~crowded) => drawer'.install.key = drawer.install.key

\* Before anything is asked nothing is taken for anything.
LEMMA HonestStart == StartupInit => HonestInv
<1> SUFFICES ASSUME StartupInit PROVE HonestInv
  OBVIOUS
<1>1. \A p \in Process : asker[p].at = "idle"
  BY RestingType DEF StartupInit
<1> QED BY <1>1, StartupStart DEF HonestInv, OneAsks, ThreadInv

\* A thread that has settled the session key takes for kept what is filed.
LEMMA SessionSettled ==
    ASSUME KeysTypes, NEW p \in Process, asker[p].at # "idle", InItsTurn(p), Name(p) = "session",
           NEW key \in Nat, NEW kept \in BOOLEAN, Settle(p, key, kept), UNCHANGED <<drawer, crowded>>,
           kept => Item(p) = [key |-> key, legible |-> TRUE]
    PROVE  InItsTurn(p)' /\ FiledAsTaken(p)'
<1>1. /\ asker'[p].name = "install" /\ asker'[p].at = "get" /\ asker'[p].got.session = key
      /\ asker'[p].got.kept = kept /\ asker'[p].got.install = asker[p].got.install
  BY SettleKeeps
<1>2. asker[p].got = Unheld /\ Unheld.install = Absent
  BY DEF InItsTurn, Name, Unheld
<1>3. Item(p) = drawer.session
  BY DEF Item, Name
<1> QED BY <1>1, <1>2, <1>3 DEF InItsTurn, FiledAsTaken

\* And so of the install key, which is settled last.
LEMMA InstallSettled ==
    ASSUME KeysTypes, NEW p \in Process, asker[p].at # "idle", InItsTurn(p), Name(p) = "install",
           NEW key \in Nat, NEW kept \in BOOLEAN, Settle(p, key, kept), UNCHANGED <<drawer, crowded>>,
           key # Absent => Item(p) = [key |-> key, legible |-> TRUE]
    PROVE  InItsTurn(p)' /\ (FiledAsTaken(p) => FiledAsTaken(p)')
<1>1. /\ asker'[p].name = "install" /\ asker'[p].at = "done" /\ asker'[p].got.session = asker[p].got.session
      /\ asker'[p].got.kept = asker[p].got.kept /\ asker'[p].got.install = key
  BY SettleKeeps
<1>2. Item(p) = drawer.install
  BY DEF Item, Name
<1> QED BY <1>1, <1>2 DEF InItsTurn, FiledAsTaken, Name

\* What a thread that moves on to another step keeps.
Onwards(p, phase) ==
    \E new \in Nat : asker' = [asker EXCEPT ![p] = [asker[p] EXCEPT !.at = phase, !.new = new]]

\* It moves on under the same name and with what it got.
LEMMA OnwardsSame ==
    ASSUME KeysTypes, NEW p \in Process, NEW phase \in Stage, Onwards(p, phase)
    PROVE  /\ asker'[p].at = phase /\ asker'[p].name = asker[p].name /\ asker'[p].got = asker[p].got
BY DEF KeysTypes, Onwards

\* A step of the thread leaves the keys as it takes them to be, and a genuine install key alone.
LEMMA AskerIsHonest ==
    ASSUME StartupInv, OneAsks, ThreadInv, NEW p \in Process, AskerStep(p)
    PROVE  OneAsks' /\ ThreadInv' /\ InstallStays
<1>0. UNCHANGED <<at, crowded, held>>
  BY DEF AskerStep, histories
<1>1. KeysTypes /\ asker[p].at # "idle" /\ InItsTurn(p) /\ (~crowded => FiledAsTaken(p))
  <2>1. asker[p].at # "idle"
    BY DEF AskerStep, LoadKey, Renew, LeaveAlone, Save, RemoveOld, SaveFails, ReadBack, AskerAt
  <2> QED BY <2>1 DEF StartupInv, ThreadInv
<1>2. \A q \in Process \ {p} : asker'[q] = asker[q]
  <2>1. \E r : asker' = [asker EXCEPT ![p] = r]
    BY DEF AskerStep, LoadKey, Renew, LeaveAlone, Save, RemoveOld, SaveFails, ReadBack, Step, Settle, Replace, Unsaved
  <2> QED BY <2>1 DEF StartupInv, KeysTypes
<1>3. OneAsks'
  BY <1>0, <1>1, <1>2 DEF OneAsks
<1>4. ~crowded => \A q \in Process \ {p} : asker'[q].at = "idle"
  BY <1>1, <1>2 DEF OneAsks
<1>5. /\ Name(p) \in Names /\ Item(p) \in Filed /\ asker[p].new \in Nat /\ minted \in Nat /\ Item(p).key \in Nat
      /\ drawer \in [kind : {"keychain", "file"}, session : Filed, install : Filed]
  BY <1>1, ItemType DEF KeysTypes, Filed
<1>6. \A item \in Filed : item.legible => item = [key |-> item.key, legible |-> TRUE]
  BY DEF Filed
<1>7. (Name(p) = "session" /\ Item(p) = drawer.session) \/ (Name(p) = "install" /\ Item(p) = drawer.install)
  BY <1>5 DEF Names, Item
<1>8. InItsTurn(p)' /\ (~crowded => FiledAsTaken(p)') /\ InstallStays
  <2>1. ASSUME NEW key \in Nat, NEW kept \in BOOLEAN, Settle(p, key, kept), UNCHANGED drawer,
               Name(p) = "session" /\ kept => Item(p) = [key |-> key, legible |-> TRUE],
               Name(p) = "install" /\ key # Absent => Item(p) = [key |-> key, legible |-> TRUE]
        PROVE  InItsTurn(p)' /\ (~crowded => FiledAsTaken(p)') /\ InstallStays
    <3>1. InstallStays
      BY <2>1 DEF InstallStays
    <3>2. CASE Name(p) = "session"
      BY <1>0, <1>1, <2>1, <3>1, <3>2, SessionSettled
    <3>3. CASE Name(p) = "install"
      BY <1>0, <1>1, <2>1, <3>1, <3>3, InstallSettled
    <3> QED BY <1>7, <3>2, <3>3
  <2>2. CASE LoadKey(p)
    <3>1. Settle(p, Item(p).key, TRUE) /\ UNCHANGED drawer /\ Item(p) = [key |-> Item(p).key, legible |-> TRUE]
      BY <1>5, <1>6, <2>2 DEF LoadKey
    <3> QED BY <1>5, <2>1, <3>1
  <2>3. CASE Renew(p)
    <3>1. /\ UNCHANGED drawer /\ Onwards(p, "set") /\ "set" \in Stage /\ asker[p].at = "get"
          /\ Name(p) = "install" => ~Genuine(Item(p).key)
      <4>1. UNCHANGED drawer /\ Replace(p) /\ asker[p].at = "get"
        BY <2>3 DEF Renew, AskerAt
      <4>2. Name(p) = "install" => ~Genuine(Item(p).key)
        BY <2>3 DEF Renew
      <4>3. Onwards(p, "set")
        <5>1. minted + 1 \in Nat
          BY <1>5
        <5> QED BY <4>1, <5>1 DEF Replace, Step, Onwards
      <4> QED BY <4>1, <4>2, <4>3 DEF Stage
    <3>2. asker'[p].at = "set" /\ asker'[p].name = asker[p].name /\ asker'[p].got = asker[p].got
      BY <1>1, <3>1, OnwardsSame
    <3> QED BY <1>0, <1>1, <1>7, <3>1, <3>2 DEF InItsTurn, FiledAsTaken, InstallStays, Name
  <2>4. CASE LeaveAlone(p)
    <3>1. Settle(p, Absent, FALSE) /\ UNCHANGED drawer /\ Name(p) = "install" /\ Absent \in Nat
      BY <2>4 DEF LeaveAlone, Absent
    <3> QED BY <2>1, <3>1
  <2>5. CASE Save(p)
    <3>1. /\ Onwards(p, "back") /\ "back" \in Stage /\ asker[p].at \in {"set", "again"}
      <4>1. Step(p, [asker[p] EXCEPT !.at = "back"]) /\ asker[p].at \in {"set", "again"} /\ "back" \in Stage
        BY <2>5 DEF Save, Stage
      <4>2. [asker[p] EXCEPT !.at = "back"] = [asker[p] EXCEPT !.at = "back", !.new = asker[p].new]
        BY <1>1 DEF KeysTypes
      <4> QED BY <1>5, <4>1, <4>2 DEF Step, Onwards
    <3>2. asker'[p].at = "back" /\ asker'[p].name = asker[p].name /\ asker'[p].got = asker[p].got
      BY <1>1, <3>1, OnwardsSame
    <3>3. PICK legible \in BOOLEAN : drawer' = [drawer EXCEPT ![Name(p)] = [key |-> asker[p].new, legible |-> legible]]
      BY <2>5 DEF Save, Write
    <3>4. CASE Name(p) = "session"
      <4>1. drawer'.install = drawer.install
        BY <1>5, <3>3, <3>4
      <4> QED BY <1>0, <1>1, <3>1, <3>2, <3>4, <4>1 DEF InItsTurn, FiledAsTaken, InstallStays, Name
    <3>5. CASE Name(p) = "install"
      <4>1. drawer'.session = drawer.session
        BY <1>5, <3>3, <3>5
      <4>2. ~crowded => ~Genuine(drawer.install.key)
        BY <1>1, <3>1, <3>5 DEF FiledAsTaken, Name
      <4> QED BY <1>0, <1>1, <3>1, <3>2, <3>5, <4>1, <4>2 DEF InItsTurn, FiledAsTaken, InstallStays, Name
    <3> QED BY <1>7, <3>4, <3>5
  <2>6. CASE RemoveOld(p)
    <3>1. /\ Onwards(p, "again") /\ "again" \in Stage /\ asker[p].at = "set"
      <4>1. Step(p, [asker[p] EXCEPT !.at = "again"]) /\ asker[p].at = "set" /\ "again" \in Stage
        BY <2>6 DEF RemoveOld, Stage, AskerAt
      <4>2. [asker[p] EXCEPT !.at = "again"] = [asker[p] EXCEPT !.at = "again", !.new = asker[p].new]
        BY <1>1 DEF KeysTypes
      <4> QED BY <1>5, <4>1, <4>2 DEF Step, Onwards
    <3>2. asker'[p].at = "again" /\ asker'[p].name = asker[p].name /\ asker'[p].got = asker[p].got
      BY <1>1, <3>1, OnwardsSame
    <3>3. drawer' = [drawer EXCEPT ![Name(p)] = [key |-> Absent, legible |-> TRUE]]
      BY <2>6 DEF RemoveOld, Write
    <3>4. CASE Name(p) = "session"
      <4>1. drawer'.install = drawer.install
        BY <1>5, <3>3, <3>4
      <4> QED BY <1>0, <1>1, <3>1, <3>2, <3>4, <4>1 DEF InItsTurn, FiledAsTaken, InstallStays, Name
    <3>5. CASE Name(p) = "install"
      <4>1. drawer'.session = drawer.session /\ drawer'.install.key = Absent
        BY <1>5, <3>3, <3>5
      <4>2. ~crowded => ~Genuine(drawer.install.key)
        BY <1>1, <3>1, <3>5 DEF FiledAsTaken, Name
      <4>3. ~Genuine(drawer'.install.key)
        BY <4>1 DEF Genuine, Absent
      <4> QED BY <1>0, <1>1, <3>1, <3>2, <3>5, <4>1, <4>2, <4>3 DEF InItsTurn, FiledAsTaken, InstallStays, Name
    <3> QED BY <1>7, <3>4, <3>5
  <2>7. ASSUME Unsaved(p), UNCHANGED drawer PROVE InItsTurn(p)' /\ (~crowded => FiledAsTaken(p)') /\ InstallStays
    <3>1. PICK key \in Nat : Settle(p, key, FALSE) /\ (Name(p) # "session" => key = Absent)
      BY <1>1, <2>7, UnsavedIsSettled
    <3> QED BY <2>1, <2>7, <3>1
  <2>8. CASE SaveFails(p)
    BY <2>7, <2>8 DEF SaveFails
  <2>9. CASE ReadBack(p)
    <3>1. CASE Item(p).key = asker[p].new /\ Item(p).legible /\ Settle(p, asker[p].new, TRUE)
      <4>1. Item(p) = [key |-> asker[p].new, legible |-> TRUE] /\ UNCHANGED drawer
        BY <1>5, <1>6, <2>9, <3>1 DEF ReadBack
      <4> QED BY <1>5, <2>1, <3>1, <4>1
    <3>2. CASE Unsaved(p)
      BY <2>7, <2>9, <3>2 DEF ReadBack
    <3> QED BY <2>9, <3>1, <3>2 DEF ReadBack
  <2> QED BY <2>2, <2>3, <2>4, <2>5, <2>6, <2>8, <2>9 DEF AskerStep
<1>9. ThreadInv'
  <2>1. ASSUME NEW q \in Process \ {p}, asker'[q].at # "idle" PROVE InItsTurn(q)' /\ crowded'
    BY <1>0, <1>2, <1>4, <2>1 DEF ThreadInv, InItsTurn
  <2> QED BY <1>0, <1>8, <2>1 DEF ThreadInv
<1> QED BY <1>3, <1>8, <1>9

\* Every other step leaves the thread, ends it or lets it go.
LEMMA OthersAreHonest ==
    ASSUME StartupInv, OneAsks, ThreadInv, UNCHANGED drawer,
           \/ UNCHANGED <<asker, crowded>>
           \/ \E p \in Process : Ends(p) /\ UNCHANGED crowded
           \/ \E p \in Process : /\ Asks(p)
                                /\ crowded' = (crowded \/ \E q \in Process \ {p} : at[q] = "keys" \/ asker[q].at # "idle")
    PROVE  OneAsks' /\ ThreadInv' /\ InstallStays
<1>1. InstallStays
  BY DEF InstallStays
<1>2. CASE UNCHANGED <<asker, crowded>>
  BY <1>1, <1>2 DEF OneAsks, ThreadInv, InItsTurn, FiledAsTaken
<1>3. ASSUME NEW p \in Process, Ends(p), UNCHANGED crowded PROVE OneAsks' /\ ThreadInv'
  <2>1. asker'[p].at = "idle" /\ \A q \in Process \ {p} : asker'[q] = asker[q]
    BY <1>3, RestingType DEF Ends, StartupInv, KeysTypes
  <2>2. OneAsks'
    BY <1>3, <2>1 DEF OneAsks
  <2>3. ASSUME NEW q \in Process, asker'[q].at # "idle" PROVE InItsTurn(q)' /\ (~crowded' => FiledAsTaken(q)')
    <3>1. q # p /\ asker'[q] = asker[q]
      BY <2>1, <2>3
    <3> QED BY <1>3, <2>3, <3>1 DEF ThreadInv, InItsTurn, FiledAsTaken
  <2> QED BY <2>2, <2>3 DEF ThreadInv
<1>4. ASSUME NEW p \in Process, Asks(p),
             crowded' = (crowded \/ \E q \in Process \ {p} : at[q] = "keys" \/ asker[q].at # "idle")
      PROVE  OneAsks' /\ ThreadInv'
  <2>1. /\ asker'[p].at = "get" /\ asker'[p].name = "session" /\ asker'[p].got = Unheld
        /\ \A q \in Process \ {p} : asker'[q] = asker[q]
    BY <1>4, RestingType DEF Asks, StartupInv, KeysTypes
  <2>2. ~crowded' => ~crowded /\ \A q \in Process \ {p} : asker[q].at = "idle"
    BY <1>4
  <2>3. OneAsks'
    BY <2>1, <2>2 DEF OneAsks
  <2>4. InItsTurn(p)' /\ FiledAsTaken(p)'
    BY <2>1 DEF InItsTurn, FiledAsTaken
  <2>5. ASSUME NEW q \in Process \ {p}, asker'[q].at # "idle" PROVE InItsTurn(q)' /\ (~crowded' => FiledAsTaken(q)')
    BY <2>1, <2>2, <2>5 DEF ThreadInv, InItsTurn
  <2> QED BY <2>3, <2>4, <2>5 DEF ThreadInv
<1> QED BY <1>1, <1>2, <1>3, <1>4

\* What is claimed as the keys are taken.
Claims(p) ==
    (at[p] = "keys" /\ at'[p] = "ports" /\ ~crowded) =>
          /\ held'[p].kept => drawer.session = [key |-> held'[p].session, legible |-> TRUE]
          /\ held'[p].install # Absent =>
                drawer.install = [key |-> held'[p].install, legible |-> TRUE]

\* Who takes keys from the thread claims what is filed, and who did not wait claims nothing
\* (keystore_keys).
LEMMA TakenIsHonest ==
    ASSUME StartupInv, ThreadInv, NEW p \in Process, TakeKeys(p) \/ Deadline(p) PROVE Claims(p)
<1>1. CASE TakeKeys(p)
  <2>1. held'[p] = asker[p].got /\ asker[p].at = "done"
    BY <1>1 DEF TakeKeys, AskerAt, StartupInv, KeysTypes
  <2>2. InItsTurn(p) /\ (~crowded => FiledAsTaken(p))
    BY <2>1 DEF ThreadInv
  <2> QED BY <2>1, <2>2 DEF Claims, InItsTurn, FiledAsTaken
<1>2. CASE Deadline(p)
  <2>1. held'[p] = [Unheld EXCEPT !.session = minted + 1]
    BY <1>2 DEF Deadline, StartupInv, KeysTypes
  <2>2. held'[p].kept = FALSE /\ held'[p].install = Absent
    BY <2>1 DEF Unheld
  <2> QED BY <2>2 DEF Claims
<1> QED BY <1>1, <1>2

\* Nobody else comes from waiting for its keys to looking for a port.
LEMMA OnlyTakersClaim ==
    ASSUME StartupInv, [StartupNext]_startupVars, NEW p \in Process, at[p] = "keys", at'[p] = "ports"
    PROVE  TakeKeys(p) \/ Deadline(p)
<1>0. at \in [Process -> Where]
  BY DEF StartupInv, PlacesTypes
<1>1. at' # at
  OBVIOUS
<1>2. ~Rebuild /\ ~Discard /\ ~UNCHANGED startupVars
  BY <1>1 DEF Rebuild, Discard, startupVars
<1>3. ASSUME NEW q \in Process, AskerStep(q) PROVE FALSE
  BY <1>1, <1>3 DEF AskerStep
<1>4. ASSUME NEW q \in Process, Migrate(q) PROVE FALSE
  BY <1>1, <1>4 DEF Migrate
<1>5. ASSUME NEW q \in Process, Crash(q) \/ Cleanup(q) \/ NotOpened(q) \/ NoPort(q) \/ AlreadyRunning(q)
                                \/ SocketFails(q) \/ WatchFails(q)
      PROVE  FALSE
  <2>1. at' = [at EXCEPT ![q] = "off"]
    BY <1>5 DEF Crash, Cleanup, NotOpened, NoPort, AlreadyRunning, SocketFails, WatchFails, GiveUp, Ended
  <2> QED BY <1>0, <2>1
<1>6. ASSUME NEW q \in Process, Start(q) \/ Opened(q) \/ Seed(q) \/ SkipSeed(q) \/ Mark(q)
      PROVE  FALSE
  <2>1. \E x \in {"migrating", "seeding", "marking", "keys"} : at' = [at EXCEPT ![q] = x]
    BY <1>6 DEF Start, Opened, Seed, SkipSeed, Mark
  <2> QED BY <1>0, <2>1
<1>7. ASSUME NEW q \in Process, BindPort(q) \/ Look(q) \/ RemoveStale(q) \/ BindSocket(q) \/ Serve(q) \/ Stop(q)
      PROVE  FALSE
  <2>1. \E x \in {"looking", "binding", "clearing", "bound", "serving", "stopping"} : at' = [at EXCEPT ![q] = x]
    BY <1>7 DEF BindPort, Look, RemoveStale, BindSocket, Serve, Stop
  <2> QED BY <1>0, <2>1
<1>8. ASSUME NEW q \in Process, TakeKeys(q) \/ Deadline(q) PROVE q = p
  <2>1. at' = [at EXCEPT ![q] = "ports"]
    BY <1>8 DEF TakeKeys, Deadline
  <2> QED BY <1>0, <2>1
<1> QED BY <1>2, <1>3, <1>4, <1>5, <1>6, <1>7, <1>8 DEF StartupNext, DaemonStep

\* Each step keeps the thread honest, and what it files.
LEMMA HonestStep ==
    HonestInv /\ [StartupNext]_startupVars =>
        HonestInv' /\ InstallStays /\ \A p \in Process : Claims(p)
<1> SUFFICES ASSUME HonestInv, [StartupNext]_startupVars
    PROVE  HonestInv' /\ InstallStays /\ \A p \in Process : Claims(p)
  OBVIOUS
<1>1. StartupInv /\ OneAsks /\ ThreadInv /\ StartupInv'
  BY StartupStep DEF HonestInv
<1>2. \A p \in Process : Claims(p)
  <2>1. ASSUME NEW p \in Process, at[p] = "keys", at'[p] = "ports" PROVE Claims(p)
    BY <1>1, <2>1, OnlyTakersClaim, TakenIsHonest
  <2> QED BY <2>1 DEF Claims
<1>3. CASE Rebuild
  <2>1. /\ \A p \in Process : at[p] = "off"
        /\ UNCHANGED <<asker, crowded>> /\ drawer'.install.key = drawer.install.key
    BY <1>1, <1>3, RebuildTypes DEF StartupInv
  <2>2. \A p \in Process : asker'[p].at = "idle"
    BY <1>1, <2>1 DEF StartupInv, AskedInTime, Unasked
  <2> QED BY <1>1, <1>2, <2>1, <2>2 DEF HonestInv, OneAsks, ThreadInv, InstallStays
<1>4. ASSUME NEW p \in Process, AskerStep(p) PROVE HonestInv' /\ InstallStays
  BY <1>1, <1>4, AskerIsHonest DEF HonestInv
<1>5. ASSUME NEW p \in Process, Crash(p) \/ Cleanup(p) \/ NotOpened(p) \/ NoPort(p) \/ AlreadyRunning(p)
                                \/ SocketFails(p) \/ WatchFails(p) \/ TakeKeys(p)
      PROVE  HonestInv' /\ InstallStays
  <2>1. Ends(p) /\ UNCHANGED <<drawer, crowded>>
    BY <1>5 DEF Crash, Cleanup, NotOpened, NoPort, AlreadyRunning, SocketFails, WatchFails, GiveUp, Ended, Ends,
       TakeKeys, Step, stores, histories
  <2> QED BY <1>1, <2>1, OthersAreHonest DEF HonestInv
<1>6. ASSUME NEW p \in Process, SkipSeed(p) \/ Mark(p) PROVE HonestInv' /\ InstallStays
  <2>1. /\ UNCHANGED drawer /\ Asks(p)
        /\ crowded' = (crowded \/ \E q \in Process \ {p} : at[q] = "keys" \/ asker[q].at # "idle")
    BY <1>6 DEF SkipSeed, Mark, AskKeystore, Asks, stores
  <2> QED BY <1>1, <2>1, OthersAreHonest DEF HonestInv
<1>7. ASSUME NEW p \in Process,
             \/ Start(p) \/ Migrate(p) \/ Opened(p) \/ Seed(p) \/ Deadline(p) \/ BindPort(p)
             \/ Look(p) \/ RemoveStale(p) \/ BindSocket(p) \/ Serve(p) \/ Stop(p)
      PROVE  HonestInv' /\ InstallStays
  <2>1. UNCHANGED <<drawer, asker, crowded>>
    BY <1>7 DEF Start, Migrate, Opened, Seed, Deadline, BindPort, Look, RemoveStale, BindSocket, Serve, Stop, stores,
           histories
  <2> QED BY <1>1, <2>1, OthersAreHonest DEF HonestInv
<1>8. CASE Discard \/ UNCHANGED startupVars
  <2>1. UNCHANGED <<drawer, asker, crowded>>
    BY <1>8 DEF Discard, startupVars, histories
  <2> QED BY <1>1, <1>2, <2>1, OthersAreHonest DEF HonestInv
<1> QED BY <1>2, <1>3, <1>4, <1>5, <1>6, <1>7, <1>8 DEF StartupNext, DaemonStep

\* For any processes and faults: an install identity is never exchanged for another, whatever the
\* keystore answers and wherever a process dies, and what a daemon says of its keys is so,
\* unless two asked for them at once (keys.rs, resolve_install).
THEOREM KeysAreAlwaysHonest == StartupSpec => KeysAreHonest
<1>1. HonestInv /\ [StartupNext]_startupVars =>
        [(Genuine(drawer.install.key) /\ ~crowded) => drawer'.install.key = drawer.install.key]_startupVars
  BY HonestStep DEF InstallStays
<1>2. HonestInv /\ [StartupNext]_startupVars =>
        [\A p \in Process : (at[p] = "keys" /\ at'[p] = "ports" /\ ~crowded) =>
          /\ held'[p].kept => drawer.session = [key |-> held'[p].session, legible |-> TRUE]
          /\ held'[p].install # Absent =>
                drawer.install = [key |-> held'[p].install, legible |-> TRUE]]_startupVars
  BY HonestStep DEF Claims
<1>3. HonestInv /\ [StartupNext]_startupVars => HonestInv'
  BY HonestStep
<1> QED BY <1>1, <1>2, <1>3, HonestStart, PTL DEF StartupSpec, KeysAreHonest, IdentityIsKept, ClaimsAreTrue
=============================================================================
