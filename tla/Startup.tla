------------------------------ MODULE Startup ------------------------------
(***************************************************************************)
(* How a daemon gets from nothing to serving: the database, the sample app, *)
(* the two long-lived keys, the port and the control socket, in the order   *)
(* run() takes them.                                                        *)
(*                                                                         *)
(* What outlives a process is here, so a crash between any two steps and    *)
(* two daemons started at once are; so is the thread that asks the keystore *)
(* and is never joined, which goes on after its five seconds are up.        *)
(***************************************************************************)
EXTENDS Integers, FiniteSets

CONSTANTS Process,      \* daemon processes, a set of numbers, each of which can be started again
          Port,         \* the ports tried, in order: a set of numbers
          Latest,       \* migrations the database has
          MaxStarts,    \* bound: how often a daemon is started
          MaxFaults     \* bound: crashes, calls that fail and folders thrown away

ASSUME StartupAssumption ==
    /\ Process \subseteq Nat \ {0} /\ Port \subseteq Nat /\ Port # {}
    /\ Latest \in Nat \ {0}
    /\ MaxStarts \in Nat /\ MaxFaults \in Nat

VARIABLES at,        \* where each process has got to in run()
          asker,     \* its keystore thread: where it is and what it has so far
          held,      \* the keys it serves with
          drawer,    \* the kind of keystore, and what it holds under each name
          database,  \* system.db: what its tables are, what it says they are, and the mark
          sample,    \* the Welcome folder of the workspace
          sockfile,  \* whose socket is at the path, if there is a file
          busy,      \* who listens on each port
          made,      \* history: how often the sample app was put there
          excused,   \* history: how often that was not recorded, or not in time
          crowded,   \* history: two keystore threads have been at work at once
          raced,     \* history: two daemons found the same stale socket
          mistaken,  \* history: one took for stale the socket of a daemon that still ran
          minted, starts, faults

stores      == <<drawer, database, sample>>
histories   == <<made, excused, crowded, raced, mistaken>>
startupVars == <<at, asker, held, drawer, database, sample, sockfile, busy,
                 made, excused, crowded, raced, mistaken, minted, starts, faults>>

NoProcess == 0
Stranger  == -1         \* none of these: another program, or a daemon of before
Names     == {"session", "install"}
Absent    == 0          \* nothing under that name
Misshapen == 1          \* bytes of the wrong length
Genuine(key) == key > 1
Unheld == [session |-> Absent, kept |-> FALSE, install |-> Absent]
Resting == [at |-> "idle", name |-> "session", new |-> Absent, got |-> Unheld]

Alive(p)   == at[p] # "off"
Serving(p) == at[p] = "serving"
Fault      == faults < MaxFaults /\ faults' = faults + 1

StartupInit ==
    /\ at = [p \in Process |-> "off"]
    /\ asker = [p \in Process |-> Resting]
    /\ held = [p \in Process |-> Unheld]
    /\ \E kind \in {"keychain", "file"}, key \in {Absent, Misshapen, 2}, old \in {Absent, 2} :
          drawer = [kind |-> kind,
                    session |-> [key |-> old, legible |-> TRUE],
                    install |-> [key |-> key, legible |-> TRUE]]
    /\ database = [tables |-> 0, version |-> 0, marked |-> FALSE]
    /\ sample = "none"
    /\ sockfile \in {NoProcess, Stranger}
    /\ \E taken \in {0, 80} : busy = [n \in Port |-> IF n = taken THEN Stranger ELSE NoProcess]
    /\ made = 0 /\ excused = 0 /\ crowded = FALSE /\ raced = FALSE /\ mistaken = FALSE
    /\ minted = 2 /\ starts = 0 /\ faults = 0

-----------------------------------------------------------------------------
(* A process begins, and ends.                                             *)

\* A second one at the same time takes up all the faults (a bound).
Start(p) ==
    /\ at[p] = "off" /\ \A q \in Process : at[q] = "off" => p <= q
    /\ starts < MaxStarts /\ starts' = starts + 1
    /\ IF \E q \in Process : Alive(q)
       THEN faults = 0 /\ faults' = MaxFaults
       ELSE UNCHANGED faults
    /\ at' = [at EXCEPT ![p] = "migrating"]
    /\ held' = [held EXCEPT ![p] = Unheld]
    /\ UNCHANGED <<asker, stores, sockfile, busy, histories, minted>>

\* Faulty variant: a port is not given back.
EndedHoldsPort(p) ==
    /\ at' = [at EXCEPT ![p] = "off"]
    /\ asker' = [asker EXCEPT ![p] = Resting]
    /\ UNCHANGED busy

\* Memory and ports go with the process; its thread does too; the files stay.
Ended(p) ==
    /\ at' = [at EXCEPT ![p] = "off"]
    /\ asker' = [asker EXCEPT ![p] = Resting]
    /\ busy' = [n \in Port |-> IF busy[n] = p THEN NoProcess ELSE busy[n]]

\* A crash, or a signal nothing handles, between any two steps.
Crash(p) ==
    /\ Alive(p) /\ Fault
    /\ Ended(p)
    /\ excused' = IF at[p] = "marking" THEN excused + 1 ELSE excused
    /\ UNCHANGED <<held, stores, sockfile, made, crowded, raced, mistaken, minted, starts>>

\* ctrl-c, or one of the two servers ends: select! drops the socket's listener.  The pages go on
\* being served as long as the process lasts.  (Alone, a process that stops takes up a fault: a
\* bound.)
Stop(p) ==
    /\ Serving(p)
    /\ Fault \/ (UNCHANGED faults /\ \E q \in Process \ {p} : Alive(q))
    /\ at' = [at EXCEPT ![p] = "stopping"]
    /\ UNCHANGED <<asker, held, stores, sockfile, busy, histories, minted, starts>>

\* cleanup, after that: the file at the path goes, whoever bound it.
Cleanup(p) ==
    /\ at[p] = "stopping"
    /\ Ended(p)
    /\ sockfile' = NoProcess
    /\ UNCHANGED <<held, stores, histories, minted, starts, faults>>

\* An error before the socket is bound ends run() without its last lines.
GiveUp(p) ==
    /\ Ended(p)
    /\ UNCHANGED <<held, stores, sockfile, made, crowded, minted, starts>>

-----------------------------------------------------------------------------
(* The database and the sample app.                                        *)

\* Faulty variant: the number is written in a statement of its own, afterwards.
MigrateInTwo(p) ==
    /\ at[p] = "migrating" /\ database.version < Latest
    /\ \/ /\ database.tables = database.version
          /\ database' = [database EXCEPT !.tables = @ + 1]
       \/ /\ database.tables = database.version + 1
          /\ database' = [database EXCEPT !.version = @ + 1]
    /\ UNCHANGED <<at, asker, held, drawer, sample, sockfile, busy, histories,
                   minted, starts, faults>>

\* One migration: its tables and the number that records them in one transaction.
Migrate(p) ==
    /\ at[p] = "migrating" /\ database.version < Latest
    /\ database.tables = database.version
    /\ database' = [database EXCEPT !.tables = @ + 1, !.version = @ + 1]
    /\ UNCHANGED <<at, asker, held, drawer, sample, sockfile, busy, histories,
                   minted, starts, faults>>

\* The workspace is there or can be made.
Opened(p) ==
    /\ at[p] = "migrating" /\ database.version = Latest
    /\ at' = [at EXCEPT ![p] = "seeding"]
    /\ UNCHANGED <<asker, held, stores, sockfile, busy, histories, minted, starts,
                   faults>>

\* The database will not open or the workspace cannot be made; or another process has
\* taken the migration this one counted on.
NotOpened(p) ==
    /\ at[p] = "migrating"
    /\ Fault \/ (UNCHANGED faults /\ \E q \in Process \ {p} : Alive(q))
    /\ GiveUp(p)
    /\ UNCHANGED <<excused, raced, mistaken>>

\* The thread that asks for both keys is let go.
AskKeystore(p) ==
    /\ asker' = [asker EXCEPT ![p] = [Resting EXCEPT !.at = "get"]]
    /\ crowded' = (crowded \/ \E q \in Process \ {p} : at[q] = "keys" \/ asker[q].at # "idle")

\* A folder of that name is left alone, whoever's it is; a write may fail half-way.
Seed(p) ==
    /\ at[p] = "seeding" /\ ~database.marked
    /\ at' = [at EXCEPT ![p] = "marking"]
    /\ \/ /\ sample = "there"
          /\ UNCHANGED <<sample, made, excused, faults>>
       \/ /\ sample = "none"
          /\ sample' = "there" /\ made' = made + 1
          /\ excused' = IF \E q \in Process : at[q] = "marking" THEN excused + 1 ELSE excused
          /\ UNCHANGED faults
       \/ /\ sample = "none" /\ Fault
          /\ UNCHANGED <<sample, made, excused>>
    /\ UNCHANGED <<asker, held, drawer, database, sockfile, busy, crowded, raced, mistaken,
                   minted, starts>>

\* Faulty variant: an unreadable mark is taken for none.
SkipSeedIfMarked(p) ==
    /\ at[p] = "seeding"
    /\ \/ /\ database.marked
          /\ at' = [at EXCEPT ![p] = "keys"]
          /\ AskKeystore(p)
          /\ UNCHANGED <<sample, made, faults>>
       \/ /\ Fault /\ sample = "none"
          /\ at' = [at EXCEPT ![p] = "marking"]
          /\ sample' = "there" /\ made' = made + 1
          /\ UNCHANGED <<asker, crowded>>
    /\ UNCHANGED <<held, drawer, database, sockfile, busy, excused, raced, mistaken,
                   minted, starts>>

\* It was offered before, or there is no telling whether it was.
SkipSeed(p) ==
    /\ at[p] = "seeding"
    /\ at' = [at EXCEPT ![p] = "keys"]
    /\ \/ database.marked /\ UNCHANGED faults
       \/ Fault
    /\ AskKeystore(p)
    /\ UNCHANGED <<held, stores, sockfile, busy, made, excused, raced, mistaken, minted, starts>>

\* Marked even when nothing was written, unless marking fails.
Mark(p) ==
    /\ at[p] = "marking"
    /\ at' = [at EXCEPT ![p] = "keys"]
    /\ \/ database' = [database EXCEPT !.marked = TRUE] /\ UNCHANGED <<excused, faults>>
       \/ Fault /\ excused' = excused + 1 /\ UNCHANGED database
    /\ AskKeystore(p)
    /\ UNCHANGED <<held, drawer, sample, sockfile, busy, made, raced, mistaken, minted, starts>>

\* The owner throws the sample app away.
Discard ==
    /\ sample = "there" /\ Fault
    /\ sample' = "none"
    /\ UNCHANGED <<at, asker, held, drawer, database, sockfile, busy, histories,
                   minted, starts>>

-----------------------------------------------------------------------------
(* The keystore thread: resolve and resolve_install, one after the other.  *)

AskerAt(p, step) == asker[p].at = step
Name(p)     == asker[p].name
Item(p)     == drawer[Name(p)]

Step(p, fields) == asker' = [asker EXCEPT ![p] = fields]

\* What a read can answer: the item, nothing, or an error, which a locked keychain
\* gives at any time and an item another build filed gives every time.
Refused(p)    == IF Item(p).legible THEN Fault ELSE UNCHANGED faults

\* One name is settled: the install key comes second, and then the answer is sent.
Settle(p, key, kept) ==
    LET got == IF Name(p) = "session"
               THEN [asker[p].got EXCEPT !.session = key, !.kept = kept]
               ELSE [asker[p].got EXCEPT !.install = key]
    IN Step(p, [at |-> IF Name(p) = "session" THEN "get" ELSE "done",
                name |-> "install", new |-> Absent, got |-> got])

\* A key that could not be kept: good enough to sign with, not to be known by.
Unsaved(p) ==
    Settle(p, IF Name(p) = "session" THEN asker[p].new ELSE Absent, FALSE)

Replace(p) ==
    /\ minted' = minted + 1
    /\ Step(p, [asker[p] EXCEPT !.at = "set", !.new = minted + 1])

LoadKey(p) ==
    /\ AskerAt(p, "get") /\ Genuine(Item(p).key) /\ Item(p).legible
    /\ Settle(p, Item(p).key, TRUE)
    /\ UNCHANGED <<drawer, minted, faults>>

\* Nothing there, or nothing anyone could use; a session key that cannot be read, too.
Renew(p) ==
    /\ AskerAt(p, "get")
    /\ \/ ~Genuine(Item(p).key) /\ Item(p).legible /\ UNCHANGED faults
       \/ Name(p) = "session" /\ Refused(p)
    /\ Replace(p)
    /\ UNCHANGED drawer

\* Faulty variant: the install key is treated as the session key is.
LeaveNothingAlone(p) ==
    /\ AskerAt(p, "get") /\ Name(p) = "install"
    /\ Refused(p)
    /\ Replace(p)
    /\ UNCHANGED drawer

\* An install key that cannot be read may be there: no identity this run.
LeaveAlone(p) ==
    /\ AskerAt(p, "get") /\ Name(p) = "install"
    /\ Refused(p)
    /\ Settle(p, Absent, FALSE)
    /\ UNCHANGED <<drawer, minted>>

Write(p, item) == drawer' = [drawer EXCEPT ![Name(p)] = item]

\* A file is replaced whole; a keychain takes an item only where there is none, and the
\* item may turn out to be one this process cannot read.
Save(p) ==
    /\ asker[p].at \in {"set", "again"}
    /\ drawer.kind = "file" \/ Item(p).key = Absent
    /\ \E legible \in BOOLEAN :
          /\ Write(p, [key |-> asker[p].new, legible |-> legible])
          /\ legible \/ drawer.kind = "keychain"
          /\ IF legible THEN UNCHANGED faults ELSE Fault
    /\ Step(p, [asker[p] EXCEPT !.at = "back"])
    /\ UNCHANGED minted

\* Something is filed under this name: it goes first, and the key is added after.
RemoveOld(p) ==
    /\ AskerAt(p, "set") /\ drawer.kind = "keychain" /\ Item(p).key # Absent
    /\ Write(p, [key |-> Absent, legible |-> TRUE])
    /\ Step(p, [asker[p] EXCEPT !.at = "again"])
    /\ UNCHANGED <<minted, faults>>

SaveFails(p) ==
    /\ \/ asker[p].at \in {"set", "again"} /\ Fault
       \/ AskerAt(p, "again") /\ Item(p).key # Absent /\ UNCHANGED faults
    /\ Unsaved(p)
    /\ UNCHANGED <<drawer, minted>>

\* Faulty variant: what the keystore accepted is taken for kept.
ReadBackNot(p) ==
    /\ AskerAt(p, "back")
    /\ Settle(p, asker[p].new, TRUE)
    /\ UNCHANGED <<drawer, minted, faults>>

\* The only evidence that a key is kept is getting it back.
ReadBack(p) ==
    /\ AskerAt(p, "back")
    /\ \/ /\ Item(p).key = asker[p].new /\ Item(p).legible
          /\ Settle(p, asker[p].new, TRUE)
          /\ UNCHANGED faults
       \/ /\ Item(p).key # asker[p].new /\ Item(p).legible
          /\ Unsaved(p)
          /\ UNCHANGED faults
       \/ Refused(p) /\ Unsaved(p)
    /\ UNCHANGED <<drawer, minted>>

AskerStep(p) ==
    /\ LoadKey(p) \/ Renew(p) \/ LeaveAlone(p) \/ Save(p) \/ RemoveOld(p) \/ SaveFails(p) \/ ReadBack(p)
    /\ UNCHANGED <<at, held, database, sample, sockfile, busy, histories, starts>>

\* A build of another identity, or the first one again: who may read an item is filed
\* with the item.
Rebuild ==
    /\ drawer.kind = "keychain" /\ \A p \in Process : ~Alive(p)
    /\ Fault
    /\ drawer' = [n \in DOMAIN drawer |->
                    IF n \in Names /\ drawer[n].key # Absent
                    THEN [drawer[n] EXCEPT !.legible = ~@] ELSE drawer[n]]
    /\ UNCHANGED <<at, asker, held, database, sample, sockfile, busy, histories,
                   minted, starts>>

-----------------------------------------------------------------------------
(* The keys are taken or not waited for; then the port and the socket.      *)

TakeKeys(p) ==
    /\ at[p] = "keys" /\ AskerAt(p, "done")
    /\ at' = [at EXCEPT ![p] = "ports"]
    /\ held' = [held EXCEPT ![p] = asker[p].got]
    /\ Step(p, Resting)
    /\ UNCHANGED <<stores, sockfile, busy, histories, minted, starts, faults>>

\* Faulty variant: the thread is joined.
DeadlineJoins(p) == at[p] = "keys" /\ ~AskerAt(p, "done") /\ FALSE /\ UNCHANGED startupVars

\* KEYSTORE_BUDGET: the thread is left where it is, and may yet write.
Deadline(p) ==
    /\ at[p] = "keys" /\ ~AskerAt(p, "done")
    /\ at' = [at EXCEPT ![p] = "ports"]
    /\ minted' = minted + 1
    /\ held' = [held EXCEPT ![p] = [Unheld EXCEPT !.session = minted + 1]]
    /\ UNCHANGED <<asker, stores, sockfile, busy, histories, starts, faults>>

FreePorts == {n \in Port : busy[n] = NoProcess}

BindPort(p) ==
    /\ at[p] = "ports"
    /\ \E n \in FreePorts :
          /\ \A m \in FreePorts : n <= m
          /\ busy' = [busy EXCEPT ![n] = p]
    /\ at' = [at EXCEPT ![p] = "looking"]
    /\ UNCHANGED <<asker, held, stores, sockfile, histories, minted, starts, faults>>

NoPort(p) ==
    /\ at[p] = "ports" /\ FreePorts = {}
    /\ GiveUp(p)
    /\ UNCHANGED <<excused, raced, mistaken, faults>>

Answers(p) == p \in Process /\ at[p] \in {"bound", "serving"}

\* The daemon whose socket it is has not given up the path yet.
Holds(p) == Answers(p) \/ (p \in Process /\ at[p] = "stopping")

\* No file: bind.  A file on which connecting fails is stale, whatever the error: nothing listens
\* there any more, or a daemon that does could not be reached just then.
Look(p) ==
    /\ at[p] = "looking"
    /\ \/ /\ sockfile = NoProcess
          /\ at' = [at EXCEPT ![p] = "binding"]
          /\ UNCHANGED <<raced, mistaken>>
       \/ /\ sockfile # NoProcess
          /\ at' = [at EXCEPT ![p] = "clearing"]
          /\ raced' = (raced \/ \E q \in Process : at[q] = "clearing")
          /\ mistaken' = (mistaken \/ Holds(sockfile))
    /\ UNCHANGED <<asker, held, stores, sockfile, busy, made, excused, crowded,
                   minted, starts, faults>>

\* Faulty variant: every way out of run() takes the file away.
AlreadyRunningTidies(p) ==
    /\ at[p] = "looking" /\ Answers(sockfile)
    /\ Ended(p) /\ sockfile' = NoProcess
    /\ UNCHANGED <<held, stores, histories, minted, starts, faults>>

\* A daemon is running: its file is left alone.
AlreadyRunning(p) ==
    /\ at[p] = "looking" /\ Answers(sockfile)
    /\ GiveUp(p)
    /\ UNCHANGED <<excused, raced, mistaken, faults>>

RemoveStale(p) ==
    /\ at[p] = "clearing" /\ sockfile # NoProcess
    /\ at' = [at EXCEPT ![p] = "binding"]
    /\ sockfile' = NoProcess
    /\ UNCHANGED <<asker, held, stores, busy, histories, minted, starts, faults>>

BindSocket(p) ==
    /\ at[p] = "binding" /\ sockfile = NoProcess
    /\ at' = [at EXCEPT ![p] = "bound"]
    /\ sockfile' = p
    /\ UNCHANGED <<asker, held, stores, busy, histories, minted, starts, faults>>

\* Another process was there first.
SocketFails(p) ==
    /\ \/ at[p] = "clearing" /\ sockfile = NoProcess
       \/ at[p] = "binding" /\ sockfile # NoProcess
    /\ GiveUp(p)
    /\ UNCHANGED <<excused, raced, mistaken, faults>>

\* The watcher, the account and the two servers; without a watcher run() ends, and
\* leaves the file.
Serve(p) ==
    /\ at[p] = "bound"
    /\ at' = [at EXCEPT ![p] = "serving"]
    /\ UNCHANGED <<asker, held, stores, sockfile, busy, histories, minted, starts,
                   faults>>

WatchFails(p) ==
    /\ at[p] = "bound" /\ Fault
    /\ GiveUp(p)
    /\ UNCHANGED <<excused, raced, mistaken>>

-----------------------------------------------------------------------------
DaemonStep(p) ==
    \/ Migrate(p) \/ Opened(p) \/ Seed(p) \/ SkipSeed(p) \/ Mark(p)
    \/ TakeKeys(p) \/ Deadline(p) \/ BindPort(p) \/ NoPort(p)
    \/ Look(p) \/ AlreadyRunning(p) \/ RemoveStale(p) \/ BindSocket(p) \/ SocketFails(p)
    \/ Serve(p) \/ Cleanup(p)

StartupNext ==
    \/ \E p \in Process :
          \/ Start(p) \/ Crash(p) \/ Stop(p)
          \/ DaemonStep(p) \/ NotOpened(p) \/ WatchFails(p)
          \/ AskerStep(p)
    \/ Rebuild \/ Discard

StartupSpec == StartupInit /\ [][StartupNext]_startupVars

\* The process runs; nothing is assumed of the keystore or of people.
StartupFairSpec == StartupSpec /\ \A p \in Process : WF_startupVars(DaemonStep(p))

-----------------------------------------------------------------------------
StartupTypeOK ==
    /\ at \in [Process -> {"off", "migrating", "seeding", "marking", "keys", "ports", "looking",
                           "clearing", "binding", "bound", "serving", "stopping"}]
    /\ \A p \in Process :
          /\ asker[p].at \in {"idle", "get", "set", "again", "back", "done"}
          /\ asker[p].at # "idle" => at[p] # "off"
          /\ held[p].session \in Nat /\ held[p].install \in Nat
    /\ \A n \in Names : drawer[n].key \in 0..minted
    /\ database.version \in 0..Latest /\ database.marked \in BOOLEAN
    /\ sample \in {"none", "there"}
    /\ sockfile \in Process \union {NoProcess, Stranger}
    /\ \A n \in Port : busy[n] \in {NoProcess, Stranger} \/ (busy[n] \in Process /\ Alive(busy[n]))

\* The install identity is never exchanged for another, whatever the keystore answers,
\* however late and wherever the process dies, unless two daemons were asking for it at
\* once (keys.rs, resolve_install: "leaving it alone").
IdentityIsKept ==
    [][(Genuine(drawer.install.key) /\ ~crowded) => drawer'.install.key = drawer.install.key]_startupVars

\* The same with no exception: what the module's own words promise.  Two first starts
\* break it, and the one whose key is lost serves with it.
IdentityIsNeverReplaced ==
    [][Genuine(drawer.install.key) => drawer'.install.key = drawer.install.key]_startupVars

\* A daemon that says its sessions survive a restart, or that has an identity, has just
\* had it from the keystore, and the next start of the same build can read it.
ClaimsAreTrue ==
    [][\A p \in Process : (at[p] = "keys" /\ at'[p] = "ports" /\ ~crowded) =>
          /\ held'[p].kept => drawer.session = [key |-> held'[p].session, legible |-> TRUE]
          /\ held'[p].install # Absent =>
                drawer.install = [key |-> held'[p].install, legible |-> TRUE]]_startupVars

\* Between processes the database is one the next start can go on from: a crash in the
\* middle of an upgrade leaves no table the next attempt trips over.
DatabaseOpens ==
    (\A p \in Process : ~Alive(p)) => database.tables = database.version

\* The sample app is put there once for every time that could not be written down, and
\* once more: a folder the owner threw away does not come back by itself.
SampleOnce == made <= 1 + excused

\* A daemon that serves is the one its socket reaches, so that only one does, and crashes, stops
\* and starts that give up leave it so, unless two met over a stale file or one took for stale
\* the file of a daemon that still ran.
ServingIsReachable ==
    ~raced /\ ~mistaken => \A p \in Process : Serving(p) => sockfile = p

\* The same though one was taken for stale (socket.rs, bind: "A socket file that still has a
\* listener belongs to a running daemon and is left alone").
RunningIsLeftAlone == ~raced => \A p \in Process : Serving(p) => sockfile = p

\* The same with no exception (socket.rs, bind: "keeps two daemons from serving one
\* workspace").
OneDaemonServes == \A p, q \in Process : Serving(p) /\ Serving(q) => p = q

\* A start comes to an end, serving or refusing to, though the keystore never answers.
StartupEnds == \A p \in Process : at[p] = "migrating" ~> (Serving(p) \/ ~Alive(p))

\* However starts, crashes and a second daemon fall over one data folder: the database can
\* be opened, the sample is made once, and who serves is who the socket reaches.
StartupSafe ==
    /\ StartupTypeOK
    /\ DatabaseOpens
    /\ SampleOnce
    /\ ServingIsReachable

\* The keys a daemon goes by: kept where they were found, and as durable as it says.
KeysAreHonest == IdentityIsKept /\ ClaimsAreTrue
=============================================================================
