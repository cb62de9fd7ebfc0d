----------------------------- MODULE Supervisor -----------------------------
(***************************************************************************)
(* How the desktop shell starts, adopts and stops the daemon.               *)
(*                                                                         *)
(* One thread makes sure of a daemon when the shell starts; the main thread *)
(* does what the owner's buttons ask, one at a time.  Between asking how    *)
(* the daemon is, stopping it, spawning one and keeping hold of its process *)
(* anything may happen: a daemon crashes, hangs and comes to, a terminal    *)
(* starts another, the other thread goes on.                                *)
(*                                                                         *)
(* What a daemon does between its start and its socket is Startup's; here  *)
(* it binds in one step, or finds somebody listening and gives up.          *)
(***************************************************************************)
EXTENDS Naturals

CONSTANTS Daemon,     \* processes, each started once
          Outsider,   \* those the owner starts from a terminal
          NoDaemon,
          Polls,      \* the delays of BACKOFF
          MaxPresses, \* bound: the owner's buttons
          MaxUpsets   \* bound: crashes and hangs

ASSUME SupervisorAssumption ==
    /\ Outsider \subseteq Daemon /\ NoDaemon \notin Daemon
    /\ Polls \in Nat \ {0} /\ MaxPresses \in Nat /\ MaxUpsets \in Nat

VARIABLES process,    \* what each daemon is doing
          listening,  \* whose socket it is
          child,      \* Supervisor::child
          doing,      \* each thread's place in ensure_running and around it
          holding,    \* the process a thread has spawned and not stored yet
          polls,      \* handshakes a thread has made since
          shell,      \* whether the shell still runs
          killed,     \* history: what stop has killed
          overlapped, \* history: a button was pressed while the first thread was at work
          presses, upsets

daemonVars == <<process, listening, upsets>>
threadVars == <<doing, holding, polls>>
shellVars  == <<process, listening, child, doing, holding, polls, shell, killed, overlapped,
                presses, upsets>>

\* The thread of setup, and the one commands and the tray run on.
ShellThread == {"setup", "main"}

Running == {"starting", "ready", "hung", "foreign"}
IsRunning(d) == d \in Daemon /\ process[d] \in Running

ShellInit ==
    /\ process = [d \in Daemon |-> "unborn"]
    /\ listening = NoDaemon
    /\ child = NoDaemon
    /\ doing = [t \in ShellThread |-> IF t = "setup" THEN "asking" ELSE "idle"]
    /\ holding = [t \in ShellThread |-> NoDaemon]
    /\ polls = [t \in ShellThread |-> 0]
    /\ shell = "up"
    /\ killed = {} /\ overlapped = FALSE
    /\ presses = 0 /\ upsets = 0

-----------------------------------------------------------------------------
(* The daemons.                                                            *)

\* One that finds another listening, well or not, gives up.  What a terminal starts may be
\* of another build, which answers and speaks another version.
Bind(d) ==
    /\ process[d] = "starting"
    /\ IF listening # NoDaemon
       THEN process' = [process EXCEPT ![d] = "dead"] /\ UNCHANGED listening
       ELSE /\ \E how \in IF d \in Outsider THEN {"ready", "foreign"} ELSE {"ready"} :
                  process' = [process EXCEPT ![d] = how]
            /\ listening' = d
    /\ UNCHANGED <<child, threadVars, shell, killed, overlapped, presses, upsets>>

\* A process that ends leaves its socket with nobody behind it.
Ends(d) ==
    /\ process' = [process EXCEPT ![d] = "dead"]
    /\ listening' = IF listening = d THEN NoDaemon ELSE listening

Upset(d) ==
    /\ upsets < MaxUpsets /\ upsets' = upsets + 1
    /\ \/ IsRunning(d) /\ Ends(d)
       \/ process[d] = "ready" /\ process' = [process EXCEPT ![d] = "hung"] /\ UNCHANGED listening
    /\ UNCHANGED <<child, threadVars, shell, killed, overlapped, presses>>

Recover(d) ==
    /\ process[d] = "hung" /\ process' = [process EXCEPT ![d] = "ready"]
    /\ UNCHANGED <<listening, child, threadVars, shell, killed, overlapped, presses, upsets>>

StartElsewhere(d) ==
    /\ d \in Outsider /\ process[d] = "unborn"
    /\ process' = [process EXCEPT ![d] = "starting"]
    /\ UNCHANGED <<listening, child, threadVars, shell, killed, overlapped, presses, upsets>>

-----------------------------------------------------------------------------
(* Supervisor::ensure_running, on either thread.                           *)

GoOn(t, step) == doing' = [doing EXCEPT ![t] = step]

\* The handshake: not running, ready, or one that speaks another version or nothing at all.
Ask(t) ==
    /\ shell = "up" /\ doing[t] = "asking"
    /\ GoOn(t, IF listening = NoDaemon THEN "spawning"
               ELSE IF process[listening] = "ready" THEN "idle" ELSE "replacing")
    /\ UNCHANGED <<daemonVars, child, holding, polls, shell, killed, overlapped, presses>>

\* Faulty variant: whoever listens is stopped, adopted or not.
StopListener(t, next) ==
    /\ IF listening # NoDaemon THEN Ends(listening) /\ killed' = killed \union {listening}
       ELSE UNCHANGED <<process, listening, killed>>
    /\ child' = NoDaemon /\ GoOn(t, next)
    /\ UNCHANGED <<holding, polls, overlapped, presses, upsets>>

\* Faulty variant: the process is let go of and not killed.
StopLettingGo(t, next) ==
    /\ child' = NoDaemon /\ GoOn(t, next)
    /\ UNCHANGED <<daemonVars, holding, polls, killed, overlapped, presses>>

\* Supervisor::stop: the process it holds, and no other, is killed and waited for.
Stop(t, next) ==
    /\ IF IsRunning(child) THEN Ends(child) /\ killed' = killed \union {child}
       ELSE UNCHANGED <<process, listening, killed>>
    /\ child' = NoDaemon /\ GoOn(t, next)
    /\ UNCHANGED <<holding, polls, overlapped, presses, upsets>>

Replace(t) == shell = "up" /\ doing[t] = "replacing" /\ Stop(t, "spawning") /\ UNCHANGED shell

\* The process exists before the supervisor holds it; the binary may be missing.
Spawn(t) ==
    /\ shell = "up" /\ doing[t] = "spawning"
    /\ \/ \E d \in Daemon \ Outsider :
             /\ process[d] = "unborn"
             /\ process' = [process EXCEPT ![d] = "starting"]
             /\ holding' = [holding EXCEPT ![t] = d]
             /\ GoOn(t, "storing")
       \/ GoOn(t, "idle") /\ UNCHANGED <<process, holding>>
    /\ UNCHANGED <<listening, child, polls, shell, killed, overlapped, presses, upsets>>

\* Storing a handle drops the one that was there, which does not end its process.
Keep(t) ==
    /\ shell = "up" /\ doing[t] = "storing"
    /\ child' = holding[t]
    /\ holding' = [holding EXCEPT ![t] = NoDaemon]
    /\ polls' = [polls EXCEPT ![t] = 0]
    /\ GoOn(t, "waiting")
    /\ UNCHANGED <<daemonVars, shell, killed, overlapped, presses>>

\* One sleep and one handshake; after the last, DidNotStart.
Poll(t) ==
    /\ shell = "up" /\ doing[t] = "waiting"
    /\ polls' = [polls EXCEPT ![t] = @ + 1]
    /\ IF (listening # NoDaemon /\ process[listening] = "ready") \/ polls'[t] = Polls
       THEN GoOn(t, "idle") ELSE UNCHANGED doing
    /\ UNCHANGED <<daemonVars, child, holding, shell, killed, overlapped, presses>>

-----------------------------------------------------------------------------
(* The owner's buttons, on the main thread.                                *)

Press(step) ==
    /\ shell = "up" /\ doing["main"] = "idle"
    /\ presses < MaxPresses /\ presses' = presses + 1
    /\ GoOn("main", step)
    /\ overlapped' = (overlapped \/ doing["setup"] # "idle")
    /\ UNCHANGED <<daemonVars, child, holding, polls, shell, killed>>

RestartDaemon == Press("restarting")
Quit == Press("quitting")

StopForRestart ==
    shell = "up" /\ doing["main"] = "restarting" /\ Stop("main", "asking") /\ UNCHANGED shell

StopForQuit ==
    shell = "up" /\ doing["main"] = "quitting" /\ Stop("main", "leaving") /\ UNCHANGED shell

\* The process exits, whatever its other thread is in the middle of.
Exit ==
    /\ shell = "up" /\ doing["main"] = "leaving" /\ shell' = "gone"
    /\ UNCHANGED <<daemonVars, child, threadVars, killed, overlapped, presses>>

DaemonActs(d) == Bind(d) \/ Upset(d) \/ Recover(d) \/ StartElsewhere(d)

ShellActs(t) == Ask(t) \/ Replace(t) \/ Spawn(t) \/ Keep(t) \/ Poll(t)

ShellNext ==
    \/ \E d \in Daemon : DaemonActs(d)
    \/ \E t \in ShellThread : ShellActs(t)
    \/ RestartDaemon \/ Quit \/ StopForRestart \/ StopForQuit \/ Exit

\* Threads go on, and a daemon that was started binds or gives up.
ShellFairness ==
    /\ WF_shellVars(ShellActs("setup"))
    /\ WF_shellVars(ShellActs("main") \/ StopForRestart \/ StopForQuit \/ Exit)
    /\ \A d \in Daemon : WF_shellVars(Bind(d))

ShellSpec == ShellInit /\ [][ShellNext]_shellVars /\ ShellFairness

-----------------------------------------------------------------------------
(* Properties.                                                             *)

ShellTypeOK ==
    /\ process \in [Daemon -> Running \union {"unborn", "dead"}]
    /\ listening \in Daemon \union {NoDaemon} /\ child \in (Daemon \ Outsider) \union {NoDaemon}
    /\ doing \in [ShellThread -> {"idle", "asking", "replacing", "spawning", "storing", "waiting",
                                  "restarting", "quitting", "leaving"}]
    /\ holding \in [ShellThread -> (Daemon \ Outsider) \union {NoDaemon}]
    /\ polls \in [ShellThread -> 0..Polls] /\ shell \in {"up", "gone"}
    /\ killed \subseteq Daemon /\ overlapped \in BOOLEAN
    /\ presses \in 0..MaxPresses /\ upsets \in 0..MaxUpsets

\* stop: "One we adopted is left alone: it may be serving for a terminal session the user
\* still wants", however unwell it looked and whatever was pressed.
AdoptedIsLeftAlone == killed \intersect Outsider = {}

\* kt_quit: "there is one way to actually stop serving".  Once the shell has quit, nothing it
\* started serves on, unless a button was pressed before the first thread was done.
QuitStopsServing ==
    shell = "gone" /\ ~overlapped => \A d \in Daemon \ Outsider : ~IsRunning(d)

\* The shell stops all it started and none it did not.
ShellSafe == ShellTypeOK /\ AdoptedIsLeftAlone /\ QuitStopsServing

\* The same whenever the button was pressed.
QuitAlwaysStopsServing == shell = "gone" => \A d \in Daemon \ Outsider : ~IsRunning(d)

\* daemon.rs: "a daemon that is already healthy is adopted rather than replaced".
HealthyIsNotReplaced ==
    [][\A t \in ShellThread : doing[t] = "replacing" /\ doing'[t] = "spawning"
          => \A d \in Daemon : process[d] = "ready" => process'[d] = "ready"]_shellVars

\* daemon.rs: the shell "restarts one that died".
DeadIsRestarted ==
    (shell = "up" /\ child \in Daemon /\ ~IsRunning(child) /\ listening = NoDaemon)
        ~> (shell = "gone" \/ listening # NoDaemon)
=============================================================================
