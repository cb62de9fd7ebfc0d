----------------------------- MODULE WindowProofs -----------------------------
(***************************************************************************)
(* What holds of the owner's window and of the shell around it for any       *)
(* number of readers, daemons and presses, any beat and any length of bus;   *)
(* and of what the owner does there, the notices and lists, and the apps     *)
(* made and brought in. Machines that share nothing: what is proved of each  *)
(* is proved from its own specification.                                    *)
(***************************************************************************)
EXTENDS Window, Supervisor, Notices, Authoring, Integers, SequenceTheorems,
        FiniteSetTheorems, WellFoundedInduction, TLAPS

\* Any set of natural numbers that is not empty has a least one.
LEMMA LeastOf == ASSUME NEW T, T \subseteq Nat, T # {} PROVE \E x \in T : \A y \in T : x <= y
<1> DEFINE R == {ss \in Nat \X Nat : ss[1] < ss[2]}
<1>1. IsWellFoundedOn(R, Nat)
  BY NatLessThanWellFounded DEF OpToRel
<1>2. \E x \in T : \A y \in T : ~ (<<y, x>> \in R)
  <2> HIDE DEF R
  <2> QED BY <1>1, WFMin
<1>3. \A x \in Nat, y \in Nat : y < x => <<y, x>> \in R
  OBVIOUS
<1>4. \A x \in Nat, y \in Nat : <<y, x>> \notin R => x <= y
  <2> HIDE DEF R
  <2> QED BY <1>3
<1> HIDE DEF R
<1> QED BY <1>2, <1>4

\* And if they are bounded, a greatest one.
LEMMA GreatestOf ==
    ASSUME NEW n \in Nat, NEW T, T \subseteq 0..n, T # {} PROVE \E x \in T : \A y \in T : y <= x
<1> DEFINE D == {n - t : t \in T}
<1>1. D \subseteq Nat /\ D # {}
  <2>1. D \subseteq Nat
    OBVIOUS
  <2>2. PICK t \in T : TRUE
    OBVIOUS
  <2>3. n - t \in D
    OBVIOUS
  <2> QED BY <2>1, <2>3
<1>2. PICK d \in D : \A e \in D : d <= e
  <2> HIDE DEF D
  <2> QED BY <1>1, LeastOf
<1>3. PICK x \in T : d = n - x
  BY <1>2
<1>4. ASSUME NEW y \in T PROVE y <= x
  <2>1. n - y \in D
    OBVIOUS
  <2>2. d <= n - y
    BY <1>2, <2>1
  <2> QED BY <2>2, <1>3
<1> QED BY <1>3, <1>4

-----------------------------------------------------------------------------
(* The shell.                                                              *)

\* A process is in a thread's hands between its spawning and its storing, and then only.
HeldWhileStoring == \A t \in ShellThread : holding[t] # NoDaemon => doing[t] = "storing"

\* A thread that waits for its daemon has a handshake left to make.
PollsLeft == \A t \in ShellThread : doing[t] = "waiting" => polls[t] < Polls

\* The buttons are the main thread's, and nothing comes after the last of them.
ThreadsApart ==
    /\ doing["setup"] \notin {"restarting", "quitting", "leaving"}
    /\ shell = "gone" => doing["main"] = "leaving"

\* What the shell has started and still runs is held by it or by one of its threads.
Accounted ==
    \A d \in Daemon \ Outsider : IsRunning(d) => d = child \/ \E t \in ShellThread : holding[t] = d

\* A thread on its way to a daemon has none to lose, and neither has the shell on its way out.
Emptied ==
    \A t \in ShellThread :
        doing[t] \in {"asking", "replacing", "spawning", "storing", "leaving"} => child = NoDaemon

\* As long as no button was pressed too early: one thread at a time.
InTurn ==
    ~overlapped => Accounted /\ Emptied /\ (doing["setup"] # "idle" => doing["main"] = "idle")

ShellInv == ShellTypeOK /\ AdoptedIsLeftAlone /\ HeldWhileStoring /\ PollsLeft /\ ThreadsApart /\ InTurn

\* The shell starts with nothing started.
LEMMA ShellInvInit == ShellInit => ShellInv
<1> USE SupervisorAssumption
<1> SUFFICES ASSUME ShellInit PROVE ShellInv
  OBVIOUS
<1>1. ShellTypeOK
  <2>1. process \in [Daemon -> Running \union {"unborn", "dead"}] /\ killed \subseteq Daemon
    BY DEF ShellInit
  <2>2. /\ doing \in [ShellThread -> {"idle", "asking", "replacing", "spawning", "storing", "waiting",
                                      "restarting", "quitting", "leaving"}]
        /\ holding \in [ShellThread -> (Daemon \ Outsider) \union {NoDaemon}]
        /\ polls \in [ShellThread -> 0..Polls]
    BY DEF ShellInit
  <2>3. /\ listening = NoDaemon /\ child = NoDaemon /\ shell = "up" /\ overlapped \in BOOLEAN
        /\ presses = 0 /\ upsets = 0
    BY Zenon DEF ShellInit
  <2> QED BY <2>1, <2>2, <2>3 DEF ShellTypeOK
<1>2. AdoptedIsLeftAlone /\ HeldWhileStoring /\ PollsLeft /\ ThreadsApart /\ InTurn
  BY DEF ShellInit, AdoptedIsLeftAlone, HeldWhileStoring, PollsLeft, ThreadsApart, InTurn, Accounted, Emptied,
         IsRunning, Running, ShellThread
<1> QED BY <1>1, <1>2 DEF ShellInv

\* What the daemons do starts nothing of the shell's and moves none of its threads.
LEMMA DaemonsKeep == ASSUME ShellInv, NEW d \in Daemon, DaemonActs(d) PROVE ShellInv'
<1> USE SupervisorAssumption DEF ShellInv
<1>1. /\ UNCHANGED <<child, doing, holding, polls, shell, killed, overlapped, presses>>
      /\ upsets' \in 0..MaxUpsets /\ listening' \in Daemon \union {NoDaemon}
      /\ process' \in [Daemon -> Running \union {"unborn", "dead"}]
      /\ \A e \in Daemon \ Outsider : process'[e] \in Running => process[e] \in Running
  <2>1. CASE Bind(d)
    BY <2>1 DEF Bind, ShellTypeOK, Running, threadVars
  <2>2. CASE Upset(d)
    BY <2>2 DEF Upset, Ends, ShellTypeOK, Running, threadVars, IsRunning
  <2>3. CASE Recover(d)
    BY <2>3 DEF Recover, ShellTypeOK, Running, threadVars
  <2>4. CASE StartElsewhere(d)
    BY <2>4 DEF StartElsewhere, ShellTypeOK, Running, threadVars
  <2> QED BY <2>1, <2>2, <2>3, <2>4 DEF DaemonActs
<1>2. ShellTypeOK'
  BY <1>1 DEF ShellTypeOK
<1>3. AdoptedIsLeftAlone' /\ HeldWhileStoring' /\ PollsLeft' /\ ThreadsApart'
  BY <1>1 DEF AdoptedIsLeftAlone, HeldWhileStoring, PollsLeft, ThreadsApart
<1>4. InTurn'
  BY <1>1 DEF InTurn, Accounted, Emptied, IsRunning
<1> QED BY <1>2, <1>3, <1>4

\* Stopping ends what is held, and nothing else, and leaves nothing held.
LEMMA StopKeeps ==
    ASSUME ShellInv, NEW t \in ShellThread, NEW next \in {"asking", "spawning", "leaving"},
           doing[t] \in {"replacing", "restarting", "quitting"}, t = "setup" => next = "spawning",
           shell = "up", Stop(t, next), UNCHANGED shell
    PROVE  ShellInv'
<1> USE SupervisorAssumption DEF ShellInv
<1>1. /\ UNCHANGED <<holding, polls, shell, overlapped, presses, upsets>>
      /\ child' = NoDaemon /\ doing' = [doing EXCEPT ![t] = next]
      /\ killed' \subseteq killed \union ({child} \intersect Daemon)
      /\ listening' \in {listening, NoDaemon}
      /\ process' \in [Daemon -> Running \union {"unborn", "dead"}]
      /\ \A e \in Daemon : process'[e] \in Running => process[e] \in Running /\ e # child
  BY DEF Stop, Ends, GoOn, IsRunning, ShellTypeOK, Running
<1>2. ShellTypeOK'
  BY <1>1 DEF ShellTypeOK
<1>3. AdoptedIsLeftAlone'
  BY <1>1 DEF AdoptedIsLeftAlone, ShellTypeOK
<1>4. HeldWhileStoring' /\ PollsLeft' /\ ThreadsApart'
  BY <1>1 DEF HeldWhileStoring, PollsLeft, ThreadsApart, ShellTypeOK, ShellThread
<1>5. InTurn'
  BY <1>1 DEF InTurn, Accounted, Emptied, IsRunning, ShellTypeOK, ShellThread
<1> QED BY <1>2, <1>3, <1>4, <1>5

\* Each step of the shell keeps account.
LEMMA ShellInvStep == ShellInv /\ [ShellNext]_shellVars => ShellInv'
<1> USE SupervisorAssumption DEF ShellInv
<1> SUFFICES ASSUME ShellInv, [ShellNext]_shellVars PROVE ShellInv'
  OBVIOUS
<1>1. CASE \E d \in Daemon : DaemonActs(d)
  BY <1>1, DaemonsKeep
<1>2. ASSUME NEW t \in ShellThread, Ask(t) PROVE ShellInv'
  <2>1. ShellTypeOK'
    BY <1>2 DEF Ask, GoOn, ShellTypeOK, daemonVars
  <2>2. AdoptedIsLeftAlone' /\ HeldWhileStoring' /\ PollsLeft' /\ ThreadsApart'
    BY <1>2 DEF Ask, GoOn, AdoptedIsLeftAlone, HeldWhileStoring, PollsLeft, ThreadsApart, ShellTypeOK
  <2>3. InTurn'
    BY <1>2 DEF Ask, GoOn, InTurn, Accounted, Emptied, IsRunning, ShellTypeOK, ShellThread, daemonVars
  <2> QED BY <2>1, <2>2, <2>3
<1>3. ASSUME NEW t \in ShellThread, Replace(t) PROVE ShellInv'
  BY <1>3, StopKeeps DEF Replace
<1>4. ASSUME NEW t \in ShellThread, Spawn(t) PROVE ShellInv'
  <2>1. CASE GoOn(t, "idle") /\ UNCHANGED <<process, holding>>
    <3>1. ShellTypeOK'
      BY <1>4, <2>1 DEF Spawn, GoOn, ShellTypeOK
    <3>2. AdoptedIsLeftAlone' /\ HeldWhileStoring' /\ PollsLeft' /\ ThreadsApart'
      BY <1>4, <2>1 DEF Spawn, GoOn, AdoptedIsLeftAlone, HeldWhileStoring, PollsLeft, ThreadsApart, ShellTypeOK
    <3>3. InTurn'
      BY <1>4, <2>1 DEF Spawn, GoOn, InTurn, Accounted, Emptied, IsRunning, ShellTypeOK, ShellThread
    <3> QED BY <3>1, <3>2, <3>3
  <2>2. ASSUME NEW d \in Daemon \ Outsider, process[d] = "unborn",
               process' = [process EXCEPT ![d] = "starting"],
               holding' = [holding EXCEPT ![t] = d], GoOn(t, "storing")
        PROVE  ShellInv'
    <3>1. ShellTypeOK'
      BY <1>4, <2>2 DEF Spawn, GoOn, ShellTypeOK, Running
    <3>2. AdoptedIsLeftAlone' /\ HeldWhileStoring' /\ PollsLeft' /\ ThreadsApart'
      BY <1>4, <2>2 DEF Spawn, GoOn, AdoptedIsLeftAlone, HeldWhileStoring, PollsLeft, ThreadsApart, ShellTypeOK
    <3>3. holding[t] = NoDaemon
      BY <1>4 DEF Spawn, HeldWhileStoring
    <3>4. InTurn'
      BY <1>4, <2>2, <3>3 DEF Spawn, GoOn, InTurn, Accounted, Emptied, IsRunning, ShellTypeOK, ShellThread
    <3> QED BY <3>1, <3>2, <3>4
  <2> QED BY <1>4, <2>1, <2>2 DEF Spawn
<1>5. ASSUME NEW t \in ShellThread, Keep(t) PROVE ShellInv'
  <2>1. ShellTypeOK'
    BY <1>5 DEF Keep, GoOn, ShellTypeOK, daemonVars
  <2>2. AdoptedIsLeftAlone' /\ HeldWhileStoring' /\ PollsLeft' /\ ThreadsApart'
    BY <1>5 DEF Keep, GoOn, AdoptedIsLeftAlone, HeldWhileStoring, PollsLeft, ThreadsApart, ShellTypeOK
  <2>3. InTurn'
    BY <1>5 DEF Keep, GoOn, InTurn, Accounted, Emptied, IsRunning, ShellTypeOK, ShellThread, daemonVars,
                HeldWhileStoring, PollsLeft, ThreadsApart
  <2> QED BY <2>1, <2>2, <2>3
<1>6. ASSUME NEW t \in ShellThread, Poll(t) PROVE ShellInv'
  <2>1. /\ shell = "up" /\ doing[t] = "waiting" /\ polls' = [polls EXCEPT ![t] = @ + 1]
        /\ UNCHANGED <<process, listening, upsets, child, holding, shell, killed, overlapped, presses>>
        /\ doing' = doing \/ doing' = [doing EXCEPT ![t] = "idle"]
        /\ polls'[t] = Polls => doing' = [doing EXCEPT ![t] = "idle"]
    BY <1>6 DEF Poll, GoOn, daemonVars
  <2>2. ShellTypeOK'
    BY <2>1 DEF PollsLeft, ShellTypeOK
  <2>a. \A u \in ShellThread : doing'[u] = "waiting" => polls'[u] < Polls
    <3> SUFFICES ASSUME NEW u \in ShellThread, doing'[u] = "waiting" PROVE polls'[u] < Polls
      OBVIOUS
    <3>1. CASE u = t
      <4>1. polls'[t] \in 0..Polls /\ polls'[t] # Polls
        BY <2>1, <2>2, <3>1 DEF ShellTypeOK
      <4> QED BY <3>1, <4>1
    <3>2. CASE u # t
      BY <2>1, <3>2 DEF PollsLeft, ShellTypeOK
    <3> QED BY <3>1, <3>2
  <2>3. AdoptedIsLeftAlone' /\ HeldWhileStoring' /\ PollsLeft' /\ ThreadsApart'
    <3>1. PollsLeft'
      BY <2>a DEF PollsLeft
    <3>2. AdoptedIsLeftAlone' /\ HeldWhileStoring' /\ ThreadsApart'
      BY <2>1 DEF AdoptedIsLeftAlone, HeldWhileStoring, ThreadsApart, ShellTypeOK, ShellThread
    <3> QED BY <3>1, <3>2
  <2>4. InTurn'
    BY <2>1 DEF InTurn, Accounted, Emptied, IsRunning, ShellTypeOK, ShellThread
  <2> QED BY <2>2, <2>3, <2>4
<1>7. CASE RestartDaemon \/ Quit
  <2>1. PICK step \in {"restarting", "quitting"} : Press(step)
    BY <1>7 DEF RestartDaemon, Quit
  <2>2. ShellTypeOK'
    <3>1. overlapped' \in BOOLEAN
      BY Zenon, <2>1 DEF Press, ShellTypeOK
    <3> QED BY <2>1, <3>1 DEF Press, GoOn, ShellTypeOK, daemonVars, ShellThread
  <2>3. AdoptedIsLeftAlone' /\ HeldWhileStoring' /\ PollsLeft' /\ ThreadsApart'
    BY <2>1 DEF Press, GoOn, AdoptedIsLeftAlone, HeldWhileStoring, PollsLeft, ThreadsApart, ShellTypeOK, ShellThread
  <2>4. InTurn'
    BY <2>1 DEF Press, GoOn, InTurn, Accounted, Emptied, IsRunning, ShellTypeOK, ShellThread, daemonVars
  <2> QED BY <2>2, <2>3, <2>4
<1>8. CASE StopForRestart
  BY <1>8, StopKeeps DEF StopForRestart, ShellThread
<1>9. CASE StopForQuit
  BY <1>9, StopKeeps DEF StopForQuit, ShellThread
<1>10. CASE Exit
  BY <1>10 DEF Exit, ShellTypeOK, AdoptedIsLeftAlone, HeldWhileStoring, PollsLeft, ThreadsApart, InTurn, Accounted,
               Emptied, IsRunning, daemonVars, threadVars
<1>11. CASE UNCHANGED shellVars
  BY <1>11 DEF shellVars, ShellTypeOK, AdoptedIsLeftAlone, HeldWhileStoring, PollsLeft, ThreadsApart, InTurn,
               Accounted, Emptied, IsRunning
<1> QED BY <1>1, <1>2, <1>3, <1>4, <1>5, <1>6, <1>7, <1>8, <1>9, <1>10, <1>11 DEF ShellNext, ShellActs

\* The shell never stops a daemon it did not start, and once it has quit, however its threads,
\* the daemons and a terminal took turns, nothing it started serves on, unless a button was
\* pressed before the first thread was done (Supervisor::ensure_running, stop, kt_quit).
THEOREM ShellIsAlwaysSafe == ShellSpec => []ShellSafe
<1>1. ShellInv => ShellSafe
  <2>1. ASSUME ShellInv, shell = "gone", ~overlapped, NEW d \in Daemon \ Outsider
        PROVE  ~IsRunning(d)
    <3>1. doing["main"] = "leaving" /\ doing["setup"] = "idle" /\ child = NoDaemon
      BY <2>1 DEF ShellInv, ThreadsApart, InTurn, Emptied, ShellThread, ShellTypeOK
    <3>2. \A t \in ShellThread : holding[t] = NoDaemon
      BY <2>1, <3>1 DEF ShellInv, HeldWhileStoring, ShellThread
    <3> QED BY <2>1, <3>1, <3>2, SupervisorAssumption DEF ShellInv, InTurn, Accounted
  <2> QED BY <2>1 DEF ShellInv, ShellSafe, QuitStopsServing
<1> QED BY <1>1, ShellInvInit, ShellInvStep, PTL DEF ShellSpec

-----------------------------------------------------------------------------
(* The list in the window.                                                 *)

\* A page is somewhere.
PageIsSomewhere == \A v \in Viewer : page[v].state # "closed" => page[v].path \in Path

\* Nobody on the list of the daemon is past their time once the sweep has run.
SweptIsRecent == swept => \A v \in Viewer : Listed(v) => seen[v].age < Linger

\* The window shows nobody who is not listed, at no other page than the one listed.
Agreed == \A v \in Viewer : shown[v] \in {Nowhere, seen[v].path}

\* There is news in the bus.
NewsQueued == \E i \in 1..Len(queue) : queue[i] = "presence"

\* Where the window is behind, something will tell it so, or did not and is known as missed.
NewsIsDue == Agreed \/ stream = "off" \/ asking \/ missed \/ NewsQueued

\* A check-in of the viewer is on its way.
UnderWay(v) == \E m \in wire : m.kind = "beat" /\ m.from = v

\* How old an entry may get by the viewer's next beat.
Allowed(v) == IF steady[v] = 0 THEN Beat ELSE Beat + Beat

\* A page left alone is in view and listed, and its entry no older than since the beat before
\* its timer was last set, or the one before that if that one was lost.
BeatsAreKept ==
    \A v \in Viewer : steady[v] < 2 =>
        /\ page[v].state = "visible" /\ Listed(v)
        /\ \/ seen[v].age + page[v].timer <= Allowed(v)
           \/ page[v].timer = Beat /\ seen[v].age <= Allowed(v) /\ UnderWay(v)

\* With a goodbye on its way nobody counts as left alone.
GoodbyeUnsettles == \A v \in Viewer : Goodbye(v) \in wire => steady[v] = Unsteady

WindowInv ==
    TypeOK /\ PageIsSomewhere /\ SweptIsRecent /\ NewsIsDue /\ BeatsAreKept /\ GoodbyeUnsettles

\* What the bus does with an event: it is news that is due, if it says that presence changed,
\* and news that was due stays so.
LEMMA PublishKeeps ==
    ASSUME TypeOK, NEW event \in {"presence", "other"}, Publish(event), UNCHANGED stream
    PROVE  /\ queue' \in Seq({"presence", "other"}) /\ Len(queue') <= Backlog
           /\ lagged' \in BOOLEAN /\ missed' \in BOOLEAN
           /\ event = "presence" => missed' \/ NewsQueued'
           /\ missed \/ NewsQueued => missed' \/ NewsQueued'
<1> USE WindowAssumption
<1>1. queue \in Seq({"presence", "other"}) /\ Len(queue) \in Nat /\ Len(queue) <= Backlog
      /\ lagged \in BOOLEAN /\ missed \in BOOLEAN
  BY LenProperties DEF TypeOK
<1>2. CASE stream # "on"
  <2>1. missed' = (missed \/ event = "presence") /\ queue' = queue /\ lagged' = lagged
    BY <1>2 DEF Publish
  <2>2. missed' \in BOOLEAN /\ (missed => missed') /\ (event = "presence" => missed')
    BY Zenon, <2>1
  <2>3. NewsQueued => NewsQueued'
    BY <2>1 DEF NewsQueued
  <2> QED BY <1>1, <1>2, <2>1, <2>2, <2>3
<1>3. CASE stream = "on" /\ Len(queue) < Backlog
  <2>1. queue' = Append(queue, event) /\ missed' = missed /\ lagged' = lagged
    BY <1>3 DEF Publish
  <2>2. /\ queue' \in Seq({"presence", "other"}) /\ Len(queue') = Len(queue) + 1
        /\ queue'[Len(queue) + 1] = event /\ \A i \in 1..Len(queue) : queue'[i] = queue[i]
    BY <1>1, <2>1, AppendProperties
  <2>3. event = "presence" => NewsQueued'
    <3>1. Len(queue) + 1 \in 1..Len(queue')
      BY <1>1, <2>2
    <3> QED BY <2>2, <3>1 DEF NewsQueued
  <2>4. NewsQueued => NewsQueued'
    <3>1. \A i \in 1..Len(queue) : i \in 1..Len(queue')
      BY <1>1, <2>2
    <3> QED BY <2>2, <3>1 DEF NewsQueued
  <2> QED BY <1>1, <1>3, <2>1, <2>2, <2>3, <2>4
<1>4. CASE stream = "on" /\ ~(Len(queue) < Backlog)
  <2>1. /\ queue' = Append(Tail(queue), event) /\ lagged' = TRUE
        /\ missed' = (missed \/ Head(queue) = "presence")
    BY <1>4 DEF Publish
  <2>2. missed' \in BOOLEAN
    BY Zenon, <2>1
  <2>3. queue # <<>> /\ Len(queue) > 0
    BY <1>1, <1>4
  <2>4. /\ Tail(queue) \in Seq({"presence", "other"}) /\ Len(Tail(queue)) = Len(queue) - 1
        /\ \A i \in 1..Len(Tail(queue)) : Tail(queue)[i] = queue[i + 1]
    BY <1>1, <2>3, HeadTailProperties
  <2>5. /\ queue' \in Seq({"presence", "other"}) /\ Len(queue') = Len(queue)
        /\ queue'[Len(queue)] = event
        /\ \A i \in 1..Len(queue) - 1 : queue'[i] = queue[i + 1]
    <3>1. /\ queue' \in Seq({"presence", "other"}) /\ Len(queue') = Len(Tail(queue)) + 1
          /\ \A i \in 1..Len(Tail(queue)) : queue'[i] = Tail(queue)[i]
          /\ queue'[Len(Tail(queue)) + 1] = event
      BY <2>1, <2>4, AppendProperties
    <3> QED BY <1>1, <2>4, <3>1
  <2>6. event = "presence" => NewsQueued'
    <3>1. Len(queue) \in 1..Len(queue')
      BY <1>1, <2>3, <2>5
    <3> QED BY <2>5, <3>1 DEF NewsQueued
  <2>7. NewsQueued => missed' \/ NewsQueued'
    <3> SUFFICES ASSUME NEW i \in 1..Len(queue), queue[i] = "presence" PROVE missed' \/ NewsQueued'
      BY DEF NewsQueued
    <3>1. CASE i = 1
      <4>1. Head(queue) = queue[1]
        BY <1>1, <2>3
      <4> QED BY <2>1, <3>1, <4>1
    <3>2. CASE i # 1
      <4>1. i - 1 \in 1..Len(queue) - 1 /\ i - 1 \in 1..Len(queue') /\ (i - 1) + 1 = i
        BY <1>1, <2>5, <3>2
      <4>2. queue'[i - 1] = "presence"
        BY <2>5, <4>1
      <4> QED BY <4>1, <4>2 DEF NewsQueued
    <3> QED BY <3>1, <3>2
  <2>8. missed => missed'
    BY Zenon, <2>1
  <2> QED BY <1>1, <1>4, <2>1, <2>2, <2>5, <2>6, <2>7, <2>8
<1> QED BY <1>2, <1>3, <1>4

\* The same where an event is sent only if something changed.
LEMMA PublishIfKeeps ==
    ASSUME TypeOK, NEW changed, PublishIf(changed), UNCHANGED stream
    PROVE  /\ queue' \in Seq({"presence", "other"}) /\ Len(queue') <= Backlog
           /\ lagged' \in BOOLEAN /\ missed' \in BOOLEAN
           /\ changed => missed' \/ NewsQueued'
           /\ missed \/ NewsQueued => missed' \/ NewsQueued'
<1>1. CASE changed
  BY <1>1, PublishKeeps DEF PublishIf
<1>2. CASE ~changed
  BY <1>2 DEF PublishIf, TypeOK, NewsQueued
<1> QED BY <1>1, <1>2

\* News stays due as long as nobody moves on the list and nothing is taken from the bus.
LEMMA NewsKept ==
    ASSUME NewsIsDue, UNCHANGED <<queue, stream, asking, shown, missed>>,
           \A v \in Viewer : seen'[v].path = seen[v].path
    PROVE  NewsIsDue'
BY DEF NewsIsDue, Agreed, NewsQueued

\* At first nobody reads and nothing is shown.
LEMMA WindowInvInit == Init => WindowInv
<1> USE WindowAssumption
<1> SUFFICES ASSUME Init PROVE WindowInv
  OBVIOUS
<1>1. {swept, out, lagged, asking, missed} \subseteq BOOLEAN
  BY Zenon DEF Init
<1>2. TypeOK
  <2>1. <<>> \in Seq({"presence", "other"}) /\ Len(<<>>) = 0
    OBVIOUS
  <2> QED BY <1>1, <2>1 DEF Init, TypeOK, NotSeen, Unsteady
<1>3. PageIsSomewhere /\ SweptIsRecent /\ NewsIsDue /\ BeatsAreKept /\ GoodbyeUnsettles
  BY DEF Init, PageIsSomewhere, SweptIsRecent, NewsIsDue, BeatsAreKept, GoodbyeUnsettles, Agreed, Listed,
         NotSeen, Unsteady
<1> QED BY <1>2, <1>3 DEF WindowInv

\* What a page can be.
PageState == [state : {"closed", "hidden", "visible"}, path : Path \union {Nowhere}, timer : 0..Beat]

\* One viewer's page moves: it goes on being somewhere, takes nothing back that is on its way,
\* and counts as left alone only if it was and is.
PageMoves(v) ==
    /\ page' \in [Viewer -> PageState] /\ \A u \in Viewer \ {v} : page'[u] = page[u]
    /\ page'[v].state # "closed" => page'[v].path \in Path
    /\ wire \subseteq wire' /\ wire' \subseteq Message
    /\ \A u \in Viewer : Goodbye(u) \in wire' => Goodbye(u) \in wire \/ (u = v /\ steady'[u] = Unsteady)
    /\ steady' = steady \/ steady' = [steady EXCEPT ![v] = Unsteady]
    /\ steady'[v] < 2 =>
          /\ page'[v].state = "visible" /\ Listed(v)
          /\ \/ seen[v].age + page'[v].timer <= Allowed(v)
             \/ page'[v].timer = Beat /\ seen[v].age <= Allowed(v) /\ UnderWay(v)'
    /\ UNCHANGED <<seen, swept, out, queue, lagged, stream, asking, shown, missed, noise, restarts>>
    /\ moves' \in 0..MaxMoves

\* That keeps the invariant.
LEMMA PageMovesKeeps == ASSUME WindowInv, NEW v \in Viewer, PageMoves(v) PROVE WindowInv'
<1> USE WindowAssumption DEF WindowInv, PageMoves
<1>1. SweptIsRecent' /\ NewsIsDue'
  BY NewsKept DEF SweptIsRecent, Listed
<1>2. TypeOK'
  BY DEF TypeOK, Unsteady, PageState
<1>3. PageIsSomewhere'
  BY DEF PageIsSomewhere, TypeOK
<1>4. GoodbyeUnsettles'
  BY DEF GoodbyeUnsettles, TypeOK
<1>5. BeatsAreKept'
  <2> SUFFICES ASSUME NEW u \in Viewer, steady'[u] < 2
               PROVE  /\ page'[u].state = "visible" /\ Listed(u)'
                      /\ \/ seen'[u].age + page'[u].timer <= Allowed(u)'
                         \/ page'[u].timer = Beat /\ seen'[u].age <= Allowed(u)' /\ UnderWay(u)'
    BY DEF BeatsAreKept
  <2>1. steady'[u] = steady[u]
    BY DEF TypeOK, Unsteady
  <2>2. CASE u = v
    BY <2>1, <2>2 DEF Listed, Allowed, TypeOK
  <2>3. CASE u # v
    <3>1. UnderWay(u) => UnderWay(u)'
      BY DEF UnderWay
    <3> QED BY <2>1, <2>3, <3>1 DEF BeatsAreKept, Listed, Allowed, TypeOK
  <2> QED BY <2>2, <2>3
<1> QED BY <1>1, <1>2, <1>3, <1>4, <1>5

\* What is on the way is what it says it is.
LEMMA Letters ==
    ASSUME NEW v \in Viewer
    PROVE  /\ Goodbye(v) \in Message /\ Goodbye(v).kind = "gone" /\ Goodbye(v).from = v
           /\ \A p \in Path : /\ CheckIn(v, p) \in Message /\ CheckIn(v, p).kind = "beat"
                              /\ CheckIn(v, p).from = v /\ CheckIn(v, p).path = p
           /\ \A u \in Viewer : Goodbye(u) = Goodbye(v) => u = v
           /\ \A u \in Viewer, p \in Path : CheckIn(u, p) # Goodbye(v)
BY DEF Goodbye, CheckIn, Message

\* What people do with their pages, and the timers in them.
LEMMA PeopleKeep == ASSUME WindowInv, People \/ \E v \in Viewer : TimerBeats(v) PROVE WindowInv'
<1> USE WindowAssumption DEF WindowInv
<1>1. /\ page \in [Viewer -> PageState] /\ wire \subseteq Message /\ moves \in 0..MaxMoves
      /\ steady \in [Viewer -> {0, 1, 2, 9}]
  BY DEF TypeOK, PageState, Unsteady
<1>2. Move => moves' \in 0..MaxMoves
  BY <1>1 DEF Move
<1>3. ASSUME NEW v \in Viewer, NEW p \in Path, Open(v, p) PROVE PageMoves(v)
  <2>1. /\ page[v].state = "closed" /\ wire' = wire \union {CheckIn(v, p)} /\ steady' = steady
        /\ page' = [page EXCEPT ![v] = [state |-> "visible", path |-> p, timer |-> Beat]]
        /\ UNCHANGED <<seen, swept, out, queue, lagged, stream, asking, shown, missed, noise, restarts>>
    BY <1>3 DEF Open, daemon, window
  <2>2. page' \in [Viewer -> PageState] /\ \A u \in Viewer \ {v} : page'[u] = page[u]
    BY <1>1, <2>1 DEF PageState
  <2>3. page'[v].path \in Path
    BY <1>1, <2>1
  <2>4. \A u \in Viewer : Goodbye(u) \in wire' => Goodbye(u) \in wire
    BY <2>1, Letters
  <2>5. ~(steady'[v] < 2)
    BY <2>1 DEF BeatsAreKept
  <2>6. wire' \subseteq Message /\ moves' \in 0..MaxMoves
    BY <1>1, <1>2, <1>3, <2>1, Letters DEF Open
  <2> QED BY <2>1, <2>2, <2>3, <2>4, <2>5, <2>6 DEF PageMoves
<1>4. ASSUME NEW v \in Viewer, Close(v) PROVE PageMoves(v)
  <2>1. /\ wire' = wire \union {Goodbye(v)} \/ wire' = wire
        /\ steady' = [steady EXCEPT ![v] = Unsteady]
        /\ page' = [page EXCEPT ![v] = [state |-> "closed", path |-> Nowhere, timer |-> 0]]
        /\ UNCHANGED <<seen, swept, out, queue, lagged, stream, asking, shown, missed, noise, restarts>>
    BY <1>4 DEF Close, daemon, window
  <2>2. page' \in [Viewer -> PageState] /\ \A u \in Viewer \ {v} : page'[u] = page[u]
    BY <1>1, <2>1 DEF PageState
  <2>3. page'[v].state = "closed" /\ steady'[v] = Unsteady
    BY <1>1, <2>1
  <2>4. \A u \in Viewer : Goodbye(u) \in wire' => Goodbye(u) \in wire \/ (u = v /\ steady'[u] = Unsteady)
    BY <2>1, <2>3, Letters
  <2>5. wire' \subseteq Message /\ wire \subseteq wire' /\ moves' \in 0..MaxMoves
    BY <1>1, <1>2, <1>4, <2>1, Letters DEF Close
  <2>6. ~(steady'[v] < 2)
    BY <2>3 DEF Unsteady
  <2> QED BY <2>1, <2>2, <2>3, <2>4, <2>5, <2>6 DEF PageMoves
<1>5. ASSUME NEW v \in Viewer, NEW p \in Path, Wander(v, p) PROVE PageMoves(v)
  <2>1. /\ wire' = wire /\ steady' = steady /\ page' = [page EXCEPT ![v] = [page[v] EXCEPT !.path = p]]
        /\ UNCHANGED <<seen, swept, out, queue, lagged, stream, asking, shown, missed, noise, restarts>>
    BY <1>5 DEF Wander, daemon, window
  <2>2. [page[v] EXCEPT !.path = p] \in PageState
    BY <1>1 DEF PageState
  <2>3. page' \in [Viewer -> PageState] /\ \A u \in Viewer \ {v} : page'[u] = page[u]
    BY <1>1, <2>1, <2>2
  <2>4. page'[v].state = page[v].state /\ page'[v].timer = page[v].timer /\ page'[v].path = p
    BY <1>1, <2>1 DEF PageState
  <2>5. moves' \in 0..MaxMoves
    BY <1>2, <1>5 DEF Wander
  <2>6. UnderWay(v) => UnderWay(v)'
    BY <2>1 DEF UnderWay
  <2> QED BY <1>1, <2>1, <2>3, <2>4, <2>5, <2>6 DEF PageMoves, BeatsAreKept
<1>6. ASSUME NEW v \in Viewer, Hide(v) PROVE PageMoves(v)
  <2>1. /\ wire' = wire /\ steady' = [steady EXCEPT ![v] = Unsteady]
        /\ page' = [page EXCEPT ![v] = [page[v] EXCEPT !.state = "hidden"]] /\ page[v].state = "visible"
        /\ UNCHANGED <<seen, swept, out, queue, lagged, stream, asking, shown, missed, noise, restarts>>
    BY <1>6 DEF Hide, daemon, window
  <2>2. [page[v] EXCEPT !.state = "hidden"] \in PageState
    BY <1>1 DEF PageState
  <2>3. page' \in [Viewer -> PageState] /\ \A u \in Viewer \ {v} : page'[u] = page[u]
    BY <1>1, <2>1, <2>2
  <2>4. page'[v].path = page[v].path /\ page[v].path \in Path
    BY <1>1, <2>1 DEF PageState, PageIsSomewhere
  <2>5. moves' \in 0..MaxMoves
    BY <1>2, <1>6 DEF Hide
  <2>6. ~(steady'[v] < 2)
    BY <1>1, <2>1 DEF Unsteady
  <2> QED BY <1>1, <2>1, <2>3, <2>4, <2>5, <2>6 DEF PageMoves
<1>7. ASSUME NEW v \in Viewer, Show(v) PROVE PageMoves(v)
  <2>1. /\ wire' = wire \union {CheckIn(v, page[v].path)} /\ steady' = steady
        /\ page' = [page EXCEPT ![v] = [page[v] EXCEPT !.state = "visible"]] /\ page[v].state = "hidden"
        /\ UNCHANGED <<seen, swept, out, queue, lagged, stream, asking, shown, missed, noise, restarts>>
    BY <1>7 DEF Show, daemon, window
  <2>2. [page[v] EXCEPT !.state = "visible"] \in PageState
    BY <1>1 DEF PageState
  <2>3. page' \in [Viewer -> PageState] /\ \A u \in Viewer \ {v} : page'[u] = page[u]
    BY <1>1, <2>1, <2>2
  <2>4. page'[v].path = page[v].path /\ page[v].path \in Path
    BY <1>1, <2>1 DEF PageState, PageIsSomewhere
  <2>5. moves' \in 0..MaxMoves /\ wire' \subseteq Message
    BY <1>1, <1>2, <1>7, <2>1, <2>4, Letters DEF Show
  <2>6. ~(steady'[v] < 2)
    BY <2>1 DEF BeatsAreKept
  <2>7. \A u \in Viewer : Goodbye(u) \in wire' => Goodbye(u) \in wire
    BY <2>1, <2>4, Letters
  <2> QED BY <1>1, <2>1, <2>3, <2>4, <2>5, <2>6, <2>7 DEF PageMoves
<1>8. ASSUME NEW v \in Viewer, TimerBeats(v) PROVE PageMoves(v)
  <2>1. /\ steady' = steady /\ moves' = moves /\ page[v].timer = 0 /\ page[v].state # "closed"
        /\ page' = [page EXCEPT ![v] = [page[v] EXCEPT !.timer = Beat]]
        /\ wire' = IF page[v].state = "visible" THEN wire \union {CheckIn(v, page[v].path)} ELSE wire
        /\ UNCHANGED <<seen, swept, out, queue, lagged, stream, asking, shown, missed, noise, restarts>>
    BY <1>8 DEF TimerBeats, daemon, window
  <2>2. [page[v] EXCEPT !.timer = Beat] \in PageState
    BY <1>1 DEF PageState
  <2>3. page' \in [Viewer -> PageState] /\ \A u \in Viewer \ {v} : page'[u] = page[u]
    BY <1>1, <2>1, <2>2
  <2>4. /\ page'[v].path = page[v].path /\ page[v].path \in Path
        /\ page'[v].state = page[v].state /\ page'[v].timer = Beat
    BY <1>1, <2>1 DEF PageState, PageIsSomewhere
  <2>5. moves' \in 0..MaxMoves /\ wire' \subseteq Message /\ wire \subseteq wire'
    BY <1>1, <2>1, <2>4, Letters
  <2>6. \A u \in Viewer : Goodbye(u) \in wire' => Goodbye(u) \in wire
    BY <2>1, <2>4, Letters
  <2>7. ASSUME steady[v] < 2
        PROVE  page[v].state = "visible" /\ Listed(v) /\ seen[v].age <= Allowed(v) /\ UnderWay(v)'
    <3>1. page[v].state = "visible" /\ Listed(v) /\ seen[v].age <= Allowed(v)
      BY <2>1, <2>7 DEF BeatsAreKept, TypeOK
    <3>2. CheckIn(v, page[v].path) \in wire'
      BY <2>1, <3>1
    <3> QED BY <2>4, <3>1, <3>2, Letters DEF UnderWay
  <2> QED BY <1>1, <2>1, <2>3, <2>4, <2>5, <2>6, <2>7 DEF PageMoves
<1> QED BY <1>3, <1>4, <1>5, <1>6, <1>7, <1>8, PageMovesKeeps DEF People

\* A check-in arrives: the entry is new, and if it is for another page there is news.
LEMMA BeatKeeps == ASSUME WindowInv, NEW m \in Message, BeatArrives(m) PROVE WindowInv'
<1> USE WindowAssumption DEF WindowInv
<1> DEFINE v == m.from
<1>1. v \in Viewer /\ m.path \in Path /\ m.kind = "beat"
  BY DEF BeatArrives, Message, CheckIn, Goodbye
<1>2. /\ page \in [Viewer -> PageState] /\ wire \subseteq Message
      /\ seen \in [Viewer -> [path : Path \union {Nowhere}, age : 0..Linger]]
      /\ steady \in [Viewer -> {0, 1, 2, 9}]
  BY DEF TypeOK, PageState, Unsteady
<1>3. /\ wire' = wire \ {m} /\ seen' = [seen EXCEPT ![v] = [path |-> m.path, age |-> 0]]
      /\ PublishIf(Changes(v, m.path))
      /\ steady' = [steady EXCEPT ![v] = IF LeftAlone(m) THEN 0 ELSE @]
      /\ UNCHANGED <<page, swept, out, stream, asking, shown, moves, noise, restarts>>
  BY DEF BeatArrives, window
<1>4. /\ queue' \in Seq({"presence", "other"}) /\ Len(queue') <= Backlog
      /\ lagged' \in BOOLEAN /\ missed' \in BOOLEAN
      /\ Changes(v, m.path) => missed' \/ NewsQueued'
      /\ missed \/ NewsQueued => missed' \/ NewsQueued'
  BY <1>3, PublishIfKeeps
<1>5. /\ seen' \in [Viewer -> [path : Path \union {Nowhere}, age : 0..Linger]]
      /\ seen'[v].path = m.path /\ seen'[v].age = 0 /\ \A u \in Viewer \ {v} : seen'[u] = seen[u]
  BY <1>1, <1>2, <1>3
<1>6. steady' \in [Viewer -> {0, 1, 2, 9}] /\ \A u \in Viewer \ {v} : steady'[u] = steady[u]
  BY <1>2, <1>3
<1>7. TypeOK'
  BY <1>2, <1>3, <1>4, <1>5, <1>6 DEF TypeOK, Unsteady
<1>8. PageIsSomewhere' /\ SweptIsRecent'
  BY <1>1, <1>3, <1>5 DEF PageIsSomewhere, SweptIsRecent, Listed
<1>9. NewsIsDue'
  <2>1. CASE Changes(v, m.path)
    BY <1>4, <2>1 DEF NewsIsDue
  <2>2. CASE ~Changes(v, m.path)
    <3>1. \A u \in Viewer : seen'[u].path = seen[u].path
      BY <1>1, <1>5, <2>2 DEF Changes
    <3>2. Agreed => Agreed'
      BY <1>3, <3>1 DEF Agreed
    <3> QED BY <1>3, <1>4, <3>2 DEF NewsIsDue
  <2> QED BY <2>1, <2>2
<1>10. BeatsAreKept'
  <2> SUFFICES ASSUME NEW u \in Viewer, steady'[u] < 2
               PROVE  /\ page'[u].state = "visible" /\ Listed(u)'
                      /\ \/ seen'[u].age + page'[u].timer <= Allowed(u)'
                         \/ page'[u].timer = Beat /\ seen'[u].age <= Allowed(u)' /\ UnderWay(u)'
    BY DEF BeatsAreKept
  <2>1. CASE u = v
    <3>1. page[v].state = "visible"
      BY <1>2, <1>3, <2>1 DEF LeftAlone, BeatsAreKept
    <3>2. page[v].timer \in 0..Beat /\ Allowed(v)' >= Beat
      BY <1>1, <1>2 DEF PageState, Allowed
    <3>3. page'[v] = page[v] /\ seen'[v].path # Nowhere
      BY <1>1, <1>3, <1>5
    <3>4. seen'[v].age + page'[v].timer <= Allowed(v)'
      <4> DEFINE allowed == Allowed(v)'
                 timer == page[v].timer
      <4>1. timer \in 0..Beat /\ allowed >= Beat
        BY <3>2
      <4>2. allowed \in Nat
        BY DEF Allowed
      <4> HIDE DEF allowed, timer
      <4>3. 0 + timer <= allowed
        BY <4>1, <4>2
      <4> QED BY <1>5, <3>3, <4>3 DEF allowed, timer
    <3> QED BY <2>1, <3>1, <3>3, <3>4 DEF Listed
  <2>2. CASE u # v
    <3>1. UnderWay(u) => UnderWay(u)'
      BY <1>3, <2>2 DEF UnderWay
    <3> QED BY <1>3, <1>5, <1>6, <2>2, <3>1 DEF BeatsAreKept, Listed, Allowed
  <2> QED BY <2>1, <2>2
<1>11. GoodbyeUnsettles'
  <2> SUFFICES ASSUME NEW u \in Viewer, Goodbye(u) \in wire' PROVE steady'[u] = Unsteady
    BY DEF GoodbyeUnsettles
  <2>1. Goodbye(u) \in wire /\ steady[u] = Unsteady
    BY <1>3 DEF GoodbyeUnsettles
  <2>2. u = v => ~LeftAlone(m)
    BY <2>1 DEF LeftAlone
  <2> QED BY <1>2, <1>3, <2>1, <2>2
<1> QED BY <1>7, <1>8, <1>9, <1>10, <1>11

\* A goodbye arrives: the entry goes, and if there was one there is news.
LEMMA GoneKeeps == ASSUME WindowInv, NEW m \in Message, GoneArrives(m) PROVE WindowInv'
<1> USE WindowAssumption DEF WindowInv
<1> DEFINE v == m.from
<1>1. v \in Viewer /\ m = Goodbye(v) /\ m \in wire /\ NotSeen.path = Nowhere /\ NotSeen.age = 0
      /\ NotSeen \in [path : Path \union {Nowhere}, age : 0..Linger]
  BY DEF GoneArrives, Message, CheckIn, Goodbye, NotSeen
<1>2. /\ wire \subseteq Message /\ steady[v] = Unsteady
      /\ seen \in [Viewer -> [path : Path \union {Nowhere}, age : 0..Linger]]
  BY <1>1 DEF TypeOK, GoodbyeUnsettles
<1>3. /\ wire' = wire \ {m} /\ seen' = [seen EXCEPT ![v] = NotSeen] /\ PublishIf(Listed(v))
      /\ UNCHANGED <<page, swept, out, steady, stream, asking, shown, moves, noise, restarts>>
  BY DEF GoneArrives, window
<1>4. /\ queue' \in Seq({"presence", "other"}) /\ Len(queue') <= Backlog
      /\ lagged' \in BOOLEAN /\ missed' \in BOOLEAN
      /\ Listed(v) => missed' \/ NewsQueued'
      /\ missed \/ NewsQueued => missed' \/ NewsQueued'
  BY <1>3, PublishIfKeeps
<1>5. /\ seen' \in [Viewer -> [path : Path \union {Nowhere}, age : 0..Linger]]
      /\ seen'[v] = NotSeen /\ \A u \in Viewer \ {v} : seen'[u] = seen[u]
  BY <1>1, <1>2, <1>3
<1>6. TypeOK'
  BY <1>2, <1>3, <1>4, <1>5 DEF TypeOK
<1>7. PageIsSomewhere' /\ SweptIsRecent' /\ GoodbyeUnsettles'
  BY <1>1, <1>3, <1>5 DEF PageIsSomewhere, SweptIsRecent, GoodbyeUnsettles, Listed
<1>8. NewsIsDue'
  <2>1. CASE Listed(v)
    BY <1>4, <2>1 DEF NewsIsDue
  <2>2. CASE ~Listed(v)
    <3>1. \A u \in Viewer : seen'[u].path = seen[u].path
      BY <1>1, <1>5, <2>2 DEF Listed
    <3>2. Agreed => Agreed'
      BY <1>3, <3>1 DEF Agreed
    <3> QED BY <1>3, <1>4, <3>2 DEF NewsIsDue
  <2> QED BY <2>1, <2>2
<1>9. BeatsAreKept'
  <2> SUFFICES ASSUME NEW u \in Viewer, steady'[u] < 2
               PROVE  /\ page'[u].state = "visible" /\ Listed(u)'
                      /\ \/ seen'[u].age + page'[u].timer <= Allowed(u)'
                         \/ page'[u].timer = Beat /\ seen'[u].age <= Allowed(u)' /\ UnderWay(u)'
    BY DEF BeatsAreKept
  <2>1. u # v
    BY <1>2, <1>3 DEF Unsteady
  <2>2. UnderWay(u) => UnderWay(u)'
    BY <1>3, <2>1 DEF UnderWay
  <2> QED BY <1>3, <1>5, <2>1, <2>2 DEF BeatsAreKept, Listed, Allowed
<1> QED BY <1>6, <1>7, <1>8, <1>9

\* One of them is lost: one more beat is allowed for, if it was a check-in.
LEMMA LossKeeps == ASSUME WindowInv, NEW m \in Message, Lost(m) PROVE WindowInv'
<1> USE WindowAssumption DEF WindowInv
<1> DEFINE v == m.from
<1>1. v \in Viewer
  BY DEF Message, CheckIn, Goodbye
<1>2. /\ page \in [Viewer -> PageState] /\ wire \subseteq Message
      /\ seen \in [Viewer -> [path : Path \union {Nowhere}, age : 0..Linger]]
      /\ steady \in [Viewer -> {0, 1, 2, 9}]
  BY DEF TypeOK, PageState, Unsteady
<1>3. /\ wire' = wire \ {m}
      /\ steady' = [steady EXCEPT ![v] =
            IF m.kind = "beat" /\ @ # Unsteady THEN IF @ = 2 THEN 2 ELSE @ + 1 ELSE @]
      /\ UNCHANGED <<page, seen, swept, out, queue, lagged, stream, asking, shown, missed, moves, noise>>
      /\ UNCHANGED restarts
  BY DEF Lost, window, daemon
<1>4. steady' \in [Viewer -> {0, 1, 2, 9}] /\ \A u \in Viewer \ {v} : steady'[u] = steady[u]
  <2>1. (IF m.kind = "beat" /\ steady[v] # Unsteady
         THEN IF steady[v] = 2 THEN 2 ELSE steady[v] + 1 ELSE steady[v]) \in {0, 1, 2, 9}
    BY <1>1, <1>2 DEF Unsteady
  <2> QED BY <1>2, <1>3, <2>1
<1>5. TypeOK'
  BY <1>2, <1>3, <1>4 DEF TypeOK, Unsteady
<1>6. PageIsSomewhere' /\ SweptIsRecent' /\ NewsIsDue'
  BY <1>3, NewsKept DEF PageIsSomewhere, SweptIsRecent, Listed
<1>7. GoodbyeUnsettles'
  BY <1>2, <1>3 DEF GoodbyeUnsettles
<1>8. BeatsAreKept'
  <2> SUFFICES ASSUME NEW u \in Viewer, steady'[u] < 2
               PROVE  /\ page'[u].state = "visible" /\ Listed(u)'
                      /\ \/ seen'[u].age + page'[u].timer <= Allowed(u)'
                         \/ page'[u].timer = Beat /\ seen'[u].age <= Allowed(u)' /\ UnderWay(u)'
    BY DEF BeatsAreKept
  <2>1. CASE u = v /\ m.kind = "beat"
    <3>1. steady[v] = 0 /\ steady'[v] = 1
      BY <1>2, <1>3, <2>1 DEF Unsteady
    <3>2. Allowed(v) = Beat /\ Allowed(v)' = Beat + Beat
      BY <3>1 DEF Allowed
    <3>3. page[v].timer \in 0..Beat /\ seen[v].age \in 0..Linger
      BY <1>1, <1>2 DEF PageState
    <3>4. /\ page[v].state = "visible" /\ Listed(v)
          /\ seen[v].age + page[v].timer <= Beat \/ (page[v].timer = Beat /\ seen[v].age <= Beat)
      BY <1>1, <3>1, <3>2 DEF BeatsAreKept
    <3>5. seen[v].age + page[v].timer <= Beat + Beat
      BY <3>3, <3>4
    <3> QED BY <1>3, <2>1, <3>2, <3>4, <3>5 DEF Listed
  <2>2. CASE ~(u = v /\ m.kind = "beat")
    <3>1. steady'[u] = steady[u]
      BY <1>2, <1>3, <2>2
    <3>2. UnderWay(u) => UnderWay(u)'
      BY <1>3, <2>2 DEF UnderWay
    <3> QED BY <1>3, <3>1, <3>2 DEF BeatsAreKept, Listed, Allowed
  <2> QED BY <2>1, <2>2
<1> QED BY <1>5, <1>6, <1>7, <1>8

\* Those whose time is past go, and if there were any there is news.
LEMMA SweepKeeps == ASSUME WindowInv, Sweep PROVE WindowInv'
<1> USE WindowAssumption DEF WindowInv
<1> DEFINE went == SomeoneWent
<1>1. /\ swept' = TRUE /\ seen' = [v \in Viewer |-> IF Recent(v) THEN seen[v] ELSE NotSeen]
      /\ IF out THEN missed' = (missed \/ went) /\ queue' = queue /\ lagged' = lagged ELSE PublishIf(went)
      /\ UNCHANGED <<page, wire, moves, out, stream, asking, shown, steady, noise, restarts>>
  BY DEF Sweep, pages, window
<1>2. /\ queue' \in Seq({"presence", "other"}) /\ Len(queue') <= Backlog
      /\ lagged' \in BOOLEAN /\ missed' \in BOOLEAN
      /\ went => missed' \/ NewsQueued'
      /\ missed \/ NewsQueued => missed' \/ NewsQueued'
  <2> HIDE DEF went
  <2>1. CASE out
    <3>1. missed' \in BOOLEAN /\ (went => missed') /\ (missed => missed')
      BY Zenon, <1>1, <2>1
    <3>2. queue' = queue /\ lagged' = lagged
      BY <1>1, <2>1
    <3> QED BY <3>1, <3>2 DEF TypeOK, NewsQueued
  <2>2. CASE ~out
    BY <1>1, <2>2, PublishIfKeeps
  <2> QED BY <2>1, <2>2
<1>3. seen' \in [Viewer -> [path : Path \union {Nowhere}, age : 0..Linger]]
  BY <1>1 DEF TypeOK, NotSeen
<1>4. TypeOK'
  BY <1>1, <1>2, <1>3 DEF TypeOK
<1>5. PageIsSomewhere' /\ GoodbyeUnsettles'
  BY <1>1 DEF PageIsSomewhere, GoodbyeUnsettles
<1>6. SweptIsRecent'
  BY <1>1 DEF SweptIsRecent, Listed, Recent, NotSeen
<1>7. NewsIsDue'
  <2>1. CASE went
    BY <1>2, <2>1 DEF NewsIsDue
  <2>2. CASE ~went
    <3>1. \A u \in Viewer : seen'[u].path = seen[u].path
      BY <1>1, <2>2 DEF Listed, NotSeen, SomeoneWent
    <3>2. Agreed => Agreed'
      BY <1>1, <3>1 DEF Agreed
    <3> QED BY <1>1, <1>2, <3>2 DEF NewsIsDue
  <2> QED BY <2>1, <2>2
<1>8. BeatsAreKept'
  <2> SUFFICES ASSUME NEW u \in Viewer, steady[u] < 2
               PROVE  /\ page[u].state = "visible" /\ Listed(u)'
                      /\ \/ seen'[u].age + page[u].timer <= Allowed(u)
                         \/ page[u].timer = Beat /\ seen'[u].age <= Allowed(u) /\ UnderWay(u)
    BY <1>1 DEF BeatsAreKept, UnderWay, Allowed
  <2>1. Recent(u)
    <3>1. seen[u].age <= Allowed(u) /\ Listed(u)
      BY DEF BeatsAreKept, TypeOK, Allowed
    <3>2. Allowed(u) <= Beat + Beat /\ seen[u].age \in Nat /\ Allowed(u) \in Nat
      BY DEF Allowed, TypeOK
    <3> QED BY <3>1, <3>2 DEF Recent
  <2> QED BY <1>1, <2>1 DEF BeatsAreKept, Listed
<1> QED BY <1>4, <1>5, <1>6, <1>7, <1>8

\* A unit passes, with nothing on its way and no beat due.
LEMMA TickKeeps == ASSUME WindowInv, Tick PROVE WindowInv'
<1> USE WindowAssumption DEF WindowInv
<1>1. /\ page \in [Viewer -> PageState]
      /\ seen \in [Viewer -> [path : Path \union {Nowhere}, age : 0..Linger]]
  BY DEF TypeOK, PageState
<1>2. /\ wire = {} /\ swept /\ swept' = FALSE
      /\ \A v \in Viewer : page[v].state # "closed" => page[v].timer > 0
      /\ UNCHANGED <<wire, out, queue, lagged, stream, asking, shown, missed, steady, moves, noise>>
      /\ UNCHANGED restarts
  BY DEF Tick, window
<1>3. page' = [v \in Viewer |->
         IF page[v].state = "closed" THEN page[v] ELSE [page[v] EXCEPT !.timer = @ - 1]]
  BY DEF Tick
<1>4. seen' = [v \in Viewer |-> IF Listed(v) THEN [seen[v] EXCEPT !.age = @ + 1] ELSE NotSeen]
  BY DEF Tick
<1>5. \A v \in Viewer :
         /\ page'[v] \in PageState /\ page'[v].state = page[v].state /\ page'[v].path = page[v].path
         /\ page[v].state # "closed" => page'[v].timer = page[v].timer - 1
  BY <1>1, <1>2, <1>3 DEF PageState
<1>6. \A v \in Viewer :
         /\ seen'[v] \in [path : Path \union {Nowhere}, age : 0..Linger]
         /\ seen'[v].path = seen[v].path
         /\ Listed(v) => seen'[v].age = seen[v].age + 1
  BY <1>1, <1>2, <1>4 DEF SweptIsRecent, Listed, NotSeen
<1>7. TypeOK'
  <2>1. page' \in [Viewer -> PageState]
    BY <1>3, <1>5
  <2>2. seen' \in [Viewer -> [path : Path \union {Nowhere}, age : 0..Linger]]
    BY <1>4, <1>6
  <2> QED BY <1>2, <2>1, <2>2 DEF TypeOK, PageState
<1>8. PageIsSomewhere' /\ GoodbyeUnsettles' /\ SweptIsRecent' /\ NewsIsDue'
  BY <1>2, <1>5, <1>6, NewsKept DEF PageIsSomewhere, GoodbyeUnsettles, SweptIsRecent
<1>9. BeatsAreKept'
  <2> SUFFICES ASSUME NEW u \in Viewer, steady[u] < 2
               PROVE  /\ page'[u].state = "visible" /\ Listed(u)'
                      /\ seen'[u].age + page'[u].timer <= Allowed(u)
    BY <1>2 DEF BeatsAreKept, Allowed
  <2>1. page[u].state = "visible" /\ Listed(u) /\ seen[u].age + page[u].timer <= Allowed(u)
    BY <1>2 DEF BeatsAreKept, UnderWay
  <2>2. seen[u].age \in Nat /\ page[u].timer \in Nat /\ Allowed(u) \in Nat
    BY <1>1 DEF PageState, Allowed
  <2> QED BY <1>5, <1>6, <2>1, <2>2 DEF Listed
<1> QED BY <1>7, <1>8, <1>9

\* The bus, the shell's subscription, the window's question, the daemon's rescan and its restart.
LEMMA ShellAndBusKeep ==
    ASSUME WindowInv, \/ Rescan \/ Noise \/ HearOfLoss \/ Hear \/ Fetch \/ Resync \/ Subscribe \/ Restart
    PROVE  WindowInv'
<1> USE WindowAssumption DEF WindowInv
<1>1. queue \in Seq({"presence", "other"}) /\ Len(queue) \in Nat /\ Len(queue) <= Backlog
  BY LenProperties DEF TypeOK
<1>2. {swept, lagged, asking, missed} \subseteq BOOLEAN
  BY DEF TypeOK
\* Most of them leave pages and presence alone.
<1>3. ASSUME UNCHANGED <<page, wire, moves, seen, swept, steady>>
      PROVE  PageIsSomewhere' /\ GoodbyeUnsettles' /\ SweptIsRecent' /\ BeatsAreKept'
  BY <1>3 DEF PageIsSomewhere, GoodbyeUnsettles, SweptIsRecent, BeatsAreKept, Listed, UnderWay, Allowed
<1>4. CASE Noise
  <2>1. /\ UNCHANGED <<page, wire, moves, seen, swept, out, stream, asking, shown, steady, restarts>>
        /\ noise' \in 0..MaxNoise /\ Publish("other")
    BY <1>4 DEF Noise, pages, window, TypeOK
  <2>2. /\ queue' \in Seq({"presence", "other"}) /\ Len(queue') <= Backlog
        /\ lagged' \in BOOLEAN /\ missed' \in BOOLEAN
        /\ missed \/ NewsQueued => missed' \/ NewsQueued'
    BY <2>1, PublishKeeps
  <2>3. TypeOK'
    BY <2>1, <2>2 DEF TypeOK
  <2>4. NewsIsDue'
    BY <2>1, <2>2 DEF NewsIsDue, Agreed
  <2> QED BY <1>3, <2>1, <2>3, <2>4
<1>5. CASE HearOfLoss
  <2>1. /\ UNCHANGED <<page, wire, moves, seen, swept, out, queue, stream, asking, shown, missed>>
        /\ UNCHANGED <<steady, noise, restarts>>
        /\ lagged' = FALSE
    BY <1>5 DEF HearOfLoss, pages, window
  <2>2. TypeOK' /\ NewsIsDue'
    BY <2>1, NewsKept DEF TypeOK
  <2> QED BY <1>3, <2>1, <2>2
<1>6. CASE Hear
  <2>1. /\ UNCHANGED <<page, wire, moves, seen, swept, out, lagged, stream, shown, missed, steady, noise, restarts>>
        /\ queue # <<>> /\ queue' = Tail(queue) /\ asking' = (asking \/ Head(queue) = "presence")
    BY <1>6 DEF Hear, pages
  <2>2. asking' \in BOOLEAN /\ (asking => asking') /\ (Head(queue) = "presence" => asking')
    BY Zenon, <2>1
  <2>3. /\ queue' \in Seq({"presence", "other"}) /\ Len(queue') = Len(queue) - 1
        /\ \A i \in 1..Len(queue') : queue'[i] = queue[i + 1]
    BY <1>1, <2>1, HeadTailProperties
  <2>4. TypeOK'
    BY <1>1, <2>1, <2>2, <2>3 DEF TypeOK
  <2>5. NewsQueued => asking' \/ NewsQueued'
    <3> SUFFICES ASSUME NEW i \in 1..Len(queue), queue[i] = "presence" PROVE asking' \/ NewsQueued'
      BY DEF NewsQueued
    <3>1. CASE i = 1
      <4>1. Head(queue) = queue[1]
        BY <1>1, <2>1
      <4> QED BY <2>2, <3>1, <4>1
    <3>2. CASE i # 1
      <4>1. i - 1 \in 1..Len(queue') /\ (i - 1) + 1 = i
        BY <1>1, <2>3, <3>2
      <4>2. queue'[i - 1] = "presence"
        BY <2>3, <4>1
      <4> QED BY <4>1, <4>2 DEF NewsQueued
    <3> QED BY <3>1, <3>2
  <2>6. NewsIsDue'
    BY <2>1, <2>2, <2>5 DEF NewsIsDue, Agreed
  <2> QED BY <1>3, <2>1, <2>4, <2>6
<1>7. CASE Fetch
  <2>1. /\ UNCHANGED <<page, wire, moves, seen, swept, out, queue, lagged, stream, steady, noise, restarts>>
        /\ asking' = FALSE
        /\ \/ shown' = Viewers /\ missed' = FALSE
           \/ missed' = (missed \/ shown # Viewers) /\ shown' = shown
    BY <1>7 DEF Fetch, pages, daemon
  <2>2. shown' \in [Viewer -> Path \union {Nowhere}]
    BY <2>1 DEF Viewers, TypeOK
  <2>3. missed' \in BOOLEAN /\ (missed' \/ shown' = Viewers)
    BY Zenon, <2>1
  <2>4. TypeOK'
    BY <2>1, <2>2, <2>3 DEF TypeOK
  <2>5. NewsIsDue'
    BY <2>1, <2>3 DEF NewsIsDue, Agreed, Viewers
  <2> QED BY <1>3, <2>1, <2>4, <2>5
<1>8. CASE Resync
  <2>1. /\ UNCHANGED <<page, wire, moves, seen, swept, out, queue, lagged, shown, missed, steady>>
        /\ UNCHANGED <<noise, restarts>>
        /\ asking' = TRUE /\ stream' = "resynced"
    BY <1>8 DEF Resync, pages, daemon
  <2>2. TypeOK' /\ NewsIsDue'
    BY <2>1 DEF TypeOK, NewsIsDue
  <2> QED BY <1>3, <2>1, <2>2
<1>9. CASE Subscribe
  <2>1. /\ UNCHANGED <<page, wire, moves, seen, swept, out, queue, lagged, asking, shown, missed, steady>>
        /\ UNCHANGED <<noise, restarts>>
        /\ stream = "resynced" /\ stream' = "on"
    BY <1>9 DEF Subscribe, pages, daemon
  <2>2. TypeOK'
    BY <2>1 DEF TypeOK
  <2>3. NewsIsDue'
    BY <2>1 DEF NewsIsDue, Agreed, NewsQueued
  <2> QED BY <1>3, <2>1, <2>2, <2>3
<1>10. CASE Restart
  <2>1. /\ UNCHANGED <<page, moves, swept, asking, shown, noise>>
        /\ restarts' \in 0..MaxRestarts /\ seen' = [v \in Viewer |-> NotSeen] /\ queue' = <<>>
        /\ lagged' = FALSE /\ out' = FALSE /\ stream' = "off" /\ wire' = {} /\ steady' = [v \in Viewer |-> Unsteady]
    BY <1>10 DEF Restart, TypeOK
  <2>2. missed' \in BOOLEAN
    BY Zenon, <1>10 DEF Restart
  <2>3. <<>> \in Seq({"presence", "other"}) /\ Len(<<>>) = 0
    OBVIOUS
  <2>4. seen' \in [Viewer -> [path : Path \union {Nowhere}, age : 0..Linger]]
    BY <2>1 DEF NotSeen
  <2>5. /\ wire' \subseteq Message /\ steady' \in [Viewer -> {0, 1, 2, Unsteady}]
        /\ queue' \in Seq({"presence", "other"}) /\ Len(queue') <= Backlog
    BY <2>1, <2>3, WindowAssumption
  <2>6. {swept', asking', lagged', out'} \subseteq BOOLEAN
    BY <2>1 DEF TypeOK
  <2>7. TypeOK'
    BY <2>1, <2>2, <2>4, <2>5, <2>6 DEF TypeOK
  <2>8. PageIsSomewhere' /\ GoodbyeUnsettles' /\ SweptIsRecent' /\ BeatsAreKept' /\ NewsIsDue'
    BY <2>1 DEF PageIsSomewhere, GoodbyeUnsettles, SweptIsRecent, BeatsAreKept, NewsIsDue, Listed, NotSeen,
                Unsteady
  <2> QED BY <2>7, <2>8
<1>11. CASE Rescan
  <2>1. /\ UNCHANGED <<page, wire, moves, seen, swept, queue, lagged, stream, asking, shown, missed>>
        /\ UNCHANGED <<steady, noise, restarts>> /\ out' = ~out
    BY <1>11 DEF Rescan, pages, window
  <2>2. out' \in BOOLEAN
    BY Zenon, <2>1
  <2>3. TypeOK' /\ NewsIsDue'
    BY <2>1, <2>2, NewsKept DEF TypeOK
  <2> QED BY <1>3, <2>1, <2>3
<1> QED BY <1>4, <1>5, <1>6, <1>7, <1>8, <1>9, <1>10, <1>11

\* Each step of the window's story keeps it true.
LEMMA WindowInvStep == WindowInv /\ [Next]_vars => WindowInv'
<1> SUFFICES ASSUME WindowInv, [Next]_vars PROVE WindowInv'
  OBVIOUS
<1>1. CASE UNCHANGED vars
  <2>1. /\ UNCHANGED <<page, wire, seen, swept, queue, lagged, stream, asking, shown, missed, steady>>
        /\ UNCHANGED <<out, moves, noise, restarts>>
    BY <1>1 DEF vars
  <2> QED BY <2>1 DEF WindowInv, TypeOK, PageIsSomewhere, SweptIsRecent, NewsIsDue, BeatsAreKept,
                      GoodbyeUnsettles, Listed, Agreed, NewsQueued, UnderWay, Allowed
<1>2. ASSUME NEW m \in Message, Arrives(m) PROVE WindowInv'
  BY <1>2, BeatKeeps, GoneKeeps, LossKeeps DEF Arrives
<1> QED BY <1>1, <1>2, PeopleKeep, SweepKeeps, TickKeeps, ShellAndBusKeep DEF Next, Shell

\* For any number of readers and pages and any length of the bus: a window that lost no event
\* shows nobody who is not listed, and at no page they have left; and for any beat and any
\* linger of more than two of them, one lost request drops nobody from the list
\* (Presence::beat, left and sweep, next_event).
THEOREM PresenceIsAlwaysTrue == Spec => []PresenceIsTrue
<1>1. WindowInv => PresenceIsTrue
  <2>1. ASSUME WindowInv, UpToDate PROVE Agreed
    <3>1. stream = "on" /\ ~asking /\ ~missed /\ queue = <<>>
      BY <2>1 DEF UpToDate
    <3>2. ~NewsQueued
      BY <3>1 DEF NewsQueued
    <3> QED BY <2>1, <3>1, <3>2 DEF WindowInv, NewsIsDue
  <2>2. ASSUME WindowInv, NEW v \in Viewer, steady[v] < 2 PROVE Recent(v)
    <3>1. seen[v].age <= Allowed(v) /\ Listed(v)
      BY <2>2, WindowAssumption DEF WindowInv, BeatsAreKept, TypeOK, Allowed
    <3>2. Allowed(v) <= Beat + Beat /\ seen[v].age \in Nat /\ Allowed(v) \in Nat
      BY <2>2, WindowAssumption DEF WindowInv, Allowed, TypeOK
    <3> QED BY <3>1, <3>2, WindowAssumption DEF Recent
  <2> QED BY <2>1, <2>2 DEF WindowInv, PresenceIsTrue, ShownIsListed, NoFlicker, Agreed
<1> QED BY <1>1, WindowInvInit, WindowInvStep, PTL DEF Spec

-----------------------------------------------------------------------------
(***************************************************************************)
(* The owner's notices.                                                    *)
(***************************************************************************)

\* A command that has read and is yet to write.
SwitchesCommand(c) == c.op = "switches" /\ c.to \in [Switch -> BOOLEAN]
MarkCommand(c) == c.op = "mark" /\ c.to \in 0..MaxSeconds

CommandsOK == \A w \in Window : Quiet(w) \/ SwitchesCommand(command[w]) \/ MarkCommand(command[w])

\* Until two overlapped, at most one command is under way.
OneAtATime == ~collided => \A x, y \in Window : ~Quiet(x) /\ ~Quiet(y) => x = y

\* Then the switches are as they were wished, or a command is about to make them so; and a
\* command that is about to write the mark takes it no further back.
SwitchesAreDue ==
    ~collided =>
      /\ (\A w \in Window : command[w].op # "switches") => switches = wished
      /\ \A w \in Window : command[w].op = "switches" => command[w].to = wished
      /\ \A w \in Window : command[w].op = "mark" => mark <= command[w].to

\* Nothing is dated later than now.
NothingIsLate ==
    /\ mark <= second
    /\ \A r \in rows : r[1] <= second
    /\ \A w \in Window : command[w].op = "mark" => command[w].to <= second

\* A window that has a row has every row from before it that it would show.
ListsAreWhole ==
    \A w \in Window : \A r \in Earlier, s \in listed[w] : r[1] < s[1] => r \in listed[w]

\* A row from before a mark that is to be written that would be shown is in some window's list.
MarksAreOfRows ==
    \A w \in Window : command[w].op = "mark" =>
        \A r \in Earlier : r[1] < command[w].to => \E x \in Window : r \in listed[x]

\* A button that says yes was pressed by somebody.
YesWasSaid == \A v \in Visitor : banner[v] = "approve" => v \in said

HistoryInv == SwitchesAreDue /\ NothingIsLate /\ ListsAreWhole /\ MarksAreOfRows /\ YesWasSaid

NoticesInv ==
    /\ NoticesTypeOK /\ IsFiniteSet(rows) /\ CommandsOK /\ OneAtATime
    /\ HistoryInv
    /\ NothingIsSwallowed /\ LetInOnlyBySaying

-----------------------------------------------------------------------------
\* Everything in the log is dated, and the newest row of a list that is not empty is one of it
\* (Earlier: what the surface marks).
LEMMA NewestIsNewest ==
    ASSUME NEW marked, marked \subseteq (1..MaxSeconds) \X (1..MaxRows) \X BOOLEAN, marked # {}
    PROVE  /\ Newest(marked) \in 1..MaxSeconds
           /\ \E r \in marked : Newest(marked) = r[1]
           /\ \A r \in marked : r[1] <= Newest(marked)
<1> DEFINE times == {r[1] : r \in marked}
<1>1. times \subseteq 1..MaxSeconds /\ times \subseteq 0..MaxSeconds
  BY NoticesAssumption
<1>2. times # {}
  <2>1. PICK r \in marked : TRUE
    OBVIOUS
  <2>2. r[1] \in times
    OBVIOUS
  <2> QED BY <2>2
<1>3. \E last \in times : \A y \in times : y <= last
  <2> HIDE DEF times
  <2> QED BY <1>1, <1>2, GreatestOf, NoticesAssumption
<1>4. PICK last \in times : \A r \in marked : r[1] <= last
  BY <1>3
<1>5. Newest(marked) \in times /\ \A r \in marked : r[1] <= Newest(marked)
  BY <1>4 DEF Newest
<1> QED BY <1>1, <1>5

\* The first notice and the first switch (notify_prefs: the defaults).
LEMMA NoticesStart == NoticesInit => NoticesInv
<1> SUFFICES ASSUME NoticesInit PROVE NoticesInv
  OBVIOUS
<1>1. /\ switches = Defaults /\ mark = 0 /\ second = 1 /\ rows = {}
      /\ cached = [w \in Window |-> Defaults] /\ listed = [w \in Window |-> {}]
      /\ command = [w \in Window |-> NoCommand]
      /\ device = [v \in Visitor |-> "unknown"] /\ banner = [v \in Visitor |-> "none"]
      /\ wished = Defaults /\ collided = FALSE /\ said = {}
  BY DEF NoticesInit
<1>2. Defaults \in [Switch -> BOOLEAN]
  BY DEF Defaults
<1>3. NoticesTypeOK
  <2>1. \A w \in Window : command[w] = NoCommand /\ listed[w] = {} /\ NoCommand.op = "none"
    BY <1>1 DEF NoCommand
  <2>2. {switches, wished} \subseteq [Switch -> BOOLEAN] /\ cached \in [Window -> [Switch -> BOOLEAN]]
    BY <1>1, <1>2
  <2>3. mark \in 0..MaxSeconds /\ second \in 1..MaxSeconds
    BY <1>1, NoticesAssumption
  <2>4. /\ device \in [Visitor -> {"unknown", "pending", "approved", "revoked"}]
        /\ banner \in [Visitor -> {"none", "asked", "posted", "cleared", "approve", "deny", "over"}]
        /\ collided \in BOOLEAN
    BY <1>1
  <2>5. /\ rows \subseteq (1..MaxSeconds) \X (1..MaxRows) \X BOOLEAN /\ said \subseteq Visitor
        /\ listed \in [Window -> SUBSET rows] /\ DOMAIN command = Window
    BY <1>1
  <2> QED BY <2>1, <2>2, <2>3, <2>4, <2>5 DEF NoticesTypeOK
<1>4. IsFiniteSet(rows)
  BY <1>1, FS_EmptySet
<1>5. \A w \in Window : Quiet(w) /\ command[w].op = "none" /\ listed[w] = {}
  BY <1>1 DEF Quiet, NoCommand
<1>6. CommandsOK /\ OneAtATime
  BY <1>5 DEF CommandsOK, OneAtATime
<1>7. HistoryInv
  BY <1>1, <1>5 DEF HistoryInv, SwitchesAreDue, NothingIsLate, ListsAreWhole, MarksAreOfRows, YesWasSaid, Earlier
<1>8. NothingIsSwallowed /\ LetInOnlyBySaying
  BY <1>1 DEF NothingIsSwallowed, LetInOnlyBySaying, Earlier
<1> QED BY <1>3, <1>4, <1>6, <1>7, <1>8 DEF NoticesInv

Logged == \E asks \in BOOLEAN : LogRow(asks)

\* The rows that are shown are the log's.
LEMMA EarlierStays == rows' = rows => Earlier' = Earlier
BY DEF Earlier, NewerThan

\* A new row is dated now, and the log stays a set of dated rows (log_owner_action).
LEMMA RowIsLogged ==
    ASSUME NoticesInv, Cardinality(rows) < MaxRows, Logged
    PROVE  /\ IsFiniteSet(rows') /\ rows' \subseteq (1..MaxSeconds) \X (1..MaxRows) \X BOOLEAN /\ rows \subseteq rows'
           /\ \A r \in rows' : r \in rows \/ r[1] = second
<1>1. IsFiniteSet(rows) /\ rows \subseteq (1..MaxSeconds) \X (1..MaxRows) \X BOOLEAN /\ second \in 1..MaxSeconds
  BY DEF NoticesInv, NoticesTypeOK
<1>2. Cardinality(rows) \in Nat
  BY <1>1, FS_CardinalityType
<1>3. Cardinality(rows) + 1 \in 1..MaxRows
  BY <1>2, NoticesAssumption
<1>4. IsFiniteSet(rows')
  <2>1. PICK asks \in BOOLEAN : rows' = rows \union {<<second, Cardinality(rows) + 1, asks>>}
    BY DEF Logged, LogRow
  <2> QED BY <1>1, <2>1, FS_AddElement
<1> QED BY <1>1, <1>3, <1>4 DEF Logged, LogRow

\* A row that is still shown beside a new one was shown before it.
LEMMA ShownBefore ==
    ASSUME NoticesInv, Cardinality(rows) < MaxRows, Logged, NEW r \in Earlier'
    PROVE  r \in Earlier \/ r[1] = second
<1>1. IsFiniteSet(rows') /\ rows \subseteq rows' /\ (r \in rows \/ r[1] = second)
  BY RowIsLogged DEF Earlier
<1> SUFFICES ASSUME r \in rows PROVE r \in Earlier
  BY <1>1
<1> DEFINE many == NewerThan(r)
           more == NewerThan(r)'
           plain == {s \in many : ~s[3]}
           plainer == {s \in more : ~s[3]}
<1>2. Cardinality(more) < FetchLimit /\ ~r[3] /\ Cardinality(plainer) < EarlierLimit
  BY DEF Earlier
<1>3. more \subseteq rows' /\ many \subseteq more /\ plainer \subseteq more /\ plain \subseteq plainer
  BY <1>1 DEF NewerThan
<1>4. IsFiniteSet(more) /\ IsFiniteSet(plainer)
  BY <1>1, <1>3, FS_Subset
<1>5. /\ Cardinality(many) <= Cardinality(more) /\ Cardinality(plain) <= Cardinality(plainer)
      /\ IsFiniteSet(many) /\ IsFiniteSet(plain)
  BY <1>3, <1>4, FS_Subset
<1>6. /\ Cardinality(many) \in Nat /\ Cardinality(more) \in Nat
      /\ Cardinality(plain) \in Nat /\ Cardinality(plainer) \in Nat
  BY <1>4, <1>5, FS_CardinalityType
<1>7. Cardinality(many) < FetchLimit /\ Cardinality(plain) < EarlierLimit
  <2> HIDE DEF many, more, plain, plainer
  <2> QED BY <1>2, <1>5, <1>6, NoticesAssumption
<1> QED BY <1>2, <1>7 DEF Earlier

\* A row more disturbs nothing that is known of the rows (log_owner_action).
LEMMA RowKeeps ==
    ASSUME NoticesInv, Cardinality(rows) < MaxRows, Logged,
           UNCHANGED <<switches, mark, command, wished, collided, second, cached, listed>>
    PROVE  /\ SwitchesAreDue' /\ NothingIsLate' /\ ListsAreWhole' /\ MarksAreOfRows' /\ NothingIsSwallowed'
           /\ CommandsOK' /\ OneAtATime'
<1>1. /\ rows' \subseteq (1..MaxSeconds) \X (1..MaxRows) \X BOOLEAN /\ rows \subseteq rows'
      /\ \A r \in rows' : r \in rows \/ r[1] = second
  BY RowIsLogged
<1>2. /\ second \in Nat /\ mark \in Nat /\ mark <= second /\ \A r \in rows : r[1] <= second
      /\ rows \subseteq (1..MaxSeconds) \X (1..MaxRows) \X BOOLEAN /\ \A w \in Window : listed[w] \subseteq rows
  BY NoticesAssumption DEF NoticesInv, NoticesTypeOK, HistoryInv, NothingIsLate
<1>3. \A w \in Window : command[w].op = "mark" => command[w].to \in Nat /\ command[w].to <= second
  BY NoticesAssumption DEF NoticesInv, CommandsOK, HistoryInv, NothingIsLate, SwitchesCommand, MarkCommand, Quiet,
     NoCommand
<1>4. SwitchesAreDue' /\ CommandsOK' /\ OneAtATime'
  BY DEF NoticesInv, HistoryInv, SwitchesAreDue, CommandsOK, OneAtATime, Quiet
<1>5. NothingIsLate'
  BY <1>1, <1>2 DEF NoticesInv, HistoryInv, NothingIsLate
<1>6. ListsAreWhole'
  <2>1. ASSUME NEW w \in Window, NEW r \in Earlier', NEW s \in listed[w], r[1] < s[1] PROVE r \in listed[w]
    <3>1. s \in rows /\ s[1] <= second /\ s[1] \in Nat
      BY <1>2
    <3>2. r[1] # second
      BY <2>1, <3>1, <1>2
    <3>3. r \in Earlier
      BY <3>2, ShownBefore
    <3> QED BY <2>1, <3>3 DEF NoticesInv, HistoryInv, ListsAreWhole
  <2> QED BY <2>1 DEF ListsAreWhole
<1>7. MarksAreOfRows'
  <2>1. ASSUME NEW w \in Window, command[w].op = "mark", NEW r \in Earlier', r[1] < command[w].to
        PROVE  \E x \in Window : r \in listed[x]
    <3>1. r[1] # second
      BY <2>1, <1>2, <1>3
    <3>2. r \in Earlier
      BY <3>1, ShownBefore
    <3> QED BY <2>1, <3>2 DEF NoticesInv, HistoryInv, MarksAreOfRows
  <2> QED BY <2>1 DEF MarksAreOfRows
<1>8. NothingIsSwallowed'
  <2>1. ASSUME NEW r \in Earlier', r[1] < mark PROVE \E w \in Window : r \in listed[w]
    <3>1. r[1] # second
      BY <2>1, <1>2
    <3>2. r \in Earlier
      BY <3>1, ShownBefore
    <3> QED BY <2>1, <3>2 DEF NoticesInv, NothingIsSwallowed
  <2> QED BY <2>1 DEF NothingIsSwallowed
<1> QED BY <1>4, <1>5, <1>6, <1>7, <1>8

\* The type invariant in parts, as the steps leave it.
LEMMA NoticesTypes ==
    NoticesInv =>
        /\ switches \in [Switch -> BOOLEAN] /\ wished \in [Switch -> BOOLEAN]
        /\ cached \in [Window -> [Switch -> BOOLEAN]]
        /\ mark \in 0..MaxSeconds /\ second \in 1..MaxSeconds
        /\ rows \subseteq (1..MaxSeconds) \X (1..MaxRows) \X BOOLEAN /\ listed \in [Window -> SUBSET rows]
        /\ DOMAIN command = Window
        /\ \A w \in Window : listed[w] \subseteq rows
        /\ device \in [Visitor -> {"unknown", "pending", "approved", "revoked"}]
        /\ banner \in [Visitor -> {"none", "asked", "posted", "cleared", "approve", "deny", "over"}]
        /\ collided \in BOOLEAN /\ said \subseteq Visitor
BY DEF NoticesInv, NoticesTypeOK

\* Time passes and rows are logged.
LEMMA TimeKeeps ==
    ASSUME NoticesInv, Ticks \/ Visited PROVE NoticesInv'
<1>1. CASE Ticks
  <2>1. /\ UNCHANGED <<switches, mark, command, wished, collided, rows, cached, listed, device, banner, said>>
        /\ second' = second + 1 /\ second < MaxSeconds
    BY <1>1 DEF Ticks, settings, views, door
  <2>2. second' \in 1..MaxSeconds /\ second \in Nat /\ mark \in Nat /\ mark <= second
        /\ rows \subseteq (1..MaxSeconds) \X (1..MaxRows) \X BOOLEAN
    BY <2>1, NoticesTypes, NoticesAssumption DEF NoticesInv, HistoryInv, NothingIsLate
  <2>3. NoticesTypeOK' /\ IsFiniteSet(rows)' /\ CommandsOK' /\ OneAtATime'
    BY <2>1, <2>2 DEF NoticesInv, NoticesTypeOK, CommandsOK, OneAtATime, Quiet
  <2>4. NothingIsLate'
    <3>1. \A w \in Window : command[w].op = "mark" => command[w].to \in Nat /\ command[w].to <= second
      BY NoticesAssumption DEF NoticesInv, CommandsOK, HistoryInv, NothingIsLate, SwitchesCommand, MarkCommand,
         Quiet, NoCommand
    <3>2. \A r \in rows : r[1] \in Nat /\ r[1] <= second
      BY <2>2 DEF NoticesInv, HistoryInv, NothingIsLate
    <3> QED BY <2>1, <2>2, <3>1, <3>2 DEF NothingIsLate
  <2>5. SwitchesAreDue' /\ ListsAreWhole' /\ MarksAreOfRows' /\ YesWasSaid'
    BY <2>1, EarlierStays DEF NoticesInv, HistoryInv, SwitchesAreDue, ListsAreWhole, MarksAreOfRows, YesWasSaid
  <2>6. NothingIsSwallowed' /\ LetInOnlyBySaying'
    BY <2>1, EarlierStays DEF NoticesInv, NothingIsSwallowed, LetInOnlyBySaying
  <2> QED BY <2>3, <2>4, <2>5, <2>6 DEF NoticesInv, HistoryInv
<1>2. CASE Visited
  <2>1. /\ UNCHANGED <<switches, mark, command, wished, collided, second, cached, listed, device, banner, said>>
        /\ Cardinality(rows) < MaxRows /\ Logged
    BY <1>2 DEF Visited, Logged, settings, views, door
  <2>2. IsFiniteSet(rows') /\ rows' \subseteq (1..MaxSeconds) \X (1..MaxRows) \X BOOLEAN /\ rows \subseteq rows'
    BY <2>1, RowIsLogged
  <2>3. NoticesTypeOK'
    BY <2>1, <2>2 DEF NoticesInv, NoticesTypeOK
  <2>4. YesWasSaid' /\ LetInOnlyBySaying'
    BY <2>1 DEF NoticesInv, HistoryInv, YesWasSaid, LetInOnlyBySaying
  <2> QED BY <2>1, <2>2, <2>3, <2>4, RowKeeps DEF NoticesInv, HistoryInv
<1> QED BY <1>1, <1>2

\* A window asks again, and has all that it shows (useNotifyPrefs, useAccessLog).
LEMMA RefetchKeeps ==
    ASSUME NoticesInv, NEW w \in Window, Refetch(w) PROVE NoticesInv'
<1>1. /\ UNCHANGED <<switches, mark, command, wished, collided, second, rows, device, banner, said>>
      /\ \/ cached' = [cached EXCEPT ![w] = switches] /\ UNCHANGED listed
         \/ listed' = [listed EXCEPT ![w] = Earlier] /\ UNCHANGED cached
  BY DEF Refetch, settings, views, door
<1>2. \A x \in Window : listed'[x] \subseteq rows /\ (listed'[x] = Earlier \/ listed'[x] = listed[x])
  BY <1>1, NoticesTypes DEF Earlier
<1>3. \A x \in Window : \A r \in Earlier : r \in listed[x] => r \in listed'[x]
  BY <1>2
<1>4. cached' \in [Window -> [Switch -> BOOLEAN]]
  BY <1>1, NoticesTypes
<1>5. NoticesTypeOK' /\ IsFiniteSet(rows)' /\ CommandsOK' /\ OneAtATime'
  BY <1>1, <1>2, <1>4 DEF NoticesInv, NoticesTypeOK, CommandsOK, OneAtATime, Quiet
<1>6. SwitchesAreDue' /\ NothingIsLate' /\ YesWasSaid' /\ LetInOnlyBySaying'
  BY <1>1 DEF NoticesInv, HistoryInv, SwitchesAreDue, NothingIsLate, YesWasSaid, LetInOnlyBySaying
<1>7. ListsAreWhole'
  BY <1>1, <1>2, EarlierStays DEF NoticesInv, HistoryInv, ListsAreWhole
<1>8. MarksAreOfRows' /\ NothingIsSwallowed'
  BY <1>1, <1>3, EarlierStays DEF NoticesInv, HistoryInv, MarksAreOfRows, NothingIsSwallowed
<1> QED BY <1>5, <1>6, <1>7, <1>8 DEF NoticesInv, HistoryInv

\* A command that overlaps no other finds every other caller at rest (Overlapping).
LEMMA AloneOrNot ==
    ASSUME NoticesInv, NEW w \in Window, collided' = Overlapping(w), NEW c, c.op # "none",
           command' = [command EXCEPT ![w] = c], Quiet(w)
    PROVE  /\ OneAtATime' /\ collided' \in BOOLEAN /\ command'[w] = c
           /\ \A x \in Window \ {w} : command'[x] = command[x]
           /\ ~collided' => ~collided /\ \A x \in Window : command[x].op = "none"
<1>1. command'[w] = c /\ \A x \in Window \ {w} : command'[x] = command[x]
  BY NoticesTypes
<1>2. collided' = (collided \/ \E x \in Window \ {w} : ~Quiet(x))
  BY DEF Overlapping
<1>3. collided' \in BOOLEAN
  BY Zenon, <1>2
<1>4. ~collided' => ~collided /\ \A x \in Window : Quiet(x)
  BY <1>2
<1>5. \A x \in Window : Quiet(x) => command[x].op = "none"
  BY DEF Quiet, NoCommand
<1>6. OneAtATime'
  BY <1>1, <1>4 DEF OneAtATime, Quiet
<1> QED BY <1>1, <1>3, <1>4, <1>5, <1>6

\* A switch is put: what is written is what is there with it (NotifyPrefs::merge).
LEMMA SetPrefsKeeps ==
    ASSUME NoticesInv, NEW w \in Window, SetPrefs(w) PROVE NoticesInv'
<1>1. /\ UNCHANGED <<switches, mark, second, rows, cached, listed, device, banner, said>>
      /\ Quiet(w) /\ collided' = Overlapping(w)
  BY DEF SetPrefs, views, door
<1>2. PICK s \in Switch, on \in BOOLEAN :
        /\ command' = [command EXCEPT ![w] = [op |-> "switches", to |-> Merge(w, s, on)]]
        /\ wished' = [wished EXCEPT ![s] = on]
  BY DEF SetPrefs
<1> DEFINE c == [op |-> "switches", to |-> Merge(w, s, on)]
<1>3. c.op = "switches" /\ c.to = [switches EXCEPT ![s] = on] /\ c.to \in [Switch -> BOOLEAN]
  BY NoticesTypes DEF Merge
<1>4. /\ OneAtATime' /\ collided' \in BOOLEAN /\ command'[w] = c
      /\ \A x \in Window \ {w} : command'[x] = command[x]
      /\ ~collided' => ~collided /\ \A x \in Window : command[x].op = "none"
  <2> HIDE DEF c
  <2> QED BY <1>1, <1>2, <1>3, AloneOrNot DEF c
<1> HIDE DEF c
<1>5. wished' \in [Switch -> BOOLEAN]
  BY <1>2, NoticesTypes
<1>6. \A x \in Window : command'[x].op \in {"none", "switches", "mark"}
  BY <1>3, <1>4 DEF NoticesInv, NoticesTypeOK
<1>7. NoticesTypeOK' /\ IsFiniteSet(rows)'
  <2>1. DOMAIN command' = Window
    BY <1>2, NoticesTypes
  <2> QED BY <1>1, <1>4, <1>5, <1>6, <2>1 DEF NoticesInv, NoticesTypeOK
<1>8. CommandsOK'
  BY <1>3, <1>4 DEF NoticesInv, CommandsOK, SwitchesCommand, MarkCommand, Quiet
<1>9. SwitchesAreDue'
  <2> SUFFICES ASSUME ~collided' PROVE
        /\ ~ \A x \in Window : command'[x].op # "switches"
        /\ \A x \in Window : command'[x].op = "switches" => command'[x].to = wished'
        /\ \A x \in Window : command'[x].op = "mark" => mark' <= command'[x].to
    BY DEF SwitchesAreDue
  <2>1. ~collided /\ \A x \in Window : command[x].op = "none"
    BY <1>4
  <2>2. switches = wished
    BY <2>1 DEF NoticesInv, HistoryInv, SwitchesAreDue
  <2>3. \A x \in Window \ {w} : command'[x].op = "none"
    BY <1>4, <2>1
  <2>4. command'[w].op = "switches" /\ command'[w].to = wished'
    BY <1>2, <1>3, <1>4, <2>2
  <2> QED BY <2>3, <2>4
<1>10. \A x \in Window : command'[x].op = "mark" => command'[x] = command[x]
  BY <1>3, <1>4
<1>11. NothingIsLate' /\ ListsAreWhole' /\ MarksAreOfRows' /\ YesWasSaid'
  BY <1>1, <1>10, EarlierStays DEF NoticesInv, HistoryInv, NothingIsLate, ListsAreWhole, MarksAreOfRows, YesWasSaid
<1>12. NothingIsSwallowed' /\ LetInOnlyBySaying'
  BY <1>1, EarlierStays DEF NoticesInv, NothingIsSwallowed, LetInOnlyBySaying
<1> QED BY <1>4, <1>7, <1>8, <1>9, <1>11, <1>12 DEF NoticesInv, HistoryInv

\* The surface marks what it had: every row from before that is in its list
\* (Earlier, notify.mark_seen).
LEMMA MarkSeenKeeps ==
    ASSUME NoticesInv, NEW w \in Window, MarkSeen(w) PROVE NoticesInv'
<1>1. /\ UNCHANGED <<switches, mark, wished, second, rows, cached, listed, device, banner, said>>
      /\ Quiet(w) /\ collided' = Overlapping(w) /\ listed[w] # {}
      /\ command' = [command EXCEPT ![w] = [op |-> "mark", to |-> MarkAt(SeenUpTo(w))]]
  BY DEF MarkSeen, views, door
<1> DEFINE last == Newest(listed[w])
           c == [op |-> "mark", to |-> MarkAt(last)]
<1>2. last \in 1..MaxSeconds /\ (\E r \in listed[w] : last = r[1]) /\ \A r \in listed[w] : r[1] <= last
  <2>1. listed[w] \subseteq (1..MaxSeconds) \X (1..MaxRows) \X BOOLEAN
    BY NoticesTypes
  <2> QED BY <1>1, <2>1, NewestIsNewest
<1>3. last <= second
  <2>1. PICK r \in listed[w] : last = r[1]
    BY <1>2
  <2>2. r \in rows
    BY NoticesTypes
  <2> QED BY <2>1, <2>2 DEF NoticesInv, HistoryInv, NothingIsLate
<1>4. \A r \in Earlier : r[1] < last => r \in listed[w]
  BY <1>2, EarlierStays DEF NoticesInv, HistoryInv, ListsAreWhole
<1> HIDE DEF last
<1>5. c.op = "mark" /\ c.to = MarkAt(last) /\ MarkAt(last) \in 0..MaxSeconds /\ mark <= c.to /\ c.to <= second
  BY <1>2, <1>3, NoticesTypes, NoticesAssumption DEF MarkAt, NoticesInv, HistoryInv, NothingIsLate
<1>6. /\ OneAtATime' /\ collided' \in BOOLEAN /\ command'[w] = c
      /\ \A x \in Window \ {w} : command'[x] = command[x]
      /\ ~collided' => ~collided /\ \A x \in Window : command[x].op = "none"
  <2>1. command' = [command EXCEPT ![w] = c]
    BY <1>1 DEF SeenUpTo, last
  <2> HIDE DEF c
  <2> QED BY <1>1, <1>5, <2>1, AloneOrNot
<1> HIDE DEF c
<1>7. \A x \in Window : command'[x].op \in {"none", "switches", "mark"}
  BY <1>5, <1>6 DEF NoticesInv, NoticesTypeOK
<1>8. NoticesTypeOK' /\ IsFiniteSet(rows)'
  BY <1>1, <1>6, <1>7 DEF NoticesInv, NoticesTypeOK
<1>9. CommandsOK'
  BY <1>5, <1>6 DEF NoticesInv, CommandsOK, SwitchesCommand, MarkCommand, Quiet
<1>10. SwitchesAreDue'
  BY <1>1, <1>5, <1>6 DEF NoticesInv, HistoryInv, SwitchesAreDue
<1>11. \A x \in Window \ {w} : command'[x] = command[x]
  BY <1>6
<1>12. NothingIsLate' /\ ListsAreWhole' /\ YesWasSaid'
  BY <1>1, <1>5, <1>6, EarlierStays DEF NoticesInv, HistoryInv, NothingIsLate, ListsAreWhole, YesWasSaid
<1>13. MarksAreOfRows'
  <2>1. ASSUME NEW r \in Earlier, r[1] < c.to PROVE \E x \in Window : r \in listed[x]
    <3>1. CASE last > mark
      BY <2>1, <3>1, <1>4, <1>5 DEF MarkAt
    <3>2. CASE ~(last > mark)
      BY <2>1, <3>2, <1>5, EarlierStays DEF MarkAt, NoticesInv, NothingIsSwallowed
    <3> QED BY <3>1, <3>2
  <2> QED BY <2>1, <1>1, <1>6, EarlierStays DEF NoticesInv, HistoryInv, MarksAreOfRows
<1>14. NothingIsSwallowed' /\ LetInOnlyBySaying'
  BY <1>1, EarlierStays DEF NoticesInv, NothingIsSwallowed, LetInOnlyBySaying
<1> QED BY <1>6, <1>8, <1>9, <1>10, <1>12, <1>13, <1>14 DEF NoticesInv, HistoryInv

\* What was read is written (set_setting).
LEMMA WriteKeeps ==
    ASSUME NoticesInv, NEW w \in Window, WriteSetting(w) PROVE NoticesInv' /\ (~collided => mark' >= mark)
<1>1. /\ UNCHANGED <<wished, collided, second, rows, listed, device, banner, said>>
      /\ ~Quiet(w) /\ command' = [command EXCEPT ![w] = NoCommand]
  BY DEF WriteSetting, door
<1>2. SwitchesCommand(command[w]) \/ MarkCommand(command[w])
  BY <1>1 DEF NoticesInv, CommandsOK
<1>3. \A x \in Window \ {w} : command'[x] = command[x]
  BY <1>1
<1>4. CommandsOK' /\ OneAtATime' /\ \A x \in Window : command'[x] = command[x] \/ command'[x] = NoCommand
  BY <1>1 DEF NoticesInv, CommandsOK, OneAtATime, SwitchesCommand, MarkCommand, Quiet
<1>5. NoCommand.op = "none"
  BY DEF NoCommand
<1>6. \A x \in Window : command'[x].op \in {"none", "switches", "mark"}
  BY <1>4, <1>5 DEF NoticesInv, NoticesTypeOK
<1>7. ~collided => \A x \in Window : command'[x] = NoCommand
  <2>1. command'[w] = NoCommand
    BY <1>1, NoticesTypes
  <2>2. ~collided => \A x \in Window \ {w} : command[x] = NoCommand
    BY <1>1 DEF NoticesInv, OneAtATime, Quiet
  <2> QED BY <1>3, <2>1, <2>2
<1>8. \A x \in Window : command'[x].op = "mark" => command'[x] = command[x]
  BY <1>4, <1>5
<1>9. CASE SwitchesCommand(command[w])
  <2>1. switches' = command[w].to /\ mark' = mark /\ cached' = [cached EXCEPT ![w] = command[w].to]
    BY <1>9 DEF WriteSetting, SwitchesCommand
  <2>2. switches' \in [Switch -> BOOLEAN] /\ cached' \in [Window -> [Switch -> BOOLEAN]]
    BY <1>9, <2>1, NoticesTypes DEF SwitchesCommand
  <2>3. NoticesTypeOK' /\ IsFiniteSet(rows)'
    BY <1>1, <1>6, <2>1, <2>2 DEF NoticesInv, NoticesTypeOK
  <2>4. SwitchesAreDue'
    BY <1>1, <1>5, <1>7, <1>9, <2>1 DEF NoticesInv, HistoryInv, SwitchesAreDue, SwitchesCommand
  <2>5. NothingIsLate' /\ ListsAreWhole' /\ MarksAreOfRows' /\ YesWasSaid'
    BY <1>1, <1>8, <2>1, EarlierStays DEF NoticesInv, HistoryInv, NothingIsLate, ListsAreWhole, MarksAreOfRows, YesWasSaid
  <2>6. NothingIsSwallowed' /\ LetInOnlyBySaying'
    BY <1>1, <2>1, EarlierStays DEF NoticesInv, NothingIsSwallowed, LetInOnlyBySaying
  <2>7. mark' >= mark
    BY <2>1, NoticesTypes, NoticesAssumption
  <2> QED BY <1>4, <2>3, <2>4, <2>5, <2>6, <2>7 DEF NoticesInv, HistoryInv
<1>10. CASE MarkCommand(command[w])
  <2>1. mark' = command[w].to /\ UNCHANGED <<switches, cached>>
    BY <1>10 DEF WriteSetting, MarkCommand
  <2>2. mark' \in 0..MaxSeconds /\ mark' <= second
    BY <1>10, <2>1 DEF MarkCommand, NoticesInv, HistoryInv, NothingIsLate
  <2>3. NoticesTypeOK' /\ IsFiniteSet(rows)'
    BY <1>1, <1>6, <2>1, <2>2 DEF NoticesInv, NoticesTypeOK
  <2>4. SwitchesAreDue'
    <3>1. ASSUME ~collided PROVE \A x \in Window : command[x].op # "switches"
      BY <3>1, <1>1, <1>10 DEF NoticesInv, OneAtATime, Quiet, NoCommand, MarkCommand
    <3> QED BY <1>1, <1>5, <1>7, <2>1, <3>1 DEF NoticesInv, HistoryInv, SwitchesAreDue
  <2>5. NothingIsLate' /\ ListsAreWhole' /\ MarksAreOfRows' /\ YesWasSaid'
    BY <1>1, <1>8, <2>1, <2>2, EarlierStays DEF NoticesInv, HistoryInv, NothingIsLate, ListsAreWhole, MarksAreOfRows, YesWasSaid
  <2>6. NothingIsSwallowed' /\ LetInOnlyBySaying'
    BY <1>1, <1>10, <2>1, EarlierStays DEF NoticesInv, HistoryInv, MarksAreOfRows, MarkCommand, NothingIsSwallowed, LetInOnlyBySaying
  <2>7. ~collided => mark' >= mark
    BY <1>10, <2>1, <2>2, NoticesTypes, NoticesAssumption DEF NoticesInv, HistoryInv, SwitchesAreDue, MarkCommand
  <2> QED BY <1>4, <2>3, <2>4, <2>5, <2>6, <2>7 DEF NoticesInv, HistoryInv
<1> QED BY <1>2, <1>9, <1>10

\* A banner is posted, pressed or given up, and a device decided on: only a yes lets it in
\* (useDesktopNotifications, show, set_device_status).
LEMMA DoorKeeps ==
    ASSUME NoticesInv, DoorNext PROVE NoticesInv'
<1>1. PICK v \in Visitor :
        Knock(v) \/ AskDesk(v) \/ ShowBanner(v) \/ PressButton(v) \/ Lapse(v) \/ Carry(v) \/ DecideElsewhere(v)
  BY DEF DoorNext
<1>2. UNCHANGED <<switches, mark, command, wished, collided, second, cached, listed>>
  BY <1>1 DEF Knock, AskDesk, ShowBanner, PressButton, Lapse, Carry, DecideElsewhere, settings, views
<1>3. \/ UNCHANGED rows
      \/ Cardinality(rows) < MaxRows /\ Logged
  BY <1>1 DEF Knock, AskDesk, ShowBanner, PressButton, Lapse, Carry, DecideElsewhere, Decide, Logged
<1>4. /\ SwitchesAreDue' /\ NothingIsLate' /\ ListsAreWhole' /\ MarksAreOfRows' /\ NothingIsSwallowed'
      /\ CommandsOK' /\ OneAtATime' /\ IsFiniteSet(rows')
      /\ rows' \subseteq (1..MaxSeconds) \X (1..MaxRows) \X BOOLEAN /\ listed' \in [Window -> SUBSET rows']
  <2>1. CASE UNCHANGED rows
    <3>1. IsFiniteSet(rows') /\ rows' \subseteq (1..MaxSeconds) \X (1..MaxRows) \X BOOLEAN /\ listed' \in [Window -> SUBSET rows']
      BY <1>2, <2>1, NoticesTypes DEF NoticesInv
    <3> QED BY <1>2, <2>1, <3>1, EarlierStays DEF NoticesInv, HistoryInv, SwitchesAreDue, NothingIsLate, ListsAreWhole,
            MarksAreOfRows, NothingIsSwallowed, CommandsOK, OneAtATime, Quiet
  <2>2. CASE Cardinality(rows) < MaxRows /\ Logged
    <3>1. IsFiniteSet(rows') /\ rows' \subseteq (1..MaxSeconds) \X (1..MaxRows) \X BOOLEAN /\ rows \subseteq rows'
      BY <2>2, RowIsLogged
    <3>2. listed' \in [Window -> SUBSET rows']
      BY <1>2, <3>1, NoticesTypes
    <3> QED BY <1>2, <2>2, <3>1, <3>2, RowKeeps
  <2> QED BY <1>3, <2>1, <2>2
<1> DEFINE Here == {"none", "asked", "posted", "cleared", "approve", "deny", "over"}
           Status == {"unknown", "pending", "approved", "revoked"}
<1>5. Decision.approve = "approved" /\ Decision.deny = "revoked" /\ DOMAIN Decision = {"approve", "deny"}
  BY DEF Decision
<1>6. device \in [Visitor -> Status] /\ banner \in [Visitor -> Here] /\ said \subseteq Visitor
  BY NoticesTypes
<1>7. /\ device' \in [Visitor -> Status] /\ banner' \in [Visitor -> Here] /\ said' \subseteq Visitor
      /\ said \subseteq said'
      /\ \A u \in Visitor : device'[u] = "approved" => device[u] = "approved" \/ u \in said' \/ banner[u] = "approve"
      /\ \A u \in Visitor : banner'[u] = "approve" => banner[u] = "approve" \/ u \in said'
  <2>1. CASE Knock(v)
    BY <2>1, <1>6 DEF Knock
  <2>2. CASE AskDesk(v)
    BY <2>2, <1>6 DEF AskDesk
  <2>3. CASE ShowBanner(v)
    BY <2>3, <1>6 DEF ShowBanner
  <2>4. CASE PressButton(v)
    <3>1. PICK answer \in {"approve", "deny", "over", "cleared"} :
            /\ banner' = [banner EXCEPT ![v] = answer]
            /\ said' = IF answer = "approve" THEN said \union {v} ELSE said
      BY <2>4 DEF PressButton
    <3>2. UNCHANGED device
      BY <2>4 DEF PressButton
    <3> QED BY <3>1, <3>2, <1>6
  <2>5. CASE Lapse(v)
    BY <2>5, <1>6 DEF Lapse
  <2>6. CASE Carry(v)
    BY <2>6, <1>5, <1>6 DEF Carry, Decide
  <2>7. CASE DecideElsewhere(v)
    <3>1. PICK answer \in {"approve", "deny"} :
            /\ device' = [device EXCEPT ![v] = Decision[answer]]
            /\ said' = IF answer = "approve" THEN said \union {v} ELSE said
      BY <2>7, <1>5 DEF DecideElsewhere, Decide
    <3>2. UNCHANGED banner
      BY <2>7 DEF DecideElsewhere
    <3> QED BY <3>1, <3>2, <1>5, <1>6
  <2> QED BY <1>1, <2>1, <2>2, <2>3, <2>4, <2>5, <2>6, <2>7
<1>8. YesWasSaid' /\ LetInOnlyBySaying'
  BY <1>7 DEF NoticesInv, HistoryInv, YesWasSaid, LetInOnlyBySaying
<1>9. NoticesTypeOK'
  BY <1>2, <1>4, <1>7 DEF NoticesInv, NoticesTypeOK
<1> QED BY <1>4, <1>8, <1>9 DEF NoticesInv, HistoryInv

\* Each step of the owner's windows, the daemon and the devices keeps it true.
LEMMA NoticesStep == NoticesInv /\ [NoticesNext]_noticesVars => NoticesInv' /\ (~collided => mark' >= mark)
<1> SUFFICES ASSUME NoticesInv, [NoticesNext]_noticesVars PROVE NoticesInv' /\ (~collided => mark' >= mark)
  OBVIOUS
<1>0. mark \in Nat /\ mark >= mark
  BY NoticesTypes, NoticesAssumption
<1>1. CASE UNCHANGED noticesVars
  <2>1. /\ UNCHANGED <<switches, mark, second, rows, cached, listed, command, device, banner>>
        /\ UNCHANGED <<wished, collided, said>>
    BY <1>1 DEF noticesVars
  <2>2. NoticesTypeOK' /\ IsFiniteSet(rows)' /\ CommandsOK' /\ OneAtATime'
    BY <2>1 DEF NoticesInv, NoticesTypeOK, CommandsOK, OneAtATime, Quiet
  <2>3. HistoryInv' /\ NothingIsSwallowed' /\ LetInOnlyBySaying'
    BY <2>1, EarlierStays DEF NoticesInv, HistoryInv, SwitchesAreDue, NothingIsLate, ListsAreWhole, MarksAreOfRows, YesWasSaid,
                NothingIsSwallowed, LetInOnlyBySaying
  <2> QED BY <2>1, <2>2, <2>3, <1>0 DEF NoticesInv
<1>2. CASE Ticks \/ Visited
  BY <1>2, <1>0, TimeKeeps DEF Ticks, Visited, settings
<1>3. ASSUME NEW w \in Window, Refetch(w) PROVE NoticesInv' /\ mark' = mark
  BY <1>3, RefetchKeeps DEF Refetch, settings
<1>4. ASSUME NEW w \in Window, SetPrefs(w) PROVE NoticesInv' /\ mark' = mark
  BY <1>4, SetPrefsKeeps DEF SetPrefs
<1>5. ASSUME NEW w \in Window, MarkSeen(w) PROVE NoticesInv' /\ mark' = mark
  BY <1>5, MarkSeenKeeps DEF MarkSeen
<1>6. ASSUME NEW w \in Window, WriteSetting(w) PROVE NoticesInv' /\ (~collided => mark' >= mark)
  BY <1>6, WriteKeeps
<1>7. CASE DoorNext
  <2>1. mark' = mark
    BY <1>7 DEF DoorNext, Knock, AskDesk, ShowBanner, PressButton, Lapse, Carry, DecideElsewhere, settings
  <2> QED BY <1>0, <1>7, <2>1, DoorKeeps
<1> QED BY <1>0, <1>1, <1>2, <1>3, <1>4, <1>5, <1>6, <1>7 DEF NoticesNext, SettingsNext

\* For any windows, switches, devices, rows and seconds: as long as no two commands overlap a
\* switch stands where it was last put; and however they do, no row that a window would
\* show is marked seen without being in one's list, and no device is let in that nobody said yes to (rpc.rs, notify.rs).
THEOREM NoticesAreAlwaysSafe == NoticesSpec => []NoticesSafe
<1>1. NoticesInv => NoticesSafe
  <2>1. ASSUME NoticesInv, ~collided, \A w \in Window : Quiet(w) PROVE switches = wished
    <3>1. \A w \in Window : command[w].op = "none"
      BY <2>1 DEF Quiet, NoCommand
    <3> QED BY <2>1, <3>1 DEF NoticesInv, HistoryInv, SwitchesAreDue
  <2> QED BY <2>1 DEF NoticesInv, NoticesSafe, SwitchesStayPut
<1> QED BY <1>1, NoticesStart, NoticesStep, PTL DEF NoticesSpec

\* And the read mark never goes back, as long as no two commands overlap (notify.mark_seen).
THEOREM MarkAlwaysGrowsAlone == NoticesSpec => MarkGrows
<1>1. NoticesInv /\ [NoticesNext]_noticesVars => [~collided => mark' >= mark]_noticesVars
  BY NoticesStep
<1> QED BY <1>1, NoticesStart, NoticesStep, PTL DEF NoticesSpec, MarkGrows

-----------------------------------------------------------------------------
(***************************************************************************)
(* Apps made and brought in.                                               *)
(***************************************************************************)

Class == {".", "blank", "/", "-", "a", "wide"}

\* What is left of a name begins and ends with a character that stays (str::trim_matches).
LEMMA TrimKeeps ==
    ASSUME NEW s \in Seq(Class), NEW drop
    PROVE  \/ TrimOf(s, drop) = <<>> /\ \A k \in 1..Len(s) : s[k] \in drop
           \/ \E i, j \in 1..Len(s) :
                /\ i <= j /\ TrimOf(s, drop) = SubSeq(s, i, j) /\ s[i] \notin drop
                /\ \A k \in 1..Len(s) : k < i => s[k] \in drop
<1> DEFINE kept == {i \in DOMAIN s : s[i] \notin drop}
           first == CHOOSE i \in kept : \A j \in kept : i <= j
           last == CHOOSE i \in kept : \A j \in kept : i >= j
<1>0. DOMAIN s = 1..Len(s) /\ Len(s) \in Nat
  OBVIOUS
<1>1. TrimOf(s, drop) = IF kept = {} THEN <<>> ELSE SubSeq(s, first, last)
  BY DEF TrimOf
<1> SUFFICES ASSUME kept # {}
    PROVE  /\ first \in 1..Len(s) /\ last \in 1..Len(s) /\ first <= last /\ s[first] \notin drop
           /\ \A k \in 1..Len(s) : k < first => s[k] \in drop
  BY <1>0, <1>1
<1>2. kept \subseteq Nat /\ kept \subseteq 0..Len(s)
  BY <1>0
<1>3. \A i \in kept : i \in 1..Len(s) /\ s[i] \notin drop
  BY <1>0
<1>4. \A k \in 1..Len(s) : k \notin kept => s[k] \in drop
  BY <1>0
<1> HIDE DEF kept
<1>5. \E i \in kept : \A j \in kept : i <= j
  BY <1>2, LeastOf
<1>6. \E i \in kept : \A j \in kept : j <= i
  BY <1>0, <1>2, GreatestOf
<1>7. first \in kept /\ \A j \in kept : first <= j
  BY <1>5
<1>8. last \in kept /\ \A j \in kept : last >= j
  <2>1. \E i \in kept : \A j \in kept : i >= j
    BY <1>6, <1>2
  <2> QED BY <2>1
<1> HIDE DEF first, last
<1>9. ASSUME NEW k \in 1..Len(s), k < first PROVE s[k] \in drop
  <2>1. k \notin kept
    BY <1>0, <1>2, <1>7, <1>9
  <2> QED BY <1>4, <2>1
<1> QED BY <1>3, <1>7, <1>8, <1>9

\* Nothing is added to a name.
LEMMA PartOf ==
    ASSUME NEW s \in Seq(Class), NEW i \in 1..Len(s), NEW j \in 1..Len(s), i <= j, NEW t, t = SubSeq(s, i, j)
    PROVE  /\ t \in Seq(Class) /\ Len(t) = j - i + 1 /\ t[1] = s[i]
           /\ \A k \in 1..Len(t) : \E n \in 1..Len(s) : t[k] = s[n]
<1>1. t \in Seq(Class) /\ Len(t) = j - i + 1
  OBVIOUS
<1>2. \A k \in 1..(j - i + 1) : t[k] = s[i + k - 1] /\ i + k - 1 \in 1..Len(s)
  OBVIOUS
<1>3. 1 \in 1..(j - i + 1) /\ i + 1 - 1 = i
  OBVIOUS
<1> QED BY <1>1, <1>2, <1>3

\* Every character of it was there.
From(s, t) == \A k \in 1..Len(s) : \E n \in 1..Len(t) : s[k] = t[n]

\* Trimming brings nothing in, and a name that begins with what stays begins as it did.
LEMMA TrimmedFrom ==
    ASSUME NEW s \in Seq(Class), NEW drop
    PROVE  /\ TrimOf(s, drop) \in Seq(Class) /\ From(TrimOf(s, drop), s)
           /\ TrimOf(s, drop) # <<>> => TrimOf(s, drop)[1] \notin drop /\ Len(s) > 0
           /\ Len(s) > 0 /\ s[1] \notin drop => TrimOf(s, drop)[1] = s[1] /\ TrimOf(s, drop) # <<>>
<1>1. CASE TrimOf(s, drop) = <<>> /\ \A k \in 1..Len(s) : s[k] \in drop
  <2>1. <<>> \in Seq(Class) /\ Len(<<>>) = 0
    OBVIOUS
  <2>2. Len(s) > 0 => s[1] \in drop
    BY <1>1
  <2> QED BY <1>1, <2>1, <2>2 DEF From
<1>2. ASSUME NEW i \in 1..Len(s), NEW j \in 1..Len(s), i <= j, TrimOf(s, drop) = SubSeq(s, i, j), s[i] \notin drop,
             \A k \in 1..Len(s) : k < i => s[k] \in drop
      PROVE  /\ TrimOf(s, drop) \in Seq(Class) /\ From(TrimOf(s, drop), s)
             /\ TrimOf(s, drop) # <<>> /\ TrimOf(s, drop)[1] = s[i] /\ Len(s) > 0
             /\ s[1] \notin drop => i = 1
  <2>1. /\ TrimOf(s, drop) \in Seq(Class) /\ Len(TrimOf(s, drop)) = j - i + 1 /\ TrimOf(s, drop)[1] = s[i]
        /\ \A k \in 1..Len(TrimOf(s, drop)) : \E n \in 1..Len(s) : TrimOf(s, drop)[k] = s[n]
    <3> DEFINE t == TrimOf(s, drop)
    <3>1. t = SubSeq(s, i, j) /\ i <= j
      BY <1>2
    <3> HIDE DEF t
    <3>2. /\ t \in Seq(Class) /\ Len(t) = j - i + 1 /\ t[1] = s[i]
          /\ \A k \in 1..Len(t) : \E n \in 1..Len(s) : t[k] = s[n]
      BY <3>1, PartOf
    <3> QED BY <3>2 DEF t
  <2>2. TrimOf(s, drop) # <<>>
    <3>1. Len(TrimOf(s, drop)) # 0
      BY <1>2, <2>1
    <3> QED BY <3>1
  <2>3. s[1] \notin drop => i = 1
    BY <1>2
  <2> QED BY <1>2, <2>1, <2>2, <2>3 DEF From
<1> QED BY <1>1, <1>2, TrimKeeps

\* What a folder may be called: a name that shows and is one name (folder_name).
Shows(name) == name # <<>> => name[1] # "." /\ "/" \notin Range(name)

\* Whatever was typed.
LEMMA FolderNameShows == ASSUME NEW raw \in Seq(Class) PROVE Shows(FolderName(raw))
<1> DEFINE x0 == TrimOf(raw, {"blank"})
           x1 == Clean(x0)
           x2 == TrimOf(x1, {".", "blank"})
           x3 == Take(x2, Cut)
           x4 == TrimOf(x3, {"blank"})
<1>0. FolderName(raw) = x4
  BY DEF FolderName
<1>1. x0 \in Seq(Class)
  BY TrimmedFrom
<1>2. x1 \in Seq(Class) /\ \A k \in 1..Len(x1) : x1[k] # "/"
  <2> HIDE DEF x0
  <2>1. x1 = [i \in 1..Len(x0) |-> IF x0[i] = "/" THEN "-" ELSE x0[i]]
    BY <1>1 DEF Clean
  <2>2. \A i \in 1..Len(x0) : (IF x0[i] = "/" THEN "-" ELSE x0[i]) \in Class
    BY <1>1 DEF Class
  <2>3. Len(x0) \in Nat
    BY <1>1
  <2>4. x1 \in [1..Len(x0) -> Class]
    BY <2>1, <2>2
  <2>5. x1 \in Seq(Class) /\ Len(x1) = Len(x0)
    BY <2>3, <2>4
  <2> QED BY <2>1, <2>5
<1> HIDE DEF x1
<1>3. /\ x2 \in Seq(Class) /\ From(x2, x1)
      /\ x2 # <<>> => x2[1] \notin {".", "blank"}
  BY <1>2, TrimmedFrom
<1> HIDE DEF x2
<1>4. /\ x3 \in Seq(Class) /\ From(x3, x2)
      /\ Len(x3) > 0 => x2 # <<>> /\ x3[1] = x2[1]
  <2>1. Cut \in Nat /\ Len(x2) \in Nat
    BY <1>3, AuthoringAssumption
  <2>2. CASE Len(x2) <= Cut
    BY <1>3, <2>1, <2>2 DEF Take, From
  <2>3. CASE ~(Len(x2) <= Cut) /\ Cut = 0
    <3>1. x3 = SubSeq(x2, 1, 0)
      BY <2>3 DEF Take
    <3>2. x3 \in Seq(Class) /\ Len(x3) = 0
      BY <1>3, <3>1
    <3> QED BY <3>2 DEF From
  <2>4. CASE ~(Len(x2) <= Cut) /\ Cut # 0
    <3>1. x3 = SubSeq(x2, 1, Cut) /\ 1 \in 1..Len(x2) /\ Cut \in 1..Len(x2) /\ 1 <= Cut
      BY <2>1, <2>4 DEF Take
    <3>2. /\ x3 \in Seq(Class) /\ x3[1] = x2[1]
          /\ \A k \in 1..Len(x3) : \E n \in 1..Len(x2) : x3[k] = x2[n]
      BY <1>3, <3>1, PartOf
    <3>3. x2 # <<>>
      BY <2>1, <3>1
    <3> QED BY <3>2, <3>3 DEF From
  <2> QED BY <2>2, <2>3, <2>4
<1> HIDE DEF x3
<1>5. /\ x4 \in Seq(Class) /\ From(x4, x3)
      /\ x4 # <<>> => Len(x3) > 0
      /\ Len(x3) > 0 /\ x3[1] # "blank" => x4[1] = x3[1]
  BY <1>4, TrimmedFrom
<1> HIDE DEF x4
<1>6. ASSUME x4 # <<>> PROVE x4[1] # "."
  BY <1>3, <1>4, <1>5, <1>6
<1>7. "/" \notin Range(x4)
  <2>1. ASSUME NEW k \in 1..Len(x4) PROVE x4[k] # "/"
    <3>1. PICK n \in 1..Len(x3) : x4[k] = x3[n]
      BY <1>5 DEF From
    <3>2. PICK m \in 1..Len(x2) : x3[n] = x2[m]
      BY <1>4 DEF From
    <3>3. PICK l \in 1..Len(x1) : x2[m] = x1[l]
      BY <1>3 DEF From
    <3> QED BY <1>2, <3>1, <3>2, <3>3
  <2>2. DOMAIN x4 = 1..Len(x4)
    BY <1>5
  <2> QED BY <2>1, <2>2 DEF Range
<1> QED BY <1>0, <1>6, <1>7 DEF Shows

-----------------------------------------------------------------------------
Writer == Author \union {Unwritten, TheOwner}
Shown == {f \in FolderId : f[1] # <<>>}
Entry == {"page", "sub", ".git", "link", "deep", "workspace", "itself", "object", "secret", "index"}
Task == Source \union {"none", "create"}
Stand == {"idle", "make", "fill", "made", "failed", "refused", "too_long"}
JobType == [at : Stand, op : Task, folder : FolderId \union {<<>>}, todo : SUBSET Entry, missed : BOOLEAN]

Busy(a) == job[a].at \in {"make", "fill", "made"}
Filling(a) == job[a].at \in {"fill", "made"}

\* What a job of this kind may ever have to copy.
Worklist(op) ==
    IF op = "create" THEN {"index"} ELSE IF op = "file" THEN {"page"}
    ELSE {"page", "sub", ".git", "link", "deep"}

AuthoringTypes ==
    /\ shelf \in [DOMAIN shelf -> [File -> Writer]] /\ DOMAIN shelf \subseteq Shown
    /\ job \in [Author -> JobType]
    /\ crossed \subseteq FolderId /\ calls \in 0..MaxCalls
    /\ setting \in (Place \union {"default"}) \ {"state", "in_state", "link"}

\* A job under way has a name that shows, and copies only what is the source's.
JobsAreSound ==
    \A a \in Author :
        /\ Busy(a) => /\ job[a].folder \in Shown /\ job[a].op \in {"create", "file", "folder"}
                      /\ job[a].todo \subseteq Worklist(job[a].op)
        /\ job[a].at = "made" => job[a].todo = {}

\* Every number is one that was tried, or a time that has passed.
NumbersArePast ==
    /\ \A f \in DOMAIN shelf : f[2] <= Tries + calls
    /\ \A a \in Author : job[a].at = "make" => job[a].folder[2] <= Tries + calls

\* Two jobs have folders of their own, and one that is yet to make its folder will find none,
\* unless both found the name free.
JobsAreApart ==
    /\ \A a, b \in Author : a # b /\ Busy(a) /\ Busy(b) /\ job[a].folder = job[b].folder => job[a].folder \in crossed
    /\ \A a \in Author : job[a].at = "make" /\ job[a].folder \notin crossed => job[a].folder \notin DOMAIN shelf
    /\ \A a \in Author : Filling(a) => job[a].folder \in DOMAIN shelf

WrittenBy(files, x) == \A file \in File : files[file] \in {Unwritten, x}

\* Whoever's folder it is wrote everything in it.
FoldersAreWhose ==
    /\ \A f \in DOMAIN shelf \ crossed : \E x \in Writer : WrittenBy(shelf[f], x)
    /\ \A a \in Author : Filling(a) /\ job[a].folder \notin crossed => WrittenBy(shelf[job[a].folder], a)

\* Every file to be brought in was brought in, or is still on the list, or was passed over.
NothingIsForgotten ==
    \A a \in Author : job[a].op \in {"file", "folder"} /\ ~job[a].missed =>
        /\ job[a].at = "make" =>
             "page" \in job[a].todo /\ (job[a].op = "folder" => "sub" \in job[a].todo)
        /\ Filling(a) /\ job[a].folder \notin crossed =>
             /\ "page" \in job[a].todo \/ shelf[job[a].folder]["page"] = a
             /\ job[a].op = "folder" =>
                  "sub" \in job[a].todo \/ "deep" \in job[a].todo \/ shelf[job[a].folder]["deep"] = a

AuthoringInv ==
    /\ AuthoringTypes /\ JobsAreSound /\ NumbersArePast /\ JobsAreApart /\ FoldersAreWhose
    /\ OnlyTheSourceIsCopied /\ NothingIsForgotten

\* An empty workspace, and nobody at work in it.
LEMMA AuthoringStart == AuthoringInit => AuthoringInv
<1> SUFFICES ASSUME AuthoringInit PROVE AuthoringInv
  OBVIOUS
<1>1. /\ shelf = <<>> /\ job = [a \in Author |-> NoJob] /\ crossed = {} /\ calls = 0 /\ setting = "default"
  BY DEF AuthoringInit
<1>2. DOMAIN shelf = {} /\ shelf \in [DOMAIN shelf -> [File -> Writer]]
  BY <1>1
<1>3. NoJob \in JobType /\ NoJob.at = "idle" /\ NoJob.op = "none"
  BY DEF NoJob, JobType, Stand, Task
<1>4. calls \in 0..MaxCalls
  BY <1>1, AuthoringAssumption
<1>5. setting \in (Place \union {"default"}) \ {"state", "in_state", "link"}
  BY <1>1
<1>6. AuthoringTypes
  BY <1>1, <1>2, <1>3, <1>4, <1>5 DEF AuthoringTypes
<1>7. \A a \in Author : job[a].at = "idle" /\ job[a].op = "none"
  BY <1>1, <1>3
<1> QED BY <1>2, <1>6, <1>7 DEF AuthoringInv, JobsAreSound, NumbersArePast, JobsAreApart, FoldersAreWhose,
           OnlyTheSourceIsCopied, NothingIsForgotten, Busy, Filling

\* The name given out is of a folder that is not there (unique_in).
LEMMA UniqueIsFree ==
    ASSUME AuthoringInv, NEW wanted, calls < MaxCalls
    PROVE  /\ UniqueIn(wanted) \notin DOMAIN shelf /\ UniqueIn(wanted)[1] = wanted
           /\ UniqueIn(wanted)[2] \in 1..(Tries + MaxCalls) /\ UniqueIn(wanted)[2] <= Tries + (calls + 1)
           /\ UniqueIn(wanted) = <<wanted, UniqueIn(wanted)[2]>>
<1> DEFINE free == {n \in 1..Tries : <<wanted, n>> \notin DOMAIN shelf}
           least == CHOOSE n \in free : \A m \in free : n <= m
<1>0. calls \in Nat /\ Tries \in Nat /\ MaxCalls \in Nat /\ calls \in 0..MaxCalls
  BY AuthoringAssumption DEF AuthoringInv, AuthoringTypes
<1>1. UniqueIn(wanted) = <<wanted, IF free = {} THEN Tries + 1 + calls ELSE least>>
  BY DEF UniqueIn
<1>2. CASE free = {}
  <2>1. UniqueIn(wanted) = <<wanted, Tries + 1 + calls>>
    BY <1>1, <1>2
  <2>2. \A f \in DOMAIN shelf : f[2] <= Tries + calls
    BY DEF AuthoringInv, NumbersArePast
  <2>3. ~(Tries + 1 + calls <= Tries + calls)
    BY <1>0
  <2>4. UniqueIn(wanted) \notin DOMAIN shelf
    BY <2>1, <2>2, <2>3
  <2> QED BY <1>0, <2>1, <2>4
<1>3. CASE free # {}
  <2>1. free \subseteq Nat /\ \A n \in free : n \in 1..Tries /\ <<wanted, n>> \notin DOMAIN shelf
    BY <1>0
  <2>2. least \in free
    <3> HIDE DEF free
    <3>1. \E n \in free : \A m \in free : n <= m
      BY <1>3, <2>1, LeastOf
    <3> QED BY <3>1
  <2> HIDE DEF free, least
  <2>3. least \in 1..Tries /\ <<wanted, least>> \notin DOMAIN shelf
    BY <2>1, <2>2
  <2>4. UniqueIn(wanted) = <<wanted, least>>
    BY <1>1, <1>3
  <2> QED BY <1>0, <2>3, <2>4
<1> QED BY <1>2, <1>3

\* What a job is begun with: a name that can be used, and the source's own entries.
Asked(op, wanted, todo) ==
    /\ wanted \in {FolderName(t) : t \in Typed}
    /\ op \in {"create", "file", "folder"} /\ todo \subseteq Worklist(op) /\ todo \subseteq Entry
    /\ op \in {"file", "folder"} => "page" \in todo
    /\ op = "folder" => "sub" \in todo

\* A job is begun: refused, or given a folder nobody has (create, import).
LEMMA BeginKeeps ==
    ASSUME AuthoringInv, NEW a \in Author, NEW op \in Task, NEW wanted, NEW todo, Begin(a, op, wanted, todo),
           wanted # <<>> => Asked(op, wanted, todo)
    PROVE  AuthoringInv'
<1>1. /\ job[a].at = "idle" /\ calls < MaxCalls /\ calls' = calls + 1 /\ UNCHANGED <<shelf, setting>>
      /\ crossed' = crossed \union {job'[b].folder : b \in {b \in Author \ {a} :
                                   job[b].at = "make" /\ job[b].folder = job'[a].folder}}
  <2>1. Doing(a, "idle") /\ calls < MaxCalls /\ calls' = calls + 1
    BY DEF Begin
  <2>2. UNCHANGED <<shelf, setting>>
    BY DEF Begin
  <2>3. crossed' = crossed \union {job'[b].folder : b \in {b \in Author \ {a} :
                                   job[b].at = "make" /\ job[b].folder = job'[a].folder}}
    BY DEF Begin
  <2> QED BY <2>1, <2>2, <2>3 DEF Doing
<1>2. calls' \in 0..MaxCalls /\ calls \in Nat /\ Tries \in Nat
  BY <1>1, AuthoringAssumption DEF AuthoringInv, AuthoringTypes
<1>3. PICK r \in JobType :
        /\ job' = [job EXCEPT ![a] = r]
        /\ \/ r.at = "refused"
           \/ /\ r.at = "make" /\ r.op = op /\ r.folder = UniqueIn(wanted) /\ r.todo = todo
              /\ wanted # <<>> /\ Asked(op, wanted, todo)
  <2>1. CASE wanted = <<>>
    <3>1. job' = [job EXCEPT ![a] = [NoJob EXCEPT !.op = op, !.at = "refused"]]
      BY <2>1 DEF Begin
    <3>2. /\ [NoJob EXCEPT !.op = op, !.at = "refused"] \in JobType
          /\ [NoJob EXCEPT !.op = op, !.at = "refused"].at = "refused"
      BY DEF NoJob, JobType, Stand
    <3> QED BY <3>1, <3>2
  <2>2. CASE wanted # <<>>
    <3> DEFINE r == [at |-> "make", op |-> op, folder |-> UniqueIn(wanted), todo |-> todo, missed |-> FALSE]
    <3>1. job' = [job EXCEPT ![a] = r]
      BY <2>2 DEF Begin
    <3>2. UniqueIn(wanted) \in FolderId
      BY <1>1, <2>2, UniqueIsFree DEF Asked, FolderId
    <3>3. r \in JobType
      BY <2>2, <3>2 DEF JobType, Stand, Asked
    <3> QED BY <2>2, <3>1, <3>3
  <2> QED BY <2>1, <2>2
<1>4. job'[a] = r /\ \A b \in Author \ {a} : job'[b] = job[b]
  BY <1>3 DEF AuthoringInv, AuthoringTypes
<1>5. crossed \subseteq crossed' /\ crossed' \subseteq FolderId
  <2>1. \A b \in Author : job[b].at = "make" => job[b].folder \in FolderId
    BY DEF AuthoringInv, JobsAreSound, Busy, Shown
  <2>2. \A b \in Author \ {a} : job[b].at = "make" => job'[b].folder \in FolderId
    BY <1>4, <2>1
  <2>3. crossed \subseteq FolderId
    BY DEF AuthoringInv, AuthoringTypes
  <2> QED BY <1>1, <2>2, <2>3
<1>6. AuthoringTypes'
  BY <1>1, <1>2, <1>5, <1>3 DEF AuthoringInv, AuthoringTypes
<1>7. r.at = "make" =>
        /\ r.folder \in Shown /\ r.folder \notin DOMAIN shelf /\ r.folder[2] <= Tries + calls'
        /\ r.op \in {"create", "file", "folder"} /\ r.todo \subseteq Worklist(r.op)
        /\ r.op \in {"file", "folder"} => "page" \in r.todo
        /\ r.op = "folder" => "sub" \in r.todo
  <2> SUFFICES ASSUME r.at = "make" PROVE
        /\ r.folder \in Shown /\ r.folder \notin DOMAIN shelf /\ r.folder[2] <= Tries + calls'
    BY <1>3 DEF Asked
  <2>1. r.folder = UniqueIn(wanted) /\ wanted # <<>> /\ wanted \in {FolderName(t) : t \in Typed}
    BY <1>3 DEF Asked
  <2> QED BY <1>1, <2>1, UniqueIsFree DEF Shown, FolderId
<1>8. JobsAreSound'
  BY <1>3, <1>4, <1>7 DEF AuthoringInv, JobsAreSound, Busy
<1>9. NumbersArePast'
  <2>1. \A f \in DOMAIN shelf : f[2] \in Nat
    BY AuthoringAssumption DEF AuthoringInv, AuthoringTypes, Shown, FolderId
  <2>2. \A b \in Author : job[b].at = "make" => job[b].folder[2] \in Nat
    BY AuthoringAssumption DEF AuthoringInv, JobsAreSound, Busy, Shown, FolderId
  <2> QED BY <1>1, <1>2, <1>3, <1>4, <1>7, <2>1, <2>2 DEF AuthoringInv, NumbersArePast
<1>10. JobsAreApart'
  <2>1. ASSUME NEW b \in Author \ {a}, Busy(b), r.at = "make", job[b].folder = r.folder PROVE r.folder \in crossed'
    <3>1. job[b].at = "make"
      BY <1>7, <2>1 DEF AuthoringInv, JobsAreApart, Busy, Filling
    <3> QED BY <1>1, <1>4, <2>1, <3>1
  <2>2. \A b \in Author \ {a} : Busy(b)' = Busy(b) /\ Filling(b)' = Filling(b)
    BY <1>4 DEF Busy, Filling
  <2>3. (Busy(a)' => r.at = "make") /\ ~Filling(a)'
    BY <1>3, <1>4 DEF Busy, Filling
  <2>4. ASSUME NEW b \in Author, NEW c \in Author, b # c, Busy(b)', Busy(c)', job'[b].folder = job'[c].folder
        PROVE  job'[b].folder \in crossed'
    <3>1. CASE b = a
      BY <1>4, <2>1, <2>2, <2>3, <2>4, <3>1
    <3>2. CASE c = a
      BY <1>4, <2>1, <2>2, <2>3, <2>4, <3>2
    <3>3. CASE b # a /\ c # a
      BY <1>5, <1>4, <2>2, <2>4, <3>3 DEF AuthoringInv, JobsAreApart
    <3> QED BY <3>1, <3>2, <3>3
  <2>5. \A b \in Author : job'[b].at = "make" /\ job'[b].folder \notin crossed' => job'[b].folder \notin DOMAIN shelf'
    BY <1>1, <1>5, <1>4, <1>7 DEF AuthoringInv, JobsAreApart
  <2>6. \A b \in Author : Filling(b)' => job'[b].folder \in DOMAIN shelf'
    BY <1>1, <1>4, <2>2, <2>3 DEF AuthoringInv, JobsAreApart
  <2> QED BY <2>4, <2>5, <2>6 DEF JobsAreApart
<1>11. \A b \in Author : Filling(b)' => Filling(b) /\ job'[b] = job[b]
  BY <1>3, <1>4 DEF Filling
<1>12. FoldersAreWhose'
  BY <1>1, <1>5, <1>11 DEF AuthoringInv, FoldersAreWhose
<1>13. OnlyTheSourceIsCopied'
  BY <1>1 DEF AuthoringInv, OnlyTheSourceIsCopied
<1>14. NothingIsForgotten'
  <2>1. ASSUME NEW b \in Author, job'[b].op \in {"file", "folder"}, ~job'[b].missed, job'[b].at = "make"
        PROVE  "page" \in job'[b].todo /\ (job'[b].op = "folder" => "sub" \in job'[b].todo)
    <3>1. CASE b = a
      BY <1>4, <1>7, <2>1, <3>1
    <3>2. CASE b # a
      <4>1. job'[b] = job[b]
        BY <1>4, <3>2
      <4>2. job[b].op \in {"file", "folder"} /\ ~job[b].missed /\ job[b].at = "make"
        BY <2>1, <4>1
      <4>3. "page" \in job[b].todo /\ (job[b].op = "folder" => "sub" \in job[b].todo)
        BY <4>2 DEF AuthoringInv, NothingIsForgotten
      <4> QED BY <4>1, <4>3
    <3> QED BY <3>1, <3>2
  <2>2. ASSUME NEW b \in Author, job'[b].op \in {"file", "folder"}, ~job'[b].missed, Filling(b)', job'[b].folder \notin crossed'
        PROVE  /\ "page" \in job'[b].todo \/ shelf'[job'[b].folder]["page"] = b
               /\ job'[b].op = "folder" =>
                    "sub" \in job'[b].todo \/ "deep" \in job'[b].todo \/ shelf'[job'[b].folder]["deep"] = b
    BY <1>1, <1>5, <1>11, <2>2 DEF AuthoringInv, NothingIsForgotten
  <2> QED BY <2>1, <2>2 DEF NothingIsForgotten
<1> QED BY <1>6, <1>8, <1>9, <1>10, <1>12, <1>13, <1>14 DEF AuthoringInv

\* A job that is over, or has not been begun, changes nothing of the others'.
LEMMA JobOverKeeps ==
    ASSUME AuthoringInv, NEW a \in Author, NEW r \in JobType, job' = [job EXCEPT ![a] = r],
           r.at \notin {"make", "fill", "made"}, UNCHANGED <<shelf, crossed, calls, setting>>
    PROVE  AuthoringInv'
<1>1. job'[a] = r /\ \A b \in Author \ {a} : job'[b] = job[b]
  BY DEF AuthoringInv, AuthoringTypes
<1>2. ~Busy(a)' /\ ~Filling(a)' /\ job'[a].at # "make" /\ job'[a].at # "made"
  BY <1>1 DEF Busy, Filling
<1>3. \A b \in Author \ {a} : Busy(b)' = Busy(b) /\ Filling(b)' = Filling(b)
  BY <1>1 DEF Busy, Filling
<1>4. AuthoringTypes'
  BY DEF AuthoringInv, AuthoringTypes
<1>5. JobsAreSound'
  BY <1>1, <1>2, <1>3 DEF AuthoringInv, JobsAreSound
<1>6. NumbersArePast'
  BY <1>1, <1>2 DEF AuthoringInv, NumbersArePast
<1>7. JobsAreApart'
  <2>1. \A b, c \in Author : b # c /\ Busy(b)' /\ Busy(c)' /\ job'[b].folder = job'[c].folder => job'[b].folder \in crossed'
    BY <1>1, <1>2, <1>3 DEF AuthoringInv, JobsAreApart
  <2>2. \A b \in Author : job'[b].at = "make" /\ job'[b].folder \notin crossed' => job'[b].folder \notin DOMAIN shelf'
    BY <1>1, <1>2 DEF AuthoringInv, JobsAreApart
  <2>3. \A b \in Author : Filling(b)' => job'[b].folder \in DOMAIN shelf'
    BY <1>1, <1>2, <1>3 DEF AuthoringInv, JobsAreApart
  <2> QED BY <2>1, <2>2, <2>3 DEF JobsAreApart
<1>8. FoldersAreWhose'
  BY <1>1, <1>2, <1>3 DEF AuthoringInv, FoldersAreWhose
<1>9. OnlyTheSourceIsCopied'
  BY DEF AuthoringInv, OnlyTheSourceIsCopied
<1>10. NothingIsForgotten'
  <2>1. ASSUME NEW b \in Author \ {a}, NothingIsForgotten
        PROVE  job'[b].op \in {"file", "folder"} /\ ~job'[b].missed =>
                 /\ job'[b].at = "make" =>
                      "page" \in job'[b].todo /\ (job'[b].op = "folder" => "sub" \in job'[b].todo)
                 /\ Filling(b)' /\ job'[b].folder \notin crossed' =>
                      /\ "page" \in job'[b].todo \/ shelf'[job'[b].folder]["page"] = b
                      /\ job'[b].op = "folder" =>
                           "sub" \in job'[b].todo \/ "deep" \in job'[b].todo \/ shelf'[job'[b].folder]["deep"] = b
    <3>1. job'[b] = job[b] /\ Filling(b)' = Filling(b)
      BY <1>1, <1>3
    <3> QED BY <2>1, <3>1 DEF NothingIsForgotten
  <2> QED BY <1>2, <2>1 DEF AuthoringInv, NothingIsForgotten
<1> QED BY <1>4, <1>5, <1>6, <1>7, <1>8, <1>9, <1>10 DEF AuthoringInv

\* The folder is made, or is there already, or cannot be made (create_dir_all).
LEMMA MakeFolderKeeps == ASSUME AuthoringInv, NEW a \in Author, MakeFolder(a) PROVE AuthoringInv'
<1> DEFINE f == job[a].folder
<1>1. /\ job[a].at = "make" /\ job[a] \in JobType /\ UNCHANGED <<crossed, calls, setting>>
      /\ f \in Shown /\ f \in FolderId
  BY DEF MakeFolder, Doing, AuthoringInv, AuthoringTypes, JobsAreSound, Busy, Shown
<1>2. ASSUME NEW x \in {"too_long", "failed"}, Becomes(a, [job[a] EXCEPT !.at = x]), UNCHANGED shelf PROVE AuthoringInv'
  <2>1. [job[a] EXCEPT !.at = x] \in JobType /\ [job[a] EXCEPT !.at = x].at = x
    BY <1>1 DEF JobType, Stand
  <2> QED BY <1>1, <1>2, <2>1, JobOverKeeps DEF Becomes
<1>3. ASSUME Becomes(a, [job[a] EXCEPT !.at = "fill"]),
             shelf' = IF f \in DOMAIN shelf THEN shelf
                      ELSE [g \in DOMAIN shelf \union {f} |-> IF g = f THEN Blank ELSE shelf[g]]
      PROVE  AuthoringInv'
  <2> DEFINE r == [job[a] EXCEPT !.at = "fill"]
  <2>1. r \in JobType /\ r.at = "fill" /\ r.folder = f /\ r.op = job[a].op /\ r.todo = job[a].todo /\ r.missed = job[a].missed
    BY <1>1 DEF JobType, Stand
  <2> HIDE DEF r
  <2>2. /\ job' = [job EXCEPT ![a] = r]
        /\ job'[a] = r /\ \A b \in Author \ {a} : job'[b] = job[b]
    BY <1>3 DEF Becomes, AuthoringInv, AuthoringTypes, r
  <2>3. Busy(a) /\ Busy(a)' /\ Filling(a)' /\ \A b \in Author \ {a} : Busy(b)' = Busy(b) /\ Filling(b)' = Filling(b)
    BY <1>1, <2>1, <2>2 DEF Busy, Filling
  <2>4. /\ DOMAIN shelf' = DOMAIN shelf \union {f}
        /\ \A g \in DOMAIN shelf : shelf'[g] = shelf[g]
        /\ f \notin DOMAIN shelf => shelf'[f] = Blank
        /\ shelf' \in [DOMAIN shelf' -> [File -> Writer]]
    <3>1. CASE f \in DOMAIN shelf
      BY <1>3, <3>1 DEF AuthoringInv, AuthoringTypes
    <3>2. CASE f \notin DOMAIN shelf
      <4>1. Blank \in [File -> Writer]
        BY DEF Blank, Writer
      <4>2. shelf' = [g \in DOMAIN shelf \union {f} |-> IF g = f THEN Blank ELSE shelf[g]]
        BY <1>3, <3>2
      <4>3. shelf \in [DOMAIN shelf -> [File -> Writer]]
        BY DEF AuthoringInv, AuthoringTypes
      <4> QED BY <3>2, <4>1, <4>2, <4>3
    <3> QED BY <3>1, <3>2
  <2>5. AuthoringTypes'
    <3>1. DOMAIN shelf' \subseteq Shown
      BY <1>1, <2>4 DEF AuthoringInv, AuthoringTypes
    <3>2. job' \in [Author -> JobType]
      BY <2>1, <2>2 DEF AuthoringInv, AuthoringTypes
    <3> QED BY <1>1, <2>4, <3>1, <3>2 DEF AuthoringInv, AuthoringTypes
  <2>6. JobsAreSound'
    BY <1>1, <2>1, <2>2, <2>3 DEF AuthoringInv, JobsAreSound
  <2>7. NumbersArePast'
    BY <1>1, <2>1, <2>2, <2>4 DEF AuthoringInv, NumbersArePast
  <2>8. JobsAreApart'
    <3>1. \A b, c \in Author : b # c /\ Busy(b)' /\ Busy(c)' /\ job'[b].folder = job'[c].folder => job'[b].folder \in crossed'
      BY <1>1, <2>1, <2>2, <2>3 DEF AuthoringInv, JobsAreApart
    <3>2. ASSUME NEW b \in Author, job'[b].at = "make", job'[b].folder \notin crossed' PROVE job'[b].folder \notin DOMAIN shelf'
      <4>1. b # a /\ job'[b] = job[b] /\ Busy(b)
        BY <2>1, <2>2, <3>2 DEF Busy
      <4>2. job[b].folder # f
        BY <1>1, <2>3, <3>2, <4>1 DEF AuthoringInv, JobsAreApart
      <4>3. job[b].folder \notin DOMAIN shelf
        BY <1>1, <3>2, <4>1 DEF AuthoringInv, JobsAreApart
      <4> QED BY <2>4, <4>1, <4>2, <4>3
    <3>3. \A b \in Author : Filling(b)' => job'[b].folder \in DOMAIN shelf'
      BY <2>1, <2>2, <2>3, <2>4 DEF AuthoringInv, JobsAreApart
    <3> QED BY <3>1, <3>2, <3>3 DEF JobsAreApart
  <2>9. f \notin crossed => f \notin DOMAIN shelf
    BY <1>1 DEF AuthoringInv, JobsAreApart
  <2>10. WrittenBy(Blank, a)
    BY DEF WrittenBy, Blank
  <2>11. FoldersAreWhose'
    <3>1. ASSUME NEW g \in DOMAIN shelf', g \notin crossed' PROVE \E x \in Writer : WrittenBy(shelf'[g], x)
      <4>1. CASE g = f
        <5>1. a \in Writer
          BY DEF Writer
        <5> QED BY <1>1, <2>4, <2>9, <2>10, <3>1, <4>1, <5>1
      <4>2. CASE g # f
        BY <1>1, <2>4, <3>1, <4>2 DEF AuthoringInv, FoldersAreWhose
      <4> QED BY <4>1, <4>2
    <3>2. ASSUME NEW b \in Author, Filling(b)', job'[b].folder \notin crossed' PROVE WrittenBy(shelf'[job'[b].folder], b)
      <4>1. CASE b = a
        BY <1>1, <2>1, <2>2, <2>4, <2>9, <2>10, <3>2, <4>1
      <4>2. CASE b # a
        BY <1>1, <2>2, <2>3, <2>4, <3>2, <4>2 DEF AuthoringInv, FoldersAreWhose, JobsAreApart
      <4> QED BY <4>1, <4>2
    <3> QED BY <3>1, <3>2 DEF FoldersAreWhose
  <2>12. OnlyTheSourceIsCopied'
    <3>1. \A file \in {"object", "secret", "itself"} : Blank[file] = Unwritten
      BY DEF Blank, File, Regular
    <3> QED BY <2>4, <3>1 DEF AuthoringInv, OnlyTheSourceIsCopied
  <2>13. NothingIsForgotten'
    <3>1. ASSUME NEW b \in Author, job'[b].op \in {"file", "folder"}, ~job'[b].missed, job'[b].at = "make"
          PROVE  "page" \in job'[b].todo /\ (job'[b].op = "folder" => "sub" \in job'[b].todo)
      <4>1. b # a /\ job'[b] = job[b]
        BY <2>1, <2>2, <3>1
      <4> QED BY <3>1, <4>1 DEF AuthoringInv, NothingIsForgotten
    <3>2. ASSUME NEW b \in Author, job'[b].op \in {"file", "folder"}, ~job'[b].missed, Filling(b)', job'[b].folder \notin crossed'
          PROVE  /\ "page" \in job'[b].todo \/ shelf'[job'[b].folder]["page"] = b
                 /\ job'[b].op = "folder" =>
                      "sub" \in job'[b].todo \/ "deep" \in job'[b].todo \/ shelf'[job'[b].folder]["deep"] = b
      <4>1. CASE b = a
        <5>1. "page" \in job[a].todo /\ (job[a].op = "folder" => "sub" \in job[a].todo)
          BY <1>1, <2>1, <2>2, <3>2, <4>1 DEF AuthoringInv, NothingIsForgotten
        <5> QED BY <2>1, <2>2, <4>1, <5>1
      <4>2. CASE b # a
        <5>1. /\ job'[b] = job[b] /\ Filling(b) /\ job[b].folder \in DOMAIN shelf
              /\ shelf'[job[b].folder] = shelf[job[b].folder] /\ crossed' = crossed
          BY <1>1, <2>2, <2>3, <2>4, <3>2, <4>2 DEF AuthoringInv, JobsAreApart
        <5> QED BY <3>2, <5>1 DEF AuthoringInv, NothingIsForgotten
      <4> QED BY <4>1, <4>2
    <3> QED BY <3>1, <3>2 DEF NothingIsForgotten
  <2> QED BY <2>5, <2>6, <2>7, <2>8, <2>11, <2>12, <2>13 DEF AuthoringInv
<1>4. \/ Becomes(a, [job[a] EXCEPT !.at = "too_long"]) /\ UNCHANGED shelf
      \/ Becomes(a, [job[a] EXCEPT !.at = "failed"]) /\ UNCHANGED shelf
      \/ /\ Becomes(a, [job[a] EXCEPT !.at = "fill"])
         /\ shelf' = IF f \in DOMAIN shelf THEN shelf
                     ELSE [g \in DOMAIN shelf \union {f} |-> IF g = f THEN Blank ELSE shelf[g]]
  BY DEF MakeFolder
<1> QED BY <1>2, <1>3, <1>4

\* What a job may put into its folder: a page of the source's, or nothing.
Puts(a, files) ==
    \/ files = shelf[job[a].folder]
    \/ \E item \in {"index", "page", "deep"} : files = [shelf[job[a].folder] EXCEPT ![item] = a]

\* How a job goes on: what leaves its list has been written, or was no file, or is passed over.
Onward(a, r, files) ==
    /\ r \in JobType /\ r.at \in {"fill", "made"} /\ r.folder = job[a].folder /\ r.op = job[a].op
    /\ r.todo \subseteq Worklist(r.op) /\ (r.at = "made" => r.todo = {})
    /\ ~r.missed =>
         /\ ~job[a].missed
         /\ "page" \in job[a].todo => "page" \in r.todo \/ files["page"] = a
         /\ "sub" \in job[a].todo => "sub" \in r.todo \/ "deep" \in r.todo
         /\ "deep" \in job[a].todo => "deep" \in r.todo \/ files["deep"] = a
    /\ Puts(a, files)

\* A job goes on in its own folder only.
LEMMA FillKeeps ==
    ASSUME AuthoringInv, NEW a \in Author, job[a].at = "fill", NEW r, NEW files, Onward(a, r, files),
           job' = [job EXCEPT ![a] = r], shelf' = [shelf EXCEPT ![job[a].folder] = files],
           UNCHANGED <<crossed, calls, setting>>
    PROVE  AuthoringInv'
<1> DEFINE f == job[a].folder
<1>1. job'[a] = r /\ \A b \in Author \ {a} : job'[b] = job[b]
  BY DEF AuthoringInv, AuthoringTypes
<1>2. /\ Busy(a) /\ Filling(a) /\ Busy(a)' /\ Filling(a)'
      /\ \A b \in Author \ {a} : Busy(b)' = Busy(b) /\ Filling(b)' = Filling(b)
  BY <1>1 DEF Busy, Filling, Onward
<1>3. f \in DOMAIN shelf /\ shelf[f] \in [File -> Writer]
  BY <1>2 DEF AuthoringInv, JobsAreApart, AuthoringTypes
<1>4. /\ files \in [File -> Writer]
      /\ \A x \in {"object", "secret", "itself"} : files[x] = shelf[f][x]
      /\ WrittenBy(shelf[f], a) => WrittenBy(files, a)
      /\ \A x \in {"page", "deep"} : shelf[f][x] = a => files[x] = a
  <2>1. CASE files = shelf[f]
    BY <1>3, <2>1
  <2>2. ASSUME NEW item \in {"index", "page", "deep"}, files = [shelf[f] EXCEPT ![item] = a]
        PROVE  /\ files \in [File -> Writer]
               /\ \A x \in {"object", "secret", "itself"} : files[x] = shelf[f][x]
               /\ WrittenBy(shelf[f], a) => WrittenBy(files, a)
               /\ \A x \in {"page", "deep"} : shelf[f][x] = a => files[x] = a
    <3>1. a \in Writer /\ item \in File
      BY DEF Writer, File, Regular
    <3> QED BY <1>3, <2>2, <3>1 DEF WrittenBy
  <2> QED BY <2>1, <2>2 DEF Onward, Puts
<1>5. /\ DOMAIN shelf' = DOMAIN shelf /\ shelf'[f] = files
      /\ \A g \in DOMAIN shelf : g # f => shelf'[g] = shelf[g]
      /\ shelf' \in [DOMAIN shelf -> [File -> Writer]]
  BY <1>3, <1>4 DEF AuthoringInv, AuthoringTypes
<1>6. AuthoringTypes'
  <2>1. job' \in [Author -> JobType]
    BY DEF AuthoringInv, AuthoringTypes, Onward
  <2> QED BY <1>5, <2>1 DEF AuthoringInv, AuthoringTypes
<1>7. JobsAreSound'
  BY <1>1, <1>2 DEF AuthoringInv, JobsAreSound, Onward
<1>8. NumbersArePast'
  BY <1>1, <1>5 DEF AuthoringInv, NumbersArePast, Onward
<1>9. JobsAreApart'
  <2>1. \A b, c \in Author : b # c /\ Busy(b)' /\ Busy(c)' /\ job'[b].folder = job'[c].folder => job'[b].folder \in crossed'
    BY <1>1, <1>2 DEF AuthoringInv, JobsAreApart, Onward
  <2>2. \A b \in Author : job'[b].at = "make" /\ job'[b].folder \notin crossed' => job'[b].folder \notin DOMAIN shelf'
    BY <1>1, <1>5 DEF AuthoringInv, JobsAreApart, Onward
  <2>3. \A b \in Author : Filling(b)' => job'[b].folder \in DOMAIN shelf'
    BY <1>1, <1>2, <1>5 DEF AuthoringInv, JobsAreApart, Onward
  <2> QED BY <2>1, <2>2, <2>3 DEF JobsAreApart
<1>10. \A b \in Author \ {a} : Filling(b) /\ job[b].folder \notin crossed =>
         job[b].folder # f /\ job[b].folder \in DOMAIN shelf /\ shelf'[job[b].folder] = shelf[job[b].folder]
  <2> SUFFICES ASSUME NEW b \in Author \ {a}, Filling(b), job[b].folder \notin crossed
      PROVE job[b].folder # f /\ job[b].folder \in DOMAIN shelf
    BY <1>5
  <2>1. Busy(b)
    BY DEF Busy, Filling
  <2> QED BY <1>2, <2>1 DEF AuthoringInv, JobsAreApart
<1>11. f \notin crossed => WrittenBy(files, a)
  BY <1>2, <1>4 DEF AuthoringInv, FoldersAreWhose
<1>12. FoldersAreWhose'
  <2>1. ASSUME NEW g \in DOMAIN shelf', g \notin crossed' PROVE \E x \in Writer : WrittenBy(shelf'[g], x)
    <3>1. CASE g = f
      <4>1. a \in Writer
        BY DEF Writer
      <4> QED BY <1>5, <1>11, <2>1, <3>1, <4>1
    <3>2. CASE g # f
      BY <1>5, <2>1, <3>2 DEF AuthoringInv, FoldersAreWhose
    <3> QED BY <3>1, <3>2
  <2>2. ASSUME NEW b \in Author, Filling(b)', job'[b].folder \notin crossed' PROVE WrittenBy(shelf'[job'[b].folder], b)
    <3>1. CASE b = a
      BY <1>1, <1>5, <1>11, <2>2, <3>1 DEF Onward
    <3>2. CASE b # a
      BY <1>1, <1>2, <1>10, <2>2, <3>2 DEF AuthoringInv, FoldersAreWhose
    <3> QED BY <3>1, <3>2
  <2> QED BY <2>1, <2>2 DEF FoldersAreWhose
<1>13. OnlyTheSourceIsCopied'
  BY <1>3, <1>4, <1>5 DEF AuthoringInv, OnlyTheSourceIsCopied
<1>14. NothingIsForgotten'
  <2>1. ASSUME NEW b \in Author, job'[b].op \in {"file", "folder"}, ~job'[b].missed, job'[b].at = "make"
        PROVE  "page" \in job'[b].todo /\ (job'[b].op = "folder" => "sub" \in job'[b].todo)
    <3>1. b # a /\ job'[b] = job[b]
      BY <1>1, <2>1 DEF Onward
    <3> QED BY <2>1, <3>1 DEF AuthoringInv, NothingIsForgotten
  <2>2. ASSUME NEW b \in Author, job'[b].op \in {"file", "folder"}, ~job'[b].missed, Filling(b)', job'[b].folder \notin crossed'
        PROVE  /\ "page" \in job'[b].todo \/ shelf'[job'[b].folder]["page"] = b
               /\ job'[b].op = "folder" =>
                    "sub" \in job'[b].todo \/ "deep" \in job'[b].todo \/ shelf'[job'[b].folder]["deep"] = b
    <3>1. CASE b = a
      <4>1. job'[b] = r /\ r.folder = f /\ r.op = job[a].op /\ shelf'[f] = files /\ f \notin crossed /\ ~r.missed /\ ~job[a].missed
        BY <1>1, <1>5, <2>2, <3>1 DEF Onward
      <4>2. /\ "page" \in job[a].todo \/ shelf[f]["page"] = a
            /\ job[a].op = "folder" => "sub" \in job[a].todo \/ "deep" \in job[a].todo \/ shelf[f]["deep"] = a
        BY <1>2, <2>2, <4>1 DEF AuthoringInv, NothingIsForgotten
      <4> QED BY <1>4, <3>1, <4>1, <4>2 DEF Onward
    <3>2. CASE b # a
      <4>1. job'[b] = job[b] /\ Filling(b) /\ crossed' = crossed /\ shelf'[job[b].folder] = shelf[job[b].folder]
        BY <1>1, <1>2, <1>10, <2>2, <3>2
      <4> QED BY <2>2, <4>1 DEF AuthoringInv, NothingIsForgotten
    <3> QED BY <3>1, <3>2
  <2> QED BY <2>1, <2>2 DEF NothingIsForgotten
<1> QED BY <1>6, <1>7, <1>8, <1>9, <1>12, <1>13, <1>14 DEF AuthoringInv

\* The next entry of the source (copy_into), or the starter page.
LEMMA CopyKeeps == ASSUME AuthoringInv, NEW a \in Author, CopyNext(a) PROVE AuthoringInv'
<1> DEFINE f == job[a].folder
<1>1. /\ job[a].at = "fill" /\ job[a] \in JobType /\ UNCHANGED <<crossed, calls, setting>>
      /\ f \in DOMAIN shelf /\ shelf[f] \in [File -> Writer] /\ job[a].todo \subseteq Worklist(job[a].op)
  BY DEF CopyNext, Doing, AuthoringInv, AuthoringTypes, JobsAreSound, JobsAreApart, Busy, Filling
<1>2. PICK item \in job[a].todo :
        LET rest == [job[a] EXCEPT !.todo = @ \ {item}] IN
        \/ ~Worth(item) /\ Becomes(a, rest) /\ UNCHANGED shelf
        \/ /\ Worth(item) /\ item \notin File
           /\ Becomes(a, [rest EXCEPT !.todo = @ \union Entries(item)]) /\ UNCHANGED shelf
        \/ /\ Worth(item) /\ item \in File
           /\ shelf' = [shelf EXCEPT ![job[a].folder][item] = a]
           /\ Becomes(a, rest)
        \/ job[a].op # "create" /\ Worth(item) /\ Becomes(a, [rest EXCEPT !.missed = TRUE]) /\ UNCHANGED shelf
        \/ Worth(item) /\ Becomes(a, [rest EXCEPT !.at = "failed"]) /\ UNCHANGED shelf
  BY DEF CopyNext
<1> DEFINE rest == [job[a] EXCEPT !.todo = @ \ {item}]
<1>3. /\ rest \in JobType /\ rest.at = "fill" /\ rest.folder = f /\ rest.op = job[a].op
      /\ rest.missed = job[a].missed /\ rest.todo = job[a].todo \ {item}
  BY <1>1 DEF JobType, Stand
<1>4. item \in Worklist(job[a].op) /\ item \in {"index", "page", "sub", ".git", "link", "deep"}
  BY <1>1 DEF Worklist
<1>5. UNCHANGED shelf => shelf' = [shelf EXCEPT ![f] = shelf[f]]
  BY DEF AuthoringInv, AuthoringTypes
<1>6. ASSUME NEW r, Onward(a, r, shelf[f]), Becomes(a, r), UNCHANGED shelf PROVE AuthoringInv'
  BY <1>1, <1>5, <1>6, FillKeeps DEF Becomes
<1> HIDE DEF rest
<1>7. CASE ~Worth(item) /\ Becomes(a, rest) /\ UNCHANGED shelf
  <2>1. item \in {".git", "link"}
    BY <1>7 DEF Worth
  <2>2. Onward(a, rest, shelf[f])
    BY <1>1, <1>3, <2>1 DEF Onward, Puts
  <2> QED BY <1>6, <1>7, <2>2
<1>8. CASE Worth(item) /\ item \notin File /\ Becomes(a, [rest EXCEPT !.todo = @ \union Entries(item)]) /\ UNCHANGED shelf
  <2> DEFINE r == [rest EXCEPT !.todo = @ \union Entries(item)]
  <2>1. item = "sub" /\ job[a].op \notin {"create", "file"}
    BY <1>4, <1>8 DEF Worth, File, Regular, Worklist
  <2>2. Entries(item) = {"deep"}
    BY <2>1 DEF Entries
  <2>3. r.todo = rest.todo \union {"deep"} /\ r.at = "fill" /\ r.folder = f /\ r.op = job[a].op /\ r.missed = job[a].missed
    BY <1>3, <2>2 DEF JobType
  <2>4. r \in JobType
    BY <1>3, <2>2 DEF JobType, Entry
  <2>5. r.todo \subseteq Worklist(r.op)
    BY <1>1, <1>3, <2>1, <2>3 DEF Worklist
  <2> HIDE DEF r
  <2>6. Onward(a, r, shelf[f])
    BY <1>3, <2>1, <2>3, <2>4, <2>5 DEF Onward, Puts
  <2> QED BY <1>6, <1>8, <2>6 DEF r
<1>9. CASE Worth(item) /\ item \in File /\ shelf' = [shelf EXCEPT ![job[a].folder][item] = a] /\ Becomes(a, rest)
  <2> DEFINE files == [shelf[f] EXCEPT ![item] = a]
  <2>1. item \in {"index", "page", "deep"}
    BY <1>4, <1>9 DEF File, Regular
  <2>2. shelf' = [shelf EXCEPT ![f] = files]
    BY <1>1, <1>9
  <2>3. files[item] = a
    BY <1>1, <1>9
  <2>4. Puts(a, files)
    BY <2>1 DEF Puts
  <2> HIDE DEF files
  <2>5. Onward(a, rest, files)
    BY <1>1, <1>3, <2>1, <2>3, <2>4 DEF Onward
  <2> QED BY <1>1, <1>9, <2>2, <2>5, FillKeeps DEF Becomes
<1>10. CASE Becomes(a, [rest EXCEPT !.missed = TRUE]) /\ UNCHANGED shelf
  <2> DEFINE r == [rest EXCEPT !.missed = TRUE]
  <2>1. r \in JobType /\ r.todo = rest.todo /\ r.at = "fill" /\ r.folder = f /\ r.op = job[a].op /\ r.missed
    BY <1>3 DEF JobType
  <2> HIDE DEF r
  <2>2. Onward(a, r, shelf[f])
    BY <1>1, <1>3, <2>1 DEF Onward, Puts
  <2> QED BY <1>6, <1>10, <2>2 DEF r
<1>11. CASE Becomes(a, [rest EXCEPT !.at = "failed"]) /\ UNCHANGED shelf
  <2>1. [rest EXCEPT !.at = "failed"] \in JobType /\ [rest EXCEPT !.at = "failed"].at = "failed"
    BY <1>3 DEF JobType, Stand
  <2> QED BY <1>1, <1>11, <2>1, JobOverKeeps DEF Becomes
<1> QED BY <1>2, <1>7, <1>8, <1>9, <1>10, <1>11 DEF rest

\* The last entry is done with.
LEMMA FilledKeeps == ASSUME AuthoringInv, NEW a \in Author, Filled(a) PROVE AuthoringInv'
<1> DEFINE r == [job[a] EXCEPT !.at = "made"]
<1>1. /\ job[a].at = "fill" /\ job[a] \in JobType /\ UNCHANGED <<shelf, crossed, calls, setting>>
      /\ job[a].todo = {} /\ job' = [job EXCEPT ![a] = r]
  BY DEF Filled, Becomes, Doing, AuthoringInv, AuthoringTypes
<1>2. /\ r \in JobType /\ r.at = "made" /\ r.folder = job[a].folder /\ r.op = job[a].op
      /\ r.todo = {} /\ r.missed = job[a].missed
  BY <1>1 DEF JobType, Stand
<1> HIDE DEF r
<1>3. Onward(a, r, shelf[job[a].folder])
  BY <1>1, <1>2 DEF Onward, Puts
<1>4. shelf' = [shelf EXCEPT ![job[a].folder] = shelf[job[a].folder]]
  BY <1>1 DEF AuthoringInv, AuthoringTypes
<1> QED BY <1>1, <1>3, <1>4, FillKeeps

\* Somebody else makes a folder under a free name while commands run.
LEMMA ByOwnerKeeps == ASSUME AuthoringInv, ByOwner PROVE AuthoringInv'
<1>1. calls < MaxCalls /\ calls' = calls + 1 /\ UNCHANGED <<job, setting>>
  BY DEF ByOwner
<1>2. PICK f \in FolderId :
        /\ f \notin DOMAIN shelf /\ f[1] # <<>> /\ f[2] <= Tries
        /\ shelf' = [g \in DOMAIN shelf \union {f} |->
                        IF g = f THEN [Blank EXCEPT !["page"] = TheOwner] ELSE shelf[g]]
        /\ crossed' = crossed \union {job[b].folder : b \in {b \in Author :
                                       job[b].at = "make" /\ job[b].folder = f}}
  BY DEF ByOwner
<1> DEFINE files == [Blank EXCEPT !["page"] = TheOwner]
<1>3. /\ files \in [File -> Writer] /\ WrittenBy(files, TheOwner) /\ TheOwner \in Writer
      /\ \A x \in {"object", "secret", "itself"} : files[x] = Unwritten
  BY DEF Blank, Writer, File, Regular, WrittenBy
<1> HIDE DEF files
<1>4. /\ DOMAIN shelf' = DOMAIN shelf \union {f} /\ shelf'[f] = files
      /\ \A g \in DOMAIN shelf : g # f /\ shelf'[g] = shelf[g]
      /\ shelf' \in [DOMAIN shelf' -> [File -> Writer]]
  <2>1. shelf \in [DOMAIN shelf -> [File -> Writer]]
    BY DEF AuthoringInv, AuthoringTypes
  <2>2. shelf' = [g \in DOMAIN shelf \union {f} |-> IF g = f THEN files ELSE shelf[g]]
    BY <1>2 DEF files
  <2> QED BY <1>2, <1>3, <2>1, <2>2
<1>5. calls \in Nat /\ Tries \in Nat /\ calls' \in 0..MaxCalls
  BY <1>1, AuthoringAssumption DEF AuthoringInv, AuthoringTypes
<1>6. /\ crossed \subseteq crossed' /\ crossed' \subseteq FolderId
      /\ \A b \in Author : job[b].at = "make" /\ job[b].folder \notin crossed' => job[b].folder # f
  BY <1>2 DEF AuthoringInv, AuthoringTypes
<1>7. \A b \in Author : Busy(b)' = Busy(b) /\ Filling(b)' = Filling(b)
  BY <1>1 DEF Busy, Filling
<1>8. AuthoringTypes'
  <2>1. DOMAIN shelf' \subseteq Shown
    BY <1>2, <1>4 DEF AuthoringInv, AuthoringTypes, Shown
  <2> QED BY <1>1, <1>4, <1>5, <1>6, <2>1 DEF AuthoringInv, AuthoringTypes
<1>9. JobsAreSound'
  BY <1>1, <1>7 DEF AuthoringInv, JobsAreSound
<1>10. NumbersArePast'
  <2>1. /\ \A g \in DOMAIN shelf : g[2] \in Nat /\ g[2] <= Tries + calls
        /\ \A b \in Author : job[b].at = "make" => job[b].folder[2] \in Nat /\ job[b].folder[2] <= Tries + calls
    BY AuthoringAssumption DEF AuthoringInv, AuthoringTypes, JobsAreSound, Busy, NumbersArePast, Shown, FolderId
  <2>2. f[2] \in Nat /\ f[2] <= Tries + calls'
    BY <1>1, <1>2, <1>5, AuthoringAssumption DEF FolderId
  <2> QED BY <1>1, <1>4, <1>5, <2>1, <2>2 DEF NumbersArePast
<1>11. JobsAreApart'
  <2>1. \A b, c \in Author : b # c /\ Busy(b)' /\ Busy(c)' /\ job'[b].folder = job'[c].folder => job'[b].folder \in crossed'
    BY <1>1, <1>6, <1>7 DEF AuthoringInv, JobsAreApart
  <2>2. \A b \in Author : job'[b].at = "make" /\ job'[b].folder \notin crossed' => job'[b].folder \notin DOMAIN shelf'
    BY <1>1, <1>4, <1>6 DEF AuthoringInv, JobsAreApart
  <2>3. \A b \in Author : Filling(b)' => job'[b].folder \in DOMAIN shelf'
    BY <1>1, <1>4, <1>7 DEF AuthoringInv, JobsAreApart
  <2> QED BY <2>1, <2>2, <2>3 DEF JobsAreApart
<1>12. FoldersAreWhose'
  <2>1. ASSUME NEW g \in DOMAIN shelf', g \notin crossed' PROVE \E x \in Writer : WrittenBy(shelf'[g], x)
    <3>1. CASE g = f
      BY <1>3, <1>4, <3>1
    <3>2. CASE g # f
      BY <1>4, <1>6, <2>1, <3>2 DEF AuthoringInv, FoldersAreWhose
    <3> QED BY <3>1, <3>2
  <2>2. ASSUME NEW b \in Author, Filling(b)', job'[b].folder \notin crossed' PROVE WrittenBy(shelf'[job'[b].folder], b)
    BY <1>1, <1>4, <1>6, <1>7, <2>2 DEF AuthoringInv, FoldersAreWhose, JobsAreApart
  <2> QED BY <2>1, <2>2 DEF FoldersAreWhose
<1>13. OnlyTheSourceIsCopied'
  BY <1>3, <1>4 DEF AuthoringInv, OnlyTheSourceIsCopied
<1>14. NothingIsForgotten'
  <2>1. ASSUME NEW b \in Author, job'[b].op \in {"file", "folder"}, ~job'[b].missed, job'[b].at = "make"
        PROVE  "page" \in job'[b].todo /\ (job'[b].op = "folder" => "sub" \in job'[b].todo)
    BY <1>1, <2>1 DEF AuthoringInv, NothingIsForgotten
  <2>2. ASSUME NEW b \in Author, job'[b].op \in {"file", "folder"}, ~job'[b].missed, Filling(b)', job'[b].folder \notin crossed'
        PROVE  /\ "page" \in job'[b].todo \/ shelf'[job'[b].folder]["page"] = b
               /\ job'[b].op = "folder" =>
                    "sub" \in job'[b].todo \/ "deep" \in job'[b].todo \/ shelf'[job'[b].folder]["deep"] = b
    <3>1. /\ job'[b] = job[b] /\ Filling(b) /\ job[b].folder \notin crossed
          /\ shelf'[job[b].folder] = shelf[job[b].folder]
      BY <1>1, <1>4, <1>6, <1>7, <2>2 DEF AuthoringInv, JobsAreApart
    <3> QED BY <2>2, <3>1 DEF AuthoringInv, NothingIsForgotten
  <2> QED BY <2>1, <2>2 DEF NothingIsForgotten
<1> QED BY <1>8, <1>9, <1>10, <1>11, <1>12, <1>13, <1>14 DEF AuthoringInv

\* The workspace is chosen, by its real path.
LEMMA SetWorkspaceKeeps == ASSUME AuthoringInv, SetWorkspace PROVE AuthoringInv'
<1>1. calls < MaxCalls /\ calls' = calls + 1 /\ UNCHANGED <<shelf, job, crossed>>
  BY DEF SetWorkspace
<1>2. setting' \in (Place \union {"default"}) \ {"state", "in_state", "link"}
  <2>1. PICK p \in Place : Valid(p) /\ setting' = Real(p)
    BY DEF SetWorkspace
  <2> QED BY <2>1 DEF Valid, Real, Place
<1>3. calls \in Nat /\ Tries \in Nat /\ calls' \in 0..MaxCalls
  BY <1>1, AuthoringAssumption DEF AuthoringInv, AuthoringTypes
<1>4. \A b \in Author : Busy(b)' = Busy(b) /\ Filling(b)' = Filling(b)
  BY <1>1 DEF Busy, Filling
<1>5. AuthoringTypes'
  BY <1>1, <1>2, <1>3 DEF AuthoringInv, AuthoringTypes
<1>6. JobsAreSound' /\ JobsAreApart'
  BY <1>1, <1>4 DEF AuthoringInv, JobsAreSound, JobsAreApart
<1>7. NumbersArePast'
  <2>1. /\ \A g \in DOMAIN shelf : g[2] \in Nat /\ g[2] <= Tries + calls
        /\ \A b \in Author : job[b].at = "make" => job[b].folder[2] \in Nat /\ job[b].folder[2] <= Tries + calls
    BY AuthoringAssumption DEF AuthoringInv, AuthoringTypes, JobsAreSound, Busy, NumbersArePast, Shown, FolderId
  <2> QED BY <1>1, <1>3, <2>1 DEF NumbersArePast
<1>8. FoldersAreWhose' /\ OnlyTheSourceIsCopied' /\ NothingIsForgotten'
  BY <1>1, <1>4 DEF AuthoringInv, FoldersAreWhose, OnlyTheSourceIsCopied, NothingIsForgotten
<1> QED BY <1>5, <1>6, <1>7, <1>8 DEF AuthoringInv

\* One step of anybody's.
LEMMA AuthoringStep == AuthoringInv /\ [AuthoringNext]_authoringVars => AuthoringInv'
<1> SUFFICES ASSUME AuthoringInv, [AuthoringNext]_authoringVars PROVE AuthoringInv'
  OBVIOUS
<1>1. ASSUME NEW a \in Author, Create(a) PROVE AuthoringInv'
  <2>1. PICK name \in Typed : Begin(a, "create", FolderName(name), {"index"})
    BY <1>1 DEF Create
  <2>2. "create" \in Task /\ Asked("create", FolderName(name), {"index"})
    BY DEF Task, Asked, Worklist, Entry
  <2> QED BY <2>1, <2>2, BeginKeeps
<1>2. ASSUME NEW a \in Author, Import(a) PROVE AuthoringInv'
  <2>1. PICK source \in Source, name \in Typed :
          Begin(a, source,
                IF source \in {"folder", "file"} THEN FolderName(name) ELSE <<>>,
                IF source = "file" THEN {"page"} ELSE Entries(source))
    BY <1>2 DEF Import
  <2>2. source \in Task
    BY DEF Task
  <2>3. CASE source = "file"
    <3>1. Asked(source, FolderName(name), {"page"})
      BY <2>3 DEF Asked, Worklist, Entry
    <3>2. Begin(a, source, FolderName(name), {"page"})
      BY <2>1, <2>3
    <3> QED BY <2>2, <3>1, <3>2, BeginKeeps
  <2>4. CASE source = "folder"
    <3>1. Entries(source) = {"page", "sub", ".git", "link"}
      BY <2>4 DEF Entries
    <3>2. Asked(source, FolderName(name), Entries(source))
      BY <2>4, <3>1 DEF Asked, Worklist, Entry
    <3>3. Begin(a, source, FolderName(name), Entries(source))
      BY <2>1, <2>4
    <3> QED BY <2>2, <3>2, <3>3, BeginKeeps
  <2>5. CASE source \notin {"file", "folder"}
    <3>1. Begin(a, source, <<>>, Entries(source))
      BY <2>1, <2>5
    <3> QED BY <2>2, <3>1, BeginKeeps
  <2> QED BY <2>3, <2>4, <2>5
<1>3. ASSUME NEW a \in Author, Answered(a) PROVE AuthoringInv'
  <2>1. NoJob \in JobType /\ NoJob.at = "idle"
    BY DEF NoJob, JobType, Stand, Task
  <2> QED BY <1>3, <2>1, JobOverKeeps DEF Answered, Becomes
<1>4. CASE UNCHANGED authoringVars
  BY <1>4 DEF authoringVars, AuthoringInv, AuthoringTypes, JobsAreSound, NumbersArePast, JobsAreApart,
     FoldersAreWhose, OnlyTheSourceIsCopied, NothingIsForgotten, Busy, Filling
<1> QED BY <1>1, <1>2, <1>3, <1>4, MakeFolderKeeps, CopyKeeps, FilledKeeps, ByOwnerKeeps, SetWorkspaceKeeps
        DEF AuthoringNext, AuthorStep

\* What is kept is what was meant.
LEMMA AuthoringShows == AuthoringInv => AuthoringSafe
<1> SUFFICES ASSUME AuthoringInv PROVE AuthoringSafe
  OBVIOUS
<1>1. AuthoringTypeOK
  BY DEF AuthoringInv, AuthoringTypes, AuthoringTypeOK, JobType, Stand, Writer, Shown
<1>2. FoldersAreOnes
  <2> SUFFICES ASSUME NEW f \in DOMAIN shelf \ crossed PROVE Cardinality(WritersOf(f)) <= 1
    BY DEF FoldersAreOnes
  <2>1. PICK x \in Writer : WrittenBy(shelf[f], x)
    BY DEF AuthoringInv, FoldersAreWhose
  <2>2. WritersOf(f) \subseteq {x}
    BY <2>1 DEF WritersOf, WrittenBy
  <2>3. IsFiniteSet({x}) /\ Cardinality({x}) = 1
    BY FS_Singleton
  <2> QED BY <2>2, <2>3, FS_Subset
<1>3. FoldersShow
  <2> SUFFICES ASSUME NEW f \in DOMAIN shelf
      PROVE f[1] # <<>> /\ f[1][1] # "." /\ "/" \notin Range(f[1])
    BY DEF FoldersShow
  <2>1. f[1] # <<>> /\ f[1] \in {FolderName(t) : t \in Typed}
    BY DEF AuthoringInv, AuthoringTypes, Shown, FolderId
  <2>2. PICK t \in Typed : f[1] = FolderName(t)
    BY <2>1
  <2>3. t \in Seq(Class)
    BY AuthoringAssumption DEF Class
  <2> QED BY <2>1, <2>2, <2>3, FolderNameShows DEF Shows
<1>4. MadeIsWhole
  <2> SUFFICES ASSUME NEW a \in Author, job[a].at = "made", job[a].op \in {"file", "folder"}, ~job[a].missed,
                      job[a].folder \notin crossed,
                      NEW file \in IF job[a].op = "file" THEN {"page"} ELSE {"page", "deep"}
      PROVE  shelf[job[a].folder][file] = a
    BY DEF MadeIsWhole, Doing
  <2>1. job[a].todo = {} /\ Filling(a)
    BY DEF AuthoringInv, JobsAreSound, Filling
  <2>2. /\ "page" \in job[a].todo \/ shelf[job[a].folder]["page"] = a
        /\ job[a].op = "folder" =>
             "sub" \in job[a].todo \/ "deep" \in job[a].todo \/ shelf[job[a].folder]["deep"] = a
    BY <2>1 DEF AuthoringInv, NothingIsForgotten
  <2> QED BY <2>1, <2>2
<1>5. OwnFolderIsNotTheWorkspace
  BY DEF AuthoringInv, AuthoringTypes, OwnFolderIsNotTheWorkspace
<1> QED BY <1>1, <1>2, <1>3, <1>4, <1>5 DEF AuthoringSafe, AuthoringInv

\* Whoever makes apps at the same time, by whatever name, and whatever comes with what is
\* brought in: each folder is one command's unless two found its name free together, it
\* shows under a name that is one name, holds what the source held and nothing from beyond
\* it, and none of it is put in the daemon's own folder (rpc/authoring.rs, library::folder_name).
THEOREM AuthoringIsAlwaysSafe == AuthoringSpec => []AuthoringSafe
<1>1. AuthoringInit => AuthoringInv
  BY AuthoringStart
<1>2. AuthoringInv /\ [AuthoringNext]_authoringVars => AuthoringInv'
  BY AuthoringStep
<1> QED BY <1>1, <1>2, AuthoringShows, PTL DEF AuthoringSpec
=============================================================================
