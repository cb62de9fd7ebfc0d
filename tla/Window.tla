------------------------------- MODULE Window -------------------------------
(***************************************************************************)
(* Who the owner's window shows as reading an app.                          *)
(*                                                                         *)
(* A served page says it is open, and says goodbye when it closes; the      *)
(* daemon remembers who it heard from and forgets them after a while; every *)
(* change is an event on a bus of bounded length, which the shell forwards  *)
(* to the window; and the window takes an event as a reason to ask again.   *)
(*                                                                         *)
(* One app whose gate serves every viewer.  Time passes in units of five    *)
(* seconds, and a request has arrived or is lost within one.                *)
(***************************************************************************)
EXTENDS Naturals, Sequences

CONSTANTS Viewer,       \* who a page is counted as: a device, an address, the owner
          Path,
          Beat,         \* BEAT_EVERY, in units
          Linger,       \* LINGER, in units
          Backlog,      \* EVENT_BACKLOG
          MaxMoves,     \* bound: what people do with their pages
          MaxNoise,     \* bound: events about anything else
          MaxRestarts,  \* bound
          Nowhere       \* no path: not on the list

\* LINGER is two and a half intervals.
ASSUME WindowAssumption ==
    /\ 2 * Beat < Linger
    /\ Nowhere \notin Path
    /\ Beat \in Nat \ {0} /\ Linger \in Nat \ {0} /\ Backlog \in Nat \ {0}
    /\ MaxMoves \in Nat /\ MaxNoise \in Nat /\ MaxRestarts \in Nat

VARIABLES page,      \* each viewer's page: closed, hidden or visible, where, and its timer
          wire,      \* check-ins and goodbyes under way
          seen,      \* Presence::seen: the path, and how long ago
          swept,     \* the sweep has run in this unit
          out,       \* a rescan has taken the library and is yet to put the new one in
          queue,     \* what the bus holds for the shell
          lagged,    \* the bus has dropped something the shell is yet to be told of
          stream,    \* the shell's subscription: on, off, or about to be made
          asking,    \* the window is fetching presence.list
          shown,     \* the list in the window
          missed,    \* history: presence changed since the last answer and no event will say so
          steady,    \* history: check-ins lost since one arrived from a page left alone; 9 if none did
          moves, noise, restarts

pages  == <<page, wire, moves>>
daemon == <<seen, swept, out, queue, lagged>>
window == <<stream, asking, shown>>
vars   == <<page, wire, seen, swept, out, queue, lagged, stream, asking, shown, missed, steady,
            moves, noise, restarts>>

NotSeen == [path |-> Nowhere, age |-> 0]
Unsteady == 9

Init ==
    /\ page = [v \in Viewer |-> [state |-> "closed", path |-> Nowhere, timer |-> 0]]
    /\ wire = {}
    /\ seen = [v \in Viewer |-> NotSeen]
    /\ swept = TRUE /\ out = FALSE
    /\ queue = <<>> /\ lagged = FALSE
    /\ stream = "on" /\ asking = FALSE
    /\ shown = [v \in Viewer |-> Nowhere]
    /\ missed = FALSE
    /\ steady = [v \in Viewer |-> Unsteady]
    /\ moves = 0 /\ noise = 0 /\ restarts = 0

Listed(v) == seen[v].path # Nowhere

-----------------------------------------------------------------------------
(* The bus: Events::send, seen from the shell's receiver.                  *)

\* A receiver that is full loses its oldest event; with no receiver nothing is kept.
Publish(event) ==
    IF stream # "on"
    THEN /\ missed' = (missed \/ event = "presence")
         /\ UNCHANGED <<queue, lagged>>
    ELSE IF Len(queue) < Backlog
    THEN /\ queue' = Append(queue, event)
         /\ UNCHANGED <<lagged, missed>>
    ELSE /\ queue' = Append(Tail(queue), event)
         /\ lagged' = TRUE
         /\ missed' = (missed \/ Head(queue) = "presence")

PublishIf(changed) ==
    IF changed THEN Publish("presence") ELSE UNCHANGED <<queue, lagged, missed>>

-----------------------------------------------------------------------------
(* The script in the page.                                                 *)

CheckIn(v, p) == [kind |-> "beat", from |-> v, path |-> p]
Goodbye(v)    == [kind |-> "gone", from |-> v, path |-> Nowhere]

Move == moves < MaxMoves /\ moves' = moves + 1

Open(v, p) ==
    /\ page[v].state = "closed"
    /\ Move
    /\ page' = [page EXCEPT ![v] = [state |-> "visible", path |-> p, timer |-> Beat]]
    /\ wire' = wire \union {CheckIn(v, p)}
    /\ UNCHANGED <<daemon, window, missed, steady, noise, restarts>>

\* pagehide, or a tab that dies without a word.
Close(v) ==
    /\ page[v].state # "closed"
    /\ Move
    /\ page' = [page EXCEPT ![v] = [state |-> "closed", path |-> Nowhere, timer |-> 0]]
    /\ \/ wire' = wire \union {Goodbye(v)}
       \/ wire' = wire
    /\ steady' = [steady EXCEPT ![v] = Unsteady]
    /\ UNCHANGED <<daemon, window, missed, noise, restarts>>

\* The app changes location.pathname by itself: the next check-in says so.
Wander(v, p) ==
    /\ page[v].state = "visible" /\ page[v].path # p
    /\ Move
    /\ page' = [page EXCEPT ![v].path = p]
    /\ UNCHANGED <<wire, daemon, window, missed, steady, noise, restarts>>

Hide(v) ==
    /\ page[v].state = "visible"
    /\ Move
    /\ page' = [page EXCEPT ![v].state = "hidden"]
    /\ steady' = [steady EXCEPT ![v] = Unsteady]
    /\ UNCHANGED <<wire, daemon, window, missed, noise, restarts>>

\* visibilitychange: a page that is looked at again checks in at once.
Show(v) ==
    /\ page[v].state = "hidden"
    /\ Move
    /\ page' = [page EXCEPT ![v].state = "visible"]
    /\ wire' = wire \union {CheckIn(v, page[v].path)}
    /\ UNCHANGED <<daemon, window, missed, steady, noise, restarts>>

\* setInterval: a hidden page's timer runs, and says nothing.
TimerBeats(v) ==
    /\ page[v].state # "closed" /\ page[v].timer = 0
    /\ page' = [page EXCEPT ![v].timer = Beat]
    /\ wire' = IF page[v].state = "visible" THEN wire \union {CheckIn(v, page[v].path)} ELSE wire
    /\ UNCHANGED <<daemon, window, missed, steady, moves, noise, restarts>>

-----------------------------------------------------------------------------
(* The daemon: Presence, its two handlers and the sweep.                   *)

\* Faulty variant: lingering for two beats, to the second.
RecentTwoBeats(v) == Listed(v) /\ seen[v].age < 2 * Beat

Recent(v) == Listed(v) /\ seen[v].age < Linger

\* Presence::viewers.
Viewers == [v \in Viewer |-> IF Recent(v) THEN seen[v].path ELSE Nowhere]

\* Faulty variant: only a newcomer is worth telling.
ChangesNewcomer(v, p) == ~Listed(v)

\* Presence::beat: the entry is compared whether or not it has expired.
Changes(v, p) == seen[v].path # p

\* A page that was left alone since this check-in set off, with no goodbye of an
\* earlier page still under way.
LeftAlone(m) == page[m.from].state = "visible" /\ Goodbye(m.from) \notin wire

\* A check-in for an app that is not in the library is as good as lost.
BeatArrives(m) ==
    /\ m \in wire /\ m.kind = "beat"
    /\ ~out
    /\ wire' = wire \ {m}
    /\ seen' = [seen EXCEPT ![m.from] = [path |-> m.path, age |-> 0]]
    /\ PublishIf(Changes(m.from, m.path))
    /\ steady' = [steady EXCEPT ![m.from] = IF LeftAlone(m) THEN 0 ELSE @]
    /\ UNCHANGED <<page, swept, out, window, moves, noise, restarts>>

\* Faulty variant: the window is not told.
GoneArrivesQuietly(m) ==
    /\ m \in wire /\ m.kind = "gone"
    /\ wire' = wire \ {m}
    /\ seen' = [seen EXCEPT ![m.from] = NotSeen]
    /\ UNCHANGED <<queue, lagged, missed, page, swept, out, steady, window, moves, noise, restarts>>

GoneArrives(m) ==
    /\ m \in wire /\ m.kind = "gone"
    /\ wire' = wire \ {m}
    /\ seen' = [seen EXCEPT ![m.from] = NotSeen]
    /\ PublishIf(Listed(m.from))
    /\ UNCHANGED <<page, swept, out, steady, window, moves, noise, restarts>>

Lost(m) ==
    /\ m \in wire
    /\ wire' = wire \ {m}
    /\ steady' = [steady EXCEPT ![m.from] =
         IF m.kind = "beat" /\ @ # Unsteady THEN IF @ = 2 THEN 2 ELSE @ + 1 ELSE @]
    /\ UNCHANGED <<page, daemon, window, missed, moves, noise, restarts>>

\* Faulty variant: nothing looks for pages that stopped checking in.
SweepNever ==
    /\ ~swept
    /\ swept' = TRUE
    /\ UNCHANGED <<pages, seen, out, queue, lagged, window, missed, steady, noise, restarts>>

SomeoneWent == \E v \in Viewer : Listed(v) /\ ~Recent(v)

\* Presence::sweep, and if anyone went, an event for every app that is in the library.
Sweep ==
    /\ ~swept
    /\ swept' = TRUE
    /\ seen' = [v \in Viewer |-> IF Recent(v) THEN seen[v] ELSE NotSeen]
    /\ IF out
       THEN missed' = (missed \/ SomeoneWent) /\ UNCHANGED <<queue, lagged>>
       ELSE PublishIf(SomeoneWent)
    /\ UNCHANGED <<pages, out, window, steady, noise, restarts>>

\* A rescan: replace_announcing takes the library, announces, and puts the new one in.
Rescan ==
    /\ out' = ~out
    /\ UNCHANGED <<pages, seen, swept, queue, lagged, window, missed, steady, noise, restarts>>

\* Anything else the daemon has to say.
Noise ==
    /\ noise < MaxNoise /\ noise' = noise + 1
    /\ Publish("other")
    /\ UNCHANGED <<pages, seen, swept, out, window, steady, restarts>>

\* What was due in this unit has been done.
Tick ==
    /\ wire = {} /\ swept
    /\ \A v \in Viewer : page[v].state # "closed" => page[v].timer > 0
    /\ page' = [v \in Viewer |->
         IF page[v].state = "closed" THEN page[v] ELSE [page[v] EXCEPT !.timer = @ - 1]]
    /\ seen' = [v \in Viewer |-> IF Listed(v) THEN [seen[v] EXCEPT !.age = @ + 1] ELSE NotSeen]
    /\ swept' = FALSE
    /\ UNCHANGED <<wire, out, queue, lagged, window, missed, steady, moves, noise, restarts>>

-----------------------------------------------------------------------------
(* The socket, the shell and the window.                                   *)

\* next_event: a receiver that fell behind is told so first, and the window only
\* writes that down.
HearOfLoss ==
    /\ stream = "on" /\ lagged
    /\ lagged' = FALSE
    /\ UNCHANGED <<pages, seen, swept, out, queue, window, missed, steady, noise, restarts>>

Hear ==
    /\ stream = "on" /\ ~lagged /\ queue # <<>>
    /\ queue' = Tail(queue)
    /\ asking' = (asking \/ Head(queue) = "presence")
    /\ UNCHANGED <<pages, seen, swept, out, lagged, stream, shown, missed, steady, noise, restarts>>

\* The window asks for presence.list and shows the answer.  A call that fails, because the
\* daemon is down or slow, is not made again, and what was shown stays.
Fetch ==
    /\ asking
    /\ asking' = FALSE
    /\ \/ shown' = Viewers /\ missed' = FALSE
       \/ missed' = (missed \/ shown # Viewers) /\ UNCHANGED shown
    /\ UNCHANGED <<pages, daemon, stream, steady, noise, restarts>>

\* The daemon is restarted: nobody is known to be reading, and the stream ends.
Restart ==
    /\ restarts < MaxRestarts /\ restarts' = restarts + 1
    /\ seen' = [v \in Viewer |-> NotSeen]
    /\ queue' = <<>> /\ lagged' = FALSE /\ out' = FALSE
    /\ stream' = "off"
    /\ wire' = {}
    /\ missed' = (missed \/ \E v \in Viewer : Listed(v) \/ queue # <<>>)
    /\ steady' = [v \in Viewer |-> Unsteady]
    /\ UNCHANGED <<page, moves, swept, asking, shown, noise>>

\* forward_events: everything is suspect, says the shell, and subscribes again.
Resync ==
    /\ stream = "off"
    /\ stream' = "resynced"
    /\ asking' = TRUE
    /\ UNCHANGED <<pages, daemon, shown, missed, steady, noise, restarts>>

Subscribe ==
    /\ stream = "resynced"
    /\ stream' = "on"
    /\ UNCHANGED <<pages, daemon, asking, shown, missed, steady, noise, restarts>>

-----------------------------------------------------------------------------
People == \E v \in Viewer :
    Close(v) \/ Hide(v) \/ Show(v) \/ \E p \in Path : Open(v, p) \/ Wander(v, p)

Arrives(m) == BeatArrives(m) \/ GoneArrives(m) \/ Lost(m)

Shell == HearOfLoss \/ Hear \/ Fetch \/ Resync \/ Subscribe

Message == {CheckIn(v, p) : v \in Viewer, p \in Path} \union {Goodbye(v) : v \in Viewer}

Next ==
    \/ People
    \/ \E v \in Viewer : TimerBeats(v)
    \/ \E m \in Message : Arrives(m)
    \/ Sweep \/ Rescan \/ Tick \/ Noise
    \/ Shell
    \/ Restart

Spec == Init /\ [][Next]_vars

\* Time passes, timers fire, a request ends somehow, and the daemon, the shell and
\* the window get round to their next step.
Fairness ==
    /\ \A v \in Viewer : WF_vars(TimerBeats(v))
    /\ \A m \in Message : WF_vars(Arrives(m))
    /\ WF_vars(Sweep) /\ SF_vars(Tick)
    /\ WF_vars(HearOfLoss) /\ WF_vars(Hear) /\ WF_vars(Fetch)
    /\ WF_vars(Resync) /\ WF_vars(Subscribe)

FairSpec == Spec /\ Fairness

-----------------------------------------------------------------------------
(* Properties.                                                             *)

TypeOK ==
    /\ page \in [Viewer -> [state : {"closed", "hidden", "visible"},
                            path : Path \union {Nowhere}, timer : 0 .. Beat]]
    /\ wire \subseteq Message
    /\ seen \in [Viewer -> [path : Path \union {Nowhere}, age : 0 .. Linger]]
    /\ queue \in Seq({"presence", "other"}) /\ Len(queue) <= Backlog
    /\ stream \in {"on", "off", "resynced"}
    /\ {swept, out, lagged, asking, missed} \subseteq BOOLEAN
    /\ shown \in [Viewer -> Path \union {Nowhere}]
    /\ steady \in [Viewer -> {0, 1, 2, Unsteady}]
    /\ moves \in 0 .. MaxMoves /\ noise \in 0 .. MaxNoise /\ restarts \in 0 .. MaxRestarts

\* The window has nothing left to hear or to ask, and no event was lost on it.
UpToDate == stream = "on" /\ queue = <<>> /\ ~lagged /\ ~asking /\ ~missed

\* Presence::beat and left say when "this changes what anyone would see", and the
\* sweep says when anyone went: a window that lost no event shows nobody who has
\* left the list, and shows no one on a page they have moved on from.
ShownIsListed ==
    UpToDate => \A v \in Viewer : shown[v] \in {Nowhere, seen[v].path}

\* LINGER: "one dropped request does not make somebody flicker out of the list".
NoFlicker == \A v \in Viewer : steady[v] < 2 => Recent(v)

\* "Somebody closing a tab should leave the owner's list": whatever is dropped on
\* the way, a name does not stay in the window once the page is gone, unless the
\* event that would have said so was lost, or the answer to it.
StaleNamesGo ==
    \A v \in Viewer :
        (page[v].state = "closed" /\ shown[v] # Nowhere)
            ~> (page[v].state # "closed" \/ shown[v] = Nowhere \/ missed)

\* Presence::beat: "Returns true when this changes what anyone would see".
ReaderIsShown ==
    UpToDate => \A v \in Viewer : Recent(v) => shown[v] # Nowhere

\* next_event: a client that fell behind "is told to resynchronise rather than left
\* believing its picture is current".
LossIsMadeGood == missed ~> ~missed

\* What the list in the window says of a reader is so, and one lost request does not take
\* anybody off it.
PresenceIsTrue == TypeOK /\ ShownIsListed /\ NoFlicker
=============================================================================
