-------------------------------- MODULE Notices --------------------------------
(***************************************************************************)
(* What the owner is told, and how far they have read: the notification      *)
(* switches and the read mark the daemon keeps, the windows that change      *)
(* them, and the banner that asks about a device at the door.               *)
(*                                                                         *)
(* Each window is a caller of its own on the socket. A command that changes  *)
(* a setting reads it and writes it in two locked steps, so another caller's *)
(* comes in between; a banner waits on a thread of its own while the device  *)
(* it asks about is decided somewhere else.                                 *)
(***************************************************************************)
EXTENDS Naturals, FiniteSets

CONSTANTS Window,      \* callers on the socket
          Desk,        \* the one of them that posts banners
          Switch,      \* the notification switches
          Asking,      \* the one about devices at the door
          Visitor,     \* devices that may ask to be let in
          FetchLimit,  \* rows of the log a window asks for
          EarlierLimit,\* and of those it shows
          MaxSeconds, MaxRows

ASSUME NoticesAssumption ==
    /\ Desk \in Window /\ Asking \in Switch /\ MaxSeconds \in Nat \ {0} /\ MaxRows \in Nat
    /\ FetchLimit \in Nat /\ EarlierLimit \in Nat

VARIABLES switches, mark,         \* the two settings, in the store
          second, rows,           \* the time, and the access log: when, which, and whether
                                  \* the row is of a device that asked to be let in
          cached, listed,         \* each window's copy of the switches, and of the log
          command,                \* each caller's command, between its read and its write
          device, banner,         \* each device's status; what became of its banner
          wished, collided, said  \* history: the owner's last word on each switch; two
                                  \* commands overlapped; devices somebody said yes to

noticesVars == <<switches, mark, second, rows, cached, listed, command, device, banner,
                 wished, collided, said>>
settings == <<switches, mark, command, wished, collided>>
views == <<cached, listed>>
door == <<device, banner, said>>

NoCommand == [op |-> "none"]
Defaults == [s \in Switch |-> s = Asking]

NoticesInit ==
    /\ switches = Defaults /\ mark = 0 /\ second = 1 /\ rows = {}
    /\ cached = [w \in Window |-> Defaults] /\ listed = [w \in Window |-> {}]
    /\ command = [w \in Window |-> NoCommand]
    /\ device = [v \in Visitor |-> "unknown"] /\ banner = [v \in Visitor |-> "none"]
    /\ wished = Defaults /\ collided = FALSE /\ said = {}

Quiet(w) == command[w] = NoCommand

Ticks ==
    /\ second < MaxSeconds /\ second' = second + 1
    /\ UNCHANGED <<settings, rows, views, door>>

LogRow(asks) == rows' = rows \union {<<second, Cardinality(rows) + 1, asks>>}

Visited ==
    /\ Cardinality(rows) < MaxRows /\ \E asks \in BOOLEAN : LogRow(asks)
    /\ UNCHANGED <<settings, second, views, door>>

-----------------------------------------------------------------------------
(* The switches and the mark.                                               *)

Overlapping(w) == collided \/ \E x \in Window \ {w} : ~Quiet(x)

Newer(r, s)  == r[1] > s[1] \/ (r[1] = s[1] /\ r[2] > s[2])
NewerThan(r) == {s \in rows : Newer(s, r)}

\* Of the newest FetchLimit rows, the newest EarlierLimit that are no requests: those have a
\* block of their own.
Earlier ==
    {r \in rows : /\ Cardinality(NewerThan(r)) < FetchLimit
                  /\ ~r[3] /\ Cardinality({s \in NewerThan(r) : ~s[3]}) < EarlierLimit}

\* The window asks for the switches, or the log, again.
Refetch(w) ==
    /\ \/ cached' = [cached EXCEPT ![w] = switches] /\ UNCHANGED listed
       \/ listed' = [listed EXCEPT ![w] = Earlier] /\ UNCHANGED cached
    /\ UNCHANGED <<settings, second, rows, door>>

\* Faulty variant: the window sends every switch as it has it.
MergeAll(w, s, on) == [cached[w] EXCEPT ![s] = on]

\* merge: only what the caller sent is taken from it.
Merge(w, s, on) == [switches EXCEPT ![s] = on]

\* notify.set_prefs, up to what it read.
SetPrefs(w) ==
    /\ Quiet(w) /\ collided' = Overlapping(w)
    /\ \E s \in Switch, on \in BOOLEAN :
        /\ cached[w][s] # on
        /\ command' = [command EXCEPT ![w] = [op |-> "switches", to |-> Merge(w, s, on)]]
        /\ wished' = [wished EXCEPT ![s] = on]
    /\ UNCHANGED <<switches, mark, second, rows, views, door>>

Newest(seen) == CHOOSE at \in {r[1] : r \in seen} : \A r \in seen : r[1] <= at

\* Faulty variant: the surface marks everything up to now.
SeenUpToNow(w) == second

\* Faulty variant: the surface marks past what it has.
SeenUpToNext(w) == Newest(listed[w]) + 1

\* The surface marks what it has, up to the newest row of it.
SeenUpTo(w) == Newest(listed[w])

\* Faulty variant: the caller's word is taken.
MarkedAt(at) == at

\* Never backwards from the mark that was read.
MarkAt(at) == IF at > mark THEN at ELSE mark

\* notify.mark_seen, up to what it read. The surface sends it when its newest row is later
\* than the mark it last heard of, which may be any earlier one.
MarkSeen(w) ==
    /\ Quiet(w) /\ listed[w] # {}
    /\ collided' = Overlapping(w)
    /\ command' = [command EXCEPT ![w] = [op |-> "mark", to |-> MarkAt(SeenUpTo(w))]]
    /\ UNCHANGED <<switches, mark, wished, second, rows, views, door>>

\* set_setting, and the answer: the window takes the daemon's word for all the switches.
WriteSetting(w) ==
    /\ ~Quiet(w)
    /\ IF command[w].op = "switches"
       THEN /\ switches' = command[w].to /\ UNCHANGED mark
            /\ cached' = [cached EXCEPT ![w] = command[w].to]
       ELSE mark' = command[w].to /\ UNCHANGED <<switches, cached>>
    /\ command' = [command EXCEPT ![w] = NoCommand]
    /\ UNCHANGED <<wished, collided, second, rows, listed, door>>

-----------------------------------------------------------------------------
(* A device at the door.                                                    *)

Knock(v) ==
    /\ device[v] = "unknown" /\ device' = [device EXCEPT ![v] = "pending"]
    /\ UNCHANGED <<settings, second, rows, views, banner, said>>

\* post: the event is wanted, and the list says the device is still waiting.
AskDesk(v) ==
    /\ banner[v] = "none" /\ device[v] = "pending" /\ cached[Desk][Asking]
    /\ banner' = [banner EXCEPT ![v] = "asked"]
    /\ UNCHANGED <<settings, second, rows, views, device, said>>

\* The log and the list of apps were read in the meantime; the banner is posted, or the
\* system has none of it and the request stays where it is, in the window.
ShowBanner(v) ==
    /\ banner[v] = "asked"
    /\ \E got \in {"posted", "over"} : banner' = [banner EXCEPT ![v] = got]
    /\ UNCHANGED <<settings, second, rows, views, device, said>>

\* A button is pressed, and the answer is on its way to the daemon; or the banner is
\* dismissed, clicked or cleared.
PressButton(v) ==
    /\ banner[v] = "posted"
    /\ \E answer \in {"approve", "deny", "over", "cleared"} :
        /\ banner' = [banner EXCEPT ![v] = answer]
        /\ said' = IF answer = "approve" THEN said \union {v} ELSE said
    /\ UNCHANGED <<settings, second, rows, views, device>>

\* Faulty variant: an answer that never came is one.
LapseIntoYes(v) ==
    /\ banner[v] \in {"posted", "cleared"}
    /\ banner' = [banner EXCEPT ![v] = "approve"]
    /\ UNCHANGED <<settings, second, rows, views, device, said>>

\* Faulty variant: no timeout: a banner that was cleared is waited for.
LapseUncleared(v) ==
    /\ banner[v] = "posted"
    /\ banner' = [banner EXCEPT ![v] = "over"]
    /\ UNCHANGED <<settings, second, rows, views, device, said>>

\* ANSWER_WITHIN: the only end there is for a banner the owner cleared, which reports nothing.
Lapse(v) ==
    /\ banner[v] \in {"posted", "cleared"}
    /\ banner' = [banner EXCEPT ![v] = "over"]
    /\ UNCHANGED <<settings, second, rows, views, device, said>>

Decision == [approve |-> "approved", deny |-> "revoked"]

Decide(v, answer) ==
    /\ device' = [device EXCEPT ![v] = Decision[answer]]
    /\ LogRow(FALSE)

\* The window passes the button on: the device's status is set, whatever it is by now.
Carry(v) ==
    /\ banner[v] \in DOMAIN Decision /\ Cardinality(rows) < MaxRows
    /\ Decide(v, banner[v])
    /\ banner' = [banner EXCEPT ![v] = "over"]
    /\ UNCHANGED <<settings, second, views, said>>

\* The same two buttons in a window, or the command line.
DecideElsewhere(v) ==
    /\ device[v] # "unknown" /\ Cardinality(rows) < MaxRows
    /\ \E answer \in DOMAIN Decision :
        /\ Decide(v, answer)
        /\ said' = IF answer = "approve" THEN said \union {v} ELSE said
    /\ UNCHANGED <<settings, second, views, banner>>

SettingsNext ==
    \/ Ticks \/ Visited
    \/ \E w \in Window : Refetch(w) \/ SetPrefs(w) \/ MarkSeen(w) \/ WriteSetting(w)

DoorNext ==
    \E v \in Visitor :
        Knock(v) \/ AskDesk(v) \/ ShowBanner(v) \/ PressButton(v) \/ Lapse(v) \/ Carry(v) \/ DecideElsewhere(v)

NoticesNext == SettingsNext \/ DoorNext

NoticesSpec == NoticesInit /\ [][NoticesNext]_noticesVars

\* The five minutes pass, whatever else happens.
NoticesFairSpec == NoticesSpec /\ \A v \in Visitor : WF_noticesVars(Lapse(v))

-----------------------------------------------------------------------------
NoticesTypeOK ==
    /\ {switches, wished} \subseteq [Switch -> BOOLEAN] /\ cached \in [Window -> [Switch -> BOOLEAN]]
    /\ mark \in 0..MaxSeconds /\ second \in 1..MaxSeconds
    /\ rows \subseteq (1..MaxSeconds) \X (1..MaxRows) \X BOOLEAN /\ listed \in [Window -> SUBSET rows]
    /\ DOMAIN command = Window
    /\ \A w \in Window : command[w].op \in {"none", "switches", "mark"}
    /\ device \in [Visitor -> {"unknown", "pending", "approved", "revoked"}]
    /\ banner \in [Visitor -> {"none", "asked", "posted", "cleared", "approve", "deny", "over"}]
    /\ collided \in BOOLEAN /\ said \subseteq Visitor

\* "two windows open on the same daemon would otherwise race, and the one that saved last
\* would silently undo a switch the other had just moved": each switch stands where it was
\* last put, however old the windows' copies are, as long as no two commands overlap.
SwitchesStayPut ==
    ~collided /\ (\A w \in Window : Quiet(w)) => switches = wished

\* The same when they do.
SwitchesAlwaysStayPut ==
    (\A w \in Window : Quiet(w)) => switches = wished

\* "Never backwards. Two windows on one daemon would otherwise let the slower one reopen
\* everything the other had just read", as long as no two commands overlap.
MarkGrows == [][~collided => mark' >= mark]_noticesVars

\* The same when they do.
MarkAlwaysGrows == [][mark' >= mark]_noticesVars

\* Opening the surface "marks it read, at the time of the newest row we actually had - not
\* at now, which would swallow anything logged between the fetch and the write": a row from
\* before the mark is in some window's list, as long as it is among the rows a window keeps.
NothingIsSwallowed ==
    \A r \in Earlier : r[1] < mark => \E w \in Window : r \in listed[w]

\* The same of a row that had too many newer ones beside it to be listed.
NothingOlderIsSwallowed ==
    \A r \in rows : r[1] < mark /\ ~r[3] => \E w \in Window : r \in listed[w]

\* The same of a row from the second of the mark itself.
NothingIsSwallowedThatSecond ==
    \A r \in Earlier : r[1] <= mark => \E w \in Window : r \in listed[w]

\* "a device is let in only by somebody saying so": not by a banner nobody answered.
LetInOnlyBySaying == \A v \in Visitor : device[v] = "approved" => v \in said

\* A request that was answered elsewhere stays answered: the button of a banner that was
\* still up only decides for a device that is still waiting.
AnsweredElsewhereStands ==
    [][\A v \in Visitor : banner[v] \in DOMAIN Decision /\ banner'[v] = "over"
                            => device[v] = "pending" \/ device'[v] = device[v]]_noticesVars

\* No banner is waited for for the life of the process: not even one the owner cleared,
\* for which the system never reports an answer.
BannersEnd == \A v \in Visitor : banner[v] = "cleared" ~> banner[v] # "cleared"

\* What two windows and the daemon do to the owner's notifications undoes nothing of what
\* the other did: a switch stays put, no row is marked seen unseen, nobody is let in by
\* a banner that timed out.
NoticesSafe ==
    /\ NoticesTypeOK
    /\ SwitchesStayPut
    /\ NothingIsSwallowed
    /\ LetInOnlyBySaying
=============================================================================
