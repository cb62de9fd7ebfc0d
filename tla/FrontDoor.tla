------------------------------ MODULE FrontDoor ------------------------------
(***************************************************************************)
(* What a request finds behind the gate: which app a host and a path name,  *)
(* which file of its folder answers, which page stands in for one, and who  *)
(* the owner's window counts as reading.                                    *)
(*                                                                         *)
(* Two apps.  The owner rearranges the folder of the first, changes its     *)
(* settings and watches who reads it; the second is there to be taken for   *)
(* the first.                                                               *)
(***************************************************************************)
EXTENDS Gate, Integers, Sequences

CONSTANTS DoorEdits,    \* bound: changes to the folder and the settings
          DoorVisits    \* bound: pages opened

VARIABLES folder,    \* the first app's folder: what is under each name, at the top and in "sub"
          door,      \* its settings
          fetch,     \* a request for something in the folder, on its way
          reading,   \* who has its page open
          seen,      \* Presence: who the daemon counts
          edits, visits

doorVars == <<folder, door, fetch, reading, seen, edits, visits>>

-----------------------------------------------------------------------------
(* A folder: files, a folder in it, and links that lead out of the app.     *)

Entry  == "index"
Hidden == {"dot"}
Ours   == {"app.json"}
Names  == {Entry, "photo", "sub"} \union Hidden \union Ours

Tree ==
    {t \in [top : [Names -> {"none", "file", "dir", "out"}], sub : [{Entry, "photo"} -> {"none", "file", "out"}]] :
        /\ t.top["app.json"] = "file" /\ t.top["photo"] \in {"none", "file"}
        /\ t.top["dot"] \in {"none", "file"}
        /\ t.top["sub"] \in {"none", "dir", "out"}
        /\ t.sub["photo"] \in {"none", "file"}}

\* The folder of the second app never changes: a page and nothing else.
Other == [top |-> [n \in Names |-> IF n \in {Entry, "app.json"} THEN "file" ELSE "none"],
          sub |-> [n \in {Entry, "photo"} |-> "none"]]

\* What is at a path once every link on the way has been followed.
Node(tree, path) ==
    IF path = <<>> THEN "dir"
    ELSE IF Len(path) = 1 THEN IF path[1] \in Names THEN tree.top[path[1]] ELSE "none"
    ELSE IF path[1] = "sub" /\ path[2] \in {Entry, "photo"}
         THEN IF tree.top["sub"] = "out" THEN "out"
              ELSE IF tree.top["sub"] = "dir" THEN tree.sub[path[2]] ELSE "none"
    ELSE "none"

\* resolve: a path that climbs is refused before anything is looked at.
Resolve(tree, path) ==
    IF \E i \in 1..Len(path) : path[i] = ".." THEN "escapes"
    ELSE CASE Node(tree, path) = "out"  -> "escapes"
           [] Node(tree, path) = "none" -> "nothing"
           [] OTHER                     -> Node(tree, path)

\* Faulty variant: the entry found in a folder is not looked at again.
ResolveFileOnce(tree, path) ==
    IF Resolve(tree, path) # "dir" THEN Resolve(tree, path)
    ELSE IF Node(tree, Append(path, Entry)) \in {"file", "out"} THEN "entry" ELSE "no_entry"

\* resolve_file: a folder stands for the entry in it.
ResolveFile(tree, path) ==
    IF Resolve(tree, path) # "dir" THEN Resolve(tree, path)
    ELSE CASE Node(tree, Append(path, Entry)) = "file" -> "entry"
           [] Node(tree, Append(path, Entry)) = "out"  -> "escapes"
           [] OTHER                                    -> "no_entry"

\* The file a path that resolves to one is read from.
FileAt(tree, path) ==
    IF ResolveFile(tree, path) = "entry" THEN Append(path, Entry) ELSE path

\* What a listing shows of a folder.
Items(tree, path) ==
    {n \in Names \ (Hidden \union Ours) : Node(tree, Append(path, n)) # "none"}

\* Where the links of a listing lead: render makes them relative, so they depend on
\* whether the address the folder was asked for at ends in a slash.
Links(tree, path, slash) ==
    LET base == IF slash \/ path = <<>> THEN path ELSE SubSeq(path, 1, Len(path) - 1)
    IN  {Append(base, n) : n \in Items(tree, path)}
            \union (IF path = <<>> \/ ~slash THEN {} ELSE {SubSeq(path, 1, Len(path) - 1)})

-----------------------------------------------------------------------------
(* Answers.                                                                *)

Answer(status, app, page, path) == [status |-> status, app |-> app, page |-> page, path |-> path]
UnknownPage == Answer(404, "none", "nothing_here", <<>>)
NotFound(app) == Answer(404, app, "not_found", <<>>)

\* serve_app, before its await: what to do about a path, and where.
Lookup(tree, path) ==
    LET found == ResolveFile(tree, path)
    IN  CASE found \in {"file", "entry"} -> [step |-> "open", path |-> FileAt(tree, path)]
          [] found = "no_entry"          -> [step |-> "list", path |-> path]
          [] OTHER                       -> [step |-> "refuse", path |-> <<>>]

\* After it: the file is opened by the path that was checked, whatever is there by then.
Read(tree, app, path) ==
    IF Node(tree, path) \in {"file", "out"} THEN Answer(200, app, "file", path)
    ELSE Answer(500, app, "unreadable", path)

\* A folder is listed only for an app with no entry at all; what it cannot read, it lists
\* as empty.
List(tree, app, path) ==
    IF Node(tree, <<Entry>>) \in {"file", "out"} THEN NotFound(app)
    ELSE Answer(200, app, "listing", path)

\* A request that nobody comes between; a path that is not there and one that leads out
\* get the same answer.
ServeApp(tree, app, path) ==
    LET what == Lookup(tree, path)
    IN  CASE what.step = "open" -> Read(tree, app, what.path)
          [] what.step = "list" -> List(tree, app, what.path)
          [] OTHER              -> NotFound(app)

Folder(app)   == IF app = "first" THEN folder ELSE Other
Settings(app) == IF app = "first" THEN door
                 ELSE [visibility |-> "public", paused |-> FALSE, relay |-> "standard"]

\* Faulty variant: an app that is not published is refused by name.
GuardedByName(app, path, status, ctx) ==
    LET decision == Decide(Settings(app), status, ctx)
    IN  CASE decision = "allow"         -> ServeApp(Folder(app), app, path)
          [] decision = "needs_pairing" -> Answer(200, app, "waiting", <<>>)
          [] decision = "paused"        -> Answer(503, app, "paused", <<>>)
          [] decision = "wrong_network" -> Answer(403, app, "home_app", <<>>)
          [] OTHER                      -> Answer(403, app, "denied", <<>>)

Guarded(app, path, status, ctx) ==
    LET decision == Decide(Settings(app), status, ctx)
    IN  CASE decision = "allow"         -> ServeApp(Folder(app), app, path)
          [] decision = "needs_pairing" -> Answer(200, app, "waiting", <<>>)
          [] decision = "paused"        -> Answer(503, app, "paused", <<>>)
          [] decision = "not_published" -> UnknownPage
          [] decision = "wrong_network" -> Answer(403, app, "home_app", <<>>)
          [] OTHER                      -> Answer(403, app, "denied", <<>>)

\* Library::get_by_hostname: an announced name, or a public one.
HostApp(host) ==
    CASE host \in {"first.local", "first.public"}   -> "first"
      [] host \in {"second.local", "second.public"} -> "second"
      [] OTHER                                      -> "none"

\* Faulty variant: a first segment that is an app's slug names the app on any host.
RoutePrefixFirst(host, path, relayed) ==
    IF path # <<>> /\ path[1] \in {"first", "second"} THEN <<path[1], Tail(path)>>
    ELSE IF HostApp(host) # "none" THEN <<HostApp(host), path>>
    ELSE <<IF path = <<>> /\ ~relayed THEN "index" ELSE "none", <<>>>>

\* root and serve: on an app's own host the whole path is its; elsewhere the first segment
\* names the app, and over the relay nothing does.
Route(host, path, relayed) ==
    IF HostApp(host) # "none" THEN <<HostApp(host), path>>
    ELSE IF relayed THEN <<"none", <<>>>>
    ELSE IF path = <<>> THEN <<"index", <<>>>>
    ELSE IF path[1] \in {"first", "second"} THEN <<path[1], Tail(path)>>
    ELSE <<"none", <<>>>>

Respond(host, path, status, ctx) ==
    LET route == Route(host, path, ctx.relayed)
    IN  CASE route[1] = "index" -> Answer(200, "none", "index", <<>>)
          [] route[1] = "none"  -> IF ctx.relayed THEN UnknownPage ELSE NotFound("none")
          [] OTHER              -> Guarded(route[1], route[2], status, ctx)

-----------------------------------------------------------------------------
(* Who reads.                                                              *)

\* Browsers: the owner's by either address, a phone and a tablet with no session, a paired
\* phone, and a stranger and the paired phone again through the relay.
Browser ==
    {[device |-> "none",   at |-> "this_machine", relayed |-> FALSE],
     [device |-> "none",   at |-> "own_address",  relayed |-> FALSE],
     [device |-> "none",   at |-> "phone",        relayed |-> FALSE],
     [device |-> "none",   at |-> "tablet",       relayed |-> FALSE],
     [device |-> "paired", at |-> "phone",        relayed |-> FALSE],
     [device |-> "none",   at |-> "nowhere",      relayed |-> TRUE],
     [device |-> "paired", at |-> "nowhere",      relayed |-> TRUE]}

PeerOf(b) ==
    [address |-> CASE b.at = "this_machine" -> "loopback"
                   [] b.at = "own_address"  -> "own"
                   [] b.at = "nowhere"      -> "none"
                   [] OTHER                 -> "other",
     relayed |-> b.relayed]

ContextOf(b) == PeerContext(PeerOf(b), TRUE, TRUE)
StatusOf(b)  == IF b.device = "none" THEN "absent" ELSE "approved"
Lets(b)      == Gated(door, StatusOf(b), ContextOf(b)) = "serve"

\* Faulty variant: whoever has no device is the owner.
ViewerIdByDevice(b) == IF b.device # "none" THEN <<"device", b.device>> ELSE <<"owner">>

\* viewer_id: the device; else the address, unless it is the owner's own browser.
ViewerId(b) ==
    IF b.device # "none" THEN <<"device", b.device>>
    ELSE IF b.at \in {"phone", "tablet"} THEN <<"at", b.at>>
    ELSE <<"owner">>

-----------------------------------------------------------------------------
\* was and got: what was at the path when it was checked, and when it was opened or listed.
Resting == [step |-> "idle", path |-> <<>>, was |-> "none", got |-> "none", status |-> 0]

Segments == Names \union {".."}
Paths    == {<<>>} \union {<<a>> : a \in Segments} \union {<<a, b>> : a, b \in Segments}

FrontDoorInit ==
    /\ folder \in {t \in Tree : t.top[Entry] = "none" /\ t.top["sub"] = "dir" /\ t.sub["photo"] = "file"
                             /\ t.top["photo"] = "none" /\ t.top["dot"] = "none"}
    /\ door = [visibility |-> "network", paused |-> FALSE, relay |-> "off"]
    /\ fetch = Resting
    /\ reading = {} /\ seen = {}
    /\ edits = 0 /\ visits = 0

\* The owner adds, takes away or replaces one thing in the folder.  Who reads does not
\* depend on it, so no page is opened afterwards (a bound).
RearrangeFolder ==
    /\ edits < DoorEdits /\ edits' = edits + 1
    /\ visits' = DoorVisits /\ reading = {}
    /\ \E n \in Names, kind \in {"none", "file", "dir", "out"} :
          folder' = [folder EXCEPT !.top[n] = kind]
    /\ folder' \in Tree
    /\ UNCHANGED <<door, fetch, reading, seen>>

ChangeSettings ==
    /\ edits < DoorEdits /\ edits' = edits + 1
    /\ \E v \in Visibility, p \in BOOLEAN, r \in {"off", "standard"} :
          door' = [visibility |-> v, paused |-> p, relay |-> r]
    /\ UNCHANGED <<folder, fetch, reading, seen, visits>>

\* A request the gate lets through: the path is checked (no page is opened afterwards, the
\* same bound) ...
Ask(path) ==
    LET what == Lookup(folder, path)
    IN  /\ fetch.step \in {"idle", "done"}
        /\ reading = {} /\ visits' = DoorVisits
        /\ \E b \in Browser : Lets(b)
        /\ fetch' = IF what.step = "refuse" THEN [Resting EXCEPT !.step = "done", !.status = 404]
                    ELSE [Resting EXCEPT !.step = what.step, !.path = what.path,
                                         !.was = Node(folder, what.path)]
        /\ UNCHANGED <<folder, door, reading, seen, edits>>

\* ... and answered, from the folder as it is by then.
Finish ==
    LET answer == IF fetch.step = "open" THEN Read(folder, "first", fetch.path)
                  ELSE List(folder, "first", fetch.path)
    IN  /\ fetch.step \in {"open", "list"}
        /\ fetch' = [fetch EXCEPT !.step = "done", !.got = Node(folder, fetch.path),
                                  !.status = answer.status]
        /\ UNCHANGED <<folder, door, reading, seen, edits, visits>>

\* beat and gone are not told apart by the app's host: they name the app themselves.
OpenPage(b) ==
    /\ visits < DoorVisits /\ visits' = visits + 1
    /\ b \notin reading /\ Lets(b)
    /\ reading' = reading \union {b}
    /\ seen' = seen \union {ViewerId(b)}
    /\ UNCHANGED <<folder, door, fetch, edits>>

\* Faulty variant: a later check-in is filed under a name of its own.
BeatAgainElsewhere(b) ==
    /\ b \in reading
    /\ seen' = IF Lets(b) THEN seen \union {<<"at", b.device>>} ELSE seen
    /\ UNCHANGED <<folder, door, fetch, reading, edits, visits>>

BeatAgain(b) ==
    /\ b \in reading
    /\ seen' = IF Lets(b) THEN seen \union {ViewerId(b)} ELSE seen
    /\ UNCHANGED <<folder, door, fetch, reading, edits, visits>>

\* A goodbye is believed whoever sends it.
ClosePage(b) ==
    /\ b \in reading
    /\ reading' = reading \ {b}
    /\ seen' = seen \ {ViewerId(b)}
    /\ UNCHANGED <<folder, door, fetch, edits, visits>>

FrontDoorNext ==
    \/ RearrangeFolder \/ ChangeSettings
    \/ Finish \/ \E path \in Paths : Ask(path)
    \/ \E b \in Browser : OpenPage(b) \/ BeatAgain(b) \/ ClosePage(b)

FrontDoorSpec == FrontDoorInit /\ [][FrontDoorNext]_doorVars

-----------------------------------------------------------------------------
WebPaths == {<<>>} \union {<<a>> : a \in {"first", "second", "sub"}}
                  \union {<<a, b>> : a \in {"first", "second", "sub"}, b \in {"second", Entry}}
Hosts    == {"first.local", "first.public", "second.local", "second.public", "elsewhere"}

NodeKind == {"none", "file", "dir", "out"}

FrontDoorTypeOK ==
    /\ folder \in Tree /\ door \in App
    /\ fetch \in [step : {"idle", "open", "list", "done"}, path : Seq(Segments), was : NodeKind,
                  got : NodeKind, status : {0, 200, 404, 500}]
    /\ reading \subseteq Browser /\ seen \subseteq {ViewerId(b) : b \in Browser}

\* paths.rs: "Every served path is canonicalised and checked to still be inside the app
\* root, and symlinks pointing outside the folder are refused".  What is served from outside
\* was put in the place of what was checked, between the check and the answer.
NothingOutsideIsServed ==
    fetch.step = "done" /\ fetch.status = 200 => fetch.got # "out" \/ fetch.was # "out"

\* The same without the exception: the file is opened, by its path, after an await.
NothingOutsideIsEverServed == fetch.step = "done" /\ fetch.status = 200 => fetch.got # "out"

ListingOpens(path, slash) ==
    ServeApp(folder, "first", path).page = "listing" =>
        \A link \in Links(folder, path, slash) :
            \/ ResolveFile(folder, link) = "escapes"
            \/ ServeApp(folder, "first", link).status = 200

\* What a listing offers opens, at every depth, unless it leads out of the folder, when the
\* folder was asked for as the listings themselves ask for it, with a slash.
ListedOpens == \A path \in Paths : ListingOpens(path, TRUE)

\* The same for a folder asked for without the slash: build routes all three spellings to
\* one answer, whose links then lead one folder too high.
ListedOpensAnyhow == \A path \in Paths : ListingOpens(path, FALSE)

\* A folder is shown as a list only while the app has no page of its own: `assets/` of an
\* ordinary web app is never browsable.
ListedOnlyWithoutAPage ==
    (\E path \in Paths : ServeApp(folder, "first", path).page = "listing")
        => ServeApp(folder, "first", <<>>).page # "file"

\* Over the relay an app is named by the host and by nothing else; on an app's own host no
\* path is a way into another (serve).
HostNamesTheApp ==
    \A host \in Hosts, path \in WebPaths, b \in Browser :
        LET answer == Respond(host, path, StatusOf(b), ContextOf(b))
        IN  (b.relayed \/ HostApp(host) # "none") => answer.app \in {HostApp(host), "none"}
                                                     /\ answer.page # "index"

\* To the relay an app that is not published is like a host nobody has claimed, whatever
\* is asked of it and whoever asks, unless it is paused.
UnpublishedIsUnknown ==
    \A path \in WebPaths, b \in {x \in Browser : x.relayed} :
        (door.relay = "off" /\ ~door.paused) =>
            Respond("first.public", path, StatusOf(b), ContextOf(b))
                = Respond("elsewhere", path, StatusOf(b), ContextOf(b))

\* The same with no exception (pages.rs, not_found: "indistinguishable from outside").
UnpublishedIsAlwaysUnknown ==
    \A path \in WebPaths, b \in {x \in Browser : x.relayed} :
        door.relay = "off" =>
            Respond("first.public", path, StatusOf(b), ContextOf(b))
                = Respond("elsewhere", path, StatusOf(b), ContextOf(b))

\* At home, a goodbye takes one reader off the list: whoever else has the page open and is
\* counted stays counted, unless it is the same device or the same machine.
GoodbyeIsOnesOwn ==
    [][\A b \in Browser, c \in reading \intersect reading' :
          (/\ b \in reading \ reading' /\ ~b.relayed /\ ~c.relayed
           /\ ViewerId(c) \in seen
           /\ b.at # c.at /\ {b.at, c.at} # {"this_machine", "own_address"})
          => ViewerId(c) \in seen']_doorVars

\* The same of everyone.  A stranger with no session has no address, and is counted as the
\* owner's own browser.
GoodbyeIsAlwaysOnesOwn ==
    [][\A b \in Browser, c \in reading \intersect reading' :
          (/\ b \in reading \ reading' /\ ViewerId(c) \in seen
           /\ b.device = "none" \/ c.device = "none"
           /\ b.at # c.at /\ {b.at, c.at} # {"this_machine", "own_address"})
          => ViewerId(c) \in seen']_doorVars

\* What the server shows of its folders and apps is what it opens: a listing against the
\* request it invites, a host against the app it names, the relay against what is published.
FrontDoorSafe ==
    /\ FrontDoorTypeOK
    /\ ListedOpens
    /\ ListedOnlyWithoutAPage
    /\ HostNamesTheApp
    /\ UnpublishedIsUnknown
=============================================================================
