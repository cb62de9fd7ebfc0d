----------------------------- MODULE GateProofs -----------------------------
(***************************************************************************)
(* What holds of every request the gate can be asked about, and of what it  *)
(* finds behind the gate, however long the owner goes on editing.          *)
(***************************************************************************)
EXTENDS GateRequests, FrontDoor, SequenceTheorems, TLAPS

-----------------------------------------------------------------------------
(* The gate.                                                               *)

\* Requests, apps and devices keep their types.
LEMMA GateTypes == Spec => []TypeOK
<1> USE DEF TypeOK, Peer, WellFormed
<1>1. Init => TypeOK
  BY DEF Init
<1>2. TypeOK /\ [Next]_vars => TypeOK'
  BY DEF Next, vars, OwnerEditsApp, OwnerJudges, AnotherRequest
<1> QED BY <1>1, <1>2, PTL DEF Spec

\* When the gate lets a request through, in terms of what the request is.
LEMMA WhenAllowed ==
    ASSUME TypeOK, NEW p \in Peer, NEW o \in BOOLEAN
    PROVE  Allowed(p, o) <=>
             /\ ~app.paused
             /\ p.relayed => app.relay # "off"
             /\ status # "revoked"
             /\ LET near == ~p.relayed /\ IsLoopback(p.address, o)
                IN  \/ near
                    \/ app.visibility = "private" /\ status = "owner"
                    \/ app.visibility = "network" /\ ~p.relayed /\ household
                    \/ app.visibility = "invited" /\ status = "approved"
                    \/ app.visibility = "public"
<1> DEFINE ctx == PeerContext(p, household, o)
<1>1. /\ ctx.household = (~p.relayed /\ household) /\ ctx.relayed = p.relayed
      /\ ctx.loopback = (~p.relayed /\ IsLoopback(p.address, o))
  BY Zenon DEF PeerContext
<1>2. /\ app.visibility \in {"private", "network", "invited", "public"}
      /\ app.paused \in BOOLEAN /\ app.relay \in RelayMode /\ status \in DeviceStatus
  BY DEF TypeOK, App, Visibility
<1> HIDE DEF ctx
<1>3. LevelRule(app.visibility, status, ctx) = "allow" <=>
          \/ ctx.loopback
          \/ app.visibility = "private" /\ status = "owner"
          \/ app.visibility = "network" /\ ctx.household
          \/ app.visibility = "invited" /\ status = "approved"
          \/ app.visibility = "public"
  BY <1>2 DEF LevelRule
<1>4. Decide(app, status, ctx) = "allow" <=>
          /\ ~app.paused /\ (ctx.relayed => app.relay # "off") /\ status # "revoked"
          /\ LevelRule(app.visibility, status, ctx) = "allow"
  BY <1>2 DEF Decide, IsPublished
<1>5. Allowed(p, o) <=> Decide(app, status, ctx) = "allow"
  BY DEF Allowed, ctx
<1> QED BY <1>1, <1>3, <1>4, <1>5

Relayed == [address |-> "none", relayed |-> TRUE]
AtHome(address) == [address |-> address, relayed |-> FALSE]

\* Whatever an app's owner has set, arriving by the relay, the own-address switch, a cookie
\* and a revocation only ever take trust away (RequestContext::arrived_by_relay, kt-auth).
THEOREM TrustIsNeverAdded == Spec => []TrustIsOnlyTakenAway
<1>1. ASSUME TypeOK PROVE RelayOnlyTakesTrustAway
  <2> SUFFICES ASSUME NEW address \in Address, Allowed(Relayed, own)
               PROVE  Allowed(AtHome(address), own)
    BY DEF RelayOnlyTakesTrustAway, Relayed, AtHome
  <2>1. Relayed \in Peer /\ AtHome(address) \in Peer /\ own \in BOOLEAN
    BY <1>1 DEF Peer, Address, Relayed, AtHome, TypeOK
  <2>2. Relayed.relayed = TRUE /\ AtHome(address).relayed = FALSE
    BY DEF Relayed, AtHome
  <2> HIDE DEF Relayed, AtHome
  <2> QED BY <1>1, <2>1, <2>2, WhenAllowed
<1>2. ASSUME TypeOK PROVE OwnAddressSwitchOnlyRefuses
  <2> SUFFICES ASSUME Allowed(peer, FALSE) PROVE Allowed(peer, TRUE)
    BY DEF OwnAddressSwitchOnlyRefuses
  <2>1. peer \in Peer
    BY <1>2 DEF TypeOK
  <2>2. IsLoopback(peer.address, FALSE) => IsLoopback(peer.address, TRUE)
    BY DEF IsLoopback
  <2> QED BY <1>2, <2>1, <2>2, WhenAllowed
<1>3. ASSUME TypeOK PROVE CookieIsIdleWithoutSession
  <2> SUFFICES ASSUME ~RequiresSession(app.visibility), status # "revoked", NEW ctx
               PROVE  Decide(app, status, ctx) = Decide(app, "absent", ctx)
    BY Zenon DEF CookieIsIdleWithoutSession
  <2>1. app.visibility \in {"network", "public"}
    BY <1>3 DEF RequiresSession, TypeOK, App, Visibility
  <2> QED BY <2>1 DEF Decide, LevelRule
<1>4. ASSUME TypeOK PROVE RevokedIsRefusedEverywhere
  <2>1. peer \in Peer /\ own \in BOOLEAN
    BY <1>4 DEF TypeOK
  <2> QED BY <1>4, <2>1, WhenAllowed DEF RevokedIsRefusedEverywhere
<1>5. TypeOK => TrustIsOnlyTakenAway
  BY <1>1, <1>2, <1>3, <1>4 DEF TrustIsOnlyTakenAway
<1> QED BY <1>5, GateTypes, PTL

\* App::public_url advertises an address exactly where the gate answers a relayed request.
THEOREM AdvertisedIsAlwaysServed == Spec => []AdvertisedIsServed
<1>1. ASSUME TypeOK PROVE AdvertisedIsServed
  <2>1. /\ app.visibility \in {"private", "network", "invited", "public"} /\ app.paused \in BOOLEAN
        /\ own \in BOOLEAN
    BY <1>1 DEF TypeOK, App, Visibility
  <2>2. Relayed \in Peer /\ Relayed.relayed = TRUE
    BY DEF Peer, Address, Relayed
  <2>3. (Allowed(Relayed, own) /\ status # "owner")
           => IsPublished(app.relay) /\ ReachableOverRelay(app.visibility)
    <3> HIDE DEF Relayed
    <3>1. Allowed(Relayed, own) =>
            /\ app.relay # "off"
            /\ \/ app.visibility = "private" /\ status = "owner"
               \/ app.visibility \in {"invited", "public"}
      BY <1>1, <2>1, <2>2, WhenAllowed
    <3> QED BY <3>1 DEF IsPublished, ReachableOverRelay
  <2>4. (IsPublished(app.relay) /\ ReachableOverRelay(app.visibility) /\ ~app.paused)
           => Decide(app, "approved", PeerContext(Relayed, household, own)) = "allow"
    <3> HIDE DEF Relayed
    <3> QED BY <2>1, <2>2 DEF Decide, LevelRule, ReachableOverRelay, PeerContext
  <2> QED BY <2>3, <2>4 DEF AdvertisedIsServed, Relayed
<1> QED BY <1>1, GateTypes, PTL

-----------------------------------------------------------------------------
(* Behind the gate.                                                        *)

\* So do the folder and the settings, to begin with.
LEMMA DoorTypesInit == FrontDoorInit => FrontDoorTypeOK
BY DEF FrontDoorInit, FrontDoorTypeOK, App, Visibility, RelayMode, Resting, NodeKind

\* The browsers that come by the local network; only the phone has been paired.
LEMMA BrowsersAtHome ==
    \A b \in Browser : ~b.relayed =>
        /\ b.at \in {"this_machine", "own_address", "phone", "tablet"}
        /\ b.device \in {"none", "paired"} /\ (b.device = "paired" => b.at = "phone")
BY DEF Browser

\* What there can be at a path of any length.
LEMMA NodeKinds ==
    ASSUME NEW tree \in Tree, NEW path
    PROVE  Node(tree, path) \in {"none", "file", "dir", "out"}
<1>1. /\ tree.top \in [Names -> {"none", "file", "dir", "out"}]
      /\ tree.sub \in [{Entry, "photo"} -> {"none", "file", "out"}]
      /\ "sub" \in Names
  BY DEF Tree, Names
<1>2. tree.top["sub"] \in {"none", "dir", "out"}
  BY DEF Tree
<1> HIDE DEF Names, Tree
<1>3. CASE path = <<>>
  BY <1>3 DEF Node
<1>4. CASE path # <<>> /\ Len(path) = 1
  BY <1>1, <1>4 DEF Node
<1>5. CASE path # <<>> /\ Len(path) # 1 /\ path[1] = "sub" /\ path[2] \in {Entry, "photo"}
  BY <1>1, <1>2, <1>5 DEF Node
<1>6. CASE path # <<>> /\ Len(path) # 1 /\ ~(path[1] = "sub" /\ path[2] \in {Entry, "photo"})
  BY <1>6 DEF Node
<1> QED BY <1>3, <1>4, <1>5, <1>6

Climbs(path) == \E i \in 1..Len(path) : path[i] = ".."

\* What the server answers, by what is at the path and at the entry below it.
LEMMA Answers ==
    ASSUME NEW tree \in Tree, NEW path, NEW name
    PROVE  LET here   == Node(tree, path)
               below  == Node(tree, Append(path, Entry))
               front  == Node(tree, <<Entry>>)
               answer == ServeApp(tree, name, path)
           IN  /\ Climbs(path) \/ here \in {"none", "out"} => answer = NotFound(name)
               /\ ~Climbs(path) /\ here = "out" => ResolveFile(tree, path) = "escapes"
               /\ ~Climbs(path) /\ here = "file" => answer = Answer(200, name, "file", path)
               /\ ~Climbs(path) /\ here = "dir" =>
                    /\ below = "file" => answer = Answer(200, name, "file", Append(path, Entry))
                    /\ below = "out" => /\ ResolveFile(tree, path) = "escapes"
                                        /\ answer = NotFound(name)
                    /\ below \notin {"file", "out"} =>
                         answer = IF front \notin {"file", "out"}
                                  THEN Answer(200, name, "listing", path) ELSE NotFound(name)
<1> DEFINE here  == Node(tree, path)
           below == Node(tree, Append(path, Entry))
           front == Node(tree, <<Entry>>)
           found == ResolveFile(tree, path)
<1>1. here \in {"none", "file", "dir", "out"}
  BY NodeKinds
<1>2. ServeApp(tree, name, path) =
         CASE found \in {"file", "entry"} -> Read(tree, name, FileAt(tree, path))
           [] found = "no_entry" -> List(tree, name, path)
           [] OTHER -> NotFound(name)
  <2>1. CASE found \in {"file", "entry"}
    BY <2>1 DEF ServeApp, Lookup
  <2>2. CASE found = "no_entry"
    BY <2>2 DEF ServeApp, Lookup
  <2>3. CASE found \notin {"file", "entry", "no_entry"}
    <3>1. Lookup(tree, path).step = "refuse"
      BY <2>3 DEF Lookup
    <3> QED BY <2>3, <3>1 DEF ServeApp
  <2> QED BY <2>1, <2>2, <2>3
<1>7. /\ List(tree, name, path) = IF front \notin {"file", "out"} THEN Answer(200, name, "listing", path) ELSE NotFound(name)
      /\ here = "file" => Read(tree, name, path) = Answer(200, name, "file", path)
      /\ below = "file" => Read(tree, name, Append(path, Entry)) = Answer(200, name, "file", Append(path, Entry))
  BY Zenon DEF Read, List
<1>3. found = IF Resolve(tree, path) # "dir" THEN Resolve(tree, path)
              ELSE CASE below = "file" -> "entry" [] below = "out" -> "escapes" [] OTHER -> "no_entry"
  BY Zenon DEF ResolveFile
<1>4. Resolve(tree, path) = IF Climbs(path) THEN "escapes"
                            ELSE CASE here = "out" -> "escapes" [] here = "none" -> "nothing"
                                   [] OTHER -> here
  BY Zenon DEF Resolve, Climbs
<1>5. FileAt(tree, path) = IF found = "entry" THEN Append(path, Entry) ELSE path
  BY Zenon DEF FileAt
<1> HIDE DEF here, below, front, found
<1>6. /\ Climbs(path) \/ here \in {"none", "out"} => ServeApp(tree, name, path) = NotFound(name)
      /\ ~Climbs(path) /\ here = "out" => found = "escapes"
      /\ ~Climbs(path) /\ here = "file" => ServeApp(tree, name, path) = Answer(200, name, "file", path)
      /\ ~Climbs(path) /\ here = "dir" =>
           /\ below = "file" => ServeApp(tree, name, path) = Answer(200, name, "file", Append(path, Entry))
           /\ below = "out" => found = "escapes" /\ ServeApp(tree, name, path) = NotFound(name)
           /\ below \notin {"file", "out"} =>
                ServeApp(tree, name, path) = IF front \notin {"file", "out"}
                         THEN Answer(200, name, "listing", path) ELSE NotFound(name)
  <2> HIDE DEF Climbs
  <2>1. CASE Climbs(path)
    BY <1>2, <1>3, <1>4, <2>1
  <2>2. CASE ~Climbs(path) /\ here = "none"
    BY <1>2, <1>3, <1>4, <2>2
  <2>3. CASE ~Climbs(path) /\ here = "out"
    BY <1>2, <1>3, <1>4, <2>3
  <2>4. CASE ~Climbs(path) /\ here = "file"
    BY <1>2, <1>3, <1>4, <1>5, <1>7, <2>4
  <2>5. CASE ~Climbs(path) /\ here = "dir"
    BY <1>2, <1>3, <1>4, <1>5, <1>7, <2>5
  <2> QED BY <1>1, <2>1, <2>2, <2>3, <2>4, <2>5
<1> QED BY <1>6 DEF here, below, front, found

\* The front page of the app is at the top of its folder.
LEMMA Front == \A tree : Node(tree, <<>>) = "dir" /\ ~Climbs(<<>>) /\ Append(<<>>, Entry) = <<Entry>>
<1>1. Append(<<>>, Entry) = <<Entry>>
  BY DEF Entry
<1> QED BY <1>1 DEF Node, Climbs

\* Every path a request spells is a sequence of segments.
LEMMA PathsAreSequences == Paths \subseteq Seq(Segments)
<1> SUFFICES ASSUME NEW path \in Paths PROVE path \in Seq(Segments)
  OBVIOUS
<1>1. \A a \in Segments, b \in Segments : <<a>> \in Seq(Segments) /\ <<a, b>> \in Seq(Segments)
  <2> HIDE DEF Segments
  <2> QED OBVIOUS
<1>2. <<>> \in Seq(Segments)
  OBVIOUS
<1> HIDE DEF Segments
<1>3. CASE path = <<>>
  BY <1>2, <1>3
<1>4. CASE path \in {<<a>> : a \in Segments}
  BY <1>1, <1>4
<1>5. CASE path \in {<<a, b>> : a, b \in Segments}
  <2>1. PICK a, b \in Segments : path = <<a, b>>
    BY <1>5
  <2> QED BY <1>1, <2>1
<1> QED BY <1>3, <1>4, <1>5 DEF Paths

\* What is checked and let through is inside the folder.
LEMMA CheckedIsInside ==
    ASSUME NEW tree \in Tree, NEW path \in Seq(Segments), Lookup(tree, path).step # "refuse"
    PROVE  /\ Lookup(tree, path).step \in {"open", "list"}
           /\ Lookup(tree, path).path \in Seq(Segments)
           /\ Node(tree, Lookup(tree, path).path) \in {"file", "dir"}
<1> DEFINE found == ResolveFile(tree, path)
<1>1. Node(tree, path) \in {"none", "file", "dir", "out"}
  BY NodeKinds
<1>2. Append(path, Entry) \in Seq(Segments)
  BY DEF Segments, Names
<1> HIDE DEF Tree
<1>3. CASE found = "file"
  <2>1. Node(tree, path) = "file"
    BY <1>1, <1>3 DEF ResolveFile, Resolve
  <2> QED BY <1>3, <2>1 DEF Lookup, FileAt
<1>4. CASE found = "entry"
  <2>1. Node(tree, Append(path, Entry)) = "file"
    BY <1>1, <1>4 DEF ResolveFile, Resolve
  <2> QED BY <1>2, <1>4, <2>1 DEF Lookup, FileAt
<1>5. CASE found = "no_entry"
  <2>1. Node(tree, path) = "dir"
    BY <1>1, <1>5 DEF ResolveFile, Resolve
  <2> QED BY <1>5, <2>1 DEF Lookup
<1>6. found \in {"file", "entry", "no_entry"}
  BY DEF Lookup
<1> QED BY <1>3, <1>4, <1>5, <1>6

\* And through every request, change and visit.
LEMMA DoorTypesStep == FrontDoorTypeOK /\ [FrontDoorNext]_doorVars => FrontDoorTypeOK'
<1> SUFFICES ASSUME FrontDoorTypeOK, [FrontDoorNext]_doorVars PROVE FrontDoorTypeOK'
  OBVIOUS
<1>1. CASE RearrangeFolder
  BY <1>1 DEF RearrangeFolder, FrontDoorTypeOK
<1>2. CASE ChangeSettings
  BY <1>2 DEF ChangeSettings, FrontDoorTypeOK, App, RelayMode
<1>5. ASSUME NEW path \in Paths, Ask(path) PROVE FrontDoorTypeOK'
  <2> DEFINE what == Lookup(folder, path)
  <2>1. path \in Seq(Segments) /\ folder \in Tree
    BY <1>5, PathsAreSequences DEF FrontDoorTypeOK
  <2>2. fetch' \in [step : {"idle", "open", "list", "done"}, path : Seq(Segments), was : NodeKind,
                    got : NodeKind, status : {0, 200, 404, 500}]
    <3>1. CASE what.step = "refuse"
      <4>1. fetch' = [step |-> "done", path |-> <<>>, was |-> "none", got |-> "none", status |-> 404]
        BY <1>5, <3>1 DEF Ask, Resting
      <4>2. <<>> \in Seq(Segments)
        OBVIOUS
      <4> HIDE DEF Segments
      <4> QED BY <4>1, <4>2 DEF NodeKind
    <3>2. CASE what.step # "refuse"
      <4>1. what.step \in {"open", "list"} /\ what.path \in Seq(Segments) /\ Node(folder, what.path) \in NodeKind
        BY <2>1, <3>2, CheckedIsInside DEF NodeKind
      <4> HIDE DEF what
      <4>2. fetch' = [Resting EXCEPT !.step = what.step, !.path = what.path, !.was = Node(folder, what.path)]
        BY <1>5, <3>2 DEF Ask, what
      <4> QED BY <4>1, <4>2 DEF Resting, NodeKind
    <3> QED BY <3>1, <3>2
  <2> HIDE DEF Browser, ViewerId, Tree
  <2> QED BY <1>5, <2>2 DEF Ask, FrontDoorTypeOK
<1>6. CASE Finish
  <2>1. Node(folder, fetch.path) \in NodeKind
    BY NodeKinds DEF FrontDoorTypeOK, NodeKind
  <2>2. PICK answer \in {Read(folder, "first", fetch.path), List(folder, "first", fetch.path)} :
          fetch' = [fetch EXCEPT !.step = "done", !.got = Node(folder, fetch.path), !.status = answer.status]
    BY <1>6 DEF Finish
  <2>3. answer.status \in {200, 404, 500}
    BY <2>2 DEF Read, List, Answer, NotFound
  <2> DEFINE got == Node(folder, fetch.path)
             code == answer.status
  <2>4. got \in NodeKind /\ code \in {0, 200, 404, 500} /\ fetch' = [fetch EXCEPT !.step = "done", !.got = got, !.status = code]
    BY <2>1, <2>2, <2>3
  <2> HIDE DEF got, code, Browser, ViewerId, Tree, Segments, NodeKind, App
  <2>5. "done" \in {"idle", "open", "list", "done"}
    OBVIOUS
  <2>6. fetch' \in [step : {"idle", "open", "list", "done"}, path : Seq(Segments), was : NodeKind,
                    got : NodeKind, status : {0, 200, 404, 500}]
    <3>1. fetch.path \in Seq(Segments) /\ fetch.was \in NodeKind
          /\ fetch = [step |-> fetch.step, path |-> fetch.path, was |-> fetch.was, got |-> fetch.got, status |-> fetch.status]
      BY DEF FrontDoorTypeOK
    <3>2. fetch' = [step |-> "done", path |-> fetch.path, was |-> fetch.was, got |-> got, status |-> code]
      BY <2>4, <3>1
    <3> QED BY <2>4, <2>5, <3>1, <3>2
  <2>7. UNCHANGED <<folder, door, reading, seen>>
    BY <1>6 DEF Finish
  <2> QED BY <2>6, <2>7 DEF FrontDoorTypeOK
<1>3. ASSUME NEW b \in Browser, OpenPage(b) \/ BeatAgain(b) \/ ClosePage(b) PROVE FrontDoorTypeOK'
  <2>1. UNCHANGED <<folder, door, fetch>>
    BY <1>3 DEF OpenPage, BeatAgain, ClosePage
  <2>2. reading' \subseteq Browser /\ seen' \subseteq {ViewerId(c) : c \in Browser}
    <3> HIDE DEF Browser, ViewerId
    <3> QED BY <1>3 DEF OpenPage, BeatAgain, ClosePage, FrontDoorTypeOK
  <2> HIDE DEF Browser, ViewerId
  <2> QED BY <2>1, <2>2 DEF FrontDoorTypeOK
<1>4. CASE UNCHANGED doorVars
  BY <1>4 DEF doorVars, FrontDoorTypeOK
<1> QED BY <1>1, <1>2, <1>3, <1>4, <1>5, <1>6 DEF FrontDoorNext

\* At home, a goodbye takes one reader off the list (Presence, kt-server): whoever else has
\* the page open and is counted stays counted, through any number of settings and visits.
THEOREM GoodbyeStaysOnesOwn == FrontDoorSpec => GoodbyeIsOnesOwn
<1>1. ASSUME FrontDoorTypeOK, [FrontDoorNext]_doorVars,
             NEW b \in Browser, NEW c \in reading \intersect reading',
             b \in reading \ reading', ~b.relayed, ~c.relayed, ViewerId(c) \in seen,
             b.at # c.at, {b.at, c.at} # {"this_machine", "own_address"}
      PROVE  ViewerId(c) \in seen'
  <2>1. ClosePage(b)
    <3>1. PICK d \in Browser : ClosePage(d)
      BY <1>1 DEF FrontDoorNext, RearrangeFolder, ChangeSettings, Ask, Finish, OpenPage, BeatAgain, doorVars
    <3> QED BY <1>1, <3>1 DEF ClosePage
  <2>2. c \in Browser
    BY <1>1 DEF FrontDoorTypeOK
  <2>3. ViewerId(b) # ViewerId(c)
    <3>1. b.at \in {"this_machine", "own_address", "phone", "tablet"}
          /\ b.device \in {"none", "paired"} /\ (b.device = "paired" => b.at = "phone")
      BY <1>1, BrowsersAtHome
    <3>2. c.at \in {"this_machine", "own_address", "phone", "tablet"}
          /\ c.device \in {"none", "paired"} /\ (c.device = "paired" => c.at = "phone")
      BY <1>1, <2>2, BrowsersAtHome
    <3> QED BY <1>1, <3>1, <3>2 DEF ViewerId
  <2> QED BY <1>1, <2>1, <2>3 DEF ClosePage
<1>2. FrontDoorTypeOK /\ [FrontDoorNext]_doorVars =>
        [\A b \in Browser, c \in reading \intersect reading' :
          (/\ b \in reading \ reading' /\ ~b.relayed /\ ~c.relayed
           /\ ViewerId(c) \in seen
           /\ b.at # c.at /\ {b.at, c.at} # {"this_machine", "own_address"})
          => ViewerId(c) \in seen']_doorVars
  <2> HIDE DEF Browser
  <2> QED BY <1>1
<1> QED BY <1>2, DoorTypesInit, DoorTypesStep, PTL DEF FrontDoorSpec, GoodbyeIsOnesOwn

\* A folder that is listed has nothing for an entry, and the app none either.
LEMMA WhenListed ==
    ASSUME NEW tree \in Tree, NEW path, NEW name, ServeApp(tree, name, path).page = "listing"
    PROVE  /\ Node(tree, path) = "dir" /\ ~Climbs(path)
           /\ Node(tree, <<Entry>>) \notin {"file", "out"}
<1>1. Node(tree, path) \in {"none", "file", "dir", "out"}
  BY NodeKinds
<1>2. \A st, page, at : Answer(st, name, page, at).page = page
  BY DEF Answer
<1>3. NotFound(name).page # "listing"
  BY DEF NotFound, Answer
<1> HIDE DEF Tree
<1> QED BY <1>1, <1>2, <1>3, Answers

\* What is there, and is not reached by climbing, opens where an app has no entry.
LEMMA WhatIsThereOpens ==
    ASSUME NEW tree \in Tree, NEW link, NEW name, ~Climbs(link), Node(tree, link) # "none",
           Node(tree, <<Entry>>) \notin {"file", "out"}
    PROVE  ResolveFile(tree, link) = "escapes" \/ ServeApp(tree, name, link).status = 200
<1>1. Node(tree, link) \in {"none", "file", "dir", "out"}
  BY NodeKinds
<1>2. \A page, at : Answer(200, name, page, at).status = 200
  BY DEF Answer
<1> HIDE DEF Tree
<1> QED BY <1>1, <1>2, Answers

\* A folder of the first app that may be listed is the app itself or one at its top.
LEMMA OnlyTheTopIsListed ==
    ASSUME NEW tree \in Tree, NEW path \in Paths, Node(tree, path) = "dir"
    PROVE  path = <<>> \/ \E a \in Names : path = <<a>>
<1>1. tree.sub \in [{Entry, "photo"} -> {"none", "file", "out"}]
  BY DEF Tree
<1>2. ASSUME NEW a, NEW b, path = <<a, b>> PROVE FALSE
  <2>1. path # <<>> /\ Len(path) = 2 /\ path[2] = b
    BY <1>2
  <2> QED BY <1>1, <2>1 DEF Node
<1>3. ASSUME NEW a, a \notin Names, path = <<a>> PROVE FALSE
  <2>1. path # <<>> /\ Len(path) = 1 /\ path[1] = a
    BY <1>3
  <2> QED BY <1>3, <2>1 DEF Node
<1> QED BY <1>2, <1>3 DEF Paths

\* paths.rs: "Every served path is canonicalised and checked to still be inside the app
\* root": what a check lets through was inside when it was checked, so that whatever is served
\* from outside was put in its place afterwards, before the file was opened.
THEOREM OutsideIsOnlySwappedIn == FrontDoorSpec => []NothingOutsideIsServed
<1> DEFINE Checked == fetch.was # "out"
<1>1. FrontDoorInit => Checked
  BY DEF FrontDoorInit, Resting
<1>2. FrontDoorTypeOK /\ Checked /\ [FrontDoorNext]_doorVars => Checked'
  <2> SUFFICES ASSUME FrontDoorTypeOK, Checked, [FrontDoorNext]_doorVars PROVE Checked'
    OBVIOUS
  <2>1. ASSUME NEW path \in Paths, Ask(path) PROVE Checked'
    <3> DEFINE what == Lookup(folder, path)
    <3>1. path \in Seq(Segments) /\ folder \in Tree
      BY PathsAreSequences DEF FrontDoorTypeOK
    <3>2. CASE what.step = "refuse"
      BY <2>1, <3>2 DEF Ask, Resting
    <3>3. CASE what.step # "refuse"
      <4>1. Node(folder, what.path) \in {"file", "dir"}
        BY <3>1, <3>3, CheckedIsInside
      <4>2. fetch'.was = Node(folder, what.path)
        <5> HIDE DEF what
        <5> QED BY <2>1, <3>3 DEF Ask, Resting, what
      <4> QED BY <4>1, <4>2
    <3> QED BY <3>2, <3>3
  <2>2. CASE Finish
    <3>1. fetch'.was = fetch.was
      BY <2>2 DEF Finish, FrontDoorTypeOK
    <3> QED BY <3>1
  <2>3. CASE fetch' = fetch
    BY <2>3
  <2> QED
    BY <2>1, <2>2, <2>3 DEF FrontDoorNext, RearrangeFolder, ChangeSettings, OpenPage, BeatAgain, ClosePage, doorVars
<1>3. Checked => NothingOutsideIsServed
  BY DEF NothingOutsideIsServed
<1> QED BY <1>1, <1>2, <1>3, DoorTypesInit, DoorTypesStep, PTL DEF FrontDoorSpec

\* Names of entries, one below another, do not lead upwards.
LEMMA NamesDoNotClimb == ASSUME NEW a \in Names, NEW n \in Names PROVE ~Climbs(Append(<<a>>, n))
<1> DEFINE path == <<a>>
<1>1. path \in Seq(Names)
  OBVIOUS
<1>2. a # ".." /\ n # ".." /\ Len(path) = 1 /\ path[1] = a
  BY DEF Names, Entry, Hidden, Ours
<1> HIDE DEF path
<1>3. /\ Len(Append(path, n)) = 2 /\ Append(path, n)[2] = n
      /\ Append(path, n)[1] = a
  <2>1. Len(Append(path, n)) = Len(path) + 1
    BY <1>1
  <2>2. Append(path, n)[Len(path) + 1] = n
    BY <1>1
  <2>3. \A i \in 1..Len(path) : Append(path, n)[i] = path[i]
    BY <1>1
  <2> QED BY <1>2, <2>1, <2>2, <2>3
<1>4. \A i \in 1..2 : i = 1 \/ i = 2
  OBVIOUS
<1>5. ~Climbs(Append(path, n))
  BY <1>2, <1>3, <1>4 DEF Climbs
<1> QED BY <1>5 DEF path

\* What a listing shows opens, or is refused as leading out.
LEMMA ListedAlwaysOpens == FrontDoorTypeOK => ListedOpens
<1> SUFFICES ASSUME FrontDoorTypeOK, NEW path \in Paths,
                    ServeApp(folder, "first", path).page = "listing",
                    NEW link \in Links(folder, path, TRUE)
             PROVE  \/ ResolveFile(folder, link) = "escapes"
                    \/ ServeApp(folder, "first", link).status = 200
  BY DEF ListedOpens, ListingOpens
<1>1. folder \in Tree
  BY DEF FrontDoorTypeOK
<1> HIDE DEF Tree
<1>2. /\ Node(folder, path) = "dir" /\ ~Climbs(path)
      /\ Node(folder, <<Entry>>) \notin {"file", "out"}
  BY <1>1, WhenListed
<1>3. path = <<>> \/ \E a \in Names : path = <<a>>
  BY <1>1, <1>2, OnlyTheTopIsListed
<1>4. ~Climbs(link) /\ Node(folder, link) # "none"
  <2>1. CASE \E n \in Items(folder, path) : link = Append(path, n)
    <3>1. PICK n \in Items(folder, path) : link = Append(path, n)
      BY <2>1
    <3>2. n \in Names /\ n # ".." /\ Node(folder, link) # "none"
      BY <3>1 DEF Items, Names, Entry, Hidden, Ours
    <3>3. CASE path = <<>>
      <4>1. link = <<n>>
        BY <3>1, <3>3
      <4> QED BY <3>2, <4>1 DEF Climbs
    <3>4. ASSUME NEW a \in Names, path = <<a>> PROVE ~Climbs(link)
      BY <3>1, <3>2, <3>4, NamesDoNotClimb
    <3> QED BY <1>3, <3>2, <3>3, <3>4
  <2>2. CASE path # <<>> /\ link = SubSeq(path, 1, Len(path) - 1)
    <3>1. PICK a \in Names : path = <<a>>
      BY <1>3, <2>2
    <3>2. link = <<>>
      BY <2>2, <3>1
    <3> QED BY <3>2, Front
  <2> QED BY <2>1, <2>2 DEF Links
<1> QED BY <1>1, <1>2, <1>4, WhatIsThereOpens

\* A folder with a page of its own is not listed.
LEMMA APageIsNotListed == FrontDoorTypeOK => ListedOnlyWithoutAPage
<1> SUFFICES ASSUME FrontDoorTypeOK, NEW path \in Paths,
                    ServeApp(folder, "first", path).page = "listing"
             PROVE  ServeApp(folder, "first", <<>>).page # "file"
  BY DEF ListedOnlyWithoutAPage
<1>1. folder \in Tree
  BY DEF FrontDoorTypeOK
<1> HIDE DEF Tree
<1>2. Node(folder, <<Entry>>) \notin {"file", "out"}
  BY <1>1, WhenListed
<1>3. ServeApp(folder, "first", <<>>) = Answer(200, "first", "listing", <<>>)
  <2>1. Node(folder, <<>>) = "dir" /\ ~Climbs(<<>>) /\ Append(<<>>, Entry) = <<Entry>>
    BY Front
  <2>2. Node(folder, Append(<<>>, Entry)) \notin {"file", "out"}
    BY <1>2, <2>1
  <2> HIDE DEF Entry
  <2> QED BY <1>1, <1>2, <2>1, <2>2, Answers
<1> QED BY <1>3 DEF Answer

\* An app answers in its own name or not at all.
LEMMA AnswersInItsName ==
    ASSUME NEW name, NEW path, NEW standing, NEW ctx, name # "index"
    PROVE  /\ Guarded(name, path, standing, ctx).app \in {name, "none"}
           /\ Guarded(name, path, standing, ctx).page # "index"
<1> DEFINE decision == Decide(Settings(name), standing, ctx)
           served == ServeApp(Folder(name), name, path)
<1>1. \A st, page, at : Answer(st, name, page, at).app = name /\ Answer(st, name, page, at).page = page
  BY DEF Answer
<1>2. served.app = name /\ served.page # "index"
  <2> DEFINE at == Lookup(Folder(name), path).path
  <2>1. served \in {Read(Folder(name), name, at), List(Folder(name), name, at), NotFound(name)}
    BY DEF ServeApp
  <2>2. /\ Read(Folder(name), name, at) \in {Answer(200, name, "file", at), Answer(500, name, "unreadable", at)}
        /\ List(Folder(name), name, at) \in {Answer(200, name, "listing", at), NotFound(name)}
    BY DEF Read, List
  <2> HIDE DEF served, at
  <2> QED BY <1>1, <2>1, <2>2 DEF NotFound
<1>3. Guarded(name, path, standing, ctx) =
         CASE decision = "allow"         -> served
           [] decision = "needs_pairing" -> Answer(200, name, "waiting", <<>>)
           [] decision = "paused"        -> Answer(503, name, "paused", <<>>)
           [] decision = "not_published" -> UnknownPage
           [] decision = "wrong_network" -> Answer(403, name, "home_app", <<>>)
           [] OTHER                      -> Answer(403, name, "denied", <<>>)
  BY Zenon DEF Guarded
<1>4. UnknownPage.app = "none" /\ UnknownPage.page # "index"
  BY DEF UnknownPage, Answer
<1> HIDE DEF decision, served
<1> QED BY <1>1, <1>2, <1>3, <1>4

\* A host of an app leads to that app whatever the path.
LEMMA HostAlwaysNamesTheApp == HostNamesTheApp
<1> SUFFICES ASSUME NEW host \in Hosts, NEW path \in WebPaths, NEW b \in Browser,
                    b.relayed \/ HostApp(host) # "none"
             PROVE  LET answer == Respond(host, path, StatusOf(b), ContextOf(b))
                    IN  answer.app \in {HostApp(host), "none"} /\ answer.page # "index"
  BY Zenon DEF HostNamesTheApp
<1>1. ContextOf(b).relayed = b.relayed
  BY Zenon DEF ContextOf, PeerContext, PeerOf
<1>2. HostApp(host) \in {"first", "second", "none"}
  BY DEF HostApp
<1> HIDE DEF Browser, WebPaths, Hosts
<1>3. CASE HostApp(host) # "none"
  <2>1. Route(host, path, ContextOf(b).relayed) = <<HostApp(host), path>>
    BY <1>3 DEF Route
  <2>2. Respond(host, path, StatusOf(b), ContextOf(b))
          = Guarded(HostApp(host), path, StatusOf(b), ContextOf(b))
    BY <1>2, <1>3, <2>1 DEF Respond
  <2> QED BY <1>2, <1>3, <2>2, AnswersInItsName
<1>4. CASE HostApp(host) = "none"
  <2>1. Respond(host, path, StatusOf(b), ContextOf(b)) = UnknownPage
    BY <1>1, <1>4 DEF Respond, Route
  <2> QED BY <2>1 DEF UnknownPage, Answer
<1> QED BY <1>3, <1>4

\* An app that is not published answers the relay as none would.
LEMMA UnpublishedStaysUnknown == FrontDoorTypeOK => UnpublishedIsUnknown
<1> SUFFICES ASSUME NEW path \in WebPaths, NEW b \in Browser, b.relayed, door.relay = "off", ~door.paused
             PROVE  Respond("first.public", path, StatusOf(b), ContextOf(b))
                      = Respond("elsewhere", path, StatusOf(b), ContextOf(b))
  BY Zenon DEF UnpublishedIsUnknown
<1>1. ContextOf(b).relayed = b.relayed
  BY Zenon DEF ContextOf, PeerContext, PeerOf
<1> HIDE DEF Browser, WebPaths
<1>2. HostApp("first.public") = "first" /\ HostApp("elsewhere") = "none"
  BY DEF HostApp
<1>3. Respond("elsewhere", path, StatusOf(b), ContextOf(b)) = UnknownPage
  BY <1>1, <1>2 DEF Respond, Route
<1>4. Decide(door, StatusOf(b), ContextOf(b)) = "not_published"
  BY <1>1 DEF Decide, IsPublished
<1>5. Guarded("first", path, StatusOf(b), ContextOf(b)) = UnknownPage
  BY <1>4 DEF Guarded, Settings
<1>6. Respond("first.public", path, StatusOf(b), ContextOf(b)) = UnknownPage
  BY <1>2, <1>5 DEF Respond, Route
<1> QED BY <1>3, <1>6

\* What the server shows of its folders and apps is what it opens: a listing against the
\* request it invites, a host against the app it names, the relay against what is published.
THEOREM FrontDoorIsAlwaysSafe == FrontDoorSpec => []FrontDoorSafe
<1>1. FrontDoorTypeOK => FrontDoorSafe
  BY ListedAlwaysOpens, APageIsNotListed, HostAlwaysNamesTheApp, UnpublishedStaysUnknown
     DEF FrontDoorSafe
<1> QED BY <1>1, DoorTypesInit, DoorTypesStep, PTL DEF FrontDoorSpec
=============================================================================
