# A TLA+ model of Kitchen Table

Kitchen Table serves small web apps, kept as folders on somebody's own machine, to the
people they choose: to this machine, to the household's network, to invited devices, or to
anybody through a relay. This directory holds a TLA+ model of the daemon that does it
(`src/crates/kt-daemon` and the crates under it), the TLC configurations that check the
model on small instances, and TLAPS proofs of what matters most for every instance.

Each definition stands for lines of the source; `PROJECT.json` (`map`) says which.

Contents: [the system](#1-the-system) · [the modules](#2-the-modules) ·
[the runs](#3-the-runs) · [fairness](#4-fairness) · [the proofs](#5-the-proofs) ·
[where the code and its comments part](#6-where-the-code-and-its-comments-part) ·
[what is not modelled](#7-what-is-not-modelled) · [the plan](#8-the-plan)

## 1. The system

One daemon process runs per machine. It has a tokio runtime of several worker threads, one
thread of its own that watches the workspace, a SQLite file behind a mutex, one SQLite file
per app, a Unix socket for its owner's window and command line, an HTTP server for everybody
else, and at most one outgoing connection to a relay. There is hardly a lock that is held for
longer than one statement: what makes the system hard is that almost every operation is a
sequence of statements with other operations between them.

| Component | State it keeps | Operations | What makes it correct |
|---|---|---|---|
| **Gate** (`kt-auth`, `kt-server/gate.rs`) | none | `decide`, `gate`, `Peer::context` | a request is served only at the app's level; a route or a switch that should take trust away never adds any; what is advertised is served |
| **Pairing** (`kt-daemon/trust.rs`, `kt-store/trust.rs`) | `devices`, `invites` tables; each browser's cookie; lookups of names | `identify`, `redeem`, `discover_name`; the owner's approve, deny, revoke, rename, forget, invite | a device is approved only if somebody approved it, a revoked one stays so, a pinned link stays with its device, the owner's name for a device stays |
| **Workspace** (`kt-registry`, `kt-daemon/main.rs`, `library.rs`) | folders and `app.json` on disk, the `apps` table, the list of forgotten paths, the library the server reads | the rescan; commands that edit `app.json`, create, forget; the watcher | nothing becomes reachable by appearing on disk; disk, table and library come to agree |
| **Names** (`slug.rs`, `library.rs`, `kt-mdns`, `rpc.rs`) | slugs and labels in manifests, announced hostnames, the account's handle | deduplicate, announce, conflict, `share.set_public_label`, `get_by_hostname` | one address, one app; a shown address leads to its app |
| **Relay tunnel** (`kt-daemon/relay`) | the loop's phase, the backoff, the heartbeat's clock, the status | dial, hello, verdict, carry, ping and pong, goodbye, wait | a dead edge is noticed and a living one never given up; the schedule does not hammer; the status is true; the tunnel comes back |
| **Account** (`kt-daemon/account.rs`) | the stored handle, the link shown, the library's handle, the handles of two tasks | upgrade, poll, verify at start, unlink, spawn the relay | one tunnel, one poll; no link lost to silence, none regained after an unlink; what is shown is what is so |
| **App storage** (`kt-store/app_store.rs`, `kt-server/storage.rs`) | a key-value store per slug: shared values, and each device's own | read, write, remove | a quota that holds and never locks an app in; personal values stay personal; apps are kept apart |
| **Presence** (`kt-server/presence.rs`, `live.rs`) | who was heard from, and when | check in, leave, sweep | one lost request is not a departure; a closed page does leave |
| **Socket, events, window** (`socket.rs`, `src/shell`) | a bus of bounded length, a subscription, the window's lists | publish, forward, resynchronise, ask again | the window shows what the daemon knows, or learns that it does not |
| **Start-up, keys, migrations** (`main.rs`, `keys.rs`, `kt-certs`, `kt-store/migrations.rs`, `welcome.rs`) | keychain items or files, install id, tables and their version, the sample's mark, the port, the socket file | load or create a key within five seconds, migrate, seed, bind, serve | one install has one key and is told so truly; a crash leaves something that opens; a daemon that starts comes to serve or says why not |
| **Front door** (`kt-server/lib.rs`, `paths.rs`, `listing.rs`, `pages.rs`) | none; it reads the folders | resolve a host and a path, list, serve, refuse, check in | nothing outside the app's folder; what is listed opens; what is not published does not show |
| **Notifications** (`notify.rs`, `rpc.rs`, `src/shell`) | switches, a seen mark, banners | read, merge, mark seen, ask, answer | switches do not undo each other; the mark never goes back; nobody is let in by silence |
| **Authoring** (`authoring.rs`, `kt-registry/workspace.rs`) | folders, the setting | name, create, import, choose the workspace | each gets a folder of its own, whole, and none of it in the daemon's |
| **Discovery** (`kt-mdns/discover.rs`) | a lookup's clock and queue | browse, resolve, take the name | answered in time, and only with the asker's own name |
| **Wire protocol** (`kt-tunnel-proto`, `wsbytes.rs`, `session.rs`) | pieces of messages, frames and hellos | read, write, flush, negotiate, sign, judge | bytes arrive as a stream; both ends agree on a version; a captured answer is worth nothing |
| **Desktop shell** (`src/shell/src-tauri`) | the handle of the daemon it started | ask, adopt, spawn, wait, stop | it stops what it started and nothing else |
| **Pages' storage client** (`src/packages/storage-js`) | what a page settled for, `localStorage` | ask once, keep, copy | private is never shared; a copy is a copy |
| **CLI**, **scratch crates** | none | print | input and output |

How they interact:

- a *request* resolves an app by hostname in the library (Names, Workspace), is identified by
  its cookie (Pairing), judged (Gate), and then served, checked in (Presence) or let at a store
  (App storage). It arrives over HTTP from an address, or from the tunnel without one;
- a *command* arrives on the socket, is one of the owner's actions on Pairing, Workspace,
  Names, Account or App storage, and often ends in a rescan on its own task;
- the *watcher* rescans when the workspace has been quiet; so several rescans can be under way;
- *Account* publishes the handle that Names needs and starts and stops the Relay tunnel;
- a *connection* to the relay is bytes in websocket messages, then a handshake, then streams, and each
  stream carries one request or the heartbeat;
- the *shell* starts the daemon that all of this happens in, and a *page* of an app calls the store;
- every change is an *event* on the bus, which the window takes as a reason to ask again.

The hard behaviours, each listed with its line in `PROJECT.json` (`hazards`): rows read and
written back by tasks that overlap; rescans that overlap with each other and with torn files;
the library out of its place while it is being announced; tasks that are aborted but stop only
at their next await; answers of the cloud, of the network and of the heartbeat that come late;
connections that die without a word; crashes between two writes; lost, delayed and dropped
messages and events; a quota, a frame and a bus at their limits; a keystore call that nobody waits
for any more and that still writes; two daemons started at once.

## 2. The modules

| Module | What it models | Stands on |
|---|---|---|
| `Gate` | the gate's rules as operators | |
| `GateRequests` | every request the gate can be asked about | `Gate` |
| `Pairing` | devices, links, requests in flight, the owner | `Gate` |
| `Workspace` | from a folder to a served app, one statement at a time | |
| `Addresses` | slugs, labels, announced names, the handle | |
| `RelayTunnel` | the daemon's side of the tunnel | |
| `Account` | linking, with tasks and worker threads | |
| `AppStorage` | the key-value stores behind the gate | |
| `Window` | presence, the bus, the shell, the window's list | |
| `FrontDoor` | hosts, paths, folders, pages, and who counts as reading | `Gate` |
| `Startup` | from nothing to serving: keys, tables, sample, port, socket | |
| `Notices` | switches, the seen mark, banners; two windows | |
| `Authoring` | names, new folders, imports, the workspace setting | |
| `Discovery` | one lookup of a name, against the clock | |
| `ByteStream` | abstract: one direction of a stream of bytes | |
| `WsBytes` | the adapter from websocket messages to bytes; implements `ByteStream` | |
| `TunnelHello` | versions, challenge, answer and verdict, over several connections | |
| `TunnelStream` | one stream: opener, body or control frames, answer | |
| `Supervisor` | the shell's two threads and the daemons it may meet | |
| `PageStorage` | an app's pages, their device and the daemon's scopes | |
| `PairingProofs`, `AccountProofs` | theorems about the module of that name | `Pairing`, `Account` |
| `WorkspaceProofs` | theorems about the daemon's start and its workspace | `Workspace`, `Startup` |
| `AddressesProofs` | theorems about names: given out, and asked for | `Addresses`, `Discovery` |
| `GateProofs` | theorems about requests and the front door | `GateRequests`, `FrontDoor` |
| `TunnelProofs` | theorems about the connection, from its loop down to its bytes | `RelayTunnel`, `TunnelHello`, `TunnelStream`, `WsBytes` |
| `StorageProofs` | theorems about the store and the pages that use it | `AppStorage`, `PageStorage` |
| `WindowProofs` | theorems about presence, the shell, and what the owner does there | `Window`, `Supervisor`, `Notices`, `Authoring` |
| `MC…` | instances for TLC: values a `.cfg` cannot write, symmetry, bounds | see below |

Components that share state in the code are one module. Those that meet only in a value (an address, a
setting, a byte) are checked side by side: `MCGate` (`GateRequests`, `FrontDoor`), `MCRelayTunnel` (`RelayTunnel`,
`WsBytes`, `TunnelHello`, `TunnelStream`), `MCAppStorage` (`AppStorage`, `PageStorage`), `MCWindow` (`Window`, `Supervisor`) and
`MCMachine` (`Startup`, `Discovery`, `Notices`, `Authoring`) hold the variables of several, and `moving` says
which one a behaviour is about; the others rest in one of their initial states. Every behaviour of each module is
there, and nothing is claimed of how they interleave.

Definitions that begin with the comment *Faulty variant* are used by nothing: they are plausible
mistakes in the definition after them, and `PROJECT.json` (`mutants`) says one of
them for each property of each run. They show that the property can fail. A property that is a conjunction
(`TrustIsOnlyTakenAway`, `FrontDoorSafe`, `NamesApart`, ...) has its conjuncts defined, and explained, before it.

### Gate, GateRequests

`Decide` is `kt-auth`'s `decide` in the order of its tests: paused, revoked, route, level.
`PeerContext` is `Peer::context`: loopback and household are dropped for a relayed request.
`GateRequests` lets the app, the device row and the peer take any value, which is finite, so
TLC's answer there is complete: nothing is bounded.

### Pairing

The store's mutex is held for one statement, so a request is a sequence of steps: `Open` asks the gate or
`FollowLink` reads the invite, `IdentifyKnown` reads the device's row and `Touch` writes it back, or
`IdentifyNew` makes one, `RefuseLink` and `RecordRedemption` act on the copy of the invite, `ApproveInstantly` sets the status, and `Reply` or
`LoseReply` decides whether the browser keeps its new cookie. `Serve` is the page of an Invited app, on its way out. `req` is what a handler has on its stack:
the copies are what makes the interleavings interesting. The owner's commands are one statement
each. `granted` is history: devices that the owner, or a link that waives the prompt, ever
approved. The database's foreign key (`pinned_device`) is part of `RecordRedemption` and
of `Forget`. Signatures are abstracted: a cookie verifies and names a device, or there is none.

### Workspace

`disk` holds what a folder has in place of `app.json`: a manifest, no file, a file cut short by a
write under way, garbage, or no folder. A thread (the daemon's start, the watcher or a client's task) walks through
`List`, `Load` folder by folder, `Filter`, `Persist` row by row, `Retain`, `Take` and `Install`, in the order of `sync_with`.
A list, a manifest, a row, the list of forgotten paths and the removal of rows may each fail, which is logged and gone past: the library
is installed all the same. A manifest that cannot be read is made anew in two steps, a truncation and a write, as a client's edit is; an edit
reads the whole file first. The first scan is over before `StartWatch`, so what changes between them nobody notices.
`ByHand` is the owner's editor. A manifest keeps `paused` and `visibility`, since
`relay`, `storage` and `public_label` go through the same steps.
`whole`, `opened`, `owed`, `latest` and `spoilt` are history.

### Addresses

Here a scan is one step, and so is the announcing; what counts is which name each gets.
Names are sequences of numbers, `<<1>>` for "notes" and `<<1, 2>>` for "notes-2", because the
code appends suffixes and compares names, and does nothing else with them.
Folders are numbers in the order of their paths, since a scan names them in that order. The walk and the sorted result are sequences
in which each element comes after those before it (`Orders`): what sorting yields is said, not how a sort goes. `claimed` and `conflicts` are the
two sets of each announcer: the first scan, on the watcher's thread and before it watches, announces with one and every later scan with the other, and neither knows
what the other has given out. `Objection` is another machine on the network that defends a name.
`excuses` is history: it records that something happened which the code never promised to check
(a folder copied with its manifest, a label that was cleared, a label checked while the library was
out), so that the properties can say when names stay apart *otherwise*.

### RelayTunnel

`phase` is the place in `run`'s loop; `edge` is what the edge would say now; `lost` is a connection
that died silently. Time is counted in units of half a heartbeat interval, so that the interval is 2, and the timeout 6,
as in the code three intervals. `window` is the window a wait was drawn from, `widest` the widest
since the edge last let the daemon in. `Hear`, `Tick` and `CarryEnds` are the heartbeat's
task, its ticks and the loop that carries streams; a verdict passes between them.

### Account

Each client, the poll, the check made at start and the relay task is a thread that runs to its
next `await` if a worker is free (`Workers`), one action per statement that touches shared state.
An aborted task stops at its next await, never before, which is tokio's rule. A press looks at the link and sets it to waiting in two steps,
as the code takes the lock twice. A setting may not be written, which is logged and gone past; a crash may come between any two
writes, and start reads what was stored. `unlinked`, `missed` and `inTurn` are history: the owner unlinked last, an upgrade was left to a poll that had done its part, and
the last finalize, unlink or start and what followed were each alone at work. The cloud may change its mind at any time and need not answer.

### AppStorage

A request is allowed (`Allow`: the app by hostname, the gate, the scope) and then acts (`Write`,
`Remove`); the owner may turn the viewer away (by pausing, revoking or closing the app: `Refuse`), or forget the app, in between. A value is its size, in characters and
in bytes: SQLite counts the one and Rust the other. Who wrote an entry, and for whom, is history.

### Window

A page's timer, its check-ins and goodbyes (`wire`, in any order, each lost or delivered),
`Presence::seen` with its linger and sweep, the bus with its backlog, the shell's subscription and the
window's `presence.list`. Time is counted in units of five seconds: the code's 10 s beat is 2 and its
25 s linger is 5. While a rescan has the library out (`out`, `Rescan`) a check-in finds no app, and a sweep tells nobody (`main.rs:273` publishes for the apps in the
library). A `Fetch` that fails is not made again and leaves what was shown. `missed` is history: presence changed since the last answer and no event is left to
say so.

### FrontDoor

Two apps. The first app's folder holds a page, a photo, a hidden file, its manifest and a folder, any of which may
be missing or be a link that leads out; `Node` follows links as the file system does and `ResolveFile` is
`paths::resolve` on top of it. `Respond` is what a request for something in a folder comes to: host or path names the app, the gate judges, a file, a listing or a page
answers. It looks at one folder; a request that is on its way while the owner rearranges the folder checks its path first (`Ask`) and reads the file or lists the
folder later (`Finish`), as there is an await between `resolve_file` and `tokio::fs::read`. `seen` is `Presence` keyed by
`ViewerId`; `OpenPage`, `BeatAgain` and `ClosePage` are what a browser sends it. The owner edits the folder and the settings in between.

### Startup

A process goes through `run()`: the database and its migrations (`Migrate` is one transaction per
step), the sample and its mark, the two keys, the port (80, 8420, 8421, 8422 in turn; the run has the first two), and last the socket: is there another daemon's, is it answered,
is a stale one to be removed, bind. Any error of the call that asks, not only a refusal, makes the file stale. Stopping takes two steps, the listener's end and the removal of whatever file is there by then. `asker` is the thread that asks the
keystore: `Deadline` makes the process go on without it, and it goes on too, until it has written what it was about to.
`drawer` is a keychain or a folder of files, with one item per key, absent, misshapen, of an older build, or a key.
`Crash` may come anywhere, and what can fail may. Two processes may start at once over the same state.

### Notices

Each window is a caller: a command that changes a setting reads it (`SetPrefs`, `MarkSeen`) and writes it later (`WriteSetting`). `cached` and `listed` are what each window fetched,
and `mark` is what the daemon keeps. A fetch brings the newest `FetchLimit` rows (the code's 500), requests are left out of it, and the newest `EarlierLimit` of the rest are what a
window keeps and shows (its 50). Rows of the log carry a second, several may share one. A banner for a device is up until it is answered, cleared or lapses, while
the other window may decide for the same device; what is cleared never reports back.

### Authoring

`FolderName` works on names as sequences of classes of characters (a dot, a space, a slash, a letter, a letter of four
bytes), since all that counts is what is trimmed, replaced, cut and how long it gets. Creating and importing go: a free name (`UniqueIn`),
the folder, the files one by one; another caller and the owner's file manager come between. `Worth` decides
what is copied of a source with hidden files, links and the workspace itself in it. `Valid` is `workspace::validate`.

### Discovery

`name_for` as a machine on a clock: `Browse` one service type for at most its slice, resolve each instance (`HostFor`), `AddressesOf` its
host, take the name if the address is the asked one. Each step may take until its own deadline or return early.

### ByteStream, WsBytes

`ByteStream` is what the multiplexer relies on: bytes in order, each once, the end after the last, or an error that
is said. `WsBytes` keeps what the code keeps: a sink that holds messages until it is flushed, the wire, `unread` (the rest of a message that did
not fit the reader's buffer), and whether the reader is parked and who would wake it. `IsAByteStream` is the
refinement (`INSTANCE ByteStream WITH ...`, safety and the liveness of `ByteStream`'s specification: what was written is read).

### TunnelHello, TunnelStream

A signature is a term, who made it and over what, so that an answer can be kept and played on another connection. `Negotiate` is
`VersionRange::negotiate` with its four outcomes. Builds change between connections (`Update`). In `TunnelStream` a byte is its position;
a read returns any number of bytes up to a chunk, `OpenerRead` is `read_open`'s loop with its two tests, `OpenerWhole` and `OpenerTooLong`, and what was read past the opener
belongs to the body or to the first control frame.

### Supervisor

Two threads run `ensure_running`: the one `setup` starts, and the main one, on which the owner's buttons run. The steps are the
handshake, `stop`, the spawn, the storing of its handle, and the polls of `BACKOFF`. A daemon crashes, hangs and comes to; a
terminal starts another, maybe of another build. `killed` and `overlapped` are history.

### PageStorage

Calls of an app's pages, each with its own place: it asks `storage.json`, hears, keeps, sends; nothing orders two of them, and an app need
not wait. `kept` is `localStorage` (a corner for the app, one for "personal"), `copied` the daemon's scopes with the mode
under which each value was sent. `unalike` is history: why a device's copy may differ from what it keeps (a failed request, two calls at
once, both corners in use, a write that was not to be copied).

## 3. The runs

Every action of every module is taken in some run. Deadlock checking is off where the system really may
stop: bounded commands, moves or retries run out.

| Run | Instance and bounds | States | What it shows |
|---|---|---|---|
| `gate` | every request the gate can be asked about; two apps, 7 browsers, 3 changes of the folder and the settings, 3 visits | 42 600 | the route, the switches, the cookie and a revocation only take trust away; what is advertised is served; what is served from outside a folder was put there after the path was checked; listings, hosts and refusals agree; a goodbye is one's own |
| `pairing` | 1 browser, 2 requests, 2 device ids, 1 link that pins, approves and expires | 907 000 | approval is never invented, by whatever copies are written back; pins and names only move the allowed way |
| `pairing_revoked` | 1 browser, 1 request, 1 device | violation | a revocation is undone (section 6) |
| `workspace` | 1 folder, the first scan, the watcher, 2 clients that open, forget and create, 3 changes or failures | 734 000 | no app becomes public unless its owner opened it |
| `workspace_watcher` | 1 folder, the first scan, the watcher, 1 client that edits and rescans, 3 changes or failures | 464 000 | however scans overlap, disk, table and library come to agree, unless the last scan failed in part, an older one wrote after it, or a change came before the watch |
| `addresses` | 2 folders of one name, 2 labels, 1 handle, the first scan, watcher and 1 client, 2 changes by hand and 2 commands, 1 defended name | 2 370 000 | no announcer gives one host twice; slugs and labels are apart, but for what nothing checks; a shown address leads to its app, or to one that the other announcer gave the name |
| `relay` | the code's delays, 3 troubles, silent losses once the heartbeat runs; 4 bytes in pieces of 2 through a sink of 2 messages, 2 interruptions; 2 connections, 2 keys, versions 0 and 1, 1 update; frames up to 4, bodies up to 3 | 273 000 | verdicts neither late nor premature; the status is true and the schedule kept; the tunnel comes up; bytes are a stream; handshakes agree; streams are whole |
| `account` | 2 workers, 1 client, 2 handles, 3 changes or failures, 1 restart; polls, relay tasks and handles are interchangeable (symmetry) | 899 000 | never two tunnels or two polls; link, settings, identity and tunnel are lost to a clear no or the owner only; after a turn taken alone, what is shown is what is stored, published and dialled, whatever went before |
| `account_waits` | 2 workers, 1 client, 1 handle, 1 place for a relay task, 3 changes | 116 000 | nobody waits for ever, unless on a poll that had done its part |
| `app_storage` | 1 app, 2 keys and 3 values, one of each in letters of two bytes, a paired device and a guest, quota 5; 2 pages on a phone and 1 on a laptop, 2 calls, 1 switch, 1 reload | 834 000 | the quota and what may replace a row, as the database counts, and scopes; pages never share what is private, and an undisturbed copy is true |
| `window` | 1 phone, 2 paths, 3 moves, 1 other event, backlog 1, rescans, failing fetches, 1 restart; the shell with 3 daemons of its own and 1 from a terminal, 2 buttons, 1 crash or hang | 470 000 | one lost check-in drops nobody; a closed page leaves, unless its event, or the answer to it, was lost; the shell stops what it started and nothing else |
| `machine` | 2 processes, 3 starts, 3 faults, keychain or files, 2 ports; 3 services and a budget of 6; 2 windows, 2 switches, 2 seconds, 2 rows, of which a window fetches 2 and keeps 1; 2 authors, 2 calls, 4 names | 626 000 | what is opened can be opened again, keys are kept and truly reported, starting ends; a lookup ends in time; settings and folders survive two hands |

Why the bounds are enough to be interesting:

- *Two of a kind.* The races are between a read and a write-back, so two requests, two threads that
  rescan, two tasks, two daemons, two windows, two folders that want one name are what it takes. The theorems of section 5
  cover any number. In `pairing`, names are looked up only while no link is issued (`OneNamed`); the two halves
  share only the row, and `NamesOnlyImprove` is proved without the restriction.
- *Changes.* Three commands or edits allow one that is overtaken, one that overtakes it and one that
  repairs. The violations need no more than three.
- *Clocks.* Relay and window keep the ratios of the code's constants: the timeout is three
  intervals, the linger two and a half beats, the windows double to their ceiling (`Saturation = 6`
  attempts, from when on 60 s is the ceiling, where the code counts on to no effect). Discovery's budget divides into
  its three slices.
- *Limits.* A window that keeps one row of a log of two leaves one out, as one that keeps 50 does with the 51st. A backlog of one is the smallest bus that overflows; a quota of five holds one large value
  and one small; a frame of four with a prefix of two shows the openers at, just under and just over the limit.
- *Not reached.* A folder's number never runs out (`Tries = 2` with `MaxCalls = 2`), so the clock's suffix that then replaces
  it is not taken; versions go to 1, so ranges that miss each other are a version apart.

## 4. Fairness

Only liveness properties use it, and nothing is assumed of the owner, of troubles or of the network.

- `workspace_watcher`: a thread that has begun a rescan or a command goes on with it, the watch begins once the first scan is over, and the
  watcher's debounce timer fires. All are plain threads or tokio tasks that block on nothing.
- `relay`: the loop goes on when it can, sleeps end, time passes, and an edge that is *reachable*
  answers a hello and opens the control stream. `TunnelComesUp` asks for the tunnel only if the
  edge ends up welcoming this install for good. A reader that is not parked is polled again (`WsReader`): the multiplexer's
  task loops on it; a parked one moves only when somebody wakes it, which is what `IsAByteStream` is about.
- `account_waits`: a task that can run does get its turn (strongly, since others may hold the
  workers in between, and tokio's queues are fair), a request is answered or times out (the HTTP client has
  a timeout), and the poll's half hour passes.
- `window`: timers fire, a request arrives or is lost, the sweep runs, and the daemon, shell and
  window reach their next step. `Tick` is strongly fair, because it waits for messages and the sweep
  of its unit and these can always come up again. The shell's two threads go on, and a daemon that was started binds or
  gives up (used by `DeadIsRestarted`, section 6).
- `machine`: a process that starts takes its next step or its keystore's deadline passes (`DaemonStep`); the keystore itself need never
  answer. A banner lapses (`Lapse`): the notification library's own timeout.

## 5. The proofs

Assumed: only what the modules' `ASSUME`s say of the constants. They say that bounds are numbers, that sentinels (`None`,
`NoHandle`, `Nowhere`, ...) are no members of the sets they stand beside, and what the code's own constants satisfy: the
heartbeat's timeout is at least three intervals, the longest wait is longer than the shortest, two beats are less than the linger.
`PowersGrow` says of `2 ^ n` what the provers do not know of powers. TLC evaluates every one of them on the runs.
Sets of people, folders, connections, values, windows and processes may have any size, and so may the bounds.

Each proof has one inductive invariant, its initial states, one lemma per kind of step, and the temporal
conclusion. What has to be
added to a property to make it inductive is usually the same thing: what a copy that is held across other people's steps may still say.

`PairingProofs`

- `TypeCorrect`: type correctness, one step per action.
- `ApprovalIsNeverInvented`, `ServingIsAlwaysGranted` (`ApprovedWasGranted`, `ServedWasGranted`). Neither is inductive: a
  handler holds a copy of a row and may write it back long after. `GrantInv` adds that such a copy,
  if it says approved, is of a device that was granted (`CopiesWereGranted`). With it a stale copy
  can repeat an approval and never make one up. `InvitedNeedsApproval`, a lemma about the gate, ties what is
  served to the row.
- `PinnedDeviceListed` and `PinsMoveOnlyByForgetting`. `RowInv` adds that whatever device a
  handler is about to write, or to pin, was minted, and that rows are of minted devices.
- `NamesOnlyImprove`: a name's source is never replaced by a weaker one.

`WorkspaceProofs`

- `TypeCorrect`: proved together with `OpenInv`, since the steps need both.
- `NothingOpensByItself` (`OnlyTheOwnerOpens`). The invariant `OpenInv` says that everything which
  could still find its way into the library or the table is `Covered`, meaning public only where the owner
  opened it: the disk, the copy each command is about to write, the manifests each scan has read, the
  library that was taken out. `Sound` is the part about one thread.
  A write is shown to leave what was there, what it wrote, or garbage (`WriteLands`), none of which opens anything.
- `StartupIsAlwaysSafe` and `KeysAreAlwaysHonest`. `StartupInv` ties the place of a process to the socket and the ports (`SocketIsKept`: until two met over one stale file,
  or one took for stale the file of a daemon that ran), and the tables, their version, the sample and
  its mark to where whoever is at them stands (`StoresAreKept`). For the keys, `HonestInv` follows the thread that asks the keystore, which outlives the deadline: what it takes a key to be is what is kept (`FiledAsTaken`),
  and until two ask at once it is the only one to write (`OneAsks`).

`AddressesProofs`

- `NamesAreKeptApart` and `ShownAddressesAlwaysAnswer`, from `AddressInv`, in two halves. `HostsInv` holds of everything that anybody holds, the library and what was taken out of
  it (`Held`): each name is claimed of the announcer that gave it (`NamesAreClaimed`), so a new one, which is not, is nobody's of that announcer's. It takes no account of who scans with whom,
  and says nothing across the two announcers, of which nothing holds (`NamesGivenOnce`, section 6).
  `LabelsInv` is about slugs and labels, and holds until something is excused: whoever is at work is so alone, but for a watcher that is
  about to scan (`OneAtWork`); a label about to be written is nobody else's (`LabelIsFree`); and the library, or the records about to replace it, are what is
  on the disk, unless the watcher has something to wake up for (`LibraryIsFiled`, `ListsAll`), which is what makes the check of `share.set_public_label`,
  made against the library, a check of the folders.
  `ScanNames` says what a scan does to every folder, `InstallIsPlacing` what a library has come to when it is put back.
- `LookupIsAlwaysRight`: what is used of the allowance is at most the slices of the services passed, until an instance was met (`OnTheWay`).

`GateProofs`

- `TrustIsNeverAdded`, `AdvertisedIsAlwaysServed`: from the types alone, by cases of `Decide`. Every level, route and row is a case.
- `OutsideIsOnlySwappedIn`: what a check lets through was inside when it was checked, so whatever is served from outside was put there
  between the check and the read, by a link swapped in. That it can be is shown by `NothingOutsideIsEverServed` (section 6).
- `FrontDoorIsAlwaysSafe`, one lemma per conjunct (`ListedAlwaysOpens`, `APageIsNotListed`, `HostAlwaysNamesTheApp`, `UnpublishedStaysUnknown`).
- `GoodbyeStaysOnesOwn`: an action property. Two browsers at home have two addresses or two devices, so two viewer ids.

`TunnelProofs`

- `LoopIsAlwaysHonest`, `SilenceIsAlwaysNoticed`, `LiveEdgesAreKept`, from `RelayInv`: the status and the phase, the widest wait and the attempt count
  (`WidestIsNext`), when the next tick is due (`TickIsDue`), and that an edge which is there was heard from within the timeout (`HeardFrom`).
- `HandshakesAlwaysAgree`, from `HelloInv`: what was signed was signed by that install for that challenge (`SignedHere`), and what each
  end is at agrees with what it was sent (`InStep`, `AnsweredHighest`, `AcceptedAnsweredHere`, `AgreedIsAccepted`).
- `StreamsAreAlwaysWhole`, from `StreamInv`: every byte read is in the opener, the body, a ping or the rest that is held (`BytesAreCounted`).
  It rests on a lemma about multiples (`NoPartOfAPing`).
- `WsBytesIsAStream`: the refinement, for its safety half. Every step of `WsBytes` is one of `ByteStream`, or leaves it as it was.
  `WsInv` says that what the reader has and what is kept for it is the beginning of what was written (`KeptInv`), and that the messages on the wire and in the sink carry
  the rest, each from where the one before it stops, the close behind all (`WayInv`). Those places exist by a `Chain` that the writer's
  steps lengthen (`ChainGrows`) and the reader's steps shorten (`ChainRest`).

`AccountProofs`

- `OnlyOneAlways` and `OnlyANoEverUnlinks`, from `AccountInv`: beside the two conjuncts of `OnlyOne`, what each thread has in hand fits
  the step it is at (`Fitting`), so that the step which takes the link, the identity, a setting or the tunnel away is known to be an unlink's, to follow a clear no, or, for the link
  alone, to be a press that looked before the link landed (`LinkIsKept`, section 6).
- `SaidIsAlwaysDone`, for any number of workers and whatever fails. What two turns at once, a failed write or a crash leave behind need not agree, and does not
  (section 6); the property says that the next finalize, unlink or start that is alone at work, and writes what it has to, puts all of it right. `TurnInv` says that while that is so the thread which may be
  at work is alone, and that all else is as it has left it, step by step (`Settled`).

`StorageProofs`

- `PersonalIsAlwaysPersonal`: a request that was let in and not yet served carries a scope that was lawful for its viewer (`AllowedIsLawful`).
- `QuotaAlwaysHolds`, for any text: `QuotaInv` is the sum itself, `TotalChars`, beside the types of the rows, and a step changes one row (`SumWithout`, `RowWritten`, `RowTaken`). It speaks of characters
  because the code counts them; that the bytes fit, and that less can always replace more, is false of letters of two bytes (`StoreFitsItsQuota`, `CanAlwaysShrink`, section 6).
- `PagesAlwaysKeepTheirWord`, from `PagesInv`: what is on the way to the daemon was sent under the right scope and mode (`SentRightly`), and a
  device's last copy is there or on its way, unless something that is allowed to part them happened (`CopyOnItsWay`).

`WindowProofs`

- `PresenceIsAlwaysTrue`, from `WindowInv`: news that matters is queued, is being asked after, or is known to be missed (`NewsIsDue`: by an overflow, a sweep while the library is out, a fetch
  that failed), nobody's age outruns their missed beats (`BeatsAreKept`), no
  entry is long past the sweep (`SweptIsRecent`). This is where `2 * Beat < Linger` is used: with a linger of two beats or less one lost
  check-in does drop a reader.
- `ShellIsAlwaysSafe`, from `ShellInv`: whichever thread has a daemon in hand started it (`HeldWhileStoring`), and until two threads overlap every
  daemon the shell started is the one it holds, the one a thread is about to store, or gone (`InTurn`).
- `NoticesAreAlwaysSafe` and `MarkAlwaysGrowsAlone`: until two commands overlap at most one is between its read and its write (`OneAtATime`), what it will write is due
  (`SwitchesAreDue`), and a list holds every row from before its newest that a window still shows (`ListsAreWhole`; a newer row only takes
  older ones away, `ShownBefore`).
- `AuthoringIsAlwaysSafe`. `FolderNameShows` says of every name that can be typed, of any length, what `folder_name` makes of it: it rests on what trimming keeps
  (`TrimKeeps`). `UniqueIsFree` says that `unique_in` gives out a folder that is not there. `AuthoringInv` adds that two commands are in one folder only if both found its name free, who wrote
  what is in each folder, and that every file of the source is written, on the list, or passed over (`NothingIsForgotten`).

The theorems of the library that go by induction take an operator and cannot be instantiated, but `WFMin` takes a set. `LeastOf` and `GreatestOf`
(every set of numbers has a least member, every bounded one a greatest) come from it, and serve wherever the code takes the first or the last of something. They also
reach the folds of the community modules, which define a recursive function by `CHOOSE`: that there is one (`SumsExist`, `FoldExists`) and that it has what is said of it at every stage (`SumsAgree`, `FoundIsWalked`,
`AllPlaced`) is shown of the least stage at which it would not.

What the proofs found out about the model, each since put right:

- `Authoring`: the clock's number behind a name, when all of `Tries` are taken, was a fixed one, so that a second command could be given the folder of the first. The
  code's clock has moved on by then; the model's now does (`UniqueIn`).
- `Discovery`: with a budget of nothing the lookup was over before its first service, and `SilentServicesStarveNobody` false. The daemon gives it four seconds (`NAME_LOOKUP_BUDGET`):
  `DiscoveryAssumption` says so much of it as is needed.
- `Window`: nothing said how long the linger is against the beat; `NoFlicker` needs `2 * Beat < Linger`.
- `Notices`: a second of nothing was allowed, so that no notice could ever be; and the type invariant left open what a list and a command range over.
- `Addresses`: the order of a scan was a call of the library's sort, of which nothing can be known but by evaluating it. `Orders` says what it returns.
- `ByteStream`: its specification is split into `Safety` and `Spec`, so that the part which can be proved has a name.

Only model-checked, and why:

- all liveness (`SettlesOnDisk`, `TunnelComesUp`, `WaitingEnds`, `StaleNamesGo`, `StartupEnds`, `BannersEnd`, and that what was written is read, the second half of
  `IsAByteStream`): out of the prover's reach, with `ENABLED`.

## 6. Where the code and its comments part

One is a routine run:

| Run | The comment | What the code does |
|---|---|---|
| `pairing_revoked` | `kt-auth/src/device.rs:50` "Explicitly refused or later revoked. Never silently upgraded back." | `trust.rs:112` reads the row, sets `last_seen` and writes the whole row back: a revocation between the two is undone |

The others are kept as configurations of their own, one for each run: `gate_divergences`, `workspace_divergences`,
`addresses_divergences`, `relay_divergences`, `account_divergences`, `app_storage_divergences`, `window_divergences` and
`machine_divergences` (each with the `MC` module of its run), and `pairing_forwarded` (`MCPairing`). Each
lists the properties below, every one of which TLC finds violated: keep one of them and comment out the rest, or TLC stops at the first.

| Property | The comment | What the code does |
|---|---|---|
| **gate** `NothingOutsideIsEverServed` | `paths.rs:3` "Every served path is canonicalised and checked to still be inside the app root" | `lib.rs:675` checks, `lib.rs:712` opens by name after an await: a link put there between is followed |
| `ListedOpensAnyhow` | `listing.rs:140` "every link here is relative" | `kt-server/src/lib.rs:338`: a folder is served with and without its slash, and without it the links lead one folder too high |
| `UnpublishedIsAlwaysUnknown` | `pages.rs:133` an unpublished app and no app are "indistinguishable from outside" | the gate looks at `paused` first: a paused app that was never published answers that it is resting |
| `GoodbyeIsAlwaysOnesOwn` | `lib.rs:444` "Their address at least tells them apart" | `lib.rs:460`: a stranger over the relay has no address and is counted as `OWNER` |
| **pairing_forwarded** `PinnedLinkIsInertElsewhere` | `invite.rs:78` a forwarded pinned link is inert | `trust.rs:185`: two first redemptions both pass the check before either is recorded; the pin goes to one, both redeem |
| **workspace** `PausedIsNotServed` | `rpc.rs:183` an owner who pauses "expects it to stop answering now" | `main.rs:416`: a rescan that had read the old manifest installs it after the answer, and nothing rescans again before the next change |
| `RequestsSeeAWholeLibrary` | `library.rs:3` the whole old library or the whole new one | `library.rs:165` takes the library out, announces, and puts it back: between them a request finds no app |
| `EditsKeepTheRest` | `rpc.rs:845` leaves everything else as it was | `rpc.rs:988`: two sockets read, change and write one file; one edit is lost |
| `CreatedIsAnswered` | `main.rs:196` app.create answers with the app it made | `rpc.rs:729`: after a forget, the path is still on the forgotten list; nothing calls `remember_path` |
| `SettlesAnyhow` | `main.rs:357` "make the store and the live library agree"; `kt-registry/src/lib.rs:201` "any event triggers a full rescan" | of two rescans that overlap the older may finish last (`main.rs:371`); a row that could not be written or removed (`main.rs:395`, `:403`) is logged only; what changes between the first scan (`main.rs:175`) and the watch (`main.rs:287`) is seen by nobody |
| **addresses** `NamesGivenOnce` | `bonjour.rs:211` "so two apps wanting `notes` do not race each other" | `main.rs:144`, `:204`: two announcers, each with its own set of claimed names, so a later scan gives out a name of the first scan's again |
| `OneFolderOneSlug` | `slug.rs:42` collisions resolve "rather than one app silently shadowing another" | `kt-registry/src/lib.rs:92`: a new folder is kept apart from the folders before it only |
| `OneAppPerAddress` | `rpc.rs:380` "two apps answering to one address means one of them is silently unreachable" | `rpc.rs:366`, `:383`: clearing a label, or a new slug, is not checked against labels |
| `NamesAreWithdrawn` | `kt-mdns/src/lib.rs:35` dropping withdraws the announcement | `bonjour.rs:275`: the name stays claimed, so an app that comes back is announced with a suffix |
| **relay** `OwnerIsTold` | `control.rs:150` "say so plainly rather than showing a spinner that will never stop" | `relay/mod.rs:221`: an inactive subscription is retried with a backoff, and shown as connecting |
| `UnsupportedMeansNoneShared` | `conn.rs:86` "The only way this fails is no version in common" | `version.rs`, `negotiate`: a range whose ends are the wrong way round fails too, and is reported to the owner as a reason to update |
| `LegalOpenersAreRead` | `codec.rs:24` the largest message is 64 KiB | `session.rs:80`: the prefix and what follows count too, so the longest openers are refused when their last piece comes late |
| `AnswersAreWhole` | `stream.rs:11` "A stream ends when the response ends" | `session.rs:297`: the cap on request bodies is applied to answers too, after the head is sent: of a long one only the head arrives |
| `TunnelComesUp` | `relay/mod.rs:156` "Keep a relay connection up for as long as the daemon runs" | `relay/conn.rs:118`: no timeout covers the handshake or the wait for the control stream; a silent loss there is never noticed |
| **account** `UnlinkSticks` | `account.rs:435` "What this must do today is stop publishing and stop claiming to." | `account.rs:369`: nobody keeps the task that checks a restored link, so its answer links again after an unlink; and a poll that has its answer when it is aborted runs on and links too (`NeverLinked` in place of `RestoredOrNot` shows it alone) |
| `TunnelGoneIsSaid` | `account.rs:458` the tunnel is gone the moment the task is | `account.rs:456`: the aborted task runs to its next await and may still say it is connected |
| `LinkIsKept` | `account.rs:409` refuses an install that is linked, and "Only a definite negative unlinks" (`verify_link`) | `account.rs:418`: checked under one lock, overwritten with waiting under the next; if a poll has linked between them the link shown is lost, and the silence that follows unlinks |
| `UnlinkedIsNotDialled` | `account.rs:435` "stop publishing and stop claiming to" | `account.rs:465`: three settings, one after the other; a crash between, or a write that fails, leaves the address, and the next start dials it |
| `WaitingIsAsked` | `account.rs:399` answer with the page, and begin asking | `account.rs:507`: a poll on its way out counts as running |
| **app_storage** `StoreFitsItsQuota`, `CanAlwaysShrink` | `app_store.rs:26`, `:146` the bytes of keys plus values; an app can always shrink itself | `app_store.rs:154`, `:160`: SQLite's `length()` counts characters, so text outside ASCII is counted short when stored and long when written |
| `AppsKeepApart` | `app_store.rs:3` an app never reads another's data | `rpc.rs:198`: forgetting leaves the store; the next app with that slug finds it. `drop_app` (`app_store.rs:333`) has no caller |
| `OwnersChoiceHolds` | `index.js:10` "Where those bytes end up is the owner's choice, not the app's" | `index.js:58`: what a page settled for holds until it is loaded again, and the daemon takes a shared write whatever the mode is by then |
| `SharedIsNotKeptAlone` | `index.js:18` "an edit on a phone shows up on a laptop" | `index.js:62`: one question that fails, for whatever reason, makes the page keep everything to the device |
| **window** `ReaderIsShown` | `presence.rs:51` returns true when this changes what anyone would see | `presence.rs:60`: an entry that expired but is not swept yet makes a return look like no change |
| `LossIsMadeGood` | `socket.rs:147` "told to resynchronise rather than left believing…" | `socket.rs:162`: the loss is an error event, which the window writes to its console (`events.ts:61`); and `src-tauri/src/lib.rs:133` emits the resync before the new subscription exists; `main.rs:273`: a sweep while a rescan has the library out tells nobody; `presence.ts:24`: a fetch that fails is not made again |
| `QuitAlwaysStopsServing` | `src-tauri/src/lib.rs:82` "one way to actually stop serving" | `daemon.rs:93`, `:99`: a daemon that is spawned and not stored yet, or whose handle a second one replaced, is not stopped |
| `HealthyIsNotReplaced` | `daemon.rs:4` "a daemon that is already healthy is adopted rather than replaced" | `daemon.rs:69`: one that was slow to answer once is stopped, even if it has come to by then |
| `DeadIsRestarted` | `daemon.rs:5` the shell "restarts one that died" | `ensure_running` is called at start and by the button; nothing acts in between (`is_alive` only tells the window whose daemon it is) |
| **machine** `OneDaemonServes` | `socket.rs:32` "keeps two daemons from serving one workspace" | `socket.rs:42`: two that start over one stale file both find nobody, and each removes and binds |
| `RunningIsLeftAlone` | `socket.rs:29` "A socket file that still has a listener belongs to a running daemon and is left alone" | `socket.rs:45`: any error of the connect counts as no listener; `main.rs:343`, `socket.rs:194`: a daemon that stops removes whatever file is there, when its own listener has been closed long enough for another to bind |
| `IdentityIsNeverReplaced` | `keys.rs:17` a fresh install key is a different machine; none is invented silently | two first starts each save one; the second replaces the first, which the first daemon goes on using |
| `EveryServiceHasItsTurn` | `discover.rs:411` "one silent service cannot eat the whole allowance and starve the rest" | `discover.rs:418`: an instance is resolved against the whole deadline, so one that is asleep can |
| `SwitchesAlwaysStayPut` | `notify.rs:47` two windows "would otherwise race" | `rpc.rs:639`: read, merged and written in two locked steps |
| `MarkAlwaysGrows` | `rpc.rs:672` "Never backwards." | `rpc.rs:674`: the same two steps |
| `NothingIsSwallowedThatSecond` | `Notifications.tsx:375` not at "now", "which would swallow anything logged between the fetch and the write" | the mark is in seconds, so a row of the same second as the newest one is |
| `NothingOlderIsSwallowed` | `Notifications.tsx:370` "What happened while you were away, with the unread ones marked." | `Notifications.tsx:395`: the surface keeps the newest 50 rows that are no requests, and marks read whatever is older than the first of them, listed or not |
| `AnsweredElsewhereStands` | `notify.ts:260` "Answered elsewhere in the meantime" fails | `device.approve` does not look at the status: a banner's late yes approves a device that was refused or revoked meanwhile |
| `FoldersAreAlwaysOnes` | `authoring.rs:121` "`Name`, or `Name 2` if that is taken" | `authoring.rs:123`: asked before it is made; two callers meet in one folder |
| `NamesFit` | `authoring.rs:111` "short enough to stay under the 255-byte limit" | 64 characters are up to 256 bytes |
| `OwnFolderIsNoApp` | `kt-registry/src/workspace.rs:49` watching its own folder would have the daemon "serving its own database" | only the folder and what is in it is refused: the folder above it is accepted, and so is a folder inside a repository |

The properties of `addresses` also hold with a responder that is out of reach (`MayFail = TRUE`) and one command.

Read and not modelled as a step of its own: `app_store.rs:293` applies a batch and then sets the version outside a transaction, unlike the
system database, so a crash between the two leaves an app's store that does not open again: the batch is a plain `CREATE TABLE`.

## 7. What is not modelled

- **The CLI and the scratch crates**: they print what the socket answers, and keep nothing.
- **The access log** and the notice that somebody asks for access, but for the rows that the seen mark is about: written and never read by what is modelled.
- **The table's unique path index** (`kt-store/src/lib.rs:85`): slugs and folders are one in `Workspace`, and `Addresses` has no table.
- **The wording of pages, listings and messages, content types, compression, the JSON envelope**: formatting.
- **Live reload**: it forwards an event of the file system.
- **Encodings inside a frame**: whether it parses is modelled. Requests that arrive by the tunnel are the relayed peers of `Gate`.
- **Cryptography**: a cookie verifies or it does not, a signature is a term; ids and keys do not repeat.
- **Shutdown**: `Startup` has its two steps and the crash; what tasks drop when they are ended is left out.
- **The relay edge, the cloud's accounts API, the mDNS responder, the keystore, the browser, SQLite, the file system's own limits**: they are environment. Their
  actions do what the code must cope with.

## 8. The plan

Done first, in this order: the gate, since all else rests on it; pairing and the workspace, which
decide who is let in to what, with the first theorems; the relay and the account; storage; the window; names. Then what
surrounds them: the front door, start-up and keys, the tunnel's layers with the first refinement, notifications, authoring, discovery, the shell, and
the pages' side of storage.

Then the theorems: one for every safety invariant and every action property of a passing run.

Next:

1. `Edges`: two `RelayTunnel`s with one key and an edge that supersedes one of them (`control.rs:123`).
2. The table's unique path index beside `Addresses`.
3. An abstract gate-and-library specification, "a request is served what the owner last allowed or something older",
   and `Workspace` shown to implement it.
