------------------------------ MODULE Addresses ------------------------------
(***************************************************************************)
(* Which app answers to which name: the slug its folder gives it, the       *)
(* hostname announced for it on the network, and the public label the owner *)
(* may edit.                                                               *)
(*                                                                         *)
(* Folders and manifests live on disk; a rescan reads them, takes the       *)
(* library out, announces what is new and puts a library back.  The first   *)
(* scan is made before anything is watched, with an announcer of its own;   *)
(* later rescans share another, and run on the watcher's thread and on the  *)
(* task of every client whose command ended, and nothing keeps them apart.  *)
(* Workspace has the steps within a scan; here a scan is one step, and so   *)
(* is the announcing.                                                       *)
(*                                                                         *)
(* A name is a sequence of numbers: <<1, 2>> is "notes-2" where <<1>> is    *)
(* "notes", and the sequences are ordered as the strings are.               *)
(***************************************************************************)
EXTENDS Naturals, FiniteSets, Sequences, SequencesExt

CONSTANTS Folder,       \* numbers, in the order of the paths
          BaseName,     \* what slugify makes of a folder's name: [Folder -> names]
          Label,        \* what the owner types for a public label
          Client, Watcher,
          Handle,       \* handles the account may give this install
          Elsewhere,    \* names another machine on the network defends
          MayFail,      \* whether the responder may be out of reach
          MaxHands,     \* bound: changes made to the folders by hand
          MaxCommands,  \* bound: commands, and changes of the handle
          NoName, NoFolder

Name == Seq(Nat) \ {<<>>}

ASSUME AddressesAssumption ==
    /\ Folder \subseteq Nat
    /\ BaseName \in [Folder -> Name] /\ Label \subseteq Name
    /\ Watcher \notin Client /\ MayFail \in BOOLEAN
    /\ NoName \notin Name \union Handle /\ NoFolder \notin Folder
    /\ MaxHands \in Nat /\ MaxCommands \in Nat

\* Who rescans: the watcher's stands for main's own first scan too.
Thread == Client \union {Watcher}

\* The announcer of the first scan, and the one of all that follow.
Announcer == {"first", "later"}

VARIABLES disk,       \* the folders there, and the slug and label in their manifests
          watched,    \* the first scan is over and Registry::watch has begun
          dirty,      \* the watcher has something to wake up for
          handle,     \* the library's relay_identity
          library,    \* Library::apps
          claimed,    \* BonjourAnnouncer::claimed, of each
          conflicts,  \* BonjourAnnouncer::conflicts, of each
          thread,     \* what each thread is doing
          excuses,    \* history: which of slug and label something went unchecked for
          hands, commands

vars == <<disk, watched, dirty, handle, library, claimed, conflicts, thread, excuses, hands, commands>>

Idle == [step |-> "idle", folder |-> NoFolder, label |-> NoName, records |-> <<>>, previous |-> {}]
Bare == [slug |-> NoName, label |-> NoName]

\* The daemon starts with the folders it finds, and scans them.
Init ==
    /\ \E there \in SUBSET Folder : IsFiniteSet(there) /\ disk = [f \in there |-> Bare]
    /\ watched = FALSE /\ dirty = FALSE
    /\ handle \in Handle \union {NoName}
    /\ library = {}
    /\ claimed = [a \in Announcer |-> {}] /\ conflicts = [a \in Announcer |-> {}]
    /\ thread = [t \in Thread |-> IF t = Watcher THEN [Idle EXCEPT !.step = "scan"] ELSE Idle]
    /\ excuses = {}
    /\ hands = 0 /\ commands = 0

\* AppManifest::effective_public_label.
Effective(m) == IF m.label = NoName THEN m.slug ELSE m.label

OnDisk == {f \in DOMAIN disk : disk[f].slug # NoName}

-----------------------------------------------------------------------------
(* Names that are free.                                                    *)

\* The name itself, or the first suffix from 2 on that nobody has.
FirstFree(name, used) ==
    IF name \notin used THEN name
    ELSE Append(name, CHOOSE n \in 2 .. Cardinality(used) + 2 :
             /\ Append(name, n) \notin used
             /\ \A k \in 2 .. n - 1 : Append(name, k) \in used)

\* slug::deduplicate.
Deduplicated(base, taken) == FirstFree(base, taken)

\* The announcer a rescan has: main makes one for its own, and one for all that follow.
InUse == IF watched THEN "later" ELSE "first"

\* Faulty variant: only another machine's objection counts.
RegisteredUnlessObjected(name, ours) == FirstFree(name, conflicts[InUse])

\* BonjourAnnouncer::announce: the name the responder is asked for, free for this announcer.
Registered(name, ours) == FirstFree(name, ours \union conflicts[InUse])

-----------------------------------------------------------------------------
(* Registry::scan.                                                         *)

\* Faulty variant: a new folder takes its slug as it comes.
ScannedAsNamed(found, f) ==
    LET m == IF disk[f].slug # NoName THEN disk[f] ELSE [Bare EXCEPT !.slug = BaseName[f]]
    IN  Append(found, [folder |-> f, slug |-> m.slug, label |-> m.label])

\* load_or_create: a new folder is named apart from those before it.
Scanned(found, f) ==
    LET taken == {found[i].slug : i \in DOMAIN found}
        m     == IF disk[f].slug # NoName THEN disk[f]
                 ELSE [Bare EXCEPT !.slug = Deduplicated(BaseName[f], taken)]
    IN  Append(found, [folder |-> f, slug |-> m.slug, label |-> m.label])

Alone(t) == \A u \in Thread \ {t} : thread[u].step = "idle"

\* The sequences that list a set, each element after those that come before it.
Orders(S, Before(_, _)) ==
    {q \in Bijection(1 .. Cardinality(S), S) :
       \A i, j \in DOMAIN q : i < j => Before(q[i], q[j])}

\* The folders, walked in the order of their paths.
Found(walk) == FoldLeft(Scanned, <<>>, walk)

SlugBefore(m, n) ==
    \/ m # n /\ IsPrefix(m, n)
    \/ \E i \in DOMAIN m \intersect DOMAIN n :
         m[i] < n[i] /\ \A j \in 1 .. i - 1 : m[j] = n[j]

\* By slug, and folders of one slug in the order of their paths.
RecordBefore(a, b) == SlugBefore(a.slug, b.slug) \/ (a.slug = b.slug /\ a.folder < b.folder)

\* A new folder named apart from those before it may have the slug of one after it;
\* and a slug is a label that nobody checks.
Excused(found) ==
    LET new == {r \in Range(found) : disk[r.folder].slug = NoName}
        old == Range(found) \ new
    IN  {x \in {"slug", "label"} :
           \E r \in new, o \in old : r.slug = (IF x = "slug" THEN o.slug ELSE Effective(o))}

Scan(t) ==
    /\ thread[t].step = "scan"
    /\ \E walk \in Orders(DOMAIN disk, <) :
       LET found == Found(walk) IN
       /\ disk' = [f \in DOMAIN disk |->
            LET r == CHOOSE x \in Range(found) : x.folder = f
            IN  [slug |-> r.slug, label |-> r.label]]
       /\ excuses' = excuses \union Excused(found) \union (IF Alone(t) THEN {} ELSE {"label"})
       /\ \E sorted \in Orders(Range(found), RecordBefore) :
            thread' = [thread EXCEPT ![t] = [Idle EXCEPT !.step = "take", !.records = sorted]]
    /\ dirty' = (dirty \/ (watched /\ \E f \in DOMAIN disk : disk[f].slug = NoName))
    /\ UNCHANGED <<watched, handle, library, claimed, conflicts, hands, commands>>

-----------------------------------------------------------------------------
(* Library::replace_announcing.                                            *)

Take(t) ==
    /\ thread[t].step = "take"
    /\ thread' = [thread EXCEPT ![t].step = "install", ![t].previous = library]
    /\ library' = {}
    /\ UNCHANGED <<disk, watched, dirty, handle, claimed, conflicts, excuses, hands, commands>>

\* What is announced under this slug already.
Announced(next, r) == {e \in next.previous : e.slug = r.slug /\ e.host # NoName}

\* The announcement there was, or a new one.
Host(next, r) ==
    IF Announced(next, r) # {} THEN (CHOOSE e \in Announced(next, r) : TRUE).host
    ELSE IF next.heard THEN Registered(r.slug, next.claimed) ELSE NoName

\* Whose announcement it is.
By(next, r) ==
    IF Announced(next, r) # {} THEN (CHOOSE e \in Announced(next, r) : TRUE).by ELSE InUse

Entry(next, r) ==
    [slug |-> r.slug, folder |-> r.folder, label |-> r.label, host |-> Host(next, r), by |-> By(next, r)]

\* The name that is new, if the responder was asked for one.
Given(next, r) == IF Announced(next, r) # {} THEN {} ELSE {Host(next, r)} \ {NoName}

\* Faulty variant: a second record of a slug is put beside the first.
PlacedBeside(next, r) ==
    [next EXCEPT !.previous = {e \in @ : e.slug # r.slug},
                 !.claimed  = @ \union Given(next, r),
                 !.library  = @ \union {Entry(next, r)}]

\* One record placed; the last record of a slug is the one that is served.
Placed(next, r) ==
    [next EXCEPT !.previous = {e \in @ : e.slug # r.slug},
                 !.claimed  = @ \union Given(next, r),
                 !.library  = {e \in @ : e.slug # r.slug} \union {Entry(next, r)}]

\* The responder hears what is announced, or cannot be reached.
Install(t) ==
    /\ thread[t].step = "install"
    /\ \E heard \in {TRUE, ~MayFail} :
       LET placed == FoldLeft(Placed, [previous |-> thread[t].previous, claimed |-> claimed[InUse],
                                       library |-> {}, heard |-> heard],
                              thread[t].records)
       IN  /\ library' = placed.library
           /\ claimed' = [claimed EXCEPT ![InUse] = placed.claimed]
    /\ thread' = [thread EXCEPT ![t] = Idle]
    /\ UNCHANGED <<disk, watched, dirty, handle, conflicts, excuses, hands, commands>>

-----------------------------------------------------------------------------
(* share.set_public_label.                                                 *)

\* Which apps get to a label: slug_for_public_label finds one of these.
Answering(label) == {e \in library : Effective(e) = label}

\* Faulty variant: whoever asks last has the name.
MayHaveAnyLabel(e, label) == handle # NoName

\* Only one of those that answer to it is looked at, in no particular order.
MayHaveLabel(e, label) ==
    /\ handle # NoName
    /\ Answering(label) = {} \/ e \in Answering(label)

\* The socket is served once the watch has begun.
Command == watched /\ commands < MaxCommands /\ commands' = commands + 1

AskLabel(c, e, label) ==
    /\ thread[c].step = "idle" /\ e \in library
    /\ Command
    /\ MayHaveLabel(e, label)
    /\ thread' = [thread EXCEPT ![c] = [Idle EXCEPT !.step = "write", !.folder = e.folder, !.label = label]]
    /\ excuses' = IF Alone(c) /\ ~dirty THEN excuses ELSE excuses \union {"label"}
    /\ UNCHANGED <<disk, watched, dirty, handle, library, claimed, conflicts, hands>>

\* A null label: back to the slug, and nobody asks who has that.
AskNoLabel(c, e) ==
    /\ thread[c].step = "idle" /\ e \in library
    /\ Command
    /\ thread' = [thread EXCEPT ![c] = [Idle EXCEPT !.step = "write", !.folder = e.folder]]
    /\ excuses' = excuses \union {"label"}
    /\ UNCHANGED <<disk, watched, dirty, handle, library, claimed, conflicts, hands>>

\* write_public_label, then the rescan; without a manifest there, an error.
WriteLabel(c) ==
    LET f == thread[c].folder IN
    /\ thread[c].step = "write"
    /\ IF f \in OnDisk
       THEN /\ disk' = [disk EXCEPT ![f].label = thread[c].label]
            /\ dirty' = TRUE
            /\ thread' = [thread EXCEPT ![c] = [Idle EXCEPT !.step = "scan"]]
       ELSE /\ thread' = [thread EXCEPT ![c] = Idle]
            /\ UNCHANGED <<disk, dirty>>
    /\ UNCHANGED <<watched, handle, library, claimed, conflicts, excuses, hands, commands>>

\* Library::set_relay_identity: an account is linked or unlinked.
SetIdentity(h) ==
    /\ handle # h
    /\ Command
    /\ handle' = h
    /\ UNCHANGED <<disk, watched, dirty, library, claimed, conflicts, thread, excuses, hands>>

-----------------------------------------------------------------------------
(* The folders, the watcher and the network.                               *)

\* What happens before the watch goes unnoticed.
ByHand == hands < MaxHands /\ hands' = hands + 1 /\ dirty' = (dirty \/ watched) /\ UNCHANGED watched

AddFolder(f) ==
    /\ f \notin DOMAIN disk
    /\ ByHand
    /\ disk' = [g \in DOMAIN disk \union {f} |-> IF g = f THEN Bare ELSE disk[g]]
    /\ UNCHANGED <<handle, library, claimed, conflicts, thread, excuses, commands>>

\* "Copy the folder elsewhere and it is still the same app."
CopyFolder(f, from) ==
    /\ f \notin DOMAIN disk /\ from \in OnDisk
    /\ ByHand
    /\ disk' = [g \in DOMAIN disk \union {f} |-> IF g = f THEN disk[from] ELSE disk[g]]
    /\ excuses' = excuses \union {"slug", "label"}
    /\ UNCHANGED <<handle, library, claimed, conflicts, thread, commands>>

RemoveFolder(f) ==
    /\ f \in DOMAIN disk
    /\ ByHand
    /\ disk' = [g \in DOMAIN disk \ {f} |-> disk[g]]
    /\ UNCHANGED <<handle, library, claimed, conflicts, thread, excuses, commands>>

\* Registry::watch, once the first scan is over.
StartWatch ==
    /\ ~watched /\ thread[Watcher].step = "idle"
    /\ watched' = TRUE
    /\ UNCHANGED <<disk, dirty, handle, library, claimed, conflicts, thread, excuses, hands, commands>>

WatcherWakes ==
    /\ dirty /\ thread[Watcher].step = "idle"
    /\ dirty' = FALSE
    /\ thread' = [thread EXCEPT ![Watcher].step = "scan"]
    /\ UNCHANGED <<disk, watched, handle, library, claimed, conflicts, excuses, hands, commands>>

\* on_register: the network objects to a name, some time after it was claimed, and only
\* the announcer that asked for it is told.
Objection(a, name) ==
    /\ name \in (claimed[a] \intersect Elsewhere) \ conflicts[a]
    /\ conflicts' = [conflicts EXCEPT ![a] = @ \union {name}]
    /\ UNCHANGED <<disk, watched, dirty, handle, library, claimed, thread, excuses, hands, commands>>

-----------------------------------------------------------------------------
Rescan(t) == Scan(t) \/ Take(t) \/ Install(t)

Owner ==
    \/ \E c \in Client :
         \/ \E e \in library : AskNoLabel(c, e) \/ \E label \in Label : AskLabel(c, e, label)
         \/ WriteLabel(c)
    \/ \E h \in Handle \union {NoName} : SetIdentity(h)
    \/ \E f \in Folder : AddFolder(f) \/ RemoveFolder(f) \/ \E g \in Folder : CopyFolder(f, g)

Next ==
    \/ Owner
    \/ StartWatch \/ WatcherWakes
    \/ \E t \in Thread : Rescan(t)
    \/ \E a \in Announcer : \E name \in claimed[a] : Objection(a, name)

Spec == Init /\ [][Next]_vars

-----------------------------------------------------------------------------
(* A request names a host: an announced one, or a label under a handle.    *)

Local(name)       == [kind |-> "local", name |-> name, handle |-> NoName]
Public(label, h)  == [kind |-> "public", name |-> label, handle |-> h]

\* Faulty variant: the window is given the slug.
PublicHostOfSlug(e) == Public(e.slug, handle)

\* Library::public_host.
PublicHost(e) == Public(Effective(e), handle)

\* Library::get_by_hostname: the apps it may come back with.
Resolve(host) ==
    IF host.kind = "local" THEN {e \in library : e.host = host.name}
    ELSE IF handle = NoName \/ host.handle # handle THEN {}
    ELSE Answering(host.name)

-----------------------------------------------------------------------------
(* Properties.                                                             *)

Record == [folder : Folder, slug : Name, label : Name \union {NoName}]
Placement == [slug : Name, folder : Folder, label : Name \union {NoName},
              host : Name \union {NoName}, by : Announcer]

TypeOK ==
    /\ DOMAIN disk \subseteq Folder
    /\ \A f \in DOMAIN disk : {disk[f].slug, disk[f].label} \subseteq Name \union {NoName}
    /\ {watched, dirty} \subseteq BOOLEAN /\ handle \in Handle \union {NoName}
    /\ \A e \in library : e \in Placement
    /\ \A e, d \in library : e.slug = d.slug => e = d
    /\ \A a \in Announcer : conflicts[a] \subseteq claimed[a] /\ claimed[a] \subseteq Name
    /\ \A t \in Thread :
         /\ thread[t].step \in {"idle", "write", "scan", "take", "install"}
         /\ \A i \in DOMAIN thread[t].records : thread[t].records[i] \in Record
    /\ excuses \subseteq {"slug", "label"}
    /\ hands \in 0 .. MaxHands /\ commands \in 0 .. MaxCommands

\* BonjourAnnouncer::announce: "two apps wanting notes do not race each other".  No
\* announcer announces two apps under one name, whatever rescans overlap, whoever comes
\* and goes, and whichever thread holds the library; and each knows what it announced.
HostsApart ==
    LET Held == library \union UNION {thread[t].previous : t \in Thread} IN
    /\ \A e \in Held : e.host # NoName => e.host \in claimed[e.by]
    /\ \A e, d \in Held : e.host = d.host /\ e.by = d.by /\ e.host # NoName => e.slug = d.slug

\* slug::deduplicate: "collisions have to resolve rather than one app silently
\* shadowing another".  Two folders share a slug only after a copy with its
\* manifest, or when a new folder sorts before one that has the slug already.
SlugsApart ==
    "slug" \notin excuses =>
        \A f, g \in OnDisk : disk[f].slug = disk[g].slug => f = g

\* share.set_public_label: "two apps answering to one address means one of them is
\* silently unreachable".  A label that was checked while nothing else went on never
\* is another's, unless a label was cleared or a folder turned up under it.
LabelsApart ==
    excuses = {} => \A f, g \in OnDisk : Effective(disk[f]) = Effective(disk[g]) => f = g

\* Library::public_host: "the two have to agree or a URL the window hands somebody is
\* one the daemon will refuse".  The public and the local address the window shows
\* for an app bring a request to that app, unless another answers to its label too, or
\* was given its name by the other announcer.
ShownAddressesAnswer ==
    \A e \in library :
        /\ e.host # NoName =>
             /\ e \in Resolve(Local(e.host))
             /\ \A d \in Resolve(Local(e.host)) : d = e \/ d.by # e.by
        /\ handle # NoName =>
             /\ e \in Resolve(PublicHost(e))
             /\ \A d \in Resolve(PublicHost(e)) : Effective(d) = Effective(e)

\* The same promises without the excuses.
NamesGivenOnce ==
    \A e, d \in library : e.host = d.host /\ e.host # NoName => e = d

OneFolderOneSlug ==
    \A f, g \in OnDisk : disk[f].slug = disk[g].slug => f = g

OneAppPerAddress == "slug" \notin excuses =>
    \A f, g \in OnDisk : Effective(disk[f]) = Effective(disk[g]) => f = g

AtRest == ~dirty /\ \A t \in Thread : thread[t].step = "idle"

\* Announcement: "dropping it withdraws the announcement", which is for "if the app
\* leaves the workspace".
NamesAreWithdrawn ==
    AtRest => UNION {claimed[a] : a \in Announcer} = {e.host : e \in library} \ {NoName}

\* No two apps answer to one name, of the three kinds an app goes by: the host it is
\* announced under, the slug it is stored under, the label it is published under.
NamesApart == TypeOK /\ HostsApart /\ SlugsApart /\ LabelsApart
=============================================================================
