------------------------------- MODULE Pairing -------------------------------
(***************************************************************************)
(* Devices, invite links and the requests that create and use them.         *)
(*                                                                         *)
(* Every HTTP request and every owner command runs on its own task.  The    *)
(* store's mutex is held for one statement at a time, so a request is a     *)
(* sequence of atomic statements and anything may run between two of them:  *)
(* the row a request read may have been approved, revoked or forgotten by   *)
(* the time the request writes it back.                                     *)
(***************************************************************************)
EXTENDS Gate, Integers

CONSTANTS Browser,      \* viewers' browsers, each with one cookie jar
          Request,      \* slots for HTTP requests in flight
          Device,       \* device ids DeviceId::generate can return
          Invite,       \* tokens of the links the owner may create
          Pinning,      \* links created with pin_to_first_device
          Instant,      \* links created with auto_approve_on_household
          Expiring,     \* links created with an expires_at
          None

ASSUME PairingAssumption ==
    /\ Pinning \subseteq Invite
    /\ Instant \subseteq Invite
    /\ Expiring \subseteq Invite
    /\ None \notin Device \union Invite \union Browser

NamedBy == {"guess", "network", "owner"}
Step    == {"idle", "serve", "identify", "touch", "check", "instant", "reply"}

VARIABLES status,     \* devices.status, "absent" where there is no row
          namedBy,    \* devices.named_by
          minted,     \* ids generated so far: random, so never generated twice
          lookups,    \* ids whose name a discovery thread is asking for
          issued, revoked, expired,   \* the invites table
          pinned,     \* invites.pinned_device
          cookie,     \* the session cookie each browser holds
          req,        \* the requests in flight
          granted     \* history: devices ever approved by the owner or a link

rows    == <<status, namedBy>>
links   == <<issued, revoked, expired, pinned>>
vars    == <<status, namedBy, minted, lookups, issued, revoked, expired,
             pinned, cookie, req, granted>>

\* What a handler keeps on its stack.  cookie and invite are what it arrived
\* with; browser is who gets a Set-Cookie if identify mints a session.
\* wasStatus and wasNamedBy are the device row as get_device returned it;
\* standing and wasPinned are the invite row as get_invite returned it.  At step
\* "serve", device is the row an Invited app's page is served on the strength of.
\* A field is reset once the handler will not read it again.
Idle == [step |-> "idle", browser |-> None, cookie |-> None,
         invite |-> None, device |-> None, wasStatus |-> "absent",
         wasNamedBy |-> "guess", standing |-> "ended", wasPinned |-> None]

Init == /\ status  = [d \in Device |-> "absent"]
        /\ namedBy = [d \in Device |-> "guess"]
        /\ minted = {} /\ lookups = {}
        /\ issued = {} /\ revoked = {} /\ expired = {}
        /\ pinned = [i \in Invite |-> None]
        /\ cookie = [b \in Browser |-> None]
        /\ req = [r \in Request |-> Idle]
        /\ granted = {}

At(r, step) == req[r].step = step
Row(d) == d \in Device /\ status[d] # "absent"

-----------------------------------------------------------------------------
(* A viewer opens an app.                                                  *)

\* From this machine, from another on the network, or down the tunnel.
Origin == {[address |-> "own",   relayed |-> FALSE],
           [address |-> "other", relayed |-> FALSE],
           [address |-> "none",  relayed |-> TRUE]}

\* The gate runs on the device row as it is now; the file goes out, or the wait
\* page is begun, a step later.  A refusal only writes the log.
Open(r, b) ==
    /\ At(r, "idle")
    /\ \E app \in App, peer \in Origin :
         LET d       == cookie[b]
             ctx     == PeerContext(peer, TRUE, TRUE)
             outcome == Gated(app, IF Row(d) THEN status[d] ELSE "absent", ctx)
         IN  \/ /\ outcome = "serve"
                /\ req' = [req EXCEPT ![r] =
                     [Idle EXCEPT !.step = "serve",
                                  !.device = IF app.visibility = "invited" /\ ~ctx.loopback
                                             THEN d ELSE None]]
             \/ /\ outcome = "waiting"
                /\ req' = [req EXCEPT ![r] =
                     [Idle EXCEPT !.step = "identify", !.browser = b, !.cookie = d]]
    /\ UNCHANGED <<rows, minted, lookups, links, cookie, granted>>

\* guarded, Gated::Serve: "opened" in the access log, and the file.
Serve(r) ==
    /\ At(r, "serve")
    /\ req' = [req EXCEPT ![r] = Idle]
    /\ UNCHANGED <<rows, minted, lookups, links, cookie, granted>>

-----------------------------------------------------------------------------
(* A viewer follows an invite link.                                        *)

\* redeem's own lookup.  An unknown token ends here, before anyone is
\* identified.  The clock was read first, so the copy decides expiry too.
FollowLink(r, b, i) ==
    /\ At(r, "idle")
    /\ i \in issued
    /\ req' = [req EXCEPT ![r] =
         [Idle EXCEPT !.step = "identify", !.browser = b, !.cookie = cookie[b],
                      !.invite = i,
                      !.standing = IF i \in revoked \union expired THEN "ended" ELSE "active",
                      !.wasPinned = pinned[i]]]
    /\ UNCHANGED <<rows, minted, lookups, links, cookie, granted>>

-----------------------------------------------------------------------------
(* identify: find or create the device behind a request.                   *)

AfterIdentify(r) == IF req[r].invite = None THEN "reply" ELSE "check"

\* The cookie names a row: read it.
IdentifyKnown(r) ==
    LET d == req[r].cookie IN
    /\ At(r, "identify")
    /\ Row(d)
    /\ req' = [req EXCEPT ![r] =
         [@ EXCEPT !.step = "touch", !.device = d, !.browser = None, !.cookie = None,
                   !.wasStatus = status[d], !.wasNamedBy = namedBy[d]]]
    /\ UNCHANGED <<rows, minted, lookups, links, cookie, granted>>

\* Faulty variant: a newcomer holding a link is approved before the link is checked.
IdentifyNewApproving(r) ==
    /\ At(r, "identify")
    /\ ~Row(req[r].cookie)
    /\ \E d \in Device \ minted :
         /\ minted' = minted \union {d}
         /\ status' = [status EXCEPT ![d] = IF req[r].invite = None THEN "pending"
                                           ELSE "approved"]
         /\ namedBy' = [namedBy EXCEPT ![d] = "guess"]
         /\ lookups' = lookups
         /\ req' = [req EXCEPT ![r] =
              [@ EXCEPT !.step = AfterIdentify(r), !.device = d, !.cookie = None]]
    /\ UNCHANGED <<links, cookie, granted>>

\* No cookie, or a cookie for a row that is gone: a new pending device.  Its id
\* is nobody else's, so the failed lookup and the insert are one step.  Asking
\* for access, unlike redeeming, also starts the thread that looks its name up,
\* unless the peer has no IPv4 address to ask or nothing here can ask.
IdentifyNew(r) ==
    /\ At(r, "identify")
    /\ ~Row(req[r].cookie)
    /\ \E d \in Device \ minted :
         /\ minted' = minted \union {d}
         /\ status' = [status EXCEPT ![d] = "pending"]
         /\ namedBy' = [namedBy EXCEPT ![d] = "guess"]
         /\ \/ lookups' = lookups
            \/ req[r].invite = None /\ lookups' = lookups \union {d}
         /\ req' = [req EXCEPT ![r] =
              [@ EXCEPT !.step = AfterIdentify(r), !.device = d, !.cookie = None]]
    /\ UNCHANGED <<links, cookie, granted>>

\* upsert_device with the copy: the conflict clause takes the copy's status and
\* leaves the name alone; with no row left to conflict with, the whole copy goes in.
Touch(r) ==
    LET d == req[r].device IN
    /\ At(r, "touch")
    /\ status' = [status EXCEPT ![d] = req[r].wasStatus]
    /\ namedBy' = [namedBy EXCEPT ![d] = IF Row(d) THEN @ ELSE req[r].wasNamedBy]
    /\ req' = [req EXCEPT ![r] = [@ EXCEPT !.step = AfterIdentify(r),
                                            !.wasStatus = "absent", !.wasNamedBy = "guess"]]
    /\ UNCHANGED <<minted, lookups, links, cookie, granted>>

-----------------------------------------------------------------------------
(* redeem, after identify.                                                 *)

\* Faulty variants: the update that overwrites the pin, and a schema without its
\* foreign key.
NewPinOverwriting(q) == IF q.invite \in Pinning THEN q.device ELSE pinned[q.invite]
KeyUnchecked(pin) == TRUE

\* Invite::check, on the copies the handler holds.
MayRedeem(q) == q.standing = "active" /\ q.wasPinned \in {None, q.device}
PinsNow(q)   == q.invite \in Pinning /\ q.wasPinned = None

\* COALESCE(pinned_device, ?2).
NewPin(q) == IF pinned[q.invite] = None /\ PinsNow(q) THEN q.device
             ELSE pinned[q.invite]

\* The schema's foreign key on pinned_device, enforced on every connection.
KeyHolds(pin) == pin = None \/ Row(pin)

\* Either the check refuses or the statement breaks the key: an error page,
\* which carries no cookie even when identify minted one.
RefuseLink(r) ==
    /\ At(r, "check")
    /\ ~MayRedeem(req[r]) \/ ~KeyHolds(NewPin(req[r]))
    /\ req' = [req EXCEPT ![r] = Idle]
    /\ UNCHANGED <<rows, minted, lookups, links, cookie, granted>>

RecordRedemption(r) ==
    LET q == req[r] IN
    /\ At(r, "check")
    /\ MayRedeem(q)
    /\ KeyHolds(NewPin(q))
    /\ pinned' = [pinned EXCEPT ![q.invite] = NewPin(q)]
    /\ req' = [req EXCEPT ![r] =
         [@ EXCEPT !.step = IF q.invite \in Instant THEN "instant" ELSE "reply",
                   !.invite = None, !.standing = "ended", !.wasPinned = None]]
    /\ UNCHANGED <<rows, minted, lookups, issued, revoked, expired, cookie, granted>>

\* A link that waives the prompt approves whatever row is there.
ApproveInstantly(r) ==
    LET d == req[r].device IN
    /\ At(r, "instant")
    /\ status' = [status EXCEPT ![d] = IF Row(d) THEN "approved" ELSE @]
    /\ granted' = IF Row(d) THEN granted \union {d} ELSE granted
    /\ req' = [req EXCEPT ![r] = [@ EXCEPT !.step = "reply"]]
    /\ UNCHANGED <<namedBy, minted, lookups, links, cookie>>

\* Faulty variant: the session is minted from the wrong field.
ReplyMisaddressed(r) ==
    /\ At(r, "reply")
    /\ cookie' = [b \in Browser |-> IF b = req[r].browser THEN req[r].browser ELSE cookie[b]]
    /\ req' = [req EXCEPT ![r] = Idle]
    /\ UNCHANGED <<rows, minted, lookups, links, granted>>

\* The response arrives, with Set-Cookie when a session was minted.
Reply(r) ==
    /\ At(r, "reply")
    /\ cookie' = [b \in Browser |-> IF b = req[r].browser THEN req[r].device ELSE cookie[b]]
    /\ req' = [req EXCEPT ![r] = Idle]
    /\ UNCHANGED <<rows, minted, lookups, links, granted>>

\* The browser hung up: nobody receives the cookie.
LoseReply(r) ==
    /\ At(r, "reply")
    /\ req' = [req EXCEPT ![r] = Idle]
    /\ UNCHANGED <<rows, minted, lookups, links, cookie, granted>>

-----------------------------------------------------------------------------
(* The discovery thread, the clock, and the owner.                         *)

\* Faulty variant: the update without its named_by = 'guess' guard.
DiscoverNameAlways(d) ==
    /\ d \in lookups
    /\ lookups' = lookups \ {d}
    /\ namedBy' = [namedBy EXCEPT ![d] = IF Row(d) THEN "network" ELSE @]
    /\ UNCHANGED <<status, minted, links, cookie, req, granted>>

\* The network names the device, which only improves on a guess.
DiscoverName(d) ==
    /\ d \in lookups
    /\ lookups' = lookups \ {d}
    /\ namedBy' = [namedBy EXCEPT ![d] = IF Row(d) /\ @ = "guess" THEN "network" ELSE @]
    /\ UNCHANGED <<status, minted, links, cookie, req, granted>>

DiscoverNothing(d) ==
    /\ d \in lookups
    /\ lookups' = lookups \ {d}
    /\ UNCHANGED <<rows, minted, links, cookie, req, granted>>

\* device.approve, device.deny and device.revoke; a row that is gone is an error.
SetStatus(d, s) ==
    /\ Row(d)
    /\ status' = [status EXCEPT ![d] = s]
    /\ granted' = IF s = "approved" THEN granted \union {d} ELSE granted
    /\ UNCHANGED <<namedBy, minted, lookups, links, cookie, req>>

Approve(d) == SetStatus(d, "approved")
Revoke(d)  == SetStatus(d, "revoked")

\* device.rename, and the first statement of device.approve with a name.
Rename(d) ==
    /\ Row(d)
    /\ namedBy' = [namedBy EXCEPT ![d] = "owner"]
    /\ UNCHANGED <<status, minted, lookups, links, cookie, req, granted>>

\* One transaction: the links pinned to the device are unpinned, the row goes.
Forget(d) ==
    /\ Row(d)
    /\ pinned' = [i \in Invite |-> IF pinned[i] = d THEN None ELSE pinned[i]]
    /\ status' = [status EXCEPT ![d] = "absent"]
    /\ namedBy' = [namedBy EXCEPT ![d] = "guess"]
    /\ UNCHANGED <<minted, lookups, issued, revoked, expired, cookie, req, granted>>

CreateInvite(i) ==
    /\ i \notin issued
    /\ issued' = issued \union {i}
    /\ UNCHANGED <<rows, minted, lookups, revoked, expired, pinned, cookie, req, granted>>

RevokeInvite(i) ==
    /\ i \in issued \ revoked
    /\ revoked' = revoked \union {i}
    /\ UNCHANGED <<rows, minted, lookups, issued, expired, pinned, cookie, req, granted>>

Expire(i) ==
    /\ i \in Expiring \ expired
    /\ i \in issued
    /\ expired' = expired \union {i}
    /\ UNCHANGED <<rows, minted, lookups, issued, revoked, pinned, cookie, req, granted>>

\* The cookie's ninety days are up, the jar was cleared, or the key that signed
\* it was replaced.
LoseCookie(b) ==
    /\ cookie[b] # None
    /\ cookie' = [cookie EXCEPT ![b] = None]
    /\ UNCHANGED <<rows, minted, lookups, links, req, granted>>

-----------------------------------------------------------------------------
RequestStep(r) ==
    \/ Serve(r)
    \/ IdentifyKnown(r) \/ IdentifyNew(r) \/ Touch(r)
    \/ RefuseLink(r) \/ RecordRedemption(r) \/ ApproveInstantly(r)
    \/ Reply(r) \/ LoseReply(r)

Viewer ==
    \/ \E r \in Request, b \in Browser : Open(r, b)
    \/ \E r \in Request, b \in Browser, i \in Invite : FollowLink(r, b, i)
    \/ \E r \in Request : RequestStep(r)
    \/ \E b \in Browser : LoseCookie(b)

Owner ==
    \/ \E d \in Device : Approve(d) \/ Revoke(d) \/ Rename(d) \/ Forget(d)
    \/ \E i \in Invite : CreateInvite(i) \/ RevokeInvite(i)

Environment ==
    \/ \E d \in Device : DiscoverName(d) \/ DiscoverNothing(d)
    \/ \E i \in Invite : Expire(i)

Next == Viewer \/ Owner \/ Environment

Spec == Init /\ [][Next]_vars

-----------------------------------------------------------------------------
(* Properties.                                                             *)

RequestRecord ==
    [step : Step, browser : Browser \union {None}, cookie : Device \union {None},
     invite : Invite \union {None}, device : Device \union {None},
     wasStatus : DeviceStatus, wasNamedBy : NamedBy, standing : {"active", "ended"},
     wasPinned : Device \union {None}]

TypeOK ==
    /\ status \in [Device -> DeviceStatus]
    /\ namedBy \in [Device -> NamedBy]
    /\ minted \subseteq Device /\ lookups \subseteq Device
    /\ issued \subseteq Invite /\ revoked \subseteq Invite /\ expired \subseteq Invite
    /\ pinned \in [Invite -> Device \union {None}]
    /\ cookie \in [Browser -> Device \union {None}]
    /\ req \in [Request -> RequestRecord]
    /\ granted \subseteq Device

\* However requests and owner commands interleave, a row says approved only for
\* a device the owner, or a link that waives the prompt, did approve: a stale
\* copy written back can repeat an approval but never invent one.
ApprovedWasGranted ==
    \A d \in Device : status[d] = "approved" => d \in granted

\* An Invited app is on its way out to another machine only on the strength of
\* a device somebody approved.
ServedWasGranted ==
    \A r \in Request : At(r, "serve") => req[r].device \in granted \union {None}

\* A pinned link names a device that is still in the list, so the owner can see
\* who a link is bound to and nobody is locked out by a row that is gone.
PinnedDeviceIsListed ==
    \A i \in Invite : pinned[i] # None => Row(pinned[i])

\* Once a link is pinned, no redemption moves the pin: it stays until the owner
\* forgets the device (COALESCE in record_redemption, forget_device).
PinMovesOnlyByForgetting ==
    [][\A i \in Invite :
         pinned[i] \notin {None, pinned'[i]}
             => pinned'[i] = None /\ status'[pinned[i]] = "absent"]_vars

\* "Nothing overwrites what the owner typed": as long as the row lives, neither
\* the network's late answer nor a stale copy weakens the source of its name.
Strength(n) == CASE n = "guess" -> 0 [] n = "network" -> 1 [] n = "owner" -> 2
NameOnlyImproves ==
    [][\A d \in Device :
         Row(d) /\ Row(d)' => Strength(namedBy[d]) <= Strength(namedBy'[d])]_vars

\* InvitePolicy::pin_to_first_device: "a forwarded link is inert".  A redemption
\* of a pinning link is never recorded for one device while the link is bound,
\* by then, to another.
PinnedLinkIsInertElsewhere ==
    [][\A r \in Request :
         RecordRedemption(r) /\ req[r].invite \in Pinning
             => pinned'[req[r].invite] \in {None, req[r].device}]_vars

\* DeviceStatus::Revoked: "Never silently upgraded back".  A refused device
\* leaves that status by the owner's command or by following an instant link.
RevokedIsNeverSilentlyUpgraded ==
    [][\A d \in Device :
         status[d] = "revoked" /\ status'[d] \notin {"revoked", "absent"}
             => Approve(d) \/ \E r \in Request : ApproveInstantly(r)]_vars
=============================================================================
