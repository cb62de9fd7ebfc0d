----------------------------- MODULE GateRequests -----------------------------
(***************************************************************************)
(* Every request the gate can be asked about: an app in any of its settings, *)
(* a device row in any status, and a peer at any address by either route.   *)
(* The owner changes the app or the device between two requests.            *)
(***************************************************************************)
EXTENDS Gate

VARIABLES app, status, peer, household, own

vars == <<app, status, peer, household, own>>

\* A relayed request carries no socket address.
WellFormed(p) == p.relayed => p.address = "none"

Init == /\ app \in App
        /\ status \in DeviceStatus
        /\ peer \in {p \in Peer : WellFormed(p)}
        /\ household \in BOOLEAN
        /\ own \in BOOLEAN

OwnerEditsApp    == app' \in App /\ UNCHANGED <<status, peer, household, own>>
OwnerJudges      == status' \in DeviceStatus /\ UNCHANGED <<app, peer, household, own>>

\* Faulty variant: a tunnelled request given the address of the edge it came by.
AnotherRequestAddressed == /\ peer' \in Peer
                           /\ household' \in BOOLEAN
                           /\ own' \in BOOLEAN
                           /\ UNCHANGED <<app, status>>

AnotherRequest   == /\ peer' \in {p \in Peer : WellFormed(p)}
                    /\ household' \in BOOLEAN
                    /\ own' \in BOOLEAN
                    /\ UNCHANGED <<app, status>>

Next == OwnerEditsApp \/ OwnerJudges \/ AnotherRequest

Spec == Init /\ [][Next]_vars

Allowed(p, o) == Decide(app, status, PeerContext(p, household, o)) = "allow"

TypeOK == /\ app \in App
          /\ status \in DeviceStatus
          /\ peer \in Peer
          /\ household \in BOOLEAN
          /\ own \in BOOLEAN
          /\ WellFormed(peer)

\* Arriving by the relay only ever takes trust away: whatever a relayed request
\* is allowed, the same device is allowed from any address on the local network
\* (RequestContext::arrived_by_relay, kt-auth).
RelayOnlyTakesTrustAway ==
    \A address \in Address :
        Allowed([address |-> "none", relayed |-> TRUE], own)
            => Allowed([address |-> address, relayed |-> FALSE], own)

\* The switch that turns the own-address exemption off can refuse a request
\* but never admits one (TrustSource::own_address, kt-daemon).
OwnAddressSwitchOnlyRefuses == Allowed(peer, FALSE) => Allowed(peer, TRUE)

\* What App::public_url advertises is what the gate serves over the relay: a
\* relayed request is only ever served for a published app at a level the relay
\* reaches, and at such a level some device is.  A row marked owner, which the
\* daemon reads from the store but never writes, is the one exception.
AdvertisedIsServed ==
    LET relayed == [address |-> "none", relayed |-> TRUE]
        reaches == IsPublished(app.relay) /\ ReachableOverRelay(app.visibility)
    IN  /\ (Allowed(relayed, own) /\ status # "owner") => reaches
        /\ (reaches /\ ~app.paused)
             => Decide(app, "approved", PeerContext(relayed, household, own)) = "allow"

\* A level that requires no session gives every device the answer it gives a
\* browser with no cookie, a revoked device alone excepted.
CookieIsIdleWithoutSession ==
    (~RequiresSession(app.visibility) /\ status # "revoked")
        => LET ctx == PeerContext(peer, household, own)
           IN  Decide(app, status, ctx) = Decide(app, "absent", ctx)

\* No level, address or route serves a revoked device.
RevokedIsRefusedEverywhere == status = "revoked" => ~Allowed(peer, own)

\* What reaches an app besides its visibility only ever takes trust away, never adds any,
\* whoever asks and by whichever route: the relay, the owner's own address, a cookie on an
\* app that wants none, a device that was revoked.
TrustIsOnlyTakenAway ==
    /\ TypeOK
    /\ RelayOnlyTakesTrustAway
    /\ OwnAddressSwitchOnlyRefuses
    /\ CookieIsIdleWithoutSession
    /\ RevokedIsRefusedEverywhere
=============================================================================
