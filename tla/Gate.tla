-------------------------------- MODULE Gate --------------------------------
(***************************************************************************)
(* The visibility gate: who may open an app.  A pure function of the app's  *)
(* settings, of the device row a request's cookie names (if any) and of     *)
(* where the request came from.  kt-auth decides, kt-server builds the      *)
(* context and turns the decision into a page.                              *)
(***************************************************************************)

Visibility == {"private", "network", "invited", "public"}
RelayMode  == {"off", "standard", "strict"}

\* "absent" stands for Option<&Device>::None.
DeviceStatus == {"absent", "pending", "approved", "revoked", "owner"}

\* Where the accepted socket says the request came from: this machine by
\* loopback, this machine by the LAN address it currently holds, another
\* machine, or no address at all (a relayed request has none).
Address == {"loopback", "own", "other", "none"}

App     == [visibility : Visibility, paused : BOOLEAN, relay : RelayMode]
Peer    == [address : Address, relayed : BOOLEAN]
Context == [household : BOOLEAN, loopback : BOOLEAN, relayed : BOOLEAN]

\* Faulty variant: the own-address switch read the wrong way round.
IsLoopbackSwitched(address, own) ==
    \/ address = "loopback"
    \/ ~own /\ address = "own"

\* own is FALSE under KT_NO_OWN_ADDRESS, when only loopback counts.
IsLoopback(address, own) ==
    \/ address = "loopback"
    \/ own /\ address = "own"

\* Faulty variant: a relayed request keeps the household it was computed with.
PeerContextTrusting(peer, household, own) ==
    [household |-> household,
     loopback  |-> ~peer.relayed /\ IsLoopback(peer.address, own),
     relayed   |-> peer.relayed]

PeerContext(peer, household, own) ==
    [household |-> ~peer.relayed /\ household,
     loopback  |-> ~peer.relayed /\ IsLoopback(peer.address, own),
     relayed   |-> peer.relayed]

IsPublished(relay) == relay # "off"

\* What the rest of the daemon believes of a level without asking the gate: a
\* public address is shown only for a level the relay can reach, and a level
\* that needs no session is one the cookie cannot change the answer of.
ReachableOverRelay(visibility) == visibility \in {"invited", "public"}
RequiresSession(visibility)    == visibility \in {"private", "invited"}

\* Faulty variants of the rule below: a public app served only to strangers; a
\* pending device turned away from the household; a device let in unapproved.
LevelRuleRemote(visibility, status, ctx) ==
    CASE visibility = "private" ->
           IF ctx.loopback \/ status = "owner" THEN "allow" ELSE "not_the_owner"
      [] visibility = "network" ->
           IF ctx.loopback \/ ctx.household THEN "allow" ELSE "wrong_network"
      [] visibility = "invited" ->
           IF ctx.loopback \/ status = "approved" THEN "allow" ELSE "needs_pairing"
      [] OTHER -> IF ctx.relayed THEN "allow" ELSE "wrong_network"

LevelRuleJudging(visibility, status, ctx) ==
    CASE visibility = "private" ->
           IF ctx.loopback \/ status = "owner" THEN "allow" ELSE "not_the_owner"
      [] visibility = "network" ->
           IF ctx.loopback \/ (ctx.household /\ status # "pending")
           THEN "allow" ELSE "wrong_network"
      [] visibility = "invited" ->
           IF ctx.loopback \/ status = "approved" THEN "allow" ELSE "needs_pairing"
      [] OTHER -> "allow"

LevelRuleHopeful(visibility, status, ctx) ==
    CASE visibility = "private" ->
           IF ctx.loopback \/ status = "owner" THEN "allow" ELSE "not_the_owner"
      [] visibility = "network" ->
           IF ctx.loopback \/ ctx.household THEN "allow" ELSE "wrong_network"
      [] visibility = "invited" ->
           IF ctx.loopback \/ status \in {"approved", "pending"}
           THEN "allow" ELSE "needs_pairing"
      [] OTHER -> "allow"

\* The level's own rule, reached once pausing, publication and revocation
\* have had their say.
LevelRule(visibility, status, ctx) ==
    CASE visibility = "private" ->
           IF ctx.loopback \/ status = "owner" THEN "allow" ELSE "not_the_owner"
      [] visibility = "network" ->
           IF ctx.loopback \/ ctx.household THEN "allow" ELSE "wrong_network"
      [] visibility = "invited" ->
           IF ctx.loopback \/ status = "approved" THEN "allow" ELSE "needs_pairing"
      [] OTHER -> "allow"

\* Faulty variant: revocation asked only of devices the level would refuse.
DecideLevelFirst(app, status, ctx) ==
    IF app.paused THEN "paused"
    ELSE IF ctx.relayed /\ ~IsPublished(app.relay) THEN "not_published"
    ELSE IF LevelRule(app.visibility, status, ctx) = "allow" THEN "allow"
    ELSE IF status = "revoked" THEN "device_revoked"
    ELSE LevelRule(app.visibility, status, ctx)

Decide(app, status, ctx) ==
    IF app.paused THEN "paused"
    ELSE IF ctx.relayed /\ ~IsPublished(app.relay) THEN "not_published"
    ELSE IF status = "revoked" THEN "device_revoked"
    ELSE LevelRule(app.visibility, status, ctx)

Gated(app, status, ctx) ==
    LET decision == Decide(app, status, ctx)
    IN  CASE decision = "allow"         -> "serve"
          [] decision = "needs_pairing" -> "waiting"
          [] OTHER                      -> "refused"
=============================================================================
