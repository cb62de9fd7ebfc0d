------------------------------ MODULE MCMachine ------------------------------
(* What goes on around the daemon on the owner's machine, on instances small   *)
(* enough for TLC: it starts and restarts, apps are made, the owner is told,    *)
(* the network is asked for a name.  In each behaviour one of them moves and    *)
(* the others rest in one of their initial states.                             *)
EXTENDS Startup, Discovery, Notices, Authoring

VARIABLE moving

Names3 == {<<".", "a">>, <<"a", "/", "a">>, <<"blank", ".">>, <<"wide", "wide", "wide">>}

MCInit ==
    /\ moving \in {"startup", "discovery", "settings", "door", "authoring"}
    /\ StartupInit
    \* A keychain that holds both keys beside a stale socket; files, one of them unreadable,
    \* beside a stranger on port 80; a keychain of an older build.
    /\ drawer.session.key = 2
    /\ \/ drawer.kind = "keychain" /\ drawer.install.key = 2 /\ sockfile = Stranger /\ busy[80] = NoProcess
       \/ /\ moving = "startup" /\ drawer.kind = "file" /\ drawer.install.key = Misshapen
          /\ sockfile = NoProcess /\ busy[80] = Stranger
       \/ /\ moving = "startup" /\ drawer.kind = "keychain" /\ drawer.install.key = Absent
          /\ sockfile = NoProcess /\ busy[80] = NoProcess
    /\ DiscoveryInit /\ NoticesInit /\ AuthoringInit

MCNext ==
    /\ UNCHANGED moving
    /\ \/ /\ moving = "startup" /\ StartupNext
          /\ UNCHANGED <<discoveryVars, noticesVars, authoringVars>>
       \/ /\ moving = "discovery" /\ DiscoveryNext
          /\ UNCHANGED <<startupVars, noticesVars, authoringVars>>
       \/ /\ moving = "settings" /\ SettingsNext
          /\ UNCHANGED <<startupVars, discoveryVars, authoringVars>>
       \/ /\ moving = "door" /\ DoorNext
          /\ UNCHANGED <<startupVars, discoveryVars, authoringVars>>
       \/ /\ moving = "authoring" /\ AuthoringNext
          /\ UNCHANGED <<startupVars, discoveryVars, noticesVars>>

MCSpec == MCInit /\ [][MCNext]_<<moving, startupVars, discoveryVars, noticesVars, authoringVars>>

\* The fairness of Startup and of Notices, for the one that moves.
MCFairSpec ==
    /\ MCSpec
    /\ \A p \in Process : WF_startupVars(moving = "startup" /\ DaemonStep(p))
    /\ \A v \in Visitor : WF_noticesVars(moving = "door" /\ Lapse(v))
=============================================================================
