----------------------------- MODULE RelayTunnel -----------------------------
(***************************************************************************)
(* The daemon's side of the relay tunnel: dial the edge, prove which machine *)
(* this is, carry streams while a heartbeat on the control stream checks     *)
(* that the edge is still there, and decide what to do when it ends.         *)
(*                                                                         *)
(* The edge and the network between are the environment.  A connection may  *)
(* be lost without a word (a NAT entry dropped, a lid closed): nothing      *)
(* arrives on it again and no call on it fails.                             *)
(***************************************************************************)
EXTENDS Integers, FiniteSets

CONSTANTS Interval,     \* heartbeat interval, in units of the model's clock
          Timeout,      \* silence after which the edge is presumed gone
          MinSecs,      \* first reconnect window
          MaxSecs,      \* ceiling of the reconnect window
          Saturation,   \* bound: attempts counted (the code counts to 2^32 - 1)
          MaxTroubles,  \* bound: changes of mind by the edge, losses, drops
          Silent        \* stages in which a connection may be lost silently

CloseReason == {"draining", "version_unsupported", "authentication_failed",
                "unknown_install", "install_revoked", "subscription_inactive",
                "superseded", "overloaded", "protocol_error", "unknown"}

\* Ended: the edge's reason, or what went wrong without one.
Ended == CloseReason \union {"transport", "protocol"}

ASSUME RelayAssumption ==
    /\ Interval \in Nat \ {0}
    /\ Timeout \in Nat /\ Timeout >= 3 * Interval
    /\ MinSecs \in Nat \ {0} /\ MaxSecs \in Nat /\ MaxSecs > MinSecs
    /\ Saturation \in Nat /\ MinSecs * 2 ^ Saturation >= MaxSecs
    /\ MaxTroubles \in Nat
    /\ Silent \subseteq {"hello", "verdict", "bare", "control"}

\* Arithmetic: the provers know nothing of powers.
ASSUME PowersGrow ==
    \A m, n \in 0..Saturation : 2 ^ n \in Nat /\ (m <= n => 2 ^ m <= 2 ^ n)

\* CloseReason::retry and Ended::retry.
Retry(ended) ==
    CASE ended \in {"draining", "superseded"} -> "soon"
      [] ended \in {"version_unsupported", "authentication_failed",
                    "unknown_install", "install_revoked"} -> "never"
      [] OTHER -> "backoff"

NeedsTheOwner(ended) ==
    ended \in {"unknown_install", "install_revoked", "subscription_inactive",
               "version_unsupported"}

\* The reconnect window of a given attempt; the delay is drawn from 0 .. window.
Window(n) == IF MinSecs * 2 ^ n < MaxSecs THEN MinSecs * 2 ^ n ELSE MaxSecs

VARIABLES phase,      \* where run's loop is
          status,     \* RelayStatus, as sys.status reports it
          attempt,    \* Backoff::attempt
          window,     \* the window the current wait was drawn from
          last,       \* how the last attempt or connection ended
          edge,       \* what the edge says to a hello now: a reason, welcome, or gone
          lost,       \* the connection is dead and nobody has been told
          control,    \* whether the edge has opened the control stream
          verdict,    \* what the control task sent the carrying loop
          age,        \* time since a control frame was heard
          toTick,     \* time to the heartbeat's next tick
          troubles,   \* bound counter
          widest      \* history: the widest window since the last welcome

vars == <<phase, status, attempt, window, last, edge, lost, control, verdict,
          age, toTick, troubles, widest>>
loop == <<status, attempt, window, last, widest>>
beat == <<control, verdict, age, toTick>>
world == <<edge, troubles>>

NoVerdict == "none"

Init == /\ phase = "dial" /\ status = "connecting"
        /\ attempt = 0 /\ window = 0 /\ widest = 0 /\ last = "transport"
        /\ edge \in CloseReason \union {"welcome", "gone"}
        /\ lost = FALSE
        /\ control = FALSE /\ verdict = NoVerdict /\ age = 0 /\ toTick = Interval
        /\ troubles = 0

-----------------------------------------------------------------------------
(* The loop.                                                               *)

\* Faulty variant: the attempt count never saturates.
NextDelayUnsaturated(retry) ==
    CASE retry = "soon"    -> window' = Window(0) /\ attempt' = attempt
      [] retry = "backoff" -> window' = Window(attempt) /\ attempt' = attempt + 1

\* Backoff::next_delay.  Soon draws from the bottom and leaves the count alone.
NextDelay(retry) ==
    CASE retry = "soon"    -> window' = Window(0) /\ attempt' = attempt
      [] retry = "backoff" -> /\ window' = Window(attempt)
                              /\ attempt' = IF attempt < Saturation THEN attempt + 1 ELSE attempt

\* Faulty variant: a drain is over so soon that nobody is told.
EndQuietly(ended) ==
    LET retry == Retry(ended) IN
    /\ last' = ended
    /\ IF retry = "never"
       THEN /\ phase' = "stop" /\ status' = "attention"
            /\ UNCHANGED <<attempt, window, widest>>
       ELSE /\ phase' = "wait"
            /\ status' = IF retry = "soon" THEN status ELSE "connecting"
            /\ NextDelay(retry)
            /\ widest' = IF window' > widest THEN window' ELSE widest
    /\ lost' = FALSE
    /\ control' = FALSE /\ verdict' = NoVerdict /\ age' = 0 /\ toTick' = Interval

\* One attempt or connection is over: stop for good, or wait and dial again.
End(ended) ==
    LET retry == Retry(ended) IN
    /\ last' = ended
    /\ IF retry = "never"
       THEN /\ phase' = "stop" /\ status' = "attention"
            /\ UNCHANGED <<attempt, window, widest>>
       ELSE /\ phase' = "wait" /\ status' = "connecting"
            /\ NextDelay(retry)
            /\ widest' = IF window' > widest THEN window' ELSE widest
    /\ lost' = FALSE
    /\ control' = FALSE /\ verdict' = NoVerdict /\ age' = 0 /\ toTick' = Interval

WaitOver ==
    /\ phase = "wait"
    /\ phase' = "dial"
    /\ UNCHANGED <<loop, beat, lost, world>>

\* Faulty variant: a connection counts as a success before the edge has let it in.
DialCounting ==
    /\ phase = "dial"
    /\ edge # "gone"
    /\ phase' = "hello"
    /\ attempt' = 0
    /\ UNCHANGED <<status, window, last, widest, beat, lost, world>>

\* connect_async succeeds.
Dial ==
    /\ phase = "dial"
    /\ edge # "gone"
    /\ phase' = "hello"
    /\ UNCHANGED <<loop, beat, lost, world>>

DialFails ==
    /\ phase = "dial"
    /\ edge = "gone"
    /\ End("transport")
    /\ UNCHANGED world

-----------------------------------------------------------------------------
(* The handshake.  Neither read has a timeout.                             *)

\* The challenge arrives and is answered, signed.
Hello ==
    /\ phase = "hello"
    /\ ~lost
    /\ edge \notin {"gone", "version_unsupported"}
    /\ phase' = "verdict"
    /\ UNCHANGED <<loop, beat, lost, world>>

NoCommonVersion ==
    /\ phase = "hello"
    /\ ~lost
    /\ edge = "version_unsupported"
    /\ End("version_unsupported")
    /\ UNCHANGED world

\* Let in: the schedule starts from the bottom, and only now is it connected.
Welcome ==
    /\ phase = "verdict"
    /\ ~lost
    /\ edge = "welcome"
    /\ phase' = "carry" /\ status' = "connected"
    /\ attempt' = 0 /\ widest' = 0
    /\ UNCHANGED <<window, last, beat, lost, world>>

\* HelloResponse::Refused, or a close with a reason in its frame.
Refused ==
    /\ phase \in {"hello", "verdict"}
    /\ ~lost
    /\ edge \in CloseReason
    /\ End(edge)
    /\ UNCHANGED world

\* The edge hangs up without a reason, or sends what does not parse.
HandshakeBreaks ==
    /\ phase \in {"hello", "verdict"}
    /\ ~lost
    /\ troubles < MaxTroubles /\ troubles' = troubles + 1
    /\ \E ended \in {"transport", "protocol"} : End(ended)
    /\ UNCHANGED edge

EdgeGoneMidway ==
    /\ phase \in {"hello", "verdict"}
    /\ ~lost
    /\ edge = "gone"
    /\ End("transport")
    /\ UNCHANGED world

-----------------------------------------------------------------------------
(* Carrying.                                                               *)

\* The edge opens the control stream; its task starts the ticker.
OpenControl ==
    /\ phase = "carry" /\ ~control /\ ~lost
    /\ edge # "gone"
    /\ control' = TRUE /\ age' = 0 /\ toTick' = Interval
    /\ UNCHANGED <<phase, loop, verdict, lost, world>>

Listening == phase = "carry" /\ control /\ verdict = NoVerdict

\* A ping, a pong, or a frame this build does not know.
Hear ==
    /\ Listening /\ ~lost
    /\ edge # "gone"
    /\ age' = 0
    /\ UNCHANGED <<phase, loop, control, verdict, toTick, lost, world>>

\* An edge that is there is heard from at least once in every timeout.  A silence
\* is counted up to the tick that must have noticed it.
Elapse ==
    /\ Listening
    /\ toTick > 0
    /\ lost \/ age < Timeout
    /\ age' = (IF age < Timeout + Interval THEN age + 1 ELSE age) /\ toTick' = toTick - 1
    /\ UNCHANGED <<phase, loop, control, verdict, lost, world>>

\* Faulty variants: silence measured from the wrong side of the boundary, and
\* a heartbeat that only pings.
PresumedDeadEarly == age >= Timeout
PresumedDeadNever == FALSE

PresumedDead == age > Timeout

\* The ticker fires: silence too long ends the task, or a ping goes out.
Tick ==
    /\ Listening
    /\ toTick = 0
    /\ toTick' = Interval
    /\ verdict' = IF PresumedDead THEN "transport" ELSE NoVerdict
    /\ UNCHANGED <<phase, loop, control, age, lost, world>>

\* Goodbye, with a reason; or the control stream ends or does not parse.
Goodbye ==
    /\ Listening /\ ~lost
    /\ troubles < MaxTroubles /\ troubles' = troubles + 1
    /\ \E reason \in Ended : verdict' = reason
    /\ UNCHANGED <<phase, loop, control, age, toTick, lost, edge>>

\* ended_rx: the carrying loop takes the control task's word for it.
CarryEnds ==
    /\ phase = "carry"
    /\ verdict # NoVerdict
    /\ End(verdict)
    /\ UNCHANGED world

\* The transport fails, or the edge closes the tunnel: yamux reports it.
TunnelBreaks ==
    /\ phase = "carry" /\ verdict = NoVerdict /\ ~lost
    /\ \/ edge = "gone" /\ troubles' = troubles
       \/ troubles < MaxTroubles /\ troubles' = troubles + 1
    /\ End("transport")
    /\ UNCHANGED edge

-----------------------------------------------------------------------------
(* The environment.                                                        *)

Stage == IF phase # "carry" THEN phase ELSE IF control THEN "control" ELSE "bare"

LoseSilently ==
    /\ Stage \in Silent
    /\ ~lost
    /\ troubles < MaxTroubles /\ troubles' = troubles + 1
    /\ lost' = TRUE
    /\ UNCHANGED <<phase, loop, beat, edge>>

\* A deploy, an unlinked install, a lapsed or renewed subscription, ...
EdgeChanges ==
    /\ troubles < MaxTroubles /\ troubles' = troubles + 1
    /\ edge' \in (CloseReason \union {"welcome", "gone"}) \ {edge}
    /\ UNCHANGED <<phase, loop, beat, lost>>

-----------------------------------------------------------------------------
Daemon == WaitOver \/ Dial \/ DialFails \/ Tick \/ CarryEnds

\* What an edge that is reachable does for its part, and time.
Edge == \/ Hello \/ NoCommonVersion \/ Welcome \/ Refused \/ EdgeGoneMidway
        \/ OpenControl \/ Hear \/ Elapse

Trouble == HandshakeBreaks \/ Goodbye \/ TunnelBreaks \/ LoseSilently \/ EdgeChanges

Next == Daemon \/ Edge \/ Trouble

Spec == Init /\ [][Next]_vars

\* Tokio polls what is ready, sleeps end, a reachable edge answers, time passes.
\* Nothing is assumed of the troubles.
Fairness ==
    /\ WF_vars(Daemon)
    /\ WF_vars(Hello \/ NoCommonVersion \/ Welcome \/ Refused \/ EdgeGoneMidway)
    /\ WF_vars(OpenControl)
    /\ WF_vars(Elapse)

FairSpec == Spec /\ Fairness

-----------------------------------------------------------------------------
(* Properties.                                                             *)

TypeOK ==
    /\ phase \in {"dial", "hello", "verdict", "carry", "wait", "stop"}
    /\ status \in {"connecting", "connected", "attention"}
    /\ attempt \in 0 .. Saturation
    /\ window \in 0 .. MaxSecs /\ widest \in 0 .. MaxSecs
    /\ last \in Ended
    /\ edge \in CloseReason \union {"welcome", "gone"}
    /\ lost \in BOOLEAN /\ control \in BOOLEAN
    /\ verdict \in Ended \union {NoVerdict}
    /\ age \in 0 .. Timeout + Interval
    /\ toTick \in 0 .. Interval
    /\ troubles \in 0 .. MaxTroubles

\* session::control: "ping on the interval, and treat silence past the timeout
\* as gone".  With a control stream open, a dead tunnel is never taken for a
\* live one longer than the timeout and one interval.
SilenceIsNoticed == Listening /\ toTick > 0 => age < Timeout + Interval

\* HEARTBEAT_TIMEOUT_SECS: "declaring a live daemon dead" is the costly mistake.
\* An edge heard from within every timeout is never presumed gone.
LiveEdgeIsKept == [][Tick /\ verdict' # NoVerdict => lost]_vars

\* relay/mod.rs: "An edge that accepts TCP and hangs up must not look like
\* success".  Until the edge lets the daemon in, the windows of its backed-off
\* waits never shrink, however dials, refusals and drains follow each other.
BackoffNeverShrinks ==
    phase = "wait" /\ Retry(last) = "backoff" => window = widest

\* Stopped for good means somebody has been told, and only a reason that waiting
\* cannot fix stops the loop; a status of connected is never left standing once
\* the tunnel is known to be down.
StatusIsHonest ==
    /\ status = "connected" <=> phase = "carry"
    /\ status = "attention" <=> phase = "stop"

\* run: "Keep a relay connection up for as long as the daemon runs".  If the
\* edge ends up welcoming this install, the tunnel ends up carrying streams,
\* unless the loop was told to stop before.
TunnelComesUp ==
    <>[](edge = "welcome") => <>[](phase = "stop" \/ (phase = "carry" /\ ~lost))

\* CloseReason::needs_the_owner: "the window should say so plainly rather than
\* showing a spinner that will never stop".
OwnerIsTold == phase = "wait" /\ NeedsTheOwner(last) => status = "attention"

\* The reconnect loop keeps to its schedule and tells the truth about itself, through
\* every mixture of refusals, drains and losses.
LoopIsHonest == TypeOK /\ BackoffNeverShrinks /\ StatusIsHonest
=============================================================================
