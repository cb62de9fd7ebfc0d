----------------------------- MODULE TunnelStream -----------------------------
(***************************************************************************)
(* One stream of a tunnel connection, as the daemon's task for it sees it:   *)
(* the length-prefixed opener that says what it is for, and what follows on  *)
(* the same bytes, a request's body or the control frames.                  *)
(*                                                                         *)
(* A byte of the stream is its position in it; reads return as many as they  *)
(* like.                                                                   *)
(***************************************************************************)
EXTENDS Integers

CONSTANTS PrefixLen,     \* bytes of a length prefix
          MaxFrameLen,   \* the longest frame
          MaxBody,       \* the most a body may be
          ChunkLen,      \* the most one read returns
          PingLen        \* bytes of a control frame, prefix included

ASSUME StreamAssumption ==
    /\ PrefixLen \in Nat \ {0} /\ MaxFrameLen \in Nat \ {0}
    /\ MaxBody \in Nat /\ ChunkLen \in Nat \ {0} /\ PingLen \in Nat \ {0}

VARIABLES opener,    \* what the edge opened the stream with: its kind and its length
          after,     \* bytes the edge sends after the opener, before it stops
          taken,     \* bytes read off the stream
          stage,     \* how far the task is
          first,     \* the position of the first byte held after the opener
          held,      \* how many are held from there
          pongs,     \* control: frames answered
          reply      \* what has been written back

streamVars == <<opener, after, taken, stage, first, held, pongs, reply>>

Opener == [kind : {"http", "malformed", "control", "unreadable"}, len : 1..(MaxFrameLen + 1)]
Total  == PrefixLen + opener.len + after

StreamInit ==
    /\ opener \in Opener
    /\ after \in IF opener.kind = "control" THEN {0, PingLen, 2 * PingLen} ELSE 0..(MaxBody + 1)
    /\ taken = 0 /\ stage = "opening" /\ first = 0 /\ held = 0 /\ pongs = 0
    /\ reply = "none"

\* codec::try_decode, on n bytes of a frame that says it is len long.
TryDecode(n, len) ==
    IF n < PrefixLen THEN "part"
    ELSE IF len > MaxFrameLen THEN "too_long"
    ELSE IF n < PrefixLen + len THEN "part" ELSE "whole"

-----------------------------------------------------------------------------
(* read_open and dispatch.                                                  *)

Opening == stage = "opening"
Decoded == TryDecode(taken, opener.len)

\* Faulty variant: what shared a read with the opener is dropped.
OpenerWholeAlone ==
    /\ Opening /\ Decoded = "whole"
    /\ stage' = CASE opener.kind \in {"http", "malformed"} -> "body" [] opener.kind = "control" -> "control" [] OTHER -> "refused"
    /\ first' = taken + 1 /\ held' = 0
    /\ UNCHANGED <<opener, after, taken, pongs, reply>>

OpenerWhole ==
    /\ Opening /\ Decoded = "whole"
    /\ stage' = CASE opener.kind \in {"http", "malformed"} -> "body" [] opener.kind = "control" -> "control" [] OTHER -> "refused"
    /\ first' = PrefixLen + opener.len + 1
    /\ held' = taken - (PrefixLen + opener.len)
    /\ UNCHANGED <<opener, after, taken, pongs, reply>>

\* Faulty variant: the buffer's limit is one less.
OpenerTooLongEarly ==
    /\ Opening
    /\ Decoded = "too_long" \/ (Decoded = "part" /\ taken >= MaxFrameLen)
    /\ stage' = "refused"
    /\ UNCHANGED <<opener, after, taken, first, held, pongs, reply>>

\* A length over the limit is refused on sight; so is a buffer over it that holds no message yet.
OpenerTooLong ==
    /\ Opening
    /\ Decoded = "too_long" \/ (Decoded = "part" /\ taken > MaxFrameLen)
    /\ stage' = "refused"
    /\ UNCHANGED <<opener, after, taken, first, held, pongs, reply>>

OpenerRead ==
    /\ Opening /\ Decoded = "part" /\ taken <= MaxFrameLen
    /\ IF taken = Total
       THEN stage' = "refused" /\ UNCHANGED taken
       ELSE \E n \in 1..ChunkLen : taken + n <= Total /\ taken' = taken + n /\ UNCHANGED stage
    /\ UNCHANGED <<opener, after, first, held, pongs, reply>>

-----------------------------------------------------------------------------
(* serve and write_response.                                                *)

\* The whole body is read before a request is made of it, which a head may not allow, and
\* the router asked.
BodyRead ==
    /\ stage = "body" /\ held <= MaxBody
    /\ IF taken = Total
       THEN /\ stage' = IF opener.kind = "http" THEN "answer" ELSE "refused"
            /\ UNCHANGED <<taken, held>>
       ELSE \E n \in 1..ChunkLen :
               /\ taken + n <= Total /\ taken' = taken + n /\ held' = held + n
               /\ UNCHANGED stage
    /\ UNCHANGED <<opener, after, first, pongs, reply>>

BodyTooLong ==
    /\ stage = "body" /\ held > MaxBody
    /\ stage' = "refused"
    /\ UNCHANGED <<opener, after, taken, first, held, pongs, reply>>

\* The head goes out before the body has been looked at.
WriteHead(len) ==
    /\ stage = "answer"
    /\ IF len > MaxFrameLen
       THEN stage' = "closed" /\ UNCHANGED reply
       ELSE stage' = "head" /\ reply' = "head"
    /\ UNCHANGED <<opener, after, taken, first, held, pongs>>

WriteBody(len) ==
    /\ stage = "head"
    /\ stage' = "closed"
    /\ reply' = IF len > MaxBody THEN "cut" ELSE "whole"
    /\ UNCHANGED <<opener, after, taken, first, held, pongs>>

\* The edge has gone, or has reset the stream.
StreamBreaks ==
    /\ stage \in {"opening", "body", "control", "answer", "head"}
    /\ stage' = "broken"
    /\ UNCHANGED <<opener, after, taken, first, held, pongs, reply>>

-----------------------------------------------------------------------------
(* control, of pings; the other frames and the clock are RelayTunnel's.      *)

\* Faulty variant: a frame is taken to be whole as soon as some of it is held.
ControlFrameEager ==
    /\ stage = "control" /\ held > 0
    /\ pongs' = pongs + 1
    /\ first' = first + PingLen /\ held' = held - PingLen
    /\ UNCHANGED <<opener, after, taken, stage, reply>>

ControlFrame ==
    /\ stage = "control" /\ held >= PingLen
    /\ pongs' = pongs + 1
    /\ first' = first + PingLen /\ held' = held - PingLen
    /\ UNCHANGED <<opener, after, taken, stage, reply>>

\* What is held is dealt with before waiting for more.
ControlRead ==
    /\ stage = "control" /\ held < PingLen
    /\ IF taken = Total
       THEN stage' = "closed" /\ UNCHANGED <<taken, held>>
       ELSE \E n \in 1..ChunkLen :
               /\ taken + n <= Total /\ taken' = taken + n /\ held' = held + n
               /\ UNCHANGED stage
    /\ UNCHANGED <<opener, after, first, pongs, reply>>

StreamNext ==
    \/ OpenerWhole \/ OpenerTooLong \/ OpenerRead
    \/ BodyRead \/ BodyTooLong
    \/ \E len \in {1, MaxFrameLen + 1} : WriteHead(len)
    \/ \E len \in {0, MaxBody, MaxBody + 1} : WriteBody(len)
    \/ ControlFrame \/ ControlRead
    \/ StreamBreaks

StreamSpec == StreamInit /\ [][StreamNext]_streamVars

-----------------------------------------------------------------------------
StreamTypeOK ==
    /\ opener \in Opener /\ after \in Nat /\ taken \in Nat
    /\ stage \in {"opening", "body", "control", "answer", "head", "closed", "refused", "broken"}
    /\ first \in Nat /\ held \in Nat /\ pongs \in Nat
    /\ reply \in {"none", "head", "whole", "cut"}

\* read_open: "throwing the tail away would corrupt the request".  The router is given the
\* bytes the edge sent after the opener, all of them and nothing else, however they were cut
\* into reads.
BodyIsWhole ==
    stage = "answer" =>
        /\ first = PrefixLen + opener.len + 1 /\ held = after
        /\ held <= MaxBody

\* control: "a control stream that threw the tail away would sit waiting for a ping it had
\* already been sent".  A stream that has ended properly has answered every frame on it.
EveryPingIsAnswered == opener.kind = "control" /\ stage = "closed" => pongs * PingLen = after

\* A request is refused only for what is wrong with it.  Its opener is held to a limit that
\* counts the prefix with it, so the last bytes of the longest openers are left out here.
RefusedForAReason ==
    stage = "refused" =>
        \/ opener.kind \in {"unreadable", "malformed"} \/ opener.len > MaxFrameLen
        \/ after > MaxBody
        \/ PrefixLen + opener.len > MaxFrameLen + 1

\* codec.rs: a frame of up to MAX_FRAME_LEN is legal.
LegalOpenersAreRead ==
    stage = "refused" =>
        opener.kind \in {"unreadable", "malformed"} \/ opener.len > MaxFrameLen \/ after > MaxBody

\* stream.rs: "A stream ends when the response ends"; its head is not sent without it.
AnswersAreWhole == stage = "closed" => reply \in {"none", "whole"}

\* Each stream is read to what its opener promised, wherever the frames fall: a body is
\* whole, a ping is answered, and a refusal is for something the edge did wrong.
StreamsAreWhole ==
    /\ StreamTypeOK
    /\ BodyIsWhole
    /\ EveryPingIsAnswered
    /\ RefusedForAReason
=============================================================================
