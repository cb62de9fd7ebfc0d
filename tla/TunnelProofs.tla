----------------------------- MODULE TunnelProofs -----------------------------
(***************************************************************************)
(* What holds of a tunnel for any number of connections and installs, any    *)
(* frame and body lengths, any heartbeat, and messages of any size.          *)
(***************************************************************************)
EXTENDS RelayTunnel, TunnelHello, TunnelStream, WsBytes, SequenceTheorems, TLAPS

-----------------------------------------------------------------------------
(* The handshake.                                                          *)

\* A version that is shared is one both speak, and the highest of those.
LEMMA NegotiateIsHighest ==
    ASSUME NEW ours \in VersionRange, NEW theirs \in VersionRange,
           Negotiate(ours, theirs).why = "shared"
    PROVE  LET v == Negotiate(ours, theirs).version
           IN  /\ v \in 0..Newest
               /\ Accepts(ours, v) /\ Accepts(theirs, v)
               /\ \A w \in 0..Newest : Accepts(ours, w) /\ Accepts(theirs, w) => w <= v
BY HelloAssumption DEF Negotiate, VersionRange, IsRange, Accepts

\* Whatever a negotiation comes to, its version is in range.
LEMMA NegotiateType ==
    ASSUME NEW ours \in VersionRange, NEW theirs \in VersionRange
    PROVE  Negotiate(ours, theirs).version \in 0..Newest
BY HelloAssumption DEF Negotiate, VersionRange, IsRange

\* A daemon signs one hello on a connection, over the challenge it was given there.
SignedHere ==
    \A s \in signatures :
        LET c == s.over.nonce
        IN  /\ s.by = dialler[c] /\ s.over.install = s.by
            /\ s.over.version = answered[c].version
            /\ daemon[c] \in {"answered", "up", "refused"}

\* How far the daemon is bounds how far the peer is, and the other way round.
InStep ==
    \A c \in Connection :
        /\ daemon[c] # "idle" => peer[c] # "idle"
        /\ daemon[c] = "up" => peer[c] = "accepted"
        /\ daemon[c] = "refused" => peer[c] = "refused"

\* What was answered is what the two offers come to.
AnsweredHighest ==
    \A c \in Connection : daemon[c] \in {"answered", "up", "refused"} =>
        LET choice == Negotiate(answered[c].versions, offered[c])
        IN  choice.why = "shared" /\ choice.version = answered[c].version

AgreedIsAccepted == \A c \in Connection : daemon[c] = "up" => agreed[c] = accepted[c].version

HelloInv ==
    /\ HelloTypeOK
    /\ SignedHere /\ InStep /\ AnsweredHighest
    /\ AcceptedAnsweredHere /\ AgreedIsAccepted

\* No connection has said anything.
LEMMA HelloInvInit == HelloInit => HelloInv
BY HelloAssumption
   DEF HelloInit, HelloInv, HelloTypeOK, SignedHere, InStep, AnsweredHighest,
       AcceptedAnsweredHere, AgreedIsAccepted, VersionRange, NoRange

\* No message, build or replay puts an end out of step with what was signed.
LEMMA HelloInvStep == HelloInv /\ [HelloNext]_helloVars => HelloInv'
<1> SUFFICES ASSUME HelloInv, [HelloNext]_helloVars PROVE HelloInv'
  OBVIOUS
<1> USE HelloAssumption DEF HelloInv
<1>1. CASE Redeploy
  BY <1>1 DEF Redeploy, HelloTypeOK, SignedHere, InStep, AnsweredHighest,
              AcceptedAnsweredHere, AgreedIsAccepted
<1>2. ASSUME NEW k \in Install, Update(k) PROVE HelloInv'
  BY <1>2 DEF Update, HelloTypeOK, SignedHere, InStep, AnsweredHighest,
              AcceptedAnsweredHere, AgreedIsAccepted
<1>3. ASSUME NEW c \in Connection, Challenge(c) PROVE HelloInv'
  \* The daemon has not begun, so nothing was signed or answered here.
  <2>1. daemon[c] = "idle"
    BY <1>3 DEF Challenge, InStep
  <2>2. HelloTypeOK'
    BY <1>3 DEF Challenge, HelloTypeOK
  <2>3. SignedHere'
    BY <1>3 DEF Challenge, SignedHere
  <2>4. InStep'
    BY <1>3, <2>1 DEF Challenge, InStep, HelloTypeOK
  <2>5. AnsweredHighest'
    BY <1>3, <2>1 DEF Challenge, AnsweredHighest, HelloTypeOK
  <2>6. AcceptedAnsweredHere'
    BY <1>3 DEF Challenge, AcceptedAnsweredHere, HelloTypeOK
  <2>7. AgreedIsAccepted'
    BY <1>3 DEF Challenge, AgreedIsAccepted
  <2> QED BY <2>2, <2>3, <2>4, <2>5, <2>6, <2>7
<1>4. ASSUME NEW c \in Connection, Answer(c) PROVE HelloInv'
  <2> DEFINE k == dialler[c]
             choice == Negotiate(speaks[k], offered[c])
             s == [by |-> k, over |-> HelloTranscript(choice.version, c, k)]
  <2>0. k \in Install /\ speaks[k] \in VersionRange /\ offered[c] \in VersionRange
    BY DEF HelloTypeOK
  <2>1. choice.version \in 0..Newest
    BY <2>0, NegotiateType
  <2>2. peer[c] # "idle" /\ peer[c] # "accepted" /\ daemon[c] = "idle"
    BY <1>4 DEF Answer, AcceptedAnsweredHere
  <2>3. CASE choice.why = "shared"
    <3>1. /\ daemon' = [daemon EXCEPT ![c] = "answered"]
          /\ answered' = [answered EXCEPT ![c] = [versions |-> speaks[k], version |-> choice.version]]
          /\ signatures' = signatures \union {s}
          /\ UNCHANGED <<dialler, speaks, edgeSpeaks, peer, offered, accepted, agreed, updates>>
      BY <1>4, <2>3 DEF Answer
    <3>2. s \in Signature
      BY <2>0, <2>1 DEF Signature, Transcript, HelloTranscript
    <3>3. HelloTypeOK'
      BY <3>1, <3>2, <2>0, <2>1 DEF HelloTypeOK
    <3>4. SignedHere'
      <4> SUFFICES ASSUME NEW t \in signatures'
                   PROVE  LET d == t.over.nonce
                          IN  /\ t.by = dialler[d] /\ t.over.install = t.by
                              /\ t.over.version = answered'[d].version
                              /\ daemon'[d] \in {"answered", "up", "refused"}
        BY <3>1 DEF SignedHere
      <4>1. CASE t = s
        BY <4>1, <3>1 DEF HelloTranscript, HelloTypeOK
      <4>2. CASE t \in signatures
        \* An earlier signature is of another connection, for this one had none.
        <5>1. t.over.nonce # c /\ t.over.nonce \in Connection
          BY <4>2, <2>2 DEF SignedHere, HelloTypeOK, Signature, Transcript
        <5> QED BY <4>2, <5>1, <3>1 DEF SignedHere, HelloTypeOK
      <4> QED BY <4>1, <4>2, <3>1
    <3>5. InStep'
      BY <3>1, <2>2 DEF InStep, HelloTypeOK
    <3>6. AnsweredHighest'
      BY <3>1, <2>3 DEF AnsweredHighest, HelloTypeOK
    <3>7. AcceptedAnsweredHere'
      BY <3>1, <2>2 DEF AcceptedAnsweredHere, HelloTypeOK
    <3>8. AgreedIsAccepted'
      BY <3>1 DEF AgreedIsAccepted, HelloTypeOK
    <3> QED BY <3>3, <3>4, <3>5, <3>6, <3>7, <3>8
  <2>4. CASE choice.why # "shared"
    <3>1. /\ daemon' = [daemon EXCEPT ![c] = "unsupported"]
          /\ UNCHANGED <<answered, signatures>>
          /\ UNCHANGED <<dialler, speaks, edgeSpeaks, peer, offered, accepted, agreed, updates>>
      BY <1>4, <2>4 DEF Answer
    <3>2. HelloTypeOK' /\ InStep' /\ AnsweredHighest'
      BY <3>1, <2>2 DEF HelloTypeOK, InStep, AnsweredHighest
    <3>3. SignedHere'
      BY <3>1, <2>2 DEF SignedHere, HelloTypeOK, Signature, Transcript
    <3>4. AcceptedAnsweredHere' /\ AgreedIsAccepted'
      BY <3>1, <2>2 DEF AcceptedAnsweredHere, AgreedIsAccepted, HelloTypeOK
    <3> QED BY <3>2, <3>3, <3>4
  <2> QED BY <2>3, <2>4
<1>5. ASSUME NEW c \in Connection, Judge(c) PROVE HelloInv'
  <2>1. PICK s \in signatures, v \in 0..Newest, r \in VersionRange, k \in Install :
          LET hello == [version |-> v, versions |-> r, install |-> k, signature |-> s]
          IN  IF Accept(c, hello)
              THEN /\ peer' = [peer EXCEPT ![c] = "accepted"]
                   /\ accepted' = [accepted EXCEPT ![c] = [version |-> v, install |-> k]]
              ELSE /\ peer' = [peer EXCEPT ![c] = "refused"]
                   /\ UNCHANGED accepted
    BY <1>5 DEF Judge
  <2> DEFINE hello == [version |-> v, versions |-> r, install |-> k, signature |-> s]
  <2>2. /\ peer[c] = "challenged"
        /\ UNCHANGED <<dialler, speaks, edgeSpeaks, daemon, offered, answered, agreed, signatures, updates>>
    BY <1>5 DEF Judge
  <2>3. daemon[c] \notin {"up", "refused"}
    BY <2>2 DEF InStep
  <2>4. CASE Accept(c, hello)
    <3>1. /\ peer' = [peer EXCEPT ![c] = "accepted"]
          /\ accepted' = [accepted EXCEPT ![c] = [version |-> v, install |-> k]]
      BY <2>1, <2>4
    <3>2. s = [by |-> k, over |-> [version |-> v, nonce |-> c, install |-> k]]
      BY <2>4 DEF Accept, HelloTranscript
    \* So this is the signature the daemon made here.
    <3>3. k = dialler[c] /\ v = answered[c].version /\ daemon[c] = "answered"
      BY <3>2, <2>3 DEF SignedHere
    <3>4. HelloTypeOK'
      BY <3>1, <2>2 DEF HelloTypeOK
    <3>5. SignedHere' /\ AnsweredHighest'
      BY <2>2 DEF SignedHere, AnsweredHighest
    <3>6. InStep'
      BY <3>1, <2>2, <2>3 DEF InStep, HelloTypeOK
    <3>7. AcceptedAnsweredHere'
      BY <3>1, <3>3, <2>2 DEF AcceptedAnsweredHere, HelloTypeOK
    <3>8. AgreedIsAccepted'
      BY <3>1, <2>2, <2>3 DEF AgreedIsAccepted, HelloTypeOK
    <3> QED BY <3>4, <3>5, <3>6, <3>7, <3>8
  <2>5. CASE ~Accept(c, hello)
    <3>1. peer' = [peer EXCEPT ![c] = "refused"] /\ UNCHANGED accepted
      BY <2>1, <2>5
    <3>2. HelloTypeOK' /\ SignedHere' /\ AnsweredHighest' /\ AgreedIsAccepted'
      BY <3>1, <2>2 DEF HelloTypeOK, SignedHere, AnsweredHighest, AgreedIsAccepted
    <3>3. InStep' /\ AcceptedAnsweredHere'
      BY <3>1, <2>2, <2>3 DEF InStep, AcceptedAnsweredHere, HelloTypeOK
    <3> QED BY <3>2, <3>3
  <2> QED BY <2>4, <2>5
<1>6. ASSUME NEW c \in Connection, SendWelcome(c) PROVE HelloInv'
  <2>1. /\ daemon[c] = "answered" /\ signatures' = signatures
        /\ UNCHANGED <<dialler, speaks, edgeSpeaks, peer, offered, answered, accepted, updates>>
    BY <1>6 DEF SendWelcome
  <2>2. CASE peer[c] = "accepted"
    <3>1. /\ daemon' = [daemon EXCEPT ![c] = "up"]
          /\ agreed' = [agreed EXCEPT ![c] = accepted[c].version]
      BY <1>6, <2>2 DEF SendWelcome
    <3>2. accepted[c].version \in 0..Newest
      BY DEF HelloTypeOK
    <3>3. HelloTypeOK'
      BY <2>1, <3>1, <3>2 DEF HelloTypeOK
    <3>4. SignedHere' /\ InStep' /\ AnsweredHighest'
      BY <2>1, <2>2, <3>1 DEF SignedHere, InStep, AnsweredHighest, HelloTypeOK
    <3>5. AcceptedAnsweredHere' /\ AgreedIsAccepted'
      BY <2>1, <3>1 DEF AcceptedAnsweredHere, AgreedIsAccepted, HelloTypeOK
    <3> QED BY <3>3, <3>4, <3>5
  <2>3. CASE peer[c] = "refused"
    <3>1. daemon' = [daemon EXCEPT ![c] = "refused"] /\ UNCHANGED agreed
      BY <1>6, <2>3 DEF SendWelcome
    <3>2. HelloTypeOK'
      BY <2>1, <3>1 DEF HelloTypeOK
    <3>3. SignedHere' /\ InStep' /\ AnsweredHighest'
      BY <2>1, <2>3, <3>1 DEF SignedHere, InStep, AnsweredHighest, HelloTypeOK
    <3>4. AcceptedAnsweredHere' /\ AgreedIsAccepted'
      BY <2>1, <2>3, <3>1 DEF AcceptedAnsweredHere, AgreedIsAccepted, HelloTypeOK
    <3> QED BY <3>2, <3>3, <3>4
  <2> QED BY <1>6, <2>2, <2>3 DEF SendWelcome
<1>7. CASE UNCHANGED helloVars
  BY <1>7 DEF helloVars, HelloTypeOK, SignedHere, InStep, AnsweredHighest,
              AcceptedAnsweredHere, AgreedIsAccepted
<1> QED BY <1>1, <1>2, <1>3, <1>4, <1>5, <1>6, <1>7 DEF HelloNext

\* A peer that lets a connection in has the daemon it names on it, and the two ends that are
\* up speak the highest version both offered, whoever put the hello together and whatever
\* was signed elsewhere (hello.rs, ServerHello::accept).
THEOREM HandshakesAlwaysAgree == HelloSpec => []HandshakesAgree
<1>1. HelloInv => BothSpeakTheHighest
  <2> SUFFICES ASSUME HelloInv, NEW c \in Connection, daemon[c] = "up"
               PROVE  /\ agreed[c] = accepted[c].version
                      /\ Accepts(offered[c], agreed[c]) /\ Accepts(answered[c].versions, agreed[c])
                      /\ \A v \in 0..Newest :
                            Accepts(offered[c], v) /\ Accepts(answered[c].versions, v) => v <= agreed[c]
    BY DEF BothSpeakTheHighest
  <2>1. answered[c].versions \in VersionRange /\ offered[c] \in VersionRange
    BY DEF HelloInv, HelloTypeOK
  <2>2. agreed[c] = accepted[c].version /\ accepted[c].version = answered[c].version
    BY DEF HelloInv, InStep, AcceptedAnsweredHere, AgreedIsAccepted
  <2>3. /\ Negotiate(answered[c].versions, offered[c]).why = "shared"
        /\ Negotiate(answered[c].versions, offered[c]).version = agreed[c]
    BY <2>2 DEF HelloInv, AnsweredHighest
  <2> QED BY <2>1, <2>2, <2>3, NegotiateIsHighest
<1>2. HelloInv => HandshakesAgree
  BY <1>1 DEF HelloInv, HandshakesAgree
<1> QED BY <1>2, HelloInvInit, HelloInvStep, PTL DEF HelloSpec

-----------------------------------------------------------------------------
(* A stream.                                                               *)

Header == PrefixLen + opener.len

\* What the edge sends on a control stream is whole frames.
WholePings == opener.kind = "control" => after \in {0, PingLen, 2 * PingLen}

\* Which stages a kind of opener leads to.
StageFitsKind ==
    /\ stage = "body" => opener.kind \in {"http", "malformed"}
    /\ stage \in {"answer", "head"} => opener.kind = "http"
    /\ stage = "control" => opener.kind = "control"

\* Every byte taken off the stream is the opener's, is held, or was answered.
BytesAreCounted ==
    /\ taken <= Total
    /\ stage = "opening" => held = 0 /\ pongs = 0
    /\ stage \in {"body", "answer"} => first = Header + 1 /\ taken = Header + held
    /\ stage = "answer" => taken = Total /\ held <= MaxBody
    /\ stage = "control" => taken = Header + pongs * PingLen + held

StreamInv ==
    /\ StreamTypeOK
    /\ WholePings /\ StageFitsKind /\ BytesAreCounted
    /\ EveryPingIsAnswered /\ RefusedForAReason

\* Frames that fill what was sent but for less than one fill all of it.
LEMMA NoPartOfAPing ==
    ASSUME NEW n \in Nat, NEW k \in {0, 1, 2}, NEW rest \in Nat, rest < PingLen,
           k * PingLen = n * PingLen + rest
    PROVE  n * PingLen = k * PingLen
<1> USE StreamAssumption
<1>1. CASE n = 0 \/ n = 1 \/ n = 2
  BY <1>1
<1>2. CASE n >= 3
  <2>1. PICK m \in Nat : n = m + 3
    <3>1. n - 3 \in Nat /\ n = (n - 3) + 3
      BY <1>2
    <3> QED BY <3>1
  <2>2. n * PingLen = m * PingLen + 3 * PingLen /\ m * PingLen \in Nat
    BY <2>1
  <2>3. k * PingLen <= 2 * PingLen
    OBVIOUS
  <2> QED BY <2>2, <2>3
<1> QED BY <1>1, <1>2

\* A stream of which nothing was read.
LEMMA StreamInvInit == StreamInit => StreamInv
<1> SUFFICES ASSUME StreamInit PROVE StreamInv
  OBVIOUS
<1>1. opener.len \in Nat
  BY StreamAssumption DEF StreamInit, Opener
<1>2. after \in Nat
  BY StreamAssumption DEF StreamInit
<1> QED
  BY <1>1, <1>2, StreamAssumption
     DEF StreamInit, StreamInv, StreamTypeOK, WholePings, StageFitsKind, BytesAreCounted,
         EveryPingIsAnswered, RefusedForAReason, Total

\* Every read is accounted for.
LEMMA StreamInvStep == StreamInv /\ [StreamNext]_streamVars => StreamInv'
<1> SUFFICES ASSUME StreamInv, [StreamNext]_streamVars PROVE StreamInv'
  OBVIOUS
<1> USE StreamAssumption DEF StreamInv
<1>0. opener.len \in Nat /\ opener.len <= MaxFrameLen + 1 /\ Header \in Nat /\ Total = Header + after
  BY DEF StreamTypeOK, Opener, Header, Total
<1>00. UNCHANGED <<opener, after>> => Total' = Total /\ Header' = Header
  BY DEF Total, Header
<1>1. CASE OpenerWhole
  <2>1. /\ stage = "opening" /\ taken >= Header /\ opener.len <= MaxFrameLen
        /\ first' = Header + 1 /\ held' = taken - Header
        /\ UNCHANGED <<opener, after, taken, pongs, reply>>
    BY <1>1, <1>0 DEF OpenerWhole, Opening, Decoded, TryDecode, StreamTypeOK, Header
  <2>2. \/ opener.kind \in {"http", "malformed"} /\ stage' = "body"
        \/ opener.kind = "control" /\ stage' = "control"
        \/ opener.kind = "unreadable" /\ stage' = "refused"
    BY <1>1 DEF OpenerWhole, StreamTypeOK, Opener
  <2>3. StreamTypeOK'
    BY <2>1, <2>2, <1>0 DEF StreamTypeOK
  <2>4. WholePings' /\ StageFitsKind' /\ EveryPingIsAnswered' /\ RefusedForAReason'
    BY <2>1, <2>2 DEF WholePings, StageFitsKind, EveryPingIsAnswered, RefusedForAReason
  <2>5. BytesAreCounted'
    BY <2>1, <2>2, <1>0, <1>00 DEF BytesAreCounted, StreamTypeOK
  <2> QED BY <2>3, <2>4, <2>5
<1>2. CASE OpenerTooLong
  <2>1. /\ stage = "opening" /\ stage' = "refused"
        /\ UNCHANGED <<opener, after, taken, first, held, pongs, reply>>
        /\ opener.len > MaxFrameLen \/ Header > MaxFrameLen + 1
    BY <1>2, <1>0 DEF OpenerTooLong, Opening, Decoded, TryDecode, StreamTypeOK, Header
  <2> QED
    BY <2>1, <1>0, <1>00 DEF StreamTypeOK, WholePings, StageFitsKind, BytesAreCounted,
                             EveryPingIsAnswered, RefusedForAReason, Header
<1>3. CASE OpenerRead
  \* A part of the opener is not all of the stream, which the opener is on.
  <2>1. taken # Total
    BY <1>3, <1>0 DEF OpenerRead, Decoded, TryDecode, StreamTypeOK, Header
  <2>2. PICK n \in 1..ChunkLen : taken + n <= Total /\ taken' = taken + n
    BY <1>3, <2>1 DEF OpenerRead
  <2>3. stage = "opening" /\ UNCHANGED <<opener, after, stage, first, held, pongs, reply>>
    BY <1>3, <2>1 DEF OpenerRead, Opening
  <2> QED
    BY <2>2, <2>3, <1>0, <1>00 DEF StreamTypeOK, WholePings, StageFitsKind, BytesAreCounted,
                                   EveryPingIsAnswered, RefusedForAReason
<1>4. CASE BodyRead
  <2>1. stage = "body" /\ held <= MaxBody /\ UNCHANGED <<opener, after, first, pongs, reply>>
    BY <1>4 DEF BodyRead
  <2>2. CASE taken = Total
    <3>1. /\ stage' = IF opener.kind = "http" THEN "answer" ELSE "refused"
          /\ UNCHANGED <<taken, held>>
      BY <1>4, <2>2 DEF BodyRead
    <3>2. StreamTypeOK' /\ WholePings' /\ StageFitsKind' /\ EveryPingIsAnswered'
      BY <2>1, <3>1 DEF StreamTypeOK, WholePings, StageFitsKind, EveryPingIsAnswered
    <3>3. RefusedForAReason'
      BY <2>1, <3>1 DEF StageFitsKind, RefusedForAReason
    <3>4. BytesAreCounted'
      BY <2>1, <2>2, <3>1, <1>00 DEF BytesAreCounted
    <3> QED BY <3>2, <3>3, <3>4
  <2>3. CASE taken # Total
    <3>1. PICK n \in 1..ChunkLen :
            taken + n <= Total /\ taken' = taken + n /\ held' = held + n /\ UNCHANGED stage
      BY <1>4, <2>3 DEF BodyRead
    <3> QED
      BY <2>1, <3>1, <1>0, <1>00 DEF StreamTypeOK, WholePings, StageFitsKind, BytesAreCounted,
                                     EveryPingIsAnswered, RefusedForAReason
  <2> QED BY <2>2, <2>3
<1>5. CASE BodyTooLong
  <2>1. /\ stage = "body" /\ held > MaxBody /\ stage' = "refused"
        /\ UNCHANGED <<opener, after, taken, first, held, pongs, reply>>
    BY <1>5 DEF BodyTooLong
  <2>2. after > MaxBody
    BY <2>1, <1>0 DEF BytesAreCounted, StreamTypeOK
  <2> QED
    BY <2>1, <2>2, <1>00 DEF StreamTypeOK, WholePings, StageFitsKind, BytesAreCounted,
                             EveryPingIsAnswered, RefusedForAReason
<1>6. CASE \E len \in {1, MaxFrameLen + 1} : WriteHead(len)
  <2>1. /\ stage = "answer" /\ stage' \in {"closed", "head"} /\ reply' \in {reply, "head"}
        /\ UNCHANGED <<opener, after, taken, first, held, pongs>>
    BY <1>6 DEF WriteHead
  <2> QED
    BY <2>1, <1>00 DEF StreamTypeOK, WholePings, StageFitsKind, BytesAreCounted,
                       EveryPingIsAnswered, RefusedForAReason
<1>7. CASE \E len \in {0, MaxBody, MaxBody + 1} : WriteBody(len)
  <2>1. /\ stage = "head" /\ stage' = "closed" /\ reply' \in {"cut", "whole"}
        /\ UNCHANGED <<opener, after, taken, first, held, pongs>>
    BY <1>7 DEF WriteBody
  <2> QED
    BY <2>1, <1>00 DEF StreamTypeOK, WholePings, StageFitsKind, BytesAreCounted,
                       EveryPingIsAnswered, RefusedForAReason
<1>8. CASE ControlFrame
  <2>1. /\ stage = "control" /\ held >= PingLen
        /\ pongs' = pongs + 1 /\ first' = first + PingLen /\ held' = held - PingLen
        /\ UNCHANGED <<opener, after, taken, stage, reply>>
    BY <1>8 DEF ControlFrame
  <2>2. StreamTypeOK' /\ WholePings' /\ StageFitsKind' /\ EveryPingIsAnswered' /\ RefusedForAReason'
    BY <2>1 DEF StreamTypeOK, WholePings, StageFitsKind, EveryPingIsAnswered, RefusedForAReason
  <2>3. pongs' * PingLen = pongs * PingLen + PingLen
    BY <2>1 DEF StreamTypeOK
  <2>4. pongs * PingLen \in Nat
    BY DEF StreamTypeOK
  <2>5. BytesAreCounted'
    BY <2>1, <2>3, <2>4, <1>0, <1>00 DEF BytesAreCounted, StreamTypeOK
  <2> QED BY <2>2, <2>5
<1>9. CASE ControlRead
  <2>1. stage = "control" /\ held < PingLen /\ UNCHANGED <<opener, after, first, pongs, reply>>
    BY <1>9 DEF ControlRead
  <2>2. CASE taken = Total
    <3>1. stage' = "closed" /\ UNCHANGED <<taken, held>>
      BY <1>9, <2>2 DEF ControlRead
    <3>2. after = pongs * PingLen + held
      <4>1. pongs * PingLen \in Nat
        BY DEF StreamTypeOK
      <4> QED BY <4>1, <2>1, <2>2, <1>0 DEF BytesAreCounted, StreamTypeOK
    <3>3. PICK k \in {0, 1, 2} : after = k * PingLen
      BY <2>1 DEF WholePings, StageFitsKind
    <3>4. pongs * PingLen = after
      BY <3>2, <3>3, <2>1, NoPartOfAPing DEF StreamTypeOK
    <3>5. StreamTypeOK' /\ WholePings' /\ StageFitsKind' /\ RefusedForAReason'
      BY <2>1, <3>1 DEF StreamTypeOK, WholePings, StageFitsKind, RefusedForAReason
    <3>6. EveryPingIsAnswered'
      BY <2>1, <3>4 DEF EveryPingIsAnswered
    <3>7. BytesAreCounted'
      BY <2>1, <3>1, <1>00 DEF BytesAreCounted
    <3> QED BY <3>5, <3>6, <3>7
  <2>3. CASE taken # Total
    <3>1. PICK n \in 1..ChunkLen :
            taken + n <= Total /\ taken' = taken + n /\ held' = held + n /\ UNCHANGED stage
      BY <1>9, <2>3 DEF ControlRead
    <3>2. StreamTypeOK' /\ WholePings' /\ StageFitsKind' /\ EveryPingIsAnswered' /\ RefusedForAReason'
      BY <2>1, <3>1 DEF StreamTypeOK, WholePings, StageFitsKind, EveryPingIsAnswered, RefusedForAReason
    <3>3. pongs * PingLen \in Nat
      BY DEF StreamTypeOK
    <3>4. BytesAreCounted'
      BY <2>1, <3>1, <3>3, <1>0, <1>00 DEF BytesAreCounted, StreamTypeOK
    <3> QED BY <3>2, <3>4
  <2> QED BY <2>2, <2>3
<1>10. CASE StreamBreaks
  BY <1>10, <1>00 DEF StreamBreaks, StreamTypeOK, WholePings, StageFitsKind, BytesAreCounted,
                      EveryPingIsAnswered, RefusedForAReason
<1>11. CASE UNCHANGED streamVars
  BY <1>11, <1>00 DEF streamVars, StreamTypeOK, WholePings, StageFitsKind, BytesAreCounted,
                      EveryPingIsAnswered, RefusedForAReason
<1> QED
  BY <1>1, <1>2, <1>3, <1>4, <1>5, <1>6, <1>7, <1>8, <1>9, <1>10, <1>11 DEF StreamNext

\* A body reaches the router whole and alone, a control stream that ends properly has
\* answered every ping, and a refusal is for what the edge did, whatever the lengths and
\* however the bytes fall into reads (session.rs, read_open, serve and control).
THEOREM StreamsAreAlwaysWhole == StreamSpec => []StreamsAreWhole
<1>1. StreamInv => BodyIsWhole
  BY StreamAssumption
     DEF StreamInv, BytesAreCounted, BodyIsWhole, StreamTypeOK, Opener, Header, Total
<1>2. StreamInv => StreamsAreWhole
  BY <1>1 DEF StreamInv, StreamsAreWhole
<1> QED BY <1>2, StreamInvInit, StreamInvStep, PTL DEF StreamSpec

-----------------------------------------------------------------------------
(* The reconnect loop and the heartbeat.                                   *)

\* The assumption without its powers.
LEMMA Units ==
    /\ Interval \in Nat \ {0} /\ Timeout \in Nat /\ Timeout >= 3 * Interval
    /\ MinSecs \in Nat \ {0} /\ MaxSecs \in Nat /\ MaxSecs > MinSecs
    /\ Saturation \in Nat /\ MaxTroubles \in Nat
BY RelayAssumption

\* A window is no longer than the longest wait.
LEMMA WindowType == ASSUME NEW n \in 0..Saturation PROVE Window(n) \in 0..MaxSecs
<1>1. 2 ^ n \in Nat
  BY PowersGrow
<1>2. MinSecs * 2 ^ n \in Nat
  BY <1>1, Units
<1> QED BY <1>2, Units DEF Window

\* A later attempt waits within a wider window.
LEMMA WindowGrows ==
    ASSUME NEW m \in 0..Saturation, NEW n \in 0..Saturation, m <= n
    PROVE  Window(m) <= Window(n)
<1>1. 2 ^ m \in Nat /\ 2 ^ n \in Nat /\ 2 ^ m <= 2 ^ n
  BY PowersGrow
<1>2. \A a, b \in Nat : a <= b => MinSecs * a <= MinSecs * b
  BY Units
<1>3. /\ MinSecs * 2 ^ m \in Nat /\ MinSecs * 2 ^ n \in Nat
      /\ MinSecs * 2 ^ m <= MinSecs * 2 ^ n
  BY <1>1, <1>2, Units
<1> QED BY <1>3, Units DEF Window

\* No wait since the last welcome was wider than the next one may be.
WidestIsNext == widest <= Window(attempt)

\* What is left until the next tick and how long it has been silent: the tick comes in time.
TickIsDue == Listening => age + toTick <= Timeout + Interval

\* An edge that is there is heard from within every timeout.
HeardFrom == ~lost => age <= Timeout

RelayInv ==
    /\ TypeOK /\ StatusIsHonest
    /\ BackoffNeverShrinks /\ WidestIsNext
    /\ TickIsDue /\ HeardFrom

\* However an attempt or a connection ends, the loop keeps its word.
LEMMA EndKeeps ==
    ASSUME RelayInv, NEW ended \in Ended, End(ended),
           edge' \in CloseReason \union {"welcome", "gone"}, troubles' \in 0..MaxTroubles
    PROVE  RelayInv'
<1> USE Units DEF RelayInv
<1>1. /\ last' = ended /\ lost' = FALSE /\ control' = FALSE
      /\ verdict' = NoVerdict /\ age' = 0 /\ toTick' = Interval
  BY DEF End
<1>1a. lost' \in BOOLEAN /\ control' \in BOOLEAN
  BY <1>1, Zenon
<1>2. attempt \in 0..Saturation /\ widest \in 0..MaxSecs
  BY DEF TypeOK
<1>3. /\ Window(0) \in 0..MaxSecs /\ Window(attempt) \in 0..MaxSecs
      /\ Window(0) <= Window(attempt)
  BY <1>2, WindowType, WindowGrows
<1>4. TickIsDue' /\ HeardFrom'
  BY <1>1 DEF TickIsDue, Listening, HeardFrom
<1>5. CASE Retry(ended) = "never"
  <2>1. /\ phase' = "stop" /\ status' = "attention"
        /\ UNCHANGED <<attempt, window, widest>>
    BY <1>5 DEF End
  <2>2. TypeOK'
    BY <1>1, <1>1a, <2>1 DEF TypeOK
  <2> QED
    BY <1>4, <2>1, <2>2 DEF StatusIsHonest, BackoffNeverShrinks, WidestIsNext, Window
<1>6. CASE Retry(ended) = "soon"
  <2>1. /\ phase' = "wait" /\ status' = "connecting"
        /\ window' = Window(0) /\ attempt' = attempt
        /\ widest' = IF window' > widest THEN window' ELSE widest
    BY <1>6 DEF End, NextDelay
  <2>2. TypeOK'
    BY <1>1, <1>2, <1>3, <1>1a, <2>1 DEF TypeOK
  <2>3. widest' <= Window(attempt) /\ Window(attempt)' = Window(attempt)
    BY <1>2, <1>3, <2>1 DEF WidestIsNext, Window
  <2>4. BackoffNeverShrinks'
    BY <1>1, <1>6, <2>1 DEF BackoffNeverShrinks, Retry
  <2> QED BY <1>4, <2>1, <2>2, <2>3, <2>4 DEF StatusIsHonest, WidestIsNext
<1>7. CASE Retry(ended) = "backoff"
  <2>1. /\ phase' = "wait" /\ status' = "connecting"
        /\ window' = Window(attempt)
        /\ attempt' = IF attempt < Saturation THEN attempt + 1 ELSE attempt
        /\ widest' = IF window' > widest THEN window' ELSE widest
    BY <1>7 DEF End, NextDelay
  <2>2. attempt' \in 0..Saturation /\ attempt <= attempt'
    BY <1>2, <2>1
  <2>3. TypeOK'
    BY <1>1, <1>2, <1>3, <1>1a, <2>1, <2>2 DEF TypeOK
  \* The new window is at least as wide as any before it.
  <2>4. widest' = window'
    BY <1>2, <1>3, <2>1 DEF WidestIsNext
  <2>5. Window(attempt) <= Window(attempt')
    BY <1>2, <2>2, WindowGrows
  <2>6. WidestIsNext'
    BY <2>1, <2>4, <2>5 DEF WidestIsNext, Window
  <2> QED BY <1>4, <2>1, <2>3, <2>4, <2>6 DEF StatusIsHonest, BackoffNeverShrinks
<1> QED BY <1>5, <1>6, <1>7 DEF Retry

\* A step that leaves the loop's counts alone disturbs neither schedule nor windows.
LEMMA LoopKeeps ==
    ASSUME RelayInv, UNCHANGED loop, phase' # "wait" \/ phase' = phase
    PROVE  BackoffNeverShrinks' /\ WidestIsNext'
BY DEF RelayInv, loop, BackoffNeverShrinks, WidestIsNext, Window, Retry

\* The loop before its first attempt.
LEMMA RelayInvInit == Init => RelayInv
<1>1. Window(0) \in 0..MaxSecs
  BY Units, WindowType
<1>2. Init => lost \in BOOLEAN /\ control \in BOOLEAN
  BY Zenon DEF Init
<1> QED
  BY <1>1, <1>2, Units
     DEF Init, RelayInv, TypeOK, StatusIsHonest, BackoffNeverShrinks, WidestIsNext, TickIsDue,
         HeardFrom, Listening, Ended, NoVerdict

\* Attempts, ticks, verdicts and waits keep the schedule and the status.
LEMMA RelayInvStep == RelayInv /\ [Next]_vars => RelayInv'
<1> SUFFICES ASSUME RelayInv, [Next]_vars PROVE RelayInv'
  OBVIOUS
<1> USE Units
<1> USE DEF RelayInv
<1>0. /\ edge \in CloseReason \union {"welcome", "gone"} /\ troubles \in 0..MaxTroubles
      /\ verdict \in Ended \union {NoVerdict}
  BY DEF TypeOK
<1>00. troubles < MaxTroubles => troubles + 1 \in 0..MaxTroubles
  BY <1>0
<1>1. ASSUME phase' \in {"dial", "hello", "verdict"}, phase \in {"dial", "hello", "verdict", "wait"},
             UNCHANGED <<loop, beat, lost, world>>
      PROVE  RelayInv'
  <2>1. BackoffNeverShrinks' /\ WidestIsNext'
    BY <1>1, LoopKeeps
  <2> QED BY <1>1, <2>1 DEF loop, beat, world, TypeOK, StatusIsHonest, TickIsDue, HeardFrom, Listening
<1>2. CASE WaitOver \/ Dial \/ Hello
  BY <1>1, <1>2 DEF WaitOver, Dial, Hello
<1>3. CASE DialFails \/ NoCommonVersion \/ EdgeGoneMidway
  BY <1>0, <1>3, EndKeeps DEF DialFails, NoCommonVersion, EdgeGoneMidway, world, Ended, CloseReason
<1>4. CASE Refused
  BY <1>0, <1>4, EndKeeps DEF Refused, world, Ended
<1>5. CASE HandshakeBreaks
  BY <1>0, <1>00, <1>5, EndKeeps DEF HandshakeBreaks, Ended
<1>6. CASE CarryEnds
  BY <1>0, <1>6, EndKeeps DEF CarryEnds, world
<1>7. CASE TunnelBreaks
  BY <1>0, <1>00, <1>7, EndKeeps DEF TunnelBreaks, Ended
<1>8. CASE Welcome
  <2>1. Window(0) \in 0..MaxSecs
    BY WindowType
  <2> QED
    BY <1>8, <2>1 DEF Welcome, beat, world, TypeOK, StatusIsHonest, BackoffNeverShrinks, WidestIsNext,
                      TickIsDue, HeardFrom, Listening
<1>9. ASSUME UNCHANGED <<phase, loop>> PROVE BackoffNeverShrinks' /\ WidestIsNext' /\ StatusIsHonest'
  BY <1>9, LoopKeeps DEF loop, StatusIsHonest
<1>10. CASE OpenControl \/ Hear
  <2>1. UNCHANGED <<phase, loop>>
    BY <1>10 DEF OpenControl, Hear
  <2>2. lost' \in BOOLEAN /\ control' \in BOOLEAN
    BY <1>10, Zenon DEF OpenControl, Hear, TypeOK
  <2> QED BY <1>9, <1>10, <2>1, <2>2 DEF OpenControl, Hear, loop, world, TypeOK, TickIsDue, HeardFrom, Listening
<1>11. CASE Elapse
  <2>1. UNCHANGED <<phase, loop>>
    BY <1>11 DEF Elapse
  <2>2. TypeOK'
    BY <1>11 DEF Elapse, loop, world, TypeOK
  <2>3. TickIsDue' /\ HeardFrom'
    BY <1>11 DEF Elapse, TypeOK, TickIsDue, HeardFrom, Listening
  <2> QED BY <1>9, <2>1, <2>2, <2>3
<1>12. CASE Tick
  <2>1. UNCHANGED <<phase, loop>>
    BY <1>12 DEF Tick
  <2>2. TypeOK'
    BY <1>12 DEF Tick, loop, world, TypeOK, Ended
  <2>3. TickIsDue' /\ HeardFrom'
    BY <1>12 DEF Tick, PresumedDead, TypeOK, TickIsDue, HeardFrom, Listening, NoVerdict
  <2> QED BY <1>9, <2>1, <2>2, <2>3
<1>13. CASE Goodbye
  <2>1. UNCHANGED <<phase, loop>>
    BY <1>13 DEF Goodbye
  <2> QED BY <1>9, <1>13, <1>00, <2>1 DEF Goodbye, loop, TypeOK, TickIsDue, HeardFrom, Listening, Ended, CloseReason, NoVerdict
<1>14. CASE LoseSilently \/ EdgeChanges
  <2>1. UNCHANGED <<phase, loop>>
    BY <1>14 DEF LoseSilently, EdgeChanges
  <2>2. lost' \in BOOLEAN /\ control' \in BOOLEAN
    BY <1>14, Zenon DEF LoseSilently, EdgeChanges, beat, TypeOK
  <2> QED BY <1>9, <1>14, <1>00, <2>1, <2>2 DEF LoseSilently, EdgeChanges, loop, beat, TypeOK, TickIsDue, HeardFrom, Listening
<1>15. CASE UNCHANGED vars
  BY <1>15 DEF vars, TypeOK, StatusIsHonest, BackoffNeverShrinks, WidestIsNext, Window, Retry,
               TickIsDue, HeardFrom, Listening
<1> QED
  BY <1>2, <1>3, <1>4, <1>5, <1>6, <1>7, <1>8, <1>10, <1>11, <1>12, <1>13, <1>14, <1>15
     DEF Next, Daemon, Edge, Trouble

\* The waits between attempts never shrink before the edge has let the daemon in, and the
\* status is what the loop is doing, through every mixture of refusals, drains and losses
\* (relay/mod.rs, Backoff and run).
THEOREM LoopIsAlwaysHonest == Spec => []LoopIsHonest
<1>1. RelayInv => LoopIsHonest
  BY DEF RelayInv, LoopIsHonest
<1> QED BY <1>1, RelayInvInit, RelayInvStep, PTL DEF Spec

\* With a control stream open, silence is noticed within the timeout and one interval,
\* whatever the two are (session.rs, control).
THEOREM SilenceIsAlwaysNoticed == Spec => []SilenceIsNoticed
<1>1. RelayInv => SilenceIsNoticed
  BY Units DEF RelayInv, TypeOK, TickIsDue, SilenceIsNoticed
<1> QED BY <1>1, RelayInvInit, RelayInvStep, PTL DEF Spec

\* The heartbeat never declares an edge dead that was heard from within every timeout.
THEOREM LiveEdgesAreKept == Spec => LiveEdgeIsKept
<1>1. RelayInv /\ [Next]_vars => [Tick /\ verdict' # NoVerdict => lost]_vars
  BY Units DEF RelayInv, TypeOK, HeardFrom, Tick, PresumedDead
<1> QED BY <1>1, RelayInvInit, RelayInvStep, PTL DEF Spec, LiveEdgeIsKept

-----------------------------------------------------------------------------
(* The bytes of a websocket: where every byte is, at every moment, and that    *)
(* each step is one of ByteStream's or none.  That the bytes do arrive is left  *)
(* to TLC.                                                                    *)

\* Byte number n is written as n: a run of bytes is known by where it starts.
IsRun(s, from) == s \in Seq(Nat) /\ \A i \in 1..Len(s) : s[i] = from + i

\* Two runs from one place are one up to the shorter's end.
LEMMA RunsAgree ==
    ASSUME NEW s, NEW t, IsRun(s, 0), IsRun(t, 0), Len(s) <= Len(t)
    PROVE  s = SubSeq(t, 1, Len(s)) /\ IsPrefix(s, t)
<1>1. s \in Seq(Nat) /\ t \in Seq(Nat) /\ Len(s) \in Nat /\ Len(t) \in Nat
  BY LenProperties DEF IsRun
<1>2. /\ SubSeq(t, 1, Len(s)) \in Seq(Nat) /\ Len(SubSeq(t, 1, Len(s))) = Len(s)
      /\ \A i \in 1..Len(s) : SubSeq(t, 1, Len(s))[i] = t[i]
  <2>1. \A i \in 1..Len(s) : t[i] \in Nat
    BY <1>1, ElementOfSeq
  <2> QED BY <1>1, <2>1, SubSeqProperties
<1>3. s = SubSeq(t, 1, Len(s))
  BY <1>1, <1>2, SeqEqual DEF IsRun
<1>4. SubSeq(s, 1, Len(s)) = s
  BY <1>1, SubSeqFull
<1> QED BY <1>1, <1>3, <1>4 DEF IsPrefix

\* A run that goes on where another ends makes one run with it.
LEMMA RunsJoin ==
    ASSUME NEW s, NEW t, NEW from \in Nat, IsRun(s, from), IsRun(t, from + Len(s))
    PROVE  IsRun(s \o t, from) /\ Len(s \o t) = Len(s) + Len(t)
<1>1. /\ s \o t \in Seq(Nat) /\ Len(s \o t) = Len(s) + Len(t)
      /\ \A i \in 1..Len(s) + Len(t) : (s \o t)[i] = IF i <= Len(s) THEN s[i] ELSE t[i - Len(s)]
  BY ConcatProperties DEF IsRun
<1>2. Len(s) \in Nat /\ Len(t) \in Nat
  BY LenProperties DEF IsRun
<1> QED BY <1>1, <1>2 DEF IsRun

\* A piece of a run is one.
LEMMA RunsSplit ==
    ASSUME NEW s, NEW from \in Nat, IsRun(s, from), NEW n \in 0..Len(s)
    PROVE  /\ IsRun(SubSeq(s, 1, n), from) /\ Len(SubSeq(s, 1, n)) = n
           /\ IsRun(SubSeq(s, n + 1, Len(s)), from + n)
           /\ Len(SubSeq(s, n + 1, Len(s))) = Len(s) - n
<1>1. s \in Seq(Nat) /\ Len(s) \in Nat /\ \A i \in 1..Len(s) : s[i] \in Nat
  BY LenProperties, ElementOfSeq DEF IsRun
<1>2. /\ SubSeq(s, 1, n) \in Seq(Nat) /\ Len(SubSeq(s, 1, n)) = n
      /\ \A i \in 1..n : SubSeq(s, 1, n)[i] = s[i]
  BY <1>1, SubSeqProperties
<1>3. /\ SubSeq(s, n + 1, Len(s)) \in Seq(Nat) /\ Len(SubSeq(s, n + 1, Len(s))) = Len(s) - n
      /\ \A i \in 1..Len(s) - n : SubSeq(s, n + 1, Len(s))[i] = s[n + i]
  <2>1. n + 1 \in Int /\ Len(s) \in Int /\ \A i \in n + 1..Len(s) : s[i] \in Nat
    BY <1>1
  <2>2. /\ SubSeq(s, n + 1, Len(s)) \in Seq(Nat)
        /\ Len(SubSeq(s, n + 1, Len(s))) = IF n + 1 <= Len(s) THEN Len(s) - (n + 1) + 1 ELSE 0
        /\ \A i \in 1..Len(s) - (n + 1) + 1 : SubSeq(s, n + 1, Len(s))[i] = s[n + 1 + i - 1]
    BY <2>1, SubSeqProperties
  <2>3. Len(s) - (n + 1) + 1 = Len(s) - n
    BY <1>1
  <2>4. ASSUME NEW i \in 1..Len(s) - n PROVE SubSeq(s, n + 1, Len(s))[i] = s[n + i]
    <3>1. n + 1 + i - 1 = n + i
      BY <1>1
    <3> QED BY <2>2, <2>3, <3>1
  <2>5. Len(SubSeq(s, n + 1, Len(s))) = Len(s) - n
    BY <1>1, <2>2
  <2> QED BY <2>2, <2>4, <2>5
<1> QED BY <1>1, <1>2, <1>3 DEF IsRun

\* The next n bytes.
LEMMA RunStarts ==
    ASSUME NEW from \in Nat, NEW n \in Nat
    PROVE  IsRun([i \in 1..n |-> from + i], from) /\ Len([i \in 1..n |-> from + i]) = n
BY DEF IsRun

\* What can be on the way: only data has bytes.
Message == {m \in [kind : {"binary", "ping", "text", "error", "close"}, bytes : Seq(Nat)] :
               m.kind # "binary" => m.bytes = <<>>}

Breaking(m) == m.kind \in {"text", "error"}

\* The n messages ms[1], .., ms[n] carry the bytes up to end: the first of message i is number
\* at[i] + 1.  A break loses some; what carries nothing moves nothing, one or many; nothing
\* follows the close.
Chain(ms, n, at, end) ==
    /\ ms \in [1..n -> Message] /\ at \in [1..n + 1 -> 0..end]
    /\ at[n + 1] = end
    /\ \A i \in 1..n :
         /\ IsRun(ms[i].bytes, at[i])
         /\ ~Breaking(ms[i]) => at[i + 1] = at[i] + Len(ms[i].bytes)
         /\ ms[i].kind = "close" => at[i] = end
    /\ \A i \in 1..n + 1, j \in 1..n + 1 :
         i <= j /\ (\A k \in i..j - 1 : IsNoise(ms[k])) => at[j] = at[i]

\* ns is what is left of ms when the first k messages are read.
RestOf(ns, size, ms, n, k) ==
    /\ n \in Nat /\ k \in 0..n /\ size = n - k
    /\ ns \in [1..size -> Message] /\ \A i \in 1..size : ns[i] = ms[i + k]

\* It begins where they end.
LEMMA ChainRest ==
    ASSUME NEW n, NEW end, end \in Nat, NEW ms, NEW at, Chain(ms, n, at, end),
           NEW k, NEW size, NEW ns, RestOf(ns, size, ms, n, k)
    PROVE  \E bt : Chain(ns, size, bt, end) /\ bt[1] = at[k + 1]
<1> SUFFICES ASSUME n \in Nat, k \in 0..n, size = n - k, ns \in [1..n - k -> Message],
                    \A i \in 1..n - k : ns[i] = ms[i + k]
             PROVE  \E bt : Chain(ns, n - k, bt, end) /\ bt[1] = at[k + 1]
  BY DEF RestOf
<1> DEFINE bt == [i \in 1..n - k + 1 |-> at[i + k]]
<1>1. ns \in [1..n - k -> Message] /\ bt \in [1..n - k + 1 -> 0..end] /\ bt[n - k + 1] = end
  BY DEF Chain
<1>2. ASSUME NEW i \in 1..n - k
      PROVE  /\ IsRun(ns[i].bytes, bt[i])
             /\ ~Breaking(ns[i]) => bt[i + 1] = bt[i] + Len(ns[i].bytes)
             /\ ns[i].kind = "close" => bt[i] = end
  <2>1. i + k \in 1..n /\ (i + k) + 1 = (i + 1) + k /\ i + 1 \in 1..n - k + 1
    OBVIOUS
  <2>2. ns[i] = ms[i + k] /\ bt[i] = at[i + k] /\ bt[i + 1] = at[(i + k) + 1]
    BY <2>1
  <2> QED BY <2>1, <2>2 DEF Chain
<1>3. ASSUME NEW i \in 1..n - k + 1, NEW j \in 1..n - k + 1, i <= j, \A l \in i..j - 1 : IsNoise(ns[l])
      PROVE  bt[j] = bt[i]
  <2>1. \A l \in i + k..j + k - 1 : l - k \in i..j - 1 /\ ns[l - k] = ms[l]
    OBVIOUS
  <2>2. \A l \in i + k..j + k - 1 : IsNoise(ms[l])
    BY <1>3, <2>1
  <2>3. i + k \in 1..n + 1 /\ j + k \in 1..n + 1 /\ i + k <= j + k
    BY <1>3
  <2>4. at[j + k] = at[i + k]
    BY <2>2, <2>3 DEF Chain
  <2> QED BY <2>4
<1>4. Chain(ns, n - k, bt, end)
  <2> HIDE DEF bt
  <2> QED BY <1>1, <1>2, <1>3 DEF Chain
<1>5. bt[1] = at[k + 1]
  OBVIOUS
<1> QED BY <1>4, <1>5

\* One more message is put behind the rest.
LEMMA ChainGrows ==
    ASSUME NEW n \in Nat, NEW end \in Nat, NEW ms, NEW at, Chain(ms, n, at, end),
           NEW m \in Message, IsRun(m.bytes, end), ~Breaking(m),
           \A i \in 1..n : ms[i].kind # "close",
           NEW ns \in [1..n + 1 -> Message], (\A i \in 1..n : ns[i] = ms[i]) /\ ns[n + 1] = m
    PROVE  \E bt : Chain(ns, n + 1, bt, end + Len(m.bytes)) /\ bt[1] = at[1]
<1> DEFINE final == end + Len(m.bytes)
           bt == [i \in 1..n + 2 |-> IF i <= n + 1 THEN at[i] ELSE final]
<1>0. m.bytes \in Seq(Nat) /\ Len(m.bytes) \in Nat
  BY LenProperties DEF Message
<1>1. ns \in [1..n + 1 -> Message] /\ bt \in [1..(n + 1) + 1 -> 0..final] /\ bt[(n + 1) + 1] = final
  <2>1. ms \in [1..n -> Message] /\ at \in [1..n + 1 -> 0..end]
    BY DEF Chain
  <2> QED BY <1>0, <2>1
<1>2. ASSUME NEW i \in 1..n + 1
      PROVE  /\ IsRun(ns[i].bytes, bt[i])
             /\ ~Breaking(ns[i]) => bt[i + 1] = bt[i] + Len(ns[i].bytes)
             /\ ns[i].kind = "close" => bt[i] = final
  <2>1. CASE i \in 1..n
    BY <2>1 DEF Chain
  <2>2. CASE i = n + 1
    <3>1. ns[i] = m /\ bt[i] = end /\ bt[i + 1] = final
      BY <2>2 DEF Chain
    <3>2. m.kind = "close" => m.bytes = <<>>
      BY DEF Message
    <3> QED BY <3>1, <3>2
  <2> QED BY <2>1, <2>2
<1>3. ASSUME NEW i \in 1..n + 2, NEW j \in 1..n + 2, i <= j, \A l \in i..j - 1 : IsNoise(ns[l])
      PROVE  bt[j] = bt[i]
  <2>0. \A l \in 1..n : ns[l] = ms[l]
    OBVIOUS
  <2>1. ASSUME NEW l \in i..j - 1, l <= n PROVE IsNoise(ms[l])
    <3>1. l \in 1..n
      BY <2>1
    <3> QED BY <1>3, <2>0, <3>1
  <2>2. CASE j <= n + 1
    BY <1>3, <2>1, <2>2 DEF Chain
  <2>3. CASE j = n + 2 /\ i = n + 2
    BY <2>3
  <2>4. CASE j = n + 2 /\ i <= n + 1
    <3>1. at[n + 1] = at[i] /\ at[n + 1] = end
      BY <2>1, <2>4 DEF Chain
    <3>2. IsNoise(m)
      <4>1. n + 1 \in i..j - 1 /\ ns[n + 1] = m
        BY <2>4
      <4> QED BY <1>3, <4>1
    <3>3. Len(m.bytes) = 0
      BY <3>2 DEF IsNoise, Message
    <3>4. bt[j] = end + Len(m.bytes) /\ bt[i] = at[i] /\ end \in Int
      BY <2>4
    <3> QED BY <3>1, <3>3, <3>4
  <2> QED BY <1>3, <2>2, <2>3, <2>4
<1>4. (n + 1) + 1 = n + 2 /\ bt[1] = at[1]
  OBVIOUS
<1>5. Chain(ns, n + 1, bt, final)
  <2> HIDE DEF bt, final
  <2> QED BY <1>1, <1>2, <1>3, <1>4 DEF Chain
<1> QED BY <1>4, <1>5

\* The message m, which carries nothing, takes the place of those after number k and up to
\* number w: of none, unless it is a break.
Spliced(ns, size, ms, n, k, w, m) ==
    /\ n \in Nat /\ w \in 0..n /\ k \in 0..w /\ size = n + k + 1 - w
    /\ m \in Message /\ m.bytes = <<>> /\ m.kind # "close" /\ (k = w \/ Breaking(m))
    /\ ns \in [1..size -> Message]
    /\ \A i \in 1..size :
         /\ i <= k => ns[i] = ms[i]
         /\ i = k + 1 => ns[i] = m
         /\ i > k + 1 => ns[i] = ms[i + w - k - 1]

\* It leaves the bytes of the others where they were.
LEMMA ChainSplices ==
    ASSUME NEW n, NEW end, end \in Nat, NEW ms, NEW at, Chain(ms, n, at, end),
           NEW w, NEW k, NEW m, NEW size, NEW ns, Spliced(ns, size, ms, n, k, w, m)
    PROVE  \E bt : Chain(ns, size, bt, end) /\ bt[1] = at[1]
<1> SUFFICES ASSUME n \in Nat, w \in 0..n, k \in 0..w, m \in Message, m.bytes = <<>>,
                    m.kind # "close", k = w \/ Breaking(m), size = n + k + 1 - w,
                    ns \in [1..size -> Message]
             PROVE  \E bt : Chain(ns, size, bt, end) /\ bt[1] = at[1]
  BY DEF Spliced
<1> DEFINE bt == [i \in 1..size + 1 |-> IF i <= k + 1 THEN at[i] ELSE at[i + w - k - 1]]
<1>a. n \in Int /\ w \in Int /\ k \in Int /\ 0 <= k /\ k <= w /\ w <= n
  OBVIOUS
<1> USE <1>a
<1>b. size \in Nat /\ size + 1 + w - k - 1 = n + 1
  BY <1>a
<1>0. size \in Nat /\ ms \in [1..n -> Message] /\ at \in [1..n + 1 -> 0..end]
  BY DEF Chain
<1>c. \A i \in 1..size :
         /\ i <= k => ns[i] = ms[i]
         /\ i = k + 1 => ns[i] = m
         /\ i > k + 1 => ns[i] = ms[i + w - k - 1]
  BY DEF Spliced
<1>d. \A i \in 1..size + 1 :
         /\ i <= k + 1 => bt[i] = at[i]
         /\ i > k + 1 => bt[i] = at[i + w - k - 1]
  OBVIOUS
<1>1. ns \in [1..size -> Message] /\ bt \in [1..size + 1 -> 0..end] /\ bt[size + 1] = end
  <2>1. size + 1 + w - k - 1 = n + 1 /\ size + 1 > k + 1 /\ at[n + 1] = end
    BY DEF Chain
  <2> QED BY <1>0, <2>1
<1>e. size = n + k + 1 - w
  OBVIOUS
<1>4. bt[1] = at[1]
  OBVIOUS
<1>g. \A i \in 1..size :
         i > k + 1 => /\ i + w - k - 1 \in 1..n /\ i + 1 \in 1..size + 1
                      /\ (i + w - k - 1) + 1 = (i + 1) + w - k - 1
  OBVIOUS
<1>h. \A i \in 1..size + 1 : i > k + 1 => i + w - k - 1 \in 1..n + 1
  OBVIOUS
<1>f. size \in Int /\ IsRun(m.bytes, at[k + 1]) /\ Len(m.bytes) = 0
  BY <1>e DEF IsRun
<1> SUFFICES Chain(ns, size, bt, end)
  BY <1>4
<1> HIDE DEF bt
<1> USE <1>e, <1>f
<1>2. ASSUME NEW i \in 1..size
      PROVE  /\ IsRun(ns[i].bytes, bt[i])
             /\ ~Breaking(ns[i]) => bt[i + 1] = bt[i] + Len(ns[i].bytes)
             /\ ns[i].kind = "close" => bt[i] = end
  <2>1. CASE i <= k
    <3>1. i \in 1..n /\ ns[i] = ms[i] /\ bt[i] = at[i] /\ bt[i + 1] = at[i + 1]
      <4>1. i \in 1..size + 1 /\ i + 1 \in 1..size + 1 /\ i + 1 <= k + 1
        BY <2>1
      <4>2. ns[i] = ms[i]
        BY <1>c, <2>1
      <4>3. bt[i] = at[i]
        BY <1>d, <2>1, <4>1
      <4>4. bt[i + 1] = at[i + 1]
        BY <1>d, <4>1
      <4>5. i \in 1..n
        BY <2>1
      <4> QED BY <4>2, <4>3, <4>4, <4>5
    <3> QED BY <3>1 DEF Chain
  <2>2. CASE i = k + 1
    <3>1. ns[i] = m /\ bt[i] = at[k + 1] /\ bt[i + 1] = at[w + 1]
      <4>1. i + 1 \in 1..size + 1 /\ i + 1 > k + 1 /\ (i + 1) + w - k - 1 = w + 1
           /\ i \in 1..size + 1 /\ i <= k + 1
        BY <2>2
      <4> QED BY <1>c, <1>d, <2>2, <4>1
    <3>2. at[k + 1] \in Nat /\ (~Breaking(m) => at[w + 1] = at[k + 1])
      <4>1. k + 1 \in 1..n + 1 /\ (~Breaking(m) => w + 1 = k + 1)
        OBVIOUS
      <4>2. at[k + 1] \in 0..end
        BY <1>0, <4>1
      <4> QED BY <4>1, <4>2
    <3>3. IsRun(ns[i].bytes, bt[i]) /\ ns[i].kind # "close"
      BY <1>f, <3>1
    <3>4. ~Breaking(ns[i]) => bt[i + 1] = bt[i] + Len(ns[i].bytes)
      <4>1. at[k + 1] = at[k + 1] + 0
        BY <3>2
      <4> QED BY <1>f, <3>1, <3>2, <4>1
    <3> QED BY <3>3, <3>4
  <2>3. CASE i > k + 1
    <3>1. i + w - k - 1 \in 1..n /\ (i + w - k - 1) + 1 = (i + 1) + w - k - 1 /\ i + 1 \in 1..size + 1
      BY <1>g, <2>3
    <3>2. ns[i] = ms[i + w - k - 1] /\ bt[i] = at[i + w - k - 1] /\ bt[i + 1] = at[(i + w - k - 1) + 1]
      <4>1. i \in 1..size + 1 /\ i + 1 > k + 1
        BY <2>3
      <4> QED BY <1>c, <1>d, <2>3, <3>1, <4>1
    <3> QED BY <3>1, <3>2 DEF Chain
  <2> QED BY <2>1, <2>2, <2>3
<1>3. ASSUME NEW i \in 1..size + 1, NEW j \in 1..size + 1, i <= j, \A l \in i..j - 1 : IsNoise(ns[l])
      PROVE  bt[j] = bt[i]
  <2>1. CASE j <= k + 1
    <3>1. \A l \in i..j - 1 : IsNoise(ms[l])
      <4>1. \A l \in i..j - 1 : l \in 1..size /\ l <= k
        BY <2>1
      <4> QED BY <1>3, <1>c, <4>1
    <3>2. i \in 1..n + 1 /\ j \in 1..n + 1 /\ bt[i] = at[i] /\ bt[j] = at[j]
      BY <1>3, <1>d, <2>1
    <3> QED BY <1>3, <3>1, <3>2 DEF Chain
  <2>2. CASE i > k + 1
    <3> DEFINE p == i + w - k - 1
               q == j + w - k - 1
    <3>1. p \in 1..n + 1 /\ q \in 1..n + 1 /\ p <= q /\ bt[i] = at[p] /\ bt[j] = at[q]
      <4>1. j > k + 1
        BY <1>3, <2>2
      <4>2. bt[i] = at[p] /\ bt[j] = at[q]
        BY <1>d, <2>2, <4>1
      <4>3. p \in 1..n + 1 /\ q \in 1..n + 1
        BY <1>h, <2>2, <4>1
      <4>4. p <= q
        BY <1>3
      <4> QED BY <4>2, <4>3, <4>4
    <3>2. \A l \in p..q - 1 : l - w + k + 1 \in i..j - 1 /\ ns[l - w + k + 1] = ms[l]
      <4> SUFFICES ASSUME NEW l \in p..q - 1
                   PROVE  l - w + k + 1 \in i..j - 1 /\ ns[l - w + k + 1] = ms[l]
        OBVIOUS
      <4> DEFINE x == l - w + k + 1
      <4>0. i \in Int /\ j \in Int /\ size \in Int /\ l \in Int
        BY <1>f
      <4>1. x \in i..j - 1 /\ x \in 1..size /\ x > k + 1 /\ x + w - k - 1 = l
        BY <1>a, <2>2, <4>0
      <4> QED BY <1>c, <4>1
    <3>3. \A l \in p..q - 1 : IsNoise(ms[l])
      BY <1>3, <3>2
    <3> HIDE DEF p, q
    <3> QED BY <3>1, <3>3 DEF Chain
  <2>3. CASE i <= k + 1 /\ k + 1 < j
    <3> DEFINE q == j + w - k - 1
    <3>1. IsNoise(m)
      <4>1. k + 1 \in i..j - 1 /\ k + 1 \in 1..size
        BY <2>3
      <4> QED BY <1>3, <1>c, <4>1
    <3>2. k = w
      BY <3>1 DEF IsNoise, Breaking
    <3>3. q \in 1..n + 1 /\ i \in 1..n + 1 /\ i <= q /\ bt[i] = at[i] /\ bt[j] = at[q]
      BY <1>d, <2>3, <3>2
    <3>4. \A l \in i..q - 1 : IsNoise(ms[l])
      <4> SUFFICES ASSUME NEW l \in i..q - 1 PROVE IsNoise(ms[l])
        OBVIOUS
      <4>1. CASE l <= k
        <5>1. l \in i..j - 1 /\ l \in 1..size
          BY <2>3, <3>2, <4>1
        <5> QED BY <1>3, <1>c, <4>1, <5>1
      <4>2. CASE l > k
        <5>1. l + 1 \in i..j - 1 /\ l + 1 \in 1..size /\ l + 1 > k + 1 /\ (l + 1) + w - k - 1 = l
          BY <2>3, <3>2, <4>2
        <5> QED BY <1>3, <1>c, <5>1
      <4> QED BY <4>1, <4>2
    <3> HIDE DEF q
    <3> QED BY <3>3, <3>4 DEF Chain
  <2> QED BY <2>1, <2>2, <2>3
<1> QED BY <1>0, <1>1, <1>2, <1>3 DEF Chain

-----------------------------------------------------------------------------
\* What is on the wire and what waits in the sink, as one.
Joined(w, s) == [i \in 1..Len(w) + Len(s) |-> IF i <= Len(w) THEN w[i] ELSE s[i - Len(w)]]

\* It is messages all of it.
LEMMA JoinedType ==
    ASSUME NEW w \in Seq(Message), NEW s \in Seq(Message)
    PROVE  Joined(w, s) \in [1..Len(w) + Len(s) -> Message]
<1>1. Len(w) \in Nat /\ Len(s) \in Nat
  BY LenProperties
<1>2. \A i \in 1..Len(w) : w[i] \in Message
  BY ElementOfSeq
<1>3. \A i \in 1..Len(s) : s[i] \in Message
  BY ElementOfSeq
<1> QED BY <1>1, <1>2, <1>3 DEF Joined

\* Moving the sink onto the wire changes nothing.
LEMMA JoinedFlushed ==
    ASSUME NEW w \in Seq(Message), NEW s \in Seq(Message)
    PROVE  /\ w \o s \in Seq(Message) /\ Len(w \o s) + Len(<<>>) = Len(w) + Len(s)
           /\ Joined(w \o s, <<>>) = Joined(w, s)
<1>1. /\ w \o s \in Seq(Message) /\ Len(w \o s) = Len(w) + Len(s)
      /\ \A i \in 1..Len(w) + Len(s) : (w \o s)[i] = IF i <= Len(w) THEN w[i] ELSE s[i - Len(w)]
  BY ConcatProperties
<1>2. Len(<<>>) = 0 /\ Len(w) \in Nat /\ Len(s) \in Nat
  BY LenProperties
<1> QED BY <1>1, <1>2 DEF Joined

\* A message behind the sink is behind everything.
LEMMA JoinedGrows ==
    ASSUME NEW w \in Seq(Message), NEW s \in Seq(Message), NEW m \in Message
    PROVE  /\ Append(s, m) \in Seq(Message) /\ Len(w) + Len(Append(s, m)) = Len(w) + Len(s) + 1
           /\ \A i \in 1..Len(w) + Len(s) : Joined(w, Append(s, m))[i] = Joined(w, s)[i]
           /\ Joined(w, Append(s, m))[Len(w) + Len(s) + 1] = m
<1>1. /\ Append(s, m) \in Seq(Message) /\ Len(Append(s, m)) = Len(s) + 1
      /\ \A i \in 1..Len(s) : Append(s, m)[i] = s[i]
      /\ Append(s, m)[Len(s) + 1] = m
  BY AppendProperties
<1>2. Len(w) \in Nat /\ Len(s) \in Nat
  BY LenProperties
<1>3. Len(w) + Len(Append(s, m)) = Len(w) + Len(s) + 1
  BY <1>1, <1>2
<1>4. ASSUME NEW i \in 1..Len(w) + Len(s)
      PROVE  Joined(w, Append(s, m))[i] = Joined(w, s)[i]
  BY <1>1, <1>2, <1>3 DEF Joined
<1>5. Joined(w, Append(s, m))[Len(w) + Len(s) + 1] = m
  BY <1>1, <1>2, <1>3 DEF Joined
<1> QED BY <1>1, <1>3, <1>4, <1>5

\* What is left when the first k messages of the wire are read.
LEMMA JoinedRest ==
    ASSUME NEW w \in Seq(Message), NEW s \in Seq(Message), NEW k \in 0..Len(w)
    PROVE  LET rest == SubSeq(w, k + 1, Len(w)) IN
           /\ rest \in Seq(Message) /\ Len(rest) + Len(s) = Len(w) + Len(s) - k
           /\ \A i \in 1..Len(w) + Len(s) - k : Joined(rest, s)[i] = Joined(w, s)[i + k]
<1> DEFINE rest == SubSeq(w, k + 1, Len(w))
<1>1. Len(w) \in Nat /\ Len(s) \in Nat /\ \A i \in 1..Len(w) : w[i] \in Message
  BY LenProperties, ElementOfSeq
<1>2. /\ rest \in Seq(Message) /\ Len(rest) = Len(w) - k
      /\ \A i \in 1..Len(w) - k : rest[i] = w[i + k]
  BY <1>1, SubSeqProperties
<1> HIDE DEF rest
<1>3. ASSUME NEW i \in 1..Len(w) + Len(s) - k
      PROVE  (IF i <= Len(rest) THEN rest[i] ELSE s[i - Len(rest)]) = Joined(w, s)[i + k]
  <2>1. i + k \in 1..Len(w) + Len(s)
    BY <1>1
  <2>2. CASE i <= Len(w) - k
    BY <1>1, <1>2, <2>1, <2>2 DEF Joined
  <2>3. CASE i > Len(w) - k
    <3>1. i - (Len(w) - k) = (i + k) - Len(w)
      BY <1>1
    <3> QED BY <1>1, <1>2, <2>1, <2>3, <3>1 DEF Joined
  <2> QED BY <1>1, <2>2, <2>3
<1>4. Len(rest) + Len(s) = Len(w) + Len(s) - k
  BY <1>1, <1>2
<1>5. \A i \in 1..Len(w) + Len(s) - k : Joined(rest, s)[i] = Joined(w, s)[i + k]
  BY <1>3, <1>4 DEF Joined
<1> QED BY <1>2, <1>4, <1>5 DEF rest

\* A message that takes the place of the end of the wire.
LEMMA JoinedSplices ==
    ASSUME NEW w \in Seq(Message), NEW s \in Seq(Message), NEW k \in 0..Len(w), NEW m \in Message
    PROVE  LET cut == SubSeq(w, 1, k) \o <<m>>
               n == Len(w) + Len(s)
           IN  /\ cut \in Seq(Message) /\ Len(cut) + Len(s) = n + k + 1 - Len(w)
               /\ \A i \in 1..n + k + 1 - Len(w) :
                     /\ i <= k => Joined(cut, s)[i] = Joined(w, s)[i]
                     /\ i = k + 1 => Joined(cut, s)[i] = m
                     /\ i > k + 1 => Joined(cut, s)[i] = Joined(w, s)[i + Len(w) - k - 1]
<1> DEFINE cut == SubSeq(w, 1, k) \o <<m>>
           n == Len(w) + Len(s)
<1>1. Len(w) \in Nat /\ Len(s) \in Nat /\ \A i \in 1..Len(w) : w[i] \in Message
  BY LenProperties, ElementOfSeq
<1>2. /\ SubSeq(w, 1, k) \in Seq(Message) /\ Len(SubSeq(w, 1, k)) = k
      /\ \A i \in 1..k : SubSeq(w, 1, k)[i] = w[i]
  BY <1>1, SubSeqProperties
<1>3. <<m>> \in Seq(Message) /\ Len(<<m>>) = 1 /\ <<m>>[1] = m
  OBVIOUS
<1>4. /\ cut \in Seq(Message) /\ Len(cut) = k + 1
      /\ \A i \in 1..k + 1 : cut[i] = IF i <= k THEN SubSeq(w, 1, k)[i] ELSE <<m>>[i - k]
  BY <1>2, <1>3, ConcatProperties
<1>5. (\A i \in 1..k : cut[i] = w[i]) /\ cut[k + 1] = m
  <2>1. k + 1 \in 1..k + 1 /\ ~(k + 1 <= k) /\ (k + 1) - k = 1
    OBVIOUS
  <2> QED BY <1>2, <1>3, <1>4, <2>1
<1> HIDE DEF cut
<1>6. ASSUME NEW i \in 1..n + k + 1 - Len(w)
      PROVE  (IF i <= Len(cut) THEN cut[i] ELSE s[i - Len(cut)])
                = IF i <= k THEN Joined(w, s)[i]
                  ELSE IF i = k + 1 THEN m ELSE Joined(w, s)[i + Len(w) - k - 1]
  <2>1. CASE i <= k
    <3>1. i \in 1..Len(w) + Len(s) /\ i <= Len(w) /\ i <= Len(cut)
      BY <1>1, <1>4, <2>1
    <3> QED BY <1>5, <2>1, <3>1 DEF Joined
  <2>2. CASE i = k + 1
    BY <1>4, <1>5, <2>2
  <2>3. CASE i > k + 1
    <3>1. i + Len(w) - k - 1 \in 1..Len(w) + Len(s) /\ ~(i + Len(w) - k - 1 <= Len(w))
          /\ (i + Len(w) - k - 1) - Len(w) = i - (k + 1)
      BY <1>1, <2>3
    <3>2. Joined(w, s)[i + Len(w) - k - 1] = s[i - (k + 1)]
      BY <3>1 DEF Joined
    <3> QED BY <1>4, <2>3, <3>2
  <2> QED BY <1>1, <2>1, <2>2, <2>3
<1>7. Len(cut) + Len(s) = n + k + 1 - Len(w)
  BY <1>1, <1>4
<1>8. \A i \in 1..n + k + 1 - Len(w) :
         Joined(cut, s)[i] = IF i <= k THEN Joined(w, s)[i]
                             ELSE IF i = k + 1 THEN m ELSE Joined(w, s)[i + Len(w) - k - 1]
  BY <1>6, <1>7 DEF Joined
<1> QED BY <1>1, <1>4, <1>7, <1>8 DEF cut

-----------------------------------------------------------------------------
\* What the reader has, and what is kept for it, is the beginning of what was written.
KeptInv ==
    /\ IsRun(wsWritten, 0) /\ IsRun(wsDelivered, 0) /\ IsRun(unread, Len(wsDelivered))
    /\ Len(wsDelivered) + Len(unread) <= Len(wsWritten)
    /\ wire \in Seq(Message) /\ sink \in Seq(Message)
    /\ wsEnded \in BOOLEAN /\ wsBroken \in BOOLEAN

\* The rest of it is on the way, as long as the reader has not been told otherwise, and the
\* close is the final thing said.
WayInv ==
    /\ ~wsClosed => \A i \in 1..Len(wire) + Len(sink) : Joined(wire, sink)[i].kind # "close"
    /\ ~wsBroken => \E at : /\ Chain(Joined(wire, sink), Len(wire) + Len(sink), at, Len(wsWritten))
                            /\ at[1] = Len(wsDelivered) + Len(unread)

WsInv == KeptInv /\ WayInv

\* At first nothing is written and nothing is on the way.
LEMMA WsInvInit == WsInit => WsInv
<1> SUFFICES ASSUME WsInit PROVE WsInv
  OBVIOUS
<1>1. /\ wsWritten = <<>> /\ wsDelivered = <<>> /\ unread = <<>> /\ wire = <<>> /\ sink = <<>>
      /\ Len(<<>>) = 0 /\ <<>> \in Seq(Nat) /\ <<>> \in Seq(Message)
  BY DEF WsInit
<1>b. wsEnded \in BOOLEAN /\ wsBroken \in BOOLEAN
  BY Zenon DEF WsInit
<1>2. KeptInv
  BY <1>1, <1>b DEF KeptInv, IsRun
<1> DEFINE at == [i \in 1..0 + 1 |-> 0]
           ms == Joined(<<>>, <<>>)
<1>3. ms \in [1..0 -> Message] /\ at \in [1..0 + 1 -> 0..0] /\ at[0 + 1] = 0 /\ at[1] = 0
  BY <1>1 DEF Joined
<1>4. \A i \in 1..0 + 1, j \in 1..0 + 1 : at[j] = at[i]
  OBVIOUS
<1> HIDE DEF at, ms
<1>5. Chain(ms, 0, at, 0)
  BY <1>3, <1>4 DEF Chain
<1>6. WayInv
  <2>1. Len(wire) + Len(sink) = 0 /\ Len(wsWritten) = 0 /\ Len(wsDelivered) + Len(unread) = 0
        /\ Joined(wire, sink) = ms
    BY <1>1 DEF ms
  <2>2. \A i \in 1..0 : FALSE
    OBVIOUS
  <2> QED BY <1>3, <1>5, <2>1, <2>2 DEF WayInv
<1> QED BY <1>2, <1>6 DEF WsInv

\* What drain_into takes is the next of the run it takes it from, and the rest is kept.
LEMMA DrainKeeps ==
    ASSUME KeptInv, NEW bytes, IsRun(bytes, Len(wsDelivered)), Len(bytes) > 0,
           Len(wsDelivered) + Len(bytes) <= Len(wsWritten),
           NEW size \in 1..MaxPiece, DrainInto(bytes, size)
    PROVE  /\ IsRun(wsDelivered', 0) /\ IsRun(unread', Len(wsDelivered'))
           /\ Len(wsDelivered') + Len(unread') = Len(wsDelivered) + Len(bytes)
           /\ Len(wsDelivered') \in (Len(wsDelivered) + 1)..Len(wsWritten)
           /\ Len(unread') \in Nat
<1> DEFINE takes == IF Len(bytes) < size THEN Len(bytes) ELSE size
<1>1. Len(bytes) \in Nat /\ Len(wsDelivered) \in Nat /\ Len(wsWritten) \in Nat /\ MaxPiece \in Nat
  BY LenProperties, WsAssumption DEF KeptInv, IsRun
<1>2. takes \in 1..Len(bytes)
  BY <1>1
<1>3. /\ wsDelivered' = wsDelivered \o SubSeq(bytes, 1, takes)
      /\ unread' = SubSeq(bytes, takes + 1, Len(bytes))
  BY DEF DrainInto
<1> HIDE DEF takes
<1>4. /\ IsRun(SubSeq(bytes, 1, takes), Len(wsDelivered)) /\ Len(SubSeq(bytes, 1, takes)) = takes
      /\ IsRun(unread', Len(wsDelivered) + takes) /\ Len(unread') = Len(bytes) - takes
  BY <1>1, <1>2, <1>3, RunsSplit
<1>5. IsRun(wsDelivered', 0) /\ Len(wsDelivered') = Len(wsDelivered) + takes
  <2>1. 0 + Len(wsDelivered) = Len(wsDelivered)
    BY <1>1
  <2> QED BY <1>3, <1>4, <2>1, RunsJoin DEF KeptInv
<1> QED BY <1>1, <1>2, <1>4, <1>5

\* The kinds there are, and what they carry.
LEMMA Kinds ==
    /\ \A kind \in {"ping", "binary", "text", "error", "close"} :
          Bare(kind) \in Message /\ Bare(kind).kind = kind /\ Bare(kind).bytes = <<>>
    /\ \A bytes \in Seq(Nat) :
          Binary(bytes) \in Message /\ Binary(bytes).kind = "binary" /\ Binary(bytes).bytes = bytes
<1>1. <<>> \in Seq(Nat)
  OBVIOUS
<1> QED BY <1>1 DEF Bare, Binary, Message

\* The sizes that the invariant speaks of are numbers.
LEMMA Sizes ==
    ASSUME KeptInv
    PROVE  /\ Len(wsWritten) \in Nat /\ Len(wsDelivered) \in Nat /\ Len(unread) \in Nat
           /\ Len(wire) \in Nat /\ Len(sink) \in Nat /\ Len(wire) + Len(sink) \in Nat
           /\ wire \in Seq(Message) /\ sink \in Seq(Message)
BY LenProperties DEF KeptInv, IsRun

\* The writer's steps.
LEMMA WriteKeeps ==
    ASSUME WsInv, NEW n \in 1..MaxPiece, PollWrite(n)
    PROVE  WsInv' /\ IsRun(wsWritten', 0) /\ Len(wsWritten') = Len(wsWritten) + n
<1> DEFINE bytes == [i \in 1..n |-> Len(wsWritten) + i]
           size == Len(wire) + Len(sink)
<1>0. KeptInv
  BY DEF WsInv
<1>1. /\ ~wsClosed /\ sink' = Append(sink, Binary(bytes)) /\ wsWritten' = wsWritten \o bytes
      /\ UNCHANGED <<wsDelivered, wsClosed, wsEnded, wsBroken, wire, unread>>
  BY DEF PollWrite
<1>2. IsRun(bytes, Len(wsWritten)) /\ Len(bytes) = n /\ n \in Nat
  <2>1. n \in Nat
    BY WsAssumption
  <2> QED BY <1>0, <2>1, Sizes, RunStarts
<1> HIDE DEF bytes
<1>3. IsRun(wsWritten', 0) /\ Len(wsWritten') = Len(wsWritten) + n
  <2>1. 0 + Len(wsWritten) = Len(wsWritten)
    BY <1>0, Sizes
  <2> QED BY <1>0, <1>1, <1>2, <2>1, RunsJoin DEF KeptInv
<1>4. /\ Binary(bytes) \in Message /\ Binary(bytes).kind = "binary" /\ Binary(bytes).bytes = bytes
  BY <1>2, Kinds DEF IsRun
<1>5. /\ sink' \in Seq(Message) /\ Len(wire') + Len(sink') = size + 1
      /\ Joined(wire', sink') \in [1..size + 1 -> Message]
      /\ \A i \in 1..size : Joined(wire', sink')[i] = Joined(wire, sink)[i]
      /\ Joined(wire', sink')[size + 1] = Binary(bytes)
  <2>1. wire' = wire /\ wire \in Seq(Message) /\ sink \in Seq(Message)
    BY <1>0, <1>1, Sizes
  <2>2. /\ sink' \in Seq(Message) /\ Len(wire) + Len(sink') = size + 1
        /\ \A i \in 1..size : Joined(wire, sink')[i] = Joined(wire, sink)[i]
        /\ Joined(wire, sink')[size + 1] = Binary(bytes)
    BY <1>1, <1>4, <2>1, JoinedGrows
  <2>3. Joined(wire, sink') \in [1..Len(wire) + Len(sink') -> Message]
    BY <2>1, <2>2, JoinedType
  <2> QED BY <2>1, <2>2, <2>3
<1>6. KeptInv'
  BY <1>0, <1>1, <1>2, <1>3, <1>5, Sizes DEF KeptInv
<1>7. WayInv'
  <2>1. \A i \in 1..size : Joined(wire, sink)[i].kind # "close"
    BY <1>1 DEF WsInv, WayInv
  <2>2. \A i \in 1..size + 1 : Joined(wire', sink')[i].kind # "close"
    <3>1. size \in Nat
      BY <1>0, Sizes
    <3> QED BY <1>4, <1>5, <2>1, <3>1
  <2>3. ASSUME ~wsBroken
        PROVE  \E at : /\ Chain(Joined(wire', sink'), Len(wire') + Len(sink'), at, Len(wsWritten'))
                       /\ at[1] = Len(wsDelivered) + Len(unread)
    <3>1. PICK at : /\ Chain(Joined(wire, sink), size, at, Len(wsWritten))
                    /\ at[1] = Len(wsDelivered) + Len(unread)
      BY <2>3 DEF WsInv, WayInv
    <3>2. IsRun(Binary(bytes).bytes, Len(wsWritten)) /\ ~Breaking(Binary(bytes))
      BY <1>2, <1>4 DEF Breaking
    <3>3. size \in Nat /\ Len(wsWritten) \in Nat
      BY <1>0, Sizes
    <3>4. \E bt : Chain(Joined(wire', sink'), size + 1, bt,
                        Len(wsWritten) + Len(Binary(bytes).bytes)) /\ bt[1] = at[1]
      <4> DEFINE ms == Joined(wire, sink)
                 ns == Joined(wire', sink')
                 end == Len(wsWritten)
                 total == size
                 m == Binary(bytes)
      <4>1. total \in Nat /\ end \in Nat /\ Chain(ms, total, at, end) /\ m \in Message
        BY <1>4, <3>1, <3>3
      <4>2. IsRun(m.bytes, end) /\ ~Breaking(m) /\ \A i \in 1..total : ms[i].kind # "close"
        BY <2>1, <3>2
      <4>3. ns \in [1..total + 1 -> Message] /\ (\A i \in 1..total : ns[i] = ms[i]) /\ ns[total + 1] = m
        BY <1>5
      <4> HIDE DEF ms, ns, end, total, m
      <4>4. \E bt : Chain(ns, total + 1, bt, end + Len(m.bytes)) /\ bt[1] = at[1]
        BY <4>1, <4>2, <4>3, ChainGrows
      <4> QED BY <4>4 DEF ms, ns, end, total, m
    <3> QED BY <1>2, <1>3, <1>4, <1>5, <3>1, <3>4
  <2> QED BY <1>1, <2>2, <2>3 DEF WayInv
<1> QED BY <1>3, <1>6, <1>7 DEF WsInv

\* A flush moves what waits in the sink to the end of the wire.
LEMMA FlushKeeps == ASSUME WsInv, PollFlush PROVE WsInv'
<1>0. KeptInv
  BY DEF WsInv
<1>1. wire' = wire \o sink /\ sink' = <<>> /\ UNCHANGED <<wsInterface, unread>>
  BY DEF PollFlush, Put
<1>2. /\ wire' \in Seq(Message) /\ Len(wire') + Len(sink') = Len(wire) + Len(sink)
      /\ Joined(wire', sink') = Joined(wire, sink)
  BY <1>0, <1>1, Sizes, JoinedFlushed
<1>3. sink' \in Seq(Message)
  BY <1>1
<1> QED BY <1>1, <1>2, <1>3 DEF WsInv, KeptInv, WayInv, wsInterface

\* The close goes behind all that was written.
LEMMA CloseKeeps == ASSUME WsInv, PollClose PROVE WsInv'
<1> DEFINE size == Len(wire) + Len(sink)
           close == Bare("close")
<1>0. KeptInv
  BY DEF WsInv
<1>1. /\ ~wsClosed /\ wsClosed' = TRUE /\ wire' = wire \o Append(sink, close) /\ sink' = <<>>
      /\ UNCHANGED <<wsWritten, wsDelivered, wsEnded, wsBroken, unread>>
  BY DEF PollClose, Put
<1>2. close \in Message /\ close.kind = "close" /\ close.bytes = <<>>
  BY Kinds
<1> HIDE DEF close
<1>3. /\ Append(sink, close) \in Seq(Message) /\ Len(wire) + Len(Append(sink, close)) = size + 1
      /\ Joined(wire, Append(sink, close)) \in [1..size + 1 -> Message]
      /\ \A i \in 1..size : Joined(wire, Append(sink, close))[i] = Joined(wire, sink)[i]
      /\ Joined(wire, Append(sink, close))[size + 1] = close
  <2>1. wire \in Seq(Message) /\ sink \in Seq(Message)
    BY <1>0, Sizes
  <2>2. /\ Append(sink, close) \in Seq(Message) /\ Len(wire) + Len(Append(sink, close)) = size + 1
        /\ \A i \in 1..size : Joined(wire, Append(sink, close))[i] = Joined(wire, sink)[i]
        /\ Joined(wire, Append(sink, close))[size + 1] = close
    BY <1>2, <2>1, JoinedGrows
  <2>3. Joined(wire, Append(sink, close)) \in [1..Len(wire) + Len(Append(sink, close)) -> Message]
    BY <2>1, <2>2, JoinedType
  <2> QED BY <2>2, <2>3
<1>4. /\ wire' \in Seq(Message) /\ Len(wire') + Len(sink') = size + 1
      /\ Joined(wire', sink') = Joined(wire, Append(sink, close))
  BY <1>0, <1>1, <1>3, Sizes, JoinedFlushed
<1>5. sink' \in Seq(Message)
  BY <1>1
<1>6. ASSUME ~wsBroken
      PROVE  \E at : /\ Chain(Joined(wire', sink'), Len(wire') + Len(sink'), at, Len(wsWritten))
                     /\ at[1] = Len(wsDelivered) + Len(unread)
  <2>1. PICK at : /\ Chain(Joined(wire, sink), size, at, Len(wsWritten))
                  /\ at[1] = Len(wsDelivered) + Len(unread)
    BY <1>6 DEF WsInv, WayInv
  <2>2. IsRun(close.bytes, Len(wsWritten)) /\ ~Breaking(close) /\ Len(close.bytes) = 0
    BY <1>2 DEF Breaking, IsRun
  <2>3. size \in Nat /\ Len(wsWritten) \in Nat /\ Len(wsWritten) + 0 = Len(wsWritten)
    BY <1>0, Sizes
  <2>4. \A i \in 1..size : Joined(wire, sink)[i].kind # "close"
    BY <1>1 DEF WsInv, WayInv
  <2>5. \E bt : Chain(Joined(wire', sink'), size + 1, bt,
                      Len(wsWritten) + Len(close.bytes)) /\ bt[1] = at[1]
    <3> DEFINE ms == Joined(wire, sink)
               ns == Joined(wire', sink')
               end == Len(wsWritten)
               n == size
    <3>1. n \in Nat /\ end \in Nat /\ Chain(ms, n, at, end) /\ \A i \in 1..n : ms[i].kind # "close"
      BY <2>1, <2>3, <2>4
    <3>2. ns \in [1..n + 1 -> Message] /\ (\A i \in 1..n : ns[i] = ms[i]) /\ ns[n + 1] = close
      BY <1>3, <1>4
    <3>3. close \in Message /\ IsRun(close.bytes, end) /\ ~Breaking(close)
      BY <1>2, <2>2
    <3> HIDE DEF ms, ns, end, n
    <3>4. \E bt : Chain(ns, n + 1, bt, end + Len(close.bytes)) /\ bt[1] = at[1]
      BY <3>1, <3>2, <3>3, ChainGrows
    <3> QED BY <3>4 DEF ms, ns, end, n
  <2> QED BY <1>4, <2>1, <2>2, <2>3, <2>5
<1> QED BY <1>1, <1>4, <1>5, <1>6 DEF WsInv, KeptInv, WayInv

\* What the network does to the wire, whatever it is called.
LEMMA SpliceKeeps ==
    ASSUME WsInv, NEW k \in 0..Len(wire), NEW m \in Message, m.bytes = <<>>, m.kind # "close",
           k = Len(wire) \/ Breaking(m), wire' = SubSeq(wire, 1, k) \o <<m>>,
           UNCHANGED <<wsWritten, wsDelivered, wsClosed, wsEnded, wsBroken, sink, unread>>
    PROVE  WsInv'
<1> DEFINE n == Len(wire) + Len(sink)
           w == Len(wire)
           size == n + k + 1 - w
           end == Len(wsWritten)
           ms == Joined(wire, sink)
           ns == Joined(wire', sink')
<1>0. KeptInv
  BY DEF WsInv
<1>1. wire \in Seq(Message) /\ sink \in Seq(Message) /\ sink' = sink
  BY <1>0, Sizes
<1>2. /\ wire' \in Seq(Message) /\ Len(wire') + Len(sink') = size
      /\ \A i \in 1..size :
            /\ i <= k => ns[i] = ms[i]
            /\ i = k + 1 => ns[i] = m
            /\ i > k + 1 => ns[i] = ms[i + w - k - 1]
  <2> DEFINE cut == SubSeq(wire, 1, k) \o <<m>>
  <2>1. wire' = cut /\ sink' = sink
    BY <1>1
  <2>2. /\ cut \in Seq(Message) /\ Len(cut) + Len(sink) = n + k + 1 - Len(wire)
        /\ \A i \in 1..n + k + 1 - Len(wire) :
              /\ i <= k => Joined(cut, sink)[i] = Joined(wire, sink)[i]
              /\ i = k + 1 => Joined(cut, sink)[i] = m
              /\ i > k + 1 => Joined(cut, sink)[i] = Joined(wire, sink)[i + Len(wire) - k - 1]
    BY <1>1, JoinedSplices
  <2> HIDE DEF cut
  <2> QED BY <2>1, <2>2
<1>3. ns \in [1..Len(wire') + Len(sink') -> Message]
  BY <1>1, <1>2, JoinedType
<1>4. ns \in [1..size -> Message]
  BY <1>2, <1>3
<1>5. n \in Nat /\ w \in 0..n /\ k \in 0..w /\ end \in Nat
  BY <1>0, Sizes
<1>6. ~wsClosed => \A i \in 1..n : ms[i].kind # "close"
  BY DEF WsInv, WayInv
<1>7. ~wsBroken => \E at : Chain(ms, n, at, end) /\ at[1] = Len(wsDelivered) + Len(unread)
  BY DEF WsInv, WayInv
<1>8. size = n + k + 1 - w /\ (k = w \/ Breaking(m))
  OBVIOUS
<1>9. KeptInv'
  BY <1>0, <1>1, <1>2 DEF KeptInv
<1> SUFFICES /\ ~wsClosed => \A i \in 1..size : ns[i].kind # "close"
             /\ ~wsBroken => \E at : Chain(ns, size, at, end) /\ at[1] = Len(wsDelivered) + Len(unread)
  BY <1>2, <1>9 DEF WsInv, WayInv
<1> HIDE DEF n, w, size, end, ms, ns
<1>10. ASSUME ~wsClosed, NEW i \in 1..size PROVE ns[i].kind # "close"
  <2>1. CASE i > k + 1
    <3>1. i + w - k - 1 \in 1..n
      <4>1. i \in Int /\ n \in Int /\ w \in Int /\ k \in Int /\ size = n + k + 1 - w
            /\ i > k + 1 /\ i <= size /\ 0 <= k /\ k <= w
        BY <1>5, <1>8, <2>1
      <4> QED BY ONLY <4>1
    <3> QED BY <1>2, <1>6, <1>10, <2>1, <3>1
  <2>2. CASE i <= k
    <3>1. i \in 1..n
      BY <1>5, <1>8, <2>2
    <3> QED BY <1>2, <1>6, <1>10, <2>2, <3>1
  <2>3. CASE i = k + 1
    BY <1>2, <2>3
  <2> QED BY <1>5, <2>1, <2>2, <2>3
<1>11. ASSUME ~wsBroken
       PROVE  \E at : Chain(ns, size, at, end) /\ at[1] = Len(wsDelivered) + Len(unread)
  <2>1. PICK at : Chain(ms, n, at, end) /\ at[1] = Len(wsDelivered) + Len(unread)
    BY <1>7, <1>11
  <2>2. \E bt : Chain(ns, size, bt, end) /\ bt[1] = at[1]
    <3>1. Spliced(ns, size, ms, n, k, w, m)
      BY <1>2, <1>4, <1>5, <1>8 DEF Spliced
    <3>2. end \in Nat /\ Chain(ms, n, at, end)
      BY <1>5, <2>1
    <3> QED BY <3>1, <3>2, ChainSplices
  <2> QED BY <2>1, <2>2
<1> QED BY <1>10, <1>11

\* A message that is no data goes to the end of the wire; a loss cuts off the end of it.
LEMMA NetworkKeeps == ASSUME WsInv, Noise \/ Lose PROVE WsInv'
<1>0. wire \in Seq(Message) /\ Len(wire) \in Nat
  BY Sizes DEF WsInv
<1>1. CASE Noise
  <2>1. PICK m \in {Bare("ping"), Bare("binary"), Bare("text")} : wire' = wire \o <<m>>
    BY <1>1 DEF Noise, Put
  <2>2. m \in Message /\ m.bytes = <<>> /\ m.kind # "close"
    BY <2>1, Kinds
  <2>3. wire' = SubSeq(wire, 1, Len(wire)) \o <<m>>
    BY <1>0, <2>1, SubSeqFull
  <2>4. UNCHANGED <<wsWritten, wsDelivered, wsClosed, wsEnded, wsBroken, sink, unread>>
    BY <1>1 DEF Noise, wsInterface
  <2>5. Len(wire) \in 0..Len(wire)
    BY <1>0
  <2> QED BY <2>2, <2>3, <2>4, <2>5, SpliceKeeps
<1>2. CASE Lose
  <2>1. PICK n \in 0..Len(wire) : wire' = SubSeq(wire, 1, n) \o <<Bare("error")>>
    BY <1>2 DEF Lose
  <2>2. Bare("error") \in Message /\ Bare("error").bytes = <<>> /\ Bare("error").kind = "error"
    BY Kinds
  <2>3. UNCHANGED <<wsWritten, wsDelivered, wsClosed, wsEnded, wsBroken, sink, unread>>
    BY <1>2 DEF Lose, wsInterface
  <2>4. Breaking(Bare("error")) /\ Bare("error").kind # "close"
    BY <2>2 DEF Breaking
  <2> QED BY <2>1, <2>2, <2>3, <2>4, SpliceKeeps
<1> QED BY <1>1, <1>2

\* When the first k messages of the wire are read, what is left is still in order.
LEMMA RestKeeps ==
    ASSUME KeptInv, NEW at, Chain(Joined(wire, sink), Len(wire) + Len(sink), at, Len(wsWritten)),
           NEW k \in 0..Len(wire), wire' = SubSeq(wire, k + 1, Len(wire))
    PROVE  /\ wire' \in Seq(Message)
           /\ \A i \in 1..Len(wire') + Len(sink) : \E j \in 1..Len(wire) + Len(sink) :
                 Joined(wire', sink)[i] = Joined(wire, sink)[j]
           /\ \E bt : /\ Chain(Joined(wire', sink), Len(wire') + Len(sink), bt, Len(wsWritten))
                      /\ bt[1] = at[k + 1]
<1> DEFINE n == Len(wire) + Len(sink)
           size == Len(wire') + Len(sink)
           ms == Joined(wire, sink)
           ns == Joined(wire', sink)
           end == Len(wsWritten)
<1>1. wire \in Seq(Message) /\ sink \in Seq(Message) /\ n \in Nat /\ end \in Nat /\ k \in 0..n
  BY Sizes
<1>2. wire' \in Seq(Message) /\ size = n - k /\ \A i \in 1..n - k : ns[i] = ms[i + k]
  BY <1>1, JoinedRest
<1>3. ns \in [1..size -> Message]
  BY <1>1, <1>2, JoinedType
<1>4. Chain(ms, n, at, end)
  OBVIOUS
<1> HIDE DEF n, size, ms, ns, end
<1>5. RestOf(ns, size, ms, n, k)
  BY <1>1, <1>2, <1>3 DEF RestOf
<1>6. \E bt : Chain(ns, size, bt, end) /\ bt[1] = at[k + 1]
  BY <1>1, <1>4, <1>5, ChainRest
<1>7. \A i \in 1..size : \E j \in 1..n : ns[i] = ms[j]
  <2>1. ASSUME NEW i \in 1..size PROVE i + k \in 1..n /\ ns[i] = ms[i + k]
    BY <1>1, <1>2
  <2> QED BY <2>1
<1> QED BY <1>2, <1>6, <1>7 DEF n, size, ms, ns, end

\* Past what carries nothing, the reader is at its next byte, or at the end.
LEMMA NextIs ==
    ASSUME KeptInv, NEW at, Chain(Joined(wire, sink), Len(wire) + Len(sink), at, Len(wsWritten)),
           at[1] = Len(wsDelivered) + Len(unread), unread = <<>>,
           NEW head \in 1..Len(wire) + 1, \A i \in 1..head - 1 : IsNoise(wire[i])
    PROVE  /\ at[head] = Len(wsDelivered)
           /\ head <= Len(wire) =>
                /\ wire[head] \in Message
                /\ Joined(wire, sink)[head] = wire[head]
                /\ IsRun(wire[head].bytes, Len(wsDelivered))
                /\ ~Breaking(wire[head]) =>
                      /\ at[head + 1] = Len(wsDelivered) + Len(wire[head].bytes)
                      /\ Len(wsDelivered) + Len(wire[head].bytes) <= Len(wsWritten)
                /\ wire[head].kind = "close" => Len(wsDelivered) = Len(wsWritten)
<1> DEFINE n == Len(wire) + Len(sink)
           ms == Joined(wire, sink)
           end == Len(wsWritten)
<1>1. /\ wire \in Seq(Message) /\ n \in Nat /\ end \in Nat /\ Len(wire) \in Nat /\ Len(sink) \in Nat
      /\ Len(wsDelivered) \in Nat
  BY Sizes
<1>2. \A i \in 1..Len(wire) : i \in 1..n /\ ms[i] = wire[i] /\ wire[i] \in Message
  <2>1. \A i \in 1..Len(wire) : wire[i] \in Message
    BY <1>1, ElementOfSeq
  <2> QED BY <1>1, <2>1 DEF Joined
<1>3. head \in 1..n + 1 /\ 1 \in 1..n + 1 /\ 1 <= head
  BY <1>1
<1>4. \A i \in 1..head - 1 : IsNoise(ms[i])
  BY <1>1, <1>2
<1>5. Chain(ms, n, at, end)
  OBVIOUS
<1>6. at[1] = Len(wsDelivered)
  BY <1>1
<1> HIDE DEF n, ms, end
<1>7. at[head] = Len(wsDelivered)
  BY <1>3, <1>4, <1>5, <1>6 DEF Chain
<1>8. ASSUME head <= Len(wire)
      PROVE  /\ wire[head] \in Message /\ ms[head] = wire[head]
             /\ IsRun(wire[head].bytes, Len(wsDelivered))
             /\ ~Breaking(wire[head]) =>
                   /\ at[head + 1] = Len(wsDelivered) + Len(wire[head].bytes)
                   /\ Len(wsDelivered) + Len(wire[head].bytes) <= end
             /\ wire[head].kind = "close" => Len(wsDelivered) = end
  <2>1. head \in 1..Len(wire) /\ head \in 1..n /\ head + 1 \in 1..n + 1
        /\ ms[head] = wire[head] /\ wire[head] \in Message
    BY <1>1, <1>2, <1>8
  <2>2. /\ IsRun(ms[head].bytes, at[head])
        /\ ~Breaking(ms[head]) => at[head + 1] = at[head] + Len(ms[head].bytes)
        /\ ms[head].kind = "close" => at[head] = end
    BY <1>5, <2>1 DEF Chain
  <2>3. at[head + 1] \in 0..end
    BY <1>5, <2>1 DEF Chain
  <2> QED BY <1>7, <2>1, <2>2, <2>3
<1> QED BY <1>7, <1>8 DEF n, ms, end

\* The reader takes what was kept for it.
LEMMA UnreadKeeps ==
    ASSUME WsInv, NEW size \in 1..MaxPiece, ReadUnread(size)
    PROVE  /\ WsInv' /\ IsRun(wsDelivered', 0)
           /\ Len(wsDelivered') \in (Len(wsDelivered) + 1)..Len(wsWritten)
<1>1. KeptInv /\ WayInv
  BY DEF WsInv
<1>2. IsRun(unread, Len(wsDelivered)) /\ Len(wsDelivered) + Len(unread) <= Len(wsWritten)
  BY <1>1 DEF KeptInv
<1>3. Len(unread) > 0
  <2>1. unread # <<>> /\ unread \in Seq(Nat)
    BY <1>2 DEF ReadUnread, IsRun
  <2> QED BY <2>1, EmptySeq, LenProperties
<1>4. DrainInto(unread, size)
  BY DEF ReadUnread
<1>5. /\ IsRun(wsDelivered', 0) /\ IsRun(unread', Len(wsDelivered'))
      /\ Len(wsDelivered') + Len(unread') = Len(wsDelivered) + Len(unread)
      /\ Len(wsDelivered') \in (Len(wsDelivered) + 1)..Len(wsWritten)
  BY <1>1, <1>2, <1>3, <1>4, DrainKeeps
<1>6. UNCHANGED <<wsWritten, wsClosed, wsEnded, wsBroken, sink, wire>>
  BY DEF ReadUnread
<1>7. KeptInv'
  BY <1>1, <1>2, <1>5, <1>6 DEF KeptInv
<1>8. WayInv'
  BY <1>1, <1>5, <1>6 DEF WayInv
<1> QED BY <1>5, <1>7, <1>8 DEF WsInv

\* What a reader that asks the websocket can be told.
Told ==
    \/ UNCHANGED wsInterface
    \/ /\ IsRun(wsDelivered', 0) /\ Len(wsDelivered') \in (Len(wsDelivered) + 1)..Len(wsWritten)
       /\ UNCHANGED <<wsWritten, wsClosed, wsEnded, wsBroken>>
    \/ /\ wsClosed /\ Len(wsDelivered) = Len(wsWritten) /\ wsEnded' = TRUE
       /\ UNCHANGED <<wsWritten, wsDelivered, wsClosed, wsBroken>>
    \/ /\ wsBroken' = TRUE
       /\ UNCHANGED <<wsWritten, wsDelivered, wsClosed, wsEnded>>

\* The reader asks the websocket.
LEMMA SocketKeeps ==
    ASSUME WsInv, NEW size \in 1..MaxPiece, ReadSocket(size)
    PROVE  WsInv' /\ Told
<1> DEFINE n == Len(wire) + Len(sink)
           ms == Joined(wire, sink)
           end == Len(wsWritten)
<1>1. KeptInv /\ WayInv
  BY DEF WsInv
<1>2. ~wsEnded /\ ~wsBroken /\ unread = <<>> /\ UNCHANGED <<sink, wsWritten, wsClosed>>
  BY DEF ReadSocket, Reading, wsInterface
<1>3. wsEnded = FALSE /\ wsBroken = FALSE
  BY Zenon, <1>1, <1>2 DEF KeptInv
<1>4. PICK at : Chain(ms, n, at, end) /\ at[1] = Len(wsDelivered) + Len(unread)
  BY <1>1, <1>2 DEF WayInv
<1>5. /\ Len(wire) \in Nat /\ Len(wsDelivered) \in Nat /\ end \in Nat /\ Len(<<>>) = 0
      /\ wire \in Seq(Message)
  BY <1>1, Sizes
<1>6. CASE /\ \A i \in 1..Len(wire) : IsNoise(wire[i])
           /\ wire' = <<>> /\ UNCHANGED <<wsInterface, unread>>
  <2> DEFINE k == Len(wire)
  <2>1. k \in 0..Len(wire) /\ k + 1 \in 1..Len(wire) + 1 /\ (k + 1) - 1 = Len(wire)
    BY <1>5
  <2>2. wire' = SubSeq(wire, k + 1, Len(wire))
    BY <1>5, <1>6, SubSeqEmpty
  <2>3. at[k + 1] = Len(wsDelivered)
    BY <1>1, <1>2, <1>4, <1>6, <2>1, NextIs
  <2>4. /\ wire' \in Seq(Message)
        /\ \A i \in 1..Len(wire') + Len(sink) : \E j \in 1..n : Joined(wire', sink)[i] = ms[j]
        /\ \E bt : Chain(Joined(wire', sink), Len(wire') + Len(sink), bt, end) /\ bt[1] = at[k + 1]
    BY <1>1, <1>4, <2>1, <2>2, RestKeeps
  <2>5. KeptInv'
    BY <1>1, <1>2, <1>6, <2>4 DEF KeptInv, wsInterface
  <2>6. ~wsClosed' => \A i \in 1..Len(wire') + Len(sink') : Joined(wire', sink')[i].kind # "close"
    BY <1>1, <1>2, <2>4 DEF WayInv
  <2>7. Len(wsDelivered') + Len(unread') = Len(wsDelivered)
    BY <1>2, <1>5, <1>6 DEF wsInterface
  <2>8. WayInv'
    BY <1>2, <2>3, <2>4, <2>6, <2>7 DEF WayInv
  <2> QED BY <1>6, <2>5, <2>8 DEF WsInv, Told
<1>7. CASE \E head \in 1..Len(wire) :
             LET m == wire[head] IN
             /\ ~IsNoise(m) /\ \A i \in 1..head - 1 : IsNoise(wire[i])
             /\ wire' = SubSeq(wire, head + 1, Len(wire))
             /\ IF m.kind = "binary" THEN DrainInto(m.bytes, size)
                                     ELSE UNCHANGED <<wsDelivered, unread>>
             /\ wsEnded' = (m.kind = "close")
             /\ wsBroken' = (m.kind \in {"text", "error"})
  <2>1. PICK head \in 1..Len(wire) :
             LET m == wire[head] IN
             /\ ~IsNoise(m) /\ \A i \in 1..head - 1 : IsNoise(wire[i])
             /\ wire' = SubSeq(wire, head + 1, Len(wire))
             /\ IF m.kind = "binary" THEN DrainInto(m.bytes, size)
                                     ELSE UNCHANGED <<wsDelivered, unread>>
             /\ wsEnded' = (m.kind = "close")
             /\ wsBroken' = (m.kind \in {"text", "error"})
    BY <1>7
  <2> DEFINE m == wire[head]
  <2>2. head \in 0..Len(wire) /\ head \in 1..Len(wire) + 1 /\ head <= Len(wire)
    BY <1>5
  <2>3. /\ at[head] = Len(wsDelivered) /\ m \in Message /\ ms[head] = m
        /\ IsRun(m.bytes, Len(wsDelivered))
        /\ ~Breaking(m) => /\ at[head + 1] = Len(wsDelivered) + Len(m.bytes)
                           /\ Len(wsDelivered) + Len(m.bytes) <= end
        /\ m.kind = "close" => Len(wsDelivered) = end
    BY <1>1, <1>2, <1>4, <2>1, <2>2, NextIs
  <2>4. /\ wire' \in Seq(Message)
        /\ \A i \in 1..Len(wire') + Len(sink) : \E j \in 1..n : Joined(wire', sink)[i] = ms[j]
        /\ \E bt : /\ Chain(Joined(wire', sink), Len(wire') + Len(sink), bt, end)
                   /\ bt[1] = at[head + 1]
    BY <1>1, <1>4, <2>1, <2>2, RestKeeps
  <2>5. ~wsClosed' => \A i \in 1..Len(wire') + Len(sink') : Joined(wire', sink')[i].kind # "close"
    BY <1>1, <1>2, <2>4 DEF WayInv
  <2>6. ~IsNoise(m) /\ m.kind \in {"binary", "ping", "text", "error", "close"}
    BY <2>1, <2>3 DEF Message
  <2>7. /\ wsEnded' = (m.kind = "close") /\ wsBroken' = (m.kind \in {"text", "error"})
        /\ m.kind = "binary" => DrainInto(m.bytes, size)
        /\ m.kind # "binary" => UNCHANGED <<wsDelivered, unread>>
    BY <2>1
  <2> HIDE DEF m, ms, n, end
  <2>a. wsEnded' = (m.kind = "close") /\ wsBroken' = (m.kind = "text" \/ m.kind = "error")
    <3>1. (m.kind \in {"text", "error"}) = (m.kind = "text" \/ m.kind = "error")
      BY SMT
    <3> QED BY <2>7, <3>1
  <2>8. wsEnded' \in BOOLEAN /\ wsBroken' \in BOOLEAN
    BY Zenon, <2>a
  <2>9. CASE m.kind = "binary"
    <3>1. m.bytes # <<>> /\ ~Breaking(m)
      BY <2>6, <2>9 DEF IsNoise, Breaking
    <3>2. Len(m.bytes) > 0
      <4>1. m.bytes \in Seq(Nat)
        BY <2>3 DEF IsRun
      <4> QED BY <3>1, <4>1, EmptySeq, LenProperties
    <3>3. Len(wsDelivered) + Len(m.bytes) <= Len(wsWritten)
      BY <2>3, <3>1 DEF end
    <3>4. /\ IsRun(wsDelivered', 0) /\ IsRun(unread', Len(wsDelivered'))
          /\ Len(wsDelivered') + Len(unread') = Len(wsDelivered) + Len(m.bytes)
          /\ Len(wsDelivered') \in (Len(wsDelivered) + 1)..Len(wsWritten)
      BY <1>1, <2>3, <2>7, <2>9, <3>2, <3>3, DrainKeeps
    <3>5. wsEnded' = FALSE /\ wsBroken' = FALSE
      <4>1. m.kind # "close" /\ m.kind # "text" /\ m.kind # "error"
        BY <2>9
      <4> QED BY Zenon, <2>a, <4>1
    <3>6. KeptInv'
      BY <1>1, <1>2, <2>4, <2>8, <3>3, <3>4 DEF KeptInv
    <3>7. at[head + 1] = Len(wsDelivered') + Len(unread')
      BY <2>3, <3>1, <3>4
    <3>8. WayInv'
      BY <1>2, <2>4, <2>5, <3>7 DEF WayInv, end
    <3>9. Told
      BY <1>2, <1>3, <3>4, <3>5 DEF Told
    <3> QED BY <3>6, <3>8, <3>9 DEF WsInv
  <2>10. CASE m.kind = "close"
    <3>1. ~Breaking(m) /\ UNCHANGED <<wsDelivered, unread>> /\ m.bytes = <<>>
      BY <2>3, <2>7, <2>10 DEF Breaking, Message
    <3>2. wsEnded' = TRUE /\ wsBroken' = FALSE
      <4>1. m.kind = "close" /\ m.kind # "text" /\ m.kind # "error"
        BY <2>10
      <4> QED BY Zenon, <2>a, <4>1
    <3>3. at[head + 1] = Len(wsDelivered') + Len(unread')
      BY <1>2, <1>5, <2>3, <3>1
    <3>4. wsClosed
      <4>1. head \in 1..n
        BY <1>1, <2>2, Sizes DEF n
      <4> QED BY <1>1, <2>3, <2>10, <4>1 DEF WayInv, n, ms
    <3>5. KeptInv'
      BY <1>1, <1>2, <2>4, <2>8, <3>1 DEF KeptInv
    <3>6. WayInv'
      BY <1>2, <2>4, <2>5, <3>3 DEF WayInv, end
    <3>7. Told
      BY <1>2, <1>3, <2>3, <2>10, <3>1, <3>2, <3>4 DEF Told, end
    <3> QED BY <3>5, <3>6, <3>7 DEF WsInv
  <2>11. CASE m.kind \in {"text", "error"}
    <3>1. UNCHANGED <<wsDelivered, unread>> /\ wsEnded' = FALSE /\ wsBroken' = TRUE
      BY <2>7, <2>11
    <3>2. KeptInv'
      BY <1>1, <1>2, <2>4, <2>8, <3>1 DEF KeptInv
    <3>3. WayInv'
      BY <2>5, <3>1 DEF WayInv
    <3>4. Told
      BY <1>2, <1>3, <3>1 DEF Told
    <3> QED BY <3>2, <3>3, <3>4 DEF WsInv
  <2> QED BY <2>6, <2>9, <2>10, <2>11 DEF IsNoise
<1> QED BY <1>6, <1>7 DEF ReadSocket

-----------------------------------------------------------------------------
\* Every step keeps the invariant, and is one of the stream's or none.
LEMMA WsStep ==
    ASSUME WsInv, [WsNext]_wsVars
    PROVE  WsInv' /\ [Stream!Next]_Stream!stream
<1>1. KeptInv /\ IsRun(wsWritten, 0) /\ IsRun(wsDelivered, 0)
      /\ Len(wsWritten) \in Nat /\ Len(wsDelivered) \in Nat
  BY Sizes DEF WsInv, KeptInv
<1>2. UNCHANGED wsInterface => UNCHANGED Stream!stream
  BY DEF wsInterface, Stream!stream
\* What a reader is given more of is the beginning of what was written.
<1>3. ASSUME IsRun(wsDelivered', 0), Len(wsDelivered') \in (Len(wsDelivered) + 1)..Len(wsWritten),
             ~wsEnded, ~wsBroken, UNCHANGED <<wsWritten, wsClosed, wsEnded, wsBroken>>
      PROVE  Stream!Deliver
  <2>1. wsDelivered' = SubSeq(wsWritten, 1, Len(wsDelivered'))
    <3>1. Len(wsDelivered') <= Len(wsWritten)
      BY <1>1, <1>3
    <3> QED BY <1>1, <1>3, <3>1, RunsAgree
  <2> QED BY <1>3, <2>1 DEF Stream!Deliver
<1>4. CASE \E n \in 1..MaxPiece : PollWrite(n)
  <2>1. PICK n \in 1..MaxPiece : PollWrite(n)
    BY <1>4
  <2>2. WsInv' /\ IsRun(wsWritten', 0) /\ Len(wsWritten') = Len(wsWritten) + n
    BY <2>1, WriteKeeps
  <2>3. n \in Nat /\ n > 0
    BY WsAssumption
  <2>4. IsStrictPrefix(wsWritten, wsWritten')
    <3>1. IsPrefix(wsWritten, wsWritten')
      BY <1>1, <2>2, <2>3, RunsAgree
    <3>2. wsWritten # wsWritten'
      BY <1>1, <2>2, <2>3
    <3> QED BY <3>1, <3>2 DEF IsStrictPrefix
  <2>5. Stream!Write
    <3>1. ~wsClosed /\ UNCHANGED <<wsDelivered, wsClosed, wsEnded, wsBroken>>
      BY <2>1 DEF PollWrite
    <3>2. Stream!IsStrictPrefix(wsWritten, wsWritten')
      BY <2>4, Zenon DEF IsStrictPrefix, IsPrefix, Stream!IsStrictPrefix, Stream!IsPrefix
    <3> QED BY <3>1, <3>2, Zenon DEF Stream!Write
  <2> QED BY <2>2, <2>5 DEF Stream!Next
<1>5. CASE PollFlush
  <2>1. WsInv' /\ UNCHANGED wsInterface
    BY <1>5, FlushKeeps DEF PollFlush
  <2> QED BY <1>2, <2>1
<1>6. CASE PollClose
  <2>1. WsInv' /\ Stream!Close
    BY <1>6, CloseKeeps DEF PollClose, Stream!Close
  <2> QED BY <2>1 DEF Stream!Next
<1>7. ASSUME NEW size \in 1..MaxPiece, ReadUnread(size)
      PROVE  WsInv' /\ [Stream!Next]_Stream!stream
  <2>1. /\ WsInv' /\ IsRun(wsDelivered', 0)
        /\ Len(wsDelivered') \in (Len(wsDelivered) + 1)..Len(wsWritten)
    BY <1>7, UnreadKeeps
  <2>2. ~wsEnded /\ ~wsBroken /\ UNCHANGED <<wsWritten, wsClosed, wsEnded, wsBroken>>
    BY <1>7 DEF ReadUnread, Reading
  <2> QED BY <1>3, <2>1, <2>2 DEF Stream!Next
<1>8. ASSUME NEW size \in 1..MaxPiece, ReadSocket(size)
      PROVE  WsInv' /\ [Stream!Next]_Stream!stream
  <2>1. WsInv' /\ Told
    BY <1>8, SocketKeeps
  <2>2. ~wsEnded /\ ~wsBroken
    BY <1>8 DEF ReadSocket, Reading
  <2>3. CASE UNCHANGED wsInterface
    BY <1>2, <2>1, <2>3
  <2>4. CASE /\ IsRun(wsDelivered', 0)
             /\ Len(wsDelivered') \in (Len(wsDelivered) + 1)..Len(wsWritten)
             /\ UNCHANGED <<wsWritten, wsClosed, wsEnded, wsBroken>>
    BY <1>3, <2>1, <2>2, <2>4 DEF Stream!Next
  <2>5. CASE /\ wsClosed /\ Len(wsDelivered) = Len(wsWritten) /\ wsEnded' = TRUE
             /\ UNCHANGED <<wsWritten, wsDelivered, wsClosed, wsBroken>>
    <3>1. wsDelivered = wsWritten
      <4>1. wsWritten \in Seq(Nat) /\ wsDelivered \in Seq(Nat)
            /\ \A i \in 1..Len(wsDelivered) : wsDelivered[i] = wsWritten[i]
        BY <1>1, <2>5 DEF IsRun
      <4> QED BY <2>5, <4>1, SeqEqual
    <3>2. Stream!End
      BY <2>2, <2>5, <3>1 DEF Stream!End
    <3> QED BY <2>1, <3>2 DEF Stream!Next
  <2>6. CASE wsBroken' = TRUE /\ UNCHANGED <<wsWritten, wsDelivered, wsClosed, wsEnded>>
    <3>1. Stream!Break
      BY <2>2, <2>6 DEF Stream!Break
    <3> QED BY <2>1, <3>1 DEF Stream!Next
  <2> QED BY <2>1, <2>3, <2>4, <2>5, <2>6 DEF Told
<1>9. CASE Noise \/ Lose
  <2>1. WsInv' /\ UNCHANGED wsInterface
    BY <1>9, NetworkKeeps DEF Noise, Lose
  <2> QED BY <1>2, <2>1
<1>10. CASE UNCHANGED wsVars
  <2>1. WsInv' /\ UNCHANGED wsInterface
    BY <1>10 DEF wsVars, wsInterface, WsInv, KeptInv, WayInv
  <2> QED BY <1>2, <2>1
<1> QED BY <1>4, <1>5, <1>6, <1>7, <1>8, <1>9, <1>10 DEF WsNext, WsWriter, WsReader

\* Whatever the sizes of the messages, the pieces and the sink, and whatever else is on the
\* websocket, what the reader has is at every moment the beginning of what was written, the
\* end is said only where it is, and a loss is said to be one: every behaviour of WsBytes
\* (poll_read, poll_write, poll_flush and poll_close) is one of the stream of bytes that the
\* multiplexer is promised.
THEOREM WsBytesIsAStream == WsSpec => Stream!Safety
<1>1. WsInit => Stream!Init
  BY DEF WsInit, Stream!Init
<1>2. WsInit => WsInv
  BY WsInvInit
<1>3. WsInv /\ [WsNext]_wsVars => WsInv'
  BY WsStep
<1>4. WsInv /\ [WsNext]_wsVars => [Stream!Next]_Stream!stream
  BY WsStep
<1> QED BY <1>1, <1>2, <1>3, <1>4, PTL DEF WsSpec, Stream!Safety
=============================================================================
