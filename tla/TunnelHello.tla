----------------------------- MODULE TunnelHello -----------------------------
(***************************************************************************)
(* The handshake of a tunnel connection: which version two peers of          *)
(* different ages are going to speak, and which machine is dialling.         *)
(*                                                                         *)
(* A signature is a term: who made it and over what.  Whoever is at the      *)
(* other end of a connection may put together any hello it likes, around     *)
(* signatures that were made once, on this connection or on another.         *)
(***************************************************************************)
EXTENDS Integers

CONSTANTS Connection,
          Install,    \* install keys
          Newest,     \* the newest version any build speaks
          MaxUpdates  \* bound: new builds

ASSUME HelloAssumption == Newest \in Nat /\ MaxUpdates \in Nat

VersionRange == [min : 0..Newest, max : 0..Newest]
IsRange(r)   == r.min <= r.max
Accepts(r, v) == r.min <= v /\ v <= r.max

\* Faulty variant: the lowest version both speak.
NegotiateLowest(ours, theirs) ==
    LET floor   == IF ours.min > theirs.min THEN ours.min ELSE theirs.min
        ceiling == IF ours.max < theirs.max THEN ours.max ELSE theirs.max
    IN  CASE ~IsRange(ours) \/ ~IsRange(theirs) -> [why |-> "malformed", version |-> 0]
          [] IsRange(ours) /\ IsRange(theirs) /\ floor <= ceiling -> [why |-> "shared", version |-> floor]
          [] OTHER -> [why |-> "too_new", version |-> 0]

\* Faulty variant: the top of a range is taken to be one past the last version.
NegotiateExclusive(ours, theirs) ==
    LET floor   == IF ours.min > theirs.min THEN ours.min ELSE theirs.min
        ceiling == IF ours.max < theirs.max THEN ours.max ELSE theirs.max
    IN  IF IsRange(ours) /\ IsRange(theirs) /\ floor <= ceiling
        THEN [why |-> "shared", version |-> ceiling - 1]
        ELSE [why |-> "too_new", version |-> 0]

\* VersionRange::negotiate: the highest version both speak.
Negotiate(ours, theirs) ==
    LET floor   == IF ours.min > theirs.min THEN ours.min ELSE theirs.min
        ceiling == IF ours.max < theirs.max THEN ours.max ELSE theirs.max
    IN  IF ~IsRange(ours) \/ ~IsRange(theirs) THEN [why |-> "malformed", version |-> 0]
        ELSE IF floor <= ceiling            THEN [why |-> "shared", version |-> ceiling]
        ELSE IF theirs.max < ours.min         THEN [why |-> "too_old", version |-> 0]
        ELSE [why |-> "too_new", version |-> 0]

\* What a signature is made over, and by whom.
Transcript == [version : 0..Newest, nonce : Connection, install : Install]
Signature  == [by : Install, over : Transcript]
HelloFrame == [version : 0..Newest, versions : VersionRange, install : Install, signature : Signature]

\* Faulty variant: the challenge is not part of what is signed.
HelloTranscriptTimeless(version, nonce, install) ==
    [version |-> version, nonce |-> CHOOSE c \in Connection : TRUE, install |-> install]

HelloTranscript(version, nonce, install) ==
    [version |-> version, nonce |-> nonce, install |-> install]

VARIABLES dialler,      \* whose daemon each connection is
          speaks,       \* what each daemon's build speaks, and the peer's
          edgeSpeaks,
          peer, daemon, \* how far each end of a connection is
          offered,      \* the versions in the challenge
          answered,     \* the hello the daemon gave, its versions and its choice
          accepted,     \* what the peer took a hello to say
          agreed,       \* the version the daemon was welcomed with
          signatures,   \* every signature made
          updates

helloVars == <<dialler, speaks, edgeSpeaks, peer, daemon, offered, answered, accepted, agreed, signatures, updates>>

NoRange == [min |-> 0, max |-> 0]

HelloInit ==
    /\ dialler \in [Connection -> Install]
    /\ speaks \in [Install -> {r \in VersionRange : IsRange(r)}]
    /\ edgeSpeaks \in VersionRange
    /\ peer = [c \in Connection |-> "idle"] /\ daemon = [c \in Connection |-> "idle"]
    /\ offered = [c \in Connection |-> NoRange]
    /\ answered = [c \in Connection |-> [versions |-> NoRange, version |-> 0]]
    /\ accepted = [c \in Connection |-> [version |-> 0, install |-> dialler[c]]]
    /\ agreed = [c \in Connection |-> 0]
    /\ signatures = {} /\ updates = 0

-----------------------------------------------------------------------------
\* The two halves are updated when they are, between connections and during them.
Redeploy ==
    /\ updates < MaxUpdates /\ updates' = updates + 1
    /\ edgeSpeaks' \in VersionRange
    /\ UNCHANGED <<dialler, speaks, peer, daemon, offered, answered, accepted, agreed, signatures>>

Update(k) ==
    /\ updates < MaxUpdates /\ updates' = updates + 1
    /\ \E r \in VersionRange : IsRange(r) /\ speaks' = [speaks EXCEPT ![k] = r]
    /\ UNCHANGED <<dialler, edgeSpeaks, peer, daemon, offered, answered, accepted, agreed, signatures>>

\* ServerHello::new: a nonce used once, here the connection itself.
Challenge(c) ==
    /\ peer[c] = "idle"
    /\ peer' = [peer EXCEPT ![c] = "challenged"]
    /\ offered' = [offered EXCEPT ![c] = edgeSpeaks]
    /\ UNCHANGED <<dialler, speaks, edgeSpeaks, daemon, answered, accepted, agreed, signatures, updates>>

\* ClientHello::sign; a negotiation that fails ends the daemon's side.
Answer(c) ==
    LET k == dialler[c]
        choice == Negotiate(speaks[k], offered[c])
    IN  /\ peer[c] # "idle" /\ daemon[c] = "idle"
        /\ IF choice.why = "shared"
           THEN /\ daemon' = [daemon EXCEPT ![c] = "answered"]
                /\ answered' = [answered EXCEPT ![c] = [versions |-> speaks[k], version |-> choice.version]]
                /\ signatures' = signatures \union
                        {[by |-> k, over |-> HelloTranscript(choice.version, c, k)]}
           ELSE /\ daemon' = [daemon EXCEPT ![c] = "unsupported"]
                /\ UNCHANGED <<answered, signatures>>
        /\ UNCHANGED <<dialler, speaks, edgeSpeaks, peer, offered, accepted, agreed, updates>>

\* ServerHello::accept: the version first, then the signature.
Accept(c, hello) ==
    LET expected == Negotiate(offered[c], hello.versions)
    IN  /\ expected.why = "shared" /\ hello.version = expected.version
        /\ hello.signature = [by |-> hello.install,
                              over |-> HelloTranscript(hello.version, c, hello.install)]

Judge(c) ==
    /\ peer[c] = "challenged"
    /\ \E s \in signatures, v \in 0..Newest, r \in VersionRange, k \in Install :
          LET hello == [version |-> v, versions |-> r, install |-> k, signature |-> s]
          IN  IF Accept(c, hello)
              THEN /\ peer' = [peer EXCEPT ![c] = "accepted"]
                   /\ accepted' = [accepted EXCEPT ![c] = [version |-> v, install |-> k]]
              ELSE /\ peer' = [peer EXCEPT ![c] = "refused"]
                   /\ UNCHANGED accepted
    /\ UNCHANGED <<dialler, speaks, edgeSpeaks, daemon, offered, answered, agreed, signatures, updates>>

\* HelloResponse: the daemon believes the version it is welcomed with.
SendWelcome(c) ==
    /\ daemon[c] = "answered" /\ peer[c] \in {"accepted", "refused"}
    /\ IF peer[c] = "accepted"
       THEN /\ daemon' = [daemon EXCEPT ![c] = "up"]
            /\ agreed' = [agreed EXCEPT ![c] = accepted[c].version]
       ELSE /\ daemon' = [daemon EXCEPT ![c] = "refused"]
            /\ UNCHANGED agreed
    /\ UNCHANGED <<dialler, speaks, edgeSpeaks, peer, offered, answered, accepted, signatures, updates>>

HelloNext ==
    \/ Redeploy
    \/ \E k \in Install : Update(k)
    \/ \E c \in Connection : Challenge(c) \/ Answer(c) \/ Judge(c) \/ SendWelcome(c)

HelloSpec == HelloInit /\ [][HelloNext]_helloVars

-----------------------------------------------------------------------------
HelloTypeOK ==
    /\ dialler \in [Connection -> Install]
    /\ speaks \in [Install -> VersionRange] /\ edgeSpeaks \in VersionRange
    /\ peer \in [Connection -> {"idle", "challenged", "accepted", "refused"}]
    /\ daemon \in [Connection -> {"idle", "answered", "unsupported", "up", "refused"}]
    /\ offered \in [Connection -> VersionRange]
    /\ answered \in [Connection -> [versions : VersionRange, version : 0..Newest]]
    /\ accepted \in [Connection -> [version : 0..Newest, install : Install]]
    /\ agreed \in [Connection -> 0..Newest]
    /\ signatures \subseteq Signature /\ updates \in 0..MaxUpdates

\* hello.rs, "Proving which machine is on the other end": a peer that accepts a hello has
\* on that connection the daemon whose key it names, which answered this very challenge and
\* chose the version accepted, whatever else was ever signed.
AcceptedAnsweredHere ==
    \A c \in Connection : peer[c] = "accepted" =>
        /\ accepted[c].install = dialler[c]
        /\ daemon[c] \in {"answered", "up"}
        /\ accepted[c].version = answered[c].version

\* Both ends of a connection that is up speak one version, and it is the highest that both
\* had offered on it, however they were updated meanwhile.
BothSpeakTheHighest ==
    \A c \in Connection : daemon[c] = "up" =>
        /\ agreed[c] = accepted[c].version
        /\ Accepts(offered[c], agreed[c]) /\ Accepts(answered[c].versions, agreed[c])
        /\ \A v \in 0..Newest :
              Accepts(offered[c], v) /\ Accepts(answered[c].versions, v) => v <= agreed[c]

\* conn.rs, handshake: "The only way this fails is no version in common".
UnsupportedMeansNoneShared ==
    \A c \in Connection : daemon[c] = "unsupported" => IsRange(offered[c])

\* What the handshake is for: whoever is on the other end is the daemon it says it is, on
\* this connection, and the two have settled on the one version they both know best.
HandshakesAgree == HelloTypeOK /\ AcceptedAnsweredHere /\ BothSpeakTheHighest
=============================================================================
