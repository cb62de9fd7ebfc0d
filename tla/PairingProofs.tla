---------------------------- MODULE PairingProofs ----------------------------
(***************************************************************************)
(* What holds of devices and links for any number of browsers, requests,    *)
(* devices and links.                                                       *)
(***************************************************************************)
EXTENDS Pairing, TLAPS

\* Off the owner's machine, an Invited app is served to approved devices only.
LEMMA InvitedNeedsApproval ==
    ASSUME NEW app \in App, NEW s \in DeviceStatus, NEW ctx,
           app.visibility = "invited", ~ctx.loopback,
           Gated(app, s, ctx) = "serve"
    PROVE  s = "approved"
<1>1. Decide(app, s, ctx) = "allow"
  BY DEF Gated
<1>2. LevelRule("invited", s, ctx) = "allow"
  BY <1>1 DEF Decide
<1> QED BY <1>2 DEF LevelRule

\* Type correctness: every row, link, cookie and in-flight copy stays in range.
THEOREM TypeCorrect == Spec => []TypeOK
<1>1. Init => TypeOK
  BY PairingAssumption DEF Init, TypeOK, Idle, RequestRecord, DeviceStatus, NamedBy, Step
<1>2. TypeOK /\ [Next]_vars => TypeOK'
  <2> SUFFICES ASSUME TypeOK, [Next]_vars PROVE TypeOK'
    OBVIOUS
  <2> USE PairingAssumption DEF TypeOK, rows, links, At
  <2>0. Idle \in RequestRecord
    BY DEF Idle, RequestRecord, Step, DeviceStatus, NamedBy
  <2>1. CASE \E r \in Request, b \in Browser : Open(r, b)
    <3>1. PICK r \in Request, b \in Browser : Open(r, b)
      BY <2>1
    <3>2. PICK q \in RequestRecord : req' = [req EXCEPT ![r] = q]
      <4>1. \A d \in Device \union {None} :
              [Idle EXCEPT !.step = "serve", !.device = d] \in RequestRecord
        BY DEF Idle, RequestRecord, Step, DeviceStatus, NamedBy
      <4>2. \A d \in Device \union {None} :
              [Idle EXCEPT !.step = "identify", !.browser = b, !.cookie = d] \in RequestRecord
        BY DEF Idle, RequestRecord, Step, DeviceStatus, NamedBy
      <4> QED BY <3>1, <4>1, <4>2 DEF Open
    <3> QED BY <3>1, <3>2 DEF Open
  <2>2. CASE \E r \in Request, b \in Browser, i \in Invite : FollowLink(r, b, i)
    <3>1. PICK r \in Request, b \in Browser, i \in Invite : FollowLink(r, b, i)
      BY <2>2
    <3>2. \A d, p \in Device \union {None}, s \in {"active", "ended"} :
            [Idle EXCEPT !.step = "identify", !.browser = b, !.cookie = d, !.invite = i,
                         !.standing = s, !.wasPinned = p] \in RequestRecord
      BY DEF Idle, RequestRecord, Step, DeviceStatus, NamedBy
    <3> QED BY <3>1, <3>2 DEF FollowLink
  <2>3. ASSUME NEW r \in Request, RequestStep(r) PROVE TypeOK'
    <3>0. req[r] \in RequestRecord
      OBVIOUS
    <3>1. CASE Serve(r)
      BY <3>1, <2>0 DEF Serve
    <3>2. CASE IdentifyKnown(r)
      <4>1. \A d \in Device, s \in DeviceStatus, n \in NamedBy :
              [req[r] EXCEPT !.step = "touch", !.device = d, !.browser = None,
                             !.cookie = None, !.wasStatus = s, !.wasNamedBy = n]
                \in RequestRecord
        BY <3>0 DEF RequestRecord, Step
      <4>2. req[r].cookie \in Device
        BY <3>2 DEF IdentifyKnown, Row
      <4> DEFINE d == req[r].cookie
                 q == [req[r] EXCEPT !.step = "touch", !.device = d, !.browser = None,
                          !.cookie = None, !.wasStatus = status[d], !.wasNamedBy = namedBy[d]]
      <4>3. q \in RequestRecord
        BY <4>1, <4>2
      <4>4. req' = [req EXCEPT ![r] = q]
        BY <3>2 DEF IdentifyKnown
      <4>5. req' \in [Request -> RequestRecord]
        BY <4>3, <4>4
      <4> QED BY <3>2, <4>5 DEF IdentifyKnown
    <3>3. CASE IdentifyNew(r)
      <4>1. \A d \in Device, s \in {"reply", "check"} :
              [req[r] EXCEPT !.step = s, !.device = d, !.cookie = None] \in RequestRecord
        BY <3>0 DEF RequestRecord, Step
      <4>2. AfterIdentify(r) \in {"reply", "check"}
        BY DEF AfterIdentify
      <4>3. PICK d \in Device :
              /\ req' = [req EXCEPT ![r] = [req[r] EXCEPT
                          !.step = AfterIdentify(r), !.device = d, !.cookie = None]]
              /\ minted' = minted \union {d}
              /\ status' = [status EXCEPT ![d] = "pending"]
              /\ namedBy' = [namedBy EXCEPT ![d] = "guess"]
              /\ lookups' = lookups \/ lookups' = lookups \union {d}
        BY <3>3 DEF IdentifyNew
      <4>4. [req[r] EXCEPT !.step = AfterIdentify(r), !.device = d, !.cookie = None]
              \in RequestRecord
        BY <4>1, <4>2
      <4>5. req' \in [Request -> RequestRecord]
        BY <4>3, <4>4
      <4> QED BY <3>3, <4>3, <4>5 DEF IdentifyNew, DeviceStatus, NamedBy
    <3>4. CASE Touch(r)
      <4>1. \A s \in {"reply", "check"} :
              [req[r] EXCEPT !.step = s, !.wasStatus = "absent", !.wasNamedBy = "guess"]
                \in RequestRecord
        BY <3>0 DEF RequestRecord, Step, DeviceStatus, NamedBy
      <4>2. req[r].wasStatus \in DeviceStatus /\ req[r].wasNamedBy \in NamedBy
        BY <3>0 DEF RequestRecord
      <4> QED BY <3>4, <4>1, <4>2 DEF Touch, AfterIdentify
    <3>5. CASE RefuseLink(r)
      BY <3>5, <2>0 DEF RefuseLink
    <3>6. CASE RecordRedemption(r)
      <4>1. \A s \in {"instant", "reply"} :
              [req[r] EXCEPT !.step = s, !.invite = None, !.standing = "ended",
                             !.wasPinned = None] \in RequestRecord
        BY <3>0 DEF RequestRecord, Step
      <4>2. req[r].device \in Device \union {None}
        BY <3>0 DEF RequestRecord
      <4>3. NewPin(req[r]) \in Device \union {None} \/ req[r].invite \notin Invite
        BY <4>2 DEF NewPin
      <4> QED BY <3>6, <4>1, <4>3 DEF RecordRedemption
    <3>7. CASE ApproveInstantly(r)
      <4>1. [req[r] EXCEPT !.step = "reply"] \in RequestRecord
        BY <3>0 DEF RequestRecord, Step
      <4> QED BY <3>7, <4>1 DEF ApproveInstantly, Row, DeviceStatus
    <3>8. CASE Reply(r)
      <4>1. req[r].device \in Device \union {None}
        BY <3>0 DEF RequestRecord
      <4> QED BY <3>8, <4>1, <2>0 DEF Reply
    <3>9. CASE LoseReply(r)
      BY <3>9, <2>0 DEF LoseReply
    <3> QED BY <2>3, <3>1, <3>2, <3>3, <3>4, <3>5, <3>6, <3>7, <3>8, <3>9 DEF RequestStep
  <2>4. CASE \E b \in Browser : LoseCookie(b)
    BY <2>4 DEF LoseCookie
  <2>5. CASE Owner
    BY <2>5 DEF Owner, Approve, Revoke, SetStatus, Rename, Forget, CreateInvite,
                RevokeInvite, Row, DeviceStatus, NamedBy
  <2>6. CASE Environment
    BY <2>6 DEF Environment, DiscoverName, DiscoverNothing, Expire, NamedBy
  <2>7. CASE UNCHANGED vars
    BY <2>7 DEF vars
  <2> QED BY <2>1, <2>2, <2>3, <2>4, <2>5, <2>6, <2>7 DEF Next, Viewer
<1> QED BY <1>1, <1>2, PTL DEF Spec

-----------------------------------------------------------------------------
(* Approval is never invented.                                             *)

\* The copy a request is about to write back may be stale, but if it says
\* approved then somebody approved that device before it was read.
CopiesWereGranted ==
    \A r \in Request :
        At(r, "touch") /\ req[r].wasStatus = "approved" => req[r].device \in granted

GrantInv == ApprovedWasGranted /\ CopiesWereGranted /\ ServedWasGranted

\* No step makes an approval up, on a row or in a copy.
LEMMA GrantStep == TypeOK /\ GrantInv /\ [Next]_vars => GrantInv'
<1> SUFFICES ASSUME TypeOK, GrantInv, [Next]_vars PROVE GrantInv'
  OBVIOUS
<1> USE DEF TypeOK, GrantInv, ApprovedWasGranted, CopiesWereGranted, ServedWasGranted,
            At, rows, links
<1>0. ASSUME UNCHANGED <<status, granted, req>> PROVE GrantInv'
  BY <1>0
<1>1. ASSUME NEW r \in Request, NEW b \in Browser, Open(r, b) PROVE GrantInv'
  <2> DEFINE row == IF Row(cookie[b]) THEN status[cookie[b]] ELSE "absent"
             basis(app, ctx) == IF app.visibility = "invited" /\ ~ctx.loopback
                                THEN cookie[b] ELSE None
             served(app, ctx) == [Idle EXCEPT !.step = "serve", !.device = basis(app, ctx)]
             waiting == [Idle EXCEPT !.step = "identify", !.browser = b, !.cookie = cookie[b]]
  <2>1. PICK app \in App, peer \in Origin :
          \/ /\ Gated(app, row, PeerContext(peer, TRUE, TRUE)) = "serve"
             /\ req' = [req EXCEPT ![r] = served(app, PeerContext(peer, TRUE, TRUE))]
          \/ req' = [req EXCEPT ![r] = waiting]
    BY <1>1 DEF Open
  <2>2. row \in DeviceStatus
    BY DEF Row, DeviceStatus
  <2>3. ASSUME NEW ctx, Gated(app, row, ctx) = "serve" PROVE basis(app, ctx) \in granted \union {None}
    <3>1. CASE app.visibility = "invited" /\ ~ctx.loopback
      <4>1. row = "approved"
        <5> HIDE DEF row
        <5> QED BY <2>2, <2>3, <3>1, InvitedNeedsApproval
      <4> QED BY <3>1, <4>1 DEF Row
    <3>2. CASE ~(app.visibility = "invited" /\ ~ctx.loopback)
      BY <3>2
    <3> QED BY <3>1, <3>2
  <2>4. ASSUME NEW ctx
        PROVE  served(app, ctx).step = "serve" /\ served(app, ctx).device = basis(app, ctx)
    BY DEF Idle
  <2>5. waiting.step = "identify"
    BY DEF Idle
  <2>6. UNCHANGED <<status, granted>>
    BY <1>1 DEF Open
  <2> DEFINE good(q) == \/ q.step = "serve" /\ q.device \in granted \union {None}
                        \/ q.step = "identify"
  <2>7. PICK q : req' = [req EXCEPT ![r] = q] /\ good(q)
    <3> DEFINE ctx == PeerContext(peer, TRUE, TRUE)
    <3>1. CASE Gated(app, row, ctx) = "serve" /\ req' = [req EXCEPT ![r] = served(app, ctx)]
      <4>1. good(served(app, ctx))
        <5> HIDE DEF row, basis, served, ctx
        <5> QED BY <2>3, <2>4, <3>1
      <4> HIDE DEF good, served, ctx
      <4> QED BY <3>1, <4>1
    <3>2. CASE req' = [req EXCEPT ![r] = waiting]
      <4>1. good(waiting)
        BY <2>5
      <4> HIDE DEF good, waiting
      <4> QED BY <3>2, <4>1
    <3> QED BY <2>1, <3>1, <3>2
  <2> QED BY <2>6, <2>7
<1>2. ASSUME NEW r \in Request, NEW b \in Browser, NEW i \in Invite, FollowLink(r, b, i)
      PROVE  GrantInv'
  BY <1>2 DEF FollowLink, Idle
<1>3. ASSUME NEW r \in Request, RequestStep(r) PROVE GrantInv'
  <2>1. CASE Serve(r)
    BY <2>1 DEF Serve, Idle
  <2>2. CASE IdentifyKnown(r)
    BY <2>2 DEF IdentifyKnown, Row
  <2>3. CASE IdentifyNew(r)
    <3>1. /\ req'[r].step \in {"reply", "check"}
          /\ \A q \in Request : q # r => req'[q] = req[q]
          /\ granted' = granted
          /\ \A d \in Device : status'[d] \in {"pending", status[d]}
      BY <2>3 DEF IdentifyNew, AfterIdentify
    <3> QED BY <3>1
  <2>4. CASE Touch(r)
    <3>1. /\ req'[r].step \in {"reply", "check"}
          /\ \A q \in Request : q # r => req'[q] = req[q]
          /\ granted' = granted
          /\ \A d \in Device : d # req[r].device => status'[d] = status[d]
          /\ req[r].device \in Device => status'[req[r].device] = req[r].wasStatus
          /\ req[r].step = "touch"
      BY <2>4 DEF Touch, AfterIdentify
    <3> QED BY <3>1
  <2>5. CASE RefuseLink(r)
    BY <2>5 DEF RefuseLink, Idle
  <2>6. CASE RecordRedemption(r)
    BY <2>6 DEF RecordRedemption
  <2>7. CASE ApproveInstantly(r)
    BY <2>7 DEF ApproveInstantly, Row
  <2>8. CASE Reply(r)
    BY <2>8 DEF Reply, Idle
  <2>9. CASE LoseReply(r)
    BY <2>9 DEF LoseReply, Idle
  <2> QED BY <1>3, <2>1, <2>2, <2>3, <2>4, <2>5, <2>6, <2>7, <2>8, <2>9 DEF RequestStep
<1>4. ASSUME NEW b \in Browser, LoseCookie(b) PROVE GrantInv'
  BY <1>0, <1>4 DEF LoseCookie
<1>5. CASE Owner
  BY <1>5 DEF Owner, Approve, Revoke, SetStatus, Rename, Forget, CreateInvite,
              RevokeInvite, Row
<1>6. CASE Environment
  <2>1. UNCHANGED <<status, granted, req>>
    BY <1>6 DEF Environment, DiscoverName, DiscoverNothing, Expire
  <2> QED BY <1>0, <2>1
<1>7. CASE UNCHANGED vars
  BY <1>0, <1>7 DEF vars
<1> QED BY <1>1, <1>2, <1>3, <1>4, <1>5, <1>6, <1>7 DEF Next, Viewer

\* However many requests and owner commands interleave, an approved row names a
\* device that was approved, and an Invited app's page leaves for another
\* machine only on the strength of one.
THEOREM ApprovalIsNeverInvented == Spec => [](ApprovedWasGranted /\ ServedWasGranted)
<1>1. Init => GrantInv
  BY DEF Init, Idle, GrantInv, ApprovedWasGranted, CopiesWereGranted, ServedWasGranted, At
<1>2. GrantInv => ApprovedWasGranted /\ ServedWasGranted
  BY DEF GrantInv
<1> QED BY <1>1, <1>2, TypeCorrect, GrantStep, PTL DEF Spec

\* Of the two, the one a viewer on another machine can tell: what an Invited app's
\* page was served to is a device somebody let in.
THEOREM ServingIsAlwaysGranted == Spec => []ServedWasGranted
BY ApprovalIsNeverInvented, PTL

-----------------------------------------------------------------------------
(* Pins and rows.                                                          *)

\* Ids are never reused: a row's id was generated, and so was the id of any copy
\* about to be written back, which is a copy of a row that existed.
CopiesWereRows ==
    \A r \in Request :
        At(r, "touch") => req[r].device \in minted /\ req[r].wasStatus # "absent"
RowsWereMinted == \A d \in Device : Row(d) => d \in minted

RowInv == PinnedDeviceIsListed /\ CopiesWereRows /\ RowsWereMinted

\* No step pins, or writes back, a device that never was.
LEMMA RowStep == TypeOK /\ RowInv /\ [Next]_vars => RowInv'
<1> SUFFICES ASSUME TypeOK, RowInv, [Next]_vars PROVE RowInv'
  OBVIOUS
<1> USE PairingAssumption
    DEF TypeOK, RowInv, PinnedDeviceIsListed, CopiesWereRows, RowsWereMinted, Row, At
\* What most actions do: no row disappears or appears, no pin moves, and the one
\* request that moves does not end up about to write a copy back.
<1>0. ASSUME UNCHANGED <<status, minted, pinned>>,
             NEW r \in Request,
             req'[r].step # "touch", \A q \in Request : q # r => req'[q] = req[q]
      PROVE  RowInv'
  BY <1>0
<1>1. ASSUME UNCHANGED <<status, minted, pinned, req>> PROVE RowInv'
  BY <1>1
<1>2. ASSUME NEW r \in Request, NEW b \in Browser, Open(r, b) PROVE RowInv'
  <2> DEFINE moves(f) == req' = [req EXCEPT ![r] = f] /\ f.step # "touch"
  <2>1. \E f : moves(f)
    <3>1. PICK app \in App, peer \in Origin, d \in {None, cookie[b]} :
            \/ req' = [req EXCEPT ![r] = [Idle EXCEPT !.step = "serve", !.device = d]]
            \/ req' = [req EXCEPT ![r] = [Idle EXCEPT !.step = "identify", !.browser = b,
                                                     !.cookie = cookie[b]]]
      BY <1>2 DEF Open
    <3>2. [Idle EXCEPT !.step = "serve", !.device = d].step # "touch"
      BY DEF Idle
    <3>3. [Idle EXCEPT !.step = "identify", !.browser = b, !.cookie = cookie[b]].step # "touch"
      BY DEF Idle
    <3> QED BY <3>1, <3>2, <3>3
  <2>2. req'[r].step # "touch" /\ \A q \in Request : q # r => req'[q] = req[q]
    <3>1. PICK f : moves(f)
      BY <2>1
    <3> QED BY <3>1
  <2>3. UNCHANGED <<status, minted, pinned>>
    BY <1>2 DEF Open, rows, links
  <2> QED BY <1>0, <2>2, <2>3
<1>3. ASSUME NEW r \in Request, NEW b \in Browser, NEW i \in Invite, FollowLink(r, b, i)
      PROVE  RowInv'
  <2>1. /\ req'[r].step # "touch" /\ \A q \in Request : q # r => req'[q] = req[q]
        /\ UNCHANGED <<status, minted, pinned>>
    BY <1>3 DEF FollowLink, Idle, rows, links
  <2> QED BY <1>0, <2>1
<1>4. ASSUME NEW r \in Request, RequestStep(r) PROVE RowInv'
  <2>1. CASE Serve(r) \/ RefuseLink(r) \/ Reply(r) \/ LoseReply(r)
    <3>1. /\ req'[r].step # "touch" /\ \A q \in Request : q # r => req'[q] = req[q]
          /\ UNCHANGED <<status, minted, pinned>>
      BY <2>1 DEF Serve, RefuseLink, Reply, LoseReply, Idle, rows, links
    <3> QED BY <1>0, <3>1
  <2>2. CASE IdentifyKnown(r)
    <3>1. /\ req'[r].device \in minted /\ req'[r].wasStatus # "absent"
          /\ \A q \in Request : q # r => req'[q] = req[q]
          /\ UNCHANGED <<status, minted, pinned>>
      BY <2>2 DEF IdentifyKnown, RequestRecord, rows, links
    <3> QED BY <3>1
  <2>3. CASE IdentifyNew(r)
    <3>1. PICK d \in Device :
            /\ minted' = minted \union {d}
            /\ status' = [status EXCEPT ![d] = "pending"]
      BY <2>3 DEF IdentifyNew
    <3>2. /\ req'[r].step # "touch" /\ \A q \in Request : q # r => req'[q] = req[q]
          /\ UNCHANGED pinned
      BY <2>3 DEF IdentifyNew, AfterIdentify, links
    <3> QED BY <3>1, <3>2
  <2>4. CASE Touch(r)
    <3>1. /\ req'[r].step # "touch" /\ \A q \in Request : q # r => req'[q] = req[q]
          /\ UNCHANGED <<minted, pinned>>
          /\ status' = [status EXCEPT ![req[r].device] = req[r].wasStatus]
          /\ req[r].step = "touch"
      BY <2>4 DEF Touch, AfterIdentify, links
    <3> QED BY <3>1
  <2>5. CASE RecordRedemption(r)
    <3>1. /\ req'[r].step # "touch" /\ \A q \in Request : q # r => req'[q] = req[q]
          /\ UNCHANGED <<status, minted>>
          /\ pinned' = [pinned EXCEPT ![req[r].invite] = NewPin(req[r])]
          /\ NewPin(req[r]) = None \/ Row(NewPin(req[r]))
      BY <2>5 DEF RecordRedemption, KeyHolds, rows, links
    <3> HIDE DEF Row
    <3>2. \A i \in Invite : pinned'[i] # None => Row(pinned'[i])
      BY <3>1
    <3> QED BY <3>1, <3>2 DEF Row
  <2>6. CASE ApproveInstantly(r)
    <3>1. /\ req'[r].step # "touch" /\ \A q \in Request : q # r => req'[q] = req[q]
          /\ UNCHANGED <<minted, pinned>>
          /\ \A d \in Device : status'[d] = "absent" <=> status[d] = "absent"
      BY <2>6 DEF ApproveInstantly, links
    <3> QED BY <3>1
  <2> QED BY <1>4, <2>1, <2>2, <2>3, <2>4, <2>5, <2>6 DEF RequestStep
<1>5. ASSUME NEW d \in Device, Approve(d) \/ Revoke(d) PROVE RowInv'
  <2>1. /\ UNCHANGED <<minted, pinned, req>>
        /\ \A e \in Device : status'[e] = "absent" <=> status[e] = "absent"
    BY <1>5 DEF Approve, Revoke, SetStatus, links
  <2> QED BY <2>1
<1>6. ASSUME NEW d \in Device, Forget(d) PROVE RowInv'
  BY <1>6 DEF Forget
<1>7. CASE \/ \E b \in Browser : LoseCookie(b)
           \/ \E d \in Device : Rename(d)
           \/ \E i \in Invite : CreateInvite(i) \/ RevokeInvite(i)
           \/ Environment
           \/ UNCHANGED vars
  <2>1. UNCHANGED <<status, minted, pinned, req>>
    BY <1>7 DEF LoseCookie, Rename, CreateInvite, RevokeInvite, Environment,
                DiscoverName, DiscoverNothing, Expire, vars, rows, links
  <2> QED BY <1>1, <2>1
<1> QED BY <1>2, <1>3, <1>4, <1>5, <1>6, <1>7 DEF Next, Viewer, Owner

\* So it is at all times.
LEMMA RowInvariant == Spec => []RowInv
<1>1. Init => RowInv
  BY PairingAssumption DEF Init, Idle, RowInv, PinnedDeviceIsListed, CopiesWereRows,
     RowsWereMinted, Row, At
<1> QED BY <1>1, TypeCorrect, RowStep, PTL DEF Spec

\* A pinned link always names a device the owner can see in the list: the
\* foreign key refuses a pin to a row that is gone, and forgetting unpins.
THEOREM PinnedDeviceListed == Spec => []PinnedDeviceIsListed
<1>1. RowInv => PinnedDeviceIsListed
  BY DEF RowInv
<1> QED BY <1>1, RowInvariant, PTL

\* No redemption moves a pin, however many race for the link; only forgetting
\* the pinned device frees it.
THEOREM PinsMoveOnlyByForgetting == Spec => PinMovesOnlyByForgetting
<1> DEFINE Moves(i) == pinned[i] \notin {None, pinned'[i]}
                         => pinned'[i] = None /\ status'[pinned[i]] = "absent"
<1>1. TypeOK /\ [Next]_vars => [\A i \in Invite : Moves(i)]_vars
  <2> SUFFICES ASSUME TypeOK, Next, NEW i \in Invite PROVE Moves(i)
    OBVIOUS
  <2>1. ASSUME NEW r \in Request, RecordRedemption(r) PROVE Moves(i)
    BY <2>1 DEF RecordRedemption, NewPin, TypeOK
  <2>2. ASSUME NEW d \in Device, Forget(d) PROVE Moves(i)
    BY <2>2 DEF Forget, TypeOK
  <2>3. ASSUME UNCHANGED pinned PROVE Moves(i)
    BY <2>3
  <2>4. \/ \E r \in Request : RecordRedemption(r)
        \/ \E d \in Device : Forget(d)
        \/ UNCHANGED pinned
    BY DEF Next, Viewer, Owner, Environment, RequestStep, Open, FollowLink, Serve,
           IdentifyKnown, IdentifyNew, Touch, RefuseLink, ApproveInstantly, Reply,
           LoseReply, LoseCookie, Approve, Revoke, SetStatus, Rename, CreateInvite,
           RevokeInvite, DiscoverName, DiscoverNothing, Expire, links
  <2> QED BY <2>1, <2>2, <2>3, <2>4
<1> QED BY <1>1, TypeCorrect, PTL DEF Spec, PinMovesOnlyByForgetting

\* While a row lives the source of its name only gets stronger: an owner's name
\* survives the network's answer and every stale copy written back.
THEOREM NamesOnlyImprove == Spec => NameOnlyImproves
<1> DEFINE Improves(d) ==
             Row(d) /\ Row(d)' => Strength(namedBy[d]) <= Strength(namedBy'[d])
<1>1. TypeOK /\ RowInv /\ [Next]_vars => [\A d \in Device : Improves(d)]_vars
  <2> SUFFICES ASSUME TypeOK, RowInv, Next, NEW d \in Device PROVE Improves(d)
    OBVIOUS
  <2>1. ASSUME namedBy'[d] = namedBy[d] \/ ~Row(d) \/ namedBy'[d] = "owner"
                 \/ (namedBy[d] = "guess" /\ namedBy'[d] \in NamedBy)
        PROVE  Improves(d)
    BY <2>1 DEF Strength, NamedBy, TypeOK
  <2> HIDE DEF Improves
  <2>2. ASSUME NEW r \in Request, IdentifyNew(r) PROVE Improves(d)
    <3>1. namedBy'[d] = namedBy[d] \/ d \notin minted
      BY <2>2 DEF IdentifyNew, TypeOK
    <3> QED BY <2>1, <3>1 DEF RowInv, RowsWereMinted
  <2>3. ASSUME NEW r \in Request, Touch(r) PROVE Improves(d)
    <3>1. namedBy'[d] = namedBy[d] \/ ~Row(d)
      BY <2>3 DEF Touch, TypeOK
    <3> QED BY <2>1, <3>1
  <2>4. ASSUME NEW e \in Device, DiscoverName(e) PROVE Improves(d)
    <3>1. namedBy'[d] = namedBy[d] \/ (namedBy[d] = "guess" /\ namedBy'[d] = "network")
      BY <2>4 DEF DiscoverName, TypeOK
    <3> QED BY <2>1, <3>1 DEF NamedBy
  <2>5. ASSUME NEW e \in Device, Rename(e) PROVE Improves(d)
    <3>1. namedBy'[d] = namedBy[d] \/ namedBy'[d] = "owner"
      BY <2>5 DEF Rename, TypeOK
    <3> QED BY <2>1, <3>1
  <2>6. ASSUME NEW e \in Device, Forget(e) PROVE Improves(d)
    <3>1. CASE d = e
      BY <2>6, <3>1 DEF Forget, Row, TypeOK, Improves
    <3>2. CASE d # e
      <4>1. namedBy'[d] = namedBy[d]
        BY <2>6, <3>2 DEF Forget, TypeOK
      <4> QED BY <2>1, <4>1
    <3> QED BY <3>1, <3>2
  <2>7. \/ \E r \in Request : IdentifyNew(r) \/ Touch(r)
        \/ \E e \in Device : DiscoverName(e) \/ Rename(e) \/ Forget(e)
        \/ UNCHANGED namedBy
    BY DEF Next, Viewer, Owner, Environment, RequestStep, Open, FollowLink, Serve,
           IdentifyKnown, RefuseLink, RecordRedemption, ApproveInstantly, Reply,
           LoseReply, LoseCookie, Approve, Revoke, SetStatus, CreateInvite,
           RevokeInvite, DiscoverNothing, Expire, rows
  <2> QED BY <2>1, <2>2, <2>3, <2>4, <2>5, <2>6, <2>7
<1> QED BY <1>1, TypeCorrect, RowInvariant, PTL DEF Spec, NameOnlyImproves
=============================================================================
