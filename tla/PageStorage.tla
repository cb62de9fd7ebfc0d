----------------------------- MODULE PageStorage -----------------------------
(***************************************************************************)
(* What an app's page does with storage: the client it loads asks once what *)
(* kind of store the app has, and then keeps its values with the daemon, or *)
(* on the device with a copy for the daemon.                                *)
(*                                                                         *)
(* An app need not wait for anything: several calls may be under way, whose *)
(* requests are served, fail and are answered in any order, while the owner *)
(* changes the mode, the backup or who is paired.  One key: its value in    *)
(* each of a device's two corners, and in each of the daemon's scopes.  The *)
(* gate and the quota are AppStorage's; here a request may just fail.       *)
(***************************************************************************)
EXTENDS Naturals

CONSTANTS Browser,      \* devices
          Page,         \* pages of the app
          PageOf,       \* the device each page is open on
          Text,         \* values
          NoText, Common, NoSettings, NoPage,
          MaxCalls,     \* bound: writes the pages make
          MaxSwitches,  \* bound: what the owner changes
          MaxReloads    \* bound

ASSUME PageStorageAssumption ==
    /\ PageOf \in [Page -> Browser]
    /\ NoText \notin Text /\ Common \notin Browser /\ NoPage \notin Page
    /\ MaxCalls \in Nat /\ MaxSwitches \in Nat /\ MaxReloads \in Nat

VARIABLES manifest,  \* the app's storage and storage_backup
          paired,    \* devices with a record
          settled,   \* what each page has settled for, once it has asked
          kept,      \* localStorage, by device and corner
          copied,    \* the daemon's store, by scope, with who wrote it and under which mode
          call,      \* the calls, in the order they were made
          unalike,   \* history: devices whose copy has had a reason to differ
          switches, reloads

storeVars == <<kept, copied, call, unalike>>
pageVars  == <<manifest, paired, settled, storeVars, switches, reloads>>

Corner == {"app", "personal"}
Mode   == {"synced", "per_device"}
Call   == 1..MaxCalls

LocalOnly == [mode |-> "local", backup |-> FALSE, device |-> FALSE]
Settings  == [mode : Mode, backup : BOOLEAN, device : BOOLEAN] \union {LocalOnly}

NoCall == [step |-> "unmade", page |-> NoPage]
NoCopy == [text |-> NoText, page |-> NoPage, mode |-> "synced"]

PageInit ==
    /\ manifest \in [mode : Mode, backup : BOOLEAN]
    /\ paired \in SUBSET Browser
    /\ settled = [p \in Page |-> NoSettings]
    /\ kept = [b \in Browser |-> [c \in Corner |-> NoText]]
    /\ copied = [s \in Browser \union {Common} |-> NoCopy]
    /\ call = [i \in Call |-> NoCall]
    /\ unalike = {}
    /\ switches = 0 /\ reloads = 0

UnderWay(b) == {i \in Call : call[i].page # NoPage /\ PageOf[call[i].page] = b /\ call[i].step # "done"}

-----------------------------------------------------------------------------
(* A page's set or delete; to delete is to set to nothing.                 *)

\* Faulty variant: a copy is kept where the app would have it.
CopyScopeAsAsked(b, corner) == IF corner = "personal" THEN b ELSE Common

\* copyToMac: a device's own scope, whichever corner it is a copy of.
CopyScope(b, corner) == b

\* What a call does once it knows the settings.  Under anything but synced the device has
\* the value from here on, and the request, if there is one, is for the copy.
Proceed(i, c, s) ==
    LET b     == PageOf[c.page]
        other == CHOOSE o \in Corner : o # c.corner
        Send(scope) == call' = [call EXCEPT ![i] =
            [step |-> "sent", page |-> c.page, text |-> c.text, scope |-> scope, mode |-> s.mode]]
        Differs(reason) == unalike' = IF reason \/ UnderWay(b) \ {i} # {} THEN unalike \union {b}
                                      ELSE unalike
    IN  CASE s.mode = "synced" ->
               /\ Send(IF c.corner = "personal" THEN b ELSE Common)
               /\ UNCHANGED kept /\ Differs(c.corner = "personal")
          [] s.mode # "synced" /\ s.backup /\ s.device ->
               /\ kept' = [kept EXCEPT ![b][c.corner] = c.text]
               /\ Send(CopyScope(b, c.corner)) /\ Differs(kept[b][other] # NoText)
          [] OTHER ->
               /\ kept' = [kept EXCEPT ![b][c.corner] = c.text]
               /\ call' = [call EXCEPT ![i] = [step |-> "done", page |-> c.page]]
               /\ Differs(TRUE)

\* The settings are asked for unless the page has them.
SetKey(i, p, corner, text) ==
    LET c == [step |-> "asking", page |-> p, corner |-> corner, text |-> text] IN
    /\ call[i] = NoCall /\ \A j \in Call : j < i => call[j] # NoCall
    /\ IF settled[p] = NoSettings
       THEN call' = [call EXCEPT ![i] = c] /\ UNCHANGED <<kept, unalike>>
       ELSE Proceed(i, c, settled[p])
    /\ UNCHANGED <<manifest, paired, settled, copied, switches, reloads>>

\* storage.json is answered, refused, or never reached: the page makes do with itself then.
ConfigServed(i) ==
    /\ call[i].step = "asking"
    /\ \E s \in {[mode |-> manifest.mode, backup |-> manifest.backup,
                  device |-> PageOf[call[i].page] \in paired], LocalOnly} :
         call' = [call EXCEPT ![i] =
            [step |-> "answered", page |-> call[i].page, corner |-> call[i].corner,
             text |-> call[i].text, settings |-> s]]
    /\ UNCHANGED <<manifest, paired, settled, kept, copied, unalike, switches, reloads>>

\* The page settles for the answer, whatever another call has settled for meanwhile.
ConfigHeard(i) ==
    /\ call[i].step = "answered"
    /\ settled' = [settled EXCEPT ![call[i].page] = call[i].settings]
    /\ Proceed(i, call[i], call[i].settings)
    /\ UNCHANGED <<manifest, paired, copied, switches, reloads>>

\* A write is served whatever the app's mode is by now; a device's own scope takes a record.
RequestServed(i) ==
    LET c == call[i] IN
    /\ c.step = "sent" /\ (c.scope # Common => PageOf[c.page] \in paired)
    /\ copied' = [copied EXCEPT ![c.scope] =
                    IF c.text = NoText THEN NoCopy
                    ELSE [text |-> c.text, page |-> c.page, mode |-> c.mode]]
    /\ call' = [call EXCEPT ![i] = [step |-> "done", page |-> c.page]]
    /\ UNCHANGED <<manifest, paired, settled, kept, unalike, switches, reloads>>

RequestFails(i) ==
    /\ call[i].step = "sent"
    /\ call' = [call EXCEPT ![i] = [step |-> "done", page |-> call[i].page]]
    /\ unalike' = unalike \union {PageOf[call[i].page]}
    /\ UNCHANGED <<manifest, paired, settled, kept, copied, switches, reloads>>

\* A page that is loaded again has settled for nothing; what it had sent goes on without it.
Reload(p) ==
    /\ settled[p] # NoSettings /\ reloads < MaxReloads /\ reloads' = reloads + 1
    /\ settled' = [settled EXCEPT ![p] = NoSettings]
    /\ call' = [i \in Call |-> IF call[i].page = p /\ call[i].step \in {"asking", "answered"}
                               THEN [step |-> "done", page |-> p] ELSE call[i]]
    /\ UNCHANGED <<manifest, paired, kept, copied, unalike, switches>>

\* storage.set_mode, and the owner's letting a device in or forgetting it (one that comes
\* back is a new device, whose scope is empty).
SetMode ==
    /\ switches < MaxSwitches /\ switches' = switches + 1
    /\ \/ manifest' \in [mode : Mode, backup : BOOLEAN] \ {manifest} /\ UNCHANGED paired
       \/ \E b \in paired : paired' = paired \ {b} /\ UNCHANGED manifest
       \/ \E b \in Browser \ paired :
            copied[b] = NoCopy /\ paired' = paired \union {b} /\ UNCHANGED manifest
    /\ UNCHANGED <<settled, storeVars, reloads>>

PageActs(i) ==
    \/ \E p \in Page, corner \in Corner, text \in Text \union {NoText} : SetKey(i, p, corner, text)
    \/ ConfigServed(i) \/ ConfigHeard(i) \/ RequestServed(i) \/ RequestFails(i)

PageNext == SetMode \/ (\E p \in Page : Reload(p)) \/ \E i \in Call : PageActs(i)

PageSpec == PageInit /\ [][PageNext]_pageVars

-----------------------------------------------------------------------------
(* Properties.                                                             *)

CallType ==
    {NoCall} \union [step : {"asking"}, page : Page, corner : Corner, text : Text \union {NoText}]
    \union [step : {"answered"}, page : Page, corner : Corner, text : Text \union {NoText},
            settings : Settings]
    \union [step : {"sent"}, page : Page, text : Text \union {NoText},
            scope : Browser \union {Common}, mode : Mode]
    \union [step : {"done"}, page : Page]

PageTypeOK ==
    /\ manifest \in [mode : Mode, backup : BOOLEAN] /\ paired \subseteq Browser
    /\ settled \in [Page -> Settings \union {NoSettings}]
    /\ kept \in [Browser -> [Corner -> Text \union {NoText}]]
    /\ copied \in [Browser \union {Common} ->
                    [text : Text, page : Page, mode : Mode] \union {NoCopy}]
    /\ call \in [Call -> CallType]
    /\ unalike \subseteq Browser /\ switches \in 0..MaxSwitches /\ reloads \in 0..MaxReloads

\* storage.rs: nothing may "put one person's private notes into everybody's shared store".
\* What is shared was written by a page that had been told so, and what is in a device's own
\* scope by that device, however late the requests arrive.
PrivateIsNotShared ==
    /\ copied[Common].mode = "synced"
    /\ \A b \in Browser : copied[b] # NoCopy => PageOf[copied[b].page] = b

\* "each write is copied to the daemon afterwards when the owner has backup on": at rest, the
\* copy of a device that has made one call at a time, into one corner, all of them copied
\* and none of them failed, is what the device has.
CopyIsKept ==
    \A b \in Browser \ unalike : UnderWay(b) = {} =>
        \E corner \in Corner : copied[b].text = kept[b][corner]

\* What a page keeps, it keeps where the owner's choice as the page knows it says.
PagesKeepTheirWord == PageTypeOK /\ PrivateIsNotShared /\ CopyIsKept

\* "Where those bytes end up is the owner's choice": nothing is put into the shared store of
\* an app while it is not shared.
OwnersChoiceHolds ==
    [][copied'[Common] # copied[Common] => manifest.mode = "synced"]_pageVars

\* "an edit on a phone shows up on a laptop": what a page of a shared app is told is done is
\* not on its device alone.
SharedIsNotKeptAlone ==
    [][switches = 0 /\ manifest.mode = "synced" => kept' = kept]_pageVars
=============================================================================
