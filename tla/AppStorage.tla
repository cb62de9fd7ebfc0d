----------------------------- MODULE AppStorage -----------------------------
(***************************************************************************)
(* What an app keeps through the storage API: one store per slug, holding   *)
(* the app's shared values and each device's own.  A request resolves the   *)
(* app from its hostname and passes the gate, and then acts on the store;   *)
(* the owner may pause, revoke or forget in between.                        *)
(*                                                                         *)
(* The gate's verdict is the set of viewers it admits (see Gate).  A value  *)
(* is its size: SQLite's length() counts the characters of what is stored,  *)
(* Rust's len() the bytes of what is being written.                         *)
(***************************************************************************)
EXTENDS Integers, FiniteSetsExt

CONSTANTS Slug, App, Key, Value,
          Device,       \* viewers with a device record
          Visitor,      \* viewers without one
          Chars, Bytes, \* size of a key or value, either way
          Quota,
          MaxValue,     \* the largest value a request may carry, in bytes
          MaxForgets,   \* bound: apps forgotten
          Shared, NoApp, Absent

ASSUME StorageAssumption ==
    /\ Chars \in [Key \union Value -> Nat] /\ Bytes \in [Key \union Value -> Nat]
    /\ \A x \in Key \union Value : Chars[x] <= Bytes[x]
    /\ Quota \in Nat /\ MaxValue \in Nat /\ MaxForgets \in Nat
    /\ Shared \notin Device /\ NoApp \notin App
    /\ Device \intersect Visitor = {}

Viewer == Device \union Visitor
Scope  == Device \union {Shared}
Entry  == [value : Value, app : App, viewer : Viewer, personal : BOOLEAN]

VARIABLES held,      \* the app the library serves under each slug
          forgotten, \* apps the owner told the daemon to forget
          admitted,  \* viewers the gate serves
          kv,        \* each slug's store; who wrote an entry is history
          request    \* what each viewer's request was allowed to do

vars == <<held, forgotten, admitted, kv, request>>

NoRequest == [step |-> "none"]

Init ==
    /\ held \in [Slug -> App \union {NoApp}]
    /\ \A s, t \in Slug : held[s] = held[t] /\ held[s] # NoApp => s = t
    /\ forgotten = {}
    /\ admitted = Viewer
    /\ kv = [s \in Slug |-> [x \in Scope \X Key |-> Absent]]
    /\ request = [v \in Viewer |-> NoRequest]

-----------------------------------------------------------------------------
(* The store.                                                              *)

Present(s) == {x \in Scope \X Key : kv[s][x] # Absent}

\* SUM(length(key) + length(value)), and the same for one row.
RowChars(s, x) == IF kv[s][x] = Absent THEN 0 ELSE Chars[x[2]] + Chars[kv[s][x].value]
TotalChars(s) == MapThenSumSet(LAMBDA x : RowChars(s, x), Present(s))
TotalBytes(s) ==
    MapThenSumSet(LAMBDA x : Bytes[x[2]] + Bytes[kv[s][x].value], Present(s))

\* Faulty variant: the row being replaced is not taken off.
WithinQuotaStacking(s, x, value) == TotalChars(s) + Bytes[x[2]] + Bytes[value] <= Quota

\* Faulty variant: the size before the write is checked.
WithinQuotaBefore(s, x, value) == TotalChars(s) - RowChars(s, x) <= Quota

\* AppStore::set: what the store would hold afterwards.
WithinQuota(s, x, value) ==
    TotalChars(s) - RowChars(s, x) + Bytes[x[2]] + Bytes[value] <= Quota

-----------------------------------------------------------------------------
(* One request of the API.                                                 *)

\* Faulty variant: a viewer without a device falls back to the shared store.
ScopeOfAnyone(v, personal) == IF personal /\ v \in Device THEN {v} ELSE {Shared}

\* Faulty variant: a viewer without a device is keyed on its address.
ScopeOfAddress(v, personal) == IF personal THEN {v} ELSE {Shared}

\* Personal storage is keyed to a device; a viewer without one has none.
ScopeOf(v, personal) ==
    IF ~personal THEN {Shared} ELSE IF v \in Device THEN {v} ELSE {}

\* The hostname names an app, the gate serves the viewer, the value is not too
\* large.  Every refusal leaves the store alone.
Allow(v, s, op, key, value, personal) ==
    /\ request[v] = NoRequest
    /\ held[s] # NoApp
    /\ v \in admitted
    /\ Bytes[value] <= MaxValue
    /\ \E scope \in ScopeOf(v, personal) :
         request' = [request EXCEPT ![v] =
           [step |-> op, slug |-> s, at |-> <<scope, key>>,
            entry |-> [value |-> value, app |-> held[s], viewer |-> v,
                       personal |-> personal]]]
    /\ UNCHANGED <<held, forgotten, admitted, kv>>

\* A write over quota is refused and changes nothing.
Write(v) ==
    LET r == request[v] IN
    /\ r.step = "write"
    /\ kv' = IF WithinQuota(r.slug, r.at, r.entry.value)
             THEN [kv EXCEPT ![r.slug][r.at] = r.entry] ELSE kv
    /\ request' = [request EXCEPT ![v] = NoRequest]
    /\ UNCHANGED <<held, forgotten, admitted>>

Remove(v) ==
    LET r == request[v] IN
    /\ r.step = "remove"
    /\ kv' = [kv EXCEPT ![r.slug][r.at] = Absent]
    /\ request' = [request EXCEPT ![v] = NoRequest]
    /\ UNCHANGED <<held, forgotten, admitted>>

-----------------------------------------------------------------------------
(* The owner.                                                              *)

\* Pausing, approving, revoking, closing: whom the gate serves changes.
Admit(v)  == v \notin admitted /\ admitted' = admitted \union {v}
             /\ UNCHANGED <<held, forgotten, kv, request>>
Refuse(v) == v \in admitted /\ admitted' = admitted \ {v}
             /\ UNCHANGED <<held, forgotten, kv, request>>

\* app.forget: the library lets go of the slug.
ForgetApp(s) ==
    /\ held[s] # NoApp
    /\ Cardinality(forgotten) < MaxForgets
    /\ forgotten' = forgotten \union {held[s]}
    /\ held' = [held EXCEPT ![s] = NoApp]
    /\ UNCHANGED <<admitted, kv, request>>

\* A folder the owner did not forget turns up under a free slug.
Appear(a, s) ==
    /\ held[s] = NoApp
    /\ a \notin forgotten /\ \A t \in Slug : held[t] # a
    /\ held' = [held EXCEPT ![s] = a]
    /\ UNCHANGED <<forgotten, admitted, kv, request>>

Owner ==
    \/ \E v \in Viewer : Admit(v) \/ Refuse(v)
    \/ \E s \in Slug : ForgetApp(s) \/ \E a \in App : Appear(a, s)

Api(v) ==
    \/ \E s \in Slug, key \in Key, value \in Value, personal \in BOOLEAN :
         Allow(v, s, "write", key, value, personal) \/ Allow(v, s, "remove", key, value, personal)
    \/ Write(v) \/ Remove(v)

Next == Owner \/ \E v \in Viewer : Api(v)

Spec == Init /\ [][Next]_vars

-----------------------------------------------------------------------------
(* Properties.                                                             *)

Allowed == [step : {"write", "remove"}, slug : Slug, at : Scope \X Key, entry : Entry]

TypeOK ==
    /\ held \in [Slug -> App \union {NoApp}]
    /\ forgotten \subseteq App
    /\ admitted \subseteq Viewer
    /\ kv \in [Slug -> [Scope \X Key -> Entry \union {Absent}]]
    /\ request \in [Viewer -> Allowed \union {NoRequest}]

\* DEFAULT_QUOTA_BYTES: "How much one app may keep before writes start failing.
\* Counted as the bytes of keys plus values".
StoreFitsItsQuota == \A s \in Slug : TotalBytes(s) <= Quota

\* AppStore::set: "replacing a large value with a small one always succeeds - an
\* app that has filled its quota must never be unable to shrink itself".
CanAlwaysShrink ==
    \A s \in Slug : \A x \in Present(s) : \A value \in Value :
        Bytes[value] < Bytes[kv[s][x].value] => WithinQuota(s, x, value)

\* allow: falling back to the shared store "would put one viewer's private note in
\* front of the whole house".  What is stored as personal is under its own writer,
\* and what is shared was meant to be.
PersonalIsPersonal ==
    \A s \in Slug : \A x \in Present(s) :
        IF kv[s][x].personal THEN x[1] = kv[s][x].viewer ELSE x[1] = Shared

\* "The product promises an app can never read another app's data": what a served
\* app finds in its store, one of its own pages wrote.
AppsKeepApart ==
    \A s \in Slug : held[s] # NoApp => \A x \in Present(s) : kv[s][x].app = held[s]

\* What is left of the two for any text.  As SQLite counts, no store outgrows its quota, whoever
\* wrote in between; and a row may always be replaced by one that has no more bytes than the
\* row it replaces was counted for.
QuotaHolds ==
    /\ TypeOK
    /\ \A s \in Slug : TotalChars(s) <= Quota
    /\ \A s \in Slug : \A x \in Present(s) : \A value \in Value :
          Bytes[x[2]] + Bytes[value] <= RowChars(s, x) => WithinQuota(s, x, value)
=============================================================================
