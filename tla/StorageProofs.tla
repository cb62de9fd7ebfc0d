---------------------------- MODULE StorageProofs ----------------------------
(***************************************************************************)
(* What holds of an app's storage for any number of apps, keys, viewers,    *)
(* devices, pages and calls: what is a device's own stays its own, in the   *)
(* daemon's store and in what the pages do with it, and no store outgrows   *)
(* its quota.                                                               *)
(***************************************************************************)
EXTENDS AppStorage, PageStorage, FiniteSetTheorems, WellFoundedInduction, TLAPS

-----------------------------------------------------------------------------
(* The daemon's store.                                                     *)

\* An entry is where its writer may keep it.
Lawful(scope, entry) == IF entry.personal THEN scope = entry.viewer ELSE scope = Shared

\* What a request was allowed is settled when it passes the gate: whose scope it is for.
AllowedIsLawful ==
    \A v \in Viewer : request[v] # NoRequest => Lawful(request[v].at[1], request[v].entry)

StoreInv == TypeOK /\ AllowedIsLawful /\ PersonalIsPersonal

\* The gate's verdict and the hostname are checked once; the request carries them.
LEMMA AllowType ==
    ASSUME StorageAssumption, NEW v \in Viewer, NEW s \in Slug, NEW op \in {"write", "remove"},
           NEW key \in Key, NEW value \in Value, NEW personal \in BOOLEAN,
           TypeOK, Allow(v, s, op, key, value, personal)
    PROVE  \E r \in Allowed : /\ request' = [request EXCEPT ![v] = r]
                              /\ Lawful(r.at[1], r.entry)
<1>1. PICK scope \in ScopeOf(v, personal) :
         request' = [request EXCEPT ![v] =
           [step |-> op, slug |-> s, at |-> <<scope, key>>,
            entry |-> [value |-> value, app |-> held[s], viewer |-> v, personal |-> personal]]]
  BY DEF Allow
<1>2. held[s] \in App
  BY DEF Allow, TypeOK
<1>3. scope \in Scope /\ (IF personal THEN scope = v ELSE scope = Shared)
  BY DEF ScopeOf, Scope
<1> DEFINE e == [value |-> value, app |-> held[s], viewer |-> v, personal |-> personal]
<1>4. e \in Entry
  BY <1>2 DEF Entry
<1>5. <<scope, key>> \in Scope \X Key
  BY <1>3
<1>6. [step |-> op, slug |-> s, at |-> <<scope, key>>, entry |-> e] \in Allowed
  BY <1>4, <1>5 DEF Allowed
<1> QED BY <1>1, <1>3, <1>6 DEF Lawful

\* An empty store.
LEMMA StoreInvInit == Init => StoreInv
<1> SUFFICES ASSUME Init PROVE StoreInv
  OBVIOUS
<1>1. request \in [Viewer -> Allowed \union {NoRequest}] /\ \A v \in Viewer : request[v] = NoRequest
  BY DEF Init
<1>2. kv \in [Slug -> [Scope \X Key -> Entry \union {Absent}]] /\ PersonalIsPersonal
  BY DEF Init, PersonalIsPersonal, Present
<1> QED BY <1>1, <1>2 DEF Init, StoreInv, TypeOK, AllowedIsLawful

\* Nothing is let in, or stored, that is not lawful for its viewer.
LEMMA StoreInvStep == StoreInv /\ [Next]_vars => StoreInv'
<1> SUFFICES ASSUME StoreInv, [Next]_vars PROVE StoreInv'
  OBVIOUS
<1> USE StorageAssumption
<1>0. TypeOK /\ AllowedIsLawful /\ PersonalIsPersonal
  BY DEF StoreInv
<1>1. ASSUME NEW v \in Viewer, NEW s \in Slug, NEW key \in Key, NEW value \in Value,
             NEW personal \in BOOLEAN, NEW op \in {"write", "remove"},
             Allow(v, s, op, key, value, personal)
      PROVE  StoreInv'
  <2>1. PICK r \in Allowed : request' = [request EXCEPT ![v] = r] /\ Lawful(r.at[1], r.entry)
    BY <1>0, <1>1, AllowType
  <2>2. UNCHANGED <<held, forgotten, admitted, kv>>
    BY <1>1 DEF Allow
  <2>3. AllowedIsLawful'
    BY <1>0, <2>1 DEF TypeOK, AllowedIsLawful, Lawful
  <2> QED BY <1>0, <2>1, <2>2, <2>3 DEF StoreInv, TypeOK, PersonalIsPersonal, Present
<1>2. ASSUME NEW v \in Viewer, Write(v) PROVE StoreInv'
  <2> DEFINE r == request[v]
  <2>1. r \in Allowed /\ Lawful(r.at[1], r.entry)
    BY <1>0, <1>2 DEF Write, TypeOK, AllowedIsLawful, NoRequest
  <2>2. r.slug \in Slug /\ r.at \in Scope \X Key /\ r.entry \in Entry
    BY <2>1 DEF Allowed
  <2>3. UNCHANGED <<held, forgotten, admitted>> /\ request' = [request EXCEPT ![v] = NoRequest]
        /\ (kv' = kv \/ kv' = [kv EXCEPT ![r.slug][r.at] = r.entry])
    BY <1>2 DEF Write
  <2> HIDE DEF r
  <2>4. kv' \in [Slug -> [Scope \X Key -> Entry \union {Absent}]]
    <3>1. CASE kv' = [kv EXCEPT ![r.slug][r.at] = r.entry]
      <4>1. [kv[r.slug] EXCEPT ![r.at] = r.entry] \in [Scope \X Key -> Entry \union {Absent}]
        BY <1>0, <2>2 DEF TypeOK
      <4> QED BY <1>0, <3>1, <4>1 DEF TypeOK
    <3> QED BY <1>0, <2>3, <3>1 DEF TypeOK
  <2>5. PersonalIsPersonal'
    <3> SUFFICES ASSUME NEW s \in Slug, NEW x \in Scope \X Key, kv'[s][x] # Absent
                 PROVE  Lawful(x[1], kv'[s][x])
      BY DEF PersonalIsPersonal, Present, Lawful
    <3>1. kv'[s][x] = kv[s][x] \/ (x = r.at /\ kv'[s][x] = r.entry)
      BY <1>0, <2>2, <2>3 DEF TypeOK
    <3> QED BY <1>0, <2>1, <3>1 DEF PersonalIsPersonal, Present, Lawful
  <2>6. AllowedIsLawful'
    BY <1>0, <2>3 DEF TypeOK, AllowedIsLawful, Lawful
  <2> QED BY <1>0, <2>3, <2>4, <2>5, <2>6 DEF StoreInv, TypeOK
<1>3. ASSUME NEW v \in Viewer, Remove(v) PROVE StoreInv'
  <2> DEFINE r == request[v]
  <2>1. r.slug \in Slug /\ r.at \in Scope \X Key
    BY <1>0, <1>3 DEF Remove, TypeOK, NoRequest, Allowed
  <2>2. UNCHANGED <<held, forgotten, admitted>> /\ request' = [request EXCEPT ![v] = NoRequest]
        /\ kv' = [kv EXCEPT ![r.slug][r.at] = Absent]
    BY <1>3 DEF Remove
  <2> HIDE DEF r
  <2>3. \A s \in Slug, x \in Scope \X Key : kv'[s][x] \in {kv[s][x], Absent}
    BY <1>0, <2>1, <2>2 DEF TypeOK
  <2>4. kv' \in [Slug -> [Scope \X Key -> Entry \union {Absent}]]
    BY <1>0, <2>1, <2>2 DEF TypeOK
  <2>5. PersonalIsPersonal'
    BY <1>0, <2>3 DEF PersonalIsPersonal, Present
  <2>6. AllowedIsLawful'
    BY <1>0, <2>2 DEF TypeOK, AllowedIsLawful, Lawful
  <2> QED BY <1>0, <2>2, <2>4, <2>5, <2>6 DEF StoreInv, TypeOK
<1>4. ASSUME Owner PROVE StoreInv'
  <2>1. UNCHANGED <<kv, request>>
    BY <1>4 DEF Owner, Admit, Refuse, ForgetApp, Appear
  <2>2. /\ held' \in [Slug -> App \union {NoApp}]
        /\ forgotten' \subseteq App /\ admitted' \subseteq Viewer
    BY <1>0, <1>4 DEF Owner, Admit, Refuse, ForgetApp, Appear, TypeOK
  <2> QED BY <1>0, <2>1, <2>2
          DEF StoreInv, TypeOK, PersonalIsPersonal, Present, AllowedIsLawful, Lawful
<1>5. ASSUME UNCHANGED vars PROVE StoreInv'
  BY <1>0, <1>5 DEF vars, StoreInv, TypeOK, PersonalIsPersonal, Present, AllowedIsLawful, Lawful
<1> QED BY <1>1, <1>2, <1>3, <1>4, <1>5 DEF Next, Api

\* allow: a personal value must never "put one viewer's private note in front of the whole
\* house".  Whoever is let in or put out between the check and the write, what is stored as
\* personal is under its own writer.
THEOREM PersonalIsAlwaysPersonal == Spec => []PersonalIsPersonal
<1>1. StoreInv => PersonalIsPersonal
  BY DEF StoreInv
<1> QED BY <1>1, StoreInvInit, StoreInvStep, PTL DEF Spec

-----------------------------------------------------------------------------
(* The quota.  What a store comes to is a sum over its rows, taken one at a  *)
(* time in no particular order; what is shown of it is that a row put in or  *)
(* taken out adds or takes off its own size, whichever is summed first.     *)

\* Any set of natural numbers that is not empty has a least one.
LEMMA LeastOf == ASSUME NEW T, T \subseteq Nat, T # {} PROVE \E x \in T : \A y \in T : x <= y
<1> DEFINE R == {ss \in Nat \X Nat : ss[1] < ss[2]}
<1>1. IsWellFoundedOn(R, Nat)
  BY NatLessThanWellFounded DEF OpToRel
<1>2. \E x \in T : \A y \in T : ~ (<<y, x>> \in R)
  <2> HIDE DEF R
  <2> QED BY <1>1, WFMin
<1>3. \A x \in Nat, y \in Nat : y < x => <<y, x>> \in R
  OBVIOUS
<1>4. \A x \in Nat, y \in Nat : <<y, x>> \notin R => x <= y
  <2> HIDE DEF R
  <2> QED BY <1>3
<1> HIDE DEF R
<1> QED BY <1>2, <1>4

\* The element a sum takes first.
First(t) == CHOOSE y \in t : TRUE

\* g has the sums of f over the sets of a family.
Sums(g, f, family) ==
    g = [t \in family |-> IF t = {} THEN 0 ELSE f[First(t)] + g[t \ {First(t)}]]

\* Numbers only: each x of U has a size, and g has the sums of the sizes.
Sized(U, f, g) == IsFiniteSet(U) /\ (\A x \in U : f[x] \in Nat) /\ Sums(g, f, SUBSET U)

\* What is first is there, and without it the set is one smaller.
LEMMA FirstOfSet ==
    ASSUME NEW t, IsFiniteSet(t), t # {}
    PROVE  /\ First(t) \in t /\ IsFiniteSet(t \ {First(t)})
           /\ Cardinality(t) \in Nat /\ Cardinality(t) # 0
           /\ Cardinality(t \ {First(t)}) = Cardinality(t) - 1
<1>1. First(t) \in t
  BY DEF First
<1>2. Cardinality(t) \in Nat /\ Cardinality(t) # 0
  BY FS_CardinalityType, FS_EmptySet
<1> HIDE DEF First
<1> QED BY <1>1, <1>2, FS_RemoveElement

\* A function with the sums over all subsets of a finite set: there is one up to every size.
LEMMA SumsExist ==
    ASSUME NEW U, IsFiniteSet(U), NEW f
    PROVE  \E g : Sums(g, f, SUBSET U)
<1> DEFINE Small(n) == {t \in SUBSET U : Cardinality(t) <= n}
           Bad == {n \in Nat : ~\E g : Sums(g, f, Small(n))}
<1>0. \A t \in SUBSET U : IsFiniteSet(t) /\ Cardinality(t) \in Nat /\ Cardinality(t) <= Cardinality(U)
  BY FS_Subset, FS_CardinalityType
<1>1. Cardinality(U) \in Nat
  BY FS_CardinalityType
<1>2. ASSUME Bad # {} PROVE FALSE
  <2>1. PICK n \in Bad : \A m \in Bad : n <= m
    <3>1. Bad \subseteq Nat
      OBVIOUS
    <3> HIDE DEF Bad
    <3> QED BY <1>2, <3>1, LeastOf
  <2>2. n # 0
    <3> SUFFICES ASSUME n = 0 PROVE FALSE
      OBVIOUS
    <3>1. \A t \in Small(0) : t = {}
      BY <1>0, FS_EmptySet
    <3> DEFINE g == [t \in Small(0) |-> 0]
    <3>2. Sums(g, f, Small(0))
      BY <3>1 DEF Sums
    <3> QED BY <3>2
  <2>3. n \in Nat /\ n - 1 \in Nat /\ n - 1 \notin Bad
    BY <2>1, <2>2
  <2>4. PICK g : Sums(g, f, Small(n - 1))
    BY <2>3
  <2> DEFINE h == [t \in Small(n) |-> IF t = {} THEN 0 ELSE f[First(t)] + g[t \ {First(t)}]]
  <2>5. \A t \in Small(n) : t # {} => t \ {First(t)} \in Small(n - 1)
    <3> SUFFICES ASSUME NEW t \in Small(n), t # {} PROVE t \ {First(t)} \in Small(n - 1)
      OBVIOUS
    <3> QED BY <1>0, <2>3, FirstOfSet
  <2>6. \A t \in Small(n - 1) : t \in Small(n) /\ h[t] = g[t]
    <3> SUFFICES ASSUME NEW t \in Small(n - 1) PROVE t \in Small(n) /\ h[t] = g[t]
      OBVIOUS
    <3>1. t \in Small(n)
      BY <1>0, <2>3
    <3>2. g[t] = IF t = {} THEN 0 ELSE f[First(t)] + g[t \ {First(t)}]
      <4> HIDE DEF Small
      <4> QED BY <2>4 DEF Sums
    <3>3. h[t] = IF t = {} THEN 0 ELSE f[First(t)] + g[t \ {First(t)}]
      <4> HIDE DEF Small
      <4> QED BY <3>1
    <3> QED BY <3>1, <3>2, <3>3
  <2>7. Sums(h, f, Small(n))
    <3>1. \A t \in Small(n) : (IF t = {} THEN 0 ELSE f[First(t)] + g[t \ {First(t)}])
                            = (IF t = {} THEN 0 ELSE f[First(t)] + h[t \ {First(t)}])
      <4> HIDE DEF Small, h
      <4> QED BY <2>5, <2>6
    <3>2. h = [t \in Small(n) |-> IF t = {} THEN 0 ELSE f[First(t)] + g[t \ {First(t)}]]
      OBVIOUS
    <3>3. h = [t \in Small(n) |-> IF t = {} THEN 0 ELSE f[First(t)] + h[t \ {First(t)}]]
      <4> HIDE DEF h, Small
      <4> QED BY <3>1, <3>2
    <3> HIDE DEF h, Small
    <3> QED BY <3>3 DEF Sums
  <2>8. n \notin Bad
    <3> HIDE DEF h, Small
    <3> QED BY <2>7
  <2> QED BY <2>1, <2>8
<1>3. PICK g : Sums(g, f, Small(Cardinality(U)))
  <2> HIDE DEF Small
  <2> QED BY <1>1, <1>2
<1>4. Small(Cardinality(U)) = SUBSET U
  BY <1>0
<1> HIDE DEF Small
<1> QED BY <1>3, <1>4

\* What the sums of a function are does not depend on the rest of it.
LEMMA SumsAgree ==
    ASSUME NEW U, NEW V \in SUBSET U, NEW f, NEW e, NEW g, NEW h,
           Sized(U, f, g), Sized(V, e, h), \A x \in V : e[x] = f[x]
    PROVE  g[V] = h[V]
<1> USE DEF Sized
<1> DEFINE Bad == {n \in Nat : \E t \in SUBSET V : Cardinality(t) = n /\ g[t] # h[t]}
<1>0. \A t \in SUBSET V : IsFiniteSet(t) /\ Cardinality(t) \in Nat
  BY FS_Subset, FS_CardinalityType
<1>1. ASSUME Bad # {} PROVE FALSE
  <2>1. PICK n \in Bad : \A m \in Bad : n <= m
    <3>1. Bad \subseteq Nat
      OBVIOUS
    <3> HIDE DEF Bad
    <3> QED BY <1>1, <3>1, LeastOf
  <2>2. PICK t \in SUBSET V : Cardinality(t) = n /\ g[t] # h[t]
    BY <2>1
  <2>n. n \in Nat
    BY <2>1
  <2>3. /\ g[t] = IF t = {} THEN 0 ELSE f[First(t)] + g[t \ {First(t)}]
        /\ h[t] = IF t = {} THEN 0 ELSE e[First(t)] + h[t \ {First(t)}]
    <3>1. t \in SUBSET U
      OBVIOUS
    <3>2. h[t] = IF t = {} THEN 0 ELSE e[First(t)] + h[t \ {First(t)}]
      BY DEF Sums
    <3> QED BY <3>1, <3>2 DEF Sums
  <2>4. t # {}
    BY <2>2, <2>3
  <2>5. First(t) \in t /\ Cardinality(t \ {First(t)}) = n - 1 /\ n - 1 \in Nat
    BY <1>0, <2>2, <2>4, FirstOfSet
  <2>6. n - 1 \notin Bad
    <3> HIDE DEF Bad
    <3> QED BY <2>1, <2>5, <2>n
  <2>7. g[t \ {First(t)}] = h[t \ {First(t)}]
    BY <2>5, <2>6
  <2>8. e[First(t)] = f[First(t)]
    BY <2>5
  <2> QED BY <2>2, <2>3, <2>4, <2>7, <2>8
<1>2. Cardinality(V) \notin Bad
  BY <1>1
<1> QED BY <1>0, <1>2

\* A sum of numbers is a number, and any element may be taken first.
LEMMA SumsInAnyOrder ==
    ASSUME NEW U, NEW f, NEW g, Sized(U, f, g)
    PROVE  \A t \in SUBSET U : g[t] \in Nat /\ \A x \in t : g[t] = f[x] + g[t \ {x}]
<1> USE DEF Sized
<1> DEFINE Good(t) == g[t] \in Nat /\ \A x \in t : g[t] = f[x] + g[t \ {x}]
           Bad == {n \in Nat : \E t \in SUBSET U : Cardinality(t) = n /\ ~Good(t)}
<1>0. \A t \in SUBSET U : IsFiniteSet(t) /\ Cardinality(t) \in Nat
  BY FS_Subset, FS_CardinalityType
<1>1. ASSUME Bad # {} PROVE FALSE
  <2>1. PICK n \in Bad : \A m \in Bad : n <= m
    <3>1. Bad \subseteq Nat
      OBVIOUS
    <3> HIDE DEF Bad
    <3> QED BY <1>1, <3>1, LeastOf
  <2>2. PICK t \in SUBSET U : Cardinality(t) = n /\ ~Good(t)
    BY <2>1
  <2>n. n \in Nat
    BY <2>1
  <2>a. \A u \in SUBSET U : g[u] = IF u = {} THEN 0 ELSE f[First(u)] + g[u \ {First(u)}]
    BY DEF Sums
  <2>3. t # {}
    <3> SUFFICES ASSUME t = {} PROVE FALSE
      OBVIOUS
    <3>1. g[t] = 0
      BY <2>a
    <3> QED BY <3>1, <2>2
  <2> DEFINE p == First(t)
             r == t \ {p}
  <2>4. p \in t /\ Cardinality(r) = n - 1 /\ n - 1 \in Nat /\ r \in SUBSET U
    BY <1>0, <2>2, <2>3, FirstOfSet
  <2>5. n - 1 \notin Bad
    <3> HIDE DEF Bad, p, r
    <3> QED BY <2>1, <2>4, <2>n
  <2>6. Good(r)
    <3> HIDE DEF r, p, Good
    <3> QED BY <2>4, <2>5
  <2>7. g[t] = f[p] + g[r] /\ g[r] \in Nat /\ f[p] \in Nat
    BY <2>3, <2>4, <2>6, <2>a
  <2>8. ASSUME NEW x \in t PROVE g[t] = f[x] + g[t \ {x}]
    <3>1. CASE x = p
      BY <3>1, <2>7
    <3>2. CASE x # p
      <4> DEFINE q == t \ {x}
                 w == r \ {x}
      <4>1. x \in r
        BY <3>2
      <4>2. g[r] = f[x] + g[w]
        BY <4>1, <2>6
      <4>3. q \in SUBSET U /\ Cardinality(q) = n - 1
        BY <1>0, <2>2, FS_RemoveElement
      <4>4. Good(q)
        <5> HIDE DEF q, Good, p, r
        <5> QED BY <2>4, <2>5, <4>3
      <4>5. p \in q /\ q \ {p} = w
        BY <2>4, <3>2
      <4>6. g[q] = f[p] + g[w]
        <5> HIDE DEF q, w, p, r
        <5> QED BY <4>4, <4>5
      <4>7. f[x] \in Nat /\ g[q] \in Nat
        <5> HIDE DEF q, w, p, r
        <5> QED BY <4>4
      <4>8. w \in SUBSET U
        OBVIOUS
      <4>9. g[w] \in Nat
        <5>1. IsFiniteSet(r) /\ Cardinality(w) = n - 2 /\ n - 2 \in Nat
          <6>1. IsFiniteSet(r) /\ Cardinality(r) = n - 1
            BY <1>0, <2>4
          <6>2. IsFiniteSet(w) /\ Cardinality(w) = Cardinality(r) - 1
            BY <6>1, <4>1, FS_RemoveElement
          <6>3. Cardinality(w) \in Nat
            BY <6>2, FS_CardinalityType
          <6> HIDE DEF w, r, p
          <6> QED BY <6>1, <6>2, <6>3, <2>4
        <5>2. n - 2 \notin Bad
          <6> HIDE DEF Bad, w, r, p, q
          <6> QED BY <2>1, <5>1, <2>4, <2>n
        <5> HIDE DEF w, r, p, q
        <5> QED BY <5>1, <5>2, <4>8
      <4>12. q = t \ {x}
        OBVIOUS
      <4> HIDE DEF q, w, p, r, Good
      <4>10. g[t] = f[p] + (f[x] + g[w])
        BY <2>7, <4>2
      <4>11. f[p] + (f[x] + g[w]) = f[x] + (f[p] + g[w])
        BY ONLY <2>7, <4>7, <4>9
      <4> QED BY <4>10, <4>11, <4>6, <4>12
    <3> QED BY <3>1, <3>2
  <2>9. g[t] \in Nat
    <3> HIDE DEF p, r
    <3> QED BY <2>7
  <2> QED BY <2>2, <2>8, <2>9
<1> SUFFICES ASSUME NEW t \in SUBSET U PROVE Good(t)
  OBVIOUS
<1> HIDE DEF Good
<1> QED BY <1>0, <1>1

\* What a store's rows come to.
CharsOf(s) == [x \in Present(s) |-> Chars[x[2]] + Chars[kv[s][x].value]]

\* A row that is there is an entry under a key, and each has its size.
LEMMA RowType ==
    ASSUME StorageAssumption, TypeOK, NEW s \in Slug, NEW x \in Present(s)
    PROVE  /\ x \in Scope \X Key /\ x[2] \in Key
           /\ kv[s][x] \in Entry /\ kv[s][x].value \in Value
           /\ Chars[x[2]] \in Nat /\ Chars[kv[s][x].value] \in Nat
           /\ Bytes[x[2]] \in Nat /\ Bytes[kv[s][x].value] \in Nat
<1>1. x \in Scope \X Key /\ kv[s][x] # Absent
  BY DEF Present
<1>2. x[2] \in Key
  BY <1>1
<1>3. kv[s][x] \in Entry
  BY <1>1 DEF TypeOK
<1>4. kv[s][x].value \in Value
  BY <1>3 DEF Entry
<1> QED BY <1>1, <1>2, <1>3, <1>4 DEF StorageAssumption

\* The size SQLite reports is the sum of its rows' sizes.
LEMMA CharsAreASum ==
    ASSUME StorageAssumption, TypeOK, NEW s \in Slug, IsFiniteSet(Present(s))
    PROVE  \E k : Sized(Present(s), CharsOf(s), k) /\ TotalChars(s) = k[Present(s)]
<1> DEFINE P == Present(s)
           it == CHOOSE iter : iter = [t \in SUBSET P |-> IF t = {} THEN 0
                    ELSE RowChars(s, CHOOSE y \in t : TRUE) + iter[t \ {CHOOSE y \in t : TRUE}]]
<1>1. TotalChars(s) = it[P]
  BY DEF TotalChars, MapThenSumSet, MapThenFoldSet
<1>2. PICK g : Sums(g, CharsOf(s), SUBSET P)
  BY SumsExist
<1>3. \A x \in P : RowChars(s, x) = CharsOf(s)[x]
  BY DEF RowChars, CharsOf, Present
<1>4. \A t \in SUBSET P : t # {} => First(t) \in P
  BY DEF First
<1>5. g = [t \in SUBSET P |-> IF t = {} THEN 0
              ELSE RowChars(s, CHOOSE y \in t : TRUE) + g[t \ {CHOOSE y \in t : TRUE}]]
  <2>1. \A t \in SUBSET P : (IF t = {} THEN 0 ELSE CharsOf(s)[First(t)] + g[t \ {First(t)}])
          = (IF t = {} THEN 0 ELSE RowChars(s, First(t)) + g[t \ {First(t)}])
    <3> HIDE DEF P
    <3> QED BY <1>3, <1>4
  <2>2. g = [t \in SUBSET P |-> IF t = {} THEN 0 ELSE RowChars(s, First(t)) + g[t \ {First(t)}]]
    <3> HIDE DEF P
    <3> QED BY <1>2, <2>1 DEF Sums
  <2> HIDE DEF P
  <2> QED BY <2>2 DEF First
<1>6. it = [t \in SUBSET P |-> IF t = {} THEN 0
              ELSE RowChars(s, CHOOSE y \in t : TRUE) + it[t \ {CHOOSE y \in t : TRUE}]]
  <2> HIDE DEF P
  <2> QED BY <1>5
<1>7. Sums(it, CharsOf(s), SUBSET P)
  <2>1. \A t \in SUBSET P : (IF t = {} THEN 0 ELSE CharsOf(s)[First(t)] + it[t \ {First(t)}])
          = (IF t = {} THEN 0 ELSE RowChars(s, First(t)) + it[t \ {First(t)}])
    <3> HIDE DEF P, it
    <3> QED BY <1>3, <1>4
  <2>2. it = [t \in SUBSET P |-> IF t = {} THEN 0 ELSE RowChars(s, First(t)) + it[t \ {First(t)}]]
    <3> HIDE DEF P, it
    <3> QED BY <1>6 DEF First
  <2> HIDE DEF P, it
  <2> QED BY <2>1, <2>2 DEF Sums
<1>8. \A x \in P : CharsOf(s)[x] \in Nat
  BY RowType DEF CharsOf
<1> HIDE DEF it
<1> QED BY <1>1, <1>7, <1>8 DEF Sized

\* A set without one of its elements sums to the rest, and one more to the rest and it.
LEMMA SumWithout ==
    ASSUME NEW U, NEW x, NEW f, NEW g, NEW e, NEW h,
           Sized(U, f, g), Sized(U \union {x}, e, h), \A y \in U \ {x} : e[y] = f[y]
    PROVE  /\ g[U] \in Nat /\ h[U \union {x}] \in Nat
           /\ h[U \union {x}] = e[x] + g[U \ {x}]
           /\ IF x \in U THEN g[U] = f[x] + g[U \ {x}] ELSE g[U] = g[U \ {x}]
<1> DEFINE V == U \union {x}
<1>1. /\ IsFiniteSet(U) /\ (\A y \in U : f[y] \in Nat) /\ Sums(g, f, SUBSET U)
      /\ IsFiniteSet(V) /\ (\A y \in V : e[y] \in Nat) /\ Sums(h, e, SUBSET V)
  BY DEF Sized
<1>2. \A t \in SUBSET U : g[t] \in Nat /\ \A y \in t : g[t] = f[y] + g[t \ {y}]
  <2>1. Sized(U, f, g)
    OBVIOUS
  <2> QED BY ONLY <2>1, SumsInAnyOrder
<1>3. \A t \in SUBSET V : h[t] \in Nat /\ \A y \in t : h[t] = e[y] + h[t \ {y}]
  BY SumsInAnyOrder
<1>4. V \ {x} = U \ {x}
  OBVIOUS
<1> DEFINE W == U \ {x}
<1>5. PICK k : Sized(W, f, k)
  <2>1. IsFiniteSet(W) /\ \A y \in W : f[y] \in Nat
    BY <1>1, FS_Subset
  <2> HIDE DEF W
  <2> QED BY <2>1, SumsExist DEF Sized
<1>6. g[W] = k[W]
  <2>1. W \in SUBSET U /\ \A y \in W : f[y] = f[y]
    OBVIOUS
  <2> HIDE DEF W
  <2> QED BY <1>5, <2>1, SumsAgree
<1>7. h[W] = k[W]
  <2>1. W \in SUBSET V /\ \A y \in W : f[y] = e[y]
    OBVIOUS
  <2> HIDE DEF W
  <2> QED BY <1>5, <2>1, SumsAgree
<1>8. h[V] = e[x] + h[W]
  BY <1>3, <1>4
<1>9. g[U] \in Nat /\ h[V] \in Nat
  BY <1>2, <1>3
<1>10. IF x \in U THEN g[U] = f[x] + g[U \ {x}] ELSE g[U] = g[U \ {x}]
  <2>1. CASE x \in U
    BY <1>2, <2>1
  <2>2. CASE x \notin U
    <3>1. U \ {x} = U
      BY <2>2
    <3> QED BY <2>2, <3>1
  <2> QED BY <2>1, <2>2
<1> QED BY <1>6, <1>7, <1>8, <1>9, <1>10

\* The quota is kept in characters, which is how SQLite counts.
QuotaInv ==
    /\ TypeOK
    /\ \A s \in Slug : IsFiniteSet(Present(s)) /\ TotalChars(s) <= Quota

\* A store is empty at first.
LEMMA QuotaInvInit == StorageAssumption /\ Init => QuotaInv
<1> SUFFICES ASSUME StorageAssumption, Init PROVE QuotaInv
  OBVIOUS
<1>1. TypeOK
  BY StoreInvInit DEF StoreInv
<1>2. \A s \in Slug : Present(s) = {}
  BY DEF Present, Init
<1>3. ASSUME NEW s \in Slug PROVE IsFiniteSet(Present(s)) /\ TotalChars(s) <= Quota
  <2>1. IsFiniteSet(Present(s))
    BY <1>2, FS_EmptySet
  <2>2. PICK g : Sized(Present(s), CharsOf(s), g) /\ TotalChars(s) = g[Present(s)]
    BY <1>1, <2>1, CharsAreASum
  <2>3. g[{}] = 0
    BY <1>2, <2>2 DEF Sized, Sums
  <2> QED BY <1>2, <2>1, <2>2, <2>3 DEF StorageAssumption
<1> QED BY <1>1, <1>3 DEF QuotaInv

\* One row of one store is replaced, or taken away; what the others come to is as it was.
LEMMA StoreElsewhere ==
    ASSUME QuotaInv, NEW s \in Slug, kv'[s] = kv[s]
    PROVE  IsFiniteSet(Present(s))' /\ TotalChars(s)' <= Quota
<1>1. Present(s)' = Present(s)
  BY DEF Present
<1>2. TotalChars(s)' = TotalChars(s)
  BY <1>1 DEF TotalChars, MapThenSumSet, MapThenFoldSet, RowChars
<1> QED BY <1>1, <1>2 DEF QuotaInv

\* A row the size check let in: in the room the one it replaces leaves.
LEMMA RowWritten ==
    ASSUME StorageAssumption, QuotaInv, TypeOK', NEW s \in Slug, NEW x \in Scope \X Key,
           NEW entry \in Entry, entry # Absent, kv'[s] = [kv[s] EXCEPT ![x] = entry],
           WithinQuota(s, x, entry.value)
    PROVE  IsFiniteSet(Present(s))' /\ TotalChars(s)' <= Quota
<1> DEFINE U == Present(s)
           V == Present(s)'
           f == CharsOf(s)
           e == CharsOf(s)'
<1>1. TypeOK /\ IsFiniteSet(U) /\ TotalChars(s) <= Quota
  BY DEF QuotaInv
<1>2. kv[s] \in [Scope \X Key -> Entry \union {Absent}]
  BY <1>1 DEF TypeOK
<1>3. V = U \union {x} /\ kv'[s][x] = entry /\ \A y \in U \ {x} : kv'[s][y] = kv[s][y]
  BY <1>2 DEF Present
<1>4. IsFiniteSet(V)
  <2> HIDE DEF U, V
  <2> QED BY <1>1, <1>3, FS_AddElement
<1>5. PICK g : Sized(U, f, g) /\ TotalChars(s) = g[U]
  BY <1>1, CharsAreASum
<1>6. PICK h : Sized(V, e, h) /\ TotalChars(s)' = h[V]
  <2>1. (StorageAssumption /\ TypeOK /\ IsFiniteSet(Present(s)) =>
           \E k : Sized(Present(s), CharsOf(s), k) /\ TotalChars(s) = k[Present(s)])'
    BY CharsAreASum, PTL
  <2> QED BY <2>1, <1>4
<1>7. \A y \in U \ {x} : e[y] = f[y]
  BY <1>3 DEF CharsOf
<1>8. /\ g[U] \in Nat /\ h[V] \in Nat
      /\ h[V] = e[x] + g[U \ {x}]
      /\ IF x \in U THEN g[U] = f[x] + g[U \ {x}] ELSE g[U] = g[U \ {x}]
  <2>1. Sized(U, f, g) /\ Sized(U \union {x}, e, h)
    <3> HIDE DEF U, V, f, e
    <3> QED BY <1>3, <1>5, <1>6
  <2>2. V = U \union {x}
    BY <1>3
  <2> HIDE DEF U, V, f, e
  <2> QED BY ONLY <2>1, <2>2, <1>7, SumWithout
<1>9. /\ e[x] = Chars[x[2]] + Chars[entry.value]
      /\ RowChars(s, x) = IF x \in U THEN f[x] ELSE 0
  BY <1>3 DEF CharsOf, RowChars, Present
<1>10. /\ x[2] \in Key /\ entry.value \in Value
  BY DEF Entry
<1>11. /\ Chars[x[2]] \in Nat /\ Bytes[x[2]] \in Nat /\ Chars[x[2]] <= Bytes[x[2]]
       /\ Chars[entry.value] \in Nat /\ Bytes[entry.value] \in Nat
       /\ Chars[entry.value] <= Bytes[entry.value]
       /\ Quota \in Nat
  BY <1>10 DEF StorageAssumption
<1>12. g[U] - RowChars(s, x) + Bytes[x[2]] + Bytes[entry.value] <= Quota
  BY <1>5 DEF WithinQuota
<1>13. f[x] \in Nat \/ x \notin U
  BY <1>5 DEF Sized
<1>14. g[U \ {x}] = g[U] - RowChars(s, x)
  <2>1. g[U \ {x}] \in Nat
    <3>1. U \ {x} \in SUBSET U
      OBVIOUS
    <3>2. Sized(U, f, g)
      BY <1>5
    <3> HIDE DEF U, f
    <3> QED BY <3>1, <3>2, SumsInAnyOrder
  <2> HIDE DEF U, V, f, e
  <2>2. CASE x \in U
    BY <2>1, <2>2, <1>8, <1>9, <1>13
  <2>3. CASE x \notin U
    BY <2>1, <2>3, <1>8, <1>9
  <2> QED BY <2>2, <2>3
<1>15. h[V] <= Quota
  <2>1. RowChars(s, x) \in Nat
    BY <1>9, <1>13
  <2> HIDE DEF U, V, f, e
  <2> QED BY <2>1, <1>8, <1>9, <1>11, <1>12, <1>14
<1> QED BY <1>4, <1>6, <1>15

\* What is left when a row is taken away is less.
LEMMA RowTaken ==
    ASSUME StorageAssumption, QuotaInv, TypeOK', NEW s \in Slug, NEW x \in Scope \X Key,
           kv'[s] = [kv[s] EXCEPT ![x] = Absent]
    PROVE  IsFiniteSet(Present(s))' /\ TotalChars(s)' <= Quota
<1> DEFINE U == Present(s)
           V == Present(s)'
           f == CharsOf(s)
           e == CharsOf(s)'
<1>1. TypeOK /\ IsFiniteSet(U) /\ TotalChars(s) <= Quota
  BY DEF QuotaInv
<1>2. kv[s] \in [Scope \X Key -> Entry \union {Absent}]
  BY <1>1 DEF TypeOK
<1>3. V = U \ {x} /\ \A y \in V : kv'[s][y] = kv[s][y]
  BY <1>2 DEF Present
<1>4. IsFiniteSet(V)
  <2> HIDE DEF U, V
  <2> QED BY <1>1, <1>3, FS_Subset
<1>5. PICK g : Sized(U, f, g) /\ TotalChars(s) = g[U]
  BY <1>1, CharsAreASum
<1>6. PICK h : Sized(V, e, h) /\ TotalChars(s)' = h[V]
  <2>1. (StorageAssumption /\ TypeOK /\ IsFiniteSet(Present(s)) =>
           \E k : Sized(Present(s), CharsOf(s), k) /\ TotalChars(s) = k[Present(s)])'
    BY CharsAreASum, PTL
  <2> QED BY <2>1, <1>4
<1>7. \A y \in V : e[y] = f[y]
  BY <1>3 DEF CharsOf
<1>8. g[V] = h[V]
  <2>1. V \in SUBSET U /\ Sized(U, f, g) /\ Sized(V, e, h)
    BY <1>3, <1>5, <1>6
  <2> HIDE DEF U, V, f, e
  <2> QED BY <2>1, <1>7, SumsAgree
<1>9. \A t \in SUBSET U : g[t] \in Nat /\ \A y \in t : g[t] = f[y] + g[t \ {y}]
  <2>1. Sized(U, f, g)
    BY <1>5
  <2> HIDE DEF U, V, f, e
  <2> QED BY ONLY <2>1, SumsInAnyOrder
<1>10. g[V] <= g[U]
  <2>1. g[U] \in Nat /\ g[V] \in Nat
    BY <1>3, <1>9
  <2>2. CASE x \in U
    <3>1. g[U] = f[x] + g[V]
      BY <2>2, <1>3, <1>9
    <3>2. f[x] \in Nat
      BY <2>2, <1>5 DEF Sized
    <3> HIDE DEF U, V, f
    <3> QED BY <2>1, <3>1, <3>2
  <2>3. CASE x \notin U
    <3>1. V = U
      BY <2>3, <1>3
    <3> HIDE DEF U, V
    <3> QED BY <2>1, <3>1
  <2> QED BY <2>2, <2>3
<1>11. g[U] \in Nat /\ g[V] \in Nat /\ Quota \in Nat
  BY <1>3, <1>9 DEF StorageAssumption
<1>12. TotalChars(s)' <= Quota
  <2>1. g[U] <= Quota
    BY <1>1, <1>5
  <2>2. TotalChars(s)' = g[V]
    BY <1>6, <1>8
  <2> HIDE DEF U, V
  <2> QED BY <2>1, <2>2, <1>10, <1>11
<1> QED BY <1>4, <1>12

\* A write is let in or refused, a removal takes one row away, and no one else has a store to change.
LEMMA QuotaInvStep == StorageAssumption /\ StoreInv /\ QuotaInv /\ [Next]_vars => QuotaInv'
<1> SUFFICES ASSUME StorageAssumption, StoreInv, QuotaInv, [Next]_vars PROVE QuotaInv'
  OBVIOUS
<1>1. TypeOK'
  BY StoreInvStep DEF StoreInv
<1>2. ASSUME UNCHANGED kv PROVE QuotaInv'
  BY <1>1, <1>2, StoreElsewhere DEF QuotaInv
<1>3. ASSUME NEW v \in Viewer, Write(v) PROVE QuotaInv'
  <2> DEFINE r == request[v]
  <2>1. r \in Allowed /\ r.slug \in Slug /\ r.at \in Scope \X Key /\ r.entry \in Entry
    <3>1. r # NoRequest /\ r \in Allowed \union {NoRequest}
      BY <1>3 DEF Write, NoRequest, QuotaInv, TypeOK
    <3> QED BY <3>1 DEF Allowed
  <2>2. CASE ~WithinQuota(r.slug, r.at, r.entry.value)
    BY <1>2, <1>3, <2>2 DEF Write
  <2>3. CASE WithinQuota(r.slug, r.at, r.entry.value)
    <3>1. kv' = [kv EXCEPT ![r.slug][r.at] = r.entry]
      BY <1>3, <2>3 DEF Write
    <3>2. kv \in [Slug -> [Scope \X Key -> Entry \union {Absent}]]
      BY DEF QuotaInv, TypeOK
    <3>3. kv'[r.slug] = [kv[r.slug] EXCEPT ![r.at] = r.entry] /\ \A s \in Slug \ {r.slug} : kv'[s] = kv[s]
      <4> HIDE DEF r
      <4> QED BY <2>1, <3>1, <3>2
    <3>4. ASSUME NEW s \in Slug PROVE IsFiniteSet(Present(s))' /\ TotalChars(s)' <= Quota
      <4> HIDE DEF r
      <4>1. CASE s # r.slug
        BY <4>1, <3>3, StoreElsewhere
      <4>2. CASE s = r.slug /\ r.entry = Absent
        BY <4>2, <3>3, <2>1, <1>1, RowTaken
      <4>3. CASE s = r.slug /\ r.entry # Absent
        BY <4>3, <3>3, <2>1, <2>3, <1>1, RowWritten
      <4> QED BY <4>1, <4>2, <4>3
    <3> QED BY <1>1, <3>4 DEF QuotaInv
  <2> QED BY <2>2, <2>3
<1>4. ASSUME NEW v \in Viewer, Remove(v) PROVE QuotaInv'
  <2> DEFINE r == request[v]
  <2>1. r \in Allowed /\ r.slug \in Slug /\ r.at \in Scope \X Key
    <3>1. r # NoRequest /\ r \in Allowed \union {NoRequest}
      BY <1>4 DEF Remove, NoRequest, QuotaInv, TypeOK
    <3> QED BY <3>1 DEF Allowed
  <2>2. kv' = [kv EXCEPT ![r.slug][r.at] = Absent]
    BY <1>4 DEF Remove
  <2>3. kv \in [Slug -> [Scope \X Key -> Entry \union {Absent}]]
    BY DEF QuotaInv, TypeOK
  <2>4. kv'[r.slug] = [kv[r.slug] EXCEPT ![r.at] = Absent] /\ \A s \in Slug \ {r.slug} : kv'[s] = kv[s]
    <3> HIDE DEF r
    <3> QED BY <2>1, <2>2, <2>3
  <2>5. ASSUME NEW s \in Slug PROVE IsFiniteSet(Present(s))' /\ TotalChars(s)' <= Quota
    <3> HIDE DEF r
    <3>1. CASE s # r.slug
      BY <3>1, <2>4, StoreElsewhere
    <3>2. CASE s = r.slug
      BY <3>2, <2>4, <2>1, <1>1, RowTaken
    <3> QED BY <3>1, <3>2
  <2> QED BY <1>1, <2>5 DEF QuotaInv
<1>5. ASSUME Owner PROVE QuotaInv'
  BY <1>2, <1>5 DEF Owner, Admit, Refuse, ForgetApp, Appear
<1>6. ASSUME NEW v \in Viewer, NEW s \in Slug, NEW key \in Key, NEW value \in Value,
             NEW personal \in BOOLEAN, NEW op \in {"write", "remove"},
             Allow(v, s, op, key, value, personal)
      PROVE  QuotaInv'
  BY <1>2, <1>6 DEF Allow
<1>7. CASE UNCHANGED vars
  BY <1>2, <1>7 DEF vars
<1> QED BY <1>3, <1>4, <1>5, <1>6, <1>7 DEF Next, Api

\* A row that is replaced frees what it was counted for, so no more bytes than that always fit.
LEMMA QuotaInvSuffices == StorageAssumption /\ QuotaInv => QuotaHolds
<1> SUFFICES ASSUME StorageAssumption, QuotaInv PROVE QuotaHolds
  OBVIOUS
<1>1. TypeOK /\ \A s \in Slug : IsFiniteSet(Present(s)) /\ TotalChars(s) <= Quota
  BY DEF QuotaInv
<1>2. ASSUME NEW s \in Slug, NEW x \in Present(s), NEW value \in Value,
             Bytes[x[2]] + Bytes[value] <= RowChars(s, x)
      PROVE  WithinQuota(s, x, value)
  <2>1. PICK g : Sized(Present(s), CharsOf(s), g) /\ TotalChars(s) = g[Present(s)]
    BY <1>1, CharsAreASum
  <2>2. TotalChars(s) \in Nat
    <3>1. Present(s) \in SUBSET Present(s)
      OBVIOUS
    <3> QED BY <2>1, <3>1, SumsInAnyOrder
  <2>3. Bytes[x[2]] \in Nat /\ Chars[x[2]] \in Nat /\ Chars[kv[s][x].value] \in Nat
    BY <1>1, RowType
  <2>4. Bytes[value] \in Nat /\ Quota \in Nat
    BY DEF StorageAssumption
  <2>5. RowChars(s, x) \in Nat
    BY <2>3 DEF RowChars, Present
  <2> QED BY <1>1, <1>2, <2>2, <2>3, <2>4, <2>5 DEF WithinQuota
<1> QED BY <1>1, <1>2 DEF QuotaHolds

\* AppStore::set: whatever an app writes, removes or writes again, in whatever letters, and
\* whoever asks, what SQLite counts of its store never passes the quota, and a row can always
\* be replaced by one that has no more bytes than it was counted for.
THEOREM QuotaAlwaysHolds == Spec => []QuotaHolds
<1>1. Init => QuotaInv
  BY StorageAssumption, QuotaInvInit
<1>2. StoreInv /\ QuotaInv /\ [Next]_vars => QuotaInv'
  BY StorageAssumption, QuotaInvStep
<1>3. QuotaInv => QuotaHolds
  BY StorageAssumption, QuotaInvSuffices
<1> QED BY <1>1, <1>2, <1>3, StoreInvInit, StoreInvStep, PTL DEF Spec

-----------------------------------------------------------------------------
(* The pages.                                                              *)

\* A request is for the shared store only if its page had been told that the app is shared,
\* and otherwise for the device's own scope.
SentRightly ==
    \A i \in Call : call[i].step = "sent" =>
        IF call[i].scope = Common THEN call[i].mode = "synced"
                                  ELSE call[i].scope = PageOf[call[i].page]

Sent(b) == {i \in Call : call[i].step = "sent" /\ PageOf[call[i].page] = b}

Has(b, text) == \E corner \in Corner : kept[b][corner] = text

\* The copy of a device that has made one call at a time is what it has, or is on its way.
CopyOnItsWay ==
    \A b \in Browser \ unalike :
        /\ \A i, j \in Sent(b) : i = j
        /\ \A i \in Sent(b) : call[i].scope = b => Has(b, call[i].text)
        /\ (\A i \in Sent(b) : call[i].scope # b) => Has(b, copied[b].text)

PagesInv == PageTypeOK /\ PrivateIsNotShared /\ SentRightly /\ CopyOnItsWay

Asking   == [step : {"asking"}, page : Page, corner : Corner, text : Text \union {NoText}]
Answered == [step : {"answered"}, page : Page, corner : Corner, text : Text \union {NoText},
             settings : Settings]
Sending  == [step : {"sent"}, page : Page, text : Text \union {NoText},
             scope : Browser \union {Common}, mode : Mode]
Done     == [step : {"done"}, page : Page]

\* Pages that have asked for nothing.
LEMMA PageInvInit == PageInit => PagesInv
<1> SUFFICES ASSUME PageInit PROVE PagesInv
  OBVIOUS
<1> USE PageStorageAssumption
<1>1. call \in [Call -> CallType] /\ \A i \in Call : call[i].step = "unmade"
  BY DEF PageInit, NoCall, CallType
<1>2. /\ copied \in [Browser \union {Common} -> [text : Text, page : Page, mode : Mode] \union {NoCopy}]
      /\ \A x \in Browser \union {Common} : copied[x] = NoCopy
  BY DEF PageInit
<1>3. PageTypeOK
  BY <1>1, <1>2 DEF PageInit, PageTypeOK
<1>4. PrivateIsNotShared
  BY <1>2 DEF PrivateIsNotShared, NoCopy
<1>5. CopyOnItsWay
  BY <1>1, <1>2 DEF CopyOnItsWay, Sent, Has, PageInit, NoCopy, Corner
<1> QED BY <1>1, <1>3, <1>4, <1>5 DEF PagesInv, SentRightly

\* What a call comes to when it proceeds: done on the device alone, or a request.
Becomes(i, c, s, r) ==
    LET b == PageOf[c.page] IN
    /\ call' = [call EXCEPT ![i] = r]
    /\ r.page = c.page
    /\ b \notin unalike' => UnderWay(b) \ {i} = {}
    /\ unalike' \in {unalike, unalike \union {b}}
    /\ \/ /\ r \in Sending /\ r.scope = Common /\ r.mode = "synced"
          /\ UNCHANGED kept
       \/ /\ r \in Sending /\ r.scope = b /\ b \in unalike' /\ UNCHANGED kept
       \/ /\ r \in Sending /\ r.scope = b /\ r.text = c.text
          /\ kept' = [kept EXCEPT ![b][c.corner] = c.text]
       \/ /\ r \in Done /\ b \in unalike'
          /\ kept' = [kept EXCEPT ![b][c.corner] = c.text]

\* What a page does when it knows the settings, or has settled for its own device.
LEMMA ProceedBecomes ==
    ASSUME NEW i \in Call, NEW c, NEW s \in Settings, Proceed(i, c, s),
           c.page \in Page, c.corner \in Corner, c.text \in Text \union {NoText}
    PROVE  \E r : Becomes(i, c, s, r)
<1> USE PageStorageAssumption
<1> DEFINE b == PageOf[c.page]
           other == CHOOSE o \in Corner : o # c.corner
           Request(scope) == [step |-> "sent", page |-> c.page, text |-> c.text, scope |-> scope,
                              mode |-> s.mode]
           Reason(x) == unalike' = IF x \/ UnderWay(b) \ {i} # {} THEN unalike \union {b} ELSE unalike
<1>1. b \in Browser /\ s.mode \in {"synced", "per_device", "local"}
  BY DEF Settings, Mode, LocalOnly
<1>2. \A x : Reason(x) => /\ unalike' \in {unalike, unalike \union {b}}
                          /\ (b \notin unalike' => UnderWay(b) \ {i} = {})
                          /\ (x => b \in unalike')
  OBVIOUS
<1>3. CASE s.mode = "synced"
  <2>1. call' = [call EXCEPT ![i] = Request(IF c.corner = "personal" THEN b ELSE Common)]
        /\ UNCHANGED kept /\ Reason(c.corner = "personal")
    BY <1>3 DEF Proceed
  <2>2. s.mode \in Mode
    BY <1>3 DEF Mode
  <2>3. \A scope \in Browser \union {Common} : Request(scope) \in Sending
    BY <2>2 DEF Sending
  <2>4. CASE c.corner = "personal"
    <3>1. Becomes(i, c, s, Request(b))
      BY <1>1, <1>2, <2>1, <2>3, <2>4 DEF Becomes
    <3> QED BY <3>1
  <2>5. CASE c.corner # "personal"
    <3>1. Becomes(i, c, s, Request(Common))
      BY <1>1, <1>2, <1>3, <2>1, <2>3, <2>5 DEF Becomes
    <3> QED BY <3>1
  <2> QED BY <2>4, <2>5
<1>4. CASE s.mode # "synced" /\ s.backup /\ s.device
  <2>1. /\ kept' = [kept EXCEPT ![b][c.corner] = c.text]
        /\ call' = [call EXCEPT ![i] = Request(b)] /\ Reason(kept[b][other] # NoText)
    BY <1>4 DEF Proceed, CopyScope
  <2>2. s.mode \in Mode
    BY <1>4 DEF Settings, LocalOnly
  <2>3. Request(b) \in Sending
    BY <1>1, <2>2 DEF Sending
  <2>4. Becomes(i, c, s, Request(b))
    BY <1>2, <2>1, <2>3 DEF Becomes
  <2> QED BY <2>4
<1>5. CASE s.mode # "synced" /\ ~(s.backup /\ s.device)
  <2> DEFINE r == [step |-> "done", page |-> c.page]
  <2>1. /\ kept' = [kept EXCEPT ![b][c.corner] = c.text]
        /\ call' = [call EXCEPT ![i] = r] /\ Reason(TRUE)
    BY <1>5 DEF Proceed
  <2>2. r \in Done
    BY DEF Done
  <2>3. Becomes(i, c, s, r)
    BY <1>2, <2>1, <2>2 DEF Becomes
  <2> QED BY <2>3
<1> QED BY <1>3, <1>4, <1>5

\* It shares nothing private, and sends its copy where one is promised.
LEMMA ProceedKeeps ==
    ASSUME PagesInv, NEW i \in Call, NEW c, NEW s \in Settings, Proceed(i, c, s),
           c.page \in Page, c.corner \in Corner, c.text \in Text \union {NoText},
           call[i].step # "sent", UNCHANGED copied
    PROVE  /\ call' \in [Call -> CallType] /\ kept' \in [Browser -> [Corner -> Text \union {NoText}]]
           /\ unalike' \subseteq Browser /\ SentRightly' /\ CopyOnItsWay'
<1> USE PageStorageAssumption
<1> DEFINE b == PageOf[c.page]
<1>1. PICK r : Becomes(i, c, s, r)
  BY ProceedBecomes
<1>2. /\ call \in [Call -> CallType] /\ kept \in [Browser -> [Corner -> Text \union {NoText}]]
      /\ unalike \subseteq Browser /\ b \in Browser
  BY DEF PagesInv, PageTypeOK
<1>3. /\ call' = [call EXCEPT ![i] = r] /\ r.page = c.page
      /\ r \in Sending \union Done
      /\ unalike' \in {unalike, unalike \union {b}}
      /\ b \notin unalike' => UnderWay(b) \ {i} = {}
  BY <1>1 DEF Becomes
<1>4. \A j \in Call : call'[j] = IF j = i THEN r ELSE call[j]
  BY <1>2, <1>3
<1>5. call' \in [Call -> CallType]
  <2>1. r \in CallType
    BY <1>3 DEF CallType, Sending, Done
  <2> QED BY <1>2, <1>3, <2>1
<1>6. /\ kept' \in [Browser -> [Corner -> Text \union {NoText}]]
      /\ \A d \in Browser \ {b} : kept'[d] = kept[d]
  <2>1. CASE UNCHANGED kept
    BY <1>2, <2>1
  <2>2. CASE kept' = [kept EXCEPT ![b][c.corner] = c.text]
    <3>1. [kept[b] EXCEPT ![c.corner] = c.text] \in [Corner -> Text \union {NoText}]
      BY <1>2
    <3> QED BY <1>2, <2>2, <3>1
  <2> QED BY <1>1, <2>1, <2>2 DEF Becomes
<1>7. r.step = "sent" => IF r.scope = Common THEN r.mode = "synced" ELSE r.scope = b
  BY <1>1 DEF Becomes, Done
<1>8. SentRightly'
  BY <1>3, <1>4, <1>7 DEF PagesInv, SentRightly
<1>9. ASSUME NEW d \in Browser, d \notin unalike', d # b
      PROVE  /\ Sent(d)' = Sent(d) /\ \A text : Has(d, text) => Has(d, text)'
             /\ d \notin unalike /\ \A j \in Sent(d) : call'[j] = call[j]
  BY <1>3, <1>4, <1>6, <1>9 DEF Sent, Has
<1>10. ASSUME b \notin unalike'
       PROVE  /\ Sent(b)' \subseteq {i} /\ b \notin unalike /\ Has(b, copied[b].text)
              /\ i \in Sent(b)' => r.step = "sent"
  <2>1. Sent(b) = {}
    <3>1. \A j \in Sent(b) : call[j].page # NoPage
      BY <1>2, PageStorageAssumption DEF Sent, CallType, NoCall
    <3>2. Sent(b) \subseteq UnderWay(b) \ {i}
      BY <3>1 DEF Sent, UnderWay
    <3> QED BY <1>3, <1>10, <3>2
  <2>2. b \notin unalike
    BY <1>3, <1>10
  <2> QED BY <1>2, <1>4, <2>1, <2>2 DEF PagesInv, CopyOnItsWay, Sent
<1>11. ASSUME b \notin unalike'
       PROVE  /\ i \in Sent(b)' /\ r.scope = b => Has(b, r.text)'
              /\ ~(i \in Sent(b)' /\ r.scope = b) => Has(b, copied[b].text)'
  <2>1. CASE r \in Sending /\ r.scope = Common /\ UNCHANGED kept
    BY <1>2, <1>10, <1>11, <2>1 DEF Has
  <2>2. CASE r \in Sending /\ r.scope = b /\ r.text = c.text
             /\ kept' = [kept EXCEPT ![b][c.corner] = c.text]
    <3>1. kept'[b][c.corner] = r.text
      BY <1>2, <2>2
    <3>2. r.step = "sent" /\ i \in Sent(b)'
      BY <1>3, <1>4, <2>2 DEF Sending, Sent
    <3> QED BY <2>2, <3>1, <3>2 DEF Has
  <2> QED BY <1>1, <1>11, <2>1, <2>2 DEF Becomes
<1>12. CopyOnItsWay'
  <2> SUFFICES ASSUME NEW d \in Browser, d \notin unalike'
               PROVE  /\ \A j, k \in Sent(d)' : j = k
                      /\ \A j \in Sent(d)' : call'[j].scope = d => Has(d, call[j].text)'
                      /\ (\A j \in Sent(d)' : call'[j].scope # d) => Has(d, copied[d].text)'
    BY DEF CopyOnItsWay
  <2>1. CASE d # b
    BY <1>9, <2>1 DEF PagesInv, CopyOnItsWay
  <2>2. CASE d = b
    BY <1>4, <1>10, <1>11, <2>2
  <2> QED BY <2>1, <2>2
<1> QED BY <1>3, <1>5, <1>6, <1>8, <1>12, <1>2

\* A call that is not a request, before or after, leaves what is on its way alone.
LEMMA NothingSent ==
    ASSUME PagesInv, call' \in [Call -> CallType], UNCHANGED <<kept, copied, unalike>>,
           \A i \in Call : call'[i] = call[i] \/ (call[i].step # "sent" /\ call'[i].step # "sent")
    PROVE  SentRightly' /\ CopyOnItsWay'
<1>1. \A d \in Browser : Sent(d)' = Sent(d) /\ \A i \in Sent(d) : call'[i] = call[i]
  BY DEF Sent
<1>2. \A d \in Browser : \A text : Has(d, text)' = Has(d, text)
  BY DEF Has
<1>3. CopyOnItsWay'
  BY <1>1, <1>2 DEF PagesInv, CopyOnItsWay
<1>4. SentRightly'
  BY DEF PagesInv, SentRightly
<1> QED BY <1>3, <1>4

\* The same of every step of every page, the daemon and the owner.
LEMMA PagesInvStep == PagesInv /\ [PageNext]_pageVars => PagesInv'
<1> SUFFICES ASSUME PagesInv, [PageNext]_pageVars PROVE PagesInv'
  OBVIOUS
<1> USE PageStorageAssumption
<1>0. /\ PageTypeOK /\ PrivateIsNotShared /\ SentRightly /\ CopyOnItsWay
      /\ call \in [Call -> CallType] /\ kept \in [Browser -> [Corner -> Text \union {NoText}]]
      /\ manifest \in [mode : Mode, backup : BOOLEAN] /\ unalike \subseteq Browser
      /\ settled \in [Page -> Settings \union {NoSettings}] /\ paired \subseteq Browser
      /\ copied \in [Browser \union {Common} -> [text : Text, page : Page, mode : Mode] \union {NoCopy}]
      /\ switches \in 0..MaxSwitches /\ reloads \in 0..MaxReloads
  BY DEF PagesInv, PageTypeOK
<1>1. ASSUME NEW i \in Call, NEW p \in Page, NEW corner \in Corner, NEW text \in Text \union {NoText},
             SetKey(i, p, corner, text)
      PROVE  PagesInv'
  <2> DEFINE c == [step |-> "asking", page |-> p, corner |-> corner, text |-> text]
  <2>1. call[i].step = "unmade" /\ UNCHANGED <<manifest, paired, settled, copied, switches, reloads>>
    BY <1>1 DEF SetKey, NoCall
  <2>2. /\ call' \in [Call -> CallType] /\ kept' \in [Browser -> [Corner -> Text \union {NoText}]]
        /\ unalike' \subseteq Browser /\ SentRightly' /\ CopyOnItsWay'
    <3>1. CASE settled[p] = NoSettings
      <4>1. call' = [call EXCEPT ![i] = c] /\ UNCHANGED <<kept, unalike>>
        BY <1>1, <3>1 DEF SetKey
      <4>2. c \in CallType
        BY DEF CallType
      <4>3. call' \in [Call -> CallType]
        BY <1>0, <4>1, <4>2
      <4>4. \A j \in Call : call'[j] = call[j] \/ (call[j].step # "sent" /\ call'[j].step # "sent")
        BY <1>0, <2>1, <4>1
      <4> QED BY <1>0, <2>1, <4>1, <4>3, <4>4, NothingSent
    <3>2. CASE settled[p] # NoSettings
      <4>1. Proceed(i, c, settled[p]) /\ settled[p] \in Settings
        BY <1>0, <1>1, <3>2 DEF SetKey
      <4>2. c.page \in Page /\ c.corner \in Corner /\ c.text \in Text \union {NoText}
        OBVIOUS
      <4> HIDE DEF c
      <4> QED BY <2>1, <4>1, <4>2, ProceedKeeps
    <3> QED BY <3>1, <3>2
  <2> QED BY <1>0, <2>1, <2>2 DEF PagesInv, PageTypeOK, PrivateIsNotShared, CallType
<1>2. ASSUME NEW i \in Call, ConfigServed(i) PROVE PagesInv'
  <2>1. UNCHANGED <<manifest, paired, settled, kept, copied, unalike, switches, reloads>>
    BY <1>2 DEF ConfigServed
  <2>2. call[i] \in Asking
    BY <1>0, <1>2 DEF ConfigServed, CallType, NoCall, Asking
  <2>3. PICK s \in Settings : call' = [call EXCEPT ![i] =
            [step |-> "answered", page |-> call[i].page, corner |-> call[i].corner,
             text |-> call[i].text, settings |-> s]]
    <3>1. [mode |-> manifest.mode, backup |-> manifest.backup,
           device |-> PageOf[call[i].page] \in paired] \in Settings
      <4>1. (PageOf[call[i].page] \in paired) \in BOOLEAN
        OBVIOUS
      <4>2. manifest.mode \in Mode /\ manifest.backup \in BOOLEAN
        BY <1>0
      <4> HIDE DEF Mode
      <4> QED BY <4>1, <4>2 DEF Settings
    <3>2. LocalOnly \in Settings
      BY DEF Settings
    <3> QED BY <1>2, <3>1, <3>2 DEF ConfigServed
  <2>4. call' \in [Call -> CallType]
    <3>1. [step |-> "answered", page |-> call[i].page, corner |-> call[i].corner,
           text |-> call[i].text, settings |-> s] \in CallType
      BY <2>2 DEF CallType, Asking
    <3> QED BY <1>0, <2>3, <3>1
  <2>5. \A j \in Call : call'[j] = call[j] \/ (call[j].step # "sent" /\ call'[j].step # "sent")
    BY <1>0, <2>2, <2>3 DEF Asking
  <2>6. SentRightly' /\ CopyOnItsWay'
    BY <2>1, <2>4, <2>5, NothingSent
  <2> QED BY <1>0, <2>1, <2>4, <2>6 DEF PagesInv, PageTypeOK, PrivateIsNotShared, CallType
<1>3. ASSUME NEW i \in Call, ConfigHeard(i) PROVE PagesInv'
  <2>1. UNCHANGED <<manifest, paired, copied, switches, reloads>>
        /\ settled' = [settled EXCEPT ![call[i].page] = call[i].settings]
        /\ Proceed(i, call[i], call[i].settings)
    BY <1>3 DEF ConfigHeard
  <2>2. call[i] \in Answered
    BY <1>0, <1>3 DEF ConfigHeard, CallType, NoCall, Answered
  <2>3. /\ call[i].page \in Page /\ call[i].corner \in Corner /\ call[i].text \in Text \union {NoText}
        /\ call[i].settings \in Settings /\ call[i].step # "sent"
    BY <2>2 DEF Answered
  <2>4. /\ call' \in [Call -> CallType] /\ kept' \in [Browser -> [Corner -> Text \union {NoText}]]
        /\ unalike' \subseteq Browser /\ SentRightly' /\ CopyOnItsWay'
    BY <2>1, <2>3, ProceedKeeps
  <2>5. settled' \in [Page -> Settings \union {NoSettings}]
    BY <1>0, <2>1, <2>3
  <2> QED BY <1>0, <2>1, <2>4, <2>5 DEF PagesInv, PageTypeOK, PrivateIsNotShared, CallType
<1>4. ASSUME NEW i \in Call, RequestServed(i) PROVE PagesInv'
  <2> DEFINE c == call[i]
             new == IF c.text = NoText THEN NoCopy
                    ELSE [text |-> c.text, page |-> c.page, mode |-> c.mode]
  <2>1. /\ c.step = "sent" /\ copied' = [copied EXCEPT ![c.scope] = new]
        /\ call' = [call EXCEPT ![i] = [step |-> "done", page |-> c.page]]
        /\ UNCHANGED <<manifest, paired, settled, kept, unalike, switches, reloads>>
    BY <1>4 DEF RequestServed
  <2>2. /\ c \in Sending /\ c.page \in Page /\ c.scope \in Browser \union {Common}
        /\ c.text \in Text \union {NoText} /\ c.mode \in Mode
    BY <1>0, <2>1 DEF CallType, NoCall, Sending
  <2>3. IF c.scope = Common THEN c.mode = "synced" ELSE c.scope = PageOf[c.page]
    BY <1>0, <2>1 DEF SentRightly
  <2>4. call' \in [Call -> CallType]
    <3>1. [step |-> "done", page |-> c.page] \in CallType
      BY <2>2 DEF CallType
    <3> QED BY <1>0, <2>1, <3>1
  <2>5. new \in [text : Text, page : Page, mode : Mode] \union {NoCopy} /\ new.text = c.text
    BY <2>2 DEF NoCopy
  <2>6. copied' \in [Browser \union {Common} -> [text : Text, page : Page, mode : Mode] \union {NoCopy}]
    BY <1>0, <2>1, <2>5
  <2>7. \A x \in Browser \union {Common} : copied'[x] = IF x = c.scope THEN new ELSE copied[x]
    BY <1>0, <2>1
  <2>8. PrivateIsNotShared'
    <3>1. copied'[Common].mode = "synced"
      BY <1>0, <2>3, <2>7 DEF PrivateIsNotShared, NoCopy
    <3>2. ASSUME NEW d \in Browser, copied'[d] # NoCopy PROVE PageOf[copied'[d].page] = d
      <4>1. CASE d = c.scope
        BY <2>3, <2>7, <3>2, <4>1
      <4>2. CASE d # c.scope
        BY <1>0, <2>7, <3>2, <4>2 DEF PrivateIsNotShared
      <4> QED BY <4>1, <4>2
    <3> QED BY <3>1, <3>2 DEF PrivateIsNotShared
  <2>9. \A j \in Call : call'[j] = IF j = i THEN [step |-> "done", page |-> c.page] ELSE call[j]
    BY <1>0, <2>1
  <2>10. SentRightly'
    BY <1>0, <2>9 DEF SentRightly
  <2>11. CopyOnItsWay'
    <3> SUFFICES ASSUME NEW d \in Browser, d \notin unalike
                 PROVE  /\ \A j, k \in Sent(d)' : j = k
                        /\ \A j \in Sent(d)' : call'[j].scope = d => Has(d, call[j].text)'
                        /\ (\A j \in Sent(d)' : call'[j].scope # d) => Has(d, copied[d].text)'
      BY <2>1 DEF CopyOnItsWay
    <3>1. Sent(d)' = Sent(d) \ {i} /\ \A j \in Sent(d)' : call'[j] = call[j]
      BY <2>9 DEF Sent
    <3>2. \A text : Has(d, text)' = Has(d, text)
      BY <2>1 DEF Has
    <3>3. /\ \A j, k \in Sent(d) : j = k
          /\ \A j \in Sent(d) : call[j].scope = d => Has(d, call[j].text)
          /\ (\A j \in Sent(d) : call[j].scope # d) => Has(d, copied[d].text)
      BY <1>0 DEF CopyOnItsWay
    <3>4. CASE c.scope = d
      <4>1. i \in Sent(d) /\ Has(d, c.text)
        BY <2>1, <2>3, <3>3, <3>4 DEF Sent
      <4>2. copied'[d].text = c.text
        BY <2>5, <2>7, <3>4
      <4> QED BY <3>1, <3>2, <3>3, <4>1, <4>2
    <3>5. CASE c.scope # d
      <4>1. copied'[d] = copied[d]
        BY <2>7, <3>5
      <4> QED BY <3>1, <3>2, <3>3, <3>5, <4>1
    <3> QED BY <3>4, <3>5
  <2> HIDE DEF c, new
  <2> QED BY <1>0, <2>1, <2>4, <2>6, <2>8, <2>10, <2>11 DEF PagesInv, PageTypeOK, CallType, NoCopy
<1>5. ASSUME NEW i \in Call, RequestFails(i) PROVE PagesInv'
  <2>1. /\ call[i].step = "sent" /\ call' = [call EXCEPT ![i] = [step |-> "done", page |-> call[i].page]]
        /\ unalike' = unalike \union {PageOf[call[i].page]}
        /\ UNCHANGED <<manifest, paired, settled, kept, copied, switches, reloads>>
    BY <1>5 DEF RequestFails
  <2>2. call[i].page \in Page
    BY <1>0, <2>1 DEF CallType, NoCall
  <2>3. call' \in [Call -> CallType] /\ unalike' \subseteq Browser
    BY <1>0, <2>1, <2>2 DEF CallType
  <2>4. SentRightly'
    BY <1>0, <2>1 DEF SentRightly
  <2>5. \A d \in Browser \ unalike' : Sent(d)' = Sent(d) /\ \A j \in Sent(d) : call'[j] = call[j]
    BY <1>0, <2>1 DEF Sent
  <2>6. \A d \in Browser : \A text : Has(d, text)' = Has(d, text)
    BY <2>1 DEF Has
  <2>7. CopyOnItsWay'
    BY <1>0, <2>1, <2>5, <2>6 DEF CopyOnItsWay
  <2> QED BY <1>0, <2>1, <2>3, <2>4, <2>7 DEF PagesInv, PageTypeOK, PrivateIsNotShared, CallType
<1>6. ASSUME NEW p \in Page, Reload(p) PROVE PagesInv'
  <2>1. /\ settled' = [settled EXCEPT ![p] = NoSettings] /\ reloads < MaxReloads /\ reloads' = reloads + 1
        /\ call' = [i \in Call |-> IF call[i].page = p /\ call[i].step \in {"asking", "answered"}
                                   THEN [step |-> "done", page |-> p] ELSE call[i]]
        /\ UNCHANGED <<manifest, paired, kept, copied, unalike, switches>>
    BY <1>6 DEF Reload
  <2>2. call' \in [Call -> CallType]
    <3>1. [step |-> "done", page |-> p] \in CallType
      BY DEF CallType
    <3> QED BY <1>0, <2>1, <3>1
  <2>3. \A j \in Call : call'[j] = call[j] \/ (call[j].step # "sent" /\ call'[j].step # "sent")
    BY <2>1
  <2>4. SentRightly' /\ CopyOnItsWay'
    BY <2>1, <2>2, <2>3, NothingSent
  <2> QED BY <1>0, <2>1, <2>2, <2>4 DEF PagesInv, PageTypeOK, PrivateIsNotShared, CallType
<1>7. ASSUME SetMode PROVE PagesInv'
  <2>1. UNCHANGED <<settled, storeVars, reloads>> /\ switches' \in 0..MaxSwitches
    BY <1>0, <1>7 DEF SetMode
  <2>2. manifest' \in [mode : Mode, backup : BOOLEAN] /\ paired' \subseteq Browser
    BY <1>0, <1>7 DEF SetMode
  <2>3. SentRightly' /\ CopyOnItsWay'
    BY <1>0, <2>1, NothingSent DEF storeVars
  <2> QED BY <1>0, <2>1, <2>2, <2>3 DEF storeVars, PagesInv, PageTypeOK, PrivateIsNotShared, CallType
<1>8. ASSUME UNCHANGED pageVars PROVE PagesInv'
  <2>1. UNCHANGED <<manifest, paired, settled, kept, copied, call, unalike, switches, reloads>>
    BY <1>8 DEF pageVars, storeVars
  <2>2. SentRightly' /\ CopyOnItsWay'
    BY <1>0, <2>1, NothingSent
  <2> QED BY <1>0, <2>1, <2>2 DEF PagesInv, PageTypeOK, PrivateIsNotShared, CallType
<1> QED BY <1>1, <1>2, <1>3, <1>4, <1>5, <1>6, <1>7, <1>8 DEF PageNext, PageActs

\* storage.rs: nothing may "put one person's private notes into everybody's shared store",
\* and "each write is copied to the daemon afterwards when the owner has backup on".
\* However the requests of however many pages are served, fail and are answered, and
\* whatever the owner switches meanwhile.
THEOREM PagesAlwaysKeepTheirWord == PageSpec => []PagesKeepTheirWord
<1>1. PagesInv => PagesKeepTheirWord
  <2> SUFFICES ASSUME PagesInv, NEW b \in Browser \ unalike, UnderWay(b) = {}
               PROVE  Has(b, copied[b].text)
    BY DEF PagesInv, PagesKeepTheirWord, CopyIsKept, Has
  <2>1. \A i \in Sent(b) : call[i].page # NoPage
    BY PageStorageAssumption DEF PagesInv, PageTypeOK, Sent, CallType, NoCall
  <2>2. Sent(b) = {}
    BY <2>1 DEF Sent, UnderWay
  <2> QED BY <2>2 DEF PagesInv, CopyOnItsWay
<1> QED BY <1>1, PageInvInit, PagesInvStep, PTL DEF PageSpec
=============================================================================
