--------------------------- MODULE AddressesProofs ---------------------------
(***************************************************************************)
(* What holds of the names apps go by for any number of folders, clients,    *)
(* labels, objections and rescans that overlap, and of asking the network    *)
(* for one of those names.                                                  *)
(***************************************************************************)
EXTENDS Addresses, Discovery, FiniteSetTheorems, SequenceTheorems, WellFoundedInduction, TLAPS

Manifest == [slug : Name \union {NoName}, label : Name \union {NoName}]
Step == {"idle", "write", "scan", "take", "install"}
ThreadState == [step : Step, folder : Folder \union {NoFolder}, label : Name \union {NoName},
                records : Seq(Record), previous : SUBSET Placement]

AddressTypes ==
    /\ DOMAIN disk \subseteq Folder /\ IsFiniteSet(DOMAIN disk)
    /\ disk \in [DOMAIN disk -> Manifest]
    /\ watched \in BOOLEAN /\ dirty \in BOOLEAN /\ handle \in Handle \union {NoName}
    /\ library \subseteq Placement
    /\ claimed \in [Announcer -> SUBSET Name] /\ conflicts \in [Announcer -> SUBSET Name]
    /\ \A a \in Announcer : IsFiniteSet(claimed[a]) /\ conflicts[a] \subseteq claimed[a]
    /\ thread \in [Thread -> ThreadState]
    /\ excuses \subseteq {"slug", "label"}
    /\ hands \in 0 .. MaxHands /\ commands \in 0 .. MaxCommands

\* Everything that was announced is claimed of its announcer, and by one slug.
Held == library \union UNION {thread[t].previous : t \in Thread}
OneEach(entries) == \A e, d \in entries : e.slug = d.slug => e = d
NamesAreClaimed == \A e \in Held : e.host = NoName \/ e.host \in claimed[e.by]

HostsInv == AddressTypes /\ OneEach(library) /\ NamesAreClaimed /\ HostsApart

\* What the manifests say, and what the library says of the same folders.
Filed == {[folder |-> f, slug |-> disk[f].slug, label |-> disk[f].label] : f \in OnDisk}
Bound(entries) == {[folder |-> e.folder, slug |-> e.slug, label |-> e.label] : e \in entries}

Busy(t) == thread[t].step # "idle"
Scanning(t) == thread[t].step = "scan"
Holding(t) == thread[t].step \in {"take", "install"}

\* While nothing is excused, whoever is at work is so alone, but for a watcher that is about to scan.
OneAtWork ==
    excuses = {} => \A t, u \in Thread : Busy(t) /\ Busy(u) /\ t # u =>
                      Watcher \in {t, u} /\ Scanning(Watcher)

\* And a label that is about to be written is nobody's.
LabelIsFree ==
    excuses = {} => \A c \in Client : thread[c].step = "write" =>
        /\ thread[c].label # NoName
        /\ \A f \in OnDisk : f # thread[c].folder => Effective(disk[f]) # thread[c].label

\* Records that list all that is filed, and perhaps folders that went before the watch began,
\* each under a slug and a label of its own.
ListsAll(records, filed) ==
    /\ filed \subseteq records
    /\ \A r, q \in records : r.slug = q.slug \/ Effective(r) = Effective(q) => r = q

\* And when the watcher has nothing to wake up for and nobody is about to scan, the library,
\* or the records about to be put in its place, list what is on the disk.
LibraryIsFiled ==
    excuses = {} /\ ~dirty /\ (\A t \in Thread : ~Scanning(t)) =>
        /\ \A t \in Thread : Holding(t) => ListsAll(Range(thread[t].records), Filed)
        /\ (\A t \in Thread : ~Holding(t)) => ListsAll(Bound(library), Filed)

LabelsInv == SlugsApart /\ LabelsApart /\ OneAtWork /\ LabelIsFree /\ LibraryIsFiled

AddressInv == HostsInv /\ LabelsInv

-----------------------------------------------------------------------------
(* Names that are free, and folds.                                         *)

\* Any set of natural numbers that is not empty has a least one.
LEMMA LeastOf == ASSUME NEW T, T \subseteq Nat, T # {} PROVE \E x \in T : \A y \in T : x <= y
<1> DEFINE R == {ss \in Nat \X Nat : ss[1] < ss[2]}
<1>1. IsWellFoundedOn(R, Nat)
  BY NatLessThanWellFounded DEF OpToRel
<1>2. \E x \in T : \A y \in T : ~ (<<y, x>> \in R)
  <2> HIDE DEF R
  <2> QED BY <1>1, WFMin
<1>3. \A x \in Nat, y \in Nat : y < x => <<y, x>> \in R
  OBVIOUS
<1>4. \A x \in Nat, y \in Nat : <<y, x>> \notin R => x <= y
  <2> HIDE DEF R
  <2> QED BY <1>3
<1> HIDE DEF R
<1> QED BY <1>2, <1>4

\* slug::deduplicate and BonjourAnnouncer::announce: a name is found that nobody has.
LEMMA FirstFreeIsFree ==
    ASSUME NEW name \in Name, NEW used, IsFiniteSet(used)
    PROVE  FirstFree(name, used) \in Name /\ FirstFree(name, used) \notin used
<1> DEFINE C == Cardinality(used)
           Free(n) == Append(name, n) \notin used
           Choice(n) == Free(n) /\ \A k \in 2 .. n - 1 : Append(name, k) \in used
<1>1. CASE name \notin used
  BY <1>1 DEF FirstFree
<1>2. CASE name \in used
  <2>1. C \in Nat
    BY FS_CardinalityType
  <2>2. name \in Seq(Nat)
    BY DEF Name
  <2>3. \A n \in Nat : Append(name, n) \in Name
    BY <2>2 DEF Name
  <2>4. \E n \in 2 .. C + 2 : Free(n)
    <3> SUFFICES ASSUME \A n \in 2 .. C + 2 : ~Free(n) PROVE FALSE
      OBVIOUS
    <3> DEFINE h == [n \in 2 .. C + 2 |-> Append(name, n)]
    <3>1. \A m, n \in 2 .. C + 2 : h[m] = h[n] => m = n
      <4> SUFFICES ASSUME NEW m \in 2 .. C + 2, NEW n \in 2 .. C + 2, h[m] = h[n] PROVE m = n
        OBVIOUS
      <4>1. m \in Nat /\ n \in Nat
        BY <2>1
      <4>2. Append(name, m)[Len(name) + 1] = m /\ Append(name, n)[Len(name) + 1] = n
        BY <2>2, <4>1
      <4> QED BY <4>2
    <3>2. h \in Injection(2 .. C + 2, used)
      <4>1. h \in [2 .. C + 2 -> used]
        OBVIOUS
      <4> HIDE DEF h, C
      <4> QED BY <3>1, <4>1 DEF Injection, IsInjective
    <3>3. Cardinality(2 .. C + 2) <= C
      BY <3>2, FS_Injection
    <3>4. Cardinality(2 .. C + 2) = C + 1
      <4> HIDE DEF C
      <4>1. 2 \in Int /\ C + 2 \in Int
        BY <2>1
      <4>2. Cardinality(2 .. C + 2) = IF 2 > C + 2 THEN 0 ELSE (C + 2) - 2 + 1
        BY <4>1, FS_Interval
      <4> QED BY <4>2, <2>1
    <3> HIDE DEF C
    <3> QED BY <2>1, <3>3, <3>4
  <2>5. \E n \in 2 .. C + 2 : Choice(n)
    <3> DEFINE T == {n \in 2 .. C + 2 : Free(n)}
    <3>1. T \subseteq Nat /\ T # {}
      BY <2>1, <2>4
    <3>2. PICK n \in T : \A m \in T : n <= m
      <4> HIDE DEF T
      <4> QED BY <3>1, LeastOf
    <3>3. ASSUME NEW k \in 2 .. n - 1 PROVE Append(name, k) \in used
      <4>1. k \in 2 .. C + 2 /\ ~(n <= k)
        <5> HIDE DEF C
        <5> QED BY <2>1, <3>2
      <4> QED BY <3>2, <4>1
    <3> QED BY <3>2, <3>3
  <2>6. (CHOOSE n \in 2 .. C + 2 : Choice(n)) \in 2 .. C + 2 /\ Choice(CHOOSE n \in 2 .. C + 2 : Choice(n))
    <3> HIDE DEF Choice, C
    <3> QED BY <2>5
  <2>7. FirstFree(name, used) = Append(name, CHOOSE n \in 2 .. C + 2 : Choice(n))
    BY <1>2 DEF FirstFree
  <2>8. 2 .. C + 2 \subseteq Nat
    BY <2>1
  <2> QED BY <2>3, <2>6, <2>7, <2>8
<1> QED BY <1>1, <1>2

-----------------------------------------------------------------------------
\* g has, for each set of a family, what comes of taking its elements as pick has them.
Folded(g, F, base, pick, family) ==
    g = [t \in family |-> IF t = {} THEN base ELSE F[<<g[t \ {pick[t]}], pick[t]>>]]

\* A step takes what there is so far and one element more, and each set has one that is taken first.
Foldable(F, base, pick, D, W) ==
    /\ IsFiniteSet(D) /\ base \in W
    /\ F \in [W \X D -> W]
    /\ \A t \in SUBSET D : t # {} => pick[t] \in t

\* So there is a fold over all its subsets, of every size.
LEMMA FoldExists ==
    ASSUME NEW F, NEW base, NEW pick, NEW D, NEW W, Foldable(F, base, pick, D, W)
    PROVE  \E g \in [SUBSET D -> W] : Folded(g, F, base, pick, SUBSET D)
<1> DEFINE Small(n) == {t \in SUBSET D : Cardinality(t) <= n}
           Good(n) == \E g \in [Small(n) -> W] : Folded(g, F, base, pick, Small(n))
           Bad == {n \in Nat : ~Good(n)}
<1>0. /\ IsFiniteSet(D) /\ base \in W
      /\ \A w \in W, x \in D : F[<<w, x>>] \in W
      /\ \A t \in SUBSET D : t # {} => pick[t] \in t
  BY DEF Foldable
<1>1. \A t \in SUBSET D : IsFiniteSet(t) /\ Cardinality(t) \in Nat /\ Cardinality(t) <= Cardinality(D)
  BY <1>0, FS_Subset, FS_CardinalityType
<1>2. Cardinality(D) \in Nat
  BY <1>0, FS_CardinalityType
<1>3. ASSUME Bad # {} PROVE FALSE
  <2>1. PICK n \in Bad : \A m \in Bad : n <= m
    <3>1. Bad \subseteq Nat
      OBVIOUS
    <3> HIDE DEF Bad
    <3> QED BY <1>3, <3>1, LeastOf
  <2>2. n # 0
    <3> SUFFICES ASSUME n = 0 PROVE FALSE
      OBVIOUS
    <3>1. \A t \in Small(0) : t = {}
      BY <1>1, FS_EmptySet
    <3> DEFINE g == [t \in Small(0) |-> base]
    <3>2. Folded(g, F, base, pick, Small(0)) /\ g \in [Small(0) -> W]
      BY <1>0, <3>1 DEF Folded
    <3> QED BY <3>2
  <2>n. n \in Nat
    BY <2>1
  <2>3. n - 1 \in Nat /\ n - 1 \notin Bad
    <3> HIDE DEF Bad
    <3> QED BY <2>1, <2>2, <2>n
  <2>4. PICK g \in [Small(n - 1) -> W] : Folded(g, F, base, pick, Small(n - 1))
    BY <2>3
  <2> DEFINE h == [t \in Small(n) |-> IF t = {} THEN base ELSE F[<<g[t \ {pick[t]}], pick[t]>>]]
  <2>5. \A t \in Small(n) : t # {} => t \ {pick[t]} \in Small(n - 1) /\ pick[t] \in D
    <3> SUFFICES ASSUME NEW t \in Small(n), t # {} PROVE t \ {pick[t]} \in Small(n - 1) /\ pick[t] \in D
      OBVIOUS
    <3>1. pick[t] \in t /\ IsFiniteSet(t) /\ Cardinality(t) <= n /\ Cardinality(t) \in Nat
      BY <1>0, <1>1
    <3>2. Cardinality(t \ {pick[t]}) = Cardinality(t) - 1
      BY <3>1, FS_RemoveElement
    <3> QED BY <3>1, <3>2, <2>n
  <2>6. \A t \in Small(n - 1) : t \in Small(n) /\ h[t] = g[t]
    <3> SUFFICES ASSUME NEW t \in Small(n - 1) PROVE t \in Small(n) /\ h[t] = g[t]
      OBVIOUS
    <3>1. t \in Small(n)
      BY <1>1, <2>n
    <3>2. g[t] = IF t = {} THEN base ELSE F[<<g[t \ {pick[t]}], pick[t]>>]
      <4> HIDE DEF Small
      <4> QED BY <2>4 DEF Folded
    <3>3. h[t] = IF t = {} THEN base ELSE F[<<g[t \ {pick[t]}], pick[t]>>]
      <4> HIDE DEF Small
      <4> QED BY <3>1
    <3> QED BY <3>1, <3>2, <3>3
  <2>7. h \in [Small(n) -> W]
    <3> SUFFICES ASSUME NEW t \in Small(n)
                 PROVE  (IF t = {} THEN base ELSE F[<<g[t \ {pick[t]}], pick[t]>>]) \in W
      <4> HIDE DEF Small
      <4> QED OBVIOUS
    <3>1. CASE t = {}
      BY <1>0, <3>1
    <3>2. CASE t # {}
      <4>1. g[t \ {pick[t]}] \in W
        <5> HIDE DEF Small
        <5> QED BY <2>4, <2>5, <3>2
      <4> HIDE DEF Small
      <4> QED BY <1>0, <2>5, <3>2, <4>1
    <3> QED BY <3>1, <3>2
  <2>8. Folded(h, F, base, pick, Small(n))
    <3>1. \A t \in Small(n) : (IF t = {} THEN base ELSE F[<<g[t \ {pick[t]}], pick[t]>>])
                            = (IF t = {} THEN base ELSE F[<<h[t \ {pick[t]}], pick[t]>>])
      <4> HIDE DEF Small, h
      <4> QED BY <2>5, <2>6
    <3>2. h = [t \in Small(n) |-> IF t = {} THEN base ELSE F[<<g[t \ {pick[t]}], pick[t]>>]]
      OBVIOUS
    <3>3. h = [t \in Small(n) |-> IF t = {} THEN base ELSE F[<<h[t \ {pick[t]}], pick[t]>>]]
      <4> HIDE DEF h, Small
      <4> QED BY <3>1, <3>2
    <3> HIDE DEF h, Small
    <3> QED BY <3>3 DEF Folded
  <2>9. n \notin Bad
    <3> HIDE DEF h, Small
    <3> QED BY <2>7, <2>8
  <2> QED BY <2>1, <2>9
<1>4. PICK g \in [Small(Cardinality(D)) -> W] : Folded(g, F, base, pick, Small(Cardinality(D)))
  <2> HIDE DEF Small
  <2> QED BY <1>2, <1>3
<1>5. Small(Cardinality(D)) = SUBSET D
  BY <1>1
<1> HIDE DEF Small
<1> QED BY <1>4, <1>5

\* Of the numbers up to n, any that are not none have a greatest.
LEMMA GreatestOf ==
    ASSUME NEW n \in Nat, NEW T, T \subseteq 1..n, T # {} PROVE \E x \in T : \A y \in T : x >= y
<1> DEFINE D == {n - t : t \in T}
<1>1. D \subseteq Nat /\ D # {}
  <2>1. D \subseteq Nat
    OBVIOUS
  <2>2. PICK t \in T : TRUE
    OBVIOUS
  <2>3. n - t \in D
    OBVIOUS
  <2> QED BY <2>1, <2>3
<1>2. PICK d \in D : \A e \in D : d <= e
  <2> HIDE DEF D
  <2> QED BY <1>1, LeastOf
<1>3. PICK x \in T : d = n - x
  BY <1>2
<1>4. ASSUME NEW y \in T PROVE x >= y
  <2>1. n - y \in D
    OBVIOUS
  <2>2. d <= n - y
    BY <1>2, <2>1
  <2> QED BY <2>2, <1>3
<1> QED BY <1>3, <1>4

\* The positions of a sequence, last one first.
LEMMA LastOfPositions ==
    ASSUME NEW n \in Nat
    PROVE  /\ \A t \in SUBSET (1..n) : t # {} => Max(t) \in t
           /\ \A i \in 1..n : 1..i \in SUBSET (1..n) /\ 1..i # {} /\ Max(1..i) = i /\ (1..i) \ {i} = 1..(i-1)
<1>1. ASSUME NEW t \in SUBSET (1..n), t # {} PROVE Max(t) \in t /\ \A y \in t : Max(t) >= y
  <2>1. \E x \in t : \A y \in t : x >= y
    BY <1>1, GreatestOf
  <2> QED BY <2>1 DEF Max
<1>2. ASSUME NEW i \in 1..n PROVE 1..i \in SUBSET (1..n) /\ 1..i # {} /\ Max(1..i) = i /\ (1..i) \ {i} = 1..(i-1)
  <2>1. 1..i \in SUBSET (1..n) /\ i \in 1..i
    OBVIOUS
  <2>2. Max(1..i) \in 1..i /\ Max(1..i) >= i
    BY <1>1, <2>1
  <2>3. Max(1..i) = i
    BY <2>2
  <2>4. (1..i) \ {i} = 1..(i-1)
    OBVIOUS
  <2> QED BY <2>1, <2>3, <2>4
<1> QED BY <1>1, <1>2

\* load_or_create: a folder with a manifest keeps what it says, one without is named apart
\* from those before it.
Continued(finds, f, r) ==
    /\ Scanned(finds, f) = Append(finds, r) /\ r.folder = f
    /\ disk[f].slug # NoName => r.slug = disk[f].slug /\ r.label = disk[f].label
    /\ disk[f].slug = NoName => r.label = NoName /\ \A i \in DOMAIN finds : r.slug # finds[i].slug

\* So one more folder scanned is one more record.
LEMMA ScannedContinues ==
    ASSUME AddressesAssumption, AddressTypes, NEW finds \in Seq(Record), NEW f \in DOMAIN disk
    PROVE  \E r \in Record : Continued(finds, f, r)
<1> DEFINE taken == {finds[i].slug : i \in DOMAIN finds}
           m == IF disk[f].slug # NoName THEN disk[f]
                ELSE [Bare EXCEPT !.slug = Deduplicated(BaseName[f], taken)]
           r == [folder |-> f, slug |-> m.slug, label |-> m.label]
<1>1. f \in Folder /\ disk[f] \in Manifest
  BY DEF AddressTypes
<1>2. Scanned(finds, f) = Append(finds, r)
  BY DEF Scanned
<1>3. IsFiniteSet(taken)
  <2> DEFINE h == [i \in DOMAIN finds |-> finds[i].slug]
  <2>1. h \in Surjection(DOMAIN finds, taken)
    BY DEF Surjection
  <2>2. IsFiniteSet(DOMAIN finds)
    <3>1. DOMAIN finds = 1..Len(finds) /\ Len(finds) \in Nat
      OBVIOUS
    <3>2. 1 \in Int /\ Len(finds) \in Int
      BY <3>1
    <3>3. IsFiniteSet(1..Len(finds))
      BY <3>2, FS_Interval
    <3> QED BY <3>1, <3>3
  <2> HIDE DEF h, taken
  <2> QED BY <2>1, <2>2, FS_Surjection
<1>4. CASE disk[f].slug # NoName
  <2>1. m = disk[f]
    BY <1>4
  <2>2. disk[f].slug \in Name /\ disk[f].label \in Name \union {NoName}
    BY <1>1, <1>4 DEF Manifest
  <2>3. r \in Record
    <3> HIDE DEF m
    <3> QED BY <1>1, <2>1, <2>2 DEF Record
  <2>4. Continued(finds, f, r)
    <3> HIDE DEF m
    <3> QED BY <1>2, <1>4, <2>1 DEF Continued
  <2> HIDE DEF r, m
  <2> QED BY <2>3, <2>4
<1>5. CASE disk[f].slug = NoName
  <2> DEFINE s == Deduplicated(BaseName[f], taken)
  <2>1. s \in Name /\ s \notin taken
    <3>1. BaseName[f] \in Name
      BY <1>1 DEF AddressesAssumption
    <3> HIDE DEF taken
    <3> QED BY <1>3, <3>1, FirstFreeIsFree DEF Deduplicated
  <2>2. m = [slug |-> s, label |-> NoName]
    BY <1>5 DEF Bare
  <2>3. r \in Record
    <3> HIDE DEF m, s
    <3> QED BY <1>1, <2>1, <2>2 DEF Record
  <2>4. \A i \in DOMAIN finds : s # finds[i].slug
    <3> HIDE DEF s
    <3> QED BY <2>1
  <2>5. Continued(finds, f, r)
    <3> HIDE DEF m, s
    <3> QED BY <1>2, <1>5, <2>2, <2>4 DEF Continued
  <2> HIDE DEF r, m
  <2> QED BY <2>3, <2>5
<1> QED BY <1>4, <1>5

\* What a walk finds, folder by folder.
WalkOf(acc, walk, n) ==
    /\ acc[0] = <<>> /\ acc[n] = Found(walk)
    /\ \A i \in 1..n : acc[i] = Scanned(acc[i - 1], walk[i])

\* Every walk is such a sequence of steps.
LEMMA WalkExists ==
    ASSUME AddressesAssumption, AddressTypes, NEW n \in Nat, NEW walk \in [1..n -> DOMAIN disk]
    PROVE  \E acc : WalkOf(acc, walk, n)
<1> DEFINE D == 1..n
           W == Seq(Record)
           F == [p \in W \X D |-> Scanned(p[1], walk[p[2]])]
           pick == [t \in SUBSET D |-> Max(t)]
           it == CHOOSE iter : iter = [t \in SUBSET D |-> IF t = {} THEN <<>> ELSE Scanned(iter[t \ {Max(t)}], walk[Max(t)])]
<1>1. DOMAIN walk = D
  OBVIOUS
<1>2. Found(walk) = it[D]
  BY <1>1 DEF Found, FoldLeft, MapThenFoldSet
<1>3. \A t \in SUBSET D : t # {} => Max(t) \in t /\ Max(t) \in D
  BY LastOfPositions
<1>4. \A w \in W, x \in D : F[<<w, x>>] = Scanned(w, walk[x]) /\ Scanned(w, walk[x]) \in W
  <2> SUFFICES ASSUME NEW w \in W, NEW x \in D
               PROVE  F[<<w, x>>] = Scanned(w, walk[x]) /\ Scanned(w, walk[x]) \in W
    OBVIOUS
  <2>1. walk[x] \in DOMAIN disk
    OBVIOUS
  <2>2. PICK r \in Record : Continued(w, walk[x], r)
    BY <2>1, ScannedContinues
  <2>3. Append(w, r) \in W
    OBVIOUS
  <2>4. Scanned(w, walk[x]) \in W
    BY <2>2, <2>3 DEF Continued
  <2>5. <<w, x>> \in W \X D
    OBVIOUS
  <2> QED BY <2>4, <2>5
<1>5. Foldable(F, <<>>, pick, D, W)
  <2>1. IsFiniteSet(D)
    <3>1. 1 \in Int /\ n \in Int
      OBVIOUS
    <3> QED BY <3>1, FS_Interval
  <2>2. <<>> \in W
    OBVIOUS
  <2>3. F \in [W \X D -> W]
    <3> SUFFICES ASSUME NEW p \in W \X D PROVE Scanned(p[1], walk[p[2]]) \in W
      <4> HIDE DEF W, D
      <4> QED OBVIOUS
    <3>1. p[1] \in W /\ p[2] \in D
      OBVIOUS
    <3> HIDE DEF W, D, F
    <3> QED BY <3>1, <1>4
  <2>4. \A t \in SUBSET D : t # {} => pick[t] \in t
    <3> HIDE DEF D
    <3> QED BY <1>3
  <2> HIDE DEF W, D, F, pick
  <2> QED BY <2>1, <2>2, <2>3, <2>4 DEF Foldable
<1>6. PICK g \in [SUBSET D -> W] : Folded(g, F, <<>>, pick, SUBSET D)
  <2> HIDE DEF W, D, F, pick
  <2> QED BY <1>5, FoldExists
<1>7. g = [t \in SUBSET D |-> IF t = {} THEN <<>> ELSE Scanned(g[t \ {Max(t)}], walk[Max(t)])]
  <2>1. ASSUME NEW t \in SUBSET D, t # {}
        PROVE  F[<<g[t \ {pick[t]}], pick[t]>>] = Scanned(g[t \ {Max(t)}], walk[Max(t)])
    <3>1. pick[t] = Max(t) /\ Max(t) \in D
      <4> HIDE DEF D
      <4> QED BY <1>3, <2>1
    <3>2. t \ {Max(t)} \in SUBSET D
      OBVIOUS
    <3>3. g[t \ {Max(t)}] \in W
      <4> HIDE DEF D, W
      <4> QED BY <1>6, <3>2
    <3> HIDE DEF D, W, F, pick
    <3> QED BY <1>4, <3>1, <3>3
  <2> HIDE DEF D, W, F, pick
  <2>2. \A t \in SUBSET D : (IF t = {} THEN <<>> ELSE F[<<g[t \ {pick[t]}], pick[t]>>])
                          = (IF t = {} THEN <<>> ELSE Scanned(g[t \ {Max(t)}], walk[Max(t)]))
    BY <2>1
  <2> QED BY <1>6, <2>2 DEF Folded
<1>8. it = [t \in SUBSET D |-> IF t = {} THEN <<>> ELSE Scanned(it[t \ {Max(t)}], walk[Max(t)])]
  <2> HIDE DEF D
  <2> QED BY <1>7
<1> DEFINE acc == [i \in 0..n |-> it[1..i]]
<1>9. acc[0] = <<>>
  <2>1. 1..0 = {} /\ {} \in SUBSET D /\ 0 \in 0..n
    OBVIOUS
  <2>2. it[{}] = <<>>
    <3> HIDE DEF D, it
    <3> QED BY <1>8, <2>1
  <2> HIDE DEF it
  <2> QED BY <2>1, <2>2
<1>10. acc[n] = Found(walk)
  <2> HIDE DEF it
  <2> QED BY <1>2
<1>11. ASSUME NEW i \in 1..n PROVE acc[i] = Scanned(acc[i - 1], walk[i])
  <2>1. 1..i \in SUBSET D /\ 1..i # {} /\ Max(1..i) = i /\ (1..i) \ {i} = 1..(i-1)
    BY LastOfPositions
  <2>2. it[1..i] = Scanned(it[(1..i) \ {Max(1..i)}], walk[Max(1..i)])
    <3> HIDE DEF D, it
    <3> QED BY <1>8, <2>1
  <2>3. i \in 0..n /\ i - 1 \in 0..n
    OBVIOUS
  <2>4. acc[i] = it[1..i] /\ acc[i - 1] = it[1..(i - 1)]
    <3> HIDE DEF it
    <3> QED BY <2>3
  <2> HIDE DEF it, acc
  <2> QED BY <2>1, <2>2, <2>4
<1> HIDE DEF acc
<1> QED BY <1>9, <1>10, <1>11 DEF WalkOf

-----------------------------------------------------------------------------
(* What a walk of the folders finds.                                       *)

\* What the first n folders of a walk are found to be.
Walked(finds, walk, n) ==
    /\ finds \in Seq(Record) /\ Len(finds) = n
    /\ \A i \in 1..n :
         /\ finds[i].folder = walk[i]
         /\ disk[walk[i]].slug # NoName =>
              finds[i].slug = disk[walk[i]].slug /\ finds[i].label = disk[walk[i]].label
         /\ disk[walk[i]].slug = NoName =>
              finds[i].label = NoName /\ \A k \in 1..(i - 1) : finds[i].slug # finds[k].slug

\* And so is all of it, by the first folder of which it would not be so.
LEMMA FoundIsWalked ==
    ASSUME AddressesAssumption, AddressTypes, NEW n \in Nat, NEW walk \in [1..n -> DOMAIN disk]
    PROVE  Walked(Found(walk), walk, n)
<1>1. PICK acc : WalkOf(acc, walk, n)
  BY WalkExists
<1> DEFINE Bad == {i \in 0..n : ~Walked(acc[i], walk, i)}
<1>2. ASSUME Bad # {} PROVE FALSE
  <2>1. PICK i \in Bad : \A j \in Bad : i <= j
    <3>1. Bad \subseteq Nat
      OBVIOUS
    <3> HIDE DEF Bad
    <3> QED BY <1>2, <3>1, LeastOf
  <2>2. i # 0
    <3>1. Walked(<<>>, walk, 0)
      BY DEF Walked
    <3>2. acc[0] = <<>>
      BY <1>1 DEF WalkOf
    <3> QED BY <3>1, <3>2
  <2>3. i \in 1..n /\ i - 1 \in 0..n /\ i - 1 \notin Bad
    <3>1. i \in 0..n
      OBVIOUS
    <3> HIDE DEF Bad
    <3> QED BY <2>1, <2>2, <3>1
  <2> DEFINE finds == acc[i - 1]
             f == walk[i]
  <2>4. Walked(finds, walk, i - 1)
    BY <2>3
  <2>5. finds \in Seq(Record) /\ Len(finds) = i - 1
    BY <2>4 DEF Walked
  <2>6. f \in DOMAIN disk
    BY <2>3
  <2>7. PICK r \in Record : Continued(finds, f, r)
    <3> HIDE DEF finds, f
    <3> QED BY <2>5, <2>6, ScannedContinues
  <2>8. acc[i] = Append(finds, r)
    <3>1. acc[i] = Scanned(finds, f)
      BY <1>1, <2>3 DEF WalkOf
    <3> HIDE DEF finds, f
    <3> QED BY <3>1, <2>7 DEF Continued
  <2> DEFINE more == acc[i]
  <2>9. /\ more \in Seq(Record) /\ Len(more) = i /\ more[i] = r
        /\ \A k \in 1..(i - 1) : more[k] = finds[k]
    <3> HIDE DEF finds
    <3> QED BY <2>3, <2>5, <2>8
  <2>10. ASSUME NEW k \in 1..i
         PROVE  /\ more[k].folder = walk[k]
                /\ disk[walk[k]].slug # NoName =>
                     more[k].slug = disk[walk[k]].slug /\ more[k].label = disk[walk[k]].label
                /\ disk[walk[k]].slug = NoName =>
                     more[k].label = NoName /\ \A j \in 1..(k - 1) : more[k].slug # more[j].slug
    <3>1. CASE k = i
      <4>1. \A j \in 1..(i - 1) : j \in DOMAIN finds /\ more[j] = finds[j]
        <5> HIDE DEF finds, more
        <5> QED BY <2>3, <2>5, <2>9
      <4>2. more[k] = r /\ walk[k] = f
        BY <3>1, <2>9
      <4> HIDE DEF finds, more, f
      <4> QED BY <3>1, <2>7, <4>1, <4>2 DEF Continued
    <3>2. CASE k # i
      <4>1. k \in 1..(i - 1) /\ \A j \in 1..(k - 1) : j \in 1..(i - 1)
        BY <3>2, <2>3
      <4>2. more[k] = finds[k] /\ \A j \in 1..(k - 1) : more[j] = finds[j]
        <5> HIDE DEF finds, more
        <5> QED BY <2>9, <4>1
      <4>3. /\ finds[k].folder = walk[k]
            /\ disk[walk[k]].slug # NoName =>
                 finds[k].slug = disk[walk[k]].slug /\ finds[k].label = disk[walk[k]].label
            /\ disk[walk[k]].slug = NoName =>
                 finds[k].label = NoName /\ \A j \in 1..(k - 1) : finds[k].slug # finds[j].slug
        <5> HIDE DEF finds
        <5> QED BY <2>4, <4>1 DEF Walked
      <4> HIDE DEF finds, more
      <4> QED BY <4>2, <4>3
    <3> QED BY <3>1, <3>2
  <2>11. Walked(more, walk, i)
    <3> HIDE DEF finds, f, more
    <3> QED BY <2>9, <2>10 DEF Walked
  <2> QED BY <2>11
<1>3. n \notin Bad /\ n \in 0..n
  BY <1>2
<1>4. Walked(acc[n], walk, n)
  BY <1>3
<1> QED BY <1>1, <1>4 DEF WalkOf

\* An order of a set lists each of its elements once.
LEMMA OrderLists ==
    ASSUME NEW S, IsFiniteSet(S), NEW q \in Bijection(1..Cardinality(S), S)
    PROVE  /\ Cardinality(S) \in Nat /\ q \in [1..Cardinality(S) -> S]
           /\ Range(q) = S
           /\ \A i, j \in 1..Cardinality(S) : q[i] = q[j] => i = j
<1>1. Cardinality(S) \in Nat
  BY FS_CardinalityType
<1>2. /\ q \in [1..Cardinality(S) -> S]
      /\ \A i, j \in 1..Cardinality(S) : q[i] = q[j] => i = j
      /\ \A s \in S : \E i \in 1..Cardinality(S) : q[i] = s
  BY DEF Bijection, Injection, Surjection, IsInjective
<1> QED BY <1>1, <1>2 DEF Range

-----------------------------------------------------------------------------
\* A library that is being put together: who was there, what is claimed, what is placed.
Placing == [previous : SUBSET Placement, claimed : {c \in SUBSET Name : IsFiniteSet(c)},
            library : SUBSET Placement, heard : BOOLEAN]

\* The name a record is announced under: the one its slug had, or a new one.
NamedWell(next, r) ==
    LET h == Host(next, r) IN
    \/ h = NoName
    \/ \E e \in next.previous : e.slug = r.slug /\ e.host = h /\ e.by = By(next, r)
    \/ h \in Name /\ h \notin next.claimed /\ h \in Given(next, r) /\ By(next, r) = InUse

\* A record placed: what it is announced under, and what that leaves of who was there.
LEMMA PlacedTypes ==
    ASSUME AddressesAssumption, AddressTypes, NEW next \in Placing, NEW r \in Record
    PROVE  /\ NamedWell(next, r)
           /\ Placed(next, r) \in Placing
           /\ Entry(next, r) \in Placement
           /\ Placed(next, r).previous = {e \in next.previous : e.slug # r.slug}
           /\ Placed(next, r).claimed = next.claimed \union Given(next, r)
           /\ Placed(next, r).library = {e \in next.library : e.slug # r.slug} \union {Entry(next, r)}
<1> DEFINE h == Host(next, r)
           had == Announced(next, r)
           given == Given(next, r)
           by == By(next, r)
<1>1. /\ next.previous \subseteq Placement /\ next.library \subseteq Placement
      /\ next.claimed \subseteq Name /\ IsFiniteSet(next.claimed) /\ next.heard \in BOOLEAN
  BY DEF Placing
<1>2. r.slug \in Name /\ r.folder \in Folder /\ r.label \in Name \union {NoName}
  BY DEF Record
<1>3. IsFiniteSet(next.claimed \union conflicts[InUse]) /\ InUse \in Announcer
  <2>1. InUse \in Announcer
    BY DEF InUse, Announcer
  <2>2. IsFiniteSet(conflicts[InUse])
    BY <2>1, FS_Subset DEF AddressTypes
  <2> QED BY <1>1, <2>1, <2>2, FS_Union
<1>4. Registered(r.slug, next.claimed) \in Name /\ Registered(r.slug, next.claimed) \notin next.claimed \union conflicts[InUse]
  <2> DEFINE used == next.claimed \union conflicts[InUse]
  <2>1. FirstFree(r.slug, used) \in Name /\ FirstFree(r.slug, used) \notin used
    <3> HIDE DEF used
    <3> QED BY <1>2, <1>3, FirstFreeIsFree DEF used
  <2> QED BY <2>1 DEF Registered
<1>5. h \in Name \union {NoName} /\ by \in Announcer /\ given \subseteq {h} \ {NoName} /\ NamedWell(next, r)
  <2>1. CASE had # {}
    <3> DEFINE e == CHOOSE x \in had : TRUE
    <3>1. e \in had
      BY <2>1
    <3>2. h = e.host /\ by = e.by /\ given = {}
      BY <2>1 DEF Host, By, Given
    <3>3. e \in next.previous /\ e.slug = r.slug /\ e.host \in Name \union {NoName} /\ e.by \in Announcer
      <4>1. e \in next.previous /\ e.slug = r.slug
        <5> HIDE DEF e
        <5> QED BY <3>1 DEF Announced
      <4>2. e \in Placement
        <5> HIDE DEF e
        <5> QED BY <1>1, <4>1
      <4> HIDE DEF e
      <4> QED BY <4>1, <4>2 DEF Placement
    <3> HIDE DEF e, had
    <3> QED BY <3>2, <3>3 DEF NamedWell
  <2>2. CASE had = {}
    <3>1. h = IF next.heard THEN Registered(r.slug, next.claimed) ELSE NoName
      BY <2>2 DEF Host
    <3>2. by = InUse /\ given = {h} \ {NoName}
      BY <2>2 DEF By, Given
    <3> QED BY <3>1, <3>2, <1>3, <1>4 DEF NamedWell
  <2> QED BY <2>1, <2>2
<1>6. Entry(next, r) \in Placement
  <2> HIDE DEF h
  <2> HIDE DEF by
  <2>1. Entry(next, r) = [slug |-> r.slug, folder |-> r.folder, label |-> r.label, host |-> h, by |-> by]
    BY DEF Entry, h, by
  <2> QED BY <1>2, <1>5, <2>1 DEF Placement
<1>7. Placed(next, r) = [previous |-> {e \in next.previous : e.slug # r.slug},
                         claimed  |-> next.claimed \union given,
                         library  |-> {e \in next.library : e.slug # r.slug} \union {Entry(next, r)},
                         heard |-> next.heard]
  <2>1. next = [previous |-> next.previous, claimed |-> next.claimed, library |-> next.library, heard |-> next.heard]
    BY DEF Placing
  <2> DEFINE p == next.previous
             c == next.claimed
             l == next.library
             b == next.heard
             ent == Entry(next, r)
  <2>2. next = [previous |-> p, claimed |-> c, library |-> l, heard |-> b]
    BY <2>1
  <2>3. Placed(next, r) = [next EXCEPT !.previous = {e \in @ : e.slug # r.slug},
                 !.claimed  = @ \union given,
                 !.library  = {e \in @ : e.slug # r.slug} \union {ent}]
    BY DEF Placed
  <2> HIDE DEF p, c, l, b, ent, given
  <2>4. Placed(next, r) = [previous |-> {e \in p : e.slug # r.slug},
                         claimed  |-> c \union given,
                         library  |-> {e \in l : e.slug # r.slug} \union {ent},
                         heard |-> b]
    BY <2>2, <2>3
  <2> QED BY <2>4 DEF p, c, l, b, ent
<1>8. IsFiniteSet(next.claimed \union given) /\ next.claimed \union given \subseteq Name
  <2> HIDE DEF given
  <2>1. CASE given = {}
    <3>1. next.claimed \union given = next.claimed
      BY <2>1
    <3> QED BY <1>1, <3>1
  <2>2. CASE given # {}
    <3>1. next.claimed \union given = next.claimed \union {h} /\ h # NoName
      <4> HIDE DEF h
      <4> QED BY <1>5, <2>2
    <3>2. IsFiniteSet(next.claimed \union {h})
      BY <1>1, FS_AddElement
    <3> HIDE DEF h
    <3> QED BY <1>1, <1>5, <3>1, <3>2
  <2> QED BY <2>1, <2>2
<1>9. Placed(next, r) \in Placing
  <2> HIDE DEF h, given
  <2> QED BY <1>1, <1>6, <1>7, <1>8 DEF Placing
<1> QED BY <1>5, <1>6, <1>7, <1>9

-----------------------------------------------------------------------------
(* A library put together.                                                 *)

\* A library is put together record by record.
PlacingOf(acc, first, records) ==
    /\ acc[0] = first /\ acc[Len(records)] = FoldLeft(Placed, first, records)
    /\ \A i \in 1..Len(records) : acc[i] = Placed(acc[i - 1], records[i])

\* Every library put together is put together so.
LEMMA PlacingExists ==
    ASSUME AddressesAssumption, AddressTypes, NEW first \in Placing, NEW records \in Seq(Record)
    PROVE  \E acc : PlacingOf(acc, first, records)
<1> DEFINE n == Len(records)
           D == 1..n
           W == Placing
           F == [p \in W \X D |-> Placed(p[1], records[p[2]])]
           pick == [t \in SUBSET D |-> Max(t)]
           it == CHOOSE iter : iter = [t \in SUBSET D |-> IF t = {} THEN first ELSE Placed(iter[t \ {Max(t)}], records[Max(t)])]
<1>1. DOMAIN records = D /\ n \in Nat
  OBVIOUS
<1>2. FoldLeft(Placed, first, records) = it[D]
  BY <1>1 DEF FoldLeft, MapThenFoldSet
<1>3. \A t \in SUBSET D : t # {} => Max(t) \in t /\ Max(t) \in D
  <2> HIDE DEF n
  <2> QED BY <1>1, LastOfPositions
<1>4. \A w \in W, x \in D : F[<<w, x>>] = Placed(w, records[x]) /\ Placed(w, records[x]) \in W
  <2> SUFFICES ASSUME NEW w \in W, NEW x \in D
               PROVE  F[<<w, x>>] = Placed(w, records[x]) /\ Placed(w, records[x]) \in W
    OBVIOUS
  <2>1. records[x] \in Record
    OBVIOUS
  <2>2. Placed(w, records[x]) \in W
    BY <2>1, PlacedTypes
  <2>3. <<w, x>> \in W \X D
    OBVIOUS
  <2> QED BY <2>2, <2>3
<1>5. Foldable(F, first, pick, D, W)
  <2>1. IsFiniteSet(D)
    <3>1. 1 \in Int /\ n \in Int
      OBVIOUS
    <3> QED BY <3>1, FS_Interval
  <2>3. F \in [W \X D -> W]
    <3> SUFFICES ASSUME NEW p \in W \X D PROVE Placed(p[1], records[p[2]]) \in W
      <4> HIDE DEF W, D
      <4> QED OBVIOUS
    <3>1. p[1] \in W /\ p[2] \in D
      OBVIOUS
    <3> HIDE DEF W, D, F
    <3> QED BY <3>1, <1>4
  <2>4. \A t \in SUBSET D : t # {} => pick[t] \in t
    <3> HIDE DEF D
    <3> QED BY <1>3
  <2>5. first \in W
    OBVIOUS
  <2> HIDE DEF W, D, F, pick
  <2> QED BY <2>1, <2>3, <2>4, <2>5 DEF Foldable
<1>6. PICK g \in [SUBSET D -> W] : Folded(g, F, first, pick, SUBSET D)
  <2> HIDE DEF W, D, F, pick
  <2> QED BY <1>5, FoldExists
<1>7. g = [t \in SUBSET D |-> IF t = {} THEN first ELSE Placed(g[t \ {Max(t)}], records[Max(t)])]
  <2>1. ASSUME NEW t \in SUBSET D, t # {}
        PROVE  F[<<g[t \ {pick[t]}], pick[t]>>] = Placed(g[t \ {Max(t)}], records[Max(t)])
    <3>1. pick[t] = Max(t) /\ Max(t) \in D
      <4> HIDE DEF D
      <4> QED BY <1>3, <2>1
    <3>2. t \ {Max(t)} \in SUBSET D
      OBVIOUS
    <3>3. g[t \ {Max(t)}] \in W
      <4> HIDE DEF D, W
      <4> QED BY <1>6, <3>2
    <3> HIDE DEF D, W, F, pick
    <3> QED BY <1>4, <3>1, <3>3
  <2> HIDE DEF D, W, F, pick
  <2>2. \A t \in SUBSET D : (IF t = {} THEN first ELSE F[<<g[t \ {pick[t]}], pick[t]>>])
                          = (IF t = {} THEN first ELSE Placed(g[t \ {Max(t)}], records[Max(t)]))
    BY <2>1
  <2> QED BY <1>6, <2>2 DEF Folded
<1>8. it = [t \in SUBSET D |-> IF t = {} THEN first ELSE Placed(it[t \ {Max(t)}], records[Max(t)])]
  <2> HIDE DEF D
  <2> QED BY <1>7
<1> DEFINE acc == [i \in 0..n |-> it[1..i]]
<1>9. acc[0] = first
  <2>1. 1..0 = {} /\ {} \in SUBSET D /\ 0 \in 0..n
    OBVIOUS
  <2>2. it[{}] = first
    <3> HIDE DEF D, it
    <3> QED BY <1>8, <2>1
  <2> HIDE DEF it
  <2> QED BY <2>1, <2>2
<1>10. acc[n] = FoldLeft(Placed, first, records)
  <2>1. n \in 0..n
    BY <1>1
  <2>2. acc[n] = it[D]
    <3> HIDE DEF it
    <3> QED BY <2>1
  <2> HIDE DEF it, acc, D, n
  <2> QED BY <1>2, <2>2
<1>11. ASSUME NEW i \in 1..n PROVE acc[i] = Placed(acc[i - 1], records[i])
  <2>1. 1..i \in SUBSET D /\ 1..i # {} /\ Max(1..i) = i /\ (1..i) \ {i} = 1..(i-1)
    <3> HIDE DEF n
    <3> QED BY <1>1, LastOfPositions
  <2>2. it[1..i] = Placed(it[(1..i) \ {Max(1..i)}], records[Max(1..i)])
    <3> HIDE DEF D, it
    <3> QED BY <1>8, <2>1
  <2>3. i \in 0..n /\ i - 1 \in 0..n
    BY <1>1
  <2>4. acc[i] = it[1..i] /\ acc[i - 1] = it[1..(i - 1)]
    <3> HIDE DEF it
    <3> QED BY <2>3
  <2> HIDE DEF it, acc
  <2> QED BY <2>1, <2>2, <2>4
<1> HIDE DEF acc
<1> QED BY <1>9, <1>10, <1>11 DEF PlacingOf

\* An entry serves what a record says.
Serves(e, r) == e.folder = r.folder /\ e.slug = r.slug /\ e.label = r.label

\* No slug is of two different records.
Distinct(records) ==
    \A j, k \in 1..Len(records) : records[j].slug = records[k].slug => records[j] = records[k]

\* A name is claimed of its announcer, when ours are the claims of the one in use.
ClaimedIn(ours, e) == e.host = NoName \/ e.host \in (IF e.by = InUse THEN ours ELSE claimed[e.by])

\* No announcer has given one name to two slugs.
Apart(entries) ==
    \A e, d \in entries : e.host = d.host /\ e.by = d.by /\ e.host # NoName => e.slug = d.slug

\* With i records placed beside what others hold: every name is claimed, and by one slug.
PlacedSoFar(next, first, others, records, i) ==
    /\ next \in Placing /\ next.previous \subseteq first.previous /\ first.claimed \subseteq next.claimed
    /\ \A e \in next.library \union others : ClaimedIn(next.claimed, e)
    /\ Apart(next.library \union others)
    /\ OneEach(next.library)
    /\ \A e \in next.library : \E j \in 1..i : Serves(e, records[j])
    /\ Distinct(records) => \A j \in 1..i : \E e \in next.library : Serves(e, records[j])

\* One more.
LEMMA PlacedOneMore ==
    ASSUME AddressesAssumption, AddressTypes, NEW next, NEW first \in Placing, NEW others,
           NEW records \in Seq(Record), NEW i \in 1..Len(records), first.previous \subseteq others,
           PlacedSoFar(next, first, others, records, i - 1)
    PROVE  PlacedSoFar(Placed(next, records[i]), first, others, records, i)
<1> DEFINE r == records[i]
           new == Entry(next, r)
           after == Placed(next, r)
           kept == {e \in next.library : e.slug # r.slug}
<1>1. r \in Record
  OBVIOUS
<1>2. /\ next \in Placing /\ next.previous \subseteq first.previous /\ first.claimed \subseteq next.claimed
      /\ \A e \in next.library \union others : ClaimedIn(next.claimed, e)
      /\ Apart(next.library \union others)
      /\ OneEach(next.library)
      /\ \A e \in next.library : \E j \in 1..(i - 1) : Serves(e, records[j])
      /\ Distinct(records) => \A j \in 1..(i - 1) : \E e \in next.library : Serves(e, records[j])
  BY DEF PlacedSoFar
<1>3. /\ NamedWell(next, r) /\ after \in Placing /\ new \in Placement
      /\ after.previous = {e \in next.previous : e.slug # r.slug}
      /\ after.claimed = next.claimed \union Given(next, r)
      /\ after.library = kept \union {new}
  <2> HIDE DEF r
  <2> QED BY <1>1, <1>2, PlacedTypes
<1>4. new.host = Host(next, r) /\ new.by = By(next, r) /\ new.slug = r.slug /\ Serves(new, r)
  BY DEF Entry, Serves
<1> HIDE DEF r, new, after
<1>5. after.previous \subseteq first.previous /\ first.claimed \subseteq after.claimed
  BY <1>2, <1>3
<1>6. \A e \in after.library \union others : ClaimedIn(after.claimed, e)
  <2>1. next.claimed \subseteq after.claimed
    BY <1>3
  <2>2. \A e \in next.library \union others : ClaimedIn(after.claimed, e)
    BY <1>2, <2>1 DEF ClaimedIn
  <2>3. ClaimedIn(after.claimed, new)
    <3>1. CASE new.host = NoName
      BY <3>1 DEF ClaimedIn
    <3>2. CASE \E e \in next.previous : e.slug = r.slug /\ e.host = new.host /\ e.by = new.by
      <4>1. PICK e \in others : e.host = new.host /\ e.by = new.by
        BY <1>2, <3>2
      <4> QED BY <2>2, <4>1 DEF ClaimedIn
    <3>3. CASE new.host \in Given(next, r) /\ new.by = InUse
      BY <1>3, <3>3 DEF ClaimedIn
    <3> QED BY <1>3, <1>4, <3>1, <3>2, <3>3 DEF NamedWell
  <2> QED BY <1>3, <2>2, <2>3
<1>7. \A e \in next.library \union others : e.host = new.host /\ e.by = new.by /\ e.host # NoName => e.slug = r.slug
  <2> SUFFICES ASSUME NEW e \in next.library \union others, e.host = new.host, e.by = new.by, e.host # NoName
               PROVE  e.slug = r.slug
    OBVIOUS
  <2>1. new.by = InUse => new.host \in next.claimed
    BY <1>2 DEF ClaimedIn
  <2>2. PICK d \in next.previous : d.slug = r.slug /\ d.host = new.host /\ d.by = new.by
    BY <1>3, <1>4, <2>1 DEF NamedWell
  <2>3. d \in others
    BY <1>2, <2>2
  <2> QED BY <1>2, <2>2, <2>3 DEF Apart
<1>8. Apart(after.library \union others)
  <2> SUFFICES ASSUME NEW e \in after.library \union others, NEW d \in after.library \union others,
                      e.host = d.host, e.by = d.by, e.host # NoName
               PROVE  e.slug = d.slug
    BY DEF Apart
  <2>1. e \in next.library \union others \/ e = new
    BY <1>3
  <2>2. d \in next.library \union others \/ d = new
    BY <1>3
  <2> QED BY <1>2, <1>4, <1>7, <2>1, <2>2 DEF Apart
<1>9. OneEach(after.library)
  BY <1>2, <1>3, <1>4 DEF OneEach
<1>10. \A e \in after.library : \E j \in 1..i : Serves(e, records[j])
  <2> SUFFICES ASSUME NEW e \in after.library PROVE \E j \in 1..i : Serves(e, records[j])
    OBVIOUS
  <2>1. CASE e = new
    BY <2>1, <1>4 DEF r
  <2>2. CASE e \in kept
    <3>1. PICK j \in 1..(i - 1) : Serves(e, records[j])
      BY <1>2, <2>2
    <3>2. j \in 1..i
      OBVIOUS
    <3> QED BY <3>1, <3>2
  <2> QED BY <1>3, <2>1, <2>2
<1>11. ASSUME Distinct(records), NEW j \in 1..i PROVE \E e \in after.library : Serves(e, records[j])
  <2>1. i \in Nat /\ j \in 1..Len(records) /\ i \in 1..Len(records)
    OBVIOUS
  <2>2. CASE j = i
    BY <2>2, <1>3, <1>4 DEF r
  <2>3. CASE j # i
    <3>1. j \in 1..(i - 1)
      BY <2>3
    <3>2. PICK e \in next.library : Serves(e, records[j])
      BY <1>2, <1>11, <3>1
    <3>3. CASE e.slug = r.slug
      <4>1. records[j] = records[i]
        BY <1>11, <2>1, <3>2, <3>3 DEF Distinct, Serves, r
      <4> QED BY <4>1, <1>3, <1>4 DEF r
    <3>4. CASE e.slug # r.slug
      BY <3>2, <3>4, <1>3
    <3> QED BY <3>3, <3>4
  <2> QED BY <2>2, <2>3
<1>12. PlacedSoFar(after, first, others, records, i)
  BY <1>3, <1>5, <1>6, <1>8, <1>9, <1>10, <1>11 DEF PlacedSoFar
<1> QED BY <1>12 DEF after, r

\* And all of them.
LEMMA AllPlaced ==
    ASSUME AddressesAssumption, AddressTypes, NEW first \in Placing, NEW others,
           NEW records \in Seq(Record), first.previous \subseteq others,
           PlacedSoFar(first, first, others, records, 0)
    PROVE  PlacedSoFar(FoldLeft(Placed, first, records), first, others, records, Len(records))
<1>1. PICK acc : PlacingOf(acc, first, records)
  BY PlacingExists
<1> DEFINE n == Len(records)
           Bad == {i \in 0..n : ~PlacedSoFar(acc[i], first, others, records, i)}
<1>2. ASSUME Bad # {} PROVE FALSE
  <2>1. PICK i \in Bad : \A j \in Bad : i <= j
    <3>1. Bad \subseteq Nat
      OBVIOUS
    <3> HIDE DEF Bad
    <3> QED BY <1>2, <3>1, LeastOf
  <2>2. i # 0
    BY <1>1 DEF PlacingOf
  <2>3. i \in 1..n /\ i - 1 \in 0..n /\ i - 1 \notin Bad
    <3>1. i \in 0..n /\ n \in Nat
      OBVIOUS
    <3> HIDE DEF Bad, n
    <3> QED BY <2>1, <2>2, <3>1
  <2>4. PlacedSoFar(acc[i - 1], first, others, records, i - 1)
    BY <2>3
  <2>5. acc[i] = Placed(acc[i - 1], records[i])
    BY <1>1, <2>3 DEF PlacingOf
  <2>6. PlacedSoFar(acc[i], first, others, records, i)
    <3> DEFINE next == acc[i - 1]
    <3>1. PlacedSoFar(next, first, others, records, i - 1) /\ i \in 1..Len(records)
      BY <2>3, <2>4
    <3> HIDE DEF next
    <3>2. PlacedSoFar(Placed(next, records[i]), first, others, records, i)
      BY <3>1, PlacedOneMore
    <3> QED BY <2>5, <3>2 DEF next
  <2> QED BY <2>6
<1>3. n \in 0..n /\ n \notin Bad
  BY <1>2
<1>4. PlacedSoFar(acc[n], first, others, records, n)
  BY <1>3
<1> QED BY <1>1, <1>4 DEF PlacingOf

-----------------------------------------------------------------------------
(* A scan, of each folder.                                                 *)

\* What a scan does, of the walk it takes, what it finds there and the order it returns it in.
ScanBy(t, n, walk, finds, sorted) ==
    /\ n \in Nat /\ walk \in [1..n -> DOMAIN disk] /\ Range(walk) = DOMAIN disk
    /\ \A i, j \in 1..n : walk[i] = walk[j] => i = j
    /\ Walked(finds, walk, n)
    /\ disk' = [f \in DOMAIN disk |->
         LET r == CHOOSE x \in Range(finds) : x.folder = f IN [slug |-> r.slug, label |-> r.label]]
    /\ excuses' = excuses \union Excused(finds) \union (IF Alone(t) THEN {} ELSE {"label"})
    /\ sorted \in Seq(Record) /\ Range(sorted) = Range(finds)
    /\ thread' = [thread EXCEPT ![t] = [Idle EXCEPT !.step = "take", !.records = sorted]]

\* Every scan is of that kind.
LEMMA ScanIsByWalk ==
    ASSUME AddressesAssumption, AddressTypes, NEW t \in Thread, Scan(t)
    PROVE  \E n, walk, finds, sorted : ScanBy(t, n, walk, finds, sorted)
<1> DEFINE n == Cardinality(DOMAIN disk)
<1>1. PICK walk :
        /\ walk \in Orders(DOMAIN disk, <)
        /\ disk' = [f \in DOMAIN disk |->
             LET r == CHOOSE x \in Range(Found(walk)) : x.folder = f IN [slug |-> r.slug, label |-> r.label]]
        /\ excuses' = excuses \union Excused(Found(walk)) \union (IF Alone(t) THEN {} ELSE {"label"})
        /\ \E sorted \in Orders(Range(Found(walk)), RecordBefore) :
             thread' = [thread EXCEPT ![t] = [Idle EXCEPT !.step = "take", !.records = sorted]]
  BY DEF Scan
<1>2. walk \in Bijection(1..n, DOMAIN disk) /\ IsFiniteSet(DOMAIN disk)
  BY <1>1 DEF Orders, AddressTypes
<1>3. /\ n \in Nat /\ walk \in [1..n -> DOMAIN disk] /\ Range(walk) = DOMAIN disk
      /\ \A i, j \in 1..n : walk[i] = walk[j] => i = j
  BY <1>2, OrderLists
<1> HIDE DEF n
<1> DEFINE finds == Found(walk)
<1>4. Walked(finds, walk, n)
  BY <1>3, FoundIsWalked
<1>5. PICK sorted :
        /\ sorted \in Orders(Range(finds), RecordBefore)
        /\ thread' = [thread EXCEPT ![t] = [Idle EXCEPT !.step = "take", !.records = sorted]]
  BY <1>1
<1>6. sorted \in Seq(Record) /\ Range(sorted) = Range(finds)
  <2> HIDE DEF finds
  <2>1. finds \in Seq(Record) /\ DOMAIN finds = 1..n
    BY <1>4 DEF Walked
  <2>2. Range(finds) \subseteq Record
    <3>1. \A i \in DOMAIN finds : finds[i] \in Record
      <4>1. finds \in Seq(Record)
        BY <2>1
      <4> QED BY ONLY <4>1
    <3> QED BY <2>1, <3>1 DEF Range
  <2>3. IsFiniteSet(Range(finds))
    <3>1. finds \in Surjection(DOMAIN finds, Range(finds))
      BY <2>1 DEF Surjection, Range
    <3>2. 1 \in Int /\ n \in Int
      BY <1>3
    <3>3. IsFiniteSet(1..n)
      BY <3>2, FS_Interval
    <3> QED BY <2>1, <3>1, <3>3, FS_Surjection
  <2>4. sorted \in Bijection(1..Cardinality(Range(finds)), Range(finds))
    BY <1>5 DEF Orders
  <2> DEFINE S == Range(finds)
  <2>5. Cardinality(S) \in Nat /\ sorted \in [1..Cardinality(S) -> S] /\ Range(sorted) = S
    <3>1. IsFiniteSet(S) /\ sorted \in Bijection(1..Cardinality(S), S)
      BY <2>3, <2>4
    <3> HIDE DEF S
    <3> QED BY <3>1, OrderLists
  <2>6. sorted \in Seq(S)
    <3> HIDE DEF S
    <3> QED BY <2>5
  <2> QED BY <2>2, <2>5, <2>6
<1>7. ScanBy(t, n, walk, finds, sorted)
  <2>1. /\ disk' = [f \in DOMAIN disk |->
             LET r == CHOOSE x \in Range(finds) : x.folder = f IN [slug |-> r.slug, label |-> r.label]]
        /\ excuses' = excuses \union Excused(finds) \union (IF Alone(t) THEN {} ELSE {"label"})
    BY <1>1
  <2> HIDE DEF finds
  <2> QED BY <1>3, <1>4, <1>5, <1>6, <2>1 DEF ScanBy
<1> HIDE DEF finds
<1> QED BY <1>7

\* Registry::scan, of each folder: a manifest that is there stays, and a new one is named apart
\* from the other new ones; that it is not named as an old one is, is what the excuses are for.
LEMMA ScanNames ==
    ASSUME AddressesAssumption, AddressTypes, NEW t \in Thread, Scan(t)
    PROVE  /\ disk' \in [DOMAIN disk -> Manifest]
           /\ \A f \in DOMAIN disk : disk'[f].slug \in Name
           /\ \A f \in OnDisk : disk'[f] = disk[f]
           /\ \A f \in DOMAIN disk \ OnDisk : disk'[f].label = NoName
           /\ \A f, g \in DOMAIN disk \ OnDisk : disk'[f].slug = disk'[g].slug => f = g
           /\ excuses \subseteq excuses' /\ excuses' \subseteq {"slug", "label"}
           /\ "slug" \notin excuses' =>
                \A f \in DOMAIN disk \ OnDisk, g \in OnDisk : disk'[f].slug # disk[g].slug
           /\ "label" \notin excuses' => Alone(t) /\
                \A f \in DOMAIN disk \ OnDisk, g \in OnDisk : disk'[f].slug # Effective(disk[g])
           /\ \E sorted \in Seq(Record) :
                /\ Range(sorted) = {[folder |-> f, slug |-> disk'[f].slug, label |-> disk'[f].label] : f \in DOMAIN disk}
                /\ thread' = [thread EXCEPT ![t] = [Idle EXCEPT !.step = "take", !.records = sorted]]
<1>1. PICK n, walk, finds, sorted : ScanBy(t, n, walk, finds, sorted)
  BY ScanIsByWalk
<1>2. /\ n \in Nat /\ walk \in [1..n -> DOMAIN disk]
      /\ \A f \in DOMAIN disk : \E i \in 1..n : walk[i] = f
      /\ \A i, j \in 1..n : walk[i] = walk[j] => i = j
  BY <1>1 DEF ScanBy, Range
<1>3. finds \in Seq(Record) /\ Len(finds) = n /\ DOMAIN finds = 1..n
  BY <1>1 DEF ScanBy, Walked
<1>4. \A i \in 1..n :
         /\ finds[i] \in Record /\ finds[i].folder = walk[i]
         /\ disk[walk[i]].slug # NoName =>
              finds[i].slug = disk[walk[i]].slug /\ finds[i].label = disk[walk[i]].label
         /\ disk[walk[i]].slug = NoName =>
              finds[i].label = NoName /\ \A k \in 1..(i - 1) : finds[i].slug # finds[k].slug
  <2>1. \A i \in 1..n : finds[i] \in Record
    BY <1>3
  <2> QED BY <1>1, <2>1 DEF ScanBy, Walked
<1>5. DOMAIN disk' = DOMAIN disk /\ \A i \in 1..n : disk'[walk[i]] = [slug |-> finds[i].slug, label |-> finds[i].label]
  <2>1. disk' = [f \in DOMAIN disk |->
         LET r == CHOOSE x \in Range(finds) : x.folder = f IN [slug |-> r.slug, label |-> r.label]]
    BY <1>1 DEF ScanBy
  <2>2. ASSUME NEW i \in 1..n PROVE disk'[walk[i]] = [slug |-> finds[i].slug, label |-> finds[i].label]
    <3>1. finds[i] \in Range(finds) /\ finds[i].folder = walk[i]
      BY <1>3, <1>4 DEF Range
    <3>2. \A x \in Range(finds) : x.folder = walk[i] => x = finds[i]
      BY <1>2, <1>3, <1>4 DEF Range
    <3>3. (CHOOSE x \in Range(finds) : x.folder = walk[i]) = finds[i]
      BY <3>1, <3>2
    <3>4. walk[i] \in DOMAIN disk
      BY <1>2
    <3> QED BY <2>1, <3>3, <3>4
  <2> QED BY <2>1, <2>2
<1> DEFINE after == disk'
<1>a. ASSUME NEW f \in DOMAIN disk
      PROVE  \E i \in 1..n : /\ walk[i] = f /\ finds[i].folder = f
                             /\ after[f] = [slug |-> finds[i].slug, label |-> finds[i].label]
  <2>1. PICK i \in 1..n : walk[i] = f
    BY <1>2
  <2> QED BY <1>4, <1>5, <2>1
<1>6. \A f \in DOMAIN disk : disk[f] \in Manifest
  BY DEF AddressTypes
<1>7. \A i \in 1..n : finds[i].slug \in Name /\ finds[i].label \in Name \union {NoName}
  BY <1>4 DEF Record
<1>8. disk' \in [DOMAIN disk -> Manifest] /\ \A f \in DOMAIN disk : disk'[f].slug \in Name
  <2>1. \A f \in DOMAIN disk : disk'[f] \in Manifest /\ disk'[f].slug \in Name
    <3> SUFFICES ASSUME NEW f \in DOMAIN disk PROVE after[f] \in Manifest /\ after[f].slug \in Name
      OBVIOUS
    <3>1. PICK i \in 1..n : walk[i] = f /\ after[f] = [slug |-> finds[i].slug, label |-> finds[i].label]
      BY <1>a
    <3> HIDE DEF after
    <3> QED BY <3>1, <1>7 DEF Manifest
  <2>2. disk' = [f \in DOMAIN disk |-> disk'[f]]
    BY <1>1 DEF ScanBy
  <2> QED BY <2>1, <2>2
<1>9. \A f \in OnDisk : disk'[f] = disk[f]
  <2> SUFFICES ASSUME NEW f \in OnDisk PROVE disk'[f] = disk[f]
    OBVIOUS
  <2>1. f \in DOMAIN disk /\ disk[f].slug # NoName
    BY DEF OnDisk
  <2>2. disk'[f] = [slug |-> disk[f].slug, label |-> disk[f].label]
    <3>1. PICK i \in 1..n : walk[i] = f /\ after[f] = [slug |-> finds[i].slug, label |-> finds[i].label]
      BY <1>a, <2>1
    <3>2. finds[i].slug = disk[f].slug /\ finds[i].label = disk[f].label
      BY <1>4, <2>1, <3>1
    <3> QED BY <3>1, <3>2
  <2>3. disk[f] = [slug |-> disk[f].slug, label |-> disk[f].label]
    BY <1>6, <2>1 DEF Manifest
  <2> QED BY <2>2, <2>3
<1>10. \A f \in DOMAIN disk \ OnDisk : disk'[f].label = NoName
  <2> SUFFICES ASSUME NEW f \in DOMAIN disk \ OnDisk PROVE disk'[f].label = NoName
    OBVIOUS
  <2>1. disk[f].slug = NoName
    BY DEF OnDisk
  <2>2. PICK i \in 1..n : walk[i] = f /\ after[f] = [slug |-> finds[i].slug, label |-> finds[i].label]
    BY <1>a
  <2>3. finds[i].label = NoName
    BY <1>4, <2>1, <2>2
  <2> QED BY <2>2, <2>3
<1>11. \A f, g \in DOMAIN disk \ OnDisk : disk'[f].slug = disk'[g].slug => f = g
  <2> SUFFICES ASSUME NEW f \in DOMAIN disk \ OnDisk, NEW g \in DOMAIN disk \ OnDisk, disk'[f].slug = disk'[g].slug
               PROVE  f = g
    OBVIOUS
  <2>1. PICK i \in 1..n : walk[i] = f /\ after[f] = [slug |-> finds[i].slug, label |-> finds[i].label]
    BY <1>a
  <2>2. PICK j \in 1..n : walk[j] = g /\ after[g] = [slug |-> finds[j].slug, label |-> finds[j].label]
    BY <1>a
  <2>3. finds[i].slug = finds[j].slug
    BY <2>1, <2>2
  <2>4. disk[walk[i]].slug = NoName /\ disk[walk[j]].slug = NoName
    BY <2>1, <2>2 DEF OnDisk
  <2>5. ~(i < j)
    <3> SUFFICES ASSUME i < j PROVE FALSE
      OBVIOUS
    <3>1. i \in 1..(j - 1)
      OBVIOUS
    <3> QED BY <1>4, <2>3, <2>4, <3>1
  <2>6. ~(j < i)
    <3> SUFFICES ASSUME j < i PROVE FALSE
      OBVIOUS
    <3>1. j \in 1..(i - 1)
      OBVIOUS
    <3> QED BY <1>4, <2>3, <2>4, <3>1
  <2>7. i = j
    BY <2>5, <2>6
  <2> QED BY <2>1, <2>2, <2>7
<1>12. excuses' = excuses \union Excused(finds) \union (IF Alone(t) THEN {} ELSE {"label"})
  BY <1>1 DEF ScanBy
<1>13. excuses \subseteq excuses' /\ excuses' \subseteq {"slug", "label"}
  BY <1>12 DEF AddressTypes, Excused
<1>14. ASSUME NEW f \in DOMAIN disk \ OnDisk, NEW g \in OnDisk
       PROVE  /\ disk'[f].slug = disk[g].slug => "slug" \in excuses'
              /\ disk'[f].slug = Effective(disk[g]) => "label" \in excuses'
  <2>1. PICK i \in 1..n : walk[i] = f /\ after[f] = [slug |-> finds[i].slug, label |-> finds[i].label]
    BY <1>a
  <2>2. PICK j \in 1..n : walk[j] = g
    BY <1>2 DEF OnDisk
  <2> DEFINE fresh == {r \in Range(finds) : disk[r.folder].slug = NoName}
             old == Range(finds) \ fresh
  <2>3. finds[i] \in fresh
    BY <1>3, <1>4, <2>1 DEF OnDisk, Range
  <2>4. finds[j] \in old
    BY <1>3, <1>4, <2>2 DEF OnDisk, Range
  <2>5. disk'[f].slug = finds[i].slug /\ disk[g].slug = finds[j].slug /\ disk[g].label = finds[j].label
    <3>1. disk[g].slug # NoName
      BY DEF OnDisk
    <3>2. disk[g].slug = finds[j].slug /\ disk[g].label = finds[j].label
      BY <1>4, <2>2, <3>1
    <3> QED BY <2>1, <3>2
  <2>6. Effective(disk[g]) = Effective(finds[j])
    BY <2>5 DEF Effective
  <2>7. Excused(finds) = {x \in {"slug", "label"} :
           \E r \in fresh, o \in old : r.slug = (IF x = "slug" THEN o.slug ELSE Effective(o))}
    BY DEF Excused
  <2> HIDE DEF fresh, old
  <2>8. disk'[f].slug = disk[g].slug => "slug" \in Excused(finds)
    BY <2>3, <2>4, <2>5, <2>7
  <2>9. disk'[f].slug = Effective(disk[g]) => "label" \in Excused(finds)
    BY <2>3, <2>4, <2>5, <2>6, <2>7
  <2> QED BY <1>12, <2>8, <2>9
<1>15. "label" \notin excuses' => Alone(t)
  BY <1>12
<1>16. /\ sorted \in Seq(Record)
       /\ Range(sorted) = {[folder |-> f, slug |-> disk'[f].slug, label |-> disk'[f].label] : f \in DOMAIN disk}
       /\ thread' = [thread EXCEPT ![t] = [Idle EXCEPT !.step = "take", !.records = sorted]]
  <2>1. /\ sorted \in Seq(Record) /\ Range(sorted) = Range(finds)
        /\ thread' = [thread EXCEPT ![t] = [Idle EXCEPT !.step = "take", !.records = sorted]]
    BY <1>1 DEF ScanBy
  <2>2. ASSUME NEW f \in DOMAIN disk, NEW i \in 1..n, walk[i] = f
        PROVE  finds[i] = [folder |-> f, slug |-> after[f].slug, label |-> after[f].label]
    <3>1. finds[i] = [folder |-> finds[i].folder, slug |-> finds[i].slug, label |-> finds[i].label]
      BY <1>4 DEF Record
    <3>2. PICK j \in 1..n : walk[j] = f /\ after[f] = [slug |-> finds[j].slug, label |-> finds[j].label]
      BY <1>a
    <3>3. j = i
      BY <1>2, <2>2, <3>2
    <3>4. finds[i].folder = f
      BY <1>4, <2>2
    <3> HIDE DEF after
    <3> QED BY <3>1, <3>2, <3>3, <3>4
  <2>3. Range(finds) = {[folder |-> f, slug |-> after[f].slug, label |-> after[f].label] : f \in DOMAIN disk}
    <3>1. Range(finds) = {finds[i] : i \in 1..n}
      BY <1>3 DEF Range
    <3>2. \A i \in 1..n : walk[i] \in DOMAIN disk
      BY <1>2
    <3> DEFINE Rec(f) == [folder |-> f, slug |-> after[f].slug, label |-> after[f].label]
    <3>3. \A f \in DOMAIN disk : \E i \in 1..n : finds[i] = Rec(f)
      BY <1>2, <2>2
    <3>4. \A i \in 1..n : \E f \in DOMAIN disk : finds[i] = Rec(f)
      BY <3>2, <2>2
    <3> HIDE DEF Rec
    <3>5. Range(finds) = {Rec(f) : f \in DOMAIN disk}
      BY <3>1, <3>3, <3>4
    <3> QED BY <3>5 DEF Rec
  <2> QED BY <2>1, <2>3
<1> QED BY <1>8, <1>9, <1>10, <1>11, <1>13, <1>14, <1>15, <1>16

-----------------------------------------------------------------------------
(* What is announced stays apart.                                          *)

\* One thread goes on; what it holds then was held before.
LEMMA ThreadGoesOn ==
    ASSUME AddressTypes, NEW t \in Thread, NEW s \in ThreadState, s.previous \subseteq Held,
           thread' = [thread EXCEPT ![t] = s], library' \subseteq library
    PROVE  /\ thread' \in [Thread -> ThreadState] /\ thread'[t] = s
           /\ \A u \in Thread : u # t => thread'[u] = thread[u]
           /\ Held' \subseteq Held
<1>1. thread \in [Thread -> ThreadState]
  BY DEF AddressTypes
<1>2. /\ thread' \in [Thread -> ThreadState] /\ thread'[t] = s
      /\ \A u \in Thread : u # t => thread'[u] = thread[u]
  BY <1>1
<1>3. \A u \in Thread : thread'[u].previous \subseteq Held
  BY <1>2 DEF Held
<1>4. Held' \subseteq Held
  BY <1>3 DEF Held
<1> QED BY <1>2, <1>4

\* What is held are entries.
LEMMA HeldTypes == AddressTypes => Held \subseteq Placement
<1> SUFFICES ASSUME AddressTypes PROVE \A t \in Thread : thread[t].previous \subseteq Placement
  BY DEF AddressTypes, Held
<1> QED BY DEF AddressTypes, ThreadState

\* Nothing new is held, and nothing let go of that is claimed.
LEMMA HostsStay ==
    ASSUME HostsInv, AddressTypes', Held' \subseteq Held, library' \subseteq library,
           \A a \in Announcer : claimed[a] \subseteq claimed'[a]
    PROVE  HostsInv'
<1>1. OneEach(library)'
  BY DEF HostsInv, OneEach
<1>2. NamesAreClaimed'
  <2>1. \A e \in Held : e.by \in Announcer
    BY HeldTypes DEF HostsInv, Placement
  <2> QED BY <2>1 DEF HostsInv, NamesAreClaimed
<1>3. Apart(Held)
  BY DEF HostsInv, HostsApart, Held, Apart
<1>4. Apart(Held')
  BY <1>3 DEF Apart
<1>5. HostsApart'
  BY <1>2, <1>4 DEF HostsApart, Held, Apart, NamesAreClaimed
<1> QED BY <1>1, <1>2, <1>5 DEF HostsInv

\* What a thread is at rest, and what it becomes.
LEMMA IdleType ==
    AddressesAssumption =>
        /\ Idle \in ThreadState /\ Idle.previous = {} /\ Idle.step = "idle"
        /\ Idle.folder = NoFolder /\ Idle.label = NoName
<1> SUFFICES ASSUME AddressesAssumption PROVE Idle \in ThreadState
  BY DEF Idle
<1>1. <<>> \in Seq(Record)
  OBVIOUS
<1>2. {} \in SUBSET Placement /\ NoFolder \in Folder \union {NoFolder} /\ NoName \in Name \union {NoName}
  OBVIOUS
<1>3. "idle" \in Step
  BY DEF Step
<1> QED BY <1>1, <1>2, <1>3 DEF ThreadState, Idle

\* What a thread that was at rest turns to.
Scans     == [Idle EXCEPT !.step = "scan"]
Takes(r)  == [Idle EXCEPT !.step = "take", !.records = r]
Writes(f, l) == [Idle EXCEPT !.step = "write", !.folder = f, !.label = l]
Clears(f) == [Idle EXCEPT !.step = "write", !.folder = f]
TakingIt(s, z) == s \in ThreadState /\ s.previous = {} /\ s.step = z

\* Each of these is a state of a thread that holds nothing.
LEMMA IdleBecomes ==
    ASSUME AddressesAssumption, NEW r \in Seq(Record),
           NEW f \in Folder \union {NoFolder}, NEW l \in Name \union {NoName}
    PROVE  /\ TakingIt(Scans, "scan")
           /\ TakingIt(Takes(r), "take") /\ Takes(r).records = r
           /\ TakingIt(Clears(f), "write")
           /\ TakingIt(Writes(f, l), "write") /\ Writes(f, l).folder = f /\ Writes(f, l).label = l
<1> DEFINE i == Idle
<1>1. i \in ThreadState /\ i.previous = {}
  BY IdleType
<1>2. Scans = [i EXCEPT !.step = "scan"] /\ Takes(r) = [i EXCEPT !.step = "take", !.records = r]
  BY DEF Scans, Takes
<1>3. /\ Writes(f, l) = [i EXCEPT !.step = "write", !.folder = f, !.label = l]
      /\ Clears(f) = [i EXCEPT !.step = "write", !.folder = f]
  BY DEF Writes, Clears
<1>4. "scan" \in Step /\ "take" \in Step /\ "write" \in Step
  BY DEF Step
<1> HIDE DEF i
<1>5. TakingIt(Scans, "scan")
  <2> DEFINE z == "scan"
  <2>1. z \in Step /\ Scans = [i EXCEPT !.step = z]
    BY <1>2, <1>4
  <2> HIDE DEF z
  <2>2. Scans \in ThreadState /\ Scans.previous = i.previous /\ Scans.step = z
    BY <1>1, <2>1 DEF ThreadState
  <2> QED BY <1>1, <2>2 DEF TakingIt, z
<1>6. TakingIt(Takes(r), "take") /\ Takes(r).records = r
  <2> DEFINE z == "take"
  <2>1. z \in Step /\ Takes(r) = [i EXCEPT !.step = z, !.records = r]
    BY <1>2, <1>4
  <2> HIDE DEF z
  <2>2. Takes(r) \in ThreadState /\ Takes(r).previous = i.previous /\ Takes(r).step = z /\ Takes(r).records = r
    BY <1>1, <2>1 DEF ThreadState
  <2> QED BY <1>1, <2>2 DEF TakingIt, z
<1>7. TakingIt(Clears(f), "write")
  <2> DEFINE z == "write"
  <2>1. z \in Step /\ Clears(f) = [i EXCEPT !.step = z, !.folder = f]
    BY <1>3, <1>4
  <2> HIDE DEF z
  <2>2. Clears(f) \in ThreadState /\ Clears(f).previous = i.previous /\ Clears(f).step = z
    BY <1>1, <2>1 DEF ThreadState
  <2> QED BY <1>1, <2>2 DEF TakingIt, z
<1>8. TakingIt(Writes(f, l), "write") /\ Writes(f, l).folder = f /\ Writes(f, l).label = l
  <2> DEFINE z == "write"
  <2>1. z \in Step /\ Writes(f, l) = [i EXCEPT !.step = z, !.folder = f, !.label = l]
    BY <1>3, <1>4
  <2> HIDE DEF z
  <2>2. /\ Writes(f, l) \in ThreadState /\ Writes(f, l).previous = i.previous
        /\ Writes(f, l).step = z /\ Writes(f, l).folder = f /\ Writes(f, l).label = l
    BY <1>1, <2>1 DEF ThreadState
  <2> QED BY <1>1, <2>2 DEF TakingIt, z
<1> QED BY <1>5, <1>6, <1>7, <1>8

\* The daemon starts with the folders it finds.
LEMMA AddressInit == AddressesAssumption /\ Init => AddressInv
<1> SUFFICES ASSUME AddressesAssumption, Init PROVE AddressInv
  OBVIOUS
<1>1. PICK there \in SUBSET Folder : IsFiniteSet(there) /\ disk = [f \in there |-> Bare]
  BY DEF Init
<1>2. DOMAIN disk = there /\ \A f \in there : disk[f] = Bare
  BY <1>1
<1>3. disk \in [DOMAIN disk -> Manifest] /\ OnDisk = {}
  <2>1. Bare \in Manifest /\ Bare.slug = NoName
    BY DEF Bare, Manifest
  <2> QED BY <1>1, <1>2, <2>1 DEF OnDisk
<1>4. /\ watched = FALSE /\ dirty = FALSE /\ handle \in Handle \union {NoName} /\ library = {}
      /\ claimed = [a \in Announcer |-> {}] /\ conflicts = [a \in Announcer |-> {}]
      /\ thread = [t \in Thread |-> IF t = Watcher THEN Scans ELSE Idle]
      /\ excuses = {} /\ hands = 0 /\ commands = 0
  BY DEF Init, Scans
<1>5. /\ thread \in [Thread -> ThreadState] /\ \A t \in Thread : thread[t].previous = {}
      /\ thread[Watcher].step = "scan" /\ \A t \in Thread : t # Watcher => thread[t].step = "idle"
  <2>1. <<>> \in Seq(Record) /\ NoFolder \in Folder \union {NoFolder} /\ NoName \in Name \union {NoName}
    OBVIOUS
  <2>2. Scans \in ThreadState /\ Scans.previous = {} /\ Scans.step = "scan"
    BY <2>1, IdleBecomes DEF TakingIt
  <2>3. Watcher \in Thread
    BY DEF Thread
  <2> QED BY <1>4, <2>2, <2>3, IdleType
<1>6. /\ claimed \in [Announcer -> SUBSET Name] /\ conflicts \in [Announcer -> SUBSET Name]
      /\ \A a \in Announcer : IsFiniteSet(claimed[a]) /\ conflicts[a] \subseteq claimed[a]
  BY <1>4, FS_EmptySet
<1>7. hands \in 0 .. MaxHands /\ commands \in 0 .. MaxCommands
  BY <1>4 DEF AddressesAssumption
<1>8. AddressTypes
  BY <1>1, <1>2, <1>3, <1>4, <1>5, <1>6, <1>7 DEF AddressTypes
<1>9. Held = {}
  BY <1>4, <1>5 DEF Held
<1>10. HostsInv
  BY <1>4, <1>8, <1>9 DEF HostsInv, OneEach, NamesAreClaimed, HostsApart, Held
<1>11. Watcher \in Thread /\ Watcher \notin Client
  BY DEF Thread, AddressesAssumption
<1>12. \A c \in Client : thread[c].step = "idle"
  BY <1>5, <1>11 DEF Thread
<1>13. SlugsApart /\ LabelsApart
  BY <1>3 DEF SlugsApart, LabelsApart
<1>14. OneAtWork /\ LabelIsFree /\ LibraryIsFiled
  BY <1>4, <1>5, <1>11, <1>12 DEF OneAtWork, LabelIsFree, LibraryIsFiled, Busy, Scanning, Holding
<1> QED BY <1>10, <1>13, <1>14 DEF AddressInv, LabelsInv

-----------------------------------------------------------------------------
\* What is announced stays apart, scan by scan.
LEMMA ScanKeepsHosts ==
    ASSUME AddressesAssumption, HostsInv, NEW t \in Thread, Scan(t)
    PROVE  HostsInv'
<1>1. AddressTypes
  BY DEF HostsInv
<1>2. /\ disk' \in [DOMAIN disk -> Manifest]
      /\ excuses' \subseteq {"slug", "label"}
  BY <1>1, ScanNames
<1>3. PICK sorted \in Seq(Record) : thread' = [thread EXCEPT ![t] = Takes(sorted)]
  BY <1>1, ScanNames DEF Takes
<1> DEFINE s == Takes(sorted)
<1>4. s \in ThreadState /\ s.previous = {}
  <2>1. NoFolder \in Folder \union {NoFolder} /\ NoName \in Name \union {NoName}
    OBVIOUS
  <2>2. TakingIt(Takes(sorted), "take")
    BY <2>1, IdleBecomes
  <2> QED BY <2>2 DEF TakingIt
<1>5. UNCHANGED <<watched, handle, library, claimed, conflicts, hands, commands>> /\ dirty' \in BOOLEAN
  BY <1>1 DEF Scan, AddressTypes
<1>6. thread' \in [Thread -> ThreadState] /\ Held' \subseteq Held
  <2>1. thread' = [thread EXCEPT ![t] = s]
    BY <1>3
  <2>2. s.previous \subseteq Held
    <3> HIDE DEF s
    <3> QED BY <1>4
  <2> HIDE DEF s
  <2> QED BY <1>1, <1>4, <1>5, <2>1, <2>2, ThreadGoesOn
<1>7. AddressTypes'
  <2>1. DOMAIN disk' = DOMAIN disk
    BY <1>2
  <2> QED BY <1>1, <1>2, <1>5, <1>6, <2>1 DEF AddressTypes
<1> QED BY <1>5, <1>6, <1>7, HostsStay

\* The library that is taken out is in the hands of who took it.
LEMMA TakeKeepsHosts ==
    ASSUME AddressesAssumption, HostsInv, NEW t \in Thread, Take(t)
    PROVE  HostsInv'
<1>1. AddressTypes /\ library \subseteq Placement
  BY DEF HostsInv, AddressTypes
<1> DEFINE s == [thread[t] EXCEPT !.step = "install", !.previous = library]
<1>2. thread[t] \in ThreadState
  BY <1>1 DEF AddressTypes
<1>3. s \in ThreadState /\ s.previous = library
  <2>1. "install" \in Step
    BY DEF Step
  <2> QED BY <1>1, <1>2, <2>1 DEF ThreadState
<1>4. /\ thread' = [thread EXCEPT ![t] = s] /\ library' = {}
      /\ UNCHANGED <<disk, watched, dirty, handle, claimed, conflicts, excuses, hands, commands>>
  BY <1>1 DEF Take, AddressTypes
<1>5. thread' \in [Thread -> ThreadState] /\ Held' \subseteq Held
  <2>1. s.previous \subseteq Held
    <3> HIDE DEF s
    <3> QED BY <1>3 DEF Held
  <2>2. library' \subseteq library
    BY <1>4
  <2> HIDE DEF s
  <2> QED BY <1>1, <1>3, <1>4, <2>1, <2>2, ThreadGoesOn
<1>6. AddressTypes'
  BY <1>1, <1>4, <1>5 DEF AddressTypes
<1> QED BY <1>4, <1>5, <1>6, HostsStay

\* Library::replace_announcing: what an installed library has come to.
Installed(t, heard, placed) ==
    /\ placed = FoldLeft(Placed, [previous |-> thread[t].previous, claimed |-> claimed[InUse],
                                  library |-> {}, heard |-> heard], thread[t].records)
    /\ library' = placed.library /\ claimed' = [claimed EXCEPT ![InUse] = placed.claimed]
    /\ placed \in Placing
    /\ claimed[InUse] \subseteq placed.claimed
    /\ \A e \in placed.library \union Held : ClaimedIn(placed.claimed, e)
    /\ Apart(placed.library \union Held)
    /\ OneEach(placed.library)
    /\ \A e \in placed.library : \E j \in 1..Len(thread[t].records) : Serves(e, thread[t].records[j])
    /\ Distinct(thread[t].records) =>
         \A j \in 1..Len(thread[t].records) : \E e \in placed.library : Serves(e, thread[t].records[j])

\* Every library put back is put together so.
LEMMA InstallIsPlacing ==
    ASSUME AddressesAssumption, HostsInv, NEW t \in Thread, Install(t)
    PROVE  \E heard, placed : Installed(t, heard, placed)
<1>1. AddressTypes /\ thread[t] \in ThreadState
  BY DEF HostsInv, AddressTypes
<1>2. PICK heard \in {TRUE, ~MayFail} :
        LET placed == FoldLeft(Placed, [previous |-> thread[t].previous, claimed |-> claimed[InUse],
                                        library |-> {}, heard |-> heard], thread[t].records)
        IN  library' = placed.library /\ claimed' = [claimed EXCEPT ![InUse] = placed.claimed]
  BY DEF Install
<1> DEFINE first == [previous |-> thread[t].previous, claimed |-> claimed[InUse], library |-> {}, heard |-> heard]
           records == thread[t].records
           placed == FoldLeft(Placed, first, records)
<1>3. library' = placed.library /\ claimed' = [claimed EXCEPT ![InUse] = placed.claimed]
  BY <1>2
<1>4. records \in Seq(Record) /\ thread[t].previous \subseteq Placement
  BY <1>1 DEF ThreadState
<1>5. first \in Placing
  <2>1. heard \in BOOLEAN
    BY DEF AddressesAssumption
  <2>2. claimed[InUse] \in {c \in SUBSET Name : IsFiniteSet(c)} /\ {} \in SUBSET Placement
    BY <1>1 DEF AddressTypes, InUse, Announcer
  <2> QED BY <1>4, <2>1, <2>2 DEF Placing
<1>6. first.previous = thread[t].previous /\ first.claimed = claimed[InUse] /\ first.library = {}
  OBVIOUS
<1>7. first.previous \subseteq Held
  BY DEF Held
<1>8. PlacedSoFar(first, first, Held, records, 0)
  <2>1. \A e \in Held : ClaimedIn(claimed[InUse], e)
    BY DEF HostsInv, NamesAreClaimed, ClaimedIn
  <2>2. Apart(Held)
    BY DEF HostsInv, HostsApart, Held, Apart
  <2> HIDE DEF Held
  <2> HIDE DEF first, records
  <2> QED BY <1>5, <1>6, <2>1, <2>2 DEF PlacedSoFar, OneEach
<1>9. PlacedSoFar(placed, first, Held, records, Len(records))
  <2> DEFINE others == Held
  <2>1. first.previous \subseteq others /\ PlacedSoFar(first, first, others, records, 0)
    BY <1>7, <1>8
  <2> HIDE DEF others, first, records
  <2>2. PlacedSoFar(FoldLeft(Placed, first, records), first, others, records, Len(records))
    BY <1>1, <1>4, <1>5, <2>1, AllPlaced
  <2> QED BY <2>2 DEF others
<1>10. Installed(t, heard, placed)
  <2> HIDE DEF placed
  <2>1. placed = FoldLeft(Placed, [previous |-> thread[t].previous, claimed |-> claimed[InUse],
                                  library |-> {}, heard |-> heard], thread[t].records)
    BY DEF placed
  <2>2. PlacedSoFar(placed, first, Held, thread[t].records, Len(thread[t].records)) /\ first.claimed = claimed[InUse]
    BY <1>6, <1>9
  <2> HIDE DEF first, records
  <2> QED BY <1>3, <2>1, <2>2 DEF Installed, PlacedSoFar
<1> HIDE DEF placed
<1> QED BY <1>10

\* And no name in it, or in anybody's hands, is of two slugs.
LEMMA InstallKeepsHosts ==
    ASSUME AddressesAssumption, HostsInv, NEW t \in Thread, Install(t)
    PROVE  HostsInv'
<1>1. AddressTypes
  BY DEF HostsInv
<1>2. PICK heard, placed : Installed(t, heard, placed)
  BY InstallIsPlacing
<1>3. /\ library' = placed.library /\ claimed' = [claimed EXCEPT ![InUse] = placed.claimed]
      /\ placed.library \subseteq Placement /\ placed.claimed \subseteq Name /\ IsFiniteSet(placed.claimed)
      /\ claimed[InUse] \subseteq placed.claimed
  BY <1>2 DEF Installed, Placing
<1>4. /\ thread' = [thread EXCEPT ![t] = Idle]
      /\ UNCHANGED <<disk, watched, dirty, handle, conflicts, excuses, hands, commands>>
  BY DEF Install
<1>5. thread' \in [Thread -> ThreadState] /\ thread'[t] = Idle /\ \A u \in Thread : u # t => thread'[u] = thread[u]
  BY <1>1, <1>4, IdleType DEF AddressTypes
<1>6. AddressTypes'
  <2>1. InUse \in Announcer /\ claimed \in [Announcer -> SUBSET Name]
    BY <1>1 DEF AddressTypes, InUse, Announcer
  <2>2. /\ claimed' \in [Announcer -> SUBSET Name] /\ claimed'[InUse] = placed.claimed
        /\ \A a \in Announcer : a # InUse => claimed'[a] = claimed[a]
    BY <1>3, <2>1
  <2>3. \A a \in Announcer : IsFiniteSet(claimed'[a]) /\ conflicts'[a] \subseteq claimed'[a]
    BY <1>1, <1>3, <1>4, <2>1, <2>2 DEF AddressTypes
  <2> QED BY <1>1, <1>3, <1>4, <1>5, <2>2, <2>3 DEF AddressTypes
<1>7. Held' \subseteq placed.library \union Held
  <2>1. \A u \in Thread : thread'[u].previous \subseteq Held
    BY <1>5, IdleType DEF Held
  <2> QED BY <1>3, <2>1 DEF Held
<1>8. NamesAreClaimed'
  <2>1. \A e \in placed.library \union Held : ClaimedIn(placed.claimed, e) /\ e.by \in Announcer
    BY <1>1, <1>2, <1>3, HeldTypes DEF Installed, Placement
  <2>2. \A e \in placed.library \union Held : e.host = NoName \/ e.host \in claimed'[e.by]
    BY <1>1, <1>3, <2>1 DEF ClaimedIn, AddressTypes
  <2> QED BY <1>7, <2>2 DEF NamesAreClaimed
<1>9. Apart(Held')
  <2>1. Apart(placed.library \union Held)
    BY <1>2 DEF Installed
  <2> QED BY <1>7, <2>1 DEF Apart
<1>10. HostsApart'
  BY <1>8, <1>9 DEF HostsApart, Held, Apart, NamesAreClaimed
<1>11. OneEach(library)'
  BY <1>2, <1>3 DEF Installed, OneEach
<1> QED BY <1>6, <1>8, <1>10, <1>11 DEF HostsInv

\* What is announced is left as it is, whatever becomes of the folders.
NothingAnnounced ==
    /\ library' = library /\ claimed' = claimed /\ conflicts' \in [Announcer -> SUBSET Name]
    /\ \A a \in Announcer : conflicts'[a] \subseteq claimed[a]
    /\ DOMAIN disk' \subseteq Folder /\ IsFiniteSet(DOMAIN disk') /\ disk' \in [DOMAIN disk' -> Manifest]
    /\ watched' \in BOOLEAN /\ dirty' \in BOOLEAN /\ handle' \in Handle \union {NoName}
    /\ excuses' \subseteq {"slug", "label"}
    /\ hands' \in 0 .. MaxHands /\ commands' \in 0 .. MaxCommands

\* A thread that turns to something else and holds what it held.
LEMMA TurningKeepsHosts ==
    ASSUME HostsInv, NothingAnnounced, NEW t \in Thread, NEW s \in ThreadState, s.previous \subseteq Held,
           thread' = [thread EXCEPT ![t] = s]
    PROVE  HostsInv'
<1>1. AddressTypes
  BY DEF HostsInv
<1>2. library' \subseteq library /\ \A a \in Announcer : claimed[a] \subseteq claimed'[a]
  BY DEF NothingAnnounced
<1>3. thread' \in [Thread -> ThreadState] /\ Held' \subseteq Held
  BY <1>1, <1>2, ThreadGoesOn
<1>4. AddressTypes'
  BY <1>1, <1>3 DEF AddressTypes, NothingAnnounced
<1> QED BY <1>2, <1>3, <1>4, HostsStay

\* And a step of nobody's thread.
LEMMA ElsewhereKeepsHosts ==
    ASSUME HostsInv, NothingAnnounced, UNCHANGED thread
    PROVE  HostsInv'
<1>1. AddressTypes
  BY DEF HostsInv
<1>2. library' \subseteq library /\ (\A a \in Announcer : claimed[a] \subseteq claimed'[a]) /\ Held' \subseteq Held
  BY DEF NothingAnnounced, Held
<1>3. AddressTypes'
  BY <1>1 DEF AddressTypes, NothingAnnounced
<1> QED BY <1>2, <1>3, HostsStay

\* Bounds stay bounds.
LEMMA CountersStay ==
    ASSUME AddressesAssumption, AddressTypes
    PROVE  /\ Command => commands' \in 0 .. MaxCommands
           /\ ByHand => hands' \in 0 .. MaxHands /\ dirty' \in BOOLEAN /\ UNCHANGED watched
  BY DEF AddressesAssumption, AddressTypes, Command, ByHand

\* share.set_public_label, asked for: the client is about to write.
LEMMA AskingKeepsHosts ==
    ASSUME AddressesAssumption, HostsInv, NEW c \in Client, NEW e \in library, NEW l \in Label \union {NoName},
           NEW s, s \in {Writes(e.folder, l), Clears(e.folder)}, thread' = [thread EXCEPT ![c] = s],
           UNCHANGED <<disk, watched, dirty, handle, library, claimed, conflicts, hands>>, Command,
           excuses' \in {excuses, excuses \union {"label"}}
    PROVE  HostsInv'
<1>1. AddressTypes /\ c \in Thread /\ library \subseteq Placement
  BY DEF HostsInv, AddressTypes, Thread
<1>2. e.folder \in Folder \union {NoFolder} /\ l \in Name \union {NoName} /\ <<>> \in Seq(Record)
  BY <1>1 DEF Placement, AddressesAssumption
<1>3. TakingIt(Writes(e.folder, l), "write") /\ TakingIt(Clears(e.folder), "write")
  BY <1>2, IdleBecomes
<1>4. NothingAnnounced
  BY <1>1, CountersStay DEF NothingAnnounced, AddressTypes
<1>5. s \in ThreadState /\ s.previous \subseteq Held
  BY <1>3 DEF TakingIt
<1> QED BY <1>1, <1>4, <1>5, TurningKeepsHosts

\* What writing a label does to the manifests.
LEMMA LabelWritten ==
    ASSUME AddressTypes, NEW f \in OnDisk, NEW l \in Name \union {NoName}, disk' = [disk EXCEPT ![f].label = l]
    PROVE  /\ DOMAIN disk' = DOMAIN disk /\ disk' \in [DOMAIN disk -> Manifest] /\ OnDisk' = OnDisk
           /\ disk'[f].slug = disk[f].slug /\ disk'[f].label = l
           /\ \A g \in DOMAIN disk : g # f => disk'[g] = disk[g]
<1>1. disk \in [DOMAIN disk -> Manifest] /\ f \in DOMAIN disk
  BY DEF AddressTypes, OnDisk
<1>2. /\ DOMAIN disk' = DOMAIN disk /\ disk'[f] = [disk[f] EXCEPT !.label = l]
      /\ \A g \in DOMAIN disk : g # f => disk'[g] = disk[g]
  BY <1>1
<1>3. disk'[f] \in Manifest /\ disk'[f].slug = disk[f].slug /\ disk'[f].label = l
  <2> DEFINE m == disk[f]
             n == disk'[f]
  <2>1. m \in Manifest /\ n = [m EXCEPT !.label = l]
    BY <1>1, <1>2
  <2> HIDE DEF m, n
  <2>2. n \in Manifest /\ n.slug = m.slug /\ n.label = l
    BY <2>1 DEF Manifest
  <2> QED BY <2>2 DEF m, n
<1>4. disk' \in [DOMAIN disk -> Manifest]
  BY <1>1, <1>2, <1>3
<1>5. OnDisk' = OnDisk
  BY <1>1, <1>2, <1>3 DEF OnDisk
<1> QED BY <1>2, <1>3, <1>4, <1>5

\* write_public_label.
LEMMA WritingKeepsHosts ==
    ASSUME AddressesAssumption, HostsInv, NEW c \in Client, WriteLabel(c)
    PROVE  HostsInv'
<1>1. AddressTypes /\ c \in Thread /\ thread[c] \in ThreadState
  BY DEF HostsInv, AddressTypes, Thread
<1> DEFINE f == thread[c].folder
           l == thread[c].label
<1>2. l \in Name \union {NoName}
  BY <1>1 DEF ThreadState
<1>3. UNCHANGED <<watched, handle, library, claimed, conflicts, excuses, hands, commands>>
  BY DEF WriteLabel
<1>4. CASE f \in OnDisk
  <2>1. disk' = [disk EXCEPT ![f].label = l] /\ dirty' = TRUE
    BY <1>4 DEF WriteLabel
  <2> DEFINE s == Scans
  <2>2. thread' = [thread EXCEPT ![c] = s]
    BY <1>4 DEF WriteLabel, Scans
  <2>3. DOMAIN disk' = DOMAIN disk /\ disk' \in [DOMAIN disk -> Manifest]
    <3> HIDE DEF f, l
    <3> QED BY <1>1, <1>2, <1>4, <2>1, LabelWritten
  <2>4. NothingAnnounced
    BY <1>1, <1>3, <2>1, <2>3 DEF NothingAnnounced, AddressTypes
  <2>5. s \in ThreadState /\ s.previous \subseteq Held
    <3>1. <<>> \in Seq(Record) /\ NoFolder \in Folder \union {NoFolder} /\ NoName \in Name \union {NoName}
      OBVIOUS
    <3>2. TakingIt(Scans, "scan")
      BY <3>1, IdleBecomes
    <3> QED BY <3>2 DEF TakingIt
  <2> HIDE DEF s
  <2> QED BY <1>1, <2>2, <2>4, <2>5, TurningKeepsHosts
<1>5. CASE f \notin OnDisk
  <2>1. UNCHANGED <<disk, dirty>> /\ thread' = [thread EXCEPT ![c] = Idle]
    BY <1>5 DEF WriteLabel
  <2>2. NothingAnnounced
    BY <1>1, <1>3, <2>1 DEF NothingAnnounced, AddressTypes
  <2>3. Idle \in ThreadState /\ Idle.previous \subseteq Held
    BY IdleType
  <2> QED BY <1>1, <2>1, <2>2, <2>3, TurningKeepsHosts
<1> QED BY <1>4, <1>5

\* What a change by hand leaves of the folders.
LEMMA FoldersChange ==
    ASSUME AddressesAssumption, AddressTypes, NEW f \in Folder, NEW from \in Folder,
           AddFolder(f) \/ CopyFolder(f, from) \/ RemoveFolder(f)
    PROVE  /\ DOMAIN disk' \subseteq Folder /\ IsFiniteSet(DOMAIN disk')
           /\ disk' \in [DOMAIN disk' -> Manifest]
           /\ dirty' \in BOOLEAN /\ UNCHANGED watched /\ hands' \in 0 .. MaxHands
<1>1. DOMAIN disk \subseteq Folder /\ IsFiniteSet(DOMAIN disk) /\ disk \in [DOMAIN disk -> Manifest]
  BY DEF AddressTypes
<1>2. ByHand
  BY DEF AddFolder, CopyFolder, RemoveFolder
<1>3. dirty' \in BOOLEAN /\ UNCHANGED watched /\ hands' \in 0 .. MaxHands
  BY <1>2, CountersStay
<1>4. IsFiniteSet(DOMAIN disk \union {f}) /\ IsFiniteSet(DOMAIN disk \ {f})
  BY <1>1, FS_AddElement, FS_RemoveElement
<1>5. Bare \in Manifest
  BY DEF Bare, Manifest
<1>6. CASE AddFolder(f)
  BY <1>1, <1>3, <1>4, <1>5, <1>6 DEF AddFolder
<1>7. CASE CopyFolder(f, from)
  <2>1. disk[from] \in Manifest
    BY <1>1, <1>7 DEF CopyFolder, OnDisk
  <2> QED BY <1>1, <1>3, <1>4, <1>7, <2>1 DEF CopyFolder
<1>8. CASE RemoveFolder(f)
  BY <1>1, <1>3, <1>4, <1>8 DEF RemoveFolder
<1> QED BY <1>6, <1>7, <1>8

\* A change made by hand is announced by nobody yet.
LEMMA FoldersKeepHosts ==
    ASSUME AddressesAssumption, HostsInv, NEW f \in Folder, NEW from \in Folder,
           AddFolder(f) \/ CopyFolder(f, from) \/ RemoveFolder(f)
    PROVE  HostsInv'
<1>1. AddressTypes
  BY DEF HostsInv
<1>2. UNCHANGED <<handle, library, claimed, conflicts, thread, commands>> /\ excuses' \subseteq {"slug", "label"}
  BY <1>1 DEF AddFolder, CopyFolder, RemoveFolder, AddressTypes
<1>3. NothingAnnounced
  BY <1>1, <1>2, FoldersChange DEF NothingAnnounced, AddressTypes
<1> QED BY <1>2, <1>3, ElsewhereKeepsHosts

\* A watcher that wakes holds what it held.
LEMMA WakingKeepsHosts ==
    ASSUME AddressesAssumption, HostsInv, WatcherWakes
    PROVE  HostsInv'
<1>1. AddressTypes /\ Watcher \in Thread /\ thread[Watcher] \in ThreadState
  BY DEF HostsInv, AddressTypes, Thread
<1> DEFINE i == thread[Watcher]
           z == "scan"
           s == [i EXCEPT !.step = z]
<1>2. z \in Step
  BY DEF Step
<1>3. /\ UNCHANGED <<disk, watched, handle, library, claimed, conflicts, excuses, hands, commands>> /\ dirty' = FALSE
      /\ thread' = [thread EXCEPT ![Watcher] = s]
  BY <1>1 DEF WatcherWakes, AddressTypes
<1>4. NothingAnnounced
  BY <1>1, <1>3 DEF NothingAnnounced, AddressTypes
<1>5. i \in ThreadState /\ i.previous \subseteq Held
  BY <1>1 DEF Held
<1>6. s \in ThreadState /\ s.previous = i.previous
  <2> HIDE DEF i, z
  <2> QED BY <1>2, <1>5 DEF ThreadState
<1> HIDE DEF i, z, s
<1> QED BY <1>1, <1>3, <1>4, <1>5, <1>6, TurningKeepsHosts

\* Every step keeps what is announced apart.
LEMMA HostsStep == AddressesAssumption /\ HostsInv /\ [Next]_vars => HostsInv'
<1> SUFFICES ASSUME AddressesAssumption, HostsInv, [Next]_vars PROVE HostsInv'
  OBVIOUS
<1>1. AddressTypes
  BY DEF HostsInv
<1>2. ASSUME NEW t \in Thread, Rescan(t) PROVE HostsInv'
  BY <1>2, ScanKeepsHosts, TakeKeepsHosts, InstallKeepsHosts DEF Rescan
<1>3. ASSUME NEW c \in Client, NEW e \in library, NEW label \in Label, AskLabel(c, e, label) PROVE HostsInv'
  <2> DEFINE s == Writes(e.folder, label)
  <2>1. thread' = [thread EXCEPT ![c] = s] /\ s \in {Writes(e.folder, label), Clears(e.folder)}
    BY <1>3 DEF AskLabel, Writes
  <2>2. /\ UNCHANGED <<disk, watched, dirty, handle, library, claimed, conflicts, hands>> /\ Command
        /\ excuses' \in {excuses, excuses \union {"label"}} /\ label \in Label \union {NoName}
    BY <1>3 DEF AskLabel
  <2> HIDE DEF s
  <2> QED BY <2>1, <2>2, AskingKeepsHosts
<1>4. ASSUME NEW c \in Client, NEW e \in library, AskNoLabel(c, e) PROVE HostsInv'
  <2> DEFINE s == Clears(e.folder)
  <2>1. thread' = [thread EXCEPT ![c] = s] /\ s \in {Writes(e.folder, NoName), Clears(e.folder)}
    BY <1>4 DEF AskNoLabel, Clears
  <2>2. /\ UNCHANGED <<disk, watched, dirty, handle, library, claimed, conflicts, hands>> /\ Command
        /\ excuses' \in {excuses, excuses \union {"label"}} /\ NoName \in Label \union {NoName}
    BY <1>4 DEF AskNoLabel
  <2> HIDE DEF s
  <2> QED BY <2>1, <2>2, AskingKeepsHosts
<1>5. ASSUME NEW c \in Client, WriteLabel(c) PROVE HostsInv'
  BY <1>5, WritingKeepsHosts
<1>6. ASSUME NEW h \in Handle \union {NoName}, SetIdentity(h) PROVE HostsInv'
  <2>1. NothingAnnounced
    BY <1>1, <1>6, CountersStay DEF SetIdentity, NothingAnnounced, AddressTypes
  <2>2. UNCHANGED thread
    BY <1>6 DEF SetIdentity
  <2> QED BY <2>1, <2>2, ElsewhereKeepsHosts
<1>7. ASSUME NEW f \in Folder, NEW g \in Folder, AddFolder(f) \/ RemoveFolder(f) \/ CopyFolder(f, g) PROVE HostsInv'
  BY <1>7, FoldersKeepHosts
<1>8. ASSUME WatcherWakes PROVE HostsInv'
  BY <1>8, WakingKeepsHosts
<1>12. ASSUME StartWatch PROVE HostsInv'
  <2>1. NothingAnnounced
    BY <1>1, <1>12 DEF StartWatch, NothingAnnounced, AddressTypes
  <2>2. UNCHANGED thread
    BY <1>12 DEF StartWatch
  <2> QED BY <2>1, <2>2, ElsewhereKeepsHosts
<1>9. ASSUME NEW a \in Announcer, NEW name \in claimed[a], Objection(a, name) PROVE HostsInv'
  <2>1. NothingAnnounced
    BY <1>1, <1>9 DEF Objection, NothingAnnounced, AddressTypes
  <2>2. UNCHANGED thread
    BY <1>9 DEF Objection
  <2> QED BY <2>1, <2>2, ElsewhereKeepsHosts
<1>10. CASE UNCHANGED vars
  <2>1. NothingAnnounced
    BY <1>1, <1>10 DEF vars, NothingAnnounced, AddressTypes
  <2>2. UNCHANGED thread
    BY <1>10 DEF vars
  <2> QED BY <2>1, <2>2, ElsewhereKeepsHosts
<1>11. ASSUME Owner PROVE HostsInv'
  BY <1>3, <1>4, <1>5, <1>6, <1>7, <1>11 DEF Owner
<1> QED BY <1>2, <1>8, <1>9, <1>10, <1>11, <1>12 DEF Next

-----------------------------------------------------------------------------
(* Slugs and labels stay apart.                                            *)

\* What LabelsInv says of the manifests alone.
ManifestsInv == SlugsApart /\ LabelsApart

\* Fewer manifests, or the same, and no fewer excuses.
FewerManifests ==
    /\ OnDisk' \subseteq OnDisk
    /\ \A f \in OnDisk' : disk'[f].slug = disk[f].slug /\ disk'[f].label = disk[f].label
    /\ excuses \subseteq excuses'

\* Then slugs and labels that were apart are, and a label about to be written is still free.
LEMMA FewerStayApart ==
    ASSUME FewerManifests
    PROVE  /\ SlugsApart => SlugsApart'
           /\ LabelsApart => LabelsApart'
           /\ LabelIsFree /\ (\A c \in Client : thread'[c].step = "write" => thread'[c] = thread[c]) => LabelIsFree'
<1>1. /\ OnDisk' \subseteq OnDisk
      /\ \A f \in OnDisk' : disk'[f].slug = disk[f].slug /\ Effective(disk'[f]) = Effective(disk[f])
      /\ excuses \subseteq excuses'
  BY DEF FewerManifests, Effective
<1>2. SlugsApart => SlugsApart'
  BY <1>1 DEF SlugsApart
<1>3. LabelsApart => LabelsApart'
  BY <1>1 DEF LabelsApart
<1>4. LabelIsFree /\ (\A c \in Client : thread'[c].step = "write" => thread'[c] = thread[c]) => LabelIsFree'
  BY <1>1 DEF LabelIsFree
<1> QED BY <1>2, <1>3, <1>4

\* Records that listed them all still do.
LEMMA FewerAreListed ==
    ASSUME FewerManifests, NEW records, ListsAll(records, Filed)
    PROVE  ListsAll(records, Filed')
<1>1. Filed' \subseteq Filed
  BY DEF FewerManifests, Filed
<1> QED BY <1>1 DEF ListsAll

\* A step of nobody's thread that leaves the library, or the watcher something to wake up for.
LEMMA ElsewhereKeepsLabels ==
    ASSUME LabelsInv, FewerManifests, UNCHANGED thread,
           dirty' \/ UNCHANGED <<dirty, library>>
    PROVE  LabelsInv'
<1>1. SlugsApart' /\ LabelsApart' /\ LabelIsFree'
  BY FewerStayApart DEF LabelsInv
<1>2. excuses \subseteq excuses'
  BY DEF FewerManifests
<1>3. OneAtWork'
  BY <1>2 DEF LabelsInv, OneAtWork, Busy, Scanning
<1>4. LibraryIsFiled'
  <2>1. CASE dirty'
    BY <2>1 DEF LibraryIsFiled
  <2>2. CASE UNCHANGED <<dirty, library>>
    <3>1. Bound(library)' = Bound(library)
      BY <2>2 DEF Bound
    <3>2. \A records : ListsAll(records, Filed) => ListsAll(records, Filed')
      BY FewerAreListed
    <3>3. ASSUME excuses' = {}, ~dirty', \A t \in Thread : ~Scanning(t)'
          PROVE  /\ \A t \in Thread : Holding(t)' => ListsAll(Range(thread[t].records), Filed)
                 /\ (\A t \in Thread : ~Holding(t)') => ListsAll(Bound(library), Filed)
      BY <1>2, <2>2, <3>3 DEF LabelsInv, LibraryIsFiled, Scanning, Holding
    <3> QED BY <3>1, <3>2, <3>3 DEF LibraryIsFiled, Scanning, Holding
  <2> QED BY <2>1, <2>2
<1> QED BY <1>1, <1>3, <1>4 DEF LabelsInv

\* A scan that nothing is excused for was alone, and has named every folder apart.
LEMMA ScanKeepsLabels ==
    ASSUME AddressesAssumption, HostsInv, LabelsInv, NEW t \in Thread, Scan(t)
    PROVE  LabelsInv'
<1>1. AddressTypes
  BY DEF HostsInv
<1>2. /\ DOMAIN disk' = DOMAIN disk
      /\ \A f \in DOMAIN disk : disk'[f].slug \in Name
      /\ \A f \in OnDisk : disk'[f] = disk[f]
      /\ \A f \in DOMAIN disk \ OnDisk : disk'[f].label = NoName
      /\ \A f, g \in DOMAIN disk \ OnDisk : disk'[f].slug = disk'[g].slug => f = g
      /\ excuses \subseteq excuses'
      /\ "slug" \notin excuses' =>
           \A f \in DOMAIN disk \ OnDisk, g \in OnDisk : disk'[f].slug # disk[g].slug
      /\ "label" \notin excuses' => Alone(t) /\
           \A f \in DOMAIN disk \ OnDisk, g \in OnDisk : disk'[f].slug # Effective(disk[g])
  BY <1>1, ScanNames
<1>3. PICK sorted \in Seq(Record) :
        /\ Range(sorted) = {[folder |-> f, slug |-> disk'[f].slug, label |-> disk'[f].label] : f \in DOMAIN disk}
        /\ thread' = [thread EXCEPT ![t] = Takes(sorted)]
  BY <1>1, ScanNames DEF Takes
<1>4. Takes(sorted).step = "take" /\ Takes(sorted).records = sorted
  <2>1. NoFolder \in Folder \union {NoFolder} /\ NoName \in Name \union {NoName}
    OBVIOUS
  <2>2. TakingIt(Takes(sorted), "take") /\ Takes(sorted).records = sorted
    BY <2>1, IdleBecomes
  <2> QED BY <2>2 DEF TakingIt
<1>5. /\ thread'[t].step = "take" /\ thread'[t].records = sorted
      /\ \A u \in Thread : u # t => thread'[u] = thread[u]
  BY <1>1, <1>3, <1>4 DEF AddressTypes
<1>6. OnDisk' = DOMAIN disk /\ OnDisk \subseteq DOMAIN disk
  <2>1. NoName \notin Name
    BY DEF AddressesAssumption
  <2>2. \A f \in DOMAIN disk : disk'[f].slug # NoName
    BY <1>2, <2>1
  <2>3. OnDisk' = {f \in DOMAIN disk' : disk'[f].slug # NoName}
    BY DEF OnDisk
  <2>4. DOMAIN disk' = DOMAIN disk
    BY <1>2
  <2> QED BY <2>2, <2>3, <2>4 DEF OnDisk
<1>7. SlugsApart'
  <2> SUFFICES ASSUME "slug" \notin excuses', NEW f \in DOMAIN disk, NEW g \in DOMAIN disk,
                      disk'[f].slug = disk'[g].slug
               PROVE  f = g
    BY <1>6 DEF SlugsApart
  <2>1. CASE f \in OnDisk /\ g \in OnDisk
    <3>1. "slug" \notin excuses
      BY <1>2
    <3> QED BY <1>2, <2>1, <3>1 DEF LabelsInv, SlugsApart
  <2> QED BY <1>2, <2>1
<1>8. \A f \in DOMAIN disk : Effective(disk'[f]) = IF f \in OnDisk THEN Effective(disk[f]) ELSE disk'[f].slug
  BY <1>2 DEF Effective
<1>9. LabelsApart'
  <2> SUFFICES ASSUME excuses' = {}, NEW f \in DOMAIN disk, NEW g \in DOMAIN disk,
                      Effective(disk'[f]) = Effective(disk'[g])
               PROVE  f = g
    BY <1>6 DEF LabelsApart
  <2>1. "slug" \notin excuses' /\ "label" \notin excuses' /\ excuses = {}
    BY <1>2
  <2>2. CASE f \in OnDisk /\ g \in OnDisk
    BY <1>8, <2>1, <2>2 DEF LabelsInv, LabelsApart
  <2> QED BY <1>2, <1>8, <2>1, <2>2
<1>10. excuses' = {} => \A u \in Thread : u # t => thread'[u].step = "idle"
  BY <1>2, <1>5 DEF Alone
<1>11. OneAtWork'
  BY <1>10 DEF OneAtWork, Busy
<1>12. LabelIsFree'
  BY <1>5, <1>10 DEF LabelIsFree, Thread
<1>13. LibraryIsFiled'
  <2>1. Range(sorted) = Filed'
    BY <1>3, <1>6 DEF Filed
  <2>2. excuses' = {} => ListsAll(Range(sorted), Filed')
    <3>1. \A r \in Filed' : \E f \in OnDisk' :
            r = [folder |-> f, slug |-> disk'[f].slug, label |-> disk'[f].label]
            /\ Effective(r) = Effective(disk'[f])
      BY DEF Filed, Effective
    <3>2. ASSUME excuses' = {}, NEW r \in Filed', NEW q \in Filed',
                 r.slug = q.slug \/ Effective(r) = Effective(q)
          PROVE  r = q
      BY <1>7, <1>9, <3>1, <3>2 DEF SlugsApart, LabelsApart
    <3> QED BY <2>1, <3>2 DEF ListsAll
  <2>3. \A u \in Thread : Holding(u)' => u = t \/ thread'[u].step # "idle"
    BY DEF Holding
  <2> QED BY <1>5, <1>10, <2>2, <2>3 DEF LibraryIsFiled, Holding
<1> QED BY <1>7, <1>9, <1>11, <1>12, <1>13 DEF LabelsInv

\* Taking the library out leaves the manifests, and the records about to replace it.
LEMMA TakeKeepsLabels ==
    ASSUME AddressesAssumption, HostsInv, LabelsInv, NEW t \in Thread, Take(t)
    PROVE  LabelsInv'
<1>1. thread \in [Thread -> ThreadState] /\ library \subseteq Placement
  BY DEF HostsInv, AddressTypes
<1>2. thread[t].step = "take" /\ UNCHANGED <<disk, dirty, excuses>>
  BY DEF Take
<1>3. /\ thread'[t].step = "install" /\ thread'[t].records = thread[t].records
      /\ \A u \in Thread : u # t => thread'[u] = thread[u]
  <2> DEFINE i == thread[t]
             z == "install"
             s == [i EXCEPT !.step = z, !.previous = library]
  <2>1. thread' = [thread EXCEPT ![t] = s]
    BY <1>1 DEF Take
  <2>2. i \in ThreadState /\ z \in Step
    BY <1>1 DEF Step
  <2>3. s.step = z /\ s.records = i.records
    <3> HIDE DEF i, z
    <3> QED BY <1>1, <2>2 DEF ThreadState
  <2>4. thread'[t] = s /\ \A u \in Thread : u # t => thread'[u] = thread[u]
    <3> HIDE DEF s
    <3> QED BY <1>1, <2>1
  <2> HIDE DEF s
  <2> QED BY <2>3, <2>4
<1>4. FewerManifests
  BY <1>2 DEF FewerManifests, OnDisk
<1>5. SlugsApart' /\ LabelsApart' /\ LabelIsFree'
  <2>1. \A c \in Client : thread'[c].step = "write" => thread'[c] = thread[c]
    BY <1>3 DEF Thread
  <2> QED BY <1>4, <2>1, FewerStayApart DEF LabelsInv
<1>6. OneAtWork'
  BY <1>2, <1>3 DEF LabelsInv, OneAtWork, Busy, Scanning, Thread
<1>7. LibraryIsFiled'
  <2>1. Filed' = Filed
    BY <1>2 DEF Filed, OnDisk
  <2>2. \A u \in Thread : Holding(u)' <=> Holding(u)
    BY <1>2, <1>3 DEF Holding
  <2>3. \A u \in Thread : Scanning(u)' <=> Scanning(u)
    BY <1>2, <1>3 DEF Scanning
  <2>4. \A u \in Thread : thread'[u].records = thread[u].records
    BY <1>3
  <2>5. Holding(t)
    BY <1>2 DEF Holding
  <2> QED BY <1>2, <2>1, <2>2, <2>3, <2>4, <2>5 DEF LabelsInv, LibraryIsFiled
<1> QED BY <1>5, <1>6, <1>7 DEF LabelsInv

\* A thread that puts a library back while nobody else is about to has what is on the disk.
LEMMA InstallKeepsLabels ==
    ASSUME AddressesAssumption, HostsInv, LabelsInv, NEW t \in Thread, Install(t)
    PROVE  LabelsInv'
<1>1. AddressTypes /\ thread[t] \in ThreadState /\ thread \in [Thread -> ThreadState]
  BY DEF HostsInv, AddressTypes
<1>2. thread[t].step = "install" /\ UNCHANGED <<disk, dirty, excuses>>
  BY DEF Install
<1>3. thread'[t].step = "idle" /\ \A u \in Thread : u # t => thread'[u] = thread[u]
  BY <1>1, IdleType DEF Install
<1>4. FewerManifests
  BY <1>2 DEF FewerManifests, OnDisk
<1>5. SlugsApart' /\ LabelsApart' /\ LabelIsFree'
  <2>1. \A c \in Client : thread'[c].step = "write" => thread'[c] = thread[c]
    BY <1>3 DEF Thread
  <2> QED BY <1>4, <2>1, FewerStayApart DEF LabelsInv
<1>6. OneAtWork'
  BY <1>2, <1>3 DEF LabelsInv, OneAtWork, Busy, Scanning
<1>7. LibraryIsFiled'
  <2> SUFFICES ASSUME excuses = {}, ~dirty, \A u \in Thread : thread'[u].step # "scan"
               PROVE  /\ \A u \in Thread : thread'[u].step \notin {"take", "install"}
                      /\ ListsAll(Bound(library'), Filed)
    <3>1. Filed' = Filed
      BY <1>2 DEF Filed, OnDisk
    <3>2. Bound(library)' = Bound(library')
      BY DEF Bound
    <3> QED BY <1>2, <3>1, <3>2 DEF LibraryIsFiled, Scanning, Holding
  <2>1. \A u \in Thread : thread[u].step # "scan"
    BY <1>2, <1>3
  <2>2. \A u \in Thread : u # t => thread[u].step = "idle"
    <3>1. ASSUME NEW u \in Thread, u # t, thread[u].step # "idle" PROVE FALSE
      <4>1. Watcher \in Thread
        BY DEF Thread
      <4> QED BY <1>2, <2>1, <3>1, <4>1 DEF LabelsInv, OneAtWork, Busy, Scanning
    <3> QED BY <3>1
  <2>3. \A u \in Thread : thread'[u].step \notin {"take", "install"}
    BY <1>3, <2>2
  <2> DEFINE records == thread[t].records
  <2>4. records \in Seq(Record) /\ ListsAll(Range(records), Filed)
    BY <1>1, <1>2, <2>1 DEF ThreadState, LabelsInv, LibraryIsFiled, Scanning, Holding
  <2>5. PICK heard, placed : Installed(t, heard, placed)
    BY InstallIsPlacing
  <2> DEFINE entries == placed.library
  <2>6. /\ library' = entries
        /\ \A e \in entries : \E j \in 1..Len(records) : Serves(e, records[j])
        /\ Distinct(records) => \A j \in 1..Len(records) : \E e \in entries : Serves(e, records[j])
    BY <2>5 DEF Installed
  <2> HIDE DEF records, entries
  <2>7. \A j \in 1..Len(records) : records[j] \in Range(records)
    BY <2>4 DEF Range
  <2>8. \A r \in Range(records) : \E j \in 1..Len(records) : r = records[j]
    BY <2>4 DEF Range
  <2>9. \A r \in Range(records) : r = [folder |-> r.folder, slug |-> r.slug, label |-> r.label]
    <3>1. \A j \in 1..Len(records) : records[j] \in Record
      BY <2>4
    <3>2. \A r \in Record : r = [folder |-> r.folder, slug |-> r.slug, label |-> r.label]
      BY DEF Record
    <3> QED BY <2>8, <3>1, <3>2
  <2>10. Distinct(records)
    BY <2>4, <2>7 DEF Distinct, ListsAll
  <2>11. \A e, r : Serves(e, r) /\ r \in Range(records) => [folder |-> e.folder, slug |-> e.slug, label |-> e.label] = r
    BY <2>9 DEF Serves
  <2>12. Bound(entries) \subseteq Range(records)
    BY <2>6, <2>7, <2>11 DEF Bound
  <2>13. Range(records) \subseteq Bound(entries)
    <3> SUFFICES ASSUME NEW r \in Range(records) PROVE r \in Bound(entries)
      OBVIOUS
    <3>1. PICK j \in 1..Len(records) : r = records[j]
      BY <2>8
    <3>2. PICK e \in entries : Serves(e, r)
      BY <2>6, <2>10, <3>1
    <3> QED BY <2>11, <3>2 DEF Bound
  <2>14. Bound(entries) = Range(records)
    BY <2>12, <2>13
  <2> QED BY <2>3, <2>4, <2>6, <2>14
<1> QED BY <1>5, <1>6, <1>7 DEF LabelsInv

\* A label that is granted while nothing else goes on is nobody else's.
LEMMA AskingKeepsLabels ==
    ASSUME AddressesAssumption, HostsInv, LabelsInv,
           NEW c \in Client, NEW e \in library, NEW label \in Label, AskLabel(c, e, label)
    PROVE  LabelsInv'
<1>1. AddressTypes /\ library \subseteq Placement /\ thread \in [Thread -> ThreadState] /\ c \in Thread
  BY DEF HostsInv, AddressTypes, Thread
<1>2. UNCHANGED <<disk, dirty, library>> /\ thread[c].step = "idle" /\ excuses \subseteq excuses'
  BY DEF AskLabel
<1>3. /\ thread'[c].step = "write" /\ thread'[c].folder = e.folder /\ thread'[c].label = label
      /\ \A u \in Thread : u # c => thread'[u] = thread[u]
  <2>1. e.folder \in Folder \union {NoFolder} /\ label \in Name \union {NoName} /\ <<>> \in Seq(Record)
    BY <1>1 DEF Placement, AddressesAssumption
  <2> DEFINE s == Writes(e.folder, label)
  <2>2. s.step = "write" /\ s.folder = e.folder /\ s.label = label
    <3>1. /\ TakingIt(Writes(e.folder, label), "write")
          /\ Writes(e.folder, label).folder = e.folder /\ Writes(e.folder, label).label = label
      BY <2>1, IdleBecomes
    <3> QED BY <3>1 DEF TakingIt
  <2>3. thread' = [thread EXCEPT ![c] = s]
    BY DEF AskLabel, Writes
  <2> HIDE DEF s
  <2> QED BY <1>1, <2>2, <2>3
<1>4. excuses' = {} => excuses = {} /\ ~dirty /\ \A u \in Thread : thread[u].step = "idle"
  BY <1>2 DEF AskLabel, Alone
<1>5. FewerManifests
  BY <1>2 DEF FewerManifests, OnDisk
<1>6. SlugsApart' /\ LabelsApart'
  BY <1>5, FewerStayApart DEF LabelsInv
<1>7. OneAtWork'
  BY <1>3, <1>4 DEF OneAtWork, Busy
<1>8. excuses' = {} => ListsAll(Bound(library), Filed)
  BY <1>4 DEF LabelsInv, LibraryIsFiled, Scanning, Holding
<1>9. LibraryIsFiled'
  <2>1. Bound(library)' = Bound(library) /\ Filed' = Filed
    BY <1>2 DEF Bound, Filed, OnDisk
  <2> QED BY <1>3, <1>4, <1>8, <2>1 DEF LibraryIsFiled, Holding
<1>10. LabelIsFree'
  <2> SUFFICES ASSUME excuses' = {}
               PROVE  /\ label # NoName
                      /\ \A f \in OnDisk : f # e.folder => Effective(disk[f]) # label
    <3>1. OnDisk' = OnDisk
      BY <1>2 DEF OnDisk
    <3> QED BY <1>2, <1>3, <1>4, <3>1 DEF LabelIsFree, Thread
  <2>1. label # NoName
    BY DEF AddressesAssumption
  <2>2. \A f \in OnDisk : \E d \in library :
          d.folder = f /\ d.slug = disk[f].slug /\ d.label = disk[f].label
    <3> SUFFICES ASSUME NEW f \in OnDisk
                 PROVE  \E d \in library : d.folder = f /\ d.slug = disk[f].slug /\ d.label = disk[f].label
      OBVIOUS
    <3> DEFINE r == [folder |-> f, slug |-> disk[f].slug, label |-> disk[f].label]
    <3>1. r \in Bound(library)
      BY <1>8 DEF Filed, ListsAll
    <3> QED BY <3>1 DEF Bound
  <2>3. \A d, b \in library : Effective(d) = Effective(b) => d.folder = b.folder
    <3> SUFFICES ASSUME NEW d \in library, NEW b \in library, Effective(d) = Effective(b)
                 PROVE  d.folder = b.folder
      OBVIOUS
    <3> DEFINE r == [folder |-> d.folder, slug |-> d.slug, label |-> d.label]
               q == [folder |-> b.folder, slug |-> b.slug, label |-> b.label]
    <3>1. r \in Bound(library) /\ q \in Bound(library)
      BY DEF Bound
    <3>2. Effective(r) = Effective(q)
      BY DEF Effective
    <3>3. r = q
      <4> HIDE DEF r, q
      <4> QED BY <1>8, <3>1, <3>2 DEF ListsAll
    <3> QED BY <3>3
  <2>4. ASSUME NEW f \in OnDisk, f # e.folder, Effective(disk[f]) = label PROVE FALSE
    <3>1. PICK d \in library : d.folder = f /\ d.slug = disk[f].slug /\ d.label = disk[f].label
      BY <2>2
    <3>2. d \in Answering(label)
      BY <2>4, <3>1 DEF Answering, Effective
    <3>3. e \in Answering(label)
      BY <3>2 DEF AskLabel, MayHaveLabel
    <3>4. e.folder = d.folder
      BY <2>3, <3>2, <3>3 DEF Answering
    <3> QED BY <2>4, <3>1, <3>4
  <2> QED BY <2>1, <2>4
<1> QED BY <1>6, <1>7, <1>9, <1>10 DEF LabelsInv

\* What goes to a label goes unchecked from now on.
LEMMA ExcusedKeepsLabels ==
    ASSUME LabelsInv, FewerManifests, excuses' # {} PROVE LabelsInv'
<1>1. SlugsApart'
  BY FewerStayApart DEF LabelsInv
<1> QED BY <1>1 DEF LabelsInv, LabelsApart, OneAtWork, LabelIsFree, LibraryIsFiled

\* write_public_label: the one label that is written was nobody else's.
LEMMA WritingKeepsLabels ==
    ASSUME AddressesAssumption, HostsInv, LabelsInv, NEW c \in Client, WriteLabel(c)
    PROVE  LabelsInv'
<1>1. AddressTypes /\ thread \in [Thread -> ThreadState] /\ c \in Thread /\ thread[c] \in ThreadState
  BY DEF HostsInv, AddressTypes, Thread
<1>2. thread[c].step = "write" /\ UNCHANGED <<library, excuses>> /\ c # Watcher
  BY DEF WriteLabel, AddressesAssumption
<1> DEFINE f == thread[c].folder
           l == thread[c].label
<1>3. l \in Name \union {NoName}
  BY <1>1 DEF ThreadState
<1>4. CASE f \in OnDisk
  <2>1. disk' = [disk EXCEPT ![f].label = l] /\ dirty'
    BY <1>4 DEF WriteLabel
  <2>2. /\ OnDisk' = OnDisk /\ disk'[f].slug = disk[f].slug /\ disk'[f].label = l
        /\ \A g \in DOMAIN disk : g # f => disk'[g] = disk[g]
    <3> HIDE DEF f, l
    <3> QED BY <1>1, <1>3, <1>4, <2>1, LabelWritten
  <2>3. thread'[c].step = "scan" /\ \A u \in Thread : u # c => thread'[u] = thread[u]
    <3>1. NoFolder \in Folder \union {NoFolder} /\ NoName \in Name \union {NoName} /\ <<>> \in Seq(Record)
      OBVIOUS
    <3> DEFINE s == Scans
    <3>2. s.step = "scan"
      BY <3>1, IdleBecomes DEF TakingIt
    <3>3. thread' = [thread EXCEPT ![c] = s]
      BY <1>4 DEF WriteLabel, Scans
    <3> HIDE DEF s
    <3> QED BY <1>1, <3>2, <3>3
  <2> HIDE DEF f, l
  <2>4. OnDisk \subseteq DOMAIN disk
    BY DEF OnDisk
  <2>5. SlugsApart'
    <3>1. \A g \in OnDisk : disk'[g].slug = disk[g].slug
      BY <2>2, <2>4
    <3> QED BY <1>2, <2>2, <3>1 DEF LabelsInv, SlugsApart
  <2>6. LabelsApart'
    <3> SUFFICES ASSUME excuses = {}, NEW g \in OnDisk, NEW h \in OnDisk,
                        Effective(disk'[g]) = Effective(disk'[h])
                 PROVE  g = h
      BY <1>2, <2>2 DEF LabelsApart
    <3>1. l # NoName /\ \A k \in OnDisk : k # f => Effective(disk[k]) # l
      BY <1>2 DEF LabelsInv, LabelIsFree, f, l
    <3>2. Effective(disk'[f]) = l
      BY <2>2, <3>1 DEF Effective
    <3>3. \A k \in OnDisk : k # f => Effective(disk'[k]) = Effective(disk[k])
      BY <2>2, <2>4
    <3> QED BY <3>1, <3>2, <3>3 DEF LabelsInv, LabelsApart
  <2>7. OneAtWork'
    BY <1>2, <2>3 DEF LabelsInv, OneAtWork, Busy, Scanning
  <2>8. LabelIsFree'
    <3> SUFFICES ASSUME excuses = {}, NEW d \in Client, thread'[d].step = "write" PROVE FALSE
      BY <1>2 DEF LabelIsFree
    <3>1. d # c /\ thread[d].step = "write" /\ d \in Thread /\ d # Watcher
      BY <2>3 DEF Thread, AddressesAssumption
    <3> QED BY <1>1, <1>2, <3>1 DEF LabelsInv, OneAtWork, Busy
  <2>9. LibraryIsFiled'
    BY <2>1 DEF LibraryIsFiled
  <2> QED BY <2>5, <2>6, <2>7, <2>8, <2>9 DEF LabelsInv
<1>5. CASE f \notin OnDisk
  <2>1. UNCHANGED <<disk, dirty>> /\ thread' = [thread EXCEPT ![c] = Idle]
    BY <1>5 DEF WriteLabel
  <2>2. thread'[c].step = "idle" /\ \A u \in Thread : u # c => thread'[u] = thread[u]
    BY <1>1, <2>1, IdleType
  <2>3. FewerManifests
    BY <1>2, <2>1 DEF FewerManifests, OnDisk
  <2>4. SlugsApart' /\ LabelsApart' /\ LabelIsFree'
    <3>1. \A d \in Client : thread'[d].step = "write" => thread'[d] = thread[d]
      BY <2>2 DEF Thread
    <3> QED BY <2>3, <3>1, FewerStayApart DEF LabelsInv
  <2>5. OneAtWork'
    BY <1>2, <2>2 DEF LabelsInv, OneAtWork, Busy, Scanning
  <2>6. LibraryIsFiled'
    <3>1. Filed' = Filed /\ Bound(library)' = Bound(library)
      BY <1>2, <2>1 DEF Filed, Bound, OnDisk
    <3>2. \A u \in Thread : Holding(u)' <=> Holding(u)
      BY <1>2, <2>2 DEF Holding
    <3>3. \A u \in Thread : Scanning(u)' <=> Scanning(u)
      BY <1>2, <2>2 DEF Scanning
    <3>4. \A u \in Thread : Holding(u)' => thread'[u].records = thread[u].records
      BY <2>2 DEF Holding
    <3> QED BY <1>2, <2>1, <3>1, <3>2, <3>3, <3>4 DEF LabelsInv, LibraryIsFiled
  <2> QED BY <2>4, <2>5, <2>6 DEF LabelsInv
<1> QED BY <1>4, <1>5

\* A folder that comes has no manifest yet, and one that goes takes its own along.
LEMMA FoldersKeepLabels ==
    ASSUME AddressesAssumption, HostsInv, LabelsInv, NEW f \in Folder, AddFolder(f) \/ RemoveFolder(f)
    PROVE  LabelsInv'
<1>1. UNCHANGED <<thread, library, excuses>> /\ (dirty' \/ UNCHANGED dirty)
  BY DEF HostsInv, AddressTypes, AddFolder, RemoveFolder, ByHand
<1>2. CASE AddFolder(f)
  <2>1. /\ f \notin DOMAIN disk /\ DOMAIN disk' = DOMAIN disk \union {f} /\ disk'[f] = Bare
        /\ \A g \in DOMAIN disk : disk'[g] = disk[g]
    BY <1>2 DEF AddFolder
  <2>2. Bare.slug = NoName
    BY DEF Bare
  <2>3. FewerManifests
    BY <1>1, <2>1, <2>2 DEF FewerManifests, OnDisk
  <2> QED BY <1>1, <2>3, ElsewhereKeepsLabels
<1>3. CASE RemoveFolder(f)
  <2>1. DOMAIN disk' = DOMAIN disk \ {f} /\ \A g \in DOMAIN disk \ {f} : disk'[g] = disk[g]
    BY <1>3 DEF RemoveFolder
  <2>2. FewerManifests
    BY <1>1, <2>1 DEF FewerManifests, OnDisk
  <2> QED BY <1>1, <2>2, ElsewhereKeepsLabels
<1> QED BY <1>2, <1>3

\* A watcher that wakes is about to scan.
LEMMA WakingKeepsLabels ==
    ASSUME AddressesAssumption, HostsInv, LabelsInv, WatcherWakes
    PROVE  LabelsInv'
<1>1. thread \in [Thread -> ThreadState] /\ Watcher \in Thread
  BY DEF HostsInv, AddressTypes, Thread
<1>2. thread[Watcher].step = "idle" /\ UNCHANGED <<disk, library, excuses>>
  BY DEF WatcherWakes
<1>3. thread'[Watcher].step = "scan" /\ \A u \in Thread : u # Watcher => thread'[u] = thread[u]
  <2> DEFINE i == thread[Watcher]
             z == "scan"
             s == [i EXCEPT !.step = z]
  <2>1. thread' = [thread EXCEPT ![Watcher] = s]
    BY <1>1 DEF WatcherWakes
  <2>2. i \in ThreadState /\ z \in Step
    BY <1>1 DEF Step
  <2>3. s.step = z
    <3> HIDE DEF i, z
    <3> QED BY <2>2 DEF ThreadState
  <2>4. thread'[Watcher] = s /\ \A u \in Thread : u # Watcher => thread'[u] = thread[u]
    <3> HIDE DEF s
    <3> QED BY <1>1, <2>1
  <2> HIDE DEF s
  <2> QED BY <2>3, <2>4
<1>4. FewerManifests
  BY <1>2 DEF FewerManifests, OnDisk
<1>5. SlugsApart' /\ LabelsApart' /\ LabelIsFree'
  <2>1. \A d \in Client : thread'[d].step = "write" => thread'[d] = thread[d]
    BY <1>3 DEF Thread, AddressesAssumption
  <2> QED BY <1>4, <2>1, FewerStayApart DEF LabelsInv
<1>6. OneAtWork'
  BY <1>2, <1>3 DEF LabelsInv, OneAtWork, Busy, Scanning
<1>7. LibraryIsFiled'
  BY <1>1, <1>3 DEF LibraryIsFiled, Scanning
<1> QED BY <1>5, <1>6, <1>7 DEF LabelsInv

\* Every step keeps the slugs and the labels apart, but for what is excused.
LEMMA LabelsStep == AddressesAssumption /\ AddressInv /\ [Next]_vars => LabelsInv'
<1> SUFFICES ASSUME AddressesAssumption, HostsInv, LabelsInv, [Next]_vars PROVE LabelsInv'
  BY DEF AddressInv
<1>1. ASSUME NEW t \in Thread, Rescan(t) PROVE LabelsInv'
  BY <1>1, ScanKeepsLabels, TakeKeepsLabels, InstallKeepsLabels DEF Rescan
<1>2. ASSUME NEW c \in Client, NEW e \in library, NEW label \in Label, AskLabel(c, e, label) PROVE LabelsInv'
  BY <1>2, AskingKeepsLabels
<1>3. ASSUME NEW c \in Client, NEW e \in library, AskNoLabel(c, e) PROVE LabelsInv'
  <2>1. FewerManifests /\ excuses' # {}
    BY <1>3 DEF AskNoLabel, FewerManifests, OnDisk
  <2> QED BY <2>1, ExcusedKeepsLabels
<1>4. ASSUME NEW c \in Client, WriteLabel(c) PROVE LabelsInv'
  BY <1>4, WritingKeepsLabels
<1>5. ASSUME NEW f \in Folder, AddFolder(f) \/ RemoveFolder(f) PROVE LabelsInv'
  BY <1>5, FoldersKeepLabels
<1>6. ASSUME NEW f \in Folder, NEW g \in Folder, CopyFolder(f, g) PROVE LabelsInv'
  <2>1. excuses' = excuses \union {"slug", "label"}
    BY <1>6 DEF CopyFolder
  <2> QED BY <2>1 DEF LabelsInv, SlugsApart, LabelsApart, OneAtWork, LabelIsFree, LibraryIsFiled
<1>7. ASSUME NEW h \in Handle \union {NoName}, SetIdentity(h) PROVE LabelsInv'
  <2>1. UNCHANGED <<disk, dirty, library, thread>> /\ FewerManifests
    BY <1>7 DEF SetIdentity, FewerManifests, OnDisk
  <2> QED BY <2>1, ElsewhereKeepsLabels
<1>8. ASSUME WatcherWakes PROVE LabelsInv'
  BY <1>8, WakingKeepsLabels
<1>9. ASSUME NEW a \in Announcer, NEW name \in claimed[a], Objection(a, name) PROVE LabelsInv'
  <2>1. UNCHANGED <<disk, dirty, library, thread>> /\ FewerManifests
    BY <1>9 DEF Objection, FewerManifests, OnDisk
  <2> QED BY <2>1, ElsewhereKeepsLabels
<1>12. ASSUME StartWatch PROVE LabelsInv'
  <2>1. UNCHANGED <<disk, dirty, library, thread>> /\ FewerManifests
    BY <1>12 DEF StartWatch, FewerManifests, OnDisk
  <2> QED BY <2>1, ElsewhereKeepsLabels
<1>10. CASE UNCHANGED vars
  <2>1. UNCHANGED <<disk, dirty, library, thread>> /\ FewerManifests
    BY <1>10 DEF vars, FewerManifests, OnDisk
  <2> QED BY <2>1, ElsewhereKeepsLabels
<1>11. ASSUME Owner PROVE LabelsInv'
  BY <1>2, <1>3, <1>4, <1>5, <1>6, <1>7, <1>11 DEF Owner
<1> QED BY <1>1, <1>8, <1>9, <1>10, <1>11, <1>12 DEF Next

\* So the strengthening is an invariant.
THEOREM AddressInvariant == Spec => []AddressInv
<1>1. Init => AddressInv
  BY AddressesAssumption, AddressInit
<1>2. AddressInv /\ [Next]_vars => AddressInv'
  <2>1. AddressInv /\ [Next]_vars => HostsInv'
    BY AddressesAssumption, HostsStep DEF AddressInv
  <2>2. AddressInv /\ [Next]_vars => LabelsInv'
    BY AddressesAssumption, LabelsStep
  <2> QED BY <2>1, <2>2 DEF AddressInv
<1> QED BY <1>1, <1>2, PTL DEF Spec

\* BonjourAnnouncer::announce, slug::deduplicate and share.set_public_label: no two apps
\* are announced under one name by one announcer, nor share a slug or a label that was checked, however many
\* rescans overlap.
THEOREM NamesAreKeptApart == Spec => []NamesApart
<1>1. AddressInv => NamesApart
  <2> SUFFICES ASSUME AddressInv PROVE NamesApart
    OBVIOUS
  <2>1. AddressTypes /\ OneEach(library) /\ HostsApart /\ SlugsApart /\ LabelsApart
    BY DEF AddressInv, HostsInv, LabelsInv
  <2>2. \A f \in DOMAIN disk : {disk[f].slug, disk[f].label} \subseteq Name \union {NoName}
    <3>1. \A f \in DOMAIN disk : disk[f] \in Manifest
      BY <2>1 DEF AddressTypes
    <3> QED BY <3>1 DEF Manifest
  <2>3. \A t \in Thread :
         /\ thread[t].step \in {"idle", "write", "scan", "take", "install"}
         /\ \A i \in DOMAIN thread[t].records : thread[t].records[i] \in Record
    <3> SUFFICES ASSUME NEW t \in Thread
                 PROVE  /\ thread[t].step \in {"idle", "write", "scan", "take", "install"}
                        /\ \A i \in DOMAIN thread[t].records : thread[t].records[i] \in Record
      OBVIOUS
    <3>1. thread[t] \in ThreadState
      BY <2>1 DEF AddressTypes
    <3>2. thread[t].step \in Step /\ thread[t].records \in Seq(Record)
      BY <3>1 DEF ThreadState
    <3> QED BY <3>2 DEF Step
  <2>4. TypeOK
    BY <2>1, <2>2, <2>3 DEF TypeOK, AddressTypes, OneEach
  <2> QED BY <2>1, <2>4 DEF NamesApart
<1> QED BY <1>1, AddressInvariant, PTL

\* Library::public_host and get_by_hostname: an address the window shows brings a request to
\* the app it is shown for, or to one that has the same label or the same name of the other
\* announcer.
THEOREM ShownAddressesAlwaysAnswer == Spec => []ShownAddressesAnswer
<1>1. AddressInv => ShownAddressesAnswer
  <2> SUFFICES ASSUME AddressInv, NEW e \in library
               PROVE  /\ e.host # NoName =>
                           /\ e \in Resolve(Local(e.host))
                           /\ \A d \in Resolve(Local(e.host)) : d = e \/ d.by # e.by
                      /\ handle # NoName =>
                           /\ e \in Resolve(PublicHost(e))
                           /\ \A d \in Resolve(PublicHost(e)) : Effective(d) = Effective(e)
    BY DEF ShownAddressesAnswer
  <2>1. \A d \in library : e.host = d.host /\ e.by = d.by /\ e.host # NoName => e = d
    BY DEF AddressInv, HostsInv, HostsApart, OneEach
  <2>2. Resolve(Local(e.host)) = {d \in library : d.host = e.host}
    BY DEF Resolve, Local
  <2>3. handle # NoName => Resolve(PublicHost(e)) = {d \in library : Effective(d) = Effective(e)}
    BY DEF Resolve, PublicHost, Public, Answering
  <2> QED BY <2>1, <2>2, <2>3
<1> QED BY <1>1, AddressInvariant, PTL

-----------------------------------------------------------------------------
(***************************************************************************)
(* Asking the network for a name.                                          *)
(***************************************************************************)

\* k slices of the allowance.
Slices(k) == k * Slice

\* Where the lookup is: what it has browsed is what it has passed, and as long as no instance
\* kept it waiting it has used no more than the slices of those.
OnTheWay ==
    /\ stage = "service" =>
         /\ found = Nobody /\ browsed = 1..(service - 1)
         /\ met \/ clock <= Slices(service - 1)
    /\ stage = "browse" =>
         /\ found = Nobody /\ browsed = 1..(service - 1) /\ service <= Services
         /\ met \/ clock <= Slices(service - 1)
    /\ stage \in {"instances", "resolve", "address"} =>
         /\ found = Nobody /\ browsed = 1..service /\ service <= Services
         /\ met \/ clock <= Slices(service)
    /\ stage \in {"resolve", "address"} => met \/ stage = "resolve"
    /\ stage \in {"resolve", "address"} => instance \in Instance

LookupInv == LookupIsRight /\ OnTheWay

\* A slice more for a service more, and none before the first (name_for: `slice`).
LEMMA SliceMore ==
    /\ Slice \in Nat /\ Slices(0) = 0
    /\ \A k \in Nat : Slices(k) \in Nat /\ Slices(k + 1) = Slices(k) + Slice
<1>1. Slice \in Nat
  BY DiscoveryAssumption DEF Slice
<1>2. \A k \in Nat, s \in Nat : k * s \in Nat /\ (k + 1) * s = k * s + s /\ 0 * s = 0
  OBVIOUS
<1> QED BY <1>1, <1>2 DEF Slices

\* Before its turn a service still has time, when only slices have been used
\* (name_for: the test of the deadline before each service).
LEMMA TimeIsLeft ==
    ASSUME NEW k \in 1..Services PROVE Slices(k - 1) < Budget
<1> DEFINE S == Slice
<1>1. S \in Nat /\ S * Services <= Budget
  BY DiscoveryAssumption DEF Slice
<1>2. k - 1 \in Nat /\ Services - 1 \in Nat /\ k - 1 <= Services - 1
  BY DiscoveryAssumption
<1>3. (k - 1) * S <= (Services - 1) * S
  <2>1. PICK d \in Nat : Services - 1 = (k - 1) + d
    <3>1. (Services - 1) - (k - 1) \in Nat /\ Services - 1 = (k - 1) + ((Services - 1) - (k - 1))
      BY <1>2, DiscoveryAssumption
    <3> QED BY <3>1
  <2>2. \A a \in Nat, b \in Nat, s \in Nat : a * s <= (a + b) * s
    <3>1. \A a \in Nat, b \in Nat, s \in Nat : (a + b) * s = a * s + b * s /\ a * s \in Nat /\ b * s \in Nat
      OBVIOUS
    <3> QED BY <3>1
  <2> QED BY <1>1, <1>2, <2>1, <2>2
<1>4. (Services - 1) * S = S * Services - S
  BY <1>1, DiscoveryAssumption
<1>5. S = 0 \/ S > 0
  BY <1>1
<1>6. CASE S = 0
  BY <1>6, <1>2, DiscoveryAssumption DEF Slices
<1>7. CASE S > 0
  BY <1>1, <1>3, <1>4, <1>7, <1>2, DiscoveryAssumption DEF Slices
<1> QED BY <1>5, <1>6, <1>7

\* Whatever a query waits for, it is over when the allowance is (pump).
LEMMA PumpEnds ==
    ASSUME clock \in Nat, clock <= Budget, NEW deadline \in Nat, deadline <= Budget,
           NEW answers \in BOOLEAN, Pump(deadline, answers)
    PROVE  clock' \in Nat /\ clock' <= Budget
BY DiscoveryAssumption DEF Pump

\* Each step of a lookup keeps it true.
LEMMA LookupStep == LookupInv /\ [DiscoveryNext]_discoveryVars => LookupInv'
<1> SUFFICES ASSUME LookupInv, [DiscoveryNext]_discoveryVars PROVE LookupInv'
  OBVIOUS
<1> USE DEF LookupInv, LookupIsRight, AnsweredInTime, NamesTheAsker, SilentServicesStarveNobody
<1>0. DiscoveryTypeOK /\ clock \in Nat /\ clock <= Budget /\ service \in 1..(Services + 1)
  BY DEF DiscoveryTypeOK
<1>1. CASE UNCHANGED discoveryVars
  BY <1>1 DEF discoveryVars, DiscoveryTypeOK, OnTheWay
<1>2. CASE NextService
  <2>1. /\ UNCHANGED <<clock, service, browsed, queue, instance, found, met>> /\ stage = "service"
        /\ stage' = IF service > Services \/ clock >= Budget THEN "done" ELSE "browse"
    BY <1>2 DEF NextService
  <2>2. DiscoveryTypeOK'
    BY <2>1 DEF DiscoveryTypeOK
  <2>3. found = Nobody /\ browsed = 1..(service - 1) /\ (met \/ clock <= Slices(service - 1))
    BY <2>1 DEF OnTheWay
  <2>4. CASE service > Services
    <3>1. service = Services + 1 /\ stage' = "done"
      BY <2>1, <2>4, <1>0, DiscoveryAssumption
    <3>2. browsed' = 1..Services
      BY <2>1, <2>3, <3>1, DiscoveryAssumption
    <3> QED BY <2>1, <2>2, <3>1, <3>2, <1>0 DEF OnTheWay
  <2>5. CASE ~(service > Services)
    <3>1. service \in 1..Services /\ service - 1 \in Nat
      BY <2>5, <1>0, DiscoveryAssumption
    <3>2. Slices(service - 1) < Budget /\ Slices(service - 1) \in Nat
      BY <3>1, TimeIsLeft, SliceMore
    <3>3. stage' = "done" => met
      BY <2>1, <2>3, <2>5, <3>2, <1>0, DiscoveryAssumption
    <3>4. stage' \in {"done", "browse"} /\ service <= Services
      BY <2>1, <3>1
    <3> QED BY <2>1, <2>2, <2>3, <3>3, <3>4, <1>0 DEF OnTheWay
  <2> QED BY <2>4, <2>5
<1>3. CASE Browse \/ BrowseFails
  <2>1. /\ UNCHANGED <<service, instance, found, met>> /\ stage = "browse" /\ stage' = "instances"
        /\ queue' \subseteq Instance /\ browsed' = browsed \union {service}
    BY <1>3 DEF Browse, BrowseFails
  <2>2. /\ found = Nobody /\ browsed = 1..(service - 1) /\ service <= Services
        /\ met \/ clock <= Slices(service - 1)
    BY <2>1 DEF OnTheWay
  <2>3. /\ service - 1 \in Nat /\ Slices(service - 1) \in Nat /\ Slice \in Nat
        /\ Slices(service) = Slices(service - 1) + Slice /\ service \in 1..Services
    <3>1. service - 1 \in Nat /\ (service - 1) + 1 = service /\ service \in 1..Services
      BY <1>0, <2>2, DiscoveryAssumption
    <3> QED BY <3>1, SliceMore
  <2>4. clock' \in Nat /\ clock' <= Budget /\ (clock' <= clock + Slice)
    BY <1>3, <1>0, <2>3, DiscoveryAssumption DEF Browse, BrowseFails, Pump
  <2>5. met' \/ clock' <= Slices(service')
    BY <2>1, <2>2, <2>3, <2>4, <1>0
  <2>6. browsed' = 1..service'
    BY <2>1, <2>2, <2>3
  <2>7. DiscoveryTypeOK'
    BY <2>1, <2>2, <2>3, <2>4, <2>6 DEF DiscoveryTypeOK
  <2> QED BY <2>1, <2>2, <2>4, <2>5, <2>6, <2>7 DEF OnTheWay
<1>4. CASE NextInstance
  <2>1. /\ UNCHANGED <<clock, browsed, found, met>> /\ stage = "instances"
        /\ found = Nobody /\ browsed = 1..service /\ service <= Services
        /\ met \/ clock <= Slices(service)
    BY <1>4 DEF NextInstance, OnTheWay
  <2>2. CASE queue = {} \/ clock >= Budget
    <3>1. stage' = "service" /\ service' = service + 1 /\ queue' = {} /\ UNCHANGED instance
      BY <1>4, <2>2 DEF NextInstance
    <3>2. service' - 1 = service /\ service' \in 1..(Services + 1)
      BY <3>1, <2>1, <1>0, DiscoveryAssumption
    <3>3. DiscoveryTypeOK'
      BY <2>1, <3>1, <3>2 DEF DiscoveryTypeOK
    <3> QED BY <2>1, <3>1, <3>2, <3>3, <1>0 DEF OnTheWay
  <2>3. CASE ~(queue = {} \/ clock >= Budget)
    <3>1. /\ stage' = "resolve" /\ UNCHANGED service /\ queue' \subseteq queue /\ instance' \in queue
      BY <1>4, <2>3 DEF NextInstance
    <3>2. DiscoveryTypeOK' /\ instance' \in Instance
      BY <2>1, <3>1 DEF DiscoveryTypeOK
    <3> QED BY <2>1, <3>1, <3>2, <1>0 DEF OnTheWay
  <2> QED BY <2>2, <2>3
<1>5. CASE HostFor
  <2>1. /\ UNCHANGED <<service, browsed, queue, instance, found>> /\ stage = "resolve" /\ met' = TRUE
        /\ stage' \in {"address", "instances"} /\ clock' \in Nat /\ clock' <= Budget
    BY <1>5, <1>0, DiscoveryAssumption DEF HostFor, Pump
  <2>2. DiscoveryTypeOK'
    BY <2>1 DEF DiscoveryTypeOK
  <2> QED BY <2>1, <2>2 DEF OnTheWay
<1>6. CASE AddressesOf
  <2>1. /\ UNCHANGED <<service, browsed, queue, instance, met>> /\ stage = "address" /\ met
        /\ instance \in Instance /\ found = Nobody /\ browsed = 1..service /\ service <= Services
        /\ clock' \in Nat /\ clock' <= Budget
    BY <1>6, <1>0, DiscoveryAssumption DEF AddressesOf, Pump, OnTheWay
  <2>2. \/ stage' = "instances" /\ UNCHANGED found
        \/ stage' = "done" /\ found' = instance /\ "this" \in Addresses(instance)
    BY <1>6 DEF AddressesOf
  <2>3. DiscoveryTypeOK'
    BY <2>1, <2>2 DEF DiscoveryTypeOK
  <2>4. CASE stage' = "instances" /\ UNCHANGED found
    BY <2>1, <2>3, <2>4 DEF OnTheWay
  <2>5. CASE stage' = "done" /\ found' = instance /\ "this" \in Addresses(instance)
    BY <2>1, <2>3, <2>5 DEF OnTheWay, Addresses
  <2> QED BY <2>2, <2>4, <2>5
<1> QED BY <1>1, <1>2, <1>3, <1>4, <1>5, <1>6 DEF DiscoveryNext

\* For any number of service types and any allowance of time: the answer comes within it, bears
\* the asker's own address, and nothing is given up on before every service was browsed
\* unless an instance kept the lookup waiting (BonjourDiscoverer::name_for).
THEOREM LookupIsAlwaysRight == DiscoverySpec => []LookupIsRight
<1>1. DiscoveryInit => LookupInv
  <2> SUFFICES ASSUME DiscoveryInit PROVE LookupInv
    OBVIOUS
  <2>1. 1..(service - 1) = {} /\ Slices(service - 1) = 0
    BY SliceMore DEF DiscoveryInit
  <2>2. /\ met = FALSE /\ clock = 0 /\ service = 1 /\ browsed = {} /\ stage = "service" /\ queue = {}
        /\ instance = Nobody /\ found = Nobody
    BY DEF DiscoveryInit
  <2>3. DiscoveryTypeOK
    <3>1. service \in 1..(Services + 1) /\ clock \in Nat
      BY <2>2, DiscoveryAssumption
    <3>2. met \in BOOLEAN
      BY <2>2
    <3>3. browsed \subseteq 1..Services /\ queue \subseteq Instance
      BY <2>2
    <3>4. instance \in Instance \union {Nobody} /\ found \in Instance \union {Nobody}
      BY <2>2
    <3>5. stage \in {"service", "browse", "instances", "resolve", "address", "done"}
      BY <2>2
    <3> QED BY <3>1, <3>2, <3>3, <3>4, <3>5 DEF DiscoveryTypeOK
  <2>4. OnTheWay
    BY <2>1, <2>2 DEF OnTheWay
  <2> QED BY <2>2, <2>3, <2>4, DiscoveryAssumption
          DEF LookupInv, LookupIsRight, AnsweredInTime, NamesTheAsker, SilentServicesStarveNobody
<1>2. LookupInv => LookupIsRight
  BY DEF LookupInv
<1> QED BY <1>1, <1>2, LookupStep, PTL DEF DiscoverySpec
=============================================================================
