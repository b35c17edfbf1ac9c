--------------------------- MODULE RegistryProofs ---------------------------
(***************************************************************************)
(* The safety of RegistryServe, and that it implements PinnedReleases, for *)
(* every number of readers, releases, files and contents, and every limit. *)
(***************************************************************************)
EXTENDS RegistryServe, FiniteSetTheorems, WellFoundedInduction, TLAPS

(* A set of numbers has a least one: what induction comes to without an    *)
(* operator as a parameter.                                                *)
LEMMA LeastOf ==
  ASSUME NEW S \in SUBSET Nat, S # {}
  PROVE  \E n \in S : \A m \in S : n <= m
<1> DEFINE R == {ss \in Nat \X Nat : ss[1] < ss[2]}
<1>1. IsWellFoundedOn(R, Nat)
  <2>1. R = OpToRel(<, Nat)
    BY DEF OpToRel
  <2>2. QED
    BY <2>1, NatLessThanWellFounded, Zenon
<1>2. ASSUME NEW m \in Nat, NEW n \in Nat, m < n
      PROVE  <<m, n>> \in R
  <2>1. <<m, n>>[1] < <<m, n>>[2]
    BY <1>2
  <2>2. QED
    BY <1>2, <2>1
<1> HIDE DEF R
<1>3. PICK n \in S : \A m \in S : ~(<<m, n>> \in R)
  BY <1>1, WFMin
<1>4. \A m \in S : ~(m < n)
  BY <1>2, <1>3
<1>5. \A m \in S : n <= m
  BY <1>4
<1>6. QED
  BY <1>5

LEMMA LeastIs ==
  ASSUME NEW S \in SUBSET Nat, S # {}
  PROVE  Min(S) \in S /\ \A m \in S : Min(S) <= m
BY LeastOf DEF Min

-----------------------------------------------------------------------------
(* Sums over the files of an archive.  A fold takes the elements in the    *)
(* order of Pick; a sum is what it comes to in any order.                  *)
Pick(s) == CHOOSE x \in s : TRUE
FoldOf(g, w, D) ==
    g = [s \in SUBSET D |-> IF s = {} THEN 0 ELSE w[Pick(s)] + g[s \ {Pick(s)}]]
SumOf(g, w, D) ==
    /\ g \in [SUBSET D -> Nat] /\ g[{}] = 0
    /\ \A s \in SUBSET D : \A x \in s : g[s] = w[x] + g[s \ {x}]

LEMMA FoldsAgree ==
  ASSUME NEW D, IsFiniteSet(D), NEW E, D \subseteq E, NEW v, NEW w,
         \A x \in D : v[x] = w[x],
         NEW g, FoldOf(g, v, D), NEW h, FoldOf(h, w, E)
  PROVE  g[D] = h[D]
<1> DEFINE Bad == {s \in SUBSET D : g[s] # h[s]}
           B == {Cardinality(s) : s \in Bad}
<1>1. \A s \in SUBSET D : IsFiniteSet(s) /\ Cardinality(s) \in Nat
  BY FS_Subset, FS_CardinalityType
<1>2. SUFFICES ASSUME g[D] # h[D] PROVE FALSE
  OBVIOUS
<1>3. D \in Bad
  BY <1>2
<1>4. PICK n \in B : \A m \in B : n <= m
  <2>1. B \in SUBSET Nat /\ B # {}
    BY <1>1, <1>3
  <2>2. QED
    BY <2>1, LeastOf
<1>5. PICK s \in Bad : Cardinality(s) = n
  BY <1>4
<1>6. \A t \in SUBSET D : g[t] = (IF t = {} THEN 0 ELSE v[Pick(t)] + g[t \ {Pick(t)}])
  BY DEF FoldOf
<1>7. \A t \in SUBSET E : h[t] = (IF t = {} THEN 0 ELSE w[Pick(t)] + h[t \ {Pick(t)}])
  BY DEF FoldOf
<1>8. s # {}
  BY <1>5, <1>6, <1>7
<1>9. Pick(s) \in s
  BY <1>8 DEF Pick
<1>10. s \ {Pick(s)} \in SUBSET D /\ Cardinality(s \ {Pick(s)}) = n - 1 /\ n \in Nat
  BY <1>1, <1>5, <1>9, FS_RemoveElement
<1>11. g[s \ {Pick(s)}] = h[s \ {Pick(s)}]
  <2>1. n - 1 \notin B
    BY <1>4, <1>10
  <2>2. QED
    BY <1>10, <2>1
<1>12. g[s] = h[s]
  <2>1. s \in SUBSET D /\ s \in SUBSET E /\ v[Pick(s)] = w[Pick(s)]
    BY <1>9, <1>5
  <2>2. QED
    BY <1>6, <1>7, <1>8, <1>11, <2>1
<1>13. QED
  BY <1>5, <1>12

LEMMA SumIsFold ==
  ASSUME NEW D, NEW w, NEW g, SumOf(g, w, D)
  PROVE  FoldOf(g, w, D)
<1>1. \A s \in SUBSET D : g[s] = IF s = {} THEN 0 ELSE w[Pick(s)] + g[s \ {Pick(s)}]
  BY DEF SumOf, Pick
<1>2. QED
  BY <1>1 DEF SumOf, FoldOf

LEMMA SumExists ==
  ASSUME NEW N \in Nat, NEW w \in [1..N -> Nat]
  PROVE  \E g : SumOf(g, w, 1..N)
<1> DEFINE Bad == {n \in 0..N : ~ \E g : SumOf(g, w, 1..n)}
<1>1. SUFFICES ASSUME Bad # {} PROVE FALSE
  <2>1. N \in 0..N
    OBVIOUS
  <2>2. QED
    BY <2>1
<1>2. PICK n \in Bad : \A m \in Bad : n <= m
  <2>1. Bad \in SUBSET Nat
    OBVIOUS
  <2> HIDE DEF Bad
  <2>2. QED
    BY <1>1, <2>1, LeastOf
<1>3. n # 0
  <2>1. SumOf([s \in SUBSET (1..0) |-> 0], w, 1..0)
    <3>1. SUBSET (1..0) = {{}}
      OBVIOUS
    <3>2. QED
      BY <3>1 DEF SumOf
  <2>2. QED
    BY <1>2, <2>1
<1>4. n - 1 \in 0..N /\ n - 1 \notin Bad
  BY <1>2, <1>3
<1>5. PICK g : SumOf(g, w, 1..(n-1))
  BY <1>4
<1> DEFINE h == [s \in SUBSET (1..n) |-> IF n \in s THEN w[n] + g[s \ {n}] ELSE g[s]]
<1>6. n \in 1..N /\ \A s \in SUBSET (1..n) : s \ {n} \in SUBSET (1..(n-1))
  BY <1>2, <1>3
<1>7. \A s \in SUBSET (1..(n-1)) : g[s] \in Nat
  BY <1>5 DEF SumOf
<1>8. h \in [SUBSET (1..n) -> Nat]
  <2>1. \A s \in SUBSET (1..n) : (IF n \in s THEN w[n] + g[s \ {n}] ELSE g[s]) \in Nat
    <3> TAKE s \in SUBSET (1..n)
    <3>1. CASE n \in s
      BY <1>6, <1>7, <3>1
    <3>2. CASE n \notin s
      <4>1. s = s \ {n}
        BY <3>2
      <4>2. QED
        BY <1>6, <1>7, <3>2, <4>1
    <3>3. QED
      BY <3>1, <3>2
  <2>2. QED
    BY <2>1
<1>9. h[{}] = 0
  BY <1>5 DEF SumOf
<1>10. ASSUME NEW s \in SUBSET (1..n), NEW x \in s
       PROVE  h[s] = w[x] + h[s \ {x}]
  <2>1. s \ {x} \in SUBSET (1..n) /\ x \in 1..N
    BY <1>6
  <2>2. CASE x = n
    BY <2>1, <2>2
  <2>3. CASE x # n /\ n \in s
    <3>1. h[s] = w[n] + g[s \ {n}] /\ h[s \ {x}] = w[n] + g[(s \ {x}) \ {n}]
      BY <2>1, <2>3
    <3>2. x \in s \ {n} /\ (s \ {n}) \ {x} = (s \ {x}) \ {n}
      BY <2>3
    <3>3. g[s \ {n}] = w[x] + g[(s \ {x}) \ {n}]
      <4>1. s \ {n} \in SUBSET (1..(n-1))
        BY <1>6
      <4>2. g[s \ {n}] = w[x] + g[(s \ {n}) \ {x}]
        BY <1>5, <3>2, <4>1 DEF SumOf
      <4>3. QED
        BY <3>2, <4>2
    <3>4. w[n] \in Nat /\ w[x] \in Nat /\ g[(s \ {x}) \ {n}] \in Nat
      BY <1>6, <1>7, <2>1
    <3> HIDE DEF h
    <3>5. QED
      BY <3>1, <3>3, <3>4
  <2>4. CASE x # n /\ n \notin s
    <3>1. s \in SUBSET (1..(n-1))
      BY <1>6, <2>4
    <3>2. h[s] = g[s] /\ h[s \ {x}] = g[s \ {x}]
      BY <2>1, <2>4
    <3>3. g[s] = w[x] + g[s \ {x}]
      <4> HIDE DEF h
      <4>1. QED
        BY <1>5, <3>1 DEF SumOf
    <3>4. QED
      BY <3>2, <3>3
  <2>5. QED
    BY <2>2, <2>3, <2>4
<1>11. SumOf(h, w, 1..n)
  <2> HIDE DEF h
  <2> QED BY <1>8, <1>9, <1>10 DEF SumOf
<1>12. QED
  BY <1>2, <1>11

Weight(a) == [f \in File |-> IF a[f] = Absent THEN 0 ELSE SizeOf[a[f]]]
Kept(a) == {f \in File : a[f] # Absent}

LEMMA WeightType ==
  ASSUME NEW a \in Archive
  PROVE  Weight(a) \in [File -> Nat]
BY ContentAssumption DEF Weight, Archive

LEMMA KeptFinite ==
  ASSUME NEW a
  PROVE  Kept(a) \in SUBSET File /\ IsFiniteSet(Kept(a)) /\ Cardinality(Kept(a)) \in Nat /\ IsFiniteSet(File)
<1>1. IsFiniteSet(File)
  BY FileAssumption, FS_Interval DEF File
<1>2. QED
  BY <1>1, FS_Subset, FS_CardinalityType DEF Kept

(* The total size of an archive is a sum.                                  *)
LEMMA TotalIsSum ==
  ASSUME NEW a \in Archive, NEW g, SumOf(g, Weight(a), File)
  PROVE  TotalSize(a) = g[Kept(a)]
<1> DEFINE D == Kept(a)
           v == [f \in D |-> SizeOf[a[f]]]
           k == [s \in SUBSET D |-> g[s]]
           it == CHOOSE i : i = [s \in SUBSET D |-> IF s = {} THEN 0 ELSE SizeOf[a[Pick(s)]] + i[s \ {Pick(s)}]]
<1>1. TotalSize(a) = it[D]
  BY DEF TotalSize, MapThenSumSet, MapThenFoldSet, Pick, Kept
<1>2. \A s \in SUBSET D : s # {} => Pick(s) \in s
  BY DEF Pick
<1>3. FoldOf(g, Weight(a), File)
  BY SumIsFold
<1>4. \A s \in SUBSET D : s \ {Pick(s)} \in SUBSET D /\ s \in SUBSET File
  BY DEF Kept
<1>5. \A s \in SUBSET D : s # {} => Weight(a)[Pick(s)] = SizeOf[a[Pick(s)]]
  BY <1>2 DEF Weight, Kept
<1>6. k = [s \in SUBSET D |-> IF s = {} THEN 0 ELSE SizeOf[a[Pick(s)]] + k[s \ {Pick(s)}]]
  <2>1. \A s \in SUBSET D : g[s] = IF s = {} THEN 0 ELSE SizeOf[a[Pick(s)]] + g[s \ {Pick(s)}]
    BY <1>3, <1>4, <1>5 DEF FoldOf
  <2>2. QED
    BY <2>1, <1>4
<1>7. it = [s \in SUBSET D |-> IF s = {} THEN 0 ELSE SizeOf[a[Pick(s)]] + it[s \ {Pick(s)}]]
  BY <1>6
<1>8. FoldOf(it, v, D)
  <2> HIDE DEF it
  <2>1. \A s \in SUBSET D : s # {} => v[Pick(s)] = SizeOf[a[Pick(s)]]
    BY <1>2
  <2>2. QED
    BY <1>7, <2>1 DEF FoldOf
<1>9. \A x \in D : v[x] = Weight(a)[x]
  BY DEF Weight, Kept
<1>10. it[D] = g[D]
  <2> HIDE DEF it, v
  <2>1. IsFiniteSet(D) /\ D \subseteq File
    BY KeptFinite
  <2>2. QED
    BY <1>3, <1>8, <1>9, <2>1, FoldsAgree
<1>11. QED
  BY <1>1, <1>10

(* Adding a file adds its size.                                            *)
LEMMA TotalAdds ==
  ASSUME NEW a \in Archive, NEW f \in File, a[f] = Absent, NEW x \in Content
  PROVE  /\ TotalSize(a) \in Nat
         /\ TotalSize([a EXCEPT ![f] = x]) = TotalSize(a) + SizeOf[x]
         /\ Kept([a EXCEPT ![f] = x]) = Kept(a) \union {f}
<1> DEFINE b == [a EXCEPT ![f] = x]
<1>1. b \in Archive
  BY DEF Archive
<1>2. PICK g : SumOf(g, Weight(a), File)
  BY WeightType, SumExists, FileAssumption DEF File
<1>3. PICK h : SumOf(h, Weight(b), File)
  BY <1>1, WeightType, SumExists, FileAssumption DEF File
<1>4. Kept(b) = Kept(a) \union {f} /\ f \notin Kept(a)
  BY ContentAssumption DEF Kept, Archive
<1>5. TotalSize(a) = g[Kept(a)] /\ TotalSize(b) = h[Kept(b)]
  BY <1>1, <1>2, <1>3, TotalIsSum
<1>6. h[Kept(b)] = SizeOf[x] + h[Kept(a)]
  <2>1. Weight(b)[f] = SizeOf[x]
    BY ContentAssumption DEF Weight, Archive
  <2>2. Kept(b) \in SUBSET File /\ f \in Kept(b) /\ Kept(b) \ {f} = Kept(a)
    BY <1>4, KeptFinite
  <2>3. QED
    BY <1>3, <2>1, <2>2 DEF SumOf
<1>7. h[Kept(a)] = g[Kept(a)] /\ g[Kept(a)] \in Nat
  <2> DEFINE k == [s \in SUBSET Kept(a) |-> g[s]]
  <2>1. Kept(a) \subseteq File /\ IsFiniteSet(Kept(a))
    BY KeptFinite
  <2>2. SumOf(k, Weight(a), Kept(a))
    <3>1. \A s \in SUBSET Kept(a) : s \in SUBSET File /\ \A y \in s : s \ {y} \in SUBSET Kept(a)
      BY <2>1
    <3>2. QED
      BY <1>2, <3>1 DEF SumOf
  <2>3. FoldOf(k, Weight(a), Kept(a)) /\ FoldOf(h, Weight(b), File)
    BY <1>3, <2>2, SumIsFold
  <2>4. \A y \in Kept(a) : Weight(a)[y] = Weight(b)[y]
    BY <1>4 DEF Weight, Kept, Archive
  <2>5. k[Kept(a)] = h[Kept(a)]
    <3> HIDE DEF k, b
    <3>1. \A y \in Kept(a) : Weight(a)[y] = Weight(b)[y]
      BY <2>4
    <3>2. QED
      BY <2>1, <2>3, <3>1, FoldsAgree
  <2>6. g[Kept(a)] \in Nat
    BY <1>2, <2>1 DEF SumOf
  <2>7. QED
    BY <2>5, <2>6
<1>8. SizeOf[x] \in Nat
  BY ContentAssumption
<1>9. TotalSize(a) \in Nat /\ TotalSize(b) = TotalSize(a) + SizeOf[x]
  <2> HIDE DEF b
  <2> QED BY <1>5, <1>6, <1>7, <1>8
<1>10. QED
  BY <1>4, <1>9

LEMMA TotalNothing == TotalSize(Nothing) = 0 /\ Kept(Nothing) = {} /\ Nothing \in Archive
<1>1. Nothing \in Archive /\ Kept(Nothing) = {}
  BY DEF Nothing, Archive, Kept
<1>2. PICK g : SumOf(g, Weight(Nothing), File)
  BY <1>1, WeightType, SumExists, FileAssumption DEF File
<1>3. QED
  BY <1>1, <1>2, TotalIsSum DEF SumOf

-----------------------------------------------------------------------------
(* The invariant.                                                          *)

Building == {"walk", "read"}

(* A file that a tool is writing is there, and is a regular file.          *)
TreeOK == \A r \in Release, f \in File : <<r, f>> \in writing => tree[r][f] \notin {Absent, Odd}

(* The mutex is held exactly by the reader that builds, and what it builds *)
(* is not in the cache; what another was given is.                         *)
LockOK == \A c \in Reader :
    /\ pc[c] # "idle" <=> rel[c] # NoRelease
    /\ pc[c] \in Building <=> mu = c
    /\ pc[c] \in Building => items[rel[c]] = NoArchive
    /\ pc[c] # "got" => got[c] = NoArchive
    /\ got[c] # NoArchive => items[rel[c]] = got[c]

(* A walk has read the files ahead of those that are left, and knows how   *)
(* much that was.                                                          *)
WalkOf(c) ==
    /\ pc[c] \notin Building => left[c] = {} /\ files[c] = Nothing
    /\ \A f \in left[c] : tree[rel[c]][f] # Absent
    /\ \A f \in left[c], g \in Read(c) : g < f
    /\ size[c] = TotalSize(files[c])
    /\ Cardinality(Read(c)) <= MaxFiles
    /\ pc[c] = "read" =>
        /\ left[c] # {} /\ tree[rel[c]][Min(left[c])] # Odd
        /\ Cardinality(Read(c)) < MaxFiles
WalkOK == \A c \in Reader : WalkOf(c)

(* As long as nobody wrote, what is cached, and what a walk has read, is   *)
(* what is on disk.                                                        *)
UnwrittenOK == writes = 0 =>
    /\ writing = {}
    /\ \A r \in Release : items[r] \in {NoArchive, tree[r]}
    /\ \A c \in Reader : pc[c] \in Building => \A f \in File :
        /\ f \in left[c] \union Read(c) <=> tree[rel[c]][f] # Absent
        /\ f \in Read(c) => files[c][f] = tree[rel[c]][f]

CacheInv == CacheTypeOK /\ TreeOK /\ LockOK /\ WalkOK /\ UnwrittenOK /\ ArchivesBounded

(* A reader without a request is not in Get.                               *)
KindOK == \A c \in Reader : kind[c] = "none" => pc[c] = "idle"

(* What was told of a release is what is cached for it; and without writes *)
(* what is on disk.                                                        *)
ToldOK == \A r \in Release : \A a \in told[r] : items[r] = a
EverOK == writes = 0 => \A r \in Release : ever[r] \subseteq {tree[r]}

IInv == CacheInv /\ RegistryTypeOK /\ KindOK /\ PageIsCurrent /\ ToldOK /\ EverOK
-----------------------------------------------------------------------------
(* The steps of the cache.                                                 *)

(* What a step of Get does to the rest of the process.                     *)
CacheEffect(c) ==
    /\ UNCHANGED treeVars /\ pc[c] # "idle"
    /\ pc' \in [Reader -> {"idle", "get", "walk", "read", "got"}]
    /\ \A d \in Reader \ {c} : pc'[d] = pc[d]
    /\ \/ UNCHANGED items
       \/ \E r \in Release, a \in Archive :
            items[r] = NoArchive /\ items' = [items EXCEPT ![r] = a]

LEMMA EmptyWalk ==
  /\ TotalSize(Nothing) = 0 /\ Nothing \in Archive
  /\ \A f \in File : Nothing[f] = Absent
  /\ Cardinality({f \in File : Nothing[f] # Absent}) = 0
<1>1. {f \in File : Nothing[f] # Absent} = Kept(Nothing)
  BY DEF Kept
<1>2. QED
  BY <1>1, TotalNothing, FS_EmptySet DEF Nothing

LEMMA SameWalk ==
  ASSUME NEW d \in Reader, WalkOf(d), tree' = tree,
         pc'[d] = pc[d], rel'[d] = rel[d], left'[d] = left[d],
         files'[d] = files[d], size'[d] = size[d]
  PROVE  WalkOf(d)' /\ Read(d)' = Read(d)
BY DEF WalkOf, Read, Building

(* A Get that returns leaves the readers as the invariant wants them.      *)
LEMMA ReturnsInv ==
  ASSUME CacheInv, NEW c \in Reader, pc[c] \in {"get", "walk", "read"},
         NEW a \in Archive \union {NoArchive}, Returns(c, a),
         a # NoArchive => items'[rel[c]] = a,
         items' \in [Release -> Archive \union {NoArchive}],
         \A r \in Release : r # rel[c] => items'[r] = items[r],
         items[rel[c]] # NoArchive => items'[rel[c]] = items[rel[c]],
         mu \in {c, Nobody}, mu' = Nobody,
         UNCHANGED <<treeVars, rel>>
  PROVE  /\ CacheTypeOK' /\ TreeOK' /\ LockOK' /\ WalkOK'
         /\ \A d \in Reader : pc'[d] \in Building => pc[d] \in Building /\ d # c
<1> USE DEF CacheInv
<1>1. CacheTypeOK'
  BY EmptyWalk, FileAssumption DEF CacheTypeOK, Returns, treeVars
<1>2. TreeOK'
  BY DEF TreeOK, treeVars
<1>3. LockOK'
  BY PathAssumption DEF LockOK, CacheTypeOK, Returns, Building
<1>4. WalkOK'
  <2>1. ASSUME NEW d \in Reader \ {c}
        PROVE  WalkOf(d)'
    <3>1. /\ tree' = tree /\ pc'[d] = pc[d] /\ rel'[d] = rel[d] /\ left'[d] = left[d]
          /\ files'[d] = files[d] /\ size'[d] = size[d]
      BY DEF CacheTypeOK, Returns, treeVars
    <3>2. WalkOf(d)
      BY DEF WalkOK
    <3>3. QED
      BY <3>1, <3>2, SameWalk
  <2>2. WalkOf(c)'
    BY EmptyWalk, FileAssumption DEF WalkOf, CacheTypeOK, Returns, Building, Read
  <2>3. QED
    BY <2>1, <2>2 DEF WalkOK
<1>5. QED
  BY <1>1, <1>2, <1>3, <1>4 DEF Returns, Building, CacheTypeOK

LEMMA HitInv ==
  ASSUME CacheInv, NEW c \in Reader, Hit(c) \/ PathRefused(c)
  PROVE  CacheInv' /\ CacheEffect(c)
<1> USE DEF CacheInv
<1>1. PICK a \in Archive \union {NoArchive} :
        Returns(c, a) /\ a \in {NoArchive, items[rel[c]]}
  BY PathAssumption DEF Hit, PathRefused, Locks, CacheTypeOK, LockOK
<1>2. pc[c] = "get" /\ mu = Nobody /\ UNCHANGED <<treeVars, mu, items, rel>>
  BY DEF Hit, PathRefused, Locks
<1>3. /\ CacheTypeOK' /\ TreeOK' /\ LockOK' /\ WalkOK'
      /\ \A d \in Reader : pc'[d] \in Building => pc[d] \in Building /\ d # c
  BY <1>1, <1>2, ReturnsInv, PathAssumption DEF CacheTypeOK
<1>4. UnwrittenOK'
  BY <1>1, <1>2, <1>3 DEF UnwrittenOK, Returns, CacheTypeOK, Read, treeVars
<1>5. ArchivesBounded'
  BY <1>2 DEF ArchivesBounded, HasEntry
<1>6. CacheEffect(c)
  BY <1>1, <1>2, <1>3 DEF CacheEffect, Returns, CacheTypeOK
<1>7. QED
  BY <1>3, <1>4, <1>5, <1>6

LEMMA FailsInv ==
  ASSUME CacheInv, NEW c \in Reader, pc[c] \in Building, Fails(c)
  PROVE  CacheInv' /\ CacheEffect(c)
<1> USE DEF CacheInv
<1>1. Returns(c, NoArchive) /\ mu' = Nobody /\ mu = c /\ UNCHANGED <<treeVars, items, rel>>
  BY DEF Fails, LockOK
<1>2. /\ CacheTypeOK' /\ TreeOK' /\ LockOK' /\ WalkOK'
      /\ \A d \in Reader : pc'[d] \in Building => pc[d] \in Building /\ d # c
  BY <1>1, ReturnsInv, PathAssumption DEF CacheTypeOK, Building
<1>3. UnwrittenOK'
  BY <1>1, <1>2 DEF UnwrittenOK, Returns, CacheTypeOK, Read, treeVars
<1>4. ArchivesBounded'
  BY <1>1 DEF ArchivesBounded, HasEntry
<1>5. CacheEffect(c)
  BY <1>1, <1>2 DEF CacheEffect, Returns, CacheTypeOK, Building
<1>6. QED
  BY <1>2, <1>3, <1>4, <1>5

LEMMA ListsInv ==
  ASSUME CacheInv, NEW c \in Reader, Lists(c)
  PROVE  CacheInv' /\ CacheEffect(c)
<1> USE DEF CacheInv, Lists, Locks
<1>1. rel[c] \in Release /\ files[c] = Nothing
  BY DEF LockOK, WalkOK, WalkOf, CacheTypeOK, Building
<1>2. CacheTypeOK'
  BY DEF CacheTypeOK, treeVars
<1>3. TreeOK'
  BY DEF TreeOK, treeVars
<1>4. LockOK'
  BY PathAssumption DEF LockOK, CacheTypeOK, Building
<1>5. WalkOK'
  BY <1>1, EmptyWalk DEF WalkOK, WalkOf, CacheTypeOK, Building, Read, treeVars
<1>6. UnwrittenOK'
  BY <1>1, EmptyWalk DEF UnwrittenOK, CacheTypeOK, Building, Read, treeVars
<1>7. ArchivesBounded'
  BY DEF ArchivesBounded, HasEntry
<1>8. CacheEffect(c)
  BY DEF CacheEffect, CacheTypeOK
<1>9. QED
  BY <1>2, <1>3, <1>4, <1>5, <1>6, <1>7, <1>8

LEMMA ListsMoreInv ==
  ASSUME CacheInv, NEW c \in Reader, ListsMore(c)
  PROVE  CacheInv' /\ CacheEffect(c)
<1> USE DEF CacheInv
<1>1. PICK f \in File \ left[c] :
        /\ tree[rel[c]][f] # Absent /\ \A g \in Read(c) : g < f
        /\ left' = [left EXCEPT ![c] = @ \union {f}]
  BY DEF ListsMore
<1>2. pc[c] = "walk" /\ UNCHANGED <<treeVars, mu, items, pc, rel, files, size, got>>
  BY DEF ListsMore
<1>3. CacheTypeOK'
  BY <1>1, <1>2 DEF CacheTypeOK, treeVars
<1>4. TreeOK' /\ LockOK' /\ ArchivesBounded'
  BY <1>2 DEF TreeOK, LockOK, ArchivesBounded, HasEntry, treeVars
<1>5. WalkOK'
  <2>1. ASSUME NEW d \in Reader \ {c}
        PROVE  WalkOf(d)'
    <3>1. /\ tree' = tree /\ pc'[d] = pc[d] /\ rel'[d] = rel[d] /\ left'[d] = left[d]
          /\ files'[d] = files[d] /\ size'[d] = size[d]
      BY <1>1, <1>2 DEF CacheTypeOK, treeVars
    <3>2. WalkOf(d)
      BY DEF WalkOK
    <3>3. QED
      BY <3>1, <3>2, SameWalk
  <2>2. WalkOf(c)'
    <3>1. left'[c] = left[c] \union {f} /\ Read(c)' = Read(c)
      BY <1>1, <1>2 DEF CacheTypeOK, Read
    <3>2. WalkOf(c)
      BY DEF WalkOK
    <3>3. QED
      BY <1>1, <1>2, <3>1, <3>2 DEF WalkOf, treeVars, Building
  <2>3. QED
    BY <2>1, <2>2 DEF WalkOK
<1>6. UnwrittenOK'
  BY <1>1, <1>2 DEF UnwrittenOK, CacheTypeOK, Read, treeVars
<1>7. CacheEffect(c)
  BY <1>2 DEF CacheEffect, CacheTypeOK
<1>8. QED
  BY <1>3, <1>4, <1>5, <1>6, <1>7

LEMMA StatsInv ==
  ASSUME CacheInv, NEW c \in Reader, Stats(c)
  PROVE  CacheInv' /\ CacheEffect(c)
<1> USE DEF CacheInv
<1>1. /\ pc[c] = "walk" /\ left[c] # {} /\ pc' = [pc EXCEPT ![c] = "read"]
      /\ UNCHANGED <<treeVars, mu, items, rel, buildVars, got>>
      /\ tree[rel[c]][Min(left[c])] # Odd /\ Cardinality(Read(c)) < MaxFiles
  BY DEF Stats, Admits, OnDisk
<1>2. CacheTypeOK'
  BY <1>1 DEF CacheTypeOK, treeVars, buildVars
<1>3. TreeOK' /\ ArchivesBounded'
  BY <1>1 DEF TreeOK, ArchivesBounded, HasEntry, treeVars
<1>4. LockOK'
  BY <1>1 DEF LockOK, CacheTypeOK, Building
<1>5. WalkOK'
  <2>1. ASSUME NEW d \in Reader \ {c}
        PROVE  WalkOf(d)'
    <3>1. /\ tree' = tree /\ pc'[d] = pc[d] /\ rel'[d] = rel[d] /\ left'[d] = left[d]
          /\ files'[d] = files[d] /\ size'[d] = size[d]
      BY <1>1 DEF CacheTypeOK, treeVars, buildVars
    <3>2. WalkOf(d)
      BY DEF WalkOK
    <3>3. QED
      BY <3>1, <3>2, SameWalk
  <2>2. WalkOf(c)'
    <3>1. Read(c)' = Read(c) /\ pc'[c] = "read"
      BY <1>1 DEF CacheTypeOK, Read, buildVars
    <3>2. WalkOf(c)
      BY DEF WalkOK
    <3>3. QED
      BY <1>1, <3>1, <3>2 DEF WalkOf, treeVars, buildVars, Building
  <2>3. QED
    BY <2>1, <2>2 DEF WalkOK
<1>6. UnwrittenOK'
  BY <1>1 DEF UnwrittenOK, CacheTypeOK, Building, Read, treeVars, buildVars
<1>7. CacheEffect(c)
  BY <1>1 DEF CacheEffect, CacheTypeOK
<1>8. QED
  BY <1>2, <1>3, <1>4, <1>5, <1>6, <1>7

LEMMA ReadsInv ==
  ASSUME CacheInv, NEW c \in Reader, Reads(c)
  PROVE  CacheInv' /\ CacheEffect(c)
<1> USE DEF CacheInv
<1> DEFINE f == Min(left[c])
           x == tree[rel[c]][f]
<1>1. /\ pc[c] = "read" /\ pc' = [pc EXCEPT ![c] = "walk"]
      /\ SizeOf[x] <= MaxBytes - size[c]
      /\ left' = [left EXCEPT ![c] = left[c] \ {f}]
      /\ files' = [files EXCEPT ![c][f] = x]
      /\ size' = [size EXCEPT ![c] = size[c] + SizeOf[x]]
      /\ UNCHANGED <<treeVars, mu, items, rel, got>>
  BY DEF Reads, Fits, OnDisk
<1>2. f \in left[c] /\ f \in File /\ \A g \in left[c] : f <= g
  <2>1. left[c] \in SUBSET Nat /\ left[c] # {} /\ left[c] \subseteq File
    BY <1>1 DEF WalkOK, WalkOf, CacheTypeOK, File
  <2>2. QED
    BY <2>1, LeastIs
<1>3. x \in Content /\ SizeOf[x] \in Nat /\ rel[c] \in Release
  <2>1. rel[c] \in Release
    BY <1>1 DEF LockOK, CacheTypeOK
  <2>2. x \in Content \union {Absent, Odd} /\ x # Absent /\ x # Odd
    BY <1>1, <1>2, <2>1 DEF WalkOK, WalkOf, CacheTypeOK
  <2>3. QED
    BY <2>1, <2>2, ContentAssumption
<1>4. files[c] \in Archive /\ files[c][f] = Absent
  <2>1. f \notin Read(c)
    BY <1>2 DEF WalkOK, WalkOf, CacheTypeOK, File
  <2>2. QED
    BY <1>2, <2>1 DEF Read, CacheTypeOK
<1>5. files'[c] = [files[c] EXCEPT ![f] = x]
  BY <1>1 DEF CacheTypeOK
<1> HIDE DEF f, x
<1>6. /\ TotalSize(files'[c]) = TotalSize(files[c]) + SizeOf[x]
      /\ TotalSize(files[c]) \in Nat
      /\ Read(c)' = Read(c) \union {f}
  BY <1>2, <1>3, <1>4, <1>5, TotalAdds DEF Read, Kept
<1>7. Cardinality(Read(c)') <= MaxFiles
  <2>1. Read(c) = Kept(files[c])
    BY DEF Read, Kept
  <2>2. Cardinality(Read(c)') <= Cardinality(Read(c)) + 1 /\ Cardinality(Read(c)) \in Nat
    <3>1. IsFiniteSet(Read(c)) /\ Cardinality(Read(c)) \in Nat
      BY <2>1, KeptFinite
    <3>2. Cardinality(Read(c) \union {f}) \in {Cardinality(Read(c)), Cardinality(Read(c)) + 1}
      BY <3>1, FS_AddElement
    <3>3. QED
      BY <1>6, <3>1, <3>2
  <2>3. Cardinality(Read(c)) < MaxFiles
    BY <1>1 DEF WalkOK, WalkOf
  <2>4. Cardinality(Read(c)') \in Nat
    BY KeptFinite, FS_AddElement, <1>6, <2>1
  <2>5. QED
    BY <2>2, <2>3, <2>4, FileAssumption
<1>8. CacheTypeOK'
  <2>1. size[c] \in 0..MaxBytes /\ size[c] + SizeOf[x] \in 0..MaxBytes
    BY <1>1, <1>3, FileAssumption DEF CacheTypeOK
  <2>2. files'[c] \in Archive
    BY <1>3, <1>4, <1>5 DEF Archive
  <2>3. files' \in [Reader -> Archive]
    BY <1>1, <2>2 DEF CacheTypeOK
  <2>4. QED
    BY <1>1, <2>1, <2>3 DEF CacheTypeOK, treeVars
<1>9. TreeOK' /\ ArchivesBounded'
  BY <1>1 DEF TreeOK, ArchivesBounded, HasEntry, treeVars
<1>10. LockOK'
  BY <1>1 DEF LockOK, CacheTypeOK, Building
<1>11. \A d \in Reader \ {c} : Read(d)' = Read(d) /\ files'[d] = files[d]
  BY <1>1 DEF Read, CacheTypeOK
<1>12. WalkOK'
  <2>1. ASSUME NEW d \in Reader \ {c}
        PROVE  WalkOf(d)'
    BY <1>1, <1>11 DEF WalkOK, WalkOf, CacheTypeOK, Building, treeVars
  <2>2. WalkOf(c)'
    <3>1. size'[c] = TotalSize(files'[c])
      BY <1>1, <1>6 DEF WalkOK, WalkOf, CacheTypeOK
    <3>2. \A e \in left'[c], g \in Read(c)' : g < e
      <4>1. left'[c] = left[c] \ {f} /\ left[c] \subseteq Nat
        BY <1>1 DEF CacheTypeOK, File
      <4>2. \A e \in left[c], g \in Read(c) : g < e
        BY DEF WalkOK, WalkOf
      <4>3. \A e \in left[c] \ {f} : f < e
        BY <1>2, <4>1
      <4>4. QED
        BY <1>6, <4>1, <4>2, <4>3
    <3>3. QED
      BY <1>1, <1>7, <3>1, <3>2 DEF WalkOK, WalkOf, CacheTypeOK, Building, treeVars
  <2>3. QED
    BY <2>1, <2>2 DEF WalkOK
<1>13. UnwrittenOK'
  <2>1. SUFFICES ASSUME writes = 0
                 PROVE  /\ writing' = {}
                        /\ \A r \in Release : items'[r] \in {NoArchive, tree'[r]}
                        /\ \A d \in Reader : pc'[d] \in Building => \A e \in File :
                            /\ e \in left'[d] \union Read(d)' <=> tree'[rel'[d]][e] # Absent
                            /\ e \in Read(d)' => files'[d][e] = tree'[rel'[d]][e]
    BY <1>1 DEF UnwrittenOK, treeVars
  <2>2. writing' = {} /\ \A r \in Release : items'[r] \in {NoArchive, tree'[r]}
    BY <1>1, <2>1 DEF UnwrittenOK, treeVars
  <2>3. ASSUME NEW d \in Reader \ {c}, pc'[d] \in Building, NEW e \in File
        PROVE  /\ e \in left'[d] \union Read(d)' <=> tree'[rel'[d]][e] # Absent
               /\ e \in Read(d)' => files'[d][e] = tree'[rel'[d]][e]
    BY <1>1, <1>11, <2>1, <2>3 DEF UnwrittenOK, CacheTypeOK, treeVars
  <2>4. ASSUME NEW e \in File
        PROVE  /\ e \in left'[c] \union Read(c)' <=> tree'[rel'[c]][e] # Absent
               /\ e \in Read(c)' => files'[c][e] = tree'[rel'[c]][e]
    <3>1. /\ e \in left[c] \union Read(c) <=> tree[rel[c]][e] # Absent
          /\ e \in Read(c) => files[c][e] = tree[rel[c]][e]
      BY <1>1, <2>1 DEF UnwrittenOK, Building
    <3>2. left'[c] \union Read(c)' = left[c] \union Read(c)
      BY <1>1, <1>2, <1>6 DEF CacheTypeOK
    <3>3. files'[c][e] = IF e = f THEN x ELSE files[c][e]
      BY <1>4, <1>5 DEF Archive
    <3>4. x = tree[rel[c]][f] /\ tree' = tree /\ rel' = rel
      BY <1>1 DEF x, treeVars
    <3>5. QED
      BY <1>6, <3>1, <3>2, <3>3, <3>4
  <2>5. QED
    BY <2>2, <2>3, <2>4
<1>14. CacheEffect(c)
  BY <1>1 DEF CacheEffect, CacheTypeOK
<1>15. QED
  BY <1>8, <1>9, <1>10, <1>12, <1>13, <1>14

LEMMA ArchivesInv ==
  ASSUME CacheInv, NEW c \in Reader, Archives(c)
  PROVE  CacheInv' /\ CacheEffect(c)
<1> USE DEF CacheInv
<1>1. /\ pc[c] = "walk" /\ left[c] = {} /\ HasEntry(files[c]) /\ mu = c /\ mu' = Nobody
      /\ items' = [items EXCEPT ![rel[c]] = files[c]] /\ items[rel[c]] = NoArchive
      /\ Returns(c, files[c]) /\ UNCHANGED <<treeVars, rel>>
  BY DEF Archives, LockOK, Building
<1>2. rel[c] \in Release /\ files[c] \in Archive
  BY <1>1 DEF LockOK, CacheTypeOK
<1>3. items' \in [Release -> Archive \union {NoArchive}] /\ items'[rel[c]] = files[c]
      /\ \A r \in Release : r # rel[c] => items'[r] = items[r]
  BY <1>1, <1>2 DEF CacheTypeOK
<1>4. /\ CacheTypeOK' /\ TreeOK' /\ LockOK' /\ WalkOK'
      /\ \A d \in Reader : pc'[d] \in Building => pc[d] \in Building /\ d # c
  BY <1>1, <1>2, <1>3, ReturnsInv, PathAssumption
<1>5. UnwrittenOK'
  <2>1. ASSUME writes = 0
        PROVE  files[c] = tree[rel[c]]
    <3>1. \A f \in File : files[c][f] = tree[rel[c]][f]
      BY <1>1, <2>1 DEF UnwrittenOK, Building, Read
    <3>2. QED
      BY <1>2, <3>1 DEF CacheTypeOK, Archive
  <2>2. QED
    BY <1>1, <1>2, <1>3, <1>4, <2>1 DEF UnwrittenOK, Returns, CacheTypeOK, Read, treeVars
<1>6. ArchivesBounded'
  <2>1. TotalSize(files[c]) <= MaxBytes
    BY FileAssumption DEF WalkOK, WalkOf, CacheTypeOK
  <2>2. Cardinality({f \in File : files[c][f] # Absent}) <= MaxFiles
    BY DEF WalkOK, WalkOf, Read
  <2>3. QED
    BY <1>1, <1>2, <1>3, <2>1, <2>2 DEF ArchivesBounded
<1>7. CacheEffect(c)
  BY <1>1, <1>2, <1>4 DEF CacheEffect, Returns, CacheTypeOK
<1>8. QED
  BY <1>4, <1>5, <1>6, <1>7

(* Every step of Get.                                                      *)
LEMMA CacheStepInv ==
  ASSUME CacheInv, NEW c \in Reader, CacheStep(c)
  PROVE  CacheInv' /\ CacheEffect(c)
<1>1. CASE Takes(c)
  BY <1>1, HitInv, ListsInv DEF Takes
<1>2. CASE StatRefuses(c) \/ ReadRefuses(c) \/ ManifestRefused(c) \/ BuildBreaks(c)
  <2>1. pc[c] \in Building /\ Fails(c)
    BY <1>2 DEF StatRefuses, ReadRefuses, ManifestRefused, BuildBreaks, Building
  <2>2. QED
    BY <2>1, FailsInv
<1>3. CASE Stats(c) \/ Reads(c) \/ Archives(c)
  BY <1>3, StatsInv, ReadsInv, ArchivesInv
<1>4. CASE ListsMore(c)
  BY <1>4, ListsMoreInv
<1>5. QED
  BY <1>1, <1>2, <1>3, <1>4 DEF CacheStep, Builds
-----------------------------------------------------------------------------
(* The steps of requests, tools and the process, as the cache sees them.   *)

LEMMA SameCache ==
  ASSUME CacheInv, UNCHANGED cacheVars
  PROVE  CacheInv'
<1> USE DEF CacheInv, cacheVars, treeVars, buildVars
<1>1. CacheTypeOK' /\ TreeOK' /\ LockOK' /\ ArchivesBounded'
  <2>1. CacheTypeOK'
    BY DEF CacheTypeOK
  <2>2. TreeOK' /\ LockOK'
    BY DEF TreeOK, LockOK
  <2>3. ArchivesBounded'
    BY DEF ArchivesBounded, HasEntry
  <2>4. QED
    BY <2>1, <2>2, <2>3
<1>2. WalkOK'
  BY SameWalk DEF WalkOK
<1>3. UnwrittenOK'
  BY DEF UnwrittenOK, Read
<1>4. QED
  BY <1>1, <1>2, <1>3

LEMMA GetInv ==
  ASSUME CacheInv, NEW c \in Reader, NEW r \in Release, pc[c] = "idle", Get(c, r)
  PROVE  CacheInv' /\ UNCHANGED <<items, treeVars>> /\ \A d \in Reader \ {c} : pc'[d] = pc[d]
<1> USE DEF CacheInv, Get, treeVars, buildVars
<1>1. CacheTypeOK' /\ TreeOK' /\ ArchivesBounded'
  BY DEF CacheTypeOK, TreeOK, ArchivesBounded, HasEntry
<1>2. LockOK'
  BY PathAssumption DEF LockOK, CacheTypeOK, Building
<1>3. WalkOK'
  <2>1. ASSUME NEW d \in Reader \ {c}
        PROVE  WalkOf(d)'
    <3>1. pc'[d] = pc[d] /\ rel'[d] = rel[d] /\ WalkOf(d)
      BY DEF CacheTypeOK, WalkOK
    <3>2. QED
      BY <3>1, SameWalk
  <2>2. WalkOf(c)'
    BY EmptyWalk DEF WalkOK, WalkOf, CacheTypeOK, Building, Read
  <2>3. QED
    BY <2>1, <2>2 DEF WalkOK
<1>4. UnwrittenOK'
  BY DEF UnwrittenOK, CacheTypeOK, Building, Read
<1>5. QED
  BY <1>1, <1>2, <1>3, <1>4 DEF CacheTypeOK

LEMMA LeavesInv ==
  ASSUME CacheInv, NEW c \in Reader, pc[c] = "got", Leaves(c)
  PROVE  CacheInv' /\ UNCHANGED <<items, treeVars>>
         /\ pc'[c] = "idle" /\ \A d \in Reader \ {c} : pc'[d] = pc[d]
<1> USE DEF CacheInv, Leaves, treeVars, buildVars
<1>1. CacheTypeOK' /\ TreeOK' /\ ArchivesBounded'
  BY DEF CacheTypeOK, TreeOK, ArchivesBounded, HasEntry
<1>2. LockOK'
  BY PathAssumption DEF LockOK, CacheTypeOK, Building
<1>3. WalkOK'
  <2>1. ASSUME NEW d \in Reader \ {c}
        PROVE  WalkOf(d)'
    <3>1. pc'[d] = pc[d] /\ rel'[d] = rel[d] /\ WalkOf(d)
      BY DEF CacheTypeOK, WalkOK
    <3>2. QED
      BY <3>1, SameWalk
  <2>2. WalkOf(c)'
    BY EmptyWalk DEF WalkOK, WalkOf, CacheTypeOK, Building, Read
  <2>3. QED
    BY <2>1, <2>2 DEF WalkOK
<1>4. UnwrittenOK'
  BY DEF UnwrittenOK, CacheTypeOK, Building, Read
<1>5. QED
  BY <1>1, <1>2, <1>3, <1>4 DEF CacheTypeOK

(* A write leaves a regular file where there is one.                       *)
LEMMA WriteInv ==
  ASSUME CacheInv, NEW r \in Release, NEW f \in File, NEW x \in Content,
         tree[r][f] # Odd, tree' = [tree EXCEPT ![r][f] = x],
         writing' \subseteq writing \union {<<r, f>>}, writes' \in 0..MaxWrites, writes' # 0,
         UNCHANGED <<mu, items, pc, rel, buildVars, got>>
  PROVE  CacheInv'
<1> USE DEF CacheInv, buildVars
<1>1. \A q \in Release, g \in File : tree'[q][g] = IF q = r /\ g = f THEN x ELSE tree[q][g]
  BY DEF CacheTypeOK
<1>2. x \notin {Absent, Odd}
  BY ContentAssumption
<1>3. CacheTypeOK'
  <2>1. tree' \in [Release -> [File -> Content \union {Absent, Odd}]]
    BY DEF CacheTypeOK
  <2>2. writing' \subseteq Release \X File
    BY DEF CacheTypeOK
  <2>3. QED
    BY <2>1, <2>2 DEF CacheTypeOK
<1>4. TreeOK'
  <2>1. ASSUME NEW q \in Release, NEW g \in File, <<q, g>> \in writing'
        PROVE  tree'[q][g] \notin {Absent, Odd}
    <3>1. CASE q = r /\ g = f
      BY <1>1, <1>2, <3>1
    <3>2. CASE ~(q = r /\ g = f)
      <4>1. <<q, g>> \in writing
        BY <2>1, <3>2
      <4>2. QED
        BY <1>1, <3>2, <4>1 DEF TreeOK
    <3>3. QED
      BY <3>1, <3>2
  <2>2. QED
    BY <2>1 DEF TreeOK
<1>5. LockOK' /\ ArchivesBounded'
  BY DEF LockOK, ArchivesBounded, HasEntry
<1>6. WalkOK'
  <2>1. SUFFICES ASSUME NEW c \in Reader PROVE WalkOf(c)'
    BY DEF WalkOK
  <2>2. WalkOf(c) /\ Read(c)' = Read(c)
    BY DEF WalkOK, Read
  <2>3. pc[c] \notin Building => left'[c] = {} /\ files'[c] = Nothing
    BY <2>2 DEF WalkOf
  <2>4. left[c] # {} => rel[c] \in Release /\ Min(left[c]) \in left[c] /\ left[c] \subseteq File
    <3>1. left[c] \in SUBSET Nat /\ left[c] \subseteq File
      BY DEF CacheTypeOK, File
    <3>2. left[c] # {} => rel[c] \in Release
      BY <2>2 DEF WalkOf, LockOK, CacheTypeOK, Building
    <3>3. QED
      BY <3>1, <3>2, LeastIs
  <2>5. \A g \in left[c] : tree'[rel[c]][g] # Absent
    BY <1>1, <1>2, <2>2, <2>4 DEF WalkOf
  <2>6. pc[c] = "read" => tree'[rel[c]][Min(left[c])] # Odd
    BY <1>1, <1>2, <2>2, <2>4 DEF WalkOf
  <2>7. QED
    BY <2>2, <2>3, <2>5, <2>6 DEF WalkOf
<1>7. UnwrittenOK'
  BY DEF UnwrittenOK
<1>8. QED
  BY <1>3, <1>4, <1>5, <1>6, <1>7

LEMMA ToolInv ==
  ASSUME CacheInv, Tool
  PROVE  CacheInv' /\ UNCHANGED <<items, pc>> /\ (writes' = 0 => UNCHANGED <<tree, writes>>)
<1> USE DEF CacheInv
<1>1. ASSUME NEW r \in Release, NEW f \in File, WriteBegins(r, f)
      PROVE  CacheInv' /\ UNCHANGED <<items, pc>> /\ writes' # 0
  <2>1. writes' \in 0..MaxWrites /\ writes' # 0
    BY <1>1, FileAssumption DEF WriteBegins, CacheTypeOK
  <2>2. QED
    BY <1>1, <2>1, WriteInv, ContentAssumption DEF WriteBegins
<1>2. ASSUME NEW r \in Release, NEW f \in File, WriteEnds(r, f)
      PROVE  CacheInv' /\ UNCHANGED <<items, pc>> /\ writes' # 0
  <2>1. writes \in 0..MaxWrites /\ writes # 0 /\ tree[r][f] # Odd
    BY <1>2 DEF WriteEnds, CacheTypeOK, UnwrittenOK, TreeOK
  <2>2. PICK x \in Content : tree' = [tree EXCEPT ![r][f] = x]
    BY <1>2 DEF WriteEnds
  <2>3. writing' \subseteq writing \union {<<r, f>>} /\ writes' = writes
        /\ UNCHANGED <<mu, items, pc, rel, buildVars, got>>
    BY <1>2 DEF WriteEnds
  <2>4. QED
    BY <2>1, <2>2, <2>3, WriteInv
<1>3. CASE ToolCrashes
  <2>1. writing' = {} /\ UNCHANGED <<tree, writes, mu, items, pc, rel, buildVars, got>>
    BY <1>3 DEF ToolCrashes
  <2>2. CacheTypeOK' /\ TreeOK' /\ LockOK' /\ ArchivesBounded'
    BY <2>1 DEF CacheTypeOK, TreeOK, LockOK, ArchivesBounded, HasEntry, buildVars
  <2>3. WalkOK'
    BY <2>1, SameWalk DEF WalkOK, buildVars
  <2>4. UnwrittenOK'
    BY <2>1 DEF UnwrittenOK, Read, buildVars
  <2>5. QED
    BY <2>1, <2>2, <2>3, <2>4
<1>4. QED
  BY <1>1, <1>2, <1>3 DEF Tool

(* A process that has just begun, or has just ended.                       *)
LEMMA IdleInv ==
  ASSUME EmptyCache, AllIdle, TreeOK, writes = 0 => writing = {},
         tree \in [Release -> [File -> Content \union {Absent, Odd}]],
         writing \subseteq Release \X File, writes \in 0..MaxWrites
  PROVE  CacheInv
<1> USE DEF EmptyCache, AllIdle
<1>1. CacheTypeOK
  BY EmptyWalk, FileAssumption DEF CacheTypeOK
<1>2. LockOK
  BY PathAssumption DEF LockOK, Building
<1>3. WalkOK
  BY EmptyWalk, FileAssumption DEF WalkOK, WalkOf, Building, Read
<1>4. UnwrittenOK /\ ArchivesBounded
  BY DEF UnwrittenOK, ArchivesBounded, Building
<1>5. QED
  BY <1>1, <1>2, <1>3, <1>4 DEF CacheInv

LEMMA KilledInv ==
  ASSUME CacheInv, ForgetsCache, UNCHANGED treeVars
  PROVE  CacheInv'
<1> USE DEF ForgetsCache, CacheInv, treeVars
<1>1. TreeOK' /\ (writes' = 0 => writing' = {})
  BY DEF TreeOK, UnwrittenOK
<1>2. CacheTypeOK'
  BY EmptyWalk, FileAssumption DEF CacheTypeOK
<1>3. LockOK'
  BY PathAssumption DEF LockOK, Building
<1>4. WalkOK'
  BY EmptyWalk, FileAssumption DEF WalkOK, WalkOf, Building, Read
<1>5. UnwrittenOK' /\ ArchivesBounded'
  BY <1>1 DEF UnwrittenOK, ArchivesBounded, Building
<1>6. QED
  BY <1>1, <1>2, <1>3, <1>4, <1>5

-----------------------------------------------------------------------------
(* The invariant of the process.                                           *)

(* What a step leaves to the clients: nothing, one more release pinned,    *)
(* replies about pinned archives, or nothing of the process at all.        *)
Pins == UNCHANGED told /\ \E r \in Release, a \in Archive :
            items[r] = NoArchive /\ items' = [items EXCEPT ![r] = a]
Tells == UNCHANGED items /\ \E R \in SUBSET (Release \X Archive) :
            Tell(R) /\ \A e \in R : items[e[1]] = e[2]
Forgets ==
    /\ items' = [r \in Release |-> NoArchive] /\ told' = [r \in Release |-> {}]
    /\ page' = [c \in Reader |-> {}] /\ UNCHANGED ever
Effect == UNCHANGED <<items, told, ever>> \/ (Pins /\ UNCHANGED ever) \/ Tells \/ Forgets

TableTypeOK ==
    /\ up \in BOOLEAN /\ torn \in BOOLEAN
    /\ index \in [Release -> State] /\ catalog \in [Release -> State]
    /\ kind \in [Reader -> {"none", "list", "release", "download"}]
    /\ todo \in [Reader -> SUBSET Release]
    /\ page \in [Reader -> SUBSET (Release \X Archive)]
    /\ answer \in [Reader -> Answer]
HistoryTypeOK == told \in [Release -> SUBSET Archive] /\ ever \in [Release -> SUBSET Archive]

LEMMA TypeParts == RegistryTypeOK <=> CacheTypeOK /\ TableTypeOK /\ HistoryTypeOK
BY DEF RegistryTypeOK, TableTypeOK, HistoryTypeOK

LEMMA TellType ==
  ASSUME HistoryTypeOK, NEW R, Tell(R)
  PROVE  HistoryTypeOK'
BY DEF HistoryTypeOK, Tell

(* Each step has one of those effects, and keeps the cache in order.       *)
StepOK ==
    /\ CacheInv' /\ TableTypeOK' /\ KindOK' /\ PageIsCurrent'
    /\ Effect /\ (writes' = 0 => UNCHANGED <<tree, writes>>)

LEMMA IndexInv ==
  ASSUME CacheInv, IndexBegins
  PROVE  CacheInv' /\ writes' # 0
<1> USE DEF CacheInv, IndexBegins, buildVars
<1>1. writes' \in 0..MaxWrites /\ writes' # 0
  BY FileAssumption DEF CacheTypeOK
<1>2. CacheTypeOK'
  BY <1>1 DEF CacheTypeOK
<1>3. TreeOK' /\ LockOK'
  BY DEF TreeOK, LockOK
<1>4. WalkOK'
  BY SameWalk DEF WalkOK
<1>5. UnwrittenOK'
  BY <1>1 DEF UnwrittenOK
<1>6. ArchivesBounded'
  BY DEF ArchivesBounded, HasEntry
<1>7. QED
  BY <1>1, <1>2, <1>3, <1>4, <1>5, <1>6

(* A listing stays current when the cache only grows.                      *)
LEMMA PageKept ==
  ASSUME CacheTypeOK, PageIsCurrent, TableTypeOK,
         UNCHANGED items \/ \E r \in Release, a \in Archive :
            items[r] = NoArchive /\ items' = [items EXCEPT ![r] = a],
         \A c \in Reader : page'[c] \subseteq page[c]
  PROVE  PageIsCurrent'
<1>1. SUFFICES ASSUME NEW c \in Reader, NEW e \in page[c] PROVE items'[e[1]] = e[2]
  BY DEF PageIsCurrent
<1>2. items[e[1]] = e[2] /\ e[1] \in Release /\ items[e[1]] # NoArchive
  BY ArchiveAssumption DEF PageIsCurrent, TableTypeOK
<1>3. items'[e[1]] = items[e[1]]
  BY <1>2 DEF CacheTypeOK
<1>4. QED
  BY <1>2, <1>3

LEMMA RepliesType ==
  ASSUME TableTypeOK, NEW c \in Reader, NEW a \in Answer, Replies(c, a),
         UNCHANGED <<up, diskVars, catalog>>
  PROVE  /\ TableTypeOK' /\ \A d \in Reader : page'[d] \subseteq page[d]
         /\ \A d \in Reader \ {c} : kind'[d] = kind[d]
BY DEF TableTypeOK, Replies, diskVars

(* What a reader that returned from Get was given is cached.               *)
LEMMA GotIsCached ==
  ASSUME CacheInv, NEW c \in Reader, pc[c] = "got"
  PROVE  /\ rel[c] \in Release /\ got[c] \in Archive \union {NoArchive}
         /\ got[c] # NoArchive => items[rel[c]] = got[c]
BY DEF CacheInv, CacheTypeOK, LockOK

(* The steps of the process and of the tools.                              *)
LEMMA ProcessStep ==
  ASSUME IInv, Start \/ Killed \/ IndexBegins \/ IndexEnds \/ (Tool /\ Outside)
  PROVE  StepOK
<1> USE DEF IInv
<1>0. TableTypeOK
  BY TypeParts
<1>1. CASE Start
  <2>1. CacheInv'
    BY <1>1, SameCache DEF Start
  <2>2. TableTypeOK' /\ KindOK'
    BY <1>0, <1>1 DEF Start, TableTypeOK, KindOK, diskVars, serveVars, cacheVars
  <2>3. PageIsCurrent'
    BY <1>0, <1>1, PageKept DEF CacheInv, Start, serveVars, cacheVars
  <2>4. QED
    BY <1>1, <2>1, <2>2, <2>3 DEF Start, StepOK, Effect, cacheVars, treeVars
<1>2. CASE Killed
  <2>1. CacheInv'
    BY <1>2, KilledInv DEF Killed
  <2>2. TableTypeOK' /\ KindOK' /\ PageIsCurrent'
    BY <1>0, <1>2 DEF Killed, ForgetsRequests, ForgetsCache, TableTypeOK, KindOK, PageIsCurrent,
                      diskVars, State, Answer
  <2>3. Forgets
    BY <1>2 DEF Killed, ForgetsRequests, ForgetsCache, Forgets
  <2>4. QED
    BY <1>2, <2>1, <2>2, <2>3 DEF Killed, StepOK, Effect, treeVars
<1>3. CASE IndexBegins
  <2>1. CacheInv' /\ writes' # 0
    BY <1>3, IndexInv
  <2>2. TableTypeOK' /\ KindOK'
    BY <1>0, <1>3 DEF IndexBegins, TableTypeOK, KindOK, serveVars
  <2>3. PageIsCurrent'
    BY <1>0, <1>3, PageKept DEF CacheInv, IndexBegins, serveVars
  <2>4. QED
    BY <1>3, <2>1, <2>2, <2>3 DEF IndexBegins, StepOK, Effect
<1>4. CASE IndexEnds
  <2>1. CacheInv'
    BY <1>4, SameCache DEF IndexEnds
  <2>2. TableTypeOK' /\ KindOK'
    <3>1. index' \in [Release -> State]
      BY <1>0, <1>4 DEF IndexEnds, TableTypeOK, State
    <3>2. QED
      BY <1>0, <1>4, <3>1 DEF IndexEnds, TableTypeOK, KindOK, serveVars, cacheVars
  <2>3. PageIsCurrent'
    BY <1>0, <1>4, PageKept DEF CacheInv, IndexEnds, serveVars, cacheVars
  <2>4. QED
    BY <1>4, <2>1, <2>2, <2>3 DEF IndexEnds, StepOK, Effect, cacheVars, treeVars
<1>5. CASE Tool /\ Outside
  <2>1. CacheInv' /\ UNCHANGED <<items, pc>> /\ (writes' = 0 => UNCHANGED <<tree, writes>>)
    BY <1>5, ToolInv
  <2>2. TableTypeOK' /\ KindOK'
    BY <1>0, <1>5, <2>1 DEF Outside, TableTypeOK, KindOK, diskVars, serveVars
  <2>3. PageIsCurrent'
    BY <1>0, <1>5, <2>1, PageKept DEF CacheInv, Outside, serveVars
  <2>4. QED
    BY <1>5, <2>1, <2>2, <2>3 DEF Outside, StepOK, Effect
<1>6. QED
  BY <1>1, <1>2, <1>3, <1>4, <1>5

(* The steps of a request that has no archive in hand.                     *)
LEMMA AskStep ==
  ASSUME IInv, NEW c \in Reader, ReplyAtOnce(c) \/ AskList(c) \/ Ask(c) \/ Decorate(c) \/ ReplyList(c)
  PROVE  StepOK
<1> USE DEF IInv
<1>0. TableTypeOK
  BY TypeParts
<1>1. CASE ReplyAtOnce(c)
  <2>1. PICK a \in Answer : Replies(c, a)
    BY <1>1 DEF ReplyAtOnce
  <2>2. /\ CacheInv' /\ UNCHANGED <<treeVars, items, pc, told, ever>>
    BY <1>1, SameCache DEF ReplyAtOnce, cacheVars
  <2>3. TableTypeOK' /\ \A d \in Reader : page'[d] \subseteq page[d]
    BY <1>0, <1>1, <2>1, RepliesType DEF ReplyAtOnce
  <2>4. KindOK'
    BY <1>0, <1>1, <2>1, <2>2, RepliesType DEF ReplyAtOnce, Idle, KindOK
  <2>5. QED
    BY <1>0, <2>2, <2>3, <2>4, PageKept DEF CacheInv, StepOK, Effect, treeVars
<1>2. CASE AskList(c)
  <2>1. CacheInv' /\ UNCHANGED <<treeVars, items, pc, told, ever, page>>
    BY <1>2, SameCache DEF AskList, cacheVars
  <2>2. TableTypeOK' /\ KindOK'
    BY <1>0, <1>2, <2>1 DEF AskList, TableTypeOK, KindOK, Listed, Answer, diskVars
  <2>3. QED
    BY <1>0, <2>1, <2>2, PageKept DEF CacheInv, StepOK, Effect, treeVars
<1>3. CASE Ask(c)
  <2>1. pc[c] = "idle"
    BY <1>3 DEF Ask, Idle, KindOK
  <2>2. PICK k \in {"release", "download"}, r \in Listed :
            kind' = [kind EXCEPT ![c] = k] /\ Get(c, r)
    BY <1>3 DEF Ask
  <2>3. /\ CacheInv' /\ UNCHANGED <<items, treeVars>> /\ \A d \in Reader \ {c} : pc'[d] = pc[d]
    BY <2>1, <2>2, GetInv DEF Listed
  <2>4. TableTypeOK' /\ KindOK'
    BY <1>0, <1>3, <2>2, <2>3 DEF Ask, TableTypeOK, KindOK, Answer, diskVars
  <2>5. UNCHANGED <<page, told, ever>>
    BY <1>3 DEF Ask
  <2>6. QED
    BY <1>0, <2>3, <2>4, <2>5, PageKept DEF CacheInv, StepOK, Effect, treeVars
<1>4. CASE Decorate(c)
  <2>1. PICK r \in todo[c] : Get(c, r) /\ todo' = [todo EXCEPT ![c] = @ \ {r}]
    BY <1>4 DEF Decorate
  <2>2. /\ CacheInv' /\ UNCHANGED <<items, treeVars>> /\ \A d \in Reader \ {c} : pc'[d] = pc[d]
    BY <1>0, <1>4, <2>1, GetInv DEF Decorate, TableTypeOK
  <2>3. TableTypeOK' /\ KindOK'
    BY <1>0, <1>4, <2>1, <2>2 DEF Decorate, TableTypeOK, KindOK, diskVars
  <2>4. UNCHANGED <<page, told, ever>>
    BY <1>4 DEF Decorate
  <2>5. QED
    BY <1>0, <2>2, <2>3, <2>4, PageKept DEF CacheInv, StepOK, Effect, treeVars
<1>5. CASE ReplyList(c)
  <2>1. CacheInv' /\ UNCHANGED <<treeVars, items, pc>>
    BY <1>5, SameCache DEF ReplyList, cacheVars
  <2>2. TableTypeOK' /\ \A d \in Reader : page'[d] \subseteq page[d]
    BY <1>0, <1>5, RepliesType DEF ReplyList, Answer
  <2>3. KindOK'
    BY <1>0, <1>5, <2>1, RepliesType DEF ReplyList, KindOK, Answer
  <2>4. Tells
    BY <1>0, <1>5, <2>1 DEF ReplyList, Tells, PageIsCurrent, TableTypeOK
  <2>5. QED
    BY <1>0, <2>1, <2>2, <2>3, <2>4, PageKept DEF CacheInv, StepOK, Effect, treeVars
<1>6. QED
  BY <1>1, <1>2, <1>3, <1>4, <1>5

(* The steps of a request that returned from Get.                          *)
LEMMA GotStep ==
  ASSUME IInv, NEW c \in Reader,
         Decorated(c) \/ ReplyUnavailable(c) \/ ReplyRelease(c) \/ ReplyRefused(c) \/ ReplyArchive(c)
  PROVE  StepOK
<1> USE DEF IInv
<1>0. TableTypeOK
  BY TypeParts
<1>1. pc[c] = "got" /\ Leaves(c) /\ UNCHANGED <<up, diskVars, catalog>>
  BY DEF Decorated, ReplyUnavailable, ReplyRelease, ReplyRefused, ReplyArchive
<1>2. /\ CacheInv' /\ UNCHANGED <<items, treeVars>>
      /\ pc'[c] = "idle" /\ \A d \in Reader \ {c} : pc'[d] = pc[d]
  BY <1>1, LeavesInv
<1>3. /\ rel[c] \in Release /\ got[c] \in Archive \union {NoArchive}
      /\ got[c] # NoArchive => items[rel[c]] = got[c]
  BY <1>1, GotIsCached
<1>4. CASE Decorated(c)
  <2>1. /\ page' = [page EXCEPT ![c] = @ \union ({<<rel[c], got[c]>>} \ (Release \X {NoArchive}))]
        /\ UNCHANGED <<kind, todo, answer, told, ever>>
    BY <1>4 DEF Decorated
  <2>2. {<<rel[c], got[c]>>} \ (Release \X {NoArchive})
            \subseteq {e \in Release \X Archive : items[e[1]] = e[2]}
    <3>1. CASE got[c] = NoArchive
      BY <1>3, <3>1
    <3>2. CASE got[c] # NoArchive
      BY <1>3, <3>2
    <3>3. QED
      BY <3>1, <3>2
  <2>3. TableTypeOK' /\ KindOK'
    BY <1>0, <1>1, <1>2, <2>1, <2>2 DEF TableTypeOK, KindOK, diskVars
  <2>4. PageIsCurrent'
    BY <1>0, <1>2, <2>1, <2>2 DEF PageIsCurrent, TableTypeOK
  <2>5. QED
    BY <1>2, <2>1, <2>3, <2>4 DEF StepOK, Effect, treeVars
<1>5. CASE ~Decorated(c)
  <2>1. PICK a \in Answer : Replies(c, a)
    BY <1>5 DEF ReplyUnavailable, ReplyRelease, ReplyRefused, ReplyArchive, Answer
  <2>2. TableTypeOK' /\ (\A d \in Reader : page'[d] \subseteq page[d])
        /\ \A d \in Reader \ {c} : kind'[d] = kind[d]
    BY <1>0, <1>1, <2>1, RepliesType
  <2>3. KindOK' /\ PageIsCurrent'
    BY <1>0, <1>2, <2>2, PageKept DEF CacheInv, KindOK
  <2>4. UNCHANGED <<items, told, ever>> \/ Tells
    <3>1. CASE ReplyUnavailable(c) \/ ReplyRefused(c)
      BY <1>2, <3>1 DEF ReplyUnavailable, ReplyRefused
    <3>2. CASE ReplyRelease(c) \/ ReplyArchive(c)
      <4>1. Tell({<<rel[c], got[c]>>}) /\ got[c] # NoArchive
        BY <3>2 DEF ReplyRelease, ReplyArchive
      <4>2. {<<rel[c], got[c]>>} \in SUBSET (Release \X Archive)
        BY <1>3, <4>1
      <4>3. QED
        BY <1>2, <1>3, <4>1, <4>2 DEF Tells
    <3>3. QED
      BY <1>5, <3>1, <3>2
  <2>5. QED
    BY <1>2, <2>2, <2>3, <2>4 DEF StepOK, Effect, treeVars
<1>6. QED
  BY <1>4, <1>5

LEMMA EveryStep ==
  ASSUME IInv, Next
  PROVE  StepOK
<1> USE DEF IInv
<1>1. CASE Start \/ Killed \/ IndexBegins \/ IndexEnds \/ (Tool /\ Outside)
  BY <1>1, ProcessStep
<1>2. ASSUME NEW c \in Reader, ReplyAtOnce(c) \/ AskList(c) \/ Ask(c) \/ Handles(c)
      PROVE  StepOK
  BY <1>2, AskStep, GotStep DEF Handles
<1>3. ASSUME NEW c \in Reader, CacheStep(c), Outside
      PROVE  StepOK
  <2>1. CacheInv' /\ CacheEffect(c)
    BY <1>3, CacheStepInv
  <2>2. TableTypeOK' /\ KindOK'
    BY <1>3, <2>1, TypeParts DEF Outside, TableTypeOK, KindOK, CacheEffect, diskVars, serveVars
  <2>3. PageIsCurrent'
    BY <1>3, <2>1, TypeParts, PageKept DEF CacheInv, Outside, CacheEffect, serveVars
  <2>4. Effect
    BY <1>3, <2>1 DEF Outside, CacheEffect, Effect, Pins
  <2>5. QED
    BY <2>1, <2>2, <2>3, <2>4 DEF StepOK, CacheEffect, treeVars
<1>4. QED
  BY <1>1, <1>2, <1>3 DEF Next

(* What has been told stays told truly.                                    *)
LEMMA TellsTrue ==
  ASSUME IInv, Tells, writes' = 0 => UNCHANGED <<tree, writes>>
  PROVE  HistoryTypeOK' /\ ToldOK' /\ EverOK'
<1> USE DEF IInv
<1>1. PICK R \in SUBSET (Release \X Archive) : Tell(R) /\ \A e \in R : items[e[1]] = e[2]
  BY DEF Tells
<1>2. \A r \in Release, a \in Archive : <<r, a>> \in R => items[r] = a
  <2>1. \A r \in Release, a \in Archive : <<r, a>>[1] = r /\ <<r, a>>[2] = a
    OBVIOUS
  <2>2. QED
    BY <1>1, <2>1
<1>3. HistoryTypeOK /\ items' = items
  BY TypeParts DEF Tells
<1>4. HistoryTypeOK'
  BY <1>1, <1>3, TellType
<1>5. ToldOK'
  BY <1>1, <1>2, <1>3 DEF ToldOK, Tell, HistoryTypeOK
<1>6. EverOK'
  <2>1. SUFFICES ASSUME writes' = 0, NEW r \in Release, NEW a \in ever'[r] PROVE a = tree'[r]
    BY DEF EverOK
  <2>2. writes = 0 /\ tree' = tree
    BY <2>1
  <2>3. CASE a \in ever[r]
    BY <2>2, <2>3 DEF EverOK
  <2>4. CASE a \in Archive /\ <<r, a>> \in R
    <3>1. items[r] = a /\ a # NoArchive
      BY <1>2, <2>4, ArchiveAssumption
    <3>2. items[r] \in {NoArchive, tree[r]}
      BY <2>2 DEF CacheInv, UnwrittenOK
    <3>3. QED
      BY <2>2, <3>1, <3>2
  <2>5. QED
    BY <1>1, <2>3, <2>4 DEF Tell
<1>7. QED
  BY <1>4, <1>5, <1>6

LEMMA HistoryKept ==
  ASSUME IInv, StepOK
  PROVE  HistoryTypeOK' /\ ToldOK' /\ EverOK'
<1> USE DEF IInv, StepOK
<1>0. HistoryTypeOK /\ CacheTypeOK
  BY TypeParts
<1>1. CASE UNCHANGED <<items, told, ever>>
  BY <1>0, <1>1 DEF HistoryTypeOK, ToldOK, EverOK
<1>2. CASE Pins /\ UNCHANGED ever
  <2>1. HistoryTypeOK' /\ EverOK'
    BY <1>0, <1>2 DEF Pins, HistoryTypeOK, EverOK
  <2>2. PICK r \in Release, a \in Archive :
            told' = told /\ items[r] = NoArchive /\ items' = [items EXCEPT ![r] = a]
    BY <1>2 DEF Pins
  <2>3. \A q \in Release : \A b \in told[q] : items[q] = b /\ b # NoArchive
    BY <1>0, ArchiveAssumption DEF ToldOK, HistoryTypeOK
  <2>4. ToldOK'
    BY <1>0, <2>2, <2>3 DEF ToldOK, CacheTypeOK
  <2>5. QED
    BY <2>1, <2>4
<1>3. CASE Tells
  BY <1>3, TellsTrue
<1>4. CASE Forgets
  BY <1>0, <1>4 DEF Forgets, HistoryTypeOK, ToldOK, EverOK
<1>5. QED
  BY <1>1, <1>2, <1>3, <1>4 DEF Effect

(* A checked-out tree has files in it, whatever they are.                  *)
LEMMA CheckoutType ==
  ASSUME tree \in [Release -> Checkout]
  PROVE  tree \in [Release -> [File -> Content \union {Absent, Odd}]]
<1>1. Checkout \subseteq [File -> Content \union {Absent, Odd}]
  BY DEF Checkout
<1>2. QED
  BY <1>1

LEMMA InitInv == Init => IInv
<1> SUFFICES ASSUME Init PROVE IInv
  OBVIOUS
<1> USE DEF Init, NoRequests
<1>1. CacheInv
  BY IdleInv, CheckoutType, FileAssumption DEF TreeOK
<1>2. RegistryTypeOK
  BY <1>1 DEF CacheInv, RegistryTypeOK, State, Answer
<1>3. KindOK /\ PageIsCurrent /\ ToldOK /\ EverOK
  BY DEF AllIdle, KindOK, PageIsCurrent, ToldOK, EverOK
<1>4. QED
  BY <1>1, <1>2, <1>3 DEF IInv

LEMMA NextInv == IInv /\ [Next]_allVars => IInv'
<1> SUFFICES ASSUME IInv, [Next]_allVars PROVE IInv'
  OBVIOUS
<1>1. CASE Next
  <2>1. StepOK /\ HistoryTypeOK' /\ ToldOK' /\ EverOK'
    BY <1>1, EveryStep, HistoryKept
  <2>2. RegistryTypeOK'
    BY <2>1 DEF StepOK, CacheInv, RegistryTypeOK, TableTypeOK, HistoryTypeOK
  <2>3. QED
    BY <2>1, <2>2 DEF StepOK, IInv
<1>2. CASE UNCHANGED allVars
  <2> USE <1>2 DEF allVars, serveVars, diskVars
  <2>1. CacheInv'
    BY SameCache DEF IInv
  <2>2. RegistryTypeOK'
    BY <2>1 DEF IInv, RegistryTypeOK, CacheInv
  <2>3. KindOK' /\ PageIsCurrent' /\ ToldOK' /\ EverOK'
    BY DEF IInv, KindOK, PageIsCurrent, ToldOK, EverOK, cacheVars, treeVars
  <2>4. QED
    BY <2>1, <2>2, <2>3 DEF IInv
<1>3. QED
  BY <1>1, <1>2

LEMMA Invariant == Spec => []IInv
BY InitInv, NextInv, PTL DEF Spec

LEMMA AtMostOne ==
  ASSUME NEW S, NEW x, S \subseteq {x}
  PROVE  Cardinality(S) <= 1
<1>1. CASE S = {}
  BY <1>1, FS_EmptySet
<1>2. CASE S = {x}
  BY <1>2, FS_Singleton
<1>3. QED
  BY <1>1, <1>2

-----------------------------------------------------------------------------
(* The results.                                                            *)

(* Every state of the registry process is a state of its types, whatever   *)
(* the requests, the tools and a kill do and in whichever order.           *)
THEOREM RegistryTypes == Spec => []RegistryTypeOK
<1>1. IInv => RegistryTypeOK
  BY DEF IInv
<1>2. QED
  BY Invariant, <1>1, PTL

(* No archive in the cache is over the limits on files and on bytes, or    *)
(* without its manifest and its entry, though BuildArchive compares sizes  *)
(* with the limits one file at a time and reads a file after its size.     *)
THEOREM CachedWithinLimits == Spec => []ArchivesBounded
<1>1. IInv => ArchivesBounded
  BY DEF IInv, CacheInv
<1>2. QED
  BY Invariant, <1>1, PTL

(* What a listing collects over many calls of Get is still what is cached  *)
(* when it is sent.                                                        *)
THEOREM ListingsAreCurrent == Spec => []PageIsCurrent
<1>1. IInv => PageIsCurrent
  BY DEF IInv
<1>2. QED
  BY Invariant, <1>1, PTL

(* A process tells one digest of a release, in listings, in metadata and   *)
(* in downloads, under any number of readers and of writes to the tree.    *)
THEOREM OneDigest == Spec => []OneDigestPerProcess
<1>1. IInv => OneDigestPerProcess
  <2>1. SUFFICES ASSUME IInv, NEW r \in Release PROVE Cardinality(told[r]) <= 1
    BY DEF OneDigestPerProcess
  <2>2. told[r] \subseteq {items[r]}
    BY <2>1 DEF IInv, ToldOK
  <2>3. QED
    BY <2>2, AtMostOne
<1>2. QED
  BY Invariant, <1>1, PTL

(* As long as no tool wrote to the tree every process, the one before a    *)
(* kill and the one after it, tells the same digest of a release.          *)
THEOREM DigestsReproducible == Spec => []Reproducible
<1>1. IInv => Reproducible
  <2>1. SUFFICES ASSUME IInv, writes = 0, NEW r \in Release PROVE Cardinality(ever[r]) <= 1
    BY DEF Reproducible
  <2>2. ever[r] \subseteq {tree[r]}
    BY <2>1 DEF IInv, EverOK
  <2>3. QED
    BY <2>2, AtMostOne
<1>2. QED
  BY Invariant, <1>1, PTL

(* A step of the registry is a step of PinnedReleases, or none.            *)
LEMMA StepRefines ==
  ASSUME IInv, StepOK
  PROVE  [Registry!Next]_Registry!vars
<1> USE DEF Registry!vars
<1>0. CacheTypeOK /\ HistoryTypeOK
  BY TypeParts DEF IInv
<1>1. CASE UNCHANGED <<items, told, ever>>
  BY <1>1
<1>2. CASE Pins
  BY <1>2 DEF Pins, Registry!Next, Registry!Pin
<1>3. CASE Tells
  <2>1. PICK R \in SUBSET (Release \X Archive) : Tell(R) /\ \A e \in R : items[e[1]] = e[2]
    BY <1>3 DEF Tells
  <2> DEFINE P == {r \in Release : \E a \in Archive : <<r, a>> \in R}
  <2>2. \A r \in Release, a \in Archive : <<r, a>> \in R => items[r] = a
    <3>1. \A r \in Release, a \in Archive : <<r, a>>[1] = r /\ <<r, a>>[2] = a
      OBVIOUS
    <3>2. QED
      BY <2>1, <3>1
  <2>3. \A r \in P : items[r] # NoArchive
    BY <2>2, ArchiveAssumption
  <2>4. ASSUME NEW r \in Release
        PROVE  {a \in Archive : <<r, a>> \in R} = IF r \in P THEN {items[r]} ELSE {}
    BY <2>2
  <2>5. told' = [r \in Release |-> IF r \in P THEN told[r] \union {items[r]} ELSE told[r]]
    BY <2>1, <2>4 DEF Tell
  <2>6. Registry!Tell(P)
    BY <1>3, <2>3, <2>5 DEF Registry!Tell, Tells
  <2>7. QED
    BY <2>6 DEF Registry!Next
<1>4. CASE Forgets
  BY <1>4 DEF Forgets, Registry!Next, Registry!Restart
<1>5. QED
  BY <1>1, <1>2, <1>3, <1>4 DEF StepOK, Effect

(* The registry implements its contract: a build that succeeds is a Pin, a *)
(* reply is a Tell of what was pinned, a kill is a Restart, and nothing    *)
(* else that the process, its readers or the tools do can be told.         *)
THEOREM RegistryPins == Spec => ImplementsPinnedReleases
<1>1. Init => Registry!Init
  BY DEF Init, EmptyCache, Registry!Init
<1>2. IInv /\ [Next]_allVars => [Registry!Next]_Registry!vars
  <2> SUFFICES ASSUME IInv, [Next]_allVars PROVE [Registry!Next]_Registry!vars
    OBVIOUS
  <2>1. CASE Next
    BY <2>1, EveryStep, StepRefines
  <2>2. CASE UNCHANGED allVars
    BY <2>2 DEF allVars, cacheVars, Registry!vars
  <2>3. QED
    BY <2>1, <2>2
<1>3. QED
  BY Invariant, <1>1, <1>2, PTL DEF Spec, ImplementsPinnedReleases, Registry!Spec
=============================================================================
