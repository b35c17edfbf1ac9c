------------------------------ MODULE Catalog ------------------------------
(***************************************************************************)
(* Opening the catalog (internal/registry/catalog.go): the packages of     *)
(* registry/index.json are validated one version after the other, and the  *)
(* versions of each are sorted, newest first, with a stable insertion sort *)
(* (sort.SliceStable on at most 20 elements) under semverCompare.          *)
(*                                                                         *)
(* A version is its three numbers, the identifiers of its pre-release and  *)
(* its build, of which nothing is compared; ok says that its text and path *)
(* are as they have to be.  An identifier is its value, or NaN when it is  *)
(* not digits only, and its place among the texts of the index.            *)
(***************************************************************************)
EXTENDS Integers, Sequences, SequencesExt

CONSTANTS
    Indexes,    \* the indexes that may be on disk
    MaxUint     \* the largest number that ParseUint parses

NaN == -1

Identifier == [num : Nat \union {NaN}, text : Nat]
Version == [core : [1..3 -> Nat], pre : Seq(Identifier), build : STRING, ok : BOOLEAN]
Package == [id : Int, versions : Seq(Version), ok : BOOLEAN]

ASSUME IndexAssumption == Indexes \subseteq Seq(Package) /\ MaxUint \in Nat

VARIABLES
    given,      \* the index as it is on disk
    packages,   \* the index in memory
    p,          \* the package that Open is at
    k,          \* its version that is validated next, 0 before the first
    i, j,       \* insertion sort: versions up to i - 1 are sorted, version j moves
    result
loopVars == <<p, k, i, j>>
catalogVars == <<given, packages, loopVars, result>>

CatalogTypeOK ==
    /\ DOMAIN packages = DOMAIN given
    /\ p \in 1..(Len(given) + 1) /\ result \in {"none", "refused", "open"}
    /\ k \in Nat /\ i \in Nat /\ j \in 1..i

-----------------------------------------------------------------------------
Parses(x) == x.num \in 0..MaxUint

(* Mutant: identifiers are compared as text only.                          *)
identifiersAsText(x, y) == IF x.text > y.text THEN 1 ELSE -1

(* Two identifiers of different text.                                      *)
identifiers(x, y) ==
    IF Parses(x) /\ Parses(y) THEN IF x.num > y.num THEN 1 ELSE -1
    ELSE IF Parses(x) THEN -1
    ELSE IF Parses(y) THEN 1
    ELSE IF x.text > y.text THEN 1 ELSE -1

Differing(s, t) == {n \in DOMAIN s \cap DOMAIN t : s[n] # t[n]}

(* Mutant: a pre-release comes ahead of its release.                       *)
StageSwapped(v) == IF v.pre = <<>> THEN 0 ELSE 1

Stage(v) == IF v.pre = <<>> THEN 1 ELSE 0

(* The three numbers have no leading zeros, so that comparing those that   *)
(* do not parse by length and then as text is comparing them as numbers.   *)
semverCompare(a, b) ==
    LET core == Differing(a.core, b.core)  pre == Differing(a.pre, b.pre) IN
    IF core # {} THEN IF a.core[Min(core)] > b.core[Min(core)] THEN 1 ELSE -1
    ELSE IF Stage(a) # Stage(b) THEN Stage(a) - Stage(b)
    ELSE IF pre # {} THEN identifiers(a.pre[Min(pre)], b.pre[Min(pre)])
    ELSE Len(a.pre) - Len(b.pre)            \* only its sign is looked at

-----------------------------------------------------------------------------
Init ==
    /\ given \in Indexes /\ packages = given
    /\ p = 1 /\ k = 0 /\ i = 2 /\ j = 2 /\ result = "none"

At == result = "none" /\ p <= Len(packages)
Versions == packages[p].versions

(* Mutant: no look for a package of the same identity.                     *)
GoodPackageAgain == packages[p].ok

(* An identity of the right form that no package before this one has.      *)
GoodPackage == packages[p].ok /\ \A q \in 1..(p - 1) : packages[q].id # packages[p].id

(* A version of the right form and path that none before it has.           *)
GoodVersion == Versions[k].ok /\ \A m \in 1..(k - 1) : Versions[m] # Versions[k]

Validates ==
    /\ At /\ k <= Len(Versions)
    /\ IF k = 0 THEN GoodPackage ELSE GoodVersion
    /\ k' = k + 1
    /\ UNCHANGED <<given, packages, p, i, j, result>>

Refuses ==
    /\ At /\ k <= Len(Versions)
    /\ ~(IF k = 0 THEN GoodPackage ELSE GoodVersion)
    /\ result' = "refused"
    /\ UNCHANGED <<given, packages, loopVars>>

Sorting == At /\ k > Len(Versions) /\ i <= Len(Versions)

Before(a, b) == semverCompare(a, b) > 0

Moves == j > 1 /\ Before(Versions[j], Versions[j - 1])

Swaps ==
    /\ Sorting /\ Moves
    /\ packages' = [packages EXCEPT ![p].versions =
                        [Versions EXCEPT ![j] = Versions[j - 1], ![j - 1] = Versions[j]]]
    /\ j' = j - 1
    /\ UNCHANGED <<given, p, k, i, result>>

Settles ==
    /\ Sorting /\ ~Moves
    /\ i' = i + 1 /\ j' = i + 1
    /\ UNCHANGED <<given, packages, p, k, result>>

NextPackage ==
    /\ At /\ k > Len(Versions) /\ i > Len(Versions)
    /\ p' = p + 1 /\ k' = 0 /\ i' = 2 /\ j' = 2
    /\ UNCHANGED <<given, packages, result>>

(* Mutant: a package without versions is left out.                         *)
OpensNonempty ==
    /\ result = "none" /\ p > Len(packages) /\ result' = "open"
    /\ packages' = SetToSortSeq({q \in ToSet(packages) : q.versions # <<>>}, LAMBDA a, b : a.id < b.id)
    /\ UNCHANGED <<given, loopVars>>

(* All packages are in: sort.Slice rearranges them by name.                *)
Opens ==
    /\ result = "none" /\ p > Len(packages) /\ result' = "open"
    /\ \E from \in Bijection(DOMAIN packages, DOMAIN packages) :
        /\ packages' = [n \in DOMAIN packages |-> packages[from[n]]]
        /\ \A m, n \in DOMAIN packages : m < n => packages'[m].id <= packages'[n].id
    /\ UNCHANGED <<given, loopVars>>

Next == Validates \/ Refuses \/ Swaps \/ Settles \/ NextPackage \/ Opens
Spec == Init /\ [][Next]_catalogVars

-----------------------------------------------------------------------------
(* The precedence of Semantic Versioning, without a loop.                  *)
Older(x, y) == \/ x.num # NaN /\ y.num # NaN /\ x.num < y.num
               \/ x.num # NaN /\ y.num = NaN
               \/ x.num = NaN /\ y.num = NaN /\ x.text < y.text
FirstOlder(s, t, Less(_, _)) ==
    \/ \E n \in DOMAIN s \cap DOMAIN t : Less(s[n], t[n]) /\ \A m \in 1..(n - 1) : s[m] = t[m]
    \/ Len(s) < Len(t) /\ \A m \in DOMAIN s : s[m] = t[m]
Precedes(a, b) ==
    \/ FirstOlder(a.core, b.core, LAMBDA x, y : x < y)
    \/ a.core = b.core /\ a.pre # <<>> /\ b.pre = <<>>
    \/ a.core = b.core /\ a.pre # <<>> /\ b.pre # <<>> /\ FirstOlder(a.pre, b.pre, Older)

Place(v, s) == CHOOSE n \in DOMAIN s : s[n] = v
Original(q) == CHOOSE g \in ToSet(given) : g.id = q.id

(* An open catalog has every package of the index once, in order, with the *)
(* releases it has there and no other.                                     *)
SameReleases ==
    result = "open" =>
        /\ \A m, n \in DOMAIN packages : m < n => packages[m].id < packages[n].id
        /\ Len(packages) = Len(given)
        /\ \A q \in ToSet(packages) : /\ Len(q.versions) = Len(Original(q).versions)
                                      /\ ToSet(q.versions) = ToSet(Original(q).versions)

(* What Semantic Versioning orders: numbers that are parsed, and are       *)
(* written in one way.                                                     *)
Idents(q) == UNION {ToSet(v.pre) : v \in ToSet(q.versions)}
Ordered(q) == \A x, y \in Idents(q) : x.num <= MaxUint /\ (x.num = y.num /\ x.num # NaN => x = y)

(* Then the versions of a package are in that order, newest first, and     *)
(* those that differ in their build only in the order of the index.        *)
NewestFirst ==
    result = "open" => \A q \in ToSet(packages) : Ordered(q) => \A m, n \in DOMAIN q.versions : m < n =>
        LET a == q.versions[m]  b == q.versions[n]  s == Original(q).versions IN
        Precedes(b, a) \/ (~Precedes(a, b) /\ Place(a, s) < Place(b, s))

(* Whatever the pattern of versions admits, numbers over 64 bits and with  *)
(* leading zeros in a pre-release too, on which semverCompare is no order: *)
(* nothing of one triple of numbers comes between two of another, and a    *)
(* release comes ahead of its pre-releases.                                *)
ReleasesFirst ==
    result = "open" => \A q \in ToSet(packages) : \A m, n \in DOMAIN q.versions : m < n =>
        LET a == q.versions[m]  b == q.versions[n] IN
        /\ ~FirstOlder(a.core, b.core, LAMBDA x, y : x < y)
        /\ a.core = b.core /\ b.pre = <<>> => a.pre = <<>>
=============================================================================
