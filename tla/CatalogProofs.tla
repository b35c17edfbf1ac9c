--------------------------- MODULE CatalogProofs ---------------------------
(***************************************************************************)
(* An open catalog has every release of the index, each package's in the   *)
(* order that is promised, for every set of indexes, every number of       *)
(* packages, versions and identifiers, and every limit on what is parsed.  *)
(* First what semverCompare decides, then that the insertion sort puts the *)
(* versions in an order with which its decisions agree, then the loop of   *)
(* Open.                                                                   *)
(***************************************************************************)
EXTENDS Catalog, WellFoundedInduction, TLAPS

(* What FirstOlder is for an order given as a set of pairs.                *)
Lex(L, s, t) ==
    \/ \E n \in DOMAIN s \cap DOMAIN t : <<s[n], t[n]>> \in L /\ \A m \in 1..(n - 1) : s[m] = t[m]
    \/ Len(s) < Len(t) /\ \A m \in DOMAIN s : s[m] = t[m]

StrictOrder(L, U) ==
    /\ \A x \in U : <<x, x>> \notin L
    /\ \A x, y, z \in U : <<x, y>> \in L /\ <<y, z>> \in L => <<x, z>> \in L
    /\ \A x, y \in U : x = y \/ <<x, y>> \in L \/ <<y, x>> \in L

Lower(s, t) == FirstOlder(s, t, LAMBDA x, y : x < y)
OlderText(s, t) == FirstOlder(s, t, Older)

(* A set of numbers has a least one: what induction comes to without an    *)
(* operator as a parameter.                                                *)
LEMMA LeastOf ==
  ASSUME NEW S \in SUBSET Nat, S # {}
  PROVE  \E n \in S : \A m \in S : n <= m
<1> DEFINE R == {ss \in Nat \X Nat : ss[1] < ss[2]}
<1>1. IsWellFoundedOn(R, Nat)
  <2>1. R = OpToRel(<, Nat)
    BY DEF OpToRel
  <2>2. QED
    BY <2>1, NatLessThanWellFounded, Zenon
<1>2. ASSUME NEW m \in Nat, NEW n \in Nat, m < n
      PROVE  <<m, n>> \in R
  <2>1. <<m, n>>[1] < <<m, n>>[2]
    BY <1>2
  <2>2. QED
    BY <1>2, <2>1
<1> HIDE DEF R
<1>3. PICK n \in S : \A m \in S : ~(<<m, n>> \in R)
  BY <1>1, WFMin
<1>4. \A m \in S : ~(m < n)
  BY <1>2, <1>3
<1>5. \A m \in S : n <= m
  BY <1>4
<1>6. QED
  BY <1>5

LEMMA LeastIs ==
  ASSUME NEW S \in SUBSET Nat, S # {}
  PROVE  Min(S) \in S /\ \A m \in S : Min(S) <= m
BY LeastOf DEF Min

(* The first place at which two sequences differ.                          *)
LEMMA FirstDifference ==
  ASSUME NEW U, NEW s \in Seq(U), NEW t \in Seq(U), Differing(s, t) # {},
         NEW n, n = Min(Differing(s, t))
  PROVE  /\ n \in 1..Len(s) /\ n \in 1..Len(t) /\ s[n] # t[n]
         /\ \A m \in 1..(n - 1) : s[m] = t[m]
<1>1. n \in Differing(s, t) /\ \A y \in Differing(s, t) : n <= y
  <2>1. Differing(s, t) \in SUBSET Nat
    BY DEF Differing
  <2>. QED
    BY <2>1, LeastIs
<1>2. n \in 1..Len(s) /\ n \in 1..Len(t) /\ s[n] # t[n]
  BY <1>1 DEF Differing
<1>3. ASSUME NEW m \in 1..(n - 1), s[m] # t[m]
      PROVE  FALSE
  <2>1. m \in DOMAIN s \cap DOMAIN t /\ ~(n <= m)
    BY <1>2
  <2>. QED
    BY <1>1, <1>3, <2>1 DEF Differing
<1>. QED
  BY <1>2, <1>3

LEMMA NoDifference ==
  ASSUME NEW U, NEW s \in Seq(U), NEW t \in Seq(U), Differing(s, t) = {}
  PROVE  /\ \A m \in 1..Len(s) : m <= Len(t) => s[m] = t[m]
         /\ Len(s) = Len(t) => s = t
BY DEF Differing

LEMMA LexIrreflexive ==
  ASSUME NEW U, NEW L, StrictOrder(L, U), NEW s \in Seq(U)
  PROVE  ~Lex(L, s, s)
<1>1. \A n \in DOMAIN s : <<s[n], s[n]>> \notin L
  BY DEF StrictOrder
<1>2. ~(Len(s) < Len(s))
  OBVIOUS
<1>. QED
  BY <1>1, <1>2, Zenon DEF Lex

LEMMA LexTotal ==
  ASSUME NEW U, NEW L, StrictOrder(L, U), NEW s \in Seq(U), NEW t \in Seq(U)
  PROVE  s = t \/ Lex(L, s, t) \/ Lex(L, t, s)
<1>1. CASE Differing(s, t) = {}
  <2>1. /\ \A m \in DOMAIN s : m <= Len(t) => s[m] = t[m]
        /\ Len(s) = Len(t) => s = t
    BY <1>1, NoDifference
  <2>2. CASE Len(s) < Len(t)
    BY <2>1, <2>2 DEF Lex
  <2>3. CASE Len(t) < Len(s)
    BY <2>1, <2>3 DEF Lex
  <2>. QED
    BY <2>1, <2>2, <2>3
<1>2. CASE Differing(s, t) # {}
  <2>0. PICK n : n = Min(Differing(s, t))
  OBVIOUS
  <2>1. /\ n \in 1..Len(s) /\ n \in 1..Len(t) /\ s[n] # t[n]
        /\ \A m \in 1..(n - 1) : s[m] = t[m]
    BY <1>2, <2>0, FirstDifference
  <2>2. <<s[n], t[n]>> \in L \/ <<t[n], s[n]>> \in L
    BY <2>1 DEF StrictOrder
  <2>3. n \in DOMAIN s \cap DOMAIN t
    BY <2>1
  <2>. QED
    BY <2>1, <2>2, <2>3 DEF Lex
<1>. QED
  BY <1>1, <1>2

LEMMA LexTransitive ==
  ASSUME NEW U, NEW L, StrictOrder(L, U),
         NEW r \in Seq(U), NEW s \in Seq(U), NEW t \in Seq(U), Lex(L, r, s), Lex(L, s, t)
  PROVE  Lex(L, r, t)
<1>1. CASE \E n \in DOMAIN r \cap DOMAIN s : <<r[n], s[n]>> \in L /\ \A m \in 1..(n - 1) : r[m] = s[m]
  <2>1. PICK n \in DOMAIN r \cap DOMAIN s : <<r[n], s[n]>> \in L /\ \A m \in 1..(n - 1) : r[m] = s[m]
    BY <1>1
  <2>2. CASE \E o \in DOMAIN s \cap DOMAIN t : <<s[o], t[o]>> \in L /\ \A m \in 1..(o - 1) : s[m] = t[m]
    <3>1. PICK o \in DOMAIN s \cap DOMAIN t : <<s[o], t[o]>> \in L /\ \A m \in 1..(o - 1) : s[m] = t[m]
      BY <2>2
    <3>2. CASE n < o
      <4>1. n \in DOMAIN r \cap DOMAIN t /\ s[n] = t[n] /\ \A m \in 1..(n - 1) : r[m] = t[m]
        BY <2>1, <3>1, <3>2
      <4>. QED
        BY <4>1, <2>1 DEF Lex
    <3>3. CASE o < n
      <4>1. o \in DOMAIN r \cap DOMAIN t /\ r[o] = s[o] /\ \A m \in 1..(o - 1) : r[m] = t[m]
        BY <2>1, <3>1, <3>3
      <4>. QED
        BY <4>1, <3>1 DEF Lex
    <3>4. CASE o = n
      <4>1. n \in DOMAIN r \cap DOMAIN t /\ \A m \in 1..(n - 1) : r[m] = t[m]
        BY <2>1, <3>1, <3>4
      <4>2. <<r[n], t[n]>> \in L
        BY <2>1, <3>1, <3>4 DEF StrictOrder
      <4>. QED
        BY <4>1, <4>2 DEF Lex
    <3>. QED
      BY <3>2, <3>3, <3>4
  <2>3. CASE Len(s) < Len(t) /\ \A m \in DOMAIN s : s[m] = t[m]
    <3>1. n \in DOMAIN r \cap DOMAIN t /\ s[n] = t[n] /\ \A m \in 1..(n - 1) : r[m] = t[m]
      BY <2>1, <2>3
    <3>. QED
      BY <3>1, <2>1 DEF Lex
  <2>. QED
    BY <2>2, <2>3 DEF Lex
<1>2. CASE Len(r) < Len(s) /\ \A m \in DOMAIN r : r[m] = s[m]
  <2>1. CASE \E o \in DOMAIN s \cap DOMAIN t : <<s[o], t[o]>> \in L /\ \A m \in 1..(o - 1) : s[m] = t[m]
    <3>1. PICK o \in DOMAIN s \cap DOMAIN t : <<s[o], t[o]>> \in L /\ \A m \in 1..(o - 1) : s[m] = t[m]
      BY <2>1
    <3>2. CASE o <= Len(r)
      <4>1. o \in DOMAIN r \cap DOMAIN t /\ r[o] = s[o] /\ \A m \in 1..(o - 1) : r[m] = t[m]
        BY <1>2, <3>1, <3>2
      <4>. QED
        BY <4>1, <3>1 DEF Lex
    <3>3. CASE Len(r) < o
      <4>1. Len(r) < Len(t) /\ \A m \in DOMAIN r : r[m] = t[m]
        BY <1>2, <3>1, <3>3
      <4>. QED
        BY <4>1 DEF Lex
    <3>. QED
      BY <3>2, <3>3, <3>1
  <2>2. CASE Len(s) < Len(t) /\ \A m \in DOMAIN s : s[m] = t[m]
    <3>1. Len(r) < Len(t) /\ \A m \in DOMAIN r : r[m] = t[m]
      BY <1>2, <2>2
    <3>. QED
      BY <3>1 DEF Lex
  <2>. QED
    BY <2>1, <2>2 DEF Lex
<1>. QED
  BY <1>1, <1>2 DEF Lex

-----------------------------------------------------------------------------
(* The orders that versions are made of.                                   *)

LowerPairs == {e \in Nat \X Nat : e[1] < e[2]}
OlderPairs(I) == {e \in I \X I : Older(e[1], e[2])}

(* Identifiers that Semantic Versioning orders.                            *)
OrderedSet(I) ==
    \A x, y \in I : x.num <= MaxUint /\ (x.num = y.num /\ x.num # NaN => x = y)

LEMMA LowerIsLex ==
  ASSUME NEW s \in Seq(Nat), NEW t \in Seq(Nat)
  PROVE  Lower(s, t) <=> Lex(LowerPairs, s, t)
<1>1. \A n \in DOMAIN s \cap DOMAIN t : s[n] < t[n] <=> <<s[n], t[n]>> \in LowerPairs
  <2>1. ASSUME NEW x \in Nat, NEW y \in Nat
        PROVE  x < y <=> <<x, y>> \in LowerPairs
    BY DEF LowerPairs
  <2>2. \A n \in DOMAIN s \cap DOMAIN t : s[n] \in Nat /\ t[n] \in Nat
    OBVIOUS
  <2>. QED
    BY <2>1, <2>2, Zenon
<1>. QED
  BY <1>1 DEF Lower, FirstOlder, Lex

LEMMA LowerOrder == StrictOrder(LowerPairs, Nat)
<1>1. \A x, y \in Nat : x < y <=> <<x, y>> \in LowerPairs
  BY DEF LowerPairs
<1>. QED
  BY <1>1 DEF StrictOrder

LEMMA OlderIsLex ==
  ASSUME NEW I \in SUBSET Identifier, NEW s \in Seq(I), NEW t \in Seq(I)
  PROVE  OlderText(s, t) <=> Lex(OlderPairs(I), s, t)
<1>1. \A n \in DOMAIN s \cap DOMAIN t : Older(s[n], t[n]) <=> <<s[n], t[n]>> \in OlderPairs(I)
  <2>1. ASSUME NEW x \in I, NEW y \in I
        PROVE  Older(x, y) <=> <<x, y>> \in OlderPairs(I)
    BY DEF OlderPairs
  <2>. QED
    BY <2>1
<1>. QED
  BY <1>1 DEF OlderText, FirstOlder, Lex

LEMMA OlderOrder ==
  ASSUME NEW I \in SUBSET Identifier, OrderedSet(I)
  PROVE  StrictOrder(OlderPairs(I), I)
<1>1. \A x, y \in I : Older(x, y) <=> <<x, y>> \in OlderPairs(I)
  BY DEF OlderPairs
<1>2. \A x \in I : ~Older(x, x)
  BY DEF Older, Identifier, NaN
<1>3. \A x, y, z \in I : Older(x, y) /\ Older(y, z) => Older(x, z)
  BY DEF Older, Identifier, NaN
<1>4. ASSUME NEW x \in I, NEW y \in I
      PROVE  x = y \/ Older(x, y) \/ Older(y, x)
  <2>1. x.num = y.num /\ x.text = y.text => x = y
    BY DEF Identifier
  <2>. QED
    BY <2>1 DEF Older, Identifier, NaN, OrderedSet
<1>. QED
  BY <1>1, <1>2, <1>3, <1>4 DEF StrictOrder

-----------------------------------------------------------------------------
(* The precedence of two versions.                                         *)

Same(a, b) == a.core = b.core /\ a.pre = b.pre

(* Versions whose identifiers are in a set that is ordered.                *)
Over(I) == {v \in Version : v.pre \in Seq(I)}

LEMMA CoreIsSequence ==
  ASSUME NEW v \in Version
  PROVE  v.core \in Seq(Nat) /\ Len(v.core) = 3
<1>1. v.core \in [1..3 -> Nat]
  BY DEF Version
<1>2. v.core = [m \in 1..3 |-> v.core[m]] /\ \A m \in 1..3 : v.core[m] \in Nat
  BY <1>1
<1>3. [m \in 1..3 |-> v.core[m]] \in Seq(Nat) /\ Len([m \in 1..3 |-> v.core[m]]) = 3
  BY <1>2
<1>. QED
  BY <1>2, <1>3

(* Less on the triples of numbers is a strict order.                       *)
LEMMA LowerFacts ==
  ASSUME NEW a \in Version, NEW b \in Version, NEW c \in Version
  PROVE  /\ ~Lower(a.core, a.core)
         /\ Lower(a.core, b.core) /\ Lower(b.core, c.core) => Lower(a.core, c.core)
         /\ a.core = b.core \/ Lower(a.core, b.core) \/ Lower(b.core, a.core)
<1>1. a.core \in Seq(Nat) /\ b.core \in Seq(Nat) /\ c.core \in Seq(Nat)
  BY CoreIsSequence
<1>2. ~Lower(a.core, a.core)
  BY <1>1, LowerOrder, LowerIsLex, LexIrreflexive
<1>3. Lower(a.core, b.core) /\ Lower(b.core, c.core) => Lower(a.core, c.core)
  BY <1>1, LowerOrder, LowerIsLex, LexTransitive
<1>4. a.core = b.core \/ Lower(a.core, b.core) \/ Lower(b.core, a.core)
  BY <1>1, LowerOrder, LowerIsLex, LexTotal
<1>. QED
  BY <1>2, <1>3, <1>4

LEMMA OlderFacts ==
  ASSUME NEW I \in SUBSET Identifier, OrderedSet(I),
         NEW r \in Seq(I), NEW s \in Seq(I), NEW t \in Seq(I)
  PROVE  /\ ~OlderText(r, r)
         /\ OlderText(r, s) /\ OlderText(s, t) => OlderText(r, t)
         /\ r = s \/ OlderText(r, s) \/ OlderText(s, r)
<1>1. ~OlderText(r, r)
  BY OlderOrder, OlderIsLex, LexIrreflexive
<1>2. OlderText(r, s) /\ OlderText(s, t) => OlderText(r, t)
  BY OlderOrder, OlderIsLex, LexTransitive
<1>3. r = s \/ OlderText(r, s) \/ OlderText(s, r)
  BY OlderOrder, OlderIsLex, LexTotal
<1>. QED
  BY <1>1, <1>2, <1>3

LEMMA PrecedesIs ==
  ASSUME NEW a, NEW b
  PROVE  Precedes(a, b) <=>
           \/ Lower(a.core, b.core)
           \/ a.core = b.core /\ a.pre # <<>> /\ b.pre = <<>>
           \/ a.core = b.core /\ a.pre # <<>> /\ b.pre # <<>> /\ OlderText(a.pre, b.pre)
BY DEF Precedes, Lower, OlderText

(* Versions without an order between them have the same numbers and        *)
(* identifiers, and the others are in a strict order.                      *)
LEMMA PrecedesOrder ==
  ASSUME NEW I \in SUBSET Identifier, OrderedSet(I),
         NEW a \in Over(I), NEW b \in Over(I), NEW c \in Over(I)
  PROVE  /\ ~Precedes(a, a)
         /\ Precedes(a, b) /\ Precedes(b, c) => Precedes(a, c)
         /\ Same(a, b) \/ Precedes(a, b) \/ Precedes(b, a)
         /\ Same(a, b) => ~Precedes(a, b)
         /\ Same(a, b) => (Precedes(a, c) <=> Precedes(b, c))
         /\ Same(a, b) => (Precedes(c, a) <=> Precedes(c, b))
<1>1. /\ a \in Version /\ b \in Version /\ c \in Version
      /\ a.pre \in Seq(I) /\ b.pre \in Seq(I) /\ c.pre \in Seq(I)
  BY DEF Over
<1>2. /\ ~Lower(a.core, a.core)
      /\ Lower(a.core, b.core) /\ Lower(b.core, c.core) => Lower(a.core, c.core)
      /\ a.core = b.core \/ Lower(a.core, b.core) \/ Lower(b.core, a.core)
  BY <1>1, LowerFacts
<1>3. /\ ~OlderText(a.pre, a.pre)
      /\ OlderText(a.pre, b.pre) /\ OlderText(b.pre, c.pre) => OlderText(a.pre, c.pre)
      /\ a.pre = b.pre \/ OlderText(a.pre, b.pre) \/ OlderText(b.pre, a.pre)
  BY <1>1, OlderFacts
<1>4. Precedes(a, b) /\ Precedes(b, c) => Precedes(a, c)
  BY <1>2, <1>3, PrecedesIs
<1>5. Same(a, b) \/ Precedes(a, b) \/ Precedes(b, a)
  BY <1>2, <1>3, PrecedesIs DEF Same
<1>6. ~Precedes(a, a)
  BY <1>2, <1>3, PrecedesIs
<1>7. Same(a, b) => (Precedes(a, c) <=> Precedes(b, c)) /\ (Precedes(c, a) <=> Precedes(c, b))
  BY PrecedesIs DEF Same
<1>8. Same(a, b) => ~Precedes(a, b)
  BY <1>2, <1>3, PrecedesIs DEF Same
<1>. QED
  BY <1>4, <1>5, <1>6, <1>7, <1>8

-----------------------------------------------------------------------------
(* What semverCompare decides.                                             *)

LEMMA LowerAt ==
  ASSUME NEW s \in Seq(Nat), NEW t \in Seq(Nat), Differing(s, t) # {},
         NEW n, n = Min(Differing(s, t))
  PROVE  /\ s[n] \in Nat /\ t[n] \in Nat /\ s[n] # t[n]
         /\ s[n] < t[n] => Lower(s, t)
         /\ t[n] < s[n] => Lower(t, s)
<1>1. /\ n \in 1..Len(s) /\ n \in 1..Len(t) /\ s[n] # t[n]
      /\ \A m \in 1..(n - 1) : s[m] = t[m]
  BY FirstDifference
<1>2. s[n] \in Nat /\ t[n] \in Nat /\ n \in DOMAIN s \cap DOMAIN t
  BY <1>1
<1>. QED
  BY <1>1, <1>2 DEF Lower, FirstOlder

LEMMA ComparesCores ==
  ASSUME NEW a \in Version, NEW b \in Version, Differing(a.core, b.core) # {}
  PROVE  /\ a.core # b.core
         /\ Before(a, b) <=> Lower(b.core, a.core)
         /\ ~Before(a, b) <=> Lower(a.core, b.core)
<1>0. PICK n : n = Min(Differing(a.core, b.core))
  OBVIOUS
<1>1. a.core \in Seq(Nat) /\ b.core \in Seq(Nat)
  BY CoreIsSequence
<1>2. /\ a.core[n] \in Nat /\ b.core[n] \in Nat /\ a.core[n] # b.core[n]
      /\ a.core[n] < b.core[n] => Lower(a.core, b.core)
      /\ b.core[n] < a.core[n] => Lower(b.core, a.core)
  BY <1>0, <1>1, LowerAt
<1>3. Before(a, b) <=> a.core[n] > b.core[n]
  BY <1>0 DEF Before, semverCompare
<1>4. ~(Lower(a.core, b.core) /\ Lower(b.core, a.core))
  BY LowerFacts
<1>. QED
  BY <1>2, <1>3, <1>4

LEMMA ComparesStages ==
  ASSUME NEW a \in Version, NEW b \in Version, Differing(a.core, b.core) = {}
  PROVE  /\ a.core = b.core
         /\ Stage(a) # Stage(b) => (Before(a, b) <=> a.pre = <<>> /\ b.pre # <<>>)
<1>1. a.core = b.core
  BY CoreIsSequence, NoDifference
<1>2. ASSUME Stage(a) # Stage(b)
      PROVE  Before(a, b) <=> a.pre = <<>> /\ b.pre # <<>>
  <2>1. Before(a, b) <=> Stage(a) - Stage(b) > 0
    BY <1>2 DEF Before, semverCompare
  <2>. QED
    BY <1>2, <2>1 DEF Stage
<1>. QED
  BY <1>1, <1>2

(* Whatever the identifiers, the triples and the stages are in order.      *)
Ahead(a, b) == ~Lower(a.core, b.core) /\ (a.core = b.core /\ b.pre = <<>> => a.pre = <<>>)

LEMMA ComparesAhead ==
  ASSUME NEW a \in Version, NEW b \in Version
  PROVE  /\ Before(a, b) => Ahead(a, b)
         /\ ~Before(a, b) => Ahead(b, a)
<1>1. CASE Differing(a.core, b.core) # {}
  <2>1. ~(Lower(a.core, b.core) /\ Lower(b.core, a.core))
    BY LowerFacts
  <2>2. a.core # b.core /\ (Before(a, b) <=> Lower(b.core, a.core)) /\ (~Before(a, b) <=> Lower(a.core, b.core))
    BY <1>1, ComparesCores
  <2>. QED
    BY <2>1, <2>2 DEF Ahead
<1>2. CASE Differing(a.core, b.core) = {}
  <2>1. a.core = b.core /\ ~Lower(a.core, b.core) /\ ~Lower(b.core, a.core)
    BY <1>2, ComparesStages, LowerFacts
  <2>2. CASE Stage(a) = Stage(b)
    BY <2>1, <2>2 DEF Stage, Ahead
  <2>3. CASE Stage(a) # Stage(b)
    BY <1>2, <2>1, <2>3, ComparesStages DEF Stage, Ahead
  <2>. QED
    BY <2>2, <2>3
<1>. QED
  BY <1>1, <1>2

LEMMA AheadTransitive ==
  ASSUME NEW a \in Version, NEW b \in Version, NEW c \in Version, Ahead(a, b), Ahead(b, c)
  PROVE  Ahead(a, c)
<1>1. ~Lower(a.core, b.core) /\ ~Lower(b.core, c.core)
  BY DEF Ahead
<1>2. a.core = b.core \/ Lower(b.core, a.core)
  BY <1>1, LowerFacts
<1>3. b.core = c.core \/ Lower(c.core, b.core)
  BY <1>1, LowerFacts
<1>4. a.core = c.core /\ Lower(b.core, a.core) => ~Lower(c.core, b.core)
  BY LowerFacts
<1>5. ~Lower(a.core, c.core)
  BY <1>1, <1>2, <1>3, LowerFacts
<1>6. ASSUME a.core = c.core, c.pre = <<>>
      PROVE  a.pre = <<>>
  <2>1. a.core = b.core /\ b.core = c.core
    BY <1>2, <1>3, <1>4, <1>6, LowerFacts
  <2>. QED
    BY <1>6, <2>1 DEF Ahead
<1>. QED
  BY <1>5, <1>6 DEF Ahead

(* On identifiers that are ordered, it is the precedence of Semantic       *)
(* Versioning.                                                             *)
LEMMA ComparesIdentifiers ==
  ASSUME NEW I \in SUBSET Identifier, OrderedSet(I), NEW x \in I, NEW y \in I, x # y
  PROVE  identifiers(x, y) > 0 <=> Older(y, x)
<1>1. (Parses(x) <=> x.num # NaN) /\ (Parses(y) <=> y.num # NaN)
  BY IndexAssumption DEF Parses, OrderedSet, Identifier, NaN
<1>2. x.num = y.num /\ x.text = y.text => x = y
  BY DEF Identifier
<1>3. x.num # NaN /\ y.num # NaN => x.num # y.num
  BY DEF OrderedSet
<1>. QED
  BY <1>1, <1>2, <1>3 DEF identifiers, Older, Identifier, NaN

LEMMA BeforeIsPrecedes ==
  ASSUME NEW I \in SUBSET Identifier, OrderedSet(I), NEW a \in Over(I), NEW b \in Over(I)
  PROVE  Before(a, b) <=> Precedes(b, a)
<1>1. a \in Version /\ b \in Version /\ a.pre \in Seq(I) /\ b.pre \in Seq(I)
  BY DEF Over
<1>2. CASE Differing(a.core, b.core) # {}
  BY <1>1, <1>2, ComparesCores, PrecedesIs
<1>3. ASSUME Differing(a.core, b.core) = {}
      PROVE  a.core = b.core /\ ~Lower(b.core, a.core)
  BY <1>1, <1>3, ComparesStages, LowerFacts
<1>4. CASE Differing(a.core, b.core) = {} /\ Stage(a) # Stage(b)
  BY <1>1, <1>3, <1>4, ComparesStages, PrecedesIs DEF Stage
<1>5. CASE Differing(a.core, b.core) = {} /\ Stage(a) = Stage(b) /\ Differing(a.pre, b.pre) # {}
  <2>0. PICK n : n = Min(Differing(a.pre, b.pre))
  OBVIOUS
  <2>1. /\ n \in 1..Len(a.pre) /\ n \in 1..Len(b.pre) /\ a.pre[n] # b.pre[n]
        /\ \A m \in 1..(n - 1) : a.pre[m] = b.pre[m]
    BY <1>1, <1>5, <2>0, FirstDifference
  <2>2. Before(a, b) <=> identifiers(a.pre[n], b.pre[n]) > 0
    BY <1>5, <2>0 DEF Before, semverCompare
  <2>3. a.pre[n] \in I /\ b.pre[n] \in I /\ n \in DOMAIN a.pre \cap DOMAIN b.pre
    BY <1>1, <2>1
  <2>4. /\ identifiers(a.pre[n], b.pre[n]) > 0 <=> Older(b.pre[n], a.pre[n])
        /\ Older(a.pre[n], b.pre[n]) \/ Older(b.pre[n], a.pre[n])
    <3>1. identifiers(a.pre[n], b.pre[n]) > 0 <=> Older(b.pre[n], a.pre[n])
      BY <2>1, <2>3, ComparesIdentifiers
    <3>2. <<a.pre[n], b.pre[n]>> \in OlderPairs(I) \/ <<b.pre[n], a.pre[n]>> \in OlderPairs(I)
      BY <2>1, <2>3, OlderOrder DEF StrictOrder
    <3>. QED
      BY <3>1, <3>2 DEF OlderPairs
  <2>5. Older(b.pre[n], a.pre[n]) => OlderText(b.pre, a.pre)
    BY <2>1, <2>3 DEF OlderText, FirstOlder
  <2>6. Older(a.pre[n], b.pre[n]) => OlderText(a.pre, b.pre)
    BY <2>1, <2>3 DEF OlderText, FirstOlder
  <2>7. ~(OlderText(a.pre, b.pre) /\ OlderText(b.pre, a.pre))
    BY <1>1, OlderFacts
  <2>8. a.pre # <<>> /\ b.pre # <<>>
    BY <1>1, <2>1
  <2>. QED
    BY <1>3, <1>5, <2>2, <2>4, <2>5, <2>6, <2>7, <2>8, PrecedesIs
<1>6. CASE Differing(a.core, b.core) = {} /\ Stage(a) = Stage(b) /\ Differing(a.pre, b.pre) = {}
  <2>1. Before(a, b) <=> Len(a.pre) > Len(b.pre)
    <3>1. Before(a, b) <=> Len(a.pre) - Len(b.pre) > 0
      BY <1>6 DEF Before, semverCompare
    <3>2. Len(a.pre) \in Nat /\ Len(b.pre) \in Nat
      BY <1>1
    <3>3. \A x, y \in Nat : x - y > 0 <=> x > y
      OBVIOUS
    <3>. QED
      BY <3>1, <3>2, <3>3
  <2>2. /\ \A m \in 1..Len(a.pre) : m <= Len(b.pre) => a.pre[m] = b.pre[m]
        /\ Len(a.pre) = Len(b.pre) => a.pre = b.pre
    BY <1>1, <1>6, NoDifference
  <2>3. Len(a.pre) > Len(b.pre) => OlderText(b.pre, a.pre)
    BY <1>1, <2>2 DEF OlderText, FirstOlder
  <2>4. Len(a.pre) < Len(b.pre) => OlderText(a.pre, b.pre)
    BY <1>1, <2>2 DEF OlderText, FirstOlder
  <2>5. ~(OlderText(a.pre, b.pre) /\ OlderText(b.pre, a.pre)) /\ ~OlderText(a.pre, a.pre)
    BY <1>1, OlderFacts
  <2>6. Len(a.pre) > Len(b.pre) <=> OlderText(b.pre, a.pre)
    <3>1. Len(a.pre) \in Nat /\ Len(b.pre) \in Nat
      BY <1>1
    <3>2. CASE Len(a.pre) = Len(b.pre)
      BY <2>2, <2>5, <3>1, <3>2
    <3>. QED
      BY <2>3, <2>4, <2>5, <3>1, <3>2
  <2>7. a.pre = <<>> <=> b.pre = <<>>
    BY <1>6 DEF Stage
  <2>8. a.pre = <<>> => ~(Len(a.pre) > Len(b.pre))
    BY <1>1, <2>7
  <2>. QED
    BY <1>3, <1>6, <2>1, <2>6, <2>7, <2>8, PrecedesIs
<1>. QED
  BY <1>2, <1>4, <1>5, <1>6

-----------------------------------------------------------------------------
(* The order that the versions of a package come to be in, s being the     *)
(* list of them in the index.                                              *)
IdentsOf(s) == UNION {ToSet(v.pre) : v \in ToSet(s)}
Newer(a, b, s) == Precedes(b, a) \/ (~Precedes(a, b) /\ Place(a, s) < Place(b, s))
Follows(a, b, s) == Ahead(a, b) /\ (OrderedSet(IdentsOf(s)) => Newer(a, b, s))

Distinct(s) == \A m, n \in DOMAIN s : s[m] = s[n] => m = n

LEMMA PlaceIs ==
  ASSUME NEW s, Distinct(s), NEW m \in DOMAIN s
  PROVE  Place(s[m], s) = m
BY DEF Distinct, Place

LEMMA IdentsAre ==
  ASSUME NEW s \in Seq(Version)
  PROVE  /\ IdentsOf(s) \in SUBSET Identifier
         /\ \A m \in DOMAIN s : s[m] \in Over(IdentsOf(s))
<1>1. \A m \in DOMAIN s : s[m] \in Version /\ s[m].pre \in Seq(Identifier)
  <2>1. \A v \in Version : v.pre \in Seq(Identifier)
    BY DEF Version
  <2>2. \A m \in DOMAIN s : s[m] \in Version
    OBVIOUS
  <2>. QED
    BY <2>1, <2>2
<1>2. ASSUME NEW m \in DOMAIN s
      PROVE  s[m].pre \in Seq(IdentsOf(s))
  <2>1. \A n \in DOMAIN s[m].pre : s[m].pre[n] \in ToSet(s[m].pre)
    BY DEF ToSet
  <2>2. s[m] \in ToSet(s)
    BY DEF ToSet
  <2>3. \A n \in DOMAIN s[m].pre : s[m].pre[n] \in IdentsOf(s)
    BY <2>1, <2>2 DEF IdentsOf
  <2>. QED
    BY <1>1, <2>3
<1>3. ASSUME NEW x \in IdentsOf(s)
      PROVE  x \in Identifier
  <2>1. PICK v \in ToSet(s) : x \in ToSet(v.pre)
    BY DEF IdentsOf
  <2>2. PICK m \in DOMAIN s : v = s[m]
    BY DEF ToSet
  <2>3. PICK n \in DOMAIN s[m].pre : x = s[m].pre[n]
    BY <2>1, <2>2 DEF ToSet
  <2>. QED
    BY <1>1, <2>3
<1>. QED
  BY <1>1, <1>2, <1>3 DEF Over

LEMMA ComparesFollows ==
  ASSUME NEW s \in Seq(Version), Distinct(s), NEW m \in DOMAIN s, NEW n \in DOMAIN s
  PROVE  /\ Before(s[m], s[n]) => Follows(s[m], s[n], s)
         /\ ~Before(s[m], s[n]) /\ n < m => Follows(s[n], s[m], s)
<1>1. s[m] \in Version /\ s[n] \in Version
  OBVIOUS
<1>2. /\ Before(s[m], s[n]) => Ahead(s[m], s[n])
      /\ ~Before(s[m], s[n]) => Ahead(s[n], s[m])
  BY <1>1, ComparesAhead
<1>3. ASSUME OrderedSet(IdentsOf(s))
      PROVE  Before(s[m], s[n]) <=> Precedes(s[n], s[m])
  BY <1>3, IdentsAre, BeforeIsPrecedes
<1>4. Place(s[m], s) = m /\ Place(s[n], s) = n
  BY PlaceIs
<1>. QED
  BY <1>2, <1>3, <1>4 DEF Follows, Newer

LEMMA FollowsTransitive ==
  ASSUME NEW s \in Seq(Version), Distinct(s),
         NEW l \in DOMAIN s, NEW m \in DOMAIN s, NEW n \in DOMAIN s,
         Follows(s[l], s[m], s), Follows(s[m], s[n], s)
  PROVE  Follows(s[l], s[n], s)
<1>1. s[l] \in Version /\ s[m] \in Version /\ s[n] \in Version
  OBVIOUS
<1>2. Ahead(s[l], s[n])
  BY <1>1, AheadTransitive DEF Follows
<1>3. ASSUME OrderedSet(IdentsOf(s))
      PROVE  Newer(s[l], s[n], s)
  <2>1. Newer(s[l], s[m], s) /\ Newer(s[m], s[n], s)
    BY <1>3 DEF Follows
  <2>2. Place(s[l], s) = l /\ Place(s[m], s) = m /\ Place(s[n], s) = n
    BY PlaceIs
  <2>3. IdentsOf(s) \in SUBSET Identifier
        /\ s[l] \in Over(IdentsOf(s)) /\ s[m] \in Over(IdentsOf(s)) /\ s[n] \in Over(IdentsOf(s))
    BY IdentsAre
  <2>4. Precedes(s[m], s[l]) \/ Same(s[l], s[m])
    BY <1>3, <2>1, <2>3, PrecedesOrder DEF Newer
  <2>5. Precedes(s[n], s[m]) \/ Same(s[m], s[n])
    BY <1>3, <2>1, <2>3, PrecedesOrder DEF Newer
  <2>6. CASE Precedes(s[m], s[l]) /\ Precedes(s[n], s[m])
    BY <1>3, <2>3, <2>6, PrecedesOrder DEF Newer
  <2>7. CASE Precedes(s[m], s[l]) /\ Same(s[m], s[n])
    BY <1>3, <2>3, <2>7, PrecedesOrder DEF Newer
  <2>8. CASE Same(s[l], s[m]) /\ Precedes(s[n], s[m])
    BY <1>3, <2>3, <2>8, PrecedesOrder DEF Newer
  <2>9. CASE Same(s[l], s[m]) /\ Same(s[m], s[n])
    <3>1. ~Precedes(s[m], s[l]) /\ ~Precedes(s[n], s[m]) /\ ~Precedes(s[l], s[n])
      <4>1. Same(s[m], s[l]) /\ Same(s[n], s[m]) /\ Same(s[l], s[n])
        BY <2>9 DEF Same
      <4>. QED
        BY <1>3, <2>3, <4>1, PrecedesOrder
    <3>2. l < m /\ m < n
      BY <2>1, <2>2, <3>1 DEF Newer
    <3>. QED
      BY <2>2, <3>1, <3>2 DEF Newer
  <2>. QED
    BY <2>4, <2>5, <2>6, <2>7, <2>8, <2>9
<1>. QED
  BY <1>2, <1>3 DEF Follows

-----------------------------------------------------------------------------
(* Insertion sort: v is the list s with its first a - 1 versions in order, *)
(* and version a on its way to its place among them, at b.                 *)
Partial(v, s, a, b) ==
    /\ v \in Seq(Version) /\ Len(v) = Len(s)
    /\ \A n \in 1..Len(s) : \E m \in 1..Len(s) : v[m] = s[n]
    /\ \A n \in 1..Len(s) : n > a => v[n] = s[n]
    /\ a <= Len(s) => v[b] = s[a]
    /\ \A n \in 1..Len(s) : n <= a /\ n # b => \E m \in 1..Len(s) : m < a /\ v[n] = s[m]
    /\ \A m, n \in 1..Len(s) : m < n /\ n <= a /\ m # b /\ n # b => Follows(v[m], v[n], s)
    /\ \A n \in 1..Len(s) : b < n /\ n <= a => Follows(v[b], v[n], s)

Sorted(v, s) ==
    /\ v \in Seq(Version) /\ Len(v) = Len(s) /\ ToSet(v) = ToSet(s)
    /\ \A m, n \in 1..Len(s) : m < n => Follows(v[m], v[n], s)

LEMMA SortStarts ==
  ASSUME NEW s \in Seq(Version)
  PROVE  Partial(s, s, 2, 2)
<1>1. Len(s) \in Nat
  OBVIOUS
<1>2. \A n \in 1..Len(s) : n <= 2 /\ n # 2 => \E m \in 1..Len(s) : m < 2 /\ s[n] = s[m]
  BY <1>1
<1>. QED
  BY <1>1, <1>2 DEF Partial

Exchanged(v, b) == [v EXCEPT ![b] = v[b - 1], ![b - 1] = v[b]]

LEMMA SortSwaps ==
  ASSUME NEW s \in Seq(Version), Distinct(s), NEW v,
         NEW a \in 1..Len(s), NEW b \in 2..a, Partial(v, s, a, b), Before(v[b], v[b - 1])
  PROVE  Partial(Exchanged(v, b), s, a, b - 1)
<1>. DEFINE w == Exchanged(v, b)
<1>1. v \in Seq(Version) /\ Len(v) = Len(s) /\ Len(s) \in Nat /\ b \in Nat /\ a \in Nat
      /\ b \in 1..Len(s) /\ b - 1 \in 1..Len(s) /\ b - 1 < b /\ b <= a
  <2>1. Len(s) \in Nat /\ a \in Nat /\ a <= Len(s)
    OBVIOUS
  <2>2. b \in Nat /\ b <= a /\ 2 <= b
    BY <2>1
  <2>3. b \in 1..Len(s) /\ b - 1 \in 1..Len(s) /\ b - 1 < b
    BY <2>1, <2>2
  <2>. QED
    BY <2>1, <2>2, <2>3 DEF Partial
<1>2. w \in Seq(Version) /\ Len(w) = Len(s)
  BY <1>1 DEF Exchanged
<1>3. /\ w[b] = v[b - 1] /\ w[b - 1] = v[b]
      /\ \A n \in 1..Len(s) : n # b /\ n # b - 1 => w[n] = v[n]
  BY <1>1 DEF Exchanged
<1>. HIDE DEF w
<1>4. \A n \in 1..Len(s) : \E m \in 1..Len(s) : w[m] = s[n]
  <2>1. ASSUME NEW n \in 1..Len(s)
        PROVE  \E m \in 1..Len(s) : w[m] = s[n]
    <3>1. PICK m \in 1..Len(s) : v[m] = s[n]
      BY DEF Partial
    <3>2. CASE m = b
      BY <1>1, <1>3, <3>1, <3>2
    <3>3. CASE m = b - 1
      BY <1>1, <1>3, <3>1, <3>3
    <3>. QED
      BY <1>3, <3>1, <3>2, <3>3
  <2>. QED
    BY <2>1
<1>5. \A n \in 1..Len(s) : n > a => w[n] = s[n]
  BY <1>1, <1>3 DEF Partial
<1>6. w[b - 1] = s[a]
  BY <1>3 DEF Partial
<1>7. \A n \in 1..Len(s) : n <= a /\ n # b - 1 => \E m \in 1..Len(s) : m < a /\ w[n] = s[m]
  <2>1. \A n \in 1..Len(s) : n <= a /\ n # b => \E m \in 1..Len(s) : m < a /\ v[n] = s[m]
    BY DEF Partial
  <2>2. \E m \in 1..Len(s) : m < a /\ v[b - 1] = s[m]
    BY <1>1, <2>1
  <2>. QED
    BY <1>3, <2>1, <2>2
<1>8. Follows(v[b], v[b - 1], s)
  <2>1. PICK m \in 1..Len(s) : v[b - 1] = s[m]
    <3>1. \A n \in 1..Len(s) : n <= a /\ n # b => \E m \in 1..Len(s) : m < a /\ v[n] = s[m]
      BY DEF Partial
    <3>2. b - 1 <= a /\ b - 1 # b
      BY <1>1
    <3>. QED
      BY <1>1, <3>1, <3>2
  <2>2. v[b] = s[a]
    BY DEF Partial
  <2>. QED
    BY <2>1, <2>2, ComparesFollows
<1>11. \A m, n \in 1..Len(s) : m < n /\ n <= a /\ m # b /\ n # b => Follows(v[m], v[n], s)
  BY DEF Partial
<1>9. \A m, n \in 1..Len(s) : m < n /\ n <= a /\ m # b - 1 /\ n # b - 1 => Follows(w[m], w[n], s)
  <2>1. ASSUME NEW m \in 1..Len(s), NEW n \in 1..Len(s), m < n, n <= a, m # b - 1, n # b - 1
        PROVE  Follows(w[m], w[n], s)
    <3>1. CASE m # b /\ n # b
      BY <1>3, <2>1, <3>1 DEF Partial
    <3>2. CASE m = b
      <4>0. b - 1 < n /\ b - 1 # b /\ n # b
        BY <1>1, <2>1, <3>2
      <4>1. Follows(v[b - 1], v[n], s)
        BY <1>1, <1>11, <2>1, <4>0
      <4>2. w[m] = v[b - 1] /\ w[n] = v[n]
        BY <1>1, <1>3, <2>1, <3>2
      <4>. QED
        BY <4>1, <4>2
    <3>3. CASE n = b
      <4>0. m < b - 1 /\ b - 1 <= a /\ b - 1 # b /\ m # b
        BY <1>1, <2>1, <3>3
      <4>1. Follows(v[m], v[b - 1], s)
        BY <1>1, <1>11, <4>0
      <4>2. w[n] = v[b - 1] /\ w[m] = v[m]
        BY <1>1, <1>3, <2>1, <3>3
      <4>. QED
        BY <4>1, <4>2
    <3>. QED
      BY <3>1, <3>2, <3>3
  <2>. QED
    BY <2>1
<1>10. \A n \in 1..Len(s) : b - 1 < n /\ n <= a => Follows(w[b - 1], w[n], s)
  <2>1. ASSUME NEW n \in 1..Len(s), b - 1 < n, n <= a
        PROVE  Follows(w[b - 1], w[n], s)
    <3>1. CASE n = b
      BY <1>3, <1>8, <3>1
    <3>2. CASE n # b
      <4>1. b < n
        BY <1>1, <2>1, <3>2
      <4>2. Follows(v[b], v[n], s)
        BY <2>1, <4>1 DEF Partial
      <4>3. w[n] = v[n]
        BY <1>1, <1>3, <4>1
      <4>. QED
        BY <1>3, <4>2, <4>3
    <3>. QED
      BY <3>1, <3>2
  <2>. QED
    BY <2>1
<1>. QED
  BY <1>2, <1>4, <1>5, <1>6, <1>7, <1>9, <1>10 DEF Partial, w

LEMMA SortSettles ==
  ASSUME NEW s \in Seq(Version), Distinct(s), NEW v,
         NEW a \in 1..Len(s), NEW b \in 1..a, Partial(v, s, a, b),
         ~(b > 1 /\ Before(v[b], v[b - 1]))
  PROVE  Partial(v, s, a + 1, a + 1)
<1>1. Len(s) \in Nat /\ a \in Nat /\ b \in Nat /\ b <= a /\ b \in 1..Len(s)
  <2>1. Len(s) \in Nat /\ a \in Nat /\ a <= Len(s)
    OBVIOUS
  <2>. QED
    BY <2>1
<1>2. v[b] = s[a] /\ \A n \in 1..Len(s) : n > a => v[n] = s[n]
  BY DEF Partial
<1>3. \A n \in 1..Len(s) : n <= a /\ n # b => \E m \in 1..Len(s) : m < a /\ v[n] = s[m]
  BY DEF Partial
<1>4. \A m, n \in 1..Len(s) : m < n /\ n <= a /\ m # b /\ n # b => Follows(v[m], v[n], s)
  BY DEF Partial
<1>5. \A n \in 1..Len(s) : b < n /\ n <= a => Follows(v[b], v[n], s)
  BY DEF Partial
<1>6. ASSUME NEW m \in 1..Len(s), m < b
      PROVE  Follows(v[m], v[b], s)
  <2>1. b - 1 \in 1..Len(s) /\ b - 1 < b /\ b - 1 <= a /\ m <= a /\ b > 1
    BY <1>1, <1>6
  <2>2. PICK n \in 1..Len(s) : n < a /\ v[b - 1] = s[n]
    BY <1>1, <1>3, <2>1
  <2>3. Follows(v[b - 1], v[b], s)
    BY <1>2, <2>1, <2>2, ComparesFollows
  <2>4. CASE m = b - 1
    BY <2>3, <2>4
  <2>5. CASE m # b - 1
    <3>1. m < b - 1
      BY <1>1, <1>6, <2>5
    <3>2. Follows(v[m], v[b - 1], s)
      BY <1>1, <1>4, <2>1, <3>1
    <3>3. PICK l \in 1..Len(s) : v[m] = s[l]
      BY <1>1, <1>3, <1>6, <2>1
    <3>. QED
      BY <1>2, <2>2, <2>3, <3>2, <3>3, FollowsTransitive
  <2>. QED
    BY <2>4, <2>5
<1>7. ASSUME NEW m \in 1..Len(s), NEW n \in 1..Len(s), m < n, n <= a
      PROVE  Follows(v[m], v[n], s)
  <2>1. CASE m = b
    BY <1>5, <1>7, <2>1
  <2>2. CASE n = b
    BY <1>6, <1>7, <2>2
  <2>3. CASE m # b /\ n # b
    BY <1>4, <1>7, <2>3
  <2>. QED
    BY <2>1, <2>2, <2>3
<1>8. ASSUME NEW n \in 1..Len(s), n <= a
      PROVE  \E m \in 1..Len(s) : m < a + 1 /\ v[n] = s[m]
  <2>1. CASE n = b
    <3>1. a \in 1..Len(s) /\ a < a + 1
      BY <1>1
    <3>. QED
      BY <1>2, <2>1, <3>1
  <2>2. CASE n # b
    <3>1. PICK m \in 1..Len(s) : m < a /\ v[n] = s[m]
      BY <1>3, <1>8, <2>2
    <3>2. m < a + 1
      BY <1>1, <3>1
    <3>. QED
      BY <3>1, <3>2
  <2>. QED
    BY <2>1, <2>2
<1>9. a + 1 <= Len(s) => v[a + 1] = s[a + 1]
  <2>1. a + 1 <= Len(s) => a + 1 \in 1..Len(s) /\ a + 1 > a
    BY <1>1
  <2>. QED
    BY <1>2, <2>1
<1>10. \A n \in 1..Len(s) : n <= a + 1 /\ n # a + 1 => n <= a
  BY <1>1
<1>11. /\ \A n \in 1..Len(s) : n > a + 1 => n > a
       /\ \A n \in 1..Len(s) : ~(a + 1 < n /\ n <= a + 1)
       /\ \A m, n \in 1..Len(s) : m < n /\ n <= a + 1 /\ n # a + 1 => n <= a
  BY <1>1
<1>12. \A n \in 1..Len(s) : n > a + 1 => v[n] = s[n]
  BY <1>2, <1>11
<1>13. \A m, n \in 1..Len(s) : m < n /\ n <= a + 1 /\ m # a + 1 /\ n # a + 1 => Follows(v[m], v[n], s)
  BY <1>7, <1>11
<1>14. \A n \in 1..Len(s) : n <= a + 1 /\ n # a + 1 => \E m \in 1..Len(s) : m < a + 1 /\ v[n] = s[m]
  BY <1>8, <1>10
<1>15. v \in Seq(Version) /\ Len(v) = Len(s) /\ \A n \in 1..Len(s) : \E m \in 1..Len(s) : v[m] = s[n]
  BY DEF Partial
<1>. QED
  BY <1>9, <1>11, <1>12, <1>13, <1>14, <1>15 DEF Partial

LEMMA SortEnds ==
  ASSUME NEW s \in Seq(Version), NEW v, NEW a \in Nat, a > Len(s), Partial(v, s, a, a)
  PROVE  Sorted(v, s)
<1>1. /\ v \in Seq(Version) /\ Len(v) = Len(s) /\ Len(s) \in Nat
      /\ DOMAIN v = 1..Len(s) /\ DOMAIN s = 1..Len(s)
  BY DEF Partial
<1>2. \A n \in 1..Len(s) : n <= a /\ n # a
  BY <1>1
<1>3. \A m, n \in 1..Len(s) : m < n => Follows(v[m], v[n], s)
  BY <1>2 DEF Partial
<1>4. \A n \in 1..Len(s) : \E m \in 1..Len(s) : v[n] = s[m]
  BY <1>2 DEF Partial
<1>5. \A n \in 1..Len(s) : \E m \in 1..Len(s) : v[m] = s[n]
  BY DEF Partial
<1>6. ToSet(v) = ToSet(s)
  <2>1. ToSet(v) = {v[n] : n \in 1..Len(s)} /\ ToSet(s) = {s[n] : n \in 1..Len(s)}
    BY <1>1 DEF ToSet
  <2>. QED
    BY <1>4, <1>5, <2>1
<1>. QED
  BY <1>1, <1>3, <1>6 DEF Sorted

-----------------------------------------------------------------------------
(* The inductive invariant.                                                *)

(* Packages are in the places that the index gives them, and those that    *)
(* Open has yet to come to are as they are there.                          *)
KeptOK ==
    /\ given \in Seq(Package) /\ packages \in Seq(Package) /\ Len(packages) = Len(given)
    /\ k \in Nat /\ i \in Nat /\ j \in 1..i /\ p \in 1..(Len(given) + 1)
    /\ result \in {"none", "refused", "open"}

AheadOK ==
    result # "open" =>
        /\ \A q \in 1..Len(given) : packages[q].id = given[q].id
        /\ \A q \in 1..Len(given) : q > p => packages[q] = given[q]

(* No two of those that Open has looked at have one identity.              *)
IdsOK ==
    result # "open" => \A q, r \in 1..Len(given) :
        q < r /\ (r < p \/ (r = p /\ k > 0)) => given[q].id # given[r].id

(* Those before p are sorted.                                              *)
DoneOK ==
    result # "open" => \A q \in 1..Len(given) :
        q < p => Sorted(packages[q].versions, given[q].versions)

(* Package p is as it is in the index until all of its versions have been  *)
(* looked at, and then it is being sorted.                                 *)
HereOK ==
    result # "open" /\ p <= Len(given) =>
        LET s == given[p].versions IN
        /\ \A m, n \in 1..Len(s) : m < n /\ n < k => s[m] # s[n]
        /\ k <= Len(s) => packages[p] = given[p] /\ i = 2 /\ j = 2
        /\ k > Len(s) => Partial(packages[p].versions, s, i, j) /\ (i > Len(s) => j = i)

OpenOK ==
    result = "open" =>
        /\ \A q, r \in 1..Len(given) : q < r => given[q].id # given[r].id
        /\ \A m, n \in 1..Len(given) : m < n => packages[m].id < packages[n].id
        /\ \A n \in 1..Len(given) : \E g \in 1..Len(given) :
             packages[n].id = given[g].id /\ Sorted(packages[n].versions, given[g].versions)

IInv == KeptOK /\ AheadOK /\ IdsOK /\ DoneOK /\ HereOK /\ OpenOK

-----------------------------------------------------------------------------
LEMMA PackageFields ==
  ASSUME NEW g \in Package
  PROVE  g.id \in Int /\ g.versions \in Seq(Version) /\ Len(g.versions) \in Nat
BY DEF Package

LEMMA InitInvariant == Init => IInv
<1>. SUFFICES ASSUME Init
              PROVE  IInv
  OBVIOUS
<1>1. given \in Seq(Package) /\ packages = given /\ p = 1 /\ k = 0 /\ i = 2 /\ j = 2 /\ result = "none"
  BY IndexAssumption DEF Init
<1>2. KeptOK
  BY <1>1 DEF KeptOK
<1>3. AheadOK
  BY <1>1 DEF AheadOK
<1>4. IdsOK
  BY <1>1 DEF IdsOK
<1>5. DoneOK
  BY <1>1 DEF DoneOK
<1>6. HereOK
  <2>1. \A q \in 1..Len(given) : Len(given[q].versions) \in Nat
    BY <1>1, PackageFields
  <2>. QED
    BY <1>1, <2>1 DEF HereOK
<1>7. OpenOK
  BY <1>1 DEF OpenOK
<1>. QED
  BY <1>2, <1>3, <1>4, <1>5, <1>6, <1>7 DEF IInv

(* While Open is at a package.                                             *)
LEMMA AtPackage ==
  ASSUME KeptOK, At
  PROVE  /\ p \in 1..Len(given) /\ p <= Len(given) /\ result = "none" /\ result # "open"
         /\ given[p] \in Package /\ packages[p] \in Package
         /\ given[p].versions \in Seq(Version) /\ Len(given[p].versions) \in Nat
         /\ packages[p].versions \in Seq(Version) /\ Len(packages[p].versions) \in Nat
<1>1. p \in 1..Len(given) /\ p <= Len(given) /\ result = "none"
  BY DEF KeptOK, At
<1>2. given[p] \in Package /\ packages[p] \in Package
  BY <1>1 DEF KeptOK
<1>. QED
  BY <1>1, <1>2, PackageFields

LEMMA ValidatesInvariant ==
  ASSUME IInv, Validates
  PROVE  IInv'
<1>. DEFINE s == given[p].versions
<1>1. KeptOK /\ AheadOK /\ IdsOK /\ DoneOK /\ HereOK
  BY DEF IInv
<1>2. /\ k <= Len(Versions) /\ k' = k + 1 /\ p' = p /\ i' = i /\ j' = j
      /\ given' = given /\ packages' = packages /\ result' = result /\ At
  BY DEF Validates
<1>3. /\ p \in 1..Len(given) /\ p <= Len(given) /\ result = "none" /\ result # "open"
      /\ given[p] \in Package /\ packages[p] \in Package
      /\ s \in Seq(Version) /\ Len(s) \in Nat
  BY <1>1, <1>2, AtPackage
<1>4. k <= Len(s) /\ packages[p] = given[p] /\ i = 2 /\ j = 2
  <2>1. k <= Len(s)
    <3>1. k > Len(s) => Len(packages[p].versions) = Len(s)
      BY <1>1, <1>3 DEF HereOK, Partial
    <3>2. k \in Nat /\ Len(s) \in Nat
      BY <1>1, <1>3 DEF KeptOK
    <3>. QED
      BY <1>2, <3>1, <3>2 DEF Versions
  <2>. QED
    BY <1>1, <1>3, <2>1 DEF HereOK
<1>5. KeptOK'
  BY <1>1, <1>2 DEF KeptOK
<1>6. AheadOK'
  BY <1>1, <1>2 DEF AheadOK
<1>7. IdsOK'
  <2>1. ASSUME NEW q \in 1..Len(given), NEW r \in 1..Len(given), q < r, r < p \/ r = p
        PROVE  given[q].id # given[r].id
    <3>1. CASE r < p \/ k > 0
      BY <1>1, <1>3, <2>1, <3>1 DEF IdsOK
    <3>2. CASE r = p /\ k = 0
      <4>1. \A o \in 1..(p - 1) : packages[o].id # packages[p].id
        BY <1>2, <3>2 DEF Validates, GoodPackage
      <4>2. q \in 1..(p - 1)
        BY <1>3, <2>1, <3>2
      <4>3. packages[q].id = given[q].id /\ packages[p].id = given[p].id
        BY <1>1, <1>3 DEF AheadOK
      <4>. QED
        BY <3>2, <4>1, <4>2, <4>3
    <3>3. k \in Nat
      BY <1>1 DEF KeptOK
    <3>. QED
      BY <2>1, <3>1, <3>2, <3>3
  <2>. QED
    BY <1>2, <2>1 DEF IdsOK
<1>8. DoneOK'
  BY <1>1, <1>2 DEF DoneOK
<1>9. HereOK'
  <2>1. k \in Nat
    BY <1>1 DEF KeptOK
  <2>2. ASSUME NEW m \in 1..Len(s), NEW n \in 1..Len(s), m < n, n < k + 1
        PROVE  s[m] # s[n]
    <3>1. CASE n < k
      BY <1>1, <1>3, <2>2, <3>1 DEF HereOK
    <3>2. CASE n = k
      <4>1. k # 0 /\ m \in 1..(k - 1)
        BY <1>3, <2>2, <3>2
      <4>2. \A o \in 1..(k - 1) : Versions[o] # Versions[k]
        BY <4>1 DEF Validates, GoodVersion
      <4>. QED
        BY <1>4, <3>2, <4>1, <4>2 DEF Versions
    <3>. QED
      BY <1>3, <2>1, <2>2, <3>1, <3>2
  <2>3. Partial(s, s, i, j) /\ (i > Len(s) => j = i)
    BY <1>3, <1>4, SortStarts
  <2>. QED
    BY <1>2, <1>4, <2>2, <2>3 DEF HereOK
<1>10. OpenOK'
  BY <1>2, <1>3 DEF OpenOK
<1>. QED
  BY <1>5, <1>6, <1>7, <1>8, <1>9, <1>10 DEF IInv

LEMMA RefusesInvariant ==
  ASSUME IInv, Refuses
  PROVE  IInv'
<1>1. /\ given' = given /\ packages' = packages /\ p' = p /\ k' = k /\ i' = i /\ j' = j
      /\ result = "none" /\ result' = "refused"
  BY DEF Refuses, loopVars, At
<1>2. KeptOK'
  BY <1>1 DEF IInv, KeptOK
<1>3. AheadOK'
  BY <1>1 DEF IInv, AheadOK
<1>4. IdsOK'
  BY <1>1 DEF IInv, IdsOK
<1>5. DoneOK'
  BY <1>1 DEF IInv, DoneOK
<1>6. HereOK'
  BY <1>1 DEF IInv, HereOK
<1>7. OpenOK'
  BY <1>1 DEF OpenOK
<1>. QED
  BY <1>2, <1>3, <1>4, <1>5, <1>6, <1>7 DEF IInv

LEMMA DistinctVersions ==
  ASSUME IInv, At, k > Len(given[p].versions)
  PROVE  Distinct(given[p].versions)
<1>. DEFINE s == given[p].versions
<1>1. /\ p <= Len(given) /\ result # "open" /\ s \in Seq(Version)
      /\ Len(s) \in Nat /\ k \in Nat /\ DOMAIN s = 1..Len(s)
  <2>1. k \in Nat
    BY DEF IInv, KeptOK
  <2>. QED
    BY <2>1, AtPackage DEF IInv
<1>2. \A m, n \in 1..Len(s) : m < n /\ n < k => s[m] # s[n]
  BY <1>1 DEF IInv, HereOK
<1>3. \A n \in 1..Len(s) : n < k
  BY <1>1
<1>. HIDE DEF s
<1>4. \A m, n \in 1..Len(s) : m < n => s[m] # s[n]
  BY <1>2, <1>3
<1>5. \A m, n \in 1..Len(s) : m = n \/ m < n \/ n < m
  BY <1>1
<1>6. Distinct(s)
  BY <1>1, <1>4, <1>5 DEF Distinct
<1>. QED
  BY <1>6 DEF s

(* What the steps of the sort have in common.                              *)
LEMMA SortingIs ==
  ASSUME IInv, At, k > Len(Versions)
  PROVE  LET s == given[p].versions IN
         /\ Len(Versions) = Len(s) /\ k > Len(s) /\ Distinct(s)
         /\ Partial(Versions, s, i, j) /\ (i > Len(s) => j = i)
<1>. DEFINE s == given[p].versions
<1>1. /\ p <= Len(given) /\ result # "open"
      /\ Len(s) \in Nat /\ k \in Nat /\ Len(Versions) \in Nat
  <2>1. k \in Nat
    BY DEF IInv, KeptOK
  <2>. QED
    BY <2>1, AtPackage DEF IInv, Versions
<1>2. k > Len(s)
  <2>1. k <= Len(s) => Versions = s
    BY <1>1 DEF IInv, HereOK, Versions
  <2>. QED
    BY <1>1, <2>1
<1>3. Partial(Versions, s, i, j) /\ (i > Len(s) => j = i)
  BY <1>1, <1>2 DEF IInv, HereOK, Versions
<1>4. Len(Versions) = Len(s)
  BY <1>3 DEF Partial
<1>. QED
  BY <1>2, <1>3, <1>4, DistinctVersions

LEMMA SwapsInvariant ==
  ASSUME IInv, Swaps
  PROVE  IInv'
<1>. DEFINE s == given[p].versions
            v == Exchanged(Versions, j)
<1>1. /\ At /\ k > Len(Versions) /\ i <= Len(Versions) /\ j > 1 /\ Before(Versions[j], Versions[j - 1])
      /\ j' = j - 1 /\ given' = given /\ p' = p /\ k' = k /\ i' = i /\ result' = result
      /\ packages' = [packages EXCEPT ![p].versions = v]
  BY DEF Swaps, Sorting, Moves, Exchanged
<1>2. KeptOK /\ AheadOK /\ IdsOK /\ DoneOK /\ HereOK
  BY DEF IInv
<1>3. /\ p \in 1..Len(given) /\ p <= Len(given) /\ result = "none" /\ result # "open"
      /\ given[p] \in Package /\ packages[p] \in Package
      /\ s \in Seq(Version) /\ Len(s) \in Nat
  BY <1>1, <1>2, AtPackage
<1>4. /\ Len(Versions) = Len(s) /\ k > Len(s) /\ Distinct(s)
      /\ Partial(Versions, s, i, j)
  BY <1>1, SortingIs
<1>5. i \in 1..Len(s) /\ j \in 2..i /\ i \in Nat /\ j \in Nat
  BY <1>1, <1>2, <1>3, <1>4 DEF KeptOK
<1>. HIDE DEF v
<1>6. Partial(v, s, i, j - 1)
  BY <1>1, <1>3, <1>4, <1>5, SortSwaps DEF v
<1>7. v \in Seq(Version)
  BY <1>6 DEF Partial
<1>8. /\ packages' \in Seq(Package) /\ Len(packages') = Len(packages)
      /\ packages'[p].versions = v /\ packages'[p].id = packages[p].id
      /\ \A q \in 1..Len(given) : q # p => packages'[q] = packages[q]
  <2>1. packages \in Seq(Package) /\ Len(packages) = Len(given)
    BY <1>2 DEF KeptOK
  <2>2. [packages[p] EXCEPT !.versions = v] \in Package
    BY <1>3, <1>7 DEF Package
  <2>3. packages' = [packages EXCEPT ![p] = [packages[p] EXCEPT !.versions = v]]
    BY <1>1
  <2>4. /\ [packages[p] EXCEPT !.versions = v].versions = v
        /\ [packages[p] EXCEPT !.versions = v].id = packages[p].id
    BY <1>3 DEF Package
  <2>5. packages'[p] = [packages[p] EXCEPT !.versions = v]
    BY <1>3, <2>1, <2>3
  <2>6. packages' \in Seq(Package) /\ Len(packages') = Len(packages)
    BY <1>3, <2>1, <2>2, <2>3
  <2>7. \A q \in 1..Len(given) : q # p => packages'[q] = packages[q]
    BY <2>1, <2>3
  <2>. QED
    BY <2>4, <2>5, <2>6, <2>7
<1>9. KeptOK'
  <2>1. j - 1 \in 1..i
    BY <1>5
  <2>. QED
    BY <1>1, <1>2, <1>8, <2>1 DEF KeptOK
<1>10. AheadOK'
  <2>1. \A q \in 1..Len(given) : packages'[q].id = packages[q].id
    BY <1>8
  <2>2. \A q \in 1..Len(given) : q > p => packages'[q] = packages[q]
    BY <1>3, <1>8
  <2>. QED
    BY <1>1, <1>2, <1>3, <2>1, <2>2 DEF AheadOK
<1>11. IdsOK'
  BY <1>1, <1>2 DEF IdsOK
<1>12. DoneOK'
  <2>1. \A q \in 1..Len(given) : q < p => packages'[q] = packages[q]
    BY <1>3, <1>8
  <2>. QED
    BY <1>1, <1>2, <1>3, <2>1 DEF DoneOK
<1>13. HereOK'
  <2>1. ~(k <= Len(s)) /\ ~(i > Len(s))
    <3>1. k \in Nat
      BY <1>2 DEF KeptOK
    <3>. QED
      BY <1>3, <1>4, <1>5, <3>1
  <2>2. \A m, n \in 1..Len(s) : m < n /\ n < k => s[m] # s[n]
    BY <1>2, <1>3 DEF HereOK
  <2>. QED
    BY <1>1, <1>6, <1>8, <2>1, <2>2 DEF HereOK
<1>14. OpenOK'
  BY <1>1, <1>3 DEF OpenOK
<1>. QED
  BY <1>9, <1>10, <1>11, <1>12, <1>13, <1>14 DEF IInv

LEMMA SettlesInvariant ==
  ASSUME IInv, Settles
  PROVE  IInv'
<1>. DEFINE s == given[p].versions
<1>1. /\ At /\ k > Len(Versions) /\ i <= Len(Versions) /\ ~(j > 1 /\ Before(Versions[j], Versions[j - 1]))
      /\ i' = i + 1 /\ j' = i + 1 /\ given' = given /\ p' = p /\ k' = k /\ result' = result
      /\ packages' = packages
  BY DEF Settles, Sorting, Moves
<1>2. KeptOK /\ AheadOK /\ IdsOK /\ DoneOK /\ HereOK
  BY DEF IInv
<1>3. /\ p <= Len(given) /\ result # "open" /\ s \in Seq(Version) /\ Len(s) \in Nat
  BY <1>1, <1>2, AtPackage
<1>4. /\ Len(Versions) = Len(s) /\ k > Len(s) /\ Distinct(s)
      /\ Partial(Versions, s, i, j)
  BY <1>1, SortingIs
<1>5. i \in 1..Len(s) /\ j \in 1..i /\ i \in Nat
  BY <1>1, <1>2, <1>3, <1>4 DEF KeptOK
<1>6. Partial(Versions, s, i + 1, i + 1)
  BY <1>1, <1>3, <1>4, <1>5, SortSettles
<1>7. KeptOK'
  <2>1. i + 1 \in Nat /\ i + 1 \in 1..(i + 1)
    BY <1>5
  <2>. QED
    BY <1>1, <1>2, <2>1 DEF KeptOK
<1>8. AheadOK'
  BY <1>1, <1>2 DEF AheadOK
<1>9. IdsOK'
  BY <1>1, <1>2 DEF IdsOK
<1>10. DoneOK'
  BY <1>1, <1>2 DEF DoneOK
<1>11. HereOK'
  <2>1. ~(k <= Len(s))
    <3>1. k \in Nat
      BY <1>2 DEF KeptOK
    <3>. QED
      BY <1>3, <1>4, <3>1
  <2>2. \A m, n \in 1..Len(s) : m < n /\ n < k => s[m] # s[n]
    BY <1>2, <1>3 DEF HereOK
  <2>. QED
    BY <1>1, <1>6, <2>1, <2>2 DEF HereOK, Versions
<1>12. OpenOK'
  BY <1>1, <1>3 DEF OpenOK
<1>. QED
  BY <1>7, <1>8, <1>9, <1>10, <1>11, <1>12 DEF IInv

LEMMA NextPackageInvariant ==
  ASSUME IInv, NextPackage
  PROVE  IInv'
<1>. DEFINE s == given[p].versions
<1>1. /\ At /\ k > Len(Versions) /\ i > Len(Versions)
      /\ p' = p + 1 /\ k' = 0 /\ i' = 2 /\ j' = 2 /\ given' = given /\ result' = result
      /\ packages' = packages
  BY DEF NextPackage
<1>2. KeptOK /\ AheadOK /\ IdsOK /\ DoneOK /\ HereOK
  BY DEF IInv
<1>3. /\ p \in 1..Len(given) /\ p <= Len(given) /\ result # "open" /\ result = "none"
      /\ s \in Seq(Version) /\ Len(s) \in Nat /\ Len(given) \in Nat /\ p \in Nat
  <2>1. Len(given) \in Nat
    BY <1>2 DEF KeptOK
  <2>. QED
    BY <1>1, <1>2, <2>1, AtPackage
<1>4. /\ Len(Versions) = Len(s) /\ k > Len(s)
      /\ Partial(Versions, s, i, j) /\ (i > Len(s) => j = i)
  BY <1>1, SortingIs
<1>5. Sorted(Versions, s)
  <2>1. i > Len(s) /\ j = i /\ i \in Nat
    BY <1>1, <1>2, <1>4 DEF KeptOK
  <2>. QED
    BY <1>3, <1>4, <2>1, SortEnds
<1>6. KeptOK'
  <2>1. p + 1 \in 1..(Len(given) + 1)
    BY <1>3
  <2>. QED
    BY <1>1, <1>2, <2>1 DEF KeptOK
<1>7. AheadOK'
  <2>1. \A q \in 1..Len(given) : q > p + 1 => q > p
    BY <1>3
  <2>. QED
    BY <1>1, <1>2, <1>3, <2>1 DEF AheadOK
<1>8. IdsOK'
  <2>1. \A q, r \in 1..Len(given) : q < r /\ r < p + 1 => r < p \/ r = p
    BY <1>3
  <2>2. k > 0
    BY <1>2, <1>3, <1>4 DEF KeptOK
  <2>. QED
    BY <1>1, <1>2, <1>3, <2>1, <2>2 DEF IdsOK
<1>9. DoneOK'
  <2>1. \A q \in 1..Len(given) : q < p + 1 => q < p \/ q = p
    BY <1>3
  <2>2. Sorted(packages[p].versions, given[p].versions)
    BY <1>5 DEF Versions
  <2>3. \A q \in 1..Len(given) : q < p => Sorted(packages[q].versions, given[q].versions)
    BY <1>2, <1>3 DEF DoneOK
  <2>4. \A q \in 1..Len(given) : q < p + 1 => Sorted(packages[q].versions, given[q].versions)
    BY <2>1, <2>2, <2>3
  <2>. QED
    BY <1>1, <2>4 DEF DoneOK
<1>10. HereOK'
  <2>1. ASSUME p + 1 <= Len(given)
        PROVE  packages[p + 1] = given[p + 1] /\ Len(given[p + 1].versions) \in Nat
    <3>1. p + 1 \in 1..Len(given) /\ p + 1 > p
      BY <1>3, <2>1
    <3>2. given[p + 1] \in Package
      BY <1>2, <3>1 DEF KeptOK
    <3>. QED
      BY <1>2, <1>3, <3>1, <3>2, PackageFields DEF AheadOK
  <2>2. ASSUME p + 1 <= Len(given)
        PROVE  /\ \A m, n \in 1..Len(given[p + 1].versions) : ~(m < n /\ n < 0)
               /\ 0 <= Len(given[p + 1].versions) /\ ~(0 > Len(given[p + 1].versions))
    BY <2>1, <2>2
  <2>. QED
    BY <1>1, <2>1, <2>2 DEF HereOK
<1>11. OpenOK'
  BY <1>1, <1>3 DEF OpenOK
<1>. QED
  BY <1>6, <1>7, <1>8, <1>9, <1>10, <1>11 DEF IInv

LEMMA OpensInvariant ==
  ASSUME IInv, Opens
  PROVE  IInv'
<1>1. KeptOK /\ AheadOK /\ IdsOK /\ DoneOK
  BY DEF IInv
<1>2. /\ result = "none" /\ p > Len(packages) /\ result' = "open" /\ given' = given
      /\ p' = p /\ k' = k /\ i' = i /\ j' = j
  BY DEF Opens, loopVars
<1>3. /\ DOMAIN packages = 1..Len(given) /\ Len(given) \in Nat /\ result # "open"
      /\ \A n \in 1..Len(given) : n < p
  BY <1>1, <1>2 DEF KeptOK
<1>4. PICK from \in Bijection(1..Len(given), 1..Len(given)) :
        /\ packages' = [n \in 1..Len(given) |-> packages[from[n]]]
        /\ \A m, n \in 1..Len(given) : m < n => packages'[m].id <= packages'[n].id
  BY <1>3 DEF Opens
<1>5. /\ from \in [1..Len(given) -> 1..Len(given)]
      /\ \A m, n \in 1..Len(given) : from[m] = from[n] => m = n
  BY <1>4 DEF Bijection, Injection, IsInjective
<1>6. \A n \in 1..Len(given) : packages'[n] = packages[from[n]] /\ packages[from[n]] \in Package
  <2>1. \A n \in 1..Len(given) : packages[n] \in Package
    BY <1>1, <1>3 DEF KeptOK
  <2>2. \A n \in 1..Len(given) : from[n] \in 1..Len(given)
    BY <1>5
  <2>. QED
    BY <1>4, <2>1, <2>2
<1>7. packages' \in Seq(Package) /\ Len(packages') = Len(given)
  BY <1>3, <1>4, <1>6
<1>8. \A q, r \in 1..Len(given) : q < r => given[q].id # given[r].id
  BY <1>1, <1>3 DEF IdsOK
<1>9. \A n \in 1..Len(given) : packages'[n].id = given[from[n]].id
  BY <1>1, <1>3, <1>5, <1>6 DEF AheadOK
<1>10. ASSUME NEW m \in 1..Len(given), NEW n \in 1..Len(given), m < n
       PROVE  packages'[m].id < packages'[n].id
  <2>1. from[m] # from[n] /\ from[m] \in 1..Len(given) /\ from[n] \in 1..Len(given)
    BY <1>3, <1>5, <1>10
  <2>2. from[m] < from[n] \/ from[n] < from[m]
    BY <1>3, <2>1
  <2>3. packages'[m].id # packages'[n].id
    BY <1>8, <1>9, <2>1, <2>2
  <2>4. packages'[m].id \in Int /\ packages'[n].id \in Int
    BY <1>6, PackageFields
  <2>. QED
    BY <1>4, <1>10, <2>3, <2>4
<1>11. ASSUME NEW n \in 1..Len(given)
       PROVE  \E g \in 1..Len(given) :
                packages'[n].id = given[g].id /\ Sorted(packages'[n].versions, given[g].versions)
  <2>1. from[n] \in 1..Len(given)
    BY <1>5
  <2>2. Sorted(packages[from[n]].versions, given[from[n]].versions)
    BY <1>1, <1>3, <2>1 DEF DoneOK
  <2>. QED
    BY <1>6, <1>9, <2>1, <2>2
<1>12. KeptOK'
  BY <1>1, <1>2, <1>7 DEF KeptOK
<1>13. AheadOK' /\ IdsOK' /\ DoneOK' /\ HereOK'
  BY <1>2 DEF AheadOK, IdsOK, DoneOK, HereOK
<1>14. OpenOK'
  BY <1>2, <1>8, <1>10, <1>11 DEF OpenOK
<1>. QED
  BY <1>12, <1>13, <1>14 DEF IInv

LEMMA StutterInvariant ==
  ASSUME IInv, UNCHANGED catalogVars
  PROVE  IInv'
<1>1. /\ given' = given /\ packages' = packages /\ p' = p /\ k' = k /\ i' = i /\ j' = j
      /\ result' = result
  BY DEF catalogVars, loopVars
<1>2. KeptOK'
  BY <1>1 DEF IInv, KeptOK
<1>3. AheadOK'
  BY <1>1 DEF IInv, AheadOK
<1>4. IdsOK'
  BY <1>1 DEF IInv, IdsOK
<1>5. DoneOK'
  BY <1>1 DEF IInv, DoneOK
<1>6. HereOK'
  BY <1>1 DEF IInv, HereOK
<1>7. OpenOK'
  BY <1>1 DEF IInv, OpenOK
<1>. QED
  BY <1>2, <1>3, <1>4, <1>5, <1>6, <1>7 DEF IInv

THEOREM Invariance == Spec => []IInv
<1>1. IInv /\ [Next]_catalogVars => IInv'
  BY ValidatesInvariant, RefusesInvariant, SwapsInvariant, SettlesInvariant,
     NextPackageInvariant, OpensInvariant, StutterInvariant DEF Next
<1>. QED
  BY InitInvariant, <1>1, PTL DEF Spec

-----------------------------------------------------------------------------
(* The variables keep their types for every set of indexes.                *)
THEOREM CatalogTypes == Spec => []CatalogTypeOK
<1>1. IInv => CatalogTypeOK
  BY DEF IInv, KeptOK, CatalogTypeOK
<1>. QED
  BY Invariance, <1>1, PTL

-----------------------------------------------------------------------------
(* What an open catalog is, for one of its packages.                       *)
LEMMA OpenPackage ==
  ASSUME IInv, result = "open", NEW q \in ToSet(packages)
  PROVE  \E g \in 1..Len(given) :
           /\ Original(q) = given[g] /\ given[g].versions \in Seq(Version)
           /\ Sorted(q.versions, given[g].versions)
<1>1. /\ given \in Seq(Package) /\ Len(packages) = Len(given) /\ DOMAIN packages = 1..Len(given)
      /\ DOMAIN given = 1..Len(given) /\ Len(given) \in Nat
  BY DEF IInv, KeptOK
<1>2. PICK n \in 1..Len(given) : q = packages[n]
  BY <1>1 DEF ToSet
<1>3. PICK g \in 1..Len(given) : q.id = given[g].id /\ Sorted(q.versions, given[g].versions)
  BY <1>2 DEF IInv, OpenOK
<1>4. \A m \in 1..Len(given) : given[m].id = q.id => m = g
  <2>1. \A m, o \in 1..Len(given) : m < o => given[m].id # given[o].id
    BY DEF IInv, OpenOK
  <2>2. \A m \in 1..Len(given) : m = g \/ m < g \/ g < m
    BY <1>1
  <2>. QED
    BY <1>3, <2>1, <2>2
<1>5. \A h \in ToSet(given) : h.id = q.id <=> h = given[g]
  BY <1>1, <1>3, <1>4 DEF ToSet
<1>6. given[g] \in ToSet(given)
  BY <1>1 DEF ToSet
<1>7. Original(q) = given[g]
  BY <1>5, <1>6 DEF Original
<1>8. given[g].versions \in Seq(Version)
  BY <1>1, PackageFields
<1>. QED
  BY <1>3, <1>7, <1>8

(* An open catalog has every package of the index once, in order, with the *)
(* releases that the index gives it.                                       *)
THEOREM NothingLost == Spec => []SameReleases
<1>1. ASSUME IInv, result = "open"
      PROVE  SameReleases
  <2>1. \A m, n \in DOMAIN packages : m < n => packages[m].id < packages[n].id
    <3>1. DOMAIN packages = 1..Len(given)
      BY <1>1 DEF IInv, KeptOK
    <3>2. \A m, n \in 1..Len(given) : m < n => packages[m].id < packages[n].id
      BY <1>1 DEF IInv, OpenOK
    <3>. QED
      BY <3>1, <3>2
  <2>2. Len(packages) = Len(given)
    BY <1>1 DEF IInv, KeptOK
  <2>3. ASSUME NEW q \in ToSet(packages)
        PROVE  /\ Len(q.versions) = Len(Original(q).versions)
               /\ ToSet(q.versions) = ToSet(Original(q).versions)
    BY <1>1, OpenPackage DEF Sorted
  <2>. QED
    BY <2>1, <2>2, <2>3 DEF SameReleases
<1>2. IInv => SameReleases
  BY <1>1 DEF SameReleases
<1>. QED
  BY Invariance, <1>2, PTL

(* Its versions are in the order of Semantic Versioning, newest first, and *)
(* those that are alike in it in the order of the index, for a package     *)
(* whose numbers are parsed and written in one way.                        *)
THEOREM OrderedNewestFirst == Spec => []NewestFirst
<1>1. ASSUME IInv, result = "open", NEW q \in ToSet(packages), Ordered(q),
             NEW m \in DOMAIN q.versions, NEW n \in DOMAIN q.versions, m < n
      PROVE  Newer(q.versions[m], q.versions[n], Original(q).versions)
  <2>1. PICK g \in 1..Len(given) :
           /\ Original(q) = given[g] /\ given[g].versions \in Seq(Version)
           /\ Sorted(q.versions, given[g].versions)
    BY <1>1, OpenPackage
  <2>. DEFINE s == given[g].versions
  <2>2. m \in 1..Len(s) /\ n \in 1..Len(s)
    BY <2>1 DEF Sorted
  <2>3. Follows(q.versions[m], q.versions[n], s)
    BY <1>1, <2>1, <2>2 DEF Sorted
  <2>4. OrderedSet(IdentsOf(s))
    <3>1. Idents(q) = IdentsOf(s)
      BY <2>1 DEF Idents, IdentsOf, Sorted
    <3>. QED
      BY <1>1, <3>1 DEF Ordered, OrderedSet
  <2>. QED
    BY <2>1, <2>3, <2>4 DEF Follows
<1>2. IInv => NewestFirst
  BY <1>1 DEF NewestFirst, Newer
<1>. QED
  BY Invariance, <1>2, PTL

(* Whatever its pre-releases are, numbers over 64 bits included, versions  *)
(* of one triple are together, newest triple and release first.            *)
THEOREM TriplesTogether == Spec => []ReleasesFirst
<1>1. ASSUME IInv, result = "open", NEW q \in ToSet(packages),
             NEW m \in DOMAIN q.versions, NEW n \in DOMAIN q.versions, m < n
      PROVE  Ahead(q.versions[m], q.versions[n])
  <2>1. PICK g \in 1..Len(given) : Sorted(q.versions, given[g].versions)
    BY <1>1, OpenPackage
  <2>2. m \in 1..Len(given[g].versions) /\ n \in 1..Len(given[g].versions)
    BY <2>1 DEF Sorted
  <2>3. Follows(q.versions[m], q.versions[n], given[g].versions)
    BY <1>1, <2>1, <2>2 DEF Sorted
  <2>. QED
    BY <2>3 DEF Follows
<1>2. IInv => ReleasesFirst
  BY <1>1 DEF ReleasesFirst, Ahead, Lower
<1>. QED
  BY Invariance, <1>2, PTL
=============================================================================
