----------------------------- MODULE MCCatalog -----------------------------
(* Catalog on all lists of versions up to a length, of one package, and on  *)
(* some indexes of two packages.                                            *)
EXTENDS Catalog, TLC

CONSTANT MaxVersions

Number(n, t) == [num |-> n, text |-> t]
Word(t)      == [num |-> NaN, text |-> t]

(* 2, 9, 10 and the words a, b, in the byte order of their texts.           *)
Ten  == Number(10, 1)
Two  == Number(2, 2)
Nine == Number(9, 3)
A    == Word(4)
B    == Word(5)

VersionOf(c, s, b, o) == [core |-> c, pre |-> s, build |-> b, ok |-> o]
PackageOf(n, vs, o) == [id |-> n, versions |-> vs, ok |-> o]

V(c, s) == VersionOf(c, s, "", TRUE)
WellFormed ==
    {V(<<1, 0, 9>>, <<>>), V(<<1, 0, 10>>, <<>>), V(<<0, 11, 0>>, <<>>),
     VersionOf(<<1, 0, 9>>, <<>>, "x", TRUE),
     V(<<1, 0, 9>>, <<A>>), V(<<1, 0, 9>>, <<A, Ten>>), V(<<1, 0, 9>>, <<A, Two>>),
     V(<<1, 0, 9>>, <<A, B>>), V(<<1, 0, 9>>, <<Nine>>), V(<<1, 0, 9>>, <<B>>)}

Pairs == {<<PackageOf(m, <<V(<<1, 0, 9>>, <<A>>), v>>, o), PackageOf(n, <<v>>, TRUE)>> :
            m \in {1, 2}, n \in {1, 2}, o \in BOOLEAN,
            v \in {V(<<1, 0, 9>>, <<B>>), VersionOf(<<1, 0, 9>>, <<>>, "", FALSE)}}
Lists(S) == {<<PackageOf(1, vs, TRUE)>> : vs \in BoundedSeq(S, MaxVersions)}

(* 1, 01 and 3, and two numbers of more than 64 bits.                       *)
ZeroOne == Number(1, 1)
One     == Number(1, 2)
Three   == Number(3, 4)
Huger   == Number(1000, 2)
Huge    == Number(200, 3)
Admitted ==
    {V(<<1, 0, 9>>, <<>>), V(<<1, 0, 10>>, <<>>), V(<<1, 0, 10>>, <<Huge>>), V(<<1, 0, 10>>, <<Huger>>),
     V(<<1, 0, 9>>, <<One, One>>), V(<<1, 0, 9>>, <<ZeroOne, Three>>), V(<<1, 0, 9>>, <<One, Three>>)}

MCIndexes == Lists(WellFormed) \union Lists(Admitted) \union Pairs
=============================================================================
