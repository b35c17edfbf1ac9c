------------------------- MODULE ReleaseToolsProofs -------------------------
(***************************************************************************)
(* The safety of ReleaseTools for every list of releases, whichever of     *)
(* them the generator makes and the rules are for, and for every number of *)
(* runs and crashes.                                                       *)
(***************************************************************************)
EXTENDS ReleaseTools, FiniteSetTheorems, TLAPS

UpgradeNames == {"source", "contract", "api", "readme"}
BatchNames   == {"manifest", "license", "source", "test", "api", "readme", "notes"}

(* The files of the run of a tool, and those that it has left behind.      *)
Plan == IF tool = "batch" THEN BatchFiles ELSE UpgradeFiles
Left == {Plan[i] : i \in 1..(Len(Plan) - Len(todo))}

(* What packageupgrade makes of the file n of r in the tree t, with the    *)
(* version k of the rules, and of the tree: UpgradedBody and Upgraded with *)
(* their state as arguments.                                               *)
Result(t, k, r, n) ==
    CASE n = "source"   -> IF r \in Ruled /\ Added(t[<<r, "source">>]) = <<>>
                           THEN Text(Base(t[<<r, "source">>]), <<k>>) ELSE t[<<r, "source">>]
      [] n = "contract" -> k
      [] n = "api"      -> [by |-> "upgrade", of |-> t[<<r, "source">>],
                            about |-> IF r \in Ruled THEN k ELSE 0]
      [] n = "readme"   -> IF Added(t[<<r, "readme">>]) = <<>>
                           THEN Text(Base(t[<<r, "readme">>]), <<1>>) ELSE t[<<r, "readme">>]

Sourced(t, k) ==
    [f \in File |-> IF f # Index /\ f[2] = "source" /\ ~Skips(t, f)
                    THEN Result(t, k, f[1], f[2]) ELSE t[f]]
Described(t, k) ==
    [f \in File |-> IF f # Index /\ f[2] \in {"contract", "api", "readme"} /\ ~Skips(t, f)
                    THEN Result(t, k, f[1], f[2]) ELSE t[f]]
Final(t, k) == Described(Sourced(t, k), k)

Clean(t, k, f) == Skips(t, f) \/ t[f] = Result(t, k, f[1], f[2])

(* What the generator makes of a file, with the index l that it has read.  *)
Product(l, f) ==
    IF f = Index THEN l \union Batch
    ELSE CASE f[2] \in Plain -> "text"
           [] f[2] \in {"source", "readme"} -> Own
           [] f[2] = "api" -> [by |-> "batch", of |-> Own, about |-> 0]

(* The releases that can be served.                                        *)
Present(t) == {r \in Release : t[<<r, "manifest">>] # Absent /\ t[<<r, "source">>] # Absent}

-----------------------------------------------------------------------------
(* A tool comes to the files of its plan in order, and what it writes is a *)
(* content of the file that it has truncated.                              *)
ShapeOK ==
    /\ disk = [f \in File |-> disk[f]]
    /\ tool = "none" => todo = <<>> /\ pending = Absent
    /\ tool # "none" => /\ Len(todo) <= Len(Plan)
                        /\ \A i \in 1..Len(todo) : todo[i] = Plan[Len(Plan) - Len(todo) + i]
    /\ last # "none" => tool = "none"

PendingOK ==
    pending # Absent =>
        /\ todo # <<>> /\ tool \in {"batch", "upgrade"} /\ disk[Head(todo)] = Empty
        /\ Head(todo) = Index => pending \subseteq Release
        /\ Head(todo) # Index => pending \in Written(Head(todo)[2])

(* A crash is the end of a run.                                            *)
RunsOK == crashes + (IF tool \in {"batch", "upgrade"} THEN 1 ELSE 0) <= runs

(* What the generator has left behind is as it makes it.                   *)
BatchOK ==
    tool = "batch" =>
        /\ goal = NoTree /\ listed \subseteq Present(disk)
        /\ \A f \in Left : Settled[f] = Product(listed, f)
        /\ pending # Absent => pending = Product(listed, Head(todo))

(* What an upgrade or a check has left behind is clean, and stays so.      *)
UpgradeOK ==
    tool \in {"upgrade", "check"} =>
        /\ \A f \in Left : Clean(Settled, rules, f)
        /\ pending # Absent => Clean(Settled, rules, Head(todo))

(* No step of an upgrade changes what it comes to.                         *)
GoalOK == goal # NoTree => tool # "batch" /\ Final(Settled, rules) = goal

DamageOK == IsFiniteSet(Damaged(Settled)) /\ Cardinality(Damaged(Settled)) <= crashes

(* What is listed can be served.                                           *)
ListOK == disk[Index] # Empty => disk[Index] \subseteq Present(disk)

LastOK ==
    /\ GeneratedIsComplete
    /\ last \in {"upgraded", "green"} =>
        \A f \in Release \X UpgradeNames : Clean(disk, rules, f)

IInv ==
    /\ ToolTypeOK /\ ShapeOK /\ PendingOK /\ RunsOK /\ BatchOK /\ UpgradeOK
    /\ GoalOK /\ DamageOK /\ ListOK /\ LastOK

-----------------------------------------------------------------------------
(* Files and what is in them.                                              *)

LEMMA FileParts ==
  /\ \A r \in Release, n \in Name : /\ <<r, n>> \in File /\ <<r, n>> # Index
                                    /\ <<r, n>>[1] = r /\ <<r, n>>[2] = n
  /\ Index \in File
  /\ \A f \in File : f = Index \/ (f # Index /\ f[1] \in Release /\ f[2] \in Name /\ f = <<f[1], f[2]>>)
<1>1. \A r \in Release, n \in Name : <<r, n>> \in File /\ <<r, n>> # Index
  BY ReleaseAssumption DEF File
<1>2. \A f \in File : f = Index \/ (f # Index /\ f[1] \in Release /\ f[2] \in Name /\ f = <<f[1], f[2]>>)
  BY ReleaseAssumption DEF File
<1>3. QED
  BY <1>1, <1>2 DEF File

LEMMA WrittenAre ==
  /\ \A n \in Plain : Written(n) = {"text"}
  /\ Written("source") = Texts /\ Written("readme") = Texts
  /\ Written("contract") = 1..MaxRule
  /\ Written("api") = [by : {"batch", "upgrade"}, of : Texts \union {Empty}, about : 0..MaxRule]
  /\ \A n \in Name : Contents(n) = Gone \union Written(n) /\ Written(n) \cap Gone = {}
<1>1. \A n \in Name : Contents(n) = Gone \union Written(n)
  BY DEF Contents
<1>2. \A n \in Name : Written(n) \cap Gone = {}
  BY MarkAssumption
<1>3. QED
  BY <1>1, <1>2 DEF Written, Plain

LEMMA TextsAre ==
  /\ Own \in Texts /\ Own = Text("own", <<>>)
  /\ \A b \in {"own", "lost", "missing"}, k \in 1..MaxRule : Text(b, <<k>>) \in Texts
  /\ \A b, a : Text(b, a).base = b /\ Text(b, a).added = a
  /\ \A x \in Texts : x.base \in {"own", "lost", "missing"} /\ x \notin Gone
  /\ \A k : <<k>> # <<>>
<1>1. <<>> \in UNION {[1..n -> 1..MaxRule] : n \in 0..1}
  <2>1. <<>> \in [1..0 -> 1..MaxRule]
    OBVIOUS
  <2>2. QED
    BY <2>1
<1>2. \A k \in 1..MaxRule : <<k>> \in UNION {[1..n -> 1..MaxRule] : n \in 0..1}
  <2>1. \A k \in 1..MaxRule : <<k>> \in [1..1 -> 1..MaxRule]
    OBVIOUS
  <2>2. 1 \in 0..1
    OBVIOUS
  <2>3. QED
    BY <2>1, <2>2, Zenon
<1>3. \A x \in Texts : x \notin Gone
  <2>1. "source" \in Name
    BY DEF Name, Plain
  <2>2. QED
    BY <2>1, WrittenAre
<1>4. \A x \in Texts : x.base \in {"own", "lost", "missing"}
  BY DEF Texts
<1>5. \A b \in {"own", "lost", "missing"}, a \in UNION {[1..n -> 1..MaxRule] : n \in 0..1} :
        Text(b, a) \in Texts
  BY DEF Texts, Text
<1>6. \A b, a : Text(b, a).base = b /\ Text(b, a).added = a
  BY DEF Text
<1>7. \A k : <<k>> # <<>>
  OBVIOUS
<1>8. QED
  BY <1>1, <1>2, <1>3, <1>4, <1>5, <1>6, <1>7 DEF Own

(* What a text is after an upgrade, and that there is nothing to append to *)
(* one then.                                                               *)
LEMMA Appended ==
  ASSUME NEW x \in Texts \union {Absent, Empty}, NEW k \in 1..MaxRule
  PROVE  /\ Base(x) \in {"own", "lost", "missing"}
         /\ Text(Base(x), <<k>>) \in Texts
         /\ Added(Text(Base(x), <<k>>)) = <<k>> /\ <<k>> # <<>>
         /\ Base(Text(Base(x), <<k>>)) = Base(x)
         /\ Added(x) # <<>> => x \in Texts
<1>1. Base(x) \in {"own", "lost", "missing"}
  BY TextsAre DEF Base, Gone
<1>2. Text(Base(x), <<k>>) \in Texts /\ Text(Base(x), <<k>>) \notin Gone
  BY <1>1, TextsAre
<1>3. Added(Text(Base(x), <<k>>)) = <<k>> /\ <<k>> # <<>>
  BY <1>2, TextsAre DEF Added
<1>4. Base(Text(Base(x), <<k>>)) = Base(x)
  <2>1. \A y : y \notin Gone => Base(y) = y.base
    BY DEF Base, Gone
  <2>2. QED
    BY <1>2, <2>1, TextsAre
<1>5. Added(x) # <<>> => x \in Texts
  BY DEF Added, Gone
<1>6. QED
  BY <1>1, <1>2, <1>3, <1>4, <1>5

-----------------------------------------------------------------------------
(* The lists of files.                                                     *)

LEMMA UpgradePlan ==
  /\ UpgradeFiles \in Seq(Release \X UpgradeNames)
  /\ \A r \in Release, n \in UpgradeNames : \E i \in 1..Len(UpgradeFiles) : UpgradeFiles[i] = <<r, n>>
  /\ \A i \in 1..Len(UpgradeFiles) : UpgradeFiles[i][2] = "api" =>
        \E j \in 1..(i - 1) : UpgradeFiles[j] = <<UpgradeFiles[i][1], "source">>
<1> DEFINE ns == <<"source", "contract", "api", "readme">>
<1>1. Len(ns) = 4 /\ ns[1] = "source" /\ ns[2] = "contract" /\ ns[3] = "api" /\ ns[4] = "readme"
  OBVIOUS
<1>2. Len(Order) \in Nat /\ \A k \in 1..Len(Order) : Order[k] \in Release
  BY ReleaseAssumption
<1>3. \A r \in Release : \E k \in 1..Len(Order) : Order[k] = r
  BY ReleaseAssumption DEF Release
<1>4. UpgradeFiles = [k \in 1..(Len(Order) * 4) |->
                        <<Order[((k - 1) \div 4) + 1], ns[((k - 1) % 4) + 1]>>]
  BY <1>1 DEF UpgradeFiles, Each
<1> HIDE DEF ns
<1>5. \A k \in 1..(Len(Order) * 4) : ((k - 1) \div 4) + 1 \in 1..Len(Order) /\ ((k - 1) % 4) + 1 \in 1..4
  BY <1>2
<1>6. \A k \in 1..(Len(Order) * 4) : UpgradeFiles[k] \in Release \X UpgradeNames
  <2>1. \A k \in 1..4 : ns[k] \in UpgradeNames
    BY <1>1 DEF UpgradeNames
  <2>2. QED
    BY <1>2, <1>4, <1>5, <2>1
<1>7. UpgradeFiles \in [1..(Len(Order) * 4) -> Release \X UpgradeNames] /\ Len(Order) * 4 \in Nat
  BY <1>2, <1>4, <1>6
<1>8. UpgradeFiles \in Seq(Release \X UpgradeNames) /\ Len(UpgradeFiles) = Len(Order) * 4
  BY <1>7
<1>9. \A k \in 1..Len(Order), m \in 1..4 :
        4 * (k - 1) + m \in 1..(Len(Order) * 4) /\ UpgradeFiles[4 * (k - 1) + m] = <<Order[k], ns[m]>>
  <2> SUFFICES ASSUME NEW k \in 1..Len(Order), NEW m \in 1..4
               PROVE  4 * (k - 1) + m \in 1..(Len(Order) * 4)
                      /\ UpgradeFiles[4 * (k - 1) + m] = <<Order[k], ns[m]>>
    OBVIOUS
  <2> DEFINE i == 4 * (k - 1) + m
  <2>1. i \in 1..(Len(Order) * 4) /\ ((i - 1) \div 4) + 1 = k /\ ((i - 1) % 4) + 1 = m
    BY <1>2
  <2> HIDE DEF i
  <2>2. UpgradeFiles[i] = <<Order[k], ns[m]>>
    BY <1>4, <2>1
  <2>3. QED
    BY <2>1, <2>2 DEF i
<1>10. \A r \in Release, n \in UpgradeNames : \E i \in 1..Len(UpgradeFiles) : UpgradeFiles[i] = <<r, n>>
  <2> SUFFICES ASSUME NEW r \in Release, NEW n \in UpgradeNames
               PROVE  \E i \in 1..Len(UpgradeFiles) : UpgradeFiles[i] = <<r, n>>
    OBVIOUS
  <2>1. PICK k \in 1..Len(Order) : Order[k] = r
    BY <1>3
  <2>2. PICK m \in 1..4 : ns[m] = n
    BY <1>1 DEF UpgradeNames
  <2>3. QED
    BY <1>8, <1>9, <2>1, <2>2
<1>11. \A i \in 1..Len(UpgradeFiles) : UpgradeFiles[i][2] = "api" =>
          \E j \in 1..(i - 1) : UpgradeFiles[j] = <<UpgradeFiles[i][1], "source">>
  <2> SUFFICES ASSUME NEW i \in 1..Len(UpgradeFiles), UpgradeFiles[i][2] = "api"
               PROVE  \E j \in 1..(i - 1) : UpgradeFiles[j] = <<UpgradeFiles[i][1], "source">>
    OBVIOUS
  <2> DEFINE k == ((i - 1) \div 4) + 1
             m == ((i - 1) % 4) + 1
  <2>1. k \in 1..Len(Order) /\ m \in 1..4 /\ i = 4 * (k - 1) + m
    <3>1. i \in 1..(Len(Order) * 4)
      BY <1>8
    <3>2. QED
      BY <1>2, <3>1
  <2> HIDE DEF k, m
  <2>2. UpgradeFiles[i] = <<Order[k], ns[m]>>
    BY <1>9, <2>1
  <2>3. ns[m] = "api"
    BY <2>2
  <2>4. m # 1 /\ 1 \in 1..4
    BY <1>1, <2>3
  <2>5. UpgradeFiles[4 * (k - 1) + 1] = <<Order[k], ns[1]>> /\ UpgradeFiles[i][1] = Order[k]
    BY <1>9, <2>1, <2>2, <2>4
  <2>6. 4 * (k - 1) + 1 \in 1..(i - 1)
    BY <1>2, <2>1, <2>4
  <2>7. QED
    BY <1>1, <2>5, <2>6
<1>12. QED
  BY <1>8, <1>10, <1>11

LEMMA BatchPlan ==
  /\ BatchFiles \in Seq(File) /\ Len(BatchFiles) > 0 /\ BatchFiles[Len(BatchFiles)] = Index
  /\ \A i \in 1..(Len(BatchFiles) - 1) : BatchFiles[i] \in Batch \X BatchNames
  /\ \A r \in Batch, n \in BatchNames : \E i \in 1..(Len(BatchFiles) - 1) : BatchFiles[i] = <<r, n>>
<1> DEFINE ns == <<"manifest", "license", "source", "test", "api", "readme", "notes">>
           es == Each(Made, ns)
<1>1. /\ Len(ns) = 7 /\ ns[1] = "manifest" /\ ns[2] = "license" /\ ns[3] = "source"
      /\ ns[4] = "test" /\ ns[5] = "api" /\ ns[6] = "readme" /\ ns[7] = "notes"
  OBVIOUS
<1>2. /\ Len(Made) \in Nat /\ Batch \subseteq Release
      /\ \A k \in 1..Len(Made) : Made[k] \in Batch
      /\ \A r \in Batch : \E k \in 1..Len(Made) : Made[k] = r
  BY ReleaseAssumption DEF Batch
<1>3. es = [k \in 1..(Len(Made) * 7) |-> <<Made[((k - 1) \div 7) + 1], ns[((k - 1) % 7) + 1]>>]
  BY <1>1 DEF Each
<1>4. BatchFiles = es \o <<Index>>
  BY DEF BatchFiles
<1> HIDE DEF ns, es
<1>5. \A k \in 1..(Len(Made) * 7) : ((k - 1) \div 7) + 1 \in 1..Len(Made) /\ ((k - 1) % 7) + 1 \in 1..7
  BY <1>2
<1>6. \A k \in 1..(Len(Made) * 7) : es[k] \in Batch \X BatchNames
  <2>1. \A k \in 1..7 : ns[k] \in BatchNames
    BY <1>1 DEF BatchNames
  <2>2. QED
    BY <1>2, <1>3, <1>5, <2>1
<1>7. es \in [1..(Len(Made) * 7) -> Batch \X BatchNames] /\ Len(Made) * 7 \in Nat
  BY <1>2, <1>3, <1>6
<1>8. es \in Seq(Batch \X BatchNames) /\ Len(es) = Len(Made) * 7
  BY <1>7
<1>9. Batch \X BatchNames \subseteq File
  BY <1>2 DEF BatchNames, Name, Plain, File
<1>10. /\ BatchFiles \in Seq(File) /\ Len(BatchFiles) = Len(es) + 1
       /\ BatchFiles[Len(es) + 1] = Index
       /\ \A i \in 1..Len(es) : BatchFiles[i] = es[i]
  <2>1. es \in Seq(File) /\ <<Index>> \in Seq(File) /\ Len(<<Index>>) = 1 /\ <<Index>>[1] = Index
    BY <1>7, <1>9 DEF File
  <2> HIDE DEF File
  <2>2. QED
    BY <1>4, <1>8, <2>1
<1>11. \A r \in Batch, n \in BatchNames : \E i \in 1..Len(es) : es[i] = <<r, n>>
  <2> SUFFICES ASSUME NEW r \in Batch, NEW n \in BatchNames
               PROVE  \E i \in 1..Len(es) : es[i] = <<r, n>>
    OBVIOUS
  <2>1. PICK k \in 1..Len(Made) : Made[k] = r
    BY <1>2
  <2>2. PICK m \in 1..7 : ns[m] = n
    BY <1>1 DEF BatchNames
  <2> DEFINE i == 7 * (k - 1) + m
  <2>3. i \in 1..(Len(Made) * 7) /\ ((i - 1) \div 7) + 1 = k /\ ((i - 1) % 7) + 1 = m
    BY <1>2
  <2> HIDE DEF i
  <2>4. es[i] = <<r, n>>
    BY <1>3, <2>1, <2>2, <2>3
  <2>5. QED
    BY <1>8, <2>3, <2>4
<1>12. Len(es) \in Nat
  BY <1>8, <1>7
<1>13. Len(BatchFiles) > 0 /\ Len(BatchFiles) - 1 = Len(es)
  BY <1>10, <1>12
<1>14. BatchFiles[Len(BatchFiles)] = Index
  BY <1>10
<1>15. \A i \in 1..Len(es) : BatchFiles[i] \in Batch \X BatchNames
  BY <1>6, <1>8, <1>10
<1>16. \A r \in Batch, n \in BatchNames : \E i \in 1..Len(es) : BatchFiles[i] = <<r, n>>
  BY <1>10, <1>11
<1>17. QED
  BY <1>10, <1>13, <1>14, <1>15, <1>16, Zenon

-----------------------------------------------------------------------------
(* What an upgrade makes of a tree.                                        *)

IsTree(t) == /\ t = [f \in File |-> t[f]]
             /\ \A r \in Release, n \in Name : t[<<r, n>>] \in Contents(n)

(* The contents of the files of a tree that the tools look at.             *)
LEMMA TreeParts ==
  ASSUME NEW t, IsTree(t), NEW r \in Release
  PROVE  /\ t[<<r, "source">>] \in Texts \union {Absent, Empty}
         /\ t[<<r, "readme">>] \in Texts \union {Absent, Empty}
<1>1. {"source", "readme"} \subseteq Name
  BY DEF Name, Plain
<1>2. QED
  BY <1>1, WrittenAre DEF IsTree, Gone

LEMMA UpgradeNamesAre ==
  /\ UpgradeNames \subseteq Name /\ BatchNames = Name \ {"contract"}
  /\ \A r \in Release, n \in UpgradeNames :
        <<r, n>> \in File /\ <<r, n>> # Index /\ <<r, n>>[1] = r /\ <<r, n>>[2] = n
<1>1. UpgradeNames \subseteq Name /\ BatchNames = Name \ {"contract"}
  BY DEF UpgradeNames, BatchNames, Name, Plain
<1>2. QED
  BY <1>1, FileParts

(* What is written is a content of the file, and no more damaged than it.  *)
LEMMA ResultWritten ==
  ASSUME NEW t, IsTree(t), NEW k \in 1..MaxRule, NEW r \in Release, NEW n \in UpgradeNames,
         t[<<r, "source">>] # Absent, t[<<r, n>>] # Result(t, k, r, n)
  PROVE  /\ Result(t, k, r, n) \in Written(n)
         /\ n \in {"source", "readme"} => Base(Result(t, k, r, n)) = Base(t[<<r, n>>])
<1>1. 1 \in 1..MaxRule /\ MaxRule \in Nat
  BY ReleaseAssumption
<1>2. CASE n = "source"
  BY <1>2, TreeParts, Appended, WrittenAre DEF Result
<1>3. CASE n = "contract"
  BY <1>3, WrittenAre DEF Result
<1>4. CASE n = "api"
  <2>1. (IF r \in Ruled THEN k ELSE 0) \in 0..MaxRule
    BY <1>1
  <2>2. t[<<r, "source">>] \in Texts \union {Empty}
    BY TreeParts
  <2>3. QED
    BY <1>4, <2>1, <2>2, WrittenAre DEF Result
<1>5. CASE n = "readme"
  BY <1>1, <1>5, TreeParts, Appended, WrittenAre DEF Result
<1>6. QED
  BY <1>2, <1>3, <1>4, <1>5 DEF UpgradeNames

(* A file has its new content in the tree that is written, and every other *)
(* its old one.                                                            *)
LEMMA Rewritten ==
  ASSUME NEW t, t = [f \in File |-> t[f]], NEW g \in File, NEW v
  PROVE  LET u == [t EXCEPT ![g] = v] IN
         /\ u = [f \in File |-> u[f]] /\ u[g] = v
         /\ \A f \in File \ {g} : u[f] = t[f]
<1>1. DOMAIN t = File
  BY Zenon
<1>2. QED
  BY <1>1

LEMMA SkipsSame ==
  ASSUME NEW t, NEW u, NEW f \in File,
         \A r \in Release : u[<<r, "manifest">>] = t[<<r, "manifest">>]
  PROVE  Skips(u, f) = Skips(t, f)
BY FileParts DEF Skips

(* What a file comes to depends on its own content and on the source.      *)
LEMMA ResultSame ==
  ASSUME NEW t, NEW u, NEW k, NEW r, NEW n \in UpgradeNames,
         n \in {"source", "readme"} => u[<<r, n>>] = t[<<r, n>>],
         n = "api" => u[<<r, "source">>] = t[<<r, "source">>]
  PROVE  Result(u, k, r, n) = Result(t, k, r, n)
BY DEF Result, UpgradeNames

(* Nothing remains to be done to a file that has been written.             *)
LEMMA ResultOnce ==
  ASSUME NEW t, IsTree(t), NEW k \in 1..MaxRule, NEW r \in Release, NEW n \in UpgradeNames, NEW u,
         u[<<r, n>>] = Result(t, k, r, n),
         n # "source" => u[<<r, "source">>] = t[<<r, "source">>]
  PROVE  Result(u, k, r, n) = Result(t, k, r, n)
<1>1. 1 \in 1..MaxRule
  BY ReleaseAssumption
<1>2. CASE n = "source"
  BY <1>2, TreeParts, Appended DEF Result
<1>3. CASE n = "contract"
  BY <1>3 DEF Result
<1>4. CASE n = "api"
  BY <1>4 DEF Result
<1>5. CASE n = "readme"
  BY <1>1, <1>5, TreeParts, Appended DEF Result
<1>6. QED
  BY <1>2, <1>3, <1>4, <1>5 DEF UpgradeNames

(* Writing a file leaves the clean ones clean, but for the API made of the *)
(* source that is written.                                                 *)
LEMMA CleanStays ==
  ASSUME NEW t, IsTree(t), NEW k \in 1..MaxRule, NEW r \in Release, NEW n \in UpgradeNames,
         NEW q \in Release, NEW m \in UpgradeNames,
         ~(q = r /\ n = "source" /\ m = "api"),
         Clean(t, k, <<q, m>>) \/ <<q, m>> = <<r, n>>
  PROVE  Clean([t EXCEPT ![<<r, n>>] = Result(t, k, r, n)], k, <<q, m>>)
<1> DEFINE f == <<r, n>>
           g == <<q, m>>
           u == [t EXCEPT ![f] = Result(t, k, r, n)]
<1>1. /\ f \in File /\ g \in File /\ u[f] = Result(t, k, r, n)
      /\ \A h \in File \ {f} : u[h] = t[h]
  BY UpgradeNamesAre, Rewritten DEF IsTree
<1>2. /\ g[1] = q /\ g[2] = m /\ f[1] = r /\ f[2] = n
      /\ \A p \in Release : <<p, "manifest">> \in File \ {f} /\ <<p, "source">> \in File
  BY FileParts DEF UpgradeNames, Name, Plain
<1>3. \A p \in Release : <<p, "source">> = f => p = r /\ n = "source"
  OBVIOUS
<1> SUFFICES Clean(u, k, g)
  OBVIOUS
<1> HIDE DEF u
<1>4. Skips(u, g) = Skips(t, g)
  BY <1>1, <1>2, SkipsSame
<1>5. CASE g = f
  <2>1. q = r /\ m = n
    BY <1>5
  <2>2. n # "source" => u[<<r, "source">>] = t[<<r, "source">>]
    BY <1>1, <1>2, <1>3
  <2>3. Result(u, k, r, n) = Result(t, k, r, n)
    BY <1>1, <2>2, ResultOnce
  <2>4. QED
    BY <1>1, <1>2, <1>5, <2>1, <2>3 DEF Clean
<1>6. CASE g # f
  <2>1. u[g] = t[g]
    BY <1>1, <1>6
  <2>2. m = "api" => u[<<q, "source">>] = t[<<q, "source">>]
    BY <1>1, <1>2, <1>3
  <2>3. Result(u, k, q, m) = Result(t, k, q, m)
    BY <2>1, <2>2, ResultSame
  <2>4. QED
    BY <1>2, <1>4, <1>6, <2>1, <2>3 DEF Clean
<1>7. QED
  BY <1>5, <1>6

(* Nor does it change what the upgrade comes to.                           *)
LEMMA FinalSame ==
  ASSUME NEW t, IsTree(t), NEW k \in 1..MaxRule, NEW r \in Release, NEW n \in UpgradeNames,
         ~Skips(t, <<r, n>>)
  PROVE  Final([t EXCEPT ![<<r, n>>] = Result(t, k, r, n)], k) = Final(t, k)
<1> DEFINE f == <<r, n>>
           v == Result(t, k, r, n)
           u == [t EXCEPT ![f] = v]
           st == Sourced(t, k)
           su == Sourced(u, k)
<1>1. f \in File /\ u[f] = v /\ \A h \in File \ {f} : u[h] = t[h]
  BY UpgradeNamesAre, Rewritten DEF IsTree
<1>2. /\ f # Index /\ f[1] = r /\ f[2] = n
      /\ \A p \in Release : <<p, "manifest">> \in File \ {f} /\ <<p, "source">> \in File
  <2>1. {"manifest", "source"} \subseteq Name /\ "manifest" \notin UpgradeNames
    BY DEF UpgradeNames, Name, Plain
  <2>2. \A p \in Release : <<p, "manifest">> # f
    BY <2>1
  <2>3. QED
    BY <2>1, <2>2, FileParts, UpgradeNamesAre
<1>a. \A p \in Release : <<p, "source">> = f => p = r /\ n = "source"
  OBVIOUS
<1> SUFFICES Final(u, k) = Final(t, k)
  OBVIOUS
<1> HIDE DEF u, f
<1>3. \A g \in File : Skips(u, g) = Skips(t, g)
  BY <1>1, <1>2, SkipsSame
<1>4. \A g \in File : /\ g = Index \/ g[2] # "source" \/ Skips(t, g) => st[g] = t[g] /\ su[g] = u[g]
                      /\ g # Index /\ g[2] = "source" /\ ~Skips(t, g) =>
                            st[g] = Result(t, k, g[1], "source") /\ su[g] = Result(u, k, g[1], "source")
  BY <1>3 DEF Sourced
<1>5. \A g \in File \ {f} : su[g] = st[g]
  <2> SUFFICES ASSUME NEW g \in File \ {f}
               PROVE  su[g] = st[g]
    OBVIOUS
  <2>1. CASE g # Index /\ g[2] = "source" /\ ~Skips(t, g)
    <3>1. g = <<g[1], "source">> /\ "source" \in UpgradeNames
      BY <2>1, FileParts DEF UpgradeNames
    <3>2. u[<<g[1], "source">>] = t[<<g[1], "source">>]
      BY <1>1, <3>1
    <3>3. Result(u, k, g[1], "source") = Result(t, k, g[1], "source")
      BY <3>1, <3>2, ResultSame
    <3>4. QED
      BY <1>4, <2>1, <3>3
  <2>2. CASE ~(g # Index /\ g[2] = "source" /\ ~Skips(t, g))
    BY <1>1, <1>4, <2>2
  <2>3. QED
    BY <2>1, <2>2
<1>6. n = "source" => su[f] = st[f]
  <2> SUFFICES ASSUME n = "source"
               PROVE  su[f] = st[f]
    OBVIOUS
  <2>1. Result(u, k, r, n) = Result(t, k, r, n)
    BY <1>1, ResultOnce DEF f
  <2>2. QED
    BY <1>1, <1>2, <1>4, <2>1 DEF f
<1>7. n # "source" => su[f] = v /\ st[f] = t[f]
  BY <1>1, <1>2, <1>4
<1>8. \A g \in File : Skips(su, g) = Skips(u, g) /\ Skips(st, g) = Skips(t, g)
  <2>1. \A p \in Release : /\ su[<<p, "manifest">>] = u[<<p, "manifest">>]
                           /\ st[<<p, "manifest">>] = t[<<p, "manifest">>]
    BY <1>2, <1>4
  <2>2. QED
    BY <2>1, SkipsSame
<1> HIDE DEF st, su
<1>9. \A g \in File \ {f}, m \in {"contract", "api", "readme"} :
        g = <<g[1], m>> /\ g[1] \in Release => Result(su, k, g[1], m) = Result(st, k, g[1], m)
  <2> SUFFICES ASSUME NEW g \in File \ {f}, NEW m \in {"contract", "api", "readme"},
                      g = <<g[1], m>>, g[1] \in Release
               PROVE  Result(su, k, g[1], m) = Result(st, k, g[1], m)
    OBVIOUS
  <2>1. m \in UpgradeNames /\ su[<<g[1], m>>] = st[<<g[1], m>>]
    BY <1>5 DEF UpgradeNames
  <2>2. su[<<g[1], "source">>] = st[<<g[1], "source">>]
    BY <1>2, <1>5, <1>6, <1>a
  <2>3. QED
    BY <2>1, <2>2, ResultSame
<1>10. n # "source" => Result(su, k, r, n) = Result(st, k, r, n)
  <2> SUFFICES ASSUME n # "source"
               PROVE  Result(su, k, r, n) = Result(st, k, r, n)
    OBVIOUS
  <2>1. su[<<r, "source">>] = st[<<r, "source">>]
    BY <1>2, <1>5, <1>a
  <2>2. CASE n = "readme"
    <3>1. st[<<r, n>>] = t[<<r, n>>] /\ su[<<r, n>>] = v
      BY <1>7, <2>2 DEF f
    <3>2. Result(st, k, r, n) = v /\ Result(su, k, r, n) = v
      <4>1. Result(st, k, r, n) = v
        BY <2>2, <3>1 DEF Result
      <4>2. 1 \in 1..MaxRule
        BY ReleaseAssumption
      <4>3. Result(su, k, r, n) = v
        BY <2>2, <3>1, <4>2, TreeParts, Appended DEF Result
      <4>4. QED
        BY <4>1, <4>3
    <3>3. QED
      BY <3>2
  <2>3. CASE n \in {"contract", "api"}
    BY <2>1, <2>3, ResultSame
  <2>4. QED
    BY <2>2, <2>3 DEF UpgradeNames
<1>11. \A g \in File : Described(su, k)[g] = Described(st, k)[g]
  <2> SUFFICES ASSUME NEW g \in File
               PROVE  Described(su, k)[g] = Described(st, k)[g]
    OBVIOUS
  <2> DEFINE writes == g # Index /\ g[2] \in {"contract", "api", "readme"} /\ ~Skips(t, g)
  <2>1. /\ writes => /\ Described(su, k)[g] = Result(su, k, g[1], g[2])
                     /\ Described(st, k)[g] = Result(st, k, g[1], g[2])
        /\ ~writes => Described(su, k)[g] = su[g] /\ Described(st, k)[g] = st[g]
    BY <1>3, <1>8 DEF Described
  <2>2. CASE g # f
    <3>1. su[g] = st[g]
      BY <1>5, <2>2
    <3>2. writes => Result(su, k, g[1], g[2]) = Result(st, k, g[1], g[2])
      BY <1>9, <2>2, FileParts
    <3>3. QED
      BY <2>1, <3>1, <3>2
  <2>3. CASE g = f /\ n # "source"
    <3>1. writes
      BY <1>2, <2>3 DEF UpgradeNames, f
    <3>2. QED
      BY <1>2, <1>10, <2>1, <2>3, <3>1
  <2>4. CASE g = f /\ n = "source"
    BY <1>2, <1>6, <2>1, <2>4
  <2>5. QED
    BY <2>2, <2>3, <2>4
<1>12. Described(su, k) = Described(st, k)
  BY <1>11 DEF Described
<1>13. QED
  BY <1>12 DEF Final, su, st

(* A tree with nothing but clean files is what an upgrade makes of it.     *)
LEMMA CleanIsFinal ==
  ASSUME NEW t, IsTree(t), NEW k, \A f \in Release \X UpgradeNames : Clean(t, k, f)
  PROVE  Final(t, k) = t
<1>1. \A f \in File : f # Index /\ f[2] \in UpgradeNames => Clean(t, k, f)
  <2>1. \A f \in File : f # Index /\ f[2] \in UpgradeNames => f \in Release \X UpgradeNames
    BY FileParts
  <2>2. QED
    BY <2>1
<1>2. \A f \in File : Sourced(t, k)[f] = t[f]
  BY <1>1 DEF Sourced, Clean, UpgradeNames
<1>3. Sourced(t, k) = t
  BY <1>2 DEF Sourced, IsTree
<1>4. \A f \in File : Described(t, k)[f] = t[f]
  BY <1>1 DEF Described, Clean, UpgradeNames
<1>5. Described(t, k) = t
  BY <1>4 DEF Described, IsTree
<1>6. QED
  BY <1>3, <1>5 DEF Final

(* The same, with the arguments of the model.                              *)
LEMMA UpgradedIs ==
  /\ \A r \in Release, n \in UpgradeNames : UpgradedBody(disk, <<r, n>>) = Result(disk, rules, r, n)
  /\ Upgraded(disk) = Final(disk, rules)
<1>1. ASSUME NEW t, NEW r \in Release, NEW n \in UpgradeNames
      PROVE  UpgradedBody(t, <<r, n>>) = Result(t, rules, r, n)
  <2>1. <<r, n>>[1] = r /\ <<r, n>>[2] = n
    OBVIOUS
  <2>2. CASE n = "source"
    BY <2>1, <2>2 DEF UpgradedBody, UpgradedSource, Result
  <2>3. CASE n = "contract"
    BY <2>1, <2>3 DEF UpgradedBody, Result
  <2>4. CASE n = "api"
    BY <2>1, <2>4 DEF UpgradedBody, exportNames, Result
  <2>5. CASE n = "readme"
    BY <2>1, <2>5 DEF UpgradedBody, Result
  <2>6. QED
    BY <2>2, <2>3, <2>4, <2>5 DEF UpgradeNames
<1>2. ASSUME NEW t, NEW f \in File, f # Index, f[2] \in UpgradeNames
      PROVE  UpgradedBody(t, f) = Result(t, rules, f[1], f[2])
  <2>1. f = <<f[1], f[2]>> /\ f[1] \in Release
    BY <1>2, FileParts
  <2>2. UpgradedBody(t, <<f[1], f[2]>>) = Result(t, rules, f[1], f[2])
    BY <1>1, <1>2, <2>1
  <2>3. QED
    BY <2>1, <2>2
<1>3. {"source", "contract", "api", "readme"} = UpgradeNames
  BY DEF UpgradeNames
<1> DEFINE s == [f \in File |-> IF f # Index /\ f[2] = "source" /\ ~Skips(disk, f)
                               THEN UpgradedBody(disk, f) ELSE disk[f]]
<1>4. s = Sourced(disk, rules)
  <2>1. \A f \in File : s[f] = Sourced(disk, rules)[f]
    BY <1>2, <1>3 DEF Sourced
  <2>2. QED
    BY <2>1 DEF Sourced
<1>5. Upgraded(disk) = [f \in File |-> IF f # Index /\ f[2] \in {"contract", "api", "readme"} /\ ~Skips(s, f)
                                      THEN UpgradedBody(s, f) ELSE s[f]]
  BY DEF Upgraded
<1> HIDE DEF s
<1>6. Upgraded(disk) = Described(s, rules)
  <2>1. \A f \in File : Upgraded(disk)[f] = Described(s, rules)[f]
    BY <1>2, <1>3, <1>5 DEF Described
  <2>2. QED
    BY <1>5, <2>1 DEF Described
<1>7. QED
  BY <1>1, <1>4, <1>6 DEF Final

-----------------------------------------------------------------------------
(* Where a tool is in its plan.                                            *)

LEMMA PlanTyped ==
  /\ Plan \in Seq(File) /\ Len(Plan) \in Nat
  /\ \A i \in 1..Len(Plan) : Plan[i] \in File
<1>1. UpgradeFiles \in Seq(File)
  <2>1. Release \X UpgradeNames \subseteq File
    BY UpgradeNamesAre DEF File
  <2>2. UpgradeFiles \in Seq(Release \X UpgradeNames)
    BY UpgradePlan
  <2> HIDE DEF File
  <2>3. QED
    BY <2>1, <2>2
<1>2. BatchFiles \in Seq(File)
  BY BatchPlan
<1>3. Plan \in Seq(File)
  BY <1>1, <1>2 DEF Plan
<1>4. QED
  BY <1>3

LEMMA AtHead ==
  ASSUME ShapeOK, tool # "none", todo \in Seq(File), todo # <<>>
  PROVE  LET k == Len(Plan) - Len(todo) + 1 IN
         /\ k \in 1..Len(Plan) /\ Head(todo) = Plan[k] /\ Head(todo) \in File
         /\ Left = {Plan[i] : i \in 1..(k - 1)}
<1>1. Len(todo) \in Nat /\ Len(todo) > 0 /\ Head(todo) = todo[1]
  OBVIOUS
<1>2. Len(todo) <= Len(Plan) /\ \A i \in 1..Len(todo) : todo[i] = Plan[Len(Plan) - Len(todo) + i]
  BY DEF ShapeOK
<1> DEFINE k == Len(Plan) - Len(todo) + 1
<1>3. k \in 1..Len(Plan) /\ Len(Plan) - Len(todo) = k - 1 /\ 1 \in 1..Len(todo)
  BY <1>1, <1>2, PlanTyped
<1>4. todo[1] = Plan[k]
  BY <1>2, <1>3
<1>5. Plan[k] \in File
  BY <1>3, PlanTyped
<1> HIDE DEF k
<1>6. Left = {Plan[i] : i \in 1..(k - 1)}
  BY <1>3 DEF Left
<1>7. QED
  BY <1>1, <1>3, <1>4, <1>5, <1>6 DEF k

(* The file that the tool has done is left behind.                         *)
LEMMA Advances ==
  ASSUME ShapeOK, tool # "none", todo \in Seq(File), todo # <<>>,
         tool' = tool, todo' = Tail(todo)
  PROVE  /\ todo' \in Seq(File) /\ Plan' = Plan /\ Left' = Left \union {Head(todo)}
         /\ Len(todo') <= Len(Plan')
         /\ \A i \in 1..Len(todo') : todo'[i] = Plan'[Len(Plan') - Len(todo') + i]
<1> DEFINE k == Len(Plan) - Len(todo) + 1
<1>1. Plan' = Plan
  BY DEF Plan
<1>2. /\ Len(todo) \in Nat /\ Len(todo) > 0 /\ Len(Plan) \in Nat
      /\ todo' \in Seq(File) /\ Len(todo') = Len(todo) - 1
      /\ \A i \in 1..Len(todo') : todo'[i] = todo[i + 1]
  BY PlanTyped
<1>3. Len(todo) <= Len(Plan) /\ \A i \in 1..Len(todo) : todo[i] = Plan[Len(Plan) - Len(todo) + i]
  BY DEF ShapeOK
<1>4. k \in 1..Len(Plan) /\ Head(todo) = Plan[k] /\ Left = {Plan[i] : i \in 1..(k - 1)}
  BY AtHead
<1>5. Len(Plan) - Len(todo') = k
  BY <1>2
<1> HIDE DEF k
<1>6. Left' = {Plan[i] : i \in 1..k}
  BY <1>1, <1>5 DEF Left
<1>7. \A i : i \in 1..k <=> i \in 1..(k - 1) \/ i = k
  BY <1>2, <1>4
<1>8. Left' = Left \union {Head(todo)}
  BY <1>4, <1>6, <1>7
<1>9. \A i \in 1..Len(todo') : todo'[i] = Plan[k + i]
  <2> SUFFICES ASSUME NEW i \in 1..Len(todo')
               PROVE  todo'[i] = Plan[k + i]
    OBVIOUS
  <2>1. i + 1 \in 1..Len(todo) /\ Len(Plan) - Len(todo) + (i + 1) = k + i
    BY <1>2 DEF k
  <2>2. QED
    BY <1>2, <1>3, <2>1
<1>10. Len(todo') <= Len(Plan)
  BY <1>2, <1>3
<1>11. QED
  BY <1>1, <1>2, <1>5, <1>8, <1>9, <1>10

(* The files that an upgrade or a check is at and has left behind.         *)
LEMMA UpgradeAt ==
  ASSUME ShapeOK, tool \in {"upgrade", "check"}, todo \in Seq(File)
  PROVE  /\ Left \subseteq Release \X UpgradeNames
         /\ \A r \in Release : <<r, "api">> \in Left => <<r, "source">> \in Left
         /\ todo # <<>> => Head(todo) \in Release \X UpgradeNames
         /\ todo = <<>> => Release \X UpgradeNames \subseteq Left
<1>1. Plan = UpgradeFiles /\ tool # "none"
  BY DEF Plan
<1>2. /\ Len(UpgradeFiles) \in Nat /\ Len(todo) \in Nat /\ Len(todo) <= Len(UpgradeFiles)
      /\ \A i \in 1..Len(UpgradeFiles) : UpgradeFiles[i] \in Release \X UpgradeNames
  BY <1>1, PlanTyped, UpgradePlan DEF ShapeOK
<1> DEFINE l == Len(UpgradeFiles) - Len(todo)
<1>3. l \in Nat /\ l <= Len(UpgradeFiles) /\ 1..l \subseteq 1..Len(UpgradeFiles)
  BY <1>2
<1>4. Left = {UpgradeFiles[i] : i \in 1..l}
  BY <1>1 DEF Left
<1> HIDE DEF l
<1>5. Left \subseteq Release \X UpgradeNames
  BY <1>2, <1>3, <1>4
<1>6. ASSUME NEW r \in Release, <<r, "api">> \in Left
      PROVE  <<r, "source">> \in Left
  <2>1. PICK i \in 1..l : UpgradeFiles[i] = <<r, "api">>
    BY <1>4, <1>6
  <2>2. UpgradeFiles[i][1] = r /\ UpgradeFiles[i][2] = "api" /\ i \in 1..Len(UpgradeFiles)
    BY <1>3, <2>1
  <2>3. PICK j \in 1..(i - 1) : UpgradeFiles[j] = <<UpgradeFiles[i][1], "source">>
    BY <2>2, UpgradePlan
  <2>4. j \in 1..l
    BY <1>3, <2>3
  <2>5. QED
    BY <1>4, <2>2, <2>3, <2>4
<1>7. ASSUME todo # <<>>
      PROVE  Head(todo) \in Release \X UpgradeNames
  <2>1. Len(UpgradeFiles) - Len(todo) + 1 \in 1..Len(UpgradeFiles)
        /\ Head(todo) = UpgradeFiles[Len(UpgradeFiles) - Len(todo) + 1]
    BY <1>1, <1>7, AtHead
  <2>2. QED
    BY <1>2, <2>1
<1>8. ASSUME todo = <<>>
      PROVE  Release \X UpgradeNames \subseteq Left
  <2>1. l = Len(UpgradeFiles)
    BY <1>2, <1>8 DEF l
  <2>2. \A f \in Release \X UpgradeNames : \E i \in 1..l : UpgradeFiles[i] = f
    BY <2>1, UpgradePlan
  <2>3. QED
    BY <1>4, <2>2
<1>9. QED
  BY <1>5, <1>6, <1>7, <1>8

(* The same, of the generator: it comes to the index last.                 *)
LEMMA BatchAt ==
  ASSUME ShapeOK, tool = "batch", todo \in Seq(File)
  PROVE  /\ Batch \subseteq Release
         /\ todo # <<>> => Head(todo) = Index \/ Head(todo) \in Batch \X BatchNames
         /\ todo = <<>> \/ Head(todo) = Index => Batch \X BatchNames \subseteq Left
         /\ todo = <<>> => Index \in Left
<1> DEFINE n == Len(BatchFiles)
           l == n - Len(todo)
<1>1. Plan = BatchFiles /\ tool # "none" /\ Batch \subseteq Release
  BY ReleaseAssumption DEF Plan, Batch
<1>2. n \in Nat /\ n > 0 /\ Len(todo) \in Nat /\ Len(todo) <= n
  BY <1>1, PlanTyped, BatchPlan DEF ShapeOK
<1>3. /\ BatchFiles[n] = Index
      /\ \A i \in 1..(n - 1) : BatchFiles[i] \in Batch \X BatchNames
      /\ \A f \in Batch \X BatchNames : \E i \in 1..(n - 1) : BatchFiles[i] = f
  <2> SUFFICES ASSUME NEW f \in Batch \X BatchNames
               PROVE  \E i \in 1..(n - 1) : BatchFiles[i] = f
    BY BatchPlan
  <2>1. PICK r \in Batch, m \in BatchNames : f = <<r, m>>
    OBVIOUS
  <2>2. QED
    BY <2>1, BatchPlan
<1>4. Left = {BatchFiles[i] : i \in 1..l}
  BY <1>1 DEF Left
<1>5. todo # <<>> => l + 1 \in 1..n /\ Head(todo) = BatchFiles[l + 1]
  BY <1>1, AtHead
<1>6. l \in Nat /\ l <= n /\ (todo = <<>> => l = n)
  BY <1>2
<1>7. Index \notin Batch \X BatchNames
  BY <1>1, FileParts, UpgradeNamesAre
<1> HIDE DEF l, n
<1>8. todo # <<>> => Head(todo) = Index \/ Head(todo) \in Batch \X BatchNames
  <2>1. \A i \in 1..n : i = n \/ i \in 1..(n - 1)
    BY <1>2 DEF n
  <2>2. QED
    BY <1>3, <1>5, <2>1
<1>9. ASSUME todo = <<>> \/ Head(todo) = Index
      PROVE  Batch \X BatchNames \subseteq Left
  <2>1. 1..(n - 1) \subseteq 1..l
    <3>1. CASE todo = <<>>
      BY <1>2, <1>6, <3>1 DEF n
    <3>2. CASE todo # <<>>
      <4>1. l + 1 \notin 1..(n - 1)
        BY <1>3, <1>5, <1>7, <1>9, <3>2
      <4>2. l + 1 = n
        BY <1>2, <1>5, <1>6, <3>2, <4>1 DEF n
      <4>3. QED
        BY <1>6, <4>2
    <3>3. QED
      BY <3>1, <3>2
  <2>2. \A f \in Batch \X BatchNames : \E i \in 1..l : BatchFiles[i] = f
    BY <1>3, <2>1
  <2>3. QED
    BY <1>4, <2>2
<1>10. todo = <<>> => Index \in Left
  <2>1. n \in 1..n
    BY <1>2 DEF n
  <2>2. QED
    BY <1>3, <1>4, <1>6, <2>1
<1>11. QED
  BY <1>1, <1>8, <1>9, <1>10

-----------------------------------------------------------------------------
(* The steps.                                                              *)

LEMMA TreeIs ==
  ASSUME ToolTypeOK, ShapeOK
  PROVE  IsTree(disk) /\ rules \in 1..MaxRule /\ todo \in Seq(File) /\ listed \subseteq Release
BY DEF ToolTypeOK, ShapeOK, IsTree

(* What the generator writes.                                              *)
LEMMA Products ==
  ASSUME NEW l, l \subseteq Release, Batch \subseteq Release
  PROVE  /\ Product(l, Index) = l \union Batch /\ Product(l, Index) \subseteq Release
         /\ Product(l, Index) \notin Gone
         /\ \A f \in Batch \X BatchNames :
              /\ f # Index /\ f[2] \in Name /\ f[2] # "contract"
              /\ Product(l, f) \in Written(f[2]) /\ Product(l, f) \notin Gone
              /\ f[2] \in {"source", "readme"} => Product(l, f) = Own
              /\ f[2] = "api" => Product(l, f).of = Own
<1>1. Product(l, Index) = l \union Batch /\ Product(l, Index) \subseteq Release
  BY DEF Product
<1>2. Product(l, Index) \notin Gone
  BY <1>1, MarkAssumption
<1>3. ASSUME NEW r \in Batch, NEW n \in BatchNames
      PROVE  /\ <<r, n>> # Index /\ <<r, n>>[2] = n /\ n \in Name /\ n # "contract"
             /\ Product(l, <<r, n>>) \in Written(n) /\ Product(l, <<r, n>>) \notin Gone
             /\ n \in {"source", "readme"} => Product(l, <<r, n>>) = Own
             /\ n = "api" => Product(l, <<r, n>>).of = Own
  <2>1. n \in Name /\ n # "contract" /\ <<r, n>> # Index /\ <<r, n>>[2] = n
    BY FileParts, UpgradeNamesAre
  <2>2. n \in Plain => Product(l, <<r, n>>) = "text"
    BY <2>1 DEF Product, Plain
  <2>3. n \in {"source", "readme"} => Product(l, <<r, n>>) = Own
    BY <2>1 DEF Product, Plain
  <2>4. n = "api" => Product(l, <<r, n>>) = [by |-> "batch", of |-> Own, about |-> 0]
    BY <2>1 DEF Product, Plain
  <2>5. [by |-> "batch", of |-> Own, about |-> 0] \in Written("api")
    <3>1. 0 \in 0..MaxRule /\ Own \in Texts \union {Empty}
      BY ReleaseAssumption, TextsAre
    <3>2. QED
      BY <3>1, WrittenAre
  <2>6. Product(l, <<r, n>>) \in Written(n)
    <3>1. n \in Plain \/ n \in {"source", "readme", "api"}
      BY DEF BatchNames, Plain
    <3>2. QED
      BY <2>2, <2>3, <2>4, <2>5, <3>1, WrittenAre, TextsAre
  <2>7. Product(l, <<r, n>>) \notin Gone
    BY <2>1, <2>6, WrittenAre
  <2>8. QED
    BY <2>1, <2>3, <2>4, <2>6, <2>7
<1>4. QED
  BY <1>1, <1>2, <1>3

LEMMA Starts == Init => IInv
<1> SUFFICES ASSUME Init PROVE IInv
  OBVIOUS
<1>1. /\ disk[Index] = Release \ Batch
      /\ \A r \in Batch, n \in Name : disk[<<r, n>>] = Absent
      /\ \A r \in Release \ Batch :
            /\ \A n \in Plain : disk[<<r, n>>] = "text"
            /\ disk[<<r, "source">>] = Own /\ disk[<<r, "readme">>] = Own
            /\ disk[<<r, "contract">>] = Absent /\ disk[<<r, "api">>] = Absent
      /\ disk = [f \in File |-> disk[f]]
  <2> DEFINE d(f) == IF f = Index THEN Release \ Batch
                     ELSE IF f[1] \in Batch THEN Absent
                     ELSE CASE f[2] \in Plain -> "text"
                            [] f[2] \in {"source", "readme"} -> Own
                            [] f[2] \in {"contract", "api"} -> Absent
  <2>1. disk = [f \in File |-> d(f)]
    BY DEF Init
  <2>2. \A r \in Release, n \in Name : <<r, n>> \in File /\ <<r, n>> # Index /\ <<r, n>>[1] = r /\ <<r, n>>[2] = n
    BY FileParts
  <2>3. Batch \subseteq Release /\ Index \in File
    BY ReleaseAssumption, FileParts DEF Batch
  <2>4. \A r \in Release \ Batch, n \in Name :
          disk[<<r, n>>] = CASE n \in Plain -> "text"
                            [] n \in {"source", "readme"} -> Own
                            [] n \in {"contract", "api"} -> Absent
    BY <2>1, <2>2
  <2>5. \A r \in Batch, n \in Name : disk[<<r, n>>] = Absent
    BY <2>1, <2>2, <2>3
  <2>6. d(Index) = Release \ Batch
    OBVIOUS
  <2> HIDE DEF d
  <2>7. disk[Index] = Release \ Batch /\ disk = [f \in File |-> disk[f]]
    BY <2>1, <2>3, <2>6
  <2>8. \A r \in Release \ Batch :
            /\ \A n \in Plain : disk[<<r, n>>] = "text"
            /\ disk[<<r, "source">>] = Own /\ disk[<<r, "readme">>] = Own
            /\ disk[<<r, "contract">>] = Absent /\ disk[<<r, "api">>] = Absent
    BY <2>4 DEF Name, Plain
  <2>9. QED
    BY <2>5, <2>7, <2>8
<1>2. \A r \in Release, n \in Name : disk[<<r, n>>] \in Contents(n) /\ disk[<<r, n>>] # Empty
  <2> SUFFICES ASSUME NEW r \in Release, NEW n \in Name
               PROVE  disk[<<r, n>>] \in Contents(n) /\ disk[<<r, n>>] # Empty
    OBVIOUS
  <2>1. Absent \in Gone /\ Absent # Empty /\ Empty \in Gone
    BY ReleaseAssumption DEF Gone
  <2>2. "text" \notin Gone /\ Own \notin Gone
    BY WrittenAre, TextsAre DEF Name, Plain
  <2>3. CASE r \in Batch
    BY <1>1, <2>1, <2>3, WrittenAre
  <2>4. CASE r \notin Batch
    <3>1. n \in Plain => disk[<<r, n>>] = "text" /\ Written(n) = {"text"}
      BY <1>1, <2>4, WrittenAre
    <3>2. n \in {"source", "readme"} => disk[<<r, n>>] = Own /\ Own \in Written(n)
      BY <1>1, <2>4, WrittenAre, TextsAre
    <3>3. n \in {"contract", "api"} => disk[<<r, n>>] = Absent
      BY <1>1, <2>4
    <3>4. QED
      BY <2>1, <2>2, <3>1, <3>2, <3>3, WrittenAre DEF Name, Plain
  <2>5. QED
    BY <2>3, <2>4
<1>3. Release \ Batch # Empty
  BY MarkAssumption DEF Gone
<1>4. ToolTypeOK
  <2>1. 1 \in 1..MaxRule /\ 0 \in 0..MaxRuns
    BY ReleaseAssumption
  <2>2. /\ rules = 1 /\ tool = "none" /\ todo = <<>> /\ listed = {}
        /\ last = "none" /\ runs = 0 /\ crashes = 0
    BY DEF Init
  <2>3. disk[Index] \subseteq Release /\ todo \in Seq(File)
    BY <1>1, <2>2
  <2>4. QED
    BY <1>2, <2>1, <2>2, <2>3 DEF ToolTypeOK
<1>5. ShapeOK /\ PendingOK /\ RunsOK /\ BatchOK /\ UpgradeOK /\ GoalOK
  <2>1. /\ tool = "none" /\ todo = <<>> /\ pending = Absent
        /\ last = "none" /\ goal = NoTree /\ runs = 0 /\ crashes = 0
    BY DEF Init
  <2>2. ShapeOK /\ PendingOK
    BY <1>1, <2>1 DEF ShapeOK, PendingOK
  <2>3. RunsOK
    BY <2>1 DEF RunsOK
  <2>4. QED
    BY <2>1, <2>2, <2>3 DEF BatchOK, UpgradeOK, GoalOK
<1>6. Damaged(Settled) = {}
  <2>1. Settled = disk
    BY DEF Init, Settled
  <2>2. \A r \in Release : /\ \A n \in {"source", "readme"} : Base(disk[<<r, n>>]) # "lost"
                           /\ disk[<<r, "api">>] = Absent
    <3>1. Base(Own) = "own" /\ Base(Absent) = "missing"
      BY TextsAre DEF Base, Gone
    <3>2. QED
      BY <1>1, <3>1 DEF Name, Plain
  <2>3. \A f \in File : f = Index \/ (f # Index /\ f = <<f[1], f[2]>> /\ f[1] \in Release /\ f[2] \in Name)
    BY FileParts
  <2>4. \A f \in File : disk[f] # Empty
    BY <1>1, <1>2, <1>3, <2>3
  <2>5. QED
    BY <2>1, <2>2, <2>3, <2>4 DEF Damaged
<1>7. DamageOK
  BY <1>6, FS_EmptySet DEF Init, DamageOK
<1>8. ListOK
  <2>1. "text" # Absent /\ Own # Absent
    BY WrittenAre, TextsAre DEF Name, Plain, Gone
  <2>2. QED
    BY <1>1, <2>1 DEF ListOK, Present, Plain
<1>9. LastOK
  BY DEF Init, LastOK, GeneratedIsComplete
<1>10. QED
  BY <1>4, <1>5, <1>7, <1>8, <1>9 DEF IInv

(* A step that leaves the tree alone and writes nothing.                   *)
LEMMA Still ==
  ASSUME IInv, pending = Absent, pending' = Absent, UNCHANGED disk
  PROVE  /\ Settled = disk /\ Settled' = disk /\ ListOK'
         /\ PendingOK' /\ (crashes' = crashes => DamageOK')
<1>1. Settled = disk /\ Settled' = disk
  BY DEF Settled
<1>2. QED
  BY <1>1 DEF IInv, ListOK, Present, PendingOK, DamageOK

(* A run that starts has left nothing behind.                              *)
LEMMA Fresh ==
  ASSUME todo' = Plan'
  PROVE  /\ Left' = {} /\ todo' \in Seq(File) /\ Len(todo') <= Len(Plan')
         /\ \A i \in 1..Len(todo') : todo'[i] = Plan'[Len(Plan') - Len(todo') + i]
<1>1. Plan' \in Seq(File) /\ Len(Plan') \in Nat
  <2>1. UpgradeFiles \in Seq(File)
    <3>1. Release \X UpgradeNames \subseteq File
      BY UpgradeNamesAre DEF File
    <3>2. UpgradeFiles \in Seq(Release \X UpgradeNames)
      BY UpgradePlan
    <3> HIDE DEF File
    <3>3. QED
      BY <3>1, <3>2
  <2>2. Plan' \in Seq(File)
    BY <2>1, BatchPlan DEF Plan
  <2>3. QED
    BY <2>2
<1>2. Len(Plan') - Len(todo') = 0
  BY <1>1
<1>3. Left' = {}
  BY <1>2 DEF Left
<1>4. \A i \in 1..Len(todo') : Len(Plan') - Len(todo') + i = i
  BY <1>1
<1>5. QED
  BY <1>1, <1>3, <1>4

LEMMA StartBatchStep == IInv /\ StartBatch => IInv'
<1> SUFFICES ASSUME IInv, StartBatch PROVE IInv'
  OBVIOUS
<1>1. /\ tool = "none" /\ disk[Index] # Empty /\ runs < MaxRuns
      /\ tool' = "batch" /\ todo' = BatchFiles /\ listed' = disk[Index]
      /\ last' = "none" /\ goal' = NoTree /\ runs' = runs + 1
      /\ UNCHANGED <<disk, rules, pending, crashes>>
  BY DEF StartBatch
<1>2. pending = Absent /\ pending' = Absent
  BY <1>1 DEF IInv, ShapeOK
<1>3. Settled' = disk /\ ListOK' /\ DamageOK' /\ PendingOK'
  BY <1>1, <1>2, Still
<1>4. /\ Plan' = BatchFiles /\ todo' = Plan'
  BY <1>1 DEF Plan
<1>5. Left' = {} /\ todo' \in Seq(File) /\ ShapeOK'
  BY <1>1, <1>4, Fresh DEF IInv, ShapeOK
<1>6. ToolTypeOK'
  <2>1. runs + 1 \in 0..MaxRuns
    BY <1>1, ReleaseAssumption DEF IInv, ToolTypeOK
  <2>2. QED
    BY <1>1, <1>5, <2>1 DEF IInv, ToolTypeOK
<1>7. RunsOK'
  BY <1>1 DEF IInv, RunsOK, ToolTypeOK
<1>8. BatchOK'
  BY <1>1, <1>2, <1>5 DEF IInv, BatchOK, ListOK, Present
<1>9. UpgradeOK' /\ GoalOK' /\ LastOK'
  BY <1>1 DEF UpgradeOK, GoalOK, LastOK, GeneratedIsComplete
<1>10. QED
  BY <1>3, <1>5, <1>6, <1>7, <1>8, <1>9 DEF IInv

LEMMA StartUpgradeStep == IInv /\ StartUpgrade => IInv'
<1> SUFFICES ASSUME IInv, StartUpgrade PROVE IInv'
  OBVIOUS
<1>1. /\ tool = "none" /\ runs < MaxRuns
      /\ tool' = "upgrade" /\ todo' = UpgradeFiles
      /\ goal' = IF goal = NoTree THEN Upgraded(disk) ELSE goal
      /\ last' = "none" /\ runs' = runs + 1
      /\ UNCHANGED <<disk, rules, pending, listed, crashes>>
  BY DEF StartUpgrade
<1>2. pending = Absent /\ pending' = Absent
  BY <1>1 DEF IInv, ShapeOK
<1>3. Settled = disk /\ Settled' = disk /\ ListOK' /\ DamageOK' /\ PendingOK'
  BY <1>1, <1>2, Still
<1>4. todo' = Plan'
  BY <1>1 DEF Plan
<1>5. Left' = {} /\ todo' \in Seq(File) /\ ShapeOK'
  BY <1>1, <1>4, Fresh DEF IInv, ShapeOK
<1>6. ToolTypeOK'
  <2>1. runs + 1 \in 0..MaxRuns
    BY <1>1, ReleaseAssumption DEF IInv, ToolTypeOK
  <2>2. QED
    BY <1>1, <1>5, <2>1 DEF IInv, ToolTypeOK
<1>7. RunsOK'
  BY <1>1 DEF IInv, RunsOK, ToolTypeOK
<1>8. GoalOK'
  BY <1>1, <1>3, UpgradedIs DEF IInv, GoalOK
<1>9. BatchOK' /\ UpgradeOK' /\ LastOK'
  BY <1>1, <1>2, <1>5 DEF BatchOK, UpgradeOK, LastOK, GeneratedIsComplete
<1>10. QED
  BY <1>3, <1>5, <1>6, <1>7, <1>8, <1>9 DEF IInv

LEMMA StartCheckStep == IInv /\ StartCheck => IInv'
<1> SUFFICES ASSUME IInv, StartCheck PROVE IInv'
  OBVIOUS
<1>1. /\ tool = "none" /\ tool' = "check" /\ todo' = UpgradeFiles /\ last' = "none"
      /\ UNCHANGED <<disk, rules, pending, listed, goal, runs, crashes>>
  BY DEF StartCheck
<1>2. pending = Absent /\ pending' = Absent
  BY <1>1 DEF IInv, ShapeOK
<1>3. Settled = disk /\ Settled' = disk /\ ListOK' /\ DamageOK' /\ PendingOK'
  BY <1>1, <1>2, Still
<1>4. todo' = Plan'
  BY <1>1 DEF Plan
<1>5. Left' = {} /\ todo' \in Seq(File) /\ ShapeOK'
  BY <1>1, <1>4, Fresh DEF IInv, ShapeOK
<1>6. ToolTypeOK' /\ RunsOK'
  BY <1>1, <1>5 DEF IInv, ToolTypeOK, RunsOK
<1>7. GoalOK'
  BY <1>1, <1>3 DEF IInv, GoalOK
<1>8. BatchOK' /\ UpgradeOK' /\ LastOK'
  BY <1>1, <1>2, <1>5 DEF BatchOK, UpgradeOK, LastOK, GeneratedIsComplete
<1>9. QED
  BY <1>3, <1>5, <1>6, <1>7, <1>8 DEF IInv

(* A file that a tool passes is as the tool would make it.                 *)
LEMMA PassesStep == IInv /\ Passes => IInv'
<1> SUFFICES ASSUME IInv, Passes PROVE IInv'
  OBVIOUS
<1> DEFINE f == Head(todo)
<1>1. /\ tool # "none" /\ todo # <<>> /\ pending = Absent
      /\ ~Visits(f) \/ (~Unreadable(f) /\ UpToDate(f))
      /\ todo' = Tail(todo)
      /\ UNCHANGED <<disk, rules, tool, pending, listed, last, goal, runs, crashes>>
  BY DEF Passes, At
<1>2. Settled = disk /\ Settled' = disk /\ ListOK' /\ DamageOK' /\ PendingOK'
  BY <1>1, Still
<1>3. todo \in Seq(File) /\ ShapeOK /\ tool \in {"none", "batch", "upgrade", "check"}
  BY DEF IInv, ToolTypeOK
<1>4. Left' = Left \union {f} /\ todo' \in Seq(File) /\ ShapeOK'
  BY <1>1, <1>3, Advances DEF ShapeOK
<1>5. ToolTypeOK' /\ RunsOK'
  BY <1>1, <1>4 DEF IInv, ToolTypeOK, RunsOK
<1>6. GoalOK'
  BY <1>1, <1>2 DEF IInv, GoalOK
<1>7. LastOK'
  BY <1>1 DEF IInv, ShapeOK, LastOK, GeneratedIsComplete
<1>8. BatchOK'
  <2> SUFFICES ASSUME tool = "batch"
               PROVE  BatchOK'
    BY <1>1 DEF BatchOK
  <2>1. disk[f] = Product(listed, f)
    BY <1>1 DEF Visits, UpToDate, Body, GeneratedBody, Product
  <2>2. goal = NoTree /\ listed \subseteq Present(disk) /\ \A g \in Left : Settled[g] = Product(listed, g)
    BY DEF IInv, BatchOK
  <2>3. \A g \in Left' : Settled'[g] = Product(listed, g)
    BY <1>2, <1>4, <2>1, <2>2
  <2>4. QED
    BY <1>1, <2>2, <2>3 DEF BatchOK, Present
<1>9. UpgradeOK'
  <2> SUFFICES ASSUME tool \in {"upgrade", "check"}
               PROVE  UpgradeOK'
    BY <1>1 DEF UpgradeOK
  <2>1. f \in Release \X UpgradeNames
    BY <1>1, <1>3, UpgradeAt
  <2>2. UpgradedBody(disk, f) = Result(disk, rules, f[1], f[2])
    <3>1. PICK r \in Release, n \in UpgradeNames : f = <<r, n>>
      BY <2>1
    <3>2. QED
      BY <3>1, UpgradedIs
  <2>3. Clean(disk, rules, f)
    BY <1>1, <2>2 DEF Visits, UpToDate, Body, Clean
  <2>4. \A g \in Left : Clean(Settled, rules, g)
    BY DEF IInv, UpgradeOK
  <2>5. \A g \in Left' : Clean(Settled', rules, g)
    BY <1>2, <1>4, <2>3, <2>4
  <2>6. QED
    BY <1>1, <2>5 DEF UpgradeOK
<1>10. QED
  BY <1>2, <1>4, <1>5, <1>6, <1>7, <1>8, <1>9 DEF IInv

LEMMA FailsStep == IInv /\ Fails => IInv'
<1> SUFFICES ASSUME IInv, Fails PROVE IInv'
  OBVIOUS
<1>1. /\ tool # "none" /\ pending = Absent
      /\ tool' = "none" /\ todo' = <<>> /\ pending' = Absent
      /\ UNCHANGED <<disk, rules, listed, last, goal, runs, crashes>>
  BY DEF Fails, At, Stops
<1>2. Settled = disk /\ Settled' = disk /\ ListOK' /\ DamageOK' /\ PendingOK'
  BY <1>1, Still
<1>3. todo' \in Seq(File)
  BY <1>1
<1>4. ToolTypeOK' /\ RunsOK' /\ ShapeOK'
  BY <1>1, <1>3 DEF IInv, ToolTypeOK, RunsOK, ShapeOK
<1>5. GoalOK'
  BY <1>1, <1>2 DEF IInv, GoalOK
<1>6. LastOK'
  BY <1>1 DEF IInv, ShapeOK, LastOK, GeneratedIsComplete
<1>7. BatchOK' /\ UpgradeOK'
  BY <1>1 DEF BatchOK, UpgradeOK
<1>8. QED
  BY <1>2, <1>4, <1>5, <1>6, <1>7 DEF IInv

LEMMA RulesChangeStep == IInv /\ RulesChange => IInv'
<1> SUFFICES ASSUME IInv, RulesChange PROVE IInv'
  OBVIOUS
<1>1. /\ tool = "none" /\ rules < MaxRule
      /\ rules' = rules + 1 /\ last' = "none" /\ goal' = NoTree
      /\ UNCHANGED <<disk, tool, todo, pending, listed, runs, crashes>>
  BY DEF RulesChange, toolVars
<1>2. pending = Absent
  BY <1>1 DEF IInv, ShapeOK
<1>3. ListOK' /\ DamageOK' /\ PendingOK'
  BY <1>1, <1>2, Still
<1>4. rules + 1 \in 1..MaxRule
  BY <1>1, ReleaseAssumption DEF IInv, ToolTypeOK
<1>5. ToolTypeOK' /\ RunsOK' /\ ShapeOK'
  BY <1>1, <1>4 DEF IInv, ToolTypeOK, RunsOK, ShapeOK
<1>6. GoalOK' /\ LastOK' /\ BatchOK' /\ UpgradeOK'
  BY <1>1 DEF GoalOK, LastOK, GeneratedIsComplete, BatchOK, UpgradeOK
<1>7. QED
  BY <1>3, <1>5, <1>6 DEF IInv

(* A run that completes has left the whole of its plan behind.             *)
LEMMA CompletesStep == IInv /\ Completes => IInv'
<1> SUFFICES ASSUME IInv, Completes PROVE IInv'
  OBVIOUS
<1>1. /\ tool # "none" /\ todo = <<>>
      /\ tool' = "none" /\ todo' = <<>> /\ pending' = Absent
      /\ UNCHANGED <<disk, rules, listed, goal, runs, crashes>>
  BY DEF Completes, Stops
<1>2. /\ tool \in {"batch", "upgrade", "check"} /\ todo \in Seq(File) /\ ShapeOK
      /\ tool = "batch" => last' = "generated"
      /\ tool = "upgrade" => last' = "upgraded"
      /\ tool = "check" => last' = "green"
  BY <1>1 DEF IInv, ToolTypeOK, Completes
<1>3. pending = Absent
  BY <1>1 DEF IInv, PendingOK
<1>4. Settled = disk /\ Settled' = disk /\ ListOK' /\ DamageOK' /\ PendingOK'
  BY <1>1, <1>3, Still
<1>5. todo' \in Seq(File)
  BY <1>1
<1>6. last' \in {"generated", "upgraded", "green"}
  BY <1>2
<1>7. ToolTypeOK' /\ RunsOK' /\ ShapeOK'
  BY <1>1, <1>5, <1>6 DEF IInv, ToolTypeOK, RunsOK, ShapeOK
<1>8. GoalOK' /\ BatchOK' /\ UpgradeOK'
  BY <1>1, <1>4 DEF IInv, GoalOK, BatchOK, UpgradeOK
<1>9. GeneratedIsComplete'
  <2> SUFFICES ASSUME tool = "batch"
               PROVE  GeneratedIsComplete'
    BY <1>2 DEF GeneratedIsComplete
  <2>1. Index \in Left /\ Batch \X BatchNames \subseteq Left /\ Batch \subseteq Release
    BY <1>1, <1>2, BatchAt
  <2>2. \A f \in Left : disk[f] = Product(listed, f)
    BY <1>4 DEF IInv, BatchOK
  <2>3. disk[Index] = listed \union Batch
    BY <2>1, <2>2 DEF Product
  <2>4. listed \subseteq Release
    BY DEF IInv, ToolTypeOK
  <2>5. ASSUME NEW r \in Batch, NEW n \in BatchNames
        PROVE  /\ disk[<<r, n>>] \notin Gone
               /\ n \in {"source", "readme"} => disk[<<r, n>>] = Own
               /\ n = "api" => disk[<<r, n>>].of = Own
    <3>1. <<r, n>> \in Batch \X BatchNames /\ <<r, n>>[2] = n
      OBVIOUS
    <3>2. disk[<<r, n>>] = Product(listed, <<r, n>>)
      BY <2>1, <2>2, <3>1
    <3>3. QED
      BY <2>1, <2>4, <3>1, <3>2, Products
  <2>6. Name \ {"contract"} = BatchNames /\ "source" \in BatchNames /\ "api" \in BatchNames
    BY DEF Name, Plain, BatchNames
  <2>7. QED
    BY <1>1, <2>3, <2>5, <2>6 DEF GeneratedIsComplete, Whole
<1>10. last' \in {"upgraded", "green"} => \A f \in Release \X UpgradeNames : Clean(disk, rules, f)
  <2> SUFFICES ASSUME tool \in {"upgrade", "check"}
               PROVE  \A f \in Release \X UpgradeNames : Clean(disk, rules, f)
    BY <1>2
  <2>1. Release \X UpgradeNames \subseteq Left
    BY <1>1, <1>2, UpgradeAt
  <2>2. \A f \in Left : Clean(disk, rules, f)
    BY <1>4 DEF IInv, UpgradeOK
  <2>3. QED
    BY <2>1, <2>2
<1>11. LastOK'
  BY <1>1, <1>9, <1>10 DEF LastOK
<1>12. QED
  BY <1>4, <1>7, <1>8, <1>11 DEF IInv

(* The torn file is all that a crash adds to the damage.                   *)
LEMMA TornOne ==
  ASSUME NEW t, NEW u, NEW f \in File, u[f] = Empty, \A g \in File \ {f} : u[g] = t[g],
         IsFiniteSet(Damaged(t))
  PROVE  /\ IsFiniteSet(Damaged(u)) /\ Cardinality(Damaged(u)) <= Cardinality(Damaged(t)) + 1
         /\ Cardinality(Damaged(u)) \in Nat /\ Cardinality(Damaged(t)) \in Nat
<1>1. Base(u[f]) = "lost"
  BY ReleaseAssumption DEF Base
<1>2. Damaged(u) \subseteq Damaged(t) \union {f}
  <2> SUFFICES ASSUME NEW g \in Damaged(u), g # f
               PROVE  g \in Damaged(t)
    OBVIOUS
  <2>1. g \in File /\ u[g] = t[g]
    BY DEF Damaged
  <2>2. g # Index /\ g[2] = "api" => <<g[1], "source">> \in File
    BY <2>1, FileParts DEF Name, Plain
  <2>3. QED
    BY <1>1, <2>1, <2>2 DEF Damaged
<1>3. /\ IsFiniteSet(Damaged(t) \union {f}) /\ Cardinality(Damaged(t)) \in Nat
      /\ Cardinality(Damaged(t) \union {f}) \in {Cardinality(Damaged(t)), Cardinality(Damaged(t)) + 1}
  BY FS_AddElement, FS_CardinalityType
<1>4. IsFiniteSet(Damaged(u)) /\ Cardinality(Damaged(u)) <= Cardinality(Damaged(t) \union {f})
  BY <1>2, <1>3, FS_Subset
<1>5. Cardinality(Damaged(u)) \in Nat
  BY <1>4, FS_CardinalityType
<1>6. QED
  BY <1>3, <1>4, <1>5

(* A write that does not damage its own file adds nothing: at most it      *)
(* repairs a source and leaves the API made of what was there before.      *)
LEMMA WroteOne ==
  ASSUME NEW t, NEW u, NEW f \in File, \A g \in File \ {f} : u[g] = t[g],
         f \in Damaged(u) => f \in Damaged(t), IsFiniteSet(Damaged(t))
  PROVE  /\ IsFiniteSet(Damaged(u)) /\ Cardinality(Damaged(u)) <= Cardinality(Damaged(t))
         /\ Cardinality(Damaged(u)) \in Nat /\ Cardinality(Damaged(t)) \in Nat
<1> DEFINE api == <<f[1], "api">>
<1>1. ASSUME NEW g \in Damaged(u), g # f,
             f # Index /\ f[2] = "source" /\ g = api => Base(u[f]) = "lost" \/ Base(t[f]) # "lost"
      PROVE  g \in Damaged(t)
  <2>1. g \in File /\ u[g] = t[g]
    BY <1>1 DEF Damaged
  <2>2. g # Index /\ g[2] = "api" =>
          <<g[1], "source">> \in File \ {Index} /\ g = <<g[1], "api">>
    <3>1. g # Index => g[1] \in Release /\ g = <<g[1], g[2]>>
      BY <2>1, FileParts
    <3>2. \A r \in Release : <<r, "source">> \in File /\ <<r, "source">> # Index
      BY FileParts DEF Name, Plain
    <3>3. QED
      BY <3>1, <3>2
  <2>3. CASE g # Index /\ g[2] = "api" /\ <<g[1], "source">> = f
    <3>1. f # Index /\ f[2] = "source" /\ g = api
      BY <2>2, <2>3
    <3>2. QED
      BY <1>1, <2>1, <2>3, <3>1 DEF Damaged
  <2>4. CASE ~(g # Index /\ g[2] = "api" /\ <<g[1], "source">> = f)
    BY <2>1, <2>2, <2>4, <1>1 DEF Damaged
  <2>5. QED
    BY <2>3, <2>4
<1>2. Cardinality(Damaged(t)) \in Nat
  BY FS_CardinalityType
<1>3. CASE Damaged(u) \subseteq Damaged(t)
  <2>1. IsFiniteSet(Damaged(u)) /\ Cardinality(Damaged(u)) <= Cardinality(Damaged(t))
    BY <1>3, FS_Subset
  <2>2. QED
    BY <1>2, <2>1, FS_CardinalityType
<1>4. CASE ~(Damaged(u) \subseteq Damaged(t))
  <2>1. /\ f # Index /\ f[2] = "source" /\ Base(u[f]) # "lost" /\ Base(t[f]) = "lost"
    BY <1>1, <1>4
  <2>2. f \in Damaged(t) /\ f \notin Damaged(u)
    <3>1. f \in Damaged(t) /\ u[f] # Empty
      BY <2>1, ReleaseAssumption DEF Damaged, Base
    <3>2. QED
      BY <2>1, <3>1 DEF Damaged
  <2>3. Damaged(u) \subseteq (Damaged(t) \ {f}) \union {api}
    BY <1>1, <2>2
  <2> DEFINE D == Damaged(t) \ {f}
  <2>4. IsFiniteSet(D) /\ Cardinality(D) = Cardinality(Damaged(t)) - 1
    BY <2>2, FS_RemoveElement
  <2>5. IsFiniteSet(D \union {api}) /\ Cardinality(D \union {api}) \in {Cardinality(D), Cardinality(D) + 1}
    BY <2>4, FS_AddElement
  <2>6. IsFiniteSet(Damaged(u)) /\ Cardinality(Damaged(u)) <= Cardinality(D \union {api})
    BY <2>3, <2>5, FS_Subset
  <2>7. Cardinality(Damaged(u)) \in Nat
    BY <2>6, FS_CardinalityType
  <2>8. QED
    BY <1>2, <2>4, <2>5, <2>6, <2>7
<1>5. QED
  BY <1>3, <1>4

(* A crash damages the file that was being written, and no other.          *)
LEMMA CrashesStep == IInv /\ Crashes => IInv'
<1> SUFFICES ASSUME IInv, Crashes PROVE IInv'
  OBVIOUS
<1>1. /\ tool \in {"batch", "upgrade"} /\ todo # <<>>
      /\ tool' = "none" /\ todo' = <<>> /\ pending' = Absent
      /\ crashes' = crashes + 1
      /\ goal' = IF pending = Absent THEN goal ELSE NoTree
      /\ UNCHANGED <<disk, rules, listed, last, runs>>
  BY DEF Crashes, Stops
<1>2. /\ todo \in Seq(File) /\ ShapeOK /\ runs \in 0..MaxRuns /\ crashes \in 0..MaxRuns
      /\ MaxRuns \in Nat /\ last = "none"
  BY <1>1, ReleaseAssumption DEF IInv, ToolTypeOK, ShapeOK
<1>3. Settled' = disk /\ todo' \in Seq(File)
  BY <1>1 DEF Settled
<1>4. crashes + 1 \in 0..MaxRuns /\ RunsOK'
  BY <1>1, <1>2 DEF IInv, RunsOK
<1>5. ToolTypeOK' /\ ShapeOK' /\ PendingOK' /\ ListOK'
  <2>1. ToolTypeOK'
    BY <1>1, <1>3, <1>4 DEF IInv, ToolTypeOK
  <2>2. QED
    BY <1>1, <2>1 DEF IInv, ShapeOK, PendingOK, ListOK, Present
<1>6. GoalOK'
  <2>1. pending = Absent => Settled = disk
    BY DEF Settled
  <2>2. QED
    BY <1>1, <1>3, <2>1 DEF IInv, GoalOK
<1>7. DamageOK'
  <2> DEFINE f == Head(todo)
  <2>1. f \in File /\ crashes \in Nat /\ crashes' = crashes + 1
    BY <1>1, <1>2, AtHead
  <2>2. CASE pending = Absent
    <3>1. Settled' = Settled
      BY <1>3, <2>2 DEF Settled
    <3>2. Cardinality(Damaged(Settled)) \in Nat
      BY FS_CardinalityType DEF IInv, DamageOK
    <3>3. QED
      BY <2>1, <3>1, <3>2 DEF IInv, DamageOK
  <2>3. CASE pending # Absent
    <3>1. disk[f] = Empty /\ \A g \in File \ {f} : disk[g] = Settled[g]
      BY <1>2, <2>1, <2>3, Rewritten DEF Settled, ShapeOK, IInv, PendingOK
    <3>2. /\ IsFiniteSet(Damaged(disk))
          /\ Cardinality(Damaged(disk)) <= Cardinality(Damaged(Settled)) + 1
          /\ Cardinality(Damaged(disk)) \in Nat /\ Cardinality(Damaged(Settled)) \in Nat
      BY <2>1, <3>1, TornOne DEF IInv, DamageOK
    <3>3. QED
      BY <1>3, <2>1, <3>2 DEF IInv, DamageOK
  <2>4. QED
    BY <2>2, <2>3
<1>8. LastOK' /\ BatchOK' /\ UpgradeOK'
  BY <1>1, <1>2 DEF LastOK, GeneratedIsComplete, BatchOK, UpgradeOK
<1>9. QED
  BY <1>4, <1>5, <1>6, <1>7, <1>8 DEF IInv

(* The file that was written is behind the tool, as it was to be.          *)
LEMMA WriteEndsStep == IInv /\ WriteEnds => IInv'
<1> SUFFICES ASSUME IInv, WriteEnds PROVE IInv'
  OBVIOUS
<1> DEFINE f == Head(todo)
<1>1. /\ pending # Absent /\ disk' = [disk EXCEPT ![f] = pending]
      /\ pending' = Absent /\ todo' = Tail(todo)
      /\ UNCHANGED <<rules, tool, listed, last, goal, runs, crashes>>
  BY DEF WriteEnds
<1>2. /\ todo # <<>> /\ tool \in {"batch", "upgrade"} /\ todo \in Seq(File)
      /\ ToolTypeOK /\ ShapeOK /\ listed \subseteq Release
      /\ f = Index => pending \subseteq Release
      /\ f # Index => pending \in Written(f[2])
  BY <1>1 DEF IInv, PendingOK, ToolTypeOK
<1>3. f \in File
  BY <1>2, AtHead
<1>4. /\ disk' = [g \in File |-> disk'[g]] /\ disk'[f] = pending
      /\ \A g \in File \ {f} : disk'[g] = disk[g]
  BY <1>1, <1>2, <1>3, Rewritten DEF ShapeOK
<1>5. Settled = disk' /\ Settled' = disk'
  BY <1>1 DEF Settled
<1>6. Left' = Left \union {f} /\ todo' \in Seq(File) /\ ShapeOK'
  <2>1. /\ Left' = Left \union {f} /\ todo' \in Seq(File)
        /\ Len(todo') <= Len(Plan')
        /\ \A i \in 1..Len(todo') : todo'[i] = Plan'[Len(Plan') - Len(todo') + i]
    BY <1>1, <1>2, Advances
  <2>2. QED
    BY <1>1, <1>2, <1>4, <2>1 DEF ShapeOK
<1>7. \A g \in File : disk[g] # Absent => disk'[g] # Absent
  BY <1>1, <1>4
<1>8. Present(disk) \subseteq Present(disk')
  <2>1. \A r \in Release : <<r, "manifest">> \in File /\ <<r, "source">> \in File
    BY FileParts DEF Name, Plain
  <2>2. QED
    BY <1>7, <2>1 DEF Present
<1>9. ToolTypeOK'
  <2>1. \A r \in Release, n \in Name : disk'[<<r, n>>] \in Contents(n)
    <3> SUFFICES ASSUME NEW r \in Release, NEW n \in Name
                 PROVE  disk'[<<r, n>>] \in Contents(n)
      OBVIOUS
    <3>1. <<r, n>> \in File /\ <<r, n>> # Index /\ <<r, n>>[2] = n /\ Written(n) \subseteq Contents(n)
      BY FileParts, WrittenAre
    <3>2. disk[<<r, n>>] \in Contents(n)
      BY DEF IInv, ToolTypeOK
    <3>3. CASE f = <<r, n>>
      BY <1>2, <1>4, <3>1, <3>3
    <3>4. CASE f # <<r, n>>
      BY <1>4, <3>1, <3>2, <3>4
    <3>5. QED
      BY <3>3, <3>4
  <2>2. disk'[Index] = Empty \/ disk'[Index] \subseteq Release
    <3>1. CASE f = Index
      BY <1>2, <1>4, <3>1
    <3>2. CASE f # Index
      BY <1>2, <1>4, <3>2, FileParts DEF ToolTypeOK
    <3>3. QED
      BY <3>1, <3>2
  <2>3. QED
    BY <1>1, <1>6, <2>1, <2>2 DEF IInv, ToolTypeOK
<1>10. RunsOK' /\ PendingOK' /\ LastOK'
  BY <1>1, <1>2 DEF IInv, RunsOK, PendingOK, LastOK, ShapeOK, GeneratedIsComplete
<1>11. DamageOK'
  BY <1>1, <1>5 DEF IInv, DamageOK
<1>12. GoalOK'
  BY <1>1, <1>5 DEF IInv, GoalOK
<1>13. BatchOK'
  <2> SUFFICES ASSUME tool = "batch"
               PROVE  BatchOK'
    BY <1>1 DEF BatchOK
  <2>1. /\ goal = NoTree /\ listed \subseteq Present(disk) /\ pending = Product(listed, f)
        /\ \A g \in Left : Settled[g] = Product(listed, g)
    BY <1>1 DEF IInv, BatchOK
  <2>2. \A g \in Left' : Settled'[g] = Product(listed, g)
    BY <1>4, <1>5, <1>6, <2>1
  <2>3. QED
    BY <1>1, <1>8, <2>1, <2>2 DEF BatchOK
<1>14. UpgradeOK'
  <2> SUFFICES ASSUME tool = "upgrade"
               PROVE  UpgradeOK'
    BY <1>1, <1>2 DEF UpgradeOK
  <2>1. Clean(Settled, rules, f) /\ \A g \in Left : Clean(Settled, rules, g)
    BY <1>1 DEF IInv, UpgradeOK
  <2>2. \A g \in Left' : Clean(Settled', rules, g)
    BY <1>5, <1>6, <2>1
  <2>3. QED
    BY <1>1, <2>2 DEF UpgradeOK
<1>15. ListOK'
  <2> SUFFICES ASSUME disk'[Index] # Empty
               PROVE  disk'[Index] \subseteq Present(disk')
    BY DEF ListOK
  <2>1. CASE f # Index
    BY <1>4, <1>8, <2>1, FileParts DEF IInv, ListOK
  <2>2. CASE f = Index
    <3>1. tool = "batch"
      <4>1. tool = "upgrade" => f \in Release \X UpgradeNames
        BY <1>2, UpgradeAt
      <4>2. Index \notin Release \X UpgradeNames
        BY FileParts, UpgradeNamesAre
      <4>3. QED
        BY <1>2, <2>2, <4>1, <4>2
    <3>2. Batch \X BatchNames \subseteq Left /\ Batch \subseteq Release
      BY <1>2, <2>2, <3>1, BatchAt
    <3>3. /\ listed \subseteq Present(disk) /\ disk'[Index] = listed \union Batch
          /\ \A g \in Left : disk'[g] = Product(listed, g)
      BY <1>1, <1>4, <1>5, <2>2, <3>1 DEF IInv, BatchOK, Product
    <3>4. ASSUME NEW r \in Batch
          PROVE  r \in Present(disk')
      <4>1. <<r, "manifest">> \in Batch \X BatchNames /\ <<r, "source">> \in Batch \X BatchNames
        BY DEF BatchNames
      <4>2. disk'[<<r, "manifest">>] \notin Gone /\ disk'[<<r, "source">>] \notin Gone
        <5>1. /\ disk'[<<r, "manifest">>] = Product(listed, <<r, "manifest">>)
              /\ disk'[<<r, "source">>] = Product(listed, <<r, "source">>)
          BY <3>2, <3>3, <4>1
        <5>2. \A g \in Batch \X BatchNames : Product(listed, g) \notin Gone
          BY <1>2, <3>2, Products
        <5>3. QED
          BY <4>1, <5>1, <5>2
      <4>3. QED
        BY <3>2, <4>2 DEF Present, Gone
    <3>5. QED
      BY <1>8, <3>3, <3>4
  <2>3. QED
    BY <2>1, <2>2
<1>16. QED
  BY <1>6, <1>9, <1>10, <1>11, <1>12, <1>13, <1>14, <1>15 DEF IInv

(* What a write is of: Head(todo), v in its place.                         *)
LEMMA Writing ==
  ASSUME IInv, WriteBegins
  PROVE  LET f == Head(todo)  v == Body(f) IN
         /\ tool \in {"batch", "upgrade"} /\ todo # <<>> /\ todo \in Seq(File) /\ f \in File
         /\ pending = Absent /\ Settled = disk /\ last = "none"
         /\ Visits(f) /\ ~Unreadable(f) /\ disk[f] # v
         /\ pending' = v /\ disk' = [disk EXCEPT ![f] = Empty]
         /\ disk' = [g \in File |-> disk'[g]] /\ disk'[f] = Empty
         /\ \A g \in File \ {f} : disk'[g] = disk[g]
         /\ UNCHANGED <<rules, tool, todo, listed, last, goal, runs, crashes>>
<1>1. /\ tool # "none" /\ tool # "check" /\ todo # <<>> /\ pending = Absent
      /\ Visits(Head(todo)) /\ ~Unreadable(Head(todo)) /\ disk[Head(todo)] # Body(Head(todo))
      /\ pending' = Body(Head(todo)) /\ disk' = [disk EXCEPT ![Head(todo)] = Empty]
      /\ UNCHANGED <<rules, tool, todo, listed, last, goal, runs, crashes>>
  BY DEF WriteBegins, Differs, At, UpToDate, Truncated
<1>2. /\ tool \in {"batch", "upgrade"} /\ todo \in Seq(File) /\ ShapeOK /\ last = "none"
  BY <1>1 DEF IInv, ToolTypeOK, ShapeOK
<1>3. Head(todo) \in File /\ Settled = disk
  BY <1>1, <1>2, AtHead DEF Settled
<1>4. /\ disk' = [g \in File |-> disk'[g]] /\ disk'[Head(todo)] = Empty
      /\ \A g \in File \ {Head(todo)} : disk'[g] = disk[g]
  BY <1>1, <1>2, <1>3, Rewritten DEF ShapeOK
<1>5. QED
  BY <1>1, <1>2, <1>3, <1>4

(* A file that is truncated is still there.                                *)
LEMMA WritePresent ==
  ASSUME ToolTypeOK, NEW f \in File, disk'[f] = Empty, \A g \in File \ {f} : disk'[g] = disk[g]
  PROVE  Present(disk) \subseteq Present(disk')
<1>1. \A r \in Release : <<r, "manifest">> \in File /\ <<r, "source">> \in File
  BY FileParts DEF Name, Plain
<1>2. \A g \in File : disk[g] # Absent => disk'[g] # Absent
  BY ReleaseAssumption
<1>3. QED
  BY <1>1, <1>2 DEF Present

(* What is left to show of a write once it is known what is written.       *)
LEMMA WriteBeginsStep ==
  ASSUME IInv, WriteBegins, NEW f, f = Head(todo), NEW v, v = Body(f),
         v # Absent,
         f = Index => v \subseteq Release, f # Index => v \in Written(f[2]),
         v # Empty,
         f # Index /\ f[2] \in {"source", "readme"} /\ Base(v) = "lost" => f \in Damaged(disk),
         f # Index /\ f[2] = "api" /\ Base(v.of) = "lost" => Base(disk[<<f[1], "source">>]) = "lost",
         BatchOK', UpgradeOK', GoalOK'
  PROVE  IInv'
<1>1. /\ tool \in {"batch", "upgrade"} /\ todo # <<>> /\ todo \in Seq(File) /\ f \in File
      /\ pending = Absent /\ Settled = disk /\ last = "none"
      /\ pending' = v /\ disk' = [disk EXCEPT ![f] = Empty]
      /\ disk' = [g \in File |-> disk'[g]] /\ disk'[f] = Empty
      /\ \A g \in File \ {f} : disk'[g] = disk[g]
      /\ UNCHANGED <<rules, tool, todo, listed, last, goal, runs, crashes>>
  BY Writing
<1>2. ToolTypeOK'
  <2>1. \A r \in Release, n \in Name : disk'[<<r, n>>] \in Contents(n)
    <3> SUFFICES ASSUME NEW r \in Release, NEW n \in Name
                 PROVE  disk'[<<r, n>>] \in Contents(n)
      OBVIOUS
    <3>1. <<r, n>> \in File /\ Empty \in Contents(n) /\ disk[<<r, n>>] \in Contents(n)
      BY FileParts, WrittenAre DEF IInv, ToolTypeOK, Gone
    <3>2. QED
      BY <1>1, <3>1
  <2>2. disk'[Index] = Empty \/ disk'[Index] \subseteq Release
    BY <1>1, FileParts DEF IInv, ToolTypeOK
  <2>3. QED
    BY <1>1, <2>1, <2>2 DEF IInv, ToolTypeOK
<1>3. ShapeOK' /\ RunsOK'
  BY <1>1 DEF IInv, ShapeOK, RunsOK, Plan
<1>4. PendingOK'
  BY <1>1 DEF PendingOK
<1>5. /\ Settled'[f] = v
      /\ \A g \in File \ {f} : Settled'[g] = disk[g]
  BY <1>1, Rewritten DEF Settled
<1>6. DamageOK'
  <2>1. f \in Damaged(Settled') => f \in Damaged(disk)
    <3>1. \A q : f # Index /\ f[2] = "api" => <<q, "source">> # f
      OBVIOUS
    <3>2. f # Index /\ f[2] = "api" => <<f[1], "source">> \in File
      BY <1>1, FileParts DEF Name, Plain
    <3>3. f # Index /\ f[2] = "api" => Settled'[<<f[1], "source">>] = disk[<<f[1], "source">>]
      BY <1>5, <3>1, <3>2
    <3>4. QED
      BY <1>5, <3>3 DEF Damaged
  <2>2. IsFiniteSet(Damaged(disk)) /\ Cardinality(Damaged(disk)) <= crashes /\ crashes \in Nat
    BY <1>1 DEF IInv, DamageOK, ToolTypeOK
  <2>3. /\ IsFiniteSet(Damaged(Settled'))
        /\ Cardinality(Damaged(Settled')) <= Cardinality(Damaged(disk))
        /\ Cardinality(Damaged(Settled')) \in Nat /\ Cardinality(Damaged(disk)) \in Nat
    BY <1>1, <1>5, <2>1, <2>2, WroteOne
  <2>4. QED
    BY <1>1, <2>2, <2>3 DEF DamageOK
<1>7. Present(disk) \subseteq Present(disk')
  BY <1>1, WritePresent DEF IInv
<1>8. ListOK'
  BY <1>1, <1>7, FileParts DEF IInv, ListOK
<1>9. LastOK'
  BY <1>1 DEF LastOK, GeneratedIsComplete
<1>10. QED
  BY <1>2, <1>3, <1>4, <1>6, <1>8, <1>9 DEF IInv

LEMMA WriteBeginsBatch == IInv /\ WriteBegins /\ tool = "batch" => IInv'
<1> SUFFICES ASSUME IInv, WriteBegins, tool = "batch" PROVE IInv'
  OBVIOUS
<1> DEFINE f == Head(todo)
           v == Body(f)
<1>1. /\ todo # <<>> /\ todo \in Seq(File) /\ f \in File
      /\ pending = Absent /\ Settled = disk
      /\ pending' = v /\ disk' = [disk EXCEPT ![f] = Empty]
      /\ disk' = [g \in File |-> disk'[g]] /\ disk'[f] = Empty
      /\ \A g \in File \ {f} : disk'[g] = disk[g]
      /\ UNCHANGED <<rules, tool, todo, listed, last, goal, runs, crashes>>
  BY Writing
<1>2. v = Product(listed, f)
  BY DEF Body, GeneratedBody, Product
<1>3. Batch \subseteq Release /\ (f = Index \/ f \in Batch \X BatchNames) /\ listed \subseteq Release
  BY <1>1, BatchAt DEF IInv, ToolTypeOK
<1>4. /\ v \notin Gone /\ (f = Index => v \subseteq Release) /\ (f # Index => v \in Written(f[2]))
      /\ f # Index /\ f[2] \in {"source", "readme"} => v = Own
      /\ f # Index /\ f[2] = "api" => v.of = Own
  BY <1>2, <1>3, Products
<1>5. v # Absent /\ v # Empty /\ Base(Own) # "lost"
  BY <1>4, TextsAre DEF Gone, Base
<1>6. /\ Settled'[f] = v
      /\ \A g \in File \ {f} : Settled'[g] = disk[g]
  BY <1>1, <1>5, Rewritten DEF Settled
<1>7. BatchOK'
  <2>1. /\ goal = NoTree /\ listed \subseteq Present(disk)
        /\ \A g \in Left : Settled[g] = Product(listed, g)
    BY DEF IInv, BatchOK
  <2>2. Left' = Left /\ Left \subseteq File
    <3>1. 1..(Len(Plan) - Len(todo)) \subseteq 1..Len(Plan)
      BY <1>1, PlanTyped
    <3>2. QED
      BY <1>1, <3>1, PlanTyped DEF Left, Plan
  <2>3. Present(disk) \subseteq Present(disk')
    BY <1>1, WritePresent DEF IInv
  <2>4. \A g \in Left' : Settled'[g] = Product(listed, g)
    BY <1>1, <1>2, <1>6, <2>1, <2>2
  <2>5. QED
    BY <1>1, <1>2, <2>1, <2>3, <2>4 DEF BatchOK
<1>8. UpgradeOK' /\ GoalOK'
  BY <1>1 DEF IInv, UpgradeOK, BatchOK, GoalOK
<1> HIDE DEF f, v
<1>9. f = Head(todo) /\ v = Body(f)
  BY DEF f, v
<1>10. /\ f # Index /\ f[2] \in {"source", "readme"} /\ Base(v) = "lost" => f \in Damaged(disk)
       /\ f # Index /\ f[2] = "api" /\ Base(v.of) = "lost" => Base(disk[<<f[1], "source">>]) = "lost"
  BY <1>4, <1>5
<1>11. QED
  BY <1>4, <1>5, <1>7, <1>8, <1>9, <1>10, WriteBeginsStep

LEMMA WriteBeginsUpgrade == IInv /\ WriteBegins /\ tool = "upgrade" => IInv'
<1> SUFFICES ASSUME IInv, WriteBegins, tool = "upgrade" PROVE IInv'
  OBVIOUS
<1> DEFINE f == Head(todo)
           v == Body(f)
<1>1. /\ todo # <<>> /\ todo \in Seq(File) /\ f \in File
      /\ pending = Absent /\ Settled = disk
      /\ Visits(f) /\ ~Unreadable(f) /\ disk[f] # v
      /\ pending' = v /\ disk' = [disk EXCEPT ![f] = Empty]
      /\ disk' = [g \in File |-> disk'[g]] /\ disk'[f] = Empty
      /\ \A g \in File \ {f} : disk'[g] = disk[g]
      /\ UNCHANGED <<rules, tool, todo, listed, last, goal, runs, crashes>>
  BY Writing
<1>2. IsTree(disk) /\ rules \in 1..MaxRule /\ ShapeOK
  BY TreeIs DEF IInv
<1>3. PICK r \in Release, n \in UpgradeNames : f = <<r, n>>
  <2>1. f \in Release \X UpgradeNames
    BY <1>1, <1>2, UpgradeAt
  <2>2. QED
    BY <2>1
<1>4. f # Index /\ f[1] = r /\ f[2] = n /\ n \in Name
  BY <1>3, UpgradeNamesAre
<1>5. v = Result(disk, rules, r, n)
  BY <1>3, UpgradedIs DEF Body
<1>6. ~Skips(disk, f) /\ disk[<<r, "source">>] # Absent
  BY <1>1, <1>4 DEF Visits, Unreadable
<1>7. v \in Written(n) /\ (n \in {"source", "readme"} => Base(v) = Base(disk[f]))
  BY <1>1, <1>2, <1>3, <1>5, <1>6, ResultWritten
<1>8. v # Absent /\ v # Empty
  BY <1>4, <1>7, WrittenAre DEF Gone
<1>9. /\ f[2] \in {"source", "readme"} /\ Base(v) = "lost" => f \in Damaged(disk)
      /\ f[2] = "api" /\ Base(v.of) = "lost" => Base(disk[<<f[1], "source">>]) = "lost"
  <2>1. f[2] \in {"source", "readme"} /\ Base(v) = "lost" => f \in Damaged(disk)
    BY <1>1, <1>4, <1>7 DEF Damaged
  <2>2. n = "api" => v.of = disk[<<r, "source">>]
    BY <1>5 DEF Result
  <2>3. QED
    BY <1>4, <2>1, <2>2
<1> DEFINE u == [disk EXCEPT ![f] = v]
<1>10. Settled' = u
  <2>1. [disk' EXCEPT ![f] = v] = u
    BY <1>1
  <2>2. QED
    BY <1>1, <1>8, <2>1 DEF Settled
<1>11. UpgradeOK'
  <2>1. /\ Left' = Left /\ Left \subseteq Release \X UpgradeNames
        /\ \A q \in Release : <<q, "api">> \in Left => <<q, "source">> \in Left
    BY <1>1, <1>2, UpgradeAt DEF Left, Plan
  <2>2. \A g \in Left : Clean(disk, rules, g)
    BY <1>1 DEF IInv, UpgradeOK
  <2>3. ~Clean(disk, rules, f)
    BY <1>1, <1>4, <1>5, <1>6 DEF Clean
  <2>4. ASSUME NEW q \in Release, NEW m \in UpgradeNames, <<q, m>> \in Left \/ <<q, m>> = f
        PROVE  Clean(u, rules, <<q, m>>)
    <3>1. ~(q = r /\ n = "source" /\ m = "api")
      <4> SUFFICES ASSUME q = r, n = "source", m = "api"
                   PROVE  FALSE
        OBVIOUS
      <4>1. <<q, m>> \in Left
        BY <1>3, <2>4
      <4>2. f \in Left
        BY <1>3, <2>1, <4>1
      <4>3. QED
        BY <2>2, <2>3, <4>2
    <3>2. Clean(disk, rules, <<q, m>>) \/ <<q, m>> = <<r, n>>
      BY <1>3, <2>2, <2>4
    <3>3. Clean([disk EXCEPT ![<<r, n>>] = Result(disk, rules, r, n)], rules, <<q, m>>)
      BY <1>2, <3>1, <3>2, CleanStays
    <3>4. QED
      BY <1>3, <1>5, <3>3
  <2>5. \A g \in Left \union {f} : Clean(u, rules, g)
    <3> SUFFICES ASSUME NEW g \in Left \union {f}
                 PROVE  Clean(u, rules, g)
      OBVIOUS
    <3>1. PICK q \in Release, m \in UpgradeNames : g = <<q, m>>
      BY <1>3, <2>1
    <3>2. QED
      BY <2>4, <3>1
  <2>6. QED
    BY <1>1, <1>10, <2>1, <2>5 DEF UpgradeOK
<1>12. GoalOK'
  <2>1. Final(u, rules) = Final(disk, rules)
    BY <1>2, <1>3, <1>5, <1>6, FinalSame
  <2>2. QED
    BY <1>1, <1>10, <2>1 DEF IInv, GoalOK
<1>13. BatchOK'
  BY <1>1 DEF BatchOK
<1> HIDE DEF f, v
<1>14. f = Head(todo) /\ v = Body(f)
  BY DEF f, v
<1>15. QED
  BY <1>4, <1>7, <1>8, <1>9, <1>11, <1>12, <1>13, <1>14, WriteBeginsStep

LEMMA Steps == IInv /\ [Next]_vars => IInv'
<1> SUFFICES ASSUME IInv, [Next]_vars PROVE IInv'
  OBVIOUS
<1>1. CASE StartBatch
  BY <1>1, StartBatchStep
<1>2. CASE StartUpgrade
  BY <1>2, StartUpgradeStep
<1>3. CASE StartCheck
  BY <1>3, StartCheckStep
<1>4. CASE Passes
  BY <1>4, PassesStep
<1>5. CASE WriteBegins
  BY <1>5, Writing, WriteBeginsBatch, WriteBeginsUpgrade
<1>6. CASE WriteEnds
  BY <1>6, WriteEndsStep
<1>7. CASE Fails
  BY <1>7, FailsStep
<1>8. CASE Completes
  BY <1>8, CompletesStep
<1>9. CASE Crashes
  BY <1>9, CrashesStep
<1>10. CASE RulesChange
  BY <1>10, RulesChangeStep
<1>11. CASE UNCHANGED vars
  <2>1. UNCHANGED <<disk, rules, tool, todo, pending, listed, last, goal, runs, crashes>>
    BY <1>11 DEF vars, toolVars
  <2>2. ToolTypeOK' /\ ShapeOK' /\ PendingOK' /\ RunsOK' /\ ListOK'
    BY <2>1 DEF IInv, ToolTypeOK, ShapeOK, Plan, PendingOK, RunsOK, ListOK, Present
  <2>3. Settled' = Settled /\ Left' = Left
    BY <2>1 DEF Settled, Left, Plan
  <2>4. BatchOK' /\ UpgradeOK' /\ GoalOK'
    BY <2>1, <2>3 DEF IInv, BatchOK, UpgradeOK, GoalOK, Present
  <2>5. DamageOK' /\ LastOK'
    BY <2>1, <2>3 DEF IInv, DamageOK, LastOK, GeneratedIsComplete, Whole
  <2>6. QED
    BY <2>2, <2>4, <2>5 DEF IInv
<1>12. QED
  BY <1>1, <1>2, <1>3, <1>4, <1>5, <1>6, <1>7, <1>8, <1>9, <1>10, <1>11 DEF Next

LEMMA Invariance == Spec => []IInv
<1>1. QED
  BY Starts, Steps, PTL DEF Spec

-----------------------------------------------------------------------------
(* The files of the tree, the lists of the tools and the bounds have their *)
(* types, and so has whatever the tools write.                             *)
THEOREM ToolTypes == Spec => []ToolTypeOK
<1>1. IInv => ToolTypeOK
  BY DEF IInv
<1>2. QED
  BY <1>1, Invariance, PTL

(* The generator writes the index last: no release is listed before all of *)
(* its files are whole, wherever the generator is killed.                  *)
THEOREM IndexIsLast == Spec => ListedIsWhole
<1>1. IInv /\ [Next]_vars =>
        [disk[Index] = Empty /\ disk'[Index] # Empty => \A r \in disk'[Index] \ listed : Whole(r)]_vars
  <2> SUFFICES ASSUME IInv, [Next]_vars, disk[Index] = Empty, disk'[Index] # Empty,
                      NEW r \in disk'[Index] \ listed
               PROVE  Whole(r)
    OBVIOUS
  <2> DEFINE f == Head(todo)
  <2>1. CASE WriteEnds
    <3>1. pending # Absent /\ disk' = [disk EXCEPT ![f] = pending]
      BY <2>1 DEF WriteEnds
    <3>2. /\ todo # <<>> /\ tool \in {"batch", "upgrade"} /\ todo \in Seq(File)
          /\ ShapeOK /\ listed \subseteq Release
      BY <3>1 DEF IInv, PendingOK, ToolTypeOK
    <3>3. f \in File /\ Index \in File
      BY <3>2, AtHead, FileParts
    <3>4. /\ disk'[f] = pending
          /\ \A g \in File \ {f} : disk'[g] = disk[g]
      BY <3>1, <3>2, <3>3, Rewritten DEF ShapeOK
    <3>5. f = Index
      BY <3>3, <3>4
    <3>6. tool = "batch"
      <4>1. tool = "upgrade" => f \in Release \X UpgradeNames
        BY <3>2, UpgradeAt
      <4>2. Index \notin Release \X UpgradeNames
        BY FileParts, UpgradeNamesAre
      <4>3. QED
        BY <3>2, <3>5, <4>1, <4>2
    <3>7. Batch \X BatchNames \subseteq Left /\ Batch \subseteq Release
      BY <3>2, <3>5, <3>6, BatchAt
    <3>8. /\ disk'[Index] = listed \union Batch
          /\ \A g \in Left : Settled[g] = Product(listed, g)
      BY <3>1, <3>4, <3>5, <3>6 DEF IInv, BatchOK, Product
    <3>9. ASSUME NEW n \in BatchNames
          PROVE  disk[<<r, n>>] \notin Gone
      <4>1. r \in Batch /\ <<r, n>> \in Batch \X BatchNames
        BY <3>8
      <4>2. <<r, n>> # Index /\ <<r, n>> \in File
        BY <3>7, <4>1, FileParts, UpgradeNamesAre
      <4>3. Settled[<<r, n>>] = disk[<<r, n>>]
        BY <3>1, <3>4, <3>5, <4>2 DEF Settled
      <4>4. Product(listed, <<r, n>>) \notin Gone
        BY <3>2, <3>7, <4>1, Products
      <4>5. QED
        BY <3>7, <3>8, <4>1, <4>3, <4>4
    <3>10. QED
      BY <3>9, UpgradeNamesAre DEF Whole
  <2>2. CASE WriteBegins
    <3>1. /\ disk'[f] = Empty
          /\ \A g \in File \ {f} : disk'[g] = disk[g]
      BY <2>2, Writing
    <3>2. QED
      BY <3>1, FileParts
  <2>3. CASE UNCHANGED disk
    BY <2>3
  <2>4. QED
    BY <2>1, <2>2, <2>3
    DEF Next, vars, StartBatch, StartUpgrade, StartCheck, Passes, Fails, Completes, Crashes, RulesChange
<1>2. QED
  BY <1>1, Invariance, PTL DEF Spec, ListedIsWhole

(* A generator that completes has repaired every file of its own and lost  *)
(* no entry of the index.                                                  *)
THEOREM GeneratedWhole == Spec => []GeneratedIsComplete
<1>1. IInv => GeneratedIsComplete
  BY DEF IInv, LastOK
<1>2. QED
  BY <1>1, Invariance, PTL

(* A crash in a write damages one file at most, the API of a lost source   *)
(* counted with it, and no run of any tool carries the damage further.     *)
THEOREM CrashesDamageOne == Spec => []DamageBounded
<1>1. IInv => DamageBounded
  BY DEF IInv, DamageOK, DamageBounded
<1>2. QED
  BY <1>1, Invariance, PTL

LEMMA AtRest ==
  ASSUME IInv, last \in {"upgraded", "green"}
  PROVE  /\ Settled = disk /\ IsTree(disk)
         /\ \A f \in Release \X UpgradeNames : Clean(disk, rules, f)
<1>1. tool = "none" /\ pending = Absent
  BY DEF IInv, ShapeOK
<1>2. IsTree(disk)
  BY TreeIs DEF IInv
<1>3. QED
  BY <1>1, <1>2 DEF Settled, IInv, LastOK

(* After an upgrade, and whenever -check is green, every file is what an   *)
(* upgrade makes of it.                                                    *)
THEOREM UpgradedStaysClean == Spec => []UpgradeIsClean
<1>1. IInv => UpgradeIsClean
  <2> SUFFICES ASSUME IInv, last \in {"upgraded", "green"},
                      NEW f \in Release \X {"source", "contract", "api", "readme"}
               PROVE  Skips(disk, f) \/ disk[f] = UpgradedBody(disk, f)
    BY DEF UpgradeIsClean
  <2>1. PICK r \in Release, n \in UpgradeNames : f = <<r, n>>
    BY DEF UpgradeNames
  <2>2. Clean(disk, rules, f) /\ f[1] = r /\ f[2] = n
    BY <2>1, AtRest
  <2>3. QED
    BY <2>1, <2>2, UpgradedIs DEF Clean
<1>2. QED
  BY <1>1, Invariance, PTL

(* An upgrade that is stopped between two files, however often, and run    *)
(* again comes to the tree that it would have come to at once.             *)
THEOREM UpgradeConverges == Spec => []UpgradeReachesGoal
<1>1. IInv => UpgradeReachesGoal
  <2> SUFFICES ASSUME IInv, last = "upgraded", goal # NoTree
               PROVE  disk = goal
    BY DEF UpgradeReachesGoal
  <2>1. Settled = disk /\ IsTree(disk) /\ \A f \in Release \X UpgradeNames : Clean(disk, rules, f)
    BY AtRest
  <2>2. Final(disk, rules) = disk
    BY <2>1, CleanIsFinal
  <2>3. Final(disk, rules) = goal
    BY <2>1 DEF IInv, GoalOK
  <2>4. QED
    BY <2>2, <2>3
<1>2. QED
  BY <1>1, Invariance, PTL

(* registryctl verify passes after each tool that completes, unless the    *)
(* index itself was torn since the generator.                              *)
THEOREM ToolsVerify == Spec => []VerifyPasses
<1>1. IInv => VerifyPasses
  <2> SUFFICES ASSUME IInv, last = "generated" \/ disk[Index] # Empty
               PROVE  Verifies
    BY DEF VerifyPasses
  <2>1. disk[Index] # Empty
    <3>1. CASE last = "generated"
      <4>1. disk[Index] = listed \union Batch /\ listed \union Batch \subseteq Release
        BY <3>1, ReleaseAssumption DEF IInv, LastOK, GeneratedIsComplete, ToolTypeOK, Batch
      <4>2. QED
        BY <4>1, MarkAssumption DEF Gone
    <3>2. QED
      BY <3>1
  <2>2. disk[Index] \subseteq Present(disk)
    BY <2>1 DEF IInv, ListOK
  <2>3. QED
    BY <2>1, <2>2 DEF Verifies, Present
<1>2. QED
  BY <1>1, Invariance, PTL
=============================================================================
