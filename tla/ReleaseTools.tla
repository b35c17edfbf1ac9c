---------------------------- MODULE ReleaseTools ----------------------------
(***************************************************************************)
(* The tools that write the tree which the registry serves: the generators *)
(* cmd/releasebatch2 and 3, cmd/packageupgrade with its -check mode, and   *)
(* cmd/registryctl verify.  They run one at a time, write one file after   *)
(* the other in place, and may be stopped between any two steps of a       *)
(* write; whoever runs them runs them again.                               *)
(*                                                                         *)
(* Of a file only the parts that the tools put there matter.  "test" is a  *)
(* release's regression test and the example written after it, "contract"  *)
(* the two files made of a rule's test.                                    *)
(***************************************************************************)
EXTENDS Naturals, Sequences, FiniteSets

CONSTANTS
    Order,          \* the releases, in the order of their directories
    Made,           \* those of the generator, in the order of its own list
    Ruled,          \* those of a package with a rule in package-upgrades.json
    Index,          \* registry/index.json
    Absent, Empty,  \* no file; one that was truncated and not yet written
    NoTree,
    MaxRule,        \* bound: versions of package-upgrades.json
    MaxRuns         \* bound: runs of the tools that write

Release == {Order[i] : i \in DOMAIN Order}
Batch == {Made[i] : i \in DOMAIN Made}
Plain == {"manifest", "license", "test", "notes"}
Name == Plain \union {"source", "contract", "api", "readme"}
File == (Release \X Name) \union {Index}

ASSUME ReleaseAssumption ==
    /\ Order \in Seq(Release) /\ Made \in Seq(Release) /\ Ruled \subseteq Release
    /\ Index \notin Release \X Name
    /\ Absent # Empty /\ MaxRule \in Nat \ {0} /\ MaxRuns \in Nat

VARIABLES
    disk,       \* the content of each file
    rules,      \* the version of package-upgrades.json
    tool,       \* the tool that runs
    todo,       \* the files that it has yet to come to
    pending,    \* what it is writing into the first of them, once truncated
    listed,     \* the generator's copy of the index
    last,       \* what the last run came to, as long as nothing has happened since
    goal,       \* what upgrade makes of the tree when nothing stops it
    runs, crashes

toolVars == <<tool, todo, pending, listed>>
vars == <<disk, rules, toolVars, last, goal, runs, crashes>>

Gone == {Absent, Empty}

(* A text of the release's own, or a lost or missing one, and what         *)
(* upgrades have appended to it: the versions of the rule in a source, the *)
(* marker once in a readme.                                                *)
Text(b, a) == [base |-> b, added |-> a]
Base(x)  == IF x = Absent THEN "missing" ELSE IF x = Empty THEN "lost" ELSE x.base
Added(x) == IF x \in Gone THEN <<>> ELSE x.added

Texts == [base : {"own", "lost", "missing"}, added : UNION {[1..n -> 1..MaxRule] : n \in 0..1}]
Written(n) ==
    CASE n \in Plain                 -> {"text"}
      [] n \in {"source", "readme"}  -> Texts
      [] n = "contract"              -> 1..MaxRule
      [] n = "api" -> [by : {"batch", "upgrade"}, of : Texts \union {Empty}, about : 0..MaxRule]
Contents(n) == Gone \union Written(n)

(* The marks of a file without a content are no contents of one.           *)
ASSUME MarkAssumption ==
    /\ \A n \in Name : \A x \in Written(n) : x \notin Gone
    /\ \A S \in SUBSET Release : S \notin Gone

ToolTypeOK ==
    /\ \A r \in Release, n \in Name : disk[<<r, n>>] \in Contents(n)
    /\ disk[Index] = Empty \/ disk[Index] \subseteq Release
    /\ rules \in 1..MaxRule /\ runs \in 0..MaxRuns /\ crashes \in 0..MaxRuns
    /\ tool \in {"none", "batch", "upgrade", "check"} /\ todo \in Seq(File)
    /\ listed \subseteq Release
    /\ last \in {"none", "generated", "upgraded", "green"}

-----------------------------------------------------------------------------
(* What the tools write.                                                   *)

Own == Text("own", <<>>)

GeneratedBody(f) ==
    IF f = Index THEN listed \union Batch
    ELSE CASE f[2] \in Plain -> "text"
           [] f[2] \in {"source", "readme"} -> Own
           [] f[2] = "api" -> [by |-> "batch", of |-> Own, about |-> 0]

(* Mutant: the rule is appended without a look for the marker.             *)
UpgradedUnmarked(t, r) ==
    LET x == t[<<r, "source">>]
    IN IF r \in Ruled THEN Text(Base(x), Append(Added(x), rules)) ELSE x

(* A source gets the rule of its package, unless it has the marker of one. *)
UpgradedSource(t, r) ==
    LET x == t[<<r, "source">>]
    IN IF r \in Ruled /\ Added(x) = <<>> THEN Text(Base(x), <<rules>>) ELSE x

(* Mutant: the names come from the directory of the first release.         *)
exportNamesFirst(t, r) == t[<<Order[1], "source">>]

(* What the API lists: the names that the source exports, as it is on disk *)
(* by then.                                                                *)
exportNames(t, r) == t[<<r, "source">>]

UpgradedBody(t, f) ==
    LET r == f[1]  x == t[f] IN
    CASE f[2] = "source"   -> UpgradedSource(t, r)
      [] f[2] = "contract" -> rules
      [] f[2] = "api"      -> [by |-> "upgrade", of |-> exportNames(t, r),
                               about |-> IF r \in Ruled THEN rules ELSE 0]
      [] f[2] = "readme"   -> IF Added(x) = <<>> THEN Text(Base(x), <<1>>) ELSE x

Body(f) == IF tool = "batch" THEN GeneratedBody(f) ELSE UpgradedBody(disk, f)

(* The files ns of each of the releases rs, release by release.            *)
Each(rs, ns) ==
    [k \in 1..(Len(rs) * Len(ns)) |-> <<rs[((k - 1) \div Len(ns)) + 1], ns[((k - 1) % Len(ns)) + 1]>>]

(* Mutant: the index is written ahead of the releases.                     *)
BatchIndexFirst ==
    <<Index>> \o Each(Made, <<"manifest", "license", "source", "test", "api", "readme", "notes">>)

BatchFiles ==
    Each(Made, <<"manifest", "license", "source", "test", "api", "readme", "notes">>) \o <<Index>>

(* Mutant: the API is written ahead of the source.                         *)
UpgradeApiFirst == Each(Order, <<"api", "source", "contract", "readme">>)

UpgradeFiles == Each(Order, <<"source", "contract", "api", "readme">>)

(* A release without a manifest is passed over, and without a rule it gets *)
(* no contract.                                                            *)
Skips(t, f) == /\ f # Index
               /\ \/ t[<<f[1], "manifest">>] = Absent
                  \/ f[2] = "contract" /\ f[1] \notin Ruled

(* A run of packageupgrade that nothing stops, file by file in one step.   *)
Upgraded(t) ==
    LET s == [f \in File |-> IF f # Index /\ f[2] = "source" /\ ~Skips(t, f)
                             THEN UpgradedBody(t, f) ELSE t[f]]
    IN [f \in File |-> IF f # Index /\ f[2] \in {"contract", "api", "readme"} /\ ~Skips(s, f)
                       THEN UpgradedBody(s, f) ELSE s[f]]

-----------------------------------------------------------------------------
(* A checked-out tree: releases written by hand, listed, and upgraded or   *)
(* not; those of the batch are not there yet.                              *)
Init ==
    /\ disk = [f \in File |->
                IF f = Index THEN Release \ Batch
                ELSE IF f[1] \in Batch THEN Absent
                ELSE CASE f[2] \in Plain -> "text"
                       [] f[2] \in {"source", "readme"} -> Own
                       [] f[2] \in {"contract", "api"} -> Absent]
    /\ rules = 1 /\ tool = "none" /\ todo = <<>> /\ pending = Absent /\ listed = {}
    /\ last = "none" /\ goal = NoTree /\ runs = 0 /\ crashes = 0

(* The generator reads the index first, and stops if it is torn.           *)
StartBatch ==
    /\ tool = "none" /\ disk[Index] # Empty /\ runs < MaxRuns
    /\ tool' = "batch" /\ todo' = BatchFiles /\ listed' = disk[Index]
    /\ last' = "none" /\ goal' = NoTree /\ runs' = runs + 1
    /\ UNCHANGED <<disk, rules, pending, crashes>>

StartUpgrade ==
    /\ tool = "none" /\ runs < MaxRuns
    /\ tool' = "upgrade" /\ todo' = UpgradeFiles
    /\ goal' = IF goal = NoTree THEN Upgraded(disk) ELSE goal
    /\ last' = "none" /\ runs' = runs + 1
    /\ UNCHANGED <<disk, rules, pending, listed, crashes>>

StartCheck ==
    /\ tool = "none" /\ tool' = "check" /\ todo' = UpgradeFiles /\ last' = "none"
    /\ UNCHANGED <<disk, rules, pending, listed, goal, runs, crashes>>

-----------------------------------------------------------------------------
(* The file that the running tool is at.                                   *)
At == tool # "none" /\ todo # <<>> /\ pending = Absent
Stops == tool' = "none" /\ todo' = <<>> /\ pending' = Absent

(* packageupgrade stops at a manifest without an entry and at a release    *)
(* without its source.                                                     *)
Unreadable(f) == /\ tool # "batch" /\ ~Skips(disk, f)
                 /\ disk[<<f[1], "manifest">>] = Empty \/ disk[<<f[1], "source">>] = Absent

(* Mutant: a file that is there is left alone.                             *)
UpToDateIfThere(f) == disk[f] # Absent

UpToDate(f) == disk[f] = Body(f)

(* Mutant: the generator, too, passes over a release without a manifest.   *)
VisitsExisting(f) == ~Skips(disk, f)

Visits(f) == tool = "batch" \/ ~Skips(disk, f)
Differs == At /\ LET f == Head(todo) IN Visits(f) /\ ~Unreadable(f) /\ ~UpToDate(f)

(* write: nothing is done to a file that is as it should be.               *)
Passes ==
    /\ At /\ LET f == Head(todo) IN ~Visits(f) \/ (~Unreadable(f) /\ UpToDate(f))
    /\ todo' = Tail(todo)
    /\ UNCHANGED <<disk, rules, tool, pending, listed, last, goal, runs, crashes>>

Truncated(f) == [disk EXCEPT ![f] = Empty]

WriteBegins ==
    /\ Differs /\ tool # "check"
    /\ pending' = Body(Head(todo)) /\ disk' = Truncated(Head(todo))
    /\ UNCHANGED <<rules, tool, todo, listed, last, goal, runs, crashes>>

WriteEnds ==
    /\ pending # Absent
    /\ disk' = [disk EXCEPT ![Head(todo)] = pending]
    /\ pending' = Absent /\ todo' = Tail(todo)
    /\ UNCHANGED <<rules, tool, listed, last, goal, runs, crashes>>

(* Out of date, in -check mode, or unreadable.                             *)
Fails ==
    /\ At
    /\ Unreadable(Head(todo)) \/ (tool = "check" /\ Differs)
    /\ Stops
    /\ UNCHANGED <<disk, rules, listed, last, goal, runs, crashes>>

Completes ==
    /\ tool # "none" /\ todo = <<>> /\ Stops
    /\ last' = CASE tool = "batch" -> "generated" [] tool = "upgrade" -> "upgraded"
                 [] tool = "check" -> "green"
    /\ UNCHANGED <<disk, rules, listed, goal, runs, crashes>>

(* The tool is killed, or the operating system fails it, and what it was   *)
(* writing stays empty.                                                    *)
Crashes ==
    /\ tool \in {"batch", "upgrade"} /\ todo # <<>> /\ Stops /\ crashes' = crashes + 1
    /\ goal' = IF pending = Absent THEN goal ELSE NoTree
    /\ UNCHANGED <<disk, rules, listed, last, runs>>

(* package-upgrades.json is edited.                                        *)
RulesChange ==
    /\ tool = "none" /\ rules < MaxRule                              \* bound
    /\ rules' = rules + 1 /\ last' = "none" /\ goal' = NoTree
    /\ UNCHANGED <<disk, toolVars, runs, crashes>>

Next ==
    \/ StartBatch \/ StartUpgrade \/ StartCheck \/ Passes \/ WriteBegins \/ WriteEnds
    \/ Fails \/ Completes \/ Crashes \/ RulesChange

Spec == Init /\ [][Next]_vars

-----------------------------------------------------------------------------
(* A release is listed only once all that the generator makes of it is on  *)
(* disk, so that no crash leaves the server with a release it cannot       *)
(* build: the generator writes the index last.                             *)
Whole(r) == \A n \in Name \ {"contract"} : disk[<<r, n>>] \notin Gone
ListedIsWhole ==
    [][disk[Index] = Empty /\ disk'[Index] # Empty => \A r \in disk'[Index] \ listed : Whole(r)]_vars

(* A generator that completes has repaired every file of its own, whatever *)
(* crashes and upgrades had made of it, and lost no entry of the index.    *)
GeneratedIsComplete ==
    last = "generated" =>
        /\ listed \union Batch = disk[Index]
        /\ \A r \in Batch : /\ Whole(r) /\ disk[<<r, "source">>] = Own
                            /\ disk[<<r, "api">>].of = disk[<<r, "source">>]

(* After an upgrade, and whenever -check is green, every file is what an   *)
(* upgrade makes of it: nothing that it writes depends on what a later     *)
(* step of it changes (upgrade-packages.yml:26-27).                        *)
UpgradeIsClean ==
    last \in {"upgraded", "green"} => \A f \in Release \X {"source", "contract", "api", "readme"} :
        Skips(disk, f) \/ disk[f] = UpgradedBody(disk, f)

(* registryctl verify, which only reads: the index can be read, and of     *)
(* each listed release the manifest, and the source is there if a test or  *)
(* an example imports it.                                                  *)
Verifies ==
    /\ disk[Index] # Empty
    /\ \A r \in disk[Index] :
        /\ disk[<<r, "manifest">>] # Absent
        /\ (\E n \in {"test", "contract"} : disk[<<r, n>>] \notin Gone)
           => disk[<<r, "source">>] # Absent

(* The workflows run verify after each tool: it passes, whatever stopped   *)
(* earlier runs, unless the index itself was torn since the generator.     *)
VerifyPasses ==
    last = "generated" \/ (last \in {"upgraded", "green"} /\ disk[Index] # Empty) => Verifies

(* However often an upgrade is stopped between two files and run again, it *)
(* comes to the tree that it would have come to at once.                   *)
UpgradeReachesGoal == last = "upgraded" /\ goal # NoTree => disk = goal

(* The disk once the write under way is through.                           *)
Settled == IF pending = Absent THEN disk ELSE [disk EXCEPT ![Head(todo)] = pending]

(* Files of the tree t that a crash has torn, and what upgrades made of    *)
(* them: a source or readme of which the original is lost, and an API that *)
(* lists such a source when its own is a good one.                         *)
Damaged(t) ==
    {f \in File :
        \/ t[f] = Empty
        \/ f # Index /\ f[2] \in {"source", "readme"} /\ Base(t[f]) = "lost"
        \/ f # Index /\ f[2] = "api" /\ t[f] # Absent /\ Base(t[f].of) = "lost"
           /\ Base(t[<<f[1], "source">>]) # "lost"}

(* Each crash damages one file at most, the API of a lost source counted   *)
(* with it.  Later runs take what was torn for the original, but carry it  *)
(* no further than to that API.                                            *)
DamageBounded == Cardinality(Damaged(Settled)) <= crashes
=============================================================================
