--------------------------- MODULE ArtifactCache ---------------------------
(***************************************************************************)
(* Package archives of the registry (internal/registry/archive.go): a      *)
(* cache behind one mutex that builds the archive of a release on its      *)
(* first request, by walking the release's directory one file at a time,   *)
(* while the tools of the repository may be rewriting files of the tree.   *)
(*                                                                         *)
(* Files are the regular files of a release, numbered in the order of the  *)
(* walk, and what matters of their content is its size and whether it is   *)
(* the empty one that os.WriteFile leaves between truncating a file and    *)
(* writing it.  The bytes of an archive are a function of the names and    *)
(* contents in it, so the archive stands for its digest too.               *)
(***************************************************************************)
EXTENDS Naturals, FiniteSets, FiniteSetsExt

CONSTANTS
    Reader,             \* goroutines that serve requests
    Release,            \* release paths of the catalog
    LongPath,           \* those over the 100 bytes of SafeRelative
    LastFile,           \* a release has at most this many files
    Manifest, Source,   \* package.noqeri, and the entry that it names
    Content, Empty,     \* what can be in a file
    Absent, Odd,        \* no file; a link, device, or a name or depth refused
    SizeOf,             \* the size of each content
    MaxFiles,           \* 256 in the code
    MaxBytes,           \* 8 MiB in the code
    MaxWrites,          \* bound: how many files the tools rewrite
    Nobody, NoRelease, NoArchive

File == 1..LastFile

ASSUME FileAssumption ==
    LastFile \in Nat /\ MaxFiles \in Nat /\ MaxBytes \in Nat /\ MaxWrites \in Nat
    /\ Manifest \in File /\ Source \in File
ASSUME ContentAssumption ==
    /\ Empty \in Content /\ Absent \notin Content /\ Odd \notin Content /\ Absent # Odd
    /\ SizeOf \in [Content -> Nat] /\ SizeOf[Empty] = 0
ASSUME PathAssumption ==
    LongPath \subseteq Release /\ NoRelease \notin Release /\ Nobody \notin Reader

Archive == [File -> Content \union {Absent}]
Nothing == [f \in File |-> Absent]

ASSUME ArchiveAssumption == NoArchive \notin Archive

VARIABLES
    tree,       \* the files of each release on disk
    writing,    \* files that a tool has truncated and not yet written
    writes,     \* how many files the tools have rewritten
    mu,         \* the reader that holds ArtifactCache.mu
    items,      \* ArtifactCache.items
    pc,         \* where each reader is in Get
    rel,        \* the release it asked for
    left,       \* the names that its walk has yet to visit
    files,      \* the files that it has read, of BuildArchive
    size,       \* the running total of BuildArchive
    got         \* what its last Get returned: an archive, or NoArchive for an error

treeVars  == <<tree, writing, writes>>
buildVars == <<left, files, size>>
cacheVars == <<treeVars, mu, items, pc, rel, buildVars, got>>

CacheTypeOK ==
    /\ tree \in [Release -> [File -> Content \union {Absent, Odd}]]
    /\ writing \subseteq Release \X File /\ writes \in 0..MaxWrites
    /\ mu \in Reader \union {Nobody}
    /\ items \in [Release -> Archive \union {NoArchive}]
    /\ pc \in [Reader -> {"idle", "get", "walk", "read", "got"}]
    /\ rel \in [Reader -> Release \union {NoRelease}]
    /\ left \in [Reader -> SUBSET File] /\ files \in [Reader -> Archive]
    /\ size \in [Reader -> 0..MaxBytes]
    /\ got \in [Reader -> Archive \union {NoArchive}]

EmptyCache == items = [r \in Release |-> NoArchive]

AllIdle ==
    /\ mu = Nobody
    /\ pc = [c \in Reader |-> "idle"] /\ rel = [c \in Reader |-> NoRelease]
    /\ left = [c \in Reader |-> {}] /\ files = [c \in Reader |-> Nothing]
    /\ size = [c \in Reader |-> 0] /\ got = [c \in Reader |-> NoArchive]

(* The cache and its readers are gone with their process.                  *)
ForgetsCache ==
    /\ items' = [r \in Release |-> NoArchive] /\ mu' = Nobody
    /\ pc' = [c \in Reader |-> "idle"] /\ rel' = [c \in Reader |-> NoRelease]
    /\ left' = [c \in Reader |-> {}] /\ files' = [c \in Reader |-> Nothing]
    /\ size' = [c \in Reader |-> 0] /\ got' = [c \in Reader |-> NoArchive]

-----------------------------------------------------------------------------
(* os.WriteFile, as the release tools use it on a checked-out tree: the    *)
(* file is created or truncated, and then written; a crash of the tool     *)
(* between the two leaves it empty.                                        *)
WriteBegins(r, f) ==
    /\ writes < MaxWrites                           \* bound, not in the code
    /\ tree[r][f] # Odd /\ <<r, f>> \notin writing
    /\ tree' = [tree EXCEPT ![r][f] = Empty]
    /\ writing' = writing \union {<<r, f>>} /\ writes' = writes + 1
    /\ UNCHANGED <<mu, items, pc, rel, buildVars, got>>

WriteEnds(r, f) ==
    /\ <<r, f>> \in writing /\ writing' = writing \ {<<r, f>>}
    /\ \E x \in Content \ {Empty} : tree' = [tree EXCEPT ![r][f] = x]
    /\ UNCHANGED <<writes, mu, items, pc, rel, buildVars, got>>

ToolCrashes ==
    /\ writing # {} /\ writing' = {}
    /\ UNCHANGED <<tree, writes, mu, items, pc, rel, buildVars, got>>

-----------------------------------------------------------------------------
(* ArtifactCache.Get.                                                      *)

Get(c, r) ==
    /\ pc' = [pc EXCEPT ![c] = "get"] /\ rel' = [rel EXCEPT ![c] = r]
    /\ UNCHANGED <<treeVars, mu, items, buildVars, got>>

(* Get returns a, or an error, and forgets its walk.                       *)
Returns(c, a) ==
    /\ pc' = [pc EXCEPT ![c] = "got"] /\ got' = [got EXCEPT ![c] = a]
    /\ left' = [left EXCEPT ![c] = {}] /\ files' = [files EXCEPT ![c] = Nothing]
    /\ size' = [size EXCEPT ![c] = 0]

(* Mutant: a read lock, which many may hold.                               *)
LocksShared(c) == pc[c] = "get"

Locks(c) == pc[c] = "get" /\ mu = Nobody

Hit(c) ==
    /\ Locks(c) /\ items[rel[c]] # NoArchive
    /\ Returns(c, items[rel[c]])
    /\ UNCHANGED <<treeVars, mu, items, rel>>

PathRefused(c) ==
    /\ Locks(c) /\ items[rel[c]] = NoArchive /\ rel[c] \in LongPath
    /\ Returns(c, NoArchive)
    /\ UNCHANGED <<treeVars, mu, items, rel>>

(* Mutant: the mutex is not kept over BuildArchive.                        *)
ListsUnlocked(c) ==
    /\ Locks(c) /\ items[rel[c]] = NoArchive /\ rel[c] \notin LongPath
    /\ pc' = [pc EXCEPT ![c] = "walk"]
    /\ left' = [left EXCEPT ![c] = {f \in File : tree[rel[c]][f] # Absent}]
    /\ UNCHANGED <<treeVars, mu, items, rel, files, size, got>>

(* A miss: BuildArchive lists the directory.                               *)
Lists(c) ==
    /\ Locks(c) /\ items[rel[c]] = NoArchive /\ rel[c] \notin LongPath
    /\ mu' = c /\ pc' = [pc EXCEPT ![c] = "walk"]
    /\ left' = [left EXCEPT ![c] = {f \in File : tree[rel[c]][f] # Absent}]
    /\ UNCHANGED <<treeVars, items, rel, files, size, got>>

Read(c) == {f \in File : files[c][f] # Absent}

(* A subdirectory is listed when the walk gets to it, and may have files   *)
(* by then that were not there when the walk began.                        *)
ListsMore(c) ==
    /\ pc[c] = "walk"
    /\ \E f \in File \ left[c] :
        /\ tree[rel[c]][f] # Absent /\ \A g \in Read(c) : g < f
        /\ left' = [left EXCEPT ![c] = @ \union {f}]
    /\ UNCHANGED <<treeVars, mu, items, pc, rel, files, size, got>>

OnDisk(c) == tree[rel[c]][Min(left[c])]     \* the file that the walk is at

(* Mutant: only the size that Lstat reported is compared with the limit.   *)
FitsUnread(c) == pc[c] = "read" \/ SizeOf[OnDisk(c)] <= MaxBytes - size[c]

Fits(c) == SizeOf[OnDisk(c)] <= MaxBytes - size[c]

(* Mutant: an error path that keeps the mutex.                             *)
FailsLocked(c) == Returns(c, NoArchive) /\ UNCHANGED <<treeVars, mu, items, rel>>

(* The deferred unlock of a Get that failed: errors are not cached.        *)
Fails(c) == Returns(c, NoArchive) /\ mu' = Nobody /\ UNCHANGED <<treeVars, items, rel>>

(* A regular file, at a path and depth allowed, within both limits.        *)
Admits(c) == OnDisk(c) # Odd /\ Cardinality(Read(c)) < MaxFiles /\ Fits(c)

Stats(c) ==
    /\ pc[c] = "walk" /\ left[c] # {} /\ Admits(c)
    /\ pc' = [pc EXCEPT ![c] = "read"]
    /\ UNCHANGED <<treeVars, mu, items, rel, buildVars, got>>

StatRefuses(c) == pc[c] = "walk" /\ left[c] # {} /\ ~Admits(c) /\ Fails(c)

(* The file is read after its size was, and may have changed in between.   *)
Reads(c) ==
    /\ pc[c] = "read" /\ Fits(c)
    /\ pc' = [pc EXCEPT ![c] = "walk"]
    /\ left' = [left EXCEPT ![c] = @ \ {Min(@)}]
    /\ files' = [files EXCEPT ![c][Min(left[c])] = OnDisk(c)]
    /\ size' = [size EXCEPT ![c] = @ + SizeOf[OnDisk(c)]]
    /\ UNCHANGED <<treeVars, mu, items, rel, got>>

ReadRefuses(c) == pc[c] = "read" /\ ~Fits(c) /\ Fails(c)

(* Mutant: what was read before an error is taken for the archive.         *)
BuildBreaksKept(c) ==
    /\ pc[c] \in {"walk", "read"} /\ Returns(c, files[c]) /\ mu' = Nobody
    /\ items' = [items EXCEPT ![rel[c]] = files[c]]
    /\ UNCHANGED <<treeVars, rel>>

(* The operating system or the compressor fails, or the compressed archive *)
(* is over the limit.                                                      *)
BuildBreaks(c) == pc[c] \in {"walk", "read"} /\ Fails(c)

(* A manifest with an entry, and the file that the entry names.            *)
HasEntry(a) == a[Manifest] \notin {Absent, Empty} /\ a[Source] # Absent

(* Mutant: the archive is not put into the cache.                          *)
ArchivesUncached(c) ==
    /\ pc[c] = "walk" /\ left[c] = {} /\ HasEntry(files[c])
    /\ Returns(c, files[c]) /\ mu' = Nobody
    /\ UNCHANGED <<treeVars, items, rel>>

Archives(c) ==
    /\ pc[c] = "walk" /\ left[c] = {} /\ HasEntry(files[c])
    /\ items' = [items EXCEPT ![rel[c]] = files[c]]
    /\ Returns(c, files[c]) /\ mu' = Nobody
    /\ UNCHANGED <<treeVars, rel>>

ManifestRefused(c) == pc[c] = "walk" /\ left[c] = {} /\ ~HasEntry(files[c]) /\ Fails(c)

-----------------------------------------------------------------------------
Tool == \/ \E r \in Release, f \in File : WriteBegins(r, f) \/ WriteEnds(r, f)
        \/ ToolCrashes
Takes(c) == Hit(c) \/ PathRefused(c) \/ Lists(c)
Builds(c) ==
    Stats(c) \/ StatRefuses(c) \/ Reads(c) \/ ReadRefuses(c) \/ Archives(c) \/ ManifestRefused(c)
CacheStep(c) == Takes(c) \/ Builds(c) \/ ListsMore(c) \/ BuildBreaks(c)

(* Every archive in the cache is within the limits of archive.go:23-24,    *)
(* though a file can grow between the test of its size and its reading,    *)
(* and it has its manifest and its entry.                                  *)
TotalSize(a) == MapThenSumSet(LAMBDA f : SizeOf[a[f]], {f \in File : a[f] # Absent})
ArchivesBounded ==
    \A r \in Release : items[r] # NoArchive =>
        /\ TotalSize(items[r]) <= MaxBytes
        /\ Cardinality({f \in File : items[r][f] # Absent}) <= MaxFiles
        /\ HasEntry(items[r])
=============================================================================
