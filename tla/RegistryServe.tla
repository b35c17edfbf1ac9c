--------------------------- MODULE RegistryServe ---------------------------
(***************************************************************************)
(* The registry process (cmd/registry, internal/registry/catalog.go and    *)
(* handler.go): a catalog read once from registry/index.json, and requests *)
(* served concurrently from it and from the archives of ArtifactCache,     *)
(* over a tree that the release tools may be rewriting.  A request is a    *)
(* listing of packages, the metadata of one release or its download.       *)
(***************************************************************************)
EXTENDS ArtifactCache

VARIABLES
    up,         \* the process serves
    index,      \* registry/index.json on disk: each release absent, live or yanked
    torn,       \* the index has been truncated and not yet written
    catalog,    \* the process's copy of the index
    kind,       \* the request of each reader
    todo,       \* the releases that its listing has yet to decorate
    page,       \* the archives in the listing so far
    answer,     \* what its last request was answered
    told,       \* archives whose digest this process has told to clients
    ever        \* the same since the beginning, over restarts

serveVars == <<kind, todo, page, answer>>
diskVars  == <<index, torn>>
allVars   == <<cacheVars, up, diskVars, catalog, serveVars, told, ever>>

State == {"absent", "live", "yanked"}
Answer == {"none", "ok", "refused", "unavailable"}

RegistryTypeOK ==
    /\ CacheTypeOK
    /\ up \in BOOLEAN /\ torn \in BOOLEAN
    /\ index \in [Release -> State] /\ catalog \in [Release -> State]
    /\ kind \in [Reader -> {"none", "list", "release", "download"}]
    /\ todo \in [Reader -> SUBSET Release]
    /\ page \in [Reader -> SUBSET (Release \X Archive)]
    /\ answer \in [Reader -> Answer]
    /\ told \in [Release -> SUBSET Archive] /\ ever \in [Release -> SUBSET Archive]

NoRequests ==
    /\ kind = [c \in Reader |-> "none"] /\ todo = [c \in Reader |-> {}]
    /\ page = [c \in Reader |-> {}] /\ answer = [c \in Reader |-> "none"]

ForgetsRequests ==
    /\ kind' = [c \in Reader |-> "none"] /\ todo' = [c \in Reader |-> {}]
    /\ page' = [c \in Reader |-> {}] /\ answer' = [c \in Reader |-> "none"]

(* A checked-out tree: releases with a manifest and an entry, with any     *)
(* other file of any content; an index of them, not all of them yet.       *)
Checkout == {t \in [File -> (Content \ {Empty}) \union {Absent, Odd}] :
                t[Manifest] \in Content /\ t[Source] \in Content}

Init ==
    /\ tree \in [Release -> Checkout] /\ writing = {} /\ writes = 0
    /\ EmptyCache /\ AllIdle /\ NoRequests
    /\ up = FALSE /\ torn = FALSE
    /\ index \in [Release -> State] /\ catalog = [r \in Release |-> "absent"]
    /\ told = [r \in Release |-> {}] /\ ever = [r \in Release |-> {}]

-----------------------------------------------------------------------------
(* The process.  Open fails on a torn index, and then the process is over  *)
(* before it served anything.                                              *)
Start ==
    /\ ~up /\ ~torn
    /\ up' = TRUE /\ catalog' = index
    /\ UNCHANGED <<cacheVars, diskVars, serveVars, told, ever>>

(* The process is ended and loses its cache and the requests in hand.      *)
Killed ==
    /\ up /\ up' = FALSE
    /\ ForgetsCache /\ ForgetsRequests
    /\ catalog' = [r \in Release |-> "absent"]
    /\ told' = [r \in Release |-> {}]
    /\ UNCHANGED <<treeVars, diskVars, ever>>

(* The release generators write the index in place and add releases to it. *)
IndexBegins ==
    /\ writes < MaxWrites /\ ~torn              \* bound, not in the code
    /\ torn' = TRUE /\ writes' = writes + 1
    /\ UNCHANGED <<tree, writing, mu, items, pc, rel, buildVars, got>>
    /\ UNCHANGED <<up, index, catalog, serveVars, told, ever>>

IndexEnds ==
    /\ torn /\ torn' = FALSE
    /\ \E S \in SUBSET {r \in Release : index[r] = "absent"} :
        index' = [r \in Release |-> IF r \in S THEN "live" ELSE index[r]]
    /\ UNCHANGED <<cacheVars, up, catalog, serveVars, told, ever>>

-----------------------------------------------------------------------------
(* Requests.                                                               *)

Listed == {r \in Release : catalog[r] # "absent"}
Idle(c) == up /\ kind[c] = "none"

Replies(c, a) ==
    /\ answer' = [answer EXCEPT ![c] = a]
    /\ kind' = [kind EXCEPT ![c] = "none"]
    /\ todo' = [todo EXCEPT ![c] = {}] /\ page' = [page EXCEPT ![c] = {}]

(* The wrong method, an oversized or encoded URL, a bad search or page, no *)
(* such route, package or release; /health, /v1/status and static files    *)
(* need nothing that changes either.                                       *)
ReplyAtOnce(c) ==
    /\ Idle(c) /\ \E a \in Answer \ {"none"} : Replies(c, a)
    /\ UNCHANGED <<cacheVars, up, diskVars, catalog, told, ever>>

(* The index, a search, or the releases of one package.                    *)
AskList(c) ==
    /\ Idle(c) /\ kind' = [kind EXCEPT ![c] = "list"]
    /\ \E S \in SUBSET Listed : todo' = [todo EXCEPT ![c] = S]
    /\ answer' = [answer EXCEPT ![c] = "none"]
    /\ UNCHANGED <<cacheVars, up, diskVars, catalog, page, told, ever>>

(* Each release of a listing is looked up in the cache by itself.          *)
Decorate(c) ==
    /\ kind[c] = "list" /\ pc[c] = "idle"
    /\ \E r \in todo[c] : Get(c, r) /\ todo' = [todo EXCEPT ![c] = @ \ {r}]
    /\ UNCHANGED <<up, diskVars, catalog, kind, page, answer, told, ever>>

Leaves(c) ==
    /\ pc' = [pc EXCEPT ![c] = "idle"] /\ rel' = [rel EXCEPT ![c] = NoRelease]
    /\ got' = [got EXCEPT ![c] = NoArchive]
    /\ UNCHANGED <<treeVars, mu, items, buildVars>>

(* archiveIntegrity, or archiveUnavailable.                                *)
Decorated(c) ==
    /\ kind[c] = "list" /\ pc[c] = "got" /\ Leaves(c)
    /\ page' = [page EXCEPT ![c] = @ \union ({<<rel[c], got[c]>>} \ (Release \X {NoArchive}))]
    /\ UNCHANGED <<up, diskVars, catalog, kind, todo, answer, told, ever>>

Tell(R) ==
    /\ told' = [r \in Release |-> told[r] \union {a \in Archive : <<r, a>> \in R}]
    /\ ever' = [r \in Release |-> ever[r] \union {a \in Archive : <<r, a>> \in R}]

ReplyList(c) ==
    /\ kind[c] = "list" /\ pc[c] = "idle" /\ todo[c] = {}
    /\ Tell(page[c]) /\ Replies(c, "ok")
    /\ UNCHANGED <<cacheVars, up, diskVars, catalog>>

Ask(c) ==
    /\ Idle(c)
    /\ \E k \in {"release", "download"}, r \in Listed :
        kind' = [kind EXCEPT ![c] = k] /\ Get(c, r)
    /\ answer' = [answer EXCEPT ![c] = "none"]
    /\ UNCHANGED <<up, diskVars, catalog, todo, page, told, ever>>

ReplyUnavailable(c) ==
    /\ kind[c] \in {"release", "download"} /\ pc[c] = "got" /\ got[c] = NoArchive
    /\ Leaves(c) /\ Replies(c, "unavailable")
    /\ UNCHANGED <<up, diskVars, catalog, told, ever>>

ReplyRelease(c) ==
    /\ kind[c] = "release" /\ pc[c] = "got" /\ got[c] # NoArchive
    /\ Tell({<<rel[c], got[c]>>}) /\ Leaves(c) /\ Replies(c, "ok")
    /\ UNCHANGED <<up, diskVars, catalog>>

(* No download of a yanked release, nor anything else under a release; the *)
(* archive has been built by then.                                         *)
ReplyRefused(c) ==
    /\ kind[c] = "download" /\ pc[c] = "got" /\ got[c] # NoArchive
    /\ Leaves(c) /\ Replies(c, "refused")
    /\ UNCHANGED <<up, diskVars, catalog, told, ever>>

ReplyArchive(c) ==
    /\ kind[c] = "download" /\ pc[c] = "got" /\ got[c] # NoArchive
    /\ catalog[rel[c]] # "yanked"
    /\ Tell({<<rel[c], got[c]>>}) /\ Leaves(c) /\ Replies(c, "ok")
    /\ UNCHANGED <<up, diskVars, catalog>>

-----------------------------------------------------------------------------
Handles(c) == \/ Decorate(c) \/ Decorated(c) \/ ReplyList(c) \/ ReplyUnavailable(c)
              \/ ReplyRelease(c) \/ ReplyRefused(c) \/ ReplyArchive(c)
Outside == UNCHANGED <<up, diskVars, catalog, serveVars, told, ever>>

Next ==
    \/ Start \/ Killed \/ IndexBegins \/ IndexEnds \/ (Tool /\ Outside)
    \/ \E c \in Reader : \/ ReplyAtOnce(c) \/ AskList(c) \/ Ask(c) \/ Handles(c)
                         \/ (CacheStep(c) /\ Outside)

Spec == Init /\ [][Next]_allVars

(* Goroutines run, and sync.Mutex hands itself to a starving waiter.       *)
Fairness == \A c \in Reader :
    /\ SF_allVars(Takes(c) /\ Outside) /\ WF_allVars(Builds(c) /\ Outside)
    /\ WF_allVars(Handles(c))

FairSpec == Spec /\ Fairness

-----------------------------------------------------------------------------
(* As long as the process lives a release has one digest: what a listing   *)
(* or the metadata announced as its integrity is what a download delivers, *)
(* whoever asks first and whatever the tools write meanwhile.              *)
OneDigestPerProcess == \A r \in Release : Cardinality(told[r]) <= 1

(* What a listing has collected so far agrees with what is cached, however *)
(* long it takes to look up its other releases: the cache never replaces   *)
(* or drops an archive.                                                    *)
PageIsCurrent == \A c \in Reader : \A e \in page[c] : items[e[1]] = e[2]

(* Every request is answered, or the process is killed: a build that fails *)
(* gives the mutex back, and nobody waits for it for ever.                 *)
EveryRequestAnswered == \A c \in Reader : kind[c] # "none" ~> kind[c] = "none"

(* registry/PACKAGE_FORMAT.md:15 has a version reproducible: as long as    *)
(* nobody writes to the tree its digest stays the same, over restarts too, *)
(* whichever requests are under way and whichever builds fail half-way.    *)
Reproducible == writes = 0 => \A r \in Release : Cardinality(ever[r]) <= 1

(* What that line says of a package version without a condition.  The tools *)
(* write released files in place (packageupgrade/main.go:84), and the      *)
(* first archive of a release is kept by one process only.                 *)
VersionIsReproducible == \A r \in Release : Cardinality(ever[r]) <= 1

Registry == INSTANCE PinnedReleases WITH pinned <- items, None <- NoArchive

(* The registry keeps its contract with clients: whatever is told of a     *)
(* release, in any reply and however many requests build it at once, is    *)
(* the one archive that it was pinned to; a build, a failed one and the    *)
(* tools' writes are nothing to a client.                                  *)
ImplementsPinnedReleases == Registry!Spec
=============================================================================
