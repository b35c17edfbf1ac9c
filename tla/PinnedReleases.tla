--------------------------- MODULE PinnedReleases ---------------------------
(***************************************************************************)
(* What the registry promises its clients, with no tree, no walk and no    *)
(* mutex: each release is pinned to one archive at most, once and for the  *)
(* life of the process, and only the digests of pinned archives are told.  *)
(* RegistryServe implements this.                                          *)
(***************************************************************************)
CONSTANTS Release, Archive, None

VARIABLES
    pinned,     \* the archive of each release
    told        \* the archives of each release whose digests clients were told

vars == <<pinned, told>>

Init ==
    /\ pinned = [r \in Release |-> None]
    /\ told = [r \in Release |-> {}]

Pin(r, a) ==
    /\ pinned[r] = None /\ pinned' = [pinned EXCEPT ![r] = a]
    /\ UNCHANGED told

(* One reply may be about many releases.                                   *)
Tell(R) ==
    /\ \A r \in R : pinned[r] # None
    /\ told' = [r \in Release |-> IF r \in R THEN told[r] \union {pinned[r]} ELSE told[r]]
    /\ UNCHANGED pinned

Restart ==
    /\ pinned' = [r \in Release |-> None]
    /\ told' = [r \in Release |-> {}]

Next ==
    \/ \E r \in Release, a \in Archive : Pin(r, a)
    \/ \E R \in SUBSET Release : Tell(R)
    \/ Restart

Spec == Init /\ [][Next]_vars
=============================================================================
