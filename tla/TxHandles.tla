----------------------------- MODULE TxHandles -----------------------------
(***************************************************************************)
(* What the database half of the host bridge promises a client, with no    *)
(* mutex, no pool and no goroutine: handles that are opened once and       *)
(* closed once, each with at most one transaction, whose rows reach the    *)
(* store together at its commit or never.  DBHost implements this.         *)
(***************************************************************************)
EXTENDS Naturals

CONSTANTS Id, Row

VARIABLES
    phase,      \* unopened, idle, intx, doomed (rolled back under the client) or closed
    pending,    \* the rows of each handle's open transaction
    store       \* the committed rows

vars == <<phase, pending, store>>

Phase == {"unopened", "idle", "intx", "doomed", "closed"}

Fresh == Row \ (store \union UNION {pending[i] : i \in Id})

Init ==
    /\ phase = [i \in Id |-> "unopened"]
    /\ pending = [i \in Id |-> {}]
    /\ store = {}

Moves(i, from, to) == phase[i] \in from /\ phase' = [phase EXCEPT ![i] = to]
Forget(i) == pending' = [pending EXCEPT ![i] = {}]

Open(i)  == Moves(i, {"unopened"}, "idle") /\ UNCHANGED <<pending, store>>

Begin(i) == Moves(i, {"idle"}, "intx") /\ UNCHANGED <<pending, store>>

(* A statement outside a transaction commits by itself.                    *)
Autocommit(i) ==
    /\ phase[i] = "idle"
    /\ \E r \in Fresh : store' = store \union {r}
    /\ UNCHANGED <<phase, pending>>

Write(i) ==
    /\ phase[i] = "intx"
    /\ \E r \in Fresh : pending' = [pending EXCEPT ![i] = @ \union {r}]
    /\ UNCHANGED <<phase, store>>

(* The transaction is rolled back before the client asked for it; the      *)
(* client has still to finish it.                                          *)
Doom(i) == Moves(i, {"intx"}, "doomed") /\ Forget(i) /\ UNCHANGED store

Commit(i) ==
    /\ Moves(i, {"intx"}, "idle")
    /\ store' = store \union pending[i]
    /\ Forget(i)

Abandon(i) == Moves(i, {"intx", "doomed"}, "idle") /\ Forget(i) /\ UNCHANGED store

Close(i) == Moves(i, {"idle", "intx", "doomed"}, "closed") /\ Forget(i) /\ UNCHANGED store

Next == \E i \in Id :
    \/ Open(i) \/ Begin(i) \/ Autocommit(i) \/ Write(i)
    \/ Doom(i) \/ Commit(i) \/ Abandon(i) \/ Close(i)

Spec == Init /\ [][Next]_vars
=============================================================================
