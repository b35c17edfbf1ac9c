------------------------------- MODULE DBHost -------------------------------
(***************************************************************************)
(* The database half of the host bridge (internal/hostbridge/db.go): a     *)
(* table of numbered handles, each a connection pool with at most one open *)
(* transaction, behind one mutex that is held across driver calls, and the *)
(* part of database/sql the code leans on: a pool of bounded size, and     *)
(* transactions that their context ends behind the host's back.            *)
(*                                                                         *)
(* Calls are made by concurrent Callers.  A call takes the mutex in an     *)
(* Enter action, which does what the code does before its driver call, and *)
(* returns in a second action, which is that driver call and the rest.     *)
(* Rows of the database are abstract and each is written once, so that     *)
(* what became of every write can be told from the committed store.        *)
(***************************************************************************)
EXTENDS Naturals, FiniteSets

CONSTANTS
    Caller,         \* goroutines that call the host
    Pool,           \* identities for *sql.DB values, used again once closed
    Tx,             \* identities for *sql.Tx values, used again once dropped
    Row,            \* rows that statements may insert
    MaxOpens,       \* bound: how many handles are opened in a behaviour
    MaxHandles,     \* 8 in the code
    MaxOpenConns,   \* 3 in the code
    Nobody, NoPool, NoTx

ASSUME NoneAssumption == Nobody \notin Caller /\ NoPool \notin Pool /\ NoTx \notin Tx
ASSUME BoundAssumption == MaxOpens \in Nat /\ MaxHandles \in Nat /\ MaxOpenConns \in Nat
ASSUME FiniteAssumption == IsFiniteSet(Tx) /\ IsFiniteSet(Caller)

Id == 1..MaxOpens

VARIABLES
    mu,         \* the caller that holds DBHost.mu across a driver call
    current,    \* DBHost.current, the last id given out
    handles,    \* the keys of DBHost.handles
    dbOf,       \* handle.db of each id's struct
    txOf,       \* handle.tx of each id's struct
    pools,      \* the *sql.DB values that are open
    txState,    \* of each *sql.Tx: none, live (it has a connection) or done
    txPool,     \* the pool whose connection a live transaction has
    ended,      \* transactions whose BeginTx context is cancelled or expired
    writes,     \* the rows a live transaction has written
    store,      \* the committed rows
    acked,      \* rows whose commit was reported to a caller as done
    discarded,  \* rows whose rollback was reported to a caller as done
    pc, op,     \* where each caller is, and in which operation
    arg,        \* the handle id of its call
    newDb,      \* the pool its Open is building
    held,       \* the local variable tx of finish
    todo,       \* the ids its CloseAll has yet to close
    res         \* what its last call returned

hostVars  == <<mu, current, handles, dbOf, txOf>>
txVars    == <<txState, txPool, ended, writes>>
dataVars  == <<store, acked, discarded>>
frameVars == <<pc, op, arg, newDb, held, todo, res>>
vars == <<hostVars, pools, txVars, dataVars, frameVars>>

Op == {"none", "open", "begin", "commit", "rollback", "statement", "close", "closeall"}
InCall == {"ping", "register", "enter", "begin", "finish", "statement",
           "detached", "shut", "sweep"}
DriverCall == {"begin", "finish", "statement"}    \* made with mu held

HostTypeOK ==
    /\ mu \in Caller \union {Nobody}
    /\ current \in 0..MaxOpens
    /\ handles \subseteq 1..current
    /\ dbOf \in [Id -> Pool \union {NoPool}]
    /\ txOf \in [Id -> Tx \union {NoTx}]
    /\ pools \subseteq Pool

TxTypeOK ==
    /\ txState \in [Tx -> {"none", "live", "done"}]
    /\ txPool \in [Tx -> Pool \union {NoPool}]
    /\ ended \subseteq Tx
    /\ writes \in [Tx -> SUBSET Row]

DataTypeOK == store \subseteq Row /\ acked \subseteq Row /\ discarded \subseteq Row

FrameTypeOK ==
    /\ pc \in [Caller -> InCall \union {"idle"}]
    /\ op \in [Caller -> Op]
    /\ arg \in [Caller -> Id \union {0}]
    /\ newDb \in [Caller -> Pool \union {NoPool}]
    /\ held \in [Caller -> Tx \union {NoTx}]
    /\ todo \in [Caller -> SUBSET Id]
    /\ res \in [Caller -> {"none", "ok", "error"}]

TypeOK == HostTypeOK /\ TxTypeOK /\ DataTypeOK /\ FrameTypeOK

Init ==
    /\ mu = Nobody /\ current = 0 /\ handles = {}
    /\ dbOf = [i \in Id |-> NoPool] /\ txOf = [i \in Id |-> NoTx]
    /\ pools = {}
    /\ txState = [t \in Tx |-> "none"] /\ txPool = [t \in Tx |-> NoPool]
    /\ ended = {} /\ writes = [t \in Tx |-> {}]
    /\ store = {} /\ acked = {} /\ discarded = {}
    /\ pc = [c \in Caller |-> "idle"] /\ op = [c \in Caller |-> "none"]
    /\ arg = [c \in Caller |-> 0] /\ newDb = [c \in Caller |-> NoPool]
    /\ held = [c \in Caller |-> NoTx] /\ todo = [c \in Caller |-> {}]
    /\ res = [c \in Caller |-> "none"]

-----------------------------------------------------------------------------
(* What a caller's stack does.                                             *)

Goto(c, l) == pc' = [pc EXCEPT ![c] = l]

Call(c, o, l, i) ==
    /\ pc[c] = "idle" /\ Goto(c, l)
    /\ op' = [op EXCEPT ![c] = o]
    /\ arg' = [arg EXCEPT ![c] = i]
    /\ res' = [res EXCEPT ![c] = "none"]

Return(c, r) ==
    /\ Goto(c, "idle")
    /\ op' = [op EXCEPT ![c] = "none"]
    /\ arg' = [arg EXCEPT ![c] = 0]
    /\ newDb' = [newDb EXCEPT ![c] = NoPool]
    /\ held' = [held EXCEPT ![c] = NoTx]
    /\ todo' = [todo EXCEPT ![c] = {}]
    /\ res' = [res EXCEPT ![c] = r]

(* Close returns to CloseAll's loop when CloseAll called it.               *)
CloseReturns(c, r) ==
    \/ op[c] = "close" /\ Return(c, r)
    \/ op[c] = "closeall" /\ Goto(c, "sweep")
                          /\ UNCHANGED <<op, arg, newDb, held, todo, res>>

(* A call that is refused before it reaches the table.                     *)
Refused(c) ==
    /\ pc[c] = "idle"
    /\ res' = [res EXCEPT ![c] = "error"]
    /\ UNCHANGED <<hostVars, pools, txVars, dataVars, pc, op, arg, newDb, held, todo>>

(* The database is unknown, not configured or not linked.                  *)
OpenRefused(c) == Refused(c)

(* The SQL or one of its parameters does not pass checkSQL and sqlArgs.    *)
StatementRefused(c) == Refused(c)

-----------------------------------------------------------------------------
(* Open: build a pool, ping it without the mutex, then register it.        *)

Opening == {c \in Caller : op[c] = "open"}

OpenPool(c) ==
    /\ current + Cardinality(Opening) < MaxOpens    \* bound, not in the code
    /\ Call(c, "open", "ping", 0)
    /\ \E p \in Pool \ pools :
        /\ pools' = pools \union {p}
        /\ newDb' = [newDb EXCEPT ![c] = p]
    /\ UNCHANGED <<hostVars, txVars, dataVars, held, todo>>

PingFails(c) ==
    /\ pc[c] = "ping"
    /\ pools' = pools \ {newDb[c]}
    /\ Return(c, "error")
    /\ UNCHANGED <<hostVars, txVars, dataVars>>

PingAnswers(c) ==
    /\ pc[c] = "ping" /\ Goto(c, "register")
    /\ UNCHANGED <<hostVars, pools, txVars, dataVars, op, arg, newDb, held, todo, res>>

(* Mutant: the limit off by one.                                           *)
TableFullLate == Cardinality(handles) > MaxHandles

TableFull == Cardinality(handles) >= MaxHandles

(* Mutant: the pool is not closed when the table is full.                  *)
RegisterRefusedLeaks(c) ==
    /\ pc[c] = "register" /\ mu = Nobody /\ TableFull
    /\ Return(c, "error")
    /\ UNCHANGED <<hostVars, pools, txVars, dataVars>>

RegisterRefused(c) ==
    /\ pc[c] = "register" /\ mu = Nobody /\ TableFull
    /\ pools' = pools \ {newDb[c]}
    /\ Return(c, "error")
    /\ UNCHANGED <<hostVars, txVars, dataVars>>

(* Mutant: handles numbered by the size of the table.                      *)
NextHandleByCount == Cardinality(handles) + 1

(* Mutant: h.current++ left out.                                           *)
NextHandleStays == current

NextHandle == current + 1

(* Mutant: a deadline looked at after the handle is in the table.          *)
RegisterTooLate(c) ==
    /\ pc[c] = "register" /\ mu = Nobody /\ ~TableFull
    /\ current' = NextHandle
    /\ handles' = handles \union {NextHandle}
    /\ dbOf' = [dbOf EXCEPT ![NextHandle] = newDb[c]]
    /\ \E r \in {"ok", "error"} : Return(c, r)
    /\ UNCHANGED <<mu, txOf, pools, txVars, dataVars>>

Register(c) ==
    /\ pc[c] = "register" /\ mu = Nobody /\ ~TableFull
    /\ current' = NextHandle
    /\ handles' = handles \union {NextHandle}
    /\ dbOf' = [dbOf EXCEPT ![NextHandle] = newDb[c]]
    /\ txOf' = [txOf EXCEPT ![NextHandle] = NoTx]
    /\ Return(c, "ok")
    /\ UNCHANGED <<mu, pools, txVars, dataVars>>

-----------------------------------------------------------------------------
(* The operations on a handle.                                             *)

Request(c) ==
    /\ \E o \in {"begin", "commit", "rollback", "statement", "close"}, i \in Id :
        Call(c, o, "enter", i)
    /\ UNCHANGED <<hostVars, pools, txVars, dataVars, newDb, held, todo>>

Acquires(c, o) == pc[c] = "enter" /\ op[c] \in o /\ mu = Nobody

(* The early returns.                                                      *)
BeginRefused(c) ==
    /\ Acquires(c, {"begin"})
    /\ arg[c] \notin handles \/ txOf[arg[c]] # NoTx
    /\ Return(c, "error")
    /\ UNCHANGED <<hostVars, pools, txVars, dataVars>>

FinishRefused(c) ==
    /\ Acquires(c, {"commit", "rollback"})
    /\ arg[c] \notin handles \/ txOf[arg[c]] = NoTx
    /\ Return(c, "error")
    /\ UNCHANGED <<hostVars, pools, txVars, dataVars>>

NoSuchHandle(c) ==
    /\ Acquires(c, {"statement"}) /\ arg[c] \notin handles
    /\ Return(c, "error")
    /\ UNCHANGED <<hostVars, pools, txVars, dataVars>>

(* Mutant: Begin does not look at state.tx.                                *)
EnterBeginNested(c) ==
    /\ Acquires(c, {"begin"}) /\ arg[c] \in handles
    /\ mu' = c /\ Goto(c, "begin")
    /\ UNCHANGED <<current, handles, dbOf, txOf, pools, txVars, dataVars>>
    /\ UNCHANGED <<op, arg, newDb, held, todo, res>>

EnterBegin(c) ==
    /\ Acquires(c, {"begin"}) /\ arg[c] \in handles /\ txOf[arg[c]] = NoTx
    /\ mu' = c /\ Goto(c, "begin")
    /\ UNCHANGED <<current, handles, dbOf, txOf, pools, txVars, dataVars>>
    /\ UNCHANGED <<op, arg, newDb, held, todo, res>>

EnterFinish(c) ==
    /\ Acquires(c, {"commit", "rollback"}) /\ arg[c] \in handles /\ txOf[arg[c]] # NoTx
    /\ mu' = c /\ Goto(c, "finish")
    /\ held' = [held EXCEPT ![c] = txOf[arg[c]]]
    /\ txOf' = [txOf EXCEPT ![arg[c]] = NoTx]
    /\ UNCHANGED <<current, handles, dbOf, pools, txVars, dataVars>>
    /\ UNCHANGED <<op, arg, newDb, todo, res>>

(* Mutant: Exec uses the mutex only to look the handle up (as acquire).    *)
EnterStatementUnlocked(c) ==
    /\ Acquires(c, {"statement"}) /\ arg[c] \in handles
    /\ Goto(c, "statement")
    /\ UNCHANGED <<hostVars, pools, txVars, dataVars>>
    /\ UNCHANGED <<op, arg, newDb, held, todo, res>>

EnterStatement(c) ==
    /\ Acquires(c, {"statement"}) /\ arg[c] \in handles
    /\ mu' = c /\ Goto(c, "statement")
    /\ UNCHANGED <<current, handles, dbOf, txOf, pools, txVars, dataVars>>
    /\ UNCHANGED <<op, arg, newDb, held, todo, res>>

(* A driver call returns: the deferred unlock and the result.              *)
Leave(c, r) == mu' = Nobody /\ Return(c, r)

-----------------------------------------------------------------------------
(* database/sql: a pool lends at most MaxOpenConns connections, and each   *)
(* live transaction keeps one.                                             *)

Live == {t \in Tx : txState[t] = "live"}
Lent(p) == {t \in Live : txPool[t] = p}
ConnectionFree(p) == p \in pools /\ Cardinality(Lent(p)) < MaxOpenConns
Fresh == Row \ (store \union discarded \union UNION {writes[t] : t \in Tx})
Inserts == {{}} \union {{r} : r \in Fresh}

(* The transaction stops having a connection and loses what it wrote.      *)
Release(t, s) ==
    /\ txState' = [txState EXCEPT ![t] = s]
    /\ txPool' = [txPool EXCEPT ![t] = NoPool]
    /\ writes' = [writes EXCEPT ![t] = {}]
    /\ ended' = ended \ {t}

Drop(t) == Release(t, "none")

BeginTx(c) ==
    /\ pc[c] = "begin" /\ ConnectionFree(dbOf[arg[c]])
    /\ \E t \in Tx :
        /\ txState[t] = "none"
        /\ txState' = [txState EXCEPT ![t] = "live"]
        /\ txPool' = [txPool EXCEPT ![t] = dbOf[arg[c]]]
        /\ txOf' = [txOf EXCEPT ![arg[c]] = t]
    /\ Leave(c, "ok")
    /\ UNCHANGED <<current, handles, dbOf, pools, ended, writes, dataVars>>

(* Mutant: the error path of Begin does not unlock.                        *)
BeginFailsLocked(c) ==
    /\ pc[c] = "begin" /\ Return(c, "error")
    /\ UNCHANGED <<hostVars, pools, txVars, dataVars>>

BeginFails(c) ==
    /\ pc[c] = "begin" /\ Leave(c, "error")
    /\ UNCHANGED <<current, handles, dbOf, txOf, pools, txVars, dataVars>>

(* Exec and Query inside the handle's transaction.  A statement can fail   *)
(* after its writes, and one on a transaction already rolled back does.    *)
TxStatement(c) ==
    LET t == txOf[arg[c]] IN
    /\ pc[c] = "statement" /\ t # NoTx
    /\ \/ /\ t \in Live
          /\ \E R \in Inserts : writes' = [writes EXCEPT ![t] = @ \union R]
          /\ \E r \in {"ok", "error"} : Leave(c, r)
       \/ t \notin Live /\ Leave(c, "error") /\ UNCHANGED writes
    /\ UNCHANGED <<current, handles, dbOf, txOf, pools, txState, txPool, ended, dataVars>>

(* Mutant: Exec always runs on the pool.                                   *)
AutoStatementAlways(c) ==
    /\ pc[c] = "statement" /\ ConnectionFree(dbOf[arg[c]])
    /\ \E R \in Inserts :
        /\ store' = store \union R
        /\ acked' = acked \union R
    /\ Leave(c, "ok")
    /\ UNCHANGED <<current, handles, dbOf, txOf, pools, txVars, discarded>>

(* Exec and Query outside a transaction commit at once; the answer may be  *)
(* lost after that.                                                        *)
AutoStatement(c) ==
    /\ pc[c] = "statement" /\ txOf[arg[c]] = NoTx /\ ConnectionFree(dbOf[arg[c]])
    /\ \E R \in Inserts :
        /\ store' = store \union R
        /\ \/ acked' = acked \union R /\ Leave(c, "ok")
           \/ acked' = acked /\ Leave(c, "error")
    /\ UNCHANGED <<current, handles, dbOf, txOf, pools, txVars, discarded>>

AutoStatementFails(c) ==
    /\ pc[c] = "statement" /\ txOf[arg[c]] = NoTx /\ Leave(c, "error")
    /\ UNCHANGED <<current, handles, dbOf, txOf, pools, txVars, dataVars>>

(* Tx.Commit looks at the context first: it refuses a cancelled one, and   *)
(* then the transaction stays live until AwaitDone rolls it back.          *)
CommitRefused(c) ==
    LET t == held[c] IN
    /\ pc[c] = "finish" /\ op[c] = "commit"
    /\ \/ t \in Live /\ t \in ended /\ UNCHANGED txVars
       \/ t \notin Live /\ Drop(t)
    /\ Leave(c, "error")
    /\ UNCHANGED <<current, handles, dbOf, txOf, pools, dataVars>>

(* Mutant: the error of tx.Commit is not looked at.                        *)
CommitUnchecked(c) ==
    LET t == held[c] IN
    /\ pc[c] = "finish" /\ op[c] = "commit" /\ t \in Live /\ t \notin ended
    /\ store' \in {store, store \union writes[t]}
    /\ acked' = acked \union writes[t] /\ Leave(c, "ok")
    /\ Drop(t)
    /\ UNCHANGED <<current, handles, dbOf, txOf, pools, discarded>>

(* The database commits, or commits and the answer is lost, or does not.   *)
Commit(c) ==
    LET t == held[c] IN
    /\ pc[c] = "finish" /\ op[c] = "commit" /\ t \in Live /\ t \notin ended
    /\ \/ store' = store \union writes[t] /\ acked' = acked \union writes[t] /\ Leave(c, "ok")
       \/ store' = store \union writes[t] /\ acked' = acked /\ Leave(c, "error")
       \/ UNCHANGED <<store, acked>> /\ Leave(c, "error")
    /\ Drop(t)
    /\ UNCHANGED <<current, handles, dbOf, txOf, pools, discarded>>

(* Tx.Rollback does not look at the context.                               *)
Rollback(c) ==
    LET t == held[c] IN
    /\ pc[c] = "finish" /\ op[c] = "rollback"
    /\ \/ t \in Live /\ discarded' = discarded \union writes[t] /\ Leave(c, "ok")
       \/ discarded' = discarded /\ Leave(c, "error")
    /\ Drop(t)
    /\ UNCHANGED <<current, handles, dbOf, txOf, pools, store, acked>>

(* The context given to BeginTx ends: a deadline, or the caller's cancel.  *)
ContextEnds(t) ==
    /\ t \in Live /\ t \notin ended
    /\ ended' = ended \union {t}
    /\ UNCHANGED <<hostVars, pools, txState, txPool, writes, dataVars, frameVars>>

Referenced(t) == (\E i \in Id : txOf[i] = t) \/ (\E c \in Caller : held[c] = t)

(* Tx.awaitDone, the goroutine database/sql starts for every transaction.  *)
AwaitDone(t) ==
    /\ t \in Live /\ t \in ended
    /\ Release(t, IF Referenced(t) THEN "done" ELSE "none")
    /\ UNCHANGED <<hostVars, pools, dataVars, frameVars>>

-----------------------------------------------------------------------------
(* Close takes the handle out of the table and then, without the mutex,    *)
(* rolls back the transaction it still points to and closes the pool.      *)

CloseRefused(c) ==
    /\ Acquires(c, {"close", "closeall"}) /\ arg[c] \notin handles
    /\ CloseReturns(c, "error")
    /\ UNCHANGED <<hostVars, pools, txVars, dataVars>>

(* Mutant: the handle is looked up, but not deleted, before the unlock.    *)
DetachShared(c) ==
    /\ Acquires(c, {"close", "closeall"}) /\ arg[c] \in handles
    /\ Goto(c, "detached")
    /\ UNCHANGED <<hostVars, pools, txVars, dataVars>>
    /\ UNCHANGED <<op, arg, newDb, held, todo, res>>

Detach(c) ==
    /\ Acquires(c, {"close", "closeall"}) /\ arg[c] \in handles
    /\ handles' = handles \ {arg[c]}
    /\ Goto(c, "detached")
    /\ UNCHANGED <<mu, current, dbOf, txOf, pools, txVars, dataVars>>
    /\ UNCHANGED <<op, arg, newDb, held, todo, res>>

(* Mutant: the transaction is forgotten, not rolled back.                  *)
CloseRollbackSkipped(c) ==
    /\ pc[c] = "detached" /\ Goto(c, "shut")
    /\ txOf' = [txOf EXCEPT ![arg[c]] = NoTx]
    /\ UNCHANGED <<mu, current, handles, dbOf, pools, txVars, dataVars>>
    /\ UNCHANGED <<op, arg, newDb, held, todo, res>>

CloseRollback(c) ==
    LET t == txOf[arg[c]] IN
    /\ pc[c] = "detached" /\ Goto(c, "shut")
    /\ \/ t # NoTx /\ discarded' = discarded \union writes[t] /\ Drop(t)
       \/ t = NoTx /\ UNCHANGED <<txVars, discarded>>
    /\ txOf' = [txOf EXCEPT ![arg[c]] = NoTx]    \* nothing reads state.tx again
    /\ UNCHANGED <<mu, current, handles, dbOf, pools, store, acked>>
    /\ UNCHANGED <<op, arg, newDb, held, todo, res>>

ClosePool(c) ==
    /\ pc[c] = "shut"
    /\ pools' = pools \ {dbOf[arg[c]]}
    /\ dbOf' = [dbOf EXCEPT ![arg[c]] = NoPool]  \* the struct is garbage
    /\ CloseReturns(c, "ok")
    /\ UNCHANGED <<mu, current, handles, txOf, txVars, dataVars>>

(* CloseAll lists the ids under the mutex and then closes one by one.      *)
CloseAllLists(c) ==
    /\ mu = Nobody
    /\ Call(c, "closeall", "sweep", 0)
    /\ todo' = [todo EXCEPT ![c] = handles]
    /\ UNCHANGED <<hostVars, pools, txVars, dataVars, newDb, held>>

CloseAllNext(c) ==
    /\ pc[c] = "sweep" /\ Goto(c, "enter")
    /\ \E i \in todo[c] : /\ arg' = [arg EXCEPT ![c] = i]
                          /\ todo' = [todo EXCEPT ![c] = @ \ {i}]
    /\ UNCHANGED <<hostVars, pools, txVars, dataVars, op, newDb, held, res>>

(* Mutant: the loop stops before its end, as on a first error.             *)
CloseAllEndsEarly(c) ==
    /\ pc[c] = "sweep"
    /\ Return(c, "ok")
    /\ UNCHANGED <<hostVars, pools, txVars, dataVars>>

CloseAllEnds(c) ==
    /\ pc[c] = "sweep" /\ todo[c] = {}
    /\ Return(c, "ok")
    /\ UNCHANGED <<hostVars, pools, txVars, dataVars>>

-----------------------------------------------------------------------------
Ping(c)     == PingFails(c) \/ PingAnswers(c)
EnterRefused(c) == BeginRefused(c) \/ FinishRefused(c) \/ NoSuchHandle(c)
Enter(c)    == EnterRefused(c) \/ EnterBegin(c) \/ EnterFinish(c) \/ EnterStatement(c)
Locks(c)    == RegisterRefused(c) \/ Register(c) \/ Enter(c) \/ CloseRefused(c) \/ Detach(c)
Answers(c)  == \/ BeginTx(c) \/ TxStatement(c) \/ AutoStatement(c)
               \/ CommitRefused(c) \/ Commit(c) \/ Rollback(c)
DriverFails(c) == BeginFails(c) \/ AutoStatementFails(c)
Driver(c)   == Answers(c) \/ DriverFails(c)
Unlocked(c) == CloseRollback(c) \/ ClosePool(c) \/ CloseAllNext(c) \/ CloseAllEnds(c)
Refuse(c)   == OpenRefused(c) \/ StatementRefused(c)
Start(c)    == Refuse(c) \/ OpenPool(c) \/ Request(c) \/ CloseAllLists(c)

CallerStep(c) == Start(c) \/ Ping(c) \/ Locks(c) \/ Driver(c) \/ Unlocked(c)
TxStep(t)     == ContextEnds(t) \/ AwaitDone(t)

Next == (\E c \in Caller : CallerStep(c)) \/ (\E t \in Tx : TxStep(t))

Spec == Init /\ [][Next]_vars

(* A goroutine that can run does; sync.Mutex hands itself to a waiter that *)
(* has starved for a millisecond; database/sql's awaitDone always runs.    *)
(* No fairness for failures: a driver call that waits for a connection is  *)
(* answered only when there is one.                                        *)
Fairness ==
    /\ \A c \in Caller :
        /\ WF_vars(Ping(c)) /\ SF_vars(Locks(c)) /\ WF_vars(Unlocked(c))
        /\ WF_vars(Answers(c))
    /\ \A t \in Tx : WF_vars(AwaitDone(t))

FairSpec == Spec /\ Fairness

-----------------------------------------------------------------------------
(* The table never holds more handles than the limit of db.go:84, though   *)
(* every Open tests it long after it built its pool.                       *)
HandleLimit == Cardinality(handles) <= MaxHandles

(* Every open pool belongs to a registered handle, to a Close that has not *)
(* reached db.Close, or to an Open that has not returned: no failure of    *)
(* Open and no race of Close with other calls leaks a pool, and no two of  *)
(* them share one.                                                         *)
Closing(i) == \E c \in Caller : pc[c] \in {"detached", "shut"} /\ arg[c] = i
PoolsAccounted ==
    /\ pools = {dbOf[i] : i \in {j \in Id : j \in handles \/ Closing(j)}}
               \union {newDb[c] : c \in Opening}
    /\ \A i, j \in handles : dbOf[i] = dbOf[j] => i = j

(* A driver call works on a registered handle whose pool is open, whatever *)
(* other callers close meanwhile (the mutex is held across the call).      *)
NoUseAfterClose ==
    \A c \in Caller : pc[c] \in DriverCall =>
        arg[c] \in handles /\ dbOf[arg[c]] \in pools

(* A transaction whose context has not ended can still be finished: it is  *)
(* the transaction of a registered handle, or is in the hands of a commit, *)
(* rollback or close.  Otherwise it would keep its connection for ever.    *)
TxAccounted ==
    \A t \in Live \ ended :
        \/ \E i \in handles : txOf[i] = t /\ dbOf[i] = txPool[t]
        \/ \E i \in Id : txOf[i] = t /\ Closing(i)
        \/ \E c \in Caller : pc[c] = "finish" /\ held[c] = t

(* What a commit or a statement outside a transaction reported as done is  *)
(* in the database, and what a rollback or a close reported as discarded   *)
(* is not and never comes back.                                            *)
AnswersTrue == acked \subseteq store /\ discarded \intersect store = {}

(* The struct that Close holds after it unlocked is its own: no other      *)
(* closer has the same handle and nobody begins a transaction in it.       *)
CloseOwnsState ==
    \A c \in Caller : pc[c] \in {"detached", "shut"} =>
        /\ \A d \in Caller \ {c} : pc[d] \in DriverCall \union {"detached", "shut"} => arg[d] # arg[c]
        /\ pc[c] = "shut" => txOf[arg[c]] = NoTx

(* A handle number means one pool from Open to Close and nothing after     *)
(* that: a client that keeps a closed number never reaches another pool.   *)
HandlesNeverReused ==
    [][\A i \in Id :
        /\ i \in handles /\ i \in handles' => dbOf'[i] = dbOf[i]
        /\ i \in handles' /\ i \notin handles => i > current]_vars

(* The client's view of each handle.  A transaction that a commit or a     *)
(* rollback has taken out of the struct is the handle's until it is done.  *)
CurrentTx(i) ==
    IF \E c \in Caller : pc[c] = "finish" /\ arg[c] = i
    THEN held[CHOOSE c \in Caller : pc[c] = "finish" /\ arg[c] = i]
    ELSE txOf[i]

Phase(i) ==
    CASE i > current               -> "unopened"
      [] i <= current /\ i \notin handles -> "closed"
      [] i \in handles /\ CurrentTx(i) = NoTx    -> "idle"
      [] i \in handles /\ CurrentTx(i) \in Live  -> "intx"
      [] i \in handles /\ CurrentTx(i) \in Tx \ Live -> "doomed"

Pending(i) ==
    IF i \in handles /\ CurrentTx(i) \in Live THEN writes[CurrentTx(i)] ELSE {}

Client == INSTANCE TxHandles WITH
    phase <- [i \in Id |-> Phase(i)], pending <- [i \in Id |-> Pending(i)]

(* The host keeps the client's contract: rows of a transaction stay out of *)
(* the store until its commit and reach it all together or not at all,     *)
(* whatever other callers, contexts and closes do.                         *)
ImplementsTxHandles == Client!Spec

(* Every call returns: no caller holds the mutex for ever waiting for a    *)
(* connection that an abandoned transaction keeps.                         *)
EveryCallReturns == \A c \in Caller : pc[c] # "idle" ~> pc[c] = "idle"
=============================================================================
