---------------------------- MODULE DBHostProofs ----------------------------
(***************************************************************************)
(* The safety of DBHost for every number of callers, pools, transactions,  *)
(* rows and handles.                                                       *)
(***************************************************************************)
EXTENDS DBHost, FiniteSetTheorems, TLAPS

OnHandle == {"enter", "begin", "finish", "statement", "detached", "shut"}
InClose  == {"detached", "shut"}

(* Where a caller is, in which operation, and which locals are set.        *)
FrameOK == \A c \in Caller :
    /\ pc[c] \in {"ping", "register"} <=> op[c] = "open"
    /\ pc[c] \in OnHandle => arg[c] \in Id
    /\ pc[c] = "begin" => op[c] = "begin"
    /\ pc[c] = "finish" <=> held[c] # NoTx
    /\ pc[c] = "finish" => op[c] \in {"commit", "rollback"}
    /\ pc[c] = "statement" => op[c] = "statement"
    /\ pc[c] \in InClose => op[c] \in {"close", "closeall"}
    /\ pc[c] = "sweep" => op[c] = "closeall"
    /\ op[c] = "open" <=> newDb[c] # NoPool

(* The mutex is held exactly across the driver calls.                      *)
MutexOK == \A c \in Caller : pc[c] \in DriverCall <=> mu = c

(* The bound on opens leaves a number for every Open under way.            *)
BoundOK == current + Cardinality(Opening) <= MaxOpens

(* Driver calls are on registered handles, closes on handles that were     *)
(* registered and are no more, and no two closes on the same one.          *)
TableOK ==
    /\ \A c \in Caller : pc[c] \in DriverCall => arg[c] \in handles
    /\ \A c \in Caller : pc[c] \in InClose => arg[c] \in (1..current) \ handles
    /\ \A c, d \in Caller : pc[c] \in InClose /\ pc[d] \in InClose /\ arg[c] = arg[d] => c = d

(* Who owns the open pools.                                                *)
Owners == handles \union {i \in Id : Closing(i)}
PoolOK ==
    /\ \A i \in Owners : dbOf[i] \in pools
    /\ \A i, j \in Owners : dbOf[i] = dbOf[j] => i = j
    /\ \A c \in Opening : newDb[c] \in pools
    /\ \A c, d \in Opening : newDb[c] = newDb[d] => c = d
    /\ \A i \in Owners, c \in Opening : dbOf[i] # newDb[c]
    /\ \A p \in pools : (\E i \in Owners : dbOf[i] = p) \/ (\E c \in Opening : newDb[c] = p)

(* Who refers to each transaction: one struct or one finishing call.       *)
TxOK ==
    /\ ended \subseteq Live
    /\ \A i \in Id : txOf[i] # NoTx => i \in Owners /\ txState[txOf[i]] # "none"
    /\ \A i, j \in Id : txOf[i] # NoTx /\ txOf[i] = txOf[j] => i = j
    /\ \A c \in Caller : pc[c] = "finish" =>
         txState[held[c]] # "none" /\ \A i \in Id : txOf[i] # held[c]
    /\ \A i \in Id : txOf[i] \in Live => txPool[txOf[i]] = dbOf[i]
    /\ \A c \in Caller : pc[c] \in {"begin", "finish", "shut"} => txOf[arg[c]] = NoTx
    /\ \A t \in Live \ ended :
         (\E i \in Id : txOf[i] = t) \/ (\E c \in Caller : pc[c] = "finish" /\ held[c] = t)

(* Every row is in one place.                                              *)
RowOK ==
    /\ \A t \in Tx : t \notin Live => writes[t] = {}
    /\ \A t \in Tx : writes[t] \intersect (store \union discarded) = {}
    /\ \A t, u \in Tx : t # u => writes[t] \intersect writes[u] = {}
    /\ AnswersTrue

-----------------------------------------------------------------------------
(* A call that returns leaves a well-formed frame.                         *)
LEMMA ReturnFrame ==
  ASSUME FrameTypeOK, FrameOK, NEW c \in Caller, NEW r \in {"ok", "error"}, Return(c, r)
  PROVE  FrameTypeOK' /\ FrameOK' /\ pc' = [pc EXCEPT ![c] = "idle"]
<1>1. FrameTypeOK'
  BY DEF FrameTypeOK, Return, Goto, InCall, Op, Id
<1>2. FrameOK'
  BY NoneAssumption DEF FrameOK, FrameTypeOK, Return, Goto, OnHandle, InClose
<1>3. QED
  BY <1>1, <1>2 DEF Return, Goto

LEMMA CloseReturnFrame ==
  ASSUME FrameTypeOK, FrameOK, NEW c \in Caller, NEW r \in {"ok", "error"}, CloseReturns(c, r),
         pc[c] \in {"enter", "shut"}
  PROVE  /\ FrameTypeOK' /\ FrameOK'
         /\ pc' \in {[pc EXCEPT ![c] = "idle"], [pc EXCEPT ![c] = "sweep"]}
<1>1. CASE op[c] = "close"
  BY <1>1, ReturnFrame DEF CloseReturns
<1>2. CASE op[c] = "closeall"
  <2>1. Goto(c, "sweep") /\ UNCHANGED <<op, arg, newDb, held, todo, res>>
    BY <1>2 DEF CloseReturns
  <2>2. FrameTypeOK'
    BY <2>1 DEF FrameTypeOK, Goto, InCall
  <2>3. FrameOK'
    BY <1>2, <2>1 DEF FrameOK, FrameTypeOK, Goto, OnHandle, InClose
  <2>4. QED
    BY <2>1, <2>2, <2>3 DEF Goto
<1>3. QED
  BY <1>1, <1>2 DEF CloseReturns

LEMMA ReleaseType ==
  ASSUME TxTypeOK, NEW t, NEW s \in {"none", "done"}, Release(t, s)
  PROVE  TxTypeOK'
BY DEF TxTypeOK, Release

(* A driver call that returns gives the mutex back.                        *)
LEMMA LeaveFrame ==
  ASSUME FrameTypeOK, FrameOK, MutexOK, NEW c \in Caller, pc[c] \in DriverCall,
         NEW r \in {"ok", "error"}, Leave(c, r)
  PROVE  FrameTypeOK' /\ FrameOK' /\ MutexOK' /\ mu' = Nobody
<1>1. FrameTypeOK' /\ FrameOK' /\ pc' = [pc EXCEPT ![c] = "idle"] /\ mu' = Nobody
  BY ReturnFrame DEF Leave
<1>2. MutexOK'
  BY <1>1, NoneAssumption DEF MutexOK, DriverCall, FrameTypeOK
<1>3. QED
  BY <1>1, <1>2
(* The bound guards of OpenPool keep every number that Register gives out  *)
(* within Id.                                                              *)
LEMMA OpeningCounts ==
  ASSUME TypeOK, FrameOK, BoundOK, NEW c \in Caller, pc[c] \in {"ping", "register"}
  PROVE  current < MaxOpens
<1>1. c \in Opening
  BY DEF Opening, FrameOK
<1>2. IsFiniteSet(Opening)
  BY FiniteAssumption, FS_Subset DEF Opening
<1>3. Cardinality(Opening) \in Nat /\ Cardinality(Opening) # 0
  BY <1>1, <1>2, FS_CardinalityType, FS_EmptySet
<1>4. QED
  BY <1>3, BoundAssumption DEF BoundOK, TypeOK, HostTypeOK

TypeFrame == TypeOK /\ FrameOK /\ MutexOK

LEMMA TypeFrameCaller ==
  ASSUME TypeFrame, BoundOK, NEW c \in Caller, CallerStep(c)
  PROVE  TypeFrame'
<1> USE DEF TypeFrame, TypeOK
<1>1. CASE Refuse(c)
  <2>1. Refused(c)
    BY <1>1 DEF Refuse, OpenRefused, StatementRefused
  <2>2. FrameTypeOK'
    BY <2>1 DEF Refused, FrameTypeOK
  <2>3. QED
    BY <2>1, <2>2 DEF Refused, HostTypeOK, TxTypeOK, DataTypeOK, FrameOK, MutexOK,
       hostVars, txVars, dataVars
<1>2. CASE OpenPool(c)
  BY <1>2, NoneAssumption
  DEF OpenPool, Call,
     TypeOK, HostTypeOK, TxTypeOK, DataTypeOK, FrameTypeOK, FrameOK, MutexOK,
     Op, InCall, OnHandle, InClose, DriverCall, Id,
     hostVars, txVars, dataVars, Goto
<1>3. CASE Request(c)
  BY <1>3, NoneAssumption
  DEF Request, Call,
     TypeOK, HostTypeOK, TxTypeOK, DataTypeOK, FrameTypeOK, FrameOK, MutexOK,
     Op, InCall, OnHandle, InClose, DriverCall, Id,
     hostVars, txVars, dataVars, Goto
<1>4. CASE CloseAllLists(c)
  <2>1. handles \subseteq Id
    BY BoundAssumption DEF HostTypeOK, Id
  <2>2. QED
    BY <1>4, <2>1, NoneAssumption
    DEF CloseAllLists, Call, HostTypeOK, TxTypeOK, DataTypeOK, FrameTypeOK, FrameOK, MutexOK,
        Op, InCall, OnHandle, InClose, DriverCall, hostVars, txVars, dataVars, Goto
<1>5. CASE PingFails(c)
  BY <1>5, NoneAssumption
  DEF PingFails, Return,
     TypeOK, HostTypeOK, TxTypeOK, DataTypeOK, FrameTypeOK, FrameOK, MutexOK,
     Op, InCall, OnHandle, InClose, DriverCall, Id,
     hostVars, txVars, dataVars, Goto
<1>6. CASE PingAnswers(c)
  BY <1>6, NoneAssumption
  DEF PingAnswers,
     TypeOK, HostTypeOK, TxTypeOK, DataTypeOK, FrameTypeOK, FrameOK, MutexOK,
     Op, InCall, OnHandle, InClose, DriverCall, Id,
     hostVars, txVars, dataVars, Goto
<1>7. CASE RegisterRefused(c)
  BY <1>7, NoneAssumption
  DEF RegisterRefused, TableFull, Return,
     TypeOK, HostTypeOK, TxTypeOK, DataTypeOK, FrameTypeOK, FrameOK, MutexOK,
     Op, InCall, OnHandle, InClose, DriverCall, Id,
     hostVars, txVars, dataVars, Goto
<1>8. CASE Register(c)
  <2>1. FrameTypeOK' /\ FrameOK' /\ pc' = [pc EXCEPT ![c] = "idle"]
    BY <1>8, ReturnFrame DEF Register, TypeOK
  <2>2. MutexOK'
    BY <1>8, <2>1 DEF Register, MutexOK, DriverCall, FrameTypeOK
  <2>3. current < MaxOpens
    BY <1>8, OpeningCounts DEF Register
  <2>4. HostTypeOK'
    BY <1>8, <2>3, BoundAssumption DEF Register, HostTypeOK, NextHandle, FrameTypeOK, Id
  <2>5. QED
    BY <1>8, <2>1, <2>2, <2>4 DEF Register, TypeOK, TxTypeOK, DataTypeOK, txVars, dataVars
<1>9. CASE EnterRefused(c)
  <2>1. Return(c, "error") /\ UNCHANGED <<hostVars, pools, txVars, dataVars>> /\ pc[c] = "enter"
    BY <1>9 DEF EnterRefused, BeginRefused, FinishRefused, NoSuchHandle, Acquires
  <2>2. FrameTypeOK' /\ FrameOK' /\ pc' = [pc EXCEPT ![c] = "idle"]
    BY <2>1, ReturnFrame
  <2>3. MutexOK'
    BY <2>1, <2>2 DEF MutexOK, DriverCall, FrameTypeOK, hostVars
  <2>4. QED
    BY <2>1, <2>2, <2>3 DEF HostTypeOK, TxTypeOK, DataTypeOK, hostVars, txVars, dataVars
<1>10. CASE EnterBegin(c)
  BY <1>10, NoneAssumption
  DEF EnterBegin, Acquires,
     TypeOK, HostTypeOK, TxTypeOK, DataTypeOK, FrameTypeOK, FrameOK, MutexOK,
     Op, InCall, OnHandle, InClose, DriverCall, Id,
     hostVars, txVars, dataVars, Goto
<1>11. CASE EnterFinish(c)
  BY <1>11, NoneAssumption
  DEF EnterFinish, Acquires,
     TypeOK, HostTypeOK, TxTypeOK, DataTypeOK, FrameTypeOK, FrameOK, MutexOK,
     Op, InCall, OnHandle, InClose, DriverCall, Id,
     hostVars, txVars, dataVars, Goto
<1>12. CASE EnterStatement(c)
  BY <1>12, NoneAssumption
  DEF EnterStatement, Acquires,
     TypeOK, HostTypeOK, TxTypeOK, DataTypeOK, FrameTypeOK, FrameOK, MutexOK,
     Op, InCall, OnHandle, InClose, DriverCall, Id,
     hostVars, txVars, dataVars, Goto
<1>13. CASE CloseRefused(c)
  <2>1. /\ FrameTypeOK' /\ FrameOK'
        /\ pc' \in {[pc EXCEPT ![c] = "idle"], [pc EXCEPT ![c] = "sweep"]}
    BY <1>13, CloseReturnFrame DEF CloseRefused, Acquires
  <2>2. MutexOK'
    BY <1>13, <2>1 DEF CloseRefused, MutexOK, DriverCall, FrameTypeOK, Acquires, hostVars
  <2>3. HostTypeOK'
    BY <1>13 DEF CloseRefused, HostTypeOK, FrameOK, OnHandle, hostVars
  <2>4. QED
    BY <1>13, <2>1, <2>2, <2>3 DEF CloseRefused, TypeOK, TxTypeOK, DataTypeOK, txVars, dataVars
<1>14. CASE Detach(c)
  BY <1>14, NoneAssumption
  DEF Detach, Acquires,
     TypeOK, HostTypeOK, TxTypeOK, DataTypeOK, FrameTypeOK, FrameOK, MutexOK,
     Op, InCall, OnHandle, InClose, DriverCall, Id,
     hostVars, txVars, dataVars, Goto
<1>15. CASE BeginTx(c)
  <2>1. pc[c] \in DriverCall /\ Leave(c, "ok")
    BY <1>15 DEF BeginTx, DriverCall
  <2>2. FrameTypeOK' /\ FrameOK' /\ MutexOK' /\ mu' = Nobody
    BY <2>1, LeaveFrame DEF TypeOK
  <2>3. HostTypeOK' /\ TxTypeOK'
    BY <1>15, <2>2 DEF BeginTx, HostTypeOK, TxTypeOK, FrameTypeOK, FrameOK, OnHandle
  <2>4. DataTypeOK'
    BY <1>15 DEF BeginTx, DataTypeOK, dataVars
  <2>5. QED
    BY <2>2, <2>3, <2>4 DEF TypeOK
<1>16. CASE BeginFails(c)
  <2>1. pc[c] \in DriverCall /\ \E r \in {"ok", "error"} : Leave(c, r)
    BY <1>16 DEF BeginFails, DriverCall
  <2>2. FrameTypeOK' /\ FrameOK' /\ MutexOK' /\ mu' = Nobody
    BY <2>1, LeaveFrame DEF TypeOK
  <2>3. HostTypeOK'
    BY <1>16, <2>2 DEF BeginFails, HostTypeOK
  <2>4. TxTypeOK'
    BY <1>16 DEF BeginFails, TxTypeOK, txVars
  <2>5. DataTypeOK'
    BY <1>16 DEF BeginFails, DataTypeOK, dataVars
  <2>6. QED
    BY <2>2, <2>3, <2>4, <2>5 DEF TypeOK
<1>17. CASE TxStatement(c)
  <2>1. pc[c] \in DriverCall /\ \E r \in {"ok", "error"} : Leave(c, r)
    BY <1>17 DEF TxStatement, DriverCall
  <2>2. FrameTypeOK' /\ FrameOK' /\ MutexOK' /\ mu' = Nobody
    BY <2>1, LeaveFrame DEF TypeOK
  <2>3. HostTypeOK'
    BY <1>17, <2>2 DEF TxStatement, HostTypeOK
  <2>4. TxTypeOK'
    BY <1>17 DEF TxStatement, TxTypeOK, Inserts, Fresh, Live
  <2>5. DataTypeOK'
    BY <1>17 DEF TxStatement, DataTypeOK, dataVars
  <2>6. QED
    BY <2>2, <2>3, <2>4, <2>5 DEF TypeOK
<1>18. CASE AutoStatement(c)
  <2>1. pc[c] \in DriverCall /\ \E r \in {"ok", "error"} : Leave(c, r)
    BY <1>18 DEF AutoStatement, DriverCall
  <2>2. FrameTypeOK' /\ FrameOK' /\ MutexOK' /\ mu' = Nobody
    BY <2>1, LeaveFrame DEF TypeOK
  <2>3. HostTypeOK'
    BY <1>18, <2>2 DEF AutoStatement, HostTypeOK
  <2>4. TxTypeOK'
    BY <1>18 DEF AutoStatement, TxTypeOK, txVars
  <2>5. DataTypeOK'
    BY <1>18 DEF AutoStatement, DataTypeOK, Inserts, Fresh
  <2>6. QED
    BY <2>2, <2>3, <2>4, <2>5 DEF TypeOK
<1>19. CASE AutoStatementFails(c)
  <2>1. pc[c] \in DriverCall /\ \E r \in {"ok", "error"} : Leave(c, r)
    BY <1>19 DEF AutoStatementFails, DriverCall
  <2>2. FrameTypeOK' /\ FrameOK' /\ MutexOK' /\ mu' = Nobody
    BY <2>1, LeaveFrame DEF TypeOK
  <2>3. HostTypeOK'
    BY <1>19, <2>2 DEF AutoStatementFails, HostTypeOK
  <2>4. TxTypeOK'
    BY <1>19 DEF AutoStatementFails, TxTypeOK, txVars
  <2>5. DataTypeOK'
    BY <1>19 DEF AutoStatementFails, DataTypeOK, dataVars
  <2>6. QED
    BY <2>2, <2>3, <2>4, <2>5 DEF TypeOK
<1>20. CASE CommitRefused(c)
  <2>1. pc[c] \in DriverCall /\ \E r \in {"ok", "error"} : Leave(c, r)
    BY <1>20 DEF CommitRefused, DriverCall
  <2>2. FrameTypeOK' /\ FrameOK' /\ MutexOK' /\ mu' = Nobody
    BY <2>1, LeaveFrame DEF TypeOK
  <2>3. HostTypeOK'
    BY <1>20, <2>2 DEF CommitRefused, HostTypeOK
  <2>4. TxTypeOK'
    BY <1>20, ReleaseType DEF CommitRefused, TxTypeOK, txVars, Drop
  <2>5. DataTypeOK'
    BY <1>20 DEF CommitRefused, DataTypeOK, dataVars
  <2>6. QED
    BY <2>2, <2>3, <2>4, <2>5 DEF TypeOK
<1>21. CASE Commit(c)
  <2>1. pc[c] \in DriverCall /\ \E r \in {"ok", "error"} : Leave(c, r)
    BY <1>21 DEF Commit, DriverCall
  <2>2. FrameTypeOK' /\ FrameOK' /\ MutexOK' /\ mu' = Nobody
    BY <2>1, LeaveFrame DEF TypeOK
  <2>3. HostTypeOK'
    BY <1>21, <2>2 DEF Commit, HostTypeOK
  <2>4. TxTypeOK'
    BY <1>21, ReleaseType DEF Commit, Drop
  <2>5. DataTypeOK'
    BY <1>21 DEF Commit, DataTypeOK, TxTypeOK, Live
  <2>6. QED
    BY <2>2, <2>3, <2>4, <2>5 DEF TypeOK
<1>22. CASE Rollback(c)
  <2>1. pc[c] \in DriverCall /\ \E r \in {"ok", "error"} : Leave(c, r)
    BY <1>22 DEF Rollback, DriverCall
  <2>2. FrameTypeOK' /\ FrameOK' /\ MutexOK' /\ mu' = Nobody
    BY <2>1, LeaveFrame DEF TypeOK
  <2>3. HostTypeOK'
    BY <1>22, <2>2 DEF Rollback, HostTypeOK
  <2>4. TxTypeOK'
    BY <1>22, ReleaseType DEF Rollback, Drop
  <2>5. DataTypeOK'
    BY <1>22 DEF Rollback, DataTypeOK, TxTypeOK, Live
  <2>6. QED
    BY <2>2, <2>3, <2>4, <2>5 DEF TypeOK
<1>23. CASE CloseRollback(c)
  <2>1. FrameTypeOK' /\ FrameOK' /\ MutexOK'
    BY <1>23 DEF CloseRollback, Goto, FrameTypeOK, FrameOK, MutexOK, InCall, OnHandle, InClose, DriverCall
  <2>2. HostTypeOK' /\ txOf[arg[c]] \in Tx \union {NoTx}
    BY <1>23 DEF CloseRollback, HostTypeOK, FrameOK, OnHandle
  <2>3. TxTypeOK'
    BY <1>23, ReleaseType DEF CloseRollback, Drop, TxTypeOK, txVars
  <2>4. DataTypeOK'
    BY <1>23, <2>2 DEF CloseRollback, DataTypeOK, TxTypeOK
  <2>5. QED
    BY <2>1, <2>2, <2>3, <2>4 DEF TypeOK
<1>24. CASE ClosePool(c)
  <2>1. /\ FrameTypeOK' /\ FrameOK'
        /\ pc' \in {[pc EXCEPT ![c] = "idle"], [pc EXCEPT ![c] = "sweep"]}
    BY <1>24, CloseReturnFrame DEF ClosePool
  <2>2. MutexOK'
    BY <1>24, <2>1 DEF ClosePool, MutexOK, DriverCall, FrameTypeOK, hostVars
  <2>3. HostTypeOK'
    BY <1>24 DEF ClosePool, HostTypeOK, FrameOK, OnHandle, hostVars
  <2>4. QED
    BY <1>24, <2>1, <2>2, <2>3 DEF ClosePool, TypeOK, TxTypeOK, DataTypeOK, txVars, dataVars
<1>25. CASE CloseAllNext(c)
  BY <1>25, NoneAssumption
  DEF CloseAllNext,
     TypeOK, HostTypeOK, TxTypeOK, DataTypeOK, FrameTypeOK, FrameOK, MutexOK,
     Op, InCall, OnHandle, InClose, DriverCall, Id,
     hostVars, txVars, dataVars, Goto
<1>26. CASE CloseAllEnds(c)
  BY <1>26, NoneAssumption
  DEF CloseAllEnds, Return,
     TypeOK, HostTypeOK, TxTypeOK, DataTypeOK, FrameTypeOK, FrameOK, MutexOK,
     Op, InCall, OnHandle, InClose, DriverCall, Id,
     hostVars, txVars, dataVars, Goto
<1>27. QED
  BY <1>1, <1>2, <1>3, <1>4, <1>5, <1>6, <1>7, <1>8, <1>9, <1>10, <1>11, <1>12, <1>13, <1>14, <1>15, <1>16, <1>17, <1>18, <1>19, <1>20, <1>21, <1>22, <1>23, <1>24, <1>25, <1>26
  DEF CallerStep, Start, Ping, Locks, Enter, Driver, Answers, DriverFails, Unlocked
LEMMA TypeFrameTx ==
  ASSUME TypeFrame, NEW t \in Tx, TxStep(t)
  PROVE  TypeFrame'
<1> USE DEF TypeFrame, TypeOK
<1>1. HostTypeOK' /\ DataTypeOK' /\ FrameTypeOK' /\ FrameOK' /\ MutexOK'
  BY DEF TxStep, ContextEnds, AwaitDone, hostVars, dataVars, frameVars,
         HostTypeOK, DataTypeOK, FrameTypeOK, FrameOK, MutexOK
<1>2. CASE ContextEnds(t)
  BY <1>1, <1>2 DEF ContextEnds, TxTypeOK
<1>3. CASE AwaitDone(t)
  BY <1>1, <1>3, ReleaseType DEF AwaitDone
<1>4. QED
  BY <1>2, <1>3 DEF TxStep

(* No step but Open's first adds to the opens under way.                   *)
LEMMA BoundCaller ==
  ASSUME TypeFrame, BoundOK, NEW c \in Caller, CallerStep(c)
  PROVE  BoundOK'
<1> USE DEF TypeFrame, TypeOK
<1>1. IsFiniteSet(Opening) /\ Cardinality(Opening) \in Nat
  BY FiniteAssumption, FS_Subset, FS_CardinalityType DEF Opening
<1>2. ASSUME current' = current, Opening' \subseteq Opening PROVE BoundOK'
  <2>1. Cardinality(Opening') \in Nat /\ Cardinality(Opening') <= Cardinality(Opening)
    BY <1>1, <1>2, FS_Subset, FS_CardinalityType
  <2>2. QED
    BY <1>1, <1>2, <2>1, BoundAssumption DEF BoundOK, HostTypeOK
<1>3. CASE OpenPool(c)
  <2>1. Opening' = Opening \union {c} /\ c \notin Opening /\ current' = current
    BY <1>3 DEF OpenPool, Opening, Call, FrameOK, FrameTypeOK, hostVars
  <2>2. Cardinality(Opening') = Cardinality(Opening) + 1
    BY <1>1, <2>1, FS_AddElement
  <2>3. QED
    BY <1>1, <1>3, <2>1, <2>2, BoundAssumption DEF OpenPool, BoundOK, HostTypeOK
<1>4. CASE Register(c)
  <2>1. Opening' = Opening \ {c} /\ c \in Opening /\ current' = current + 1
    BY <1>4 DEF Register, NextHandle, Opening, Return, FrameOK, FrameTypeOK
  <2>2. Cardinality(Opening') = Cardinality(Opening) - 1
    BY <1>1, <2>1, FS_RemoveElement
  <2>3. QED
    BY <1>1, <2>1, <2>2, BoundAssumption DEF BoundOK, HostTypeOK
<1>5. CASE Request(c) \/ CloseAllLists(c) \/ Refuse(c)
  BY <1>2, <1>5 DEF Request, CloseAllLists, Refuse, OpenRefused, StatementRefused, Refused, Call, Opening, FrameTypeOK, hostVars
<1>6. CASE PingFails(c) \/ RegisterRefused(c) \/ EnterRefused(c) \/ CloseAllEnds(c)
  BY <1>2, <1>6 DEF PingFails, RegisterRefused, EnterRefused, BeginRefused, FinishRefused, NoSuchHandle, CloseAllEnds, Return,
     Opening, FrameTypeOK, hostVars
<1>7. CASE CloseRefused(c) \/ ClosePool(c)
  BY <1>2, <1>7 DEF CloseRefused, ClosePool, CloseReturns, Return, Opening, FrameTypeOK, hostVars
<1>8. CASE \/ PingAnswers(c) \/ EnterBegin(c) \/ EnterFinish(c) \/ EnterStatement(c)
           \/ Detach(c) \/ CloseRollback(c) \/ CloseAllNext(c)
  BY <1>2, <1>8 DEF PingAnswers, EnterBegin, EnterFinish, EnterStatement, Detach,
     CloseRollback, CloseAllNext, Opening, hostVars
<1>9. CASE Driver(c)
  <2>1. current' = current /\ \E r : Return(c, r)
    BY <1>9 DEF Driver, Answers, DriverFails, BeginTx, BeginFails, TxStatement, AutoStatement,
       AutoStatementFails, CommitRefused, Commit, Rollback, Leave
  <2>2. QED
    BY <1>2, <2>1 DEF Return, Opening, FrameTypeOK
<1>10. QED
  BY <1>3, <1>4, <1>5, <1>6, <1>7, <1>8, <1>9
  DEF CallerStep, Start, Ping, Locks, Enter, Unlocked

Inv1 == TypeFrame /\ BoundOK

LEMMA Inv1Init == Init => Inv1
<1> SUFFICES ASSUME Init PROVE Inv1
  OBVIOUS
<1>1. TypeFrame
  BY NoneAssumption, BoundAssumption DEF Init, TypeFrame, TypeOK, HostTypeOK, TxTypeOK, DataTypeOK,
     FrameTypeOK, FrameOK, MutexOK, Op, InCall, OnHandle, InClose, DriverCall, Id
<1>2. Opening = {}
  BY DEF Init, Opening
<1>3. QED
  BY <1>1, <1>2, FS_EmptySet, BoundAssumption DEF Inv1, BoundOK, Init

LEMMA Inv1Step == Inv1 /\ [Next]_vars => Inv1'
<1> SUFFICES ASSUME Inv1, [Next]_vars PROVE Inv1'
  OBVIOUS
<1>1. ASSUME NEW c \in Caller, CallerStep(c) PROVE Inv1'
  BY <1>1, TypeFrameCaller, BoundCaller DEF Inv1
<1>2. ASSUME NEW t \in Tx, TxStep(t) PROVE Inv1'
  <2>1. BoundOK'
    BY <1>2 DEF Inv1, BoundOK, Opening, TxStep, ContextEnds, AwaitDone, hostVars, frameVars
  <2>2. QED
    BY <1>2, <2>1, TypeFrameTx DEF Inv1
<1>3. CASE UNCHANGED vars
  BY <1>3 DEF Inv1, TypeFrame, TypeOK, HostTypeOK, TxTypeOK, DataTypeOK, FrameTypeOK, FrameOK,
     MutexOK, BoundOK, Opening, vars, hostVars, txVars, dataVars, frameVars
<1>4. QED
  BY <1>1, <1>2, <1>3 DEF Next

(* Every variable keeps its type.                                          *)
THEOREM TypeCorrect == Spec => []TypeOK
<1>1. Inv1 => TypeOK
  BY DEF Inv1, TypeFrame
<1>2. QED
  BY <1>1, Inv1Init, Inv1Step, PTL DEF Spec
-----------------------------------------------------------------------------
(* Driver calls, closes and the table of handles.                          *)

(* A step that leaves the table alone and starts no driver call and no     *)
(* close preserves TableOK.                                                *)
LEMMA TableQuiet ==
  ASSUME TableOK, handles' = handles, current' = current,
         \A d \in Caller : pc'[d] \in DriverCall => pc[d] \in DriverCall /\ arg'[d] = arg[d],
         \A d \in Caller : pc'[d] \in InClose => pc[d] \in InClose /\ arg'[d] = arg[d]
  PROVE  TableOK'
BY DEF TableOK

LEMMA TableCaller ==
  ASSUME Inv1, TableOK, NEW c \in Caller, CallerStep(c)
  PROVE  TableOK'
<1> USE DEF Inv1, TypeFrame, TypeOK, FrameTypeOK
<1> DEFINE Idle == pc' = [pc EXCEPT ![c] = "idle"] /\ arg' = [arg EXCEPT ![c] = 0]
<1>1. ASSUME handles' = handles, current' = current,
             \/ Idle
             \/ arg' = arg /\ \E l \in {"register", "sweep"} : pc' = [pc EXCEPT ![c] = l]
             \/ \E l \in {"enter", "ping", "sweep", "idle"} : \E i : pc' = [pc EXCEPT ![c] = l] /\ arg' = [arg EXCEPT ![c] = i]
             \/ pc' = pc /\ arg' = arg
      PROVE  TableOK'
  BY <1>1, TableQuiet DEF DriverCall, InClose
<1>2. CASE Start(c)
  BY <1>1, <1>2 DEF Start, Refuse, OpenRefused, StatementRefused, Refused, OpenPool, Request, CloseAllLists, Call, Goto, hostVars
<1>3. CASE PingFails(c) \/ RegisterRefused(c) \/ EnterRefused(c) \/ CloseAllEnds(c)
  BY <1>1, <1>3 DEF PingFails, RegisterRefused, EnterRefused, BeginRefused, FinishRefused, NoSuchHandle, CloseAllEnds, Return, Goto, hostVars
<1>4. CASE PingAnswers(c) \/ CloseAllNext(c)
  BY <1>1, <1>4 DEF PingAnswers, CloseAllNext, Goto, hostVars
<1>5. CASE CloseRefused(c) \/ ClosePool(c)
  BY <1>1, <1>5 DEF CloseRefused, ClosePool, CloseReturns, Return, Goto, hostVars
<1>6. CASE Driver(c)
  BY <1>1, <1>6 DEF Driver, Answers, DriverFails, BeginTx, BeginFails, TxStatement, AutoStatement,
     AutoStatementFails, CommitRefused, Commit, Rollback, Leave, Return, Goto
<1>7. CASE Register(c)
  <2>1. /\ handles' = handles \union {current + 1} /\ current' = current + 1 /\ current \in Nat
        /\ Idle
    BY <1>7, BoundAssumption DEF Register, NextHandle, Return, Goto, HostTypeOK
  <2>2. \A d \in Caller : pc'[d] \in DriverCall \union InClose => pc'[d] = pc[d] /\ arg'[d] = arg[d]
    BY <2>1 DEF DriverCall, InClose
  <2>3. QED
    BY <2>1, <2>2 DEF TableOK
<1>8. CASE EnterBegin(c) \/ EnterFinish(c) \/ EnterStatement(c)
  <2>1. /\ handles' = handles /\ current' = current /\ arg' = arg /\ arg[c] \in handles
        /\ \E l \in DriverCall : pc' = [pc EXCEPT ![c] = l]
    BY <1>8 DEF EnterBegin, EnterFinish, EnterStatement, Acquires, Goto, DriverCall
  <2>2. QED
    BY <2>1 DEF TableOK, DriverCall, InClose
<1>9. CASE Detach(c)
  <2>1. /\ handles' = handles \ {arg[c]} /\ current' = current /\ arg' = arg
        /\ pc' = [pc EXCEPT ![c] = "detached"] /\ mu = Nobody /\ arg[c] \in handles
    BY <1>9 DEF Detach, Acquires, Goto
  <2>2. \A d \in Caller : pc[d] \notin DriverCall
    BY <2>1, NoneAssumption DEF MutexOK
  <2>3. arg[c] \in 1..current
    BY <2>1 DEF HostTypeOK
  <2>4. QED
    BY <2>1, <2>2, <2>3 DEF TableOK, DriverCall, InClose
<1>10. CASE CloseRollback(c)
  BY <1>10, TableQuiet DEF CloseRollback, Goto, DriverCall, InClose
<1>11. QED
  BY <1>2, <1>3, <1>4, <1>5, <1>6, <1>7, <1>8, <1>9, <1>10
  DEF CallerStep, Ping, Locks, Enter, Unlocked

LEMMA LimitCaller ==
  ASSUME Inv1, HandleLimit, NEW c \in Caller, CallerStep(c)
  PROVE  HandleLimit'
<1> USE DEF Inv1, TypeFrame, TypeOK, HostTypeOK
<1>1. IsFiniteSet(handles) /\ Cardinality(handles) \in Nat
  <2>1. IsFiniteSet(1..current)
    BY FS_Interval, BoundAssumption
  <2>2. QED
    BY <2>1, FS_Subset, FS_CardinalityType
<1>2. ASSUME handles' \subseteq handles PROVE HandleLimit'
  <2>1. Cardinality(handles') \in Nat /\ Cardinality(handles') <= Cardinality(handles)
    BY <1>1, <1>2, FS_Subset, FS_CardinalityType
  <2>2. QED
    BY <1>1, <2>1, BoundAssumption DEF HandleLimit
<1>3. CASE Register(c)
  <2>1. handles' = handles \union {current + 1} /\ current + 1 \notin handles
    BY <1>3, BoundAssumption DEF Register, NextHandle
  <2>2. Cardinality(handles') = Cardinality(handles) + 1
    BY <1>1, <2>1, FS_AddElement
  <2>3. QED
    BY <1>1, <1>3, <2>2, BoundAssumption DEF Register, TableFull, HandleLimit
<1>4. CASE ~Register(c)
  BY <1>2, <1>4 DEF CallerStep, Start, Refuse, OpenRefused, StatementRefused, Refused, OpenPool, Request, CloseAllLists,
     Ping, PingFails, PingAnswers, Locks, RegisterRefused, Enter, EnterRefused, BeginRefused, FinishRefused, NoSuchHandle, EnterBegin, EnterFinish,
     EnterStatement, CloseRefused, Detach, Driver, Answers, DriverFails, BeginTx, BeginFails, TxStatement,
     AutoStatement, AutoStatementFails, CommitRefused, Commit, Rollback,
     Unlocked, CloseRollback, ClosePool, CloseAllNext, CloseAllEnds, hostVars
<1>5. QED
  BY <1>3, <1>4
-----------------------------------------------------------------------------
(* Who owns each open pool.                                                *)

Inv2 == Inv1 /\ TableOK

LEMMA PoolQuiet ==
  ASSUME PoolOK, Owners' = Owners, Opening' = Opening, pools' = pools, dbOf' = dbOf,
         \A d \in Opening : newDb'[d] = newDb[d]
  PROVE  PoolOK'
BY DEF PoolOK

(* The owners change with the table and with the callers inside Close.     *)
LEMMA OwnersSame ==
  ASSUME handles' = handles,
         \A d \in Caller : pc'[d] \in InClose <=> pc[d] \in InClose,
         \A d \in Caller : pc[d] \in InClose => arg'[d] = arg[d]
  PROVE  Owners' = Owners
BY DEF Owners, Closing, InClose

(* An Open that fails closes its pool.                                     *)
LEMMA OpenFails ==
  ASSUME Inv2, PoolOK, NEW c \in Caller, PingFails(c) \/ RegisterRefused(c)
  PROVE  PoolOK'
<1> USE DEF Inv2, Inv1, TypeFrame, TypeOK, FrameTypeOK
<1>1. /\ c \in Opening /\ Opening' = Opening \ {c} /\ pools' = pools \ {newDb[c]}
      /\ \A d \in Caller \ {c} : newDb'[d] = newDb[d]
      /\ dbOf' = dbOf /\ handles' = handles
  BY DEF PingFails, RegisterRefused, Return, Opening, FrameOK, hostVars
<1>2. Owners' = Owners
  BY OwnersSame DEF PingFails, RegisterRefused, Return, Goto, InClose, hostVars
<1>3. QED
  BY <1>1, <1>2 DEF PoolOK, Opening

LEMMA PoolCaller ==
  ASSUME Inv2, PoolOK, NEW c \in Caller, CallerStep(c)
  PROVE  PoolOK'
<1> USE DEF Inv2, Inv1, TypeFrame, TypeOK, FrameTypeOK
<1>1. CASE Refuse(c) \/ Request(c) \/ CloseAllLists(c)
  <2>1. /\ handles' = handles /\ dbOf' = dbOf /\ pools' = pools /\ newDb' = newDb
        /\ \A d \in Caller : d # c => pc'[d] = pc[d] /\ arg'[d] = arg[d] /\ op'[d] = op[d]
        /\ pc[c] = "idle" /\ pc'[c] \in {"idle", "enter", "sweep"} /\ op[c] # "open" /\ op'[c] # "open"
    BY <1>1 DEF Refuse, OpenRefused, StatementRefused, Refused, Request, CloseAllLists, Call, Goto, FrameOK, hostVars
  <2>2. Owners' = Owners
    BY <2>1, OwnersSame DEF InClose
  <2>3. Opening' = Opening
    BY <2>1 DEF Opening
  <2>4. QED
    BY <2>1, <2>2, <2>3, PoolQuiet
<1>2. CASE OpenPool(c)
  <2>1. /\ Opening' = Opening \union {c} /\ c \notin Opening /\ dbOf' = dbOf /\ handles' = handles
        /\ \A d \in Caller \ {c} : newDb'[d] = newDb[d]
        /\ newDb'[c] \in Pool \ pools /\ pools' = pools \union {newDb'[c]}
    BY <1>2 DEF OpenPool, Call, Opening, FrameOK, hostVars
  <2>2. Owners' = Owners
    BY <1>2, OwnersSame DEF OpenPool, Call, Goto, InClose, hostVars
  <2>3. QED
    BY <2>1, <2>2 DEF PoolOK, Opening
<1>3. CASE PingFails(c) \/ RegisterRefused(c)
  BY <1>3, OpenFails
<1>4. CASE Register(c)
  <2> DEFINE n == current + 1
  <2>1. /\ c \in Opening /\ Opening' = Opening \ {c} /\ pools' = pools
        /\ \A d \in Caller \ {c} : newDb'[d] = newDb[d]
        /\ n \in Id /\ dbOf' = [dbOf EXCEPT ![n] = newDb[c]]
    BY <1>4, OpeningCounts, BoundAssumption
    DEF Register, NextHandle, Return, Opening, FrameOK, HostTypeOK, Id
  <2>2. n \notin Owners
    BY BoundAssumption DEF Owners, Closing, TableOK, HostTypeOK, InClose
  <2>3. \A i \in Id : Closing(i)' <=> Closing(i)
    BY <1>4 DEF Register, Return, Goto, Closing, InClose
  <2>4. Owners' = Owners \union {n}
    BY <1>4, <2>1, <2>3 DEF Register, NextHandle, Owners
  <2>5. dbOf'[n] = newDb[c] /\ \A i \in Owners : dbOf'[i] = dbOf[i]
    BY <2>1, <2>2 DEF HostTypeOK
  <2>6. QED
    BY <2>1, <2>2, <2>4, <2>5 DEF PoolOK, Opening
<1>5. CASE PingAnswers(c) \/ Enter(c) \/ CloseRefused(c) \/ CloseAllNext(c) \/ CloseAllEnds(c)
  <2>1. /\ handles' = handles /\ dbOf' = dbOf /\ pools' = pools
        /\ \A d \in Caller : d # c => pc'[d] = pc[d] /\ arg'[d] = arg[d] /\ op'[d] = op[d] /\ newDb'[d] = newDb[d]
        /\ pc[c] \notin InClose /\ pc'[c] \notin InClose
        /\ \/ op'[c] = op[c] /\ newDb'[c] = newDb[c]
           \/ op[c] # "open" /\ op'[c] # "open"
    BY <1>5 DEF PingAnswers, Enter, EnterRefused, BeginRefused, FinishRefused, NoSuchHandle, EnterBegin, EnterFinish, EnterStatement, CloseRefused,
       CloseReturns, CloseAllNext, CloseAllEnds, Acquires, Return, Goto, FrameOK, InClose, hostVars
  <2>2. Owners' = Owners
    BY <2>1, OwnersSame
  <2>3. Opening' = Opening /\ \A d \in Opening : newDb'[d] = newDb[d]
    BY <2>1 DEF Opening
  <2>4. QED
    BY <2>1, <2>2, <2>3, PoolQuiet
<1>6. CASE Driver(c)
  <2>1. /\ handles' = handles /\ dbOf' = dbOf /\ pools' = pools /\ \E r : Return(c, r)
        /\ pc[c] \in DriverCall
    BY <1>6 DEF Driver, Answers, DriverFails, BeginTx, BeginFails, TxStatement, AutoStatement,
       AutoStatementFails, CommitRefused, Commit, Rollback, Leave, DriverCall
  <2>2. Owners' = Owners
    BY <2>1, OwnersSame DEF Return, Goto, InClose, DriverCall
  <2>3. Opening' = Opening /\ \A d \in Opening : newDb'[d] = newDb[d]
    BY <2>1 DEF Opening, Return, FrameOK, DriverCall
  <2>4. QED
    BY <2>1, <2>2, <2>3, PoolQuiet
<1>7. CASE Detach(c)
  <2>1. /\ handles' = handles \ {arg[c]} /\ arg[c] \in handles /\ arg' = arg
        /\ pc' = [pc EXCEPT ![c] = "detached"] /\ pc[c] = "enter"
        /\ dbOf' = dbOf /\ pools' = pools /\ newDb' = newDb /\ op' = op
    BY <1>7 DEF Detach, Acquires, Goto
  <2>2. \A i \in Id : Closing(i)' <=> (Closing(i) \/ i = arg[c])
    BY <2>1 DEF Closing
  <2>3. Owners' = Owners
    BY <2>1, <2>2, BoundAssumption DEF Owners, HostTypeOK, Id
  <2>4. Opening' = Opening
    BY <2>1 DEF Opening
  <2>5. QED
    BY <2>1, <2>3, <2>4, PoolQuiet
<1>8. CASE CloseRollback(c)
  <2>1. Owners' = Owners
    BY <1>8, OwnersSame DEF CloseRollback, Goto, InClose
  <2>2. Opening' = Opening
    BY <1>8 DEF CloseRollback, Opening
  <2>3. QED
    BY <1>8, <2>1, <2>2, PoolQuiet DEF CloseRollback
<1>9. CASE ClosePool(c)
  <2> DEFINE i == arg[c]
  <2>1. /\ handles' = handles /\ pools' = pools \ {dbOf[i]} /\ dbOf' = [dbOf EXCEPT ![i] = NoPool]
        /\ pc[c] \in InClose /\ pc'[c] \notin InClose /\ op[c] # "open" /\ op'[c] # "open"
        /\ \A d \in Caller : d # c => pc'[d] = pc[d] /\ arg'[d] = arg[d] /\ op'[d] = op[d] /\ newDb'[d] = newDb[d]
    BY <1>9 DEF ClosePool, CloseReturns, Return, Goto, FrameOK, InClose
  <2>2. i \in Owners /\ i \in Id
    BY <2>1 DEF Owners, Closing, FrameOK, OnHandle, InClose
  <2>3. Owners' = Owners \ {i}
    <3>1. \A j \in Id : Closing(j)' <=> (Closing(j) /\ j # i)
      BY <2>1 DEF Closing, TableOK, InClose
    <3>2. i \notin handles
      BY <2>1 DEF TableOK
    <3>3. QED
      BY <2>1, <3>1, <3>2 DEF Owners
  <2>4. Opening' = Opening /\ \A d \in Opening : newDb'[d] = newDb[d]
    BY <2>1 DEF Opening
  <2>5. \A j \in Owners \ {i} : dbOf'[j] = dbOf[j]
    BY <2>1 DEF HostTypeOK
  <2>6. QED
    BY <2>1, <2>2, <2>3, <2>4, <2>5 DEF PoolOK, Opening
<1>10. QED
  BY <1>1, <1>2, <1>3, <1>4, <1>5, <1>6, <1>7, <1>8, <1>9
  DEF CallerStep, Start, Ping, Locks, Unlocked
-----------------------------------------------------------------------------
(* Who refers to each transaction.                                         *)

Inv3 == Inv2 /\ PoolOK

(* A step that leaves transactions and references alone preserves TxOK.    *)
LEMMA TxQuiet ==
  ASSUME TxOK, UNCHANGED txVars, \A i \in Id : txOf'[i] = txOf[i],
         \A i \in Id : txOf[i] # NoTx => i \in Owners' /\ dbOf'[i] = dbOf[i],
         \A d \in Caller : pc'[d] = "finish" <=> pc[d] = "finish",
         \A d \in Caller : pc[d] = "finish" => held'[d] = held[d],
         \A d \in Caller : pc'[d] \in {"begin", "finish", "shut"} => txOf[arg'[d]] = NoTx /\ arg'[d] \in Id
  PROVE  TxOK'
<1> USE DEF TxOK, Live, txVars
<1>1. \A t \in Live \ ended :
        (\E i \in Id : txOf'[i] = t) \/ (\E d \in Caller : pc'[d] = "finish" /\ held'[d] = t)
  OBVIOUS
<1>2. \A d \in Caller : pc'[d] = "finish" =>
        txState[held'[d]] # "none" /\ \A i \in Id : txOf'[i] # held'[d]
  OBVIOUS
<1>3. \A i \in Id : txOf[i] # NoTx => i \in Owners' /\ dbOf'[i] = dbOf[i] /\ txState[txOf[i]] # "none"
  OBVIOUS
<1>4. \A i \in Id : txOf'[i] \in Tx /\ txState[txOf'[i]] = "live" => txPool[txOf'[i]] = dbOf'[i]
  BY <1>3, NoneAssumption
<1>5. QED
  BY <1>1, <1>2, <1>3, <1>4

(* A step that only moves a caller that is in none of those places.        *)
LEMMA TxMoves ==
  ASSUME Inv3, TxOK, UNCHANGED txVars, txOf' = txOf, dbOf' = dbOf, NEW c \in Caller,
         \A i \in Owners : i \in Owners',
         \A d \in Caller \ {c} : pc'[d] = pc[d] /\ arg'[d] = arg[d] /\ held'[d] = held[d],
         pc[c] # "finish", pc'[c] \notin {"begin", "finish", "shut"}
  PROVE  TxOK'
<1> USE DEF Inv3, Inv2, Inv1, TypeFrame
<1>1. \A d \in Caller : pc'[d] \in {"begin", "finish", "shut"} => txOf[arg'[d]] = NoTx /\ arg'[d] \in Id
  BY DEF TxOK, FrameOK, OnHandle
<1>2. QED
  BY <1>1, TxQuiet DEF TxOK

LEMMA TxStart ==
  ASSUME Inv3, TxOK, NEW c \in Caller,
         Start(c) \/ Ping(c) \/ RegisterRefused(c) \/ CloseRefused(c) \/ EnterRefused(c)
         \/ EnterStatement(c) \/ Detach(c) \/ CloseAllNext(c) \/ CloseAllEnds(c)
  PROVE  TxOK'
<1> USE DEF Inv3, Inv2, Inv1, TypeFrame, TypeOK, FrameTypeOK
<1>1. CASE Detach(c)
  <2>1. /\ handles' = handles \ {arg[c]} /\ arg' = arg /\ pc' = [pc EXCEPT ![c] = "detached"]
        /\ pc[c] = "enter" /\ txOf' = txOf /\ dbOf' = dbOf /\ held' = held /\ UNCHANGED txVars
    BY <1>1 DEF Detach, Acquires, Goto
  <2>2. \A i \in Id : Closing(i) => Closing(i)'
    BY <2>1 DEF Closing
  <2>3. arg[c] \in Id /\ Closing(arg[c])'
    BY <2>1 DEF Closing, FrameOK, OnHandle
  <2>4. \A i \in Owners : i \in Owners'
    BY <2>1, <2>2, <2>3 DEF Owners
  <2>5. QED
    BY <2>1, <2>4, TxMoves
<1>2. CASE \/ Start(c) \/ Ping(c) \/ RegisterRefused(c) \/ CloseRefused(c) \/ EnterRefused(c)
           \/ EnterStatement(c) \/ CloseAllNext(c) \/ CloseAllEnds(c)
  <2>1. /\ UNCHANGED txVars /\ txOf' = txOf /\ dbOf' = dbOf /\ handles' = handles
        /\ \A d \in Caller \ {c} : pc'[d] = pc[d] /\ arg'[d] = arg[d] /\ held'[d] = held[d]
        /\ pc[c] \notin {"begin", "finish", "detached", "shut"}
        /\ pc'[c] \notin {"begin", "finish", "detached", "shut"}
    BY <1>2 DEF Start, Refuse, OpenRefused, StatementRefused, Refused, OpenPool, Request, CloseAllLists, Call, Ping, PingFails, PingAnswers,
       RegisterRefused, CloseRefused, CloseReturns, EnterRefused, BeginRefused, FinishRefused, NoSuchHandle, EnterStatement, CloseAllNext,
       CloseAllEnds, Acquires, Return, Goto, hostVars, FrameOK
  <2>2. Owners' = Owners
    BY <2>1, OwnersSame DEF InClose
  <2>3. QED
    BY <2>1, <2>2, TxMoves
<1>3. QED
  BY <1>1, <1>2

LEMMA TxRegister ==
  ASSUME Inv3, TxOK, NEW c \in Caller, Register(c)
  PROVE  TxOK'
<1> USE DEF Inv3, Inv2, Inv1, TypeFrame, TypeOK, FrameTypeOK
<1> DEFINE n == current + 1
<1>1. n \in Id /\ handles' = handles \union {n} /\ dbOf' = [dbOf EXCEPT ![n] = newDb[c]]
      /\ txOf' = [txOf EXCEPT ![n] = NoTx] /\ Return(c, "ok") /\ pc[c] = "register" /\ UNCHANGED txVars
  BY OpeningCounts, BoundAssumption DEF Register, NextHandle, HostTypeOK, Id
<1>2. n \notin Owners
  BY BoundAssumption DEF Owners, Closing, TableOK, HostTypeOK, InClose
<1>3. txOf[n] = NoTx
  BY <1>1, <1>2 DEF TxOK
<1>4. \A i \in Id : txOf'[i] = txOf[i] /\ (txOf[i] # NoTx => dbOf'[i] = dbOf[i])
  BY <1>1, <1>3 DEF HostTypeOK
<1>5. \A i \in Owners : i \in Owners'
  BY <1>1 DEF Owners, Closing, Return, Goto
<1>6. \A d \in Caller : pc'[d] \in {"begin", "finish", "shut"} =>
         pc[d] = pc'[d] /\ arg'[d] = arg[d] /\ held'[d] = held[d]
  BY <1>1 DEF Return, Goto
<1>7. \A d \in Caller : pc[d] = "finish" => pc'[d] = "finish"
  BY <1>1 DEF Return, Goto
<1>8. \A d \in Caller : pc'[d] \in {"begin", "finish", "shut"} => txOf[arg'[d]] = NoTx /\ arg'[d] \in Id
  BY <1>6 DEF TxOK, FrameOK, OnHandle
<1>9. \A i \in Id : txOf[i] # NoTx => i \in Owners' /\ dbOf'[i] = dbOf[i]
  BY <1>4, <1>5 DEF TxOK
<1>10. QED
  BY <1>1, <1>4, <1>6, <1>7, <1>8, <1>9, TxQuiet

LEMMA TxEnter ==
  ASSUME Inv3, TxOK, NEW c \in Caller, EnterBegin(c) \/ EnterFinish(c)
  PROVE  TxOK'
<1> USE DEF Inv3, Inv2, Inv1, TypeFrame, TypeOK, FrameTypeOK
<1>1. /\ \A d \in Caller : pc[d] \notin DriverCall
      /\ pc[c] = "enter" /\ arg[c] \in Id /\ arg[c] \in handles
      /\ handles' = handles /\ dbOf' = dbOf /\ arg' = arg /\ UNCHANGED txVars
      /\ \E l \in {"begin", "finish"} : pc' = [pc EXCEPT ![c] = l]
  BY NoneAssumption DEF EnterBegin, EnterFinish, Acquires, Goto, MutexOK, FrameOK, OnHandle
<1>2. Owners' = Owners
  BY <1>1, OwnersSame DEF InClose
<1>3. CASE EnterBegin(c)
  <2>1. txOf' = txOf /\ txOf[arg[c]] = NoTx /\ held' = held /\ pc' = [pc EXCEPT ![c] = "begin"]
    BY <1>3 DEF EnterBegin, Goto
  <2>2. \A d \in Caller : pc'[d] \in {"begin", "finish", "shut"} => txOf[arg'[d]] = NoTx /\ arg'[d] \in Id
    BY <1>1, <2>1 DEF TxOK, FrameOK, OnHandle
  <2>3. QED
    BY <1>1, <1>2, <2>1, <2>2, TxQuiet DEF TxOK
<1>4. CASE EnterFinish(c)
  <2>1. /\ held' = [held EXCEPT ![c] = txOf[arg[c]]] /\ txOf' = [txOf EXCEPT ![arg[c]] = NoTx]
        /\ txOf[arg[c]] # NoTx /\ pc' = [pc EXCEPT ![c] = "finish"]
    BY <1>4 DEF EnterFinish, Goto
  <2>2. \A i \in Id : txOf'[i] = IF i = arg[c] THEN NoTx ELSE txOf[i]
    BY <1>1, <2>1 DEF HostTypeOK
  <2>3. \A d \in Caller : pc'[d] \in {"begin", "finish"} => d = c
    BY <1>1, <2>1 DEF DriverCall
  <2>4. \A d \in Caller : pc'[d] = "shut" => pc[d] = "shut" /\ arg[d] \in Id
    BY <2>1 DEF FrameOK, OnHandle
  <2>5. held'[c] = txOf[arg[c]] /\ pc'[c] = "finish"
    BY <2>1
  <2>6. \A t \in Live \ ended :
          (\E i \in Id : txOf'[i] = t) \/ (\E d \in Caller : pc'[d] = "finish" /\ held'[d] = t)
    BY <1>1, <2>2, <2>3, <2>5 DEF TxOK, DriverCall
  <2>7. \A d \in Caller : pc'[d] = "finish" =>
          txState[held'[d]] # "none" /\ \A i \in Id : txOf'[i] # held'[d]
    BY <1>1, <2>1, <2>2, <2>3, <2>5 DEF TxOK
  <2>8. \A d \in Caller : pc'[d] \in {"begin", "finish", "shut"} => txOf'[arg[d]] = NoTx
    BY <1>1, <2>1, <2>2, <2>3, <2>4 DEF TxOK
  <2>9. \A i \in Id : txOf'[i] \in Live => txPool[txOf'[i]] = dbOf[i]
    BY <2>2, NoneAssumption DEF TxOK, Live
  <2>10. QED
    BY <1>1, <1>2, <2>2, <2>6, <2>7, <2>8, <2>9 DEF TxOK, Live, txVars
<1>5. QED
  BY <1>3, <1>4
(* A finishing or closing step that ends transaction t and leaves the      *)
(* others and their references alone preserves TxOK.                       *)
LEMMA TxEnds ==
  ASSUME Inv3, TxOK, NEW t \in Tx, Drop(t), dbOf' = dbOf,
         \A i \in Id : txOf'[i] # t /\ txOf'[i] \in {NoTx, txOf[i]},
         \A i \in Id : txOf[i] \notin {t, NoTx} => txOf'[i] = txOf[i],
         \A i \in Owners : i \in Owners',
         \A d \in Caller : pc[d] = "finish" /\ held[d] # t => pc'[d] = "finish",
         \A d \in Caller : pc'[d] = "finish" => pc[d] = "finish" /\ held'[d] = held[d] /\ held[d] # t,
         \A d \in Caller : pc'[d] \in {"begin", "finish", "shut"} => txOf'[arg'[d]] = NoTx
  PROVE  TxOK'
<1> USE DEF Inv3, Inv2, Inv1, TypeFrame, TypeOK, TxTypeOK
<1>1. /\ Live' = Live \ {t} /\ ended' = ended \ {t}
      /\ \A u \in Tx \ {t} : txState'[u] = txState[u] /\ txPool'[u] = txPool[u]
  BY DEF Drop, Release, Live
<1>2. \A d \in Caller : pc[d] = "finish" => held[d] \in Tx
  BY DEF FrameOK, FrameTypeOK
<1>3. \A i \in Id : txOf[i] \in Tx \union {NoTx}
  BY DEF HostTypeOK
<1>4. \A u \in Live' \ ended' :
        (\E i \in Id : txOf'[i] = u) \/ (\E d \in Caller : pc'[d] = "finish" /\ held'[d] = u)
  <2> SUFFICES ASSUME NEW u \in Live' \ ended' 
               PROVE (\E i \in Id : txOf'[i] = u) \/ (\E d \in Caller : pc'[d] = "finish" /\ held'[d] = u)
    OBVIOUS
  <2>1. u \in Live \ ended /\ u # t /\ u # NoTx
    BY <1>1, NoneAssumption DEF Live
  <2>2. QED
    BY <2>1 DEF TxOK
<1>5. \A i \in Id : txOf'[i] # NoTx => 
        /\ i \in Owners' /\ txOf'[i] = txOf[i] /\ txOf[i] \in Tx \ {t} /\ txState'[txOf'[i]] # "none"
  BY <1>1, <1>3 DEF TxOK
<1>6. \A i \in Id : txOf'[i] \in Live' => txPool'[txOf'[i]] = dbOf[i]
  BY <1>1, <1>5, NoneAssumption DEF TxOK, Live
<1>7. \A d \in Caller : pc'[d] = "finish" =>
        txState'[held'[d]] # "none" /\ \A i \in Id : txOf'[i] # held'[d]
  BY <1>1, <1>2, NoneAssumption DEF TxOK
<1>8. ended' \subseteq Live'
  BY <1>1 DEF TxOK
<1>9. QED
  BY <1>4, <1>5, <1>6, <1>7, <1>8 DEF TxOK

LEMMA TxDriver ==
  ASSUME Inv3, TxOK, NEW c \in Caller, Driver(c)
  PROVE  TxOK'
<1> USE DEF Inv3, Inv2, Inv1, TypeFrame, TypeOK, FrameTypeOK
<1>1. /\ pc[c] \in DriverCall /\ handles' = handles /\ dbOf' = dbOf /\ \E r : Return(c, r)
      /\ \A d \in Caller \ {c} : pc[d] \notin DriverCall
  BY DEF Driver, Answers, DriverFails, BeginTx, BeginFails, TxStatement, AutoStatement,
     AutoStatementFails, CommitRefused, Commit, Rollback, Leave, DriverCall, MutexOK
<1>2. /\ \A d \in Caller \ {c} : pc'[d] = pc[d] /\ arg'[d] = arg[d] /\ held'[d] = held[d]
      /\ pc'[c] = "idle"
  BY <1>1 DEF Return, Goto
<1>3. Owners' = Owners
  BY <1>1, <1>2, OwnersSame DEF InClose, DriverCall
<1>4. ASSUME UNCHANGED <<txState, txPool, ended>>, txOf' = txOf, 
             pc[c] = "finish" => held[c] \notin Live \ ended
      PROVE TxOK'
  <2>1. \A t \in Live \ ended :
          (\E i \in Id : txOf[i] = t) \/ (\E d \in Caller : pc'[d] = "finish" /\ held'[d] = t)
    BY <1>2, <1>4 DEF TxOK
  <2>2. QED
    BY <1>1, <1>2, <1>3, <1>4, <2>1 DEF TxOK, Live
<1>5. CASE BeginFails(c) \/ TxStatement(c) \/ AutoStatement(c) \/ AutoStatementFails(c)
  BY <1>4, <1>5 DEF BeginFails, TxStatement, AutoStatement, AutoStatementFails, txVars
<1>6. ASSUME NEW t, t = held[c], pc[c] = "finish", Drop(t), txOf' = txOf PROVE TxOK'
  <2>1. t \in Tx
    BY <1>6 DEF FrameOK
  <2>2. \A i \in Id : txOf[i] # t
    BY <1>6 DEF TxOK
  <2>3. \A d \in Caller : pc[d] = "finish" => d = c
    BY <1>1 DEF DriverCall
  <2>4. \A d \in Caller : pc'[d] \in {"begin", "finish", "shut"} => txOf[arg'[d]] = NoTx
    BY <1>2 DEF TxOK
  <2>5. QED
    BY <1>1, <1>2, <1>3, <1>6, <2>1, <2>2, <2>3, <2>4, TxEnds
<1>7. CASE CommitRefused(c)
  BY <1>4, <1>6, <1>7 DEF CommitRefused, txVars
<1>8. CASE Commit(c) \/ Rollback(c)
  BY <1>6, <1>8 DEF Commit, Rollback
<1>9. CASE BeginTx(c)
  <2>1. PICK t \in Tx : /\ txState[t] = "none" /\ txState' = [txState EXCEPT ![t] = "live"]
                        /\ txPool' = [txPool EXCEPT ![t] = dbOf[arg[c]]]
                        /\ txOf' = [txOf EXCEPT ![arg[c]] = t]
    BY <1>9 DEF BeginTx
  <2>2. pc[c] = "begin" /\ ended' = ended /\ arg[c] \in Id /\ arg[c] \in handles /\ txOf[arg[c]] = NoTx
    BY <1>1, <1>9 DEF BeginTx, FrameOK, OnHandle, TableOK, DriverCall, TxOK
  <2>3. \A i \in Id : txOf'[i] = IF i = arg[c] THEN t ELSE txOf[i]
    BY <2>1, <2>2 DEF HostTypeOK
  <2>4. /\ Live' = Live \union {t} /\ t \notin Live /\ txPool'[t] = dbOf[arg[c]]
        /\ \A u \in Tx \ {t} : txState'[u] = txState[u] /\ txPool'[u] = txPool[u]
        /\ txState'[t] = "live"
    BY <2>1 DEF Live, TxTypeOK
  <2>5. \A i \in Id : txOf[i] # t
    BY <2>1, NoneAssumption DEF TxOK
  <2>6. arg[c] \in Owners
    BY <2>2 DEF Owners
  <2>7. \A d \in Caller : pc'[d] \notin {"begin", "finish"}
    BY <1>1, <1>2 DEF DriverCall
  <2>8. \A d \in Caller : pc'[d] = "shut" => txOf'[arg'[d]] = NoTx
    <3> SUFFICES ASSUME NEW d \in Caller, pc'[d] = "shut" PROVE txOf'[arg'[d]] = NoTx
      OBVIOUS
    <3>1. pc[d] = "shut" /\ arg'[d] = arg[d] /\ arg[d] # arg[c] /\ arg[d] \in Id
      BY <1>2, <2>2 DEF TableOK, InClose, FrameOK, OnHandle
    <3>2. QED
      BY <2>3, <3>1 DEF TxOK
  <2>9. \A i \in Id : txOf'[i] \in Live' => txPool'[txOf'[i]] = dbOf'[i]
    BY <1>1, <2>3, <2>4, <2>5 DEF TxOK, Live, HostTypeOK
  <2>10. \A u \in Live' \ ended' : \E i \in Id : txOf'[i] = u
    <3>1. \A u \in Live \ ended : \E i \in Id : txOf[i] = u
      BY <1>1, <2>2 DEF TxOK, DriverCall
    <3>2. \A u \in Live : u # NoTx
      BY NoneAssumption DEF Live
    <3>3. QED
      BY <2>2, <2>3, <2>4, <3>1, <3>2
  <2>11. \A i \in Id : txOf'[i] # NoTx => i \in Owners' /\ txState'[txOf'[i]] # "none"
    BY <1>3, <2>3, <2>4, <2>5, <2>6 DEF TxOK, HostTypeOK
  <2>12. \A i, j \in Id : txOf'[i] # NoTx /\ txOf'[i] = txOf'[j] => i = j
    BY <2>3, <2>5 DEF TxOK
  <2>13. ended' \subseteq Live'
    BY <2>2, <2>4 DEF TxOK
  <2>14. QED
    BY <2>7, <2>8, <2>9, <2>10, <2>11, <2>12, <2>13 DEF TxOK
<1>10. QED
  BY <1>5, <1>7, <1>8, <1>9 DEF Driver, Answers, DriverFails
LEMMA TxClose ==
  ASSUME Inv3, TxOK, NEW c \in Caller, CloseRollback(c) \/ ClosePool(c)
  PROVE  TxOK'
<1> USE DEF Inv3, Inv2, Inv1, TypeFrame, TypeOK, FrameTypeOK
<1>1. CASE CloseRollback(c)
  <2> DEFINE t == txOf[arg[c]]
  <2>1. /\ pc[c] = "detached" /\ pc' = [pc EXCEPT ![c] = "shut"] /\ arg' = arg /\ held' = held
        /\ txOf' = [txOf EXCEPT ![arg[c]] = NoTx] /\ dbOf' = dbOf /\ handles' = handles
        /\ arg[c] \in Id
    BY <1>1 DEF CloseRollback, Goto, FrameOK, OnHandle
  <2>2. Owners' = Owners
    BY <2>1, OwnersSame DEF InClose
  <2>3. \A i \in Id : txOf'[i] = IF i = arg[c] THEN NoTx ELSE txOf[i]
    BY <2>1 DEF HostTypeOK
  <2>4. \A d \in Caller : pc'[d] \in {"begin", "finish", "shut"} => txOf'[arg'[d]] = NoTx
    BY <2>1, <2>3 DEF TxOK, FrameOK, OnHandle
  <2>5. CASE t = NoTx
    <3>1. UNCHANGED txVars /\ \A i \in Id : txOf'[i] = txOf[i]
      BY <1>1, <2>3, <2>5 DEF CloseRollback
    <3>2. \A d \in Caller : pc'[d] = "finish" <=> pc[d] = "finish"
      BY <2>1
    <3>3. \A d \in Caller : pc'[d] \in {"begin", "finish", "shut"} => txOf[arg'[d]] = NoTx /\ arg'[d] \in Id
      BY <2>1, <2>4, <3>1 DEF FrameOK, OnHandle
    <3>4. QED
      BY <2>1, <2>2, <3>1, <3>2, <3>3, TxQuiet DEF TxOK
  <2>6. CASE t # NoTx
    <3>1. t \in Tx /\ Drop(t)
      BY <1>1, <2>1, <2>6 DEF CloseRollback, HostTypeOK
    <3>2. \A i \in Id : txOf'[i] # t
      BY <2>1, <2>3, <2>6 DEF TxOK
    <3>3. \A d \in Caller : pc[d] = "finish" => held[d] # t
      BY <2>1 DEF TxOK
    <3>4. QED
      BY <2>1, <2>2, <2>3, <2>4, <3>1, <3>2, <3>3, TxEnds
  <2>7. QED
    BY <2>5, <2>6
<1>2. CASE ClosePool(c)
  <2> DEFINE k == arg[c]
  <2>1. /\ pc[c] = "shut" /\ pc'[c] \in {"idle", "sweep"} /\ txOf' = txOf /\ UNCHANGED txVars
        /\ dbOf' = [dbOf EXCEPT ![k] = NoPool] /\ handles' = handles
        /\ \A d \in Caller \ {c} : pc'[d] = pc[d] /\ arg'[d] = arg[d] /\ held'[d] = held[d]
    BY <1>2 DEF ClosePool, CloseReturns, Return, Goto
  <2>2. k \in Id /\ txOf[k] = NoTx
    BY <2>1 DEF FrameOK, OnHandle, TxOK
  <2>3. \A i \in Owners \ {k} : i \in Owners'
    <3>1. \A i \in Id \ {k} : Closing(i) => Closing(i)'
      BY <2>1 DEF Closing
    <3>2. QED
      BY <2>1, <3>1 DEF Owners
  <2>4. \A i \in Id : txOf[i] # NoTx => i \in Owners' /\ dbOf'[i] = dbOf[i]
    BY <2>1, <2>2, <2>3 DEF TxOK, HostTypeOK
  <2>5. \A d \in Caller : pc'[d] = "finish" <=> pc[d] = "finish"
    BY <2>1
  <2>6. \A d \in Caller : pc'[d] \in {"begin", "finish", "shut"} => txOf[arg'[d]] = NoTx /\ arg'[d] \in Id
    BY <2>1 DEF TxOK, FrameOK, OnHandle
  <2>7. QED
    BY <2>1, <2>4, <2>5, <2>6, TxQuiet
<1>3. QED
  BY <1>1, <1>2

LEMMA TxBackground ==
  ASSUME Inv3, TxOK, NEW t \in Tx, TxStep(t)
  PROVE  TxOK'
<1> USE DEF Inv3, Inv2, Inv1, TypeFrame, TypeOK
<1>1. /\ pc' = pc /\ arg' = arg /\ held' = held /\ txOf' = txOf /\ dbOf' = dbOf
      /\ handles' = handles
  BY DEF TxStep, ContextEnds, AwaitDone, hostVars, frameVars
<1>2. Owners' = Owners
  BY <1>1 DEF Owners, Closing
<1>3. CASE ContextEnds(t)
  <2>1. t \in Live /\ ended' = ended \union {t} /\ txState' = txState /\ txPool' = txPool
    BY <1>3 DEF ContextEnds
  <2>2. QED
    BY <1>1, <1>2, <2>1 DEF TxOK, Live
<1>4. CASE AwaitDone(t)
  <2> DEFINE s == IF Referenced(t) THEN "done" ELSE "none"
  <2>1. /\ Live' = Live \ {t} /\ ended' = ended \ {t} /\ t \in ended /\ txState'[t] = s
        /\ \A u \in Tx \ {t} : txState'[u] = txState[u] /\ txPool'[u] = txPool[u]
    BY <1>4 DEF AwaitDone, Release, Live, TxTypeOK
  <2>2. \A u \in Live' \ ended' : u \in Live \ ended
    BY <2>1
  <2>3. \A i \in Id : txOf[i] # NoTx => i \in Owners' /\ txState'[txOf[i]] # "none"
    BY <1>2, <2>1 DEF TxOK, Referenced, HostTypeOK
  <2>4. \A d \in Caller : pc[d] = "finish" => txState'[held[d]] # "none"
    BY <2>1 DEF TxOK, Referenced, FrameOK, FrameTypeOK
  <2>5. \A i \in Id : txOf[i] \in Live' => txPool'[txOf[i]] = dbOf[i]
    BY <2>1 DEF TxOK, Live
  <2>6. ended' \subseteq Live'
    BY <2>1 DEF TxOK
  <2>7. \A u \in Live' \ ended' :
          (\E i \in Id : txOf[i] = u) \/ (\E d \in Caller : pc[d] = "finish" /\ held[d] = u)
    BY <2>2 DEF TxOK
  <2>8. QED
    BY <1>1, <2>3, <2>4, <2>5, <2>6, <2>7 DEF TxOK
<1>5. QED
  BY <1>3, <1>4 DEF TxStep

LEMMA TxCaller ==
  ASSUME Inv3, TxOK, NEW c \in Caller, CallerStep(c)
  PROVE  TxOK'
BY TxStart, TxRegister, TxEnter, TxDriver, TxClose DEF CallerStep, Locks, Enter, Unlocked
-----------------------------------------------------------------------------
(* Where each row is.                                                      *)

Inv4 == Inv3 /\ TxOK

(* A transaction gives up its rows: to the store, to the discarded, or to  *)
(* nobody.                                                                 *)
LEMMA RowRelease ==
  ASSUME TxTypeOK, RowOK, NEW t \in Tx, NEW s \in {"none", "done"}, Release(t, s),
         \/ store' = store /\ discarded' = discarded /\ acked' = acked
         \/ store' = store \union writes[t] /\ discarded' = discarded
            /\ (acked' = acked \/ acked' = acked \union writes[t])
         \/ store' = store /\ acked' = acked /\ discarded' = discarded \union writes[t]
  PROVE  RowOK'
<1>1. /\ \A u \in Tx \ {t} : writes'[u] = writes[u] /\ txState'[u] = txState[u]
      /\ writes'[t] = {}
  BY DEF Release, TxTypeOK
<1>2. \A u \in Tx : u \notin Live' => writes'[u] = {}
  BY <1>1 DEF RowOK, Live
<1>3. \A u \in Tx : writes'[u] \intersect (store' \union discarded') = {}
  BY <1>1 DEF RowOK
<1>4. \A u, v \in Tx : u # v => writes'[u] \intersect writes'[v] = {}
  BY <1>1 DEF RowOK
<1>5. AnswersTrue'
  BY DEF RowOK, AnswersTrue
<1>6. QED
  BY <1>2, <1>3, <1>4, <1>5 DEF RowOK

(* A statement writes a row that is nowhere yet.                           *)
LEMMA FreshRows ==
  ASSUME NEW R \in Inserts
  PROVE  /\ R \subseteq Row
         /\ R \intersect (store \union discarded) = {}
         /\ \A t \in Tx : R \intersect writes[t] = {}
BY DEF Inserts, Fresh

LEMMA RowDriver ==
  ASSUME Inv4, RowOK, NEW c \in Caller, Driver(c)
  PROVE  RowOK'
<1> USE DEF Inv4, Inv3, Inv2, Inv1, TypeFrame, TypeOK
<1>1. CASE BeginFails(c) \/ AutoStatementFails(c)
  BY <1>1 DEF BeginFails, AutoStatementFails, txVars, dataVars, RowOK, AnswersTrue, Live
<1>2. CASE BeginTx(c)
  <2>1. Live \subseteq Live' /\ writes' = writes /\ UNCHANGED dataVars
    BY <1>2 DEF BeginTx, Live, TxTypeOK
  <2>2. QED
    BY <2>1 DEF RowOK, AnswersTrue, dataVars
<1>3. CASE TxStatement(c)
  <2>1. CASE writes' = writes
    BY <1>3, <2>1 DEF TxStatement, RowOK, AnswersTrue, Live, dataVars
  <2>2. CASE writes' # writes
    <3>1. PICK t \in Live, R \in Inserts : writes' = [writes EXCEPT ![t] = @ \union R]
      BY <1>3, <2>2 DEF TxStatement
    <3>2. /\ t \in Tx /\ writes'[t] = writes[t] \union R
          /\ \A u \in Tx \ {t} : writes'[u] = writes[u]
      BY <3>1 DEF TxTypeOK, Live
    <3>3. Live' = Live /\ UNCHANGED dataVars
      BY <1>3 DEF TxStatement, Live
    <3>4. \A u \in Tx : u \notin Live' => writes'[u] = {}
      BY <3>1, <3>2, <3>3 DEF RowOK
    <3>5. \A u \in Tx : writes'[u] \intersect (store \union discarded) = {}
      BY <3>2, FreshRows DEF RowOK
    <3>6. \A u, v \in Tx : u # v => writes'[u] \intersect writes'[v] = {}
      BY <3>2, FreshRows DEF RowOK
    <3>7. QED
      BY <3>3, <3>4, <3>5, <3>6 DEF RowOK, AnswersTrue, dataVars
  <2>3. QED
    BY <2>1, <2>2
<1>4. CASE AutoStatement(c)
  <2>1. PICK R \in Inserts : store' = store \union R /\ acked' \in {acked, acked \union R}
    BY <1>4 DEF AutoStatement
  <2>2. writes' = writes /\ Live' = Live /\ discarded' = discarded
    BY <1>4 DEF AutoStatement, txVars, Live
  <2>3. \A u \in Tx : writes[u] \intersect (store' \union discarded) = {}
    BY <2>1, FreshRows DEF RowOK
  <2>4. AnswersTrue'
    BY <2>1, <2>2, FreshRows DEF RowOK, AnswersTrue
  <2>5. QED
    BY <2>2, <2>3, <2>4 DEF RowOK
<1>5. ASSUME pc[c] = "finish" PROVE held[c] \in Tx
  BY <1>5 DEF FrameOK, FrameTypeOK
<1>6. CASE CommitRefused(c)
  <2>1. CASE UNCHANGED txVars
    BY <1>6, <2>1 DEF CommitRefused, RowOK, AnswersTrue, Live, txVars, dataVars
  <2>2. CASE Drop(held[c])
    BY <1>5, <1>6, <2>2, RowRelease DEF CommitRefused, Drop, dataVars
  <2>3. QED
    BY <1>6, <2>1, <2>2 DEF CommitRefused
<1>7. CASE Commit(c)
  BY <1>5, <1>7, RowRelease DEF Commit, Drop
<1>8. CASE Rollback(c)
  BY <1>5, <1>8, RowRelease DEF Rollback, Drop
<1>9. QED
  BY <1>1, <1>2, <1>3, <1>4, <1>6, <1>7, <1>8 DEF Driver, Answers, DriverFails

LEMMA RowCaller ==
  ASSUME Inv4, RowOK, NEW c \in Caller, CallerStep(c)
  PROVE  RowOK'
<1> USE DEF Inv4, Inv3, Inv2, Inv1, TypeFrame, TypeOK
<1>1. CASE Driver(c)
  BY <1>1, RowDriver
<1>2. CASE CloseRollback(c)
  <2>1. CASE txOf[arg[c]] = NoTx
    BY <1>2, <2>1 DEF CloseRollback, RowOK, AnswersTrue, Live, txVars
  <2>2. CASE txOf[arg[c]] # NoTx
    <3>1. txOf[arg[c]] \in Tx
      BY <1>2, <2>2 DEF CloseRollback, FrameOK, OnHandle, HostTypeOK
    <3>2. QED
      BY <1>2, <2>2, <3>1, RowRelease DEF CloseRollback, Drop
  <2>3. QED
    BY <2>1, <2>2
<1>3. CASE ~Driver(c) /\ ~CloseRollback(c)
  <2>1. UNCHANGED <<txVars, dataVars>>
    BY <1>3 DEF CallerStep, Start, Refuse, OpenRefused, StatementRefused, Refused, OpenPool, Request, CloseAllLists, Ping, PingFails, PingAnswers,
       Locks, RegisterRefused, Register, Enter, EnterRefused, BeginRefused, FinishRefused, NoSuchHandle, EnterBegin, EnterFinish, EnterStatement,
       CloseRefused, Detach, Unlocked, ClosePool, CloseAllNext, CloseAllEnds
  <2>2. QED
    BY <2>1 DEF txVars, dataVars, RowOK, AnswersTrue, Live
<1>4. QED
  BY <1>1, <1>2, <1>3

LEMMA RowBackground ==
  ASSUME Inv4, RowOK, NEW t \in Tx, TxStep(t)
  PROVE  RowOK'
<1> USE DEF Inv4, Inv3, Inv2, Inv1, TypeFrame, TypeOK
<1>1. CASE ContextEnds(t)
  BY <1>1 DEF ContextEnds, dataVars, RowOK, AnswersTrue, Live
<1>2. CASE AwaitDone(t)
  BY <1>2, RowRelease DEF AwaitDone, dataVars
<1>3. QED
  BY <1>1, <1>2 DEF TxStep

-----------------------------------------------------------------------------
(* The inductive invariant and what follows from it.                       *)

IInv == Inv4 /\ RowOK /\ HandleLimit

LEMMA InvInit == Init => IInv
<1> SUFFICES ASSUME Init PROVE IInv
  OBVIOUS
<1>1. Inv1
  BY Inv1Init
<1>2. Owners = {} /\ Opening = {} /\ Live = {}
  BY DEF Init, Owners, Closing, Opening, Live
<1>3. TableOK
  BY DEF Init, TableOK, DriverCall, InClose
<1>4. PoolOK
  BY <1>2 DEF Init, PoolOK
<1>5. TxOK
  BY <1>2 DEF Init, TxOK
<1>6. RowOK
  BY DEF Init, RowOK, AnswersTrue
<1>7. HandleLimit
  BY FS_EmptySet, BoundAssumption DEF Init, HandleLimit
<1>8. QED
  BY <1>1, <1>3, <1>4, <1>5, <1>6, <1>7 DEF IInv, Inv4, Inv3, Inv2

LEMMA InvStep == IInv /\ [Next]_vars => IInv'
<1> SUFFICES ASSUME IInv, [Next]_vars PROVE IInv'
  OBVIOUS
<1> USE DEF IInv, Inv4, Inv3, Inv2
<1>1. Inv1'
  BY Inv1Step
<1>2. ASSUME NEW c \in Caller, CallerStep(c) PROVE IInv'
  BY <1>1, <1>2, TableCaller, PoolCaller, TxCaller, RowCaller, LimitCaller
<1>3. ASSUME NEW t \in Tx, TxStep(t) PROVE IInv'
  <2>1. /\ UNCHANGED <<handles, current, dbOf, pools, pc, op, arg, newDb>>
    BY <1>3 DEF TxStep, ContextEnds, AwaitDone, hostVars, frameVars
  <2>2. TableOK' /\ HandleLimit'
    BY <2>1 DEF TableOK, HandleLimit
  <2>3. Owners' = Owners /\ Opening' = Opening
    BY <2>1 DEF Owners, Closing, Opening
  <2>4. PoolOK'
    BY <2>1, <2>3, PoolQuiet
  <2>5. QED
    BY <1>1, <1>3, <2>2, <2>4, TxBackground, RowBackground
<1>4. CASE UNCHANGED vars
  <2>1. UNCHANGED <<hostVars, pools, txVars, dataVars, frameVars>>
    BY <1>4 DEF vars
  <2>2. Owners' = Owners /\ Opening' = Opening /\ Live' = Live
    BY <2>1 DEF Owners, Closing, Opening, Live, hostVars, txVars, frameVars
  <2>3. TableOK' /\ HandleLimit'
    BY <2>1 DEF TableOK, HandleLimit, hostVars, frameVars
  <2>4. PoolOK'
    BY <2>1, <2>2 DEF PoolOK, hostVars, frameVars
  <2>5. TxOK'
    BY <2>1, <2>2 DEF TxOK, hostVars, txVars, frameVars
  <2>6. RowOK'
    BY <2>1, <2>2 DEF RowOK, AnswersTrue, txVars, dataVars
  <2>7. QED
    BY <1>1, <2>3, <2>4, <2>5, <2>6
<1>5. QED
  BY <1>2, <1>3, <1>4 DEF Next

LEMMA Invariance == Spec => []IInv
BY InvInit, InvStep, PTL DEF Spec
(* The table never holds more handles than the limit.                      *)
THEOREM LimitHolds == Spec => []HandleLimit
<1>1. IInv => HandleLimit
  BY DEF IInv
<1>2. QED
  BY <1>1, Invariance, PTL

(* No failure of Open and no race of Close leaks a pool or shares one.     *)
THEOREM PoolsHold == Spec => []PoolsAccounted
<1>1. IInv => PoolsAccounted
  <2> SUFFICES ASSUME IInv PROVE PoolsAccounted
    OBVIOUS
  <2> HostTypeOK
    BY DEF IInv, Inv4, Inv3, Inv2, Inv1, TypeFrame, TypeOK
  <2>0. handles \subseteq Id
    BY BoundAssumption DEF HostTypeOK, Id
  <2>1. Owners = {j \in Id : j \in handles \/ Closing(j)}
    BY <2>0 DEF Owners
  <2>2. \A i, j \in handles : dbOf[i] = dbOf[j] => i = j
    BY DEF IInv, Inv4, Inv3, PoolOK, Owners
  <2>3. pools = {dbOf[i] : i \in Owners} \union {newDb[c] : c \in Opening}
    BY DEF IInv, Inv4, Inv3, PoolOK
  <2>4. QED
    BY <2>1, <2>2, <2>3 DEF PoolsAccounted
<1>2. QED
  BY <1>1, Invariance, PTL

(* Every driver call is on a registered handle and an open pool.           *)
THEOREM CallsAreOnOpenPools == Spec => []NoUseAfterClose
<1>1. IInv => NoUseAfterClose
  BY DEF IInv, Inv4, Inv3, Inv2, TableOK, PoolOK, Owners, NoUseAfterClose
<1>2. QED
  BY <1>1, Invariance, PTL

(* No transaction is forgotten while its context is alive.                 *)
THEOREM NoForgottenTx == Spec => []TxAccounted
<1>1. IInv => TxAccounted
  <2> SUFFICES ASSUME IInv, NEW t \in Live \ ended
               PROVE  \/ \E i \in handles : txOf[i] = t /\ dbOf[i] = txPool[t]
                      \/ \E i \in Id : txOf[i] = t /\ Closing(i)
                      \/ \E c \in Caller : pc[c] = "finish" /\ held[c] = t
    BY DEF TxAccounted
  <2>1. t # NoTx
    BY NoneAssumption DEF Live
  <2>2. QED
    BY <2>1 DEF IInv, Inv4, TxOK, Owners
<1>2. QED
  BY <1>1, Invariance, PTL

(* What was answered about a row stays true.                               *)
THEOREM AnswersHold == Spec => []AnswersTrue
<1>1. IInv => AnswersTrue
  BY DEF IInv, RowOK
<1>2. QED
  BY <1>1, Invariance, PTL

(* A Close works alone on the struct it took out of the table.             *)
THEOREM CloseIsAlone == Spec => []CloseOwnsState
<1>1. IInv => CloseOwnsState
  BY DEF IInv, Inv4, Inv3, Inv2, TableOK, TxOK, CloseOwnsState, InClose, DriverCall
<1>2. QED
  BY <1>1, Invariance, PTL

(* A handle number is one pool's and is never given out again.             *)
THEOREM NumbersNeverReused == Spec => HandlesNeverReused
<1> DEFINE Step == \A i \in Id :
        /\ i \in handles /\ i \in handles' => dbOf'[i] = dbOf[i]
        /\ i \in handles' /\ i \notin handles => i > current
<1>1. ASSUME IInv, [Next]_vars PROVE Step
  <2> USE DEF IInv, Inv4, Inv3, Inv2, Inv1, TypeFrame, TypeOK
  <2>1. ASSUME NEW c \in Caller, Register(c) PROVE Step
    <3>1. handles' = handles \union {current + 1} /\ dbOf' = [dbOf EXCEPT ![current + 1] = newDb[c]]
      BY <2>1 DEF Register, NextHandle
    <3>2. current \in 0..MaxOpens /\ handles \subseteq 1..current
      BY <1>1 DEF HostTypeOK
    <3>3. current \in Nat /\ current + 1 \notin handles
      BY <3>2, BoundAssumption
    <3>4. QED
      BY <1>1, <3>1, <3>3 DEF HostTypeOK, Id
  <2>2. ASSUME NEW c \in Caller, ClosePool(c) PROVE Step
    <3>1. arg[c] \notin handles /\ handles' = handles /\ dbOf' = [dbOf EXCEPT ![arg[c]] = NoPool]
      BY <1>1, <2>2 DEF ClosePool, TableOK, InClose
    <3>2. QED
      BY <1>1, <3>1 DEF HostTypeOK
  <2>3. ASSUME NEW c \in Caller, CallerStep(c), ~Register(c), ~ClosePool(c) PROVE Step
    <3>1. handles' \subseteq handles /\ dbOf' = dbOf
      BY <2>3 DEF CallerStep, Start, Refuse, OpenRefused, StatementRefused, Refused, OpenPool, Request, CloseAllLists, Ping, PingFails, PingAnswers,
         Locks, RegisterRefused, Enter, EnterRefused, BeginRefused, FinishRefused, NoSuchHandle, EnterBegin, EnterFinish, EnterStatement,
         CloseRefused, Detach, Driver, Answers, DriverFails, BeginTx, BeginFails, TxStatement,
         AutoStatement, AutoStatementFails, CommitRefused, Commit, Rollback,
         Unlocked, CloseRollback, CloseAllNext, CloseAllEnds, hostVars
    <3>2. QED
      BY <3>1
  <2>4. ASSUME NEW t \in Tx, TxStep(t) PROVE Step
    BY <2>4 DEF TxStep, ContextEnds, AwaitDone, hostVars
  <2>5. CASE UNCHANGED vars
    BY <2>5 DEF vars, hostVars
  <2>6. QED
    BY <1>1, <2>1, <2>2, <2>3, <2>4, <2>5 DEF Next
<1>2. IInv /\ [Next]_vars => [Step]_vars
  BY <1>1
<1>3. QED
  BY <1>2, Invariance, PTL DEF Spec, HandlesNeverReused
=============================================================================
