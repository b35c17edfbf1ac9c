-------------------------- MODULE HostServeProofs --------------------------
(***************************************************************************)
(* The safety of HostServe, for every number of pools, transactions, rows, *)
(* handles and request ids: that of DBHost, which its steps are steps of,  *)
(* and what one stream of requests adds to it.                             *)
(***************************************************************************)
EXTENDS HostServe, DBHostProofs

(* A transaction whose context has not ended was begun by the request that *)
(* is being worked on.                                                     *)
ContextsOK == Live \ ended \subseteq (IF serve = "work" THEN requestTx ELSE {})

(* What Serve is doing and what its call into the table is.                *)
CallOK ==
    /\ serve \in {"read", "reply"} => pc[Server] = "idle"
    /\ serve = "work" /\ frame.kind = "open" =>
         /\ pc[Server] \in {"idle", "ping", "register"}
         /\ pc[Server] # "idle" => res[Server] = "none"
    /\ serve = "work" /\ frame.kind # "open" => op[Server] # "open"
    /\ serve = "closing" /\ pc[Server] # "idle" => op[Server] = "closeall"

(* The handle that the client is about to be told of.                      *)
Opened == frame.kind = "open" /\ \/ serve = "work" /\ res[Server] = "ok"
                                 \/ serve = "reply" /\ reply.res = "ok"
New == IF Opened THEN {current} ELSE {}

HandlesOK ==
    /\ serve \in {"read", "work", "reply"} => handles \subseteq told \union New
    /\ New \subseteq handles

(* The handles that the closing loop has not come to.                      *)
ClosingOK ==
    /\ serve = "closing" =>
         handles \subseteq IF pc[Server] = "idle" THEN {}
                           ELSE todo[Server] \union (IF pc[Server] = "enter" THEN {arg[Server]} ELSE {})
    /\ CleanExitClosesAll

ServeInv == IInv /\ ServeTypeOK /\ ContextsOK /\ CallOK /\ HandlesOK /\ ClosingOK

(* The parts of DBHost's invariant that are used below.                    *)
LEMMA Basics ==
  ASSUME IInv
  PROVE  /\ HostTypeOK /\ TxTypeOK /\ DataTypeOK /\ FrameTypeOK /\ FrameOK /\ TxOK
         /\ TableOK /\ PoolOK /\ Server \in Caller
BY SingleStream DEF IInv, Inv4, Inv3, Inv2, Inv1, TypeFrame, TypeOK

-----------------------------------------------------------------------------
(* The transactions.                                                       *)

CallStep(c) == Ping(c) \/ Locks(c) \/ Driver(c) \/ Unlocked(c)

LEMMA CallBusy ==
  ASSUME NEW c, CallStep(c)
  PROVE  pc[c] # "idle"
<1>1. CASE Ping(c)
  BY <1>1 DEF Ping, PingFails, PingAnswers
<1>2. CASE Locks(c)
  BY <1>2 DEF Locks, RegisterRefused, Register, Enter, EnterRefused, BeginRefused, FinishRefused,
              NoSuchHandle, EnterBegin, EnterFinish, EnterStatement, CloseRefused, Detach, Acquires
<1>3. CASE Driver(c)
  BY <1>3 DEF Driver, Answers, DriverFails, BeginTx, TxStatement, AutoStatement, CommitRefused,
              Commit, Rollback, BeginFails, AutoStatementFails
<1>4. CASE Unlocked(c)
  BY <1>4 DEF Unlocked, CloseRollback, ClosePool, CloseAllNext, CloseAllEnds
<1>5. QED
  BY <1>1, <1>2, <1>3, <1>4 DEF CallStep

(* What a call does to transactions.                                       *)
LEMMA TxEffect ==
  ASSUME NEW c, CallStep(c)
  PROVE  UNCHANGED <<txState, ended>> \/ BeginTx(c) \/ \E t, s : s # "live" /\ Release(t, s)
<1>1. CASE Ping(c)
  BY <1>1 DEF Ping, PingFails, PingAnswers, txVars
<1>2. CASE Locks(c)
  BY <1>2 DEF Locks, RegisterRefused, Register, Enter, EnterRefused, BeginRefused, FinishRefused,
              NoSuchHandle, EnterBegin, EnterFinish, EnterStatement, CloseRefused, Detach, txVars
<1>3. CASE Answers(c)
  <2>1. CASE Commit(c) \/ Rollback(c)
    BY <2>1 DEF Commit, Rollback, Drop
  <2>2. CASE CommitRefused(c)
    BY <2>2 DEF CommitRefused, Drop, txVars
  <2>3. CASE TxStatement(c) \/ AutoStatement(c)
    BY <2>3 DEF TxStatement, AutoStatement, txVars
  <2>4. QED
    BY <1>3, <2>1, <2>2, <2>3 DEF Answers
<1>4. CASE DriverFails(c)
  BY <1>4 DEF DriverFails, BeginFails, AutoStatementFails, txVars
<1>5. CASE Unlocked(c)
  <2>1. CASE CloseRollback(c)
    BY <2>1 DEF CloseRollback, Drop, txVars
  <2>2. CASE ClosePool(c) \/ CloseAllNext(c) \/ CloseAllEnds(c)
    BY <2>2 DEF ClosePool, CloseAllNext, CloseAllEnds, txVars
  <2>3. QED
    BY <1>5, <2>1, <2>2 DEF Unlocked
<1>6. QED
  BY <1>1, <1>2, <1>3, <1>4, <1>5 DEF CallStep, Driver

LEMMA ReleaseEffect ==
  ASSUME TxTypeOK, NEW t, NEW s, s # "live", Release(t, s)
  PROVE  Live' \ ended' \subseteq Live \ ended
BY DEF TxTypeOK, Release, Live

(* A transaction whose context has not ended was one before, or has just   *)
(* begun, and then by BeginTx.                                             *)
LEMMA FreshTx ==
  ASSUME TxTypeOK, NEW c, CallStep(c)
  PROVE  /\ Live' \ ended' \subseteq (Live \ ended) \union {t \in Tx : t \notin Live /\ txState'[t] = "live"}
         /\ pc[c] # "begin" => Live' \ ended' \subseteq Live \ ended
<1>1. CASE UNCHANGED <<txState, ended>>
  BY <1>1 DEF Live
<1>2. CASE BeginTx(c)
  BY <1>2 DEF BeginTx, Live
<1>3. CASE \E t, s : s # "live" /\ Release(t, s)
  BY <1>3, ReleaseEffect
<1>4. QED
  BY <1>1, <1>2, <1>3, TxEffect

(* The cancel of a request ends the contexts of its transactions.          *)
LEMMA CancelInv ==
  ASSUME IInv, NEW S \in SUBSET Live, ended' = ended \union S,
         UNCHANGED <<hostVars, pools, txState, txPool, writes, dataVars, frameVars>>
  PROVE  IInv'
<1> USE DEF IInv, Inv4, Inv3, Inv2, Inv1
<1>1. TypeFrame' /\ BoundOK'
  <2>1. TypeFrame'
    BY DEF TypeFrame, TypeOK, HostTypeOK, TxTypeOK, DataTypeOK, FrameTypeOK, FrameOK, MutexOK,
           hostVars, dataVars, frameVars, Live
  <2>2. BoundOK'
    BY DEF BoundOK, Opening, hostVars, frameVars
  <2>3. QED
    BY <2>1, <2>2
<1>2. Owners' = Owners /\ Opening' = Opening /\ Live' = Live
  BY DEF Owners, Closing, Opening, Live, hostVars, frameVars
<1>3. TableOK' /\ HandleLimit'
  BY DEF TableOK, HandleLimit, hostVars, frameVars
<1>4. PoolOK'
  BY <1>2 DEF PoolOK, hostVars, frameVars
<1>5. TxOK'
  BY <1>2 DEF TxOK, hostVars, frameVars
<1>6. RowOK'
  BY <1>2 DEF RowOK, AnswersTrue, dataVars
<1>7. QED
  BY <1>1, <1>3, <1>4, <1>5, <1>6

-----------------------------------------------------------------------------
(* The table.                                                              *)

(* What an Open under way comes to.                                        *)
LEMMA OpenEffect ==
  ASSUME IInv, NEW c \in Caller, op[c] = "open", CallStep(c)
  PROVE  \/ pc'[c] = "register" /\ res'[c] = res[c] /\ UNCHANGED <<handles, current>>
         \/ pc'[c] = "idle" /\ res'[c] = "error" /\ UNCHANGED <<handles, current>>
         \/ pc'[c] = "idle" /\ res'[c] = "ok" /\ handles' = handles \union {current'}
<1>1. pc[c] \in {"ping", "register"} /\ FrameTypeOK
  BY Basics DEF FrameOK
<1>2. CASE Ping(c)
  BY <1>1, <1>2 DEF Ping, PingFails, PingAnswers, Return, Goto, hostVars, FrameTypeOK
<1>3. CASE Locks(c)
  <2>1. CASE RegisterRefused(c)
    BY <1>1, <2>1 DEF RegisterRefused, Return, Goto, hostVars, FrameTypeOK
  <2>2. CASE Register(c)
    BY <1>1, <2>2 DEF Register, Return, Goto, NextHandle, FrameTypeOK
  <2>3. CASE Enter(c) \/ CloseRefused(c) \/ Detach(c)
    BY <1>1, <2>3 DEF Enter, EnterRefused, BeginRefused, FinishRefused, NoSuchHandle, EnterBegin,
                      EnterFinish, EnterStatement, CloseRefused, Detach, Acquires
  <2>4. QED
    BY <1>3, <2>1, <2>2, <2>3 DEF Locks
<1>4. CASE Driver(c)
  BY <1>1, <1>4 DEF Driver, Answers, DriverFails, BeginTx, TxStatement, AutoStatement, CommitRefused,
                    Commit, Rollback, BeginFails, AutoStatementFails
<1>5. CASE Unlocked(c)
  BY <1>1, <1>5 DEF Unlocked, CloseRollback, ClosePool, CloseAllNext, CloseAllEnds
<1>6. QED
  BY <1>2, <1>3, <1>4, <1>5 DEF CallStep

(* No other call adds a handle.                                            *)
LEMMA OtherEffect ==
  ASSUME IInv, NEW c \in Caller, op[c] # "open", CallStep(c)
  PROVE  handles' \subseteq handles /\ current' = current /\ op'[c] \in {op[c], "none"}
<1>1. pc[c] \notin {"ping", "register"} /\ FrameTypeOK
  BY Basics DEF FrameOK
<1>2. CASE Locks(c)
  <2>1. CASE EnterRefused(c)
    BY <1>1, <2>1 DEF EnterRefused, BeginRefused, FinishRefused, NoSuchHandle, Return, hostVars,
                      FrameTypeOK
  <2>2. CASE EnterBegin(c) \/ EnterFinish(c) \/ EnterStatement(c)
    BY <2>2 DEF EnterBegin, EnterFinish, EnterStatement
  <2>3. CASE CloseRefused(c)
    BY <1>1, <2>3 DEF CloseRefused, CloseReturns, Return, hostVars, FrameTypeOK
  <2>4. CASE Detach(c)
    BY <2>4 DEF Detach
  <2>5. QED
    BY <1>1, <1>2, <2>1, <2>2, <2>3, <2>4 DEF Locks, Enter, RegisterRefused, Register
<1>3. CASE Driver(c)
  <2>1. \E r : Return(c, r)
    BY <1>3 DEF Driver, Answers, DriverFails, BeginTx, TxStatement, AutoStatement, CommitRefused,
                Commit, Rollback, BeginFails, AutoStatementFails, Leave
  <2>2. UNCHANGED <<handles, current>>
    BY <1>3 DEF Driver, Answers, DriverFails, BeginTx, TxStatement, AutoStatement, CommitRefused,
                Commit, Rollback, BeginFails, AutoStatementFails
  <2>3. QED
    BY <1>1, <2>1, <2>2 DEF Return, FrameTypeOK
<1>4. CASE Unlocked(c)
  BY <1>1, <1>4 DEF Unlocked, CloseRollback, ClosePool, CloseAllNext, CloseAllEnds, CloseReturns,
                    Return, hostVars, FrameTypeOK
<1>5. QED
  BY <1>1, <1>2, <1>3, <1>4 DEF CallStep, Ping, PingFails, PingAnswers

Left(c) == IF pc[c] = "idle" THEN {}
           ELSE todo[c] \union (IF pc[c] = "enter" THEN {arg[c]} ELSE {})

(* CloseAll comes to every handle that was in the table when it began.     *)
LEMMA SweepEffect ==
  ASSUME IInv, NEW c \in Caller, op[c] = "closeall", Locks(c) \/ Unlocked(c),
         handles \subseteq Left(c)
  PROVE  handles' \subseteq Left(c)' /\ (pc'[c] # "idle" => op'[c] = "closeall")
<1> USE DEF Left, Goto, FrameTypeOK
<1>1. FrameTypeOK /\ FrameOK
  BY Basics
<1>2. pc[c] \notin {"ping", "register"}
  BY <1>1 DEF FrameOK
<1>3. CASE CloseRefused(c)
  BY <1>1, <1>3 DEF CloseRefused, CloseReturns, Acquires, hostVars
<1>4. CASE Detach(c)
  BY <1>1, <1>4 DEF Detach, Acquires
<1>5. CASE CloseRollback(c)
  BY <1>1, <1>5 DEF CloseRollback
<1>6. CASE ClosePool(c)
  BY <1>1, <1>6 DEF ClosePool, CloseReturns
<1>7. CASE CloseAllNext(c)
  BY <1>1, <1>7 DEF CloseAllNext, hostVars
<1>8. CASE CloseAllEnds(c)
  BY <1>1, <1>8 DEF CloseAllEnds, Return, hostVars
<1>9. QED
  <2>1. ~Enter(c) /\ ~RegisterRefused(c) /\ ~Register(c)
    BY <1>2 DEF Enter, EnterRefused, BeginRefused, FinishRefused, NoSuchHandle, EnterBegin,
                EnterFinish, EnterStatement, Acquires, RegisterRefused, Register
  <2>2. QED
    BY <1>3, <1>4, <1>5, <1>6, <1>7, <1>8, <2>1 DEF Locks, Unlocked

(* A host without a handle and without a call under way has no pool.       *)
LEMMA NoPools ==
  ASSUME IInv, handles = {}, pc[Server] = "idle"
  PROVE  pools = {}
<1>1. \A c \in Caller : pc[c] = "idle"
  BY SingleStream
<1>2. Owners = {} /\ Opening = {}
  BY <1>1, Basics DEF Owners, Closing, Opening, FrameOK
<1>3. QED
  BY <1>2, Basics DEF PoolOK

-----------------------------------------------------------------------------
(* The steps of Serve.                                                     *)

ServeTypes ==
    /\ serve \in {"read", "work", "reply", "closing", "exited"}
    /\ frame \in [kind : Kind \union {"none"}, id : MsgId \union {NoId}]
    /\ reply \in [id : MsgId \union {NoId}, res : {"none", "ok", "error"}]
    /\ requestTx \subseteq Tx /\ expired \subseteq Tx
    /\ told \subseteq Id
    /\ cause \in {"none", "encoding", "output", "input"}

LEMMA TypeParts == IInv => (ServeTypeOK <=> ServeTypes)
BY DEF IInv, Inv4, Inv3, Inv2, Inv1, TypeFrame, ServeTypeOK, ServeTypes

LEMMA TypePartsNext == IInv' /\ ServeTypes' => ServeTypeOK'
BY DEF IInv, Inv4, Inv3, Inv2, Inv1, TypeFrame, ServeTypeOK, ServeTypes

LEMMA NewIsId ==
  ASSUME IInv, HandlesOK
  PROVE  New \subseteq Id
BY Basics, BoundAssumption DEF HandlesOK, HostTypeOK, Id

(* Serve reads, answers and ends without a step of the table.              *)
LEMMA LocalStep ==
  ASSUME ServeInv, UNCHANGED vars,
         ReadMalformed \/ ReadRefused \/ ReadLocal \/ Replied \/ EncodingFails \/ WriteFails
         \/ ReadFails \/ Exit \/ UNCHANGED allVars
  PROVE  ServeInv'
<1> USE DEF ServeInv
<1>1. IInv'
  BY InvStep
<1>2. /\ Live' = Live /\ ended' = ended /\ pc' = pc /\ op' = op /\ arg' = arg /\ todo' = todo
      /\ res' = res /\ handles' = handles /\ current' = current /\ pools' = pools
  BY DEF vars, Live, txVars, frameVars, hostVars
<1>3. CASE ReadMalformed \/ ReadRefused \/ ReadLocal
  <2>1. PICK k \in Kind, m \in MsgId, id \in MsgId \union {NoId}, r \in {"ok", "error"} :
            k # "open" /\ Answer(k, m, id, r)
    BY <1>3 DEF ReadMalformed, ReadRefused, ReadLocal, Kind
  <2> USE <1>2, <2>1 DEF Answer
  <2>2. frame'.kind = k /\ reply'.res = r
    OBVIOUS
  <2>3. ServeTypes'
    BY TypeParts DEF ServeTypes
  <2>4. ContextsOK' /\ CallOK'
    BY DEF ContextsOK, CallOK
  <2>5. HandlesOK' /\ ClosingOK'
    BY <2>2 DEF HandlesOK, ClosingOK, CleanExitClosesAll, New, Opened
  <2>6. QED
    BY <1>1, <2>3, <2>4, <2>5, TypePartsNext
<1>4. CASE Replied
  <2> USE <1>2, <1>4 DEF Replied
  <2>1. ServeTypes'
    <3>1. current \in New => current \in Id
      BY NewIsId
    <3>2. told' \subseteq Id
      BY <3>1, TypeParts DEF ServeTypes, New, Opened
    <3>3. QED
      BY <3>2, TypeParts DEF ServeTypes, NoFrame, NoReply, Kind
  <2>2. ContextsOK' /\ CallOK'
    BY DEF ContextsOK, CallOK
  <2>3. HandlesOK' /\ ClosingOK'
    BY DEF HandlesOK, ClosingOK, CleanExitClosesAll, New, Opened
  <2>4. QED
    BY <1>1, <2>1, <2>2, <2>3, TypePartsNext
<1>5. CASE EncodingFails \/ WriteFails \/ ReadFails
  <2>1. PICK why \in {"encoding", "output", "input"} : Abort(why)
    BY <1>5 DEF EncodingFails, WriteFails, ReadFails
  <2>2. serve \in {"read", "reply"}
    BY <1>5 DEF EncodingFails, WriteFails, ReadFails
  <2> USE <1>2, <2>1, <2>2 DEF Abort
  <2>3. ServeTypes'
    BY TypeParts DEF ServeTypes
  <2>4. ContextsOK' /\ CallOK' /\ HandlesOK' /\ ClosingOK'
    BY DEF ContextsOK, CallOK, HandlesOK, ClosingOK, CleanExitClosesAll, New, Opened
  <2>5. QED
    BY <1>1, <2>3, <2>4, TypePartsNext
<1>6. CASE Exit
  <2> USE <1>2, <1>6 DEF Exit
  <2>1. handles = {} /\ pools = {}
    BY NoPools DEF ClosingOK
  <2>2. Live \subseteq ended
    BY DEF ContextsOK
  <2>3. ServeTypes'
    BY TypeParts DEF ServeTypes
  <2>4. ContextsOK' /\ CallOK' /\ HandlesOK'
    BY DEF ContextsOK, CallOK, HandlesOK, New, Opened
  <2>5. ClosingOK'
    BY <2>1, <2>2 DEF ClosingOK, CleanExitClosesAll
  <2>6. QED
    BY <1>1, <2>3, <2>4, <2>5, TypePartsNext
<1>7. CASE UNCHANGED allVars
  <2> USE <1>2, <1>7 DEF allVars, serveVars
  <2>1. ServeTypes'
    BY TypeParts DEF ServeTypes
  <2>2. ContextsOK' /\ CallOK' /\ HandlesOK' /\ ClosingOK'
    BY DEF ContextsOK, CallOK, HandlesOK, ClosingOK, CleanExitClosesAll, New, Opened
  <2>3. QED
    BY <1>1, <2>1, <2>2, TypePartsNext
<1>8. QED
  BY <1>3, <1>4, <1>5, <1>6, <1>7

(* A database operation is dispatched.                                     *)
LEMMA ReadDbStep ==
  ASSUME ServeInv, ReadDb
  PROVE  ServeInv'
<1> USE DEF ServeInv
<1>1. PICK k \in Kind, m \in MsgId :
        /\ frame' = [kind |-> k, id |-> m]
        /\ \/ k = "open" /\ OpenRefused(Server)
           \/ k \in {"exec", "query"} /\ StatementRefused(Server)
           \/ k = "open" /\ OpenPool(Server)
           \/ Request(Server) /\ op'[Server] = DbOp(k)
  BY DEF ReadDb
<1>2. Start(Server) /\ frame'.kind = k
  BY <1>1 DEF Start, Refuse
<1>3. IInv'
  <2>1. CallerStep(Server) /\ Server \in Caller
    BY <1>2, Basics DEF CallerStep
  <2>2. QED
    BY <2>1, InvStep DEF Next
<1>4. FrameTypeOK /\ FrameOK /\ Server \in Caller /\ pc[Server] = "idle" /\ op[Server] # "open"
  BY Basics DEF FrameOK, CallOK, ReadDb
<1>5. UNCHANGED <<handles, current, txState, ended>>
  BY <1>1 DEF OpenRefused, StatementRefused, Refused, OpenPool, Request, hostVars, txVars
<1>6. ServeTypes'
  BY <1>1, TypeParts DEF ServeTypes, ReadDb
<1>7. ContextsOK'
  BY <1>5 DEF ContextsOK, ReadDb, Live
<1>8. CallOK' /\ res'[Server] # "ok"
  <2>1. CASE k = "open" /\ OpenRefused(Server)
    BY <1>2, <1>4, <2>1 DEF OpenRefused, Refused, CallOK, FrameTypeOK, ReadDb
  <2>2. CASE k \in {"exec", "query"} /\ StatementRefused(Server)
    BY <1>2, <1>4, <2>2 DEF StatementRefused, Refused, CallOK, FrameTypeOK, ReadDb
  <2>3. CASE k = "open" /\ OpenPool(Server)
    BY <1>2, <1>4, <2>3 DEF OpenPool, Call, Goto, CallOK, FrameTypeOK, ReadDb
  <2>4. CASE Request(Server) /\ op'[Server] = DbOp(k)
    <3>1. PICK o \in {"begin", "commit", "rollback", "statement", "close"}, i \in Id :
              Call(Server, o, "enter", i)
      BY <2>4 DEF Request
    <3>2. op'[Server] = o /\ o # "open" /\ res'[Server] = "none"
      BY <1>4, <3>1 DEF Call, FrameTypeOK
    <3>3. k # "open"
      BY <2>4, <3>2 DEF DbOp
    <3>4. QED
      BY <1>2, <3>2, <3>3 DEF CallOK, ReadDb
  <2>5. QED
    BY <1>1, <2>1, <2>2, <2>3, <2>4
<1>9. HandlesOK'
  BY <1>5, <1>8 DEF HandlesOK, New, Opened, ReadDb
<1>10. ClosingOK'
  BY DEF ClosingOK, CleanExitClosesAll, ReadDb
<1>11. QED
  BY <1>3, <1>6, <1>7, <1>8, <1>9, <1>10, TypePartsNext

(* The dispatched operation proceeds, or its driver fails.                 *)
LEMMA WorksStep ==
  ASSUME ServeInv, Proceeds \/ GivesUp
  PROVE  ServeInv'
<1> USE DEF ServeInv
<1>1. /\ serve = "work" /\ CallStep(Server)
      /\ requestTx' = requestTx \union {t \in Tx : t \notin Live /\ txState'[t] = "live"}
      /\ expired' = {t \in expired : txState'[t] # "none"}
      /\ UNCHANGED <<serve, frame, reply, told, cause>>
  BY DEF Proceeds, GivesUp, Works, CallStep, Driver
<1>2. Server \in Caller /\ TxTypeOK /\ FrameOK
  BY Basics
<1>3. IInv'
  <2>1. CallerStep(Server)
    BY <1>1 DEF CallerStep, CallStep
  <2>2. QED
    BY <1>2, <2>1, InvStep DEF Next
<1>4. ServeTypes'
  BY <1>1, TypeParts DEF ServeTypes
<1>5. ContextsOK'
  BY <1>1, <1>2, FreshTx DEF ContextsOK
<1>6. CASE frame.kind = "open"
  <2>1. op[Server] = "open" /\ res[Server] = "none"
    BY <1>1, <1>2, <1>6, CallBusy DEF CallOK, FrameOK
  <2>2. CallOK' /\ HandlesOK'
    <3>1. CASE pc'[Server] = "register" /\ res'[Server] = res[Server] /\ UNCHANGED <<handles, current>>
      BY <1>1, <1>6, <2>1, <3>1 DEF CallOK, HandlesOK, New, Opened
    <3>2. CASE pc'[Server] = "idle" /\ res'[Server] = "error" /\ UNCHANGED <<handles, current>>
      BY <1>1, <1>6, <2>1, <3>2 DEF CallOK, HandlesOK, New, Opened
    <3>3. CASE pc'[Server] = "idle" /\ res'[Server] = "ok" /\ handles' = handles \union {current'}
      BY <1>1, <1>6, <2>1, <3>3 DEF CallOK, HandlesOK, New, Opened
    <3>4. QED
      BY <1>1, <1>2, <2>1, <3>1, <3>2, <3>3, OpenEffect
  <2>3. QED
    BY <1>1, <1>3, <1>4, <1>5, <2>2, TypePartsNext DEF ClosingOK, CleanExitClosesAll
<1>7. CASE frame.kind # "open"
  <2>1. handles' \subseteq handles /\ op'[Server] # "open"
    BY <1>1, <1>2, <1>7, OtherEffect DEF CallOK
  <2>2. CallOK' /\ HandlesOK'
    BY <1>1, <1>7, <2>1 DEF CallOK, HandlesOK, New, Opened
  <2>3. QED
    BY <1>1, <1>3, <1>4, <1>5, <2>2, TypePartsNext DEF ClosingOK, CleanExitClosesAll
<1>8. QED
  BY <1>6, <1>7

(* A context ends by its deadline, or database/sql ends what such a one    *)
(* belonged to.                                                            *)
LEMMA ContextStep ==
  ASSUME ServeInv, Deadline \/ Background
  PROVE  ServeInv'
<1> USE DEF ServeInv
<1>1. PICK t \in Tx : ContextEnds(t) \/ AwaitDone(t)
  BY TypeParts DEF Deadline, Background, ServeTypes
<1>2. IInv'
  BY <1>1, InvStep DEF Next, TxStep
<1>3. UNCHANGED <<hostVars, pools, dataVars, frameVars>>
  BY <1>1 DEF ContextEnds, AwaitDone
<1>4. UNCHANGED <<serve, frame, reply, requestTx, told, cause>> /\ expired' \subseteq Tx /\ serve # "exited"
  BY <1>1, TypeParts DEF Deadline, Background, ServeTypes
<1>5. Live' \ ended' \subseteq Live \ ended
  <2>1. CASE ContextEnds(t)
    BY <2>1 DEF ContextEnds, Live
  <2>2. CASE AwaitDone(t)
    <3>1. \E s : s # "live" /\ Release(t, s)
      BY <2>2 DEF AwaitDone
    <3>2. QED
      BY <3>1, Basics, ReleaseEffect
  <2>3. QED
    BY <1>1, <2>1, <2>2
<1>6. ServeTypes'
  BY <1>4, TypeParts DEF ServeTypes
<1>7. ContextsOK' /\ CallOK'
  BY <1>3, <1>4, <1>5 DEF ContextsOK, CallOK, frameVars
<1>8. HandlesOK' /\ ClosingOK'
  BY <1>3, <1>4 DEF HandlesOK, ClosingOK, CleanExitClosesAll, New, Opened, frameVars, hostVars
<1>9. QED
  BY <1>2, <1>6, <1>7, <1>8, TypePartsNext

(* Dispatch returned: its context is cancelled.                            *)
LEMMA DispatchedStep ==
  ASSUME ServeInv, Dispatched
  PROVE  ServeInv'
<1> USE DEF ServeInv, Dispatched, Cancel
<1>1. IInv'
  BY CancelInv DEF Live
<1>2. UNCHANGED <<handles, current, pools, pc, op, arg, todo, res>> /\ Live' = Live
  BY DEF hostVars, frameVars, Live
<1>3. res[Server] \in {"none", "ok", "error"} /\ reply'.res = res[Server]
  BY Basics DEF FrameTypeOK
<1>4. ServeTypes'
  BY <1>3, TypeParts DEF ServeTypes
<1>5. ContextsOK' /\ CallOK'
  BY <1>2 DEF ContextsOK, CallOK
<1>6. HandlesOK' /\ ClosingOK'
  BY <1>2, <1>3 DEF HandlesOK, ClosingOK, CleanExitClosesAll, New, Opened
<1>7. QED
  BY <1>1, <1>4, <1>5, <1>6, TypePartsNext

(* End of input, and the closing of every handle.                          *)
LEMMA ClosingStep ==
  ASSUME ServeInv, EndOfInput \/ Closes
  PROVE  ServeInv'
<1> USE DEF ServeInv
<1>1. Server \in Caller /\ TxTypeOK /\ FrameOK /\ FrameTypeOK
  BY Basics
<1>2. CASE EndOfInput
  <2> USE <1>2 DEF EndOfInput, CloseAllLists, Call, Goto
  <2>1. IInv'
    <3>1. CallerStep(Server)
      BY DEF CallerStep, Start
    <3>2. QED
      BY <1>1, <3>1, InvStep DEF Next
  <2>2. ServeTypes'
    BY TypeParts DEF ServeTypes
  <2>3. ContextsOK' /\ CallOK'
    BY <1>1 DEF ContextsOK, CallOK, txVars, Live, FrameTypeOK
  <2>4. HandlesOK' /\ ClosingOK'
    BY <1>1 DEF HandlesOK, ClosingOK, CleanExitClosesAll, New, Opened, FrameTypeOK, hostVars
  <2>5. QED
    BY <2>1, <2>2, <2>3, <2>4, TypePartsNext
<1>3. CASE Closes
  <2> USE <1>3 DEF Closes
  <2>1. CallStep(Server) /\ CallerStep(Server)
    BY DEF CallStep, CallerStep
  <2>2. IInv'
    BY <1>1, <2>1, InvStep DEF Next
  <2>3. op[Server] = "closeall" /\ pc[Server] # "begin"
    BY <1>1, <2>1, CallBusy DEF CallOK, FrameOK
  <2>4. ServeTypes'
    BY TypeParts DEF ServeTypes
  <2>5. ContextsOK'
    BY <1>1, <2>1, <2>3, FreshTx DEF ContextsOK
  <2>6. Left(Server)' = (IF pc'[Server] = "idle" THEN {} ELSE todo'[Server]
                          \union (IF pc'[Server] = "enter" THEN {arg'[Server]} ELSE {}))
    BY DEF Left
  <2>7. handles' \subseteq Left(Server)' /\ (pc'[Server] # "idle" => op'[Server] = "closeall")
    <3>1. handles \subseteq Left(Server)
      BY DEF ClosingOK, Left
    <3>2. QED
      BY <1>1, <2>3, <3>1, SweepEffect
  <2>8. CallOK' /\ HandlesOK'
    BY <2>7 DEF CallOK, HandlesOK, New, Opened
  <2>9. ClosingOK'
    BY <2>6, <2>7 DEF ClosingOK, CleanExitClosesAll
  <2>10. QED
    BY <2>2, <2>4, <2>5, <2>8, <2>9, TypePartsNext
<1>4. QED
  BY <1>2, <1>3

LEMMA ServeInvInit == ServeInit => ServeInv
<1> SUFFICES ASSUME ServeInit PROVE ServeInv
  OBVIOUS
<1> USE DEF ServeInit
<1>1. IInv
  BY InvInit
<1>2. ServeTypes
  BY DEF ServeTypes, NoFrame, NoReply
<1>3. ContextsOK
  BY DEF Init, ContextsOK, Live
<1>4. CallOK /\ HandlesOK /\ ClosingOK
  BY SingleStream DEF Init, CallOK, HandlesOK, ClosingOK, CleanExitClosesAll, New, Opened
<1>5. QED
  BY <1>1, <1>2, <1>3, <1>4, TypeParts DEF ServeInv

LEMMA ServeInvStep == ServeInv /\ [ServeNext]_allVars => ServeInv'
<1> SUFFICES ASSUME ServeInv, [ServeNext]_allVars PROVE ServeInv'
  OBVIOUS
<1>1. CASE ReadMalformed \/ ReadRefused \/ ReadLocal \/ Replied \/ EncodingFails \/ WriteFails
           \/ ReadFails \/ Exit \/ UNCHANGED allVars
  <2>1. UNCHANGED vars
    BY <1>1 DEF ReadMalformed, ReadRefused, ReadLocal, Answer, Replied, EncodingFails, WriteFails,
                ReadFails, Abort, Exit, allVars
  <2>2. QED
    BY <1>1, <2>1, LocalStep
<1>2. QED
  BY <1>1, ReadDbStep, WorksStep, ContextStep, DispatchedStep, ClosingStep DEF ServeNext

LEMMA ServeInvariance == ServeSpec => []ServeInv
BY ServeInvInit, ServeInvStep, PTL DEF ServeSpec

-----------------------------------------------------------------------------
(* The results.                                                            *)

(* Every state of the host process is a state of its types, in the table   *)
(* of handles and in the protocol loop.                                    *)
THEOREM ServeTypesHold == ServeSpec => []ServeTypeOK
<1>1. ServeInv => ServeTypeOK
  BY DEF ServeInv
<1>2. QED
  BY <1>1, ServeInvariance, PTL

(* The cancel after each Dispatch reaches every transaction that the       *)
(* request began: none lives on undoomed into the next one.                *)
THEOREM TxEndWithRequests == ServeSpec => []NoTxOutlivesItsRequest
<1>1. ServeInv => NoTxOutlivesItsRequest
  BY DEF ServeInv, ContextsOK, NoTxOutlivesItsRequest
<1>2. QED
  BY <1>1, ServeInvariance, PTL

(* After the end of input the deferred Close comes to every handle, and    *)
(* the process leaves no pool and no usable transaction.                   *)
THEOREM CleanExits == ServeSpec => []CleanExitClosesAll
<1>1. ServeInv => CleanExitClosesAll
  BY DEF ServeInv, ClosingOK
<1>2. QED
  BY <1>1, ServeInvariance, PTL

(* Every handle in the table was written to the client in the reply to the *)
(* Open that made it, so that the client can close it.                     *)
THEOREM ClientHasEveryHandle == ServeSpec => []ClientKnowsHandles
<1>1. ServeInv => ClientKnowsHandles
  BY DEF ServeInv, HandlesOK, New, Opened, ClientKnowsHandles
<1>2. QED
  BY <1>1, ServeInvariance, PTL
=============================================================================
