---------------------------- MODULE DBHostRefines ----------------------------
(***************************************************************************)
(* DBHost implements TxHandles: each step of the host is, for the client,  *)
(* one step of the contract or none.                                       *)
(***************************************************************************)
EXTENDS DBHostProofs

(* The transaction of each handle, and what the client sees of it.         *)
CurrentIs ==
    /\ \A c \in Caller : pc[c] = "finish" => CurrentTx(arg[c]) = held[c]
    /\ \A i \in Id : (\A c \in Caller : pc[c] = "finish" => arg[c] # i) => CurrentTx(i) = txOf[i]
    /\ \A i \in Id : CurrentTx(i) \in Tx \union {NoTx}

ViewIs == \A i \in Id :
    /\ i > current => Phase(i) = "unopened" /\ Pending(i) = {}
    /\ i <= current /\ i \notin handles => Phase(i) = "closed" /\ Pending(i) = {}
    /\ i \in handles /\ CurrentTx(i) = NoTx => Phase(i) = "idle" /\ Pending(i) = {}
    /\ i \in handles /\ CurrentTx(i) \in Live =>
         Phase(i) = "intx" /\ Pending(i) = writes[CurrentTx(i)]
    /\ i \in handles /\ CurrentTx(i) \in Tx \ Live => Phase(i) = "doomed" /\ Pending(i) = {}

(* The parts of the invariant that the view rests on.                      *)
LEMMA Parts ==
  IInv => /\ HostTypeOK /\ TxTypeOK /\ FrameTypeOK /\ DataTypeOK
          /\ FrameOK /\ MutexOK /\ TableOK /\ TxOK /\ RowOK /\ handles \subseteq Id
<1> SUFFICES ASSUME IInv PROVE handles \subseteq Id
  BY DEF IInv, Inv4, Inv3, Inv2, Inv1, TypeFrame, TypeOK
<1>1. HostTypeOK
  BY DEF IInv, Inv4, Inv3, Inv2, Inv1, TypeFrame, TypeOK
<1>2. QED
  BY <1>1, BoundAssumption DEF HostTypeOK, Id

LEMMA Current == IInv => CurrentIs
<1> SUFFICES ASSUME IInv PROVE CurrentIs
  OBVIOUS
<1>0. HostTypeOK /\ FrameTypeOK /\ FrameOK /\ MutexOK
  BY Parts
<1>1. \A c, d \in Caller : pc[c] = "finish" /\ pc[d] = "finish" => c = d
  BY <1>0 DEF MutexOK, DriverCall
<1>2. \A c \in Caller : pc[c] = "finish" => CurrentTx(arg[c]) = held[c]
  BY <1>1 DEF CurrentTx
<1>3. \A i \in Id : (\A c \in Caller : pc[c] = "finish" => arg[c] # i) => CurrentTx(i) = txOf[i]
  BY DEF CurrentTx
<1>4. \A i \in Id : CurrentTx(i) \in Tx \union {NoTx}
  BY <1>0, <1>2, <1>3 DEF HostTypeOK, FrameTypeOK
<1>5. QED
  BY <1>2, <1>3, <1>4 DEF CurrentIs

LEMMA View == IInv => ViewIs
<1> SUFFICES ASSUME IInv, NEW i \in Id
             PROVE  /\ i > current => Phase(i) = "unopened" /\ Pending(i) = {}
                    /\ i <= current /\ i \notin handles => Phase(i) = "closed" /\ Pending(i) = {}
                    /\ i \in handles /\ CurrentTx(i) = NoTx => Phase(i) = "idle" /\ Pending(i) = {}
                    /\ i \in handles /\ CurrentTx(i) \in Live =>
                         Phase(i) = "intx" /\ Pending(i) = writes[CurrentTx(i)]
                    /\ i \in handles /\ CurrentTx(i) \in Tx \ Live =>
                         Phase(i) = "doomed" /\ Pending(i) = {}
  BY DEF ViewIs
<1>1. /\ current \in Nat /\ i \in Nat /\ (i \in handles => i <= current)
  BY Parts, BoundAssumption DEF HostTypeOK, Id
<1>2. NoTx \notin Live /\ Live \subseteq Tx
  BY NoneAssumption DEF Live
<1>3. CASE i > current
  BY <1>1, <1>3 DEF Phase, Pending
<1>4. CASE i <= current /\ i \notin handles
  BY <1>1, <1>4 DEF Phase, Pending
<1>5. CASE i \in handles
  <2>1. ~(i > current) /\ i <= current
    BY <1>1, <1>5
  <2>2. CASE CurrentTx(i) = NoTx
    BY <1>2, <1>5, <2>1, <2>2, NoneAssumption DEF Phase, Pending
  <2>3. CASE CurrentTx(i) \in Live
    BY <1>2, <1>5, <2>1, <2>3, NoneAssumption DEF Phase, Pending
  <2>4. CASE CurrentTx(i) \in Tx \ Live
    BY <1>2, <1>5, <2>1, <2>4, NoneAssumption DEF Phase, Pending
  <2>5. QED
    BY <1>5, <2>1, <2>2, <2>3, <2>4
<1>6. QED
  BY <1>1, <1>3, <1>4, <1>5

(* What the client sees of a handle follows from these.                    *)
SameView(i) ==
    /\ i \in handles' <=> i \in handles
    /\ i <= current' <=> i <= current
    /\ i \in handles =>
         /\ CurrentTx(i)' = CurrentTx(i)
         /\ CurrentTx(i) \in Live' <=> CurrentTx(i) \in Live
         /\ CurrentTx(i) \in Live => writes'[CurrentTx(i)] = writes[CurrentTx(i)]

LEMMA SameViews ==
  ASSUME IInv, IInv', NEW i \in Id, SameView(i)
  PROVE  Phase(i)' = Phase(i) /\ Pending(i)' = Pending(i)
<1>1. CurrentIs /\ ViewIs
  BY Current, View
<1>2. IInv' => (CurrentIs /\ ViewIs)'
  BY Current, View, PTL
<1>3. current \in Nat /\ current' \in Nat /\ i \in Nat
  <2>1. HostTypeOK /\ HostTypeOK'
    BY DEF IInv, Inv4, Inv3, Inv2, Inv1, TypeFrame, TypeOK
  <2>2. QED
    BY <2>1, BoundAssumption DEF HostTypeOK, Id
<1>4. QED
  BY <1>1, <1>2, <1>3 DEF SameView, CurrentIs, ViewIs

LEMMA Stutters ==
  ASSUME IInv, IInv', \A i \in Id : SameView(i), store' = store
  PROVE  UNCHANGED Client!vars
BY SameViews DEF Client!vars
-----------------------------------------------------------------------------
(* Steps of the client's contract.                                         *)

(* Every handle but i looks the same after the step.                       *)
Others(i) == \A j \in Id \ {i} : SameView(j)

(* A step that changes what the client sees of handle i only.              *)
LEMMA ViewMoves ==
  ASSUME IInv, IInv', NEW i \in Id, Others(i)
  PROVE  /\ [j \in Id |-> Phase(j)]' = [[j \in Id |-> Phase(j)] EXCEPT ![i] = Phase(i)']
         /\ [j \in Id |-> Pending(j)]' = [[j \in Id |-> Pending(j)] EXCEPT ![i] = Pending(i)']
BY SameViews DEF Others

(* A row that is nowhere is fresh for the client too.                      *)
LEMMA FreshForClient == IInv => Fresh \subseteq Client!Fresh
<1> SUFFICES ASSUME IInv, NEW r \in Fresh PROVE r \in Client!Fresh
  OBVIOUS
<1>1. r \in Row /\ r \notin store /\ \A t \in Tx : r \notin writes[t]
  BY DEF Fresh
<1>2. \A i \in Id : r \notin Pending(i)
  BY <1>1 DEF Pending, Live
<1>3. QED
  BY <1>1, <1>2 DEF Client!Fresh

(* Handle i is finished by the same call, or by none, as before.           *)
FinishSame(i) ==
    /\ txOf'[i] = txOf[i]
    /\ \A c \in Caller :
         /\ (pc'[c] = "finish" /\ arg'[c] = i) <=> (pc[c] = "finish" /\ arg[c] = i)
         /\ pc[c] = "finish" /\ arg[c] = i => held'[c] = held[c]

LEMMA SameCurrent ==
  ASSUME IInv, IInv', NEW i \in Id, FinishSame(i)
  PROVE  CurrentTx(i)' = CurrentTx(i)
<1>1. CurrentIs
  BY Current
<1>2. IInv' => CurrentIs'
  BY Current, PTL
<1>3. CASE \E c \in Caller : pc[c] = "finish" /\ arg[c] = i
  BY <1>1, <1>2, <1>3 DEF CurrentIs, FinishSame
<1>4. CASE \A c \in Caller : pc[c] = "finish" => arg[c] # i
  BY <1>1, <1>2, <1>4 DEF CurrentIs, FinishSame
<1>5. QED
  BY <1>3, <1>4

(* A caller moves, and finishes nothing before or after.                   *)
FrameMoves(c) ==
    /\ pc[c] # "finish" /\ pc'[c] # "finish"
    /\ \A d \in Caller \ {c} : pc'[d] = pc[d] /\ arg'[d] = arg[d] /\ held'[d] = held[d]

LEMMA FinishOthers ==
  ASSUME NEW c \in Caller, NEW i \in Id, FrameMoves(c), txOf'[i] = txOf[i]
  PROVE  FinishSame(i)
BY DEF FinishSame, FrameMoves

(* No two handles have the same transaction, and it exists.                *)
LEMMA CurrentUnique ==
  ASSUME IInv, NEW i \in Id, CurrentTx(i) # NoTx
  PROVE  /\ CurrentTx(i) \in Tx /\ txState[CurrentTx(i)] # "none"
         /\ \A j \in Id \ {i} : CurrentTx(j) # CurrentTx(i)
<1>1. CurrentIs /\ TxOK /\ MutexOK
  BY Current, Parts
<1>2. \A c, d \in Caller : pc[c] = "finish" /\ pc[d] = "finish" => c = d
  BY <1>1 DEF MutexOK, DriverCall
<1>3. CurrentTx(i) \in Tx
  BY <1>1 DEF CurrentIs
<1>4. CASE \E c \in Caller : pc[c] = "finish" /\ arg[c] = i
  <2>1. PICK c \in Caller : pc[c] = "finish" /\ arg[c] = i
    BY <1>4
  <2>2. CurrentTx(i) = held[c] /\ txState[held[c]] # "none" /\ \A j \in Id : txOf[j] # held[c]
    BY <1>1, <2>1 DEF CurrentIs, TxOK
  <2>3. \A j \in Id \ {i} : CurrentTx(j) = txOf[j]
    BY <1>1, <1>2, <2>1 DEF CurrentIs
  <2>4. QED
    BY <1>3, <2>2, <2>3
<1>5. CASE \A c \in Caller : pc[c] = "finish" => arg[c] # i
  <2>1. CurrentTx(i) = txOf[i]
    BY <1>1, <1>5 DEF CurrentIs
  <2>2. txState[txOf[i]] # "none" /\ (\A j \in Id \ {i} : txOf[j] # txOf[i])
        /\ (\A c \in Caller : pc[c] = "finish" => held[c] # txOf[i])
    BY <1>1, <2>1 DEF TxOK
  <2>3. \A j \in Id \ {i} : CurrentTx(j) # txOf[i]
    <3> TAKE j \in Id \ {i}
    <3>1. CASE \E c \in Caller : pc[c] = "finish" /\ arg[c] = j
      BY <1>1, <2>2, <3>1 DEF CurrentIs
    <3>2. CASE \A c \in Caller : pc[c] = "finish" => arg[c] # j
      BY <1>1, <2>2, <3>2 DEF CurrentIs
    <3>3. QED
      BY <3>1, <3>2
  <2>4. QED
    BY <1>3, <2>1, <2>2, <2>3
<1>6. QED
  BY <1>4, <1>5

(* A step that touches one transaction leaves the other handles alone.     *)
OnlyTx(t) == \A u \in Tx \ {t} : txState'[u] = txState[u] /\ writes'[u] = writes[u]

LEMMA OthersSame ==
  ASSUME IInv, IInv', NEW t, NEW i, OnlyTx(t), handles' = handles, current' = current,
         \A j \in handles \ {i} : CurrentTx(j) # t /\ CurrentTx(j)' = CurrentTx(j)
  PROVE  Others(i)
<1>1. CurrentIs /\ handles \subseteq Id
  BY Current, Parts
<1>2. QED
  BY <1>1, NoneAssumption DEF Others, SameView, Live, OnlyTx, CurrentIs

LEMMA QuietStep ==
  ASSUME IInv, IInv', NEW c \in Caller, FrameMoves(c),
         UNCHANGED <<handles, current, txOf, txState, writes, store>>
  PROVE  UNCHANGED Client!vars
<1>1. \A i \in Id : CurrentTx(i)' = CurrentTx(i)
  BY SameCurrent, FinishOthers
<1>2. \A i \in Id : SameView(i)
  BY <1>1 DEF SameView, Live
<1>3. QED
  BY <1>2, Stutters

LEMMA RegisterOpens ==
  ASSUME IInv, IInv', NEW c \in Caller, Register(c)
  PROVE  \E i \in Id : Client!Open(i)
<1> SUFFICES ASSUME NEW n \in Nat, n = current + 1
             PROVE  \E i \in Id : Client!Open(i)
  BY Parts, BoundAssumption DEF HostTypeOK
<1>0. TypeOK /\ FrameOK /\ BoundOK /\ HostTypeOK /\ FrameTypeOK /\ handles \subseteq Id /\ CurrentIs /\ ViewIs
  BY Parts, Current, View DEF IInv, Inv4, Inv3, Inv2, Inv1, TypeFrame
<1>1. IInv' => (CurrentIs /\ ViewIs)'
  BY Current, View, PTL
<1>2. n \in Id /\ handles' = handles \union {n} /\ current' = n /\ current \in Nat
      /\ txOf' = [txOf EXCEPT ![n] = NoTx] /\ Return(c, "ok") /\ pc[c] = "register"
      /\ UNCHANGED <<txVars, dataVars>>
  BY <1>0, OpeningCounts, BoundAssumption DEF Register, NextHandle, HostTypeOK, Id
<1>3. n \notin handles /\ txOf'[n] = NoTx /\ \A i \in Id \ {n} : txOf'[i] = txOf[i]
  BY <1>0, <1>2 DEF HostTypeOK
<1>4. \A d \in Caller : pc'[d] = "finish" <=> pc[d] = "finish"
  BY <1>0, <1>2 DEF Return, Goto, FrameTypeOK
<1>5. \A d \in Caller : pc[d] = "finish" => arg'[d] = arg[d] /\ held'[d] = held[d] /\ arg[d] # n
  <2>1. \A d \in Caller : pc[d] = "finish" => arg[d] \in handles
    BY Parts DEF TableOK, DriverCall
  <2>2. QED
    BY <1>0, <1>2, <1>3, <2>1 DEF Return, Goto, FrameTypeOK
<1>6. \A i \in Id \ {n} : CurrentTx(i)' = CurrentTx(i)
  BY <1>0, <1>1, <1>3, <1>4, <1>5 DEF CurrentIs
<1>7. CurrentTx(n)' = NoTx
  BY <1>1, <1>2, <1>3, <1>4, <1>5 DEF CurrentIs
<1>8. Others(n)
  BY <1>2, <1>6 DEF Others, SameView, Live, txVars, Id
<1>9. Phase(n) = "unopened" /\ Pending(n) = {}
  BY <1>0, <1>2 DEF ViewIs
<1>10. Phase(n)' = "idle" /\ Pending(n)' = {}
  BY <1>1, <1>2, <1>7 DEF ViewIs
<1>11. [j \in Id |-> Pending(j)]' = [j \in Id |-> Pending(j)]
  <2>1. \A j \in Id : Pending(j)' = Pending(j)
    BY <1>8, <1>9, <1>10, SameViews DEF Others
  <2>2. QED
    BY <2>1
<1>12. [j \in Id |-> Phase(j)]' = [[j \in Id |-> Phase(j)] EXCEPT ![n] = "idle"]
  BY <1>2, <1>8, <1>10, ViewMoves
<1>13. [j \in Id |-> Phase(j)][n] = "unopened" /\ store' = store
  BY <1>2, <1>9 DEF dataVars
<1>14. Client!Open(n)
  BY <1>11, <1>12, <1>13 DEF Client!Open, Client!Moves
<1>15. QED
  BY <1>2, <1>14

(* Steps that the client does not see.                                     *)
LEMMA ReturnMoves ==
  ASSUME FrameTypeOK, NEW c \in Caller, NEW r, pc[c] # "finish", Return(c, r)
  PROVE  FrameMoves(c)
BY DEF FrameTypeOK, Return, Goto, FrameMoves

LEMMA QuietCalls ==
  ASSUME IInv, IInv', NEW c \in Caller,
         Start(c) \/ Ping(c) \/ RegisterRefused(c) \/ EnterRefused(c) \/ DriverFails(c)
  PROVE  UNCHANGED Client!vars
<1>0. FrameTypeOK /\ HostTypeOK
  BY Parts
<1>1. CASE Start(c)
  <2>1. UNCHANGED <<handles, current, txOf, txState, writes, store>>
    BY <1>1 DEF Start, Refuse, OpenRefused, StatementRefused, Refused, OpenPool, Request,
       CloseAllLists, hostVars, txVars, dataVars
  <2>2. /\ pc[c] = "idle" /\ pc'[c] # "finish"
        /\ \A d \in Caller \ {c} : pc'[d] = pc[d] /\ arg'[d] = arg[d] /\ held'[d] = held[d]
    BY <1>0, <1>1 DEF Start, Refuse, OpenRefused, StatementRefused, Refused, OpenPool, Request,
       CloseAllLists, Call, Goto, FrameTypeOK
  <2>3. QED
    BY <2>1, <2>2, QuietStep DEF FrameMoves
<1>2. CASE Ping(c)
  <2>1. UNCHANGED <<handles, current, txOf, txState, writes, store>> /\ pc[c] = "ping"
    BY <1>2 DEF Ping, PingFails, PingAnswers, hostVars, txVars, dataVars
  <2>2. FrameMoves(c)
    <3>1. CASE PingFails(c)
      BY <1>0, <2>1, <3>1, ReturnMoves DEF PingFails
    <3>2. CASE PingAnswers(c)
      BY <1>0, <3>2 DEF PingAnswers, Goto, FrameTypeOK, FrameMoves
    <3>3. QED
      BY <1>2, <3>1, <3>2 DEF Ping
  <2>3. QED
    BY <2>1, <2>2, QuietStep
<1>3. CASE RegisterRefused(c)
  <2>1. UNCHANGED <<handles, current, txOf, txState, writes, store>> /\ FrameMoves(c)
    BY <1>0, <1>3, ReturnMoves DEF RegisterRefused, hostVars, txVars, dataVars
  <2>2. QED
    BY <2>1, QuietStep
<1>4. CASE EnterRefused(c)
  <2>1. UNCHANGED <<handles, current, txOf, txState, writes, store>> /\ FrameMoves(c)
    BY <1>0, <1>4, ReturnMoves
       DEF EnterRefused, BeginRefused, FinishRefused, NoSuchHandle, Acquires, hostVars, txVars, dataVars
  <2>2. QED
    BY <2>1, QuietStep
<1>5. CASE DriverFails(c)
  <2>1. UNCHANGED <<handles, current, txOf, txState, writes, store>> /\ FrameMoves(c)
    BY <1>0, <1>5, ReturnMoves
       DEF DriverFails, BeginFails, AutoStatementFails, Leave, txVars, dataVars
  <2>2. QED
    BY <2>1, QuietStep
<1>6. QED
  BY <1>1, <1>2, <1>3, <1>4, <1>5

LEMMA QuietEnters ==
  ASSUME IInv, IInv', NEW c \in Caller, EnterBegin(c) \/ EnterStatement(c) \/ EnterFinish(c)
  PROVE  UNCHANGED Client!vars
<1>0. FrameTypeOK /\ HostTypeOK /\ handles \subseteq Id
  BY Parts
<1>1. CASE EnterBegin(c) \/ EnterStatement(c)
  <2>1. UNCHANGED <<handles, current, txOf, txState, writes, store>>
    BY <1>1 DEF EnterBegin, EnterStatement, txVars, dataVars
  <2>2. FrameMoves(c)
    BY <1>0, <1>1 DEF EnterBegin, EnterStatement, Acquires, Goto, FrameTypeOK, FrameMoves
  <2>3. QED
    BY <2>1, <2>2, QuietStep
<1>2. CASE EnterFinish(c)
  <2>1. /\ UNCHANGED <<handles, current, txState, writes, store, arg>>
        /\ arg[c] \in Id
        /\ pc[c] = "enter" /\ pc' = [pc EXCEPT ![c] = "finish"]
        /\ held' = [held EXCEPT ![c] = txOf[arg[c]]]
        /\ txOf' = [txOf EXCEPT ![arg[c]] = NoTx]
    BY <1>0, <1>2 DEF EnterFinish, Acquires, Goto, txVars, dataVars
  <2>2. \A d \in Caller : pc[d] # "finish"
    BY <1>2, NoneAssumption, Parts DEF EnterFinish, Acquires, MutexOK, DriverCall
  <2>3. CurrentIs
    BY Current
  <2>4. IInv' => CurrentIs'
    BY Current, PTL
  <2>5. \A i \in Id : CurrentTx(i)' = CurrentTx(i)
    <3> TAKE i \in Id
    <3>1. CASE i = arg[c]
      BY <1>0, <2>1, <2>2, <2>3, <2>4, <3>1 DEF CurrentIs, FrameTypeOK
    <3>2. CASE i # arg[c]
      BY <1>0, <2>1, <2>2, <2>3, <2>4, <3>2 DEF CurrentIs, FrameTypeOK, HostTypeOK
    <3>3. QED
      BY <3>1, <3>2
  <2>6. \A i \in Id : SameView(i)
    BY <2>1, <2>5 DEF SameView, Live
  <2>7. QED
    BY <2>1, <2>6, Stutters
<1>3. QED
  BY <1>1, <1>2

LEMMA CloseReturnMoves ==
  ASSUME FrameTypeOK, NEW c \in Caller, NEW r, pc[c] # "finish", CloseReturns(c, r)
  PROVE  FrameMoves(c)
<1>1. CASE Return(c, r)
  BY <1>1, ReturnMoves
<1>2. CASE Goto(c, "sweep") /\ UNCHANGED <<arg, held>>
  BY <1>2 DEF FrameTypeOK, Goto, FrameMoves
<1>3. QED
  BY <1>1, <1>2 DEF CloseReturns

LEMMA QuietCloses ==
  ASSUME IInv, IInv', NEW c \in Caller, CloseRefused(c) \/ Unlocked(c)
  PROVE  UNCHANGED Client!vars
<1>0. FrameTypeOK /\ HostTypeOK /\ handles \subseteq Id /\ TableOK /\ FrameOK /\ TxOK
  BY Parts
<1>1. CASE CloseRefused(c)
  <2>1. UNCHANGED <<handles, current, txOf, txState, writes, store>> /\ FrameMoves(c)
    BY <1>0, <1>1, CloseReturnMoves DEF CloseRefused, Acquires, hostVars, txVars, dataVars
  <2>2. QED
    BY <2>1, QuietStep
<1>2. CASE CloseRollback(c)
  <2>1. /\ UNCHANGED <<handles, current, store, arg, held>>
        /\ pc[c] = "detached" /\ pc' = [pc EXCEPT ![c] = "shut"]
        /\ txOf' = [txOf EXCEPT ![arg[c]] = NoTx]
        /\ arg[c] \in Id \ handles
    BY <1>0, <1>2 DEF CloseRollback, Goto, TableOK, FrameOK, InClose, OnHandle
  <2>2. FrameMoves(c)
    BY <1>0, <2>1 DEF FrameMoves, FrameTypeOK
  <2>3. \A i \in Id \ {arg[c]} : CurrentTx(i)' = CurrentTx(i)
    BY <1>0, <2>1, <2>2, SameCurrent, FinishOthers DEF HostTypeOK
  <2>4. \A i \in handles : CurrentTx(i) # txOf[arg[c]] \/ txOf[arg[c]] = NoTx
    <3> SUFFICES ASSUME NEW i \in handles, CurrentTx(i) = txOf[arg[c]], txOf[arg[c]] # NoTx
                 PROVE FALSE
      OBVIOUS
    <3>1. CurrentTx(arg[c]) = txOf[arg[c]]
      <4>1. \A d \in Caller : pc[d] = "finish" => arg[d] # arg[c]
        BY <1>0, <2>1 DEF TableOK, DriverCall
      <4>2. QED
        BY <2>1, <4>1, Current DEF CurrentIs
    <3>2. \A j \in Id \ {i} : CurrentTx(j) # CurrentTx(i)
      BY <1>0, CurrentUnique
    <3>3. QED
      BY <2>1, <3>1, <3>2
  <2>5. OnlyTx(txOf[arg[c]])
    <3>1. CASE txOf[arg[c]] = NoTx
      BY <1>2, <3>1 DEF CloseRollback, txVars, OnlyTx, Drop, Release
    <3>2. CASE txOf[arg[c]] # NoTx
      BY <1>2, <3>2, Parts DEF CloseRollback, OnlyTx, Drop, Release, TxTypeOK
    <3>3. QED
      BY <3>1, <3>2
  <2>6. \A i \in handles : CurrentTx(i) \in Tx =>
          txState'[CurrentTx(i)] = txState[CurrentTx(i)] /\ writes'[CurrentTx(i)] = writes[CurrentTx(i)]
    BY <2>4, <2>5, NoneAssumption DEF OnlyTx
  <2>7. \A i \in Id : SameView(i)
    <3>1. \A i \in handles : CurrentTx(i)' = CurrentTx(i)
      BY <1>0, <2>1, <2>3
    <3>2. QED
      BY <2>1, <2>6, <3>1 DEF SameView, Live
  <2>8. QED
    BY <2>1, <2>7, Stutters
<1>3. CASE ClosePool(c)
  <2>1. UNCHANGED <<handles, current, txOf, txState, writes, store>> /\ FrameMoves(c)
    BY <1>0, <1>3, CloseReturnMoves DEF ClosePool, txVars, dataVars
  <2>2. QED
    BY <2>1, QuietStep
<1>4. CASE CloseAllNext(c)
  <2>1. UNCHANGED <<handles, current, txOf, txState, writes, store>> /\ FrameMoves(c)
    BY <1>0, <1>4 DEF CloseAllNext, Goto, FrameTypeOK, FrameMoves, hostVars, txVars, dataVars
  <2>2. QED
    BY <2>1, QuietStep
<1>5. CASE CloseAllEnds(c)
  <2>1. UNCHANGED <<handles, current, txOf, txState, writes, store>> /\ FrameMoves(c)
    BY <1>0, <1>5, ReturnMoves DEF CloseAllEnds, hostVars, txVars, dataVars
  <2>2. QED
    BY <2>1, QuietStep
<1>6. QED
  BY <1>1, <1>2, <1>3, <1>4, <1>5 DEF Unlocked

-----------------------------------------------------------------------------
(* The driver's answers.                                                   *)
LEMMA QuietView ==
  ASSUME IInv, IInv', NEW c \in Caller, FrameMoves(c),
         UNCHANGED <<handles, current, txOf, txState, writes>>
  PROVE  /\ [j \in Id |-> Phase(j)]' = [j \in Id |-> Phase(j)]
         /\ [j \in Id |-> Pending(j)]' = [j \in Id |-> Pending(j)]
<1>1. \A i \in Id : SameView(i)
  BY SameCurrent, FinishOthers DEF SameView, Live
<1>2. QED
  BY <1>1, SameViews

(* The struct of a call in the driver: no commit or rollback is under way. *)
LEMMA AtDriver ==
  ASSUME IInv, NEW c \in Caller, pc[c] \in {"begin", "statement"}
  PROVE  /\ arg[c] \in Id /\ arg[c] \in handles
         /\ \A i \in Id : CurrentTx(i) = txOf[i]
         /\ pc[c] = "begin" => txOf[arg[c]] = NoTx
<1>1. MutexOK /\ TableOK /\ TxOK /\ handles \subseteq Id /\ CurrentIs
  BY Parts, Current
<1>2. \A d \in Caller : pc[d] # "finish"
  BY <1>1 DEF MutexOK, DriverCall
<1>3. QED
  BY <1>1, <1>2 DEF TableOK, TxOK, DriverCall, CurrentIs

LEMMA BeginBegins ==
  ASSUME IInv, IInv', NEW c \in Caller, BeginTx(c)
  PROVE  \E i \in Id : Client!Begin(i)
<1>0. FrameTypeOK /\ HostTypeOK /\ TxTypeOK /\ RowOK /\ handles \subseteq Id /\ ViewIs
  BY Parts, View
<1> SUFFICES ASSUME NEW i \in Id, i = arg[c], i \in handles,
                    \A j \in Id : CurrentTx(j) = txOf[j], txOf[i] = NoTx
             PROVE  \E j \in Id : Client!Begin(j)
  BY AtDriver DEF BeginTx
<1>1. PICK t \in Tx : /\ txState[t] = "none"
                      /\ txState' = [txState EXCEPT ![t] = "live"]
                      /\ txOf' = [txOf EXCEPT ![i] = t]
  BY DEF BeginTx
<1>2. UNCHANGED <<current, handles, writes, store>> /\ FrameMoves(c) /\ pc[c] = "begin"
  BY <1>0, ReturnMoves DEF BeginTx, Leave, dataVars
<1>3. t \notin Live /\ t \in Live' /\ writes[t] = {} /\ OnlyTx(t)
  BY <1>0, <1>1, <1>2 DEF Live, RowOK, TxTypeOK, OnlyTx
<1>4. \A j \in Id \ {i} : CurrentTx(j)' = CurrentTx(j)
  BY <1>0, <1>1, <1>2, SameCurrent, FinishOthers DEF HostTypeOK
<1>5. \A j \in handles : CurrentTx(j) # t
  <2>1. \A j \in Id : CurrentTx(j) # NoTx => txState[CurrentTx(j)] # "none"
    BY CurrentUnique
  <2>2. QED
    BY <1>0, <1>1, <2>1, NoneAssumption
<1>6. CurrentTx(i)' = t
  <2>1. IInv' => CurrentIs'
    BY Current, PTL
  <2>2. \A d \in Caller : pc'[d] = "finish" => arg'[d] # i
    <3>1. \A d \in Caller : pc[d] = "finish" => d = c
      BY <1>2, Parts DEF MutexOK, DriverCall
    <3>2. QED
      BY <1>2, <3>1 DEF FrameMoves
  <2>3. QED
    BY <1>0, <1>1, <2>1, <2>2 DEF CurrentIs, HostTypeOK
<1>7. Others(i)
  BY <1>0, <1>2, <1>3, <1>4, <1>5, OthersSame
<1>8. Phase(i) = "idle" /\ Pending(i) = {}
  BY <1>0 DEF ViewIs
<1>9. Phase(i)' = "intx" /\ Pending(i)' = {}
  <2>1. IInv' => ViewIs'
    BY View, PTL
  <2>2. (i \in handles /\ CurrentTx(i) \in Live)' /\ writes'[t] = {}
    BY <1>2, <1>3, <1>6
  <2>3. QED
    BY <1>6, <2>1, <2>2 DEF ViewIs
<1>10. [j \in Id |-> Pending(j)]' = [j \in Id |-> Pending(j)]
  <2>1. \A j \in Id : Pending(j)' = Pending(j)
    BY <1>7, <1>8, <1>9, SameViews DEF Others
  <2>2. QED
    BY <2>1
<1>11. [j \in Id |-> Phase(j)]' = [[j \in Id |-> Phase(j)] EXCEPT ![i] = "intx"]
  BY <1>7, <1>9, ViewMoves
<1>12. [j \in Id |-> Phase(j)][i] = "idle" /\ store' = store
  BY <1>2, <1>8
<1>13. Client!Begin(i)
  BY <1>10, <1>11, <1>12 DEF Client!Begin, Client!Moves
<1>14. QED
  BY <1>13

LEMMA StatementWrites ==
  ASSUME IInv, IInv', NEW c \in Caller, TxStatement(c)
  PROVE  (\E i \in Id : Client!Write(i)) \/ UNCHANGED Client!vars
<1>0. FrameTypeOK /\ HostTypeOK /\ TxTypeOK /\ handles \subseteq Id /\ ViewIs
  BY Parts, View
<1> SUFFICES ASSUME NEW i \in Id, i = arg[c], i \in handles,
                    \A j \in Id : CurrentTx(j) = txOf[j]
             PROVE  (\E j \in Id : Client!Write(j)) \/ UNCHANGED Client!vars
  BY AtDriver DEF TxStatement
<1> DEFINE t == txOf[i]
<1>1. /\ UNCHANGED <<current, handles, txOf, txState, store>> /\ FrameMoves(c)
      /\ pc[c] = "statement" /\ t \in Tx
  BY <1>0, ReturnMoves DEF TxStatement, Leave, dataVars, HostTypeOK
<1>2. CASE writes' = writes
  BY <1>1, <1>2, QuietStep
<1>3. CASE t \in Live /\ \E r \in Fresh : writes' = [writes EXCEPT ![t] = @ \union {r}]
  <2>1. PICK r \in Fresh : writes' = [writes EXCEPT ![t] = @ \union {r}]
    BY <1>3
  <2>2. \A j \in Id : CurrentTx(j)' = CurrentTx(j)
    BY <1>1, SameCurrent, FinishOthers
  <2>3. \A j \in Id \ {i} : CurrentTx(j) # t
    BY <1>1, CurrentUnique, NoneAssumption
  <2>4. OnlyTx(t)
    BY <1>0, <1>1, <2>1 DEF OnlyTx, TxTypeOK
  <2>5. Others(i)
    BY <1>0, <1>1, <2>2, <2>3, <2>4, OthersSame
  <2>6. Phase(i) = "intx" /\ Pending(i) = writes[t]
    BY <1>0, <1>3 DEF ViewIs
  <2>7. Phase(i)' = "intx" /\ Pending(i)' = writes[t] \union {r}
    <3>1. IInv' => ViewIs'
      BY View, PTL
    <3>2. (i \in handles /\ CurrentTx(i) \in Live)'
      BY <1>1, <1>3, <2>2 DEF Live
    <3>3. Phase(i)' = "intx" /\ Pending(i)' = writes'[CurrentTx(i)']
      BY <3>1, <3>2 DEF ViewIs
    <3>4. writes'[t] = writes[t] \union {r}
      BY <1>0, <1>1, <2>1 DEF TxTypeOK
    <3>5. QED
      BY <2>2, <3>3, <3>4
  <2>8. [j \in Id |-> Phase(j)]' = [j \in Id |-> Phase(j)]
    <3>1. \A j \in Id : Phase(j)' = Phase(j)
      BY <2>5, <2>6, <2>7, SameViews DEF Others
    <3>2. QED
      BY <3>1
  <2>9. [j \in Id |-> Pending(j)]' = [[j \in Id |-> Pending(j)] EXCEPT ![i] = Pending(i) \union {r}]
    BY <2>5, <2>6, <2>7, ViewMoves
  <2>10. r \in Client!Fresh
    BY FreshForClient
  <2>11. Client!Write(i)
    BY <1>1, <2>6, <2>8, <2>9, <2>10 DEF Client!Write
  <2>12. QED
    BY <2>11
<1>4. QED
  <2>1. CASE t \notin Live
    BY <1>2, <2>1 DEF TxStatement
  <2>2. CASE t \in Live
    <3>1. PICK R \in Inserts : writes' = [writes EXCEPT ![t] = @ \union R]
      BY <2>2 DEF TxStatement
    <3>2. CASE R = {}
      BY <1>0, <1>2, <3>1, <3>2 DEF TxTypeOK
    <3>3. CASE \E r \in Fresh : R = {r}
      BY <1>3, <2>2, <3>1, <3>3
    <3>4. QED
      BY <3>1, <3>2, <3>3 DEF Inserts
  <2>3. QED
    BY <2>1, <2>2

LEMMA StatementCommits ==
  ASSUME IInv, IInv', NEW c \in Caller, AutoStatement(c)
  PROVE  (\E i \in Id : Client!Autocommit(i)) \/ UNCHANGED Client!vars
<1>0. FrameTypeOK /\ HostTypeOK /\ ViewIs
  BY Parts, View
<1> SUFFICES ASSUME NEW i \in Id, i = arg[c], i \in handles,
                    \A j \in Id : CurrentTx(j) = txOf[j]
             PROVE  (\E j \in Id : Client!Autocommit(j)) \/ UNCHANGED Client!vars
  BY AtDriver DEF AutoStatement
<1>1. /\ UNCHANGED <<current, handles, txOf, txState, writes>> /\ FrameMoves(c)
      /\ txOf[i] = NoTx
  BY <1>0, ReturnMoves DEF AutoStatement, Leave, txVars
<1>2. PICK R \in Inserts : store' = store \union R
  BY DEF AutoStatement
<1>3. CASE R = {}
  BY <1>1, <1>2, <1>3, QuietStep
<1>4. CASE \E r \in Fresh : R = {r}
  <2>1. PICK r \in Fresh : R = {r}
    BY <1>4
  <2>2. /\ [j \in Id |-> Phase(j)]' = [j \in Id |-> Phase(j)]
        /\ [j \in Id |-> Pending(j)]' = [j \in Id |-> Pending(j)]
    BY <1>1, QuietView
  <2>3. Phase(i) = "idle" /\ r \in Client!Fresh
    BY <1>0, <1>1, FreshForClient DEF ViewIs
  <2>4. Client!Autocommit(i)
    BY <1>2, <2>1, <2>2, <2>3 DEF Client!Autocommit
  <2>5. QED
    BY <2>4
<1>5. QED
  BY <1>2, <1>3, <1>4 DEF Inserts

(* A commit or a rollback that answers leaves its handle idle.             *)
LEMMA FinishEnds ==
  ASSUME IInv, IInv', NEW c \in Caller, pc[c] = "finish", NEW r, Leave(c, r),
         UNCHANGED <<current, handles, txOf>>, OnlyTx(held[c]),
         NEW i \in Id, i = arg[c]
  PROVE  /\ CurrentTx(i) = held[c] /\ Phase(i) \in {"intx", "doomed"}
         /\ held[c] \in Live => Phase(i) = "intx" /\ Pending(i) = writes[held[c]]
         /\ [j \in Id |-> Phase(j)]' = [[j \in Id |-> Phase(j)] EXCEPT ![i] = "idle"]
         /\ [j \in Id |-> Pending(j)]' = [[j \in Id |-> Pending(j)] EXCEPT ![i] = {}]
<1>0. /\ FrameTypeOK /\ FrameOK /\ MutexOK /\ TableOK /\ TxOK /\ handles \subseteq Id
      /\ CurrentIs /\ ViewIs
  BY Parts, Current, View
<1>1. IInv' => (CurrentIs /\ ViewIs)'
  BY Current, View, PTL
<1>2. i \in handles /\ txOf[i] = NoTx /\ held[c] \in Tx /\ held[c] # NoTx
  BY <1>0, NoneAssumption DEF TableOK, TxOK, FrameOK, FrameTypeOK, DriverCall
<1>3. CurrentTx(i) = held[c]
  BY <1>0 DEF CurrentIs
<1>4. \A d \in Caller : pc[d] = "finish" => d = c
  BY <1>0 DEF MutexOK, DriverCall
<1>5. \A d \in Caller : pc'[d] # "finish"
  BY <1>0, <1>4 DEF Leave, Return, Goto, FrameTypeOK
<1>6. \A j \in Id : CurrentTx(j)' = txOf[j]
  BY <1>1, <1>5 DEF CurrentIs
<1>7. \A j \in Id \ {i} : CurrentTx(j)' = CurrentTx(j) /\ CurrentTx(j) # held[c]
  BY <1>0, <1>2, <1>3, <1>4, <1>6, CurrentUnique DEF CurrentIs
<1>8. Others(i)
  BY <1>0, <1>7, OthersSame
<1>9. /\ Phase(i) \in {"intx", "doomed"}
      /\ held[c] \in Live => Phase(i) = "intx" /\ Pending(i) = writes[held[c]]
  BY <1>0, <1>2, <1>3 DEF ViewIs
<1>10. Phase(i)' = "idle" /\ Pending(i)' = {}
  BY <1>1, <1>2, <1>6 DEF ViewIs
<1>11. QED
  BY <1>3, <1>8, <1>9, <1>10, ViewMoves

LEMMA FinishAnswers ==
  ASSUME IInv, IInv', NEW c \in Caller, CommitRefused(c) \/ Commit(c) \/ Rollback(c)
  PROVE  \E i \in Id : Client!Commit(i) \/ Client!Abandon(i)
<1>0. TxTypeOK /\ FrameOK /\ pc[c] = "finish"
  BY Parts DEF CommitRefused, Commit, Rollback
<1> SUFFICES ASSUME NEW i \in Id, i = arg[c]
             PROVE  \E j \in Id : Client!Commit(j) \/ Client!Abandon(j)
  BY <1>0 DEF FrameOK, OnHandle
<1>1. UNCHANGED <<current, handles, txOf>> /\ \E r \in {"ok", "error"} : Leave(c, r)
  BY DEF CommitRefused, Commit, Rollback
<1>2. OnlyTx(held[c])
  BY <1>0 DEF CommitRefused, Commit, Rollback, Drop, Release, OnlyTx, txVars, TxTypeOK
<1>3. /\ Phase(i) \in {"intx", "doomed"}
      /\ held[c] \in Live => Phase(i) = "intx" /\ Pending(i) = writes[held[c]]
      /\ [j \in Id |-> Phase(j)]' = [[j \in Id |-> Phase(j)] EXCEPT ![i] = "idle"]
      /\ [j \in Id |-> Pending(j)]' = [[j \in Id |-> Pending(j)] EXCEPT ![i] = {}]
  BY <1>0, <1>1, <1>2, FinishEnds
<1>4. CASE store' = store
  <2>1. Client!Abandon(i)
    BY <1>3, <1>4 DEF Client!Abandon, Client!Moves, Client!Forget
  <2>2. QED
    BY <2>1
<1>5. CASE held[c] \in Live /\ store' = store \union writes[held[c]]
  <2>1. Client!Commit(i)
    BY <1>3, <1>5 DEF Client!Commit, Client!Moves, Client!Forget
  <2>2. QED
    BY <2>1
<1>6. QED
  BY <1>4, <1>5 DEF CommitRefused, Commit, Rollback, dataVars

LEMMA DetachCloses ==
  ASSUME IInv, IInv', NEW c \in Caller, Detach(c)
  PROVE  \E i \in Id : Client!Close(i)
<1>0. FrameTypeOK /\ HostTypeOK /\ TableOK /\ handles \subseteq Id /\ CurrentIs /\ ViewIs
  BY Parts, Current, View
<1> SUFFICES ASSUME NEW i \in Id, i = arg[c], i \in handles
             PROVE  \E j \in Id : Client!Close(j)
  BY <1>0 DEF Detach
<1>1. /\ UNCHANGED <<current, txOf, txState, writes, store>> /\ FrameMoves(c)
      /\ handles' = handles \ {i} /\ i <= current
  BY <1>0 DEF Detach, Acquires, Goto, FrameTypeOK, HostTypeOK, FrameMoves, txVars, dataVars
<1>2. \A j \in Id : CurrentTx(j)' = CurrentTx(j)
  BY <1>1, SameCurrent, FinishOthers
<1>3. Others(i)
  BY <1>1, <1>2 DEF Others, SameView, Live
<1>4. Phase(i) \in {"idle", "intx", "doomed"}
  BY <1>0 DEF ViewIs, CurrentIs
<1>5. Phase(i)' = "closed" /\ Pending(i)' = {}
  <2>1. IInv' => ViewIs'
    BY View, PTL
  <2>2. (i <= current /\ i \notin handles)'
    BY <1>1
  <2>3. QED
    BY <2>1, <2>2 DEF ViewIs
<1>6. /\ [j \in Id |-> Phase(j)]' = [[j \in Id |-> Phase(j)] EXCEPT ![i] = "closed"]
      /\ [j \in Id |-> Pending(j)]' = [[j \in Id |-> Pending(j)] EXCEPT ![i] = {}]
  BY <1>3, <1>5, ViewMoves
<1>7. Client!Close(i)
  BY <1>1, <1>4, <1>6 DEF Client!Close, Client!Moves, Client!Forget
<1>8. QED
  BY <1>7

(* database/sql rolls a transaction back under the client.                 *)
LEMMA BackgroundDooms ==
  ASSUME IInv, IInv', NEW t \in Tx, TxStep(t)
  PROVE  (\E i \in Id : Client!Doom(i)) \/ UNCHANGED Client!vars
<1>0. TxTypeOK /\ handles \subseteq Id /\ CurrentIs /\ ViewIs
  BY Parts, Current, View
<1>1. /\ UNCHANGED <<current, handles, txOf, store, pc, arg, held>>
      /\ OnlyTx(t)
  BY <1>0 DEF TxStep, ContextEnds, AwaitDone, Release, OnlyTx, TxTypeOK, hostVars, frameVars, dataVars
<1>2. \A i \in Id : CurrentTx(i)' = CurrentTx(i)
  BY <1>1, SameCurrent DEF FinishSame
<1>3. CASE ContextEnds(t)
  <2>1. \A i \in Id : SameView(i)
    BY <1>1, <1>2, <1>3 DEF SameView, Live, ContextEnds
  <2>2. QED
    BY <1>1, <2>1, Stutters
<1>4. CASE \A i \in handles : CurrentTx(i) # t
  <2>1. \A i \in handles : CurrentTx(i) \in Tx =>
          txState'[CurrentTx(i)] = txState[CurrentTx(i)] /\ writes'[CurrentTx(i)] = writes[CurrentTx(i)]
    BY <1>1, <1>4 DEF OnlyTx
  <2>2. \A i \in Id : SameView(i)
    BY <1>1, <1>2, <2>1 DEF SameView, Live
  <2>3. QED
    BY <1>1, <2>2, Stutters
<1>5. CASE AwaitDone(t) /\ \E i \in handles : CurrentTx(i) = t
  <2>1. PICK i \in Id : i \in handles /\ CurrentTx(i) = t
    BY <1>0, <1>5
  <2>2. t \in Live /\ t \notin Live'
    BY <1>0, <1>5 DEF AwaitDone, Release, Live, TxTypeOK
  <2>3. \A j \in handles \ {i} : CurrentTx(j) # t
    BY <1>0, <2>1, CurrentUnique, NoneAssumption
  <2>4. Others(i)
    BY <1>0, <1>1, <1>2, <2>3, OthersSame
  <2>5. Phase(i) = "intx"
    BY <1>0, <2>1, <2>2 DEF ViewIs
  <2>6. Phase(i)' = "doomed" /\ Pending(i)' = {}
    <3>1. IInv' => ViewIs'
      BY View, PTL
    <3>2. (i \in handles /\ CurrentTx(i) \in Tx \ Live)'
      BY <1>1, <1>2, <2>1, <2>2
    <3>3. QED
      BY <3>1, <3>2 DEF ViewIs
  <2>7. /\ [j \in Id |-> Phase(j)]' = [[j \in Id |-> Phase(j)] EXCEPT ![i] = "doomed"]
        /\ [j \in Id |-> Pending(j)]' = [[j \in Id |-> Pending(j)] EXCEPT ![i] = {}]
    BY <2>4, <2>6, ViewMoves
  <2>8. Client!Doom(i)
    BY <1>1, <2>5, <2>7 DEF Client!Doom, Client!Moves, Client!Forget
  <2>9. QED
    BY <2>8
<1>6. QED
  BY <1>3, <1>4, <1>5 DEF TxStep

-----------------------------------------------------------------------------
LEMMA ClientInit == Init => Client!Init
<1> SUFFICES ASSUME Init PROVE Client!Init
  OBVIOUS
<1>1. \A i \in Id : i > current /\ Phase(i) = "unopened" /\ Pending(i) = {}
  <2>1. current = 0 /\ handles = {}
    BY DEF Init
  <2>2. \A i \in Id : i > 0 /\ ~(i <= 0)
    BY BoundAssumption DEF Id
  <2>3. \A i \in Id : Pending(i) = {}
    BY <2>1 DEF Pending
  <2>4. \A i \in Id : Phase(i) = "unopened"
    BY <2>1, <2>2 DEF Phase
  <2>5. QED
    BY <2>1, <2>2, <2>3, <2>4
<1>2. QED
  BY <1>1 DEF Client!Init, Init

LEMMA ClientStep == IInv /\ IInv' /\ [Next]_vars => [Client!Next]_Client!vars
<1> SUFFICES ASSUME IInv, IInv', [Next]_vars PROVE Client!Next \/ UNCHANGED Client!vars
  OBVIOUS
<1>1. CASE UNCHANGED vars
  <2>1. \A i \in Id : FinishSame(i)
    BY <1>1 DEF vars, hostVars, frameVars, FinishSame
  <2>2. \A i \in Id : CurrentTx(i)' = CurrentTx(i)
    BY <2>1, SameCurrent
  <2>3. \A i \in Id : SameView(i)
    BY <1>1, <2>2 DEF vars, hostVars, txVars, SameView, Live
  <2>4. QED
    BY <1>1, <2>3, Stutters DEF vars, dataVars
<1>2. ASSUME NEW c \in Caller, CallerStep(c) PROVE Client!Next \/ UNCHANGED Client!vars
  <2>1. CASE Start(c) \/ Ping(c)
    BY <2>1, QuietCalls
  <2>2. CASE Locks(c)
    <3>1. CASE RegisterRefused(c) \/ EnterRefused(c)
      BY <3>1, QuietCalls
    <3>2. CASE Register(c)
      BY <3>2, RegisterOpens DEF Client!Next
    <3>3. CASE EnterBegin(c) \/ EnterFinish(c) \/ EnterStatement(c)
      BY <3>3, QuietEnters
    <3>4. CASE CloseRefused(c)
      BY <3>4, QuietCloses
    <3>5. CASE Detach(c)
      BY <3>5, DetachCloses DEF Client!Next
    <3>6. QED
      BY <2>2, <3>1, <3>2, <3>3, <3>4, <3>5 DEF Locks, Enter
  <2>3. CASE Driver(c)
    <3>1. CASE BeginTx(c)
      BY <3>1, BeginBegins DEF Client!Next
    <3>2. CASE TxStatement(c)
      BY <3>2, StatementWrites DEF Client!Next
    <3>3. CASE AutoStatement(c)
      BY <3>3, StatementCommits DEF Client!Next
    <3>4. CASE CommitRefused(c) \/ Commit(c) \/ Rollback(c)
      BY <3>4, FinishAnswers DEF Client!Next
    <3>5. CASE DriverFails(c)
      BY <3>5, QuietCalls
    <3>6. QED
      BY <2>3, <3>1, <3>2, <3>3, <3>4, <3>5 DEF Driver, Answers
  <2>4. CASE Unlocked(c)
    BY <2>4, QuietCloses
  <2>5. QED
    BY <1>2, <2>1, <2>2, <2>3, <2>4 DEF CallerStep
<1>3. ASSUME NEW t \in Tx, TxStep(t) PROVE Client!Next \/ UNCHANGED Client!vars
  BY <1>3, BackgroundDooms DEF Client!Next
<1>4. QED
  BY <1>1, <1>2, <1>3 DEF Next

(* DBHost implements the client's contract: whatever the callers, the      *)
(* contexts and database/sql do, the rows of a transaction reach the store *)
(* together at its commit or not at all.                                   *)
THEOREM Refines == Spec => ImplementsTxHandles
<1>1. Spec => []IInv
  BY Invariance
<1>2. QED
  BY <1>1, ClientInit, ClientStep, PTL DEF Spec, ImplementsTxHandles, Client!Spec
==============================================================================
