----------------------------- MODULE HostServe -----------------------------
(***************************************************************************)
(* The host process (cmd/noqeri-host, internal/hostbridge/host.go): Serve  *)
(* reads one JSON frame after the other, gives each a 12-second context,   *)
(* dispatches it, cancels the context and writes one reply.  Database      *)
(* operations are those of DBHost with the process as the only caller, so  *)
(* that this module shows what the transactions of DBHost come to when     *)
(* every one of them begins under the context of a single request.         *)
(***************************************************************************)
EXTENDS DBHost

CONSTANTS
    Server,     \* the goroutine that runs Serve
    MsgId,      \* request ids
    NoId        \* a reply without an id (omitempty)

ASSUME SingleStream == Caller = {Server}
ASSUME NoId \notin MsgId

VARIABLES
    serve,      \* read, work, reply, closing or exited
    frame,      \* the frame in hand: its kind and its id
    reply,      \* the id and the outcome of the reply in hand
    requestTx,  \* transactions begun under the context of this request
    expired,    \* transactions whose context ended by its deadline
    told,       \* handle numbers that were written to the client
    cause       \* what ended Serve with an error, and so the process with status 1

serveVars == <<serve, frame, reply, requestTx, expired, told, cause>>
allVars == <<vars, serveVars>>

Kind == {"malformed", "refused", "local", "open", "begin", "commit",
         "rollback", "exec", "query", "close"}
NoFrame == [kind |-> "none", id |-> NoId]
NoReply == [id |-> NoId, res |-> "none"]

ServeTypeOK ==
    /\ TypeOK
    /\ serve \in {"read", "work", "reply", "closing", "exited"}
    /\ frame \in [kind : Kind \union {"none"}, id : MsgId \union {NoId}]
    /\ reply \in [id : MsgId \union {NoId}, res : {"none", "ok", "error"}]
    /\ requestTx \subseteq Tx /\ expired \subseteq Tx
    /\ told \subseteq Id
    /\ cause \in {"none", "encoding", "output", "input"}

ServeInit ==
    /\ Init
    /\ serve = "read" /\ frame = NoFrame /\ reply = NoReply
    /\ requestTx = {} /\ expired = {} /\ told = {} /\ cause = "none"

(* Frames that are answered without the database.  One that does not       *)
(* decode is answered without an id.                                       *)
Answer(k, m, id, r) ==
    /\ serve = "read" /\ serve' = "reply"
    /\ frame' = [kind |-> k, id |-> m]
    /\ reply' = [id |-> id, res |-> r]
    /\ UNCHANGED <<vars, requestTx, expired, told, cause>>

ReadMalformed == \E m \in MsgId : Answer("malformed", m, NoId, "error")

(* The wrong version, a long id or an unknown operation.                   *)
ReadRefused == \E m \in MsgId : Answer("refused", m, m, "error")

(* ping, http and http_status (module HttpHost), stripe_verify_webhook     *)
(* (module StripeWebhook), and the calls of invoke that come to these or   *)
(* to nothing.                                                             *)
ReadLocal == \E m \in MsgId, r \in {"ok", "error"} : Answer("local", m, m, r)

(* A database operation by name, or by one of the symbols of invoke.       *)
DbOp(k) == IF k \in {"exec", "query"} THEN "statement" ELSE k

ReadDb ==
    /\ serve = "read" /\ serve' = "work"
    /\ \E k \in Kind, m \in MsgId :
        /\ frame' = [kind |-> k, id |-> m]
        /\ \/ k = "open" /\ OpenRefused(Server)
           \/ k \in {"exec", "query"} /\ StatementRefused(Server)
           \/ k = "open" /\ OpenPool(Server)
           \/ Request(Server) /\ op'[Server] = DbOp(k)
    /\ requestTx' = {}
    /\ UNCHANGED <<reply, expired, told, cause>>

(* The steps A of the dispatched operation.                                *)
Works(A) ==
    /\ serve = "work" /\ A
    /\ requestTx' = requestTx \union {t \in Tx : t \notin Live /\ txState'[t] = "live"}
    /\ expired' = {t \in expired : txState'[t] # "none"}
    /\ UNCHANGED <<serve, frame, reply, told, cause>>

Proceeds == Works(Ping(Server) \/ Locks(Server) \/ Answers(Server) \/ Unlocked(Server))
GivesUp  == Works(DriverFails(Server))

(* The 12 seconds pass.                                                    *)
Deadline ==
    /\ serve = "work"
    /\ \E t \in requestTx : ContextEnds(t) /\ expired' = expired \union {t}
    /\ UNCHANGED <<serve, frame, reply, requestTx, told, cause>>

(* Mutant: the cancel is forgotten; the context lasts to its deadline.     *)
CancelForgotten == ended' = ended

(* cancel() after Dispatch returned.                                       *)
Cancel == ended' = ended \union (requestTx \intersect Live)

Dispatched ==
    /\ serve = "work" /\ pc[Server] = "idle" /\ serve' = "reply"
    /\ Cancel
    /\ reply' = [id |-> frame.id, res |-> res[Server]]
    /\ UNCHANGED <<hostVars, pools, txState, txPool, writes, dataVars, frameVars>>
    /\ UNCHANGED <<frame, requestTx, expired, told, cause>>

Replied ==
    /\ serve = "reply" /\ serve' = "read"
    /\ told' = IF frame.kind = "open" /\ reply.res = "ok" THEN told \union {current} ELSE told
    /\ frame' = NoFrame /\ reply' = NoReply
    /\ UNCHANGED <<vars, requestTx, expired, cause>>

(* Serve returned an error: os.Exit(1), and the deferred Close never runs. *)
Abort(why) ==
    /\ serve' = "exited" /\ cause' = why
    /\ UNCHANGED <<vars, frame, reply, requestTx, expired, told>>

(* json.Marshal has no encoding for an infinite or NaN float in a row.     *)
EncodingFails == serve = "reply" /\ frame.kind = "query" /\ reply.res = "ok" /\ Abort("encoding")
WriteFails    == serve = "reply" /\ Abort("output")
ReadFails     == serve = "read" /\ Abort("input")

(* End of input: Serve returns nil and main's deferred Close runs.         *)
EndOfInput ==
    /\ serve = "read" /\ serve' = "closing"
    /\ CloseAllLists(Server)
    /\ UNCHANGED <<frame, reply, requestTx, expired, told, cause>>

Closes ==
    /\ serve = "closing"
    /\ Locks(Server) \/ Unlocked(Server)
    /\ expired' = {t \in expired : txState'[t] # "none"}
    /\ UNCHANGED <<serve, frame, reply, requestTx, told, cause>>

Exit ==
    /\ serve = "closing" /\ pc[Server] = "idle" /\ serve' = "exited"
    /\ UNCHANGED <<vars, frame, reply, requestTx, expired, told, cause>>

Background ==
    /\ serve # "exited"
    /\ \E t \in Tx : AwaitDone(t)
    /\ expired' = {t \in expired : txState'[t] # "none"}
    /\ UNCHANGED <<serve, frame, reply, requestTx, told, cause>>

ServeNext ==
    \/ ReadMalformed \/ ReadRefused \/ ReadLocal \/ ReadDb \/ Proceeds \/ GivesUp \/ Deadline \/ Dispatched \/ Replied
    \/ EncodingFails \/ WriteFails \/ ReadFails \/ EndOfInput \/ Closes \/ Exit
    \/ Background

ServeSpec == ServeInit /\ [][ServeNext]_allVars

(* The process runs; the client need not send, and nothing need fail.      *)
ServeFairness ==
    /\ WF_allVars(Proceeds) /\ WF_allVars(Dispatched) /\ WF_allVars(Replied)
    /\ WF_allVars(Closes) /\ WF_allVars(Exit) /\ WF_allVars(Background)

ServeFairSpec == ServeSpec /\ ServeFairness

-----------------------------------------------------------------------------
(* Between requests every transaction the process ever began is doomed:    *)
(* its context ended with the request that began it, so that no connection *)
(* is kept by a client that stops sending.                                 *)
NoTxOutlivesItsRequest == serve \in {"read", "reply", "closing"} => Live \subseteq ended

(* A clean exit leaves no handle, no pool and no usable transaction.       *)
CleanExitClosesAll ==
    serve = "exited" /\ cause = "none" => handles = {} /\ pools = {} /\ Live \subseteq ended

(* The client has the number of every handle the host keeps, so it can     *)
(* close each of the at most eight.                                        *)
ClientKnowsHandles == serve = "read" => handles \subseteq told

(* Every frame is answered, or the process is over: no operation waits for *)
(* ever, for the mutex or for a connection.                                *)
EveryFrameAnswered == serve = "work" ~> serve \in {"read", "exited"}

(* docs/HOST_RUNTIME.md:47 promises db_begin, statements and db_commit as  *)
(* separate requests: a transaction the client was told is open is only    *)
(* ended under it by its deadline.                                         *)
TransactionSpansRequests ==
    serve = "read" => \A i \in handles : txOf[i] # NoTx => txOf[i] \notin ended \ expired

(* host.go:140: the process keeps serving later messages, whatever one     *)
(* request was: only its input or its output can end it.                   *)
RequestNeverEndsProcess == cause \in {"none", "input", "output"}
=============================================================================
