------------------------------ MODULE HttpHost ------------------------------
(***************************************************************************)
(* The HTTP half of the host (internal/hostbridge/http.go, extern.go and   *)
(* the operations http, http_status and invoke of host.go): callers send   *)
(* requests to providers under credentials that only the host has, and ask *)
(* for the status of the last one.  Engine is documented as safe for       *)
(* concurrent HTTP calls; the protocol loop of HostServe is the instance   *)
(* with one caller.                                                        *)
(*                                                                         *)
(* A host name is the sequence of its labels.  Of a reply only its status  *)
(* matters, of a request its provider, its host and whether it writes.     *)
(***************************************************************************)
EXTENDS Naturals, FiniteSets, Sequences
Seqs == INSTANCE SequencesExt

CONSTANTS
    Caller,
    Host,           \* the host names in the URLs of requests
    Credentials,    \* providers whose token (and token id) the environment has
    Tenant,         \* the NOQERI_<PROVIDER>_HOST of the environment
    NoHost,         \* where it has none
    IdempotencyKey, \* whether NOQERI_STRIPE_IDEMPOTENCY_KEY is set
    Status,         \* statuses of replies, other than 0
    MaxConns        \* bound: connections that are open at a time

Exact(d) == [labels |-> d, suffix |-> FALSE]
Under(d) == [labels |-> d, suffix |-> TRUE]

providerHosts ==
    [auth0       |-> {Under(<<"auth0", "com">>)},
     clerk       |-> {Exact(<<"api", "clerk", "com">>)},
     cloudflare  |-> {Exact(<<"api", "cloudflare", "com">>)},
     convex      |-> {Under(<<"convex", "cloud">>), Under(<<"convex", "site">>)},
     firebase    |-> {Exact(<<"identitytoolkit", "googleapis", "com">>),
                      Exact(<<"securetoken", "googleapis", "com">>),
                      Exact(<<"firestore", "googleapis", "com">>)},
     github      |-> {Exact(<<"api", "github", "com">>)},
     neon        |-> {Exact(<<"console", "neon", "tech">>)},
     openai      |-> {Exact(<<"api", "openai", "com">>)},
     planetscale |-> {Exact(<<"api", "planetscale", "com">>)},
     resend      |-> {Exact(<<"api", "resend", "com">>)},
     sentry      |-> {Exact(<<"sentry", "io">>), Under(<<"sentry", "io">>)},
     stripe      |-> {Exact(<<"api", "stripe", "com">>)},
     supabase    |-> {Exact(<<"api", "supabase", "com">>), Under(<<"supabase", "co">>)}]

Provider == DOMAIN providerHosts
Tenanted == {"auth0", "convex", "supabase", "sentry"}

ASSUME EnvironmentAssumption ==
    /\ Host \subseteq Seq(STRING) /\ Credentials \subseteq Provider
    /\ Tenant \in [Tenanted -> Host \union {NoHost}]
    /\ NoHost \notin Host /\ 0 \notin Status /\ IdempotencyKey \in BOOLEAN
ASSUME ConnAssumption == MaxConns \in Nat \ {0}

Matches(e, h) == IF e.suffix THEN Seqs!IsSuffix(e.labels, h) /\ Len(h) > Len(e.labels)
                             ELSE h = e.labels
allowedHost(p, h) == \E e \in providerHosts[p] : Matches(e, h)

(* Mutant: a provider with tenants has no case in the switch.              *)
tenantHostForgets(p, h) ==
    \/ p \notin {"auth0", "supabase", "sentry"}
    \/ p = "supabase" /\ h = <<"api", "supabase", "com">>
    \/ p = "sentry" /\ h = <<"sentry", "io">>
    \/ p \in Tenanted /\ h = Tenant[p]

tenantHostAllowed(p, h) ==
    \/ p \notin Tenanted
    \/ p = "supabase" /\ h = <<"api", "supabase", "com">>
    \/ p = "sentry" /\ h = <<"sentry", "io">>
    \/ p \in Tenanted /\ h = Tenant[p]

(* Every reason that Execute has to send nothing, other than the shape of  *)
(* the request.                                                            *)
Accepted(p, h) == allowedHost(p, h) /\ tenantHostAllowed(p, h) /\ p \in Credentials

VARIABLES
    at,         \* where each caller's call is
    req,        \* the request that it sends: provider, host, whether it writes
    deliveries, \* how often the provider may have taken up its request
    pooled,     \* its connection was used before
    status,     \* result.Status, or what it will be
    lastStatus, \* Engine.lastStatus
    idle,       \* connections kept open after their call
    answer,     \* what the caller's last status query returned
    since       \* history: statuses of the calls that Execute ended after the caller's
                \* last one began, or that were not stored yet when it began

callVars == <<at, req, deliveries, pooled, status>>
askVars  == <<answer, since>>
httpVars == <<callVars, lastStatus, idle, askVars>>

NoRequest == [provider |-> "none", host |-> NoHost, write |-> FALSE]
Request == [provider : Provider, host : Host, write : BOOLEAN]
AnyStatus == Status \union {0}
InFlight == {c \in Caller : at[c] \in {"sent", "reply"}}

HttpTypeOK ==
    /\ at \in [Caller -> {"idle", "dial", "sent", "reply", "store", "asked"}]
    /\ req \in [Caller -> Request \union {NoRequest}]
    /\ deliveries \in [Caller -> 0..2] /\ pooled \in [Caller -> BOOLEAN]
    /\ status \in [Caller -> AnyStatus]
    /\ lastStatus \in AnyStatus /\ idle \in 0..MaxConns
    /\ answer \in [Caller -> AnyStatus]
    /\ since \in [Caller -> SUBSET AnyStatus]

Init ==
    /\ at = [c \in Caller |-> "idle"] /\ req = [c \in Caller |-> NoRequest]
    /\ deliveries = [c \in Caller |-> 0] /\ pooled = [c \in Caller |-> FALSE]
    /\ status = [c \in Caller |-> 0]
    /\ lastStatus = 0 /\ idle = 0
    /\ answer = [c \in Caller |-> 0] /\ since = [c \in Caller |-> AnyStatus]

-----------------------------------------------------------------------------
(* Execute has returned s, which is in result.Status; until it is stored,  *)
(* other calls may begin, end and be stored.                               *)
Returns(c, s) ==
    /\ at' = [at EXCEPT ![c] = "store"] /\ status' = [status EXCEPT ![c] = s]
    /\ deliveries' = [deliveries EXCEPT ![c] = 0]
    /\ req' = [req EXCEPT ![c] = NoRequest] /\ pooled' = [pooled EXCEPT ![c] = FALSE]

Ends(c, s) ==
    /\ Returns(c, s)
    /\ since' = [d \in Caller |-> since[d] \union {s}]

(* The calls of others that are over for Execute and not yet stored.       *)
Unstored(c) == {status[d] : d \in {e \in Caller \ {c} : at[e] = "store"}}

Begins(c, p, h, w) ==
    /\ at[c] = "idle" /\ Accepted(p, h)
    /\ at' = [at EXCEPT ![c] = "dial"]
    /\ req' = [req EXCEPT ![c] = [provider |-> p, host |-> h, write |-> w]]
    /\ since' = [since EXCEPT ![c] = Unstored(c)]
    /\ UNCHANGED <<deliveries, pooled, status, lastStatus, idle, answer>>

(* The operation http: the client names the provider.                      *)
Http(c) == \E p \in Provider, h \in Host, w \in BOOLEAN : Begins(c, p, h, w)

(* invoke of providerHttpJson: the provider is the first, in the random    *)
(* order of a map, that lists the host.  With a wrong number of arguments, *)
(* a URL that does not parse or a host that no provider lists it returns   *)
(* ahead of Dispatch and leaves all of this as it is, lastStatus included. *)
Lists(h) == {p \in Provider : allowedHost(p, h)}
InvokeJson(c) == \E h \in Host, w \in BOOLEAN : \E p \in Lists(h) : Begins(c, p, h, w)

(* A request of a bad shape, or one that is not accepted, ends in Execute  *)
(* with status 0, by whichever of the two it came.                         *)
ExecuteRefuses(c) ==
    /\ at[c] = "idle" /\ Returns(c, 0)
    /\ since' = [d \in Caller |-> {0} \union IF d = c THEN Unstored(c) ELSE since[d]]
    /\ UNCHANGED <<lastStatus, idle, answer>>

-----------------------------------------------------------------------------
(* Execute, from client.Do on.                                             *)

(* Mutant: one client, and so one pool of connections, for all calls.      *)
ReusesShared == idle > 0

(* HTTPHost.Client is nil outside of tests: every call makes a Transport   *)
(* of its own, whose pool is empty.                                        *)
Reuses == FALSE

(* The first public address of the host is dialled, and the request sent.  *)
Sends(c) ==
    /\ at[c] = "dial" /\ Cardinality(InFlight) + idle < MaxConns     \* bound
    /\ at' = [at EXCEPT ![c] = "sent"]
    /\ deliveries' = [deliveries EXCEPT ![c] = @ + 1]
    /\ pooled' = [pooled EXCEPT ![c] = Reuses /\ deliveries[c] = 0]
    /\ UNCHANGED <<req, status, lastStatus, idle, askVars>>

(* No such host, no public address, no connection or no TLS.               *)
DialFails(c) ==
    /\ at[c] = "dial" /\ Ends(c, 0)
    /\ UNCHANGED <<lastStatus, idle, answer>>

(* The headers of a reply: any status.  A redirect is one of them, and is  *)
(* not followed.                                                           *)
Answers(c) ==
    /\ at[c] = "sent" /\ at' = [at EXCEPT ![c] = "reply"]
    /\ \E s \in Status : status' = [status EXCEPT ![c] = s]
    /\ UNCHANGED <<req, deliveries, pooled, lastStatus, idle, askVars>>

(* Mutant: a call that breaks is tried again, however often.               *)
ResendsAlways(c) == at[c] = "sent"

(* net/http sends a request again when a connection of HTTP/1 that was     *)
(* used before breaks ahead of the reply, if a repetition is harmless: a   *)
(* write counts as harmless when it has an Idempotency-Key, as those to    *)
(* Stripe may.                                                             *)
Resends(c) ==
    /\ pooled[c]
    /\ req[c].write => req[c].provider = "stripe" /\ IdempotencyKey

SendsAgain(c) ==
    /\ at' = [at EXCEPT ![c] = "dial"]
    /\ UNCHANGED <<req, pooled, status, lastStatus, idle, askVars>>

(* ForceAttemptHTTP2: over HTTP/2 a provider may declare that it has not   *)
(* taken up a request (REFUSED_STREAM, or a GOAWAY before it), which       *)
(* net/http sends again, on a fresh connection too and whatever it writes. *)
Declines(c) ==
    /\ at[c] = "sent" /\ SendsAgain(c)
    /\ deliveries' = [deliveries EXCEPT ![c] = @ - 1]

(* The connection is closed, or kept for 15 seconds: that of HTTP/1 if the *)
(* whole body was read, that of HTTP/2 also if only the stream broke.      *)
Parts == idle' \in {idle, idle + 1}

(* The connection or the stream breaks, or the status is not one of HTTP.  *)
Breaks(c) ==
    /\ at[c] = "sent"
    /\ \/ Resends(c) /\ SendsAgain(c) /\ UNCHANGED deliveries
       \/ ~Resends(c) /\ Ends(c, 0) /\ Parts /\ UNCHANGED <<lastStatus, answer>>

(* The whole body was read; or it breaks off or is too large, an error     *)
(* that keeps its status.                                                  *)
Reads(c) ==
    /\ at[c] = "reply" /\ Ends(c, status[c]) /\ Parts
    /\ UNCHANGED <<lastStatus, answer>>

(* Mutant: only ResponseHeaderTimeout is set, which the body is not under. *)
TimesHeaders(c) == at[c] \in {"dial", "sent"}

(* Client.Timeout spans the dial, the headers and the body.                *)
Times(c) == at[c] \in {"dial", "sent", "reply"}

TimesOut(c) ==
    /\ Times(c) /\ Ends(c, IF at[c] = "reply" THEN status[c] ELSE 0)
    /\ IF at[c] = "dial" THEN UNCHANGED idle ELSE Parts
    /\ UNCHANGED <<lastStatus, answer>>

(* Mutant: the status is stored only when there is one.                    *)
StoredIfAny(c) == IF status[c] = 0 THEN lastStatus ELSE status[c]

Stored(c) == status[c]

(* Dispatch stores the status under e.mu, also that of an error, and       *)
(* answers.                                                                *)
Stores(c) ==
    /\ at[c] = "store" /\ at' = [at EXCEPT ![c] = "idle"]
    /\ lastStatus' = Stored(c) /\ status' = [status EXCEPT ![c] = 0]
    /\ UNCHANGED <<req, deliveries, pooled, idle, askVars>>

-----------------------------------------------------------------------------
(* http_status, and invoke of providerHttpStatus.                          *)
AsksStatus(c) ==
    /\ at[c] = "idle" /\ at' = [at EXCEPT ![c] = "asked"]
    /\ answer' = [answer EXCEPT ![c] = lastStatus]
    /\ UNCHANGED <<req, deliveries, pooled, status, lastStatus, idle, since>>

Told(c) ==
    /\ at[c] = "asked" /\ at' = [at EXCEPT ![c] = "idle"]
    /\ answer' = [answer EXCEPT ![c] = 0]
    /\ UNCHANGED <<req, deliveries, pooled, status, lastStatus, idle, since>>

(* IdleConnTimeout, or the provider closes it.                             *)
IdleCloses == idle > 0 /\ idle' = idle - 1 /\ UNCHANGED <<callVars, lastStatus, askVars>>

Runs(c) == Sends(c) \/ TimesOut(c) \/ Stores(c) \/ Told(c)
Next ==
    \/ IdleCloses
    \/ \E c \in Caller :
        \/ Http(c) \/ ExecuteRefuses(c) \/ InvokeJson(c) \/ AsksStatus(c)
        \/ Runs(c) \/ DialFails(c) \/ Answers(c) \/ Declines(c) \/ Breaks(c) \/ Reads(c)

Spec == Init /\ [][Next]_httpVars

(* Timers fire and goroutines run; the provider need not answer.           *)
Fairness == WF_httpVars(IdleCloses) /\ \A c \in Caller :
    WF_httpVars(TimesOut(c)) /\ WF_httpVars(Stores(c)) /\ WF_httpVars(Told(c))

FairSpec == Spec /\ Fairness

-----------------------------------------------------------------------------
(* A token is sent only to a host of its own provider and of no other; and *)
(* wherever the list of the provider leaves the host to the client, by a   *)
(* suffix, only to the host that the environment names.  The list and the  *)
(* switch of tenantHostAllowed are kept in step by hand.                   *)
TokenStaysHome ==
    \A c \in Caller : at[c] \in {"sent", "reply"} =>
        LET p == req[c].provider  h == req[c].host
            E == {e \in providerHosts[p] : Matches(e, h)} IN
        /\ E # {} /\ Lists(h) = {p}
        /\ (\A e \in E : e.suffix) => h = Tenant[p]

(* docs/HOST_RUNTIME.md:85: no write is repeated by the host that its      *)
(* provider may have taken up.  That rests on connections never being      *)
(* shared, since net/http would repeat one, and on providers not declining *)
(* what they have taken up.                                                *)
NoHiddenRetry == \A c \in Caller : req[c].write => deliveries[c] <= 1

(* lastStatus is shared and stored apart from the end of Execute, so that  *)
(* a caller may be told of another's call: but only of one that was still  *)
(* under way when its own last call to Execute began, or that began later, *)
(* never of one that had been answered by then.                            *)
StatusNotOlder == \A c \in Caller : at[c] = "asked" => answer[c] \in since[c]

(* Every call is answered, though a provider may stall at any point of its *)
(* reply, and though the caller's own context may have no deadline.        *)
EveryCallAnswered == \A c \in Caller : at[c] # "idle" ~> at[c] = "idle"
=============================================================================
