--------------------------- MODULE HttpHostProofs ---------------------------
(***************************************************************************)
(* The safety of HttpHost for every number of callers, every environment   *)
(* and every host in the URLs of requests.                                 *)
(***************************************************************************)
EXTENDS HttpHost, FiniteSetTheorems, TLAPS

(* The label of a host under its top-level domain, which no two providers  *)
(* have in common.                                                         *)
Below(p) == IF p = "firebase" THEN "googleapis" ELSE p

LEMMA Suffixes ==
  ASSUME NEW L, NEW M, NEW s \in Seq(L), NEW h \in Seq(M), Len(s) >= 2, Seqs!IsSuffix(s, h)
  PROVE  Len(h) >= 2 /\ h[Len(h) - 1] = s[Len(s) - 1]
<1> DEFINE r == Seqs!Reverse(s)
           t == Seqs!Reverse(h)
<1>1. r = [i \in 1..Len(s) |-> s[(Len(s) - i) + 1]] /\ t = [i \in 1..Len(h) |-> h[(Len(h) - i) + 1]]
  BY DEF Seqs!Reverse
<1>2. Len(s) \in Nat /\ Len(h) \in Nat /\ Len(r) = Len(s) /\ Len(t) = Len(h)
  BY <1>1
<1>3. Len(r) <= Len(t) /\ SubSeq(r, 1, Len(r)) = SubSeq(t, 1, Len(r))
  BY DEF Seqs!IsSuffix, Seqs!IsPrefix
<1>4. r[2] = s[Len(s) - 1] /\ t[2] = h[Len(h) - 1]
  <2> HIDE DEF r, t
  <2>1. 2 \in 1..Len(s) /\ 2 \in 1..Len(h)
    BY <1>2, <1>3
  <2>2. r[2] = s[(Len(s) - 2) + 1] /\ t[2] = h[(Len(h) - 2) + 1]
    BY <1>1, <2>1
  <2>3. QED
    BY <1>2, <2>2
<1>5. SubSeq(r, 1, Len(r)) = [i \in 1..Len(s) |-> r[i]] /\ SubSeq(t, 1, Len(r)) = [i \in 1..Len(s) |-> t[i]]
  <2> HIDE DEF r, t
  <2>1. QED
    BY <1>2
<1>6. r[2] = t[2]
  <2> HIDE DEF r, t
  <2>1. [i \in 1..Len(s) |-> r[i]][2] = [i \in 1..Len(s) |-> t[i]][2]
    BY <1>3, <1>5
  <2>2. QED
    BY <1>2, <2>1
<1>7. QED
  BY <1>2, <1>3, <1>4, <1>6

LEMMA ProviderIs ==
  Provider = {"auth0", "clerk", "cloudflare", "convex", "firebase", "github", "neon", "openai",
              "planetscale", "resend", "sentry", "stripe", "supabase"}
BY DEF Provider, providerHosts

LEMMA BelowDiffers ==
  \A p, q \in Provider : Below(p) = Below(q) => p = q
BY ProviderIs DEF Below


LEMMA TwoLabels ==
  ASSUME NEW x, NEW y
  PROVE  <<x, y>> \in Seq({x, y}) /\ Len(<<x, y>>) = 2 /\ <<x, y>>[1] = x
OBVIOUS

LEMMA ThreeLabels ==
  ASSUME NEW w, NEW x, NEW y
  PROVE  <<w, x, y>> \in Seq({w, x, y}) /\ Len(<<w, x, y>>) = 3 /\ <<w, x, y>>[2] = x
OBVIOUS

(* An entry of a provider's list has the provider's label, and is exact    *)
(* when the provider has no tenants.                                       *)
EntryOf(p, e) ==
  /\ (\E L : e.labels \in Seq(L)) /\ Len(e.labels) >= 2
  /\ e.labels[Len(e.labels) - 1] = Below(p)
  /\ p \notin Tenanted => ~e.suffix

LEMMA ExactEntry ==
  ASSUME NEW p \in Provider, NEW x, NEW y, NEW w, x = Below(p)
  PROVE  /\ EntryOf(p, Exact(<<x, y>>)) /\ EntryOf(p, Exact(<<w, x, y>>))
         /\ p \in Tenanted => EntryOf(p, Under(<<x, y>>))
<1>1. 2 - 1 = 1 /\ 3 - 1 = 2 /\ 2 >= 2 /\ 3 >= 2
  OBVIOUS
<1>2. \A d : Exact(d).labels = d /\ Exact(d).suffix = FALSE /\ Under(d).labels = d
  BY DEF Exact, Under
<1>3. /\ <<x, y>> \in Seq({x, y}) /\ Len(<<x, y>>) >= 2
      /\ <<x, y>>[Len(<<x, y>>) - 1] = x
  BY <1>1, TwoLabels
<1>4. EntryOf(p, Exact(<<w, x, y>>))
  <2>1. Exact(<<w, x, y>>).labels = <<w, x, y>> /\ ~Exact(<<w, x, y>>).suffix
    BY <1>2
  <2>2. /\ <<w, x, y>> \in Seq({w, x, y}) /\ Len(<<w, x, y>>) = 3
        /\ <<w, x, y>>[Len(<<w, x, y>>) - 1] = x
    BY <1>1, ThreeLabels
  <2>3. QED
    BY <1>1, <2>1, <2>2 DEF EntryOf
<1>5. EntryOf(p, Exact(<<x, y>>))
  <2>1. Exact(<<x, y>>).labels = <<x, y>> /\ ~Exact(<<x, y>>).suffix
    BY <1>2
  <2>2. QED
    BY <1>3, <2>1 DEF EntryOf
<1>6. p \in Tenanted => EntryOf(p, Under(<<x, y>>))
  <2>1. Under(<<x, y>>).labels = <<x, y>>
    BY <1>2
  <2>2. QED
    BY <1>3, <2>1 DEF EntryOf
<1>7. QED
  BY <1>4, <1>5, <1>6

LEMMA EntryLabels ==
  ASSUME NEW p \in Provider, NEW e \in providerHosts[p]
  PROVE  EntryOf(p, e)
<1> USE ExactEntry, ProviderIs DEF Below, Tenanted, providerHosts
<1>1. CASE p = "auth0"
  BY <1>1
<1>2. CASE p = "clerk"
  BY <1>2
<1>3. CASE p = "cloudflare"
  BY <1>3
<1>4. CASE p = "convex"
  BY <1>4
<1>5. CASE p = "firebase"
  BY <1>5
<1>6. CASE p = "github"
  BY <1>6
<1>7. CASE p = "neon"
  BY <1>7
<1>8. CASE p = "openai"
  BY <1>8
<1>9. CASE p = "planetscale"
  BY <1>9
<1>10. CASE p = "resend"
  BY <1>10
<1>11. CASE p = "sentry"
  BY <1>11
<1>12. CASE p = "stripe"
  BY <1>12
<1>13. CASE p = "supabase"
  BY <1>13
<1>14. QED
  BY <1>1, <1>2, <1>3, <1>4, <1>5, <1>6, <1>7, <1>8, <1>9, <1>10, <1>11, <1>12, <1>13

(* A host that a provider lists has the provider's label.                  *)
LEMMA ListedLabel ==
  ASSUME NEW p \in Provider, NEW h \in Seq(STRING), allowedHost(p, h)
  PROVE  h[Len(h) - 1] = Below(p)
<1>1. PICK e \in providerHosts[p] : Matches(e, h)
  BY DEF allowedHost
<1>2. EntryOf(p, e)
  BY EntryLabels
<1>3. CASE e.suffix
  <2>1. Seqs!IsSuffix(e.labels, h)
    BY <1>1, <1>3 DEF Matches
  <2>2. QED
    BY <1>2, <2>1, Suffixes DEF EntryOf
<1>4. CASE ~e.suffix
  BY <1>1, <1>2, <1>4 DEF Matches, EntryOf
<1>5. QED
  BY <1>3, <1>4

(* What TokenStaysHome asks of a provider and a host.                      *)
AtHome(p, h) ==
  LET E == {e \in providerHosts[p] : Matches(e, h)} IN
    /\ E # {} /\ Lists(h) = {p}
    /\ (\A e \in E : e.suffix) => h = Tenant[p]

LEMMA AcceptedAtHome ==
  ASSUME NEW p \in Provider, NEW h \in Host, Accepted(p, h)
  PROVE  AtHome(p, h)
<1> DEFINE E == {e \in providerHosts[p] : Matches(e, h)}
<1>1. h \in Seq(STRING) /\ allowedHost(p, h) /\ tenantHostAllowed(p, h)
  BY EnvironmentAssumption DEF Accepted
<1>2. E # {}
  BY <1>1 DEF allowedHost
<1>3. Lists(h) = {p}
  <2>1. \A q \in Lists(h) : Below(q) = Below(p)
    BY <1>1, ListedLabel DEF Lists
  <2>2. p \in Lists(h) /\ Lists(h) \subseteq Provider
    BY <1>1 DEF Lists
  <2>3. QED
    BY <2>1, <2>2, BelowDiffers
<1>4. ASSUME \A e \in E : e.suffix
      PROVE  h = Tenant[p]
  <2>1. p \in Tenanted
    BY <1>2, <1>4, EntryLabels DEF EntryOf
  <2>2. \A d : Matches(Exact(d), d) /\ ~Exact(d).suffix
    BY DEF Matches, Exact
  <2>3. \A d : h = d => Exact(d) \notin providerHosts[p]
    BY <1>4, <2>2
  <2>4. /\ Exact(<<"api", "supabase", "com">>) \in providerHosts["supabase"]
        /\ Exact(<<"sentry", "io">>) \in providerHosts["sentry"]
    BY DEF providerHosts
  <2>5. QED
    BY <1>1, <2>1, <2>3, <2>4 DEF tenantHostAllowed
<1>5. QED
  BY <1>2, <1>3, <1>4 DEF AtHome

-----------------------------------------------------------------------------
(* The invariant.                                                          *)

Sending == {"dial", "sent", "reply"}

(* A call has one accepted request, on a connection of its own, and has    *)
(* brought it to its provider once at most.                                *)
CallOK == \A c \in Caller :
    /\ ~pooled[c] /\ deliveries[c] = IF at[c] \in {"sent", "reply"} THEN 1 ELSE 0
    /\ at[c] \in Sending => req[c] \in Request /\ Accepted(req[c].provider, req[c].host)

(* Connections are in use or idle, and there is a place for each.          *)
ConnsOK == IsFiniteSet(InFlight) /\ Cardinality(InFlight) + idle <= MaxConns

(* A caller may be told of every call that is not stored yet, and, once    *)
(* its own is, of the one that was stored last.                            *)
AskOK == \A c \in Caller :
    /\ \A d \in Caller : at[d] = "store" => status[d] \in since[c]
    /\ at[c] \in {"idle", "asked"} => lastStatus \in since[c]
    /\ at[c] = "asked" => answer[c] \in since[c]

IInv == HttpTypeOK /\ CallOK /\ ConnsOK /\ AskOK

LEMMA Flight == \A c : c \in InFlight <=> c \in Caller /\ at[c] \in {"sent", "reply"}
BY DEF InFlight

(* The set of the callers in flight after a step of one of them.           *)
LEMMA FlightMoves ==
  ASSUME NEW c \in Caller, HttpTypeOK, NEW s, at' = [at EXCEPT ![c] = s]
  PROVE  InFlight' = IF s \in {"sent", "reply"} THEN InFlight \union {c} ELSE InFlight \ {c}
BY DEF InFlight, HttpTypeOK

LEMMA ConnsLeave ==
  ASSUME HttpTypeOK, ConnsOK, NEW c \in Caller, InFlight' = InFlight \ {c}, idle' = idle
  PROVE  ConnsOK'
<1>1. IsFiniteSet(InFlight \ {c}) /\ Cardinality(InFlight \ {c}) <= Cardinality(InFlight)
  BY FS_Subset DEF ConnsOK
<1>2. Cardinality(InFlight) \in Nat /\ Cardinality(InFlight \ {c}) \in Nat
  BY <1>1, FS_CardinalityType DEF ConnsOK
<1>3. QED
  BY <1>1, <1>2, ConnAssumption DEF ConnsOK, HttpTypeOK

(* A place that a call leaves is free, or that of its idle connection.     *)
LEMMA ConnsPart ==
  ASSUME HttpTypeOK, ConnsOK, NEW c \in InFlight, InFlight' = InFlight \ {c}, Parts
  PROVE  ConnsOK' /\ idle' \in 0..MaxConns
<1>1. IsFiniteSet(InFlight') /\ Cardinality(InFlight') = Cardinality(InFlight) - 1
  BY FS_RemoveElement DEF ConnsOK
<1>2. Cardinality(InFlight) \in Nat /\ Cardinality(InFlight') \in Nat
  BY <1>1, FS_CardinalityType DEF ConnsOK
<1>3. QED
  BY <1>1, <1>2, ConnAssumption DEF ConnsOK, HttpTypeOK, Parts

(* The part of a step with which Execute returns.                          *)
LEMMA ReturnsInv ==
  ASSUME IInv, NEW c \in Caller, NEW s \in AnyStatus, Returns(c, s)
  PROVE  /\ at' \in [Caller -> {"idle", "dial", "sent", "reply", "store", "asked"}]
         /\ req' \in [Caller -> Request \union {NoRequest}]
         /\ deliveries' \in [Caller -> 0..2] /\ pooled' \in [Caller -> BOOLEAN]
         /\ status' \in [Caller -> AnyStatus]
         /\ CallOK' /\ InFlight' = InFlight \ {c}
<1> USE DEF IInv, Returns
<1>1. InFlight' = InFlight \ {c}
  BY FlightMoves
<1>2. CallOK'
  BY DEF CallOK, HttpTypeOK, Sending
<1>3. QED
  BY <1>1, <1>2 DEF HttpTypeOK

LEMMA UnstoredType ==
  ASSUME HttpTypeOK, NEW c \in Caller
  PROVE  Unstored(c) \in SUBSET AnyStatus
BY DEF Unstored, HttpTypeOK

(* A call ends, and its connection is closed or kept.                      *)
LEMMA EndsInv ==
  ASSUME IInv, NEW c \in Caller, NEW s \in AnyStatus, Ends(c, s),
         UNCHANGED <<lastStatus, answer>>,
         idle' = idle \/ (at[c] \in {"sent", "reply"} /\ Parts)
  PROVE  IInv'
<1> USE DEF IInv
<1>0. Returns(c, s) /\ since' = [d \in Caller |-> since[d] \union {s}]
  BY DEF Ends
<1>1. ConnsOK' /\ idle' \in 0..MaxConns
  <2>1. CASE idle' = idle
    BY <1>0, <2>1, ReturnsInv, ConnsLeave DEF HttpTypeOK
  <2>2. CASE at[c] \in {"sent", "reply"} /\ Parts
    BY <1>0, <2>2, ReturnsInv, ConnsPart, Flight
  <2>3. QED
    BY <2>1, <2>2
<1>2. HttpTypeOK'
  BY <1>0, <1>1, ReturnsInv DEF HttpTypeOK
<1>3. AskOK'
  <2>1. /\ at' = [at EXCEPT ![c] = "store"] /\ status' = [status EXCEPT ![c] = s]
        /\ at \in [Caller -> {"idle", "dial", "sent", "reply", "store", "asked"}]
        /\ status \in [Caller -> AnyStatus]
    BY <1>0 DEF Returns, HttpTypeOK
  <2>2. \A d \in Caller : at'[d] = "store" => status'[d] = s \/ (at[d] = "store" /\ status'[d] = status[d])
    BY <2>1
  <2>3. \A d \in Caller : at'[d] \in {"idle", "asked"} => at[d] = at'[d]
    BY <2>1
  <2>4. QED
    BY <1>0, <2>2, <2>3 DEF AskOK
<1>4. QED
  BY <1>0, <1>1, <1>2, <1>3, ReturnsInv

(* A step of a call that neither ends it nor opens or keeps a connection.  *)
LEMMA MovesQuiet ==
  ASSUME IInv, NEW c \in Caller, NEW s \in {"idle", "dial", "reply", "asked"},
         at' = [at EXCEPT ![c] = s], s = "reply" <=> at[c] = "sent",
         at[c] # "reply", UNCHANGED idle
  PROVE  /\ at' \in [Caller -> {"idle", "dial", "sent", "reply", "store", "asked"}]
         /\ ConnsOK'
<1> USE DEF IInv
<1>1. InFlight' = InFlight
  <2>1. InFlight' = IF s \in {"sent", "reply"} THEN InFlight \union {c} ELSE InFlight \ {c}
    BY FlightMoves
  <2>2. c \in InFlight <=> s = "reply"
    BY Flight
  <2>3. CASE s = "reply"
    BY <2>1, <2>2, <2>3
  <2>4. CASE s # "reply"
    <3>1. s # "sent" /\ c \notin InFlight
      BY <2>2, <2>4
    <3>2. QED
      BY <2>1, <2>4, <3>1
  <2>5. QED
    BY <2>3, <2>4
<1>2. ConnsOK'
  BY <1>1 DEF ConnsOK
<1>3. at' \in [Caller -> {"idle", "dial", "sent", "reply", "store", "asked"}]
  BY DEF HttpTypeOK
<1>4. QED
  BY <1>2, <1>3

LEMMA InitInv == Init => IInv
<1> SUFFICES ASSUME Init PROVE IInv
  OBVIOUS
<1> USE DEF Init
<1>1. HttpTypeOK
  BY ConnAssumption DEF HttpTypeOK, AnyStatus
<1>2. CallOK
  BY DEF CallOK, Sending
<1>3. ConnsOK
  <2>1. InFlight = {}
    BY DEF InFlight
  <2>2. QED
    BY <2>1, FS_EmptySet, ConnAssumption DEF ConnsOK
<1>4. AskOK
  BY DEF AskOK, AnyStatus
<1>5. QED
  BY <1>1, <1>2, <1>3, <1>4 DEF IInv

(* A call begins.                                                          *)
LEMMA BeginsInv ==
  ASSUME IInv, NEW c \in Caller, Http(c) \/ InvokeJson(c)
  PROVE  IInv'
<1> USE DEF IInv
<1>1. ASSUME NEW p \in Provider, NEW h \in Host, NEW w \in BOOLEAN, Begins(c, p, h, w)
      PROVE  IInv'
  <2> USE <1>1 DEF Begins
  <2> DEFINE q == [provider |-> p, host |-> h, write |-> w]
  <2>1. q \in Request /\ q.provider = p /\ q.host = h
    BY DEF Request
  <2>2. ConnsOK' /\ at' \in [Caller -> {"idle", "dial", "sent", "reply", "store", "asked"}]
    BY MovesQuiet
  <2>3. HttpTypeOK'
    BY <2>1, <2>2, UnstoredType DEF HttpTypeOK
  <2>4. CallOK'
    BY <2>1 DEF CallOK, HttpTypeOK, Sending
  <2>5. AskOK'
    <3>1. \A d \in Caller : at'[d] # "dial" => at'[d] = at[d] /\ d # c
      BY DEF HttpTypeOK
    <3>2. \A d \in Caller : since'[d] = IF d = c THEN Unstored(c) ELSE since[d]
      BY DEF HttpTypeOK
    <3>3. \A d \in Caller : at[d] = "store" => status[d] \in Unstored(c)
      BY DEF Unstored
    <3>4. QED
      BY <3>1, <3>2, <3>3 DEF AskOK
  <2>6. QED
    BY <2>2, <2>3, <2>4, <2>5
<1>2. CASE Http(c)
  BY <1>1, <1>2 DEF Http
<1>3. CASE InvokeJson(c)
  BY <1>1, <1>3 DEF InvokeJson, Lists
<1>4. QED
  BY <1>2, <1>3

(* One that Execute refuses ends as it begins.                             *)
LEMMA RefusesInv ==
  ASSUME IInv, NEW c \in Caller, ExecuteRefuses(c)
  PROVE  IInv'
<1> USE DEF IInv, ExecuteRefuses
<1>1. 0 \in AnyStatus
  BY DEF AnyStatus
<1>2. ConnsOK'
  BY <1>1, ReturnsInv, ConnsLeave
<1>3. HttpTypeOK'
  BY <1>1, ReturnsInv, UnstoredType DEF HttpTypeOK
<1>4. AskOK'
  <2>1. /\ at' = [at EXCEPT ![c] = "store"] /\ status' = [status EXCEPT ![c] = 0]
        /\ at \in [Caller -> {"idle", "dial", "sent", "reply", "store", "asked"}]
        /\ status \in [Caller -> AnyStatus]
    BY DEF Returns, HttpTypeOK
  <2>2. \A d \in Caller : at'[d] = "store" =>
          status'[d] = 0 \/ (at[d] = "store" /\ status'[d] = status[d] /\ d # c)
    BY <2>1
  <2>3. \A d \in Caller : at'[d] \in {"idle", "asked"} => at[d] = at'[d] /\ d # c
    BY <2>1
  <2>4. \A d \in Caller : at[d] = "store" /\ d # c => status[d] \in Unstored(c)
    BY DEF Unstored
  <2>5. \A d \in Caller : /\ 0 \in since'[d]
                          /\ d = c => since'[d] = {0} \union Unstored(c)
                          /\ d # c => since'[d] = {0} \union since[d]
    OBVIOUS
  <2>6. QED
    BY <2>2, <2>3, <2>4, <2>5 DEF AskOK
<1>5. QED
  BY <1>1, <1>2, <1>3, <1>4, ReturnsInv

(* A request is sent and declined, and its headers come.                   *)
LEMMA SendsInv ==
  ASSUME IInv, NEW c \in Caller, Sends(c) \/ Declines(c) \/ Answers(c)
  PROVE  IInv'
<1> USE DEF IInv
<1>1. CASE Sends(c)
  <2> USE <1>1 DEF Sends, askVars
  <2>1. InFlight' = InFlight \union {c} /\ c \notin InFlight
    BY FlightMoves, Flight
  <2>2. ConnsOK'
    <3>1. IsFiniteSet(InFlight') /\ Cardinality(InFlight') = Cardinality(InFlight) + 1
      BY <2>1, FS_AddElement DEF ConnsOK
    <3>2. Cardinality(InFlight) \in Nat
      BY FS_CardinalityType DEF ConnsOK
    <3>3. QED
      BY <3>1, <3>2, ConnAssumption DEF ConnsOK, HttpTypeOK
  <2>3. HttpTypeOK'
    BY DEF HttpTypeOK, CallOK, Reuses
  <2>4. CallOK'
    BY DEF CallOK, HttpTypeOK, Reuses, Sending
  <2>5. AskOK'
    BY DEF AskOK, HttpTypeOK
  <2>6. QED
    BY <2>2, <2>3, <2>4, <2>5
<1>2. CASE Answers(c)
  <2> USE <1>2 DEF Answers, askVars
  <2>1. ConnsOK' /\ at' \in [Caller -> {"idle", "dial", "sent", "reply", "store", "asked"}]
    BY MovesQuiet
  <2>2. status' \in [Caller -> AnyStatus]
    BY DEF HttpTypeOK, AnyStatus
  <2>3. HttpTypeOK'
    BY <2>1, <2>2 DEF HttpTypeOK
  <2>4. CallOK' /\ AskOK'
    BY DEF CallOK, AskOK, HttpTypeOK, Sending
  <2>5. QED
    BY <2>1, <2>3, <2>4
<1>3. CASE Declines(c)
  <2> USE <1>3 DEF Declines, SendsAgain, askVars
  <2>1. InFlight' = InFlight \ {c}
    BY FlightMoves
  <2>2. ConnsOK'
    BY <2>1, ConnsLeave
  <2>3. deliveries[c] = 1
    BY DEF CallOK
  <2>4. HttpTypeOK'
    BY <2>3 DEF HttpTypeOK
  <2>5. CallOK'
    BY <2>3 DEF CallOK, HttpTypeOK, Sending
  <2>6. AskOK'
    BY DEF AskOK, HttpTypeOK
  <2>7. QED
    BY <2>2, <2>4, <2>5, <2>6
<1>4. QED
  BY <1>1, <1>2, <1>3

(* A call ends, in whichever way.                                          *)
LEMMA EndingInv ==
  ASSUME IInv, NEW c \in Caller, DialFails(c) \/ Breaks(c) \/ Reads(c) \/ TimesOut(c)
  PROVE  IInv'
<1>1. 0 \in AnyStatus /\ status[c] \in AnyStatus
  BY DEF IInv, HttpTypeOK, AnyStatus
<1>2. CASE DialFails(c)
  BY <1>1, <1>2, EndsInv DEF DialFails
<1>3. CASE Breaks(c)
  <2>1. ~Resends(c)
    BY DEF Resends, IInv, CallOK
  <2>2. QED
    BY <1>1, <1>3, <2>1, EndsInv DEF Breaks
<1>4. CASE Reads(c)
  BY <1>1, <1>4, EndsInv DEF Reads
<1>5. CASE TimesOut(c)
  BY <1>1, <1>5, EndsInv DEF TimesOut, Times
<1>6. QED
  BY <1>2, <1>3, <1>4, <1>5

(* A status is stored, asked for and told.                                 *)
LEMMA StatusInv ==
  ASSUME IInv, NEW c \in Caller, Stores(c) \/ AsksStatus(c) \/ Told(c)
  PROVE  IInv'
<1> USE DEF IInv
<1>1. /\ ConnsOK' /\ CallOK'
      /\ at' \in [Caller -> {"idle", "dial", "sent", "reply", "store", "asked"}]
  <2>1. PICK s \in {"idle", "asked"} : at' = [at EXCEPT ![c] = s]
    BY DEF Stores, AsksStatus, Told
  <2>2. at[c] \in {"store", "idle", "asked"} /\ UNCHANGED <<req, deliveries, pooled, idle>>
    BY DEF Stores, AsksStatus, Told
  <2>3. CallOK'
    BY <2>1, <2>2 DEF CallOK, HttpTypeOK, Sending
  <2>4. QED
    BY <2>1, <2>2, <2>3, MovesQuiet
<1>2. CASE Stores(c)
  <2>1. lastStatus' \in AnyStatus /\ status' \in [Caller -> AnyStatus]
    BY <1>2 DEF Stores, Stored, HttpTypeOK, AnyStatus
  <2>2. HttpTypeOK'
    BY <1>1, <1>2, <2>1 DEF Stores, HttpTypeOK, askVars
  <2>3. AskOK'
    BY <1>2 DEF Stores, Stored, AskOK, HttpTypeOK, askVars
  <2>4. QED
    BY <1>1, <2>2, <2>3
<1>3. CASE AsksStatus(c) \/ Told(c)
  <2>1. HttpTypeOK'
    BY <1>1, <1>3 DEF AsksStatus, Told, HttpTypeOK, AnyStatus
  <2>2. AskOK'
    BY <1>3 DEF AsksStatus, Told, AskOK, HttpTypeOK
  <2>3. QED
    BY <1>1, <2>1, <2>2
<1>4. QED
  BY <1>2, <1>3

LEMMA QuietInv ==
  ASSUME IInv, IdleCloses \/ UNCHANGED httpVars
  PROVE  IInv'
<1> USE DEF IInv, callVars, askVars
<1>1. /\ UNCHANGED <<callVars, lastStatus, askVars>>
      /\ idle' \in 0..MaxConns /\ idle' <= idle
  BY ConnAssumption DEF IdleCloses, httpVars, HttpTypeOK
<1>2. HttpTypeOK'
  BY <1>1 DEF HttpTypeOK
<1>3. CallOK' /\ AskOK'
  BY <1>1 DEF CallOK, AskOK
<1>4. ConnsOK'
  <2>1. InFlight' = InFlight /\ Cardinality(InFlight) \in Nat
    BY <1>1, FS_CardinalityType DEF InFlight, ConnsOK
  <2>2. QED
    BY <1>1, <2>1, ConnAssumption DEF ConnsOK, HttpTypeOK
<1>5. QED
  BY <1>2, <1>3, <1>4

LEMMA NextInv == IInv /\ [Next]_httpVars => IInv'
BY QuietInv, BeginsInv, RefusesInv, SendsInv, EndingInv, StatusInv DEF Next, Runs

LEMMA Invariant == Spec => []IInv
BY InitInv, NextInv, PTL DEF Spec

-----------------------------------------------------------------------------
(* The results.                                                            *)

(* Every state of the HTTP host is a state of its types; no more           *)
(* connections are kept idle than were opened.                             *)
THEOREM HttpTypes == Spec => []HttpTypeOK
<1>1. IInv => HttpTypeOK
  BY DEF IInv
<1>2. QED
  BY Invariant, <1>1, PTL

(* docs/HOST_RUNTIME.md:85: however connections break, no write is brought *)
(* to a provider twice, since each call has a connection that no other     *)
(* call had.                                                               *)
THEOREM WritesOnce == Spec => []NoHiddenRetry
<1>1. IInv => NoHiddenRetry
  BY DEF IInv, CallOK, NoHiddenRetry
<1>2. QED
  BY Invariant, <1>1, PTL

(* Under any number of concurrent callers a status query is answered with  *)
(* the status of the caller's last call to Execute, or of one that had not *)
(* been answered when that one began.                                      *)
THEOREM StatusNotStale == Spec => []StatusNotOlder
<1>1. IInv => StatusNotOlder
  BY DEF IInv, AskOK, StatusNotOlder
<1>2. QED
  BY Invariant, <1>1, PTL

(* A token goes to hosts of its own provider alone, and to the tenant's    *)
(* where the list has a suffix, for every host that a client may name: the *)
(* hosts of two providers differ under their top-level domain.             *)
THEOREM TokensStayHome == Spec => []TokenStaysHome
<1>1. IInv => TokenStaysHome
  <2>1. SUFFICES ASSUME IInv, NEW c \in Caller, at[c] \in {"sent", "reply"}
                 PROVE  AtHome(req[c].provider, req[c].host)
    BY DEF TokenStaysHome, AtHome
  <2>2. /\ req[c].provider \in Provider /\ req[c].host \in Host
        /\ Accepted(req[c].provider, req[c].host)
    BY <2>1 DEF IInv, CallOK, Sending, Request
  <2>3. QED
    BY <2>2, AcceptedAtHome
<1>2. QED
  BY Invariant, <1>1, PTL
=============================================================================
