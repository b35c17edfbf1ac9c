------------------------- MODULE StripeWebhookProofs -------------------------
(***************************************************************************)
(* The events that the pass of StripeWebhook accepts are the genuine ones, *)
(* for every payload, set of times, tolerance and length of the header.    *)
(***************************************************************************)
EXTENDS StripeWebhook, FiniteSetTheorems, TLAPS

(* The positions that the pass has left behind.                            *)
Seen(S) == {i \in S : i < next}

(* The timestamp is the last of those seen, and all of them are good.      *)
TimestampOK ==
    /\ \A i \in Seen(Positions("t")) : header[i][2] # 0
    /\ timestamp = -1 => Seen(Positions("t")) = {}
    /\ timestamp # -1 => \E i \in Seen(Positions("t")) :
        timestamp = header[i][2] /\ \A j \in Seen(Positions("t")) : j <= i

(* What is kept is the signatures seen, each as often as it came.          *)
ReceivedOK ==
    /\ \A i \in Seen(Signatures) : header[i][2] \in ToSet(received)
    /\ \A d \in ToSet(received) : \E i \in Seen(Signatures) : header[i][2] = d
    /\ IsFiniteSet(Seen(Signatures)) /\ Len(received) = Cardinality(Seen(Signatures))

(* A pass that ended early is at a bad timestamp; otherwise it has seen    *)
(* the whole header.                                                       *)
VerdictOK ==
    /\ verdict = "bad timestamp" =>
        next <= Len(header) /\ header[next][1] = "t" /\ header[next][2] = 0
    /\ verdict \in {"ok", "no signature", "expired", "mismatch"} => next = Len(header) + 1
    /\ verdict = "ok" <=>
        /\ verdict \in {"ok", "no signature", "expired", "mismatch"}
        /\ timestamp >= 0 /\ Len(received) \in 1..MaxSignatures
        /\ ~Expired /\ <<timestamp, payload>> \in ToSet(received)

IInv == WebhookTypeOK /\ TimestampOK /\ ReceivedOK /\ VerdictOK

-----------------------------------------------------------------------------
(* What an item is made of.                                                *)
LEMMA ItemParts ==
  ASSUME NEW x \in Item
  PROVE  /\ x[1] \in {"t", "v1", "other"}
         /\ x[1] = "t" => x[2] \in Time \union {0}
         /\ x[1] = "v1" => x[2] \in Digest \union {Malformed}
<1>1. CASE x \in {<<"t", n>> : n \in Time} \union {<<"t", 0>>}
  BY <1>1
<1>2. CASE x \in {<<"v1", d>> : d \in Digest} \union {<<"v1", Malformed>>}
  BY <1>2
<1>3. CASE x = <<"other", "">>
  BY <1>3
<1>4. QED
  BY <1>1, <1>2, <1>3 DEF Item

(* What is not a positive number.                                          *)
LEMMA NotPositive ==
  ASSUME NEW x \in Time \union {0}, x <= 0
  PROVE  x = 0
BY WebhookAssumption

(* A position that is not past the end.                                    *)
LEMMA Within ==
  ASSUME NEW l \in Nat, NEW i \in 1..(l + 1), i <= l
  PROVE  i \in 1..l
OBVIOUS

(* The bounds of an interval.                                              *)
LEMMA Bounds ==
  ASSUME NEW l \in Nat, NEW m \in Nat
  PROVE  /\ 1..l \subseteq Nat /\ \A i \in 1..l : i < l + 1
         /\ l >= 0 /\ ~(-1 >= 0)
         /\ m \in 1..l <=> m # 0 /\ m <= l
OBVIOUS

(* What a kept digest does to the digests kept.                            *)
LEMMA AppendSet ==
  ASSUME NEW S, NEW s \in Seq(S), NEW d \in S
  PROVE  /\ Append(s, d) \in Seq(S) /\ Len(Append(s, d)) = Len(s) + 1
         /\ ToSet(Append(s, d)) = ToSet(s) \union {d}
<1>1. /\ Append(s, d) \in Seq(S) /\ Len(Append(s, d)) = Len(s) + 1 /\ Len(s) \in Nat
      /\ DOMAIN s = 1..Len(s) /\ DOMAIN Append(s, d) = 1..(Len(s) + 1)
      /\ \A i \in 1..Len(s) : Append(s, d)[i] = s[i]
      /\ Append(s, d)[Len(s) + 1] = d
  OBVIOUS
<1>2. QED
  BY <1>1 DEF ToSet

(* The positions of a header are of one of three kinds.                    *)
LEMMA PositionsAre ==
  ASSUME WebhookTypeOK
  PROVE  /\ Positions("t") \subseteq 1..Len(header)
         /\ Signatures \subseteq Positions("v1")
         /\ Positions("v1") \subseteq 1..Len(header)
         /\ \A i \in Positions("t") : header[i][1] = "t" /\ header[i][2] \in Time \union {0}
         /\ \A i \in Signatures : header[i][1] = "v1" /\ header[i][2] \in Digest
         /\ Len(header) \in Nat /\ DOMAIN header = 1..Len(header)
         /\ \A i \in 1..Len(header) : header[i] \in Item
<1>1. Len(header) \in Nat /\ DOMAIN header = 1..Len(header)
      /\ \A i \in 1..Len(header) : header[i] \in Item
  <2>1. header \in Seq(Item)
    BY DEF WebhookTypeOK
  <2>2. QED
    BY <2>1
<1>2. QED
  BY <1>1, ItemParts DEF Positions, Signatures

(* The numbers of the state.                                               *)
LEMMA Numbers ==
  ASSUME WebhookTypeOK
  PROVE  /\ next \in 1..(Len(header) + 1) /\ next \in Nat
         /\ timestamp = -1 \/ timestamp \in Nat \ {0}
         /\ timestamp \in Int /\ now \in Nat /\ Tolerance \in Nat /\ MaxSignatures \in Nat
<1>1. Time \subseteq Nat \ {0} /\ Tolerance \in Nat /\ MaxSignatures \in Nat
  BY WebhookAssumption
<1>2. /\ next \in 1..(Len(header) + 1) /\ timestamp \in Time \union {-1}
      /\ now \in Time
  BY DEF WebhookTypeOK
<1>3. Len(header) \in Nat
  BY PositionsAre
<1>4. QED
  BY <1>1, <1>2, <1>3

-----------------------------------------------------------------------------
LEMMA Starts == Init => IInv
<1> SUFFICES ASSUME Init PROVE IInv
  OBVIOUS
<1>1. header \in Seq(Item)
  BY DEF Init, BoundedSeq, SeqOf
<1>2. WebhookTypeOK
  BY <1>1 DEF Init, WebhookTypeOK
<1>3. Seen(Positions("t")) = {} /\ Seen(Signatures) = {}
  BY <1>2, PositionsAre DEF Init, Seen
<1>4. TimestampOK
  BY <1>3 DEF Init, TimestampOK
<1>5. ReceivedOK
  BY <1>3, FS_EmptySet DEF Init, ReceivedOK, ToSet
<1>6. QED
  BY <1>2, <1>4, <1>5 DEF Init, VerdictOK, IInv

LEMMA Steps == IInv /\ [Next]_webhookVars => IInv'
<1> SUFFICES ASSUME IInv, [Next]_webhookVars PROVE IInv'
  OBVIOUS
<1> USE DEF IInv
<1>a. /\ next \in 1..(Len(header) + 1) /\ next \in Nat /\ Len(header) \in Nat
      /\ Positions("t") \subseteq 1..Len(header) /\ Signatures \subseteq 1..Len(header)
  BY Numbers, PositionsAre
<1>1. CASE Refused
  <2>1. /\ UNCHANGED <<header, payload, now, next, timestamp, received>>
        /\ verdict' \in {"oversized", "no secret"}
    BY <1>1 DEF Refused, args
  <2>2. WebhookTypeOK' /\ TimestampOK' /\ ReceivedOK'
    BY <2>1 DEF WebhookTypeOK, TimestampOK, ReceivedOK, Seen, Positions, Signatures
  <2>3. QED
    BY <2>1, <2>2 DEF VerdictOK
<1>2. CASE Timestamp
  <2>1. /\ UNCHANGED <<header, payload, now, received, verdict>>
        /\ timestamp' = header[next][2] /\ next' = next + 1 /\ verdict = "none"
        /\ next \in 1..Len(header) /\ header[next][1] = "t" /\ header[next][2] > 0
    BY <1>2, <1>a DEF Timestamp, At, Passes, args
  <2>2. next \in Positions("t") /\ next \notin Signatures /\ header[next][2] \in Time
    <3>1. next \in Positions("t")
      BY <2>1, PositionsAre DEF Positions
    <3>2. header[next][2] \in Time
      BY <2>1, <3>1, PositionsAre
    <3>3. QED
      BY <2>1, <3>1, <3>2, PositionsAre
  <2>3. /\ Seen(Positions("t"))' = Seen(Positions("t")) \union {next}
        /\ Seen(Signatures)' = Seen(Signatures)
    BY <2>1, <2>2, <1>a DEF Seen, Positions, Signatures
  <2>4. WebhookTypeOK'
    BY <2>1, <2>2, <1>a DEF WebhookTypeOK
  <2>5. TimestampOK'
    <3>1. timestamp' # -1 /\ header[next][2] # 0
      BY <2>1, <2>2, WebhookAssumption
    <3>2. \A j \in Seen(Positions("t")) : j <= next
      BY <1>a DEF Seen
    <3>3. QED
      BY <2>1, <2>3, <3>1, <3>2, <1>a DEF TimestampOK
  <2>6. ReceivedOK'
    BY <2>1, <2>3 DEF ReceivedOK
  <2>7. QED
    BY <2>1, <2>4, <2>5, <2>6 DEF VerdictOK
<1>3. CASE BadTimestamp
  <2>1. UNCHANGED <<header, payload, now, next, timestamp, received>>
    BY <1>3 DEF BadTimestamp, args
  <2>2. /\ verdict' = "bad timestamp"
        /\ next <= Len(header) /\ header[next][1] = "t"
    BY <1>3 DEF BadTimestamp, At
  <2>3. next \in 1..Len(header)
    <3>1. next <= Len(header)
      BY <2>2
    <3>2. QED
      BY <3>1, <1>a
  <2>4. WebhookTypeOK' /\ TimestampOK' /\ ReceivedOK'
    BY <2>1, <2>2 DEF WebhookTypeOK, TimestampOK, ReceivedOK, Seen, Positions, Signatures
  <2>5. header[next][2] = 0
    <3>1. header[next][2] \in Time \union {0}
      BY <2>2, <2>3, PositionsAre DEF Positions
    <3>2. header[next][2] <= 0
      BY <1>3 DEF BadTimestamp
    <3>3. QED
      BY <3>1, <3>2, NotPositive, Zenon
  <2>6. QED
    BY <2>1, <2>2, <2>4, <2>5 DEF VerdictOK
<1>4. CASE Signature
  <2>1. /\ UNCHANGED <<header, payload, now, timestamp, verdict>>
        /\ received' = Kept /\ next' = next + 1 /\ verdict = "none"
        /\ next \in 1..Len(header) /\ header[next][1] = "v1"
    BY <1>4, <1>a DEF Signature, At, Passes, args
  <2>2. next \notin Positions("t") /\ next \in Positions("v1")
    BY <2>1, PositionsAre DEF Positions
  <2>3. Seen(Positions("t"))' = Seen(Positions("t")) /\ TimestampOK'
    <3>1. Seen(Positions("t"))' = Seen(Positions("t"))
      BY <2>1, <2>2, <1>a DEF Seen, Positions
    <3>2. QED
      BY <2>1, <3>1 DEF TimestampOK
  <2>4. received \in Seq(Digest) /\ Len(received) \in Nat
    <3>1. received \in Seq(Digest)
      BY DEF WebhookTypeOK
    <3>2. QED
      BY <3>1
  <2>5. CASE header[next][2] = Malformed
    <3>1. received' = received /\ next \notin Signatures
      BY <2>1, <2>5 DEF Kept, Signatures
    <3>2. Seen(Signatures)' = Seen(Signatures)
      BY <2>1, <3>1, <1>a DEF Seen, Signatures, Positions
    <3>3. WebhookTypeOK'
      BY <2>1, <3>1, <1>a DEF WebhookTypeOK
    <3>4. QED
      BY <2>1, <2>3, <3>1, <3>2, <3>3 DEF ReceivedOK, VerdictOK
  <2>6. CASE header[next][2] # Malformed
    <3> DEFINE d == header[next][2]
    <3>1. received' = Append(received, d) /\ next \in Signatures /\ d \in Digest
      BY <2>1, <2>2, <2>6, PositionsAre DEF Kept, Signatures
    <3>2. Seen(Signatures)' = Seen(Signatures) \union {next} /\ next \notin Seen(Signatures)
      BY <2>1, <3>1, <1>a DEF Seen, Signatures, Positions
    <3>3. /\ received' \in Seq(Digest) /\ Len(received') = Len(received) + 1
          /\ ToSet(received') = ToSet(received) \union {d}
      BY <2>4, <3>1, AppendSet
    <3>4. WebhookTypeOK'
      BY <2>1, <3>3, <1>a DEF WebhookTypeOK
    <3>5. /\ IsFiniteSet(Seen(Signatures)')
          /\ Len(received') = Cardinality(Seen(Signatures)')
      BY <3>2, <3>3, FS_AddElement DEF ReceivedOK
    <3>6. ReceivedOK'
      BY <2>1, <3>2, <3>3, <3>5 DEF ReceivedOK
    <3>7. QED
      BY <2>1, <2>3, <3>4, <3>6 DEF VerdictOK
  <2>7. QED
    BY <2>5, <2>6
<1>5. CASE Other
  <2>1. /\ UNCHANGED <<header, payload, now, timestamp, received, verdict>>
        /\ next' = next + 1 /\ verdict = "none"
        /\ next \in 1..Len(header) /\ header[next][1] = "other"
    BY <1>5, <1>a DEF Other, At, Passes, args
  <2>2. next \notin Positions("t") /\ next \notin Signatures
    BY <2>1 DEF Positions, Signatures
  <2>3. /\ Seen(Positions("t"))' = Seen(Positions("t"))
        /\ Seen(Signatures)' = Seen(Signatures)
    BY <2>1, <2>2, <1>a DEF Seen, Positions, Signatures
  <2>4. WebhookTypeOK'
    BY <2>1, <1>a DEF WebhookTypeOK
  <2>5. QED
    BY <2>1, <2>3, <2>4 DEF TimestampOK, ReceivedOK, VerdictOK
<1>6. CASE Judge
  <2>1. /\ UNCHANGED <<header, payload, now, next, timestamp, received>>
        /\ verdict = "none" /\ next > Len(header)
    BY <1>6 DEF Judge, args
  <2>2. /\ verdict' \in {"ok", "no signature", "expired", "mismatch"}
        /\ verdict' = "ok" <=>
            /\ ~(timestamp < 0) /\ Len(received) \in 1..MaxSignatures
            /\ ~Expired /\ <<timestamp, payload>> \in ToSet(received)
    BY <1>6 DEF Judge, Expired
  <2>3. WebhookTypeOK' /\ TimestampOK' /\ ReceivedOK'
    BY <2>1, <2>2 DEF WebhookTypeOK, TimestampOK, ReceivedOK, Seen, Positions, Signatures
  <2>4. next = Len(header) + 1
    BY <2>1, <1>a
  <2>5. ~(timestamp < 0) <=> timestamp >= 0
    BY Numbers
  <2>6. VerdictOK'
    BY <2>1, <2>2, <2>4, <2>5 DEF VerdictOK, Expired
  <2>7. QED
    BY <2>3, <2>6
<1>7. CASE UNCHANGED webhookVars
  <2>1. UNCHANGED <<header, payload, now, next, timestamp, received, verdict>>
    BY <1>7 DEF webhookVars, args
  <2>2. WebhookTypeOK' /\ TimestampOK' /\ ReceivedOK'
    BY <2>1 DEF WebhookTypeOK, TimestampOK, ReceivedOK, Seen, Positions, Signatures
  <2>3. QED
    BY <2>1, <2>2 DEF VerdictOK, Expired
<1>8. QED
  BY <1>1, <1>2, <1>3, <1>4, <1>5, <1>6, <1>7 DEF Next

-----------------------------------------------------------------------------
(* The greatest of a set of positions.                                     *)
LEMMA MaxIs ==
  ASSUME NEW S \in SUBSET Nat, NEW k \in S, \A j \in S : j <= k
  PROVE  Max(S) = k
<1>1. k \in S /\ \A j \in S : k >= j
  OBVIOUS
<1>2. Max(S) \in S /\ \A j \in S : Max(S) >= j
  BY <1>1 DEF Max
<1>3. Max(S) \in Nat /\ k \in Nat /\ Max(S) >= k /\ Max(S) <= k
  BY <1>1, <1>2
<1>4. QED
  BY <1>3

(* Not to be expired is to be within the tolerance.                        *)
LEMMA Window ==
  ASSUME NEW n \in Nat, NEW t \in Nat, NEW w \in Nat
  PROVE  ~(n - t < -w \/ n - t > w) <=> t - w <= n /\ n <= t + w
OBVIOUS

(* The verdict on a header that has been seen whole.                       *)
LEMMA Judged ==
  ASSUME WebhookTypeOK, TimestampOK, ReceivedOK, VerdictOK,
         verdict \in {"ok", "no signature", "expired", "mismatch"}
  PROVE  verdict = "ok" <=> Genuine
<1>a. Len(header) \in Nat /\ next = Len(header) + 1
  BY PositionsAre DEF VerdictOK
<1>b. 1..Len(header) \subseteq Nat /\ \A i \in 1..Len(header) : i < next
  BY <1>a, Bounds, Zenon
<1>1. /\ Positions("t") \subseteq 1..Len(header) /\ Signatures \subseteq 1..Len(header)
  BY PositionsAre
<1>2. Seen(Positions("t")) = Positions("t") /\ Seen(Signatures) = Signatures
  BY <1>1, <1>b DEF Seen
<1>3. \A i \in Positions("t") : header[i][2] # 0
  BY <1>2 DEF TimestampOK
<1>4. Cardinality(Signatures) = Len(received) /\ IsFiniteSet(Signatures) /\ Len(received) \in Nat
  BY <1>2, FS_CardinalityType DEF ReceivedOK
<1>5. CASE Positions("t") = {}
  <2>1. timestamp = -1
    BY <1>2, <1>5 DEF TimestampOK
  <2>2. QED
    <3>1. ~(timestamp >= 0)
      BY <2>1, <1>a, Bounds, Zenon
    <3>2. verdict # "ok"
      BY <3>1 DEF VerdictOK
    <3>3. QED
      BY <3>2, <1>5 DEF Genuine
<1>6. CASE Positions("t") # {}
  <2>1. timestamp # -1
    BY <1>2, <1>6 DEF TimestampOK
  <2>2. PICK k \in Positions("t") : timestamp = header[k][2] /\ \A j \in Positions("t") : j <= k
    BY <1>2, <2>1 DEF TimestampOK
  <2>3. Max(Positions("t")) = k
    <3>1. Positions("t") \in SUBSET Nat
      BY <1>1, <1>b, Zenon
    <3>2. QED
      BY <2>2, <3>1, MaxIs, Zenon
  <2>4. timestamp \in Nat /\ now \in Nat /\ Tolerance \in Nat /\ MaxSignatures \in Nat
    BY <2>1, Numbers
  <2>5. ~Expired <=> timestamp - Tolerance <= now /\ now <= timestamp + Tolerance
    BY <2>4, Window DEF Expired
  <2>6. <<timestamp, payload>> \in ToSet(received)
        <=> \E i \in Signatures : header[i][2] = <<timestamp, payload>>
    BY <1>2 DEF ReceivedOK
  <2>7. (\E i \in Signatures : header[i][2] = <<timestamp, payload>>) => Len(received) # 0
    BY <1>4, FS_EmptySet
  <2>8. Genuine <=> /\ ~Expired /\ <<timestamp, payload>> \in ToSet(received)
                    /\ Len(received) <= MaxSignatures
    BY <1>3, <1>4, <1>6, <2>2, <2>3, <2>5, <2>6 DEF Genuine
  <2>9. /\ timestamp >= 0
        /\ Len(received) \in 1..MaxSignatures <=> Len(received) # 0 /\ Len(received) <= MaxSignatures
    BY <1>4, <2>4, Bounds, Zenon
  <2>10. verdict = "ok" <=> /\ Len(received) \in 1..MaxSignatures
                            /\ ~Expired /\ <<timestamp, payload>> \in ToSet(received)
    BY <2>9 DEF VerdictOK
  <2>11. QED
    BY <2>6, <2>7, <2>8, <2>9, <2>10, Zenon
<1>7. QED
  BY <1>5, <1>6

LEMMA Invariance == Spec => []IInv
<1>1. QED
  BY Starts, Steps, PTL DEF Spec

(* The arguments of a call, what the pass has gathered and its verdict     *)
(* have their types.                                                       *)
THEOREM WebhookTypes == Spec => []WebhookTypeOK
<1>1. IInv => WebhookTypeOK
  BY DEF IInv
<1>2. QED
  BY <1>1, Invariance, PTL

(* VerifyStripeSignature accepts an event exactly when it is genuine,      *)
(* whatever the order and the number of the items of the header, unless    *)
(* it refuses to look at it at all.                                        *)
THEOREM GenuineAccepted == Spec => []AcceptsTheGenuine
<1>1. IInv => AcceptsTheGenuine
  <2> SUFFICES ASSUME IInv, verdict \notin {"none", "oversized", "no secret"}
               PROVE  verdict = "ok" <=> Genuine
    BY DEF AcceptsTheGenuine
  <2>1. CASE verdict = "bad timestamp"
    <3>1. next <= Len(header) /\ header[next][1] = "t" /\ header[next][2] = 0
      BY <2>1 DEF IInv, VerdictOK
    <3>2. next \in 1..Len(header) /\ DOMAIN header = 1..Len(header)
      <4>1. next <= Len(header) /\ next \in 1..(Len(header) + 1)
        BY <3>1, Numbers DEF IInv
      <4>2. Len(header) \in Nat
        BY PositionsAre DEF IInv
      <4>3. next \in 1..Len(header)
        BY <4>1, <4>2, Within
      <4>4. QED
        BY <4>3, PositionsAre DEF IInv
    <3>3. next \in Positions("t")
      BY <3>1, <3>2 DEF Positions
    <3>4. QED
      BY <2>1, <3>1, <3>3 DEF Genuine
  <2>2. CASE verdict \in {"ok", "no signature", "expired", "mismatch"}
    BY <2>2, Judged DEF IInv
  <2>3. QED
    BY <2>1, <2>2 DEF IInv, WebhookTypeOK
<1>2. QED
  BY <1>1, Invariance, PTL
=============================================================================
