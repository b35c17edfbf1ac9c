--------------------------- MODULE StripeWebhook ---------------------------
(***************************************************************************)
(* VerifyStripeSignature (internal/hostbridge/payment.go): one pass over   *)
(* the items of a Stripe-Signature header, then the verdict.  A header has *)
(* a timestamp and the signatures made of it and the payload with each     *)
(* secret in use; whatever else comes, in any order and number, has to be  *)
(* judged too.  A signature is the pair that was signed, or Foreign for    *)
(* one made with another secret.                                           *)
(***************************************************************************)
EXTENDS Integers, Sequences, SequencesExt

CONSTANTS
    Payload,
    Time,           \* timestamps and readings of the host's clock, in seconds
    Foreign,        \* the digests of another secret
    Malformed,      \* what does not decode to 32 bytes
    Tolerance,      \* 300 in the code
    MaxSignatures,  \* 10 in the code
    MaxItems        \* bound: items in a header (8192 bytes in the code)

ASSUME WebhookAssumption ==
    /\ Time \subseteq Nat \ {0} /\ Tolerance \in Nat /\ MaxItems \in Nat
    /\ MaxSignatures \in Nat /\ {Foreign, Malformed} \cap (Time \X Payload) = {} /\ Foreign # Malformed

Digest == (Time \X Payload) \union {Foreign}

(* Items of a header; those of another key, or without one, are other.     *)
Item == {<<"t", n>> : n \in Time} \union {<<"t", 0>>}      \* 0: not a positive number
        \union {<<"v1", d>> : d \in Digest}
        \union {<<"v1", Malformed>>, <<"other", "">>}

VARIABLES
    header, payload, now,   \* the arguments; the secret is the host's own
    next,       \* the item that the pass is at
    timestamp,  \* -1 as long as there is none
    received,   \* the well-formed signatures so far
    verdict
args == <<header, payload, now>>
webhookVars == <<args, next, timestamp, received, verdict>>

WebhookTypeOK ==
    /\ header \in Seq(Item) /\ payload \in Payload /\ now \in Time
    /\ next \in 1..(Len(header) + 1) /\ timestamp \in Time \union {-1}
    /\ received \in Seq(Digest)
    /\ verdict \in {"none", "ok", "oversized", "no secret", "bad timestamp",
                    "no signature", "expired", "mismatch"}

Init ==
    /\ header \in BoundedSeq(Item, MaxItems) /\ payload \in Payload /\ now \in Time
    /\ next = 1 /\ timestamp = -1 /\ received = <<>> /\ verdict = "none"

(* Too long a payload or header, or no webhook secret in the environment.  *)
Refused ==
    /\ verdict = "none" /\ next = 1
    /\ verdict' \in {"oversized", "no secret"}
    /\ UNCHANGED <<args, next, timestamp, received>>

At(key) == verdict = "none" /\ next <= Len(header) /\ header[next][1] = key
Passes  == next' = next + 1

(* Each timestamp replaces the one before it, and a bad one ends the pass. *)
Timestamp ==
    /\ At("t") /\ header[next][2] > 0
    /\ timestamp' = header[next][2] /\ Passes
    /\ UNCHANGED <<args, received, verdict>>

BadTimestamp ==
    /\ At("t") /\ header[next][2] <= 0
    /\ verdict' = "bad timestamp"
    /\ UNCHANGED <<args, next, timestamp, received>>

(* Mutant: what does not decode to a digest is kept as well.               *)
KeptAlways == Append(received, header[next][2])

(* One that does not is passed over.                                       *)
Kept == IF header[next][2] = Malformed THEN received ELSE Append(received, header[next][2])

Signature ==
    /\ At("v1") /\ received' = Kept /\ Passes
    /\ UNCHANGED <<args, timestamp, verdict>>

Other == At("other") /\ Passes /\ UNCHANGED <<args, timestamp, received, verdict>>

(* Mutant: only a timestamp that is too old is expired.                    *)
ExpiredOld == now - timestamp > Tolerance

Expired == now - timestamp < -Tolerance \/ now - timestamp > Tolerance

Judge ==
    /\ verdict = "none" /\ next > Len(header)
    /\ verdict' =
        IF timestamp < 0 \/ Len(received) \notin 1..MaxSignatures THEN "no signature"
        ELSE IF Expired THEN "expired"
        ELSE IF <<timestamp, payload>> \in ToSet(received) THEN "ok" ELSE "mismatch"
    /\ UNCHANGED <<args, next, timestamp, received>>

Next == Refused \/ Timestamp \/ BadTimestamp \/ Signature \/ Other \/ Judge
Spec == Init /\ [][Next]_webhookVars

-----------------------------------------------------------------------------
(* What a genuine event is, without a pass: the header has timestamps, all *)
(* of them good, and a signature of the payload under the last of them,    *)
(* which is no further than the tolerance from the clock, on either side;  *)
(* and not more signatures than are looked at.                             *)
Positions(key) == {i \in DOMAIN header : header[i][1] = key}
Signatures == {i \in Positions("v1") : header[i][2] # Malformed}
Genuine ==
    /\ Positions("t") # {} /\ \A i \in Positions("t") : header[i][2] # 0
    /\ LET t == header[Max(Positions("t"))][2] IN
        /\ t - Tolerance <= now /\ now <= t + Tolerance
        /\ \E i \in Signatures : header[i][2] = <<t, payload>>
    /\ Cardinality(Signatures) <= MaxSignatures

(* docs/HOST_RUNTIME.md:68: exactly the genuine events are accepted.  The  *)
(* pass looks at one item at a time and at no order: the timestamp may     *)
(* come after the signatures made of it, or more than once.                *)
AcceptsTheGenuine == verdict \notin {"none", "oversized", "no secret"} => (verdict = "ok" <=> Genuine)
=============================================================================
