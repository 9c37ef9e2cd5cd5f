--------------------------- MODULE BootstrapPadding ---------------------------
(***************************************************************************)
(* handshake.padBootstrapBody and the relay's signAndPadRelayPrelude1: a    *)
(* body is grown into the envelope of its template.  Prelude 1 is sized     *)
(* with its signatures at their largest, and signed only after that, since  *)
(* the padding is part of what is signed; a DER signature may turn out      *)
(* shorter.  A body is known by its length; every finalizer of the program  *)
(* writes a fixed number of bytes besides the padding.                      *)
(***************************************************************************)
EXTENDS Integers

CONSTANTS
    Envelopes,  \* pairs <<minBodySize, maxBodySize>>
    Bases,      \* lengths of a body without padding
    Shorter,    \* by how much the signatures may fall short of their bound
    maxBootstrapRecordBodyBytes,
    maxPaddingAttempts,
    preludeSignatureSizeGuard,
    MaxPadding  \* what an opaque16 holds

PaddingAssumption ==
    /\ Envelopes \subseteq Nat \X Nat /\ Bases \subseteq Nat /\ Shorter \subseteq Nat
    /\ maxBootstrapRecordBodyBytes \in Nat /\ preludeSignatureSizeGuard \in Nat /\ MaxPadding \in Nat
    /\ maxPaddingAttempts \in Nat \ {0, 1}

VARIABLES
    body,       \* the body: what it is of, its length without padding, its envelope
    attempt,
    padding,    \* length of the padding so far
    previous,   \* previousBodySize, or -1
    outcome,    \* "padding", "padded", "signed", or why there is no record:
                \*   "invalid", "large", "stuck", "failed" or "outside"
    length      \* length of the record
vars == <<body, attempt, padding, previous, outcome, length>>

Bodies == {"prelude0", "prelude1", "capsule1", "capsule2"}

\* Only prelude 1 is signed after it was sized.
useSignatureGuard == body.of = "prelude1"

Minimum == body.envelope[1]
Maximum == body.envelope[2]

\* The envelope is looked at before the first attempt.
PaddingInit ==
    /\ body \in [of : Bodies, base : Bases, envelope : Envelopes]
    /\ attempt = 0 /\ padding = 0 /\ previous = -1 /\ length = 0
    /\ outcome = IF Minimum > Maximum \/ Maximum > maxBootstrapRecordBodyBytes
                 THEN "invalid" ELSE "padding"

\* What a body of this size still needs: up to the minimum, and for prelude 1 the
\* guard above it, as far as the envelope has room.
Additional(size) ==
    LET headroom == Maximum - Minimum
        guard == IF headroom > preludeSignatureSizeGuard THEN preludeSignatureSizeGuard ELSE headroom
    IN (Minimum - size) + (IF useSignatureGuard /\ attempt = 0 THEN guard ELSE 0)

\* One turn of the loop of padBootstrapBody.
padBootstrapBody ==
    /\ outcome = "padding"
    /\ LET size == body.base + padding IN
       IF attempt = maxPaddingAttempts \/ size <= previous
       THEN outcome' = "stuck" /\ UNCHANGED <<attempt, padding, previous, length>>
       ELSE IF size > Maximum
       THEN outcome' = "large" /\ UNCHANGED <<attempt, padding, previous, length>>
       ELSE IF size >= Minimum
       THEN outcome' = "padded" /\ length' = size /\ UNCHANGED <<attempt, padding, previous>>
       ELSE IF Additional(size) > MaxPadding - padding
       THEN outcome' = "large" /\ UNCHANGED <<attempt, padding, previous, length>>
       ELSE /\ attempt' = attempt + 1 /\ padding' = padding + Additional(size)
            /\ previous' = size
            /\ UNCHANGED <<outcome, length>>
    /\ UNCHANGED body

\* The finalizer, the entropy source, a signer or the caller's context fails.
PaddingFails ==
    /\ \/ outcome = "padding"
       \/ outcome = "padded" /\ useSignatureGuard
    /\ outcome' = "failed"
    /\ UNCHANGED <<body, attempt, padding, previous, length>>

\* signAndPadRelayPrelude1 after the sizing, with validateBootstrapEnvelope.
SignPrelude1 ==
    /\ outcome = "padded" /\ useSignatureGuard
    /\ \E short \in Shorter :
           /\ short <= length
           /\ length' = length - short
           /\ outcome' = IF length' < Minimum \/ length' > Maximum THEN "outside" ELSE "signed"
    /\ UNCHANGED <<body, attempt, padding, previous>>

PaddingNext == padBootstrapBody \/ PaddingFails \/ SignPrelude1
PaddingSpec == PaddingInit /\ [][PaddingNext]_vars
-----------------------------------------------------------------------------
\* By how much the signatures fell short.
Short == body.base + padding - length
Record == outcome = "signed" \/ (outcome = "padded" /\ ~ useSignatureGuard)

\* A record that is sent lies in the envelope of its template.  The loop ends in its
\* second turn.  It gives up only on an envelope that is no envelope, a body that is
\* longer than the envelope before it is padded, or padding that no field holds.
\* Signatures that fall short by no more than the guard never push prelude 1 out of an
\* envelope that has room for the guard, provided that it was padded at all.
PaddingExact ==
    /\ Record => length \in Minimum .. Maximum
    /\ attempt <= 1 /\ outcome # "stuck"
    /\ outcome = "invalid" =>
           Minimum > Maximum \/ Maximum > maxBootstrapRecordBodyBytes
    /\ outcome = "large" =>
           \/ body.base > Maximum
           \/ Minimum - body.base + preludeSignatureSizeGuard > MaxPadding
    /\ outcome = "outside" =>
           \/ padding = 0
           \/ Maximum - Minimum < preludeSignatureSizeGuard
           \/ Short > preludeSignatureSizeGuard

\* Not so when it was not padded: a body that reaches the minimum with its signatures at
\* their largest is given no guard, and a shorter signature leaves it outside.
GuardCoversSignatures ==
    outcome = "outside" => \/ Maximum - Minimum < preludeSignatureSizeGuard
                           \/ Short > preludeSignatureSizeGuard
=============================================================================
