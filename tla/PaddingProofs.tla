---------------------------- MODULE PaddingProofs ----------------------------
(***************************************************************************)
(* Padding brings a bootstrap record into its envelope, for every envelope, *)
(* body, guard and limit: among them those of the program, which are out of *)
(* reach of enumeration.                                                    *)
(*                                                                         *)
(* The invariant says what one turn of the loop leaves: the padding that    *)
(* was added is exactly what is missing and the guard (Grown), so that the  *)
(* second turn finds the body inside the envelope.                          *)
(***************************************************************************)
EXTENDS BootstrapPadding, TLAPS

Outcomes == {"padding", "padded", "signed", "invalid", "large", "stuck", "failed", "outside"}

Typed ==
    /\ body \in [of : Bodies, base : Nat, envelope : Nat \X Nat]
    /\ attempt \in {0, 1} /\ padding \in Nat /\ previous \in Int /\ length \in Nat
    /\ outcome \in Outcomes

Guard ==
    IF ~ useSignatureGuard THEN 0
    ELSE IF Maximum - Minimum > preludeSignatureSizeGuard THEN preludeSignatureSizeGuard
    ELSE Maximum - Minimum

\* Before and after the one turn that adds padding.
Grown ==
    /\ attempt = 0 => padding = 0 /\ previous = -1
    /\ attempt = 1 => /\ body.base < Minimum /\ previous = body.base
                      /\ padding = (Minimum - body.base) + Guard

Valid == Minimum <= Maximum /\ Maximum <= maxBootstrapRecordBodyBytes

Settled ==
    /\ outcome = "padding" => Valid
    /\ outcome = "padded" => length = body.base + padding /\ length >= Minimum /\ length <= Maximum
    /\ outcome = "signed" => length >= Minimum /\ length <= Maximum
    /\ outcome = "stuck" => FALSE
    /\ outcome = "invalid" => ~ Valid
    /\ outcome = "large" => \/ body.base > Maximum
                            \/ (Minimum - body.base) + preludeSignatureSizeGuard > MaxPadding
    /\ outcome = "outside" => \/ padding = 0
                              \/ Maximum - Minimum < preludeSignatureSizeGuard
                              \/ Short > preludeSignatureSizeGuard

Inv == Typed /\ Grown /\ (outcome = "padded" \/ outcome = "padding" => Valid) /\ Settled

\* The bounds of a body's envelope are natural numbers.
LEMMA EnvelopeNat ==
    ASSUME Typed, PaddingAssumption
    PROVE  Minimum \in Nat /\ Maximum \in Nat /\ body.base \in Nat /\ preludeSignatureSizeGuard \in Nat
           /\ MaxPadding \in Nat
  BY DEF Typed, Minimum, Maximum, PaddingAssumption

\* A body that has not been looked at.
LEMMA InitInv == PaddingAssumption /\ PaddingInit => Inv
  <1> SUFFICES ASSUME PaddingAssumption, PaddingInit PROVE Inv
    OBVIOUS
  <1>1. body \in [of : Bodies, base : Nat, envelope : Nat \X Nat]
    BY DEF PaddingAssumption, PaddingInit
  <1>2. outcome = IF Valid THEN "padding" ELSE "invalid"
    <2>1. Minimum \in Nat /\ Maximum \in Nat /\ maxBootstrapRecordBodyBytes \in Nat
      BY <1>1 DEF PaddingAssumption, Minimum, Maximum
    <2> QED
      BY <2>1 DEF PaddingInit, Valid
  <1>3. attempt = 0 /\ padding = 0 /\ previous = -1 /\ length = 0
    BY DEF PaddingInit
  <1>4. Typed
    BY <1>1, <1>2, <1>3 DEF Typed, Outcomes
  <1> QED
    BY <1>2, <1>3, <1>4 DEF Inv, Grown, Settled

\* One turn of the loop.
LEMMA TurnInv ==
    ASSUME PaddingAssumption, Inv, padBootstrapBody
    PROVE  Inv'
  <1> USE DEF Inv
  <1>1. /\ Minimum \in Nat /\ Maximum \in Nat /\ body.base \in Nat /\ MaxPadding \in Nat
        /\ preludeSignatureSizeGuard \in Nat /\ Minimum <= Maximum
    BY EnvelopeNat DEF padBootstrapBody, Valid
  <1>2. body' = body /\ Minimum' = Minimum /\ Maximum' = Maximum /\ Guard' = Guard /\ Valid
        /\ Valid' = Valid
    BY DEF padBootstrapBody, Minimum, Maximum, Guard, useSignatureGuard, Valid
  <1>3. Guard \in Nat /\ Guard <= preludeSignatureSizeGuard /\ Guard <= Maximum - Minimum
    BY <1>1 DEF Guard
  <1> DEFINE size == body.base + padding
  <1>4. size \in Nat
    BY <1>1 DEF Typed
  <1>5. attempt # maxPaddingAttempts /\ size > previous
    BY <1>1, <1>3 DEF Typed, Grown, PaddingAssumption
  <1>6. attempt = 1 => size = Minimum + Guard
    BY <1>1, <1>3 DEF Grown
  <1>7. attempt = 0 => Additional(size) = (Minimum - size) + Guard /\ size = body.base
    BY <1>1 DEF Additional, Guard, Grown
  <1>8. CASE size > Maximum
    <2>1. outcome' = "large" /\ UNCHANGED <<attempt, padding, previous, length>>
      BY <1>4, <1>5, <1>8 DEF padBootstrapBody, Typed
    <2>2. attempt = 0
      BY <1>1, <1>3, <1>6, <1>8 DEF Typed
    <2> QED
      BY <1>1, <1>2, <1>7, <1>8, <2>1, <2>2 DEF Typed, Outcomes, Grown, Settled
  <1>9. CASE size >= Minimum /\ size <= Maximum
    <2>1. outcome' = "padded" /\ length' = size /\ UNCHANGED <<attempt, padding, previous>>
      BY <1>1, <1>4, <1>5, <1>9 DEF padBootstrapBody, Typed
    <2> QED
      BY <1>1, <1>2, <1>4, <1>9, <2>1 DEF Typed, Outcomes, Grown, Settled
  <1>10. CASE size < Minimum
    <2>1. attempt = 0
      BY <1>1, <1>3, <1>6, <1>10 DEF Typed
    <2>2. padding = 0 /\ previous = -1
      BY <2>1 DEF Grown
    <2>3. CASE Additional(size) > MaxPadding - padding
      <3>1. outcome' = "large" /\ UNCHANGED <<attempt, padding, previous, length>>
        BY <1>1, <1>4, <1>5, <1>10, <2>3 DEF padBootstrapBody, Typed
      <3>2. (Minimum - body.base) + preludeSignatureSizeGuard > MaxPadding
        BY <1>1, <1>3, <1>7, <2>1, <2>2, <2>3
      <3> QED
        BY <1>2, <3>1, <3>2 DEF Typed, Outcomes, Grown, Settled
    <2>4. CASE ~ (Additional(size) > MaxPadding - padding)
      <3>1. /\ attempt' = 1 /\ padding' = (Minimum - body.base) + Guard
            /\ previous' = body.base /\ outcome' = "padding" /\ length' = length
        BY <1>1, <1>3, <1>4, <1>5, <1>7, <1>10, <2>1, <2>2, <2>4 DEF padBootstrapBody, Typed
      <3>2. padding' \in Nat
        BY <1>1, <1>3, <1>7, <1>10, <2>1, <3>1
      <3> QED
        BY <1>1, <1>2, <1>7, <1>10, <2>1, <3>1, <3>2 DEF Typed, Outcomes, Grown, Settled
    <2> QED
      BY <2>3, <2>4
  <1> QED
    BY <1>1, <1>4, <1>8, <1>9, <1>10

\* The signatures are put in place of their bounds.
LEMMA SignInv ==
    ASSUME PaddingAssumption, Inv, SignPrelude1
    PROVE  Inv'
  <1> USE DEF Inv
  <1>1. /\ Minimum \in Nat /\ Maximum \in Nat /\ body.base \in Nat
        /\ preludeSignatureSizeGuard \in Nat
    BY EnvelopeNat
  <1>2. body' = body /\ Minimum' = Minimum /\ Maximum' = Maximum /\ Guard' = Guard /\ Valid' = Valid
    BY DEF SignPrelude1, Minimum, Maximum, Guard, useSignatureGuard, Valid
  <1>3. PICK short \in Shorter :
            /\ short <= length /\ length' = length - short
            /\ outcome' = IF length' < Minimum \/ length' > Maximum THEN "outside" ELSE "signed"
    BY DEF SignPrelude1
  <1>4. short \in Nat /\ length \in Nat /\ padding \in Nat /\ length = body.base + padding
        /\ length <= Maximum /\ length >= Minimum /\ useSignatureGuard /\ outcome = "padded"
    BY DEF PaddingAssumption, Typed, Settled, SignPrelude1
  <1>5. UNCHANGED <<attempt, padding, previous>>
    BY DEF SignPrelude1
  <1>6. Typed' /\ Grown'
    BY <1>2, <1>3, <1>4, <1>5 DEF Typed, Outcomes, Grown
  <1>7. Short' = short
    BY <1>1, <1>2, <1>3, <1>4, <1>5 DEF Short
  <1>8. outcome' = "outside" =>
            \/ padding = 0
            \/ Maximum - Minimum < preludeSignatureSizeGuard
            \/ short > preludeSignatureSizeGuard
    <2> SUFFICES ASSUME outcome' = "outside", padding # 0,
                        Maximum - Minimum >= preludeSignatureSizeGuard
                 PROVE  short > preludeSignatureSizeGuard
      BY <1>1, <1>4
    <2>1. attempt = 1
      BY DEF Typed, Grown
    <2>2. Guard = preludeSignatureSizeGuard
      BY <1>1, <1>4 DEF Guard
    <2>3. length = Minimum + preludeSignatureSizeGuard
      BY <1>1, <1>4, <2>1, <2>2 DEF Grown
    <2>4. length - short < Minimum
      BY <1>1, <1>3, <1>4
    <2> QED
      BY <1>1, <1>4, <2>3, <2>4
  <1> QED
    BY <1>1, <1>2, <1>3, <1>5, <1>6, <1>7, <1>8 DEF Settled

\* Every step keeps the invariant.
LEMMA NextInv ==
    ASSUME PaddingAssumption, Inv, [PaddingNext]_vars
    PROVE  Inv'
  <1>1. CASE PaddingFails
    BY <1>1 DEF PaddingFails, Inv, Typed, Outcomes, Grown, Settled, Guard, Minimum, Maximum,
           useSignatureGuard
  <1>2. CASE UNCHANGED vars
    BY <1>2 DEF vars, Inv, Typed, Grown, Settled, Guard, Minimum, Maximum, useSignatureGuard, Valid,
           Short
  <1> QED
    BY <1>1, <1>2, TurnInv, SignInv DEF PaddingNext

\* The invariant gives the property.
LEMMA InvExact ==
    ASSUME PaddingAssumption, Inv
    PROVE  PaddingExact
  <1>1. Minimum \in Nat /\ Maximum \in Nat /\ maxBootstrapRecordBodyBytes \in Nat /\ length \in Nat
        /\ body.base \in Nat /\ preludeSignatureSizeGuard \in Nat /\ MaxPadding \in Nat
    BY EnvelopeNat DEF Inv, Typed, PaddingAssumption
  <1>2. Record => length \in Minimum .. Maximum
    BY <1>1 DEF Inv, Record, Settled
  <1>3. attempt <= 1 /\ outcome # "stuck"
    BY DEF Inv, Typed, Settled
  <1>4. outcome = "invalid" => Minimum > Maximum \/ Maximum > maxBootstrapRecordBodyBytes
    BY <1>1 DEF Inv, Settled, Valid
  <1> QED
    BY <1>2, <1>3, <1>4 DEF Inv, Settled, PaddingExact

\* For every template: a bootstrap record that is sent lies in its envelope, the loop
\* ends in its second turn, nothing that can be padded is refused, and the guard covers
\* every signature that is shorter than its bound by no more than the guard
\* (padBootstrapBody and signAndPadRelayPrelude1).
THEOREM PaddedExactly == PaddingAssumption => (PaddingSpec => []PaddingExact)
  <1> SUFFICES ASSUME PaddingAssumption PROVE PaddingSpec => []PaddingExact
    OBVIOUS
  <1>1. PaddingInit => Inv
    BY InitInv
  <1>2. Inv /\ [PaddingNext]_vars => Inv'
    BY NextInv
  <1>3. Inv => PaddingExact
    BY InvExact
  <1> QED
    BY <1>1, <1>2, <1>3, PTL DEF PaddingSpec
=============================================================================
