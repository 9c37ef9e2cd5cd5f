---------------------------- MODULE FakeIPProofs ----------------------------
(***************************************************************************)
(* An address of the fake network leads to the name it was given for, for  *)
(* every size of the network, every hash and any number of names.          *)
(*                                                                         *)
(* The invariant is that byName and byIP are inverse to each other, and    *)
(* that byIP tells all that was handed out.  It rests on NextIsFree: the   *)
(* probing, which goes once around the network, ends at a free address     *)
(* while there is one.                                                     *)
(***************************************************************************)
EXTENDS FakeIP, FiniteSetTheorems, WellFoundedInduction, TLAPS

\* A set of natural numbers has a least one.
LEMMA Least ==
    ASSUME NEW T, T \subseteq Nat, T # {}
    PROVE  \E x \in T : \A y \in T : x <= y
  <1> DEFINE R == OpToRel(<, Nat)
  <1>1. IsWellFoundedOn(R, Nat)
    BY NatLessThanWellFounded
  <1>2. \A x, y \in Nat : y < x => <<y, x>> \in R
    BY DEF OpToRel
  <1> HIDE DEF R
  <1>3. PICK x \in T : \A y \in T : ~ (<<y, x>> \in R)
    BY <1>1, WFMin
  <1>4. \A y \in T : ~ (y < x)
    BY <1>2, <1>3
  <1>5. \A y \in T : x <= y
    BY <1>4, SMT
  <1> QED
    BY <1>5

\* A multiple of the modulus more leaves the remainder as it is.
LEMMA Remainder ==
    ASSUME NEW U \in Nat \ {0}, NEW q \in Int, NEW r \in 0 .. (U - 1), NEW a \in Nat, a = U * q + r
    PROVE  a % U = r
  <1> DEFINE p == a \div U
             s == a % U
  <1>1. p \in Int /\ s \in 0 .. (U - 1) /\ a = U * p + s
    OBVIOUS
  <1> HIDE DEF p, s
  <1>2. U * q \in Int /\ U * p \in Int
    BY <1>1
  <1>3. CASE p >= q + 1
    <2>1. U * p >= U * (q + 1)
      BY <1>1, <1>3
    <2>2. U * (q + 1) = U * q + U
      BY <1>1
    <2> QED
      BY <1>1, <1>2, <2>1, <2>2
  <1>4. CASE p <= q - 1
    <2>1. U * q >= U * (p + 1)
      BY <1>1, <1>4
    <2>2. U * (p + 1) = U * p + U
      BY <1>1
    <2> QED
      BY <1>1, <1>2, <2>1, <2>2
  <1>5. CASE p = q
    BY <1>1, <1>2, <1>5 DEF s
  <1> QED
    BY <1>1, <1>3, <1>4, <1>5

\* The probing for a name meets every address (FakeIPAllocator.nextAvailableIP).
LEMMA ProbeCovers ==
    ASSUME Usable \in Nat \ {0}, NEW name, Hash[name] \in Nat, NEW ip \in Addresses
    PROVE  \E n \in 0 .. (Usable - 1) : Probe(name, n) = ip
  <1> DEFINE q == Hash[name] \div Usable
             h == Hash[name] % Usable
  <1>1. q \in Int /\ h \in 0 .. (Usable - 1) /\ Hash[name] = Usable * q + h
    OBVIOUS
  <1>2. ip \in Int /\ ip - 1 \in 0 .. (Usable - 1)
    BY DEF Addresses
  <1> HIDE DEF q, h
  <1>3. Usable * q \in Int
    BY <1>1
  <1>4. CASE ip - 1 >= h
    <2> DEFINE n == ip - 1 - h
    <2>1. n \in 0 .. (Usable - 1) /\ Hash[name] + n \in Nat /\ Hash[name] + n = Usable * q + (ip - 1)
      BY <1>1, <1>2, <1>3, <1>4
    <2> HIDE DEF n
    <2>2. (Hash[name] + n) % Usable = ip - 1
      BY <1>1, <1>2, <2>1, Remainder
    <2>3. Probe(name, n) = ip
      BY <1>2, <2>2 DEF Probe
    <2> QED
      BY <2>1, <2>3
  <1>5. CASE ip - 1 < h
    <2> DEFINE n == ip - 1 - h + Usable
               next == q + 1
    <2>1. Usable * next = Usable * q + Usable /\ next \in Int
      BY <1>1
    <2> HIDE DEF next
    <2>2. n \in 0 .. (Usable - 1) /\ Hash[name] + n \in Nat
          /\ Hash[name] + n = Usable * next + (ip - 1)
      BY <1>1, <1>2, <1>3, <1>5, <2>1
    <2> HIDE DEF n
    <2> DEFINE a == Hash[name] + n
               r == ip - 1
    <2>3. a % Usable = r
      <3>1. a \in Nat /\ r \in 0 .. (Usable - 1) /\ a = Usable * next + r
        BY <1>2, <2>2
      <3> HIDE DEF a, r
      <3> QED
        BY <2>1, <3>1, Remainder
    <2>4. Probe(name, n) = ip
      BY <1>2, <2>3 DEF Probe
    <2> QED
      BY <2>2, <2>4
  <1> QED
    BY <1>1, <1>2, <1>4, <1>5

\* While an address is free, the probing ends at a free one.
LEMMA NextIsFree ==
    ASSUME Usable \in Nat \ {0}, NEW name, Hash[name] \in Nat, ~ Exhausted
    PROVE  nextAvailableIP(name) \in Addresses \ DOMAIN byIP
  <1> DEFINE T == {n \in 0 .. (Usable - 1) : Probe(name, n) \notin DOMAIN byIP}
  <1>1. PICK ip \in Addresses : ip \notin DOMAIN byIP
    BY DEF Exhausted
  <1>2. T # {} /\ T \subseteq Nat
    BY <1>1, ProbeCovers
  <1>3. PICK least \in T : \A n \in T : least <= n
    BY <1>2, Least
  <1>4. /\ least \in 0 .. (Usable - 1) /\ Probe(name, least) \notin DOMAIN byIP
        /\ \A m \in 0 .. (least - 1) : Probe(name, m) \in DOMAIN byIP
    BY <1>3
  <1> DEFINE Ends(n) == /\ Probe(name, n) \notin DOMAIN byIP
                        /\ \A m \in 0 .. (n - 1) : Probe(name, m) \in DOMAIN byIP
             end == CHOOSE n \in 0 .. (Usable - 1) : Ends(n)
  <1>5. end \in 0 .. (Usable - 1) /\ Ends(end)
    BY <1>4
  <1>6. nextAvailableIP(name) = Probe(name, end)
    BY DEF nextAvailableIP
  <1>7. \A n \in 0 .. (Usable - 1) : Probe(name, n) \in Addresses
    BY DEF Probe, Addresses
  <1> QED
    BY <1>5, <1>6, <1>7

\* The target of a flow is an answer that is an address.
LEMMA TargetParses ==
    ASSUME NEW answers, DOMAIN answers \subseteq Nat, Parsing(answers) # {}
    PROVE  firstIPTarget(answers) # ""
  <1>1. Parsing(answers) \subseteq Nat
    BY DEF Parsing
  <1>2. \E i \in Parsing(answers) : \A j \in Parsing(answers) : i <= j
    BY <1>1, Least
  <1> DEFINE first == CHOOSE i \in Parsing(answers) : \A j \in Parsing(answers) : i <= j
  <1>3. first \in Parsing(answers)
    BY <1>2
  <1> QED
    BY <1>3 DEF firstIPTarget, Parsing
-----------------------------------------------------------------------------
\* byName and byIP are inverse to each other.
MapsInverse ==
    /\ DOMAIN byIP \subseteq Addresses
    /\ \A name \in DOMAIN byName :
           byName[name] \in DOMAIN byIP /\ byIP[byName[name]].name = name
    /\ \A ip \in DOMAIN byIP :
           byIP[ip].name \in DOMAIN byName /\ byName[byIP[ip].name] = ip

\* What was handed out is what byIP holds.
Given ==
    handed = [ip \in Addresses |-> IF ip \in DOMAIN byIP THEN {byIP[ip].name} ELSE {}]

\* Every kept list of answers has an address.
Parsed ==
    \A ip \in DOMAIN byIP : byIP[ip].answers \in AnswerLists /\ Parsing(byIP[ip].answers) # {}

OpenedRight ==
    opened # NoFlow => /\ opened.ip \in DOMAIN byIP
                       /\ opened.name = byIP[opened.ip].name
                       /\ opened.target # ""

Inv == MapsInverse /\ Given /\ Parsed /\ OpenedRight

\* Nothing was asked yet.
LEMMA InitInv == FakeInit => Inv
  BY DEF FakeInit, Inv, MapsInverse, Given, Parsed, OpenedRight

\* An answer to a query.
LEMMA ResolveInv ==
    ASSUME FakeAssumption, Inv, NEW s \in Spellings, NEW answers \in AnswerLists,
           ResolveFakeA(s, answers)
    PROVE  Inv'
  <1> DEFINE name == Canonical[s]
             known == name \in DOMAIN byName
             ip == IF known THEN byName[name] ELSE nextAvailableIP(name)
             record == [name |-> name, answers |-> answers]
  <1>1. /\ Parsing(answers) # {} /\ (known \/ ~ Exhausted)
        /\ byName' = Set(byName, name, ip) /\ byIP' = Set(byIP, ip, record)
        /\ handed' = [handed EXCEPT ![ip] = @ \cup {name}]
        /\ opened' = opened
    BY DEF ResolveFakeA
  <1>2. ~ known => ip \in Addresses \ DOMAIN byIP
    BY <1>1, NextIsFree DEF FakeAssumption, ResolveFakeA
  <1>3. known => ip \in DOMAIN byIP /\ byIP[ip].name = name
    BY DEF Inv, MapsInverse
  <1>4. ip \in Addresses
    BY <1>2, <1>3 DEF Inv, MapsInverse
  <1>5. \A jp \in DOMAIN byIP : jp # ip => byIP[jp].name # name
    BY <1>2, <1>3 DEF Inv, MapsInverse
  <1>6. record.name = name /\ record.answers = answers
    OBVIOUS
  <1> HIDE DEF name, known, ip, record
  <1>7. /\ DOMAIN byName' = DOMAIN byName \cup {name} /\ byName'[name] = ip
        /\ \A n \in DOMAIN byName : n # name => byName'[n] = byName[n]
    BY <1>1 DEF Set
  <1>8. /\ DOMAIN byIP' = DOMAIN byIP \cup {ip} /\ byIP'[ip] = record
        /\ \A jp \in DOMAIN byIP : jp # ip => byIP'[jp] = byIP[jp]
    BY <1>1 DEF Set
  <1>9. \A n \in DOMAIN byName : n # name => byName[n] # ip
    BY <1>2, <1>3 DEF Inv, MapsInverse, known
  <1>10. MapsInverse'
    BY <1>4, <1>5, <1>6, <1>7, <1>8, <1>9 DEF Inv, MapsInverse, Addresses
  <1>11. Given'
    <2>1. handed[ip] \subseteq {name}
      BY <1>2, <1>3, <1>4 DEF Inv, Given
    <2>2. handed' = [jp \in Addresses |-> IF jp = ip THEN {name} ELSE handed[jp]]
      BY <1>1, <1>4, <2>1 DEF Inv, Given
    <2> QED
      BY <1>6, <1>8, <2>2 DEF Inv, Given, Addresses
  <1>12. Parsed'
    BY <1>1, <1>6, <1>8 DEF Inv, Parsed
  <1>13. OpenedRight'
    BY <1>1, <1>2, <1>3, <1>6, <1>8 DEF Inv, OpenedRight
  <1> QED
    BY <1>10, <1>11, <1>12, <1>13 DEF Inv

\* A flow to an address that was handed out.
LEMMA OpenInv ==
    ASSUME FakeAssumption, Inv, NEW ip \in Addresses, OpenMappedFakeIPFlow(ip)
    PROVE  Inv'
  <1>1. firstIPTarget(byIP[ip].answers) # ""
    BY TargetParses DEF OpenMappedFakeIPFlow, FakeAssumption, Inv, Parsed
  <1>2. OpenedRight'
    BY <1>1 DEF OpenMappedFakeIPFlow, OpenedRight
  <1>3. MapsInverse' /\ Given' /\ Parsed'
    BY DEF OpenMappedFakeIPFlow, Inv, MapsInverse, Given, Parsed, Addresses
  <1> QED
    BY <1>2, <1>3 DEF Inv

\* Every step keeps the invariant.
LEMMA NextInv ==
    ASSUME FakeAssumption, Inv, [FakeNext]_fakeVars
    PROVE  Inv'
  <1>1. CASE UNCHANGED <<byName, byIP, handed, opened>>
    BY <1>1 DEF Inv, MapsInverse, Given, Parsed, OpenedRight
  <1>2. ASSUME NEW s \in Spellings, AddNegative(s) PROVE Inv'
    BY <1>1, <1>2 DEF AddNegative
  <1>3. CASE FakeTick \/ UNCHANGED fakeVars
    BY <1>1, <1>3 DEF FakeTick, fakeVars
  <1> QED
    BY <1>2, <1>3, ResolveInv, OpenInv DEF FakeNext

\* The invariant gives the property.
LEMMA InvMeans ==
    ASSUME Inv
    PROVE  AddressMeansName
  <1>1. \A ip \in Addresses : Cardinality(handed[ip]) <= 1
    <2>1. Cardinality({}) = 0
      BY FS_EmptySet
    <2>2. \A name : Cardinality({name}) = 1
      BY FS_Singleton
    <2>3. \A ip \in Addresses : handed[ip] = {} \/ \E name : handed[ip] = {name}
      BY DEF Inv, Given
    <2>4. ASSUME NEW ip \in Addresses PROVE Cardinality(handed[ip]) \in {0, 1}
      BY <2>1, <2>2, <2>3, Zenon
    <2> QED
      BY <2>4
  <1>2. \A ip, jp \in Addresses : ip # jp => handed[ip] \cap handed[jp] = {}
    BY DEF Inv, Given, MapsInverse
  <1>3. opened # NoFlow => handed[opened.ip] = {opened.name} /\ opened.target # ""
    BY DEF Inv, Given, MapsInverse, OpenedRight
  <1> QED
    BY <1>1, <1>2, <1>3 DEF AddressMeansName

\* For every network and every hash: an address given out for a name is given to no
\* other, and a flow to it is bound to that name and an address that answered for it
\* (FakeIPAllocator.Assign and mappedFakeIPTarget).
THEOREM NamesKept == FakeAssumption => (FakeSpec => []AddressMeansName)
  <1> SUFFICES ASSUME FakeAssumption PROVE FakeSpec => []AddressMeansName
    OBVIOUS
  <1>1. FakeInit => Inv
    BY InitInv
  <1>2. Inv /\ [FakeNext]_fakeVars => Inv'
    BY NextInv
  <1>3. Inv => AddressMeansName
    BY InvMeans
  <1> QED
    BY <1>1, <1>2, <1>3, PTL DEF FakeSpec
=============================================================================
