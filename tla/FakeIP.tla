-------------------------------- MODULE FakeIP --------------------------------
(***************************************************************************)
(* flow.DNSForwarder and flow.FakeIPAllocator: local answers to name       *)
(* queries.  A name gets an address of the fake network by probing from    *)
(* its hash; opening a flow to that address restores a target from the     *)
(* answers last seen for the name.  Names come in spellings (letter case,  *)
(* surrounding blanks, a trailing dot) that canonicalDomain makes one.     *)
(***************************************************************************)
EXTENDS Naturals, Sequences, FiniteSets

CONSTANTS
    Spellings,     \* what a query may say
    Canonical,     \* canonicalDomain, "" for a name that comes to nothing
    Hash,          \* where the probing for a name starts
    Usable,        \* the number of usable addresses of the fake network
    AnswerLists,   \* sequences of answers; an answer is an address, or "" that parses as none
    NegativeTTL, MaxSeconds

FakeAssumption ==
    /\ Usable \in Nat \ {0}
    /\ \A s \in Spellings : Canonical[s] # "" => Hash[Canonical[s]] \in Nat
    /\ \A answers \in AnswerLists : DOMAIN answers \subseteq Nat

VARIABLES
    byName,        \* name -> address
    byIP,          \* address -> the name and its answers
    negative,      \* name -> the second until which it is known not to exist
    seconds,
    handed,        \* the answers given out: address -> the names it was given for
    opened         \* the last flow opened from a fake address

fakeVars == <<byName, byIP, negative, seconds, handed, opened>>

NoFlow == [ip |-> 0, name |-> "", target |-> ""]
Addresses == 1..Usable

Set(f, x, v) == [y \in DOMAIN f \cup {x} |-> IF y = x THEN v ELSE f[y]]
-----------------------------------------------------------------------------
(* The first answer that is an address. *)
Parsing(answers) == {i \in DOMAIN answers : answers[i] # ""}
firstIPTarget(answers) == answers[CHOOSE i \in Parsing(answers) : \A j \in Parsing(answers) : i <= j]

Probe(name, n) == 1 + ((Hash[name] + n) % Usable)

Exhausted == \A ip \in Addresses : ip \in DOMAIN byIP

nextAvailableIP(name) ==
    LET n == CHOOSE n \in 0..(Usable - 1) :
                 /\ Probe(name, n) \notin DOMAIN byIP
                 /\ \A m \in 0..(n - 1) : Probe(name, m) \in DOMAIN byIP
    IN  Probe(name, n)

IsNegative(name) == name \in DOMAIN negative /\ seconds <= negative[name]

FakeInit ==
    /\ byName = <<>> /\ byIP = <<>> /\ negative = <<>>
    /\ seconds = 0
    /\ handed = [ip \in Addresses |-> {}]
    /\ opened = NoFlow

AddNegative(spelling) ==
    LET name == Canonical[spelling]
    IN  /\ name # "" /\ NegativeTTL > 0
        /\ negative' = Set(negative, name, seconds + NegativeTTL)
        /\ UNCHANGED <<byName, byIP, seconds, handed, opened>>

(* The name looked up as it was spelled: for comparison with ResolveFakeA. *)
ResolveSpelling(spelling, answers) ==
    /\ Canonical[spelling] # "" /\ Parsing(answers) # {}
    /\ spelling \in DOMAIN byName \/ ~Exhausted
    /\ LET ip == IF spelling \in DOMAIN byName THEN byName[spelling] ELSE nextAvailableIP(Canonical[spelling])
       IN  /\ byName' = Set(byName, spelling, ip)
           /\ byIP' = Set(byIP, ip, [name |-> Canonical[spelling], answers |-> answers])
           /\ handed' = [handed EXCEPT ![ip] = @ \cup {Canonical[spelling]}]
    /\ UNCHANGED <<negative, seconds, opened>>

(* An answer is made: the name keeps the address it has, with the answers of now.  A
   name known not to exist, or a network without a free address, gets none. *)
ResolveFakeA(spelling, answers) ==
    LET name == Canonical[spelling]
    IN  /\ name # "" /\ Parsing(answers) # {} /\ ~IsNegative(name)
        /\ name \in DOMAIN byName \/ ~Exhausted
        /\ LET ip == IF name \in DOMAIN byName THEN byName[name] ELSE nextAvailableIP(name)
           IN  /\ byName' = Set(byName, name, ip)
               /\ byIP' = Set(byIP, ip, [name |-> name, answers |-> answers])
               /\ handed' = [handed EXCEPT ![ip] = @ \cup {name}]
        /\ negative' = [n \in DOMAIN negative \ {name} |-> negative[n]]
        /\ UNCHANGED <<seconds, opened>>

(* A flow to an address that was given out. *)
OpenMappedFakeIPFlow(ip) ==
    /\ ip \in DOMAIN byIP
    /\ opened' = [ip |-> ip, name |-> byIP[ip].name, target |-> firstIPTarget(byIP[ip].answers)]
    /\ UNCHANGED <<byName, byIP, negative, seconds, handed>>

FakeTick ==
    /\ seconds < MaxSeconds
    /\ seconds' = seconds + 1
    /\ UNCHANGED <<byName, byIP, negative, handed, opened>>

FakeNext ==
    \/ \E s \in Spellings : AddNegative(s) \/ \E answers \in AnswerLists : ResolveFakeA(s, answers)
    \/ \E ip \in Addresses : OpenMappedFakeIPFlow(ip)
    \/ FakeTick

FakeSpec == FakeInit /\ [][FakeNext]_fakeVars
-----------------------------------------------------------------------------
(* An address given out for a name leads to that name for ever: no address is given
   to two names, and a flow to it is bound to the name it was given for, however the
   probing collided on the way (FakeIPAllocator.Assign, mappedFakeIPTarget). *)
AddressMeansName ==
    /\ \A ip \in Addresses : Cardinality(handed[ip]) <= 1
    /\ \A ip, jp \in Addresses : ip # jp => handed[ip] \cap handed[jp] = {}
    /\ opened # NoFlow => handed[opened.ip] = {opened.name} /\ opened.target # ""
=============================================================================
