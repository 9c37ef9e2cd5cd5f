-------------------------- MODULE FragmentReassembly --------------------------
(***************************************************************************)
(* How client.PacketAdapter puts IP fragments together, for IPv4 and IPv6. *)
(* Lengths are in units of eight bytes; the shortest header is one unit.   *)
(* A fragment has the key of its packet (addresses, id and, for IPv4, the  *)
(* protocol), its place, whether more follow, and the header in front of   *)
(* it, of which IPv4 keeps the one at offset 0 and IPv6 compares all.      *)
(* Fragments come in any order, any number of times, or not at all, and    *)
(* those of two packets may share a key.                                   *)
(***************************************************************************)
EXTENDS Naturals, FiniteSets

CONSTANTS
    Keys, Headers,      \* the headers, as their lengths
    MaxUnits,           \* the longest packet a sender cuts up
    maximumPacket, maximumFlows, maximumFragmentSets, maximumFragments,
    Lifetime, MaxClock

VARIABLES
    version,
    sets,       \* the sets in progress, by key
    made,       \* the packet the last fragment completed, if it did
    clock

fragmentVars == <<version, sets, made, clock>>

MinimumHeader == 1
Nothing == [header |-> 0, segments |-> {}]
-----------------------------------------------------------------------------
(* What the parser lets through: a fragment is not a whole packet, is not empty,
   and ends where a packet may end. *)
Fragments ==
    {f \in [key : Keys, offset : 0..(MaxUnits - 1), length : 1..MaxUnits, more : BOOLEAN, header : Headers] :
        /\ f.more \/ f.offset # 0
        /\ f.offset + f.length <= MaxUnits
        /\ f.offset + f.length <= maximumPacket - MinimumHeader}

End(f) == f.offset + f.length

Sum(segments) ==
    LET units == {u \in 0..(MaxUnits - 1) : \E s \in segments : s.offset <= u /\ u < End(s)}
    IN  Cardinality(units)

Overlaps(f, g) == f.offset < End(g) /\ g.offset < End(f)

(* total is the length the final fragment gave, 0 until it came. *)
NewSet(f) == [header |-> IF version = 6 THEN f.header ELSE 0, total |-> 0, segments |-> {},
              until |-> clock + Lifetime]

HeaderAfter(set, f) == IF version = 4 /\ f.offset = 0 THEN f.header ELSE set.header
TotalAfter(set, f) == IF f.more THEN set.total ELSE End(f)

(* Two headers of IPv6 fragments that disagree. *)
SameHeader(set, f) == version = 6 => set.header = f.header

(* Sets compared without the overlap test: for comparison with Joins. *)
JoinsOverlapping(set, f) ==
    /\ SameHeader(set, f)
    /\ set.total > 0 => End(f) <= set.total
    /\ ~f.more => /\ set.total > 0 => set.total = End(f)
                  /\ \A s \in set.segments : End(s) <= End(f)

(* The set a fragment belongs to survives it; otherwise the set is discarded. *)
Joins(set, f) ==
    LET header == HeaderAfter(set, f)
        total  == TotalAfter(set, f)
    IN  /\ SameHeader(set, f)
        /\ set.total > 0 => End(f) <= set.total
        /\ ~f.more => /\ set.total > 0 => set.total = End(f)
                      /\ \A s \in set.segments : End(s) <= End(f)
        /\ Cardinality(set.segments) < maximumFragments
        /\ Sum(set.segments) + f.length <= maximumPacket - MinimumHeader
        /\ \A s \in set.segments : ~Overlaps(f, s)
        /\ header > 0 /\ total > 0 => header + total <= maximumPacket

Joined(set, f) ==
    [set EXCEPT !.header = HeaderAfter(set, f), !.total = TotalAfter(set, f), !.segments = @ \cup {f}]

(* The walk over the sorted segments: each begins where the one before it ended. *)
Contiguous(segments) ==
    \A s \in segments : s.offset = 0 \/ \E t \in segments : End(t) = s.offset

Complete(set) ==
    /\ set.header > 0 /\ set.total > 0
    /\ Contiguous(set.segments)
    /\ Sum(set.segments) = set.total
    /\ set.header + set.total <= maximumPacket

FragmentSetLimit == IF maximumFlows > maximumFragmentSets THEN maximumFragmentSets ELSE maximumFlows

Live(all) == [k \in {k \in DOMAIN all : clock < all[k].until} |-> all[k]]

Put(all, k, set) == [l \in DOMAIN all \cup {k} |-> IF l = k THEN set ELSE all[l]]
Drop(all, k) == [l \in DOMAIN all \ {k} |-> all[l]]
-----------------------------------------------------------------------------
FragmentInit ==
    /\ version \in {4, 6}
    /\ sets = <<>>
    /\ made = Nothing
    /\ clock = 0

(* Ingress of a fragment: what has run out goes first.  A refused fragment takes its
   set with it; a packet that is complete leaves no set behind. *)
IngressFragment(f) ==
    LET live == Live(sets)
        set  == IF f.key \in DOMAIN live THEN live[f.key] ELSE NewSet(f)
        next == Joined(set, f)
    IN  /\ \/ /\ f.key \notin DOMAIN live /\ Cardinality(DOMAIN live) >= FragmentSetLimit
              /\ sets' = live /\ made' = Nothing
           \/ /\ f.key \in DOMAIN live \/ Cardinality(DOMAIN live) < FragmentSetLimit
              /\ \/ ~Joins(set, f) /\ sets' = Drop(live, f.key) /\ made' = Nothing
                 \/ Joins(set, f) /\ ~Complete(next) /\ sets' = Put(live, f.key, next) /\ made' = Nothing
                 \/ /\ Joins(set, f) /\ Complete(next) /\ sets' = Drop(live, f.key)
                    /\ made' = [header |-> next.header, segments |-> next.segments]
        /\ UNCHANGED <<version, clock>>

FragmentTick ==
    /\ clock < MaxClock
    /\ clock' = clock + 1
    /\ UNCHANGED <<version, sets, made>>

FragmentNext == (\E f \in Fragments : IngressFragment(f)) \/ FragmentTick

FragmentSpec == FragmentInit /\ [][FragmentNext]_fragmentVars
-----------------------------------------------------------------------------
(* A packet that is put together has every unit from its first to its last exactly
   once, ends where a final fragment ended, has the header of the fragment at its
   front and fits the device, whatever order and mixture its fragments came in. *)
Whole ==
    made # Nothing =>
        LET length == CHOOSE n \in 1..MaxUnits : \E s \in made.segments : ~s.more /\ End(s) = n
        IN  /\ \A u \in 0..(length - 1) :
                  Cardinality({s \in made.segments : s.offset <= u /\ u < End(s)}) = 1
            /\ \A s \in made.segments : /\ End(s) <= length
                                        /\ s.offset = 0 => s.header = made.header
                                        /\ version = 6 => s.header = made.header
            /\ made.header + length <= maximumPacket
=============================================================================
