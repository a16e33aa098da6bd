---------------------------- MODULE RealizedSplit ---------------------------
(***************************************************************************)
(* Who holds how much of the network: the rules a scenario has to meet     *)
(* (internal/scenario), the validator ranges, the split of the active      *)
(* balance between the sides of the partition, and the analysis' check of  *)
(* a stored split (internal/topology).  Operators only.                    *)
(*                                                                         *)
(* A scenario is [participants, groups, tolerance]; a participant names    *)
(* its Beacon target, its three services, its range and how many           *)
(* validators it should have.  A share is in percent.                      *)
(***************************************************************************)
EXTENDS Integers, Sequences, FiniteSets, FiniteSetsExt, Functions

CONSTANTS
    MaxUint,    \* math.MaxUint64
    Mantissa,   \* bits of precision of a float64
    None

ASSUME SplitAssumption ==
    /\ MaxUint \in Nat \ {0}
    /\ Mantissa \in Nat \ {0}

\* Addition of uint64 values, where the code does not look at the sum first.
Wrap(n) == n % (MaxUint + 1)

Roles == {"execution", "beacon", "validator"}

Participants(s) == Range(s.participants)

FaultGroups(s) == Range(s.groups)

Members(g) == Range(g.members)

ParticipantWithID(s, id) == CHOOSE p \in Participants(s) : p.id = id

-----------------------------------------------------------------------------
(* Scenario.Validate *)

\* Topology.validate: four participants, and nothing that names one names another.
TopologyValid(s) ==
    /\ Len(s.participants) = 4
    /\ \A i, j \in DOMAIN s.participants :
          LET p == s.participants[i]
              q == s.participants[j]
          IN  /\ p.id = q.id \/ p.target = q.target \/ p.range = q.range => i = j
              /\ \A r, o \in Roles : p.services[r] = q.services[o] => i = j /\ r = o
    /\ \A p \in Participants(s) : p.count > 0

\* The validators configured for a group; the sum is not guarded.
RequestedWeight(s, g) ==
    Wrap(SumFunction([id \in Members(g) |-> ParticipantWithID(s, id).count]))

\* Fault.validate: two halves that hold every participant exactly once and, by the
\* configured counts, the same weight.
FaultValid(s) ==
    /\ Len(s.groups) = 2 /\ s.groups[1].name # s.groups[2].name
    /\ \A g \in FaultGroups(s) : g.share = 50 /\ g.members # <<>>
    /\ IsInjective(s.groups[1].members \o s.groups[2].members)
    /\ UNION {Members(g) : g \in FaultGroups(s)} = {p.id : p \in Participants(s)}
    /\ RequestedWeight(s, s.groups[1]) = RequestedWeight(s, s.groups[2])

ClientsOf(S) == {p.client : p \in S}

\* validateMixedGroups: every client family is on both sides.
GroupsMixed(s) ==
    /\ Cardinality(ClientsOf(Participants(s))) >= 2
    /\ \A g \in FaultGroups(s) :
          ClientsOf({p \in Participants(s) : p.id \in Members(g)}) = ClientsOf(Participants(s))

Validate(s) ==
    TopologyValid(s) /\ FaultValid(s) /\ s.tolerance = 0 /\ GroupsMixed(s)

-----------------------------------------------------------------------------
(* ParseValidatorRanges *)

Before(q, r) == q.start < r.start \/ (q.start = r.start /\ q.end < r.end)

\* sort.Slice over the entries of a YAML map, when no two have the same bounds.
Sorted(raw) ==
    [k \in 1 .. Cardinality(raw) |->
        CHOOSE r \in raw : Cardinality({q \in raw : Before(q, r)}) = k - 1]

\* Mutant of Overlap: a range may begin with the last validator of the one before.
Overlap_Touching(ranges, k) == ranges[k].start < ranges[k - 1].end

Overlap(ranges, k) == ranges[k].start <= ranges[k - 1].end

\* The sorted ranges, or no ranges at all when one of them is malformed or two
\* overlap; so do two entries of the same bounds ("0-9" and "00-9" are two keys),
\* which sorting makes neighbours.
ParseValidatorRanges(raw) ==
    LET ranges == Sorted(raw)
    IN  IF /\ \A r \in raw : r.start <= r.end /\ r.owner # None
           /\ \A q, r \in raw : q.start = r.start /\ q.end = r.end => q = r
           /\ \A k \in 2 .. Len(ranges) : ~Overlap(ranges, k)
        THEN ranges ELSE <<>>

-----------------------------------------------------------------------------
(* CalculateRealizedSplit *)

\* sort.Search: the first range that does not end before the validator.
Position(ranges, index) == Min({k \in DOMAIN ranges : ranges[k].end >= index})

HasOwner(ranges, v) ==
    /\ \E k \in DOMAIN ranges : ranges[k].end >= v.index
    /\ ranges[Position(ranges, v.index)].start <= v.index

\* The validators that are counted for a participant.
OwnedBy(p, ranges, vs) == {v \in vs : ranges[Position(ranges, v.index)].owner = p.range}

Balance(vs) == SumFunction([v \in vs |-> v.balance])

\* float64(n), for a uint64 n: rounded to the nearest multiple of the unit that the
\* mantissa leaves, halves to the even one.
Float(n) ==
    LET unit == 2 ^ (CHOOSE k \in 0 .. n : /\ n < 2 ^ (Mantissa + k)
                                           /\ k > 0 => n >= 2 ^ (Mantissa + k - 1))
        low  == n \div unit
        rest == 2 * (n % unit)
        up   == rest > unit \/ (rest = unit /\ low % 2 = 1)
    IN  (IF up THEN low + 1 ELSE low) * unit

\* The quotient of the two floats.  Its rounding gives one half for one half only.
RealizedShare(balance, total) == <<Float(balance), Float(total)>>

\* math.Abs(realizedShare - 0.5) > 0 is false.
ShareIsHalf(share) == share[2] = 2 * share[1]

\* Mutant of CountsMatch: the configured counts are not looked at.
CountsMatch_Any(s, ranges, vs) == TRUE

CountsMatch(s, ranges, vs) ==
    \A p \in Participants(s) : Cardinality(OwnedBy(p, ranges, vs)) = p.count

\* The error returns of CalculateRealizedSplit.  No partial sum exceeds the total.
Calculable(s, ranges, vs) ==
    /\ ranges # <<>> /\ vs # {}
    /\ \A r \in Range(ranges) : \E p \in Participants(s) : p.range = r.owner
    /\ \A v \in vs : HasOwner(ranges, v)
    /\ Balance(vs) \in 1 .. MaxUint
    /\ CountsMatch(s, ranges, vs)

\* The balance of a group, summed without a guard (ValidateRealizedSplit has one, but
\* sums a group only after all the balances together have fitted).
GroupBalance(weights, g) ==
    Wrap(SumFunction([id \in Members(g) |-> weights[id].balance]))

CalculateRealizedSplit(s, ranges, vs) ==
    LET weights == [id \in {p.id : p \in Participants(s)} |->
                      LET own == OwnedBy(ParticipantWithID(s, id), ranges, vs)
                      IN  [count |-> Cardinality(own), balance |-> Balance(own)]]
        total   == Balance(vs)
        groups  == [g \in FaultGroups(s) |->
                      [balance |-> GroupBalance(weights, g),
                       share   |-> RealizedShare(GroupBalance(weights, g), total)]]
    IN  [total |-> total, participants |-> weights, groups |-> groups,
         within |-> \A g \in FaultGroups(s) : ShareIsHalf(groups[g].share)]

-----------------------------------------------------------------------------
(* ValidateRealizedSplit, of the analysis *)

\* The stored split has the participants, the counts and the groups of the scenario,
\* and every aggregate in it is the one that its balances give.
ValidateRealizedSplit(s, split) ==
    LET ids == {p.id : p \in Participants(s)}
        sum == SumFunction([id \in ids |-> split.participants[id].balance])
    IN  /\ split.total > 0
        /\ DOMAIN split.participants = ids
        /\ \A id \in ids : /\ split.participants[id].count = ParticipantWithID(s, id).count
                           /\ split.participants[id].balance > 0
        /\ sum <= MaxUint /\ sum = split.total
        /\ DOMAIN split.groups = FaultGroups(s)
        /\ \A g \in FaultGroups(s) :
              LET balance == GroupBalance(split.participants, g)
              IN  /\ split.groups[g].balance = balance
                  /\ split.groups[g].share = RealizedShare(balance, sum)
        /\ split.within <=> \A g \in FaultGroups(s) :
              ShareIsHalf(RealizedShare(split.groups[g].balance, sum))
=============================================================================
