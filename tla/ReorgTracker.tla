---------------------------- MODULE ReorgTracker ----------------------------
(***************************************************************************)
(* internal/observer/reorg.go: what an execution newHeads subscription     *)
(* says about the canonical chain.  The tracker keeps the most recent      *)
(* canonical heads and classifies each new head against them.  A head is   *)
(* any record the client can parse: nothing is assumed of the numbers and  *)
(* the parent links an execution node reports.                             *)
(***************************************************************************)
EXTENDS Naturals, Sequences

CONSTANTS Hashes,        \* block hashes
          MaxNumber,     \* math.MaxUint64: the greatest block number
          HistoryLimit   \* heads the tracker keeps

ASSUME ReorgAssumption ==
    /\ MaxNumber \in Nat
    /\ HistoryLimit \in Nat
    /\ HistoryLimit >= 2

Numbers == 0..MaxNumber

Heads == [number : Numbers, hash : Hashes, parent : Hashes]

\* uint64 addition wraps; the code compares with math.MaxUint64 before it adds.
Succ(n) == (n + 1) % (MaxNumber + 1)

Tip(c) == c[Len(c)]

\* Mutant of Follows: no comparison with math.MaxUint64.
Follows_Wraps(h, p) == h.number = Succ(p.number)

\* head.Number is the successor of p.Number.
Follows(h, p) == p.number # MaxNumber /\ h.number = Succ(p.number)

\* The positions of c that hold the hash, and the last of them.
IndexesOf(c, hash) == {i \in 1..Len(c) : c[i].hash = hash}

canonicalIndex(c, hash) ==
    CHOOSE i \in IndexesOf(c, hash) : \A j \in IndexesOf(c, hash) : j <= i

trim(c) ==
    IF Len(c) <= HistoryLimit
    THEN c
    ELSE SubSeq(c, Len(c) - HistoryLimit + 1, Len(c))

\* The heads up to and with the new head's parent, for a known parent.
UpToParent(c, h) == SubSeq(c, 1, canonicalIndex(c, h.parent))

\* The early returns of Observe, in the order of the code: the first head, the
\* tip again, its child, a child of a known head (or a head that claims to be
\* one), a jump ahead, and a switch to a chain that history does not connect.
Classify(c, h) ==
    CASE c = <<>> -> "first"
      [] c # <<>> /\ h.hash = Tip(c).hash -> "repeat"
      [] c # <<>> /\ h.hash # Tip(c).hash ->
           IF Follows(h, Tip(c)) /\ h.parent = Tip(c).hash THEN "extend"
           ELSE IF IndexesOf(c, h.parent) # {}
           THEN LET p == c[canonicalIndex(c, h.parent)]
                IN  IF p.number > Tip(c).number \/ ~Follows(h, p)
                    THEN "malformed"
                    ELSE "reorg"
           ELSE IF Tip(c).number # MaxNumber /\ h.number > Succ(Tip(c).number)
                THEN "skipped"
                ELSE "unknown"

\* The canonical heads after Observe(head).
Canonical(c, h) ==
    LET k == Classify(c, h)
    IN  CASE k = "repeat" -> c
          [] k = "extend" -> trim(Append(c, h))
          [] k = "reorg"  -> trim(Append(UpToParent(c, h), h))
          [] k \in {"first", "malformed", "skipped", "unknown"} -> <<h>>

\* ReorgResult.Continuity
Continuity(c, h) == Classify(c, h) \in {"first", "repeat", "extend", "reorg"}

\* Mutant of Depth: the distance to the new head instead of to its parent.
Depth_FromHead(c, h) == Tip(c).number - h.number

\* ReorgObservation.Depth, known only for a head whose parent is known.
Depth(c, h) == Tip(c).number - c[canonicalIndex(c, h.parent)].number

-----------------------------------------------------------------------------
(* The tracker of one subscription, on its own *)

VARIABLES canonical,   \* the tracker's recent canonical heads
          report       \* the last result: its class, and the depth of a reorg

trackerVars == <<canonical, report>>

NoReport == [kind |-> "none", depth |-> 0]

TrackerInit ==
    /\ canonical = <<>>
    /\ report = NoReport

\* Observe(head): any head may follow any other.
ObserveHead(h) ==
    /\ canonical' = Canonical(canonical, h)
    /\ report' = [kind  |-> Classify(canonical, h),
                  depth |-> IF Classify(canonical, h) = "reorg"
                            THEN Depth(canonical, h)
                            ELSE 0]

TrackerNext == \E h \in Heads : ObserveHead(h)

TrackerSpec == TrackerInit /\ [][TrackerNext]_trackerVars

-----------------------------------------------------------------------------
(* Properties *)

\* The canonical heads are heads, and never more than the history limit.
TrackerTypeOK ==
    /\ canonical \in Seq(Heads)
    /\ Len(canonical) <= HistoryLimit
    /\ report.kind \in {"none", "first", "repeat", "extend", "reorg",
                        "malformed", "skipped", "unknown"}
    /\ report.depth \in Nat

\* Each head of c is the child of the one before it, by hash and by number.
IsChain(c) ==
    \A i \in 1..(Len(c) - 1) :
        c[i + 1].parent = c[i].hash /\ c[i + 1].number = c[i].number + 1

\* Whatever heads the node reports, in whatever order, the history is one chain
\* without holes: that is what lets Observe compute a depth by subtraction.
CanonicalIsChain == IsChain(canonical)

\* A known depth is the number of heads that Observe gives up, at least one and
\* fewer than the history holds; the heads below it are kept, and the new head
\* is on top of them.
KnownDepthIsExact ==
    [][report'.kind = "reorg" =>
         LET kept == Len(canonical) - report'.depth
         IN  /\ report'.depth \in 1..(HistoryLimit - 1)
             /\ kept >= 1
             /\ Len(canonical') = kept + 1
             /\ \A i \in 1..kept : canonical'[i] = canonical[i]
      ]_trackerVars
=============================================================================
