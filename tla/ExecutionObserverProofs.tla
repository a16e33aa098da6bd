----------------------- MODULE ExecutionObserverProofs ----------------------
(***************************************************************************)
(* Proofs about ReorgTracker and about the loop around it, for every set   *)
(* of hashes, every block number width, every history limit, every pair of *)
(* reconnect delays and every sequence of heads: first the tracker on its  *)
(* own, then ExecutionObserver and what it leaves in the recorder.         *)
(***************************************************************************)
EXTENDS ExecutionObserver, WellFoundedInduction, SequenceTheorems, TLAPS

-----------------------------------------------------------------------------
(* Histories *)

\* A non-empty set of positions has a last one.
LEMMA LastPosition ==
    ASSUME NEW n \in Nat, NEW I, I \subseteq 1..n, I # {}
    PROVE  \E i \in I : \A j \in I : j <= i
<1> DEFINE T == {n - i : i \in I}
<1>0. \A i \in I : i \in Nat /\ i <= n /\ n - i \in Nat
  OBVIOUS
<1>1. T \subseteq Nat
  BY <1>0
<1>2. T # {}
  OBVIOUS
<1>3. PICK x \in T : \A y \in T : ~(<<y, x>> \in OpToRel(<, Nat))
  BY <1>1, <1>2, NatLessThanWellFounded, WFMin, Zenon
<1>4. \A y \in T : ~(y < x)
  BY <1>1, <1>3 DEF OpToRel
<1>5. PICK i \in I : x = n - i
  OBVIOUS
<1>6. ASSUME NEW j \in I PROVE j <= i
  <2>1. ~(n - j < x)
    BY <1>4
  <2> HIDE DEF T
  <2>2. i \in Nat /\ j \in Nat /\ ~(n - j < n - i)
    BY <2>1, <1>5, <1>0
  <2> QED
    BY <2>2
<1> QED
  BY <1>6

\* What canonicalIndex returns for a hash that is there.
LEMMA CanonicalIndex ==
    ASSUME NEW c \in Seq(Heads), NEW hash, IndexesOf(c, hash) # {}
    PROVE  /\ canonicalIndex(c, hash) \in 1..Len(c)
           /\ c[canonicalIndex(c, hash)].hash = hash
           /\ \A j \in IndexesOf(c, hash) : j <= canonicalIndex(c, hash)
<1>1. IndexesOf(c, hash) \subseteq 1..Len(c) /\ Len(c) \in Nat
  BY DEF IndexesOf
<1>2. \E i \in IndexesOf(c, hash) : \A j \in IndexesOf(c, hash) : j <= i
  BY <1>1, LastPosition
<1>3. /\ canonicalIndex(c, hash) \in IndexesOf(c, hash)
      /\ \A j \in IndexesOf(c, hash) : j <= canonicalIndex(c, hash)
  BY <1>2, Zenon DEF canonicalIndex
<1> QED
  BY <1>1, <1>3 DEF IndexesOf

\* A head that follows another has its number plus one: no wrap-around.
LEMMA FollowsIsPlusOne ==
    ASSUME NEW h \in Heads, NEW p \in Heads, Follows(h, p)
    PROVE  h.number = p.number + 1
<1>1. p.number \in Nat /\ p.number < MaxNumber /\ MaxNumber \in Nat
  BY ReorgAssumption DEF Follows, Heads, Numbers
<1>2. (p.number + 1) % (MaxNumber + 1) = p.number + 1
  BY <1>1
<1> QED
  BY <1>2 DEF Follows, Succ

\* A contiguous part of a chain is a chain.
LEMMA PartOfChain ==
    ASSUME NEW c \in Seq(Heads), IsChain(c),
           NEW m \in 1..Len(c), NEW n \in 1..Len(c), m <= n
    PROVE  /\ SubSeq(c, m, n) \in Seq(Heads)
           /\ Len(SubSeq(c, m, n)) = n - m + 1
           /\ \A i \in 1..(n - m + 1) : SubSeq(c, m, n)[i] = c[m + i - 1]
           /\ IsChain(SubSeq(c, m, n))
<1>1. SubSeq(c, m, n) \in Seq(Heads) /\ Len(SubSeq(c, m, n)) = n - m + 1
  OBVIOUS
<1>2. \A i \in 1..(n - m + 1) : SubSeq(c, m, n)[i] = c[m + i - 1]
  OBVIOUS
<1>3. ASSUME NEW i \in 1..(n - m)
      PROVE  /\ SubSeq(c, m, n)[i + 1].parent = SubSeq(c, m, n)[i].hash
             /\ SubSeq(c, m, n)[i + 1].number = SubSeq(c, m, n)[i].number + 1
  <2>1. /\ m + i - 1 \in 1..(Len(c) - 1)
        /\ i \in 1..(n - m + 1) /\ i + 1 \in 1..(n - m + 1)
        /\ m + (i + 1) - 1 = (m + i - 1) + 1
    OBVIOUS
  <2>2. SubSeq(c, m, n)[i] = c[m + i - 1]
    BY <1>2, <2>1, Zenon
  <2>3. SubSeq(c, m, n)[i + 1] = c[m + (i + 1) - 1]
    BY <1>2, <2>1, Zenon
  <2>4. /\ SubSeq(c, m, n)[i] = c[m + i - 1]
        /\ SubSeq(c, m, n)[i + 1] = c[(m + i - 1) + 1]
    BY <2>1, <2>2, <2>3, Zenon
  <2> QED
    BY <2>1, <2>4 DEF IsChain
<1>4. Len(SubSeq(c, m, n)) - 1 = n - m
  BY <1>1
<1>5. IsChain(SubSeq(c, m, n))
  BY <1>3, <1>4, Zenon DEF IsChain
<1> QED
  BY <1>1, <1>2, <1>5

\* A chain with a child of its tip on top is a chain.
LEMMA ExtendedChain ==
    ASSUME NEW c \in Seq(Heads), c # <<>>, IsChain(c), NEW h \in Heads,
           h.parent = Tip(c).hash, h.number = Tip(c).number + 1
    PROVE  /\ Append(c, h) \in Seq(Heads)
           /\ Len(Append(c, h)) = Len(c) + 1
           /\ \A i \in 1..Len(c) : Append(c, h)[i] = c[i]
           /\ IsChain(Append(c, h))
<1>1. /\ Append(c, h) \in Seq(Heads)
      /\ Len(Append(c, h)) = Len(c) + 1
      /\ \A i \in 1..Len(c) : Append(c, h)[i] = c[i]
      /\ Append(c, h)[Len(c) + 1] = h
  BY AppendProperties
<1>2. Len(c) \in Nat \ {0}
  OBVIOUS
<1>3. ASSUME NEW i \in 1..Len(c)
      PROVE  /\ Append(c, h)[i + 1].parent = Append(c, h)[i].hash
             /\ Append(c, h)[i + 1].number = Append(c, h)[i].number + 1
  <2>1. CASE i = Len(c)
    BY <2>1, <1>1, <1>2 DEF Tip
  <2>2. CASE i # Len(c)
    <3>1. i \in 1..(Len(c) - 1) /\ i + 1 \in 1..Len(c)
      BY <2>2, <1>2
    <3> QED
      BY <3>1, <1>1 DEF IsChain
  <2> QED
    BY <2>1, <2>2
<1>4. Len(Append(c, h)) - 1 = Len(c)
  BY <1>1, <1>2
<1>5. IsChain(Append(c, h))
  BY <1>3, <1>4, Zenon DEF IsChain
<1> QED
  BY <1>1, <1>5

\* The numbers of the heads are consecutive from the first one on.  IsChain says
\* it of neighbours only; the induction from there to any two heads is made once
\* and for all by carrying this along in the invariant.
Numbered(c) == \A i \in 1..Len(c) : c[i].number = c[1].number + (i - 1)

History(c) ==
    /\ c \in Seq(Heads)
    /\ Len(c) <= HistoryLimit
    /\ IsChain(c)
    /\ Numbered(c)

LEMMA PartIsNumbered ==
    ASSUME NEW c \in Seq(Heads), IsChain(c), Numbered(c),
           NEW m \in 1..Len(c), NEW n \in 1..Len(c), m <= n
    PROVE  Numbered(SubSeq(c, m, n))
<1> DEFINE s == SubSeq(c, m, n)
<1>1. Len(s) = n - m + 1 /\ \A i \in 1..(n - m + 1) : s[i] = c[m + i - 1]
  BY PartOfChain
<1>2. ASSUME NEW i \in 1..(n - m + 1) PROVE s[i].number = s[1].number + (i - 1)
  <2>1. m + i - 1 \in 1..Len(c) /\ m + 1 - 1 = m /\ 1 \in 1..(n - m + 1)
    OBVIOUS
  <2>2. c[m].number = c[1].number + (m - 1)
    BY DEF Numbered
  <2>3. c[m + i - 1].number = c[1].number + (m + i - 1 - 1)
    BY <2>1 DEF Numbered
  <2>4. s[i] = c[m + i - 1] /\ s[1] = c[m]
    BY <1>1, <2>1
  <2>5. c[1].number \in Nat
    <3>1. c[1] \in Heads
      BY ElementOfSeq
    <3> QED
      BY <3>1, ReorgAssumption DEF Heads, Numbers
  <2> QED
    BY <2>2, <2>3, <2>4, <2>5
<1> QED
  BY <1>1, <1>2, Zenon DEF Numbered

LEMMA ExtendedIsNumbered ==
    ASSUME NEW c \in Seq(Heads), c # <<>>, IsChain(c), Numbered(c), NEW h \in Heads,
           h.number = Tip(c).number + 1
    PROVE  Numbered(Append(c, h))
<1> DEFINE s == Append(c, h)
<1>1. /\ Len(s) = Len(c) + 1 /\ s[Len(c) + 1] = h
      /\ \A i \in 1..Len(c) : s[i] = c[i]
  BY AppendProperties
<1>2. Len(c) \in Nat \ {0} /\ c[1] \in Heads
  BY ElementOfSeq
<1>3. c[1].number \in Nat
  BY <1>2, ReorgAssumption DEF Heads, Numbers
<1>4. ASSUME NEW i \in 1..(Len(c) + 1) PROVE s[i].number = s[1].number + (i - 1)
  <2>1. s[1] = c[1]
    BY <1>1, <1>2
  <2>2. CASE i \in 1..Len(c)
    BY <2>1, <2>2, <1>1 DEF Numbered
  <2>3. CASE i = Len(c) + 1
    <3>1. Tip(c).number = c[1].number + (Len(c) - 1)
      BY <1>2 DEF Numbered, Tip
    <3>2. s[i].number = Tip(c).number + 1
      BY <1>1, <2>3
    <3> QED
      BY <3>1, <3>2, <2>1, <2>3, <1>2, <1>3
  <2> QED
    BY <2>2, <2>3, <1>2
<1> QED
  BY <1>1, <1>4, Zenon DEF Numbered

\* trim keeps a chain a chain and brings it within the limit.
LEMMA TrimHistory ==
    ASSUME NEW c \in Seq(Heads), c # <<>>, IsChain(c), Numbered(c)
    PROVE  History(trim(c))
<1>1. HistoryLimit \in Nat /\ HistoryLimit >= 2 /\ Len(c) \in Nat
  BY ReorgAssumption
<1>2. CASE Len(c) <= HistoryLimit
  BY <1>2 DEF trim, History
<1>3. CASE ~(Len(c) <= HistoryLimit)
  <2> DEFINE m == Len(c) - HistoryLimit + 1
  <2>1. m \in 1..Len(c) /\ Len(c) \in 1..Len(c) /\ m <= Len(c)
    BY <1>1, <1>3
  <2>2. trim(c) = SubSeq(c, m, Len(c))
    BY <1>3 DEF trim
  <2>3. Len(c) - m + 1 = HistoryLimit
    BY <1>1
  <2> HIDE DEF m
  <2>4. /\ SubSeq(c, m, Len(c)) \in Seq(Heads)
        /\ Len(SubSeq(c, m, Len(c))) = Len(c) - m + 1
        /\ IsChain(SubSeq(c, m, Len(c)))
    BY <2>1, PartOfChain
  <2>5. Numbered(SubSeq(c, m, Len(c)))
    BY <2>1, PartIsNumbered
  <2> QED
    BY <2>2, <2>3, <2>4, <2>5, <1>1 DEF History
<1> QED
  BY <1>2, <1>3

\* A single head is a history.
LEMMA SingleHead ==
    ASSUME NEW h \in Heads
    PROVE  History(<<h>>)
<1>1. <<h>> \in Seq(Heads) /\ Len(<<h>>) = 1 /\ <<h>>[1] = h
  OBVIOUS
<1>2. IsChain(<<h>>)
  BY <1>1 DEF IsChain
<1>3. h.number \in Nat
  BY ReorgAssumption DEF Heads, Numbers
<1>4. Numbered(<<h>>)
  BY <1>1, <1>3 DEF Numbered
<1> QED
  BY <1>1, <1>2, <1>4, ReorgAssumption DEF History

\* The class of a head is one of seven.
LEMMA Classes ==
    ASSUME NEW c \in Seq(Heads), NEW h \in Heads
    PROVE  Classify(c, h) \in {"first", "repeat", "extend", "reorg",
                               "malformed", "skipped", "unknown"}
<1>1. CASE c = <<>>
  BY <1>1 DEF Classify
<1>2. CASE c # <<>> /\ h.hash = Tip(c).hash
  BY <1>2 DEF Classify
<1>3. CASE c # <<>> /\ h.hash # Tip(c).hash
  BY <1>3 DEF Classify
<1> QED
  BY <1>1, <1>2, <1>3

\* What Observe knows in the two branches that keep older heads.
LEMMA ExtendFacts ==
    ASSUME NEW c \in Seq(Heads), NEW h \in Heads, Classify(c, h) = "extend"
    PROVE  c # <<>> /\ Follows(h, Tip(c)) /\ h.parent = Tip(c).hash
<1>1. c # <<>> /\ h.hash # Tip(c).hash
  BY DEF Classify
<1> QED
  BY <1>1 DEF Classify

LEMMA ReorgFacts ==
    ASSUME NEW c \in Seq(Heads), NEW h \in Heads, Classify(c, h) = "reorg"
    PROVE  /\ c # <<>>
           /\ IndexesOf(c, h.parent) # {}
           /\ Follows(h, c[canonicalIndex(c, h.parent)])
           /\ ~(Follows(h, Tip(c)) /\ h.parent = Tip(c).hash)
<1>1. c # <<>> /\ h.hash # Tip(c).hash
  BY DEF Classify
<1> QED
  BY <1>1 DEF Classify

\* A reorg keeps the heads up to the new head's parent, which is below the tip,
\* and its depth is the number of the heads above the parent.
LEMMA ReorgShape ==
    ASSUME NEW c, History(c), NEW h \in Heads, Classify(c, h) = "reorg",
           NEW k, k = canonicalIndex(c, h.parent)
    PROVE  /\ k \in 1..(Len(c) - 1)
           /\ Canonical(c, h) = Append(SubSeq(c, 1, k), h)
           /\ Depth(c, h) = Len(c) - k
           /\ History(Canonical(c, h))
<1>0. c \in Seq(Heads) /\ IsChain(c) /\ Numbered(c) /\ Len(c) <= HistoryLimit
  BY DEF History
<1>1. /\ c # <<>> /\ IndexesOf(c, h.parent) # {}
      /\ Follows(h, c[k])
      /\ ~(Follows(h, Tip(c)) /\ h.parent = Tip(c).hash)
  BY <1>0, ReorgFacts
<1>2. k \in 1..Len(c) /\ c[k].hash = h.parent /\ Len(c) \in Nat
  BY <1>0, <1>1, CanonicalIndex
<1>3. k # Len(c)
  BY <1>1, <1>2 DEF Tip
<1>4. k \in 1..(Len(c) - 1)
  BY <1>2, <1>3
<1> DEFINE s == SubSeq(c, 1, k)
<1>5. /\ s \in Seq(Heads) /\ Len(s) = k /\ IsChain(s) /\ s[k] = c[k]
      /\ Numbered(s)
  <2>1. 1 \in 1..Len(c) /\ 1 <= k /\ k - 1 + 1 = k /\ 1 + k - 1 = k /\ k \in 1..k
    BY <1>2
  <2>2. /\ s \in Seq(Heads) /\ Len(s) = k - 1 + 1 /\ IsChain(s)
        /\ \A i \in 1..(k - 1 + 1) : s[i] = c[1 + i - 1]
    BY <1>0, <1>2, <2>1, PartOfChain
  <2>3. Numbered(s)
    BY <1>0, <1>2, <2>1, PartIsNumbered
  <2> QED
    BY <2>1, <2>2, <2>3
<1>6. s # <<>> /\ Tip(s) = c[k]
  BY <1>2, <1>5 DEF Tip
<1> HIDE DEF s
<1>7. c[k] \in Heads /\ h.number = c[k].number + 1
  <2>1. c[k] \in Heads
    BY <1>0, <1>2, ElementOfSeq
  <2> QED
    BY <2>1, <1>1, FollowsIsPlusOne
<1>8. /\ Append(s, h) \in Seq(Heads) /\ Len(Append(s, h)) = k + 1
      /\ IsChain(Append(s, h)) /\ Numbered(Append(s, h))
  <2>1. h.parent = Tip(s).hash /\ h.number = Tip(s).number + 1
    BY <1>2, <1>6, <1>7
  <2>2. /\ Append(s, h) \in Seq(Heads) /\ Len(Append(s, h)) = Len(s) + 1
        /\ IsChain(Append(s, h))
    BY <2>1, <1>5, <1>6, ExtendedChain
  <2>3. Numbered(Append(s, h))
    BY <2>1, <1>5, <1>6, ExtendedIsNumbered
  <2> QED
    BY <2>2, <2>3, <1>5
<1>9. Canonical(c, h) = trim(Append(s, h))
  BY DEF Canonical, UpToParent, s
<1>10. Len(Append(s, h)) <= HistoryLimit
  BY <1>8, <1>4, <1>0, <1>2, ReorgAssumption
<1>11. Canonical(c, h) = Append(s, h)
  BY <1>9, <1>10 DEF trim
<1>12. Depth(c, h) = Len(c) - k
  <2>1. c[1] \in Heads
    BY <1>0, <1>2, ElementOfSeq
  <2>2. c[1].number \in Nat
    BY <2>1, ReorgAssumption DEF Heads, Numbers
  <2>3. /\ c[k].number = c[1].number + (k - 1)
        /\ Tip(c).number = c[1].number + (Len(c) - 1)
    <3>1. Len(c) \in 1..Len(c)
      BY <1>2
    <3> QED
      BY <1>0, <1>2, <3>1, Zenon DEF Numbered, Tip
  <2> QED
    BY <2>2, <2>3, <1>2 DEF Depth
<1> QED
  BY <1>4, <1>8, <1>10, <1>11, <1>12 DEF History, s

\* Observe turns a history into a history.
LEMMA ObservePreservesHistory ==
    ASSUME NEW c, History(c), NEW h \in Heads
    PROVE  History(Canonical(c, h))
<1>0. c \in Seq(Heads) /\ IsChain(c) /\ Numbered(c)
  BY DEF History
<1>1. CASE Classify(c, h) = "repeat"
  BY <1>1 DEF Canonical
<1>2. CASE Classify(c, h) \in {"first", "malformed", "skipped", "unknown"}
  BY <1>2, SingleHead DEF Canonical
<1>3. CASE Classify(c, h) = "extend"
  <2>1. c # <<>> /\ Follows(h, Tip(c)) /\ h.parent = Tip(c).hash
    BY <1>0, <1>3, ExtendFacts
  <2>2. Tip(c) \in Heads
    BY <2>1, <1>0 DEF Tip
  <2>3. h.number = Tip(c).number + 1
    BY <2>1, <2>2, FollowsIsPlusOne
  <2>4. Append(c, h) \in Seq(Heads) /\ Append(c, h) # <<>> /\ IsChain(Append(c, h))
    <3>1. /\ Append(c, h) \in Seq(Heads) /\ IsChain(Append(c, h))
      BY <1>0, <2>1, <2>3, ExtendedChain
    <3>2. Append(c, h) # <<>>
      BY <1>0, AppendProperties
    <3> QED
      BY <3>1, <3>2
  <2>5. Numbered(Append(c, h))
    BY <1>0, <2>1, <2>3, ExtendedIsNumbered
  <2>6. Canonical(c, h) = trim(Append(c, h))
    BY <1>3 DEF Canonical
  <2> QED
    BY <2>4, <2>5, <2>6, TrimHistory
<1>4. CASE Classify(c, h) = "reorg"
  BY <1>4, ReorgShape
<1> QED
  BY <1>0, <1>1, <1>2, <1>3, <1>4, Classes

-----------------------------------------------------------------------------
(* The tracker *)

TrackerInv == History(canonical) /\ TrackerTypeOK

LEMMA TrackerInitInv == TrackerInit => TrackerInv
<1> SUFFICES ASSUME TrackerInit PROVE TrackerInv
  OBVIOUS
<1>1. canonical = <<>> /\ report.kind = "none" /\ report.depth = 0
  BY DEF TrackerInit, NoReport
<1>2. <<>> \in Seq(Heads) /\ Len(<<>>) = 0
  OBVIOUS
<1>3. IsChain(<<>>) /\ Numbered(<<>>)
  BY <1>2 DEF IsChain, Numbered
<1> QED
  BY <1>1, <1>2, <1>3, ReorgAssumption DEF TrackerInv, History, TrackerTypeOK

LEMMA TrackerNextInv == TrackerInv /\ [TrackerNext]_trackerVars => TrackerInv'
<1> SUFFICES ASSUME TrackerInv, [TrackerNext]_trackerVars PROVE TrackerInv'
  OBVIOUS
<1>1. CASE UNCHANGED trackerVars
  BY <1>1 DEF trackerVars, TrackerInv, History, TrackerTypeOK, IsChain, Numbered
<1>2. ASSUME NEW h \in Heads, ObserveHead(h) PROVE TrackerInv'
  <2>0. History(canonical) /\ canonical \in Seq(Heads)
    BY DEF TrackerInv, History
  <2>1. canonical' = Canonical(canonical, h)
    BY <1>2 DEF ObserveHead
  <2>2. History(canonical')
    BY <2>0, <2>1, ObservePreservesHistory
  <2>3. report'.kind = Classify(canonical, h)
    BY <1>2 DEF ObserveHead
  <2>4. report'.depth \in Nat
    <3>1. CASE Classify(canonical, h) = "reorg"
      <4>1. /\ canonicalIndex(canonical, h.parent) \in 1..(Len(canonical) - 1)
            /\ Depth(canonical, h) = Len(canonical) - canonicalIndex(canonical, h.parent)
        BY <2>0, <3>1, ReorgShape
      <4>2. report'.depth = Depth(canonical, h)
        BY <1>2, <3>1 DEF ObserveHead
      <4> QED
        BY <4>1, <4>2, <2>0
    <3>2. CASE Classify(canonical, h) # "reorg"
      BY <1>2, <3>2 DEF ObserveHead
    <3> QED
      BY <3>1, <3>2
  <2>5. report'.kind \in {"none", "first", "repeat", "extend", "reorg",
                          "malformed", "skipped", "unknown"}
    BY <2>0, <2>3, Classes
  <2> QED
    BY <2>2, <2>4, <2>5 DEF TrackerInv, TrackerTypeOK, History
<1> QED
  BY <1>1, <1>2 DEF TrackerNext

LEMMA TrackerInvariant == TrackerSpec => []TrackerInv
BY TrackerInitInv, TrackerNextInv, PTL DEF TrackerSpec

\* The tracker's type invariant, with the bound on its memory.
THEOREM TrackerTypeCorrect == TrackerSpec => []TrackerTypeOK
<1>1. TrackerInv => TrackerTypeOK
  BY DEF TrackerInv
<1> QED
  BY <1>1, TrackerInvariant, PTL

\* Whatever an execution node reports, the tracker's history is a single chain
\* of parents and children.
THEOREM HistoryIsChain == TrackerSpec => []CanonicalIsChain
<1>1. TrackerInv => CanonicalIsChain
  BY DEF TrackerInv, History, CanonicalIsChain
<1> QED
  BY <1>1, TrackerInvariant, PTL

\* A reported reorg depth is the exact number of heads given up.
THEOREM DepthIsExact == TrackerSpec => KnownDepthIsExact
<1> DEFINE A == report'.kind = "reorg" =>
                  LET kept == Len(canonical) - report'.depth
                  IN  /\ report'.depth \in 1..(HistoryLimit - 1)
                      /\ kept >= 1
                      /\ Len(canonical') = kept + 1
                      /\ \A i \in 1..kept : canonical'[i] = canonical[i]
<1>1. TrackerInv /\ [TrackerNext]_trackerVars => [A]_trackerVars
  <2> SUFFICES ASSUME TrackerInv, NEW h \in Heads, ObserveHead(h),
                      report'.kind = "reorg"
               PROVE  A
    BY DEF TrackerNext
  <2>0. History(canonical) /\ canonical \in Seq(Heads) /\ Len(canonical) <= HistoryLimit
    BY DEF TrackerInv, History
  <2>1. Classify(canonical, h) = "reorg"
    BY DEF ObserveHead
  <2> DEFINE k == canonicalIndex(canonical, h.parent)
  <2>2. /\ k \in 1..(Len(canonical) - 1)
        /\ canonical' = Append(SubSeq(canonical, 1, k), h)
        /\ report'.depth = Len(canonical) - k
    BY <2>0, <2>1, ReorgShape DEF ObserveHead
  <2> HIDE DEF k
  <2>3. Len(canonical) \in Nat /\ HistoryLimit \in Nat
    BY <2>0, ReorgAssumption
  <2>4. /\ SubSeq(canonical, 1, k) \in Seq(Heads)
        /\ Len(SubSeq(canonical, 1, k)) = k
        /\ \A i \in 1..k : SubSeq(canonical, 1, k)[i] = canonical[i]
    BY <2>0, <2>2, <2>3
  <2>5. /\ Len(canonical') = k + 1
        /\ \A i \in 1..k : canonical'[i] = canonical[i]
    BY <2>2, <2>4, AppendProperties
  <2>6. Len(canonical) - report'.depth = k
    BY <2>2, <2>3
  <2>7. report'.depth \in 1..(HistoryLimit - 1) /\ k >= 1
    BY <2>0, <2>2, <2>3
  <2> QED
    BY <2>5, <2>6, <2>7
<1> QED
  BY <1>1, TrackerInvariant, PTL DEF TrackerSpec, KnownDepthIsExact

-----------------------------------------------------------------------------
(* The loop and its log *)

Events ==
    [type : {"head"}, head : NodeHeads, continuity : BOOLEAN]
      \cup [type : {"gap"}, operation : {"execution_continuity", "execution_subscription"}]
      \cup [type : {"reorg"}, prev : Heads, new : Heads]

\* The classes of the heads that the log takes without a second event.
Quiet == {"first", "repeat", "extend"}

\* The second event of the other heads.
Remark(c, h) ==
    IF Classify(c, h) \in {"malformed", "skipped"}
    THEN GapEvent("execution_continuity")
    ELSE ReorgEvent(Tip(c), h)

LEMMA PairOfEvents ==
    ASSUME NEW S, NEW e \in S, NEW f \in S
    PROVE  <<e>> \o <<f>> = <<e, f>>
<1>1. <<e>> \in Seq(S) /\ <<f>> \in Seq(S) /\ <<e, f>> \in Seq(S)
  OBVIOUS
<1>2. Len(<<e>>) = 1 /\ Len(<<f>>) = 1 /\ Len(<<e, f>>) = 2
  OBVIOUS
<1>3. <<e>> \o <<f>> \in Seq(S) /\ Len(<<e>> \o <<f>>) = 2
  BY <1>1, <1>2
<1>4. (<<e>> \o <<f>>)[1] = e /\ (<<e>> \o <<f>>)[2] = f
  BY <1>1, <1>2
<1>5. \A i \in 1..2 : (<<e>> \o <<f>>)[i] = <<e, f>>[i]
  BY <1>4
<1> QED
  BY <1>1, <1>2, <1>3, <1>5, SeqEqual

\* The callback records one event or two.
LEMMA EventsShape ==
    ASSUME NEW c \in Seq(Heads), NEW h \in NodeHeads
    PROVE  /\ HeadEvent(h, Continuity(c, h)) \in Events
           /\ Classify(c, h) \in Quiet
                => EventsFor(c, h) = <<HeadEvent(h, Continuity(c, h))>>
           /\ Classify(c, h) \notin Quiet
                => /\ c # <<>>
                   /\ Remark(c, h) \in Events
                   /\ EventsFor(c, h) = <<HeadEvent(h, Continuity(c, h)), Remark(c, h)>>
<1>0. h \in Heads
  BY ExecutionAssumption
<1>1. Classify(c, h) \in {"first", "repeat", "extend", "reorg", "malformed", "skipped",
                          "unknown"}
  BY <1>0, Classes
<1>2. HeadEvent(h, Continuity(c, h)) \in Events
  <2>1. Continuity(c, h) \in BOOLEAN
    BY DEF Continuity
  <2> QED
    BY <2>1 DEF HeadEvent, Events
<1> DEFINE e == HeadEvent(h, Continuity(c, h))
<1>3. <<e>> \o <<>> = <<e>> /\ \A x \in Events : <<e>> \o <<x>> = <<e, x>>
  BY <1>2, PairOfEvents
<1>6. \A x \in Events : <<e, x>> \o <<>> = <<e, x>>
  OBVIOUS
<1> HIDE DEF e
<1>4. ASSUME Classify(c, h) \in Quiet PROVE EventsFor(c, h) = <<e>>
  BY <1>3, <1>4 DEF EventsFor, Quiet, e
<1>5. ASSUME Classify(c, h) \notin Quiet
      PROVE  /\ c # <<>>
             /\ Remark(c, h) \in Events
             /\ EventsFor(c, h) = <<e, Remark(c, h)>>
  <2>1. c # <<>>
    BY <1>5 DEF Classify, Quiet
  <2>2. Tip(c) \in Heads
    BY <2>1 DEF Tip
  <2>3. CASE Classify(c, h) \in {"malformed", "skipped"}
    <3>1. EventsFor(c, h) = (<<e>> \o <<GapEvent("execution_continuity")>>) \o <<>>
      BY <2>3 DEF EventsFor, e
    <3>2. GapEvent("execution_continuity") \in Events
      BY DEF GapEvent, Events
    <3> QED
      BY <1>3, <1>6, <2>1, <2>3, <3>1, <3>2 DEF Remark
  <2>4. CASE Classify(c, h) \in {"reorg", "unknown"}
    <3>1. EventsFor(c, h) = (<<e>> \o <<>>) \o <<ReorgEvent(Tip(c), h)>>
      BY <2>4 DEF EventsFor, e
    <3>2. ReorgEvent(Tip(c), h) \in Events
      BY <1>0, <2>2 DEF ReorgEvent, Events
    <3> QED
      BY <1>3, <2>1, <2>4, <3>1, <3>2 DEF Remark
  <2> QED
    BY <1>1, <1>5, <2>3, <2>4 DEF Quiet
<1> QED
  BY <1>2, <1>4, <1>5 DEF e

LogInv == log \in Seq(Events) /\ canonical \in Seq(Heads)

\* The log after a head: what the recorders accepted of the one or two events.
LEMMA ReceiveShape ==
    ASSUME LogInv, NEW h \in NodeHeads, ReceiveHead(h), NEW L, L = Len(log)
    PROVE  /\ log' \in Seq(Events) /\ Len(log') <= MaxEvents
           /\ L \in Nat /\ Len(log') \in {L, L + 1, L + 2}
           /\ \A i \in 1..L : log'[i] = log[i]
           /\ Len(log') = L => pc' = "ended"
           /\ Len(log') # L => log'[L + 1] = HeadEvent(h, Continuity(canonical, h))
           /\ Len(log') = L + 1
                => pc' = IF Classify(canonical, h) \in Quiet THEN "subscribed" ELSE "ended"
           /\ Len(log') = L + 2
                => /\ pc' = "subscribed"
                   /\ Classify(canonical, h) \notin Quiet
                   /\ log'[L + 2] = Remark(canonical, h)
<1> DEFINE events == EventsFor(canonical, h)
<1>1. PICK n \in 0..Len(events) :
         /\ log' = log \o SubSeq(events, 1, n)
         /\ pc' = IF n = Len(events) THEN "subscribed" ELSE "ended"
  BY DEF ReceiveHead
<1>2. Len(log) + Len(events) <= MaxEvents
  BY DEF ReceiveHead
<1>3. /\ events \in Seq(Events)
      /\ Len(events) = IF Classify(canonical, h) \in Quiet THEN 1 ELSE 2
      /\ events[1] = HeadEvent(h, Continuity(canonical, h))
      /\ Classify(canonical, h) \notin Quiet => events[2] = Remark(canonical, h)
  <2> DEFINE e == HeadEvent(h, Continuity(canonical, h))
             f == Remark(canonical, h)
  <2>0. /\ e \in Events
        /\ Classify(canonical, h) \in Quiet => events = <<e>>
        /\ Classify(canonical, h) \notin Quiet => f \in Events /\ events = <<e, f>>
    BY EventsShape DEF LogInv
  <2> HIDE DEF e, f, events
  <2>1. CASE Classify(canonical, h) \in Quiet
    <3>1. <<e>> \in Seq(Events) /\ Len(<<e>>) = 1 /\ <<e>>[1] = e
      BY <2>0
    <3> QED
      BY <2>0, <2>1, <3>1 DEF e
  <2>2. CASE Classify(canonical, h) \notin Quiet
    <3>1. f \in Events
      BY <2>0, <2>2
    <3>2. /\ <<e, f>> \in Seq(Events) /\ Len(<<e, f>>) = 2
          /\ <<e, f>>[1] = e /\ <<e, f>>[2] = f
      BY <2>0, <3>1
    <3> QED
      BY <2>0, <2>2, <3>2 DEF e, f
  <2> QED
    BY <2>1, <2>2
<1> HIDE DEF events
<1> DEFINE s == SubSeq(events, 1, n)
<1>4. s \in Seq(Events) /\ Len(s) = n /\ \A i \in 1..n : s[i] = events[i]
  BY <1>3
<1> HIDE DEF s
<1>5. log' = log \o s /\ L \in Nat /\ n \in Nat
  BY <1>1 DEF s, LogInv
<1>6. /\ log' \in Seq(Events) /\ Len(log') = L + n
      /\ \A i \in 1..L : log'[i] = log[i]
      /\ \A i \in 1..n : log'[L + i] = s[i]
  <2>1. log \in Seq(Events)
    BY DEF LogInv
  <2>2. /\ log \o s \in Seq(Events) /\ Len(log \o s) = Len(log) + Len(s)
        /\ \A i \in 1..(Len(log) + Len(s)) :
              (log \o s)[i] = IF i <= Len(log) THEN log[i] ELSE s[i - Len(log)]
    BY <1>4, <2>1, ConcatProperties
  <2>3. \A i \in 1..n : L + i \in 1..(L + n) /\ ~(L + i <= L) /\ (L + i) - L = i
    BY <1>5
  <2>4. \A i \in 1..L : i \in 1..(L + n) /\ i <= L
    BY <1>5
  <2> QED
    BY <1>4, <1>5, <2>2, <2>3, <2>4
<1>7. n \in {0, 1, 2}
  BY <1>3
<1>8. n >= 1 => log'[L + 1] = events[1]
  <2>1. n >= 1 => 1 \in 1..n
    BY <1>5
  <2> QED
    BY <1>4, <1>6, <2>1
<1>9. n >= 2 => log'[L + 2] = events[2]
  <2>1. n >= 2 => 2 \in 1..n
    BY <1>5
  <2> QED
    BY <1>4, <1>6, <2>1
<1>10. Len(log') <= MaxEvents
  BY <1>2, <1>3, <1>5, <1>6, ExecutionAssumption
<1> QED
  BY <1>1, <1>3, <1>5, <1>6, <1>7, <1>8, <1>9, <1>10

\* The tip after a head is the head, or still the tip that the head repeats.
LEMMA TipAfter ==
    ASSUME NEW c, History(c), NEW h \in Heads
    PROVE  /\ Canonical(c, h) # <<>>
           /\ Tip(Canonical(c, h)) = IF Classify(c, h) = "repeat" THEN Tip(c) ELSE h
           /\ Classify(c, h) = "repeat" => c # <<>> /\ h.hash = Tip(c).hash
<1>0. c \in Seq(Heads)
  BY DEF History
<1>1. CASE Classify(c, h) = "repeat"
  BY <1>1 DEF Canonical, Classify
<1>2. CASE Classify(c, h) \in {"first", "malformed", "skipped", "unknown"}
  <2>1. Canonical(c, h) = <<h>>
    BY <1>2 DEF Canonical
  <2>2. <<h>> # <<>> /\ Len(<<h>>) = 1 /\ <<h>>[1] = h
    OBVIOUS
  <2> QED
    BY <1>2, <2>1, <2>2 DEF Tip
<1>3. CASE Classify(c, h) = "extend"
  <2> DEFINE s == Append(c, h)
  <2>1. s \in Seq(Heads) /\ Len(s) = Len(c) + 1 /\ s[Len(s)] = h /\ Len(c) \in Nat
    BY <1>0, AppendProperties
  <2>2. Canonical(c, h) = trim(s)
    BY <1>3 DEF Canonical
  <2> HIDE DEF s
  <2>3. CASE Len(s) <= HistoryLimit
    BY <1>3, <2>1, <2>2, <2>3 DEF trim, Tip
  <2>4. CASE ~(Len(s) <= HistoryLimit)
    <3> DEFINE m == Len(s) - HistoryLimit + 1
    <3>1. m \in 1..Len(s) /\ Len(s) - m + 1 = HistoryLimit /\ m + HistoryLimit - 1 = Len(s)
          /\ HistoryLimit \in 1..(Len(s) - m + 1)
      BY <2>1, <2>4, ReorgAssumption
    <3>2. trim(s) = SubSeq(s, m, Len(s))
      BY <2>4 DEF trim
    <3> HIDE DEF m
    <3>3. /\ SubSeq(s, m, Len(s)) \in Seq(Heads)
          /\ Len(SubSeq(s, m, Len(s))) = HistoryLimit
          /\ SubSeq(s, m, Len(s))[HistoryLimit] = s[Len(s)]
      BY <2>1, <3>1, SubSeqProperties
    <3> QED
      BY <1>3, <2>1, <2>2, <3>2, <3>3, ReorgAssumption DEF Tip
  <2> QED
    BY <2>3, <2>4
<1>4. CASE Classify(c, h) = "reorg"
  <2> DEFINE k == canonicalIndex(c, h.parent)
  <2>1. k \in 1..(Len(c) - 1) /\ Canonical(c, h) = Append(SubSeq(c, 1, k), h)
    BY <1>4, ReorgShape
  <2> HIDE DEF k
  <2>2. SubSeq(c, 1, k) \in Seq(Heads)
    BY <1>0, <2>1
  <2> QED
    BY <1>4, <2>1, <2>2, AppendProperties DEF Tip
<1> QED
  BY <1>0, <1>1, <1>2, <1>3, <1>4, Classes

\* The delay stays between its options; no intermediate value exceeds the maximum.
LEMMA DelayBounds ==
    ASSUME NEW d \in ReconnectInitial .. ReconnectMaximum
    PROVE  NextDelay(d) \in ReconnectInitial .. ReconnectMaximum
<1>1. ReconnectInitial \in Nat /\ ReconnectMaximum \in Nat /\ d \in Nat
  BY ExecutionAssumption
<1>2. ReconnectMaximum \div 2 \in Nat /\ 2 * (ReconnectMaximum \div 2) <= ReconnectMaximum
  BY <1>1
<1> QED
  BY <1>1, <1>2, ExecutionAssumption DEF NextDelay

LoopInv == LoopTypeOK /\ LogInv /\ History(canonical)

LEMMA InitLoop == Init => LoopInv
<1> SUFFICES ASSUME Init PROVE LoopInv
  OBVIOUS
<1>1. TrackerInv
  BY TrackerInitInv DEF Init
<1>2. log = <<>> /\ log \in Seq(Events) /\ Len(log) = 0
  BY DEF Init
<1>3. delay \in ReconnectInitial .. ReconnectMaximum
  BY ExecutionAssumption DEF Init
<1>4. receivedHead \in BOOLEAN /\ cancelled \in BOOLEAN
  BY Zenon DEF Init
<1> QED
  BY <1>1, <1>2, <1>3, <1>4, ExecutionAssumption
     DEF Init, LoopInv, LogInv, LoopTypeOK, TrackerInv, History

LEMMA StepLoop == LoopInv /\ [Next]_vars => LoopInv'
<1> SUFFICES ASSUME LoopInv, [Next]_vars PROVE LoopInv'
  OBVIOUS
<1>0. TrackerInv
  BY DEF LoopInv, LoopTypeOK, TrackerInv
<1>1. ASSUME TrackerInv', log' \in Seq(Events), Len(log') <= MaxEvents,
             pc' \in {"connect", "subscribed", "ended", "backoff", "returned", "failed"},
             receivedHead' \in BOOLEAN, cancelled' \in BOOLEAN,
             delay' \in ReconnectInitial .. ReconnectMaximum
      PROVE  LoopInv'
  BY <1>1 DEF LoopInv, LogInv, LoopTypeOK, TrackerInv, History
<1>2. ASSUME NEW h \in NodeHeads, ReceiveHead(h) PROVE LoopInv'
  <2>1. TrackerInv'
    BY <1>0, <1>2, ExecutionAssumption, TrackerNextInv DEF ReceiveHead, TrackerNext
  <2>2. log' \in Seq(Events) /\ Len(log') <= MaxEvents
    BY <1>2, ReceiveShape DEF LoopInv
  <2>3. pc' \in {"subscribed", "ended"} /\ receivedHead' = TRUE /\ cancelled' = cancelled
        /\ delay' = delay
    BY <1>2 DEF ReceiveHead
  <2> QED
    BY <1>1, <2>1, <2>2, <2>3 DEF LoopInv, LoopTypeOK
<1>3. CASE Subscribe
  <2>1. TrackerInv'
    <3>1. TrackerInit'
      BY <1>3 DEF Subscribe, TrackerInit, NoReport
    <3>2. canonical' = <<>> /\ report'.kind = "none" /\ report'.depth = 0
      BY <1>3 DEF Subscribe, NoReport
    <3>3. History(<<>>)
      BY ReorgAssumption DEF History, IsChain, Numbered
    <3> QED
      BY <3>2, <3>3, ReorgAssumption DEF TrackerInv, TrackerTypeOK, History
  <2> QED
    BY <1>1, <1>3, <2>1 DEF Subscribe, LoopInv, LogInv, LoopTypeOK
<1>4. CASE UNCHANGED trackerVars
  <2>1. TrackerInv'
    BY <1>0, <1>4, TrackerNextInv
  <2>2. log' \in Seq(Events) /\ Len(log') <= MaxEvents
    <3>1. CASE RecordGap
      <4>1. GapEvent("execution_subscription") \in Events
        BY DEF GapEvent, Events
      <4> QED
        BY <3>1, <4>1, ExecutionAssumption, AppendProperties DEF RecordGap, LoopInv, LogInv
    <3>2. ASSUME NEW h \in NodeHeads, ReceiveHead(h)
          PROVE  log' \in Seq(Events) /\ Len(log') <= MaxEvents
      BY <3>2, ReceiveShape DEF LoopInv
    <3>3. CASE log' = log
      BY <3>3 DEF LoopInv, LogInv, LoopTypeOK
    <3> QED
      BY <3>1, <3>2, <3>3
         DEF Next, LoopStep, Subscribe, SubscriptionEnds, ReturnCanceled, RecordGapFails,
             Reconnect, Cancel, Stopped, vars, loopVars
  <2>3. delay' \in ReconnectInitial .. ReconnectMaximum
    <3>1. delay' \in {delay, ReconnectInitial, NextDelay(delay)}
      BY DEF Next, LoopStep, Subscribe, SubscriptionEnds, ReturnCanceled, RecordGap,
             RecordGapFails, Reconnect, ReceiveHead, Cancel, Stopped, vars, loopVars
    <3>2. delay \in ReconnectInitial .. ReconnectMaximum
      BY DEF LoopInv, LoopTypeOK
    <3>3. NextDelay(delay) \in ReconnectInitial .. ReconnectMaximum
      BY <3>2, DelayBounds
    <3>4. ReconnectInitial \in ReconnectInitial .. ReconnectMaximum
      BY ExecutionAssumption
    <3> QED
      BY <3>1, <3>2, <3>3, <3>4, Zenon
  <2>4. receivedHead' \in BOOLEAN /\ cancelled' \in BOOLEAN
    BY Zenon DEF Next, LoopStep, Subscribe, SubscriptionEnds, ReturnCanceled, RecordGap,
           RecordGapFails, Reconnect, ReceiveHead, Cancel, Stopped, vars, loopVars, LoopInv,
           LoopTypeOK
  <2>5. pc' \in {"connect", "subscribed", "ended", "backoff", "returned", "failed"}
    BY DEF Next, LoopStep, Subscribe, SubscriptionEnds, ReturnCanceled, RecordGap,
           RecordGapFails, Reconnect, ReceiveHead, Cancel, Stopped, vars, loopVars, LoopInv,
           LoopTypeOK
  <2> QED
    BY <1>1, <2>1, <2>2, <2>3, <2>4, <2>5
<1>5. Subscribe \/ (\E h \in NodeHeads : ReceiveHead(h)) \/ UNCHANGED trackerVars
  BY DEF Next, LoopStep, SubscriptionEnds, ReturnCanceled, RecordGap, RecordGapFails,
         Reconnect, Cancel, Stopped, vars, trackerVars
<1> QED
  BY <1>2, <1>3, <1>4, <1>5

LEMMA AlwaysLoop == Spec => []LoopInv
BY InitLoop, StepLoop, PTL DEF Spec

-----------------------------------------------------------------------------
(* Reorgs are reported within a subscription *)

NoReconnect(l, i, j) ==
    \A k \in i..j : l[k].type = "gap" => l[k].operation # "execution_subscription"

\* What ReorgWithinSubscription says of the event at j.
ReorgAt(l, j) ==
    l[j].type = "reorg" =>
        /\ l[j - 1].type = "head" /\ l[j - 1].head = l[j].new
        /\ \E i \in 1..Len(l) : /\ l[i].type = "head" /\ i < j - 1
                                /\ l[i].head.hash = l[j].prev.hash
                                /\ NoReconnect(l, i, j - 1)

\* While a subscription is alive, the tip of its tracker is a head that this
\* subscription has recorded.
AnchoredIn(l) ==
    \E i \in 1..Len(l) : /\ l[i].type = "head"
                         /\ l[i].head.hash = Tip(canonical).hash
                         /\ NoReconnect(l, i, Len(l))

AnchorInv == pc = "subscribed" /\ canonical # <<>> => AnchoredIn(log)

ReorgInv == LoopInv /\ AnchorInv /\ ReorgWithinSubscription

LEMMA ReorgsAt == ReorgWithinSubscription <=> \A j \in 3..Len(log) : ReorgAt(log, j)
BY Zenon DEF ReorgWithinSubscription, ReorgAt, HeadsAt, NoReconnect

\* Events that are added do not change what is said of the others.
LEMMA ReorgInPrefix ==
    ASSUME NEW l \in Seq(Events), NEW m \in Seq(Events), Len(l) <= Len(m),
           \A i \in 1..Len(l) : m[i] = l[i],
           NEW j \in 3..Len(l), ReorgAt(l, j)
    PROVE  ReorgAt(m, j)
<1> SUFFICES ASSUME m[j].type = "reorg"
             PROVE  /\ m[j - 1].type = "head" /\ m[j - 1].head = m[j].new
                    /\ \E i \in 1..Len(m) : /\ m[i].type = "head" /\ i < j - 1
                                            /\ m[i].head.hash = m[j].prev.hash
                                            /\ NoReconnect(m, i, j - 1)
  BY DEF ReorgAt
<1>1. m[j] = l[j] /\ m[j - 1] = l[j - 1] /\ Len(l) \in Nat /\ Len(m) \in Nat
  OBVIOUS
<1>2. PICK i \in 1..Len(l) : /\ l[i].type = "head" /\ i < j - 1
                             /\ l[i].head.hash = l[j].prev.hash
                             /\ NoReconnect(l, i, j - 1)
  BY <1>1 DEF ReorgAt
<1>3. \A k \in i..(j - 1) : k \in 1..Len(l)
  BY <1>1
<1>4. NoReconnect(m, i, j - 1)
  BY <1>2, <1>3 DEF NoReconnect
<1>5. i \in 1..Len(m) /\ m[i] = l[i]
  BY <1>1
<1> QED
  BY <1>1, <1>2, <1>4, <1>5 DEF ReorgAt

\* A head that is recorded.
LEMMA ReceiveReorg ==
    ASSUME ReorgInv, NEW h \in NodeHeads, ReceiveHead(h)
    PROVE  AnchorInv' /\ ReorgWithinSubscription'
<1> DEFINE L == Len(log)
           k == Classify(canonical, h)
<1>0. /\ LogInv /\ History(canonical) /\ log \in Seq(Events) /\ canonical \in Seq(Heads)
      /\ h \in Heads
  BY ExecutionAssumption DEF ReorgInv, LoopInv, LogInv
<1>1. /\ log' \in Seq(Events)
      /\ L \in Nat /\ Len(log') \in {L, L + 1, L + 2}
      /\ \A i \in 1..L : log'[i] = log[i]
      /\ Len(log') = L => pc' = "ended"
      /\ Len(log') # L => log'[L + 1] = HeadEvent(h, Continuity(canonical, h))
      /\ Len(log') = L + 1 => pc' = IF k \in Quiet THEN "subscribed" ELSE "ended"
      /\ Len(log') = L + 2 => /\ pc' = "subscribed" /\ k \notin Quiet
                              /\ log'[L + 2] = Remark(canonical, h)
  BY <1>0, ReceiveShape
<1>2. /\ Tip(canonical') = IF k = "repeat" THEN Tip(canonical) ELSE h
      /\ k = "repeat" => h.hash = Tip(canonical).hash
      /\ pc = "subscribed"
  BY <1>0, TipAfter DEF ReceiveHead, ObserveHead
<1>3. k \notin Quiet => canonical # <<>>
  BY <1>0, EventsShape
<1> HIDE DEF k, L
<1>4. Len(log') # L => log'[L + 1].type = "head" /\ log'[L + 1].head = h
  BY <1>1 DEF HeadEvent
<1>5. /\ Remark(canonical, h).type \in {"gap", "reorg"}
      /\ Remark(canonical, h).type = "gap"
           => Remark(canonical, h).operation # "execution_subscription"
      /\ Remark(canonical, h).type = "reorg"
           => /\ Remark(canonical, h).prev = Tip(canonical)
              /\ Remark(canonical, h).new = h
  BY DEF Remark, GapEvent, ReorgEvent
<1>6. AnchorInv'
  <2> SUFFICES ASSUME Len(log') # L PROVE AnchoredIn(log)'
    BY <1>1 DEF AnchorInv
  <2>1. L + 1 \in 1..Len(log') /\ log'[L + 1].head.hash = Tip(canonical').hash
    BY <1>1, <1>2, <1>4
  <2>2. NoReconnect(log', L + 1, Len(log'))
    <3> SUFFICES ASSUME NEW i \in (L + 1)..Len(log'), log'[i].type = "gap"
                 PROVE  log'[i].operation # "execution_subscription"
      BY DEF NoReconnect
    <3>1. i = L + 1 \/ (i = L + 2 /\ Len(log') = L + 2)
      BY <1>1
    <3> QED
      BY <1>1, <1>4, <1>5, <3>1
  <2> QED
    BY <1>4, <2>1, <2>2 DEF AnchoredIn
<1>7. ASSUME NEW j \in 3..Len(log') PROVE ReorgAt(log', j)
  <2>1. CASE j \in 3..L
    BY <1>0, <1>1, <2>1, ReorgInPrefix, ReorgsAt DEF ReorgInv, L
  <2>2. CASE j = L + 1
    BY <1>1, <1>4, <2>2 DEF ReorgAt
  <2>3. CASE j = L + 2
    <3> SUFFICES ASSUME log'[j].type = "reorg" PROVE ReorgAt(log', j)
      BY DEF ReorgAt
    <3>1. /\ Len(log') = L + 2 /\ j - 1 = L + 1
          /\ log'[j] = Remark(canonical, h) /\ canonical # <<>>
      BY <1>1, <1>3, <2>3
    <3>2. PICK i \in 1..L : /\ log[i].type = "head"
                            /\ log[i].head.hash = Tip(canonical).hash
                            /\ NoReconnect(log, i, L)
      BY <1>2, <3>1 DEF ReorgInv, AnchorInv, AnchoredIn, L
    <3>3. NoReconnect(log', i, j - 1)
      <4> SUFFICES ASSUME NEW n \in i..(L + 1), log'[n].type = "gap"
                   PROVE  log'[n].operation # "execution_subscription"
        BY <3>1 DEF NoReconnect
      <4>1. n # L + 1
        BY <1>4, <3>1, <1>1
      <4>2. n \in i..L /\ n \in 1..L
        BY <1>1, <4>1
      <4> QED
        BY <1>1, <3>2, <4>2 DEF NoReconnect
    <3>4. i \in 1..Len(log') /\ i < j - 1 /\ log'[i] = log[i]
      BY <1>1, <3>1
    <3>5. log'[j - 1].type = "head" /\ log'[j - 1].head = log'[j].new
          /\ log'[j].prev = Tip(canonical)
      BY <1>1, <1>4, <1>5, <3>1
    <3> QED
      BY <3>2, <3>3, <3>4, <3>5 DEF ReorgAt
  <2> QED
    BY <1>1, <2>1, <2>2, <2>3
<1>8. ReorgWithinSubscription'
  BY <1>7, Zenon DEF ReorgWithinSubscription, ReorgAt, HeadsAt, NoReconnect
<1> QED
  BY <1>6, <1>8

\* A gap that is recorded.
LEMMA GapShape ==
    ASSUME LogInv, RecordGap, NEW L, L = Len(log)
    PROVE  /\ log' \in Seq(Events) /\ L \in Nat /\ Len(log') = L + 1
           /\ \A i \in 1..L : log'[i] = log[i]
           /\ log'[L + 1] = GapEvent("execution_subscription")
<1>1. GapEvent("execution_subscription") \in Events /\ log \in Seq(Events)
  BY DEF GapEvent, Events, LogInv
<1> QED
  BY <1>1, AppendProperties DEF RecordGap

LEMMA StepReorg == ReorgInv /\ [Next]_vars => ReorgInv'
<1> SUFFICES ASSUME ReorgInv, [Next]_vars PROVE AnchorInv' /\ ReorgWithinSubscription'
  BY StepLoop DEF ReorgInv
<1>1. CASE \E h \in NodeHeads : ReceiveHead(h)
  BY <1>1, ReceiveReorg
<1>2. CASE RecordGap
  <2> DEFINE L == Len(log)
  <2>0. LogInv /\ log \in Seq(Events)
    BY DEF ReorgInv, LoopInv, LogInv
  <2>1. /\ log' \in Seq(Events) /\ L \in Nat /\ Len(log') = L + 1
        /\ \A i \in 1..L : log'[i] = log[i]
        /\ log'[L + 1] = GapEvent("execution_subscription")
    BY <1>2, <2>0, GapShape
  <2>2. ASSUME NEW j \in 3..Len(log') PROVE ReorgAt(log', j)
    <3>1. CASE j \in 3..L
      BY <2>0, <2>1, <3>1, ReorgInPrefix, ReorgsAt DEF ReorgInv
    <3>2. CASE j = L + 1
      BY <2>1, <3>2 DEF ReorgAt, GapEvent
    <3> QED
      BY <2>1, <3>1, <3>2
  <2>3. ReorgWithinSubscription'
    BY <2>2, Zenon DEF ReorgWithinSubscription, ReorgAt, HeadsAt, NoReconnect
  <2> QED
    BY <1>2, <2>3 DEF RecordGap, AnchorInv
<1>3. CASE Subscribe
  BY <1>3 DEF Subscribe, ReorgInv, AnchorInv, ReorgWithinSubscription, HeadsAt
<1>4. CASE ~RecordGap /\ ~Subscribe /\ ~(\E h \in NodeHeads : ReceiveHead(h))
  <2>1. UNCHANGED <<log, canonical>> /\ (pc' = "subscribed" => pc = "subscribed")
    BY <1>4 DEF Next, LoopStep, SubscriptionEnds, ReturnCanceled, RecordGapFails, Reconnect,
                Cancel, Stopped, vars, loopVars, trackerVars
  <2> QED
    BY <2>1 DEF ReorgInv, AnchorInv, AnchoredIn, ReorgWithinSubscription, HeadsAt
<1> QED
  BY <1>1, <1>2, <1>3, <1>4

LEMMA AlwaysReorg == Spec => []ReorgInv
<1>1. Init => ReorgInv
  <2> SUFFICES ASSUME Init PROVE AnchorInv /\ ReorgWithinSubscription
    BY InitLoop DEF ReorgInv
  <2>1. canonical = <<>> /\ Len(log) = 0
    BY DEF Init, TrackerInit
  <2> QED
    BY <2>1 DEF AnchorInv, ReorgWithinSubscription
<1> QED
  BY <1>1, StepReorg, PTL DEF Spec

-----------------------------------------------------------------------------
(* Discontinuities are recorded *)

\* Block hashes identify blocks: the one thing that has to be assumed of the heads
\* a node reports.  A node that repeats the hash of the tip with another number
\* would make the tracker's tip differ from the head the log ends with.
HashesIdentifyHeads == \A g, h \in NodeHeads : g.hash = h.hash => g = h

LastHead(l, i) ==
    /\ i \in 1..Len(l) /\ l[i].type = "head"
    /\ \A k \in (i + 1)..Len(l) : l[k].type # "head"

GapAfter(l, i) == \E k \in (i + 1)..Len(l) : l[k].type = "gap"

\* Before the next head arrives: the last one recorded is the tip of the tracker,
\* or a gap has been recorded since.
LinkInv ==
    /\ canonical # <<>> => Tip(canonical) \in NodeHeads
    /\ pc \in {"connect", "backoff"} =>
          \A i \in 1..Len(log) : LastHead(log, i) => GapAfter(log, i)
    /\ pc = "subscribed" =>
          \A i \in 1..Len(log) : LastHead(log, i) =>
             \/ GapAfter(log, i)
             \/ canonical # <<>> /\ log[i].head = Tip(canonical)

\* What NoSilentDiscontinuity says of the heads at i and j.
Told(l, place, i, j) ==
    \/ Continues(l[i].head, l[j].head)
    \/ ~l[j].continuity
    \/ \E k \in (i + 1)..(j - 1) : l[k].type = "gap"
    \/ j < Len(l) /\ l[j + 1].type \in {"reorg", "gap"}
    \/ j = Len(l) /\ place \in {"ended", "failed", "returned"}

Neighbours(l, i, j) ==
    /\ l[i].type = "head" /\ l[j].type = "head" /\ i < j
    /\ \A k \in (i + 1)..(j - 1) : l[k].type # "head"

ToldInv ==
    \A i, j \in 1..Len(log) : Neighbours(log, i, j) => Told(log, pc, i, j)

\* Without an error the loop returns only when its context is done.
ReturnInv == pc = "returned" => cancelled

LEMMA ToldIsProperty == ReturnInv /\ ToldInv => NoSilentDiscontinuity
<1> SUFFICES ASSUME ReturnInv, ToldInv PROVE NoSilentDiscontinuity
  OBVIOUS
<1>1. pc \in {"ended", "failed", "returned"} => pc = "ended" \/ LoopIsOver
  BY Zenon DEF ReturnInv, LoopIsOver
<1> QED
  BY <1>1, Zenon
     DEF NoSilentDiscontinuity, ToldInv, Told, Neighbours, HeadsAt, Consecutive

DiscontinuityInv == LoopInv /\ LinkInv /\ ToldInv /\ ReturnInv

\* Events that are added do not hide a discontinuity; the one whose gap is still to
\* come gets it from the event that is added.
LEMMA ToldInPrefix ==
    ASSUME NEW l \in Seq(Events), NEW m \in Seq(Events), Len(l) <= Len(m),
           \A n \in 1..Len(l) : m[n] = l[n], NEW p, NEW q,
           \/ p \notin {"ended", "failed", "returned"}
           \/ Len(m) > Len(l) /\ m[Len(l) + 1].type = "gap"
           \/ Len(m) = Len(l) /\ q \in {"ended", "failed", "returned"},
           NEW i \in 1..Len(l), NEW j \in 1..Len(l), Neighbours(m, i, j),
           Neighbours(l, i, j) => Told(l, p, i, j)
    PROVE  Told(m, q, i, j)
<1>1. Len(l) \in Nat /\ Len(m) \in Nat /\ m[i] = l[i] /\ m[j] = l[j]
  OBVIOUS
<1>2. \A k \in (i + 1)..(j - 1) : k \in 1..Len(l) /\ m[k] = l[k]
  BY <1>1
<1>3. Neighbours(l, i, j)
  BY <1>1, <1>2 DEF Neighbours
<1>4. CASE j < Len(l) /\ l[j + 1].type \in {"reorg", "gap"}
  <2>1. j < Len(m) /\ m[j + 1] = l[j + 1]
    BY <1>1, <1>4
  <2> QED
    BY <1>4, <2>1 DEF Told
<1>5. CASE j = Len(l) /\ p \in {"ended", "failed", "returned"}
  BY <1>1, <1>5 DEF Told
<1>6. CASE \/ Continues(l[i].head, l[j].head)
           \/ ~l[j].continuity
           \/ \E k \in (i + 1)..(j - 1) : l[k].type = "gap"
  BY <1>1, <1>2, <1>6 DEF Told
<1> QED
  BY <1>3, <1>4, <1>5, <1>6 DEF Told

\* A head that is recorded.
LEMMA ReceiveTold ==
    ASSUME DiscontinuityInv, HashesIdentifyHeads, NEW h \in NodeHeads, ReceiveHead(h)
    PROVE  LinkInv' /\ ToldInv'
<1> DEFINE L == Len(log)
           k == Classify(canonical, h)
<1>0. /\ LogInv /\ History(canonical) /\ log \in Seq(Events) /\ canonical \in Seq(Heads)
      /\ h \in Heads
  BY ExecutionAssumption DEF DiscontinuityInv, LoopInv, LogInv
<1>1. /\ log' \in Seq(Events)
      /\ L \in Nat /\ Len(log') \in {L, L + 1, L + 2}
      /\ \A i \in 1..L : log'[i] = log[i]
      /\ Len(log') = L => pc' = "ended"
      /\ Len(log') # L => log'[L + 1] = HeadEvent(h, Continuity(canonical, h))
      /\ Len(log') = L + 1 => pc' = IF k \in Quiet THEN "subscribed" ELSE "ended"
      /\ Len(log') = L + 2 => /\ pc' = "subscribed" /\ k \notin Quiet
                              /\ log'[L + 2] = Remark(canonical, h)
  BY <1>0, ReceiveShape
<1>2. /\ canonical' # <<>>
      /\ Tip(canonical') = IF k = "repeat" THEN Tip(canonical) ELSE h
      /\ k = "repeat" => canonical # <<>> /\ h.hash = Tip(canonical).hash
      /\ pc = "subscribed"
  BY <1>0, TipAfter DEF ReceiveHead, ObserveHead
<1>3. k = "first" => canonical = <<>>
  BY DEF Classify
<1>4. k = "extend" => /\ canonical # <<>> /\ h.parent = Tip(canonical).hash
                      /\ h.number = Tip(canonical).number + 1
  <2> SUFFICES ASSUME k = "extend"
               PROVE  /\ canonical # <<>> /\ h.parent = Tip(canonical).hash
                      /\ h.number = Tip(canonical).number + 1
    OBVIOUS
  <2>1. /\ canonical # <<>> /\ Follows(h, Tip(canonical))
        /\ h.parent = Tip(canonical).hash
    BY <1>0, ExtendFacts
  <2>2. Tip(canonical) \in Heads
    BY <1>0, <2>1 DEF Tip
  <2> QED
    BY <1>0, <2>1, <2>2, FollowsIsPlusOne
<1>5. Tip(canonical') \in NodeHeads /\ Tip(canonical') = h
  BY <1>2 DEF DiscontinuityInv, LinkInv, HashesIdentifyHeads
<1> HIDE DEF k, L
<1>6. Len(log') # L => log'[L + 1].type = "head" /\ log'[L + 1].head = h
  BY <1>1 DEF HeadEvent
<1>7. Remark(canonical, h).type \in {"gap", "reorg"}
  BY DEF Remark, GapEvent, ReorgEvent
<1>8. LinkInv'
  <2> SUFFICES ASSUME pc' = "subscribed", NEW i \in 1..Len(log'), LastHead(log', i)
               PROVE  log'[i].head = Tip(canonical')
    BY <1>1, <1>2, <1>5 DEF LinkInv
  <2>1. Len(log') # L /\ L + 1 \in 1..Len(log')
    BY <1>1
  <2>2. i = L + 1
    <3>1. CASE i < L + 1
      <4>1. L + 1 \in (i + 1)..Len(log')
        BY <1>1, <2>1, <3>1
      <4> QED
        BY <1>6, <2>1, <4>1 DEF LastHead
    <3>2. CASE i > L + 1
      <4>1. i = L + 2 /\ Len(log') = L + 2
        BY <1>1, <3>2
      <4> QED
        BY <1>1, <1>7, <4>1 DEF LastHead
    <3> QED
      BY <1>1, <3>1, <3>2
  <2> QED
    BY <1>5, <1>6, <2>1, <2>2
<1>9. ASSUME NEW i \in 1..Len(log'), NEW j \in 1..Len(log'), Neighbours(log', i, j)
      PROVE  Told(log', pc', i, j)
  <2>0. i < j /\ log'[i].type = "head" /\ log'[j].type = "head"
        /\ \A n \in (i + 1)..(j - 1) : log'[n].type # "head"
    BY <1>9 DEF Neighbours
  <2>1. CASE j \in 1..L
    <3>1. i \in 1..L
      BY <1>1, <2>0, <2>1
    <3>2. Neighbours(log, i, j) => Told(log, pc, i, j)
      BY <2>1, <3>1 DEF DiscontinuityInv, ToldInv, L
    <3>3. Len(log) <= Len(log') /\ \A n \in 1..Len(log) : log'[n] = log[n]
      BY <1>1 DEF L
    <3>4. pc \notin {"ended", "failed", "returned"}
      BY <1>2
    <3>5. i \in 1..Len(log) /\ j \in 1..Len(log)
      BY <2>1, <3>1 DEF L
    <3> QED
      BY <1>0, <1>1, <1>9, <3>2, <3>3, <3>4, <3>5, ToldInPrefix
  <2>2. CASE j = L + 1
    <3>1. i \in 1..L /\ log'[i] = log[i]
      BY <1>1, <2>0, <2>2
    <3>2. LastHead(log, i)
      <4>1. \A n \in (i + 1)..L : n \in (i + 1)..(j - 1) /\ log'[n] = log[n]
        BY <1>1, <2>2, <3>1
      <4> QED
        BY <2>0, <3>1, <4>1 DEF LastHead, L
    <3>3. CASE GapAfter(log, i)
      <4>1. PICK n \in (i + 1)..L : log[n].type = "gap"
        BY <3>3 DEF GapAfter, L
      <4>2. n \in (i + 1)..(j - 1) /\ log'[n] = log[n]
        BY <1>1, <2>2, <3>1
      <4> QED
        BY <4>1, <4>2 DEF Told
    <3>4. CASE canonical # <<>> /\ log[i].head = Tip(canonical)
      <4>1. CASE k \in Quiet
        <5>1. log'[j].head = h /\ log'[i].head = Tip(canonical)
          BY <1>1, <1>6, <2>2, <3>1, <3>4
        <5>2. k \in {"repeat", "extend"}
          BY <1>3, <3>4, <4>1 DEF Quiet
        <5> QED
          BY <1>2, <1>4, <5>1, <5>2 DEF Told, Continues
      <4>2. CASE k \notin Quiet /\ Len(log') = L + 1
        BY <1>1, <2>2, <4>2 DEF Told
      <4>3. CASE k \notin Quiet /\ Len(log') = L + 2
        <5>1. j < Len(log') /\ log'[j + 1] = Remark(canonical, h)
          BY <1>1, <2>2, <4>3
        <5> QED
          BY <1>7, <5>1 DEF Told
      <4>4. Len(log') # L
        BY <1>1, <2>2
      <4> QED
        BY <1>1, <4>1, <4>2, <4>3, <4>4
    <3> QED
      BY <1>2, <3>1, <3>2, <3>3, <3>4 DEF DiscontinuityInv, LinkInv, L
  <2>3. CASE j = L + 2
    <3>1. Len(log') = L + 2
      BY <1>1, <2>3
    <3> QED
      BY <1>1, <1>7, <2>0, <2>3, <3>1
  <2> QED
    BY <1>1, <2>1, <2>2, <2>3
<1>10. ToldInv'
  BY <1>9 DEF ToldInv
<1> QED
  BY <1>8, <1>10

LEMMA StepTold ==
    HashesIdentifyHeads /\ DiscontinuityInv /\ [Next]_vars => DiscontinuityInv'
<1> SUFFICES ASSUME HashesIdentifyHeads, DiscontinuityInv, [Next]_vars
             PROVE  LinkInv' /\ ToldInv'
  <2>1. ASSUME HashesIdentifyHeads, DiscontinuityInv, [Next]_vars PROVE ReturnInv'
    BY <2>1, Zenon
       DEF Next, LoopStep, Subscribe, SubscriptionEnds, ReturnCanceled, RecordGap,
           RecordGapFails, Reconnect, ReceiveHead, Cancel, Stopped, vars, loopVars,
           DiscontinuityInv, ReturnInv
  <2> QED
    BY <2>1, StepLoop DEF DiscontinuityInv
<1>0. LogInv /\ log \in Seq(Events) /\ Len(log) \in Nat
  BY DEF DiscontinuityInv, LoopInv, LogInv
<1>1. CASE \E h \in NodeHeads : ReceiveHead(h)
  BY <1>1, ReceiveTold
<1>2. CASE RecordGap
  <2> DEFINE L == Len(log)
  <2>1. /\ log' \in Seq(Events) /\ L \in Nat /\ Len(log') = L + 1
        /\ \A i \in 1..L : log'[i] = log[i]
        /\ log'[L + 1] = GapEvent("execution_subscription")
    BY <1>0, <1>2, GapShape
  <2>2. log'[L + 1].type = "gap"
    BY <2>1 DEF GapEvent
  <2>3. LinkInv'
    <3>1. ASSUME NEW i \in 1..Len(log'), LastHead(log', i) PROVE GapAfter(log', i)
      <4>1. i # L + 1
        BY <2>2, <3>1 DEF LastHead
      <4>2. L + 1 \in (i + 1)..Len(log')
        BY <2>1, <4>1
      <4> QED
        BY <2>2, <4>2 DEF GapAfter
    <3>2. UNCHANGED canonical /\ pc' = "backoff"
      BY <1>2 DEF RecordGap, trackerVars
    <3> QED
      BY <3>1, <3>2 DEF DiscontinuityInv, LinkInv
  <2>4. ASSUME NEW i \in 1..Len(log'), NEW j \in 1..Len(log'), Neighbours(log', i, j)
        PROVE  Told(log', pc', i, j)
    <3>1. i < j /\ j # L + 1
      BY <2>2, <2>4 DEF Neighbours
    <3>2. i \in 1..Len(log) /\ j \in 1..Len(log)
      BY <2>1, <3>1
    <3>3. Neighbours(log, i, j) => Told(log, pc, i, j)
      BY <3>2 DEF DiscontinuityInv, ToldInv
    <3>4. Len(log') > Len(log) /\ log'[Len(log) + 1].type = "gap" /\ Len(log) <= Len(log')
      BY <2>1, <2>2
    <3> QED
      BY <1>0, <2>1, <2>4, <3>2, <3>3, <3>4, ToldInPrefix
  <2> QED
    BY <2>3, <2>4 DEF ToldInv
<1>3. CASE Subscribe
  BY <1>3 DEF Subscribe, DiscontinuityInv, LinkInv, ToldInv, Told
<1>4. CASE ~RecordGap /\ ~Subscribe /\ ~(\E h \in NodeHeads : ReceiveHead(h))
  <2>1. /\ UNCHANGED <<log, canonical>>
        /\ \/ pc' = pc
           \/ pc' \in {"ended", "returned", "failed"}
           \/ pc = "backoff" /\ pc' = "connect"
    BY <1>4 DEF Next, LoopStep, SubscriptionEnds, ReturnCanceled, RecordGapFails, Reconnect,
                Cancel, Stopped, vars, loopVars, trackerVars
  <2>2. LinkInv'
    BY <2>1 DEF DiscontinuityInv, LinkInv
  <2>3. ToldInv'
    BY <2>1 DEF DiscontinuityInv, ToldInv, Told
  <2> QED
    BY <2>2, <2>3
<1> QED
  BY <1>1, <1>2, <1>3, <1>4

LEMMA InitTold == Init => DiscontinuityInv
<1> SUFFICES ASSUME Init PROVE LinkInv /\ ToldInv
  BY InitLoop DEF DiscontinuityInv, Init, ReturnInv
<1>1. canonical = <<>> /\ Len(log) = 0
  BY DEF Init, TrackerInit
<1> QED
  BY <1>1 DEF LinkInv, ToldInv

-----------------------------------------------------------------------------
(* The theorems about the loop *)

\* The loop stays in its types and its delays; its tracker keeps within its limit.
THEOREM LoopTypeCorrect == Spec => []LoopTypeOK
<1>1. LoopInv => LoopTypeOK
  BY DEF LoopInv
<1> QED
  BY <1>1, AlwaysLoop, PTL

\* The tracker inside the loop, renewed with each subscription and fed by it,
\* keeps one chain.
THEOREM LoopKeepsChain == Spec => []CanonicalIsChain
<1>1. LoopInv => CanonicalIsChain
  BY DEF LoopInv, History, CanonicalIsChain
<1> QED
  BY <1>1, AlwaysLoop, PTL

\* A reconnect never turns blocks that were missed into a reorg, whichever of the
\* recorders fails and whenever the subscription ends.
THEOREM ReorgsStayInSubscription == Spec => []ReorgWithinSubscription
<1>1. ReorgInv => ReorgWithinSubscription
  BY DEF ReorgInv
<1> QED
  BY <1>1, AlwaysReorg, PTL

\* Where block hashes identify blocks, every break in the sequence of heads that
\* runTarget records is in the record, but for the last head of a loop that is over.
THEOREM DiscontinuitiesAreRecorded ==
    ASSUME HashesIdentifyHeads PROVE Spec => []NoSilentDiscontinuity
<1>1. DiscontinuityInv => NoSilentDiscontinuity
  BY ToldIsProperty DEF DiscontinuityInv
<1>2. DiscontinuityInv /\ [Next]_vars => DiscontinuityInv'
  BY StepTold
<1> QED
  BY <1>1, <1>2, InitTold, PTL DEF Spec
=============================================================================
