---------------------------- MODULE AnalysisProofs --------------------------
(***************************************************************************)
(* `ethquake experiment analyze`.  First the loading of the evidence: the  *)
(* properties of EvidenceStore, for any runs, order, plans, splits and     *)
(* bounds, and so for any number of attempts and of damaged or mixed up    *)
(* files.  Then the gates: the properties of GateAnalysis, for any number  *)
(* of repetitions and of sides and for any progress and recovery.          *)
(***************************************************************************)
EXTENDS EvidenceStore, GateAnalysis, SequenceTheorems, FiniteSetTheorems, TLAPS

\* A file as attempt a leaves it, and the digests of the five.
Whole(a) == [by |-> a, whole |-> TRUE]

SealOf(a) == [f \in Artifacts |-> Hash(f, Whole(a))]

Files == [Artifacts -> Contents \cup {Absent}]

\* The stages after checksums.json was read, and those after the manifest.
ManifestRead == {"scenario.yaml", "metadata.json", "realized-split.json",
                 "raw-timeseries.jsonl"}

ScenarioRead == ManifestRead \ {"scenario.yaml"}

ChecksumsRead == {"hash", "manifest.json"} \cup ManifestRead

Stages == {"idle", "checksums.json", "refused", "done"} \cup ChecksumsRead

StoreShape ==
    /\ DOMAIN dirs \subseteq RunIDs /\ DOMAIN checksums = DOMAIN dirs
    /\ dirs \in [DOMAIN dirs -> Files]
    /\ \A r \in DOMAIN dirs :
          checksums[r] = [of |-> checksums[r].of, whole |-> checksums[r].whole]
    /\ writer \in [RunIDs -> [by : Attempts, next : 1 .. 6] \cup {NoWriter}]
    /\ attempts \in Nat
    /\ sealed \subseteq Attempts

LoaderShape ==
    /\ index \in 1 .. Len(RunOrder) + 1
    /\ stage \in Stages
    /\ stage \in ChecksumsRead \cup {"checksums.json"} => index <= Len(RunOrder)
    /\ position \in 1 .. 6
    /\ loaded \in Seq(Contents)
    /\ Len(loaded) = index - 1

\* While an attempt is being made nobody else changes its directory: it holds what
\* the attempt has written, and no checksums that could be taken for complete.
WriterOf(r) ==
    writer[r] # NoWriter =>
        /\ r \in DOMAIN dirs
        /\ ~checksums[r].whole
        /\ \A i \in 1 .. writer[r].next - 1 : dirs[r][WriteOrder[i]] = Whole(writer[r].by)
        /\ \/ checksums[r] = NoChecksums
           \/ writer[r].next = 6 /\ checksums[r].of = SealOf(writer[r].by)

WriterInv == \A r \in RunIDs : WriterOf(r)

\* Checksums that are whole are those of an attempt that has returned.
SealInv ==
    \A r \in DOMAIN dirs :
        checksums[r].whole => \E a \in sealed : checksums[r].of = SealOf(a)

\* What the loader knows of the run it is reading.
ReadingInv ==
    /\ stage \in ChecksumsRead \cup {"checksums.json"} => Current \in DOMAIN dirs
    /\ stage \in ChecksumsRead => writer[Current] = NoWriter
    /\ stage \in ChecksumsRead \ {"hash"} => position = 6
    /\ stage \in ManifestRead =>
          manifest \in Contents /\ manifest.whole /\ manifest.by.run = Current
    /\ stage \in ChecksumsRead /\ Current \notin late =>
          /\ \E a \in sealed : expected = SealOf(a)
          /\ \A i \in 1 .. position - 1 :
                Hash(checksummedRunArtifacts[i], File(checksummedRunArtifacts[i]))
                    = expected[checksummedRunArtifacts[i]]
          /\ stage \in ManifestRead => manifest = File("manifest.json")
          /\ stage \in ScenarioRead => File("scenario.yaml").by.plan = ExpectedPlan

\* The runs that were accepted stay as they were, unless they are touched.
LoadedInv ==
    \A i \in 1 .. Len(loaded) :
        RunOrder[i] \in DOMAIN dirs /\ writer[RunOrder[i]] = NoWriter

-----------------------------------------------------------------------------
(* Files and digests *)

\* The five names, in the order of the two programs.
LEMMA ArtifactNames ==
    /\ Artifacts = {"scenario.yaml", "realized-split.json", "raw-timeseries.jsonl",
                    "manifest.json", "metadata.json"}
    /\ \A i \in 1 .. 5 : WriteOrder[i] \in Artifacts /\ checksummedRunArtifacts[i] \in Artifacts
    /\ \A f \in Artifacts : \E i \in 1 .. 5 : f = WriteOrder[i]
    /\ \A f \in Artifacts : \E i \in 1 .. 5 : f = checksummedRunArtifacts[i]
    /\ Len(WriteOrder) = 5 /\ Len(checksummedRunArtifacts) = 5
<1> DEFINE Names == {"scenario.yaml", "realized-split.json", "raw-timeseries.jsonl",
                     "manifest.json", "metadata.json"}
<1>1. /\ WriteOrder[1] = "scenario.yaml" /\ WriteOrder[2] = "realized-split.json"
      /\ WriteOrder[3] = "raw-timeseries.jsonl" /\ WriteOrder[4] = "manifest.json"
      /\ WriteOrder[5] = "metadata.json" /\ Len(WriteOrder) = 5
  BY DEF WriteOrder
<1>2. /\ checksummedRunArtifacts[1] = "manifest.json"
      /\ checksummedRunArtifacts[2] = "metadata.json"
      /\ checksummedRunArtifacts[3] = "raw-timeseries.jsonl"
      /\ checksummedRunArtifacts[4] = "realized-split.json"
      /\ checksummedRunArtifacts[5] = "scenario.yaml"
      /\ Len(checksummedRunArtifacts) = 5
  BY DEF checksummedRunArtifacts
<1>3. \A i \in 1 .. 5 : i = 1 \/ i = 2 \/ i = 3 \/ i = 4 \/ i = 5
  OBVIOUS
<1>4. \A i \in 1 .. 5 : WriteOrder[i] \in Names /\ checksummedRunArtifacts[i] \in Names
  BY <1>1, <1>2, <1>3
<1>5. \A f \in Names : /\ \E i \in 1 .. 5 : f = WriteOrder[i]
                       /\ \E i \in 1 .. 5 : f = checksummedRunArtifacts[i]
  BY <1>1, <1>2
<1>6. Artifacts = Names
  BY <1>1, <1>4, <1>5 DEF Artifacts
<1> QED BY <1>1, <1>2, <1>4, <1>5, <1>6

\* An attempt is somebody, and its whole files are contents.
LEMMA WholeFiles ==
    ASSUME NEW a \in Attempts
    PROVE  Whole(a) \in Contents /\ Whole(a) # Absent
<1>1. a \in [run : RunIDs, number : Nat, plan : Plans, split : Splits]
  BY EvidenceAssumption DEF Attempts
<1>2. a # Nobody
  BY <1>1, EvidenceAssumption
<1> QED BY <1>2 DEF Whole, Contents, Absent

\* The digest of a manifest tells which attempt has written it, and that it is whole.
LEMMA ManifestDigest ==
    ASSUME NEW a \in Attempts, NEW c \in Contents \cup {Absent},
           Hash("manifest.json", c) = SealOf(a)["manifest.json"]
    PROVE  c = Whole(a)
<1>1. SealOf(a)["manifest.json"] = <<TRUE, a>>
  BY WholeFiles, ArtifactNames DEF SealOf, Hash, Whole
<1>2. c # Absent
  BY <1>1 DEF Hash
<1>3. Hash("manifest.json", c) = <<c.whole, c.by>>
  BY <1>2 DEF Hash
<1>4. c.by = a /\ c.whole = TRUE
  <2> DEFINE b == c.whole
  <2>1. b \in BOOLEAN
    BY <1>2 DEF Contents
  <2>2. <<b, c.by>> = <<TRUE, a>>
    BY <1>1, <1>3
  <2> HIDE DEF b
  <2>3. <<b, c.by>>[1] = <<TRUE, a>>[1] /\ c.by = a
    BY <2>2
  <2>4. b = TRUE
    BY <2>3
  <2> QED BY <2>3, <2>4 DEF b
<1>5. c = [by |-> c.by, whole |-> c.whole]
  BY <1>2 DEF Contents
<1> QED BY <1>4, <1>5 DEF Whole

\* And the digest of the scenario tells the plan.
LEMMA ScenarioDigest ==
    ASSUME NEW a \in Attempts, NEW c \in Contents \cup {Absent},
           Hash("scenario.yaml", c) = SealOf(a)["scenario.yaml"]
    PROVE  c.by.plan = a.plan
<1>1. SealOf(a)["scenario.yaml"] = <<TRUE, a.plan>>
  BY WholeFiles, ArtifactNames DEF SealOf, Hash, Whole
<1>2. c # Absent
  BY <1>1 DEF Hash
<1>3. Hash("scenario.yaml", c) = <<c.whole, c.by.plan>>
  BY <1>2 DEF Hash
<1> QED BY <1>1, <1>3

-----------------------------------------------------------------------------
(* Steps of the runs and of the environment, as the loader sees them *)

\* What the loader reads, and what it has accepted, it has begun with.
LEMMA LoaderHasBegun ==
    ASSUME LoaderShape
    PROVE  /\ stage \in ChecksumsRead \cup {"checksums.json"} =>
                 Current \in RunIDs /\ Begun(Current)
           /\ \A i \in 1 .. Len(loaded) : RunOrder[i] \in RunIDs /\ Begun(RunOrder[i])
<1>1. RunOrder \in Seq(RunIDs)
  BY EvidenceAssumption
<1>2. Len(RunOrder) \in Nat /\ \A i \in 1 .. Len(RunOrder) : RunOrder[i] \in RunIDs
  BY <1>1
<1>3. ASSUME stage \in ChecksumsRead \cup {"checksums.json"}
      PROVE  Current \in RunIDs /\ Begun(Current)
  <2>1. index \in 1 .. Len(RunOrder)
    BY <1>2, <1>3 DEF LoaderShape
  <2>2. stage # "idle"
    BY <1>3 DEF ChecksumsRead, ManifestRead
  <2> QED BY <1>2, <2>1, <2>2 DEF Begun, Current
<1>4. ASSUME NEW i \in 1 .. Len(loaded) PROVE RunOrder[i] \in RunIDs /\ Begun(RunOrder[i])
  <2>1. i \in 1 .. Len(RunOrder) /\ i < index
    BY <1>2, <1>4 DEF LoaderShape
  <2> QED BY <1>2, <2>1 DEF Begun
<1> QED BY <1>3, <1>4

\* The part of the invariant that is about the loader.
LoaderInv == LoaderShape /\ ReadingInv /\ LoadedInv /\ AnalysedIsSealed /\ AnalysedIsIntact

\* A step of somebody else keeps it when it takes away no directory the loader has
\* begun with, and changes such a directory only for an attempt that is being made
\* or as one that is touched.
LEMMA LoaderUndisturbed ==
    ASSUME LoaderInv, UNCHANGED loader, sealed \subseteq sealed', late \subseteq late',
           \A q \in DOMAIN dirs : Begun(q) =>
               /\ q \in DOMAIN dirs'
               /\ writer[q] = NoWriter =>
                     writer'[q] = NoWriter /\ (q \notin late' => dirs'[q] = dirs[q])
    PROVE  LoaderInv'
<1> USE DEF LoaderInv
<1>1. /\ index' = index /\ stage' = stage /\ position' = position
      /\ expected' = expected /\ manifest' = manifest /\ loaded' = loaded
  BY DEF loader
<1>2. LoaderShape'
  BY <1>1 DEF LoaderShape
<1>3. /\ stage \in ChecksumsRead \cup {"checksums.json"} => Begun(Current)
      /\ \A i \in 1 .. Len(loaded) : Begun(RunOrder[i])
  BY LoaderHasBegun
<1>4. ReadingInv'
  <2>1. Current' = Current
    BY <1>1 DEF Current
  <2>2. stage \in ChecksumsRead \cup {"checksums.json"} => Current \in DOMAIN dirs'
    BY <1>3 DEF ReadingInv
  <2>3. ASSUME stage \in ChecksumsRead
        PROVE  /\ writer'[Current] = NoWriter
               /\ Current \notin late' => Current \notin late /\ dirs'[Current] = dirs[Current]
    BY <1>3, <2>3 DEF ReadingInv
  <2>4. ASSUME stage \in ChecksumsRead, Current \notin late'
        PROVE  /\ \E a \in sealed' : expected = SealOf(a)
               /\ \A i \in 1 .. position - 1 :
                     Hash(checksummedRunArtifacts[i],
                          dirs'[Current][checksummedRunArtifacts[i]])
                         = expected[checksummedRunArtifacts[i]]
               /\ stage \in ManifestRead => manifest = dirs'[Current]["manifest.json"]
               /\ stage \in ScenarioRead =>
                     dirs'[Current]["scenario.yaml"].by.plan = ExpectedPlan
    <3>1. Current \notin late /\ dirs'[Current] = dirs[Current]
      BY <2>3, <2>4
    <3>2. \E a \in sealed : expected = SealOf(a)
      BY <2>4, <3>1 DEF ReadingInv
    <3> QED BY <2>4, <3>1, <3>2 DEF ReadingInv, File
  <2> QED BY <1>1, <2>1, <2>2, <2>3, <2>4 DEF ReadingInv, File
<1>5. ASSUME NEW i \in 1 .. Len(loaded)
      PROVE  /\ RunOrder[i] \in DOMAIN dirs' /\ writer'[RunOrder[i]] = NoWriter
             /\ RunOrder[i] \notin late' =>
                   RunOrder[i] \notin late /\ dirs'[RunOrder[i]] = dirs[RunOrder[i]]
  BY <1>3, <1>5 DEF LoadedInv
<1>6. LoadedInv'
  BY <1>1, <1>5 DEF LoadedInv
<1>7. AnalysedIsSealed'
  BY <1>1, <1>5 DEF AnalysedIsSealed
<1>8. AnalysedIsIntact'
  BY <1>1, <1>5 DEF AnalysedIsIntact
<1> QED BY <1>2, <1>4, <1>6, <1>7, <1>8

-----------------------------------------------------------------------------
(* Steps of the runs *)

\* The part of the invariant that is about the directories and who writes them.
StoreInv == StoreShape /\ WriterInv /\ SealInv

\* The directories of the other runs keep what is said of them.
LEMMA OtherRuns ==
    ASSUME WriterInv, NEW r, WriterOf(r)',
           \A q \in RunIDs \ {r} :
               /\ writer'[q] = writer[q]
               /\ q \in DOMAIN dirs => /\ q \in DOMAIN dirs' /\ dirs'[q] = dirs[q]
                                       /\ checksums'[q] = checksums[q]
    PROVE  WriterInv'
<1> SUFFICES ASSUME NEW q \in RunIDs, q # r PROVE WriterOf(q)'
  BY DEF WriterInv
<1>1. writer'[q] = writer[q] /\ WriterOf(q)
  BY DEF WriterInv
<1>2. SUFFICES ASSUME writer[q] # NoWriter PROVE WriterOf(q)'
  BY <1>1 DEF WriterOf
<1>3. q \in DOMAIN dirs' /\ dirs'[q] = dirs[q] /\ checksums'[q] = checksums[q]
  BY <1>1, <1>2 DEF WriterOf
<1> QED BY <1>1, <1>2, <1>3 DEF WriterOf

LEMMA CreateKeepsStore ==
    ASSUME StoreInv, NEW r \in RunIDs, Create(r)
    PROVE  StoreInv' /\ (LoaderInv => LoaderInv')
<1> USE DEF StoreInv
<1>1. PICK plan \in Plans, split \in Splits :
         writer' = [writer EXCEPT ![r] =
             [by |-> [run |-> r, number |-> attempts + 1, plan |-> plan, split |-> split],
              next |-> 1]]
  BY DEF Create
<1> DEFINE a == [run |-> r, number |-> attempts + 1, plan |-> plan, split |-> split]
<1>2. a \in Attempts
  BY EvidenceAssumption DEF Create, Attempts, StoreShape
<1> HIDE DEF a
<1>3. writer' = [writer EXCEPT ![r] = [by |-> a, next |-> 1]]
  BY <1>1 DEF a
<1>4. /\ r \notin DOMAIN dirs
      /\ DOMAIN dirs' = DOMAIN dirs \cup {r} /\ DOMAIN checksums' = DOMAIN dirs \cup {r}
      /\ dirs'[r] = NoFiles /\ checksums'[r] = NoChecksums
      /\ \A q \in DOMAIN dirs : dirs'[q] = dirs[q] /\ checksums'[q] = checksums[q]
      /\ attempts' = attempts + 1 /\ sealed' = sealed /\ late' = late /\ UNCHANGED loader
  BY DEF Create, environment
<1>5. StoreShape'
  <2>1. NoFiles \in Files
    BY DEF NoFiles, Files
  <2>2. dirs' \in [DOMAIN dirs' -> Files]
    BY <1>4, <2>1 DEF Create, StoreShape
  <2>3. writer' \in [RunIDs -> [by : Attempts, next : 1 .. 6] \cup {NoWriter}]
    BY <1>2, <1>3 DEF StoreShape
  <2>4. \A q \in DOMAIN dirs' :
           checksums'[q] = [of |-> checksums'[q].of, whole |-> checksums'[q].whole]
    BY <1>4 DEF StoreShape, NoChecksums
  <2>5. attempts' \in Nat
    BY <1>4 DEF StoreShape
  <2> QED BY <1>4, <2>2, <2>3, <2>4, <2>5 DEF StoreShape
<1>6. writer'[r] = [by |-> a, next |-> 1] /\ \A q \in RunIDs \ {r} : writer'[q] = writer[q]
  BY <1>3 DEF StoreShape
<1>7. WriterInv'
  <2>1. WriterOf(r)'
    BY <1>4, <1>6 DEF WriterOf, NoChecksums
  <2> QED BY <1>4, <1>6, <2>1, OtherRuns
<1>8. SealInv'
  BY <1>4 DEF SealInv, NoChecksums
<1>9. ASSUME LoaderInv PROVE LoaderInv'
  <2>1. \A q \in DOMAIN dirs : q \in RunIDs \ {r} /\ q \in DOMAIN dirs'
    BY <1>4 DEF StoreShape
  <2>2. \A q \in DOMAIN dirs : q \in DOMAIN dirs' /\ writer'[q] = writer[q] /\ dirs'[q] = dirs[q]
    BY <1>4, <1>6, <2>1
  <2> QED BY <1>4, <1>9, <2>2, LoaderUndisturbed
<1> QED BY <1>5, <1>7, <1>8, <1>9

LEMMA WriteArtifactKeepsStore ==
    ASSUME StoreInv, NEW r \in RunIDs, WriteArtifact(r)
    PROVE  StoreInv' /\ (LoaderInv => LoaderInv')
<1> USE DEF StoreInv
<1> DEFINE n == writer[r].next
<1> DEFINE f == WriteOrder[n]
<1> DEFINE a == writer[r].by
<1>1. n \in 1 .. 5 /\ f \in Artifacts
  BY ArtifactNames DEF WriteArtifact
<1>2. writer[r] # NoWriter /\ a \in Attempts /\ writer[r] = [by |-> a, next |-> n]
  BY <1>1 DEF StoreShape, NoWriter
<1>3. /\ r \in DOMAIN dirs /\ ~checksums[r].whole
      /\ \A i \in 1 .. n - 1 : dirs[r][WriteOrder[i]] = Whole(a)
      /\ checksums[r] = NoChecksums
  BY <1>1, <1>2 DEF WriterInv, WriterOf
<1>4. PICK c \in Contents :
         /\ dirs' = [dirs EXCEPT ![r][f] = c]
         /\ \/ writer' = writer
            \/ c = Whole(a) /\ writer' = [writer EXCEPT ![r].next = @ + 1]
  <2>1. [by |-> a, whole |-> FALSE] \in Contents /\ [by |-> a, whole |-> TRUE] \in Contents
    BY <1>2 DEF Contents
  <2>2. CASE dirs[r][f] = Absent
    BY <2>1, <2>2 DEF WriteArtifact
  <2>3. CASE dirs[r][f] # Absent
    BY <2>1, <2>3 DEF WriteArtifact, Whole
  <2> QED BY <2>2, <2>3
<1>5. checksums' = checksums /\ attempts' = attempts /\ sealed' = sealed /\ late' = late
      /\ UNCHANGED loader
  BY DEF WriteArtifact, environment
<1> HIDE DEF f
<1>6. /\ dirs \in [DOMAIN dirs -> Files] /\ dirs[r] \in Files
  BY <1>3 DEF StoreShape
<1>7. /\ DOMAIN dirs' = DOMAIN dirs
      /\ dirs'[r] = [dirs[r] EXCEPT ![f] = c]
      /\ \A q \in DOMAIN dirs \ {r} : dirs'[q] = dirs[q]
      /\ dirs' \in [DOMAIN dirs' -> Files]
  BY <1>1, <1>3, <1>4, <1>6 DEF Files
<1>8. \/ writer' = writer
      \/ c = Whole(a) /\ writer' = [writer EXCEPT ![r] = [by |-> a, next |-> n + 1]]
  BY <1>2, <1>4 DEF StoreShape
<1> HIDE DEF a, n
<1>9. /\ writer' \in [RunIDs -> [by : Attempts, next : 1 .. 6] \cup {NoWriter}]
      /\ \A q \in RunIDs \ {r} : writer'[q] = writer[q]
      /\ \/ writer'[r] = writer[r]
         \/ c = Whole(a) /\ writer'[r] = [by |-> a, next |-> n + 1]
  BY <1>1, <1>2, <1>8 DEF StoreShape
<1>10. StoreShape'
  BY <1>5, <1>7, <1>9 DEF StoreShape
<1>11. \A i \in 1 .. n - 1 : dirs'[r][WriteOrder[i]] = Whole(a)
  <2> SUFFICES ASSUME NEW i \in 1 .. n - 1 PROVE dirs'[r][WriteOrder[i]] = Whole(a)
    OBVIOUS
  <2>1. WriteOrder[i] \in Artifacts /\ WriteOrder[i] # f
    BY <1>1 DEF Artifacts, WriteOrder, f
  <2> QED BY <1>3, <1>6, <1>7, <2>1 DEF Files
<1>12. c = Whole(a) => \A i \in 1 .. n : dirs'[r][WriteOrder[i]] = Whole(a)
  <2>1. dirs'[r][f] = c
    BY <1>1, <1>6, <1>7 DEF Files
  <2>2. \A i \in 1 .. n : i = n \/ i \in 1 .. n - 1
    BY <1>1
  <2> QED BY <1>11, <2>1, <2>2 DEF f
<1>13. WriterOf(r)'
  <2>1. CASE writer'[r] = writer[r]
    BY <1>2, <1>3, <1>5, <1>7, <1>11, <2>1 DEF WriterOf
  <2>2. CASE c = Whole(a) /\ writer'[r] = [by |-> a, next |-> n + 1]
    <3>1. writer'[r].by = a /\ writer'[r].next - 1 = n
      BY <1>1, <2>2
    <3> QED BY <1>3, <1>5, <1>7, <1>12, <2>2, <3>1 DEF WriterOf
  <2> QED BY <1>9, <2>1, <2>2
<1>14. WriterInv'
  BY <1>5, <1>7, <1>9, <1>13, OtherRuns
<1>15. SealInv'
  BY <1>5, <1>7 DEF SealInv
<1>16. ASSUME LoaderInv PROVE LoaderInv'
  <2>1. \A q \in DOMAIN dirs : writer[q] = NoWriter => q \in RunIDs \ {r}
    BY <1>2 DEF StoreShape
  <2> QED BY <1>5, <1>7, <1>9, <1>16, <2>1, LoaderUndisturbed
<1> QED BY <1>10, <1>14, <1>15, <1>16

\* The five artifacts are whole and of one attempt when they are hashed.
LEMMA WriteChecksumsKeepsStore ==
    ASSUME StoreInv, NEW r \in RunIDs, WriteChecksums(r)
    PROVE  StoreInv' /\ (LoaderInv => LoaderInv')
<1> USE DEF StoreInv
<1> DEFINE a == writer[r].by
<1>1. writer[r].next = 6
  BY ArtifactNames DEF WriteChecksums
<1>2. writer[r] # NoWriter /\ a \in Attempts
  BY <1>1 DEF StoreShape, NoWriter
<1>3. /\ r \in DOMAIN dirs /\ ~checksums[r].whole
      /\ \A i \in 1 .. 5 : dirs[r][WriteOrder[i]] = Whole(a)
      /\ checksums[r] = NoChecksums \/ checksums[r].of = SealOf(a)
  BY <1>1, <1>2 DEF WriterInv, WriterOf
<1> HIDE DEF a
<1>4. \A f \in Artifacts : dirs[r][f] = Whole(a)
  BY <1>3, ArtifactNames
<1>5. [f \in Artifacts |-> Hash(f, dirs[r][f])] = SealOf(a)
  BY <1>4 DEF SealOf
<1>6. dirs' = dirs /\ attempts' = attempts /\ late' = late /\ UNCHANGED loader
  BY DEF WriteChecksums, environment
<1>7. r \in DOMAIN checksums /\ DOMAIN checksums = DOMAIN dirs
  BY <1>3 DEF StoreShape
<1>8. CASE /\ checksums[r] = NoChecksums
           /\ checksums' = [checksums EXCEPT ![r] =
                 [of |-> [f \in Artifacts |-> Hash(f, dirs[r][f])], whole |-> FALSE]]
           /\ UNCHANGED <<writer, sealed>>
  <2>1. /\ DOMAIN checksums' = DOMAIN dirs
        /\ checksums'[r] = [of |-> SealOf(a), whole |-> FALSE]
        /\ \A q \in DOMAIN dirs \ {r} : checksums'[q] = checksums[q]
    BY <1>5, <1>7, <1>8 DEF StoreShape
  <2>2. writer' = writer /\ sealed' = sealed
    BY <1>8
  <2>3. StoreShape'
    <3>1. \A q \in DOMAIN dirs :
             checksums'[q] = [of |-> checksums'[q].of, whole |-> checksums'[q].whole]
      BY <2>1 DEF StoreShape
    <3> QED BY <1>6, <2>1, <2>2, <3>1 DEF StoreShape
  <2>4. WriterOf(r)'
    BY <1>1, <1>2, <1>3, <1>6, <2>1, <2>2 DEF WriterOf, a
  <2>5. WriterInv'
    BY <1>6, <2>1, <2>2, <2>4, OtherRuns
  <2>6. SealInv'
    BY <1>6, <2>1, <2>2 DEF SealInv
  <2>7. LoaderInv => LoaderInv'
    BY <1>6, <2>2, LoaderUndisturbed
  <2> QED BY <2>3, <2>5, <2>6, <2>7
<1>9. CASE /\ checksums[r] # NoChecksums
           /\ checksums' = [checksums EXCEPT ![r].whole = TRUE]
           /\ writer' = [writer EXCEPT ![r] = NoWriter]
           /\ sealed' = sealed \cup {writer[r].by}
  <2>1. /\ DOMAIN checksums' = DOMAIN dirs
        /\ checksums'[r] = [of |-> SealOf(a), whole |-> TRUE]
        /\ \A q \in DOMAIN dirs \ {r} : checksums'[q] = checksums[q]
    <3>1. checksums[r] = [of |-> checksums[r].of, whole |-> checksums[r].whole]
      BY <1>3 DEF StoreShape
    <3>2. checksums[r].of = SealOf(a)
      BY <1>3, <1>9
    <3>3. /\ DOMAIN checksums' = DOMAIN dirs
          /\ checksums'[r] = [of |-> checksums[r].of, whole |-> TRUE]
          /\ \A q \in DOMAIN dirs \ {r} : checksums'[q] = checksums[q]
      BY <1>7, <1>9, <3>1
    <3> QED BY <3>2, <3>3
  <2>2. /\ sealed' = sealed \cup {a} /\ sealed' \subseteq Attempts
        /\ writer' \in [RunIDs -> [by : Attempts, next : 1 .. 6] \cup {NoWriter}]
        /\ writer'[r] = NoWriter /\ \A q \in RunIDs \ {r} : writer'[q] = writer[q]
    BY <1>2, <1>9 DEF StoreShape, a
  <2>3. StoreShape'
    <3>1. \A q \in DOMAIN dirs :
             checksums'[q] = [of |-> checksums'[q].of, whole |-> checksums'[q].whole]
      BY <2>1 DEF StoreShape
    <3> QED BY <1>6, <2>1, <2>2, <3>1 DEF StoreShape
  <2>4. WriterInv'
    <3>1. WriterOf(r)'
      BY <2>2 DEF WriterOf
    <3> QED BY <1>6, <2>1, <2>2, <3>1, OtherRuns
  <2>5. SealInv'
    BY <1>6, <2>1, <2>2 DEF SealInv
  <2>6. LoaderInv => LoaderInv'
    <3>1. \A q \in DOMAIN dirs : writer[q] = NoWriter => q \in RunIDs \ {r}
      BY <1>2 DEF StoreShape
    <3> QED BY <1>6, <2>2, <3>1, LoaderUndisturbed
  <2> QED BY <2>3, <2>4, <2>5, <2>6
<1> QED BY <1>8, <1>9 DEF WriteChecksums

LEMMA AbortKeepsStore ==
    ASSUME StoreInv, NEW r \in RunIDs, Abort(r)
    PROVE  StoreInv' /\ (LoaderInv => LoaderInv')
<1> USE DEF StoreInv
<1>1. /\ dirs' = dirs /\ checksums' = checksums /\ attempts' = attempts
      /\ sealed' = sealed /\ late' = late /\ UNCHANGED loader
      /\ writer' = [writer EXCEPT ![r] = NoWriter]
  BY DEF Abort, store, environment
<1>2. /\ writer' \in [RunIDs -> [by : Attempts, next : 1 .. 6] \cup {NoWriter}]
      /\ writer'[r] = NoWriter /\ \A q \in RunIDs \ {r} : writer'[q] = writer[q]
  BY <1>1 DEF StoreShape
<1>3. StoreShape'
  BY <1>1, <1>2 DEF StoreShape
<1>4. WriterInv'
  <2>1. WriterOf(r)'
    BY <1>2 DEF WriterOf
  <2> QED BY <1>1, <1>2, <2>1, OtherRuns
<1>5. SealInv'
  BY <1>1 DEF SealInv
<1>6. LoaderInv => LoaderInv'
  <2>1. \A q \in DOMAIN dirs : writer[q] = NoWriter => writer'[q] = NoWriter
    BY <1>2 DEF StoreShape
  <2> QED BY <1>1, <2>1, LoaderUndisturbed
<1> QED BY <1>3, <1>4, <1>5, <1>6

-----------------------------------------------------------------------------
(* Steps of the environment *)

\* A touched directory has no attempt going on, and if it is one the loader has
\* begun with then it counts as touched from now on.
LEMMA TouchKeeps ==
    ASSUME StoreInv, NEW r \in RunIDs, Touch(r),
           DOMAIN dirs' = DOMAIN dirs, DOMAIN checksums' = DOMAIN dirs,
           dirs' \in [DOMAIN dirs -> Files],
           checksums'[r] = [of |-> checksums'[r].of, whole |-> checksums'[r].whole],
           checksums'[r].whole =>
               \E q \in DOMAIN dirs : checksums[q].whole /\ checksums'[r].of = checksums[q].of,
           \A q \in DOMAIN dirs \ {r} : dirs'[q] = dirs[q] /\ checksums'[q] = checksums[q]
    PROVE  StoreInv' /\ (LoaderInv => LoaderInv')
<1> USE DEF StoreInv
<1>1. /\ writer[r] = NoWriter /\ writer' = writer /\ attempts' = attempts
      /\ sealed' = sealed /\ UNCHANGED loader
      /\ late' = IF Begun(r) THEN late \cup {r} ELSE late
  BY DEF Touch, writers
<1>2. StoreShape'
  BY <1>1 DEF StoreShape
<1>3. WriterInv'
  <2>1. WriterOf(r)'
    BY <1>1 DEF WriterOf
  <2> QED BY <1>1, <2>1, OtherRuns
<1>4. SealInv'
  <2> SUFFICES ASSUME NEW p \in DOMAIN dirs, checksums'[p].whole
               PROVE  \E a \in sealed : checksums'[p].of = SealOf(a)
    BY <1>1 DEF SealInv
  <2>1. PICK q \in DOMAIN dirs : checksums[q].whole /\ checksums'[p].of = checksums[q].of
    OBVIOUS
  <2> QED BY <2>1 DEF SealInv
<1>5. LoaderInv => LoaderInv'
  BY <1>1, LoaderUndisturbed
<1> QED BY <1>2, <1>3, <1>4, <1>5

LEMMA DamageKeepsStore ==
    ASSUME StoreInv, NEW r \in RunIDs, Damage(r)
    PROVE  StoreInv' /\ (LoaderInv => LoaderInv')
<1> USE DEF StoreInv
<1>1. r \in DOMAIN dirs /\ Touch(r)
  BY DEF Damage
<1>2. /\ dirs \in [DOMAIN dirs -> Files] /\ DOMAIN checksums = DOMAIN dirs
      /\ checksums[r] = [of |-> checksums[r].of, whole |-> checksums[r].whole]
  BY <1>1 DEF StoreShape
<1>3. ASSUME NEW f \in Artifacts, dirs[r][f].whole,
             dirs' = [dirs EXCEPT ![r][f].whole = FALSE], checksums' = checksums
      PROVE  StoreInv' /\ (LoaderInv => LoaderInv')
  <2>1. dirs[r][f] \in Contents \cup {Absent}
    BY <1>1, <1>2 DEF Files
  <2>2. dirs[r][f] # Absent
    BY <1>3 DEF Absent
  <2>3. [dirs[r][f] EXCEPT !.whole = FALSE] \in Contents \cup {Absent}
    BY <2>1, <2>2 DEF Contents
  <2>4. /\ DOMAIN dirs' = DOMAIN dirs /\ dirs' \in [DOMAIN dirs -> Files]
        /\ \A q \in DOMAIN dirs \ {r} : dirs'[q] = dirs[q]
    BY <1>1, <1>2, <1>3, <2>3 DEF Files
  <2> QED BY <1>1, <1>2, <1>3, <2>4, TouchKeeps
<1>4. ASSUME checksums[r].whole, checksums' = [checksums EXCEPT ![r].whole = FALSE],
             dirs' = dirs
      PROVE  StoreInv' /\ (LoaderInv => LoaderInv')
  <2>1. /\ DOMAIN checksums' = DOMAIN dirs
        /\ checksums'[r] = [of |-> checksums[r].of, whole |-> FALSE]
        /\ \A q \in DOMAIN dirs \ {r} : checksums'[q] = checksums[q]
    BY <1>1, <1>2, <1>4
  <2>2. /\ checksums'[r] = [of |-> checksums'[r].of, whole |-> checksums'[r].whole]
        /\ ~checksums'[r].whole
    BY <2>1
  <2> QED BY <1>1, <1>2, <1>4, <2>1, <2>2, TouchKeeps
<1> QED BY <1>3, <1>4 DEF Damage

LEMMA MixUpKeepsStore ==
    ASSUME StoreInv, NEW r \in RunIDs, NEW q \in RunIDs, MixUp(r, q)
    PROVE  StoreInv' /\ (LoaderInv => LoaderInv')
<1> USE DEF StoreInv
<1>1. r \in DOMAIN dirs /\ q \in DOMAIN dirs /\ Touch(r)
  BY DEF MixUp
<1>2. /\ dirs \in [DOMAIN dirs -> Files] /\ DOMAIN checksums = DOMAIN dirs
      /\ \A p \in DOMAIN dirs :
            checksums[p] = [of |-> checksums[p].of, whole |-> checksums[p].whole]
  BY DEF StoreShape
<1>3. /\ DOMAIN dirs' = DOMAIN dirs /\ dirs' \in [DOMAIN dirs -> Files]
      /\ \A p \in DOMAIN dirs \ {r} : dirs'[p] = dirs[p]
  <2>1. CASE dirs' = dirs
    BY <1>2, <2>1
  <2>2. ASSUME NEW f \in Artifacts, dirs' = [dirs EXCEPT ![r][f] = dirs[q][f]]
        PROVE  <1>3!:
    BY <1>1, <1>2, <2>2 DEF Files
  <2>3. CASE dirs' = [dirs EXCEPT ![r] = dirs[q]]
    BY <1>1, <1>2, <2>3
  <2> QED BY <2>1, <2>2, <2>3 DEF MixUp
<1>4. /\ DOMAIN checksums' = DOMAIN dirs
      /\ checksums'[r] = checksums[r] \/ checksums'[r] = checksums[q]
      /\ \A p \in DOMAIN dirs \ {r} : checksums'[p] = checksums[p]
  BY <1>1, <1>2 DEF MixUp
<1>5. /\ checksums'[r] = [of |-> checksums'[r].of, whole |-> checksums'[r].whole]
      /\ checksums'[r].whole =>
            \E p \in DOMAIN dirs : checksums[p].whole /\ checksums'[r].of = checksums[p].of
  BY <1>1, <1>2, <1>4
<1> QED BY <1>1, <1>3, <1>4, <1>5, TouchKeeps

LEMMA RemoveKeepsStore ==
    ASSUME StoreInv, NEW r \in RunIDs, Remove(r)
    PROVE  StoreInv' /\ (LoaderInv => LoaderInv')
<1> USE DEF StoreInv
<1>1. /\ writer[r] = NoWriter /\ ~Begun(r) /\ writer' = writer /\ attempts' = attempts
      /\ sealed' = sealed /\ late' = late /\ UNCHANGED loader
      /\ dirs' = [q \in DOMAIN dirs \ {r} |-> dirs[q]]
      /\ checksums' = [q \in DOMAIN dirs \ {r} |-> checksums[q]]
  BY DEF Remove, writers, environment
<1>2. /\ DOMAIN dirs' = DOMAIN dirs \ {r} /\ DOMAIN checksums' = DOMAIN dirs'
      /\ \A q \in DOMAIN dirs \ {r} : dirs'[q] = dirs[q] /\ checksums'[q] = checksums[q]
  BY <1>1
<1>3. dirs' \in [DOMAIN dirs' -> Files]
  BY <1>1 DEF StoreShape
<1>4. StoreShape'
  BY <1>1, <1>2, <1>3 DEF StoreShape
<1>5. WriterInv'
  <2>1. WriterOf(r)'
    BY <1>1 DEF WriterOf
  <2> QED BY <1>1, <1>2, <2>1, OtherRuns
<1>6. SealInv'
  BY <1>1, <1>2 DEF SealInv
<1>7. LoaderInv => LoaderInv'
  <2>1. \A q \in DOMAIN dirs : Begun(q) => q \in DOMAIN dirs' /\ dirs'[q] = dirs[q]
    BY <1>1, <1>2
  <2> QED BY <1>1, <2>1, LoaderUndisturbed
<1> QED BY <1>4, <1>5, <1>6, <1>7

-----------------------------------------------------------------------------
(* Steps of the loader *)

\* The loader changes no file, and until it accepts a run nothing it has accepted.
LEMMA LoaderOnlyReads ==
    ASSUME StoreInv, UNCHANGED <<store, writers, environment>>
    PROVE  StoreInv'
<1>1. /\ dirs' = dirs /\ checksums' = checksums
      /\ writer' = writer /\ attempts' = attempts /\ sealed' = sealed
  BY DEF store, writers
<1>2. StoreShape' /\ SealInv'
  BY <1>1 DEF StoreInv, StoreShape, SealInv
<1>3. WriterInv'
  BY <1>1 DEF StoreInv, WriterInv, WriterOf
<1> QED BY <1>2, <1>3 DEF StoreInv

LEMMA AcceptedStays ==
    ASSUME LoaderInv, UNCHANGED <<store, writers, index, loaded, environment>>
    PROVE  /\ (LoadedInv /\ AnalysedIsSealed /\ AnalysedIsIntact)'
           /\ dirs' = dirs /\ checksums' = checksums /\ writer' = writer
           /\ sealed' = sealed /\ late' = late
           /\ index' = index /\ loaded' = loaded /\ Current' = Current
<1>1. /\ dirs' = dirs /\ checksums' = checksums /\ writer' = writer
      /\ sealed' = sealed /\ late' = late /\ index' = index /\ loaded' = loaded
  BY DEF store, writers, environment
<1>2. LoadedInv' /\ AnalysedIsSealed' /\ AnalysedIsIntact'
  BY <1>1 DEF LoaderInv, LoadedInv, AnalysedIsSealed, AnalysedIsIntact
<1> QED BY <1>1, <1>2 DEF Current

\* An error ends the loading.
LEMMA RefusedKeepsLoader ==
    ASSUME LoaderInv, UNCHANGED <<store, writers, index, loaded, environment>>,
           position' \in 1 .. 6, stage' \in {"refused", "done", "idle"}
    PROVE  LoaderInv'
<1>1. stage' \in Stages /\ stage' \notin ChecksumsRead \cup {"checksums.json"}
  BY DEF Stages, ChecksumsRead, ManifestRead
<1>2. LoaderShape'
  BY <1>1, AcceptedStays DEF LoaderInv, LoaderShape
<1>3. ReadingInv'
  BY <1>1 DEF ReadingInv, ManifestRead, ScenarioRead, ChecksumsRead
<1> QED BY <1>2, <1>3, AcceptedStays DEF LoaderInv

LEMMA InspectDirectoryKeepsLoader ==
    ASSUME LoaderInv, InspectDirectory
    PROVE  LoaderInv'
<1>1. /\ UNCHANGED <<store, writers, index, loaded, environment>>
      /\ position' = position /\ index <= Len(RunOrder)
      /\ \/ stage' = "refused"
         \/ stage' = "checksums.json" /\ Current \in DOMAIN dirs
  BY DEF InspectDirectory, Proceed
<1>2. position \in 1 .. 6
  BY DEF LoaderInv, LoaderShape
<1>3. CASE stage' = "refused"
  BY <1>1, <1>2, <1>3, RefusedKeepsLoader
<1>4. CASE stage' = "checksums.json" /\ Current \in DOMAIN dirs
  <2>1. stage' \in Stages /\ stage' \notin ChecksumsRead
    BY <1>4 DEF Stages, ChecksumsRead, ManifestRead
  <2>2. LoaderShape'
    BY <1>1, <2>1, AcceptedStays DEF LoaderInv, LoaderShape
  <2>3. ReadingInv'
    BY <1>1, <1>4, <2>1, AcceptedStays DEF ReadingInv, ChecksumsRead, ManifestRead, ScenarioRead
  <2> QED BY <1>1, <2>2, <2>3, AcceptedStays DEF LoaderInv
<1> QED BY <1>1, <1>3, <1>4

\* Checksums that are whole were sealed, and nobody writes to the directory any more.
LEMMA ReadChecksumsKeepsLoader ==
    ASSUME StoreInv, LoaderInv, ReadChecksums
    PROVE  LoaderInv'
<1>1. /\ UNCHANGED <<store, writers, index, loaded, environment>>
      /\ position' = 1 /\ stage = "checksums.json" /\ expected' = checksums[Current].of
      /\ \/ stage' = "refused"
         \/ stage' = "hash" /\ checksums[Current].whole
  BY DEF ReadChecksums, Proceed
<1>2. CASE stage' = "refused"
  BY <1>1, <1>2, RefusedKeepsLoader
<1>3. CASE stage' = "hash" /\ checksums[Current].whole
  <2>1. Current \in DOMAIN dirs /\ Current \in RunIDs
    BY <1>1, LoaderHasBegun DEF LoaderInv, ReadingInv
  <2>2. writer[Current] = NoWriter
    BY <1>3, <2>1 DEF StoreInv, WriterInv, WriterOf
  <2>3. \E a \in sealed : checksums[Current].of = SealOf(a)
    BY <1>3, <2>1 DEF StoreInv, SealInv
  <2>4. stage' \in Stages /\ stage' \notin ManifestRead /\ stage' # "checksums.json"
    BY <1>3 DEF Stages, ChecksumsRead, ManifestRead
  <2>5. LoaderShape'
    BY <1>1, <2>4, AcceptedStays DEF LoaderInv, LoaderShape
  <2>6. \A i \in 1 .. position' - 1 : FALSE
    BY <1>1
  <2>7. ReadingInv'
    BY <1>1, <1>3, <2>1, <2>2, <2>3, <2>4, <2>6, AcceptedStays
       DEF ReadingInv, ScenarioRead
  <2> QED BY <1>1, <2>5, <2>7, AcceptedStays DEF LoaderInv
<1> QED BY <1>1, <1>2, <1>3

LEMMA HashArtifactKeepsLoader ==
    ASSUME LoaderInv, HashArtifact
    PROVE  LoaderInv'
<1> DEFINE f == checksummedRunArtifacts[position]
<1>1. /\ UNCHANGED <<store, writers, index, loaded, environment>>
      /\ position' = position + 1 /\ position <= 5 /\ stage = "hash"
      /\ expected' = expected /\ manifest' = manifest
      /\ \/ stage' = "refused"
         \/ stage' = "hash" /\ Hash(f, File(f)) = expected[f]
  BY ArtifactNames DEF HashArtifact, Proceed
<1>2. position \in 1 .. 6 /\ position' \in 1 .. 6
  BY <1>1 DEF LoaderInv, LoaderShape
<1>3. CASE stage' = "refused"
  BY <1>1, <1>2, <1>3, RefusedKeepsLoader
<1>4. CASE stage' = "hash" /\ Hash(f, File(f)) = expected[f]
  <2>1. stage' = stage /\ stage \in ChecksumsRead /\ stage \notin ManifestRead
    BY <1>1, <1>4 DEF ChecksumsRead, ManifestRead
  <2>2. LoaderShape'
    BY <1>1, <1>2, <2>1, AcceptedStays DEF LoaderInv, LoaderShape
  <2>3. \A i \in 1 .. position' - 1 : i = position \/ i \in 1 .. position - 1
    BY <1>1, <1>2
  <2>4. ReadingInv
    BY DEF LoaderInv
  <2>5. ASSUME Current \notin late
        PROVE  \A i \in 1 .. position' - 1 :
                  Hash(checksummedRunArtifacts[i], File(checksummedRunArtifacts[i]))
                      = expected[checksummedRunArtifacts[i]]
    BY <1>4, <2>1, <2>3, <2>4, <2>5 DEF ReadingInv
  <2>6. ReadingInv'
    BY <1>1, <2>1, <2>4, <2>5, AcceptedStays DEF ReadingInv, ScenarioRead, File
  <2> QED BY <1>1, <2>2, <2>6, AcceptedStays DEF LoaderInv
<1> QED BY <1>1, <1>3, <1>4

LEMMA ChecksumsVerifiedKeepsLoader ==
    ASSUME LoaderInv, ChecksumsVerified
    PROVE  LoaderInv'
<1>1. /\ UNCHANGED <<store, writers, index, loaded, environment>>
      /\ position' = position /\ position > 5 /\ stage = "hash"
      /\ expected' = expected /\ manifest' = manifest /\ stage' = "manifest.json"
  BY ArtifactNames DEF ChecksumsVerified, Proceed
<1>2. position = 6
  BY <1>1 DEF LoaderInv, LoaderShape
<1>3. /\ stage \in ChecksumsRead /\ stage' \in ChecksumsRead
      /\ stage' \in Stages /\ stage' \notin ManifestRead
  BY <1>1 DEF ChecksumsRead, ManifestRead, Stages
<1>4. LoaderShape'
  BY <1>1, <1>3, AcceptedStays DEF LoaderInv, LoaderShape
<1>5. ReadingInv'
  BY <1>1, <1>2, <1>3, AcceptedStays DEF LoaderInv, ReadingInv, ScenarioRead, File
<1> QED BY <1>1, <1>4, <1>5, AcceptedStays DEF LoaderInv

\* The second reading of the manifest.
LEMMA ReadManifestKeepsLoader ==
    ASSUME StoreInv, LoaderInv, ReadManifest
    PROVE  LoaderInv'
<1> DEFINE c == File("manifest.json")
<1>1. /\ UNCHANGED <<store, writers, index, loaded, environment>>
      /\ position' = position /\ stage = "manifest.json"
      /\ expected' = expected /\ manifest' = c
      /\ \/ stage' = "refused"
         \/ stage' = "scenario.yaml" /\ c.whole /\ c.by.run = Current
  BY DEF ReadManifest, Proceed
<1>2. position \in 1 .. 6
  BY DEF LoaderInv, LoaderShape
<1>3. CASE stage' = "refused"
  BY <1>1, <1>2, <1>3, RefusedKeepsLoader
<1>4. CASE stage' = "scenario.yaml" /\ c.whole /\ c.by.run = Current
  <2>1. /\ stage \in ChecksumsRead /\ stage' \in ChecksumsRead /\ stage' \in ManifestRead
        /\ stage' \in Stages /\ stage' \notin ScenarioRead /\ stage # "hash"
    BY <1>1, <1>4 DEF ChecksumsRead, ManifestRead, ScenarioRead, Stages
  <2>2. LoaderShape'
    BY <1>1, <2>1, AcceptedStays DEF LoaderInv, LoaderShape
  <2>3. ReadingInv
    BY DEF LoaderInv
  <2>4. c \in Contents
    <3>1. Current \in DOMAIN dirs
      BY <2>1, <2>3 DEF ReadingInv
    <3>2. c \in Contents \cup {Absent}
      BY <3>1, ArtifactNames DEF StoreInv, StoreShape, Files, File
    <3> QED BY <1>4, <3>2 DEF Absent
  <2>5. c = dirs[Current]["manifest.json"]
    BY DEF File
  <2> HIDE DEF c
  <2>6. ReadingInv'
    BY <1>1, <1>4, <2>1, <2>3, <2>4, <2>5, AcceptedStays DEF ReadingInv, File
  <2> QED BY <1>1, <2>2, <2>6, AcceptedStays DEF LoaderInv
<1> QED BY <1>1, <1>3, <1>4

LEMMA ReadScenarioKeepsLoader ==
    ASSUME LoaderInv, ReadScenario
    PROVE  LoaderInv'
<1>1. /\ UNCHANGED <<store, writers, index, loaded, environment>>
      /\ position' = position /\ stage = "scenario.yaml"
      /\ expected' = expected /\ manifest' = manifest
      /\ \/ stage' = "refused"
         \/ stage' = "metadata.json" /\ File("scenario.yaml").by.plan = ExpectedPlan
  BY DEF ReadScenario, Proceed
<1>2. position \in 1 .. 6
  BY DEF LoaderInv, LoaderShape
<1>3. CASE stage' = "refused"
  BY <1>1, <1>2, <1>3, RefusedKeepsLoader
<1>4. CASE stage' = "metadata.json" /\ File("scenario.yaml").by.plan = ExpectedPlan
  <2>1. /\ stage \in ChecksumsRead /\ stage \in ManifestRead /\ stage # "hash"
        /\ stage' \in ChecksumsRead /\ stage' \in ManifestRead /\ stage' \in Stages
    BY <1>1, <1>4 DEF ChecksumsRead, ManifestRead, Stages
  <2>2. LoaderShape'
    BY <1>1, <2>1, AcceptedStays DEF LoaderInv, LoaderShape
  <2>3. ReadingInv'
    BY <1>1, <1>4, <2>1, AcceptedStays DEF LoaderInv, ReadingInv, File
  <2> QED BY <1>1, <2>2, <2>3, AcceptedStays DEF LoaderInv
<1> QED BY <1>1, <1>3, <1>4

\* The metadata and the split are compared with the manifest and not kept.
LEMMA ReadRestKeepsLoader ==
    ASSUME LoaderInv, ReadMetadata \/ ReadRealizedSplit
    PROVE  LoaderInv'
<1>1. /\ UNCHANGED <<store, writers, index, loaded, environment>>
      /\ position' = position /\ expected' = expected /\ manifest' = manifest
      /\ stage \in {"metadata.json", "realized-split.json"}
      /\ stage' \in {"refused", "realized-split.json", "raw-timeseries.jsonl"}
  BY DEF ReadMetadata, ReadRealizedSplit, Proceed
<1>2. position \in 1 .. 6
  BY DEF LoaderInv, LoaderShape
<1>3. CASE stage' = "refused"
  BY <1>1, <1>2, <1>3, RefusedKeepsLoader
<1>4. CASE stage' # "refused"
  <2>1. /\ stage \in ChecksumsRead /\ stage \in ScenarioRead /\ stage # "hash"
        /\ stage' \in ChecksumsRead /\ stage' \in ScenarioRead /\ stage' \in Stages
    BY <1>1, <1>4 DEF ChecksumsRead, ManifestRead, ScenarioRead, Stages
  <2>2. LoaderShape'
    BY <1>1, <2>1, AcceptedStays DEF LoaderInv, LoaderShape
  <2>3. stage \in ManifestRead
    BY <2>1 DEF ScenarioRead
  <2>4. ReadingInv'
    BY <1>1, <2>1, <2>3, AcceptedStays DEF LoaderInv, ReadingInv, File
  <2> QED BY <1>1, <2>2, <2>4, AcceptedStays DEF LoaderInv
<1> QED BY <1>3, <1>4

\* The digests of the five artifacts are those of one sealed attempt, and the
\* manifest tells which: the run that is accepted is sealed and intact.
LEMMA AcceptedIsIntact ==
    ASSUME StoreInv, LoaderInv, stage = "raw-timeseries.jsonl", Current \notin late
    PROVE  /\ manifest.by \in sealed /\ manifest.by.plan = ExpectedPlan
           /\ \A f \in Artifacts : Hash(f, File(f)) = Hash(f, Whole(manifest.by))
<1>1. stage \in ChecksumsRead /\ stage \in ManifestRead /\ stage \in ScenarioRead
      /\ stage # "hash"
  BY DEF ChecksumsRead, ManifestRead, ScenarioRead
<1>2. /\ Current \in DOMAIN dirs /\ position = 6
      /\ manifest = File("manifest.json")
      /\ File("scenario.yaml").by.plan = ExpectedPlan
  BY <1>1 DEF LoaderInv, ReadingInv
<1>3. PICK a \in sealed : expected = SealOf(a)
  BY <1>1 DEF LoaderInv, ReadingInv
<1>4. \A f \in Artifacts : Hash(f, File(f)) = SealOf(a)[f]
  <2>1. \A i \in 1 .. 5 : Hash(checksummedRunArtifacts[i], File(checksummedRunArtifacts[i]))
                              = expected[checksummedRunArtifacts[i]]
    BY <1>1, <1>2 DEF LoaderInv, ReadingInv
  <2> QED BY <1>3, <2>1, ArtifactNames
<1>5. a \in Attempts /\ \A f \in Artifacts : File(f) \in Contents \cup {Absent}
  BY <1>2 DEF StoreInv, StoreShape, Files, File
<1>6. "manifest.json" \in Artifacts /\ "scenario.yaml" \in Artifacts
  BY ArtifactNames
<1>7. manifest = Whole(a)
  BY <1>2, <1>4, <1>5, <1>6, ManifestDigest
<1>8. manifest.by = a
  BY <1>7 DEF Whole
<1>9. a.plan = ExpectedPlan
  BY <1>2, <1>4, <1>5, <1>6, ScenarioDigest
<1>10. \A f \in Artifacts : Hash(f, File(f)) = Hash(f, Whole(a))
  BY <1>4 DEF SealOf
<1> QED BY <1>8, <1>9, <1>10

LEMMA InspectRawKeepsLoader ==
    ASSUME StoreInv, LoaderInv, InspectRaw
    PROVE  LoaderInv'
<1>1. /\ UNCHANGED <<store, writers, environment>>
      /\ position' = position /\ stage = "raw-timeseries.jsonl"
      /\ \/ /\ loaded' = Append(loaded, manifest) /\ index' = index + 1 /\ stage' = "idle"
         \/ stage' = "refused" /\ UNCHANGED <<index, loaded>>
  BY DEF InspectRaw
<1>2. position \in 1 .. 6
  BY DEF LoaderInv, LoaderShape
<1>3. CASE stage' = "refused" /\ UNCHANGED <<index, loaded>>
  BY <1>1, <1>2, <1>3, RefusedKeepsLoader
<1>4. CASE loaded' = Append(loaded, manifest) /\ index' = index + 1 /\ stage' = "idle"
  <2>1. stage \in ChecksumsRead /\ stage \in ManifestRead
        /\ stage' \in Stages /\ stage' \notin ChecksumsRead \cup {"checksums.json"}
    BY <1>1, <1>4 DEF ChecksumsRead, ManifestRead, Stages
  <2>2. /\ manifest \in Contents /\ manifest.whole /\ manifest.by.run = Current
        /\ Current \in DOMAIN dirs /\ writer[Current] = NoWriter
    BY <2>1 DEF LoaderInv, ReadingInv
  <2>3. /\ index \in 1 .. Len(RunOrder) /\ Len(RunOrder) \in Nat
        /\ loaded \in Seq(Contents) /\ Len(loaded) = index - 1
    BY <2>1, EvidenceAssumption DEF LoaderInv, LoaderShape
  <2>4. /\ loaded' \in Seq(Contents) /\ Len(loaded') = index
        /\ loaded'[index] = manifest
        /\ \A i \in 1 .. index - 1 : loaded'[i] = loaded[i]
    BY <1>4, <2>2, <2>3
  <2>5. \A i \in 1 .. Len(loaded') : i = index \/ i \in 1 .. Len(loaded)
    BY <2>3, <2>4
  <2>6. dirs' = dirs /\ writer' = writer /\ sealed' = sealed /\ late' = late
    BY <1>1 DEF store, writers, environment
  <2>7. LoaderShape'
    BY <1>1, <1>2, <1>4, <2>1, <2>3, <2>4 DEF LoaderShape
  <2>8. ReadingInv'
    BY <2>1 DEF ReadingInv, ManifestRead, ScenarioRead, ChecksumsRead
  <2>9. LoadedInv'
    BY <2>2, <2>5, <2>6 DEF LoaderInv, LoadedInv, Current
  <2>10. /\ Current \notin late => manifest.by \in sealed
         /\ Current \notin late => manifest.by.plan = ExpectedPlan
         /\ Current \notin late =>
               \A f \in Artifacts : Hash(f, dirs[Current][f]) = Hash(f, Whole(manifest.by))
    BY <1>1, AcceptedIsIntact DEF File
  <2>11. AnalysedIsSealed'
    BY <2>2, <2>3, <2>4, <2>5, <2>6, <2>10 DEF LoaderInv, AnalysedIsSealed, Current
  <2>12. AnalysedIsIntact'
    BY <2>3, <2>4, <2>5, <2>6, <2>10 DEF LoaderInv, AnalysedIsIntact, Current, Whole
  <2> QED BY <2>7, <2>8, <2>9, <2>11, <2>12 DEF LoaderInv
<1> QED BY <1>1, <1>3, <1>4

LEMMA LoadKeepsInv ==
    ASSUME StoreInv, LoaderInv, Load
    PROVE  StoreInv' /\ LoaderInv'
<1>1. StoreInv'
  <2>1. UNCHANGED <<store, writers, environment>>
    BY DEF Load, InspectDirectory, ReadChecksums, HashArtifact, ChecksumsVerified,
           ReadManifest, ReadScenario, ReadMetadata, ReadRealizedSplit, InspectRaw,
           Loaded, Proceed
  <2> QED BY <2>1, LoaderOnlyReads
<1>2. CASE Loaded
  <2>1. /\ UNCHANGED <<store, writers, index, loaded, environment>>
        /\ position' = position /\ stage' = "done"
    BY <1>2 DEF Loaded, Proceed
  <2>2. position \in 1 .. 6
    BY DEF LoaderInv, LoaderShape
  <2> QED BY <1>1, <2>1, <2>2, RefusedKeepsLoader
<1> QED BY <1>1, <1>2, InspectDirectoryKeepsLoader, ReadChecksumsKeepsLoader,
           HashArtifactKeepsLoader, ChecksumsVerifiedKeepsLoader, ReadManifestKeepsLoader,
           ReadScenarioKeepsLoader, ReadRestKeepsLoader, InspectRawKeepsLoader DEF Load

-----------------------------------------------------------------------------
(* The theorems *)

LEMMA InitInv == Init => StoreInv /\ LoaderInv
<1> SUFFICES ASSUME Init PROVE StoreInv /\ LoaderInv
  OBVIOUS
<1>1. /\ dirs = [r \in {} |-> NoFiles] /\ DOMAIN dirs = {} /\ DOMAIN checksums = {}
      /\ writer = [r \in RunIDs |-> NoWriter] /\ attempts = 0 /\ sealed = {}
      /\ index = 1 /\ stage = "idle" /\ position = 1 /\ loaded = <<>>
  BY DEF Init
<1>2. StoreShape /\ SealInv
  BY <1>1 DEF StoreShape, SealInv
<1>3. WriterInv
  BY <1>1 DEF WriterInv, WriterOf
<1>4. /\ stage \in Stages /\ stage \notin ChecksumsRead \cup {"checksums.json"}
      /\ stage \notin ManifestRead /\ stage \notin ScenarioRead
  BY <1>1 DEF Stages, ChecksumsRead, ManifestRead, ScenarioRead
<1>5. LoaderShape
  <2>1. Len(RunOrder) \in Nat
    BY EvidenceAssumption
  <2>2. loaded \in Seq(Contents) /\ Len(loaded) = 0
    BY <1>1
  <2> QED BY <1>1, <1>4, <2>1, <2>2 DEF LoaderShape
<1>6. ReadingInv
  BY <1>4 DEF ReadingInv
<1>7. LoadedInv /\ AnalysedIsSealed /\ AnalysedIsIntact
  BY <1>1 DEF LoadedInv, AnalysedIsSealed, AnalysedIsIntact
<1> QED BY <1>2, <1>3, <1>5, <1>6, <1>7 DEF StoreInv, LoaderInv

LEMMA NextInv == StoreInv /\ LoaderInv /\ [Next]_vars => (StoreInv /\ LoaderInv)'
<1> SUFFICES ASSUME StoreInv, LoaderInv, [Next]_vars PROVE StoreInv' /\ LoaderInv'
  OBVIOUS
<1>1. CASE UNCHANGED vars
  <2>1. /\ UNCHANGED <<store, writers, environment>> /\ UNCHANGED loader
        /\ writer' = writer /\ dirs' = dirs /\ sealed' = sealed /\ late' = late
    BY <1>1 DEF vars, store, writers, environment
  <2> QED BY <2>1, LoaderOnlyReads, LoaderUndisturbed
<1>2. ASSUME NEW r \in RunIDs, Write(r) PROVE StoreInv' /\ LoaderInv'
  BY <1>2, CreateKeepsStore, WriteArtifactKeepsStore, WriteChecksumsKeepsStore,
     AbortKeepsStore DEF Write
<1>3. ASSUME NEW r \in RunIDs, Damage(r) \/ Remove(r) PROVE StoreInv' /\ LoaderInv'
  BY <1>3, DamageKeepsStore, RemoveKeepsStore
<1>4. ASSUME NEW r \in RunIDs, NEW q \in RunIDs, MixUp(r, q) PROVE StoreInv' /\ LoaderInv'
  BY <1>4, MixUpKeepsStore
<1>5. CASE Load
  BY <1>5, LoadKeepsInv
<1> QED BY <1>1, <1>2, <1>3, <1>4, <1>5 DEF Next, Over

\* The inductive invariant holds whatever happens to the directories.
THEOREM InvHolds == Spec => [](StoreInv /\ LoaderInv)
BY InitInv, NextInv, PTL DEF Spec

\* LoadRunSummaries accepts the manifest of a run only as that run has written it,
\* and, unless the directory is touched while it is being read, only of an attempt
\* that has returned from its last write: no killed run is analysed, for any
\* number of attempts and however files were damaged or mixed up before.
THEOREM OnlySealedRunsAreAnalysed == Spec => []AnalysedIsSealed
<1>1. StoreInv /\ LoaderInv => AnalysedIsSealed
  BY DEF LoaderInv
<1> QED BY <1>1, InvHolds, PTL

\* verifyRunChecksums refuses every directory whose five artifacts are not those of
\* one attempt with the scenario of the analysis.
THEOREM DamageIsRefused == Spec => []AnalysedIsIntact
<1>1. StoreInv /\ LoaderInv => AnalysedIsIntact
  BY DEF LoaderInv
<1> QED BY <1>1, InvHolds, PTL

-----------------------------------------------------------------------------
(* Finite sets *)

\* Every collection of subsets of a finite set has a smallest member: the form in
\* which these proofs use induction over finite sets.
LEMMA SmallestMember ==
    ASSUME NEW S, IsFiniteSet(S), NEW B, B \subseteq SUBSET S, B # {}
    PROVE  \E T \in B : \A U \in B : U \subseteq T => U = T
<1>1. FiniteSubsetsOf(S) = SUBSET S
  BY FS_FiniteSubsetsOfFinite
<1>2. IsWellFoundedOn(StrictSubsetOrdering(S), SUBSET S)
  BY <1>1, FS_StrictSubsetOrderingWellFounded
<1>3. PICK T \in B : \A U \in B : ~(<<U, T>> \in StrictSubsetOrdering(S))
  BY <1>2, WFMin, Zenon
<1>4. ASSUME NEW U \in B, U \subseteq T PROVE U = T
  BY <1>3, <1>4 DEF StrictSubsetOrdering
<1> QED BY <1>4

\* The values of a function on a finite set have a highest and a lowest one.
LEMMA HighestValue ==
    ASSUME NEW D, IsFiniteSet(D), D # {}, NEW g \in [D -> Int]
    PROVE  \E t \in D : \A u \in D : g[u] <= g[t]
<1> DEFINE Bad == {T \in SUBSET D : T # {} /\ ~\E t \in T : \A u \in T : g[u] <= g[t]}
<1> SUFFICES ASSUME Bad # {} PROVE FALSE
  OBVIOUS
<1>1. PICK T \in Bad : \A U \in Bad : U \subseteq T => U = T
  <2> HIDE DEF Bad
  <2>1. Bad \subseteq SUBSET D
    BY DEF Bad
  <2> QED BY <2>1, SmallestMember
<1>2. PICK x \in T : TRUE
  OBVIOUS
<1>3. T \ {x} # {}
  BY <1>1
<1>4. T \ {x} \notin Bad
  BY <1>1, <1>2, Zenon
<1>5. PICK t \in T \ {x} : \A u \in T \ {x} : g[u] <= g[t]
  BY <1>3, <1>4
<1>6. g[t] \in Int /\ g[x] \in Int
  OBVIOUS
<1>7. \A u \in T : g[u] \in Int
  OBVIOUS
<1>8. CASE g[x] <= g[t]
  BY <1>5, <1>8
<1>9. CASE g[t] <= g[x]
  BY <1>5, <1>6, <1>7, <1>9
<1> QED BY <1>6, <1>8, <1>9

LEMMA LowestValue ==
    ASSUME NEW D, IsFiniteSet(D), D # {}, NEW g \in [D -> Int]
    PROVE  \E t \in D : \A u \in D : g[t] <= g[u]
<1> DEFINE h == [u \in D |-> -g[u]]
<1>1. h \in [D -> Int]
  OBVIOUS
<1>2. PICK t \in D : \A u \in D : h[u] <= h[t]
  <2> HIDE DEF h
  <2> QED BY <1>1, HighestValue
<1> QED BY <1>2

-----------------------------------------------------------------------------
(* The comparison of two runs *)

LEMMA TargetsAreFinite == IsFiniteSet(Targets) /\ Targets # {}
<1>1. IsFiniteSet({1, 2})
  <2>1. {1, 2} = {1} \cup {2}
    OBVIOUS
  <2>2. IsFiniteSet({1})
    BY FS_Singleton
  <2> QED BY <2>1, <2>2, FS_AddElement
<1>2. IsFiniteSet(Targets)
  BY <1>1, FS_Product, AnalysisAssumption DEF Targets, Clients
<1>3. PICK g \in Groups : TRUE
  BY AnalysisAssumption
<1>4. <<g, 1>> \in Targets
  BY DEF Targets, Clients
<1> QED BY <1>2, <1>4

\* minimumProgress and maximumProgress are what their names say, so that one
\* comparison stands for those of all pairs of targets.
LEMMA StrictlyLowerIsExact ==
    ASSUME NEW c \in Runs(ControlProgress), NEW f \in Runs(FaultProgress)
    PROVE  StrictlyLower(f, c) <=>
               \A t, u \in Targets : f.progress[t] < c.progress[u]
<1>1. c.progress \in [Targets -> Int] /\ f.progress \in [Targets -> Int]
  <2>1. ControlProgress \subseteq Int /\ FaultProgress \subseteq Int
    BY AnalysisAssumption
  <2>2. c.progress \in [Targets -> ControlProgress] /\ f.progress \in [Targets -> FaultProgress]
    BY DEF Runs
  <2> QED BY <2>1, <2>2
<1>2. PICK low \in Targets : \A t \in Targets : c.progress[low] <= c.progress[t]
  BY <1>1, TargetsAreFinite, LowestValue
<1>3. PICK high \in Targets : \A t \in Targets : f.progress[t] <= f.progress[high]
  BY <1>1, TargetsAreFinite, HighestValue
<1>4. /\ minimumProgress(c) \in {c.progress[t] : t \in Targets}
      /\ \A t \in Targets : minimumProgress(c) <= c.progress[t]
  BY <1>2 DEF minimumProgress
<1>5. /\ maximumProgress(f) \in {f.progress[t] : t \in Targets}
      /\ \A t \in Targets : f.progress[t] <= maximumProgress(f)
  BY <1>3 DEF maximumProgress
<1>6. PICK t1 \in Targets, u1 \in Targets :
          minimumProgress(c) = c.progress[t1] /\ maximumProgress(f) = f.progress[u1]
  BY <1>4, <1>5
<1>7. \A t \in Targets : c.progress[t] \in Int /\ f.progress[t] \in Int
  BY <1>1
<1> QED
  BY <1>4, <1>5, <1>6, <1>7 DEF StrictlyLower
-----------------------------------------------------------------------------
(* What is known of the gates while the loops go on *)

Loops == {"pairs", "complete", "prediction", "skew", "sides"}

\* What Gate A asks of one repetition.
PairHolds(r) ==
    /\ control[r].valid /\ fault[r].valid
    /\ \A t, u \in Targets : fault[r].progress[t] < control[r].progress[u]

GateShape ==
    /\ pc \in Loops \cup {"done"}
    /\ control \in Seq(Runs(ControlProgress))
    /\ fault \in Seq(Runs(FaultProgress))
    /\ Len(fault) = Len(control)
    /\ pc # "pairs" => Len(control) = NumReps
    /\ gateAValid \in BOOLEAN /\ gateBMatched \in BOOLEAN
    /\ gate \in [a : {"none", "yes", "no"},
                 b : {"none", "yes", "no", "not_evaluated"},
                 c : {"yes", "no", "not_evaluated"}]
    /\ pc \in Loops => gate.c = "not_evaluated"
    /\ pc \in Loops \ {"skew", "sides"} => direction = 0
    /\ pc \in {"pairs", "complete"} => DOMAIN recovery = {} /\ gateBMatched

\* gateAValid is the verdict on the repetitions compared so far, and none of those
\* was left out when it holds.
PairsInv ==
    pc = "pairs" =>
        /\ rep \in 1 .. NumReps + 1
        /\ Len(control) = rep - 1
        /\ gateAValid <=> \A r \in 1 .. rep - 1 : PairHolds(r)
        /\ gateAValid => pairs = rep - 1
        /\ complete = {}

\* Behind Gate A: the runs that the two loops over the fault runs have visited.
VisitedInv ==
    /\ pc \in Loops \ {"pairs"} => gate.a = "yes" /\ Valid
    /\ pc = "complete" => todo \subseteq Reps /\ complete = Reps \ todo
    /\ pc \in {"prediction", "skew", "sides"} => complete = Reps
    /\ pc = "prediction" =>
          /\ todo \subseteq Reps
          /\ DOMAIN recovery = Reps \ todo
          /\ \A r \in DOMAIN recovery : recovery[r] \in Recoveries
          /\ gateBMatched <=> \A r \in DOMAIN recovery : Predicted(fault[r], recovery[r])
    /\ pc \in {"skew", "sides"} => gate.b = "yes" /\ PredictionHeld

\* The sides that evaluateGateC has compared.
Compared(r, g) == r < rep \/ (r = rep /\ pc = "sides" /\ g \notin todo)

\* One family was later by the threshold on each of them, the one that direction
\* names; and direction names one only after such a side.
DirectionInv ==
    pc \in {"skew", "sides"} =>
        /\ rep \in 1 .. NumReps + 1
        /\ pc = "sides" => rep \in Reps /\ todo \subseteq Groups
        /\ direction \in {-1, 0, 1}
        /\ \A r \in Reps : r < rep \/ (r = rep /\ pc = "sides") => uniformProgress(control[r])
        /\ \A r \in Reps, g \in Groups : Compared(r, g) =>
              /\ MeetsThreshold(recovery[r][<<g, 1>>], recovery[r][<<g, 2>>])
              /\ direction = Later(recovery[r][<<g, 1>>], recovery[r][<<g, 2>>])
        /\ direction # 0 => \E r \in Reps, g \in Groups : Compared(r, g)

GatesAreExact == ValidityIsExact /\ PredictionIsExact /\ DifferentiationIsExact

GateInv == GateShape /\ PairsInv /\ VisitedInv /\ DirectionInv /\ GatesAreExact

-----------------------------------------------------------------------------
(* One lemma per loop *)

LEMMA InitGates == GateInit => GateInv
<1> SUFFICES ASSUME GateInit PROVE GateInv
  OBVIOUS
<1>1. /\ pc = "pairs" /\ rep = 1 /\ control = <<>> /\ fault = <<>> /\ complete = {}
      /\ gateAValid = TRUE /\ pairs = 0 /\ gateBMatched = TRUE /\ direction = 0
      /\ gate = [a |-> "none", b |-> "none", c |-> "not_evaluated"]
      /\ DOMAIN recovery = {}
  BY DEF GateInit
<1>2. GateShape
  BY <1>1 DEF GateShape, Loops
<1>3. PairsInv
  BY <1>1, AnalysisAssumption DEF PairsInv
<1> QED
  BY <1>1, <1>2, <1>3 DEF GateInv, VisitedInv, DirectionInv, GatesAreExact, Loops,
     ValidityIsExact, PredictionIsExact, DifferentiationIsExact

\* A repetition of Gate A adds its two runs and what they show.
LEMMA ComparePairKeeps == ASSUME GateInv, ComparePair PROVE GateInv'
<1> USE DEF GateInv
<1>1. /\ pc = "pairs" /\ pc' = "pairs" /\ rep \in 1 .. NumReps /\ rep' = rep + 1
      /\ complete' = complete /\ recovery' = recovery /\ gateBMatched' = gateBMatched
      /\ direction' = direction /\ gate' = gate
  BY AnalysisAssumption DEF ComparePair, verdict, PairsInv
<1>2. PICK c \in Runs(ControlProgress), f \in Runs(FaultProgress) :
          /\ control' = Append(control, c)
          /\ fault' = Append(fault, f)
          /\ \/ /\ c.valid /\ f.valid
                /\ gateAValid' = (gateAValid /\ StrictlyLower(f, c))
                /\ pairs' = pairs + 1
             \/ /\ ~c.valid \/ ~f.valid
                /\ gateAValid' = FALSE
                /\ UNCHANGED pairs
  BY DEF ComparePair
<1>3. /\ control \in Seq(Runs(ControlProgress)) /\ fault \in Seq(Runs(FaultProgress))
      /\ Len(control) = rep - 1 /\ Len(fault) = rep - 1
  BY <1>1 DEF GateShape, PairsInv
<1>4. /\ control' \in Seq(Runs(ControlProgress)) /\ fault' \in Seq(Runs(FaultProgress))
      /\ Len(control') = rep /\ Len(fault') = rep
      /\ control'[rep] = c /\ fault'[rep] = f
      /\ \A r \in 1 .. rep - 1 : control'[r] = control[r] /\ fault'[r] = fault[r]
  BY <1>1, <1>2, <1>3
<1>5. c.valid \in BOOLEAN /\ f.valid \in BOOLEAN
  BY DEF Runs
<1>6. \A r \in 1 .. rep - 1 : PairHolds(r)' <=> PairHolds(r)
  BY <1>4 DEF PairHolds
<1>7. PICK n \in Nat : n = rep
  BY <1>1
<1>8. PairHolds(n)' <=> c.valid /\ f.valid /\ StrictlyLower(f, c)
  <2>1. StrictlyLower(f, c) <=> \A t, u \in Targets : f.progress[t] < c.progress[u]
    BY StrictlyLowerIsExact
  <2>2. control'[n] = c /\ fault'[n] = f
    BY <1>4, <1>7
  <2> QED BY <2>1, <2>2 DEF PairHolds
<1>9. gateAValid' <=> gateAValid /\ c.valid /\ f.valid /\ StrictlyLower(f, c)
  BY <1>2, <1>5
<1>10. gateAValid <=> \A r \in 1 .. n - 1 : PairHolds(r)
  BY <1>1, <1>7 DEF PairsInv
<1>11. gateAValid' <=> \A r \in 1 .. n : PairHolds(r)'
  <2>1. \A r \in 1 .. n : r = n \/ r \in 1 .. n - 1
    OBVIOUS
  <2>2. n \in 1 .. n /\ \A r \in 1 .. n - 1 : r \in 1 .. n
    BY <1>1, <1>7
  <2>3. \A r \in 1 .. n - 1 : PairHolds(r)' <=> PairHolds(r)
    BY <1>6, <1>7
  <2> QED BY <1>8, <1>9, <1>10, <2>1, <2>2, <2>3, Zenon
<1>12. gateAValid' => pairs' = n
  <2>1. gateAValid' => gateAValid /\ pairs' = pairs + 1
    BY <1>2, <1>5
  <2> QED BY <1>1, <1>7, <2>1 DEF PairsInv
<1>13. rep' \in 1 .. NumReps + 1 /\ rep' - 1 = n
  BY <1>1, <1>7, AnalysisAssumption
<1>14. PairsInv'
  BY <1>1, <1>4, <1>7, <1>11, <1>12, <1>13 DEF PairsInv
<1>15. gateAValid' \in BOOLEAN
  BY <1>2 DEF StrictlyLower
<1>16. GateShape'
  BY <1>1, <1>4, <1>15 DEF GateShape, Loops
<1> QED
  BY <1>1, <1>14, <1>16 DEF VisitedInv, DirectionInv, GatesAreExact, Loops,
     ValidityIsExact, PredictionIsExact, DifferentiationIsExact

\* The verdict of Gate A.
LEMMA DecideGateAKeeps == ASSUME GateInv, DecideGateA PROVE GateInv'
<1> USE DEF GateInv
<1>1. /\ pc = "pairs" /\ rep = NumReps + 1 /\ control' = control /\ fault' = fault
      /\ complete' = complete /\ recovery' = recovery /\ gateAValid' = gateAValid
      /\ gateBMatched' = gateBMatched /\ direction' = direction
  BY AnalysisAssumption DEF DecideGateA, JudgePairs, summaries, PairsInv
<1>2. Len(control) = NumReps /\ direction = 0 /\ complete = {} /\ DOMAIN recovery = {}
  BY <1>1, AnalysisAssumption DEF PairsInv, GateShape, Loops
<1>3. gateAValid <=> Valid
  <2>1. 1 .. rep - 1 = Reps
    BY <1>1, AnalysisAssumption DEF Reps
  <2> QED BY <1>1, <2>1 DEF PairsInv, Valid, PairHolds
<1>4. Valid' <=> Valid
  BY <1>1 DEF Valid
<1>5. CASE /\ ~gateAValid \/ pairs # NumReps
           /\ Conclude([gate EXCEPT !.a = "no", !.b = "not_evaluated"], "invalid_experiment")
  <2>1. /\ pc' = "done" /\ conclusion' = "invalid_experiment"
        /\ gate' = [gate EXCEPT !.a = "no", !.b = "not_evaluated"]
    BY <1>5 DEF Conclude
  <2>2. gate'.a = "no" /\ gate'.b = "not_evaluated" /\ gate'.c = "not_evaluated"
    BY <1>1, <2>1 DEF GateShape, Loops
  <2>3. ~Valid'
    <3>1. rep - 1 = NumReps
      BY <1>1, AnalysisAssumption
    <3> QED BY <1>1, <1>3, <1>4, <1>5, <3>1 DEF PairsInv
  <2>4. GateShape'
    BY <1>1, <1>2, <2>1 DEF GateShape, Loops
  <2>5. GatesAreExact'
    BY <2>2, <2>3, <2>1 DEF GatesAreExact, ValidityIsExact, PredictionIsExact,
       DifferentiationIsExact
  <2> QED BY <2>1, <2>4, <2>5 DEF PairsInv, VisitedInv, DirectionInv, Loops
<1>6. CASE /\ gateAValid /\ pairs = NumReps
           /\ gate' = [gate EXCEPT !.a = "yes"]
           /\ pc' = "complete" /\ todo' = Reps
  <2>1. gate'.a = "yes" /\ gate'.c = "not_evaluated"
    BY <1>1, <1>6 DEF GateShape, Loops
  <2>2. GateShape'
    BY <1>1, <1>2, <1>6, <2>1 DEF GateShape, Loops
  <2>3. VisitedInv'
    BY <1>1, <1>2, <1>3, <1>4, <1>6, <2>1 DEF VisitedInv, Loops
  <2> QED
    BY <1>6, <2>2, <2>3 DEF PairsInv, DirectionInv, Loops, GatesAreExact,
       ValidityIsExact, PredictionIsExact, DifferentiationIsExact
<1> QED BY <1>5, <1>6 DEF DecideGateA, JudgePairs

\* The first loop over the fault runs, and its end.
LEMMA CompleteKeeps ==
    ASSUME GateInv, CheckRecoveryMeasurement \/ RecoveryMeasured
    PROVE  GateInv'
<1> USE DEF GateInv
<1>1. /\ pc = "complete" /\ control' = control /\ fault' = fault /\ recovery' = recovery
      /\ gateAValid' = gateAValid /\ gateBMatched' = gateBMatched /\ direction' = direction
  BY DEF CheckRecoveryMeasurement, RecoveryMeasured, summaries
<1>2. /\ gate.a = "yes" /\ gate.c = "not_evaluated" /\ Valid /\ direction = 0
      /\ todo \subseteq Reps /\ complete = Reps \ todo /\ DOMAIN recovery = {} /\ gateBMatched
  BY <1>1 DEF VisitedInv, GateShape, Loops
<1>3. Valid'
  BY <1>1, <1>2 DEF Valid
<1>4. CASE /\ pc' = pc /\ gate' = gate
           /\ \E r \in todo : complete' = complete \cup {r} /\ todo' = todo \ {r}
  <2>1. todo' \subseteq Reps /\ complete' = Reps \ todo'
    BY <1>2, <1>4
  <2>2. GateShape'
    BY <1>1, <1>4 DEF GateShape, Loops
  <2>3. VisitedInv'
    BY <1>1, <1>2, <1>3, <1>4, <2>1 DEF VisitedInv, Loops
  <2> QED
    BY <1>1, <1>4, <2>2, <2>3 DEF PairsInv, DirectionInv, Loops, GatesAreExact,
       ValidityIsExact, PredictionIsExact, DifferentiationIsExact
<1>5. CASE Conclude([gate EXCEPT !.b = "not_evaluated"], "invalid_experiment")
  <2>1. /\ pc' = "done" /\ conclusion' = "invalid_experiment"
        /\ gate' = [gate EXCEPT !.b = "not_evaluated"]
    BY <1>5 DEF Conclude
  <2>2. gate'.a = "yes" /\ gate'.b = "not_evaluated" /\ gate'.c = "not_evaluated"
    BY <1>2, <2>1 DEF GateShape
  <2>3. GateShape'
    BY <1>1, <2>1 DEF GateShape, Loops
  <2>4. GatesAreExact'
    BY <2>2, <1>3, <2>1 DEF GatesAreExact, ValidityIsExact, PredictionIsExact,
       DifferentiationIsExact
  <2> QED BY <2>1, <2>3, <2>4 DEF PairsInv, VisitedInv, DirectionInv, Loops
<1>6. CASE RecoveryMeasured
  <2>1. /\ pc' = "prediction" /\ todo' = Reps /\ complete' = Reps /\ gate' = gate
    BY <1>2, <1>6 DEF RecoveryMeasured, summaries, verdict
  <2>2. GateShape'
    BY <1>1, <1>2, <2>1 DEF GateShape, Loops
  <2>3. VisitedInv'
    BY <1>1, <1>2, <1>3, <2>1 DEF VisitedInv, Loops
  <2> QED
    BY <2>1, <2>2, <2>3 DEF PairsInv, DirectionInv, Loops, GatesAreExact,
       ValidityIsExact, PredictionIsExact, DifferentiationIsExact
<1> QED BY <1>4, <1>5, <1>6 DEF CheckRecoveryMeasurement, verdict


\* The second loop over the fault runs.
LEMMA CheckPredictionKeeps == ASSUME GateInv, CheckPrediction PROVE GateInv'
<1> USE DEF GateInv
<1>1. /\ pc = "prediction" /\ pc' = pc /\ control' = control /\ fault' = fault
      /\ complete' = complete /\ gateAValid' = gateAValid /\ direction' = direction
      /\ gate' = gate
  BY DEF CheckPrediction, verdict
<1>2. PICK r \in todo, slots \in Recoveries :
          /\ recovery' = [q \in DOMAIN recovery \cup {r} |->
                              IF q = r THEN slots ELSE recovery[q]]
          /\ gateBMatched' = (gateBMatched /\ Predicted(fault[r], slots))
          /\ todo' = todo \ {r}
  BY DEF CheckPrediction
<1>3. /\ todo \subseteq Reps /\ DOMAIN recovery = Reps \ todo
      /\ \A q \in DOMAIN recovery : recovery[q] \in Recoveries
      /\ gateBMatched <=> \A q \in DOMAIN recovery : Predicted(fault[q], recovery[q])
      /\ complete = Reps /\ gate.a = "yes" /\ Valid
  BY <1>1 DEF VisitedInv, Loops
<1>4. /\ todo' \subseteq Reps /\ DOMAIN recovery' = Reps \ todo'
      /\ DOMAIN recovery' = DOMAIN recovery \cup {r} /\ r \notin DOMAIN recovery
      /\ recovery'[r] = slots /\ \A q \in DOMAIN recovery : recovery'[q] = recovery[q]
  BY <1>2, <1>3
<1>5. \A q \in DOMAIN recovery' : recovery'[q] \in Recoveries
  BY <1>3, <1>4
<1>6. gateBMatched' <=> \A q \in DOMAIN recovery' : Predicted(fault'[q], recovery'[q])
  BY <1>1, <1>2, <1>3, <1>4 DEF Predicted
<1>7. gateBMatched' \in BOOLEAN
  BY <1>2 DEF Predicted
<1>8. GateShape'
  BY <1>1, <1>7 DEF GateShape, Loops
<1>9. Valid'
  BY <1>1, <1>3 DEF Valid
<1>10. VisitedInv'
  BY <1>1, <1>3, <1>4, <1>5, <1>6, <1>9 DEF VisitedInv, Loops
<1> QED
  BY <1>1, <1>8, <1>10 DEF PairsInv, DirectionInv, Loops, GatesAreExact,
     ValidityIsExact, PredictionIsExact, DifferentiationIsExact

\* The verdict of Gate B.
LEMMA DecideGateBKeeps == ASSUME GateInv, DecideGateB PROVE GateInv'
<1> USE DEF GateInv
<1>1. /\ pc = "prediction" /\ todo = {} /\ control' = control /\ fault' = fault
      /\ complete' = complete /\ recovery' = recovery /\ gateAValid' = gateAValid
      /\ gateBMatched' = gateBMatched /\ direction' = direction
  BY DEF DecideGateB, summaries
<1>2. /\ DOMAIN recovery = Reps /\ \A q \in Reps : recovery[q] \in Recoveries
      /\ gateBMatched <=> \A q \in Reps : Predicted(fault[q], recovery[q])
      /\ complete = Reps /\ gate.a = "yes" /\ Valid /\ direction = 0
      /\ gate.c = "not_evaluated"
  BY <1>1 DEF VisitedInv, GateShape, Loops
<1>3. \A q \in Reps, t \in Targets : recovery[q][t] # Censored <=> recovery[q][t] \in Slots
  BY <1>2, AnalysisAssumption DEF Recoveries
<1>4. gateBMatched <=> PredictionHeld
  BY <1>2, <1>3 DEF PredictionHeld, Predicted
<1>5. Valid' /\ (PredictionHeld' <=> PredictionHeld)
  BY <1>1, <1>2 DEF Valid, PredictionHeld
<1>6. CASE ~gateBMatched /\ Conclude([gate EXCEPT !.b = "no"], "network_level_finding")
  <2>1. pc' = "done" /\ gate' = [gate EXCEPT !.b = "no"]
    BY <1>6 DEF Conclude
  <2>2. gate'.a = "yes" /\ gate'.b = "no" /\ gate'.c = "not_evaluated"
    BY <1>2, <2>1 DEF GateShape
  <2>3. GateShape'
    BY <1>1, <2>1 DEF GateShape, Loops
  <2>4. GatesAreExact'
    BY <1>1, <1>2, <1>4, <1>5, <1>6, <2>1, <2>2 DEF GatesAreExact, ValidityIsExact,
       PredictionIsExact, DifferentiationIsExact
  <2> QED BY <2>1, <2>3, <2>4 DEF PairsInv, VisitedInv, DirectionInv, Loops
<1>7. CASE /\ gateBMatched /\ gate' = [gate EXCEPT !.b = "yes"] /\ pc' = "skew" /\ rep' = 1
  <2>1. gate'.a = "yes" /\ gate'.b = "yes" /\ gate'.c = "not_evaluated"
    BY <1>2, <1>7 DEF GateShape
  <2>2. GateShape'
    BY <1>1, <1>7, <2>1 DEF GateShape, Loops
  <2>3. VisitedInv'
    BY <1>1, <1>2, <1>4, <1>5, <1>7, <2>1 DEF VisitedInv, Loops
  <2>4. DirectionInv'
    BY <1>1, <1>2, <1>7, AnalysisAssumption DEF DirectionInv, Compared, Reps
  <2> QED
    BY <1>7, <2>2, <2>3, <2>4 DEF PairsInv, Loops, GatesAreExact,
       ValidityIsExact, PredictionIsExact, DifferentiationIsExact
<1> QED BY <1>6, <1>7 DEF DecideGateB

-----------------------------------------------------------------------------
(* Gate C *)

\* A family is later by the threshold exactly when the code says so.
LEMMA SlowerIsLater ==
    ASSUME NEW left \in Nat, NEW right \in Nat
    PROVE  /\ left >= right + Threshold <=>
                  MeetsThreshold(left, right) /\ Later(left, right) = 1
           /\ right >= left + Threshold <=>
                  MeetsThreshold(left, right) /\ Later(left, right) = -1
           /\ Later(left, right) \in {-1, 1}
BY AnalysisAssumption DEF MeetsThreshold, Later

\* What Gate C asks for, in the terms of the code.
LEMMA DifferentiatedBySide ==
    ASSUME PredictionHeld
    PROVE  Differentiated <=>
               /\ \A r \in Reps : uniformProgress(control[r])
               /\ \E d \in {-1, 1} : \A r \in Reps, g \in Groups :
                     /\ MeetsThreshold(recovery[r][<<g, 1>>], recovery[r][<<g, 2>>])
                     /\ Later(recovery[r][<<g, 1>>], recovery[r][<<g, 2>>]) = d
<1> DEFINE L(r, g) == recovery[r][<<g, 1>>]
           R(r, g) == recovery[r][<<g, 2>>]
<1>1. \A r \in Reps, g \in Groups : L(r, g) \in Nat /\ R(r, g) \in Nat
  <2>1. \A g \in Groups : <<g, 1>> \in Targets /\ <<g, 2>> \in Targets
    BY DEF Targets, Clients
  <2> QED BY <2>1, AnalysisAssumption DEF PredictionHeld
<1>2. \A r \in Reps, g \in Groups :
          /\ L(r, g) >= R(r, g) + Threshold <=>
                 MeetsThreshold(L(r, g), R(r, g)) /\ Later(L(r, g), R(r, g)) = 1
          /\ R(r, g) >= L(r, g) + Threshold <=>
                 MeetsThreshold(L(r, g), R(r, g)) /\ Later(L(r, g), R(r, g)) = -1
  <2> HIDE DEF L, R
  <2> QED BY <1>1, SlowerIsLater
<1>3. Differentiated <=>
          /\ \A r \in Reps : uniformProgress(control[r])
          /\ \/ \A r \in Reps, g \in Groups : L(r, g) >= R(r, g) + Threshold
             \/ \A r \in Reps, g \in Groups : R(r, g) >= L(r, g) + Threshold
  <2>1. 3 - 1 = 2 /\ 3 - 2 = 1
    OBVIOUS
  <2> QED BY <2>1 DEF Differentiated, Clients
<1> HIDE DEF L, R
<1>4. (\E d \in {-1, 1} : \A r \in Reps, g \in Groups :
           MeetsThreshold(L(r, g), R(r, g)) /\ Later(L(r, g), R(r, g)) = d)
       <=> \/ \A r \in Reps, g \in Groups : L(r, g) >= R(r, g) + Threshold
           \/ \A r \in Reps, g \in Groups : R(r, g) >= L(r, g) + Threshold
  BY <1>2
<1> QED BY <1>3, <1>4, Zenon DEF L, R

\* An early end of evaluateGateC is right.
LEMMA NoDifferenceKeeps ==
    ASSUME GateInv, pc \in {"skew", "sides"}, ~Differentiated, NoDifference,
           UNCHANGED <<summaries, gateAValid, pairs, gateBMatched>>
    PROVE  GateInv'
<1> USE DEF GateInv
<1>1. /\ pc' = "done" /\ gate' = [gate EXCEPT !.c = "no"]
      /\ control' = control /\ fault' = fault /\ complete' = complete
      /\ recovery' = recovery /\ gateAValid' = gateAValid /\ gateBMatched' = gateBMatched
      /\ direction' = direction
  BY DEF NoDifference, Conclude, summaries
<1>2. gate.a = "yes" /\ gate.b = "yes" /\ Valid /\ PredictionHeld /\ complete = Reps
  BY DEF VisitedInv, Loops
<1>3. gate'.a = "yes" /\ gate'.b = "yes" /\ gate'.c = "no"
  BY <1>1, <1>2 DEF GateShape
<1>4. Valid' /\ PredictionHeld' /\ ~Differentiated'
  BY <1>1, <1>2 DEF Valid, PredictionHeld, Differentiated
<1>5. GateShape'
  BY <1>1 DEF GateShape, Loops
<1>6. GatesAreExact'
  BY <1>1, <1>2, <1>3, <1>4 DEF GatesAreExact, ValidityIsExact, PredictionIsExact,
     DifferentiationIsExact
<1> QED BY <1>1, <1>5, <1>6 DEF PairsInv, VisitedInv, DirectionInv, Loops

\* A repetition of evaluateGateC begins.
LEMMA CheckSkewKeeps == ASSUME GateInv, CheckSkew PROVE GateInv'
<1> USE DEF GateInv
<1>1. pc = "skew" /\ rep \in Reps
  BY AnalysisAssumption DEF CheckSkew, DirectionInv, Reps
<1>2. CASE ~uniformProgress(control[rep]) /\ NoDifference
  <2>1. ~Differentiated
    BY <1>1, <1>2 DEF Differentiated
  <2> QED BY <1>1, <1>2, <2>1, NoDifferenceKeeps DEF CheckSkew
<1>3. CASE /\ uniformProgress(control[rep]) /\ pc' = "sides" /\ todo' = Groups
           /\ UNCHANGED <<rep, direction, verdict>>
  <2>1. /\ control' = control /\ fault' = fault /\ complete' = complete
        /\ recovery' = recovery /\ gateAValid' = gateAValid
        /\ gateBMatched' = gateBMatched /\ gate' = gate /\ rep' = rep
        /\ direction' = direction
    BY <1>3 DEF CheckSkew, summaries, verdict
  <2>2. GateShape'
    BY <1>1, <1>3, <2>1 DEF GateShape, Loops
  <2>3. VisitedInv'
    BY <1>1, <1>3, <2>1 DEF VisitedInv, Loops, Valid, PredictionHeld
  <2>4. \A r \in Reps, g \in Groups : Compared(r, g)' <=> Compared(r, g)
    BY <1>1, <1>3, <2>1 DEF Compared
  <2>5. \A r \in Reps : r < rep' \/ (r = rep' /\ pc' = "sides") =>
                            uniformProgress(control'[r])
    BY <1>1, <1>3, <2>1 DEF DirectionInv, uniformProgress
  <2>6. DirectionInv'
    BY <1>1, <1>3, <2>1, <2>4, <2>5 DEF DirectionInv
  <2> QED
    BY <1>3, <2>2, <2>3, <2>6 DEF PairsInv, Loops, GatesAreExact,
       ValidityIsExact, PredictionIsExact, DifferentiationIsExact
<1> QED BY <1>2, <1>3 DEF CheckSkew


\* A side of the partition is compared.
LEMMA CompareSideKeeps == ASSUME GateInv, CompareSide PROVE GateInv'
<1> USE DEF GateInv
<1>1. /\ pc = "sides" /\ rep \in Reps /\ todo \subseteq Groups /\ PredictionHeld
      /\ direction \in {-1, 0, 1}
  BY DEF CompareSide, DirectionInv, VisitedInv
<1>2. PICK g \in todo :
          LET left  == recovery[rep][<<g, 1>>]
              right == recovery[rep][<<g, 2>>]
          IN  \/ /\ MeetsThreshold(left, right) /\ SameDirection(Later(left, right))
                 /\ direction' = Later(left, right)
                 /\ todo' = todo \ {g}
                 /\ UNCHANGED <<pc, rep, verdict>>
              \/ /\ ~(MeetsThreshold(left, right) /\ SameDirection(Later(left, right)))
                 /\ NoDifference
  BY DEF CompareSide
<1> DEFINE meets(r, h) == MeetsThreshold(recovery[r][<<h, 1>>], recovery[r][<<h, 2>>])
           later(r, h) == Later(recovery[r][<<h, 1>>], recovery[r][<<h, 2>>])
<1>3. g \in Groups
  BY <1>1
<1>4. Differentiated =>
          \E d \in {-1, 1} : \A r \in Reps, h \in Groups : meets(r, h) /\ later(r, h) = d
  BY <1>1, DifferentiatedBySide
<1>5. \A r \in Reps, h \in Groups :
          Compared(r, h) => meets(r, h) /\ direction = later(r, h)
  BY <1>1 DEF DirectionInv
<1>6. direction # 0 => \E r \in Reps, h \in Groups : Compared(r, h)
  BY <1>1 DEF DirectionInv
<1>7. CASE ~(meets(rep, g) /\ SameDirection(later(rep, g))) /\ NoDifference
  <2> HIDE DEF meets, later
  <2>1. ~Differentiated
    <3> SUFFICES ASSUME Differentiated PROVE FALSE
      OBVIOUS
    <3>1. PICK d \in {-1, 1} : \A r \in Reps, h \in Groups : meets(r, h) /\ later(r, h) = d
      BY <1>4
    <3>2. meets(rep, g) /\ later(rep, g) = d
      BY <1>1, <1>3, <3>1
    <3>3. direction \notin {0, d}
      BY <1>7, <3>2 DEF SameDirection
    <3>4. PICK r \in Reps, h \in Groups : Compared(r, h)
      BY <1>6, <3>3
    <3>5. direction = later(r, h)
      BY <1>5, <3>4
    <3> QED BY <3>1, <3>3, <3>5
  <2> QED BY <1>1, <1>7, <2>1, NoDifferenceKeeps DEF CompareSide
<1>8. CASE /\ meets(rep, g) /\ SameDirection(later(rep, g))
           /\ direction' = later(rep, g)
           /\ todo' = todo \ {g}
           /\ UNCHANGED <<pc, rep, verdict>>
  <2>1. /\ control' = control /\ fault' = fault /\ complete' = complete
        /\ recovery' = recovery /\ gateAValid' = gateAValid /\ pc' = "sides"
        /\ gateBMatched' = gateBMatched /\ gate' = gate /\ rep' = rep
    BY <1>1, <1>8 DEF CompareSide, summaries, verdict
  <2>2. GateShape'
    BY <1>1, <2>1 DEF GateShape, Loops
  <2>3. VisitedInv'
    BY <1>1, <2>1 DEF VisitedInv, Loops, Valid, PredictionHeld
  <2>4. \A r \in Reps, h \in Groups :
            Compared(r, h)' <=> Compared(r, h) \/ (r = rep /\ h = g)
    BY <1>1, <1>3, <1>8, <2>1 DEF Compared
  <2>5. later(rep, g) \in {-1, 1}
    BY DEF Later
  <2>6. direction = 0 \/ direction = later(rep, g)
    BY <1>8 DEF SameDirection
  <2>7. \A r \in Reps, h \in Groups : Compared(r, h)' => meets(r, h) /\ later(r, h) = direction'
    <3> HIDE DEF meets, later
    <3> SUFFICES ASSUME NEW r \in Reps, NEW h \in Groups, Compared(r, h)'
                 PROVE  meets(r, h) /\ later(r, h) = direction'
      OBVIOUS
    <3>1. CASE r = rep /\ h = g
      BY <1>8, <3>1
    <3>2. CASE Compared(r, h)
      <4>1. meets(r, h) /\ direction = later(r, h)
        BY <1>5, <3>2
      <4>2. later(r, h) # 0
        BY DEF Later, later
      <4> QED BY <1>8, <2>6, <4>1, <4>2
    <3> QED BY <2>4, <3>1, <3>2
  <2>8. \E r \in Reps, h \in Groups : Compared(r, h)'
    BY <1>1, <1>3, <2>4
  <2>9. \A r \in Reps : r < rep' \/ (r = rep' /\ pc' = "sides") =>
                            uniformProgress(control'[r])
    BY <1>1, <2>1 DEF DirectionInv
  <2>10. rep' \in 1 .. NumReps + 1 /\ rep' \in Reps /\ todo' \subseteq Groups
    BY <1>1, <1>8, <2>1, AnalysisAssumption DEF Reps
  <2>11. direction' \in {-1, 0, 1}
    BY <1>8, <2>5
  <2>12. DirectionInv'
    BY <2>1, <2>7, <2>8, <2>9, <2>10, <2>11 DEF DirectionInv
  <2> QED
    BY <2>1, <2>2, <2>3, <2>12 DEF PairsInv, Loops, GatesAreExact,
       ValidityIsExact, PredictionIsExact, DifferentiationIsExact
<1> QED BY <1>2, <1>7, <1>8

\* All sides of a repetition are compared.
LEMMA NextRepetitionKeeps == ASSUME GateInv, NextRepetition PROVE GateInv'
<1> USE DEF GateInv
<1>1. /\ pc = "sides" /\ todo = {} /\ pc' = "skew" /\ rep' = rep + 1 /\ todo' = todo
      /\ control' = control /\ fault' = fault /\ complete' = complete
      /\ recovery' = recovery /\ gateAValid' = gateAValid /\ direction' = direction
      /\ gateBMatched' = gateBMatched /\ gate' = gate
  BY DEF NextRepetition, summaries, verdict
<1>2. rep \in Reps /\ rep' \in 1 .. NumReps + 1
  BY <1>1, AnalysisAssumption DEF DirectionInv, Reps
<1>3. \A r \in Reps : r < rep' <=> r < rep \/ r = rep
  BY <1>1, <1>2 DEF Reps
<1>4. \A r \in Reps, g \in Groups : Compared(r, g)' <=> Compared(r, g)
  BY <1>1, <1>3 DEF Compared
<1>5. DirectionInv'
  BY <1>1, <1>2, <1>3, <1>4 DEF DirectionInv
<1>6. GateShape'
  BY <1>1 DEF GateShape, Loops
<1>7. VisitedInv'
  BY <1>1 DEF VisitedInv, Loops, Valid, PredictionHeld
<1> QED
  BY <1>1, <1>5, <1>6, <1>7 DEF PairsInv, Loops, GatesAreExact,
     ValidityIsExact, PredictionIsExact, DifferentiationIsExact

\* evaluateGateC has compared everything.
LEMMA DecideGateCKeeps == ASSUME GateInv, DecideGateC PROVE GateInv'
<1> USE DEF GateInv
<1>1. /\ pc = "skew" /\ rep = NumReps + 1 /\ pc' = "done"
      /\ gate' = [gate EXCEPT !.c = "yes"]
      /\ control' = control /\ fault' = fault /\ complete' = complete
      /\ recovery' = recovery /\ gateAValid' = gateAValid /\ gateBMatched' = gateBMatched
      /\ direction' = direction
  BY AnalysisAssumption DEF DecideGateC, Conclude, summaries, DirectionInv
<1>2. gate.a = "yes" /\ gate.b = "yes" /\ Valid /\ PredictionHeld /\ complete = Reps
  BY <1>1 DEF VisitedInv, Loops
<1>3. \A r \in Reps : r < rep
  BY <1>1, AnalysisAssumption DEF Reps
<1>4. direction \in {-1, 1}
  <2>1. 1 \in Reps
    BY AnalysisAssumption DEF Reps
  <2>2. PICK g \in Groups : TRUE
    BY AnalysisAssumption
  <2>3. direction = Later(recovery[1][<<g, 1>>], recovery[1][<<g, 2>>])
    BY <1>1, <1>3, <2>1 DEF DirectionInv, Compared
  <2> QED BY <2>3 DEF Later
<1>5. Differentiated
  <2>1. \A r \in Reps : uniformProgress(control[r])
    BY <1>1, <1>3 DEF DirectionInv
  <2>2. \A r \in Reps, g \in Groups :
            /\ MeetsThreshold(recovery[r][<<g, 1>>], recovery[r][<<g, 2>>])
            /\ Later(recovery[r][<<g, 1>>], recovery[r][<<g, 2>>]) = direction
    BY <1>1, <1>3 DEF DirectionInv, Compared
  <2> QED BY <1>2, <1>4, <2>1, <2>2, DifferentiatedBySide
<1>6. gate'.a = "yes" /\ gate'.b = "yes" /\ gate'.c = "yes"
  BY <1>1, <1>2 DEF GateShape
<1>7. Valid' /\ PredictionHeld' /\ Differentiated'
  BY <1>1, <1>2, <1>5 DEF Valid, PredictionHeld, Differentiated
<1>8. GateShape'
  BY <1>1 DEF GateShape, Loops
<1>9. GatesAreExact'
  BY <1>1, <1>2, <1>6, <1>7 DEF GatesAreExact, ValidityIsExact, PredictionIsExact,
     DifferentiationIsExact
<1> QED BY <1>1, <1>8, <1>9 DEF PairsInv, VisitedInv, DirectionInv, Loops

LEMMA GatesKeepInv == GateInv /\ [GateNext]_gateVars => GateInv'
<1> SUFFICES ASSUME GateInv, [GateNext]_gateVars PROVE GateInv'
  OBVIOUS
<1>1. CASE UNCHANGED gateVars
  BY <1>1 DEF gateVars, loops, summaries, verdict, GateInv, GateShape, PairsInv, PairHolds,
     VisitedInv, DirectionInv, Compared, GatesAreExact, ValidityIsExact, PredictionIsExact,
     DifferentiationIsExact, Valid, PredictionHeld, Differentiated
<1>2. CASE GateNext
  BY <1>1, <1>2, ComparePairKeeps, DecideGateAKeeps, CompleteKeeps, CheckPredictionKeeps,
     DecideGateBKeeps, CheckSkewKeeps, CompareSideKeeps, NextRepetitionKeeps,
     DecideGateCKeeps DEF GateNext, GateOver
<1> QED BY <1>1, <1>2

LEMMA AlwaysGateInv == GateSpec => []GateInv
BY InitGates, GatesKeepInv, PTL DEF GateSpec

\* Analyze accepts exactly the experiments that Gate A describes, for any number of
\* repetitions and of sides and whatever the early continue leaves out.
THEOREM GateAIsExact == GateSpec => []ValidityIsExact
<1>1. GateInv => ValidityIsExact
  BY DEF GateInv, GatesAreExact
<1> QED BY <1>1, AlwaysGateInv, PTL

\* Gate B speaks only of measured experiments and is right about them, in whatever
\* order the maps give the fault runs.
THEOREM GateBIsExact == GateSpec => []PredictionIsExact
<1>1. GateInv => PredictionIsExact
  BY DEF GateInv, GatesAreExact
<1> QED BY <1>1, AlwaysGateInv, PTL

\* evaluateGateC, with its early returns and the direction that it carries along,
\* finds a difference exactly when one family was later everywhere.
THEOREM GateCIsExact == GateSpec => []DifferentiationIsExact
<1>1. GateInv => DifferentiationIsExact
  BY DEF GateInv, GatesAreExact
<1> QED BY <1>1, AlwaysGateInv, PTL

=============================================================================
