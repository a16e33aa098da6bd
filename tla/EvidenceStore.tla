---------------------------- MODULE EvidenceStore ---------------------------
(***************************************************************************)
(* The run directories between the two programs that use them.  `run`      *)
(* makes a directory (internal/artifact/directory.go) and writes six       *)
(* artifacts into it, the checksums last; it can be killed at any write.   *)
(* `analyze` (internal/experiment/io.go) goes through the committed order, *)
(* hashes the artifacts of a run and then reads them again.  In between    *)
(* and during both, files are damaged or mixed up by whoever copies the    *)
(* directories.                                                            *)
(*                                                                         *)
(* A file is abstracted to the attempt that wrote it and to whether it is  *)
(* whole.  A file that is not whole does not parse or cannot be read.      *)
(***************************************************************************)
EXTENDS Naturals, Sequences

CONSTANTS
    RunIDs,         \* the runs of the committed order
    RunOrder,       \* methodology.run_order
    Plans,          \* scenarios somebody may have run with
    ExpectedPlan,   \* the scenario of the analysis
    Splits,         \* realized splits
    Nobody,
    MaxAttempts,    \* bound: attempts at the runs
    MaxMeddling     \* bound: how often files are damaged or mixed up

ASSUME EvidenceAssumption ==
    /\ RunOrder \in Seq(RunIDs)
    /\ ExpectedPlan \in Plans
    /\ MaxAttempts \in Nat /\ MaxMeddling \in Nat
    /\ Nobody \notin [run : RunIDs, number : Nat, plan : Plans, split : Splits]

VARIABLES
    dirs,       \* dirs[r]: the files of a run directory
    checksums,  \* checksums[r]: its checksums.json
    writer,     \* writer[r]: the attempt at r that is being made
    attempts,   \* how many there were
    sealed,     \* attempts that have returned from their last write
    index,      \* position of the loader in RunOrder
    stage,      \* where LoadRunSummaries is
    position,   \* in checksummedRunArtifacts
    expected,   \* the checksums it has read
    manifest,   \* the manifest it has read
    loaded,     \* the summaries it has accepted
    meddling,   \* how often files were touched
    late        \* runs touched since the loader began with them (history variable)

store == <<dirs, checksums>>
writers == <<writer, attempts, sealed>>
loader == <<index, stage, position, expected, manifest, loaded>>
environment == <<meddling, late>>
vars == <<store, writers, loader, environment>>

\* The artifacts in the order in which Run writes them, and in the order in
\* which verifyRunChecksums hashes them.
WriteOrder == <<"scenario.yaml", "realized-split.json", "raw-timeseries.jsonl",
                "manifest.json", "metadata.json">>

\* Mutant of checksummedRunArtifacts: the largest file is not hashed.
checksummedRunArtifacts_NoRaw ==
    <<"manifest.json", "metadata.json", "realized-split.json", "scenario.yaml">>

checksummedRunArtifacts ==
    <<"manifest.json", "metadata.json", "raw-timeseries.jsonl", "realized-split.json",
      "scenario.yaml">>

Artifacts == {WriteOrder[i] : i \in 1 .. Len(WriteOrder)}

\* An attempt at a run: what its artifacts say.
Attempts == [run : RunIDs, number : 1 .. MaxAttempts, plan : Plans, split : Splits]

Contents == [by : Attempts, whole : BOOLEAN]

Absent == [by |-> Nobody, whole |-> FALSE]

NoFiles == [f \in Artifacts |-> Absent]

NoChecksums == [of |-> [f \in Artifacts |-> <<>>], whole |-> FALSE]

NoWriter == [by |-> Nobody, next |-> 0]

\* SHA-256 of a file, taken to be injective: the scenario and the split have
\* the same bytes in every attempt that has the same one.
Hash(f, c) ==
    IF c = Absent THEN <<>>
    ELSE IF f = "scenario.yaml" THEN <<c.whole, c.by.plan>>
    ELSE IF f = "realized-split.json" THEN <<c.whole, c.by.split>>
    ELSE <<c.whole, c.by>>

Init ==
    /\ dirs = [r \in {} |-> NoFiles]
    /\ checksums = [r \in {} |-> NoChecksums]
    /\ writer = [r \in RunIDs |-> NoWriter]
    /\ attempts = 0
    /\ sealed = {}
    /\ index = 1 /\ stage = "idle" /\ position = 1
    /\ expected = NoChecksums.of /\ manifest = Absent
    /\ loaded = <<>>
    /\ meddling = 0 /\ late = {}

-----------------------------------------------------------------------------
(* A run writes *)

\* artifact.Create: Mkdir refuses a directory that is there, so a run that was
\* killed cannot be continued.
Create(r) ==
    /\ writer[r] = NoWriter
    /\ attempts < MaxAttempts
    /\ r \notin DOMAIN dirs
    /\ \E plan \in Plans, split \in Splits :
          writer' = [writer EXCEPT ![r] =
              [by |-> [run |-> r, number |-> attempts + 1, plan |-> plan, split |-> split],
               next |-> 1]]
    /\ attempts' = attempts + 1
    /\ dirs' = [q \in DOMAIN dirs \cup {r} |-> IF q = r THEN NoFiles ELSE dirs[q]]
    /\ checksums' = [q \in DOMAIN dirs \cup {r} |-> IF q = r THEN NoChecksums ELSE checksums[q]]
    /\ UNCHANGED <<sealed, loader, environment>>

\* CreateFile, the writes, Sync and Close, for the next artifact in the order of
\* Run.  Until the last byte is there, and after an error, the file is not whole.
WriteArtifact(r) ==
    /\ writer[r].next \in 1 .. Len(WriteOrder)
    /\ LET f == WriteOrder[writer[r].next]
       IN  \/ /\ dirs[r][f] = Absent
              /\ dirs' = [dirs EXCEPT ![r][f] = [by |-> writer[r].by, whole |-> FALSE]]
              /\ UNCHANGED writer
           \/ /\ dirs[r][f] # Absent
              /\ dirs' = [dirs EXCEPT ![r][f] = [by |-> writer[r].by, whole |-> TRUE]]
              /\ writer' = [writer EXCEPT ![r].next = @ + 1]
    /\ UNCHANGED <<checksums, attempts, sealed, loader, environment>>

\* artifactChecksums over the five, and checksums.json in two steps as well.
WriteChecksums(r) ==
    /\ writer[r].next = Len(WriteOrder) + 1
    /\ \/ /\ checksums[r] = NoChecksums
          /\ checksums' = [checksums EXCEPT ![r] =
                [of |-> [f \in Artifacts |-> Hash(f, dirs[r][f])], whole |-> FALSE]]
          /\ UNCHANGED <<writer, sealed>>
       \/ /\ checksums[r] # NoChecksums
          /\ checksums' = [checksums EXCEPT ![r].whole = TRUE]
          /\ writer' = [writer EXCEPT ![r] = NoWriter]
          /\ sealed' = sealed \cup {writer[r].by}
    /\ UNCHANGED <<dirs, attempts, loader, environment>>

\* An error, a cancellation or a kill: what is there stays there.
Abort(r) ==
    /\ writer[r] # NoWriter
    /\ writer' = [writer EXCEPT ![r] = NoWriter]
    /\ UNCHANGED <<store, attempts, sealed, loader, environment>>

-----------------------------------------------------------------------------
(* The analysis reads *)

Current == RunOrder[index]

File(f) == dirs[Current][f]

\* To the next stage; an error anywhere ends LoadRunSummaries without a result.
Proceed(condition, next) ==
    /\ stage' = IF condition THEN next ELSE "refused"
    /\ UNCHANGED <<store, writers, index, loaded, environment>>

\* The next run of the committed order; its directory has to be there.
InspectDirectory ==
    /\ stage = "idle"
    /\ index <= Len(RunOrder)
    /\ Proceed(Current \in DOMAIN dirs, "checksums.json")
    /\ UNCHANGED <<position, expected, manifest>>

\* verifyRunChecksums: checksums.json is one JSON value with a digest for each
\* of the five names.
ReadChecksums ==
    /\ stage = "checksums.json"
    /\ expected' = checksums[Current].of
    /\ position' = 1
    /\ Proceed(checksums[Current].whole, "hash")
    /\ UNCHANGED manifest

\* ... and its loop over the artifacts.
HashArtifact ==
    /\ stage = "hash"
    /\ position <= Len(checksummedRunArtifacts)
    /\ LET f == checksummedRunArtifacts[position]
       IN  Proceed(Hash(f, File(f)) = expected[f], "hash")
    /\ position' = position + 1
    /\ UNCHANGED <<expected, manifest>>

ChecksumsVerified ==
    /\ stage = "hash"
    /\ position > Len(checksummedRunArtifacts)
    /\ Proceed(TRUE, "manifest.json")
    /\ UNCHANGED <<position, expected, manifest>>

\* Mutant of ReadManifest: run_id is not compared with the directory.
ReadManifest_AnyRun ==
    /\ stage = "manifest.json"
    /\ manifest' = File("manifest.json")
    /\ Proceed(File("manifest.json").whole, "scenario.yaml")
    /\ UNCHANGED <<position, expected>>

\* loadRunEvidence reads the file again, and its run_id is that of the directory.
ReadManifest ==
    /\ stage = "manifest.json"
    /\ manifest' = File("manifest.json")
    /\ Proceed(File("manifest.json").whole /\ File("manifest.json").by.run = Current,
               "scenario.yaml")
    /\ UNCHANGED <<position, expected>>

\* scenario.yaml parses to the scenario of the analysis.
ReadScenario ==
    /\ stage = "scenario.yaml"
    /\ Proceed(File("scenario.yaml").whole /\ File("scenario.yaml").by.plan = ExpectedPlan,
               "metadata.json")
    /\ UNCHANGED <<position, expected, manifest>>

\* validateRunMetadata: the run_id of the manifest, the digest of the scenario that
\* was read.  The other comparisons are with the scenario and, for the dependencies
\* (dependencyMetadataEqual), with the manifest: leaving them out accepts more.
ReadMetadata ==
    /\ stage = "metadata.json"
    /\ LET c == File("metadata.json")
       IN  Proceed(c.whole /\ c.by.run = manifest.by.run /\ c.by.plan = ExpectedPlan,
                   "realized-split.json")
    /\ UNCHANGED <<position, expected, manifest>>

\* realized-split.json is the split in the manifest.
ReadRealizedSplit ==
    /\ stage = "realized-split.json"
    /\ LET c == File("realized-split.json")
       IN  Proceed(c.whole /\ c.by.split = manifest.by.split, "raw-timeseries.jsonl")
    /\ UNCHANGED <<position, expected, manifest>>

\* requireNonemptyRegularArtifact does not read the file; one that is not whole may
\* be empty.  The summary of the run is accepted.
InspectRaw ==
    /\ stage = "raw-timeseries.jsonl"
    /\ \/ /\ File("raw-timeseries.jsonl") # Absent
          /\ loaded' = Append(loaded, manifest)
          /\ index' = index + 1
          /\ stage' = "idle"
       \/ /\ ~File("raw-timeseries.jsonl").whole
          /\ stage' = "refused"
          /\ UNCHANGED <<index, loaded>>
    /\ UNCHANGED <<store, writers, position, expected, manifest, environment>>

Loaded ==
    /\ stage = "idle"
    /\ index > Len(RunOrder)
    /\ Proceed(TRUE, "done")
    /\ UNCHANGED <<position, expected, manifest>>

-----------------------------------------------------------------------------
(* What happens to the directories *)

\* The loader has begun with run r.
Begun(r) == \E i \in 1 .. Len(RunOrder) :
                RunOrder[i] = r /\ (i < index \/ (i = index /\ stage # "idle"))

Touch(r) ==
    /\ writer[r] = NoWriter
    /\ meddling < MaxMeddling
    /\ meddling' = meddling + 1
    /\ late' = IF Begun(r) THEN late \cup {r} ELSE late
    /\ UNCHANGED <<writers, loader>>

\* A file is damaged.
Damage(r) ==
    /\ r \in DOMAIN dirs
    /\ \/ \E f \in Artifacts : /\ dirs[r][f].whole
                               /\ dirs' = [dirs EXCEPT ![r][f].whole = FALSE]
                               /\ UNCHANGED checksums
       \/ /\ checksums[r].whole
          /\ checksums' = [checksums EXCEPT ![r].whole = FALSE]
          /\ UNCHANGED dirs
    /\ Touch(r)

\* A file, or all of them, are overwritten by those of another run.
MixUp(r, q) ==
    /\ r \in DOMAIN dirs /\ q \in DOMAIN dirs \ {r}
    /\ \/ \E f \in Artifacts : dirs' = [dirs EXCEPT ![r][f] = dirs[q][f]] /\ UNCHANGED checksums
       \/ checksums' = [checksums EXCEPT ![r] = checksums[q]] /\ UNCHANGED dirs
       \/ /\ dirs' = [dirs EXCEPT ![r] = dirs[q]]
          /\ checksums' = [checksums EXCEPT ![r] = checksums[q]]
    /\ Touch(r)

\* The directory is removed, to make the run again; not while it is being analysed.
Remove(r) ==
    /\ r \in DOMAIN dirs
    /\ writer[r] = NoWriter /\ ~Begun(r)
    /\ dirs' = [q \in DOMAIN dirs \ {r} |-> dirs[q]]
    /\ checksums' = [q \in DOMAIN dirs \ {r} |-> checksums[q]]
    /\ UNCHANGED <<writers, loader, environment>>

Over == stage \in {"refused", "done"} /\ UNCHANGED vars

-----------------------------------------------------------------------------

Write(r) == Create(r) \/ WriteArtifact(r) \/ WriteChecksums(r) \/ Abort(r)

Load ==
    \/ InspectDirectory \/ ReadChecksums \/ HashArtifact \/ ChecksumsVerified
    \/ ReadManifest \/ ReadScenario \/ ReadMetadata \/ ReadRealizedSplit \/ InspectRaw
    \/ Loaded

Next ==
    \/ \E r \in RunIDs : Write(r) \/ Damage(r) \/ Remove(r) \/ \E q \in RunIDs : MixUp(r, q)
    \/ Load
    \/ Over

Spec == Init /\ [][Next]_vars

-----------------------------------------------------------------------------
(* Properties *)

\* The summary that is analysed for a run is whole and names this run, also when
\* files are damaged or mixed up between the hashing of a file and its second
\* reading.  Unless the directory was touched since the loader began with it, the
\* summary is one that this run has sealed with its last write: a run that was
\* killed, or is still going on, is never analysed.  (Without that condition a
\* manifest of a killed attempt, kept in another directory and put back after the
\* hashing, would be read: the bytes that were hashed are not those that are used.)
AnalysedIsSealed ==
    \A i \in 1 .. Len(loaded) :
        /\ loaded[i].whole
        /\ loaded[i].by.run = RunOrder[i]
        /\ RunOrder[i] \notin late => loaded[i].by \in sealed

\* A directory that was accepted, and not touched since the loader began with it,
\* holds the five artifacts as one attempt at this run has left them, made with the
\* scenario of the analysis: whatever was damaged or mixed up before is refused.
AnalysedIsIntact ==
    \A i \in 1 .. Len(loaded) :
        RunOrder[i] \notin late =>
            LET whole == [by |-> loaded[i].by, whole |-> TRUE]
            IN  /\ loaded[i].by.plan = ExpectedPlan
                /\ \A f \in Artifacts : Hash(f, dirs[RunOrder[i]][f]) = Hash(f, whole)
=============================================================================
