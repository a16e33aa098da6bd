---------------------------- MODULE CaptureCommand --------------------------
(***************************************************************************)
(* `ethquake experiment capture` up to the evidence of its first write:    *)
(* the scenario, the dependency lock, the topology that kubectl shows      *)
(* (internal/topology/kubernetes.go), the closure of the images under the  *)
(* lock (internal/dependency), the validator ranges, the run directory,    *)
(* and the checks with which orchestrator.Run begins.  What is read at     *)
(* each step is chosen there.  An error ends the command; it may be run    *)
(* again, and finds what it has left in the artifact root.                 *)
(*                                                                         *)
(* A Pod is [name, service, node, ready, init, containers, policy], a      *)
(* container [name, image], an image [repository, digest].                 *)
(***************************************************************************)
EXTENDS RealizedSplit

CONSTANTS
    ScenarioFiles,        \* what --scenario may hold, apart from what does not parse
    LockFiles,            \* [runtime, fault]: the images of a dependency lock
    FlagSets,             \* [endpoints, ownNamespace, committedRun]
    Clusters,             \* [owned, pods, chaos, nodes]: what kubectl shows
    RangeFiles,           \* sets of [start, end, owner]
    ValidatorResponses    \* sets of [index, balance, active]

\* What the decoders make of their input: the types of the Go structs.
ASSUME CaptureAssumption ==
    /\ \A s \in ScenarioFiles :
          /\ s.participants \in Seq(Participants(s)) /\ s.groups \in Seq(FaultGroups(s))
          /\ \A g \in FaultGroups(s) : g.members \in Seq(Members(g))
          /\ \A p \in Participants(s) : p.count \in 0 .. MaxUint /\ DOMAIN p.services = Roles
    /\ \A c \in Clusters : IsFiniteSet(c.pods)
    /\ \A file \in RangeFiles :
          IsFiniteSet(file) /\ \A r \in file : {r.start, r.end} \subseteq Nat
    /\ \A response \in ValidatorResponses :
          IsFiniteSet(response) /\ \A v \in response : {v.index, v.balance} \subseteq Nat

VARIABLES
    stage,        \* the step that has been completed
    flags, scenario, lock, cluster, raw, validators,   \* what was read
    split,        \* the realized split
    directory     \* the run directory: "absent", "empty" or "evidence"

inputs == <<flags, scenario, lock, cluster, raw, validators>>
captureVars == <<stage, inputs, split, directory>>

CaptureInit ==
    /\ stage = "start"
    /\ flags = None /\ scenario = None /\ lock = None
    /\ cluster = None /\ raw = {} /\ validators = {}
    /\ split = None
    /\ directory = "absent"

-----------------------------------------------------------------------------
(* Kubernetes.Discover *)

AllContainers(pod) == pod.init \cup pod.containers

\* "repository@sha256:" and 64 lower-case hexadecimal digits.
digestPinned(image) == image.digest

ExpanderImage == [repository |-> "kurtosistech/files-artifacts-expander", digest |-> FALSE]

\* The init container that Kurtosis adds, with a tag and without a digest.
isKurtosisFilesArtifactExpander(k) ==
    k.name = "files-artifact-expander" /\ k.image = ExpanderImage

requireReady(pod) == pod.ready /\ pod.node # None

\* runtimeImages: the images by namespace, workload and container.
RuntimeImages(c) ==
    (UNION {{[key |-> <<"experiment", pod.service, k.name>>, image |-> k.image] :
                k \in AllContainers(pod)} : pod \in c.pods})
    \cup
    {[key |-> <<"chaos-mesh", "runtime", k.name>>, image |-> k.image] :
        k \in UNION {AllContainers(p) : p \in c.chaos}}

PodsOf(c, service) == {pod \in c.pods : pod.service = service}

PodOf(c, p, role) == CHOOSE pod \in c.pods : pod.service = p.services[role]

\* Mutant of ServicesPlaced: a participant may be spread over several nodes.
ServicesPlaced_Anywhere(c, p) ==
    \A role \in Roles : /\ Cardinality(PodsOf(c, p.services[role])) = 1
                        /\ Cardinality(PodOf(c, p, role).containers) = 1

\* One Pod for each service of a participant, with one container, on one node.
ServicesPlaced(c, p) ==
    /\ \A role \in Roles : /\ Cardinality(PodsOf(c, p.services[role])) = 1
                           /\ Cardinality(PodOf(c, p, role).containers) = 1
    /\ \A role, other \in Roles : PodOf(c, p, role).node = PodOf(c, p, other).node

\* verifyNamespace, listPods and the error returns of buildDiscovery.
Discoverable(s, c) ==
    /\ c.owned
    /\ c.pods # {} /\ c.chaos # {}
    /\ \A pod \in c.pods \cup c.chaos :
          /\ pod.containers # {}
          /\ requireReady(pod)
          /\ \A k \in AllContainers(pod) :
                digestPinned(k.image) \/ isKurtosisFilesArtifactExpander(k)
    /\ \A pod \in c.pods :
          \E p \in Participants(s), role \in Roles : pod.service = p.services[role]
    /\ \A x, y \in RuntimeImages(c) : x.key = y.key => x.image = y.image
    /\ \A p \in Participants(s) : ServicesPlaced(c, p)

\* The placements of the participants; a missing label is the empty string.
PlacementsOf(s, c) ==
    [id \in {p.id : p \in Participants(s)} |->
        LET p    == ParticipantWithID(s, id)
            pod  == PodOf(c, p, "beacon")
        IN  [target |-> p.target, pod |-> pod.name, node |-> pod.node,
             pool |-> c.nodes[pod.node].pool, machine |-> c.nodes[pod.node].machine,
             policy |-> [role \in Roles |-> PodOf(c, p, role).policy]]]

\* ValidatePlacements: a node for each participant, all of one kind.
ValidatePlacements(s, placements) ==
    LET ids == DOMAIN placements
    IN  /\ ids = {p.id : p \in Participants(s)}
        /\ \A i \in ids : placements[i].pool # "" /\ placements[i].machine # ""
        /\ \A i, j \in ids :
              /\ placements[i].node = placements[j].node => i = j
              /\ placements[i].machine = placements[j].machine
              /\ placements[i].policy = placements[j].policy
        /\ \A p \in Participants(s) : placements[p.id].target = p.target

-----------------------------------------------------------------------------
(* The dependency lock *)

LockedImages(l) == l.runtime \cup l.fault

\* Lock.Validate
LockValid(l) ==
    /\ l.runtime # {}
    /\ \A image \in LockedImages(l) : digestPinned(image)

\* Lock.ExperimentMetadata: every image that runs is one of the lock.
Closed(l, images) == \A x \in images : x.image \in LockedImages(l)

\* RuntimeImages of the DependencyMetadata.
RecordedImages(l, images) == {x.image : x \in images} \cup LockedImages(l)

\* ValidateDependencyMetadata, of the analysis.
ValidateDependencyMetadata(images) ==
    images # {} /\ \A image \in images : digestPinned(image)

-----------------------------------------------------------------------------
(* The command *)

\* An error: the process ends, what is on disk stays.
Refuse ==
    /\ stage' = "refused"
    /\ flags' = None /\ scenario' = None /\ lock' = None
    /\ cluster' = None /\ raw' = {} /\ validators' = {}
    /\ split' = None
    /\ UNCHANGED directory

\* Flags, scenario, lock.
Load(f, s, l) ==
    LET accepted == Len(f.endpoints) = 4 /\ Validate(s) /\ LockValid(l)
    IN  /\ stage = "start"
        /\ \/ /\ accepted
              /\ stage' = "loaded"
              /\ flags' = f /\ scenario' = s /\ lock' = l
              /\ UNCHANGED <<cluster, raw, validators, split, directory>>
           \/ ~accepted /\ Refuse

Discover(c) ==
    LET accepted == flags.ownNamespace /\ Discoverable(scenario, c)
    IN  /\ stage = "loaded"
        /\ \/ /\ accepted
              /\ stage' = "discovered"
              /\ cluster' = c
              /\ UNCHANGED <<flags, scenario, lock, raw, validators, split, directory>>
           \/ ~accepted /\ Refuse

VerifyClosure ==
    /\ stage = "discovered"
    /\ \/ /\ Closed(lock, RuntimeImages(cluster))
          /\ stage' = "closed"
          /\ UNCHANGED <<inputs, split, directory>>
       \/ ~Closed(lock, RuntimeImages(cluster)) /\ Refuse

\* Every target of the scenario has an endpoint, and no name has two.
EndpointsMatch ==
    /\ IsInjective(flags.endpoints)
    /\ \A p \in Participants(scenario) : p.target \in Range(flags.endpoints)

ReadRanges(file) ==
    LET accepted == ParseValidatorRanges(file) # <<>> /\ EndpointsMatch
    IN  /\ stage = "closed"
        /\ \/ /\ accepted
              /\ stage' = "ranged"
              /\ raw' = file
              /\ UNCHANGED <<flags, scenario, lock, cluster, validators, split, directory>>
           \/ ~accepted /\ Refuse

\* artifact.Create: a directory that is there is not used again.
CreateDirectory ==
    /\ stage = "ranged"
    /\ \/ /\ directory = "absent"
          /\ directory' = "empty"
          /\ stage' = "created"
          /\ UNCHANGED <<inputs, split>>
       \/ directory # "absent" /\ Refuse

\* validateConfig, which also validates the scenario again, and the chain ID.
CheckRun(chainMatches) ==
    LET accepted == /\ flags.committedRun
                    /\ ValidatePlacements(scenario, PlacementsOf(scenario, cluster))
                    /\ ValidateDependencyMetadata(RecordedImages(lock, RuntimeImages(cluster)))
                    /\ chainMatches
    IN  /\ stage = "created"
        /\ \/ /\ accepted
              /\ stage' = "checked"
              /\ UNCHANGED <<inputs, split, directory>>
           \/ ~accepted /\ Refuse

\* Client.Validators: all active, with a balance, each once.
ResponseValid(response) ==
    /\ response # {}
    /\ \A v \in response : v.active /\ v.balance > 0
    /\ \A v, w \in response : v.index = w.index => v = w

\* The active validators, the split that they make, and its tolerance.
Measure(response) ==
    LET ranges   == ParseValidatorRanges(raw)
        accepted == ResponseValid(response) /\ Calculable(scenario, ranges, response)
        realized == CalculateRealizedSplit(scenario, ranges, response)
    IN  /\ stage = "checked"
        /\ IF accepted /\ realized.within
           THEN /\ stage' = "measured"
                /\ validators' = response
                /\ split' = realized
                /\ UNCHANGED <<flags, scenario, lock, cluster, raw, directory>>
           ELSE Refuse

\* scenario.yaml and realized-split.json; Run goes on to the measurement.
WriteSplit ==
    /\ stage = "measured"
    /\ directory' = "evidence"
    /\ stage' = "captured"
    /\ UNCHANGED <<inputs, split>>

\* A file cannot be read or written, kubectl or a node does not answer, or the
\* command is interrupted.
CallFails ==
    /\ stage \in {"start", "loaded", "closed", "ranged", "created", "checked", "measured"}
    /\ Refuse

\* The command is run again, with the same run ID.
RunAgain ==
    /\ stage = "refused"
    /\ stage' = "start"
    /\ UNCHANGED <<inputs, split, directory>>

Captured == stage = "captured" /\ UNCHANGED captureVars

CaptureNext ==
    \/ \E f \in FlagSets, s \in ScenarioFiles, l \in LockFiles : Load(f, s, l)
    \/ \E c \in Clusters : Discover(c)
    \/ VerifyClosure
    \/ \E file \in RangeFiles : ReadRanges(file)
    \/ CreateDirectory
    \/ \E chainMatches \in BOOLEAN : CheckRun(chainMatches)
    \/ \E response \in ValidatorResponses : Measure(response)
    \/ WriteSplit
    \/ CallFails
    \/ RunAgain
    \/ Captured

CaptureSpec == CaptureInit /\ [][CaptureNext]_captureVars

-----------------------------------------------------------------------------
(* Properties *)

\* The runtime under test is the controlled one, Pod by Pod, although Discover looks
\* at the services of one participant at a time and Run at one placement for each:
\* two Pods share a node exactly when they serve the same participant, the nodes are
\* of one machine type, a role has the same resources everywhere, and nothing runs
\* from an image outside the lock.
RuntimeIsControlled ==
    stage = "captured" =>
        /\ \A x, y \in cluster.pods :
              /\ x.node = y.node <=> \E p \in Participants(scenario) :
                                        {x.service, y.service} \subseteq Range(p.services)
              /\ cluster.nodes[x.node].machine = cluster.nodes[y.node].machine
        /\ \A p, q \in Participants(scenario), role \in Roles :
              PodOf(cluster, p, role).policy = PodOf(cluster, q, role).policy
        /\ \A pod \in cluster.pods \cup cluster.chaos : \A k \in AllContainers(pod) :
              k.image \in LockedImages(lock)

\* The validators whose index is in a range of the file that names the participant.
Claimed(p) ==
    {v \in validators : \E r \in raw : r.owner = p.range /\ v.index \in r.start .. r.end}

\* The number of validators the scenario gives a group, without a width.
Configured(g) ==
    SumFunction([id \in Members(g) |-> ParticipantWithID(scenario, id).count])

\* The split on disk is the one the file of ranges and the node describe, with
\* unbounded arithmetic: every active validator is in one range, it counts for that
\* range's owner and for one side, no sum has wrapped (nor did the sums of configured
\* counts), and as long as float64 is exact the sides are exactly equal.
SplitIsReal ==
    stage = "captured" =>
        LET balance(n) == split.groups[scenario.groups[n]].balance
        IN  /\ \A v \in validators :
                  Cardinality({r \in raw : v.index \in r.start .. r.end}) = 1
            /\ \A p \in Participants(scenario) :
                  split.participants[p.id] =
                      [count |-> Cardinality(Claimed(p)), balance |-> Balance(Claimed(p))]
            /\ balance(1) + balance(2) = split.total
            /\ split.total = Balance(validators)
            /\ Configured(scenario.groups[1]) = Configured(scenario.groups[2])
            /\ split.total <= 2 ^ Mantissa => balance(1) = balance(2)

\* What a capture has accepted, the analysis does not refuse: the stored split, the
\* placements and the images pass the checks of validateRuns, months later.
CaptureIsAnalysable ==
    directory = "evidence" =>
        /\ ValidateRealizedSplit(scenario, split)
        /\ ValidatePlacements(scenario, PlacementsOf(scenario, cluster))
        /\ ValidateDependencyMetadata(RecordedImages(lock, RuntimeImages(cluster)))

-----------------------------------------------------------------------------
(* What a comment says and the code does not guarantee *)

\* The container that Kurtosis adds "is exempt from the digest-pin requirement that
\* applies to every other container": a capture is not refused because of it alone.
ExpanderIsExempt ==
    [][stage = "discovered" /\ stage' = "refused" =>
         \E pod \in cluster.pods \cup cluster.chaos : \E k \in AllContainers(pod) :
             ~isKurtosisFilesArtifactExpander(k) /\ k.image \notin LockedImages(lock)]_captureVars
=============================================================================
