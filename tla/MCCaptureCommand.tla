--------------------------- MODULE MCCaptureCommand -------------------------
(* CaptureCommand for TLC: the committed topology of four participants, and  *)
(* scenarios, clusters, range files and validator sets that differ from a    *)
(* good one in one respect, or in what two steps have to agree on.           *)
EXTENDS CaptureCommand

ParticipantFor(n, count, client) ==
    [id |-> n, client |-> client, target |-> n, range |-> n, count |-> count,
     services |-> [role \in Roles |-> <<n, role>>]]

Group(name, members) == [name |-> name, share |-> 50, members |-> members]

ScenarioWith(counts) ==
    [participants |-> [n \in 1 .. 4 |->
        ParticipantFor(n, counts[n], IF n % 2 = 1 THEN "lighthouse" ELSE "teku")],
     groups |-> <<Group("left", <<1, 2>>), Group("right", <<3, 4>>)>>,
     tolerance |-> 0]

Committed == ScenarioWith(<<1, 1, 1, 1>>)

\* The last of the uneven counts add up to the first two, modulo MaxUint + 1.
MCScenarioFiles ==
    { Committed,
      ScenarioWith(<<2, 1, 1, 2>>),
      ScenarioWith(<<1, 1, MaxUint, 3>>),
      ScenarioWith(<<1, 1, 1, 2>>),
      ScenarioWith(<<2, 0, 1, 1>>),
      [Committed EXCEPT !.groups = <<Group("left", <<1, 2, 3>>), Group("right", <<2, 3, 4>>)>>],
      [Committed EXCEPT !.groups[2].members = <<3>>],
      [Committed EXCEPT !.groups[2].name = "left"],
      [Committed EXCEPT !.groups[1].share = 60],
      [Committed EXCEPT !.participants[2].client = "lighthouse"],
      [Committed EXCEPT !.participants[2].services["beacon"] = <<1, "beacon">>],
      [Committed EXCEPT !.tolerance = 1] }

Image(repository) == [repository |-> repository, digest |-> TRUE]

Tagged(repository) == [repository |-> repository, digest |-> FALSE]

MCLockFiles ==
    { [runtime |-> {Image("client")}, fault |-> {Image("controller"), Image("daemon")}],
      [runtime |-> {Image("client"), Tagged("other")}, fault |-> {Image("daemon")}] }

Flags == [endpoints |-> <<4, 1, 2, 3>>, ownNamespace |-> TRUE, committedRun |-> TRUE]

MCFlagSets ==
    { Flags, [Flags EXCEPT !.ownNamespace = FALSE], [Flags EXCEPT !.committedRun = FALSE] }
    \cup {[Flags EXCEPT !.endpoints = e] : e \in {<<1, 2, 3>>, <<1, 2, 3, 3>>, <<1, 2, 3, 5>>}}

Container(name, image) == [name |-> name, image |-> image]

Pod(service, node, image) ==
    [name |-> service, service |-> service, node |-> node, ready |-> TRUE, init |-> {},
     containers |-> {Container("main", image)}, policy |-> service[2]]

UserPods == {Pod(<<n, role>>, n, Image("client")) : n \in 1 .. 4, role \in Roles}

ChaosPods == {Pod(<<n, "daemon">>, n, Image("daemon")) : n \in 1 .. 4}

Cluster ==
    [owned |-> TRUE, pods |-> UserPods, chaos |-> ChaosPods,
     nodes |-> [n \in 1 .. 5 |-> [pool |-> "pool", machine |-> "machine"]]]

\* The Pods with one of them replaced.
Replaced(pod) == {p \in UserPods : p.name # pod.name} \cup {pod}

Validator1 == Pod(<<1, "validator">>, 1, Image("client"))

Expander == Container("files-artifact-expander", ExpanderImage)

MCClusters ==
    { Cluster,
      [Cluster EXCEPT !.owned = FALSE],
      [Cluster EXCEPT !.chaos = {}],
      [Cluster EXCEPT !.nodes[2].machine = "larger"],
      [Cluster EXCEPT !.nodes[3].pool = ""],
      [Cluster EXCEPT !.chaos = @ \cup {Pod(<<5, "controller">>, 5, Image("controller"))}],
      [Cluster EXCEPT !.chaos = {Pod(<<1, "daemon">>, 1, Image("unknown"))}] }
    \cup
    { [Cluster EXCEPT !.pods = pods] : pods \in
        { {Pod(<<n, role>>, 6 - n, Image("client")) : n \in 1 .. 4, role \in Roles},
          {Pod(<<n, role>>, IF n = 2 THEN 1 ELSE n, Image("client")) : n \in 1 .. 4, role \in Roles},
          UserPods \ {Validator1},
          UserPods \cup {[Validator1 EXCEPT !.name = <<1, "again">>]},
          UserPods \cup {Pod(<<9, "beacon">>, 5, Image("client"))} }
        \cup
        { Replaced(pod) : pod \in
            { [Validator1 EXCEPT !.node = 2],
              [Validator1 EXCEPT !.node = None],
              [Validator1 EXCEPT !.ready = FALSE],
              [Validator1 EXCEPT !.policy = "more"],
              [Validator1 EXCEPT !.containers = @ \cup {Container("side", Image("client"))}],
              [Validator1 EXCEPT !.containers = {Container("main", Image("unknown"))}],
              [Validator1 EXCEPT !.containers = {Container("main", Tagged("client"))}],
              [Validator1 EXCEPT !.containers = {Expander}],
              [Validator1 EXCEPT !.init = {Expander}],
              [Validator1 EXCEPT !.init = {Container("other", ExpanderImage)}] } } }

Entry(start, end, owner) == [start |-> start, end |-> end, owner |-> owner]

\* A file for each of the valid scenarios, and files with an entry more, less or
\* another one: touching, overlapping, the same bounds, missing, reversed or without
\* an owner.
GoodFiles ==
    { {Entry(0, 0, 1), Entry(1, 1, 2), Entry(2, 2, 3), Entry(3, 3, 4)},
      {Entry(0, 1, 1), Entry(2, 2, 3), Entry(3, 3, 4), Entry(4, 4, 4), Entry(5, 5, 2)} }

OtherEntries ==
    {Entry(0, 1, 1), Entry(1, 1, 3), Entry(1, 2, 2), Entry(3, 5, 4), Entry(3, 2, 3), Entry(6, 6, 9), Entry(6, 7, None)}

MCRangeFiles ==
    GoodFiles
    \cup {file \ {e} : file \in GoodFiles, e \in UNION GoodFiles}
    \cup {(file \ {e}) \cup {o} : file \in GoodFiles, e \in UNION GoodFiles, o \in OtherEntries}

Responses(count, balances) ==
    {{[index |-> n - 1, balance |-> b[n], active |-> TRUE] : n \in 1 .. count} :
        b \in [1 .. count -> balances]}

Extra(index, balance, active) == [index |-> index, balance |-> balance, active |-> active]

Even == {[index |-> n - 1, balance |-> 1, active |-> TRUE] : n \in 1 .. 4}

MCValidatorResponses ==
    Responses(4, 1 .. 3) \cup Responses(6, 1 .. 2) \cup Responses(3, {1}) \cup
    { {}, Even \cup {Extra(6, 1, TRUE)}, Even \cup {Extra(4, 1, FALSE)},
      Even \cup {Extra(3, 2, TRUE)}, Even \cup {Extra(4, 0, TRUE)} }
=============================================================================
