----------------------------- MODULE CloudSession ---------------------------
(***************************************************************************)
(* scripts/experiment/phase3.sh: a billed session in the cloud.  It makes  *)
(* a network, a router and a cluster, runs the committed experiments in    *)
(* enclaves, and tears everything down from its EXIT trap.  Any command    *)
(* may fail, before or after the cloud has acted on it, or never return;   *)
(* signals arrive at any time, also from the script's own watchdog.        *)
(***************************************************************************)
EXTENDS Naturals, Sequences, FiniteSets

CONSTANT NumRuns    \* bound: the length of PHASE3_RUN_ORDER

ASSUME SessionAssumption == NumRuns \in Nat \ {0}

VARIABLES
    kind,        \* session_kind
    pc,
    next,        \* index of the next resource to create
    run,         \* runs begun
    cloud,       \* the resources with the names of this session
    flags,       \* network_created, router_created, cluster_created
    enclave,     \* current_enclave, as a run index, 0 when empty
    disks,       \* the runs whose enclaves have left PVC disks
    hung,        \* the foreground command does not return
    pending,     \* a signal waits for the foreground command to return
    watchdog,    \* "off", "armed" or "fired"
    status,      \* original_status
    cleanupFailed,
    attempted    \* resources whose delete function was called, also when it stopped
                 \* at the first of its two (history variable)

body == <<next, run, flags, enclave>>
vars == <<kind, pc, body, cloud, disks, hung, pending, watchdog, status, cleanupFailed,
          attempted>>

Order == <<"network", "subnet", "router", "nat", "cluster">>

Kinds == {Order[i] : i \in 1 .. Len(Order)} \cup {"residue"}

\* The resources with a *_created flag; the others go with these.
Flagged == {"network", "router", "cluster"}

Here(k) == cloud[k] = "owned"

Body == {"preflight", "watchdog", "create", "setup", "start", "capture", "remove", "analyze"}

Cleaning == {"c_watchdog", "c_gateway", "c_cluster", "c_disks", "c_runtime", "c_residue",
             "c_router", "c_network", "c_verify", "c_end"}

Ended == {"exited", "killed"}

\* "foreign" is a resource of the same name without the labels or the description
\* of this session; "pending" was accepted by the cloud and is not yet visible;
\* "residue" stands for the endpoint groups and firewall rules GKE leaves behind.
\* Only what a flag stands for may be foreign at first; a foreign subnet or disk,
\* which have checks of their own (phase3.sh:610, 373-385), is not in the model.
Init ==
    /\ kind \in {"evidence", "qualification"}
    /\ pc = "preflight"
    /\ next = 1 /\ run = 0
    /\ cloud \in [Kinds -> {"absent", "foreign"}]
    /\ \A k \in Kinds \ Flagged : cloud[k] = "absent"
    /\ flags = {}
    /\ enclave = 0 /\ disks = {}
    /\ hung = FALSE
    /\ pending = FALSE
    /\ watchdog = "off"
    /\ status = 0
    /\ cleanupFailed = FALSE
    /\ attempted = {}

-----------------------------------------------------------------------------
(* The commands of the body; set -e ends the session at the first failure *)

\* The EXIT trap: the traps are reset, so that from here on a signal kills.
Exit(code) == pc' = "c_watchdog" /\ status' = code

\* The shell is between two commands, with no signal to handle.
Ready(stage) == pc = stage /\ ~hung /\ ~pending

Succeed(stage) == pc' = stage /\ UNCHANGED status

\* The preflights before anything is created.
Preflight ==
    /\ Ready("preflight")
    /\ Succeed(IF kind = "qualification" THEN "watchdog" ELSE "create") \/ Exit(1)
    /\ UNCHANGED <<kind, body, cloud, disks, hung, pending, watchdog, cleanupFailed, attempted>>

StartWatchdog ==
    /\ Ready("watchdog")
    /\ Succeed("create")
    /\ watchdog' = "armed"
    /\ UNCHANGED <<kind, body, cloud, disks, hung, pending, cleanupFailed, attempted>>

\* Mutant of FlagsBefore: a flag is set when its resource has been created.
FlagsBefore_TooLate(k) == flags

\* A flag is set before the command that creates its resource.
FlagsBefore(k) == flags \cup ({k} \cap Flagged)

\* A create command that failed or was ended by a signal: it may have had its effect,
\* or may have it later.
CreateAbandoned ==
    LET k == Order[next]
    IN  /\ flags' = FlagsBefore(k)
        /\ cloud' \in {cloud} \cup
              {[cloud EXCEPT ![k] = s] :
                  s \in IF cloud[k] = "absent" THEN {"owned", "pending"} ELSE {}}
        /\ UNCHANGED <<next, run, enclave, disks>>

\* gcloud ... create, of the next resource; a name that is taken is refused.
Create ==
    /\ Ready("create")
    /\ \/ /\ cloud[Order[next]] = "absent"
          /\ cloud' = [cloud EXCEPT ![Order[next]] = "owned"]
          /\ flags' = flags \cup ({Order[next]} \cap Flagged)
          /\ next' = next + 1
          /\ Succeed(IF next = Len(Order) THEN "setup" ELSE "create")
          /\ UNCHANGED <<run, enclave, disks>>
       \/ CreateAbandoned /\ Exit(1)
    /\ UNCHANGED <<kind, hung, pending, watchdog, cleanupFailed, attempted>>

\* Node pools, credentials, storage class, egress gate, Chaos Mesh, gateway.
Setup ==
    /\ Ready("setup")
    /\ Succeed("start") \/ Exit(1)
    /\ UNCHANGED <<kind, body, cloud, disks, hung, pending, watchdog, cleanupFailed, attempted>>

\* current_enclave is set first; the enclave may be there in part.
StartAbandoned ==
    /\ run' = run + 1 /\ enclave' = run + 1
    /\ disks' \in {disks, disks \cup {run + 1}}
    /\ UNCHANGED <<next, cloud, flags>>

\* The next run, or the only workload of a qualification: its enclave must not
\* exist; kurtosis run brings it up, with its disks, or fails.
StartEnclave ==
    /\ Ready("start")
    /\ \/ /\ Succeed("capture")
          /\ run' = run + 1 /\ enclave' = run + 1
          /\ disks' = disks \cup {run + 1}
          /\ UNCHANGED <<next, cloud, flags>>
       \/ StartAbandoned /\ Exit(1)
    /\ UNCHANGED <<kind, hung, pending, watchdog, cleanupFailed, attempted>>

\* The capture, or the gates of the qualification.
Capture ==
    /\ Ready("capture")
    /\ Succeed("remove") \/ Exit(1)
    /\ UNCHANGED <<kind, body, cloud, disks, hung, pending, watchdog, cleanupFailed, attempted>>

\* The enclave may be gone, and its disks too.
RemoveAbandoned ==
    /\ disks' \in {disks, disks \ {enclave}}
    /\ UNCHANGED <<body, cloud>>

\* After a removal: the next run, the analysis, or the end of a qualification.
AfterRemoval ==
    \/ kind = "evidence" /\ run < NumRuns /\ Succeed("start")
    \/ kind = "evidence" /\ run = NumRuns /\ Succeed("analyze")
    \/ kind = "qualification" /\ Exit(0)

\* kurtosis enclave rm and the wait for its namespace; its disks may go later.
RemoveEnclave ==
    /\ Ready("remove")
    /\ \/ /\ enclave' = 0
          /\ disks' \in {disks, disks \ {enclave}}
          /\ AfterRemoval
          /\ UNCHANGED <<next, run, cloud, flags>>
       \/ RemoveAbandoned /\ Exit(1)
    /\ UNCHANGED <<kind, hung, pending, watchdog, cleanupFailed, attempted>>

Analyze ==
    /\ Ready("analyze")
    /\ Exit(0) \/ Exit(1)
    /\ UNCHANGED <<kind, body, cloud, disks, hung, pending, watchdog, cleanupFailed, attempted>>

-----------------------------------------------------------------------------
(* The cleanup: every step is taken, whatever the ones before it came to *)

Then(stage) == pc' = stage /\ UNCHANGED <<kind, body, hung, pending, status>>

KillWatchdog ==
    /\ pc = "c_watchdog"
    /\ watchdog' = "off"
    /\ Then("c_gateway")
    /\ UNCHANGED <<cloud, disks, cleanupFailed, attempted>>

\* access gateway-stop, when there is a kubeconfig.
StopGateway ==
    /\ pc = "c_gateway"
    /\ Then("c_cluster")
    /\ cleanupFailed' \in {FALSE, "cluster" \in flags}
    /\ UNCHANGED <<cloud, disks, watchdog, attempted>>

\* Mutant of Delete: the ownership of what is found is not looked at.
Delete_AnyOwner(k, blockers) ==
    \/ /\ cloud[k] # "absent"
       /\ \A b \in blockers : cloud[b] = "absent"
       /\ cloud' = [cloud EXCEPT ![k] = "absent"]
       /\ UNCHANGED cleanupFailed
    \/ cloud[k] = "absent" /\ UNCHANGED <<cloud, cleanupFailed>>
    \/ cleanupFailed' = TRUE /\ UNCHANGED cloud

\* A delete_owned_* function.  It deletes a resource with the marks of the session,
\* which the cloud refuses while something depends on it; finds nothing, when there
\* is nothing to see; or fails: the resource is foreign, or could not be read, or
\* was not seen to go within the retries.
Delete(k, blockers) ==
    \/ /\ Here(k)
       /\ \A b \in blockers : cloud[b] = "absent"
       /\ cloud' = [cloud EXCEPT ![k] = "absent"]
       /\ cleanupFailed' \in {cleanupFailed, TRUE}
    \/ cloud[k] \in {"absent", "pending"} /\ UNCHANGED <<cloud, cleanupFailed>>
    \/ cleanupFailed' = TRUE /\ UNCHANGED cloud

\* delete_owned_cluster; GKE may leave endpoint groups and firewall rules.
DeleteCluster ==
    /\ pc = "c_cluster"
    /\ IF "cluster" \in flags
       THEN /\ attempted' = attempted \cup {"cluster"}
            /\ \/ Delete("cluster", {})
               \/ /\ Here("cluster")
                  /\ cloud' = [cloud EXCEPT !["cluster"] = "absent", !["residue"] = "owned"]
                  /\ UNCHANGED cleanupFailed
            /\ Then("c_disks")
       ELSE UNCHANGED <<cloud, attempted, cleanupFailed>> /\ Then("c_router")
    /\ UNCHANGED <<disks, watchdog>>

\* delete_owned_pvc_disks: only detached disks of the current enclave are deleted.
DeleteDisks ==
    /\ pc = "c_disks"
    /\ \/ /\ ~Here("cluster")
          /\ disks \subseteq {enclave}
          /\ disks' = {}
          /\ UNCHANGED cleanupFailed
       \/ cleanupFailed' = TRUE /\ UNCHANGED disks
    /\ Then("c_runtime")
    /\ UNCHANGED <<cloud, watchdog, attempted>>

\* verify_runtime_inventory_empty: no instances, no disks.
VerifyRuntime ==
    /\ pc = "c_runtime"
    /\ \/ ~Here("cluster") /\ disks = {} /\ UNCHANGED cleanupFailed
       \/ cleanupFailed' = TRUE
    /\ Then("c_residue")
    /\ UNCHANGED <<cloud, disks, watchdog, attempted>>

\* wait_for_gke_load_balancer_gc, delete_owned_network_endpoint_groups and
\* delete_owned_firewall_rules.
DeleteResidue ==
    /\ pc = "c_residue"
    /\ attempted' = attempted \cup {"residue"}
    /\ Delete("residue", {"cluster"})
    /\ Then("c_router")
    /\ UNCHANGED <<disks, watchdog>>

\* delete_owned_nat_router: the NAT, then the router; it stops at a failure.
DeleteRouter ==
    /\ pc = "c_router"
    /\ IF "router" \in flags
       THEN /\ attempted' = attempted \cup {"nat", "router"}
            /\ \/ Delete("router", {"nat"})
               \/ /\ Here("router") /\ Here("nat")
                  /\ \/ cloud' = [cloud EXCEPT !["nat"] = "absent", !["router"] = "absent"]
                        /\ UNCHANGED cleanupFailed
                     \/ cloud' = [cloud EXCEPT !["nat"] = "absent"] /\ cleanupFailed' = TRUE
       ELSE UNCHANGED <<cloud, attempted, cleanupFailed>>
    /\ Then("c_network")
    /\ UNCHANGED <<disks, watchdog>>

\* delete_owned_network: the subnet, then the network; it stops at a failure.
\* That a network stays while a router, cluster or rest of GKE uses it, whoever owns
\* that, is the refusal of gcloud, which the function retries (phase3.sh:665-672).
DeleteNetwork ==
    /\ pc = "c_network"
    /\ IF "network" \in flags
       THEN /\ attempted' = attempted \cup {"subnet", "network"}
            /\ \/ Delete("network", {"subnet", "router", "cluster", "residue"})
               \/ /\ Here("subnet") /\ cloud["cluster"] = "absent"
                  /\ \/ /\ Here("network")
                        /\ \A b \in {"router", "residue"} : cloud[b] = "absent"
                        /\ cloud' = [cloud EXCEPT !["subnet"] = "absent", !["network"] = "absent"]
                        /\ UNCHANGED cleanupFailed
                     \/ cloud' = [cloud EXCEPT !["subnet"] = "absent"] /\ cleanupFailed' = TRUE
            /\ Then("c_verify")
       ELSE /\ UNCHANGED <<cloud, attempted, cleanupFailed>>
            /\ Then(IF flags = {} THEN "c_end" ELSE "c_verify")
    /\ UNCHANGED <<disks, watchdog>>

\* verify_cloud_inventory_empty: nothing is listed in the whole project.
VerifyInventory ==
    /\ pc = "c_verify"
    /\ \/ (\A k \in Kinds : cloud[k] \in {"absent", "pending"}) /\ UNCHANGED cleanupFailed
       \/ cleanupFailed' = TRUE
    /\ Then("c_end")
    /\ UNCHANGED <<cloud, disks, watchdog, attempted>>

\* Mutant of Finish: the status of the cleanup is not looked at.
Finish_IgnoresCleanup ==
    /\ pc = "c_end"
    /\ pc' = "exited"
    /\ UNCHANGED <<kind, body, cloud, disks, hung, pending, watchdog, status, cleanupFailed,
                   attempted>>

\* remove_session_runtime, the check of the global context, and the exit status.
Finish ==
    /\ pc = "c_end"
    /\ pc' = "exited"
    /\ \E failed \in {cleanupFailed, TRUE} :
          /\ cleanupFailed' = failed
          /\ status' = IF failed THEN 1 ELSE status
    /\ UNCHANGED <<kind, body, cloud, disks, hung, pending, watchdog, attempted>>

-----------------------------------------------------------------------------
(* Signals and the world *)

\* Ctrl-C or a hangup goes to the foreground command as well, and ends it.
Interrupt ==
    /\ pc \in Body
    /\ ~pending \/ hung
    /\ pending' = TRUE
    /\ hung' = FALSE
    /\ UNCHANGED <<kind, pc, body, cloud, disks, watchdog, status, cleanupFailed, attempted>>

\* The watchdog sends TERM to the shell, and to the shell only.
WatchdogFires ==
    /\ watchdog = "armed"
    /\ pc \notin Ended
    /\ watchdog' = "fired"
    /\ IF pc \in Body
       THEN pending' = TRUE /\ UNCHANGED pc
       ELSE pc' = "killed" /\ UNCHANGED pending
    /\ UNCHANGED <<kind, body, cloud, disks, hung, status, cleanupFailed, attempted>>

\* A trap runs when the foreground command has returned, whatever it came to.
HandleSignal ==
    /\ pc \in Body
    /\ pending /\ ~hung
    /\ pending' = FALSE
    /\ Exit(130)
    /\ \/ UNCHANGED <<body, cloud, disks>>
       \/ pc = "create" /\ CreateAbandoned
       \/ pc = "start" /\ StartAbandoned
       \/ pc = "remove" /\ RemoveAbandoned
    /\ UNCHANGED <<kind, hung, watchdog, cleanupFailed, attempted>>

\* A second signal meets a shell without traps.
SecondSignal ==
    /\ pc \in Cleaning
    /\ pc' = "killed"
    /\ UNCHANGED <<kind, body, cloud, disks, hung, pending, watchdog, status, cleanupFailed,
                   attempted>>

\* A command of the body never returns by itself.
Hang ==
    /\ pc \in Body
    /\ ~hung /\ ~pending
    /\ hung' = TRUE
    /\ UNCHANGED <<kind, pc, body, cloud, disks, pending, watchdog, status, cleanupFailed,
                   attempted>>

\* What the cloud accepted becomes visible; the disks of a removed enclave go.
Surface ==
    /\ \E k \in Kinds : cloud[k] = "pending" /\ cloud' = [cloud EXCEPT ![k] = "owned"]
    /\ UNCHANGED <<kind, pc, body, disks, hung, pending, watchdog, status, cleanupFailed,
                   attempted>>

CollectDisks ==
    /\ Here("cluster")
    /\ \E d \in disks \ {enclave} : disks' = disks \ {d}
    /\ UNCHANGED <<kind, pc, body, cloud, hung, pending, watchdog, status, cleanupFailed,
                   attempted>>

Over == pc \in Ended /\ UNCHANGED vars

Session ==
    \/ Preflight \/ StartWatchdog \/ Create \/ Setup \/ StartEnclave \/ Capture
    \/ RemoveEnclave \/ Analyze
    \/ KillWatchdog \/ StopGateway \/ DeleteCluster \/ DeleteDisks \/ VerifyRuntime
    \/ DeleteResidue \/ DeleteRouter \/ DeleteNetwork \/ VerifyInventory \/ Finish
    \/ HandleSignal

Next ==
    \/ Session \/ Interrupt \/ WatchdogFires \/ SecondSignal \/ Hang \/ Surface
    \/ CollectDisks \/ Over

Spec == Init /\ [][Next]_vars

-----------------------------------------------------------------------------
(* Properties *)

\* A session that reports success has left nothing billable behind, in the cloud
\* or on its way there.
CleanExitMeansEmpty ==
    pc = "exited" /\ status = 0 =>
        disks = {} /\ \A k \in Kinds : cloud[k] \notin {"owned", "pending"}

\* No resource that this session has asked the cloud for is forgotten: when its
\* cleanup comes to the end, the teardown of each one that is there was tried,
\* however far the creation had got when it failed.
CreatedIsTornDown ==
    pc = "exited" => \A k \in Kinds : cloud[k] \in {"owned", "pending"} => k \in attempted

\* A resource of somebody else, with a name of this session, is never deleted.
ForeignSurvives ==
    [][\A k \in Kinds : cloud[k] = "foreign" => cloud'[k] = "foreign"]_vars
=============================================================================
