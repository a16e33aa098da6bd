------------------------- MODULE CloudSessionProofs -------------------------
(***************************************************************************)
(* Proofs about CloudSession, for every number of runs: a session forgets  *)
(* nothing it has asked the cloud for, reports success only when nothing   *)
(* billable is left, and deletes nothing of anybody else.                  *)
(***************************************************************************)
EXTENDS CloudSession, TLAPS

-----------------------------------------------------------------------------
(* The inductive invariant *)

Present(k) == cloud[k] \in {"owned", "pending"}

\* The stages of the cleanup after each of its deletions.
PastNetwork == {"c_verify", "c_end", "exited"}
PastRouter  == {"c_network"} \cup PastNetwork
PastResidue == {"c_router"} \cup PastRouter
PastDisks   == {"c_runtime", "c_residue"} \cup PastResidue
PastCluster == {"c_disks"} \cup PastDisks

Shape ==
    /\ pc \in Body \cup Cleaning \cup Ended
    /\ next \in 1 .. 6
    /\ cloud \in [Kinds -> {"absent", "foreign", "owned", "pending"}]
    /\ cloud["residue"] # "foreign"
    /\ flags \subseteq Flagged
    /\ cleanupFailed \in BOOLEAN

\* A resource that is there, or on its way, has its flag, or the flag of the
\* resource it is created after and deleted with.
FlagsInv ==
    /\ pc \in {"preflight", "watchdog"} => next = 1
    /\ pc = "create" => next <= 5
    /\ pc \in {"setup", "start", "capture", "remove", "analyze"} => "cluster" \in flags
    /\ next > 1 => "network" \in flags
    /\ next > 3 => "router" \in flags
    /\ \A k \in Flagged : Present(k) => k \in flags
    /\ Present("subnet") => "network" \in flags
    /\ Present("nat") => "router" \in flags
    /\ Present("residue") => "cluster" \in flags /\ pc \in PastCluster \cup {"killed"}
    /\ disks # {} => "cluster" \in flags

\* What has a flag has been tried once the cleanup is past its deletion.
AttemptInv ==
    /\ pc \in PastCluster /\ "cluster" \in flags => "cluster" \in attempted
    /\ pc \in PastResidue /\ Present("residue") => "residue" \in attempted
    /\ pc \in PastRouter /\ "router" \in flags => {"nat", "router"} \subseteq attempted
    /\ pc \in PastNetwork /\ "network" \in flags => {"subnet", "network"} \subseteq attempted

\* Success means that no command was abandoned and that no check of the cleanup
\* was missed.
SuccessInv ==
    /\ pc \in Body => status = 0
    /\ status = 0 => \A k \in Kinds : cloud[k] # "pending"
    /\ pc \in PastDisks \ {"exited"} /\ ~cleanupFailed => disks = {}
    /\ pc = "c_end" /\ ~cleanupFailed /\ status = 0 => \A k \in Kinds : ~Present(k)
    /\ pc = "exited" /\ status = 0 => disks = {} /\ \A k \in Kinds : ~Present(k)

IInv == Shape /\ FlagsInv /\ AttemptInv /\ SuccessInv

-----------------------------------------------------------------------------
(* One lemma per group of actions *)

LEMMA KindsAre ==
    /\ Len(Order) = 5
    /\ Kinds = {"network", "subnet", "router", "nat", "cluster", "residue"}
    /\ \A n \in 1 .. 5 : Order[n] = CASE n = 1 -> "network" [] n = 2 -> "subnet"
                                      [] n = 3 -> "router" [] n = 4 -> "nat"
                                      [] n = 5 -> "cluster"
<1>1. Len(Order) = 5
  BY DEF Order
<1>2. /\ Order[1] = "network" /\ Order[2] = "subnet" /\ Order[3] = "router"
      /\ Order[4] = "nat" /\ Order[5] = "cluster"
  BY DEF Order
<1>3. \A n \in 1 .. 5 : n = 1 \/ n = 2 \/ n = 3 \/ n = 4 \/ n = 5
  OBVIOUS
<1>4. {Order[n] : n \in 1 .. 5} = {"network", "subnet", "router", "nat", "cluster"}
  BY <1>2, <1>3
<1>5. \A n \in 1 .. 5 : Order[n] = CASE n = 1 -> "network" [] n = 2 -> "subnet"
                                      [] n = 3 -> "router" [] n = 4 -> "nat"
                                      [] n = 5 -> "cluster"
  BY <1>2, <1>3
<1> QED
  BY <1>1, <1>4, <1>5 DEF Kinds

\* A create command that is abandoned leaves its resource flagged; the session
\* does not succeed any more.
LEMMA CreateAbandonedPreserves ==
    ASSUME IInv, pc = "create", CreateAbandoned, pc' = "c_watchdog", status' \in {1, 130},
           UNCHANGED <<cleanupFailed, attempted>>
    PROVE  IInv'
<1> USE DEF IInv, CreateAbandoned, FlagsBefore, Flagged
<1>0. next \in 1 .. 5
  BY DEF Shape, FlagsInv
<1>1. Shape'
  <2>1. cloud' \in [Kinds -> {"absent", "foreign", "owned", "pending"}]
    BY <1>0, KindsAre DEF Shape
  <2>2. cloud'["residue"] = cloud["residue"]
    BY <1>0, KindsAre DEF Shape
  <2> QED
    BY <2>1, <2>2 DEF Shape, Cleaning
<1>2. FlagsInv'
  <2>1. \A k \in Kinds : Present(k)' => Present(k) \/ k = Order[next]
    BY <1>0, KindsAre DEF Shape, Present
  <2>2. flags \subseteq flags' /\ UNCHANGED <<next, disks>>
    OBVIOUS
  <2>3. Order[next] \in Flagged => Order[next] \in flags'
    OBVIOUS
  <2>4. Order[next] = "subnet" => next > 1
    BY <1>0, KindsAre
  <2>5. Order[next] = "nat" => next > 3
    BY <1>0, KindsAre
  <2>6. Order[next] # "residue"
    BY <1>0, KindsAre
  <2>7. ~Present("residue")
    BY DEF FlagsInv, PastCluster, PastDisks, PastResidue, PastRouter, PastNetwork
  <2> QED
    BY <2>1, <2>2, <2>3, <2>4, <2>5, <2>6, <2>7, KindsAre DEF FlagsInv
<1>3. AttemptInv'
  BY DEF AttemptInv, PastCluster, PastDisks, PastResidue, PastRouter, PastNetwork
<1>4. SuccessInv'
  BY DEF SuccessInv, Body, PastDisks, PastResidue, PastRouter, PastNetwork
<1> QED
  BY <1>1, <1>2, <1>3, <1>4

\* The commands of the body that succeed, or that change nothing, and the signals.
LEMMA BodyPreserves ==
    ASSUME IInv,
           \/ Preflight \/ StartWatchdog \/ Create \/ Setup \/ StartEnclave \/ Capture
           \/ RemoveEnclave \/ Analyze \/ HandleSignal
    PROVE  IInv'
<1> USE DEF IInv, Ready, Succeed, Exit
<1> DEFINE Past == PastCluster \cup PastDisks \cup PastResidue \cup PastRouter \cup PastNetwork
<1>0. Body \cap (Past \cup Cleaning \cup Ended) = {} /\ "c_watchdog" \notin Past
  BY DEF Body, Cleaning, Ended, PastCluster, PastDisks, PastResidue, PastRouter, PastNetwork
<1>1. CASE Create
  <2>1. CASE CreateAbandoned /\ Exit(1)
    BY <1>1, <2>1, CreateAbandonedPreserves DEF Create
  <2>2. CASE ~(CreateAbandoned /\ Exit(1))
    <3> DEFINE k == Order[next]
    <3>1. /\ pc = "create" /\ cloud[k] = "absent"
          /\ cloud' = [cloud EXCEPT ![k] = "owned"]
          /\ flags' = flags \cup ({k} \cap Flagged)
          /\ next' = next + 1
          /\ pc' = IF next = Len(Order) THEN "setup" ELSE "create"
          /\ UNCHANGED <<disks, status, cleanupFailed, attempted>>
      BY <1>1, <2>2 DEF Create
    <3>2. next \in 1 .. 5 /\ k \in Kinds
      BY <3>1, KindsAre DEF Shape, FlagsInv
    <3>3. Shape'
      BY <3>1, <3>2 DEF Shape, Body, Flagged
    <3>4. \A j \in Kinds : cloud'[j] = IF j = k THEN "owned" ELSE cloud[j]
      BY <3>1 DEF Shape
    <3>5. FlagsInv'
      <4>1. \A j \in Kinds : Present(j)' => Present(j) \/ j = k
        BY <3>4 DEF Present
      <4>2. flags \subseteq flags' /\ (k \in Flagged => k \in flags')
        BY <3>1
      <4>3. /\ next = 1 => k = "network"
            /\ next = 3 => k = "router"
            /\ next = 5 => k = "cluster"
            /\ k = "subnet" => next > 1
            /\ k = "nat" => next > 3
            /\ k # "residue"
        BY <3>2, KindsAre
      <4>4. ~Present("residue")
        BY <3>1 DEF FlagsInv, PastCluster, PastDisks, PastResidue, PastRouter, PastNetwork
      <4>5. /\ next' = next + 1
            /\ pc' = IF next = 5 THEN "setup" ELSE "create"
            /\ UNCHANGED disks
        BY <3>1, KindsAre
      <4> HIDE DEF k
      <4>6. /\ next' > 1 => "network" \in flags'
            /\ next' > 3 => "router" \in flags'
            /\ pc' = "setup" => "cluster" \in flags'
            /\ pc' = "create" => next' <= 5
        BY <3>2, <4>2, <4>3, <4>5 DEF FlagsInv, Flagged
      <4>7. \A j \in Flagged : Present(j)' => j \in flags'
        BY <4>1, <4>2, KindsAre DEF FlagsInv, Flagged
      <4>8. /\ Present("subnet")' => "network" \in flags'
            /\ Present("nat")' => "router" \in flags'
            /\ ~Present("residue")'
        BY <3>2, <4>1, <4>2, <4>3, <4>4, KindsAre DEF FlagsInv
      <4> QED
        BY <4>2, <4>5, <4>6, <4>7, <4>8 DEF FlagsInv
    <3>6. AttemptInv'
      BY <3>1 DEF AttemptInv, PastCluster, PastDisks, PastResidue, PastRouter, PastNetwork
    <3>7. SuccessInv'
      BY <3>1, <3>4 DEF SuccessInv, Body, PastDisks, PastResidue, PastRouter, PastNetwork
    <3> QED
      BY <3>3, <3>5, <3>6, <3>7
  <2> QED
    BY <2>1, <2>2
<1>2. CASE pc = "create" /\ HandleSignal /\ CreateAbandoned
  BY <1>2, CreateAbandonedPreserves DEF HandleSignal
<1>3. CASE ~Create /\ ~(pc = "create" /\ HandleSignal /\ CreateAbandoned)
  <2>1. UNCHANGED <<next, cloud, flags, cleanupFailed, attempted>>
    BY <1>3 DEF Preflight, StartWatchdog, Setup, StartEnclave, StartAbandoned, Capture,
                RemoveEnclave, RemoveAbandoned, Analyze, HandleSignal, body
  <2>2. /\ pc \in Body
        /\ \/ pc' = "c_watchdog" /\ status' \in {0, 1, 130}
           \/ pc' \in Body \ {"preflight"} /\ status' = status
        /\ pc' = "watchdog" => pc = "preflight"
        /\ pc' = "create" => pc \in {"preflight", "watchdog"}
        /\ pc' \in {"setup", "start", "capture", "remove", "analyze"}
              => pc \in {"setup", "start", "capture", "remove", "analyze"}
    BY <1>3 DEF Preflight, StartWatchdog, Setup, StartEnclave, Capture, RemoveEnclave,
                AfterRemoval, Analyze, HandleSignal, Body
  <2>3. disks' # {} => disks # {} \/ pc = "start"
    BY <1>3 DEF Preflight, StartWatchdog, Setup, StartEnclave, StartAbandoned, Capture,
                RemoveEnclave, RemoveAbandoned, Analyze, HandleSignal, body
  <2>4. Shape'
    BY <1>0, <2>1, <2>2 DEF Shape, Cleaning
  <2>5. FlagsInv'
    BY <2>1, <2>2, <2>3, <1>0 DEF FlagsInv, Present, Ended
  <2>6. AttemptInv'
    BY <2>1, <2>2, <1>0 DEF AttemptInv, Present
  <2>7. SuccessInv'
    <3>1. pc' \notin PastDisks /\ pc' \notin {"c_end", "exited"}
      BY <2>2, <1>0 DEF Cleaning, Ended
    <3> QED
      BY <2>1, <2>2, <3>1, <1>0 DEF SuccessInv, Cleaning
  <2> QED
    BY <2>4, <2>5, <2>6, <2>7
<1> QED
  BY <1>1, <1>2, <1>3

\* What a delete_owned_* function may do to the cloud.
LEMMA DeleteShrinks ==
    ASSUME Shape, NEW k \in Kinds, NEW blockers, Delete(k, blockers)
    PROVE  /\ cloud' \in [Kinds -> {"absent", "foreign", "owned", "pending"}]
           /\ \A j \in Kinds : cloud'[j] \in {cloud[j], "absent"}
           /\ \A j \in Kinds : cloud[j] = "foreign" => cloud'[j] = "foreign"
           /\ cleanupFailed' \in BOOLEAN
           /\ cleanupFailed => cleanupFailed'
<1>1. cleanupFailed' \in BOOLEAN /\ (cleanupFailed => cleanupFailed')
  BY Zenon DEF Shape, Delete
<1>2. \/ cloud' = cloud
      \/ Here(k) /\ cloud' = [cloud EXCEPT ![k] = "absent"]
  BY DEF Delete
<1> QED
  BY <1>1, <1>2 DEF Shape, Here

\* A step of the cleanup, or its end, that adds nothing to the cloud keeps the
\* flags right.
LEMMA ShrinkKeepsFlags ==
    ASSUME IInv,
           cloud' \in [Kinds -> {"absent", "foreign", "owned", "pending"}],
           \A k \in Kinds : cloud'[k] \in {cloud[k], "absent"},
           disks' \subseteq disks,
           UNCHANGED <<next, flags>>,
           pc' \in Cleaning \cup Ended,
           Present("residue") => pc' \in PastCluster \cup {"killed"}
    PROVE  FlagsInv'
<1>1. \A k \in Kinds : Present(k)' => Present(k)
  BY DEF Present
<1>2. pc' \notin Body
  BY DEF Body, Cleaning, Ended
<1>3. {"network", "subnet", "router", "nat", "cluster", "residue"} \subseteq Kinds
        /\ Flagged \subseteq Kinds
  BY KindsAre DEF Flagged
<1>4. disks' # {} => disks # {}
  OBVIOUS
<1> QED
  BY <1>1, <1>2, <1>3, <1>4 DEF IInv, FlagsInv, Body

\* The steps of the cleanup that delete.
LEMMA DeletionsPreserve ==
    ASSUME IInv, DeleteCluster \/ DeleteResidue \/ DeleteRouter \/ DeleteNetwork
    PROVE  IInv'
<1> USE DEF IInv, Then
<1>0. {"network", "subnet", "router", "nat", "cluster", "residue"} = Kinds
  BY KindsAre
<1>5. cleanupFailed \in BOOLEAN
  BY DEF Shape
<1>1. CASE DeleteResidue
  <2>1. /\ cloud' \in [Kinds -> {"absent", "foreign", "owned", "pending"}]
        /\ \A j \in Kinds : cloud'[j] \in {cloud[j], "absent"}
        /\ cleanupFailed' \in BOOLEAN /\ (cleanupFailed => cleanupFailed')
    BY <1>0, <1>1, DeleteShrinks DEF DeleteResidue
  <2>2. /\ pc = "c_residue" /\ pc' = "c_router"
        /\ attempted' = attempted \cup {"residue"}
        /\ UNCHANGED <<next, flags, status, disks>>
    BY <1>1 DEF DeleteResidue, body
  <2>3. Shape'
    BY <1>0, <2>1, <2>2 DEF Shape, Cleaning
  <2>4. FlagsInv'
    BY <2>1, <2>2, ShrinkKeepsFlags DEF Cleaning, PastCluster, PastDisks, PastResidue
  <2>5. AttemptInv'
    BY <2>1, <2>2 DEF AttemptInv, PastCluster, PastDisks, PastResidue, PastRouter, PastNetwork
  <2>6. SuccessInv'
    BY <2>1, <2>2 DEF SuccessInv, Body, PastDisks, PastResidue, PastRouter, PastNetwork
  <2> QED
    BY <2>3, <2>4, <2>5, <2>6
<1>2. CASE DeleteRouter
  <2>1. /\ cloud' \in [Kinds -> {"absent", "foreign", "owned", "pending"}]
        /\ \A j \in Kinds : cloud'[j] \in {cloud[j], "absent"}
        /\ cleanupFailed' \in BOOLEAN /\ (cleanupFailed => cleanupFailed')
    <3>1. CASE Delete("router", {"nat"})
      BY <1>0, <3>1, DeleteShrinks
    <3>2. CASE UNCHANGED <<cloud, cleanupFailed>>
      BY <3>2 DEF Shape
    <3>3. CASE /\ \/ cloud' = [cloud EXCEPT !["nat"] = "absent", !["router"] = "absent"]
                  \/ cloud' = [cloud EXCEPT !["nat"] = "absent"]
               /\ cleanupFailed' = cleanupFailed \/ cleanupFailed' = TRUE
      <4>1. cleanupFailed' \in BOOLEAN /\ (cleanupFailed => cleanupFailed')
        <5>1. cleanupFailed' = cleanupFailed \/ cleanupFailed' = TRUE
          BY <3>3
        <5> QED
          BY <1>5, <5>1, Zenon
      <4> QED
        BY <1>0, <3>3, <4>1 DEF Shape
    <3> QED
      BY <1>2, <3>1, <3>2, <3>3 DEF DeleteRouter
  <2>2. /\ pc = "c_router" /\ pc' = "c_network"
        /\ attempted' = attempted \cup (IF "router" \in flags THEN {"nat", "router"} ELSE {})
        /\ UNCHANGED <<next, flags, status, disks>>
    BY <1>2 DEF DeleteRouter, body
  <2>3. Shape'
    BY <1>0, <2>1, <2>2 DEF Shape, Cleaning
  <2>4. FlagsInv'
    BY <2>1, <2>2, ShrinkKeepsFlags DEF Cleaning, PastCluster, PastDisks, PastResidue,
       PastRouter
  <2>5. AttemptInv'
    BY <1>0, <2>1, <2>2 DEF AttemptInv, Present, PastCluster, PastDisks, PastResidue,
       PastRouter, PastNetwork
  <2>6. SuccessInv'
    BY <2>1, <2>2 DEF SuccessInv, Body, PastDisks, PastResidue, PastRouter, PastNetwork
  <2> QED
    BY <2>3, <2>4, <2>5, <2>6
<1>3. CASE DeleteNetwork
  <2>1. /\ cloud' \in [Kinds -> {"absent", "foreign", "owned", "pending"}]
        /\ \A j \in Kinds : cloud'[j] \in {cloud[j], "absent"}
        /\ cleanupFailed' \in BOOLEAN /\ (cleanupFailed => cleanupFailed')
    <3>1. CASE Delete("network", {"subnet", "router", "cluster", "residue"})
      BY <1>0, <3>1, DeleteShrinks
    <3>2. CASE UNCHANGED <<cloud, cleanupFailed>>
      BY <3>2 DEF Shape
    <3>3. CASE /\ \/ cloud' = [cloud EXCEPT !["subnet"] = "absent", !["network"] = "absent"]
                  \/ cloud' = [cloud EXCEPT !["subnet"] = "absent"]
               /\ cleanupFailed' = cleanupFailed \/ cleanupFailed' = TRUE
      <4>1. cleanupFailed' \in BOOLEAN /\ (cleanupFailed => cleanupFailed')
        <5>1. cleanupFailed' = cleanupFailed \/ cleanupFailed' = TRUE
          BY <3>3
        <5> QED
          BY <1>5, <5>1, Zenon
      <4> QED
        BY <1>0, <3>3, <4>1 DEF Shape
    <3> QED
      BY <1>3, <3>1, <3>2, <3>3 DEF DeleteNetwork
  <2>2. /\ pc = "c_network" /\ pc' = IF flags = {} THEN "c_end" ELSE "c_verify"
        /\ attempted' = attempted \cup
                          (IF "network" \in flags THEN {"subnet", "network"} ELSE {})
        /\ UNCHANGED <<next, flags, status, disks>>
    BY <1>3 DEF DeleteNetwork, body
  <2>3. Shape'
    BY <1>0, <2>1, <2>2 DEF Shape, Cleaning
  <2>4. FlagsInv'
    BY <2>1, <2>2, ShrinkKeepsFlags DEF Cleaning, PastCluster, PastDisks, PastResidue,
       PastRouter, PastNetwork
  <2>5. AttemptInv'
    BY <1>0, <2>1, <2>2 DEF AttemptInv, Present, PastCluster, PastDisks, PastResidue,
       PastRouter, PastNetwork
  <2>6. flags = {} => \A k \in Kinds : ~Present(k)'
    BY <1>0, <2>1 DEF FlagsInv, Present, Flagged
  <2>7. SuccessInv'
    BY <2>1, <2>2, <2>6 DEF SuccessInv, Body, PastDisks, PastResidue, PastRouter, PastNetwork
  <2> QED
    BY <2>3, <2>4, <2>5, <2>7
<1>4. CASE DeleteCluster
  <2>1. /\ cleanupFailed' \in BOOLEAN
        /\ cloud' \in [Kinds -> {"absent", "foreign", "owned", "pending"}]
        /\ \A j \in Kinds : cloud'[j] = "pending" => cloud[j] = "pending"
        /\ \A j \in Kinds \ {"residue"} : cloud'[j] \in {cloud[j], "absent"}
        /\ cloud'["residue"] # cloud["residue"] => "cluster" \in flags
        /\ cloud'["residue"] # "foreign"
    <3>1. CASE Delete("cluster", {}) /\ "cluster" \in flags
      BY <1>0, <3>1, DeleteShrinks DEF Shape
    <3>2. CASE UNCHANGED <<cloud, cleanupFailed>>
      BY <3>2 DEF Shape
    <3>3. CASE /\ cloud' = [cloud EXCEPT !["cluster"] = "absent", !["residue"] = "owned"]
               /\ "cluster" \in flags
               /\ UNCHANGED cleanupFailed
      BY <1>0, <3>3 DEF Shape
    <3> QED
      BY <1>4, <3>1, <3>2, <3>3 DEF DeleteCluster
  <2>2. /\ pc = "c_cluster" /\ pc' = IF "cluster" \in flags THEN "c_disks" ELSE "c_router"
        /\ attempted' = attempted \cup (IF "cluster" \in flags THEN {"cluster"} ELSE {})
        /\ UNCHANGED <<next, flags, status, disks>>
    BY <1>4 DEF DeleteCluster, body
  <2>3. Shape'
    BY <1>0, <2>1, <2>2 DEF Shape, Cleaning
  <2>4. ~Present("residue") /\ (Present("residue")' => "cluster" \in flags)
    BY <1>0, <2>1, <2>2 DEF FlagsInv, Present, PastCluster, PastDisks, PastResidue,
       PastRouter, PastNetwork
  <2>5. \A j \in Kinds \ {"residue"} : Present(j)' => Present(j)
    BY <2>1 DEF Present
  <2>6. FlagsInv'
    BY <1>0, <2>2, <2>4, <2>5 DEF FlagsInv, Flagged, PastCluster
  <2>7. AttemptInv'
    BY <2>2, <2>4 DEF AttemptInv, PastCluster, PastDisks, PastResidue, PastRouter, PastNetwork
  <2>8. SuccessInv'
    BY <2>1, <2>2 DEF SuccessInv, FlagsInv, Body, PastDisks, PastResidue, PastRouter,
       PastNetwork
  <2> QED
    BY <2>3, <2>6, <2>7, <2>8
<1> QED
  BY <1>1, <1>2, <1>3, <1>4

\* The other steps of the cleanup.
LEMMA CleanupPreserves ==
    ASSUME IInv,
           \/ KillWatchdog \/ StopGateway \/ DeleteDisks \/ VerifyRuntime
           \/ VerifyInventory \/ Finish
    PROVE  IInv'
<1> USE DEF IInv, Then, body
<1>1. UNCHANGED <<cloud, next, flags, attempted>> /\ disks' \subseteq disks
  BY DEF KillWatchdog, StopGateway, DeleteDisks, VerifyRuntime, VerifyInventory, Finish
<1>2. /\ pc \in {"c_watchdog", "c_gateway", "c_disks", "c_runtime", "c_verify", "c_end"}
      /\ pc' = CASE pc = "c_watchdog" -> "c_gateway" [] pc = "c_gateway" -> "c_cluster"
                 [] pc = "c_disks" -> "c_runtime" [] pc = "c_runtime" -> "c_residue"
                 [] pc = "c_verify" -> "c_end" [] pc = "c_end" -> "exited"
  BY DEF KillWatchdog, StopGateway, DeleteDisks, VerifyRuntime, VerifyInventory, Finish
<1>3. /\ cleanupFailed' \in BOOLEAN
      /\ pc # "c_gateway" => (cleanupFailed => cleanupFailed')
  <2>1. cleanupFailed \in BOOLEAN
    BY DEF Shape
  <2>2. CASE StopGateway
    <3>1. cleanupFailed' = FALSE \/ cleanupFailed' = ("cluster" \in flags)
      BY <2>2, Zenon DEF StopGateway
    <3>2. ("cluster" \in flags) \in BOOLEAN
      OBVIOUS
    <3>3. cleanupFailed' \in BOOLEAN
      BY <3>1, <3>2, Zenon
    <3> QED
      BY <2>2, <3>3 DEF StopGateway
  <2>3. CASE KillWatchdog \/ DeleteDisks \/ VerifyRuntime \/ VerifyInventory
    <3>1. cleanupFailed' = cleanupFailed \/ cleanupFailed' = TRUE
      BY <2>3 DEF KillWatchdog, DeleteDisks, VerifyRuntime, VerifyInventory
    <3> QED
      BY <2>1, <3>1, Zenon
  <2>4. CASE Finish
    <3>1. cleanupFailed' = cleanupFailed \/ cleanupFailed' = TRUE
      BY <2>4, Zenon DEF Finish
    <3> QED
      BY <2>1, <3>1, Zenon
  <2> QED
    BY <2>2, <2>3, <2>4
<1>4. Shape'
  BY <1>1, <1>2, <1>3 DEF Shape, Cleaning, Ended
<1>5. FlagsInv'
  <2>1. pc' \in Cleaning \cup Ended
    BY <1>2 DEF Cleaning, Ended
  <2>2. Present("residue") => pc' \in PastCluster \cup {"killed"}
    BY <1>2 DEF FlagsInv, PastCluster, PastDisks, PastResidue, PastRouter, PastNetwork
  <2> QED
    BY <1>1, <1>4, <2>1, <2>2, ShrinkKeepsFlags DEF Shape
<1>6. AttemptInv'
  BY <1>1, <1>2 DEF AttemptInv, Present, PastCluster, PastDisks, PastResidue, PastRouter,
     PastNetwork
<1>7. SuccessInv'
  <2>1. CASE KillWatchdog \/ StopGateway
    BY <2>1, <1>1, <1>2 DEF KillWatchdog, StopGateway, SuccessInv, Body, PastDisks,
       PastResidue, PastRouter, PastNetwork
  <2>2. CASE DeleteDisks
    BY <2>2, <1>1, <1>2 DEF DeleteDisks, SuccessInv, Body, PastDisks, PastResidue,
       PastRouter, PastNetwork
  <2>3. CASE VerifyRuntime
    BY <2>3, <1>1, <1>2, <1>3 DEF VerifyRuntime, SuccessInv, Body, PastDisks, PastResidue,
       PastRouter, PastNetwork
  <2>4. CASE VerifyInventory
    BY <2>4, <1>1, <1>2, <1>3 DEF VerifyInventory, SuccessInv, Present, Body, PastDisks,
       PastResidue, PastRouter, PastNetwork
  <2>5. CASE Finish
    <3>1. status' = 0 => ~cleanupFailed /\ status = 0
      <4>1. \E failed \in {cleanupFailed, TRUE} : status' = IF failed THEN 1 ELSE status
        BY <2>5, Zenon DEF Finish
      <4>2. cleanupFailed \in BOOLEAN
        BY DEF Shape
      <4>3. status' = 1 \/ ~cleanupFailed
        BY <4>1, <4>2, Zenon
      <4>4. status' = 1 \/ status' = status
        BY <4>1, <4>2, Zenon
      <4> QED
        BY <4>3, <4>4
    <3> QED
      BY <2>5, <3>1, <1>1, <1>2 DEF Finish, SuccessInv, Present, Body, PastDisks,
         PastResidue, PastRouter, PastNetwork
  <2> QED
    BY <2>1, <2>2, <2>3, <2>4, <2>5
<1> QED
  BY <1>4, <1>5, <1>6, <1>7

\* The signals, the cloud and the controller of the disks.
LEMMA WorldPreserves ==
    ASSUME IInv,
           \/ Interrupt \/ WatchdogFires \/ SecondSignal \/ Hang \/ Surface
           \/ CollectDisks \/ Over \/ UNCHANGED vars
    PROVE  IInv'
<1> USE DEF IInv, body
<1>1. CASE Surface
  <2>1. PICK k \in Kinds : cloud[k] = "pending" /\ cloud' = [cloud EXCEPT ![k] = "owned"]
    BY <1>1 DEF Surface
  <2>2. UNCHANGED <<pc, next, flags, disks, status, cleanupFailed, attempted>>
    BY <1>1 DEF Surface
  <2>3. /\ cloud' \in [Kinds -> {"absent", "foreign", "owned", "pending"}]
        /\ cloud'["residue"] # "foreign"
        /\ \A j \in Kinds : Present(j)' = Present(j)
    BY <2>1, KindsAre DEF Shape, Present
  <2>4. FlagsInv' /\ AttemptInv'
    BY <2>2, <2>3, KindsAre DEF FlagsInv, AttemptInv, Flagged
  <2>5. SuccessInv'
    BY <2>1, <2>2, <2>3 DEF SuccessInv
  <2> QED
    BY <2>2, <2>3, <2>4, <2>5 DEF Shape
<1>2. CASE CollectDisks
  <2>1. disks' \subseteq disks
        /\ UNCHANGED <<pc, cloud, next, flags, status, cleanupFailed, attempted>>
    BY <1>2 DEF CollectDisks
  <2> QED
    BY <2>1 DEF Shape, FlagsInv, AttemptInv, SuccessInv, Present
<1>3. CASE SecondSignal \/ WatchdogFires
  <2>1. UNCHANGED <<cloud, next, flags, disks, status, cleanupFailed, attempted>>
        /\ (pc' = pc \/ pc' = "killed")
    BY <1>3 DEF SecondSignal, WatchdogFires
  <2>2. CASE pc' = pc
    BY <2>1, <2>2 DEF Shape, FlagsInv, AttemptInv, SuccessInv, Present
  <2>3. CASE pc' = "killed"
    BY <2>1, <2>3 DEF Shape, FlagsInv, AttemptInv, SuccessInv, Present, Ended, Body, PastCluster,
       PastDisks, PastResidue, PastRouter, PastNetwork
  <2> QED
    BY <2>1, <2>2, <2>3
<1>4. CASE Interrupt \/ Hang \/ Over \/ UNCHANGED vars
  <2>1. UNCHANGED <<pc, cloud, next, flags, disks, status, cleanupFailed, attempted>>
    BY <1>4 DEF Interrupt, Hang, Over, vars
  <2> QED
    BY <2>1 DEF Shape, FlagsInv, AttemptInv, SuccessInv, Present
<1> QED
  BY <1>1, <1>2, <1>3, <1>4

LEMMA InitiallyIInv == Init => IInv
<1> SUFFICES ASSUME Init PROVE IInv
  OBVIOUS
<1>1. \A k \in Kinds : cloud[k] \in {"absent", "foreign"}
  BY DEF Init
<1>2. Shape
  <2>1. cloud \in [Kinds -> {"absent", "foreign", "owned", "pending"}]
    BY DEF Init
  <2>2. cloud["residue"] # "foreign"
    BY KindsAre DEF Init, Flagged
  <2>3. pc \in Body /\ next \in 1 .. 6 /\ flags \subseteq Flagged
    BY DEF Init, Body
  <2>4. cleanupFailed \in BOOLEAN
    BY Zenon DEF Init
  <2> QED
    BY <2>1, <2>2, <2>3, <2>4 DEF Shape
<1> QED
  BY <1>1, <1>2, KindsAre DEF Init, IInv, FlagsInv, AttemptInv, SuccessInv, Present, Flagged, Body,
     PastCluster, PastDisks, PastResidue, PastRouter, PastNetwork

LEMMA AlwaysIInv == Spec => []IInv
<1>1. IInv /\ [Next]_vars => IInv'
  BY BodyPreserves, DeletionsPreserve, CleanupPreserves, WorldPreserves DEF Next, Session
<1> QED
  BY <1>1, InitiallyIInv, PTL DEF Spec

-----------------------------------------------------------------------------
(* The theorems *)

\* However far the creation had got when a command failed or a signal arrived, a
\* cleanup that comes to its end has tried to tear down every resource that is there.
THEOREM NothingIsForgotten == Spec => []CreatedIsTornDown
<1>1. IInv => CreatedIsTornDown
  BY KindsAre DEF IInv, FlagsInv, AttemptInv, CreatedIsTornDown, Present, Flagged,
     PastCluster, PastDisks, PastResidue, PastRouter, PastNetwork
<1> QED
  BY <1>1, AlwaysIInv, PTL

\* A session that exits with 0 has left no disk and no resource, seen or unseen.
THEOREM SuccessLeavesNothing == Spec => []CleanExitMeansEmpty
<1>1. IInv => CleanExitMeansEmpty
  BY DEF IInv, SuccessInv, Present, CleanExitMeansEmpty
<1> QED
  BY <1>1, AlwaysIInv, PTL

\* No step of a session, of its cleanup or of the cloud deletes a foreign resource.
THEOREM ForeignIsNeverDeleted == Spec => ForeignSurvives
<1> DEFINE Kept == \A k \in Kinds : cloud[k] = "foreign" => cloud'[k] = "foreign"
<1>1. IInv /\ [Next]_vars => [Kept]_vars
  <2> SUFFICES ASSUME IInv, Next, NEW k \in Kinds, cloud[k] = "foreign"
               PROVE  cloud'[k] = "foreign"
    OBVIOUS
  <2>0. /\ cloud \in [Kinds -> {"absent", "foreign", "owned", "pending"}]
        /\ cloud["residue"] # "foreign"
        /\ {"network", "subnet", "router", "nat", "cluster", "residue"} = Kinds
        /\ pc = "create" => Order[next] \in Kinds
    BY KindsAre DEF IInv, Shape, FlagsInv
  <2>1. CASE Create \/ HandleSignal
    BY <2>0, <2>1 DEF Create, HandleSignal, CreateAbandoned, StartAbandoned, RemoveAbandoned,
                      Ready
  <2>2. CASE DeleteCluster
    BY <2>0, <2>2, DeleteShrinks DEF IInv, DeleteCluster, Here
  <2>5. CASE DeleteResidue
    BY <2>0, <2>5, DeleteShrinks DEF IInv, DeleteResidue
  <2>6. CASE DeleteRouter
    BY <2>0, <2>6, DeleteShrinks DEF IInv, DeleteRouter, Here
  <2>7. CASE DeleteNetwork
    BY <2>0, <2>7, DeleteShrinks DEF IInv, DeleteNetwork, Here
  <2>3. CASE Surface
    BY <2>0, <2>3 DEF Surface
  <2>4. CASE ~(Create \/ HandleSignal \/ DeleteCluster \/ DeleteResidue \/ DeleteRouter
                 \/ DeleteNetwork \/ Surface)
    BY <2>4 DEF Next, Session, Preflight, StartWatchdog, Setup, StartEnclave, StartAbandoned,
                Capture, RemoveEnclave, RemoveAbandoned, Analyze, KillWatchdog, StopGateway,
                DeleteDisks, VerifyRuntime, VerifyInventory, Finish, Interrupt,
                WatchdogFires, SecondSignal, Hang, CollectDisks, Over, vars
  <2> QED
    BY <2>1, <2>2, <2>3, <2>4, <2>5, <2>6, <2>7
<1>2. Spec => [][Kept]_vars
  BY <1>1, AlwaysIInv, PTL DEF Spec
<1> QED
  BY <1>2 DEF ForeignSurvives
=============================================================================
