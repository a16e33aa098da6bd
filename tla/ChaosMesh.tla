------------------------------ MODULE ChaosMesh -----------------------------
(***************************************************************************)
(* internal/fault/chaosmesh.go: the fault backend.  Apply and Revert are   *)
(* sequences of kubectl commands, each of which may fail: before it        *)
(* reaches the API server, or after the server has acted on it.  The       *)
(* NetworkChaos resource has a life of its own under the Chaos Mesh        *)
(* controller, which injects it, recovers it when its duration (the        *)
(* deadman TTL) is over, and finishes its deletion.                        *)
(***************************************************************************)

VARIABLES
    resource,    \* the NetworkChaos with the name of this run
    namespace,   \* whose labels the target namespace has
    step,        \* the kubectl command of the running call, or "idle"
    op,          \* the running call: "apply" or "revert"
    undo,        \* Apply has failed and is running Revert
    result,      \* what the last call returned
    fresh,       \* the running call has a context of its own
    ctxDone      \* the context of the run is done

backendVars == <<resource, namespace, step, op, undo, result, fresh, ctxDone>>

\* "injected" and "deleting" cut the network: the finalizer heals it before the
\* object goes.  "recovered" is an object whose duration is over.  "foreign" is
\* an object of the same name that lacks the labels of this run.
Resources == {"absent", "created", "injected", "recovered", "deleting", "foreign"}

Owned == resource \in {"created", "injected", "recovered", "deleting"}

Cut == resource \in {"injected", "deleting"}

BackendTypeOK ==
    /\ resource \in Resources
    /\ namespace \in {"owned", "foreign"}
    /\ step \in {"idle", "namespace", "create", "wait", "get", "delete"}
    /\ op \in {"none", "apply", "revert"}
    /\ undo \in BOOLEAN
    /\ result \in {"none", "ok", "error"}
    /\ fresh \in BOOLEAN
    /\ ctxDone \in BOOLEAN

\* A resource of this run that an earlier, killed attempt left behind may exist,
\* and so may an object of somebody else.
BackendInit ==
    /\ resource \in {"absent", "injected", "foreign"}
    /\ namespace \in {"owned", "foreign"}
    /\ step = "idle"
    /\ op = "none"
    /\ undo = FALSE
    /\ result = "none"
    /\ fresh = FALSE
    /\ ctxDone = FALSE

-----------------------------------------------------------------------------
(* The calls *)

\* A call of Apply or Revert, with the context of the run or with one of its own,
\* as in the deferred cleanup of the orchestrator.
Begin(call, ownContext) ==
    /\ step = "idle"
    /\ op' = call
    /\ step' = "namespace"
    /\ undo' = FALSE
    /\ result' = "none"
    /\ fresh' = ownContext
    /\ UNCHANGED <<resource, namespace, ctxDone>>

\* kubectl is killed when its context is done.  The Revert inside Apply has a
\* context of its own.
CanSucceed == fresh \/ undo \/ ~ctxDone

\* An Apply that had to undo has failed, whatever its Revert returned.
Return(outcome) ==
    /\ step' = "idle"
    /\ result' = IF undo THEN "error" ELSE outcome
    /\ undo' = FALSE
    /\ UNCHANGED op

Continue(next) ==
    /\ step' = next
    /\ UNCHANGED <<op, undo, result>>

\* Mutant of VerifyNamespace: the labels of the namespace are not compared.
VerifyNamespace_AnyLabels ==
    /\ step = "namespace"
    /\ \/ /\ CanSucceed
          /\ Continue(IF op = "apply" /\ ~undo THEN "create" ELSE "get")
       \/ Return("error")
    /\ UNCHANGED <<resource, namespace, fresh, ctxDone>>

\* verifyNamespaceOwnership; a request that validatePartitionRequest refuses
\* returns the same error from the same state.
VerifyNamespace ==
    /\ step = "namespace"
    /\ \/ /\ CanSucceed
          /\ namespace = "owned"
          /\ Continue(IF op = "apply" /\ ~undo THEN "create" ELSE "get")
       \/ Return("error")
    /\ UNCHANGED <<resource, namespace, fresh, ctxDone>>

\* kubectl create: fails when an object of that name exists, and may fail after
\* the server has created the object.
CreateResource ==
    /\ step = "create"
    /\ \/ /\ CanSucceed
          /\ resource = "absent"
          /\ resource' = "created"
          /\ Continue("wait")
       \/ /\ \/ resource' = resource
             \/ resource = "absent" /\ resource' = "created"
          /\ Return("error")
    /\ UNCHANGED <<namespace, fresh, ctxDone>>

\* kubectl wait --for=condition=AllInjected: on failure Apply reverts.
AwaitInjected ==
    /\ step = "wait"
    /\ \/ /\ CanSucceed
          /\ resource = "injected"
          /\ Return("ok")
       \/ /\ undo' = TRUE
          /\ step' = "namespace"
          /\ UNCHANGED <<op, result>>
    /\ UNCHANGED <<resource, namespace, fresh, ctxDone>>

\* getOwnedResource: nothing there is success, a foreign object an error.
GetOwnedResource ==
    /\ step = "get"
    /\ \/ /\ CanSucceed
          /\ resource # "foreign"
          /\ IF resource = "absent" THEN Return("ok") ELSE Continue("delete")
       \/ Return("error")
    /\ UNCHANGED <<resource, namespace, fresh, ctxDone>>

\* What an accepted deletion makes of the object: the finalizer of an injected
\* one has to heal the network first.
Deleted(r) == IF r \in {"injected", "deleting"} THEN "deleting" ELSE "absent"

\* kubectl delete --wait: returns when the object is gone, or fails: it was gone
\* already, the request did not get through, or the wait timed out after it did.
DeleteResource ==
    /\ step = "delete"
    /\ \/ /\ CanSucceed
          /\ resource # "absent"
          /\ resource' = "absent"
          /\ Return("ok")
       \/ /\ resource' \in {resource, Deleted(resource)}
          /\ Return("error")
    /\ UNCHANGED <<namespace, fresh, ctxDone>>

BackendStep ==
    \/ VerifyNamespace
    \/ CreateResource
    \/ AwaitInjected
    \/ GetOwnedResource
    \/ DeleteResource

-----------------------------------------------------------------------------
(* The Chaos Mesh controller *)

Inject ==
    /\ resource = "created"
    /\ resource' = "injected"

\* Mutant of Expire: the object is created without a duration.
Expire_NoDuration ==
    /\ FALSE
    /\ resource' = "recovered"

\* The duration of the object is over.
Expire ==
    /\ resource \in {"created", "injected"}
    /\ resource' = "recovered"

FinishDeletion ==
    /\ resource = "deleting"
    /\ resource' = "absent"

Controller ==
    /\ Inject \/ Expire \/ FinishDeletion
    /\ UNCHANGED <<namespace, step, op, undo, result, fresh, ctxDone>>
=============================================================================
