------------------------------ MODULE Webhook ------------------------------
(***************************************************************************)
(* The gates that internal/webhook/v1/pod_webhook.go and buildInputs of    *)
(* internal/controller/node_controller.go share, and the CPU limits the    *)
(* webhook gives a pod at birth.                                           *)
(*                                                                         *)
(* settings is the HeadroomConfig both read, the namespace's enrolment     *)
(* included; its optional booleans are "unset", "true" or "false".         *)
(* initialMultiplier and maxMultiplier are over one denominator,           *)
(* policy.multDen.                                                         *)
(***************************************************************************)
EXTENDS VPARule

\* Does one of the pod's owners match an entry of excludedOwners, on the
\* fields the entry sets?
OwnerExcluded(pod, excluded) ==
    \E o \in pod.owners, e \in excluded :
        /\ e.kind = o.kind
        /\ e.group \in {"", o.group}
        /\ e.name \in {<< >>, o.name}

\* The reconciler's gates on a pod of a manageable node.
Managed(pod, settings, vpas) ==
    /\ ~pod.optedOut /\ ~pod.podLevel
    /\ QOSClass(pod.containers) = "Burstable"
    /\ PodCPURequestMilli(pod.containers) > 0
    /\ ~HasRestartOnResize(pod.containers)
    /\ ~OwnerExcluded(pod, settings.excludedOwners)
    /\ settings.namespaceManaged
    /\ LimitManagingVPA(pod, vpas) = {}

\* loadConfig: without a HeadroomConfig, and unless it says otherwise, Headroom
\* only looks on; the webhook of a HeadroomConfig is on unless it says otherwise.
LoadConfig(settings) ==
    [enabled |-> settings.present /\ settings.webhook # "false",
     dryRun  |-> ~settings.present \/ settings.dryRun # "false"]

\* Slip: the restart and owner gates are left to the controller.
MutantFewerGates(pod, settings, vpas) ==
    /\ LoadConfig(settings).enabled /\ ~LoadConfig(settings).dryRun
    /\ ~pod.optedOut /\ ~pod.podLevel
    /\ settings.namespaceManaged
    /\ LimitManagingVPA(pod, vpas) = {}

\* The webhook's: it seeds nothing in dry-run, and the QoS class is not known
\* yet.
Seeds(pod, settings, vpas) ==
    /\ LoadConfig(settings).enabled /\ ~LoadConfig(settings).dryRun
    /\ ~pod.optedOut /\ ~pod.podLevel
    /\ settings.namespaceManaged
    /\ ~OwnerExcluded(pod, settings.excludedOwners)
    /\ ~HasRestartOnResize(pod.containers)
    /\ LimitManagingVPA(pod, vpas) = {}

QuantizeMilli(v, q) == IF q = 0 THEN v ELSE ((v + q \div 2) \div q) * q

\* The birth limit of a request, 0 for none: the request times the multiplier,
\* the policy's cap on it applied, on the grid, and above the request.
BirthLimit(request, settings) ==
    LET policy == settings.policy
        mult   == IF policy.multNum > 0
                  THEN Least(settings.initialMultiplier, policy.multNum)
                  ELSE settings.initialMultiplier
        limit  == QuantizeMilli(Round(request * mult, policy.multDen), policy.quantum)
    IN  IF request = 0 \/ mult <= policy.multDen \/ limit <= request THEN 0 ELSE limit

\* seedBirthLimits: every resizable container with a request and no limit.
SeedBirthLimits(cs, settings) ==
    [i \in DOMAIN cs |->
        IF i \in ResizableContainers(cs) /\ cs[i].limit = 0
        THEN [cs[i] EXCEPT !.limit = BirthLimit(cs[i].request, settings)]
        ELSE cs[i]]

\* PodCustomDefaulter.Default: the containers the pod is admitted with.
Default(pod, settings, vpas) ==
    IF Seeds(pod, settings, vpas)
    THEN SeedBirthLimits(pod.containers, settings)
    ELSE pod.containers
=============================================================================
