---------------------------- MODULE MCPodLimits ----------------------------
(***************************************************************************)
(* Small instances of PodLimits: every shape of pod, LimitRange, setting   *)
(* and autoscaler that one of its rules tells apart.                       *)
(*                                                                         *)
(* The fields of the records are in the order in which TLC keeps them, so  *)
(* that no worker sorts a record another one is reading.                   *)
(***************************************************************************)
EXTENDS PodLimits

\* 161m over 20m is exactly 8.05, and 161.0 / 20.0 * 1000 > 8050 in float64.
MCInexactRatios == {<<161, 20, 8050>>}

App(request, limit, memory) ==
    [request |-> request, limit |-> limit, memory |-> memory, kind |-> "app",
     restartOnResize |-> FALSE]

Sidecar(request, limit, memory) == [App(request, limit, memory) EXCEPT !.kind = "sidecar"]
InitStep(request, limit, memory) == [App(request, limit, memory) EXCEPT !.kind = "init"]

OwnerOf(kind, group, name) ==
    [kind |-> kind, group |-> group, name |-> name, controller |-> TRUE]

\* A bare pod, and one of the Deployment "web" or of a CronJob "web".
Bare(containers) ==
    [containers |-> containers, owners |-> {}, topOwner |-> Absent,
     optedOut |-> FALSE, podLevel |-> FALSE, cap |-> 0]

Deployed(containers) ==
    [Bare(containers) EXCEPT !.owners = {OwnerOf("ReplicaSet", "apps", <<"web", "5d4">>)},
                             !.topOwner = OwnerOf("Deployment", "apps", <<"web">>)]

Scheduled(containers) ==
    [Bare(containers) EXCEPT !.owners = {OwnerOf("Job", "batch", <<"web", "288">>)},
                             !.topOwner = OwnerOf("CronJob", "batch", <<"web">>)]

Plain == <<App(13, 0, "loose")>>

MCPodShapes ==
    { Bare(<<App(20, 0, "none")>>),
      Bare(<<App(10, 0, "loose"), App(11, 0, "loose"), App(4, 0, "none")>>), \* remainders
      Bare(<<App(20, 40, "loose"), App(10, 0, "loose")>>),     \* one limit of two
      Bare(<<App(15, 0, "loose"), App(0, 0, "none")>>),        \* a request-less container
      Bare(<<App(15, 0, "loose"), App(0, 30, "none")>>),       \* one with a limit
      Bare(<<App(20, 40, "pinned"), Sidecar(2, 30, "pinned")>>), \* Guaranteed at its request
      Bare(<<App(10, 20, "pinned"), InitStep(40, 40, "pinned"), Sidecar(5, 0, "pinned")>>),
      Bare(<<App(0, 0, "none")>>),                             \* BestEffort
      Bare(<<App(10, 10, "pinned")>>),                         \* Guaranteed
      [Bare(Plain) EXCEPT !.cap = 18],
      [Bare(Plain) EXCEPT !.optedOut = TRUE],
      [Bare(Plain) EXCEPT !.podLevel = TRUE],
      Bare(<<App(13, 0, "loose"), [App(5, 0, "none") EXCEPT !.restartOnResize = TRUE]>>),
      Deployed(Plain), Scheduled(Plain),
      Deployed(<<App(13, 0, "loose"), App(5, 0, "none")>>) }

MCResizes == {<<12, "loose">>, <<25, "pinned">>}

Item(type, max, ratio) == [type |-> type, max |-> max, ratio |-> ratio]

MCRangeSets ==
    { {}, {Item("Container", 25, 0)}, {Item("Container", 0, 1500)},
      {Item("Container", 0, 8050)}, {Item("Container", 0, 1050)},
      {Item("Pod", 60, 0)}, {Item("Pod", 0, 2000)}, {Item("Pod", 0, 8050)},
      {Item("Container", 40, 0), Item("Pod", 22, 3000)} }

\* Multipliers are tenths.
Knobs(quantum) ==
    [quantum |-> quantum, minBurstFloor |-> 30, multNum |-> 100, multDen |-> 10,
     deadbandGrow |-> 10, deadbandShrink |-> 5]

Live ==
    [present |-> TRUE, webhook |-> "unset", dryRun |-> "false", namespaceManaged |-> TRUE,
     excludedOwners |-> {}, initialMultiplier |-> 20, policy |-> Knobs(10)]

MCSettingSets ==
    { Live,
      [Live EXCEPT !.policy = Knobs(1), !.initialMultiplier = 11],
      [Live EXCEPT !.policy = [Knobs(7) EXCEPT !.multNum = 12], !.webhook = "false"],
      [Live EXCEPT !.dryRun = "unset"],
      [Live EXCEPT !.present = FALSE],
      [Live EXCEPT !.namespaceManaged = FALSE],
      [Live EXCEPT !.excludedOwners = {[kind |-> "ReplicaSet", group |-> "apps", name |-> << >>]}],
      [Live EXCEPT !.excludedOwners = {[kind |-> "Job", group |-> "", name |-> <<"web", "288">>]}] }

Scaler(kind, name, mode, policies) ==
    [policies |-> policies, targetKind |-> kind, targetName |-> name, updateMode |-> mode]

Policy1(container, mode, values) ==
    [mode |-> mode, container |-> container, controlledValues |-> values,
     controlledResources |-> {"memory", "cpu"}]

MCVPASets ==
    { {},
      {Scaler("Deployment", <<"web">>, "Auto", << >>)},
      {Scaler("CronJob", <<"web">>, "Initial", << >>)},
      {Scaler("Deployment", <<"web">>, "Auto",
              <<Policy1(0, "Off", "RequestsAndLimits"), Policy1(1, "Auto", "RequestsAndLimits")>>)},
      {Scaler("Deployment", <<"other">>, "Auto", << >>),
       Scaler("Deployment", <<"web">>, "Auto", <<Policy1(0, "Auto", "RequestsOnly")>>)} }

LiveOnly == {Live}
PerPodMax == {{Item("Pod", 50, 0)}}

\* A sidecar that runs beside an init container, under a per-pod maximum.
PeakShapes == {Bare(<<App(10, 0, "loose"), Sidecar(50, 0, "loose"), InitStep(40, 40, "loose")>>)}
PeakRanges == {{Item("Pod", 100, 0)}}
=============================================================================
