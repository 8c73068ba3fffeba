------------------------------ MODULE ClusterOps ------------------------------
(***************************************************************************)
(* Bringing the eight-node cluster up and keeping it up: the launcher      *)
(* (8node-nvfp4/start_glm52_8node.sh, deployed as runtime/launch.sh), the  *)
(* profile script in front of it (start_glm52_config.sh) and the           *)
(* production watchdog that a systemd timer runs                           *)
(* (watchdog_glm52_cluster.sh).                                            *)
(*                                                                         *)
(* A launch is a sequential script that works on one node after the other; *)
(* there may be two at a time, the operator's and the watchdog's.  The     *)
(* engine itself is external: its ranks find each other once all have been *)
(* started, and one that loses the others exits.                           *)
(***************************************************************************)
EXTENDS Integers, FiniteSets

CONSTANTS NNodes,        \* NNODES; rank 0 is the head
          MaxFaults,     \* bound on the failures of the environment
          Commands,      \* what the operator may call for: a profile, or a stop
          OperatorWaits, \* the operator keeps out of the way of a watchdog at work
          OperatorResets \* the operator removes STATE before starting the timer

ASSUME OpsAssumption ==
  /\ NNodes \in Nat \ {0}
  /\ MaxFaults \in Nat
  /\ Commands \subseteq {"prod", "dcp", "stop"}
  /\ OperatorWaits \in BOOLEAN /\ OperatorResets \in BOOLEAN

Nodes    == 0 .. NNodes - 1
Launches == {"operator", "watchdog"}

VARIABLES
  box,      \* container vllm-glm52 of each node: "absent", "created" or "patched"
  serve,    \* `vllm serve` in it: "none", "waiting" (for the others) or "joined"
  launch,   \* where each launch is: [pc, node]
  wpc,      \* where the watchdog's run is: "idle", "pgrep" or "launch"
  strikes,  \* the watchdog's STATE file
  timer,    \* sparks-glm52-watchdog.timer is active
  wanted,   \* profile of the operator's last launch: "prod" or "dcp"
  glitched, \* the last check of the watchdog missed an engine that was there
  faults    \* failures so far

vars == <<box, serve, launch, wpc, strikes, timer, wanted, glitched, faults>>

Idle == [pc |-> "idle", node |-> 0]

\* Production is up and watched.
Init ==
  /\ box = [n \in Nodes |-> "patched"]
  /\ serve = [n \in Nodes |-> "joined"]
  /\ launch = [l \in Launches |-> Idle]
  /\ wpc = "idle" /\ strikes = 0 /\ timer = TRUE
  /\ wanted = "prod" /\ glitched = FALSE /\ faults = 0

Fault == faults < MaxFaults /\ faults' = faults + 1

-----------------------------------------------------------------------------
(* A launch.                                                               *)

At(l, label)  == launch[l].pc = label
Node(l)       == launch[l].node
Go(l, to)     == launch' = [launch EXCEPT ![l] = to]
Place(pc, n)  == [pc |-> pc, node |-> n]

launchOnly == <<wpc, strikes, timer, wanted, glitched>>

\* Mutant: rank <= NNODES.
AfterNodeTooFar(n) == IF n < NNodes THEN Place("clear", n + 1) ELSE Place("start", 1 % NNodes)

\* Mutant: Phase 2 ends with the workers.
AfterStartWorkersOnly(n) == IF n = NNodes - 1 THEN Place("poll", 0) ELSE Place("start", n + 1)

\* Phase 1 takes NODES in their order, the head first; Phase 2 ends with it.
AfterNode(n)  == IF n < NNodes - 1 THEN Place("clear", n + 1) ELSE Place("start", 1 % NNodes)
AfterStart(n) == IF n = 0 THEN Place("poll", 0) ELSE Place("start", (n + 1) % NNodes)

\* create_container runs in the launcher's shell on the head, where its exit ends
\* the launch, and under ssh on a worker, whose status nobody looks at.
AfterFailure(n) == IF n = 0 THEN Idle ELSE AfterNode(n)

\* The files the container needs are missing: nothing on the node is touched.
ChecksFail(l) ==
  /\ At(l, "clear")
  /\ Fault
  /\ Go(l, AfterFailure(Node(l)))
  /\ UNCHANGED <<box, serve, launchOnly>>

\* docker rm -f of the old container, then up to 90 s for its memory.
Clear(l) ==
  /\ At(l, "clear")
  /\ box' = [box EXCEPT ![Node(l)] = "absent"]
  /\ serve' = [serve EXCEPT ![Node(l)] = "none"]
  /\ Go(l, Place("run", Node(l)))
  /\ UNCHANGED <<launchOnly, faults>>

\* docker run; a container of that name that is there already stays as it is.
Run(l) ==
  /\ At(l, "run")
  /\ box' = [box EXCEPT ![Node(l)] = IF @ = "absent" THEN "created" ELSE @]
  /\ Go(l, Place("patch", Node(l)))
  /\ UNCHANGED <<serve, launchOnly, faults>>

\* docker run fails, which is not checked.
RunFails(l) ==
  /\ At(l, "run")
  /\ Fault
  /\ Go(l, Place("patch", Node(l)))
  /\ UNCHANGED <<box, serve, launchOnly>>

Patch(l) ==
  /\ At(l, "patch")
  /\ box[Node(l)] # "absent"
  /\ box' = [box EXCEPT ![Node(l)] = "patched"]
  /\ Go(l, AfterNode(Node(l)))
  /\ UNCHANGED <<serve, launchOnly, faults>>

\* The patch script exits non-zero, or there is no container to run it in.
PatchFails(l) ==
  /\ At(l, "patch")
  /\ IF box[Node(l)] = "absent" THEN UNCHANGED faults ELSE Fault
  /\ Go(l, AfterFailure(Node(l)))
  /\ UNCHANGED <<box, serve, launchOnly>>

\* docker exec -d vllm serve, in whatever container is there.
StartRank(l) ==
  /\ At(l, "start")
  /\ serve' = [serve EXCEPT ![Node(l)] =
                IF box[Node(l)] # "absent" /\ @ = "none" THEN "waiting" ELSE @]
  /\ Go(l, AfterStart(Node(l)))
  /\ UNCHANGED <<box, launchOnly, faults>>

\* ssh to the worker, or docker exec, fails, which is not checked.
StartFails(l) ==
  /\ At(l, "start")
  /\ Fault
  /\ Go(l, AfterStart(Node(l)))
  /\ UNCHANGED <<box, serve, launchOnly>>

\* The health poll ends with a 200, with the head's container gone, or after 420 tries.
PollEnds(l) ==
  /\ At(l, "poll")
  /\ Go(l, Idle)
  /\ UNCHANGED <<box, serve, launchOnly, faults>>

\* launch.sh --stop
StopNode(l) ==
  /\ At(l, "stop")
  /\ box' = [box EXCEPT ![Node(l)] = "absent"]
  /\ serve' = [serve EXCEPT ![Node(l)] = "none"]
  /\ Go(l, IF Node(l) < NNodes - 1 THEN Place("stop", Node(l) + 1) ELSE Idle)
  /\ UNCHANGED <<launchOnly, faults>>

LaunchStep(l) ==
  \/ ChecksFail(l) \/ Clear(l) \/ Run(l) \/ RunFails(l) \/ Patch(l) \/ PatchFails(l)
  \/ StartRank(l) \/ StartFails(l) \/ PollEnds(l) \/ StopNode(l)

-----------------------------------------------------------------------------
(* The operator.  The scripts look at neither the watchdog's service nor    *)
(* its lock; only the person who runs them can.                             *)

\* Mutant: a DCP profile leaves the timer active.
TimerForAny(profile) == timer

\* The timer after start_glm52_config.sh has seen to it: stopped for a DCP profile,
\* as it was for prod.
TimerFor(profile) == timer /\ profile = "prod"

\* start_glm52_config.sh {prod|dcp-*}
OperatorLaunches(profile) ==
  /\ At("operator", "idle")
  /\ wanted' = profile
  /\ timer' = TimerFor(profile)
  /\ Go("operator", Place("clear", 0))
  /\ UNCHANGED <<box, serve, wpc, strikes, glitched, faults>>

\* launch.sh --stop
OperatorStops ==
  /\ At("operator", "idle")
  /\ Go("operator", Place("stop", 0))
  /\ UNCHANGED <<box, serve, launchOnly, faults>>

StopTimer ==
  /\ At("operator", "idle")
  /\ timer' = FALSE
  /\ UNCHANGED <<box, serve, launch, wpc, strikes, wanted, glitched, faults>>

\* The watchdog is for production, and is started by hand once that is healthy.
StartTimer ==
  /\ At("operator", "idle") /\ wanted = "prod" /\ serve[0] = "joined"
  /\ timer' = TRUE
  /\ strikes' = IF OperatorResets THEN 0 ELSE strikes
  /\ UNCHANGED <<box, serve, launch, wpc, wanted, glitched, faults>>

\* No script does this: an operator who waits makes sure that no run of the watchdog
\* is under way, and that none can start, before touching the cluster.
Clearance(stopped) ==
  OperatorWaits => wpc = "idle" /\ At("watchdog", "idle") /\ stopped

\* The DCP profiles stop the timer themselves.
Operator ==
  \/ \E profile \in Commands \ {"stop"} :
       Clearance(profile = "dcp" \/ ~timer) /\ OperatorLaunches(profile)
  \/ "stop" \in Commands /\ Clearance(~timer) /\ OperatorStops
  \/ StopTimer \/ StartTimer

-----------------------------------------------------------------------------
(* The watchdog.  The service is of type oneshot: no second run starts      *)
(* while one, with the launch it makes, is under way.                      *)

\* The timer fires and /health is asked, which may time out on a busy engine.
Probe ==
  /\ timer /\ wpc = "idle" /\ At("watchdog", "idle")
  /\ \/ serve[0] = "joined" /\ strikes' = 0 /\ UNCHANGED wpc
     \/ wpc' = "pgrep" /\ UNCHANGED strikes
  /\ UNCHANGED <<box, serve, launch, timer, wanted, glitched, faults>>

\* Mutant: the first dead check restarts.
JudgeAtOnce(alive) ==
  /\ strikes' = 0
  /\ wpc' = IF alive THEN "idle" ELSE "launch"

\* What a check that finds the engine process alive, or not, does next.
Judge(alive) ==
  /\ strikes' = IF alive \/ strikes = 1 THEN 0 ELSE 1
  /\ wpc' = IF ~alive /\ strikes = 1 THEN "launch" ELSE "idle"

\* docker ps and pgrep of vllm serve, on the head.
Pgrep ==
  /\ wpc = "pgrep"
  /\ Judge(serve[0] # "none")
  /\ glitched' = FALSE
  /\ UNCHANGED <<box, serve, launch, timer, wanted, faults>>

\* A transient failure of the check; two in a row are a failure of the environment
\* that no discipline of strikes can tell from a dead engine.
PgrepMisses ==
  /\ wpc = "pgrep" /\ serve[0] # "none" /\ ~glitched
  /\ Judge(FALSE)
  /\ glitched' = TRUE
  /\ Fault
  /\ UNCHANGED <<box, serve, launch, timer, wanted>>

\* restart.lock is free: nothing but the watchdog takes it.
WatchdogLaunches ==
  /\ wpc = "launch"
  /\ wpc' = "idle"
  /\ Go("watchdog", Place("clear", 0))
  /\ UNCHANGED <<box, serve, strikes, timer, wanted, glitched, faults>>

Watchdog == Probe \/ Pgrep \/ PgrepMisses \/ WatchdogLaunches

-----------------------------------------------------------------------------
(* The engine.                                                             *)

engineOnly == <<box, launch, wpc, strikes, timer, wanted, glitched>>

\* All ranks have met, the model is loaded and the head answers /health.
Join ==
  /\ \A n \in Nodes : serve[n] = "waiting"
  /\ serve' = [n \in Nodes |-> "joined"]
  /\ UNCHANGED <<engineOnly, faults>>

\* A rank is killed: an illegal memory access, out of memory.
Crash(n) ==
  /\ serve[n] # "none"
  /\ Fault
  /\ serve' = [serve EXCEPT ![n] = "none"]
  /\ UNCHANGED engineOnly

\* A rank that has lost another one exits.
Collapse(n) ==
  /\ serve[n] = "joined"
  /\ \E m \in Nodes : serve[m] # "joined"
  /\ serve' = [serve EXCEPT ![n] = "none"]
  /\ UNCHANGED <<engineOnly, faults>>

\* The head waits in vain for a rank that no launch is about to start.
GiveUp ==
  /\ serve[0] = "waiting"
  /\ \E n \in Nodes : serve[n] # "waiting"
  /\ \A l \in Launches : ~At(l, "start")
  /\ serve' = [serve EXCEPT ![0] = "none"]
  /\ UNCHANGED <<engineOnly, faults>>

Next ==
  \/ \E l \in Launches : LaunchStep(l)
  \/ Operator
  \/ Watchdog
  \/ Join \/ GiveUp
  \/ \E n \in Nodes : Crash(n) \/ Collapse(n)

\* A script that was started goes on, the timer fires again and again, and the
\* engine's own timeouts are finite.
Fairness ==
  /\ \A l \in Launches : WF_vars(LaunchStep(l))
  /\ WF_vars(Watchdog)
  /\ WF_vars(Join) /\ WF_vars(GiveUp)
  /\ \A n \in Nodes : WF_vars(Collapse(n))

Spec == Init /\ [][Next]_vars /\ Fairness

-----------------------------------------------------------------------------
(* Properties.                                                             *)

\* Every variable has its type.
TypeOK ==
  /\ box \in [Nodes -> {"absent", "created", "patched"}]
  /\ serve \in [Nodes -> {"none", "waiting", "joined"}]
  /\ \A n \in Nodes : box[n] = "absent" => serve[n] = "none"
  /\ launch \in [Launches ->
       [pc : {"idle", "clear", "run", "patch", "start", "poll", "stop"}, node : Nodes]]
  /\ wpc \in {"idle", "pgrep", "launch"}
  /\ strikes \in {0, 1}
  /\ timer \in BOOLEAN /\ glitched \in BOOLEAN
  /\ wanted \in {"prod", "dcp"}
  /\ faults \in 0 .. MaxFaults

\* "Manual + watchdog restarts share restart.lock" (watchdog_glm52_cluster.sh:10), and
\* "This script STOPS the watchdog for dcp-*" (start_glm52_config.sh:18-19): two launches
\* never work on the cluster at a time, nor production's over a DCP profile's.
OneLaunch == At("operator", "idle") \/ At("watchdog", "idle")

\* "ONLY when the engine is truly gone": a launch of the watchdog never takes the
\* head's container away from a serve process that is alive, although a check may
\* miss it now and then (watchdog_glm52_cluster.sh:8).
NeverInterrupts ==
  [][At("watchdog", "clear") /\ Node("watchdog") = 0 /\ box'[0] = "absent"
       => serve[0] = "none"]_vars

\* "refusing to serve unpatched": no rank serves from a container in which the
\* patches were not applied (start_glm52_8node.sh:352).
ServesPatched == \A n \in Nodes : serve[n] # "none" => box[n] = "patched"

\* While the watchdog is active, an engine whose head died serves again, whatever
\* went wrong on the way.
Recovers == timer /\ serve[0] = "none" ~> serve[0] = "joined" \/ ~timer

-----------------------------------------------------------------------------
(* What NeverInterrupts rests on.                                          *)

\* A run that decided to launch has forgotten its strikes, and found a dead head.
\* A strike that is not owed to a missed check is evidence that still stands.
StrikesSound ==
  /\ ~At("watchdog", "idle") => strikes = 0 /\ wpc = "idle"
  /\ wpc = "launch" => strikes = 0 /\ serve[0] = "none"
  /\ At("watchdog", "clear") /\ Node("watchdog") = 0 => serve[0] = "none"
  /\ (timer \/ wpc # "idle") /\ strikes = 1 /\ ~glitched => serve[0] = "none"

=============================================================================
