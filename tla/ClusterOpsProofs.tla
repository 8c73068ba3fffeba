---------------------------- MODULE ClusterOpsProofs ----------------------------
(***************************************************************************)
(* Proofs about ClusterOps, for any number of nodes and of failures.       *)
(*                                                                         *)
(* Two invariants are inductive: Separate, for an operator who waits, and  *)
(* StrikesSound, for one who also resets the strikes.                      *)
(***************************************************************************)
EXTENDS ClusterOps, TLAPS

USE OpsAssumption

-----------------------------------------------------------------------------
(* Types.                                                                  *)

\* A launch goes from a node of the cluster to a node of the cluster.
LEMMA NextNode ==
  ASSUME NEW n \in Nodes
  PROVE  /\ AfterNode(n) \in [pc : {"clear", "start"}, node : Nodes]
         /\ AfterStart(n) \in [pc : {"start", "poll"}, node : Nodes]
         /\ AfterFailure(n) \in [pc : {"clear", "start", "idle"}, node : Nodes]
<1>1. 0 \in Nodes /\ 1 % NNodes \in Nodes /\ (n + 1) % NNodes \in Nodes
  BY DEF Nodes
<1>2. n < NNodes - 1 => n + 1 \in Nodes
  BY DEF Nodes
<1>3. QED
  BY <1>1, <1>2 DEF AfterNode, AfterStart, AfterFailure, Place, Idle

\* The program starts in a state of its type.
LEMMA TypeInit == Init => TypeOK
<1>1. Idle \in [pc : {"idle", "clear", "run", "patch", "start", "poll", "stop"}, node : Nodes]
  BY DEF Idle, Nodes
<1>2. Init => timer \in BOOLEAN /\ glitched \in BOOLEAN
  BY Zenon DEF Init
<1>3. QED
  BY <1>1, <1>2 DEF Init, TypeOK

\* The places a launch may be at.
Places == [pc : {"idle", "clear", "run", "patch", "start", "poll", "stop"}, node : Nodes]

\* Sending a launch to a place keeps the launches launches.
LEMMA GoType ==
  ASSUME TypeOK, NEW l \in Launches, NEW to \in Places, Go(l, to)
  PROVE  launch' \in [Launches -> Places]
  BY DEF TypeOK, Go, Places

\* A step of a launch keeps the types.
LEMMA LaunchTypeStep ==
  ASSUME TypeOK, NEW l \in Launches, LaunchStep(l)
  PROVE  TypeOK'
<1> DEFINE n == Node(l)
<1>1. n \in Nodes /\ launch[l] \in Places /\ Idle \in Places
  BY DEF TypeOK, Node, Idle, Nodes, Places
<1>2. /\ AfterNode(n) \in Places /\ AfterStart(n) \in Places /\ AfterFailure(n) \in Places
      /\ \A p \in {"run", "patch"} : Place(p, n) \in Places
  BY <1>1, NextNode DEF Places, Place
<1>3. CASE ChecksFail(l)
  <2>1. launch' \in [Launches -> Places]
    BY <1>3, <1>1, <1>2, GoType DEF ChecksFail
  <2>2. QED
    BY <1>3, <1>1, <2>1 DEF ChecksFail, launchOnly, Fault, TypeOK, Places
<1>4. CASE Clear(l)
  <2>1. launch' \in [Launches -> Places]
    BY <1>4, <1>1, <1>2, GoType DEF Clear
  <2>2. QED
    BY <1>4, <1>1, <2>1 DEF Clear, launchOnly, Fault, TypeOK, Places
<1>5. CASE Run(l)
  <2>1. launch' \in [Launches -> Places]
    BY <1>5, <1>1, <1>2, GoType DEF Run
  <2>2. QED
    BY <1>5, <1>1, <2>1 DEF Run, launchOnly, Fault, TypeOK, Places
<1>6. CASE RunFails(l)
  <2>1. launch' \in [Launches -> Places]
    BY <1>6, <1>1, <1>2, GoType DEF RunFails
  <2>2. QED
    BY <1>6, <1>1, <2>1 DEF RunFails, launchOnly, Fault, TypeOK, Places
<1>7. CASE Patch(l)
  <2>1. launch' \in [Launches -> Places]
    BY <1>7, <1>1, <1>2, GoType DEF Patch
  <2>2. QED
    BY <1>7, <1>1, <2>1 DEF Patch, launchOnly, Fault, TypeOK, Places
<1>8. CASE PatchFails(l)
  <2>1. launch' \in [Launches -> Places]
    BY <1>8, <1>1, <1>2, GoType DEF PatchFails
  <2>2. QED
    BY <1>8, <1>1, <2>1 DEF PatchFails, launchOnly, Fault, TypeOK, Places
<1>9. CASE StartRank(l)
  <2>1. launch' \in [Launches -> Places]
    BY <1>9, <1>1, <1>2, GoType DEF StartRank
  <2>2. QED
    BY <1>9, <1>1, <2>1 DEF StartRank, launchOnly, Fault, TypeOK, Places
<1>10. CASE StartFails(l)
  <2>1. launch' \in [Launches -> Places]
    BY <1>10, <1>1, <1>2, GoType DEF StartFails
  <2>2. QED
    BY <1>10, <1>1, <2>1 DEF StartFails, launchOnly, Fault, TypeOK, Places
<1>11. CASE PollEnds(l)
  <2>1. launch' \in [Launches -> Places]
    BY <1>11, <1>1, <1>2, GoType DEF PollEnds
  <2>2. QED
    BY <1>11, <1>1, <2>1 DEF PollEnds, launchOnly, Fault, TypeOK, Places
<1>12. CASE StopNode(l)
  <2>1. Node(l) < NNodes - 1 => Place("stop", Node(l) + 1) \in Places
    BY <1>1 DEF Nodes, Place, Places
  <2>2. launch' \in [Launches -> Places]
    BY <1>12, <1>1, <2>1, GoType DEF StopNode
  <2>3. QED
    BY <1>12, <1>1, <2>2 DEF StopNode, launchOnly, Fault, TypeOK, Places
<1>13. QED
  BY <1>3, <1>4, <1>5, <1>6, <1>7, <1>8, <1>9, <1>10, <1>11, <1>12 DEF LaunchStep

\* Every step keeps the types.
LEMMA TypeStep == TypeOK /\ [Next]_vars => TypeOK'
<1> SUFFICES ASSUME TypeOK, [Next]_vars PROVE TypeOK'
  OBVIOUS
<1>1. CASE \E l \in Launches : LaunchStep(l)
  BY <1>1, LaunchTypeStep
<1>2. ASSUME (\E profile \in Commands \ {"stop"} : OperatorLaunches(profile)) \/ OperatorStops
      PROVE  TypeOK'
  <2>1. /\ "operator" \in Launches
        /\ Place("clear", 0) \in Places /\ Place("stop", 0) \in Places
    BY DEF Launches, Place, Places, Nodes
  <2>2. launch' \in [Launches -> Places]
    BY <1>2, <2>1, GoType DEF OperatorLaunches, OperatorStops
  <2>3. timer' \in BOOLEAN /\ wanted' \in {"prod", "dcp"}
    BY <1>2, Zenon DEF OperatorLaunches, OperatorStops, TimerFor, launchOnly, TypeOK
  <2>4. QED
    BY <1>2, <2>2, <2>3 DEF OperatorLaunches, OperatorStops, launchOnly, TypeOK, Places
<1>3. CASE StopTimer \/ StartTimer
  BY <1>3 DEF StopTimer, StartTimer, TypeOK
<1>4. CASE Probe
  BY <1>4 DEF Probe, TypeOK
<1>5. CASE Pgrep
  BY <1>5 DEF Pgrep, Judge, TypeOK
<1>6. CASE PgrepMisses
  BY <1>6 DEF PgrepMisses, Judge, Fault, TypeOK
<1>7. CASE WatchdogLaunches
  <2>1. "watchdog" \in Launches /\ Place("clear", 0) \in Places
    BY DEF Launches, Place, Places, Nodes
  <2>2. launch' \in [Launches -> Places]
    BY <1>7, <2>1, GoType DEF WatchdogLaunches
  <2>3. QED
    BY <1>7, <2>2 DEF WatchdogLaunches, TypeOK, Places
<1>8. CASE Join
  BY <1>8 DEF Join, engineOnly, TypeOK
<1>9. CASE GiveUp
  BY <1>9 DEF GiveUp, engineOnly, TypeOK
<1>10. CASE \E n \in Nodes : Crash(n) \/ Collapse(n)
  BY <1>10 DEF Crash, Collapse, Fault, engineOnly, TypeOK
<1>11. CASE UNCHANGED vars
  BY <1>11 DEF vars, TypeOK
<1>12. QED
  BY <1>1, <1>2, <1>3, <1>4, <1>5, <1>6, <1>7, <1>8, <1>9, <1>10, <1>11
     DEF Next, Operator, Watchdog

\* Type correctness; among the types, that no process serves without a container.
THEOREM TypeCorrect == Spec => []TypeOK
  BY TypeInit, TypeStep, PTL DEF Spec

-----------------------------------------------------------------------------
(* One launch at a time.                                                   *)

\* While the operator is at work, the timer is off and no run of the watchdog is under
\* way: what OneLaunch rests on.
Separate ==
  ~At("operator", "idle") => ~timer /\ wpc = "idle" /\ At("watchdog", "idle")

\* What a step of launch l leaves alone: the operator's wishes, the watchdog's run
\* and the other launch, which an idle one stays.
LEMMA LaunchFrame ==
  ASSUME TypeOK, NEW l \in Launches, LaunchStep(l)
  PROVE  /\ UNCHANGED launchOnly
         /\ \A k \in Launches : k # l => launch'[k] = launch[k]
         /\ ~At(l, "idle")
<1>1. UNCHANGED launchOnly
  BY DEF LaunchStep, ChecksFail, Clear, Run, RunFails, Patch, PatchFails, StartRank,
         StartFails, PollEnds, StopNode
<1>2. \E to : Go(l, to)
  BY DEF LaunchStep, ChecksFail, Clear, Run, RunFails, Patch, PatchFails, StartRank,
         StartFails, PollEnds, StopNode
<1>3. ~At(l, "idle")
  BY DEF LaunchStep, ChecksFail, Clear, Run, RunFails, Patch, PatchFails, StartRank,
         StartFails, PollEnds, StopNode, At
<1>4. QED
  BY <1>1, <1>2, <1>3 DEF Go, TypeOK

\* An operator who waits starts when the watchdog is at rest and the timer off, and
\* the timer is started only by an idle operator.
LEMMA SeparateStep ==
  ASSUME OperatorWaits
  PROVE  TypeOK /\ Separate /\ [Next]_vars => Separate'
<1> SUFFICES ASSUME TypeOK, Separate, [Next]_vars PROVE Separate'
  OBVIOUS
<1>0. "operator" \in Launches /\ "watchdog" \in Launches /\ "operator" # "watchdog"
  BY DEF Launches
<1>1. ASSUME NEW l \in Launches, LaunchStep(l) PROVE Separate'
  <2>1. CASE l = "operator"
    BY <1>0, <1>1, <2>1, LaunchFrame DEF Separate, At, launchOnly
  <2>2. CASE l = "watchdog"
    BY <1>0, <1>1, <2>2, LaunchFrame DEF Separate, At, launchOnly
  <2>3. QED
    BY <2>1, <2>2 DEF Launches
<1>2. ASSUME NEW profile \in Commands \ {"stop"}, Clearance(profile = "dcp" \/ ~timer),
             OperatorLaunches(profile)
      PROVE  Separate'
  <2>1. wpc = "idle" /\ At("watchdog", "idle")
    BY <1>2 DEF Clearance
  <2>2. ~timer'
    BY <1>2 DEF OperatorLaunches, Clearance, TimerFor
  <2>3. wpc' = "idle" /\ launch'["watchdog"] = launch["watchdog"]
    BY <1>0, <1>2, <2>1 DEF OperatorLaunches, Go, TypeOK
  <2>4. QED
    BY <2>1, <2>2, <2>3 DEF Separate, At
<1>3. CASE Clearance(~timer) /\ OperatorStops
  <2>1. wpc = "idle" /\ At("watchdog", "idle") /\ ~timer
    BY <1>3 DEF Clearance
  <2>2. launch'["watchdog"] = launch["watchdog"]
    BY <1>0, <1>3 DEF OperatorStops, Go, TypeOK
  <2>3. QED
    BY <1>3, <2>1, <2>2 DEF OperatorStops, launchOnly, Separate, At
<1>4. CASE StopTimer \/ StartTimer
  BY <1>4 DEF StopTimer, StartTimer, Separate, At
<1>5. CASE Probe \/ Pgrep \/ PgrepMisses
  BY <1>5 DEF Probe, Pgrep, PgrepMisses, Separate, At
<1>6. CASE WatchdogLaunches
  <2>1. launch'["operator"] = launch["operator"]
    BY <1>0, <1>6 DEF WatchdogLaunches, Go, TypeOK
  <2>2. QED
    BY <1>6, <2>1 DEF WatchdogLaunches, Separate, At
<1>7. CASE Join \/ GiveUp \/ \E n \in Nodes : Crash(n) \/ Collapse(n)
  BY <1>7 DEF Join, GiveUp, Crash, Collapse, engineOnly, Separate, At
<1>8. CASE UNCHANGED vars
  BY <1>8 DEF vars, Separate, At
<1>9. QED
  BY <1>1, <1>2, <1>3, <1>4, <1>5, <1>6, <1>7, <1>8 DEF Next, Operator, Watchdog

\* An operator who waits and the watchdog are never both at work: one's launch, or
\* the other's check, finds the other idle.
LEMMA Separated ==
  ASSUME OperatorWaits
  PROVE  Spec => []Separate
<1>1. Init => Separate
  BY DEF Init, Separate, At, Launches, Idle
<1>2. TypeOK /\ Separate /\ [Next]_vars => Separate'
  BY SeparateStep
<1>3. QED
  BY <1>1, <1>2, TypeCorrect, PTL DEF Spec

\* Two launches are never at work at a time, if the operator waits.
THEOREM LaunchesExclude ==
  ASSUME OperatorWaits
  PROVE  Spec => []OneLaunch
<1>1. Separate => OneLaunch
  BY DEF Separate, OneLaunch
<1>2. QED
  BY <1>1, Separated, PTL

-----------------------------------------------------------------------------
(* No interruption.                                                        *)

\* What a step of a launch does to the head's process: the watchdog's leaves none
\* alone, and comes to "clear" on the head only from being idle.
LEMMA WatchdogLaunchStep ==
  ASSUME TypeOK, StrikesSound, LaunchStep("watchdog")
  PROVE  StrikesSound'
<1> DEFINE n == Node("watchdog")
<1>0. "watchdog" \in Launches /\ 0 \in Nodes /\ n \in Nodes
  BY DEF Launches, Nodes, Node, TypeOK
<1>1. UNCHANGED launchOnly /\ strikes = 0 /\ wpc = "idle"
  BY <1>0, LaunchFrame DEF StrikesSound
<1>2. ~(At("watchdog", "clear")' /\ Node("watchdog")' = 0)
  <2>1. \A to : Go("watchdog", to) => launch'["watchdog"] = to
    BY <1>0 DEF Go, TypeOK
  <2>2. /\ \A m \in Nodes : Place("clear", m).node = m
        /\ \A pc \in {"run", "patch", "start", "poll", "stop"}, m \in Nodes :
             Place(pc, m).pc # "clear"
        /\ Idle.pc # "clear"
    BY DEF Place, Idle
  <2>3. /\ AfterNode(n).pc = "clear" => AfterNode(n).node # 0
        /\ AfterStart(n).pc # "clear"
        /\ AfterFailure(n).pc = "clear" => AfterFailure(n).node # 0
    BY <1>0 DEF AfterNode, AfterStart, AfterFailure, Place, Idle, Nodes
  <2>4. PICK to : /\ Go("watchdog", to)
                  /\ \/ to \in {AfterNode(n), AfterStart(n), AfterFailure(n), Idle}
                     \/ to \in {Place("run", n), Place("patch", n), Place("stop", n + 1)}
    BY DEF LaunchStep, ChecksFail, Clear, Run, RunFails, Patch, PatchFails, StartRank,
           StartFails, PollEnds, StopNode
  <2>5. to.pc = "clear" => to.node # 0
    BY <2>3, <2>4 DEF Place, Idle
  <2>6. QED
    BY <2>1, <2>4, <2>5 DEF At, Node
<1>3. QED
  BY <1>1, <1>2 DEF StrikesSound, launchOnly

\* A step of the operator's launch finds the timer off and the watchdog at rest, and
\* leaves them so.
LEMMA OperatorLaunchStep ==
  ASSUME TypeOK, Separate, LaunchStep("operator")
  PROVE  StrikesSound'
<1>1. "operator" \in Launches /\ "watchdog" \in Launches /\ "operator" # "watchdog"
  BY DEF Launches
<1>2. /\ UNCHANGED launchOnly /\ launch'["watchdog"] = launch["watchdog"]
      /\ ~timer /\ wpc = "idle" /\ At("watchdog", "idle")
  BY <1>1, LaunchFrame DEF Separate
<1>3. QED
  BY <1>2 DEF StrikesSound, At, Node, launchOnly

\* The engine can die but not come to life without a launch.
LEMMA EngineStep ==
  ASSUME TypeOK, StrikesSound, Join \/ GiveUp \/ \E n \in Nodes : Crash(n) \/ Collapse(n)
  PROVE  StrikesSound'
<1>1. 0 \in Nodes
  BY DEF Nodes
<1>2. serve[0] = "none" => serve'[0] = "none"
  BY <1>1 DEF Join, GiveUp, Crash, Collapse, TypeOK
<1>3. UNCHANGED engineOnly
  BY DEF Join, GiveUp, Crash, Collapse
<1>4. QED
  BY <1>2, <1>3 DEF StrikesSound, engineOnly, At, Node

\* With a fresh STATE at every start of the timer, two strikes in a row are never
\* both missed checks, so the second finds the engine gone.
LEMMA StrikesStep ==
  ASSUME OperatorWaits, OperatorResets
  PROVE  TypeOK /\ Separate /\ StrikesSound /\ [Next]_vars => StrikesSound'
<1> SUFFICES ASSUME TypeOK, Separate, StrikesSound, [Next]_vars PROVE StrikesSound'
  OBVIOUS
<1>0. "operator" \in Launches /\ "watchdog" \in Launches /\ "operator" # "watchdog"
  BY DEF Launches
<1>1. CASE \E l \in Launches : LaunchStep(l)
  BY <1>1, WatchdogLaunchStep, OperatorLaunchStep DEF Launches
<1>2. ASSUME NEW profile \in Commands \ {"stop"}, Clearance(profile = "dcp" \/ ~timer),
             OperatorLaunches(profile)
      PROVE  StrikesSound'
  <2>1. UNCHANGED <<serve, wpc, strikes, glitched>> /\ launch'["watchdog"] = launch["watchdog"]
    BY <1>0, <1>2 DEF OperatorLaunches, Go, TypeOK
  <2>2. wpc = "idle" /\ ~timer'
    BY <1>2 DEF OperatorLaunches, Clearance, TimerFor
  <2>3. QED
    BY <2>1, <2>2 DEF StrikesSound, At, Node
<1>12. CASE Clearance(~timer) /\ OperatorStops
  <2>1. launch'["watchdog"] = launch["watchdog"]
    BY <1>0, <1>12 DEF OperatorStops, Go, TypeOK
  <2>2. QED
    BY <1>12, <2>1 DEF OperatorStops, launchOnly, StrikesSound, At, Node
<1>3. CASE StopTimer
  BY <1>3 DEF StopTimer, StrikesSound, At, Node
<1>4. CASE StartTimer
  BY <1>4 DEF StartTimer, StrikesSound, At, Node
<1>5. CASE Probe
  BY <1>5 DEF Probe, StrikesSound, At, Node
<1>6. CASE Pgrep
  BY <1>6 DEF Pgrep, Judge, StrikesSound, At, Node, TypeOK
<1>7. CASE PgrepMisses
  <2>1. strikes = 0
    BY <1>7 DEF PgrepMisses, StrikesSound, TypeOK
  <2>2. QED
    BY <1>7, <2>1 DEF PgrepMisses, Judge, StrikesSound, At, Node
<1>8. CASE WatchdogLaunches
  BY <1>8 DEF WatchdogLaunches, StrikesSound, At, Node
<1>9. CASE Join \/ GiveUp \/ \E n \in Nodes : Crash(n) \/ Collapse(n)
  BY <1>9, EngineStep
<1>10. CASE UNCHANGED vars
  BY <1>10 DEF vars, StrikesSound, At, Node
<1>11. QED
  BY <1>1, <1>2, <1>3, <1>4, <1>5, <1>6, <1>7, <1>8, <1>9, <1>10, <1>12
     DEF Next, Operator, Watchdog

\* If the operator also resets the strikes, a strike, a decision and a launch of the
\* watchdog that is about to clear the head all mean that the engine is gone, unless
\* the strike is for the one missed check.
THEOREM StrikesAreSound ==
  ASSUME OperatorWaits, OperatorResets
  PROVE  Spec => []StrikesSound
<1>1. Init => StrikesSound
  BY DEF Init, StrikesSound, At, Launches, Idle
<1>2. TypeOK /\ Separate /\ StrikesSound /\ [Next]_vars => StrikesSound'
  BY StrikesStep
<1>3. QED
  BY <1>1, <1>2, Separated, TypeCorrect, PTL DEF Spec

\* If the operator waits and resets the strikes, a launch of the watchdog never takes
\* the head's container from a serve process that is alive.
THEOREM EngineNotInterrupted ==
  ASSUME OperatorWaits, OperatorResets
  PROVE  Spec => NeverInterrupts
<1>1. StrikesSound => (At("watchdog", "clear") /\ Node("watchdog") = 0 /\ box'[0] = "absent"
                        => serve[0] = "none")
  BY DEF StrikesSound
<1>2. QED
  BY <1>1, StrikesAreSound, PTL DEF NeverInterrupts

=============================================================================
