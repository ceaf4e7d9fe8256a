---------------------------- MODULE ManagerProofs ----------------------------
(***************************************************************************)
(* The main loop of flota keeps its memory in order, for any installation:  *)
(* any clusters, hosts, watchpoints and tests, any bounds.                  *)
(***************************************************************************)
EXTENDS Manager, FlotaGraphProofs

-----------------------------------------------------------------------------
(***************************************************************************)
(* Types.                                                                   *)
(***************************************************************************)

\* The configuration of the cluster in hand is one the file held.
LEMMA MineType ==
    ASSUME TypeOK, cur # None, pc \notin {"init", "down"}
    PROVE  /\ cur \in Clusters
           /\ Mine \in ClusterConfigs
BY ConfigsAssumption DEF TypeOK, ControlOK, Mine

\* So is what the program is about to look at one of the watchpoints.
LEMMA MyWatchType ==
    ASSUME TypeOK, pc \in {"pin", "watch"}, i <= Len(Mine.watchpoints)
    PROVE  MyWatch \in WatchPoints
<1>1. Mine.watchpoints \in Seq(WatchPoints)
      BY MineType DEF TypeOK, ControlOK, ClusterConfigs
<1>2. i \in 1..Len(Mine.watchpoints)
      BY <1>1 DEF TypeOK
<1> QED BY <1>1, <1>2 DEF MyWatch

LEMMA SaveChildRelsType ==
    ASSUME NEW G \in SUBSET Relations, NEW parent \in AllNodes,
           NEW kids \in SUBSET AllNodes, NEW type \in RelTypes
    PROVE  SaveChildRels(G, parent, kids, type) \in SUBSET Relations
<1>1. \A c \in kids : Rel(parent, type, c) \in Relations
      BY DEF Relations, Rel
<1>2. \A r \in SaveChildRels(G, parent, kids, type) : r \in Relations
      BY <1>1, SaveChildRelsAdds
<1> QED BY <1>2

LEMMA SaveChildLLsType ==
    ASSUME NEW G \in SUBSET Relations, NEW parents \in SUBSET AllNodes,
           NEW child \in AllNodes, NEW type \in RelTypes
    PROVE  SaveChildLLs(G, parents, child, type) \in SUBSET Relations
<1>1. \A p \in AllNodes, q \in AllNodes, y \in RelTypes : Rel(p, y, q) \in Relations
      BY DEF Relations, Rel
<1>2. "PREV" \in RelTypes /\ "TAIL" \in RelTypes
      BY DEF RelTypes
<1>3. \A r \in G : r.to \in AllNodes
      BY DEF Relations
<1> QED BY <1>1, <1>2, <1>3 DEF SaveChildLLs, OldTails

LEMMA HostSavedType ==
    ASSUME NEW G \in SUBSET Relations, NEW h \in Hosts
    PROVE  HostSaved(G, h) \in SUBSET Relations
<1>1. HostNode(h) \in AllNodes /\ {TemplateNode(TemplateOf[h])} \in SUBSET AllNodes
      BY ConstantsAssumption DEF AllNodes
<1>2. {ExecNode(e) : e \in Items(Solo[h])} \in SUBSET AllNodes
      BY ConstantsAssumption DEF AllNodes, Items
<1>3. "BACKED_BY" \in RelTypes /\ "EXEC" \in RelTypes
      BY DEF RelTypes
<1> QED BY <1>1, <1>2, <1>3, SaveChildRelsType DEF HostSaved

LEMMA ClusterSavedType ==
    ASSUME NEW G \in SUBSET Relations, NEW c \in Clusters, NEW cc \in ClusterConfigs
    PROVE  ClusterSaved(G, c, cc) \in SUBSET Relations
<1>1. ClusterNode(c) \in AllNodes
      BY DEF AllNodes
<1>2. {WatchPointNode(w) : w \in Items(cc.watchpoints)} \in SUBSET AllNodes
      BY DEF ClusterConfigs, AllNodes, Items
<1>3. {ExecNode(e) : e \in Items(cc.tests)} \in SUBSET AllNodes
      BY DEF ClusterConfigs, AllNodes, Items
<1>4. {HostNode(h) : h \in Items(cc.hosts)} \in SUBSET AllNodes
      BY DEF ClusterConfigs, AllNodes, Items
<1>5. "WATCH" \in RelTypes /\ "EXEC" \in RelTypes /\ "DEFINE" \in RelTypes
      BY DEF RelTypes
<1> QED BY <1>1, <1>2, <1>3, <1>4, <1>5, SaveChildRelsType DEF ClusterSaved

LEMMA PerceptionSavedType ==
    ASSUME tx \in SUBSET Relations, NEW w \in WatchPoints, NEW v \in Values
    PROVE  PerceptionSaved(w, v) \in SUBSET Relations
<1>1. {WatchPointNode(w)} \in SUBSET AllNodes /\ PerceptionNode(v) \in AllNodes
      BY DEF AllNodes
<1>2. "IS_SNAPSHOT_OF" \in RelTypes
      BY DEF RelTypes, ListTypes
<1> QED BY <1>1, <1>2, SaveChildLLsType DEF PerceptionSaved, SaveChildLL

LEMMA RecordedType ==
    ASSUME TypeOK, NEW e \in Execs, NEW o \in Outcomes
    PROVE  Recorded(e, o) \in SUBSET Relations
<1>1. ExecNode(e) \in AllNodes /\ ResultNode(e, o) \in AllNodes
      BY DEF AllNodes
<1>2. causes \ {FirstRun} \in SUBSET AllNodes
      BY DEF TypeOK, AllNodes
<1>3. "IS_RESULT_OF" \in RelTypes /\ "DUE_TO" \in RelTypes
      BY DEF RelTypes, ListTypes
<1>4. SaveChildLL(graph, ExecNode(e), ResultNode(e, o), "IS_RESULT_OF") \in SUBSET Relations
      BY <1>1, <1>3, SaveChildLLsType DEF SaveChildLL, TypeOK
<1> QED BY <1>1, <1>2, <1>3, <1>4, SaveChildLLsType DEF Recorded

\* A failure counts as one, and never more than the bound.
LEMMA FaultType ==
    ASSUME faults \in 0..MaxFaults, Fault
    PROVE  faults' \in 0..MaxFaults
BY ConstantsAssumption DEF Fault

\* The process starts, and starts again, with nothing in hand.
LEMMA FreshType ==
    /\ NothingSeen \in [WatchPoints -> Values \cup {None}]
    /\ <<>> \in Seq(Hosts)
    /\ 1 \in Nat \ {0}
BY DEF NothingSeen

\* Only what the cluster watches is owed to it.
LEMMA OweType ==
    ASSUME TypeOK, cur # None, pc \notin {"init", "down"}, Owe
    PROVE  owed' \in [Clusters -> SUBSET WatchPoints]
<1>1. cur \in Clusters /\ Mine \in ClusterConfigs
      BY MineType
<1>2. Items(Mine.watchpoints) \subseteq WatchPoints
      BY <1>1 DEF ClusterConfigs, Items
<1> QED BY <1>1, <1>2 DEF Owe, TypeOK

LEMMA TypeInit == Init => TypeOK
<1> SUFFICES ASSUME Init PROVE TypeOK
    OBVIOUS
<1>1. /\ covered \in [Clusters -> [WatchPoints -> Values \cup {None}]]
      /\ ranWith \in [Clusters -> ClusterConfigs \cup {None}]
      /\ owed \in [Clusters -> SUBSET WatchPoints]
      BY FreshType DEF Init
<1>2. ControlOK
      BY DEF Init, ControlOK
<1>3. changes \in 0..MaxChanges /\ edits \in 0..MaxEdits /\ faults \in 0..MaxFaults
      BY ConstantsAssumption DEF Init
<1> QED BY <1>1, <1>2, <1>3, FreshType DEF Init, TypeOK, Phases

LEMMA TypeStep == TypeOK /\ [Next]_vars => TypeOK'
<1> SUFFICES ASSUME TypeOK, [Next]_vars PROVE TypeOK'
    OBVIOUS
<1> USE DEF TypeOK, ControlOK, envVars, graphVars, loopVars, runVars, ghostVars, Phases
<1>1. CASE UNCHANGED vars
      BY <1>1 DEF vars, Mine
<1>2. CASE Parse
      BY <1>2, ConfigsAssumption DEF Parse, Mine
<1>3. CASE ParseFails
      BY <1>3 DEF ParseFails, vars, Mine
<1>4. CASE SaveHost
  <2>1. MyHost \in Hosts
        BY <1>4, MineType DEF SaveHost, MyHost, ClusterConfigs
  <2> QED BY <1>4, <2>1, HostSavedType DEF SaveHost, Mine
<1>5. CASE SaveCluster
  <2>1. ClusterSaved(graph, cur, Mine) \in SUBSET Relations
        BY <1>5, MineType, ClusterSavedType DEF SaveCluster
  <2> QED BY <1>5, <2>1 DEF SaveCluster
<1>6. CASE Loaded
      BY <1>6 DEF Loaded
<1>7. ASSUME NEW c \in Clusters, PickToSave(c) PROVE TypeOK'
      BY <1>7 DEF PickToSave
<1>8. CASE AskFirstRun
      BY <1>8, FaultType DEF AskFirstRun
<1>9. CASE PinWatchpoint
  <2>1. MyWatch \in WatchPoints
        BY <1>9, MyWatchType DEF PinWatchpoint
  <2>2. tx' \in SUBSET Relations
        BY <1>9, <2>1, PerceptionSavedType DEF PinWatchpoint
  <2>3. seen' \in [WatchPoints -> Values \cup {None}]
        BY <1>9, <2>1 DEF PinWatchpoint, Perceive
  <2> QED BY <1>9, <2>2, <2>3 DEF PinWatchpoint
<1>10. CASE CommitPin
      BY <1>10, OweType DEF CommitPin
<1>11. CASE CheckWatchpoint
  <2>1. MyWatch \in WatchPoints
        BY <1>11, MyWatchType DEF CheckWatchpoint
  <2>2. tx' \in SUBSET Relations
        BY <1>11, <2>1, PerceptionSavedType DEF CheckWatchpoint
  <2>3. seen' \in [WatchPoints -> Values \cup {None}]
        BY <1>11, <2>1 DEF CheckWatchpoint, Perceive
  <2>4. causes' \in SUBSET ({FirstRun} \cup {PerceptionNode(v) : v \in Values})
        BY <1>11, <2>1 DEF CheckWatchpoint
  <2> QED BY <1>11, <2>2, <2>3, <2>4, FaultType DEF CheckWatchpoint
<1>12. CASE CommitCauses
      BY <1>12, OweType DEF CommitCauses
<1>13. CASE CausesFail
      BY <1>13, FaultType DEF CausesFail, Return
<1>14. CASE Skip
      BY <1>14 DEF Skip, Return
<1>15. CASE Run
      BY <1>15 DEF Run
<1>16. CASE SkipHost
      BY <1>16 DEF SkipHost
<1>17. CASE BootHost
  <2>1. MyHost \in Hosts
        BY <1>17, MineType DEF BootHost, MyHost, ClusterConfigs
  <2> QED BY <1>17, <2>1 DEF BootHost, Mine
<1>18. CASE HostFails
  <2>1. MyHost \in Hosts
        BY <1>18, MineType DEF HostFails, MyHost, ClusterConfigs
  <2> QED BY <1>18, <2>1, FaultType DEF HostFails, Return
<1>19. ASSUME NEW o \in Outcomes, SoloTest(o) PROVE TypeOK'
  <2>1. MyHost \in Hosts
        BY <1>19, MineType DEF SoloTest, MyHost, ClusterConfigs
  <2>2. MySoloTest \in Execs
        BY <1>19, <2>1, ConstantsAssumption DEF SoloTest, MySoloTest
  <2> QED BY <1>19, <2>2, RecordedType DEF SoloTest, Mine
<1>20. CASE SoloTestLost
      BY <1>20, FaultType DEF SoloTestLost, Mine
<1>21. CASE HostTested
  <2>1. MyHost \in Hosts
        BY <1>21, MineType DEF HostTested, MyHost, ClusterConfigs
  <2> QED BY <1>21, <2>1 DEF HostTested
<1>22. CASE HostsDone
      BY <1>22 DEF HostsDone
<1>23. ASSUME NEW o \in Outcomes, ClusterTest(o) PROVE TypeOK'
  <2>1. MyTest \in Execs
        BY <1>23, MineType DEF ClusterTest, MyTest, ClusterConfigs
  <2> QED BY <1>23, <2>1, RecordedType DEF ClusterTest
<1>24. CASE ClusterTestLost
      BY <1>24, FaultType DEF ClusterTestLost
<1>25. CASE TestsDone
      BY <1>25 DEF TestsDone
<1>26. CASE Shutdown
      BY <1>26 DEF Shutdown
<1>27. CASE ShutdownFails
      BY <1>27, FaultType DEF ShutdownFails, Return
<1>28. CASE Finish
  <2>1. cur \in Clusters /\ Mine \in ClusterConfigs
        BY <1>28, MineType DEF Finish
  <2>2. covered' \in [Clusters -> [WatchPoints -> Values \cup {None}]]
        BY <1>28, <2>1 DEF Finish
  <2>3. /\ ranWith' \in [Clusters -> ClusterConfigs \cup {None}]
        /\ owed' \in [Clusters -> SUBSET WatchPoints]
        BY <1>28, <2>1 DEF Finish
  <2> QED BY <1>28, <2>2, <2>3 DEF Finish, Return
<1>29. CASE EndCycle
      BY <1>29 DEF EndCycle
<1>30. CASE Stop
      BY <1>30, FreshType DEF Stop, Gone
<1>31. CASE Wake
      BY <1>31 DEF Wake
<1>32. CASE Reload
      BY <1>32, ConfigsAssumption DEF Reload
<1>33. ASSUME NEW T \in SUBSET Templates, BuildTemplates(T) PROVE TypeOK'
      BY <1>33, FaultType, ConfigsAssumption DEF BuildTemplates
<1>34. ASSUME NEW c \in Clusters, Pick(c) PROVE TypeOK'
      BY <1>34, FreshType, ConstantsAssumption DEF Pick
<1>35. CASE Crash
      BY <1>35, FaultType, FreshType DEF Crash, Gone
<1>36. CASE Restart
      BY <1>36 DEF Restart
<1>37. ASSUME NEW w \in WatchPoints, NEW v \in Values, Change(w, v) PROVE TypeOK'
      BY <1>37, ConstantsAssumption DEF Change, Mine
<1>38. ASSUME NEW cfg \in Configs \cup {Broken}, Edit(cfg) PROVE TypeOK'
      BY <1>38, ConstantsAssumption DEF Edit, Mine
<1>39. CASE Hup
      BY <1>39 DEF Hup, Mine
<1> QED
    BY <1>1, <1>2, <1>3, <1>4, <1>5, <1>6, <1>7, <1>8, <1>9, <1>10, <1>11, <1>12, <1>13,
       <1>14, <1>15, <1>16, <1>17, <1>18, <1>19, <1>20, <1>21, <1>22, <1>23, <1>24,
       <1>25, <1>26, <1>27, <1>28, <1>29, <1>30, <1>31, <1>32, <1>33, <1>34, <1>35,
       <1>36, <1>37, <1>38, <1>39
    DEF Next, ProgramStep, LoadStep, CauseStep, RunStep, LoopStep, Environment

\* Every variable keeps its type, and the program its control: it holds a
\* configuration, and a cluster of that configuration, exactly where it uses one.
THEOREM TypeCorrect == Spec => []TypeOK
BY TypeInit, TypeStep, PTL DEF Spec

-----------------------------------------------------------------------------
(***************************************************************************)
(* The graph.  Whatever a step does, it does to the committed graph or to   *)
(* the open transaction one of a handful of things.                         *)
(***************************************************************************)
GraphFrame ==
    \/ graph' = graph /\ tx' \in {tx, graph, {}}
    \/ graph' = tx /\ tx' = tx
    \/ tx' = tx /\ \E h : graph' = HostSaved(graph, h)
    \/ tx' = tx /\ \E c, cc : graph' = ClusterSaved(graph, c, cc)
    \/ tx' = tx /\ \E e, o : graph' = Recorded(e, o)
    \/ graph' = graph /\ \E w, v : tx' = PerceptionSaved(w, v)

LEMMA GraphSteps == [Next]_vars => GraphFrame
<1> SUFFICES ASSUME [Next]_vars PROVE GraphFrame
    OBVIOUS
<1> USE DEF GraphFrame, graphVars
<1>1. CASE UNCHANGED vars
      BY <1>1 DEF vars
<1>2. CASE LoadStep
      BY <1>2 DEF LoadStep, Parse, ParseFails, SaveHost, SaveCluster, Loaded, PickToSave, vars
<1>3. CASE CauseStep
      BY <1>3 DEF CauseStep, AskFirstRun, PinWatchpoint, CommitPin, CheckWatchpoint,
                  CommitCauses, CausesFail, Skip, Run
<1>4. CASE RunStep
      BY <1>4 DEF RunStep, SkipHost, BootHost, HostFails, SoloTest, SoloTestLost, HostTested,
                  HostsDone, ClusterTest, ClusterTestLost, TestsDone, Shutdown,
                  ShutdownFails, Finish
<1>5. CASE LoopStep
      BY <1>5 DEF LoopStep, EndCycle, Stop, Gone, Wake, Reload, BuildTemplates, Pick
<1>6. CASE Environment
      BY <1>6 DEF Environment, Crash, Gone, Restart, Hup, Change, Edit
<1> QED BY <1>1, <1>2, <1>3, <1>4, <1>5, <1>6 DEF Next, ProgramStep

\* What every statement keeps true of the graph it is run on.
InOrder(G) == OneTail(G) /\ NothingFallsOff(G)

LEMMA SaveChildRelsInOrder ==
    ASSUME NEW G, InOrder(G), NEW parent, NEW kids,
           NEW type \in {"WATCH", "EXEC", "DEFINE", "BACKED_BY"}
    PROVE  InOrder(SaveChildRels(G, parent, kids, type))
BY SaveChildRelsOneTail, SaveChildRelsKeeps DEF InOrder, ListTypes

LEMMA SaveChildLLsInOrder ==
    ASSUME NEW G, InOrder(G), NEW parents, NEW child, NEW type \in ListTypes
    PROVE  InOrder(SaveChildLLs(G, parents, child, type))
BY SaveChildLLsOneTail, SaveChildLLsKeeps DEF InOrder, ListTypes

GraphsInOrder == InOrder(graph) /\ InOrder(tx)

LEMMA GraphsInit == Init => GraphsInOrder
BY DEF Init, GraphsInOrder, InOrder, OneTail, NothingFallsOff

LEMMA GraphsStep == GraphsInOrder /\ [Next]_vars => GraphsInOrder'
<1> SUFFICES ASSUME GraphsInOrder, GraphFrame PROVE GraphsInOrder'
    BY GraphSteps
<1>1. CASE graph' = graph /\ tx' \in {tx, graph, {}}
  <2>1. InOrder({})
        BY DEF InOrder, OneTail, NothingFallsOff
  <2> QED BY <1>1, <2>1 DEF GraphsInOrder
<1>2. CASE graph' = tx /\ tx' = tx
      BY <1>2 DEF GraphsInOrder
<1>3. ASSUME NEW h, tx' = tx, graph' = HostSaved(graph, h) PROVE GraphsInOrder'
      BY <1>3, SaveChildRelsInOrder DEF GraphsInOrder, HostSaved
<1>4. ASSUME NEW c, NEW cc, tx' = tx, graph' = ClusterSaved(graph, c, cc) PROVE GraphsInOrder'
      BY <1>4, SaveChildRelsInOrder DEF GraphsInOrder, ClusterSaved
<1>5. ASSUME NEW e, NEW o, tx' = tx, graph' = Recorded(e, o) PROVE GraphsInOrder'
      BY <1>5, SaveChildLLsInOrder DEF GraphsInOrder, Recorded, SaveChildLL, ListTypes
<1>6. ASSUME NEW w, NEW v, graph' = graph, tx' = PerceptionSaved(w, v) PROVE GraphsInOrder'
      BY <1>6, SaveChildLLsInOrder DEF GraphsInOrder, PerceptionSaved, SaveChildLL, ListTypes
<1> QED BY <1>1, <1>2, <1>3, <1>4, <1>5, <1>6 DEF GraphFrame

LEMMA GraphsAlwaysInOrder == Spec => []GraphsInOrder
BY GraphsInit, GraphsStep, PTL DEF Spec

\* A watchpoint, a perception or a command never has two latest children, in the
\* committed graph or in a transaction: is_tail! cannot take the past for the
\* present.
THEOREM OneTailAlways == Spec => []ListsHaveOneTail
<1>1. GraphsInOrder => ListsHaveOneTail
      BY DEF GraphsInOrder, InOrder, ListsHaveOneTail
<1> QED BY <1>1, GraphsAlwaysInOrder, PTL

\* Every perception and every result ever saved stays on the list of everything
\* it was saved under, through reruns, aborted runs, crashes and restarts.
THEOREM HistoryAlwaysKept == Spec => []HistoryKept
<1>1. GraphsInOrder => HistoryKept
      BY DEF GraphsInOrder, InOrder, HistoryKept
<1> QED BY <1>1, GraphsAlwaysInOrder, PTL

-----------------------------------------------------------------------------
(***************************************************************************)
(* The hosts.  As long as nothing has failed, what is running was booted by *)
(* the run in progress, which holds it, or is testing it, until it has shut *)
(* it down.                                                                 *)
(***************************************************************************)
InRun == pc \in {"hosts", "solo", "tests", "shutdown"}

RunOwnsHosts ==
    /\ ~InRun => up = {}
    /\ pc \in {"hosts", "tests"} => up \subseteq Items(held)
    /\ pc = "solo" => up \subseteq Items(held) \cup {MyHost}
    /\ pc = "shutdown" => up \subseteq {held[k] : k \in i..Len(held)}

OwnedUnlessFailed == faults = 0 => RunOwnsHosts

LEMMA OwnedInit == Init => OwnedUnlessFailed
BY DEF Init, OwnedUnlessFailed, RunOwnsHosts, InRun

LEMMA OwnedStep == TypeOK /\ OwnedUnlessFailed /\ [Next]_vars => OwnedUnlessFailed'
<1> SUFFICES ASSUME TypeOK, OwnedUnlessFailed, [Next]_vars, faults' = 0
             PROVE  RunOwnsHosts'
    BY DEF OwnedUnlessFailed
<1> USE DEF graphVars, runVars, ghostVars, envVars, loopVars
<1>1. ~Fault /\ (faults' = faults => faults = 0 /\ RunOwnsHosts)
      BY ConstantsAssumption DEF Fault, OwnedUnlessFailed, TypeOK
<1>2. held \in Seq(Hosts) /\ i \in Nat \ {0}
      BY DEF TypeOK
<1>3. CASE UNCHANGED vars
      BY <1>1, <1>3 DEF vars, RunOwnsHosts, InRun, MyHost, Mine
<1>4. CASE LoadStep
      BY <1>1, <1>4
      DEF LoadStep, Parse, ParseFails, SaveHost, SaveCluster, Loaded, PickToSave, vars,
          RunOwnsHosts, InRun
<1>5. CASE AskFirstRun \/ PinWatchpoint \/ CommitPin \/ CheckWatchpoint \/ CommitCauses
           \/ CausesFail \/ Skip
      BY <1>1, <1>5
      DEF AskFirstRun, PinWatchpoint, CommitPin, CheckWatchpoint, CommitCauses, CausesFail,
          Skip, Return, RunOwnsHosts, InRun
<1>6. CASE Run
      BY <1>1, <1>6 DEF Run, RunOwnsHosts, InRun
<1>7. CASE SkipHost \/ HostsDone \/ ClusterTestLost
      BY <1>1, <1>7 DEF SkipHost, HostsDone, ClusterTestLost, RunOwnsHosts, InRun
<1>8. CASE BootHost
      BY <1>1, <1>8 DEF BootHost, RunOwnsHosts, InRun, MyHost, Mine
<1>9. CASE SoloTestLost \/ \E o \in Outcomes : SoloTest(o)
      BY <1>1, <1>9 DEF SoloTestLost, SoloTest, RunOwnsHosts, InRun, MyHost, Mine
<1>10. CASE HostTested
  <2>1. Items(held') = Items(held) \cup {MyHost}
    <3>1. /\ Len(held') = Len(held) + 1
          /\ \A k \in 1..Len(held) : held'[k] = held[k]
          /\ held'[Len(held) + 1] = MyHost
          BY <1>2, <1>10 DEF HostTested
    <3>2. DOMAIN held = 1..Len(held) /\ DOMAIN held' = 1..(Len(held) + 1) /\ Len(held) \in Nat
          BY <1>2, <1>10, <3>1 DEF HostTested
    <3> QED BY <3>1, <3>2 DEF Items
  <2> QED BY <1>1, <1>10, <2>1 DEF HostTested, RunOwnsHosts, InRun
<1>11. CASE \E o \in Outcomes : ClusterTest(o)
      BY <1>1, <1>11 DEF ClusterTest, RunOwnsHosts, InRun
<1>12. CASE TestsDone
      BY <1>1, <1>2, <1>12 DEF TestsDone, RunOwnsHosts, InRun, Items
<1>13. CASE Shutdown
  <2>1. \A h \in up' : \E k \in (i + 1)..Len(held) : h = held[k]
    <3> SUFFICES ASSUME NEW h \in up' PROVE \E k \in (i + 1)..Len(held) : h = held[k]
        OBVIOUS
    <3>1. h \in up /\ h # held[i]
          BY <1>13 DEF Shutdown
    <3>2. PICK k \in i..Len(held) : h = held[k]
          BY <1>1, <1>13, <3>1 DEF Shutdown, RunOwnsHosts
    <3> QED BY <1>2, <3>1, <3>2
  <2> QED BY <1>1, <1>13, <2>1 DEF Shutdown, RunOwnsHosts, InRun
<1>14. CASE Finish
      BY <1>1, <1>2, <1>14 DEF Finish, Return, RunOwnsHosts, InRun
<1>15. CASE HostFails \/ ShutdownFails \/ Crash
      BY <1>1, <1>15 DEF HostFails, ShutdownFails, Crash
<1>16. CASE LoopStep
      BY <1>1, <1>16
      DEF LoopStep, EndCycle, Stop, Gone, Wake, Reload, BuildTemplates, Pick, RunOwnsHosts, InRun
<1>17. CASE \/ Restart \/ Hup
            \/ \E w \in WatchPoints, v \in Values : Change(w, v)
            \/ \E cfg \in Configs \cup {Broken} : Edit(cfg)
      BY <1>1, <1>17 DEF Restart, Hup, Change, Edit, RunOwnsHosts, InRun, MyHost, Mine
<1> QED BY <1>3, <1>4, <1>5, <1>6, <1>7, <1>8, <1>9, <1>10, <1>11, <1>12, <1>13, <1>14,
           <1>15, <1>16, <1>17
        DEF Next, ProgramStep, CauseStep, RunStep, Environment

\* As long as nothing has failed, a run that has returned, and a process that has
\* ended, has shut down every host it booted, also one that a cluster lists twice.
THEOREM NothingLeftRunningAlways == Spec => []NothingLeftRunning
<1>1. OwnedUnlessFailed => NothingLeftRunning
      BY DEF OwnedUnlessFailed, RunOwnsHosts, InRun, NothingLeftRunning
<1> QED BY <1>1, TypeCorrect, OwnedInit, OwnedStep, PTL DEF Spec
=============================================================================
