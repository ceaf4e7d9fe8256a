----------------------------- MODULE RerunProofs -----------------------------
(***************************************************************************)
(* The main loop implements Rerun for the clusters that watch alone, in any *)
(* installation and whatever fails.  The steps that matter are the one that *)
(* takes a cluster up, the looks at its watchpoints, the commit and the     *)
(* last shutdown; any other one is a stutter, or cuts the cluster short.    *)
(*                                                                          *)
(* It implements Turn as well: what it does with the hosts of a cluster is  *)
(* what Provision does to their domains (ProvisionProofs).                  *)
(***************************************************************************)
EXTENDS DecisionProofs, SequenceTheorems

PromiseStep == [Promise!Next]_(Promise!vars)

\* A cluster that watches alone is being looked at, or run.
Busy == pc \in {"first", "pin", "watch", "decide", "hosts", "solo", "tests", "shutdown"}

LEMMA PhaseIs ==
    /\ Phase \in {"idle", "looking", "running"}
    /\ Phase = "looking" <=> cur \in Alone /\ pc \in {"first", "pin", "watch"}
    /\ Phase = "running" <=>
          /\ cur \in Alone
          /\ pc \in {"hosts", "solo", "tests", "shutdown"} \/ (pc = "decide" /\ causes # {})
    /\ (Phase = "looking")' <=> cur' \in Alone /\ pc' \in {"first", "pin", "watch"}
    /\ (Phase = "running")' <=>
          /\ cur' \in Alone
          /\ pc' \in {"hosts", "solo", "tests", "shutdown"} \/ (pc' = "decide" /\ causes' # {})
    /\ Phase' \in {"idle", "looking", "running"}
BY DEF Phase, Alone

LEMMA StutterOrCut ==
    ASSUME UNCHANGED <<covered, owed>>,
           Phase' = "idle" \/ (Phase' = Phase /\ UNCHANGED <<cur, config, seen>>)
    PROVE  PromiseStep
<1>1. CASE Phase' = Phase /\ (Phase = "idle" \/ UNCHANGED <<cur, config, seen>>)
  <2>1. UNCHANGED Promise!vars
        BY <1>1 DEF Promise!vars, Mine, Alone
  <2> QED BY <2>1 DEF PromiseStep
<1>2. CASE Phase # "idle" /\ Phase' = "idle"
  <2>1. Promise!CutShort
        BY <1>2 DEF Promise!CutShort, Promise!Idle, Promise!Nothing, NothingSeen, Alone
  <2> QED BY <2>1 DEF PromiseStep, Promise!Next
<1> QED BY <1>1, <1>2

LEMMA AloneClusters == Alone \subseteq Clusters /\ None \notin Alone
BY ConstantsAssumption DEF Alone

LEMMA PickPromised ==
    ASSUME TypeOK, TypeOK', NEW c \in Clusters, Pick(c)
    PROVE  PromiseStep
<1> USE DEF graphVars, ghostVars, envVars
<1>1. Phase = "idle"
      BY PhaseIs DEF Pick
<1>2. CASE c \notin Alone
      BY <1>1, <1>2, StutterOrCut, PhaseIs DEF Pick
<1>3. CASE c \in Alone
  <2>1. Phase' = "looking"
        BY <1>3, PhaseIs DEF Pick
  <2>2. Items(Mine.watchpoints)' \subseteq WatchPoints
    <3>1. Mine' \in ClusterConfigs
          BY ConfigsAssumption DEF Pick, TypeOK, ControlOK, Mine
    <3> QED BY <3>1 DEF ClusterConfigs, Items
  <2>3. Promise!Begin(c, Items(Mine.watchpoints)')
        BY <1>1, <2>1 DEF Promise!Begin, Pick, Alone
  <2> QED BY <1>3, <2>2, <2>3 DEF PromiseStep, Promise!Next
<1> QED BY <1>2, <1>3

LEMMA LookPromised ==
    ASSUME TypeOK, pc \in {"pin", "watch"}, i <= Len(Mine.watchpoints),
           Perceive, UNCHANGED <<pc, cur, config, covered, owed>>
    PROVE  PromiseStep
<1>1. Phase' = Phase
      BY PhaseIs
<1>2. CASE cur \notin Alone
      BY <1>2, PhaseIs, StutterOrCut
<1>3. CASE cur \in Alone
  <2>1. Phase = "looking"
        BY <1>3, PhaseIs
  <2>2. /\ MyWatch \in WatchPoints /\ MyWatch \in Items(Mine.watchpoints)
        /\ world[MyWatch] \in Values
        BY WatchType
  <2>3. Mine' = Mine
        BY DEF Mine
  <2>4. Promise!Look(MyWatch, world[MyWatch])
        BY <1>1, <2>1, <2>2, <2>3 DEF Promise!Look, Perceive, Alone
  <2> QED BY <2>2, <2>4 DEF PromiseStep, Promise!Next
<1> QED BY <1>2, <1>3

\* The commit, whether it finds a cause or not.
LEMMA CommitPromised ==
    ASSUME TypeOK, DecisionInv, pc \in {"pin", "watch"}, i > Len(Mine.watchpoints),
           Owe, pc' = "decide", UNCHANGED <<config, cur, seen, covered>>,
           causes' # {} \/ (pc = "watch" /\ causes' = causes)
    PROVE  PromiseStep
<1> DEFINE s == Mine.watchpoints
           W == {w \in Items(s) : causes' # {} /\ ~TailOf(graph, w, seen[w])}
<1>1. /\ cur \in Clusters /\ config \in Configs /\ cur \in DOMAIN config.clusters
      /\ i \in Nat \ {0} /\ s \in Seq(WatchPoints) /\ Items(s) = Watched(config, cur)
      BY WatchType DEF TypeOK, ControlOK
<1>2. /\ owed'[cur] = owed[cur] \cup W
      /\ \A c \in Clusters : c # cur => owed'[c] = owed[c]
      BY <1>1 DEF Owe, TypeOK, TailOf
<1>3. CASE cur \notin Alone
  <2>1. Phase = "idle" /\ Phase' = "idle"
        BY <1>3, PhaseIs
  <2>2. [c \in Alone |-> owed[c]]' = [c \in Alone |-> owed[c]]
        BY <1>2, <1>3, AloneClusters DEF Alone
  <2>3. UNCHANGED Promise!vars
        BY <2>1, <2>2 DEF Promise!vars
  <2> QED BY <2>3 DEF PromiseStep
<1>4. CASE cur \in Alone
  <2>1. Phase = "looking"
        BY <1>4, PhaseIs
  <2>2. Evaluating /\ ListsEachOnce(s)
        BY <1>1, <1>4 DEF DecisionInv, Alone, WatchesAlone, Mine
  <2>3. i - 1 = Len(s)
        BY <1>1, <2>2 DEF Evaluating
  <2>4. \A w \in Items(s) : seen[w] # None
        BY <1>1, <2>2, <2>3 DEF Evaluating, TxFollows, Items
  <2>5. ASSUME NEW w \in Items(s), w \notin W
        PROVE  covered[cur][w] = seen[w] \/ w \in owed[cur]
    <3>1. w \in WatchPoints
          BY <1>1 DEF Items
    <3>2. TailOf(graph, w, seen[w])
      <4>1. PICK k \in 1..(i - 1) : w = s[k]
            BY <1>1, <2>3 DEF Items
      <4> QED BY <2>2, <2>5, <4>1 DEF Evaluating, ChangesAreCauses
    <3>3. seen[w] \in Values
          BY <2>4, <3>1 DEF TypeOK
    <3> QED BY <1>1, <1>4, <3>2, <3>3 DEF DecisionInv, AloneCovered, Alone
  <2>6. Mine' = Mine
        BY DEF Mine
  <2>7. CASE causes' # {}
    <3>1. Phase' = "running"
          BY <1>4, <2>7, PhaseIs
    <3>2. W \in SUBSET WatchPoints
          BY <1>1 DEF Items
    <3>3. [c \in Alone |-> owed[c]]' =
              [[c \in Alone |-> owed[c]] EXCEPT ![cur] = @ \cup W]
          BY <1>2, <1>4, AloneClusters DEF Alone
    <3>4. Promise!NoNewsBut(W) /\ Promise!AllLookedAt
          BY <1>4, <2>1, <2>4, <2>5 DEF Promise!NoNewsBut, Promise!AllLookedAt
    <3>5. PICK V \in SUBSET WatchPoints : V = W
          BY <3>2
    <3>6. Promise!NoNewsBut(V) /\ V \subseteq Items(Mine.watchpoints)
          BY <3>4, <3>5
    <3>7. Promise!Start(V)
          BY <2>1, <2>6, <3>1, <3>3, <3>4, <3>5, <3>6 DEF Promise!Start, Alone
    <3> QED BY <3>7 DEF PromiseStep, Promise!Next
  <2>8. CASE causes' = {}
    <3>1. Phase' = "idle"
          BY <2>8, PhaseIs
    <3>2. W = {}
          BY <2>8
    <3>3. [c \in Alone |-> owed[c]]' = [c \in Alone |-> owed[c]]
          BY <1>2, <3>2, AloneClusters DEF Alone
    <3>4. Promise!NoNewsBut({}) /\ Promise!AllLookedAt
          BY <1>4, <2>1, <2>4, <2>5, <3>2 DEF Promise!NoNewsBut, Promise!AllLookedAt
    <3>5. Promise!LeaveAlone
          BY <2>1, <3>1, <3>3, <3>4
          DEF Promise!LeaveAlone, Promise!Idle, Promise!Nothing, NothingSeen, Alone
    <3> QED BY <3>5 DEF PromiseStep, Promise!Next
  <2> QED BY <2>7, <2>8
<1> QED BY <1>3, <1>4

LEMMA FinishPromised ==
    ASSUME TypeOK, DecisionInv, Finish
    PROVE  PromiseStep
<1> DEFINE s == Mine.watchpoints
<1>1. cur \in Clusters /\ cur \in DOMAIN config.clusters /\ config \in Configs
      BY MineType DEF Finish, TypeOK, ControlOK
<1>2. /\ covered'[cur] = [w \in WatchPoints |-> IF seen[w] = None THEN covered[cur][w]
                                                ELSE seen[w]]
      /\ owed'[cur] = owed[cur] \ Items(s)
      /\ \A c \in Clusters : c # cur => covered'[c] = covered[c] /\ owed'[c] = owed[c]
      BY <1>1 DEF Finish, TypeOK
<1>3. Phase' = "idle"
      BY PhaseIs DEF Finish, Return
<1>4. CASE cur \notin Alone
  <2>1. Phase = "idle"
        BY <1>4, PhaseIs
  <2>2. /\ [c \in Alone |-> owed[c]]' = [c \in Alone |-> owed[c]]
        /\ [c \in Alone |-> covered[c]]' = [c \in Alone |-> covered[c]]
        BY <1>2, <1>4, AloneClusters DEF Alone
  <2>3. UNCHANGED Promise!vars
        BY <1>3, <2>1, <2>2 DEF Promise!vars
  <2> QED BY <2>3 DEF PromiseStep
<1>5. CASE cur \in Alone
  <2>1. Phase = "running"
        BY <1>5, PhaseIs DEF Finish
  <2>2. Decided /\ ListsEachOnce(s)
        BY <1>1, <1>5 DEF DecisionInv, Finish, Running, Alone, WatchesAlone, Mine
  <2>3. \A w \in WatchPoints : seen[w] = None <=> w \notin Items(s)
        BY <2>2 DEF Decided
  <2>4. [c \in Alone |-> owed[c]]' =
            [[c \in Alone |-> owed[c]] EXCEPT ![cur] = @ \ Items(s)]
        BY <1>2, <1>5, AloneClusters DEF Alone
  <2>5. covered'[cur] = [w \in WatchPoints |-> IF w \in Items(s) THEN seen[w]
                                               ELSE covered[cur][w]]
        BY <1>2, <2>3
  <2>6. [c \in Alone |-> covered[c]]' =
            [[c \in Alone |-> covered[c]] EXCEPT ![cur] =
                [w \in WatchPoints |-> IF w \in Items(s) THEN seen[w] ELSE @[w]]]
        BY <1>2, <1>5, <2>5, AloneClusters DEF Alone
  <2>7. Promise!Finish
        BY <1>3, <2>1, <2>4, <2>6
        DEF Promise!Finish, Promise!Idle, Promise!Nothing, NothingSeen, Alone
  <2> QED BY <2>7 DEF PromiseStep, Promise!Next
<1> QED BY <1>4, <1>5

LEMMA PromisedInit == Init => Promise!Init
<1> SUFFICES ASSUME Init PROVE Promise!Init
    OBVIOUS
<1>1. Phase = "idle"
      BY PhaseIs DEF Init
<1>2. /\ [c \in Alone |-> covered[c]] = [c \in Alone |-> NothingSeen]
      /\ [c \in Alone |-> owed[c]] = [c \in Alone |-> {}]
      BY AloneClusters DEF Init
<1> QED BY <1>1, <1>2 DEF Promise!Init, Promise!Idle, Promise!Nothing, NothingSeen

LEMMA PromisedStep ==
    ASSUME TypeOK, TypeOK', DecisionInv, [Next]_vars
    PROVE  PromiseStep
<1> USE DEF graphVars, runVars, ghostVars, envVars, loopVars
<1>1. CASE UNCHANGED vars
  <2>1. Phase' = Phase /\ UNCHANGED <<covered, owed, cur, config, seen>>
        BY <1>1 DEF vars, Phase, Alone
  <2> QED BY <2>1, StutterOrCut
<1>2. CASE LoadStep
      BY <1>2, PhaseIs, StutterOrCut
      DEF LoadStep, Parse, ParseFails, SaveHost, SaveCluster, Loaded, PickToSave, vars
<1>3. CASE AskFirstRun
  <2>1. Phase' = Phase
        BY <1>3, PhaseIs DEF AskFirstRun
  <2> QED BY <1>3, <2>1, StutterOrCut DEF AskFirstRun
<1>4. CASE PinWatchpoint \/ CheckWatchpoint
      BY <1>4, LookPromised DEF PinWatchpoint, CheckWatchpoint
<1>5. CASE CommitPin \/ CommitCauses
      BY <1>5, CommitPromised DEF CommitPin, CommitCauses
<1>6. CASE CausesFail \/ Skip \/ HostFails \/ ShutdownFails
      BY <1>6, PhaseIs, StutterOrCut
      DEF CausesFail, Skip, HostFails, ShutdownFails, Return
<1>7. CASE \/ Run \/ SkipHost \/ BootHost \/ SoloTestLost \/ HostTested \/ HostsDone
           \/ ClusterTestLost \/ TestsDone \/ Shutdown
           \/ \E o \in Outcomes : SoloTest(o) \/ ClusterTest(o)
  <2>1. /\ pc \in {"hosts", "solo", "tests", "shutdown"} \/ (pc = "decide" /\ causes # {})
        /\ pc' \in {"hosts", "solo", "tests", "shutdown"}
        /\ UNCHANGED <<cur, config, seen, covered, owed>>
        BY <1>7
        DEF Run, SkipHost, BootHost, SoloTestLost, HostTested, HostsDone, ClusterTestLost,
            TestsDone, Shutdown, SoloTest, ClusterTest
  <2>2. Phase' = Phase
        BY <2>1, PhaseIs
  <2> QED BY <2>1, <2>2, StutterOrCut
<1>8. CASE Finish
      BY <1>8, FinishPromised
<1>9. CASE EndCycle \/ Stop \/ Wake \/ Reload \/ \E T \in SUBSET Templates : BuildTemplates(T)
      BY <1>9, PhaseIs, StutterOrCut DEF EndCycle, Stop, Gone, Wake, Reload, BuildTemplates
<1>10. ASSUME NEW c \in Clusters, Pick(c) PROVE PromiseStep
      BY <1>10, PickPromised
<1>11. CASE Crash \/ Restart
      BY <1>11, PhaseIs, StutterOrCut DEF Crash, Gone, Restart
<1>12. CASE \/ Hup
            \/ \E w \in WatchPoints, v \in Values : Change(w, v)
            \/ \E cfg \in Configs \cup {Broken} : Edit(cfg)
  <2>1. UNCHANGED <<pc, causes, cur, config, seen, covered, owed>>
        BY <1>12 DEF Hup, Change, Edit
  <2>2. Phase' = Phase
        BY <2>1 DEF Phase, Alone
  <2> QED BY <2>1, <2>2, StutterOrCut
<1> QED BY <1>1, <1>2, <1>3, <1>4, <1>5, <1>6, <1>7, <1>8, <1>9, <1>10, <1>11, <1>12
        DEF Next, ProgramStep, CauseStep, RunStep, LoopStep, Environment

\* Whatever crashes, fails, is edited or changes between and during its runs, a
\* cluster that watches alone gets what module Rerun promises: the main loop,
\* with its transactions and its graph, implements Rerun.
THEOREM ImplementsRerun == Spec => RerunsKept
<1>1. TypeOK /\ TypeOK' /\ DecisionInv /\ [Next]_vars => [Promise!Next]_(Promise!vars)
      BY PromisedStep DEF PromiseStep
<1>2. Spec => []DecisionInv
      BY TypeCorrect, GraphsAlwaysInOrder, DecisionInit, DecisionStep, PTL DEF Spec
<1> QED BY <1>1, <1>2, PromisedInit, TypeCorrect, PTL DEF Spec, RerunsKept, Promise!Spec

-----------------------------------------------------------------------------
(***************************************************************************)
(* Turn.                                                                    *)
(***************************************************************************)
TurnStep == [Machines!Next]_(Machines!vars)

\* A run begins with nothing in its hosts vector, and tests what it has booted.
HostsInHand ==
    /\ pc \in {"first", "pin", "watch", "decide"} => held = <<>>
    /\ pc = "solo" => MyHost \in up

LEMMA TurnPhaseIs ==
    /\ TurnPhase = IF pc \in {"hosts", "solo", "tests"} THEN "booting"
                   ELSE IF pc = "shutdown" THEN "closing" ELSE "idle"
    /\ TurnPhase' = IF pc' \in {"hosts", "solo", "tests"} THEN "booting"
                    ELSE IF pc' = "shutdown" THEN "closing" ELSE "idle"
BY DEF TurnPhase

\* What is held, with one more at its end and with its head taken off.
LEMMA ItemsAppend ==
    ASSUME NEW S, NEW s \in Seq(S), NEW x \in S
    PROVE  Items(Append(s, x)) = Items(s) \cup {x}
<1> DEFINE t == Append(s, x)
<1>1. /\ Len(s) \in Nat /\ DOMAIN s = 1..Len(s) /\ DOMAIN t = 1..(Len(s) + 1)
      /\ \A k \in 1..Len(s) : t[k] = s[k]
      /\ t[Len(s) + 1] = x
      OBVIOUS
<1> HIDE DEF t
<1>2. DOMAIN t = DOMAIN s \cup {Len(s) + 1}
      BY <1>1
<1> QED BY <1>1, <1>2 DEF Items, t

LEMMA ItemsTail ==
    ASSUME NEW S, NEW s \in Seq(S), s # <<>>
    PROVE  Items(s) = Items(Tail(s)) \cup {Head(s)}
<1> DEFINE t == Tail(s)
<1>1. /\ Len(s) \in Nat \ {0} /\ DOMAIN s = 1..Len(s) /\ DOMAIN t = 1..(Len(s) - 1)
      /\ \A k \in 1..(Len(s) - 1) : t[k] = s[k + 1]
      /\ Head(s) = s[1]
      OBVIOUS
<1> HIDE DEF t
<1>2. ASSUME NEW x \in Items(t) PROVE x \in Items(s)
  <2>1. PICK k \in 1..(Len(s) - 1) : x = s[k + 1]
        BY <1>1 DEF Items
  <2>2. k + 1 \in DOMAIN s
        BY <1>1
  <2> QED BY <2>1, <2>2 DEF Items
<1>3. ASSUME NEW x \in Items(s), x # Head(s) PROVE x \in Items(t)
  <2>1. PICK k \in 1..Len(s) : x = s[k]
        BY <1>1 DEF Items
  <2>2. k - 1 \in 1..(Len(s) - 1) /\ (k - 1) + 1 = k
        BY <1>1, <1>3, <2>1
  <2>3. t[k - 1] = x /\ k - 1 \in DOMAIN t
        BY <1>1, <2>1, <2>2
  <2> QED BY <2>3 DEF Items
<1>4. Head(s) \in Items(s)
      BY <1>1 DEF Items
<1> QED BY <1>2, <1>3, <1>4 DEF t

LEMMA ItemsNone == Items(<<>>) = {}
BY DEF Items

LEMMA TurnHeldIs ==
    /\ TurnHeld = IF TurnPhase = "booting" THEN held
                  ELSE IF TurnPhase = "closing" THEN SubSeq(held, i, Len(held)) ELSE <<>>
    /\ TurnHeld' = IF TurnPhase' = "booting" THEN held'
                   ELSE IF TurnPhase' = "closing" THEN SubSeq(held', i', Len(held')) ELSE <<>>
BY DEF TurnHeld

LEMMA TurnMineIs ==
    /\ TurnMine = IF TurnPhase = "idle" THEN {}
                  ELSE up \cap (Items(TurnHeld) \cup IF pc = "solo" THEN {MyHost} ELSE {})
    /\ TurnMine' = IF TurnPhase' = "idle" THEN {}
                   ELSE up' \cap (Items(TurnHeld') \cup IF pc' = "solo" THEN {MyHost'} ELSE {})
BY DEF TurnMine, Items

\* Steps that neither begin nor end anything: at most they are a failure that
\* is lived with, or one between two runs.
LEMMA TurnStays ==
    ASSUME TypeOK, UNCHANGED up, faults' = faults \/ Fault,
           \/ TurnPhase = "idle" /\ TurnPhase' = "idle"
           \/ /\ TurnPhase' = TurnPhase
              /\ UNCHANGED <<held, templates>>
              /\ TurnPhase = "closing" => UNCHANGED i
              /\ pc = "solo" <=> pc' = "solo"
              /\ pc = "solo" => UNCHANGED MyHost
    PROVE  TurnStep
<1>1. UNCHANGED <<TurnPhase, TurnUsable, TurnHeld>>
      BY TurnHeldIs DEF TurnUsable
<1>0. UNCHANGED TurnMine
      BY <1>1, TurnMineIs
<1>2. CASE faults' = faults
      BY <1>0, <1>1, <1>2 DEF TurnStep, Machines!vars
<1>3. CASE Fault
  <2>1. (faults = 0)' = FALSE
        BY <1>3, ConstantsAssumption DEF Fault, TypeOK
  <2> QED BY <1>0, <1>1, <2>1 DEF TurnStep, Machines!Next, Machines!Fail
<1> QED BY <1>2, <1>3

\* Where a failure ends the run.
LEMMA TurnIsCut ==
    ASSUME TypeOK, Fault, TurnPhase' = "idle",
           \/ UNCHANGED up
           \/ TurnPhase = "booting" /\ \E h \in TurnUsable : up' = up \cup {h}
    PROVE  TurnStep
<1>1. (faults = 0)' = FALSE
      BY ConstantsAssumption DEF Fault, TypeOK
<1>2. TurnHeld' = <<>> /\ TurnUsable' = {} /\ TurnMine' = {}
      BY TurnHeldIs, TurnMineIs DEF TurnUsable
<1>3. CASE TurnPhase = "idle"
      BY <1>3, TurnStays
<1>4. CASE TurnPhase # "idle"
      BY <1>1, <1>2, <1>4
      DEF TurnStep, Machines!Next, Machines!CutShort, Machines!Idle
<1> QED BY <1>3, <1>4

\* The host in hand is there a template for, where run_cluster goes on with it.
LEMMA MyHostIsUsable ==
    ASSUME TypeOK, pc = "hosts", i <= Len(Mine.hosts), TemplateOf[MyHost] \in templates
    PROVE  MyHost \in Hosts /\ MyHost \in TurnUsable
<1>1. Mine.hosts \in Seq(Hosts)
      BY MineType DEF TypeOK, ControlOK, ClusterConfigs
<1>2. MyHost \in Hosts
      BY <1>1 DEF TypeOK, MyHost
<1> QED BY <1>2, TurnPhaseIs DEF TurnUsable

\* The steps of run_cluster.
LEMMA RunTurns ==
    ASSUME TypeOK, TypeOK', HostsInHand, OwnedUnlessFailed, RunStep \/ Run
    PROVE  TurnStep
<1> USE TurnPhaseIs DEF graphVars, runVars, ghostVars, envVars
<1>1. CASE Run
  <2>0. TurnMine = {} /\ TurnMine' = {}
        BY <1>1, TurnHeldIs, TurnMineIs, ItemsNone DEF Run, HostsInHand
  <2>1. Machines!Begin(TurnUsable')
        BY <1>1, <2>0, TurnHeldIs DEF Run, Machines!Begin, HostsInHand, TurnUsable
  <2>2. TurnUsable' \in SUBSET Hosts
        BY DEF TurnUsable
  <2> QED BY <2>1, <2>2 DEF TurnStep, Machines!Next
<1>2. CASE \/ SkipHost \/ SoloTestLost \/ HostsDone \/ ClusterTestLost
           \/ \E o \in Outcomes : SoloTest(o) \/ ClusterTest(o)
      BY <1>2, TurnStays
      DEF MyHost, Mine, SkipHost, SoloTestLost, HostsDone, ClusterTestLost, SoloTest, ClusterTest
<1>3. CASE BootHost
  <2>1. MyHost \in Hosts /\ MyHost \in TurnUsable
        BY <1>3, MyHostIsUsable DEF BootHost
  <2>0. TurnMine' = TurnMine \cup {MyHost}
    <3>1. TurnHeld' = TurnHeld /\ MyHost' = MyHost
          BY <1>3, TurnHeldIs DEF BootHost, MyHost, Mine
    <3> QED BY <1>3, <3>1, TurnMineIs DEF BootHost
  <2>2. Machines!Boot(MyHost)
        BY <1>3, <2>0, <2>1, TurnHeldIs DEF BootHost, Machines!Boot, TurnUsable
  <2> QED BY <2>1, <2>2 DEF TurnStep, Machines!Next
<1>4. CASE HostTested
  <2>1. MyHost \in Hosts /\ MyHost \in up
        BY <1>4 DEF HostTested, HostsInHand, TypeOK
  <2>0. MyHost \in TurnMine /\ TurnMine' = TurnMine
    <3>1. TurnHeld = held /\ TurnHeld' = Append(held, MyHost)
          BY <1>4, TurnHeldIs DEF HostTested
    <3>2. Items(TurnHeld') = Items(TurnHeld) \cup {MyHost}
          BY <2>1, <3>1, ItemsAppend DEF TypeOK
    <3> QED BY <1>4, <2>1, <3>2, TurnMineIs DEF HostTested
  <2>2. Machines!HandOver(MyHost)
        BY <1>4, <2>0, <2>1, TurnHeldIs DEF HostTested, Machines!HandOver, TurnUsable
  <2> QED BY <2>1, <2>2 DEF TurnStep, Machines!Next
<1>5. CASE TestsDone
  <2>1. held \in Seq(Hosts) /\ held' = held /\ i' = 1
        BY <1>5 DEF TestsDone, TypeOK
  <2>2. SubSeq(held', i', Len(held')) = held
        BY <2>1, SubSeqFull
  <2>4. TurnMine' = TurnMine
    <3>1. TurnHeld' = TurnHeld
          BY <1>5, <2>2, TurnHeldIs DEF TestsDone
    <3> QED BY <1>5, <3>1, TurnMineIs DEF TestsDone
  <2>3. Machines!Close
        BY <1>5, <2>2, <2>4, TurnHeldIs DEF TestsDone, Machines!Close, TurnUsable
  <2> QED BY <2>3 DEF TurnStep, Machines!Next
<1>6. CASE Shutdown
  <2>1. /\ held \in Seq(Hosts) /\ held' = held /\ i' = i + 1
        /\ i \in 1..Len(held) /\ Len(held) \in i..Len(held)
        BY <1>6 DEF Shutdown, TypeOK
  <2>2. /\ Head(TurnHeld) = held[i]
        /\ Tail(TurnHeld) = TurnHeld'
        BY <1>6, <2>1, TurnHeldIs, HeadTailOfSubSeq DEF Shutdown
  <2>3. TurnHeld # <<>>
    <3>1. Len(SubSeq(held, i, Len(held))) = Len(held) - i + 1
          BY <2>1, SubSeqProperties, LenProperties
    <3>2. Len(<<>>) = 0 /\ Len(held) - i + 1 # 0
          BY <2>1
    <3> QED BY <1>6, <3>1, <3>2, TurnHeldIs DEF Shutdown
  <2>5. TurnMine' = TurnMine \ {held[i]}
    <3>1. TurnHeld \in Seq(Hosts)
          BY <1>6, <2>1, SubSeqProperties, TurnHeldIs DEF Shutdown
    <3>2. Items(TurnHeld) = Items(TurnHeld') \cup {held[i]}
          BY <2>2, <2>3, <3>1, ItemsTail
    <3>3. TurnMine = up \cap Items(TurnHeld) /\ TurnMine' = up' \cap Items(TurnHeld')
          BY <1>6, TurnMineIs DEF Shutdown
    <3>4. up' = up \ {held[i]}
          BY <1>6 DEF Shutdown
    <3> QED BY <3>2, <3>3, <3>4
  <2>4. Machines!Shutdown
        BY <1>6, <2>2, <2>3, <2>5 DEF Shutdown, Machines!Shutdown, TurnUsable
  <2> QED BY <2>4 DEF TurnStep, Machines!Next
<1>7. CASE Finish
  <2>1. held \in Seq(Hosts) /\ i \in Int /\ Len(held) \in Int /\ Len(held) < i
        BY <1>7 DEF Finish, TypeOK
  <2>2. TurnHeld = <<>>
        BY <1>7, <2>1, SubSeqEmpty, TurnHeldIs DEF Finish
  <2>3. faults = 0 => up = {}
        BY <1>7, <2>1 DEF Finish, OwnedUnlessFailed, RunOwnsHosts, InRun
  <2>5. TurnMine = {} /\ TurnMine' = {}
        BY <1>7, <2>2, TurnMineIs, ItemsNone DEF Finish, Return
  <2>4. Machines!End
        BY <1>7, <2>2, <2>3, <2>5, TurnHeldIs
        DEF Finish, Return, Machines!End, Machines!Idle, TurnUsable
  <2> QED BY <2>4 DEF TurnStep, Machines!Next
<1>8. CASE HostFails
      BY <1>8, MyHostIsUsable, TurnIsCut DEF HostFails, Return
<1>9. CASE ShutdownFails
      BY <1>9, TurnIsCut DEF ShutdownFails, Return
<1> QED BY <1>1, <1>2, <1>3, <1>4, <1>5, <1>6, <1>7, <1>8, <1>9 DEF RunStep

\* All the other ones.
LEMMA OthersTurn ==
    ASSUME TypeOK, LoadStep \/ (CauseStep /\ ~Run) \/ LoopStep \/ Environment \/ UNCHANGED vars
    PROVE  TurnStep
<1> USE TurnPhaseIs DEF graphVars, runVars, ghostVars, envVars, loopVars
<1>1. CASE LoadStep
      BY <1>1, TurnStays
      DEF LoadStep, Parse, ParseFails, SaveHost, SaveCluster, Loaded, PickToSave, vars
<1>2. CASE CauseStep /\ ~Run
      BY <1>2, TurnStays
      DEF CauseStep, AskFirstRun, PinWatchpoint, CommitPin, CheckWatchpoint, CommitCauses,
          CausesFail, Skip, Return
<1>3. CASE LoopStep
      BY <1>3, TurnStays
      DEF LoopStep, EndCycle, Stop, Gone, Wake, Reload, BuildTemplates, Pick
<1>4. CASE Crash
      BY <1>4, TurnIsCut DEF Crash, Gone
<1>5. CASE \/ Restart \/ Hup \/ UNCHANGED vars
           \/ \E w \in WatchPoints, v \in Values : Change(w, v)
           \/ \E cfg \in Configs \cup {Broken} : Edit(cfg)
      BY <1>5, TurnStays DEF MyHost, Mine, Restart, Hup, Change, Edit, vars
<1> QED BY <1>1, <1>2, <1>3, <1>4, <1>5 DEF Environment

LEMMA InHandStep == TypeOK /\ HostsInHand /\ [Next]_vars => HostsInHand'
<1> SUFFICES ASSUME TypeOK, HostsInHand, [Next]_vars PROVE HostsInHand'
    OBVIOUS
<1> USE DEF HostsInHand, MyHost, Mine, graphVars, runVars, ghostVars, envVars, loopVars
<1>1. CASE LoadStep
      BY <1>1 DEF LoadStep, Parse, ParseFails, SaveHost, SaveCluster, Loaded, PickToSave, vars
<1>2. CASE CauseStep
      BY <1>2
      DEF CauseStep, AskFirstRun, PinWatchpoint, CommitPin, CheckWatchpoint, CommitCauses,
          CausesFail, Skip, Return, Run
<1>3. CASE RunStep
      BY <1>3
      DEF RunStep, SkipHost, BootHost, HostFails, SoloTestLost, HostTested, HostsDone,
          ClusterTestLost, TestsDone, Shutdown, ShutdownFails, Finish, Return, SoloTest, ClusterTest
<1>4. CASE LoopStep
      BY <1>4 DEF LoopStep, EndCycle, Stop, Gone, Wake, Reload, BuildTemplates, Pick
<1>5. CASE Environment \/ UNCHANGED vars
      BY <1>5 DEF Environment, Crash, Gone, Restart, Hup, Change, Edit, vars
<1> QED BY <1>1, <1>2, <1>3, <1>4, <1>5 DEF Next, ProgramStep

\* Whatever a cluster lists, and whatever fails: hosts are booted from templates
\* of the cycle, held once they run, and shut down in that order, and only a run
\* that a failure ends leaves one running (src/flota/manager/mod.rs:222-264).
THEOREM ManagerImplementsTurn == Spec => TurnsKept
<1>1. Init => Machines!Init /\ HostsInHand
  <2> SUFFICES ASSUME Init PROVE Machines!Init /\ HostsInHand
      OBVIOUS
  <2>1. TurnPhase = "idle"
        BY TurnPhaseIs DEF Init
  <2> QED BY <2>1, TurnHeldIs, TurnMineIs
          DEF Init, Machines!Init, Machines!Idle, TurnUsable, HostsInHand
<1>2. TypeOK /\ TypeOK' /\ HostsInHand /\ OwnedUnlessFailed /\ [Next]_vars => TurnStep
      BY RunTurns, OthersTurn DEF Next, ProgramStep, CauseStep
<1>3. TypeOK /\ HostsInHand /\ [Next]_vars => HostsInHand'
      BY InHandStep
<1>4. Spec => []OwnedUnlessFailed
      BY TypeCorrect, OwnedInit, OwnedStep, PTL DEF Spec
<1> QED BY <1>1, <1>2, <1>3, <1>4, TypeCorrect, PTL
        DEF Spec, TurnsKept, TurnStep, Machines!Spec
=============================================================================
