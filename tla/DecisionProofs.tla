--------------------------- MODULE DecisionProofs ---------------------------
(***************************************************************************)
(* Why a cluster runs, and what its results are blamed on, for any          *)
(* installation.                                                            *)
(***************************************************************************)
EXTENDS ManagerProofs

Running == {"decide", "hosts", "solo", "tests", "shutdown"}

-----------------------------------------------------------------------------
(***************************************************************************)
(* Blame.  The causes of a run are pinned first in the open transaction,    *)
(* then, from its commit on, in the graph.                                  *)
(***************************************************************************)
Blamed(G) == \A r \in G : r.type = "DUE_TO" => Pinned(G, r.to)

AllPinned(G) == \A p \in causes \ {FirstRun} : Pinned(G, p)

CausesPinned ==
    /\ Blamed(graph) /\ Blamed(tx)
    /\ pc \in {"first", "pin"} => causes = {}
    /\ pc = "watch" => AllPinned(tx)
    /\ pc \in Running => AllPinned(graph)

LEMMA SaveChildRelsBlamed ==
    ASSUME NEW G, NEW parent, NEW kids, NEW type, type # "DUE_TO", Blamed(G)
    PROVE  /\ Blamed(SaveChildRels(G, parent, kids, type))
           /\ \A p : Pinned(G, p) => Pinned(SaveChildRels(G, parent, kids, type), p)
<1>1. G \subseteq SaveChildRels(G, parent, kids, type)
      BY DEF SaveChildRels
<1>2. \A r \in SaveChildRels(G, parent, kids, type) : r.type = "DUE_TO" => r \in G
      BY SaveChildRelsAdds DEF Rel
<1> QED BY <1>1, <1>2 DEF Blamed, Pinned

\* save_child_ll! forgets no perception.
LEMMA SaveChildLLsPinned ==
    ASSUME NEW G, NEW parents, NEW child, NEW type, NEW p, Pinned(G, p)
    PROVE  Pinned(SaveChildLLs(G, parents, child, type), p)
<1>1. PICK w \in WatchPoints : Rel(p, "IS_SNAPSHOT_OF", WatchPointNode(w)) \in G
      BY DEF Pinned
<1>2. Rel(p, "IS_SNAPSHOT_OF", WatchPointNode(w)) \in SaveChildLLs(G, parents, child, type)
      BY <1>1 DEF SaveChildLLs, OldTails, Rel
<1> QED BY <1>2 DEF Pinned

LEMMA SaveChildLLsBlamed ==
    ASSUME NEW G, NEW parents, NEW child, NEW type, Blamed(G),
           type = "DUE_TO" => \A p \in parents : Pinned(G, p)
    PROVE  Blamed(SaveChildLLs(G, parents, child, type))
<1> DEFINE H == SaveChildLLs(G, parents, child, type)
<1> SUFFICES ASSUME NEW r \in H, r.type = "DUE_TO" PROVE Pinned(H, r.to)
    BY DEF Blamed
<1>1. \/ r \in G
      \/ /\ type = "DUE_TO"
         /\ \E p \in parents : r = Rel(child, type, p)
  <2>1. \/ r \in G
        \/ \E p \in parents : r = Rel(child, type, p)
        \/ r \in {Rel(child, "PREV", q.to) : q \in OldTails(G, parents, child)}
        \/ r \in {Rel(p, "TAIL", child) : p \in parents}
        BY DEF SaveChildLLs
  <2>2. r \notin {Rel(child, "PREV", q.to) : q \in OldTails(G, parents, child)}
        BY DEF Rel
  <2>3. r \notin {Rel(p, "TAIL", child) : p \in parents}
        BY DEF Rel
  <2>4. ASSUME NEW p \in parents, r = Rel(child, type, p) PROVE type = "DUE_TO"
        BY <2>4 DEF Rel
  <2> QED BY <2>1, <2>2, <2>3, <2>4
<1>2. Pinned(G, r.to)
      BY <1>1 DEF Blamed, Rel
<1> QED BY <1>2, SaveChildLLsPinned

LEMMA RecordedBlamed ==
    ASSUME NEW e, NEW o, Blamed(graph), AllPinned(graph)
    PROVE  /\ Blamed(Recorded(e, o))
           /\ AllPinned(Recorded(e, o))
<1> DEFINE K == SaveChildLLs(graph, {ExecNode(e)}, ResultNode(e, o), "IS_RESULT_OF")
<1>1. Blamed(K)
      BY SaveChildLLsBlamed
<1>2. AllPinned(K)
      BY SaveChildLLsPinned DEF AllPinned
<1>3. Recorded(e, o) = SaveChildLLs(K, causes \ {FirstRun}, ResultNode(e, o), "DUE_TO")
      BY DEF Recorded, SaveChildLL
<1>4. Blamed(Recorded(e, o))
      BY <1>1, <1>2, <1>3, SaveChildLLsBlamed DEF AllPinned
<1>5. AllPinned(Recorded(e, o))
      BY <1>2, <1>3, SaveChildLLsPinned DEF AllPinned
<1> QED BY <1>4, <1>5

\* Saving a perception pins it.
LEMMA PerceptionSavedBlamed ==
    ASSUME NEW w \in WatchPoints, NEW v, Blamed(tx)
    PROVE  /\ Blamed(PerceptionSaved(w, v))
           /\ AllPinned(tx) => AllPinned(PerceptionSaved(w, v))
           /\ Pinned(PerceptionSaved(w, v), PerceptionNode(v))
<1>1. PerceptionSaved(w, v) =
          SaveChildLLs(tx, {WatchPointNode(w)}, PerceptionNode(v), "IS_SNAPSHOT_OF")
      BY DEF PerceptionSaved, SaveChildLL
<1>2. Blamed(PerceptionSaved(w, v))
      BY <1>1, SaveChildLLsBlamed
<1>3. AllPinned(tx) => AllPinned(PerceptionSaved(w, v))
      BY <1>1, SaveChildLLsPinned DEF AllPinned
<1>4. Pinned(PerceptionSaved(w, v), PerceptionNode(v))
      BY <1>1 DEF SaveChildLLs, Pinned
<1> QED BY <1>2, <1>3, <1>4

LEMMA BlameInit == Init => CausesPinned
BY DEF Init, CausesPinned, Blamed, AllPinned, Running

LEMMA BlameStep == TypeOK /\ CausesPinned /\ [Next]_vars => CausesPinned'
<1> SUFFICES ASSUME TypeOK, CausesPinned, [Next]_vars PROVE CausesPinned'
    OBVIOUS
<1> USE DEF CausesPinned, AllPinned, Running, graphVars, runVars, loopVars
<1>1. CASE UNCHANGED vars
      BY <1>1 DEF vars
<1>2. CASE SaveHost
  <2>1. Blamed(HostSaved(graph, MyHost))
        BY SaveChildRelsBlamed DEF HostSaved
  <2> QED BY <1>2, <2>1 DEF SaveHost
<1>3. CASE SaveCluster
  <2>1. Blamed(ClusterSaved(graph, cur, Mine))
        BY SaveChildRelsBlamed DEF ClusterSaved
  <2> QED BY <1>3, <2>1 DEF SaveCluster
<1>4. CASE Parse \/ ParseFails \/ Loaded \/ \E c \in Clusters : PickToSave(c)
      BY <1>4 DEF Parse, ParseFails, Loaded, PickToSave, vars
<1>5. CASE AskFirstRun
      BY <1>5 DEF AskFirstRun
<1>6. CASE PinWatchpoint
  <2>1. MyWatch \in WatchPoints
        BY <1>6, MyWatchType DEF PinWatchpoint
  <2> QED BY <1>6, <2>1, PerceptionSavedBlamed DEF PinWatchpoint
<1>7. CASE CheckWatchpoint
  <2>1. MyWatch \in WatchPoints
        BY <1>7, MyWatchType DEF CheckWatchpoint
  <2>2. CASE UNCHANGED <<tx, causes>>
        BY <1>7, <2>2 DEF CheckWatchpoint
  <2>3. CASE /\ tx' = PerceptionSaved(MyWatch, world[MyWatch])
             /\ causes' = causes \cup {PerceptionNode(world[MyWatch])}
        BY <1>7, <2>1, <2>3, PerceptionSavedBlamed DEF CheckWatchpoint
  <2> QED BY <1>7, <2>2, <2>3 DEF CheckWatchpoint
<1>8. CASE CommitPin \/ CommitCauses
      BY <1>8 DEF CommitPin, CommitCauses
<1>9. CASE CausesFail \/ Skip \/ Run
      BY <1>9 DEF CausesFail, Skip, Run, Return
<1>10. ASSUME NEW o \in Outcomes, SoloTest(o) \/ ClusterTest(o) PROVE CausesPinned'
  <2>1. CASE SoloTest(o)
        BY <2>1, RecordedBlamed DEF SoloTest
  <2>2. CASE ClusterTest(o)
        BY <2>2, RecordedBlamed DEF ClusterTest
  <2> QED BY <1>10, <2>1, <2>2
<1>11. CASE \/ SkipHost \/ BootHost \/ HostFails \/ SoloTestLost \/ HostTested \/ HostsDone
            \/ ClusterTestLost \/ TestsDone \/ Shutdown \/ ShutdownFails \/ Finish
      BY <1>11 DEF SkipHost, BootHost, HostFails, SoloTestLost, HostTested, HostsDone,
            ClusterTestLost, TestsDone, Shutdown, ShutdownFails, Finish, Return
<1>12. CASE LoopStep
      BY <1>12 DEF LoopStep, EndCycle, Stop, Gone, Wake, Reload, BuildTemplates, Pick, Blamed
<1>13. CASE Environment
      BY <1>13 DEF Environment, Crash, Gone, Restart, Hup, Change, Edit, Blamed
<1> QED BY <1>1, <1>2, <1>3, <1>4, <1>5, <1>6, <1>7, <1>8, <1>9, <1>10, <1>11, <1>12, <1>13
        DEF Next, ProgramStep, LoadStep, CauseStep, RunStep

\* A stored result is only ever blamed on a state that was committed as the state
\* some watchpoint was seen in.
THEOREM BlamedOnPinnedAlways == Spec => []BlamedOnPinned
<1>1. CausesPinned => BlamedOnPinned
      BY DEF CausesPinned, Blamed, BlamedOnPinned
<1> QED BY <1>1, TypeCorrect, BlameInit, BlameStep, PTL DEF Spec

-----------------------------------------------------------------------------
(***************************************************************************)
(* The decision to skip.  The TAIL of a watchpoint is what a finished run   *)
(* of the one cluster that watches it has seen, or is owed to its next run; *)
(* to keep that true, the transaction of the evaluation in progress must    *)
(* differ from the graph in what this evaluation has perceived only.        *)
(***************************************************************************)
TailOf(G, w, v) == IsTail(G, WatchPointNode(w), PerceptionNode(v))

AloneCovered ==
    \A c \in Clusters : WatchesAlone(c) =>
        \A cfg \in Configs : \A w \in Watched(cfg, c), v \in Values :
            TailOf(graph, w, v) => covered[c][w] = v \/ w \in owed[c]

\* What has been seen is what has been gone through.
SeenSoFar ==
    \A w \in WatchPoints : seen[w] # None => \E k \in 1..(i - 1) : w = Mine.watchpoints[k]

\* The transaction leaves what is not the cluster's alone ...
TxLeavesOthers ==
    \A w \in WatchPoints \ Items(Mine.watchpoints), v \in Values :
        TailOf(tx, w, v) => TailOf(graph, w, v)

\* ... and, of what is, makes what has been seen the TAIL.
TxFollows ==
    /\ \A w \in WatchPoints, v \in Values :
          /\ TailOf(tx, w, v) => TailOf(graph, w, v) \/ seen[w] = v
          /\ TailOf(graph, w, v) /\ seen[w] = None => TailOf(tx, w, v)
    /\ \A k \in 1..(i - 1) : /\ seen[Mine.watchpoints[k]] # None
                             /\ TailOf(tx, Mine.watchpoints[k], seen[Mine.watchpoints[k]])

\* A change that was found is a cause.
ChangesAreCauses ==
    \A k \in 1..(i - 1) :
        causes # {} \/ TailOf(graph, Mine.watchpoints[k], seen[Mine.watchpoints[k]])

Evaluating ==
    /\ i - 1 <= Len(Mine.watchpoints)
    /\ SeenSoFar
    /\ TxLeavesOthers
    /\ ListsEachOnce(Mine.watchpoints) => TxFollows
    /\ pc = "watch" /\ ListsEachOnce(Mine.watchpoints) => ChangesAreCauses

\* Once it is committed, what was seen is the TAIL in the graph.
Decided ==
    /\ \A w \in WatchPoints : seen[w] # None => w \in Items(Mine.watchpoints)
    /\ ListsEachOnce(Mine.watchpoints) =>
          \A w \in Items(Mine.watchpoints) : seen[w] # None /\ TailOf(graph, w, seen[w])

DecisionInv ==
    /\ AloneCovered
    /\ pc = "first" => seen = NothingSeen
    /\ pc \in {"pin", "watch"} => Evaluating
    /\ pc \in Running => Decided

\* What is not about watchpoints does not move their TAILs.
LEMMA ConfigSavedTails ==
    ASSUME NEW G, NEW parent, NEW kids, NEW type, type # "TAIL"
    PROVE  \A w, v : TailOf(SaveChildRels(G, parent, kids, type), w, v) <=> TailOf(G, w, v)
<1>1. G \subseteq SaveChildRels(G, parent, kids, type)
      BY DEF SaveChildRels
<1>2. \A r \in SaveChildRels(G, parent, kids, type) : r.type = "TAIL" => r \in G
      BY SaveChildRelsAdds DEF Rel
<1> QED BY <1>1, <1>2 DEF TailOf, IsTail, Rel

LEMMA HostSavedTails ==
    \A h, w, v : TailOf(HostSaved(graph, h), w, v) <=> TailOf(graph, w, v)
BY ConfigSavedTails DEF HostSaved

LEMMA ClusterSavedTails ==
    \A c, cc, w, v : TailOf(ClusterSaved(graph, c, cc), w, v) <=> TailOf(graph, w, v)
BY ConfigSavedTails DEF ClusterSaved

LEMMA OtherListsTails ==
    ASSUME NEW G, NEW parents, NEW child, NEW type, type # "TAIL",
           \A p \in parents : p.label # "WatchPoint"
    PROVE  \A w, v : TailOf(SaveChildLLs(G, parents, child, type), w, v) <=> TailOf(G, w, v)
<1> SUFFICES ASSUME NEW w, NEW v
             PROVE  TailOf(SaveChildLLs(G, parents, child, type), w, v) <=> TailOf(G, w, v)
    OBVIOUS
<1> DEFINE r == Rel(WatchPointNode(w), "TAIL", PerceptionNode(v))
<1>1. r.type = "TAIL" /\ r.from.label = "WatchPoint"
      BY DEF Rel, WatchPointNode, Node
<1>2. r \notin OldTails(G, parents, child)
      BY <1>1 DEF OldTails
<1>3. r \notin {Rel(child, type, p) : p \in parents}
      BY <1>1 DEF Rel
<1>4. r \notin {Rel(child, "PREV", q.to) : q \in OldTails(G, parents, child)}
      BY <1>1 DEF Rel
<1>5. r \notin {Rel(p, "TAIL", child) : p \in parents}
      BY <1>1 DEF Rel
<1>6. r \in SaveChildLLs(G, parents, child, type) <=> r \in G
      BY <1>2, <1>3, <1>4, <1>5 DEF SaveChildLLs
<1> QED BY <1>6 DEF TailOf, IsTail

LEMMA RecordedTails ==
    ASSUME TypeOK, NEW e, NEW o
    PROVE  \A w, v : TailOf(Recorded(e, o), w, v) <=> TailOf(graph, w, v)
<1>1. ExecNode(e).label # "WatchPoint"
      BY DEF ExecNode, Node
<1>2. \A p \in causes \ {FirstRun} : p.label # "WatchPoint"
      BY DEF TypeOK, PerceptionNode, Node
<1> QED BY <1>1, <1>2, OtherListsTails DEF Recorded, SaveChildLL

\* Saving a perception makes it the one TAIL of its watchpoint, and moves no other.
LEMMA PerceptionSavedTails ==
    ASSUME NEW w, NEW v
    PROVE  /\ TailOf(PerceptionSaved(w, v), w, v)
           /\ \A u : TailOf(PerceptionSaved(w, v), w, u) => u = v
           /\ \A x, u : x # w => (TailOf(PerceptionSaved(w, v), x, u) <=> TailOf(tx, x, u))
<1> DEFINE H == PerceptionSaved(w, v)
           old == OldTails(tx, {WatchPointNode(w)}, PerceptionNode(v))
<1>1. H = (tx \ old) \cup {Rel(PerceptionNode(v), "IS_SNAPSHOT_OF", p) : p \in {WatchPointNode(w)}}
                     \cup {Rel(PerceptionNode(v), "PREV", q.to) : q \in old}
                     \cup {Rel(p, "TAIL", PerceptionNode(v)) : p \in {WatchPointNode(w)}}
      BY DEF PerceptionSaved, SaveChildLL, SaveChildLLs
<1>2. TailOf(H, w, v)
      BY <1>1 DEF TailOf, IsTail
<1>3. ASSUME NEW x, NEW u
      PROVE  TailOf(H, x, u) <=> \/ x = w /\ u = v
                                 \/ /\ TailOf(tx, x, u)
                                    /\ Rel(WatchPointNode(x), "TAIL", PerceptionNode(u)) \notin old
  <2> DEFINE r == Rel(WatchPointNode(x), "TAIL", PerceptionNode(u))
  <2>1. r \notin {Rel(PerceptionNode(v), "IS_SNAPSHOT_OF", p) : p \in {WatchPointNode(w)}}
        BY DEF Rel
  <2>2. r \notin {Rel(PerceptionNode(v), "PREV", q.to) : q \in old}
        BY DEF Rel
  <2>3. r \in {Rel(p, "TAIL", PerceptionNode(v)) : p \in {WatchPointNode(w)}} <=> x = w /\ u = v
        BY DEF Rel, WatchPointNode, PerceptionNode, Node
  <2>4. r \in H <=> \/ x = w /\ u = v
                    \/ r \in tx /\ r \notin old
        BY <1>1, <2>1, <2>2, <2>3
  <2> QED BY <2>4 DEF TailOf, IsTail
<1>4. ASSUME NEW u, u # v, TailOf(tx, w, u)
      PROVE  Rel(WatchPointNode(w), "TAIL", PerceptionNode(u)) \in old
      BY <1>4 DEF OldTails, TailOf, IsTail, Rel, PerceptionNode, Node
<1>5. ASSUME NEW x, NEW u, x # w
      PROVE  Rel(WatchPointNode(x), "TAIL", PerceptionNode(u)) \notin old
      BY <1>5 DEF OldTails, Rel, WatchPointNode, Node
<1> QED BY <1>2, <1>3, <1>4, <1>5

\* OneTail, of a watchpoint's perceptions.
LEMMA OneTailOf ==
    ASSUME NEW G, OneTail(G), NEW w, NEW u, NEW v, TailOf(G, w, u), TailOf(G, w, v)
    PROVE  u = v
<1>1. PerceptionNode(u) = PerceptionNode(v)
      BY DEF OneTail, TailOf, IsTail, Rel, PerceptionNode, Node
<1> QED BY <1>1 DEF PerceptionNode, Node

\* DecisionInv looks at nothing but these.
LEMMA DecisionFrame ==
    ASSUME DecisionInv, UNCHANGED <<config, cur, i, seen, covered, owed>>,
           pc' = pc \/ pc' \notin {"first", "pin", "watch"} \cup Running
                    \/ (pc \in Running /\ pc' \in Running),
           pc' \in {"pin", "watch"} => tx' = tx /\ causes' = causes,
           \A w, v : TailOf(graph', w, v) <=> TailOf(graph, w, v)
    PROVE  DecisionInv'
<1>1. AloneCovered'
      BY DEF DecisionInv, AloneCovered
<1>2. pc' = "first" => seen' = NothingSeen
      BY DEF DecisionInv, Running
<1>3. ASSUME pc' \in {"pin", "watch"} PROVE Evaluating'
  <2>1. pc' = pc /\ tx' = tx /\ causes' = causes /\ Mine' = Mine /\ Evaluating
        BY <1>3 DEF DecisionInv, Running, Mine
  <2>2. SeenSoFar' /\ (ChangesAreCauses => ChangesAreCauses')
        BY <2>1 DEF Evaluating, SeenSoFar, ChangesAreCauses
  <2>3. TxLeavesOthers' /\ (TxFollows => TxFollows')
        BY <2>1 DEF Evaluating, TxLeavesOthers, TxFollows
  <2> QED BY <2>1, <2>2, <2>3 DEF Evaluating
<1>4. ASSUME pc' \in Running PROVE Decided'
      BY <1>4 DEF DecisionInv, Running, Decided, Mine
<1> QED BY <1>1, <1>2, <1>3, <1>4 DEF DecisionInv

\* ... and, of a run that is under way, not even at the position in its lists.
LEMMA DecisionRunFrame ==
    ASSUME DecisionInv, UNCHANGED <<config, cur, seen, covered, owed>>,
           pc \in Running, pc' \in Running,
           \A w, v : TailOf(graph', w, v) <=> TailOf(graph, w, v)
    PROVE  DecisionInv'
<1>1. AloneCovered'
      BY DEF DecisionInv, AloneCovered
<1>2. Decided'
      BY DEF DecisionInv, Decided, Mine
<1> QED BY <1>1, <1>2 DEF DecisionInv, Running

\* Away from an evaluation and a run, only AloneCovered counts.
LEMMA DecisionIdle ==
    ASSUME DecisionInv, UNCHANGED <<covered, owed>>,
           pc' \notin {"first", "pin", "watch"} \cup Running,
           \A w, v : TailOf(graph', w, v) <=> TailOf(graph, w, v)
    PROVE  DecisionInv'
<1>1. AloneCovered'
      BY DEF DecisionInv, AloneCovered
<1> QED BY <1>1 DEF DecisionInv, Running

LEMMA DecisionInit == Init => DecisionInv
BY DEF Init, DecisionInv, Running, AloneCovered, TailOf, IsTail

\* The cluster in hand has one watchpoint at each position.
LEMMA WatchType ==
    ASSUME TypeOK, pc \in {"pin", "watch"}
    PROVE  /\ cur \in Clusters /\ config \in Configs /\ i \in Nat \ {0}
           /\ Mine.watchpoints \in Seq(WatchPoints)
           /\ Items(Mine.watchpoints) = Watched(config, cur)
           /\ i <= Len(Mine.watchpoints) =>
                 /\ i \in DOMAIN Mine.watchpoints
                 /\ MyWatch \in Items(Mine.watchpoints)
                 /\ MyWatch \in WatchPoints
                 /\ world[MyWatch] \in Values
                 /\ world[MyWatch] # None
<1>1. cur # None
      BY DEF TypeOK, ControlOK
<1>2. Mine \in ClusterConfigs
      BY <1>1, MineType
<1>3. cur \in Clusters /\ config \in Configs /\ cur \in DOMAIN config.clusters
      BY <1>1, MineType DEF TypeOK, ControlOK
<1>4. Mine.watchpoints \in Seq(WatchPoints)
      BY <1>2 DEF ClusterConfigs
<1>5. Items(Mine.watchpoints) = Watched(config, cur)
      BY <1>3 DEF Watched, Mine
<1>6. i \in Nat \ {0}
      BY DEF TypeOK
<1>7. ASSUME i <= Len(Mine.watchpoints)
      PROVE  /\ i \in DOMAIN Mine.watchpoints
             /\ MyWatch \in Items(Mine.watchpoints)
             /\ MyWatch \in WatchPoints
      BY <1>4, <1>6, <1>7 DEF MyWatch, Items
<1>8. ASSUME i <= Len(Mine.watchpoints)
      PROVE  world[MyWatch] \in Values /\ world[MyWatch] # None
      BY <1>7, <1>8, ConstantsAssumption DEF TypeOK
<1> QED BY <1>3, <1>4, <1>5, <1>6, <1>7, <1>8

\* One more watchpoint is gone through: its perception is saved, or it is the
\* TAIL already.
LEMMA EvaluatingStep ==
    ASSUME TypeOK, Evaluating, pc \in {"pin", "watch"}, i <= Len(Mine.watchpoints),
           Perceive, i' = i + 1, UNCHANGED <<graph, config, cur, pc>>,
           causes # {} => causes' # {},
           pc = "watch" => causes' # {} \/ TailOf(graph, MyWatch, world[MyWatch]),
           \/ tx' = PerceptionSaved(MyWatch, world[MyWatch])
           \/ tx' = tx /\ TailOf(graph, MyWatch, world[MyWatch])
    PROVE  Evaluating'
<1> DEFINE x == MyWatch
           s == Mine.watchpoints
<1>1. /\ x \in WatchPoints /\ x \in Items(s) /\ world[x] \in Values /\ world[x] # None
      /\ s \in Seq(WatchPoints) /\ i \in DOMAIN s /\ i \in Nat \ {0} /\ x = s[i]
      BY WatchType DEF MyWatch
<1>2. Mine' = Mine
      BY DEF Mine
<1>3. /\ seen'[x] = world[x]
      /\ \A w \in WatchPoints : w # x => seen'[w] = seen[w]
      BY <1>1 DEF Perceive, TypeOK
<1>4. (i - 1 <= Len(s))'
      BY <1>1, <1>2
<1>5. SeenSoFar'
  <2> SUFFICES ASSUME NEW w \in WatchPoints, seen'[w] # None
               PROVE  \E k \in 1..i : w = s[k]
      BY <1>1, <1>2 DEF SeenSoFar
  <2>1. CASE w = x
        BY <1>1, <2>1
  <2>2. CASE w # x
    <3>1. PICK k \in 1..(i - 1) : w = s[k]
          BY <1>3, <2>2 DEF Evaluating, SeenSoFar
    <3> QED BY <1>1, <3>1
  <2> QED BY <2>1, <2>2
<1>6. \A w \in WatchPoints, v \in Values : w # x => (TailOf(tx', w, v) <=> TailOf(tx, w, v))
      BY PerceptionSavedTails
<1>7. TxLeavesOthers'
      BY <1>1, <1>2, <1>6 DEF Evaluating, TxLeavesOthers
<1>8. ASSUME ListsEachOnce(s) PROVE TxFollows'
  <2>1. TxFollows
        BY <1>8 DEF Evaluating
  <2>2. seen[x] = None
    <3>1. ASSUME NEW k \in 1..(i - 1) PROVE s[k] # x
      <4>1. k \in DOMAIN s /\ k # i
            BY <1>1
      <4> QED BY <1>1, <1>8, <4>1 DEF ListsEachOnce
    <3> QED BY <1>1, <3>1 DEF Evaluating, SeenSoFar
  <2>3. TailOf(tx', x, world[x])
        BY <1>1, <2>1, <2>2, PerceptionSavedTails DEF TxFollows
  <2>4. ASSUME NEW v \in Values, TailOf(tx', x, v)
        PROVE  TailOf(graph, x, v) \/ v = world[x]
    <3>1. CASE tx' = PerceptionSaved(x, world[x])
          BY <2>4, <3>1, PerceptionSavedTails
    <3>2. CASE tx' = tx
      <4>1. TailOf(graph, x, v) \/ seen[x] = v
            BY <1>1, <2>1, <2>4, <3>2 DEF TxFollows
      <4>2. v # None
            BY ConstantsAssumption
      <4> QED BY <2>2, <4>1, <4>2
    <3> QED BY <3>1, <3>2
  <2>5. ASSUME NEW w \in WatchPoints, NEW v \in Values
        PROVE  /\ TailOf(tx', w, v) => TailOf(graph', w, v) \/ seen'[w] = v
               /\ TailOf(graph', w, v) /\ seen'[w] = None => TailOf(tx', w, v)
    <3>1. CASE w = x
          BY <1>1, <1>3, <2>4, <3>1
    <3>2. CASE w # x
          BY <1>3, <1>6, <2>1, <3>2 DEF TxFollows
    <3> QED BY <3>1, <3>2
  <2>6. ASSUME NEW k \in 1..i
        PROVE  seen'[s[k]] # None /\ TailOf(tx', s[k], seen'[s[k]])
    <3>1. k \in DOMAIN s /\ s[k] \in WatchPoints
          BY <1>1
    <3>2. CASE k = i
          BY <1>1, <1>3, <2>3, <3>2
    <3>3. CASE k # i
      <4>1. k \in 1..(i - 1) /\ s[k] # x
            BY <1>1, <1>8, <3>1, <3>3 DEF ListsEachOnce
      <4>2. seen[s[k]] # None /\ TailOf(tx, s[k], seen[s[k]])
            BY <2>1, <4>1 DEF TxFollows
      <4>3. seen[s[k]] \in Values
            BY <3>1, <4>2 DEF TypeOK
      <4> QED BY <1>3, <1>6, <3>1, <4>1, <4>2, <4>3
    <3> QED BY <3>2, <3>3
  <2> QED BY <1>1, <1>2, <2>5, <2>6 DEF TxFollows
<1>9. ASSUME pc = "watch", ListsEachOnce(s) PROVE ChangesAreCauses'
  <2> SUFFICES ASSUME NEW k \in 1..i
               PROVE  causes' # {} \/ TailOf(graph, s[k], seen'[s[k]])
      BY <1>1, <1>2 DEF ChangesAreCauses
  <2>1. CASE k = i
        BY <1>1, <1>3, <1>9, <2>1
  <2>2. CASE k # i
    <3>1. k \in 1..(i - 1) /\ k \in DOMAIN s /\ s[k] \in WatchPoints
          BY <1>1, <2>2
    <3>2. s[k] # x
          BY <1>1, <1>9, <2>2, <3>1 DEF ListsEachOnce
    <3>3. causes # {} \/ TailOf(graph, s[k], seen[s[k]])
          BY <1>9, <3>1 DEF Evaluating, ChangesAreCauses
    <3> QED BY <1>3, <3>1, <3>2, <3>3
  <2> QED BY <2>1, <2>2
<1> QED BY <1>2, <1>4, <1>5, <1>7, <1>8, <1>9 DEF Evaluating

\* The commit: the graph becomes the transaction, what it changed is owed.
LEMMA CommitStep ==
    ASSUME TypeOK, DecisionInv, pc \in {"pin", "watch"}, i > Len(Mine.watchpoints),
           Owe, graph' = tx, pc' = "decide", UNCHANGED <<config, cur, seen, covered>>,
           causes' # {} \/ (pc = "watch" /\ causes' = causes)
    PROVE  DecisionInv'
<1> DEFINE s == Mine.watchpoints
<1>1. /\ cur \in Clusters /\ config \in Configs /\ i \in Nat \ {0}
      /\ s \in Seq(WatchPoints) /\ Items(s) = Watched(config, cur)
      BY WatchType
<1>2. Mine' = Mine
      BY DEF Mine
<1>3. Evaluating
      BY DEF DecisionInv
<1>4. i - 1 = Len(s)
      BY <1>1, <1>3 DEF Evaluating
<1>5. \A w \in WatchPoints : seen[w] # None => w \in Items(s)
      BY <1>1, <1>3, <1>4 DEF Evaluating, SeenSoFar, Items
<1>6. ListsEachOnce(s) =>
          \A w \in Items(s) : seen[w] # None /\ TailOf(tx, w, seen[w])
      BY <1>1, <1>3, <1>4 DEF Evaluating, TxFollows, Items
<1>7. Decided'
      BY <1>2, <1>5, <1>6 DEF Decided
<1>8. /\ owed'[cur] = owed[cur] \cup
             {w \in Items(s) : causes' # {} /\ ~TailOf(graph, w, seen[w])}
      /\ \A c \in Clusters : c # cur => owed'[c] = owed[c]
      BY <1>1 DEF Owe, TypeOK, TailOf
<1>9. ASSUME NEW c \in Clusters, WatchesAlone(c), NEW cfg \in Configs,
             NEW w \in Watched(cfg, c), NEW v \in Values, TailOf(tx, w, v)
      PROVE  covered[c][w] = v \/ w \in owed'[c]
  <2>1. w \in WatchPoints
        BY ConfigsAssumption DEF Watched, ClusterConfigs, Items
  <2>2. TailOf(graph, w, v) => covered[c][w] = v \/ w \in owed[c]
        BY <1>9 DEF DecisionInv, AloneCovered
  <2>3. CASE c = cur
    <3>1. ListsEachOnce(s)
          BY <1>1, <1>9, <2>3 DEF WatchesAlone, Mine, TypeOK, ControlOK
    <3>2. TailOf(graph, w, v) \/ seen[w] = v
          BY <1>3, <1>9, <2>1, <3>1 DEF Evaluating, TxFollows
    <3>3. CASE TailOf(graph, w, v)
          BY <1>8, <2>2, <2>3, <3>3
    <3>4. CASE seen[w] = v /\ ~TailOf(graph, w, v)
      <4>1. w \in Items(s)
            BY <1>5, <2>1, <3>4, ConstantsAssumption
      <4>2. PICK k \in 1..(i - 1) : w = s[k]
            BY <1>1, <1>4, <4>1 DEF Items
      <4>3. causes' # {}
            BY <1>3, <3>1, <3>4, <4>2 DEF Evaluating, ChangesAreCauses
      <4> QED BY <1>8, <2>3, <3>4, <4>1, <4>3
    <3> QED BY <3>2, <3>3, <3>4
  <2>4. CASE c # cur
    <3>1. w \notin Items(s)
          BY <1>1, <1>9, <2>4 DEF WatchesAlone
    <3>2. TailOf(graph, w, v)
          BY <1>3, <1>9, <2>1, <3>1 DEF Evaluating, TxLeavesOthers
    <3> QED BY <1>8, <2>2, <2>4, <3>2
  <2> QED BY <2>3, <2>4
<1>10. AloneCovered'
      BY <1>9 DEF AloneCovered
<1> QED BY <1>7, <1>10 DEF DecisionInv, Running

\* A run that finishes has covered what it had seen.
LEMMA FinishStep ==
    ASSUME TypeOK, DecisionInv, GraphsInOrder, Finish
    PROVE  DecisionInv'
<1> DEFINE s == Mine.watchpoints
<1>1. cur \in Clusters /\ config \in Configs /\ cur \in DOMAIN config.clusters
      BY MineType DEF Finish, TypeOK, ControlOK
<1>2. Decided
      BY DEF DecisionInv, Running, Finish
<1>3. /\ \A w \in WatchPoints :
             covered'[cur][w] = IF seen[w] = None THEN covered[cur][w] ELSE seen[w]
      /\ owed'[cur] = owed[cur] \ Items(s)
      /\ \A c \in Clusters : c # cur => covered'[c] = covered[c] /\ owed'[c] = owed[c]
      BY <1>1 DEF Finish, TypeOK
<1>4. graph' = graph /\ pc' = "pick"
      BY DEF Finish, Return, graphVars
<1>5. ASSUME NEW c \in Clusters, WatchesAlone(c), NEW cfg \in Configs,
             NEW w \in Watched(cfg, c), NEW v \in Values, TailOf(graph, w, v)
      PROVE  covered'[c][w] = v \/ w \in owed'[c]
  <2>1. w \in WatchPoints
        BY ConfigsAssumption DEF Watched, ClusterConfigs, Items
  <2>2. covered[c][w] = v \/ w \in owed[c]
        BY <1>5 DEF DecisionInv, AloneCovered
  <2>3. CASE c # cur
        BY <1>3, <2>2, <2>3
  <2>4. CASE c = cur
    <3>1. ListsEachOnce(s)
          BY <1>1, <1>5, <2>4 DEF WatchesAlone, Mine
    <3>2. CASE seen[w] = None
      <4>1. w \notin Items(s)
            BY <1>2, <3>1, <3>2 DEF Decided
      <4> QED BY <1>3, <2>1, <2>2, <2>4, <3>2, <4>1
    <3>3. CASE seen[w] # None
      <4>1. w \in Items(s)
            BY <1>2, <2>1, <3>3 DEF Decided
      <4>2. TailOf(graph, w, seen[w])
            BY <1>2, <3>1, <4>1 DEF Decided
      <4>3. seen[w] = v
            BY <1>5, <4>2, OneTailOf DEF GraphsInOrder, InOrder
      <4> QED BY <1>3, <2>1, <2>4, <3>3, <4>3
    <3> QED BY <3>2, <3>3
  <2> QED BY <2>3, <2>4
<1>6. AloneCovered'
      BY <1>4, <1>5 DEF AloneCovered
<1> QED BY <1>4, <1>6 DEF DecisionInv, Running

LEMMA DecisionStep == TypeOK /\ GraphsInOrder /\ DecisionInv /\ [Next]_vars => DecisionInv'
<1> SUFFICES ASSUME TypeOK, GraphsInOrder, DecisionInv, [Next]_vars PROVE DecisionInv'
    OBVIOUS
<1> USE DEF graphVars, runVars, ghostVars, loopVars
<1>1. CASE UNCHANGED vars
      BY <1>1, DecisionFrame DEF vars
<1>2. CASE SaveHost
  <2>1. \A w, v : TailOf(graph', w, v) <=> TailOf(graph, w, v)
        BY <1>2, HostSavedTails DEF SaveHost
  <2> QED BY <1>2, <2>1, DecisionIdle DEF SaveHost, Running
<1>3. CASE SaveCluster
  <2>1. \A w, v : TailOf(graph', w, v) <=> TailOf(graph, w, v)
        BY <1>3, ClusterSavedTails DEF SaveCluster
  <2> QED BY <1>3, <2>1, DecisionIdle DEF SaveCluster, Running
<1>4. CASE Parse \/ Loaded \/ \E c \in Clusters : PickToSave(c)
      BY <1>4, DecisionIdle DEF Parse, Loaded, PickToSave, Running
<1>5. CASE ParseFails
      BY <1>5, DecisionFrame DEF ParseFails, vars
<1>6. CASE AskFirstRun
  <2>1. /\ seen = NothingSeen /\ tx' = graph /\ i' = 1 /\ pc' \in {"pin", "watch"}
        /\ UNCHANGED <<graph, seen, config, cur, covered, owed>>
        BY <1>6 DEF AskFirstRun, DecisionInv
  <2>2. Mine \in ClusterConfigs
        BY <1>6, MineType DEF AskFirstRun, TypeOK, ControlOK
  <2>3. Len(Mine.watchpoints) \in Nat
        BY <2>2 DEF ClusterConfigs
  <2>4. AloneCovered'
        BY <2>1 DEF DecisionInv, AloneCovered
  <2>5. Evaluating'
        BY <2>1, <2>3 DEF Evaluating, SeenSoFar, TxLeavesOthers, TxFollows, ChangesAreCauses,
                          NothingSeen, Mine
  <2> QED BY <2>1, <2>4, <2>5 DEF DecisionInv, Running
<1>7. CASE PinWatchpoint \/ CheckWatchpoint
  <2>1. /\ pc \in {"pin", "watch"} /\ i <= Len(Mine.watchpoints) /\ Perceive /\ i' = i + 1
        /\ UNCHANGED <<pc, graph, config, cur, covered, owed>>
        /\ causes # {} => causes' # {}
        /\ pc = "watch" => causes' # {} \/ TailOf(graph, MyWatch, world[MyWatch])
        BY <1>7 DEF PinWatchpoint, CheckWatchpoint, TailOf
  <2>2. \/ tx' = PerceptionSaved(MyWatch, world[MyWatch])
        \/ tx' = tx /\ TailOf(graph, MyWatch, world[MyWatch])
        BY <1>7 DEF PinWatchpoint, CheckWatchpoint, TailOf
  <2>3. Evaluating'
        BY <2>1, <2>2, EvaluatingStep DEF DecisionInv
  <2>4. AloneCovered'
        BY <2>1 DEF DecisionInv, AloneCovered
  <2> QED BY <2>1, <2>3, <2>4 DEF DecisionInv, Running
<1>8. CASE CommitPin \/ CommitCauses
      BY <1>8, CommitStep DEF CommitPin, CommitCauses
<1>9. CASE CausesFail \/ Skip
      BY <1>9, DecisionIdle DEF CausesFail, Skip, Return, Running
<1>10. CASE Run
      BY <1>10, DecisionRunFrame DEF Run, Running
<1>11. ASSUME NEW o \in Outcomes, SoloTest(o) \/ ClusterTest(o) PROVE DecisionInv'
  <2>1. \A w, v : TailOf(graph', w, v) <=> TailOf(graph, w, v)
        BY <1>11, RecordedTails DEF SoloTest, ClusterTest
  <2> QED BY <1>11, <2>1, DecisionRunFrame DEF SoloTest, ClusterTest, Running
<1>12. CASE \/ SkipHost \/ BootHost \/ SoloTestLost \/ HostTested \/ HostsDone
            \/ ClusterTestLost \/ TestsDone \/ Shutdown
      BY <1>12, DecisionRunFrame DEF SkipHost, BootHost, SoloTestLost, HostTested, HostsDone,
            ClusterTestLost, TestsDone, Shutdown, Running
<1>13. CASE HostFails \/ ShutdownFails
      BY <1>13, DecisionIdle DEF HostFails, ShutdownFails, Return, Running
<1>14. CASE Finish
      BY <1>14, FinishStep
<1>15. CASE EndCycle \/ Stop \/ Wake \/ Reload \/ \E T \in SUBSET Templates : BuildTemplates(T)
      BY <1>15, DecisionIdle DEF EndCycle, Stop, Gone, Wake, Reload, BuildTemplates, Running
<1>16. ASSUME NEW c \in Clusters, Pick(c) PROVE DecisionInv'
      BY <1>16 DEF Pick, DecisionInv, AloneCovered, Running
<1>17. CASE Crash \/ Restart
      BY <1>17, DecisionIdle DEF Crash, Gone, Restart, Running
<1>18. ASSUME NEW w \in WatchPoints, NEW v \in Values, Change(w, v) PROVE DecisionInv'
      BY <1>18, DecisionFrame DEF Change
<1>19. ASSUME NEW cfg \in Configs \cup {Broken}, Edit(cfg) PROVE DecisionInv'
      BY <1>19, DecisionFrame DEF Edit
<1>20. CASE Hup
      BY <1>20, DecisionFrame DEF Hup
<1> QED BY <1>1, <1>2, <1>3, <1>4, <1>5, <1>6, <1>7, <1>8, <1>9, <1>10, <1>11, <1>12,
           <1>13, <1>14, <1>15, <1>16, <1>17, <1>18, <1>19, <1>20
        DEF Next, ProgramStep, LoadStep, CauseStep, RunStep, LoopStep, Environment

\* A cluster that watches its watchpoints alone is left alone only when a finished
\* run has seen each of them as it is now, or the change is owed to it by a run
\* that was cut short.
THEOREM SkipIsTestedOrOwedAlways == Spec => []SkipIsTestedOrOwed
<1>1. TypeOK /\ DecisionInv => SkipIsTestedOrOwed
  <2> SUFFICES ASSUME TypeOK, DecisionInv, pc = "decide", WatchesAlone(cur),
                      NEW w \in Items(Mine.watchpoints)
               PROVE  covered[cur][w] = seen[w] \/ w \in owed[cur]
      BY DEF SkipIsTestedOrOwed, TestedNow
  <2>1. /\ cur \in Clusters /\ config \in Configs /\ cur \in DOMAIN config.clusters
        /\ Mine \in ClusterConfigs
        BY MineType DEF TypeOK, ControlOK
  <2>2. w \in Watched(config, cur) /\ w \in WatchPoints
        BY <2>1 DEF Watched, Mine, ClusterConfigs, Items
  <2>3. ListsEachOnce(Mine.watchpoints)
        BY <2>1 DEF WatchesAlone, Mine
  <2>4. seen[w] # None /\ TailOf(graph, w, seen[w])
        BY <2>3 DEF DecisionInv, Running, Decided
  <2>5. seen[w] \in Values
        BY <2>2, <2>4 DEF TypeOK
  <2> QED BY <2>1, <2>2, <2>4, <2>5 DEF DecisionInv, AloneCovered
<1> QED BY <1>1, TypeCorrect, GraphsAlwaysInOrder, DecisionInit, DecisionStep, PTL DEF Spec

\* What an evaluation has perceived is the latest there is in the committed graph
\* when it decides, and until the run it has decided on is over.
THEOREM PerceivedIsLatestAlways == Spec => []PerceivedIsLatest
<1>1. DecisionInv => PerceivedIsLatest
      BY DEF DecisionInv, Running, Decided, TailOf, PerceivedIsLatest
<1> QED BY <1>1, TypeCorrect, GraphsAlwaysInOrder, DecisionInit, DecisionStep, PTL DEF Spec

-----------------------------------------------------------------------------
(***************************************************************************)
(* The decision to run.  As long as nothing has failed, what a finished run *)
(* of the one cluster that watches a watchpoint has seen last *is* its      *)
(* TAIL, but for a run in progress, which has moved the TAIL already and is *)
(* not covered yet.  So a perception that is not the TAIL is news to it.    *)
(***************************************************************************)

\* Seen by the run in progress, which has not finished.
Unsettled(c, w) == c = cur /\ pc \in Running /\ causes # {} /\ seen[w] # None

CoveredIsTail ==
    \A c \in Clusters : WatchesAlone(c) =>
        \A cfg \in Configs : \A w \in Watched(cfg, c), v \in Values :
            covered[c][w] = v => TailOf(graph, w, v) \/ Unsettled(c, w)

\* The transaction takes no TAIL from what is not the cluster's ...
OthersStay ==
    pc \in {"pin", "watch"} =>
        \A w \in WatchPoints \ Items(Mine.watchpoints), v \in Values :
            TailOf(graph, w, v) => TailOf(tx, w, v)

\* ... and, without a cause, nothing from anybody.
NoCauseNoChange == pc = "watch" /\ causes = {} => tx = graph

\* A cause is a change: a failed query alone would make it one, too.
CausesAreChanges ==
    pc = "watch" /\ causes # {} /\ ListsEachOnce(Mine.watchpoints) =>
        \E k \in 1..(i - 1) : ~TailOf(graph, Mine.watchpoints[k], seen[Mine.watchpoints[k]])

DueInv ==
    /\ OthersStay
    /\ NoCauseNoChange
    /\ faults = 0 => CoveredIsTail /\ CausesAreChanges /\ RerunIsDue

LEMMA DueInit == Init => DueInv
<1> SUFFICES ASSUME Init PROVE DueInv
    OBVIOUS
<1>1. ASSUME NEW c \in Clusters, NEW w \in WatchPoints, NEW v \in Values
      PROVE  covered[c][w] # v
      BY ConstantsAssumption DEF Init, NothingSeen
<1>2. \A cfg \in Configs, c \in Clusters : Watched(cfg, c) \subseteq WatchPoints
      BY ConfigsAssumption DEF Watched, ClusterConfigs, Items
<1> QED BY <1>1, <1>2
        DEF Init, DueInv, OthersStay, NoCauseNoChange, CoveredIsTail, CausesAreChanges, RerunIsDue

\* DueInv looks at nothing but these.
LEMMA DueFrame ==
    ASSUME DueInv, UNCHANGED <<config, cur, i, seen, covered, causes, pc, graph, tx, faults>>
    PROVE  DueInv'
<1>1. Mine' = Mine /\ \A w : Unsettled(cur, w)' <=> Unsettled(cur, w)
      BY DEF Mine, Unsettled
<1> QED BY <1>1
        DEF DueInv, OthersStay, NoCauseNoChange, CoveredIsTail, CausesAreChanges, RerunIsDue,
            Unsettled, TestedNow

\* A run that goes on changes nothing for anybody.
LEMMA DueRunFrame ==
    ASSUME DueInv, UNCHANGED <<cur, config, seen, covered, causes>>,
           faults' = 0 => faults = 0,
           pc \in Running, pc' \in Running \ {"decide"},
           \A w, v : TailOf(graph', w, v) <=> TailOf(graph, w, v)
    PROVE  DueInv'
<1>1. OthersStay' /\ NoCauseNoChange' /\ CausesAreChanges' /\ RerunIsDue'
      BY DEF OthersStay, NoCauseNoChange, CausesAreChanges, RerunIsDue, Running
<1>2. ASSUME CoveredIsTail PROVE CoveredIsTail'
      BY <1>2 DEF CoveredIsTail, Unsettled
<1> QED BY <1>1, <1>2 DEF DueInv

\* Away from evaluations and runs; a run that fails has something failed.
LEMMA DueIdle ==
    ASSUME DueInv, covered' = covered,
           pc' \notin {"pin", "watch"} \cup Running,
           faults' = 0 => faults = 0 /\ (pc \notin Running \/ causes = {}),
           \A w, v : TailOf(graph', w, v) <=> TailOf(graph, w, v)
    PROVE  DueInv'
<1>1. OthersStay' /\ NoCauseNoChange' /\ CausesAreChanges' /\ RerunIsDue'
      BY DEF OthersStay, NoCauseNoChange, CausesAreChanges, RerunIsDue, Running
<1>2. ASSUME CoveredIsTail, pc \notin Running \/ causes = {} PROVE CoveredIsTail'
      BY <1>2 DEF CoveredIsTail, Unsettled
<1> QED BY <1>1, <1>2 DEF DueInv

\* One more watchpoint is gone through.
LEMMA DueLookStep ==
    ASSUME TypeOK, DecisionInv, CausesPinned, DueInv, PinWatchpoint \/ CheckWatchpoint
    PROVE  DueInv'
<1> DEFINE x == MyWatch
           s == Mine.watchpoints
<1> USE DEF ghostVars, envVars
<1>1. /\ pc \in {"pin", "watch"} /\ i <= Len(s) /\ Perceive /\ i' = i + 1
      /\ UNCHANGED <<pc, graph, config, cur, covered>>
      BY DEF PinWatchpoint, CheckWatchpoint
<1>2. /\ x \in WatchPoints /\ x \in Items(s) /\ i \in DOMAIN s /\ i \in Nat \ {0}
      /\ s \in Seq(WatchPoints) /\ x = s[i]
      BY <1>1, WatchType DEF MyWatch
<1>3. Mine' = Mine
      BY <1>1 DEF Mine
<1>4. /\ seen'[x] = world[x]
      /\ \A w \in WatchPoints : w # x => seen'[w] = seen[w]
      BY <1>1, <1>2 DEF Perceive, TypeOK
<1>5. tx' = tx \/ tx' = PerceptionSaved(x, world[x])
      BY DEF PinWatchpoint, CheckWatchpoint
<1>6. OthersStay'
      BY <1>1, <1>2, <1>3, <1>5, PerceptionSavedTails DEF DueInv, OthersStay
<1>7. NoCauseNoChange'
      BY <1>1 DEF DueInv, NoCauseNoChange, PinWatchpoint, CheckWatchpoint
<1>8. faults' = 0 => faults = 0 /\ ~Fault
      BY ConstantsAssumption DEF Fault, TypeOK, PinWatchpoint, CheckWatchpoint
<1>9. ASSUME CoveredIsTail PROVE CoveredIsTail'
      BY <1>1, <1>9 DEF CoveredIsTail, Unsettled, Running
<1>10. ASSUME faults' = 0, CausesAreChanges PROVE CausesAreChanges'
  <2> SUFFICES ASSUME pc = "watch", causes' # {}, ListsEachOnce(s)
               PROVE  \E k \in 1..i : ~TailOf(graph, s[k], seen'[s[k]])
      BY <1>1, <1>2, <1>3 DEF CausesAreChanges
  <2>1. CASE causes' = causes
    <3>1. PICK k \in 1..(i - 1) : ~TailOf(graph, s[k], seen[s[k]])
          BY <1>10, <2>1 DEF CausesAreChanges
    <3>2. k \in 1..i /\ k \in DOMAIN s /\ k # i
          BY <1>2
    <3>3. s[k] # x /\ s[k] \in WatchPoints
          BY <1>2, <3>2 DEF ListsEachOnce
    <3> QED BY <1>4, <3>1, <3>2, <3>3
  <2>2. CASE ~TailOf(graph, x, world[x])
        BY <1>2, <1>4, <2>2
  <2>3. causes' = causes \/ ~TailOf(graph, x, world[x])
        BY <1>8, <1>10 DEF CheckWatchpoint, PinWatchpoint, TailOf
  <2> QED BY <2>1, <2>2, <2>3
<1>11. RerunIsDue'
      BY <1>1 DEF RerunIsDue
<1> QED BY <1>6, <1>7, <1>8, <1>9, <1>10, <1>11 DEF DueInv

\* The commit: what was covered stays the TAIL, or has been seen anew.
LEMMA DueCommitStep ==
    ASSUME TypeOK, DecisionInv, DueInv, pc \in {"pin", "watch"}, i > Len(Mine.watchpoints),
           graph' = tx, pc' = "decide", UNCHANGED <<config, cur, seen, covered, faults>>,
           causes' = {FirstRun} \/ (pc = "watch" /\ causes' = causes)
    PROVE  DueInv'
<1> DEFINE s == Mine.watchpoints
<1>1. /\ cur \in Clusters /\ config \in Configs /\ cur \in DOMAIN config.clusters
      /\ i \in Nat \ {0} /\ s \in Seq(WatchPoints) /\ Items(s) = Watched(config, cur)
      BY WatchType DEF TypeOK, ControlOK
<1>2. Evaluating /\ i - 1 = Len(s)
      BY <1>1 DEF DecisionInv, Evaluating
<1>3. OthersStay' /\ NoCauseNoChange' /\ CausesAreChanges'
      BY DEF OthersStay, NoCauseNoChange, CausesAreChanges
<1>4. ASSUME NEW c \in Clusters, WatchesAlone(c), NEW cfg \in Configs,
             NEW w \in Watched(cfg, c), NEW v \in Values,
             TailOf(graph, w, v)
      PROVE  TailOf(tx, w, v) \/ Unsettled(c, w)'
  <2>1. w \in WatchPoints
        BY ConfigsAssumption DEF Watched, ClusterConfigs, Items
  <2>2. CASE c # cur
    <3>1. w \notin Items(s)
          BY <1>1, <1>4, <2>2 DEF WatchesAlone
    <3> QED BY <1>4, <2>1, <3>1 DEF DueInv, OthersStay
  <2>3. CASE c = cur /\ seen[w] = None
    <3>1. ListsEachOnce(s)
          BY <1>1, <1>4, <2>3 DEF WatchesAlone, Mine
    <3> QED BY <1>2, <1>4, <2>1, <2>3, <3>1 DEF Evaluating, TxFollows
  <2>4. CASE c = cur /\ seen[w] # None /\ causes' # {}
        BY <2>4 DEF Unsettled, Running
  <2>5. CASE causes' = {}
    <3>1. graph = tx
          BY <2>5 DEF DueInv, NoCauseNoChange
    <3> QED BY <1>4, <3>1
  <2> QED BY <2>2, <2>3, <2>4, <2>5
<1>5. ASSUME CoveredIsTail PROVE CoveredIsTail'
  <2>1. \A c, w : ~Unsettled(c, w)
        BY DEF Unsettled, Running
  <2> QED BY <1>4, <1>5, <2>1 DEF CoveredIsTail
<1>6. ASSUME CoveredIsTail, CausesAreChanges PROVE RerunIsDue'
  <2> SUFFICES ASSUME causes' \notin {{}, {FirstRun}}, WatchesAlone(cur)
               PROVE  \E w \in Items(s) : covered[cur][w] # seen[w]
    <3>1. Mine' = Mine
          BY DEF Mine
    <3> QED BY <3>1 DEF RerunIsDue, TestedNow
  <2>1. ListsEachOnce(s) /\ pc = "watch" /\ causes # {}
        BY <1>1 DEF WatchesAlone, Mine
  <2>2. PICK k \in 1..(i - 1) : ~TailOf(graph, s[k], seen[s[k]])
        BY <1>6, <2>1 DEF CausesAreChanges
  <2>3. s[k] \in Items(s) /\ s[k] \in WatchPoints
        BY <1>1, <1>2 DEF Items
  <2>4. seen[s[k]] \in Values
        BY <1>2, <2>1, <2>3 DEF Evaluating, TxFollows, TypeOK
  <2>5. ~Unsettled(cur, s[k])
        BY DEF Unsettled, Running
  <2>6. covered[cur][s[k]] # seen[s[k]]
        BY <1>1, <1>6, <2>2, <2>3, <2>4, <2>5 DEF CoveredIsTail
  <2> QED BY <2>3, <2>6
<1> QED BY <1>3, <1>5, <1>6 DEF DueInv

\* A run that finishes has covered what it had made the TAIL.
LEMMA DueFinishStep ==
    ASSUME TypeOK, DecisionInv, DueInv, Finish
    PROVE  DueInv'
<1> DEFINE s == Mine.watchpoints
<1>1. cur \in Clusters /\ config \in Configs /\ cur \in DOMAIN config.clusters
      BY MineType DEF Finish, TypeOK, ControlOK
<1>2. Decided
      BY DEF DecisionInv, Running, Finish
<1>3. /\ \A w \in WatchPoints :
             covered'[cur][w] = IF seen[w] = None THEN covered[cur][w] ELSE seen[w]
      /\ \A c \in Clusters : c # cur => covered'[c] = covered[c]
      BY <1>1 DEF Finish, TypeOK
<1>4. graph' = graph /\ pc' = "pick" /\ faults' = faults
      BY DEF Finish, Return, graphVars
<1>5. OthersStay' /\ NoCauseNoChange' /\ CausesAreChanges' /\ RerunIsDue'
      BY <1>4 DEF OthersStay, NoCauseNoChange, CausesAreChanges, RerunIsDue
<1>6. ASSUME CoveredIsTail,
             NEW c \in Clusters, WatchesAlone(c), NEW cfg \in Configs,
             NEW w \in Watched(cfg, c), NEW v \in Values, covered'[c][w] = v
      PROVE  TailOf(graph, w, v)
  <2>1. w \in WatchPoints
        BY ConfigsAssumption DEF Watched, ClusterConfigs, Items
  <2>2. CASE c = cur /\ seen[w] # None
    <3>1. ListsEachOnce(s)
          BY <1>1, <1>6, <2>2 DEF WatchesAlone, Mine
    <3>2. w \in Items(s)
          BY <1>2, <2>1, <2>2 DEF Decided
    <3> QED BY <1>2, <1>3, <1>6, <2>1, <2>2, <3>1, <3>2 DEF Decided
  <2>3. CASE c # cur \/ seen[w] = None
    <3>1. covered[c][w] = v
          BY <1>3, <1>6, <2>1, <2>3
    <3>2. ~Unsettled(c, w)
          BY <2>3 DEF Unsettled
    <3> QED BY <1>6, <3>1, <3>2 DEF CoveredIsTail
  <2> QED BY <2>2, <2>3
<1>7. ASSUME CoveredIsTail PROVE CoveredIsTail'
      BY <1>4, <1>6, <1>7 DEF CoveredIsTail
<1> QED BY <1>4, <1>5, <1>7 DEF DueInv

LEMMA DueStep ==
    TypeOK /\ DecisionInv /\ CausesPinned /\ DueInv /\ [Next]_vars => DueInv'
<1> SUFFICES ASSUME TypeOK, DecisionInv, CausesPinned, DueInv, [Next]_vars PROVE DueInv'
    OBVIOUS
<1> USE DEF graphVars, runVars, ghostVars, loopVars, envVars
<1>1. ~(Fault /\ faults' = 0)
      BY ConstantsAssumption DEF Fault, TypeOK
<1>2. CASE UNCHANGED vars
      BY <1>2, DueFrame DEF vars
<1>3. CASE SaveHost
  <2>1. \A w, v : TailOf(graph', w, v) <=> TailOf(graph, w, v)
        BY <1>3, HostSavedTails DEF SaveHost
  <2> QED BY <1>3, <2>1, DueIdle DEF SaveHost, Running
<1>4. CASE SaveCluster
  <2>1. \A w, v : TailOf(graph', w, v) <=> TailOf(graph, w, v)
        BY <1>4, ClusterSavedTails DEF SaveCluster
  <2> QED BY <1>4, <2>1, DueIdle DEF SaveCluster, Running
<1>5. CASE Parse \/ Loaded \/ \E c \in Clusters : PickToSave(c)
      BY <1>5, DueIdle DEF Parse, Loaded, PickToSave, Running
<1>6. CASE ParseFails
      BY <1>6, DueFrame DEF ParseFails, vars
<1>7. CASE AskFirstRun
  <2>1. /\ tx' = graph /\ graph' = graph /\ causes' = {} /\ pc' \in {"pin", "watch"}
        /\ covered' = covered
        BY <1>7 DEF AskFirstRun, CausesPinned
  <2>2. OthersStay' /\ NoCauseNoChange' /\ CausesAreChanges' /\ RerunIsDue'
        BY <2>1 DEF OthersStay, NoCauseNoChange, CausesAreChanges, RerunIsDue
  <2>3. ASSUME CoveredIsTail PROVE CoveredIsTail'
        BY <1>7, <2>1, <2>3 DEF AskFirstRun, CoveredIsTail, Unsettled, Running
  <2>4. faults' = 0 => faults = 0
        BY <1>1, <1>7 DEF AskFirstRun
  <2> QED BY <2>2, <2>3, <2>4 DEF DueInv
<1>8. CASE PinWatchpoint \/ CheckWatchpoint
      BY <1>8, DueLookStep
<1>9. CASE CommitPin \/ CommitCauses
      BY <1>9, DueCommitStep DEF CommitPin, CommitCauses
<1>10. CASE CausesFail \/ HostFails \/ ShutdownFails
      BY <1>1, <1>10, DueIdle DEF CausesFail, HostFails, ShutdownFails, Return, Running
<1>11. CASE Skip
      BY <1>11, DueIdle DEF Skip, Return, Running
<1>12. ASSUME NEW o \in Outcomes, SoloTest(o) \/ ClusterTest(o) PROVE DueInv'
  <2>1. \A w, v : TailOf(graph', w, v) <=> TailOf(graph, w, v)
        BY <1>12, RecordedTails DEF SoloTest, ClusterTest
  <2> QED BY <1>12, <2>1, DueRunFrame DEF SoloTest, ClusterTest, Running
<1>13. CASE \/ Run \/ SkipHost \/ BootHost \/ SoloTestLost \/ HostTested \/ HostsDone
            \/ ClusterTestLost \/ TestsDone \/ Shutdown
      BY <1>1, <1>13, DueRunFrame
      DEF Run, SkipHost, BootHost, SoloTestLost, HostTested, HostsDone, ClusterTestLost,
          TestsDone, Shutdown, Running
<1>14. CASE Finish
      BY <1>14, DueFinishStep
<1>15. CASE \/ EndCycle \/ Stop \/ Wake \/ Reload
            \/ \E T \in SUBSET Templates : BuildTemplates(T)
            \/ \E c \in Clusters : Pick(c)
      BY <1>1, <1>15, DueIdle
      DEF EndCycle, Stop, Gone, Wake, Reload, BuildTemplates, Pick, Running
<1>16. CASE Crash \/ Restart
      BY <1>1, <1>16, DueIdle DEF Crash, Gone, Restart, Running
<1>17. CASE \/ Hup
            \/ \E w \in WatchPoints, v \in Values : Change(w, v)
            \/ \E cfg \in Configs \cup {Broken} : Edit(cfg)
      BY <1>17, DueFrame DEF Hup, Change, Edit
<1> QED BY <1>2, <1>3, <1>4, <1>5, <1>6, <1>7, <1>8, <1>9, <1>10, <1>11, <1>12, <1>13, <1>14,
           <1>15, <1>16, <1>17
        DEF Next, ProgramStep, LoadStep, CauseStep, RunStep, LoopStep, Environment

\* As long as nothing has failed, a cluster that watches its watchpoints alone is
\* run again only when one of them is not as its finished runs have seen it.
THEOREM RerunIsDueAlways == Spec => []RerunIsDue
<1>1. DueInv => RerunIsDue
      BY DEF DueInv, RerunIsDue
<1> QED BY <1>1, TypeCorrect, GraphsAlwaysInOrder, BlameInit, BlameStep,
           DecisionInit, DecisionStep, DueInit, DueStep, PTL DEF Spec
=============================================================================
