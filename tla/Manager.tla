------------------------------- MODULE Manager -------------------------------
(***************************************************************************)
(* flota's main loop: load the configuration, build the templates, and for  *)
(* each cluster decide whether its tests have to run again, boot its hosts, *)
(* run their tests and shut them down.  What the program remembers from one *)
(* cycle, or one process, to the next is the graph database and the         *)
(* libvirt domains that are still running.                                  *)
(*                                                                          *)
(* Sources: src/main.rs (the two loops), src/flota/manager/mod.rs,          *)
(* src/flota/config/{mod,cluster/mod,cluster/host}.rs, and, as one step,    *)
(* src/flota/entity/host.rs and src/flota/entity/template.rs.               *)
(***************************************************************************)
EXTENDS Naturals, Sequences, FiniteSets, FlotaGraph

CONSTANTS
    Clusters,       \* cluster names; a Cluster node is known by its name only
    WatchPoints,    \* git repositories and files to watch
    Values,         \* what a watchpoint can be perceived to hold
    Hosts,          \* host names
    Templates,      \* host templates
    Execs,          \* test commands
    Outcomes,       \* what a command can print and return
    Configs,        \* the configurations the file may hold
    Broken,         \* a file that is not valid toml, or lacks a section
    TemplateOf,     \* the template of a host
    Solo,           \* solo_pre_tests, solo_tests and solo_post_tests of a host
    ExecHost,       \* the host a cluster test names, None if it names none
    SshExecs,       \* the commands of type ssh; templates offer no other seed
    None,
    MaxChanges,     \* bound on changes of watched things
    MaxEdits,       \* bound on edits of the configuration file
    MaxFaults       \* bound on failures of any kind

ClusterConfigs ==
    [watchpoints : Seq(WatchPoints), hosts : Seq(Hosts), tests : Seq(Execs)]

ASSUME ConstantsAssumption ==
    /\ TemplateOf \in [Hosts -> Templates]
    /\ Solo \in [Hosts -> Seq(Execs)]
    /\ ExecHost \in [Execs -> Hosts \cup {None}]
    /\ SshExecs \subseteq Execs
    /\ None \notin Clusters \cup Hosts \cup Values
    /\ MaxChanges \in Nat /\ MaxEdits \in Nat /\ MaxFaults \in Nat

ASSUME ConfigsAssumption ==
    /\ Broken \notin Configs
    /\ \A cfg \in Configs :
          /\ cfg.daemonized \in BOOLEAN
          /\ DOMAIN cfg.clusters \subseteq Clusters
          /\ \A c \in DOMAIN cfg.clusters : cfg.clusters[c] \in ClusterConfigs

VARIABLES
    world,          \* what each watchpoint really holds
    file,           \* the configuration file
    reload,         \* CONFIG_RELOAD, set by the SIGHUP handler
    graph,          \* the committed graph
    up,             \* the hosts whose domain is running
    pc,             \* where the program is
    config,         \* the configuration it works with
    todo,           \* the clusters the current loop has left
    cur,            \* the cluster in hand
    i, j,           \* positions in its lists
    templates,      \* the templates built in this cycle
    tx,             \* the graph as the open transaction sees it
    causes,         \* why the cluster runs
    held,           \* the hosts vector of run_cluster
    seen,           \* ghost: what this evaluation perceived
    covered,        \* ghost: what each cluster's finished runs had perceived
    ranWith,        \* ghost: the configuration of its last finished run
    owed,           \* ghost: changes recorded for runs that have not finished
    changes, edits, faults

graphVars == <<graph, tx>>
envVars   == <<world, file, changes, edits>>
loopVars  == <<pc, config, todo, cur, i, j, templates>>
runVars   == <<causes, held, seen>>
ghostVars == <<covered, ranWith, owed>>
vars == <<world, file, reload, graph, up, pc, config, todo, cur, i, j,
          templates, tx, causes, held, seen, covered, ranWith, owed,
          changes, edits, faults>>

-----------------------------------------------------------------------------
ClusterNode(c)    == Node("Cluster", c)
HostNode(h)       == Node("Host", h)
TemplateNode(t)   == Node("Template", t)
ExecNode(e)       == Node("Exec", e)
WatchPointNode(w) == Node("WatchPoint", w)

\* Both are MERGEd by content: two watchpoints that hold the same thing share
\* a perception, and a command that ends twice in the same way has one result.
PerceptionNode(v) == Node("WatchPointPerception", v)
ResultNode(e, o)  == Node("ExecResult", <<e, o>>)

\* Cause::FirstRun; a Cause::WatchPoint is the perception that it names.
FirstRun == Node("Cause", "FirstRun")

Items(s) == {s[k] : k \in DOMAIN s}

Mine        == config.clusters[cur]
MyHost      == Mine.hosts[i]
MyTest      == Mine.tests[i]
MySoloTest  == Solo[MyHost][j]
MyWatch     == Mine.watchpoints[i]

Phases == {"init", "load", "validate", "build", "pick", "first", "pin", "watch",
           "decide", "hosts", "solo", "tests", "shutdown", "sleep", "down"}

NothingSeen == [w \in WatchPoints |-> None]

AllNodes ==
    {ClusterNode(c) : c \in Clusters} \cup {HostNode(h) : h \in Hosts}
    \cup {TemplateNode(t) : t \in Templates} \cup {ExecNode(e) : e \in Execs}
    \cup {WatchPointNode(w) : w \in WatchPoints} \cup {PerceptionNode(v) : v \in Values}
    \cup {ResultNode(e, o) : e \in Execs, o \in Outcomes}

RelTypes == {"WATCH", "EXEC", "DEFINE", "BACKED_BY", "PREV", "TAIL"} \cup ListTypes

Relations == [from : AllNodes, type : RelTypes, to : AllNodes]

\* There is a configuration but at the very top and in a dead process, and a
\* cluster in hand, one of the configuration's, while it is being dealt with.
ControlOK ==
    /\ pc \notin {"init", "down"} => config \in Configs /\ todo \subseteq DOMAIN config.clusters
    /\ pc \in {"init", "build", "pick", "sleep", "down"} => cur = None
    /\ pc \in {"first", "pin", "watch", "decide", "hosts", "solo", "tests", "shutdown"} => cur # None
    /\ cur # None => cur \in DOMAIN config.clusters
    /\ pc = "solo" => i <= Len(Mine.hosts)

TypeOK ==
    /\ world \in [WatchPoints -> Values]
    /\ file \in Configs \cup {Broken}
    /\ reload \in BOOLEAN
    /\ up \subseteq Hosts
    /\ pc \in Phases
    /\ config \in Configs \cup {None}
    /\ todo \subseteq Clusters
    /\ cur \in Clusters \cup {None}
    /\ i \in Nat \ {0} /\ j \in Nat \ {0}
    /\ templates \subseteq Templates
    /\ causes \subseteq {FirstRun} \cup {PerceptionNode(v) : v \in Values}
    /\ held \in Seq(Hosts)
    /\ seen \in [WatchPoints -> Values \cup {None}]
    /\ covered \in [Clusters -> [WatchPoints -> Values \cup {None}]]
    /\ ranWith \in [Clusters -> ClusterConfigs \cup {None}]
    /\ owed \in [Clusters -> SUBSET WatchPoints]
    /\ changes \in 0..MaxChanges /\ edits \in 0..MaxEdits /\ faults \in 0..MaxFaults
    /\ graph \subseteq Relations /\ tx \subseteq Relations
    /\ ControlOK

Init ==
    /\ world \in [WatchPoints -> Values]
    /\ file \in Configs
    /\ reload = FALSE
    /\ graph = {} /\ tx = {}
    /\ up = {}
    /\ pc = "init" /\ config = None /\ todo = {} /\ cur = None
    /\ i = 1 /\ j = 1 /\ templates = {}
    /\ causes = {} /\ held = <<>> /\ seen = NothingSeen
    /\ covered = [c \in Clusters |-> NothingSeen]
    /\ ranWith = [c \in Clusters |-> None]
    /\ owed = [c \in Clusters |-> {}]
    /\ changes = 0 /\ edits = 0 /\ faults = 0

\* One of the failures the run is allowed.
Fault == faults < MaxFaults /\ faults' = faults + 1

-----------------------------------------------------------------------------
(***************************************************************************)
(* Loading the configuration.  Config::from_toml saves every host and then  *)
(* its cluster to the graph, each in a transaction of its own; it does so   *)
(* too when the main loop only parses the file to see whether it is valid   *)
(* ("validate").  Whatever fails while saving is unwrapped: see Crash.      *)
(***************************************************************************)

\* 'init loop: read the file.
Parse ==
    /\ pc = "init"
    /\ file # Broken
    /\ pc' = "load"
    /\ config' = file
    /\ todo' = DOMAIN file.clusters
    /\ UNCHANGED <<envVars, reload, graphVars, up, cur, i, j, templates,
                   runVars, ghostVars, faults>>

\* An invalid file is read again 5 seconds later.
ParseFails ==
    /\ pc = "init"
    /\ file = Broken
    /\ UNCHANGED vars

PickToSave(c) ==
    /\ pc \in {"load", "validate"} /\ cur = None /\ c \in todo
    /\ cur' = c /\ i' = 1
    /\ UNCHANGED <<envVars, reload, graphVars, up, pc, config, todo, j, templates,
                   runVars, ghostVars, faults>>

HostSaved(G, h) ==
    SaveChildRels(SaveChildRels(G, HostNode(h), {TemplateNode(TemplateOf[h])}, "BACKED_BY"),
                  HostNode(h), {ExecNode(e) : e \in Items(Solo[h])}, "EXEC")

ClusterSaved(G, c, cc) ==
    LET watch == SaveChildRels(G, ClusterNode(c),
                     {WatchPointNode(w) : w \in Items(cc.watchpoints)}, "WATCH")
        tests == SaveChildRels(watch, ClusterNode(c),
                     {ExecNode(e) : e \in Items(cc.tests)}, "EXEC")
    IN  SaveChildRels(tests, ClusterNode(c), {HostNode(h) : h \in Items(cc.hosts)}, "DEFINE")

\* Host::save.
SaveHost ==
    /\ pc \in {"load", "validate"} /\ cur # None
    /\ i <= Len(Mine.hosts)
    /\ graph' = HostSaved(graph, MyHost)
    /\ i' = i + 1
    /\ UNCHANGED <<envVars, reload, tx, up, pc, config, todo, cur, j, templates,
                   runVars, ghostVars, faults>>

\* Cluster::save.
SaveCluster ==
    /\ pc \in {"load", "validate"} /\ cur # None
    /\ i > Len(Mine.hosts)
    /\ graph' = ClusterSaved(graph, cur, Mine)
    /\ todo' = todo \ {cur}
    /\ cur' = None
    /\ UNCHANGED <<envVars, reload, tx, up, pc, config, i, j, templates,
                   runVars, ghostVars, faults>>

\* The parsed configuration is used, or dropped for a second parse of the file.
Loaded ==
    /\ pc \in {"load", "validate"} /\ cur = None /\ todo = {}
    /\ \/ pc = "load" /\ pc' = "build" /\ UNCHANGED config
       \/ pc = "validate" /\ pc' = "init" /\ config' = None
    /\ UNCHANGED <<envVars, reload, graphVars, up, todo, cur, i, j, templates,
                   runVars, ghostVars, faults>>

-----------------------------------------------------------------------------
(***************************************************************************)
(* The 'cycle loop.                                                         *)
(***************************************************************************)

\* Template::new for each template; the ones that fail are left out.
BuildTemplates(T) ==
    /\ pc = "build"
    /\ \/ T = Templates /\ UNCHANGED faults
       \/ T # Templates /\ Fault
    /\ templates' = T
    /\ todo' = DOMAIN config.clusters
    /\ pc' = "pick"
    /\ UNCHANGED <<envVars, reload, graphVars, up, config, cur, i, j, runVars, ghostVars>>

\* Manager::run_cluster on the next cluster of the set, in whatever order.
Pick(c) ==
    /\ pc = "pick" /\ c \in todo
    /\ cur' = c /\ todo' = todo \ {c}
    /\ pc' = "first"
    /\ causes' = {} /\ held' = <<>> /\ seen' = NothingSeen
    /\ UNCHANGED <<envVars, reload, graphVars, up, config, i, j, templates, ghostVars, faults>>

\* run_cluster returns: Ok(true), Ok(false) and Err are all only logged.
Return == pc' = "pick" /\ cur' = None

\* A cluster's first run is one no result of its tests is stored before.
IsFirstRun(G, c) ==
    ~ \E t, res \in G : /\ t.type = "EXEC" /\ t.from = ClusterNode(c)
                        /\ res.type = "IS_RESULT_OF" /\ res.to = t.to

\* is_first_run: a failing query is not Ok(true), and so not a first run.
AskFirstRun ==
    /\ pc = "first"
    /\ \/ pc' = (IF IsFirstRun(graph, cur) THEN "pin" ELSE "watch") /\ UNCHANGED faults
       \/ pc' = "watch" /\ Fault
    /\ tx' = graph /\ i' = 1
    /\ UNCHANGED <<envVars, reload, graph, up, config, todo, cur, j, templates,
                   runVars, ghostVars>>

Perceive == seen' = [seen EXCEPT ![MyWatch] = world[MyWatch]]

PerceptionSaved(w, v) ==
    SaveChildLL(tx, WatchPointNode(w), PerceptionNode(v), "IS_SNAPSHOT_OF")

\* pin_cluster_watchpoints, one watchpoint.
PinWatchpoint ==
    /\ pc = "pin" /\ i <= Len(Mine.watchpoints)
    /\ Perceive
    /\ tx' = PerceptionSaved(MyWatch, world[MyWatch])
    /\ i' = i + 1
    /\ UNCHANGED <<envVars, reload, graph, up, pc, config, todo, cur, j, templates,
                   causes, held, ghostVars, faults>>

\* With causes to run, what the transaction records as changed is owed to the
\* cluster.
Owe ==
    owed' = [owed EXCEPT ![cur] = @ \cup
                {w \in Items(Mine.watchpoints) :
                    /\ causes' # {}
                    /\ ~IsTail(graph, WatchPointNode(w), PerceptionNode(seen[w]))}]

\* Not the code: the transaction with the pins is dropped.
CommitPin_Dropped ==
    /\ pc = "pin" /\ i > Len(Mine.watchpoints)
    /\ causes' = {FirstRun}
    /\ Owe
    /\ pc' = "decide"
    /\ UNCHANGED <<envVars, reload, graphVars, up, config, todo, cur, i, j, templates,
                   held, seen, covered, ranWith, faults>>

CommitPin ==
    /\ pc = "pin" /\ i > Len(Mine.watchpoints)
    /\ graph' = tx
    /\ causes' = {FirstRun}
    /\ Owe
    /\ pc' = "decide"
    /\ UNCHANGED <<envVars, reload, tx, up, config, todo, cur, i, j, templates,
                   held, seen, covered, ranWith, faults>>

\* Not the code: an unchanged watchpoint drops the causes found before it.
CheckWatchpoint_Forgets ==
    /\ pc = "watch" /\ i <= Len(Mine.watchpoints)
    /\ Perceive
    /\ IF IsTail(graph, WatchPointNode(MyWatch), PerceptionNode(world[MyWatch]))
       THEN causes' = {} /\ UNCHANGED tx
       ELSE /\ tx' = PerceptionSaved(MyWatch, world[MyWatch])
            /\ causes' = causes \cup {PerceptionNode(world[MyWatch])}
    /\ i' = i + 1
    /\ UNCHANGED <<envVars, reload, graph, up, pc, config, todo, cur, j, templates,
                   held, ghostVars, faults>>

\* Not the code: each change is committed as it is found.
CheckWatchpoint_Commits ==
    /\ pc = "watch" /\ i <= Len(Mine.watchpoints)
    /\ Perceive
    /\ IF IsTail(graph, WatchPointNode(MyWatch), PerceptionNode(world[MyWatch]))
       THEN UNCHANGED <<graph, tx, causes>>
       ELSE /\ tx' = PerceptionSaved(MyWatch, world[MyWatch])
            /\ graph' = tx'
            /\ causes' = causes \cup {PerceptionNode(world[MyWatch])}
    /\ i' = i + 1
    /\ UNCHANGED <<envVars, reload, up, pc, config, todo, cur, j, templates,
                   held, ghostVars, faults>>

\* cause_of_next_cluster_run, one watchpoint.  is_tail! asks the committed
\* graph; a failing query is not Ok(true), and so a change.
CheckWatchpoint ==
    /\ pc = "watch" /\ i <= Len(Mine.watchpoints)
    /\ Perceive
    /\ LET current == PerceptionNode(world[MyWatch])
           saved   == /\ tx' = PerceptionSaved(MyWatch, world[MyWatch])
                      /\ causes' = causes \cup {current}
       IN  \/ /\ IsTail(graph, WatchPointNode(MyWatch), current)
              /\ UNCHANGED <<tx, causes, faults>>
           \/ /\ ~IsTail(graph, WatchPointNode(MyWatch), current)
              /\ saved /\ UNCHANGED faults
           \/ saved /\ Fault
    /\ i' = i + 1
    /\ UNCHANGED <<envVars, reload, graph, up, pc, config, todo, cur, j, templates,
                   held, ghostVars>>

\* Not the code: the commit is left out, or its failure passed over.
CommitCauses_NoCommit ==
    /\ pc = "watch" /\ i > Len(Mine.watchpoints)
    /\ UNCHANGED runVars
    /\ Owe
    /\ pc' = "decide"
    /\ UNCHANGED <<envVars, reload, graphVars, up, config, todo, cur, i, j, templates,
                   covered, ranWith, faults>>

CommitCauses ==
    /\ pc = "watch" /\ i > Len(Mine.watchpoints)
    /\ graph' = tx
    /\ UNCHANGED runVars
    /\ Owe
    /\ pc' = "decide"
    /\ UNCHANGED <<envVars, reload, tx, up, config, todo, cur, i, j, templates,
                   covered, ranWith, faults>>

\* A statement, or the commit in cause_of_next_cluster_run, fails: run_cluster
\* returns Err, the server drops the transaction.
CausesFail ==
    /\ pc \in {"pin", "watch"}
    /\ Fault
    /\ Return
    /\ UNCHANGED <<envVars, reload, graphVars, up, config, todo, i, j, templates,
                   runVars, ghostVars>>

\* No cause: Ok(false).
Skip ==
    /\ pc = "decide" /\ causes = {}
    /\ Return
    /\ UNCHANGED <<envVars, reload, graphVars, up, config, todo, i, j, templates,
                   runVars, ghostVars, faults>>

Run ==
    /\ pc = "decide" /\ causes # {}
    /\ pc' = "hosts" /\ i' = 1
    /\ UNCHANGED <<envVars, reload, graphVars, up, config, todo, cur, j, templates,
                   runVars, ghostVars, faults>>

-----------------------------------------------------------------------------
(***************************************************************************)
(* run_cluster: the hosts, one after the other, each with its own tests.    *)
(***************************************************************************)

\* No template of the host's name was built: continue.
SkipHost ==
    /\ pc = "hosts" /\ i <= Len(Mine.hosts)
    /\ TemplateOf[MyHost] \notin templates
    /\ i' = i + 1
    /\ UNCHANGED <<envVars, reload, graphVars, up, pc, config, todo, cur, j, templates,
                   runVars, ghostVars, faults>>

\* Not the code: whether the template was built is not asked.
BootHost_AnyTemplate ==
    /\ pc = "hosts" /\ i <= Len(Mine.hosts)
    /\ up' = up \cup {MyHost}
    /\ pc' = "solo" /\ j' = 1
    /\ UNCHANGED <<envVars, reload, graphVars, config, todo, cur, i, templates,
                   runVars, ghostVars, faults>>

\* Host::new is Ok.
BootHost ==
    /\ pc = "hosts" /\ i <= Len(Mine.hosts)
    /\ TemplateOf[MyHost] \in templates
    /\ up' = up \cup {MyHost}
    /\ pc' = "solo" /\ j' = 1
    /\ UNCHANGED <<envVars, reload, graphVars, config, todo, cur, i, templates,
                   runVars, ghostVars, faults>>

\* Host::new is Err, before or after the domain was started: run_cluster
\* returns at once, and leaves the hosts it holds as they are.
HostFails ==
    /\ pc = "hosts" /\ i <= Len(Mine.hosts)
    /\ TemplateOf[MyHost] \in templates
    /\ Fault
    /\ up' \in {up, up \cup {MyHost}}
    /\ Return
    /\ UNCHANGED <<envVars, reload, graphVars, config, todo, i, j, templates,
                   runVars, ghostVars>>

\* Not the code: the transaction of a result is never committed.
Recorded_NotCommitted(e, o) == graph

\* The result of a command goes in front of the command's results, and of the
\* results of each perception that caused the run, in one transaction.
Recorded(e, o) ==
    SaveChildLLs(SaveChildLL(graph, ExecNode(e), ResultNode(e, o), "IS_RESULT_OF"),
                 causes \ {FirstRun}, ResultNode(e, o), "DUE_TO")

SoloTest(o) ==
    /\ pc = "solo" /\ j <= Len(Solo[MyHost])
    /\ MySoloTest \in SshExecs
    /\ graph' = Recorded(MySoloTest, o)
    /\ j' = j + 1
    /\ UNCHANGED <<envVars, reload, tx, up, pc, config, todo, cur, i, templates,
                   runVars, ghostVars, faults>>

\* The template has no seed of the command's type, or sess.exec is Err.
SoloTestLost ==
    /\ pc = "solo" /\ j <= Len(Solo[MyHost])
    /\ \/ MySoloTest \notin SshExecs /\ UNCHANGED faults
       \/ MySoloTest \in SshExecs /\ Fault
    /\ j' = j + 1
    /\ UNCHANGED <<envVars, reload, graphVars, up, pc, config, todo, cur, i, templates,
                   runVars, ghostVars>>

\* Not the code: the next host is tested, but never booted.
HostTested_NotBooted ==
    /\ pc = "solo" /\ j > Len(Solo[MyHost])
    /\ held' = Append(held, MyHost)
    /\ i' = i + 1
    /\ j' = 1
    /\ UNCHANGED <<envVars, reload, graphVars, up, pc, config, todo, cur, templates,
                   causes, seen, ghostVars, faults>>

HostTested ==
    /\ pc = "solo" /\ j > Len(Solo[MyHost])
    /\ held' = Append(held, MyHost)
    /\ i' = i + 1
    /\ pc' = "hosts"
    /\ UNCHANGED <<envVars, reload, graphVars, up, config, todo, cur, j, templates,
                   causes, seen, ghostVars, faults>>

HostsDone ==
    /\ pc = "hosts" /\ i > Len(Mine.hosts)
    /\ pc' = "tests" /\ i' = 1
    /\ UNCHANGED <<envVars, reload, graphVars, up, config, todo, cur, j, templates,
                   runVars, ghostVars, faults>>

-----------------------------------------------------------------------------
(***************************************************************************)
(* run_cluster_test, and the shutdown of the hosts.                         *)
(***************************************************************************)

Runnable(e) == ExecHost[e] \in Items(held) /\ e \in SshExecs

ClusterTest(o) ==
    /\ pc = "tests" /\ i <= Len(Mine.tests)
    /\ Runnable(MyTest)
    /\ graph' = Recorded(MyTest, o)
    /\ i' = i + 1
    /\ UNCHANGED <<envVars, reload, tx, up, pc, config, todo, cur, j, templates,
                   runVars, ghostVars, faults>>

\* No such host among the ones held, no seed of that type, or sess.exec is Err.
ClusterTestLost ==
    /\ pc = "tests" /\ i <= Len(Mine.tests)
    /\ \/ ~Runnable(MyTest) /\ UNCHANGED faults
       \/ Runnable(MyTest) /\ Fault
    /\ i' = i + 1
    /\ UNCHANGED <<envVars, reload, graphVars, up, pc, config, todo, cur, j, templates,
                   runVars, ghostVars>>

\* Not the code: the shutdown starts with the second host.
TestsDone_OffByOne ==
    /\ pc = "tests" /\ i > Len(Mine.tests)
    /\ pc' = "shutdown" /\ i' = 2
    /\ UNCHANGED <<envVars, reload, graphVars, up, config, todo, cur, j, templates,
                   runVars, ghostVars, faults>>

TestsDone ==
    /\ pc = "tests" /\ i > Len(Mine.tests)
    /\ pc' = "shutdown" /\ i' = 1
    /\ UNCHANGED <<envVars, reload, graphVars, up, config, todo, cur, j, templates,
                   runVars, ghostVars, faults>>

Shutdown ==
    /\ pc = "shutdown" /\ i <= Len(held)
    /\ up' = up \ {held[i]}
    /\ i' = i + 1
    /\ UNCHANGED <<envVars, reload, graphVars, pc, config, todo, cur, j, templates,
                   runVars, ghostVars, faults>>

\* try!(host.shutdown()): the first failure leaves the others running.
ShutdownFails ==
    /\ pc = "shutdown" /\ i <= Len(held)
    /\ Fault
    /\ Return
    /\ UNCHANGED <<envVars, reload, graphVars, up, config, todo, i, j, templates,
                   runVars, ghostVars>>

\* Ok(true).  The ghosts note what this run has answered for.
Finish ==
    /\ pc = "shutdown" /\ i > Len(held)
    /\ covered' = [covered EXCEPT ![cur] =
                      [w \in WatchPoints |-> IF seen[w] = None THEN @[w] ELSE seen[w]]]
    /\ ranWith' = [ranWith EXCEPT ![cur] = Mine]
    /\ owed' = [owed EXCEPT ![cur] = @ \ Items(Mine.watchpoints)]
    /\ Return
    /\ UNCHANGED <<envVars, reload, graphVars, up, config, todo, i, j, templates,
                   runVars, faults>>

-----------------------------------------------------------------------------
(***************************************************************************)
(* The end of a cycle, and of the process.                                  *)
(***************************************************************************)

EndCycle ==
    /\ pc = "pick" /\ todo = {} /\ config.daemonized
    /\ pc' = "sleep"
    /\ UNCHANGED <<envVars, reload, graphVars, up, config, todo, cur, i, j, templates,
                   runVars, ghostVars, faults>>

\* The process is gone.  The graph and the domains are other processes' and
\* survive; an open transaction does not.
Gone ==
    /\ pc' = "down"
    /\ reload' = FALSE /\ config' = None /\ todo' = {} /\ cur' = None
    /\ i' = 1 /\ j' = 1 /\ templates' = {} /\ tx' = {}
    /\ causes' = {} /\ held' = <<>> /\ seen' = NothingSeen

\* Not a daemon: one cycle is all.
Stop ==
    /\ pc = "pick" /\ todo = {} /\ ~config.daemonized
    /\ Gone
    /\ UNCHANGED <<envVars, graph, up, ghostVars, faults>>

\* After sleep(5): go round, or take the new configuration if it is valid.
Wake ==
    /\ pc = "sleep"
    /\ reload' = FALSE
    /\ ~reload \/ file = Broken
    /\ pc' = "build"
    /\ UNCHANGED <<envVars, graphVars, up, config, todo, cur, i, j, templates,
                   runVars, ghostVars, faults>>

Reload ==
    /\ pc = "sleep" /\ reload /\ file # Broken
    /\ reload' = FALSE
    /\ pc' = "validate"
    /\ config' = file /\ todo' = DOMAIN file.clusters
    /\ UNCHANGED <<envVars, graphVars, up, cur, i, j, templates, runVars, ghostVars, faults>>

\* A panic: what is unwrapped is Err, the file is missing, a host has no
\* address, ...
Crash ==
    /\ pc # "down"
    /\ Fault
    /\ Gone
    /\ UNCHANGED <<envVars, graph, up, ghostVars>>

\* Someone starts flota again.
Restart ==
    /\ pc = "down"
    /\ pc' = "init"
    /\ UNCHANGED <<envVars, reload, graphVars, up, config, todo, cur, i, j, templates,
                   runVars, ghostVars, faults>>

-----------------------------------------------------------------------------
(***************************************************************************)
(* The environment: what is watched changes, the operator edits the file.   *)
(* Whether and when the SIGHUP of an edit reaches the process is module     *)
(* Daemon's subject; here it comes at any time after the edit, or never.    *)
(***************************************************************************)
Change(w, v) ==
    /\ changes < MaxChanges /\ changes' = changes + 1
    /\ world[w] # v
    /\ world' = [world EXCEPT ![w] = v]
    /\ UNCHANGED <<file, edits, reload, graphVars, up, loopVars, runVars, ghostVars, faults>>

Edit(cfg) ==
    /\ edits < MaxEdits /\ edits' = edits + 1
    /\ file # cfg
    /\ file' = cfg
    /\ UNCHANGED <<world, changes, reload, graphVars, up, loopVars, runVars, ghostVars, faults>>

\* The SIGHUP handler sets CONFIG_RELOAD.  The flag is read, and cleared, only
\* at the end of the sleep: when before that the signal came makes no difference.
Hup ==
    /\ pc = "sleep" /\ edits > 0
    /\ ~reload /\ reload' = TRUE
    /\ UNCHANGED <<envVars, graphVars, up, loopVars, runVars, ghostVars, faults>>

LoadStep ==
    \/ Parse \/ ParseFails \/ SaveHost \/ SaveCluster \/ Loaded
    \/ \E c \in Clusters : PickToSave(c)

CauseStep ==
    \/ AskFirstRun \/ PinWatchpoint \/ CommitPin \/ CheckWatchpoint \/ CommitCauses
    \/ CausesFail \/ Skip \/ Run

RunStep ==
    \/ SkipHost \/ BootHost \/ HostFails \/ SoloTestLost \/ HostTested \/ HostsDone
    \/ ClusterTestLost \/ TestsDone \/ Shutdown \/ ShutdownFails \/ Finish
    \/ \E o \in Outcomes : SoloTest(o) \/ ClusterTest(o)

LoopStep ==
    \/ EndCycle \/ Stop \/ Wake \/ Reload
    \/ \E T \in SUBSET Templates : BuildTemplates(T)
    \/ \E c \in Clusters : Pick(c)

ProgramStep == LoadStep \/ CauseStep \/ RunStep \/ LoopStep

Environment ==
    \/ Crash \/ Restart \/ Hup
    \/ \E w \in WatchPoints, v \in Values : Change(w, v)
    \/ \E cfg \in Configs \cup {Broken} : Edit(cfg)

Next == ProgramStep \/ Environment

Spec == Init /\ [][Next]_vars

\* The program is one thread that goes on as long as it lives; nobody has to
\* restart it, to change what is watched or to edit the file.
FairSpec == Spec /\ WF_vars(ProgramStep)

-----------------------------------------------------------------------------
(***************************************************************************)
(* Properties of the graph.                                                 *)
(***************************************************************************)

\* save_child_ll! moves TAIL rather than adding one: at any time, committed or
\* not, a watchpoint, a perception or a command has at most one latest child.
\* A second TAIL would make is_tail! answer yes for a state of the past.
ListsHaveOneTail == OneTail(graph) /\ OneTail(tx)

\* Nothing falls off a list, whatever the order in which the same perceptions
\* and results come back and wherever the process dies: each is still met on
\* the way from the TAIL of everything it was saved under.
HistoryKept == NothingFallsOff(graph)

\* Some watchpoint was seen in the state p.
Pinned(G, p) == \E w \in WatchPoints : Rel(p, "IS_SNAPSHOT_OF", WatchPointNode(w)) \in G

\* A stored result is blamed only on a state some watchpoint was seen in and
\* that was committed as such: run_cluster goes on from the causes only when
\* their transaction is in.
BlamedOnPinned == \A r \in graph : r.type = "DUE_TO" => Pinned(graph, r.to)

(***************************************************************************)
(* Properties of the decision to run.                                       *)
(***************************************************************************)

\* A cluster lists each of its watchpoints once, and no other cluster of any
\* configuration watches one of them.
Watched(cfg, c) == IF c \in DOMAIN cfg.clusters THEN Items(cfg.clusters[c].watchpoints) ELSE {}
ListsEachOnce(s) == \A k, l \in DOMAIN s : s[k] = s[l] => k = l
WatchesAlone(c) ==
    /\ \A cfg \in Configs :
          c \in DOMAIN cfg.clusters => ListsEachOnce(cfg.clusters[c].watchpoints)
    /\ \A d \in Clusters \ {c}, cfg, dfg \in Configs :
          Watched(cfg, c) \cap Watched(dfg, d) = {}

\* From the decision to the last shutdown, what the evaluation has perceived of a
\* watchpoint is committed as the latest: in a first run, a rerun and a cluster
\* that is skipped, whoever else watches the same thing, and though is_tail! asks
\* a graph that is behind the transaction.  A perception left out would be found
\* to be news again in the next cycle, and would run the tests for ever.
PerceivedIsLatest ==
    pc \in {"decide", "hosts", "solo", "tests", "shutdown"} /\ ListsEachOnce(Mine.watchpoints) =>
        \A w \in Items(Mine.watchpoints) :
            seen[w] # None /\ IsTail(graph, WatchPointNode(w), PerceptionNode(seen[w]))

\* A finished run has seen w as it is now.
TestedNow(c, w) == covered[c][w] = seen[w]

\* Such a cluster is found not to need a run only when, of each watchpoint, a
\* finished run had perceived exactly what is perceived now, or when a run that
\* had recorded this change was cut short.
SkipIsTestedOrOwed ==
    pc = "decide" /\ causes = {} /\ WatchesAlone(cur) =>
        \A w \in Items(Mine.watchpoints) : TestedNow(cur, w) \/ w \in owed[cur]

\* As long as nothing has failed, such a cluster does not run again for a state
\* its finished runs have seen.
RerunIsDue ==
    pc = "decide" /\ causes \notin {{}, {FirstRun}} /\ WatchesAlone(cur) /\ faults = 0
        => \E w \in Items(Mine.watchpoints) : ~TestedNow(cur, w)

\* As long as nothing has failed, no domain is left running by a run that has
\* returned.
NothingLeftRunning ==
    faults = 0 /\ pc \notin {"hosts", "solo", "tests", "shutdown"} => up = {}

(***************************************************************************)
(* The loop implements module Rerun: for a cluster, what it promises is     *)
(* kept in the TAILs of the graph, an evaluation is a transaction, and a    *)
(* run is everything from the commit of its causes to the last shutdown.    *)
(***************************************************************************)
Alone == {c \in Clusters : WatchesAlone(c)}

Phase ==
    CASE cur \in Alone /\ pc \in {"first", "pin", "watch"} -> "looking"
      [] cur \in Alone /\ pc \in {"hosts", "solo", "tests", "shutdown"} -> "running"
      [] cur \in Alone /\ pc = "decide" /\ causes # {} -> "running"
      [] OTHER -> "idle"

Promise == INSTANCE Rerun WITH
    Clusters <- Alone,
    phase    <- Phase,
    cluster  <- IF Phase = "idle" THEN None ELSE cur,
    watched  <- IF Phase = "idle" THEN {} ELSE Items(Mine.watchpoints),
    seen     <- IF Phase = "idle" THEN NothingSeen ELSE seen,
    tested   <- [c \in Alone |-> covered[c]],
    owed     <- [c \in Alone |-> owed[c]]

\* Whatever crashes, failed queries, lost transactions, edits and changes come
\* between its runs, a cluster that watches alone gets what Rerun promises.
RerunsKept == Promise!Spec

(***************************************************************************)
(* The loop implements module Turn: a turn is what run_cluster does from    *)
(* its first Host::new to the last shutdown, and the hosts vector is worked *)
(* off from its front.                                                      *)
(***************************************************************************)
TurnPhase ==
    CASE pc \in {"hosts", "solo", "tests"} -> "booting"
      [] pc = "shutdown" -> "closing"
      [] OTHER -> "idle"

TurnUsable ==
    IF TurnPhase = "idle" THEN {} ELSE {h \in Hosts : TemplateOf[h] \in templates}

TurnHeld ==
    CASE TurnPhase = "booting" -> held
      [] TurnPhase = "closing" -> SubSeq(held, i, Len(held))
      [] OTHER -> <<>>

\* Those that this turn has booted: the ones held, and the one tested alone.
TurnMine ==
    IF TurnPhase = "idle" THEN {}
    ELSE up \cap (Items(TurnHeld) \cup IF pc = "solo" THEN {MyHost} ELSE {})

Machines == INSTANCE Turn WITH
    phase <- TurnPhase, usable <- TurnUsable, held <- TurnHeld, mine <- TurnMine,
    clean <- faults = 0

\* Hosts are booted from the templates of this cycle, held once they run, and
\* shut down one by one in that order, also when a cluster lists a host twice;
\* a run that ends otherwise than by a failure leaves none of its own running,
\* whatever failed before it, and only a failure leaves any.
TurnsKept == Machines!Spec

(***************************************************************************)
(* Liveness.                                                                *)
(***************************************************************************)

UpToDate ==
    config # None =>
        \A c \in DOMAIN config.clusters : \A w \in Watched(config, c) :
            IsTail(graph, WatchPointNode(w), PerceptionNode(world[w]))

\* Once what is watched stops changing, its last state becomes, and stays, the
\* latest perception of every watchpoint, unless the process is gone for good.
ChangeIsSeen == <>[](pc = "down") \/ <>[]UpToDate

\* And then no host is booted any more.
Quiescence == <>[](pc = "down") \/ <>[][up' \subseteq up]_vars

(***************************************************************************)
(* What comments of the source say, and the code does not do.               *)
(***************************************************************************)

\* src/flota/manager/mod.rs:44-45: "if we perceive some watchpoint state have
\* changed since last run, it needs to re-run test."
ChangedMeansRerun ==
    pc = "decide" /\ causes = {} => \A w \in Items(Mine.watchpoints) : TestedNow(cur, w)

\* The same sentence, of a cluster that has finished a run: what it perceives now
\* it has been run for, or a run that did not finish has stored a result for it.
NewsIsTested ==
    pc = "decide" /\ causes = {} /\ ranWith[cur] # None =>
        \A w \in Items(Mine.watchpoints) :
            \/ TestedNow(cur, w)
            \/ \E r \in graph : r.type = "DUE_TO" /\ r.to = PerceptionNode(seen[w])

\* src/flota/config/cluster/mod.rs:21-23, of watchpoints: "Empty array is okay,
\* in that case only this cluster's config change triggers test reruns."
ConfigChangeReruns ==
    pc = "decide" /\ causes = {} /\ Mine.watchpoints = <<>> => ranWith[cur] = Mine

\* src/flota/config/cluster/host.rs:42-44, of destroy_when_finished: "If true,
\* poweroff after the cluster it belongs to has finished all tasks.  DEFAULT: true".
\* A host whose own shutdown fails apart, none runs once its cluster is through.
OthersPoweredOff ==
    [][pc = "shutdown" /\ pc' = "pick" =>
          \A k \in DOMAIN held : k # i => held[k] \notin up']_vars
=============================================================================
