----------------------------- MODULE DaemonProofs -----------------------------
(***************************************************************************)
(* Proofs about Daemon: the signal of the watcher finds its handler, flota  *)
(* leaves no child alive when it ends in the regular way, while it lives    *)
(* nobody else is hung up, and no edit is lost on its way.                  *)
(***************************************************************************)
EXTENDS Daemon, TLAPS

Kids == {waitFor[k] : k \in DOMAIN waitFor}

Types ==
    /\ state \in [Pid -> {"unborn", "alive", "zombie", "gone"}]
    /\ parent \in [Pid -> Pid \cup {InitProcess, Launcher, Reaper, None}]
    /\ me \in Pid
    /\ leaving \subseteq Pid
    /\ waitFor \in Seq(Pid) /\ i \in Nat \ {0}
    /\ watchers \subseteq Pid

\* The handler is set up before the first watcher is forked, and stays.
Handled ==
    /\ pc \in {"term", "watch"} => "SIGHUP" \in handlers
    /\ watchers # {} => "SIGHUP" \in handlers

\* Every process of flota's is the main process, one that leaves, or in
\* WAIT_FOR, and it is one of these only.
Accounted ==
    /\ \A p \in Pid : state[p] = "alive" => p \in {me} \cup leaving \cup Kids
    /\ \A p \in {me} \cup leaving \cup Kids : state[p] # "unborn"
    /\ me \notin leaving \cup Kids
    /\ leaving \cap Kids = {}
    /\ watchers \subseteq Kids

\* What the final loop has passed is dead.
Killed ==
    /\ pc = "start" => waitFor = <<>>
    /\ pc \notin {"kill"} \cup Over => i = 1
    /\ pc = "kill" => \A k \in 1..(i - 1) : k \in DOMAIN waitFor => state[waitFor[k]] # "alive"
    /\ pc = "exited" => \A p \in Pid \ leaving : state[p] # "alive"

ChildrenInv == Types /\ Handled /\ Accounted /\ Killed

\* What these speak of, but for the flags.
procs == <<state, parent, me, leaving, waitFor, i, watchers>>

-----------------------------------------------------------------------------
(***************************************************************************)
(* The end of a process, and a fork.                                        *)
(***************************************************************************)
LEMMA EndsFacts ==
    ASSUME Types, NEW p \in Pid, Ends(p)
    PROVE  /\ state' \in [Pid -> {"unborn", "alive", "zombie", "gone"}]
           /\ parent' \in [Pid -> Pid \cup {InitProcess, Launcher, Reaper, None}]
           /\ state'[p] \in {"zombie", "gone"}
           /\ \A q \in Pid : state'[q] = "alive" => state[q] = "alive"
           /\ \A q \in Pid : state[q] # "unborn" => state'[q] # "unborn"
           /\ \A q \in Pid : parent'[q] = IF parent[q] = p THEN Reaper ELSE parent[q]
BY DEF Ends, AfterEnd, Types

LEMMA ForkFacts ==
    ASSUME Types, NEW p \in Pid, Fork(p)
    PROVE  /\ state' \in [Pid -> {"unborn", "alive", "zombie", "gone"}]
           /\ parent' \in [Pid -> Pid \cup {InitProcess, Launcher, Reaper, None}]
           /\ state[p] = "unborn" /\ state'[p] = "alive" /\ parent'[p] = me
           /\ \A q \in Pid \ {p} : state'[q] = state[q] /\ parent'[q] = parent[q]
BY DEF Fork, Types

\* Ending a process other than by the main loop's doing keeps the inventory.
LEMMA EndsKeepsBooks ==
    ASSUME ChildrenInv, NEW p \in Pid, Ends(p), pc' = pc \/ pc' = "crashed",
           UNCHANGED <<me, waitFor, i, watchers, handlers>>,
           leaving' = leaving \/ leaving' = leaving \ {p}
    PROVE  ChildrenInv'
<1> USE DEF ChildrenInv
<1>1. Types'
  BY EndsFacts DEF Types
<1>2. Handled'
  BY DEF Handled
<1>3. Kids' = Kids /\ Kids \subseteq Pid
  BY DEF Kids, Types
<1>4. Accounted'
  BY EndsFacts, <1>3 DEF Accounted, Types
<1>5. Killed'
  <2>1. ASSUME pc' = "exited" PROVE \A q \in Pid \ leaving' : state'[q] # "alive"
    BY <2>1, EndsFacts DEF Killed, Over
  <2>2. ASSUME pc' = "kill", NEW k \in 1..(i - 1), k \in DOMAIN waitFor
        PROVE  state'[waitFor[k]] # "alive"
    BY <2>2, EndsFacts DEF Killed, Types
  <2> QED  BY <2>1, <2>2 DEF Killed, Over
<1> QED  BY <1>1, <1>2, <1>4, <1>5

-----------------------------------------------------------------------------
(***************************************************************************)
(* The invariant.                                                           *)
(***************************************************************************)
LEMMA ChildrenInit == Init => ChildrenInv
<1> SUFFICES ASSUME Init PROVE ChildrenInv
  OBVIOUS
<1>1. First \in Pid
  BY PidsAssumption DEF First
<1>2. Kids = {}
  BY DEF Kids, Init
<1> QED  BY <1>1, <1>2 DEF Init, ChildrenInv, Types, Handled, Accounted, Killed, Over

\* Steps of the main loop, of the watcher and of the environment that touch no
\* process.
LEMMA QuietSteps ==
    ASSUME ChildrenInv,
           UNCHANGED procs,
           handlers \subseteq handlers',
           \/ pc' = pc
           \/ pc \notin {"kill"} \cup Over /\ pc' \notin {"start"} \cup Over,
           pc' \in {"term", "watch"} => pc' = pc \/ "SIGHUP" \in handlers'
    PROVE  ChildrenInv'
<1> USE DEF ChildrenInv, procs
<1>1. Types' /\ Kids' = Kids
  BY DEF Types, Kids
<1>2. Handled'
  BY DEF Handled
<1>3. Accounted'
  BY <1>1 DEF Accounted
<1>4. Killed'
  BY DEF Killed, Over, Types
<1> QED  BY <1>1, <1>2, <1>3, <1>4

LEMMA ForkSteps ==
    ASSUME ChildrenInv, NEW p \in Pid, RunApi(p) \/ Daemonize(p) \/ StartWatcher(p)
    PROVE  ChildrenInv'
<1> USE DEF ChildrenInv
<1>0. Fork(p) /\ i = 1 /\ i' = 1 /\ Kids \subseteq Pid
  BY DEF RunApi, Daemonize, StartWatcher, Killed, Over, Kids, Types
<1>1. p \notin {me} \cup leaving \cup Kids
  BY <1>0, ForkFacts DEF Accounted
<1>2. CASE RunApi(p)
  <2>1. Types'
    BY <1>0, <1>2, ForkFacts DEF Types, RunApi, watchVars
  <2>2. waitFor' = <<p>> /\ Kids' = {p} /\ Kids = {}
    BY <1>2 DEF RunApi, Kids, Killed
  <2>3. Accounted'
    BY <1>0, <1>1, <1>2, <2>2, ForkFacts DEF Accounted, RunApi, Types, watchVars
  <2>4. Handled' /\ Killed'
    BY <1>0, <1>2 DEF Handled, Killed, RunApi, watchVars, Over
  <2> QED  BY <2>1, <2>3, <2>4
<1>3. CASE Daemonize(p)
  <2>1. Types' /\ Kids' = Kids
    BY <1>0, <1>3, ForkFacts DEF Types, Daemonize, watchVars, Kids
  <2>2. Accounted'
    BY <1>0, <1>1, <1>3, <2>1, ForkFacts DEF Accounted, Daemonize, Types, watchVars
  <2>3. Handled' /\ Killed'
    BY <1>0, <1>3 DEF Handled, Killed, Daemonize, watchVars, Over
  <2> QED  BY <2>1, <2>2, <2>3
<1>4. CASE StartWatcher(p)
  <2>1. Types'
    BY <1>0, <1>4, ForkFacts DEF Types, StartWatcher
  <2>2. Kids' = Kids \cup {p}
    BY <1>4 DEF StartWatcher, Kids, Types
  <2>3. Accounted'
    BY <1>0, <1>1, <1>4, <2>2, ForkFacts DEF Accounted, StartWatcher, Types
  <2>4. Handled' /\ Killed'
    BY <1>0, <1>4 DEF Handled, Killed, StartWatcher, Over
  <2> QED  BY <2>1, <2>3, <2>4
<1> QED  BY <1>2, <1>3, <1>4

\* The final loop: a child is dead when the loop has passed it, and when it has
\* passed all of them and the main process ends, no process is left.
LEMMA FinalSteps ==
    ASSUME ChildrenInv, KillChild \/ KillPanics \/ Exit
    PROVE  ChildrenInv'
<1> USE DEF ChildrenInv
<1>1. Kids \subseteq Pid /\ (i <= Len(waitFor) => i \in DOMAIN waitFor /\ waitFor[i] \in Kids)
  BY DEF Kids, Types
<1>2. CASE KillChild
  <2> DEFINE c == waitFor[i]
  <2>1. c \in Kids /\ c \in Pid /\ pc = "kill" /\ pc' = "kill" /\ i' = i + 1
    BY <1>1, <1>2 DEF KillChild
  <2>2. /\ state' \in [Pid -> {"unborn", "alive", "zombie", "gone"}]
        /\ parent' \in [Pid -> Pid \cup {InitProcess, Launcher, Reaper, None}]
        /\ state'[c] # "alive"
        /\ \A q \in Pid : state'[q] = "alive" => state[q] = "alive"
        /\ \A q \in Pid : state[q] # "unborn" => state'[q] # "unborn"
    BY <1>2, <2>1, EndsFacts DEF KillChild, Types
  <2>3. Types' /\ Kids' = Kids
    BY <1>2, <2>2 DEF KillChild, Types, watchVars, Kids
  <2>4. Accounted'
    BY <1>1, <1>2, <2>2, <2>3 DEF KillChild, Accounted, watchVars, Types
  <2>5. ASSUME NEW k \in 1..(i' - 1), k \in DOMAIN waitFor' PROVE state'[waitFor'[k]] # "alive"
    BY <1>2, <2>1, <2>2, <2>5 DEF KillChild, Killed, Types
  <2>6. Handled' /\ Killed'
    BY <1>2, <2>1, <2>5 DEF KillChild, Handled, Killed, watchVars, Over
  <2> QED  BY <2>3, <2>4, <2>6
<1>3. CASE KillPanics
  BY <1>3, EndsKeepsBooks DEF KillPanics, Stops, watchVars, Types
<1>4. CASE Exit
  <2>1. Ends(me) /\ pc' = "exited" /\ UNCHANGED <<me, leaving, waitFor, i, watchers, handlers>>
    BY <1>4 DEF Exit, Stops, watchVars
  <2>2. Kids' = Kids
    BY <2>1 DEF Kids
  <2>3. \A q \in Kids : state[q] # "alive"
    BY <1>4 DEF Exit, Killed, Kids, Types
  <2>4. \A q \in Pid \ leaving' : state'[q] # "alive"
    BY <2>1, <2>3, EndsFacts DEF Accounted, Types
  <2>5. Types' /\ Handled' /\ Killed'
    BY <2>1, <2>4, EndsFacts DEF Types, Handled, Killed, Over
  <2>6. Accounted'
    BY <1>1, <2>1, <2>2, EndsFacts DEF Accounted, Types
  <2> QED  BY <2>5, <2>6
<1> QED  BY <1>2, <1>3, <1>4

LEMMA ChildrenNext == ChildrenInv /\ [Next]_vars => ChildrenInv'
<1> SUFFICES ASSUME ChildrenInv, [Next]_vars PROVE ChildrenInv'
  OBVIOUS
<1> USE DEF Over
<1>0. Types
  BY DEF ChildrenInv
<1>1. CASE TermAtInit \/ ReadConfig \/ ReadFails
  BY <1>1, QuietSteps DEF TermAtInit, ReadConfig, ReadFails, procs, procVars, watchVars, vars
<1>2. CASE AlreadyDaemonized \/ HandleHup \/ HandleTerm
  <2>1. CASE AlreadyDaemonized
    BY <2>1, QuietSteps DEF AlreadyDaemonized, procs, procVars, watchVars
  <2>2. CASE HandleHup
    BY <2>2, QuietSteps DEF HandleHup, procs, procVars, watchVars
  <2>3. CASE HandleTerm
    <3>1. "SIGHUP" \in handlers'
      BY <2>3 DEF HandleTerm, ChildrenInv, Handled
    <3> QED  BY <2>3, <3>1, QuietSteps DEF HandleTerm, procs, procVars, watchVars
  <2> QED  BY <1>2, <2>1, <2>2, <2>3
<1>3. CASE EndCycle \/ Wake \/ Validate
  BY <1>3, QuietSteps DEF EndCycle, Wake, Validate, procs, procVars, watchVars
<1>4. CASE KillChild \/ KillPanics \/ Exit
  BY <1>4, FinalSteps
<1>5. CASE \E p \in Unborn : p = NewPid /\ (RunApi(p) \/ Daemonize(p) \/ StartWatcher(p))
  BY <1>5, ForkSteps DEF Unborn
<1>6. ASSUME NEW p \in Pid, Leave(p) PROVE ChildrenInv'
  BY <1>6, EndsKeepsBooks DEF Leave, watchVars
<1>7. ASSUME NEW w \in Pid, Watch(w) PROVE ChildrenInv'
  BY <1>7, QuietSteps DEF Watch, procs, procVars
<1>8. ASSUME NEW w \in Pid, Notify(w) PROVE ChildrenInv'
  <2>1. CASE Ends(me) /\ pc' = "crashed"
    BY <1>0, <1>8, <2>1, EndsKeepsBooks DEF Notify, Types
  <2>2. CASE UNCHANGED <<pc, state, parent>>
    BY <1>8, <2>2, QuietSteps DEF Notify, procs
  <2> QED  BY <1>8, <2>1, <2>2 DEF Notify, Stops
<1>9. CASE Sigterm
  <2>1. CASE Ends(me) /\ pc' = "crashed"
    BY <1>0, <1>9, <2>1, EndsKeepsBooks DEF Sigterm, Types, watchVars
  <2>2. CASE UNCHANGED <<pc, state, parent>>
    BY <1>9, <2>2, QuietSteps DEF Sigterm, procs, watchVars
  <2> QED  BY <1>9, <2>1, <2>2 DEF Sigterm, Stops
<1>10. CASE Crash
  BY <1>0, <1>10, EndsKeepsBooks DEF Crash, Stops, Types, watchVars
<1>11. CASE LauncherExits
  <2>1. /\ parent' \in [Pid -> Pid \cup {InitProcess, Launcher, Reaper, None}]
        /\ UNCHANGED <<state, me, leaving, pc, waitFor, i, watchers, handlers>>
    BY <1>0, <1>11 DEF LauncherExits, Types, watchVars
  <2>2. Kids' = Kids
    BY <2>1 DEF Kids
  <2> QED  BY <2>1, <2>2 DEF ChildrenInv, Types, Handled, Accounted, Killed
<1>12. ASSUME NEW p \in Pid, ChildDies(p) PROVE ChildrenInv'
  BY <1>12, EndsKeepsBooks DEF ChildDies, watchVars
<1>13. ASSUME NEW cfg \in Configs \cup {Broken}, Edit(cfg) PROVE ChildrenInv'
  BY <1>13, QuietSteps DEF Edit, procs, procVars
<1>14. CASE UNCHANGED vars
  BY <1>14, QuietSteps DEF procs, vars
<1> QED
  BY <1>1, <1>2, <1>3, <1>4, <1>5, <1>6, <1>7, <1>8, <1>9, <1>10, <1>11, <1>12, <1>13, <1>14
     DEF Next, MainStep, OtherStep, Environment

LEMMA ChildrenAlways == Spec => []ChildrenInv
BY ChildrenInit, ChildrenNext, PTL DEF Spec

-----------------------------------------------------------------------------
(***************************************************************************)
(* The theorems.                                                            *)
(***************************************************************************)

\* No daemon ends of its own watcher's SIGHUP (src/main.rs:255-260).
THEOREM WatcherFindsHandlerAlways == Spec => []WatcherFindsHandler
<1>1. ChildrenInv => WatcherFindsHandler
  BY DEF ChildrenInv, Handled, WatcherFindsHandler
<1> QED  BY <1>1, ChildrenAlways, PTL

\* WAIT_FOR is copied from parent to child in daemonize() and gets every child
\* that is forked, so that the last loop (src/main.rs:334-337) misses none, for
\* any number of daemonizations and whoever adopts orphans.
THEOREM NoneLeftAliveAlways == Spec => []NoneLeftAlive
<1>1. ChildrenInv => NoneLeftAlive
  BY DEF ChildrenInv, Killed, NoneLeftAlive
<1> QED  BY <1>1, ChildrenAlways, PTL

-----------------------------------------------------------------------------
(***************************************************************************)
(* Nobody else is hung up.  It takes that every watcher's parent is the      *)
(* main process as long as there is one: with init as the reaper, a daemon   *)
(* whose parent has left does not daemonize again.                           *)
(***************************************************************************)
HangupInv ==
    /\ watching \subseteq watchers /\ pending \subseteq watchers
    /\ watchers # {} => daemonized
    /\ pc \in {"hup", "term", "watch"} => daemonized
    /\ pc = "start" => ~daemonized
    /\ daemonized /\ pc \notin Over => parent[me] \in {InitProcess} \cup leaving
    /\ daemonized /\ pc \in {"validate", "init", "daemonize"} => leaving = {}
    /\ pc \notin Over => \A w \in watchers : state[w] = "alive" => parent[w] = me
    /\ pc # "crashed" => hupped = {}

\* Ending any process but the main one moves its children to init, and no
\* watcher is among them.
LEMMA EndsKeepsHangups ==
    ASSUME ChildrenInv, HangupInv, Reaper = InitProcess, NEW p \in Pid, p # me, Ends(p),
           leaving' = leaving \ {p},
           UNCHANGED <<me, pc, watchVars, daemonized, hupped>>
    PROVE  HangupInv'
BY EndsFacts DEF HangupInv, ChildrenInv, Types, Accounted, Kids, watchVars

\* When the main process ends there is nothing left to show.
LEMMA StopKeepsHangups ==
    ASSUME HangupInv, pc' = "crashed" \/ (pc' = "exited" /\ pc \notin Over),
           UNCHANGED <<watchVars, daemonized, hupped>>
    PROVE  HangupInv'
BY DEF HangupInv, Over, watchVars

LEMMA HangupNext ==
    ASSUME ChildrenInv, HangupInv, Reaper = InitProcess, [Next]_vars
    PROVE  HangupInv'
<1> USE DEF Over
<1>0. Types /\ Kids \subseteq Pid
  BY DEF ChildrenInv, Types, Kids
<1>1. CASE TermAtInit \/ ReadConfig \/ ReadFails
  BY <1>1 DEF TermAtInit, ReadConfig, ReadFails, HangupInv, procVars, watchVars, ghosts, vars
<1>2. CASE AlreadyDaemonized \/ HandleHup \/ HandleTerm
  BY <1>2 DEF AlreadyDaemonized, HandleHup, HandleTerm, HangupInv, procVars, watchVars, ghosts
<1>3. CASE EndCycle \/ Validate
  BY <1>3 DEF EndCycle, Validate, HangupInv, procVars, watchVars, ghosts
<1>4. CASE Wake
  BY <1>4 DEF Wake, OthersHaveLeft, HangupInv, procVars, watchVars, ghosts
<1>5. CASE KillChild
  <2>1. waitFor[i] \in Kids /\ waitFor[i] \in Pid
    BY <1>0, <1>5 DEF KillChild, Kids, Types
  <2>2. waitFor[i] # me /\ leaving' = leaving \ {waitFor[i]}
    BY <1>5, <2>1 DEF KillChild, ChildrenInv, Accounted
  <2>3. CASE Ends(waitFor[i])
    BY <1>5, <2>1, <2>2, <2>3, EndsKeepsHangups DEF KillChild, watchVars, ghosts
  <2>4. CASE UNCHANGED <<state, parent>>
    BY <1>5, <2>4 DEF KillChild, HangupInv, watchVars, ghosts
  <2> QED  BY <1>5, <2>3, <2>4 DEF KillChild
<1>6. CASE KillPanics \/ Exit
  BY <1>6, StopKeepsHangups DEF KillPanics, Exit, Stops, watchVars, ghosts
<1>7. ASSUME NEW p \in Pid, RunApi(p) PROVE HangupInv'
  <2>1. watchers = {} /\ ~daemonized
    BY <1>7 DEF RunApi, HangupInv
  <2> QED  BY <1>7, <2>1 DEF RunApi, HangupInv, watchVars, ghosts
<1>8. ASSUME NEW p \in Pid, Daemonize(p) PROVE HangupInv'
  <2>1. ~daemonized /\ watchers = {}
    BY <1>8 DEF Daemonize, HangupInv
  <2>2. parent'[me'] = me /\ me \in leaving'
    BY <1>0, <1>8, ForkFacts DEF Daemonize
  <2> QED  BY <1>8, <2>1, <2>2 DEF Daemonize, HangupInv, watchVars
<1>9. ASSUME NEW p \in Pid, StartWatcher(p) PROVE HangupInv'
  <2>1. /\ p # me
        /\ parent'[p] = me
        /\ \A q \in Pid \ {p} : state'[q] = state[q] /\ parent'[q] = parent[q]
    BY <1>0, <1>9, ForkFacts DEF StartWatcher, ChildrenInv, Accounted
  <2> QED  BY <1>0, <1>9, <2>1 DEF StartWatcher, HangupInv, ghosts, Types
<1>10. ASSUME NEW p \in Pid, Leave(p) PROVE HangupInv'
  BY <1>10, EndsKeepsHangups DEF Leave, watchVars, ghosts, ChildrenInv, Accounted
<1>11. ASSUME NEW w \in Pid, Watch(w) PROVE HangupInv'
  BY <1>11 DEF Watch, HangupInv, procVars, ghosts
<1>12. ASSUME NEW w \in Pid, Notify(w) PROVE HangupInv'
  <2>1. w \in watchers /\ w \in Kids /\ w \notin leaving /\ state[w] = "alive"
    BY <1>12 DEF Notify, HangupInv, ChildrenInv, Accounted
  <2>2. pc # "exited" /\ (pc # "crashed" => parent[w] = me)
    BY <1>0, <2>1 DEF HangupInv, ChildrenInv, Killed
  <2>3. CASE pc = "crashed"
    BY <1>12, <2>3 DEF Notify, Stops, HangupInv
  <2>4. CASE pc # "crashed" /\ "SIGHUP" \in handlers
    BY <1>12, <2>2, <2>4 DEF Notify, HangupInv
  <2>5. CASE pc # "crashed" /\ "SIGHUP" \notin handlers
    BY <1>12, <2>2, <2>5 DEF Notify, Stops, HangupInv
  <2> QED  BY <2>3, <2>4, <2>5
<1>13. CASE Sigterm
  <2>1. CASE pc' = "crashed"
    BY <1>13, <2>1, StopKeepsHangups DEF Sigterm, watchVars, ghosts
  <2>2. CASE UNCHANGED <<pc, state, parent>>
    BY <1>13, <2>2 DEF Sigterm, HangupInv, watchVars, ghosts
  <2> QED  BY <1>13, <2>1, <2>2 DEF Sigterm, Stops
<1>14. CASE Crash
  BY <1>14, StopKeepsHangups DEF Crash, Stops, watchVars, ghosts
<1>15. CASE LauncherExits
  BY <1>0, <1>15, PidsAssumption DEF LauncherExits, HangupInv, watchVars, ghosts, Types,
     ChildrenInv, Accounted
<1>16. ASSUME NEW p \in Pid, ChildDies(p) PROVE HangupInv'
  BY <1>16, EndsKeepsHangups DEF ChildDies, watchVars, ghosts, ChildrenInv, Accounted
<1>17. ASSUME NEW cfg \in Configs \cup {Broken}, Edit(cfg) PROVE HangupInv'
  BY <1>17 DEF Edit, HangupInv, procVars, ghosts
<1>18. CASE UNCHANGED vars
  BY <1>18 DEF vars, HangupInv
<1> QED
  BY <1>1, <1>2, <1>3, <1>4, <1>5, <1>6, <1>7, <1>8, <1>9, <1>10, <1>11, <1>12, <1>13, <1>14,
     <1>15, <1>16, <1>17, <1>18
     DEF Next, MainStep, OtherStep, Environment, Unborn

\* Where init adopts orphans, an edit of the file sends a SIGHUP to nobody but
\* flota, and to nobody at all once flota has ended in the regular way
\* (src/main.rs:96 and 334-337, src/util/notify.rs:24).
THEOREM NobodyElseHungUpAlways == Spec => []NobodyElseHungUp
<1>1. Init => HangupInv
  BY DEF Init, HangupInv, Over
<1>2. CASE Reaper = InitProcess
  <2>1. ChildrenInv /\ HangupInv /\ [Next]_vars => HangupInv'
    BY <1>2, HangupNext
  <2>2. HangupInv => NobodyElseHungUp
    BY DEF HangupInv, NobodyElseHungUp
  <2> QED  BY <1>1, <2>1, <2>2, ChildrenAlways, PTL DEF Spec
<1>3. CASE Reaper # InitProcess
  <2>1. NobodyElseHungUp
    BY <1>3 DEF NobodyElseHungUp
  <2> QED  BY <2>1, PTL
<1> QED  BY <1>2, <1>3

-----------------------------------------------------------------------------
(***************************************************************************)
(* No edit is lost on its way.  Where init adopts orphans this is inductive  *)
(* next to HangupInv, by which a daemon never forks its successor while it   *)
(* has a watcher.                                                            *)
(***************************************************************************)
Delivered == reload \/ \E w \in pending : state[w] = "alive" /\ parent[w] = me

Working == pc \in {"daemonize", "hup", "term", "watch", "cycle", "sleep"}

OnItsWay == ~unseen /\ file # Broken /\ config # file /\ Working => Delivered

\* A process that ends, other than the main one, takes an event along only when
\* that makes the edit one that nobody saw.
LEMMA EndsKeepsDelivery ==
    ASSUME Types, pending \subseteq watchers, NEW p \in Pid, p # me, Ends(p), p \notin pending,
           UNCHANGED <<me, reload, pending>>, Delivered
    PROVE  Delivered'
<1>1. CASE reload
  BY <1>1 DEF Delivered
<1>2. ASSUME NEW w \in pending, state[w] = "alive", parent[w] = me PROVE Delivered'
  <2>1. w # p /\ w \in Pid
    BY DEF Types
  <2>2. state'[w] = "alive" /\ parent'[w] = me
    BY <1>2, <2>1, EndsFacts DEF Ends, Types
  <2> QED  BY <2>2 DEF Delivered
<1> QED  BY <1>1, <1>2 DEF Delivered

LEMMA OnItsWayNext ==
    ASSUME ChildrenInv, HangupInv, Reaper = InitProcess, OnItsWay, [Next]_vars
    PROVE  OnItsWay'
<1> USE DEF OnItsWay, Working
<1>0. Types /\ pending \subseteq watchers /\ watchers \subseteq Pid
  BY DEF ChildrenInv, HangupInv, Types
<1>1. CASE \/ TermAtInit \/ ReadConfig \/ ReadFails \/ AlreadyDaemonized \/ HandleHup
           \/ HandleTerm \/ EndCycle \/ Validate \/ UNCHANGED vars
  BY <1>1
  DEF TermAtInit, ReadConfig, ReadFails, AlreadyDaemonized, HandleHup, HandleTerm, EndCycle,
      Validate, Delivered, vars, procVars, flags, watchVars, fileVars
\* The flag is cleared only where the reload begins.
<1>2. CASE Wake
  BY <1>2 DEF Wake, Delivered, procVars, watchVars, fileVars
<1>3. CASE KillChild \/ KillPanics \/ Exit \/ Crash
  BY <1>3 DEF KillChild, KillPanics, Exit, Crash, Stops
<1>4. ASSUME NEW p \in Pid, RunApi(p) PROVE OnItsWay'
  BY <1>4 DEF RunApi
\* There is nobody to deliver anything: what is edited now nobody sees.
<1>5. ASSUME NEW p \in Pid, Daemonize(p) PROVE OnItsWay'
  <2>1. watchers = {}
    <3>1. ~daemonized
      BY <1>5 DEF Daemonize, HangupInv, Over
    <3> QED  BY <3>1 DEF HangupInv
  <2> QED  BY <1>0, <1>5, <2>1 DEF Daemonize, Delivered, flags, watchVars, fileVars
<1>6. ASSUME NEW p \in Pid, StartWatcher(p) PROVE OnItsWay'
  BY <1>0, <1>6, ForkFacts DEF StartWatcher, Delivered, flags, fileVars
<1>7. ASSUME NEW p \in Pid, Leave(p) PROVE OnItsWay'
  <2>1. p # me /\ p \notin pending
    BY <1>0, <1>7 DEF Leave, ChildrenInv, Accounted
  <2> QED  BY <1>0, <1>7, <2>1, EndsKeepsDelivery DEF Leave, flags, watchVars, fileVars
<1>8. ASSUME NEW w \in Pid, Watch(w) PROVE OnItsWay'
  BY <1>8 DEF Watch, Delivered, procVars, flags, fileVars
\* The watcher that was to deliver has delivered, or another one still is.
<1>9. ASSUME NEW w \in Pid, Notify(w) PROVE OnItsWay'
  BY <1>9 DEF Notify, Stops, Delivered, fileVars
<1>10. CASE Sigterm
  BY <1>10 DEF Sigterm, Stops, Delivered, watchVars, fileVars
<1>11. CASE LauncherExits
  BY <1>0, <1>11, PidsAssumption DEF LauncherExits, Delivered, flags, watchVars, fileVars, Types
<1>12. ASSUME NEW p \in Pid, ChildDies(p) PROVE OnItsWay'
  BY <1>0, <1>12, EndsKeepsDelivery DEF ChildDies, flags, watchVars, fileVars
\* Whoever is told of the edit is a watcher of the main process.
<1>13. ASSUME NEW cfg \in Configs \cup {Broken}, Edit(cfg) PROVE OnItsWay'
  BY <1>13 DEF Edit, Delivered, procVars
<1> QED
  BY <1>1, <1>2, <1>3, <1>4, <1>5, <1>6, <1>7, <1>8, <1>9, <1>10, <1>11, <1>12, <1>13
     DEF Next, MainStep, OtherStep, Environment, Unborn

\* Where init adopts orphans, an edit that a watcher of the daemon had an eye on
\* is never forgotten, however it falls between the clearing of CONFIG_RELOAD
\* and the two readings of the file (src/main.rs:320-331).
THEOREM EditOnItsWayAlways == Spec => []EditOnItsWay
<1>1. CASE Reaper = InitProcess
  <2>1. Init => HangupInv /\ OnItsWay
    BY DEF Init, HangupInv, Over, OnItsWay, Working
  <2>2. ChildrenInv /\ HangupInv /\ OnItsWay /\ [Next]_vars => HangupInv' /\ OnItsWay'
    BY <1>1, HangupNext, OnItsWayNext
  <2>3. OnItsWay => EditOnItsWay
    BY DEF OnItsWay, Working, Delivered, EditOnItsWay
  <2> QED  BY <2>1, <2>2, <2>3, ChildrenAlways, PTL DEF Spec
<1>2. CASE Reaper # InitProcess
  <2>1. EditOnItsWay
    BY <1>2 DEF EditOnItsWay
  <2> QED  BY <2>1, PTL
<1> QED  BY <1>1, <1>2

-----------------------------------------------------------------------------
(***************************************************************************)
(* Types.  What the watcher signals is a process: an orphan has a parent.   *)
(***************************************************************************)
Parented == \A p \in Pid : state[p] = "alive" => parent[p] # None

\* Everything but processes and the position of the main loop.
Rest ==
    /\ config \in Configs \cup {None}
    /\ handlers \subseteq {"SIGHUP", "SIGTERM"}
    /\ watchers \subseteq Pid /\ watching \subseteq watchers /\ pending \subseteq watching
    /\ file \in Configs \cup {Broken}
    /\ hupped \subseteq {InitProcess, Launcher, Reaper}
    /\ edits \in 0..MaxEdits /\ faults \in 0..MaxFaults

Flags ==
    /\ reload \in BOOLEAN /\ term \in BOOLEAN
    /\ unseen \in BOOLEAN /\ daemonized \in BOOLEAN /\ twice \in BOOLEAN

AtRight ==
    /\ pc \in {"start", "init", "daemonize", "hup", "term", "watch", "cycle", "sleep",
               "validate", "kill"} \cup Over
    /\ pc \in {"daemonize", "hup", "term", "watch", "cycle", "sleep", "validate"} =>
          config \in Configs

Core == Types /\ Rest /\ AtRight /\ Parented

TypeInv == Core /\ Flags

LEMMA FaultsCount ==
    ASSUME faults \in 0..MaxFaults, Fault PROVE faults' \in 0..MaxFaults
  BY FilesAssumption DEF Fault

\* The end of a process leaves everybody with a parent.
LEMMA EndsTypes ==
    ASSUME Types, Parented, NEW p \in Pid, Ends(p),
           UNCHANGED <<me, waitFor, watchers>>, leaving' \subseteq leaving, i' \in {i, i + 1}
    PROVE  Types' /\ Parented'
<1>1. Types'
  BY EndsFacts DEF Types
<1>2. Parented'
  BY EndsFacts, PidsAssumption DEF Parented
<1> QED  BY <1>1, <1>2

LEMMA ForkTypes ==
    ASSUME Core, NEW p \in Pid, RunApi(p) \/ Daemonize(p) \/ StartWatcher(p)
    PROVE  Core'
<1>1. Types /\ Rest /\ AtRight /\ Parented /\ Fork(p)
  BY DEF Core, RunApi, Daemonize, StartWatcher
<1>2. Types'
  <2>1. CASE RunApi(p)
    BY <1>1, <2>1, ForkFacts DEF Types, RunApi, watchVars
  <2>2. CASE Daemonize(p)
    BY <1>1, <2>2, ForkFacts DEF Types, Daemonize, watchVars
  <2>3. CASE StartWatcher(p)
    BY <1>1, <2>3, ForkFacts DEF Types, StartWatcher, watchVars
  <2> QED  BY <2>1, <2>2, <2>3
<1>3. Parented'
  BY <1>1, ForkFacts, PidsAssumption DEF Parented, Types
<1>4. Rest' /\ AtRight'
  BY <1>1 DEF Rest, AtRight, RunApi, Daemonize, StartWatcher, watchVars, fileVars, flags, ghosts
<1> QED  BY <1>2, <1>3, <1>4 DEF Core

\* Steps that no process begins or ends with.
LEMMA QuietTypes ==
    ASSUME Core,
           \/ TermAtInit \/ ReadConfig \/ ReadFails \/ AlreadyDaemonized \/ HandleHup
           \/ HandleTerm \/ EndCycle \/ Wake \/ Validate
           \/ \E p \in Pid : Watch(p)
           \/ \E cfg \in Configs \cup {Broken} : Edit(cfg)
    PROVE  Core'
<1>1. Types /\ Rest /\ AtRight /\ Parented
  BY DEF Core
<1>2. UNCHANGED procVars /\ UNCHANGED <<me, waitFor, i, watchers>>
  BY DEF TermAtInit, ReadConfig, ReadFails, AlreadyDaemonized, HandleHup, HandleTerm, EndCycle,
         Wake, Validate, Watch, Edit, vars, procVars, watchVars
<1>3. Types' /\ Parented'
  BY <1>1, <1>2 DEF Types, Parented, procVars
<1>4. CASE TermAtInit \/ ReadConfig \/ ReadFails \/ AlreadyDaemonized
  BY <1>1, <1>3, <1>4 DEF Core, Rest, AtRight, TermAtInit, ReadConfig, ReadFails,
                    AlreadyDaemonized, vars, watchVars, fileVars, flags, ghosts
<1>5. CASE HandleHup \/ HandleTerm \/ EndCycle \/ Wake \/ Validate
  BY <1>1, <1>3, <1>5 DEF Core, Rest, AtRight, HandleHup, HandleTerm, EndCycle, Wake,
                    Validate, watchVars, fileVars, flags, ghosts
<1>6. CASE \E p \in Pid : Watch(p)
  BY <1>1, <1>3, <1>6 DEF Core, Rest, AtRight, Watch, fileVars, flags, ghosts
<1>7. CASE \E cfg \in Configs \cup {Broken} : Edit(cfg)
  <2>1. PICK cfg \in Configs \cup {Broken} : Edit(cfg)
    BY <1>7
  <2>2. edits' \in 0..MaxEdits
    BY <1>1, <2>1, FilesAssumption DEF Edit, Rest
  <2> QED  BY <1>1, <1>3, <2>1, <2>2 DEF Core, Rest, AtRight, Edit, flags, ghosts
<1> QED  BY <1>3, <1>4, <1>5, <1>6, <1>7 DEF Core

LEMMA NotifyTypes ==
    ASSUME Core, NEW w \in Pid, Notify(w)
    PROVE  Core'
<1>1. Types /\ Rest /\ AtRight /\ Parented /\ me \in Pid
  BY DEF Core, Types
<1>2. {parent[w]} \ Pid \subseteq {InitProcess, Launcher, Reaper}
  BY <1>1 DEF Notify, Parented, Types
<1>3. Types' /\ Parented'
  <2>1. CASE UNCHANGED <<state, parent>>
    BY <1>1, <2>1 DEF Notify, Types, Parented
  <2>2. CASE Ends(me)
    BY <1>1, <2>2, EndsTypes DEF Notify
  <2> QED  BY <2>1, <2>2 DEF Notify, Stops
<1>4. Rest'
  BY <1>1, <1>2 DEF Rest, Notify, fileVars
<1>5. AtRight'
  BY <1>1 DEF AtRight, Notify, Stops, Over
<1> QED  BY <1>3, <1>4, <1>5 DEF Core

\* A process ends, the main one or another.
LEMMA EndTypes ==
    ASSUME Core,
           \/ KillChild \/ KillPanics \/ Exit \/ Sigterm \/ Crash \/ LauncherExits
           \/ \E p \in Pid : Leave(p) \/ ChildDies(p)
    PROVE  Core'
<1>1. Types /\ Rest /\ AtRight /\ Parented /\ me \in Pid
  BY DEF Core, Types
<1>2. CASE KillChild
  <2>1. waitFor[i] \in Pid
    BY <1>1, <1>2 DEF KillChild, Types
  <2>2. Types' /\ Parented'
    <3>1. CASE Ends(waitFor[i])
      BY <1>1, <1>2, <2>1, <3>1, EndsTypes DEF KillChild, watchVars
    <3>2. CASE UNCHANGED <<state, parent>>
      BY <1>1, <1>2, <3>2 DEF KillChild, watchVars, Types, Parented
    <3> QED  BY <1>2, <3>1, <3>2 DEF KillChild
  <2>3. Rest' /\ AtRight'
    BY <1>1, <1>2 DEF Rest, AtRight, KillChild, watchVars, fileVars, flags, ghosts
  <2> QED  BY <2>2, <2>3 DEF Core
<1>3. CASE KillPanics \/ Exit \/ Crash
  <2>1. Types' /\ Parented'
    BY <1>1, <1>3, EndsTypes DEF KillPanics, Exit, Crash, Stops, watchVars
  <2>2. faults' \in 0..MaxFaults
    BY <1>1, <1>3, FaultsCount DEF KillPanics, Exit, Crash, Rest
  <2>3. Rest' /\ AtRight'
    BY <1>1, <1>3, <2>2 DEF Rest, AtRight, KillPanics, Exit, Crash, Stops, Over, watchVars,
                            fileVars, flags, ghosts
  <2> QED  BY <2>1, <2>3 DEF Core
<1>4. CASE Sigterm
  <2>1. Types' /\ Parented'
    <3>1. CASE UNCHANGED <<state, parent>>
      BY <1>1, <1>4, <3>1 DEF Sigterm, watchVars, Types, Parented
    <3>2. CASE Ends(me)
      BY <1>1, <1>4, <3>2, EndsTypes DEF Sigterm, watchVars
    <3> QED  BY <1>4, <3>1, <3>2 DEF Sigterm, Stops
  <2>2. Rest' /\ AtRight'
    BY <1>1, <1>4 DEF Rest, AtRight, Sigterm, Stops, Over, watchVars, fileVars, ghosts
  <2> QED  BY <2>1, <2>2 DEF Core
<1>5. CASE LauncherExits
  <2>1. Types' /\ Parented'
    BY <1>1, <1>5, PidsAssumption DEF LauncherExits, watchVars, Types, Parented
  <2>2. Rest' /\ AtRight'
    BY <1>1, <1>5 DEF Rest, AtRight, LauncherExits, watchVars, fileVars, flags, ghosts
  <2> QED  BY <2>1, <2>2 DEF Core
<1>6. ASSUME NEW p \in Pid, Leave(p) \/ ChildDies(p) PROVE Core'
  <2>1. Types' /\ Parented'
    BY <1>1, <1>6, EndsTypes DEF Leave, ChildDies, watchVars
  <2>2. faults' \in 0..MaxFaults
    BY <1>1, <1>6, FaultsCount DEF Leave, ChildDies, Rest
  <2>3. Rest' /\ AtRight'
    BY <1>1, <1>6, <2>2 DEF Rest, AtRight, Leave, ChildDies, watchVars, fileVars, flags, ghosts
  <2> QED  BY <2>1, <2>3 DEF Core
<1> QED  BY <1>2, <1>3, <1>4, <1>5, <1>6

LEMMA FlagSteps ==
    ASSUME Flags, Next
    PROVE  Flags'
<1> USE DEF Flags, watchVars, fileVars, flags, ghosts, Fault
<1>1. CASE TermAtInit \/ ReadConfig \/ ReadFails \/ AlreadyDaemonized
  BY <1>1, Zenon DEF TermAtInit, ReadConfig, ReadFails, AlreadyDaemonized, vars
<1>2. CASE HandleHup \/ HandleTerm \/ EndCycle \/ Wake \/ Validate
  BY <1>2, Zenon DEF HandleHup, HandleTerm, EndCycle, Wake, Validate
<1>3. CASE KillChild \/ KillPanics \/ Exit \/ LauncherExits \/ Crash
  BY <1>3, Zenon DEF KillChild, KillPanics, Exit, LauncherExits, Crash
<1>4. ASSUME NEW p, RunApi(p) \/ Daemonize(p) \/ StartWatcher(p) PROVE Flags'
  BY <1>4, Zenon DEF RunApi, Daemonize, StartWatcher
<1>5. ASSUME NEW p, Leave(p) \/ Watch(p) PROVE Flags'
  BY <1>5, Zenon DEF Leave, Watch
<1>6. ASSUME NEW p, Notify(p) PROVE Flags'
  BY <1>6, Zenon DEF Notify
<1>7. CASE Sigterm
  BY <1>7, Zenon DEF Sigterm
<1>8. ASSUME NEW p, ChildDies(p) PROVE Flags'
  BY <1>8, Zenon DEF ChildDies
<1>9. ASSUME NEW cfg, Edit(cfg) PROVE Flags'
  BY <1>9, Zenon DEF Edit
<1> QED
  BY <1>1, <1>2, <1>3, <1>4, <1>5, <1>6, <1>7, <1>8, <1>9
  DEF Next, MainStep, OtherStep, Environment

LEMMA TypeNext == TypeInv /\ [Next]_vars => TypeInv'
<1> SUFFICES ASSUME TypeInv, [Next]_vars PROVE TypeInv'
  OBVIOUS
<1>1. ASSUME MainStep PROVE Core'
  <2>1. Unborn \subseteq Pid
    BY DEF Unborn
  <2> QED  BY <1>1, <2>1, QuietTypes, EndTypes, ForkTypes DEF MainStep, TypeInv
<1>2. ASSUME OtherStep PROVE Core'
  BY <1>2, EndTypes, QuietTypes, NotifyTypes DEF OtherStep, TypeInv
<1>3. ASSUME Environment PROVE Core'
  BY <1>3, EndTypes, QuietTypes DEF Environment, TypeInv
<1>4. CASE UNCHANGED vars
  BY <1>4 DEF vars, TypeInv, Core, Types, Rest, AtRight, Flags, Parented
<1>5. Next => Flags'
  BY FlagSteps DEF TypeInv
<1> QED  BY <1>1, <1>2, <1>3, <1>4, <1>5 DEF Next, TypeInv

LEMMA TypeInit == Init => TypeInv
<1> SUFFICES ASSUME Init PROVE TypeInv
  OBVIOUS
<1>1. First \in Pid
  BY PidsAssumption DEF First
<1>2. Types
  BY <1>1 DEF Init, Types
<1>3. Parented
  BY <1>1, PidsAssumption DEF Init, Parented
<1>4. Rest /\ AtRight
  BY FilesAssumption DEF Init, Rest, AtRight
<1>5. Flags
  BY DEF Init, Flags
<1> QED  BY <1>2, <1>3, <1>4, <1>5 DEF TypeInv, Core

\* Processes, flags and files are as typed; there is a configuration wherever
\* the main loop uses one, and only living beings are sent a SIGHUP.
THEOREM TypeCorrect == Spec => []TypeOK
<1>1. TypeInv => TypeOK
  BY DEF TypeInv, Core, Types, Rest, AtRight, Flags, TypeOK
<1>2. Spec => []TypeInv
  BY TypeInit, TypeNext, PTL DEF Spec
<1> QED  BY <1>1, <1>2, PTL
=============================================================================
