-------------------------------- MODULE Daemon --------------------------------
(***************************************************************************)
(* The processes of flota and the signals between them.  main forks a child *)
(* for the HTTP API, becomes a daemon if the configuration says so, handles *)
(* SIGHUP and SIGTERM from then on, and forks a watcher that sends it a     *)
(* SIGHUP whenever the configuration file is touched.  At its end it kills  *)
(* the children it knows of.                                                *)
(*                                                                          *)
(* Sources: src/main.rs and src/util/notify.rs.  What a cycle does is       *)
(* module Manager's subject.                                                *)
(***************************************************************************)
EXTENDS Naturals, Sequences

CONSTANTS
    Pid,            \* the pids flota's processes get, never used twice
    InitProcess,    \* pid 1
    Launcher,       \* whoever starts flota: a shell, or init itself
    Reaper,         \* who adopts orphans: init, or a subreaper in its place
    Configs,        \* valid configurations
    Broken,         \* a file that is not one
    MaxEdits,       \* bound on edits of the file
    MaxFaults,      \* bound on panics and deaths of children
    None

ASSUME PidsAssumption ==
    /\ Pid # {}
    /\ {InitProcess, Launcher, Reaper, None} \cap Pid = {}
    /\ None \notin {InitProcess, Launcher, Reaper}

ASSUME FilesAssumption ==
    /\ Broken \notin Configs /\ None \notin Configs
    /\ \A cfg \in Configs : cfg.daemonized \in BOOLEAN
    /\ MaxEdits \in Nat /\ MaxFaults \in Nat

VARIABLES
    state,          \* of every process
    parent,         \* what getppid() returns in it
    me,             \* the process that runs the main loop
    leaving,        \* those that have forked it and are about to exit
    pc,             \* where the main loop is
    config,         \* the configuration it works with
    reload, term,   \* CONFIG_RELOAD, SIGTERM_RECVED
    handlers,       \* the signals that are handled
    waitFor, i,     \* WAIT_FOR, and a position in it
    watchers,       \* the processes forked by config_hup ...
    watching,       \* ... those that have the file watched ...
    pending,        \* ... and those with an event to receive
    file,           \* the configuration file
    unseen,         \* ghost: it was edited, unwatched, since it was last read
    hupped,         \* ghost: processes other than flota that got a SIGHUP
    daemonized,     \* ghost: daemonize() has returned Ok
    twice,          \* ghost: it has done so again
    edits, faults

procVars  == <<state, parent, leaving>>
flags     == <<reload, term>>
watchVars == <<watchers, watching, pending>>
fileVars  == <<file, edits>>
ghosts    == <<hupped, daemonized, twice>>
vars == <<state, parent, me, leaving, pc, config, reload, term, handlers, waitFor, i,
          watchers, watching, pending, file, unseen, hupped, daemonized, twice,
          edits, faults>>

Over == {"exited", "crashed"}

TypeOK ==
    /\ state \in [Pid -> {"unborn", "alive", "zombie", "gone"}]
    /\ parent \in [Pid -> Pid \cup {InitProcess, Launcher, Reaper, None}]
    /\ me \in Pid
    /\ leaving \subseteq Pid
    /\ pc \in {"start", "init", "daemonize", "hup", "term", "watch", "cycle", "sleep",
               "validate", "kill"} \cup Over
    /\ config \in Configs \cup {None}
    /\ pc \in {"daemonize", "hup", "term", "watch", "cycle", "sleep", "validate"} =>
          config \in Configs
    /\ reload \in BOOLEAN /\ term \in BOOLEAN
    /\ handlers \subseteq {"SIGHUP", "SIGTERM"}
    /\ waitFor \in Seq(Pid) /\ i \in Nat \ {0}
    /\ watchers \subseteq Pid /\ watching \subseteq watchers /\ pending \subseteq watching
    /\ file \in Configs \cup {Broken}
    /\ unseen \in BOOLEAN /\ daemonized \in BOOLEAN /\ twice \in BOOLEAN
    /\ hupped \subseteq {InitProcess, Launcher, Reaper}
    /\ edits \in 0..MaxEdits /\ faults \in 0..MaxFaults

First == CHOOSE p \in Pid : TRUE

Init ==
    /\ state = [p \in Pid |-> IF p = First THEN "alive" ELSE "unborn"]
    /\ parent = [p \in Pid |-> IF p = First THEN Launcher ELSE None]
    /\ me = First /\ leaving = {}
    /\ pc = "start" /\ config = None
    /\ reload = FALSE /\ term = FALSE /\ handlers = {}
    /\ waitFor = <<>> /\ i = 1
    /\ watchers = {} /\ watching = {} /\ pending = {}
    /\ file \in Configs \cup {Broken} /\ unseen = FALSE
    /\ hupped = {} /\ daemonized = FALSE /\ twice = FALSE
    /\ edits = 0 /\ faults = 0

Fault == faults < MaxFaults /\ faults' = faults + 1

-----------------------------------------------------------------------------
(***************************************************************************)
(* The kernel: fork, the end of a process, SIGHUP.                          *)
(***************************************************************************)
Fork(p) ==
    /\ state[p] = "unborn"
    /\ state' = [state EXCEPT ![p] = "alive"]
    /\ parent' = [parent EXCEPT ![p] = me]

\* A process that ends stays a zombie while its parent lives and does not wait
\* for it, as flota never does; init, a shell and a subreaper do.
AfterEnd(p) ==
    IF parent[p] \in Pid /\ state[parent[p]] = "alive" THEN "zombie" ELSE "gone"

Ends(p) ==
    /\ state' = [q \in Pid |->
                    IF q = p THEN AfterEnd(p)
                    ELSE IF parent[q] = p /\ state[q] = "zombie" THEN "gone" ELSE state[q]]
    /\ parent' = [q \in Pid |-> IF parent[q] = p THEN Reaper ELSE parent[q]]

\* The main process ends, in the manner given.
Stops(how) ==
    /\ pc' = how
    /\ Ends(me)

-----------------------------------------------------------------------------
(***************************************************************************)
(* The main loop.                                                           *)
(***************************************************************************)

\* run_api; the parent keeps the pid.
RunApi(p) ==
    /\ pc = "start"
    /\ Fork(p)
    /\ waitFor' = <<p>>
    /\ pc' = "init"
    /\ UNCHANGED <<me, leaving, config, flags, handlers, i, watchVars, fileVars, unseen,
                   ghosts, faults>>

\* 'init: loop
TermAtInit ==
    /\ pc = "init" /\ term
    /\ pc' = "kill"
    /\ UNCHANGED <<procVars, me, config, flags, handlers, waitFor, i, watchVars, fileVars,
                   unseen, ghosts, faults>>

ReadConfig ==
    /\ pc = "init" /\ ~term /\ file # Broken
    /\ config' = file /\ unseen' = FALSE
    /\ pc' = IF file.daemonized THEN "daemonize" ELSE "cycle"
    /\ UNCHANGED <<procVars, me, flags, handlers, waitFor, i, watchVars, fileVars, ghosts,
                   faults>>

\* Not the code: a file that cannot be read is passed over.
ReadFails_GoesOn ==
    /\ pc = "init" /\ ~term /\ file = Broken
    /\ pc' = "cycle"
    /\ UNCHANGED <<procVars, me, config, flags, handlers, waitFor, i, watchVars, fileVars,
                   unseen, ghosts, faults>>

\* 5 seconds later, again.
ReadFails ==
    /\ pc = "init" /\ ~term /\ file = Broken
    /\ UNCHANGED vars

\* daemonize is Err: the child of init takes itself for a daemon, and goes on
\* without handlers and watcher unless it has them already.
AlreadyDaemonized ==
    /\ pc = "daemonize" /\ parent[me] = InitProcess
    /\ pc' = "cycle"
    /\ UNCHANGED <<procVars, me, config, flags, handlers, waitFor, i, watchVars, fileVars,
                   unseen, ghosts, faults>>

\* Not the code: the watcher is started before the handlers are set up.
Daemonize_NoHandler(p) ==
    /\ pc = "daemonize" /\ parent[me] # InitProcess
    /\ Fork(p)
    /\ leaving' = leaving \cup {me}
    /\ me' = p
    /\ daemonized' = TRUE /\ twice' = daemonized
    /\ pc' = "watch"
    /\ UNCHANGED <<config, flags, handlers, waitFor, i, watchVars, fileVars, unseen,
                   hupped, faults>>

\* daemonize is Ok: the child goes on as the main process, with a copy of all
\* its parent had.
Daemonize(p) ==
    /\ pc = "daemonize" /\ parent[me] # InitProcess
    /\ Fork(p)
    /\ leaving' = leaving \cup {me}
    /\ me' = p
    /\ daemonized' = TRUE /\ twice' = daemonized
    /\ pc' = "hup"
    /\ UNCHANGED <<config, flags, handlers, waitFor, i, watchVars, fileVars, unseen,
                   hupped, faults>>

\* ForkResult::Parent => process::exit(0)
Leave(p) ==
    /\ p \in leaving
    /\ leaving' = leaving \ {p}
    /\ Ends(p)
    /\ UNCHANGED <<me, pc, config, flags, handlers, waitFor, i, watchVars, fileVars, unseen,
                   ghosts, faults>>

HandleHup ==
    /\ pc = "hup"
    /\ handlers' = handlers \cup {"SIGHUP"}
    /\ pc' = "term"
    /\ UNCHANGED <<procVars, me, config, flags, waitFor, i, watchVars, fileVars, unseen,
                   ghosts, faults>>

HandleTerm ==
    /\ pc = "term"
    /\ handlers' = handlers \cup {"SIGTERM"}
    /\ pc' = "watch"
    /\ UNCHANGED <<procVars, me, config, flags, waitFor, i, watchVars, fileVars, unseen,
                   ghosts, faults>>

\* Not the code: the pid of the watcher is not kept.
StartWatcher_Forgotten(p) ==
    /\ pc = "watch"
    /\ Fork(p)
    /\ watchers' = watchers \cup {p}
    /\ pc' = "cycle"
    /\ UNCHANGED <<me, leaving, config, flags, handlers, waitFor, i, watching, pending,
                   fileVars, unseen, ghosts, faults>>

\* config_hup forks; the watcher has the file watched only later, see Watch.
StartWatcher(p) ==
    /\ pc = "watch"
    /\ Fork(p)
    /\ watchers' = watchers \cup {p}
    /\ waitFor' = Append(waitFor, p)
    /\ pc' = "cycle"
    /\ UNCHANGED <<me, leaving, config, flags, handlers, i, watching, pending, fileVars,
                   unseen, ghosts, faults>>

\* Not the code: a request to reload is dropped before the daemon sleeps.
EndCycle_DropsReload ==
    /\ pc = "cycle"
    /\ pc' = IF ~config.daemonized \/ term THEN "kill" ELSE "sleep"
    /\ reload' = FALSE
    /\ UNCHANGED <<procVars, me, config, term, handlers, waitFor, i, watchVars, fileVars,
                   unseen, ghosts, faults>>

\* Not the code: only the configuration ends the loop.
EndCycle_NoTerm ==
    /\ pc = "cycle"
    /\ pc' = IF ~config.daemonized THEN "kill" ELSE "sleep"
    /\ UNCHANGED <<procVars, me, config, flags, handlers, waitFor, i, watchVars, fileVars,
                   unseen, ghosts, faults>>

EndCycle ==
    /\ pc = "cycle"
    /\ pc' = IF ~config.daemonized \/ term THEN "kill" ELSE "sleep"
    /\ UNCHANGED <<procVars, me, config, flags, handlers, waitFor, i, watchVars, fileVars,
                   unseen, ghosts, faults>>

\* A process with nothing left to do but exit has done so by the time the one
\* it forked is through with a cycle.
OthersHaveLeft == leaving = {}

\* sleep(5) is over, or cut short by a signal.
Wake ==
    /\ pc = "sleep" /\ OthersHaveLeft
    /\ pc' = IF reload THEN "validate" ELSE "cycle"
    /\ reload' = FALSE
    /\ UNCHANGED <<procVars, me, config, term, handlers, waitFor, i, watchVars, fileVars,
                   unseen, ghosts, faults>>

\* The file is parsed to see whether it can be; 'init parses it again.
Validate ==
    /\ pc = "validate"
    /\ pc' = IF file = Broken THEN "cycle" ELSE "init"
    /\ UNCHANGED <<procVars, me, config, flags, handlers, waitFor, i, watchVars, fileVars,
                   unseen, ghosts, faults>>

\* A zombie can be sent a signal; a process that was waited for cannot.
KillChild ==
    /\ pc = "kill" /\ i <= Len(waitFor)
    /\ \/ state[waitFor[i]] = "alive" /\ Ends(waitFor[i])
       \/ state[waitFor[i]] = "zombie" /\ UNCHANGED <<state, parent>>
    /\ i' = i + 1
    /\ UNCHANGED <<me, leaving, pc, config, flags, handlers, waitFor, watchVars, fileVars,
                   unseen, ghosts, faults>>

\* kill is ESRCH, and expected not to be.
KillPanics ==
    /\ pc = "kill" /\ i <= Len(waitFor)
    /\ state[waitFor[i]] = "gone"
    /\ Stops("crashed")
    /\ UNCHANGED <<me, leaving, config, flags, handlers, waitFor, i, watchVars, fileVars,
                   unseen, ghosts, faults>>

\* Not the code: the last child is left out.
Exit_OffByOne ==
    /\ pc = "kill" /\ i >= Len(waitFor)
    /\ Stops("exited")
    /\ UNCHANGED <<me, leaving, config, flags, handlers, waitFor, i, watchVars, fileVars,
                   unseen, ghosts, faults>>

Exit ==
    /\ pc = "kill" /\ i > Len(waitFor)
    /\ Stops("exited")
    /\ UNCHANGED <<me, leaving, config, flags, handlers, waitFor, i, watchVars, fileVars,
                   unseen, ghosts, faults>>

-----------------------------------------------------------------------------
(***************************************************************************)
(* The watcher.                                                             *)
(***************************************************************************)

\* Watcher::new and watch.
Watch(w) ==
    /\ w \in watchers \ watching /\ state[w] = "alive"
    /\ watching' = watching \cup {w}
    /\ UNCHANGED <<procVars, me, pc, config, flags, handlers, waitFor, i, watchers, pending,
                   fileVars, unseen, ghosts, faults>>

\* rx.recv() is Ok: kill(getppid(), SIGHUP), whoever that is by now.  A flota
\* that is about to leave sets a flag that nobody reads.
Notify(w) ==
    /\ w \in pending /\ state[w] = "alive"
    /\ pending' = pending \ {w}
    /\ IF parent[w] # me
       THEN /\ hupped' = hupped \cup ({parent[w]} \ Pid)
            /\ UNCHANGED <<pc, state, parent, reload>>
       ELSE /\ UNCHANGED hupped
            /\ IF "SIGHUP" \in handlers
               THEN reload' = TRUE /\ UNCHANGED <<pc, state, parent>>
               ELSE Stops("crashed") /\ UNCHANGED reload
    /\ UNCHANGED <<me, leaving, config, term, handlers, waitFor, i, watchers, watching,
                   fileVars, unseen, daemonized, twice, faults>>

-----------------------------------------------------------------------------
(***************************************************************************)
(* The environment.                                                         *)
(***************************************************************************)

\* Written in place: a file that is moved over it is another file to inotify.
Edit(cfg) ==
    /\ edits < MaxEdits /\ edits' = edits + 1
    /\ file # cfg
    /\ file' = cfg
    /\ LET notified == {w \in watching : state[w] = "alive"}
       IN  /\ pending' = pending \cup notified
           /\ unseen' = (unseen \/ \A w \in notified : parent[w] # me)
    /\ UNCHANGED <<procVars, me, pc, config, flags, handlers, waitFor, i, watchers, watching,
                   ghosts, faults>>

\* Without a handler it kills at once, and nothing is cleaned up.
Sigterm ==
    /\ pc \notin Over /\ ~term
    /\ \/ "SIGTERM" \in handlers /\ term' = TRUE /\ UNCHANGED <<pc, state, parent>>
       \/ "SIGTERM" \notin handlers /\ Stops("crashed") /\ UNCHANGED term
    /\ UNCHANGED <<me, leaving, config, reload, handlers, waitFor, i, watchVars, fileVars,
                   unseen, ghosts, faults>>

\* The API cannot listen or gets the hangup of the terminal, the watcher cannot
\* watch, ...
ChildDies(p) ==
    /\ state[p] = "alive" /\ p \notin {me} \cup leaving
    /\ Fault
    /\ Ends(p)
    /\ unseen' = (unseen \/ p \in pending)
    /\ UNCHANGED <<me, leaving, pc, config, flags, handlers, waitFor, i, watchVars, fileVars,
                   ghosts>>

\* A panic, or a signal nobody handles.
Crash ==
    /\ pc \notin Over
    /\ Fault
    /\ Stops("crashed")
    /\ UNCHANGED <<me, leaving, config, flags, handlers, waitFor, i, watchVars, fileVars,
                   unseen, ghosts>>

LauncherExits ==
    /\ Launcher \notin {InitProcess, Reaper}
    /\ \E p \in Pid : parent[p] = Launcher
    /\ parent' = [p \in Pid |-> IF parent[p] = Launcher THEN Reaper ELSE parent[p]]
    /\ UNCHANGED <<state, leaving, me, pc, config, flags, handlers, waitFor, i, watchVars,
                   fileVars, unseen, ghosts, faults>>

\* Which unused pid a fork returns makes no difference.
Unborn == {p \in Pid : state[p] = "unborn"}
NewPid == CHOOSE p \in Unborn : TRUE

MainStep ==
    \/ TermAtInit \/ ReadConfig \/ ReadFails
    \/ AlreadyDaemonized \/ HandleHup \/ HandleTerm \/ EndCycle \/ Wake \/ Validate
    \/ KillChild \/ KillPanics \/ Exit
    \/ \E p \in Unborn : p = NewPid /\ (RunApi(p) \/ Daemonize(p) \/ StartWatcher(p))

OtherStep == \E p \in Pid : Leave(p) \/ Watch(p) \/ Notify(p)

Environment ==
    \/ Sigterm \/ Crash \/ LauncherExits
    \/ \E p \in Pid : ChildDies(p)
    \/ \E cfg \in Configs \cup {Broken} : Edit(cfg)

Next == MainStep \/ OtherStep \/ Environment

Spec == Init /\ [][Next]_vars

\* Every process gets to run as long as it lives.
FairSpec ==
    /\ Spec
    /\ WF_vars(MainStep)
    /\ \A p \in Pid : WF_vars(Leave(p) \/ Watch(p) \/ Notify(p))

-----------------------------------------------------------------------------
(***************************************************************************)
(* Properties.                                                              *)
(***************************************************************************)

\* The SIGHUP of an edit never ends the daemon that forked the watcher: its
\* handler is there before the watcher is, and a daemon that daemonizes again
\* takes it along.
WatcherFindsHandler ==
    \A w \in watchers : state[w] = "alive" /\ parent[w] = me => "SIGHUP" \in handlers

\* When flota ends in the regular way nothing it has forked lives on, however
\* often it has forked and whoever has become the parent of its children since;
\* only the processes it left behind in daemonize() may still be leaving.
NoneLeftAlive == pc = "exited" => \A p \in Pid \ leaving : state[p] # "alive"

\* While flota lives, and when it has ended in the regular way, edits of the
\* file send a SIGHUP to nobody else.  It takes an init that adopts orphans:
\* under a subreaper, see DaemonizedOnce.
NobodyElseHungUp == hupped # {} /\ Reaper = InitProcess => pc = "crashed"

\* An edit that a watcher of the daemon had an eye on is in the end what the
\* daemon works with, however it falls between the reload's steps, unless it
\* made the file unusable.
EditTaken == <>[](pc \in Over \/ unseen \/ file = Broken \/ config = file)

\* No such edit is lost on its way: until the file has been read again, the flag
\* is up or a watcher is still to signal the main process.  A flag that is
\* cleared before the reload it stands for has been begun, or an event sent to
\* a process that has forked its successor, would leave neither.
EditOnItsWay ==
    /\ Reaper = InitProcess
    /\ ~unseen /\ file # Broken /\ config # file
    /\ pc \in {"daemonize", "hup", "term", "watch", "cycle", "sleep"}
    => reload \/ \E w \in pending : state[w] = "alive" /\ parent[w] = me

\* A daemon that has received SIGTERM comes to its end.
TermEnds == term ~> pc \in Over

\* src/main.rs:241, of daemonize: "if it's already daemonized, returns Err."
DaemonizedOnce == ~twice

\* src/main.rs:335-337, of every child in WAIT_FOR: kill is expected to find it,
\* "failed to send SIGKILL to {}".
ChildrenCanBeKilled == pc = "kill" /\ i <= Len(waitFor) => state[waitFor[i]] # "gone"
=============================================================================
