# flota in TLA+

flota keeps clusters of virtual machines and their tests up to date: it reads a
TOML file, builds a template machine per distribution with libvirt, and for
every cluster decides, from what the cluster *watches* (git repositories,
files) and from what a Neo4j graph remembers, whether its hosts have to be
made and its tests run again.  These modules model that program, check it on
small installations with TLC, and prove for all installations, with TLAPS, what
matters most.

`PROJECT.json` lists under "map" which lines of the code each definition stands for.

All paths below are relative to `src/src/` unless they begin with `src/build.rs`.

## 1. The system

| Component | State it keeps | Operations | Speaks to | Module |
|---|---|---|---|---|
| Graph macros, `flota/mod.rs` | nodes merged by content; `TAIL`/`PREV` lists of perceptions and results | `save_child_rel!`, `save_child_ll!`, `is_tail!` | Neo4j, on connections of their own | `FlotaGraph` |
| Manager and main loops, `flota/manager/*`, `flota/test/mod.rs`, `main.rs` | the open transaction, causes, hosts handed over | the 'init and 'cycle loops, `cause_of_next_cluster_run`, `pin_cluster_watchpoints`, `run_host_test`, `run_cluster_test`, `run_cluster` | graph, entities, sessions | `Manager` |
| Configuration, `flota/config/*` | the parsed file; saves hosts and clusters to the graph as it parses | `Config::from_toml_file` and the `from_toml`s | graph | `Manager` (loading steps) |
| Daemon, `main.rs`, `util/notify.rs` | `CONFIG_RELOAD`, `SIGTERM_RECVED`, `WAIT_FOR`, handlers | `run_api`, `daemonize`, `config_hup`, the final kills | kernel, inotify | `Daemon` |
| Entities, `flota/entity/{template,host}.rs` | domains, volumes, sessions | `Template::new`, `Host::new`, `Host::shutdown` | libvirt, distributions, `/etc/hosts` | `Provision` |
| Distributions, `distro/*` | none of their own | `build_image`, `adapt_network_state`, kickstart and AutoYaST images | libvirt, downloads | `Provision`, `Network`, `Fetch` |
| libvirt wrappers, `virt/*` | what libvirt keeps: volumes, domains, snapshots, pools, networks, leases | `ensure`, `create_descendant`, `boot_with_root_vol`, `ip_in_network`, `mac_of_ip`, `destroy` | libvirt | `Provision`, `Network` |
| Sessions and results, `exec/*` | an ssh session | `try_spawn`, `exec`, `Output::satisfy` | the guests | `Manager`, `Provision`, as outcomes |
| `/etc/hosts` and downloads, `util/mod.rs`, `util/md5sum.rs` | files of the machine flota runs on; a channel between two threads | `update_etc_hosts`, `download_file`, `calc_md5`, `compare_md5` | sed, wget | `Provision` (the former), `Fetch` |
| IPv4, `util/ipv4.rs` | an address and a mask | `nw_addr`, siblings, increment, decrement | networks | `IPv4`, used by `Network` |
| HTTP API, `api/mod.rs` | none: every handler is `unimplemented!()` | | | its process, in `Daemon` |
| Cluster entity, `flota/entity/cluster.rs` | | never called | | not modelled |
| `util/errors.rs`, `util/url.rs`, `src/build.rs` | | type declarations, build-time constants | | not modelled |

What is hard in it:

* The memory outlives the process.  The graph, libvirt's domains and volumes and
  `/etc/hosts` keep whatever a panic (almost every error is unwrapped) leaves
  half done, and the next process goes on from there.
* Nodes are merged by value.  A watchpoint that returns to an earlier state, or
  a test that ends as it did before, meets its own old node on the list that is
  being extended; clusters with equal watchpoints share them.
* The causes of a run are committed before the run; is_tail! asks on another
  connection than the transaction that is open.
* What is watched, and the file, change at any moment, between any two steps.
* The signals and parents of the daemon: the watcher signals whoever is its
  parent *when the event comes*.
* Guests go on by themselves: an installer writes, and powers off or reboots,
  whether or not anybody waits for it.  So does a wget that flota has started and died on.
* A network is defined, started and put on autostart in three calls, each of
  which may be the last one of the process; what is there already is taken as
  it is.  The bridge of one subnet is worked out in two ways by different code.
* A digest is computed by two threads that wait for each other.

What makes it correct: nothing is ever lost from the lists and each has one end
(graph); a change is tested, or a run that died with it owes it, and nothing is
tested twice (manager); a change and an edit are taken up in the end, and the
program comes to rest (loops, daemon); no process or host is left behind, and no
stranger is signalled (daemon, manager); hosts come from finished installations
on volumes of their own (provision); a domain that is defined can be started,
and a guest's addresses are on the networks of their subnets (network); what is
installed from is whole and, where it can be, checked (fetch).

## 2. Modules

**`FlotaGraph`**: a graph is a set of relations `[from, type, to]` between nodes
`[label, id]`; the three macros are operators on it.  `OneTail` and
`NothingFallsOff` say what a well-formed list is.

**`Manager`** extends it.  `pc` is where the program is: *init, load, build,
pick, first, pin, watch, decide, hosts, solo, tests, shutdown, sleep, validate,
down*.  One action is what happens between two points where something else
could come in between: a transaction commits, what is watched is read, a host is
made, a test is run.  `graph` is what is committed, `tx` what the open
transaction sees: the two `cause_of_next_cluster_run` queries that go to the
database on another connection read `graph`.  `world` is what is really there to
watch.  Making a host is one step here and a whole module in `Provision`.
Ghosts: `seen`, `covered` (what the finished runs of a cluster had perceived),
`owed` (a change that a run recorded and did not live to test), `ranWith`.

**`Rerun`** says what `Manager` is for, without a graph: one cluster at a time is
looked at, a run answers for everything it looked at, what was news when a run
started is *owed* until a run finishes, and a cluster is left alone only when
nothing it is shown is news.  `Manager` maps to it by `Phase` and the ghosts
`seen`, `covered` and `owed`, restricted to the clusters that share none of their
watchpoints (`Alone`, `Promise`); the instance is `Promised`, and `RerunsKept` its
specification.

**`Turn`** says what a cluster's turn at its machines is, whatever a machine is
made of: hosts there is a template for are booted, those that are up are held,
the ones held are shut down in the order in which they came.  It keeps account of
the hosts that the turn itself has booted (`mine`): a turn that comes to its end
leaves none of these, whatever failed before it, and only one that is cut short may.  `Manager` and `Provision` both implement it (`Machines`,
`TurnsKept` in each): for the one a machine is an element of `up`, for the other a
domain with a disk, with all the steps and retries that bring it there.

**`Daemon`**: every process of flota's with its state and its parent, the two
flags, the handlers, `WAIT_FOR`, the watchers with their pending inotify event.
Orphans go to `Reaper`: init, or a subreaper.  A cycle of the manager is one
step.  The main process is `me`: `daemonize()` makes it another.

**`Provision`**: what libvirt keeps (base volumes, template domains and whether
they write to their snapshot, hosts' volumes and disks), `/etc/hosts`, and the
steps of `build_image`, `Template::new`, `Host::new` and `Host::shutdown` over
it.  The guests are an actor of their own: `Installs`, and then `InstallerEnds` or
`InstallerReboots`.  A panic is `Crash`, at any step.  `build_image` takes the same
steps for CentOS and openSUSE, and what their answers do in the end differs:
CentOS's say `poweroff`, openSUSE's `final_reboot`, and a template may bring
answers of its operator's.  The constant `PowersOff` says which ones power the
machine off.  The templates of a cycle serve any number of clusters, and
`NextCycle` makes them anew.
What the commands of `adapt_network_state` and the installer's answers contain
is data; that they were written for a template, and whether they succeed, is not.

**`IPv4`**: an address is its four octets and those of its mask.  The code works on
bit vectors; an octet of a mask is 256 - b for a block size b, so that the network
part of an octet a is a - a % b, and `union` and `intersect` become sums and
remainders.  The carry of `incr_node_id` is translated as it is, with its
comparison of whole octets.  `Ordinary` names the addresses on which it is right.

**`Network`** uses it.  Its steps are those of `Network::ensure` and
`StoragePool::ensure` (look up or define, start, autostart: a pool goes the way of
a network), which `main` runs for pool and management network whenever the
configuration was read, and `Host::new` for each address of a host, twice for a
new domain.  Domains are their interfaces in order; a MAC address is the position
of its interface.  `mac_in_network` and `mac_of_ip` read that order the way their
parsers do, and `WrittenTo` is what `adapt_network_state` leaves in the guest.
`Outage` takes the machine down: what is not on autostart stays down.  Addresses
are edited at any time.

**`Fetch`** is the download of an installation's files: image, kernel, ramdisk.
A file is the sequence of its chunks, and a digest stands for what went into it.
wget is an actor of its own that writes to the final name, may get a byte wrong,
give up, or outlive flota; reader and digest are the two threads of `calc_md5`
with their channel, and the empty chunk that `fill_buf` returns at the end of the
file.

**Not composed, and why it holds together.** `Manager` and `Provision` meet in
`Turn`, which is proved of both (section 5).  `Manager` sees `Daemon` as a SIGHUP
that comes at any time after an edit, or never (`Hup`): less than `Daemon`
promises with `EditTaken`.  `Provision` sees `Network` as `BootFails`, `NoLease` and
`AdaptFails`, and `Fetch` as a panic in `WriteScript` or none.  Each is what the
other module allows at its boundary, and more.  The one thing `Provision` takes
from `Fetch` without asking is that a file which was there was whole (section 6).

**Proof modules**: `FlotaGraphProofs`, `ManagerProofs`, `DecisionProofs`,
`RerunProofs`, `DaemonProofs`, `ProvisionProofs`, `NetworkProofs`, `FetchProofs`.
**Instances**: `MCManager`, `MCDaemon`, `MCProvision`, `MCNetwork`, `MCFetch`.

A mutant of an action (`CommitCauses_NoCommit`, ...), defined before it and
headed "Not the code", is the action with a plausible bug.  Every property of a
passing run is violated when its mutant takes the action's place.

## 3. Runs

| Run | What it asks | Bounds |
|---|---|---|
| `one` | types; lists have one end and lose nothing; results are blamed only on committed perceptions; a skipped cluster is tested or owed; nothing is left running; hosts are gone about as `Turn` says; changes are seen in the end; then hosts stop being booted | 1 cluster, 2 hosts with a solo test and cluster tests, one of them of a type no template offers; 2 states of the watchpoint, 2 outcomes, 2 changes (there and back), 1 failure or panic |
| `two` | `Manager` implements `Rerun`; a skipped cluster is tested or owed; no run for a state already tested; what was perceived is the latest | 2 clusters with 3 watchpoints, one of which is taken away and put back, with the other cluster, by 2 edits with reloads that come at any time or never; the daemon and one shot after another; 1 change, 1 failure |
| `daemon` | handler before watcher; nobody else is hung up; no process is left alive; no edit is lost on its way; edits are taken; SIGTERM ends it | 4 processes, 3 configurations (2 for a daemon, 1 for the foreground) and a broken file, 3 edits, 2 panics or deaths |
| `provision` | built is installed; backing volumes are still; hosts handed over are fresh and known by name; turns end, and are `Turn`'s | 2 templates of one distribution, of which the second has answers that reboot, 2 hosts, 2 attempts of a retry loop, 2 failures or panics |
| `network` | domains stay bootable; addresses are on their networks; the management interface is found; only its network serves leases | 2 hosts, 2 configurations with 5 addresses: a /24, a /26 inside another one, one in the management network, the last /25 of an octet, a /32; 2 crashes, outages or failures |
| `fetch` | the digest is of the file; what was fetched is whole; files only grow; attempts end | an image of 3 chunks, a kernel of 1, a channel of 2, 3 wrong chunks, failures or crashes |
| `shared`, `aborted`, `reconfigured`, `daemon_twice`, `provision_cut`, `provision_alike` | each violates a sentence of the source: section 6 | the least that shows it: at most 1 failure, 1 change, 2 edits |

Why these bounds are enough for the cases: in `one`, two changes are what it takes
to go from A to B and back to A, where the list meets its own node.  In `two`,
two clusters are what it takes for one to spoil the other's memory, and two edits
what it takes for a watchpoint to come back with a TAIL of long ago.  Two
failures (`provision`, `network`) let a recovery fail as well.  With four pids the
daemon can fork everything once (API, daemon, watcher, next to itself), which is
all it does where init adopts orphans.  Two templates of one distribution share
the base volume and the domain.  Each address of `network` is another case of the
arithmetic: carry at once, a block inside an octet, the address that the
management network has itself, the subnet on which the carry goes wrong, and
the one without room for a bridge.  With three chunks over a channel of two the
reader waits for the digest and the digest for the reader; the first chunk is
written again as the last, so that a swap would not go unseen.  Nothing depends
on how often a loop retries except that it ends; two attempts have a first and a
last.  The safety properties are proved without any of these bounds where section
5 says so.

`two` declares the values of watchpoints symmetric: they are only ever compared
with each other, and the run asks for safety alone (a refinement without fairness
is safety).  No other run declares a symmetry; the assigned roles (whose template,
whose test) break it, and four of them check liveness.

`CHECK_DEADLOCK FALSE` in the daemon's runs: a flota that has exited has nothing
left to do.  All others are checked for deadlock.

### What the properties say

* `ListsHaveOneTail`, `HistoryKept`: a second TAIL would make is_tail! say "as
  before" of a state of the past; a node that falls off a list is a lost result.
* `BlamedOnPinned`: a result's DUE_TO leads to a perception whose transaction
  is in, not to one that was rolled back.
* `RerunsKept`: every step of the manager is one of `Rerun`'s, or nothing as far
  as reruns go.  A run that is not owed beforehand, a debt that is dropped by
  anything but a finished run, or a cluster that is looked at while another one
  is running its tests, breaks it.
* `SkipIsTestedOrOwed`: a cluster that shares no watchpoint is skipped only if a
  finished run has seen each as it is seen now, or the change is owed.
* `RerunIsDue`: without failures it runs only for something new.
* `PerceivedIsLatest`: whatever way an evaluation goes, first run, rerun or skip,
  all it has perceived is committed before anything is done about it, though
  is_tail! asks a graph that is behind the transaction and though others may
  watch the same thing.  What was left out would be news in every cycle.
* `NothingLeftRunning`: without failures nothing outlives its run.  `TurnsKept` says
  how: a host comes from a template of this cycle, is held once it runs, also
  when a cluster lists it twice, and is shut down when its place comes; and after
  a failure, too, a run that ends regularly leaves none of its own hosts running.
  `MCManager_poweroff.cfg` shows what the others may leave.
* `ChangeIsSeen`, `Quiescence`: the last change is perceived; then no more boots.
* `WatcherFindsHandler`, `NobodyElseHungUp`, `NoneLeftAlive`, `EditOnItsWay`,
  `EditTaken`, `TermEnds`: SIGHUP without a handler kills; the watcher's parent may be
  another by now; a kill that panics leaves the rest alive; an edit between the
  clearing of the flag and the reading of the file must not get lost,
  nor one whose event comes while a daemon takes over.
* `BuiltIsInstalled`: the next process judges an installation by the domain it
  finds, and unless a process died *during* an installation it judges right.
* `BackingIsStill`: the template's domain is booted in every cycle and would
  write under its hosts' volumes if its snapshot did not take the writes.
* `HandedOverFresh`: with two templates that share a domain and residues of dead
  runs about, a host must not run on a volume of yesterday's.  `KnownByName`: the
  entries written for a host are there when it is handed over, and while it is
  tested, though other hosts' entries are written after it.  `TurnsEnd`: both
  nested retry loops come to an end, and so does the wait for an installer, but
  for one whose answers reboot it (`Reinstalling`; `MCProvision_reboots.cfg` shows
  that it does not).  `TurnsKept`: reboots, failed adaptions and
  domains of dead runs included, what happens to the domains is a turn like the
  ones `Manager` reckons with.
* `Bootable`: what `ensure` leaves half done must be completed before a domain
  depends on it, whatever is found on the way, also for the next outage.
* `OnItsNetwork`: the gateway is worked out by `nth_sibling` and the network by
  `incr_node_id`; the interface is looked up in a domain that may be older than
  the configuration.  It is stated for `Ordinary` addresses; section 6 has the
  others.
* `MgmtIsFound`: the search for the management interface's MAC address ends at
  the last interface, whichever that is.
* `DhcpOnMgmtOnly`: hosts with an address in the management network ensure it
  without a range, but never before `main` has defined it with one.
* `DigestIsOfFile`: the loop over the channel also ends when the reader panicked;
  only joining it tells a digest of the file from one of its beginning.
* `FetchedIsWhole`, `OnlyGrows`: an earlier wget may be writing still; what a
  process has fetched and checked must stay as it was.
* `AttemptsEnd`: neither thread waits for the other for good, whichever ends first.

## 4. Fairness

`Manager`: weak fairness of the program as a whole, since it is one thread that
goes on as long as it lives.  The environment owes nothing: nothing has to
change, nobody restarts a dead process.  Liveness therefore says "or the process
is down for good".  `Daemon`: weak fairness of each process, which the kernel's
scheduler gives.  `Provision`: weak fairness of the process, and of each guest
that installs, so that each installation gets to its end.  What happens there is
not assumed but a constant: the domain goes off only where its answers say so
(`PowersOff`; `poweroff` in `distro/centos/release_6/mod.rs:116`), and otherwise
installs again.  The code has a `_timeout_secs` that nothing reads.
`Fetch`: weak fairness of flota's main thread, of the reader and of the digest,
which are threads of one process; and of each wget that has something to write,
whose timeouts and attempts are limited, so that a transfer goes on or fails.
`Network` and `two` are checked for safety only and assume none.

Assumed, too: the file is edited in place (inotify watches the file, not its
name), and the process that forked the daemon has exited by the time the
daemon has been through a cycle and slept (`OthersHaveLeft`).

## 5. Proofs

All for any value of the constants that satisfies the named assumptions
(`ConstantsAssumption`, `ConfigsAssumption`, `PidsAssumption`,
`FilesAssumption`), which TLC evaluates in every run.  A `TypeCorrect` is proved
for each of `Manager`, `Daemon`, `Provision`, `Network` and `Fetch`.

* **`TypeCorrect`**: `Spec => []TypeOK` of `Manager`, including that there is a
  configuration and a cluster of it in hand exactly where the code uses one.
* **`OneTailAlways`, `HistoryAlwaysKept`**: the lemmas of `FlotaGraphProofs` say
  what `save_child_ll!` does to a list: one TAIL per parent before, one after,
  and whatever was met from the old TAIL is met from the new one through PREV.
  `GraphsInOrder` says it of the committed graph and of the open transaction at
  once, since a commit makes the one the other and a failure drops it.
* **`BlamedOnPinnedAlways`**: through `CausesPinned`: the causes in hand are
  pinned in the open transaction while causes are being collected and, from its
  commit on, in the graph, from which pins never go away.
* **`SkipIsTestedOrOwedAlways`**: through `DecisionInv`.  Its core is that, for a
  cluster that watches alone, the TAIL of each watchpoint *is* what was covered
  unless the difference is owed; only this cluster's evaluations move that
  TAIL, and each either skips, or records the debt before it runs.
* **`ImplementsRerun`**: the initial states of `Manager` map to `Rerun`'s, and each
  step to a step of it or to none, one lemma per kind of step.  The hard one is
  `LeaveAlone`: that a cluster which is skipped, and watches alone, has nothing
  new among what it was shown is `DecisionInv` again.  The debt is the other half:
  every cause that a run starts with was owed in the same step.
* **`RerunIsDueAlways`**: through `DueInv`, the other direction of `DecisionInv`: while
  nothing has failed, what was covered of a watchpoint *is* its TAIL.  For
  that an evaluation may touch no TAIL but its own watchpoints' (`OthersStay`) and none
  at all without a cause (`NoCauseNoChange`), and a cause must come from a TAIL
  that differs from what was seen (`CausesAreChanges`).
* **`PerceivedIsLatestAlways`**: a part of `DecisionInv` (`Decided`) that needs no
  cluster to watch alone: from the commit on nobody else evaluates anything.
* **`NothingLeftRunningAlways`**: through `OwnedUnlessFailed`: until something fails,
  every host that is up is in the hosts vector, at or behind the place where the
  shutdown has got to, or is the one just booted.
* **`ManagerImplementsTurn`, `ProvisionImplementsTurn`**: each step of either module is a
  step of `Turn` or none.  In `Manager` the end of a turn is where
  `OwnedUnlessFailed` is needed, and `HostsInHand` says that the vector is empty
  before a run and that the host being tested alone is up.  In `Provision` the
  same follows from `FreshInv`, with `InHandInv`: the host in hand and those that
  wait have a template, and a domain that was booted has a disk.  What a turn has
  booted itself is in both the hosts held and the one in hand (`TurnMineIs`), so that
  the vector's last shutdown leaves none of them.
* **`WatcherFindsHandlerAlways`, `NoneLeftAliveAlways`**: through `ChildrenInv`:
  handlers precede watchers; every living process is the main one, one that is
  leaving, or listed in `WAIT_FOR`; those the final loop has passed are dead.
* **`NobodyElseHungUpAlways`**: through `HangupInv`, where init adopts orphans.
* **`EditOnItsWayAlways`**: through `OnItsWay`, inductive next to `HangupInv`, by which a
  daemon never forks its successor while it has a watcher: the flag is up, or
  an event is pending at a watcher that lives and whose parent is the main process.
* **`BuiltIsInstalledAlways`**: through `BuildInv`: a *final* domain stands for
  an installed volume and an *install* domain for somebody who waits.  This is
  what the next process relies on; it holds except for distributions `cut`
  short, which is why these are excepted.
* **`BackingIsStillAlways`**: through `StillInv`: whoever has a volume comes from
  a built template, and a template is built only after the snapshot was asked
  for.  The snapshots that were asked for and not made are `flat`, because
  nobody looks at what virDomainSnapshotCreateXML returns.

* **`HandedOverFreshAlways`**: through `FreshInv`: the volume in hand was deleted and
  made in this turn, those of the hosts handed over are other hosts', and
  as long as nothing has failed no host runs before its turn comes.
* **`KnownByNameAlways`**, for installations without two addresses of which one
  begins like the other (`Unlike`; `provision_alike` shows what happens
  otherwise): `WithEntryFacts` says that a line that does not look like the one
  being written survives, `KnownInv` that the lines of all hosts handed over, and
  of the one in hand so far, are there.
* **`EndsOfSubnet`, `BridgesAgree`, `LeasesSpareTheBridge`, `DecrIsOneLess`**: facts of the
  arithmetic for all addresses and masks.  The remainder by each of the nine
  possible block sizes is dealt with once, in `OctetSplit`.  That `incr_node_id`
  of the network's address is its first sibling is stated for `Ordinary`
  addresses; on others it is not so.
* **`DomainsAreBootable`**: through `IInv`: what is being ensured has passed the
  steps before, and whatever a domain needs was ensured to the end in the same
  turn as it was defined.  Nothing that is active and on autostart ever ceases to be.
* **`OnlyMgmtLeases`, `MgmtFound`, `GuestsOnTheirNetworks`**: from the same invariant.  That
  the management network is defined before any host ensures it as one of its
  own is what the first needs; that its interface is appended last, the second;
  that the interface found for an address was attached for this very address,
  and `BridgesAgree`, the third.
* **`DigestIsOfFileAlways`**: through `Stream`: what has been hashed, what is in the
  channel and what is still to be read are, in this order, the file, and the
  empty chunk is the last one in the channel if it is in it at all.  It holds for any
  capacity and length, which TLC cannot show.
* **`FetchedIsWholeAlways`, `OnlyGrowsAlways`**: `MineIsDone`: no wget is writing to a file that was
  accepted, since a file that is there is not begun again; so it stays as it was.

Every invariant, action property and refinement that a passing run checks is
proved.  Model-checked only is what is temporal (`ChangeIsSeen`, `Quiescence`,
`EditTaken`, `TermEnds`, `TurnsEnd`, `AttemptsEnd`): liveness under fairness is out of
the prover's reach, as would be an induction over data.  `EditOnItsWay` is the safe
half of `EditTaken`, and what its proof would rest on.

## 6. Where code and comments disagree

Shown by a run each:

1. `shared`: clusters with an equal watchpoint share its TAIL; the first to
   look records the change, the others are skipped (`flota/manager/mod.rs:54`).
2. `aborted`: causes are committed before the run.  A cluster has finished a
   run, something changes, and Host::new fails before any test: nothing has
   been tested for the change, and the cluster is skipped from then on
   (`flota/manager/mod.rs:64`).  The source knows of the like for a *first* run
   (`flota/config/cluster/mod.rs:102`).
3. `reconfigured`: with an empty array of watchpoints a change of the
   configuration does not rerun anything (`flota/config/cluster/mod.rs:21`).
4. `daemon_twice`: under a subreaper the parent is never 1, so that each reload
   daemonizes again (`main.rs:96`).
5. `provision_cut`: a panic during an installation leaves the installer's
   domain under the template's name; the next process boots it as the template
   (`distro/centos/release_6/x86_64/mod.rs:198`).
6. `provision_alike`: writing the entry of 10.0.0.1 deletes that of 10.0.0.10
   (`util/mod.rs:66`).

Shown by further configurations, which are no runs of `PROJECT.json`.  Each checks
one property, which quotes the sentence of the source that it states, and TLC
finds it violated.  They are the cases that a property of a passing run leaves
out: what such a property says is true *around* them, and these show why it
does not say more.

* `MCManager_twice.cfg` (`ChangedMeansRerun`): a cluster that lists a
  watchpoint twice looks at it twice in one transaction, which is_tail! does
  not see.  If it changes in between and back, the TAIL is left at what was
  seen first, and the next change to that is skipped
  (`flota/manager/mod.rs:54`).
* `MCManager_poweroff.cfg` (`OthersPoweredOff`): when the shutdown of one host
  fails, those behind it are not even asked to, though they are to be powered
  off by default (`flota/manager/mod.rs:259`).
* `MCDaemon_gone.cfg` (`ChildrenCanBeKilled`): the API's process is an orphan
  once flota is a daemon; when it dies init waits for it, and the daemon's own
  end is a panic that spares the watcher (`main.rs:335`).
* `MCProvision_leftover.cfg` (`RunsOnItsVolume`): a host that a failed run has
  left running is rebooted with the disk it has; the volume made anew is
  nobody's (`virt/domain/mod.rs:147`).
* `MCProvision_reboots.cfg` (`InstallationsEnd`): openSUSE's installation
  reboots, from the kernel of the installation, and the loop that waits for its
  end has no limit (`distro/opensuse/release_13/x86_64/mod.rs:290`).
* `MCNetwork_half.cfg` (`AttachedToAvailable`): `incr_node_id` carries by
  comparing whole octets with the mask's (`util/ipv4.rs:94`).  Under a mask
  longer than /24, on the last subnet of an octet, the increment of
  10.0.0.128/25 is 10.0.1.0: the guest is attached to another network than the
  one that was ensured for it, whose bridge is its gateway.  These are the
  addresses that `Ordinary` leaves out.
* `MCNetwork_edited.cfg` (`ConfigRealized`): a domain that exists keeps the
  interfaces it was defined with, and an address that an edit has brought is
  passed over without a word (`distro/centos/release_6/mod.rs:32`).
* `MCFetch_partial.cfg` (`ImageIsChecked`): what a broken download has left is
  used unchecked by the next attempt, since only what was fetched just now is
  compared (`distro/centos/release_6/x86_64/mod.rs:61`).  `FetchedIsWhole` is
  about the files that a process has fetched *itself*.

Seen while reading, without a run of their own: a cluster with solo tests only
has a "first run" in every cycle (`flota/config/cluster/mod.rs:108`, which looks
for results of the cluster's own tests); a watchpoint that goes back to an
earlier state closes the PREV list into a ring (`flota/mod.rs:39`); hosts whose
template was not built are passed over and the tests run without them
(`flota/manager/mod.rs:235`); a flota started by init takes itself for a daemon
already (`main.rs:96`); `persistent` and `destroy_when_finished` are read by nothing
(`flota/config/cluster/host.rs:42`); of two templates of one distribution the
second is never installed with its own answers, the domain being there
already; after twenty failures to get a session 'try_adaption goes on as if it had one
(`flota/entity/host.rs:101`).

Kernel and ramdisk are never compared with a sum.  Under masks shorter than /24 an increment of x.x.x.255 overflows, which no caller
can bring about.  A host with a /32 panics at its boot (`virt/domain/mod.rs:203`).
The gateway is written with its mask length after it (`distro/centos/release_6/mod.rs:49`).  openSUSE's
`adapt_network_state` does nothing and says so (`distro/opensuse/release_13/mod.rs:26`).
`default_network` cannot be configured: `Setting::from_toml` never looks for it
(`flota/config/setting.rs:49`).

Under a subreaper `EditTaken` fails: an edit that comes between the reading of the
file and the fork of the next daemon sends its SIGHUP to the process that is
about to be left behind.

## 7. Plan

In this order, the most important behaviour first.

1. `FlotaGraph`, `Manager`: memory and decision.  *Done; theorems proved.*
2. `Daemon`: processes and signals.  *Done; theorems proved.*
3. `Provision`: templates and hosts over a libvirt that stays.  *Done; all its
   invariants proved.*
4. `Rerun`, the abstract promise, and `Manager` as an implementation of it.
   *Done; checked in `two`, and proved.*
5. `IPv4` and `Network`: addresses, networks and guests.  *Done; all its invariants
   proved.*
6. `Fetch`: downloads and their digests.  *Done; all but `AttemptsEnd` proved.*
7. `RerunIsDue` and `NothingLeftRunning` for any number of clusters.  *Done; proved.*
8. Composition.  The product of two modules is beyond what TLC explores in
   minutes; it goes by abstract specifications of what they share.  `Manager` and
   `Provision` through `Turn`: *done, proved on both sides.*  `Manager` and `Daemon`'s
   reload: *done*, as `Hup`, which allows more than `Daemon` does.  `Provision` with
   `Fetch` and `Network`: *open*; it would need what a host's boot takes for granted
   of its networks, and an installation of its files, said once and implemented twice.

Looked at and left: a module for `Output::satisfy` and the order of pre, main and
post tests.  `Manager` has the tests of hosts and clusters one by one with their
outcomes; what remains is a comparison of texts, which any unit test reaches.

## 8. Not modelled

The Neo4j server, libvirt and the kernel are modelled from how they are used
(and marked external).  Parsing of single fields, the text of generated XML,
kickstart and AutoYaST files, sed scripts beyond what they do to entries, and
logging are data or wording.  Console and local sessions are stubs in the code.
`Network::delete`, `clean_associated` and `volume_paths` are called by nothing.
The cluster entity is dead code, the API's handlers are unimplemented, and
errors, URLs and the build script declare types and constants.
