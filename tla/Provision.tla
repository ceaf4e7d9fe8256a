------------------------------- MODULE Provision -------------------------------
(***************************************************************************)
(* How templates and hosts come into being: the steps of                    *)
(* Distro::build_image, Template::new, Host::new and Host::shutdown, and    *)
(* the libvirt they act on, which keeps its volumes, domains and snapshots, *)
(* and goes on running its guests, whatever becomes of the process.         *)
(*                                                                          *)
(* A distribution has one template domain and one base volume, shared by    *)
(* all templates of that distribution.  The volume of a host is a           *)
(* descendant of the base volume: it stores what differs from it.           *)
(*                                                                          *)
(* Sources: src/distro/*/*/x86_64/mod.rs, src/flota/entity/*.rs, src/virt/. *)
(* Networks are ensured on the way or the process panics, and downloads     *)
(* likewise; neither is told apart from a Crash here.                       *)
(***************************************************************************)
EXTENDS Naturals, Sequences, FiniteSets

CONSTANTS
    Distros, Templates, Hosts,
    DistroOf,       \* the distribution of a template
    TemplateOf,     \* the template of a host
    Ips,
    IpsOf,          \* the addresses of a host's interfaces, in order
    LooksLike,      \* pairs of an address and one that its text begins with
    PowersOff,      \* the templates whose answers end an installation by powering off
    None,
    MaxTries,       \* attempts to reach a host
    MaxFaults       \* bound on failures of any kind

ASSUME ConstantsAssumption ==
    /\ DistroOf \in [Templates -> Distros]
    /\ TemplateOf \in [Hosts -> Templates]
    /\ IpsOf \in [Hosts -> Seq(Ips)]
    /\ PowersOff \subseteq Templates
    /\ LooksLike \subseteq Ips \X Ips /\ \A ip \in Ips : <<ip, ip>> \in LooksLike
    /\ None \notin Templates \cup Hosts
    /\ {"none", "blank", "partial"} \cap Templates = {}
    /\ MaxTries \in Nat \ {0} /\ MaxFaults \in Nat

VARIABLES
    base,           \* what the base volume holds: a template's installation, ...
    def,            \* the definition of the template domain
    running,        \* the distributions whose template domain runs
    overlay,        \* those whose domain writes to its snapshot, not to the base
    script,         \* whose answers the installer reads
    vol, disk,      \* of a host: its volume; what its running domain has open
    hostDef,        \* the hosts that have a domain
    hostsFile,      \* the autogenerated part of /etc/hosts
    pc,
    todo,           \* templates to build
    cur,            \* the template in hand
    built,          \* the templates built in this cycle
    queue, host,    \* hosts to make, and the one in hand
    held,           \* the hosts handed over
    n,              \* attempts, or interfaces, so far
    cut,            \* ghost: an installation was cut short
    flat,           \* ghost: a snapshot was not made
    faults

baseVars == <<base, def, running, overlay, script>>
hostVars == <<vol, disk, hostDef, hostsFile>>
loopVars == <<todo, cur, built, queue, host, held, n>>
ghosts   == <<cut, flat>>
vars == <<base, def, running, overlay, script, vol, disk, hostDef, hostsFile, pc,
          todo, cur, built, queue, host, held, n, cut, flat, faults>>

TemplatePhases == {"volume", "script", "find", "define", "start", "install", "undefine",
                   "final", "boot", "snapshot", "off"}
HostPhases == {"residue", "create", "domain", "address", "reach", "wakeup", "etc"}

TypeOK ==
    /\ base \in [Distros -> {"none", "blank", "partial"} \cup Templates]
    /\ def \in [Distros -> {"none", "install", "final"}]
    /\ running \subseteq Distros /\ overlay \subseteq Distros
    /\ script \in [Distros -> Templates \cup {None}]
    /\ vol \in [Hosts -> {"none", "fresh", "stale"}]
    /\ disk \in [Hosts -> {"none", "fresh", "stale"}]
    /\ hostDef \subseteq Hosts
    /\ hostsFile \in Seq(Ips \X Hosts)
    /\ pc \in {"templates", "hosts", "shutdown", "down"} \cup TemplatePhases \cup HostPhases
    /\ todo \subseteq Templates /\ cur \in Templates \cup {None} /\ built \subseteq Templates
    /\ queue \subseteq Hosts /\ host \in Hosts \cup {None} /\ held \in Seq(Hosts)
    /\ n \in Nat
    /\ cut \subseteq Distros /\ flat \subseteq Distros
    /\ faults \in 0..MaxFaults
    \* a domain that runs is defined, and so is what it runs on
    /\ \A d \in running : def[d] # "none" /\ base[d] # "none"
    /\ \A h \in Hosts : disk[h] # "none" => h \in hostDef

Init ==
    /\ base = [d \in Distros |-> "none"] /\ def = [d \in Distros |-> "none"]
    /\ running = {} /\ overlay = {}
    /\ script = [d \in Distros |-> None]
    /\ vol = [h \in Hosts |-> "none"] /\ disk = [h \in Hosts |-> "none"]
    /\ hostDef = {} /\ hostsFile = <<>>
    /\ pc = "templates" /\ todo = Templates /\ cur = None /\ built = {}
    /\ queue = {} /\ host = None /\ held = <<>> /\ n = 0
    /\ cut = {} /\ flat = {} /\ faults = 0

Fault == faults < MaxFaults /\ faults' = faults + 1

D == DistroOf[cur]

-----------------------------------------------------------------------------
(***************************************************************************)
(* build_image and Template::new.                                           *)
(***************************************************************************)
PickTemplate(t) ==
    /\ pc = "templates" /\ t \in todo
    /\ cur' = t /\ todo' = todo \ {t}
    /\ pc' = "volume"
    /\ UNCHANGED <<baseVars, hostVars, built, queue, host, held, n, ghosts, faults>>

\* Volume::ensure.
EnsureVolume ==
    /\ pc = "volume"
    /\ base' = [base EXCEPT ![D] = IF @ = "none" THEN "blank" ELSE @]
    /\ pc' = "script"
    /\ UNCHANGED <<def, running, overlay, script, hostVars, loopVars, ghosts, faults>>

\* KSFloppy::new, YastFlash::new: one image per distribution, made anew.
WriteScript ==
    /\ pc = "script"
    /\ script' = [script EXCEPT ![D] = cur]
    /\ pc' = "find"
    /\ UNCHANGED <<base, def, running, overlay, hostVars, loopVars, ghosts, faults>>

\* Whatever domain of that name there is is taken to be the finished one.  That
\* it cannot be destroyed is only worth a warning.
FindDomain ==
    /\ pc = "find" /\ def[D] # "none"
    /\ \/ running' = running \ {D} /\ UNCHANGED faults
       \/ D \in running /\ UNCHANGED running /\ Fault
    /\ pc' = "final"
    /\ UNCHANGED <<base, def, overlay, script, hostVars, loopVars, ghosts>>

DefineInstaller ==
    /\ pc = "find" /\ def[D] = "none"
    /\ def' = [def EXCEPT ![D] = "install"]
    /\ pc' = "start"
    /\ UNCHANGED <<base, running, overlay, script, hostVars, loopVars, ghosts, faults>>

StartInstaller ==
    /\ pc = "start"
    /\ running' = running \cup {D}
    /\ pc' = "install"
    /\ UNCHANGED <<base, def, overlay, script, hostVars, loopVars, ghosts, faults>>

\* Not the code: the loop ends though the domain is still running.
AwaitInstaller_NoWait ==
    /\ pc = "install"
    /\ pc' = "undefine"
    /\ UNCHANGED <<baseVars, hostVars, loopVars, ghosts, faults>>

\* The loop over virDomainGetState ends when the guest is shut off.
AwaitInstaller ==
    /\ pc = "install" /\ D \notin running
    /\ pc' = "undefine"
    /\ UNCHANGED <<baseVars, hostVars, loopVars, ghosts, faults>>

UndefineInstaller ==
    /\ pc = "undefine"
    /\ def' = [def EXCEPT ![D] = "none"]
    /\ pc' = "final"
    /\ UNCHANGED <<base, running, overlay, script, hostVars, loopVars, ghosts, faults>>

DefineFinal ==
    /\ pc = "final"
    /\ def' = [def EXCEPT ![D] = IF @ = "none" THEN "final" ELSE @]
    /\ pc' = "boot"
    /\ UNCHANGED <<base, running, overlay, script, hostVars, loopVars, ghosts, faults>>

\* let _ = virDomainCreate(new_dom)
BootTemplate ==
    /\ pc = "boot"
    /\ \/ running' = running \cup {D} /\ UNCHANGED faults
       \/ UNCHANGED running /\ Fault
    /\ pc' = "snapshot"
    /\ UNCHANGED <<base, def, overlay, script, hostVars, loopVars, ghosts>>

\* Not the code: the snapshot is not made.
Snapshot_Skipped ==
    /\ pc = "snapshot"
    /\ pc' = "off"
    /\ UNCHANGED <<baseVars, hostVars, loopVars, ghosts, faults>>

\* DomainSnapshot::ensure: external, of a running guest.  The pointer that
\* virDomainSnapshotCreateXML returns is not looked at.
Snapshot ==
    /\ pc = "snapshot"
    /\ \/ D \in overlay \cup running /\ overlay' = overlay \cup {D} /\ UNCHANGED <<flat, faults>>
       \/ D \notin overlay \cup running /\ flat' = flat \cup {D} /\ UNCHANGED <<overlay, faults>>
       \/ D \notin overlay /\ flat' = flat \cup {D} /\ Fault /\ UNCHANGED overlay
    /\ pc' = "off"
    /\ UNCHANGED <<base, def, running, script, hostVars, loopVars, cut>>

\* try!(dom.destroy())
TemplateDone ==
    /\ pc = "off"
    /\ \/ running' = running \ {D} /\ built' = built \cup {cur} /\ UNCHANGED faults
       \/ D \in running /\ Fault /\ UNCHANGED <<running, built>>
    /\ cur' = None
    /\ pc' = "templates"
    /\ UNCHANGED <<base, def, overlay, script, hostVars, todo, queue, host, held, n, ghosts>>

\* The cycle is over, all its clusters have had their turn: the templates are
\* made anew.
NextCycle ==
    /\ pc = "templates" /\ todo = {}
    /\ todo' = Templates /\ built' = {}
    /\ UNCHANGED <<baseVars, hostVars, pc, cur, queue, host, held, n, ghosts, faults>>

-----------------------------------------------------------------------------
(***************************************************************************)
(* Host::new.  "fresh" is what this call has created; what it finds is      *)
(* "stale".                                                                 *)
(***************************************************************************)

\* A cluster that has to run, with the hosts whose template was built.
StartCluster(hs) ==
    /\ pc = "templates" /\ todo = {}
    /\ \A h \in hs : TemplateOf[h] \in built
    /\ queue' = hs /\ held' = <<>>
    /\ pc' = "hosts"
    /\ UNCHANGED <<baseVars, hostVars, todo, cur, built, host, n, ghosts, faults>>

Aged(s) == [s EXCEPT ![host'] = IF @ = "none" THEN "none" ELSE "stale"]

StartHost(h) ==
    /\ pc = "hosts" /\ h \in queue
    /\ host' = h /\ queue' = queue \ {h}
    /\ vol' = Aged(vol) /\ disk' = Aged(disk)
    /\ pc' = "residue"
    /\ UNCHANGED <<baseVars, hostDef, hostsFile, todo, cur, built, held, n, ghosts, faults>>

\* run_cluster returns, with Err or without: another cluster, or the next cycle.
Return ==
    /\ host' = None
    /\ queue' = {} /\ held' = <<>>
    /\ pc' = "templates"

\* Not the code: the residue is used again.
DeleteResidue_Kept ==
    /\ pc = "residue"
    /\ pc' = "create"
    /\ UNCHANGED <<baseVars, hostVars, loopVars, ghosts, faults>>

\* The volume goes; a domain that has it open keeps the file.
DeleteResidue ==
    /\ pc = "residue"
    /\ vol' = [vol EXCEPT ![host] = "none"]
    /\ pc' = "create"
    /\ UNCHANGED <<baseVars, disk, hostDef, hostsFile, loopVars, ghosts, faults>>

\* Volume::create_descendant: of the base volume, which it names as its
\* backing store.  Whether there is one then is not looked at.
CreateDescendant ==
    /\ pc = "create"
    /\ \/ vol' = [vol EXCEPT ![host] = IF @ = "none" THEN "fresh" ELSE @] /\ UNCHANGED faults
       \/ vol[host] = "none" /\ UNCHANGED vol /\ Fault
    /\ pc' = "domain"
    /\ UNCHANGED <<baseVars, disk, hostDef, hostsFile, loopVars, ghosts>>

\* Domain::boot_with_root_vol: a domain that is active is rebooted, with the
\* disk it has; one that is not, or that was only just defined, is started.
BootHost ==
    /\ pc = "domain"
    /\ \/ disk[host] # "none" /\ UNCHANGED disk
       \/ /\ disk[host] = "none" /\ vol[host] # "none"
          /\ disk' = [disk EXCEPT ![host] = vol[host]]
    /\ hostDef' = hostDef \cup {host}
    /\ n' = 0
    /\ pc' = "address"
    /\ UNCHANGED <<baseVars, vol, hostsFile, todo, cur, built, queue, host, held, ghosts,
                   faults>>

\* A libvirt call fails before the domain runs, as it must without a volume.
BootFails ==
    /\ pc \in {"residue", "domain"}
    /\ \/ pc = "domain" /\ vol[host] = "none" /\ disk[host] = "none" /\ UNCHANGED faults
       \/ Fault
    /\ hostDef' \in {hostDef, IF pc = "domain" THEN hostDef \cup {host} ELSE hostDef}
    /\ Return
    /\ UNCHANGED <<baseVars, vol, disk, hostsFile, todo, cur, built, n, ghosts>>

\* Network::ip_linked_to_mac: the guest has not asked for an address yet.  When
\* it has not in the end, unwrap panics: a Crash.
NoLease ==
    /\ pc = "address" /\ n < MaxTries
    /\ n' = n + 1
    /\ UNCHANGED <<baseVars, hostVars, pc, todo, cur, built, queue, host, held, ghosts, faults>>

\* Domain::ip_in_network; the seeds for sessions are given the address.
GetsAddress ==
    /\ pc = "address"
    /\ n' = 0
    /\ pc' = "reach"
    /\ UNCHANGED <<baseVars, hostVars, todo, cur, built, queue, host, held, ghosts, faults>>

\* Not the code: there is no last attempt.
TryAgain_Forever ==
    /\ pc = "reach"
    /\ n' = (n + 1) % MaxTries
    /\ UNCHANGED <<baseVars, hostVars, pc, todo, cur, built, queue, host, held, ghosts, faults>>

\* The loop 'try_adaption: no session yet.  After the last attempt it goes on
\* all the same.
TryAgain ==
    /\ pc = "reach"
    /\ n' = IF n + 1 < MaxTries THEN n + 1 ELSE 0
    /\ pc' = IF n + 1 < MaxTries THEN "reach" ELSE "etc"
    /\ UNCHANGED <<baseVars, hostVars, todo, cur, built, queue, host, held, ghosts, faults>>

\* A session, and adapt_network_state is Ok.
Adapt ==
    /\ pc = "reach"
    /\ n' = 0
    /\ pc' = "etc"
    /\ UNCHANGED <<baseVars, hostVars, todo, cur, built, queue, host, held, ghosts, faults>>

\* It is Err: 'wait_wakeup.
AdaptFails ==
    /\ pc = "reach"
    /\ Fault
    /\ n' = 0
    /\ pc' = "wakeup"
    /\ UNCHANGED <<baseVars, hostVars, todo, cur, built, queue, host, held, ghosts>>

\* One session is enough; the network is not adapted a second time.
WokenUp ==
    /\ pc = "wakeup"
    /\ n' = 0
    /\ pc' = "etc"
    /\ UNCHANGED <<baseVars, hostVars, todo, cur, built, queue, host, held, ghosts, faults>>

NotYetUp ==
    /\ pc = "wakeup" /\ n + 1 < MaxTries
    /\ n' = n + 1
    /\ UNCHANGED <<baseVars, hostVars, pc, todo, cur, built, queue, host, held, ghosts, faults>>

NeverUp ==
    /\ pc = "wakeup" /\ n + 1 = MaxTries
    /\ n' = 0
    /\ Return
    /\ UNCHANGED <<baseVars, hostVars, todo, cur, built, ghosts, faults>>

\* The last line that begins with the address is taken out, and the new one
\* appended.  The pattern is the bare address: "10.0.0.1" begins "10.0.0.10".
WithEntry(lines, ip, h) ==
    LET alike == {k \in DOMAIN lines : <<lines[k][1], ip>> \in LooksLike}
        last  == CHOOSE k \in alike : \A l \in alike : l <= k
        rest  == IF alike = {} THEN lines
                 ELSE SubSeq(lines, 1, last - 1) \o SubSeq(lines, last + 1, Len(lines))
    IN  Append(rest, <<ip, h>>)

UpdateHostsFile ==
    /\ pc = "etc" /\ n < Len(IpsOf[host])
    /\ hostsFile' = WithEntry(hostsFile, IpsOf[host][n + 1], host)
    /\ n' = n + 1
    /\ UNCHANGED <<baseVars, vol, disk, hostDef, pc, todo, cur, built, queue, host, held,
                   ghosts, faults>>

UpdateFails ==
    /\ pc = "etc" /\ n < Len(IpsOf[host])
    /\ Fault
    /\ n' = 0
    /\ Return
    /\ UNCHANGED <<baseVars, hostVars, todo, cur, built, ghosts>>

\* Not the code: the last address is left out.
HandOver_OneShort ==
    /\ pc = "etc" /\ n + 1 = Len(IpsOf[host])
    /\ held' = Append(held, host)
    /\ host' = None /\ n' = 0
    /\ pc' = "hosts"
    /\ UNCHANGED <<baseVars, hostVars, todo, cur, built, queue, ghosts, faults>>

\* Ok(Host { .. })
HandOver ==
    /\ pc = "etc" /\ n = Len(IpsOf[host])
    /\ held' = Append(held, host)
    /\ host' = None /\ n' = 0
    /\ pc' = "hosts"
    /\ UNCHANGED <<baseVars, hostVars, todo, cur, built, queue, ghosts, faults>>

-----------------------------------------------------------------------------
(***************************************************************************)
(* Host::shutdown, in the order in which the hosts were handed over.        *)
(***************************************************************************)
TestsDone ==
    /\ pc = "hosts" /\ queue = {}
    /\ pc' = "shutdown"
    /\ UNCHANGED <<baseVars, hostVars, loopVars, ghosts, faults>>

\* Not the code: the guest is asked to shut down, and nobody waits for it.
Shutdown_Asked ==
    /\ pc = "shutdown" /\ held # <<>>
    /\ held' = Tail(held)
    /\ UNCHANGED <<baseVars, hostVars, pc, todo, cur, built, queue, host, n, ghosts, faults>>

Shutdown ==
    /\ pc = "shutdown" /\ held # <<>>
    /\ disk' = [disk EXCEPT ![Head(held)] = "none"]
    /\ held' = Tail(held)
    /\ UNCHANGED <<baseVars, vol, hostDef, hostsFile, pc, todo, cur, built, queue, host, n,
                   ghosts, faults>>

ShutdownFails ==
    /\ pc = "shutdown" /\ held # <<>>
    /\ Fault
    /\ Return
    /\ UNCHANGED <<baseVars, hostVars, todo, cur, built, n, ghosts>>

ClusterDone ==
    /\ pc = "shutdown" /\ held = <<>>
    /\ Return
    /\ UNCHANGED <<baseVars, hostVars, todo, cur, built, n, ghosts, faults>>

-----------------------------------------------------------------------------
(***************************************************************************)
(* The guests, and the end of the process.                                  *)
(***************************************************************************)

\* An installer that runs writes to its disk ...
Installs(d) ==
    /\ d \in running /\ def[d] = "install" /\ base[d] # "partial" /\ d \notin overlay
    /\ base' = [base EXCEPT ![d] = "partial"]
    /\ UNCHANGED <<def, running, overlay, script, hostVars, pc, loopVars, ghosts, faults>>

\* ... and powers off when it is through, where its answers say so.
InstallerEnds(d) ==
    /\ d \in running /\ def[d] = "install" /\ script[d] \in PowersOff
    /\ base[d] = "partial" \/ d \in overlay
    /\ base' = [base EXCEPT ![d] = IF d \in overlay THEN @ ELSE script[d]]
    /\ running' = running \ {d}
    /\ UNCHANGED <<def, overlay, script, hostVars, pc, loopVars, ghosts, faults>>

\* Where they say reboot, the domain goes on running, and begins again from the
\* kernel it was defined with: that of the installation.
InstallerReboots(d) ==
    /\ d \in running /\ def[d] = "install" /\ script[d] \notin PowersOff
    /\ base[d] = "partial" /\ d \notin overlay
    /\ base' = [base EXCEPT ![d] = script[d]]
    /\ UNCHANGED <<def, running, overlay, script, hostVars, pc, loopVars, ghosts, faults>>

\* A panic.  From DefineInstaller to UndefineInstaller it cuts an installation
\* short, as far as the next process can see.
Crash ==
    /\ pc # "down"
    /\ Fault
    /\ cut' = IF pc \in {"start", "install", "undefine"} THEN cut \cup {D} ELSE cut
    /\ pc' = "down"
    /\ todo' = {} /\ cur' = None /\ built' = {} /\ queue' = {} /\ host' = None
    /\ held' = <<>> /\ n' = 0
    /\ UNCHANGED <<baseVars, hostVars, flat>>

Restart ==
    /\ pc = "down"
    /\ pc' = "templates" /\ todo' = Templates
    /\ UNCHANGED <<baseVars, hostVars, cur, built, queue, host, held, n, ghosts, faults>>

TemplateStep ==
    \/ EnsureVolume \/ WriteScript \/ FindDomain \/ DefineInstaller \/ StartInstaller
    \/ AwaitInstaller \/ UndefineInstaller \/ DefineFinal \/ BootTemplate \/ Snapshot
    \/ TemplateDone \/ NextCycle
    \/ \E t \in Templates : PickTemplate(t)

HostStep ==
    \/ DeleteResidue \/ CreateDescendant \/ BootHost \/ BootFails
    \/ NoLease \/ GetsAddress \/ TryAgain \/ Adapt \/ AdaptFails \/ WokenUp \/ NotYetUp \/ NeverUp
    \/ UpdateHostsFile \/ UpdateFails \/ HandOver
    \/ TestsDone \/ Shutdown \/ ShutdownFails \/ ClusterDone
    \/ \E hs \in SUBSET Hosts : StartCluster(hs)
    \/ \E h \in Hosts : StartHost(h)

Installer(d) == Installs(d) \/ InstallerEnds(d) \/ InstallerReboots(d)

GuestStep == \E d \in Distros : Installer(d)

Next == TemplateStep \/ HostStep \/ GuestStep \/ Crash \/ Restart

Spec == Init /\ [][Next]_vars

\* The process goes on as long as it lives, and so do the guests that install;
\* which of them power off in the end is for PowersOff to say.
FairSpec ==
    /\ Spec
    /\ WF_vars(TemplateStep \/ HostStep)
    /\ \A d \in Distros : WF_vars(Installer(d))

-----------------------------------------------------------------------------
(***************************************************************************)
(* Properties.                                                              *)
(***************************************************************************)

\* A template that hosts are made from is a finished installation, however
\* often processes died and others went on from what they found; unless one
\* died between the definition and the removal of the installer.
BuiltIsInstalled ==
    \A t \in built : LET d == DistroOf[t] IN
        d \in cut \/ (base[d] \in Templates /\ DistroOf[base[d]] = d)

\* Nothing writes to a base volume any more once a host's volume is backed by
\* it: the template domain, booted in every cycle, writes to its snapshot;
\* unless that was not made.
BackingIsStill ==
    \A h \in Hosts : LET d == DistroOf[TemplateOf[h]] IN
        vol[h] # "none" => d \notin running \ overlay \/ d \in flat

\* The volume of a host that is handed over is never one that an earlier run has
\* left, whatever failed then; and as long as nothing did, so that every earlier
\* run has shut it down, it is the one its domain runs on.
HandedOverFresh ==
    pc = "hosts" => \A k \in DOMAIN held :
        vol[held[k]] # "stale" /\ (faults > 0 \/ disk[held[k]] = "fresh")

\* The steps of Template::new, Host::new and Host::shutdown add up to what
\* module Turn, and with it Manager, takes them for: a domain is up from its
\* boot to its shutdown, whatever is retried in between; only hosts with a
\* template are booted; and the calls that give a host up without an error of
\* their own, a boot without a volume and a guest that never wakes up, come
\* after a failure.
InTurn == pc \in {"hosts", "shutdown"} \cup HostPhases

TurnPhase  == IF ~InTurn THEN "idle" ELSE IF pc = "shutdown" THEN "closing" ELSE "booting"
TurnUsable == IF InTurn THEN {h \in Hosts : TemplateOf[h] \in built} ELSE {}
TurnUp     == {h \in Hosts : disk[h] # "none"}

\* Those that this turn has booted: the ones held, and the one in hand.
TurnMine ==
    {h \in TurnUp : \/ \E k \in DOMAIN held : held[k] = h
                    \/ pc \in {"address", "reach", "wakeup", "etc"} /\ h = host}

Machines == INSTANCE Turn WITH
    phase <- TurnPhase, usable <- TurnUsable, up <- TurnUp, mine <- TurnMine,
    clean <- faults = 0

TurnsKept == Machines!Spec

\* An installation that nobody but the process itself can end.
Reinstalling == pc = "install" /\ cur \notin PowersOff

\* The building of a template ends, and so does the turn of a cluster, whether
\* its hosts can be reached or not; but not where the process waits for the end
\* of an installation that begins again each time it is through.
TurnsEnd == pc # "templates" ~> pc \in {"templates", "down"} \/ Reinstalling

\* src/distro/opensuse/release_13/x86_64/mod.rs:288, next to a start time, before
\* the loop that waits for the installation: "let _timeout_secs = 60 * 10;".
InstallationsEnd == pc = "install" ~> pc # "install"

\* src/flota/entity/host.rs:35, before the volume is made that the host is to
\* boot from: "if residue found, delete it."
RunsOnItsVolume == pc = "hosts" => \A k \in DOMAIN held : disk[held[k]] = "fresh"

\* src/distro/centos/release_6/x86_64/mod.rs:321: "adjust so as to be utilised as
\* a template", of the domain that is then booted.
AdjustedAsTemplate == pc = "boot" => def[D] = "final"

\* src/util/mod.rs:40-42: "Update /etc/hosts file on host side [...] to enable
\* ssh login guest node just specifying its hostname."
KnownByName ==
    pc = "hosts" => \A k \in DOMAIN held : \A l \in DOMAIN IpsOf[held[k]] :
        \E m \in DOMAIN hostsFile : hostsFile[m] = <<IpsOf[held[k]][l], held[k]>>
=============================================================================
