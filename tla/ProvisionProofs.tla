---------------------------- MODULE ProvisionProofs ----------------------------
(***************************************************************************)
(* That hosts are never made from an installation that did not finish, and  *)
(* that nothing writes to what hosts are backed by, for any number of       *)
(* distributions, templates and hosts, and of processes that die and are    *)
(* started again.                                                           *)
(*                                                                          *)
(* What makes BuiltIsInstalled inductive is what the next process can read  *)
(* off the domain that it finds: one that is final says that the base       *)
(* volume holds an installation, and one that installs says that somebody   *)
(* is waiting for it, unless that process was cut short.                    *)
(***************************************************************************)
EXTENDS Provision, TLAPS, SequenceTheorems, WellFoundedInduction

Types ==
    /\ base \in [Distros -> {"none", "blank", "partial"} \cup Templates]
    /\ def \in [Distros -> {"none", "install", "final"}]
    /\ script \in [Distros -> Templates \cup {None}]
    /\ running \subseteq Distros /\ overlay \subseteq Distros /\ cut \subseteq Distros
    /\ cur \in Templates \cup {None} /\ todo \subseteq Templates /\ built \subseteq Templates
    /\ pc \in TemplatePhases => cur \in Templates

Installed(d) == base[d] \in Templates /\ DistroOf[base[d]] = d

Installing == {"start", "install", "undefine"}

\* Whatever was cut short: nothing runs that is not defined, installers have
\* answers to read, and the process finds what it has defined itself.
Domains ==
    /\ \A d \in Distros : def[d] = "none" => d \notin running
    /\ \A d \in Distros : def[d] = "install" => script[d] \in Templates
    /\ pc = "undefine" => D \notin running
    /\ pc \in Installing => def[D] = "install"
    /\ pc \in {"boot", "snapshot", "off"} => def[D] # "none"
    /\ pc \in {"find"} \cup Installing => script[D] = cur

\* What the definition of a domain stands for.
Defined(d) ==
    /\ def[d] = "install" => pc \in Installing /\ d = D
    /\ def[d] = "final" => Installed(d)
    /\ d \in overlay => def[d] = "final"

\* What the process knows of the domain in hand.
InHand(d) ==
    /\ pc = "start" => d \notin running
    /\ pc = "install" => d \in running \/ Installed(d)
    /\ pc \in {"undefine", "final"} => Installed(d)
    /\ pc \in {"boot", "snapshot", "off"} => def[d] = "final"

Kept ==
    /\ \A d \in Distros \ cut : Defined(d)
    /\ pc \in TemplatePhases /\ D \notin cut => InHand(D)
    /\ \A t \in built : DistroOf[t] \in cut \/ def[DistroOf[t]] = "final"

BuildInv == Types /\ Domains /\ Kept

-----------------------------------------------------------------------------
LEMMA InitBuild == Init => BuildInv
BY ConstantsAssumption
DEF Init, BuildInv, Types, Domains, Kept, Defined, InHand, Installing, TemplatePhases

\* The guests act on their own.
LEMMA GuestBuild == BuildInv /\ GuestStep => BuildInv'
<1> SUFFICES ASSUME BuildInv, NEW d \in Distros, Installer(d)
             PROVE  BuildInv'
    BY DEF GuestStep
<1> USE ConstantsAssumption DEF BuildInv, Types, hostVars, loopVars, ghosts
<1>1. CASE Installs(d)
    <2> USE <1>1 DEF Installs
    <2>1. Types' /\ Domains'
        BY DEF Domains, D, Installing, TemplatePhases
    <2>2. Kept'
        BY DEF Domains, Kept, Defined, InHand, Installed, Installing, TemplatePhases, D
    <2> QED BY <2>1, <2>2
<1>2. CASE InstallerEnds(d)
    <2> USE <1>2 DEF InstallerEnds
    <2>1. d \notin cut => pc = "install" /\ d = D /\ d \notin overlay /\ script[d] = cur
                          /\ cur \in Templates
        BY DEF Domains, Kept, Defined, InHand, Installing, TemplatePhases, D
    <2>2. Types' /\ Domains'
        BY DEF Domains, D, TemplatePhases, Installing
    <2>3. Kept'
        BY <2>1 DEF Kept, Defined, InHand, Installed, Installing, TemplatePhases, D
    <2> QED BY <2>2, <2>3
<1>3. CASE InstallerReboots(d)
    <2> USE <1>3 DEF InstallerReboots
    <2>1. d \notin cut => pc = "install" /\ d = D /\ script[d] = cur /\ cur \in Templates
        BY DEF Domains, Kept, Defined, InHand, Installing, TemplatePhases, D
    <2>2. Types' /\ Domains'
        BY DEF Domains, D, TemplatePhases, Installing
    <2>3. Kept'
        BY <2>1 DEF Kept, Defined, InHand, Installed, Installing, TemplatePhases, D
    <2> QED BY <2>2, <2>3
<1> QED BY <1>1, <1>2, <1>3 DEF Installer

\* build_image and Template::new.
LEMMA TemplateBuild == BuildInv /\ TemplateStep => BuildInv'
<1> SUFFICES ASSUME BuildInv, TemplateStep
             PROVE  BuildInv'
    OBVIOUS
<1> USE ConstantsAssumption
    DEF BuildInv, Types, Domains, Kept, Defined, InHand, Installed, Installing,
        TemplatePhases, D, hostVars, loopVars, ghosts, Fault
<1>1. ASSUME NEW t \in Templates, PickTemplate(t)
      PROVE  BuildInv'
    BY <1>1 DEF PickTemplate, baseVars
<1>2. CASE EnsureVolume
    BY <1>2 DEF EnsureVolume
<1>3. CASE WriteScript
    BY <1>3 DEF WriteScript
<1>4. CASE FindDomain
    BY <1>4 DEF FindDomain
<1>5. CASE DefineInstaller
    BY <1>5 DEF DefineInstaller
<1>6. CASE StartInstaller
    BY <1>6 DEF StartInstaller
<1>7. CASE AwaitInstaller
    BY <1>7 DEF AwaitInstaller, baseVars
<1>8. CASE UndefineInstaller
    BY <1>8 DEF UndefineInstaller
<1>9. CASE DefineFinal
    BY <1>9 DEF DefineFinal
<1>10. CASE BootTemplate
    BY <1>10 DEF BootTemplate
<1>11. CASE Snapshot
    BY <1>11 DEF Snapshot
<1>12. CASE TemplateDone
    BY <1>12 DEF TemplateDone
<1>13. CASE NextCycle
    BY <1>13 DEF NextCycle, baseVars
<1> QED
    BY <1>1, <1>2, <1>3, <1>4, <1>5, <1>6, <1>7, <1>8, <1>9, <1>10, <1>11, <1>12, <1>13
    DEF TemplateStep

\* Hosts come and go without the base volumes being touched.
BasesAlone ==
    /\ UNCHANGED <<baseVars, cut, cur, todo, built>>
    /\ pc \notin TemplatePhases /\ pc' \notin TemplatePhases

LEMMA HostFrame ==
    ASSUME HostStep
    PROVE  BasesAlone
<1> USE DEF BasesAlone, baseVars, hostVars, loopVars, ghosts, TemplatePhases, Return
<1>1. CASE DeleteResidue \/ CreateDescendant \/ BootHost \/ BootFails
    BY <1>1 DEF DeleteResidue, CreateDescendant, BootHost, BootFails
<1>2. CASE NoLease \/ GetsAddress \/ TryAgain \/ Adapt \/ AdaptFails \/ WokenUp \/ NotYetUp \/ NeverUp
    BY <1>2 DEF NoLease, GetsAddress, TryAgain, Adapt, AdaptFails, WokenUp, NotYetUp, NeverUp
<1>3. CASE UpdateHostsFile \/ UpdateFails \/ HandOver
    BY <1>3 DEF UpdateHostsFile, UpdateFails, HandOver
<1>4. CASE TestsDone \/ Shutdown \/ ShutdownFails \/ ClusterDone
    BY <1>4 DEF TestsDone, Shutdown, ShutdownFails, ClusterDone
<1>5. ASSUME NEW hs \in SUBSET Hosts, StartCluster(hs)
      PROVE  BasesAlone
    BY <1>5 DEF StartCluster
<1>6. ASSUME NEW h \in Hosts, StartHost(h)
      PROVE  BasesAlone
    BY <1>6 DEF StartHost
<1> QED
    BY <1>1, <1>2, <1>3, <1>4, <1>5, <1>6 DEF HostStep

LEMMA NextBuild == BuildInv /\ [Next]_vars => BuildInv'
<1> SUFFICES ASSUME BuildInv, [Next]_vars
             PROVE  BuildInv'
    OBVIOUS
<1>1. CASE TemplateStep
    BY <1>1, TemplateBuild
<1>2. CASE GuestStep
    BY <1>2, GuestBuild
<1>3. CASE HostStep
    BY <1>3, HostFrame
    DEF BasesAlone, baseVars, BuildInv, Types, Domains, Kept, Defined, InHand, Installed,
        Installing, TemplatePhases, D
<1>4. CASE Crash
    <2> USE <1>4 DEF Crash, baseVars, hostVars, BuildInv, Types, Installing, TemplatePhases
    <2>1. pc \in Installing => D \in Distros
        BY ConstantsAssumption DEF D
    <2>2. Types' /\ Domains'
        BY <2>1 DEF Domains
    <2>3. ASSUME NEW d \in Distros \ cut'
          PROVE  Defined(d)'
        BY DEF Kept, Defined, Installed
    <2>4. Kept'
        BY <2>3 DEF Kept
    <2> QED
        BY <2>2, <2>4
<1>5. CASE Restart
    BY <1>5
    DEF Restart, baseVars, hostVars, ghosts, BuildInv, Types, Domains, Kept, Defined,
        InHand, Installed, Installing, TemplatePhases, D
<1>6. CASE UNCHANGED vars
    BY <1>6
    DEF vars, BuildInv, Types, Domains, Kept, Defined, InHand, Installed, Installing, D
<1> QED
    BY <1>1, <1>2, <1>3, <1>4, <1>5, <1>6 DEF Next

LEMMA BuildAlways == Spec => []BuildInv
BY InitBuild, NextBuild, PTL DEF Spec

-----------------------------------------------------------------------------
\* Templates that count as built are finished installations of their
\* distribution, whatever died and was started again on the way, unless an
\* installation was cut short: build_image goes by the domain it finds.
THEOREM BuiltIsInstalledAlways == Spec => []BuiltIsInstalled
<1>1. BuildInv => BuiltIsInstalled
    BY ConstantsAssumption DEF BuildInv, Types, Kept, Defined, Installed, BuiltIsInstalled
<1> QED
    BY <1>1, BuildAlways, PTL

-----------------------------------------------------------------------------
(***************************************************************************)
(* The volumes that hosts are backed by.  A snapshot, once made, is there   *)
(* for good; a template is built, and a host made from it, only after one   *)
(* was asked for.                                                           *)
(***************************************************************************)
Asked == overlay \cup flat

StillInv ==
    /\ vol \in [Hosts -> {"none", "fresh", "stale"}]
    /\ queue \subseteq Hosts /\ host \in Hosts \cup {None}
    /\ pc \in HostPhases => host \in Hosts
    /\ pc \notin HostPhases \cup {"hosts", "shutdown"} => queue = {} /\ host = None
    /\ pc = "off" => D \in Asked
    /\ \A t \in built : DistroOf[t] \in Asked
    /\ \A h \in queue : TemplateOf[h] \in built
    /\ host # None => TemplateOf[host] \in built
    /\ \A h \in Hosts : vol[h] # "none" => DistroOf[TemplateOf[h]] \in Asked

LEMMA InitStill == Init => StillInv
BY ConstantsAssumption DEF Init, StillInv, HostPhases

LEMMA TemplateStill == StillInv /\ TemplateStep => StillInv'
<1> SUFFICES ASSUME StillInv, TemplateStep
             PROVE  StillInv'
    OBVIOUS
<1> USE ConstantsAssumption DEF StillInv, Asked, HostPhases, D, baseVars, hostVars, ghosts
<1>1. ASSUME NEW t \in Templates, PickTemplate(t)
      PROVE  StillInv'
    BY <1>1 DEF PickTemplate
<1>2. CASE EnsureVolume \/ WriteScript \/ FindDomain \/ DefineInstaller \/ StartInstaller
    BY <1>2 DEF EnsureVolume, WriteScript, FindDomain, DefineInstaller, StartInstaller,
                loopVars
<1>3. CASE AwaitInstaller \/ UndefineInstaller \/ DefineFinal \/ BootTemplate
    BY <1>3 DEF AwaitInstaller, UndefineInstaller, DefineFinal, BootTemplate, loopVars
<1>4. CASE Snapshot
    BY <1>4 DEF Snapshot, loopVars
<1>5. CASE TemplateDone \/ NextCycle
    BY <1>5 DEF TemplateDone, NextCycle
<1> QED
    BY <1>1, <1>2, <1>3, <1>4, <1>5 DEF TemplateStep

LEMMA HostStill == StillInv /\ HostStep => StillInv'
<1> SUFFICES ASSUME StillInv, HostStep
             PROVE  StillInv'
    OBVIOUS
<1> USE ConstantsAssumption
    DEF StillInv, Asked, HostPhases, D, baseVars, hostVars, ghosts, Return
<1>1. CASE DeleteResidue
    BY <1>1 DEF DeleteResidue, loopVars
<1>2. CASE CreateDescendant
    BY <1>2 DEF CreateDescendant, loopVars
<1>3. CASE BootHost \/ BootFails
    BY <1>3 DEF BootHost, BootFails
<1>4. CASE NoLease \/ GetsAddress \/ TryAgain \/ Adapt \/ AdaptFails \/ WokenUp \/ NotYetUp \/ NeverUp
    BY <1>4 DEF NoLease, GetsAddress, TryAgain, Adapt, AdaptFails, WokenUp, NotYetUp, NeverUp
<1>5. CASE UpdateHostsFile \/ UpdateFails \/ HandOver
    BY <1>5 DEF UpdateHostsFile, UpdateFails, HandOver
<1>6. CASE TestsDone \/ Shutdown \/ ShutdownFails \/ ClusterDone
    BY <1>6 DEF TestsDone, Shutdown, ShutdownFails, ClusterDone, loopVars
<1>7. ASSUME NEW hs \in SUBSET Hosts, StartCluster(hs)
      PROVE  StillInv'
    BY <1>7 DEF StartCluster
<1>8. ASSUME NEW h \in Hosts, StartHost(h)
      PROVE  StillInv'
    BY <1>8 DEF StartHost, Aged
<1> QED
    BY <1>1, <1>2, <1>3, <1>4, <1>5, <1>6, <1>7, <1>8 DEF HostStep

LEMMA NextStill == StillInv /\ [Next]_vars => StillInv'
<1> SUFFICES ASSUME StillInv, [Next]_vars
             PROVE  StillInv'
    OBVIOUS
<1> USE DEF StillInv, Asked, HostPhases, D, baseVars, hostVars, loopVars, ghosts
<1>1. CASE TemplateStep
    BY <1>1, TemplateStill
<1>2. CASE HostStep
    BY <1>2, HostStill
<1>3. CASE GuestStep
    BY <1>3 DEF GuestStep, Installer, Installs, InstallerEnds, InstallerReboots
<1>4. CASE Crash
    BY <1>4 DEF Crash
<1>5. CASE Restart
    BY <1>5 DEF Restart
<1>6. CASE UNCHANGED vars
    BY <1>6 DEF vars
<1> QED
    BY <1>1, <1>2, <1>3, <1>4, <1>5, <1>6 DEF Next

\* Nothing writes to a base volume once a host's volume is backed by it, not
\* even the template domain that every cycle boots: it writes to the snapshot
\* that Template::new ensures, where that was made.
THEOREM BackingIsStillAlways == Spec => []BackingIsStill
<1>1. StillInv => BackingIsStill
    BY DEF StillInv, Asked, BackingIsStill
<1> QED
    BY <1>1, InitStill, NextStill, PTL DEF Spec

-----------------------------------------------------------------------------
(***************************************************************************)
(* The volume of a host that is handed over.  What is behind it is that one *)
(* cluster's hosts are all the hosts there are: as long as nothing failed,  *)
(* a domain that runs is of a host handed over, or of the one in hand.      *)
(***************************************************************************)
Held == {held[k] : k \in DOMAIN held}

Booted == {"address", "reach", "etc"}

HostTypes ==
    /\ vol \in [Hosts -> {"none", "fresh", "stale"}]
    /\ disk \in [Hosts -> {"none", "fresh", "stale"}]
    /\ queue \subseteq Hosts /\ host \in Hosts \cup {None} /\ held \in Seq(Hosts)
    /\ faults \in 0..MaxFaults
    /\ pc \in HostPhases => host \in Hosts
    /\ pc \notin HostPhases \cup {"hosts", "shutdown"} => held = <<>>

\* No host is in two places.
Apart ==
    /\ \A k, l \in DOMAIN held : held[k] = held[l] => k = l
    /\ Held \cap queue = {}
    /\ pc \in HostPhases => host \notin Held \cup queue

VolumesFresh ==
    /\ pc \in HostPhases \cup {"hosts"} => \A h \in Held : vol[h] # "stale"
    /\ pc = "create" => vol[host] = "none"
    /\ pc \in HostPhases \ {"residue"} => vol[host] # "stale"

\* As long as nothing has failed.
DisksFresh ==
    faults = 0 =>
        /\ \A h \in Hosts : disk[h] = IF h \in Held \/ (pc \in Booted /\ h = host)
                                      THEN "fresh" ELSE "none"
        /\ pc \in {"domain"} \cup Booted => vol[host] = "fresh"
        /\ pc \notin {"wakeup", "down"}

FreshInv == HostTypes /\ Apart /\ VolumesFresh /\ DisksFresh

LEMMA FaultCounts ==
    ASSUME faults \in 0..MaxFaults, Fault
    PROVE  faults' \in 0..MaxFaults /\ faults' # 0
BY ConstantsAssumption DEF Fault

LEMMA HeldFacts ==
    /\ held' = held => Held' = Held
    /\ held' = <<>> => Held' = {}
BY DEF Held

\* What HandOver and Shutdown do to the hosts held.
LEMMA AppendHeld ==
    ASSUME held \in Seq(Hosts), NEW h \in Hosts, held' = Append(held, h)
    PROVE  /\ held' \in Seq(Hosts) /\ Held' = Held \cup {h}
           /\ (\A k, l \in DOMAIN held : held[k] = held[l] => k = l) /\ h \notin Held =>
                  \A k, l \in DOMAIN held' : held'[k] = held'[l] => k = l
<1>1. /\ held' \in Seq(Hosts) /\ Len(held') = Len(held) + 1
      /\ \A k \in 1..Len(held) : held'[k] = held[k]
      /\ held'[Len(held) + 1] = h /\ Len(held) \in Nat
    OBVIOUS
<1>2. DOMAIN held' = 1..(Len(held) + 1) /\ DOMAIN held = 1..Len(held)
    BY <1>1
<1>3. DOMAIN held' = DOMAIN held \cup {Len(held) + 1} /\ Len(held) + 1 \notin DOMAIN held
    BY <1>1, <1>2
<1>4. Held' = Held \cup {h}
    BY <1>1, <1>2, <1>3 DEF Held
<1>5. \A k \in DOMAIN held : held'[k] = held[k] /\ (h \notin Held => held[k] # h)
    BY <1>1, <1>2 DEF Held
<1> QED
    BY <1>1, <1>3, <1>4, <1>5

LEMMA TailHeld ==
    ASSUME held \in Seq(Hosts), held # <<>>, held' = Tail(held),
           \A k, l \in DOMAIN held : held[k] = held[l] => k = l
    PROVE  /\ held' \in Seq(Hosts) /\ Head(held) \in Hosts
           /\ Held' = Held \ {Head(held)}
           /\ \A k, l \in DOMAIN held' : held'[k] = held'[l] => k = l
<1>1. /\ held' \in Seq(Hosts) /\ Len(held') = Len(held) - 1 /\ Len(held) \in Nat \ {0}
      /\ \A k \in 1..Len(held') : held'[k] = held[k + 1]
      /\ Head(held) = held[1] /\ Head(held) \in Hosts
    OBVIOUS
<1>2. DOMAIN held' = 1..(Len(held) - 1) /\ DOMAIN held = 1..Len(held)
    BY <1>1
<1>3. ASSUME NEW k \in DOMAIN held'
      PROVE  k + 1 \in DOMAIN held /\ held'[k] = held[k + 1] /\ k + 1 # 1
    BY <1>1, <1>2
<1>4. ASSUME NEW l \in DOMAIN held, l # 1
      PROVE  l - 1 \in DOMAIN held' /\ held'[l - 1] = held[l]
    <2>1. l \in 2..Len(held)
        BY <1>1, <1>2, <1>4
    <2>2. l - 1 \in DOMAIN held' /\ (l - 1) + 1 = l
        BY <1>1, <1>2, <2>1
    <2> QED  BY <1>3, <2>2
<1>5. 1 \in DOMAIN held
    BY <1>1, <1>2
<1>6. Held' = Held \ {Head(held)}
    <2>1. ASSUME NEW x \in Held' PROVE x \in Held \ {Head(held)}
        <3>1. PICK k \in DOMAIN held' : x = held'[k]
            BY DEF Held
        <3> QED  BY <1>1, <1>3, <1>5, <3>1 DEF Held
    <2>2. ASSUME NEW x \in Held, x # Head(held) PROVE x \in Held'
        <3>1. PICK l \in DOMAIN held : x = held[l]
            BY DEF Held
        <3> QED  BY <1>1, <1>4, <2>2, <3>1 DEF Held
    <2> QED  BY <2>1, <2>2
<1>7. \A k, l \in DOMAIN held' : held'[k] = held'[l] => k = l
    BY <1>2, <1>3
<1> QED
    BY <1>1, <1>6, <1>7

LEMMA InitFresh == Init => FreshInv
<1> SUFFICES ASSUME Init PROVE FreshInv
    OBVIOUS
<1>1. Held = {}
    BY DEF Init, Held
<1>2. HostTypes
    BY ConstantsAssumption DEF Init, HostTypes, HostPhases
<1>3. Apart /\ VolumesFresh /\ DisksFresh
    BY <1>1 DEF Init, Apart, VolumesFresh, DisksFresh, HostPhases, Booted
<1> QED
    BY <1>2, <1>3 DEF FreshInv

\* Where the hosts are let go of: nothing runs, or something has failed.
LEMMA LostFresh ==
    ASSUME FreshInv, held' = <<>>, queue' \subseteq Hosts, host' \in Hosts \cup {None},
           UNCHANGED <<vol, disk>>, faults' \in 0..MaxFaults,
           pc' \notin HostPhases \cup {"hosts", "shutdown", "wakeup"},
           \/ faults' # 0
           \/ UNCHANGED faults /\ Held = {} /\ pc \notin Booted /\ pc' # "down"
    PROVE  FreshInv'
<1>1. HostTypes'
    BY DEF FreshInv, HostTypes
<1>2. Apart' /\ VolumesFresh'
    BY HeldFacts DEF Apart, VolumesFresh, HostPhases
<1>3. DisksFresh'
    BY HeldFacts DEF FreshInv, DisksFresh, HostPhases, Booted
<1> QED
    BY <1>1, <1>2, <1>3 DEF FreshInv

\* Templates are not made in a turn, and guests leave hosts alone.
LEMMA TemplateFrame ==
    ASSUME TemplateStep \/ GuestStep \/ Restart
    PROVE  /\ UNCHANGED <<vol, disk, queue, host, held>>
           /\ Fault \/ UNCHANGED faults
           /\ \/ pc' = pc /\ UNCHANGED built
              \/ /\ pc \notin HostPhases \cup {"hosts", "shutdown"}
                 /\ pc' \in {"templates"} \cup TemplatePhases
<1> USE DEF baseVars, hostVars, loopVars, TemplatePhases, HostPhases
<1>1. CASE EnsureVolume \/ WriteScript \/ FindDomain \/ DefineInstaller \/ StartInstaller
    BY <1>1 DEF EnsureVolume, WriteScript, FindDomain, DefineInstaller, StartInstaller
<1>2. CASE AwaitInstaller \/ UndefineInstaller \/ DefineFinal \/ BootTemplate
    BY <1>2 DEF AwaitInstaller, UndefineInstaller, DefineFinal, BootTemplate
<1>3. CASE Snapshot \/ TemplateDone \/ NextCycle \/ Restart
    BY <1>3 DEF Snapshot, TemplateDone, NextCycle, Restart
<1>4. CASE \E t \in Templates : PickTemplate(t)
    BY <1>4 DEF PickTemplate
<1>5. CASE GuestStep
    BY <1>5 DEF GuestStep, Installer, Installs, InstallerEnds, InstallerReboots
<1> QED
    BY <1>1, <1>2, <1>3, <1>4, <1>5 DEF TemplateStep

LEMMA TemplateFresh ==
    ASSUME FreshInv, TemplateStep \/ GuestStep \/ Restart
    PROVE  FreshInv'
<1>1. /\ UNCHANGED <<vol, disk, queue, host, held>>
      /\ Fault \/ UNCHANGED faults
      /\ \/ pc' = pc
         \/ /\ pc \notin HostPhases \cup {"hosts", "shutdown"}
            /\ pc' \in {"templates"} \cup TemplatePhases
    BY TemplateFrame
<1>2. faults' \in 0..MaxFaults /\ (faults' = 0 => faults = 0)
    BY <1>1, FaultCounts DEF FreshInv, HostTypes
<1>3. HostTypes'
    BY <1>1, <1>2 DEF FreshInv, HostTypes, TemplatePhases, HostPhases
<1>4. Apart' /\ VolumesFresh'
    BY <1>1, HeldFacts DEF FreshInv, Apart, VolumesFresh, TemplatePhases, HostPhases
<1>5. DisksFresh'
    BY <1>1, <1>2, HeldFacts DEF FreshInv, DisksFresh, TemplatePhases, HostPhases, Booted
<1> QED
    BY <1>3, <1>4, <1>5 DEF FreshInv

\* From the residue to the domain.
LEMMA MakeFresh ==
    ASSUME FreshInv, DeleteResidue \/ CreateDescendant \/ BootHost \/ BootFails
    PROVE  FreshInv'
<1> USE DEF FreshInv, HostTypes
<1>0. pc \in HostPhases /\ host \in Hosts /\ host \notin Held \cup queue
    BY DEF DeleteResidue, CreateDescendant, BootHost, BootFails, HostPhases, Apart
<1>1. CASE DeleteResidue
    <2>1. HostTypes' /\ Apart'
        BY <1>0, <1>1, HeldFacts DEF DeleteResidue, loopVars, HostPhases, Apart
    <2>2. VolumesFresh' /\ DisksFresh'
        BY <1>0, <1>1, HeldFacts DEF DeleteResidue, loopVars, HostPhases, VolumesFresh,
                                     DisksFresh, Booted
    <2> QED  BY <2>1, <2>2
<1>2. CASE CreateDescendant
    <2>1. faults' \in 0..MaxFaults /\ (faults' = 0 => faults = 0 /\ UNCHANGED faults)
        BY <1>2, FaultCounts DEF CreateDescendant
    <2>2. vol[host] = "none"
        BY <1>2 DEF CreateDescendant, VolumesFresh
    <2>3. HostTypes' /\ Apart'
        BY <1>0, <1>2, <2>1, HeldFacts DEF CreateDescendant, loopVars, HostPhases, Apart
    <2>4. VolumesFresh'
        <3>1. /\ \A h \in Hosts \ {host} : vol'[h] = vol[h]
              /\ vol'[host] \in {"none", "fresh"}
            BY <1>0, <1>2, <2>2 DEF CreateDescendant
        <3>2. UNCHANGED <<host, held>> /\ pc' = "domain" /\ Held \subseteq Hosts
            BY <1>2 DEF CreateDescendant, loopVars, Held
        <3> QED
            BY <1>0, <3>1, <3>2, HeldFacts DEF HostPhases, VolumesFresh
    <2>5. DisksFresh'
        BY <1>0, <1>2, <2>1, <2>2, HeldFacts, FaultCounts
        DEF CreateDescendant, loopVars, HostPhases, DisksFresh, Booted
    <2> QED  BY <2>3, <2>4, <2>5
<1>3. CASE BootHost
    <2>1. HostTypes' /\ Apart'
        BY <1>0, <1>3, HeldFacts DEF BootHost, HostPhases, Apart
    <2>2. VolumesFresh'
        BY <1>0, <1>3, HeldFacts DEF BootHost, HostPhases, VolumesFresh
    <2>3. DisksFresh'
        BY <1>0, <1>3, HeldFacts DEF BootHost, HostPhases, DisksFresh, Booted
    <2> QED  BY <2>1, <2>2, <2>3
<1>4. CASE BootFails
    <2>1. faults' \in 0..MaxFaults /\ faults' # 0
        <3>1. CASE Fault
            BY <3>1, FaultCounts
        <3>2. CASE pc = "domain" /\ vol[host] = "none" /\ UNCHANGED faults
            BY <3>2 DEF DisksFresh
        <3> QED  BY <1>4, <3>1, <3>2 DEF BootFails
    <2> QED  BY <1>4, <2>1, LostFresh DEF BootFails, Return, HostPhases
<1> QED
    BY <1>1, <1>2, <1>3, <1>4

\* From the domain to the handing over.
LEMMA ReachFresh ==
    ASSUME FreshInv,
           \/ NoLease \/ GetsAddress \/ TryAgain \/ Adapt \/ AdaptFails
           \/ WokenUp \/ NotYetUp \/ NeverUp \/ UpdateHostsFile \/ UpdateFails \/ HandOver
    PROVE  FreshInv'
<1> USE DEF FreshInv, HostTypes
<1>0. pc \in HostPhases /\ host \in Hosts /\ host \notin Held \cup queue
    BY DEF NoLease, GetsAddress, TryAgain, Adapt, AdaptFails, WokenUp, NotYetUp, NeverUp,
           UpdateHostsFile, UpdateFails, HandOver, HostPhases, Apart
<1>1. CASE NoLease \/ GetsAddress \/ TryAgain \/ Adapt \/ AdaptFails \/ WokenUp \/ NotYetUp \/ UpdateHostsFile
    <2>1. /\ UNCHANGED <<vol, disk, queue, host, held>>
          /\ \/ Fault
             \/ UNCHANGED faults /\ pc = "wakeup"
             \/ UNCHANGED faults /\ pc \in Booted /\ pc' \in Booted
          /\ pc \in Booted \cup {"wakeup"} /\ pc' \in Booted \cup {"wakeup"}
        <3>1. CASE NoLease \/ GetsAddress \/ TryAgain \/ Adapt \/ AdaptFails
            BY <3>1 DEF NoLease, GetsAddress, TryAgain, Adapt, AdaptFails, hostVars, Booted
        <3>2. CASE WokenUp \/ NotYetUp \/ UpdateHostsFile
            BY <3>2 DEF WokenUp, NotYetUp, UpdateHostsFile, hostVars, Booted
        <3> QED  BY <1>1, <3>1, <3>2
    <2>2. faults' \in 0..MaxFaults /\ (faults' = 0 => faults = 0 /\ pc \in Booted /\ pc' \in Booted)
        BY <2>1, FaultCounts DEF DisksFresh
    <2>3. HostTypes' /\ Apart' /\ VolumesFresh'
        BY <1>0, <2>1, <2>2, HeldFacts DEF Apart, VolumesFresh, HostPhases, Booted
    <2>4. DisksFresh'
        BY <2>1, <2>2, HeldFacts DEF DisksFresh, Booted
    <2> QED  BY <2>3, <2>4
<1>2. CASE NeverUp \/ UpdateFails
    <2>1. faults' \in 0..MaxFaults /\ faults' # 0
        BY <1>2, FaultCounts DEF NeverUp, UpdateFails, DisksFresh
    <2> QED  BY <1>2, <2>1, LostFresh DEF NeverUp, UpdateFails, Return, hostVars, HostPhases
<1>3. CASE HandOver
    <2>1. /\ UNCHANGED <<vol, disk, queue, faults>> /\ pc = "etc" /\ pc' = "hosts"
          /\ held' = Append(held, host) /\ host' = None
        BY <1>3 DEF HandOver, hostVars
    <2>2. /\ held' \in Seq(Hosts) /\ Held' = Held \cup {host}
          /\ \A k, l \in DOMAIN held' : held'[k] = held'[l] => k = l
        BY <1>0, <2>1, AppendHeld DEF Apart
    <2>3. HostTypes' /\ Apart' /\ VolumesFresh'
        BY <1>0, <2>1, <2>2 DEF Apart, VolumesFresh, HostPhases
    <2>4. DisksFresh'
        <3> SUFFICES ASSUME faults = 0, NEW h \in Hosts
                     PROVE  disk[h] = IF h \in Held' THEN "fresh" ELSE "none"
            BY <2>1 DEF DisksFresh, Booted
        <3>1. disk[h] = IF h \in Held \/ h = host THEN "fresh" ELSE "none"
            BY <2>1 DEF DisksFresh, Booted
        <3> QED  BY <2>2, <3>1
    <2> QED  BY <2>3, <2>4
<1> QED
    BY <1>1, <1>2, <1>3

\* The turn of a cluster.
LEMMA TurnFresh ==
    ASSUME FreshInv,
           \/ TestsDone \/ Shutdown \/ ShutdownFails \/ ClusterDone
           \/ \E hs \in SUBSET Hosts : StartCluster(hs)
           \/ \E h \in Hosts : StartHost(h)
    PROVE  FreshInv'
<1> USE DEF FreshInv, HostTypes
<1>1. CASE TestsDone
    BY <1>1, HeldFacts DEF TestsDone, hostVars, loopVars, Apart, VolumesFresh, DisksFresh,
                           HostPhases, Booted
<1>2. CASE Shutdown
    <2>1. /\ UNCHANGED <<vol, queue, host, faults, pc>> /\ pc = "shutdown" /\ held # <<>>
          /\ disk' = [disk EXCEPT ![Head(held)] = "none"] /\ held' = Tail(held)
        BY <1>2 DEF Shutdown
    <2>2. /\ held' \in Seq(Hosts) /\ Head(held) \in Hosts
          /\ Held' = Held \ {Head(held)}
          /\ \A k, l \in DOMAIN held' : held'[k] = held'[l] => k = l
        BY <2>1, TailHeld DEF Apart
    <2>3. HostTypes' /\ Apart' /\ VolumesFresh'
        BY <2>1, <2>2 DEF Apart, VolumesFresh, HostPhases
    <2>4. DisksFresh'
        BY <2>1, <2>2 DEF DisksFresh, Booted
    <2> QED  BY <2>3, <2>4
<1>3. CASE ShutdownFails
    BY <1>3, FaultCounts, LostFresh DEF ShutdownFails, Return, hostVars, HostPhases
<1>4. CASE ClusterDone
    BY <1>4, LostFresh DEF ClusterDone, Return, hostVars, HostPhases, Held, Booted
<1>5. ASSUME NEW hs \in SUBSET Hosts, StartCluster(hs) PROVE FreshInv'
    <2>1. held = <<>> /\ held' = <<>>
        BY <1>5 DEF StartCluster, HostPhases
    <2> QED
        BY <1>5, <2>1, HeldFacts DEF StartCluster, hostVars, Apart, VolumesFresh, DisksFresh,
                                     HostPhases, Booted
<1>6. ASSUME NEW h \in Hosts, StartHost(h) PROVE FreshInv'
    <2>1. h \notin Held /\ Held \subseteq Hosts
        BY <1>6 DEF StartHost, Apart, Held
    <2>2. /\ vol' \in [Hosts -> {"none", "fresh", "stale"}]
          /\ disk' \in [Hosts -> {"none", "fresh", "stale"}]
          /\ \A x \in Hosts \ {h} : vol'[x] = vol[x] /\ disk'[x] = disk[x]
          /\ disk[h] = "none" => disk'[h] = "none"
        BY <1>6 DEF StartHost, Aged
    <2>3. HostTypes' /\ Apart'
        BY <1>6, <2>1, <2>2, HeldFacts DEF StartHost, Apart, HostPhases
    <2>4. /\ pc = "hosts" /\ pc' = "residue" /\ Held' = Held /\ UNCHANGED faults
        BY <1>6, HeldFacts DEF StartHost
    <2>5. VolumesFresh'
        BY <2>1, <2>2, <2>4 DEF VolumesFresh, HostPhases
    <2>6. DisksFresh'
        <3> SUFFICES ASSUME faults = 0, NEW x \in Hosts
                     PROVE  disk'[x] = IF x \in Held THEN "fresh" ELSE "none"
            BY <2>4 DEF DisksFresh, Booted
        <3>1. disk[x] = IF x \in Held THEN "fresh" ELSE "none"
            BY <2>4 DEF DisksFresh, Booted
        <3> QED  BY <2>1, <2>2, <3>1
    <2> QED  BY <2>3, <2>5, <2>6
<1> QED
    BY <1>1, <1>2, <1>3, <1>4, <1>5, <1>6

LEMMA NextFresh == FreshInv /\ [Next]_vars => FreshInv'
<1> SUFFICES ASSUME FreshInv, [Next]_vars
             PROVE  FreshInv'
    OBVIOUS
<1>1. CASE TemplateStep \/ GuestStep \/ Restart
    BY <1>1, TemplateFresh
<1>2. CASE HostStep
    BY <1>2, MakeFresh, ReachFresh, TurnFresh DEF HostStep
<1>3. CASE Crash
    BY <1>3, FaultCounts, LostFresh DEF Crash, FreshInv, HostTypes, hostVars, HostPhases
<1>4. CASE UNCHANGED vars
    BY <1>4, HeldFacts DEF vars, FreshInv, HostTypes, Apart, VolumesFresh, DisksFresh
<1> QED
    BY <1>1, <1>2, <1>3, <1>4 DEF Next

\* A host is never handed over with a volume of an earlier run, and unless
\* something has failed its domain runs on the volume made for it.
THEOREM HandedOverFreshAlways == Spec => []HandedOverFresh
<1>1. FreshInv => HandedOverFresh
    <2> SUFFICES ASSUME FreshInv, pc = "hosts", NEW k \in DOMAIN held
                 PROVE  vol[held[k]] # "stale" /\ (faults > 0 \/ disk[held[k]] = "fresh")
        BY DEF HandedOverFresh
    <2>1. held[k] \in Held /\ held[k] \in Hosts
        BY DEF Held, FreshInv, HostTypes
    <2>2. faults > 0 \/ faults = 0
        BY ConstantsAssumption DEF FreshInv, HostTypes
    <2>3. vol[held[k]] # "stale"
        BY <2>1 DEF FreshInv, VolumesFresh
    <2>4. faults = 0 => disk[held[k]] = "fresh"
        BY <2>1 DEF FreshInv, DisksFresh
    <2> QED
        BY <2>2, <2>3, <2>4
<1> QED
    BY <1>1, InitFresh, NextFresh, PTL DEF Spec

-----------------------------------------------------------------------------
(***************************************************************************)
(* /etc/hosts.                                                              *)
(***************************************************************************)
Lines == Ips \X Hosts

\* A set of positions has a last one.
LEMMA LastPosition ==
    ASSUME NEW N \in Nat, NEW S \in SUBSET (1..N), S # {}
    PROVE  \E k \in S : \A l \in S : l <= k
<1> DEFINE R == OpToRel(<, Nat)
           T == {N - k : k \in S}
<1>1. T \subseteq Nat /\ T # {}
    <2>1. \A k \in S : k \in 1..N /\ N - k \in Nat
        OBVIOUS
    <2> QED  BY <2>1
<1>2. IsWellFoundedOn(R, Nat)
    BY NatLessThanWellFounded
<1>3. PICK x \in T : \A y \in T : ~ (<<y, x>> \in R)
    <2> HIDE DEF R, T
    <2> QED  BY <1>1, <1>2, WFMin, Zenon
<1>4. PICK k \in S : x = N - k
    OBVIOUS
<1>5. ASSUME NEW l \in S PROVE l <= k
    <2>1. N - l \in T /\ N - l \in Nat /\ N - k \in Nat /\ l \in Nat /\ k \in Nat
        BY <1>1
    <2>2. ~ (N - l < N - k)
        BY <1>1, <1>3, <1>4, <2>1 DEF OpToRel
    <2> HIDE DEF R, T
    <2> QED  BY <2>1, <2>2
<1> QED
    BY <1>5

\* A line written is there, and no line is gone that does not begin with the
\* address that was written.
LEMMA WithEntryFacts ==
    ASSUME NEW lines \in Seq(Lines), NEW ip \in Ips, NEW h \in Hosts
    PROVE  /\ WithEntry(lines, ip, h) \in Seq(Lines)
           /\ \E m \in DOMAIN WithEntry(lines, ip, h) : WithEntry(lines, ip, h)[m] = <<ip, h>>
           /\ \A k \in DOMAIN lines :
                  <<lines[k][1], ip>> \notin LooksLike =>
                      \E m \in DOMAIN WithEntry(lines, ip, h) :
                          WithEntry(lines, ip, h)[m] = lines[k]
<1> DEFINE alike == {k \in DOMAIN lines : <<lines[k][1], ip>> \in LooksLike}
           last  == CHOOSE k \in alike : \A l \in alike : l <= k
           rest  == IF alike = {} THEN lines
                    ELSE SubSeq(lines, 1, last - 1) \o SubSeq(lines, last + 1, Len(lines))
           new   == Append(rest, <<ip, h>>)
<1>1. /\ rest \in Seq(Lines)
      /\ \A k \in DOMAIN lines \ alike : \E m \in DOMAIN rest : rest[m] = lines[k]
    <2>1. CASE alike = {}
        BY <2>1
    <2>2. CASE alike # {}
        <3> DEFINE before == SubSeq(lines, 1, last - 1)
                   after  == SubSeq(lines, last + 1, Len(lines))
        <3>1. last \in alike
            BY <2>2, LastPosition, DOMAIN lines = 1..Len(lines), Len(lines) \in Nat
        <3>2. last \in 1..Len(lines) /\ Len(lines) \in Nat
            BY <3>1
        <3> HIDE DEF last
        <3>3. /\ before \in Seq(Lines) /\ Len(before) = last - 1
              /\ \A k \in 1..(last - 1) : before[k] = lines[k]
            BY <3>2
        <3>4. /\ after \in Seq(Lines) /\ Len(after) = Len(lines) - last
              /\ \A k \in 1..(Len(lines) - last) : after[k] = lines[last + k]
            BY <3>2
        <3> HIDE DEF before, after
        <3>5. /\ before \o after \in Seq(Lines)
              /\ \A k \in 1..Len(before) : (before \o after)[k] = before[k]
              /\ \A k \in 1..Len(after) : (before \o after)[Len(before) + k] = after[k]
              /\ Len(before \o after) = Len(before) + Len(after)
            <4>1. /\ before \o after \in Seq(Lines)
                  /\ Len(before \o after) = Len(before) + Len(after)
                  /\ \A k \in 1..(Len(before) + Len(after)) :
                         (before \o after)[k] = IF k <= Len(before) THEN before[k]
                                                ELSE after[k - Len(before)]
                BY <3>3, <3>4, ConcatProperties
            <4>2. Len(before) \in Nat /\ Len(after) \in Nat
                BY <3>3, <3>4
            <4>3. \A k \in 1..Len(before) : (before \o after)[k] = before[k]
                BY <4>1, <4>2
            <4>4. ASSUME NEW k \in 1..Len(after)
                  PROVE  (before \o after)[Len(before) + k] = after[k]
                <5>1. /\ Len(before) + k \in 1..(Len(before) + Len(after))
                      /\ ~(Len(before) + k <= Len(before))
                      /\ (Len(before) + k) - Len(before) = k
                    BY <4>2
                <5> QED  BY <4>1, <5>1
            <4> QED  BY <4>1, <4>3, <4>4
        <3>6. rest = before \o after
            BY <2>2 DEF before, after
        <3>7. ASSUME NEW k \in DOMAIN lines \ alike
              PROVE  \E m \in DOMAIN (before \o after) : (before \o after)[m] = lines[k]
            <4>1. k \in 1..Len(lines) /\ k # last
                BY <3>1
            <4>2. CASE k < last
                <5>1. k \in 1..Len(before) /\ k \in DOMAIN (before \o after)
                    BY <3>2, <3>3, <3>4, <3>5, <4>1, <4>2
                <5>2. (before \o after)[k] = lines[k]
                    BY <3>2, <3>3, <3>5, <4>1, <4>2, <5>1
                <5> QED  BY <5>1, <5>2
            <4>3. CASE k > last
                <5>1. k - last \in 1..Len(after) /\ Len(before) + (k - last) = k - 1
                    BY <3>2, <3>3, <3>4, <4>1, <4>3
                <5>2. k - 1 \in DOMAIN (before \o after)
                    BY <3>2, <3>3, <3>4, <3>5, <4>1, <4>3
                <5>3. (before \o after)[k - 1] = after[k - last]
                    BY <3>5, <5>1
                <5>4. after[k - last] = lines[k]
                    BY <3>2, <3>4, <4>1, <5>1
                <5> QED  BY <5>2, <5>3, <5>4
            <4> QED  BY <3>2, <4>1, <4>2, <4>3
        <3> QED  BY <3>5, <3>6, <3>7
    <2> QED  BY <2>1, <2>2
<1> HIDE DEF rest
<1>2. /\ new \in Seq(Lines) /\ Len(new) = Len(rest) + 1 /\ new[Len(rest) + 1] = <<ip, h>>
      /\ \A m \in DOMAIN rest : m \in DOMAIN new /\ new[m] = rest[m]
      /\ Len(rest) + 1 \in DOMAIN new
    BY <1>1 DEF Lines
<1>3. WithEntry(lines, ip, h) = new
    BY DEF WithEntry, rest
<1> HIDE DEF new
<1>4. \E m \in DOMAIN new : new[m] = <<ip, h>>
    BY <1>2
<1>5. \A k \in DOMAIN lines :
          <<lines[k][1], ip>> \notin LooksLike => \E m \in DOMAIN new : new[m] = lines[k]
    BY <1>1, <1>2
<1> QED
    BY <1>2, <1>3, <1>4, <1>5

\* The line of an interface is there.
Written(lines, h, l) == \E m \in DOMAIN lines : lines[m] = <<IpsOf[h][l], h>>

FileInv == hostsFile \in Seq(Lines) /\ n \in Nat

KnownInv ==
    /\ pc \in HostPhases \cup {"hosts"} =>
           \A h \in Held : \A l \in DOMAIN IpsOf[h] : Written(hostsFile, h, l)
    /\ pc = "etc" => n <= Len(IpsOf[host]) /\ \A l \in 1..n : Written(hostsFile, host, l)

\* Steps that write no line and hand over no host.
KnownFrame ==
    /\ UNCHANGED hostsFile /\ n' \in Nat
    /\ pc' \in HostPhases \cup {"hosts"} =>
           \/ pc \in HostPhases \cup {"hosts"} /\ held' = held
           \/ held' = <<>>
    /\ pc' = "etc" => n' = 0 \/ (pc = "etc" /\ UNCHANGED <<host, n>>)

\* No address's text begins with another's, and every interface has its own.
Unlike ==
    /\ \A pair \in LooksLike : pair[1] = pair[2]
    /\ \A h, g \in Hosts : \A k \in DOMAIN IpsOf[h], l \in DOMAIN IpsOf[g] :
           IpsOf[h][k] = IpsOf[g][l] => h = g /\ k = l

LEMMA FrameKnown ==
    ASSUME FreshInv, FileInv, KnownInv, KnownFrame,
           pc' = "etc" /\ n' = 0 => host' \in Hosts
    PROVE  FileInv' /\ KnownInv'
<1>1. FileInv'
    BY DEF FileInv, KnownFrame
<1>2. hostsFile' = hostsFile
    BY DEF KnownFrame
<1>3. pc' \in HostPhases \cup {"hosts"} =>
          \A h \in Held' : \A l \in DOMAIN IpsOf[h] : Written(hostsFile', h, l)
    BY <1>2, HeldFacts DEF KnownFrame, KnownInv
<1>4. pc' = "etc" => n' <= Len(IpsOf[host']) /\ \A l \in 1..n' : Written(hostsFile', host', l)
    <2>1. CASE pc' = "etc" /\ n' = 0
        BY <2>1, ConstantsAssumption
    <2>2. CASE pc = "etc" /\ pc' = "etc" /\ UNCHANGED <<host, n>>
        BY <1>2, <2>2 DEF KnownInv
    <2> QED  BY <2>1, <2>2 DEF KnownFrame
<1>5. KnownInv'
    BY <1>3, <1>4 DEF KnownInv
<1> QED
    BY <1>1, <1>5

LEMMA StepsFrame ==
    ASSUME FreshInv, FileInv, [Next]_vars
    PROVE  \/ UpdateHostsFile \/ HandOver
           \/ KnownFrame /\ (pc' = "etc" /\ n' = 0 => host' \in Hosts)
<1> DEFINE Goal == KnownFrame /\ (pc' = "etc" /\ n' = 0 => host' \in Hosts)
<1> USE DEF KnownFrame, HostPhases, FileInv, FreshInv, HostTypes
<1>1. CASE TemplateStep
    <2> USE DEF baseVars, hostVars, loopVars
    <2>1. CASE EnsureVolume \/ WriteScript \/ FindDomain \/ DefineInstaller \/ StartInstaller
        BY <2>1 DEF EnsureVolume, WriteScript, FindDomain, DefineInstaller, StartInstaller
    <2>2. CASE AwaitInstaller \/ UndefineInstaller \/ DefineFinal \/ BootTemplate
        BY <2>2 DEF AwaitInstaller, UndefineInstaller, DefineFinal, BootTemplate
    <2>3. CASE Snapshot \/ TemplateDone \/ NextCycle
        BY <2>3 DEF Snapshot, TemplateDone, NextCycle
    <2>4. CASE \E t \in Templates : PickTemplate(t)
        BY <2>4 DEF PickTemplate
    <2> QED  BY <1>1, <2>1, <2>2, <2>3, <2>4 DEF TemplateStep
<1>2. CASE HostStep
    <2> USE DEF Return, hostVars, loopVars
    <2>1. CASE DeleteResidue \/ CreateDescendant \/ BootHost \/ BootFails
        BY <2>1 DEF DeleteResidue, CreateDescendant, BootHost, BootFails
    <2>2. CASE NoLease \/ GetsAddress \/ TryAgain \/ Adapt \/ AdaptFails
        BY <2>2 DEF NoLease, GetsAddress, TryAgain, Adapt, AdaptFails
    <2>3. CASE WokenUp \/ NotYetUp \/ NeverUp \/ UpdateFails
        BY <2>3 DEF WokenUp, NotYetUp, NeverUp, UpdateFails
    <2>4. CASE TestsDone \/ Shutdown \/ ShutdownFails \/ ClusterDone
        BY <2>4 DEF TestsDone, Shutdown, ShutdownFails, ClusterDone
    <2>5. CASE \E hs \in SUBSET Hosts : StartCluster(hs)
        BY <2>5 DEF StartCluster
    <2>6. CASE \E h \in Hosts : StartHost(h)
        BY <2>6 DEF StartHost
    <2> QED  BY <1>2, <2>1, <2>2, <2>3, <2>4, <2>5, <2>6 DEF HostStep
<1>3. CASE GuestStep
    BY <1>3 DEF GuestStep, Installer, Installs, InstallerEnds, InstallerReboots, hostVars, loopVars
<1>4. CASE Crash \/ Restart
    BY <1>4 DEF Crash, Restart, hostVars
<1>5. CASE UNCHANGED vars
    BY <1>5 DEF vars
<1> QED
    BY <1>1, <1>2, <1>3, <1>4, <1>5 DEF Next

LEMMA FileNext == FreshInv /\ FileInv /\ [Next]_vars => FileInv'
<1> SUFFICES ASSUME FreshInv, FileInv, [Next]_vars PROVE FileInv'
    OBVIOUS
<1>1. CASE UpdateHostsFile
    <2>1. host \in Hosts /\ n + 1 \in 1..Len(IpsOf[host]) /\ IpsOf[host] \in Seq(Ips)
        BY <1>1, ConstantsAssumption DEF UpdateHostsFile, FreshInv, HostTypes, HostPhases, FileInv
    <2>2. IpsOf[host][n + 1] \in Ips
        BY <2>1
    <2>3. /\ hostsFile' = WithEntry(hostsFile, IpsOf[host][n + 1], host) /\ n' = n + 1
          /\ hostsFile \in Seq(Lines) /\ n \in Nat
        BY <1>1 DEF UpdateHostsFile, FileInv
    <2>4. WithEntry(hostsFile, IpsOf[host][n + 1], host) \in Seq(Lines)
        BY <2>1, <2>2, <2>3, WithEntryFacts
    <2> QED  BY <2>3, <2>4 DEF FileInv
<1>2. CASE HandOver
    BY <1>2 DEF HandOver, hostVars, FileInv
<1> QED
    BY <1>1, <1>2, StepsFrame DEF FileInv, KnownFrame

LEMMA KnownNext == Unlike /\ FreshInv /\ FileInv /\ KnownInv /\ [Next]_vars => KnownInv'
<1> SUFFICES ASSUME Unlike, FreshInv, FileInv, KnownInv, [Next]_vars PROVE KnownInv'
    OBVIOUS
<1>1. CASE UpdateHostsFile
    <2>1. /\ host \in Hosts /\ n + 1 \in 1..Len(IpsOf[host]) /\ IpsOf[host] \in Seq(Ips)
          /\ n \in Nat
        BY <1>1, ConstantsAssumption DEF UpdateHostsFile, FreshInv, HostTypes, HostPhases, FileInv
    <2> DEFINE ip == IpsOf[host][n + 1]
    <2>2. ip \in Ips /\ n + 1 \in DOMAIN IpsOf[host]
        BY <2>1
    <2>3. /\ hostsFile' = WithEntry(hostsFile, ip, host) /\ n' = n + 1 /\ pc = "etc"
          /\ UNCHANGED <<pc, host, held>>
        BY <1>1 DEF UpdateHostsFile
    <2>4. Written(hostsFile', host, n + 1)
        BY <2>1, <2>2, <2>3, WithEntryFacts DEF Written, FileInv
    <2>5. ASSUME NEW h \in Hosts, NEW l \in DOMAIN IpsOf[h], Written(hostsFile, h, l),
                 ~(h = host /\ l = n + 1)
          PROVE  Written(hostsFile', h, l)
        <3>1. PICK m \in DOMAIN hostsFile : hostsFile[m] = <<IpsOf[h][l], h>>
            BY <2>5 DEF Written
        <3>2. IpsOf[h][l] # ip
            BY <2>1, <2>2, <2>5 DEF Unlike
        <3>3. <<hostsFile[m][1], ip>> \notin LooksLike
            BY <3>1, <3>2 DEF Unlike
        <3>4. \E k \in DOMAIN hostsFile' : hostsFile'[k] = hostsFile[m]
            <4> HIDE DEF ip
            <4>1. /\ hostsFile \in Seq(Lines) /\ ip \in Ips /\ host \in Hosts
                  /\ m \in DOMAIN hostsFile
                BY <2>1, <2>2, <3>1 DEF FileInv
            <4>2. \E k \in DOMAIN WithEntry(hostsFile, ip, host) :
                      WithEntry(hostsFile, ip, host)[k] = hostsFile[m]
                BY <3>3, <4>1, WithEntryFacts
            <4> QED  BY <2>3, <4>2
        <3> QED  BY <3>1, <3>4 DEF Written
    <2>6. Held' = Held /\ Held \subseteq Hosts /\ host \notin Held
        BY <2>3, HeldFacts DEF FreshInv, HostTypes, Apart, HostPhases, Held
    <2>7. \A h \in Held : \A l \in DOMAIN IpsOf[h] : Written(hostsFile', h, l)
        BY <2>3, <2>5, <2>6 DEF KnownInv, HostPhases
    <2>8. \A l \in 1..(n + 1) : Written(hostsFile', host, l)
        <3> SUFFICES ASSUME NEW l \in 1..(n + 1) PROVE Written(hostsFile', host, l)
            OBVIOUS
        <3>1. CASE l = n + 1
            BY <2>4, <3>1
        <3>2. CASE l # n + 1
            <4>1. l \in 1..n /\ l \in DOMAIN IpsOf[host]
                BY <2>1, <3>2
            <4>2. Written(hostsFile, host, l)
                BY <2>3, <4>1 DEF KnownInv
            <4> QED  BY <2>1, <2>5, <3>2, <4>1, <4>2
        <3> QED  BY <3>1, <3>2
    <2>9. n + 1 <= Len(IpsOf[host])
        BY <2>1
    <2> QED  BY <2>3, <2>6, <2>7, <2>8, <2>9 DEF KnownInv
<1>2. CASE HandOver
    <2>1. /\ UNCHANGED hostsFile /\ pc = "etc" /\ pc' = "hosts" /\ n = Len(IpsOf[host])
          /\ held' = Append(held, host) /\ host \in Hosts /\ held \in Seq(Hosts)
        BY <1>2 DEF HandOver, hostVars, FreshInv, HostTypes, HostPhases
    <2>2. \A h \in Held' : h \in Held \/ h = host
        BY <2>1 DEF Held
    <2>3. \A l \in DOMAIN IpsOf[host] : Written(hostsFile, host, l)
        BY <2>1, ConstantsAssumption DEF KnownInv
    <2>4. \A h \in Held : \A l \in DOMAIN IpsOf[h] : Written(hostsFile, h, l)
        BY <2>1 DEF KnownInv, HostPhases
    <2> QED  BY <2>1, <2>2, <2>3, <2>4 DEF KnownInv
<1> QED
    BY <1>1, <1>2, StepsFrame, FrameKnown

LEMMA FreshAlways == Spec => []FreshInv
BY InitFresh, NextFresh, PTL DEF Spec

LEMMA FileAlways == Spec => []FileInv
<1>1. Init => FileInv
    BY DEF Init, FileInv
<1> QED
    BY <1>1, FileNext, FreshAlways, PTL DEF Spec

\* Where no address looks like another, every host that was handed over, and
\* none that came later took its lines away, is in /etc/hosts with all of its
\* addresses.
THEOREM KnownByNameAlways ==
    ASSUME Unlike PROVE Spec => []KnownByName
<1>1. Init => KnownInv
    BY DEF Init, KnownInv, HostPhases
<1>2. KnownInv => KnownByName
    BY DEF KnownInv, KnownByName, Written, Held
<1>3. FreshInv /\ FileInv /\ KnownInv /\ [Next]_vars => KnownInv'
    BY KnownNext
<1> QED
    BY <1>1, <1>2, <1>3, FileAlways, FreshAlways, PTL DEF Spec

-----------------------------------------------------------------------------
(***************************************************************************)
(* Types.  What the other invariants leave open is what domains run on.     *)
(***************************************************************************)
BooksInv ==
    /\ hostDef \subseteq Hosts /\ flat \subseteq Distros
    /\ pc \in {"templates", "hosts", "shutdown", "down"} \cup TemplatePhases \cup HostPhases
    /\ \A d \in Distros : def[d] # "none" => base[d] # "none"
    /\ pc \in TemplatePhases \ {"volume"} => base[D] # "none"
    /\ \A h \in Hosts : disk[h] # "none" => h \in hostDef

LEMMA InitBooks == Init => BooksInv
BY DEF Init, BooksInv, TemplatePhases

LEMMA NextBooks == BuildInv /\ FreshInv /\ BooksInv /\ [Next]_vars => BooksInv'
<1> SUFFICES ASSUME BuildInv, FreshInv, BooksInv, [Next]_vars PROVE BooksInv'
    OBVIOUS
<1> USE ConstantsAssumption DEF BooksInv
<1>1. CASE TemplateStep
    <2> USE DEF TemplatePhases, D, baseVars, hostVars, loopVars, ghosts, BuildInv, Types
    <2>1. CASE EnsureVolume
        BY <2>1 DEF EnsureVolume
    <2>2. CASE WriteScript \/ FindDomain \/ StartInstaller \/ AwaitInstaller
        BY <2>2 DEF WriteScript, FindDomain, StartInstaller, AwaitInstaller
    <2>3. CASE DefineInstaller \/ UndefineInstaller \/ DefineFinal
        BY <2>3 DEF DefineInstaller, UndefineInstaller, DefineFinal
    <2>4. CASE BootTemplate \/ Snapshot \/ TemplateDone \/ NextCycle
        BY <2>4 DEF BootTemplate, Snapshot, TemplateDone, NextCycle
    <2>5. CASE \E t \in Templates : PickTemplate(t)
        BY <2>5 DEF PickTemplate
    <2> QED  BY <1>1, <2>1, <2>2, <2>3, <2>4, <2>5 DEF TemplateStep
<1>2. CASE HostStep
    <2> USE HostFrame, <1>2
        DEF BasesAlone, TemplatePhases, HostPhases, Return, baseVars, hostVars, loopVars,
            ghosts, FreshInv, HostTypes
    <2>1. CASE DeleteResidue \/ CreateDescendant \/ BootHost \/ BootFails
        BY <2>1 DEF DeleteResidue, CreateDescendant, BootHost, BootFails
    <2>2. CASE NoLease \/ GetsAddress \/ TryAgain \/ Adapt \/ AdaptFails
        BY <2>2 DEF NoLease, GetsAddress, TryAgain, Adapt, AdaptFails
    <2>3. CASE WokenUp \/ NotYetUp \/ NeverUp \/ UpdateFails \/ UpdateHostsFile \/ HandOver
        BY <2>3 DEF WokenUp, NotYetUp, NeverUp, UpdateFails, UpdateHostsFile, HandOver
    <2>4. CASE TestsDone \/ Shutdown \/ ShutdownFails \/ ClusterDone
        BY <2>4 DEF TestsDone, Shutdown, ShutdownFails, ClusterDone
    <2>5. CASE \E hs \in SUBSET Hosts : StartCluster(hs)
        BY <2>5 DEF StartCluster
    <2>6. CASE \E h \in Hosts : StartHost(h)
        BY <2>6 DEF StartHost, Aged
    <2> QED  BY <2>1, <2>2, <2>3, <2>4, <2>5, <2>6 DEF HostStep
<1>3. CASE GuestStep
    <2>1. PICK d \in Distros : Installer(d)
        BY <1>3 DEF GuestStep
    <2> USE <2>1 DEF Installer, Installs, InstallerEnds, InstallerReboots
    <2>2. \A x \in Distros : base[x] # "none" => base'[x] # "none"
        BY DEF BuildInv, Types, Domains
    <2>3. UNCHANGED <<def, hostDef, disk, pc, cur, flat>>
        BY DEF hostVars, loopVars, ghosts
    <2>4. pc \in TemplatePhases => D \in Distros /\ D' = D
        BY <2>3 DEF D, BuildInv, Types
    <2> QED  BY <2>2, <2>3, <2>4
<1>4. CASE Crash \/ Restart
    BY <1>4 DEF Crash, Restart, baseVars, hostVars, ghosts, TemplatePhases
<1>5. CASE UNCHANGED vars
    BY <1>5 DEF vars, D
<1> QED
    BY <1>1, <1>2, <1>3, <1>4, <1>5 DEF Next

\* What libvirt has, and what the process has in hand, is as typed; a domain
\* that runs is defined, and the volume it runs on is there.
THEOREM TypeCorrect == Spec => []TypeOK
<1>1. BuildInv /\ FreshInv /\ FileInv /\ BooksInv => TypeOK
    BY DEF BuildInv, Types, Domains, FreshInv, HostTypes, FileInv, Lines, BooksInv, TypeOK
<1> QED
    BY <1>1, InitBooks, NextBooks, BuildAlways, FreshAlways, FileAlways, PTL DEF Spec

-----------------------------------------------------------------------------
(***************************************************************************)
(* Turn.  Next to FreshInv it takes that the host in hand, and those that   *)
(* wait, have a template, and that a domain which was booted runs.          *)
(***************************************************************************)
TurnStep == [Machines!Next]_(Machines!vars)

HasTemplate(h) == TemplateOf[h] \in built

InHandInv ==
    /\ pc \in {"hosts"} \cup HostPhases => \A h \in queue : HasTemplate(h)
    /\ pc \in HostPhases => HasTemplate(host)
    /\ pc \in Booted \cup {"wakeup"} => disk[host] # "none"

LEMMA FaultIsUnclean ==
    ASSUME FreshInv, Fault PROVE (faults = 0)' = FALSE
BY FaultCounts DEF FreshInv, HostTypes

\* The host in hand has been booted.
HostIsUp == pc \in Booted \cup {"wakeup"}

LEMMA TurnMineIs ==
    /\ TurnMine = {h \in TurnUp : h \in Held \/ (HostIsUp /\ h = host)}
    /\ TurnMine' = {h \in TurnUp' : h \in Held' \/ (HostIsUp' /\ h = host')}
    /\ (HostIsUp => InTurn) /\ (HostIsUp' => InTurn')
BY DEF TurnMine, Held, HostIsUp, Booted, InTurn, HostPhases

\* Steps between two turns, and those in a turn that do nothing to a machine.
LEMMA TurnStays ==
    ASSUME FreshInv, UNCHANGED TurnUp, UNCHANGED faults \/ Fault,
           \/ ~InTurn /\ ~InTurn' /\ held = <<>> /\ held' = <<>>
           \/ /\ TurnPhase' = TurnPhase /\ UNCHANGED <<InTurn, built, held>>
              /\ \/ ~HostIsUp /\ ~HostIsUp'
                 \/ HostIsUp /\ HostIsUp' /\ UNCHANGED host
    PROVE  TurnStep
<1>1. UNCHANGED <<TurnPhase, TurnUsable, TurnUp, held, TurnMine>>
    BY TurnMineIs, HeldFacts DEF TurnPhase, TurnUsable
<1>2. CASE UNCHANGED faults
    BY <1>1, <1>2 DEF TurnStep, Machines!vars
<1>3. CASE Fault
    BY <1>1, <1>3, FaultIsUnclean DEF TurnStep, Machines!Next, Machines!Fail
<1> QED
    BY <1>2, <1>3

\* The turn is over before its time, of this failure or of an earlier one.
LEMMA TurnIsCut ==
    ASSUME InTurn, UNCHANGED disk, faults' # 0, ~InTurn', held' = <<>>
    PROVE  TurnStep
<1>1. /\ TurnPhase # "idle" /\ TurnPhase' = "idle"
      /\ TurnUsable' = {} /\ TurnUp' = TurnUp /\ TurnMine' = {}
    BY TurnMineIs, HeldFacts DEF TurnPhase, TurnUsable, TurnUp
<1>2. (faults = 0)' = FALSE
    OBVIOUS
<1> QED
    BY <1>1, <1>2 DEF TurnStep, Machines!Next, Machines!CutShort, Machines!Idle

\* Host::new.
LEMMA HostTurns ==
    ASSUME FreshInv, InHandInv,
           \/ DeleteResidue \/ CreateDescendant \/ BootHost \/ BootFails
           \/ NoLease \/ GetsAddress \/ TryAgain \/ Adapt \/ AdaptFails
           \/ WokenUp \/ NotYetUp \/ NeverUp \/ UpdateHostsFile \/ UpdateFails \/ HandOver
           \/ \E h \in Hosts : StartHost(h)
    PROVE  TurnStep
<1> USE DEF HostPhases, hostVars, loopVars, InTurn, TurnPhase, HostIsUp, Booted
<1>1. CASE \E h \in Hosts : StartHost(h)
    <2>1. PICK h \in Hosts : StartHost(h)
        BY <1>1
    <2>2. \A x \in Hosts : disk'[x] # "none" <=> disk[x] # "none"
        BY <2>1 DEF StartHost, Aged, FreshInv, HostTypes
    <2>3. TurnUp' = TurnUp
        BY <2>2 DEF TurnUp
    <2> QED
        BY <2>1, <2>3, TurnStays DEF StartHost
<1>2. CASE DeleteResidue \/ CreateDescendant
    BY <1>2, TurnStays DEF DeleteResidue, CreateDescendant, TurnUp
<1>3. CASE \/ NoLease \/ GetsAddress \/ TryAgain \/ Adapt \/ AdaptFails
           \/ WokenUp \/ NotYetUp \/ UpdateHostsFile
    <2>1. CASE NoLease \/ GetsAddress \/ TryAgain \/ Adapt \/ AdaptFails
        BY <2>1, TurnStays DEF NoLease, GetsAddress, TryAgain, Adapt, AdaptFails, TurnUp
    <2>2. CASE WokenUp \/ NotYetUp \/ UpdateHostsFile
        BY <2>2, TurnStays DEF WokenUp, NotYetUp, UpdateHostsFile, TurnUp
    <2> QED
        BY <1>3, <2>1, <2>2
<1>4. CASE BootHost
    <2>1. host \in Hosts /\ host \in TurnUsable /\ disk \in [Hosts -> {"none", "fresh", "stale"}]
        BY <1>4 DEF BootHost, FreshInv, HostTypes, InHandInv, HasTemplate, TurnUsable
    <2>2. TurnUp' = TurnUp \cup {host}
        BY <1>4, <2>1 DEF BootHost, TurnUp
    <2>3. TurnMine' = TurnMine \cup {host}
        BY <1>4, <2>2, TurnMineIs, HeldFacts DEF BootHost
    <2>4. Machines!Boot(host)
        BY <1>4, <2>1, <2>2, <2>3 DEF BootHost, Machines!Boot, TurnUsable
    <2> QED
        BY <2>1, <2>4 DEF TurnStep, Machines!Next
<1>5. CASE BootFails \/ NeverUp \/ UpdateFails
    <2>1. faults' # 0
        BY <1>5, FaultCounts
        DEF BootFails, NeverUp, UpdateFails, FreshInv, HostTypes, DisksFresh
    <2> QED
        BY <1>5, <2>1, TurnIsCut DEF BootFails, NeverUp, UpdateFails, Return
<1>6. CASE HandOver
    <2>1. host \in Hosts /\ host \in TurnUp /\ held \in Seq(Hosts)
        BY <1>6 DEF HandOver, FreshInv, HostTypes, InHandInv, TurnUp
    <2>2. TurnUp' = TurnUp /\ Held' = Held \cup {host}
        BY <1>6, <2>1, AppendHeld DEF HandOver, TurnUp
    <2>3. host \in TurnMine /\ TurnMine' = TurnMine
        BY <1>6, <2>1, <2>2, TurnMineIs DEF HandOver
    <2>4. Machines!HandOver(host)
        BY <1>6, <2>1, <2>2, <2>3 DEF HandOver, Machines!HandOver, TurnUsable
    <2> QED
        BY <2>1, <2>4 DEF TurnStep, Machines!Next
<1> QED
    BY <1>1, <1>2, <1>3, <1>4, <1>5, <1>6

\* The other steps of a turn, and what comes between two of them.
LEMMA OthersTurn ==
    ASSUME FreshInv,
           \/ TestsDone \/ Shutdown \/ ShutdownFails \/ ClusterDone
           \/ \E hs \in SUBSET Hosts : StartCluster(hs)
           \/ TemplateStep \/ GuestStep \/ Restart \/ Crash \/ UNCHANGED vars
    PROVE  TurnStep
<1> USE DEF HostPhases, hostVars, loopVars, InTurn, TurnPhase, HostIsUp, Booted
<1>1. CASE TestsDone
    <2>1. TurnUp' = TurnUp /\ TurnMine' = TurnMine
        BY <1>1, TurnMineIs, HeldFacts DEF TestsDone, TurnUp
    <2>2. Machines!Close
        BY <1>1, <2>1 DEF TestsDone, Machines!Close, TurnUsable
    <2> QED
        BY <2>2 DEF TurnStep, Machines!Next
<1>2. CASE Shutdown
    <2>1. Head(held) \in Hosts /\ disk \in [Hosts -> {"none", "fresh", "stale"}]
        BY <1>2 DEF Shutdown, FreshInv, HostTypes
    <2>2. TurnUp' = TurnUp \ {Head(held)}
        BY <1>2, <2>1 DEF Shutdown, TurnUp
    <2>3. Held' = Held \ {Head(held)}
        BY <1>2, TailHeld DEF Shutdown, FreshInv, HostTypes, Apart
    <2>4. TurnMine' = TurnMine \ {Head(held)}
        BY <1>2, <2>2, <2>3, TurnMineIs DEF Shutdown
    <2>5. Machines!Shutdown
        BY <1>2, <2>2, <2>4 DEF Shutdown, Machines!Shutdown, TurnUsable
    <2> QED
        BY <2>5 DEF TurnStep, Machines!Next
<1>3. CASE ShutdownFails
    BY <1>3, FaultCounts, TurnIsCut DEF ShutdownFails, Return, FreshInv, HostTypes
<1>4. CASE ClusterDone
    <2>1. faults = 0 => TurnUp = {}
        BY <1>4 DEF ClusterDone, TurnUp, FreshInv, DisksFresh, Held, Booted
    <2>2. TurnUp' = TurnUp /\ TurnMine = {} /\ TurnMine' = {}
        BY <1>4, TurnMineIs, HeldFacts DEF ClusterDone, Return, TurnUp, Held
    <2>3. Machines!End
        BY <1>4, <2>1, <2>2 DEF ClusterDone, Return, Machines!End, Machines!Idle, TurnUsable
    <2> QED
        BY <2>3 DEF TurnStep, Machines!Next
<1>5. CASE \E hs \in SUBSET Hosts : StartCluster(hs)
    <2>1. held = <<>> /\ held' = <<>>
        BY <1>5 DEF StartCluster, FreshInv, HostTypes
    <2>2. TurnUp' = TurnUp /\ TurnMine' = TurnMine
        BY <1>5, <2>1, TurnMineIs, HeldFacts DEF StartCluster, TurnUp
    <2>3. Machines!Begin(TurnUsable') /\ TurnUsable' \in SUBSET Hosts
        BY <1>5, <2>1, <2>2 DEF StartCluster, Machines!Begin, TurnUsable
    <2> QED
        BY <2>3 DEF TurnStep, Machines!Next
<1>6. CASE TemplateStep \/ GuestStep \/ Restart
    <2>1. ~InTurn => held = <<>>
        BY DEF FreshInv, HostTypes
    <2> QED
        BY <1>6, <2>1, TemplateFrame, TurnStays DEF TurnUp, TemplatePhases
<1>7. CASE Crash
    <2>1. CASE InTurn
        BY <1>7, <2>1, FaultCounts, TurnIsCut DEF Crash, FreshInv, HostTypes
    <2>2. CASE ~InTurn
        BY <1>7, <2>2, TurnStays DEF Crash, FreshInv, HostTypes, TurnUp
    <2> QED
        BY <2>1, <2>2
<1>8. CASE UNCHANGED vars
    BY <1>8, TurnStays DEF vars, TurnUp
<1> QED
    BY <1>1, <1>2, <1>3, <1>4, <1>5, <1>6, <1>7, <1>8

LEMMA InHandNext == FreshInv /\ InHandInv /\ [Next]_vars => InHandInv'
<1> SUFFICES ASSUME FreshInv, InHandInv, [Next]_vars PROVE InHandInv'
    OBVIOUS
<1> USE DEF InHandInv, HasTemplate, HostPhases, Booted, hostVars, loopVars
<1>1. CASE TemplateStep \/ GuestStep \/ Restart
    BY <1>1, TemplateFrame DEF TemplatePhases
<1>2. CASE DeleteResidue \/ CreateDescendant \/ BootHost \/ BootFails
    BY <1>2 DEF DeleteResidue, CreateDescendant, BootHost, BootFails, Return, FreshInv,
                HostTypes
<1>3. CASE NoLease \/ GetsAddress \/ TryAgain \/ Adapt \/ AdaptFails
    BY <1>3 DEF NoLease, GetsAddress, TryAgain, Adapt, AdaptFails
<1>4. CASE WokenUp \/ NotYetUp \/ NeverUp \/ UpdateFails \/ UpdateHostsFile \/ HandOver
    BY <1>4 DEF WokenUp, NotYetUp, NeverUp, UpdateFails, UpdateHostsFile, HandOver, Return
<1>5. CASE TestsDone \/ Shutdown \/ ShutdownFails \/ ClusterDone \/ Crash
    BY <1>5 DEF TestsDone, Shutdown, ShutdownFails, ClusterDone, Crash, Return
<1>6. CASE \E hs \in SUBSET Hosts : StartCluster(hs)
    BY <1>6 DEF StartCluster
<1>7. CASE \E h \in Hosts : StartHost(h)
    BY <1>7 DEF StartHost
<1>8. CASE UNCHANGED vars
    BY <1>8 DEF vars
<1> QED
    BY <1>1, <1>2, <1>3, <1>4, <1>5, <1>6, <1>7, <1>8 DEF Next, HostStep

\* Whatever is retried, panics, or is found lying about: to the manager, the
\* making of hosts is what module Turn says, which is what the manager itself
\* implements (RerunProofs) (src/flota/entity/host.rs:22-123).
THEOREM ProvisionImplementsTurn == Spec => TurnsKept
<1>1. Init => Machines!Init /\ InHandInv
    BY DEF Init, Machines!Init, Machines!Idle, InHandInv, InTurn, TurnPhase, TurnUsable,
           TurnUp, TurnMine, HostPhases, Booted
<1>2. FreshInv /\ InHandInv /\ [Next]_vars => TurnStep
    BY HostTurns, OthersTurn DEF Next, HostStep
<1>3. FreshInv /\ InHandInv /\ [Next]_vars => InHandInv'
    BY InHandNext
<1> QED
    BY <1>1, <1>2, <1>3, FreshAlways, PTL DEF Spec, TurnsKept, TurnStep, Machines!Spec
=============================================================================
