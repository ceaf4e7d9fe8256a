-------------------------------- MODULE Network --------------------------------
(***************************************************************************)
(* The networks of flota's hosts: how pool and networks are ensured, how a  *)
(* host's domain comes to be attached to them, and how its guest is told    *)
(* about its addresses.  libvirt keeps what is defined, whatever becomes of *)
(* the process; what is not on autostart is down after the machine's outage.*)
(*                                                                          *)
(* Network and bridge have one name: the bridge's address with its mask.    *)
(* Every interface of a domain has a MAC address of its own, which stands   *)
(* here as the position of the interface in the domain's definition.        *)
(*                                                                          *)
(* Sources: src/virt/network.rs, src/virt/storage/pool.rs,                  *)
(* src/virt/domain/mod.rs, src/flota/entity/host.rs, src/main.rs and the    *)
(* adapt_network_state of CentOS; openSUSE's does nothing yet.              *)
(***************************************************************************)
EXTENDS IPv4, Sequences

CONSTANTS
    Hosts,
    Ips,                \* addresses with masks that a configuration may give
    Configs,            \* the addresses of each host's interfaces, in order
    DefaultNetwork,
    Pool,               \* the storage pool: ensured the way a network is
    None,
    MaxFaults           \* bound on crashes, outages and failures

\* An interface of a domain, with the address that it is for.
Interfaces == [net : IPv4, ip : IPv4 \cup {None}]

ASSUME ConstantsAssumption ==
    /\ Ips \subseteq IPv4
    /\ Configs \subseteq [Hosts -> Seq(Ips)]
    /\ DefaultNetwork \in IPv4
    /\ Pool \notin IPv4
    /\ None \notin Hosts \cup IPv4 \cup Nat \cup Seq(Interfaces)
    /\ MaxFaults \in Nat

VARIABLES
    defined, active, autostart,     \* what libvirt has of pool and networks
    leasing,        \* the networks with a range for DHCP
    doms,           \* of a host: the interfaces its domain is defined with
    on,             \* the hosts whose domain runs
    guest,          \* of a host: what adapt_network_state has written to it
    file, config,   \* the configuration on disk, and the one in use
    pc,
    ens,            \* what is being ensured, and where to return to
    host, k,        \* the host in hand, interfaces so far
    draft,          \* the interfaces of a definition in the making
    held,           \* the hosts handed over
    faults

libvirtVars == <<defined, active, autostart, leasing>>
domainVars  == <<doms, on>>
hostVars    == <<host, k, draft>>
vars == <<defined, active, autostart, leasing, doms, on, guest, file, config, pc, ens,
          host, k, draft, held, faults>>

Mgmt == NthSibling(DefaultNetwork, 1)

\* DHCP serves from the one after the bridge to the one before the last.
DhcpRange(br) == [start |-> IncrNodeId(br), end |-> NthSibling(br, -2)]

Resources == IPv4 \cup {Pool}
Requests == [res : Resources, dhcp : BOOLEAN, back : {"mgmt", "cycle", "networks", "attach"}]
Entries == [ip : IPv4, mac : Nat, gw : IPv4]

LibvirtOK ==
    /\ defined \subseteq Resources /\ active \subseteq defined /\ autostart \subseteq defined
    /\ leasing \subseteq defined

DomainsOK ==
    /\ doms \in [Hosts -> Seq(Interfaces) \cup {None}]
    /\ on \subseteq Hosts
    /\ guest \in [Hosts -> [eth : SUBSET Entries, mgmt : Nat \cup {None}] \cup {None}]

ProcessOK ==
    /\ file \in Configs /\ config \in Configs
    /\ pc \in {"down", "define", "start", "autostart", "mgmt", "cycle", "networks", "boot",
               "attach", "create", "address", "adapt"}
    /\ pc \in {"define", "start", "autostart"} => ens \in Requests
    /\ host \in Hosts \cup {None} /\ k \in Nat \ {0} /\ draft \in Seq(Interfaces)
    /\ held \subseteq Hosts
    /\ faults \in 0..MaxFaults

TypeOK == LibvirtOK /\ DomainsOK /\ ProcessOK

Init ==
    /\ defined = {} /\ active = {} /\ autostart = {} /\ leasing = {}
    /\ doms = [h \in Hosts |-> None] /\ on = {}
    /\ guest = [h \in Hosts |-> None]
    /\ file \in Configs /\ config = file
    /\ pc = "down" /\ ens = None
    /\ host = None /\ k = 1 /\ draft = <<>> /\ held = {}
    /\ faults = 0

Fault == faults < MaxFaults /\ faults' = faults + 1

MyIps == config[host]

-----------------------------------------------------------------------------
(***************************************************************************)
(* Network::ensure and StoragePool::ensure.  What is there is taken as it   *)
(* is; each of the three steps panics when it fails.                        *)
(***************************************************************************)
Ensure(res, dhcp, back) ==
    /\ ens' = [res |-> res, dhcp |-> dhcp, back |-> back]
    /\ pc' = "define"

\* Not the code: what is to be active is created, and not defined.
Define_Transient ==
    /\ pc = "define"
    /\ leasing' = IF ens.dhcp /\ ens.res \notin defined THEN leasing \cup {ens.res} ELSE leasing
    /\ pc' = "start"
    /\ UNCHANGED <<defined, active, autostart, domainVars, guest, file, config, ens, hostVars,
                   held, faults>>

Define ==
    /\ pc = "define"
    /\ defined' = defined \cup {ens.res}
    /\ leasing' = IF ens.dhcp /\ ens.res \notin defined THEN leasing \cup {ens.res} ELSE leasing
    /\ pc' = "start"
    /\ UNCHANGED <<active, autostart, domainVars, guest, file, config, ens, hostVars, held,
                   faults>>

\* Not the code: what is active is taken to be complete.
StartResource_ActiveIsDone ==
    /\ pc = "start"
    /\ active' = active \cup {ens.res}
    /\ pc' = IF ens.res \in active THEN ens.back ELSE "autostart"
    /\ UNCHANGED <<defined, autostart, leasing, domainVars, guest, file, config, ens, hostVars,
                   held, faults>>

StartResource ==
    /\ pc = "start"
    /\ active' = active \cup {ens.res}
    /\ pc' = "autostart"
    /\ UNCHANGED <<defined, autostart, leasing, domainVars, guest, file, config, ens, hostVars,
                   held, faults>>

SetAutostart ==
    /\ pc = "autostart"
    /\ autostart' = autostart \cup {ens.res}
    /\ pc' = ens.back /\ ens' = None
    /\ UNCHANGED <<defined, active, leasing, domainVars, guest, file, config, hostVars, held,
                   faults>>

-----------------------------------------------------------------------------
(***************************************************************************)
(* main: every time the configuration is read, pool and default network are *)
(* ensured before anything else.                                            *)
(***************************************************************************)
NoHost == host' = None /\ k' = 1 /\ draft' = <<>>
NoHosts == NoHost /\ held' = {} /\ guest' = [h \in Hosts |-> None]

ReadConfig ==
    /\ pc \in {"down", "cycle"}
    /\ config' = file
    /\ NoHosts
    /\ Ensure(Pool, FALSE, "mgmt")
    /\ UNCHANGED <<libvirtVars, domainVars, file, faults>>

\* Not the code: the management network is ensured like any other.
EnsureMgmt_NoDhcp ==
    /\ pc = "mgmt"
    /\ Ensure(Mgmt, FALSE, "cycle")
    /\ UNCHANGED <<libvirtVars, domainVars, guest, file, config, hostVars, held, faults>>

EnsureMgmt ==
    /\ pc = "mgmt"
    /\ Ensure(Mgmt, TRUE, "cycle")
    /\ UNCHANGED <<libvirtVars, domainVars, guest, file, config, hostVars, held, faults>>

-----------------------------------------------------------------------------
(***************************************************************************)
(* Host::new and Domain::boot_with_root_vol.                                *)
(***************************************************************************)
PickHost(h) ==
    /\ pc = "cycle" /\ h \notin held
    /\ host' = h /\ k' = 1 /\ draft' = <<>>
    /\ guest' = [guest EXCEPT ![h] = None]
    /\ pc' = "networks"
    /\ UNCHANGED <<libvirtVars, domainVars, file, config, ens, held, faults>>

\* "make sure networks are all available": the bridge is the first sibling.
EnsureNetwork ==
    /\ pc = "networks" /\ k <= Len(MyIps)
    /\ Ensure(NthSibling(MyIps[k], 1), FALSE, "networks")
    /\ k' = k + 1
    /\ UNCHANGED <<libvirtVars, domainVars, guest, file, config, host, draft, held, faults>>

NetworksDone ==
    /\ pc = "networks" /\ k > Len(MyIps)
    /\ pc' = IF doms[host] = None THEN "attach" ELSE "boot"
    /\ k' = 1
    /\ UNCHANGED <<libvirtVars, domainVars, guest, file, config, ens, host, draft, held, faults>>

\* What a domain needs to be started.
Needs(h) == {Pool} \cup {doms[h][j].net : j \in DOMAIN doms[h]}

\* A domain that exists is rebooted or started with the interfaces it has.
BootExisting ==
    /\ pc = "boot"
    /\ host \in on \/ Needs(host) \subseteq active
    /\ on' = on \cup {host}
    /\ pc' = "address"
    /\ UNCHANGED <<libvirtVars, doms, guest, file, config, ens, hostVars, held, faults>>

\* Not the code: the address of the interface itself names the network.
Attach_ToAddress ==
    /\ pc = "attach" /\ k <= Len(MyIps)
    /\ draft' = Append(draft, [net |-> MyIps[k], ip |-> MyIps[k]])
    /\ Ensure(MyIps[k], FALSE, "attach")
    /\ k' = k + 1
    /\ UNCHANGED <<libvirtVars, domainVars, guest, file, config, host, held, faults>>

\* The network is ensured once more, and its name worked out another way.
Attach ==
    /\ pc = "attach" /\ k <= Len(MyIps)
    /\ LET nw == NwAddr(MyIps[k])
           br == IncrNodeId(nw)
       IN  /\ ~IsHighest(nw)
           /\ draft' = Append(draft, [net |-> br, ip |-> MyIps[k]])
           /\ Ensure(br, FALSE, "attach")
    /\ k' = k + 1
    /\ UNCHANGED <<libvirtVars, domainVars, guest, file, config, host, held, faults>>

Dies == pc' = "down" /\ ens' = None /\ NoHosts

\* br_ip.incr_node_id().unwrap() on a subnet without room for a bridge.
AttachPanics ==
    /\ pc = "attach" /\ k <= Len(MyIps) /\ IsHighest(NwAddr(MyIps[k]))
    /\ Dies
    /\ UNCHANGED <<libvirtVars, domainVars, file, config, faults>>

\* Not the code: the management interface comes first.
DefineDomain_MgmtFirst ==
    /\ pc = "attach" /\ k > Len(MyIps)
    /\ doms' = [doms EXCEPT ![host] = <<[net |-> Mgmt, ip |-> None]>> \o draft]
    /\ pc' = "create"
    /\ UNCHANGED <<libvirtVars, on, guest, file, config, ens, hostVars, held, faults>>

\* "default network interface just for digging", the last one.
DefineDomain ==
    /\ pc = "attach" /\ k > Len(MyIps)
    /\ doms' = [doms EXCEPT ![host] = Append(draft, [net |-> Mgmt, ip |-> None])]
    /\ pc' = "create"
    /\ UNCHANGED <<libvirtVars, on, guest, file, config, ens, hostVars, held, faults>>

CreateDomain ==
    /\ pc = "create" /\ Needs(host) \subseteq active
    /\ on' = on \cup {host}
    /\ pc' = "address"
    /\ UNCHANGED <<libvirtVars, doms, guest, file, config, ens, hostVars, held, faults>>

\* Err: the run of this cluster is over.  A domain that has been defined stays.
\* That a network it needs is down cannot be the reason: see Bootable.
BootFails ==
    /\ pc \in {"boot", "create"}
    /\ Fault
    /\ pc' = "cycle" /\ held' = {} /\ NoHost
    /\ UNCHANGED <<libvirtVars, domainVars, guest, file, config, ens>>

-----------------------------------------------------------------------------
(***************************************************************************)
(* The guest is asked for at its address in the management network, and     *)
(* told about its others.                                                   *)
(***************************************************************************)

\* The parser never resets in_nw: once an interface in that network has been
\* seen, the MAC address is that of whatever interface comes last.
MacInNetwork(dom, nw) ==
    IF \E j \in DOMAIN dom : dom[j].net = nw THEN Len(dom) ELSE None

\* The first interface that has been defined with this address and mask.
MacOfIp(dom, ip) ==
    LET mine == {j \in DOMAIN dom : dom[j].ip = ip}
    IN  IF mine = {} THEN None ELSE CHOOSE j \in mine : \A l \in mine : j <= l

\* Domain::ip_in_network: somebody answers there only if the interface with
\* that MAC address is in the network, and the network serves leases.
GetAddress ==
    /\ pc = "address"
    /\ LET mac == MacInNetwork(doms[host], Mgmt)
       IN  /\ mac # None
           /\ doms[host][mac].net = Mgmt /\ Mgmt \in leasing
    /\ pc' = "adapt"
    /\ UNCHANGED <<libvirtVars, domainVars, guest, file, config, ens, hostVars, held, faults>>

\* One ifcfg file for each address whose MAC address is known, with the first
\* sibling for its gateway, and one for the management interface.
WrittenTo(h) ==
    LET known == {ip \in {config[h][j] : j \in DOMAIN config[h]} : MacOfIp(doms[h], ip) # None}
    IN  [eth  |-> {[ip |-> ip, mac |-> MacOfIp(doms[h], ip), gw |-> NthSibling(ip, 1)] :
                      ip \in known},
         mgmt |-> MacInNetwork(doms[h], Mgmt)]

HandOver ==
    /\ held' = held \cup {host}
    /\ pc' = "cycle" /\ NoHost

Adapt ==
    /\ pc = "adapt"
    /\ guest' = [guest EXCEPT ![host] = WrittenTo(host)]
    /\ HandOver
    /\ UNCHANGED <<libvirtVars, domainVars, file, config, ens, faults>>

\* No session after twenty attempts: the host is handed over all the same.
NeverAdapted ==
    /\ pc = "adapt"
    /\ HandOver
    /\ UNCHANGED <<libvirtVars, domainVars, guest, file, config, ens, faults>>

\* "network adaption failed"
AdaptFails ==
    /\ pc = "adapt"
    /\ Fault
    /\ pc' = "cycle" /\ held' = {} /\ NoHost
    /\ UNCHANGED <<libvirtVars, domainVars, guest, file, config, ens>>

Shutdown(h) ==
    /\ pc = "cycle" /\ h \in held
    /\ on' = on \ {h} /\ held' = held \ {h}
    /\ UNCHANGED <<libvirtVars, doms, guest, file, config, pc, ens, hostVars, faults>>

-----------------------------------------------------------------------------
Edit ==
    /\ file' \in Configs
    /\ UNCHANGED <<libvirtVars, domainVars, guest, config, pc, ens, hostVars, held, faults>>

\* The process dies, or panics as any failed step of Ensure makes it do.
Crash ==
    /\ pc # "down" /\ Fault
    /\ Dies
    /\ UNCHANGED <<libvirtVars, domainVars, file, config>>

\* The machine goes down and comes up again.
Outage ==
    /\ Fault
    /\ active' = autostart /\ on' = {}
    /\ Dies
    /\ UNCHANGED <<defined, autostart, leasing, doms, file, config>>

Next ==
    \/ Define \/ StartResource \/ SetAutostart
    \/ ReadConfig \/ EnsureMgmt
    \/ EnsureNetwork \/ NetworksDone
    \/ BootExisting \/ Attach \/ AttachPanics \/ DefineDomain \/ CreateDomain \/ BootFails
    \/ GetAddress \/ Adapt \/ NeverAdapted \/ AdaptFails
    \/ Edit \/ Crash \/ Outage
    \/ \E h \in Hosts : PickHost(h) \/ Shutdown(h)

Spec == Init /\ [][Next]_vars

-----------------------------------------------------------------------------
(***************************************************************************)
(* Safety.                                                                  *)
(***************************************************************************)

\* A domain, once defined, can be started at any time: its pool and networks
\* are up and will be up after an outage, wherever the process crashed.
Bootable == \A h \in Hosts : doms[h] # None => Needs(h) \subseteq active \cap autostart

\* Every ordinary address a guest has been told about is on an interface in
\* the network of its subnet, whose bridge is the gateway it was given; it has
\* been told about all of those its domain was defined with.
OnItsNetwork ==
    \A h \in Hosts : guest[h] # None =>
        \A j \in DOMAIN config[h] :
            LET ip == config[h][j]
            IN  Ordinary(ip) /\ (\E l \in DOMAIN doms[h] : doms[h][l].ip = ip) =>
                    \E e \in guest[h].eth :
                        /\ e.ip = ip
                        /\ doms[h][e.mac].net = e.gw
                        /\ SameSubnet(e.gw, ip)

\* The address flota connects to is that of the management interface, though
\* the search for its MAC address runs past it.
MgmtIsFound ==
    \A h \in Hosts : doms[h] # None =>
        LET mac == MacInNetwork(doms[h], Mgmt)
        IN  mac # None /\ doms[h][mac].net = Mgmt

\* "all but mgmt subnet are without dhcp functionality", also when a host has
\* an address in that subnet and ensures the network as one of its own.
DhcpOnMgmtOnly == leasing = defined \cap {Mgmt}

\* src/flota/entity/host.rs:25, before the domain is booted: "make sure networks
\* are all available."  They are those the domain is then attached to.
AttachedToAvailable ==
    \A h \in Hosts : doms[h] # None =>
        \A j \in DOMAIN doms[h] :
            doms[h][j].ip # None => doms[h][j].net = NthSibling(doms[h][j].ip, 1)

\* src/distro/mod.rs:47-52, of adapt_network_state: when it takes effort "to change
\* from some network configuration to another one", then "with an implementation
\* of this you realize "host" config via "sess" session".  Its addresses are
\* ordinary ones here.
ConfigRealized ==
    \A h \in Hosts : guest[h] # None =>
        \A j \in DOMAIN config[h] :
            Ordinary(config[h][j]) => \E e \in guest[h].eth : e.ip = config[h][j]
=============================================================================
