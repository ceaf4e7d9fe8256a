------------------------------ MODULE MCManager ------------------------------
(***************************************************************************)
(* Small installations of flota for TLC.  Every run picks its clusters and  *)
(* configurations from the definitions below; the .cfg says which.          *)
(***************************************************************************)
EXTENDS Manager, TLC

CONSTANTS c1, c2, w1, w2, w3, h1, h2, t1, t2, s1, e1, e2, x1

Cfg(daemonized, clusters) == [daemonized |-> daemonized, clusters |-> clusters]
Clus(watchpoints, hosts, tests) ==
    [watchpoints |-> watchpoints, hosts |-> hosts, tests |-> tests]

\* Host h1 has a test of its own, s1, before the cluster's; e1 and e2 are cluster
\* tests on h1 and h2; x1 is a console command on h1, which no template can run.
MCTemplateOf == [h \in Hosts |-> IF h = h1 THEN t1 ELSE t2]
MCSolo       == [h \in Hosts |-> IF h = h1 THEN <<s1>> ELSE <<>>]
MCSoloNone   == [h \in Hosts |-> <<>>]
MCExecHost   == [e \in Execs |-> CASE e = e2 -> h2
                                   [] e \in {e1, x1} -> h1
                                   [] OTHER -> None]

\* One cluster with a watchpoint and two hosts.
OneCluster == { Cfg(TRUE, [c \in {c1} |-> Clus(<<w1>>, <<h1, h2>>, <<e1, x1>>)]) }

\* Two clusters, each with a watchpoint of its own, one shot at a time.
TwoClusters == { Cfg(FALSE, (c1 :> Clus(<<w1>>, <<h1>>, <<e1>>))
                         @@ (c2 :> Clus(<<w2>>, <<h2>>, <<e2>>))) }

\* Two clusters that share a test, one of them without a host to run it on.  An
\* edit takes a watchpoint from the first, and the second out altogether, and
\* leaves the daemon for one shot after another; another edit undoes it.
Rewatched == { Cfg(TRUE, (c1 :> Clus(<<w3, w1>>, <<h1>>, <<e1>>))
                      @@ (c2 :> Clus(<<w2>>, <<>>, <<e1>>))),
               Cfg(FALSE, (c1 :> Clus(<<w1>>, <<h1>>, <<e1>>))) }

\* The values are told apart only by being equal or not.
Symmetry == Permutations(Values)

\* Two clusters that watch the same thing.
SharedWatch == { Cfg(TRUE, (c1 :> Clus(<<w1>>, <<h1>>, <<e1>>))
                        @@ (c2 :> Clus(<<w1>>, <<h2>>, <<e2>>))) }

\* A cluster that lists the same thing twice.
ListedTwice == { Cfg(TRUE, [c \in {c1} |-> Clus(<<w1, w1>>, <<h1>>, <<e1>>)]) }

\* A cluster that watches nothing; an edit adds a test to it.
WatchNothing == { Cfg(TRUE, [c \in {c1} |-> Clus(<<>>, <<h1>>, <<e1>>)]),
                  Cfg(TRUE, [c \in {c1} |-> Clus(<<>>, <<h1>>, <<e1, x1>>)]) }
=============================================================================
