----------------------------- MODULE FlotaGraph -----------------------------
(***************************************************************************)
(* The Neo4j property graph flota keeps its memory in, and the three Cypher *)
(* statements the program touches it with: the macros save_child_rel!,      *)
(* save_child_ll! and is_tail! of src/flota/mod.rs.                         *)
(*                                                                          *)
(* A graph is the set of its relations.  Every statement that creates a     *)
(* node attaches it to another one in the same statement, so the nodes of a *)
(* graph are the end points of its relations.  A node is MERGEd by its      *)
(* label and the whole text of its properties (Cypherable::cypher_ident),   *)
(* that is, by value: equal contents are one node.                          *)
(***************************************************************************)

Node(label, ident) == [label |-> label, ident |-> ident]

Rel(from, type, to) == [from |-> from, type |-> type, to |-> to]

Nodes(G) == {r.from : r \in G} \cup {r.to : r \in G}

(***************************************************************************)
(* save_child_rel!, once for each of kids: MERGE (p)-[:type]-(c).  The      *)
(* pattern is undirected, so a relation either way round is a match; the    *)
(* server creates a missing one from left to right.                         *)
(***************************************************************************)
SaveChildRels(G, parent, kids, type) ==
    G \cup {Rel(parent, type, c) : c \in {k \in kids : Rel(k, type, parent) \notin G}}

(***************************************************************************)
(* save_child_ll!, once for each of parents: link child to the parent, push *)
(* it in front of the node that was the parent's TAIL among the nodes with  *)
(* the child's label, and move TAIL to it.  OldTails is what the MATCH and  *)
(* its WHERE NOT id(tail) = id(c) select.                                   *)
(***************************************************************************)
OldTails(G, parents, child) ==
    {r \in G : /\ r.type = "TAIL"
               /\ r.from \in parents
               /\ r.to.label = child.label
               /\ r.to # child}

\* Not the code: the old TAIL is not deleted.
SaveChildLLs_NoDelete(G, parents, child, type) ==
    G \cup {Rel(child, type, p) : p \in parents}
      \cup {Rel(child, "PREV", r.to) : r \in OldTails(G, parents, child)}
      \cup {Rel(p, "TAIL", child) : p \in parents}

\* Not the code: PREV is created the wrong way round.
SaveChildLLs_PrevReversed(G, parents, child, type) ==
    LET old == OldTails(G, parents, child)
    IN  (G \ old) \cup {Rel(child, type, p) : p \in parents}
                  \cup {Rel(r.to, "PREV", child) : r \in old}
                  \cup {Rel(p, "TAIL", child) : p \in parents}

SaveChildLLs(G, parents, child, type) ==
    LET old == OldTails(G, parents, child)
    IN  (G \ old) \cup {Rel(child, type, p) : p \in parents}
                  \cup {Rel(child, "PREV", r.to) : r \in old}
                  \cup {Rel(p, "TAIL", child) : p \in parents}

SaveChildLL(G, parent, child, type) == SaveChildLLs(G, {parent}, child, type)

(***************************************************************************)
(* is_tail!: a query on a connection of its own, which sees what has been   *)
(* committed and nothing of a transaction in progress.                      *)
(***************************************************************************)
\* Not the code: the child is on the list, if no longer at its end.
IsTail_Anywhere(G, parent, child) == \E r \in G : r.from = child /\ r.to = parent

IsTail(G, parent, child) == Rel(parent, "TAIL", child) \in G

-----------------------------------------------------------------------------
(***************************************************************************)
(* What the lists are for.                                                  *)
(***************************************************************************)

\* The relations save_child_ll! is used with.
ListTypes == {"IS_SNAPSHOT_OF", "IS_RESULT_OF", "DUE_TO"}

\* No parent has two TAILs among the nodes of one label.
OneTail(G) ==
    \A r, s \in G : /\ r.type = "TAIL" /\ s.type = "TAIL"
                    /\ r.from = s.from
                    /\ r.to.label = s.to.label
                    => r.to = s.to

\* Whoever follows PREV from node a meets node b: b is in every set of nodes
\* that holds a and is closed under PREV.
Reaches(G, a, b) ==
    \A S \in SUBSET {n \in Nodes(G) : n.label = b.label} :
        /\ a \in S
        /\ \A r \in G : r.type = "PREV" /\ r.from \in S => r.to \in S
        => b \in S

\* Every child ever linked to a parent is met on the way from the parent's
\* TAIL: nothing falls off the list.
NothingFallsOff(G) ==
    \A r \in G : r.type \in ListTypes =>
        \E t \in G : /\ t.type = "TAIL"
                     /\ t.from = r.to
                     /\ t.to.label = r.from.label
                     /\ Reaches(G, t.to, r.from)
=============================================================================
