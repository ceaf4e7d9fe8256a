-------------------------- MODULE FlotaGraphProofs --------------------------
(***************************************************************************)
(* What the Cypher statements of FlotaGraph preserve, for any graph.        *)
(***************************************************************************)
EXTENDS FlotaGraph, TLAPS

\* What save_child_rel! adds are relations of the type it is given.
LEMMA SaveChildRelsAdds ==
    ASSUME NEW G, NEW parent, NEW kids, NEW type,
           NEW r \in SaveChildRels(G, parent, kids, type), r \notin G
    PROVE  \E c \in kids : r = Rel(parent, type, c)
<1>1. r \in {Rel(parent, type, c) : c \in {k \in kids : Rel(k, type, parent) \notin G}}
      BY DEF SaveChildRels
<1>2. PICK c \in {k \in kids : Rel(k, type, parent) \notin G} : r = Rel(parent, type, c)
      BY <1>1
<1> QED BY <1>2

\* save_child_rel! creates no TAIL, so it cannot create a second one.
LEMMA SaveChildRelsOneTail ==
    ASSUME NEW G, NEW parent, NEW kids, NEW type, type # "TAIL", OneTail(G)
    PROVE  OneTail(SaveChildRels(G, parent, kids, type))
<1>1. \A r \in SaveChildRels(G, parent, kids, type) : r.type = "TAIL" => r \in G
      BY SaveChildRelsAdds DEF Rel
<1> QED BY <1>1 DEF OneTail

\* save_child_ll! leaves each parent with one TAIL for the child's label, the
\* child, because it deletes every other one.
LEMMA SaveChildLLsOneTail ==
    ASSUME NEW G, NEW parents, NEW child, NEW type, type # "TAIL", OneTail(G)
    PROVE  OneTail(SaveChildLLs(G, parents, child, type))
<1> DEFINE H == SaveChildLLs(G, parents, child, type)
<1>1. ASSUME NEW r \in H, r.type = "TAIL"
      PROVE  \/ r \in G /\ r \notin OldTails(G, parents, child)
             \/ r.from \in parents /\ r.to = child
      BY <1>1 DEF SaveChildLLs, Rel
<1>2. ASSUME NEW r \in H, NEW s \in H, r.type = "TAIL", s.type = "TAIL",
             r.from = s.from, r.to.label = s.to.label
      PROVE  r.to = s.to
      BY <1>1, <1>2 DEF OneTail, OldTails
<1> QED BY <1>2 DEF OneTail

\* A graph with at least the PREV relations of another reaches as much.
LEMMA ReachesMonotone ==
    ASSUME NEW G, NEW H, NEW a, NEW b, Reaches(G, a, b), a \in Nodes(G),
           {r \in G : r.type = "PREV"} \subseteq H
    PROVE  Reaches(H, a, b)
<1> SUFFICES ASSUME NEW S \in SUBSET {n \in Nodes(H) : n.label = b.label}, a \in S,
                    \A r \in H : r.type = "PREV" /\ r.from \in S => r.to \in S
             PROVE  b \in S
    BY DEF Reaches
<1> DEFINE T == S \cap Nodes(G)
<1>1. T \in SUBSET {n \in Nodes(G) : n.label = b.label} /\ a \in T
      OBVIOUS
<1>2. \A r \in G : r.type = "PREV" /\ r.from \in T => r.to \in T
      BY DEF Nodes
<1> QED BY <1>1, <1>2 DEF Reaches

\* ... and one step more, from a node with a PREV relation to where it starts.
LEMMA ReachesStep ==
    ASSUME NEW H, NEW a, NEW b, NEW c, Reaches(H, a, b), Rel(c, "PREV", a) \in H
    PROVE  Reaches(H, c, b)
<1> SUFFICES ASSUME NEW S \in SUBSET {n \in Nodes(H) : n.label = b.label}, c \in S,
                    \A r \in H : r.type = "PREV" /\ r.from \in S => r.to \in S
             PROVE  b \in S
    BY DEF Reaches
<1>1. a \in S
      BY DEF Rel
<1> QED BY <1>1 DEF Reaches

\* save_child_rel! with one of the configuration's relations loses nothing.
LEMMA SaveChildRelsKeeps ==
    ASSUME NEW G, NEW parent, NEW kids, NEW type, type \notin ListTypes,
           NothingFallsOff(G)
    PROVE  NothingFallsOff(SaveChildRels(G, parent, kids, type))
<1> DEFINE H == SaveChildRels(G, parent, kids, type)
<1> SUFFICES ASSUME NEW r \in H, r.type \in ListTypes
             PROVE  \E t \in H : /\ t.type = "TAIL" /\ t.from = r.to
                                 /\ t.to.label = r.from.label
                                 /\ Reaches(H, t.to, r.from)
    BY DEF NothingFallsOff
<1>1. r \in G /\ G \subseteq H
  <2>1. G \subseteq H
        BY DEF SaveChildRels
  <2>2. r \in G
        BY SaveChildRelsAdds DEF Rel
  <2> QED BY <2>1, <2>2
<1>2. PICK t \in G : /\ t.type = "TAIL" /\ t.from = r.to
                     /\ t.to.label = r.from.label
                     /\ Reaches(G, t.to, r.from)
      BY <1>1 DEF NothingFallsOff
<1>3. Reaches(H, t.to, r.from)
      BY <1>1, <1>2, ReachesMonotone DEF Nodes
<1> QED BY <1>1, <1>2, <1>3

\* save_child_ll! loses nothing: the TAIL it deletes is where the PREV relation
\* that it creates leads.
LEMMA SaveChildLLsKeeps ==
    ASSUME NEW G, NEW parents, NEW child, NEW type, type # "TAIL", NothingFallsOff(G)
    PROVE  NothingFallsOff(SaveChildLLs(G, parents, child, type))
<1> DEFINE H == SaveChildLLs(G, parents, child, type)
<1> SUFFICES ASSUME NEW r \in H, r.type \in ListTypes
             PROVE  \E t \in H : /\ t.type = "TAIL" /\ t.from = r.to
                                 /\ t.to.label = r.from.label
                                 /\ Reaches(H, t.to, r.from)
    BY DEF NothingFallsOff
<1>1. {q \in G : q.type = "PREV"} \subseteq H
      BY DEF SaveChildLLs, OldTails
<1>2. r \in G \/ \E p \in parents : r = Rel(child, type, p)
      BY DEF SaveChildLLs, Rel, ListTypes
<1>3. CASE \E p \in parents : r = Rel(child, type, p)
  <2>1. PICK p \in parents : r = Rel(child, type, p)
        BY <1>3
  <2>2. Rel(p, "TAIL", child) \in H
        BY DEF SaveChildLLs
  <2>3. Reaches(H, child, child)
        BY DEF Reaches
  <2> QED BY <2>1, <2>2, <2>3 DEF Rel
<1>4. CASE r \in G
  <2>1. PICK t \in G : /\ t.type = "TAIL" /\ t.from = r.to
                       /\ t.to.label = r.from.label
                       /\ Reaches(G, t.to, r.from)
        BY <1>4 DEF NothingFallsOff
  <2>2. Reaches(H, t.to, r.from)
        BY <1>1, <2>1, ReachesMonotone DEF Nodes
  <2>3. CASE t \in OldTails(G, parents, child)
    <3>1. /\ Rel(child, "PREV", t.to) \in H
          /\ Rel(t.from, "TAIL", child) \in H
          BY <2>3 DEF SaveChildLLs, OldTails
    <3>2. Reaches(H, child, r.from)
          BY <2>2, <3>1, ReachesStep
    <3>3. child.label = r.from.label
          BY <2>1, <2>3 DEF OldTails
    <3> QED BY <2>1, <3>1, <3>2, <3>3 DEF Rel
  <2>4. CASE t \notin OldTails(G, parents, child)
    <3>1. t \in H
          BY <2>4 DEF SaveChildLLs
    <3> QED BY <2>1, <2>2, <3>1
  <2> QED BY <2>3, <2>4
<1> QED BY <1>2, <1>3, <1>4
=============================================================================
