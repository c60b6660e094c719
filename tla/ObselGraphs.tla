----------------------------- MODULE ObselGraphs -----------------------------
(***************************************************************************)
(* The obsels of a trace as RDF: how a posted graph is cut into obsels     *)
(* (StoredTrace.post_graph), what an obsel is described by, alone or in a  *)
(* slice of the collection, and what disappears with it (engine/obsel.py,  *)
(* rdfrest/util).                                                          *)
(*                                                                         *)
(* A graph is a set of triples <<s, p, o>>.  Obsels have the arc           *)
(* <<o, "hasTrace", Trace>>; blank nodes are obsels that have no URI yet,  *)
(* or the values of complex attributes.                                    *)
(***************************************************************************)
EXTENDS Naturals, FiniteSets, Sequences

Trace == "t"
Blank == {"b1", "b2", "s1", "s2"}
Minted == [b1 |-> "n1", b2 |-> "n2"]

InTrace(o) == <<o, "hasTrace", Trace>>
Obsels(graph) == {t[1] : t \in {u \in graph : u[2] = "hasTrace" /\ u[3] = Trace}}
About(graph, n) == {t \in graph : t[1] = n \/ t[3] = n}

----------------------------------------------------------------------------
(* rdfrest/util *)

\* The nodes that bounded_description visits: those that blank nodes lead to,
\* along or against the arcs, but for the pruned ones.
Spreads(S, graph, prune) == \A t \in graph : {t[1], t[3]} \cap S # {} => {t[1], t[3]} \cap Blank \subseteq S \cup prune
Reached(node, graph, prune) ==
  {n \in Blank \cup {node} : \A S \in SUBSET (Blank \cup {node}) : node \in S /\ Spreads(S, graph, prune) => n \in S}
Bounded(node, graph, prune) == UNION {About(graph, n) : n \in Reached(node, graph, prune)}

\* replace_node_sparse, replace_node_dense
Replaced(graph, old, new) ==
  LET subst(n) == IF n = old THEN new ELSE n
  IN  {<<subst(t[1]), t[2], subst(t[3])>> : t \in graph}

\* check_new
CheckNew(graph, node) == About(graph, node) = {}

----------------------------------------------------------------------------
(* Posting *)

\* Mutant: the arcs to the obsels that are not created yet are kept.
Alone_WithOthers(d, c, others) == d

\* The description of a candidate, without the obsels to come.
Alone(d, c, others) == d \ {t \in d : (t[1] = c /\ t[3] \in others) \/ (t[1] \in others /\ t[3] = c)}

\* One candidate: it is given a URI, checked, completed and stored, and takes
\* its URI in the posted graph.
PostOne(acc, c) ==
  LET others == acc.left \ {c}
      d == Alone(Bounded(c, acc.graph, others), c, others)
      uri == IF c \in Blank THEN Minted[c] ELSE c
  IN  IF acc.refused \/ (c \notin Blank /\ ~CheckNew(acc.store, c))
      THEN [acc EXCEPT !.refused = TRUE]
      ELSE [graph |-> Replaced(acc.graph, c, uri), left |-> others, refused |-> FALSE,
            store |-> acc.store \cup Replaced(d, c, uri) \cup {InTrace(uri)}]

\* post_graph: the candidates in the order of their timestamps.  What is stored
\* before a refusal stays.
Post(store, graph, order) ==
  LET posted[k \in 0 .. Len(order)] ==
        IF k = 0 THEN [graph |-> graph, left |-> Obsels(graph) \cap Blank, refused |-> order = <<>>, store |-> store]
        ELSE PostOne(posted[k - 1], order[k])
  IN  posted[Len(order)]

----------------------------------------------------------------------------
(* Describing *)

\* _RELATED_OBSELS
Related(o, store) ==
  {n \in Obsels(store) : \E t \in store : (t[1] = o /\ t[3] = n) \/ (t[1] = n /\ t[3] = o)}

\* Mutant: a relation looks like an attribute.
ObselBounded_Plain(o, store) == Bounded(o, store, {})

\* get_obsel_bounded_description, the state of an obsel
ObselBounded(o, store) ==
  Bounded(o, store, {}) \cup (IF o \in Obsels(store) THEN {InTrace(n) : n \in Related(o, store)} ELSE {})

\* _ObselImpl.force_state_refresh leaves the related obsels unmarked.
Refreshed(o, store) == Bounded(o, store, {})

\* AbstractTraceObsels.get_state: the obsels of a slice, to the second blank node.
Described(S, store) ==
  LET out(N) == {t \in store : t[1] \in N}
      values(N) == {t[3] : t \in out(N)} \cap Blank
  IN  (UNION {About(store, o) : o \in S})
      \cup {InTrace(n) : n \in UNION {Related(o, store) : o \in S}}
      \cup out(values(S)) \cup out(values(values(S)))

\* iter_attribute_types, get_attribute_value
Attributes(o, graph) ==
  {<<t[2], t[3]>> : t \in {u \in graph : u[1] = o /\ u[2] # "hasTrace" /\ u[3] \notin Obsels(graph)}}

\* iter_relation_types, iter_related_obsels
Relations(o, graph) ==
  {<<t[2], t[3]>> : t \in {u \in graph : u[1] = o /\ u[2] # "hasTrace" /\ u[3] \in Obsels(graph)}}

\* iter_inverse_relation_types, iter_relating_obsels
InverseRelations(o, graph) ==
  {<<t[2], t[1]>> : t \in {u \in graph : u[3] = o /\ u[1] \in Obsels(graph)}}

\* Mutant: the values of the obsel stay.
Delete_ArcsOnly(o, store) == store \ About(store, o)

\* _ObselImpl.delete
Delete(o, store) == store \ Bounded(o, store, {})

----------------------------------------------------------------------------
(* Properties *)

\* Each complex value belongs to one obsel.
Owned(graph) ==
  \A s \in Blank \ Obsels(graph) :
    About(graph, s) # {} => Cardinality({o \in Obsels(graph) : s \in Reached(o, graph, Obsels(graph))}) = 1

\* The posted graphs that are accepted are stored as they are, with the URIs
\* of the obsels in the place of their blank nodes.  This is so if each value
\* belongs to one obsel: an arc from a value to an obsel that is created later
\* is stored with its blank node.
PostedAsMeant(store, graph, order) ==
  LET end == Post(store, graph, order)
      meant[k \in 0 .. Len(order)] ==
        CASE k = 0 -> graph
          [] k > 0 /\ order[k] \in Blank -> Replaced(meant[k - 1], order[k], Minted[order[k]])
          [] OTHER -> meant[k - 1]
  IN  Owned(graph) /\ ~end.refused => end.store = store \cup meant[Len(order)]

ReadsAs(o, graph, store) ==
  /\ Attributes(o, graph) = Attributes(o, store)
  /\ Relations(o, graph) = Relations(o, store)
  /\ InverseRelations(o, graph) = InverseRelations(o, store)

\* The same attributes and relations are read of an obsel in the collection, in
\* its own state when that is first read, and in the slices of one or more
\* obsels that it is in.
SameDescription(o, store) ==
  /\ ReadsAs(o, ObselBounded(o, store), store)
  /\ \A S \in SUBSET Obsels(store) : o \in S => ReadsAs(o, Described(S, store), store)

\* "In order to clearly differenciate attributes from relations, related obsels
\* must be linked to the trace by the ktbs:hasTrace" (engine/obsel.py:313): also
\* in a state that was refreshed.
SameWhenRefreshed(o, store) == ReadsAs(o, Refreshed(o, store), store)

\* An obsel disappears with all its arcs and its values, and nothing else.
DeletedAlone(o, store) ==
  LET rest == Delete(o, store)
  IN  Owned(store) =>
        /\ About(rest, o) = {}
        /\ \A q \in Obsels(store) \ {o} :
             /\ Attributes(q, rest) = Attributes(q, store)
             /\ Relations(q, rest) = {r \in Relations(q, store) : r[2] # o}
        /\ \A s \in Blank : About(rest, s) # {} => \E q \in Obsels(rest) : s \in Reached(q, rest, {})
=============================================================================
