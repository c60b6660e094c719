------------------------------ MODULE PrefixView ------------------------------
(***************************************************************************)
(* PrefixConjunctiveView: a store of named graphs seen as if it held only  *)
(* those whose names start with a prefix, the URI of a base, on which      *)
(* queries and transformations run (rdfrest/util/prefix_conjunctive_view). *)
(*                                                                         *)
(* A quad is <<s, p, o, g>>; the name of a graph is a path.  In a pattern  *)
(* <<s, p, o, c>>, "any" matches all; a predicate is a sequence of         *)
(* properties, which is a path when there are several.                     *)
(***************************************************************************)
EXTENDS Naturals, FiniteSets, Sequences

Wild == "any"
NoGraph == <<"any">>

\* _include; a graph that is not included fails (_FAIL).
Include(prefix, g) == Len(prefix) <= Len(g) /\ SubSeq(g, 1, Len(prefix)) = prefix
Fails(prefix, c) == c # NoGraph /\ ~Include(prefix, c)

\* The filter of the queries, which a named graph needs not (_spoc).
Filtered(quads, prefix, c) ==
  IF Fails(prefix, c) THEN {} ELSE {q \in quads : IF c = NoGraph THEN Include(prefix, q[4]) ELSE q[4] = c}

Matches(v, x) == v = Wild \/ v = x

\* quads, and the triples of one property: a triple comes once for each graph
\* that it is in, __len__ counts it so.
Quads(quads, prefix, s, p, o, c) ==
  {q \in Filtered(quads, prefix, c) : Matches(s, q[1]) /\ Matches(p, q[2]) /\ Matches(o, q[3])}
ViewLen(quads, prefix) == Cardinality(Quads(quads, prefix, Wild, Wild, Wild, NoGraph))

\* Mutant: paths are followed in the whole store.
Context_Whole(quads, prefix, c) == quads

\* What a path is followed in: the view, or one graph.
Context(quads, prefix, c) == Filtered(quads, prefix, c)

\* The pairs of nodes that a path leads between.
Ends(quads, path) ==
  LET pairs(p) == {<<q[1], q[3]>> : q \in {x \in quads : x[2] = p}}
      join(R, S) == {<<r[1], t[2]>> : r \in R, t \in {u \in S : \E w \in R : w[2] = u[1]}}
      step(R, S) == {e \in join(R, S) : \E r \in R : e[1] = r[1] /\ <<r[2], e[2]>> \in S}
      along[i \in 1 .. Len(path)] == IF i = 1 THEN pairs(path[1]) ELSE step(along[i - 1], pairs(path[i]))
  IN  along[Len(path)]

Triples(quads, prefix, s, path, o, c) ==
  IF Len(path) = 1 THEN {<<q[1], path, q[3]>> : q \in Quads(quads, prefix, s, path[1], o, c)}
  ELSE {<<e[1], path, e[2]>> : e \in {x \in Ends(Context(quads, prefix, c), path) : Matches(s, x[1]) /\ Matches(o, x[2])}}

\* contexts, get_context
Contexts(quads, prefix) == {q[4] : q \in Filtered(quads, prefix, NoGraph)}
GetContext(prefix, g) == IF Include(prefix, g) THEN {g} ELSE {}

\* query: a query runs on the view, unless it names a dataset of its own.
Runs(query) == ~query.from

\* What a transformation of a trace may read, by its scope: the store, the
\* graphs whose names start with the URI of the base, or the obsels.
Scope(quads, trace, parameters) ==
  CASE parameters.scope = "store" -> quads
    [] parameters.scope = "base" -> Filtered(quads, trace.base, NoGraph)
    [] OTHER -> {q \in quads : q[4] = trace.obsels}

\* The obsels of the trace after a computation, by a query that copies what it
\* reads; one that fails leaves the earlier obsels.
ComputeObsels(quads, trace, parameters, fails) ==
  IF fails THEN trace.computed ELSE {<<q[1], q[2], q[3]>> : q \in Scope(quads, trace, parameters)}

\* handle_sparql and do_query: what a client may ask of a resource.
Answer(quads, uri, scope, query) ==
  CASE Len(scope) > 1 -> [status |-> 400, data |-> {}]
    [] scope # <<>> /\ scope[1] \notin {"graph", "subtree"} -> [status |-> 400, data |-> {}]
    [] scope = <<"subtree">> ->
         IF Runs(query) THEN [status |-> 200, data |-> Filtered(quads, uri, NoGraph)] ELSE [status |-> 500, data |-> {}]
    [] OTHER -> [status |-> 200, data |-> {q \in quads : q[4] = uri}]

(***************************************************************************)
(* Properties.                                                             *)
(***************************************************************************)

\* A view answers as a store that holds its graphs alone would: to the patterns
\* of a triple or of a quad, with a path or with a named graph, and when it
\* counts.  Nothing outside of a base can be told from its view, nor by a
\* transformation that runs on it, or on the subtree of a resource by a client.
ViewIsAPart(quads, prefix, s, path, o, c) ==
  LET part == {q \in quads : Include(prefix, q[4])}
  IN  /\ Triples(quads, prefix, s, path, o, c) = Triples(part, <<>>, s, path, o, c)
      /\ Quads(quads, prefix, s, path[1], o, c) = Quads(part, <<>>, s, path[1], o, c)
      /\ ViewLen(quads, prefix) = Cardinality(part)
      /\ Contexts(quads, prefix) = {q[4] : q \in part}
      /\ Answer(quads, prefix, <<"subtree">>, [from |-> FALSE]) = Answer(part, <<>>, <<"subtree">>, [from |-> FALSE])
      /\ LET trace == [base |-> prefix, obsels |-> Append(prefix, "@obsels"), computed |-> {}]
         IN  \A scope \in {"base", "trace"} :
               ComputeObsels(quads, trace, [scope |-> scope], FALSE) = ComputeObsels(part, trace, [scope |-> scope], FALSE)
      /\ \A q \in quads : (GetContext(prefix, q[4]) # {}) <=> (q \in part)
=============================================================================
