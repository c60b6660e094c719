----------------------------- MODULE Descriptions -----------------------------
(***************************************************************************)
(* What a client may say of the items of a base: the checks that a posted  *)
(* or edited graph goes through (rdfrest/cores/mixins.py, with the tables  *)
(* of the classes of ktbs/engine), and what the service adds to it.        *)
(*                                                                         *)
(* A graph is the set of its statements on the item it is about: <<p, v>>  *)
(* when the item is their subject, <<"in", p>> when it is their object.    *)
(* A value is <<node, datatype, content>>; dates are numbers.  The end of  *)
(* a trace is treated as its beginning is, and is left out.                *)
(***************************************************************************)
EXTENDS Naturals, FiniteSets

CONSTANTS
  Labels,       \* what URIs are made from
  MaxItems,     \* bound: items in the base
  MaxSize,      \* bound: statements in a posted graph
  MaxChanges,   \* bound: statements that an edit adds or removes
  UnitChanges   \* may the unit of a model that traces use be edited?

ASSUME DescriptionsAssumption == {MaxItems, MaxSize, MaxChanges} \subseteq Nat /\ UnitChanges \in BOOLEAN

VARIABLES
  held,      \* the class and the graph of each item, by its URI
  listing    \* the items that the graph of the base tells of, with their type

descriptions == <<held, listing>>

Uri(x) == <<"uri", "", x>>
Lit(datatype, x) == <<"literal", datatype, x>>

Named(label, rank, slash) == [label |-> label, rank |-> rank, slash |-> slash]
Model == Named("model", 0, FALSE)
Builtin == Named("builtin", 0, FALSE)

----------------------------------------------------------------------------
(* The tables of the classes *)

Classes == {"Base", "TraceModel", "Method", "StoredTrace", "ComputedTrace"}
Traces == {"StoredTrace", "ComputedTrace"}
Folderish == Traces \cup {"Base"}

Editable(c) ==
  CASE c = "TraceModel" -> {"hasParentModel", "hasUnit"}
    [] c = "Method" -> {"hasParentMethod", "hasParameter", "inherits"}
    [] c = "StoredTrace" -> {"hasModel", "hasOrigin", "hasTraceBegin", "hasTraceBeginDT"}
    [] c = "ComputedTrace" -> {"hasMethod", "hasParameter", "hasSource"}
    [] OTHER -> {}

Bounds(p, min, max) == [property |-> p, min |-> min, max |-> max]
CardinalityOf(c) ==
  CASE c = "TraceModel" -> {Bounds("hasUnit", 0, 1)}
    [] c = "Method" -> {Bounds("hasParentMethod", 1, 1)}
    [] c = "StoredTrace" -> {Bounds("hasModel", 1, 1), Bounds("hasOrigin", 1, 1),
                             Bounds("hasTraceBegin", 0, 1), Bounds("hasTraceBeginDT", 0, 1)}
    [] c = "ComputedTrace" -> {Bounds("hasMethod", 1, 1)}
    [] OTHER -> {}

Uris == {"hasParentModel", "hasUnit", "hasParentMethod", "hasModel", "hasSource"}
Typed(p, v) ==
  /\ p \in Uris => v[1] = "uri"
  /\ p \in {"hasParameter", "hasOrigin"} => v[1] = "literal"
  /\ p = "hasTraceBegin" => v[1] = "literal" /\ v[2] = "integer"
  /\ p = "hasTraceBeginDT" => v[1] = "literal" /\ v[2] = "dateTime"

\* Terms of other vocabularies are free.
IsReserved(p) == p # "label"

----------------------------------------------------------------------------
(* complete_new_graph *)

ValuesOf(g, p) == {s[2] : s \in {t \in g : t[1] = p}}
A(S) == CHOOSE x \in S : TRUE

Unit == LET v == ValuesOf(held[Model].graph, "hasUnit")
        IN  IF v = {} THEN "millisecond" ELSE A(v)[3]

\* The beginning that follows from the dates, if the unit allows it.
Computed(g) ==
  LET origins == {v \in ValuesOf(g, "hasOrigin") : v[2] = "date"}
      dates == ValuesOf(g, "hasTraceBeginDT")
      per == CASE Unit = "millisecond" -> {2} [] Unit = "second" -> {1} [] OTHER -> {}
  IN  {<<"hasTraceBegin", Lit("integer", n * (d[3] - o[3]))>> : n \in per, d \in dates, o \in origins}

\* By default the unit of a model is the millisecond.
CompleteModel(g, old) ==
  IF old = {} /\ ValuesOf(g, "hasUnit") = {} THEN g \cup {<<"hasUnit", Uri("millisecond")>>} ELSE g

\* `inherits' is the former name of hasParentMethod.
CompleteMethod(g, old) ==
  LET inherited == {s[2] : s \in {t \in g \ old : t[1] = "inherits"}}
      dropped == {s[2] : s \in {t \in old \ g : t[1] = "inherits"}}
  IN  (g \cup {<<"hasParentMethod", v>> : v \in inherited}) \ {<<"hasParentMethod", v>> : v \in dropped}

\* By default the origin of a trace is an opaque string; "now" stands for the
\* current date.
Now == <<"hasOrigin", Lit("string", 9)>>
Dated(g) == IF Now \in g THEN {s \in g : s[1] # "hasOrigin"} \cup {<<"hasOrigin", Lit("date", 1)>>} ELSE g
CompleteTrace(g, old) ==
  LET origins == IF ValuesOf(g, "hasOrigin") = {} THEN {<<"hasOrigin", Lit("string", 0)>>} ELSE {}
      whole == IF old = {} THEN Dated(g \cup origins) ELSE g
  IN  whole \cup Computed(whole)

Complete(c, g, old) ==
  CASE c = "TraceModel" -> CompleteModel(g, old)
    [] c = "Method" -> CompleteMethod(g, old)
    [] c = "StoredTrace" -> CompleteTrace(g, old)
    [] OTHER -> g

----------------------------------------------------------------------------
(* check_new_graph *)

\* WithReservedNamespacesMixin: the statements in S may be made, or changed.
NamespacesOK(c, S, types, in) == \A s \in S :
  CASE s[1] = "type" -> s[2] \in types
    [] s[1] = "in" -> s[2] \in in
    [] OTHER -> IsReserved(s[1]) => s[1] \in Editable(c)

CardinalitiesOK(c, g) == \A b \in CardinalityOf(c) :
  Cardinality(ValuesOf(g, b.property)) \in b.min .. b.max

TypesOK(g) == \A s \in g : s[1] \notin {"type", "in"} => Typed(s[1], s[2])

\* What is referred to for the first time exists: the sources of a trace; the
\* parent of a method, unless it is a built-in method.
IsA(v, classes) == v[3] \in DOMAIN held /\ held[v[3]].class \in classes
SourcesOK(S) == \A v \in ValuesOf(S, "hasSource") : IsA(v, Traces)
ParentOK(S) == \A v \in ValuesOf(S, "hasParentMethod") : v = Uri(Builtin) \/ IsA(v, {"Method"})

\* The keys of the parameters of a method differ.
ParametersOK(g, S) ==
  ValuesOf(S, "hasParameter") # {} => \A v, w \in ValuesOf(g, "hasParameter") : v[3].key = w[3].key => v = w

\* Mutant: an edit looks at all of the new graph.
Changed_All(g, old) == g

Changed(g, old) == (g \ old) \cup (old \ g)

CheckNewGraph(c, uri, g, old) ==
  LET new == old = {}
      added == g \ old
  IN  /\ new /\ c \in Folderish => uri.slash
      /\ IF new THEN NamespacesOK(c, g, {c}, {"contains"})
                ELSE NamespacesOK(c, Changed(g, old), {}, {})
      /\ CardinalitiesOK(c, g) /\ TypesOK(g)
      /\ c \in Traces => SourcesOK(added)
      /\ c = "Method" => ParentOK(added) /\ ParametersOK(g, added)

----------------------------------------------------------------------------
(* post_graph *)

InUse(uri) == uri \in DOMAIN listing

\* mint_uri: a URI from the label, with a random token when it is in use.
Minted(label, c) ==
  LET named(n) == [label |-> label, rank |-> n, slash |-> c \in Folderish]
  IN  IF ~InUse(named(0)) THEN {named(0)} ELSE {named(n) : n \in {m \in 1 .. 2 : ~InUse(named(m))}}

\* Items tell of those that refer to them (create, ack_edit).
Referring(h, p, u) == \E v \in DOMAIN h : <<p, Uri(u)>> \in h[v].graph
Linked(h) == [u \in DOMAIN h |->
  LET tells(p) == IF Referring(h, p, u) THEN {<<"in", p>>} ELSE {}
      free == {s \in h[u].graph : s \notin {<<"in", "hasSource">>, <<"in", "hasParentMethod">>}}
  IN  [h[u] EXCEPT !.graph = free \cup tells("hasSource") \cup tells("hasParentMethod")]]

\* find_created: candidates are linked to the base; only a nested base may be
\* by hasBase, which check_posted_graph puts right.
Found(links, types) == "contains" \in links \/ (links = {"hasBase"} /\ "Base" \in types)

\* The class must be certain and the URI free, then the new item is checked.
PostGraph(uri, links, g0) ==
  LET types == ValuesOf(g0, "type")
      c == A(types)
      g == Complete(c, g0 \cup {<<"in", "contains">>}, {})
  IN  /\ Found(links, types)
      /\ Cardinality(types) = 1 /\ types \subseteq Classes
      /\ ~InUse(uri)
      /\ CheckNewGraph(c, uri, g, {})
      /\ held' = Linked([u \in DOMAIN held \cup {uri} |->
                          IF u = uri THEN [class |-> c, graph |-> g] ELSE held[u]])
      /\ listing' = [u \in DOMAIN listing \cup {uri} |-> IF u = uri THEN c ELSE listing[u]]

\* An untrusted edit.
EditGraph(uri, g0) ==
  LET c == held[uri].class
      g == Complete(c, g0, held[uri].graph)
  IN  /\ CheckNewGraph(c, uri, g, held[uri].graph)
      /\ uri = Model /\ ~UnitChanges => ValuesOf(g, "hasUnit") = ValuesOf(held[uri].graph, "hasUnit")
      /\ held' = Linked([held EXCEPT ![uri].graph = g])
      /\ UNCHANGED listing

\* A trusted edit: the description of a computed trace, or why there is none.
Describe(uri, described) ==
  LET rest == {s \in held[uri].graph : s[1] \notin {"hasModel", "hasOrigin", "hasDiagnosis"}}
  IN  /\ held[uri].class = "ComputedTrace"
      /\ held' = [held EXCEPT ![uri].graph = rest \cup
            IF described THEN {<<"hasModel", Uri(Model)>>, <<"hasOrigin", Lit("string", 0)>>}
                         ELSE {<<"hasDiagnosis", Lit("string", 0)>>}]
      /\ UNCHANGED listing

----------------------------------------------------------------------------
(* What clients send *)

Refs(p, S) == {<<p, Uri(u)>> : u \in S}
Statements(c) ==
  {<<"type", t>> : t \in {c, "Method"}} \cup
  CASE c = "TraceModel" -> {<<"hasUnit", Uri(u)>> : u \in {"millisecond", "second", "sequence"}}
    [] c = "Method" -> Refs("hasParentMethod", DOMAIN held \cup {Builtin}) \cup Refs("inherits", {Builtin})
         \cup {<<"hasParameter", Lit("string", [key |-> "k", value |-> x])>> : x \in {1, 2}}
    [] c = "StoredTrace" -> Refs("hasModel", {Model}) \cup {<<"hasOrigin", Lit("date", 1)>>, <<"hasOrigin", Uri(Model)>>,
               <<"hasTraceBegin", Lit("integer", 2)>>, <<"hasTraceBeginDT", Lit("dateTime", 2)>>}
    [] c = "ComputedTrace" -> Refs("hasMethod", {Builtin}) \cup Refs("hasSource", DOMAIN held)
    [] OTHER -> {<<"label", Lit("string", 0)>>, <<"hasDiagnosis", Lit("string", 1)>>}

Init ==
  /\ held = [u \in {Model} |-> [class |-> "TraceModel",
               graph |-> {<<"type", "TraceModel">>, <<"in", "contains">>, <<"hasUnit", Uri("millisecond")>>}]]
  /\ listing = [u \in {Model} |-> "TraceModel"]

Next ==
  \/ Cardinality(DOMAIN held) < MaxItems /\ \E c \in Classes, label \in Labels : \E uri \in Minted(label, c) \cup {Named(label, 0, FALSE)} :
       \E links \in {{}, {"contains"}, {"hasBase"}}, g \in SUBSET Statements(c) :
         Cardinality(g) <= MaxSize /\ PostGraph(uri, links, g)
  \/ \E uri \in DOMAIN held : \E out \in SUBSET held[uri].graph, in \in SUBSET Statements(held[uri].class) :
       /\ Cardinality(out) + Cardinality(in) <= MaxChanges
       /\ EditGraph(uri, (held[uri].graph \ out) \cup in)
  \/ \E uri \in DOMAIN held, described \in BOOLEAN : Describe(uri, described)

Spec == Init /\ [][Next]_descriptions

----------------------------------------------------------------------------
(* Properties *)

\* Whatever was posted and edited, each item has one class, the one that the
\* base lists it with, is contained in the base, and has as many values of
\* each property, and of the type, that its class demands.
WellFormed ==
  /\ DOMAIN listing = DOMAIN held
  /\ \A u \in DOMAIN held :
       LET c == held[u].class
           g == held[u].graph
       IN  /\ ValuesOf(g, "type") = {c} /\ listing[u] = c
           /\ <<"in", "contains">> \in g
           /\ CardinalitiesOK(c, g) /\ TypesOK(g) /\ (c = "Method" => ParametersOK(g, g))
           /\ \A p \in {"hasSource", "hasParentMethod"} : Referring(held, p, u) <=> <<"in", p>> \in g

\* What a client has read it may put back, and nothing changes.
PutBackAccepted == \A u \in DOMAIN held :
  LET c == held[u].class
      g == held[u].graph
  IN  Complete(c, g, g) = g /\ CheckNewGraph(c, u, g, g)
=============================================================================
