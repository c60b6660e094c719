-------------------------------- MODULE Models --------------------------------
(***************************************************************************)
(* Trace models (ktbs/api/trace_model.py): types of obsels, relations and  *)
(* attributes, their hierarchies across models, and how they are listed    *)
(* while other clients edit the models.                                    *)
(*                                                                         *)
(* A listing is a generator: each step reads the graphs as they are then.  *)
(* That of supertypes or subtypes goes on until its queue is empty; that   *)
(* of the parents of a model is modelled in one step.                      *)
(***************************************************************************)
EXTENDS Naturals, FiniteSets, Sequences, Functions

CONSTANTS
  ModelHoldings,  \* the types that each model may hold, by its name
  ObselTypes,     \* those that are types of obsels; others are of relations
  MaxArcs,        \* bound: arcs about types when a listing starts
  MaxEdits,       \* bound: edits during a listing
  Unruly          \* may the parents of models be circular, or missing?

ModelsAssumption ==
  /\ IsFiniteSet(DOMAIN ModelHoldings) /\ \A m \in DOMAIN ModelHoldings : IsFiniteSet(ModelHoldings[m])
  /\ \A m, n \in DOMAIN ModelHoldings : m # n => ModelHoldings[m] \cap ModelHoldings[n] = {}
  /\ \A m \in DOMAIN ModelHoldings : ModelHoldings[m] \cap DOMAIN ModelHoldings = {}
  /\ ObselTypes \subseteq UNION {ModelHoldings[m] : m \in DOMAIN ModelHoldings}
  /\ {MaxArcs, MaxEdits} \subseteq Nat /\ Unruly \subseteq {"circular", "missing"}

VARIABLES
  graph,   \* the arcs that each model holds
  walk     \* the listing under way

models == <<graph, walk>>

TraceModels == DOMAIN ModelHoldings
Types == UNION {ModelHoldings[m] : m \in TraceModels}

\* get_model: the model that a type is defined in, as its URI tells.
ModelOf(t) == CHOOSE m \in TraceModels : t \in ModelHoldings[m]
KindOf(t) == IF t \in ObselTypes THEN "ObselType" ELSE "RelationType"

Arc(s, p, o) == [subj |-> s, pred |-> p, obj |-> o]
Objects(s, p) == {a.obj : a \in {x \in graph[ModelOf(s)] : x.subj = s /\ x.pred = p}}
Subjects(p, o) == {a.subj : a \in {x \in graph[ModelOf(o)] : x.obj = o /\ x.pred = p}}
Exists(t) == Arc(t, "type", KindOf(t)) \in graph[ModelOf(t)]
Mentioned(m, t) == \E a \in graph[m] : t \in {a.subj, a.obj}

Missing == IF "missing" \in Unruly THEN {"missing"} ELSE {}

\* The members of a set, in some order.
Ordered(S) == CHOOSE q \in [1 .. Cardinality(S) -> S] : IsInjective(q)

\* What is reached from S along arcs: what no set misses that holds S and all
\* that its members lead to.
Reach(nodes, pairs, S) ==
  {x \in nodes : \A C \in SUBSET nodes : S \subseteq C /\ (\A p \in pairs : p[1] \in C => p[2] \in C) => x \in C}

Direct(m) == {a.obj : a \in {x \in graph[m] : x.pred = "parent"}}
Parentage == UNION {{<<m, n>> : n \in Direct(m)} : m \in TraceModels}
Ancestors(m) == Reach(TraceModels \cup Missing, Parentage, IF m \in TraceModels THEN Direct(m) ELSE {})

----------------------------------------------------------------------------
(* Edits of models *)

\* create_obsel_type, create_relation_type: what the model already speaks of is
\* not new (mint_uri_from_label).
CreateType(t, supers, origins) ==
  /\ ~Mentioned(ModelOf(t), t)
  /\ KindOf(t) = "ObselType" => origins = {}
  /\ graph' = [graph EXCEPT ![ModelOf(t)] = @ \cup {Arc(t, "type", KindOf(t))}
       \cup {Arc(t, "super", s) : s \in supers} \cup {Arc(t, "origin", o) : o \in origins}]

\* add_supertype, add_origin: in the model of the type.
AddSupertype(t, s) == Exists(t) /\ graph' = [graph EXCEPT ![ModelOf(t)] = @ \cup {Arc(t, "super", s)}]
AddOrigin(t, o) ==
  Exists(t) /\ KindOf(t) = "RelationType" /\ graph' = [graph EXCEPT ![ModelOf(t)] = @ \cup {Arc(t, "origin", o)}]

RemoveSupertype(t, s) == Exists(t) /\ graph' = [graph EXCEPT ![ModelOf(t)] = @ \ {Arc(t, "super", s)}]
RemoveOrigin(t, o) == Exists(t) /\ graph' = [graph EXCEPT ![ModelOf(t)] = @ \ {Arc(t, "origin", o)}]

\* remove: its model forgets the type; other models do not know.
RemoveType(t) ==
  Exists(t) /\ graph' = [graph EXCEPT ![ModelOf(t)] = {a \in @ : t \notin {a.subj, a.obj}}]

\* add_parent, remove_parent: nothing is checked.
AddParent(m, n) ==
  /\ "circular" \notin Unruly => m \notin Ancestors(n) \cup {n}
  /\ graph' = [graph EXCEPT ![m] = @ \cup {Arc(m, "parent", n)}]
RemoveParent(m, n) == graph' = [graph EXCEPT ![m] = @ \ {Arc(m, "parent", n)}]

Edit ==
  \/ \E t \in Types : \E supers \in SUBSET Types, origins \in SUBSET ObselTypes : CreateType(t, supers, origins)
  \/ \E t \in Types, s \in Types : AddSupertype(t, s) \/ RemoveSupertype(t, s)
  \/ \E t \in Types, o \in ObselTypes : AddOrigin(t, o) \/ RemoveOrigin(t, o)
  \/ \E t \in Types : RemoveType(t)
  \/ \E m \in TraceModels, n \in TraceModels \cup Missing : AddParent(m, n) \/ RemoveParent(m, n)

----------------------------------------------------------------------------
(* Listings *)

Walking == walk.queue # {}
Idle == [kind |-> "none", queue |-> {}, seen |-> {}, out |-> <<>>, origins |-> <<>>, ever |-> {}, always |-> {}, edits |-> 0]
AllArcs(g) == UNION {g[m] : m \in TraceModels}

\* iter_supertypes, iter_subtypes (those of the same model), iter_all_origins,
\* with include_indirect
Start(kind, t) ==
  /\ walk' = [Idle EXCEPT !.kind = kind, !.queue = {t}, !.seen = {t}, !.ever = AllArcs(graph), !.always = AllArcs(graph)]
  /\ UNCHANGED graph

Neighbours(kind, t) == IF kind = "subtypes" THEN Subjects("super", t) ELSE Objects(t, "super")

\* iter_all_origins tells an origin once.
NewOrigins(t) == IF walk.kind = "origins" THEN Objects(t, "origin") \ Range(walk.origins) ELSE {}

\* Mutant: the queue is the set of what was seen.
Seen_Aliased(new) == (walk.queue \cup new)

Seen(new) == walk.seen \cup new

\* _closure: one turn of the loop.
Step(t) ==
  LET new == Neighbours(walk.kind, t) \ Seen({})
  IN  /\ walk' = [walk EXCEPT !.queue = (@ \ {t}) \cup new, !.seen = Seen(new), !.out = Append(@, t),
                              !.origins = @ \o Ordered(NewOrigins(t))]
      /\ UNCHANGED graph

\* Another client edits a model; the generator does not know.
EditMeanwhile ==
  /\ Edit
  /\ walk' = [walk EXCEPT !.ever = @ \cup AllArcs(graph'), !.always = @ \cap AllArcs(graph'), !.edits = @ + 1]

\* The arcs about t, or about m, that its model may hold.
ArcsOf(t) == {Arc(t, "super", s) : s \in Types \ {t}}
  \cup {Arc(t, "origin", o) : o \in IF KindOf(t) = "RelationType" THEN ObselTypes ELSE {}}
ParentArcs(m) == {Arc(m, "parent", n) : n \in (TraceModels \cup Missing) \ {m}}
TypeArcs == {Arc(t, "type", KindOf(t)) : t \in Types}

Hold(arcs) == [m \in TraceModels |-> {a \in arcs : a.subj \in ModelHoldings[m] \cup {m}}]

\* Any types, or any parents: what edits outside of a listing may lead to.
Init ==
  /\ walk = Idle
  /\ graph \in {Hold(TypeArcs \cup S) : S \in {X \in SUBSET UNION {ArcsOf(t) : t \in Types} : Cardinality(X) <= MaxArcs}}
               \cup {Hold(S) : S \in SUBSET UNION {ParentArcs(m) : m \in TraceModels}}
  /\ "circular" \notin Unruly => \A m \in TraceModels : m \notin Ancestors(m)

Next ==
  \/ Walking /\ walk.edits < MaxEdits /\ EditMeanwhile
  \/ walk.out = <<>> /\ ~Walking /\ \E t \in Types, kind \in {"supertypes", "subtypes", "origins"} :
       (kind = "origins" => KindOf(t) = "RelationType") /\ Start(kind, t)
  \/ \E t \in walk.queue : Step(t)

\* Mutant: what was told is told again.
Once_NoCache(told, more) == told \o more

\* Those of `more' that were not told yet are told.
Once(told, more) ==
  LET once[k \in 0 .. Len(more)] ==
        IF k = 0 THEN told
        ELSE IF more[k] \in Range(once[k - 1]) THEN once[k - 1] ELSE Append(once[k - 1], more[k])
  IN  once[Len(more)]

\* Direct parents, then what each of them lists in its turn.
Lineage(direct, listed) ==
  LET all[j \in 0 .. Len(direct)] == IF j = 0 THEN direct ELSE Once(all[j - 1], listed[direct[j]])
  IN  all[Len(direct)]

\* iter_parents, where no model is its own ancestor.
Listing(m) ==
  LET listed[k \in 0 .. Cardinality(TraceModels)] ==
        [n \in TraceModels \cup Missing |->
           IF k = 0 \/ n \in Missing THEN <<>> ELSE Lineage(Ordered(Direct(n)), listed[k - 1])]
  IN  listed[Cardinality(TraceModels)][m]

\* iter_obsel_types, iter_relation_types: those of the model, then of its
\* parents.
Held(m) == Ordered({t \in ModelHoldings[m] : Exists(t)})
Inherited(m) ==
  LET inherited[j \in 0 .. Len(Listing(m))] == IF j = 0 THEN Held(m) ELSE inherited[j - 1] \o Held(Listing(m)[j])
  IN  inherited[Len(Listing(m))]

----------------------------------------------------------------------------
(* Properties *)

SuperArcs(arcs) == {a \in arcs : a.pred = "super"}
Up(arcs, t) == Reach(Types, {<<a.subj, a.obj>> : a \in SuperArcs(arcs)}, {t})
Down(arcs, t) ==
  Reach(Types, {<<a.obj, a.subj>> : a \in {x \in SuperArcs(arcs) : x.subj \in ModelHoldings[ModelOf(x.obj)]}}, {t})
Along(arcs, t) == IF walk.kind = "subtypes" THEN Down(arcs, t) ELSE Up(arcs, t)
OriginsOf(arcs, S) == {a.obj : a \in {x \in arcs : x.pred = "origin" /\ x.subj \in S}}

\* A listing of supertypes, subtypes or origins tells each of them once,
\* whatever is circular and whatever is edited meanwhile: at its end, all of
\* those that were so throughout, and none that never was.
ListingIsSound == walk.out # <<>> =>
  LET t == walk.out[1] IN
  /\ IsInjective(walk.out) /\ IsInjective(walk.origins)
  /\ Range(walk.out) \subseteq Along(walk.ever, t)
  /\ Range(walk.origins) \subseteq OriginsOf(walk.ever, Range(walk.out))
  /\ ~Walking => Along(walk.always, t) \subseteq Range(walk.out)
  /\ ~Walking /\ walk.kind = "origins" => OriginsOf(walk.always, Along(walk.always, t)) \subseteq Range(walk.origins)

\* A model lists each of its ancestors, and each type that it holds or
\* inherits, once; the listing ends, and does not fail.
InheritedOnce == \A m \in TraceModels :
  /\ m \notin Ancestors(m) /\ Ancestors(m) \subseteq TraceModels
  /\ IsInjective(Listing(m)) /\ Range(Listing(m)) = Ancestors(m)
  /\ IsInjective(Inherited(m))
=============================================================================
