------------------------------ MODULE MCLibrary ------------------------------
(***************************************************************************)
(* The parts of the kTBS that run by themselves, side by side: `part' is    *)
(* the one that a behaviour is about.  Those that are functions are applied *)
(* to each `input'; those with a state have their own Init and Next.        *)
(***************************************************************************)
EXTENDS Creation, Integers

CONSTANTS
  ModelHoldings, ObselTypes, MaxArcs, MaxEdits,   \* of Models
  SubMethods, MaxLength, MaxVersion               \* of Composites

VARIABLES part, input, graph, walk, made, parts, versions

J == INSTANCE JsonLd WITH Lossy <- {}
M == INSTANCE Models WITH Unruly <- {}
K(kind) == INSTANCE Composites WITH Kind <- kind
V == INSTANCE PrefixView
S == INSTANCE ObselSlices
G == INSTANCE ObselGraphs
T == INSTANCE ObselTimes
F == INSTANCE Formats

ASSUME LibraryAssumption == J!JsonAssumption /\ M!ModelsAssumption /\ K("pipe")!CompositesAssumption

vars == <<part, input, held, listing, graph, walk, made, parts, versions>>

----------------------------------------------------------------------------
(* Inputs *)

ThreeModels == [m1 |-> {"a", "r", "q"}, m2 |-> {"p"}, m3 |-> {}]

Opt(X) == {{}} \cup {{x} : x \in X}

\* The subsets of up to n elements.
Few(n, X) == {{}} \cup {{q[i] : i \in 1 .. n} : q \in [1 .. n -> X]}

JsonInputs ==
  (UNION {{[kind |-> "statement", of |-> c, value |-> s] : s \in J!Statements(c)} : c \in J!Described})
  \cup {[kind |-> "obsels", value |-> q] : q \in J!Orders(4)}
  \cup {[kind |-> "link", value |-> d[1], link |-> {d[2]}] : d \in J!Posted}
  \cup {[kind |-> "link", value |-> d, link |-> {}] : d \in J!Served}

\* Two bases, one of which has a model, and up to two quads.
GraphNames == {<<"b", "/">>, <<"b", "/", "m">>, <<"c", "/">>}
ViewInputs ==
  [quads : Few(2, {"x", "y"} \X {"p", "q"} \X {"x", "y"} \X GraphNames),
   path : {<<"p">>, <<"p", "q">>}, graph : GraphNames \cup {V!NoGraph}]

\* Up to three obsels, which may be instants or may hide each other.
Intervals == {i \in [b : 0 .. 2, e : 0 .. 2] : i.b <= i.e}
SliceParameters(n) ==
  {p \in [minb : Opt({1}), maxb : Opt({1}), mine : Opt({1}), maxe : Opt({1}), after : Opt({1}), before : Opt({2} \cap (1 .. n)),
          limit : Opt({1, 2}), offset : Opt({1}), reverse : BOOLEAN] :
     Cardinality(p.minb \cup p.mine) + Cardinality(p.maxb \cup p.maxe) <= 1}
SliceInputs == UNION {[f : [1 .. n -> Intervals], p : SliceParameters(n)] : n \in 1 .. 3}

\* Posted: obsels with and without a URI, and a value that they may share.
Arcs(nodes, ends, n) == Few(n, {t \in nodes \X {"p"} \X ends : t[1] # t[3]})
Orders(N) == {q \in [1 .. Cardinality(N) -> N] : {q[i] : i \in DOMAIN q} = N}
OfObsels(N, arcs) == {G!InTrace(c) : c \in N} \cup arcs
PostsOf(N) ==
  {[kind |-> "post", graph |-> OfObsels(N, arcs), order |-> q] :
     arcs \in Arcs(N \cup {"s1"}, N \cup {"s1", "o1"}, 2), q \in Orders(N)}
PostInputs == UNION {PostsOf(N) : N \in (SUBSET {"b1", "b2", "u1"}) \ {{}}}
Kept(store) == \A s \in {"s1", "s2"} : G!About(store, s) # {} => \E o \in {"o1", "o2"} : s \in G!Reached(o, store, {})
StoreInputs ==
  {[kind |-> "store", store |-> store] :
     store \in {x \in {OfObsels({"o1", "o2"}, arcs) : arcs \in Arcs({"o1", "o2", "s1", "s2"}, {"o1", "o2", "s1", "s2", "v"}, 3)} : Kept(x)}}

\* Times that are posted, or given to the Python API.
Dates == {d \in [local : 0 .. 2, zone : {"none", "some"}, offset : {-2, 0, 1}] : d.zone = "none" => d.offset = 0}
TimeNow == 5
Times == Opt({[number |-> n] : n \in {0, 1}} \cup {[date |-> d] : d \in Dates})
Given(begin, end) ==
  LET numbers(X) == {t.number : t \in {x \in X : "number" \in DOMAIN x}}
      dates(X) == {t.date : t \in {x \in X : "date" \in DOMAIN x}}
  IN  [begin |-> numbers(begin), beginDT |-> dates(begin), end |-> numbers(end), endDT |-> dates(end)]
TimeInputs ==
  [obsel : {Given(b, e) : b \in Times, e \in Times} \cup {T!ApiTimes(b, e, TimeNow) : b \in Times, e \in Times},
   unit : {"millisecond", "second", "sequence"},
   origin : {[kind |-> "opaque"]} \cup {[kind |-> "date", date |-> d] : d \in {x \in Dates : x.local = 1}}]

\* Up to two types that a client prefers, alone or before all others.
FormatInputs ==
  [type : DOMAIN F!Typed,
   accept : {[c \in F!Ctypes |-> IF c \in best THEN 2 ELSE IF others THEN 1 ELSE 0] :
               best \in Few(2, F!Ctypes), others \in BOOLEAN}]

Functions == [json |-> JsonInputs, view |-> ViewInputs, slices |-> SliceInputs, graphs |-> PostInputs \cup StoreInputs,
              times |-> TimeInputs, formats |-> FormatInputs]

----------------------------------------------------------------------------
(* Behaviours *)

Rest == "rest"

LibraryInit ==
  \/ part \in DOMAIN Functions /\ input \in Functions[part] /\ held = Rest /\ listing = Rest
     /\ graph = Rest /\ walk = Rest /\ made = Rest /\ parts = Rest /\ versions = Rest
  \/ part = "items" /\ Init /\ input = Rest /\ graph = Rest /\ walk = Rest /\ made = Rest /\ parts = Rest /\ versions = Rest
  \/ part = "models" /\ M!Init /\ input = Rest /\ held = Rest /\ listing = Rest /\ made = Rest /\ parts = Rest /\ versions = Rest
  \/ input = Rest /\ held = Rest /\ listing = Rest /\ graph = Rest /\ walk = Rest
     /\ ((part = "pipe" /\ K("pipe")!Init) \/ (part = "parallel" /\ K("parallel")!Init))

LibraryNext ==
  \/ part = "items" /\ Next /\ UNCHANGED <<part, input, graph, walk, made, parts, versions>>
  \/ part = "models" /\ M!Next /\ UNCHANGED <<part, input, held, listing, made, parts, versions>>
  \/ part = "pipe" /\ K("pipe")!Next /\ UNCHANGED <<part, input, held, listing, graph, walk>>
  \/ part = "parallel" /\ K("parallel")!Next /\ UNCHANGED <<part, input, held, listing, graph, walk>>

LibrarySpec == LibraryInit /\ [][LibraryNext]_vars

----------------------------------------------------------------------------
(* Properties: what each module states, of its inputs or of its states *)

\* What a client reads of an item of a base it may put back, and nothing
\* changes: completion and checks agree (engine/trace.py, method.py, base.py).
ItemsPutBack == part = "items" => PutBackAccepted

\* Whatever the base holds, a creation by the Python API that spares the checks
\* would have passed them (api/base.py:307-351).
ItemsEarnTrust == part = "items" => TrustIsEarned

\* Types and parents of models are listed once each, and none is left out, while
\* the models are edited (api/trace_model.py: _closure, iter_parents).
ListingsAreSound == part = "models" => M!ListingIsSound /\ M!InheritedOnce

\* What is read of a pipe or of a parallel trace is what its methods make of its
\* source, as they are, unless it has missed an edit of a method or its source was
\* changed (methods/pipe.py, parallel.py).
CompositesUpToDate ==
  /\ part = "pipe" => K("pipe")!CompositeUpToDate
  /\ part = "parallel" => K("parallel")!CompositeUpToDate

\* JSON-LD that the kTBS has written is read as what it was written from, and
\* posted documents are tied to what they are posted to (serpar).
SameThroughJson == part = "json" =>
  CASE input.kind = "statement" -> J!SameStatement(input.of, input.value)
    [] input.kind = "obsels" -> J!SameObsels(input.value)
    [] input.kind = "link" -> J!SameLink(input.value, input.link)

\* The view of a base answers as a store of its own graphs would
\* (rdfrest/util/prefix_conjunctive_view.py).
ViewsArePart == part = "view" =>
  \A s \in {"x", V!Wild}, o \in {"x", V!Wild} : V!ViewIsAPart(input.quads, <<"b", "/">>, s, input.path, o, input.graph)

\* The pages that `next' links lead through are the slice that was asked for
\* (engine/trace_obsels.py:276-298).
PagesCover == part = "slices" => S!PagesCoverSlice(input.f, input.p)

\* A page that is served with the strictly monotonic tag does not change when an
\* obsel is collected at the end (engine/trace_obsels.py:431-463).
PageTagsSound == part = "slices" => S!SliceTagSound(input.f, 1, input.p)

\* Obsels that are posted in one graph are stored as they were related in it; an
\* obsel reads the same in its own first state and in slices, and takes only its own arcs with it
\* when it is deleted (engine/trace.py:318-358, obsel.py).
ObselGraphsKept == part = "graphs" =>
  CASE input.kind = "post" -> G!PostedAsMeant({G!InTrace("o1"), <<"o1", "p", "v">>}, input.graph, input.order)
    [] input.kind = "store" ->
         \A o \in {"o1", "o2"} : G!SameDescription(o, input.store) /\ G!DeletedAlone(o, input.store)

\* What is read of an obsel stays the same when its state is refreshed
\* (engine/obsel.py:93-101, 310-325).
RefreshedObselsRead == part = "graphs" /\ input.kind = "store" =>
  \A o \in {"o1", "o2"} : G!SameWhenRefreshed(o, input.store)

\* Times that are given in order are stored in order, whatever the zones and the
\* unit (engine/obsel.py:173-259, time.py).
ObselTimesInOrder == part = "times" => T!TimesInOrder(input.obsel, input.unit, input.origin, TimeNow)

\* The format that a GET negotiates is the one of its Content-Location, for other
\* GETs and for a PUT; a resource with a dot in its name is found with an
\* extension only (http_server.py, parsers.py, serializers).
Held == {<<"/", "b">>, <<"/", "b", ".", "c", "/", "t">>, <<"/", "t", ".", "1">>, <<"/", "t">>, <<"/", "t", ".", "xml">>}
FormatsAgree == part = "formats" =>
  \A path \in Held : F!SameThroughLocation(Held, input.type, path, input.accept)
=============================================================================
