-------------------------------- MODULE JsonLd --------------------------------
(***************************************************************************)
(* The JSON-LD that the kTBS writes and reads (ktbs/serpar): what becomes  *)
(* of URIs, of values, of the description of a resource and of the obsels  *)
(* of a trace when they are written, then read back, as a client does that *)
(* edits a resource with GET and PUT.                                      *)
(*                                                                         *)
(* A URI is a namespace and a name, or a path and a fragment; the last     *)
(* segment of a path that ends with a slash is "".  JSON text itself and   *)
(* the JSON-LD algorithms are the library's (pyld).                        *)
(***************************************************************************)
EXTENDS Naturals, FiniteSets, Sequences, Functions

CONSTANT Lossy   \* what is enumerated among the cases that JSON does not keep

LossyCases == {"literals", "terms", "unwritten", "blank values", "circles", "references back",
               "local predicates", "data graphs"}

JsonAssumption == Lossy \subseteq LossyCases

----------------------------------------------------------------------------
(* ValueConverter.uri, and how a reference is resolved *)

Term(ns, name) == [ns |-> ns, path |-> <<>>, name |-> name]
At(path, frag) == [ns |-> "host", path |-> path, name |-> frag]

KtbsTerms == {"filter", "second"}

Directory(path) == SubSeq(path, 1, Len(path) - 1)
HasParent(path) == Len(path) > 1
Up(path) == Directory(Directory(path))

Below(dir, path) == Len(path) > Len(dir) /\ SubSeq(path, 1, Len(dir)) = dir
Rest(dir, path) == SubSeq(path, Len(dir) + 1, Len(path))

\* Mutant: the directory itself is written as an empty reference.
Relative_Empty(up, rest, frag) ==
  IF up = 0 /\ rest = <<"">> THEN [form |-> "fragment", name |-> frag]
  ELSE [form |-> "relative", up |-> up, rest |-> rest, name |-> frag]

\* "./" stands before what would be empty or a fragment.
Relative(up, rest, frag) == [form |-> "relative", up |-> up, rest |-> rest, name |-> frag]

Full(u) == [form |-> "full", uri |-> u]
Prefixed(u) == [form |-> u.ns, name |-> u.name]

Short(u, base, prefixes) ==
  CASE u.ns = "ktbs" -> Relative(0, <<u.name>>, "")
    [] u.ns \in prefixes -> Prefixed(u)
    [] u.ns = "host" /\ u.path = base /\ u.name # "" -> [form |-> "fragment", name |-> u.name]
    [] u.ns = "host" /\ Below(Directory(base), u.path) -> Relative(0, Rest(Directory(base), u.path), u.name)
    [] u.ns = "host" /\ HasParent(base) /\ ~Below(Directory(base), u.path) /\ Below(Up(base), u.path) ->
         Relative(1, Rest(Up(base), u.path), u.name)
    [] OTHER -> Full(u)

\* The name of a kTBS term is read as such only where the vocabulary counts.
IsTerm(r) == r.form = "relative" /\ r.up = 0 /\ r.name = "" /\ Len(r.rest) = 1 /\ r.rest[1] \in KtbsTerms

Resolved(r, base, vocab, prefixes) ==
  CASE vocab /\ IsTerm(r) -> Term("ktbs", r.rest[1])
    [] r.form = "relative" /\ ~(vocab /\ IsTerm(r)) -> At((IF r.up = 0 THEN Directory(base) ELSE Up(base)) \o r.rest, r.name)
    [] r.form \in prefixes -> Term(r.form, r.name)
    [] r.form = "fragment" -> At(base, r.name)
    [] r.form = "full" -> r.uri

----------------------------------------------------------------------------
(* ValueConverter.literal, and how a JSON value is read under a key *)

JsonType(datatype) ==
  CASE datatype = "integer" -> "int"
    [] datatype \in {"double", "decimal"} -> "float"
    [] datatype = "boolean" -> "bool"
    [] datatype = "language" -> "tagged"
    [] OTHER -> "text"

ReadAs(json, coercion) ==
  CASE json = "int" -> "integer" [] json = "float" -> "double" [] json = "bool" -> "boolean"
    [] json = "tagged" -> "language"
    [] json = "text" -> IF coercion \in {"none", "id", "vocab"} THEN "string" ELSE coercion

Key(name, pred, type) == [key |-> name, pred |-> pred, dir |-> "out", type |-> type]
Back(name, pred) == [key |-> name, pred |-> pred, dir |-> "in", type |-> "id"]

\* CONTEXT_JSON: what the keys of a document stand for.
Context == {Key("@type", "type", "vocab"),
  Key("additionalType", "type", "id"), Key("begin", "hasBegin", "integer"), Key("beginDT", "hasBeginDT", "dateTime"),
  Key("contains", "contains", "id"), Key("defaultSubject", "hasDefaultSubject", "none"), Key("diagnosis", "hasDiagnosis", "none"),
  Key("end", "hasEnd", "integer"), Key("endDT", "hasEndDT", "dateTime"),
  Key("hasAttributeDatatype", "hasAttributeRange", "id"), Key("hasAttributeObselType", "hasAttributeDomain", "id"),
  Key("hasBase", "hasBase", "id"), Key("hasBuiltinMethod", "hasBuiltinMethod", "vocab"), Key("hasContext", "hasContext", "id"),
  Key("hasDefaultSubject", "hasDefaultSubject", "id"), Key("hasMethod", "hasMethod", "vocab"), Key("hasModel", "hasModel", "id"),
  Key("hasObselList", "hasObselCollection", "id"), Key("hasParentMethod", "hasParentMethod", "vocab"),
  Key("hasParentModel", "hasParentModel", "id"), Key("hasRelationDestination", "hasRelationRange", "id"),
  Key("hasRelationOrigin", "hasRelationDomain", "id"), Key("hasSource", "hasSource", "id"),
  Key("hasSourceObsel", "hasSourceObsel", "id"), Key("hasSubject", "hasSubject", "id"),
  Key("hasSuperObselType", "hasSuperObselType", "id"), Key("hasSuperRelationType", "hasSuperRelationType", "id"),
  Key("hasTrace", "hasTrace", "id"), Key("hasTraceStatistics", "hasTraceStatistics", "id"), Key("hasUnit", "hasUnit", "vocab"),
  Key("label", "prefLabel", "none"), Key("obselCount", "hasObselCount", "integer"), Key("origin", "hasOrigin", "none"),
  Key("parameter", "hasParameter", "none"), Key("rdfs:comment", "comment", "none"), Key("rdfs:label", "rdfsLabel", "none"),
  Key("subject", "hasSubject", "none"),
  Key("suggestedColor", "hasSuggestedColor", "none"), Key("suggestedSymbol", "hasSuggestedSymbol", "none"),
  Key("traceBegin", "hasTraceBegin", "integer"), Key("traceBeginDT", "hasTraceBeginDT", "dateTime"),
  Key("traceEnd", "hasTraceEnd", "integer"), Key("traceEndDT", "hasTraceEndDT", "dateTime"), Key("version", "hasVersion", "none"),
  Back("inBase", "contains"), Back("inRoot", "hasBase"), Back("isMethodOf", "hasMethod"),
  Back("isParentMethodOf", "hasParentMethod"), Back("isSourceOf", "hasSource"), Back("obsels", "hasTrace")}

----------------------------------------------------------------------------
(* The keys that the serializers write for a resource *)

\* serialize_json_root, serialize_json_base and the items of its list
RootKeys == {"version", "hasBuiltinMethod", "hasBase"}
BaseKeys == {"contains", "inBase", "inRoot"}
\* (of several comments, or rdfs labels, only the first is written)
ItemKeys == {"hasMethod", "hasModel", "hasSource", "label", "obselCount", "rdfs:comment", "rdfs:label"}

MethodKeys == {"hasParentMethod", "parameter", "isMethodOf", "isParentMethodOf", "inBase"}

\* serialize_json_model: the model, then the types that it holds
ModelKeys == {"inBase", "hasUnit", "hasParentModel"}
Suggested == {"suggestedColor", "suggestedSymbol"}
TypeKeys(c) == Suggested \cup
  CASE c = "ObselType" -> {"hasSuperObselType"}
    [] c = "AttributeType" -> {"hasAttributeObselType", "hasAttributeDatatype"}
    [] c = "RelationType" -> {"hasSuperRelationType", "hasRelationOrigin", "hasRelationDestination"}

TraceKeys == {"hasObselList", "hasTraceStatistics", "hasModel", "origin", "traceBegin", "traceBeginDT", "traceEnd", "traceEndDT",
  "hasDefaultSubject", "defaultSubject", "hasSource", "hasMethod", "parameter", "diagnosis", "hasContext", "isSourceOf", "inBase"}

\* serialize_json_obsel, iter_obsel_arcs
ObselKeys == {"@type", "hasTrace", "begin", "end", "subject", "hasSubject"}
ObselArcKeys == {"hasSourceObsel", "beginDT", "endDT"}

Types == {"ObselType", "AttributeType", "RelationType"}
Described == Types \cup {"KtbsRoot", "Base", "Item", "Method", "TraceModel", "Trace", "Obsel"}
KeysOf(c) ==
  CASE c = "KtbsRoot" -> RootKeys [] c = "Base" -> BaseKeys [] c = "Item" -> ItemKeys
    [] c = "Method" -> MethodKeys [] c = "TraceModel" -> ModelKeys [] c \in Types -> TypeKeys(c)
    [] c = "Trace" -> TraceKeys [] c = "Obsel" -> ObselKeys \cup ObselArcKeys

\* iter_other_arcs, add_other_arcs: labels, other types, and what is said with
\* other vocabularies, of the resource or to it; the latter under a key of its
\* own, which is the predicate.
OtherKeys(c) == {k \in Context : k.key = "label" \/ (k.key = "additionalType" /\ c # "Obsel")}
OtherArcs(pred) == {Key(pred, pred, "none"), [key |-> pred, pred |-> pred, dir |-> "in", type |-> "none"]}

\* Values that are formatted as text, whatever their type.
AsText == {"origin", "diagnosis", "parameter", "subject"}

IsUri(v) == "uri" \in DOMAIN v
IsBlank(v) == "about" \in DOMAIN v

\* Whatever is said about a blank node, it is written as an empty object.
ToJson(k, v, base, prefixes) ==
  CASE IsUri(v) -> [uri |-> Short(v.uri, base, prefixes)]
    [] IsBlank(v) -> [about |-> {}]
    [] OTHER -> [literal |-> IF k.key \in AsText THEN "text" ELSE JsonType(v.literal)]

FromJson(k, j, base, prefixes) ==
  CASE IsUri(j) -> [uri |-> Resolved(j.uri, base, k.type = "vocab", prefixes)]
    [] IsBlank(j) -> j
    [] OTHER -> [literal |-> ReadAs(j.literal, k.type)]

\* The keys that a statement of a resource of class c is written under: a
\* reference or a literal, according to how the key is read.
Under(c, s) == {k \in {x \in Context : x.key \in KeysOf(c)} \cup OtherKeys(c) \cup OtherArcs("seeAlso") :
  k.dir = s.dir /\ k.pred = s.pred /\ (k.pred # "seeAlso" => (k.type \in {"id", "vocab"}) = IsUri(s.value))}

Written(c, S, base, prefixes) == UNION {{<<k, ToJson(k, s.value, base, prefixes)>> : k \in Under(c, s)} : s \in S}
ReadBack(D, base, prefixes) ==
  {[dir |-> d[1].dir, pred |-> d[1].pred, value |-> FromJson(d[1], d[2], base, prefixes)] : d \in D}

----------------------------------------------------------------------------
(* What is said of the resources of the kTBS *)

PathOf(c) ==
  CASE c = "KtbsRoot" -> <<"">> [] c \in {"Base", "Item"} -> <<"b", "">> [] c = "Trace" -> <<"b", "t", "">>
    [] c = "Obsel" -> <<"b", "t", "o">> [] OTHER -> <<"b", "m">>
PrefixesOf(c) == IF c = "Obsel" THEN {"xsd", "m"} ELSE {"xsd"}

Numbers == {"hasTraceBegin", "hasTraceEnd", "hasBegin", "hasEnd", "hasObselCount"}
Dates == {"hasTraceBeginDT", "hasTraceEndDT", "hasBeginDT", "hasEndDT"}
Texts == {"hasOrigin", "hasParameter", "hasDiagnosis", "hasVersion", "hasSuggestedColor", "hasSuggestedSymbol", "comment", "rdfsLabel"}
Named == {"hasMethod", "hasParentMethod", "hasBuiltinMethod", "hasUnit"}

Out(c) == {"prefLabel", "seeAlso"} \cup
  CASE c = "KtbsRoot" -> {"type", "hasVersion", "hasBuiltinMethod", "hasBase"}
    [] c = "Base" -> {"type", "contains"}
    [] c = "Item" -> {"hasMethod", "hasModel", "hasSource", "hasObselCount", "comment", "rdfsLabel"}
    [] c = "Method" -> {"type", "hasParentMethod", "hasParameter"} \cup IF "unwritten" \in Lossy THEN {"inherits"} ELSE {}
    [] c = "TraceModel" -> {"type", "hasUnit", "hasParentModel"}
    [] c = "ObselType" -> {"type", "hasSuperObselType", "hasSuggestedColor", "hasSuggestedSymbol"}
    [] c = "AttributeType" -> {"type", "hasAttributeDomain", "hasAttributeRange", "hasSuggestedColor", "hasSuggestedSymbol"}
    [] c = "RelationType" -> {"type", "hasSuperRelationType", "hasRelationDomain", "hasRelationRange", "hasSuggestedColor",
                              "hasSuggestedSymbol"}
    [] c = "Trace" -> {"type", "hasModel", "hasOrigin", "hasTraceBegin", "hasTraceBeginDT", "hasTraceEnd", "hasTraceEndDT",
                       "hasDefaultSubject", "hasSource", "hasMethod", "hasParameter", "hasDiagnosis", "hasContext"}
                      \cup IF "unwritten" \in Lossy THEN {"hasPseudoMonRange"} ELSE {}
    [] c = "Obsel" -> {"type", "hasTrace", "hasBegin", "hasEnd", "hasBeginDT", "hasEndDT", "hasSubject", "hasSourceObsel"}

In(c) ==
  CASE c = "Base" -> {"hasBase", "contains", "seeAlso"} [] c = "Method" -> {"hasMethod", "hasParentMethod", "contains"}
    [] c = "Trace" -> {"hasSource", "contains"} [] c = "TraceModel" -> {"contains"} [] c = "Item" -> {} [] OTHER -> {"seeAlso"}

Places(base) == {At(base, ""), At(base, "f"), At(Append(Directory(base), "x"), ""), At(Append(Directory(base), ""), ""),
                 At(<<"z", "y", "x">>, ""), Term("xsd", "x"), Term("other", "x"), At(Append(Up(Append(base, "")), "y"), "f")}

\* Which values a predicate has: with "terms", kTBS terms are also named where
\* only resources are expected, and resources have the names of terms.
UrisFor(pred, base) == Places(base)
  \cup (IF pred \in Named \/ "terms" \in Lossy THEN {Term("ktbs", "filter")} ELSE {})
  \cup (IF pred \notin Named \cup {"type"} \/ "terms" \in Lossy THEN {At(Append(Directory(base), "filter"), "")} ELSE {})
LiteralsFor(pred) ==
  CASE pred \in Numbers -> {"integer"} [] pred \in Dates -> {"dateTime"} [] pred \in Texts -> {"string"}
    [] pred = "prefLabel" -> {"string", "language"}
    [] pred \in {"hasDefaultSubject", "hasSubject"} -> {"string"}
    [] pred = "seeAlso" -> {"integer", "double", "boolean", "string", "language"}
                           \cup IF "literals" \in Lossy THEN {"decimal", "dateTime"} ELSE {}
    [] OTHER -> {}
HasUris(pred) == pred \notin Numbers \cup Dates \cup Texts \cup {"prefLabel"}

Values(pred, base) == {[literal |-> x] : x \in LiteralsFor(pred)}
  \cup (IF pred = "seeAlso" /\ "blank values" \in Lossy THEN {[about |-> {"said"}]} ELSE {})
  \cup {[uri |-> u] : u \in IF HasUris(pred) THEN UrisFor(pred, base) ELSE {}}

Statements(c) ==
  (UNION {{[dir |-> "out", pred |-> p, value |-> v] : v \in Values(p, PathOf(c))} : p \in Out(c)})
  \cup UNION {{[dir |-> "in", pred |-> p, value |-> [uri |-> u]] : u \in Places(PathOf(c))} : p \in In(c)}

----------------------------------------------------------------------------
(* parse_json: what a posted document is completed with *)

InBaseTypes == {"StoredTrace", "ComputedTrace", "DataGraph", "TraceModel", "Method"}

\* Mutant: the description of the root is taken for an obsel.
Marks_NoRoot == {"hasObselList", "hasTraceStatistics"}

\* The keys of the documents that are not obsels, though they have no type
\* that tells.
Marks == {"hasObselList", "hasTraceStatistics", "hasBuiltinMethod"}

\* A document is its type and its keys, or a list; the keys of the first item
\* stand for those of a graph.
Completed(doc) ==
  CASE doc.list -> doc.keys \cup {"obsels", "m"}
    [] ~doc.list /\ doc.type = "Base" -> doc.keys \cup IF "inBase" \in doc.keys THEN {} ELSE {"inRoot"}
    [] ~doc.list /\ doc.type \in InBaseTypes -> doc.keys \cup {"inBase"}
    [] ~doc.list /\ doc.type \notin InBaseTypes \cup {"Base"} /\ "@graph" \in doc.keys -> doc.keys \cup {"inBase"}
    [] ~doc.list /\ doc.type \notin InBaseTypes \cup {"Base"} /\ "@graph" \notin doc.keys /\ doc.keys \cap Marks = {} ->
         doc.keys \cup {"hasTrace", "m"}
    [] OTHER -> doc.keys

Doc(type, keys) == [list |-> FALSE, type |-> type, keys |-> keys]

\* What clients post without a link, and the link that the target expects.
Posted == {<<Doc(t, {}), "inBase">> : t \in InBaseTypes} \cup {<<Doc("none", {"@graph"}), "inBase">>, <<Doc("Base", {}), "inRoot">>,
   <<Doc("m:type", {}), "hasTrace">>, <<Doc("none", {"begin"}), "hasTrace">>, <<[list |-> TRUE, type |-> "none", keys |-> {}], "obsels">>}

\* What the serializers write.
Served == {Doc("KtbsRoot", {"hasBuiltinMethod"}), Doc("Base", {"inRoot"}), Doc("Base", {"inBase"}), Doc("Method", {"inBase"}),
   Doc("none", {"@graph", "inBase"}), Doc("StoredTrace", {"inBase", "hasObselList", "hasTraceStatistics"}),
   Doc("ComputedTrace", {"inBase", "hasObselList", "hasTraceStatistics"}), Doc("none", {"hasObselList", "obsels", "m"}),
   Doc("none", {"hasTraceStatistics"})}
   \cup IF "data graphs" \in Lossy THEN {Doc("none", {"@graph"})} ELSE {}

----------------------------------------------------------------------------
(* trace_obsels_to_json: the obsels of a trace, and the blank nodes that they *)
(* refer to, which are written inside the first node that refers to them.  An *)
(* arc is a subject, a key and an object; a key is a reference too.           *)

Subjects(arcs) == {arcs[n].subj : n \in DOMAIN arcs}

\* Mutant: a blank node is written in full for no reference.
Holder_None(arcs, b) == {}

\* bnode_factory: the first node that refers to a blank node holds it.
Holder(arcs, b) ==
  LET refs == {n \in DOMAIN arcs : arcs[n].obj = b}
  IN  {arcs[n].subj : n \in {m \in refs : \A k \in refs : m <= k}}

\* Obsels are in the list of the document, other nodes in what holds them.
Reached(arcs, obsels) ==
  LET within[n \in 0 .. Cardinality(Subjects(arcs))] ==
        IF n = 0 THEN obsels
        ELSE within[n - 1] \cup {b \in Subjects(arcs) : Holder(arcs, b) \cap within[n - 1] # {}}
  IN  within[Cardinality(Subjects(arcs))]

\* A key that is not a URI, nor in the context, is dropped when it is read.
KeyRead(key, base, prefixes) ==
  LET r == Short(key, base, prefixes) IN
  IF r.form \in prefixes \cup {"full"} THEN {Resolved(r, base, TRUE, prefixes)} ELSE {}

\* A reference to an obsel is also written in that obsel, from the subject's
\* name: that of a blank node is a relative reference there.
NameIn(n, obsels) == IF n \in obsels THEN n ELSE "./" \o n
Reversed(arcs, obsels) ==
  {[a EXCEPT !.subj = NameIn(a.subj, obsels)] : a \in {x \in Range(arcs) : x.obj \in obsels}}

ObselsRead(arcs, obsels, base) ==
  UNION {{[a EXCEPT !.pred = p] : p \in KeyRead(a.pred, base, {"m", "xsd"})} :
         a \in {x \in Range(arcs) : x.subj \in Reached(arcs, obsels)} \cup Reversed(arcs, obsels)}

----------------------------------------------------------------------------
(* Inputs and properties *)

Obsels == {"o", "p"}
Arc(x, y) == [subj |-> x, pred |-> Term("m", "a"), obj |-> y]
Arcs == {Arc(x, y) : x \in Obsels, y \in {"x", "y"}} \cup {Arc("x", "y"), Arc("o", "p")}
        \cup (IF "circles" \in Lossy THEN {Arc("y", "x")} ELSE {})
        \cup (IF "references back" \in Lossy THEN {Arc("x", "o")} ELSE {})
        \cup IF "local predicates" \in Lossy THEN {[Arc("o", "y") EXCEPT !.pred = At(<<"b", "m2">>, "a")]} ELSE {}

\* Each node is an obsel, or an obsel refers to a node that leads to it.
Orders(MaxArcs) == {q \in UNION {[1 .. n -> Arcs] : n \in 1 .. MaxArcs} :
  /\ \A i, j \in DOMAIN q : q[i] = q[j] => i = j
  /\ "x" \in Subjects(q) => \E n \in DOMAIN q : q[n].obj = "x" /\ q[n].subj \in Obsels
  /\ "y" \in Subjects(q) => \E n \in DOMAIN q : q[n].obj = "y" /\ q[n].subj \in Obsels}

\* What is said of a resource is the same when it is written, then read: a
\* client that puts back what it got changes nothing.
SameStatement(c, s) ==
  ReadBack(Written(c, {s}, PathOf(c), PrefixesOf(c)), PathOf(c), PrefixesOf(c)) = {s}

\* In whatever order the statements on obsels and on the blank nodes that they
\* lead to come, all of them are read again, and only them: provided that no
\* blank node refers back to an obsel or to one that leads to it.
SameObsels(arcs) == ObselsRead(arcs, Obsels, <<"b", "t", "@obsels">>) = Range(arcs)

\* A posted document gets the link to what it is posted to, and a document that
\* the kTBS has written gets none.
SameLink(doc, link) == Completed(doc) \ {"m"} = (doc.keys \cup link) \ {"m"}
=============================================================================
