------------------------------- MODULE Formats -------------------------------
(***************************************************************************)
(* The formats that resources are served and received in: the registries   *)
(* of serializers and parsers (rdfrest/parsers.py, serializers), and their *)
(* use by the HTTP server: a GET by the extension of the URI or by the     *)
(* types that the client accepts, a PUT to the URI that a GET gave as its  *)
(* Content-Location.                                                       *)
(*                                                                         *)
(* A registry is the sequence of what was registered; a format is named    *)
(* for its function.                                                       *)
(***************************************************************************)
EXTENDS Naturals, Sequences, FiniteSets, Functions, TLC

None == "none"
Entry(func, ctype, ext, pref) == [func |-> func, ctype |-> ctype, ext |-> ext, pref |-> pref]

\* parsers.py, then serpar/jsonld_parser.py
Parsers == <<
  Entry("xml", "application/xml", "xml", 20), Entry("xml", "application/rdf+xml", "rdf", 80),
  Entry("turtle", "application/x-turtle", None, 20), Entry("turtle", "application/turtle", None, 20),
  Entry("turtle", "text/x-turtle", None, 20), Entry("turtle", "text/n3", "n3", 20), Entry("turtle", "text/turtle", "ttl", 80),
  Entry("nt", "text/plain", "txt", 20), Entry("nt", "text/nt", "nt", 40),
  Entry("json_ld", "application/json", "json", 20), Entry("json_ld", "application/ld+json", "jsonld", 80),
  Entry("ktbs_jsonld", "application/ld+json", "jsonld", 85), Entry("ktbs_json", "application/json", "json", 60)>>

\* serializers/__init__.py
Generic == <<
  Entry("xml", "application/xml", "xml", 20), Entry("xml", "application/rdf+xml", "rdf", 60),
  Entry("turtle", "application/x-turtle", None, 20), Entry("turtle", "application/turtle", None, 20),
  Entry("turtle", "text/x-turtle", None, 20), Entry("turtle", "text/n3", "n3", 20), Entry("turtle", "text/turtle", "ttl", 80),
  Entry("nt", "text/plain", "txt", 20), Entry("nt", "text/nt", "nt", 40),
  Entry("json_ld", "application/json", "json", 20), Entry("json_ld", "application/ld+json", "jsonld", 30),
  Entry("html", "text/html", "html", 60)>>

\* serpar: what is registered for a type of resources
Json == <<Entry("ktbs_json", "application/json", "json", 60), Entry("ktbs_jsonld", "application/ld+json", "jsonld", 85)>>
Typed == [
  resource |-> Json,
  obsels |-> Json \o <<Entry("csv", "text/csv", "csv", 85), Entry("geojson", "application/vnd.geo+json", "geojson", 85)>>,
  other |-> <<>>]

----------------------------------------------------------------------------
(* _FormatRegistry *)

\* __iter__: by decreasing preference, then in the order of registration.
Iterated(reg) ==
  LET before(i, j) == reg[i].pref > reg[j].pref \/ (reg[i].pref = reg[j].pref /\ i < j)
      order == SortSeq([i \in DOMAIN reg |-> i], before)
  IN  [i \in DOMAIN reg |-> reg[order[i]]]

\* _set_if_higher_pref: of equal preferences, the last one is kept.
Best(reg, S) ==
  {reg[i] : i \in {j \in S : \A k \in S : reg[k].pref < reg[j].pref \/ (reg[k].pref = reg[j].pref /\ k <= j)}}
ByCtype(reg, ctype) == Best(reg, {i \in DOMAIN reg : reg[i].ctype = ctype})
ByExt(reg, ext) == Best(reg, {i \in DOMAIN reg : reg[i].ext = ext})

\* get_serializer_by_content_type, get_serializer_by_extension,
\* iter_serializers: the registry of the type first.
FirstOf(S, T) == IF S # {} THEN S ELSE T
SerializerByCtype(type, ctype) == FirstOf(ByCtype(Typed[type], ctype), ByCtype(Generic, ctype))
SerializerByExt(type, ext) == FirstOf(ByExt(Typed[type], ext), ByExt(Generic, ext))
Serializers(type) == Iterated(Typed[type]) \o Iterated(Generic)

----------------------------------------------------------------------------
(* HttpFrontend *)

\* extsplit: what follows the last dot, unless a slash follows it.
Dots(path) == {i \in DOMAIN path : path[i] = "." /\ \A j \in i .. Len(path) : path[j] # "/"}
LastDot(path) == CHOOSE i \in Dots(path) : \A j \in Dots(path) : j <= i
ExtSplit(path) ==
  IF Dots(path) = {} THEN [path |-> path, ext |-> <<>>]
  ELSE [path |-> SubSeq(path, 1, LastDot(path) - 1), ext |-> SubSeq(path, LastDot(path) + 1, Len(path))]

\* Accept.best_match: the first of the best, or none when all have quality 0.
BestMatch(accept, ctypes) ==
  {ctypes[i] : i \in {j \in DOMAIN ctypes :
     /\ accept[ctypes[j]] > 0
     /\ \A k \in DOMAIN ctypes : accept[ctypes[k]] < accept[ctypes[j]] \/ (accept[ctypes[k]] = accept[ctypes[j]] /\ j <= k)}}

\* Mutant: the serializer of the negotiated type is taken from the common ones.
Chosen_Generic(type, ctype) == ByCtype(Generic, ctype)

Chosen(type, ctype) == SerializerByCtype(type, ctype)

\* __call__: the resource is looked up without what follows the last dot of the
\* URI, be it a format or a part of its name.
Extension(uri) == IF ExtSplit(uri).ext = <<>> THEN None ELSE ExtSplit(uri).ext[1]
At(path, ext) == path \o <<".", ext>>

\* http_get, of the resources `held', which are all of one type; a
\* Content-Location has the extension.
Served(e) == [status |-> 200, func |-> e.func, ctype |-> e.ctype, ext |-> e.ext]
HttpGet(held, type, uri, accept) ==
  LET ext == Extension(uri)
      s == Serializers(type)
      found == IF ext # None THEN SerializerByExt(type, ext)
               ELSE UNION {Chosen(type, c) : c \in BestMatch(accept, [i \in DOMAIN s |-> s[i].ctype])}
  IN  CASE ExtSplit(uri).path \notin held \/ (found = {} /\ ext # None) -> [status |-> 404]
        [] ExtSplit(uri).path \in held /\ found = {} /\ ext = None -> [status |-> 406]
        [] OTHER -> Served(CHOOSE e \in found : TRUE)

\* http_put: the parser of the type that the extension stands for, whatever the
\* resource is, or of the type of the content.
HttpPut(held, uri, ctype) ==
  LET ext == Extension(uri)
      ctypes == IF ext # None THEN {e.ctype : e \in ByExt(Generic, ext)} ELSE {ctype}
      found == UNION {ByCtype(Parsers, c) : c \in ctypes}
  IN  CASE ExtSplit(uri).path \notin held \/ (found = {} /\ ext # None) -> [status |-> 404]
        [] ExtSplit(uri).path \in held /\ found = {} /\ ext = None -> [status |-> 415]
        [] OTHER -> [status |-> 200, func |-> (CHOOSE e \in found : TRUE).func, ctype |-> CHOOSE c \in ctypes : TRUE]

----------------------------------------------------------------------------
(* Property *)

Ctypes == {e.ctype : e \in Range(Generic) \cup Range(Typed.obsels)}

\* At a URI without a dot in its last segment, a client gets a type that it
\* accepts, none better is served, and it is refused only if none is.  At the
\* Content-Location, any client gets the same, in the same format; what it gets
\* there, it may put there: it is read as the type that it was served with, or
\* refused when that type can not be read.
Negotiated(held, type, path, accept) ==
  LET got == HttpGet(held, type, path, accept)
      location == At(path, got.ext)
      put == HttpPut(held, location, "text/turtle")
      offered == {e.ctype : e \in Range(Serializers(type))}
  IN  CASE got.status = 404 -> FALSE
        [] got.status = 406 -> \A c \in offered : accept[c] = 0
        [] got.status = 200 ->
             /\ accept[got.ctype] > 0 /\ \A c \in offered : accept[c] <= accept[got.ctype]
             /\ got.ext # None =>
                  /\ HttpGet(held, type, location, accept) = got
                  /\ put.status = 200 => put.ctype = got.ctype
                  /\ put.status = 200 <=> HttpPut(held, path, got.ctype).status = 200

\* A resource with a dot in the last segment of its URI is only found with an
\* extension after it: it is served in the format of that, and no other resource
\* is, and the URI alone stands for another resource in another format.
Dotted(held, type, path, accept) ==
  \A e \in Range(Serializers(type)) : e.ext # None =>
    /\ HttpGet(held, type, At(path, e.ext), accept).status = 200
    /\ HttpGet(held \ {path}, type, At(path, e.ext), accept).status = 404
    /\ HttpGet(held \ {path}, type, path, accept) = HttpGet(held, type, path, accept)

\* And each type is read by the parser that goes with the serializer of kTBS
\* resources for it.
SameThroughLocation(held, type, path, accept) ==
  /\ IF Extension(path) = None THEN Negotiated(held, type, path, accept) ELSE Dotted(held, type, path, accept)
  /\ \A e \in Range(Serializers(type)) :
       LET put == HttpPut({<<"/", "b">>}, <<"/", "b">>, e.ctype)
       IN  put.status = 200 => put.func \in {x.func : x \in SerializerByCtype("resource", e.ctype)}
=============================================================================
