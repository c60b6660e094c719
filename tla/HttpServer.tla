----------------------------- MODULE HttpServer ------------------------------
(***************************************************************************)
(* One resource seen through HTTP (lib/rdfrest/http_server.py): its        *)
(* content and its etag, and the requests that the worker threads of the   *)
(* server handle, one per client at most.                                  *)
(*                                                                         *)
(* The handler of a PUT checks If-Match, edits the resource and, like the  *)
(* handler of a GET, reads the etag and then the content; only the edit    *)
(* itself is protected by a lock.  An edit completes what it is given, and *)
(* the state of a computed trace is rewritten when it is read.  An         *)
(* exception in a handler becomes a status.                                *)
(***************************************************************************)
EXTENDS Naturals, FiniteSets

CONSTANTS
  Clients,
  Facts,       \* what the graph of the resource may contain
  Derived,     \* those of them that the service completes or computes by itself
  MaxEtag,     \* bound: changes of the resource
  Threaded,    \* does the server handle several requests at a time?
  Extensions,  \* do clients PUT to URIs with an extension (.ttl, .json)?
  Gone,        \* the content of a deleted resource
  NoTag,       \* no etag
  Service      \* the author of what clients do not PUT

ASSUME ServerAssumption ==
  /\ MaxEtag \in Nat
  /\ Derived \subseteq Facts
  /\ Threaded \in BOOLEAN /\ Extensions \in BOOLEAN
  /\ NoTag \notin Nat /\ Service \notin Clients
  /\ \A g \in SUBSET Facts : Gone # g

VARIABLES
  content,   \* the graph of the resource
  etag,      \* RDFREST.etag: never twice the same
  writer,    \* who made the last change
  request    \* the request of each client and its answer

server == <<content, etag, writer, request>>

Graphs == SUBSET Facts

\* What the service may make of g: an origin or a parent method that was left
\* out, the bounds that dates stand for, the description of a computed trace.
Completions(g) == {(g \ Derived) \cup added : added \in SUBSET Derived}

\* g and h differ at most by what the service writes by itself.
SameButDerived(g, h) == g \ Derived = h \ Derived

Tags == 0 .. MaxEtag \cup {NoTag}

\* 200 stands for 201 and 204 too, and 500 for all that is neither that nor 404:
\* what ErrorHandlerMiddleware makes of exceptions, a condition that is missing
\* or does not hold (403, 412), a graph that is too large (413).
Statuses == {200, 404, 500}

\* Where a request is: not sent, waiting for a worker, or in its handler.
Places == {"none", "GET", "PUT", "POST", "DELETE", "tagged", "checked", "applied", "done"}
Handled == {"tagged", "checked", "applied"}

Requests == [at : Places, body : Graphs, match : Tags, ext : BOOLEAN,
             status : Statuses, tag : Tags]
NoRequest == [at |-> "none", body |-> {}, match |-> NoTag, ext |-> FALSE,
              status |-> 200, tag |-> NoTag]

Init ==
  /\ content \in Graphs
  /\ etag = 0
  /\ writer = Service
  /\ request = [c \in Clients |-> NoRequest]

At(c, place) == request[c].at = place

\* A worker takes the request of c.
Taken(c) == Threaded \/ \A d \in Clients \ {c} : request[d].at \notin Handled

\* The next step of the handler.
Move(c, place) == request' = [request EXCEPT ![c].at = place]

\* The handler is done, with no graph to send back.
Answer(c, status) == request' = [request EXCEPT ![c] =
  [NoRequest EXCEPT !.at = "done", !.status = status]]

Refuse(c) == Answer(c, 500)

\* _core_call: nothing is found at this URI.
NotFound(c) ==
  /\ request[c].at \in {"GET", "PUT", "POST", "DELETE"}
  /\ Taken(c)
  /\ content = Gone
  /\ Answer(c, 404)
  /\ UNCHANGED <<content, etag, writer>>

----------------------------------------------------------------------------
(* GET: the etags, then the graph, which the serializer reads lazily *)

\* get_state: a computed trace that is marked is computed again before its
\* etags are read, in a GET or for the answer to a PUT.
Refresh(c) ==
  /\ (At(c, "GET") /\ Taken(c)) \/ At(c, "applied")
  /\ content # Gone /\ etag < MaxEtag
  /\ content' \in Completions(content)
  /\ etag' = etag + 1
  /\ writer' = Service
  /\ UNCHANGED request

GetTags(c) ==
  /\ At(c, "GET") /\ Taken(c) /\ content # Gone
  /\ request' = [request EXCEPT ![c].at = "tagged", ![c].tag = etag]
  /\ UNCHANGED <<content, etag, writer>>

\* The resource can not be read: a computation fails, max_triples is exceeded.
GetFails(c) ==
  /\ At(c, "GET") /\ Taken(c) /\ content # Gone
  /\ Refuse(c)
  /\ UNCHANGED <<content, etag, writer>>

GetBody(c) ==
  /\ At(c, "tagged")
  /\ request' = [request EXCEPT
       ![c].at = "done", ![c].status = 200,
       ![c].body = IF content = Gone THEN {} ELSE content]
  /\ UNCHANGED <<content, etag, writer>>

----------------------------------------------------------------------------
(* PUT *)

\* Mutant: an If-Match field is enough, whatever it says.
Matches_Any(c) == request[c].match # NoTag

\* If-Match has the etag of the resource, tainted with the content type.
Matches(c) == request[c].match = etag

\* The format is found and If-Match is checked; with an extension in the URI,
\* only the format is.
CheckPut(c) ==
  /\ At(c, "PUT") /\ Taken(c) /\ content # Gone
  /\ IF request[c].ext THEN Move(c, "checked")
     ELSE IF request[c].match # NoTag /\ Matches(c) THEN Move(c, "checked")
     ELSE Refuse(c)
  /\ UNCHANGED <<content, etag, writer>>

\* The edit is refused: unparsable, too many triples, or checks that fail.
PutRefused(c) ==
  /\ At(c, "checked")
  /\ Refuse(c)
  /\ UNCHANGED <<content, etag, writer>>

\* with resource.edit(params, clear=True): what is stored is the body as
\* complete_new_graph and ack_edit leave it.
ApplyPut(c) ==
  /\ At(c, "checked")
  /\ IF content = Gone
     THEN Refuse(c) /\ UNCHANGED <<content, etag, writer>>
     ELSE /\ etag < MaxEtag
          /\ content' \in Completions(request[c].body)
          /\ etag' = etag + 1
          /\ writer' = c
          /\ Move(c, "applied")

\* return self.http_get(request, resource)
RespondPut(c) ==
  /\ At(c, "applied")
  /\ IF content = Gone THEN Refuse(c)
     ELSE request' = [request EXCEPT ![c] =
            [NoRequest EXCEPT !.at = "done", !.status = 200, !.tag = etag]]
  /\ UNCHANGED <<content, etag, writer>>

----------------------------------------------------------------------------
(* POST and DELETE *)

\* Mutant: what is posted to the resource leaves its etag.
Post_KeepsEtag(c) ==
  /\ At(c, "POST") /\ Taken(c) /\ content # Gone /\ etag < MaxEtag
  /\ content' = content \cup request[c].body
  /\ etag' = etag
  /\ writer' = Service
  /\ Answer(c, 200)

\* The body stands for what posting adds to this graph: the links to what is
\* created.
Post(c) ==
  /\ At(c, "POST") /\ Taken(c) /\ content # Gone /\ etag < MaxEtag
  /\ content' = content \cup request[c].body
  /\ etag' = etag + 1
  /\ writer' = Service
  /\ Answer(c, 200)

Delete(c) ==
  /\ At(c, "DELETE") /\ Taken(c) /\ content # Gone /\ etag < MaxEtag
  /\ content' = Gone
  /\ etag' = etag + 1
  /\ writer' = Service
  /\ Answer(c, 200)

Refused(c) ==
  /\ request[c].at \in {"POST", "DELETE"} /\ Taken(c) /\ content # Gone
  /\ Refuse(c)
  /\ UNCHANGED <<content, etag, writer>>

Handle(c) ==
  \/ NotFound(c)
  \/ Refresh(c) \/ GetTags(c) \/ GetFails(c) \/ GetBody(c)
  \/ CheckPut(c) \/ PutRefused(c) \/ ApplyPut(c) \/ RespondPut(c)
  \/ Post(c) \/ Delete(c) \/ Refused(c)
=============================================================================
