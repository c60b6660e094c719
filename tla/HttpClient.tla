----------------------------- MODULE HttpClient ------------------------------
(***************************************************************************)
(* Clients of that resource: HttpClientCore, whose graph is kept by a      *)
(* ProxyStore (lib/rdfrest/cores/http_client.py, util/proxystore.py).      *)
(* Reading the graph pulls it, an edit context changes the local copy and  *)
(* then pushes it under the etag of the copy, and any failure pulls it     *)
(* again.  No HTTP cache is configured, as is the default: a pull always   *)
(* parses what the server answers.                                         *)
(***************************************************************************)
EXTENDS HttpServer

VARIABLES
  graph,     \* ProxyStore._graph of each client
  tags,      \* ProxyStore._etags
  mode,      \* what the client is doing
  seen,      \* the graph it last got from the server or put there
  pulled,    \* did it get that graph from the server?
  raised     \* did its last operation raise an exception?

copy == <<graph, tags, seen, pulled>>
client == <<copy, mode, raised>>
vars == <<server, client>>

\* Outside an edit context or in one; waiting for the answer to a pull (out of
\* or in an edit context, or as a rollback), to a push, to a POST or a DELETE.
Modes == {"idle", "edit", "pull", "pullInEdit", "rollback", "push", "call"}

ClientInit ==
  /\ Init
  /\ graph = [c \in Clients |-> {}]
  /\ tags = [c \in Clients |-> NoTag]
  /\ mode = [c \in Clients |-> "idle"]
  /\ seen = [c \in Clients |-> {}]
  /\ pulled = [c \in Clients |-> FALSE]
  /\ raised = [c \in Clients |-> FALSE]

Send(c, method, body, match, ext) ==
  request' = [request EXCEPT ![c] =
    [NoRequest EXCEPT !.at = method, !.body = body, !.match = match, !.ext = ext]]

SendGet(c) == Send(c, "GET", {}, NoTag, FALSE)

Become(c, m) == mode' = [mode EXCEPT ![c] = m] /\ raised' = [raised EXCEPT ![c] = FALSE]

\* The operation returns to the program, or raises an exception.
Return(c, fails) == mode' = [mode EXCEPT ![c] = "idle"] /\ raised' = [raised EXCEPT ![c] = fails]

\* The handlers of this request and of no other have changed.
ServerRest == UNCHANGED <<content, etag, writer>>

\* Reading any triple of the graph pulls it.
Read(c) ==
  /\ mode[c] \in {"idle", "edit"}
  /\ Become(c, IF mode[c] = "edit" THEN "pullInEdit" ELSE "pull")
  /\ SendGet(c)
  /\ ServerRest /\ UNCHANGED copy

\* edit(clear) enters its context.
Edit(c) ==
  /\ mode[c] = "idle"
  /\ Become(c, "edit")
  /\ graph' \in {graph, [graph EXCEPT ![c] = {}]}
  /\ UNCHANGED <<server, tags, seen, pulled>>

\* The program adds or removes a triple.
Change(c, f) ==
  /\ mode[c] = "edit"
  /\ graph' = [graph EXCEPT ![c] = IF f \in @ THEN @ \ {f} ELSE @ \cup {f}]
  /\ UNCHANGED <<server, tags, mode, seen, pulled, raised>>

\* The context ends: commit, i.e. _push.  Some clients PUT by themselves to a
\* URI with an extension, and no etag.
Push(c) ==
  /\ mode[c] = "edit"
  /\ Become(c, "push")
  /\ \/ Send(c, "PUT", graph[c], tags[c], FALSE)
     \/ Extensions /\ Send(c, "PUT", graph[c], NoTag, TRUE)
  /\ ServerRest /\ UNCHANGED copy

\* The context is left by an exception: rollback.
Abort(c) ==
  /\ mode[c] = "edit"
  /\ Become(c, "rollback")
  /\ SendGet(c)
  /\ ServerRest /\ UNCHANGED copy

Call(c, method, body) ==
  /\ mode[c] = "idle"
  /\ Become(c, "call")
  /\ Send(c, method, body, NoTag, FALSE)
  /\ ServerRest /\ UNCHANGED copy

----------------------------------------------------------------------------
(* The answers *)

Parse(c, g, t) ==
  /\ graph' = [graph EXCEPT ![c] = g]
  /\ tags' = [tags EXCEPT ![c] = t]
  /\ seen' = [seen EXCEPT ![c] = g]
  /\ pulled' = [pulled EXCEPT ![c] = TRUE]

\* Mutant: what a failed pull leaves keeps its etag.
Pulled_KeepsTag(c) ==
  LET r == request[c]
  IN  IF r.status = 404 THEN UNCHANGED copy
      ELSE IF r.status = 200 THEN Parse(c, r.body, r.tag)
      ELSE Parse(c, {}, tags[c])

\* _pull: 404 raises at once; any other answer is parsed, and the graph is
\* emptied before an error message is found to be no graph.
Pulled(c) ==
  LET r == request[c]
  IN  IF r.status = 404 THEN UNCHANGED copy
      ELSE IF r.status = 200 THEN Parse(c, r.body, r.tag)
      ELSE Parse(c, {}, NoTag)

\* The answer to a pull.  In an edit context, it replaces what was changed; if
\* it can not be parsed, the context is left by that exception and pulls again.
\* A rollback passes on the exceptions it meets, never the one it is done for.
GotGraph(c) ==
  /\ At(c, "done")
  /\ mode[c] \in {"pull", "pullInEdit", "rollback"}
  /\ Pulled(c)
  /\ IF mode[c] # "pullInEdit"
     THEN /\ Return(c, request[c].status # 200)
          /\ request' = [request EXCEPT ![c] = NoRequest]
     ELSE IF request[c].status = 200
     THEN Become(c, "edit") /\ request' = [request EXCEPT ![c] = NoRequest]
     ELSE Become(c, "rollback") /\ SendGet(c)
  /\ ServerRest

\* Mutant: the changes that were refused are kept.
Pushed_KeepsCopy(c) ==
  /\ At(c, "done")
  /\ mode[c] = "push"
  /\ IF request[c].status = 200
     THEN /\ tags' = [tags EXCEPT ![c] = request[c].tag]
          /\ seen' = [seen EXCEPT ![c] = graph[c]]
          /\ pulled' = [pulled EXCEPT ![c] = FALSE]
     ELSE UNCHANGED <<tags, seen, pulled>>
  /\ Return(c, FALSE)
  /\ request' = [request EXCEPT ![c] = NoRequest]
  /\ ServerRest /\ UNCHANGED graph

\* _push gets its answer: the new etag, or an exception, which the edit context
\* answers by a rollback and does not pass on.  Of the answer only the header
\* is read: the copy stays as it was put.
Pushed(c) ==
  /\ At(c, "done")
  /\ mode[c] = "push"
  /\ IF request[c].status = 200
     THEN /\ tags' = [tags EXCEPT ![c] = request[c].tag]
          /\ seen' = [seen EXCEPT ![c] = graph[c]]
          /\ pulled' = [pulled EXCEPT ![c] = FALSE]
          /\ Return(c, FALSE)
          /\ request' = [request EXCEPT ![c] = NoRequest]
     ELSE /\ UNCHANGED <<tags, seen, pulled>>
          /\ Become(c, "rollback")
          /\ SendGet(c)
  /\ ServerRest /\ UNCHANGED graph

\* post_graph or delete returns, or _http_to_exception raises.
Called(c) ==
  /\ At(c, "done")
  /\ mode[c] = "call"
  /\ Return(c, request[c].status # 200)
  /\ request' = [request EXCEPT ![c] = NoRequest]
  /\ ServerRest /\ UNCHANGED copy

----------------------------------------------------------------------------

Next ==
  \E c \in Clients :
    \/ Handle(c) /\ UNCHANGED client
    \/ Read(c) \/ Edit(c) \/ Push(c) \/ Abort(c)
    \/ \E f \in Facts : Change(c, f)
    \/ \E f \in Facts \ Derived : Call(c, "POST", {f})
    \/ Call(c, "DELETE", {})
    \/ GotGraph(c) \/ Pushed(c) \/ Called(c)

Spec == ClientInit /\ [][Next]_vars

----------------------------------------------------------------------------
(* Properties *)

\* Types.
TypeOK ==
  /\ content = Gone \/ content \in Graphs
  /\ etag \in 0 .. MaxEtag
  /\ writer \in Clients \cup {Service}
  /\ request \in [Clients -> Requests]
  /\ graph \in [Clients -> Graphs]
  /\ tags \in [Clients -> Tags]
  /\ mode \in [Clients -> Modes]
  /\ seen \in [Clients -> Graphs]
  /\ pulled \in [Clients -> BOOLEAN]
  /\ raised \in [Clients -> BOOLEAN]

\* g is what client c takes the resource to be: exactly, when the server sent
\* it; but for what the service completes or computes, when c has put it there.
SeenAs(c, g) == IF pulled[c] THEN seen[c] = g ELSE SameButDerived(seen[c], g)

\* _push promises to "trigger an exception if data has already been modified on
\* the server": a PUT that is accepted replaces the content its author has seen,
\* and no other, what the service has since completed by itself excepted.
OverwritesWhatWasSeen ==
  [][\A c \in Clients :
       At(c, "checked") /\ request'[c].at = "applied" => SeenAs(c, content)]_vars

\* Whatever failed before, a client that holds the current etag has seen the
\* current content: the condition of its next PUT says what it means.
FreshIsEqual ==
  \A c \in Clients : tags[c] = etag /\ content # Gone => SeenAs(c, content)

\* An edit that is refused, answered by an error or left by an exception leaves
\* no trace: outside edit contexts, the copy is what was last got from the
\* server or accepted by it, as long as the resource exists.
RefusedIsForgotten ==
  \A c \in Clients : mode[c] \in {"idle", "pull", "call"} /\ content # Gone
                    => graph[c] = seen[c]

\* What _push's comment asks, to "update the data with the response"
\* (proxystore.py:416): a copy with the current etag is the current content.
FreshIsExact ==
  \A c \in Clients :
    mode[c] = "idle" /\ tags[c] = etag /\ content # Gone => graph[c] = content

\* ICore.edit: "the modification will be applied to the resource when exiting
\* the context" (cores/__init__.py:145).  If not, leaving the context raises.
EditsTellFailures ==
  [][\A c \in Clients :
       mode[c] = "rollback" /\ mode'[c] = "idle" => raised'[c]]_vars

Register == INSTANCE CasRegister WITH
  Values <- Graphs, NoVersion <- NoTag,
  value <- content, version <- etag, held <- tags

\* The resource is a compare-and-set register for its clients.
RegisterSpec == Register!Spec
=============================================================================
