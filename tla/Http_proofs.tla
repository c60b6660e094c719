----------------------------- MODULE Http_proofs ------------------------------
(***************************************************************************)
(* The promises of the etags, for any number of clients and any content.   *)
(* As long as the server handles one request at a time (~Threaded), a      *)
(* client with the current etag has seen the current content, up to what   *)
(* the service writes by itself, and keeps nothing of what was refused; a  *)
(* PUT replaces only what its author has seen, if no client goes around    *)
(* If-Match either (~Extensions).                                          *)
(***************************************************************************)
EXTENDS HttpClient, TLAPS

USE ServerAssumption

----------------------------------------------------------------------------
(* The inductive invariants *)

Pulling == {"pull", "pullInEdit", "rollback"}

\* The request of a client is one that its mode waits for.
ModesAgree ==
  \A c \in Clients :
    /\ mode[c] \in {"idle", "edit"} => At(c, "none")
    /\ mode[c] \in Pulling => request[c].at \in {"GET", "tagged", "done"}
    /\ mode[c] = "push" => request[c].at \in {"PUT", "checked", "applied", "done"}
    /\ mode[c] = "call" => request[c].at \in {"POST", "DELETE", "done"}

\* What holds of any server.
BaseInv == TypeOK /\ ModesAgree

OneHandler ==
  \A c, d \in Clients :
    request[c].at \in Handled /\ request[d].at \in Handled => c = d

\* The body of a PUT is the local copy, and what is stored is what the service
\* makes of it; its condition is the etag of that copy.
\* Once it is checked, the condition holds until the edit.
PutsAgree ==
  \A c \in Clients :
    /\ request[c].at \in {"PUT", "checked", "applied"} => request[c].body = graph[c]
    /\ request[c].at \in {"PUT", "checked"} /\ ~request[c].ext => request[c].match = tags[c]
    /\ At(c, "checked") => content # Gone
    /\ At(c, "checked") /\ ~request[c].ext => request[c].match = etag
    /\ At(c, "applied") => content # Gone /\ SameButDerived(request[c].body, content)

\* The etag of an answer is of the content it comes with, or of an older one.
AnswersAgree ==
  \A c \in Clients :
    /\ At(c, "tagged") => request[c].tag = etag /\ content # Gone
    /\ At(c, "done") /\ request[c].status = 200 /\ mode[c] # "call" =>
         /\ request[c].tag \in Nat /\ request[c].tag <= etag
         /\ request[c].tag = etag /\ content # Gone =>
              IF mode[c] = "push" THEN SameButDerived(graph[c], content)
              ELSE content = request[c].body
    /\ At(c, "done") /\ mode[c] \in Pulling /\ request[c].status = 404 => content = Gone

\* The current etag is only held by a client that has seen the content.  Its
\* copy is what it has seen, but in edit contexts, and after a rollback that
\* found no resource any more.
CopiesAgree ==
  \A c \in Clients :
    /\ tags[c] \in Nat => tags[c] <= etag
    /\ tags[c] = etag /\ content # Gone => SeenAs(c, content)
    /\ mode[c] \in {"idle", "pull", "call"} /\ content # Gone => graph[c] = seen[c]

\* What holds when requests are handled one at a time.
IInv == BaseInv /\ OneHandler /\ PutsAgree /\ AnswersAgree /\ CopiesAgree

----------------------------------------------------------------------------
(* Operators *)

\* The step leaves the requests of the other clients alone.
OnlyRequestOf(c) ==
  /\ request' \in [Clients -> Requests]
  /\ \A d \in Clients \ {c} : request'[d] = request[d]

LEMMA NoRequestType == NoRequest \in Requests
  BY DEF NoRequest, Requests, Places, Graphs, Tags, Statuses

LEMMA AnswerEffect ==
  ASSUME TypeOK, NEW c \in Clients, NEW status \in Statuses, Answer(c, status)
  PROVE  /\ OnlyRequestOf(c)
         /\ request'[c].at = "done" /\ request'[c].status = status
  BY DEF Answer, OnlyRequestOf, TypeOK, NoRequest, Requests, Places, Graphs, Tags

LEMMA RefuseEffect ==
  ASSUME TypeOK, NEW c \in Clients, Refuse(c)
  PROVE  OnlyRequestOf(c) /\ request'[c].at = "done" /\ request'[c].status = 500
<1>1. 500 \in Statuses
  BY DEF Statuses
<1> QED
  BY <1>1, AnswerEffect DEF Refuse

\* What completing and computing leave alone.
LEMMA CompletionsOf ==
  ASSUME NEW g \in Graphs, NEW h \in Completions(g)
  PROVE  h \in Graphs /\ SameButDerived(g, h)
BY DEF Graphs, Completions, SameButDerived

LEMMA SameTrans ==
  ASSUME NEW g, NEW h, NEW k, SameButDerived(g, h), SameButDerived(h, k)
  PROVE  SameButDerived(g, k)
BY DEF SameButDerived

LEMMA MoveEffect ==
  ASSUME TypeOK, NEW c \in Clients, NEW place \in Places, Move(c, place)
  PROVE  /\ OnlyRequestOf(c)
         /\ request'[c].at = place
         /\ request'[c].body = request[c].body /\ request'[c].match = request[c].match
         /\ request'[c].ext = request[c].ext
  BY DEF Move, OnlyRequestOf, TypeOK, Requests

LEMMA SendEffect ==
  ASSUME TypeOK, NEW c \in Clients, NEW method \in Places, NEW body \in Graphs,
         NEW match \in Tags, NEW ext \in BOOLEAN, Send(c, method, body, match, ext)
  PROVE  /\ OnlyRequestOf(c)
         /\ request'[c].at = method /\ request'[c].body = body
         /\ request'[c].match = match /\ request'[c].ext = ext
<1> DEFINE r == [NoRequest EXCEPT !.at = method, !.body = body, !.match = match, !.ext = ext]
<1>1. r \in Requests
  BY DEF NoRequest, Requests, Tags, Statuses, Graphs
<1>2. /\ r.at = method /\ r.body = body /\ r.match = match /\ r.ext = ext
  BY DEF NoRequest
<1>3. request' = [request EXCEPT ![c] = r]
  BY DEF Send
<1> HIDE DEF r
<1>4. OnlyRequestOf(c) /\ request'[c] = r
  BY <1>1, <1>3 DEF OnlyRequestOf, TypeOK
<1> QED
  BY <1>2, <1>4

LEMMA GetTagsEffect ==
  ASSUME TypeOK, NEW c \in Clients, GetTags(c)
  PROVE  /\ OnlyRequestOf(c)
         /\ request'[c].at = "tagged" /\ request'[c].tag = etag
<1> DEFINE r == [request[c] EXCEPT !.at = "tagged", !.tag = etag]
<1>1. request[c] \in Requests /\ etag \in Tags
  BY DEF TypeOK, Tags
<1>2. r \in Requests
  BY <1>1 DEF Requests, Places
<1>3. r.at = "tagged" /\ r.tag = etag
  BY <1>1 DEF Requests
<1>4. request' = [request EXCEPT ![c] = r]
  BY DEF GetTags, TypeOK
<1> HIDE DEF r
<1>5. OnlyRequestOf(c) /\ request'[c] = r
  BY <1>2, <1>4 DEF OnlyRequestOf, TypeOK
<1> QED
  BY <1>3, <1>5

LEMMA GetBodyEffect ==
  ASSUME TypeOK, NEW c \in Clients, GetBody(c)
  PROVE  /\ OnlyRequestOf(c)
         /\ request'[c].at = "done" /\ request'[c].status = 200
         /\ request'[c].tag = request[c].tag
         /\ request'[c].body = IF content = Gone THEN {} ELSE content
<1> DEFINE b == IF content = Gone THEN {} ELSE content
           r == [request[c] EXCEPT !.at = "done", !.status = 200, !.body = b]
<1>1. request[c] \in Requests /\ b \in Graphs
  BY DEF TypeOK, Graphs
<1>2. request' = [request EXCEPT ![c] = r]
  BY DEF GetBody, TypeOK
<1> HIDE DEF b
<1>3. r \in Requests
  <2> DEFINE r1 == [request[c] EXCEPT !.at = "done"]
             r2 == [r1 EXCEPT !.status = 200]
             r3 == [r2 EXCEPT !.body = b]
  <2>1. r1 \in Requests
    BY <1>1 DEF Requests, Places
  <2> HIDE DEF r1
  <2>2. r2 \in Requests
    BY <2>1 DEF Requests, Statuses
  <2> HIDE DEF r2
  <2>3. r3 \in Requests
    BY <1>1, <2>2 DEF Requests
  <2>4. r = r3
    BY DEF r1, r2
  <2> QED
    BY <2>3, <2>4
<1>4. /\ r.at = "done" /\ r.status = 200 /\ r.body = b
      /\ r.tag = request[c].tag
  BY <1>1 DEF Requests
<1> HIDE DEF r
<1>5. OnlyRequestOf(c) /\ request'[c] = r
  BY <1>2, <1>3 DEF OnlyRequestOf, TypeOK
<1> QED
  BY <1>4, <1>5 DEF b

LEMMA RespondPutEffect ==
  ASSUME TypeOK, NEW c \in Clients, RespondPut(c), content # Gone
  PROVE  /\ OnlyRequestOf(c)
         /\ request'[c].at = "done" /\ request'[c].status = 200
         /\ request'[c].tag = etag
<1> DEFINE r == [NoRequest EXCEPT !.at = "done", !.status = 200, !.tag = etag]
<1>1. etag \in Tags
  BY DEF TypeOK, Tags
<1>2. r \in Requests
  <2> DEFINE r1 == [NoRequest EXCEPT !.at = "done"]
             r2 == [r1 EXCEPT !.status = 200]
             r3 == [r2 EXCEPT !.tag = etag]
  <2>1. r1 \in Requests
    BY NoRequestType DEF Requests, Places
  <2> HIDE DEF r1
  <2>2. r2 \in Requests
    BY <2>1 DEF Requests, Statuses
  <2> HIDE DEF r2
  <2>3. r3 \in Requests
    BY <1>1, <2>2 DEF Requests
  <2>4. r = r3
    BY DEF r1, r2
  <2> QED
    BY <2>3, <2>4
<1>3. r.at = "done" /\ r.status = 200 /\ r.tag = etag
  BY DEF NoRequest
<1>4. request' = [request EXCEPT ![c] = r]
  BY DEF RespondPut
<1> HIDE DEF r
<1>5. OnlyRequestOf(c) /\ request'[c] = r
  BY <1>2, <1>4 DEF OnlyRequestOf, TypeOK
<1> QED
  BY <1>3, <1>5

----------------------------------------------------------------------------
(* Any server *)

LEMMA InitBase == ClientInit => BaseInv
<1> SUFFICES ASSUME ClientInit PROVE BaseInv
  OBVIOUS
<1>1. TypeOK
  BY NoRequestType DEF ClientInit, Init, TypeOK, Graphs, Tags, Modes
<1>2. ModesAgree
  BY DEF ClientInit, Init, ModesAgree, At, NoRequest, Pulling
<1> QED
  BY <1>1, <1>2 DEF BaseInv

\* What a step of a handler does to the request it handles.
HandlerStep(c) ==
  /\ OnlyRequestOf(c)
  /\ UNCHANGED client
  /\ \/ /\ request[c].at \in {"GET", "tagged"}
        /\ request'[c].at \in {"GET", "tagged", "done"}
     \/ /\ request[c].at \in {"PUT", "checked", "applied"}
        /\ request'[c].at \in {"checked", "applied", "done"}
     \/ /\ request[c].at \in {"POST", "DELETE"}
        /\ request'[c].at = "done"
  /\ request'[c].at = "checked" => request[c].at = "PUT" /\ request'[c].ext = request[c].ext

\* Every action of the server is such a step, and keeps the types.
LEMMA HandleIsStep ==
  ASSUME BaseInv, NEW c \in Clients, Handle(c), UNCHANGED client
  PROVE  HandlerStep(c) /\ TypeOK'
<1> USE DEF BaseInv, At
<1>1. CASE NotFound(c)
  <2>1. Answer(c, 404) /\ UNCHANGED <<content, etag, writer>>
    BY <1>1 DEF NotFound
  <2>2. HandlerStep(c)
    BY <1>1, <2>1, AnswerEffect DEF NotFound, HandlerStep, Statuses
  <2> QED
    BY <2>1, <2>2 DEF HandlerStep, OnlyRequestOf, TypeOK, client, copy
<1>2. CASE GetTags(c)
  <2>1. HandlerStep(c)
    BY <1>2, GetTagsEffect DEF GetTags, HandlerStep
  <2> QED
    BY <1>2, <2>1 DEF GetTags, HandlerStep, OnlyRequestOf, TypeOK, client, copy
<1>3. CASE GetFails(c)
  <2>1. HandlerStep(c)
    BY <1>3, RefuseEffect DEF GetFails, HandlerStep
  <2> QED
    BY <1>3, <2>1 DEF GetFails, HandlerStep, OnlyRequestOf, TypeOK, client, copy
<1>4. CASE GetBody(c)
  <2>1. At(c, "tagged")
    BY <1>4 DEF GetBody
  <2>2. HandlerStep(c)
    BY <1>4, <2>1, GetBodyEffect DEF HandlerStep
  <2> QED
    BY <1>4, <2>2 DEF GetBody, HandlerStep, OnlyRequestOf, TypeOK, client, copy
<1>5. CASE CheckPut(c)
  <2>1. Move(c, "checked") \/ Refuse(c)
    BY <1>5 DEF CheckPut
  <2>2. HandlerStep(c)
    BY <1>5, <2>1, MoveEffect, RefuseEffect DEF CheckPut, HandlerStep, Places
  <2> QED
    BY <1>5, <2>2 DEF CheckPut, HandlerStep, OnlyRequestOf, TypeOK, client, copy
<1>6. CASE PutRefused(c)
  <2>1. HandlerStep(c)
    BY <1>6, RefuseEffect DEF PutRefused, HandlerStep
  <2> QED
    BY <1>6, <2>1 DEF PutRefused, HandlerStep, OnlyRequestOf, TypeOK, client, copy
<1>7. CASE ApplyPut(c)
  <2>1. HandlerStep(c)
    BY <1>7, RefuseEffect, MoveEffect DEF ApplyPut, HandlerStep, Places
  <2>2. content' = Gone \/ content' \in Graphs
    BY <1>7, CompletionsOf DEF ApplyPut, TypeOK, Requests
  <2>3. etag' \in 0 .. MaxEtag /\ writer' \in Clients \cup {Service}
    BY <1>7 DEF ApplyPut, TypeOK
  <2> QED
    BY <2>1, <2>2, <2>3 DEF HandlerStep, OnlyRequestOf, TypeOK, client, copy
<1>8. CASE RespondPut(c)
  <2>1. CASE content = Gone
    BY <1>8, <2>1, RefuseEffect DEF RespondPut, HandlerStep, OnlyRequestOf, TypeOK, client, copy
  <2>2. CASE content # Gone
    <3>1. HandlerStep(c)
      BY <1>8, <2>2, RespondPutEffect DEF RespondPut, HandlerStep
    <3> QED
      BY <1>8, <3>1 DEF RespondPut, HandlerStep, OnlyRequestOf, TypeOK, client, copy
  <2> QED
    BY <2>1, <2>2
<1>9. CASE Post(c)
  <2>1. HandlerStep(c)
    BY <1>9, AnswerEffect DEF Post, HandlerStep, Statuses
  <2>2. content' \in Graphs
    BY <1>9 DEF Post, TypeOK, Requests, Graphs
  <2>3. etag' \in 0 .. MaxEtag /\ writer' \in Clients \cup {Service}
    BY <1>9 DEF Post, TypeOK
  <2> QED
    BY <2>1, <2>2, <2>3 DEF HandlerStep, OnlyRequestOf, TypeOK, client, copy
<1>10. CASE Delete(c)
  <2>1. HandlerStep(c)
    BY <1>10, AnswerEffect DEF Delete, HandlerStep, Statuses
  <2>2. etag' \in 0 .. MaxEtag /\ writer' \in Clients \cup {Service}
    BY <1>10 DEF Delete, TypeOK
  <2> QED
    BY <1>10, <2>1, <2>2 DEF Delete, HandlerStep, OnlyRequestOf, TypeOK, client, copy
<1>11. CASE Refused(c)
  <2>1. HandlerStep(c)
    BY <1>11, RefuseEffect DEF Refused, HandlerStep
  <2> QED
    BY <1>11, <2>1 DEF Refused, HandlerStep, OnlyRequestOf, TypeOK, client, copy
<1>12. CASE Refresh(c)
  <2>1. HandlerStep(c)
    BY <1>12 DEF Refresh, HandlerStep, OnlyRequestOf, TypeOK
  <2>2. content' \in Graphs
    BY <1>12, CompletionsOf DEF Refresh, TypeOK
  <2>3. etag' \in 0 .. MaxEtag /\ writer' \in Clients \cup {Service}
    BY <1>12 DEF Refresh, TypeOK
  <2> QED
    BY <2>1, <2>2, <2>3 DEF HandlerStep, OnlyRequestOf, TypeOK, client, copy
<1> QED
  BY <1>1, <1>2, <1>3, <1>4, <1>5, <1>6, <1>7, <1>8, <1>9, <1>10, <1>11, <1>12 DEF Handle

LEMMA HandleBase ==
  ASSUME BaseInv, NEW c \in Clients, Handle(c), UNCHANGED client
  PROVE  BaseInv'
<1>1. HandlerStep(c) /\ TypeOK'
  BY HandleIsStep
<1>2. ModesAgree'
  BY <1>1 DEF BaseInv, HandlerStep, OnlyRequestOf, ModesAgree, At, client, Pulling
<1> QED
  BY <1>1, <1>2 DEF BaseInv

\* The step is one of client c: it waits for a request only after sending it.
ClientStep(c) ==
  /\ OnlyRequestOf(c)
  /\ UNCHANGED <<content, etag, writer>>
  /\ mode' \in [Clients -> Modes] /\ raised' \in [Clients -> BOOLEAN]
  /\ \A d \in Clients \ {c} : mode'[d] = mode[d]
  /\ \/ mode'[c] \in {"idle", "edit"} /\ request'[c].at = "none"
     \/ mode'[c] \in Pulling /\ request'[c].at = "GET"
     \/ mode'[c] = "push" /\ request'[c].at = "PUT"
     \/ mode'[c] = "call" /\ request'[c].at \in {"POST", "DELETE"}
  /\ request'[c].at = "PUT" /\ request'[c].ext => Extensions

LEMMA ClientStepBase ==
  ASSUME BaseInv, NEW c \in Clients, ClientStep(c),
         graph' \in [Clients -> Graphs], tags' \in [Clients -> Tags],
         seen' \in [Clients -> Graphs], pulled' \in [Clients -> BOOLEAN]
  PROVE  BaseInv'
<1>1. TypeOK'
  BY DEF BaseInv, TypeOK, ClientStep, OnlyRequestOf
<1>2. ModesAgree'
  BY DEF BaseInv, ModesAgree, ClientStep, OnlyRequestOf, At, Pulling
<1> QED
  BY <1>1, <1>2 DEF BaseInv

LEMMA SendGetEffect ==
  ASSUME TypeOK, NEW c \in Clients, SendGet(c)
  PROVE  /\ OnlyRequestOf(c)
         /\ request'[c].at = "GET"
<1>1. "GET" \in Places /\ {} \in Graphs /\ NoTag \in Tags /\ FALSE \in BOOLEAN
  BY DEF Places, Graphs, Tags
<1> QED
  BY <1>1, SendEffect DEF SendGet

LEMMA ReceiveEffect ==
  ASSUME TypeOK, NEW c \in Clients, request' = [request EXCEPT ![c] = NoRequest]
  PROVE  /\ OnlyRequestOf(c)
         /\ request'[c].at = "none"
  BY NoRequestType DEF OnlyRequestOf, TypeOK, NoRequest

LEMMA BecomeEffect ==
  ASSUME TypeOK, NEW c \in Clients, NEW m \in Modes, Become(c, m)
  PROVE  /\ mode' \in [Clients -> Modes] /\ raised' \in [Clients -> BOOLEAN]
         /\ mode'[c] = m /\ \A d \in Clients \ {c} : mode'[d] = mode[d]
  BY DEF Become, TypeOK

LEMMA ReturnEffect ==
  ASSUME TypeOK, NEW c \in Clients, NEW b \in BOOLEAN, Return(c, b)
  PROVE  /\ mode' \in [Clients -> Modes] /\ raised' \in [Clients -> BOOLEAN]
         /\ mode'[c] = "idle" /\ \A d \in Clients \ {c} : mode'[d] = mode[d]
<1>1. mode' \in [Clients -> Modes] /\ mode'[c] = "idle"
  BY DEF Return, TypeOK, Modes
<1>2. \A d \in Clients \ {c} : mode'[d] = mode[d]
  BY DEF Return, TypeOK
<1>3. raised' \in [Clients -> BOOLEAN]
  BY DEF Return, TypeOK
<1> QED
  BY <1>1, <1>2, <1>3

LEMMA ReadStep ==
  ASSUME BaseInv, NEW c \in Clients, Read(c) PROVE ClientStep(c)
  BY SendGetEffect DEF BaseInv, TypeOK, Read, Become, Return, ServerRest, ClientStep, Modes, Pulling

LEMMA EditStep ==
  ASSUME BaseInv, NEW c \in Clients, Edit(c)
  PROVE  ClientStep(c) /\ graph' \in [Clients -> Graphs]
<1>1. graph' \in [Clients -> Graphs]
  BY DEF BaseInv, TypeOK, Edit, Graphs
<1>2. At(c, "none")
  BY DEF BaseInv, ModesAgree, Edit, At
<1>3. OnlyRequestOf(c)
  BY DEF BaseInv, TypeOK, Edit, server, OnlyRequestOf
<1> QED
  BY <1>1, <1>2, <1>3 DEF BaseInv, TypeOK, Edit, Become, server, ClientStep, Modes, At

LEMMA ChangeStep ==
  ASSUME BaseInv, NEW c \in Clients, NEW f \in Facts, Change(c, f)
  PROVE  ClientStep(c) /\ graph' \in [Clients -> Graphs]
<1>1. graph' \in [Clients -> Graphs]
  BY DEF BaseInv, TypeOK, Change, Graphs
<1>2. At(c, "none")
  BY DEF BaseInv, ModesAgree, Change, At
<1>3. OnlyRequestOf(c)
  BY DEF BaseInv, TypeOK, Change, server, OnlyRequestOf
<1> QED
  BY <1>1, <1>2, <1>3 DEF BaseInv, TypeOK, Change, server, ClientStep, At

\* Which PUT is sent.
LEMMA PushEffect ==
  ASSUME BaseInv, NEW c \in Clients, Push(c)
  PROVE  /\ ClientStep(c)
         /\ mode'[c] = "push" /\ request'[c].at = "PUT"
         /\ request'[c].body = graph[c]
         /\ ~request'[c].ext => request'[c].match = tags[c]
         /\ request'[c].ext => Extensions
<1>1. /\ graph[c] \in Graphs /\ tags[c] \in Tags /\ NoTag \in Tags /\ "PUT" \in Places
      /\ TRUE \in BOOLEAN /\ FALSE \in BOOLEAN
  BY DEF BaseInv, TypeOK, Tags, Places
<1>2. PICK t \in Tags, e \in BOOLEAN :
        /\ Send(c, "PUT", graph[c], t, e)
        /\ e => Extensions
        /\ ~e => t = tags[c]
  BY <1>1 DEF Push
<1>3. /\ OnlyRequestOf(c)
      /\ request'[c].at = "PUT" /\ request'[c].body = graph[c] /\ request'[c].match = t
      /\ request'[c].ext = e
  BY <1>1, <1>2, SendEffect DEF BaseInv
<1> QED
  BY <1>2, <1>3 DEF BaseInv, TypeOK, Push, Become, Return, ServerRest, ClientStep, Modes

LEMMA AbortStep ==
  ASSUME BaseInv, NEW c \in Clients, Abort(c) PROVE ClientStep(c)
  BY SendGetEffect DEF BaseInv, TypeOK, Abort, Become, Return, ServerRest, ClientStep, Modes, Pulling

LEMMA CallStep ==
  ASSUME BaseInv, NEW c \in Clients, NEW method \in {"POST", "DELETE"},
         NEW body \in Graphs, Call(c, method, body)
  PROVE  ClientStep(c) /\ request'[c].at = method
<1>1. method \in Places /\ NoTag \in Tags /\ FALSE \in BOOLEAN
  BY DEF Places, Tags
<1>2. "call" \in Modes /\ TypeOK
  BY DEF Modes, BaseInv
<1>3. /\ mode' \in [Clients -> Modes] /\ raised' \in [Clients -> BOOLEAN]
      /\ mode'[c] = "call" /\ \A d \in Clients \ {c} : mode'[d] = mode[d]
  BY <1>2, BecomeEffect DEF Call
<1>4. OnlyRequestOf(c) /\ request'[c].at = method
  BY <1>1, <1>2, SendEffect DEF Call
<1> QED
  BY <1>3, <1>4 DEF Call, ServerRest, ClientStep

LEMMA GotGraphStep ==
  ASSUME BaseInv, NEW c \in Clients, GotGraph(c)
  PROVE  /\ ClientStep(c)
         /\ graph' \in [Clients -> Graphs] /\ tags' \in [Clients -> Tags]
         /\ seen' \in [Clients -> Graphs] /\ pulled' \in [Clients -> BOOLEAN]
<1>1. ClientStep(c)
  <2>0. TypeOK /\ "edit" \in Modes /\ "rollback" \in Modes /\ "rollback" \in Pulling
    BY DEF BaseInv, Modes, Pulling
  <2>1. CASE /\ Return(c, request[c].status # 200)
             /\ request' = [request EXCEPT ![c] = NoRequest]
    <3>1. (request[c].status # 200) \in BOOLEAN
      OBVIOUS
    <3>2. /\ mode' \in [Clients -> Modes] /\ raised' \in [Clients -> BOOLEAN]
          /\ mode'[c] = "idle" /\ \A d \in Clients \ {c} : mode'[d] = mode[d]
      BY <2>0, <2>1, <3>1, ReturnEffect
    <3>3. OnlyRequestOf(c) /\ request'[c].at = "none"
      BY <2>0, <2>1, ReceiveEffect
    <3> QED
      BY <3>2, <3>3 DEF GotGraph, ServerRest, ClientStep
  <2>2. CASE Become(c, "edit") /\ request' = [request EXCEPT ![c] = NoRequest]
    <3>1. /\ mode' \in [Clients -> Modes] /\ raised' \in [Clients -> BOOLEAN]
          /\ mode'[c] = "edit" /\ \A d \in Clients \ {c} : mode'[d] = mode[d]
      BY <2>0, <2>2, BecomeEffect
    <3>2. OnlyRequestOf(c) /\ request'[c].at = "none"
      BY <2>0, <2>2, ReceiveEffect
    <3> QED
      BY <3>1, <3>2 DEF GotGraph, ServerRest, ClientStep
  <2>3. CASE Become(c, "rollback") /\ SendGet(c)
    <3>1. /\ mode' \in [Clients -> Modes] /\ raised' \in [Clients -> BOOLEAN]
          /\ mode'[c] = "rollback" /\ \A d \in Clients \ {c} : mode'[d] = mode[d]
      BY <2>0, <2>3, BecomeEffect
    <3>2. OnlyRequestOf(c) /\ request'[c].at = "GET"
      BY <2>0, <2>3, SendGetEffect
    <3> QED
      BY <2>0, <3>1, <3>2 DEF GotGraph, ServerRest, ClientStep
  <2> QED
    BY <2>1, <2>2, <2>3 DEF GotGraph
<1>2. request[c].body \in Graphs /\ request[c].tag \in Tags /\ {} \in Graphs /\ NoTag \in Tags
  BY DEF BaseInv, TypeOK, Requests, Graphs, Tags
<1>3. /\ graph' \in [Clients -> Graphs] /\ tags' \in [Clients -> Tags]
      /\ seen' \in [Clients -> Graphs] /\ pulled' \in [Clients -> BOOLEAN]
  <2>1. CASE request[c].status = 404
    BY <2>1 DEF BaseInv, TypeOK, GotGraph, Pulled, copy
  <2>2. CASE request[c].status # 404
    <3>1. \E g \in Graphs, t \in Tags : Parse(c, g, t)
      BY <1>2, <2>2 DEF GotGraph, Pulled
    <3> QED
      BY <3>1 DEF BaseInv, TypeOK, Parse
  <2> QED
    BY <2>1, <2>2
<1> QED
  BY <1>1, <1>3

LEMMA PushedStep ==
  ASSUME BaseInv, NEW c \in Clients, Pushed(c)
  PROVE  /\ ClientStep(c)
         /\ tags' \in [Clients -> Tags] /\ seen' \in [Clients -> Graphs]
         /\ pulled' \in [Clients -> BOOLEAN]
<1>1. ClientStep(c)
  <2>0. TypeOK /\ "rollback" \in Modes /\ "rollback" \in Pulling
    BY DEF BaseInv, Modes, Pulling
  <2>1. CASE Return(c, FALSE) /\ request' = [request EXCEPT ![c] = NoRequest]
    BY <2>0, <2>1, ReturnEffect, ReceiveEffect DEF Pushed, ServerRest, ClientStep
  <2>2. CASE Become(c, "rollback") /\ SendGet(c)
    <3>1. /\ mode' \in [Clients -> Modes] /\ raised' \in [Clients -> BOOLEAN]
          /\ mode'[c] = "rollback" /\ \A d \in Clients \ {c} : mode'[d] = mode[d]
      BY <2>0, <2>2, BecomeEffect
    <3>2. OnlyRequestOf(c) /\ request'[c].at = "GET"
      BY <2>0, <2>2, SendGetEffect
    <3> QED
      BY <2>0, <3>1, <3>2 DEF Pushed, ServerRest, ClientStep
  <2> QED
    BY <2>1, <2>2 DEF Pushed
<1>2. request[c].tag \in Tags /\ graph[c] \in Graphs
  BY DEF BaseInv, TypeOK, Requests
<1>3. /\ tags' \in [Clients -> Tags] /\ seen' \in [Clients -> Graphs]
      /\ pulled' \in [Clients -> BOOLEAN]
  <2>1. /\ tags \in [Clients -> Tags] /\ seen \in [Clients -> Graphs]
        /\ pulled \in [Clients -> BOOLEAN]
    BY DEF BaseInv, TypeOK
  <2>2. CASE UNCHANGED <<tags, seen, pulled>>
    BY <2>1, <2>2
  <2>3. CASE /\ tags' = [tags EXCEPT ![c] = request[c].tag]
             /\ seen' = [seen EXCEPT ![c] = graph[c]]
             /\ pulled' = [pulled EXCEPT ![c] = FALSE]
    BY <1>2, <2>1, <2>3
  <2> QED
    BY <2>2, <2>3 DEF Pushed
<1> QED
  BY <1>1, <1>3

LEMMA CalledStep ==
  ASSUME BaseInv, NEW c \in Clients, Called(c) PROVE ClientStep(c)
  BY ReceiveEffect, ReturnEffect DEF BaseInv, Called, ServerRest, ClientStep

LEMMA NextBase == BaseInv /\ [Next]_vars => BaseInv'
<1> SUFFICES ASSUME BaseInv, [Next]_vars PROVE BaseInv'
  OBVIOUS
<1>0. UNCHANGED copy =>
        /\ graph' \in [Clients -> Graphs] /\ tags' \in [Clients -> Tags]
        /\ seen' \in [Clients -> Graphs] /\ pulled' \in [Clients -> BOOLEAN]
  BY DEF BaseInv, TypeOK, copy
<1>1. CASE UNCHANGED vars
  BY <1>1 DEF vars, server, client, copy, BaseInv, TypeOK, ModesAgree, At
<1>2. CASE Next
  <2>1. PICK c \in Clients :
          \/ Handle(c) /\ UNCHANGED client
          \/ Read(c) \/ Edit(c) \/ Push(c) \/ Abort(c)
          \/ \E f \in Facts : Change(c, f)
          \/ \E f \in Facts \ Derived : Call(c, "POST", {f})
          \/ Call(c, "DELETE", {})
          \/ GotGraph(c) \/ Pushed(c) \/ Called(c)
    BY <1>2 DEF Next
  <2>2. CASE Handle(c) /\ UNCHANGED client
    BY <2>2, HandleBase
  <2>3. CASE Read(c)
    BY <1>0, <2>3, ReadStep, ClientStepBase DEF Read
  <2>4. CASE Edit(c)
    BY <2>4, EditStep, ClientStepBase DEF Edit, BaseInv, TypeOK
  <2>5. CASE Push(c)
    BY <1>0, <2>5, PushEffect, ClientStepBase DEF Push
  <2>6. CASE Abort(c)
    BY <1>0, <2>6, AbortStep, ClientStepBase DEF Abort
  <2>7. ASSUME NEW f \in Facts, Change(c, f) PROVE BaseInv'
    BY <2>7, ChangeStep, ClientStepBase DEF Change, BaseInv, TypeOK
  <2>8. ASSUME NEW f \in Facts \ Derived, Call(c, "POST", {f}) PROVE BaseInv'
    <3>1. {f} \in Graphs
      BY DEF Graphs
    <3>2. ClientStep(c)
      BY <2>8, <3>1, CallStep
    <3> QED
      BY <1>0, <2>8, <3>2, ClientStepBase DEF Call
  <2>9. CASE Call(c, "DELETE", {})
    <3>1. {} \in Graphs
      BY DEF Graphs
    <3>2. ClientStep(c)
      BY <2>9, <3>1, CallStep
    <3> QED
      BY <1>0, <2>9, <3>2, ClientStepBase DEF Call
  <2>10. CASE GotGraph(c)
    BY <2>10, GotGraphStep, ClientStepBase
  <2>11. CASE Pushed(c)
    BY <2>11, PushedStep, ClientStepBase DEF Pushed, BaseInv, TypeOK
  <2>12. CASE Called(c)
    BY <1>0, <2>12, CalledStep, ClientStepBase DEF Called
  <2> QED
    BY <2>1, <2>2, <2>3, <2>4, <2>5, <2>6, <2>7, <2>8, <2>9, <2>10, <2>11, <2>12
<1> QED
  BY <1>1, <1>2

\* What a client waits for is what it has asked for, and what it has asked for is
\* what the handlers answer.
THEOREM BaseInvariance == Spec => []BaseInv
  BY InitBase, NextBase, PTL DEF Spec

\* The type invariant, whatever the clients and the server are.
THEOREM TypeCorrect == Spec => []TypeOK
<1>1. BaseInv => TypeOK
  BY DEF BaseInv
<1> QED
  BY BaseInvariance, <1>1, PTL

----------------------------------------------------------------------------
(* A server that handles one request at a time *)

EtagInv == OneHandler /\ PutsAgree /\ AnswersAgree /\ CopiesAgree

LEMMA EtagsAreNat == TypeOK => etag \in Nat
  BY DEF TypeOK

LEMMA InitIInv == ClientInit => IInv
<1> SUFFICES ASSUME ClientInit PROVE IInv
  OBVIOUS
<1>1. OneHandler /\ PutsAgree /\ AnswersAgree
  BY DEF ClientInit, Init, OneHandler, PutsAgree, AnswersAgree, At, NoRequest, Handled
<1>2. CopiesAgree
  BY DEF ClientInit, Init, CopiesAgree
<1> QED
  BY <1>1, <1>2, InitBase DEF IInv

\* A step of a handler that changes nothing but the request: what it leaves for
\* its next step is of the content as it is.
LEMMA QuietStep ==
  ASSUME IInv, NEW c \in Clients, OnlyRequestOf(c), UNCHANGED <<client, content, etag>>,
         request'[c].at \in Handled => \A d \in Clients \ {c} : request[d].at \notin Handled,
         request'[c].at \in {"tagged", "checked", "done"},
         At(c, "tagged")' => request'[c].tag = etag /\ content # Gone,
         At(c, "checked")' => /\ content # Gone
                              /\ request'[c].body = graph[c]
                              /\ ~request'[c].ext =>
                                   request'[c].match = tags[c] /\ request'[c].match = etag,
         At(c, "done")' /\ request'[c].status = 200 /\ mode[c] # "call" =>
           /\ request'[c].tag = etag
           /\ content # Gone =>
                IF mode[c] = "push" THEN SameButDerived(graph[c], content)
                ELSE content = request'[c].body,
         At(c, "done")' /\ request'[c].status = 404 => content = Gone \/ mode[c] \notin Pulling
  PROVE  EtagInv'
<1>0. etag \in Nat
  BY EtagsAreNat DEF IInv, BaseInv
<1>1. OneHandler'
  BY DEF IInv, OneHandler, OnlyRequestOf
<1>2. PutsAgree'
  BY DEF IInv, PutsAgree, OnlyRequestOf, At, client, copy, SameButDerived
<1>3. AnswersAgree'
  BY <1>0 DEF IInv, AnswersAgree, OnlyRequestOf, At, client, copy, SameButDerived
<1>4. CopiesAgree'
  BY DEF IInv, CopiesAgree, client, copy, SeenAs, SameButDerived
<1> QED
  BY <1>1, <1>2, <1>3, <1>4 DEF EtagInv

\* A step of the only handler that changes the resource: no answer that is on
\* its way, and no copy, has the new etag.
LEMMA LoudStep ==
  ASSUME IInv, NEW c \in Clients, OnlyRequestOf(c), UNCHANGED client,
         \A d \in Clients \ {c} : request[d].at \notin Handled,
         content # Gone, etag' = etag + 1,
         request'[c].at \in {"GET", "applied", "done"},
         At(c, "applied")' => /\ content' # Gone /\ request'[c].body = graph[c]
                              /\ SameButDerived(graph[c], content'),
         At(c, "done")' => mode[c] = "call"
  PROVE  EtagInv'
<1>0. etag \in Nat /\ etag' \in Nat /\ etag < etag'
  BY EtagsAreNat DEF IInv, BaseInv
<1>1. OneHandler'
  BY DEF IInv, OneHandler, OnlyRequestOf
<1>2. PutsAgree'
  BY DEF IInv, PutsAgree, OnlyRequestOf, At, client, copy, Handled, SameButDerived
<1>3. AnswersAgree'
  <2> SUFFICES ASSUME NEW d \in Clients PROVE
        /\ At(d, "tagged")' => request'[d].tag = etag' /\ content' # Gone
        /\ At(d, "done")' /\ request'[d].status = 200 /\ mode'[d] # "call" =>
             /\ request'[d].tag \in Nat /\ request'[d].tag <= etag' /\ request'[d].tag # etag'
        /\ At(d, "done")' /\ mode'[d] \in Pulling /\ request'[d].status = 404 => content' = Gone
    BY DEF AnswersAgree
  <2>1. CASE d = c
    BY <2>1 DEF At, client, Pulling
  <2>2. CASE d # c
    <3>1. request'[d] = request[d] /\ mode'[d] = mode[d] /\ request[d].at \notin Handled
      BY <2>2 DEF OnlyRequestOf, client
    <3> QED
      BY <1>0, <3>1 DEF IInv, AnswersAgree, At, Handled
  <2> QED
    BY <2>1, <2>2
<1>4. CopiesAgree'
  <2>1. \A d \in Clients : tags[d] \in Nat => tags[d] <= etag
    BY DEF IInv, CopiesAgree
  <2>2. \A d \in Clients : tags[d] # etag'
    BY <1>0, <2>1
  <2>3. \A d \in Clients : tags[d] \in Nat => tags[d] <= etag'
    BY <1>0, <2>1
  <2>4. \A d \in Clients : mode[d] \in {"idle", "pull", "call"} => graph[d] = seen[d]
    BY DEF IInv, CopiesAgree
  <2> QED
    BY <2>2, <2>3, <2>4 DEF CopiesAgree, client, copy
<1> QED
  BY <1>1, <1>2, <1>3, <1>4 DEF EtagInv

LEMMA GoneIsNoGraph == \A g \in Graphs : g # Gone
  BY DEF Graphs

\* Who waits for a POST or a DELETE.
LEMMA CallsAre ==
  ASSUME BaseInv, NEW c \in Clients, request[c].at \in {"POST", "DELETE"}
  PROVE  mode[c] = "call"
<1>1. mode[c] \in Modes
  BY DEF BaseInv, TypeOK
<1>2. ~At(c, "none") /\ request[c].at \notin {"GET", "tagged", "done", "PUT", "checked", "applied"}
  BY DEF At
<1> QED
  BY <1>1, <1>2 DEF BaseInv, ModesAgree, Modes, Pulling

LEMMA HandleIInv ==
  ASSUME ~Threaded, IInv, NEW c \in Clients, Handle(c), UNCHANGED client
  PROVE  EtagInv'
<1> USE DEF At
<1>0. BaseInv /\ TypeOK
  BY DEF IInv, BaseInv
<1>1. ASSUME Taken(c) PROVE \A d \in Clients \ {c} : request[d].at \notin Handled
  BY <1>1 DEF Taken
<1>2. ASSUME request[c].at \in Handled PROVE \A d \in Clients \ {c} : request[d].at \notin Handled
  BY <1>2 DEF IInv, OneHandler
<1>3. CASE NotFound(c)
  <2>1. OnlyRequestOf(c) /\ request'[c].at = "done" /\ request'[c].status = 404
    BY <1>0, <1>3, AnswerEffect DEF NotFound, Statuses
  <2> QED
    BY <1>1, <1>3, <2>1, QuietStep DEF NotFound
<1>4. CASE GetTags(c)
  <2>1. OnlyRequestOf(c) /\ request'[c].at = "tagged" /\ request'[c].tag = etag
    BY <1>0, <1>4, GetTagsEffect
  <2> QED
    BY <1>1, <1>4, <2>1, QuietStep DEF GetTags
<1>5. CASE GetFails(c)
  <2>1. OnlyRequestOf(c) /\ request'[c].at = "done" /\ request'[c].status = 500
    BY <1>0, <1>5, RefuseEffect DEF GetFails
  <2> QED
    BY <1>1, <1>5, <2>1, QuietStep DEF GetFails
<1>6. CASE GetBody(c)
  <2>1. At(c, "tagged") /\ UNCHANGED <<content, etag>>
    BY <1>6 DEF GetBody
  <2>2. request[c].tag = etag /\ content # Gone /\ mode[c] # "push"
    BY <2>1 DEF IInv, BaseInv, ModesAgree, AnswersAgree
  <2>3. /\ OnlyRequestOf(c) /\ request'[c].at = "done" /\ request'[c].status = 200
        /\ request'[c].tag = etag /\ request'[c].body = content
    BY <1>0, <1>6, <2>2, GetBodyEffect
  <2> QED
    BY <2>1, <2>2, <2>3, QuietStep DEF Handled
<1>7. CASE CheckPut(c)
  <2>1. CASE Move(c, "checked") /\ (request[c].ext \/ Matches(c))
    <3>1. /\ OnlyRequestOf(c) /\ request'[c].at = "checked"
          /\ request'[c].body = request[c].body /\ request'[c].match = request[c].match
          /\ request'[c].ext = request[c].ext
      BY <1>0, <2>1, MoveEffect DEF Places
    <3>2. /\ request[c].body = graph[c]
          /\ ~request[c].ext => request[c].match = tags[c] /\ request[c].match = etag
      BY <1>7, <2>1 DEF CheckPut, IInv, PutsAgree, Matches
    <3> QED
      BY <1>1, <1>7, <3>1, <3>2, QuietStep DEF CheckPut
  <2>2. CASE Refuse(c)
    <3>1. OnlyRequestOf(c) /\ request'[c].at = "done" /\ request'[c].status = 500
      BY <1>0, <2>2, RefuseEffect
    <3> QED
      BY <1>1, <1>7, <3>1, QuietStep DEF CheckPut
  <2> QED
    BY <1>7, <2>1, <2>2 DEF CheckPut
<1>8. CASE PutRefused(c)
  <2>1. OnlyRequestOf(c) /\ request'[c].at = "done" /\ request'[c].status = 500
    BY <1>0, <1>8, RefuseEffect DEF PutRefused
  <2> QED
    BY <1>8, <2>1, QuietStep DEF PutRefused, Handled
<1>9. CASE ApplyPut(c)
  <2>1. content # Gone /\ request[c].body = graph[c] /\ request[c].at \in Handled
    BY <1>9 DEF ApplyPut, IInv, PutsAgree, Handled
  <2>2. /\ Move(c, "applied")
        /\ content' \in Completions(request[c].body) /\ etag' = etag + 1
    BY <1>9, <2>1 DEF ApplyPut
  <2>3. OnlyRequestOf(c) /\ request'[c].at = "applied" /\ request'[c].body = request[c].body
    BY <1>0, <2>2, MoveEffect DEF Places
  <2>4. content' \in Graphs /\ SameButDerived(graph[c], content')
    BY <1>0, <2>1, <2>2, CompletionsOf DEF TypeOK
  <2>5. content' # Gone
    BY <2>4, GoneIsNoGraph
  <2> QED
    BY <1>2, <2>1, <2>2, <2>3, <2>4, <2>5, LoudStep
<1>10. CASE RespondPut(c)
  <2>1. /\ At(c, "applied") /\ UNCHANGED <<content, etag>>
        /\ content # Gone /\ SameButDerived(graph[c], content)
        /\ mode[c] = "push"
    BY <1>10 DEF RespondPut, IInv, BaseInv, TypeOK, Modes, ModesAgree, PutsAgree, Pulling
  <2>2. /\ OnlyRequestOf(c) /\ request'[c].at = "done" /\ request'[c].status = 200
        /\ request'[c].tag = etag
    BY <1>0, <1>10, <2>1, RespondPutEffect
  <2> QED
    BY <2>1, <2>2, QuietStep DEF Handled
<1>14. CASE Refresh(c)
  <2>1. /\ content # Gone /\ UNCHANGED request /\ etag' = etag + 1
        /\ (At(c, "GET") /\ Taken(c)) \/ At(c, "applied")
    BY <1>14 DEF Refresh
  <2>2. content' \in Graphs /\ SameButDerived(content, content')
    BY <1>0, <1>14, CompletionsOf DEF Refresh, TypeOK
  <2>3. content' # Gone
    BY <2>2, GoneIsNoGraph
  <2>4. At(c, "applied") => request[c].body = graph[c] /\ SameButDerived(graph[c], content)
    BY DEF IInv, PutsAgree
  <2>5. At(c, "applied") => SameButDerived(graph[c], content')
    BY <2>2, <2>4, SameTrans
  <2>6. \A d \in Clients \ {c} : request[d].at \notin Handled
    BY <1>1, <1>2, <2>1 DEF Handled
  <2>7. OnlyRequestOf(c)
    BY <1>0, <2>1 DEF OnlyRequestOf, TypeOK
  <2>8. request'[c].at \in {"GET", "applied"} /\ At(c, "applied")' = At(c, "applied")
    BY <2>1
  <2> QED
    BY <2>1, <2>3, <2>4, <2>5, <2>6, <2>7, <2>8, LoudStep
<1>11. CASE Post(c)
  <2>1. OnlyRequestOf(c) /\ request'[c].at = "done" /\ mode[c] = "call"
    BY <1>0, <1>11, AnswerEffect, CallsAre DEF Post, Statuses
  <2> QED
    BY <1>1, <1>11, <2>1, LoudStep DEF Post
<1>12. CASE Delete(c)
  <2>1. OnlyRequestOf(c) /\ request'[c].at = "done" /\ mode[c] = "call"
    BY <1>0, <1>12, AnswerEffect, CallsAre DEF Delete, Statuses
  <2> QED
    BY <1>1, <1>12, <2>1, LoudStep DEF Delete
<1>13. CASE Refused(c)
  <2>1. request[c].at \in {"POST", "DELETE"} /\ UNCHANGED <<content, etag>>
    BY <1>13 DEF Refused
  <2>2. mode[c] = "call"
    BY <1>0, <2>1, CallsAre
  <2>3. OnlyRequestOf(c) /\ request'[c].at = "done" /\ request'[c].status = 500
    BY <1>0, <1>13, RefuseEffect DEF Refused
  <2> QED
    BY <2>1, <2>2, <2>3, QuietStep DEF Handled
<1> QED
  BY <1>3, <1>4, <1>5, <1>6, <1>7, <1>8, <1>9, <1>10, <1>11, <1>12, <1>13, <1>14 DEF Handle

\* A step of a client: the copies of the others stay what they are.
LEMMA ClientIInv ==
  ASSUME IInv, NEW c \in Clients, ClientStep(c),
         \A d \in Clients \ {c} : /\ graph'[d] = graph[d] /\ tags'[d] = tags[d]
                                  /\ seen'[d] = seen[d] /\ pulled'[d] = pulled[d],
         mode'[c] = "push" => /\ request'[c].body = graph'[c]
                              /\ ~request'[c].ext => request'[c].match = tags'[c],
         tags'[c] \in Nat => tags'[c] <= etag,
         tags'[c] = etag /\ content # Gone =>
           IF pulled'[c] THEN seen'[c] = content ELSE SameButDerived(seen'[c], content),
         mode'[c] \in {"idle", "pull", "call"} /\ content # Gone => graph'[c] = seen'[c]
  PROVE  EtagInv'
<1>1. OneHandler'
  BY DEF IInv, OneHandler, ClientStep, OnlyRequestOf, Handled
<1>2. PutsAgree'
  BY DEF IInv, PutsAgree, ClientStep, OnlyRequestOf, At, Pulling
<1>3. AnswersAgree'
  BY DEF IInv, AnswersAgree, ClientStep, OnlyRequestOf, At, SameButDerived
<1>4. CopiesAgree'
  BY DEF IInv, CopiesAgree, ClientStep, SeenAs, SameButDerived
<1> QED
  BY <1>1, <1>2, <1>3, <1>4 DEF EtagInv

LEMMA NextIInv == ASSUME ~Threaded PROVE IInv /\ [Next]_vars => IInv'
<1> SUFFICES ASSUME IInv, [Next]_vars PROVE IInv'
  OBVIOUS
<1>0. BaseInv /\ TypeOK /\ BaseInv' /\ etag \in Nat /\ NoTag \notin Nat
  BY NextBase, EtagsAreNat DEF IInv, BaseInv
<1>c. \A c \in Clients :
        /\ tags[c] \in Nat => tags[c] <= etag
        /\ tags[c] = etag /\ content # Gone =>
             IF pulled[c] THEN seen[c] = content ELSE SameButDerived(seen[c], content)
        /\ mode[c] \in {"idle", "pull", "call"} /\ content # Gone => graph[c] = seen[c]
  BY DEF IInv, CopiesAgree, SeenAs
<1>1. CASE UNCHANGED vars
  BY <1>0, <1>1 DEF IInv, vars, server, client, copy, OneHandler, PutsAgree, AnswersAgree,
                    CopiesAgree, At, SeenAs, SameButDerived
<1>2. ASSUME NEW c \in Clients, Handle(c), UNCHANGED client PROVE EtagInv'
  BY <1>2, HandleIInv
<1>3. ASSUME NEW c \in Clients, Read(c) PROVE EtagInv'
  BY <1>0, <1>c, <1>3, ReadStep, ClientIInv DEF Read, Become, TypeOK, copy
<1>4. ASSUME NEW c \in Clients, Edit(c) PROVE EtagInv'
  BY <1>0, <1>c, <1>4, EditStep, ClientIInv DEF Edit, Become, TypeOK
<1>5. ASSUME NEW c \in Clients, NEW f \in Facts, Change(c, f) PROVE EtagInv'
  BY <1>0, <1>c, <1>5, ChangeStep, ClientIInv DEF Change, TypeOK
<1>6. ASSUME NEW c \in Clients, Push(c) PROVE EtagInv'
  BY <1>0, <1>c, <1>6, PushEffect, ClientIInv DEF Push, Become, TypeOK, copy
<1>7. ASSUME NEW c \in Clients, Abort(c) PROVE EtagInv'
  BY <1>0, <1>c, <1>7, AbortStep, ClientIInv DEF Abort, Become, TypeOK, copy
<1>8. ASSUME NEW c \in Clients, NEW method \in {"POST", "DELETE"}, NEW body \in Graphs,
             Call(c, method, body)
      PROVE  EtagInv'
  BY <1>0, <1>c, <1>8, CallStep, ClientIInv DEF Call, Become, TypeOK, copy
<1>9. ASSUME NEW c \in Clients, GotGraph(c) PROVE EtagInv'
  <2>1. /\ ClientStep(c) /\ At(c, "done") /\ mode[c] \in Pulling
        /\ Pulled(c) /\ mode' = [mode EXCEPT ![c] = mode'[c]] /\ mode'[c] # "push"
    BY <1>0, <1>9, GotGraphStep DEF GotGraph, Become, Return, Pulling, TypeOK
  <2>2. CASE request[c].status = 404
    <3>1. content = Gone
      BY <2>1, <2>2 DEF IInv, AnswersAgree
    <3>2. UNCHANGED <<graph, tags, seen, pulled>>
      BY <2>1, <2>2 DEF Pulled, copy
    <3> QED
      BY <1>c, <2>1, <3>1, <3>2, ClientIInv
  <2>3. CASE request[c].status = 200
    <3>1. /\ request[c].tag \in Nat /\ request[c].tag <= etag
          /\ request[c].tag = etag /\ content # Gone => content = request[c].body
      <4>1. mode[c] \notin {"call", "push"}
        BY <2>1 DEF Pulling
      <4> QED
        BY <2>1, <2>3, <4>1 DEF IInv, AnswersAgree
    <3>2. Parse(c, request[c].body, request[c].tag)
      BY <2>1, <2>3 DEF Pulled
    <3>3. /\ graph'[c] = request[c].body /\ seen'[c] = request[c].body
          /\ tags'[c] = request[c].tag /\ pulled'[c] = TRUE
      BY <1>0, <3>2 DEF Parse, TypeOK
    <3>4. \A d \in Clients \ {c} :
            /\ graph'[d] = graph[d] /\ tags'[d] = tags[d] /\ seen'[d] = seen[d]
            /\ pulled'[d] = pulled[d]
      BY <1>0, <3>2 DEF Parse, TypeOK
    <3> QED
      BY <2>1, <3>1, <3>3, <3>4, ClientIInv
  <2>4. CASE request[c].status \notin {200, 404}
    <3>1. Parse(c, {}, NoTag)
      BY <2>1, <2>4 DEF Pulled
    <3>2. graph'[c] = {} /\ seen'[c] = {} /\ tags'[c] = NoTag
      BY <1>0, <3>1 DEF Parse, TypeOK
    <3>3. \A d \in Clients \ {c} :
            /\ graph'[d] = graph[d] /\ tags'[d] = tags[d] /\ seen'[d] = seen[d]
            /\ pulled'[d] = pulled[d]
      BY <1>0, <3>1 DEF Parse, TypeOK
    <3>4. tags'[c] \notin Nat /\ tags'[c] # etag
      BY <1>0, <3>2
    <3> QED
      BY <2>1, <3>2, <3>3, <3>4, ClientIInv
  <2> QED
    BY <2>2, <2>3, <2>4
<1>10. ASSUME NEW c \in Clients, Pushed(c) PROVE EtagInv'
  <2>1. ClientStep(c) /\ At(c, "done") /\ mode[c] = "push" /\ UNCHANGED graph
    BY <1>0, <1>10, PushedStep DEF Pushed
  <2>2. CASE request[c].status = 200
    <3>1. /\ request[c].tag \in Nat /\ request[c].tag <= etag
          /\ request[c].tag = etag /\ content # Gone => SameButDerived(graph[c], content)
      BY <2>1, <2>2 DEF IInv, AnswersAgree
    <3>2. /\ mode'[c] = "idle" /\ tags'[c] = request[c].tag /\ seen'[c] = graph[c]
          /\ pulled'[c] = FALSE
      BY <1>0, <1>10, <2>2 DEF Pushed, Return, TypeOK
    <3>3. \A d \in Clients \ {c} :
            tags'[d] = tags[d] /\ seen'[d] = seen[d] /\ pulled'[d] = pulled[d]
      BY <1>0, <1>10, <2>2 DEF Pushed, TypeOK
    <3> QED
      BY <2>1, <3>1, <3>2, <3>3, ClientIInv
  <2>3. CASE request[c].status # 200
    <3>1. mode'[c] = "rollback" /\ UNCHANGED <<tags, seen, pulled>>
      BY <1>0, <1>10, <2>3 DEF Pushed, Become, TypeOK
    <3> QED
      BY <1>c, <2>1, <3>1, ClientIInv
  <2> QED
    BY <2>2, <2>3
<1>11. ASSUME NEW c \in Clients, Called(c) PROVE EtagInv'
  BY <1>0, <1>c, <1>11, CalledStep, ClientIInv DEF Called, Return, TypeOK, copy
<1>12. ASSUME Next PROVE EtagInv'
  <2>1. \A f \in Facts \ Derived : {f} \in Graphs
    BY DEF Graphs
  <2>2. {} \in Graphs
    BY DEF Graphs
  <2> QED
    BY <1>2, <1>3, <1>4, <1>5, <1>6, <1>7, <1>8, <1>9, <1>10, <1>11, <1>12, <2>1, <2>2 DEF Next
<1> QED
  BY <1>0, <1>1, <1>12 DEF IInv, EtagInv

\* The request that is handled, the copies of the clients and their etags agree
\* with the resource, while requests are handled one at a time (http_server.py).
THEOREM Invariance == ASSUME ~Threaded PROVE Spec => []IInv
  BY InitIInv, NextIInv, PTL DEF Spec

\* A client that holds the current etag has seen the current content, but for
\* what the service has completed of its own PUT, whatever was refused, lost or
\* aborted before (_pull and _push of proxystore.py).
THEOREM CopiesCorrect == ASSUME ~Threaded PROVE Spec => []FreshIsEqual
<1>1. IInv => FreshIsEqual
  BY DEF IInv, CopiesAgree, FreshIsEqual
<1> QED
  BY Invariance, <1>1, PTL

\* Nothing that was refused is left in a copy when its edit context has been
\* left (http_client.py, _make_edit_context).
THEOREM EditsAreForgotten == ASSUME ~Threaded PROVE Spec => []RefusedIsForgotten
<1>1. IInv => RefusedIsForgotten
  BY DEF IInv, CopiesAgree, RefusedIsForgotten
<1> QED
  BY Invariance, <1>1, PTL

----------------------------------------------------------------------------
(* Clients that PUT under If-Match only *)

\* No request is for a URI with an extension.
Conditional == \A c \in Clients : request[c].at = "PUT" \/ At(c, "checked") => ~request[c].ext

LEMMA InitConditional == ClientInit => Conditional
  BY DEF ClientInit, Init, Conditional, At, NoRequest

LEMMA NextConditional ==
  ASSUME ~Extensions PROVE BaseInv /\ Conditional /\ [Next]_vars => Conditional'
<1> SUFFICES ASSUME BaseInv, Conditional, [Next]_vars PROVE Conditional'
  OBVIOUS
<1>1. CASE UNCHANGED vars
  BY <1>1 DEF vars, server, Conditional, At
<1>2. ASSUME NEW c \in Clients, HandlerStep(c) PROVE Conditional'
  BY <1>2 DEF HandlerStep, OnlyRequestOf, Conditional, At
<1>3. ASSUME NEW c \in Clients, ClientStep(c) PROVE Conditional'
  BY <1>3 DEF ClientStep, OnlyRequestOf, Conditional, At, Pulling
<1>4. ASSUME Next PROVE \E c \in Clients : HandlerStep(c) \/ ClientStep(c)
  <2>1. \A f \in Facts \ Derived : {f} \in Graphs
    BY DEF Graphs
  <2>2. {} \in Graphs
    BY DEF Graphs
  <2> QED
    BY <1>4, <2>1, <2>2, HandleIsStep, ReadStep, EditStep, ChangeStep, PushEffect, AbortStep,
       CallStep, GotGraphStep, PushedStep, CalledStep DEF Next
<1> QED
  BY <1>1, <1>2, <1>3, <1>4

\* No PUT goes around If-Match by the extension of its URI.
LEMMA ConditionalCorrect == ASSUME ~Extensions PROVE Spec => []Conditional
  BY InitConditional, NextConditional, BaseInvariance, PTL DEF Spec

\* A condition that is checked says that the resource is what its client has seen.
LEMMA CheckedHaveSeen ==
  ASSUME IInv, Conditional, NEW c \in Clients, At(c, "checked")
  PROVE  content # Gone /\ tags[c] = etag /\ SeenAs(c, content)
  BY DEF IInv, Conditional, PutsAgree, CopiesAgree, At

\* _push "triggers an exception if data has already been modified on the server":
\* what an accepted PUT replaces is what its author has seen.
THEOREM NoLostUpdate ==
  ASSUME ~Threaded, ~Extensions PROVE Spec => OverwritesWhatWasSeen
<1>1. IInv /\ Conditional =>
        [\A c \in Clients :
           At(c, "checked") /\ request'[c].at = "applied" => SeenAs(c, content)]_vars
  BY CheckedHaveSeen
<1> QED
  BY Invariance, ConditionalCorrect, <1>1, PTL DEF OverwritesWhatWasSeen

----------------------------------------------------------------------------
(* The refinement *)

LEMMA InitRegister == ClientInit => Register!Init
  BY DEF ClientInit, Init, Register!Init

\* Every step of the handlers and of the clients is one of the register, or none.
LEMMA NextRegister ==
  ASSUME ~Threaded, ~Extensions
  PROVE  IInv /\ IInv' /\ Conditional /\ [Next]_vars => [Register!Next]_(Register!register)
<1> SUFFICES ASSUME IInv, IInv', Conditional, [Next]_vars
             PROVE  [Register!Next]_(Register!register)
  OBVIOUS
<1> USE DEF Register!register
<1>0. TypeOK /\ TypeOK' /\ etag \in Nat
  BY EtagsAreNat DEF IInv, BaseInv
<1>1. CASE UNCHANGED <<content, etag, writer, tags>>
  BY <1>1
<1>2. ASSUME NEW c \in Clients, ApplyPut(c), UNCHANGED client
      PROVE  Register!Replace(c)
  <2>1. content # Gone /\ tags[c] = etag
    BY <1>2, CheckedHaveSeen DEF ApplyPut
  <2>2. request[c].body \in Graphs
    BY <1>0 DEF TypeOK, Requests
  <2>3. content' \in Graphs
    BY <1>2, <2>1, <2>2, CompletionsOf DEF ApplyPut
  <2> QED
    BY <1>2, <2>1, <2>3 DEF ApplyPut, client, copy, Register!Replace
<1>3. ASSUME NEW c \in Clients, Post(c), UNCHANGED client
      PROVE  Register!Grow
  <2>1. content \cup request[c].body \in Graphs
    BY <1>0, <1>3 DEF Post, TypeOK, Requests, Graphs
  <2>2. content \ Derived \subseteq content \cup request[c].body
    OBVIOUS
  <2> QED
    BY <1>3, <2>1, <2>2 DEF Post, client, copy, Register!Grow
<1>4. ASSUME NEW c \in Clients, Delete(c), UNCHANGED client
      PROVE  Register!Remove
  BY <1>4 DEF Delete, client, copy, Register!Remove
<1>5. ASSUME NEW c \in Clients, Handle(c), UNCHANGED client
      PROVE  \/ UNCHANGED <<content, etag, writer, tags>>
             \/ ApplyPut(c) \/ Post(c) \/ Delete(c) \/ Refresh(c)
  BY <1>5 DEF Handle, NotFound, GetTags, GetFails, GetBody, CheckPut, PutRefused, RespondPut,
              Refused, client, copy
<1>6. ASSUME NEW c \in Clients, GotGraph(c) \/ Pushed(c)
      PROVE  Register!Learn(c) \/ UNCHANGED <<content, etag, writer, tags>>
  <2>1. UNCHANGED <<content, etag, writer>>
    BY <1>6 DEF GotGraph, Pushed, ServerRest
  <2>2. PICK v : tags' = [tags EXCEPT ![c] = v]
    <3>1. tags = [tags EXCEPT ![c] = tags[c]]
      BY <1>0 DEF TypeOK
    <3> QED
      BY <1>6, <3>1 DEF GotGraph, Pushed, Pulled, Parse, copy
  <2>3. v \in 0 .. etag \cup {NoTag}
    <3>1. tags'[c] = v /\ tags'[c] \in Tags
      BY <1>0, <2>2 DEF TypeOK
    <3>2. tags'[c] \in Nat => tags'[c] <= etag
      BY <2>1 DEF IInv, CopiesAgree
    <3> QED
      BY <1>0, <3>1, <3>2 DEF Tags
  <2> QED
    BY <2>1, <2>2, <2>3 DEF Register!Learn
<1>7. ASSUME Next
      PROVE  \/ UNCHANGED <<content, etag, writer, tags>>
             \/ \E c \in Clients : \/ Handle(c) /\ UNCHANGED client
                                   \/ GotGraph(c) \/ Pushed(c)
  BY <1>7 DEF Next, Read, Edit, Push, Abort, Change, Call, Called, ServerRest, server, copy
<1>8. CASE UNCHANGED vars
  BY <1>8 DEF vars, server, client, copy
<1>9. ASSUME NEW c \in Clients, Refresh(c), UNCHANGED client
      PROVE  Register!Grow
  <2>1. content \in Graphs /\ content # Gone
    BY <1>0, <1>9 DEF Refresh, TypeOK
  <2>2. content' \in Graphs /\ SameButDerived(content, content')
    BY <1>9, <2>1, CompletionsOf DEF Refresh
  <2>3. content \ Derived \subseteq content'
    BY <2>2 DEF SameButDerived
  <2> QED
    BY <1>9, <2>1, <2>2, <2>3 DEF Refresh, client, copy, Register!Grow
<1> QED
  BY <1>1, <1>2, <1>3, <1>4, <1>5, <1>6, <1>7, <1>8, <1>9 DEF Register!Next

\* For its clients, the resource is a compare-and-set register.
THEOREM Refinement == ASSUME ~Threaded, ~Extensions PROVE Spec => RegisterSpec
  BY InitRegister, NextRegister, Invariance, ConditionalCorrect, PTL
  DEF Spec, RegisterSpec, Register!Spec
=============================================================================
