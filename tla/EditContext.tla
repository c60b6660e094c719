----------------------------- MODULE EditContext -----------------------------
(***************************************************************************)
(* Edit contexts of local resources (lib/rdfrest/cores/local.py), inside   *)
(* the context of the service, which commits or rolls back the store.      *)
(*                                                                         *)
(* A thread opens contexts one inside the other, on one resource or on     *)
(* several.  A trusted context writes on the graph of the resource; an     *)
(* untrusted one writes on a copy, unless the store knows transactions.    *)
(* The outermost context on a resource ends with ack_edit, which renews    *)
(* the etag and may itself open trusted contexts, on this resource too.    *)
(* Contexts end in the order of python's with statements, normally or with *)
(* an exception.                                                           *)
(*                                                                         *)
(* Graphs are sets of writes, each made once; Refused are the writes that  *)
(* check_new_graph does not accept.  The lock of a resource (ResourceLock) *)
(* keeps the other threads out of its contexts, but the service, with its  *)
(* counter of contexts, has no lock.                                       *)
(***************************************************************************)
EXTENDS Naturals, Sequences, SequencesExt

CONSTANTS
  Threads,
  Resources,
  Writes,
  Refused,       \* the writes that check_new_graph refuses
  Params,        \* parameters of edit()
  NoParam,       \* python's None
  Stores,        \* may the store be transaction aware? a subset of BOOLEAN
  MaxDepth,      \* bound: contexts open at a time in a thread
  Interleaved,   \* may threads of a transaction aware store run together?
  CaughtInside,  \* may the body of a context catch what an inner one raises?
  Abnormal       \* may a trusted context fail if the store can not roll back?

ASSUME WritesAssumption == Refused \subseteq Writes
ASSUME ParamsAssumption == NoParam \notin Params
ASSUME StoresAssumption == Stores \subseteq BOOLEAN
ASSUME DepthAssumption == MaxDepth \in Nat \ {0}
ASSUME UseAssumption == {Interleaved, CaughtInside, Abnormal} \subseteq BOOLEAN

VARIABLES
  aware,      \* is the store transaction aware?
  graph,      \* the graph of each resource, in the store
  shown,      \* the contents each resource had, closed, with its present etag
  committed,  \* graph and shown at the last commit
  level,      \* _context_level of the service
  ctx,        \* _edit_context of each resource
  stack,      \* the contexts each thread has open, the innermost last
  raising,    \* an exception is leaving the contexts of the thread
  done,       \* writes of edits that ended normally, the outer ones included
  failed,     \* writes of edits that ended with an exception
  refused     \* those of them that were made in an untrusted context

vars == <<aware, graph, shown, committed, level, ctx, stack, raising,
          done, failed, refused>>

NoCtx == [open |-> FALSE, trusted |-> FALSE, param |-> NoParam]
Ctx(trusted, p) == [open |-> TRUE, trusted |-> trusted, param |-> p]

\* A context: copy is what the body of an untrusted one edits, own are its
\* writes, sub those of the contexts opened inside that ended.
Frames ==
  [r : Resources, trusted : BOOLEAN, outermost : BOOLEAN, param : Params \cup {NoParam},
   clear : BOOLEAN, copy : SUBSET Writes, acking : BOOLEAN,
   own : SUBSET Writes, sub : SUBSET Writes]

Top(t) == Last(stack[t])
Below(t) == Front(stack[t])
Opened(t) == {stack[t][k] : k \in DOMAIN stack[t]}
Written == (UNION {graph[r] : r \in Resources}) \cup done \cup failed \cup
           (UNION {f.own \cup f.sub \cup f.copy : f \in UNION {Opened(t) : t \in Threads}})

Init ==
  /\ aware \in Stores
  /\ graph = [r \in Resources |-> {}]
  /\ shown = [r \in Resources |-> {graph[r]}]
  /\ committed = [graph |-> graph, shown |-> shown]
  /\ level = 0
  /\ ctx = [r \in Resources |-> NoCtx]
  /\ stack = [t \in Threads |-> <<>>]
  /\ raising = [t \in Threads |-> FALSE]
  /\ done = {}
  /\ failed = {}
  /\ refused = {}

----------------------------------------------------------------------------
(* Where exceptions may come from *)

\* Does an exception in t only leave untrusted bodies, or may it be undone?
Harmless(t) ==
  aware \/ Abnormal \/ \A f \in Opened(t) : ~f.trusted /\ ~f.acking

Raise(t) ==
  /\ Harmless(t)
  /\ raising' = [raising EXCEPT ![t] = TRUE]

----------------------------------------------------------------------------
(* Entering a context *)

MayEnter(t, r) ==
  /\ ~raising[t]
  /\ Len(stack[t]) < MaxDepth
  /\ \A u \in Threads \ {t} : \A f \in Opened(u) : f.r # r
  /\ aware /\ ~Interleaved => \A u \in Threads \ {t} : stack[u] = <<>>

\* Service.__enter__.
Enter(t, f) ==
  /\ stack' = [stack EXCEPT ![t] = Append(@, f)]
  /\ level' = level + 1
  /\ UNCHANGED <<aware, shown, committed, raising, done, failed, refused>>

NewFrame(r, trusted, outermost, p, clear, copy) ==
  [r |-> r, trusted |-> trusted, outermost |-> outermost, param |-> p,
   clear |-> clear, copy |-> copy, acking |-> FALSE, own |-> {}, sub |-> {}]

\* edit() raises RdfRestException and nothing changes.
EnterRefused(t) ==
  /\ Raise(t)
  /\ UNCHANGED <<aware, graph, shown, committed, level, ctx, stack, done, failed, refused>>

\* edit(parameters, _trust=True): inside another context on the resource, that
\* one must be trusted and have the same parameters.
EditTrusted(t, r, p) ==
  /\ MayEnter(t, r)
  /\ IF ~ctx[r].open
     THEN /\ ctx' = [ctx EXCEPT ![r] = Ctx(TRUE, p)]
          /\ Enter(t, NewFrame(r, TRUE, TRUE, p, FALSE, {}))
          /\ UNCHANGED graph
     ELSE IF ctx[r].trusted /\ p \in {NoParam, ctx[r].param}
     THEN /\ Enter(t, NewFrame(r, TRUE, FALSE, p, FALSE, {}))
          /\ UNCHANGED <<ctx, graph>>
     ELSE EnterRefused(t)

\* What the body of an untrusted context edits, to start with.
Editable(r, clear) == IF clear THEN {} ELSE graph[r]

\* edit(parameters, clear): never inside another context on the resource.
EditUntrusted(t, r, p, clear) ==
  /\ MayEnter(t, r)
  /\ IF ~ctx[r].open
     THEN /\ ctx' = [ctx EXCEPT ![r] = Ctx(FALSE, p)]
          /\ IF aware
             THEN /\ graph' = [graph EXCEPT ![r] = Editable(r, clear)]
                  /\ Enter(t, NewFrame(r, FALSE, TRUE, p, clear, {}))
             ELSE /\ UNCHANGED graph
                  /\ Enter(t, NewFrame(r, FALSE, TRUE, p, clear, Editable(r, clear)))
     ELSE EnterRefused(t)

----------------------------------------------------------------------------
(* The body *)

WriteIn(t, w) ==
  LET f == Top(t)
      g == [f EXCEPT !.own = @ \cup {w}]
  IN  /\ stack[t] # <<>> /\ ~raising[t] /\ ~f.acking
      /\ w \notin Written
      /\ w \in Refused => Harmless(t)
      /\ IF f.trusted \/ aware
         THEN /\ graph' = [graph EXCEPT ![f.r] = @ \cup {w}]
              /\ stack' = [stack EXCEPT ![t] = Append(Below(t), g)]
         ELSE /\ UNCHANGED graph
              /\ stack' = [stack EXCEPT ![t] =
                             Append(Below(t), [g EXCEPT !.copy = @ \cup {w}])]
      /\ UNCHANGED <<aware, shown, committed, level, ctx, raising, done, failed, refused>>

\* The body, or ack_edit, raises an exception.
BodyRaises(t) ==
  /\ stack[t] # <<>> /\ ~raising[t]
  /\ Raise(t)
  /\ UNCHANGED <<aware, graph, shown, committed, level, ctx, stack, done, failed, refused>>

\* The caller, or the body of the outer context, catches the exception.
Catch(t) ==
  /\ raising[t]
  /\ CaughtInside \/ stack[t] = <<>>
  /\ raising' = [raising EXCEPT ![t] = FALSE]
  /\ UNCHANGED <<aware, graph, shown, committed, level, ctx, stack, done, failed, refused>>

----------------------------------------------------------------------------
(* Leaving a context *)

\* Mutant: the etag is not renewed.
Check_SameEtag(t) ==
  LET f == Top(t)
      content == IF f.trusted \/ aware THEN graph[f.r] ELSE f.copy
  IN  /\ stack[t] # <<>> /\ ~raising[t] /\ ~f.acking /\ f.outermost
      /\ IF content \cap Refused # {}
         THEN /\ raising' = [raising EXCEPT ![t] = TRUE]
              /\ UNCHANGED <<graph, ctx, stack>>
         ELSE /\ graph' = [graph EXCEPT ![f.r] = content]
              /\ ctx' = [ctx EXCEPT ![f.r] = Ctx(TRUE, f.param)]
              /\ stack' = [stack EXCEPT ![t] = Append(Below(t), [f EXCEPT !.acking = TRUE])]
              /\ UNCHANGED raising
      /\ UNCHANGED <<aware, shown, committed, level, done, failed, refused>>

\* Mutant: the graph is replaced before it is checked.
Check_TooLate(t) ==
  LET f == Top(t)
      content == IF f.trusted \/ aware THEN graph[f.r] ELSE f.copy
  IN  /\ stack[t] # <<>> /\ ~raising[t] /\ ~f.acking /\ f.outermost
      /\ graph' = [graph EXCEPT ![f.r] = content]
      /\ IF content \cap Refused # {}
         THEN /\ raising' = [raising EXCEPT ![t] = TRUE]
              /\ UNCHANGED <<shown, ctx, stack>>
         ELSE /\ shown' = [shown EXCEPT ![f.r] = {}]
              /\ ctx' = [ctx EXCEPT ![f.r] = Ctx(TRUE, f.param)]
              /\ stack' = [stack EXCEPT ![t] = Append(Below(t), [f EXCEPT !.acking = TRUE])]
              /\ UNCHANGED raising
      /\ UNCHANGED <<aware, committed, level, done, failed, refused>>

\* The body of the outermost context ends.  The content is checked (an
\* assertion, if the context is trusted); the copy replaces the graph; ack_edit
\* begins, with a new etag, in a context that is trusted from now on.
Check(t) ==
  LET f == Top(t)
      content == IF f.trusted \/ aware THEN graph[f.r] ELSE f.copy
  IN  /\ stack[t] # <<>> /\ ~raising[t] /\ ~f.acking /\ f.outermost
      /\ IF content \cap Refused # {}
         THEN /\ raising' = [raising EXCEPT ![t] = TRUE]
              /\ UNCHANGED <<graph, shown, ctx, stack>>
         ELSE /\ graph' = [graph EXCEPT ![f.r] = content]
              /\ shown' = [shown EXCEPT ![f.r] = {}]
              /\ ctx' = [ctx EXCEPT ![f.r] = Ctx(TRUE, f.param)]
              /\ stack' = [stack EXCEPT ![t] = Append(Below(t), [f EXCEPT !.acking = TRUE])]
              /\ UNCHANGED raising
      /\ UNCHANGED <<aware, committed, level, done, failed, refused>>

\* The writes of the context that ends become writes of the one around it.
Passed(t) ==
  LET mine == Top(t).own \cup Top(t).sub
      k == Len(Below(t))
  IN  IF k = 0 THEN <<>> ELSE [Below(t) EXCEPT ![k].sub = @ \cup mine]

\* The resource, closed again, is given out with its etag.
Show(f) ==
  IF f.outermost THEN [shown EXCEPT ![f.r] = @ \cup {graph[f.r]}] ELSE shown

\* Service.__exit__, without exception.
Commit(f) ==
  /\ level' = level - 1
  /\ shown' = Show(f)
  /\ committed' = IF aware /\ level = 1 THEN [graph |-> graph, shown |-> shown'] ELSE committed
  /\ UNCHANGED graph

\* ack_edit is over, or the body of an inner context.
Leave(t) ==
  LET f == Top(t)
  IN  /\ stack[t] # <<>> /\ ~raising[t]
      /\ f.outermost => f.acking
      /\ ~f.outermost => graph[f.r] \cap Refused = {}
      /\ stack' = [stack EXCEPT ![t] = Passed(t)]
      /\ ctx' = IF f.outermost THEN [ctx EXCEPT ![f.r] = NoCtx] ELSE ctx
      /\ Commit(f)
      /\ done' = IF Below(t) = <<>> THEN done \cup f.own \cup f.sub ELSE done
      /\ UNCHANGED <<aware, raising, failed, refused>>

\* The assertion at the end of an inner context fails.
InnerAssertionFails(t) ==
  LET f == Top(t)
  IN  /\ stack[t] # <<>> /\ ~raising[t]
      /\ ~f.outermost
      /\ graph[f.r] \cap Refused # {}
      /\ raising' = [raising EXCEPT ![t] = TRUE]
      /\ UNCHANGED <<aware, graph, shown, committed, level, ctx, stack, done, failed, refused>>

\* Mutant: the outermost context of the service commits whatever happened.
Rollback_Commits(f) ==
  /\ level' = level - 1
  /\ shown' = Show(f)
  /\ committed' = IF aware /\ level = 1 THEN [graph |-> graph, shown |-> shown'] ELSE committed
  /\ UNCHANGED graph

\* Service.__exit__, with an exception.
Rollback(f) ==
  /\ level' = level - 1
  /\ graph' = IF aware /\ level = 1 THEN committed.graph ELSE graph
  /\ shown' = IF aware /\ level = 1 THEN committed.shown ELSE Show(f)
  /\ UNCHANGED committed

\* An exception leaves a context: the finally clause of the edit context, and
\* Service.__exit__.
LeaveRaising(t) ==
  LET f == Top(t)
      mine == f.own \cup f.sub
  IN  /\ stack[t] # <<>> /\ raising[t]
      /\ stack' = [stack EXCEPT ![t] = Passed(t)]
      /\ ctx' = IF f.outermost THEN [ctx EXCEPT ![f.r] = NoCtx] ELSE ctx
      /\ Rollback(f)
      /\ failed' = IF Below(t) = <<>> THEN failed \cup mine ELSE failed
      /\ refused' = IF f.trusted \/ f.acking THEN refused ELSE refused \cup f.own
      /\ UNCHANGED <<aware, raising, done>>

----------------------------------------------------------------------------

Next ==
  \E t \in Threads :
    \/ \E r \in Resources, p \in Params \cup {NoParam} :
         \/ EditTrusted(t, r, p)
         \/ \E clear \in BOOLEAN : EditUntrusted(t, r, p, clear)
    \/ \E w \in Writes : WriteIn(t, w)
    \/ BodyRaises(t)
    \/ Catch(t)
    \/ Check(t)
    \/ Leave(t)
    \/ InnerAssertionFails(t)
    \/ LeaveRaising(t)

Spec == Init /\ [][Next]_vars

----------------------------------------------------------------------------
(* Properties *)

Snapshots == [graph : [Resources -> SUBSET Writes], shown : [Resources -> SUBSET SUBSET Writes]]

TypeOK ==
  /\ aware \in Stores
  /\ committed \in Snapshots
  /\ [graph |-> graph, shown |-> shown] \in Snapshots
  /\ level \in Nat
  /\ ctx \in [Resources ->
               [open : BOOLEAN, trusted : BOOLEAN, param : Params \cup {NoParam}]]
  /\ stack \in [Threads -> Seq(Frames)]
  /\ raising \in [Threads -> BOOLEAN]
  /\ {done, failed, refused} \subseteq SUBSET Writes

\* A resource has an edit context exactly as long as some thread has an
\* outermost context open on it, whatever was raised; otherwise the next edit
\* would fail, or be taken for an inner one and never acknowledged.
ContextAgrees ==
  \A r \in Resources :
    ctx[r].open <=>
      \E t \in Threads : \E f \in Opened(t) :
        f.r = r /\ f.outermost /\ ctx[r] = Ctx(f.trusted \/ f.acking, f.param)

Quiet == \A t \in Threads : stack[t] = <<>>

\* "Raise an InvalidDataError" (local.py:705): what was written in an untrusted
\* context that was refused, or that failed, is not in the graph; with a
\* transaction aware store, once all the contexts are closed.
RefusedLeavesNoTrace ==
  ~aware \/ Quiet => \A r \in Resources : graph[r] \cap refused = {}

\* "Only globally consistent states are commited" (local.py:240): nothing
\* remains of edits, on any resource, whose outermost one failed.
AbortedLeavesNoTrace ==
  aware /\ Quiet => \A r \in Resources : graph[r] \cap failed = {}

\* An etag stands for one content of the resource: whatever changed it since it
\* was last given out also renewed the etag.
EtagIsCurrent ==
  \A r \in Resources :
    ~ctx[r].open /\ (aware => Quiet) => shown[r] = {graph[r]}

\* What an edit has written, once it has ended normally, only goes when another
\* edit replaces the whole content on purpose.
DoneSurvives ==
  [][\A r \in Resources :
       (graph[r] \cap done) \ graph'[r] # {} =>
         \E t \in Threads :
           \/ \E f \in Opened(t) : f.r = r /\ f.clear
           \/ Len(stack'[t]) > Len(stack[t]) /\ Last(stack'[t]).r = r
                                             /\ Last(stack'[t]).clear]_vars
=============================================================================
