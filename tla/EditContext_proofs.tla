-------------------------- MODULE EditContext_proofs --------------------------
(***************************************************************************)
(* Transactions of edit contexts, for any threads, resources, writes and   *)
(* depth.  Contexts agree with the stacks and the service counts them      *)
(* whatever happens.  That nothing remains of what was refused or aborted, *)
(* and that an etag stands for one content, needs what the module's        *)
(* constants say of the use of the service: a transaction aware store is   *)
(* used by one thread at a time (~Interleaved), no body goes on after an   *)
(* exception of an inner context (~CaughtInside), and a store that can not *)
(* roll back only loses untrusted contexts (~Abnormal).                    *)
(***************************************************************************)
EXTENDS EditContext, FiniteSetTheorems, SequenceTheorems, TLAPS

USE WritesAssumption, ParamsAssumption, StoresAssumption, DepthAssumption, UseAssumption

----------------------------------------------------------------------------
(* The inductive invariant: structure *)

\* The k-th context of thread t, and its writes.
Ctxs(t) == 1 .. Len(stack[t])
Mine(t, k) == stack[t][k].own \cup stack[t][k].sub

\* _context_level counts the contexts that are open.
Places == UNION {{t} \X Ctxs(t) : t \in Threads}
LevelCounts == IsFiniteSet(Places) /\ level = Cardinality(Places)

\* The contexts on one resource are those of one thread, and only the first of
\* them is an outermost one.
OneOutermost ==
  \A t, u \in Threads : \A k \in Ctxs(t), l \in Ctxs(u) :
    stack[t][k].r = stack[u][l].r => /\ t = u
                                     /\ k < l => ~stack[t][l].outermost

\* _edit_context of a resource is what its outermost context has put there.
ContextsMatch ==
  /\ \A t \in Threads : \A k \in Ctxs(t) :
       LET f == stack[t][k]
       IN  /\ ctx[f.r].open
           /\ f.outermost => ctx[f.r] = Ctx(f.trusted \/ f.acking, f.param)
           /\ ~f.outermost => f.trusted /\ ~f.acking /\ ctx[f.r].trusted
  /\ \A r \in Resources : ctx[r].open =>
       \E t \in Threads : \E k \in Ctxs(t) : stack[t][k].r = r /\ stack[t][k].outermost

Structure == TypeOK /\ LevelCounts /\ OneOutermost /\ ContextsMatch

----------------------------------------------------------------------------
(* The inductive invariant: whose writes are where *)

\* A write belongs to one context, or to what ended normally, or to what failed.
WritesHaveOneOwner ==
  /\ done \cap failed = {}
  /\ \A t \in Threads : \A k \in Ctxs(t) : Mine(t, k) \cap (done \cup failed) = {}
  /\ \A t, u \in Threads : \A k \in Ctxs(t), l \in Ctxs(u) :
       (t # u \/ k # l) => Mine(t, k) \cap Mine(u, l) = {}

\* What was refused has failed, or is about to.
RefusedFails ==
  \A w \in refused : w \in failed \/ \E t \in Threads : raising[t] /\ \E k \in Ctxs(t) : w \in Mine(t, k)

\* With a transaction aware store one thread has contexts, the store holds what
\* was done or is being done, and what was committed was done.
Transactional ==
  aware =>
    /\ \A t, u \in Threads : stack[t] # <<>> /\ stack[u] # <<>> => t = u
    /\ \A r \in Resources :
         /\ committed.graph[r] \subseteq done
         /\ \A w \in graph[r] : w \in done \/ \E t \in Threads : \E k \in Ctxs(t) : w \in Mine(t, k)

\* Without one, what an untrusted context has written is in its copy only, and
\* what was refused is nowhere.
CopiesApart ==
  ~aware =>
    /\ \A r \in Resources : graph[r] \cap refused = {}
    /\ \A t \in Threads : \A k \in Ctxs(t) :
         LET f == stack[t][k]
         IN  /\ f.copy \cap refused = {}
             /\ ~f.trusted /\ ~f.acking =>
                  /\ \A r \in Resources : graph[r] \cap f.own = {}
                  /\ \A u \in Threads : \A l \in Ctxs(u) :
                       (t # u \/ k # l) => stack[u][l].copy \cap f.own = {}

\* Without one, exceptions leave untrusted contexts only: what check_new_graph
\* refuses is written in their copies only, when no trusted context is around.
RaisingIsDue(t, k) ==
  \/ \A l \in 1 .. k : ~stack[t][l].trusted /\ ~stack[t][l].acking
  \/ stack[t][k].copy \cap Refused = {} /\ ~raising[t]

OnlyUntrustedFail ==
  ~aware /\ ~Abnormal =>
    /\ \A r \in Resources : graph[r] \cap Refused = {}
    /\ \A t \in Threads : \A k \in Ctxs(t) : RaisingIsDue(t, k)

----------------------------------------------------------------------------
(* The inductive invariant: what etags stand for *)

\* An exception is leaving the contexts of a transaction, which will be undone.
Doomed == aware /\ \E t \in Threads : raising[t] /\ stack[t] # <<>>

EtagsMatch ==
  /\ \A r \in Resources : ~ctx[r].open /\ ~Doomed => shown[r] = {graph[r]}
  /\ \A t \in Threads : \A k \in Ctxs(t) :
       LET f == stack[t][k]
       IN  f.outermost => /\ f.acking => shown[f.r] = {}
                          /\ ~aware /\ ~f.trusted /\ ~f.acking => shown[f.r] = {graph[f.r]}
  /\ aware => \A r \in Resources : committed.shown[r] = {committed.graph[r]}

Ledger == WritesHaveOneOwner /\ RefusedFails /\ Transactional /\ CopiesApart

IInv == Structure /\ Ledger /\ OnlyUntrustedFail /\ EtagsMatch

----------------------------------------------------------------------------
(* What the actions do to the stacks *)

\* A context is opened.
Pushes(t, f) ==
  /\ stack' \in [Threads -> Seq(Frames)]
  /\ \A u \in Threads \ {t} : stack'[u] = stack[u]
  /\ Len(stack'[t]) = Len(stack[t]) + 1
  /\ \A k \in Ctxs(t) : stack'[t][k] = stack[t][k]
  /\ stack'[t][Len(stack[t]) + 1] = f

\* The innermost context becomes g.
Tops(t, g) ==
  /\ stack' \in [Threads -> Seq(Frames)]
  /\ \A u \in Threads \ {t} : stack'[u] = stack[u]
  /\ Len(stack'[t]) = Len(stack[t])
  /\ \A k \in 1 .. Len(stack[t]) - 1 : stack'[t][k] = stack[t][k]
  /\ stack'[t][Len(stack[t])] = g

SameContext(f, g) ==
  /\ f.r = g.r /\ f.trusted = g.trusted /\ f.outermost = g.outermost
  /\ f.param = g.param /\ f.copy = g.copy /\ f.acking = g.acking /\ f.own = g.own

\* The innermost context ends, and its writes become the outer one's.
Pops(t) ==
  /\ stack' \in [Threads -> Seq(Frames)]
  /\ \A u \in Threads \ {t} : stack'[u] = stack[u]
  /\ Len(stack'[t]) = Len(stack[t]) - 1
  /\ \A k \in 1 .. Len(stack[t]) - 1 :
       /\ SameContext(stack'[t][k], stack[t][k])
       /\ stack'[t][k].sub = IF k = Len(stack[t]) - 1
                             THEN stack[t][k].sub \cup Mine(t, Len(stack[t]))
                             ELSE stack[t][k].sub

LEMMA GraphType ==
  ASSUME TypeOK
  PROVE  /\ graph \in [Resources -> SUBSET Writes]
         /\ shown \in [Resources -> SUBSET SUBSET Writes]
         /\ committed.graph \in [Resources -> SUBSET Writes]
         /\ committed.shown \in [Resources -> SUBSET SUBSET Writes]
  BY DEF TypeOK, Snapshots

LEMMA StackType ==
  ASSUME TypeOK, NEW t \in Threads
  PROVE  /\ stack[t] \in Seq(Frames) /\ Len(stack[t]) \in Nat
         /\ \A k \in Ctxs(t) : stack[t][k] \in Frames
         /\ Opened(t) = {stack[t][k] : k \in Ctxs(t)}
         /\ stack[t] = <<>> <=> Len(stack[t]) = 0
  BY DEF TypeOK, Ctxs, Opened

LEMMA PushesEffect ==
  ASSUME TypeOK, NEW t \in Threads, NEW f \in Frames,
         stack' = [stack EXCEPT ![t] = Append(@, f)]
  PROVE  Pushes(t, f)
<1>1. stack[t] \in Seq(Frames)
  BY StackType
<1>2. stack'[t] = Append(stack[t], f) /\ stack'[t] \in Seq(Frames)
  BY <1>1 DEF TypeOK
<1>3. \A k \in Ctxs(t) : stack'[t][k] = stack[t][k]
  BY <1>1, <1>2 DEF Ctxs
<1>4. Len(stack'[t]) = Len(stack[t]) + 1 /\ stack'[t][Len(stack[t]) + 1] = f
  BY <1>1, <1>2
<1>5. stack' \in [Threads -> Seq(Frames)] /\ \A u \in Threads \ {t} : stack'[u] = stack[u]
  BY <1>2 DEF TypeOK
<1> QED
  BY <1>3, <1>4, <1>5 DEF Pushes

LEMMA BelowType ==
  ASSUME TypeOK, NEW t \in Threads, stack[t] # <<>>
  PROVE  /\ Len(stack[t]) \in Nat \ {0} /\ Len(stack[t]) \in Ctxs(t)
         /\ Top(t) = stack[t][Len(stack[t])] /\ Top(t) \in Frames
         /\ Below(t) \in Seq(Frames) /\ Len(Below(t)) = Len(stack[t]) - 1
         /\ \A k \in 1 .. Len(stack[t]) - 1 : Below(t)[k] = stack[t][k]
<1>1. stack[t] \in Seq(Frames) /\ Len(stack[t]) \in Nat \ {0}
  BY EmptySeq DEF TypeOK
<1>2. Below(t) = SubSeq(stack[t], 1, Len(stack[t]) - 1)
  BY DEF Below, Front
<1> QED
  BY <1>1, <1>2 DEF Top, Last, Ctxs

LEMMA TopsEffect ==
  ASSUME TypeOK, NEW t \in Threads, stack[t] # <<>>, NEW g \in Frames,
         stack' = [stack EXCEPT ![t] = Append(Below(t), g)]
  PROVE  Tops(t, g)
<1>1. stack'[t] = Append(Below(t), g)
  BY DEF TypeOK
<1> QED
  BY <1>1, BelowType DEF Tops, TypeOK

LEMMA SubEffect ==
  ASSUME NEW f \in Frames, NEW s \in SUBSET Writes
  PROVE  LET e == [f EXCEPT !.sub = @ \cup s]
         IN  e \in Frames /\ e.sub = f.sub \cup s /\ SameContext(e, f)
  BY DEF Frames, SameContext

LEMMA PopsEffect ==
  ASSUME TypeOK, NEW t \in Threads, stack[t] # <<>>,
         stack' = [stack EXCEPT ![t] = Passed(t)]
  PROVE  Pops(t) /\ (Below(t) = <<>> <=> Len(stack[t]) = 1)
<1> DEFINE n == Len(stack[t])
           b == Below(t)
           e == [b[n - 1] EXCEPT !.sub = @ \cup Mine(t, n)]
<1>1. /\ n \in Nat \ {0} /\ n \in Ctxs(t)
      /\ Top(t) = stack[t][n] /\ Top(t) \in Frames
      /\ b \in Seq(Frames) /\ Len(b) = n - 1
      /\ \A k \in 1 .. n - 1 : b[k] = stack[t][k]
  BY BelowType
<1>2. stack'[t] = Passed(t) /\ \A u \in Threads \ {t} : stack'[u] = stack[u]
  BY DEF TypeOK
<1> HIDE DEF n, b, e
<1>3. b = <<>> <=> n = 1
  BY <1>1, EmptySeq
<1>4. CASE n = 1
  <2>1. stack'[t] = <<>>
    BY <1>1, <1>2, <1>4 DEF Passed, b
  <2>2. stack' \in [Threads -> Seq(Frames)]
    BY <2>1, EmptySeq DEF TypeOK
  <2> QED
    BY <1>2, <1>3, <1>4, <2>1, <2>2 DEF Pops, n, b
<1>5. CASE n # 1
  <2>1. n - 1 \in 1 .. Len(b) /\ b[n - 1] \in Frames
    BY <1>1, <1>5
  <2>2. Mine(t, n) \in SUBSET Writes
    BY <1>1 DEF Mine, Frames
  <2>3. e \in Frames /\ e.sub = b[n - 1].sub \cup Mine(t, n)
        /\ SameContext(e, b[n - 1])
    BY <2>1, <2>2, SubEffect DEF e
  <2>4. stack'[t] = [b EXCEPT ![n - 1] = e]
    BY <1>1, <1>2, <1>5 DEF Passed, Mine, b, e
  <2>5. /\ stack'[t] \in Seq(Frames) /\ Len(stack'[t]) = n - 1
        /\ \A k \in 1 .. n - 1 : stack'[t][k] = IF k = n - 1 THEN e ELSE b[k]
    <3>1. e \in Frames
      BY <2>3
    <3> QED
      BY <1>1, <2>1, <2>4, <3>1
  <2>6. stack' \in [Threads -> Seq(Frames)]
    BY <2>5 DEF TypeOK
  <2>7. ASSUME NEW k \in 1 .. n - 1
        PROVE  /\ SameContext(stack'[t][k], stack[t][k])
               /\ stack'[t][k].sub = IF k = n - 1 THEN stack[t][k].sub \cup Mine(t, n)
                                                  ELSE stack[t][k].sub
    <3>1. CASE k = n - 1
      BY <1>1, <2>3, <2>5, <3>1
    <3>2. CASE k # n - 1
      <4>1. stack'[t][k] = stack[t][k] /\ stack[t][k] \in Frames
        BY <1>1, <2>5, <3>2
      <4> QED
        BY <3>2, <4>1 DEF SameContext
    <3> QED
      BY <3>1, <3>2
  <2> QED
    BY <1>2, <1>3, <1>5, <2>5, <2>6, <2>7 DEF Pops, n, b
<1> QED
  BY <1>4, <1>5

----------------------------------------------------------------------------
(* Structure *)

LEMMA PushesLevel ==
  ASSUME TypeOK, LevelCounts, NEW t \in Threads, NEW f, Pushes(t, f), level' = level + 1
  PROVE  LevelCounts' /\ level' \in Nat
<1> DEFINE p == <<t, Len(stack[t]) + 1>>
<1>1. Len(stack[t]) \in Nat
  BY StackType
<1>2. \A u \in Threads \ {t} : Ctxs(u)' = Ctxs(u)
  BY DEF Pushes, Ctxs
<1>3. Ctxs(t)' = Ctxs(t) \cup {Len(stack[t]) + 1} /\ Len(stack[t]) + 1 \notin Ctxs(t)
  BY <1>1 DEF Pushes, Ctxs
<1>4. Places' = Places \cup {p} /\ p \notin Places
  BY <1>2, <1>3 DEF Places
<1> HIDE DEF p
<1>5. IsFiniteSet(Places') /\ Cardinality(Places') = Cardinality(Places) + 1
  BY <1>4, FS_AddElement DEF LevelCounts
<1> QED
  BY <1>5, FS_CardinalityType DEF LevelCounts, TypeOK

LEMMA TopsLevel ==
  ASSUME TypeOK, LevelCounts, NEW t \in Threads, NEW g, Tops(t, g), UNCHANGED level
  PROVE  LevelCounts'
<1>1. \A u \in Threads : Ctxs(u)' = Ctxs(u)
  BY DEF Tops, Ctxs
<1>2. Places' = Places
  BY <1>1 DEF Places
<1> QED
  BY <1>2 DEF LevelCounts

LEMMA PopsLevel ==
  ASSUME TypeOK, LevelCounts, NEW t \in Threads, stack[t] # <<>>, Pops(t), level' = level - 1
  PROVE  LevelCounts' /\ level' \in Nat
<1> DEFINE p == <<t, Len(stack[t])>>
<1>1. Len(stack[t]) \in Nat \ {0}
  BY BelowType
<1>2. \A u \in Threads \ {t} : Ctxs(u)' = Ctxs(u)
  BY DEF Pops, Ctxs
<1>3. Ctxs(t)' = Ctxs(t) \ {Len(stack[t])} /\ Len(stack[t]) \in Ctxs(t)
  BY <1>1 DEF Pops, Ctxs
<1>4. Places' = Places \ {p} /\ p \in Places
  BY <1>2, <1>3 DEF Places
<1> HIDE DEF p
<1>5. IsFiniteSet(Places') /\ Cardinality(Places') = Cardinality(Places) - 1
  BY <1>4, FS_RemoveElement DEF LevelCounts
<1> QED
  BY <1>5, FS_CardinalityType DEF LevelCounts

LEMMA PushesContexts ==
  ASSUME TypeOK, OneOutermost, ContextsMatch, NEW t \in Threads, NEW f \in Frames, Pushes(t, f),
         \A u \in Threads \ {t} : \A k \in Ctxs(u) : stack[u][k].r # f.r,
         ~f.acking,
         \/ /\ ~ctx[f.r].open /\ f.outermost
            /\ ctx' = [ctx EXCEPT ![f.r] = Ctx(f.trusted, f.param)]
         \/ /\ ctx[f.r].open /\ ctx[f.r].trusted
            /\ ~f.outermost /\ f.trusted
            /\ UNCHANGED ctx
  PROVE  OneOutermost' /\ ContextsMatch'
<1> DEFINE n == Len(stack[t])
<1>0. n \in Nat /\ f.r \in Resources
  BY StackType DEF Frames
<1>1. /\ \A u \in Threads \ {t} : Ctxs(u)' = Ctxs(u) /\ stack'[u] = stack[u]
      /\ Ctxs(t)' = Ctxs(t) \cup {n + 1} /\ n + 1 \notin Ctxs(t)
      /\ \A k \in Ctxs(t) : k < n + 1 /\ stack'[t][k] = stack[t][k]
      /\ stack'[t][n + 1] = f
  BY <1>0 DEF Pushes, Ctxs
<1> HIDE DEF n
<1>2. f.outermost => \A u \in Threads : \A k \in Ctxs(u) : stack[u][k].r # f.r
  BY DEF ContextsMatch
<1>3. OneOutermost'
  <2> SUFFICES ASSUME NEW u \in Threads, NEW v \in Threads, NEW k \in Ctxs(u)', NEW l \in Ctxs(v)',
                      stack'[u][k].r = stack'[v][l].r
               PROVE  u = v /\ (k < l => ~stack'[v][l].outermost)
    BY DEF OneOutermost
  <2>1. CASE u = t /\ k = n + 1
    BY <1>0, <1>1, <2>1 DEF Ctxs
  <2>2. CASE v = t /\ l = n + 1
    BY <1>0, <1>1, <1>2, <2>2
  <2>3. CASE ~(u = t /\ k = n + 1) /\ ~(v = t /\ l = n + 1)
    BY <1>1, <2>3 DEF OneOutermost
  <2> QED
    BY <2>1, <2>2, <2>3
<1>4. ContextsMatch'
  <2>1. \A r \in Resources : ctx'[r] = IF f.outermost /\ r = f.r THEN Ctx(f.trusted, f.param)
                                      ELSE ctx[r]
    BY <1>0 DEF TypeOK, ContextsMatch
  <2>2. \A u \in Threads : \A k \in Ctxs(u) : stack[u][k].r \in Resources
    BY StackType DEF Frames
  <2>3. ASSUME NEW u \in Threads, NEW k \in Ctxs(u)'
        PROVE  LET g == stack'[u][k]
               IN  /\ ctx'[g.r].open
                   /\ g.outermost => ctx'[g.r] = Ctx(g.trusted \/ g.acking, g.param)
                   /\ ~g.outermost => g.trusted /\ ~g.acking /\ ctx'[g.r].trusted
    <3>1. CASE u = t /\ k = n + 1
      <4>1. stack'[u][k] = f
        BY <1>1, <3>1
      <4>2. f.trusted \in BOOLEAN /\ f.outermost \in BOOLEAN /\ f.acking \in BOOLEAN
        BY DEF Frames
      <4>3. (f.trusted \/ f.acking) = f.trusted
        BY <4>2
      <4>4. f.outermost => ctx'[f.r] = Ctx(f.trusted, f.param)
        BY <1>0, <2>1
      <4>5. ctx'[f.r].open /\ (~f.outermost => ctx'[f.r].trusted)
        BY <1>0, <2>1, <4>2 DEF Ctx
      <4> QED
        BY <4>1, <4>3, <4>4, <4>5
    <3>2. CASE ~(u = t /\ k = n + 1)
      BY <1>1, <1>2, <2>1, <2>2, <3>2 DEF ContextsMatch
    <3> QED
      BY <3>1, <3>2
  <2>4. ASSUME NEW r \in Resources, ctx'[r].open
        PROVE  \E u \in Threads : \E k \in Ctxs(u)' : stack'[u][k].r = r /\ stack'[u][k].outermost
    <3>1. CASE f.outermost /\ r = f.r
      BY <1>1, <3>1
    <3>2. CASE ~(f.outermost /\ r = f.r)
      BY <1>1, <2>1, <2>4, <3>2 DEF ContextsMatch
    <3> QED
      BY <3>1, <3>2
  <2> QED
    BY <2>3, <2>4 DEF ContextsMatch
<1> QED
  BY <1>3, <1>4

LEMMA TopsContexts ==
  ASSUME TypeOK, OneOutermost, ContextsMatch, NEW t \in Threads, stack[t] # <<>>,
         NEW g \in Frames, Tops(t, g),
         g.r = Top(t).r, g.outermost = Top(t).outermost, g.trusted = Top(t).trusted,
         g.param = Top(t).param,
         \/ g.acking = Top(t).acking /\ UNCHANGED ctx
         \/ /\ g.outermost /\ g.acking
            /\ ctx' = [ctx EXCEPT ![g.r] = Ctx(TRUE, g.param)]
  PROVE  OneOutermost' /\ ContextsMatch'
<1> DEFINE n == Len(stack[t])
<1>0. n \in Nat \ {0} /\ n \in Ctxs(t) /\ Top(t) = stack[t][n] /\ g.r \in Resources
  BY BelowType DEF Frames
<1>1. /\ \A u \in Threads : Ctxs(u)' = Ctxs(u)
      /\ \A u \in Threads \ {t} : \A k \in Ctxs(u) : stack'[u][k] = stack[u][k]
      /\ \A k \in Ctxs(t) : stack'[t][k] = IF k = n THEN g ELSE stack[t][k]
  BY <1>0 DEF Tops, Ctxs
<1>2. \A k \in Ctxs(t) : k # n => k < n
  BY <1>0 DEF Ctxs
<1> HIDE DEF n
<1>3. OneOutermost'
  <2>1. \A u \in Threads : \A k \in Ctxs(u) :
          stack'[u][k].r = stack[u][k].r /\ stack'[u][k].outermost = stack[u][k].outermost
    BY <1>0, <1>1
  <2> QED
    BY <1>1, <2>1 DEF OneOutermost
<1>4. CASE g.acking = Top(t).acking /\ UNCHANGED ctx
  <2>1. \A u \in Threads : \A k \in Ctxs(u) :
          /\ stack'[u][k].r = stack[u][k].r /\ stack'[u][k].outermost = stack[u][k].outermost
          /\ stack'[u][k].trusted = stack[u][k].trusted
          /\ stack'[u][k].acking = stack[u][k].acking /\ stack'[u][k].param = stack[u][k].param
    BY <1>0, <1>1, <1>4
  <2>2. ContextsMatch'
    BY <1>1, <1>4, <2>1 DEF ContextsMatch
  <2> QED
    BY <1>3, <2>2
<1>5. CASE g.outermost /\ g.acking /\ ctx' = [ctx EXCEPT ![g.r] = Ctx(TRUE, g.param)]
  <2>1. \A r \in Resources : ctx'[r] = IF r = g.r THEN Ctx(TRUE, g.param) ELSE ctx[r]
    BY <1>5 DEF TypeOK
  <2>2. \A u \in Threads : \A k \in Ctxs(u) : stack[u][k].r \in Resources
    BY StackType DEF Frames
  <2>3. \A u \in Threads : \A k \in Ctxs(u) : stack[u][k].r = g.r => u = t /\ k = n
    BY <1>0, <1>2, <1>5 DEF OneOutermost
  <2>4. ASSUME NEW u \in Threads, NEW k \in Ctxs(u)
        PROVE  LET h == stack'[u][k]
               IN  /\ ctx'[h.r].open
                   /\ h.outermost => ctx'[h.r] = Ctx(h.trusted \/ h.acking, h.param)
                   /\ ~h.outermost => h.trusted /\ ~h.acking /\ ctx'[h.r].trusted
    <3>1. CASE u = t /\ k = n
      <4>1. (g.trusted \/ g.acking) = TRUE
        BY <1>5
      <4>2. stack'[u][k] = g /\ ctx'[g.r] = Ctx(TRUE, g.param)
        BY <1>0, <1>1, <2>1, <3>1
      <4>3. Ctx(TRUE, g.param).open
        BY DEF Ctx
      <4> QED
        BY <1>5, <4>1, <4>2, <4>3
    <3>2. CASE ~(u = t /\ k = n)
      <4>1. stack'[u][k] = stack[u][k] /\ stack[u][k].r \in Resources /\ stack[u][k].r # g.r
        BY <1>1, <2>2, <2>3, <3>2
      <4>2. ctx'[stack[u][k].r] = ctx[stack[u][k].r]
        BY <2>1, <4>1
      <4> QED
        BY <4>1, <4>2 DEF ContextsMatch
    <3> QED
      BY <3>1, <3>2
  <2>5. ASSUME NEW r \in Resources, ctx'[r].open
        PROVE  \E u \in Threads : \E k \in Ctxs(u) : stack'[u][k].r = r /\ stack'[u][k].outermost
    <3>1. CASE r = g.r
      BY <1>0, <1>1, <1>5, <3>1
    <3>2. CASE r # g.r
      <4>1. PICK u \in Threads : \E k \in Ctxs(u) : stack[u][k].r = r /\ stack[u][k].outermost
        BY <2>1, <2>5, <3>2 DEF ContextsMatch
      <4> QED
        BY <1>0, <1>1, <3>2, <4>1
    <3> QED
      BY <3>1, <3>2
  <2>6. ContextsMatch'
    BY <1>1, <2>4, <2>5 DEF ContextsMatch
  <2> QED
    BY <1>3, <2>6
<1> QED
  BY <1>4, <1>5

LEMMA PopsContexts ==
  ASSUME TypeOK, OneOutermost, ContextsMatch, NEW t \in Threads, stack[t] # <<>>, Pops(t),
         ctx' = IF Top(t).outermost THEN [ctx EXCEPT ![Top(t).r] = NoCtx] ELSE ctx
  PROVE  OneOutermost' /\ ContextsMatch'
<1> DEFINE n == Len(stack[t])
<1>0. /\ n \in Nat \ {0} /\ n \in Ctxs(t)
      /\ Top(t) = stack[t][n] /\ Top(t).r \in Resources
  BY BelowType DEF Frames
<1>1. /\ \A u \in Threads \ {t} : Ctxs(u)' = Ctxs(u)
      /\ Ctxs(t)' = Ctxs(t) \ {n} /\ \A k \in Ctxs(t)' : k < n
      /\ \A u \in Threads : \A k \in Ctxs(u)' : SameContext(stack'[u][k], stack[u][k])
  <2>1. \A u \in Threads \ {t} : Ctxs(u)' = Ctxs(u)
    BY DEF Pops, Ctxs
  <2>2. Ctxs(t)' = Ctxs(t) \ {n} /\ \A k \in Ctxs(t)' : k < n
    BY <1>0 DEF Pops, Ctxs
  <2>3. \A u \in Threads \ {t} : \A k \in Ctxs(u)' : SameContext(stack'[u][k], stack[u][k])
    BY DEF Pops, SameContext
  <2>4. \A k \in Ctxs(t)' : SameContext(stack'[t][k], stack[t][k])
    BY DEF Pops, Ctxs
  <2> QED
    BY <2>1, <2>2, <2>3, <2>4
<1> HIDE DEF n
<1>2. OneOutermost'
  BY <1>1 DEF OneOutermost, SameContext
<1>3. \A r \in Resources : ctx'[r] = IF Top(t).outermost /\ r = Top(t).r THEN NoCtx ELSE ctx[r]
  BY <1>0 DEF TypeOK
<1>4. \A u \in Threads : \A k \in Ctxs(u) : stack[u][k].r \in Resources
  BY StackType DEF Frames
<1>5. ASSUME NEW u \in Threads, NEW k \in Ctxs(u)'
      PROVE  LET h == stack'[u][k]
             IN  /\ ctx'[h.r].open
                 /\ h.outermost => ctx'[h.r] = Ctx(h.trusted \/ h.acking, h.param)
                 /\ ~h.outermost => h.trusted /\ ~h.acking /\ ctx'[h.r].trusted
  <2>1. k \in Ctxs(u) /\ SameContext(stack'[u][k], stack[u][k])
    BY <1>1
  <2>2. Top(t).outermost => stack[u][k].r # Top(t).r
    <3>1. u = t => k < n
      BY <1>1
    <3> QED
      BY <1>0, <2>1, <3>1 DEF OneOutermost
  <2>3. ctx'[stack[u][k].r] = ctx[stack[u][k].r]
    BY <1>3, <1>4, <2>1, <2>2
  <2> QED
    BY <2>1, <2>3 DEF ContextsMatch, SameContext
<1>6. ASSUME NEW r \in Resources, ctx'[r].open
      PROVE  \E u \in Threads : \E k \in Ctxs(u)' : stack'[u][k].r = r /\ stack'[u][k].outermost
  <2>1. ~(Top(t).outermost /\ r = Top(t).r) /\ ctx[r].open
    BY <1>3, <1>6 DEF NoCtx
  <2>2. PICK u \in Threads : \E k \in Ctxs(u) : stack[u][k].r = r /\ stack[u][k].outermost
    BY <2>1 DEF ContextsMatch
  <2>3. PICK k \in Ctxs(u) : stack[u][k].r = r /\ stack[u][k].outermost
    BY <2>2
  <2>4. k \in Ctxs(u)'
    BY <1>0, <1>1, <2>1, <2>3
  <2> QED
    BY <1>1, <2>3, <2>4 DEF SameContext
<1> QED
  BY <1>2, <1>5, <1>6 DEF ContextsMatch

----------------------------------------------------------------------------
(* The five ways in which a thread moves *)

\* An exception is raised, for one of the reasons there are.
Raises(t) ==
  /\ raising' = [raising EXCEPT ![t] = TRUE]
  /\ UNCHANGED <<aware, graph, shown, committed, level, ctx, stack, done, failed, refused>>
  /\ \/ Harmless(t)
     \/ \E r \in Resources : graph[r] \cap Refused # {}
     \/ stack[t] # <<>> /\ Top(t).copy \cap Refused # {}

\* A context f is opened.
Enters(t, f) ==
  /\ f \in Frames /\ Pushes(t, f)
  /\ MayEnter(t, f.r)
  /\ ~f.acking /\ f.own = {} /\ f.sub = {}
  /\ f.copy \subseteq graph[f.r]
  /\ \/ /\ ~ctx[f.r].open /\ f.outermost
        /\ ctx' = [ctx EXCEPT ![f.r] = Ctx(f.trusted, f.param)]
     \/ /\ ctx[f.r].open /\ ctx[f.r].trusted
        /\ ~f.outermost /\ f.trusted
        /\ UNCHANGED ctx
  /\ \/ UNCHANGED graph
     \/ /\ aware /\ ~ctx[f.r].open
        /\ graph' = [graph EXCEPT ![f.r] = {}]
  /\ level' = level + 1
  /\ UNCHANGED <<aware, shown, committed, raising, done, failed, refused>>

LEMMA EditTrustedMoves ==
  ASSUME Structure, NEW t \in Threads, NEW r \in Resources, NEW p \in Params \cup {NoParam},
         EditTrusted(t, r, p)
  PROVE  Raises(t) \/ \E f \in Frames : Enters(t, f)
<1>1. \A b \in BOOLEAN :
        LET f == NewFrame(r, TRUE, b, p, FALSE, {})
        IN  /\ f \in Frames /\ f.r = r /\ f.trusted = TRUE /\ f.outermost = b /\ f.param = p
            /\ ~f.acking /\ f.own = {} /\ f.sub = {} /\ f.copy = {}
  BY DEF NewFrame, Frames
<1>2. CASE EnterRefused(t)
  BY <1>2 DEF EnterRefused, Raise, Raises
<1>3. CASE /\ ~ctx[r].open
           /\ ctx' = [ctx EXCEPT ![r] = Ctx(TRUE, p)]
           /\ Enter(t, NewFrame(r, TRUE, TRUE, p, FALSE, {}))
           /\ UNCHANGED graph
  <2> DEFINE f == NewFrame(r, TRUE, TRUE, p, FALSE, {})
  <2>1. /\ f \in Frames /\ f.r = r /\ f.trusted = TRUE /\ f.outermost = TRUE /\ f.param = p
        /\ ~f.acking /\ f.own = {} /\ f.sub = {} /\ f.copy = {}
    BY <1>1
  <2>2. Enter(t, f)
    BY <1>3
  <2> HIDE DEF f
  <2>3. Pushes(t, f)
    BY <2>1, <2>2, PushesEffect DEF Enter, Structure
  <2> QED
    BY <1>3, <2>1, <2>2, <2>3 DEF Enters, Enter, EditTrusted
<1>4. CASE /\ ctx[r].open /\ ctx[r].trusted
           /\ Enter(t, NewFrame(r, TRUE, FALSE, p, FALSE, {}))
           /\ UNCHANGED <<ctx, graph>>
  <2> DEFINE f == NewFrame(r, TRUE, FALSE, p, FALSE, {})
  <2>1. /\ f \in Frames /\ f.r = r /\ f.trusted = TRUE /\ f.outermost = FALSE /\ f.param = p
        /\ ~f.acking /\ f.own = {} /\ f.sub = {} /\ f.copy = {}
    BY <1>1
  <2>2. Enter(t, f)
    BY <1>4
  <2> HIDE DEF f
  <2>3. Pushes(t, f)
    BY <2>1, <2>2, PushesEffect DEF Enter, Structure
  <2> QED
    BY <1>4, <2>1, <2>2, <2>3 DEF Enters, Enter, EditTrusted
<1> QED
  BY <1>2, <1>3, <1>4 DEF EditTrusted

LEMMA EditUntrustedMoves ==
  ASSUME Structure, NEW t \in Threads, NEW r \in Resources, NEW p \in Params \cup {NoParam},
         NEW clear \in BOOLEAN, EditUntrusted(t, r, p, clear)
  PROVE  Raises(t) \/ \E f \in Frames : Enters(t, f)
<1>0. Editable(r, clear) \subseteq graph[r] /\ Editable(r, clear) \in SUBSET Writes
  BY DEF Editable, Structure, TypeOK, Snapshots
<1>1. CASE EnterRefused(t)
  BY <1>1 DEF EnterRefused, Raise, Raises
<1>2. CASE ~EnterRefused(t)
  <2> DEFINE copied == IF aware THEN {} ELSE Editable(r, clear)
             f == NewFrame(r, FALSE, TRUE, p, clear, copied)
  <2>1. ~ctx[r].open /\ ctx' = [ctx EXCEPT ![r] = Ctx(FALSE, p)] /\ MayEnter(t, r)
    BY <1>2 DEF EditUntrusted
  <2>2. copied \in SUBSET Writes /\ copied \subseteq graph[r]
    BY <1>0
  <2>3. Enter(t, f)
    BY <2>1 DEF EditUntrusted
  <2>4. IF aware THEN graph' = [graph EXCEPT ![r] = Editable(r, clear)] ELSE UNCHANGED graph
    BY <2>1 DEF EditUntrusted
  <2> HIDE DEF copied
  <2>5. /\ f \in Frames /\ f.r = r /\ f.trusted = FALSE /\ f.outermost = TRUE /\ f.param = p
        /\ ~f.acking /\ f.own = {} /\ f.sub = {} /\ f.copy = copied
    BY <2>2 DEF NewFrame, Frames
  <2> HIDE DEF f
  <2>6. Pushes(t, f)
    BY <2>3, <2>5, PushesEffect DEF Enter, Structure
  <2>7. UNCHANGED graph \/ (aware /\ graph' = [graph EXCEPT ![r] = {}])
    <3>1. graph = [graph EXCEPT ![r] = graph[r]]
      BY GraphType DEF Structure
    <3> QED
      BY <2>4, <3>1 DEF Editable
  <2> QED
    BY <2>1, <2>2, <2>3, <2>5, <2>6, <2>7 DEF Enters, Enter
<1> QED
  BY <1>1, <1>2

\* The innermost context of t, which becomes g, writes w: on the graph, or on
\* its copy.
Writing(t, w, g) ==
  /\ stack[t] # <<>> /\ ~raising[t]
  /\ w \notin Written
  /\ w \in Refused => Harmless(t)
  /\ g \in Frames /\ Tops(t, g)
  /\ g.r = Top(t).r /\ g.outermost = Top(t).outermost /\ g.trusted = Top(t).trusted
  /\ g.param = Top(t).param /\ ~Top(t).acking /\ ~g.acking
  /\ g.own = Top(t).own \cup {w} /\ g.sub = Top(t).sub
  /\ IF g.trusted \/ aware
     THEN g.copy = Top(t).copy /\ graph' = [graph EXCEPT ![g.r] = @ \cup {w}]
     ELSE g.copy = Top(t).copy \cup {w} /\ UNCHANGED graph
  /\ UNCHANGED <<aware, shown, committed, level, ctx, raising, done, failed, refused>>

LEMMA WriteInMoves ==
  ASSUME Structure, NEW t \in Threads, NEW w \in Writes, WriteIn(t, w)
  PROVE  \E g \in Frames : Writing(t, w, g)
<1> DEFINE f == Top(t)
           g1 == [f EXCEPT !.own = @ \cup {w}]
           g2 == [g1 EXCEPT !.copy = @ \cup {w}]
<1>0. stack[t] # <<>> /\ f \in Frames
  BY BelowType DEF WriteIn, Structure
<1> HIDE DEF f
<1>1. /\ g1 \in Frames /\ g1.r = f.r /\ g1.outermost = f.outermost /\ g1.trusted = f.trusted
      /\ g1.param = f.param /\ g1.acking = f.acking /\ g1.own = f.own \cup {w} /\ g1.sub = f.sub
      /\ g1.copy = f.copy
  BY <1>0 DEF Frames
<1>2. /\ g2 \in Frames /\ g2.r = f.r /\ g2.outermost = f.outermost /\ g2.trusted = f.trusted
      /\ g2.param = f.param /\ g2.acking = f.acking /\ g2.own = f.own \cup {w} /\ g2.sub = f.sub
      /\ g2.copy = f.copy \cup {w}
  <2> HIDE DEF g1
  <2> QED
    BY <1>1 DEF Frames
<1>3. /\ w \notin Written /\ ~raising[t] /\ ~f.acking
      /\ w \in Refused => Harmless(t)
      /\ UNCHANGED <<aware, shown, committed, level, ctx, raising, done, failed, refused>>
  BY DEF WriteIn, f
<1>4. CASE f.trusted \/ aware
  <2>1. /\ graph' = [graph EXCEPT ![f.r] = @ \cup {w}]
        /\ stack' = [stack EXCEPT ![t] = Append(Below(t), g1)]
    BY <1>4 DEF WriteIn, f
  <2> HIDE DEF g1
  <2>2. Tops(t, g1)
    BY <1>0, <1>1, <2>1, TopsEffect DEF Structure
  <2> QED
    BY <1>0, <1>1, <1>3, <1>4, <2>1, <2>2 DEF Writing, f
<1>5. CASE ~(f.trusted \/ aware)
  <2>1. UNCHANGED graph /\ stack' = [stack EXCEPT ![t] = Append(Below(t), g2)]
    BY <1>5 DEF WriteIn, f
  <2> HIDE DEF g2
  <2>2. Tops(t, g2)
    BY <1>0, <1>2, <2>1, TopsEffect DEF Structure
  <2> QED
    BY <1>0, <1>2, <1>3, <1>5, <2>1, <2>2 DEF Writing, f
<1> QED
  BY <1>4, <1>5

\* The content of the innermost context of t is accepted.
Acknowledges(t, g) ==
  /\ stack[t] # <<>> /\ ~raising[t] /\ ~Top(t).acking /\ Top(t).outermost
  /\ g \in Frames /\ Tops(t, g)
  /\ g.r = Top(t).r /\ g.outermost = Top(t).outermost /\ g.trusted = Top(t).trusted
  /\ g.param = Top(t).param /\ g.acking
  /\ g.own = Top(t).own /\ g.sub = Top(t).sub /\ g.copy = Top(t).copy
  /\ graph'[g.r] \cap Refused = {}
  /\ IF g.trusted \/ aware THEN UNCHANGED graph
     ELSE graph' = [graph EXCEPT ![g.r] = g.copy]
  /\ shown' = [shown EXCEPT ![g.r] = {}]
  /\ ctx' = [ctx EXCEPT ![g.r] = Ctx(TRUE, g.param)]
  /\ UNCHANGED <<aware, committed, level, raising, done, failed, refused>>

LEMMA CheckMoves ==
  ASSUME Structure, NEW t \in Threads, Check(t)
  PROVE  Raises(t) \/ \E g \in Frames : Acknowledges(t, g)
<1> DEFINE f == Top(t)
           content == IF f.trusted \/ aware THEN graph[f.r] ELSE f.copy
           g == [f EXCEPT !.acking = TRUE]
<1>0. stack[t] # <<>> /\ f \in Frames /\ f.r \in Resources
  BY BelowType DEF Check, Structure, Frames
<1> HIDE DEF f
<1>1. /\ g \in Frames /\ g.r = f.r /\ g.outermost = f.outermost /\ g.trusted = f.trusted
      /\ g.param = f.param /\ g.acking = TRUE /\ g.own = f.own /\ g.sub = f.sub
      /\ g.copy = f.copy
  BY <1>0 DEF Frames
<1>2. CASE content \cap Refused # {}
  <2>1. /\ raising' = [raising EXCEPT ![t] = TRUE]
        /\ UNCHANGED <<aware, graph, shown, committed, level, ctx, stack, done, failed, refused>>
    BY <1>2 DEF Check, f
  <2> QED
    BY <1>0, <1>2, <2>1 DEF Raises, f
<1>3. CASE content \cap Refused = {}
  <2>1. /\ graph' = [graph EXCEPT ![f.r] = content]
        /\ shown' = [shown EXCEPT ![f.r] = {}]
        /\ ctx' = [ctx EXCEPT ![f.r] = Ctx(TRUE, f.param)]
        /\ stack' = [stack EXCEPT ![t] = Append(Below(t), g)]
        /\ UNCHANGED <<aware, committed, level, raising, done, failed, refused>>
        /\ ~raising[t] /\ ~f.acking /\ f.outermost
    BY <1>3 DEF Check, f
  <2> HIDE DEF g
  <2>2. Tops(t, g)
    BY <1>0, <1>1, <2>1, TopsEffect DEF Structure
  <2>3. graph'[f.r] = content
    BY <1>0, <2>1, GraphType DEF Structure
  <2>4. IF f.trusted \/ aware THEN UNCHANGED graph ELSE graph' = [graph EXCEPT ![f.r] = f.copy]
    <3>1. graph = [graph EXCEPT ![f.r] = graph[f.r]]
      BY GraphType DEF Structure
    <3> QED
      BY <2>1, <3>1
  <2> HIDE DEF content
  <2> QED
    BY <1>0, <1>1, <1>3, <2>1, <2>2, <2>3, <2>4 DEF Acknowledges, f
<1> QED
  BY <1>2, <1>3

\* The innermost context of t ends: what both ways have in common.
Ends(t) ==
  /\ stack[t] # <<>> /\ Pops(t)
  /\ ctx' = IF Top(t).outermost THEN [ctx EXCEPT ![Top(t).r] = NoCtx] ELSE ctx
  /\ level' = level - 1
  /\ UNCHANGED <<aware, raising>>

LEMMA LeaveMoves ==
  ASSUME Structure, NEW t \in Threads, Leave(t)
  PROVE  Ends(t) /\ (Below(t) = <<>> <=> Len(stack[t]) = 1)
<1>1. stack[t] # <<>> /\ stack' = [stack EXCEPT ![t] = Passed(t)]
  BY DEF Leave
<1>2. Pops(t) /\ (Below(t) = <<>> <=> Len(stack[t]) = 1)
  BY <1>1, PopsEffect DEF Structure
<1> QED
  BY <1>1, <1>2 DEF Leave, Commit, Ends

LEMMA LeaveRaisingMoves ==
  ASSUME Structure, NEW t \in Threads, LeaveRaising(t)
  PROVE  Ends(t) /\ (Below(t) = <<>> <=> Len(stack[t]) = 1)
<1>1. stack[t] # <<>> /\ stack' = [stack EXCEPT ![t] = Passed(t)]
  BY DEF LeaveRaising
<1>2. Pops(t) /\ (Below(t) = <<>> <=> Len(stack[t]) = 1)
  BY <1>1, PopsEffect DEF Structure
<1> QED
  BY <1>1, <1>2 DEF LeaveRaising, Rollback, Ends

\* Every step is one of these.
LEMMA Moves ==
  ASSUME Structure, NEW t \in Threads,
         \/ \E r \in Resources, p \in Params \cup {NoParam} :
              \/ EditTrusted(t, r, p)
              \/ \E clear \in BOOLEAN : EditUntrusted(t, r, p, clear)
         \/ \E w \in Writes : WriteIn(t, w)
         \/ BodyRaises(t) \/ Check(t) \/ InnerAssertionFails(t)
  PROVE  \/ Raises(t)
         \/ \E f \in Frames : Enters(t, f)
         \/ \E w \in Writes : \E g \in Frames : Writing(t, w, g)
         \/ \E g \in Frames : Acknowledges(t, g)
<1>1. CASE BodyRaises(t)
  BY <1>1 DEF BodyRaises, Raise, Raises
<1>2. CASE InnerAssertionFails(t)
  <2>1. Top(t).r \in Resources
    BY <1>2, BelowType DEF InnerAssertionFails, Structure, Frames
  <2> QED
    BY <1>2, <2>1 DEF InnerAssertionFails, Raises
<1> QED
  BY <1>1, <1>2, EditTrustedMoves, EditUntrustedMoves, WriteInMoves, CheckMoves

----------------------------------------------------------------------------
(* Contexts are nested, closed and counted, whatever happens *)

CtxType == [open : BOOLEAN, trusted : BOOLEAN, param : Params \cup {NoParam}]

LEMMA CtxTypes ==
  ASSUME NEW trusted \in BOOLEAN, NEW p \in Params \cup {NoParam}
  PROVE  Ctx(trusted, p) \in CtxType /\ NoCtx \in CtxType
  BY DEF Ctx, NoCtx, CtxType

LEMMA SnapshotType ==
  ASSUME NEW g \in [Resources -> SUBSET Writes], NEW s \in [Resources -> SUBSET SUBSET Writes]
  PROVE  [graph |-> g, shown |-> s] \in Snapshots
  BY DEF Snapshots

LEMMA InitStructure == Init => Structure
<1> SUFFICES ASSUME Init PROVE Structure
  OBVIOUS
<1>1. TypeOK
  <2>1. graph \in [Resources -> SUBSET Writes] /\ shown \in [Resources -> SUBSET SUBSET Writes]
    BY DEF Init
  <2>2. [graph |-> graph, shown |-> shown] \in Snapshots /\ committed \in Snapshots
    BY <2>1, SnapshotType DEF Init
  <2>3. ctx \in [Resources -> CtxType]
    BY DEF Init, NoCtx, CtxType
  <2>4. stack \in [Threads -> Seq(Frames)]
    BY EmptySeq DEF Init
  <2> QED
    BY <2>2, <2>3, <2>4 DEF Init, TypeOK, CtxType
<1>2. \A t \in Threads : Ctxs(t) = {}
  BY DEF Init, Ctxs
<1>3. LevelCounts
  <2>1. Places = {}
    BY <1>2 DEF Places
  <2> QED
    BY <2>1, FS_EmptySet DEF Init, LevelCounts
<1> QED
  BY <1>1, <1>2, <1>3 DEF Init, NoCtx, Structure, OneOutermost, ContextsMatch

LEMMA EntersStructure ==
  ASSUME Structure, NEW t \in Threads, NEW f \in Frames, Enters(t, f)
  PROVE  Structure'
<1>0. TypeOK /\ f.r \in Resources /\ f.trusted \in BOOLEAN /\ f.param \in Params \cup {NoParam}
  BY DEF Structure, Frames
<1>1. LevelCounts' /\ level' \in Nat
  BY PushesLevel DEF Structure, Enters
<1>2. \A u \in Threads \ {t} : \A k \in Ctxs(u) : stack[u][k].r # f.r
  BY <1>0, StackType DEF Enters, MayEnter
<1>3. OneOutermost' /\ ContextsMatch'
  BY <1>2, PushesContexts DEF Structure, Enters
<1>4. TypeOK'
  <2>1. graph' \in [Resources -> SUBSET Writes]
    BY <1>0, GraphType DEF Enters
  <2>2. [graph |-> graph, shown |-> shown]' \in Snapshots
    BY <1>0, <2>1, GraphType, SnapshotType DEF Enters
  <2>3. ctx' \in [Resources -> CtxType]
    BY <1>0, CtxTypes DEF Enters, TypeOK, CtxType
  <2> QED
    BY <1>0, <1>1, <2>2, <2>3 DEF Enters, Pushes, TypeOK, CtxType
<1> QED
  BY <1>1, <1>3, <1>4 DEF Structure

LEMMA WritingStructure ==
  ASSUME Structure, NEW t \in Threads, NEW w \in Writes, NEW g \in Frames, Writing(t, w, g)
  PROVE  Structure'
<1>0. TypeOK /\ g.r \in Resources
  BY DEF Structure, Frames
<1>1. LevelCounts'
  BY TopsLevel DEF Structure, Writing
<1>2. g.acking = Top(t).acking
  BY <1>0, BelowType DEF Writing, Frames
<1>3. OneOutermost' /\ ContextsMatch'
  BY <1>2, TopsContexts DEF Structure, Writing
<1>4. TypeOK'
  <2>1. graph' \in [Resources -> SUBSET Writes]
    BY <1>0, GraphType DEF Writing
  <2>2. [graph |-> graph, shown |-> shown]' \in Snapshots
    BY <1>0, <2>1, GraphType, SnapshotType DEF Writing
  <2> QED
    BY <1>0, <2>2 DEF Writing, Tops, TypeOK
<1> QED
  BY <1>1, <1>3, <1>4 DEF Structure

LEMMA AcknowledgesStructure ==
  ASSUME Structure, NEW t \in Threads, NEW g \in Frames, Acknowledges(t, g)
  PROVE  Structure'
<1>0. TypeOK /\ g.r \in Resources /\ g.param \in Params \cup {NoParam} /\ g.copy \subseteq Writes
  BY DEF Structure, Frames
<1>1. LevelCounts'
  BY TopsLevel DEF Structure, Acknowledges
<1>2. OneOutermost' /\ ContextsMatch'
  BY TopsContexts DEF Structure, Acknowledges
<1>3. TypeOK'
  <2>1. graph' \in [Resources -> SUBSET Writes] /\ shown' \in [Resources -> SUBSET SUBSET Writes]
    BY <1>0, GraphType DEF Acknowledges
  <2>2. [graph |-> graph, shown |-> shown]' \in Snapshots
    BY <2>1, SnapshotType
  <2>3. ctx' \in [Resources -> CtxType]
    BY <1>0, CtxTypes DEF Acknowledges, TypeOK, CtxType
  <2> QED
    BY <1>0, <2>2, <2>3 DEF Acknowledges, Tops, TypeOK, CtxType
<1> QED
  BY <1>1, <1>2, <1>3 DEF Structure

LEMMA EndsStructure ==
  ASSUME Structure, NEW t \in Threads, Ends(t),
         graph' \in [Resources -> SUBSET Writes],
         shown' \in [Resources -> SUBSET SUBSET Writes],
         committed' \in Snapshots,
         {done, failed, refused}' \subseteq SUBSET Writes
  PROVE  Structure'
<1>0. TypeOK /\ Top(t).r \in Resources
  BY BelowType DEF Structure, Ends, Frames
<1>1. LevelCounts' /\ level' \in Nat
  BY PopsLevel DEF Structure, Ends
<1>2. OneOutermost' /\ ContextsMatch'
  BY PopsContexts DEF Structure, Ends
<1>3. TypeOK'
  <2>1. [graph |-> graph, shown |-> shown]' \in Snapshots
    BY SnapshotType
  <2>2. NoCtx \in CtxType
    BY DEF NoCtx, CtxType
  <2>3. ctx' \in [Resources -> CtxType]
    BY <1>0, <2>2 DEF Ends, TypeOK, CtxType
  <2> QED
    BY <1>0, <1>1, <2>1, <2>3 DEF Ends, Pops, TypeOK, CtxType
<1> QED
  BY <1>1, <1>2, <1>3 DEF Structure

LEMMA LeaveStructure ==
  ASSUME Structure, NEW t \in Threads, Leave(t)
  PROVE  Structure'
<1>1. Ends(t) /\ TypeOK /\ Top(t) \in Frames
  BY LeaveMoves, BelowType DEF Structure, Ends
<1>2. shown' \in [Resources -> SUBSET SUBSET Writes] /\ graph' \in [Resources -> SUBSET Writes]
  BY <1>1, GraphType DEF Leave, Commit, Show, Frames
<1>3. committed' \in Snapshots
  BY <1>1, <1>2, GraphType, SnapshotType DEF Leave, Commit, TypeOK
<1>4. {done, failed, refused}' \subseteq SUBSET Writes
  BY <1>1 DEF Leave, TypeOK, Frames
<1> QED
  BY <1>1, <1>2, <1>3, <1>4, EndsStructure

LEMMA LeaveRaisingStructure ==
  ASSUME Structure, NEW t \in Threads, LeaveRaising(t)
  PROVE  Structure'
<1>1. Ends(t) /\ TypeOK /\ Top(t) \in Frames
  BY LeaveRaisingMoves, BelowType DEF Structure, Ends
<1>2. Show(Top(t)) \in [Resources -> SUBSET SUBSET Writes]
  BY <1>1, GraphType DEF Show, Frames
<1>3. shown' \in [Resources -> SUBSET SUBSET Writes] /\ graph' \in [Resources -> SUBSET Writes]
  BY <1>1, <1>2, GraphType DEF LeaveRaising, Rollback
<1>4. committed' \in Snapshots
  BY <1>1 DEF LeaveRaising, Rollback, TypeOK
<1>5. {done, failed, refused}' \subseteq SUBSET Writes
  BY <1>1 DEF LeaveRaising, TypeOK, Frames
<1> QED
  BY <1>1, <1>3, <1>4, <1>5, EndsStructure

\* A step that changes nothing but whether t raises.
LEMMA RaisingStructure ==
  ASSUME Structure, NEW t \in Threads, NEW b \in BOOLEAN,
         raising' = [raising EXCEPT ![t] = b],
         UNCHANGED <<aware, graph, shown, committed, level, ctx, stack, done, failed, refused>>
  PROVE  Structure'
<1>1. TypeOK'
  BY DEF Structure, TypeOK, Snapshots
<1>2. LevelCounts'
  BY DEF Structure, LevelCounts, Places, Ctxs
<1>3. OneOutermost' /\ ContextsMatch'
  BY DEF Structure, OneOutermost, ContextsMatch, Ctxs
<1> QED
  BY <1>1, <1>2, <1>3 DEF Structure

LEMMA NextStructure == Structure /\ [Next]_vars => Structure'
<1> SUFFICES ASSUME Structure, [Next]_vars PROVE Structure'
  OBVIOUS
<1>1. CASE UNCHANGED vars
  BY <1>1 DEF vars, Structure, TypeOK, LevelCounts, Places, OneOutermost, ContextsMatch, Ctxs,
              Snapshots
<1>2. ASSUME NEW t \in Threads, Raises(t) PROVE Structure'
  BY <1>2, RaisingStructure DEF Raises
<1>3. ASSUME NEW t \in Threads, Catch(t) PROVE Structure'
  BY <1>3, RaisingStructure DEF Catch
<1> QED
  BY <1>1, <1>2, <1>3, Moves, EntersStructure, WritingStructure, AcknowledgesStructure,
     LeaveStructure, LeaveRaisingStructure DEF Next

\* _context_level counts the contexts that are open, and each resource has one
\* outermost context, which _edit_context describes (local.py:225-283, 800-910).
THEOREM StructureCorrect == Spec => []Structure
  BY InitStructure, NextStructure, PTL DEF Spec

\* The type invariant; among others, _context_level never becomes negative.
THEOREM TypeCorrect == Spec => []TypeOK
<1>1. Structure => TypeOK
  BY DEF Structure
<1> QED
  BY StructureCorrect, <1>1, PTL

\* _edit_context of a resource is set exactly as long as a thread has an
\* outermost context open on it, and is what that context has put there, whatever
\* was raised and wherever it was caught.
THEOREM ContextsCorrect == Spec => []ContextAgrees
<1>1. ASSUME Structure PROVE ContextAgrees
  <2> SUFFICES ASSUME NEW r \in Resources
               PROVE  ctx[r].open <=>
                        \E t \in Threads : \E f \in Opened(t) :
                          f.r = r /\ f.outermost /\ ctx[r] = Ctx(f.trusted \/ f.acking, f.param)
    BY DEF ContextAgrees
  <2>0. \A t \in Threads : Opened(t) = {stack[t][k] : k \in Ctxs(t)}
    BY <1>1, StackType DEF Structure
  <2>1. ASSUME ctx[r].open
        PROVE  \E t \in Threads : \E f \in Opened(t) :
                 f.r = r /\ f.outermost /\ ctx[r] = Ctx(f.trusted \/ f.acking, f.param)
    <3>1. PICK t \in Threads : \E k \in Ctxs(t) : stack[t][k].r = r /\ stack[t][k].outermost
      BY <1>1, <2>1 DEF Structure, ContextsMatch
    <3>2. PICK k \in Ctxs(t) : stack[t][k].r = r /\ stack[t][k].outermost
      BY <3>1
    <3>3. ctx[r] = Ctx(stack[t][k].trusted \/ stack[t][k].acking, stack[t][k].param)
      BY <1>1, <3>2 DEF Structure, ContextsMatch
    <3> QED
      BY <2>0, <3>2, <3>3
  <2>2. ASSUME NEW t \in Threads, NEW f \in Opened(t), f.r = r PROVE ctx[r].open
    BY <1>1, <2>0, <2>2 DEF Structure, ContextsMatch
  <2> QED
    BY <2>1, <2>2
<1> QED
  BY StructureCorrect, <1>1, PTL

----------------------------------------------------------------------------
(* The ledger *)

LEMMA InitLedger == Init => Ledger
<1> SUFFICES ASSUME Init PROVE Ledger
  OBVIOUS
<1>1. \A t \in Threads : Ctxs(t) = {}
  BY DEF Init, Ctxs
<1>2. WritesHaveOneOwner /\ RefusedFails
  BY <1>1 DEF Init, WritesHaveOneOwner, RefusedFails
<1>3. Transactional
  BY <1>1 DEF Init, Transactional
<1>4. CopiesApart
  BY <1>1 DEF Init, CopiesApart
<1> QED
  BY <1>2, <1>3, <1>4 DEF Ledger

\* In a transaction, the service is at level 1 when its one thread is.
LEMMA LevelOne ==
  ASSUME Structure, Transactional, aware, NEW t \in Threads, stack[t] # <<>>
  PROVE  level = 1 <=> Len(stack[t]) = 1
<1> DEFINE n == Len(stack[t])
<1>0. n \in Nat \ {0}
  BY BelowType DEF Structure
<1>1. \A u \in Threads \ {t} : Ctxs(u) = {}
  BY StackType DEF Transactional, Ctxs, Structure
<1>2. Places = {t} \X (1 .. n)
  BY <1>1 DEF Places, Ctxs
<1> HIDE DEF n
<1>3. ASSUME n = 1 PROVE level = 1
  <2>1. Places = {<<t, 1>>}
    BY <1>2, <1>3
  <2> QED
    BY <2>1, FS_Singleton DEF Structure, LevelCounts
<1>4. ASSUME level = 1 PROVE n = 1
  <2>1. PICK p : Places = {p}
    BY <1>4, FS_Singleton DEF Structure, LevelCounts
  <2>2. <<t, 1>> \in Places /\ <<t, n>> \in Places
    BY <1>0, <1>2
  <2> QED
    BY <2>1, <2>2
<1> QED
  BY <1>3, <1>4 DEF n

LEMMA EntersLedger ==
  ASSUME ~Interleaved, Structure, Ledger, NEW t \in Threads, NEW f \in Frames, Enters(t, f)
  PROVE  Ledger'
<1>n. PICK n : n = Len(stack[t])
  OBVIOUS
<1>0. n \in Nat /\ f.r \in Resources /\ TypeOK
  BY <1>n, StackType DEF Frames, Structure
<1>1. /\ \A u \in Threads \ {t} : Ctxs(u)' = Ctxs(u) /\ stack'[u] = stack[u]
      /\ Ctxs(t)' = Ctxs(t) \cup {n + 1} /\ n + 1 \notin Ctxs(t)
      /\ \A k \in Ctxs(t) : stack'[t][k] = stack[t][k]
      /\ stack'[t][n + 1] = f
  BY <1>n, <1>0 DEF Enters, Pushes, Ctxs
<1>2. /\ \A u \in Threads : \A k \in Ctxs(u) : k \in Ctxs(u)' /\ Mine(u, k)' = Mine(u, k)
      /\ Mine(t, n + 1)' = {}
      /\ \A u \in Threads : \A k \in Ctxs(u)' : k \in Ctxs(u) \/ (u = t /\ k = n + 1)
  <2>1. \A u \in Threads : \A k \in Ctxs(u) : k \in Ctxs(u)' /\ stack'[u][k] = stack[u][k]
    BY <1>1
  <2>2. \A u \in Threads : \A k \in Ctxs(u) : Mine(u, k)' = Mine(u, k)
    BY <2>1 DEF Mine
  <2>3. Mine(t, n + 1)' = {}
    <3>1. f.own = {} /\ f.sub = {}
      BY DEF Enters
    <3> QED
      BY <1>1, <3>1 DEF Mine
  <2>4. \A u \in Threads : \A k \in Ctxs(u)' : k \in Ctxs(u) \/ (u = t /\ k = n + 1)
    BY <1>1
  <2> QED
    BY <2>1, <2>2, <2>3, <2>4
<1>3. UNCHANGED <<aware, committed, raising, done, failed, refused>>
  BY DEF Enters
<1>4. \A r \in Resources : graph'[r] \subseteq graph[r] /\ (~aware => graph'[r] = graph[r])
  BY <1>0, GraphType DEF Enters
<1>5. WritesHaveOneOwner'
  <2>1. done' \cap failed' = {}
    BY <1>3 DEF Ledger, WritesHaveOneOwner
  <2>2. \A u \in Threads : \A k \in Ctxs(u)' : Mine(u, k)' \cap (done' \cup failed') = {}
    BY <1>2, <1>3 DEF Ledger, WritesHaveOneOwner
  <2>3. ASSUME NEW u \in Threads, NEW v \in Threads, NEW k \in Ctxs(u)', NEW l \in Ctxs(v)',
               u # v \/ k # l
        PROVE  Mine(u, k)' \cap Mine(v, l)' = {}
    <3>1. CASE (u = t /\ k = n + 1) \/ (v = t /\ l = n + 1)
      BY <1>2, <3>1
    <3>2. CASE k \in Ctxs(u) /\ l \in Ctxs(v)
      BY <1>2, <2>3, <3>2 DEF Ledger, WritesHaveOneOwner
    <3> QED
      BY <1>2, <3>1, <3>2
  <2> QED
    BY <2>1, <2>2, <2>3 DEF WritesHaveOneOwner
<1>6. RefusedFails'
  BY <1>2, <1>3 DEF Ledger, RefusedFails
<1>7. Transactional'
  <2>1. aware => \A u \in Threads \ {t} : stack[u] = <<>>
    BY DEF Enters, MayEnter
  <2> QED
    BY <1>1, <1>2, <1>3, <1>4, <2>1 DEF Ledger, Transactional
<1>8. CopiesApart'
  <2> SUFFICES ASSUME ~aware PROVE CopiesApart'
    BY <1>3 DEF CopiesApart
  <2>1. f.own = {} /\ f.copy \subseteq graph[f.r]
    BY DEF Enters
  <2>2. \A u \in Threads : \A k \in Ctxs(u) : stack'[u][k] = stack[u][k]
    BY <1>1
  <2> QED
    BY <1>0, <1>1, <1>2, <1>3, <1>4, <2>1, <2>2 DEF Ledger, CopiesApart
<1> QED
  BY <1>5, <1>6, <1>7, <1>8 DEF Ledger

\* A write made now is nowhere yet.
LEMMA FreshWrite ==
  ASSUME Structure, Ledger, NEW w \in Writes, w \notin Written
  PROVE  /\ w \notin done \cup failed \cup refused
         /\ \A r \in Resources : w \notin graph[r]
         /\ \A u \in Threads : \A k \in Ctxs(u) : w \notin Mine(u, k) /\ w \notin stack[u][k].copy
<1>1. \A u \in Threads : Opened(u) = {stack[u][k] : k \in Ctxs(u)}
  BY StackType DEF Structure
<1>2. \A u \in Threads : \A k \in Ctxs(u) : w \notin Mine(u, k) /\ w \notin stack[u][k].copy
  <2> SUFFICES ASSUME NEW u \in Threads, NEW k \in Ctxs(u)
               PROVE  w \notin Mine(u, k) /\ w \notin stack[u][k].copy
    OBVIOUS
  <2>1. stack[u][k] \in UNION {Opened(v) : v \in Threads}
    BY <1>1
  <2>2. w \notin stack[u][k].own \cup stack[u][k].sub \cup stack[u][k].copy
    <3> DEFINE F == UNION {Opened(v) : v \in Threads}
    <3>1. w \notin UNION {f.own \cup f.sub \cup f.copy : f \in F}
      BY DEF Written
    <3>2. stack[u][k] \in F
      BY <2>1
    <3> HIDE DEF F
    <3>3. PICK f \in F : f = stack[u][k]
      BY <3>2
    <3>4. f.own \cup f.sub \cup f.copy \in {e.own \cup e.sub \cup e.copy : e \in F}
      BY Zenon
    <3>5. w \notin f.own \cup f.sub \cup f.copy
      BY <3>1, <3>4, Zenon
    <3> QED
      BY <3>3, <3>5
  <2> QED
    BY <2>2 DEF Mine
<1>3. w \notin done \cup failed /\ \A r \in Resources : w \notin graph[r]
  <2> DEFINE F == UNION {f.own \cup f.sub \cup f.copy : f \in UNION {Opened(v) : v \in Threads}}
  <2>1. w \notin (UNION {graph[r] : r \in Resources}) \cup done \cup failed \cup F
    BY DEF Written
  <2> HIDE DEF F
  <2>2. w \notin UNION {graph[r] : r \in Resources} /\ w \notin done \cup failed
    BY <2>1
  <2>3. ASSUME NEW r \in Resources PROVE w \notin graph[r]
    <3>1. graph[r] \in {graph[s] : s \in Resources}
      BY Zenon
    <3> QED
      BY <2>2, <3>1, Zenon
  <2> QED
    BY <2>2, <2>3
<1> QED
  BY <1>2, <1>3 DEF Ledger, RefusedFails

LEMMA WritingLedger ==
  ASSUME Structure, Ledger, NEW t \in Threads, NEW w \in Writes, NEW g \in Frames, Writing(t, w, g)
  PROVE  Ledger'
<1>n. PICK n : n = Len(stack[t])
  OBVIOUS
<1>0. /\ n \in Nat \ {0} /\ n \in Ctxs(t) /\ Top(t) = stack[t][n] /\ Top(t) \in Frames
      /\ g.r \in Resources /\ TypeOK
  BY <1>n, BelowType DEF Writing, Frames, Structure
<1>1. /\ \A u \in Threads : Ctxs(u)' = Ctxs(u)
      /\ \A u \in Threads : \A k \in Ctxs(u) : (u # t \/ k # n) => stack'[u][k] = stack[u][k]
      /\ stack'[t][n] = g
  BY <1>n, <1>0 DEF Writing, Tops, Ctxs
<1>2. /\ \A u \in Threads : \A k \in Ctxs(u) : (u # t \/ k # n) => Mine(u, k)' = Mine(u, k)
      /\ Mine(t, n)' = Mine(t, n) \cup {w}
  <2>1. \A u \in Threads : \A k \in Ctxs(u) : (u # t \/ k # n) => Mine(u, k)' = Mine(u, k)
    BY <1>1 DEF Mine
  <2>2. g.own = stack[t][n].own \cup {w} /\ g.sub = stack[t][n].sub
    BY <1>0 DEF Writing
  <2> QED
    BY <1>1, <2>1, <2>2 DEF Mine
<1>3. UNCHANGED <<aware, committed, raising, done, failed, refused>>
  BY DEF Writing
<1>4. /\ w \notin done \cup failed \cup refused
      /\ \A r \in Resources : w \notin graph[r]
      /\ \A u \in Threads : \A k \in Ctxs(u) : w \notin Mine(u, k) /\ w \notin stack[u][k].copy
  BY FreshWrite DEF Writing
<1>5. \A r \in Resources : \/ graph'[r] = graph[r]
                           \/ (aware \/ g.trusted) /\ graph'[r] = graph[r] \cup {w}
  BY <1>0, GraphType DEF Writing
<1>6. WritesHaveOneOwner'
  <2>1. done' \cap failed' = {}
    BY <1>3 DEF Ledger, WritesHaveOneOwner
  <2>2. \A u \in Threads : \A k \in Ctxs(u)' : Mine(u, k)' \cap (done' \cup failed') = {}
    BY <1>1, <1>2, <1>3, <1>4 DEF Ledger, WritesHaveOneOwner
  <2>3. ASSUME NEW u \in Threads, NEW v \in Threads, NEW k \in Ctxs(u)', NEW l \in Ctxs(v)',
               u # v \/ k # l
        PROVE  Mine(u, k)' \cap Mine(v, l)' = {}
    <3>1. k \in Ctxs(u) /\ l \in Ctxs(v)
      BY <1>1
    <3>2. Mine(u, k) \cap Mine(v, l) = {} /\ w \notin Mine(u, k) /\ w \notin Mine(v, l)
      BY <1>4, <2>3, <3>1 DEF Ledger, WritesHaveOneOwner
    <3> QED
      BY <1>2, <2>3, <3>1, <3>2
  <2> QED
    BY <2>1, <2>2, <2>3 DEF WritesHaveOneOwner
<1>7. \A u \in Threads : \A k \in Ctxs(u) : Mine(u, k) \subseteq Mine(u, k)'
  BY <1>2
<1>8. RefusedFails'
  BY <1>1, <1>3, <1>7 DEF Ledger, RefusedFails
<1>9. Transactional'
  <2> SUFFICES ASSUME aware PROVE Transactional'
    BY <1>3 DEF Transactional
  <2>1. \A u \in Threads : stack'[u] # <<>> => stack[u] # <<>>
    <3>1. stack[t] # <<>> /\ \A u \in Threads \ {t} : stack'[u] = stack[u]
      BY DEF Writing, Tops
    <3> QED
      BY <3>1
  <2>2. \A u, v \in Threads : stack'[u] # <<>> /\ stack'[v] # <<>> => u = v
    BY <2>1 DEF Ledger, Transactional
  <2>3. \A r \in Resources : committed'.graph[r] \subseteq done'
    BY <1>3 DEF Ledger, Transactional
  <2>4. ASSUME NEW r \in Resources, NEW x \in graph'[r]
        PROVE  x \in done' \/ \E u \in Threads : \E k \in Ctxs(u)' : x \in Mine(u, k)'
    <3>1. CASE x = w
      BY <1>0, <1>1, <1>2, <3>1
    <3>2. CASE x \in graph[r]
      BY <1>1, <1>3, <1>7, <3>2 DEF Ledger, Transactional
    <3> QED
      BY <1>5, <3>1, <3>2
  <2> QED
    BY <2>2, <2>3, <2>4 DEF Transactional
<1>10. CopiesApart'
  <2> SUFFICES ASSUME ~aware PROVE CopiesApart'
    BY <1>3 DEF CopiesApart
  <2>1. \A r \in Resources : graph'[r] \cap refused' = {}
    BY <1>3, <1>4, <1>5 DEF Ledger, CopiesApart
  <2>2. \A u \in Threads : \A k \in Ctxs(u) :
          /\ stack'[u][k].copy \subseteq stack[u][k].copy \cup {w}
          /\ (u # t \/ k # n) => stack'[u][k].copy = stack[u][k].copy
    BY <1>0, <1>1 DEF Writing
  <2>3. \A u \in Threads : \A k \in Ctxs(u) :
          /\ stack'[u][k].own \subseteq stack[u][k].own \cup {w}
          /\ (u # t \/ k # n) => stack'[u][k].own = stack[u][k].own
          /\ stack'[u][k].trusted = stack[u][k].trusted
          /\ stack'[u][k].acking = stack[u][k].acking
    <3>1. g.acking = Top(t).acking
      BY <1>0 DEF Writing, Frames
    <3> QED
      BY <1>0, <1>1, <3>1 DEF Writing
  <2>4. ASSUME NEW u \in Threads, NEW k \in Ctxs(u)
        PROVE  LET f == stack'[u][k]
               IN  /\ f.copy \cap refused' = {}
                   /\ ~f.trusted /\ ~f.acking =>
                        /\ \A r \in Resources : graph'[r] \cap f.own = {}
                        /\ \A v \in Threads : \A l \in Ctxs(v) :
                             (u # v \/ k # l) => stack'[v][l].copy \cap f.own = {}
    <3>1. stack'[u][k].copy \cap refused' = {}
      BY <1>3, <1>4, <2>2 DEF Ledger, CopiesApart
    <3> SUFFICES ASSUME ~stack'[u][k].trusted, ~stack'[u][k].acking
                 PROVE  LET f == stack'[u][k]
                        IN  /\ \A r \in Resources : graph'[r] \cap f.own = {}
                            /\ \A v \in Threads : \A l \in Ctxs(v) :
                                 (u # v \/ k # l) => stack'[v][l].copy \cap f.own = {}
      BY <3>1
    <3>2. /\ \A r \in Resources : graph[r] \cap stack[u][k].own = {}
          /\ \A v \in Threads : \A l \in Ctxs(v) :
               (u # v \/ k # l) => stack[v][l].copy \cap stack[u][k].own = {}
      BY <2>3 DEF Ledger, CopiesApart
    <3>3. CASE u = t /\ k = n
      <4>1. \A r \in Resources : graph'[r] = graph[r]
        BY <1>1, <1>5, <3>3
      <4> QED
        BY <1>4, <2>2, <2>3, <3>2, <3>3, <4>1
    <3>4. CASE u # t \/ k # n
      <4>1. stack'[u][k].own = stack[u][k].own /\ w \notin stack[u][k].own
        BY <1>4, <2>3, <3>4 DEF Mine
      <4> QED
        BY <1>5, <2>2, <3>2, <4>1
    <3> QED
      BY <3>3, <3>4
  <2> QED
    BY <1>1, <2>1, <2>4 DEF CopiesApart
<1> QED
  BY <1>6, <1>8, <1>9, <1>10 DEF Ledger

LEMMA AcknowledgesLedger ==
  ASSUME Structure, Ledger, NEW t \in Threads, NEW g \in Frames, Acknowledges(t, g)
  PROVE  Ledger'
<1>n. PICK n : n = Len(stack[t])
  OBVIOUS
<1>0. /\ n \in Nat \ {0} /\ n \in Ctxs(t) /\ Top(t) = stack[t][n] /\ Top(t) \in Frames
      /\ g.r \in Resources /\ TypeOK
  BY <1>n, BelowType DEF Acknowledges, Frames, Structure
<1>1. /\ \A u \in Threads : Ctxs(u)' = Ctxs(u)
      /\ \A u \in Threads : \A k \in Ctxs(u) : (u # t \/ k # n) => stack'[u][k] = stack[u][k]
      /\ stack'[t][n] = g
  <2>1. Tops(t, g)
    BY DEF Acknowledges
  <2> QED
    BY <1>n, <1>0, <2>1 DEF Tops, Ctxs
<1>2. \A u \in Threads : \A k \in Ctxs(u) :
        /\ stack'[u][k].copy = stack[u][k].copy
        /\ stack'[u][k].own = stack[u][k].own
        /\ stack'[u][k].sub = stack[u][k].sub
        /\ stack'[u][k].trusted = stack[u][k].trusted
  BY <1>0, <1>1 DEF Acknowledges
<1>3. \A u \in Threads : \A k \in Ctxs(u) : Mine(u, k)' = Mine(u, k)
  BY <1>2 DEF Mine
<1>4. UNCHANGED <<aware, committed, raising, done, failed, refused>>
  BY DEF Acknowledges
<1>5. WritesHaveOneOwner'
  BY <1>1, <1>3, <1>4 DEF Ledger, WritesHaveOneOwner
<1>6. RefusedFails'
  BY <1>1, <1>3, <1>4 DEF Ledger, RefusedFails
<1>7. Transactional'
  <2> SUFFICES ASSUME aware PROVE Transactional'
    BY <1>4 DEF Transactional
  <2>1. \A u \in Threads : stack'[u] # <<>> => stack[u] # <<>>
    <3>1. stack[t] # <<>> /\ \A u \in Threads \ {t} : stack'[u] = stack[u]
      BY DEF Acknowledges, Tops
    <3> QED
      BY <3>1
  <2>2. graph' = graph
    BY DEF Acknowledges
  <2> QED
    BY <1>1, <1>3, <1>4, <2>1, <2>2 DEF Ledger, Transactional
<1>8. CopiesApart'
  <2> SUFFICES ASSUME ~aware PROVE CopiesApart'
    BY <1>4 DEF CopiesApart
  <2>1. \A r \in Resources : graph'[r] = graph[r] \/ (~g.trusted /\ graph'[r] = stack[t][n].copy)
    BY <1>0, GraphType DEF Acknowledges
  <2>2. \A r \in Resources : graph'[r] \cap refused' = {}
    BY <1>0, <1>4, <2>1 DEF Ledger, CopiesApart
  <2>3. ASSUME NEW u \in Threads, NEW k \in Ctxs(u), ~stack'[u][k].trusted, ~stack'[u][k].acking
        PROVE  /\ u # t \/ k # n
               /\ ~stack[u][k].trusted /\ ~stack[u][k].acking
    <3>1. u # t \/ k # n
      BY <1>1, <2>3 DEF Acknowledges
    <3> QED
      BY <1>1, <2>3, <3>1
  <2>4. ASSUME NEW u \in Threads, NEW k \in Ctxs(u)
        PROVE  LET f == stack'[u][k]
               IN  /\ f.copy \cap refused' = {}
                   /\ ~f.trusted /\ ~f.acking =>
                        /\ \A r \in Resources : graph'[r] \cap f.own = {}
                        /\ \A v \in Threads : \A l \in Ctxs(v) :
                             (u # v \/ k # l) => stack'[v][l].copy \cap f.own = {}
    <3>1. stack'[u][k].copy \cap refused' = {}
      BY <1>2, <1>4 DEF Ledger, CopiesApart
    <3>2. ASSUME ~stack'[u][k].trusted, ~stack'[u][k].acking
          PROVE  /\ \A r \in Resources : graph'[r] \cap stack'[u][k].own = {}
                 /\ \A v \in Threads : \A l \in Ctxs(v) :
                      (u # v \/ k # l) => stack'[v][l].copy \cap stack'[u][k].own = {}
      BY <1>0, <1>2, <2>1, <2>3, <3>2 DEF Ledger, CopiesApart
    <3> QED
      BY <3>1, <3>2
  <2> QED
    BY <1>1, <2>2, <2>4 DEF CopiesApart
<1> QED
  BY <1>5, <1>6, <1>7, <1>8 DEF Ledger

\* A context that ends leaves its writes to the one around it; those of the
\* first one are done, or have failed.
LEMMA EndsWrites ==
  ASSUME Structure, WritesHaveOneOwner, NEW t \in Threads, Ends(t),
         IF Len(stack[t]) = 1
         THEN \/ done' = done \cup Mine(t, 1) /\ UNCHANGED failed
              \/ failed' = failed \cup Mine(t, 1) /\ UNCHANGED done
         ELSE UNCHANGED <<done, failed>>
  PROVE  /\ WritesHaveOneOwner'
         /\ \A u \in Threads : \A k \in Ctxs(u)' :
              /\ k \in Ctxs(u) /\ (u # t \/ k # Len(stack[t]))
              /\ SameContext(stack'[u][k], stack[u][k])
         /\ \A u \in Threads : \A k \in Ctxs(u) : \A w \in Mine(u, k) :
              (u = t /\ Len(stack[t]) = 1) \/ \E l \in Ctxs(u)' : w \in Mine(u, l)'
<1>n. PICK n : n = Len(stack[t])
  OBVIOUS
<1>0. n \in Nat \ {0} /\ n \in Ctxs(t) /\ TypeOK
  BY <1>n, BelowType DEF Ends, Structure
<1>1. /\ \A u \in Threads \ {t} : Ctxs(u)' = Ctxs(u) /\ stack'[u] = stack[u]
      /\ Ctxs(t)' = Ctxs(t) \ {n} /\ Ctxs(t) = 1 .. n
      /\ \A k \in Ctxs(t)' :
           /\ SameContext(stack'[t][k], stack[t][k])
           /\ stack'[t][k].sub = IF k = n - 1 THEN stack[t][k].sub \cup Mine(t, n)
                                 ELSE stack[t][k].sub
  <2>1. Pops(t)
    BY DEF Ends
  <2>2. /\ \A u \in Threads \ {t} : Ctxs(u)' = Ctxs(u) /\ stack'[u] = stack[u]
        /\ Ctxs(t)' = 1 .. n - 1 /\ Ctxs(t) = 1 .. n
    BY <1>n, <1>0, <2>1 DEF Pops, Ctxs
  <2>3. Ctxs(t)' = Ctxs(t) \ {n}
    BY <1>0, <2>2
  <2>4. \A k \in 1 .. n - 1 :
          /\ SameContext(stack'[t][k], stack[t][k])
          /\ stack'[t][k].sub = IF k = n - 1 THEN stack[t][k].sub \cup Mine(t, n)
                                ELSE stack[t][k].sub
    BY <1>n, <2>1 DEF Pops
  <2> QED
    BY <2>2, <2>3, <2>4
<1>2. /\ \A u \in Threads \ {t} : \A k \in Ctxs(u) : Mine(u, k)' = Mine(u, k)
      /\ \A k \in Ctxs(t)' : Mine(t, k)' = IF k = n - 1 THEN Mine(t, k) \cup Mine(t, n)
                                           ELSE Mine(t, k)
  <2>1. \A u \in Threads \ {t} : \A k \in Ctxs(u) : Mine(u, k)' = Mine(u, k)
    BY <1>1 DEF Mine
  <2>2. \A k \in Ctxs(t)' : Mine(t, k)' = IF k = n - 1 THEN Mine(t, k) \cup Mine(t, n)
                                          ELSE Mine(t, k)
    BY <1>1 DEF Mine, SameContext
  <2> QED
    BY <2>1, <2>2
<1>3. \A u \in Threads : \A k \in Ctxs(u)' :
        /\ k \in Ctxs(u) /\ (u # t \/ k # n)
        /\ Mine(u, k)' = IF u = t /\ k = n - 1 THEN Mine(u, k) \cup Mine(t, n) ELSE Mine(u, k)
  BY <1>1, <1>2
<1>4. WritesHaveOneOwner'
  <2>1. /\ done \cap failed = {}
        /\ \A u \in Threads : \A k \in Ctxs(u) : Mine(u, k) \cap (done \cup failed) = {}
        /\ \A u, v \in Threads : \A k \in Ctxs(u), l \in Ctxs(v) :
             (u # v \/ k # l) => Mine(u, k) \cap Mine(v, l) = {}
    BY DEF WritesHaveOneOwner
  <2>2. done' \cap failed' = {}
    BY <1>n, <1>0, <2>1
  <2>3. ASSUME NEW u \in Threads, NEW k \in Ctxs(u)'
        PROVE  Mine(u, k)' \cap (done' \cup failed') = {}
    <3>1. CASE n = 1
      <4>1. u # t /\ k \in Ctxs(u) /\ Mine(u, k)' = Mine(u, k)
        BY <1>1, <1>3, <3>1
      <4>2. done' \cup failed' = done \cup failed \cup Mine(t, 1)
        BY <1>n, <3>1
      <4> QED
        BY <1>0, <2>1, <3>1, <4>1, <4>2
    <3>2. CASE n # 1
      <4>1. done' = done /\ failed' = failed /\ k \in Ctxs(u)
        BY <1>n, <1>3, <3>2
      <4>2. Mine(u, k)' \subseteq Mine(u, k) \cup Mine(t, n)
        BY <1>3
      <4>3. Mine(u, k) \cap (done \cup failed) = {} /\ Mine(t, n) \cap (done \cup failed) = {}
        BY <1>0, <2>1, <4>1
      <4> QED
        BY <4>1, <4>2, <4>3
    <3> QED
      BY <3>1, <3>2
  <2>4. ASSUME NEW u \in Threads, NEW v \in Threads, NEW k \in Ctxs(u)', NEW l \in Ctxs(v)',
               u # v \/ k # l
        PROVE  Mine(u, k)' \cap Mine(v, l)' = {}
    <3>1. /\ k \in Ctxs(u) /\ (u # t \/ k # n) /\ l \in Ctxs(v) /\ (v # t \/ l # n)
      BY <1>3
    <3>2. /\ Mine(u, k) \cap Mine(v, l) = {} /\ Mine(u, k) \cap Mine(t, n) = {}
          /\ Mine(t, n) \cap Mine(v, l) = {}
      BY <1>0, <2>1, <2>4, <3>1
    <3> QED
      BY <1>3, <2>4, <3>2
  <2> QED
    BY <2>2, <2>3, <2>4 DEF WritesHaveOneOwner
<1>5. ASSUME NEW u \in Threads, NEW k \in Ctxs(u)' PROVE SameContext(stack'[u][k], stack[u][k])
  <2>1. CASE u = t
    BY <1>1, <2>1
  <2>2. CASE u # t
    <3>1. stack'[u][k] = stack[u][k]
      BY <1>1, <2>2
    <3> QED
      BY <3>1 DEF SameContext
  <2> QED
    BY <2>1, <2>2
<1>6. ASSUME NEW u \in Threads, NEW k \in Ctxs(u), NEW w \in Mine(u, k), u # t \/ n # 1
      PROVE  \E l \in Ctxs(u)' : w \in Mine(u, l)'
  <2>1. CASE u = t /\ k = n
    <3>1. n - 1 \in Ctxs(t)'
      BY <1>0, <1>1, <1>6, <2>1
    <3> QED
      BY <1>2, <2>1, <3>1
  <2>2. CASE u # t \/ k # n
    <3>1. k \in Ctxs(u)' /\ w \in Mine(u, k)'
      BY <1>1, <1>2, <2>2
    <3> QED
      BY <3>1
  <2> QED
    BY <2>1, <2>2
<1> QED
  BY <1>n, <1>3, <1>4, <1>5, <1>6

\* Contexts that remain, with the same graphs and copies, stay apart.
LEMMA EndsCopies ==
  ASSUME CopiesApart, ~aware, UNCHANGED <<aware, graph>>,
         \A u \in Threads : \A k \in Ctxs(u)' :
           /\ k \in Ctxs(u)
           /\ stack'[u][k].copy = stack[u][k].copy /\ stack'[u][k].own = stack[u][k].own
           /\ stack'[u][k].trusted = stack[u][k].trusted
           /\ stack'[u][k].acking = stack[u][k].acking
           /\ stack[u][k].copy \cap refused' = {},
         \A r \in Resources : graph[r] \cap refused' = {}
  PROVE  CopiesApart'
<1>1. ASSUME NEW u \in Threads, NEW k \in Ctxs(u)', ~stack'[u][k].trusted, ~stack'[u][k].acking
      PROVE  /\ \A r \in Resources : graph'[r] \cap stack'[u][k].own = {}
             /\ \A v \in Threads : \A l \in Ctxs(v)' :
                  (u # v \/ k # l) => stack'[v][l].copy \cap stack'[u][k].own = {}
  <2>1. /\ \A r \in Resources : graph[r] \cap stack[u][k].own = {}
        /\ \A v \in Threads : \A l \in Ctxs(v) :
             (u # v \/ k # l) => stack[v][l].copy \cap stack[u][k].own = {}
    BY <1>1 DEF CopiesApart
  <2>2. stack'[u][k].own = stack[u][k].own
    OBVIOUS
  <2>3. ASSUME NEW v \in Threads, NEW l \in Ctxs(v)', u # v \/ k # l
        PROVE  stack'[v][l].copy \cap stack'[u][k].own = {}
    BY <2>1, <2>2, <2>3
  <2> QED
    BY <2>1, <2>2, <2>3
<1>2. \A u \in Threads : \A k \in Ctxs(u)' : stack'[u][k].copy \cap refused' = {}
  OBVIOUS
<1> QED
  BY <1>1, <1>2 DEF CopiesApart

LEMMA LeaveLedger ==
  ASSUME Structure, Ledger, NEW t \in Threads, Leave(t)
  PROVE  Ledger'
<1>n. PICK n : n = Len(stack[t])
  OBVIOUS
<1>0. /\ Ends(t) /\ TypeOK /\ n \in Nat \ {0} /\ n \in Ctxs(t) /\ Ctxs(t) = 1 .. n
      /\ stack[t] # <<>> /\ ~raising[t] /\ raising' = raising /\ aware' = aware
      /\ failed' = failed /\ refused' = refused /\ graph' = graph
  BY <1>n, LeaveMoves, BelowType DEF Leave, Commit, Structure, Ctxs
<1>1. done' = IF n = 1 THEN done \cup Mine(t, 1) ELSE done
  <2>1. Top(t) = stack[t][n] /\ (Below(t) = <<>> <=> n = 1)
    BY <1>n, <1>0, LeaveMoves, BelowType
  <2> QED
    BY <2>1 DEF Leave, Mine
<1>2. /\ WritesHaveOneOwner'
      /\ \A u \in Threads : \A k \in Ctxs(u)' :
           /\ k \in Ctxs(u) /\ (u # t \/ k # n)
           /\ SameContext(stack'[u][k], stack[u][k])
      /\ \A u \in Threads : \A k \in Ctxs(u) : \A w \in Mine(u, k) :
           (u = t /\ n = 1) \/ \E l \in Ctxs(u)' : w \in Mine(u, l)'
  <2>1. WritesHaveOneOwner
    BY DEF Ledger
  <2> QED
    BY <1>n, <1>0, <1>1, <2>1, EndsWrites
<1>3. RefusedFails'
  <2> SUFFICES ASSUME NEW w \in refused
               PROVE  w \in failed \/ \E u \in Threads : raising[u] /\ \E l \in Ctxs(u)' : w \in Mine(u, l)'
    BY <1>0 DEF RefusedFails
  <2>1. CASE w \notin failed
    <3>1. PICK u \in Threads : raising[u] /\ \E k \in Ctxs(u) : w \in Mine(u, k)
      BY <2>1 DEF Ledger, RefusedFails
    <3> QED
      BY <1>0, <1>2, <3>1
  <2> QED
    BY <2>1
<1>4. Transactional'
  <2> SUFFICES ASSUME aware PROVE Transactional'
    BY <1>0 DEF Transactional
  <2>1. \A u, v \in Threads : stack'[u] # <<>> /\ stack'[v] # <<>> => u = v
    <3>1. \A u \in Threads : stack'[u] # <<>> => stack[u] # <<>>
      BY <1>0 DEF Ends, Pops
    <3> QED
      BY <3>1 DEF Ledger, Transactional
  <2>2. ASSUME NEW r \in Resources, NEW w \in graph[r]
        PROVE  \/ w \in done'
               \/ n # 1 /\ \E u \in Threads : \E l \in Ctxs(u)' : w \in Mine(u, l)'
    <3>1. CASE w \notin done
      <4>1. PICK u \in Threads : \E k \in Ctxs(u) : w \in Mine(u, k)
        BY <3>1 DEF Ledger, Transactional
      <4>2. PICK k \in Ctxs(u) : w \in Mine(u, k)
        BY <4>1
      <4>3. u = t
        <5>1. stack[u] # <<>>
          BY <1>0, <4>2, StackType DEF Ctxs
        <5> QED
          BY <1>0, <5>1 DEF Ledger, Transactional
      <4>4. CASE n = 1
        BY <1>0, <1>1, <4>2, <4>3, <4>4
      <4>5. CASE n # 1
        BY <1>2, <4>2, <4>5
      <4> QED
        BY <4>4, <4>5
    <3> QED
      BY <1>1, <3>1
  <2>3. ASSUME NEW r \in Resources PROVE committed'.graph[r] \subseteq done'
    <3>1. CASE level = 1
      <4>1. n = 1
        BY <1>n, <1>0, <3>1, LevelOne DEF Ledger
      <4>2. committed' = [graph |-> graph, shown |-> shown']
        BY <3>1 DEF Leave, Commit
      <4> QED
        BY <2>2, <4>1, <4>2
    <3>2. CASE level # 1
      <4>1. committed' = committed
        BY <3>2 DEF Leave, Commit
      <4> QED
        BY <1>1, <4>1 DEF Ledger, Transactional
    <3> QED
      BY <3>1, <3>2
  <2> QED
    BY <1>0, <2>1, <2>2, <2>3 DEF Transactional
<1>5. CopiesApart'
  <2> SUFFICES ASSUME ~aware PROVE CopiesApart'
    BY <1>0 DEF CopiesApart
  <2>1. \A u \in Threads : \A k \in Ctxs(u)' :
          /\ k \in Ctxs(u)
          /\ stack'[u][k].copy = stack[u][k].copy /\ stack'[u][k].own = stack[u][k].own
          /\ stack'[u][k].trusted = stack[u][k].trusted
          /\ stack'[u][k].acking = stack[u][k].acking
    BY <1>2 DEF SameContext
  <2>2. /\ \A r \in Resources : graph[r] \cap refused' = {}
        /\ \A u \in Threads : \A k \in Ctxs(u) : stack[u][k].copy \cap refused' = {}
    BY <1>0 DEF Ledger, CopiesApart
  <2>3. CopiesApart
    BY DEF Ledger
  <2> QED
    BY <1>0, <2>1, <2>2, <2>3, EndsCopies
<1> QED
  BY <1>2, <1>3, <1>4, <1>5 DEF Ledger

LEMMA LeaveRaisingLedger ==
  ASSUME Structure, Ledger, NEW t \in Threads, LeaveRaising(t)
  PROVE  Ledger'
<1>n. PICK n : n = Len(stack[t])
  OBVIOUS
<1>0. /\ Ends(t) /\ TypeOK /\ n \in Nat \ {0} /\ n \in Ctxs(t) /\ Ctxs(t) = 1 .. n
      /\ Top(t) = stack[t][n] /\ Top(t) \in Frames
      /\ stack[t] # <<>> /\ raising[t] /\ raising' = raising /\ aware' = aware
      /\ done' = done /\ committed' = committed
      /\ refused' = IF stack[t][n].trusted \/ stack[t][n].acking THEN refused
                    ELSE refused \cup stack[t][n].own
      /\ graph' = IF aware /\ level = 1 THEN committed.graph ELSE graph
  BY <1>n, LeaveRaisingMoves, BelowType DEF LeaveRaising, Rollback, Structure, Ctxs
<1>1. failed' = IF n = 1 THEN failed \cup Mine(t, 1) ELSE failed
  <2>1. Below(t) = <<>> <=> n = 1
    BY <1>n, LeaveRaisingMoves
  <2> QED
    BY <1>0, <2>1 DEF LeaveRaising, Mine
<1>2. /\ WritesHaveOneOwner'
      /\ \A u \in Threads : \A k \in Ctxs(u)' :
           /\ k \in Ctxs(u) /\ (u # t \/ k # n)
           /\ SameContext(stack'[u][k], stack[u][k])
      /\ \A u \in Threads : \A k \in Ctxs(u) : \A w \in Mine(u, k) :
           (u = t /\ n = 1) \/ \E l \in Ctxs(u)' : w \in Mine(u, l)'
  <2>1. WritesHaveOneOwner
    BY DEF Ledger
  <2> QED
    BY <1>n, <1>0, <1>1, <2>1, EndsWrites
<1>3. ASSUME NEW u \in Threads, NEW k \in Ctxs(u), NEW w \in Mine(u, k)
      PROVE  w \in failed' \/ \E l \in Ctxs(u)' : w \in Mine(u, l)'
  <2>1. CASE u = t /\ n = 1
    <3>1. k = 1
      BY <1>0, <2>1
    <3> QED
      BY <1>1, <2>1, <3>1
  <2>2. CASE ~(u = t /\ n = 1)
    BY <1>2, <2>2
  <2> QED
    BY <2>1, <2>2
<1>4. RefusedFails'
  <2> SUFFICES ASSUME NEW w \in refused'
               PROVE  w \in failed' \/ \E u \in Threads : raising[u] /\ \E l \in Ctxs(u)' : w \in Mine(u, l)'
    BY <1>0 DEF RefusedFails
  <2>1. w \in failed \/ \E u \in Threads : raising[u] /\ \E k \in Ctxs(u) : w \in Mine(u, k)
    <3>1. CASE w \in refused
      BY <3>1 DEF Ledger, RefusedFails
    <3>2. CASE w \in stack[t][n].own
      <4>1. w \in Mine(t, n)
        BY <3>2 DEF Mine
      <4> QED
        BY <1>0, <4>1
    <3> QED
      BY <1>0, <3>1, <3>2
  <2>2. CASE w \in failed
    BY <1>1, <2>2
  <2>3. CASE \E u \in Threads : raising[u] /\ \E k \in Ctxs(u) : w \in Mine(u, k)
    <3>1. PICK u \in Threads : raising[u] /\ \E k \in Ctxs(u) : w \in Mine(u, k)
      BY <2>3
    <3> QED
      BY <1>3, <3>1
  <2> QED
    BY <2>1, <2>2, <2>3
<1>5. Transactional'
  <2> SUFFICES ASSUME aware PROVE Transactional'
    BY <1>0 DEF Transactional
  <2>1. \A u, v \in Threads : stack'[u] # <<>> /\ stack'[v] # <<>> => u = v
    <3>1. \A u \in Threads : stack'[u] # <<>> => stack[u] # <<>>
      BY <1>0 DEF Ends, Pops
    <3> QED
      BY <3>1 DEF Ledger, Transactional
  <2>2. \A r \in Resources : committed'.graph[r] \subseteq done'
    BY <1>0 DEF Ledger, Transactional
  <2>3. ASSUME NEW r \in Resources, NEW w \in graph'[r]
        PROVE  w \in done' \/ \E u \in Threads : \E l \in Ctxs(u)' : w \in Mine(u, l)'
    <3>1. CASE level = 1
      BY <1>0, <2>2, <3>1
    <3>2. CASE level # 1
      <4>1. n # 1 /\ w \in graph[r]
        BY <1>n, <1>0, <3>2, LevelOne DEF Ledger
      <4> QED
        BY <1>0, <1>2, <4>1 DEF Ledger, Transactional
    <3> QED
      BY <3>1, <3>2
  <2> QED
    BY <1>0, <2>1, <2>2, <2>3 DEF Transactional
<1>6. CopiesApart'
  <2> SUFFICES ASSUME ~aware PROVE CopiesApart'
    BY <1>0 DEF CopiesApart
  <2>1. \A u \in Threads : \A k \in Ctxs(u)' :
          /\ k \in Ctxs(u) /\ (u # t \/ k # n)
          /\ stack'[u][k].copy = stack[u][k].copy /\ stack'[u][k].own = stack[u][k].own
          /\ stack'[u][k].trusted = stack[u][k].trusted
          /\ stack'[u][k].acking = stack[u][k].acking
    BY <1>2 DEF SameContext
  <2>2. /\ \A r \in Resources : graph[r] \cap refused' = {}
        /\ \A u \in Threads : \A k \in Ctxs(u) :
             (u # t \/ k # n) => stack[u][k].copy \cap refused' = {}
    <3>1. CASE refused' = refused
      BY <3>1 DEF Ledger, CopiesApart
    <3>2. CASE /\ ~stack[t][n].trusted /\ ~stack[t][n].acking
               /\ refused' = refused \cup stack[t][n].own
      <4>1. /\ \A r \in Resources : graph[r] \cap stack[t][n].own = {}
            /\ \A u \in Threads : \A k \in Ctxs(u) :
                 (u # t \/ k # n) => stack[u][k].copy \cap stack[t][n].own = {}
        BY <1>0, <3>2 DEF Ledger, CopiesApart
      <4> QED
        BY <3>2, <4>1 DEF Ledger, CopiesApart
    <3> QED
      BY <1>0, <3>1, <3>2
  <2>3. CopiesApart /\ UNCHANGED <<aware, graph>>
    BY <1>0 DEF Ledger
  <2>4. \A u \in Threads : \A k \in Ctxs(u)' :
          /\ k \in Ctxs(u)
          /\ stack'[u][k].copy = stack[u][k].copy /\ stack'[u][k].own = stack[u][k].own
          /\ stack'[u][k].trusted = stack[u][k].trusted
          /\ stack'[u][k].acking = stack[u][k].acking
          /\ stack[u][k].copy \cap refused' = {}
    BY <2>1, <2>2
  <2> QED
    BY <2>2, <2>3, <2>4, EndsCopies
<1> QED
  BY <1>2, <1>4, <1>5, <1>6 DEF Ledger

\* An exception is raised, or caught when all the contexts of t are closed.
LEMMA RaisingLedger ==
  ASSUME Structure, Ledger, NEW t \in Threads, NEW b \in BOOLEAN,
         raising' = [raising EXCEPT ![t] = b], b \/ stack[t] = <<>>,
         UNCHANGED <<aware, graph, shown, committed, level, ctx, stack, done, failed, refused>>
  PROVE  Ledger'
<1>1. \A u \in Threads : \A k \in Ctxs(u) : raising[u] => raising'[u]
  <2>1. stack[t] = <<>> => Ctxs(t) = {}
    BY StackType DEF Structure, Ctxs
  <2> QED
    BY <2>1 DEF Structure, TypeOK
<1>2. \A u \in Threads : Ctxs(u)' = Ctxs(u) /\ \A k : Mine(u, k)' = Mine(u, k)
  BY DEF Ctxs, Mine
<1>3. WritesHaveOneOwner' /\ RefusedFails'
  BY <1>1, <1>2 DEF Ledger, WritesHaveOneOwner, RefusedFails
<1>4. Transactional'
  BY <1>2 DEF Ledger, Transactional
<1>5. CopiesApart'
  BY <1>2 DEF Ledger, CopiesApart
<1> QED
  BY <1>3, <1>4, <1>5 DEF Ledger

LEMMA NextLedger ==
  ASSUME ~Interleaved, ~CaughtInside, Structure, Ledger, [Next]_vars
  PROVE  Ledger'
<1>1. CASE UNCHANGED vars
  BY <1>1 DEF vars, Ledger, WritesHaveOneOwner, RefusedFails, Transactional, CopiesApart, Ctxs, Mine
<1>2. ASSUME NEW t \in Threads, Raises(t) PROVE Ledger'
  BY <1>2, RaisingLedger DEF Raises
<1>3. ASSUME NEW t \in Threads, Catch(t) PROVE Ledger'
  BY <1>3, RaisingLedger DEF Catch
<1> QED
  BY <1>1, <1>2, <1>3, Moves, EntersLedger, WritingLedger, AcknowledgesLedger,
     LeaveLedger, LeaveRaisingLedger DEF Next

\* Every write is that of one open context, or has ended, or has failed; and what
\* has failed is in no graph that can be seen (edit, local.py:800-910, and
\* the contexts of the service, local.py:225-283).
THEOREM LedgerCorrect ==
  ASSUME ~Interleaved, ~CaughtInside
  PROVE  Spec => [](Structure /\ Ledger)
<1>1. Init => Structure /\ Ledger
  BY InitStructure, InitLedger
<1>2. Structure /\ Ledger /\ [Next]_vars => (Structure /\ Ledger)'
  BY NextStructure, NextLedger
<1> QED
  BY <1>1, <1>2, PTL DEF Spec

\* When all contexts are closed, all there is in a transaction aware store was
\* done, nothing that was done has failed, and what was refused has failed.
LEMMA QuietStore ==
  ASSUME Structure, Ledger, Quiet
  PROVE  /\ aware => \A r \in Resources : graph[r] \subseteq done
         /\ done \cap failed = {} /\ refused \subseteq failed
<1>1. \A t \in Threads : Ctxs(t) = {}
  BY StackType DEF Quiet, Structure, Ctxs
<1>2. aware => \A r \in Resources : graph[r] \subseteq done
  BY <1>1 DEF Ledger, Transactional
<1>3. done \cap failed = {} /\ refused \subseteq failed
  BY <1>1 DEF Ledger, WritesHaveOneOwner, RefusedFails
<1> QED
  BY <1>2, <1>3

\* What was written in an untrusted context that check_new_graph refused, or that
\* failed, is not in the graph, however contexts were nested on however many
\* resources: at any time without transactions, and when all is closed with them.
THEOREM RefusedCorrect ==
  ASSUME ~Interleaved, ~CaughtInside
  PROVE  Spec => []RefusedLeavesNoTrace
<1>1. ASSUME Structure, Ledger PROVE RefusedLeavesNoTrace
  <2>1. ASSUME ~aware PROVE \A r \in Resources : graph[r] \cap refused = {}
    BY <1>1, <2>1 DEF Ledger, CopiesApart
  <2>2. ASSUME aware, Quiet PROVE \A r \in Resources : graph[r] \cap refused = {}
    BY <1>1, <2>2, QuietStore
  <2> QED
    BY <2>1, <2>2 DEF RefusedLeavesNoTrace
<1> QED
  BY LedgerCorrect, <1>1, PTL

\* A transaction aware store holds nothing, on any resource, of the edits whose
\* outermost one failed.
THEOREM AbortedCorrect ==
  ASSUME ~Interleaved, ~CaughtInside
  PROVE  Spec => []AbortedLeavesNoTrace
<1>1. ASSUME Structure, Ledger PROVE AbortedLeavesNoTrace
  BY <1>1, QuietStore DEF AbortedLeavesNoTrace
<1> QED
  BY LedgerCorrect, <1>1, PTL

----------------------------------------------------------------------------
(* What fails without transactions *)

LEMMA InitUntrustedFail == Init => OnlyUntrustedFail
<1> SUFFICES ASSUME Init PROVE OnlyUntrustedFail
  OBVIOUS
<1>1. \A t \in Threads : Ctxs(t) = {}
  BY DEF Init, Ctxs
<1> QED
  BY <1>1 DEF Init, OnlyUntrustedFail

LEMMA HarmlessIsDue ==
  ASSUME Structure, ~aware, ~Abnormal, NEW t \in Threads, Harmless(t)
  PROVE  \A l \in Ctxs(t) : ~stack[t][l].trusted /\ ~stack[t][l].acking
  BY StackType DEF Structure, Harmless

LEMMA NextUntrustedFail ==
  ASSUME Structure, OnlyUntrustedFail, [Next]_vars
  PROVE  OnlyUntrustedFail'
<1>0. CASE UNCHANGED vars
  BY <1>0 DEF vars, OnlyUntrustedFail, RaisingIsDue, Ctxs
<1> SUFFICES ASSUME NEW t \in Threads,
                    \/ Raises(t) \/ Catch(t) \/ Leave(t) \/ LeaveRaising(t)
                    \/ \E f \in Frames : Enters(t, f)
                    \/ \E w \in Writes : \E g \in Frames : Writing(t, w, g)
                    \/ \E g \in Frames : Acknowledges(t, g),
                    ~aware', ~Abnormal
             PROVE  /\ \A r \in Resources : graph'[r] \cap Refused = {}
                    /\ \A u \in Threads : \A k \in Ctxs(u)' : RaisingIsDue(u, k)'
  BY <1>0, Moves DEF Next, OnlyUntrustedFail
<1>n. PICK n : n = Len(stack[t])
  OBVIOUS
<1>a. ~aware
  BY DEF Raises, Catch, Leave, LeaveRaising, Enters, Writing, Acknowledges
<1>1. /\ \A r \in Resources : graph[r] \cap Refused = {}
      /\ \A u \in Threads : \A k \in Ctxs(u) : RaisingIsDue(u, k)
  BY <1>a DEF OnlyUntrustedFail
<1>t. TypeOK /\ n \in Nat /\ \A u \in Threads : Ctxs(u) = 1 .. Len(stack[u]) /\ Len(stack[u]) \in Nat
  BY <1>n, StackType DEF Structure, Ctxs
<1>2. CASE Raises(t)
  <2>1. \A k \in Ctxs(t) : \A l \in 1 .. k : ~stack[t][l].trusted /\ ~stack[t][l].acking
    <3>1. CASE Harmless(t)
      BY <1>a, <1>t, <3>1, HarmlessIsDue
    <3>2. CASE stack[t] # <<>> /\ Top(t).copy \cap Refused # {}
      <4>1. n \in Ctxs(t) /\ stack[t][n].copy \cap Refused # {}
        BY <1>n, <1>t, <3>2, BelowType
      <4>2. \A l \in 1 .. n : ~stack[t][l].trusted /\ ~stack[t][l].acking
        BY <1>1, <4>1 DEF RaisingIsDue
      <4> QED
        BY <1>n, <1>t, <4>2
    <3> QED
      BY <1>1, <1>2, <3>1, <3>2 DEF Raises
  <2>2. graph' = graph /\ stack' = stack /\ \A u \in Threads \ {t} : raising'[u] = raising[u]
    BY <1>2, <1>t DEF Raises, TypeOK
  <2>3. \A u \in Threads : Ctxs(u)' = Ctxs(u)
    BY <2>2 DEF Ctxs
  <2>4. \A u \in Threads : \A k \in Ctxs(u) : RaisingIsDue(u, k)'
    BY <1>1, <2>1, <2>2 DEF RaisingIsDue
  <2> QED
    BY <1>1, <2>2, <2>3, <2>4
<1>3. CASE Catch(t)
  <2>1. graph' = graph /\ stack' = stack /\ \A u \in Threads : raising'[u] => raising[u]
    BY <1>3, <1>t DEF Catch, TypeOK
  <2>2. \A u \in Threads : Ctxs(u)' = Ctxs(u)
    BY <2>1 DEF Ctxs
  <2>3. \A u \in Threads : \A k \in Ctxs(u) : RaisingIsDue(u, k)'
    BY <1>1, <2>1 DEF RaisingIsDue
  <2> QED
    BY <1>1, <2>1, <2>2, <2>3
<1>4. CASE \E f \in Frames : Enters(t, f)
  <2> PICK f \in Frames : Enters(t, f)
    BY <1>4
  <2>1. graph' = graph /\ raising' = raising /\ ~raising[t] /\ f.copy \cap Refused = {}
    BY <1>1, <1>a DEF Enters, MayEnter, Frames
  <2>2. /\ \A u \in Threads \ {t} : Ctxs(u)' = Ctxs(u) /\ stack'[u] = stack[u]
        /\ Ctxs(t)' = Ctxs(t) \cup {n + 1} /\ Ctxs(t) = 1 .. n
        /\ \A k \in Ctxs(t) : stack'[t][k] = stack[t][k]
        /\ stack'[t][n + 1] = f
    BY <1>n, <1>t DEF Enters, Pushes, Ctxs
  <2>3. \A k \in 1 .. n : RaisingIsDue(t, k)'
    <3>1. \A k \in 1 .. n : \A l \in 1 .. k : l \in 1 .. n
      BY <1>t
    <3> QED
      BY <1>1, <2>1, <2>2, <3>1 DEF RaisingIsDue
  <2>4. RaisingIsDue(t, n + 1)'
    BY <2>1, <2>2 DEF RaisingIsDue
  <2>5. \A u \in Threads \ {t} : \A k \in Ctxs(u) : RaisingIsDue(u, k)'
    BY <1>1, <2>1, <2>2 DEF RaisingIsDue
  <2> QED
    BY <1>1, <2>1, <2>2, <2>3, <2>4, <2>5
<1>5. CASE \E w \in Writes : \E g \in Frames : Writing(t, w, g)
  <2> PICK w \in Writes : \E g \in Frames : Writing(t, w, g)
    BY <1>5
  <2> PICK g \in Frames : Writing(t, w, g)
    OBVIOUS
  <2>0. n \in Ctxs(t) /\ n # 0 /\ Top(t) = stack[t][n] /\ Top(t) \in Frames /\ g.r \in Resources
    BY <1>n, <1>t, BelowType DEF Writing, Frames
  <2>1. raising' = raising /\ w \in Refused => \A l \in Ctxs(t) : ~stack[t][l].trusted /\ ~stack[t][l].acking
    BY <1>a, HarmlessIsDue DEF Writing
  <2>2. /\ \A u \in Threads : Ctxs(u)' = Ctxs(u)
        /\ \A u \in Threads : \A k \in Ctxs(u) : (u # t \/ k # n) => stack'[u][k] = stack[u][k]
        /\ stack'[t][n] = g
    <3>1. Tops(t, g)
      BY DEF Writing
    <3> QED
      BY <1>n, <1>t, <2>0, <3>1 DEF Tops, Ctxs
  <2>3. \A u \in Threads : \A k \in Ctxs(u) : /\ stack'[u][k].trusted = stack[u][k].trusted
                                              /\ stack'[u][k].acking = stack[u][k].acking
                                              /\ stack'[u][k].copy \subseteq stack[u][k].copy \cup {w}
                                              /\ (u # t \/ k # n) => stack'[u][k].copy = stack[u][k].copy
    <3>1. g.acking = Top(t).acking /\ g.trusted = Top(t).trusted /\ g.copy \subseteq Top(t).copy \cup {w}
      BY <2>0 DEF Writing, Frames
    <3> QED
      BY <2>0, <2>2, <3>1
  <2>4. \A r \in Resources : graph'[r] \cap Refused = {}
    <3>1. CASE g.trusted
      <4>1. w \notin Refused
        <5>1. stack[t][n].trusted
          BY <2>0, <3>1 DEF Writing
        <5>2. w \in Refused => Harmless(t)
          BY DEF Writing
        <5> QED
          BY <1>a, <2>0, <5>1, <5>2, HarmlessIsDue
      <4>2. \A r \in Resources : graph'[r] \subseteq graph[r] \cup {w}
        BY <1>t, <2>0, <3>1, GraphType DEF Writing
      <4> QED
        BY <1>1, <4>1, <4>2
    <3>2. CASE ~g.trusted
      BY <1>1, <1>a, <3>2 DEF Writing
    <3> QED
      BY <3>1, <3>2
  <2>5. ASSUME NEW u \in Threads, NEW k \in Ctxs(u) PROVE RaisingIsDue(u, k)'
    <3>0. \A l \in 1 .. k : l \in Ctxs(u)
      BY <1>t
    <3>r. raising' = raising
      BY DEF Writing
    <3>1. CASE \A l \in 1 .. k : ~stack[u][l].trusted /\ ~stack[u][l].acking
      BY <2>3, <3>0, <3>1 DEF RaisingIsDue
    <3>2. CASE ~\A l \in 1 .. k : ~stack[u][l].trusted /\ ~stack[u][l].acking
      <4>1. stack[u][k].copy \cap Refused = {} /\ ~raising[u]
        BY <1>1, <3>2 DEF RaisingIsDue
      <4>2. u = t => w \notin Refused
        <5>1. w \in Refused => Harmless(t)
          BY DEF Writing
        <5> QED
          BY <1>a, <3>0, <3>2, <5>1, HarmlessIsDue
      <4>3. stack'[u][k].copy \cap Refused = {}
        BY <2>3, <4>1, <4>2
      <4> QED
        BY <3>r, <4>1, <4>3 DEF RaisingIsDue
    <3> QED
      BY <3>1, <3>2
  <2> QED
    BY <2>2, <2>4, <2>5
<1>6. CASE \E g \in Frames : Acknowledges(t, g)
  <2> PICK g \in Frames : Acknowledges(t, g)
    BY <1>6
  <2>0. n \in Ctxs(t) /\ n # 0 /\ Top(t) = stack[t][n] /\ Top(t) \in Frames /\ g.r \in Resources
    BY <1>n, <1>t, BelowType DEF Acknowledges, Frames
  <2>1. Tops(t, g) /\ raising' = raising /\ ~raising[t]
    BY DEF Acknowledges
  <2>2. /\ \A u \in Threads : Ctxs(u)' = Ctxs(u)
        /\ \A u \in Threads : \A k \in Ctxs(u) : (u # t \/ k # n) => stack'[u][k] = stack[u][k]
        /\ stack'[t][n] = g
    BY <1>n, <1>t, <2>0, <2>1 DEF Tops, Ctxs
  <2>3. \A r \in Resources : graph'[r] \cap Refused = {}
    <3>1. graph'[g.r] \cap Refused = {} /\ \A r \in Resources \ {g.r} : graph'[r] = graph[r]
      BY <1>t, <2>0, GraphType DEF Acknowledges
    <3> QED
      BY <1>1, <3>1
  <2>4. g.copy \cap Refused = {}
    <3>1. CASE ~g.trusted
      <4>1. graph'[g.r] = g.copy /\ graph'[g.r] \cap Refused = {}
        BY <1>a, <1>t, <2>0, <3>1, GraphType DEF Acknowledges
      <4> QED
        BY <4>1
    <3>2. CASE g.trusted
      <4>1. stack[t][n].trusted /\ g.copy = stack[t][n].copy
        BY <2>0, <3>2 DEF Acknowledges
      <4>2. n \in 1 .. n
        BY <1>t, <2>0
      <4> QED
        BY <1>1, <2>0, <4>1, <4>2 DEF RaisingIsDue
    <3> QED
      BY <3>1, <3>2
  <2>5. ASSUME NEW u \in Threads, NEW k \in Ctxs(u) PROVE RaisingIsDue(u, k)'
    <3>1. CASE u = t /\ k = n
      BY <2>1, <2>2, <2>4, <3>1 DEF RaisingIsDue
    <3>2. CASE u # t \/ k # n
      <4>1. \A l \in 1 .. k : l \in Ctxs(u) /\ (u # t \/ l # n)
        BY <1>n, <1>t, <3>2
      <4>2. \A l \in 1 .. k : stack'[u][l] = stack[u][l]
        BY <2>2, <4>1
      <4>3. stack'[u][k] = stack[u][k]
        BY <2>2, <3>2
      <4>4. RaisingIsDue(u, k)
        BY <1>1
      <4> QED
        BY <2>1, <4>2, <4>3, <4>4 DEF RaisingIsDue
    <3> QED
      BY <3>1, <3>2
  <2> QED
    BY <2>2, <2>3, <2>5
<1>7. CASE Leave(t) \/ LeaveRaising(t)
  <2>1. Ends(t) /\ graph' = graph /\ raising' = raising
    BY <1>7, <1>a, LeaveMoves, LeaveRaisingMoves DEF Leave, Commit, LeaveRaising, Rollback
  <2>2. n # 0 /\ Pops(t)
    BY <1>n, <1>t, <2>1, BelowType DEF Ends
  <2>3. /\ \A u \in Threads \ {t} : Ctxs(u)' = Ctxs(u) /\ stack'[u] = stack[u]
        /\ Ctxs(t)' = 1 .. n - 1 /\ Ctxs(t) = 1 .. n
        /\ \A k \in 1 .. n - 1 : SameContext(stack'[t][k], stack[t][k])
    BY <1>n, <1>t, <2>2 DEF Pops, Ctxs
  <2>4. \A u \in Threads \ {t} : \A k \in Ctxs(u) : RaisingIsDue(u, k)'
    BY <1>1, <2>1, <2>3 DEF RaisingIsDue
  <2>5. ASSUME NEW k \in 1 .. n - 1 PROVE RaisingIsDue(t, k)'
    <3>1. RaisingIsDue(t, k) /\ \A l \in 1 .. k : l \in 1 .. n - 1
      BY <1>1, <1>t, <2>2, <2>3
    <3> QED
      BY <2>1, <2>3, <3>1 DEF RaisingIsDue, SameContext
  <2>6. \A k \in Ctxs(t)' : RaisingIsDue(t, k)'
    BY <2>3, <2>5
  <2>7. ASSUME NEW u \in Threads, NEW k \in Ctxs(u)' PROVE RaisingIsDue(u, k)'
    <3>1. CASE u = t
      BY <2>6, <3>1
    <3>2. CASE u # t
      <4>1. k \in Ctxs(u)
        BY <2>3, <3>2
      <4> QED
        BY <2>4, <3>2, <4>1
    <3> QED
      BY <3>1, <3>2
  <2>8. \A r \in Resources : graph'[r] \cap Refused = {}
    BY <1>1, <2>1
  <2> QED
    BY <2>7, <2>8
<1> QED
  BY <1>2, <1>3, <1>4, <1>5, <1>6, <1>7

----------------------------------------------------------------------------
(* Etags *)

LEMMA InitEtags == Init => EtagsMatch
<1> SUFFICES ASSUME Init PROVE EtagsMatch
  OBVIOUS
<1>1. \A t \in Threads : Ctxs(t) = {}
  BY DEF Init, Ctxs
<1> QED
  BY <1>1 DEF Init, EtagsMatch

\* An outermost context and the innermost one are on different resources, unless
\* they are the same or the innermost one is not outermost.
LEMMA OutermostApart ==
  ASSUME Structure, NEW t \in Threads, stack[t] # <<>>,
         NEW n, n = Len(stack[t]), stack[t][n].outermost,
         NEW u \in Threads, NEW k \in Ctxs(u), u # t \/ k # n
  PROVE  stack[u][k].r # stack[t][n].r
<1>1. n \in Ctxs(t)
  BY BelowType DEF Structure
<1>2. u = t => k < n
  BY <1>1, StackType DEF Structure, Ctxs
<1> QED
  BY <1>1, <1>2 DEF Structure, OneOutermost

\* What the invariant says of each part of the state.
ClosedEtags == \A r \in Resources : ~ctx[r].open /\ ~Doomed => shown[r] = {graph[r]}
OpenEtags(f) ==
  f.outermost => /\ f.acking => shown[f.r] = {}
                 /\ ~aware /\ ~f.trusted /\ ~f.acking => shown[f.r] = {graph[f.r]}
CommittedEtags == aware => \A r \in Resources : committed.shown[r] = {committed.graph[r]}

LEMMA EtagsParts ==
  EtagsMatch <=> /\ ClosedEtags /\ CommittedEtags
                 /\ \A t \in Threads : \A k \in Ctxs(t) : OpenEtags(stack[t][k])
  BY DEF EtagsMatch, ClosedEtags, OpenEtags, CommittedEtags

LEMMA RaisingEtags ==
  ASSUME Structure, EtagsMatch, NEW t \in Threads, NEW b \in BOOLEAN,
         raising' = [raising EXCEPT ![t] = b], b \/ stack[t] = <<>>,
         UNCHANGED <<aware, graph, shown, committed, level, ctx, stack, done, failed, refused>>
  PROVE  EtagsMatch'
<1>1. Doomed => Doomed'
  BY DEF Structure, TypeOK, Doomed
<1> QED
  BY <1>1 DEF EtagsMatch, Ctxs

LEMMA EntersEtags ==
  ASSUME Structure, EtagsMatch, NEW t \in Threads, NEW f \in Frames, Enters(t, f)
  PROVE  EtagsMatch'
<1>n. PICK n : n = Len(stack[t])
  OBVIOUS
<1>0. n \in Nat /\ f.r \in Resources /\ TypeOK
  BY <1>n, StackType DEF Structure, Frames
<1>1. /\ \A u \in Threads \ {t} : Ctxs(u)' = Ctxs(u) /\ stack'[u] = stack[u]
      /\ Ctxs(t)' = Ctxs(t) \cup {n + 1}
      /\ \A k \in Ctxs(t) : stack'[t][k] = stack[t][k]
      /\ stack'[t][n + 1] = f /\ Len(stack'[t]) = n + 1
  BY <1>n, <1>0 DEF Enters, Pushes, Ctxs
<1>2. UNCHANGED <<aware, shown, committed, raising>>
  BY DEF Enters
<1>3. Doomed => Doomed'
  <2>1. stack'[t] # <<>>
    BY <1>0, <1>1
  <2> QED
    BY <1>1, <1>2, <2>1 DEF Doomed
<1>4. \A r \in Resources : graph'[r] = graph[r] \/ (aware /\ r = f.r)
  BY <1>0, GraphType DEF Enters
<1>5. ClosedEtags'
  <2> SUFFICES ASSUME NEW r \in Resources, ~ctx'[r].open, ~Doomed'
               PROVE  shown'[r] = {graph'[r]}
    BY DEF ClosedEtags
  <2>1. r # f.r /\ ctx'[r] = ctx[r]
    BY <1>0 DEF Enters, TypeOK, Ctx
  <2> QED
    BY <1>2, <1>3, <1>4, <2>1 DEF EtagsMatch
<1>6. CommittedEtags'
  BY <1>2 DEF EtagsMatch, CommittedEtags
<1>7. OpenEtags(f)'
  <2> SUFFICES ASSUME f.outermost, ~aware, ~f.trusted PROVE shown'[f.r] = {graph'[f.r]}
    BY <1>2 DEF OpenEtags, Enters
  <2>1. ~ctx[f.r].open /\ ~Doomed
    BY DEF Enters, Doomed
  <2> QED
    BY <1>0, <1>2, <1>4, <2>1 DEF EtagsMatch
<1>8. ASSUME NEW u \in Threads, NEW k \in Ctxs(u) PROVE OpenEtags(stack[u][k])'
  <2>1. stack[u][k].r \in Resources /\ stack'[u][k] = stack[u][k]
    BY <1>0, <1>1, StackType DEF Frames
  <2>2. OpenEtags(stack[u][k])
    BY EtagsParts
  <2> QED
    BY <1>2, <1>4, <2>1, <2>2 DEF OpenEtags
<1>9. ASSUME NEW u \in Threads, NEW k \in Ctxs(u)' PROVE OpenEtags(stack[u][k])'
  <2>1. CASE u = t /\ k = n + 1
    BY <1>1, <1>7, <2>1 DEF OpenEtags
  <2>2. CASE ~(u = t /\ k = n + 1)
    BY <1>1, <1>8, <2>2
  <2> QED
    BY <2>1, <2>2
<1>10. EtagsMatch' <=> /\ ClosedEtags' /\ CommittedEtags'
                       /\ \A u \in Threads : \A k \in Ctxs(u)' : OpenEtags(stack[u][k])'
  BY DEF EtagsMatch, ClosedEtags, OpenEtags, CommittedEtags
<1> QED
  BY <1>5, <1>6, <1>9, <1>10

LEMMA WritingEtags ==
  ASSUME Structure, EtagsMatch, NEW t \in Threads, NEW w \in Writes, NEW g \in Frames,
         Writing(t, w, g)
  PROVE  EtagsMatch'
<1>n. PICK n : n = Len(stack[t])
  OBVIOUS
<1>0. /\ n \in Nat \ {0} /\ n \in Ctxs(t) /\ Top(t) = stack[t][n] /\ Top(t) \in Frames
      /\ g.r \in Resources /\ TypeOK
  BY <1>n, BelowType DEF Writing, Frames, Structure
<1>1. /\ \A u \in Threads : Ctxs(u)' = Ctxs(u)
      /\ \A u \in Threads : \A k \in Ctxs(u) : (u # t \/ k # n) => stack'[u][k] = stack[u][k]
      /\ stack'[t][n] = g /\ Len(stack'[t]) = n
      /\ \A u \in Threads \ {t} : stack'[u] = stack[u]
  <2>1. Tops(t, g)
    BY DEF Writing
  <2> QED
    BY <1>n, <1>0, <2>1 DEF Tops, Ctxs
<1>2. UNCHANGED <<aware, shown, committed, ctx, raising>>
  BY DEF Writing
<1>3. Doomed => Doomed'
  <2>1. stack'[t] # <<>>
    BY <1>0, <1>1
  <2> QED
    BY <1>1, <1>2, <2>1 DEF Doomed
<1>4. \A r \in Resources : graph'[r] = graph[r] \/ (r = g.r /\ (aware \/ g.trusted))
  BY <1>0, GraphType DEF Writing
<1>5. ClosedEtags'
  <2>1. ctx[g.r].open
    BY <1>0 DEF Writing, Structure, ContextsMatch
  <2> QED
    BY <1>2, <1>3, <1>4, <2>1 DEF EtagsMatch, ClosedEtags
<1>6. CommittedEtags'
  BY <1>2 DEF EtagsMatch, CommittedEtags
<1>7. \A u \in Threads : \A k \in Ctxs(u) :
        /\ stack'[u][k].r = stack[u][k].r /\ stack'[u][k].outermost = stack[u][k].outermost
        /\ stack'[u][k].trusted = stack[u][k].trusted
        /\ stack'[u][k].acking = stack[u][k].acking
  <2>1. g.acking = stack[t][n].acking
    BY <1>0 DEF Writing, Frames
  <2>2. /\ g.r = stack[t][n].r /\ g.outermost = stack[t][n].outermost
        /\ g.trusted = stack[t][n].trusted
    BY <1>0 DEF Writing
  <2> QED
    BY <1>1, <2>1, <2>2
<1>8. ASSUME NEW u \in Threads, NEW k \in Ctxs(u), ~aware, stack[u][k].outermost,
             ~stack[u][k].trusted, ~stack[u][k].acking
      PROVE  graph'[stack[u][k].r] = graph[stack[u][k].r]
  <2>1. stack[u][k].r \in Resources /\ stack[u][k] \in Frames
    BY <1>0, StackType DEF Frames
  <2>2. ASSUME stack[u][k].r = g.r, g.trusted PROVE FALSE
    <3>1. ctx[g.r] = Ctx(FALSE, stack[u][k].param)
      <4>1. (stack[u][k].trusted \/ stack[u][k].acking) = FALSE
        BY <1>8
      <4> QED
        BY <1>8, <2>2, <4>1 DEF Structure, ContextsMatch
    <3>2. stack[t][n].trusted /\ stack[t][n].r = g.r
      BY <1>0, <2>2 DEF Writing
    <3>3. stack[t][n].outermost
      <4>1. ~stack[t][n].outermost => ctx[stack[t][n].r].trusted
        BY <1>0 DEF Structure, ContextsMatch
      <4>2. ~ctx[g.r].trusted
        BY <3>1 DEF Ctx
      <4> QED
        BY <3>2, <4>1, <4>2
    <3>4. u = t /\ k = n
      <4>1. stack[t] # <<>>
        BY DEF Writing
      <4>2. u # t \/ k # n => stack[u][k].r # stack[t][n].r
        BY <1>n, <3>3, <4>1, OutermostApart
      <4> QED
        BY <2>2, <3>2, <4>2
    <3> QED
      BY <1>8, <3>2, <3>4
  <2> QED
    BY <1>4, <1>8, <2>1, <2>2
<1>9. ASSUME NEW u \in Threads, NEW k \in Ctxs(u)' PROVE OpenEtags(stack[u][k])'
  <2>1. OpenEtags(stack[u][k]) /\ k \in Ctxs(u)
    BY <1>1, EtagsParts
  <2> QED
    BY <1>2, <1>7, <1>8, <2>1 DEF OpenEtags
<1>10. EtagsMatch' <=> /\ ClosedEtags' /\ CommittedEtags'
                       /\ \A u \in Threads : \A k \in Ctxs(u)' : OpenEtags(stack[u][k])'
  BY DEF EtagsMatch, ClosedEtags, OpenEtags, CommittedEtags
<1> QED
  BY <1>5, <1>6, <1>9, <1>10

LEMMA AcknowledgesEtags ==
  ASSUME Structure, EtagsMatch, NEW t \in Threads, NEW g \in Frames, Acknowledges(t, g)
  PROVE  EtagsMatch'
<1>n. PICK n : n = Len(stack[t])
  OBVIOUS
<1>0. /\ n \in Nat \ {0} /\ n \in Ctxs(t) /\ Top(t) = stack[t][n] /\ Top(t) \in Frames
      /\ g.r \in Resources /\ TypeOK /\ stack[t] # <<>>
      /\ g.r = stack[t][n].r /\ g.outermost /\ stack[t][n].outermost /\ g.acking
  BY <1>n, BelowType DEF Acknowledges, Frames, Structure
<1>1. /\ \A u \in Threads : Ctxs(u)' = Ctxs(u)
      /\ \A u \in Threads : \A k \in Ctxs(u) : (u # t \/ k # n) => stack'[u][k] = stack[u][k]
      /\ stack'[t][n] = g /\ Len(stack'[t]) = n
      /\ \A u \in Threads \ {t} : stack'[u] = stack[u]
  <2>1. Tops(t, g)
    BY DEF Acknowledges
  <2>2. n \in Nat \ {0}
    BY <1>0
  <2> QED
    BY <1>n, <2>1, <2>2 DEF Tops, Ctxs
<1>2. UNCHANGED <<aware, committed, raising>>
  BY DEF Acknowledges
<1>3. Doomed => Doomed'
  <2>1. stack'[t] # <<>>
    BY <1>0, <1>1
  <2> QED
    BY <1>1, <1>2, <2>1 DEF Doomed
<1>4. /\ \A r \in Resources \ {g.r} :
           graph'[r] = graph[r] /\ shown'[r] = shown[r] /\ ctx'[r] = ctx[r]
      /\ shown'[g.r] = {} /\ ctx'[g.r].open
  BY <1>0, GraphType DEF Acknowledges, TypeOK, Ctx
<1>5. ClosedEtags'
  BY <1>3, <1>4 DEF EtagsMatch, ClosedEtags
<1>6. CommittedEtags'
  BY <1>2 DEF EtagsMatch, CommittedEtags
<1>7. ASSUME NEW u \in Threads, NEW k \in Ctxs(u)' PROVE OpenEtags(stack[u][k])'
  <2>1. OpenEtags(stack[u][k]) /\ k \in Ctxs(u)
    BY <1>1, EtagsParts
  <2>2. CASE u = t /\ k = n
    BY <1>0, <1>1, <1>4, <2>2 DEF OpenEtags
  <2>3. CASE u # t \/ k # n
    <3>0. stack[u][k].r # stack[t][n].r
      BY <1>n, <1>0, <2>1, <2>3, OutermostApart
    <3>1. stack'[u][k] = stack[u][k] /\ stack[u][k].r # g.r
      BY <1>0, <1>1, <2>1, <2>3, <3>0
    <3>2. stack[u][k].r \in Resources
      BY <1>0, <2>1, StackType DEF Frames
    <3> QED
      BY <1>2, <1>4, <2>1, <3>1, <3>2 DEF OpenEtags
  <2> QED
    BY <2>2, <2>3
<1>8. EtagsMatch' <=> /\ ClosedEtags' /\ CommittedEtags'
                      /\ \A u \in Threads : \A k \in Ctxs(u)' : OpenEtags(stack[u][k])'
  BY DEF EtagsMatch, ClosedEtags, OpenEtags, CommittedEtags
<1> QED
  BY <1>5, <1>6, <1>7, <1>8

\* A context ends, and its resource is shown; nothing else moves.
LEMMA ShowsEtags ==
  ASSUME Structure, EtagsMatch, NEW t \in Threads, Ends(t), UNCHANGED graph,
         shown' = Show(Top(t)), Doomed => Doomed',
         Top(t).outermost /\ ~Doomed' => shown[Top(t).r] \subseteq {graph[Top(t).r]}
  PROVE  /\ ClosedEtags'
         /\ \A u \in Threads : \A k \in Ctxs(u)' : OpenEtags(stack[u][k])'
<1>n. PICK n : n = Len(stack[t])
  OBVIOUS
<1>f. PICK f \in Frames : f = Top(t)
  BY BelowType DEF Ends, Structure
<1>0. /\ n \in Nat \ {0} /\ n \in Ctxs(t) /\ f = stack[t][n] /\ f.r \in Resources /\ TypeOK
      /\ stack[t] # <<>> /\ UNCHANGED <<aware, raising>>
  BY <1>n, <1>f, BelowType DEF Ends, Frames, Structure
<1>1. /\ \A u \in Threads \ {t} : Ctxs(u)' = Ctxs(u) /\ stack'[u] = stack[u]
      /\ Ctxs(t)' = 1 .. n - 1 /\ Ctxs(t) = 1 .. n
      /\ \A k \in 1 .. n - 1 : SameContext(stack'[t][k], stack[t][k])
  <2>1. Pops(t)
    BY DEF Ends
  <2> QED
    BY <1>n, <1>0, <2>1 DEF Pops, Ctxs
<1>2. \A r \in Resources : (~f.outermost \/ r # f.r) => shown'[r] = shown[r]
  BY <1>f, <1>0, GraphType DEF Show
<1>3. ClosedEtags'
  <2> SUFFICES ASSUME NEW r \in Resources, ~ctx'[r].open, ~Doomed'
               PROVE  shown'[r] = {graph'[r]}
    BY DEF ClosedEtags
  <2>0. ~Doomed
    OBVIOUS
  <2>1. CASE f.outermost /\ r = f.r
    <3>1. shown'[r] = shown[r] \cup {graph[r]}
      BY <1>f, <1>0, <2>1, GraphType DEF Show
    <3>2. shown[r] \subseteq {graph[r]}
      BY <1>f, <2>1
    <3> QED
      BY <3>1, <3>2
  <2>2. CASE ~f.outermost \/ r # f.r
    <3>1. ctx'[r] = ctx[r] /\ ~ctx[r].open
      BY <1>f, <1>0, <2>2 DEF Ends, TypeOK
    <3>2. shown[r] = {graph[r]}
      BY <2>0, <3>1, EtagsParts DEF ClosedEtags
    <3> QED
      BY <1>2, <2>2, <3>2
  <2> QED
    BY <2>1, <2>2
<1>4. ASSUME NEW u \in Threads, NEW k \in Ctxs(u)' PROVE OpenEtags(stack[u][k])'
  <2>1. k \in Ctxs(u) /\ (u # t \/ k # n) /\ OpenEtags(stack[u][k])
    <3>1. k \in Ctxs(u) /\ (u # t \/ k # n)
      <4>1. CASE u = t
        BY <1>0, <1>1, <4>1
      <4>2. CASE u # t
        BY <1>1, <4>2
      <4> QED
        BY <4>1, <4>2
    <3> QED
      BY <3>1, EtagsParts
  <2>2. /\ stack'[u][k].r = stack[u][k].r /\ stack'[u][k].outermost = stack[u][k].outermost
        /\ stack'[u][k].trusted = stack[u][k].trusted
        /\ stack'[u][k].acking = stack[u][k].acking
    BY <1>1 DEF SameContext
  <2>3. stack[u][k].r \in Resources
    BY <1>0, <2>1, StackType DEF Frames
  <2>4. f.outermost => stack[u][k].r # f.r
    BY <1>n, <1>0, <2>1, OutermostApart
  <2>5. shown'[stack[u][k].r] = shown[stack[u][k].r]
    BY <1>2, <2>3, <2>4
  <2> QED
    BY <1>0, <2>1, <2>2, <2>5 DEF OpenEtags
<1> QED
  BY <1>3, <1>4

\* What an untrusted context, or an acknowledged one, that ends leaves to show.
LEMMA TopEtags ==
  ASSUME Structure, EtagsMatch, NEW t \in Threads, stack[t] # <<>>, Top(t).outermost,
         Top(t).acking \/ (~aware /\ ~Top(t).trusted)
  PROVE  shown[Top(t).r] \subseteq {graph[Top(t).r]}
<1>1. Len(stack[t]) \in Ctxs(t) /\ Top(t) = stack[t][Len(stack[t])] /\ Top(t) \in Frames
  BY BelowType DEF Structure
<1>2. OpenEtags(Top(t))
  BY <1>1, EtagsParts
<1> QED
  BY <1>1, <1>2 DEF OpenEtags, Frames

LEMMA LeaveEtags ==
  ASSUME ~Interleaved, ~CaughtInside, Structure, Transactional, EtagsMatch,
         NEW t \in Threads, Leave(t)
  PROVE  EtagsMatch'
<1>n. PICK n : n = Len(stack[t])
  OBVIOUS
<1>0. /\ Ends(t) /\ stack[t] # <<>> /\ ~raising[t] /\ TypeOK
      /\ UNCHANGED <<graph, aware, raising>> /\ shown' = Show(Top(t))
      /\ \A u \in Threads \ {t} : stack'[u] = stack[u]
  BY LeaveMoves DEF Leave, Commit, Structure, Ends, Pops
<1>1. Doomed => Doomed'
  BY <1>0 DEF Doomed
<1>2. Top(t).outermost => shown[Top(t).r] \subseteq {graph[Top(t).r]}
  BY <1>0, TopEtags DEF Leave
<1>3. ClosedEtags' /\ \A u \in Threads : \A k \in Ctxs(u)' : OpenEtags(stack[u][k])'
  BY <1>0, <1>1, <1>2, ShowsEtags
<1>4. CommittedEtags'
  <2> SUFFICES ASSUME aware, NEW r \in Resources
               PROVE  committed'.shown[r] = {committed'.graph[r]}
    BY <1>0 DEF CommittedEtags
  <2>1. CASE level = 1
    <3>1. n = 1
      BY <1>n, <1>0, <2>1, LevelOne
    <3>2. \A u \in Threads : stack'[u] = <<>> /\ Ctxs(u)' = {}
      <4>1. stack'[t] \in Seq(Frames) /\ Len(stack'[t]) = 0
        BY <1>n, <1>0, <3>1 DEF Ends, Pops
      <4>2. stack'[t] = <<>>
        BY <4>1, EmptySeq
      <4>3. \A u \in Threads \ {t} : stack'[u] = <<>>
        BY <1>0 DEF Transactional
      <4> QED
        BY <4>2, <4>3 DEF Ctxs
    <3>3. Structure'
      BY LeaveStructure
    <3>4. ~ctx'[r].open /\ ~Doomed'
      BY <3>2, <3>3 DEF Structure, ContextsMatch, Doomed
    <3>5. shown'[r] = {graph'[r]}
      BY <1>3, <3>4 DEF ClosedEtags
    <3>6. committed' = [graph |-> graph, shown |-> shown']
      BY <2>1 DEF Leave, Commit
    <3> QED
      BY <1>0, <3>5, <3>6
  <2>2. CASE level # 1
    <3>1. committed' = committed
      BY <2>2 DEF Leave, Commit
    <3> QED
      BY <3>1 DEF EtagsMatch
  <2> QED
    BY <2>1, <2>2
<1>5. EtagsMatch' <=> /\ ClosedEtags' /\ CommittedEtags'
                      /\ \A u \in Threads : \A k \in Ctxs(u)' : OpenEtags(stack[u][k])'
  BY DEF EtagsMatch, ClosedEtags, OpenEtags, CommittedEtags
<1> QED
  BY <1>3, <1>4, <1>5

LEMMA LeaveRaisingEtags ==
  ASSUME ~Abnormal, Structure, Transactional, OnlyUntrustedFail, EtagsMatch,
         NEW t \in Threads, LeaveRaising(t)
  PROVE  EtagsMatch'
<1>n. PICK n : n = Len(stack[t])
  OBVIOUS
<1>0. /\ Ends(t) /\ stack[t] # <<>> /\ raising[t] /\ TypeOK /\ n \in Nat \ {0} /\ n \in Ctxs(t)
      /\ Top(t) = stack[t][n] /\ UNCHANGED <<aware, raising, committed>>
      /\ Len(stack'[t]) = n - 1 /\ stack'[t] \in Seq(Frames)
      /\ \A u \in Threads \ {t} : stack'[u] = stack[u]
  BY <1>n, LeaveRaisingMoves, BelowType DEF LeaveRaising, Rollback, Structure, Ends, Pops
<1>1. CommittedEtags'
  BY <1>0 DEF EtagsMatch, CommittedEtags
<1>2. CASE aware /\ level = 1
  <2>1. graph' = committed.graph /\ shown' = committed.shown
    BY <1>2 DEF LeaveRaising, Rollback
  <2>2. ClosedEtags'
    BY <1>2, <2>1 DEF ClosedEtags, EtagsMatch
  <2>3. \A u \in Threads : Ctxs(u)' = {}
    <3>1. n = 1
      BY <1>n, <1>0, <1>2, LevelOne
    <3>2. \A u \in Threads \ {t} : stack'[u] = <<>>
      BY <1>0, <1>2 DEF Transactional
    <3> QED
      BY <1>0, <3>1, <3>2 DEF Ctxs
  <2> QED
    BY <1>1, <2>2, <2>3 DEF EtagsMatch, ClosedEtags, CommittedEtags
<1>3. CASE ~(aware /\ level = 1)
  <2>1. UNCHANGED graph /\ shown' = Show(Top(t))
    BY <1>3 DEF LeaveRaising, Rollback
  <2>2. aware => Doomed'
    <3> SUFFICES ASSUME aware PROVE Doomed'
      OBVIOUS
    <3>1. n # 1
      BY <1>n, <1>0, <1>3, LevelOne
    <3>2. stack'[t] # <<>>
      BY <1>0, <3>1
    <3> QED
      BY <1>0, <3>2 DEF Doomed
  <2>3. Top(t).outermost /\ ~Doomed' => shown[Top(t).r] \subseteq {graph[Top(t).r]}
    <3> SUFFICES ASSUME Top(t).outermost, ~aware
                 PROVE  shown[Top(t).r] \subseteq {graph[Top(t).r]}
      BY <2>2
    <3>1. RaisingIsDue(t, n)
      BY <1>0 DEF OnlyUntrustedFail
    <3>2. n \in 1 .. n
      BY <1>0
    <3>3. ~Top(t).trusted
      BY <1>0, <3>1, <3>2 DEF RaisingIsDue
    <3> QED
      BY <1>0, <3>3, TopEtags
  <2>4. ClosedEtags' /\ \A u \in Threads : \A k \in Ctxs(u)' : OpenEtags(stack[u][k])'
    <3>1. Doomed => Doomed'
      BY <2>2 DEF Doomed
    <3> QED
      BY <1>0, <2>1, <2>3, <3>1, ShowsEtags
  <2>5. EtagsMatch' <=> /\ ClosedEtags' /\ CommittedEtags'
                        /\ \A u \in Threads : \A k \in Ctxs(u)' : OpenEtags(stack[u][k])'
    BY DEF EtagsMatch, ClosedEtags, OpenEtags, CommittedEtags
  <2> QED
    BY <1>1, <2>4, <2>5
<1> QED
  BY <1>2, <1>3

LEMMA NextEtags ==
  ASSUME ~Interleaved, ~CaughtInside, ~Abnormal, IInv, [Next]_vars
  PROVE  EtagsMatch'
<1>0. Structure /\ Transactional /\ OnlyUntrustedFail /\ EtagsMatch
  BY DEF IInv, Ledger
<1>1. CASE UNCHANGED vars
  BY <1>0, <1>1 DEF vars, EtagsMatch, Doomed, Ctxs
<1>2. ASSUME NEW t \in Threads, Raises(t) PROVE EtagsMatch'
  BY <1>0, <1>2, RaisingEtags DEF Raises
<1>3. ASSUME NEW t \in Threads, Catch(t) PROVE EtagsMatch'
  BY <1>0, <1>3, RaisingEtags DEF Catch
<1> QED
  BY <1>0, <1>1, <1>2, <1>3, Moves, EntersEtags, WritingEtags, AcknowledgesEtags,
     LeaveEtags, LeaveRaisingEtags DEF Next

\* Etags, too, agree with what is open, committed and to be rolled back.
THEOREM Invariance ==
  ASSUME ~Interleaved, ~CaughtInside, ~Abnormal
  PROVE  Spec => []IInv
<1>1. Init => IInv
  BY InitStructure, InitLedger, InitUntrustedFail, InitEtags DEF IInv
<1>2. IInv /\ [Next]_vars => IInv'
  BY NextStructure, NextLedger, NextUntrustedFail, NextEtags DEF IInv
<1> QED
  BY <1>1, <1>2, PTL DEF Spec

\* The etag a resource is given out with stands for the content it has, and for
\* no other it had: whatever has written on the graph has renewed the etag, and a
\* transaction that is rolled back takes the etag back with the content.
THEOREM EtagsCorrect ==
  ASSUME ~Interleaved, ~CaughtInside, ~Abnormal
  PROVE  Spec => []EtagIsCurrent
<1>1. ASSUME IInv PROVE EtagIsCurrent
  <2> SUFFICES ASSUME NEW r \in Resources, ~ctx[r].open, aware => Quiet
               PROVE  shown[r] = {graph[r]}
    BY DEF EtagIsCurrent
  <2>1. ~Doomed
    BY DEF Doomed, Quiet
  <2> QED
    BY <1>1, <2>1 DEF IInv, EtagsMatch
<1> QED
  BY Invariance, <1>1, PTL
=============================================================================
