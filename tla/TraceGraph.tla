----------------------------- MODULE TraceGraph -----------------------------
(***************************************************************************)
(* The graph of traces and methods in a base: hasSource, hasMethod and     *)
(* hasParentMethod, the reverse arcs that the resource at the other end    *)
(* keeps, the dirty marks that changes leave along them, and the           *)
(* descriptions that computed traces derive from what they depend on       *)
(* (lib/ktbs/engine/trace.py, method.py).                                  *)
(*                                                                         *)
(* Operations are inside the lock of the base (ResourceLock), and atomic   *)
(* but for the waits in them, which may be in vain: what was changed       *)
(* before stays.  A deletion waits for the obsels of the trace, then for   *)
(* its statistics (DeletionTimesOut); a computation of its own accord for  *)
(* the base (RefreshTimesOut).  Reading the state of a computed trace,     *)
(* before (Clean) or during an operation (Read), or for itself (Refresh),  *)
(* first computes what is dirty.  A mark may also be followed by it at     *)
(* once, as _mark_dirty reads the state to find the obsels, once for each  *)
(* python object: that, too, is Refresh.  The computation of obsels, which *)
(* has marks of its own, is in FilteredTrace.                              *)
(*                                                                         *)
(* A trace whose deletion timed out may be read, and deleted again; that   *)
(* it is edited, or made the source of another one, is not modelled.       *)
(***************************************************************************)
EXTENDS FiniteSets, Naturals

CONSTANTS
  StoredNames,   \* the names that stored traces may get,
  ComputedNames, \* and computed traces (they may be the same)
  Methods,     \* the names of methods that may exist in the base
  Builtins,    \* the built-in methods
  Settings,    \* parameters of a method or trace; model and origin of a stored one
  None,
  Dangling,    \* may a trace name a method of the base that does not exist?
  Reparented,  \* may a method get a parent of another kind while it is in use?
  MaxTimeOuts  \* bound: traces that bear the marks of a wait in vain

ASSUME NamesAssumption ==
  /\ None \notin Methods \cup Builtins
  /\ Methods \cap Builtins = {}
ASSUME UseAssumption == {Dangling, Reparented} \subseteq BOOLEAN /\ MaxTimeOuts \in Nat

Traces == StoredNames \cup ComputedNames

VARIABLES
  kind,       \* of each trace: "none", "stored" or "computed"
  sources,    \* hasSource, in the graph of the trace
  transformed,\* the same arcs, in the graph of the source
  method,     \* hasMethod, in the graph of the trace
  usedBy,     \* the same arcs, in the graph of the method
  parent,     \* hasParentMethod, None if the method does not exist
  children,   \* the same arcs, in the graph of the parent
  own,        \* Settings of each trace
  params,     \* Settings of each method
  dirty,      \* METADATA.dirty
  impl,       \* __method_impl of the python object of the trace
  outdated,   \* has what the description depends on changed since it was computed?
  halfDeleted,\* the traces whose deletion timed out
  unmarked    \* the traces that lost their mark to a computation that timed out

vars == <<kind, sources, transformed, method, usedBy, parent, children, own,
          params, dirty, impl, outdated, halfDeleted, unmarked>>
arcs == <<sources, transformed, method, usedBy, parent, children>>
methodVars == <<parent, children, params>>

Existing == {t \in Traces : kind[t] # "none"}
Computed == {t \in Traces : kind[t] = "computed"}
Defined == {m \in Methods : parent[m] # None}

\* The smallest set that contains S and what next leads to from its members.
Closure(S, next(_), U) ==
  IF \A y \in S : next(y) \subseteq S THEN S
  ELSE LET closed == {C \in SUBSET U : S \subseteq C /\ \A y \in C : next(y) \subseteq C}
       IN  {x \in U : \A C \in closed : x \in C}

\* The traces t is computed from, directly or not.
Above(t) == LET Sources(s) == sources[s] IN Closure(sources[t], Sources, Traces)

\* The methods whose parameters method m has, itself included.
Lineage(m) ==
  LET Parent(x) == {parent[x]} \ (Builtins \cup {None})
  IN  Closure({m} \cap Defined, Parent, Methods) \cap Defined

\* _method_impl follows the parents up to a built-in method; None stands for the
\* fake one that it returns when a method does not exist.
Root(m) ==
  IF m \in Builtins THEN m
  ELSE LET found == {parent[x] : x \in Lineage(m)} \cap Builtins
       IN  IF found = {} THEN None ELSE CHOOSE b \in found : TRUE

Init ==
  /\ kind = [t \in Traces |-> "none"]
  /\ sources = [t \in Traces |-> {}]
  /\ transformed = [t \in Traces |-> {}]
  /\ method = [t \in Traces |-> None]
  /\ usedBy = [m \in Methods |-> {}]
  /\ parent = [m \in Methods |-> None]
  /\ children = [m \in Methods |-> {}]
  /\ own = [t \in Traces |-> None]
  /\ params = [m \in Methods |-> None]
  /\ dirty = [t \in Traces |-> FALSE]
  /\ impl = [t \in Traces |-> None]
  /\ outdated = [t \in Traces |-> FALSE]
  /\ halfDeleted = {}
  /\ unmarked = {}

----------------------------------------------------------------------------
(* Helpers *)

Marked == {t \in Traces : dirty[t]}
Mark(S) == [t \in Traces |-> dirty[t] \/ t \in S]

\* Reading the state of t computes nothing.
Clean(t) == Marked = {} \/ Marked \cap ({t} \cup Above(t)) = {}

\* What compute_trace_description makes the description of t from, the parents of the
\* methods telling how; also from the descriptions of the sources.
Inputs(t) ==
  [method |-> method[t],
   lineage |-> {<<x, parent[x], params[x]>> : x \in Lineage(method[t])},
   own |-> own[t],
   from |-> {<<s, own[s]>> : s \in sources[t]}]

\* outdated and unmarked after a step that computed the descriptions of the traces S.
Compare(S) ==
  /\ outdated' = [t \in Traces |->
       /\ kind'[t] = "computed"
       /\ IF t \in S
          THEN impl'[t] # Root(method[t])'
          ELSE outdated[t] \/ Inputs(t)' # Inputs(t) \/ sources'[t] \cap S # {}]
  /\ unmarked' = {t \in unmarked : kind'[t] = "computed"} \ S

\* force_state_refresh of t computes, D being marked, what is marked of t and of what
\* it is computed from, sources first: a source that is computed marks the next one.
Refreshed(t, D) ==
  {x \in {t} \cup Above(t)' :
     kind'[x] = "computed" /\ (x \in D \/ \E y \in Above(x)' : y \in D)}

\* The state of t is read when D are marked and i are the method objects; late are
\* marked afterwards.  A method object that is there is used again.
Read(t, D, i, late) ==
  \E R \in {Refreshed(t, D)} :
    /\ dirty' = [x \in Traces |->
                   x \in late \/ (x \notin R /\ (x \in D \/ \E y \in R : x \in transformed'[y]))]
    /\ impl' = [x \in Traces |-> IF x \in R /\ i[x] = None THEN Root(method[x])' ELSE i[x]]
    /\ Compare(R)

\* Mutant: the former sources are not told.
Notified_AddOnly(t, S) ==
  [s \in Traces |-> IF s \in S THEN transformed[s] \cup {t} ELSE transformed[s]]

\* The reverse arcs once S are the sources of t.
Notified(t, S) ==
  [s \in Traces |-> IF s \in S THEN transformed[s] \cup {t} ELSE transformed[s] \ {t}]

\* Old and new sources are edited to change these arcs: ack_edit marks the other
\* traces that they have.
MarkedBySources(t, S) == UNION {Notified(t, S)[s] : s \in sources[t] \cup S}

\* The reverse arcs once t uses m: only methods that exist have any.
Using(t, m) ==
  [x \in Methods |-> IF x = m /\ x \in Defined THEN usedBy[x] \cup {t} ELSE usedBy[x] \ {t}]

\* One more wait may be in vain.
MayTimeOut == Cardinality(halfDeleted) + Cardinality(unmarked) < MaxTimeOuts

\* Reading the state of t raises an exception if something t is computed from is gone.
Readable(t) == Above(t) \subseteq Existing

----------------------------------------------------------------------------
(* Traces *)

CreateStored(t, v) ==
  /\ t \in StoredNames
  /\ kind[t] = "none"
  /\ kind' = [kind EXCEPT ![t] = "stored"]
  /\ own' = [own EXCEPT ![t] = v]
  /\ UNCHANGED <<arcs, params, dirty, impl, halfDeleted>>
  /\ Compare({})

\* Mutant: the traces computed from it are not marked.
EditStored_Unmarked(t, v) ==
  /\ kind[t] = "stored"
  /\ own' = [own EXCEPT ![t] = v]
  /\ UNCHANGED <<kind, arcs, dirty, params, impl, halfDeleted>>
  /\ Compare({})

\* An edit of a stored trace (its model or origin).
EditStored(t, v) ==
  /\ kind[t] = "stored"
  /\ own' = [own EXCEPT ![t] = v]
  /\ dirty' = Mark(transformed[t])
  /\ UNCHANGED <<kind, arcs, params, impl, halfDeleted>>
  /\ Compare({})

\* Nothing is checked about the method of a trace.
Usable == Builtins \cup (IF Dangling THEN Methods ELSE Defined)

\* The new trace is marked, and computed once.
CreateComputed(t) ==
  /\ t \in ComputedNames
  /\ kind[t] = "none"
  /\ kind' = [kind EXCEPT ![t] = "computed"]
  /\ \E S \in SUBSET (Existing \ halfDeleted), m \in Usable, v \in Settings :
       /\ sources' = [sources EXCEPT ![t] = S]
       /\ transformed' = Notified(t, S)
       /\ method' = [method EXCEPT ![t] = m]
       /\ usedBy' = Using(t, m)
       /\ own' = [own EXCEPT ![t] = v]
       /\ UNCHANGED <<methodVars, halfDeleted>>
       /\ Read(t, Marked \cup MarkedBySources(t, S) \cup {t}, impl, {})

\* What else is marked when t gets the sources S.
Outdated(t, S) ==
  transformed[t] \cup (IF S # sources[t] THEN MarkedBySources(t, S) ELSE {})

\* An edit of a computed trace.  New sources must be traces of the base; sources
\* edited into a cycle are left out.  New sources or a new method mark the trace,
\* whose state is read after that; new parameters mark it last.
EditComputed(t) ==
  /\ kind[t] = "computed"
  /\ t \notin halfDeleted
  /\ Clean(t)
  /\ \E S \in SUBSET {s \in (Existing \ halfDeleted) \ {t} : t \notin Above(s)},
        m \in Usable, v \in Settings :
       LET i == IF m # method[t] THEN [impl EXCEPT ![t] = None] ELSE impl
           late == IF v # own[t] THEN {t} ELSE {}
       IN  /\ sources' = [sources EXCEPT ![t] = S]
           /\ transformed' = Notified(t, S)
           /\ method' = [method EXCEPT ![t] = m]
           /\ usedBy' = IF m # method[t] THEN Using(t, m) ELSE usedBy
           /\ own' = [own EXCEPT ![t] = v]
           /\ UNCHANGED <<kind, methodVars, halfDeleted>>
           /\ IF S # sources[t] \/ m # method[t]
              THEN Read(t, Marked \cup Outdated(t, S) \cup {t}, i, late)
              ELSE /\ dirty' = Mark(Outdated(t, S) \cup late)
                   /\ impl' = i
                   /\ Compare({})

\* Mutant: what has t as a source does not matter.
Destructible_Always(t) == t \in Existing /\ Clean(t) /\ Readable(t)

\* check_deletable: refused while another trace has t as a source.
Destructible(t) == t \in Existing /\ Clean(t) /\ Readable(t) /\ transformed[t] = {}

DeleteTrace(t) ==
  /\ Destructible(t)
  /\ kind' = [kind EXCEPT ![t] = "none"]
  /\ sources' = [sources EXCEPT ![t] = {}]
  /\ transformed' = Notified(t, {})
  /\ method' = [method EXCEPT ![t] = None]
  /\ usedBy' = Using(t, None)
  /\ own' = [own EXCEPT ![t] = None]
  /\ impl' = [impl EXCEPT ![t] = None]
  /\ dirty' = [Mark(MarkedBySources(t, {})) EXCEPT ![t] = FALSE]
  /\ halfDeleted' = halfDeleted \ {t}
  /\ UNCHANGED methodVars
  /\ Compare({})

\* The method and the sources have been told when the wait for the obsels, or for
\* the statistics, is in vain: t is still there.  Having lost its method object and
\* been marked, it is computed once in between, and marked again.
DeletionTimesOut(t) ==
  /\ kind[t] = "computed"
  /\ MayTimeOut
  /\ Destructible(t)
  /\ transformed' = Notified(t, {})
  /\ usedBy' = Using(t, None)
  /\ impl' = [impl EXCEPT ![t] = Root(method[t])]
  /\ dirty' = Mark(MarkedBySources(t, {}) \cup {t})
  /\ halfDeleted' = halfDeleted \cup {t}
  /\ UNCHANGED <<kind, sources, method, own, methodVars>>
  /\ Compare({t})

\* The state of t is read.
Refresh(t) ==
  /\ kind[t] = "computed"
  /\ ~Clean(t) /\ Readable(t)
  /\ UNCHANGED <<kind, arcs, own, params, halfDeleted>>
  /\ Read(t, Marked, impl, {})

\* The state of t, or of what is computed from it, is read; the mark of t is removed
\* before the wait for the base, which is in vain.
RefreshTimesOut(t) ==
  /\ MayTimeOut
  /\ dirty[t] /\ Marked \cap Above(t) = {} /\ Readable(t)
  /\ dirty' = [dirty EXCEPT ![t] = FALSE]
  /\ unmarked' = unmarked \cup {t}
  /\ UNCHANGED <<kind, arcs, own, params, impl, outdated, halfDeleted>>

\* The python object is collected; the next one has no method object.
Forget(t) ==
  /\ impl[t] # None
  /\ impl' = [impl EXCEPT ![t] = None]
  /\ UNCHANGED <<kind, arcs, own, params, dirty, halfDeleted>>
  /\ Compare({})

----------------------------------------------------------------------------
(* Methods *)

\* The reverse arcs once p is the parent of m.
Adopted(m, p) ==
  [x \in Methods |-> IF x = p THEN children[x] \cup {m} ELSE children[x] \ {m}]

\* The methods that inherit from m, itself included.
Heirs(m) == LET Children(x) == children[x] IN Closure({m}, Children, Methods)

\* Mutant: only the traces that use the method itself are marked.
Affected_DirectOnly(m) == usedBy[m]

\* _ack_parameter_change: the traces that use m, or a method that inherits from it.
Affected(m) == UNION {usedBy[x] : x \in Heirs(m)}

CreateMethod(m, p, v) ==
  /\ m \notin Defined
  /\ p \in Builtins \cup Defined
  /\ parent' = [parent EXCEPT ![m] = p]
  /\ children' = Adopted(m, p)
  /\ params' = [params EXCEPT ![m] = v]
  /\ UNCHANGED <<kind, sources, transformed, method, usedBy, own, dirty, impl, halfDeleted>>
  /\ Compare({})

\* Edits that change neither parent nor parameters have no effect.  A parent that
\* inherits from m is left out: _ack_parameter_change would not end.
EditMethod(m, p, v) ==
  /\ m \in Defined
  /\ p \in Builtins \cup Defined
  /\ p # parent[m] \/ v # params[m]
  /\ m \notin Lineage(p)
  /\ Reparented \/ Root(p) = Root(m) \/ \A t \in Affected(m) : impl[t] = None
  /\ parent' = [parent EXCEPT ![m] = p]
  /\ children' = Adopted(m, p)
  /\ params' = [params EXCEPT ![m] = v]
  /\ dirty' = Mark(Affected(m))
  /\ UNCHANGED <<kind, sources, transformed, method, usedBy, own, impl, halfDeleted>>
  /\ Compare({})

\* Mutant: children do not matter.
Deletable_Unused(m) == usedBy[m] = {}

\* check_deletable: nothing uses m, as far as its own graph says.
Deletable(m) == usedBy[m] = {} /\ children[m] = {}

DeleteMethod(m) ==
  /\ m \in Defined
  /\ Deletable(m)
  /\ parent' = [parent EXCEPT ![m] = None]
  /\ children' = Adopted(m, None)
  /\ params' = [params EXCEPT ![m] = None]
  /\ UNCHANGED <<kind, sources, transformed, method, usedBy, own, dirty, impl, halfDeleted>>
  /\ Compare({})

----------------------------------------------------------------------------

Next ==
  \/ \E t \in Traces, v \in Settings : CreateStored(t, v) \/ EditStored(t, v)
  \/ \E t \in Traces :
       \/ CreateComputed(t) \/ EditComputed(t)
       \/ DeleteTrace(t) \/ DeletionTimesOut(t)
       \/ Refresh(t) \/ RefreshTimesOut(t) \/ Forget(t)
  \/ \E m \in Methods, p \in Methods \cup Builtins, v \in Settings :
       CreateMethod(m, p, v) \/ EditMethod(m, p, v)
  \/ \E m \in Methods : DeleteMethod(m)

Spec == Init /\ [][Next]_vars

----------------------------------------------------------------------------
(* Properties *)

TypeOK ==
  /\ kind \in [Traces -> {"none", "stored", "computed"}]
  /\ sources \in [Traces -> SUBSET Traces]
  /\ transformed \in [Traces -> SUBSET Traces]
  /\ method \in [Traces -> Methods \cup Builtins \cup {None}]
  /\ usedBy \in [Methods -> SUBSET Traces]
  /\ parent \in [Methods -> Methods \cup Builtins \cup {None}]
  /\ children \in [Methods -> SUBSET Methods]
  /\ own \in [Traces -> Settings \cup {None}]
  /\ params \in [Methods -> Settings \cup {None}]
  /\ {dirty, outdated} \subseteq [Traces -> BOOLEAN]
  /\ impl \in [Traces -> Builtins \cup {None}]
  /\ halfDeleted \subseteq Computed /\ unmarked \subseteq Computed
  /\ \A t \in Traces : method[t] # None <=> t \in Computed
  /\ \A t \in Traces : dirty[t] \/ impl[t] # None \/ sources[t] # {} => t \in Computed

\* Each arc is in the graphs of both its ends, or in neither: it is from the
\* graph of the other end that a deletion is refused, or a trace marked.  A trace
\* whose deletion timed out is in no other graph.
ReverseArcs ==
  /\ \A s, t \in Traces : t \in transformed[s] <=> s \in sources[t] /\ t \notin halfDeleted
  /\ \A m \in Methods, t \in Traces : t \in usedBy[m] <=> method[t] = m /\ t \notin halfDeleted
  /\ \A p, m \in Methods : m \in children[p] <=> parent[m] = p

\* "I refuse to be deleted if I am used by a trace" (method.py:185), or by another
\* method, or, for a trace, as a source: what traces and methods name exists, and
\* is not half deleted, unless they are.
NoDangling ==
  /\ \A t \in Traces \ halfDeleted : sources[t] \subseteq Existing \ halfDeleted
  /\ \A t \in Computed \ halfDeleted : method[t] \in Builtins \cup Defined
  /\ \A m \in Defined : parent[m] \in Builtins \cup Defined

\* "I refuse to be deleted if I am the source of another trace" (trace.py:176): for
\* any trace.
SourcesExist == \A t \in Traces : sources[t] \subseteq Existing

\* A description that would be served without computation is the one that a new
\* python object would compute from the sources, method and parameters of now,
\* but for the two time-outs: a trace that is half deleted is told of nothing, and a
\* computation that waits in vain for the base forgets that it is due.
DescriptionUpToDate ==
  \A t \in Computed \ (halfDeleted \cup unmarked) :
    Clean(t) => ~outdated[t]
=============================================================================
