---------------------------- MODULE FilteredTrace ----------------------------
(***************************************************************************)
(* A computed trace with the method `filter', restricted to its temporal   *)
(* boundaries, on top of the collection that is its source.                *)
(*                                                                         *)
(* The obsels of a computed trace are stored, and a dirty mark tells that  *)
(* they have to be computed again (ComputedTraceObsels).  The method then  *)
(* compares the tags of the source with those it noted the last time       *)
(* (methods/abstract.py) and computes as little as they allow              *)
(* (methods/filter.py).  A computation reads the source several times and  *)
(* does not lock it: it is a sequence of steps.                            *)
(*                                                                         *)
(* Of the tags that the method noted, only which ones the source still has *)
(* matters: `kept'.  Copied obsels have the names of their originals.      *)
(***************************************************************************)
EXTENDS ObselCollection, Integers, Functions

CONSTANTS
  Bounds,         \* temporal boundaries, as records [min, max]
  NoTime,         \* no boundary
  MaxArcs,        \* bound: arcs between obsels of the source
  MaxAmend,       \* bound: edits of the source, its range or the boundaries
  OneAtATime,     \* is a computation finished before the next request?
  LongObsels,     \* may an obsel begin long before another that it ends with?
  MinWithRange,   \* may there be a lower boundary if the source has a range?
  ForcedFails     \* may a forced computation fail after it has emptied the trace?

ASSUME BoundsAssumption ==
  /\ NoTime \notin Nat
  /\ Bounds \subseteq [min : Nat \cup {NoTime}, max : Nat \cup {NoTime}]
ASSUME MaxAssumption == {MaxArcs, MaxAmend} \subseteq Nat
ASSUME UseAssumption == {OneAtATime, LongObsels, MinWithRange, ForcedFails} \subseteq BOOLEAN

VARIABLES
  bounds,     \* parameters `after' and `before' of the computed trace
  undescribed,\* METADATA.dirty of the trace: its description is out of date
  dirty,      \* METADATA.dirty of its obsels
  target,     \* the obsels copied so far
  targetArcs,
  cstate,     \* METADATA.computation_state
  mode,       \* monotonicity assumed by the current computation
  phase,      \* next step of the current computation
  amended     \* number of edits, up to MaxAmend

computed == <<bounds, undescribed, dirty, target, targetArcs, cstate, mode, phase>>

vars == <<collection, computed, amended>>

MonTags == {"str", "pse", "log"}
Modes == {"strict", "pseudo", "logic", "not"}

\* compute_trace_description and init_state: a state that no tag vouches for.
Described(b) ==
  [kept |-> {}, min |-> b.min, max |-> b.max,
   seen |-> None, seenB |-> NoTime, passed |-> FALSE]

InitComputed ==
  /\ bounds \in Bounds
  /\ undescribed = TRUE
  /\ dirty = TRUE
  /\ target = [o \in {} |-> [b |-> 0, e |-> 0]]
  /\ targetArcs = {}
  /\ cstate = Described(bounds)
  /\ mode = "not"
  /\ phase = "idle"
  /\ amended = 0

\* What the constants allow: obsels that end within the range of one another
\* also begin within it; a range only without a lower boundary.
Tame(f, r, b) ==
  /\ ~LongObsels => \A o, p \in DOMAIN f : f[o].e + r >= f[p].e => f[o].b + r >= f[p].b
  /\ ~MinWithRange => r = 0 \/ b.min = NoTime

FilteredInit == Init /\ InitComputed /\ Tame(obsels, range, bounds)

\* Requests that change the source or the computed trace are served when no
\* computation is under way, or at any time.
Served == OneAtATime => phase = "idle"

----------------------------------------------------------------------------
(* Changes *)

\* The end of AbstractTraceObsels.ack_edit of the source.
MarkObsels ==
  /\ dirty' = TRUE
  /\ cstate' = [cstate EXCEPT !.kept = @ \ renewed']
  /\ UNCHANGED <<bounds, undescribed, target, targetArcs, mode, phase>>

CollectSource(batch) ==
  /\ Served
  /\ Post(batch)
  /\ Cardinality(arcs') <= MaxArcs
  /\ MarkObsels
  /\ Tame(obsels', range', bounds)
  /\ UNCHANGED amended

\* An edit of the source that removes an obsel or gives it other timestamps.
Amended ==
  {Restrict(obsels, DOMAIN obsels \ {o}) : o \in DOMAIN obsels} \cup
  {[obsels EXCEPT ![o] = i] : o \in DOMAIN obsels, i \in Intervals}

AmendSource(f, keptArcs) ==
  /\ Served
  /\ amended < MaxAmend
  /\ Edit(f, keptArcs)
  /\ MarkObsels
  /\ Tame(obsels', range', bounds)
  /\ amended' = amended + 1

\* AbstractTrace.ack_edit of the source: besides its obsels, the computed trace
\* itself is marked, and will be described again.
RangeSource(r) ==
  /\ Served
  /\ amended < MaxAmend
  /\ ChangeRange(r)
  /\ undescribed' = TRUE
  /\ dirty' = TRUE
  /\ cstate' = [cstate EXCEPT !.kept = @ \ renewed']
  /\ Tame(obsels, range', bounds)
  /\ amended' = amended + 1
  /\ UNCHANGED <<bounds, target, targetArcs, mode, phase>>

\* The parameters of the computed trace are edited (ComputedTrace.ack_edit).
EditBounds(b) ==
  /\ Served
  /\ amended < MaxAmend
  /\ b # bounds
  /\ Tame(obsels, range, b)
  /\ bounds' = b
  /\ undescribed' = TRUE
  /\ dirty' = TRUE
  /\ amended' = amended + 1
  /\ UNCHANGED <<collection, target, targetArcs, cstate, mode, phase>>

----------------------------------------------------------------------------
(* Computation: force_state_refresh, compute_obsels, do_compute_obsels *)

SourceUnchanged == renewed' = {} /\ UNCHANGED <<obsels, arcs, last, range>>

\* The tags are compared from the most to the least demanding.
Monotonicity(c) ==
  IF "str" \in c.kept THEN "strict"
  ELSE IF "pse" \in c.kept THEN "pseudo"
  ELSE IF "log" \in c.kept THEN "logic" ELSE "not"

\* The trace is requested, not its obsels: its description is computed.
Describe ==
  /\ phase = "idle"
  /\ undescribed
  /\ undescribed' = FALSE
  /\ cstate' = Described(bounds)
  /\ SourceUnchanged
  /\ UNCHANGED <<bounds, dirty, target, targetArcs, mode, phase, amended>>

\* The obsels are requested: with refresh=force, they are computed from scratch.
\* The mark is removed first.  A strict computation that has already met the
\* upper boundary has nothing to read.
Begin(force) ==
  LET c == IF undescribed THEN Described(bounds) ELSE cstate
      m == IF force THEN "not" ELSE Monotonicity(c)
  IN  /\ phase = "idle"
      /\ dirty \/ force
      /\ dirty' = FALSE
      /\ undescribed' = FALSE
      /\ cstate' = c
      /\ mode' = m
      /\ phase' = IF m = "strict" /\ c.passed THEN "note" ELSE "copy"
      /\ SourceUnchanged
      /\ UNCHANGED <<bounds, target, targetArcs, amended>>

AtLeast(time, min) == min = NoTime \/ time >= min
AtMost(time, max) == max = NoTime \/ time <= max

\* Lower boundary of the obsels that the computation reads.
From ==
  IF mode = "pseudo" /\ cstate.seenB # NoTime THEN cstate.seenB - range ELSE cstate.min

Within(o) == AtLeast(obsels[o].b, From) /\ AtMost(obsels[o].e, cstate.max)

\* iter_obsels(after, begin, end): the obsels that the computation reads.  The
\* boundaries bear only on the first of the three ways to be after an obsel.
Read ==
  IF mode = "strict" /\ cstate.seen # None
  THEN IF cstate.seen \notin DOMAIN obsels THEN {}
       ELSE {o \in DOMAIN obsels :
               /\ After(obsels, o, cstate.seen)
               /\ obsels[o].e > obsels[cstate.seen].e => Within(o)}
  ELSE {o \in DOMAIN obsels : Within(o)}

\* Mutant: the computed trace is emptied whatever the monotonicity.
Copied_AlwaysEmptied(S) == [o \in S |-> obsels[o]]

\* The target once the obsels of S are copied.  A strict computation does not
\* look whether they are there already, and copies them again; another one
\* leaves them, and one that assumes nothing starts from an empty target.
Copied(S) ==
  LET old == IF mode = "not" THEN {} ELSE DOMAIN target
  IN  [o \in old \cup S |->
         IF o \in old /\ (o \notin S \/ mode # "strict") THEN target[o] ELSE obsels[o]]

\* copy_obsel: arcs to obsels that are in the target, or will be.
CopiedArcs(S) ==
  LET old == IF mode = "not" THEN {} ELSE DOMAIN target
      new == IF mode = "strict" THEN S ELSE S \ old
  IN  (IF mode = "not" THEN {} ELSE targetArcs)
        \cup {a \in arcs : a \subseteq old \cup S /\ a \cap new # {}}

Stop == phase' = "idle" /\ mode' = "not"

\* The obsels are copied in their order; the computation may fail on the way,
\* and then the mark is set again, but the copies remain.
Copy(S) ==
  /\ phase = "copy"
  /\ target' = Copied(S)
  /\ targetArcs' = CopiedArcs(S)
  /\ SourceUnchanged
  /\ UNCHANGED <<bounds, undescribed, cstate, amended>>

CopyAll == Copy(Read) /\ phase' = "see" /\ UNCHANGED <<dirty, mode>>

CopyFails(S) ==
  /\ mode = "not" /\ cstate.kept # {} => ForcedFails
  /\ Copy(S)
  /\ Stop
  /\ dirty' = TRUE

Partial == {S \in SUBSET Read : \A o \in S, p \in Read \ S : After(obsels, p, o)}

\* Mutant: the upper boundary is taken for passed by an obsel that reaches it.
Passed_AtBoundary(o) == cstate.max # NoTime /\ obsels[o].e >= cstate.max

Passed(o) == cstate.max # NoTime /\ obsels[o].e > cstate.max

\* The last obsel of the source is noted, whatever its end.  (What is kept of
\* an earlier computation is forgotten by a computation from scratch.)
See ==
  LET from == {o \in DOMAIN obsels : AtLeast(obsels[o].b, From)}
      fresh == [cstate EXCEPT !.seen = None, !.seenB = NoTime, !.passed = FALSE]
  IN  /\ phase = "see"
      /\ \/ from = {} /\ cstate' = IF mode = "not" THEN fresh ELSE cstate
         \/ \E o \in from :
              /\ \A p \in from \ {o} : After(obsels, o, p)
              /\ cstate' = [cstate EXCEPT !.seen = o, !.seenB = obsels[o].b, !.passed = Passed(o)]
      /\ phase' = "note"
      /\ SourceUnchanged
      /\ UNCHANGED <<bounds, undescribed, dirty, target, targetArcs, mode, amended>>

\* The tags of the source are noted last.
NoteTags ==
  /\ phase = "note"
  /\ cstate' = [cstate EXCEPT !.kept = MonTags]
  /\ Stop
  /\ SourceUnchanged
  /\ UNCHANGED <<bounds, undescribed, dirty, target, targetArcs, amended>>

----------------------------------------------------------------------------

Change ==
  \/ \E batch \in Batches : CollectSource(batch)
  \/ \E f \in Amended : \E kept \in SUBSET arcs : AmendSource(f, kept)
  \/ \E r \in Ranges : RangeSource(r)
  \/ \E b \in Bounds : EditBounds(b)

Compute ==
  \/ Describe
  \/ \E force \in BOOLEAN : Begin(force)
  \/ CopyAll
  \/ \E S \in Partial : CopyFails(S)
  \/ See
  \/ NoteTags

FilteredNext == Change \/ Compute

FilteredSpec == FilteredInit /\ [][FilteredNext]_vars

----------------------------------------------------------------------------
(* Properties *)

FilteredTypeOK ==
  /\ TypeOK
  /\ bounds \in Bounds
  /\ {undescribed, dirty} \subseteq BOOLEAN
  /\ target \in Contents
  /\ targetArcs \subseteq SUBSET DOMAIN target
  /\ cstate \in [kept : SUBSET MonTags, min : Nat \cup {NoTime}, max : Nat \cup {NoTime},
                 seen : Ids \cup {None}, seenB : Nat \cup {NoTime}, passed : BOOLEAN]
  /\ mode \in Modes
  /\ phase \in {"idle", "copy", "see", "note"}
  /\ amended \in 0 .. MaxAmend

\* "Temporal boundaries are inclusive, but obsels must be entirely contained in
\* them" (doc/source/methods/filter.rst:34).
Selected ==
  {o \in DOMAIN obsels : AtLeast(obsels[o].b, bounds.min) /\ AtMost(obsels[o].e, bounds.max)}

\* "It can be assumed to be computed dynamically and always up-to-date w.r.t.
\* the sources" (doc/source/rest/ComputedTrace.rst:4): obsels that are served
\* without computation are those that a computation from scratch would give.
ViewUpToDate ==
  phase = "idle" /\ ~dirty =>
    /\ target = [o \in Selected |-> obsels[o]]
    /\ targetArcs = {a \in arcs : a \subseteq Selected}

\* "The computed trace will evolve in a strict (resp. logical, non) monotonic
\* way if the source trace evolves" so (concepts/monotonicity.rst:51): as long
\* as the source keeps its logical tag, nothing copied is lost or changed; as
\* long as it keeps its strict tag, copies are only added after the others.
FilterIsMonotonic ==
  [][/\ phase = "copy" /\ mode # "not" =>
          /\ \A o \in DOMAIN target : o \in DOMAIN target' /\ target'[o] = target[o]
          /\ targetArcs \subseteq targetArcs'
     /\ phase = "copy" /\ mode = "strict" =>
          \A n \in DOMAIN target' \ DOMAIN target :
            \A o \in DOMAIN target : After(target', n, o)]_vars
=============================================================================
