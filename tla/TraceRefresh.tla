---------------------------- MODULE TraceRefresh -----------------------------
(***************************************************************************)
(* How a chain of computed traces and their statistics are kept up to date *)
(* by threads that read them, by bin/bgcompute, by posts to the stored     *)
(* trace and by deletions, each taking its locks in an order of its own:   *)
(*   - a computation locks the obsels of the trace, then those of its      *)
(*     source, then the base, to edit the description of the trace;        *)
(*   - the statistics are locked before all those;                         *)
(*   - a deletion locks the base, then the obsels, then the statistics.    *)
(*                                                                         *)
(* A thread is the list of the steps it has still to do.  A step may       *)
(* expand into others, and an exception drops them all and releases the    *)
(* locks, as the `with' and `finally' of the code do.  Nested locks of one *)
(* thread are not steps: they neither wait nor release (ResourceLock).     *)
(* The content of a trace is a number, the posts it takes into account.    *)
(***************************************************************************)
EXTENDS Naturals, Sequences

CONSTANTS
  Threads,
  Daemons,      \* the threads that run bin/bgcompute
  Processes,
  Home,         \* the process of each thread
  Stored,       \* the stored trace at the start of the chain
  Computed,
  Source,       \* the source of each computed trace
  Nobody,
  MaxPosts,     \* bound: obsels posted
  MaxDeletes,   \* bound: deletions asked for
  PartlyRefused \* may a posted graph be refused after its first obsel?

ASSUME HomeAssumption == Home \in [Threads -> Processes] /\ Daemons \subseteq Threads
ASSUME ChainAssumption ==
  Stored \notin Computed /\ Source \in [Computed -> Computed \cup {Stored}]
ASSUME NobodyAssumption == Nobody \notin Threads
ASSUME BoundsAssumption ==
  MaxPosts \in Nat /\ MaxDeletes \in Nat /\ PartlyRefused \in BOOLEAN

VARIABLES
  content,      \* of each obsel collection
  etag,         \* of each obsel collection
  acked,        \* the content of each obsel collection at its last ack_edit
  dirty,        \* computed traces whose obsels have METADATA.dirty
  undescribed,  \* computed traces that have METADATA.dirty
  unlisted,     \* computed traces that their sources no longer list, being deleted
  gone,         \* computed traces deleted
  deletes,      \* deletions asked for
  stats,        \* of each computed trace: its count and METADATA.obselsEtag
  owner,        \* who holds each lock
  forcing,      \* __forcing_state_refresh of the objects of each process
  todo,         \* the steps each thread has still to do
  goal,         \* what a reader may expect to be served
  noted,        \* the etag that a thread will note with the statistics
  excused       \* a thread gave up waiting for the base in a refresh

data == <<content, etag, acked, dirty, undescribed, unlisted, gone, stats>>
vars == <<data, deletes, owner, forcing, todo, goal, noted, excused>>

Traces == Computed \cup {Stored}
Locks == {<<"base", Stored>>} \cup ({"obsels"} \X Traces) \cup ({"stats"} \X Computed)
Base == <<"base", Stored>>
Obsels(t) == <<"obsels", t>>
Stats(t) == <<"stats", t>>

Do(op, on) == [op |-> op, on |-> on]
Lock(l) == Do("lock", l)
Unlock(l) == Do("unlock", l)

\* The computed traces whose deletion has begun.
Former == gone \cup unlisted

\* The computed traces that t lists as made from it.
Dependents(t) == {c \in Computed \ Former : Source[c] = t}

Init ==
  /\ content = [t \in Traces |-> 0]
  /\ etag = [t \in Traces |-> 0]
  /\ acked = [t \in Traces |-> 0]
  /\ dirty = Computed
  /\ undescribed = Computed
  /\ unlisted = {}
  /\ gone = {}
  /\ deletes = 0
  /\ stats = [c \in Computed |-> [count |-> 0, etag |-> 0]]
  /\ owner = [l \in Locks |-> Nobody]
  /\ forcing = {}
  /\ todo = [th \in Threads |-> <<>>]
  /\ goal = [th \in Threads |-> 0]
  /\ noted = [th \in Threads |-> 0]
  /\ excused = FALSE

----------------------------------------------------------------------------
(* What the operations are made of *)

\* Mutant: the source is refreshed once the computation is over.
RefreshObsels_SourceLast(th, c) ==
  IF c = Stored \/ <<Home[th], c>> \in forcing THEN <<>>
  ELSE LET body == <<Do("force", c), Do("check", c), Do("refresh", Source[c]),
                     Do("unforce", c)>>
       IN  IF owner[Obsels(c)] = th THEN body
           ELSE <<Lock(Obsels(c))>> \o body \o <<Unlock(Obsels(c))>>

\* ComputedTraceObsels.force_state_refresh, for a thread that holds the locks.
RefreshObsels(th, c) ==
  IF c = Stored \/ <<Home[th], c>> \in forcing THEN <<>>
  ELSE LET body == <<Do("force", c), Do("refresh", Source[c]), Do("check", c),
                     Do("unforce", c)>>
       IN  IF owner[Obsels(c)] = th THEN body
           ELSE <<Lock(Obsels(c))>> \o body \o <<Unlock(Obsels(c))>>

\* Mutant: the mark is removed once the computation is over.
Recompute_ClearLast(c) == <<Do("describe", c), Do("copy", c), Do("ack", c), Do("clear", c)>>

\* The part of it that is done if the collection is dirty.
Recompute(c) == <<Do("clear", c), Do("describe", c), Do("copy", c), Do("ack", c)>>

\* ComputedTrace.force_state_refresh, for a trace that is dirty.
Describe(c) ==
  <<Do("clearDescription", c), Lock(Base), Unlock(Base), Do("described", c)>>

\* Mutant: the etag is read once the statistics are computed.
RefreshStats_EtagLast(c) ==
  <<Lock(Stats(c)), Do("describe", c), Do("refresh", c),
    Do("populate", c), Do("note", c), Do("sign", c), Unlock(Stats(c))>>

\* TraceStatistics.force_state_refresh
RefreshStats(c) ==
  <<Lock(Stats(c)), Do("describe", c), Do("refresh", c),
    Do("note", c), Do("populate", c), Do("sign", c), Unlock(Stats(c))>>

\* StoredTrace.post_graph: the obsel is added, then ack_edit renews the etag
\* and marks the transformed traces; an exception in between skips it.
PostGraph == <<Lock(Obsels(Stored)), Do("add", Stored), Do("ack", Stored), Unlock(Obsels(Stored))>>
PostRefused == <<Lock(Obsels(Stored)), Do("add", Stored), Unlock(Obsels(Stored))>>

\* InBase.delete, then AbstractTrace.ack_delete: the source has been told when the
\* waits begin, and is not told again if one of them is in vain.  (The obsels are
\* then gone or not; that they are still served is more than the code does.)
DeleteTrace(c) ==
  <<Lock(Base), Do("deletable", c), Lock(Obsels(c)), Unlock(Obsels(c)),
    Lock(Stats(c)), Unlock(Stats(c)), Do("delete", c), Unlock(Base)>>

Idle(th) == todo[th] = <<>>
Begin(th, steps) == todo' = [todo EXCEPT ![th] = steps]

Get(th, c) ==
  /\ Idle(th) /\ c \notin gone
  /\ Begin(th, <<Do("refresh", c), Do("serve", c)>>)
  /\ goal' = [goal EXCEPT ![th] = acked[Stored]]
  /\ UNCHANGED <<data, deletes, owner, forcing, noted, excused>>

GetStats(th, c) ==
  /\ Idle(th) /\ c \notin gone
  /\ Begin(th, RefreshStats(c))
  /\ UNCHANGED <<data, deletes, owner, forcing, goal, noted, excused>>

\* bgcompute: with tto.lock(tto, 1): tto.force_state_refresh()
Work(th, c) ==
  /\ Idle(th) /\ c \notin gone
  /\ Begin(th, <<Lock(Obsels(c)), Do("refresh", c), Unlock(Obsels(c))>>)
  /\ UNCHANGED <<data, deletes, owner, forcing, goal, noted, excused>>

Post(th) ==
  /\ Idle(th) /\ content[Stored] < MaxPosts
  /\ \/ Begin(th, PostGraph)
     \/ PartlyRefused /\ Begin(th, PostRefused)
  /\ UNCHANGED <<data, deletes, owner, forcing, goal, noted, excused>>

Delete(th, c) ==
  /\ Idle(th) /\ c \notin gone /\ deletes < MaxDeletes
  /\ Begin(th, DeleteTrace(c))
  /\ deletes' = deletes + 1
  /\ UNCHANGED <<data, owner, forcing, goal, noted, excused>>

----------------------------------------------------------------------------
(* The steps *)

NextIs(th, op) == todo[th] # <<>> /\ Head(todo[th]).op = op
On(th) == Head(todo[th]).on
Then(th, steps) == todo' = [todo EXCEPT ![th] = steps \o Tail(@)]

\* An exception: the steps that are left are not done.
Raise(th) ==
  /\ todo' = [todo EXCEPT ![th] = <<>>]
  /\ owner' = [l \in Locks |-> IF owner[l] = th THEN Nobody ELSE owner[l]]
  /\ forcing' = {f \in forcing : owner[Obsels(f[2])] # th}
  /\ goal' = [goal EXCEPT ![th] = 0]
  /\ noted' = [noted EXCEPT ![th] = 0]

Acquire(th) ==
  /\ NextIs(th, "lock") /\ owner[On(th)] = Nobody
  /\ IF On(th)[2] \in gone
     THEN Raise(th)
     ELSE /\ owner' = [owner EXCEPT ![On(th)] = th]
          /\ Then(th, <<>>)
          /\ UNCHANGED <<forcing, goal, noted>>
  /\ UNCHANGED <<data, deletes, excused>>

\* Mutant: lock() waits again and again.
TimeOut_Never(th) ==
  /\ NextIs(th, "lock") /\ owner[On(th)] # Nobody
  /\ UNCHANGED vars

TimeOut(th) ==
  /\ NextIs(th, "lock") /\ owner[On(th)] # Nobody
  /\ Raise(th)
  /\ excused' = (excused \/ On(th) = Base)
  /\ UNCHANGED <<data, deletes>>

Release(th) ==
  /\ NextIs(th, "unlock")
  /\ owner' = [owner EXCEPT ![On(th)] = Nobody]
  /\ Then(th, <<>>)
  /\ UNCHANGED <<data, deletes, forcing, goal, noted, excused>>

\* Steps that only call others, or set and reset the flag of the object.
Call(th) ==
  /\ \/ /\ NextIs(th, "refresh")
        /\ Then(th, RefreshObsels(th, On(th)))
        /\ UNCHANGED forcing
     \/ /\ NextIs(th, "check")
        /\ Then(th, IF On(th) \in dirty THEN Recompute(On(th)) ELSE <<>>)
        /\ UNCHANGED forcing
     \/ /\ NextIs(th, "describe")
        /\ Then(th, IF On(th) \in undescribed THEN Describe(On(th)) ELSE <<>>)
        /\ UNCHANGED forcing
     \/ /\ NextIs(th, "force")
        /\ forcing' = forcing \cup {<<Home[th], On(th)>>}
        /\ Then(th, <<>>)
     \/ /\ NextIs(th, "unforce")
        /\ forcing' = forcing \ {<<Home[th], On(th)>>}
        /\ Then(th, <<>>)
  /\ UNCHANGED <<data, deletes, owner, goal, noted, excused>>

\* The steps of a computation.  `copy' edits the obsels; the end of that edit,
\* like the end of a post, is `ack'.
Compute(th) ==
  /\ \/ /\ NextIs(th, "clear")
        /\ dirty' = dirty \ {On(th)}
        /\ UNCHANGED <<content, etag, acked, undescribed>>
     \/ /\ NextIs(th, "clearDescription")
        /\ undescribed' = undescribed \ {On(th)}
        /\ UNCHANGED <<content, etag, acked, dirty>>
     \/ /\ NextIs(th, "described")
        /\ undescribed' = undescribed \cup Dependents(On(th))
        /\ dirty' = dirty \cup Dependents(On(th))
        /\ UNCHANGED <<content, etag, acked>>
     \/ /\ NextIs(th, "copy")
        /\ content' = [content EXCEPT ![On(th)] = content[Source[On(th)]]]
        /\ UNCHANGED <<etag, acked, dirty, undescribed>>
     \/ /\ NextIs(th, "add")
        /\ content' = [content EXCEPT ![Stored] = @ + 1]
        /\ UNCHANGED <<etag, acked, dirty, undescribed>>
     \/ /\ NextIs(th, "ack")
        /\ etag' = [etag EXCEPT ![On(th)] = @ + 1]
        /\ dirty' = dirty \cup Dependents(On(th))
        /\ acked' = [acked EXCEPT ![On(th)] = content[On(th)]]
        /\ UNCHANGED <<content, undescribed>>
  /\ Then(th, <<>>)
  /\ UNCHANGED <<unlisted, gone, stats, deletes, owner, forcing, goal, noted, excused>>

Serve(th) ==
  /\ NextIs(th, "serve")
  /\ Then(th, <<>>)
  /\ goal' = [goal EXCEPT ![th] = 0]
  /\ UNCHANGED <<data, deletes, owner, forcing, noted, excused>>

\* The statistics: nothing more is done if the etag is the one they have.
Note(th) ==
  /\ NextIs(th, "note")
  /\ noted' = [noted EXCEPT ![th] = etag[On(th)]]
  /\ Then(th, <<>>)
  /\ UNCHANGED <<data, deletes, owner, forcing, goal, excused>>

WriteStats(th) ==
  /\ \/ /\ NextIs(th, "populate")
        /\ IF noted[th] = stats[On(th)].etag THEN UNCHANGED stats
           ELSE stats' = [stats EXCEPT ![On(th)].count = content[On(th)]]
        /\ UNCHANGED noted
     \/ /\ NextIs(th, "sign")
        /\ stats' = [stats EXCEPT ![On(th)].etag = noted[th]]
        /\ noted' = [noted EXCEPT ![th] = 0]
  /\ Then(th, <<>>)
  /\ UNCHANGED <<content, etag, acked, dirty, undescribed, unlisted, gone>>
  /\ UNCHANGED <<deletes, owner, forcing, goal, excused>>

\* check_deletable; reading the state for it raises an exception if the source is gone.
MayDelete(c) == Dependents(c) = {} /\ {c, Source[c]} \cap gone = {}

\* The source of c is edited not to list c any more: it marks the others that it
\* lists, and c marks itself.
ToldToSource(c) ==
  /\ unlisted' = unlisted \cup {c}
  /\ dirty' = dirty \cup {c} \cup Dependents(Source[c])
  /\ undescribed' = undescribed \cup {c} \cup Dependents(Source[c])

\* check_deletable, then what ack_delete does before it has to wait; and the
\* deletion itself.
Destroy(th) ==
  /\ \/ /\ NextIs(th, "deletable") /\ MayDelete(On(th))
        /\ ToldToSource(On(th))
        /\ Then(th, <<>>)
        /\ UNCHANGED <<gone, owner, forcing, goal, noted>>
     \/ /\ NextIs(th, "deletable") /\ ~MayDelete(On(th))
        /\ Raise(th)
        /\ UNCHANGED <<dirty, undescribed, unlisted, gone>>
     \/ /\ NextIs(th, "delete")
        /\ gone' = gone \cup {On(th)}
        /\ Then(th, <<>>)
        /\ UNCHANGED <<dirty, undescribed, unlisted, owner, forcing, goal, noted>>
  /\ UNCHANGED <<content, etag, acked, stats, deletes, excused>>

Step(th) ==
  \/ Acquire(th) \/ TimeOut(th) \/ Release(th)
  \/ Call(th) \/ Compute(th) \/ Serve(th) \/ Note(th) \/ WriteStats(th) \/ Destroy(th)

Next ==
  \E th \in Threads :
    \/ Step(th)
    \/ \E c \in Computed : th \in Daemons /\ Work(th, c)
    \/ th \notin Daemons /\ Post(th)
    \/ \E c \in Computed : th \notin Daemons /\ (Get(th, c) \/ GetStats(th, c) \/ Delete(th, c))

\* Each thread is scheduled, and a wait has an end.
Fairness == \A th \in Threads : WF_vars(Step(th))

Spec == Init /\ [][Next]_vars /\ Fairness

----------------------------------------------------------------------------
(* Properties *)

\* Types; what has been acknowledged is there, and a lock is held by a thread
\* that has something to do.
TypeOK ==
  /\ content \in [Traces -> Nat]
  /\ etag \in [Traces -> Nat]
  /\ acked \in [Traces -> Nat] /\ \A t \in Traces : acked[t] <= content[t]
  /\ {dirty, undescribed, unlisted, gone} \subseteq SUBSET Computed
  /\ stats \in [Computed -> [count : Nat, etag : Nat]]
  /\ noted \in [Threads -> Nat] /\ goal \in [Threads -> Nat]
  /\ owner \in [Locks -> Threads \cup {Nobody}]
  /\ forcing \subseteq Processes \X Computed
  /\ \A l \in Locks : owner[l] # Nobody => ~Idle(owner[l])

\* Has some thread still to acknowledge a change of t, or to compute it?
Pending(t, ops) ==
  \E th \in Threads : \E k \in DOMAIN todo[th] :
    todo[th][k].on = t /\ todo[th][k].op \in ops

\* A computed trace that is not what its source says is marked, unless a thread
\* is about to compute it or to mark it: whatever the interleaving of posts,
\* computations and deletions, as long as no refresh waits in vain for the base,
\* and unless a deletion of the trace has begun.
StaleIsMarked ==
  \A c \in Computed \ Former :
    \/ content[c] = content[Source[c]]
    \/ c \in dirty
    \/ Pending(c, {"copy"})
    \/ Pending(Source[c], {"ack"})
    \/ excused

\* "Always up-to-date w.r.t. the sources" (doc/source/rest/ComputedTrace.rst:4):
\* what a reader is served takes into account all the posts that were complete
\* when it asked, unless a deletion of the trace has begun: if it does not end,
\* the source marks the trace no more.
ReadsAreFresh ==
  [][\A th \in Threads :
       NextIs(th, "serve") /\ todo'[th] = <<>>
         => content[On(th)] >= goal[th] \/ On(th) \in Former \/ excused]_vars

\* The same of all traces that are not deleted.
AllReadsAreFresh ==
  [][\A th \in Threads :
       NextIs(th, "serve") /\ todo'[th] = <<>>
         => content[On(th)] >= goal[th] \/ On(th) \in gone \/ excused]_vars

\* Statistics that carry the etag of the obsels are the statistics of these
\* obsels, once nobody is changing either.
StatsHonest ==
  \A c \in Computed \ gone :
    stats[c].etag = etag[c] /\ ~Pending(c, {"ack", "sign"})
      => stats[c].count = content[c]

\* Every operation returns: the locks are not taken in one order, but no wait
\* lasts for ever.
OperationsReturn == \A th \in Threads : []<>Idle(th)
=============================================================================
