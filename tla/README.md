# kTBS in TLA+

Specifications of [kTBS](../src/README.rst), the kernel for Trace-Based Systems, a
REST server that stores *traces* (collections of timestamped *obsels*) and
computes new traces out of others. Paths below are relative to `src/`; line
numbers refer to the commit the specifications were written from. "The code"
always means `lib/`, `bin/`.

1. [Inventory](#inventory)
2. [Modules, and how they correspond to the code](#modules)
3. [Runs: what is checked, bounds, fairness](#runs)
4. [Disagreements between the code and its documentation](#findings)
5. [Proofs](#proofs)
6. [What is not modelled](#not-modelled)
7. [Plan](#plan)

`tlc -config X.cfg M` checks a run, `tlapm M_proofs.tla` the proofs. Operators
named `D_Something`, introduced by "Mutant:", are plausible mistakes in the
definition `D`; they are used nowhere, and each shows that a property would
notice (the pairs are listed in `PROJECT.json`).

<a name="inventory"></a>
## 1. Inventory

### Layers

`lib/rdfrest` is a generic REST-over-RDF framework; `lib/ktbs` is built on it.

| component | state | operations | where |
|---|---|---|---|
| resource lock | POSIX named semaphore per resource; `__locking_thread_id` per python object | `lock`, nested in one thread; timeout; `ktbs-reset-locks` | `lib/ktbs/engine/lock.py`, `bin/ktbs-reset-locks` |
| service and local resources | cache of python objects; `_context_level`; one RDF graph and one metadata graph per resource; trusted/untrusted edit contexts | `get`, `create`, `edit`, `delete`, `post_graph`, commit/rollback | `lib/rdfrest/cores/local.py`, `mixins.py` |
| root, bases, items | `ktbs:hasBase`, `ktbs:contains` arcs | create and delete a base, a method, a model, a trace | `lib/ktbs/engine/ktbs_root.py`, `base.py`, `resource.py` |
| obsel collection | obsels and arcs; metadata `last_obsel`, etag, three monotonicity tags; dirty mark | post obsels, edit, empty, get a page | `lib/ktbs/engine/trace_obsels.py`, `obsel.py` |
| traces | `hasSource`, `hasMethod`, parameters, range, their reverse arcs | create, edit, delete, refresh | `lib/ktbs/engine/trace.py` |
| methods | per trace: `computation_state` (what was seen of the source and under which tags) | `compute_trace_description`, `compute_obsels` | `lib/ktbs/methods/` |
| composite methods | intermediate traces of the same base, one per sub-method | created, updated and deleted by the description of the composite trace | `lib/ktbs/methods/pipe.py`, `parallel.py` |
| models | types, attributes, relations, hierarchies, across models | edit, list types and inherited attributes | `lib/ktbs/api/trace_model.py` |
| statistics | a cached graph with the etags it was computed from | refresh on read | `lib/ktbs/engine/trace_stats.py` |
| HTTP server, client | per request; per remote graph its etag and local changes | GET, PUT with If-Match, POST, DELETE | `lib/rdfrest/http_server.py`, `cores/http_client.py`, `util/proxystore.py` |
| parsers, serializers | registries, in the order of registration | negotiate, write, read again | `lib/rdfrest/parsers.py`, `serializers/`, `lib/ktbs/serpar/` |
| descriptions | tables of the classes: what is reserved, mandatory, of which type and how many | complete, check and name a posted graph; the Python API that makes such graphs | `lib/rdfrest/cores/mixins.py`, `lib/ktbs/engine/`, `lib/ktbs/api/` |
| view of a base | none | patterns and paths over the graphs under a prefix | `lib/rdfrest/util/prefix_conjunctive_view.py` |
| background computation | none | walks all traces and refreshes them | `bin/bgcompute` |

### Interactions

* Every operation that changes a resource is inside the *lock* of its base (or of
  the root), taken by `edit`, `post_graph` and `delete` (`lock.py:147-166`), and
  inside edit contexts of the resources concerned, which are inside the *service
  context*. The obsel collection and the statistics of a trace have locks of
  their own.
* Changes are pushed downwards by hooks (`prepare_edit`, `ack_edit`, `ack_post`,
  `ack_delete`): a changed source *marks* its transformed traces dirty, in the
  same edit. Computation is pulled upwards: asking for the obsels of a dirty
  trace (`force_state_refresh`) computes them.
* The *tags* of an obsel collection are the contract between a source and those
  who depend on it: computed traces compare them with the ones they noted, and
  HTTP caches keep pages under them.
* Several threads of a server, and several processes (server workers,
  `bgcompute`), share the store and the semaphores, not the python objects.

### What is hard

* Locks with two halves: a semaphore between processes, an attribute of a python
  object inside one; several objects may stand for one resource (`Service.get`
  does check-then-insert).
* Semaphores that are unlinked and created again while threads wait on them.
* Objects that are deleted while other threads hold them.
* Tags: cheap comparisons with the last obsel decide how much a computation may
  skip, several requests later. A tag that is kept wrongly is silent for ever.
* Computations that read their source several times, without locking it, and
  that may fail after half of the changes.
* Locks taken in two orders (collection then base, base then collection).
* A commit counter shared by threads; conditional PUT checked before the lock.
* Operations that change other resources, then wait, perhaps in vain: the deletion of a
  trace has told its sources when it asks for the lock of the obsels.
* Descriptions that a client reads, changes and puts back: what the server adds to
  them must be accepted, and JSON-LD must read what it wrote.
* Slices of a collection cut in pages by several URIs, while the collection grows.

### What makes each part correct

| part | correctness |
|---|---|
| lock | one thread in charge, whatever the objects; the token neither lost nor duplicated except by a crash; calls return |
| lifecycle | what is in the store is what the containers list; no orphan; only an empty base goes; no resource created over another; a late deletion removes nothing else |
| collection | the last obsel is the last one; a tag that is kept tells the truth |
| computed trace | what is served without computation is what a computation from scratch would give |
| trace graph | arcs and reverse arcs agree; what is in use cannot be deleted; a description that would be served is the one a new computation would give; a wait in vain spoils one trace at most |
| edit contexts | a refused edit leaves no trace; one commit for one outermost context; an etag stands for one content; what was acknowledged stays |
| refreshes | a stale trace is marked; readers are served what was complete when they asked (unless a deletion of the trace has begun); every operation returns, although locks are not taken in one order |
| incremental methods | what is skipped, resumed or done again adds up to a computation from scratch |
| composite traces | they hold what their methods make of their source |
| HTTP | the resource is a compare-and-set register; who replaces a content has seen it; an edit that failed is forgotten by the client |
| descriptions | what is read may be put back; a creation that spares the checks would have passed them |
| pages, graphs, times of obsels | pages are the slice; a page under a kept tag does not change; an obsel reads the same in the collection, in its own state and in slices, and takes only its own arcs with it; times given in order are stored in order |
| formats | what is negotiated is what its location says; what is written is read as what it was |

The full list of hazards, each at its line, is in `PROJECT.json`.

<a name="modules"></a>
## 2. Modules

The line-by-line correspondence is `map` in `PROJECT.json`.

### `Mutex`, `ResourceLock`: the lock of one resource

`Mutex` is the promise: nobody or one thread is in charge; who dies in charge
leaves the resource *dead* until revived. `ResourceLock` is `WithLockMixin.lock`:

| action | code |
|---|---|
| `Reenter` | `lock.py:112`: `__locking_thread_id` is this thread, so the semaphore is not touched |
| `Open`, `Acquire`, `TimeOut` | `_get_semaphore`, `acquire(timeout)`, `BusyError` |
| `CheckAndOwn` | the assertion `This lock is corrupted` and the attribute; an `AssertionError` is raised outside the inner `try`, so the token would be lost |
| `ExitNested`, `Leave`, `Release` | the two lines of the `finally` clause are two steps |
| `Kill` | a process vanishes with its objects, the semaphore stays |
| `Reset` | `bin/ktbs-reset-locks`, whose help says it must not be used on a running kTBS: guard "no thread in `lock`" |

A thread may use any object of its process, also a second one while it has the
lock through a first one: it then waits for itself until the timeout. `nested`
counts nested entries only to bound behaviours.

### `BaseLifecycle`: creating and deleting bases and items

One step per statement that another thread can observe: opening, waiting for and
releasing the semaphores, the check of the posted URI, the graph, the
registration in the container, `Unlink`, `Clear`, `Mark`. A semaphore has one
value per *generation*: after `Unlink`, threads that have the old one open go on
with it, and the next `sem_open` makes a new one. `object[r]` numbers the python
object of a resource: one that is older than the current one is a
`_DeletedCore` (`local.py:997-1012`), and `Enter` refuses it (`lock.py:129`).
Edits nested in a lock that the thread holds are part of the step.

`QuietDelete` is a discipline of the clients, not of the code: nobody uses a base
while it is being deleted. The passing run assumes it; `base_delete_race` shows
what happens without (section 4).

### `ObselCollection`: obsels, the last one, the tags

`Post` is the whole of `StoredTrace.post_graph`: the obsels of the graph are
sorted, added and compared with the last obsel one by one (`Detect` is
`_detect_mon_change`, with the asymmetries of the code: a related obsel counts
as changed, the first obsel is compared with nothing), then the tags are renewed.
`Edit` is any other edit (new content: any), `Empty` is `delete`, `ChangeRange` is
the edit of the pseudo-monotonicity range of the trace. A tag is a fresh token
at each renewal, so only *which* tags an operation renewed matters: `renewed`.
`FindLast` keeps the nondeterminism of the query, which orders by end alone.
`PageTags` is `iter_etags` for a page limited by `maxe`.

Two constants restrict edits in the passing runs: `AmendLast = FALSE` (an edit does not make
the last obsel end earlier; section 4 says what happens with `TRUE`) and `TiedLast = FALSE`
(an edit does not leave two obsels with the greatest end, between which `FIND_LAST_OBSEL`
would choose arbitrarily).

### `FilteredTrace`: a computed trace with the method `filter`

Extends `ObselCollection`, which is its source. Requests on the source
(`CollectSource`, `AmendSource`, `RangeSource`) conjoin the action of the collection
with the dirty mark that `ack_edit` sets; `EditBounds` edits the parameters of the
computed trace; `Describe` is `force_state_refresh` of the trace. A computation of
the obsels is a sequence of steps, as in the code:

1. `Begin`: the dirty mark is removed; the tags say which monotonicity holds;
   a forced computation assumes none;
2. `CopyAll`: the obsels are listed (`Read`, with the boundaries and the "after"
   filter of `build_select`, including its unparenthesised `||`) and copied with
   their arcs; or `CopyFails` after some of them, and the mark is set again;
3. `See`: the last obsel of the source is read again and noted;
4. `NoteTags`: the tags of the source are read and noted.

Constants name what the code needs and does not ensure: `OneAtATime` (no request
between the steps of a computation), `LongObsels`, `MinWithRange`, `ForcedFails`.
The run sets them so that the computation is right; section 4 says what happens with
the other values. `MinWithRange` concerns `filter.py:148` also: in
pseudo-monotonic mode the lower bound of the reading *replaces* the lower
boundary of the filter, so a range and a lower boundary together copy obsels
that begin before the boundary (against `doc/source/methods/filter.rst:34`).

### `EditContext`: who writes where, and what an exception undoes

`stack[t]` is what a thread has open: python's `with` statements on `edit()` of local
resources, each inside the context of the service.

| action | code |
|---|---|
| `EditTrusted`, `EditUntrusted` | `local.py:705-909` up to the `yield`: inside another context, an untrusted edit is always refused, a trusted one if the outer one is untrusted or has other parameters |
| `Enter`, `Commit`, `Rollback` | `Service.__enter__` and `__exit__`: `level` is `_context_level`; `committed` what the store goes back to |
| `WriteIn` | the body: on the graph itself, or on a copy (`f.copy`) in an untrusted context of a store without transactions |
| `Check` | end of the outermost body: `check_new_graph`, replacement of the graph, `ack_edit` with a new etag, from which on the context is trusted (`f.acking`) |
| `Leave`, `LeaveRaising` | the `finally` clause: `_edit_context` is reset by the outermost context only |
| `InnerAssertionFails`, `BodyRaises`, `Catch` | where exceptions come from, and who stops them |

Contents are sets of writes, each made once, so that "the effect of this edit" is
visible in a graph. `done`, `failed`, `refused` record what became of the edits and
decide nothing. `shown[r]` is the history of the etag: all the contents that were
given out with the present one.

Three constants name what the code needs and does not ensure. `Abnormal = FALSE`:
in a store without rollback, a trusted body or `ack_edit` does not fail, as the
docstring of `Service.__enter__` (`local.py:248-254`) warns; `CaughtInside = FALSE`:
no outer body catches what an inner one raises, since only the exit of the outermost
one rolls back; `Interleaved = FALSE`: with a transaction aware store, one thread at a
time, since `_context_level` is one counter for all threads. With `Abnormal`, a
trusted context that fails leaves its writes under the old etag (`EtagIsCurrent`), which the
docstring announces; with `CaughtInside`, refused writes stay too
(`RefusedLeavesNoTrace`); with `Interleaved`, one thread commits what another one has
not finished, or rolls back what it has (`AbortedLeavesNoTrace`).

### `TraceGraph`: sources, methods, reverse arcs, descriptions

Each operation is one step, being inside the lock of the base, but for the waits in it
that may be in vain (`BusyError`); two steps of their own stand for these:

| action | code |
|---|---|
| `DeletionTimesOut` | `ack_delete` (`trace.py:184-193`, `448-456`) has removed the trace from the graphs of its method and of its sources, and marked it and those made from these sources, when the lock of the obsels, or of the statistics, is not given: the trace is in `halfDeleted`, until it is deleted again |
| `RefreshTimesOut` | `force_state_refresh` removes the mark (`trace.py:487`), then waits for the base in `edit()`: the trace is in `unmarked`, until it is computed |

`halfDeleted` and `unmarked` are read by the guards of edits and by the properties, which make
exceptions for these traces and for no other; a trace that is half deleted is read and
deleted again, but not edited nor made the source of another one. `MaxTimeOuts` bounds the
two sets together. A read of a trace whose source is gone raises (`Readable`). The arcs
`hasSource`, `hasMethod` and `hasParentMethod` are each in two graphs, hence in two
variables (`sources`/`transformed`, `method`/`usedBy`, `parent`/`children`); the code
updates the second in its hooks (`_notify_sources`, `_ack_method_change`,
`_ack_parent_change`) and refuses deletions by it. `dirty` is the mark of the trace.
`Read` is `force_state_refresh`: what is dirty of a trace and of its sources is computed,
sources first. It is part of the operations that read the state of the trace after
they marked it (`CreateComputed`, `EditComputed` with new sources or a new method), and
`Refresh` by itself. Operations that read it when they begin start when nothing is
dirty there (`Clean`): what they would compute is a `Refresh` before. `impl` is
the python object that implements the method, kept across computations by the object
of the trace; `Forget` is the garbage collection of the latter.

`outdated` decides nothing. `Compare` sets it for a trace when an input of
its description changes (`Inputs`: method implementation, parameters along the
parents, its own settings, those of its sources), when the description of a source
is computed anew, or when its own description is computed by an object that is not
the one of its method; it clears it when a computation uses the right inputs.

`Dangling` says whether traces name methods of the base that do not exist: the
code checks nothing. With `TRUE`, `NoDangling` fails, and so does `ReverseArcs`: when the
method is created later, it does not list the trace, may be deleted again, and its
edits mark nothing. `Reparented = FALSE` keeps a method in use from getting a parent
of another kind; section 4 has the other case. Sources or parents edited into
a cycle are left out: every operation on them would recur without end.

### `TraceRefresh`: a chain of computed traces, with its locks and its statistics

What `FilteredTrace` and `TransformedTrace` look at from inside one computation is
here a number, and what they leave out is here the subject: who waits for whom. A
thread is the list `todo` of the steps it has still to do; a step may expand into
others (`Call`), and an exception drops them all (`Raise`), with the locks and the
flag, as `with` and `finally` do.

| definition | code |
|---|---|
| `RefreshObsels` | `ComputedTraceObsels.force_state_refresh`: lock of the obsels, the flag `__forcing_state_refresh` of the object of this process (`forcing`), the source first |
| `Recompute`, `Describe` | the mark is removed, then the description (lock of the base), then the obsels, then `ack_edit` |
| `RefreshStats` | `TraceStatistics.force_state_refresh`: statistics first; the etag is noted before the queries and signed after them |
| `PostGraph` | the lock of the obsels, the content, `ack_edit` and its marks |
| `DeleteTrace`, `Destroy`, `ToldToSource` | the lock of the base; `check_deletable`, and the source is told, which marks what it lists (`trace.py:173-214`); then the locks of the obsels and of the statistics; then the trace is gone |
| `Work` | `bin/bgcompute`, a thread of another process that only refreshes |
| `Acquire`, `TimeOut` | `lock.py:112-145`; a lock on a resource that is gone raises |

`excused` remembers that somebody gave up waiting for the base in the middle of a refresh:
the mark, already removed, is not set again by the exception (`trace_obsels.py:599-606`
catches those of the computation only), so nothing is claimed from then on. `unlisted` are
the traces that their source has been told to forget and that are still there: a post marks
them no more (`Dependents`), and the properties claim nothing of them; `AllReadsAreFresh`
does, and is violated (section 4). `OperationsReturn` says of each thread that it is idle again
and again. `PartlyRefused` allows a post that is refused after its
first obsel. In the run each thread is a process; with two threads in one, `forcing` makes a
reader skip a refresh that another thread is in.

### `TransformedTrace`: fsa, hrules, isparql, fusion

Extends `ObselCollection` as its source. A computation is one step; what matters is
what each method reads again or skips from the tags it noted, and what it merges
with what it had produced: the running matches of an automaton (`fsa`), the
obsels of the last instant (`isparql`, `hrules`), everything (`fusion`). What rules
and queries look at in an obsel is its `Kind`. The query of `isparql` gives several
rows for some obsels, in any order: a strict computation merges them into one obsel, any
other keeps the first (`AddRow`), so that the trace depends on how it was computed;
`TransformUpToDate` says that each obsel has all of its rows or one of them, and nothing else is
there. `LongObsels = FALSE` keeps obsels that
begin long before others from ending with them (section 4).

### `CasRegister`, `HttpServer`, `HttpClient`: one resource over HTTP

`CasRegister` is what etags promise: a register that only a client whose copy is current may
replace, while the service may add to it or remove it at any time. `HttpServer` has a
request per client, and each handler has the steps that others can see: a GET reads the
etags, then the content (`tagged`); a PUT tests `If-Match` (`checked`), edits under the lock
of the resource (`applied`), answers. `Derived` is the part of the graph that the service
writes by itself: an edit stores one of the `Completions` of the body (`complete_new_graph`,
`ack_edit`: origins, bounds, reverse arcs, parent methods), and reading a computed trace
that is marked computes it again (`Refresh`), with a new etag. `HttpClient` extends it with
clients whose graph is a `ProxyStore`: pull, local changes, push under the etag of the copy,
and a failure that pulls again. After a PUT the client has the new etag and what it *sent*:
`pulled` says whether its graph came from the server, and `SeenAs` makes the difference for
the properties. `raised` says whether an operation ended with an exception: those of an edit
do not reach the program. `Threaded` says whether the server handles several requests at a
time (section 4); `Extensions` whether clients write to URIs with an extension.
`RegisterSpec` maps the etag of the server to `version`, and the tags of the clients to
`held`.

### `Descriptions`, `Creation`: what may be said of an item

`Descriptions` is the life of a posted or edited graph: `complete_new_graph`,
`check_new_graph` with the tables of each class (`RDF_RESERVED_NS`, `RDF_EDITABLE_IN`,
`RDF_CARDINALITY_OUT`, `RDF_TYPED_PROP`), the URI that is minted, `store_new_graph` and the
listing of the base, in the order of the code. `UnitChanges = FALSE` keeps clients from
editing the unit of a model that traces use. `Creation` is what the functions `create_...`
of the Python API make, and the condition under which they ask for the checks to be spared
(`_trust`).

### `Models`, `Composites`

`Models` has listings as what they are, generators: between two steps of `walk`, other
clients edit the graphs. `Unruly` would allow parents that are circular or missing.
`Composites` has the intermediate traces of a composite one by their number, and all
that clients may do to them. Its property names what goes wrong: an
edited sub-method is missed (`made.missed`) until the next post or edit of the
composite trace, intermediate traces keep their first source (`FormerSource`), and those
after a deleted one are not found (`Gap`); without any of the three TLC finds it
violated. After the deletion of a part that the trace was computed from, every read fails, also
after an edit of the trace, since the former parts are read first (`GetFails`,
`trace.py:482-483`). A trace holds the sequence
of what it was made from, with versions, so that "up to date" is an equation.

### `JsonLd`, `PrefixView`, `ObselSlices`, `ObselGraphs`, `ObselTimes`, `Formats`

Pure parts, as operators. Each states its property as an operator on an input, and the
reference is never the algorithm itself: a document is read again (`JsonLd`), a view is
compared with a store of the graphs it shows (`PrefixView`), pages with their slice
(`ObselSlices`), stored obsels with the posted graph (`ObselGraphs`), a negotiated format
with that of its location (`Formats`). `Lossy` lists what JSON-LD does not keep: literals of
other datatypes, terms used as values, blank nodes as values of descriptions (written as
`{}`), circular ones, blank nodes that refer back to an obsel or to one that leads to it
(`Reversed`: `@reverse` names the blank node by a relative reference, which is read as
another node), what the serializers do not write. `ReadsAs` compares an obsel in the
collection with its own state, as first read, and with every slice of one or more obsels
that has it. `HttpGet` and `HttpPut` take the requested URI and split its extension before
the resource is looked up, as `__call__` does (`http_server.py:157`): a resource with a dot
in its last segment is found with an extension only (`Dotted`).

### `MCLibrary`: the small parts side by side

One configuration for the modules that share no state. `part` says what a behaviour
is about: `json`, `view`, `slices`, `graphs`, `times`, `formats` have one state per
`input`; `items`, `models`, `pipe`, `parallel` are machines, each with
its own `Init` and `Next`.

### How the modules meet

`TransformedTrace` and `FilteredTrace` extend `ObselCollection` and conjoin its actions with
what a computed trace does on them; `HttpClient` extends `HttpServer`, and both implement
`CasRegister`; `ResourceLock` implements `Mutex`; `BaseLifecycle` and `TraceRefresh` use a
lock as `Mutex` describes it: held by one thread or nobody, with waits that may end.
`Creation` extends `Descriptions`.

<a name="runs"></a>
## 3. Runs

| run | states | bounds | shows |
|---|---|---|---|
| `resource_lock` | 792 | 3 threads and 3 objects, 2 processes, 2 contexts deep, 2 nested entries, 1 kill | `MutualExclusion`, `TokenConserved`, `LockComesBack`, `CallsReturn`, and `ResourceLock` implements `Mutex` |
| `base_lifecycle` | 233,043 | 3 threads, root ⊃ base ⊃ nested base, item; 6 operations; 3 generations | `StoredIffRegistered`, `OneInCharge`, `DeletesWhatWasAsked`, `OperationsEnd` |
| `obsel_tags` | 9,447 | 3 obsels, times 0..2, ranges 0 and 1, posts of 1 or 2 obsels with at most one relation | `StrMonTagSound`, `PseMonTagSound`, `PageTagSound` |
| `filtered_trace` | 1,104,836 | 3 obsels, times 0..2, ranges 0 and 1, one arc, one edit, boundaries: upper at 1, lower at 1 | `ViewUpToDate`, `FilterIsMonotonic` |
| `transformed_trace` | 662,010 | 3 obsels of three kinds, times 0..2, ranges 0 and 1, one arc, one edit, 4 methods, 2 rules, queries with 0, 1 and 2 rows | `TransformUpToDate` |
| `trace_refresh` | 1,242,741 | a stored trace and 2 computed ones in a chain, a thread of the server and `bgcompute`, 1 post, 1 deletion that may time out and be asked again | `StaleIsMarked`, `StatsHonest`, `ReadsAreFresh`, `OperationsReturn` |
| `edit_context` | 740,926 | 2 threads, 2 resources, 3 writes of which 1 is refused, one parameter, 2 contexts deep, both kinds of store | `RefusedLeavesNoTrace`, `AbortedLeavesNoTrace`, `EtagIsCurrent` |
| `trace_graph` | 289,497 | 1 stored and 2 computed traces, 2 methods, 1 built-in method, 2 settings, 1 trace that bears a wait in vain | `ReverseArcs`, `NoDangling`, `DescriptionUpToDate` |
| `http` | 3,799,334 | 2 clients, 2 facts of which the service completes one, 2 changes of the resource, one request of each client at a time | `FreshIsEqual`, `RefusedIsForgotten`, `OverwritesWhatWasSeen`, and the etags implement `CasRegister` |
| `library` | 518,228 | see below | a property for each part of `MCLibrary` |
| `base_delete_race`, `http_lost_update` | | those of the passing runs, or smaller | violated, see section 4 |

Why the bounds are enough. *Lock*: two threads of one process sharing two
objects, and a third in another process, are all the ways in which owners can be
confused; the safety part is proved for any number. *Lifecycle*: a nested base has
both roles (container and contained), three threads give a holder, one that waits
with the semaphore open and one that arrives later; six operations allow
create–delete–create of one name with two bystanders, and three generations go with
them; what the bound cuts off is a fourth one, after three deletions of one base that
had to give up.
*Collection*: three obsels give the old last, a new one and a related older one;
three timestamps give strictly before, tie, strictly after, and, with a range of
1, within and beyond the range. *Filter*: obsel before, at and past a boundary,
one posted between computations, one edit; there is no bound on the number of
computations, failures, or changes that fit. *Contexts*: depth 2 gives an inner context on
the same resource and on another one, in the body and in `ack_edit`; two contexts
are enough to have a level that is not the last; three writes give one accepted
before, one in the edit at hand and one that is refused; the other thread is the one
that a counter or an attribute would be shared with. A third level repeats the second, since
the code only asks whether there is a context. *Graph*: stored, computed from it, and
computed from the computed one, is the shortest chain in which a mark must travel; a
method and its heir, the shortest in which a parameter is inherited; two settings make a
change visible; one wait in vain, of a deletion or of a computation, is followed by
anything. A second built-in method, which matters to the method object that a trace keeps,
and a second wait are left to the proofs, for any number of names and of waits. All names that play the same part are interchangeable in the
actions and properties of these two, hence `SYMMETRY`. Neither bounds the length of
behaviours of `TraceGraph`; in `EditContext` each write is made once, and 3 writes
bound it. *Refresh*: a chain of two is the shortest in which a computation refreshes a
source that itself has one; a reader and `bgcompute` take the locks in all the orders
there are (obsels–base, statistics–obsels–base, base–obsels–statistics), and one post
and one deletion in the middle make every mark, every etag and every wait possible;
the number of refreshes is not bounded. *Transformed*: an obsel that starts, one that
ends, one that does both, are the three roles in an automaton; two rules that both
match one obsel are what their order decides; one posted after a computation, one
edited, are the cases of resuming and starting again; two rows are the fewest that can be merged. *HTTP*: two clients are a writer and
one whose copy is old; two changes are one by each, or one completed by the service and one after it;
a fact that clients write and one that the service does are all that `SameButDerived` tells apart.

*Library*: each part is as large as a case needs. `json`: statements of each kind, two
obsels and two blank nodes that refer to one another, their statements in every order.
`view`: two quads in two bases, paths of one and two properties. `slices`: three obsels, all
intervals in 0..2, one bound of each side, `after`, `before`, pages of one or two: with
three obsels a page has one before and one after. `PagesCover` leaves out obsels that end
together (`Untied`), so that neither the order of ties nor the unparenthesised alternatives
of `build_select` are at stake in it, the reversed order and `before`, which `next` links do
not keep; `PageTagsSound` leaves out bounds on begin timestamps, the reversed order, and
`after` together with `before`. `graphs`: three posted nodes with a shared value; two stored
obsels with two values in arcs of three, and all their slices. `times`: two instants, three
offsets, the three units. `formats`: up to two preferred types among all that are
registered, five paths with and without a dot. `items`: three items, posted graphs of four
statements, edits of two. `models`: three models, two arcs, one edit at every point of a
listing. `pipe`, `parallel`: up to three sub-methods out of two, one post or edit of a
method, any number of reads, edits of the composite trace and deletions: in a chain of
three, a mark travels twice, and of three traces side by side the middle one may go.

### Fairness

`ResourceLock`: `sem_wait` returns (with the token or a timeout, `lock.py:120,141`), the
interpreter runs every thread, a body ends. No fairness on starting a call, on kills or on
resets; strong fairness is not needed, since `CallsReturn` may end with a `BusyError`.
`BaseLifecycle`: weak fairness of each thread's own steps; the timeouts are possible but
*not* fair, so `OperationsEnd` shows that operations end because locks are released and not
because somebody gives up. Starvation of a given thread is not excluded by the code (a
semaphore is not a queue), and `OperationsEnd` does not say it: operations are finitely
many. `TraceRefresh`: weak fairness of the steps of each thread, which include the end of a
wait, by a timeout of 60 s (`lock.py:120`): the locks are not taken in one order, and
`OperationsReturn` says that this costs an exception, never a thread. The other modules
state safety only: a computation happens when somebody asks, an edit lasts as long as its
body, a client may never come back.

`base_lifecycle`, `base_delete_race` and `library` do not check deadlock: the number of
operations is bounded in the first two and the system stops when it is reached; in
the third, the parts that are functions have one state, and a listing ends.

<a name="findings"></a>
## 4. Disagreements between the code and its documentation

Each is a run whose property TLC finds violated by what the code does.

1. `base_delete_race` — `Base.ack_delete` (`engine/base.py:168-176`) unlinks the
   semaphore of the base first, then waits for the parent. In between, another
   thread gets a new semaphore, enters and posts into the base that is about to be
   cleared. "Only an empty base can be deleted" (`base.py:197`).
2. `http_lost_update` — `http_put` tests `If-Match` before `edit()` takes the lock
   (`http_server.py:398`) and never again. In a server of several threads, two PUTs
   with one etag both pass, and the second overwrites the first, although the
   client counts on the PUT to "trigger an exception if data has already been
   modified on the server" (`util/proxystore.py:392`).
### Statements that the other runs leave out

Each is a definition of the module, and TLC finds it violated when it is put in the place of
the properties of the `.cfg`; none of these has a run of its own.

| module, definition | `.cfg` | what happens |
|---|---|---|
| `TraceGraph`, `SourcesExist` | `TraceGraph.cfg` | the deletion of a trace tells its method and its sources (`engine/trace.py:187-188`, `454-455`), then waits for its obsels; after a `BusyError` the trace is still there, and its source may be deleted: "I refuse to be deleted if I am the source of another trace" (`engine/trace.py:176`) |
| `TraceRefresh`, `AllReadsAreFresh` | `TraceRefresh.cfg` | after the same time-out, posts on the source mark the trace no more: it is served as it was, though "always up-to-date w.r.t. the sources" (`doc/source/rest/ComputedTrace.rst:4`) |
| `HttpClient`, `FreshIsExact` | `Http.cfg` | after a PUT, `ProxyStore._push` takes the new etag and keeps the graph that it sent (`util/proxystore.py:426-427`), which the server has completed; the comment above means to "update the data with the response" (`util/proxystore.py:416`) |
| `HttpClient`, `EditsTellFailures` | `Http.cfg` | the edit context of a remote resource catches all exceptions and raises none (`cores/http_client.py:275-276`): an edit that was refused ends like one that was applied, although "the modification will be applied to the resource when exiting the context" (`cores/__init__.py:145`) |
| `TransformedTrace`, `RowsAreObsels` | `TransformedTrace.cfg` | two rows for one source obsel give one obsel (`methods/isparql.py:118-133`), not one each: "Each row returned by your SELECT query will create a new obsel in the computed trace" (`doc/source/methods/isparql.rst:24`) |
| `MCLibrary`, `RefreshedObselsRead` | `Library.cfg` | the state of an obsel that was refreshed has its related obsels without their trace (`engine/obsel.py:100`), so that relations read as attributes, against the docstring of `get_obsel_bounded_description` (`engine/obsel.py:313`) |

### Known counterexamples, by the constant that reaches them

The other runs exclude some behaviours of the code, by constants whose names say
which. With the other value TLC finds the property violated; none of these has a run
of its own.

| module, constant | violated | what happens |
|---|---|---|
| `ObselCollection`, `AmendLast = TRUE` | `StrMonTagSound` | after an edit that makes the last obsel end earlier, `ack_edit` (`engine/trace_obsels.py:389-401`) searches from the *old* end, finds nothing and forgets the last obsel; the next post keeps the strict tag wherever it adds (against `doc/source/concepts/monotonicity.rst:79`) |
| `FilteredTrace`, `LongObsels = TRUE` | `ViewUpToDate` | in pseudo-monotonic mode `filter.py:148` bounds the *begin* of what it reads, while the tag speaks of the *end* |
| `FilteredTrace`, `OneAtATime = FALSE` | `ViewUpToDate` | an obsel posted between the copy and the noting (`filter.py:182`, `abstract.py:186`) is never copied; `bin/bgcompute:7` says concurrency is safe |
| `FilteredTrace`, `ForcedFails = TRUE` | `ViewUpToDate` | a forced computation that fails leaves an emptied trace under the old tags (`abstract.py:164`) |
| `TransformedTrace`, `LongObsels = TRUE` | `TransformUpToDate` | as for the filter |
| `TraceGraph`, `Reparented = TRUE` | `DescriptionUpToDate` | a trace keeps the object that implements its method (`engine/trace.py:573`): when the method gets a parent of another kind, the new description is computed with the object of the old kind |
| `TraceGraph`, `Dangling = TRUE` | `NoDangling`, `ReverseArcs` | nothing checks that a method exists (`engine/trace.py:421`) |
| `EditContext`, `Interleaved`, `CaughtInside` or `Abnormal` `= TRUE` | `AbortedLeavesNoTrace`, `RefusedLeavesNoTrace`, `EtagIsCurrent` | see section 2 |
| `TraceRefresh`, `PartlyRefused = TRUE` | `StaleIsMarked` | the first obsels of a refused graph stay, and `ack_edit` is skipped (`engine/trace.py:334`) |
| `TraceRefresh`, two threads with one `Home` | `ReadsAreFresh` | a reader skips a refresh that another thread of the process is in (`engine/trace_obsels.py:577`) and is served what there was |
| `Descriptions`, `UnitChanges = TRUE` | `PutBackAccepted` | a stored trace that was completed under the old unit is refused when it is put back |
| `JsonLd`, any of `Lossy` | `SameStatement`, `SameObsels` | what JSON-LD does not keep, blank nodes as values and references back to obsels among it |
| `Models`, any of `Unruly` | `ListingIsSound`, `InheritedOnce` | a listing of circular parents fails, one of missing parents too |

The computations that are not up to date contradict "always up-to-date w.r.t. the sources"
(`doc/source/rest/ComputedTrace.rst:4`).

<a name="proofs"></a>
## 5. Proofs

Eight modules prove safety properties for every value of the constants. The constants
that name a behaviour of the code which breaks a property (section 4) appear as
hypotheses of the theorems that need them, and of no other.

| module | theorems | hypotheses |
|---|---|---|
| `ResourceLock_proofs` | `TypeCorrect`, `Exclusion`, `OwnerCorrect`, `TokenCorrect`, `NotCorrupted`, `Refinement` (of `Mutex`) | none |
| `TraceGraph_proofs` | `TypeCorrect`, `ArcsAgree` (`ReverseArcs`), `Integrity` (`NoDangling`) | `~Dangling` |
| | `DescriptionCorrect` (`DescriptionUpToDate`) | `~Dangling`, `~Reparented` |
| `Http_proofs` | `BaseInvariance`, `TypeCorrect` | none |
| | `CopiesCorrect` (`FreshIsEqual`), `EditsAreForgotten` (`RefusedIsForgotten`) | `~Threaded` |
| | `NoLostUpdate` (`OverwritesWhatWasSeen`), `Refinement` (of `CasRegister`) | `~Threaded`, `~Extensions` |
| `EditContext_proofs` | `TypeCorrect`, `ContextsCorrect` (`ContextAgrees`) | none |
| | `RefusedCorrect`, `AbortedCorrect` (`RefusedLeavesNoTrace`, `AbortedLeavesNoTrace`) | `~Interleaved`, `~CaughtInside` |
| | `EtagsCorrect` (`EtagIsCurrent`) | the same and `~Abnormal` |
| `BaseLifecycle_proofs` | `TypeCorrect`, `InChargeCorrect` (`OneInCharge`), `CatalogueCorrect` (`StoredIffRegistered`), `NoOrphanCorrect`, `EmptyBaseCorrect` (`OnlyEmptyBaseDeleted`), `CreatedOnceCorrect`, `DeletesCorrect` (`DeletesWhatWasAsked`) | `QuietDelete` |
| `TraceRefresh_proofs` | `TypeCorrect`, `StatsCorrect` (`StatsHonest`) | none |
| | `MarksCorrect` (`StaleIsMarked`) | `~PartlyRefused` |
| | `ReadsCorrect` (`ReadsAreFresh`) | `Acyclic`, `Alone` (below) |
| `FilteredTrace_proofs`, the collection | `Invariance` (types and `LastIsLast`), `StrTagCorrect`, `PseTagCorrect`, `PageTagCorrect` | `~AmendLast`, `~TiedLast` |
| `FilteredTrace_proofs`, the filter | `FilterInvariance`, `ViewCorrect` (`ViewUpToDate`), `MonotonicCorrect` (`FilterIsMonotonic`) | `Assumed` (below) |
| `Library_proofs`, machines | `ItemsStayWellFormed`, `TrustCorrect` (`ItemsEarnTrust`), `ListingsSound`, `ListingsCorrect` (`ListingsAreSound`), `CompositesCorrect` (`CompositesUpToDate`) | none |
| | `PutBackCorrect` (`ItemsPutBack`) | `~UnitChanges` |
| `Library_proofs`, functions on any input | `TimesStayInOrder`, `ViewIsThePart`, `PageTagsVouch`, `PagesLead`, `ObselReadsTheSame`, `ObselGoesAlone`, `PostedAreKept` | on the input, below |
| | and, for the inputs of the run, `TimesCorrect` (`ObselTimesInOrder`), `ViewCorrect` (`ViewsArePart`), `PageTagsCorrect` (`PageTagsSound`), `PagesCorrect` (`PagesCover`), `ObselGraphsCorrect` (`ObselGraphsKept`) | none |

The other assumptions are those that the modules name (`HomeAssumption`,
`NamesAssumption`, ...): what stands for "nobody" or "nothing" is not one of the
things, bounds are numbers, a thread belongs to a process. TLC evaluates them in
the runs. Every inductive invariant was checked by TLC, as an invariant of the run
of its module (with the constants that the theorem assumes), before it was proved.

**`ResourceLock_proofs`.** The inductive invariant is

    IInv == TypeOK /\ OwnerAgrees /\ TokenConserved
              /\ PcAgrees /\ OneObject /\ LocalObjects

`MutualExclusion` is not inductive: a state where the semaphore is 1 and somebody
is inside satisfies it, and the next `Acquire` breaks it. `TokenConserved` excludes
that state: the token is in one place. To keep `TokenConserved` when a context
closes, the owner must be *the* holder, which needs `OwnerAgrees` (who passes
without the semaphore has it) and `OneObject` (closing the last context on one
object leaves none on another: one acquires through one object only, since through
a second one the semaphore is asked for and is 0). `PcAgrees` ties program
counters to contexts, and `LocalObjects` is for `Kill`: the objects that vanish are
exactly those used by the threads that vanish. There is one lemma per action, each
giving `IInv'` and what becomes of `Holders`; the refinement follows from the second
part, since `Mutex!holder` is defined from `Holders` and `lost`.

**`TraceGraph_proofs`.** `IInv == TypeOK /\ ReverseArcs /\ NoDangling`. `NoDangling` is not
inductive alone: in a state where a source does not list a trace that
is computed from it, its deletion is accepted. Nor is `ReverseArcs`: in a state
where a trace uses a method that does not exist, the creation of that method breaks
it. Both parts leave out the traces whose deletion timed out, for any number of time-outs: such a
trace names things that do not list it, and these may go; no other trace is touched.
The last two conjuncts of `TypeOK` are needed to know that what a deleted trace
leaves behind is neither a mark nor an arc. There is one lemma per action, with one
step per part of the invariant, and lemmas about the operators: `Root` is a
built-in method or `None` (`RootType`), `Compare` gives truth values (`CompareType`),
what an operation marks is computed (`ReverseAreComputed`).

For `DescriptionUpToDate` the invariant is `DInv == ImplAgrees /\ Due`, on top of `IInv`: of
the traces that have not lost what tells them of changes (`Sound`), those outdated are
marked, and the object that implements the method of a trace is of the kind that its chain
of parents leads to. What a chain of parents is made of comes from `Closure`: a trace's
lineage is closed and contains its start (`LineageClosure`), an edit outside of it leaves it
as it was (`LineageSame`), so that `Root` only changes for the methods below the one edited
(`SameRoot`, `ParentRoot`) and those are the ones that the edit goes through to find traces
to mark (`HeirsAre`). What a reader computes takes marks away from some traces only;
`ReadCovers` says that those computed mark what is made from them, which is why no trace is
left outdated with nothing marked above it.

**`Http_proofs`.** `BaseInv` (what a client waits for is what it has asked for) needs
nothing of the server. The rest is about who holds which etag: `PutsAgree` follows the
condition of a PUT from the client through the check to the edit, `AnswersAgree` the content
of an answer until it is read, `CopiesAgree` says that the holder of the current etag has
seen the current content, exactly or up to what the service has completed of what it put
(`SameTrans`: two such differences make one), and that its copy is what it has seen. Only
the window between check and edit needs `OneHandler`, which is where the run
`http_lost_update` goes. The refinement maps the register to content, etag and the etags
that clients hold: a PUT that is applied is a compare-and-swap, all else of the handlers and
the clients reads or stutters.

**`EditContext_proofs`.** Three layers. `Structure`, for any interleaving: `_context_level` is
the number of contexts that are open or being opened, each resource has at most one
outermost context, at a known place of a known stack, and `_edit_context` is
what that one has put there. `Ledger`: a write is that of one open context, or has ended, or
has failed (`WritesHaveOneOwner`); what the store would roll back to has only
what has ended (`Transactional`); without transactions, what a context has written is in the
copy that it gives up (`CopiesApart`). `EtagsMatch`: an etag that is shown is the one of the
graph, of the committed one if the transaction is lost. The two properties about
failures are not inductive because they only speak of moments when all is closed: what
makes them true is where each write is in the meantime. The lemmas come in
families, one per layer and kind of move (a stack grows, its top changes, shrinks,
unwinds), so that the actions share these arguments.

**`BaseLifecycle_proofs`.** The name of a semaphore leads to a generation of it, which a deletion
unlinks, and a thread may still have an older one open. `OneInCharge` is about resources,
the semaphores about generations: `Semaphores` says that a generation is 0 exactly if a
thread holds it, `Generations` that every thread has open what the name leads to, unless it
has unlinked it itself. `Undisturbed` is what `QuietDelete` ensures. `Findings` carries what
an operation has read past its locks (the base was empty, the item was there),
`Catalogue` is `StoredIffRegistered` with the halves of operations under way, `Objects` and
`Counted` bound the incarnations of a resource by the number of operations, which makes the
numbers of the model large enough for any history.

**`TraceRefresh_proofs`.** What a thread is about to do is a list of steps, so that the
invariant speaks of lists: `AllTogether` says which steps stay next to each other (a
computation is described, copied, acknowledged; statistics are noted, populated, signed).
`EtagsGrow` says that no etag noted is newer than the obsels. `Honest` strengthens
`StatsHonest` from threads that have finished to the one step that signs: the etag was read
before the obsels were counted (`trace_stats.py`), hence a count of newer obsels
carries an older etag, never the other way round. For `StaleIsMarked`, the thread that
will mark or compute must have nothing before it that could fail (`Computing`: only waits
for the base, which `excused` records). `TypeOK`, which no run lists, ends with: a lock is held
by a thread that has something to do. For this, `AllClosed` says that each list unlocks
what it locks and `HeldForLater` that what is held is unlocked further on.

`ReadsCorrect` says that a read is fresh whatever happens while it waits for locks, and
its invariant, `ReadInv`, has three parts beside `IInv`:

* `Locking`: a thread holds the lock of the obsels of a trace if and only if the unlocking comes
  before any other locking in what it has to do (`Held`), the flag of a refresh is reset
  before these obsels are locked or unlocked (`Flagged`), and the lists are `Nested`: a
  computation is inside its lock, and a refresh is of a trace nearer to the start than
  those under way;
* `Flowing`: nothing is ahead of its source (`Flow`), a trace is only deleted once its source has
  been told, and what is made from it before (`Deleting`), a trace that is behind what its source
  has *acknowledged* is marked or being computed (`AckedMarked`), and what is not
  acknowledged yet is about to be (`Settled`);
* `AllPromised`: at each point of its refreshes, what the reader may already count on
  (`Promised`). When it finds a trace unmarked under its lock, nobody else is computing
  it (`HoldsWhatItComputes`), so the trace has all that its source had acknowledged
  (`CleanIsGood`), and the source is settled: the reader has just refreshed it.

`acked`, the content of a trace at its last `ack_edit`, is an auxiliary variable: only `goal`
and the invariants read it. `Acyclic` says that sources do not lead back to a trace: along a
cycle, the flag would cut the refresh short; nothing in the code checks it, and here
sources do not change (`TraceGraph` is about those that do). `Alone` says that threads share no
object, that is one thread per process: with two, `ReadsAreFresh` is false (section 4).
Refused posts are not excluded: what they leave is not acknowledged, nor promised.

**`FilteredTrace_proofs`, the collection.** `IInv == TypeOK /\ LastIsLast`. The tags compare
new obsels with the *last* one only; that nothing else comes after it makes this enough.
`DetectKnows` says what `_detect_mon_change` promises of one obsel, `Collected` composes it
over a batch of two: a post of any number of obsels would be an induction over the batch.
The hypotheses exclude the two edits of section 4 after which `last` is not the last obsel.

**`FilteredTrace_proofs`, the filter.** Under

    Assumed == ~AmendLast /\ ~TiedLast /\ OneAtATime /\ ~LongObsels /\ ~MinWithRange /\ ~ForcedFails

`FInv` says, of a computed trace whose state some tag vouches for, that `Usable` holds: the
copies are the originals, the last obsel seen is there, and what is `Missing` is where the tag
says (after all copies and after the last one seen, for the strict tag; from a range before
it on, for the pseudo-monotonic one). Every incremental computation then reads
what is missing and nothing that the boundaries exclude (`ReadIs`), a failed one
leaves the missing obsels where the tags say (`CopyFailsFInv`), and a post moves them there or
renews the tag (`PostLeavesUsable`, from what the first part shows of `Post`).
`ViewUpToDate` is far from inductive: it says nothing of marked traces, which is where
partial copies, stale states and kept tags meet. Each hypothesis is used: by
`ChangeFInv` (`OneAtATime`), `ReadIs` (`~MinWithRange`), `PostLeavesUsable` (`~LongObsels`),
`CopyFailsFInv` (`~ForcedFails`), `NextInvariant` (the two about edits); and with the constants
of the run `filtered_trace` but any one of the six turned over, TLC finds
`ViewUpToDate` violated.

**`Library_proofs`.** Loops of the code are functions on `0 .. n` here, each value made from the
one before. The induction theorems of the library take a formula as parameter, which the
provers cannot instantiate, so `Induction` states the principle for a *set* of numbers: one
that has zero and the successor of each of its members has all of them. `Iterates` gives
the function that a loop defines; that it does what it should for `k` turns is then
a set of numbers, in each proof. What is reached along arcs is the least set closed
under them, in the models as in the proofs: to show that something is not reached, give a
closed set without it.

*Items.* `Items` (`WellFormed`, and the model is there) is inductive. An operation on one item
changes the others only by the arcs that tell of those that refer to them (`Links`,
`Alike`), which no check reads (`AlikeFits`). `ItemsPutBack` needs `Steady` besides: the unit is
the one that traces were completed with, and traces that can tell when they begin do.
Completing what was read then adds nothing, and the reserved arcs are the same. The unit of
the model is the one thing that a trace takes from another item, hence `~UnitChanges`. For
`ItemsEarnTrust`, the graph that each call of the Python API makes is computed argument by
argument (`SaidOne`, `SaidCompleted`) and accepted (`SaidAccepted`).

*Models.* `ListingIsSound` says of a listing under way that it has told nothing false, of an
ended one that nothing is missing. `Listed`, the invariant, says where the latter comes
from: what has been seen is told or in the queue, and what told types have always led to has
been seen. When the queue is empty, what is told is therefore closed under `always`.
`MayHold` says what arcs a model may have, so that an edit elsewhere cannot be taken for one
of its own. For `InheritedOnce` the invariant is `Descend`, which only excludes circular
parents: a parent has fewer ancestors than its child (`FewerParents`), so that `k` rounds
list all ancestors of a model that has at most `k`.

*Composites.* `Composed`: a part that is not dirty holds what its method makes of its source
(`PartsFit`), and the composite trace what its methods make of its own, unless it is dirty, has
missed an edit or is computed from a part with a former source (`HoldsFits`). A read that fails
(`GetFails`) refreshes some of its parts and marks nothing.
`Composites` is instantiated by its kind (`K(kind)`), and one proof serves pipes and
parallel traces: parts are refreshed by number, and the one before in a chain is clean
when its turn comes (`RefreshPartFits`).

*Slices.* The order of obsels (`Precedes`) is strict and total (`OrderOfObsels`), so there is one
list of any finite set of them (`ThereIsAList`, `OneList`): what `SortSeq` chooses is known
without unfolding it. `PageTagsVouch` follows the new obsel, which is the last, through what the
parameters select, sort and cut. `PagesLead` says what was seen after each page: a
beginning of the list, and the next link asks for the rest (`Seen`, `SeenNext`). Obsels
that end together, a reversed order, and `before`, which links do not keep, are excluded by
the property itself; the theorem adds that upper bounds and the limit are not zero, which the code
takes for none.

*Graphs.* `ObselReadsTheSame` is for any slice: a related obsel is in the description of the
slice with its trace, whether it is in the slice or not. Obsels of a posted graph are
created one at a time, each with the arcs that it can take already. `Progress`, after the
obsels of `D`: the graph at hand is the posted one with the members of `D` renamed, and what
is stored is what is `Settled`, the arcs around members of `D` that touch no obsel still to
be named. An arc between two obsels is thus stored at the turn of the later one, whatever
the order. The hypothesis (`Posts`) is on names: URIs to be minted are not in the graph yet,
and each arc has an obsel or a blank node at one end. That values belong to one obsel
(`Owned`) is a premise of the property, in the runs too.

*Times, views.* `TimesStayInOrder` is arithmetic on instants, by cases on what is given and in which
form: conversion to a unit is monotonic (`Rounded`, `Monotone`). `ViewIsThePart` needs that names of
graphs are sequences over one set of names that has "@obsels".

The general theorems say of every input what the runs say of theirs. They speak of any
number of obsels, items, arcs and quads, any models and any methods, and of the properties
as the modules state them, with their premises and bounds (the obsel that `SliceTagSound`
adds has an interval in 0..3).

Only model-checked, and why:

* the liveness properties `LockComesBack`, `CallsReturn`, `OperationsEnd` and
  `OperationsReturn`, and the fairness under them: beyond the prover;
* `TransformUpToDate`: a computation is a fold of automata and rules over the obsels read, inside a
  fold over the computations; that resuming it gives what starting again would give is an
  induction over the obsels with the operator of the method as parameter;
* `SameThroughJson` and `FormatsAgree`: conversions by nested folds over statements, and a stable sort of the
  concrete registries of `serializers/` and `serpar/`: the runs go through all cases of the
  tables, and a proof would repeat them;
* `HttpServer` alone is not a theorem's subject, only with its clients.

<a name="not-modelled"></a>
## 6. What is not modelled, and why

* HTML, CSV and GeoJSON: written, never read again. The text of JSON, Turtle, XML
  and the JSON-LD algorithms are libraries'.
* Plugins, command-line scripts, configuration, start-up: sequential, without shared
  state. `namespace.py` is the vocabulary as data, `example1.py` and the rest of `utest` are tests.
* Filtering by type or by graph pattern, the text of `sparql` queries, the conditions of
  automata beyond the kinds of obsels; `external` runs a command.
* Fusion of several sources: the sources are read one after the other, each as in
  `TransformedTrace`.
* The enriched description of a base (`get_state` with `prop`), and the accessors of
  parameters, of traces and of obsels, each of which reads one property.
* Caching headers, error pages, credentials, the cache of `httplib2`.
* Store transactions outside `EditContext`: most stores do not roll back
  (`local.py:250`), and the other models assume that none does.
* Methods, sources and models edited into a cycle: every operation on them
  recurs without end (`engine/trace.py:577`).
* Edits of a collection by a client that passes `add_obsels_only` itself (the test at
  `engine/trace_obsels.py:350` lets it).
* What is done with a trace whose deletion timed out, other than reading it and deleting it again.
* What is left when an obsel in the middle of a posted graph is refused, beyond the mark of
  `TraceRefresh` (`engine/trace.py:334`; plan, 2).
* Which exception an operation over HTTP raises: `HttpClient` says whether one is raised.
* Semaphores whose creation or unlinking is refused by the system.

Small divergences met on the way, which no property here is about:
`create_stored_trace` without an origin stores the text "None" (`api/base.py:293`), and an
obsel that ends before it begins passes the check of `engine/obsel.py:248`, which compares
begin with itself (`ObselTimes` therefore speaks of times given in order).

<a name="plan"></a>
## 7. Plan

Done, with proofs: the lock; the graph of traces and methods; the lifecycle of
bases; the tags and the filter method over them; refreshes with their locks and
statistics; edit contexts; HTTP, server and client; descriptions, creation, models,
composites, views, slices, graphs and times. Done, model-checked: the other
incremental methods, JSON-LD and formats.

To do, in this order:

1. Theorems: from what `TransformedTrace` resumes, with its folds written as functions on
   numbers, as those of `MCLibrary` are.
2. A graph whose second obsel is refused, as a step of `ObselCollection` inside a context
   of `EditContext` (`engine/trace.py:334`), so that tags, marks and rollback are in
   one model.
3. `Fusion` of two sources, and a computed trace as the source of `FilteredTrace`, where the
   tags of one computed trace vouch for another.
