------------------------- MODULE TraceRefresh_proofs -------------------------
(***************************************************************************)
(* What the marks and the etags of computed traces and statistics promise, *)
(* and what a reader is served, for any number of threads and processes    *)
(* and any graph of sources.                                               *)
(***************************************************************************)
EXTENDS TraceRefresh, SequenceTheorems, TLAPS

USE HomeAssumption, ChainAssumption, NobodyAssumption, BoundsAssumption

----------------------------------------------------------------------------
(* The inductive invariant *)

ComputedOps ==
  {"force", "unforce", "check", "clear", "describe", "clearDescription", "described", "copy",
   "serve", "note", "populate", "sign", "deletable", "delete"}
Steps ==
  [op : ComputedOps, on : Computed] \cup [op : {"refresh", "ack"}, on : Traces] \cup
  [op : {"add"}, on : {Stored}] \cup [op : {"lock", "unlock"}, on : Locks]

Typed ==
  /\ content \in [Traces -> Nat]
  /\ etag \in [Traces -> Nat]
  /\ dirty \subseteq Computed /\ undescribed \subseteq Computed
  /\ unlisted \subseteq Computed /\ gone \subseteq Computed
  /\ stats \in [Computed -> [count : Nat, etag : Nat]]
  /\ noted \in [Threads -> Nat]
  /\ todo \in [Threads -> Seq(Steps)]
  /\ excused \in BOOLEAN

\* The steps that only make sense one after the other are not separated.
Together(seq) ==
  \A k \in 1 .. Len(seq) :
    /\ seq[k].op = "copy" => k < Len(seq) /\ seq[k + 1] = Do("ack", seq[k].on)
    /\ seq[k].op = "add" => k < Len(seq) /\ (~PartlyRefused => seq[k + 1] = Do("ack", Stored))
    /\ seq[k].op = "clear" =>
         /\ k + 1 < Len(seq)
         /\ seq[k + 1] = Do("describe", seq[k].on) /\ seq[k + 2] = Do("copy", seq[k].on)
    /\ k < Len(seq) /\ seq[k + 1].op = "populate" => seq[k] = Do("note", seq[k + 1].on)
    /\ k < Len(seq) /\ seq[k + 1].op = "sign" => seq[k] = Do("populate", seq[k + 1].on)
AllTogether == \A th \in Threads : Together(todo[th])

\* The thread is in the computation of c, which only a wait for the base can stop.
Harmless(x) == x.op \in {"describe", "clearDescription", "described", "unlock"} \/ x = Lock(Base)
Computing(seq, c) ==
  \E k \in 1 .. Len(seq) : seq[k] = Do("copy", c) /\ \A j \in 1 .. k - 1 : Harmless(seq[j])

\* The thread has just changed t, and is to acknowledge it.
Acking(seq, t) == seq # <<>> /\ Head(seq) = Do("ack", t)

Marked(c) ==
  \/ content[c] = content[Source[c]]
  \/ c \in dirty
  \/ \E th \in Threads : Computing(todo[th], c) \/ Acking(todo[th], Source[c])
  \/ excused
AllMarked == \A c \in Computed \ Former : Marked(c)

NextOn(seq, ops, c) == seq # <<>> /\ Head(seq).op \in ops /\ Head(seq).on = c

EtagsGrow ==
  \A c \in Computed :
    /\ stats[c].etag <= etag[c]
    /\ \A th \in Threads : NextOn(todo[th], {"populate", "sign"}, c) => noted[th] <= etag[c]

\* The statistics that carry, or are to carry, the etag of the obsels are those
\* of the obsels, unless a computation is about to renew the etag.
Honest ==
  \A c \in Computed : (\A th \in Threads : ~Acking(todo[th], c)) =>
    /\ stats[c].etag = etag[c] => stats[c].count = content[c]
    /\ \A th \in Threads :
         NextOn(todo[th], {"sign"}, c) /\ noted[th] = etag[c] => stats[c].count = content[c]

IInv == Typed /\ AllTogether /\ EtagsGrow /\ Honest

----------------------------------------------------------------------------
(* Lists of steps *)

LEMMA StepTypes ==
  ASSUME NEW x \in Steps
  PROVE  /\ x.op \in ComputedOps => x.on \in Computed
         /\ x.op \in {"refresh", "ack"} => x.on \in Traces
         /\ x.op = "add" => x.on = Stored
         /\ x.op \in {"lock", "unlock"} => x.on \in Locks
         /\ x = Do(x.op, x.on)
BY DEF Steps, ComputedOps, Do

\* Steps that may stand anywhere.
Plain == {x \in Steps : x.op \notin {"copy", "add", "clear", "populate", "sign"}}

LEMMA PlainTogether ==
  ASSUME NEW s \in Seq(Plain)
  PROVE  Together(s) /\ s \in Seq(Steps)
BY DEF Plain, Together

LEMMA TailTogether ==
  ASSUME NEW s \in Seq(Steps), s # <<>>, Together(s)
  PROVE  Together(Tail(s)) /\ Tail(s) \in Seq(Steps)
<1>1. /\ Tail(s) \in Seq(Steps) /\ Len(Tail(s)) = Len(s) - 1 /\ Len(s) \in Nat
      /\ \A k \in 1 .. Len(Tail(s)) : Tail(s)[k] = s[k + 1]
  BY HeadTailProperties
<1> QED
  BY <1>1 DEF Together

LEMMA ConcatTogether ==
  ASSUME NEW s \in Seq(Steps), NEW r \in Seq(Steps), Together(s), Together(r),
         r # <<>> => Head(r).op \notin {"populate", "sign"}
  PROVE  Together(s \o r) /\ s \o r \in Seq(Steps)
<1>1. /\ s \o r \in Seq(Steps) /\ Len(s \o r) = Len(s) + Len(r)
      /\ \A k \in 1 .. Len(s) + Len(r) : (s \o r)[k] = IF k <= Len(s) THEN s[k] ELSE r[k - Len(s)]
      /\ Len(s) \in Nat /\ Len(r) \in Nat
  BY ConcatProperties
<1>2. r # <<>> => Head(r) = r[1] /\ Len(r) > 0
  BY HeadTailProperties
<1> DEFINE q == s \o r
<1> HIDE DEF q
<1>4. ASSUME NEW k \in 1 .. Len(q)
      PROVE  /\ q[k].op = "copy" => k < Len(q) /\ q[k + 1] = Do("ack", q[k].on)
             /\ q[k].op = "add" => k < Len(q) /\ (~PartlyRefused => q[k + 1] = Do("ack", Stored))
             /\ q[k].op = "clear" =>
                  /\ k + 1 < Len(q)
                  /\ q[k + 1] = Do("describe", q[k].on) /\ q[k + 2] = Do("copy", q[k].on)
             /\ k < Len(q) /\ q[k + 1].op = "populate" => q[k] = Do("note", q[k + 1].on)
             /\ k < Len(q) /\ q[k + 1].op = "sign" => q[k] = Do("populate", q[k + 1].on)
  <2>1. CASE k > Len(s)
    <3> PICK m \in 1 .. Len(r) : m = k - Len(s)
      BY <1>1, <2>1 DEF q
    <3>1. /\ q[k] = r[m] /\ Len(q) - k = Len(r) - m
          /\ m < Len(r) => q[k + 1] = r[m + 1]
          /\ m + 1 < Len(r) => q[k + 2] = r[m + 2]
      BY <1>1, <2>1 DEF q
    <3> QED
      BY <1>1, <3>1 DEF Together, q
  <2>2. CASE k < Len(s)
    <3>1. /\ q[k] = s[k] /\ q[k + 1] = s[k + 1] /\ k < Len(q)
          /\ k + 1 < Len(s) => q[k + 2] = s[k + 2] /\ k + 1 < Len(q)
      BY <1>1, <2>2 DEF q
    <3>2. k \in 1 .. Len(s)
      BY <1>1, <2>2 DEF q
    <3>3. /\ s[k].op = "copy" => s[k + 1] = Do("ack", s[k].on)
          /\ s[k].op = "add" => (~PartlyRefused => s[k + 1] = Do("ack", Stored))
          /\ s[k].op = "clear" =>
               /\ k + 1 < Len(s)
               /\ s[k + 1] = Do("describe", s[k].on) /\ s[k + 2] = Do("copy", s[k].on)
          /\ s[k + 1].op = "populate" => s[k] = Do("note", s[k + 1].on)
          /\ s[k + 1].op = "sign" => s[k] = Do("populate", s[k + 1].on)
      BY <2>2, <3>2 DEF Together
    <3> QED
      BY <3>1, <3>3
  <2>3. CASE k = Len(s)
    <3>1. /\ q[k] = s[k] /\ (k < Len(q) => r # <<>> /\ q[k + 1] = r[1])
      BY <1>1, <2>3 DEF q
    <3>2. q[k].op \notin {"copy", "add", "clear"}
      BY <1>1, <2>3, <3>1 DEF Together, q
    <3> QED
      BY <1>2, <3>1, <3>2
  <2> QED
    BY <1>1, <2>1, <2>2, <2>3 DEF q
<1>5. Together(q)
  BY <1>4 DEF Together
<1> QED
  BY <1>1, <1>5 DEF q

LEMMA Unfold ==
  ASSUME NEW s \in Seq(Steps), s # <<>>
  PROVE  /\ Len(s) \in Nat /\ Len(s) > 0 /\ Head(s) = s[1]
         /\ Len(Tail(s)) = Len(s) - 1 /\ \A j \in 1 .. Len(Tail(s)) : Tail(s)[j] = s[j + 1]
         /\ Tail(s) # <<>> => Len(Tail(s)) > 0 /\ Head(Tail(s)) = s[2]
         /\ Len(Tail(s)) > 0 => Tail(s) # <<>>
<1>1. /\ Len(s) \in Nat /\ Len(s) > 0 /\ Head(s) = s[1]
      /\ Tail(s) \in Seq(Steps) /\ Len(Tail(s)) = Len(s) - 1
      /\ \A j \in 1 .. Len(Tail(s)) : Tail(s)[j] = s[j + 1]
  BY HeadTailProperties
<1> DEFINE r == Tail(s)
<1> HIDE DEF r
<1>2. r \in Seq(Steps) /\ \A j \in 1 .. Len(r) : r[j] = s[j + 1]
  BY <1>1 DEF r
<1>3. r # <<>> => Len(r) > 0 /\ Len(r) \in Nat /\ Head(r) = r[1]
  BY <1>2, HeadTailProperties
<1>4. r # <<>> => Head(r) = s[2]
  BY <1>2, <1>3
<1>5. Len(r) > 0 => r # <<>>
  OBVIOUS
<1> QED
  BY <1>1, <1>3, <1>4, <1>5 DEF r

\* A computation goes on as long as the thread takes the steps that are left.
LEMMA ComputingTail ==
  ASSUME NEW s \in Seq(Steps), NEW c, Computing(s, c)
  PROVE  /\ s # <<>>
         /\ Head(s) = Do("copy", c) \/ (Harmless(Head(s)) /\ Computing(Tail(s), c))
<1>0. PICK k \in 1 .. Len(s) : s[k] = Do("copy", c) /\ \A j \in 1 .. k - 1 : Harmless(s[j])
  BY DEF Computing
<1>1. s # <<>> /\ Len(s) \in Nat /\ Head(s) = s[1]
  BY <1>0, HeadTailProperties
<1>2. CASE k = 1
  BY <1>0, <1>1, <1>2
<1>3. CASE k # 1
  <2>1. /\ Len(Tail(s)) = Len(s) - 1
        /\ \A j \in 1 .. Len(Tail(s)) : Tail(s)[j] = s[j + 1]
    BY <1>1, HeadTailProperties
  <2>2. PICK m \in 1 .. Len(Tail(s)) : m = k - 1
    BY <1>0, <1>1, <1>3, <2>1
  <2>3. Tail(s)[m] = Do("copy", c)
    BY <1>0, <2>1, <2>2
  <2>4. \A j \in 1 .. m - 1 : Harmless(Tail(s)[j])
    BY <1>0, <1>1, <2>1, <2>2
  <2>5. Harmless(Head(s))
    BY <1>0, <1>1, <1>3
  <2> QED
    BY <1>1, <2>3, <2>4, <2>5 DEF Computing
<1> QED
  BY <1>2, <1>3

LEMMA ComputingConcat ==
  ASSUME NEW s \in Seq(Steps), NEW r \in Seq(Steps), NEW c, Computing(r, c),
         \A j \in 1 .. Len(s) : Harmless(s[j])
  PROVE  Computing(s \o r, c)
<1>0. PICK k \in 1 .. Len(r) : r[k] = Do("copy", c) /\ \A j \in 1 .. k - 1 : Harmless(r[j])
  BY DEF Computing
<1>1. /\ Len(s \o r) = Len(s) + Len(r)
      /\ \A i \in 1 .. Len(s) + Len(r) : (s \o r)[i] = IF i <= Len(s) THEN s[i] ELSE r[i - Len(s)]
      /\ Len(s) \in Nat /\ Len(r) \in Nat
  BY ConcatProperties
<1>2. PICK m \in 1 .. Len(s \o r) : m = Len(s) + k
  BY <1>0, <1>1
<1>3. (s \o r)[m] = Do("copy", c)
  BY <1>0, <1>1, <1>2
<1>4. ASSUME NEW j \in 1 .. m - 1 PROVE Harmless((s \o r)[j])
  <2>1. CASE j <= Len(s)
    <3>1. (s \o r)[j] = s[j] /\ j \in 1 .. Len(s)
      BY <1>1, <1>2, <2>1
    <3> QED
      BY <3>1
  <2>2. CASE j > Len(s)
    <3>0. k \in Int /\ j \in Int /\ Len(s) \in Int /\ j < Len(s) + k
      BY <1>0, <1>1, <1>2
    <3>1. PICK i \in 1 .. k - 1 : i = j - Len(s)
      BY <2>2, <3>0
    <3>2. (s \o r)[j] = r[i]
      BY <1>0, <1>1, <1>2, <2>2, <3>1
    <3> QED
      BY <1>0, <3>2
  <2> QED
    BY <1>1, <1>2, <2>1, <2>2
<1> QED
  BY <1>3, <1>4 DEF Computing

----------------------------------------------------------------------------
(* What operations are made of *)

LEMMA StepsOf ==
  /\ \A c \in Computed : \A op \in ComputedOps : Do(op, c) \in Steps
  /\ \A t \in Traces : \A op \in {"refresh", "ack"} : Do(op, t) \in Steps
  /\ Do("add", Stored) \in Steps
  /\ \A l \in Locks : Lock(l) \in Steps /\ Unlock(l) \in Steps
  /\ Base \in Locks /\ \A t \in Traces : Obsels(t) \in Locks
  /\ \A c \in Computed : Stats(c) \in Locks
BY DEF Steps, Do, Lock, Unlock, Locks, Base, Obsels, Stats

LEMMA PostsTogether ==
  /\ Together(PostGraph) /\ PostGraph \in Seq(Steps)
  /\ PartlyRefused => Together(PostRefused) /\ PostRefused \in Seq(Steps)
<1>0. Stored \in Traces
  BY DEF Traces
<1>1. Together(PostGraph) /\ PostGraph \in Seq(Steps)
  <2>1. PostGraph \in Seq(Steps)
    BY <1>0, StepsOf DEF PostGraph
  <2> QED
    BY <2>1 DEF PostGraph, Together, Do, Lock, Unlock
<1>2. PartlyRefused => Together(PostRefused) /\ PostRefused \in Seq(Steps)
  <2>1. PostRefused \in Seq(Steps)
    BY <1>0, StepsOf DEF PostRefused
  <2> QED
    BY <2>1 DEF PostRefused, Together, Do, Lock, Unlock
<1> QED
  BY <1>1, <1>2

LEMMA RefreshTogether ==
  ASSUME NEW th \in Threads, NEW t \in Traces
  PROVE  Together(RefreshObsels(th, t)) /\ RefreshObsels(th, t) \in Seq(Steps)
<1> DEFINE body == <<Do("force", t), Do("refresh", Source[t]), Do("check", t), Do("unforce", t)>>
<1>1. CASE t = Stored \/ <<Home[th], t>> \in forcing
  BY <1>1 DEF RefreshObsels, Together
<1>2. CASE ~(t = Stored \/ <<Home[th], t>> \in forcing)
  <2>1. t \in Computed /\ Source[t] \in Traces
    BY <1>2 DEF Traces
  <2>2. /\ Do("force", t) \in Plain /\ Do("refresh", Source[t]) \in Plain
        /\ Do("check", t) \in Plain /\ Do("unforce", t) \in Plain
        /\ Lock(Obsels(t)) \in Plain /\ Unlock(Obsels(t)) \in Plain
    BY <2>1, StepsOf DEF Plain, Do, Lock, Unlock, ComputedOps
  <2>3. body \in Seq(Plain) /\ <<Lock(Obsels(t))>> \in Seq(Plain) /\ <<Unlock(Obsels(t))>> \in Seq(Plain)
    BY <2>2
  <2>4. <<Lock(Obsels(t))>> \o body \o <<Unlock(Obsels(t))>> \in Seq(Plain)
    BY <2>3, ConcatProperties
  <2>5. RefreshObsels(th, t) \in Seq(Plain)
    BY <1>2, <2>3, <2>4 DEF RefreshObsels
  <2> QED
    BY <2>5, PlainTogether
<1> QED
  BY <1>1, <1>2

LEMMA PiecesTogether ==
  ASSUME NEW c \in Computed
  PROVE  /\ Together(Recompute(c)) /\ Recompute(c) \in Seq(Steps)
         /\ Together(Describe(c)) /\ Describe(c) \in Seq(Steps)
         /\ \A j \in 1 .. Len(Describe(c)) : Harmless(Describe(c)[j])
         /\ Together(RefreshStats(c)) /\ RefreshStats(c) \in Seq(Steps)
         /\ Together(DeleteTrace(c)) /\ DeleteTrace(c) \in Seq(Steps)
<1>0. c \in Traces /\ Stored \in Traces
  BY DEF Traces
<1>1. Together(Recompute(c)) /\ Recompute(c) \in Seq(Steps)
  <2>1. Recompute(c) \in Seq(Steps)
    BY <1>0, StepsOf DEF Recompute, ComputedOps
  <2> QED
    BY <2>1 DEF Recompute, Together, Do
<1>2. /\ Together(Describe(c)) /\ Describe(c) \in Seq(Steps)
      /\ \A j \in 1 .. Len(Describe(c)) : Harmless(Describe(c)[j])
  <2>1. /\ Do("clearDescription", c) \in Plain /\ Lock(Base) \in Plain /\ Unlock(Base) \in Plain
        /\ Do("described", c) \in Plain
    BY StepsOf DEF Plain, Do, Lock, Unlock, ComputedOps
  <2>2. Describe(c) \in Seq(Plain)
    BY <2>1 DEF Describe
  <2>3. \A j \in 1 .. Len(Describe(c)) : Harmless(Describe(c)[j])
    BY DEF Describe, Harmless, Do, Unlock
  <2> QED
    BY <2>2, <2>3, PlainTogether
<1>3. Together(RefreshStats(c)) /\ RefreshStats(c) \in Seq(Steps)
  <2>1. RefreshStats(c) \in Seq(Steps)
    BY <1>0, StepsOf DEF RefreshStats, ComputedOps
  <2> QED
    BY <2>1 DEF RefreshStats, Together, Do, Lock, Unlock
<1>4. Together(DeleteTrace(c)) /\ DeleteTrace(c) \in Seq(Steps)
  <2>1. /\ Lock(Base) \in Plain /\ Unlock(Base) \in Plain
        /\ Do("deletable", c) \in Plain /\ Do("delete", c) \in Plain
        /\ Lock(Obsels(c)) \in Plain /\ Unlock(Obsels(c)) \in Plain
        /\ Lock(Stats(c)) \in Plain /\ Unlock(Stats(c)) \in Plain
    BY <1>0, StepsOf DEF Plain, Do, Lock, Unlock, ComputedOps
  <2>2. DeleteTrace(c) \in Seq(Plain)
    BY <2>1 DEF DeleteTrace
  <2> QED
    BY <2>2, PlainTogether
<1> QED
  BY <1>1, <1>2, <1>3, <1>4

----------------------------------------------------------------------------
(* What a step does to the lists *)

Acts(th) ==
  \/ Step(th)
  \/ Post(th)
  \/ \E c \in Computed : Work(th, c) \/ Get(th, c) \/ GetStats(th, c) \/ Delete(th, c)

Pops(th) == todo[th] # <<>> /\ todo' = [todo EXCEPT ![th] = Tail(@)]
Drops(th) == todo' = [todo EXCEPT ![th] = <<>>]

LEMMA Heads ==
  ASSUME Typed, AllTogether, NEW th \in Threads, todo[th] # <<>>
  PROVE  /\ todo[th] \in Seq(Steps) /\ Together(todo[th])
         /\ Head(todo[th]) \in Steps /\ Head(todo[th]) = Do(Head(todo[th]).op, On(th))
         /\ Tail(todo[th]) \in Seq(Steps) /\ Together(Tail(todo[th]))
<1>1. todo[th] \in Seq(Steps) /\ Together(todo[th])
  BY DEF Typed, AllTogether
<1>2. Head(todo[th]) \in Steps
  BY <1>1, HeadTailProperties
<1> QED
  BY <1>1, <1>2, TailTogether, StepTypes DEF On

LEMMA ThenNothing ==
  ASSUME Typed, NEW th \in Threads, todo[th] # <<>>, Then(th, <<>>)
  PROVE  Pops(th)
<1>1. todo[th] \in Seq(Steps) /\ Tail(todo[th]) \in Seq(Steps)
  BY HeadTailProperties DEF Typed
<1>2. <<>> \o Tail(todo[th]) = Tail(todo[th])
  BY <1>1, ConcatEmptySeq
<1> QED
  BY <1>2 DEF Then, Pops

\* A step removes the first item of the list of its thread, replaces it, drops
\* the list, or is the first of an operation.
LEMMA Shapes ==
  ASSUME Typed, AllTogether, NEW th \in Threads, Step(th)
  PROVE  LET op == Head(todo[th]).op
             c == On(th)
         IN  /\ todo[th] # <<>>
             /\ \/ Pops(th)
                \/ op = "refresh" /\ Then(th, RefreshObsels(th, c))
                \/ op = "check" /\ Then(th, Recompute(c))
                \/ op = "describe" /\ Then(th, Describe(c))
                \/ op \in {"lock", "deletable"} /\ Drops(th) /\ (Head(todo[th]) = Lock(Base) => excused')
             /\ op = "lock" \/ excused' = excused
             /\ excused => excused'
             /\ gone \subseteq gone' /\ Former \subseteq Former'
<1>t. todo[th] # <<>>
  BY DEF Step, Acquire, TimeOut, Release, Call, Compute, Serve, Note, WriteStats, Destroy, NextIs
<1>n. Then(th, <<>>) => Pops(th)
  BY <1>t, ThenNothing
<1>h. Head(todo[th]) \in Steps /\ Head(todo[th]) = Do(Head(todo[th]).op, On(th))
  BY <1>t, Heads
<1>e. excused \in BOOLEAN /\ Stored \notin gone
  BY DEF Typed
<1>1. CASE Acquire(th)
  <2>1. CASE On(th)[2] \in gone
    <3>1. On(th) # Base
      BY <1>e, <2>1 DEF Base
    <3>2. Head(todo[th]) # Lock(Base)
      BY <1>h, <3>1 DEF Lock, Do, On
    <3> QED
      BY <1>1, <1>t, <2>1, <3>2 DEF Acquire, NextIs, Raise, Drops, data, Former
  <2>2. CASE On(th)[2] \notin gone
    BY <1>1, <1>t, <1>n, <2>2 DEF Acquire, NextIs, data, Former
  <2> QED
    BY <2>1, <2>2
<1>2. CASE TimeOut(th)
  <2>1. Head(todo[th]) = Lock(Base) => On(th) = Base
    BY DEF Lock, Do, On
  <2> QED
    BY <1>2, <1>t, <1>e, <2>1 DEF TimeOut, NextIs, Raise, Drops, data, Former
<1>3. CASE Release(th)
  BY <1>3, <1>t, <1>n DEF Release, NextIs, data, Former
<1>4. CASE Call(th)
  BY <1>4, <1>t, <1>n DEF Call, NextIs, data, Former
<1>5. CASE Compute(th)
  BY <1>5, <1>t, <1>n DEF Compute, data, Former
<1>6. CASE Serve(th) \/ Note(th) \/ WriteStats(th)
  BY <1>6, <1>t, <1>n DEF Serve, Note, WriteStats, data, Former
<1>7. CASE Destroy(th)
  BY <1>7, <1>t, <1>n, <1>h DEF Destroy, NextIs, Raise, Drops, ToldToSource, Former, Lock, Do
<1> QED
  BY <1>1, <1>2, <1>3, <1>4, <1>5, <1>6, <1>7 DEF Step

\* What it does to the data, by the first item of its list.
LEMMA Effects ==
  ASSUME Typed, AllTogether, NEW th \in Threads, Step(th)
  PROVE  LET op == Head(todo[th]).op
             c == On(th)
         IN  /\ op = "copy" => content' = [content EXCEPT ![c] = content[Source[c]]]
             /\ op = "add" => content' = [content EXCEPT ![Stored] = @ + 1]
             /\ op \notin {"copy", "add"} => content' = content
             /\ op = "ack" => etag' = [etag EXCEPT ![c] = @ + 1] /\ dirty' = dirty \cup Dependents(c)
             /\ op # "ack" => etag' = etag
             /\ op = "clear" => dirty' = dirty \ {c}
             /\ op # "clear" => dirty \subseteq dirty'
             /\ op = "populate" =>
                  /\ noted' = noted
                  /\ stats' = IF noted[th] = stats[c].etag THEN stats
                              ELSE [stats EXCEPT ![c].count = content[c]]
             /\ op = "sign" => /\ noted' = [noted EXCEPT ![th] = 0]
                               /\ stats' = [stats EXCEPT ![c].etag = noted[th]]
             /\ op \notin {"populate", "sign"} => stats' = stats
             /\ op = "note" => noted' = [noted EXCEPT ![th] = etag[c]]
             /\ op \notin {"note", "sign"} => noted' = noted \/ (Drops(th) /\ noted' = [noted EXCEPT ![th] = 0])
             /\ op \in {"copy", "add", "ack", "clear", "populate", "sign", "note"} => Pops(th)
             /\ dirty' \subseteq Computed /\ undescribed' \subseteq Computed
             /\ unlisted' \subseteq Computed /\ gone' \subseteq Computed
<1>t. todo[th] # <<>>
  BY Shapes
<1>n. Then(th, <<>>) => Pops(th)
  BY <1>t, ThenNothing
<1>h. Head(todo[th]) \in Steps /\ Head(todo[th]) = Do(Head(todo[th]).op, On(th))
  BY <1>t, Heads
<1>d. /\ dirty \subseteq Computed /\ undescribed \subseteq Computed
      /\ unlisted \subseteq Computed /\ gone \subseteq Computed
      /\ \A t : Dependents(t) \subseteq Computed
  BY DEF Typed, Dependents
<1>1. CASE Acquire(th)
  BY <1>1, <1>d DEF Acquire, NextIs, Raise, Drops, data
<1>2. CASE TimeOut(th)
  BY <1>2, <1>d DEF TimeOut, NextIs, Raise, Drops, data
<1>3. CASE Release(th) \/ Serve(th)
  BY <1>3, <1>d DEF Release, Serve, NextIs, data
<1>4. CASE Call(th)
  BY <1>4, <1>d DEF Call, NextIs, data
<1>5. CASE Compute(th)
  BY <1>5, <1>d, <1>n DEF Compute, NextIs, data
<1>6. CASE Note(th)
  BY <1>6, <1>d, <1>n DEF Note, NextIs, data
<1>7. CASE WriteStats(th)
  BY <1>7, <1>d, <1>n DEF WriteStats, NextIs
<1>8. CASE Destroy(th)
  <2>1. Head(todo[th]).op \in {"deletable", "delete"} => On(th) \in Computed
    BY <1>h, StepTypes DEF ComputedOps, On
  <2> QED
    BY <1>8, <1>d, <1>n, <2>1 DEF Destroy, NextIs, Raise, Drops, ToldToSource
<1> QED
  BY <1>1, <1>2, <1>3, <1>4, <1>5, <1>6, <1>7, <1>8 DEF Step

\* The other threads.
LEMMA Others ==
  ASSUME Typed, NEW th \in Threads, Acts(th), AllTogether
  PROVE  \A u \in Threads \ {th} : todo'[u] = todo[u] /\ noted'[u] = noted[u]
<1>1. CASE Step(th)
  <2>1. \A u \in Threads \ {th} : todo'[u] = todo[u]
    <3>1. \E q : todo' = [todo EXCEPT ![th] = q]
      BY <1>1, Shapes DEF Pops, Then, Drops
    <3> QED
      BY <3>1 DEF Typed
  <2>2. \A u \in Threads \ {th} : noted'[u] = noted[u]
    <3>1. noted' = noted \/ \E v : noted' = [noted EXCEPT ![th] = v]
      BY <1>1, Effects
    <3> QED
      BY <3>1 DEF Typed
  <2> QED
    BY <2>1, <2>2
<1>2. CASE ~Step(th)
  BY <1>2 DEF Acts, Post, Work, Get, GetStats, Delete, Begin, Typed
<1> QED
  BY <1>1, <1>2

\* Operations begin with the list of their steps, and change nothing else.
LEMMA Beginning ==
  ASSUME Typed, NEW th \in Threads, Acts(th), ~Step(th)
  PROVE  /\ todo[th] = <<>>
         /\ content' = content /\ etag' = etag /\ dirty' = dirty /\ undescribed' = undescribed
         /\ gone' = gone /\ unlisted' = unlisted /\ Former' = Former
         /\ stats' = stats /\ noted' = noted /\ excused' = excused
         /\ todo' \in [Threads -> Seq(Steps)]
         /\ todo'[th] # <<>> => Head(todo'[th]).op \notin {"ack", "sign", "populate"}
         /\ Together(todo'[th])
<1>1. /\ todo[th] = <<>>
      /\ content' = content /\ etag' = etag /\ dirty' = dirty /\ undescribed' = undescribed
      /\ gone' = gone /\ unlisted' = unlisted /\ Former' = Former
      /\ stats' = stats /\ noted' = noted /\ excused' = excused
  BY DEF Acts, Post, Work, Get, GetStats, Delete, Idle, data, Former
<1>2. PICK s : /\ todo' = [todo EXCEPT ![th] = s]
               /\ s \in Seq(Steps) /\ Together(s)
               /\ s # <<>> => Head(s).op \notin {"ack", "sign", "populate"}
  <2>1. CASE Post(th)
    <3>1. \/ todo' = [todo EXCEPT ![th] = PostGraph]
          \/ PartlyRefused /\ todo' = [todo EXCEPT ![th] = PostRefused]
      BY <2>1 DEF Post, Begin
    <3>2. Head(PostGraph).op = "lock" /\ Head(PostRefused).op = "lock"
      BY DEF PostGraph, PostRefused, Lock, Do
    <3>3. /\ Together(PostGraph) /\ PostGraph \in Seq(Steps)
          /\ PartlyRefused => Together(PostRefused) /\ PostRefused \in Seq(Steps)
      BY PostsTogether
    <3> QED
      BY <3>1, <3>2, <3>3
  <2>2. CASE \E c \in Computed : Work(th, c) \/ Get(th, c) \/ GetStats(th, c) \/ Delete(th, c)
    <3> PICK c \in Computed : Work(th, c) \/ Get(th, c) \/ GetStats(th, c) \/ Delete(th, c)
      BY <2>2
    <3>0. c \in Traces
      BY DEF Traces
    <3>1. CASE Work(th, c) \/ Get(th, c)
      <4>1. /\ Lock(Obsels(c)) \in Plain /\ Do("refresh", c) \in Plain
            /\ Unlock(Obsels(c)) \in Plain /\ Do("serve", c) \in Plain
        BY <3>0, StepsOf DEF Plain, Do, Lock, Unlock, ComputedOps
      <4> DEFINE w == <<Lock(Obsels(c)), Do("refresh", c), Unlock(Obsels(c))>>
                 g == <<Do("refresh", c), Do("serve", c)>>
      <4>2. w \in Seq(Plain) /\ g \in Seq(Plain)
        BY <4>1
      <4>3. Head(w).op = "lock" /\ Head(g).op = "refresh"
        BY DEF Lock, Do
      <4>4. todo' = [todo EXCEPT ![th] = w] \/ todo' = [todo EXCEPT ![th] = g]
        BY <3>1 DEF Work, Get, Begin
      <4> HIDE DEF w, g
      <4>5. Together(w) /\ w \in Seq(Steps) /\ Together(g) /\ g \in Seq(Steps)
        BY <4>2, PlainTogether
      <4> QED
        BY <4>3, <4>4, <4>5
    <3>2. CASE GetStats(th, c)
      <4>1. todo' = [todo EXCEPT ![th] = RefreshStats(c)]
        BY <3>2 DEF GetStats, Begin
      <4>2. Head(RefreshStats(c)).op = "lock"
        BY DEF RefreshStats, Lock, Do
      <4> QED
        BY <4>1, <4>2, PiecesTogether
    <3>3. CASE Delete(th, c)
      <4>1. todo' = [todo EXCEPT ![th] = DeleteTrace(c)]
        BY <3>3 DEF Delete, Begin
      <4>2. Head(DeleteTrace(c)).op = "lock"
        BY DEF DeleteTrace, Lock, Do
      <4> QED
        BY <4>1, <4>2, PiecesTogether
    <3> QED
      BY <3>1, <3>2, <3>3
  <2> QED
    BY <2>1, <2>2 DEF Acts
<1>3. todo' \in [Threads -> Seq(Steps)] /\ todo'[th] = s
  BY <1>2 DEF Typed
<1> QED
  BY <1>1, <1>2, <1>3

LEMMA NextTogether ==
  ASSUME Typed, AllTogether, NEW th \in Threads, Acts(th)
  PROVE  AllTogether' /\ todo' \in [Threads -> Seq(Steps)]
<1>0. todo \in [Threads -> Seq(Steps)] /\ \A u \in Threads : Together(todo[u])
  BY DEF Typed, AllTogether
<1>1. PICK s : todo' = [todo EXCEPT ![th] = s] /\ s \in Seq(Steps) /\ Together(s)
  <2>1. CASE ~Step(th)
    <3>1. Together(todo'[th]) /\ todo' \in [Threads -> Seq(Steps)]
      BY <2>1, Beginning
    <3>2. \A u \in Threads \ {th} : todo'[u] = todo[u]
      BY Others
    <3>3. todo' = [todo EXCEPT ![th] = todo'[th]]
      BY <1>0, <3>1, <3>2
    <3> QED
      BY <3>1, <3>3
  <2>2. CASE Step(th)
    <3> DEFINE rest == Tail(todo[th])
               op == Head(todo[th]).op
    <3>0. /\ todo[th] # <<>> /\ todo[th] \in Seq(Steps) /\ Head(todo[th]) \in Steps
          /\ rest \in Seq(Steps) /\ Together(rest)
      BY <2>2, Shapes, Heads
    <3>1. CASE Pops(th)
      BY <3>0, <3>1 DEF Pops
    <3>2. CASE Drops(th)
      <4>1. <<>> \in Seq(Steps) /\ Together(<<>>)
        BY DEF Together
      <4> QED
        BY <3>2, <4>1 DEF Drops
    <3>3. ASSUME op \in {"refresh", "check", "describe"}, NEW steps \in Seq(Steps), Together(steps),
                 Then(th, steps)
          PROVE  \E s : todo' = [todo EXCEPT ![th] = s] /\ s \in Seq(Steps) /\ Together(s)
      <4>1. rest # <<>> => Head(rest).op \notin {"populate", "sign"}
        <5> HAVE rest # <<>>
        <5>1. /\ Len(todo[th]) \in Nat /\ Len(todo[th]) > 1
              /\ Head(rest) = todo[th][2] /\ Head(todo[th]) = todo[th][1]
          BY <3>0, HeadTailProperties
        <5>2. 1 \in 1 .. Len(todo[th]) /\ 1 < Len(todo[th]) /\ 1 + 1 = 2
          BY <5>1
        <5>3. /\ todo[th][2].op = "populate" => todo[th][1] = Do("note", todo[th][2].on)
              /\ todo[th][2].op = "sign" => todo[th][1] = Do("populate", todo[th][2].on)
          BY <1>0, <5>2 DEF Together
        <5> QED
          BY <3>3, <5>1, <5>3 DEF Do
      <4>2. Together(steps \o rest) /\ steps \o rest \in Seq(Steps)
        BY <3>0, <3>3, <4>1, ConcatTogether
      <4> QED
        BY <3>3, <4>2 DEF Then
    <3>4. CASE op = "refresh" /\ Then(th, RefreshObsels(th, On(th)))
      <4>1. On(th) \in Traces
        BY <3>0, <3>4, StepTypes DEF On
      <4>2. Together(RefreshObsels(th, On(th))) /\ RefreshObsels(th, On(th)) \in Seq(Steps)
        BY <4>1, RefreshTogether
      <4> QED
        BY <3>3, <3>4, <4>2
    <3>5. CASE op \in {"check", "describe"}
      <4>1. On(th) \in Computed
        BY <3>0, <3>5, StepTypes DEF On, ComputedOps
      <4>2. /\ Together(Recompute(On(th))) /\ Recompute(On(th)) \in Seq(Steps)
            /\ Together(Describe(On(th))) /\ Describe(On(th)) \in Seq(Steps)
        BY <4>1, PiecesTogether
      <4>3. Pops(th) \/ Drops(th) \/ Then(th, Recompute(On(th))) \/ Then(th, Describe(On(th)))
        BY <2>2, <3>5, Shapes
      <4> QED
        BY <3>1, <3>2, <3>3, <3>5, <4>2, <4>3
    <3> QED
      BY <2>2, <3>1, <3>2, <3>4, <3>5, Shapes
  <2> QED
    BY <2>1, <2>2
<1>2. todo' \in [Threads -> Seq(Steps)] /\ \A u \in Threads : Together(todo'[u])
  BY <1>0, <1>1
<1> QED
  BY <1>2 DEF AllTogether

\* What follows the steps that stay together.
LEMMA Follows ==
  ASSUME Typed, AllTogether, NEW th \in Threads, Step(th)
  PROVE  LET op == Head(todo[th]).op
             c == On(th)
         IN  /\ op = "copy" => Acking(todo'[th], c)
             /\ op = "add" /\ ~PartlyRefused => Acking(todo'[th], Stored)
             /\ op = "clear" => Computing(todo'[th], c)
             /\ todo'[th] # <<>> /\ Head(todo'[th]).op = "populate" =>
                  op = "note" /\ c = Head(todo'[th]).on
             /\ todo'[th] # <<>> /\ Head(todo'[th]).op = "sign" =>
                  op = "populate" /\ c = Head(todo'[th]).on
<1> DEFINE seq == todo[th]
           rest == Tail(todo[th])
           op == Head(todo[th]).op
           c == On(th)
<1>0. /\ seq # <<>> /\ seq \in Seq(Steps) /\ Head(seq) \in Steps /\ Together(seq)
      /\ rest \in Seq(Steps) /\ Head(seq) = Do(op, c)
  BY Shapes, Heads
<1>l. /\ Len(seq) \in Nat /\ Len(seq) > 0 /\ Head(seq) = seq[1]
      /\ Len(rest) = Len(seq) - 1 /\ \A j \in 1 .. Len(rest) : rest[j] = seq[j + 1]
      /\ rest # <<>> => Len(rest) > 0 /\ Head(rest) = seq[2]
      /\ Len(rest) > 0 => rest # <<>>
  BY <1>0, Unfold
<1>1. /\ seq[1].op = "copy" => 1 < Len(seq) /\ seq[2] = Do("ack", seq[1].on)
      /\ seq[1].op = "add" => 1 < Len(seq) /\ (~PartlyRefused => seq[2] = Do("ack", Stored))
      /\ seq[1].op = "clear" =>
           2 < Len(seq) /\ seq[2] = Do("describe", seq[1].on) /\ seq[3] = Do("copy", seq[1].on)
      /\ 1 < Len(seq) /\ seq[2].op = "populate" => seq[1] = Do("note", seq[2].on)
      /\ 1 < Len(seq) /\ seq[2].op = "sign" => seq[1] = Do("populate", seq[2].on)
  <2>1. 1 \in 1 .. Len(seq) /\ 1 + 1 = 2 /\ 1 + 2 = 3
    BY <1>l
  <2> HIDE DEF seq
  <2> QED
    BY <1>0, <2>1 DEF Together
<1>2. Pops(th) => todo'[th] = rest
  BY DEF Pops, Typed
<1> HIDE DEF seq, rest
<1>3. op \in {"copy", "add", "clear", "populate", "note"} => Pops(th)
  BY Effects
<1>4. op = "copy" => Acking(todo'[th], c)
  BY <1>l, <1>1, <1>2, <1>3 DEF Acking, On, seq
<1>5. op = "add" /\ ~PartlyRefused => Acking(todo'[th], Stored)
  BY <1>l, <1>1, <1>2, <1>3 DEF Acking, seq
<1>6. op = "clear" => Computing(todo'[th], c)
  <2> HAVE op = "clear"
  <2>1. /\ todo'[th] = rest /\ Len(rest) >= 2
        /\ rest[1] = Do("describe", c) /\ rest[2] = Do("copy", c)
    BY <1>l, <1>1, <1>2, <1>3 DEF On, seq
  <2>2. Harmless(rest[1])
    BY <2>1 DEF Harmless, Do
  <2>3. 2 \in 1 .. Len(rest) /\ \A j \in 1 .. 2 - 1 : Harmless(rest[j])
    BY <1>l, <2>1, <2>2
  <2> QED
    BY <2>1, <2>3 DEF Computing
<1>7. ASSUME todo'[th] # <<>>, Head(todo'[th]).op \in {"populate", "sign"}
      PROVE  Pops(th)
  <2>1. ~Drops(th)
    BY <1>7 DEF Drops, Typed
  <2>2. ASSUME NEW steps \in Seq(Steps), Then(th, steps), steps # <<>>,
               Head(steps).op \notin {"populate", "sign"}
        PROVE  FALSE
    <3>1. todo'[th] = steps \o rest
      BY <2>2 DEF Then, Typed, rest
    <3>2. Head(steps \o rest) = Head(steps)
      BY <1>0, <2>2, ConcatProperties, HeadTailProperties
    <3> QED
      BY <1>7, <2>2, <3>1, <3>2
  <2>3. CASE op = "refresh" /\ Then(th, RefreshObsels(th, c))
    <3>1. CASE RefreshObsels(th, c) = <<>>
      BY <1>0, <2>3, <3>1, ThenNothing DEF seq
    <3>2. CASE RefreshObsels(th, c) # <<>>
      <4>1. c \in Traces
        BY <1>0, <2>3, StepTypes DEF On, seq
      <4>2. Head(RefreshObsels(th, c)).op \in {"lock", "force"}
        BY <3>2 DEF RefreshObsels, Lock, Do
      <4> QED
        BY <2>2, <2>3, <3>2, <4>1, <4>2, RefreshTogether
    <3> QED
      BY <3>1, <3>2
  <2>4. CASE op \in {"check", "describe"}
    <3>1. c \in Computed
      BY <1>0, <2>4, StepTypes DEF On, seq, ComputedOps
    <3>2. /\ Head(Recompute(c)).op = "clear" /\ Recompute(c) # <<>>
          /\ Head(Describe(c)).op = "clearDescription" /\ Describe(c) # <<>>
      BY DEF Recompute, Describe, Do
    <3>3. Recompute(c) \in Seq(Steps) /\ Describe(c) \in Seq(Steps)
      BY <3>1, PiecesTogether
    <3> QED
      BY <2>1, <2>2, <2>4, <3>2, <3>3, Shapes
  <2> QED
    BY <2>1, <2>3, <2>4, Shapes
<1>8. ASSUME todo'[th] # <<>>, Head(todo'[th]).op \in {"populate", "sign"}
      PROVE  /\ Head(todo'[th]).op = "populate" => op = "note" /\ c = Head(todo'[th]).on
             /\ Head(todo'[th]).op = "sign" => op = "populate" /\ c = Head(todo'[th]).on
  <2>1. todo'[th] = rest /\ rest # <<>> /\ Head(rest) = seq[2] /\ 1 < Len(seq)
    BY <1>l, <1>2, <1>7, <1>8
  <2> QED
    BY <1>l, <1>1, <1>8, <2>1 DEF Do, On, seq
<1> QED
  BY <1>4, <1>5, <1>6, <1>8

----------------------------------------------------------------------------
(* Types *)

LEMMA NextTyped ==
  ASSUME Typed, AllTogether, NEW th \in Threads, Acts(th)
  PROVE  Typed'
<1>0. /\ content \in [Traces -> Nat] /\ etag \in [Traces -> Nat]
      /\ stats \in [Computed -> [count : Nat, etag : Nat]] /\ noted \in [Threads -> Nat]
      /\ excused \in BOOLEAN
  BY DEF Typed
<1>t. todo' \in [Threads -> Seq(Steps)]
  BY NextTogether
<1>1. CASE ~Step(th)
  BY <1>1, <1>t, Beginning DEF Typed
<1>2. CASE Step(th)
  <2> DEFINE op == Head(todo[th]).op
             c == On(th)
  <2>h. /\ op \in ComputedOps => c \in Computed
        /\ op \in {"refresh", "ack"} => c \in Traces
    BY <1>2, Shapes, Heads, StepTypes DEF On
  <2>1. content' \in [Traces -> Nat]
    <3>1. CASE op = "copy"
      <4>1. content' = [content EXCEPT ![c] = content[Source[c]]] /\ Source[c] \in Traces
        BY <1>2, <2>h, <3>1, Effects DEF ComputedOps, Traces
      <4> QED
        BY <1>0, <4>1
    <3>2. CASE op = "add"
      <4>1. content' = [content EXCEPT ![Stored] = content[Stored] + 1]
        BY <1>0, <1>2, <3>2, Effects
      <4>2. content[Stored] + 1 \in Nat
        BY <1>0 DEF Traces
      <4> QED
        BY <1>0, <4>1, <4>2
    <3> QED
      BY <1>0, <1>2, <3>1, <3>2, Effects
  <2>2. etag' \in [Traces -> Nat]
    <3>1. etag' = etag \/ etag' = [etag EXCEPT ![c] = @ + 1]
      BY <1>2, Effects
    <3> QED
      BY <1>0, <3>1
  <2>3. stats' \in [Computed -> [count : Nat, etag : Nat]] /\ noted' \in [Threads -> Nat]
    <3>1. CASE op = "populate"
      <4>1. /\ noted' = noted
            /\ stats' = stats \/ stats' = [stats EXCEPT ![c].count = content[c]]
        BY <1>2, <3>1, Effects
      <4>2. content[c] \in Nat
        BY <1>0, <2>h, <3>1 DEF ComputedOps, Traces
      <4> QED
        BY <1>0, <4>1, <4>2
    <3>2. CASE op = "sign"
      <4>1. /\ noted' = [noted EXCEPT ![th] = 0]
            /\ stats' = [stats EXCEPT ![c].etag = noted[th]]
        BY <1>2, <3>2, Effects
      <4> QED
        BY <1>0, <4>1
    <3>3. CASE op \notin {"populate", "sign"}
      <4>1. stats' = stats
        BY <1>2, <3>3, Effects
      <4>2. CASE op = "note"
        <5>1. noted' = [noted EXCEPT ![th] = etag[c]] /\ etag[c] \in Nat
          BY <1>0, <1>2, <2>h, <4>2, Effects DEF ComputedOps, Traces
        <5> QED
          BY <1>0, <4>1, <5>1
      <4>3. CASE op # "note"
        <5>1. noted' = noted \/ noted' = [noted EXCEPT ![th] = 0]
          BY <1>2, <3>3, <4>3, Effects
        <5> QED
          BY <1>0, <4>1, <5>1
      <4> QED
        BY <4>2, <4>3
    <3> QED
      BY <3>1, <3>2, <3>3
  <2>4. /\ dirty' \subseteq Computed /\ undescribed' \subseteq Computed
        /\ unlisted' \subseteq Computed /\ gone' \subseteq Computed
    BY <1>2, Effects
  <2>5. excused' \in BOOLEAN
    BY <1>0, <1>2 DEF Step, Acquire, TimeOut, Release, Call, Compute, Serve, Note, WriteStats, Destroy
  <2> QED
    BY <1>t, <2>1, <2>2, <2>3, <2>4, <2>5 DEF Typed
<1> QED
  BY <1>1, <1>2

----------------------------------------------------------------------------
(* Statistics *)

LEMMA NextEtagsGrow ==
  ASSUME Typed, AllTogether, EtagsGrow, NEW th \in Threads, Acts(th)
  PROVE  EtagsGrow'
<1> DEFINE op == Head(todo[th]).op
           on == On(th)
<1>0. /\ etag \in [Traces -> Nat] /\ stats \in [Computed -> [count : Nat, etag : Nat]]
      /\ noted \in [Threads -> Nat] /\ Computed \subseteq Traces
  BY DEF Typed, Traces
<1>o. \A u \in Threads \ {th} : todo'[u] = todo[u] /\ noted'[u] = noted[u]
  BY Others
<1>1. CASE ~Step(th)
  <2>1. \A c \in Computed : ~NextOn(todo'[th], {"populate", "sign"}, c)
    BY <1>1, Beginning DEF NextOn
  <2>2. etag' = etag /\ stats' = stats
    BY <1>1, Beginning
  <2> QED
    BY <1>o, <2>1, <2>2 DEF EtagsGrow
<1>2. CASE Step(th)
  <2>t. todo[th] # <<>> /\ (op \in ComputedOps => on \in Computed)
    BY <1>2, Shapes, Heads, StepTypes DEF On
  <2> SUFFICES ASSUME NEW c \in Computed
               PROVE  /\ stats'[c].etag <= etag'[c]
                      /\ \A u \in Threads :
                           NextOn(todo'[u], {"populate", "sign"}, c) => noted'[u] <= etag'[c]
    BY DEF EtagsGrow
  <2>1. etag[c] \in Nat /\ etag'[c] \in Nat /\ etag[c] <= etag'[c]
    <3>1. etag' = etag \/ etag' = [etag EXCEPT ![on] = @ + 1]
      BY <1>2, Effects
    <3> QED
      BY <1>0, <3>1
  <2>2. stats[c].etag <= etag[c] /\ stats[c].etag \in Nat
    BY <1>0 DEF EtagsGrow
  <2>3. stats'[c].etag <= etag'[c]
    <3>1. CASE op = "sign" /\ on = c
      <4>1. stats' = [stats EXCEPT ![c].etag = noted[th]] /\ NextOn(todo[th], {"populate", "sign"}, c)
        BY <1>2, <2>t, <3>1, Effects DEF NextOn, On
      <4>2. stats'[c].etag = noted[th] /\ noted[th] <= etag[c] /\ noted[th] \in Nat
        BY <1>0, <4>1 DEF EtagsGrow
      <4> QED
        BY <2>1, <4>2
    <3>2. CASE ~(op = "sign" /\ on = c)
      <4>1. \/ stats' = stats
            \/ stats' = [stats EXCEPT ![on].count = content[on]]
            \/ on # c /\ stats' = [stats EXCEPT ![on].etag = noted[th]]
        BY <1>2, <3>2, Effects
      <4>2. stats'[c].etag = stats[c].etag
        BY <1>0, <4>1
      <4> QED
        BY <2>1, <2>2, <4>2
    <3> QED
      BY <3>1, <3>2
  <2>4. ASSUME NEW u \in Threads \ {th}, NextOn(todo'[u], {"populate", "sign"}, c)
        PROVE  noted'[u] <= etag'[c]
    <3>1. noted'[u] = noted[u] /\ noted[u] <= etag[c] /\ noted[u] \in Nat
      BY <1>0, <1>o, <2>4 DEF EtagsGrow
    <3> QED
      BY <2>1, <3>1
  <2>5. ASSUME NextOn(todo'[th], {"populate", "sign"}, c)
        PROVE  noted'[th] <= etag'[c]
    <3>1. on = c /\ op \in {"note", "populate"}
      BY <1>2, <2>5, Follows DEF NextOn
    <3>2. CASE op = "note"
      <4>1. noted'[th] = etag[c]
        BY <1>0, <1>2, <3>1, <3>2, Effects
      <4> QED
        BY <2>1, <4>1
    <3>3. CASE op = "populate"
      <4>1. noted' = noted /\ NextOn(todo[th], {"populate", "sign"}, c)
        BY <1>2, <2>t, <3>1, <3>3, Effects DEF NextOn, On
      <4>2. noted[th] <= etag[c] /\ noted[th] \in Nat
        BY <1>0, <4>1 DEF EtagsGrow
      <4> QED
        BY <2>1, <4>1, <4>2
    <3> QED
      BY <3>1, <3>2, <3>3
  <2> QED
    BY <2>3, <2>4, <2>5
<1> QED
  BY <1>1, <1>2

LEMMA NextHonest ==
  ASSUME Typed, AllTogether, EtagsGrow, Honest, NEW th \in Threads, Acts(th)
  PROVE  Honest'
<1> DEFINE op == Head(todo[th]).op
           on == On(th)
<1>0. /\ etag \in [Traces -> Nat] /\ stats \in [Computed -> [count : Nat, etag : Nat]]
      /\ content \in [Traces -> Nat] /\ noted \in [Threads -> Nat] /\ Computed \subseteq Traces
  BY DEF Typed, Traces
<1>o. \A u \in Threads \ {th} : todo'[u] = todo[u] /\ noted'[u] = noted[u]
  BY Others
<1> SUFFICES ASSUME NEW c \in Computed, \A u \in Threads : ~Acking(todo'[u], c)
             PROVE  /\ stats'[c].etag = etag'[c] => stats'[c].count = content'[c]
                    /\ \A u \in Threads :
                         NextOn(todo'[u], {"sign"}, c) /\ noted'[u] = etag'[c]
                           => stats'[c].count = content'[c]
  BY DEF Honest
<1>1. CASE ~Step(th)
  <2>1. /\ todo[th] = <<>> /\ etag' = etag /\ stats' = stats /\ content' = content
        /\ ~NextOn(todo'[th], {"sign"}, c)
    BY <1>1, Beginning DEF NextOn
  <2>2. \A u \in Threads : ~Acking(todo[u], c)
    BY <1>o, <2>1 DEF Acking
  <2> QED
    BY <1>o, <2>1, <2>2 DEF Honest
<1>2. CASE Step(th)
  <2>t. todo[th] # <<>> /\ Head(todo[th]) = Do(op, on)
    BY <1>2, Shapes, Heads
  <2>f. NextOn(todo'[th], {"sign"}, c) => op = "populate" /\ on = c
    BY <1>2, Follows DEF NextOn
  <2>s. etag[c] \in Nat /\ stats[c].etag \in Nat /\ stats[c].etag <= etag[c]
    BY <1>0 DEF EtagsGrow
  <2>1. CASE op = "ack" /\ on = c
    <3>1. etag' = [etag EXCEPT ![c] = @ + 1] /\ stats' = stats
      BY <1>2, <2>1, Effects
    <3>2. etag'[c] = etag[c] + 1
      BY <1>0, <3>1
    <3>3. stats'[c].etag # etag'[c]
      BY <2>s, <3>1, <3>2
    <3>4. ASSUME NEW u \in Threads, NextOn(todo'[u], {"sign"}, c) PROVE noted'[u] # etag'[c]
      <4>1. u # th
        BY <2>1, <2>f, <3>4
      <4>2. noted'[u] = noted[u] /\ noted[u] \in Nat /\ noted[u] <= etag[c]
        BY <1>0, <1>o, <3>4, <4>1 DEF EtagsGrow, NextOn
      <4> QED
        BY <2>s, <3>2, <4>2
    <3> QED
      BY <3>3, <3>4
  <2>2. CASE ~(op = "ack" /\ on = c)
    <3>1. ~Acking(todo[th], c)
      BY <2>2, <2>t DEF Acking, Do, On
    <3>2. \A u \in Threads : ~Acking(todo[u], c)
      BY <1>o, <3>1
    <3>3. /\ stats[c].etag = etag[c] => stats[c].count = content[c]
          /\ \A u \in Threads :
               NextOn(todo[u], {"sign"}, c) /\ noted[u] = etag[c] => stats[c].count = content[c]
      BY <3>2 DEF Honest
    <3>4. etag'[c] = etag[c]
      <4>1. etag' = etag \/ (on # c /\ etag' = [etag EXCEPT ![on] = @ + 1])
        BY <1>2, <2>2, Effects
      <4> QED
        BY <1>0, <4>1
    <3>5. content'[c] = content[c]
      <4>1. ~(op = "copy" /\ on = c)
        BY <1>2, Follows
      <4>2. \/ content' = content
            \/ on # c /\ content' = [content EXCEPT ![on] = content[Source[on]]]
            \/ content' = [content EXCEPT ![Stored] = @ + 1]
        BY <1>2, <4>1, Effects
      <4> QED
        BY <1>0, <4>2
    <3>6. CASE op = "populate" /\ on = c
      <4>1. /\ noted' = noted
            /\ stats' = IF noted[th] = stats[c].etag THEN stats
                        ELSE [stats EXCEPT ![c].count = content[c]]
        BY <1>2, <3>6, Effects
      <4>2. CASE noted[th] = stats[c].etag
        <5>1. stats' = stats
          BY <4>1, <4>2
        <5>2. ASSUME NEW u \in Threads, NextOn(todo'[u], {"sign"}, c), noted[u] = etag[c]
              PROVE  stats[c].count = content[c]
          <6>1. CASE u = th
            BY <3>3, <4>2, <5>2, <6>1
          <6>2. CASE u # th
            BY <1>o, <3>3, <5>2, <6>2
          <6> QED
            BY <6>1, <6>2
        <5> QED
          BY <3>3, <3>4, <3>5, <4>1, <5>1, <5>2
      <4>3. CASE noted[th] # stats[c].etag
        <5>1. stats'[c].count = content[c]
          BY <1>0, <4>1, <4>3
        <5> QED
          BY <3>5, <5>1
      <4> QED
        BY <4>2, <4>3
    <3>7. CASE op = "sign" /\ on = c
      <4>1. stats' = [stats EXCEPT ![c].etag = noted[th]]
        BY <1>2, <3>7, Effects
      <4>2. stats'[c].etag = noted[th] /\ stats'[c].count = stats[c].count
        BY <1>0, <4>1
      <4>3. NextOn(todo[th], {"sign"}, c)
        BY <2>t, <3>7 DEF NextOn, On
      <4>4. ASSUME NEW u \in Threads, NextOn(todo'[u], {"sign"}, c), noted'[u] = etag[c]
            PROVE  stats[c].count = content[c]
        <5>1. u # th
          BY <2>f, <3>7, <4>4
        <5> QED
          BY <1>o, <3>3, <4>4, <5>1
      <4> QED
        BY <3>3, <3>4, <3>5, <4>2, <4>3, <4>4
    <3>8. CASE ~(op \in {"populate", "sign"} /\ on = c)
      <4>1. \/ stats' = stats
            \/ on # c /\ stats' = [stats EXCEPT ![on].count = content[on]]
            \/ on # c /\ stats' = [stats EXCEPT ![on].etag = noted[th]]
        BY <1>2, <3>8, Effects
      <4>2. stats'[c] = stats[c]
        BY <1>0, <4>1
      <4>3. ASSUME NEW u \in Threads, NextOn(todo'[u], {"sign"}, c), noted'[u] = etag[c]
            PROVE  stats[c].count = content[c]
        <5>1. u # th
          BY <2>f, <3>8, <4>3
        <5> QED
          BY <1>o, <3>3, <4>3, <5>1
      <4> QED
        BY <3>3, <3>4, <3>5, <4>2, <4>3
    <3> QED
      BY <3>6, <3>7, <3>8
  <2> QED
    BY <2>1, <2>2
<1> QED
  BY <1>1, <1>2

----------------------------------------------------------------------------
(* Marks *)

\* Whoever computes c goes on to compute it, unless the base is not to be had.
LEMMA NextComputing ==
  ASSUME Typed, AllTogether, NEW th \in Threads, Step(th), NEW c \in Computed,
         Computing(todo[th], c), ~excused'
  PROVE  Head(todo[th]) = Do("copy", c) \/ Computing(todo'[th], c)
<1> DEFINE op == Head(todo[th]).op
           on == On(th)
<1>0. /\ todo[th] # <<>> /\ todo[th] \in Seq(Steps)
      /\ Head(todo[th]) \in Steps /\ Tail(todo[th]) \in Seq(Steps)
  BY Shapes, Heads
<1> SUFFICES ASSUME Harmless(Head(todo[th])), Computing(Tail(todo[th]), c)
             PROVE  Computing(todo'[th], c)
  BY <1>0, ComputingTail
<1>h. op \in {"describe", "clearDescription", "described", "unlock"} \/ Head(todo[th]) = Lock(Base)
  BY DEF Harmless
<1>l. Lock(Base).op = "lock"
  BY DEF Lock, Do
<1>1. CASE Pops(th)
  <2>1. todo'[th] = Tail(todo[th])
    BY <1>1 DEF Pops, Typed
  <2> QED
    BY <2>1
<1>2. CASE op = "describe" /\ Then(th, Describe(on))
  <2>1. todo'[th] = Describe(on) \o Tail(todo[th])
    BY <1>2 DEF Then, Typed
  <2>2. on \in Computed
    BY <1>0, <1>2, StepTypes DEF On, ComputedOps
  <2>3. Describe(on) \in Seq(Steps) /\ \A j \in 1 .. Len(Describe(on)) : Harmless(Describe(on)[j])
    BY <2>2, PiecesTogether
  <2> QED
    BY <1>0, <2>1, <2>3, ComputingConcat
<1>3. Pops(th) \/ (op = "describe" /\ Then(th, Describe(on)))
  <2>1. op \notin {"refresh", "check", "deletable"}
    BY <1>h, <1>l
  <2>2. op = "lock" => Head(todo[th]) = Lock(Base)
    BY <1>h
  <2> QED
    BY <2>1, <2>2, Shapes
<1> QED
  BY <1>1, <1>2, <1>3

LEMMA NextMarkedOne ==
  ASSUME Typed, AllTogether, NEW th \in Threads, Acts(th),
         NEW c \in Computed \ Former', Marked(c), ~PartlyRefused \/ Source[c] # Stored
  PROVE  Marked(c)'
<1> DEFINE op == Head(todo[th]).op
           on == On(th)
<1>0. content \in [Traces -> Nat] /\ Computed \subseteq Traces /\ Former \subseteq Former'
  <2>1. Former \subseteq Former'
    BY Shapes, Beginning
  <2> QED
    BY <2>1 DEF Typed, Traces
<1>o. \A u \in Threads \ {th} : todo'[u] = todo[u]
  BY Others
<1>m. c \notin Former /\ Marked(c) /\ Source[c] \in Traces
  BY <1>0 DEF Traces
<1>1. CASE ~Step(th)
  <2>1. todo[th] = <<>> /\ content' = content /\ dirty' = dirty /\ excused' = excused
    BY <1>1, Beginning
  <2>2. ~Computing(todo[th], c) /\ ~Acking(todo[th], Source[c])
    BY <2>1 DEF Computing, Acking
  <2>3. \A u \in Threads : (Computing(todo[u], c) \/ Acking(todo[u], Source[c])) => todo'[u] = todo[u]
    BY <1>o, <2>2
  <2> QED
    BY <1>m, <2>1, <2>3 DEF Marked
<1>2. CASE Step(th)
  <2> SUFFICES ASSUME ~excused' PROVE Marked(c)'
    BY DEF Marked
  <2>t. todo[th] # <<>> /\ Head(todo[th]) = Do(op, on) /\ ~excused
    BY <1>2, Shapes, Heads
  <2>c. op = "copy" /\ on = c => content'[c] = content'[Source[c]]
    <3> HAVE op = "copy" /\ on = c
    <3>1. content' = [content EXCEPT ![c] = content[Source[c]]]
      BY <1>2, Effects
    <3> QED
      BY <1>0, <1>m, <3>1
  <2>1. CASE content[c] = content[Source[c]]
    <3>1. CASE op = "copy" /\ on # c
      <4>1. content' = [content EXCEPT ![on] = content[Source[on]]]
        BY <1>2, <3>1, Effects
      <4>2. CASE Source[c] = on
        <5>1. Acking(todo'[th], Source[c])
          BY <1>2, <3>1, <4>2, Follows
        <5> QED
          BY <5>1 DEF Marked
      <4>3. CASE Source[c] # on
        BY <1>0, <1>m, <2>1, <3>1, <4>1, <4>3 DEF Marked
      <4> QED
        BY <4>2, <4>3
    <3>2. CASE op = "add"
      <4>1. content' = [content EXCEPT ![Stored] = @ + 1]
        BY <1>2, <3>2, Effects
      <4>2. CASE Source[c] = Stored
        <5>1. Acking(todo'[th], Source[c])
          BY <1>2, <3>2, <4>2, Follows
        <5> QED
          BY <5>1 DEF Marked
      <4>3. CASE Source[c] # Stored
        BY <1>0, <1>m, <2>1, <4>1, <4>3 DEF Marked
      <4> QED
        BY <4>2, <4>3
    <3>3. CASE op \notin {"copy", "add"}
      <4>1. content' = content
        BY <1>2, <3>3, Effects
      <4> QED
        BY <2>1, <4>1 DEF Marked
    <3> QED
      BY <2>c, <3>1, <3>2, <3>3 DEF Marked
  <2>2. CASE c \in dirty
    <3>1. CASE op = "clear" /\ on = c
      <4>1. Computing(todo'[th], c)
        BY <1>2, <3>1, Follows
      <4> QED
        BY <4>1 DEF Marked
    <3>2. CASE ~(op = "clear" /\ on = c)
      <4>1. dirty \subseteq dirty' \/ (on # c /\ dirty' = dirty \ {on})
        BY <1>2, <3>2, Effects
      <4> QED
        BY <2>2, <4>1 DEF Marked
    <3> QED
      BY <3>1, <3>2
  <2>3. ASSUME NEW u \in Threads, Computing(todo[u], c)
        PROVE  Marked(c)'
    <3>1. CASE u # th
      <4>1. Computing(todo'[u], c)
        BY <1>o, <2>3, <3>1
      <4> QED
        BY <4>1 DEF Marked
    <3>2. CASE u = th
      <4>1. Head(todo[th]) = Do("copy", c) => op = "copy" /\ on = c
        BY DEF Do, On
      <4>2. Head(todo[th]) = Do("copy", c) \/ Computing(todo'[th], c)
        BY <1>2, <2>3, <3>2, NextComputing
      <4> QED
        BY <2>c, <4>1, <4>2 DEF Marked
    <3> QED
      BY <3>1, <3>2
  <2>4. ASSUME NEW u \in Threads, Acking(todo[u], Source[c])
        PROVE  Marked(c)'
    <3>1. CASE u # th
      <4>1. Acking(todo'[u], Source[c])
        BY <1>o, <2>4, <3>1
      <4> QED
        BY <4>1 DEF Marked
    <3>2. CASE u = th
      <4>1. op = "ack" /\ on = Source[c]
        BY <2>4, <3>2 DEF Acking, Do, On
      <4>2. dirty' = dirty \cup Dependents(Source[c])
        BY <1>2, <4>1, Effects
      <4>3. c \in Dependents(Source[c])
        BY <1>m DEF Dependents
      <4> QED
        BY <4>2, <4>3 DEF Marked
    <3> QED
      BY <3>1, <3>2
  <2> QED
    BY <1>m, <2>t, <2>1, <2>2, <2>3, <2>4 DEF Marked
<1> QED
  BY <1>1, <1>2

LEMMA NextMarked ==
  ASSUME ~PartlyRefused, Typed, AllTogether, AllMarked, NEW th \in Threads, Acts(th)
  PROVE  AllMarked'
<1>1. Former \subseteq Former'
  BY Shapes, Beginning
<1> QED
  BY <1>1, NextMarkedOne DEF AllMarked

----------------------------------------------------------------------------
(* The theorems *)

LEMMA InitInvariants == Init => IInv /\ AllMarked
<1> SUFFICES ASSUME Init PROVE IInv /\ AllMarked
  OBVIOUS
<1>1. Typed
  <2>1. content \in [Traces -> Nat] /\ etag \in [Traces -> Nat] /\ noted \in [Threads -> Nat]
    BY DEF Init
  <2>2. stats \in [Computed -> [count : Nat, etag : Nat]]
    BY DEF Init
  <2>3. todo \in [Threads -> Seq(Steps)]
    BY DEF Init
  <2> QED
    BY <2>1, <2>2, <2>3 DEF Init, Typed
<1>2. \A th \in Threads : todo[th] = <<>>
  BY DEF Init
<1>3. AllTogether
  BY <1>2 DEF AllTogether, Together
<1>4. EtagsGrow
  BY <1>2 DEF Init, EtagsGrow, NextOn, Traces
<1>5. Honest
  BY <1>2 DEF Init, Honest, NextOn, Traces
<1>6. AllMarked
  BY DEF Init, AllMarked, Marked
<1> QED
  BY <1>1, <1>3, <1>4, <1>5, <1>6 DEF IInv

LEMMA NextInvariants ==
  ASSUME IInv, [Next]_vars
  PROVE  IInv' /\ (~PartlyRefused /\ AllMarked => AllMarked')
<1>1. CASE UNCHANGED vars
  <2>1. /\ content' = content /\ etag' = etag /\ dirty' = dirty /\ undescribed' = undescribed
        /\ gone' = gone /\ unlisted' = unlisted /\ Former' = Former
        /\ stats' = stats /\ todo' = todo /\ noted' = noted /\ excused' = excused
    BY <1>1 DEF vars, data, Former
  <2>2. IInv'
    BY <2>1 DEF IInv, Typed, AllTogether, EtagsGrow, Honest
  <2>3. AllMarked => AllMarked'
    BY <2>1 DEF AllMarked, Marked
  <2> QED
    BY <2>2, <2>3
<1>2. CASE Next
  <2> PICK th \in Threads : Acts(th)
    BY <1>2 DEF Next, Acts
  <2> QED
    BY NextTyped, NextTogether, NextEtagsGrow, NextHonest, NextMarked DEF IInv
<1> QED
  BY <1>1, <1>2

\* The etags of an obsel collection only grow, the statistics never carry one
\* that it has not had, and those that carry its etag, or are to carry it, are
\* its statistics unless the etag is about to be renewed: trace_stats.py and
\* trace_obsels.py, whatever the graph of sources and the interleaving.
THEOREM Invariance == Spec => []IInv
<1>1. Init => IInv
  BY InitInvariants
<1>2. IInv /\ [Next]_vars => IInv'
  BY NextInvariants
<1> QED
  BY <1>1, <1>2, PTL DEF Spec

\* Statistics that carry the etag of the obsels are the statistics of these
\* obsels: force_state_refresh of the statistics may skip the computation.
THEOREM StatsCorrect == Spec => []StatsHonest
<1>1. IInv => StatsHonest
  <2> SUFFICES ASSUME IInv, NEW c \in Computed, ~Pending(c, {"ack", "sign"}), stats[c].etag = etag[c]
               PROVE  stats[c].count = content[c]
    BY DEF StatsHonest
  <2>1. ASSUME NEW th \in Threads, Acking(todo[th], c) PROVE FALSE
    <3>1. todo[th] \in Seq(Steps) /\ todo[th] # <<>> /\ Head(todo[th]) = Do("ack", c)
      BY <2>1 DEF IInv, Typed, Acking
    <3>2. 1 \in DOMAIN todo[th] /\ todo[th][1] = Do("ack", c)
      BY <3>1, HeadTailProperties
    <3> QED
      BY <3>2 DEF Pending, Do
  <2> QED
    BY <2>1 DEF IInv, Honest
<1> QED
  BY <1>1, Invariance, PTL

\* A computed trace that is not what its source says is marked, or a thread is
\* about to compute it or to mark it, unless a deletion of it has begun or a
\* thread has given up waiting for the base: ack_edit of the obsels and
\* force_state_refresh, as long as no post is refused after its first obsel.
THEOREM MarksCorrect == ~PartlyRefused => (Spec => []StaleIsMarked)
<1> SUFFICES ASSUME ~PartlyRefused PROVE Spec => []StaleIsMarked
  OBVIOUS
<1>1. Init => IInv /\ AllMarked
  BY InitInvariants
<1>2. IInv /\ AllMarked /\ [Next]_vars => (IInv /\ AllMarked)'
  BY NextInvariants
<1>3. IInv /\ AllMarked => StaleIsMarked
  <2> SUFFICES ASSUME IInv, AllMarked, NEW c \in Computed \ Former
               PROVE  \/ content[c] = content[Source[c]]
                      \/ c \in dirty
                      \/ Pending(c, {"copy"})
                      \/ Pending(Source[c], {"ack"})
                      \/ excused
    BY DEF StaleIsMarked
  <2>1. ASSUME NEW th \in Threads, Computing(todo[th], c) PROVE Pending(c, {"copy"})
    <3>1. PICK k \in 1 .. Len(todo[th]) : todo[th][k] = Do("copy", c)
      BY <2>1 DEF Computing
    <3>2. k \in DOMAIN todo[th]
      BY DEF IInv, Typed
    <3> QED
      BY <3>1, <3>2 DEF Pending, Do
  <2>2. ASSUME NEW th \in Threads, Acking(todo[th], Source[c]) PROVE Pending(Source[c], {"ack"})
    <3>1. todo[th] \in Seq(Steps) /\ todo[th] # <<>> /\ Head(todo[th]) = Do("ack", Source[c])
      BY <2>2 DEF IInv, Typed, Acking
    <3>2. 1 \in DOMAIN todo[th] /\ todo[th][1] = Do("ack", Source[c])
      BY <3>1, HeadTailProperties
    <3> QED
      BY <3>2 DEF Pending, Do
  <2>3. Marked(c)
    BY DEF AllMarked
  <2> QED
    BY <2>1, <2>2, <2>3 DEF Marked
<1> QED
  BY <1>1, <1>2, <1>3, PTL DEF Spec
----------------------------------------------------------------------------
(* Reads: the order in which a thread takes its steps. From here on the       *)
(* assumptions are cited where they are needed.                               *)

HIDE HomeAssumption
HIDE ChainAssumption
HIDE NobodyAssumption
HIDE BoundsAssumption

\* Sources do not lead back to the trace: along a cycle, the flag of the obsels
\* would cut the refresh short (engine/trace_obsels.py:577).
Descends(d) == d \in [Traces -> Nat] /\ \A c \in Computed : d[Source[c]] < d[c]
Acyclic == \E d \in [Traces -> Nat] : Descends(d)
Depth == CHOOSE d \in [Traces -> Nat] : Descends(d)

\* What the lists are built with: a step, and what is left to do after it.
Cons(x, r) == <<x>> \o r
Rest(seq, k) == SubSeq(seq, k + 1, Len(seq))

\* Of the locking and unlocking of l that are left to do, unlocking comes first.
Opens(seq, l) ==
  \E m \in 1 .. Len(seq) : seq[m] = Unlock(l) /\ \A i \in 1 .. m - 1 : seq[i] # Lock(l)

\* The flag of c will be reset before the obsels of c are locked or unlocked.
Unforces(seq, c) ==
  \E m \in 1 .. Len(seq) :
    /\ seq[m] = Do("unforce", c)
    /\ \A i \in 1 .. m - 1 : seq[i] # Lock(Obsels(c)) /\ seq[i] # Unlock(Obsels(c))

\* The traces whose refresh is under way are further from the start than t.
Above(t, seq) == \A m \in 1 .. Len(seq) : seq[m].op = "unforce" => Depth[t] < Depth[seq[m].on]

\* A computation takes place between the locking and the unlocking of the obsels,
\* which are not nested, and refreshes are nested along the sources.
Guarded == {"unforce", "check", "clear", "copy", "ack"}
Fits(x, r) ==
  /\ x.op \in Guarded => Opens(r, Obsels(x.on))
  /\ \A t \in Traces : x = Lock(Obsels(t)) => Opens(r, Obsels(t))
  /\ \A t \in Traces : x = Unlock(Obsels(t)) => ~Opens(r, Obsels(t))
  /\ x.op = "force" => Unforces(r, x.on)
  /\ x.op = "refresh" => Above(x.on, r)
Nested(seq) == \A k \in 1 .. Len(seq) : Fits(seq[k], Rest(seq, k))

\* What may come before a step that counts on what has been done, for a reader,
\* whose last step is to serve.
Ends(t) == {Do("refresh", t), Do("unforce", t), Unlock(Obsels(t))}
Leads(x, y) ==
  /\ y.op = "serve" => x \in Ends(y.on)
  /\ y.op = "check" => x \in Ends(Source[y.on])
  /\ y.op = "unforce" => x \in {Do("check", y.on), Do("ack", y.on)}
  /\ y.op = "ack" => x = Do("copy", y.on)
  /\ \A t \in Computed : y = Unlock(Obsels(t)) => x \in {Do("refresh", t), Do("unforce", t)}
Links(x, r) == IF r = <<>> THEN x.op = "serve" ELSE Leads(x, Head(r))
Chained(seq) == seq # <<>> /\ \A k \in 1 .. Len(seq) : Links(seq[k], Rest(seq, k))

\* Is x left to do?
Has(seq, x) == \E k \in 1 .. Len(seq) : seq[k] = x

LEMMA ConsIs ==
  ASSUME NEW x \in Steps, NEW r \in Seq(Steps)
  PROVE  /\ Cons(x, r) \in Seq(Steps) /\ Cons(x, r) # <<>>
         /\ Head(Cons(x, r)) = x /\ Tail(Cons(x, r)) = r
         /\ Len(Cons(x, r)) = Len(r) + 1 /\ Len(r) \in Nat
         /\ Cons(x, r)[1] = x /\ \A k \in 1 .. Len(r) : Cons(x, r)[k + 1] = r[k]
         /\ Rest(Cons(x, r), 1) = r
         /\ \A k \in 1 .. Len(r) : Rest(Cons(x, r), k + 1) = Rest(r, k)
<1> DEFINE q == Cons(x, r)
<1>1. /\ q \in Seq(Steps) /\ Len(q) = Len(r) + 1 /\ Len(r) \in Nat
      /\ q[1] = x /\ \A k \in 1 .. Len(r) : q[k + 1] = r[k]
  <2>1. <<x>> \in Seq(Steps) /\ Len(<<x>>) = 1 /\ <<x>>[1] = x
    OBVIOUS
  <2>2. /\ q \in Seq(Steps) /\ Len(q) = 1 + Len(r) /\ Len(r) \in Nat
        /\ \A i \in 1 .. 1 + Len(r) : q[i] = IF i <= 1 THEN <<x>>[i] ELSE r[i - 1]
    BY <2>1, ConcatProperties DEF Cons
  <2> HIDE DEF q
  <2>3. q[1] = x
    BY <2>1, <2>2
  <2>4. \A k \in 1 .. Len(r) : q[k + 1] = r[k]
    BY <2>2
  <2> QED
    BY <2>2, <2>3, <2>4
<1> HIDE DEF q
<1>2. q # <<>> /\ Head(q) = x
  BY <1>1
<1>3. /\ Tail(q) \in Seq(Steps) /\ Len(Tail(q)) = Len(r)
      /\ \A k \in 1 .. Len(r) : Tail(q)[k] = r[k]
  BY <1>1, <1>2, HeadTailProperties
<1>4. Tail(q) = r
  BY <1>3, SeqEqual
<1>5. Rest(q, 1) = r
  BY <1>1, <1>2, <1>4, TailIsSubSeq DEF Rest
<1>6. ASSUME NEW k \in 1 .. Len(r) PROVE Rest(q, k + 1) = Rest(r, k)
  <2> DEFINE a == SubSeq(q, k + 2, Len(r) + 1)
             b == SubSeq(r, k + 1, Len(r))
  <2>1. /\ a \in Seq(Steps) /\ Len(a) = Len(r) - k
        /\ \A i \in 1 .. Len(r) - k : a[i] = q[k + 1 + i]
    <3>1. \A i \in k + 2 .. Len(r) + 1 : q[i] \in Steps
      BY <1>1, ElementOfSeq
    <3>2. /\ a \in Seq(Steps)
          /\ Len(a) = IF k + 2 <= Len(r) + 1 THEN (Len(r) + 1) - (k + 2) + 1 ELSE 0
          /\ \A i \in 1 .. (Len(r) + 1) - (k + 2) + 1 : a[i] = q[k + 2 + i - 1]
      BY <1>1, <3>1, SubSeqProperties
    <3> HIDE DEF a
    <3> QED
      BY <1>1, <3>2
  <2>2. /\ b \in Seq(Steps) /\ Len(b) = Len(r) - k
        /\ \A i \in 1 .. Len(r) - k : b[i] = r[k + i]
    <3>1. \A i \in k + 1 .. Len(r) : r[i] \in Steps
      BY <1>1, ElementOfSeq
    <3>2. /\ b \in Seq(Steps)
          /\ Len(b) = IF k + 1 <= Len(r) THEN Len(r) - (k + 1) + 1 ELSE 0
          /\ \A i \in 1 .. Len(r) - (k + 1) + 1 : b[i] = r[k + 1 + i - 1]
      BY <1>1, <3>1, SubSeqProperties
    <3> HIDE DEF b
    <3> QED
      BY <1>1, <3>2
  <2> HIDE DEF a, b
  <2>3. \A i \in 1 .. Len(r) - k : a[i] = b[i]
    <3> TAKE i \in 1 .. Len(r) - k
    <3>1. k + i \in 1 .. Len(r) /\ (k + i) + 1 = k + 1 + i
      BY <1>1
    <3> QED
      BY <1>1, <2>1, <2>2, <3>1
  <2>4. a = b
    BY <2>1, <2>2, <2>3, SeqEqual
  <2>5. (k + 1) + 1 = k + 2 /\ Len(q) = Len(r) + 1
    BY <1>1
  <2> QED
    BY <2>4, <2>5 DEF Rest, a, b
<1> QED
  BY <1>1, <1>2, <1>4, <1>5, <1>6 DEF q

\* A list is its first step and the others.
LEMMA IsCons ==
  ASSUME NEW s \in Seq(Steps), s # <<>>
  PROVE  s = Cons(Head(s), Tail(s)) /\ Head(s) \in Steps /\ Tail(s) \in Seq(Steps)
<1>1. /\ Head(s) \in Steps /\ Tail(s) \in Seq(Steps) /\ Len(Tail(s)) = Len(s) - 1
      /\ Len(s) \in Nat /\ Len(s) > 0 /\ Head(s) = s[1]
      /\ \A k \in 1 .. Len(Tail(s)) : Tail(s)[k] = s[k + 1]
  BY HeadTailProperties
<1> DEFINE x == Head(s)
           r == Tail(s)
           q == Cons(x, r)
<1> HIDE DEF x, r
<1>2. /\ q \in Seq(Steps) /\ Len(q) = Len(r) + 1
      /\ q[1] = x /\ \A k \in 1 .. Len(r) : q[k + 1] = r[k]
  BY <1>1, ConsIs DEF x, r
<1> HIDE DEF q
<1>3. \A i \in 1 .. Len(q) : q[i] = s[i]
  <2> TAKE i \in 1 .. Len(q)
  <2>1. CASE i = 1
    BY <1>1, <1>2, <2>1 DEF x
  <2>2. CASE i # 1
    <3>1. i - 1 \in 1 .. Len(r) /\ (i - 1) + 1 = i
      BY <1>1, <1>2, <2>2 DEF r
    <3> QED
      BY <1>1, <1>2, <3>1 DEF r
  <2> QED
    BY <2>1, <2>2
<1>4. s = q
  BY <1>1, <1>2, <1>3, SeqEqual DEF r
<1> QED
  BY <1>1, <1>4 DEF q, x, r

LEMMA ConsConcat ==
  ASSUME NEW x \in Steps, NEW p \in Seq(Steps), NEW r \in Seq(Steps)
  PROVE  Cons(x, p) \o r = Cons(x, p \o r)
BY ConcatAssociative DEF Cons

LEMMA OpensCons ==
  ASSUME NEW x \in Steps, NEW r \in Seq(Steps), NEW l
  PROVE  Opens(Cons(x, r), l) <=> x = Unlock(l) \/ (x # Lock(l) /\ Opens(r, l))
<1> DEFINE q == Cons(x, r)
<1>0. /\ Len(q) = Len(r) + 1 /\ Len(r) \in Nat
      /\ q[1] = x /\ \A k \in 1 .. Len(r) : q[k + 1] = r[k]
  BY ConsIs
<1> HIDE DEF q
<1>1. ASSUME Opens(q, l), x # Unlock(l) PROVE x # Lock(l) /\ Opens(r, l)
  <2>1. PICK m \in 1 .. Len(q) : q[m] = Unlock(l) /\ \A i \in 1 .. m - 1 : q[i] # Lock(l)
    BY <1>1 DEF Opens
  <2>2. m # 1 /\ m \in Int
    BY <1>0, <1>1, <2>1
  <2>3. m - 1 \in 1 .. Len(r) /\ (m - 1) + 1 = m /\ 1 \in 1 .. m - 1
    BY <1>0, <2>2
  <2>4. \A i \in 1 .. (m - 1) - 1 : i \in 1 .. Len(r) /\ i + 1 \in 1 .. m - 1
    BY <1>0, <2>2
  <2>5. r[m - 1] = Unlock(l) /\ \A i \in 1 .. (m - 1) - 1 : r[i] # Lock(l)
    BY <1>0, <2>1, <2>3, <2>4
  <2> QED
    BY <1>0, <2>1, <2>3, <2>5 DEF Opens
<1>2. ASSUME x = Unlock(l) PROVE Opens(q, l)
  <2>1. 1 \in 1 .. Len(q) /\ \A i \in 1 .. 1 - 1 : q[i] # Lock(l)
    BY <1>0
  <2> QED
    BY <1>0, <1>2, <2>1 DEF Opens
<1>3. ASSUME x # Lock(l), Opens(r, l) PROVE Opens(q, l)
  <2>1. PICK m \in 1 .. Len(r) : r[m] = Unlock(l) /\ \A i \in 1 .. m - 1 : r[i] # Lock(l)
    BY <1>3 DEF Opens
  <2>2. m + 1 \in 1 .. Len(q) /\ q[m + 1] = Unlock(l)
    BY <1>0, <2>1
  <2>3. ASSUME NEW i \in 1 .. (m + 1) - 1 PROVE q[i] # Lock(l)
    <3>1. CASE i = 1
      BY <1>0, <1>3, <3>1
    <3>2. CASE i # 1
      <4>1. i - 1 \in 1 .. m - 1 /\ i - 1 \in 1 .. Len(r) /\ (i - 1) + 1 = i
        BY <1>0, <3>2
      <4> QED
        BY <1>0, <2>1, <4>1
    <3> QED
      BY <3>1, <3>2
  <2> QED
    BY <2>2, <2>3 DEF Opens
<1> QED
  BY <1>1, <1>2, <1>3 DEF q

LEMMA UnforcesCons ==
  ASSUME NEW x \in Steps, NEW r \in Seq(Steps), NEW c
  PROVE  Unforces(Cons(x, r), c) <=>
           \/ x = Do("unforce", c)
           \/ x # Lock(Obsels(c)) /\ x # Unlock(Obsels(c)) /\ Unforces(r, c)
<1> DEFINE q == Cons(x, r)
           other(y) == y # Lock(Obsels(c)) /\ y # Unlock(Obsels(c))
<1>0. /\ Len(q) = Len(r) + 1 /\ Len(r) \in Nat
      /\ q[1] = x /\ \A k \in 1 .. Len(r) : q[k + 1] = r[k]
  BY ConsIs
<1>u. /\ Unforces(q, c) <=> \E m \in 1 .. Len(q) :
           q[m] = Do("unforce", c) /\ \A i \in 1 .. m - 1 : other(q[i])
      /\ Unforces(r, c) <=> \E m \in 1 .. Len(r) :
           r[m] = Do("unforce", c) /\ \A i \in 1 .. m - 1 : other(r[i])
  BY DEF Unforces
<1> HIDE DEF q, other
<1>1. ASSUME Unforces(q, c), x # Do("unforce", c) PROVE other(x) /\ Unforces(r, c)
  <2>1. PICK m \in 1 .. Len(q) : q[m] = Do("unforce", c) /\ \A i \in 1 .. m - 1 : other(q[i])
    BY <1>1, <1>u
  <2>2. m # 1 /\ m \in Int
    BY <1>0, <1>1, <2>1
  <2>3. m - 1 \in 1 .. Len(r) /\ (m - 1) + 1 = m /\ 1 \in 1 .. m - 1
    BY <1>0, <2>2
  <2>4. \A i \in 1 .. (m - 1) - 1 : i \in 1 .. Len(r) /\ i + 1 \in 1 .. m - 1
    BY <1>0, <2>2
  <2>5. r[m - 1] = Do("unforce", c) /\ \A i \in 1 .. (m - 1) - 1 : other(r[i])
    BY <1>0, <2>1, <2>3, <2>4
  <2> QED
    BY <1>0, <1>u, <2>1, <2>3, <2>5
<1>2. ASSUME x = Do("unforce", c) PROVE Unforces(q, c)
  <2>1. 1 \in 1 .. Len(q) /\ \A i \in 1 .. 1 - 1 : other(q[i])
    BY <1>0
  <2> QED
    BY <1>0, <1>2, <1>u, <2>1
<1>3. ASSUME other(x), Unforces(r, c) PROVE Unforces(q, c)
  <2>1. PICK m \in 1 .. Len(r) : r[m] = Do("unforce", c) /\ \A i \in 1 .. m - 1 : other(r[i])
    BY <1>3, <1>u
  <2>2. m + 1 \in 1 .. Len(q) /\ q[m + 1] = Do("unforce", c)
    BY <1>0, <2>1
  <2>3. ASSUME NEW i \in 1 .. (m + 1) - 1 PROVE other(q[i])
    <3>1. CASE i = 1
      BY <1>0, <1>3, <3>1
    <3>2. CASE i # 1
      <4>1. i - 1 \in 1 .. m - 1 /\ i - 1 \in 1 .. Len(r) /\ (i - 1) + 1 = i
        BY <1>0, <3>2
      <4> QED
        BY <1>0, <2>1, <4>1
    <3> QED
      BY <3>1, <3>2
  <2> QED
    BY <1>u, <2>2, <2>3
<1> QED
  BY <1>1, <1>2, <1>3 DEF q, other

LEMMA ForAllCons ==
  ASSUME NEW x \in Steps, NEW r \in Seq(Steps)
  PROVE  /\ \A t : Above(t, Cons(x, r)) <=>
                     (x.op = "unforce" => Depth[t] < Depth[x.on]) /\ Above(t, r)
         /\ Nested(Cons(x, r)) <=> Fits(x, r) /\ Nested(r)
         /\ Chained(Cons(x, r)) <=> Links(x, r) /\ (r = <<>> \/ Chained(r))
         /\ \A y : Has(Cons(x, r), y) <=> y = x \/ Has(r, y)
<1> DEFINE q == Cons(x, r)
<1>0. /\ Len(q) = Len(r) + 1 /\ Len(r) \in Nat /\ q # <<>>
      /\ q[1] = x /\ \A k \in 1 .. Len(r) : q[k + 1] = r[k]
      /\ Rest(q, 1) = r
      /\ \A k \in 1 .. Len(r) : Rest(q, k + 1) = Rest(r, k)
  BY ConsIs
<1> HIDE DEF q
<1>i. /\ 1 \in 1 .. Len(q) /\ \A k \in 1 .. Len(r) : k + 1 \in 1 .. Len(q)
      /\ \A m \in 1 .. Len(q) : m = 1 \/ \E k \in 1 .. Len(r) : m = k + 1
  <2>1. \A m \in 1 .. Len(q) : m # 1 => m - 1 \in 1 .. Len(r) /\ m = (m - 1) + 1
    BY <1>0
  <2> QED
    BY <1>0, <2>1
<1>1. ASSUME NEW t
      PROVE  Above(t, q) <=> (x.op = "unforce" => Depth[t] < Depth[x.on]) /\ Above(t, r)
  <2>1. ASSUME Above(t, q) PROVE (x.op = "unforce" => Depth[t] < Depth[x.on]) /\ Above(t, r)
    <3>1. \A m \in 1 .. Len(q) : q[m].op = "unforce" => Depth[t] < Depth[q[m].on]
      BY <2>1 DEF Above
    <3> QED
      BY <1>0, <1>i, <3>1 DEF Above
  <2>2. ASSUME x.op = "unforce" => Depth[t] < Depth[x.on], Above(t, r) PROVE Above(t, q)
    <3>1. \A k \in 1 .. Len(r) : r[k].op = "unforce" => Depth[t] < Depth[r[k].on]
      BY <2>2 DEF Above
    <3>2. ASSUME NEW m \in 1 .. Len(q), q[m].op = "unforce" PROVE Depth[t] < Depth[q[m].on]
      <4>1. CASE m = 1
        BY <1>0, <2>2, <3>2, <4>1
      <4>2. CASE m # 1
        <5>1. PICK k \in 1 .. Len(r) : m = k + 1
          BY <1>i, <4>2
        <5> QED
          BY <1>0, <3>1, <3>2, <5>1
      <4> QED
        BY <4>1, <4>2
    <3> QED
      BY <3>2 DEF Above
  <2> QED
    BY <2>1, <2>2
<1>2. Nested(q) <=> Fits(x, r) /\ Nested(r)
  BY <1>0, <1>i DEF Nested
<1>3. Chained(q) <=> Links(x, r) /\ (r = <<>> \/ Chained(r))
  <2>1. r = <<>> => \A k \in 1 .. Len(r) : FALSE
    OBVIOUS
  <2> QED
    BY <1>0, <1>i, <2>1 DEF Chained
<1>4. ASSUME NEW y PROVE Has(q, y) <=> y = x \/ Has(r, y)
  BY <1>0, <1>i DEF Has
<1> QED
  BY <1>1, <1>2, <1>3, <1>4 DEF q

\* The steps taken leave a list that fits together.
LEMMA Taken ==
  ASSUME NEW s \in Seq(Steps), s # <<>>
  PROVE  /\ Nested(s) <=> Fits(Head(s), Tail(s)) /\ Nested(Tail(s))
         /\ Chained(s) <=> Links(Head(s), Tail(s)) /\ (Tail(s) = <<>> \/ Chained(Tail(s)))
         /\ \A l : Opens(s, l) <=> Head(s) = Unlock(l) \/ (Head(s) # Lock(l) /\ Opens(Tail(s), l))
         /\ \A c : Unforces(s, c) <=>
              \/ Head(s) = Do("unforce", c)
              \/ /\ Head(s) # Lock(Obsels(c)) /\ Head(s) # Unlock(Obsels(c))
                 /\ Unforces(Tail(s), c)
         /\ \A t : Above(t, s) <=>
              (Head(s).op = "unforce" => Depth[t] < Depth[Head(s).on]) /\ Above(t, Tail(s))
         /\ \A y : Has(s, y) <=> y = Head(s) \/ Has(Tail(s), y)
<1> DEFINE x == Head(s)
           r == Tail(s)
<1>1. s = Cons(x, r) /\ x \in Steps /\ r \in Seq(Steps)
  BY IsCons
<1> HIDE DEF x, r
<1>2. Nested(s) <=> Fits(x, r) /\ Nested(r)
  BY <1>1, ForAllCons
<1>3. Chained(s) <=> Links(x, r) /\ (r = <<>> \/ Chained(r))
  BY <1>1, ForAllCons
<1>4. ASSUME NEW l PROVE Opens(s, l) <=> x = Unlock(l) \/ (x # Lock(l) /\ Opens(r, l))
  BY <1>1, OpensCons
<1>5. ASSUME NEW c
      PROVE  Unforces(s, c) <=>
               \/ x = Do("unforce", c)
               \/ x # Lock(Obsels(c)) /\ x # Unlock(Obsels(c)) /\ Unforces(r, c)
  BY <1>1, UnforcesCons
<1>6. ASSUME NEW t
      PROVE  Above(t, s) <=> (x.op = "unforce" => Depth[t] < Depth[x.on]) /\ Above(t, r)
  BY <1>1, ForAllCons
<1>7. ASSUME NEW y PROVE Has(s, y) <=> y = x \/ Has(r, y)
  BY <1>1, ForAllCons
<1> QED
  BY <1>2, <1>3, <1>4, <1>5, <1>6, <1>7 DEF x, r

LEMMA Names ==
  /\ \A op, on : Do(op, on).op = op /\ Do(op, on).on = on
  /\ \A l, m : Lock(l) # Unlock(m) /\ Lock(l).op = "lock" /\ Unlock(l).op = "unlock"
  /\ \A l, m : (Lock(l) = Lock(m) <=> l = m) /\ (Unlock(l) = Unlock(m) <=> l = m)
  /\ \A op, on, l : (Do(op, on) = Lock(l) => op = "lock") /\ (Do(op, on) = Unlock(l) => op = "unlock")
  /\ \A op, on, o, n : Do(op, on) = Do(o, n) <=> op = o /\ on = n
  /\ \A t, u : Obsels(t) = Obsels(u) <=> t = u
  /\ \A t, c : Base # Obsels(t) /\ Stats(c) # Obsels(t)
<1>1. \A op, on : Do(op, on).op = op /\ Do(op, on).on = on
  BY DEF Do
<1>2. \A l, m : Lock(l) # Unlock(m) /\ Lock(l).op = "lock" /\ Unlock(l).op = "unlock"
  BY DEF Do, Lock, Unlock
<1>3. \A l, m : (Lock(l) = Lock(m) <=> l = m) /\ (Unlock(l) = Unlock(m) <=> l = m)
  BY DEF Do, Lock, Unlock
<1>4. \A op, on, l : (Do(op, on) = Lock(l) => op = "lock") /\ (Do(op, on) = Unlock(l) => op = "unlock")
  BY DEF Do, Lock, Unlock
<1>5. \A op, on, o, n : Do(op, on) = Do(o, n) <=> op = o /\ on = n
  BY DEF Do
<1>6. \A t, u : Obsels(t) = Obsels(u) <=> t = u
  BY DEF Obsels
<1>7. \A t, c : Base # Obsels(t) /\ Stats(c) # Obsels(t)
  BY DEF Obsels, Base, Stats
<1> QED
  BY <1>1, <1>2, <1>3, <1>4, <1>5, <1>6, <1>7

LEMMA DepthIs ==
  ASSUME Acyclic
  PROVE  Depth \in [Traces -> Nat] /\ \A c \in Computed : Depth[Source[c]] < Depth[c]
<1>1. Descends(Depth)
  BY DEF Acyclic, Depth
<1> QED
  BY <1>1 DEF Descends

\* What is above t is above what is nearer to the start.
LEMMA AboveNearer ==
  ASSUME Acyclic, NEW seq \in Seq(Steps), NEW t \in Traces, NEW u \in Traces,
         Above(t, seq), Depth[u] < Depth[t]
  PROVE  Above(u, seq)
<1> SUFFICES ASSUME NEW m \in 1 .. Len(seq), seq[m].op = "unforce"
             PROVE  Depth[u] < Depth[seq[m].on]
  BY DEF Above
<1>1. seq[m].on \in Traces
  BY StepTypes, ElementOfSeq DEF ComputedOps, Traces
<1>2. Depth[t] < Depth[seq[m].on]
  BY DEF Above
<1>3. Depth[t] \in Nat /\ Depth[u] \in Nat /\ Depth[seq[m].on] \in Nat
  BY <1>1, DepthIs
<1> QED
  BY <1>2, <1>3

\* The body of a refresh, before what follows it.
Refreshing(t, z) ==
  Cons(Do("force", t), Cons(Do("refresh", Source[t]), Cons(Do("check", t), Cons(Do("unforce", t), z))))

LEMMA TupleIs ==
  ASSUME NEW a \in Steps, NEW b \in Steps, NEW c \in Steps, NEW d \in Steps, NEW r \in Seq(Steps)
  PROVE  <<a, b, c, d>> \o r = Cons(a, Cons(b, Cons(c, Cons(d, r))))
<1> DEFINE p1 == <<d>>
           p2 == <<c, d>>
           p3 == <<b, c, d>>
           p4 == <<a, b, c, d>>
<1>1. /\ p1 \in Seq(Steps) /\ p2 \in Seq(Steps) /\ p3 \in Seq(Steps) /\ p4 \in Seq(Steps)
      /\ Head(p4) = a /\ Tail(p4) = p3 /\ Head(p3) = b /\ Tail(p3) = p2
      /\ Head(p2) = c /\ Tail(p2) = p1
      /\ p4 # <<>> /\ p3 # <<>> /\ p2 # <<>>
  OBVIOUS
<1>2. p1 \o r = Cons(d, r)
  BY DEF Cons
<1>0. p1 \in Seq(Steps) /\ p2 \in Seq(Steps) /\ p3 \in Seq(Steps)
  OBVIOUS
<1> HIDE DEF p1, p2, p3, p4
<1>3. p4 = Cons(a, p3) /\ p3 = Cons(b, p2) /\ p2 = Cons(c, p1)
  BY <1>1, IsCons, Zenon
<1>4. /\ Cons(c, p1) \o r = Cons(c, p1 \o r)
      /\ Cons(b, p2) \o r = Cons(b, p2 \o r)
      /\ Cons(a, p3) \o r = Cons(a, p3 \o r)
  BY <1>0, ConsConcat
<1> QED
  BY <1>2, <1>3, <1>4, Zenon DEF p4

LEMMA RefreshIs ==
  ASSUME NEW th \in Threads, NEW t \in Traces, NEW r \in Seq(Steps)
  PROVE  LET q == RefreshObsels(th, t) \o r
         IN  IF t = Stored \/ <<Home[th], t>> \in forcing THEN q = r
             ELSE IF owner[Obsels(t)] = th THEN q = Refreshing(t, r)
             ELSE q = Cons(Lock(Obsels(t)), Refreshing(t, Cons(Unlock(Obsels(t)), r)))
<1> DEFINE body == <<Do("force", t), Do("refresh", Source[t]), Do("check", t), Do("unforce", t)>>
           l == Obsels(t)
<1>1. CASE t = Stored \/ <<Home[th], t>> \in forcing
  <2>1. RefreshObsels(th, t) = <<>>
    BY <1>1 DEF RefreshObsels
  <2>2. <<>> \o r = r
    BY ConcatEmptySeq
  <2> QED
    BY <1>1, <2>1, <2>2
<1>2. CASE ~(t = Stored \/ <<Home[th], t>> \in forcing)
  <2>0. t \in Computed /\ Source[t] \in Traces
    BY <1>2, ChainAssumption DEF Traces
  <2>1. /\ Do("force", t) \in Steps /\ Do("refresh", Source[t]) \in Steps
        /\ Do("check", t) \in Steps /\ Do("unforce", t) \in Steps
        /\ Lock(l) \in Steps /\ Unlock(l) \in Steps
    BY <2>0, StepsOf DEF ComputedOps
  <2>2. \A z \in Seq(Steps) : body \o z = Refreshing(t, z) /\ Refreshing(t, z) \in Seq(Steps)
    <3> TAKE z \in Seq(Steps)
    <3>1. body \o z = Refreshing(t, z)
      BY <2>1, TupleIs DEF Refreshing
    <3>2. body \in Seq(Steps)
      BY <2>1
    <3> HIDE DEF body
    <3>3. body \o z \in Seq(Steps)
      BY <3>2, ConcatProperties
    <3> QED
      BY <3>1, <3>3
  <2>3. CASE owner[Obsels(t)] = th
    <3>1. RefreshObsels(th, t) = body
      BY <1>2, <2>3 DEF RefreshObsels
    <3> QED
      BY <1>2, <2>2, <2>3, <3>1
  <2>4. CASE owner[Obsels(t)] # th
    <3>1. RefreshObsels(th, t) = <<Lock(l)>> \o body \o <<Unlock(l)>>
      BY <1>2, <2>4 DEF RefreshObsels
    <3>2. body \in Seq(Steps) /\ <<Lock(l)>> \in Seq(Steps) /\ <<Unlock(l)>> \in Seq(Steps)
      BY <2>1
    <3> HIDE DEF body
    <3>3. (<<Lock(l)>> \o body \o <<Unlock(l)>>) \o r = <<Lock(l)>> \o (body \o (<<Unlock(l)>> \o r))
      <4>1. body \o <<Unlock(l)>> \in Seq(Steps) /\ <<Lock(l)>> \o body \in Seq(Steps)
        BY <3>2, ConcatProperties
      <4>2. <<Lock(l)>> \o body \o <<Unlock(l)>> = <<Lock(l)>> \o (body \o <<Unlock(l)>>)
        BY <3>2, ConcatAssociative
      <4>3. (body \o <<Unlock(l)>>) \o r = body \o (<<Unlock(l)>> \o r)
        BY <3>2, ConcatAssociative
      <4>4. (<<Lock(l)>> \o (body \o <<Unlock(l)>>)) \o r = <<Lock(l)>> \o ((body \o <<Unlock(l)>>) \o r)
        BY <3>2, <4>1, ConcatAssociative
      <4> QED
        BY <4>2, <4>3, <4>4
    <3>4. <<Unlock(l)>> \o r = Cons(Unlock(l), r) /\ Cons(Unlock(l), r) \in Seq(Steps)
      BY <2>1, ConsIs DEF Cons
    <3>5. <<Lock(l)>> \o Refreshing(t, Cons(Unlock(l), r)) = Cons(Lock(l), Refreshing(t, Cons(Unlock(l), r)))
      BY DEF Cons
    <3> QED
      BY <1>2, <2>2, <2>4, <3>1, <3>3, <3>4, <3>5
  <2> QED
    BY <2>3, <2>4
<1> QED
  BY <1>1, <1>2

LEMMA RefreshingFits ==
  ASSUME Acyclic, NEW t \in Computed, NEW z \in Seq(Steps), Nested(z), Opens(z, Obsels(t)),
         Above(t, z)
  PROVE  LET q == Refreshing(t, z)
         IN  /\ q \in Seq(Steps) /\ Nested(q) /\ q # <<>> /\ Head(q) = Do("force", t)
             /\ \A u : Opens(q, Obsels(u)) <=> Opens(z, Obsels(u))
             /\ \A c : Unforces(z, c) => Unforces(q, c)
             /\ \A y : Has(q, y) => Has(z, y) \/ y.op \in {"force", "refresh", "check", "unforce"}
             /\ z # <<>> /\ Chained(z) /\ Leads(Do("unforce", t), Head(z)) => Chained(q)
<1> DEFINE x1 == Do("force", t)
           x2 == Do("refresh", Source[t])
           x3 == Do("check", t)
           x4 == Do("unforce", t)
           q4 == Cons(x4, z)
           q3 == Cons(x3, q4)
           q2 == Cons(x2, q3)
           q1 == Cons(x1, q2)
<1>t. t \in Traces /\ Source[t] \in Traces /\ Source[t] \in Computed \cup {Stored}
  BY ChainAssumption DEF Traces
<1>1. /\ x1 \in Steps /\ x2 \in Steps /\ x3 \in Steps /\ x4 \in Steps
      /\ x1.op = "force" /\ x2.op = "refresh" /\ x3.op = "check" /\ x4.op = "unforce"
      /\ x1.on = t /\ x2.on = Source[t] /\ x3.on = t /\ x4.on = t
  BY <1>t, StepsOf, Names DEF ComputedOps
<1>2. \A l : /\ x1 # Lock(l) /\ x2 # Lock(l) /\ x3 # Lock(l) /\ x4 # Lock(l)
             /\ x1 # Unlock(l) /\ x2 # Unlock(l) /\ x3 # Unlock(l) /\ x4 # Unlock(l)
  BY Names
<1>q. q1 = Refreshing(t, z)
  BY DEF Refreshing
<1>x. x4 = Do("unforce", t) /\ x3 = Do("check", t) /\ x2 = Do("refresh", Source[t]) /\ x1 = Do("force", t)
  OBVIOUS
<1> HIDE DEF x1, x2, x3, x4
<1>c. q4 \in Seq(Steps) /\ q4 # <<>> /\ Head(q4) = x4
  BY <1>1, ConsIs
<1> HIDE DEF q4
<1>d. q3 \in Seq(Steps) /\ q3 # <<>> /\ Head(q3) = x3
  BY <1>1, <1>c, ConsIs
<1> HIDE DEF q3
<1>e. q2 \in Seq(Steps) /\ q2 # <<>> /\ Head(q2) = x2
  BY <1>1, <1>d, ConsIs
<1> HIDE DEF q2
<1>f. q1 \in Seq(Steps) /\ q1 # <<>> /\ Head(q1) = x1
  BY <1>1, <1>e, ConsIs
<1> HIDE DEF q1
<1>3. ASSUME NEW l
      PROVE  /\ Opens(q4, l) <=> Opens(z, l)
             /\ Opens(q3, l) <=> Opens(z, l)
             /\ Opens(q2, l) <=> Opens(z, l)
             /\ Opens(q1, l) <=> Opens(z, l)
  <2>1. Opens(q4, l) <=> Opens(z, l)
    BY <1>1, <1>2, OpensCons DEF q4
  <2>2. Opens(q3, l) <=> Opens(q4, l)
    BY <1>1, <1>2, <1>c, OpensCons DEF q3
  <2>3. Opens(q2, l) <=> Opens(q3, l)
    BY <1>1, <1>2, <1>d, OpensCons DEF q2
  <2>4. Opens(q1, l) <=> Opens(q2, l)
    BY <1>1, <1>2, <1>e, OpensCons DEF q1
  <2> QED
    BY <2>1, <2>2, <2>3, <2>4
<1>4. ASSUME NEW c, Unforces(z, c)
      PROVE  Unforces(q1, c)
  <2>1. Unforces(q4, c)
    BY <1>1, <1>2, <1>4, UnforcesCons DEF q4
  <2>2. Unforces(q3, c)
    BY <1>1, <1>2, <1>c, <2>1, UnforcesCons DEF q3
  <2>3. Unforces(q2, c)
    BY <1>1, <1>2, <1>d, <2>2, UnforcesCons DEF q2
  <2> QED
    BY <1>1, <1>2, <1>e, <2>3, UnforcesCons DEF q1
<1>5. Unforces(q2, t)
  <2>1. Unforces(q4, t)
    BY <1>1, <1>x, UnforcesCons DEF q4
  <2>2. Unforces(q3, t)
    BY <1>1, <1>2, <1>c, <2>1, UnforcesCons DEF q3
  <2> QED
    BY <1>1, <1>2, <1>d, <2>2, UnforcesCons DEF q2
<1>6. Above(Source[t], q3)
  <2>0. Depth[Source[t]] < Depth[t]
    BY DepthIs
  <2>1. Above(Source[t], z)
    BY <1>t, <2>0, AboveNearer
  <2>2. Above(Source[t], q4)
    BY <1>1, <2>0, <2>1, ForAllCons DEF q4
  <2> QED
    BY <1>1, <1>c, <2>2, ForAllCons DEF q3
<1>7. Nested(q1)
  <2>1. Fits(x4, z)
    BY <1>1, <1>2 DEF Fits
  <2>2. Fits(x3, q4)
    BY <1>1, <1>2, <1>3 DEF Fits
  <2>3. Fits(x2, q3)
    BY <1>1, <1>2, <1>6 DEF Fits, Guarded
  <2>4. Fits(x1, q2)
    BY <1>1, <1>2, <1>5 DEF Fits, Guarded
  <2>5. Nested(q4)
    BY <1>1, <2>1, ForAllCons DEF q4
  <2>6. Nested(q3)
    BY <1>1, <1>c, <2>2, <2>5, ForAllCons DEF q3
  <2>7. Nested(q2)
    BY <1>1, <1>d, <2>3, <2>6, ForAllCons DEF q2
  <2> QED
    BY <1>1, <1>e, <2>4, <2>7, ForAllCons DEF q1
<1>8. ASSUME z # <<>>, Chained(z), Leads(x4, Head(z))
      PROVE  Chained(q1)
  <2>1. Links(x4, z)
    BY <1>8 DEF Links
  <2>2. Links(x3, q4)
    BY <1>1, <1>2, <1>c, <1>x DEF Links, Leads
  <2>3. Links(x2, q3)
    BY <1>1, <1>2, <1>d, <1>x DEF Links, Leads, Ends
  <2>4. Links(x1, q2)
    BY <1>1, <1>2, <1>e, <1>x DEF Links, Leads
  <2>5. Chained(q4)
    BY <1>1, <1>8, <2>1, ForAllCons DEF q4
  <2>6. Chained(q3)
    BY <1>1, <1>c, <2>2, <2>5, ForAllCons DEF q3
  <2>7. Chained(q2)
    BY <1>1, <1>d, <2>3, <2>6, ForAllCons DEF q2
  <2> QED
    BY <1>1, <1>e, <2>4, <2>7, ForAllCons DEF q1
<1>9. ASSUME NEW y, Has(q1, y), y.op \notin {"force", "refresh", "check", "unforce"}
      PROVE  Has(z, y)
  <2>1. Has(q2, y)
    BY <1>1, <1>e, <1>9, ForAllCons DEF q1
  <2>2. Has(q3, y)
    BY <1>1, <1>d, <1>9, <2>1, ForAllCons DEF q2
  <2>3. Has(q4, y)
    BY <1>1, <1>c, <1>9, <2>2, ForAllCons DEF q3
  <2> QED
    BY <1>1, <1>9, <2>3, ForAllCons DEF q4
<1> QED
  BY <1>q, <1>x, <1>f, <1>3, <1>4, <1>7, <1>8, <1>9

LEMMA RefreshFits ==
  ASSUME Acyclic, NEW th \in Threads, NEW t \in Traces, NEW r \in Seq(Steps),
         Nested(r), Above(t, r), owner[Obsels(t)] = th <=> Opens(r, Obsels(t))
  PROVE  LET q == RefreshObsels(th, t) \o r
         IN  /\ Nested(q)
             /\ \A u : Opens(q, Obsels(u)) <=> Opens(r, Obsels(u))
             /\ \A c : <<Home[th], c>> \in forcing /\ Unforces(r, c) => Unforces(q, c)
             /\ \A y : Has(q, y) => Has(r, y) \/ y.op \in {"force", "refresh", "check", "unforce", "lock", "unlock"}
             /\ t = Stored \/ <<Home[th], t>> \in forcing => q = r
             /\ ~(t = Stored \/ <<Home[th], t>> \in forcing) =>
                  /\ q # <<>> /\ (Head(q).op = "force" \/ Head(q) = Lock(Obsels(t)))
                  /\ Links(Do("refresh", t), r) /\ Chained(r) => Chained(q)
<1> DEFINE q == RefreshObsels(th, t) \o r
           l == Obsels(t)
           x == Do("refresh", t)
<1>1. CASE t = Stored \/ <<Home[th], t>> \in forcing
  <2>1. q = r
    BY <1>1, RefreshIs
  <2> QED
    BY <1>1, <2>1
<1>2. CASE ~(t = Stored \/ <<Home[th], t>> \in forcing)
  <2>0. t \in Computed
    BY <1>2 DEF Traces
  <2>n. ASSUME Links(x, r)
        PROVE  /\ r # <<>> /\ Leads(Do("unforce", t), Head(r))
               /\ ~Opens(r, l) => Leads(Unlock(l), Head(r))
    <3>1. r # <<>> /\ Leads(x, Head(r))
      BY <2>n, Names DEF Links
    <3> DEFINE y == Head(r)
    <3> HIDE DEF y
    <3>2. /\ y.op = "serve" => y.on = t
          /\ y.op = "check" => Source[y.on] = t
          /\ y.op # "unforce" /\ y.op # "ack"
          /\ \A u \in Computed : y = Unlock(Obsels(u)) => u = t
      BY <3>1, Names DEF Leads, Ends, y
    <3>3. Leads(Do("unforce", t), y)
      BY <3>2 DEF Leads, Ends
    <3>4. y = Unlock(l) => Opens(r, l)
      BY <3>1, Taken DEF y
    <3>5. ~Opens(r, l) => Leads(Unlock(l), y)
      BY <3>2, <3>4 DEF Leads, Ends
    <3> QED
      BY <3>1, <3>3, <3>5 DEF y
  <2>1. CASE owner[l] = th
    <3>1. q = Refreshing(t, r) /\ Opens(r, l)
      BY <1>2, <2>1, RefreshIs
    <3> HIDE DEF q
    <3>2. /\ q \in Seq(Steps) /\ Nested(q) /\ q # <<>> /\ Head(q) = Do("force", t)
          /\ \A u : Opens(q, Obsels(u)) <=> Opens(r, Obsels(u))
          /\ \A c : Unforces(r, c) => Unforces(q, c)
          /\ \A y : Has(q, y) => Has(r, y) \/ y.op \in {"force", "refresh", "check", "unforce"}
          /\ r # <<>> /\ Chained(r) /\ Leads(Do("unforce", t), Head(r)) => Chained(q)
      BY <2>0, <3>1, RefreshingFits
    <3>3. Head(q).op = "force"
      BY <3>2, Names
    <3>4. Links(x, r) /\ Chained(r) => Chained(q)
      BY <2>n, <3>2
    <3> QED
      BY <1>2, <3>2, <3>3, <3>4 DEF q
  <2>2. CASE owner[l] # th
    <3> DEFINE z == Cons(Unlock(l), r)
               b == Refreshing(t, z)
    <3>0. /\ Lock(l) \in Steps /\ Unlock(l) \in Steps /\ ~Opens(r, l)
          /\ q = Cons(Lock(l), b)
      BY <1>2, <2>2, StepsOf, RefreshIs
    <3>1. z \in Seq(Steps) /\ z # <<>> /\ Head(z) = Unlock(l)
      BY <3>0, ConsIs
    <3>2. Opens(z, l) /\ \A u : u # t => (Opens(z, Obsels(u)) <=> Opens(r, Obsels(u)))
      BY <3>0, Names, OpensCons
    <3>3. Nested(z)
      <4>1. Fits(Unlock(l), r)
        BY <3>0, Names DEF Fits, Guarded
      <4> QED
        BY <3>0, <4>1, ForAllCons
    <3>4. Above(t, z)
      BY <3>0, Names, ForAllCons
    <3>5. Chained(r) /\ Links(x, r) => Chained(z) /\ Leads(Do("unforce", t), Head(z))
      <4> HAVE Chained(r) /\ Links(x, r)
      <4>1. Links(Unlock(l), r)
        BY <2>n, <3>0 DEF Links
      <4>2. Chained(z)
        BY <3>0, <4>1, ForAllCons
      <4>3. Leads(Do("unforce", t), Unlock(l))
        BY Names DEF Leads
      <4> QED
        BY <3>1, <4>2, <4>3
    <3>u. \A c : c # t /\ Unforces(r, c) => Unforces(z, c)
      BY <3>0, Names, UnforcesCons
    <3> HIDE DEF z
    <3>6. /\ b \in Seq(Steps) /\ Nested(b) /\ b # <<>> /\ Head(b) = Do("force", t)
          /\ \A u : Opens(b, Obsels(u)) <=> Opens(z, Obsels(u))
          /\ \A c : Unforces(z, c) => Unforces(b, c)
          /\ \A y : Has(b, y) => Has(z, y) \/ y.op \in {"force", "refresh", "check", "unforce"}
          /\ z # <<>> /\ Chained(z) /\ Leads(Do("unforce", t), Head(z)) => Chained(b)
      BY <2>0, <3>1, <3>2, <3>3, <3>4, RefreshingFits
    <3> HIDE DEF b, q
    <3>7. q # <<>> /\ Head(q) = Lock(l) /\ q \in Seq(Steps)
      BY <3>0, <3>6, ConsIs
    <3>8. Nested(q)
      <4>1. Fits(Lock(l), b)
        BY <3>2, <3>6, Names DEF Fits, Guarded
      <4> QED
        BY <3>0, <3>6, <4>1, ForAllCons
    <3>9. \A u : Opens(q, Obsels(u)) <=> Opens(r, Obsels(u))
      <4> TAKE u
      <4>1. Opens(q, Obsels(u)) <=> (Lock(l) # Lock(Obsels(u)) /\ Opens(b, Obsels(u)))
        BY <3>0, <3>6, Names, OpensCons
      <4> QED
        BY <3>0, <3>2, <3>6, <4>1, Names
    <3>10. \A c : c # t /\ Unforces(r, c) => Unforces(q, c)
      BY <3>0, <3>6, <3>u, Names, UnforcesCons
    <3>11. Links(x, r) /\ Chained(r) => Chained(q)
      <4> HAVE Links(x, r) /\ Chained(r)
      <4>1. Chained(b)
        BY <3>1, <3>5, <3>6
      <4>2. Links(Lock(l), b)
        BY <3>6, Names DEF Links, Leads
      <4> QED
        BY <3>0, <3>6, <4>1, <4>2, ForAllCons
    <3>12. \A y : Has(q, y) => Has(r, y) \/ y.op \in {"force", "refresh", "check", "unforce", "lock", "unlock"}
      <4> TAKE y
      <4>1. Has(q, y) <=> y = Lock(l) \/ Has(b, y)
        BY <3>0, <3>6, ForAllCons
      <4>2. Has(z, y) <=> y = Unlock(l) \/ Has(r, y)
        BY <3>0, ForAllCons DEF z
      <4> QED
        BY <3>6, <4>1, <4>2, Names
    <3> QED
      BY <1>2, <3>12, <3>7, <3>8, <3>9, <3>10, <3>11 DEF q
  <2> QED
    BY <2>1, <2>2
<1> QED
  BY <1>1, <1>2

\* Steps that neither lock obsels nor refresh.
LEMMA PlainCons ==
  ASSUME NEW x \in Steps, NEW r \in Seq(Steps), x.op \notin {"force", "refresh", "unforce"},
         \A u : x # Lock(Obsels(u)) /\ x # Unlock(Obsels(u)),
         x.op \in Guarded => Opens(r, Obsels(x.on)), Nested(r)
  PROVE  LET q == Cons(x, r)
         IN  /\ q \in Seq(Steps) /\ Nested(q) /\ q # <<>> /\ Head(q) = x
             /\ \A u : Opens(q, Obsels(u)) <=> Opens(r, Obsels(u))
             /\ \A d : Unforces(r, d) => Unforces(q, d)
             /\ \A y : Has(q, y) <=> y = x \/ Has(r, y)
             /\ Links(x, r) /\ Chained(r) => Chained(q)
<1>1. Fits(x, r)
  BY DEF Fits
<1>2. Nested(Cons(x, r)) /\ (Links(x, r) /\ Chained(r) => Chained(Cons(x, r)))
  BY <1>1, ForAllCons
<1>3. \A y : Has(Cons(x, r), y) <=> y = x \/ Has(r, y)
  BY ForAllCons
<1>4. \A u : Opens(Cons(x, r), Obsels(u)) <=> Opens(r, Obsels(u))
  BY OpensCons
<1>5. \A d : Unforces(r, d) => Unforces(Cons(x, r), d)
  BY UnforcesCons
<1> QED
  BY <1>2, <1>3, <1>4, <1>5, ConsIs

LEMMA RecomputeFits ==
  ASSUME NEW c \in Computed, NEW r \in Seq(Steps), Nested(r), Opens(r, Obsels(c))
  PROVE  LET q == Recompute(c) \o r
         IN  /\ Nested(q) /\ q # <<>> /\ Head(q) = Do("clear", c)
             /\ \A u : Opens(q, Obsels(u)) <=> Opens(r, Obsels(u))
             /\ \A d : Unforces(r, d) => Unforces(q, d)
             /\ \A y : Has(q, y) => Has(r, y) \/ y.op \in {"clear", "describe", "ack"} \/ y = Do("copy", c)
             /\ Links(Do("check", c), r) /\ Chained(r) => Chained(q)
<1> DEFINE x1 == Do("clear", c)
           x2 == Do("describe", c)
           x3 == Do("copy", c)
           x4 == Do("ack", c)
           q4 == Cons(x4, r)
           q3 == Cons(x3, q4)
           q2 == Cons(x2, q3)
           q1 == Cons(x1, q2)
<1>1. /\ x1 \in Steps /\ x2 \in Steps /\ x3 \in Steps /\ x4 \in Steps
      /\ x1.op = "clear" /\ x2.op = "describe" /\ x3.op = "copy" /\ x4.op = "ack"
      /\ x1.on = c /\ x2.on = c /\ x3.on = c /\ x4.on = c
  BY StepsOf, Names DEF ComputedOps, Traces
<1>2. \A l : /\ x1 # Lock(l) /\ x2 # Lock(l) /\ x3 # Lock(l) /\ x4 # Lock(l)
             /\ x1 # Unlock(l) /\ x2 # Unlock(l) /\ x3 # Unlock(l) /\ x4 # Unlock(l)
  BY Names
<1>q. q1 = Recompute(c) \o r
  BY <1>1, TupleIs DEF Recompute
<1>x. x3 = Do("copy", c) /\ x1 = Do("clear", c) /\ x4 = Do("ack", c)
  OBVIOUS
<1>l. Links(Do("check", c), r) => r # <<>> /\ Leads(x4, Head(r))
  BY Names DEF Links, Leads, Ends
<1> HIDE DEF x1, x2, x3, x4
<1>3. /\ q4 \in Seq(Steps) /\ Nested(q4) /\ q4 # <<>> /\ Head(q4) = x4
      /\ \A u : Opens(q4, Obsels(u)) <=> Opens(r, Obsels(u))
      /\ \A d : Unforces(r, d) => Unforces(q4, d)
      /\ \A y : Has(q4, y) <=> y = x4 \/ Has(r, y)
      /\ Links(x4, r) /\ Chained(r) => Chained(q4)
  BY <1>1, <1>2, PlainCons DEF Guarded
<1> HIDE DEF q4
<1>4. /\ q3 \in Seq(Steps) /\ Nested(q3) /\ q3 # <<>> /\ Head(q3) = x3
      /\ \A u : Opens(q3, Obsels(u)) <=> Opens(q4, Obsels(u))
      /\ \A d : Unforces(q4, d) => Unforces(q3, d)
      /\ \A y : Has(q3, y) <=> y = x3 \/ Has(q4, y)
      /\ Links(x3, q4) /\ Chained(q4) => Chained(q3)
  BY <1>1, <1>2, <1>3, PlainCons DEF Guarded
<1> HIDE DEF q3
<1>5. /\ q2 \in Seq(Steps) /\ Nested(q2) /\ q2 # <<>> /\ Head(q2) = x2
      /\ \A u : Opens(q2, Obsels(u)) <=> Opens(q3, Obsels(u))
      /\ \A d : Unforces(q3, d) => Unforces(q2, d)
      /\ \A y : Has(q2, y) <=> y = x2 \/ Has(q3, y)
      /\ Links(x2, q3) /\ Chained(q3) => Chained(q2)
  BY <1>1, <1>2, <1>4, PlainCons DEF Guarded
<1> HIDE DEF q2
<1>6. /\ q1 \in Seq(Steps) /\ Nested(q1) /\ q1 # <<>> /\ Head(q1) = x1
      /\ \A u : Opens(q1, Obsels(u)) <=> Opens(q2, Obsels(u))
      /\ \A d : Unforces(q2, d) => Unforces(q1, d)
      /\ \A y : Has(q1, y) <=> y = x1 \/ Has(q2, y)
      /\ Links(x1, q2) /\ Chained(q2) => Chained(q1)
  BY <1>1, <1>2, <1>3, <1>4, <1>5, PlainCons DEF Guarded
<1> HIDE DEF q1
<1>7. Links(x3, q4) /\ Links(x2, q3) /\ Links(x1, q2)
  BY <1>1, <1>2, <1>3, <1>4, <1>5, <1>x DEF Links, Leads
<1>8. Links(Do("check", c), r) /\ Chained(r) => Chained(q1)
  BY <1>l, <1>3, <1>4, <1>5, <1>6, <1>7 DEF Links
<1>9. \A y : Has(q1, y) => Has(r, y) \/ y.op \in {"clear", "describe", "ack"} \/ y = Do("copy", c)
  BY <1>1, <1>3, <1>4, <1>5, <1>6, <1>x
<1>10. \A u : Opens(q1, Obsels(u)) <=> Opens(r, Obsels(u))
  BY <1>3, <1>4, <1>5, <1>6
<1>11. \A d : Unforces(r, d) => Unforces(q1, d)
  BY <1>3, <1>4, <1>5, <1>6
<1> QED
  BY <1>q, <1>x, <1>6, <1>8, <1>9, <1>10, <1>11

LEMMA DescribeFits ==
  ASSUME NEW c \in Computed, NEW r \in Seq(Steps), Nested(r)
  PROVE  LET q == Describe(c) \o r
         IN  /\ Nested(q) /\ q # <<>> /\ Head(q) = Do("clearDescription", c)
             /\ \A u : Opens(q, Obsels(u)) <=> Opens(r, Obsels(u))
             /\ \A d : Unforces(r, d) => Unforces(q, d)
             /\ \A y : Has(q, y) =>
                  Has(r, y) \/ y.op \in {"clearDescription", "lock", "unlock", "described"}
             /\ Links(Do("describe", c), r) /\ Chained(r) => Chained(q)
<1> DEFINE x1 == Do("clearDescription", c)
           x2 == Lock(Base)
           x3 == Unlock(Base)
           x4 == Do("described", c)
           q4 == Cons(x4, r)
           q3 == Cons(x3, q4)
           q2 == Cons(x2, q3)
           q1 == Cons(x1, q2)
<1>1. /\ x1 \in Steps /\ x2 \in Steps /\ x3 \in Steps /\ x4 \in Steps
      /\ x1.op = "clearDescription" /\ x2.op = "lock" /\ x3.op = "unlock" /\ x4.op = "described"
  BY StepsOf, Names DEF ComputedOps
<1>2. \A u : LET l == Obsels(u)
             IN  /\ x1 # Lock(l) /\ x2 # Lock(l) /\ x3 # Lock(l) /\ x4 # Lock(l)
                 /\ x1 # Unlock(l) /\ x2 # Unlock(l) /\ x3 # Unlock(l) /\ x4 # Unlock(l)
  BY Names
<1>q. q1 = Describe(c) \o r
  BY <1>1, TupleIs DEF Describe
<1>x. x1 = Do("clearDescription", c)
  OBVIOUS
<1>l. Links(Do("describe", c), r) => r # <<>> /\ Leads(x4, Head(r))
  BY Names DEF Links, Leads, Ends
<1> HIDE DEF x1, x2, x3, x4
<1>3. /\ q4 \in Seq(Steps) /\ Nested(q4) /\ q4 # <<>> /\ Head(q4) = x4
      /\ \A u : Opens(q4, Obsels(u)) <=> Opens(r, Obsels(u))
      /\ \A d : Unforces(r, d) => Unforces(q4, d)
      /\ \A y : Has(q4, y) <=> y = x4 \/ Has(r, y)
      /\ Links(x4, r) /\ Chained(r) => Chained(q4)
  BY <1>1, <1>2, PlainCons DEF Guarded
<1> HIDE DEF q4
<1>4. /\ q3 \in Seq(Steps) /\ Nested(q3) /\ q3 # <<>> /\ Head(q3) = x3
      /\ \A u : Opens(q3, Obsels(u)) <=> Opens(q4, Obsels(u))
      /\ \A d : Unforces(q4, d) => Unforces(q3, d)
      /\ \A y : Has(q3, y) <=> y = x3 \/ Has(q4, y)
      /\ Links(x3, q4) /\ Chained(q4) => Chained(q3)
  BY <1>1, <1>2, <1>3, PlainCons DEF Guarded
<1> HIDE DEF q3
<1>5. /\ q2 \in Seq(Steps) /\ Nested(q2) /\ q2 # <<>> /\ Head(q2) = x2
      /\ \A u : Opens(q2, Obsels(u)) <=> Opens(q3, Obsels(u))
      /\ \A d : Unforces(q3, d) => Unforces(q2, d)
      /\ \A y : Has(q2, y) <=> y = x2 \/ Has(q3, y)
      /\ Links(x2, q3) /\ Chained(q3) => Chained(q2)
  BY <1>1, <1>2, <1>4, PlainCons DEF Guarded
<1> HIDE DEF q2
<1>6. /\ q1 \in Seq(Steps) /\ Nested(q1) /\ q1 # <<>> /\ Head(q1) = x1
      /\ \A u : Opens(q1, Obsels(u)) <=> Opens(q2, Obsels(u))
      /\ \A d : Unforces(q2, d) => Unforces(q1, d)
      /\ \A y : Has(q1, y) <=> y = x1 \/ Has(q2, y)
      /\ Links(x1, q2) /\ Chained(q2) => Chained(q1)
  BY <1>1, <1>2, <1>5, PlainCons DEF Guarded
<1> HIDE DEF q1
<1>7. Links(x3, q4) /\ Links(x2, q3) /\ Links(x1, q2)
  <2>1. \A u : x3 # Unlock(Obsels(u)) /\ x2 # Unlock(Obsels(u)) /\ x4 # Unlock(Obsels(u))
    BY <1>2
  <2> QED
    BY <1>1, <1>3, <1>4, <1>5, <2>1 DEF Links, Leads
<1>8. Links(Do("describe", c), r) /\ Chained(r) => Chained(q1)
  BY <1>l, <1>3, <1>4, <1>5, <1>6, <1>7 DEF Links
<1>9. \A y : Has(q1, y) =>
        Has(r, y) \/ y.op \in {"clearDescription", "lock", "unlock", "described"}
  BY <1>1, <1>3, <1>4, <1>5, <1>6
<1>10. \A u : Opens(q1, Obsels(u)) <=> Opens(r, Obsels(u))
  BY <1>3, <1>4, <1>5, <1>6
<1>11. \A d : Unforces(r, d) => Unforces(q1, d)
  BY <1>3, <1>4, <1>5, <1>6
<1> QED
  BY <1>q, <1>x, <1>6, <1>8, <1>9, <1>10, <1>11

\* Steps that neither lock obsels nor compute.
Quiet(x) == x.op \notin Guarded \cup {"force"} /\ \A u : x # Lock(Obsels(u)) /\ x # Unlock(Obsels(u))

LEMMA QuietFits ==
  ASSUME NEW s \in Seq(Steps), \A k \in 1 .. Len(s) : Quiet(s[k])
  PROVE  Nested(s) /\ \A u : ~Opens(s, Obsels(u))
<1>1. \A u : ~Opens(s, Obsels(u))
  BY DEF Opens, Quiet
<1>2. ASSUME NEW k \in 1 .. Len(s) PROVE Fits(s[k], Rest(s, k))
  <2>0. Len(s) \in Nat
    BY LenProperties
  <2>1. \A m \in 1 .. Len(Rest(s, k)) : Quiet(Rest(s, k)[m])
    <3>1. \A i \in k + 1 .. Len(s) : s[i] \in Steps
      BY <2>0, ElementOfSeq
    <3>2. /\ Len(Rest(s, k)) = IF k + 1 <= Len(s) THEN Len(s) - (k + 1) + 1 ELSE 0
          /\ \A i \in 1 .. Len(s) - (k + 1) + 1 : Rest(s, k)[i] = s[k + 1 + i - 1]
      BY <2>0, <3>1, SubSeqProperties DEF Rest
    <3> DEFINE r == Rest(s, k)
    <3> HIDE DEF r
    <3>3. ASSUME NEW m \in 1 .. Len(r) PROVE Quiet(r[m])
      <4>1. k + m \in 1 .. Len(s) /\ r[m] = s[k + m]
        BY <2>0, <3>2 DEF r
      <4> QED
        BY <4>1
    <3> QED
      BY <3>3 DEF r
  <2>2. \A t : Above(t, Rest(s, k))
    BY <2>1 DEF Above, Quiet, Guarded
  <2> QED
    BY <2>2 DEF Fits, Quiet
<1> QED
  BY <1>1, <1>2 DEF Nested

LEMMA LockCons ==
  ASSUME NEW t \in Traces, NEW r \in Seq(Steps), Nested(r)
  PROVE  LET l == Obsels(t)
             o == Cons(Lock(l), r)
             q == Cons(Unlock(l), r)
         IN  /\ o \in Seq(Steps) /\ o # <<>> /\ Head(o) = Lock(l)
             /\ q \in Seq(Steps) /\ q # <<>> /\ Head(q) = Unlock(l)
             /\ Opens(r, l) => Nested(o)
             /\ ~Opens(o, l) /\ \A u : u # t => (Opens(o, Obsels(u)) <=> Opens(r, Obsels(u)))
             /\ ~Opens(r, l) => Nested(q)
             /\ Opens(q, l) /\ \A u : u # t => (Opens(q, Obsels(u)) <=> Opens(r, Obsels(u)))
<1> DEFINE l == Obsels(t)
           o == Cons(Lock(l), r)
           q == Cons(Unlock(l), r)
<1>1. Lock(l) \in Steps /\ Unlock(l) \in Steps
  BY StepsOf
<1>2. Opens(r, l) => Fits(Lock(l), r)
  BY Names DEF Fits, Guarded
<1>3. ~Opens(r, l) => Fits(Unlock(l), r)
  BY Names DEF Fits, Guarded
<1>4. ~Opens(o, l) /\ \A u : u # t => (Opens(o, Obsels(u)) <=> Opens(r, Obsels(u)))
  BY <1>1, Names, OpensCons
<1>5. Opens(q, l) /\ \A u : u # t => (Opens(q, Obsels(u)) <=> Opens(r, Obsels(u)))
  BY <1>1, Names, OpensCons
<1>6. (Opens(r, l) => Nested(o)) /\ (~Opens(r, l) => Nested(q))
  BY <1>1, <1>2, <1>3, ForAllCons
<1>7. /\ o \in Seq(Steps) /\ o # <<>> /\ Head(o) = Lock(l)
      /\ q \in Seq(Steps) /\ q # <<>> /\ Head(q) = Unlock(l)
  BY <1>1, ConsIs
<1> QED
  BY <1>4, <1>5, <1>6, <1>7

LEMMA ReadFits ==
  ASSUME NEW c \in Computed
  PROVE  LET g == <<Do("refresh", c), Do("serve", c)>>
             s == RefreshStats(c)
         IN  /\ Nested(g) /\ Chained(g) /\ \A u : ~Opens(g, Obsels(u))
             /\ Nested(s) /\ \A u : ~Opens(s, Obsels(u))
             /\ \A y : Has(g, y) \/ Has(s, y) => y.op \notin {"copy", "delete"}
<1> DEFINE g == <<Do("refresh", c), Do("serve", c)>>
           s == RefreshStats(c)
<1>0. c \in Traces
  BY DEF Traces
<1>1. g \in Seq(Steps) /\ Len(g) = 2 /\ g # <<>>
  BY <1>0, StepsOf DEF ComputedOps
<1>2. s \in Seq(Steps) /\ Len(s) = 7
  BY <1>0, StepsOf DEF ComputedOps, RefreshStats
<1>3. \A k \in 1 .. 2 : Quiet(g[k]) /\ g[k].op \notin {"copy", "delete"}
  BY Names DEF Quiet, Guarded
<1>4. \A k \in 1 .. 7 : Quiet(s[k]) /\ s[k].op \notin {"copy", "delete"}
  <2>1. \A k \in 1 .. 7 : s[k] \in {Lock(Stats(c)), Do("describe", c), Do("refresh", c), Do("note", c),
                                    Do("populate", c), Do("sign", c), Unlock(Stats(c))}
    BY DEF RefreshStats
  <2>2. \A x \in {Lock(Stats(c)), Do("describe", c), Do("refresh", c), Do("note", c),
                  Do("populate", c), Do("sign", c), Unlock(Stats(c))} :
          Quiet(x) /\ x.op \notin {"copy", "delete"}
    BY Names DEF Quiet, Guarded
  <2> QED
    BY <2>1, <2>2
<1>5. Chained(g)
  <2>1. Head(g) = Do("refresh", c) /\ Tail(g) = <<Do("serve", c)>>
    OBVIOUS
  <2>2. <<Do("serve", c)>> \in Seq(Steps) /\ <<Do("serve", c)>> # <<>>
    BY <1>0, StepsOf DEF ComputedOps
  <2> DEFINE e == <<Do("serve", c)>>
  <2>3. Head(e) = Do("serve", c) /\ Tail(e) = <<>>
    OBVIOUS
  <2> HIDE DEF e, g
  <2>4. Links(Head(e), Tail(e))
    BY <2>3, Names DEF Links
  <2>5. Chained(e)
    BY <2>2, <2>3, <2>4, Taken DEF e
  <2>6. Links(Do("refresh", c), e)
    BY <2>2, <2>3, Names DEF e, Links, Leads, Ends
  <2> QED
    BY <1>1, <2>1, <2>5, <2>6, Taken DEF e
<1> HIDE DEF g, s
<1>6. Nested(g) /\ Nested(s) /\ \A u : ~Opens(g, Obsels(u)) /\ ~Opens(s, Obsels(u))
  BY <1>1, <1>2, <1>3, <1>4, QuietFits
<1>7. \A y : Has(g, y) \/ Has(s, y) => y.op \notin {"copy", "delete"}
  BY <1>1, <1>2, <1>3, <1>4 DEF Has
<1> QED
  BY <1>5, <1>6, <1>7 DEF g, s

\* The last step of an operation.
LEMMA LastFits ==
  ASSUME NEW t \in Traces
  PROVE  LET l == Obsels(t)
             s == <<Unlock(l)>>
         IN  /\ s \in Seq(Steps) /\ Nested(s) /\ Opens(s, l) /\ \A u : u # t => ~Opens(s, Obsels(u))
             /\ (\A u : Above(u, s)) /\ \A y : Has(s, y) => y = Unlock(l)
<1> DEFINE l == Obsels(t)
           s == <<Unlock(l)>>
           r == Rest(s, 1)
<1>1. s \in Seq(Steps) /\ Len(s) = 1 /\ s[1] = Unlock(l)
  BY StepsOf
<1>2. Len(r) = 0
  BY <1>1 DEF Rest
<1> HIDE DEF s, r
<1>3. ~Opens(r, l)
  BY <1>2 DEF Opens
<1>4. Opens(s, l) /\ \A u : u # t => ~Opens(s, Obsels(u))
  BY <1>1, Names DEF Opens
<1>5. Fits(s[1], r)
  BY <1>1, <1>3, Names DEF Fits, Guarded
<1>6. Nested(s)
  BY <1>1, <1>5 DEF Nested, r
<1>7. (\A u : Above(u, s)) /\ \A y : Has(s, y) => y = Unlock(l)
  BY <1>1, Names DEF Above, Has
<1> QED
  BY <1>1, <1>4, <1>6, <1>7 DEF s

LEMMA WriteFits ==
  LET a == PostGraph
      b == PostRefused
  IN  /\ Nested(a) /\ \A u : ~Opens(a, Obsels(u))
      /\ Nested(b) /\ \A u : ~Opens(b, Obsels(u))
      /\ \A y : Has(a, y) \/ Has(b, y) => y.op \notin {"copy", "delete"}
<1> DEFINE l == Obsels(Stored)
           add == Do("add", Stored)
           ack == Do("ack", Stored)
           a1 == <<Unlock(l)>>
           a2 == <<ack, Unlock(l)>>
           a3 == <<add, ack, Unlock(l)>>
           b3 == <<add, Unlock(l)>>
           a == PostGraph
           b == PostRefused
<1>t. Stored \in Traces
  BY DEF Traces
<1>1. /\ add \in Steps /\ ack \in Steps /\ Lock(l) \in Steps /\ Unlock(l) \in Steps
      /\ add.op = "add" /\ ack.op = "ack" /\ ack.on = Stored
      /\ \A u : /\ add # Lock(Obsels(u)) /\ add # Unlock(Obsels(u))
                /\ ack # Lock(Obsels(u)) /\ ack # Unlock(Obsels(u))
  BY <1>t, StepsOf, Names
<1>2. /\ a1 \in Seq(Steps) /\ a1 # <<>> /\ Head(a1) = Unlock(l) /\ Tail(a1) = <<>>
      /\ a2 \in Seq(Steps) /\ a2 # <<>> /\ Head(a2) = ack /\ Tail(a2) = a1
      /\ a3 \in Seq(Steps) /\ a3 # <<>> /\ Head(a3) = add /\ Tail(a3) = a2
      /\ b3 \in Seq(Steps) /\ b3 # <<>> /\ Head(b3) = add /\ Tail(b3) = a1
  BY <1>1
<1>3. /\ a \in Seq(Steps) /\ a # <<>> /\ Head(a) = Lock(l) /\ Tail(a) = a3
      /\ b \in Seq(Steps) /\ b # <<>> /\ Head(b) = Lock(l) /\ Tail(b) = b3
  BY <1>1 DEF PostGraph, PostRefused
<1>5. /\ Nested(a1) /\ Opens(a1, l) /\ \A u : u # Stored => ~Opens(a1, Obsels(u))
      /\ \A y : Has(a1, y) => y = Unlock(l)
  BY <1>t, LastFits
<1> HIDE DEF a1, a2, a3, b3, a, b, add, ack
<1>c. /\ a2 = Cons(ack, a1) /\ a3 = Cons(add, a2)
      /\ b3 = Cons(add, a1) /\ a = Cons(Lock(l), a3) /\ b = Cons(Lock(l), b3)
  BY <1>2, <1>3, IsCons, Zenon
<1>s. a1 \in Seq(Steps) /\ a2 \in Seq(Steps) /\ a3 \in Seq(Steps) /\ b3 \in Seq(Steps)
  BY <1>2
<1>6. Nested(a2) /\ \A u : Opens(a2, Obsels(u)) <=> Opens(a1, Obsels(u))
  BY <1>c, <1>1, <1>s, <1>5, PlainCons
<1>7. Nested(a3) /\ \A u : Opens(a3, Obsels(u)) <=> Opens(a2, Obsels(u))
  <2>1. add.op \notin Guarded
    BY <1>1 DEF Guarded
  <2> QED
    BY <1>c, <1>1, <1>s, <1>6, <2>1, PlainCons
<1>8. Nested(b3) /\ \A u : Opens(b3, Obsels(u)) <=> Opens(a1, Obsels(u))
  <2>1. add.op \notin Guarded
    BY <1>1 DEF Guarded
  <2> QED
    BY <1>c, <1>1, <1>s, <1>5, <2>1, PlainCons
<1>9. Nested(a) /\ \A u : ~Opens(a, Obsels(u))
  <2>1. Nested(a) /\ ~Opens(a, l) /\ \A u : u # Stored => (Opens(a, Obsels(u)) <=> Opens(a3, Obsels(u)))
    BY <1>c, <1>t, <1>s, <1>5, <1>6, <1>7, LockCons
  <2> QED
    BY <1>5, <1>6, <1>7, <2>1
<1>10. Nested(b) /\ \A u : ~Opens(b, Obsels(u))
  <2>1. Nested(b) /\ ~Opens(b, l) /\ \A u : u # Stored => (Opens(b, Obsels(u)) <=> Opens(b3, Obsels(u)))
    BY <1>c, <1>t, <1>s, <1>5, <1>8, LockCons
  <2> QED
    BY <1>5, <1>8, <2>1
<1>11. \A y : Has(a, y) \/ Has(b, y) => y \in {Lock(l), Unlock(l), add, ack}
  <2> TAKE y
  <2>1. Has(a1, y) => y = Unlock(l)
    BY <1>5
  <2>2. Has(a2, y) => y = ack \/ Has(a1, y)
    BY <1>2, Taken
  <2>3. Has(a3, y) => y = add \/ Has(a2, y)
    BY <1>2, Taken
  <2>4. Has(b3, y) => y = add \/ Has(a1, y)
    BY <1>2, Taken
  <2>5. (Has(a, y) => y = Lock(l) \/ Has(a3, y)) /\ (Has(b, y) => y = Lock(l) \/ Has(b3, y))
    BY <1>3, Taken
  <2> QED
    BY <2>1, <2>2, <2>3, <2>4, <2>5
<1>12. \A y : Has(a, y) \/ Has(b, y) => y.op \notin {"copy", "delete"}
  BY <1>1, <1>11, Names
<1> QED
  BY <1>9, <1>10, <1>12 DEF a, b

LEMMA WorkFits ==
  ASSUME NEW c \in Computed
  PROVE  LET w == <<Lock(Obsels(c)), Do("refresh", c), Unlock(Obsels(c))>>
         IN  /\ Nested(w) /\ \A u : ~Opens(w, Obsels(u))
             /\ \A y : Has(w, y) => y.op \notin {"copy", "delete"}
<1> DEFINE l == Obsels(c)
           x == Do("refresh", c)
           w1 == <<Unlock(l)>>
           w2 == <<x, Unlock(l)>>
           w == <<Lock(l), x, Unlock(l)>>
<1>t. c \in Traces
  BY DEF Traces
<1>1. x \in Steps /\ Lock(l) \in Steps /\ Unlock(l) \in Steps /\ x.op = "refresh" /\ x.on = c
  BY <1>t, StepsOf, Names
<1>2. /\ w1 \in Seq(Steps) /\ w1 # <<>> /\ Head(w1) = Unlock(l) /\ Tail(w1) = <<>>
      /\ w2 \in Seq(Steps) /\ w2 # <<>> /\ Head(w2) = x /\ Tail(w2) = w1
      /\ w \in Seq(Steps) /\ w # <<>> /\ Head(w) = Lock(l) /\ Tail(w) = w2
  BY <1>1
<1>5. /\ Nested(w1) /\ Opens(w1, l) /\ \A u : u # c => ~Opens(w1, Obsels(u))
      /\ Above(c, w1) /\ \A y : Has(w1, y) => y = Unlock(l)
  BY <1>t, LastFits
<1>n. \A u : x # Lock(u) /\ x # Unlock(u)
  BY Names
<1> HIDE DEF w1, w2, w, x
<1>c. w = Cons(Lock(l), w2)
  BY <1>2, IsCons, Zenon
<1>7. Fits(x, w1)
  BY <1>1, <1>n, <1>5 DEF Fits, Guarded
<1>8. Nested(w2) /\ \A u : Opens(w2, u) <=> Opens(w1, u)
  BY <1>2, <1>n, <1>5, <1>7, Taken
<1>9. Nested(w) /\ ~Opens(w, l) /\ \A u : u # c => (Opens(w, Obsels(u)) <=> Opens(w2, Obsels(u)))
  BY <1>c, <1>t, <1>2, <1>5, <1>8, LockCons
<1>10. \A y : Has(w, y) => y \in {Lock(l), Unlock(l), x}
  BY <1>2, <1>5, Taken
<1>11. \A y : Has(w, y) => y.op \notin {"copy", "delete"}
  BY <1>1, <1>10, Names
<1>12. \A u : ~Opens(w, Obsels(u))
  BY <1>5, <1>8, <1>9
<1> QED
  BY <1>9, <1>11, <1>12 DEF w, x

LEMMA DeleteFits ==
  ASSUME NEW c \in Computed
  PROVE  LET d == DeleteTrace(c)
         IN  /\ Nested(d) /\ \A u : ~Opens(d, Obsels(u))
             /\ d[1] = Lock(Base) /\ d[2] = Do("deletable", c) /\ Len(d) = 8
             /\ \A y : Has(d, y) => y.op # "copy" /\ (y.op = "delete" => y = Do("delete", c))
<1> DEFINE l == Obsels(c)
           m == Stats(c)
           x == Do("deletable", c)
           y == Do("delete", c)
           d4 == <<Lock(m), Unlock(m), y, Unlock(Base)>>
           d5 == <<Unlock(l), Lock(m), Unlock(m), y, Unlock(Base)>>
           d6 == <<Lock(l), Unlock(l), Lock(m), Unlock(m), y, Unlock(Base)>>
           d7 == <<x, Lock(l), Unlock(l), Lock(m), Unlock(m), y, Unlock(Base)>>
           d == DeleteTrace(c)
<1>t. c \in Traces
  BY DEF Traces
<1>1. /\ x \in Steps /\ y \in Steps /\ x.op = "deletable" /\ y.op = "delete"
      /\ Lock(l) \in Steps /\ Unlock(l) \in Steps /\ Lock(m) \in Steps /\ Unlock(m) \in Steps
      /\ Lock(Base) \in Steps /\ Unlock(Base) \in Steps
  BY <1>t, StepsOf, Names DEF ComputedOps
<1>q. Quiet(x) /\ Quiet(y) /\ Quiet(Lock(m)) /\ Quiet(Unlock(m)) /\ Quiet(Lock(Base)) /\ Quiet(Unlock(Base))
  BY <1>1, Names DEF Quiet, Guarded
<1>2. /\ d5 \in Seq(Steps) /\ d5 # <<>> /\ Head(d5) = Unlock(l) /\ Tail(d5) = d4
      /\ d6 \in Seq(Steps) /\ d6 # <<>> /\ Head(d6) = Lock(l) /\ Tail(d6) = d5
  BY <1>1
<1>3. /\ d7 \in Seq(Steps) /\ d7 # <<>> /\ Head(d7) = x /\ Tail(d7) = d6
  BY <1>1
<1>4. /\ d \in Seq(Steps) /\ d # <<>> /\ Head(d) = Lock(Base) /\ Tail(d) = d7
      /\ d[1] = Lock(Base) /\ d[2] = x /\ Len(d) = 8
  BY <1>1 DEF DeleteTrace
<1>5. /\ d4 \in Seq(Steps) /\ Len(d4) = 4
      /\ \A k \in 1 .. 4 : d4[k] \in {Lock(m), Unlock(m), y, Unlock(Base)}
  BY <1>1
<1>y. y = Do("delete", c) /\ x = Do("deletable", c)
  OBVIOUS
<1> HIDE DEF d4, d5, d6, d7, d, x, y, m
<1>c. d5 = Cons(Unlock(l), d4) /\ d6 = Cons(Lock(l), d5) /\ d7 = Cons(x, d6) /\ d = Cons(Lock(Base), d7)
  BY <1>2, <1>3, <1>4, IsCons, Zenon
<1>6. Nested(d4) /\ \A u : ~Opens(d4, Obsels(u))
  <2>1. \A k \in 1 .. Len(d4) : Quiet(d4[k])
    BY <1>5, <1>q
  <2> QED
    BY <1>5, <2>1, QuietFits
<1>7. Nested(d5) /\ Opens(d5, l) /\ \A u : u # c => ~Opens(d5, Obsels(u))
  BY <1>c, <1>t, <1>5, <1>6, LockCons
<1>8. Nested(d6) /\ \A u : ~Opens(d6, Obsels(u))
  BY <1>c, <1>t, <1>2, <1>7, LockCons
<1>9. Nested(d7) /\ \A u : ~Opens(d7, Obsels(u))
  BY <1>c, <1>1, <1>q, <1>2, <1>8, PlainCons DEF Quiet, Guarded
<1>10. Nested(d) /\ \A u : ~Opens(d, Obsels(u))
  <2>1. Lock(Base).op = "lock"
    BY Names
  <2> QED
    BY <1>c, <1>1, <1>q, <1>3, <1>9, <2>1, PlainCons DEF Quiet, Guarded
<1>11. \A z : Has(d, z) => z \in {Lock(Base), x, Lock(l), Unlock(l), Lock(m), Unlock(m), y, Unlock(Base)}
  <2> TAKE z
  <2>1. Has(d4, z) => z \in {Lock(m), Unlock(m), y, Unlock(Base)}
    BY <1>5 DEF Has
  <2>2. Has(d5, z) => z = Unlock(l) \/ Has(d4, z)
    BY <1>2, Taken
  <2>3. Has(d6, z) => z = Lock(l) \/ Has(d5, z)
    BY <1>2, Taken
  <2>4. Has(d7, z) => z = x \/ Has(d6, z)
    BY <1>3, Taken
  <2>5. Has(d, z) => z = Lock(Base) \/ Has(d7, z)
    BY <1>4, Taken
  <2> QED
    BY <2>1, <2>2, <2>3, <2>4, <2>5
<1>12. \A z : Has(d, z) => z.op # "copy" /\ (z.op = "delete" => z = y)
  BY <1>1, <1>11, Names
<1> QED
  BY <1>4, <1>10, <1>12, <1>y DEF d

----------------------------------------------------------------------------
(* Reads: locks and flags *)

\* Two threads of one process share its objects, hence the flags: a reader may
\* skip a refresh that the other is in (engine/trace_obsels.py:577).
Alone == \A th, u \in Threads : Home[th] = Home[u] => th = u

LocksTyped ==
  /\ owner \in [Locks -> Threads \cup {Nobody}]
  /\ forcing \subseteq Processes \X Computed

\* A thread holds the obsels of the traces that it has to unlock, and has to
\* reset the flags that it has set.
Held == \A th \in Threads, t \in Traces : owner[Obsels(t)] = th <=> Opens(todo[th], Obsels(t))
Flagged ==
  \A th \in Threads, c \in Computed : <<Home[th], c>> \in forcing => Unforces(todo[th], c)
AllNested == \A th \in Threads : Nested(todo[th])
Locking == LocksTyped /\ Held /\ Flagged /\ AllNested

\* The flags that are set are reset while the obsels are locked.
LEMMA UnforcesOpens ==
  ASSUME NEW s \in Seq(Steps), NEW c \in Computed, Nested(s), Unforces(s, c)
  PROVE  Opens(s, Obsels(c))
<1> DEFINE l == Obsels(c)
<1>0. Len(s) \in Nat
  BY LenProperties
<1>1. PICK m \in 1 .. Len(s) : /\ s[m] = Do("unforce", c)
                               /\ \A i \in 1 .. m - 1 : s[i] # Lock(l) /\ s[i] # Unlock(l)
  BY DEF Unforces
<1> DEFINE r == Rest(s, m)
<1>2. Opens(r, l)
  BY <1>1, Names DEF Nested, Fits, Guarded
<1>3. /\ Len(r) = IF m + 1 <= Len(s) THEN Len(s) - (m + 1) + 1 ELSE 0
      /\ \A i \in 1 .. Len(s) - (m + 1) + 1 : r[i] = s[m + 1 + i - 1]
  <2>1. \A i \in m + 1 .. Len(s) : s[i] \in Steps
    BY <1>0, ElementOfSeq
  <2> QED
    BY <1>0, <2>1, SubSeqProperties DEF Rest
<1> HIDE DEF r
<1>4. PICK j \in 1 .. Len(r) : r[j] = Unlock(l) /\ \A i \in 1 .. j - 1 : r[i] # Lock(l)
  BY <1>2 DEF Opens
<1>5. m + j \in 1 .. Len(s) /\ s[m + j] = Unlock(l) /\ Len(r) = Len(s) - m /\ j \in Nat
  BY <1>0, <1>3, <1>4
<1>6. ASSUME NEW i \in 1 .. (m + j) - 1 PROVE s[i] # Lock(l)
  <2>1. CASE i < m
    BY <1>0, <1>1, <2>1
  <2>2. CASE i = m
    BY <1>1, <2>2, Names
  <2>3. CASE i > m
    <3>1. i - m \in 1 .. j - 1 /\ i - m \in 1 .. Len(s) - (m + 1) + 1 /\ m + 1 + (i - m) - 1 = i
      BY <1>0, <1>4, <1>5, <2>3
    <3>2. r[i - m] = s[i]
      BY <1>3, <3>1
    <3> QED
      BY <1>4, <3>1, <3>2
  <2> QED
    BY <1>0, <2>1, <2>2, <2>3
<1> QED
  BY <1>5, <1>6 DEF Opens

\* What a step does to the locks and to the flags.
LEMMA LockMoves ==
  ASSUME Typed, AllTogether, NEW th \in Threads, Step(th)
  PROVE  LET op == Head(todo[th]).op
             c == On(th)
         IN  \/ op \in {"lock", "deletable"} /\ Raise(th)
             \/ /\ op = "lock" /\ Pops(th) /\ owner[c] = Nobody
                /\ owner' = [owner EXCEPT ![c] = th] /\ forcing' = forcing
             \/ /\ op = "unlock" /\ Pops(th)
                /\ owner' = [owner EXCEPT ![c] = Nobody] /\ forcing' = forcing
             \/ /\ op = "force" /\ Pops(th)
                /\ owner' = owner /\ forcing' = forcing \cup {<<Home[th], c>>}
             \/ /\ op = "unforce" /\ Pops(th)
                /\ owner' = owner /\ forcing' = forcing \ {<<Home[th], c>>}
             \/ /\ owner' = owner /\ forcing' = forcing
                /\ \/ op = "refresh" /\ Then(th, RefreshObsels(th, c))
                   \/ op = "check" /\ Then(th, Recompute(c))
                   \/ op = "describe" /\ Then(th, Describe(c))
                   \/ op \notin {"lock", "unlock", "force", "unforce", "refresh"} /\ Pops(th)
<1>t. todo[th] # <<>>
  BY Shapes
<1>n. Then(th, <<>>) => Pops(th)
  BY <1>t, ThenNothing
<1>1. CASE Acquire(th)
  BY <1>1, <1>n DEF Acquire, NextIs
<1>2. CASE TimeOut(th)
  BY <1>2 DEF TimeOut, NextIs
<1>3. CASE Release(th)
  BY <1>3, <1>n DEF Release, NextIs
<1>4. CASE Call(th)
  BY <1>4, <1>n DEF Call, NextIs
<1>5. CASE Compute(th)
  BY <1>5, <1>n DEF Compute, NextIs
<1>6. CASE Serve(th) \/ Note(th) \/ WriteStats(th)
  BY <1>6, <1>n DEF Serve, Note, WriteStats, NextIs
<1>7. CASE Destroy(th)
  BY <1>7, <1>n DEF Destroy, NextIs
<1> QED
  BY <1>1, <1>2, <1>3, <1>4, <1>5, <1>6, <1>7 DEF Step

\* The lists that operations begin with.
LEMMA BeginningFits ==
  ASSUME Typed, NEW th \in Threads, Acts(th), ~Step(th)
  PROVE  /\ owner' = owner /\ forcing' = forcing
         /\ Nested(todo'[th]) /\ \A u : ~Opens(todo'[th], Obsels(u))
         /\ \A y : Has(todo'[th], y) => y.op # "copy"
         /\ \A y : Has(todo'[th], y) /\ y.op = "delete" =>
              todo'[th][1] = Lock(Base) /\ todo'[th][2] = Do("deletable", y.on) /\ Len(todo'[th]) = 8
<1>0. owner' = owner /\ forcing' = forcing
  BY DEF Acts, Post, Work, Get, GetStats, Delete
<1>1. CASE Post(th)
  <2>1. todo'[th] = PostGraph \/ todo'[th] = PostRefused
    BY <1>1 DEF Post, Begin, Typed
  <2> QED
    BY <1>0, <2>1, WriteFits
<1>2. CASE \E c \in Computed : Work(th, c) \/ Get(th, c) \/ GetStats(th, c) \/ Delete(th, c)
  <2> PICK c \in Computed : Work(th, c) \/ Get(th, c) \/ GetStats(th, c) \/ Delete(th, c)
    BY <1>2
  <2>1. CASE Work(th, c)
    <3>1. todo'[th] = <<Lock(Obsels(c)), Do("refresh", c), Unlock(Obsels(c))>>
      BY <2>1 DEF Work, Begin, Typed
    <3> QED
      BY <1>0, <3>1, WorkFits
  <2>2. CASE Get(th, c)
    <3>1. todo'[th] = <<Do("refresh", c), Do("serve", c)>>
      BY <2>2 DEF Get, Begin, Typed
    <3> QED
      BY <1>0, <3>1, ReadFits
  <2>3. CASE GetStats(th, c)
    <3>1. todo'[th] = RefreshStats(c)
      BY <2>3 DEF GetStats, Begin, Typed
    <3> QED
      BY <1>0, <3>1, ReadFits
  <2>4. CASE Delete(th, c)
    <3>1. todo'[th] = DeleteTrace(c)
      BY <2>4 DEF Delete, Begin, Typed
    <3>2. /\ Nested(DeleteTrace(c)) /\ \A u : ~Opens(DeleteTrace(c), Obsels(u))
          /\ DeleteTrace(c)[1] = Lock(Base) /\ DeleteTrace(c)[2] = Do("deletable", c)
          /\ Len(DeleteTrace(c)) = 8
          /\ \A y : Has(DeleteTrace(c), y) =>
               y.op # "copy" /\ (y.op = "delete" => y.on = c)
      BY DeleteFits, Names
    <3> QED
      BY <1>0, <3>1, <3>2
  <2> QED
    BY <2>1, <2>2, <2>3, <2>4
<1> QED
  BY <1>1, <1>2 DEF Acts

LEMMA NextLocking ==
  ASSUME Acyclic, Alone, Typed, AllTogether, Locking, NEW th \in Threads, Acts(th)
  PROVE  Locking'
<1> DEFINE s == todo[th]
           r == Tail(todo[th])
           q == todo'[th]
           x == Head(todo[th])
           c == On(th)
<1>o. \A u \in Threads \ {th} : todo'[u] = todo[u]
  BY Others
<1>k. /\ owner \in [Locks -> Threads \cup {Nobody}] /\ forcing \subseteq Processes \X Computed
      /\ todo \in [Threads -> Seq(Steps)] /\ Nested(s)
      /\ \A t \in Traces : owner[Obsels(t)] = th <=> Opens(s, Obsels(t))
      /\ \A d \in Computed : <<Home[th], d>> \in forcing => Unforces(s, d)
      /\ \A t \in Traces : Obsels(t) \in Locks
  BY StepsOf DEF Locking, LocksTyped, Held, Flagged, AllNested, Typed
\* What remains to be shown, for a thread and for the others.
<1>s. ASSUME LocksTyped', Nested(q),
             \A t \in Traces : owner'[Obsels(t)] = th <=> Opens(q, Obsels(t)),
             \A d \in Computed : <<Home[th], d>> \in forcing' => Unforces(q, d),
             \A u \in Threads \ {th} : \A t \in Traces :
               owner'[Obsels(t)] = u <=> owner[Obsels(t)] = u,
             \A u \in Threads \ {th} : \A d \in Computed :
               <<Home[u], d>> \in forcing' => <<Home[u], d>> \in forcing
      PROVE  Locking'
  <2>1. ASSUME NEW u \in Threads
        PROVE  /\ Nested(todo'[u])
               /\ \A t \in Traces : owner'[Obsels(t)] = u <=> Opens(todo'[u], Obsels(t))
               /\ \A d \in Computed : <<Home[u], d>> \in forcing' => Unforces(todo'[u], d)
    <3>1. CASE u = th
      BY <1>s, <3>1
    <3>2. CASE u # th
      <4>1. /\ Nested(todo[u])
            /\ \A t \in Traces : owner[Obsels(t)] = u <=> Opens(todo[u], Obsels(t))
            /\ \A d \in Computed : <<Home[u], d>> \in forcing => Unforces(todo[u], d)
        BY DEF Locking, Held, Flagged, AllNested
      <4>2. todo'[u] = todo[u] /\ u \in Threads \ {th}
        BY <1>o, <3>2
      <4> QED
        BY <1>s, <4>1, <4>2
    <3> QED
      BY <3>1, <3>2
  <2> QED
    BY <1>s, <2>1 DEF Locking, Held, Flagged, AllNested
<1>1. CASE ~Step(th)
  <2>1. /\ owner' = owner /\ forcing' = forcing /\ Nested(q) /\ \A u : ~Opens(q, Obsels(u))
        /\ s = <<>>
    BY <1>1, BeginningFits, Beginning
  <2>2. \A l : ~Opens(s, l) /\ ~Unforces(s, l)
    BY <2>1 DEF Opens, Unforces
  <2>3. LocksTyped'
    BY <1>k, <2>1 DEF LocksTyped
  <2> QED
    BY <1>s, <1>k, <2>1, <2>2, <2>3
<1>2. CASE Step(th)
  <2>h. /\ s # <<>> /\ s \in Seq(Steps) /\ x \in Steps /\ r \in Seq(Steps) /\ x = Do(x.op, c)
    BY <1>2, Shapes, Heads
  <2>t. /\ Fits(x, r) /\ Nested(r)
        /\ \A l : Opens(s, l) <=> x = Unlock(l) \/ (x # Lock(l) /\ Opens(r, l))
        /\ \A d : Unforces(s, d) <=>
             \/ x = Do("unforce", d)
             \/ x # Lock(Obsels(d)) /\ x # Unlock(Obsels(d)) /\ Unforces(r, d)
    BY <1>k, <2>h, Taken
  <2>n. Nobody \notin Threads /\ th # Nobody
    BY NobodyAssumption
  <2>m. Home \in [Threads -> Processes]
    BY HomeAssumption
  <2>p. /\ Pops(th) => q = r
        /\ \A w : Then(th, w) => q = w \o r
        /\ Raise(th) => q = <<>>
    BY <1>k DEF Pops, Then, Raise
  <2>w. /\ x.op = "lock" => x = Lock(c) /\ c \in Locks
        /\ x.op = "unlock" => x = Unlock(c) /\ c \in Locks
        /\ x.op \in {"force", "unforce", "check", "describe"} => c \in Computed /\ c \in Traces
        /\ x.op = "refresh" => c \in Traces
    BY <2>h, StepTypes DEF Lock, Unlock, On, ComputedOps, Traces
  <2> HIDE DEF s, r, q, x, c
  <2>1. CASE x.op \in {"lock", "deletable"} /\ Raise(th)
    <3>1. /\ owner' = [l \in Locks |-> IF owner[l] = th THEN Nobody ELSE owner[l]]
          /\ forcing' = {f \in forcing : owner[Obsels(f[2])] # th} /\ q = <<>>
      BY <2>1, <2>p DEF Raise
    <3>2. Nested(q) /\ \A l : ~Opens(q, l)
      BY <3>1 DEF Nested, Opens
    <3>3. LocksTyped'
      BY <1>k, <3>1 DEF LocksTyped
    <3>4. \A t \in Traces : owner'[Obsels(t)] # th
      BY <1>k, <2>n, <3>1
    <3>5. \A u \in Threads \ {th} : \A t \in Traces : owner'[Obsels(t)] = u <=> owner[Obsels(t)] = u
      BY <1>k, <2>n, <3>1
    <3>6. \A d \in Computed : <<Home[th], d>> \notin forcing'
      <4> SUFFICES ASSUME NEW d \in Computed, <<Home[th], d>> \in forcing' PROVE FALSE
        OBVIOUS
      <4>1. <<Home[th], d>> \in forcing /\ owner[Obsels(d)] # th /\ d \in Traces
        BY <3>1 DEF Traces
      <4>2. Opens(s, Obsels(d))
        BY <1>k, <2>h, <4>1, UnforcesOpens
      <4> QED
        BY <1>k, <4>1, <4>2
    <3> QED
      BY <1>s, <3>1, <3>2, <3>3, <3>4, <3>5, <3>6
  <2>2. CASE /\ x.op = "lock" /\ Pops(th) /\ owner[c] = Nobody
             /\ owner' = [owner EXCEPT ![c] = th] /\ forcing' = forcing
    <3>1. LocksTyped' /\ q = r
      BY <1>k, <2>2, <2>p DEF LocksTyped
    <3>2. \A t \in Traces : owner'[Obsels(t)] = IF c = Obsels(t) THEN th ELSE owner[Obsels(t)]
      BY <1>k, <2>2
    <3>3. \A t \in Traces : c = Obsels(t) => Opens(r, Obsels(t))
      BY <2>2, <2>t, <2>w DEF Fits
    <3>4. \A t \in Traces : c # Obsels(t) => (Opens(s, Obsels(t)) <=> Opens(r, Obsels(t)))
      BY <2>2, <2>t, <2>w, Names
    <3>5. \A t \in Traces : owner'[Obsels(t)] = th <=> Opens(q, Obsels(t))
      BY <1>k, <3>1, <3>2, <3>3, <3>4
    <3>6. \A u \in Threads \ {th} : \A t \in Traces : owner'[Obsels(t)] = u <=> owner[Obsels(t)] = u
      BY <2>2, <2>n, <3>2
    <3>7. \A d \in Computed : <<Home[th], d>> \in forcing' => Unforces(q, d)
      BY <1>k, <2>2, <2>t, <3>1, Names
    <3> QED
      BY <1>s, <2>2, <2>t, <3>1, <3>5, <3>6, <3>7
  <2>3. CASE /\ x.op = "unlock" /\ Pops(th)
             /\ owner' = [owner EXCEPT ![c] = Nobody] /\ forcing' = forcing
    <3>1. LocksTyped' /\ q = r
      BY <1>k, <2>3, <2>p DEF LocksTyped
    <3>2. \A t \in Traces : owner'[Obsels(t)] = IF c = Obsels(t) THEN Nobody ELSE owner[Obsels(t)]
      BY <1>k, <2>3
    <3>3. \A t \in Traces : c = Obsels(t) => ~Opens(r, Obsels(t)) /\ Opens(s, Obsels(t))
      BY <2>3, <2>t, <2>w DEF Fits
    <3>4. \A t \in Traces : c # Obsels(t) => (Opens(s, Obsels(t)) <=> Opens(r, Obsels(t)))
      BY <2>3, <2>t, <2>w, Names
    <3>5. \A t \in Traces : owner'[Obsels(t)] = th <=> Opens(q, Obsels(t))
      BY <1>k, <2>n, <3>1, <3>2, <3>3, <3>4
    <3>6. \A u \in Threads \ {th} : \A t \in Traces : owner'[Obsels(t)] = u <=> owner[Obsels(t)] = u
      BY <1>k, <2>n, <3>2, <3>3
    <3>7. \A d \in Computed : <<Home[th], d>> \in forcing' => Unforces(q, d)
      BY <1>k, <2>3, <2>t, <3>1, Names
    <3> QED
      BY <1>s, <2>3, <2>t, <3>1, <3>5, <3>6, <3>7
  <2>4. CASE /\ x.op = "force" /\ Pops(th)
             /\ owner' = owner /\ forcing' = forcing \cup {<<Home[th], c>>}
    <3>1. LocksTyped' /\ q = r
      BY <1>k, <2>4, <2>p, <2>w, <2>m DEF LocksTyped
    <3>2. \A l : (x # Lock(l)) /\ (x # Unlock(l))
      BY <2>4, Names
    <3>3. \A t \in Traces : owner'[Obsels(t)] = th <=> Opens(q, Obsels(t))
      BY <1>k, <2>4, <2>t, <3>1, <3>2
    <3>4. \A d \in Computed : <<Home[th], d>> \in forcing' => Unforces(q, d)
      <4> TAKE d \in Computed
      <4> HAVE <<Home[th], d>> \in forcing'
      <4>1. CASE d = c
        <5>1. x.on = c
          BY <2>h, Names
        <5> QED
          BY <2>4, <2>t, <3>1, <4>1, <5>1 DEF Fits
      <4>2. CASE d # c
        <5>1. <<Home[th], d>> \in forcing
          BY <2>4, <4>2
        <5>2. x # Do("unforce", d)
          BY <2>4, Names
        <5> QED
          BY <1>k, <2>t, <3>1, <5>1, <5>2
      <4> QED
        BY <4>1, <4>2
    <3>5. \A u \in Threads \ {th} : \A d \in Computed :
            <<Home[u], d>> \in forcing' => <<Home[u], d>> \in forcing
      BY <2>4 DEF Alone
    <3> QED
      BY <1>s, <2>4, <2>t, <3>1, <3>3, <3>4, <3>5
  <2>5. CASE /\ x.op = "unforce" /\ Pops(th)
             /\ owner' = owner /\ forcing' = forcing \ {<<Home[th], c>>}
    <3>1. LocksTyped' /\ q = r
      BY <1>k, <2>5, <2>p DEF LocksTyped
    <3>2. \A l : (x # Lock(l)) /\ (x # Unlock(l))
      BY <2>5, Names
    <3>3. \A t \in Traces : owner'[Obsels(t)] = th <=> Opens(q, Obsels(t))
      BY <1>k, <2>5, <2>t, <3>1, <3>2
    <3>4. \A d \in Computed : <<Home[th], d>> \in forcing' => Unforces(q, d)
      <4> TAKE d \in Computed
      <4> HAVE <<Home[th], d>> \in forcing'
      <4>1. d # c /\ <<Home[th], d>> \in forcing
        BY <2>5
      <4>2. x # Do("unforce", d)
        BY <2>h, <4>1, Names
      <4> QED
        BY <1>k, <2>t, <3>1, <4>1, <4>2
    <3> QED
      BY <1>s, <2>5, <2>t, <3>1, <3>3, <3>4
  <2>6. ASSUME owner' = owner, forcing' = forcing, Nested(q),
               \A u : Opens(q, Obsels(u)) <=> Opens(s, Obsels(u)),
               \A d \in Computed : <<Home[th], d>> \in forcing => Unforces(q, d)
        PROVE  Locking'
    <3>1. LocksTyped'
      BY <1>k, <2>6 DEF LocksTyped
    <3> QED
      BY <1>k, <1>s, <2>6, <3>1
  <2>7. CASE x.op = "refresh" /\ Then(th, RefreshObsels(th, c)) /\ owner' = owner /\ forcing' = forcing
    <3>1. x.on = c /\ \A l : x # Lock(l) /\ x # Unlock(l)
      BY <2>h, <2>7, Names
    <3>2. Above(c, r) /\ (owner[Obsels(c)] = th <=> Opens(r, Obsels(c)))
      BY <1>k, <2>7, <2>t, <2>w, <3>1 DEF Fits
    <3>3. q = RefreshObsels(th, c) \o r
      BY <2>7, <2>p
    <3>4. \A d \in Computed : <<Home[th], d>> \in forcing => Unforces(r, d)
      <4>1. \A d : x # Do("unforce", d)
        BY <2>7, Names
      <4> QED
        BY <1>k, <2>t, <4>1
    <3>5. Nested(q) /\ \A u : Opens(q, Obsels(u)) <=> Opens(r, Obsels(u))
      BY <2>h, <2>t, <2>w, <2>7, <3>2, <3>3, RefreshFits
    <3>6. \A d \in Computed : <<Home[th], d>> \in forcing /\ Unforces(r, d) => Unforces(q, d)
      BY <2>h, <2>t, <2>w, <2>7, <3>2, <3>3, RefreshFits
    <3> QED
      BY <2>t, <2>6, <2>7, <3>1, <3>4, <3>5, <3>6
  <2>8. CASE /\ x.op \in {"check", "describe"} /\ owner' = owner /\ forcing' = forcing
             /\ Then(th, IF x.op = "check" THEN Recompute(c) ELSE Describe(c))
    <3>1. x.on = c /\ \A l : x # Lock(l) /\ x # Unlock(l) /\ x # Do("unforce", l)
      BY <2>h, <2>8, Names
    <3>2. \A d \in Computed : <<Home[th], d>> \in forcing => Unforces(r, d)
      BY <1>k, <2>t, <3>1
    <3>3. /\ Nested(q) /\ \A u : Opens(q, Obsels(u)) <=> Opens(r, Obsels(u))
          /\ \A d : Unforces(r, d) => Unforces(q, d)
      <4>1. CASE x.op = "check"
        <5>1. Opens(r, Obsels(c)) /\ q = Recompute(c) \o r
          BY <2>8, <2>p, <2>t, <3>1, <4>1 DEF Fits, Guarded
        <5> QED
          BY <2>h, <2>t, <2>w, <2>8, <5>1, RecomputeFits
      <4>2. CASE x.op # "check"
        <5>1. q = Describe(c) \o r
          BY <2>8, <2>p, <4>2
        <5> QED
          BY <2>h, <2>t, <2>w, <2>8, <5>1, DescribeFits
      <4> QED
        BY <4>1, <4>2
    <3> QED
      BY <2>t, <2>6, <2>8, <3>1, <3>2, <3>3
  <2>9. CASE /\ x.op \notin {"lock", "unlock", "force", "unforce", "refresh"} /\ Pops(th)
             /\ owner' = owner /\ forcing' = forcing
    <3>1. \A l : x # Lock(l) /\ x # Unlock(l) /\ x # Do("unforce", l)
      BY <2>9, Names
    <3> QED
      BY <1>k, <2>t, <2>6, <2>9, <2>p, <3>1
  <2> QED
    BY <1>2, <2>1, <2>2, <2>3, <2>4, <2>5, <2>7, <2>8, <2>9, LockMoves DEF x, c
<1> QED
  BY <1>1, <1>2

----------------------------------------------------------------------------
(* Reads: contents and marks *)

ReadsTyped == goal \in [Threads -> Nat] /\ acked \in [Traces -> Nat]

\* A computed trace is behind its source, what has been acknowledged is behind
\* the content, and the deletion of a trace does not begin before the deletions
\* of those computed from it.
Flow ==
  /\ \A c \in Computed : content[c] <= content[Source[c]]
  /\ \A t \in Traces : acked[t] <= content[t]
  /\ \A th \in Threads : goal[th] <= acked[Stored]
  /\ \A c \in Computed \ Former : Source[c] \notin Former

\* A trace is deleted once its source has been told.
Deleting ==
  \A th \in Threads, c \in Computed :
    Has(todo[th], Do("delete", c)) =>
      \/ c \in unlisted
      \/ Head(todo[th]) = Do("deletable", c)
      \/ /\ Head(todo[th]) = Lock(Base) /\ Tail(todo[th]) # <<>>
         /\ Head(Tail(todo[th])) = Do("deletable", c)

\* A trace that is behind what its source has acknowledged is marked, or being
\* computed; one that has changed is about to acknowledge it.
AckedMarked ==
  \A c \in Computed \ Former :
    \/ content[c] >= acked[Source[c]] \/ c \in dirty \/ excused
    \/ \E th \in Threads : Computing(todo[th], c)
Settled == \A c \in Computed : content[c] = acked[c] \/ \E th \in Threads : Acking(todo[th], c)
Flowing == ReadsTyped /\ Flow /\ Deleting /\ AckedMarked /\ Settled

LEMMA DataMoves ==
  ASSUME Typed, AllTogether, NEW th \in Threads, Step(th)
  PROVE  LET op == Head(todo[th]).op
             c == On(th)
         IN  /\ op = "ack" => acked' = [acked EXCEPT ![c] = content[c]]
             /\ op # "ack" => acked' = acked
             /\ op = "delete" => gone' = gone \cup {c} /\ Pops(th)
             /\ op # "delete" => gone' = gone
             /\ op = "deletable" =>
                  \/ Raise(th) /\ unlisted' = unlisted
                  \/ Pops(th) /\ goal' = goal /\ Dependents(c) = {} /\ unlisted' = unlisted \cup {c}
             /\ op # "deletable" => unlisted' = unlisted
             /\ op = "check" => goal' = goal /\ IF c \in dirty THEN Then(th, Recompute(c)) ELSE Pops(th)
             /\ op = "refresh" => goal' = goal /\ Then(th, RefreshObsels(th, c))
             /\ op = "describe" => goal' = goal /\ (Pops(th) \/ Then(th, Describe(c)))
             /\ op = "serve" => goal' = [goal EXCEPT ![th] = 0]
             /\ op = "lock" => Raise(th) \/ (Pops(th) /\ goal' = goal)
             /\ op \notin {"deletable", "lock", "check", "refresh", "describe", "serve"} =>
                  Pops(th) /\ goal' = goal
<1>t. todo[th] # <<>>
  BY Shapes
<1>n. Then(th, <<>>) => Pops(th)
  BY <1>t, ThenNothing
<1>1. CASE Acquire(th)
  BY <1>1, <1>n DEF Acquire, NextIs, data
<1>2. CASE TimeOut(th)
  BY <1>2 DEF TimeOut, NextIs, data
<1>3. CASE Release(th) \/ Serve(th) \/ Note(th)
  BY <1>3, <1>n DEF Release, Serve, Note, NextIs, data
<1>4. CASE Call(th)
  BY <1>4, <1>n DEF Call, NextIs, data
<1>5. CASE Compute(th)
  BY <1>5, <1>n DEF Compute, NextIs
<1>6. CASE WriteStats(th)
  BY <1>6, <1>n DEF WriteStats, NextIs
<1>7. CASE Destroy(th)
  BY <1>7, <1>n DEF Destroy, NextIs, MayDelete, ToldToSource
<1> QED
  BY <1>1, <1>2, <1>3, <1>4, <1>5, <1>6, <1>7 DEF Step

\* The operations that are not reads have no goal.
LEMMA BeginningGoals ==
  ASSUME Typed, NEW th \in Threads, Acts(th), ~Step(th)
  PROVE  /\ acked' = acked
         /\ \/ goal' = goal
            \/ \E c \in Computed : /\ todo'[th] = <<Do("refresh", c), Do("serve", c)>>
                                   /\ goal' = [goal EXCEPT ![th] = acked[Stored]]
BY DEF Acts, Post, Work, Get, GetStats, Delete, Begin, data, Typed

\* Whoever computes a trace, or is to acknowledge it, holds its obsels.
LEMMA HoldsWhatItComputes ==
  ASSUME Typed, Locking, NEW th \in Threads, NEW c \in Computed,
         Computing(todo[th], c) \/ Acking(todo[th], c)
  PROVE  owner[Obsels(c)] = th
<1> DEFINE s == todo[th]
           l == Obsels(c)
<1>0. s \in Seq(Steps) /\ Nested(s) /\ Len(s) \in Nat /\ c \in Traces
  BY LenProperties DEF Typed, Locking, AllNested, Traces
<1> HIDE DEF s
<1>1. CASE Computing(s, c)
  <2>1. PICK k \in 1 .. Len(s) : s[k] = Do("copy", c) /\ \A j \in 1 .. k - 1 : Harmless(s[j])
    BY <1>1 DEF Computing
  <2> DEFINE r == Rest(s, k)
  <2>2. Opens(r, l)
    BY <1>0, <2>1, Names DEF Nested, Fits, Guarded
  <2>3. /\ Len(r) = IF k + 1 <= Len(s) THEN Len(s) - (k + 1) + 1 ELSE 0
        /\ \A i \in 1 .. Len(s) - (k + 1) + 1 : r[i] = s[k + 1 + i - 1]
    <3>1. \A i \in k + 1 .. Len(s) : s[i] \in Steps
      BY <1>0, ElementOfSeq
    <3> QED
      BY <1>0, <3>1, SubSeqProperties DEF Rest
  <2> HIDE DEF r
  <2>4. PICK j \in 1 .. Len(r) : r[j] = Unlock(l) /\ \A i \in 1 .. j - 1 : r[i] # Lock(l)
    BY <2>2 DEF Opens
  <2>5. k + j \in 1 .. Len(s) /\ s[k + j] = Unlock(l) /\ Len(r) = Len(s) - k /\ j \in Nat
    BY <1>0, <2>3, <2>4
  <2>6. ASSUME NEW i \in 1 .. (k + j) - 1 PROVE s[i] # Lock(l)
    <3>1. CASE i < k
      <4>1. Harmless(s[i])
        BY <1>0, <2>1, <3>1
      <4>2. Lock(l) # Lock(Base) /\ Lock(l).op = "lock"
        BY Names
      <4> QED
        BY <4>1, <4>2 DEF Harmless
    <3>2. CASE i = k
      BY <2>1, <3>2, Names
    <3>3. CASE i > k
      <4>1. i - k \in 1 .. j - 1 /\ i - k \in 1 .. Len(s) - (k + 1) + 1 /\ k + 1 + (i - k) - 1 = i
        BY <1>0, <2>4, <2>5, <3>3
      <4>2. r[i - k] = s[i]
        BY <2>3, <4>1
      <4> QED
        BY <2>4, <4>1, <4>2
    <3> QED
      BY <1>0, <3>1, <3>2, <3>3
  <2>7. Opens(s, l)
    BY <2>5, <2>6 DEF Opens
  <2> QED
    BY <1>0, <2>7 DEF Locking, Held, s
<1>2. CASE Acking(s, c)
  <2>1. s # <<>> /\ Head(s) = Do("ack", c)
    BY <1>2 DEF Acking
  <2>2. Fits(Head(s), Tail(s)) /\ (Opens(s, l) <=> Head(s) = Unlock(l) \/ (Head(s) # Lock(l) /\ Opens(Tail(s), l)))
    BY <1>0, <2>1, Taken
  <2>3. Opens(Tail(s), l)
    BY <2>1, <2>2, Names DEF Fits, Guarded
  <2>4. Opens(s, l)
    BY <2>1, <2>2, <2>3, Names
  <2> QED
    BY <1>0, <2>4 DEF Locking, Held, s
<1> QED
  BY <1>1, <1>2 DEF s

\* Contents, and what has been acknowledged of them, only grow.
LEMMA Grows ==
  ASSUME Typed, AllTogether, ReadsTyped, Flow, NEW th \in Threads, Acts(th)
  PROVE  /\ \A t \in Traces : /\ content[t] <= content'[t] /\ acked[t] <= acked'[t]
                              /\ content[t] \in Nat /\ content'[t] \in Nat
                              /\ acked[t] \in Nat /\ acked'[t] \in Nat
         /\ Former \subseteq Former' /\ (excused => excused')
         /\ goal' \in [Threads -> Nat] /\ acked' \in [Traces -> Nat]
         /\ \A u \in Threads \ {th} : goal'[u] = goal[u]
         /\ goal'[th] \in {0, goal[th], acked[Stored]}
<1> DEFINE op == Head(todo[th]).op
           on == On(th)
<1>0. /\ content \in [Traces -> Nat] /\ content' \in [Traces -> Nat] /\ acked \in [Traces -> Nat]
      /\ goal \in [Threads -> Nat] /\ Stored \in Traces
  BY NextTyped DEF Typed, ReadsTyped, Traces
<1>f. /\ \A c \in Computed : content[c] <= content[Source[c]] /\ c \in Traces /\ Source[c] \in Traces
      /\ \A t \in Traces : acked[t] <= content[t]
  BY ChainAssumption DEF Flow, Traces
<1>1. CASE ~Step(th)
  <2>1. content' = content /\ Former' = Former /\ excused' = excused /\ acked' = acked
    BY <1>1, Beginning, BeginningGoals
  <2>2. goal' = goal \/ goal' = [goal EXCEPT ![th] = acked[Stored]]
    BY <1>1, BeginningGoals
  <2>3. goal' \in [Threads -> Nat] /\ (\A u \in Threads \ {th} : goal'[u] = goal[u])
        /\ goal'[th] \in {0, goal[th], acked[Stored]}
    BY <1>0, <2>2
  <2> QED
    BY <1>0, <2>1, <2>3
<1>2. CASE Step(th)
  <2>h. /\ todo[th] # <<>>
        /\ op \in ComputedOps => on \in Computed
        /\ op \in {"refresh", "ack"} => on \in Traces
    BY <1>2, Shapes, Heads, StepTypes DEF On
  <2>1. ASSUME NEW t \in Traces PROVE content[t] <= content'[t]
    <3>1. CASE op = "copy"
      <4>1. content' = [content EXCEPT ![on] = content[Source[on]]] /\ on \in Computed
        BY <1>2, <2>h, <3>1, Effects DEF ComputedOps
      <4>2. content[on] <= content[Source[on]] /\ content[t] \in Nat /\ on \in Traces
        BY <1>0, <1>f, <4>1
      <4>3. content'[t] = IF t = on THEN content[Source[on]] ELSE content[t]
        BY <1>0, <4>1
      <4> QED
        BY <4>2, <4>3
    <3>2. CASE op = "add"
      <4>1. content' = [content EXCEPT ![Stored] = @ + 1]
        BY <1>2, <3>2, Effects
      <4>2. content'[t] = IF t = Stored THEN content[t] + 1 ELSE content[t]
        BY <1>0, <4>1
      <4> QED
        BY <1>0, <4>2
    <3>3. CASE op \notin {"copy", "add"}
      <4>1. content' = content /\ content[t] \in Nat
        BY <1>0, <1>2, <3>3, Effects
      <4> QED
        BY <4>1
    <3> QED
      BY <3>1, <3>2, <3>3
  <2>2. acked' \in [Traces -> Nat] /\ \A t \in Traces : acked[t] <= acked'[t]
    <3>1. CASE op = "ack"
      <4>1. acked' = [acked EXCEPT ![on] = content[on]] /\ on \in Traces
        BY <1>2, <2>h, <3>1, DataMoves
      <4>2. acked' \in [Traces -> Nat] /\ content[on] \in Nat
        BY <1>0, <4>1
      <4>3. ASSUME NEW t \in Traces PROVE acked[t] <= acked'[t]
        <5>1. acked'[t] = IF t = on THEN content[t] ELSE acked[t]
          BY <1>0, <4>1
        <5>2. acked[t] <= content[t] /\ acked[t] \in Nat
          BY <1>0, <1>f
        <5> QED
          BY <5>1, <5>2
      <4> QED
        BY <4>2, <4>3
    <3>2. CASE op # "ack"
      <4>1. acked' = acked
        BY <1>2, <3>2, DataMoves
      <4> QED
        BY <1>0, <4>1
    <3> QED
      BY <3>1, <3>2
  <2>3. goal' = goal \/ goal' = [goal EXCEPT ![th] = 0]
    BY <1>2, DataMoves DEF Raise
  <2>4. goal' \in [Threads -> Nat] /\ (\A u \in Threads \ {th} : goal'[u] = goal[u])
        /\ goal'[th] \in {0, goal[th], acked[Stored]}
    BY <1>0, <2>3
  <2>5. Former \subseteq Former' /\ (excused => excused')
    BY <1>2, Shapes
  <2> QED
    BY <1>0, <2>1, <2>2, <2>4, <2>5
<1> QED
  BY <1>1, <1>2

LEMMA NextFlow ==
  ASSUME Acyclic, Typed, AllTogether, ReadsTyped, Flow, Deleting, NEW th \in Threads, Acts(th)
  PROVE  Flow'
<1> DEFINE op == Head(todo[th]).op
           on == On(th)
<1>g. /\ \A t \in Traces : /\ content[t] <= content'[t] /\ acked[t] <= acked'[t]
                           /\ content[t] \in Nat /\ content'[t] \in Nat
                           /\ acked[t] \in Nat /\ acked'[t] \in Nat
      /\ Former \subseteq Former'
      /\ goal' \in [Threads -> Nat]
      /\ \A u \in Threads \ {th} : goal'[u] = goal[u]
      /\ goal'[th] \in {0, goal[th], acked[Stored]}
  BY Grows
<1>0. /\ content \in [Traces -> Nat] /\ acked \in [Traces -> Nat] /\ goal \in [Threads -> Nat]
      /\ \A c \in Computed : c \in Traces /\ Source[c] \in Traces /\ c # Stored /\ Source[c] # c
  <2>1. \A c \in Computed : Source[c] # c
    <3>1. Depth \in [Traces -> Nat] /\ \A c \in Computed : Depth[Source[c]] < Depth[c]
      BY DepthIs
    <3>2. \A c \in Computed : Depth[c] \in Nat
      BY <3>1 DEF Traces
    <3>3. \A c \in Computed : Source[c] = c => Depth[c] < Depth[c]
      BY <3>1
    <3>4. \A n \in Nat : ~(n < n)
      OBVIOUS
    <3> QED
      BY <3>2, <3>3, <3>4
  <2> QED
    BY <2>1, ChainAssumption DEF Typed, ReadsTyped, Traces
<1>f. /\ \A c \in Computed : content[c] <= content[Source[c]]
      /\ \A t \in Traces : acked[t] <= content[t]
      /\ \A u \in Threads : goal[u] <= acked[Stored]
      /\ \A c \in Computed \ Former : Source[c] \notin Former
  BY DEF Flow
<1>h. Step(th) => /\ todo[th] # <<>> /\ todo[th] \in Seq(Steps) /\ Head(todo[th]) = Do(op, on)
                  /\ op \in ComputedOps => on \in Computed
                  /\ op \in {"refresh", "ack"} => on \in Traces
  BY Shapes, Heads, StepTypes DEF On
<1>1. ASSUME NEW c \in Computed PROVE content'[c] <= content'[Source[c]]
  <2>0. /\ c \in Traces /\ Source[c] \in Traces /\ content[c] <= content[Source[c]]
        /\ content[Source[c]] <= content'[Source[c]]
        /\ content[c] \in Nat /\ content[Source[c]] \in Nat /\ content'[Source[c]] \in Nat
    BY <1>0, <1>f, <1>g
  <2>1. content'[c] = content[c] \/ content'[c] = content[Source[c]]
    <3>1. CASE ~Step(th)
      BY <3>1, Beginning
    <3>2. CASE Step(th)
      <4>1. \/ content' = content
            \/ content' = [content EXCEPT ![on] = content[Source[on]]]
            \/ content' = [content EXCEPT ![Stored] = @ + 1]
        BY <3>2, Effects
      <4> QED
        BY <1>0, <4>1
    <3> QED
      BY <3>1, <3>2
  <2> QED
    BY <2>0, <2>1
<1>2. ASSUME NEW t \in Traces PROVE acked'[t] <= content'[t]
  <2>0. /\ acked[t] <= content[t] /\ content[t] <= content'[t]
        /\ acked[t] \in Nat /\ content[t] \in Nat /\ content'[t] \in Nat
    BY <1>f, <1>g
  <2>1. acked'[t] = acked[t] \/ acked'[t] = content[t]
    <3>1. acked' = acked \/ acked' = [acked EXCEPT ![on] = content[on]]
      BY BeginningGoals, DataMoves
    <3> QED
      BY <1>0, <3>1
  <2> QED
    BY <2>0, <2>1
<1>3. ASSUME NEW u \in Threads PROVE goal'[u] <= acked'[Stored]
  <2>0. /\ goal[u] <= acked[Stored] /\ acked[Stored] <= acked'[Stored]
        /\ goal[u] \in Nat /\ acked[Stored] \in Nat /\ acked'[Stored] \in Nat
    BY <1>0, <1>f, <1>g DEF Traces
  <2>1. goal'[u] \in {0, goal[u], acked[Stored]}
    BY <1>g
  <2> QED
    BY <2>0, <2>1
<1>4. ASSUME NEW c \in Computed \ Former' PROVE Source[c] \notin Former'
  <2>0. c \notin Former /\ Source[c] \notin Former
    BY <1>f, <1>g
  <2>1. CASE Former' = Former
    BY <2>0, <2>1
  <2>2. CASE Step(th) /\ op = "delete"
    <3>1. gone' = gone \cup {on} /\ on \in Computed /\ Head(todo[th]) = Do("delete", on)
          /\ unlisted' = unlisted
      BY <1>h, <2>2, DataMoves DEF ComputedOps
    <3>2. Has(todo[th], Do("delete", on))
      BY <1>h, <2>2, <3>1, Taken
    <3>3. on \in unlisted
      BY <3>1, <3>2, Names DEF Deleting
    <3> QED
      BY <2>0, <3>1, <3>3 DEF Former
  <2>3. CASE Step(th) /\ op = "deletable" /\ Dependents(on) = {} /\ unlisted' = unlisted \cup {on}
    <3>1. gone' = gone
      BY <2>3, DataMoves
    <3>2. Source[c] # on
      BY <2>0, <2>3 DEF Dependents
    <3> QED
      BY <2>0, <2>3, <3>1, <3>2 DEF Former
  <2>4. CASE Step(th) /\ gone' = gone /\ unlisted' = unlisted
    BY <2>1, <2>4 DEF Former
  <2>5. CASE ~Step(th)
    BY <2>1, <2>5, Beginning
  <2> QED
    BY <2>2, <2>3, <2>4, <2>5, DataMoves
<1> QED
  BY <1>1, <1>2, <1>3, <1>4 DEF Flow

LEMMA NextAckedMarked ==
  ASSUME Typed, AllTogether, ReadsTyped, Flow, AckedMarked, NEW th \in Threads, Acts(th)
  PROVE  AckedMarked'
<1> DEFINE op == Head(todo[th]).op
           on == On(th)
<1>g. /\ \A t \in Traces : /\ content[t] <= content'[t]
                           /\ content[t] \in Nat /\ content'[t] \in Nat
                           /\ acked[t] \in Nat /\ acked'[t] \in Nat
      /\ Former \subseteq Former' /\ (excused => excused')
  BY Grows
<1>0. /\ content \in [Traces -> Nat] /\ acked \in [Traces -> Nat]
      /\ \A c \in Computed : c \in Traces /\ Source[c] \in Traces
  BY ChainAssumption DEF Typed, ReadsTyped, Traces
<1>o. \A u \in Threads \ {th} : todo'[u] = todo[u]
  BY Others
<1> SUFFICES ASSUME NEW c \in Computed \ Former', ~excused'
             PROVE  \/ content'[c] >= acked'[Source[c]] \/ c \in dirty'
                    \/ \E u \in Threads : Computing(todo'[u], c)
  BY DEF AckedMarked
<1>c. /\ c \notin Former /\ ~excused
      /\ \/ content[c] >= acked[Source[c]] \/ c \in dirty
         \/ \E u \in Threads : Computing(todo[u], c)
  BY <1>g DEF AckedMarked
<1>1. CASE ~Step(th)
  <2>1. todo[th] = <<>> /\ content' = content /\ dirty' = dirty /\ acked' = acked
    BY <1>1, Beginning, BeginningGoals
  <2>2. \A u \in Threads : Computing(todo[u], c) => todo'[u] = todo[u]
    BY <1>o, <2>1 DEF Computing
  <2> QED
    BY <1>c, <2>1, <2>2
<1>2. CASE Step(th)
  <2>h. todo[th] # <<>> /\ Head(todo[th]) = Do(op, on)
    BY <1>2, Shapes, Heads
  <2>1. CASE content[c] >= acked[Source[c]]
    <3>1. CASE op = "ack" /\ on = Source[c]
      <4>1. dirty' = dirty \cup Dependents(Source[c])
        BY <1>2, <3>1, Effects
      <4> QED
        BY <1>c, <4>1 DEF Dependents
    <3>2. CASE ~(op = "ack" /\ on = Source[c])
      <4>1. acked' = acked \/ (on # Source[c] /\ acked' = [acked EXCEPT ![on] = content[on]])
        BY <1>2, <3>2, DataMoves
      <4>2. acked'[Source[c]] = acked[Source[c]]
        BY <1>0, <4>1
      <4> QED
        BY <1>0, <1>g, <2>1, <4>2
    <3> QED
      BY <3>1, <3>2
  <2>2. CASE c \in dirty
    <3>1. CASE op = "clear" /\ on = c
      <4>1. Computing(todo'[th], c)
        BY <1>2, <3>1, Follows
      <4> QED
        BY <4>1
    <3>2. CASE ~(op = "clear" /\ on = c)
      <4>1. dirty \subseteq dirty' \/ (on # c /\ dirty' = dirty \ {on})
        BY <1>2, <3>2, Effects
      <4> QED
        BY <2>2, <4>1
    <3> QED
      BY <3>1, <3>2
  <2>3. ASSUME NEW u \in Threads, Computing(todo[u], c)
        PROVE  content'[c] >= acked'[Source[c]] \/ Computing(todo'[u], c)
    <3>1. CASE u # th
      BY <1>o, <2>3, <3>1
    <3>2. CASE u = th
      <4>1. CASE Head(todo[th]) = Do("copy", c)
        <5>1. op = "copy" /\ on = c
          BY <2>h, <4>1, Names
        <5>2. content' = [content EXCEPT ![c] = content[Source[c]]] /\ acked' = acked
          BY <1>2, <5>1, Effects, DataMoves
        <5>3. content'[c] = content[Source[c]] /\ acked[Source[c]] <= content[Source[c]]
          BY <1>0, <5>2 DEF Flow
        <5> QED
          BY <1>0, <1>g, <5>2, <5>3
      <4>2. CASE Head(todo[th]) # Do("copy", c)
        BY <1>2, <2>3, <3>2, <4>2, NextComputing
      <4> QED
        BY <4>1, <4>2
    <3> QED
      BY <3>1, <3>2
  <2> QED
    BY <1>c, <2>1, <2>2, <2>3
<1> QED
  BY <1>1, <1>2

LEMMA NextSettled ==
  ASSUME Typed, AllTogether, ReadsTyped, Settled, NEW th \in Threads, Acts(th)
  PROVE  Settled'
<1> DEFINE op == Head(todo[th]).op
           on == On(th)
<1>0. /\ content \in [Traces -> Nat] /\ acked \in [Traces -> Nat]
      /\ \A c \in Computed : c \in Traces /\ c # Stored
  BY ChainAssumption DEF Typed, ReadsTyped, Traces
<1>o. \A u \in Threads \ {th} : todo'[u] = todo[u]
  BY Others
<1> SUFFICES ASSUME NEW c \in Computed
             PROVE  content'[c] = acked'[c] \/ \E u \in Threads : Acking(todo'[u], c)
  BY DEF Settled
<1>c. content[c] = acked[c] \/ \E u \in Threads : Acking(todo[u], c)
  BY DEF Settled
<1>1. CASE ~Step(th)
  <2>1. todo[th] = <<>> /\ content' = content /\ acked' = acked
    BY <1>1, Beginning, BeginningGoals
  <2>2. \A u \in Threads : Acking(todo[u], c) => todo'[u] = todo[u]
    BY <1>o, <2>1 DEF Acking
  <2> QED
    BY <1>c, <2>1, <2>2
<1>2. CASE Step(th)
  <2>h. todo[th] # <<>> /\ Head(todo[th]) = Do(op, on)
    BY <1>2, Shapes, Heads
  <2>1. CASE op = "copy" /\ on = c
    BY <1>2, <2>1, Follows
  <2>2. CASE op = "ack" /\ on = c
    <3>1. acked' = [acked EXCEPT ![c] = content[c]] /\ content' = content
      BY <1>2, <2>2, Effects, DataMoves
    <3> QED
      BY <1>0, <3>1
  <2>3. CASE op \notin {"copy", "ack"} \/ on # c
    <3>1. \/ content' = content
          \/ on # c /\ content' = [content EXCEPT ![on] = content[Source[on]]]
          \/ content' = [content EXCEPT ![Stored] = @ + 1]
      BY <1>2, <2>3, Effects
    <3>2. acked' = acked \/ (on # c /\ acked' = [acked EXCEPT ![on] = content[on]])
      BY <1>2, <2>3, DataMoves
    <3>3. content'[c] = content[c] /\ acked'[c] = acked[c]
      BY <1>0, <3>1, <3>2
    <3>4. ~Acking(todo[th], c)
      BY <2>h, <2>3, Names DEF Acking
    <3> QED
      BY <1>c, <1>o, <3>3, <3>4
  <2> QED
    BY <2>1, <2>2, <2>3
<1> QED
  BY <1>1, <1>2

\* A step brings no copy but that of a check, and no deletion.
LEMMA HasAfter ==
  ASSUME Acyclic, Typed, AllTogether, Locking, NEW th \in Threads, Step(th),
         NEW y, Has(todo'[th], y), y.op \in {"copy", "delete"}
  PROVE  \/ Has(Tail(todo[th]), y)
         \/ Head(todo[th]).op = "check" /\ y = Do("copy", On(th))
<1> DEFINE s == todo[th]
           r == Tail(todo[th])
           q == todo'[th]
           x == Head(todo[th])
           c == On(th)
<1>h. /\ s # <<>> /\ s \in Seq(Steps) /\ x \in Steps /\ r \in Seq(Steps) /\ x = Do(x.op, c)
      /\ Nested(s) /\ Nested(r) /\ Fits(x, r)
  <2>1. s # <<>> /\ s \in Seq(Steps) /\ x \in Steps /\ r \in Seq(Steps) /\ x = Do(x.op, c)
    BY Shapes, Heads
  <2>2. Nested(s)
    BY DEF Locking, AllNested
  <2> QED
    BY <2>1, <2>2, Taken
<1>p. /\ Pops(th) => q = r
      /\ \A w : Then(th, w) => q = w \o r
      /\ Raise(th) => q = <<>>
  BY DEF Pops, Then, Raise, Typed
<1>w. /\ x.op \in {"check", "describe"} => c \in Computed /\ c \in Traces
      /\ x.op = "refresh" => c \in Traces
      /\ x.on = c
  BY <1>h, StepTypes, Names DEF On, ComputedOps, Traces
<1>m. \/ q = r \/ q = <<>>
      \/ x.op = "refresh" /\ q = RefreshObsels(th, c) \o r
      \/ x.op = "check" /\ q = Recompute(c) \o r
      \/ x.op = "describe" /\ q = Describe(c) \o r
  BY <1>p, LockMoves
<1>k. \A t \in Traces : owner[Obsels(t)] = th <=> Opens(s, Obsels(t))
  BY DEF Locking, Held
<1>f. x.op = "refresh" => Above(c, r) /\ (owner[Obsels(c)] = th <=> Opens(r, Obsels(c)))
  <2> HAVE x.op = "refresh"
  <2>1. \A l : x # Lock(l) /\ x # Unlock(l)
    BY Names
  <2>2. \A l : Opens(s, l) <=> x = Unlock(l) \/ (x # Lock(l) /\ Opens(r, l))
    BY <1>h, Taken
  <2> QED
    BY <1>h, <1>k, <1>w, <2>1, <2>2 DEF Fits
<1>g. x.op = "check" => Opens(r, Obsels(c))
  BY <1>h, <1>w DEF Fits, Guarded
<1>y. Has(q, y) /\ y.op \in {"copy", "delete"}
  OBVIOUS
<1> HIDE DEF s, r, q, x, c
<1>0. ~Has(<<>>, y)
  BY DEF Has
<1>1. CASE x.op = "refresh" /\ q = RefreshObsels(th, c) \o r
  <2>1. \A z : Has(q, z) => Has(r, z) \/ z.op \in {"force", "refresh", "check", "unforce", "lock", "unlock"}
    BY <1>h, <1>w, <1>f, <1>1, RefreshFits
  <2> QED
    BY <1>y, <2>1 DEF r
<1>2. CASE x.op = "check" /\ q = Recompute(c) \o r
  <2>1. \A z : Has(q, z) => Has(r, z) \/ z.op \in {"clear", "describe", "ack"} \/ z = Do("copy", c)
    BY <1>h, <1>w, <1>g, <1>2, RecomputeFits
  <2> QED
    BY <1>y, <1>2, <2>1 DEF r, x, c
<1>3. CASE x.op = "describe" /\ q = Describe(c) \o r
  <2>1. \A z : Has(q, z) => Has(r, z) \/ z.op \in {"clearDescription", "lock", "unlock", "described"}
    BY <1>h, <1>w, <1>3, DescribeFits
  <2> QED
    BY <1>y, <2>1 DEF r
<1> QED
  BY <1>y, <1>m, <1>0, <1>1, <1>2, <1>3 DEF r

LEMMA NextDeleting ==
  ASSUME Acyclic, Typed, AllTogether, Locking, Deleting, NEW th \in Threads, Acts(th)
  PROVE  Deleting'
<1> DEFINE op == Head(todo[th]).op
           on == On(th)
<1>o. \A u \in Threads \ {th} : todo'[u] = todo[u]
  BY Others
<1>e. unlisted \subseteq unlisted'
  BY DataMoves, Beginning
<1> SUFFICES ASSUME NEW u \in Threads, NEW c \in Computed, Has(todo'[u], Do("delete", c))
             PROVE  \/ c \in unlisted'
                    \/ Head(todo'[u]) = Do("deletable", c)
                    \/ /\ Head(todo'[u]) = Lock(Base) /\ Tail(todo'[u]) # <<>>
                       /\ Head(Tail(todo'[u])) = Do("deletable", c)
  BY DEF Deleting
<1>1. CASE u # th
  BY <1>o, <1>e, <1>1 DEF Deleting
<1>2. CASE u = th /\ ~Step(th)
  <2>1. /\ todo'[th][1] = Lock(Base) /\ todo'[th][2] = Do("deletable", c) /\ Len(todo'[th]) = 8
        /\ todo'[th] \in Seq(Steps)
    BY <1>2, BeginningFits, Beginning, Names
  <2>2. todo'[th] # <<>>
    BY <2>1
  <2> DEFINE q == todo'[th]
  <2> HIDE DEF q
  <2>3. Head(q) = Lock(Base) /\ Tail(q) # <<>> /\ Head(Tail(q)) = Do("deletable", c)
    <3>1. /\ Head(q) = q[1] /\ Len(Tail(q)) = Len(q) - 1
          /\ Tail(q) # <<>> => Len(Tail(q)) > 0 /\ Head(Tail(q)) = q[2]
          /\ Len(Tail(q)) > 0 => Tail(q) # <<>>
      BY <2>1, <2>2, Unfold DEF q
    <3>2. Len(Tail(q)) > 0
      BY <2>1, <3>1 DEF q
    <3> QED
      BY <2>1, <3>1, <3>2 DEF q
  <2> QED
    BY <1>2, <2>3 DEF q
<1>3. CASE u = th /\ Step(th)
  <2> DEFINE s == todo[th]
             r == Tail(todo[th])
             x == Head(todo[th])
             y == Do("delete", c)
  <2>h. s # <<>> /\ s \in Seq(Steps) /\ x \in Steps /\ r \in Seq(Steps) /\ x = Do(op, on)
    BY <1>3, Shapes, Heads
  <2>1. Has(r, y)
    <3>1. y.op = "delete" /\ \A d : y # Do("copy", d)
      BY Names
    <3> HIDE DEF y
    <3> QED
      BY <1>3, <3>1, HasAfter DEF y
  <2>2. Has(s, y)
    BY <2>h, <2>1, Taken
  <2>3. todo'[th] = r \/ todo'[th] = <<>> \/ op \in {"refresh", "check", "describe"}
    BY <1>3, LockMoves DEF Pops, Raise, Typed
  <2>4. ~Has(<<>>, y)
    BY DEF Has
  <2>5. CASE x = Do("deletable", c)
    <3>1. op = "deletable" /\ on = c
      BY <2>h, <2>5, Names
    <3>2. Raise(th) \/ c \in unlisted'
      BY <1>3, <3>1, DataMoves
    <3>3. Raise(th) => todo'[th] = <<>>
      BY DEF Raise, Typed
    <3> QED
      BY <1>e, <1>3, <2>4, <3>2, <3>3
  <2>6. CASE x = Lock(Base) /\ r # <<>> /\ Head(r) = Do("deletable", c)
    <3>1. op = "lock"
      BY <2>6, Names
    <3>2. todo'[th] = r
      BY <1>3, <2>3, <2>4, <3>1
    <3> QED
      BY <1>3, <2>6, <3>2
  <2>7. \/ c \in unlisted \/ x = Do("deletable", c)
        \/ x = Lock(Base) /\ r # <<>> /\ Head(r) = Do("deletable", c)
    BY <2>2 DEF Deleting
  <2> QED
    BY <1>e, <2>5, <2>6, <2>7
<1> QED
  BY <1>1, <1>2, <1>3

LEMMA NextFlowing ==
  ASSUME Acyclic, Typed, AllTogether, Locking, Flowing, NEW th \in Threads, Acts(th)
  PROVE  Flowing'
<1>1. ReadsTyped'
  BY Grows DEF Flowing, ReadsTyped
<1>2. Flow' /\ Deleting'
  BY NextFlow, NextDeleting DEF Flowing
<1>3. AckedMarked' /\ Settled'
  BY NextAckedMarked, NextSettled DEF Flowing
<1> QED
  BY <1>1, <1>2, <1>3 DEF Flowing

----------------------------------------------------------------------------
(* Reads: what a reader is served *)

\* The reader will find in t what it expects.
Good(th, t) == acked[t] >= goal[th] \/ t \in Former \/ excused

\* What a reader may count on at each point of its refreshes.
Promised(th) ==
  LET x == Head(todo[th])
      c == On(th)
  IN  /\ Chained(todo[th])
      /\ \A d \in Computed : Has(todo[th], Do("copy", d)) => Good(th, Source[d])
      /\ x.op \in {"serve", "unforce"} => Good(th, c)
      /\ \A t \in Computed : x = Unlock(Obsels(t)) => Good(th, t)
      /\ x.op = "check" => Good(th, Source[c])
      /\ x.op = "ack" => content[c] >= goal[th] \/ c \in Former \/ excused
AllPromised == \A th \in Threads : goal[th] # 0 => Promised(th)

ReadInv == IInv /\ Locking /\ Flowing /\ AllPromised

\* A trace that is not marked is as good as its source, for a thread that holds
\* its obsels and is not computing it.
LEMMA CleanIsGood ==
  ASSUME Typed, Locking, Flowing, NEW th \in Threads, NEW c \in Computed \ dirty,
         NextIs(th, "check"), On(th) = c, Head(todo[th]) = Do("check", c), Good(th, Source[c])
  PROVE  Good(th, c)
<1> DEFINE s == todo[th]
<1>0. /\ s \in Seq(Steps) /\ s # <<>> /\ Nested(s) /\ c \in Traces /\ Source[c] \in Traces
      /\ acked[c] \in Nat /\ acked[Source[c]] \in Nat /\ goal[th] \in Nat /\ content[c] \in Nat
  BY ChainAssumption DEF Typed, Locking, AllNested, Flowing, ReadsTyped, NextIs, Traces
<1>1. owner[Obsels(c)] = th
  <2>1. Fits(Head(s), Tail(s))
    BY <1>0, Taken
  <2>2. Opens(Tail(s), Obsels(c))
    BY <2>1, Names DEF Fits, Guarded
  <2>3. Opens(s, Obsels(c))
    BY <1>0, <2>2, Taken, Names
  <2> QED
    BY <1>0, <2>3 DEF Locking, Held
<1>2. ~Acking(s, c) /\ ~Computing(s, c)
  <2>1. ~Acking(s, c)
    BY Names DEF Acking
  <2>2. Head(s) # Do("copy", c)
    BY Names
  <2>3. ~Harmless(Head(s))
    BY Names DEF Harmless
  <2> QED
    BY <1>0, <2>1, <2>2, <2>3, ComputingTail
<1>3. \A u \in Threads : ~Acking(todo[u], c) /\ ~Computing(todo[u], c)
  BY <1>1, <1>2, HoldsWhatItComputes
<1>4. content[c] = acked[c]
  BY <1>3 DEF Flowing, Settled
<1>5. c \in Former \/ content[c] >= acked[Source[c]] \/ excused
  BY <1>3 DEF Flowing, AckedMarked
<1>6. Source[c] \in Former => c \in Former
  BY DEF Flowing, Flow
<1> QED
  BY <1>0, <1>4, <1>5, <1>6 DEF Good

\* What is good for a reader stays so.
LEMMA GoodStays ==
  ASSUME Typed, AllTogether, Flowing, NEW th \in Threads, Acts(th), NEW u \in Threads,
         goal'[u] = goal[u]
  PROVE  \A t \in Traces : Good(u, t) => Good(u, t)'
<1> SUFFICES ASSUME NEW t \in Traces, Good(u, t) PROVE Good(u, t)'
  OBVIOUS
<1>1. /\ acked[t] <= acked'[t] /\ acked[t] \in Nat /\ acked'[t] \in Nat
      /\ Former \subseteq Former' /\ (excused => excused') /\ goal[u] \in Nat
  BY Grows DEF Flowing, ReadsTyped
<1>2. acked[t] >= goal[u] => acked'[t] >= goal[u]
  BY <1>1
<1> QED
  BY <1>1, <1>2 DEF Good

LEMMA PromisedOther ==
  ASSUME Typed, AllTogether, Flowing, NEW th \in Threads, Acts(th), NEW u \in Threads \ {th},
         goal[u] # 0, Promised(u)
  PROVE  Promised(u)'
<1>1. todo'[u] = todo[u] /\ goal'[u] = goal[u] /\ u \in Threads
  BY Others, Grows DEF Flowing
<1>2. \A t \in Traces : Good(u, t) => Good(u, t)'
  BY <1>1, GoodStays
<1>3. \A t \in Traces : /\ content[t] <= content'[t] /\ content[t] \in Nat /\ content'[t] \in Nat
                        /\ Former \subseteq Former' /\ (excused => excused')
  BY Grows DEF Flowing
<1>4. goal[u] \in Nat /\ \A d \in Computed : d \in Traces /\ Source[d] \in Traces
  BY ChainAssumption DEF Flowing, ReadsTyped, Traces
<1> PICK x, c : x = Head(todo[u]) /\ c = On(u)
  OBVIOUS
<1>5. /\ x.op \in {"serve", "unforce", "check"} => c \in Computed
      /\ x.op = "ack" => c \in Traces
  <2>1. todo[u] # <<>>
    BY DEF Promised, Chained
  <2> QED
    BY <2>1, Heads, StepTypes DEF On, ComputedOps
<1>6. x.op = "ack" /\ content[c] >= goal[u] => content'[c] >= goal[u]
  <2> HAVE x.op = "ack" /\ content[c] >= goal[u]
  <2>1. content[c] <= content'[c] /\ content[c] \in Nat /\ content'[c] \in Nat
    BY <1>3, <1>5
  <2> QED
    BY <1>4, <2>1
<1>7. Head(todo'[u]) = x /\ On(u)' = c
  BY <1>1 DEF On
<1>8. Former \subseteq Former' /\ (excused => excused')
  BY Grows DEF Flowing
<1>9. /\ Chained(todo[u])
      /\ \A d \in Computed : Has(todo[u], Do("copy", d)) => Good(u, Source[d])
      /\ x.op \in {"serve", "unforce"} => Good(u, c)
      /\ \A t \in Computed : x = Unlock(Obsels(t)) => Good(u, t)
      /\ x.op = "check" => Good(u, Source[c])
      /\ x.op = "ack" => content[c] >= goal[u] \/ c \in Former \/ excused
  BY DEF Promised
<1>10. /\ Chained(todo'[u])
       /\ \A d \in Computed : Has(todo'[u], Do("copy", d)) => Good(u, Source[d])'
       /\ x.op \in {"serve", "unforce"} => Good(u, c)'
       /\ \A t \in Computed : x = Unlock(Obsels(t)) => Good(u, t)'
       /\ x.op = "check" => Good(u, Source[c])'
  <2>1. /\ x.op \in {"serve", "unforce"} => c \in Traces
        /\ x.op = "check" => Source[c] \in Traces
    BY <1>4, <1>5
  <2>2. \A d \in Computed : Has(todo'[u], Do("copy", d)) => Good(u, Source[d])'
    BY <1>1, <1>2, <1>4, <1>9
  <2> QED
    BY <1>1, <1>2, <1>4, <1>9, <2>1, <2>2
<1>11. x.op = "ack" => content'[c] >= goal'[u] \/ c \in Former' \/ excused'
  BY <1>1, <1>6, <1>8, <1>9
<1> QED
  BY <1>7, <1>10, <1>11 DEF Promised

LEMMA Led ==
  ASSUME NEW x, NEW y, Leads(x, y)
  PROVE  /\ y.op = "ack" => x.op = "copy" /\ x.on = y.on
         /\ y.op = "unforce" => x.op \in {"check", "ack"} /\ x.on = y.on
BY Names DEF Leads

\* The next step may count on what the one that is taken leaves.
LEMMA PromisedNext ==
  ASSUME Typed, AllTogether, Flowing, Flow', NEW th \in Threads, Step(th), Promised(th),
         goal'[th] = goal[th], NEW r, NEW x, NEW c,
         r = Tail(todo[th]), x = Head(todo[th]), c = On(th), todo'[th] = r, x.op # "serve",
         x.op \in {"refresh", "unforce", "check", "ack"} => Good(th, c)'
  PROVE  Promised(th)'
<1>h. /\ todo[th] # <<>> /\ todo[th] \in Seq(Steps) /\ x \in Steps /\ r \in Seq(Steps)
      /\ x = Do(x.op, c)
  BY Shapes, Heads
<1>x. x.on = c
  BY <1>h, Names
<1>t. \A t \in Traces : Good(th, t) => Good(th, t)'
  BY GoodStays DEF Acts
<1>p. /\ Chained(todo[th])
      /\ \A d \in Computed : Has(todo[th], Do("copy", d)) => Good(th, Source[d])
      /\ \A t \in Computed : x = Unlock(Obsels(t)) => Good(th, t)
  BY DEF Promised
<1>s. \A d \in Computed : d \in Traces /\ Source[d] \in Traces
  BY ChainAssumption DEF Traces
<1>u. \A t \in Traces : x = Unlock(Obsels(t)) => Good(th, t)'
  <2> SUFFICES ASSUME NEW t \in Traces, x = Unlock(Obsels(t)) PROVE Good(th, t)'
    OBVIOUS
  <2>1. CASE t = Stored
    <3>1. goal'[th] \in Nat /\ goal'[th] <= acked'[Stored] /\ acked'[Stored] \in Nat
      BY Grows DEF Acts, Flow, Flowing, Traces
    <3> QED
      BY <2>1, <3>1 DEF Good
  <2>2. CASE t # Stored
    BY <1>t, <1>p, <2>2 DEF Traces
  <2> QED
    BY <2>1, <2>2
<1>1. Links(x, r) /\ (r = <<>> \/ Chained(r))
  BY <1>h, <1>p, Taken
<1>2. r # <<>> /\ Chained(r) /\ Leads(x, Head(r))
  BY <1>1 DEF Links
<1>3. ASSUME NEW d \in Computed, Has(r, Do("copy", d)) PROVE Good(th, Source[d])'
  <2>1. Has(todo[th], Do("copy", d))
    BY <1>h, <1>3, Taken
  <2> QED
    BY <1>t, <1>p, <1>s, <2>1
<1> PICK y, e : y = Head(r) /\ e = y.on
  OBVIOUS
<1>4. Head(todo'[th]) = y /\ On(th)' = e /\ y \in Steps /\ Leads(x, y)
  <2>1. y \in Steps
    BY <1>h, <1>2, HeadTailProperties
  <2> QED
    BY <1>2, <2>1 DEF On
\* Whatever leads to a step that counts on t leaves it good.
<1>5. ASSUME NEW t \in Traces, x \in Ends(t) PROVE Good(th, t)'
  <2>1. x.op \in {"refresh", "unforce"} => c = x.on
    BY <1>h, Names
  <2>2. x = Do("refresh", t) \/ x = Do("unforce", t) => Good(th, t)'
    <3> HAVE x = Do("refresh", t) \/ x = Do("unforce", t)
    <3>1. x.op \in {"refresh", "unforce"} /\ x.on = t
      BY Names
    <3> QED
      BY <2>1, <3>1
  <2> QED
    BY <1>5, <1>u, <2>2 DEF Ends
<1>6. y.op = "serve" => Good(th, e)'
  <2> HAVE y.op = "serve"
  <2>1. e \in Traces /\ x \in Ends(e)
    BY <1>4, StepTypes DEF Leads, ComputedOps, Traces
  <2> QED
    BY <1>5, <2>1
<1>7. y.op = "check" => Good(th, Source[e])'
  <2> HAVE y.op = "check"
  <2>1. Source[e] \in Traces /\ x \in Ends(Source[e])
    BY <1>4, <1>s, StepTypes DEF Leads, ComputedOps
  <2> QED
    BY <1>5, <2>1
<1>8. y.op = "unforce" => Good(th, e)'
  <2> HAVE y.op = "unforce"
  <2>1. x.op \in {"check", "ack"} /\ x.on = e
    BY <1>4, Led
  <2> QED
    BY <1>x, <2>1
<1>9. \A t \in Computed : y = Unlock(Obsels(t)) => Good(th, t)'
  <2> SUFFICES ASSUME NEW t \in Computed, y = Unlock(Obsels(t)) PROVE Good(th, t)'
    OBVIOUS
  <2>1. x = Do("refresh", t) \/ x = Do("unforce", t)
    BY <1>4 DEF Leads
  <2> QED
    BY <1>5, <1>s, <2>1 DEF Ends
<1>10. y.op = "ack" => content'[e] >= goal'[th] \/ e \in Former' \/ excused'
  <2> HAVE y.op = "ack"
  <2>1. x = Do("copy", e)
    BY <1>4 DEF Leads
  <2>2. x.op = "copy" /\ c = e /\ e \in Computed
    <3>1. x.op = "copy" /\ x.on = e
      BY <1>4, Led
    <3> QED
      BY <1>h, <1>x, <3>1, StepTypes DEF ComputedOps
  <2>c. /\ Head(todo[th]).op = "copy" => content' = [content EXCEPT ![On(th)] = content[Source[On(th)]]]
        /\ Head(todo[th]).op = "copy" /\ On(th) = e
    BY <2>2, Effects
  <2>3. content' = [content EXCEPT ![e] = content[Source[e]]]
    BY <2>c
  <2>4. content'[e] = content[Source[e]]
    BY <1>s, <2>2, <2>3 DEF Typed
  <2>5. Good(th, Source[e])
    <3>1. Has(todo[th], Do("copy", e))
      BY <1>h, <2>1, Taken
    <3> QED
      BY <1>p, <2>2, <3>1
  <2>6. Source[e] \in Former => e \in Former
    BY <2>2 DEF Flowing, Flow
  <2>7. /\ acked[Source[e]] <= content[Source[e]] /\ acked[Source[e]] \in Nat
        /\ content[Source[e]] \in Nat /\ goal[th] \in Nat
    BY <1>s, <2>2 DEF Flowing, Flow, ReadsTyped, Typed
  <2>8. Former \subseteq Former' /\ (excused => excused')
    BY Shapes
  <2>9. acked[Source[e]] >= goal[th] => content'[e] >= goal'[th]
    <3> HAVE acked[Source[e]] >= goal[th]
    <3>1. \A i, j, k \in Nat : i >= j /\ i <= k => k >= j
      OBVIOUS
    <3>2. content[Source[e]] >= goal[th]
      BY <2>7, <3>1
    <3> QED
      BY <2>4, <3>2
  <2> QED
    BY <2>5, <2>6, <2>8, <2>9 DEF Good
<1> QED
  BY <1>2, <1>3, <1>4, <1>6, <1>7, <1>8, <1>9, <1>10 DEF Promised

LEMMA PromisedOwn ==
  ASSUME Acyclic, Typed, AllTogether, Locking, Flowing, Flow', NEW th \in Threads, Step(th),
         goal[th] # 0 => Promised(th), goal'[th] # 0
  PROVE  Promised(th)'
<1>g. /\ goal \in [Threads -> Nat]
      /\ Raise(th) => goal'[th] = 0
      /\ goal' = [goal EXCEPT ![th] = 0] => goal'[th] = 0
  BY DEF Flowing, ReadsTyped, Raise
<1>0. goal' = goal /\ ~Raise(th) /\ Head(todo[th]).op # "serve"
  BY <1>g, DataMoves
<1>p. Promised(th) /\ goal'[th] = goal[th]
  BY <1>0
<1> PICK s, r, q, x, c : /\ s = todo[th] /\ r = Tail(todo[th]) /\ q = todo'[th]
                         /\ x = Head(todo[th]) /\ c = On(th)
  OBVIOUS
<1>h. /\ s # <<>> /\ s \in Seq(Steps) /\ x \in Steps /\ r \in Seq(Steps) /\ x = Do(x.op, c)
      /\ x.on = c /\ Nested(r) /\ Fits(x, r)
  <2>1. s # <<>> /\ s \in Seq(Steps) /\ x \in Steps /\ r \in Seq(Steps) /\ x = Do(x.op, c)
    BY Shapes, Heads
  <2>2. Nested(s) /\ x.on = c
    BY <2>1, Names DEF Locking, AllNested
  <2> QED
    BY <2>1, <2>2, Taken
<1>w. /\ x.op \in {"check", "describe", "unforce", "ack"} => c \in Traces
      /\ x.op \in {"check", "describe", "unforce"} => c \in Computed
      /\ x.op = "refresh" => c \in Traces
  BY <1>h, StepTypes DEF ComputedOps, Traces
<1>q. /\ Pops(th) => q = r
      /\ \A w : Then(th, w) => q = w \o r
  BY DEF Pops, Then, Typed
<1>t. \A t \in Traces : Good(th, t) => Good(th, t)'
  BY <1>p, GoodStays DEF Acts
<1>l. Links(x, r) /\ Chained(r)
  <2>1. Chained(s)
    BY <1>p DEF Promised
  <2>2. Links(x, r) /\ (r = <<>> \/ Chained(r))
    BY <1>h, <2>1, Taken
  <2> QED
    BY <1>0, <2>2 DEF Links
<1>c. /\ \A d \in Computed : Has(s, Do("copy", d)) => Good(th, Source[d])
      /\ x.op \in {"serve", "unforce"} => Good(th, c)
      /\ x.op = "check" => Good(th, Source[c])
      /\ x.op = "ack" => content[c] >= goal[th] \/ c \in Former \/ excused
  BY <1>p DEF Promised
\* A list that the step has made longer begins with a step that counts on nothing.
<1>1. ASSUME Chained(q),
             Head(q).op \in {"force", "lock", "clear", "clearDescription"}
      PROVE  Promised(th)'
  <2>1. ASSUME NEW d \in Computed, Has(q, Do("copy", d)) PROVE Good(th, Source[d])'
    <3>1. Has(r, Do("copy", d)) \/ (x.op = "check" /\ Do("copy", d) = Do("copy", c))
      BY <2>1, HasAfter, Names
    <3>2. Has(r, Do("copy", d)) => Has(s, Do("copy", d))
      BY <1>h, Taken
    <3>3. Good(th, Source[d])
      BY <1>c, <3>1, <3>2, Names
    <3>4. Source[d] \in Traces
      BY ChainAssumption DEF Traces
    <3> QED
      BY <1>t, <3>3, <3>4
  <2>2. \A l : Head(q) # Unlock(l)
    BY <1>1, Names
  <2> QED
    BY <1>1, <2>1, <2>2 DEF Promised
<1>2. CASE x.op = "refresh"
  <2>0. q = RefreshObsels(th, c) \o r
    BY <1>2, <1>q, DataMoves
  <2>1. Above(c, r) /\ (owner[Obsels(c)] = th <=> Opens(r, Obsels(c)))
    <3>1. \A l : x # Lock(l) /\ x # Unlock(l)
      BY <1>2, Names
    <3>2. \A l : Opens(s, l) <=> x = Unlock(l) \/ (x # Lock(l) /\ Opens(r, l))
      BY <1>h, Taken
    <3>3. owner[Obsels(c)] = th <=> Opens(s, Obsels(c))
      BY <1>2, <1>w DEF Locking, Held
    <3> QED
      BY <1>2, <1>h, <3>1, <3>2, <3>3 DEF Fits
  <2>2. CASE c = Stored
    <3>1. q = r
      BY <1>2, <1>h, <1>w, <2>0, <2>2, RefreshIs
    <3>2. Good(th, c)'
      <4>1. goal'[th] \in Nat /\ goal'[th] <= acked'[Stored] /\ acked'[Stored] \in Nat
        BY Grows DEF Acts, Flow, Flowing, Traces
      <4> QED
        BY <2>2, <4>1 DEF Good
    <3> QED
      BY <1>2, <1>p, <3>1, <3>2, PromisedNext
  <2>3. CASE c # Stored /\ <<Home[th], c>> \in forcing
    <3>1. c \in Computed /\ Unforces(s, c)
      BY <1>2, <1>w, <2>3 DEF Locking, Flagged, Traces
    <3>2. Unforces(r, c)
      BY <1>2, <1>h, <3>1, Taken, Names
    <3>3. PICK m \in 1 .. Len(r) : r[m] = Do("unforce", c)
      BY <3>2 DEF Unforces
    <3>4. Depth[c] < Depth[c]
      BY <2>1, <3>3, Names DEF Above
    <3>5. Depth[c] \in Nat
      BY <1>2, <1>w, DepthIs
    <3> QED
      BY <3>4, <3>5
  <2>4. CASE ~(c = Stored \/ <<Home[th], c>> \in forcing)
    <3>0. c \in Traces /\ r \in Seq(Steps) /\ Nested(r)
      BY <1>2, <1>h, <1>w
    <3> DEFINE w == RefreshObsels(th, c) \o r
    <3>3. /\ w # <<>> /\ (Head(w).op = "force" \/ Head(w) = Lock(Obsels(c)))
          /\ Links(Do("refresh", c), r) /\ Chained(r) => Chained(w)
      BY <2>1, <2>4, <3>0, RefreshFits
    <3> HIDE DEF w
    <3>1. /\ Links(Do("refresh", c), r) /\ Chained(r) => Chained(q)
          /\ Head(q).op = "force" \/ Head(q) = Lock(Obsels(c))
      BY <2>0, <3>3 DEF w
    <3>2. x = Do("refresh", c)
      BY <1>2, <1>h
    <3> QED
      BY <1>1, <1>l, <3>1, <3>2, Names
  <2> QED
    BY <2>2, <2>3, <2>4
<1>3. CASE x.op = "check"
  <2>0. x = Do("check", c)
    BY <1>3, <1>h
  <2>1. CASE c \in dirty
    <3>1. q = Recompute(c) \o r /\ Opens(r, Obsels(c))
      BY <1>3, <1>h, <1>q, <2>1, DataMoves DEF Fits, Guarded
    <3>2. /\ Links(Do("check", c), r) /\ Chained(r) => Chained(q)
          /\ Head(q) = Do("clear", c)
      BY <1>3, <1>h, <1>w, <3>1, RecomputeFits
    <3> QED
      BY <1>1, <1>l, <2>0, <3>2, Names
  <2>2. CASE c \notin dirty
    <3>1. q = r
      BY <1>3, <1>q, <2>2, DataMoves
    <3>2. Good(th, c)
      <4>1. NextIs(th, "check") /\ Head(todo[th]) = Do("check", c) /\ c \in Computed \ dirty
        BY <1>3, <1>h, <1>w, <2>0, <2>2 DEF NextIs
      <4> QED
        BY <1>3, <1>c, <4>1, CleanIsGood
    <3> QED
      BY <1>3, <1>p, <1>t, <1>w, <3>1, <3>2, PromisedNext
  <2> QED
    BY <2>1, <2>2
<1>4. CASE x.op = "describe"
  <2>0. x = Do("describe", c)
    BY <1>4, <1>h
  <2>1. q = r \/ q = Describe(c) \o r
    BY <1>4, <1>q, DataMoves
  <2>2. CASE q = r
    BY <1>4, <1>p, <2>2, PromisedNext
  <2>3. CASE q = Describe(c) \o r
    <3>1. /\ Links(Do("describe", c), r) /\ Chained(r) => Chained(q)
          /\ Head(q) = Do("clearDescription", c)
      <4>1. c \in Computed /\ r \in Seq(Steps) /\ Nested(r)
        BY <1>4, <1>h, <1>w
      <4> DEFINE w == Describe(c) \o r
      <4>2. /\ Links(Do("describe", c), r) /\ Chained(r) => Chained(w)
            /\ Head(w) = Do("clearDescription", c)
        BY <4>1, DescribeFits
      <4> QED
        BY <2>3, <4>2
    <3> QED
      BY <1>1, <1>l, <2>0, <3>1, Names
  <2> QED
    BY <2>1, <2>2, <2>3
<1>5. CASE x.op \notin {"refresh", "check", "describe"}
  <2>1. q = r
    BY <1>0, <1>5, <1>q, DataMoves
  <2>2. x.op = "unforce" => Good(th, c)'
    BY <1>c, <1>t, <1>w
  <2>3. x.op = "ack" => Good(th, c)'
    <3> HAVE x.op = "ack"
    <3>1. acked' = [acked EXCEPT ![c] = content[c]] /\ c \in Traces
      BY <1>w, DataMoves
    <3>2. acked'[c] = content[c]
      BY <3>1 DEF Flowing, ReadsTyped
    <3>3. Former \subseteq Former' /\ (excused => excused')
      BY Shapes
    <3> QED
      BY <1>c, <1>p, <3>2, <3>3 DEF Good
  <2> QED
    BY <1>0, <1>5, <1>p, <2>1, <2>2, <2>3, PromisedNext
<1> QED
  BY <1>2, <1>3, <1>4, <1>5

LEMMA InitReads == Init => Locking /\ Flowing /\ AllPromised
<1> SUFFICES ASSUME Init PROVE Locking /\ Flowing /\ AllPromised
  OBVIOUS
<1>0. /\ \A th \in Threads : todo[th] = <<>> /\ goal[th] = 0
      /\ \A t \in Traces : content[t] = 0 /\ acked[t] = 0 /\ Obsels(t) \in Locks
      /\ forcing = {} /\ Former = {} /\ owner = [l \in Locks |-> Nobody]
      /\ \A c \in Computed : c \in Traces /\ Source[c] \in Traces
  BY ChainAssumption, StepsOf DEF Init, Traces, Former
<1>e. /\ Nested(<<>>) /\ (\A l : ~Opens(<<>>, l)) /\ \A y : ~Has(<<>>, y)
  BY DEF Nested, Opens, Has
<1>1. Locking
  <2>1. LocksTyped
    BY <1>0 DEF LocksTyped
  <2>2. Held
    BY <1>0, <1>e, NobodyAssumption DEF Held
  <2>3. Flagged /\ AllNested
    BY <1>0, <1>e DEF Flagged, AllNested
  <2> QED
    BY <2>1, <2>2, <2>3 DEF Locking
<1>2. Flowing
  <2>1. ReadsTyped
    BY DEF Init, ReadsTyped
  <2>2. Flow
    BY <1>0 DEF Flow, Traces
  <2>3. Deleting
    BY <1>0, <1>e DEF Deleting
  <2>4. AckedMarked /\ Settled
    BY <1>0 DEF AckedMarked, Settled
  <2> QED
    BY <2>1, <2>2, <2>3, <2>4 DEF Flowing
<1>3. AllPromised
  BY <1>0 DEF AllPromised
<1> QED
  BY <1>1, <1>2, <1>3

LEMMA NextReads ==
  ASSUME Acyclic, Alone, ReadInv, [Next]_vars
  PROVE  ReadInv'
<1>0. IInv'
  BY NextInvariants DEF ReadInv
<1>1. CASE UNCHANGED vars
  <2>1. /\ content' = content /\ acked' = acked /\ dirty' = dirty
        /\ Former' = Former /\ unlisted' = unlisted /\ todo' = todo /\ excused' = excused
        /\ owner' = owner /\ forcing' = forcing /\ goal' = goal
    BY <1>1 DEF vars, data, Former
  <2>2. Locking'
    BY <2>1 DEF ReadInv, Locking, LocksTyped, Held, Flagged, AllNested
  <2>3. Flowing'
    <3>1. ReadsTyped' /\ Flow' /\ Settled'
      BY <2>1 DEF ReadInv, Flowing, ReadsTyped, Flow, Settled
    <3>2. Deleting' /\ AckedMarked'
      BY <2>1 DEF ReadInv, Flowing, Deleting, AckedMarked
    <3> QED
      BY <3>1, <3>2 DEF Flowing
  <2>4. AllPromised'
    BY <2>1 DEF ReadInv, AllPromised, Promised, Good, On
  <2> QED
    BY <1>0, <2>2, <2>3, <2>4 DEF ReadInv
<1>2. CASE Next
  <2> PICK th \in Threads : Acts(th)
    BY <1>2 DEF Next, Acts
  <2>0. Typed /\ AllTogether /\ Locking /\ Flowing
    BY DEF ReadInv, IInv
  <2>1. Locking' /\ Flowing'
    BY <2>0, NextLocking, NextFlowing
  <2>2. Flow'
    BY <2>1 DEF Flowing
  <2>3. ASSUME NEW u \in Threads, goal'[u] # 0 PROVE Promised(u)'
    <3>p. \A v \in Threads : goal[v] # 0 => Promised(v)
      BY DEF ReadInv, AllPromised
    <3>1. CASE u # th
      <4>1. goal'[u] = goal[u]
        BY <2>0, <3>1, Grows DEF Flowing
      <4> QED
        BY <2>0, <2>3, <3>1, <3>p, <4>1, PromisedOther
    <3>2. CASE u = th /\ Step(th)
      BY <2>0, <2>2, <2>3, <3>2, <3>p, PromisedOwn
    <3>3. CASE u = th /\ ~Step(th)
      <4>0. todo[th] = <<>>
        BY <2>0, <3>3, Beginning
      <4>1. goal[th] = 0
        BY <3>p, <4>0 DEF Promised, Chained
      <4>2. PICK c \in Computed : todo'[th] = <<Do("refresh", c), Do("serve", c)>>
        BY <2>0, <2>3, <3>3, <4>1, BeginningGoals
      <4> DEFINE g == <<Do("refresh", c), Do("serve", c)>>
      <4>3. Head(g) = Do("refresh", c)
        OBVIOUS
      <4>4. Chained(g) /\ \A y : Has(g, y) => y.op \notin {"copy", "delete"}
        BY ReadFits
      <4> HIDE DEF g
      <4>5. todo'[th] = g
        BY <4>2 DEF g
      <4>6. \A d \in Computed : ~Has(g, Do("copy", d))
        BY <4>4, Names
      <4>7. Head(g).op = "refresh" /\ \A l : Head(g) # Unlock(l)
        BY <4>3, Names
      <4> QED
        BY <3>3, <4>4, <4>5, <4>6, <4>7 DEF Promised
    <3> QED
      BY <3>1, <3>2, <3>3
  <2>4. AllPromised'
    BY <2>3 DEF AllPromised
  <2> QED
    BY <1>0, <2>1, <2>4 DEF ReadInv
<1> QED
  BY <1>1, <1>2

\* What a reader is served takes into account all the posts that were complete
\* when it asked, unless a deletion of the trace has begun or a thread has given
\* up waiting for the base: force_state_refresh of engine/trace_obsels.py, for
\* threads that share no object and sources that do not lead back to a trace.
THEOREM ReadsCorrect == Acyclic /\ Alone => (Spec => ReadsAreFresh)
<1> SUFFICES ASSUME Acyclic, Alone PROVE Spec => ReadsAreFresh
  OBVIOUS
<1> DEFINE Served == \A th \in Threads :
             NextIs(th, "serve") /\ todo'[th] = <<>>
               => content[On(th)] >= goal[th] \/ On(th) \in Former \/ excused
<1>1. Init => ReadInv
  BY InitInvariants, InitReads DEF ReadInv
<1>2. ReadInv /\ [Next]_vars => ReadInv'
  BY NextReads
<1>3. ReadInv => Served
  <2> SUFFICES ASSUME ReadInv, NEW th \in Threads, NextIs(th, "serve")
               PROVE  content[On(th)] >= goal[th] \/ On(th) \in Former \/ excused
    OBVIOUS
  <2>1. /\ todo[th] # <<>> /\ Typed /\ AllTogether /\ Flowing
        /\ content \in [Traces -> Nat] /\ acked \in [Traces -> Nat] /\ goal \in [Threads -> Nat]
    BY DEF ReadInv, IInv, Typed, Flowing, ReadsTyped, NextIs
  <2>2. On(th) \in Traces
    BY <2>1, Heads, StepTypes DEF NextIs, On, ComputedOps, Traces
  <2>3. /\ content[On(th)] \in Nat /\ acked[On(th)] \in Nat /\ goal[th] \in Nat
        /\ acked[On(th)] <= content[On(th)]
    BY <2>1, <2>2 DEF Flowing, Flow
  <2>4. goal[th] # 0 => Good(th, On(th))
    BY DEF ReadInv, AllPromised, Promised, NextIs
  <2>5. goal[th] = 0 \/ acked[On(th)] >= goal[th] \/ On(th) \in Former \/ excused
    BY <2>4 DEF Good
  <2>6. goal[th] = 0 \/ acked[On(th)] >= goal[th] => content[On(th)] >= goal[th]
    BY <2>3
  <2> QED
    BY <2>5, <2>6
<1>4. ReadInv => [Served]_vars
  BY <1>3
<1> QED
  BY <1>1, <1>2, <1>4, PTL DEF Spec, ReadsAreFresh

----------------------------------------------------------------------------
(* Types, and locks that are held for something *)

\* What is locked will be unlocked.
Closes(x, r) == \A l \in Locks : x = Lock(l) => Has(r, Unlock(l))
Closed(seq) == \A k \in 1 .. Len(seq) : Closes(seq[k], Rest(seq, k))
AllClosed == \A th \in Threads : Closed(todo[th])

\* The thread that holds a lock has to unlock it.
HeldForLater == \A th \in Threads, l \in Locks : owner[l] = th => Has(todo[th], Unlock(l))

Behind ==
  /\ \A c \in Computed : content[c] <= content[Source[c]]
  /\ \A t \in Traces : acked[t] <= content[t]

TypeInv == IInv /\ ReadsTyped /\ LocksTyped /\ AllClosed /\ HeldForLater /\ Behind

LEMMA ClosedCons ==
  ASSUME NEW x \in Steps, NEW r \in Seq(Steps)
  PROVE  Closed(Cons(x, r)) <=> Closes(x, r) /\ Closed(r)
<1> DEFINE q == Cons(x, r)
<1>1. /\ Len(q) = Len(r) + 1 /\ Len(r) \in Nat /\ q[1] = x /\ Rest(q, 1) = r
      /\ \A k \in 1 .. Len(r) : q[k + 1] = r[k] /\ Rest(q, k + 1) = Rest(r, k)
  BY ConsIs
<1> HIDE DEF q
<1>2. ASSUME Closed(q) PROVE Closes(x, r) /\ Closed(r)
  <2>1. \A k \in 1 .. Len(q) : Closes(q[k], Rest(q, k))
    BY <1>2 DEF Closed
  <2>2. 1 \in 1 .. Len(q) /\ \A k \in 1 .. Len(r) : k + 1 \in 1 .. Len(q)
    BY <1>1
  <2>3. Closes(x, r)
    BY <1>1, <2>1, <2>2
  <2>4. \A k \in 1 .. Len(r) : Closes(r[k], Rest(r, k))
    BY <1>1, <2>1, <2>2
  <2> QED
    BY <2>3, <2>4 DEF Closed
<1>3. ASSUME Closes(x, r), Closed(r) PROVE Closed(q)
  <2> SUFFICES ASSUME NEW k \in 1 .. Len(q) PROVE Closes(q[k], Rest(q, k))
    BY DEF Closed
  <2>1. CASE k = 1
    BY <1>1, <1>3, <2>1
  <2>2. CASE k # 1
    <3> PICK m \in 1 .. Len(r) : k = m + 1
      BY <1>1, <2>2
    <3> QED
      BY <1>1, <1>3 DEF Closed
  <2> QED
    BY <2>1, <2>2
<1> QED
  BY <1>2, <1>3 DEF q

\* A step that locks nothing may come before anything.
LEMMA ClosedPlain ==
  ASSUME NEW x \in Steps, NEW r \in Seq(Steps), x.op # "lock", Closed(r)
  PROVE  /\ Closed(Cons(x, r)) /\ Cons(x, r) \in Seq(Steps)
         /\ \A y : Has(r, y) => Has(Cons(x, r), y)
<1>1. Closes(x, r)
  BY Names DEF Closes
<1> QED
  BY <1>1, ClosedCons, ConsIs, ForAllCons

LEMMA ClosedTaken ==
  ASSUME NEW s \in Seq(Steps), s # <<>>, Closed(s)
  PROVE  Closes(Head(s), Tail(s)) /\ Closed(Tail(s))
BY IsCons, ClosedCons

\* A list is closed if each lock has its unlocking further on.
LEMMA ClosedIf ==
  ASSUME NEW s \in Seq(Steps),
         \A k \in 1 .. Len(s), l \in Locks :
           s[k] = Lock(l) => \E m \in 1 .. Len(s) : m > k /\ s[m] = Unlock(l)
  PROVE  Closed(s)
<1> SUFFICES ASSUME NEW k \in 1 .. Len(s), NEW l \in Locks, s[k] = Lock(l)
             PROVE  Has(Rest(s, k), Unlock(l))
  BY DEF Closed, Closes
<1>1. PICK m \in 1 .. Len(s) : m > k /\ s[m] = Unlock(l)
  OBVIOUS
<1>2. Len(s) \in Nat
  BY LenProperties
<1>3. Len(Rest(s, k)) = Len(s) - k /\ \A i \in 1 .. Len(s) - k : Rest(s, k)[i] = s[k + i]
  BY <1>2 DEF Rest
<1>4. m - k \in 1 .. Len(Rest(s, k)) /\ Rest(s, k)[m - k] = Unlock(l)
  <2>1. m - k \in 1 .. Len(s) - k /\ k + (m - k) = m
    BY <1>1, <1>2
  <2> QED
    BY <1>1, <1>3, <2>1
<1> QED
  BY <1>4 DEF Has

\* The lists that operations begin with.
LEMMA PostClosed == Closed(PostGraph) /\ Closed(PostRefused)
<1> DEFINE l == Obsels(Stored)
           a == Do("add", Stored)
           b == Do("ack", Stored)
           p == <<Lock(l), a, b, Unlock(l)>>
           q == <<Lock(l), a, Unlock(l)>>
<1>0. Stored \in Traces
  BY DEF Traces
<1>1. PostGraph = p /\ PostRefused = q
  BY DEF PostGraph, PostRefused
<1>2. /\ Lock(l) \in Steps /\ Unlock(l) \in Steps /\ a \in Steps /\ b \in Steps
      /\ \A n : a # Lock(n) /\ b # Lock(n) /\ Unlock(l) # Lock(n) /\ (Lock(l) = Lock(n) => n = l)
  BY <1>0, StepsOf, Names
<1> HIDE DEF l, a, b
<1>3. /\ p \in Seq(Steps) /\ Len(p) = 4
      /\ p[1] = Lock(l) /\ p[2] = a /\ p[3] = b /\ p[4] = Unlock(l)
      /\ q \in Seq(Steps) /\ Len(q) = 3 /\ q[1] = Lock(l) /\ q[2] = a /\ q[3] = Unlock(l)
  BY <1>2
<1> HIDE DEF p, q
<1>4. /\ \A k \in 1 .. 4, n \in Locks : p[k] = Lock(n) => k = 1 /\ n = l
      /\ \A k \in 1 .. 3, n \in Locks : q[k] = Lock(n) => k = 1 /\ n = l
  <2>1. /\ \A k \in 1 .. 4 : k = 1 \/ k = 2 \/ k = 3 \/ k = 4
        /\ \A k \in 1 .. 3 : k = 1 \/ k = 2 \/ k = 3
    OBVIOUS
  <2> QED
    BY <1>2, <1>3, <2>1
<1>5. Closed(p)
  <2>1. 4 \in 1 .. Len(p) /\ 4 > 1
    BY <1>3
  <2> QED
    BY <1>3, <1>4, <2>1, ClosedIf
<1>6. Closed(q)
  <2>1. 3 \in 1 .. Len(q) /\ 3 > 1
    BY <1>3
  <2> QED
    BY <1>3, <1>4, <2>1, ClosedIf
<1> QED
  BY <1>1, <1>5, <1>6

LEMMA ReadClosed ==
  ASSUME NEW c \in Computed
  PROVE  /\ Closed(<<Do("refresh", c), Do("serve", c)>>)
         /\ Closed(<<Lock(Obsels(c)), Do("refresh", c), Unlock(Obsels(c))>>)
<1> DEFINE l == Obsels(c)
           a == Do("refresh", c)
           b == Do("serve", c)
           p == <<a, b>>
           q == <<Lock(l), a, Unlock(l)>>
<1>0. c \in Traces
  BY DEF Traces
<1>2. /\ Lock(l) \in Steps /\ Unlock(l) \in Steps /\ a \in Steps /\ b \in Steps
      /\ \A n : a # Lock(n) /\ b # Lock(n) /\ Unlock(l) # Lock(n) /\ (Lock(l) = Lock(n) => n = l)
  BY <1>0, StepsOf, Names DEF ComputedOps
<1> HIDE DEF l, a, b
<1>3. /\ p \in Seq(Steps) /\ Len(p) = 2 /\ p[1] = a /\ p[2] = b
      /\ q \in Seq(Steps) /\ Len(q) = 3 /\ q[1] = Lock(l) /\ q[2] = a /\ q[3] = Unlock(l)
  BY <1>2
<1> HIDE DEF p, q
<1>4. /\ \A k \in 1 .. 2, n \in Locks : p[k] # Lock(n)
      /\ \A k \in 1 .. 3, n \in Locks : q[k] = Lock(n) => k = 1 /\ n = l
  <2>1. /\ \A k \in 1 .. 2 : k = 1 \/ k = 2
        /\ \A k \in 1 .. 3 : k = 1 \/ k = 2 \/ k = 3
    OBVIOUS
  <2> QED
    BY <1>2, <1>3, <2>1
<1>5. Closed(p)
  BY <1>3, <1>4, ClosedIf
<1>6. Closed(q)
  <2>1. 3 \in 1 .. Len(q) /\ 3 > 1
    BY <1>3
  <2> QED
    BY <1>3, <1>4, <2>1, ClosedIf
<1> QED
  BY <1>5, <1>6 DEF p, q, l, a, b

LEMMA StatsClosed ==
  ASSUME NEW c \in Computed
  PROVE  Closed(RefreshStats(c))
<1> DEFINE l == Stats(c)
           s == RefreshStats(c)
<1>0. c \in Traces
  BY DEF Traces
<1>1. s \in Seq(Steps) /\ Len(s) = 7 /\ s[1] = Lock(l) /\ s[7] = Unlock(l)
  BY PiecesTogether DEF RefreshStats
<1>2. \A k \in 2 .. 6 : s[k].op # "lock"
  <2>1. /\ s[2] = Do("describe", c) /\ s[3] = Do("refresh", c) /\ s[4] = Do("note", c)
        /\ s[5] = Do("populate", c) /\ s[6] = Do("sign", c)
    BY DEF RefreshStats
  <2> HIDE DEF s
  <2>2. \A k \in 2 .. 6 : k = 2 \/ k = 3 \/ k = 4 \/ k = 5 \/ k = 6
    OBVIOUS
  <2> QED
    BY <2>1, <2>2, Names
<1> HIDE DEF s, l
<1>3. \A k \in 1 .. 7, n \in Locks : s[k] = Lock(n) => k = 1 /\ n = l
  <2>1. \A k \in 1 .. 7 : k = 1 \/ k = 7 \/ k \in 2 .. 6
    OBVIOUS
  <2> QED
    BY <1>1, <1>2, <2>1, Names
<1>4. 7 \in 1 .. Len(s) /\ 7 > 1
  BY <1>1
<1>5. Closed(s)
  BY <1>1, <1>3, <1>4, ClosedIf
<1> QED
  BY <1>5 DEF s

LEMMA DeleteClosed ==
  ASSUME NEW c \in Computed
  PROVE  Closed(DeleteTrace(c))
<1> DEFINE l == Obsels(c)
           m == Stats(c)
           s == DeleteTrace(c)
<1>1. /\ s \in Seq(Steps) /\ Len(s) = 8
      /\ s[1] = Lock(Base) /\ s[8] = Unlock(Base)
      /\ s[3] = Lock(l) /\ s[4] = Unlock(l) /\ s[5] = Lock(m) /\ s[6] = Unlock(m)
      /\ s[2] = Do("deletable", c) /\ s[7] = Do("delete", c)
  BY PiecesTogether DEF DeleteTrace
<1> HIDE DEF s, l, m
<1>2. \A k \in 1 .. 8, n \in Locks : s[k] = Lock(n) =>
        (k = 1 /\ n = Base) \/ (k = 3 /\ n = l) \/ (k = 5 /\ n = m)
  <2>1. \A k \in 1 .. 8 : k = 1 \/ k = 2 \/ k = 3 \/ k = 4 \/ k = 5 \/ k = 6 \/ k = 7 \/ k = 8
    OBVIOUS
  <2>2. /\ \A n : s[2] # Lock(n) /\ s[4] # Lock(n) /\ s[6] # Lock(n) /\ s[7] # Lock(n) /\ s[8] # Lock(n)
        /\ \A n : (s[1] = Lock(n) => n = Base) /\ (s[3] = Lock(n) => n = l) /\ (s[5] = Lock(n) => n = m)
    BY <1>1, Names
  <2> QED
    BY <2>1, <2>2
<1>3. /\ 8 \in 1 .. Len(s) /\ 4 \in 1 .. Len(s) /\ 6 \in 1 .. Len(s)
      /\ 8 > 1 /\ 4 > 3 /\ 6 > 5
  BY <1>1
<1>4. Closed(s)
  <2>1. ASSUME NEW k \in 1 .. Len(s), NEW n \in Locks, s[k] = Lock(n)
        PROVE  \E i \in 1 .. Len(s) : i > k /\ s[i] = Unlock(n)
    BY <1>1, <1>2, <1>3, <2>1
  <2> QED
    BY <1>1, <2>1, ClosedIf
<1> QED
  BY <1>4 DEF s

LEMMA BeginningClosed ==
  ASSUME Typed, NEW th \in Threads, Acts(th), ~Step(th)
  PROVE  Closed(todo'[th]) /\ owner' = owner /\ forcing' = forcing /\ acked' = acked
<1>1. CASE Post(th)
  <2>1. /\ todo'[th] = PostGraph \/ todo'[th] = PostRefused
        /\ owner' = owner /\ forcing' = forcing /\ acked' = acked
    BY <1>1 DEF Post, Begin, Typed, data
  <2> QED
    BY <2>1, PostClosed
<1>2. CASE \E c \in Computed : Work(th, c) \/ Get(th, c) \/ GetStats(th, c) \/ Delete(th, c)
  <2> PICK c \in Computed : Work(th, c) \/ Get(th, c) \/ GetStats(th, c) \/ Delete(th, c)
    BY <1>2
  <2>1. /\ \/ todo'[th] = <<Do("refresh", c), Do("serve", c)>>
           \/ todo'[th] = <<Lock(Obsels(c)), Do("refresh", c), Unlock(Obsels(c))>>
           \/ todo'[th] = RefreshStats(c) \/ todo'[th] = DeleteTrace(c)
        /\ owner' = owner /\ forcing' = forcing /\ acked' = acked
    BY DEF Work, Get, GetStats, Delete, Begin, Typed, data
  <2> QED
    BY <2>1, ReadClosed, StatsClosed, DeleteClosed
<1> QED
  BY <1>1, <1>2 DEF Acts

\* What a step calls locks nothing that it does not unlock.
LEMMA CalledClosed ==
  ASSUME NEW th \in Threads, NEW t \in Traces, NEW r \in Seq(Steps), Closed(r)
  PROVE  LET q == RefreshObsels(th, t) \o r
         IN  Closed(q) /\ \A y : Has(r, y) => Has(q, y)
<1> DEFINE l == Obsels(t)
           q == RefreshObsels(th, t) \o r
<1>1. CASE t = Stored \/ <<Home[th], t>> \in forcing
  <2>1. q = r
    BY <1>1, RefreshIs
  <2> QED
    BY <2>1
<1>2. CASE ~(t = Stored \/ <<Home[th], t>> \in forcing)
  <2>0. t \in Computed /\ Source[t] \in Traces
    BY <1>2, ChainAssumption DEF Traces
  <2>1. /\ Do("force", t) \in Steps /\ Do("refresh", Source[t]) \in Steps
        /\ Do("check", t) \in Steps /\ Do("unforce", t) \in Steps
        /\ Lock(l) \in Steps /\ Unlock(l) \in Steps /\ l \in Locks
    BY <2>0, StepsOf DEF ComputedOps
  <2>2. ASSUME NEW z \in Seq(Steps), Closed(z)
        PROVE  /\ Closed(Refreshing(t, z)) /\ Refreshing(t, z) \in Seq(Steps)
               /\ \A y : Has(z, y) => Has(Refreshing(t, z), y)
    <3> DEFINE z1 == Cons(Do("unforce", t), z)
               z2 == Cons(Do("check", t), z1)
               z3 == Cons(Do("refresh", Source[t]), z2)
               z4 == Cons(Do("force", t), z3)
    <3>1. z1 \in Seq(Steps) /\ Closed(z1) /\ \A y : Has(z, y) => Has(z1, y)
      BY <2>1, <2>2, ClosedPlain, Names
    <3> HIDE DEF z1
    <3>2. z2 \in Seq(Steps) /\ Closed(z2) /\ \A y : Has(z1, y) => Has(z2, y)
      BY <2>1, <3>1, ClosedPlain, Names
    <3> HIDE DEF z2
    <3>3. z3 \in Seq(Steps) /\ Closed(z3) /\ \A y : Has(z2, y) => Has(z3, y)
      BY <2>1, <3>2, ClosedPlain, Names
    <3> HIDE DEF z3
    <3>4. z4 \in Seq(Steps) /\ Closed(z4) /\ \A y : Has(z3, y) => Has(z4, y)
      BY <2>1, <3>3, ClosedPlain, Names
    <3>5. Refreshing(t, z) = z4
      BY DEF Refreshing, z1, z2, z3, z4
    <3> HIDE DEF z4
    <3> QED
      BY <3>1, <3>2, <3>3, <3>4, <3>5
  <2>3. CASE owner[l] = th
    <3>1. q = Refreshing(t, r)
      BY <1>2, <2>3, RefreshIs
    <3> HIDE DEF q
    <3> QED
      BY <2>2, <3>1 DEF q
  <2>4. CASE owner[l] # th
    <3> DEFINE z == Cons(Unlock(l), r)
               w == Refreshing(t, z)
    <3>1. q = Cons(Lock(l), w)
      BY <1>2, <2>4, RefreshIs
    <3>2. z \in Seq(Steps) /\ Closed(z) /\ \A y : Has(z, y) <=> y = Unlock(l) \/ Has(r, y)
      BY <2>1, ClosedPlain, ForAllCons, Names
    <3> HIDE DEF z
    <3>3. w \in Seq(Steps) /\ Closed(w) /\ \A y : Has(z, y) => Has(w, y)
      BY <2>2, <3>2
    <3> HIDE DEF w
    <3>4. Closes(Lock(l), w)
      BY <3>2, <3>3, Names DEF Closes
    <3>5. Closed(Cons(Lock(l), w)) /\ \A y : Has(w, y) => Has(Cons(Lock(l), w), y)
      BY <2>1, <3>3, <3>4, ClosedCons, ForAllCons
    <3> HIDE DEF q
    <3> QED
      BY <3>1, <3>2, <3>3, <3>5 DEF q
  <2> QED
    BY <2>3, <2>4
<1> QED
  BY <1>1, <1>2

LEMMA ComputedClosed ==
  ASSUME NEW c \in Computed, NEW r \in Seq(Steps), Closed(r)
  PROVE  /\ Closed(Recompute(c) \o r) /\ \A y : Has(r, y) => Has(Recompute(c) \o r, y)
         /\ Closed(Describe(c) \o r) /\ \A y : Has(r, y) => Has(Describe(c) \o r, y)
<1>0. c \in Traces
  BY DEF Traces
<1>1. Closed(Recompute(c) \o r) /\ \A y : Has(r, y) => Has(Recompute(c) \o r, y)
  <2> DEFINE z1 == Cons(Do("ack", c), r)
             z2 == Cons(Do("copy", c), z1)
             z3 == Cons(Do("describe", c), z2)
             z4 == Cons(Do("clear", c), z3)
  <2>1. /\ Do("clear", c) \in Steps /\ Do("describe", c) \in Steps
        /\ Do("copy", c) \in Steps /\ Do("ack", c) \in Steps
    BY <1>0, StepsOf DEF ComputedOps
  <2>2. Recompute(c) \o r = z4
    BY <2>1, TupleIs DEF Recompute
  <2>3. z1 \in Seq(Steps) /\ Closed(z1) /\ \A y : Has(r, y) => Has(z1, y)
    BY <2>1, ClosedPlain, Names
  <2> HIDE DEF z1
  <2>4. z2 \in Seq(Steps) /\ Closed(z2) /\ \A y : Has(z1, y) => Has(z2, y)
    BY <2>1, <2>3, ClosedPlain, Names
  <2> HIDE DEF z2
  <2>5. z3 \in Seq(Steps) /\ Closed(z3) /\ \A y : Has(z2, y) => Has(z3, y)
    BY <2>1, <2>4, ClosedPlain, Names
  <2> HIDE DEF z3
  <2>6. z4 \in Seq(Steps) /\ Closed(z4) /\ \A y : Has(z3, y) => Has(z4, y)
    BY <2>1, <2>5, ClosedPlain, Names
  <2> HIDE DEF z4
  <2> QED
    BY <2>2, <2>3, <2>4, <2>5, <2>6
<1>2. Closed(Describe(c) \o r) /\ \A y : Has(r, y) => Has(Describe(c) \o r, y)
  <2> DEFINE z1 == Cons(Do("described", c), r)
             z2 == Cons(Unlock(Base), z1)
             z3 == Cons(Lock(Base), z2)
             z4 == Cons(Do("clearDescription", c), z3)
  <2>1. /\ Do("clearDescription", c) \in Steps /\ Do("described", c) \in Steps
        /\ Lock(Base) \in Steps /\ Unlock(Base) \in Steps
    BY StepsOf DEF ComputedOps
  <2>2. Describe(c) \o r = z4
    BY <2>1, TupleIs DEF Describe
  <2>3. z1 \in Seq(Steps) /\ Closed(z1) /\ \A y : Has(r, y) => Has(z1, y)
    BY <2>1, ClosedPlain, Names
  <2> HIDE DEF z1
  <2>4. /\ z2 \in Seq(Steps) /\ Closed(z2) /\ \A y : Has(z1, y) => Has(z2, y)
        /\ Has(z2, Unlock(Base))
    BY <2>1, <2>3, ClosedPlain, ForAllCons, Names
  <2> HIDE DEF z2
  <2>5. Closes(Lock(Base), z2)
    BY <2>4, Names DEF Closes
  <2>6. z3 \in Seq(Steps) /\ Closed(z3) /\ \A y : Has(z2, y) => Has(z3, y)
    BY <2>1, <2>4, <2>5, ClosedCons, ConsIs, ForAllCons
  <2> HIDE DEF z3
  <2>7. z4 \in Seq(Steps) /\ Closed(z4) /\ \A y : Has(z3, y) => Has(z4, y)
    BY <2>1, <2>6, ClosedPlain, Names
  <2> HIDE DEF z4
  <2> QED
    BY <2>2, <2>3, <2>4, <2>6, <2>7
<1> QED
  BY <1>1, <1>2

LEMMA NextClosed ==
  ASSUME Typed, AllTogether, LocksTyped, AllClosed, HeldForLater, NEW th \in Threads, Acts(th)
  PROVE  LocksTyped' /\ AllClosed' /\ HeldForLater'
<1> DEFINE s == todo[th]
           x == Head(s)
           r == Tail(s)
           op == x.op
           c == On(th)
           q == todo'[th]
<1>k. /\ owner \in [Locks -> Threads \cup {Nobody}] /\ Nobody \notin Threads
      /\ forcing \subseteq Processes \X Computed /\ Home[th] \in Processes
      /\ todo \in [Threads -> Seq(Steps)]
      /\ \A u \in Threads : Closed(todo[u])
      /\ \A u \in Threads, l \in Locks : owner[l] = u => Has(todo[u], Unlock(l))
  BY HomeAssumption, NobodyAssumption DEF LocksTyped, Typed, AllClosed, HeldForLater
<1>o. \A u \in Threads \ {th} : todo'[u] = todo[u]
  BY Others
<1>s. ASSUME LocksTyped', Closed(q),
             \A l \in Locks : owner'[l] = th => Has(q, Unlock(l)),
             \A l \in Locks : owner'[l] \in {owner[l], th, Nobody}
      PROVE  LocksTyped' /\ AllClosed' /\ HeldForLater'
  <2>1. ASSUME NEW u \in Threads PROVE Closed(todo'[u])
    BY <1>k, <1>o, <1>s
  <2>2. ASSUME NEW u \in Threads, NEW l \in Locks, owner'[l] = u PROVE Has(todo'[u], Unlock(l))
    <3>1. CASE u = th
      BY <1>s, <2>2, <3>1
    <3>2. CASE u # th
      <4>1. owner[l] = u
        BY <1>k, <1>s, <2>2, <3>2
      <4> QED
        BY <1>k, <1>o, <3>2, <4>1
    <3> QED
      BY <3>1, <3>2
  <2>3. AllClosed'
    BY <2>1 DEF AllClosed
  <2>4. HeldForLater'
    BY <2>2 DEF HeldForLater
  <2> QED
    BY <1>s, <2>3, <2>4
<1>1. CASE ~Step(th)
  <2>1. /\ Closed(q) /\ owner' = owner /\ forcing' = forcing /\ s = <<>>
    BY <1>1, BeginningClosed, Beginning
  <2>2. \A l \in Locks : owner[l] # th
    <3>1. \A y : ~Has(<<>>, y)
      BY DEF Has
    <3> QED
      BY <1>k, <2>1, <3>1
  <2>3. LocksTyped'
    BY <1>k, <2>1 DEF LocksTyped
  <2> HIDE DEF q
  <2> QED
    BY <1>s, <2>1, <2>2, <2>3
<1>2. CASE Step(th)
  <2>h. /\ s # <<>> /\ s \in Seq(Steps) /\ x \in Steps /\ r \in Seq(Steps) /\ x = Do(op, c)
        /\ Closes(x, r) /\ Closed(r) /\ \A y : Has(s, y) <=> y = x \/ Has(r, y)
        /\ op \in ComputedOps => c \in Computed
        /\ op \in {"refresh", "ack"} => c \in Traces
        /\ op \in {"lock", "unlock"} => c \in Locks
    <3>1. s # <<>> /\ s \in Seq(Steps) /\ x \in Steps /\ r \in Seq(Steps) /\ x = Do(op, c)
      BY <1>2, Shapes, Heads
    <3>2. Closes(x, r) /\ Closed(r)
      BY <1>k, <3>1, ClosedTaken
    <3> QED
      BY <3>1, <3>2, Taken, StepTypes DEF On
  <2>p. /\ Pops(th) => q = r
        /\ \A steps : Then(th, steps) => q = steps \o r
    BY <1>k DEF Pops, Then
  <2>u. op # "unlock" => \A l \in Locks : owner[l] = th => Has(r, Unlock(l))
    <3>1. op # "unlock" => \A l : x # Unlock(l)
      BY Names
    <3> QED
      BY <1>k, <2>h, <3>1
  <2>1. CASE op \in {"lock", "deletable"} /\ Raise(th)
    <3>1. /\ q = <<>> /\ owner' = [l \in Locks |-> IF owner[l] = th THEN Nobody ELSE owner[l]]
          /\ forcing' \subseteq forcing
      BY <1>k, <2>1 DEF Raise
    <3>2. LocksTyped'
      BY <1>k, <3>1 DEF LocksTyped
    <3>3. Closed(<<>>)
      BY DEF Closed
    <3>4. \A l \in Locks : owner'[l] # th /\ owner'[l] \in {owner[l], th, Nobody}
      BY <1>k, <3>1
    <3> HIDE DEF q
    <3> QED
      BY <1>s, <3>1, <3>2, <3>3, <3>4
  <2>2. CASE /\ op = "lock" /\ Pops(th) /\ owner[c] = Nobody
             /\ owner' = [owner EXCEPT ![c] = th] /\ forcing' = forcing
    <3>1. x = Lock(c) /\ c \in Locks
      BY <2>h, <2>2 DEF Lock
    <3>2. Has(r, Unlock(c))
      BY <2>h, <3>1 DEF Closes
    <3>3. \A l \in Locks : owner'[l] = IF l = c THEN th ELSE owner[l]
      BY <1>k, <2>2
    <3>4. LocksTyped'
      BY <1>k, <2>2 DEF LocksTyped
    <3>5. \A l \in Locks : owner'[l] = th => Has(r, Unlock(l))
      BY <2>2, <2>u, <3>2, <3>3
    <3> HIDE DEF q
    <3> QED
      BY <1>s, <2>h, <2>p, <2>2, <3>3, <3>4, <3>5
  <2>3. CASE op = "unlock" /\ Pops(th) /\ owner' = [owner EXCEPT ![c] = Nobody] /\ forcing' = forcing
    <3>1. x = Unlock(c) /\ c \in Locks
      BY <2>h, <2>3 DEF Unlock
    <3>3. \A l \in Locks : owner'[l] = IF l = c THEN Nobody ELSE owner[l]
      BY <1>k, <2>3
    <3>4. LocksTyped'
      BY <1>k, <2>3 DEF LocksTyped
    <3>5. ASSUME NEW l \in Locks, owner'[l] = th PROVE Has(r, Unlock(l))
      <4>1. l # c /\ owner[l] = th
        BY <1>k, <3>3, <3>5
      <4>2. Unlock(l) # x
        BY <3>1, <4>1, Names
      <4> QED
        BY <1>k, <2>h, <4>1, <4>2
    <3> HIDE DEF q
    <3> QED
      BY <1>s, <2>h, <2>p, <2>3, <3>3, <3>4, <3>5
  <2>4. ASSUME op # "unlock", owner' = owner, LocksTyped',
               Closed(q), \A y : Has(r, y) => Has(q, y)
        PROVE  LocksTyped' /\ AllClosed' /\ HeldForLater'
    <3> HIDE DEF q
    <3> QED
      BY <1>s, <2>u, <2>4
  <2>5. CASE \/ op = "force" /\ Pops(th) /\ owner' = owner /\ forcing' = forcing \cup {<<Home[th], c>>}
             \/ op = "unforce" /\ Pops(th) /\ owner' = owner /\ forcing' = forcing \ {<<Home[th], c>>}
    <3>1. LocksTyped'
      BY <1>k, <2>h, <2>5 DEF LocksTyped, ComputedOps
    <3>2. q = r
      BY <2>p, <2>5
    <3> HIDE DEF q
    <3> QED
      BY <2>h, <2>4, <2>5, <3>1, <3>2
  <2>6. CASE /\ owner' = owner /\ forcing' = forcing
             /\ \/ op = "refresh" /\ Then(th, RefreshObsels(th, c))
                \/ op = "check" /\ Then(th, Recompute(c))
                \/ op = "describe" /\ Then(th, Describe(c))
                \/ op \notin {"lock", "unlock", "force", "unforce", "refresh"} /\ Pops(th)
    <3>1. LocksTyped'
      BY <1>k, <2>6 DEF LocksTyped
    <3>2. Closed(q) /\ (\A y : Has(r, y) => Has(q, y)) /\ op # "unlock"
      <4>1. CASE op = "refresh" /\ Then(th, RefreshObsels(th, c))
        <5>1. q = RefreshObsels(th, c) \o r /\ c \in Traces
          BY <2>h, <2>p, <4>1
        <5> HIDE DEF q, r, c
        <5> QED
          BY <2>h, <4>1, <5>1, CalledClosed
      <4>2. CASE op = "check" /\ Then(th, Recompute(c))
        <5>1. q = Recompute(c) \o r /\ c \in Computed
          BY <2>h, <2>p, <4>2 DEF ComputedOps
        <5> HIDE DEF q, r, c
        <5> QED
          BY <2>h, <4>2, <5>1, ComputedClosed
      <4>3. CASE op = "describe" /\ Then(th, Describe(c))
        <5>1. q = Describe(c) \o r /\ c \in Computed
          BY <2>h, <2>p, <4>3 DEF ComputedOps
        <5> HIDE DEF q, r, c
        <5> QED
          BY <2>h, <4>3, <5>1, ComputedClosed
      <4>4. CASE op \notin {"lock", "unlock", "force", "unforce", "refresh"} /\ Pops(th)
        <5>1. q = r
          BY <2>p, <4>4
        <5> HIDE DEF q
        <5> QED
          BY <2>h, <4>4, <5>1
      <4> QED
        BY <2>6, <4>1, <4>2, <4>3, <4>4
    <3> QED
      BY <2>4, <2>6, <3>1, <3>2
  <2> QED
    BY <1>2, <2>1, <2>2, <2>3, <2>5, <2>6, LockMoves
<1> QED
  BY <1>1, <1>2

\* What is computed is behind its source, and what is acknowledged behind both.
LEMMA NextBehind ==
  ASSUME Typed, AllTogether, ReadsTyped, Behind, NEW th \in Threads, Acts(th)
  PROVE  ReadsTyped' /\ Behind'
<1> DEFINE op == Head(todo[th]).op
           on == On(th)
<1>0. /\ content \in [Traces -> Nat] /\ content' \in [Traces -> Nat] /\ acked \in [Traces -> Nat]
      /\ goal \in [Threads -> Nat] /\ Stored \in Traces
      /\ \A c \in Computed : c \in Traces /\ Source[c] \in Traces /\ c # Stored
      /\ \A c \in Computed : content[c] <= content[Source[c]]
      /\ \A t \in Traces : acked[t] <= content[t]
  BY NextTyped, ChainAssumption DEF Typed, ReadsTyped, Behind, Traces
<1>n. \A t \in Traces : content[t] \in Nat /\ content'[t] \in Nat /\ acked[t] \in Nat
  BY <1>0
<1>1. CASE ~Step(th)
  <2>1. content' = content /\ acked' = acked
    BY <1>1, Beginning, BeginningGoals
  <2>2. goal' \in [Threads -> Nat]
    BY <1>0, <1>1, BeginningGoals
  <2> QED
    BY <1>0, <2>1, <2>2 DEF ReadsTyped, Behind
<1>2. CASE Step(th)
  <2>h. /\ op \in ComputedOps => on \in Computed
        /\ op \in {"refresh", "ack"} => on \in Traces
    BY <1>2, Shapes, Heads, StepTypes DEF On
  <2>g. goal' \in [Threads -> Nat]
    <3>1. goal' = goal \/ goal' = [goal EXCEPT ![th] = 0]
      BY <1>2, DataMoves DEF Raise
    <3> QED
      BY <1>0, <3>1
  <2>1. CASE op = "copy"
    <3>1. content' = [content EXCEPT ![on] = content[Source[on]]] /\ on \in Computed /\ acked' = acked
      BY <1>2, <2>h, <2>1, Effects, DataMoves DEF ComputedOps
    <3>2. \A t \in Traces : content'[t] = IF t = on THEN content[Source[on]] ELSE content[t]
      BY <1>0, <3>1
    <3>3. \A t \in Traces : content[t] <= content'[t]
      BY <1>0, <1>n, <3>1, <3>2
    <3>4. ASSUME NEW c \in Computed PROVE content'[c] <= content'[Source[c]]
      <4>1. content'[c] <= content[Source[c]]
        BY <1>0, <1>n, <3>2
      <4> QED
        BY <1>0, <1>n, <3>3, <4>1
    <3>5. ASSUME NEW t \in Traces PROVE acked'[t] <= content'[t]
      BY <1>0, <1>n, <3>1, <3>3
    <3> QED
      BY <1>0, <2>g, <3>1, <3>4, <3>5 DEF ReadsTyped, Behind
  <2>2. CASE op = "add"
    <3>1. content' = [content EXCEPT ![Stored] = @ + 1] /\ acked' = acked
      BY <1>2, <2>2, Effects, DataMoves
    <3>2. \A t \in Traces : content'[t] = IF t = Stored THEN content[t] + 1 ELSE content[t]
      BY <1>0, <3>1
    <3>4. ASSUME NEW c \in Computed PROVE content'[c] <= content'[Source[c]]
      <4>1. content'[c] = content[c] /\ content[Source[c]] <= content'[Source[c]]
        BY <1>0, <1>n, <3>2
      <4> QED
        BY <1>0, <1>n, <4>1
    <3>5. ASSUME NEW t \in Traces PROVE acked'[t] <= content'[t]
      BY <1>0, <1>n, <3>1, <3>2
    <3> QED
      BY <1>0, <2>g, <3>1, <3>4, <3>5 DEF ReadsTyped, Behind
  <2>3. CASE op \notin {"copy", "add"}
    <3>1. content' = content
      BY <1>2, <2>3, Effects
    <3>2. \/ acked' = acked
          \/ acked' = [acked EXCEPT ![on] = content[on]] /\ on \in Traces
      BY <1>2, <2>h, DataMoves
    <3>3. acked' \in [Traces -> Nat]
      BY <1>0, <3>2
    <3>4. \A t \in Traces : acked'[t] <= content[t]
      BY <1>0, <1>n, <3>2
    <3> QED
      BY <1>0, <2>g, <3>1, <3>3, <3>4 DEF ReadsTyped, Behind
  <2> QED
    BY <2>1, <2>2, <2>3
<1> QED
  BY <1>1, <1>2

\* Types, and: no lock is held by a thread that has nothing to do, whatever was
\* raised, what has been acknowledged is there; for any traces, threads and
\* processes (lock.py, and the `with' and `finally' of engine/trace_obsels.py).
THEOREM TypeCorrect == Spec => []TypeOK
<1>1. Init => TypeInv
  <2> SUFFICES ASSUME Init PROVE TypeInv
    OBVIOUS
  <2>0. /\ \A th \in Threads : todo[th] = <<>>
        /\ \A t \in Traces : content[t] = 0 /\ acked[t] = 0
        /\ forcing = {} /\ owner = [l \in Locks |-> Nobody]
        /\ \A c \in Computed : c \in Traces /\ Source[c] \in Traces
    BY ChainAssumption DEF Init, Traces
  <2>1. IInv
    BY InitInvariants
  <2>2. ReadsTyped /\ LocksTyped
    BY <2>0 DEF Init, ReadsTyped, LocksTyped
  <2>3. AllClosed
    BY <2>0 DEF AllClosed, Closed
  <2>4. HeldForLater /\ Behind
    BY <2>0, NobodyAssumption DEF HeldForLater, Behind
  <2> QED
    BY <2>1, <2>2, <2>3, <2>4 DEF TypeInv
<1>2. TypeInv /\ [Next]_vars => TypeInv'
  <2> SUFFICES ASSUME TypeInv, [Next]_vars PROVE TypeInv'
    OBVIOUS
  <2>0. IInv'
    BY NextInvariants DEF TypeInv
  <2>1. CASE UNCHANGED vars
    <3>1. /\ content' = content /\ acked' = acked /\ todo' = todo
          /\ owner' = owner /\ forcing' = forcing /\ goal' = goal
      BY <2>1 DEF vars, data
    <3> QED
      BY <2>0, <3>1 DEF TypeInv, ReadsTyped, LocksTyped, AllClosed, HeldForLater, Behind
  <2>2. CASE Next
    <3> PICK th \in Threads : Acts(th)
      BY <2>2 DEF Next, Acts
    <3>1. Typed /\ AllTogether
      BY DEF TypeInv, IInv
    <3> QED
      BY <2>0, <3>1, NextClosed, NextBehind DEF TypeInv
  <2> QED
    BY <2>1, <2>2
<1>3. TypeInv => TypeOK
  <2> SUFFICES ASSUME TypeInv PROVE TypeOK
    OBVIOUS
  <2>1. ASSUME NEW l \in Locks, owner[l] # Nobody PROVE ~Idle(owner[l])
    <3>1. owner[l] \in Threads /\ Has(todo[owner[l]], Unlock(l))
      BY <2>1 DEF TypeInv, LocksTyped, HeldForLater
    <3>2. \A y : ~Has(<<>>, y)
      BY DEF Has
    <3> QED
      BY <3>1, <3>2 DEF Idle
  <2>2. Typed /\ ReadsTyped /\ LocksTyped /\ Behind
    BY DEF TypeInv, IInv
  <2> QED
    BY <2>1, <2>2 DEF TypeOK, Typed, ReadsTyped, LocksTyped, Behind
<1> QED
  BY <1>1, <1>2, <1>3, PTL DEF Spec
=============================================================================
