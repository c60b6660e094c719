------------------------------- MODULE Creation -------------------------------
(***************************************************************************)
(* The creation of items by the Python API (BaseMixin.create_...): it      *)
(* makes a graph from its arguments, and asks the base to trust it when it *)
(* has made all of it, which spares the checks and the completion of the   *)
(* posted graphs (GraphPostableMixin.post_graph).                          *)
(***************************************************************************)
EXTENDS Descriptions

Absent == Named("absent", 0, FALSE)
Known == DOMAIN held \cup {Builtin, Absent}

\* What the API may be asked for: `one' is the model, the parent or the method;
\* `several' are the sources; `named' tells that an identifier is given, and
\* `more' is the rest of a graph that is given.
Arguments(c) ==
  [named : BOOLEAN, more : {{}, {<<"label", Lit("string", 0)>>}}, label : Labels,
   one : IF c \in {"Method", "StoredTrace", "ComputedTrace"} THEN Known ELSE {Model},
   several : IF c = "ComputedTrace" THEN {{}} \cup {{u} : u \in Known} \cup {{Model, u} : u \in Known} ELSE {{}},
   params : IF c \in {"Method", "ComputedTrace"} THEN {{}, {[key |-> "k", value |-> 1]}} ELSE {{}},
   origin : IF c = "StoredTrace" THEN {Lit("string", 0), Lit("string", 9), Lit("date", 1)} ELSE {Lit("string", 0)}]

\* The type of a data graph is posted as that of a base (api/base.py:391).
PostedAs(c) == IF c = "DataGraph" THEN "Base" ELSE c

Said(c, a) ==
  {<<"type", c>>, <<"in", "contains">>} \cup a.more
  \cup {<<"hasParameter", Lit("string", p)>> : p \in a.params}
  \cup CASE c = "Method" -> {<<"hasParentMethod", Uri(a.one)>>}
         [] c = "StoredTrace" -> {<<"hasModel", Uri(a.one)>>, <<"hasOrigin", a.origin>>}
         [] c = "ComputedTrace" -> {<<"hasMethod", Uri(a.one)>>} \cup {<<"hasSource", Uri(s)>> : s \in a.several}
         [] OTHER -> {}

\* A method that is not of the base may be a built-in one: the base will tell.
InBase(u) == u # Builtin
Trusted(c, a) ==
  /\ ~a.named /\ a.more = {}
  /\ c \in {"Method", "ComputedTrace"} => InBase(a.one)

\* Mutant: the sources of a trace are not looked at.
Raises_AnySource(c, a) ==
  /\ Trusted(c, a) /\ c \in {"Method", "ComputedTrace"}
  /\ a.one \notin DOMAIN listing \/ listing[a.one] # "Method"

\* What is checked before: the method and the sources are listed by the base.
Raises(c, a) ==
  /\ Trusted(c, a) /\ c \in {"Method", "ComputedTrace"}
  /\ \/ a.one \notin DOMAIN listing \/ listing[a.one] # "Method"
     \/ \E s \in a.several : s \notin DOMAIN listing \/ listing[s] \notin Traces

\* What is stored; nothing when it is refused.
Stored(c, a) ==
  LET g == Said(c, a)
      class == PostedAs(c)
      completed == IF Trusted(c, a) THEN g ELSE Complete(class, g, {})
  IN  {completed : uri \in {u \in Minted(a.label, class) :
         ~Raises(c, a) /\ (Trusted(c, a) \/ CheckNewGraph(class, u, completed, {}))}}

----------------------------------------------------------------------------
(* Property *)

\* "We somehow duplicate ComputedTrace.complete_new_graph and
\* ComputedTrace.check_new_graph here" (api/base.py:324): whatever the base
\* holds, what is trusted would have been accepted as it is from a client who is
\* not, and what the API refuses would have been refused, but for the method of
\* a computed trace, which the base does not look at.  It would have been
\* completed, though, if it is a model, which gets no unit, or if its origin is
\* "now", which is not replaced.  A data graph would be refused, trusted or not,
\* and an assertion says so.
TrustIsEarned ==
  /\ \A a \in Arguments("DataGraph") : \A u \in Minted(a.label, "Base") :
       ~CheckNewGraph(PostedAs("DataGraph"), u, Said("DataGraph", a), {})
  /\ \A c \in Classes : \A a \in Arguments(c) : Trusted(c, a) =>
       LET g == Said(c, a)
           accepted(u) == CheckNewGraph(c, u, Complete(c, g, {}), {})
       IN  /\ \A u \in Minted(a.label, c) : Raises(c, a) # accepted(u) \/ (c = "ComputedTrace" /\ ~IsA(Uri(a.one), {"Method"}))
           /\ ~Raises(c, a) => \A u \in Minted(a.label, c) : accepted(u)
           /\ \A h \in Stored(c, a) : Complete(c, h, {}) = h \/ c = "TraceModel" \/ Now \in h
=============================================================================
