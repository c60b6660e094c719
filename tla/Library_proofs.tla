--------------------------- MODULE Library_proofs ---------------------------
(***************************************************************************)
(* The parts of the kTBS that run by themselves: what they promise, for    *)
(* any input where they are functions, and in any state that they reach    *)
(* where they have one.                                                    *)
(***************************************************************************)
EXTENDS MCLibrary, Sequences, FiniteSetTheorems, TLAPS

----------------------------------------------------------------------------
(* What a behaviour is about *)

\* A function is applied to one input of its own.
Applied == part \in DOMAIN Functions => input \in Functions[part]

LEMMA AppliedKept == LibrarySpec => []Applied
<1>1. LibraryInit => Applied
  BY DEF LibraryInit, Applied, Functions
<1>2. Applied /\ [LibraryNext]_vars => Applied'
  BY DEF LibraryNext, Applied, vars, Functions
<1> QED BY <1>1, <1>2, PTL DEF LibrarySpec

----------------------------------------------------------------------------
(* Times *)

\* A date counts in integers.
IsADate(d) == d.local \in Int /\ d.offset \in Int

\* Finitely many numbers and dates.
AreTimes(o) ==
  /\ o.begin \subseteq Int /\ IsFiniteSet(o.begin) /\ o.end \subseteq Int /\ IsFiniteSet(o.end)
  /\ IsFiniteSet(o.beginDT) /\ \A d \in o.beginDT : IsADate(d)
  /\ IsFiniteSet(o.endDT) /\ \A d \in o.endDT : IsADate(d)

LEMMA TimesCardinality == \A X : T!Cardinality(X) = Cardinality(X)
BY DEF T!Cardinality, Cardinality

LEMMA AtMostOne ==
  ASSUME NEW X, NEW Y, IsFiniteSet(X), IsFiniteSet(Y), Cardinality(X) + Cardinality(Y) <= 1
  PROVE  (X = {} \/ \E x : X = {x}) /\ (Y = {} \/ \E y : Y = {y}) /\ (X = {} \/ Y = {})
<1>1. Cardinality(X) \in Nat /\ Cardinality(Y) \in Nat
  BY FS_CardinalityType
<1>2. (X = {} <=> Cardinality(X) = 0) /\ (Y = {} <=> Cardinality(Y) = 0)
  BY FS_EmptySet
<1>3. (Cardinality(X) = 1 => \E x : X = {x}) /\ (Cardinality(Y) = 1 => \E y : Y = {y})
  BY FS_Singleton
<1>4. Cardinality(X) \in {0, 1} /\ Cardinality(Y) \in {0, 1} /\ (Cardinality(X) = 0 \/ Cardinality(Y) = 0)
  BY <1>1
<1> QED BY <1>2, <1>3, <1>4

LEMMA OnlyOf == \A x : T!Only({x}) = x
BY DEF T!Only

LEMMA InstantType == ASSUME NEW d, IsADate(d) PROVE T!Instant(d) \in Int
BY DEF IsADate, T!Instant

\* Rounding to the even neighbour.
LEMMA Rounded ==
  ASSUME NEW a \in Int
  PROVE  /\ T!ToUnit("second", a) \in Int
         /\ a % 2 = 0 => 2 * T!ToUnit("second", a) = a
         /\ a % 2 # 0 => /\ T!ToUnit("second", a) % 2 = 0
                         /\ 2 * T!ToUnit("second", a) = a + 1 \/ 2 * T!ToUnit("second", a) = a - 1
<1>1. a = 2 * (a \div 2) + (a % 2) /\ a % 2 \in {0, 1} /\ a \div 2 \in Int
  OBVIOUS
<1>2. T!ToUnit("second", a) = IF a % 2 = 0 THEN a \div 2
                          ELSE CHOOSE n \in {a \div 2, a \div 2 + 1} : n % 2 = 0
  BY DEF T!ToUnit
<1>3. CASE a % 2 = 0
  BY <1>1, <1>2, <1>3
<1>4. CASE a % 2 # 0
  <2>1. PICK h \in Int : h = a \div 2 /\ a = 2 * h + 1
    BY <1>1, <1>4
  <2>2. \E n \in {h, h + 1} : n % 2 = 0
    OBVIOUS
  <2>3. T!ToUnit("second", a) \in {h, h + 1} /\ T!ToUnit("second", a) % 2 = 0
    BY <1>2, <1>4, <2>1, <2>2
  <2> QED BY <1>4, <2>1, <2>3
<1> QED BY <1>3, <1>4

LEMMA Monotone ==
  ASSUME NEW unit, T!HasConverter(unit), NEW a \in Int, NEW b \in Int, a <= b
  PROVE  T!ToUnit(unit, a) \in Int /\ T!ToUnit(unit, b) \in Int /\ T!ToUnit(unit, a) <= T!ToUnit(unit, b)
<1>1. CASE unit = "millisecond"
  BY <1>1 DEF T!ToUnit
<1>2. CASE unit = "second"
  <2>1. PICK x \in Int : x = T!ToUnit("second", a)
    BY Rounded
  <2>2. PICK y \in Int : y = T!ToUnit("second", b)
    BY Rounded
  <2>3. (a % 2 = 0 => 2 * x = a) /\ (a % 2 # 0 => x % 2 = 0 /\ (2 * x = a + 1 \/ 2 * x = a - 1))
    BY <2>1, Rounded
  <2>4. (b % 2 = 0 => 2 * y = b) /\ (b % 2 # 0 => y % 2 = 0 /\ (2 * y = b + 1 \/ 2 * y = b - 1))
    BY <2>2, Rounded
  <2>5. x <= y
    <3>1. CASE a = b
      BY <3>1, <2>1, <2>2
    <3>2. CASE a + 1 = b
      BY <3>2, <2>3, <2>4
    <3>3. CASE a + 2 <= b
      BY <3>3, <2>3, <2>4
    <3> QED BY <3>1, <3>2, <3>3
  <2> QED BY <1>2, <2>1, <2>2, <2>5
<1> QED BY <1>1, <1>2 DEF T!HasConverter

\* Times that are given in order are stored in order, whatever they are.
THEOREM TimesStayInOrder ==
  ASSUME NEW o, AreTimes(o), NEW unit, NEW origin, T!IsDate(origin) => IsADate(origin.date), NEW now \in Int
  PROVE  T!TimesInOrder(o, unit, origin, now)
<1> SUFFICES ASSUME T!InOrder(o, now)
             PROVE  LET r == T!Outcome(o, unit, origin, now)
                    IN  /\ r.kind # "refused"
                        /\ r.kind = "stored" => r.begin <= r.end
                        /\ r.kind = "error" => o.begin = {} /\ (~T!IsDate(origin) \/ ~T!HasConverter(unit))
  BY DEF T!TimesInOrder
<1>1. CASE T!Raises(o, unit, origin)
  <2>1. T!Outcome(o, unit, origin, now) = [kind |-> "error"]
    BY <1>1 DEF T!Outcome
  <2>2. o.begin = {} /\ (~T!IsDate(origin) \/ ~T!HasConverter(unit))
    BY <1>1 DEF T!Raises
  <2> QED BY <2>1, <2>2
<1>2. CASE ~T!Raises(o, unit, origin)
  <2> DEFINE c == T!Complete(o, unit, origin, now)
  <2>1. \E b, e \in Int : c.begin = {b} /\ c.end = {e} /\ b <= e
    <3>1. /\ o.begin = {} \/ \E x : o.begin = {x}
          /\ o.beginDT = {} \/ \E x : o.beginDT = {x}
          /\ o.begin = {} \/ o.beginDT = {}
      <4>1. IsFiniteSet(o.begin) /\ IsFiniteSet(o.beginDT)
        BY DEF AreTimes
      <4>2. Cardinality(o.begin) + Cardinality(o.beginDT) <= 1
        BY TimesCardinality DEF T!InOrder
      <4> QED BY <4>1, <4>2, AtMostOne
    <3>2. /\ o.end = {} \/ \E x : o.end = {x}
          /\ o.endDT = {} \/ \E x : o.endDT = {x}
          /\ o.end = {} \/ o.endDT = {}
      <4>1. IsFiniteSet(o.end) /\ IsFiniteSet(o.endDT)
        BY DEF AreTimes
      <4>2. Cardinality(o.end) + Cardinality(o.endDT) <= 1
        BY TimesCardinality DEF T!InOrder
      <4> QED BY <4>1, <4>2, AtMostOne
    <3>3. CASE o.begin # {}
      <4>1. PICK b : o.begin = {b}
        BY <3>1, <3>3
      <4>2. o.beginDT = {} /\ o.endDT = {} /\ o.end # {}
        BY <3>1, <3>3 DEF T!InOrder
      <4>3. PICK e : o.end = {e}
        BY <3>2, <4>2
      <4>4. b \in Int /\ e \in Int /\ b <= e
        BY <4>1, <4>3 DEF T!InOrder, AreTimes
      <4>5. T!Converted(o.beginDT, unit, origin) = {} /\ T!Converted(o.endDT, unit, origin) = {}
        BY <4>2 DEF T!Converted
      <4>6. c.begin = {b} /\ c.end = {e}
        BY <4>1, <4>3, <4>5 DEF T!Complete
      <4> QED BY <4>4, <4>6
    <3>4. CASE o.begin = {} /\ T!Converted(o.beginDT, unit, origin) = {}
      <4>1. T!IsDate(origin) /\ T!HasConverter(unit)
        BY <1>2, <3>4 DEF T!Raises
      <4>2. o.beginDT = {} /\ o.endDT = {} /\ o.end = {}
        BY <3>4, <4>1 DEF T!Converted, T!InOrder
      <4>3. T!Converted(o.endDT, unit, origin) = {}
        BY <4>2 DEF T!Converted
      <4>4. PICK b : b = T!ToUnit(unit, now - T!Instant(origin.date))
        OBVIOUS
      <4>5. b \in Int
        BY <4>1, <4>4, InstantType, Monotone
      <4>6. c.begin = {b} /\ c.end = {T!Only({b})}
        BY <3>4, <4>2, <4>3, <4>4 DEF T!Complete
      <4>7. T!Only({b}) = b
        BY OnlyOf
      <4> QED BY <4>5, <4>6, <4>7
    <3>5. CASE o.begin = {} /\ T!Converted(o.beginDT, unit, origin) # {}
      <4>1. T!IsDate(origin) /\ T!HasConverter(unit) /\ o.beginDT # {} /\ o.end = {}
        BY <3>5 DEF T!Converted, T!InOrder
      <4>2. PICK d : o.beginDT = {d} /\ IsADate(d)
        BY <3>1, <4>1 DEF AreTimes
      <4>3. PICK b : b = T!ToUnit(unit, T!Instant(d) - T!Instant(origin.date))
        OBVIOUS
      <4>4. T!Instant(d) \in Int /\ T!Instant(origin.date) \in Int
        BY <4>1, <4>2, InstantType
      <4>5. b \in Int
        BY <4>1, <4>3, <4>4, Monotone
      <4>6. T!Converted(o.beginDT, unit, origin) = {b}
        BY <4>1, <4>2, <4>3 DEF T!Converted
      <4>7. c.begin = {b}
        BY <3>5, <4>6 DEF T!Complete
      <4>8. CASE o.endDT = {}
        <5>1. T!Converted(o.endDT, unit, origin) = {}
          BY <4>8 DEF T!Converted
        <5>2. c.end = {T!Only({b})}
          BY <3>5, <4>1, <4>6, <5>1 DEF T!Complete
        <5>3. T!Only({b}) = b
          BY OnlyOf
        <5> QED BY <4>5, <4>7, <5>2, <5>3
      <4>9. CASE o.endDT # {}
        <5>1. PICK d2 : o.endDT = {d2} /\ IsADate(d2)
          BY <3>2, <4>9 DEF AreTimes
        <5>2. T!Instant(d) <= T!Instant(d2) /\ T!Instant(d2) \in Int
          BY <4>2, <5>1, InstantType DEF T!InOrder
        <5>3. PICK e : e = T!ToUnit(unit, T!Instant(d2) - T!Instant(origin.date))
          OBVIOUS
        <5>4. e \in Int /\ b <= e
          <6>1. PICK m, n \in Int : m = T!Instant(d) - T!Instant(origin.date) /\ n = T!Instant(d2) - T!Instant(origin.date) /\ m <= n
            BY <4>4, <5>2
          <6> QED BY <4>1, <4>3, <5>3, <6>1, Monotone
        <5>5. T!Converted(o.endDT, unit, origin) = {e}
          BY <4>1, <5>1, <5>3 DEF T!Converted
        <5>6. c.end = {e}
          BY <4>1, <5>5 DEF T!Complete
        <5> QED BY <4>5, <4>7, <5>4, <5>6
      <4> QED BY <4>8, <4>9
    <3> QED BY <3>3, <3>4, <3>5
  <2>2. PICK b, e \in Int : c.begin = {b} /\ c.end = {e} /\ b <= e
    BY <2>1
  <2>3. T!Only(c.begin) = b /\ T!Only(c.end) = e
    BY <2>2, OnlyOf
  <2>4. T!Accepted(c)
    <3>1. Cardinality(c.begin) = 1 /\ Cardinality(c.end) = 1
      BY <2>2, FS_Singleton
    <3>2. ~(b < b)
      BY <2>2
    <3> HIDE DEF c
    <3> QED BY <2>3, <3>1, <3>2, TimesCardinality DEF T!Accepted
  <2>5. T!Outcome(o, unit, origin, now) = [kind |-> "stored", begin |-> b, end |-> e]
    BY <1>2, <2>3, <2>4 DEF T!Outcome
  <2> QED BY <2>2, <2>5
<1> QED BY <1>1, <1>2

\* ObselTimesInOrder, for the times that the runs give (engine/obsel.py:173-259).
THEOREM TimesCorrect == LibrarySpec => []ObselTimesInOrder
<1>1. ASSUME NEW i \in TimeInputs
      PROVE  T!TimesInOrder(i.obsel, i.unit, i.origin, TimeNow)
  <2>1. /\ i.obsel \in {Given(b, e) : b \in Times, e \in Times} \cup {T!ApiTimes(b, e, TimeNow) : b \in Times, e \in Times}
        /\ i.origin \in {[kind |-> "opaque"]} \cup {[kind |-> "date", date |-> d] : d \in {x \in Dates : x.local = 1}}
    BY <1>1 DEF TimeInputs
  <2>2. TimeNow \in Int
    BY DEF TimeNow
  <2>3. T!IsDate(i.origin) => IsADate(i.origin.date)
    BY <2>1 DEF T!IsDate, IsADate, Dates
  <2>4. AreTimes(i.obsel)
    <3>1. \A t \in Times : t = {} \/ (\E n \in Int : t = {[number |-> n]}) \/ \E d : IsADate(d) /\ t = {[date |-> d]}
      BY DEF Times, Opt, Dates, IsADate
    <3> DEFINE numbers(X) == {t.number : t \in {x \in X : "number" \in DOMAIN x}}
               dates(X) == {t.date : t \in {x \in X : "date" \in DOMAIN x}}
    <3>2. ASSUME NEW X, X = {} \/ (\E n \in Int : X = {[number |-> n]}) \/ \E d : IsADate(d) /\ X = {[date |-> d]}
          PROVE  /\ IsFiniteSet(numbers(X)) /\ numbers(X) \subseteq Int
                 /\ IsFiniteSet(dates(X)) /\ \A d \in dates(X) : IsADate(d)
      <4>1. CASE X = {}
        <5>1. numbers(X) = {} /\ dates(X) = {}
          BY <4>1
        <5> HIDE DEF numbers, dates
        <5> QED BY <5>1, FS_EmptySet
      <4>2. CASE \E n \in Int : X = {[number |-> n]}
        <5>1. PICK n \in Int : X = {[number |-> n]}
          BY <4>2
        <5>2. {x \in X : "number" \in DOMAIN x} = {[number |-> n]} /\ {x \in X : "date" \in DOMAIN x} = {}
          BY <5>1
        <5>3. numbers(X) = {n} /\ dates(X) = {}
          <6>1. numbers(X) = {t.number : t \in {[number |-> n]}} /\ dates(X) = {t.date : t \in {}}
            BY <5>2, Zenon
          <6> QED BY <6>1
        <5> HIDE DEF numbers, dates
        <5> QED BY <5>3, FS_EmptySet, FS_Singleton
      <4>3. CASE \E d : IsADate(d) /\ X = {[date |-> d]}
        <5>1. PICK d : IsADate(d) /\ X = {[date |-> d]}
          BY <4>3
        <5>2. {x \in X : "number" \in DOMAIN x} = {} /\ {x \in X : "date" \in DOMAIN x} = {[date |-> d]}
          BY <5>1
        <5>3. numbers(X) = {} /\ dates(X) = {d}
          <6>1. numbers(X) = {t.number : t \in {}} /\ dates(X) = {t.date : t \in {[date |-> d]}}
            BY <5>2, Zenon
          <6> QED BY <6>1
        <5> HIDE DEF numbers, dates
        <5> QED BY <5>1, <5>3, FS_EmptySet, FS_Singleton
      <4> QED BY <3>2, <4>1, <4>2, <4>3
    <3>3. ASSUME NEW X, X = {} \/ (\E n \in Int : X = {[number |-> n]}) \/ \E d : IsADate(d) /\ X = {[date |-> d]},
                 NEW Y, Y = {} \/ (\E n \in Int : Y = {[number |-> n]}) \/ \E d : IsADate(d) /\ Y = {[date |-> d]}
          PROVE  AreTimes([begin |-> numbers(X), beginDT |-> dates(X), end |-> numbers(Y), endDT |-> dates(Y)])
      <4> HIDE DEF numbers, dates
      <4>1. /\ IsFiniteSet(numbers(X)) /\ numbers(X) \subseteq Int /\ IsFiniteSet(dates(X)) /\ \A d \in dates(X) : IsADate(d)
            /\ IsFiniteSet(numbers(Y)) /\ numbers(Y) \subseteq Int /\ IsFiniteSet(dates(Y)) /\ \A d \in dates(Y) : IsADate(d)
        BY <3>2, <3>3
      <4> QED BY <4>1 DEF AreTimes
    <3>4. ASSUME NEW b \in Times, NEW e \in Times, i.obsel = Given(b, e)
          PROVE  AreTimes(i.obsel)
      <4>1. i.obsel = [begin |-> numbers(b), beginDT |-> dates(b), end |-> numbers(e), endDT |-> dates(e)]
        BY <3>4 DEF Given
      <4> HIDE DEF numbers, dates
      <4> QED BY <4>1, <3>1, <3>3
    <3>5. ASSUME NEW b \in Times, NEW e \in Times, i.obsel = T!ApiTimes(b, e, TimeNow)
          PROVE  AreTimes(i.obsel)
      <4>1. PICK b1 : /\ b1 = IF b = {} THEN {[date |-> [local |-> TimeNow, zone |-> "some", offset |-> 0]]} ELSE b
                      /\ b1 = {} \/ (\E n \in Int : b1 = {[number |-> n]}) \/ \E d : IsADate(d) /\ b1 = {[date |-> d]}
        <5>1. IsADate([local |-> TimeNow, zone |-> "some", offset |-> 0])
          BY <2>2 DEF IsADate
        <5> HIDE DEF numbers, dates
        <5> QED BY <3>1, <5>1
      <4>2. PICK e1 : /\ e1 = IF e = {} THEN b1 ELSE e
                      /\ e1 = {} \/ (\E n \in Int : e1 = {[number |-> n]}) \/ \E d : IsADate(d) /\ e1 = {[date |-> d]}
        <5> HIDE DEF numbers, dates
        <5> QED BY <3>1, <4>1
      <4>3. i.obsel = [begin |-> numbers(b1), beginDT |-> dates(b1), end |-> numbers(e1), endDT |-> dates(e1)]
        BY <3>5, <4>1, <4>2 DEF T!ApiTimes
      <4> HIDE DEF numbers, dates
      <4> QED BY <4>1, <4>2, <4>3, <3>3
    <3> QED BY <2>1, <3>4, <3>5
  <2> QED BY <2>2, <2>3, <2>4, TimesStayInOrder
<1>2. Applied => ObselTimesInOrder
  BY <1>1 DEF Applied, Functions, ObselTimesInOrder
<1> QED BY <1>2, AppliedKept, PTL

----------------------------------------------------------------------------
(* The view of a base *)

\* The names of graphs are paths.
GraphsAreNamed(quads, Names) == \A q \in quads : q[4] \in Seq(Names)
IsGraph(c, Names) == c = V!NoGraph \/ c \in Seq(Names)

LEMMA NoPrefix == ASSUME NEW Names, NEW g \in Seq(Names) PROVE V!Include(<<>>, g)
<1>1. Len(<<>>) = 0 /\ Len(g) \in Nat
  OBVIOUS
<1>2. SubSeq(g, 1, 0) = <<>>
  OBVIOUS
<1> QED BY <1>1, <1>2 DEF V!Include

LEMMA AppendPrefix ==
  ASSUME NEW Names, NEW s \in Seq(Names), NEW x \in Names
  PROVE  V!Include(s, Append(s, x))
<1>1. Append(s, x) \in Seq(Names) /\ Len(Append(s, x)) = Len(s) + 1 /\ Len(s) \in Nat
  OBVIOUS
<1>2. SubSeq(Append(s, x), 1, Len(s)) = s
  OBVIOUS
<1> QED BY <1>1, <1>2 DEF V!Include

\* What is filtered by a prefix is what the part with this prefix holds.
LEMMA FilteredIsPart ==
  ASSUME NEW Names, NEW quads, GraphsAreNamed(quads, Names),
         NEW prefix, NEW c, IsGraph(c, Names),
         NEW own, own = {q \in quads : V!Include(prefix, q[4])}
  PROVE  V!Filtered(quads, prefix, c) = V!Filtered(own, <<>>, c)
<1>1. \A q \in own : V!Include(<<>>, q[4])
  BY NoPrefix DEF GraphsAreNamed
<1>2. CASE c = V!NoGraph
  <2>1. ~V!Fails(prefix, c) /\ ~V!Fails(<<>>, c)
    BY <1>2 DEF V!Fails
  <2>2. V!Filtered(quads, prefix, c) = {q \in quads : V!Include(prefix, q[4])}
    BY <1>2, <2>1 DEF V!Filtered
  <2>3. V!Filtered(own, <<>>, c) = {q \in own : V!Include(<<>>, q[4])}
    BY <1>2, <2>1 DEF V!Filtered
  <2> QED BY <1>1, <2>2, <2>3 DEF V!Include
<1>3. CASE c # V!NoGraph /\ V!Include(prefix, c)
  <2>1. ~V!Fails(prefix, c) /\ ~V!Fails(<<>>, c)
    BY <1>3, NoPrefix DEF V!Fails, IsGraph
  <2>2. V!Filtered(quads, prefix, c) = {q \in quads : q[4] = c}
    BY <1>3, <2>1 DEF V!Filtered
  <2>3. V!Filtered(own, <<>>, c) = {q \in own : q[4] = c}
    BY <1>3, <2>1 DEF V!Filtered
  <2>4. V!Include(prefix, c)
    BY <1>3 DEF V!Include
  <2> QED BY <2>2, <2>3, <2>4
<1>4. CASE c # V!NoGraph /\ ~V!Include(prefix, c)
  <2>1. V!Fails(prefix, c) /\ ~V!Fails(<<>>, c)
    BY <1>4, NoPrefix DEF V!Fails, IsGraph
  <2>2. V!Filtered(quads, prefix, c) = {}
    BY <2>1 DEF V!Filtered
  <2>3. V!Filtered(own, <<>>, c) = {q \in own : q[4] = c}
    BY <1>4, <2>1 DEF V!Filtered
  <2>4. ~V!Include(prefix, c)
    BY <1>4 DEF V!Include
  <2> QED BY <2>2, <2>3, <2>4
<1> QED BY <1>2, <1>3, <1>4

\* Nothing outside of a base can be told from its view, whatever the store holds,
\* and whatever the pattern, the path and the named graph of a query.
THEOREM ViewIsThePart ==
  ASSUME NEW Names, "@obsels" \in Names,
         NEW quads, GraphsAreNamed(quads, Names),
         NEW prefix \in Seq(Names), NEW c, IsGraph(c, Names),
         NEW s, NEW path, NEW o
  PROVE  V!ViewIsAPart(quads, prefix, s, path, o, c)
<1> DEFINE own == {q \in quads : V!Include(prefix, q[4])}
<1>0. own = {q \in quads : V!Include(prefix, q[4])}
  OBVIOUS
<1>1. \A d : IsGraph(d, Names) => V!Filtered(quads, prefix, d) = V!Filtered(own, <<>>, d)
  <2> HIDE DEF own
  <2>1. ASSUME NEW d, IsGraph(d, Names)
        PROVE  V!Filtered(quads, prefix, d) = V!Filtered(own, <<>>, d)
    BY <1>0, <2>1, FilteredIsPart
  <2> QED BY <2>1
<1>2. V!Filtered(quads, prefix, V!NoGraph) = own /\ V!Filtered(own, prefix, V!NoGraph) = own
  BY DEF V!Filtered, V!Fails, V!Include
<1> HIDE DEF own
<1>3. V!Filtered(own, <<>>, V!NoGraph) = own
  BY <1>1, <1>2 DEF IsGraph
<1>4. \A p : V!Quads(quads, prefix, s, p, o, c) = V!Quads(own, <<>>, s, p, o, c)
  BY <1>1 DEF V!Quads
<1>5. V!Ends(V!Context(quads, prefix, c), path) = V!Ends(V!Context(own, <<>>, c), path)
  <2>1. V!Context(quads, prefix, c) = V!Context(own, <<>>, c)
    BY <1>1 DEF V!Context
  <2> QED BY <2>1
<1>6. V!Triples(quads, prefix, s, path, o, c) = V!Triples(own, <<>>, s, path, o, c)
  BY <1>4, <1>5 DEF V!Triples
<1>7. V!ViewLen(quads, prefix) = V!Cardinality(own)
  <2>1. V!Quads(quads, prefix, V!Wild, V!Wild, V!Wild, V!NoGraph) = own
    BY <1>2 DEF V!Quads, V!Matches
  <2> QED BY <2>1 DEF V!ViewLen
<1>8. V!Contexts(quads, prefix) = {q[4] : q \in own}
  BY <1>2 DEF V!Contexts
<1>9. V!Answer(quads, prefix, <<"subtree">>, [from |-> FALSE]) = V!Answer(own, <<>>, <<"subtree">>, [from |-> FALSE])
  <2>1. ~(Len(<<"subtree">>) > 1) /\ <<"subtree">>[1] = "subtree" /\ V!Runs([from |-> FALSE])
    BY DEF V!Runs
  <2>2. V!Answer(quads, prefix, <<"subtree">>, [from |-> FALSE]) = [status |-> 200, data |-> V!Filtered(quads, prefix, V!NoGraph)]
    BY <2>1 DEF V!Answer
  <2>3. V!Answer(own, <<>>, <<"subtree">>, [from |-> FALSE]) = [status |-> 200, data |-> V!Filtered(own, <<>>, V!NoGraph)]
    BY <2>1 DEF V!Answer
  <2> QED BY <2>2, <2>3, <1>2, <1>3, Zenon
<1>10. ASSUME NEW scope \in {"base", "trace"}
       PROVE  LET trace == [base |-> prefix, obsels |-> Append(prefix, "@obsels"), computed |-> {}]
              IN  V!ComputeObsels(quads, trace, [scope |-> scope], FALSE) = V!ComputeObsels(own, trace, [scope |-> scope], FALSE)
  <2> DEFINE trace == [base |-> prefix, obsels |-> Append(prefix, "@obsels"), computed |-> {}]
  <2>1. V!Scope(quads, trace, [scope |-> scope]) = V!Scope(own, trace, [scope |-> scope])
    <3>1. CASE scope = "base"
      BY <3>1, <1>2 DEF V!Scope
    <3>2. CASE scope = "trace"
      <4>1. \A Q : V!Scope(Q, trace, [scope |-> scope]) = {q \in Q : q[4] = Append(prefix, "@obsels")}
        BY <3>2 DEF V!Scope
      <4>2. {q \in quads : q[4] = Append(prefix, "@obsels")} = {q \in own : q[4] = Append(prefix, "@obsels")}
        <5>1. V!Include(prefix, Append(prefix, "@obsels"))
          BY AppendPrefix
        <5> QED BY <1>0, <5>1
      <4> QED BY <4>1, <4>2
    <3> QED BY <3>1, <3>2
  <2> HIDE DEF trace
  <2>2. V!ComputeObsels(quads, trace, [scope |-> scope], FALSE) = V!ComputeObsels(own, trace, [scope |-> scope], FALSE)
    BY <2>1 DEF V!ComputeObsels
  <2> QED BY <2>2 DEF trace
<1>11. \A q \in quads : (V!GetContext(prefix, q[4]) # {}) <=> (q \in own)
  BY DEF V!GetContext, V!Include, own
<1> QED BY <1>4, <1>6, <1>7, <1>8, <1>9, <1>10, <1>11 DEF V!ViewIsAPart, own

\* ViewsArePart, for the stores that the runs give
\* (rdfrest/util/prefix_conjunctive_view.py).
THEOREM ViewCorrect == LibrarySpec => []ViewsArePart
<1>1. ASSUME NEW i \in ViewInputs, NEW s, NEW o
      PROVE  V!ViewIsAPart(i.quads, <<"b", "/">>, s, i.path, o, i.graph)
  <2> DEFINE Names == {"b", "c", "/", "m", "@obsels"}
  <2>1. GraphNames \subseteq Seq(Names) /\ <<"b", "/">> \in Seq(Names)
    BY DEF GraphNames
  <2>2. \A q \in i.quads : q[4] \in GraphNames
    <3>1. i.quads \in Few(2, {"x", "y"} \X {"p", "q"} \X {"x", "y"} \X GraphNames)
      BY DEF ViewInputs
    <3> DEFINE Q == {"x", "y"} \X {"p", "q"} \X {"x", "y"} \X GraphNames
    <3>2. \A n \in 1 .. 2, r \in [1 .. 2 -> Q] : r[n] \in Q
      OBVIOUS
    <3>3. ASSUME NEW r \in [1 .. 2 -> Q] PROVE {r[n] : n \in 1 .. 2} \subseteq Q
      <4> HIDE DEF Q
      <4> QED BY <3>2
    <3>4. i.quads \subseteq Q
      <4> HIDE DEF Q
      <4>1. i.quads \in {{}} \cup {{r[n] : n \in 1 .. 2} : r \in [1 .. 2 -> Q]}
        BY <3>1 DEF Few, Q
      <4> QED BY <3>3, <4>1
    <3> QED BY <3>4
  <2>3. i.graph = V!NoGraph \/ i.graph \in GraphNames
    BY DEF ViewInputs
  <2> HIDE DEF Names
  <2>4. "@obsels" \in Names
    BY DEF Names
  <2>5. GraphsAreNamed(i.quads, Names) /\ IsGraph(i.graph, Names)
    BY <2>1, <2>2, <2>3 DEF GraphsAreNamed, IsGraph
  <2> QED BY <2>1, <2>4, <2>5, ViewIsThePart
<1>2. Applied => ViewsArePart
  BY <1>1 DEF Applied, Functions, ViewsArePart
<1> QED BY <1>2, AppliedKept, PTL

----------------------------------------------------------------------------
(* Induction, and functions that are defined by recursion on numbers *)

\* A set of numbers with zero and the successor of each of its numbers has all
\* of them: the induction that the proofs below use, on a set instead of a formula.
LEMMA Induction ==
  ASSUME NEW P \in SUBSET Nat, 0 \in P, \A n \in P : n + 1 \in P
  PROVE  \A n \in Nat : n \in P
<1> SUFFICES ASSUME Nat \ P # {} PROVE FALSE
  OBVIOUS
<1> DEFINE R == {p \in Nat \X Nat : p[1] < p[2]}
<1>1. IsWellFoundedOn(R, Nat)
  BY NatLessThanWellFounded DEF OpToRel
<1> HIDE DEF R
<1>2. PICK n \in Nat \ P : \A m \in Nat \ P : ~(<<m, n>> \in R)
  BY <1>1, WFMin
<1>3. \A m \in Nat \ P : ~(m < n)
  BY <1>2 DEF R
<1>4. n \in Nat /\ n \notin P /\ n # 0
  OBVIOUS
<1>5. n - 1 \in Nat /\ n - 1 < n /\ (n - 1) + 1 = n
  BY <1>4
<1>6. n - 1 \in P
  BY <1>3, <1>5
<1> QED BY <1>4, <1>5, <1>6

\* f[k] is what n steps, applied in turn, make of b.
Advances(step, n, X) == step \in [(1 .. n) \X X -> X]
Iterated(f, step, n, b, X) == f \in [0 .. n -> X] /\ f[0] = b /\ \A k \in 1 .. n : f[k] = step[<<k, f[k - 1]>>]

LEMMA Iterates ==
  ASSUME NEW n \in Nat, NEW X, NEW b \in X, NEW step, Advances(step, n, X)
  PROVE  \E f : Iterated(f, step, n, b, X)
<1>0. step \in [(1 .. n) \X X -> X]
  BY DEF Advances
<1>1. PICK P : P = {j \in Nat : j <= n => \E f \in [0 .. j -> X] : f[0] = b /\ \A k \in 1 .. j : f[k] = step[<<k, f[k - 1]>>]}
  OBVIOUS
<1>2. 0 \in P
  <2>1. PICK f : f = [k \in 0 .. 0 |-> b]
    OBVIOUS
  <2>2. f \in [0 .. 0 -> X] /\ f[0] = b /\ 1 .. 0 = {}
    BY <2>1
  <2>3. \A k \in 1 .. 0 : f[k] = step[<<k, f[k - 1]>>]
    BY <2>2
  <2> QED BY <1>1, <2>2, <2>3
<1>3. ASSUME NEW j \in P PROVE j + 1 \in P
  <2>1. j \in Nat
    BY <1>1
  <2>2. SUFFICES ASSUME j + 1 <= n
                 PROVE  \E f \in [0 .. j + 1 -> X] : f[0] = b /\ \A k \in 1 .. j + 1 : f[k] = step[<<k, f[k - 1]>>]
    BY <1>1, <2>1
  <2>3. PICK f \in [0 .. j -> X] : f[0] = b /\ \A k \in 1 .. j : f[k] = step[<<k, f[k - 1]>>]
    BY <1>1, <2>1, <2>2
  <2>4. step[<<j + 1, f[j]>>] \in X
    <3>1. <<j + 1, f[j]>> \in (1 .. n) \X X
      BY <2>1, <2>2
    <3> QED BY <1>0, <3>1
  <2>5. PICK g : g = [k \in 0 .. j + 1 |-> IF k = j + 1 THEN step[<<j + 1, f[j]>>] ELSE f[k]]
    OBVIOUS
  <2>6. g \in [0 .. j + 1 -> X]
    <3>1. \A k \in 0 .. j + 1 : k # j + 1 => k \in 0 .. j
      BY <2>1
    <3> QED BY <2>3, <2>4, <2>5, <3>1
  <2>7. g[j + 1] = step[<<j + 1, f[j]>>] /\ \A k \in 0 .. j : g[k] = f[k]
    BY <2>1, <2>5
  <2>8. g[0] = b
    BY <2>1, <2>3, <2>7
  <2>9. ASSUME NEW k \in 1 .. j + 1 PROVE g[k] = step[<<k, g[k - 1]>>]
    <3>1. CASE k = j + 1
      <4>1. g[k - 1] = f[j]
        BY <2>1, <2>7, <3>1
      <4> QED BY <2>7, <3>1, <4>1
    <3>2. CASE k # j + 1
      <4>1. k \in 1 .. j /\ k - 1 \in 0 .. j /\ k \in 0 .. j
        BY <2>1, <3>2
      <4>2. g[k] = f[k] /\ g[k - 1] = f[k - 1]
        BY <2>7, <4>1
      <4>3. f[k] = step[<<k, f[k - 1]>>]
        BY <2>3, <4>1
      <4> QED BY <4>2, <4>3
    <3> QED BY <3>1, <3>2
  <2> QED BY <2>6, <2>8, <2>9
<1>4. P \in SUBSET Nat
  BY <1>1
<1>5. n \in P
  BY <1>2, <1>3, <1>4, Induction
<1>6. \E f \in [0 .. n -> X] : f[0] = b /\ \A k \in 1 .. n : f[k] = step[<<k, f[k - 1]>>]
  BY <1>1, <1>5
<1> QED BY <1>6 DEF Iterated

----------------------------------------------------------------------------
(* Items: graphs and their values *)

LEMMA ValuesAre == \A g, p, v : v \in ValuesOf(g, p) <=> \E s \in g : s[1] = p /\ s[2] = v
BY DEF ValuesOf

LEMMA SameValues ==
  ASSUME NEW g, NEW k, NEW p, \A s : s[1] = p => (s \in g <=> s \in k)
  PROVE  ValuesOf(g, p) = ValuesOf(k, p)
<1>1. \A v : v \in ValuesOf(g, p) <=> v \in ValuesOf(k, p)
  BY ValuesAre
<1> QED BY <1>1

\* The statements by which items tell of those that refer to them.
Links == {<<"in", "hasSource">>, <<"in", "hasParentMethod">>}

\* Two graphs that differ by such statements only.
Alike(g, k) == \A s : s \notin Links => (s \in g <=> s \in k)

LEMMA AlikeValues ==
  ASSUME NEW g, NEW k, Alike(g, k)
  PROVE  \A p : p # "in" => ValuesOf(g, p) = ValuesOf(k, p)
<1> SUFFICES ASSUME NEW p, p # "in" PROVE ValuesOf(g, p) = ValuesOf(k, p)
  OBVIOUS
<1>1. \A s : s[1] = p => s \notin Links
  BY DEF Links
<1> QED BY <1>1, SameValues DEF Alike

LEMMA AlikeChecks ==
  ASSUME NEW g, NEW k, Alike(g, k), NEW c
  PROVE  /\ CardinalitiesOK(c, g) => CardinalitiesOK(c, k)
         /\ TypesOK(g) => TypesOK(k)
         /\ ParametersOK(g, g) => ParametersOK(k, k)
<1>1. \A b \in CardinalityOf(c) : b.property # "in"
  BY DEF CardinalityOf, Bounds
<1>2. CardinalitiesOK(c, g) => CardinalitiesOK(c, k)
  BY <1>1, AlikeValues DEF CardinalitiesOK
<1>3. TypesOK(g) => TypesOK(k)
  BY DEF TypesOK, Alike, Links
<1>4. ValuesOf(g, "hasParameter") = ValuesOf(k, "hasParameter")
  BY AlikeValues
<1>5. ParametersOK(g, g) => ParametersOK(k, k)
  BY <1>4 DEF ParametersOK
<1> QED BY <1>2, <1>3, <1>5

\* Items, as records.
AreItems(h) == h = [u \in DOMAIN h |-> [class |-> h[u].class, graph |-> h[u].graph]]

LEMMA LinkedIs ==
  ASSUME NEW h, AreItems(h)
  PROVE  /\ AreItems(Linked(h)) /\ DOMAIN Linked(h) = DOMAIN h
         /\ \A u \in DOMAIN h : Linked(h)[u].class = h[u].class /\ Alike(h[u].graph, Linked(h)[u].graph)
         /\ \A u \in DOMAIN h, p \in {"hasSource", "hasParentMethod"} :
              Referring(Linked(h), p, u) <=> <<"in", p>> \in Linked(h)[u].graph
<1> DEFINE tells(u, p) == IF Referring(h, p, u) THEN {<<"in", p>>} ELSE {}
           free(u) == {s \in h[u].graph : s \notin Links}
           now(u) == free(u) \cup tells(u, "hasSource") \cup tells(u, "hasParentMethod")
<1>1. ASSUME NEW u \in DOMAIN h PROVE h[u] = [class |-> h[u].class, graph |-> h[u].graph]
  BY DEF AreItems
<1>2. DOMAIN Linked(h) = DOMAIN h
  BY DEF Linked
<1>3. ASSUME NEW u \in DOMAIN h PROVE Linked(h)[u] = [class |-> h[u].class, graph |-> now(u)]
  <2>1. Linked(h)[u] = [h[u] EXCEPT !.graph = now(u)]
    BY DEF Linked, Links
  <2> HIDE DEF now
  <2> QED BY <1>1, <2>1
<1>4. \A u \in DOMAIN h : Linked(h)[u].class = h[u].class /\ Linked(h)[u].graph = now(u)
  <2> SUFFICES ASSUME NEW u \in DOMAIN h
               PROVE  Linked(h)[u].class = h[u].class /\ Linked(h)[u].graph = now(u)
    OBVIOUS
  <2> HIDE DEF now
  <2>1. PICK l : l = now(u)
    OBVIOUS
  <2>2. Linked(h)[u] = [class |-> h[u].class, graph |-> l]
    BY <1>3, <2>1
  <2> QED BY <2>1, <2>2
<1>5. AreItems(Linked(h))
  <2>1. Linked(h) = [u \in DOMAIN h |-> Linked(h)[u]]
    BY DEF Linked
  <2>2. Linked(h) = [u \in DOMAIN Linked(h) |-> [class |-> Linked(h)[u].class, graph |-> Linked(h)[u].graph]]
    <3> HIDE DEF now
    <3> QED BY <2>1, <1>2, <1>3, <1>4
  <2> QED BY <2>2 DEF AreItems
<1>6. \A u \in DOMAIN h : Alike(h[u].graph, now(u))
  BY DEF Alike, Links
<1>7. \A u, p : p \in {"hasSource", "hasParentMethod"} => (Referring(Linked(h), p, u) <=> Referring(h, p, u))
  <2> SUFFICES ASSUME NEW u, NEW p \in {"hasSource", "hasParentMethod"}
               PROVE  Referring(Linked(h), p, u) <=> Referring(h, p, u)
    OBVIOUS
  <2>1. <<p, Uri(u)>> \notin Links
    BY DEF Links
  <2>2. \A v \in DOMAIN h : <<p, Uri(u)>> \in Linked(h)[v].graph <=> <<p, Uri(u)>> \in h[v].graph
    <3> HIDE DEF now
    <3> QED BY <2>1, <1>4, <1>6 DEF Alike
  <2> QED BY <1>2, <2>2 DEF Referring
<1>8. \A u \in DOMAIN h, p \in {"hasSource", "hasParentMethod"} : Referring(h, p, u) <=> <<"in", p>> \in now(u)
  BY DEF Links
<1> HIDE DEF now
<1> QED BY <1>2, <1>4, <1>5, <1>6, <1>7, <1>8

----------------------------------------------------------------------------
(* Items: what is posted and edited fits *)

\* What a class demands of the graph of an item.
Fits(c, g) ==
  /\ ValuesOf(g, "type") = {c} /\ <<"in", "contains">> \in g
  /\ CardinalitiesOK(c, g) /\ TypesOK(g) /\ (c = "Method" => ParametersOK(g, g))

LEMMA AlikeFits ==
  ASSUME NEW g, NEW k, Alike(g, k), NEW c, Fits(c, g)
  PROVE  Fits(c, k)
<1>1. ValuesOf(k, "type") = {c}
  BY AlikeValues DEF Fits
<1>2. <<"in", "contains">> \in k
  BY DEF Fits, Alike, Links
<1> QED BY <1>1, <1>2, AlikeChecks DEF Fits

\* The statements that complete_new_graph adds or takes away.
Completes == {"hasUnit", "hasParentMethod", "hasOrigin", "hasTraceBegin"}

LEMMA CompleteKeeps ==
  ASSUME NEW c, NEW g, NEW old, NEW s, s[1] \notin Completes
  PROVE  s \in Complete(c, g, old) <=> s \in g
<1>1. CASE c = "TraceModel"
  BY <1>1 DEF Complete, CompleteModel, Completes
<1>2. CASE c = "Method"
  BY <1>2 DEF Complete, CompleteMethod, Completes
<1>3. CASE c = "StoredTrace"
  <2>1. \A k : s \in Computed(k) => FALSE
    BY DEF Computed, Completes
  <2>2. \A k : s \in Dated(k) <=> s \in k
    BY DEF Dated, Completes
  <2>3. Complete(c, g, old) = CompleteTrace(g, old)
    BY <1>3 DEF Complete
  <2>4. s \in (g \cup (IF ValuesOf(g, "hasOrigin") = {} THEN {<<"hasOrigin", Lit("string", 0)>>} ELSE {})) <=> s \in g
    BY DEF Completes
  <2> QED BY <2>1, <2>2, <2>3, <2>4 DEF CompleteTrace
<1>4. CASE c \notin {"TraceModel", "Method", "StoredTrace"}
  BY <1>4 DEF Complete
<1> QED BY <1>1, <1>2, <1>3, <1>4

\* What has been checked fits: a new graph,
LEMMA CheckedFits ==
  ASSUME NEW c, NEW uri, NEW g0, NEW g, g = Complete(c, g0 \cup {<<"in", "contains">>}, {}),
         ValuesOf(g0, "type") = {c}, CheckNewGraph(c, uri, g, {})
  PROVE  Fits(c, g)
<1>1. \A s : s[1] = "type" => (s \in g <=> s \in g0)
  <2> SUFFICES ASSUME NEW s, s[1] = "type" PROVE s \in g <=> s \in g0
    OBVIOUS
  <2>1. s # <<"in", "contains">> /\ s[1] \notin Completes
    BY DEF Completes
  <2> QED BY <2>1, CompleteKeeps
<1>2. ValuesOf(g, "type") = {c}
  BY <1>1, SameValues
<1>3. <<"in", "contains">> \in g
  <2>1. <<"in", "contains">>[1] \notin Completes
    BY DEF Completes
  <2> QED BY <2>1, CompleteKeeps
<1>4. g \ {} = g
  OBVIOUS
<1>5. CardinalitiesOK(c, g) /\ TypesOK(g) /\ (c = "Method" => ParametersOK(g, g))
  BY <1>4 DEF CheckNewGraph
<1> QED BY <1>2, <1>3, <1>5 DEF Fits

\* or the one that replaces a graph that does.
LEMMA EditedFits ==
  ASSUME NEW c, NEW uri, NEW old, NEW g, Fits(c, old), CheckNewGraph(c, uri, g, old)
  PROVE  Fits(c, g)
<1>1. old # {}
  BY DEF Fits
<1>2. NamespacesOK(c, Changed(g, old), {}, {})
  BY <1>1 DEF CheckNewGraph
<1>3. \A s : s[1] \in {"type", "in"} => (s \in g <=> s \in old)
  BY <1>2 DEF NamespacesOK, Changed
<1>4. ValuesOf(g, "type") = {c}
  BY <1>3, SameValues DEF Fits
<1>5. <<"in", "contains">> \in g
  BY <1>3 DEF Fits
<1>6. CardinalitiesOK(c, g) /\ TypesOK(g)
  BY DEF CheckNewGraph
<1>7. ASSUME c = "Method" PROVE ParametersOK(g, g)
  <2>1. ParametersOK(g, g \ old) /\ ParametersOK(old, old)
    BY <1>7 DEF CheckNewGraph, Fits
  <2>2. CASE ValuesOf(g \ old, "hasParameter") # {}
    BY <2>1, <2>2 DEF ParametersOK
  <2>3. CASE ValuesOf(g \ old, "hasParameter") = {}
    <3>1. \A v : v \in ValuesOf(g, "hasParameter") => v \in ValuesOf(old, "hasParameter")
      <4>1. ASSUME NEW s \in g, s[1] = "hasParameter", s \notin old PROVE FALSE
        <5>1. s[2] \in ValuesOf(g \ old, "hasParameter")
          BY <4>1, ValuesAre
        <5> QED BY <2>3, <5>1
      <4> QED BY <4>1, ValuesAre
    <3> QED BY <2>1, <3>1 DEF ParametersOK
  <2> QED BY <2>2, <2>3
<1> QED BY <1>4, <1>5, <1>6, <1>7 DEF Fits

\* The state of the items: as they are demanded, and the model among them.
Items == AreItems(held) /\ WellFormed /\ Model \in DOMAIN held /\ held[Model].class = "TraceModel"

LEMMA ItemsFit ==
  ASSUME Items, NEW u \in DOMAIN held
  PROVE  /\ Fits(held[u].class, held[u].graph) /\ u \in DOMAIN listing /\ listing[u] = held[u].class
         /\ held[u] = [class |-> held[u].class, graph |-> held[u].graph]
<1>1. held[u] = [class |-> held[u].class, graph |-> held[u].graph]
  BY DEF Items, AreItems
<1> QED BY <1>1 DEF Items, WellFormed, Fits

LEMMA LinkedItems ==
  ASSUME NEW h, AreItems(h), \A u \in DOMAIN h : Fits(h[u].class, h[u].graph),
         Model \in DOMAIN h, h[Model].class = "TraceModel",
         held' = Linked(h), DOMAIN listing' = DOMAIN h, \A u \in DOMAIN h : listing'[u] = h[u].class
  PROVE  Items'
<1>1. /\ AreItems(held') /\ DOMAIN held' = DOMAIN h
      /\ \A u \in DOMAIN h : held'[u].class = h[u].class /\ Alike(h[u].graph, held'[u].graph)
      /\ \A u \in DOMAIN h, p \in {"hasSource", "hasParentMethod"} : Referring(held', p, u) <=> <<"in", p>> \in held'[u].graph
  BY LinkedIs
<1>2. \A u \in DOMAIN h : Fits(held'[u].class, held'[u].graph)
  BY <1>1, AlikeFits
<1>3. WellFormed'
  BY <1>1, <1>2 DEF WellFormed, Fits
<1> QED BY <1>1, <1>3 DEF Items

LEMMA PostItems ==
  ASSUME Items, NEW uri, NEW links, NEW g0, PostGraph(uri, links, g0)
  PROVE  Items'
<1> DEFINE types == ValuesOf(g0, "type")
<1>1. PICK c : types = {c} /\ A(types) = c
  <2>1. IsFiniteSet(Classes)
    <3>1. IsFiniteSet({"Base"})
      BY FS_Singleton
    <3>2. IsFiniteSet({"Base"} \cup {"TraceModel"})
      BY <3>1, FS_AddElement
    <3>3. IsFiniteSet(({"Base"} \cup {"TraceModel"}) \cup {"Method"})
      BY <3>2, FS_AddElement
    <3>4. IsFiniteSet((({"Base"} \cup {"TraceModel"}) \cup {"Method"}) \cup {"StoredTrace"})
      BY <3>3, FS_AddElement
    <3>5. IsFiniteSet(((({"Base"} \cup {"TraceModel"}) \cup {"Method"}) \cup {"StoredTrace"}) \cup {"ComputedTrace"})
      BY <3>4, FS_AddElement
    <3>6. Classes = ((({"Base"} \cup {"TraceModel"}) \cup {"Method"}) \cup {"StoredTrace"}) \cup {"ComputedTrace"}
      BY DEF Classes
    <3> QED BY <3>5, <3>6
  <2>2. types \subseteq Classes /\ Cardinality(types) = 1
    BY DEF PostGraph
  <2>3. IsFiniteSet(types)
    BY <2>1, <2>2, FS_Subset
  <2>4. PICK c : types = {c}
    <3> HIDE DEF types
    <3> QED BY <2>2, <2>3, FS_Singleton
  <2> QED BY <2>4 DEF A
<1>2. PICK g : g = Complete(c, g0 \cup {<<"in", "contains">>}, {})
  OBVIOUS
<1> DEFINE h == [u \in DOMAIN held \cup {uri} |-> IF u = uri THEN [class |-> c, graph |-> g] ELSE held[u]]
<1>3. /\ CheckNewGraph(c, uri, g, {}) /\ uri \notin DOMAIN listing
      /\ held' = Linked(h)
      /\ listing' = [u \in DOMAIN listing \cup {uri} |-> IF u = uri THEN c ELSE listing[u]]
  BY <1>1, <1>2 DEF PostGraph, InUse
<1>4. Fits(c, g)
  BY <1>1, <1>2, <1>3, CheckedFits
<1>5. DOMAIN h = DOMAIN held \cup {uri} /\ h[uri] = [class |-> c, graph |-> g] /\ \A u \in DOMAIN held : u # uri => h[u] = held[u]
  OBVIOUS
<1>6. DOMAIN listing = DOMAIN held /\ Model \in DOMAIN held /\ uri \notin DOMAIN held
  BY <1>3 DEF Items, WellFormed
<1>7. \A u \in DOMAIN h : h[u] = [class |-> h[u].class, graph |-> h[u].graph] /\ Fits(h[u].class, h[u].graph)
  <2> SUFFICES ASSUME NEW u \in DOMAIN h
               PROVE  h[u] = [class |-> h[u].class, graph |-> h[u].graph] /\ Fits(h[u].class, h[u].graph)
    OBVIOUS
  <2> HIDE DEF h
  <2>1. CASE u = uri
    BY <2>1, <1>4, <1>5
  <2>2. CASE u # uri
    BY <2>2, <1>5, ItemsFit
  <2> QED BY <2>1, <2>2
<1>8. AreItems(h)
  <2>1. h = [u \in DOMAIN h |-> h[u]]
    OBVIOUS
  <2> HIDE DEF h
  <2> QED BY <2>1, <1>7 DEF AreItems
<1>9. Model \in DOMAIN h /\ h[Model].class = "TraceModel"
  <2> HIDE DEF h
  <2> QED BY <1>5, <1>6 DEF Items
<1>10. DOMAIN listing' = DOMAIN h /\ \A u \in DOMAIN h : listing'[u] = h[u].class
  <2>1. \A u \in DOMAIN held : listing[u] = held[u].class
    BY DEF Items, WellFormed
  <2> HIDE DEF h
  <2> QED BY <2>1, <1>3, <1>5, <1>6
<1> HIDE DEF h
<1> QED BY <1>3, <1>7, <1>8, <1>9, <1>10, LinkedItems

LEMMA EditItems ==
  ASSUME Items, NEW uri \in DOMAIN held, NEW g0, EditGraph(uri, g0)
  PROVE  Items'
<1>1. PICK c, old, g : c = held[uri].class /\ old = held[uri].graph /\ g = Complete(c, g0, old)
  OBVIOUS
<1>2. PICK h : h = [held EXCEPT ![uri].graph = g]
  OBVIOUS
<1>3. CheckNewGraph(c, uri, g, old) /\ held' = Linked(h) /\ listing' = listing
  BY <1>1, <1>2 DEF EditGraph
<1>4. Fits(c, g)
  BY <1>1, <1>3, ItemsFit, EditedFits
<1>5. held[uri] = [class |-> c, graph |-> old]
  BY <1>1, ItemsFit
<1>6. DOMAIN h = DOMAIN held /\ h[uri] = [class |-> c, graph |-> g] /\ \A u \in DOMAIN held : u # uri => h[u] = held[u]
  BY <1>2, <1>5
<1>7. \A u \in DOMAIN h : h[u] = [class |-> h[u].class, graph |-> h[u].graph] /\ Fits(h[u].class, h[u].graph)
  <2> SUFFICES ASSUME NEW u \in DOMAIN h
               PROVE  h[u] = [class |-> h[u].class, graph |-> h[u].graph] /\ Fits(h[u].class, h[u].graph)
    OBVIOUS
  <2>1. CASE u = uri
    BY <2>1, <1>4, <1>6
  <2>2. CASE u # uri
    BY <2>2, <1>6, ItemsFit
  <2> QED BY <2>1, <2>2
<1>8. AreItems(h)
  <2>1. h = [u \in DOMAIN h |-> h[u]]
    BY <1>2
  <2> QED BY <2>1, <1>7 DEF AreItems
<1>9. \A u \in DOMAIN h : h[u].class = held[u].class
  BY <1>5, <1>6
<1>10. Model \in DOMAIN h /\ h[Model].class = "TraceModel"
  BY <1>6, <1>9 DEF Items
<1>11. DOMAIN listing' = DOMAIN h /\ \A u \in DOMAIN h : listing'[u] = h[u].class
  BY <1>3, <1>6, <1>9 DEF Items, WellFormed
<1> QED BY <1>3, <1>7, <1>8, <1>10, <1>11, LinkedItems

\* A computed trace is described: what it is computed from stays.
LEMMA DescribeItems ==
  ASSUME Items, NEW uri \in DOMAIN held, NEW described \in BOOLEAN, Describe(uri, described)
  PROVE  Items'
<1> DEFINE own == {"hasModel", "hasOrigin", "hasDiagnosis"}
<1>1. PICK old : old = held[uri].graph
  OBVIOUS
<1>2. PICK g : g = {s \in old : s[1] \notin own} \cup
            IF described THEN {<<"hasModel", Uri(Model)>>, <<"hasOrigin", Lit("string", 0)>>}
                         ELSE {<<"hasDiagnosis", Lit("string", 0)>>}
  OBVIOUS
<1>3. held[uri].class = "ComputedTrace" /\ held' = [held EXCEPT ![uri].graph = g] /\ listing' = listing
  BY <1>1, <1>2 DEF Describe
<1>4. Fits("ComputedTrace", old) /\ held[uri] = [class |-> "ComputedTrace", graph |-> old]
  BY <1>1, <1>3, ItemsFit
<1>5. \A s : s[1] \notin own => (s \in g <=> s \in old)
  BY <1>2
<1>6. \A p : p \notin own => ValuesOf(g, p) = ValuesOf(old, p)
  <2> HIDE DEF own
  <2> QED BY <1>5, SameValues
<1>7. Fits("ComputedTrace", g)
  <2>1. ValuesOf(g, "type") = {"ComputedTrace"}
    BY <1>4, <1>6 DEF Fits
  <2>2. <<"in", "contains">> \in g
    BY <1>4, <1>5 DEF Fits
  <2>3. CardinalitiesOK("ComputedTrace", g)
    <3>1. CardinalityOf("ComputedTrace") = {Bounds("hasMethod", 1, 1)}
      BY DEF CardinalityOf
    <3> QED BY <1>4, <1>6, <3>1 DEF Fits, CardinalitiesOK, Bounds
  <2>4. TypesOK(g)
    <3>1. ASSUME NEW s \in g, s[1] \notin {"type", "in"} PROVE Typed(s[1], s[2])
      <4>1. CASE s \in old
        BY <1>4, <3>1, <4>1 DEF Fits, TypesOK
      <4>2. CASE s \notin old
        <5>1. s \in {<<"hasModel", Uri(Model)>>, <<"hasOrigin", Lit("string", 0)>>, <<"hasDiagnosis", Lit("string", 0)>>}
          BY <1>2, <4>2
        <5>2. CASE s = <<"hasModel", Uri(Model)>>
          <6>1. s[1] = "hasModel" /\ s[2][1] = "uri"
            BY <5>2 DEF Uri
          <6> QED BY <6>1 DEF Typed
        <5>3. CASE s = <<"hasOrigin", Lit("string", 0)>>
          <6>1. s[1] = "hasOrigin" /\ s[2][1] = "literal"
            BY <5>3 DEF Lit
          <6> QED BY <6>1 DEF Typed, Uris
        <5>4. CASE s = <<"hasDiagnosis", Lit("string", 0)>>
          BY <5>4 DEF Typed, Uris
        <5> QED BY <5>1, <5>2, <5>3, <5>4
      <4> QED BY <4>1, <4>2
    <3> QED BY <3>1 DEF TypesOK
  <2> QED BY <2>1, <2>2, <2>3, <2>4 DEF Fits
<1>8. DOMAIN held' = DOMAIN held /\ held'[uri] = [class |-> "ComputedTrace", graph |-> g]
      /\ \A u \in DOMAIN held : u # uri => held'[u] = held[u]
  BY <1>3, <1>4
<1>9. \A u \in DOMAIN held : /\ held'[u] = [class |-> held[u].class, graph |-> held'[u].graph]
                             /\ Fits(held[u].class, held'[u].graph)
                             /\ \A s : s[1] \notin own => (s \in held'[u].graph <=> s \in held[u].graph)
  <2> SUFFICES ASSUME NEW u \in DOMAIN held
               PROVE  /\ held'[u] = [class |-> held[u].class, graph |-> held'[u].graph]
                      /\ Fits(held[u].class, held'[u].graph)
                      /\ \A s : s[1] \notin own => (s \in held'[u].graph <=> s \in held[u].graph)
    OBVIOUS
  <2> HIDE DEF own
  <2>1. CASE u = uri
    BY <2>1, <1>1, <1>3, <1>5, <1>7, <1>8
  <2>2. CASE u # uri
    BY <2>2, <1>8, ItemsFit
  <2> QED BY <2>1, <2>2
<1>10. AreItems(held')
  <2>1. held' = [u \in DOMAIN held |-> held'[u]]
    BY <1>3
  <2> HIDE DEF own
  <2> QED BY <2>1, <1>8, <1>9 DEF AreItems
<1>11. \A p, u : p \in {"hasSource", "hasParentMethod"} => (Referring(held', p, u) <=> Referring(held, p, u))
  <2>1. \A p, u : p \in {"hasSource", "hasParentMethod"} => <<p, Uri(u)>>[1] \notin own
    OBVIOUS
  <2> HIDE DEF own
  <2> QED BY <1>8, <1>9, <2>1 DEF Referring
<1>12. \A p, u : u \in DOMAIN held => (<<"in", p>> \in held'[u].graph <=> <<"in", p>> \in held[u].graph)
  <2>1. \A p : <<"in", p>>[1] \notin own
    OBVIOUS
  <2> HIDE DEF own
  <2> QED BY <1>9, <2>1
<1> HIDE DEF own
<1>13. WellFormed'
  <2>1. DOMAIN listing' = DOMAIN held'
    BY <1>3, <1>8 DEF Items, WellFormed
  <2>2. ASSUME NEW u \in DOMAIN held' PROVE listing'[u] = held'[u].class /\ Fits(held'[u].class, held'[u].graph)
    <3>1. PICK k : k = held'[u].graph
      OBVIOUS
    <3>2. u \in DOMAIN held /\ held'[u] = [class |-> held[u].class, graph |-> k] /\ Fits(held[u].class, k)
      BY <1>8, <1>9, <3>1
    <3>3. listing'[u] = held[u].class
      BY <1>3, <3>2, ItemsFit
    <3> QED BY <3>2, <3>3
  <2>3. \A u \in DOMAIN held', p \in {"hasSource", "hasParentMethod"} : Referring(held', p, u) <=> <<"in", p>> \in held'[u].graph
    BY <1>8, <1>11, <1>12 DEF Items, WellFormed
  <2> QED BY <2>1, <2>2, <2>3 DEF WellFormed, Fits
<1>14. Model \in DOMAIN held' /\ held'[Model].class = "TraceModel"
  BY <1>8, <1>9 DEF Items
<1> QED BY <1>10, <1>13, <1>14 DEF Items

LEMMA InitItems == Init => Items
<1> SUFFICES ASSUME Init PROVE Items
  OBVIOUS
<1> DEFINE g == {<<"type", "TraceModel">>, <<"in", "contains">>, <<"hasUnit", Uri("millisecond")>>}
<1>1. DOMAIN held = {Model} /\ held[Model] = [class |-> "TraceModel", graph |-> g] /\ listing = [u \in {Model} |-> "TraceModel"]
      /\ held = [u \in {Model} |-> [class |-> "TraceModel", graph |-> g]]
  BY DEF Init
<1>2. ValuesOf(g, "type") = {"TraceModel"} /\ ValuesOf(g, "hasUnit") = {Uri("millisecond")}
  <2>1. \A v : (v \in ValuesOf(g, "type") <=> v = "TraceModel") /\ (v \in ValuesOf(g, "hasUnit") <=> v = Uri("millisecond"))
    <3>1. \A s \in g : (s[1] = "type" => s[2] = "TraceModel")
                      /\ (s[1] = "hasUnit" => s[2] = Uri("millisecond"))
      OBVIOUS
    <3>2. (\E s \in g : s[1] = "type" /\ s[2] = "TraceModel") /\ (\E s \in g : s[1] = "hasUnit" /\ s[2] = Uri("millisecond"))
      OBVIOUS
    <3> HIDE DEF g
    <3>3. \A v : v \in ValuesOf(g, "type") <=> v = "TraceModel"
      <4>1. "TraceModel" \in ValuesOf(g, "type")
        BY <3>2, ValuesAre
      <4>2. ASSUME NEW v \in ValuesOf(g, "type") PROVE v = "TraceModel"
        <5>1. PICK s \in g : s[1] = "type" /\ s[2] = v
          BY ValuesAre
        <5>2. s[2] = "TraceModel"
          BY <3>1, <5>1
        <5> QED BY <5>1, <5>2
      <4> QED BY <4>1, <4>2
    <3>4. \A v : v \in ValuesOf(g, "hasUnit") <=> v = Uri("millisecond")
      BY <3>1, <3>2, ValuesAre
    <3> QED BY <3>3, <3>4
  <2> HIDE DEF g
  <2> QED BY <2>1
<1>3. CardinalitiesOK("TraceModel", g)
  <2>1. CardinalityOf("TraceModel") = {Bounds("hasUnit", 0, 1)}
    BY DEF CardinalityOf
  <2>2. Cardinality(ValuesOf(g, "hasUnit")) = 1
    BY <1>2, FS_Singleton
  <2> HIDE DEF g
  <2> QED BY <2>1, <2>2 DEF CardinalitiesOK, Bounds
<1>4. TypesOK(g)
  <2>1. ASSUME NEW s \in g, s[1] \notin {"type", "in"} PROVE Typed(s[1], s[2])
    <3>1. s = <<"hasUnit", Uri("millisecond")>>
      BY <2>1
    <3>2. s[1] = "hasUnit" /\ s[2][1] = "uri"
      BY <3>1 DEF Uri
    <3> QED BY <3>2 DEF Typed
  <2> HIDE DEF g
  <2> QED BY <2>1 DEF TypesOK
<1>5. <<"in", "contains">> \in g
  OBVIOUS
<1>6. \A p, u : p \in {"hasSource", "hasParentMethod"} => <<p, Uri(u)>> \notin g /\ <<"in", p>> \notin g
  OBVIOUS
<1> HIDE DEF g
<1>7. AreItems(held)
  BY <1>1 DEF AreItems
<1>8. \A p \in {"hasSource", "hasParentMethod"}, u \in DOMAIN held : Referring(held, p, u) <=> <<"in", p>> \in held[u].graph
  <2>1. \A v \in DOMAIN held : held[v].graph = g
    BY <1>1
  <2>2. ASSUME NEW p \in {"hasSource", "hasParentMethod"}, NEW u \in DOMAIN held
        PROVE  ~Referring(held, p, u) /\ <<"in", p>> \notin held[u].graph
    <3>1. <<p, Uri(u)>> \notin g /\ <<"in", p>> \notin g
      BY <1>6
    <3> QED BY <2>1, <3>1 DEF Referring
  <2> QED BY <2>2
<1>9. WellFormed
  BY <1>1, <1>2, <1>3, <1>4, <1>5, <1>8 DEF WellFormed
<1> QED BY <1>1, <1>7, <1>9 DEF Items

LEMMA NextItems == Items /\ Next => Items'
<1> SUFFICES ASSUME Items, Next PROVE Items'
  OBVIOUS
<1>1. CASE \E uri, links, g : PostGraph(uri, links, g)
  BY <1>1, PostItems
<1>2. CASE \E uri \in DOMAIN held : \E g : EditGraph(uri, g)
  BY <1>2, EditItems
<1>3. CASE \E uri \in DOMAIN held, described \in BOOLEAN : Describe(uri, described)
  BY <1>3, DescribeItems
<1> QED BY <1>1, <1>2, <1>3 DEF Next

LEMMA StutterItems == Items /\ UNCHANGED descriptions => Items'
BY DEF descriptions, Items, WellFormed, Referring, AreItems

\* Whatever clients post and edit, the items are as their classes demand, listed
\* with their class, contained in the base and aware of those that refer to them
\* (rdfrest/cores/mixins.py, engine/base.py).
THEOREM ItemsStayWellFormed == LibrarySpec => [](part = "items" => WellFormed)
<1>1. LibraryInit => (part = "items" => Items)
  BY InitItems DEF LibraryInit, Functions
<1>2. (part = "items" => Items) /\ [LibraryNext]_vars => (part = "items" => Items)'
  BY NextItems, StutterItems DEF LibraryNext, vars, descriptions
<1>3. (part = "items" => Items) => (part = "items" => WellFormed)
  BY DEF Items
<1> QED BY <1>1, <1>2, <1>3, PTL DEF LibrarySpec

----------------------------------------------------------------------------
(* Items: what is put back *)

\* The beginning that follows from the dates, in milliseconds.
Begins(g) ==
  {<<"hasTraceBegin", Lit("integer", 2 * (d[3] - o[3]))>> :
     d \in ValuesOf(g, "hasTraceBeginDT"), o \in {v \in ValuesOf(g, "hasOrigin") : v[2] = "date"}}

\* The unit is that of the start, and traces tell when they begin, if they can.
Steady ==
  /\ ValuesOf(held[Model].graph, "hasUnit") = {Uri("millisecond")}
  /\ \A u \in DOMAIN held : held[u].class = "StoredTrace" => Begins(held[u].graph) \subseteq held[u].graph

LEMMA UnitIs == Steady => Unit = "millisecond"
<1> SUFFICES ASSUME Steady PROVE Unit = "millisecond"
  OBVIOUS
<1>1. A({Uri("millisecond")}) = Uri("millisecond") /\ Uri("millisecond")[3] = "millisecond"
  BY DEF A, Uri
<1> QED BY <1>1 DEF Unit, Steady

LEMMA ComputedIs == ASSUME Steady, NEW g PROVE Computed(g) = Begins(g)
<1>1. Unit = "millisecond"
  BY UnitIs
<1>2. Computed(g) =
        {<<"hasTraceBegin", Lit("integer", n * (d[3] - o[3]))>> : n \in {2}, d \in ValuesOf(g, "hasTraceBeginDT"),
           o \in {v \in ValuesOf(g, "hasOrigin") : v[2] = "date"}}
  BY <1>1 DEF Computed
<1> QED BY <1>2 DEF Begins

LEMMA SameBegins ==
  ASSUME NEW g, NEW k, ValuesOf(g, "hasTraceBeginDT") = ValuesOf(k, "hasTraceBeginDT"),
         ValuesOf(g, "hasOrigin") = ValuesOf(k, "hasOrigin")
  PROVE  Begins(g) = Begins(k)
BY DEF Begins

\* What is completed tells when it begins.
LEMMA CompletedBegins ==
  ASSUME Steady, NEW g, NEW g0, NEW old, g = Complete("StoredTrace", g0, old)
  PROVE  Begins(g) \subseteq g
<1>1. PICK whole : g = whole \cup Begins(whole)
  BY ComputedIs DEF Complete, CompleteTrace
<1>2. \A s \in Begins(whole) : s[1] = "hasTraceBegin"
  BY DEF Begins
<1>3. ValuesOf(g, "hasTraceBeginDT") = ValuesOf(whole, "hasTraceBeginDT")
  BY <1>1, <1>2, SameValues
<1>4. ValuesOf(g, "hasOrigin") = ValuesOf(whole, "hasOrigin")
  BY <1>1, <1>2, SameValues
<1>5. Begins(g) = Begins(whole)
  BY <1>3, <1>4, SameBegins
<1> QED BY <1>1, <1>5

LEMMA AlikeBegins ==
  ASSUME NEW g, NEW k, Alike(g, k), Begins(g) \subseteq g
  PROVE  Begins(k) \subseteq k
<1>1. Begins(k) = Begins(g)
  <2>1. ValuesOf(k, "hasTraceBeginDT") = ValuesOf(g, "hasTraceBeginDT") /\ ValuesOf(k, "hasOrigin") = ValuesOf(g, "hasOrigin")
    BY AlikeValues
  <2> QED BY <2>1, SameBegins
<1>2. \A s \in Begins(g) : s \notin Links
  BY DEF Begins, Links
<1> QED BY <1>1, <1>2 DEF Alike

LEMMA LinkedSteady ==
  ASSUME NEW h, AreItems(h), Model \in DOMAIN h, ValuesOf(h[Model].graph, "hasUnit") = {Uri("millisecond")},
         \A u \in DOMAIN h : h[u].class = "StoredTrace" => Begins(h[u].graph) \subseteq h[u].graph,
         held' = Linked(h)
  PROVE  Steady'
<1>1. /\ DOMAIN held' = DOMAIN h
      /\ \A u \in DOMAIN h : held'[u].class = h[u].class /\ Alike(h[u].graph, held'[u].graph)
  BY LinkedIs
<1>2. ValuesOf(held'[Model].graph, "hasUnit") = {Uri("millisecond")}
  BY <1>1, AlikeValues
<1>3. ASSUME NEW u \in DOMAIN held', held'[u].class = "StoredTrace" PROVE Begins(held'[u].graph) \subseteq held'[u].graph
  BY <1>1, <1>3, AlikeBegins
<1> QED BY <1>2, <1>3 DEF Steady

LEMMA PostSteady ==
  ASSUME Items, Steady, NEW uri, NEW links, NEW g0, PostGraph(uri, links, g0)
  PROVE  Steady'
<1>1. PICK c, g, h : /\ g = Complete(c, g0 \cup {<<"in", "contains">>}, {})
                     /\ h = [u \in DOMAIN held \cup {uri} |-> IF u = uri THEN [class |-> c, graph |-> g] ELSE held[u]]
                     /\ held' = Linked(h) /\ uri \notin DOMAIN listing
  BY DEF PostGraph, InUse
<1>2. /\ DOMAIN h = DOMAIN held \cup {uri} /\ h[uri] = [class |-> c, graph |-> g]
      /\ \A u \in DOMAIN held : u # uri => h[u] = held[u]
  BY <1>1
<1>3. uri \notin DOMAIN held /\ Model \in DOMAIN held
  BY <1>1 DEF Items, WellFormed
<1>4. AreItems(h)
  <2>1. \A u \in DOMAIN h : h[u] = [class |-> h[u].class, graph |-> h[u].graph]
    <3> SUFFICES ASSUME NEW u \in DOMAIN h PROVE h[u] = [class |-> h[u].class, graph |-> h[u].graph]
      OBVIOUS
    <3>1. CASE u = uri
      BY <3>1, <1>2
    <3>2. CASE u # uri
      BY <3>2, <1>2, ItemsFit
    <3> QED BY <3>1, <3>2
  <2>2. h = [u \in DOMAIN h |-> h[u]]
    BY <1>1
  <2> QED BY <2>1, <2>2 DEF AreItems
<1>5. ValuesOf(h[Model].graph, "hasUnit") = {Uri("millisecond")}
  BY <1>2, <1>3 DEF Steady
<1>6. ASSUME NEW u \in DOMAIN h, h[u].class = "StoredTrace" PROVE Begins(h[u].graph) \subseteq h[u].graph
  <2>1. CASE u = uri
    <3>1. c = "StoredTrace" /\ h[u].graph = g
      BY <1>2, <1>6, <2>1
    <3> QED BY <1>1, <3>1, CompletedBegins
  <2>2. CASE u # uri
    BY <1>2, <1>6, <2>2 DEF Steady
  <2> QED BY <2>1, <2>2
<1> QED BY <1>1, <1>2, <1>3, <1>4, <1>5, <1>6, LinkedSteady

LEMMA EditSteady ==
  ASSUME ~UnitChanges, Items, Steady, NEW uri \in DOMAIN held, NEW g0, EditGraph(uri, g0)
  PROVE  Steady'
<1>1. PICK c, old, g : c = held[uri].class /\ old = held[uri].graph /\ g = Complete(c, g0, old)
  OBVIOUS
<1>2. PICK h : h = [held EXCEPT ![uri].graph = g]
  OBVIOUS
<1>3. held' = Linked(h) /\ (uri = Model => ValuesOf(g, "hasUnit") = ValuesOf(old, "hasUnit"))
  BY <1>1, <1>2 DEF EditGraph
<1>4. held[uri] = [class |-> c, graph |-> old]
  BY <1>1, ItemsFit
<1>5. DOMAIN h = DOMAIN held /\ h[uri] = [class |-> c, graph |-> g] /\ \A u \in DOMAIN held : u # uri => h[u] = held[u]
  BY <1>2, <1>4
<1>6. AreItems(h)
  <2>1. \A u \in DOMAIN h : h[u] = [class |-> h[u].class, graph |-> h[u].graph]
    <3> SUFFICES ASSUME NEW u \in DOMAIN h PROVE h[u] = [class |-> h[u].class, graph |-> h[u].graph]
      OBVIOUS
    <3>1. CASE u = uri
      BY <3>1, <1>5
    <3>2. CASE u # uri
      BY <3>2, <1>5, ItemsFit
    <3> QED BY <3>1, <3>2
  <2>2. h = [u \in DOMAIN h |-> h[u]]
    BY <1>2
  <2> QED BY <2>1, <2>2 DEF AreItems
<1>7. ValuesOf(h[Model].graph, "hasUnit") = {Uri("millisecond")}
  <2>1. CASE uri = Model
    BY <2>1, <1>1, <1>3, <1>5 DEF Steady
  <2>2. CASE uri # Model
    BY <2>2, <1>5 DEF Steady, Items
  <2> QED BY <2>1, <2>2
<1>8. ASSUME NEW u \in DOMAIN h, h[u].class = "StoredTrace" PROVE Begins(h[u].graph) \subseteq h[u].graph
  <2>1. CASE u = uri
    <3>1. c = "StoredTrace" /\ h[u].graph = g
      BY <1>5, <1>8, <2>1
    <3> QED BY <1>1, <3>1, CompletedBegins
  <2>2. CASE u # uri
    BY <1>5, <1>8, <2>2 DEF Steady
  <2> QED BY <2>1, <2>2
<1>9. Model \in DOMAIN h
  BY <1>5 DEF Items
<1> QED BY <1>3, <1>6, <1>7, <1>8, <1>9, LinkedSteady

LEMMA DescribeSteady ==
  ASSUME Items, Steady, NEW uri \in DOMAIN held, NEW described \in BOOLEAN, Describe(uri, described)
  PROVE  Steady'
<1>1. PICK g : held[uri].class = "ComputedTrace" /\ held' = [held EXCEPT ![uri].graph = g]
  BY DEF Describe
<1>2. held[uri] = [class |-> "ComputedTrace", graph |-> held[uri].graph]
  BY <1>1, ItemsFit
<1>3. /\ DOMAIN held' = DOMAIN held /\ held'[uri].class = "ComputedTrace"
      /\ \A u \in DOMAIN held : u # uri => held'[u] = held[u]
  BY <1>1, <1>2
<1>4. uri # Model /\ Model \in DOMAIN held
  BY <1>1 DEF Items
<1> QED BY <1>3, <1>4 DEF Steady

LEMMA InitSteady == Init => Steady
<1> SUFFICES ASSUME Init PROVE Steady
  OBVIOUS
<1> DEFINE g == {<<"type", "TraceModel">>, <<"in", "contains">>, <<"hasUnit", Uri("millisecond")>>}
<1>1. DOMAIN held = {Model} /\ held[Model] = [class |-> "TraceModel", graph |-> g]
  BY DEF Init
<1>2. ValuesOf(g, "hasUnit") = {Uri("millisecond")}
  <2>1. \A s \in g : (s[1] = "hasUnit" => s[2] = Uri("millisecond"))
    OBVIOUS
  <2>2. \E s \in g : s[1] = "hasUnit" /\ s[2] = Uri("millisecond")
    OBVIOUS
  <2> HIDE DEF g
  <2>3. \A v : v \in ValuesOf(g, "hasUnit") <=> v = Uri("millisecond")
    BY <2>1, <2>2, ValuesAre
  <2> QED BY <2>3
<1> HIDE DEF g
<1>3. \A u \in DOMAIN held : held[u].class = "TraceModel" /\ held[u].graph = g
  BY <1>1
<1>4. Model \in DOMAIN held
  BY <1>1
<1> QED BY <1>2, <1>3, <1>4 DEF Steady

LEMMA NextSteady == ~UnitChanges /\ Items /\ Steady /\ Next => Steady'
<1> SUFFICES ASSUME ~UnitChanges, Items, Steady, Next PROVE Steady'
  OBVIOUS
<1>1. CASE \E uri, links, g : PostGraph(uri, links, g)
  BY <1>1, PostSteady
<1>2. CASE \E uri \in DOMAIN held : \E g : EditGraph(uri, g)
  BY <1>2, EditSteady
<1>3. CASE \E uri \in DOMAIN held, described \in BOOLEAN : Describe(uri, described)
  BY <1>3, DescribeSteady
<1> QED BY <1>1, <1>2, <1>3 DEF Next

\* What is put back is accepted, and changes nothing.
LEMMA PutBack == Items /\ Steady => PutBackAccepted
<1> SUFFICES ASSUME Items, Steady, NEW u \in DOMAIN held
             PROVE  LET c == held[u].class
                        g == held[u].graph
                    IN  Complete(c, g, g) = g /\ CheckNewGraph(c, u, g, g)
  BY DEF PutBackAccepted
<1>1. PICK c, g : c = held[u].class /\ g = held[u].graph
  OBVIOUS
<1>2. Fits(c, g)
  BY <1>1, ItemsFit
<1>3. g # {} /\ g \ g = {} /\ Changed(g, g) = {}
  BY <1>2 DEF Fits, Changed
<1>4. Complete(c, g, g) = g
  <2>1. CASE c = "TraceModel"
    BY <1>3, <2>1 DEF Complete, CompleteModel
  <2>2. CASE c = "Method"
    <3>1. CompleteMethod(g, g) = (g \cup {<<"hasParentMethod", v>> : v \in {s[2] : s \in {}}}) \ {<<"hasParentMethod", v>> : v \in {s[2] : s \in {}}}
      <4>1. {t \in g \ g : t[1] = "inherits"} = {}
        OBVIOUS
      <4> QED BY <4>1, Zenon DEF CompleteMethod
    <3>2. CompleteMethod(g, g) = g
      BY <3>1
    <3> QED BY <2>2, <3>2 DEF Complete
  <2>3. CASE c = "StoredTrace"
    <3>1. Complete(c, g, g) = g \cup Begins(g)
      BY <1>3, <2>3, ComputedIs DEF Complete, CompleteTrace
    <3>2. Begins(g) \subseteq g
      BY <1>1, <2>3 DEF Steady
    <3> QED BY <3>1, <3>2
  <2>4. CASE c \notin {"TraceModel", "Method", "StoredTrace"}
    BY <2>4 DEF Complete
  <2> QED BY <2>1, <2>2, <2>3, <2>4
<1>5. CheckNewGraph(c, u, g, g)
  <2>1. \A p : ValuesOf({}, p) = {}
    BY DEF ValuesOf
  <2>2. NamespacesOK(c, {}, {}, {})
    BY DEF NamespacesOK
  <2>3. SourcesOK({}) /\ ParentOK({}) /\ ParametersOK(g, {})
    BY <2>1 DEF SourcesOK, ParentOK, ParametersOK
  <2> QED BY <1>2, <1>3, <2>2, <2>3 DEF CheckNewGraph, Fits
<1> QED BY <1>1, <1>4, <1>5

\* ItemsPutBack, whatever is posted and edited, if the unit of a model that traces
\* use is not edited.
THEOREM PutBackCorrect == ~UnitChanges => (LibrarySpec => []ItemsPutBack)
<1> SUFFICES ASSUME ~UnitChanges PROVE LibrarySpec => []ItemsPutBack
  OBVIOUS
<1>1. LibraryInit => (part = "items" => Items /\ Steady)
  BY InitItems, InitSteady DEF LibraryInit, Functions
<1>2. (part = "items" => Items /\ Steady) /\ [LibraryNext]_vars => (part = "items" => Items /\ Steady)'
  <2> SUFFICES ASSUME part = "items" => Items /\ Steady, [LibraryNext]_vars, part' = "items"
               PROVE  Items' /\ Steady'
    OBVIOUS
  <2>1. part = "items" /\ (Next \/ UNCHANGED descriptions)
    BY DEF LibraryNext, vars, descriptions
  <2>2. CASE Next
    BY <2>1, <2>2, NextItems, NextSteady
  <2>3. CASE UNCHANGED descriptions
    <3>1. Items'
      BY <2>1, <2>3, StutterItems
    <3>2. held' = held
      BY <2>3 DEF descriptions
    <3> QED BY <2>1, <3>1, <3>2 DEF Steady
  <2> QED BY <2>1, <2>2, <2>3
<1>3. (part = "items" => Items /\ Steady) => ItemsPutBack
  BY PutBack DEF ItemsPutBack
<1> QED BY <1>1, <1>2, <1>3, PTL DEF LibrarySpec

----------------------------------------------------------------------------
(* Items: what is created by the Python API *)

LEMMA MintedSlash ==
  ASSUME NEW label, NEW c, NEW u \in Minted(label, c)
  PROVE  u.slash = (c \in Folderish)
<1> DEFINE named(n) == [label |-> label, rank |-> n, slash |-> c \in Folderish]
<1>1. \E n : u = named(n)
  BY DEF Minted
<1>2. \A n : named(n).slash = (c \in Folderish)
  OBVIOUS
<1> HIDE DEF named
<1> QED BY <1>1, <1>2

\* The values that the API gives.
LEMMA SaidIs ==
  ASSUME NEW c \in Classes, NEW a, a.more = {}
  PROVE  /\ ValuesOf(Said(c, a), "type") = {c} /\ ValuesOf(Said(c, a), "in") = {"contains"}
         /\ ValuesOf(Said(c, a), "hasParameter") = {Lit("string", p) : p \in a.params}
         /\ ValuesOf(Said(c, a), "hasParentMethod") = IF c = "Method" THEN {Uri(a.one)} ELSE {}
         /\ ValuesOf(Said(c, a), "hasMethod") = IF c = "ComputedTrace" THEN {Uri(a.one)} ELSE {}
         /\ ValuesOf(Said(c, a), "hasSource") = IF c = "ComputedTrace" THEN {Uri(s) : s \in a.several} ELSE {}
         /\ ValuesOf(Said(c, a), "hasModel") = IF c = "StoredTrace" THEN {Uri(a.one)} ELSE {}
         /\ ValuesOf(Said(c, a), "hasOrigin") = IF c = "StoredTrace" THEN {a.origin} ELSE {}
         /\ \A s \in Said(c, a) : \/ s[1] \in {"type", "in", "hasParameter"}
                                  \/ c = "Method" /\ s[1] = "hasParentMethod"
                                  \/ c = "StoredTrace" /\ s[1] \in {"hasModel", "hasOrigin"}
                                  \/ c = "ComputedTrace" /\ s[1] \in {"hasMethod", "hasSource"}
<1> DEFINE base == {<<"type", c>>, <<"in", "contains">>} \cup {<<"hasParameter", Lit("string", p)>> : p \in a.params}
           own == CASE c = "Method" -> {<<"hasParentMethod", Uri(a.one)>>}
                    [] c = "StoredTrace" -> {<<"hasModel", Uri(a.one)>>, <<"hasOrigin", a.origin>>}
                    [] c = "ComputedTrace" -> {<<"hasMethod", Uri(a.one)>>} \cup {<<"hasSource", Uri(s)>> : s \in a.several}
                    [] OTHER -> {}
<1>1. Said(c, a) = base \cup own
  BY DEF Said
<1> DEFINE g == Said(c, a)
<1>2. \A s : s \in base <=> \/ s = <<"type", c>> \/ s = <<"in", "contains">>
                            \/ \E p \in a.params : s = <<"hasParameter", Lit("string", p)>>
  OBVIOUS
<1>3. \A s : s \in own <=> \/ c = "Method" /\ s = <<"hasParentMethod", Uri(a.one)>>
                           \/ c = "StoredTrace" /\ (s = <<"hasModel", Uri(a.one)>> \/ s = <<"hasOrigin", a.origin>>)
                           \/ c = "ComputedTrace" /\ (s = <<"hasMethod", Uri(a.one)>> \/ \E x \in a.several : s = <<"hasSource", Uri(x)>>)
  OBVIOUS
<1>4. \A s : s \in g <=> s \in base \/ s \in own
  BY <1>1
<1> HIDE DEF g, base, own
<1>5. \A v : v \in ValuesOf(g, "type") <=> v = c
  <2>1. \A s \in g : (s[1] = "type" => s = <<"type", c>>)
    BY <1>2, <1>3, <1>4
  <2>2. <<"type", c>> \in g
    BY <1>2, <1>4
  <2> QED BY <2>1, <2>2, ValuesAre
<1>6. \A v : v \in ValuesOf(g, "in") <=> v = "contains"
  <2>1. \A s \in g : (s[1] = "in" => s = <<"in", "contains">>)
    BY <1>2, <1>3, <1>4
  <2>2. <<"in", "contains">> \in g
    BY <1>2, <1>4
  <2> QED BY <2>1, <2>2, ValuesAre
<1>7. \A v : v \in ValuesOf(g, "hasParameter") <=> \E p \in a.params : v = Lit("string", p)
  <2>1. \A s \in g : (s[1] = "hasParameter" => \E p \in a.params : s = <<"hasParameter", Lit("string", p)>>)
    BY <1>2, <1>3, <1>4
  <2>2. \A p \in a.params : <<"hasParameter", Lit("string", p)>> \in g
    BY <1>2, <1>4
  <2>3. ASSUME NEW v \in ValuesOf(g, "hasParameter") PROVE \E p \in a.params : v = Lit("string", p)
    <3>1. PICK s \in g : s[1] = "hasParameter" /\ s[2] = v
      BY ValuesAre
    <3>2. PICK p \in a.params : s = <<"hasParameter", Lit("string", p)>>
      BY <2>1, <3>1
    <3>3. s[2] = Lit("string", p)
      BY <3>2
    <3> QED BY <3>1, <3>3
  <2>4. ASSUME NEW p \in a.params PROVE Lit("string", p) \in ValuesOf(g, "hasParameter")
    <3>1. PICK v : v = Lit("string", p)
      OBVIOUS
    <3>2. <<"hasParameter", v>> \in g
      BY <2>2, <3>1
    <3> QED BY <3>1, <3>2, ValuesAre
  <2> QED BY <2>3, <2>4
<1>8. \A v : v \in ValuesOf(g, "hasParentMethod") <=> c = "Method" /\ v = Uri(a.one)
  <2>1. \A s \in g : (s[1] = "hasParentMethod" => c = "Method" /\ s = <<"hasParentMethod", Uri(a.one)>>)
    BY <1>2, <1>3, <1>4
  <2>2. c = "Method" => <<"hasParentMethod", Uri(a.one)>> \in g
    BY <1>3, <1>4
  <2> QED BY <2>1, <2>2, ValuesAre
<1>9. \A v : v \in ValuesOf(g, "hasMethod") <=> c = "ComputedTrace" /\ v = Uri(a.one)
  <2>1. \A s \in g : (s[1] = "hasMethod" => c = "ComputedTrace" /\ s = <<"hasMethod", Uri(a.one)>>)
    BY <1>2, <1>3, <1>4
  <2>2. c = "ComputedTrace" => <<"hasMethod", Uri(a.one)>> \in g
    BY <1>3, <1>4
  <2> QED BY <2>1, <2>2, ValuesAre
<1>10. \A v : v \in ValuesOf(g, "hasSource") <=> c = "ComputedTrace" /\ \E x \in a.several : v = Uri(x)
  <2>1. \A s \in g : (s[1] = "hasSource" => c = "ComputedTrace" /\ \E x \in a.several : s = <<"hasSource", Uri(x)>>)
    BY <1>2, <1>3, <1>4
  <2>2. c = "ComputedTrace" => \A x \in a.several : <<"hasSource", Uri(x)>> \in g
    BY <1>3, <1>4
  <2>3. ASSUME NEW v \in ValuesOf(g, "hasSource") PROVE c = "ComputedTrace" /\ \E x \in a.several : v = Uri(x)
    <3>1. PICK s \in g : s[1] = "hasSource" /\ s[2] = v
      BY ValuesAre
    <3>2. PICK x \in a.several : s = <<"hasSource", Uri(x)>>
      BY <2>1, <3>1
    <3>3. s[2] = Uri(x)
      BY <3>2
    <3> QED BY <2>1, <3>1, <3>3
  <2>4. ASSUME c = "ComputedTrace", NEW x \in a.several PROVE Uri(x) \in ValuesOf(g, "hasSource")
    <3>1. PICK v : v = Uri(x)
      OBVIOUS
    <3>2. <<"hasSource", v>> \in g
      BY <2>2, <2>4, <3>1
    <3> QED BY <3>1, <3>2, ValuesAre
  <2> QED BY <2>3, <2>4
<1>11. \A v : v \in ValuesOf(g, "hasModel") <=> c = "StoredTrace" /\ v = Uri(a.one)
  <2>1. \A s \in g : (s[1] = "hasModel" => c = "StoredTrace" /\ s = <<"hasModel", Uri(a.one)>>)
    BY <1>2, <1>3, <1>4
  <2>2. c = "StoredTrace" => <<"hasModel", Uri(a.one)>> \in g
    BY <1>3, <1>4
  <2> QED BY <2>1, <2>2, ValuesAre
<1>12. \A v : v \in ValuesOf(g, "hasOrigin") <=> c = "StoredTrace" /\ v = a.origin
  <2>1. \A s \in g : (s[1] = "hasOrigin" => c = "StoredTrace" /\ s = <<"hasOrigin", a.origin>>)
    BY <1>2, <1>3, <1>4
  <2>2. c = "StoredTrace" => <<"hasOrigin", a.origin>> \in g
    BY <1>3, <1>4
  <2> QED BY <2>1, <2>2, ValuesAre
<1>13. \A s \in g : \/ s[1] \in {"type", "in", "hasParameter"}
                    \/ c = "Method" /\ s[1] = "hasParentMethod"
                    \/ c = "StoredTrace" /\ s[1] \in {"hasModel", "hasOrigin"}
                    \/ c = "ComputedTrace" /\ s[1] \in {"hasMethod", "hasSource"}
  BY <1>2, <1>3, <1>4
<1> USE DEF g
<1>14. ValuesOf(Said(c, a), "type") = {c} /\ ValuesOf(Said(c, a), "in") = {"contains"}
  BY <1>5, <1>6
<1>15. ValuesOf(Said(c, a), "hasParameter") = {Lit("string", p) : p \in a.params}
  BY <1>7
<1>16. ValuesOf(Said(c, a), "hasParentMethod") = IF c = "Method" THEN {Uri(a.one)} ELSE {}
  BY <1>8
<1>17. ValuesOf(Said(c, a), "hasMethod") = IF c = "ComputedTrace" THEN {Uri(a.one)} ELSE {}
  BY <1>9
<1>18. ValuesOf(Said(c, a), "hasSource") = IF c = "ComputedTrace" THEN {Uri(s) : s \in a.several} ELSE {}
  BY <1>10
<1>19. ValuesOf(Said(c, a), "hasModel") = IF c = "StoredTrace" THEN {Uri(a.one)} ELSE {}
  BY <1>11
<1>20. ValuesOf(Said(c, a), "hasOrigin") = IF c = "StoredTrace" THEN {a.origin} ELSE {}
  BY <1>12
<1> QED BY <1>13, <1>14, <1>15, <1>16, <1>17, <1>18, <1>19, <1>20

\* What is checked of a new graph.
LEMMA NewGraphChecks ==
  ASSUME NEW c \in Classes, NEW u, NEW g, u.slash = (c \in Folderish)
  PROVE  CheckNewGraph(c, u, g, {}) <=>
           /\ NamespacesOK(c, g, {c}, {"contains"}) /\ CardinalitiesOK(c, g) /\ TypesOK(g)
           /\ (c \in Traces => SourcesOK(g))
           /\ (c = "Method" => ParentOK(g) /\ ParametersOK(g, g))
<1>1. g \ {} = g
  OBVIOUS
<1> QED BY <1>1 DEF CheckNewGraph

\* The values that the API is given.
LEMMA ArgumentsAre ==
  ASSUME NEW c \in Classes, NEW a \in Arguments(c)
  PROVE  /\ c # "ComputedTrace" => a.several = {}
         /\ a.params = {} \/ (c \in {"Method", "ComputedTrace"} /\ \E p : a.params = {p})
         /\ a.origin[1] = "literal"
<1>1. CASE c = "ComputedTrace"
  <2>1. a.params \in {{}, {[key |-> "k", value |-> 1]}} /\ a.origin \in {Lit("string", 0)}
    BY <1>1 DEF Arguments
  <2>2. a.params = {} \/ \E p : a.params = {p}
    BY <2>1
  <2>3. a.origin[1] = "literal"
    BY <2>1 DEF Lit
  <2> QED BY <1>1, <2>2, <2>3
<1>2. CASE c = "Method"
  <2>1. a.several \in {{}} /\ a.params \in {{}, {[key |-> "k", value |-> 1]}} /\ a.origin \in {Lit("string", 0)}
    BY <1>2 DEF Arguments
  <2> QED BY <1>2, <2>1 DEF Lit
<1>3. CASE c \in {"Base", "TraceModel"}
  <2>1. a.several \in {{}} /\ a.params \in {{}} /\ a.origin \in {Lit("string", 0)}
    BY <1>3 DEF Arguments
  <2> QED BY <2>1 DEF Lit
<1>4. CASE c = "StoredTrace"
  <2>1. a.several \in {{}} /\ a.params \in {{}} /\ a.origin \in {Lit("string", 0), Lit("string", 9), Lit("date", 1)}
    BY <1>4 DEF Arguments
  <2> QED BY <2>1 DEF Lit
<1> QED BY <1>1, <1>2, <1>3, <1>4 DEF Classes
\* The statements of a graph that the API makes, one by one.
LEMMA SaidOne ==
  ASSUME NEW c \in Classes, NEW a \in Arguments(c), a.more = {}
  PROVE  LET g == Said(c, a)
         IN  /\ \A s \in g : s[1] = "type" => s[2] = c
             /\ \A s \in g : s[1] = "in" => s[2] = "contains"
             /\ \A s \in g : s[1] \notin {"type", "in"} => s[1] \in Editable(c) /\ Typed(s[1], s[2])
<1>1. PICK g : g = Said(c, a)
  OBVIOUS
<1>2. \A s \in g : s[2] \in ValuesOf(g, s[1])
  BY ValuesAre
<1>3. \A s \in g : s[1] = "type" => s[2] = c
  <2>1. ValuesOf(g, "type") = {c}
    BY <1>1, SaidIs
  <2> QED BY <1>2, <2>1
<1>4. \A s \in g : s[1] = "in" => s[2] = "contains"
  <2>1. ValuesOf(g, "in") = {"contains"}
    BY <1>1, SaidIs
  <2> QED BY <1>2, <2>1
<1>5. ASSUME NEW s \in g, s[1] = "hasParameter" PROVE c \in {"Method", "ComputedTrace"} /\ s[2][1] = "literal"
  <2>1. s[2] \in {Lit("string", p) : p \in a.params}
    BY <1>1, <1>2, <1>5, SaidIs
  <2>2. a.params # {}
    BY <2>1
  <2>3. s[2][1] = "literal"
    BY <2>1 DEF Lit
  <2> QED BY <2>2, <2>3, ArgumentsAre
<1>6. ASSUME NEW s \in g, s[1] = "hasParentMethod" PROVE c = "Method" /\ s[2][1] = "uri"
  <2>1. s[2] \in (IF c = "Method" THEN {Uri(a.one)} ELSE {})
    BY <1>1, <1>2, <1>6, SaidIs
  <2>2. c = "Method" /\ s[2] = Uri(a.one)
    BY <2>1
  <2>3. Uri(a.one)[1] = "uri"
    BY DEF Uri
  <2> QED BY <2>2, <2>3
<1>7. ASSUME NEW s \in g, s[1] = "hasMethod" PROVE c = "ComputedTrace"
  <2>1. s[2] \in (IF c = "ComputedTrace" THEN {Uri(a.one)} ELSE {})
    BY <1>1, <1>2, <1>7, SaidIs
  <2> QED BY <2>1
<1>8. ASSUME NEW s \in g, s[1] = "hasSource" PROVE c = "ComputedTrace" /\ s[2][1] = "uri"
  <2>1. s[2] \in (IF c = "ComputedTrace" THEN {Uri(x) : x \in a.several} ELSE {})
    BY <1>1, <1>2, <1>8, SaidIs
  <2>2. c = "ComputedTrace" /\ s[2] \in {Uri(x) : x \in a.several}
    BY <2>1
  <2>3. PICK x : s[2] = Uri(x)
    BY <2>2
  <2>4. Uri(x)[1] = "uri"
    BY DEF Uri
  <2> QED BY <2>2, <2>3, <2>4
<1>9. ASSUME NEW s \in g, s[1] = "hasModel" PROVE c = "StoredTrace" /\ s[2][1] = "uri"
  <2>1. s[2] \in (IF c = "StoredTrace" THEN {Uri(a.one)} ELSE {})
    BY <1>1, <1>2, <1>9, SaidIs
  <2>2. c = "StoredTrace" /\ s[2] = Uri(a.one)
    BY <2>1
  <2>3. Uri(a.one)[1] = "uri"
    BY DEF Uri
  <2> QED BY <2>2, <2>3
<1>10. ASSUME NEW s \in g, s[1] = "hasOrigin" PROVE c = "StoredTrace" /\ s[2][1] = "literal"
  <2>1. s[2] \in (IF c = "StoredTrace" THEN {a.origin} ELSE {})
    BY <1>1, <1>2, <1>10, SaidIs
  <2> QED BY <2>1, ArgumentsAre
<1>11. ASSUME NEW s \in g, s[1] \notin {"type", "in"} PROVE s[1] \in Editable(c) /\ Typed(s[1], s[2])
  <2>1. s[1] \in {"hasParameter", "hasParentMethod", "hasMethod", "hasSource", "hasModel", "hasOrigin"}
    BY <1>1, <1>11, SaidIs
  <2>2. s[1] \in Editable(c)
    <3>1. CASE c = "Method"
      BY <3>1, <2>1, <1>5, <1>6, <1>7, <1>8, <1>9, <1>10 DEF Editable
    <3>2. CASE c = "StoredTrace"
      BY <3>2, <2>1, <1>5, <1>6, <1>7, <1>8, <1>9, <1>10 DEF Editable
    <3>3. CASE c = "ComputedTrace"
      BY <3>3, <2>1, <1>5, <1>6, <1>7, <1>8, <1>9, <1>10 DEF Editable
    <3>4. CASE c \notin {"Method", "StoredTrace", "ComputedTrace"}
      BY <3>4, <2>1, <1>5, <1>6, <1>7, <1>8, <1>9, <1>10
    <3> QED BY <3>1, <3>2, <3>3, <3>4
  <2>3. Typed(s[1], s[2])
    BY <2>1, <1>5, <1>6, <1>8, <1>9, <1>10 DEF Typed, Uris
  <2> QED BY <2>2, <2>3
<1> QED BY <1>1, <1>3, <1>4, <1>11

\* What the completion does to it.
LEMMA SaidCompleted ==
  ASSUME NEW c \in Classes, NEW a \in Arguments(c), a.more = {}
  PROVE  LET g == Said(c, a)
         IN  /\ c \notin {"TraceModel", "StoredTrace"} => Complete(c, g, {}) = g
             /\ c = "TraceModel" => Complete(c, g, {}) = g \cup {<<"hasUnit", Uri("millisecond")>>}
             /\ c = "StoredTrace" => Complete(c, g, {}) = Dated(g)
<1>1. PICK g : g = Said(c, a)
  OBVIOUS
<1>2. \A s \in g : s[1] \notin {"type", "in"} => s[1] \in Editable(c)
  BY <1>1, SaidOne
<1>3. ASSUME NEW p, \A s \in g : s[1] # p PROVE ValuesOf(g, p) = {}
  BY <1>3, ValuesAre
<1>4. CASE c = "TraceModel"
  <2>1. \A s \in g : s[1] # "hasUnit"
    <3>1. \A s \in g : s[1] \in {"type", "in", "hasParameter"}
      BY <1>1, <1>4, SaidIs
    <3> QED BY <3>1
  <2>2. ValuesOf(g, "hasUnit") = {}
    BY <1>3, <2>1
  <2> QED BY <1>1, <1>4, <2>2 DEF Complete, CompleteModel
<1>5. CASE c = "Method"
  <2>1. \A s \in g : s[1] # "inherits"
    BY <1>1, <1>5, SaidIs
  <2>2. CompleteMethod(g, {}) = g
    BY <2>1 DEF CompleteMethod
  <2> QED BY <1>1, <1>5, <2>2 DEF Complete
<1>6. CASE c = "StoredTrace"
  <2>1. ValuesOf(g, "hasOrigin") # {}
    BY <1>1, <1>6, SaidIs
  <2>2. PICK k : k = Dated(g)
    OBVIOUS
  <2>3. \A s \in k : s[1] # "hasTraceBeginDT"
    <3>1. \A s \in g : s[1] # "hasTraceBeginDT"
      BY <1>1, <1>6, SaidIs
    <3> QED BY <2>2, <3>1 DEF Dated
  <2>4. ValuesOf(k, "hasTraceBeginDT") = {}
    BY <2>3, ValuesAre
  <2>5. Computed(k) = {}
    BY <2>4 DEF Computed
  <2>6. CompleteTrace(g, {}) = k
    BY <2>1, <2>2, <2>5 DEF CompleteTrace
  <2> QED BY <1>1, <1>6, <2>2, <2>6 DEF Complete
<1>7. CASE c \notin {"TraceModel", "Method", "StoredTrace"}
  BY <1>1, <1>7 DEF Complete
<1> QED BY <1>1, <1>4, <1>5, <1>6, <1>7
\* What the API makes passes the checks of a new graph, but for what it refers to.
LEMMA SaidAccepted ==
  ASSUME NEW c \in Classes, NEW a \in Arguments(c), a.more = {}, NEW u, u.slash = (c \in Folderish),
         NEW k, k = Complete(c, Said(c, a), {})
  PROVE  CheckNewGraph(c, u, k, {}) <=>
           /\ c = "ComputedTrace" => \A x \in a.several : IsA(Uri(x), Traces)
           /\ c = "Method" => Uri(a.one) = Uri(Builtin) \/ IsA(Uri(a.one), {"Method"})
<1>1. PICK g : g = Said(c, a)
  OBVIOUS
<1>2. /\ \A s \in g : s[1] = "type" => s[2] = c
      /\ \A s \in g : s[1] = "in" => s[2] = "contains"
      /\ \A s \in g : s[1] \notin {"type", "in"} => s[1] \in Editable(c) /\ Typed(s[1], s[2])
  BY <1>1, SaidOne
<1>3. \A s \in k : s \in g \/ (c = "TraceModel" /\ s = <<"hasUnit", Uri("millisecond")>>)
                         \/ (c = "StoredTrace" /\ s = <<"hasOrigin", Lit("date", 1)>>)
  <2>1. CASE c = "TraceModel"
    BY <1>1, <2>1, SaidCompleted
  <2>2. CASE c = "StoredTrace"
    <3>1. k = Dated(g)
      BY <1>1, <2>2, SaidCompleted
    <3> QED BY <2>2, <3>1 DEF Dated
  <2>3. CASE c \notin {"TraceModel", "StoredTrace"}
    BY <1>1, <2>3, SaidCompleted
  <2> QED BY <2>1, <2>2, <2>3
<1>4. /\ \A s \in k : s[1] = "type" => s[2] = c
      /\ \A s \in k : s[1] = "in" => s[2] = "contains"
      /\ \A s \in k : s[1] \notin {"type", "in"} => s[1] \in Editable(c) /\ Typed(s[1], s[2])
  <2> SUFFICES ASSUME NEW s \in k
               PROVE  /\ s[1] = "type" => s[2] = c
                      /\ s[1] = "in" => s[2] = "contains"
                      /\ s[1] \notin {"type", "in"} => s[1] \in Editable(c) /\ Typed(s[1], s[2])
    OBVIOUS
  <2>1. CASE s \in g
    BY <1>2, <2>1
  <2>2. CASE c = "TraceModel" /\ s = <<"hasUnit", Uri("millisecond")>>
    <3>1. s[1] = "hasUnit" /\ s[2][1] = "uri"
      BY <2>2 DEF Uri
    <3> QED BY <2>2, <3>1 DEF Editable, Typed
  <2>3. CASE c = "StoredTrace" /\ s = <<"hasOrigin", Lit("date", 1)>>
    <3>1. s[1] = "hasOrigin" /\ s[2][1] = "literal"
      BY <2>3 DEF Lit
    <3>2. Typed(s[1], s[2])
      BY <3>1 DEF Typed, Uris
    <3>3. "hasOrigin" \in Editable("StoredTrace")
      BY DEF Editable
    <3> QED BY <2>3, <3>1, <3>2, <3>3
  <2> QED BY <1>3, <2>1, <2>2, <2>3
<1>5. NamespacesOK(c, k, {c}, {"contains"})
  BY <1>4 DEF NamespacesOK
<1>6. TypesOK(k)
  BY <1>4 DEF TypesOK
<1>7. ASSUME NEW p, p \notin {"hasUnit", "hasOrigin"} PROVE ValuesOf(k, p) = ValuesOf(g, p)
  <2>1. \A s : s[1] = p => (s \in k <=> s \in g)
    <3>1. CASE c = "TraceModel"
      BY <1>1, <1>7, <3>1, SaidCompleted
    <3>2. CASE c = "StoredTrace"
      <4>1. k = Dated(g)
        BY <1>1, <3>2, SaidCompleted
      <4> QED BY <1>7, <4>1 DEF Dated
    <3>3. CASE c \notin {"TraceModel", "StoredTrace"}
      BY <1>1, <3>3, SaidCompleted
    <3> QED BY <3>1, <3>2, <3>3
  <2> QED BY <2>1, SameValues
<1>8. CardinalitiesOK(c, k)
  <2>1. CASE c = "Base"
    <3>1. CardinalityOf(c) = {}
      BY <2>1 DEF CardinalityOf
    <3> QED BY <3>1 DEF CardinalitiesOK
  <2>2. CASE c = "TraceModel"
    <3>1. CardinalityOf(c) = {Bounds("hasUnit", 0, 1)}
      BY <2>2 DEF CardinalityOf
    <3>2. \A s \in g : s[1] # "hasUnit"
      BY <1>1, <2>2, SaidIs
    <3>3. \A v : v \in ValuesOf(k, "hasUnit") <=> v = Uri("millisecond")
      <4>1. k = g \cup {<<"hasUnit", Uri("millisecond")>>}
        BY <1>1, <2>2, SaidCompleted
      <4>2. PICK w : w = Uri("millisecond")
        OBVIOUS
      <4>3. \A s : s \in k /\ s[1] = "hasUnit" <=> s = <<"hasUnit", w>>
        BY <3>2, <4>1, <4>2
      <4>4. <<"hasUnit", w>> \in k /\ <<"hasUnit", w>>[1] = "hasUnit" /\ <<"hasUnit", w>>[2] = w
        BY <4>1, <4>2
      <4> QED BY <4>2, <4>3, <4>4, ValuesAre
    <3>4. Cardinality(ValuesOf(k, "hasUnit")) = 1
      <4>1. ValuesOf(k, "hasUnit") = {Uri("millisecond")}
        BY <3>3
      <4> QED BY <4>1, FS_Singleton
    <3> QED BY <3>1, <3>4 DEF CardinalitiesOK, Bounds
  <2>3. CASE c = "Method"
    <3>1. CardinalityOf(c) = {Bounds("hasParentMethod", 1, 1)}
      BY <2>3 DEF CardinalityOf
    <3>2. ValuesOf(k, "hasParentMethod") = {Uri(a.one)}
      BY <1>1, <1>7, <2>3, SaidIs
    <3>3. Cardinality(ValuesOf(k, "hasParentMethod")) = 1
      BY <3>2, FS_Singleton
    <3> QED BY <3>1, <3>3 DEF CardinalitiesOK, Bounds
  <2>4. CASE c = "ComputedTrace"
    <3>1. CardinalityOf(c) = {Bounds("hasMethod", 1, 1)}
      BY <2>4 DEF CardinalityOf
    <3>2. ValuesOf(k, "hasMethod") = {Uri(a.one)}
      BY <1>1, <1>7, <2>4, SaidIs
    <3>3. Cardinality(ValuesOf(k, "hasMethod")) = 1
      BY <3>2, FS_Singleton
    <3> QED BY <3>1, <3>3 DEF CardinalitiesOK, Bounds
  <2>5. CASE c = "StoredTrace"
    <3>1. CardinalityOf(c) = {Bounds("hasModel", 1, 1), Bounds("hasOrigin", 1, 1),
                              Bounds("hasTraceBegin", 0, 1), Bounds("hasTraceBeginDT", 0, 1)}
      BY <2>5 DEF CardinalityOf
    <3>2. ValuesOf(k, "hasModel") = {Uri(a.one)}
      BY <1>1, <1>7, <2>5, SaidIs
    <3>3. Cardinality(ValuesOf(k, "hasModel")) = 1
      BY <3>2, FS_Singleton
    <3>4. Cardinality(ValuesOf(k, "hasTraceBegin")) = 0 /\ Cardinality(ValuesOf(k, "hasTraceBeginDT")) = 0
      <4>1. \A s \in k : s[1] \notin {"hasTraceBegin", "hasTraceBeginDT"}
        <5>1. \A s \in g : s[1] \notin {"hasTraceBegin", "hasTraceBeginDT"}
          BY <1>1, <2>5, SaidIs
        <5> QED BY <1>3, <2>5, <5>1
      <4>2. ValuesOf(k, "hasTraceBegin") = {} /\ ValuesOf(k, "hasTraceBeginDT") = {}
        BY <4>1, ValuesAre
      <4> QED BY <4>2, FS_EmptySet
    <3>5. \E o : ValuesOf(k, "hasOrigin") = {o}
      <4>1. k = Dated(g) /\ ValuesOf(g, "hasOrigin") = {a.origin}
        BY <1>1, <2>5, SaidCompleted, SaidIs
      <4>2. CASE Now \notin g
        BY <4>1, <4>2 DEF Dated
      <4>3. CASE Now \in g
        <5>1. PICK o : o = Lit("date", 1)
          OBVIOUS
        <5>2. k = {s \in g : s[1] # "hasOrigin"} \cup {<<"hasOrigin", o>>}
          BY <4>1, <4>3, <5>1 DEF Dated
        <5>3. \A s : s \in k /\ s[1] = "hasOrigin" <=> s = <<"hasOrigin", o>>
          BY <5>2
        <5>4. <<"hasOrigin", o>> \in k /\ <<"hasOrigin", o>>[1] = "hasOrigin" /\ <<"hasOrigin", o>>[2] = o
          BY <5>3
        <5>5. \A v : v \in ValuesOf(k, "hasOrigin") <=> v = o
          BY <5>3, <5>4, ValuesAre
        <5> QED BY <5>5
      <4> QED BY <4>2, <4>3
    <3>6. Cardinality(ValuesOf(k, "hasOrigin")) = 1
      BY <3>5, FS_Singleton
    <3> QED BY <3>1, <3>3, <3>4, <3>6 DEF CardinalitiesOK, Bounds
  <2> QED BY <2>1, <2>2, <2>3, <2>4, <2>5 DEF Classes
<1>9. c = "Method" => (ParentOK(k) <=> Uri(a.one) = Uri(Builtin) \/ IsA(Uri(a.one), {"Method"})) /\ ParametersOK(k, k)
  <2> SUFFICES ASSUME c = "Method"
               PROVE  (ParentOK(k) <=> Uri(a.one) = Uri(Builtin) \/ IsA(Uri(a.one), {"Method"})) /\ ParametersOK(k, k)
    OBVIOUS
  <2>1. ValuesOf(k, "hasParentMethod") = {Uri(a.one)}
    BY <1>1, <1>7, SaidIs
  <2>2. ValuesOf(k, "hasParameter") = {Lit("string", p) : p \in a.params}
    BY <1>1, <1>7, SaidIs
  <2>3. \A v, w \in ValuesOf(k, "hasParameter") : v = w
    BY <2>2, ArgumentsAre
  <2> QED BY <2>1, <2>3 DEF ParentOK, ParametersOK
<1>10. c \in Traces => (SourcesOK(k) <=> (c = "ComputedTrace" => \A x \in a.several : IsA(Uri(x), Traces)))
  <2>1. ValuesOf(k, "hasSource") = IF c = "ComputedTrace" THEN {Uri(x) : x \in a.several} ELSE {}
    BY <1>1, <1>7, SaidIs
  <2>2. CASE c = "ComputedTrace"
    BY <2>1, <2>2 DEF SourcesOK
  <2>3. CASE c # "ComputedTrace"
    BY <2>1, <2>3 DEF SourcesOK
  <2> QED BY <2>2, <2>3
<1> QED BY <1>5, <1>6, <1>8, <1>9, <1>10, NewGraphChecks DEF Traces
\* What is checked before is what the base would check.
LEMMA EarnedTrust ==
  ASSUME Items
  PROVE  TrustIsEarned
<1>1. ASSUME NEW a \in Arguments("DataGraph"), NEW u PROVE ~CheckNewGraph("Base", u, Said("DataGraph", a), {})
  <2>1. <<"type", "DataGraph">> \in Said("DataGraph", a)
    BY DEF Said
  <2>2. ~NamespacesOK("Base", Said("DataGraph", a), {"Base"}, {"contains"})
    BY <2>1 DEF NamespacesOK
  <2> QED BY <2>2 DEF CheckNewGraph
<1>2. \A x : x \in DOMAIN listing <=> x \in DOMAIN held
  BY DEF Items, WellFormed
<1>3. \A x \in DOMAIN held : listing[x] = held[x].class
  BY DEF Items, WellFormed
<1>4. \A x : Uri(x)[3] = x
  BY DEF Uri
<1>5. ASSUME NEW c \in Classes, NEW a \in Arguments(c), Trusted(c, a)
      PROVE  LET g == Said(c, a)
                 accepted(u) == CheckNewGraph(c, u, Complete(c, g, {}), {})
             IN  /\ \A u \in Minted(a.label, c) : Raises(c, a) # accepted(u) \/ (c = "ComputedTrace" /\ ~IsA(Uri(a.one), {"Method"}))
                 /\ ~Raises(c, a) => \A u \in Minted(a.label, c) : accepted(u)
                 /\ \A h \in Stored(c, a) : Complete(c, h, {}) = h \/ c = "TraceModel" \/ Now \in h
  <2>1. a.more = {} /\ (c \in {"Method", "ComputedTrace"} => a.one # Builtin)
    BY <1>5 DEF Trusted, InBase
  <2>2. PICK g, k : g = Said(c, a) /\ k = Complete(c, g, {})
    OBVIOUS
  <2>3. \A x, C : IsA(Uri(x), C) <=> x \in DOMAIN listing /\ listing[x] \in C
    BY <1>2, <1>3, <1>4 DEF IsA
  <2>4. Raises(c, a) <=> /\ c \in {"Method", "ComputedTrace"}
                         /\ ~IsA(Uri(a.one), {"Method"}) \/ \E s \in a.several : ~IsA(Uri(s), Traces)
    BY <1>5, <2>3 DEF Raises
  <2>5. ASSUME NEW u \in Minted(a.label, c)
        PROVE  CheckNewGraph(c, u, k, {}) <=>
                 /\ c = "ComputedTrace" => \A x \in a.several : IsA(Uri(x), Traces)
                 /\ c = "Method" => IsA(Uri(a.one), {"Method"})
    <3>1. u.slash = (c \in Folderish)
      BY MintedSlash
    <3>2. c = "Method" => Uri(a.one) # Uri(Builtin)
      BY <1>4, <2>1
    <3> QED BY <2>1, <2>2, <3>1, <3>2, SaidAccepted
  <2>6. ASSUME NEW u \in Minted(a.label, c)
        PROVE  /\ Raises(c, a) # CheckNewGraph(c, u, k, {}) \/ (c = "ComputedTrace" /\ ~IsA(Uri(a.one), {"Method"}))
               /\ ~Raises(c, a) => CheckNewGraph(c, u, k, {})
    <3>1. c # "ComputedTrace" => a.several = {}
      BY ArgumentsAre
    <3>2. (Raises(c, a) <=> ~CheckNewGraph(c, u, k, {})) \/ (c = "ComputedTrace" /\ ~IsA(Uri(a.one), {"Method"}))
      BY <2>4, <2>5, <3>1
    <3>3. ~Raises(c, a) => CheckNewGraph(c, u, k, {})
      BY <2>4, <2>5
    <3> QED BY <3>2, <3>3
  <2>7. ASSUME NEW h \in Stored(c, a) PROVE Complete(c, h, {}) = h \/ c = "TraceModel" \/ Now \in h
    <3>1. h = g
      BY <1>5, <2>2 DEF Stored
    <3> QED BY <2>1, <2>2, <3>1, SaidCompleted DEF Dated
  <2> QED BY <2>2, <2>6, <2>7
<1> QED BY <1>1, <1>5 DEF TrustIsEarned, PostedAs

\* A creation by the Python API that spares the checks would have passed them
\* (api/base.py:307-351).
THEOREM TrustCorrect == LibrarySpec => []ItemsEarnTrust
<1>1. LibraryInit => (part = "items" => Items)
  BY InitItems DEF LibraryInit, Functions
<1>2. (part = "items" => Items) /\ [LibraryNext]_vars => (part = "items" => Items)'
  BY NextItems, StutterItems DEF LibraryNext, vars, descriptions
<1>3. (part = "items" => Items) => ItemsEarnTrust
  BY EarnedTrust DEF ItemsEarnTrust
<1> QED BY <1>1, <1>2, <1>3, PTL DEF LibrarySpec
----------------------------------------------------------------------------
(* Models: sets as sequences, and what is reached along arcs *)

LEMMA SameCardinality == \A X : M!Cardinality(X) = Cardinality(X)
BY DEF M!Cardinality, Cardinality

\* A finite set as a sequence: each of its members, once.
LEMMA SequenceOf ==
  ASSUME NEW X, IsFiniteSet(X), NEW q, q = M!Ordered(X)
  PROVE  q \in Seq(X) /\ Len(q) = Cardinality(X) /\ M!Range(q) = X /\ M!IsInjective(q)
<1>1. Cardinality(X) \in Nat /\ ExistsBijection(1 .. Cardinality(X), X)
  BY FS_CardinalityType
<1>2. PICK f \in [1 .. Cardinality(X) -> X] : /\ \A i, j \in 1 .. Cardinality(X) : f[i] = f[j] => i = j
                                              /\ \A x \in X : \E i \in 1 .. Cardinality(X) : f[i] = x
  BY <1>1 DEF ExistsBijection, Bijection, Injection, Surjection, IsInjective
<1>3. M!IsInjective(f)
  BY <1>2 DEF M!IsInjective
<1>4. q \in [1 .. Cardinality(X) -> X] /\ M!IsInjective(q)
  BY <1>2, <1>3, SameCardinality DEF M!Ordered
<1>5. q \in Seq(X) /\ Len(q) = Cardinality(X)
  BY <1>1, <1>4
<1>6. q \in Injection(1 .. Cardinality(X), X)
  BY <1>4 DEF Injection, IsInjective, M!IsInjective
<1>7. q \in Surjection(1 .. Cardinality(X), X)
  <2>1. IsFiniteSet(1 .. Cardinality(X)) /\ Cardinality(1 .. Cardinality(X)) = Cardinality(X)
    BY <1>1, FS_Interval
  <2> QED BY <1>6, <2>1, FS_Injection
<1>8. M!Range(q) = X
  <2>1. \A x \in X : \E i \in 1 .. Cardinality(X) : q[i] = x
    BY <1>7 DEF Surjection
  <2>2. DOMAIN q = 1 .. Cardinality(X)
    BY <1>4
  <2> QED BY <1>4, <2>1, <2>2 DEF M!Range
<1> QED BY <1>4, <1>5, <1>8

\* The steps of a set of pairs stay in a set.
Within(pairs, C) == \A p \in pairs : p[1] \in C => p[2] \in C

LEMMA Reached ==
  ASSUME NEW nodes, NEW pairs, NEW X \in SUBSET nodes, Within(pairs, nodes)
  PROVE  /\ X \subseteq M!Reach(nodes, pairs, X) /\ M!Reach(nodes, pairs, X) \subseteq nodes
         /\ Within(pairs, M!Reach(nodes, pairs, X))
         /\ \A C \in SUBSET nodes : X \subseteq C /\ Within(pairs, C) => M!Reach(nodes, pairs, X) \subseteq C
         /\ \A more : pairs \subseteq more => M!Reach(nodes, pairs, X) \subseteq M!Reach(nodes, more, X)
<1> DEFINE R == M!Reach(nodes, pairs, X)
<1>1. \A x : x \in R <=> x \in nodes /\ \A C \in SUBSET nodes : X \subseteq C /\ Within(pairs, C) => x \in C
  BY DEF M!Reach, Within
<1> HIDE DEF R
<1>2. X \subseteq R /\ R \subseteq nodes
  BY <1>1
<1>3. Within(pairs, R)
  <2> SUFFICES ASSUME NEW p \in pairs, p[1] \in R PROVE p[2] \in R
    BY DEF Within
  <2>1. p[2] \in nodes
    BY <1>1 DEF Within
  <2>2. ASSUME NEW C \in SUBSET nodes, X \subseteq C, Within(pairs, C) PROVE p[2] \in C
    BY <1>1, <2>2 DEF Within
  <2> QED BY <1>1, <2>1, <2>2
<1>4. ASSUME NEW more, pairs \subseteq more PROVE R \subseteq M!Reach(nodes, more, X)
  <2>1. \A C : Within(more, C) => Within(pairs, C)
    BY <1>4 DEF Within
  <2>2. \A x : x \in M!Reach(nodes, more, X) <=> x \in nodes /\ \A C \in SUBSET nodes : X \subseteq C /\ Within(more, C) => x \in C
    BY DEF M!Reach, Within
  <2> QED BY <1>1, <2>1, <2>2
<1>5. \A C \in SUBSET nodes : X \subseteq C /\ Within(pairs, C) => R \subseteq C
  BY <1>1
<1> QED BY <1>2, <1>3, <1>4, <1>5 DEF R
----------------------------------------------------------------------------
(* Models: the graphs, and listings of types *)

\* What a model may hold: its parents, and what is said of its own types.
MayHold(m, a) ==
  /\ a = M!Arc(a.subj, a.pred, a.obj)
  /\ \/ a.pred = "parent" /\ a.subj = m /\ a.obj \in M!TraceModels
     \/ a.pred \in {"type", "super", "origin"} /\ a.subj \in ModelHoldings[m]
  /\ (a.pred = "super" => a.obj \in M!Types) /\ (a.pred = "origin" => a.obj \in ObselTypes)

GraphsHold ==
  /\ graph = [m \in M!TraceModels |-> graph[m]]
  /\ \A m \in M!TraceModels : \A a \in graph[m] : MayHold(m, a)

LEMMA TypesAre ==
  /\ IsFiniteSet(M!Types) /\ IsFiniteSet(M!TraceModels) /\ IsFiniteSet(ObselTypes) /\ ObselTypes \subseteq M!Types
  /\ \A m \in M!TraceModels : \A t \in ModelHoldings[m] : t \in M!Types /\ M!ModelOf(t) = m
  /\ \A t \in M!Types : M!ModelOf(t) \in M!TraceModels /\ t \in ModelHoldings[M!ModelOf(t)]
  /\ M!Types \cap M!TraceModels = {} /\ M!Missing = {}
<1>1. /\ IsFiniteSet(M!TraceModels) /\ \A m \in M!TraceModels : IsFiniteSet(ModelHoldings[m])
      /\ \A m, n \in M!TraceModels : m # n => ModelHoldings[m] \cap ModelHoldings[n] = {}
      /\ \A m \in M!TraceModels : ModelHoldings[m] \cap M!TraceModels = {}
      /\ ObselTypes \subseteq M!Types
  BY LibraryAssumption DEF M!ModelsAssumption, M!TraceModels, M!Types, M!IsFiniteSet, IsFiniteSet
<1>2. IsFiniteSet(M!Types)
  <2>1. PICK H : H = {ModelHoldings[m] : m \in M!TraceModels}
    OBVIOUS
  <2>2. IsFiniteSet(H)
    <3>1. PICK f : f = [m \in M!TraceModels |-> ModelHoldings[m]]
      OBVIOUS
    <3>2. f \in Surjection(M!TraceModels, H)
      BY <2>1, <3>1 DEF Surjection
    <3> QED BY <1>1, <3>2, FS_Surjection
  <2>3. \A X \in H : IsFiniteSet(X)
    BY <1>1, <2>1
  <2>4. M!Types = UNION H
    BY <2>1 DEF M!Types
  <2> QED BY <2>2, <2>3, <2>4, FS_UNION
<1>3. IsFiniteSet(ObselTypes)
  BY <1>1, <1>2, FS_Subset
<1>4. ASSUME NEW m \in M!TraceModels, NEW t \in ModelHoldings[m] PROVE t \in M!Types /\ M!ModelOf(t) = m
  BY <1>1, <1>4 DEF M!Types, M!ModelOf
<1>5. ASSUME NEW t \in M!Types PROVE M!ModelOf(t) \in M!TraceModels /\ t \in ModelHoldings[M!ModelOf(t)]
  BY <1>5 DEF M!Types, M!ModelOf
<1>6. M!Types \cap M!TraceModels = {}
  BY <1>1 DEF M!Types
<1>7. M!Missing = {}
  BY DEF M!Missing
<1> QED BY <1>1, <1>2, <1>3, <1>4, <1>5, <1>6, <1>7

\* The steps of a listing, from a type to those it is next to.
Pairs(kind, arcs) ==
  IF kind = "subtypes" THEN {<<a.obj, a.subj>> : a \in {x \in M!SuperArcs(arcs) : x.subj \in ModelHoldings[M!ModelOf(x.obj)]}}
  ELSE {<<a.subj, a.obj>> : a \in M!SuperArcs(arcs)}

LEMMA PairsAre ==
  ASSUME NEW kind, NEW arcs
  PROVE  /\ \A s, x : <<s, x>> \in Pairs(kind, arcs) <=>
              \E a \in arcs : /\ a.pred = "super"
                              /\ IF kind = "subtypes" THEN a.obj = s /\ a.subj = x /\ x \in ModelHoldings[M!ModelOf(s)]
                                 ELSE a.subj = s /\ a.obj = x
         /\ \A p \in Pairs(kind, arcs) : p = <<p[1], p[2]>>
BY DEF Pairs, M!SuperArcs

LEMMA AllArcsAre == \A a : a \in M!AllArcs(graph) <=> \E m \in M!TraceModels : a \in graph[m]
BY DEF M!AllArcs

LEMMA NeighboursAre ==
  ASSUME GraphsHold, NEW kind, NEW t \in M!Types
  PROVE  /\ \A x : x \in M!Neighbours(kind, t) <=> <<t, x>> \in Pairs(kind, M!AllArcs(graph))
         /\ \A x : x \in M!Objects(t, "origin") <=> \E a \in M!AllArcs(graph) : a.pred = "origin" /\ a.subj = t /\ a.obj = x
<1>1. M!ModelOf(t) \in M!TraceModels /\ t \in ModelHoldings[M!ModelOf(t)]
  BY TypesAre
<1>2. ASSUME NEW m \in M!TraceModels, NEW a \in graph[m], a.pred \in {"super", "origin"}
      PROVE  a.subj \in M!Types /\ m = M!ModelOf(a.subj)
  <2>1. a.subj \in ModelHoldings[m]
    BY <1>2 DEF GraphsHold, MayHold
  <2> QED BY <2>1, TypesAre
<1>3. ASSUME kind # "subtypes", NEW x PROVE x \in M!Neighbours(kind, t) <=> <<t, x>> \in Pairs(kind, M!AllArcs(graph))
  <2>1. x \in M!Neighbours(kind, t) <=> \E a \in graph[M!ModelOf(t)] : a.subj = t /\ a.pred = "super" /\ a.obj = x
    BY <1>3 DEF M!Neighbours, M!Objects
  <2> QED BY <1>1, <1>2, <1>3, <2>1, PairsAre, AllArcsAre
<1>4. ASSUME kind = "subtypes", NEW x PROVE x \in M!Neighbours(kind, t) <=> <<t, x>> \in Pairs(kind, M!AllArcs(graph))
  <2>1. x \in M!Neighbours(kind, t) <=> \E a \in graph[M!ModelOf(t)] : a.obj = t /\ a.pred = "super" /\ a.subj = x
    BY <1>4 DEF M!Neighbours, M!Subjects
  <2>2. ASSUME NEW m \in M!TraceModels, NEW a \in graph[m], a.pred = "super"
        PROVE  a.subj \in ModelHoldings[M!ModelOf(t)] <=> m = M!ModelOf(t)
    <3>1. a.subj \in ModelHoldings[m]
      BY <2>2 DEF GraphsHold, MayHold
    <3> QED BY <1>1, <3>1, TypesAre
  <2> QED BY <1>1, <1>4, <2>1, <2>2, PairsAre, AllArcsAre
<1>5. ASSUME NEW x
      PROVE x \in M!Objects(t, "origin") <=> \E a \in M!AllArcs(graph) : a.pred = "origin" /\ a.subj = t /\ a.obj = x
  <2>1. x \in M!Objects(t, "origin") <=> \E a \in graph[M!ModelOf(t)] : a.subj = t /\ a.pred = "origin" /\ a.obj = x
    BY DEF M!Objects
  <2> QED BY <1>1, <1>2, <2>1, AllArcsAre
<1> QED BY <1>3, <1>4, <1>5
\* A listing that has started from t: what has been told, what is still to be,
\* and what the arcs that there ever were, and those that there always were, say
\* of them.
IsWalk == walk = [kind |-> walk.kind, queue |-> walk.queue, seen |-> walk.seen, out |-> walk.out, origins |-> walk.origins,
                  ever |-> walk.ever, always |-> walk.always, edits |-> walk.edits]

Told == M!Range(walk.out)

Listed(t) ==
  /\ IsWalk /\ t \in M!Types
  /\ walk.out \in Seq(M!Types) /\ M!IsInjective(walk.out)
  /\ walk.origins \in Seq(ObselTypes) /\ M!IsInjective(walk.origins)
  /\ walk.queue \subseteq M!Types /\ walk.queue \cap Told = {} /\ walk.seen = walk.queue \cup Told
  /\ IF walk.out = <<>> THEN walk.queue = {t} ELSE walk.out[1] = t
  /\ \A a \in walk.ever : \E m \in M!TraceModels : MayHold(m, a)
  /\ walk.always \subseteq M!AllArcs(graph) /\ M!AllArcs(graph) \subseteq walk.ever
  /\ walk.seen \subseteq M!Reach(M!Types, Pairs(walk.kind, walk.ever), {t})
  /\ M!Range(walk.origins) \subseteq M!OriginsOf(walk.ever, Told)
  /\ \A s \in Told : \A x : <<s, x>> \in Pairs(walk.kind, walk.always) => x \in walk.seen
  /\ walk.kind = "origins" => M!OriginsOf(walk.always, Told) \subseteq M!Range(walk.origins)

Walks == GraphsHold /\ (walk = M!Idle \/ \E t : Listed(t))

LEMMA AlongIs == \A arcs, t : M!Along(arcs, t) = M!Reach(M!Types, Pairs(walk.kind, arcs), {t})
BY DEF M!Along, M!Up, M!Down, Pairs

LEMMA PairsWithin ==
  ASSUME NEW kind, NEW arcs, \A a \in arcs : \E m \in M!TraceModels : MayHold(m, a)
  PROVE  Within(Pairs(kind, arcs), M!Types)
<1>1. \A a \in arcs : a.pred = "super" => a.subj \in M!Types /\ a.obj \in M!Types
  <2> SUFFICES ASSUME NEW a \in arcs, a.pred = "super" PROVE a.subj \in M!Types /\ a.obj \in M!Types
    OBVIOUS
  <2>1. PICK m \in M!TraceModels : MayHold(m, a)
    OBVIOUS
  <2> QED BY <2>1, TypesAre DEF MayHold
<1>2. \A p \in Pairs(kind, arcs) : p = <<p[1], p[2]>>
  BY PairsAre
<1>3. \A s, x : <<s, x>> \in Pairs(kind, arcs) => x \in M!Types
  BY <1>1, PairsAre
<1> QED BY <1>2, <1>3 DEF Within

LEMMA OriginsAre == \A arcs, X, o : o \in M!OriginsOf(arcs, X) <=> \E a \in arcs : a.pred = "origin" /\ a.subj \in X /\ a.obj = o
BY DEF M!OriginsOf

LEMMA ListedIsSound ==
  ASSUME NEW t, Listed(t)
  PROVE  M!ListingIsSound
<1> SUFFICES ASSUME walk.out # <<>> PROVE M!ListingIsSound
  BY DEF M!ListingIsSound
<1>1. walk.out[1] = t /\ M!IsInjective(walk.out) /\ M!IsInjective(walk.origins)
  BY DEF Listed
<1>2. Told \subseteq M!Along(walk.ever, t)
  BY AlongIs DEF Listed
<1>3. M!Range(walk.origins) \subseteq M!OriginsOf(walk.ever, Told)
  BY DEF Listed
<1>4. ASSUME ~M!Walking
      PROVE  /\ M!Along(walk.always, t) \subseteq Told
             /\ walk.kind = "origins" => M!OriginsOf(walk.always, M!Along(walk.always, t)) \subseteq M!Range(walk.origins)
  <2>1. walk.seen = Told
    BY <1>4 DEF M!Walking, Listed
  <2>2. t \in Told
    <3>1. walk.out \in Seq(M!Types)
      BY DEF Listed
    <3>2. 1 \in DOMAIN walk.out
      BY <3>1
    <3> QED BY <1>1, <3>2 DEF Told, M!Range
  <2>3. Told \subseteq M!Types
    BY DEF Listed, Told, M!Range
  <2>4. Within(Pairs(walk.kind, walk.always), Told)
    <3>1. \A p \in Pairs(walk.kind, walk.always) : p = <<p[1], p[2]>>
      BY PairsAre
    <3>2. \A s \in Told : \A x : <<s, x>> \in Pairs(walk.kind, walk.always) => x \in Told
      BY <2>1 DEF Listed
    <3> QED BY <3>1, <3>2 DEF Within
  <2>5. Within(Pairs(walk.kind, walk.always), M!Types)
    <3>1. \A a \in walk.always : \E m \in M!TraceModels : MayHold(m, a)
      BY DEF Listed
    <3> QED BY <3>1, PairsWithin
  <2>6. M!Reach(M!Types, Pairs(walk.kind, walk.always), {t}) \subseteq Told
    <3>1. {t} \subseteq Told /\ {t} \in SUBSET M!Types
      BY <2>2, <2>3
    <3> QED BY <2>3, <2>4, <2>5, <3>1, Reached
  <2>7. M!Along(walk.always, t) \subseteq Told
    BY <2>6, AlongIs
  <2>8. ASSUME walk.kind = "origins"
        PROVE  M!OriginsOf(walk.always, M!Along(walk.always, t)) \subseteq M!Range(walk.origins)
    <3>1. M!OriginsOf(walk.always, Told) \subseteq M!Range(walk.origins)
      BY <2>8 DEF Listed
    <3> QED BY <2>7, <3>1, OriginsAre
  <2> QED BY <2>7, <2>8
<1> QED BY <1>1, <1>2, <1>3, <1>4 DEF M!ListingIsSound, Told

LEMMA StartListed ==
  ASSUME GraphsHold, NEW kind, NEW t \in M!Types, M!Start(kind, t)
  PROVE  GraphsHold' /\ Listed(t)'
<1>1. graph' = graph
  BY DEF M!Start
<1>2. GraphsHold'
  BY <1>1 DEF GraphsHold
<1>3. walk' = [kind |-> kind, queue |-> {t}, seen |-> {t}, out |-> <<>>, origins |-> <<>>,
               ever |-> M!AllArcs(graph), always |-> M!AllArcs(graph), edits |-> 0]
  BY DEF M!Start, M!Idle
<1>4. /\ walk'.kind = kind /\ walk'.queue = {t} /\ walk'.seen = {t} /\ walk'.out = <<>> /\ walk'.origins = <<>>
      /\ walk'.ever = M!AllArcs(graph) /\ walk'.always = M!AllArcs(graph) /\ IsWalk'
  BY <1>3 DEF IsWalk
<1>5. Told' = {} /\ M!Range(walk'.origins) = {} /\ M!IsInjective(walk'.out) /\ M!IsInjective(walk'.origins)
  BY <1>4 DEF Told, M!Range, M!IsInjective
<1>6. \A a \in M!AllArcs(graph) : \E m \in M!TraceModels : MayHold(m, a)
  BY AllArcsAre DEF GraphsHold
<1>7. {t} \subseteq M!Reach(M!Types, Pairs(kind, M!AllArcs(graph)), {t})
  <2>1. Within(Pairs(kind, M!AllArcs(graph)), M!Types)
    BY <1>6, PairsWithin
  <2> QED BY <2>1, Reached
<1>8. walk'.out \in Seq(M!Types) /\ walk'.origins \in Seq(ObselTypes)
  BY <1>4
<1>9. M!OriginsOf(walk'.always, Told') = {}
  BY <1>5, OriginsAre
<1> QED BY <1>1, <1>2, <1>4, <1>5, <1>6, <1>7, <1>8, <1>9 DEF Listed
LEMMA AppendIs ==
  ASSUME NEW X, NEW q \in Seq(X), NEW x \in X
  PROVE  /\ Append(q, x) \in Seq(X) /\ M!Range(Append(q, x)) = M!Range(q) \cup {x}
         /\ M!IsInjective(q) /\ x \notin M!Range(q) => M!IsInjective(Append(q, x))
         /\ Append(q, x) # <<>> /\ (q = <<>> => Append(q, x)[1] = x) /\ (q # <<>> => Append(q, x)[1] = q[1])
<1>1. PICK r : r = Append(q, x)
  OBVIOUS
<1>2. r \in Seq(X) /\ DOMAIN r = 1 .. Len(q) + 1 /\ r[Len(q) + 1] = x /\ \A i \in 1 .. Len(q) : r[i] = q[i]
  BY <1>1
<1>3. DOMAIN q = 1 .. Len(q) /\ Len(q) \in Nat
  OBVIOUS
<1>4. \A y : y \in M!Range(r) <=> y \in M!Range(q) \/ y = x
  BY <1>2, <1>3 DEF M!Range
<1>5. M!IsInjective(q) /\ x \notin M!Range(q) => M!IsInjective(r)
  BY <1>2, <1>3 DEF M!IsInjective, M!Range
<1>6. r # <<>> /\ (q = <<>> => r[1] = x) /\ (q # <<>> => r[1] = q[1])
  BY <1>2, <1>3
<1> QED BY <1>1, <1>2, <1>4, <1>5, <1>6

LEMMA ConcatIs ==
  ASSUME NEW X, NEW q \in Seq(X), NEW w \in Seq(X)
  PROVE  /\ q \o w \in Seq(X) /\ M!Range(q \o w) = M!Range(q) \cup M!Range(w)
         /\ M!IsInjective(q) /\ M!IsInjective(w) /\ M!Range(q) \cap M!Range(w) = {} => M!IsInjective(q \o w)
<1>1. PICK r : r = q \o w
  OBVIOUS
<1>2. /\ r \in Seq(X) /\ DOMAIN r = 1 .. Len(q) + Len(w)
      /\ \A i \in 1 .. Len(q) + Len(w) : r[i] = IF i <= Len(q) THEN q[i] ELSE w[i - Len(q)]
  BY <1>1
<1>3. DOMAIN q = 1 .. Len(q) /\ Len(q) \in Nat /\ DOMAIN w = 1 .. Len(w) /\ Len(w) \in Nat
  OBVIOUS
<1>4. \A i \in 1 .. Len(w) : r[Len(q) + i] = w[i] /\ Len(q) + i \in DOMAIN r
  BY <1>2, <1>3
<1>5. ASSUME NEW y PROVE y \in M!Range(r) <=> y \in M!Range(q) \/ y \in M!Range(w)
  <2>1. y \in M!Range(r) => y \in M!Range(q) \/ y \in M!Range(w)
    <3> SUFFICES ASSUME NEW i \in DOMAIN r, r[i] = y PROVE y \in M!Range(q) \/ y \in M!Range(w)
      BY DEF M!Range
    <3>1. CASE i <= Len(q)
      BY <1>2, <1>3, <3>1 DEF M!Range
    <3>2. CASE i > Len(q)
      <4>1. i - Len(q) \in DOMAIN w /\ w[i - Len(q)] = y
        BY <1>2, <1>3, <3>2
      <4> QED BY <4>1 DEF M!Range
    <3> QED BY <1>2, <1>3, <3>1, <3>2
  <2>2. y \in M!Range(q) => y \in M!Range(r)
    BY <1>2, <1>3 DEF M!Range
  <2>3. y \in M!Range(w) => y \in M!Range(r)
    BY <1>3, <1>4 DEF M!Range
  <2> QED BY <2>1, <2>2, <2>3
<1>6. ASSUME M!IsInjective(q), M!IsInjective(w), M!Range(q) \cap M!Range(w) = {} PROVE M!IsInjective(r)
  <2> SUFFICES ASSUME NEW i \in DOMAIN r, NEW j \in DOMAIN r, r[i] = r[j] PROVE i = j
    BY DEF M!IsInjective
  <2>1. CASE i <= Len(q) /\ j <= Len(q)
    BY <1>2, <1>3, <1>6, <2>1 DEF M!IsInjective
  <2>2. CASE i > Len(q) /\ j > Len(q)
    <3>1. w[i - Len(q)] = w[j - Len(q)] /\ i - Len(q) \in DOMAIN w /\ j - Len(q) \in DOMAIN w
      BY <1>2, <1>3, <2>2
    <3>2. i - Len(q) = j - Len(q)
      BY <1>6, <3>1 DEF M!IsInjective
    <3> QED BY <1>2, <1>3, <3>2
  <2>3. ASSUME NEW k \in DOMAIN r, NEW l \in DOMAIN r, k <= Len(q), l > Len(q) PROVE r[k] # r[l]
    <3>1. r[k] \in M!Range(q)
      BY <1>2, <1>3, <2>3 DEF M!Range
    <3>2. l - Len(q) \in DOMAIN w /\ r[l] = w[l - Len(q)]
      BY <1>2, <1>3, <2>3
    <3>3. r[l] \in M!Range(w)
      BY <3>2 DEF M!Range
    <3> QED BY <1>6, <3>1, <3>3
  <2> QED BY <1>2, <1>3, <2>1, <2>2, <2>3
<1> QED BY <1>1, <1>2, <1>5, <1>6

LEMMA WithinStep ==
  ASSUME NEW pairs, NEW C, Within(pairs, C), NEW s \in C, NEW x, <<s, x>> \in pairs
  PROVE  x \in C
<1>1. <<s, x>>[1] = s /\ <<s, x>>[2] = x
  OBVIOUS
<1> QED BY <1>1 DEF Within

LEMMA StepListed ==
  ASSUME GraphsHold, NEW t, Listed(t), NEW u \in walk.queue, M!Step(u)
  PROVE  GraphsHold' /\ Listed(t)'
<1>1. graph' = graph /\ M!AllArcs(graph') = M!AllArcs(graph)
  BY DEF M!Step
<1>2. GraphsHold'
  BY <1>1 DEF GraphsHold
<1>3. PICK kind, queue, seen, out, origins, ever, always, edits :
        walk = [kind |-> kind, queue |-> queue, seen |-> seen, out |-> out, origins |-> origins,
                ever |-> ever, always |-> always, edits |-> edits]
  BY DEF Listed, IsWalk
<1>4. /\ walk.kind = kind /\ walk.queue = queue /\ walk.seen = seen /\ walk.out = out /\ walk.origins = origins
      /\ walk.ever = ever /\ walk.always = always /\ walk.edits = edits
  BY <1>3
<1>5. PICK new, more : new = M!Neighbours(kind, u) \ seen /\ more = M!Ordered(M!NewOrigins(u))
  OBVIOUS
<1>6. walk' = [kind |-> kind, queue |-> (queue \ {u}) \cup new, seen |-> seen \cup new, out |-> Append(out, u),
               origins |-> origins \o more, ever |-> ever, always |-> always, edits |-> edits]
  <2>1. M!Seen({}) = seen /\ M!Seen(new) = seen \cup new
    BY <1>4 DEF M!Seen
  <2>2. walk' = [walk EXCEPT !.queue = (@ \ {u}) \cup new, !.seen = seen \cup new, !.out = Append(@, u), !.origins = @ \o more]
    BY <1>4, <1>5, <2>1 DEF M!Step
  <2> QED BY <1>3, <2>2
<1>7. /\ walk'.kind = kind /\ walk'.queue = (queue \ {u}) \cup new /\ walk'.seen = seen \cup new /\ walk'.out = Append(out, u)
      /\ walk'.origins = origins \o more /\ walk'.ever = ever /\ walk'.always = always /\ IsWalk'
  BY <1>6 DEF IsWalk
<1>8. PICK told : told = M!Range(out)
  OBVIOUS
<1>9. /\ t \in M!Types /\ out \in Seq(M!Types) /\ M!IsInjective(out) /\ origins \in Seq(ObselTypes) /\ M!IsInjective(origins)
      /\ queue \subseteq M!Types /\ queue \cap told = {} /\ seen = queue \cup told
      /\ IF out = <<>> THEN queue = {t} ELSE out[1] = t
      /\ \A a \in ever : \E m \in M!TraceModels : MayHold(m, a)
      /\ always \subseteq M!AllArcs(graph) /\ M!AllArcs(graph) \subseteq ever
  BY <1>4, <1>8 DEF Listed, Told
<1>10. /\ seen \subseteq M!Reach(M!Types, Pairs(kind, ever), {t})
       /\ M!Range(origins) \subseteq M!OriginsOf(ever, told)
       /\ \A s \in told : \A x : <<s, x>> \in Pairs(kind, always) => x \in seen
       /\ kind = "origins" => M!OriginsOf(always, told) \subseteq M!Range(origins)
  BY <1>4, <1>8 DEF Listed, Told
<1>11. u \in M!Types /\ u \in queue /\ u \notin told
  BY <1>4, <1>9
<1>12. Told' = told \cup {u} /\ walk'.out \in Seq(M!Types) /\ M!IsInjective(walk'.out) /\ walk'.out # <<>> /\ walk'.out[1] = t
  <2>1. out = <<>> => u = t
    BY <1>9, <1>11
  <2> QED BY <1>7, <1>8, <1>9, <1>11, <2>1, AppendIs DEF Told
<1>13. new \subseteq M!Types /\ \A x : x \in new <=> <<u, x>> \in Pairs(kind, M!AllArcs(graph)) /\ x \notin seen
  <2>1. \A x : x \in M!Neighbours(kind, u) <=> <<u, x>> \in Pairs(kind, M!AllArcs(graph))
    BY <1>11, NeighboursAre
  <2>2. Within(Pairs(kind, M!AllArcs(graph)), M!Types)
    BY AllArcsAre, PairsWithin DEF GraphsHold
  <2>3. \A x : <<u, x>> \in Pairs(kind, M!AllArcs(graph)) => x \in M!Types
    BY <1>11, <2>2, WithinStep
  <2> QED BY <1>5, <2>1, <2>3
<1>14. walk'.queue \subseteq M!Types /\ walk'.queue \cap Told' = {} /\ walk'.seen = walk'.queue \cup Told'
  BY <1>7, <1>9, <1>11, <1>12, <1>13
<1>15. \A arcs, more_ : arcs \subseteq more_ => Pairs(kind, arcs) \subseteq Pairs(kind, more_)
  BY DEF Pairs, M!SuperArcs
<1>16. walk'.seen \subseteq M!Reach(M!Types, Pairs(kind, ever), {t})
  <2>1. Within(Pairs(kind, ever), M!Types)
    BY <1>9, PairsWithin
  <2>2. Within(Pairs(kind, ever), M!Reach(M!Types, Pairs(kind, ever), {t}))
    BY <1>9, <2>1, Reached
  <2>3. u \in M!Reach(M!Types, Pairs(kind, ever), {t})
    BY <1>9, <1>10, <1>11
  <2>4. Pairs(kind, M!AllArcs(graph)) \subseteq Pairs(kind, ever)
    BY <1>9, <1>15
  <2>5. \A x \in new : x \in M!Reach(M!Types, Pairs(kind, ever), {t})
    <3>1. PICK R : R = M!Reach(M!Types, Pairs(kind, ever), {t})
      OBVIOUS
    <3>2. \A x \in new : <<u, x>> \in Pairs(kind, ever)
      BY <1>13, <2>4
    <3>3. \A x \in new : x \in R
      BY <2>2, <2>3, <3>1, <3>2, WithinStep
    <3> QED BY <3>1, <3>3
  <2> QED BY <1>7, <1>10, <2>5
<1>17. \A s \in Told' : \A x : <<s, x>> \in Pairs(kind, always) => x \in walk'.seen
  <2>1. Pairs(kind, always) \subseteq Pairs(kind, M!AllArcs(graph))
    BY <1>9, <1>15
  <2>2. \A x : <<u, x>> \in Pairs(kind, always) => x \in seen \cup new
    BY <1>13, <2>1
  <2> QED BY <1>7, <1>10, <1>12, <2>2
<1>18. PICK fresh : fresh = M!NewOrigins(u)
  OBVIOUS
<1>19. /\ fresh \subseteq ObselTypes /\ IsFiniteSet(fresh) /\ fresh \cap M!Range(origins) = {}
       /\ \A x \in fresh : \E a \in M!AllArcs(graph) : a.pred = "origin" /\ a.subj = u /\ a.obj = x
       /\ kind = "origins" => \A a \in M!AllArcs(graph) : a.pred = "origin" /\ a.subj = u => a.obj \in fresh \cup M!Range(origins)
  <2>1. \A x : x \in M!Objects(u, "origin") <=> \E a \in M!AllArcs(graph) : a.pred = "origin" /\ a.subj = u /\ a.obj = x
    BY <1>11, NeighboursAre
  <2>2. fresh = IF kind = "origins" THEN M!Objects(u, "origin") \ M!Range(origins) ELSE {}
    BY <1>4, <1>18 DEF M!NewOrigins
  <2>3. \A a \in M!AllArcs(graph) : a.pred = "origin" => a.obj \in ObselTypes
    BY AllArcsAre DEF GraphsHold, MayHold
  <2>4. fresh \subseteq ObselTypes
    BY <2>1, <2>2, <2>3
  <2>5. IsFiniteSet(fresh)
    BY <2>4, TypesAre, FS_Subset
  <2> QED BY <2>1, <2>2, <2>4, <2>5
<1>20. more \in Seq(ObselTypes) /\ M!Range(more) = fresh /\ M!IsInjective(more)
  <2>1. more \in Seq(fresh) /\ M!Range(more) = fresh /\ M!IsInjective(more)
    BY <1>5, <1>18, <1>19, SequenceOf
  <2> QED BY <1>19, <2>1
<1>21. walk'.origins \in Seq(ObselTypes) /\ M!IsInjective(walk'.origins) /\ M!Range(walk'.origins) = M!Range(origins) \cup fresh
  BY <1>7, <1>9, <1>19, <1>20, ConcatIs
<1>22. M!Range(walk'.origins) \subseteq M!OriginsOf(ever, Told')
  BY <1>9, <1>10, <1>12, <1>19, <1>21, OriginsAre
<1>23. kind = "origins" => M!OriginsOf(always, Told') \subseteq M!Range(walk'.origins)
  BY <1>9, <1>10, <1>12, <1>19, <1>21, OriginsAre
<1>24. IsWalk' /\ walk'.always \subseteq M!AllArcs(graph') /\ M!AllArcs(graph') \subseteq walk'.ever
  BY <1>1, <1>7, <1>9
<1> QED BY <1>2, <1>7, <1>9, <1>12, <1>14, <1>16, <1>17, <1>21, <1>22, <1>23, <1>24 DEF Listed

LEMMA WalkIs ==
  ASSUME NEW kind, NEW queue, NEW seen, NEW out, NEW origins, NEW ever, NEW always, NEW edits,
         walk' = [kind |-> kind, queue |-> queue, seen |-> seen, out |-> out, origins |-> origins,
                  ever |-> ever, always |-> always, edits |-> edits]
  PROVE  /\ walk'.kind = kind /\ walk'.queue = queue /\ walk'.seen = seen /\ walk'.out = out /\ walk'.origins = origins
         /\ walk'.ever = ever /\ walk'.always = always /\ IsWalk'
BY DEF IsWalk

LEMMA EditListed ==
  ASSUME GraphsHold', NEW t, Listed(t), M!EditMeanwhile
  PROVE  Listed(t)'
<1>1. PICK kind, queue, seen, out, origins, ever, always, edits :
        walk = [kind |-> kind, queue |-> queue, seen |-> seen, out |-> out, origins |-> origins,
                ever |-> ever, always |-> always, edits |-> edits]
  BY DEF Listed, IsWalk
<1>2. /\ walk.kind = kind /\ walk.queue = queue /\ walk.seen = seen /\ walk.out = out /\ walk.origins = origins
      /\ walk.ever = ever /\ walk.always = always /\ walk.edits = edits
  BY <1>1
<1>3. PICK after : after = M!AllArcs(graph')
  OBVIOUS
<1>4. PICK e, l, n : e = ever \cup after /\ l = always \cap after /\ n = edits + 1
  OBVIOUS
<1>5. /\ walk'.kind = kind /\ walk'.queue = queue /\ walk'.seen = seen /\ walk'.out = out /\ walk'.origins = origins
      /\ walk'.ever = ever \cup after /\ walk'.always = always \cap after /\ IsWalk'
  <2>1. walk' = [kind |-> kind, queue |-> queue, seen |-> seen, out |-> out, origins |-> origins,
                 ever |-> e, always |-> l, edits |-> n]
    BY <1>1, <1>3, <1>4 DEF M!EditMeanwhile
  <2>2. walk'.kind = kind /\ walk'.queue = queue /\ walk'.seen = seen /\ walk'.out = out /\ walk'.origins = origins
        /\ walk'.ever = e /\ walk'.always = l /\ IsWalk'
    BY <2>1, WalkIs
  <2> QED BY <1>4, <2>2
<1>6. Told' = Told /\ Told = M!Range(out)
  BY <1>2, <1>5 DEF Told
<1>7. \A a \in after : \E m \in M!TraceModels : MayHold(m, a)
  BY <1>3 DEF M!AllArcs, GraphsHold
<1>8. \A a \in ever \cup after : \E m \in M!TraceModels : MayHold(m, a)
  BY <1>2, <1>7 DEF Listed
<1>9. seen \subseteq M!Reach(M!Types, Pairs(kind, ever \cup after), {t})
  <2>1. seen \subseteq M!Reach(M!Types, Pairs(kind, ever), {t}) /\ {t} \in SUBSET M!Types
    BY <1>2 DEF Listed
  <2>2. Pairs(kind, ever) \subseteq Pairs(kind, ever \cup after)
    BY DEF Pairs, M!SuperArcs
  <2>3. Within(Pairs(kind, ever), M!Types)
    BY <1>2, PairsWithin DEF Listed
  <2> QED BY <2>1, <2>2, <2>3, Reached
<1>10. M!Range(origins) \subseteq M!OriginsOf(ever \cup after, Told)
  <2>1. M!Range(origins) \subseteq M!OriginsOf(ever, Told)
    BY <1>2 DEF Listed
  <2> QED BY <2>1, OriginsAre
<1>11. \A s \in Told : \A x : <<s, x>> \in Pairs(kind, always \cap after) => x \in seen
  <2>1. Pairs(kind, always \cap after) \subseteq Pairs(kind, always)
    BY DEF Pairs, M!SuperArcs
  <2>2. \A s \in Told : \A x : <<s, x>> \in Pairs(kind, always) => x \in seen
    BY <1>2 DEF Listed
  <2> QED BY <2>1, <2>2
<1>12. kind = "origins" => M!OriginsOf(always \cap after, Told) \subseteq M!Range(origins)
  <2>1. kind = "origins" => M!OriginsOf(always, Told) \subseteq M!Range(origins)
    BY <1>2 DEF Listed
  <2> QED BY <2>1, OriginsAre
<1>13. /\ t \in M!Types /\ out \in Seq(M!Types) /\ M!IsInjective(out) /\ origins \in Seq(ObselTypes) /\ M!IsInjective(origins)
       /\ queue \subseteq M!Types /\ queue \cap Told = {} /\ seen = queue \cup Told
       /\ IF out = <<>> THEN queue = {t} ELSE out[1] = t
  BY <1>2 DEF Listed
<1>14. walk'.always \subseteq after /\ after \subseteq walk'.ever
  BY <1>5
<1> QED BY <1>3, <1>5, <1>6, <1>8, <1>9, <1>10, <1>11, <1>12, <1>13, <1>14 DEF Listed
\* An edit changes one model, which holds what it may; its parents are fewer, or
\* there is one more, which does not descend from it.
EditOf(m, X) ==
  /\ graph' = [graph EXCEPT ![m] = X]
  /\ \A a \in X : MayHold(m, a)
  /\ \/ \A a \in X : a.pred = "parent" => a \in graph[m]
     \/ \E n \in M!TraceModels : X = graph[m] \cup {M!Arc(m, "parent", n)} /\ m \notin M!Ancestors(n) \cup {n}

LEMMA ArcIs ==
  ASSUME NEW m \in M!TraceModels, NEW s, NEW p, NEW o, NEW a, a = M!Arc(s, p, o)
  PROVE  /\ a.subj = s /\ a.pred = p /\ a.obj = o
         /\ p = "parent" /\ s = m /\ o \in M!TraceModels => MayHold(m, a)
         /\ p = "type" /\ s \in ModelHoldings[m] => MayHold(m, a)
         /\ p = "super" /\ s \in ModelHoldings[m] /\ o \in M!Types => MayHold(m, a)
         /\ p = "origin" /\ s \in ModelHoldings[m] /\ o \in ObselTypes => MayHold(m, a)
<1>1. a.subj = s /\ a.pred = p /\ a.obj = o
  BY DEF M!Arc
<1>2. a = M!Arc(a.subj, a.pred, a.obj)
  BY <1>1
<1> QED BY <1>1, <1>2 DEF MayHold

LEMMA EditKeeps ==
  ASSUME GraphsHold, NEW m \in M!TraceModels, NEW X, NEW Y, graph' = [graph EXCEPT ![m] = X], X \subseteq graph[m] \cup Y,
         \A a \in Y : MayHold(m, a) /\ a.pred # "parent"
  PROVE  EditOf(m, X)
BY DEF EditOf, GraphsHold

LEMMA EditIs ==
  ASSUME GraphsHold, M!Edit
  PROVE  \E m \in M!TraceModels : \E X : EditOf(m, X)
<1>3. ASSUME NEW t \in M!Types, NEW supers \in SUBSET M!Types, NEW origins \in SUBSET ObselTypes, M!CreateType(t, supers, origins)
      PROVE  \E m \in M!TraceModels : \E X : EditOf(m, X)
  <2>1. PICK m \in M!TraceModels : m = M!ModelOf(t) /\ t \in ModelHoldings[m]
    BY TypesAre
  <2>2. PICK Y : Y = {M!Arc(t, "type", M!KindOf(t))} \cup {M!Arc(t, "super", s) : s \in supers} \cup {M!Arc(t, "origin", o) : o \in origins}
    OBVIOUS
  <2>3. \A a \in Y : MayHold(m, a) /\ a.pred # "parent"
    BY <2>1, <2>2, ArcIs
  <2>4. PICK X : X = graph[m] \cup {M!Arc(t, "type", M!KindOf(t))}
                       \cup {M!Arc(t, "super", s) : s \in supers} \cup {M!Arc(t, "origin", o) : o \in origins}
    OBVIOUS
  <2>5. graph' = [graph EXCEPT ![m] = X]
    BY <1>3, <2>1, <2>4 DEF M!CreateType
  <2>6. X \subseteq graph[m] \cup Y
    BY <2>2, <2>4
  <2>7. EditOf(m, X)
    BY <2>3, <2>5, <2>6, EditKeeps
  <2> QED BY <2>7
<1>4. ASSUME NEW t \in M!Types, NEW s \in M!Types, M!AddSupertype(t, s) \/ M!RemoveSupertype(t, s)
      PROVE  \E m \in M!TraceModels : \E X : EditOf(m, X)
  <2>1. PICK m \in M!TraceModels : m = M!ModelOf(t) /\ t \in ModelHoldings[m]
    BY TypesAre
  <2>2. PICK a : a = M!Arc(t, "super", s)
    OBVIOUS
  <2>3. MayHold(m, a) /\ a.pred # "parent"
    BY <2>1, <2>2, ArcIs
  <2>4. PICK X : graph' = [graph EXCEPT ![m] = X] /\ X \subseteq graph[m] \cup {a}
    BY <1>4, <2>1, <2>2 DEF M!AddSupertype, M!RemoveSupertype
  <2>5. PICK Y : Y = {a}
    OBVIOUS
  <2>6. X \subseteq graph[m] \cup Y /\ \A b \in Y : MayHold(m, b) /\ b.pred # "parent"
    BY <2>3, <2>4, <2>5
  <2>7. EditOf(m, X)
    BY <2>4, <2>6, EditKeeps
  <2> QED BY <2>7
<1>5. ASSUME NEW t \in M!Types, NEW o \in ObselTypes, M!AddOrigin(t, o) \/ M!RemoveOrigin(t, o)
      PROVE  \E m \in M!TraceModels : \E X : EditOf(m, X)
  <2>1. PICK m \in M!TraceModels : m = M!ModelOf(t) /\ t \in ModelHoldings[m]
    BY TypesAre
  <2>2. PICK a : a = M!Arc(t, "origin", o)
    OBVIOUS
  <2>3. MayHold(m, a) /\ a.pred # "parent"
    BY <2>1, <2>2, ArcIs
  <2>4. PICK X : graph' = [graph EXCEPT ![m] = X] /\ X \subseteq graph[m] \cup {a}
    BY <1>5, <2>1, <2>2 DEF M!AddOrigin, M!RemoveOrigin
  <2>5. PICK Y : Y = {a}
    OBVIOUS
  <2>6. X \subseteq graph[m] \cup Y /\ \A b \in Y : MayHold(m, b) /\ b.pred # "parent"
    BY <2>3, <2>4, <2>5
  <2>7. EditOf(m, X)
    BY <2>4, <2>6, EditKeeps
  <2> QED BY <2>7
<1>6. ASSUME NEW t \in M!Types, M!RemoveType(t)
      PROVE  \E m \in M!TraceModels : \E X : EditOf(m, X)
  <2>1. PICK m \in M!TraceModels : m = M!ModelOf(t)
    BY TypesAre
  <2>2. PICK X : graph' = [graph EXCEPT ![m] = X] /\ X \subseteq graph[m]
    BY <1>6, <2>1 DEF M!RemoveType
  <2>3. EditOf(m, X)
    <3>1. PICK Y : Y = {}
      OBVIOUS
    <3>2. X \subseteq graph[m] \cup Y /\ \A b \in Y : MayHold(m, b) /\ b.pred # "parent"
      BY <2>2, <3>1
    <3> QED BY <2>2, <3>2, EditKeeps
  <2> QED BY <2>3
<1>7. ASSUME NEW m \in M!TraceModels, NEW n \in M!TraceModels, M!RemoveParent(m, n)
      PROVE  \E mm \in M!TraceModels : \E X : EditOf(mm, X)
  <2>1. PICK X : graph' = [graph EXCEPT ![m] = X] /\ X \subseteq graph[m]
    BY <1>7 DEF M!RemoveParent
  <2>2. EditOf(m, X)
    <3>1. PICK Y : Y = {}
      OBVIOUS
    <3>2. X \subseteq graph[m] \cup Y /\ \A b \in Y : MayHold(m, b) /\ b.pred # "parent"
      BY <2>1, <3>1
    <3> QED BY <2>1, <3>2, EditKeeps
  <2> QED BY <2>2
<1>8. ASSUME NEW m \in M!TraceModels, NEW n \in M!TraceModels, M!AddParent(m, n)
      PROVE  \E mm \in M!TraceModels : \E X : EditOf(mm, X)
  <2>1. PICK X : X = graph[m] \cup {M!Arc(m, "parent", n)}
    OBVIOUS
  <2>2. graph' = [graph EXCEPT ![m] = X] /\ m \notin M!Ancestors(n) \cup {n}
    BY <1>8, <2>1 DEF M!AddParent
  <2>3. MayHold(m, M!Arc(m, "parent", n))
    BY ArcIs
  <2>4. \A a \in X : MayHold(m, a)
    BY <2>1, <2>3 DEF GraphsHold
  <2>5. EditOf(m, X)
    BY <2>1, <2>2, <2>4 DEF EditOf
  <2> QED BY <2>5
<1>9. M!TraceModels \cup M!Missing = M!TraceModels
  BY TypesAre
<1> QED BY <1>3, <1>4, <1>5, <1>6, <1>7, <1>8, <1>9 DEF M!Edit

LEMMA EditedHold ==
  ASSUME GraphsHold, NEW m \in M!TraceModels, NEW X, EditOf(m, X)
  PROVE  GraphsHold' /\ graph'[m] = X /\ \A n \in M!TraceModels : n # m => graph'[n] = graph[n]
<1>1. DOMAIN graph = M!TraceModels
  BY DEF GraphsHold
<1>2. graph' = [graph EXCEPT ![m] = X] /\ \A a \in X : MayHold(m, a)
  BY DEF EditOf
<1>3. graph'[m] = X /\ \A n \in M!TraceModels : n # m => graph'[n] = graph[n]
  BY <1>1, <1>2
<1>4. graph' = [n \in M!TraceModels |-> graph'[n]]
  BY <1>1, <1>2
<1>5. \A n \in M!TraceModels : \A a \in graph'[n] : MayHold(n, a)
  <2> SUFFICES ASSUME NEW n \in M!TraceModels, NEW a \in graph'[n] PROVE MayHold(n, a)
    OBVIOUS
  <2>1. CASE n = m
    BY <1>2, <1>3, <2>1
  <2>2. CASE n # m
    BY <1>3, <2>2 DEF GraphsHold
  <2> QED BY <2>1, <2>2
<1> QED BY <1>3, <1>4, <1>5 DEF GraphsHold

\* The arcs that models start with.
Initial(a) == \E s, p, o :
  /\ a = M!Arc(s, p, o)
  /\ \/ p = "parent" /\ {s, o} \subseteq M!TraceModels
     \/ p \in {"type", "super", "origin"} /\ s \in M!Types
  /\ (p = "super" => o \in M!Types) /\ (p = "origin" => o \in ObselTypes)

LEMMA InitWalks == M!Init => Walks
<1> SUFFICES ASSUME M!Init PROVE Walks
  OBVIOUS
<1>1. \E arcs : graph = M!Hold(arcs) /\ \A a \in arcs : Initial(a)
  <2>1. CASE \E arcs \in {X \in SUBSET UNION {M!ArcsOf(t) : t \in M!Types} : M!Cardinality(X) <= MaxArcs} : graph = M!Hold(M!TypeArcs \cup arcs)
    <3>1. PICK arcs \in SUBSET UNION {M!ArcsOf(t) : t \in M!Types} : graph = M!Hold(M!TypeArcs \cup arcs)
      BY <2>1
    <3>2. \A a \in M!TypeArcs : \E t \in M!Types : a = M!Arc(t, "type", M!KindOf(t))
      BY DEF M!TypeArcs
    <3>3. \A a \in arcs : \E t \in M!Types : (\E s \in M!Types : a = M!Arc(t, "super", s)) \/ (\E o \in ObselTypes : a = M!Arc(t, "origin", o))
      <4> SUFFICES ASSUME NEW a \in arcs
                   PROVE  \E t \in M!Types : (\E s \in M!Types : a = M!Arc(t, "super", s)) \/ (\E o \in ObselTypes : a = M!Arc(t, "origin", o))
        OBVIOUS
      <4>1. PICK t \in M!Types : a \in M!ArcsOf(t)
        OBVIOUS
      <4> QED BY <4>1 DEF M!ArcsOf
    <3>4. PICK all : all = M!TypeArcs \cup arcs
      OBVIOUS
    <3>5. ASSUME NEW a \in all
          PROVE  Initial(a)
      <4>1. CASE a \in M!TypeArcs
        BY <3>2, <4>1 DEF Initial
      <4>2. CASE a \in arcs
        BY <3>3, <4>2 DEF Initial
      <4> QED BY <3>4, <4>1, <4>2
    <3> QED BY <3>1, <3>4, <3>5
  <2>2. CASE \E arcs \in SUBSET UNION {M!ParentArcs(m) : m \in M!TraceModels} : graph = M!Hold(arcs)
    <3>1. PICK arcs \in SUBSET UNION {M!ParentArcs(m) : m \in M!TraceModels} : graph = M!Hold(arcs)
      BY <2>2
    <3>2. ASSUME NEW a \in arcs PROVE \E m, n : a = M!Arc(m, "parent", n) /\ {m, n} \subseteq M!TraceModels
      <4>1. PICK m \in M!TraceModels : a \in M!ParentArcs(m)
        OBVIOUS
      <4> QED BY <4>1, TypesAre DEF M!ParentArcs
    <3>3. \A a \in arcs : Initial(a)
      BY <3>2 DEF Initial
    <3> QED BY <3>1, <3>3
  <2> QED BY <2>1, <2>2 DEF M!Init
<1>2. PICK arcs : graph = M!Hold(arcs) /\ \A a \in arcs : Initial(a)
  BY <1>1
<1>3. graph = [m \in M!TraceModels |-> {a \in arcs : a.subj \in ModelHoldings[m] \cup {m}}]
  BY <1>2 DEF M!Hold
<1>4. ASSUME NEW m \in M!TraceModels, NEW a \in graph[m] PROVE MayHold(m, a)
  <2>1. a \in arcs /\ a.subj \in ModelHoldings[m] \cup {m}
    BY <1>3
  <2>2. PICK s, p, o :
               /\ a = M!Arc(s, p, o)
               /\ \/ p = "parent" /\ {s, o} \subseteq M!TraceModels
                  \/ p \in {"type", "super", "origin"} /\ s \in M!Types
               /\ (p = "super" => o \in M!Types) /\ (p = "origin" => o \in ObselTypes)
    BY <1>2, <2>1 DEF Initial
  <2>3. a.subj = s
    BY <2>2, ArcIs
  <2>4. CASE p = "parent"
    <3>1. s = m
      BY <2>1, <2>2, <2>3, <2>4, TypesAre
    <3> QED BY <2>2, <2>4, <3>1, ArcIs
  <2>5. CASE p # "parent"
    <3>1. s \in ModelHoldings[m]
      BY <2>1, <2>2, <2>3, <2>5, TypesAre
    <3> QED BY <2>2, <2>5, <3>1, ArcIs
  <2> QED BY <2>4, <2>5
<1>5. GraphsHold
  BY <1>3, <1>4 DEF GraphsHold
<1> QED BY <1>5 DEF Walks, M!Init
LEMMA NextWalks == Walks /\ M!Next => Walks'
<1> SUFFICES ASSUME Walks, M!Next PROVE Walks'
  OBVIOUS
<1>1. GraphsHold /\ (walk = M!Idle \/ \E t : Listed(t))
  BY DEF Walks
<1>2. walk = M!Idle => walk.queue = {} /\ walk.out = <<>>
  BY DEF M!Idle
<1>3. CASE M!Walking /\ M!EditMeanwhile
  <2>1. PICK m \in M!TraceModels : \E X : EditOf(m, X)
    BY <1>1, <1>3, EditIs DEF M!EditMeanwhile
  <2>2. GraphsHold'
    <3>1. PICK X : EditOf(m, X)
      BY <2>1
    <3> QED BY <1>1, <3>1, EditedHold
  <2>3. PICK t : Listed(t)
    BY <1>1, <1>2, <1>3 DEF M!Walking
  <2>4. Listed(t)'
    BY <1>3, <2>2, <2>3, EditListed
  <2> QED BY <2>2, <2>4 DEF Walks
<1>4. ASSUME NEW t \in M!Types, NEW kind, M!Start(kind, t) PROVE Walks'
  BY <1>1, <1>4, StartListed DEF Walks
<1>5. ASSUME NEW u \in walk.queue, M!Step(u) PROVE Walks'
  <2>1. PICK t : Listed(t)
    BY <1>1, <1>2, <1>5
  <2> QED BY <1>1, <1>5, <2>1, StepListed DEF Walks
<1> QED BY <1>3, <1>4, <1>5 DEF M!Next

LEMMA StutterWalks == Walks /\ graph' = graph /\ walk' = walk => Walks'
<1> SUFFICES ASSUME Walks, graph' = graph, walk' = walk PROVE Walks'
  OBVIOUS
<1>1. ASSUME NEW t, Listed(t) PROVE Listed(t)'
  <2>1. M!AllArcs(graph') = M!AllArcs(graph) /\ Told' = Told /\ IsWalk'
    BY <1>1 DEF Told, Listed, IsWalk
  <2> QED BY <1>1, <2>1 DEF Listed
<1>2. GraphsHold'
  BY DEF Walks, GraphsHold
<1> QED BY <1>1, <1>2 DEF Walks

\* A listing of types tells each of them once, and all of those that were so
\* throughout, whatever is edited meanwhile (api/trace_model.py: _closure).
THEOREM ListingsSound == LibrarySpec => [](part = "models" => M!ListingIsSound)
<1>1. LibraryInit => (part = "models" => Walks)
  BY InitWalks DEF LibraryInit, Functions
<1>2. (part = "models" => Walks) /\ [LibraryNext]_vars => (part = "models" => Walks)'
  BY NextWalks, StutterWalks DEF LibraryNext, vars
<1>3. (part = "models" => Walks) => (part = "models" => M!ListingIsSound)
  <2>1. walk = M!Idle => M!ListingIsSound
    BY DEF M!Idle, M!ListingIsSound
  <2> QED BY <2>1, ListedIsSound DEF Walks
<1> QED BY <1>1, <1>2, <1>3, PTL DEF LibrarySpec
----------------------------------------------------------------------------
(* Models: what models descend from *)

TM == M!TraceModels

\* The parents of each model, and what is reached through them.
Steps(D) == UNION {{<<m, n>> : n \in D[m]} : m \in TM}
Anc(D, m) == M!Reach(TM, Steps(D), D[m])
Acyclic(D) == \A m \in TM : m \notin Anc(D, m)
Parents == [m \in TM |-> M!Direct(m)]

LEMMA StepsWithin ==
  ASSUME NEW D, NEW C
  PROVE  Within(Steps(D), C) <=> \A m \in TM : m \in C => D[m] \subseteq C
<1>1. \A m, n : <<m, n>> \in Steps(D) <=> m \in TM /\ n \in D[m]
  BY DEF Steps
<1>2. \A p \in Steps(D) : p = <<p[1], p[2]>>
  BY DEF Steps
<1>3. ASSUME Within(Steps(D), C), NEW m \in TM, m \in C, NEW n \in D[m] PROVE n \in C
  <2>1. <<m, n>> \in Steps(D)
    BY <1>1
  <2> QED BY <1>3, <2>1, WithinStep
<1>4. ASSUME \A m \in TM : m \in C => D[m] \subseteq C PROVE Within(Steps(D), C)
  <2> SUFFICES ASSUME NEW p \in Steps(D), p[1] \in C PROVE p[2] \in C
    BY DEF Within
  <2>1. <<p[1], p[2]>> \in Steps(D)
    BY <1>2
  <2>2. p[1] \in TM /\ p[2] \in D[p[1]]
    BY <1>1, <2>1
  <2> QED BY <1>4, <2>2
<1> QED BY <1>3, <1>4

LEMMA AncIs ==
  ASSUME NEW D \in [TM -> SUBSET TM], NEW m \in TM
  PROVE  /\ D[m] \subseteq Anc(D, m) /\ Anc(D, m) \subseteq TM
         /\ \A n \in Anc(D, m) : D[n] \subseteq Anc(D, m)
         /\ \A C \in SUBSET TM : D[m] \subseteq C /\ (\A n \in C : D[n] \subseteq C) => Anc(D, m) \subseteq C
<1>1. Within(Steps(D), TM)
  BY StepsWithin
<1>2. /\ D[m] \subseteq Anc(D, m) /\ Anc(D, m) \subseteq TM /\ Within(Steps(D), Anc(D, m))
      /\ \A C \in SUBSET TM : D[m] \subseteq C /\ Within(Steps(D), C) => Anc(D, m) \subseteq C
  <2>1. D[m] \in SUBSET TM
    OBVIOUS
  <2> QED BY <1>1, <2>1, Reached DEF Anc
<1>3. \A n \in Anc(D, m) : D[n] \subseteq Anc(D, m)
  BY <1>2, StepsWithin
<1>4. ASSUME NEW C \in SUBSET TM, D[m] \subseteq C, \A n \in C : D[n] \subseteq C PROVE Anc(D, m) \subseteq C
  <2>1. Within(Steps(D), C)
    BY <1>4, StepsWithin
  <2> QED BY <1>2, <1>4, <2>1
<1> QED BY <1>2, <1>3, <1>4

\* The ancestors of a model: its parents, and theirs.
LEMMA AncUnfolds ==
  ASSUME NEW D \in [TM -> SUBSET TM], NEW m \in TM
  PROVE  /\ \A n \in Anc(D, m) : Anc(D, n) \subseteq Anc(D, m)
         /\ Anc(D, m) = D[m] \cup UNION {Anc(D, n) : n \in D[m]}
<1>1. ASSUME NEW n \in Anc(D, m) PROVE Anc(D, n) \subseteq Anc(D, m)
  <2>1. n \in TM /\ Anc(D, m) \in SUBSET TM /\ D[n] \subseteq Anc(D, m) /\ \A x \in Anc(D, m) : D[x] \subseteq Anc(D, m)
    BY AncIs
  <2> QED BY <2>1, AncIs
<1>2. PICK C : C = D[m] \cup UNION {Anc(D, n) : n \in D[m]}
  OBVIOUS
<1>3. C \subseteq Anc(D, m)
  BY <1>1, <1>2, AncIs
<1>4. Anc(D, m) \subseteq C
  <2>1. C \in SUBSET TM
    BY <1>3, AncIs
  <2>2. ASSUME NEW n \in C PROVE D[n] \subseteq C
    <3>1. CASE n \in D[m]
      BY <1>2, <3>1, AncIs
    <3>2. ASSUME NEW p \in D[m], n \in Anc(D, p) PROVE D[n] \subseteq C
      BY <1>2, <3>2, AncIs
    <3> QED BY <1>2, <3>1, <3>2
  <2>3. D[m] \subseteq C
    BY <1>2
  <2> QED BY <2>1, <2>2, <2>3, AncIs
<1> QED BY <1>1, <1>2, <1>3, <1>4

LEMMA FewerParents ==
  ASSUME NEW D \in [TM -> SUBSET TM], NEW E \in [TM -> SUBSET TM], \A m \in TM : E[m] \subseteq D[m], Acyclic(D)
  PROVE  Acyclic(E)
<1> SUFFICES ASSUME NEW m \in TM PROVE Anc(E, m) \subseteq Anc(D, m)
  BY DEF Acyclic
<1>1. Anc(D, m) \in SUBSET TM /\ E[m] \subseteq Anc(D, m) /\ \A n \in Anc(D, m) : E[n] \subseteq Anc(D, m)
  BY AncIs
<1> QED BY <1>1, AncIs

LEMMA OneMoreParent ==
  ASSUME NEW D \in [TM -> SUBSET TM], Acyclic(D), NEW m \in TM, NEW n \in TM, m \notin Anc(D, n) \cup {n},
         NEW E \in [TM -> SUBSET TM], \A x \in TM : E[x] = IF x = m THEN D[m] \cup {n} ELSE D[x]
  PROVE  Acyclic(E)
<1> SUFFICES ASSUME NEW x \in TM, x \in Anc(E, x) PROVE FALSE
  BY DEF Acyclic
<1>1. PICK C : C = Anc(D, x) \cup (IF m \in Anc(D, x) \cup {x} THEN {n} \cup Anc(D, n) ELSE {})
  OBVIOUS
<1>2. Anc(E, x) \subseteq C
  <2>1. C \in SUBSET TM
    BY <1>1, AncIs
  <2>2. E[x] \subseteq C
    BY <1>1, AncIs
  <2>3. ASSUME NEW y \in C PROVE E[y] \subseteq C
    <3>1. y \in TM
      BY <2>1
    <3>2. D[y] \subseteq C
      BY <1>1, AncIs
    <3>3. y = m => n \in C
      <4>1. y = m => m \notin Anc(D, n) \cup {n}
        OBVIOUS
      <4> QED BY <1>1, <4>1
    <3> QED BY <3>1, <3>2, <3>3
  <2> QED BY <2>1, <2>2, <2>3, AncIs
<1>3. x \notin Anc(D, x)
  BY DEF Acyclic
<1>4. m \in Anc(D, x) \cup {x} /\ x \in {n} \cup Anc(D, n)
  BY <1>1, <1>2, <1>3
<1>5. CASE m = x
  BY <1>4, <1>5
<1>6. CASE m \in Anc(D, x)
  <2>1. CASE x = n
    BY <1>6, <2>1
  <2>2. CASE x \in Anc(D, n)
    <3>1. Anc(D, x) \subseteq Anc(D, n)
      BY <2>2, AncUnfolds
    <3> QED BY <1>6, <3>1
  <2> QED BY <1>4, <2>1, <2>2
<1> QED BY <1>4, <1>5, <1>6
LEMMA ParentsAre ==
  ASSUME GraphsHold
  PROVE  /\ Parents \in [TM -> SUBSET TM] /\ \A m \in TM : Parents[m] = M!Direct(m)
         /\ \A m \in TM : M!Ancestors(m) = Anc(Parents, m)
         /\ \A m \in TM : \A n : n \in M!Direct(m) <=> M!Arc(m, "parent", n) \in graph[m]
<1>1. ASSUME NEW m \in TM, NEW n PROVE (n \in M!Direct(m) <=> M!Arc(m, "parent", n) \in graph[m]) /\ (n \in M!Direct(m) => n \in TM)
  <2>1. ASSUME NEW a \in graph[m], a.pred = "parent" PROVE a = M!Arc(m, "parent", a.obj) /\ a.obj \in TM
    <3>1. MayHold(m, a)
      BY DEF GraphsHold, TM
    <3> QED BY <2>1, <3>1 DEF MayHold, TM
  <2>2. n \in M!Direct(m) <=> \E a \in graph[m] : a.pred = "parent" /\ a.obj = n
    BY DEF M!Direct
  <2>3. M!Arc(m, "parent", n).pred = "parent" /\ M!Arc(m, "parent", n).obj = n
    BY DEF M!Arc
  <2>4. M!Arc(m, "parent", n) \in graph[m] => n \in TM
    BY <2>1, <2>3
  <2> QED BY <2>1, <2>2, <2>3, <2>4
<1>2. Parents \in [TM -> SUBSET TM] /\ \A m \in TM : Parents[m] = M!Direct(m)
  BY <1>1 DEF Parents
<1>3. ASSUME NEW m \in TM PROVE M!Ancestors(m) = Anc(Parents, m)
  <2>1. M!Parentage = Steps(Parents)
    BY <1>2 DEF M!Parentage, Steps, TM
  <2>2. TM \cup M!Missing = TM
    BY TypesAre
  <2> QED BY <1>2, <2>1, <2>2 DEF M!Ancestors, Anc, TM
<1> QED BY <1>1, <1>2, <1>3

LEMMA ParentsAreNext ==
  ASSUME GraphsHold'
  PROVE  Parents' \in [TM -> SUBSET TM] /\ \A m \in TM : \A n : n \in Parents'[m] <=> M!Arc(m, "parent", n) \in graph'[m]
<1>1. ASSUME NEW m \in TM, NEW n PROVE (n \in M!Direct(m)' <=> M!Arc(m, "parent", n) \in graph'[m]) /\ (n \in M!Direct(m)' => n \in TM)
  <2>1. ASSUME NEW a \in graph'[m], a.pred = "parent" PROVE a = M!Arc(m, "parent", a.obj) /\ a.obj \in TM
    <3>1. MayHold(m, a)
      BY DEF GraphsHold, TM
    <3> QED BY <2>1, <3>1 DEF MayHold, TM
  <2>2. n \in M!Direct(m)' <=> \E a \in graph'[m] : a.pred = "parent" /\ a.obj = n
    BY DEF M!Direct
  <2>3. M!Arc(m, "parent", n).pred = "parent" /\ M!Arc(m, "parent", n).obj = n
    BY DEF M!Arc
  <2>4. M!Arc(m, "parent", n) \in graph'[m] => n \in TM
    BY <2>1, <2>3
  <2> QED BY <2>1, <2>2, <2>3, <2>4
<1> QED BY <1>1 DEF Parents

Descend == GraphsHold /\ Acyclic(Parents)

LEMMA EditDescend ==
  ASSUME Descend, M!Edit
  PROVE  Descend'
<1>1. PICK m \in TM : \E X : EditOf(m, X)
  BY EditIs DEF Descend, TM
<1>2. PICK X : EditOf(m, X)
  BY <1>1
<1>3. GraphsHold' /\ graph'[m] = X /\ \A n \in TM : n # m => graph'[n] = graph[n]
  BY <1>2, EditedHold DEF Descend, TM
<1>4. PICK D, E : D = Parents /\ E = Parents'
  OBVIOUS
<1>5. D \in [TM -> SUBSET TM] /\ Acyclic(D) /\ \A x \in TM : \A n : n \in D[x] <=> M!Arc(x, "parent", n) \in graph[x]
  BY <1>4, ParentsAre DEF Descend
<1>6. E \in [TM -> SUBSET TM] /\ \A x \in TM : \A n : n \in E[x] <=> M!Arc(x, "parent", n) \in graph'[x]
  BY <1>3, <1>4, ParentsAreNext
<1>7. \A x \in TM : x # m => E[x] = D[x]
  BY <1>3, <1>5, <1>6
<1>8. \A n : M!Arc(m, "parent", n).pred = "parent" /\ M!Arc(m, "parent", n).obj = n
  BY DEF M!Arc
<1>9. CASE \A a \in X : a.pred = "parent" => a \in graph[m]
  <2>1. E[m] \subseteq D[m]
    BY <1>3, <1>5, <1>6, <1>8, <1>9
  <2>2. \A x \in TM : E[x] \subseteq D[x]
    BY <1>7, <2>1
  <2>3. Acyclic(E)
    BY <1>5, <1>6, <2>2, FewerParents
  <2> QED BY <1>3, <1>4, <2>3 DEF Descend
<1>10. ASSUME NEW n \in TM, X = graph[m] \cup {M!Arc(m, "parent", n)}, m \notin M!Ancestors(n) \cup {n}
       PROVE  Descend'
  <2>1. E[m] = D[m] \cup {n}
    BY <1>3, <1>5, <1>6, <1>8, <1>10
  <2>2. m \notin Anc(D, n) \cup {n}
    BY <1>4, <1>10, ParentsAre DEF Descend
  <2>3. \A x \in TM : E[x] = IF x = m THEN D[m] \cup {n} ELSE D[x]
    BY <1>7, <2>1
  <2>4. Acyclic(E)
    BY <1>5, <1>6, <2>2, <2>3, OneMoreParent
  <2> QED BY <1>3, <1>4, <2>4 DEF Descend
<1> QED BY <1>2, <1>9, <1>10 DEF EditOf, TM
----------------------------------------------------------------------------
(* Models: what is listed *)

\* The models that are told once: those that were, and the others.
LEMMA OnceIs ==
  ASSUME NEW told \in Seq(TM), M!IsInjective(told), NEW more \in Seq(TM)
  PROVE  /\ M!Once(told, more) \in Seq(TM) /\ M!IsInjective(M!Once(told, more))
         /\ M!Range(M!Once(told, more)) = M!Range(told) \cup M!Range(more)
<1>1. PICK n : n = Len(more) /\ n \in Nat /\ \A k \in 1 .. n : more[k] \in TM
  OBVIOUS
<1>2. PICK step : step = [p \in (1 .. n) \X Seq(TM) |-> IF more[p[1]] \in M!Range(p[2]) THEN p[2] ELSE Append(p[2], more[p[1]])]
  OBVIOUS
<1>3. step \in [(1 .. n) \X Seq(TM) -> Seq(TM)]
  <2>1. ASSUME NEW p \in (1 .. n) \X Seq(TM) PROVE step[p] \in Seq(TM)
    <3>1. more[p[1]] \in TM /\ p[2] \in Seq(TM)
      BY <1>1
    <3>2. Append(p[2], more[p[1]]) \in Seq(TM)
      BY <3>1
    <3> QED BY <1>2, <3>1, <3>2
  <2> QED BY <1>2, <2>1
<1>4. PICK f \in [0 .. n -> Seq(TM)] : f[0] = told /\ \A k \in 1 .. n : f[k] = step[<<k, f[k - 1]>>]
  <2>1. Advances(step, n, Seq(TM))
    BY <1>3 DEF Advances
  <2>2. \E f : Iterated(f, step, n, told, Seq(TM))
    BY <1>1, <2>1, Iterates
  <2> QED BY <2>2 DEF Iterated
<1>5. \A k \in 1 .. n : f[k] = IF more[k] \in M!Range(f[k - 1]) THEN f[k - 1] ELSE Append(f[k - 1], more[k])
  <2> SUFFICES ASSUME NEW k \in 1 .. n PROVE f[k] = IF more[k] \in M!Range(f[k - 1]) THEN f[k - 1] ELSE Append(f[k - 1], more[k])
    OBVIOUS
  <2>1. k - 1 \in 0 .. n
    BY <1>1
  <2>2. <<k, f[k - 1]>> \in (1 .. n) \X Seq(TM)
    BY <1>4, <2>1
  <2> QED BY <1>2, <1>4, <2>2
<1>6. f = [k \in 0 .. Len(more) |->
             IF k = 0 THEN told
             ELSE IF more[k] \in M!Range(f[k - 1]) THEN f[k - 1] ELSE Append(f[k - 1], more[k])]
  <2>1. \A k \in 0 .. n : f[k] = IF k = 0 THEN told ELSE IF more[k] \in M!Range(f[k - 1]) THEN f[k - 1] ELSE Append(f[k - 1], more[k])
    <3> SUFFICES ASSUME NEW k \in 0 .. n
                 PROVE  f[k] = IF k = 0 THEN told ELSE IF more[k] \in M!Range(f[k - 1]) THEN f[k - 1] ELSE Append(f[k - 1], more[k])
      OBVIOUS
    <3>1. CASE k = 0
      BY <1>4, <3>1
    <3>2. CASE k # 0
      <4>1. k \in 1 .. n
        BY <1>1, <3>2
      <4> QED BY <1>5, <3>2, <4>1, Zenon
    <3> QED BY <3>1, <3>2
  <2> QED BY <1>1, <1>4, <2>1
<1>7. PICK g : /\ g = [k \in 0 .. Len(more) |->
                         IF k = 0 THEN told
                         ELSE IF more[k] \in M!Range(g[k - 1]) THEN g[k - 1] ELSE Append(g[k - 1], more[k])]
               /\ M!Once(told, more) = g[Len(more)]
  BY <1>6 DEF M!Once
<1>8. g[0] = told /\ \A k \in 1 .. n : g[k] = IF more[k] \in M!Range(g[k - 1]) THEN g[k - 1] ELSE Append(g[k - 1], more[k])
  <2>1. \A k \in 0 .. n : g[k] = IF k = 0 THEN told ELSE IF more[k] \in M!Range(g[k - 1]) THEN g[k - 1] ELSE Append(g[k - 1], more[k])
    BY <1>1, <1>7
  <2> QED BY <1>1, <2>1
<1>9. PICK P : P = {k \in Nat : k <= n => /\ g[k] \in Seq(TM) /\ M!IsInjective(g[k])
                                         /\ \A x : x \in M!Range(g[k]) <=> x \in M!Range(told) \/ \E i \in 1 .. k : more[i] = x}
  OBVIOUS
<1>10. 0 \in P
  BY <1>1, <1>8, <1>9
<1>11. ASSUME NEW j \in P PROVE j + 1 \in P
  <2>1. j \in Nat
    BY <1>9
  <2>2. SUFFICES ASSUME j + 1 <= n
                 PROVE  /\ g[j + 1] \in Seq(TM) /\ M!IsInjective(g[j + 1])
                        /\ \A x : x \in M!Range(g[j + 1]) <=> x \in M!Range(told) \/ \E i \in 1 .. j + 1 : more[i] = x
    BY <1>9, <2>1
  <2>3. j + 1 \in 1 .. n /\ more[j + 1] \in TM
    BY <1>1, <2>1, <2>2
  <2>4. /\ g[j] \in Seq(TM) /\ M!IsInjective(g[j])
        /\ \A x : x \in M!Range(g[j]) <=> x \in M!Range(told) \/ \E i \in 1 .. j : more[i] = x
    BY <1>1, <1>9, <2>1, <2>2
  <2>5. g[j + 1] = IF more[j + 1] \in M!Range(g[j]) THEN g[j] ELSE Append(g[j], more[j + 1])
    BY <1>8, <2>1, <2>3
  <2>6. \A x : (\E i \in 1 .. j + 1 : more[i] = x) <=> x = more[j + 1] \/ \E i \in 1 .. j : more[i] = x
    BY <2>1
  <2>7. CASE more[j + 1] \in M!Range(g[j])
    BY <2>4, <2>5, <2>6, <2>7
  <2>8. CASE more[j + 1] \notin M!Range(g[j])
    <3>1. /\ g[j + 1] \in Seq(TM) /\ M!IsInjective(g[j + 1])
          /\ M!Range(g[j + 1]) = M!Range(g[j]) \cup {more[j + 1]}
      BY <2>3, <2>4, <2>5, <2>8, AppendIs
    <3> QED BY <2>4, <2>6, <3>1
  <2> QED BY <2>7, <2>8
<1>12. n \in P
  <2>1. P \in SUBSET Nat
    BY <1>9
  <2> QED BY <1>1, <1>10, <1>11, <2>1, Induction
<1>13. \A x : x \in M!Range(more) <=> \E i \in 1 .. n : more[i] = x
  <2>1. DOMAIN more = 1 .. n
    BY <1>1
  <2> QED BY <2>1 DEF M!Range
<1> QED BY <1>1, <1>7, <1>9, <1>12, <1>13
\* Sequences that tell each of the models in them once.
Tellings == {q \in Seq(TM) : M!IsInjective(q)}

LEMMA LineageIs ==
  ASSUME NEW direct \in Tellings, NEW listed, \A n \in TM : listed[n] \in Tellings
  PROVE  /\ M!Lineage(direct, listed) \in Tellings
         /\ \A x : x \in M!Range(M!Lineage(direct, listed)) <=>
              x \in M!Range(direct) \/ \E y \in M!Range(direct) : x \in M!Range(listed[y])
<1>1. PICK n : n = Len(direct) /\ n \in Nat /\ DOMAIN direct = 1 .. n /\ \A k \in 1 .. n : direct[k] \in TM
  BY DEF Tellings
<1>2. \A q \in Tellings : \A w \in Tellings : M!Once(q, w) \in Tellings /\ M!Range(M!Once(q, w)) = M!Range(q) \cup M!Range(w)
  BY OnceIs DEF Tellings
<1>3. PICK step : step = [p \in (1 .. n) \X Tellings |-> M!Once(p[2], listed[direct[p[1]]])]
  OBVIOUS
<1>4. Advances(step, n, Tellings)
  <2>1. ASSUME NEW p \in (1 .. n) \X Tellings PROVE M!Once(p[2], listed[direct[p[1]]]) \in Tellings
    <3>1. p[2] \in Tellings /\ listed[direct[p[1]]] \in Tellings
      BY <1>1
    <3> QED BY <1>2, <3>1
  <2> QED BY <1>3, <2>1 DEF Advances
<1>5. PICK f : Iterated(f, step, n, direct, Tellings)
  BY <1>1, <1>4, Iterates
<1>6. \A k \in 1 .. n : f[k] = M!Once(f[k - 1], listed[direct[k]])
  <2> SUFFICES ASSUME NEW k \in 1 .. n PROVE f[k] = M!Once(f[k - 1], listed[direct[k]])
    OBVIOUS
  <2>1. <<k, f[k - 1]>> \in (1 .. n) \X Tellings
    BY <1>1, <1>5 DEF Iterated
  <2>2. f[k] = step[<<k, f[k - 1]>>]
    BY <1>5 DEF Iterated
  <2> QED BY <1>3, <2>1, <2>2
<1>7. f = [j \in 0 .. Len(direct) |-> IF j = 0 THEN direct ELSE M!Once(f[j - 1], listed[direct[j]])]
  <2>1. \A j \in 0 .. n : f[j] = IF j = 0 THEN direct ELSE M!Once(f[j - 1], listed[direct[j]])
    BY <1>1, <1>5, <1>6 DEF Iterated
  <2>2. f \in [0 .. n -> Tellings]
    BY <1>5 DEF Iterated
  <2> QED BY <1>1, <2>1, <2>2
<1>8. PICK g : /\ g = [j \in 0 .. Len(direct) |-> IF j = 0 THEN direct ELSE M!Once(g[j - 1], listed[direct[j]])]
               /\ M!Lineage(direct, listed) = g[Len(direct)]
  BY <1>7 DEF M!Lineage
<1>9. g[0] = direct /\ \A j \in 1 .. n : g[j] = M!Once(g[j - 1], listed[direct[j]])
  <2>1. \A j \in 0 .. n : g[j] = IF j = 0 THEN direct ELSE M!Once(g[j - 1], listed[direct[j]])
    BY <1>1, <1>8
  <2> QED BY <1>1, <2>1
<1>10. PICK P : P = {j \in Nat : j <= n => /\ g[j] \in Tellings
                                          /\ \A x : x \in M!Range(g[j]) <=>
                                               x \in M!Range(direct) \/ \E i \in 1 .. j : x \in M!Range(listed[direct[i]])}
  OBVIOUS
<1>11. 0 \in P
  BY <1>1, <1>9, <1>10
<1>12. ASSUME NEW j \in P PROVE j + 1 \in P
  <2>1. j \in Nat
    BY <1>10
  <2>2. SUFFICES ASSUME j + 1 <= n
                 PROVE  /\ g[j + 1] \in Tellings
                        /\ \A x : x \in M!Range(g[j + 1]) <=>
                             x \in M!Range(direct) \/ \E i \in 1 .. j + 1 : x \in M!Range(listed[direct[i]])
    BY <1>10, <2>1
  <2>3. j + 1 \in 1 .. n /\ listed[direct[j + 1]] \in Tellings
    BY <1>1, <2>1, <2>2
  <2>4. /\ g[j] \in Tellings
        /\ \A x : x \in M!Range(g[j]) <=> x \in M!Range(direct) \/ \E i \in 1 .. j : x \in M!Range(listed[direct[i]])
    BY <1>1, <1>10, <2>1, <2>2
  <2>5. g[j + 1] = M!Once(g[j], listed[direct[j + 1]])
    BY <1>9, <2>1, <2>3
  <2>6. g[j + 1] \in Tellings /\ M!Range(g[j + 1]) = M!Range(g[j]) \cup M!Range(listed[direct[j + 1]])
    BY <1>2, <2>3, <2>4, <2>5
  <2>7. \A i : i \in 1 .. j + 1 <=> i = j + 1 \/ i \in 1 .. j
    BY <2>1
  <2> QED BY <2>4, <2>6, <2>7
<1>13. n \in P
  <2>1. P \in SUBSET Nat
    BY <1>10
  <2> QED BY <1>1, <1>11, <1>12, <2>1, Induction
<1>14. \A x : (\E y \in M!Range(direct) : x \in M!Range(listed[y])) <=> \E i \in 1 .. n : x \in M!Range(listed[direct[i]])
  BY <1>1 DEF M!Range
<1>15. /\ g[n] \in Tellings
       /\ \A x : x \in M!Range(g[n]) <=> x \in M!Range(direct) \/ \E i \in 1 .. n : x \in M!Range(listed[direct[i]])
  BY <1>1, <1>10, <1>13
<1>16. M!Lineage(direct, listed) = g[n]
  BY <1>1, <1>8
<1> QED BY <1>14, <1>15, <1>16

LEMMA ParentsInTurn ==
  ASSUME GraphsHold, NEW m \in TM
  PROVE  M!Ordered(M!Direct(m)) \in Tellings /\ M!Range(M!Ordered(M!Direct(m))) = Parents[m]
<1>1. Parents[m] = M!Direct(m) /\ M!Direct(m) \in SUBSET TM
  BY ParentsAre
<1>2. IsFiniteSet(M!Direct(m))
  BY <1>1, TypesAre, FS_Subset DEF TM
<1>3. PICK q : q = M!Ordered(M!Direct(m))
  OBVIOUS
<1>4. q \in Seq(M!Direct(m)) /\ M!Range(q) = M!Direct(m) /\ M!IsInjective(q)
  BY <1>2, <1>3, SequenceOf
<1>5. q \in Seq(TM)
  BY <1>1, <1>4
<1> QED BY <1>1, <1>3, <1>4, <1>5 DEF Tellings

LEMMA NoneAndAll ==
  /\ <<>> \in Tellings /\ M!Range(<<>>) = {}
  /\ TM \cup M!Missing = TM /\ \A n \in TM : n \notin M!Missing
  /\ IsFiniteSet(TM) /\ Cardinality(TM) \in Nat /\ M!Cardinality(M!TraceModels) = Cardinality(TM)
<1>1. IsFiniteSet(TM) /\ M!Missing = {}
  BY TypesAre DEF TM
<1>2. Cardinality(TM) \in Nat
  BY <1>1, FS_CardinalityType
<1>3. M!Cardinality(M!TraceModels) = Cardinality(TM)
  BY SameCardinality DEF TM
<1>4. <<>> \in Seq(TM) /\ M!Range(<<>>) = {} /\ M!IsInjective(<<>>)
  BY DEF M!Range, M!IsInjective
<1> QED BY <1>1, <1>2, <1>3, <1>4 DEF Tellings
\* Listings that go k generations up.
Lists(h, D, k) ==
  \A x \in TM : /\ h[x] \in Tellings /\ M!Range(h[x]) \subseteq Anc(D, x)
                /\ Cardinality(Anc(D, x)) <= k => M!Range(h[x]) = Anc(D, x)

\* A model lists its ancestors, each once.
LEMMA ListingIs ==
  ASSUME Descend, NEW m \in TM
  PROVE  M!Listing(m) \in Tellings /\ M!Range(M!Listing(m)) = M!Ancestors(m)
<1>1. PICK D : D = Parents
  OBVIOUS
<1>2. GraphsHold /\ D \in [TM -> SUBSET TM] /\ Acyclic(D) /\ M!Ancestors(m) = Anc(D, m)
  BY <1>1, ParentsAre DEF Descend
<1>3. PICK n : n = Cardinality(TM) /\ n \in Nat /\ n = M!Cardinality(M!TraceModels)
  BY NoneAndAll
<1>4. PICK X : X = [TM -> Tellings]
  OBVIOUS
<1>5. PICK none : none = [x \in TM |-> <<>>]
  OBVIOUS
<1>6. none \in X
  BY <1>4, <1>5, NoneAndAll
<1>7. PICK first : first = [x \in TM |-> M!Ordered(M!Direct(x))]
  OBVIOUS
<1>8. \A x \in TM : first[x] \in Tellings /\ M!Range(first[x]) = D[x]
  BY <1>1, <1>2, <1>7, ParentsInTurn
<1>9. PICK step : step = [p \in (1 .. n) \X X |-> [x \in TM |-> M!Lineage(first[x], p[2])]]
  OBVIOUS
<1>10. \A h \in X : \A x \in TM :
          /\ M!Lineage(first[x], h) \in Tellings
          /\ \A y : y \in M!Range(M!Lineage(first[x], h)) <=> y \in D[x] \/ \E p \in D[x] : y \in M!Range(h[p])
  <2> SUFFICES ASSUME NEW h \in X, NEW x \in TM
               PROVE  /\ M!Lineage(first[x], h) \in Tellings
                      /\ \A y : y \in M!Range(M!Lineage(first[x], h)) <=> y \in D[x] \/ \E p \in D[x] : y \in M!Range(h[p])
    OBVIOUS
  <2>1. \A y \in TM : h[y] \in Tellings
    BY <1>4
  <2> QED BY <1>8, <2>1, LineageIs
<1>11. Advances(step, n, X)
  BY <1>4, <1>9, <1>10 DEF Advances
<1>12. PICK f : Iterated(f, step, n, none, X)
  BY <1>3, <1>6, <1>11, Iterates
<1>13. f \in [0 .. n -> X] /\ f[0] = none /\ \A k \in 1 .. n : f[k] = [x \in TM |-> M!Lineage(first[x], f[k - 1])]
  <2>1. f \in [0 .. n -> X] /\ f[0] = none
    BY <1>12 DEF Iterated
  <2>2. ASSUME NEW k \in 1 .. n PROVE f[k] = [x \in TM |-> M!Lineage(first[x], f[k - 1])]
    <3>1. <<k, f[k - 1]>> \in (1 .. n) \X X
      BY <1>3, <2>1
    <3>2. f[k] = step[<<k, f[k - 1]>>]
      BY <1>12 DEF Iterated
    <3> QED BY <1>9, <3>1, <3>2
  <2> QED BY <2>1, <2>2
<1>14. f = [k \in 0 .. M!Cardinality(M!TraceModels) |->
              [x \in M!TraceModels \cup M!Missing |->
                 IF k = 0 \/ x \in M!Missing THEN <<>> ELSE M!Lineage(M!Ordered(M!Direct(x)), f[k - 1])]]
  <2>1. ASSUME NEW k \in 0 .. n PROVE f[k] = [x \in TM |-> IF k = 0 THEN <<>> ELSE M!Lineage(first[x], f[k - 1])]
    <3>1. CASE k = 0
      BY <1>5, <1>13, <3>1
    <3>2. CASE k # 0
      <4>1. k \in 1 .. n
        BY <1>3, <3>2
      <4> QED BY <1>13, <3>2, <4>1
    <3> QED BY <3>1, <3>2
  <2>2. ASSUME NEW k \in 0 .. n
        PROVE  f[k] = [x \in TM \cup M!Missing |-> IF k = 0 \/ x \in M!Missing THEN <<>> ELSE M!Lineage(M!Ordered(M!Direct(x)), f[k - 1])]
    <3>1. \A x \in TM : (IF k = 0 THEN <<>> ELSE M!Lineage(first[x], f[k - 1]))
                        = IF k = 0 \/ x \in M!Missing THEN <<>> ELSE M!Lineage(M!Ordered(M!Direct(x)), f[k - 1])
      BY <1>7, NoneAndAll
    <3> QED BY <2>1, <3>1, NoneAndAll
  <2> QED BY <1>3, <1>13, <2>2 DEF TM
<1>15. PICK g : /\ g = [k \in 0 .. M!Cardinality(M!TraceModels) |->
                          [x \in M!TraceModels \cup M!Missing |->
                             IF k = 0 \/ x \in M!Missing THEN <<>> ELSE M!Lineage(M!Ordered(M!Direct(x)), g[k - 1])]]
                /\ M!Listing(m) = g[M!Cardinality(M!TraceModels)][m]
  BY <1>14 DEF M!Listing
<1>16. \A x \in TM : g[0][x] = <<>> /\ \A k \in 1 .. n : g[k][x] = M!Lineage(first[x], g[k - 1])
  <2>1. \A k \in 0 .. n : g[k] = [x \in TM \cup M!Missing |->
                                     IF k = 0 \/ x \in M!Missing THEN <<>> ELSE M!Lineage(M!Ordered(M!Direct(x)), g[k - 1])]
    BY <1>3, <1>15 DEF TM
  <2>2. \A k \in 0 .. n : g[k] = [x \in TM |-> IF k = 0 THEN <<>> ELSE M!Lineage(M!Ordered(M!Direct(x)), g[k - 1])]
    <3> SUFFICES ASSUME NEW k \in 0 .. n
                 PROVE  g[k] = [x \in TM |-> IF k = 0 THEN <<>> ELSE M!Lineage(M!Ordered(M!Direct(x)), g[k - 1])]
      OBVIOUS
    <3> QED BY <2>1, NoneAndAll
  <2> SUFFICES ASSUME NEW x \in TM PROVE g[0][x] = <<>> /\ \A k \in 1 .. n : g[k][x] = M!Lineage(first[x], g[k - 1])
    OBVIOUS
  <2>3. \A k \in 0 .. n : g[k][x] = IF k = 0 THEN <<>> ELSE M!Lineage(M!Ordered(M!Direct(x)), g[k - 1])
    BY <2>2
  <2>4. 0 \in 0 .. n /\ \A k \in 1 .. n : k \in 0 .. n /\ k # 0
    BY <1>3
  <2>5. first[x] = M!Ordered(M!Direct(x))
    BY <1>7
  <2> QED BY <2>3, <2>4, <2>5
<1>17. \A k \in 0 .. n : DOMAIN g[k] = TM /\ g[k] = [x \in TM |-> g[k][x]]
  BY <1>3, <1>15, NoneAndAll DEF TM
<1>18. PICK P : P = {k \in Nat : k <= n => Lists(g[k], D, k)}
  OBVIOUS
<1>19. \A x \in TM : IsFiniteSet(Anc(D, x)) /\ Cardinality(Anc(D, x)) \in Nat /\ Cardinality(Anc(D, x)) <= n
  <2> SUFFICES ASSUME NEW x \in TM PROVE IsFiniteSet(Anc(D, x)) /\ Cardinality(Anc(D, x)) \in Nat /\ Cardinality(Anc(D, x)) <= n
    OBVIOUS
  <2>1. Anc(D, x) \in SUBSET TM
    BY <1>2, AncIs
  <2> QED BY <1>3, <2>1, NoneAndAll, FS_Subset, FS_CardinalityType
<1>20. 0 \in P
  <2>1. \A x \in TM : Cardinality(Anc(D, x)) <= 0 => Anc(D, x) = {}
    BY <1>19, FS_EmptySet
  <2>2. Lists(g[0], D, 0)
    BY <1>16, <2>1, NoneAndAll DEF Lists
  <2> QED BY <1>18, <2>2
<1>21. ASSUME NEW k \in P PROVE k + 1 \in P
  <2>1. k \in Nat
    BY <1>18
  <2>2. SUFFICES ASSUME k + 1 <= n, NEW x \in TM
                 PROVE  /\ g[k + 1][x] \in Tellings /\ M!Range(g[k + 1][x]) \subseteq Anc(D, x)
                        /\ Cardinality(Anc(D, x)) <= k + 1 => M!Range(g[k + 1][x]) = Anc(D, x)
    <3>1. SUFFICES ASSUME k + 1 <= n PROVE Lists(g[k + 1], D, k + 1)
      BY <1>18, <2>1
    <3> QED BY <3>1 DEF Lists
  <2>3. k + 1 \in 1 .. n /\ k \in 0 .. n /\ (k + 1) - 1 = k
    BY <1>3, <2>1, <2>2
  <2>4. \A p \in TM : /\ g[k][p] \in Tellings /\ M!Range(g[k][p]) \subseteq Anc(D, p)
                      /\ Cardinality(Anc(D, p)) <= k => M!Range(g[k][p]) = Anc(D, p)
    <3>1. Lists(g[k], D, k)
      BY <1>3, <1>18, <2>1, <2>2
    <3> QED BY <3>1 DEF Lists
  <2>5. g[k] \in X
    BY <1>4, <1>17, <2>3, <2>4
  <2>6. g[k + 1][x] = M!Lineage(first[x], g[k])
    BY <1>16, <2>3
  <2>7. /\ g[k + 1][x] \in Tellings
        /\ \A y : y \in M!Range(g[k + 1][x]) <=> y \in D[x] \/ \E p \in D[x] : y \in M!Range(g[k][p])
    BY <1>10, <2>5, <2>6
  <2>8. D[x] \subseteq Anc(D, x) /\ Anc(D, x) \subseteq TM /\ \A p \in Anc(D, x) : Anc(D, p) \subseteq Anc(D, x)
    BY <1>2, AncIs, AncUnfolds
  <2>9. M!Range(g[k + 1][x]) \subseteq Anc(D, x)
    BY <2>4, <2>7, <2>8
  <2>10. ASSUME Cardinality(Anc(D, x)) <= k + 1 PROVE Anc(D, x) \subseteq M!Range(g[k + 1][x])
    <3>1. ASSUME NEW p \in D[x] PROVE M!Range(g[k][p]) = Anc(D, p)
      <4>1. p \in TM /\ p \in Anc(D, x) /\ Anc(D, p) \subseteq Anc(D, x) /\ p \notin Anc(D, p)
        BY <1>2, <2>8 DEF Acyclic
      <4>2. Cardinality(Anc(D, p)) < Cardinality(Anc(D, x))
        BY <1>19, <4>1, FS_Subset
      <4>3. Cardinality(Anc(D, p)) <= k
        BY <1>19, <2>1, <2>10, <4>1, <4>2
      <4> QED BY <2>4, <4>1, <4>3
    <3>2. Anc(D, x) = D[x] \cup UNION {Anc(D, p) : p \in D[x]}
      BY <1>2, AncUnfolds
    <3> QED BY <2>7, <3>1, <3>2
  <2> QED BY <2>7, <2>9, <2>10
<1>22. n \in P
  <2>1. P \in SUBSET Nat
    BY <1>18
  <2> QED BY <1>3, <1>20, <1>21, <2>1, Induction
<1>23. g[n][m] \in Tellings /\ M!Range(g[n][m]) = Anc(D, m)
  <2>1. Lists(g[n], D, n)
    BY <1>3, <1>18, <1>22
  <2> QED BY <1>19, <2>1 DEF Lists
<1>24. M!Listing(m) = g[n][m]
  BY <1>3, <1>15
<1> QED BY <1>2, <1>23, <1>24
LEMMA HeldIs ==
  ASSUME NEW x \in TM
  PROVE  M!Held(x) \in Seq(M!Types) /\ M!IsInjective(M!Held(x)) /\ M!Range(M!Held(x)) \subseteq ModelHoldings[x]
<1>1. PICK H : H = {t \in ModelHoldings[x] : M!Exists(t)}
  OBVIOUS
<1>2. IsFiniteSet(H)
  <2>1. IsFiniteSet(M!Types) /\ H \subseteq M!Types
    BY <1>1, TypesAre DEF TM
  <2> QED BY <2>1, FS_Subset
<1>3. M!Held(x) = M!Ordered(H)
  BY <1>1 DEF M!Held
<1>4. M!Held(x) \in Seq(H) /\ M!Range(M!Held(x)) = H /\ M!IsInjective(M!Held(x))
  BY <1>2, <1>3, SequenceOf
<1>5. H \subseteq ModelHoldings[x] /\ H \subseteq M!Types
  BY <1>1, TypesAre DEF TM
<1> QED BY <1>4, <1>5

\* A model tells each type once: those of its ancestors are not its own.
LEMMA InheritedIs ==
  ASSUME Descend, NEW m \in TM
  PROVE  M!IsInjective(M!Inherited(m))
<1>1. PICK q : q = M!Listing(m)
  OBVIOUS
<1>2. q \in Seq(TM) /\ M!IsInjective(q) /\ m \notin M!Range(q)
  <2>1. q \in Tellings /\ M!Range(q) = M!Ancestors(m)
    BY <1>1, ListingIs
  <2>2. m \notin M!Ancestors(m)
    BY ParentsAre DEF Descend, Acyclic
  <2> QED BY <2>1, <2>2 DEF Tellings
<1>3. PICK n : n = Len(q) /\ n \in Nat /\ DOMAIN q = 1 .. n /\ \A j \in 1 .. n : q[j] \in TM /\ q[j] # m
  BY <1>2 DEF M!Range
<1>4. PICK X : X = Seq(M!Types)
  OBVIOUS
<1>5. PICK h : h = [x \in TM |-> M!Held(x)]
  OBVIOUS
<1>6. \A x \in TM : h[x] \in X /\ M!IsInjective(h[x]) /\ M!Range(h[x]) \subseteq ModelHoldings[x]
  BY <1>4, <1>5, HeldIs
<1>7. \A v, w \in X : v \o w \in X
  BY <1>4
<1>8. PICK step : step = [p \in (1 .. n) \X X |-> p[2] \o h[q[p[1]]]]
  OBVIOUS
<1>9. Advances(step, n, X)
  <2>1. ASSUME NEW p \in (1 .. n) \X X PROVE p[2] \o h[q[p[1]]] \in X
    <3>1. p[2] \in X /\ h[q[p[1]]] \in X
      BY <1>3, <1>6
    <3> QED BY <1>7, <3>1
  <2> QED BY <1>8, <2>1 DEF Advances
<1>10. PICK f : Iterated(f, step, n, h[m], X)
  BY <1>3, <1>6, <1>9, Iterates
<1>11. f = [j \in 0 .. Len(M!Listing(m)) |-> IF j = 0 THEN M!Held(m) ELSE f[j - 1] \o M!Held(M!Listing(m)[j])]
  <2>1. f \in [0 .. n -> X] /\ f[0] = h[m]
    BY <1>10 DEF Iterated
  <2>2. ASSUME NEW j \in 0 .. n PROVE f[j] = IF j = 0 THEN M!Held(m) ELSE f[j - 1] \o M!Held(q[j])
    <3>1. CASE j = 0
      BY <1>5, <2>1, <3>1
    <3>2. CASE j # 0
      <4>1. j \in 1 .. n /\ <<j, f[j - 1]>> \in (1 .. n) \X X /\ q[j] \in TM
        BY <1>3, <2>1, <3>2
      <4>2. f[j] = step[<<j, f[j - 1]>>]
        BY <1>10, <4>1 DEF Iterated
      <4>3. f[j] = f[j - 1] \o h[q[j]]
        BY <1>8, <4>1, <4>2
      <4> QED BY <1>5, <3>2, <4>1, <4>3
    <3> QED BY <3>1, <3>2
  <2>3. f = [j \in 0 .. n |-> IF j = 0 THEN M!Held(m) ELSE f[j - 1] \o M!Held(q[j])]
    BY <2>1, <2>2
  <2> QED BY <1>1, <1>3, <2>3
<1>12. PICK g : /\ g = [j \in 0 .. Len(M!Listing(m)) |-> IF j = 0 THEN M!Held(m) ELSE g[j - 1] \o M!Held(M!Listing(m)[j])]
                /\ M!Inherited(m) = g[Len(M!Listing(m))]
  BY <1>11 DEF M!Inherited
<1>13. g = [j \in 0 .. n |-> IF j = 0 THEN M!Held(m) ELSE g[j - 1] \o M!Held(q[j])]
  BY <1>1, <1>3, <1>12
<1>14. g[0] = h[m] /\ \A j \in 1 .. n : g[j] = g[j - 1] \o h[q[j]]
  <2>1. \A j \in 0 .. n : g[j] = IF j = 0 THEN M!Held(m) ELSE g[j - 1] \o M!Held(q[j])
    BY <1>13
  <2>2. h[m] = M!Held(m) /\ \A j \in 1 .. n : h[q[j]] = M!Held(q[j]) /\ j \in 0 .. n /\ j # 0
    BY <1>3, <1>5
  <2>3. 0 \in 0 .. n
    BY <1>3
  <2> QED BY <2>1, <2>2, <2>3
<1>15. PICK P : P = {j \in Nat : j <= n => /\ g[j] \in X /\ M!IsInjective(g[j])
                                          /\ \A t \in M!Range(g[j]) : t \in ModelHoldings[m] \/ \E i \in 1 .. j : t \in ModelHoldings[q[i]]}
  OBVIOUS
<1>16. 0 \in P
  BY <1>6, <1>14, <1>15
<1>17. ASSUME NEW j \in P PROVE j + 1 \in P
  <2>1. j \in Nat
    BY <1>15
  <2>2. SUFFICES ASSUME j + 1 <= n
                 PROVE  /\ g[j + 1] \in X /\ M!IsInjective(g[j + 1])
                        /\ \A t \in M!Range(g[j + 1]) : t \in ModelHoldings[m] \/ \E i \in 1 .. j + 1 : t \in ModelHoldings[q[i]]
    BY <1>15, <2>1
  <2>3. /\ g[j] \in X /\ M!IsInjective(g[j])
        /\ \A t \in M!Range(g[j]) : t \in ModelHoldings[m] \/ \E i \in 1 .. j : t \in ModelHoldings[q[i]]
    <3>1. j <= n
      BY <1>3, <2>1, <2>2
    <3> QED BY <1>15, <3>1
  <2>4. PICK x \in TM : x = q[j + 1] /\ x # m /\ \A i \in 1 .. j : q[i] # x /\ q[i] \in TM
    <3>1. j + 1 \in 1 .. n /\ \A i \in 1 .. j : i \in 1 .. n /\ i # j + 1
      BY <1>3, <2>1, <2>2
    <3>2. \A i \in 1 .. n : q[i] = q[j + 1] => i = j + 1
      BY <1>2, <1>3, <3>1 DEF M!IsInjective
    <3> QED BY <1>3, <3>1, <3>2
  <2>5. g[j + 1] = g[j] \o h[x]
    <3>1. j + 1 \in 1 .. n /\ (j + 1) - 1 = j
      BY <1>3, <2>1, <2>2
    <3>2. g[j + 1] = g[(j + 1) - 1] \o h[q[j + 1]]
      BY <1>14, <3>1
    <3> QED BY <2>4, <3>1, <3>2
  <2>6. h[x] \in X /\ M!IsInjective(h[x]) /\ M!Range(h[x]) \subseteq ModelHoldings[x]
    BY <1>6
  <2>7. \A y \in TM : y # x => ModelHoldings[y] \cap ModelHoldings[x] = {}
    BY TypesAre DEF TM
  <2>8. M!Range(g[j]) \cap M!Range(h[x]) = {}
    BY <2>3, <2>4, <2>6, <2>7
  <2>9. g[j + 1] \in X /\ M!IsInjective(g[j + 1]) /\ M!Range(g[j + 1]) = M!Range(g[j]) \cup M!Range(h[x])
    BY <1>4, <2>3, <2>5, <2>6, <2>8, ConcatIs
  <2>10. \A i \in 1 .. j : i \in 1 .. j + 1
    BY <2>1
  <2>11. j + 1 \in 1 .. j + 1
    BY <2>1
  <2> QED BY <2>3, <2>4, <2>6, <2>9, <2>10, <2>11
<1>18. n \in P
  <2>1. P \in SUBSET Nat
    BY <1>15
  <2> QED BY <1>3, <1>16, <1>17, <2>1, Induction
<1>19. M!IsInjective(g[n])
  BY <1>3, <1>15, <1>18
<1> QED BY <1>1, <1>3, <1>12, <1>19

LEMMA DescendIsSound == Descend => M!InheritedOnce
<1> SUFFICES ASSUME Descend, NEW m \in TM
             PROVE  /\ m \notin M!Ancestors(m) /\ M!Ancestors(m) \subseteq M!TraceModels
                    /\ M!IsInjective(M!Listing(m)) /\ M!Range(M!Listing(m)) = M!Ancestors(m)
                    /\ M!IsInjective(M!Inherited(m))
  BY DEF M!InheritedOnce, TM
<1>1. m \notin M!Ancestors(m) /\ M!Ancestors(m) \subseteq M!TraceModels
  <2>1. Parents \in [TM -> SUBSET TM] /\ M!Ancestors(m) = Anc(Parents, m)
    BY ParentsAre DEF Descend
  <2>2. Anc(Parents, m) \subseteq TM
    BY <2>1, AncIs
  <2> QED BY <2>1, <2>2 DEF Descend, Acyclic, TM
<1>2. M!Listing(m) \in Tellings /\ M!Range(M!Listing(m)) = M!Ancestors(m)
  BY ListingIs
<1> QED BY <1>1, <1>2, InheritedIs DEF Tellings
LEMMA GraphKept == Descend /\ graph' = graph => Descend'
<1> SUFFICES ASSUME Descend, graph' = graph PROVE Descend'
  OBVIOUS
<1>1. GraphsHold'
  BY DEF Descend, GraphsHold
<1>2. Parents' = Parents
  BY DEF Parents, M!Direct
<1> QED BY <1>1, <1>2 DEF Descend, Acyclic

LEMMA InitDescend == M!Init => Descend
<1> SUFFICES ASSUME M!Init PROVE Descend
  OBVIOUS
<1>1. GraphsHold
  BY InitWalks DEF Walks
<1>2. \A m \in TM : m \notin M!Ancestors(m)
  BY DEF M!Init, TM
<1>3. Acyclic(Parents)
  BY <1>1, <1>2, ParentsAre DEF Acyclic
<1> QED BY <1>1, <1>3 DEF Descend

LEMMA NextDescend == Descend /\ M!Next => Descend'
<1> SUFFICES ASSUME Descend, M!Next PROVE Descend'
  OBVIOUS
<1>1. CASE M!EditMeanwhile
  BY <1>1, EditDescend DEF M!EditMeanwhile
<1>2. CASE graph' = graph
  BY <1>2, GraphKept
<1>3. M!EditMeanwhile \/ graph' = graph
  <2>1. ASSUME NEW t, NEW kind, M!Start(kind, t) PROVE graph' = graph
    BY <2>1 DEF M!Start
  <2>2. ASSUME NEW t, M!Step(t) PROVE graph' = graph
    BY <2>2 DEF M!Step
  <2> QED BY <2>1, <2>2 DEF M!Next
<1> QED BY <1>1, <1>2, <1>3

\* Types are listed soundly, and those that a model holds or inherits from its
\* ancestors are told once, whatever is edited (api/trace_model.py).
THEOREM ListingsCorrect == LibrarySpec => []ListingsAreSound
<1>1. LibraryInit => (part = "models" => Descend)
  BY InitDescend DEF LibraryInit, Functions
<1>2. (part = "models" => Descend) /\ [LibraryNext]_vars => (part = "models" => Descend)'
  BY NextDescend, GraphKept DEF LibraryNext, vars
<1>3. (part = "models" => Descend) /\ (part = "models" => M!ListingIsSound) => ListingsAreSound
  BY DescendIsSound DEF ListingsAreSound
<1> QED BY <1>1, <1>2, <1>3, ListingsSound, PTL DEF LibrarySpec
----------------------------------------------------------------------------
(* Composites: the intermediate traces *)

PartIs(p) ==
  p = [method |-> p.method, prev |-> p.prev, source |-> p.source, holds |-> p.holds, dirty |-> p.dirty] /\ p.dirty \in BOOLEAN

\* P has the parts that a composite trace may have: what is not dirty holds what
\* its method makes of its source, and in a pipe there is a part before each one.
PartsFit(kind, P) ==
  /\ P = [i \in DOMAIN P |-> P[i]] /\ DOMAIN P \subseteq 1 .. MaxLength
  /\ \A i \in DOMAIN P :
       /\ PartIs(P[i])
       /\ P[i].prev = IF kind = "pipe" /\ i > 1 THEN i - 1 ELSE 0
       /\ kind = "pipe" /\ i > 1 => i - 1 \in DOMAIN P
       /\ ~P[i].dirty => P[i].holds = K(kind)!Apply(P[i].method, K(kind)!SourceHolds(P, i))

\* The parts are computed with the methods, from the stored traces.
PartsNamed(P) == \A i \in DOMAIN P : P[i].method \in SubMethods /\ P[i].source \in {"s", "t"}

\* The parts of P and Q are the same, and differ by what they hold.
SameParts(P, Q) == DOMAIN P = DOMAIN Q /\ \A i \in DOMAIN P : /\ P[i].method = Q[i].method /\ P[i].prev = Q[i].prev
                                                              /\ P[i].source = Q[i].source

\* A part that the composite trace is computed from has a former source.
Former(kind) ==
  \E i \in K(kind)!Upstream(parts, made.effective) : parts[i].prev = 0 /\ parts[i].source # made.source

MadeFits ==
  /\ made = [methods |-> made.methods, source |-> made.source, described |-> made.described, effective |-> made.effective,
             dirty |-> made.dirty, holds |-> made.holds, read |-> made.read, missed |-> made.missed]
  /\ made.methods \in Seq(SubMethods) /\ Len(made.methods) <= MaxLength /\ made.source \in {"s", "t"}
  /\ {made.described, made.dirty, made.read, made.missed} \subseteq BOOLEAN

VersionsFit == versions = [x \in {"s", "t"} \cup SubMethods |-> versions[x]]

DescribedFits(kind) == made.described =>
  /\ made.methods # <<>> /\ made.effective = K(kind)!Effective(made.methods)
  /\ Len(made.methods) + 1 \notin DOMAIN parts
  /\ \A i \in DOMAIN parts \cap DOMAIN made.methods : parts[i].method = made.methods[i]

HoldsFits(kind) == ~made.dirty /\ made.effective \subseteq DOMAIN parts =>
  made.holds = K(kind)!Expected \/ made.missed \/ Former(kind)

Composed(kind) ==
  /\ MadeFits /\ VersionsFit /\ PartsFit(kind, parts) /\ PartsNamed(parts)
  /\ ~made.described => made.dirty
  /\ DescribedFits(kind)
  /\ made.read => made.described /\ ~made.dirty /\ made.effective \subseteq DOMAIN parts
  /\ HoldsFits(kind)

Kinds == {"pipe", "parallel"}

LEMMA BoundIs == MaxLength \in Nat /\ SubMethods \cap {"s", "t"} = {}
BY LibraryAssumption DEF K!CompositesAssumption, K!Sources

LEMMA PrevIs ==
  ASSUME NEW kind \in Kinds, NEW P, PartsFit(kind, P), NEW i \in DOMAIN P
  PROVE  /\ i \in 1 .. MaxLength
         /\ PartIs(P[i])
         /\ P[i].prev = IF kind = "pipe" /\ i > 1 THEN i - 1 ELSE 0
         /\ P[i].prev < i /\ P[i].prev \in Nat /\ (P[i].prev # 0 => P[i].prev \in DOMAIN P)
         /\ K(kind)!SourceHolds(P, i) = IF P[i].prev = 0 THEN K(kind)!Stored(P[i].source) ELSE P[P[i].prev].holds
<1>1. /\ i \in 1 .. MaxLength
      /\ PartIs(P[i])
      /\ P[i].prev = IF kind = "pipe" /\ i > 1 THEN i - 1 ELSE 0
      /\ kind = "pipe" /\ i > 1 => i - 1 \in DOMAIN P
  BY DEF PartsFit
<1>2. P[i].prev < i /\ P[i].prev \in Nat /\ (P[i].prev # 0 => P[i].prev \in DOMAIN P)
  <2>1. CASE kind = "pipe" /\ i > 1
    BY <1>1, <2>1, BoundIs
  <2>2. CASE ~(kind = "pipe" /\ i > 1)
    BY <1>1, <2>2, BoundIs
  <2> QED BY <2>1, <2>2
<1>3. K(kind)!SourceHolds(P, i) = IF P[i].prev = 0 THEN K(kind)!Stored(P[i].source) ELSE P[P[i].prev].holds
  BY DEF K!SourceHolds, K!Declared, K!Holds
<1> QED BY <1>1, <1>2, <1>3

\* What a part is computed from depends on the parts before only.
LEMMA SourceHoldsKept ==
  ASSUME NEW kind \in Kinds, NEW P, PartsFit(kind, P), NEW i \in DOMAIN P, NEW Q,
         Q[i].prev = P[i].prev, Q[i].source = P[i].source, P[i].prev # 0 => Q[P[i].prev].holds = P[P[i].prev].holds
  PROVE  K(kind)!SourceHolds(Q, i) = K(kind)!SourceHolds(P, i)
BY DEF K!SourceHolds, K!Declared, K!Holds

\* Parts are refreshed one by one: each is clean then, and makes dirty only a
\* part after it.
LEMMA RefreshPartFits ==
  ASSUME NEW kind \in Kinds, NEW P, PartsFit(kind, P), NEW n \in DOMAIN P, NEW Q, Q = K(kind)!RefreshPart(P, n)
  PROVE  /\ PartsFit(kind, Q) /\ SameParts(P, Q) /\ ~Q[n].dirty
         /\ \A i \in DOMAIN P : i < n /\ ~P[i].dirty => ~Q[i].dirty
<1>1. CASE ~P[n].dirty
  BY <1>1 DEF K!RefreshPart, SameParts
<1>2. CASE P[n].dirty
  <2>1. Q = [j \in DOMAIN P |->
               CASE j = n -> [P[n] EXCEPT !.holds = K(kind)!Apply(P[n].method, K(kind)!SourceHolds(P, n)), !.dirty = FALSE]
                 [] j # n /\ P[j].prev = n -> [P[j] EXCEPT !.dirty = TRUE]
                 [] OTHER -> P[j]]
    BY <1>2 DEF K!RefreshPart
  <2>2. PICK new : new = K(kind)!Apply(P[n].method, K(kind)!SourceHolds(P, n))
    OBVIOUS
  <2>3. ASSUME NEW i \in DOMAIN P
        PROVE  /\ PartIs(Q[i]) /\ Q[i].method = P[i].method /\ Q[i].prev = P[i].prev /\ Q[i].source = P[i].source
               /\ Q[i].holds = IF i = n THEN new ELSE P[i].holds
               /\ Q[i].dirty <=> i # n /\ (P[i].prev = n \/ P[i].dirty)
    <3>1. PICK p : p = P[i]
      OBVIOUS
    <3>2. PICK m, v, s, h, d : p = [method |-> m, prev |-> v, source |-> s, holds |-> h, dirty |-> d] /\ d \in BOOLEAN
      BY <3>1, PrevIs DEF PartIs
    <3>3. p.method = m /\ p.prev = v /\ p.source = s /\ p.holds = h /\ p.dirty = d
      BY <3>2
    <3>4. CASE i = n
      <4>1. Q[i] = [method |-> m, prev |-> v, source |-> s, holds |-> new, dirty |-> FALSE]
        <5>1. Q[i] = [p EXCEPT !.holds = new, !.dirty = FALSE]
          BY <2>1, <2>2, <3>1, <3>4
        <5> QED BY <3>2, <5>1
      <4> QED BY <3>1, <3>3, <3>4, <4>1 DEF PartIs
    <3>5. CASE i # n /\ P[i].prev = n
      <4>1. Q[i] = [method |-> m, prev |-> v, source |-> s, holds |-> h, dirty |-> TRUE]
        <5>1. Q[i] = [p EXCEPT !.dirty = TRUE]
          BY <2>1, <3>1, <3>5
        <5> QED BY <3>2, <5>1
      <4> QED BY <3>1, <3>3, <3>5, <4>1 DEF PartIs
    <3>6. CASE i # n /\ P[i].prev # n
      <4>1. Q[i] = p
        BY <2>1, <3>1, <3>6
      <4> QED BY <3>1, <3>6, <4>1, PrevIs
    <3> QED BY <3>4, <3>5, <3>6
  <2>4. DOMAIN Q = DOMAIN P /\ Q = [i \in DOMAIN Q |-> Q[i]]
    BY <2>1
  <2>5. SameParts(P, Q)
    BY <2>3, <2>4 DEF SameParts
  <2>6. ~Q[n].dirty
    BY <2>3
  <2>7. \A i \in DOMAIN P : i < n /\ ~P[i].dirty => ~Q[i].dirty
    <3> SUFFICES ASSUME NEW i \in DOMAIN P, i < n, ~P[i].dirty PROVE ~Q[i].dirty
      OBVIOUS
    <3>1. P[i].prev < i /\ P[i].prev \in Nat /\ i \in 1 .. MaxLength /\ n \in 1 .. MaxLength
      BY PrevIs
    <3>2. P[i].prev # n
      BY <3>1, BoundIs
    <3> QED BY <2>3, <3>2
  <2>8. ASSUME NEW i \in DOMAIN Q
        PROVE  /\ PartIs(Q[i])
               /\ Q[i].prev = IF kind = "pipe" /\ i > 1 THEN i - 1 ELSE 0
               /\ kind = "pipe" /\ i > 1 => i - 1 \in DOMAIN Q
               /\ ~Q[i].dirty => Q[i].holds = K(kind)!Apply(Q[i].method, K(kind)!SourceHolds(Q, i))
    <3>1. /\ i \in DOMAIN P /\ P[i].prev = (IF kind = "pipe" /\ i > 1 THEN i - 1 ELSE 0) /\ P[i].prev < i
          /\ i \in 1 .. MaxLength /\ P[i].prev \in Nat /\ (P[i].prev # 0 => P[i].prev \in DOMAIN P)
      BY <2>4, PrevIs
    <3>2. kind = "pipe" /\ i > 1 => i - 1 \in DOMAIN Q
      BY <2>4 DEF PartsFit
    <3>3. Q[i].prev = P[i].prev /\ Q[i].source = P[i].source /\ Q[i].method = P[i].method
      BY <2>3, <3>1
    <3>4. ASSUME ~Q[i].dirty PROVE Q[i].holds = K(kind)!Apply(Q[i].method, K(kind)!SourceHolds(Q, i))
      <4>1. P[i].prev # n
        BY <2>3, <3>1, <3>4
      <4>2. P[i].prev # 0 => Q[P[i].prev].holds = P[P[i].prev].holds
        BY <2>3, <3>1, <4>1
      <4>3. K(kind)!SourceHolds(Q, i) = K(kind)!SourceHolds(P, i)
        BY <3>1, <3>3, <4>2, SourceHoldsKept
      <4>4. CASE i = n
        BY <2>2, <2>3, <3>3, <4>3, <4>4
      <4>5. CASE i # n
        <5>1. ~P[i].dirty /\ Q[i].holds = P[i].holds
          BY <2>3, <3>1, <3>4, <4>5
        <5>2. P[i].holds = K(kind)!Apply(P[i].method, K(kind)!SourceHolds(P, i))
          BY <3>1, <5>1 DEF PartsFit
        <5> QED BY <3>3, <4>3, <5>1, <5>2
      <4> QED BY <4>4, <4>5
    <3>5. PartIs(Q[i])
      BY <2>3, <3>1
    <3> QED BY <3>1, <3>2, <3>3, <3>4, <3>5
  <2>9. DOMAIN Q \subseteq 1 .. MaxLength
    BY <2>4 DEF PartsFit
  <2>10. PartsFit(kind, Q)
    BY <2>4, <2>8, <2>9 DEF PartsFit
  <2> QED BY <2>5, <2>6, <2>7, <2>10
<1> QED BY <1>1, <1>2
\* After that of all of S, none of S is dirty: those before are refreshed first.
LEMMA RefreshAllFits ==
  ASSUME NEW kind \in Kinds, NEW P, PartsFit(kind, P), NEW X \in SUBSET DOMAIN P, NEW Q, Q = K(kind)!RefreshAll(P, X)
  PROVE  PartsFit(kind, Q) /\ SameParts(P, Q) /\ \A i \in X : ~Q[i].dirty
<1>1. MaxLength \in Nat /\ X \subseteq 1 .. MaxLength
  BY BoundIs DEF PartsFit
<1>2. PICK N : N = {j \in Nat : j <= MaxLength =>
                      \E f : /\ f = [k \in 0 .. j |-> f[k]] /\ f[0] = P
                             /\ \A k \in 1 .. j : f[k] = IF k \in X THEN K(kind)!RefreshPart(f[k - 1], k) ELSE f[k - 1]}
  OBVIOUS
<1>3. 0 \in N
  <2>1. PICK f : f = [k \in 0 .. 0 |-> P]
    OBVIOUS
  <2>2. f = [k \in 0 .. 0 |-> f[k]] /\ f[0] = P
    BY <2>1
  <2>3. \A k \in 1 .. 0 : FALSE
    OBVIOUS
  <2> QED BY <1>2, <2>2, <2>3
<1>4. ASSUME NEW j \in N PROVE j + 1 \in N
  <2>1. j \in Nat
    BY <1>2
  <2>2. SUFFICES ASSUME j + 1 <= MaxLength
                 PROVE  \E f : /\ f = [k \in 0 .. j + 1 |-> f[k]] /\ f[0] = P
                               /\ \A k \in 1 .. j + 1 : f[k] = IF k \in X THEN K(kind)!RefreshPart(f[k - 1], k) ELSE f[k - 1]
    BY <1>2, <2>1
  <2>3. j <= MaxLength
    BY <1>1, <2>1, <2>2
  <2>4. PICK f : /\ f = [k \in 0 .. j |-> f[k]] /\ f[0] = P
                 /\ \A k \in 1 .. j : f[k] = IF k \in X THEN K(kind)!RefreshPart(f[k - 1], k) ELSE f[k - 1]
    BY <1>2, <2>1, <2>3
  <2>5. PICK next : next = IF j + 1 \in X THEN K(kind)!RefreshPart(f[j], j + 1) ELSE f[j]
    OBVIOUS
  <2>6. PICK g : g = [k \in 0 .. j + 1 |-> IF k = j + 1 THEN next ELSE f[k]]
    OBVIOUS
  <2>7. g = [k \in 0 .. j + 1 |-> g[k]]
    BY <2>6
  <2>8. g[j + 1] = next /\ \A k \in 0 .. j : g[k] = f[k]
    BY <2>1, <2>6
  <2>9. g[0] = P
    BY <2>1, <2>4, <2>8
  <2>10. ASSUME NEW k \in 1 .. j + 1 PROVE g[k] = IF k \in X THEN K(kind)!RefreshPart(g[k - 1], k) ELSE g[k - 1]
    <3>1. CASE k = j + 1
      <4>1. k - 1 = j /\ g[k - 1] = f[j]
        BY <2>1, <2>8, <3>1
      <4> QED BY <2>5, <2>8, <3>1, <4>1
    <3>2. CASE k # j + 1
      <4>1. k \in 1 .. j /\ k - 1 \in 0 .. j /\ k \in 0 .. j
        BY <2>1, <3>2
      <4>2. g[k] = f[k] /\ g[k - 1] = f[k - 1]
        BY <2>8, <4>1
      <4> QED BY <2>4, <4>1, <4>2
    <3> QED BY <3>1, <3>2
  <2> QED BY <2>7, <2>9, <2>10
<1>5. MaxLength \in N
  <2>1. N \in SUBSET Nat
    BY <1>2
  <2> QED BY <1>1, <1>3, <1>4, <2>1, Induction
<1>6. \E f : f = [n \in 0 .. MaxLength |-> IF n = 0 THEN P ELSE IF n \in X THEN K(kind)!RefreshPart(f[n - 1], n) ELSE f[n - 1]]
  <2>1. PICK f : /\ f = [k \in 0 .. MaxLength |-> f[k]] /\ f[0] = P
                 /\ \A k \in 1 .. MaxLength : f[k] = IF k \in X THEN K(kind)!RefreshPart(f[k - 1], k) ELSE f[k - 1]
    BY <1>1, <1>2, <1>5
  <2>2. \A k \in 0 .. MaxLength :
          f[k] = IF k = 0 THEN P ELSE IF k \in X THEN K(kind)!RefreshPart(f[k - 1], k) ELSE f[k - 1]
    <3>1. \A k \in 0 .. MaxLength : k # 0 => k \in 1 .. MaxLength
      BY <1>1
    <3> QED BY <2>1, <3>1
  <2>3. f = [k \in 0 .. MaxLength |-> IF k = 0 THEN P ELSE IF k \in X THEN K(kind)!RefreshPart(f[k - 1], k) ELSE f[k - 1]]
    BY <2>1, <2>2
  <2> QED BY <2>3
<1>7. PICK f : /\ f = [n \in 0 .. MaxLength |->
                         IF n = 0 THEN P ELSE IF n \in X THEN K(kind)!RefreshPart(f[n - 1], n) ELSE f[n - 1]]
               /\ Q = f[MaxLength]
  BY <1>6 DEF K!RefreshAll
<1>8. f[0] = P /\ \A k \in 1 .. MaxLength : f[k] = IF k \in X THEN K(kind)!RefreshPart(f[k - 1], k) ELSE f[k - 1]
  <2>1. \A k \in 0 .. MaxLength :
          f[k] = IF k = 0 THEN P ELSE IF k \in X THEN K(kind)!RefreshPart(f[k - 1], k) ELSE f[k - 1]
    BY <1>1, <1>7
  <2>2. 0 \in 0 .. MaxLength /\ \A k \in 1 .. MaxLength : k \in 0 .. MaxLength /\ k # 0
    BY <1>1
  <2> QED BY <2>1, <2>2
<1>9. PICK O : O = {j \in Nat : j <= MaxLength => /\ PartsFit(kind, f[j]) /\ SameParts(P, f[j])
                                                  /\ \A i \in X : i <= j => ~f[j][i].dirty}
  OBVIOUS
<1>10. 0 \in O
  <2>1. SameParts(P, P)
    BY DEF SameParts
  <2>2. \A i \in X : ~(i <= 0)
    BY <1>1
  <2> QED BY <1>8, <1>9, <2>1, <2>2
<1>11. ASSUME NEW j \in O PROVE j + 1 \in O
  <2>1. j \in Nat
    BY <1>9
  <2>2. SUFFICES ASSUME j + 1 <= MaxLength
                 PROVE  /\ PartsFit(kind, f[j + 1]) /\ SameParts(P, f[j + 1])
                        /\ \A i \in X : i <= j + 1 => ~f[j + 1][i].dirty
    BY <1>9, <2>1
  <2>3. j + 1 \in 1 .. MaxLength /\ (j + 1) - 1 = j /\ j <= MaxLength
    BY <1>1, <2>1, <2>2
  <2>4. PartsFit(kind, f[j]) /\ SameParts(P, f[j]) /\ \A i \in X : i <= j => ~f[j][i].dirty
    BY <1>9, <2>3
  <2>5. f[j + 1] = IF j + 1 \in X THEN K(kind)!RefreshPart(f[j], j + 1) ELSE f[j]
    BY <1>8, <2>3
  <2>6. \A i \in X : i \in Nat /\ (i <= j + 1 => i = j + 1 \/ i <= j)
    BY <1>1, <2>1
  <2>7. CASE j + 1 \notin X
    BY <2>4, <2>5, <2>6, <2>7
  <2>8. CASE j + 1 \in X
    <3>1. j + 1 \in DOMAIN f[j] /\ X \subseteq DOMAIN f[j]
      BY <2>4, <2>8 DEF SameParts
    <3>2. PICK R : R = K(kind)!RefreshPart(f[j], j + 1)
      OBVIOUS
    <3>3. /\ PartsFit(kind, R) /\ SameParts(f[j], R) /\ ~R[j + 1].dirty
          /\ \A i \in DOMAIN f[j] : i < j + 1 /\ ~f[j][i].dirty => ~R[i].dirty
      BY <2>4, <3>1, <3>2, RefreshPartFits
    <3>4. SameParts(P, R)
      BY <2>4, <3>3 DEF SameParts
    <3>5. \A i \in X : i <= j + 1 => ~R[i].dirty
      <4>1. \A i \in X : i <= j => i < j + 1
        BY <2>1, <2>6
      <4> QED BY <2>4, <2>6, <3>1, <3>3, <4>1
    <3> QED BY <2>5, <2>8, <3>2, <3>3, <3>4, <3>5
  <2> QED BY <2>7, <2>8
<1>12. MaxLength \in O
  <2>1. O \in SUBSET Nat
    BY <1>9
  <2> QED BY <1>1, <1>10, <1>11, <2>1, Induction
<1>13. PartsFit(kind, Q) /\ SameParts(P, Q) /\ \A i \in X : i <= MaxLength => ~Q[i].dirty
  BY <1>1, <1>7, <1>9, <1>12
<1>14. \A i \in X : i <= MaxLength
  BY <1>1
<1> QED BY <1>13, <1>14
MethodsAre(P, q) == \A i \in 1 .. Len(q) : P[i].method = q[i]

LEMMA PreparedFits ==
  ASSUME NEW kind \in Kinds, NEW P, PartsFit(kind, P), NEW q \in Seq(SubMethods), Len(q) <= MaxLength,
         NEW Q, Q = K(kind)!Prepared(P, q)
  PROVE  PartsFit(kind, Q) /\ MethodsAre(Q, q)
<1>1. PICK n : n = Len(q) /\ n \in Nat /\ DOMAIN q = 1 .. n /\ n <= MaxLength
  OBVIOUS
<1>2. Q = [i \in DOMAIN P \cup DOMAIN q |->
             CASE i \in DOMAIN q /\ i \in DOMAIN P -> K(kind)!Updated(P[i], q[i])
               [] i \in DOMAIN q /\ i \notin DOMAIN P -> K(kind)!NewPart(i, q[i])
               [] OTHER -> P[i]]
  BY DEF K!Prepared
<1>3. DOMAIN Q = DOMAIN P \cup 1 .. n /\ Q = [i \in DOMAIN Q |-> Q[i]]
  BY <1>1, <1>2
<1>4. DOMAIN Q \subseteq 1 .. MaxLength
  BY <1>1, <1>3, BoundIs DEF PartsFit
<1>5. ASSUME NEW i \in DOMAIN P
      PROVE  /\ PartIs(Q[i]) /\ Q[i].prev = P[i].prev /\ Q[i].source = P[i].source /\ Q[i].holds = P[i].holds
             /\ Q[i].method = IF i \in 1 .. n THEN q[i] ELSE P[i].method
             /\ ~Q[i].dirty => ~P[i].dirty /\ Q[i].method = P[i].method
  <2>1. PICK p : p = P[i]
    OBVIOUS
  <2>2. PICK m, v, s, h, d : p = [method |-> m, prev |-> v, source |-> s, holds |-> h, dirty |-> d] /\ d \in BOOLEAN
    BY <2>1, PrevIs DEF PartIs
  <2>3. p.method = m /\ p.prev = v /\ p.source = s /\ p.holds = h /\ p.dirty = d
    BY <2>2
  <2>4. CASE i \in 1 .. n
    <3>1. Q[i] = K(kind)!Updated(p, q[i])
      BY <1>1, <1>2, <2>1, <2>4
    <3>2. Q[i] = [p EXCEPT !.method = q[i], !.dirty = @ \/ p.method # q[i]]
      BY <3>1 DEF K!Updated
    <3>3. Q[i] = [method |-> q[i], prev |-> v, source |-> s, holds |-> h, dirty |-> (d \/ m # q[i])]
      BY <2>2, <2>3, <3>2
    <3>4. PICK e : e \in BOOLEAN /\ (e <=> d \/ m # q[i]) /\ Q[i] = [method |-> q[i], prev |-> v, source |-> s, holds |-> h, dirty |-> e]
      BY <3>3
    <3>5. Q[i].method = q[i] /\ Q[i].prev = v /\ Q[i].source = s /\ Q[i].holds = h /\ Q[i].dirty = e /\ PartIs(Q[i])
      BY <3>4 DEF PartIs
    <3> QED BY <2>1, <2>3, <2>4, <3>4, <3>5
  <2>5. CASE i \notin 1 .. n
    <3>1. Q[i] = P[i]
      BY <1>1, <1>2, <2>5
    <3> QED BY <2>5, <3>1, PrevIs
  <2> QED BY <2>4, <2>5
<1>6. ASSUME NEW i \in 1 .. n, i \notin DOMAIN P
      PROVE  /\ PartIs(Q[i]) /\ Q[i].prev = (IF kind = "pipe" /\ i > 1 THEN i - 1 ELSE 0) /\ Q[i].method = q[i] /\ Q[i].dirty
  <2>1. Q[i] = K(kind)!NewPart(i, q[i])
    BY <1>1, <1>2, <1>6
  <2>2. PICK v : v = IF kind = "pipe" /\ i > 1 THEN i - 1 ELSE 0
    OBVIOUS
  <2>3. Q[i] = [method |-> q[i], prev |-> v, source |-> made.source, holds |-> <<>>, dirty |-> TRUE]
    BY <2>1, <2>2 DEF K!NewPart, K!Declared
  <2> QED BY <2>2, <2>3 DEF PartIs
<1>7. ASSUME NEW i \in DOMAIN Q
      PROVE  /\ PartIs(Q[i])
             /\ Q[i].prev = IF kind = "pipe" /\ i > 1 THEN i - 1 ELSE 0
             /\ kind = "pipe" /\ i > 1 => i - 1 \in DOMAIN Q
             /\ ~Q[i].dirty => Q[i].holds = K(kind)!Apply(Q[i].method, K(kind)!SourceHolds(Q, i))
  <2>1. CASE i \in DOMAIN P
    <3>1. /\ P[i].prev = (IF kind = "pipe" /\ i > 1 THEN i - 1 ELSE 0) /\ (P[i].prev # 0 => P[i].prev \in DOMAIN P)
      BY <2>1, PrevIs
    <3>2. kind = "pipe" /\ i > 1 => i - 1 \in DOMAIN P
      BY <2>1 DEF PartsFit
    <3>3. K(kind)!SourceHolds(Q, i) = K(kind)!SourceHolds(P, i)
      BY <1>5, <2>1, <3>1, SourceHoldsKept
    <3>4. ~P[i].dirty => P[i].holds = K(kind)!Apply(P[i].method, K(kind)!SourceHolds(P, i))
      BY <2>1 DEF PartsFit
    <3> QED BY <1>3, <1>5, <2>1, <3>1, <3>2, <3>3, <3>4
  <2>2. CASE i \notin DOMAIN P
    <3>1. i \in 1 .. n
      BY <1>3, <2>2
    <3>2. i > 1 => i - 1 \in 1 .. n
      BY <1>1, <3>1
    <3> QED BY <1>3, <1>6, <2>2, <3>1, <3>2
  <2> QED BY <2>1, <2>2
<1>8. PartsFit(kind, Q)
  BY <1>3, <1>4, <1>7 DEF PartsFit
<1>9. \A i \in 1 .. n : Q[i].method = q[i]
  BY <1>5, <1>6
<1> QED BY <1>1, <1>8, <1>9 DEF MethodsAre

\* Without the last parts, or without one that no other is computed from.
LEMMA FewerPartsFit ==
  ASSUME NEW kind \in Kinds, NEW P, PartsFit(kind, P), NEW X \in SUBSET DOMAIN P,
         \A i \in X : P[i].prev # 0 => P[i].prev \in X, NEW Q, Q = [i \in X |-> P[i]]
  PROVE  PartsFit(kind, Q)
<1>1. DOMAIN Q = X /\ Q = [i \in DOMAIN Q |-> Q[i]] /\ \A i \in X : Q[i] = P[i]
  OBVIOUS
<1>2. DOMAIN Q \subseteq 1 .. MaxLength
  BY <1>1 DEF PartsFit
<1>3. ASSUME NEW i \in DOMAIN Q
      PROVE  /\ PartIs(Q[i])
             /\ Q[i].prev = IF kind = "pipe" /\ i > 1 THEN i - 1 ELSE 0
             /\ kind = "pipe" /\ i > 1 => i - 1 \in DOMAIN Q
             /\ ~Q[i].dirty => Q[i].holds = K(kind)!Apply(Q[i].method, K(kind)!SourceHolds(Q, i))
  <2>1. i \in DOMAIN P /\ Q[i] = P[i] /\ i \in X
    BY <1>1
  <2>2. PartIs(P[i]) /\ P[i].prev = (IF kind = "pipe" /\ i > 1 THEN i - 1 ELSE 0) /\ (P[i].prev # 0 => P[i].prev \in X) /\ i \in 1 .. MaxLength
    BY <2>1, PrevIs
  <2>3. K(kind)!SourceHolds(Q, i) = K(kind)!SourceHolds(P, i)
    BY <1>1, <2>1, <2>2, SourceHoldsKept
  <2>4. ~P[i].dirty => P[i].holds = K(kind)!Apply(P[i].method, K(kind)!SourceHolds(P, i))
    BY <2>1 DEF PartsFit
  <2>5. kind = "pipe" /\ i > 1 => i - 1 \in X
    BY <2>2, BoundIs
  <2> QED BY <1>1, <2>1, <2>2, <2>3, <2>4, <2>5
<1> QED BY <1>1, <1>2, <1>3 DEF PartsFit

LEMMA TrimmedFits ==
  ASSUME NEW kind \in Kinds, NEW P, PartsFit(kind, P), NEW n \in Nat, NEW Q, Q = K(kind)!Trimmed(P, n)
  PROVE  /\ PartsFit(kind, Q) /\ DOMAIN Q \subseteq DOMAIN P /\ n + 1 \notin DOMAIN Q
         /\ \A i \in DOMAIN P : i <= n => i \in DOMAIN Q
         /\ \A i \in DOMAIN Q : Q[i] = P[i]
<1>1. PICK X : X = DOMAIN P \ K(kind)!Spurious(P, n)
  OBVIOUS
<1>2. \A i : i \in K(kind)!Spurious(P, n) <=> i \in DOMAIN P /\ i > n /\ \A j \in n + 1 .. i : j \in DOMAIN P
  BY DEF K!Spurious
<1>3. DOMAIN P \subseteq Nat
  BY BoundIs DEF PartsFit
<1>4. ASSUME NEW i \in X, P[i].prev # 0 PROVE P[i].prev \in X
  <2>1. i \in DOMAIN P /\ P[i].prev = i - 1 /\ i > 1 /\ i - 1 \in DOMAIN P /\ i \in Nat
    BY <1>1, <1>3, <1>4, PrevIs
  <2>2. ASSUME i - 1 \in K(kind)!Spurious(P, n) PROVE FALSE
    <3>1. i - 1 > n /\ \A j \in n + 1 .. i - 1 : j \in DOMAIN P
      BY <1>2, <2>2
    <3>2. i > n /\ \A j \in n + 1 .. i : j \in n + 1 .. i - 1 \/ j = i
      BY <2>1, <3>1
    <3>3. i \in K(kind)!Spurious(P, n)
      BY <1>2, <2>1, <3>1, <3>2
    <3> QED BY <1>1, <3>3
  <2> QED BY <1>1, <2>1, <2>2
<1>5. Q = [i \in X |-> P[i]]
  BY <1>1 DEF K!Trimmed
<1>6. PartsFit(kind, Q)
  <2>1. X \in SUBSET DOMAIN P
    BY <1>1
  <2> QED BY <1>4, <1>5, <2>1, FewerPartsFit
<1>7. n + 1 \notin X
  <2>1. \A j \in n + 1 .. n + 1 : j = n + 1
    OBVIOUS
  <2>2. n + 1 > n
    OBVIOUS
  <2> QED BY <1>1, <1>2, <2>1, <2>2
<1>8. \A i \in DOMAIN P : i <= n => i \in X
  BY <1>1, <1>2, <1>3
<1> QED BY <1>1, <1>5, <1>6, <1>7, <1>8
----------------------------------------------------------------------------
(* Composites: what the methods make of the source *)

\* b, then the first j of w.
Stamped(b, w, j) == b \o [i \in 1 .. j |-> w[i]]

LEMMA StampsAdd ==
  ASSUME NEW W, NEW b \in Seq(W), NEW n \in Nat, NEW w \in [1 .. n -> W], NEW j \in Nat, j + 1 <= n
  PROVE  Append(Stamped(b, w, j), w[j + 1]) = Stamped(b, w, j + 1)
<1>1. PICK v : v = [i \in 1 .. j |-> w[i]]
  OBVIOUS
<1>2. PICK u : u = [i \in 1 .. j + 1 |-> w[i]]
  OBVIOUS
<1>3. v \in Seq(W) /\ Len(v) = j /\ \A i \in 1 .. j : v[i] = w[i]
  BY <1>1
<1>4. u \in Seq(W) /\ Len(u) = j + 1 /\ \A i \in 1 .. j + 1 : u[i] = w[i]
  BY <1>2
<1>5. PICK x, y : x = Append(b \o v, w[j + 1]) /\ y = b \o u
  OBVIOUS
<1>6. w[j + 1] \in W /\ Len(b) \in Nat
  OBVIOUS
<1>7. /\ x \in Seq(W) /\ Len(x) = Len(b) + j + 1
      /\ \A i \in 1 .. Len(b) + j + 1 :
           x[i] = IF i <= Len(b) THEN b[i] ELSE IF i <= Len(b) + j THEN v[i - Len(b)] ELSE w[j + 1]
  <2>1. PICK z : z = b \o v
    OBVIOUS
  <2>2. z \in Seq(W) /\ Len(z) = Len(b) + j /\ \A i \in 1 .. Len(b) + j : z[i] = IF i <= Len(b) THEN b[i] ELSE v[i - Len(b)]
    <3>1. v \in Seq(W) /\ Len(v) = j
      BY <1>3
    <3>2. /\ z \in Seq(W) /\ Len(z) = Len(b) + Len(v)
          /\ \A i \in 1 .. Len(b) + Len(v) : z[i] = IF i <= Len(b) THEN b[i] ELSE v[i - Len(b)]
      BY <2>1, <3>1
    <3> QED BY <3>1, <3>2
  <2>3. x = Append(z, w[j + 1])
    BY <1>5, <2>1
  <2>4. x \in Seq(W) /\ Len(x) = Len(b) + j + 1 /\ \A i \in 1 .. Len(b) + j + 1 : x[i] = IF i <= Len(b) + j THEN z[i] ELSE w[j + 1]
    BY <1>6, <2>2, <2>3
  <2>5. ASSUME NEW i \in 1 .. Len(b) + j + 1
        PROVE  x[i] = IF i <= Len(b) THEN b[i] ELSE IF i <= Len(b) + j THEN v[i - Len(b)] ELSE w[j + 1]
    <3>1. CASE i <= Len(b) + j
      <4>1. i \in 1 .. Len(b) + j
        BY <1>6, <3>1
      <4> QED BY <2>2, <2>4, <3>1, <4>1
    <3>2. CASE ~(i <= Len(b) + j)
      <4>1. ~(i <= Len(b))
        BY <1>6, <3>2
      <4> QED BY <2>4, <3>2, <4>1
    <3> QED BY <3>1, <3>2
  <2> QED BY <2>4, <2>5
<1>8. /\ y \in Seq(W) /\ Len(y) = Len(b) + j + 1
      /\ \A i \in 1 .. Len(b) + j + 1 : y[i] = IF i <= Len(b) THEN b[i] ELSE u[i - Len(b)]
  <2>1. u \in Seq(W) /\ Len(u) = j + 1
    BY <1>4
  <2>2. /\ y \in Seq(W) /\ Len(y) = Len(b) + Len(u)
        /\ \A i \in 1 .. Len(b) + Len(u) : y[i] = IF i <= Len(b) THEN b[i] ELSE u[i - Len(b)]
    <3>1. y = b \o u /\ u \in Seq(W)
      BY <1>5, <2>1
    <3> QED BY <3>1
  <2>3. Len(b) + Len(u) = Len(b) + j + 1
    BY <1>6, <2>1
  <2> QED BY <2>2, <2>3
<1>9. ASSUME NEW i \in 1 .. Len(b) + j + 1 PROVE x[i] = y[i]
  <2>1. CASE i <= Len(b)
    BY <1>7, <1>8, <2>1
  <2>2. CASE i > Len(b) /\ i <= Len(b) + j
    <3>1. i - Len(b) \in 1 .. j /\ i - Len(b) \in 1 .. j + 1
      BY <1>6, <2>2
    <3>2. x[i] = w[i - Len(b)]
      BY <1>3, <1>6, <1>7, <2>2, <3>1
    <3>3. y[i] = w[i - Len(b)]
      <4>1. ~(i <= Len(b))
        BY <1>6, <2>2
      <4>2. y[i] = u[i - Len(b)]
        BY <1>8, <4>1
      <4> QED BY <1>4, <3>1, <4>2
    <3> QED BY <3>2, <3>3
  <2>3. CASE i > Len(b) + j
    <3>1. i - Len(b) = j + 1 /\ j + 1 \in 1 .. j + 1
      BY <1>6, <2>3
    <3>2. ~(i <= Len(b)) /\ ~(i <= Len(b) + j)
      BY <1>6, <2>3
    <3> QED BY <1>4, <1>7, <1>8, <3>1, <3>2
  <2> QED BY <1>6, <2>1, <2>2, <2>3
<1>10. x = y
  BY <1>7, <1>8, <1>9
<1> QED BY <1>1, <1>2, <1>5, <1>10 DEF Stamped

LEMMA ChainIs ==
  ASSUME NEW kind \in Kinds, made.source \in {"s", "t"}, NEW q \in Seq(SubMethods)
  PROVE  \E g : /\ g[0] = K(kind)!Stored(made.source)
                /\ \A k \in 1 .. Len(q) : g[k] = K(kind)!Apply(q[k], g[k - 1])
                /\ K(kind)!Chain(q) = g[Len(q)]
<1>1. PICK n : n = Len(q) /\ n \in Nat /\ DOMAIN q = 1 .. n /\ \A k \in 1 .. n : q[k] \in SubMethods
  OBVIOUS
<1>2. PICK W : W = {<<x, versions[x]>> : x \in {"s", "t"} \cup SubMethods}
  OBVIOUS
<1>3. PICK b : b = K(kind)!Stored(made.source)
  OBVIOUS
<1>4. b \in Seq(W)
  <2>1. <<made.source, versions[made.source]>> \in W
    BY <1>2
  <2>2. <<<<made.source, versions[made.source]>>>> \in Seq(W)
    BY <2>1
  <2> QED BY <1>3, <2>2 DEF K!Stored
<1>5. PICK w : w = [i \in 1 .. n |-> <<q[i], versions[q[i]]>>]
  OBVIOUS
<1>6. w \in [1 .. n -> W]
  BY <1>1, <1>2, <1>5
<1>7. PICK g : g = [k \in 0 .. n |-> Stamped(b, w, k)]
  OBVIOUS
<1>8. g[0] = b
  <2>1. PICK none : none = [i \in 1 .. 0 |-> w[i]]
    OBVIOUS
  <2>2. none = <<>>
    BY <2>1
  <2>3. b \o <<>> = b
    BY <1>4
  <2>4. Stamped(b, w, 0) = b \o none
    BY <2>1 DEF Stamped
  <2>5. g[0] = Stamped(b, w, 0)
    BY <1>1, <1>7
  <2> QED BY <2>2, <2>3, <2>4, <2>5
<1>9. ASSUME NEW k \in 1 .. n PROVE g[k] = K(kind)!Apply(q[k], g[k - 1])
  <2>1. PICK j \in Nat : j = k - 1 /\ k = j + 1 /\ j + 1 <= n /\ j \in 0 .. n /\ k \in 0 .. n
    BY <1>1
  <2>2. Append(Stamped(b, w, j), w[j + 1]) = Stamped(b, w, j + 1)
    <3>1. b \in Seq(W) /\ n \in Nat /\ w \in [1 .. n -> W] /\ j \in Nat /\ j + 1 <= n
      BY <1>1, <1>4, <1>6, <2>1
    <3> QED BY <3>1, StampsAdd
  <2>3. g[j] = Stamped(b, w, j) /\ g[j + 1] = Stamped(b, w, j + 1)
    BY <1>7, <2>1
  <2>4. w[k] = <<q[k], versions[q[k]]>>
    BY <1>5
  <2>5. g[k] = Append(g[k - 1], <<q[k], versions[q[k]]>>)
    BY <2>1, <2>2, <2>3, <2>4
  <2> QED BY <2>5 DEF K!Apply
<1>10. K(kind)!Chain(q) = g[n]
  <2>1. [i \in 1 .. n |-> w[i]] = [i \in DOMAIN q |-> <<q[i], versions[q[i]]>>]
    BY <1>1, <1>5
  <2>2. g[n] = Stamped(b, w, n)
    BY <1>1, <1>7
  <2> QED BY <1>3, <2>1, <2>2 DEF K!Chain, Stamped
<1> QED BY <1>1, <1>3, <1>8, <1>9, <1>10

\* In a pipe, there are all the parts before each one.
LEMMA PartsBefore ==
  ASSUME NEW P, PartsFit("pipe", P), NEW n \in DOMAIN P
  PROVE  \A i \in 1 .. n : i \in DOMAIN P
<1>1. n \in Nat
  BY BoundIs DEF PartsFit
<1>2. PICK N : N = {j \in Nat : j < n => n - j \in DOMAIN P}
  OBVIOUS
<1>3. 0 \in N
  BY <1>1, <1>2
<1>4. ASSUME NEW j \in N PROVE j + 1 \in N
  <2>1. j \in Nat
    BY <1>2
  <2>2. SUFFICES ASSUME j + 1 < n PROVE n - (j + 1) \in DOMAIN P
    BY <1>2, <2>1
  <2>3. PICK i : i = n - j /\ i \in DOMAIN P /\ i > 1 /\ i - 1 = n - (j + 1)
    BY <1>1, <1>2, <2>1, <2>2
  <2>4. i - 1 \in DOMAIN P
    BY <2>3 DEF PartsFit
  <2> QED BY <2>3, <2>4
<1>5. \A j \in Nat : j \in N
  <2>1. N \in SUBSET Nat
    BY <1>2
  <2> QED BY <1>3, <1>4, <2>1, Induction
<1>6. \A i \in 1 .. n : n - i \in Nat /\ n - i < n /\ n - (n - i) = i
  BY <1>1
<1> QED BY <1>2, <1>5, <1>6

\* The parts that effective sources depend on, when they are not missing.
LEMMA UpstreamIs ==
  ASSUME NEW kind \in Kinds, NEW P, PartsFit(kind, P), NEW q \in Seq(SubMethods), q # <<>>, K(kind)!Effective(q) \subseteq DOMAIN P
  PROVE  K(kind)!Upstream(P, K(kind)!Effective(q)) = 1 .. Len(q) /\ 1 .. Len(q) \subseteq DOMAIN P
<1>1. PICK n : n = Len(q) /\ n \in Nat /\ n # 0 /\ DOMAIN q = 1 .. n
  OBVIOUS
<1>2. CASE kind = "pipe"
  <2>1. K(kind)!Effective(q) = {n}
    BY <1>1, <1>2 DEF K!Effective
  <2>2. \A i \in 1 .. n : i \in DOMAIN P
    BY <1>2, <2>1, PartsBefore
  <2>3. K(kind)!Upstream(P, {n}) = {j \in DOMAIN P : j <= n}
    BY <1>2 DEF K!Upstream
  <2>4. DOMAIN P \subseteq 1 .. MaxLength
    BY DEF PartsFit
  <2>5. {j \in DOMAIN P : j <= n} = 1 .. n
    BY <1>1, <2>2, <2>4, BoundIs
  <2> QED BY <1>1, <2>1, <2>2, <2>3, <2>5
<1>3. CASE kind = "parallel"
  <2>1. K(kind)!Effective(q) = 1 .. n
    BY <1>1, <1>3 DEF K!Effective
  <2> QED BY <1>1, <1>3, <2>1 DEF K!Upstream
<1> QED BY <1>2, <1>3 DEF Kinds

\* Clean parts hold what their methods make of the source that they have.
LEMMA CleanIsExpected ==
  ASSUME NEW kind \in Kinds, MadeFits, NEW P, PartsFit(kind, P), made.methods # <<>>,
         1 .. Len(made.methods) \subseteq DOMAIN P,
         \A i \in 1 .. Len(made.methods) : /\ ~P[i].dirty /\ P[i].method = made.methods[i]
                                           /\ P[i].prev = 0 => P[i].source = made.source
  PROVE  {P[i].holds : i \in K(kind)!Effective(made.methods)} = K(kind)!Expected
<1>1. PICK q : q = made.methods
  OBVIOUS
<1>2. q \in Seq(SubMethods) /\ made.source \in {"s", "t"}
  BY <1>1 DEF MadeFits
<1>3. PICK n : n = Len(q) /\ n \in Nat /\ n # 0 /\ DOMAIN q = 1 .. n /\ \A i \in 1 .. n : q[i] \in SubMethods
  BY <1>1, <1>2
<1>4. ASSUME NEW i \in 1 .. n
      PROVE  /\ P[i].prev = (IF kind = "pipe" /\ i > 1 THEN i - 1 ELSE 0)
             /\ P[i].holds = K(kind)!Apply(q[i], IF P[i].prev = 0 THEN K(kind)!Stored(made.source) ELSE P[P[i].prev].holds)
  <2>1. i \in DOMAIN P /\ ~P[i].dirty /\ P[i].method = q[i] /\ (P[i].prev = 0 => P[i].source = made.source)
    BY <1>1, <1>3
  <2>2. P[i].prev = (IF kind = "pipe" /\ i > 1 THEN i - 1 ELSE 0)
    BY <2>1, PrevIs
  <2>3. P[i].holds = K(kind)!Apply(q[i], K(kind)!SourceHolds(P, i))
    BY <2>1 DEF PartsFit
  <2>4. K(kind)!SourceHolds(P, i) = IF P[i].prev = 0 THEN K(kind)!Stored(made.source) ELSE P[P[i].prev].holds
    BY <2>1, PrevIs
  <2> QED BY <2>2, <2>3, <2>4
<1>5. CASE kind = "pipe"
  <2>1. PICK g : /\ g[0] = K(kind)!Stored(made.source) /\ \A k \in 1 .. n : g[k] = K(kind)!Apply(q[k], g[k - 1])
                 /\ K(kind)!Chain(q) = g[n]
    BY <1>2, <1>3, ChainIs
  <2>2. PICK N : N = {j \in Nat : j + 1 <= n => P[j + 1].holds = g[j + 1]}
    OBVIOUS
  <2>3. 0 \in N
    <3>1. 1 \in 1 .. n
      BY <1>3
    <3>2. P[1].holds = K(kind)!Apply(q[1], K(kind)!Stored(made.source))
      BY <1>4, <3>1
    <3>3. g[1] = K(kind)!Apply(q[1], g[1 - 1]) /\ 1 - 1 = 0
      BY <2>1, <3>1
    <3> QED BY <2>1, <2>2, <3>2, <3>3
  <2>4. ASSUME NEW j \in N PROVE j + 1 \in N
    <3>1. j \in Nat
      BY <2>2
    <3>2. SUFFICES ASSUME (j + 1) + 1 <= n PROVE P[(j + 1) + 1].holds = g[(j + 1) + 1]
      BY <2>2, <3>1
    <3>3. PICK i : i = (j + 1) + 1 /\ i \in 1 .. n /\ i > 1 /\ i - 1 = j + 1 /\ j + 1 <= n /\ i - 1 # 0
      BY <1>3, <3>1, <3>2
    <3>4. P[i].holds = K(kind)!Apply(q[i], P[i - 1].holds)
      BY <1>4, <1>5, <3>3
    <3>5. P[i - 1].holds = g[i - 1]
      BY <2>2, <3>1, <3>3
    <3>6. g[i] = K(kind)!Apply(q[i], g[i - 1])
      BY <2>1, <3>3
    <3> QED BY <3>3, <3>4, <3>5, <3>6
  <2>5. \A j \in Nat : j \in N
    <3>1. N \in SUBSET Nat
      BY <2>2
    <3> QED BY <2>3, <2>4, <3>1, Induction
  <2>6. n - 1 \in Nat /\ (n - 1) + 1 = n
    BY <1>3
  <2>7. P[n].holds = g[n]
    BY <1>3, <2>2, <2>5, <2>6
  <2>8. K(kind)!Effective(q) = {n} /\ K(kind)!Expected = {K(kind)!Chain(q)}
    BY <1>1, <1>3, <1>5 DEF K!Effective, K!Expected
  <2> QED BY <1>1, <2>1, <2>7, <2>8
<1>6. CASE kind = "parallel"
  <2>1. ASSUME NEW i \in 1 .. n PROVE P[i].holds = K(kind)!Chain(<<q[i]>>)
    <3>1. PICK w : w = <<q[i]>>
      OBVIOUS
    <3>2. w \in Seq(SubMethods) /\ Len(w) = 1 /\ w[1] = q[i]
      BY <1>3, <3>1
    <3>3. PICK g : /\ g[0] = K(kind)!Stored(made.source) /\ \A k \in 1 .. Len(w) : g[k] = K(kind)!Apply(w[k], g[k - 1])
                   /\ K(kind)!Chain(w) = g[Len(w)]
      BY <1>2, <3>2, ChainIs
    <3>4. 1 \in 1 .. Len(w) /\ 1 - 1 = 0
      BY <3>2
    <3>5. g[1] = K(kind)!Apply(w[1], g[0])
      BY <3>3, <3>4
    <3>6. P[i].holds = K(kind)!Apply(q[i], K(kind)!Stored(made.source))
      BY <1>4, <1>6
    <3> QED BY <3>1, <3>2, <3>3, <3>5, <3>6
  <2>2. K(kind)!Effective(q) = 1 .. n /\ K(kind)!Expected = {K(kind)!Chain(<<q[i]>>) : i \in 1 .. n}
    BY <1>1, <1>3, <1>6 DEF K!Effective, K!Expected
  <2>3. PICK X, Y : X = {P[i].holds : i \in 1 .. n} /\ Y = {K(kind)!Chain(<<q[i]>>) : i \in 1 .. n}
    OBVIOUS
  <2>4. \A x : x \in X <=> \E i \in 1 .. n : P[i].holds = x
    BY <2>3
  <2>5. \A x : x \in Y <=> \E i \in 1 .. n : K(kind)!Chain(<<q[i]>>) = x
    BY <2>3
  <2>6. X = Y
    <3>1. ASSUME NEW x \in X PROVE x \in Y
      <4>1. PICK i \in 1 .. n : P[i].holds = x
        BY <2>4
      <4>2. K(kind)!Chain(<<q[i]>>) = x
        BY <2>1, <4>1
      <4> QED BY <2>5, <4>2
    <3>2. ASSUME NEW x \in Y PROVE x \in X
      <4>1. PICK i \in 1 .. n : K(kind)!Chain(<<q[i]>>) = x
        BY <2>5
      <4>2. P[i].holds = x
        BY <2>1, <4>1
      <4> QED BY <2>4, <4>2
    <3> QED BY <3>1, <3>2
  <2> QED BY <1>1, <2>2, <2>3, <2>6
<1> QED BY <1>5, <1>6 DEF Kinds
----------------------------------------------------------------------------
(* Composites: operations *)

LEMMA ExpectedKept ==
  ASSUME NEW kind \in Kinds, made.methods \in Seq(SubMethods), made'.methods = made.methods, made'.source = made.source,
         \A x \in SubMethods \cup {made.source} : versions'[x] = versions[x]
  PROVE  K(kind)!Expected' = K(kind)!Expected
<1>1. PICK q : q = made.methods
  OBVIOUS
<1>2. q \in Seq(SubMethods) /\ \A i \in DOMAIN q : q[i] \in SubMethods
  BY <1>1
<1>3. K(kind)!Stored(made.source)' = K(kind)!Stored(made.source)
  BY DEF K!Stored
<1>4. [i \in DOMAIN q |-> <<q[i], versions[q[i]]>>]' = [i \in DOMAIN q |-> <<q[i], versions[q[i]]>>]
  BY <1>2
<1>5. K(kind)!Chain(q)' = K(kind)!Chain(q)
  BY <1>3, <1>4 DEF K!Chain
<1>6. \A i \in DOMAIN q : [j \in DOMAIN <<q[i]>> |-> <<<<q[i]>>[j], versions'[<<q[i]>>[j]]>>]
                          = [j \in DOMAIN <<q[i]>> |-> <<<<q[i]>>[j], versions[<<q[i]>>[j]]>>]
  <2> SUFFICES ASSUME NEW i \in DOMAIN q
               PROVE  [j \in DOMAIN <<q[i]>> |-> <<<<q[i]>>[j], versions'[<<q[i]>>[j]]>>]
                      = [j \in DOMAIN <<q[i]>> |-> <<<<q[i]>>[j], versions[<<q[i]>>[j]]>>]
    OBVIOUS
  <2>1. \A j \in DOMAIN <<q[i]>> : <<q[i]>>[j] = q[i]
    OBVIOUS
  <2> QED BY <1>2, <2>1
<1>7. \A i \in DOMAIN q : K(kind)!Chain(<<q[i]>>)' = K(kind)!Chain(<<q[i]>>)
  BY <1>3, <1>6 DEF K!Chain
<1>8. {K(kind)!Chain(<<q[i]>>) : i \in DOMAIN q}' = {K(kind)!Chain(<<q[i]>>) : i \in DOMAIN q}
  BY <1>7
<1>9. K(kind)!Expected = IF kind = "pipe" THEN {K(kind)!Chain(q)} ELSE {K(kind)!Chain(<<q[i]>>) : i \in DOMAIN q}
  BY <1>1 DEF K!Expected
<1>10. made'.methods = q
  BY <1>1
<1>11. K(kind)!Expected' = IF kind = "pipe" THEN {K(kind)!Chain(q)'} ELSE {K(kind)!Chain(<<q[i]>>) : i \in DOMAIN q}'
  BY <1>10 DEF K!Expected
<1> QED BY <1>5, <1>8, <1>9, <1>11

LEMMA FormerKept ==
  ASSUME NEW kind \in Kinds, SameParts(parts, parts'), made'.effective = made.effective, made'.source = made.source
  PROVE  Former(kind)' <=> Former(kind)
<1>1. K(kind)!Upstream(parts, made.effective)' = K(kind)!Upstream(parts, made.effective)
  BY DEF SameParts, K!Upstream
<1>2. K(kind)!Upstream(parts, made.effective) \subseteq DOMAIN parts
  BY DEF K!Upstream
<1> QED BY <1>1, <1>2 DEF Former, SameParts

\* The fields of the composite trace, as values.
IsMade(q, s, d, e, y, h, r, x) ==
  made = [methods |-> q, source |-> s, described |-> d, effective |-> e, dirty |-> y, holds |-> h, read |-> r, missed |-> x]

LEMMA MadeIs ==
  ASSUME MadeFits
  PROVE  \E q \in Seq(SubMethods), s \in {"s", "t"}, d, y, r, x \in BOOLEAN : \E e, h : IsMade(q, s, d, e, y, h, r, x) /\ Len(q) <= MaxLength
BY DEF MadeFits, IsMade

LEMMA IsMadeFields ==
  ASSUME NEW q, NEW s, NEW d, NEW e, NEW y, NEW h, NEW r, NEW x, IsMade(q, s, d, e, y, h, r, x)
  PROVE  /\ made.methods = q /\ made.source = s /\ made.described = d /\ made.effective = e /\ made.dirty = y
         /\ made.holds = h /\ made.read = r /\ made.missed = x
BY DEF IsMade

LEMMA InitComposed ==
  ASSUME NEW kind \in Kinds, K(kind)!Init
  PROVE  Composed(kind)
<1>1. PICK q \in K(kind)!MethodLists : IsMade(q, "s", FALSE, {}, TRUE, {}, FALSE, FALSE)
  BY DEF K!Init, IsMade
<1>2. q \in Seq(SubMethods) /\ Len(q) <= MaxLength
  <2>1. PICK n \in 0 .. MaxLength : q \in [1 .. n -> SubMethods]
    BY DEF K!MethodLists
  <2> QED BY <2>1, BoundIs
<1>3. /\ made.methods = q /\ made.source = "s" /\ made.described = FALSE /\ made.effective = {} /\ made.dirty = TRUE
      /\ made.holds = {} /\ made.read = FALSE /\ made.missed = FALSE
  BY <1>1, IsMadeFields
<1>4. MadeFits
  BY <1>1, <1>2, <1>3 DEF MadeFits, IsMade
<1>5. PartsFit(kind, parts) /\ PartsNamed(parts)
  <2>1. parts = <<>>
    BY DEF K!Init
  <2>2. DOMAIN parts = {} /\ parts = [i \in DOMAIN parts |-> parts[i]]
    BY <2>1
  <2> QED BY <2>2 DEF PartsFit, PartsNamed
<1>6. VersionsFit
  BY DEF K!Init, VersionsFit, K!Sources
<1> QED BY <1>3, <1>4, <1>5, <1>6 DEF Composed, DescribedFits, HoldsFits

LEMMA SamePartsNamed ==
  ASSUME NEW P, NEW Q, SameParts(P, Q), PartsNamed(P)
  PROVE  PartsNamed(Q)
BY DEF SameParts, PartsNamed

LEMMA PreparedNamed ==
  ASSUME NEW kind \in Kinds, NEW P, PartsFit(kind, P), PartsNamed(P), MadeFits, NEW Q, Q = K(kind)!Prepared(P, made.methods)
  PROVE  PartsNamed(Q)
<1>1. PICK q : q = made.methods /\ q \in Seq(SubMethods) /\ made.source \in {"s", "t"}
  BY DEF MadeFits
<1>2. Q = [i \in DOMAIN P \cup DOMAIN q |->
             CASE i \in DOMAIN q /\ i \in DOMAIN P -> K(kind)!Updated(P[i], q[i])
               [] i \in DOMAIN q /\ i \notin DOMAIN P -> K(kind)!NewPart(i, q[i])
               [] OTHER -> P[i]]
  BY <1>1 DEF K!Prepared
<1>3. ASSUME NEW i \in DOMAIN Q PROVE Q[i].method \in SubMethods /\ Q[i].source \in {"s", "t"}
  <2>1. i \in DOMAIN P \/ i \in DOMAIN q
    BY <1>2
  <2>2. i \in DOMAIN q => q[i] \in SubMethods
    BY <1>1
  <2>3. CASE i \in DOMAIN P
    <3>1. PICK p : p = P[i]
      OBVIOUS
    <3>2. PICK m, v, s, h, d : p = [method |-> m, prev |-> v, source |-> s, holds |-> h, dirty |-> d] /\ d \in BOOLEAN
      BY <2>3, <3>1, PrevIs DEF PartIs
    <3>3. m \in SubMethods /\ s \in {"s", "t"}
      <4>1. p.method = m /\ p.source = s
        BY <3>2
      <4>2. P[i].method \in SubMethods /\ P[i].source \in {"s", "t"}
        BY <2>3 DEF PartsNamed
      <4> QED BY <3>1, <4>1, <4>2
    <3>4. CASE i \in DOMAIN q
      <4>1. Q[i] = K(kind)!Updated(p, q[i])
        BY <1>2, <2>3, <3>1, <3>4
      <4>2. Q[i] = [p EXCEPT !.method = q[i], !.dirty = d \/ m # q[i]]
        BY <3>2, <4>1 DEF K!Updated
      <4>3. Q[i] = [method |-> q[i], prev |-> v, source |-> s, holds |-> h, dirty |-> d \/ m # q[i]]
        BY <3>2, <4>2
      <4> QED BY <2>2, <3>3, <3>4, <4>3
    <3>5. CASE i \notin DOMAIN q
      <4>1. Q[i] = p
        BY <1>2, <2>3, <3>1, <3>5
      <4> QED BY <3>2, <3>3, <4>1
    <3> QED BY <3>4, <3>5
  <2>4. CASE i \notin DOMAIN P
    <3>1. i \in DOMAIN q
      BY <2>1, <2>4
    <3>2. Q[i] = K(kind)!NewPart(i, q[i])
      BY <1>2, <2>4, <3>1
    <3>3. Q[i].method = q[i] /\ Q[i].source = made.source
      BY <3>2 DEF K!NewPart
    <3> QED BY <1>1, <2>2, <3>1, <3>3
  <2> QED BY <2>3, <2>4
<1> QED BY <1>3 DEF PartsNamed

LEMMA TrimmedNamed ==
  ASSUME NEW kind \in Kinds, NEW P, PartsFit(kind, P), PartsNamed(P), NEW n \in Nat, NEW Q, Q = K(kind)!Trimmed(P, n)
  PROVE  PartsNamed(Q)
<1>1. DOMAIN Q \subseteq DOMAIN P /\ \A i \in DOMAIN Q : Q[i] = P[i]
  BY TrimmedFits
<1> QED BY <1>1 DEF PartsNamed

\* What fits still does, when nothing else has changed.
LEMMA PartsFitNext ==
  ASSUME NEW kind \in Kinds, NEW P, PartsFit(kind, P), parts' = P, versions' = versions
  PROVE  PartsFit(kind, parts)'
BY DEF PartsFit, PartIs, K!Apply, K!SourceHolds, K!Stored, K!Holds, K!Declared

\* When versions change, what has another version is dirty.
LEMMA PartsFitVersions ==
  ASSUME NEW kind \in Kinds, PartsFit(kind, parts), DOMAIN parts' = DOMAIN parts, parts' = [i \in DOMAIN parts' |-> parts'[i]],
         \A i \in DOMAIN parts :
           /\ PartIs(parts'[i]) /\ parts'[i].method = parts[i].method /\ parts'[i].prev = parts[i].prev
           /\ parts'[i].source = parts[i].source /\ parts'[i].holds = parts[i].holds
           /\ ~parts'[i].dirty => /\ ~parts[i].dirty
                                  /\ versions'[parts[i].method] = versions[parts[i].method]
                                  /\ parts[i].prev = 0 => versions'[parts[i].source] = versions[parts[i].source]
  PROVE  PartsFit(kind, parts)' /\ SameParts(parts, parts')
<1>1. SameParts(parts, parts')
  BY DEF SameParts
<1>2. DOMAIN parts' \subseteq 1 .. MaxLength
  BY DEF PartsFit
<1>3. ASSUME NEW i \in DOMAIN parts
      PROVE  /\ PartIs(parts'[i])
             /\ parts'[i].prev = IF kind = "pipe" /\ i > 1 THEN i - 1 ELSE 0
             /\ kind = "pipe" /\ i > 1 => i - 1 \in DOMAIN parts'
             /\ ~parts'[i].dirty =>
                  parts'[i].holds = Append(IF parts'[i].prev = 0 THEN <<<<parts'[i].source, versions'[parts'[i].source]>>>>
                                           ELSE parts'[parts'[i].prev].holds, <<parts'[i].method, versions'[parts'[i].method]>>)
  <2>1. /\ parts[i].prev = IF kind = "pipe" /\ i > 1 THEN i - 1 ELSE 0
        /\ kind = "pipe" /\ i > 1 => i - 1 \in DOMAIN parts'
    BY DEF PartsFit
  <2>2. ASSUME ~parts'[i].dirty
        PROVE  parts'[i].holds = Append(IF parts'[i].prev = 0 THEN <<<<parts'[i].source, versions'[parts'[i].source]>>>>
                                        ELSE parts'[parts'[i].prev].holds, <<parts'[i].method, versions'[parts'[i].method]>>)
    <3>1. /\ ~parts[i].dirty
          /\ versions'[parts[i].method] = versions[parts[i].method]
          /\ parts[i].prev = 0 => versions'[parts[i].source] = versions[parts[i].source]
      BY <2>2
    <3>2. parts[i].holds = K(kind)!Apply(parts[i].method, K(kind)!SourceHolds(parts, i))
      BY <3>1 DEF PartsFit
    <3>3. parts[i].holds = Append(IF parts[i].prev = 0 THEN <<<<parts[i].source, versions[parts[i].source]>>>>
                                  ELSE parts[parts[i].prev].holds, <<parts[i].method, versions[parts[i].method]>>)
      BY <3>2 DEF K!Apply, K!SourceHolds, K!Stored, K!Declared, K!Holds
    <3>4. parts[i].prev # 0 => parts'[parts[i].prev].holds = parts[parts[i].prev].holds
      BY PrevIs
    <3>5. parts'[i].holds = parts[i].holds /\ parts'[i].prev = parts[i].prev /\ parts'[i].source = parts[i].source
          /\ parts'[i].method = parts[i].method
      OBVIOUS
    <3>6. CASE parts[i].prev = 0
      BY <3>1, <3>3, <3>5, <3>6
    <3>7. CASE parts[i].prev # 0
      <4>1. PICK v, m, h : v = parts[i].prev /\ m = parts[i].method /\ h = parts[v].holds
        OBVIOUS
      <4>2. v # 0 /\ parts[i].holds = Append(h, <<m, versions[m]>>)
        BY <3>3, <3>7, <4>1
      <4>3. parts'[i].holds = Append(h, <<m, versions'[m]>>)
        <5>1. versions'[m] = versions[m]
          BY <3>1, <4>1
        <5>2. parts'[i].holds = parts[i].holds
          BY <3>5
        <5> QED BY <4>2, <5>1, <5>2
      <4>4. parts'[i].prev = v /\ parts'[i].method = m
        BY <3>5, <4>1
      <4>5. parts'[parts'[i].prev].holds = h
        BY <3>4, <4>1, <4>2, <4>4
      <4> QED BY <4>2, <4>3, <4>4, <4>5
    <3> QED BY <3>6, <3>7
  <2> QED BY <2>1, <2>2
<1>4. PartsFit(kind, parts)'
  BY <1>2, <1>3 DEF PartsFit, PartIs, K!Apply, K!SourceHolds, K!Stored, K!Holds, K!Declared
<1> QED BY <1>1, <1>4

\* A description to be computed again makes the composite trace dirty.
LEMMA UndescribedComposed ==
  ASSUME NEW kind \in Kinds, Composed(kind), NEW q \in Seq(SubMethods), NEW s \in {"s", "t"}, NEW e, NEW h, Len(q) <= MaxLength,
         IsMade(q, s, FALSE, e, TRUE, h, FALSE, FALSE)', parts' = parts, versions' = versions
  PROVE  Composed(kind)'
<1>1. made'.described = FALSE /\ made'.dirty = TRUE /\ made'.read = FALSE /\ MadeFits'
  <2>1. made' = [methods |-> q, source |-> s, described |-> FALSE, effective |-> e, dirty |-> TRUE, holds |-> h,
                 read |-> FALSE, missed |-> FALSE]
    BY DEF IsMade
  <2>2. /\ made'.methods = q /\ made'.source = s /\ made'.described = FALSE /\ made'.effective = e /\ made'.dirty = TRUE
        /\ made'.holds = h /\ made'.read = FALSE /\ made'.missed = FALSE
    BY <2>1
  <2> QED BY <2>1, <2>2 DEF MadeFits
<1>2. PartsFit(kind, parts)'
  BY PartsFitNext DEF Composed
<1>3. PartsNamed(parts)' /\ VersionsFit'
  BY DEF Composed, PartsNamed, VersionsFit
<1> QED BY <1>1, <1>2, <1>3 DEF Composed, DescribedFits, HoldsFits

\* A client changes the methods or the source of the composite trace.
LEMMA SetMethodsComposed ==
  ASSUME NEW kind \in Kinds, Composed(kind), NEW w \in K(kind)!MethodLists, K(kind)!SetMethods(w)
  PROVE  Composed(kind)'
<1>1. PICK q \in Seq(SubMethods), s \in {"s", "t"}, d, y, r, x \in BOOLEAN :
        \E e, h : IsMade(q, s, d, e, y, h, r, x) /\ Len(q) <= MaxLength
  BY MadeIs DEF Composed
<1>2. PICK e, h : IsMade(q, s, d, e, y, h, r, x) /\ Len(q) <= MaxLength
  BY <1>1
<1>3. /\ made' = [made EXCEPT !.methods = w, !.described = FALSE, !.dirty = TRUE, !.read = FALSE, !.missed = FALSE]
      /\ parts' = parts /\ versions' = versions
  BY DEF K!SetMethods
<1>4. IsMade(w, s, FALSE, e, TRUE, h, FALSE, FALSE)'
  BY <1>2, <1>3 DEF IsMade
<1>5. w \in Seq(SubMethods) /\ Len(w) <= MaxLength
  BY BoundIs DEF K!MethodLists
<1> QED BY <1>3, <1>4, <1>5, UndescribedComposed

LEMMA SetSourceComposed ==
  ASSUME NEW kind \in Kinds, Composed(kind), NEW w \in {"s", "t"}, K(kind)!SetSource(w)
  PROVE  Composed(kind)'
<1>1. PICK q \in Seq(SubMethods), s \in {"s", "t"}, d, y, r, x \in BOOLEAN :
        \E e, h : IsMade(q, s, d, e, y, h, r, x) /\ Len(q) <= MaxLength
  BY MadeIs DEF Composed
<1>2. PICK e, h : IsMade(q, s, d, e, y, h, r, x) /\ Len(q) <= MaxLength
  BY <1>1
<1>3. /\ made' = [made EXCEPT !.source = w, !.described = FALSE, !.dirty = TRUE, !.read = FALSE, !.missed = FALSE]
      /\ parts' = parts /\ versions' = versions
  BY DEF K!SetSource
<1>4. IsMade(q, w, FALSE, e, TRUE, h, FALSE, FALSE)'
  BY <1>2, <1>3 DEF IsMade
<1> QED BY <1>2, <1>3, <1>4, UndescribedComposed

\* The composite trace is as before, and so are its parts but for what they hold.
LEMMA SameComposed ==
  ASSUME NEW kind \in Kinds, Composed(kind), MadeFits', VersionsFit', PartsFit(kind, parts)', SameParts(parts, parts'),
         made'.methods = made.methods, made'.source = made.source, made'.described = made.described,
         made'.effective = made.effective, made.dirty => made'.dirty, made'.read => made.read /\ ~made'.dirty,
         ~made'.dirty => \/ made'.missed
                         \/ /\ made'.holds = made.holds /\ made'.missed = made.missed
                            /\ \A x \in SubMethods \cup {made.source} : versions'[x] = versions[x]
  PROVE  Composed(kind)'
<1>1. DOMAIN parts' = DOMAIN parts /\ \A i \in DOMAIN parts : parts'[i].method = parts[i].method
  BY DEF SameParts
<1>2. PartsNamed(parts)'
  <2>1. PartsNamed(parts')
    BY SamePartsNamed DEF Composed
  <2> QED BY <2>1 DEF PartsNamed
<1>3. K(kind)!Effective(made.methods)' = K(kind)!Effective(made.methods)
  BY DEF K!Effective
<1>4. DescribedFits(kind)'
  BY <1>1, <1>3 DEF Composed, DescribedFits
<1>5. HoldsFits(kind)'
  <2> SUFFICES ASSUME ~made'.dirty, made'.effective \subseteq DOMAIN parts', ~made'.missed
               PROVE  made'.holds = K(kind)!Expected' \/ Former(kind)'
    BY DEF HoldsFits
  <2>1. /\ made'.holds = made.holds /\ made'.missed = made.missed
        /\ \A x \in SubMethods \cup {made.source} : versions'[x] = versions[x]
    OBVIOUS
  <2>2. ~made.dirty /\ made.effective \subseteq DOMAIN parts /\ ~made.missed
    BY <1>1, <2>1
  <2>3. made.holds = K(kind)!Expected \/ Former(kind)
    BY <2>2 DEF Composed, HoldsFits
  <2>4. Former(kind)' <=> Former(kind)
    BY FormerKept
  <2>5. K(kind)!Expected' = K(kind)!Expected
    BY <2>1, ExpectedKept DEF Composed, MadeFits
  <2> QED BY <2>1, <2>3, <2>4, <2>5
<1>6. made'.read => made'.described /\ ~made'.dirty /\ made'.effective \subseteq DOMAIN parts'
  BY <1>1 DEF Composed
<1>7. ~made'.described => made'.dirty
  BY DEF Composed
<1> QED BY <1>2, <1>4, <1>5, <1>6, <1>7 DEF Composed

\* A post, or an edit of a method.
LEMMA PostComposed ==
  ASSUME NEW kind \in Kinds, Composed(kind), NEW w \in {"s", "t"}, K(kind)!Post(w)
  PROVE  Composed(kind)'
<1>1. PICK q \in Seq(SubMethods), s \in {"s", "t"}, d, y, r, x \in BOOLEAN :
        \E e, h : IsMade(q, s, d, e, y, h, r, x) /\ Len(q) <= MaxLength
  BY MadeIs DEF Composed
<1>2. PICK e, h : IsMade(q, s, d, e, y, h, r, x) /\ Len(q) <= MaxLength
  BY <1>1
<1>3. /\ versions' = [versions EXCEPT ![w] = @ + 1]
      /\ parts' = [i \in DOMAIN parts |-> [parts[i] EXCEPT !.dirty = @ \/ (parts[i].prev = 0 /\ parts[i].source = w)]]
      /\ made' = [made EXCEPT !.dirty = @ \/ made.source = w, !.read = FALSE, !.missed = @ /\ made.source # w]
  BY DEF K!Post, K!Told, K!Declared
<1>4. /\ made.methods = q /\ made.source = s /\ made.described = d /\ made.effective = e /\ made.dirty = y
      /\ made.holds = h /\ made.read = r /\ made.missed = x
  BY <1>2, IsMadeFields
<1>5. made' = [methods |-> q, source |-> s, described |-> d, effective |-> e, dirty |-> y \/ s = w, holds |-> h,
               read |-> FALSE, missed |-> x /\ s # w]
  BY <1>2, <1>3, <1>4 DEF IsMade
<1>6. /\ made'.methods = q /\ made'.source = s /\ made'.described = d /\ made'.effective = e /\ made'.dirty = (y \/ s = w)
      /\ made'.holds = h /\ made'.read = FALSE /\ made'.missed = (x /\ s # w)
  BY <1>5
<1>7. MadeFits'
  BY <1>2, <1>5, <1>6 DEF MadeFits
<1>8. VersionsFit' /\ \A z \in {"s", "t"} \cup SubMethods : z # w => versions'[z] = versions[z]
  BY <1>3 DEF Composed, VersionsFit
<1>9. \A z \in SubMethods : z # w
  BY BoundIs
<1>10. DOMAIN parts' = DOMAIN parts /\ parts' = [i \in DOMAIN parts' |-> parts'[i]]
  BY <1>3
<1>11. PartsFit(kind, parts) /\ PartsNamed(parts)
  BY DEF Composed
<1>12. ASSUME NEW i \in DOMAIN parts
       PROVE  /\ PartIs(parts'[i]) /\ parts'[i].method = parts[i].method /\ parts'[i].prev = parts[i].prev
              /\ parts'[i].source = parts[i].source /\ parts'[i].holds = parts[i].holds
              /\ ~parts'[i].dirty => /\ ~parts[i].dirty
                                     /\ versions'[parts[i].method] = versions[parts[i].method]
                                     /\ parts[i].prev = 0 => versions'[parts[i].source] = versions[parts[i].source]
  <2>1. PICK p : p = parts[i]
    OBVIOUS
  <2>2. PICK m, v, z, g, f : p = [method |-> m, prev |-> v, source |-> z, holds |-> g, dirty |-> f] /\ f \in BOOLEAN
    BY <1>11, <2>1, PrevIs DEF PartIs
  <2>3. p.method = m /\ p.prev = v /\ p.source = z /\ p.holds = g /\ p.dirty = f
    BY <2>2
  <2>4. m \in SubMethods /\ z \in {"s", "t"}
    BY <1>11, <2>1, <2>3 DEF PartsNamed
  <2>5. parts'[i] = [p EXCEPT !.dirty = @ \/ (p.prev = 0 /\ p.source = w)]
    BY <1>3, <2>1
  <2>6. parts'[i] = [method |-> m, prev |-> v, source |-> z, holds |-> g, dirty |-> f \/ (v = 0 /\ z = w)]
    BY <2>2, <2>3, <2>5
  <2>7. /\ parts'[i].method = m /\ parts'[i].prev = v /\ parts'[i].source = z /\ parts'[i].holds = g
        /\ parts'[i].dirty = (f \/ (v = 0 /\ z = w))
    BY <2>6
  <2>8. PartIs(parts'[i])
    BY <2>6, <2>7 DEF PartIs
  <2>9. versions'[m] = versions[m] /\ (z # w => versions'[z] = versions[z])
    BY <1>8, <1>9, <2>4
  <2> QED BY <2>1, <2>3, <2>7, <2>8, <2>9
<1>13. PartsFit(kind, parts)' /\ SameParts(parts, parts')
  BY <1>10, <1>11, <1>12, PartsFitVersions
<1>14. ~made'.dirty => /\ made'.holds = made.holds /\ made'.missed = made.missed
                       /\ \A z \in SubMethods \cup {made.source} : versions'[z] = versions[z]
  BY <1>4, <1>6, <1>8, <1>9
<1> QED BY <1>4, <1>6, <1>7, <1>8, <1>13, <1>14, SameComposed

LEMMA EditMethodComposed ==
  ASSUME NEW kind \in Kinds, Composed(kind), NEW w \in SubMethods, K(kind)!EditMethod(w)
  PROVE  Composed(kind)'
<1>1. PICK q \in Seq(SubMethods), s \in {"s", "t"}, d, y, r, x \in BOOLEAN :
        \E e, h : IsMade(q, s, d, e, y, h, r, x) /\ Len(q) <= MaxLength
  BY MadeIs DEF Composed
<1>2. PICK e, h : IsMade(q, s, d, e, y, h, r, x) /\ Len(q) <= MaxLength
  BY <1>1
<1>3. /\ versions' = [versions EXCEPT ![w] = @ + 1]
      /\ parts' = [i \in DOMAIN parts |-> [parts[i] EXCEPT !.dirty = @ \/ parts[i].method = w]]
      /\ made' = [made EXCEPT !.read = FALSE, !.missed = ~made.dirty]
  BY DEF K!EditMethod
<1>4. /\ made.methods = q /\ made.source = s /\ made.described = d /\ made.effective = e /\ made.dirty = y
      /\ made.holds = h /\ made.read = r /\ made.missed = x
  BY <1>2, IsMadeFields
<1>5. made' = [methods |-> q, source |-> s, described |-> d, effective |-> e, dirty |-> y, holds |-> h,
               read |-> FALSE, missed |-> ~y]
  BY <1>2, <1>3, <1>4 DEF IsMade
<1>6. /\ made'.methods = q /\ made'.source = s /\ made'.described = d /\ made'.effective = e /\ made'.dirty = y
      /\ made'.holds = h /\ made'.read = FALSE /\ made'.missed = ~y
  BY <1>5
<1>7. MadeFits'
  BY <1>2, <1>5, <1>6 DEF MadeFits
<1>8. VersionsFit' /\ \A z \in {"s", "t"} \cup SubMethods : z # w => versions'[z] = versions[z]
  BY <1>3 DEF Composed, VersionsFit
<1>9. w \notin {"s", "t"}
  BY BoundIs
<1>10. DOMAIN parts' = DOMAIN parts /\ parts' = [i \in DOMAIN parts' |-> parts'[i]]
  BY <1>3
<1>11. PartsFit(kind, parts) /\ PartsNamed(parts)
  BY DEF Composed
<1>12. ASSUME NEW i \in DOMAIN parts
       PROVE  /\ PartIs(parts'[i]) /\ parts'[i].method = parts[i].method /\ parts'[i].prev = parts[i].prev
              /\ parts'[i].source = parts[i].source /\ parts'[i].holds = parts[i].holds
              /\ ~parts'[i].dirty => /\ ~parts[i].dirty
                                     /\ versions'[parts[i].method] = versions[parts[i].method]
                                     /\ parts[i].prev = 0 => versions'[parts[i].source] = versions[parts[i].source]
  <2>1. PICK p : p = parts[i]
    OBVIOUS
  <2>2. PICK m, v, z, g, f : p = [method |-> m, prev |-> v, source |-> z, holds |-> g, dirty |-> f] /\ f \in BOOLEAN
    BY <1>11, <2>1, PrevIs DEF PartIs
  <2>3. p.method = m /\ p.prev = v /\ p.source = z /\ p.holds = g /\ p.dirty = f
    BY <2>2
  <2>4. m \in SubMethods /\ z \in {"s", "t"}
    BY <1>11, <2>1, <2>3 DEF PartsNamed
  <2>5. parts'[i] = [p EXCEPT !.dirty = @ \/ p.method = w]
    BY <1>3, <2>1
  <2>6. parts'[i] = [method |-> m, prev |-> v, source |-> z, holds |-> g, dirty |-> f \/ m = w]
    BY <2>2, <2>3, <2>5
  <2>7. /\ parts'[i].method = m /\ parts'[i].prev = v /\ parts'[i].source = z /\ parts'[i].holds = g
        /\ parts'[i].dirty = (f \/ m = w)
    BY <2>6
  <2>8. PartIs(parts'[i])
    BY <2>6, <2>7 DEF PartIs
  <2>9. versions'[z] = versions[z] /\ (m # w => versions'[m] = versions[m])
    BY <1>8, <1>9, <2>4
  <2> QED BY <2>1, <2>3, <2>7, <2>8, <2>9
<1>13. PartsFit(kind, parts)' /\ SameParts(parts, parts')
  BY <1>10, <1>11, <1>12, PartsFitVersions
<1>14. ~made'.dirty => made'.missed
  BY <1>6
<1> QED BY <1>4, <1>6, <1>7, <1>8, <1>13, <1>14, SameComposed

\* A client reads a part, or deletes one.
LEMMA GetPartComposed ==
  ASSUME NEW kind \in Kinds, Composed(kind), NEW i, K(kind)!GetPart(i)
  PROVE  Composed(kind)'
<1>1. PICK X : X = K(kind)!Upstream(parts, {i}) /\ X \in SUBSET DOMAIN parts
  BY DEF K!Upstream
<1>2. PICK Q : Q = K(kind)!RefreshAll(parts, X)
  OBVIOUS
<1>3. parts' = Q /\ made' = made /\ versions' = versions
  BY <1>1, <1>2 DEF K!GetPart
<1>4. PartsFit(kind, parts)
  BY DEF Composed
<1>5. PartsFit(kind, Q) /\ SameParts(parts, Q)
  BY <1>1, <1>2, <1>4, RefreshAllFits
<1>6. PartsFit(kind, parts)'
  BY <1>3, <1>5, PartsFitNext
<1>7. MadeFits' /\ VersionsFit'
  BY <1>3 DEF Composed, MadeFits, VersionsFit
<1>8. made.read => ~made.dirty
  BY DEF Composed
<1> QED BY <1>3, <1>5, <1>6, <1>7, <1>8, SameComposed

LEMMA DeletePartComposed ==
  ASSUME NEW kind \in Kinds, Composed(kind), NEW i \in DOMAIN parts, K(kind)!DeletePart(i)
  PROVE  Composed(kind)'
<1>1. PICK q \in Seq(SubMethods), s \in {"s", "t"}, d, y, r, x \in BOOLEAN :
        \E e, h : IsMade(q, s, d, e, y, h, r, x) /\ Len(q) <= MaxLength
  BY MadeIs DEF Composed
<1>2. PICK e, h : IsMade(q, s, d, e, y, h, r, x) /\ Len(q) <= MaxLength
  BY <1>1
<1>3. /\ \A j \in DOMAIN parts : parts[j].prev # i
      /\ parts' = [j \in DOMAIN parts \ {i} |-> parts[j]]
      /\ made' = [made EXCEPT !.read = FALSE]
      /\ versions' = versions
  BY DEF K!DeletePart
<1>4. /\ made.methods = q /\ made.source = s /\ made.described = d /\ made.effective = e /\ made.dirty = y
      /\ made.holds = h /\ made.read = r /\ made.missed = x
  BY <1>2, IsMadeFields
<1>5. made' = [methods |-> q, source |-> s, described |-> d, effective |-> e, dirty |-> y, holds |-> h,
               read |-> FALSE, missed |-> x]
  BY <1>2, <1>3 DEF IsMade
<1>6. /\ made'.methods = q /\ made'.source = s /\ made'.described = d /\ made'.effective = e /\ made'.dirty = y
      /\ made'.holds = h /\ made'.read = FALSE /\ made'.missed = x
  BY <1>5
<1>7. MadeFits'
  BY <1>2, <1>5, <1>6 DEF MadeFits
<1>8. VersionsFit'
  BY <1>3 DEF Composed, VersionsFit
<1>9. PartsFit(kind, parts) /\ PartsNamed(parts)
  BY DEF Composed
<1>10. PICK Q : Q = [j \in DOMAIN parts \ {i} |-> parts[j]]
  OBVIOUS
<1>11. parts' = Q /\ DOMAIN Q = DOMAIN parts \ {i} /\ \A j \in DOMAIN Q : Q[j] = parts[j]
  BY <1>3, <1>10
<1>12. PartsFit(kind, Q)
  <2>1. \A j \in DOMAIN parts \ {i} : parts[j].prev # 0 => parts[j].prev \in DOMAIN parts \ {i}
    BY <1>3, <1>9, PrevIs
  <2> QED BY <1>9, <1>10, <2>1, FewerPartsFit
<1>13. PartsFit(kind, parts)'
  BY <1>3, <1>11, <1>12, PartsFitNext
<1>14. PartsNamed(parts)'
  BY <1>9, <1>11 DEF PartsNamed
<1>15. K(kind)!Effective(made.methods)' = K(kind)!Effective(q) /\ K(kind)!Effective(made.methods) = K(kind)!Effective(q)
  BY <1>4, <1>6 DEF K!Effective
<1>16. DescribedFits(kind)'
  BY <1>4, <1>6, <1>11, <1>15 DEF Composed, DescribedFits
<1>17. HoldsFits(kind)'
  <2> SUFFICES ASSUME ~y, e \subseteq DOMAIN Q, ~x
               PROVE  h = K(kind)!Expected' \/ Former(kind)'
    BY <1>6, <1>11 DEF HoldsFits
  <2>1. h = K(kind)!Expected \/ Former(kind)
    BY <1>4, <1>11 DEF Composed, HoldsFits
  <2>2. K(kind)!Expected' = K(kind)!Expected
    BY <1>3, <1>4, <1>6, ExpectedKept
  <2>3. ASSUME Former(kind) PROVE Former(kind)'
    <3>1. q # <<>> /\ e = K(kind)!Effective(q)
      BY <1>4, <1>15 DEF Composed, DescribedFits
    <3>2. e \subseteq DOMAIN parts
      BY <1>11
    <3>3. K(kind)!Upstream(parts, e) = 1 .. Len(q)
      BY <1>9, <3>1, <3>2, UpstreamIs
    <3>4. K(kind)!Upstream(Q, e) = 1 .. Len(q) /\ 1 .. Len(q) \subseteq DOMAIN Q
      BY <1>12, <3>1, UpstreamIs
    <3>5. PICK j \in 1 .. Len(q) : parts[j].prev = 0 /\ parts[j].source # s
      BY <1>4, <2>3, <3>3 DEF Former
    <3>6. Q[j] = parts[j]
      BY <1>11, <3>4
    <3>7. K(kind)!Upstream(parts, made.effective)' = K(kind)!Upstream(Q, e)
      BY <1>6, <1>11 DEF K!Upstream
    <3>8. parts'[j].prev = 0 /\ parts'[j].source # made'.source
      BY <1>6, <1>11, <3>5, <3>6
    <3> QED BY <3>4, <3>7, <3>8 DEF Former
  <2> QED BY <2>1, <2>2, <2>3
<1>18. ~made'.described => made'.dirty
  BY <1>4, <1>6 DEF Composed
<1> QED BY <1>6, <1>7, <1>8, <1>13, <1>14, <1>16, <1>17, <1>18 DEF Composed

\* The parts that a new description leaves are those of its methods.
LEMMA PreparedTrimmedFits ==
  ASSUME NEW kind \in Kinds, NEW P, PartsFit(kind, P), NEW q, q \in Seq(SubMethods), Len(q) <= MaxLength,
         NEW n, n = Len(q), NEW Q, Q = K(kind)!Prepared(P, q), NEW N, N = K(kind)!Trimmed(Q, n)
  PROVE  /\ PartsFit(kind, Q) /\ PartsFit(kind, N) /\ n + 1 \notin DOMAIN N
         /\ \A i \in DOMAIN N \cap 1 .. n : N[i].method = q[i]
<1>1. q \in Seq(SubMethods) /\ Len(q) <= MaxLength /\ n \in Nat
  OBVIOUS
<1>2. PartsFit(kind, Q)
  BY <1>1, PreparedFits
<1>3. MethodsAre(Q, q)
  BY <1>1, PreparedFits
<1>4. PartsFit(kind, N)
  BY <1>1, <1>2, TrimmedFits
<1>5. n + 1 \notin DOMAIN N
  BY <1>1, <1>2, TrimmedFits
<1>6. \A i \in DOMAIN N : N[i] = Q[i]
  BY <1>1, <1>2, TrimmedFits
<1> QED BY <1>2, <1>3, <1>4, <1>5, <1>6 DEF MethodsAre

\* A client reads the composite trace: its description is computed if need be,
\* then the parts, then what it holds.
LEMMA NextPartsFit ==
  ASSUME NEW kind \in Kinds, Composed(kind), NEW N, NEW e, made.methods # <<>>,
         \/ made.described /\ N = parts /\ e = made.effective
         \/ /\ N = K(kind)!Trimmed(K(kind)!Prepared(parts, made.methods), Len(made.methods))
            /\ e = K(kind)!Effective(made.methods)
  PROVE  /\ PartsFit(kind, N) /\ PartsNamed(N) /\ e = K(kind)!Effective(made.methods)
         /\ Len(made.methods) + 1 \notin DOMAIN N
         /\ \A i \in DOMAIN N \cap DOMAIN made.methods : N[i].method = made.methods[i]
<1>1. CASE made.described /\ N = parts /\ e = made.effective
  BY <1>1 DEF Composed, DescribedFits
<1>2. CASE /\ N = K(kind)!Trimmed(K(kind)!Prepared(parts, made.methods), Len(made.methods))
           /\ e = K(kind)!Effective(made.methods)
  <2>1. PICK q : q = made.methods /\ q \in Seq(SubMethods) /\ Len(q) <= MaxLength /\ Len(q) \in Nat /\ DOMAIN q = 1 .. Len(q)
    BY DEF Composed, MadeFits
  <2>2. PICK Q : Q = K(kind)!Prepared(parts, q)
    OBVIOUS
  <2>3. PartsFit(kind, parts) /\ PartsNamed(parts) /\ MadeFits
    BY DEF Composed
  <2>4. PICK P : P = parts
    OBVIOUS
  <2>5. PartsNamed(Q)
    BY <2>1, <2>2, <2>3, PreparedNamed
  <2>6. N = K(kind)!Trimmed(Q, Len(q))
    BY <1>2, <2>1, <2>2
  <2>7. PICK n : n = Len(q)
    OBVIOUS
  <2>8. PartsFit(kind, P)
    BY <2>3, <2>4
  <2>9. Q = K(kind)!Prepared(P, q)
    BY <2>2, <2>4
  <2>10. N = K(kind)!Trimmed(Q, n)
    BY <2>6, <2>7
  <2>11. /\ PartsFit(kind, Q) /\ PartsFit(kind, N) /\ n + 1 \notin DOMAIN N
         /\ \A i \in DOMAIN N \cap 1 .. n : N[i].method = q[i]
    BY <2>1, <2>7, <2>8, <2>9, <2>10, PreparedTrimmedFits
  <2>12. PartsNamed(N)
    BY <2>1, <2>5, <2>6, <2>11, TrimmedNamed
  <2> QED BY <1>2, <2>1, <2>7, <2>11, <2>12
<1> QED BY <1>1, <1>2

LEMMA GetComposed ==
  ASSUME NEW kind \in Kinds, Composed(kind), K(kind)!Get
  PROVE  Composed(kind)'
<1>1. PICK q \in Seq(SubMethods), s \in {"s", "t"}, d, y, r, x \in BOOLEAN :
        \E e, h : IsMade(q, s, d, e, y, h, r, x) /\ Len(q) <= MaxLength
  BY MadeIs DEF Composed
<1>2. PICK e0, h : IsMade(q, s, d, e0, y, h, r, x) /\ Len(q) <= MaxLength
  BY <1>1
<1>3. /\ made.methods = q /\ made.source = s /\ made.described = d /\ made.effective = e0 /\ made.dirty = y
      /\ made.holds = h /\ made.read = r /\ made.missed = x
  BY <1>2, IsMadeFields
<1>4. PICK u \in BOOLEAN : u = (~d /\ q = <<>>)
  OBVIOUS
<1>5. PICK N : N = IF d \/ u THEN parts ELSE K(kind)!Trimmed(K(kind)!Prepared(parts, q), Len(q))
  OBVIOUS
<1>6. PICK e : e = IF d \/ u THEN e0 ELSE K(kind)!Effective(q)
  OBVIOUS
<1>7. PICK f \in BOOLEAN : f = (u \/ ~(e \subseteq DOMAIN N))
  OBVIOUS
<1>8. PICK X : X = K(kind)!Upstream(N, e) /\ X \in SUBSET DOMAIN N
  BY DEF K!Upstream
<1>9. PICK Q : Q = K(kind)!RefreshAll(N, X)
  OBVIOUS
<1>10. PICK g : g = IF y /\ ~f THEN {Q[i].holds : i \in e} ELSE h
  OBVIOUS
<1>11. /\ parts' = Q
       /\ made' = [made EXCEPT !.described = ~u, !.effective = e, !.dirty = @ /\ f, !.read = ~f, !.holds = g]
       /\ versions' = versions
  <2> DEFINE undescribed == ~made.described /\ ~K(kind)!Described(made.methods)
             next == IF made.described \/ undescribed THEN parts
                     ELSE K(kind)!Trimmed(K(kind)!Prepared(parts, made.methods), Len(made.methods))
             effective == IF made.described \/ undescribed THEN made.effective ELSE K(kind)!Effective(made.methods)
             failed == undescribed \/ ~(effective \subseteq DOMAIN next)
             fresh == K(kind)!RefreshAll(next, K(kind)!Upstream(next, effective))
  <2>1. /\ made.effective \subseteq DOMAIN parts
        /\ parts' = fresh
        /\ made' = [made EXCEPT !.described = ~undescribed, !.effective = effective, !.dirty = @ /\ failed, !.read = ~failed,
              !.holds = IF made.dirty /\ ~failed THEN {K(kind)!Holds(fresh, i) : i \in effective} ELSE @]
        /\ versions' = versions
    BY Zenon DEF K!Get
  <2>2. undescribed = u
    BY <1>3, <1>4 DEF K!Described
  <2> HIDE DEF undescribed
  <2>3. next = N /\ effective = e
    BY <1>3, <1>5, <1>6, <2>2
  <2> HIDE DEF next, effective
  <2>4. failed = f /\ fresh = Q
    BY <1>7, <1>8, <1>9, <2>2, <2>3
  <2> HIDE DEF failed, fresh
  <2>5. (IF made.dirty /\ ~failed THEN {K(kind)!Holds(fresh, i) : i \in effective} ELSE made.holds) = g
    BY <1>3, <1>10, <2>3, <2>4 DEF K!Holds
  <2>6. made' = [made EXCEPT !.described = ~undescribed, !.effective = effective, !.dirty = made.dirty /\ failed, !.read = ~failed,
           !.holds = IF made.dirty /\ ~failed THEN {K(kind)!Holds(fresh, i) : i \in effective} ELSE made.holds]
    BY <1>2, <2>1 DEF IsMade
  <2> QED BY <2>1, <2>2, <2>3, <2>4, <2>5, <2>6
<1>12. made' = [methods |-> q, source |-> s, described |-> ~u, effective |-> e, dirty |-> y /\ f, holds |-> g,
                read |-> ~f, missed |-> x]
  BY <1>2, <1>3, <1>11 DEF IsMade
<1>13. /\ made'.methods = q /\ made'.source = s /\ made'.described = ~u /\ made'.effective = e /\ made'.dirty = (y /\ f)
       /\ made'.holds = g /\ made'.read = ~f /\ made'.missed = x
  BY <1>12
<1>14. MadeFits'
  BY <1>2, <1>12, <1>13 DEF MadeFits
<1>15. VersionsFit'
  BY <1>11 DEF Composed, VersionsFit
<1>16. ~d => y
  BY <1>3 DEF Composed
<1>17. q # <<>> => /\ PartsFit(kind, N) /\ PartsNamed(N) /\ e = K(kind)!Effective(q)
                   /\ Len(q) + 1 \notin DOMAIN N
                   /\ \A i \in DOMAIN N \cap DOMAIN q : N[i].method = q[i]
  <2> SUFFICES ASSUME q # <<>>
               PROVE  /\ PartsFit(kind, N) /\ PartsNamed(N) /\ e = K(kind)!Effective(q)
                      /\ Len(q) + 1 \notin DOMAIN N
                      /\ \A i \in DOMAIN N \cap DOMAIN q : N[i].method = q[i]
    OBVIOUS
  <2>1. \/ made.described /\ N = parts /\ e = made.effective
        \/ /\ N = K(kind)!Trimmed(K(kind)!Prepared(parts, made.methods), Len(made.methods))
           /\ e = K(kind)!Effective(made.methods)
    BY <1>3, <1>4, <1>5, <1>6
  <2>2. made.methods # <<>>
    BY <1>3
  <2> QED BY <1>3, <2>1, <2>2, NextPartsFit
<1>18. ~u => q # <<>>
  BY <1>3, <1>4 DEF Composed, DescribedFits
<1>19. PartsFit(kind, N) /\ PartsNamed(N)
  <2>1. CASE q # <<>>
    BY <1>17, <2>1
  <2>2. CASE q = <<>>
    BY <1>5, <1>18, <2>2 DEF Composed
  <2> QED BY <2>1, <2>2
<1>20. PartsFit(kind, Q) /\ SameParts(N, Q) /\ \A i \in X : ~Q[i].dirty
  BY <1>8, <1>9, <1>19, RefreshAllFits
<1>21. PartsFit(kind, parts)'
  BY <1>11, <1>20, PartsFitNext
<1>22. PartsNamed(parts)'
  <2>1. PartsNamed(Q)
    BY <1>19, <1>20, SamePartsNamed
  <2> QED BY <1>11, <2>1 DEF PartsNamed
<1>23. DOMAIN Q = DOMAIN N /\ \A i \in DOMAIN N : Q[i].method = N[i].method /\ Q[i].prev = N[i].prev /\ Q[i].source = N[i].source
  BY <1>20 DEF SameParts
<1>24. K(kind)!Effective(made.methods)' = K(kind)!Effective(q)
  BY <1>13 DEF K!Effective
<1>25. DescribedFits(kind)'
  BY <1>11, <1>13, <1>17, <1>18, <1>23, <1>24 DEF DescribedFits
<1>26. made'.read => made'.described /\ ~made'.dirty /\ made'.effective \subseteq DOMAIN parts'
  BY <1>7, <1>11, <1>13, <1>23
<1>27. ~made'.described => made'.dirty
  BY <1>4, <1>7, <1>13, <1>16
<1>28. HoldsFits(kind)'
  <2> SUFFICES ASSUME ~(y /\ f), e \subseteq DOMAIN Q, ~x
               PROVE  g = K(kind)!Expected' \/ Former(kind)'
    BY <1>11, <1>13 DEF HoldsFits
  <2>1. K(kind)!Expected' = K(kind)!Expected
    BY <1>3, <1>11, <1>13, ExpectedKept
  <2>2. CASE ~y
    <3>1. d /\ N = parts /\ e = e0 /\ g = h
      BY <1>5, <1>6, <1>10, <1>16, <2>2
    <3>2. h = K(kind)!Expected \/ Former(kind)
      BY <1>3, <1>23, <2>2, <3>1 DEF Composed, HoldsFits
    <3>3. SameParts(parts, parts') /\ made'.effective = made.effective /\ made'.source = made.source
      BY <1>3, <1>11, <1>13, <1>20, <3>1
    <3>4. Former(kind)' <=> Former(kind)
      BY <3>3, FormerKept
    <3> QED BY <2>1, <3>1, <3>2, <3>4
  <2>3. CASE y
    <3>1. ~f /\ ~u /\ q # <<>> /\ g = {Q[i].holds : i \in e}
      BY <1>7, <1>10, <1>18, <2>3
    <3>2. e = K(kind)!Effective(q)
      BY <1>17, <3>1
    <3>3. X = 1 .. Len(q) /\ 1 .. Len(q) \subseteq DOMAIN N
      BY <1>8, <1>19, <1>23, <3>1, <3>2, UpstreamIs
    <3>4. K(kind)!Upstream(Q, e) = 1 .. Len(q)
      BY <1>20, <3>1, <3>2, UpstreamIs
    <3>5. ASSUME NEW i \in 1 .. Len(q) PROVE ~Q[i].dirty /\ Q[i].method = q[i]
      BY <1>17, <1>20, <1>23, <3>1, <3>3
    <3>6. CASE \A i \in 1 .. Len(q) : Q[i].prev = 0 => Q[i].source = s
      <4>1. MadeFits
        BY DEF Composed
      <4>2. /\ made.methods # <<>> /\ 1 .. Len(made.methods) \subseteq DOMAIN Q
            /\ \A i \in 1 .. Len(made.methods) : /\ ~Q[i].dirty /\ Q[i].method = made.methods[i]
                                                 /\ Q[i].prev = 0 => Q[i].source = made.source
        BY <1>3, <1>23, <3>1, <3>3, <3>5, <3>6
      <4>3. {Q[i].holds : i \in K(kind)!Effective(made.methods)} = K(kind)!Expected
        BY <1>20, <4>1, <4>2, CleanIsExpected
      <4> QED BY <1>3, <2>1, <3>1, <3>2, <4>3
    <3>7. CASE \E i \in 1 .. Len(q) : Q[i].prev = 0 /\ Q[i].source # s
      <4>1. K(kind)!Upstream(parts, made.effective)' = K(kind)!Upstream(Q, e)
        BY <1>11, <1>13 DEF K!Upstream
      <4> QED BY <1>11, <1>13, <3>4, <3>7, <4>1 DEF Former
    <3> QED BY <3>6, <3>7
  <2> QED BY <2>2, <2>3
<1> QED BY <1>14, <1>15, <1>21, <1>22, <1>25, <1>26, <1>27, <1>28 DEF Composed

\* A client can not read it: some of the parts may be computed.
LEMMA GetFailsComposed ==
  ASSUME NEW kind \in Kinds, Composed(kind), K(kind)!GetFails
  PROVE  Composed(kind)'
<1>1. PICK q \in Seq(SubMethods), s \in {"s", "t"}, d, y, r, x \in BOOLEAN :
        \E e, h : IsMade(q, s, d, e, y, h, r, x) /\ Len(q) <= MaxLength
  BY MadeIs DEF Composed
<1>2. PICK e, h : IsMade(q, s, d, e, y, h, r, x) /\ Len(q) <= MaxLength
  BY <1>1
<1>3. PICK due : parts' = K(kind)!RefreshAll(parts, K(kind)!Upstream(parts, due))
  BY Zenon DEF K!GetFails
<1>4. made' = [made EXCEPT !.read = FALSE] /\ versions' = versions
  BY Zenon DEF K!GetFails
<1>5. made' = [methods |-> q, source |-> s, described |-> d, effective |-> e, dirty |-> y, holds |-> h,
               read |-> FALSE, missed |-> x]
  BY <1>2, <1>4 DEF IsMade
<1>6. /\ made'.methods = q /\ made'.source = s /\ made'.described = d /\ made'.effective = e /\ made'.dirty = y
      /\ made'.holds = h /\ made'.read = FALSE /\ made'.missed = x
  BY <1>5
<1>7. /\ made.methods = q /\ made.source = s /\ made.described = d /\ made.effective = e /\ made.dirty = y
      /\ made.holds = h /\ made.read = r /\ made.missed = x
  BY <1>2, IsMadeFields
<1>8. MadeFits'
  BY <1>2, <1>5, <1>6 DEF MadeFits
<1>9. VersionsFit'
  BY <1>4 DEF Composed, VersionsFit
<1>10. PICK X : X = K(kind)!Upstream(parts, due) /\ X \in SUBSET DOMAIN parts
  BY DEF K!Upstream
<1>11. PICK Q : Q = K(kind)!RefreshAll(parts, X)
  OBVIOUS
<1>12. parts' = Q
  BY <1>3, <1>10, <1>11
<1>13. PartsFit(kind, parts)
  BY DEF Composed
<1>14. PartsFit(kind, Q) /\ SameParts(parts, Q)
  BY <1>10, <1>11, <1>13, RefreshAllFits
<1>15. PartsFit(kind, parts)'
  BY <1>4, <1>12, <1>14, PartsFitNext
<1>16. SameParts(parts, parts')
  BY <1>12, <1>14
<1> QED BY <1>4, <1>6, <1>7, <1>8, <1>9, <1>15, <1>16, SameComposed

\* What composite traces hold, and that it is what a client should read.
LEMMA StepComposed ==
  ASSUME NEW kind \in Kinds, Composed(kind), K(kind)!Next
  PROVE  Composed(kind)'
<1>1. CASE K(kind)!Get \/ K(kind)!GetFails
  BY <1>1, GetComposed, GetFailsComposed
<1>2. CASE \E w \in K(kind)!MethodLists : K(kind)!SetMethods(w)
  <2>1. PICK w \in K(kind)!MethodLists : K(kind)!SetMethods(w)
    BY <1>2
  <2> QED BY <2>1, SetMethodsComposed
<1>3. CASE \E w \in {"s", "t"} : K(kind)!SetSource(w) \/ K(kind)!Post(w)
  <2>1. PICK w \in {"s", "t"} : K(kind)!SetSource(w) \/ K(kind)!Post(w)
    BY <1>3
  <2> QED BY <2>1, SetSourceComposed, PostComposed
<1>4. CASE \E w \in SubMethods : K(kind)!EditMethod(w)
  <2>1. PICK w \in SubMethods : K(kind)!EditMethod(w)
    BY <1>4
  <2> QED BY <2>1, EditMethodComposed
<1>5. CASE \E i \in DOMAIN parts : K(kind)!GetPart(i) \/ K(kind)!DeletePart(i)
  <2>1. PICK i \in DOMAIN parts : K(kind)!GetPart(i) \/ K(kind)!DeletePart(i)
    BY <1>5
  <2> QED BY <2>1, GetPartComposed, DeletePartComposed
<1> QED BY <1>1, <1>2, <1>3, <1>4, <1>5 DEF K!Next, K!Sources

LEMMA ComposedIsUpToDate ==
  ASSUME NEW kind \in Kinds, Composed(kind)
  PROVE  K(kind)!CompositeUpToDate
<1> SUFFICES ASSUME made.read
             PROVE  /\ made.holds = K(kind)!Expected \/ made.missed \/ K(kind)!FormerSource
                    /\ DOMAIN parts = DOMAIN made.methods \/ K(kind)!Gap
  BY DEF K!CompositeUpToDate
<1>1. made.described /\ ~made.dirty /\ made.effective \subseteq DOMAIN parts /\ PartsFit(kind, parts)
  BY DEF Composed
<1>2. made.holds = K(kind)!Expected \/ made.missed \/ Former(kind)
  BY <1>1 DEF Composed, HoldsFits
<1>3. Former(kind) => K(kind)!FormerSource
  <2>1. K(kind)!Upstream(parts, made.effective) \subseteq DOMAIN parts
    BY DEF K!Upstream
  <2> QED BY <2>1 DEF Former, K!FormerSource, K!Declared
<1>4. DOMAIN parts = DOMAIN made.methods \/ K(kind)!Gap
  <2>1. PICK q : q = made.methods /\ q \in Seq(SubMethods) /\ Len(q) \in Nat /\ DOMAIN q = 1 .. Len(q)
    BY DEF Composed, MadeFits
  <2>2. q # <<>> /\ made.effective = K(kind)!Effective(q) /\ Len(q) + 1 \notin DOMAIN parts
    BY <1>1, <2>1 DEF Composed, DescribedFits
  <2>3. 1 .. Len(q) \subseteq DOMAIN parts
    BY <1>1, <2>1, <2>2, UpstreamIs
  <2>4. DOMAIN parts \subseteq Nat
    BY <1>1, BoundIs DEF PartsFit
  <2>5. ASSUME ~K(kind)!Gap, NEW i \in DOMAIN parts PROVE i \in 1 .. Len(q)
    <3>1. \A j \in 1 .. i : j \in DOMAIN parts
      BY <2>5 DEF K!Gap
    <3>2. i \in 1 .. MaxLength
      BY <1>1 DEF PartsFit
    <3> QED BY <2>1, <2>2, <2>4, <3>1, <3>2, BoundIs
  <2> QED BY <2>1, <2>3, <2>5
<1> QED BY <1>2, <1>3, <1>4

\* What a client reads from a pipe or from a parallel trace is what its methods, as
\* they are, make of its source, as it is, unless it missed an edit of a method, or
\* an intermediate trace has a former source; and there are no more intermediate
\* traces than methods, unless one is missing (methods/pipe.py, parallel.py):
\* whatever was read, edited, posted or deleted before.
THEOREM CompositesCorrect == LibrarySpec => []CompositesUpToDate
<1> DEFINE Inv == (part = "pipe" => Composed("pipe")) /\ (part = "parallel" => Composed("parallel"))
<1>1. LibraryInit => Inv
  <2>1. part \in DOMAIN Functions => part # "pipe" /\ part # "parallel"
    BY DEF Functions
  <2> QED BY <2>1, InitComposed DEF LibraryInit, Kinds
<1>2. Inv /\ [LibraryNext]_vars => Inv'
  <2> SUFFICES ASSUME Inv, [LibraryNext]_vars PROVE Inv'
    OBVIOUS
  <2>1. CASE part = "pipe" /\ K("pipe")!Next /\ part' = part
    <3>1. Composed("pipe")'
      BY <2>1, StepComposed DEF Kinds
    <3> QED BY <2>1, <3>1
  <2>2. CASE part = "parallel" /\ K("parallel")!Next /\ part' = part
    <3>1. Composed("parallel")'
      BY <2>2, StepComposed DEF Kinds
    <3> QED BY <2>2, <3>1
  <2>3. CASE UNCHANGED <<made, parts, versions, part>>
    <3>1. \A kind \in Kinds : Composed(kind) => Composed(kind)'
      <4> SUFFICES ASSUME NEW kind \in Kinds, Composed(kind) PROVE Composed(kind)'
        OBVIOUS
      <4>1. PartsFit(kind, parts)' /\ SameParts(parts, parts')
        BY <2>3, PartsFitNext DEF Composed, SameParts
      <4>2. MadeFits' /\ VersionsFit'
        BY <2>3 DEF Composed, MadeFits, VersionsFit
      <4>3. made.read => ~made.dirty
        BY DEF Composed
      <4> QED BY <2>3, <4>1, <4>2, <4>3, SameComposed
    <3> QED BY <2>3, <3>1 DEF Kinds
  <2> QED BY <2>1, <2>2, <2>3 DEF LibraryNext, vars
<1>3. Inv => CompositesUpToDate
  BY ComposedIsUpToDate DEF CompositesUpToDate, Kinds
<1> QED BY <1>1, <1>2, <1>3, PTL DEF LibrarySpec
----------------------------------------------------------------------------
(* Slices: the order of obsels *)

LEMMA SlicesCardinality == \A X : S!Cardinality(X) = Cardinality(X)
BY DEF S!Cardinality, Cardinality

\* Obsels, whose URIs are numbers, with their intervals.
Collected(f) ==
  DOMAIN f \subseteq Nat /\ IsFiniteSet(DOMAIN f) /\ \A o \in DOMAIN f : f[o].b \in Nat /\ f[o].e \in Nat

\* Obsels are in a total order.
LEMMA OrderOfObsels ==
  ASSUME NEW f, Collected(f)
  PROVE  /\ \A o, p \in DOMAIN f : S!Precedes(f, o, p) => ~S!Precedes(f, p, o)
         /\ \A o, p, q \in DOMAIN f : S!Precedes(f, o, p) /\ S!Precedes(f, p, q) => S!Precedes(f, o, q)
         /\ \A o, p \in DOMAIN f : S!Precedes(f, o, p) \/ S!Precedes(f, p, o) \/ o = p
<1>1. \A o \in DOMAIN f : o \in Nat /\ f[o].b \in Nat /\ f[o].e \in Nat
  BY DEF Collected
<1>2. ASSUME NEW o \in DOMAIN f, NEW p \in DOMAIN f
      PROVE  /\ S!Precedes(f, o, p) => ~S!Precedes(f, p, o)
             /\ S!Precedes(f, o, p) \/ S!Precedes(f, p, o) \/ o = p
  BY <1>1 DEF S!Precedes
<1>3. ASSUME NEW o \in DOMAIN f, NEW p \in DOMAIN f, NEW q \in DOMAIN f, S!Precedes(f, o, p), S!Precedes(f, p, q)
      PROVE  S!Precedes(f, o, q)
  BY <1>1, <1>3 DEF S!Precedes
<1> QED BY <1>2, <1>3

\* The last of some obsels.
LastAmong(f, X, m) == m \in X /\ \A o \in X \ {m} : S!Precedes(f, o, m)

LEMMA ThereIsALast ==
  ASSUME NEW f, Collected(f), NEW X \in SUBSET DOMAIN f, X # {}
  PROVE  \E m : LastAmong(f, X, m)
<1>1. PICK P : P = {k \in Nat : \A Y \in SUBSET DOMAIN f : Cardinality(Y) = k /\ Y # {} => \E m : LastAmong(f, Y, m)}
  OBVIOUS
<1>2. \A Y \in SUBSET DOMAIN f : IsFiniteSet(Y)
  BY FS_Subset DEF Collected
<1>3. 0 \in P
  BY <1>1, <1>2, FS_EmptySet
<1>4. ASSUME NEW k \in P PROVE k + 1 \in P
  <2>1. k \in Nat
    BY <1>1
  <2>2. SUFFICES ASSUME NEW Y \in SUBSET DOMAIN f, Cardinality(Y) = k + 1, Y # {}
                 PROVE  \E m : LastAmong(f, Y, m)
    BY <1>1, <2>1
  <2>3. PICK x : x \in Y
    BY <2>2
  <2>4. Cardinality(Y \ {x}) = k
    <3>1. IsFiniteSet(Y)
      BY <1>2, <2>2
    <3>2. Cardinality(Y \ {x}) = Cardinality(Y) - 1
      BY <2>3, <3>1, FS_RemoveElement
    <3> QED BY <2>1, <2>2, <3>2
  <2>5. CASE Y \ {x} = {}
    BY <2>3, <2>5 DEF LastAmong
  <2>6. CASE Y \ {x} # {}
    <3>1. PICK m : LastAmong(f, Y \ {x}, m)
      BY <1>1, <2>2, <2>4, <2>6
    <3>2. m \in Y \ {x} /\ \A o \in (Y \ {x}) \ {m} : S!Precedes(f, o, m)
      BY <3>1 DEF LastAmong
    <3>3. x \in DOMAIN f /\ m \in DOMAIN f /\ x # m /\ \A o \in Y : o \in DOMAIN f
      BY <2>2, <2>3, <3>2
    <3>4. S!Precedes(f, x, m) \/ S!Precedes(f, m, x)
      BY <3>3, OrderOfObsels
    <3>5. CASE S!Precedes(f, x, m)
      <4>1. \A o \in Y \ {m} : S!Precedes(f, o, m)
        BY <3>2, <3>5
      <4> QED BY <3>2, <4>1 DEF LastAmong
    <3>6. CASE S!Precedes(f, m, x)
      <4>1. \A o \in Y \ {x} : S!Precedes(f, o, x)
        BY <3>2, <3>3, <3>6, OrderOfObsels
      <4> QED BY <2>3, <4>1 DEF LastAmong
    <3> QED BY <3>4, <3>5, <3>6
  <2> QED BY <2>5, <2>6
<1>5. P \in SUBSET Nat
  BY <1>1
<1>6. Cardinality(X) \in P
  BY <1>2, <1>3, <1>4, <1>5, FS_CardinalityType, Induction
<1> QED BY <1>1, <1>6

\* Obsels in order.
InOrder(f, q, n) == \A i, j \in 1 .. n : i < j => S!Precedes(f, q[i], q[j])
ListsInOrder(f, X, q) == q \in [1 .. Cardinality(X) -> X] /\ InOrder(f, q, Cardinality(X))

LEMMA ThereIsAList ==
  ASSUME NEW f, Collected(f), NEW X \in SUBSET DOMAIN f
  PROVE  \E q : ListsInOrder(f, X, q)
<1>1. PICK P : P = {k \in Nat : \A Y \in SUBSET DOMAIN f : Cardinality(Y) = k => \E q : ListsInOrder(f, Y, q)}
  OBVIOUS
<1>2. \A Y \in SUBSET DOMAIN f : IsFiniteSet(Y)
  BY FS_Subset DEF Collected
<1>3. 0 \in P
  <2>1. SUFFICES ASSUME NEW Y \in SUBSET DOMAIN f, Cardinality(Y) = 0
                 PROVE  \E q : ListsInOrder(f, Y, q)
    BY <1>1
  <2>2. PICK q : q = [i \in 1 .. 0 |-> i]
    OBVIOUS
  <2>3. q \in [1 .. 0 -> Y] /\ InOrder(f, q, 0)
    BY <2>2 DEF InOrder
  <2> QED BY <2>1, <2>3 DEF ListsInOrder
<1>4. ASSUME NEW k \in P PROVE k + 1 \in P
  <2>1. k \in Nat
    BY <1>1
  <2>2. SUFFICES ASSUME NEW Y \in SUBSET DOMAIN f, Cardinality(Y) = k + 1
                 PROVE  \E q : ListsInOrder(f, Y, q)
    BY <1>1, <2>1
  <2>3. Y # {}
    BY <2>1, <2>2, FS_EmptySet
  <2>4. PICK m : LastAmong(f, Y, m)
    BY <2>2, <2>3, ThereIsALast
  <2>5. m \in Y /\ \A o \in Y \ {m} : S!Precedes(f, o, m)
    BY <2>4 DEF LastAmong
  <2>6. Cardinality(Y \ {m}) = k
    <3>1. IsFiniteSet(Y)
      BY <1>2, <2>2
    <3>2. Cardinality(Y \ {m}) = Cardinality(Y) - 1
      BY <2>5, <3>1, FS_RemoveElement
    <3> QED BY <2>1, <2>2, <3>2
  <2>7. PICK q : ListsInOrder(f, Y \ {m}, q)
    BY <1>1, <2>2, <2>6
  <2>8. q \in [1 .. k -> Y \ {m}] /\ \A i, j \in 1 .. k : i < j => S!Precedes(f, q[i], q[j])
    BY <2>6, <2>7 DEF ListsInOrder, InOrder
  <2>9. PICK r : r = [i \in 1 .. k + 1 |-> IF i = k + 1 THEN m ELSE q[i]]
    OBVIOUS
  <2>10. r[k + 1] = m /\ \A i \in 1 .. k : r[i] = q[i] /\ q[i] \in Y \ {m}
    BY <2>1, <2>8, <2>9
  <2>11. r \in [1 .. k + 1 -> Y]
    <3>1. \A i \in 1 .. k + 1 : i = k + 1 \/ i \in 1 .. k
      BY <2>1
    <3> QED BY <2>5, <2>9, <2>10, <3>1
  <2>12. ASSUME NEW i \in 1 .. k + 1, NEW j \in 1 .. k + 1, i < j PROVE S!Precedes(f, r[i], r[j])
    <3>1. i \in 1 .. k /\ (j = k + 1 \/ j \in 1 .. k)
      BY <2>1, <2>12
    <3>2. CASE j = k + 1
      BY <2>5, <2>10, <3>1, <3>2
    <3>3. CASE j \in 1 .. k
      BY <2>8, <2>10, <2>12, <3>1, <3>3
    <3> QED BY <3>1, <3>2, <3>3
  <2> QED BY <2>2, <2>11, <2>12 DEF ListsInOrder, InOrder
<1>5. P \in SUBSET Nat
  BY <1>1
<1>6. Cardinality(X) \in P
  BY <1>2, <1>3, <1>4, <1>5, FS_CardinalityType, Induction
<1> QED BY <1>1, <1>6

\* A list has each of the obsels.
LEMMA ListHasAll ==
  ASSUME NEW f, Collected(f), NEW X \in SUBSET DOMAIN f, NEW q, ListsInOrder(f, X, q), NEW x \in X
  PROVE  \E i \in 1 .. Cardinality(X) : q[i] = x
<1>1. IsFiniteSet(X) /\ Cardinality(X) \in Nat
  BY FS_Subset, FS_CardinalityType DEF Collected
<1>2. q \in [1 .. Cardinality(X) -> X] /\ \A i, j \in 1 .. Cardinality(X) : i < j => S!Precedes(f, q[i], q[j])
  BY DEF ListsInOrder, InOrder
<1>3. ASSUME NEW i \in 1 .. Cardinality(X), NEW j \in 1 .. Cardinality(X), q[i] = q[j] PROVE i = j
  <2>1. q[i] \in DOMAIN f /\ q[j] \in DOMAIN f
    BY <1>2
  <2>2. ~S!Precedes(f, q[i], q[j]) /\ ~S!Precedes(f, q[j], q[i])
    BY <1>3, <2>1, OrderOfObsels
  <2>3. i \in Int /\ j \in Int
    OBVIOUS
  <2> QED BY <1>2, <2>2, <2>3
<1>4. q \in Injection(1 .. Cardinality(X), X)
  BY <1>2, <1>3 DEF Injection, IsInjective
<1>5. Cardinality(1 .. Cardinality(X)) = Cardinality(X)
  <2>1. 1 \in Int /\ Cardinality(X) \in Int
    BY <1>1
  <2> QED BY <1>1, <2>1, FS_Interval
<1>6. q \in Surjection(1 .. Cardinality(X), X)
  BY <1>1, <1>4, <1>5, FS_Injection
<1> QED BY <1>6 DEF Surjection

\* There is one list of some obsels.
LEMMA OneList ==
  ASSUME NEW f, Collected(f), NEW X \in SUBSET DOMAIN f, NEW q, ListsInOrder(f, X, q), NEW r, ListsInOrder(f, X, r)
  PROVE  q = r
<1>0. IsFiniteSet(X) /\ Cardinality(X) \in Nat
  BY FS_Subset, FS_CardinalityType DEF Collected
<1>1. PICK n : n = Cardinality(X) /\ n \in Nat
  BY <1>0
<1>2. q \in [1 .. n -> X] /\ r \in [1 .. n -> X]
  BY <1>1 DEF ListsInOrder
<1>3. \A i, j \in 1 .. n : i < j => S!Precedes(f, q[i], q[j]) /\ S!Precedes(f, r[i], r[j])
  BY <1>1 DEF ListsInOrder, InOrder
<1>4. \A x \in X : (\E i \in 1 .. n : q[i] = x) /\ (\E i \in 1 .. n : r[i] = x)
  BY <1>1, ListHasAll
<1>5. \A i \in 1 .. n : q[i] \in DOMAIN f /\ r[i] \in DOMAIN f
  BY <1>2
<1>6. \A i, j \in 1 .. n : q[i] = q[j] \/ r[i] = r[j] => i = j
  <2> SUFFICES ASSUME NEW i \in 1 .. n, NEW j \in 1 .. n, q[i] = q[j] \/ r[i] = r[j], i < j
               PROVE  FALSE
    BY <1>1
  <2>1. S!Precedes(f, q[i], q[j]) /\ S!Precedes(f, r[i], r[j])
    BY <1>3
  <2> QED BY <1>5, <2>1, OrderOfObsels
<1>7. PICK P : P = {k \in Nat : \A i \in 1 .. n : i <= k => q[i] = r[i]}
  OBVIOUS
<1>8. 0 \in P
  BY <1>7
<1>9. ASSUME NEW k \in P PROVE k + 1 \in P
  <2>1. k \in Nat /\ \A i \in 1 .. n : i <= k => q[i] = r[i]
    BY <1>7
  <2>2. SUFFICES ASSUME k + 1 \in 1 .. n, q[k + 1] # r[k + 1] PROVE FALSE
    <3>1. \A i \in 1 .. n : i <= k + 1 => i <= k \/ i = k + 1
      BY <2>1
    <3> QED BY <1>7, <2>1, <3>1
  <2>3. PICK j \in 1 .. n : r[j] = q[k + 1]
    BY <1>2, <1>4, <2>2
  <2>4. k + 1 < j
    <3>1. ~(j <= k)
      BY <1>6, <2>1, <2>2, <2>3
    <3>2. j # k + 1
      BY <2>2, <2>3
    <3> QED BY <2>1, <3>1, <3>2
  <2>5. PICK i \in 1 .. n : q[i] = r[k + 1]
    BY <1>2, <1>4, <2>2
  <2>6. k + 1 < i
    <3>1. ~(i <= k)
      BY <1>6, <2>1, <2>2, <2>5
    <3>2. i # k + 1
      BY <2>2, <2>5
    <3> QED BY <2>1, <3>1, <3>2
  <2>7. S!Precedes(f, r[k + 1], q[k + 1]) /\ S!Precedes(f, q[k + 1], r[k + 1])
    BY <1>3, <2>2, <2>3, <2>4, <2>5, <2>6
  <2> QED BY <1>5, <2>2, <2>7, OrderOfObsels
<1>10. P \in SUBSET Nat
  BY <1>7
<1>11. n \in P
  BY <1>1, <1>8, <1>9, <1>10, Induction
<1> QED BY <1>2, <1>7, <1>11

\* What is sorted is this list.
LEMMA SortedIs ==
  ASSUME NEW f, Collected(f), NEW X \in SUBSET DOMAIN f, NEW q, ListsInOrder(f, X, q)
  PROVE  S!Sorted(f, X) = q
<1>1. \A r : r \in [1 .. Cardinality(X) -> X] /\ (\A i, j \in DOMAIN r : i < j => S!Precedes(f, r[i], r[j])) <=> ListsInOrder(f, X, r)
  BY DEF ListsInOrder, InOrder
<1>2. S!Sorted(f, X) = CHOOSE r \in [1 .. Cardinality(X) -> X] : \A i, j \in DOMAIN r : i < j => S!Precedes(f, r[i], r[j])
  BY SlicesCardinality DEF S!Sorted
<1>3. PICK s : s = CHOOSE r \in [1 .. Cardinality(X) -> X] : \A i, j \in DOMAIN r : i < j => S!Precedes(f, r[i], r[j])
  OBVIOUS
<1>4. s \in [1 .. Cardinality(X) -> X] /\ \A i, j \in DOMAIN s : i < j => S!Precedes(f, s[i], s[j])
  BY <1>1, <1>3
<1>5. ListsInOrder(f, X, s)
  BY <1>1, <1>4
<1> QED BY <1>2, <1>3, <1>5, OneList
----------------------------------------------------------------------------
(* Slices: what is selected, and what is listed of it *)

\* At most one value is given for each parameter.
GivenOnce(P) == P = {} \/ \E x \in Nat : P = {x}
Parameters(p) ==
  /\ GivenOnce(p.minb) /\ GivenOnce(p.maxb) /\ GivenOnce(p.mine) /\ GivenOnce(p.maxe)
  /\ GivenOnce(p.after) /\ GivenOnce(p.before) /\ GivenOnce(p.limit) /\ GivenOnce(p.offset)

LEMMA JoinedOne ==
  ASSUME NEW first \in BOOLEAN, NEW c1 \in BOOLEAN, NEW c2 \in BOOLEAN, NEW c3 \in BOOLEAN
  PROVE  S!Joined(first, <<c1, c2, c3>>, <<>>) = <<first /\ c1, c2, c3>>
<1>1. <<c1, c2, c3>> # <<>> /\ <<>> = <<>>
  OBVIOUS
<1>2. S!Joined(first, <<c1, c2, c3>>, <<>>) = [<<c1, c2, c3>> EXCEPT ![1] = first /\ <<c1, c2, c3>>[1]]
  BY <1>1 DEF S!Joined
<1> QED BY <1>2

LEMMA JoinedOther ==
  ASSUME NEW first \in BOOLEAN, NEW c1 \in BOOLEAN, NEW c2 \in BOOLEAN, NEW c3 \in BOOLEAN
  PROVE  S!Joined(first, <<>>, <<c1, c2, c3>>) = <<first /\ c1, c2, c3>>
<1>1. <<c1, c2, c3>> # <<>> /\ <<>> = <<>>
  OBVIOUS
<1>2. S!Joined(first, <<>>, <<c1, c2, c3>>) = [<<c1, c2, c3>> EXCEPT ![1] = first /\ <<c1, c2, c3>>[1]]
  BY <1>1 DEF S!Joined
<1> QED BY <1>2

LEMMA OneOfThree ==
  ASSUME NEW c1 \in BOOLEAN, NEW c2 \in BOOLEAN, NEW c3 \in BOOLEAN
  PROVE  (\E k \in DOMAIN <<c1, c2, c3>> : <<c1, c2, c3>>[k]) <=> c1 \/ c2 \/ c3
<1>1. DOMAIN <<c1, c2, c3>> = {1, 2, 3}
  OBVIOUS
<1>2. <<c1, c2, c3>>[1] = c1 /\ <<c1, c2, c3>>[2] = c2 /\ <<c1, c2, c3>>[3] = c3
  OBVIOUS
<1> QED BY <1>1, <1>2

Bounded(f, p, o) == (\A m \in p.maxb : f[o].b <= m) /\ (\A m \in p.mine : f[o].e >= m)
InTheInterval(f, p, o) == (\A m \in p.minb : f[o].b >= m) /\ (\A m \in p.maxe : f[o].e <= m)

LEMMA SelectedAll ==
  ASSUME NEW f, NEW p, p.after = {}, p.before = {}, NEW o
  PROVE  o \in S!Selected(f, p) <=> o \in DOMAIN f /\ Bounded(f, p, o) /\ InTheInterval(f, p, o)
<1>1. S!AfterCases(f, p, o) = <<>> /\ S!BeforeCases(f, p, o) = <<>>
  BY DEF S!AfterCases, S!BeforeCases
<1>2. S!Joined(InTheInterval(f, p, o), <<>>, <<>>) = <<InTheInterval(f, p, o)>>
  BY DEF S!Joined
<1>3. (\E k \in DOMAIN <<InTheInterval(f, p, o)>> : <<InTheInterval(f, p, o)>>[k]) <=> InTheInterval(f, p, o)
  <2>1. DOMAIN <<InTheInterval(f, p, o)>> = {1} /\ <<InTheInterval(f, p, o)>>[1] = InTheInterval(f, p, o)
    OBVIOUS
  <2> QED BY <2>1
<1> QED BY <1>1, <1>2, <1>3 DEF S!Selected, Bounded, InTheInterval

LEMMA SelectedAfter ==
  ASSUME NEW f, NEW p, NEW a, p.after = {a}, p.before = {}, NEW o
  PROVE  o \in S!Selected(f, p) <=>
           /\ o \in DOMAIN f /\ Bounded(f, p, o)
           /\ \/ InTheInterval(f, p, o) /\ f[o].e > f[a].e
              \/ f[o].e = f[a].e /\ f[o].b > f[a].b
              \/ f[o].e = f[a].e /\ f[o].b = f[a].b /\ o > a
<1> DEFINE c1 == f[o].e > f[a].e
           c2 == f[o].e = f[a].e /\ f[o].b > f[a].b
           c3 == f[o].e = f[a].e /\ f[o].b = f[a].b /\ o > a
<1>1. S!AfterCases(f, p, o) = <<c1, c2, c3>> /\ S!BeforeCases(f, p, o) = <<>>
  <2>1. (CHOOSE x \in {a} : TRUE) = a
    OBVIOUS
  <2> QED BY <2>1 DEF S!AfterCases, S!BeforeCases
<1>2. c1 \in BOOLEAN /\ c2 \in BOOLEAN /\ c3 \in BOOLEAN /\ InTheInterval(f, p, o) \in BOOLEAN
  BY DEF InTheInterval
<1>3. o \in S!Selected(f, p) <=>
        /\ o \in DOMAIN f /\ Bounded(f, p, o)
        /\ \E k \in DOMAIN S!Joined(InTheInterval(f, p, o), <<c1, c2, c3>>, <<>>) : S!Joined(InTheInterval(f, p, o), <<c1, c2, c3>>, <<>>)[k]
  <2> HIDE DEF c1, c2, c3
  <2> QED BY <1>1 DEF S!Selected, Bounded, InTheInterval
<1>4. o \in S!Selected(f, p) <=> o \in DOMAIN f /\ Bounded(f, p, o) /\ ((InTheInterval(f, p, o) /\ c1) \/ c2 \/ c3)
  <2> HIDE DEF c1, c2, c3
  <2>1. S!Joined(InTheInterval(f, p, o), <<c1, c2, c3>>, <<>>) = <<InTheInterval(f, p, o) /\ c1, c2, c3>>
    BY <1>2, JoinedOne
  <2>2. (\E k \in DOMAIN <<InTheInterval(f, p, o) /\ c1, c2, c3>> : <<InTheInterval(f, p, o) /\ c1, c2, c3>>[k]) <=> (InTheInterval(f, p, o) /\ c1) \/ c2 \/ c3
    BY <1>2, OneOfThree
  <2> QED BY <1>3, <2>1, <2>2
<1> QED BY <1>4

LEMMA SelectedBefore ==
  ASSUME NEW f, NEW p, NEW a, p.after = {}, p.before = {a}, NEW o
  PROVE  o \in S!Selected(f, p) <=>
           /\ o \in DOMAIN f /\ Bounded(f, p, o)
           /\ \/ InTheInterval(f, p, o) /\ f[o].e < f[a].e
              \/ f[o].e = f[a].e /\ f[o].b < f[a].b
              \/ f[o].e = f[a].e /\ f[o].b = f[a].b /\ o < a
<1> DEFINE c1 == f[o].e < f[a].e
           c2 == f[o].e = f[a].e /\ f[o].b < f[a].b
           c3 == f[o].e = f[a].e /\ f[o].b = f[a].b /\ o < a
<1>1. S!AfterCases(f, p, o) = <<>> /\ S!BeforeCases(f, p, o) = <<c1, c2, c3>>
  <2>1. (CHOOSE x \in {a} : TRUE) = a
    OBVIOUS
  <2> QED BY <2>1 DEF S!AfterCases, S!BeforeCases
<1>2. c1 \in BOOLEAN /\ c2 \in BOOLEAN /\ c3 \in BOOLEAN /\ InTheInterval(f, p, o) \in BOOLEAN
  BY DEF InTheInterval
<1>3. o \in S!Selected(f, p) <=>
        /\ o \in DOMAIN f /\ Bounded(f, p, o)
        /\ \E k \in DOMAIN S!Joined(InTheInterval(f, p, o), <<>>, <<c1, c2, c3>>) : S!Joined(InTheInterval(f, p, o), <<>>, <<c1, c2, c3>>)[k]
  <2> HIDE DEF c1, c2, c3
  <2> QED BY <1>1 DEF S!Selected, Bounded, InTheInterval
<1>4. o \in S!Selected(f, p) <=> o \in DOMAIN f /\ Bounded(f, p, o) /\ ((InTheInterval(f, p, o) /\ c1) \/ c2 \/ c3)
  <2> HIDE DEF c1, c2, c3
  <2>1. S!Joined(InTheInterval(f, p, o), <<>>, <<c1, c2, c3>>) = <<InTheInterval(f, p, o) /\ c1, c2, c3>>
    BY <1>2, JoinedOther
  <2>2. (\E k \in DOMAIN <<InTheInterval(f, p, o) /\ c1, c2, c3>> : <<InTheInterval(f, p, o) /\ c1, c2, c3>>[k]) <=> (InTheInterval(f, p, o) /\ c1) \/ c2 \/ c3
    BY <1>2, OneOfThree
  <2> QED BY <1>3, <2>1, <2>2
<1> QED BY <1>4

\* What is listed of n obsels: those after the first k, as many as the limit allows.
Skipped(p) == IF p.offset = {} THEN 0 ELSE CHOOSE n \in p.offset : TRUE
Left(n, k) == IF k < n THEN n - k ELSE 0
Taken(p, r) == IF p.limit = {} THEN r ELSE LET l == CHOOSE x \in p.limit : TRUE IN IF l < r THEN l ELSE r

LEMMA SkippedAndTaken ==
  ASSUME NEW p, Parameters(p)
  PROVE  /\ Skipped(p) \in Nat
         /\ \A n, k \in Nat : Left(n, k) \in Nat /\ Left(n, k) <= n
         /\ \A r \in Nat : Taken(p, r) \in Nat /\ Taken(p, r) <= r
<1>1. GivenOnce(p.offset) /\ GivenOnce(p.limit)
  BY DEF Parameters
<1>2. Skipped(p) \in Nat
  BY <1>1 DEF Skipped, GivenOnce
<1>3. \A n, k \in Nat : Left(n, k) \in Nat /\ Left(n, k) <= n
  BY DEF Left
<1>4. p.limit # {} => (CHOOSE x \in p.limit : TRUE) \in Nat
  BY <1>1 DEF GivenOnce
<1>5. \A r \in Nat : Taken(p, r) \in Nat /\ Taken(p, r) <= r
  BY <1>4 DEF Taken
<1> QED BY <1>2, <1>3, <1>5

LEMMA Sliced ==
  ASSUME NEW X, NEW q \in Seq(X), NEW a \in Nat, NEW b \in Nat, a <= b, b <= Len(q)
  PROVE  /\ SubSeq(q, a + 1, b) \in Seq(X) /\ Len(SubSeq(q, a + 1, b)) = b - a
         /\ \A i \in 1 .. b - a : SubSeq(q, a + 1, b)[i] = q[a + i]
<1>1. a + 1 \in 1 .. Len(q) + 1 /\ b \in a .. Len(q)
  OBVIOUS
<1>2. a + 1 \in Nat /\ Len(q) \in Nat
  OBVIOUS
<1>3. PICK r : r = SubSeq(q, a + 1, b)
  OBVIOUS
<1>4. r = [i \in 1 .. b - a |-> q[a + i]]
  BY <1>1, <1>2, <1>3
<1>5. \A i \in 1 .. b - a : q[a + i] \in X
  BY <1>1
<1> QED BY <1>3, <1>4, <1>5

LEMMA SliceIs ==
  ASSUME NEW f, Collected(f), NEW p, Parameters(p), ~p.reverse,
         NEW q, ListsInOrder(f, S!Selected(f, p), q), NEW n, n = Cardinality(S!Selected(f, p))
  PROVE  S!Slice(f, p) = [i \in 1 .. Taken(p, Left(n, Skipped(p))) |-> q[Skipped(p) + i]]
<1>1. PICK X : X = S!Selected(f, p)
  OBVIOUS
<1>2. X \in SUBSET DOMAIN f /\ IsFiniteSet(X)
  <2>1. X \in SUBSET DOMAIN f
    BY <1>1 DEF S!Selected
  <2> QED BY <2>1, FS_Subset DEF Collected
<1>3. n = Cardinality(X) /\ n \in Nat
  BY <1>1, <1>2, FS_CardinalityType
<1>4. q \in [1 .. n -> X]
  BY <1>1, <1>3 DEF ListsInOrder
<1>5. S!Sorted(f, X) = q
  BY <1>1, <1>2, SortedIs
<1>6. PICK k : k = Skipped(p) /\ k \in Nat
  BY SkippedAndTaken
<1>7. PICK ordered : ordered = [i \in 1 .. n |-> q[i]] /\ ordered = q
  BY <1>4
<1>8. PICK rest : rest = SubSeq(ordered, k + 1, Len(ordered))
  OBVIOUS
<1>9. q \in Seq(X) /\ Len(q) = n
  BY <1>3, <1>4
<1>10. rest \in Seq(X) /\ Len(rest) = Left(n, k) /\ \A i \in 1 .. Left(n, k) : rest[i] = q[k + i]
  <2>1. rest = SubSeq(q, k + 1, n)
    BY <1>7, <1>8, <1>9
  <2>2. CASE k < n
    <3>1. Left(n, k) = n - k
      BY <2>2 DEF Left
    <3>2. rest \in Seq(X) /\ Len(rest) = n - k /\ \A i \in 1 .. n - k : rest[i] = q[k + i]
      BY <1>3, <1>6, <1>9, <2>1, <2>2, Sliced
    <3> QED BY <3>1, <3>2
  <2>3. CASE ~(k < n)
    <3>1. Left(n, k) = 0
      BY <2>3 DEF Left
    <3>2. rest = <<>>
      BY <1>3, <1>6, <1>9, <2>1, <2>3
    <3> QED BY <3>1, <3>2
  <2> QED BY <2>2, <2>3
<1>11. S!Slice(f, p) = IF p.limit = {} THEN rest
                       ELSE LET l == CHOOSE x \in p.limit : TRUE IN SubSeq(rest, 1, IF l < Len(rest) THEN l ELSE Len(rest))
  <2>1. \A i \in 1 .. n : (IF p.reverse THEN n + 1 - i ELSE i) = i
    OBVIOUS
  <2>2. ordered = [i \in 1 .. n |-> S!Sorted(f, X)[IF p.reverse THEN n + 1 - i ELSE i]]
    BY <1>5, <1>7, <2>1
  <2>3. S!Cardinality(X) = n
    BY <1>3, SlicesCardinality
  <2>4. S!Slice(f, p) = S!Listed(f, p, X)
    BY <1>1 DEF S!Slice
  <2> QED BY <1>6, <1>8, <2>2, <2>3, <2>4 DEF S!Listed, Skipped
<1>12. PICK t : t = Taken(p, Left(n, k)) /\ t \in Nat /\ t <= Left(n, k) /\ Left(n, k) \in Nat
  BY <1>3, <1>6, SkippedAndTaken
<1>13. S!Slice(f, p) = SubSeq(rest, 1, t)
  <2>1. CASE p.limit = {}
    <3>1. t = Len(rest)
      BY <1>10, <1>12, <2>1 DEF Taken
    <3> QED BY <1>10, <1>11, <2>1, <3>1
  <2>2. CASE p.limit # {}
    <3>1. t = IF (CHOOSE x \in p.limit : TRUE) < Len(rest) THEN (CHOOSE x \in p.limit : TRUE) ELSE Len(rest)
      BY <1>10, <1>12, <2>2 DEF Taken
    <3> QED BY <1>11, <2>2, <3>1
  <2> QED BY <2>1, <2>2
<1>14. SubSeq(rest, 1, t) = [i \in 1 .. t |-> rest[i]]
  BY <1>10, <1>12
<1>15. \A i \in 1 .. t : rest[i] = q[k + i]
  BY <1>10, <1>12
<1> QED BY <1>6, <1>12, <1>13, <1>14, <1>15
----------------------------------------------------------------------------
(* Slices: the tags of a page *)

\* g is f with one more obsel, n, which is the last one.
Collects(f, g, n) ==
  /\ Collected(f) /\ Collected(g)
  /\ n \notin DOMAIN f /\ DOMAIN g = DOMAIN f \cup {n}
  /\ \A o \in DOMAIN f : g[o] = f[o] /\ S!Precedes(g, o, n)

\* What is selected of the other obsels does not change.
LEMMA SelectedKept ==
  ASSUME NEW f, NEW g, NEW n, Collects(f, g, n), NEW p, p.after = {} \/ p.before = {}, Parameters(p),
         p.after \cup p.before \subseteq DOMAIN f
  PROVE  /\ S!Selected(g, p) \ {n} = S!Selected(f, p)
         /\ n \in S!Selected(g, p) => p.before = {}
<1>1. /\ n \notin DOMAIN f /\ DOMAIN g = DOMAIN f \cup {n}
      /\ \A o \in DOMAIN f : g[o] = f[o] /\ S!Precedes(g, o, n)
  BY DEF Collects
<1>2. \A o \in DOMAIN f : (Bounded(g, p, o) <=> Bounded(f, p, o)) /\ (InTheInterval(g, p, o) <=> InTheInterval(f, p, o))
  BY <1>1 DEF Bounded, InTheInterval
<1>3. CASE p.after = {} /\ p.before = {}
  <2>1. \A o : o \in S!Selected(g, p) <=> o \in DOMAIN g /\ Bounded(g, p, o) /\ InTheInterval(g, p, o)
    BY <1>3, SelectedAll
  <2>2. \A o : o \in S!Selected(f, p) <=> o \in DOMAIN f /\ Bounded(f, p, o) /\ InTheInterval(f, p, o)
    BY <1>3, SelectedAll
  <2> QED BY <1>1, <1>2, <1>3, <2>1, <2>2
<1>4. CASE p.after # {} /\ p.before = {}
  <2>1. PICK a : p.after = {a} /\ a \in DOMAIN f
    BY <1>4 DEF Parameters, GivenOnce
  <2>2. \A o : o \in S!Selected(g, p) <=>
           /\ o \in DOMAIN g /\ Bounded(g, p, o)
           /\ \/ InTheInterval(g, p, o) /\ g[o].e > g[a].e
              \/ g[o].e = g[a].e /\ g[o].b > g[a].b
              \/ g[o].e = g[a].e /\ g[o].b = g[a].b /\ o > a
    BY <1>4, <2>1, SelectedAfter
  <2>3. \A o : o \in S!Selected(f, p) <=>
           /\ o \in DOMAIN f /\ Bounded(f, p, o)
           /\ \/ InTheInterval(f, p, o) /\ f[o].e > f[a].e
              \/ f[o].e = f[a].e /\ f[o].b > f[a].b
              \/ f[o].e = f[a].e /\ f[o].b = f[a].b /\ o > a
    BY <1>4, <2>1, SelectedAfter
  <2> QED BY <1>1, <1>2, <1>4, <2>1, <2>2, <2>3
<1>5. CASE p.before # {}
  <2>1. PICK a : p.before = {a} /\ a \in DOMAIN f /\ p.after = {}
    BY <1>5 DEF Parameters, GivenOnce
  <2>2. \A o : o \in S!Selected(g, p) <=>
           /\ o \in DOMAIN g /\ Bounded(g, p, o)
           /\ \/ InTheInterval(g, p, o) /\ g[o].e < g[a].e
              \/ g[o].e = g[a].e /\ g[o].b < g[a].b
              \/ g[o].e = g[a].e /\ g[o].b = g[a].b /\ o < a
    BY <2>1, SelectedBefore
  <2>3. \A o : o \in S!Selected(f, p) <=>
           /\ o \in DOMAIN f /\ Bounded(f, p, o)
           /\ \/ InTheInterval(f, p, o) /\ f[o].e < f[a].e
              \/ f[o].e = f[a].e /\ f[o].b < f[a].b
              \/ f[o].e = f[a].e /\ f[o].b = f[a].b /\ o < a
    BY <2>1, SelectedBefore
  <2>4. n \notin S!Selected(g, p)
    <3>1. S!Precedes(g, a, n) /\ n \in DOMAIN g /\ a \in DOMAIN g
      BY <1>1, <2>1
    <3>2. n \in Nat /\ a \in Nat /\ g[n].b \in Nat /\ g[n].e \in Nat /\ g[a].b \in Nat /\ g[a].e \in Nat
      BY <3>1 DEF Collects, Collected
    <3> QED BY <2>2, <3>1, <3>2 DEF S!Precedes
  <2> QED BY <1>1, <1>2, <2>1, <2>2, <2>3, <2>4
<1> QED BY <1>3, <1>4, <1>5

LEMMA ListKept ==
  ASSUME NEW f, NEW g, NEW n, Collects(f, g, n), NEW X \in SUBSET DOMAIN f, NEW q, ListsInOrder(f, X, q)
  PROVE  ListsInOrder(g, X, q)
<1>1. \A o, u \in DOMAIN f : S!Precedes(g, o, u) <=> S!Precedes(f, o, u)
  BY DEF S!Precedes, Collects
<1>2. q \in [1 .. Cardinality(X) -> X] /\ \A i, j \in 1 .. Cardinality(X) : i < j => S!Precedes(f, q[i], q[j])
  BY DEF ListsInOrder, InOrder
<1>3. \A i \in 1 .. Cardinality(X) : q[i] \in DOMAIN f
  BY <1>2
<1> QED BY <1>1, <1>2, <1>3 DEF ListsInOrder, InOrder

\* The list of some obsels and the new one.
Grown(q, c, n) == [i \in 1 .. c + 1 |-> IF i = c + 1 THEN n ELSE q[i]]

LEMMA ListGrows ==
  ASSUME NEW f, NEW g, NEW n, Collects(f, g, n), NEW X \in SUBSET DOMAIN f, NEW q, ListsInOrder(f, X, q),
         NEW c, c = Cardinality(X)
  PROVE  /\ c \in Nat /\ Cardinality(X \cup {n}) = c + 1
         /\ ListsInOrder(g, X \cup {n}, Grown(q, c, n))
<1>1. IsFiniteSet(X) /\ c \in Nat
  BY FS_Subset, FS_CardinalityType DEF Collects, Collected
<1>2. n \notin X /\ \A o \in X : S!Precedes(g, o, n)
  BY DEF Collects
<1>3. Cardinality(X \cup {n}) = c + 1
  BY <1>1, <1>2, FS_AddElement
<1>4. ListsInOrder(g, X, q)
  BY ListKept
<1>5. q \in [1 .. c -> X] /\ \A i, j \in 1 .. c : i < j => S!Precedes(g, q[i], q[j])
  BY <1>4 DEF ListsInOrder, InOrder
<1>6. PICK r : r = Grown(q, c, n) /\ r = [i \in 1 .. c + 1 |-> IF i = c + 1 THEN n ELSE q[i]]
  BY DEF Grown
<1>7. r[c + 1] = n /\ \A i \in 1 .. c : r[i] = q[i] /\ q[i] \in X
  BY <1>1, <1>5, <1>6
<1>8. r \in [1 .. c + 1 -> X \cup {n}]
  <2>1. \A i \in 1 .. c + 1 : i = c + 1 \/ i \in 1 .. c
    BY <1>1
  <2> QED BY <1>6, <1>7, <2>1
<1>9. ASSUME NEW i \in 1 .. c + 1, NEW j \in 1 .. c + 1, i < j PROVE S!Precedes(g, r[i], r[j])
  <2>1. i \in 1 .. c /\ (j = c + 1 \/ j \in 1 .. c)
    BY <1>1, <1>9
  <2>2. CASE j = c + 1
    BY <1>2, <1>7, <2>1, <2>2
  <2>3. CASE j \in 1 .. c
    BY <1>5, <1>7, <1>9, <2>1, <2>3
  <2> QED BY <2>1, <2>2, <2>3
<1>10. ListsInOrder(g, X \cup {n}, r)
  BY <1>3, <1>8, <1>9 DEF ListsInOrder, InOrder
<1> QED BY <1>1, <1>3, <1>6, <1>10

\* What the strictly monotonic tag of a page that is not limited by `before' says.
LEMMA TaggedPage ==
  ASSUME NEW f, Collected(f), NEW range, NEW p, p.before = {},
         \A o \in S!Range(S!Slice(f, p)) : o \in DOMAIN f,
         "str" \in S!PageTags(f, range, S!LastOf(f), p)
  PROVE  \E l \in S!LastOf(f), z \in S!Range(S!Slice(f, p)) : \A o \in S!Range(S!Slice(f, p)) : f[o].e <= f[z].e /\ f[z].e < f[l].e
<1>1. PICK s : s = S!Slice(f, p)
  OBVIOUS
<1>2. PICK last : last = S!LastOf(f)
  OBVIOUS
<1>3. PICK ends : ends = {f[o].e : o \in S!MaxObs(f, s)}
  OBVIOUS
<1>4. last # {} /\ ends # {}
  BY <1>1, <1>2, <1>3 DEF S!PageTags
<1>5. (CHOOSE e \in ends : \A d \in ends : d <= e) < f[CHOOSE o \in last : TRUE].e
  BY <1>1, <1>2, <1>3, <1>4 DEF S!PageTags
<1>6. PICK l \in last : l = CHOOSE o \in last : TRUE
  BY <1>4
<1>7. PICK z \in S!MaxObs(f, s) : TRUE
  BY <1>3, <1>4
<1>8. z \in S!Range(s) /\ \A o \in S!Range(s) : f[o].e <= f[z].e
  BY <1>7 DEF S!MaxObs
<1>9. f[z].e \in ends /\ \A d \in ends : d <= f[z].e
  BY <1>3, <1>7, <1>8 DEF S!MaxObs
<1>10. PICK m : m = CHOOSE e \in ends : \A d \in ends : d <= e
  OBVIOUS
<1>11. m \in ends /\ \A d \in ends : d <= m
  BY <1>9, <1>10
<1>12. \A o \in S!Range(s) : f[o].e \in Nat
  BY <1>1 DEF Collected
<1>13. m = f[z].e
  <2>1. PICK o \in S!MaxObs(f, s) : m = f[o].e
    BY <1>3, <1>11
  <2>2. o \in S!Range(s)
    BY <2>1 DEF S!MaxObs
  <2>3. m \in Nat /\ f[z].e \in Nat /\ m <= f[z].e /\ f[z].e <= m
    BY <1>8, <1>9, <1>11, <1>12, <2>1, <2>2
  <2> QED BY <2>3
<1>14. f[z].e < f[l].e
  BY <1>5, <1>6, <1>10, <1>13
<1> QED BY <1>1, <1>2, <1>6, <1>8, <1>14

\* A page of f that ends before the last obsel of f, which is listed too, is cut
\* by its limit; so it is when one more obsel is listed.
LEMMA CutPage ==
  ASSUME NEW p, Parameters(p), NEW c \in Nat, NEW q, NEW s, s = [i \in 1 .. Taken(p, Left(c, Skipped(p))) |-> q[Skipped(p) + i]],
         DOMAIN s # {}, \A i \in DOMAIN s : s[i] # q[c]
  PROVE  Taken(p, Left(c + 1, Skipped(p))) = Taken(p, Left(c, Skipped(p))) /\ Skipped(p) + Taken(p, Left(c, Skipped(p))) < c
<1>1. PICK k : k = Skipped(p) /\ k \in Nat
  BY SkippedAndTaken
<1>2. PICK r : r = Left(c, k) /\ r \in Nat
  BY <1>1, SkippedAndTaken
<1>3. PICK t : t = Taken(p, r) /\ t \in Nat /\ t <= r
  BY <1>2, SkippedAndTaken
<1>4. s = [i \in 1 .. t |-> q[k + i]]
  BY <1>1, <1>2, <1>3
<1>5. t # 0
  <2>1. 1 .. 0 = {}
    OBVIOUS
  <2>2. DOMAIN s = 1 .. t
    BY <1>4
  <2> QED BY <2>1, <2>2
<1>6. k < c /\ r = c - k
  BY <1>1, <1>2, <1>3, <1>5 DEF Left
<1>7. t # r
  <2>1. SUFFICES ASSUME t = r PROVE FALSE
    OBVIOUS
  <2>2. t \in 1 .. t
    BY <1>3, <1>5
  <2>3. s[t] = q[k + t] /\ t \in DOMAIN s
    BY <1>4, <2>2
  <2>4. k + t = c
    BY <1>1, <1>6, <2>1
  <2> QED BY <2>3, <2>4
<1>8. k + t < c
  <2>1. t < c - k
    BY <1>1, <1>3, <1>6, <1>7
  <2> QED BY <1>1, <1>3, <2>1
<1>9. PICK l : p.limit = {l} /\ l \in Nat
  BY <1>3, <1>7 DEF Taken, Parameters, GivenOnce
<1>10. \A d : Taken(p, d) = IF l < d THEN l ELSE d
  <2>1. (CHOOSE x \in {l} : TRUE) = l
    OBVIOUS
  <2> QED BY <1>9, <2>1 DEF Taken
<1>11. t = l
  BY <1>3, <1>7, <1>10
<1>12. Left(c + 1, k) = r + 1
  BY <1>1, <1>6 DEF Left
<1>13. Taken(p, r + 1) = t
  BY <1>2, <1>3, <1>9, <1>10, <1>11
<1> QED BY <1>1, <1>2, <1>3, <1>8, <1>12, <1>13

\* If the new obsel is selected, so is the last one before it, unless it ends
\* with what is selected.
LEMMA LastIsSelected ==
  ASSUME NEW f, NEW g, NEW n, Collects(f, g, n), NEW p, Parameters(p), p.before = {}, p.minb = {}, p.maxb = {},
         p.after \subseteq DOMAIN f, n \in S!Selected(g, p), NEW z \in S!Selected(f, p),
         NEW l \in DOMAIN f, f[z].e < f[l].e, f[l].e <= g[n].e
  PROVE  l \in S!Selected(f, p)
<1>1. /\ n \notin DOMAIN f /\ DOMAIN g = DOMAIN f \cup {n}
      /\ \A o \in DOMAIN f : g[o] = f[o]
  BY DEF Collects
<1>2. z \in DOMAIN f
  BY DEF S!Selected
<1>3. f[z].e \in Nat /\ f[l].e \in Nat /\ g[n].e \in Nat
  BY <1>1, <1>2 DEF Collects, Collected
<1>4. (\A m \in p.mine : m \in Nat) /\ (\A m \in p.maxe : m \in Nat)
  BY DEF Parameters, GivenOnce
<1>5. Bounded(f, p, z) => Bounded(f, p, l)
  BY <1>3, <1>4 DEF Bounded
<1>6. InTheInterval(g, p, n) => InTheInterval(f, p, l)
  BY <1>3, <1>4 DEF InTheInterval
<1>7. CASE p.after = {}
  BY <1>5, <1>6, <1>7, SelectedAll
<1>8. CASE p.after # {}
  <2>1. PICK a : p.after = {a} /\ a \in DOMAIN f
    BY <1>8 DEF Parameters, GivenOnce
  <2>2. \A o : o \in S!Selected(g, p) <=>
           /\ o \in DOMAIN g /\ Bounded(g, p, o)
           /\ \/ InTheInterval(g, p, o) /\ g[o].e > g[a].e
              \/ g[o].e = g[a].e /\ g[o].b > g[a].b
              \/ g[o].e = g[a].e /\ g[o].b = g[a].b /\ o > a
    BY <2>1, SelectedAfter
  <2>3. \A o : o \in S!Selected(f, p) <=>
           /\ o \in DOMAIN f /\ Bounded(f, p, o)
           /\ \/ InTheInterval(f, p, o) /\ f[o].e > f[a].e
              \/ f[o].e = f[a].e /\ f[o].b > f[a].b
              \/ f[o].e = f[a].e /\ f[o].b = f[a].b /\ o > a
    BY <2>1, SelectedAfter
  <2>4. f[a].e \in Nat /\ g[a] = f[a]
    BY <1>1, <2>1 DEF Collects, Collected
  <2>5. f[z].e >= f[a].e /\ Bounded(f, p, z)
    BY <1>3, <2>3, <2>4
  <2>6. f[l].e > f[a].e /\ g[n].e > g[a].e
    BY <1>3, <2>4, <2>5
  <2>7. InTheInterval(g, p, n)
    BY <1>3, <2>2, <2>4, <2>6
  <2> QED BY <1>5, <1>6, <2>3, <2>5, <2>6, <2>7
<1> QED BY <1>7, <1>8

LEMMA PageStays ==
  ASSUME NEW f, NEW g, NEW n, Collects(f, g, n), NEW range,
         NEW p, Parameters(p), p.after = {} \/ p.before = {}, p.after \cup p.before \subseteq DOMAIN f, ~p.reverse,
         p.minb = {}, p.maxb = {}, "str" \in S!PageTags(f, range, S!LastOf(f), p)
  PROVE  S!Slice(g, p) = S!Slice(f, p)
<1>0. /\ Collected(f) /\ Collected(g) /\ n \notin DOMAIN f /\ DOMAIN g = DOMAIN f \cup {n}
      /\ \A o \in DOMAIN f : g[o] = f[o] /\ S!Precedes(g, o, n)
  BY DEF Collects
<1>1. PICK X : X = S!Selected(f, p) /\ X \in SUBSET DOMAIN f
  BY DEF S!Selected
<1>2. PICK Y : Y = S!Selected(g, p) /\ Y \ {n} = X /\ (n \in Y => p.before = {})
  BY <1>1, SelectedKept
<1>3. PICK q : ListsInOrder(f, X, q)
  BY <1>0, <1>1, ThereIsAList
<1>4. PICK c : c = Cardinality(X)
  OBVIOUS
<1>5. PICK k : k = Skipped(p) /\ k \in Nat
  BY SkippedAndTaken
<1>6. PICK s : s = S!Slice(f, p)
  OBVIOUS
<1>7. s = [i \in 1 .. Taken(p, Left(c, k)) |-> q[k + i]]
  BY <1>0, <1>1, <1>3, <1>4, <1>5, <1>6, SliceIs
<1>8. CASE n \notin Y
  <2>1. Y = X
    BY <1>2, <1>8
  <2>2. ListsInOrder(g, X, q)
    BY <1>1, <1>3, ListKept
  <2>3. S!Slice(g, p) = [i \in 1 .. Taken(p, Left(c, k)) |-> q[k + i]]
    <3>1. ListsInOrder(g, S!Selected(g, p), q) /\ c = Cardinality(S!Selected(g, p))
      BY <1>2, <1>4, <2>1, <2>2
    <3>2. S!Slice(g, p) = [i \in 1 .. Taken(p, Left(c, Skipped(p))) |-> q[Skipped(p) + i]]
      BY <1>0, <3>1, SliceIs
    <3> QED BY <1>5, <3>2
  <2> QED BY <1>6, <1>7, <2>3
<1>9. CASE n \in Y
  <2>1. p.before = {} /\ Y = X \cup {n}
    BY <1>2, <1>9
  <2>2. c \in Nat /\ Cardinality(Y) = c + 1 /\ ListsInOrder(g, Y, Grown(q, c, n))
    <3>1. c \in Nat /\ Cardinality(X \cup {n}) = c + 1
      BY <1>1, <1>3, <1>4, ListGrows
    <3>2. ListsInOrder(g, X \cup {n}, Grown(q, c, n))
      BY <1>1, <1>3, <1>4, ListGrows
    <3> QED BY <2>1, <3>1, <3>2
  <2>3. PICK t : t = Taken(p, Left(c, k)) /\ t \in Nat /\ t <= Left(c, k) /\ Left(c, k) \in Nat
    BY <1>5, <2>2, SkippedAndTaken
  <2>4. q \in [1 .. c -> X] /\ \A i, j \in 1 .. c : i < j => S!Precedes(f, q[i], q[j])
    BY <1>3, <1>4 DEF ListsInOrder, InOrder
  <2>5. \A i \in 1 .. t : k + i \in 1 .. c /\ q[k + i] \in X
    <3>1. t # 0 => k < c /\ Left(c, k) = c - k
      BY <1>5, <2>2, <2>3 DEF Left
    <3>2. \A i \in 1 .. t : k + i \in 1 .. c
      BY <1>5, <2>2, <2>3, <3>1
    <3> QED BY <2>4, <3>2
  <2>6. S!Range(s) = {q[k + i] : i \in 1 .. t} /\ DOMAIN s = 1 .. t
    BY <1>7, <2>3 DEF S!Range
  <2>7. \A o \in S!Range(s) : o \in X /\ o \in DOMAIN f
    BY <1>1, <2>5, <2>6
  <2>8. PICK l \in S!LastOf(f), z \in S!Range(s) : \A o \in S!Range(s) : f[o].e <= f[z].e /\ f[z].e < f[l].e
    BY <1>0, <1>6, <2>1, <2>7, TaggedPage
  <2>9. l \in DOMAIN f /\ (\A o \in DOMAIN f \ {l} : S!Precedes(f, o, l)) /\ z \in DOMAIN f /\ z \in X
    BY <2>7, <2>8 DEF S!LastOf
  <2>10. /\ f[l].b \in Nat /\ f[l].e \in Nat /\ f[z].e \in Nat /\ f[z].b \in Nat
         /\ g[n].e \in Nat /\ g[n].b \in Nat /\ g[l] = f[l] /\ g[z] = f[z]
    BY <1>0, <2>9 DEF Collected
  <2>11. f[z].e < f[l].e /\ f[l].e <= g[n].e
    <3>1. S!Precedes(g, l, n)
      BY <1>0, <2>9
    <3> QED BY <2>8, <2>10, <3>1 DEF S!Precedes
  <2>12. l \in X
    <3>1. n \in S!Selected(g, p) /\ z \in S!Selected(f, p) /\ p.after \subseteq DOMAIN f
      BY <1>1, <1>2, <1>9, <2>9
    <3>2. l \in S!Selected(f, p)
      BY <2>1, <2>9, <2>11, <3>1, LastIsSelected
    <3> QED BY <1>1, <3>2
  <2>13. q[c] = l
    <3>1. PICK i \in 1 .. c : q[i] = l
      BY <1>0, <1>1, <1>3, <1>4, <2>12, ListHasAll
    <3>2. i \in 1 .. c /\ c \in 1 .. c /\ q[c] \in DOMAIN f
      BY <1>1, <2>2, <2>4
    <3>3. SUFFICES ASSUME i < c PROVE FALSE
      BY <2>2, <3>1, <3>2
    <3>4. S!Precedes(f, l, q[c])
      BY <2>4, <3>1, <3>2, <3>3
    <3>5. q[c] # l => S!Precedes(f, q[c], l)
      BY <2>9, <3>2
    <3> QED BY <1>0, <2>9, <3>2, <3>4, <3>5, OrderOfObsels
  <2>14. \A i \in DOMAIN s : s[i] # q[c]
    <3>1. \A i \in DOMAIN s : s[i] \in S!Range(s)
      BY DEF S!Range
    <3>2. l \notin S!Range(s)
      <4>1. l \in S!Range(s) => f[l].e <= f[z].e
        BY <2>8
      <4> QED BY <2>10, <2>11, <4>1
    <3> QED BY <2>13, <3>1, <3>2
  <2>15. DOMAIN s # {}
    BY <2>8 DEF S!Range
  <2>16. Taken(p, Left(c + 1, k)) = t /\ k + t < c
    BY <1>5, <1>7, <2>2, <2>3, <2>14, <2>15, CutPage
  <2>17. PICK r : r = Grown(q, c, n) /\ r = [i \in 1 .. c + 1 |-> IF i = c + 1 THEN n ELSE q[i]]
    BY DEF Grown
  <2>18. S!Slice(g, p) = [i \in 1 .. t |-> r[k + i]]
    <3>1. ListsInOrder(g, S!Selected(g, p), r) /\ c + 1 = Cardinality(S!Selected(g, p))
      BY <1>2, <2>2, <2>17
    <3>2. S!Slice(g, p) = [i \in 1 .. Taken(p, Left(c + 1, Skipped(p))) |-> r[Skipped(p) + i]]
      BY <1>0, <3>1, SliceIs
    <3> QED BY <1>5, <2>16, <3>2
  <2>19. \A i \in 1 .. t : r[k + i] = q[k + i]
    <3>1. \A i \in 1 .. t : k + i \in 1 .. c + 1 /\ k + i # c + 1
      <4> SUFFICES ASSUME NEW i \in 1 .. t PROVE k + i \in 1 .. c + 1 /\ k + i # c + 1
        OBVIOUS
      <4>1. i \in Nat /\ i >= 1 /\ i <= t
        BY <2>3
      <4>2. k + t < c
        BY <2>16
      <4>3. k + i >= 1 /\ k + i < c
        BY <1>5, <2>2, <2>3, <4>1, <4>2
      <4> QED BY <1>5, <2>2, <4>1, <4>3
    <3> QED BY <2>17, <3>1
  <2> QED BY <1>6, <1>7, <2>3, <2>18, <2>19
<1> QED BY <1>8, <1>9

\* A page that is served with the strictly monotonic tag is the same after an
\* obsel is collected at the end, for any obsels and any parameters, but for those
\* on which the tag is known not to hold (engine/trace_obsels.py:431-463).
THEOREM PageTagsVouch ==
  ASSUME NEW f, Collected(f), NEW range, NEW p, Parameters(p), p.after \cup p.before \subseteq DOMAIN f
  PROVE  S!SliceTagSound(f, range, p)
<1>1. SUFFICES ASSUME p.minb = {}, p.maxb = {}, ~p.reverse, p.after = {} \/ p.before = {},
                      NEW n \in (1 .. S!Cardinality(DOMAIN f) + 1) \ DOMAIN f, NEW i \in [b : 0 .. 3, e : 0 .. 3],
                      NEW g, g = [o \in DOMAIN f \cup {n} |-> IF o = n THEN i ELSE f[o]],
                      S!LastOf(g) = {n}, "str" \in S!PageTags(f, range, S!LastOf(f), p)
               PROVE  S!Slice(g, p) = S!Slice(f, p)
  BY DEF S!SliceTagSound
<1>2. n \in Nat /\ n \notin DOMAIN f
  <2>1. S!Cardinality(DOMAIN f) \in Nat
    BY SlicesCardinality, FS_CardinalityType DEF Collected
  <2> QED BY <2>1
<1>3. DOMAIN g = DOMAIN f \cup {n} /\ g[n] = i /\ \A o \in DOMAIN f : g[o] = f[o]
  BY <1>1, <1>2
<1>4. \A o \in DOMAIN f : S!Precedes(g, o, n)
  BY <1>1, <1>2, <1>3 DEF S!LastOf
<1>5. Collected(g)
  <2>1. IsFiniteSet(DOMAIN f \cup {n})
    BY FS_AddElement DEF Collected
  <2>2. i.b \in Nat /\ i.e \in Nat
    BY <1>1
  <2>3. \A o \in DOMAIN g : g[o].b \in Nat /\ g[o].e \in Nat
    BY <1>3, <2>2 DEF Collected
  <2> QED BY <1>2, <1>3, <2>1, <2>3 DEF Collected
<1>6. Collects(f, g, n)
  BY <1>2, <1>3, <1>4, <1>5 DEF Collects
<1> QED BY <1>1, <1>6, PageStays

LEMMA SliceInputsFit ==
  ASSUME NEW v \in SliceInputs
  PROVE  /\ \E n \in Nat : v.f \in [1 .. n -> Intervals]
         /\ Parameters(v.p) /\ v.p.after \cup v.p.before \subseteq DOMAIN v.f
         /\ \A m \in v.p.maxb \cup v.p.maxe \cup v.p.limit : m > 0
<1>1. \A X, x : x \in Opt(X) <=> x = {} \/ \E y \in X : x = {y}
  BY DEF Opt
<1>2. PICK n \in 1 .. 3 : v \in [f : [1 .. n -> Intervals], p : SliceParameters(n)]
  BY DEF SliceInputs
<1>3. /\ v.p.minb \in Opt({1}) /\ v.p.maxb \in Opt({1}) /\ v.p.mine \in Opt({1}) /\ v.p.maxe \in Opt({1})
      /\ v.p.after \in Opt({1}) /\ v.p.before \in Opt({2} \cap (1 .. n)) /\ v.p.limit \in Opt({1, 2}) /\ v.p.offset \in Opt({1})
  BY <1>2 DEF SliceParameters
<1>4. v.f \in [1 .. n -> Intervals] /\ DOMAIN v.f = 1 .. n /\ 1 \in 1 .. n
  BY <1>2
<1>6. \A x : x \in Opt({1}) => GivenOnce(x) /\ \A m \in x : m = 1
  BY <1>1 DEF GivenOnce
<1>7. GivenOnce(v.p.before) /\ v.p.before \subseteq 1 .. n
  <2>1. v.p.before = {} \/ \E y \in {2} \cap (1 .. n) : v.p.before = {y}
    BY <1>1, <1>3
  <2> QED BY <2>1 DEF GivenOnce
<1>8. GivenOnce(v.p.limit) /\ \A m \in v.p.limit : m > 0
  <2>1. v.p.limit = {} \/ \E y \in {1, 2} : v.p.limit = {y}
    BY <1>1, <1>3
  <2> QED BY <2>1 DEF GivenOnce
<1>9. Parameters(v.p)
  BY <1>3, <1>6, <1>7, <1>8 DEF Parameters
<1>10. v.p.after \cup v.p.before \subseteq DOMAIN v.f
  BY <1>3, <1>4, <1>6, <1>7
<1>11. \A m \in v.p.maxb \cup v.p.maxe \cup v.p.limit : m > 0
  BY <1>3, <1>6, <1>8
<1> QED BY <1>4, <1>9, <1>10, <1>11

LEMMA IntervalsAreCollected == ASSUME NEW n \in Nat, NEW f \in [1 .. n -> Intervals] PROVE Collected(f)
<1>1. IsFiniteSet(1 .. n)
  BY FS_Interval
<1>2. \A o \in 1 .. n : f[o].b \in Nat /\ f[o].e \in Nat
  BY DEF Intervals
<1> QED BY <1>1, <1>2 DEF Collected

\* What the tags of a page say is so for each of the inputs of the run.
THEOREM PageTagsCorrect == LibrarySpec => []PageTagsSound
<1>1. Applied => PageTagsSound
  <2> SUFFICES ASSUME Applied, part = "slices" PROVE S!SliceTagSound(input.f, 1, input.p)
    BY DEF PageTagsSound
  <2>1. input \in SliceInputs
    BY DEF Applied, Functions
  <2>2. Parameters(input.p) /\ input.p.after \cup input.p.before \subseteq DOMAIN input.f
    BY <2>1, SliceInputsFit
  <2>3. PICK n \in Nat : input.f \in [1 .. n -> Intervals]
    BY <2>1, SliceInputsFit
  <2>4. Collected(input.f)
    BY <2>3, IntervalsAreCollected
  <2> QED BY <2>2, <2>4, PageTagsVouch
<1> QED BY <1>1, AppliedKept, PTL

----------------------------------------------------------------------------
(* Slices: the pages that `next' links lead through *)

LEMMA Follows ==
  ASSUME NEW X, NEW q, NEW k \in Nat, NEW d \in Nat, NEW t \in Nat, \A i \in 1 .. d + t : q[k + i] \in X
  PROVE  [i \in 1 .. d |-> q[k + i]] \o [i \in 1 .. t |-> q[(k + d) + i]] = [i \in 1 .. d + t |-> q[k + i]]
<1>1. PICK a : a = [i \in 1 .. d |-> q[k + i]]
  OBVIOUS
<1>2. PICK b : b = [i \in 1 .. t |-> q[(k + d) + i]]
  OBVIOUS
<1>3. a \in Seq(X) /\ Len(a) = d
  <2>1. \A i \in 1 .. d : i \in 1 .. d + t
    OBVIOUS
  <2>2. \A i \in 1 .. d : q[k + i] \in X
    BY <2>1
  <2> QED BY <1>1, <2>2
<1>4. b \in Seq(X) /\ Len(b) = t
  <2>1. \A i \in 1 .. t : d + i \in 1 .. d + t /\ (k + d) + i = k + (d + i)
    OBVIOUS
  <2>2. \A i \in 1 .. t : q[(k + d) + i] \in X
    BY <2>1
  <2> QED BY <1>2, <2>2
<1>5. a \o b \in Seq(X) /\ Len(a \o b) = d + t
  BY <1>3, <1>4
<1>6. \A i \in 1 .. d + t : (a \o b)[i] = IF i <= d THEN a[i] ELSE b[i - d]
  BY <1>3, <1>4
<1>7. ASSUME NEW i \in 1 .. d + t PROVE (a \o b)[i] = q[k + i]
  <2>1. CASE i <= d
    BY <1>1, <1>6, <2>1
  <2>2. CASE ~(i <= d)
    <3>1. i - d \in 1 .. t /\ (k + d) + (i - d) = k + i
      BY <2>2
    <3> QED BY <1>2, <1>6, <2>2, <3>1
  <2> QED BY <2>1, <2>2
<1>8. PICK w : w = [i \in 1 .. d + t |-> q[k + i]]
  OBVIOUS
<1>9. w \in Seq(X) /\ Len(w) = d + t
  BY <1>8
<1>10. a \o b = w
  <2>1. PICK z : z = a \o b
    OBVIOUS
  <2>2. z \in Seq(X) /\ Len(z) = d + t /\ \A i \in 1 .. d + t : z[i] = q[k + i]
    BY <1>5, <1>7, <2>1
  <2>3. z = [i \in 1 .. d + t |-> q[k + i]]
    BY <2>2
  <2> QED BY <1>8, <2>1, <2>3
<1> QED BY <1>1, <1>2, <1>8, <1>10

\* What comes after the jth of the listed obsels.
Remaining(q, c, j) == [i \in 1 .. c - j |-> q[j + i]]

LEMMA RestOfList ==
  ASSUME NEW f, Collected(f), NEW X \in SUBSET DOMAIN f, NEW q, ListsInOrder(f, X, q), NEW c, c = Cardinality(X), NEW j \in 1 .. c,
         NEW R, R = {u \in X : S!Precedes(f, q[j], u)}
  PROVE  Cardinality(R) = c - j /\ ListsInOrder(f, R, Remaining(q, c, j))
<1>0. PICK r : r = Remaining(q, c, j) /\ r = [i \in 1 .. c - j |-> q[j + i]]
  BY DEF Remaining
<1>1. c \in Nat
  BY FS_Subset, FS_CardinalityType DEF Collected
<1>2. q \in [1 .. c -> X] /\ \A i, k \in 1 .. c : i < k => S!Precedes(f, q[i], q[k])
  BY DEF ListsInOrder, InOrder
<1>3. \A i \in 1 .. c - j : j + i \in 1 .. c /\ j < j + i
  BY <1>1
<1>4. r \in [1 .. c - j -> R]
  <2>1. \A i \in 1 .. c - j : q[j + i] \in R
    BY <1>2, <1>3
  <2> QED BY <1>0, <2>1
<1>5. \A i, k \in 1 .. c - j : i < k => S!Precedes(f, r[i], r[k])
  <2> SUFFICES ASSUME NEW i \in 1 .. c - j, NEW k \in 1 .. c - j, i < k PROVE S!Precedes(f, r[i], r[k])
    OBVIOUS
  <2>1. r[i] = q[j + i] /\ r[k] = q[j + k] /\ j + i < j + k
    BY <1>0, <1>1
  <2> QED BY <1>2, <1>3, <2>1
<1>6. \A i \in 1 .. c - j : r[i] \in DOMAIN f
  BY <1>4
<1>7. \A i, k \in 1 .. c - j : r[i] = r[k] => i = k
  <2> SUFFICES ASSUME NEW i \in 1 .. c - j, NEW k \in 1 .. c - j, r[i] = r[k], i < k PROVE FALSE
    BY <1>1
  <2>1. S!Precedes(f, r[i], r[k]) /\ S!Precedes(f, r[k], r[i])
    BY <1>5
  <2> QED BY <1>6, <2>1, OrderOfObsels
<1>8. \A u \in R : \E i \in 1 .. c - j : r[i] = u
  <2> SUFFICES ASSUME NEW u \in R PROVE \E i \in 1 .. c - j : r[i] = u
    OBVIOUS
  <2>1. u \in X /\ S!Precedes(f, q[j], u) /\ u \in DOMAIN f /\ q[j] \in DOMAIN f
    BY <1>2
  <2>2. PICK i \in 1 .. c : q[i] = u
    BY <2>1, ListHasAll
  <2>3. j < i
    <3>1. i < j => S!Precedes(f, u, q[j])
      BY <1>2, <2>2
    <3>2. ~S!Precedes(f, u, q[j]) /\ u # q[j]
      BY <2>1, OrderOfObsels
    <3> QED BY <1>1, <2>2, <3>1, <3>2
  <2>4. i - j \in 1 .. c - j /\ j + (i - j) = i
    BY <1>1, <2>3
  <2>5. r[i - j] = u
    BY <1>0, <2>2, <2>4
  <2> QED BY <2>4, <2>5
<1>9. r \in Bijection(1 .. c - j, R)
  BY <1>4, <1>7, <1>8 DEF Bijection, Injection, Surjection, IsInjective
<1>10. IsFiniteSet(1 .. c - j) /\ Cardinality(1 .. c - j) = c - j
  <2>1. 1 \in Int /\ c - j \in Int /\ c - j >= 0
    BY <1>1
  <2> QED BY <2>1, FS_Interval
<1>11. Cardinality(R) = c - j
  <2>1. ExistsBijection(1 .. c - j, R)
    BY <1>9 DEF ExistsBijection
  <2> QED BY <1>10, <2>1, FS_Bijection
<1> QED BY <1>0, <1>4, <1>5, <1>11 DEF ListsInOrder, InOrder

\* What a `next' link asks for: what was asked for, after obsel o.
Follow(p, o) ==
  [minb |-> S!Positive(p.minb), maxb |-> S!Positive(p.maxb), mine |-> S!Positive(p.mine), maxe |-> S!Positive(p.maxe),
   after |-> {o}, before |-> {}, limit |-> p.limit, offset |-> {}, reverse |-> FALSE]

\* Parameters that links keep: zero counts as none, which matters for upper bounds.
Followable(p) ==
  /\ Parameters(p) /\ ~p.reverse /\ p.before = {}
  /\ \A m \in p.maxb \cup p.maxe \cup p.limit : m > 0

LEMMA FollowFits ==
  ASSUME NEW p, Followable(p), NEW o \in Nat
  PROVE  Followable(Follow(p, o)) /\ \A u : Follow(Follow(p, o), u) = Follow(p, u)
<1>1. \A P : GivenOnce(P) => GivenOnce(S!Positive(P))
  BY DEF GivenOnce, S!Positive
<1>2. GivenOnce({o}) /\ GivenOnce({})
  BY DEF GivenOnce
<1>3. Parameters(Follow(p, o))
  BY <1>1, <1>2 DEF Followable, Parameters, Follow
<1>4. \A m \in Follow(p, o).maxb \cup Follow(p, o).maxe \cup Follow(p, o).limit : m > 0
  BY DEF Followable, Follow, S!Positive
<1>5. \A P : S!Positive(S!Positive(P)) = S!Positive(P)
  BY DEF S!Positive
<1>6. \A u : Follow(Follow(p, o), u) = Follow(p, u)
  BY <1>5 DEF Follow
<1> QED BY <1>3, <1>4, <1>6 DEF Followable, Follow

\* What a link selects is what was selected, after the obsel.
LEMMA SelectedNext ==
  ASSUME NEW f, Collected(f), S!Untied(f), NEW p, Followable(p), p.after \subseteq DOMAIN f, NEW o \in S!Selected(f, p)
  PROVE  S!Selected(f, Follow(p, o)) = {u \in S!Selected(f, p) : S!Precedes(f, o, u)}
<1>1. o \in DOMAIN f
  BY DEF S!Selected
<1>2. \A u \in DOMAIN f : u \in Nat /\ f[u].b \in Nat /\ f[u].e \in Nat
  BY DEF Collected
<1>3. \A m \in p.minb \cup p.maxb \cup p.mine \cup p.maxe : m \in Nat
  BY DEF Followable, Parameters, GivenOnce
<1>4. \A u \in DOMAIN f : S!Precedes(f, o, u) <=> f[o].e < f[u].e
  BY <1>1, <1>2 DEF S!Untied, S!Precedes
<1>5. \A u \in DOMAIN f : (Bounded(f, Follow(p, o), u) <=> Bounded(f, p, u)) /\ (InTheInterval(f, Follow(p, o), u) <=> InTheInterval(f, p, u))
  BY <1>2, <1>3 DEF Followable, Bounded, InTheInterval, Follow, S!Positive
<1>6. \A u : u \in S!Selected(f, Follow(p, o)) <=>
           /\ u \in DOMAIN f /\ Bounded(f, Follow(p, o), u)
           /\ \/ InTheInterval(f, Follow(p, o), u) /\ f[u].e > f[o].e
              \/ f[u].e = f[o].e /\ f[u].b > f[o].b
              \/ f[u].e = f[o].e /\ f[u].b = f[o].b /\ u > o
  <2>1. Follow(p, o).after = {o} /\ Follow(p, o).before = {}
    BY DEF Follow
  <2> QED BY <2>1, SelectedAfter
<1>7. \A u \in DOMAIN f : f[u].e = f[o].e => u = o
  BY <1>1 DEF S!Untied
<1>8. \A u : u \in S!Selected(f, Follow(p, o)) <=> u \in DOMAIN f /\ Bounded(f, p, u) /\ InTheInterval(f, p, u) /\ f[o].e < f[u].e
  <2>1. f[o].b \in Nat /\ o \in Nat /\ f[o].e \in Nat
    BY <1>1, <1>2
  <2> QED BY <1>2, <1>5, <1>6, <1>7, <2>1
<1>9. \A u \in DOMAIN f : f[o].e < f[u].e => (u \in S!Selected(f, p) <=> Bounded(f, p, u) /\ InTheInterval(f, p, u))
  <2>1. CASE p.after = {}
    BY <2>1, SelectedAll DEF Followable
  <2>2. CASE p.after # {}
    <3>1. PICK a : p.after = {a} /\ a \in DOMAIN f
      BY <2>2 DEF Followable, Parameters, GivenOnce
    <3>2. \A u : u \in S!Selected(f, p) <=>
             /\ u \in DOMAIN f /\ Bounded(f, p, u)
             /\ \/ InTheInterval(f, p, u) /\ f[u].e > f[a].e
                \/ f[u].e = f[a].e /\ f[u].b > f[a].b
                \/ f[u].e = f[a].e /\ f[u].b = f[a].b /\ u > a
      BY <3>1, SelectedAfter DEF Followable
    <3>3. f[a].e \in Nat /\ f[a].b \in Nat /\ a \in Nat /\ f[o].e \in Nat
      BY <1>1, <1>2, <3>1
    <3>4. f[o].e >= f[a].e
      BY <3>2, <3>3
    <3>5. \A u \in DOMAIN f : f[o].e < f[u].e => f[u].e > f[a].e
      BY <1>2, <3>3, <3>4
    <3> QED BY <1>2, <3>2, <3>3, <3>5
  <2> QED BY <2>1, <2>2
<1>10. S!Selected(f, p) \subseteq DOMAIN f
  BY DEF S!Selected
<1> QED BY <1>4, <1>8, <1>9, <1>10

\* The page from the jth of the listed obsels on.
PageAt(p, q, c, j) == [i \in 1 .. Taken(p, Left(c, j)) |-> q[j + i]]

\* Its link leads to what comes after it.
LEMMA NextPage ==
  ASSUME NEW f, Collected(f), S!Untied(f), NEW p, Followable(p), NEW X \in SUBSET DOMAIN f, NEW q, ListsInOrder(f, X, q),
         NEW c, c = Cardinality(X), NEW j \in Nat, NEW t, t = Taken(p, Left(c, j)), S!Slice(f, p) = PageAt(p, q, c, j)
  PROVE  S!NextLinks(f, p) = IF p.limit = {} \/ t = 0 THEN {} ELSE {Follow(p, q[j + t])}
<1>1. PICK s : s = S!Slice(f, p) /\ s = [i \in 1 .. t |-> q[j + i]]
  BY DEF PageAt
<1>2. c \in Nat
  BY FS_Subset, FS_CardinalityType DEF Collected
<1>3. t \in Nat /\ t <= Left(c, j) /\ (t # 0 => j + t <= c)
  <2>1. Left(c, j) \in Nat
    BY <1>2, SkippedAndTaken DEF Followable
  <2>2. t \in Nat /\ t <= Left(c, j)
    BY <2>1, SkippedAndTaken DEF Followable
  <2> QED BY <1>2, <2>1, <2>2 DEF Left
<1>4. S!Positive(p.limit) = p.limit
  BY DEF S!Positive, Followable
<1>5. S!NextLinks(f, p) = IF p.limit = {} \/ s = <<>> THEN {} ELSE {Follow(p, o) : o \in S!MaxObs(f, s)}
  <2>1. PICK kept : kept = [S!NoParameter EXCEPT !.limit = p.limit, !.minb = S!Positive(p.minb), !.maxb = S!Positive(p.maxb),
                                                 !.mine = S!Positive(p.mine), !.maxe = S!Positive(p.maxe)]
    OBVIOUS
  <2>2. kept = [minb |-> S!Positive(p.minb), maxb |-> S!Positive(p.maxb), mine |-> S!Positive(p.mine), maxe |-> S!Positive(p.maxe),
                after |-> {}, before |-> {}, limit |-> p.limit, offset |-> {}, reverse |-> FALSE]
    BY <2>1 DEF S!NoParameter
  <2>3. ASSUME NEW o PROVE [kept EXCEPT !.after = {o}] = Follow(p, o)
    <3>1. PICK no : no = FALSE
      OBVIOUS
    <3>2. kept = [minb |-> S!Positive(p.minb), maxb |-> S!Positive(p.maxb), mine |-> S!Positive(p.mine), maxe |-> S!Positive(p.maxe),
                  after |-> {}, before |-> {}, limit |-> p.limit, offset |-> {}, reverse |-> no]
      BY <2>2, <3>1
    <3>3. [kept EXCEPT !.after = {o}] =
            [minb |-> S!Positive(p.minb), maxb |-> S!Positive(p.maxb), mine |-> S!Positive(p.mine), maxe |-> S!Positive(p.maxe),
             after |-> {o}, before |-> {}, limit |-> p.limit, offset |-> {}, reverse |-> no]
      BY <3>2
    <3> QED BY <3>1, <3>3 DEF Follow
  <2> DEFINE link(o) == IF p.reverse THEN [kept EXCEPT !.reverse = TRUE, !.before = {o}] ELSE [kept EXCEPT !.after = {o}]
  <2>4. S!NextLinks(f, p) = IF S!Positive(p.limit) = {} \/ s = <<>> THEN {} ELSE {link(o) : o \in S!MaxObs(f, s)}
    BY <1>1, <2>1 DEF S!NextLinks
  <2>5. \A o : link(o) = Follow(p, o)
    BY <2>3 DEF Followable
  <2> HIDE DEF link
  <2>6. {link(o) : o \in S!MaxObs(f, s)} = {Follow(p, o) : o \in S!MaxObs(f, s)}
    BY <2>5
  <2> QED BY <1>4, <2>4, <2>6
<1>6. CASE t = 0
  <2>1. s = <<>>
    BY <1>1, <1>6
  <2> QED BY <1>5, <1>6, <2>1
<1>7. CASE t # 0
  <2>1. s # <<>>
    <3>1. DOMAIN s # {}
      BY <1>1, <1>3, <1>7
    <3> QED BY <3>1
  <2>2. \A i \in 1 .. t : j + i \in 1 .. c
    BY <1>2, <1>3, <1>7
  <2>3. q \in [1 .. c -> X] /\ \A i, k \in 1 .. c : i < k => S!Precedes(f, q[i], q[k])
    BY DEF ListsInOrder, InOrder
  <2>4. S!Range(s) = {q[j + i] : i \in 1 .. t}
    BY <1>1 DEF S!Range
  <2>5. \A i \in 1 .. t : q[j + i] \in DOMAIN f
    BY <2>2, <2>3
  <2>6. t \in 1 .. t
    BY <1>3, <1>7
  <2>7. \A i \in 1 .. t : i = t \/ f[q[j + i]].e < f[q[j + t]].e
    <3> SUFFICES ASSUME NEW i \in 1 .. t, i # t PROVE f[q[j + i]].e < f[q[j + t]].e
      OBVIOUS
    <3>1. S!Precedes(f, q[j + i], q[j + t])
      <4>1. j + i < j + t
        BY <1>3
      <4> QED BY <2>2, <2>3, <2>6, <4>1
    <3>2. q[j + i] \in DOMAIN f /\ q[j + t] \in DOMAIN f
      BY <2>5, <2>6
    <3>3. q[j + i] # q[j + t]
      BY <3>1, <3>2, OrderOfObsels
    <3> QED BY <3>1, <3>2, <3>3 DEF S!Precedes, S!Untied
  <2>8. S!MaxObs(f, s) = {q[j + t]}
    <3>1. \A i \in 1 .. t : f[q[j + i]].e \in Nat
      BY <2>5 DEF Collected
    <3>2. \A i \in 1 .. t : f[q[j + i]].e <= f[q[j + t]].e
      BY <2>6, <2>7, <3>1
    <3>3. q[j + t] \in S!MaxObs(f, s)
      BY <2>4, <2>6, <3>2 DEF S!MaxObs
    <3>4. ASSUME NEW o \in S!MaxObs(f, s) PROVE o = q[j + t]
      <4>1. o \in S!Range(s) /\ \A u \in S!Range(s) : f[u].e <= f[o].e
        BY DEF S!MaxObs
      <4>2. PICK i \in 1 .. t : o = q[j + i]
        BY <2>4, <4>1
      <4>3. f[q[j + t]].e <= f[q[j + i]].e
        BY <2>4, <2>6, <4>1, <4>2
      <4>4. i = t
        BY <2>6, <2>7, <3>1, <4>3
      <4> QED BY <4>2, <4>4
    <3> QED BY <3>3, <3>4
  <2>9. {Follow(p, o) : o \in S!MaxObs(f, s)} = {Follow(p, q[j + t])}
    BY <2>8
  <2> QED BY <1>5, <1>7, <2>1, <2>9
<1> QED BY <1>6, <1>7

\* The parameters that lead to the page after the first d of what was asked for.
Leads(p, q, k, d) == IF d = 0 THEN p ELSE Follow(p, q[k + d])

\* p asks for the obsels of q but for the first k: w obsels.
Asks(f, p, q, c, k, w) ==
  /\ Collected(f) /\ S!Untied(f) /\ Followable(p) /\ p.after \subseteq DOMAIN f
  /\ ListsInOrder(f, S!Selected(f, p), q) /\ c = Cardinality(S!Selected(f, p)) /\ c \in Nat
  /\ k = Skipped(p) /\ k \in Nat /\ w = Left(c, k) /\ w \in Nat

LEMMA AskedObsels ==
  ASSUME NEW f, NEW p, NEW q, NEW c, NEW k, NEW w, Asks(f, p, q, c, k, w)
  PROVE  /\ S!Selected(f, p) \in SUBSET DOMAIN f
         /\ \A i \in 1 .. w : k + i \in 1 .. c /\ q[k + i] \in S!Selected(f, p) /\ q[k + i] \in Nat
         /\ w # 0 => w = c - k
<1>1. S!Selected(f, p) \in SUBSET DOMAIN f
  BY DEF S!Selected
<1>2. S!Selected(f, p) \subseteq Nat
  BY <1>1 DEF Asks, Collected
<1>3. q \in [1 .. c -> S!Selected(f, p)] /\ c \in Nat /\ k \in Nat /\ w \in Nat
  BY DEF Asks, ListsInOrder
<1>4. w # 0 => w = c - k
  BY <1>3 DEF Asks, Left
<1>5. \A i \in 1 .. w : k + i \in 1 .. c
  BY <1>3, <1>4
<1> QED BY <1>1, <1>2, <1>3, <1>4, <1>5

LEMMA PageFrom ==
  ASSUME NEW f, NEW p, NEW q, NEW c, NEW k, NEW w, Asks(f, p, q, c, k, w),
         NEW d \in 0 .. w, NEW P, P = Leads(p, q, k, d), NEW t, t = Taken(p, w - d)
  PROVE  /\ S!Slice(f, P) = [i \in 1 .. t |-> q[(k + d) + i]]
         /\ S!NextLinks(f, P) = IF p.limit = {} \/ t = 0 THEN {} ELSE {Follow(p, q[(k + d) + t])}
<1>0. /\ Collected(f) /\ S!Untied(f) /\ Followable(p) /\ p.after \subseteq DOMAIN f
      /\ ListsInOrder(f, S!Selected(f, p), q) /\ c = Cardinality(S!Selected(f, p)) /\ c \in Nat
      /\ k = Skipped(p) /\ k \in Nat /\ w = Left(c, k) /\ w \in Nat
  BY DEF Asks
<1>1. PICK X : X = S!Selected(f, p) /\ X \in SUBSET DOMAIN f
  BY AskedObsels
<1>2. Parameters(p) /\ ~p.reverse /\ p.before = {}
  BY <1>0 DEF Followable
<1>3. t \in Nat /\ t <= w - d
  <2>1. w - d \in Nat
    BY <1>0
  <2> QED BY <1>2, <2>1, SkippedAndTaken
<1>4. CASE d = 0
  <2>1. P = p /\ k + d = k /\ w - d = w
    BY <1>0, <1>4 DEF Leads
  <2>2. S!Slice(f, p) = [i \in 1 .. Taken(p, Left(c, Skipped(p))) |-> q[Skipped(p) + i]]
    BY <1>0, <1>2, SliceIs
  <2>3. S!Slice(f, p) = PageAt(p, q, c, k) /\ t = Taken(p, Left(c, k))
    BY <1>0, <2>1, <2>2 DEF PageAt
  <2>4. S!NextLinks(f, p) = IF p.limit = {} \/ t = 0 THEN {} ELSE {Follow(p, q[k + t])}
    BY <1>0, <1>1, <2>3, NextPage
  <2> QED BY <2>1, <2>3, <2>4 DEF PageAt
<1>5. CASE d # 0
  <2>1. P = Follow(p, q[k + d]) /\ d \in 1 .. w
    BY <1>0, <1>5 DEF Leads
  <2>2. k + d \in 1 .. c /\ q[k + d] \in X /\ q[k + d] \in Nat /\ w = c - k
    BY <1>0, <1>1, <2>1, AskedObsels
  <2>3. PICK R : R = {u \in X : S!Precedes(f, q[k + d], u)} /\ R \in SUBSET DOMAIN f
    BY <1>1
  <2>4. PICK e : e = c - (k + d) /\ e \in Nat /\ e = w - d
    BY <1>0, <2>1, <2>2
  <2>5. PICK r : r = [i \in 1 .. e |-> q[(k + d) + i]]
    OBVIOUS
  <2>6. Cardinality(R) = e /\ ListsInOrder(f, R, r)
    <3>1. PICK j \in 1 .. c : j = k + d /\ e = c - j
      BY <2>2, <2>4
    <3>2. R = {u \in X : S!Precedes(f, q[j], u)} /\ r = Remaining(q, c, j)
      BY <2>3, <2>5, <3>1 DEF Remaining
    <3>3. ListsInOrder(f, X, q) /\ c = Cardinality(X)
      BY <1>0, <1>1
    <3>4. Cardinality(R) = c - j
      BY <1>0, <1>1, <3>2, <3>3, RestOfList
    <3>5. ListsInOrder(f, R, Remaining(q, c, j))
      BY <1>0, <1>1, <3>2, <3>3, RestOfList
    <3> QED BY <3>1, <3>2, <3>4, <3>5
  <2>7. Followable(P) /\ \A u : Follow(P, u) = Follow(p, u)
    BY <1>0, <2>1, <2>2, FollowFits
  <2>8. S!Selected(f, P) = R
    BY <1>0, <1>1, <2>1, <2>2, <2>3, SelectedNext
  <2>9. P.limit = p.limit /\ Skipped(P) = 0 /\ \A n : Taken(P, n) = Taken(p, n)
    BY <2>1 DEF Follow, Skipped, Taken
  <2>10. Left(e, 0) = e
    BY <2>4 DEF Left
  <2>11. S!Slice(f, P) = PageAt(P, r, e, 0)
    <3>1. Parameters(P) /\ ~P.reverse /\ ListsInOrder(f, S!Selected(f, P), r) /\ e = Cardinality(S!Selected(f, P))
      BY <2>6, <2>7, <2>8 DEF Followable
    <3>2. S!Slice(f, P) = [i \in 1 .. Taken(P, Left(e, Skipped(P))) |-> r[Skipped(P) + i]]
      BY <1>0, <3>1, SliceIs
    <3> QED BY <2>9, <3>2 DEF PageAt
  <2>12. t = Taken(P, Left(e, 0))
    BY <2>4, <2>9, <2>10
  <2>13. S!NextLinks(f, P) = IF P.limit = {} \/ t = 0 THEN {} ELSE {Follow(P, r[0 + t])}
    BY <1>0, <2>3, <2>6, <2>7, <2>11, <2>12, NextPage
  <2>14. \A i \in 1 .. t : r[0 + i] = q[(k + d) + i]
    BY <1>3, <2>4, <2>5
  <2>15. S!Slice(f, P) = [i \in 1 .. t |-> q[(k + d) + i]]
    BY <2>11, <2>12, <2>14 DEF PageAt
  <2>16. t # 0 => r[0 + t] = q[(k + d) + t]
    BY <1>3, <2>14
  <2> QED BY <2>7, <2>9, <2>13, <2>15, <2>16
<1> QED BY <1>4, <1>5

\* One page more, as in S!Pages.
Followed(f, acc) ==
  IF acc.at = {} THEN acc
  ELSE LET q == CHOOSE x \in acc.at : TRUE
       IN  [seen |-> acc.seen \o S!Slice(f, q), at |-> S!NextLinks(f, q)]

\* After m pages: all was seen, or the first d obsels were, one or more per page.
Seen(p, q, k, w, m, acc) ==
  \/ acc.at = {} /\ acc.seen = [i \in 1 .. w |-> q[k + i]]
  \/ \E d \in 0 .. w :
       /\ m <= d /\ acc.seen = [i \in 1 .. d |-> q[k + i]]
       /\ acc.at = {Leads(p, q, k, d)} /\ (d > 0 => p.limit # {})

LEMMA SeenNext ==
  ASSUME NEW f, NEW p, NEW q, NEW c, NEW k, NEW w, Asks(f, p, q, c, k, w), NEW m \in Nat, NEW acc, Seen(p, q, k, w, m, acc)
  PROVE  Seen(p, q, k, w, m + 1, Followed(f, acc))
<1>0. Followable(p) /\ k \in Nat /\ w \in Nat
  BY DEF Asks
<1>1. CASE acc.at = {}
  <2>1. acc.seen = [i \in 1 .. w |-> q[k + i]] /\ Followed(f, acc) = acc
    BY <1>1 DEF Seen, Followed
  <2> QED BY <1>1, <2>1 DEF Seen
<1>2. CASE acc.at # {}
  <2>0. PICK d \in 0 .. w :
           /\ m <= d /\ acc.seen = [i \in 1 .. d |-> q[k + i]]
           /\ acc.at = {Leads(p, q, k, d)} /\ (d > 0 => p.limit # {})
    BY <1>2 DEF Seen
  <2>1. PICK P : P = Leads(p, q, k, d) /\ m <= d /\ acc.seen = [i \in 1 .. d |-> q[k + i]] /\ acc.at = {P} /\ (d > 0 => p.limit # {})
    BY <2>0
  <2>2. PICK t : t = Taken(p, w - d) /\ t \in Nat /\ t <= w - d
    <3>1. w - d \in Nat
      BY <1>0
    <3> QED BY <1>0, <3>1, SkippedAndTaken DEF Followable
  <2>3. S!Slice(f, P) = [i \in 1 .. t |-> q[(k + d) + i]]
    BY <2>1, <2>2, PageFrom
  <2>4. S!NextLinks(f, P) = IF p.limit = {} \/ t = 0 THEN {} ELSE {Follow(p, q[(k + d) + t])}
    BY <2>1, <2>2, PageFrom
  <2>5. Followed(f, acc) = [seen |-> acc.seen \o S!Slice(f, P), at |-> S!NextLinks(f, P)]
    <3>1. (CHOOSE x \in {P} : TRUE) = P
      OBVIOUS
    <3> QED BY <2>1, <3>1 DEF Followed
  <2>6. acc.seen \o S!Slice(f, P) = [i \in 1 .. d + t |-> q[k + i]]
    <3>1. \A i \in 1 .. d + t : q[k + i] \in S!Selected(f, p)
      <4>1. \A i \in 1 .. d + t : i \in 1 .. w
        BY <1>0, <2>2
      <4> QED BY <4>1, AskedObsels
    <3>2. d \in Nat
      BY <1>0
    <3> QED BY <1>0, <2>1, <2>2, <2>3, <3>1, <3>2, Follows
  <2>7. PICK new : new = Followed(f, acc) /\ new.seen = [i \in 1 .. d + t |-> q[k + i]] /\ new.at = S!NextLinks(f, P)
    <3>1. Followed(f, acc).seen = acc.seen \o S!Slice(f, P) /\ Followed(f, acc).at = S!NextLinks(f, P)
      BY <2>5
    <3> QED BY <2>6, <3>1
  <2>8. CASE p.limit = {}
    <3>1. d = 0 /\ t = w
      BY <1>0, <2>1, <2>2, <2>8 DEF Taken
    <3>2. d + t = w
      BY <1>0, <3>1
    <3> QED BY <2>4, <2>7, <2>8, <3>2 DEF Seen
  <2>9. CASE p.limit # {} /\ t = 0
    <3>1. PICK l \in Nat : p.limit = {l} /\ l > 0
      BY <1>0, <2>9 DEF Followable, Parameters, GivenOnce
    <3>2. (CHOOSE x \in {l} : TRUE) = l
      OBVIOUS
    <3>3. t = IF l < w - d THEN l ELSE w - d
      BY <2>2, <2>9, <3>1, <3>2 DEF Taken
    <3>4. d + t = w
      BY <1>0, <2>2, <2>9, <3>1, <3>3
    <3> QED BY <2>4, <2>7, <2>9, <3>4 DEF Seen
  <2>10. CASE p.limit # {} /\ t # 0
    <3>1. d + t \in 0 .. w /\ m + 1 <= d + t /\ d + t > 0 /\ (k + d) + t = k + (d + t)
      BY <1>0, <2>1, <2>2, <2>10
    <3>2. new.at = {Follow(p, q[k + (d + t)])}
      BY <2>4, <2>7, <2>10, <3>1
    <3>3. Leads(p, q, k, d + t) = Follow(p, q[k + (d + t)])
      BY <3>1 DEF Leads
    <3> QED BY <2>7, <2>10, <3>1, <3>2, <3>3 DEF Seen
  <2> QED BY <2>8, <2>9, <2>10
<1> QED BY <1>1, <1>2

LEMMA AllSeen ==
  ASSUME NEW f, NEW p, NEW q, NEW c, NEW k, NEW w, Asks(f, p, q, c, k, w), NEW n \in Nat, NEW v,
         v[0] = [seen |-> <<>>, at |-> {p}], \A m \in 1 .. n : v[m] = Followed(f, v[m - 1])
  PROVE  Seen(p, q, k, w, n, v[n])
<1>0. w \in Nat /\ k \in Nat
  BY DEF Asks
<1>1. PICK P : P = {m \in Nat : m <= n => Seen(p, q, k, w, m, v[m])}
  OBVIOUS
<1>2. 0 \in P
  <2>1. v[0].at = {p} /\ v[0].seen = <<>>
    OBVIOUS
  <2>2. [i \in 1 .. 0 |-> q[k + i]] = <<>>
    OBVIOUS
  <2>3. Leads(p, q, k, 0) = p /\ 0 \in 0 .. w /\ 0 <= 0 /\ ~(0 > 0)
    BY <1>0 DEF Leads
  <2>4. v[0].seen = [i \in 1 .. 0 |-> q[k + i]] /\ v[0].at = {Leads(p, q, k, 0)}
    BY <2>1, <2>2, <2>3
  <2>5. Seen(p, q, k, w, 0, v[0])
    BY <2>3, <2>4 DEF Seen
  <2> QED BY <1>1, <2>5
<1>3. ASSUME NEW m \in P PROVE m + 1 \in P
  <2>1. m \in Nat
    BY <1>1
  <2>2. SUFFICES ASSUME m + 1 <= n PROVE Seen(p, q, k, w, m + 1, v[m + 1])
    BY <1>1, <2>1
  <2>3. Seen(p, q, k, w, m, v[m])
    BY <1>1, <2>1, <2>2
  <2>4. v[m + 1] = Followed(f, v[m])
    <3>1. m + 1 \in 1 .. n /\ (m + 1) - 1 = m
      BY <2>1, <2>2
    <3>2. v[m + 1] = Followed(f, v[(m + 1) - 1])
      BY <3>1
    <3> QED BY <3>1, <3>2
  <2> QED BY <2>1, <2>3, <2>4, SeenNext
<1>4. P \in SUBSET Nat
  BY <1>1
<1>5. n \in P
  BY <1>2, <1>3, <1>4, Induction
<1> QED BY <1>1, <1>5

\* A client that follows n links.
Visits(f, p, n, v) ==
  v = [m \in 0 .. n |-> IF m = 0 THEN [seen |-> <<>>, at |-> {p}] ELSE Followed(f, v[m - 1])]

LEMMA ThereAreVisits == ASSUME NEW f, NEW p, NEW n \in Nat PROVE \E v : Visits(f, p, n, v)
<1>1. PICK start : start = [seen |-> <<>>, at |-> {p}]
  OBVIOUS
<1>2. PICK P : P = {j \in Nat : \E v : v = [m \in 0 .. j |-> IF m = 0 THEN start ELSE Followed(f, v[m - 1])]}
  OBVIOUS
<1>3. 0 \in P
  <2>1. PICK v : v = [m \in 0 .. 0 |-> start]
    OBVIOUS
  <2>2. \A m \in 0 .. 0 : m = 0
    OBVIOUS
  <2>3. v = [m \in 0 .. 0 |-> IF m = 0 THEN start ELSE Followed(f, v[m - 1])]
    BY <2>1, <2>2
  <2> QED BY <1>2, <2>3
<1>4. ASSUME NEW j \in P PROVE j + 1 \in P
  <2>1. j \in Nat
    BY <1>2
  <2>2. PICK v : v = [m \in 0 .. j |-> IF m = 0 THEN start ELSE Followed(f, v[m - 1])]
    BY <1>2
  <2>3. PICK u : u = [m \in 0 .. j + 1 |-> IF m = j + 1 THEN Followed(f, v[j]) ELSE v[m]]
    OBVIOUS
  <2>4. u[j + 1] = Followed(f, v[j]) /\ \A m \in 0 .. j : u[m] = v[m]
    BY <2>1, <2>3
  <2>5. ASSUME NEW m \in 0 .. j + 1 PROVE u[m] = IF m = 0 THEN start ELSE Followed(f, u[m - 1])
    <3>1. CASE m = j + 1
      <4>1. m # 0 /\ m - 1 = j /\ j \in 0 .. j
        BY <2>1, <3>1
      <4> QED BY <2>4, <3>1, <4>1
    <3>2. CASE m # j + 1
      <4>1. m \in 0 .. j /\ (m # 0 => m - 1 \in 0 .. j)
        BY <2>1, <3>2
      <4>2. v[m] = IF m = 0 THEN start ELSE Followed(f, v[m - 1])
        BY <2>2, <4>1
      <4> QED BY <2>4, <4>1, <4>2
    <3> QED BY <3>1, <3>2
  <2>6. u = [m \in 0 .. j + 1 |-> IF m = 0 THEN start ELSE Followed(f, u[m - 1])]
    BY <2>3, <2>5
  <2>7. \E z : z = [m \in 0 .. j + 1 |-> IF m = 0 THEN start ELSE Followed(f, z[m - 1])]
    BY <2>6
  <2> QED BY <1>2, <2>1, <2>7
<1>5. P \in SUBSET Nat
  BY <1>2
<1>6. n \in P
  BY <1>3, <1>4, <1>5, Induction
<1> QED BY <1>1, <1>2, <1>6 DEF Visits

LEMMA PagesIs == ASSUME NEW f, NEW p, NEW n \in Nat, n = S!Cardinality(DOMAIN f) + 2
                 PROVE  \E v : Visits(f, p, n, v) /\ S!Pages(f, p) = v[n]
<1>1. \E v : Visits(f, p, n, v)
  BY ThereAreVisits
<1>2. PICK v : v = CHOOSE z : Visits(f, p, n, z)
  OBVIOUS
<1>3. Visits(f, p, n, v)
  BY <1>1, <1>2
<1>4. S!Pages(f, p) = v[n]
  BY <1>2 DEF S!Pages, Visits, Followed
<1> QED BY <1>3, <1>4

ParameterRecords ==
  [minb : SUBSET Nat, maxb : SUBSET Nat, mine : SUBSET Nat, maxe : SUBSET Nat, after : SUBSET Nat, before : SUBSET Nat,
   limit : SUBSET Nat, offset : SUBSET Nat, reverse : BOOLEAN]

\* Without its limit, p asks for all the obsels of q but for the first k.
LEMMA WholeSlice ==
  ASSUME NEW f, NEW p \in ParameterRecords, NEW q, NEW c, NEW k, NEW w, Asks(f, p, q, c, k, w)
  PROVE  S!Slice(f, [p EXCEPT !.limit = {}]) = [i \in 1 .. w |-> q[k + i]]
<1>1. PICK u : u = [p EXCEPT !.limit = {}]
  OBVIOUS
<1>2. /\ u.minb = p.minb /\ u.maxb = p.maxb /\ u.mine = p.mine /\ u.maxe = p.maxe /\ u.after = p.after /\ u.before = p.before
      /\ u.offset = p.offset /\ u.reverse = p.reverse /\ u.limit = {}
  BY <1>1 DEF ParameterRecords
<1>3. Parameters(u) /\ ~u.reverse /\ u.before = {} /\ p.before = {}
  BY <1>2 DEF Asks, Followable, Parameters, GivenOnce
<1>4. \A o : (Bounded(f, u, o) <=> Bounded(f, p, o)) /\ (InTheInterval(f, u, o) <=> InTheInterval(f, p, o))
  BY <1>2 DEF Bounded, InTheInterval
<1>5. S!Selected(f, u) = S!Selected(f, p)
  <2>1. CASE p.after = {}
    <3>1. \A o : o \in S!Selected(f, u) <=> o \in DOMAIN f /\ Bounded(f, u, o) /\ InTheInterval(f, u, o)
      BY <1>2, <1>3, <2>1, SelectedAll
    <3>2. \A o : o \in S!Selected(f, p) <=> o \in DOMAIN f /\ Bounded(f, p, o) /\ InTheInterval(f, p, o)
      BY <1>3, <2>1, SelectedAll
    <3> QED BY <1>4, <3>1, <3>2
  <2>2. CASE p.after # {}
    <3>1. PICK a : p.after = {a}
      BY <2>2 DEF Asks, Followable, Parameters, GivenOnce
    <3>2. \A o : o \in S!Selected(f, u) <=>
             /\ o \in DOMAIN f /\ Bounded(f, u, o)
             /\ \/ InTheInterval(f, u, o) /\ f[o].e > f[a].e
                \/ f[o].e = f[a].e /\ f[o].b > f[a].b
                \/ f[o].e = f[a].e /\ f[o].b = f[a].b /\ o > a
      <4>1. u.after = {a} /\ u.before = {}
        BY <1>2, <1>3, <3>1
      <4> QED BY <4>1, SelectedAfter
    <3>3. \A o : o \in S!Selected(f, p) <=>
             /\ o \in DOMAIN f /\ Bounded(f, p, o)
             /\ \/ InTheInterval(f, p, o) /\ f[o].e > f[a].e
                \/ f[o].e = f[a].e /\ f[o].b > f[a].b
                \/ f[o].e = f[a].e /\ f[o].b = f[a].b /\ o > a
      BY <1>3, <3>1, SelectedAfter
    <3> QED BY <1>4, <3>2, <3>3
  <2> QED BY <2>1, <2>2
<1>6. Skipped(u) = k /\ \A n : Taken(u, n) = n
  BY <1>2 DEF Asks, Skipped, Taken
<1>7. Collected(f) /\ ListsInOrder(f, S!Selected(f, u), q) /\ c = Cardinality(S!Selected(f, u)) /\ w = Left(c, k)
  BY <1>5 DEF Asks
<1>8. S!Slice(f, u) = [i \in 1 .. Taken(u, Left(c, Skipped(u))) |-> q[Skipped(u) + i]]
  BY <1>3, <1>7, SliceIs
<1>9. Taken(u, Left(c, Skipped(u))) = w /\ Skipped(u) = k
  BY <1>6, <1>7
<1>10. S!Slice(f, u) = [i \in 1 .. w |-> q[k + i]]
  BY <1>8, <1>9
<1> QED BY <1>1, <1>10

\* By following the `next' links, a client gets what was asked for, each obsel once
\* and in order, for any obsels that do not end together and any parameters, but
\* for a reversed order and `before', which links do not keep, and upper bounds or a
\* limit of zero, which are taken for none (engine/trace_obsels.py:276-298).
THEOREM PagesLead ==
  ASSUME NEW f, Collected(f), NEW p \in ParameterRecords, Parameters(p), p.after \subseteq DOMAIN f,
         \A m \in p.maxb \cup p.maxe \cup p.limit : m > 0
  PROVE  S!PagesCoverSlice(f, p)
<1>1. SUFFICES ASSUME S!Untied(f), ~p.reverse, p.before = {}
               PROVE  S!Pages(f, p).at = {} /\ S!Pages(f, p).seen = S!Slice(f, [p EXCEPT !.limit = {}])
  BY DEF S!PagesCoverSlice
<1>2. PICK X : X = S!Selected(f, p) /\ X \in SUBSET DOMAIN f
  BY DEF S!Selected
<1>3. PICK q : ListsInOrder(f, X, q)
  BY <1>2, ThereIsAList
<1>4. PICK c : c = Cardinality(X) /\ c \in Nat /\ c <= Cardinality(DOMAIN f)
  <2>1. IsFiniteSet(X) /\ Cardinality(X) <= Cardinality(DOMAIN f)
    BY <1>2, FS_Subset DEF Collected
  <2> QED BY <2>1, FS_CardinalityType
<1>5. PICK k : k = Skipped(p) /\ k \in Nat
  BY SkippedAndTaken
<1>6. PICK w : w = Left(c, k) /\ w \in Nat /\ w <= c
  BY <1>4, <1>5, SkippedAndTaken
<1>7. Asks(f, p, q, c, k, w)
  BY <1>1, <1>2, <1>3, <1>4, <1>5, <1>6 DEF Asks, Followable
<1>8. PICK n \in Nat : n = S!Cardinality(DOMAIN f) + 2 /\ w < n
  <2>1. S!Cardinality(DOMAIN f) = Cardinality(DOMAIN f) /\ Cardinality(DOMAIN f) \in Nat
    BY SlicesCardinality, FS_CardinalityType DEF Collected
  <2> QED BY <1>4, <1>6, <2>1
<1>9. PICK v : Visits(f, p, n, v) /\ S!Pages(f, p) = v[n]
  BY <1>8, PagesIs
<1>10. v[0] = [seen |-> <<>>, at |-> {p}] /\ \A m \in 1 .. n : v[m] = Followed(f, v[m - 1])
  <2>1. \A m \in 0 .. n : v[m] = IF m = 0 THEN [seen |-> <<>>, at |-> {p}] ELSE Followed(f, v[m - 1])
    BY <1>9 DEF Visits
  <2>2. 0 \in 0 .. n /\ \A m \in 1 .. n : m \in 0 .. n /\ m # 0
    OBVIOUS
  <2> QED BY <2>1, <2>2
<1>11. Seen(p, q, k, w, n, v[n])
  BY <1>7, <1>10, AllSeen
<1>12. v[n].at = {} /\ v[n].seen = [i \in 1 .. w |-> q[k + i]]
  <2>1. ~ \E d \in 0 .. w : n <= d
    BY <1>6, <1>8
  <2> QED BY <1>11, <2>1 DEF Seen
<1> QED BY <1>7, <1>9, <1>12, WholeSlice

\* This is so for each of the inputs of the run.
THEOREM PagesCorrect == LibrarySpec => []PagesCover
<1>1. Applied => PagesCover
  <2> SUFFICES ASSUME Applied, part = "slices" PROVE S!PagesCoverSlice(input.f, input.p)
    BY DEF PagesCover
  <2>1. input \in SliceInputs
    BY DEF Applied, Functions
  <2>2. Parameters(input.p) /\ input.p.after \subseteq DOMAIN input.f
    BY <2>1, SliceInputsFit
  <2>3. \A m \in input.p.maxb \cup input.p.maxe \cup input.p.limit : m > 0
    BY <2>1, SliceInputsFit
  <2>4. PICK n \in Nat : input.f \in [1 .. n -> Intervals]
    BY <2>1, SliceInputsFit
  <2>5. Collected(input.f)
    BY <2>4, IntervalsAreCollected
  <2>6. input.p \in ParameterRecords
    <3>1. PICK u \in 1 .. 3 : input \in [f : [1 .. u -> Intervals], p : SliceParameters(u)]
      BY <2>1 DEF SliceInputs
    <3>2. \A Y \in SUBSET Nat : Opt(Y) \subseteq SUBSET Nat
      BY DEF Opt
    <3>3. {1} \in SUBSET Nat /\ {1, 2} \in SUBSET Nat /\ {2} \cap (1 .. u) \in SUBSET Nat
      OBVIOUS
    <3> QED BY <3>1, <3>2, <3>3 DEF SliceParameters, ParameterRecords
  <2> QED BY <2>2, <2>3, <2>5, <2>6, PagesLead
<1> QED BY <1>1, AppliedKept, PTL
----------------------------------------------------------------------------
(* Graphs of obsels *)

LEMMA GraphsCardinality == \A X : G!Cardinality(X) = Cardinality(X)
BY DEF G!Cardinality, Cardinality

\* What is reached is the least set with the node that the arcs do not leave.
LEMMA ReachedIs ==
  ASSUME NEW node, NEW g, NEW prune, NEW R, R = G!Reached(node, g, prune)
  PROVE  /\ node \in R /\ R \subseteq {node} \cup (G!Blank \ prune)
         /\ G!Spreads(R, g, prune)
         /\ \A C \in SUBSET (G!Blank \cup {node}) : node \in C /\ G!Spreads(C, g, prune) => R \subseteq C
<1> DEFINE U == G!Blank \cup {node}
<1>1. \A n : n \in R <=> n \in U /\ \A C \in SUBSET U : node \in C /\ G!Spreads(C, g, prune) => n \in C
  BY DEF G!Reached
<1>2. node \in R
  BY <1>1
<1>3. \A C \in SUBSET U : node \in C /\ G!Spreads(C, g, prune) => R \subseteq C
  BY <1>1
<1>4. R \subseteq {node} \cup (G!Blank \ prune)
  <2>1. G!Spreads({node} \cup (G!Blank \ prune), g, prune)
    BY DEF G!Spreads
  <2> QED BY <1>3, <2>1
<1>5. G!Spreads(R, g, prune)
  <2>1. SUFFICES ASSUME NEW t \in g, NEW x \in {t[1], t[3]} \cap R, NEW m \in {t[1], t[3]} \cap G!Blank, m \notin prune
                 PROVE  m \in R
    BY DEF G!Spreads
  <2>2. ASSUME NEW C \in SUBSET U, node \in C, G!Spreads(C, g, prune) PROVE m \in C
    BY <1>3, <2>1, <2>2 DEF G!Spreads
  <2> QED BY <1>1, <2>1, <2>2
<1> QED BY <1>2, <1>3, <1>4, <1>5

\* Two nodes of the same arc are reached together.
LEMMA ReachesOn ==
  ASSUME NEW node, NEW g, NEW prune, NEW t \in g, NEW x, NEW m,
         x \in {t[1], t[3]}, m \in {t[1], t[3]}, x \in G!Reached(node, g, prune), m \in G!Blank, m \notin prune
  PROVE  m \in G!Reached(node, g, prune)
BY ReachedIs DEF G!Spreads

\* The nodes that are reached have arcs.
LEMMA ReachedHasArcs ==
  ASSUME NEW node, NEW g, NEW prune, NEW m \in G!Reached(node, g, prune), m # node
  PROVE  m \in G!Blank /\ m \notin prune /\ \E t \in g : m \in {t[1], t[3]}
<1> DEFINE C == {node} \cup {n \in G!Blank : \E t \in g : n \in {t[1], t[3]}}
<1>1. G!Spreads(C, g, prune)
  BY DEF G!Spreads
<1>2. C \in SUBSET (G!Blank \cup {node}) /\ node \in C
  OBVIOUS
<1>3. G!Reached(node, g, prune) \subseteq C
  <2> HIDE DEF C
  <2> QED BY <1>1, <1>2, ReachedIs
<1>4. G!Reached(node, g, prune) \subseteq {node} \cup (G!Blank \ prune)
  BY ReachedIs
<1> QED BY <1>3, <1>4

\* A value belongs to one obsel.
LEMMA OwnedByOne ==
  ASSUME NEW g, G!Owned(g), IsFiniteSet(G!Obsels(g)),
         NEW s \in G!Blank \ G!Obsels(g), NEW t \in g, s \in {t[1], t[3]}
  PROVE  \E o \in G!Obsels(g) : /\ s \in G!Reached(o, g, G!Obsels(g))
                                    /\ \A q \in G!Obsels(g) : s \in G!Reached(q, g, G!Obsels(g)) => q = o
<1> DEFINE Obs == G!Obsels(g)
           Owners == {o \in Obs : s \in G!Reached(o, g, Obs)}
<1>1. G!About(g, s) # {}
  BY DEF G!About
<1>2. Cardinality(Owners) = 1
  BY <1>1, GraphsCardinality DEF G!Owned
<1>3. IsFiniteSet(Owners)
  BY FS_Subset
<1>4. PICK o : Owners = {o}
  <2> HIDE DEF Owners
  <2> QED BY <1>2, <1>3, FS_Singleton
<1>5. o \in Owners /\ \A q \in Owners : q = o
  <2> HIDE DEF Owners
  <2> QED BY <1>4
<1> QED BY <1>5

\* Graphs are sets of triples.
Triples(g) == \E N : g \subseteq N \X N \X N

LEMMA TripleIs ==
  ASSUME NEW g, Triples(g), NEW t \in g
  PROVE  t = <<t[1], t[2], t[3]>>
BY DEF Triples

LEMMA ObselsAre ==
  ASSUME NEW g, Triples(g), NEW o
  PROVE  o \in G!Obsels(g) <=> G!InTrace(o) \in g
<1>1. ASSUME o \in G!Obsels(g) PROVE G!InTrace(o) \in g
  <2>1. PICK t \in g : t[1] = o /\ t[2] = "hasTrace" /\ t[3] = G!Trace
    BY <1>1 DEF G!Obsels
  <2> QED BY <2>1, TripleIs DEF G!InTrace
<1>2. ASSUME G!InTrace(o) \in g PROVE o \in G!Obsels(g)
  BY <1>2 DEF G!Obsels, G!InTrace
<1> QED BY <1>1, <1>2

\* A graph that holds an obsel's arcs, and says of the obsels at their ends that
\* they are obsels, and nothing that the store does not, describes it as the store does.
LEMMA DescribesAs ==
  ASSUME NEW store, Triples(store), NEW o, NEW g, g \subseteq store, G!About(store, o) \subseteq g,
         \A n \in G!Related(o, store) : G!InTrace(n) \in g
  PROVE  /\ G!Attributes(o, g) = G!Attributes(o, store)
         /\ G!Relations(o, g) = G!Relations(o, store)
         /\ G!InverseRelations(o, g) = G!InverseRelations(o, store)
<1>1. Triples(g)
  BY DEF Triples
<1>2. \A n \in G!Obsels(g) : n \in G!Obsels(store)
  BY <1>1, ObselsAre
<1>3. \A n \in G!Related(o, store) : n \in G!Obsels(g)
  BY <1>1, ObselsAre
<1>4. \A t \in store : t[1] = o => t \in g /\ (t[3] \in G!Obsels(g) <=> t[3] \in G!Obsels(store))
  BY <1>2, <1>3 DEF G!About, G!Related
<1>5. \A t \in store : t[3] = o => t \in g /\ (t[1] \in G!Obsels(g) <=> t[1] \in G!Obsels(store))
  BY <1>2, <1>3 DEF G!About, G!Related
<1>6. G!Attributes(o, g) = G!Attributes(o, store)
  <2>1. {u \in g : u[1] = o /\ u[2] # "hasTrace" /\ u[3] \notin G!Obsels(g)}
          = {u \in store : u[1] = o /\ u[2] # "hasTrace" /\ u[3] \notin G!Obsels(store)}
    BY <1>4
  <2> QED BY <2>1 DEF G!Attributes
<1>7. G!Relations(o, g) = G!Relations(o, store)
  <2>1. {u \in g : u[1] = o /\ u[2] # "hasTrace" /\ u[3] \in G!Obsels(g)}
          = {u \in store : u[1] = o /\ u[2] # "hasTrace" /\ u[3] \in G!Obsels(store)}
    BY <1>4
  <2> QED BY <2>1 DEF G!Relations
<1>8. G!InverseRelations(o, g) = G!InverseRelations(o, store)
  <2>1. {u \in g : u[3] = o /\ u[1] \in G!Obsels(g)} = {u \in store : u[3] = o /\ u[1] \in G!Obsels(store)}
    BY <1>5
  <2> QED BY <2>1 DEF G!InverseRelations
<1> QED BY <1>6, <1>7, <1>8

\* An obsel reads the same in the collection, in its own state when that is first
\* read, and in any slice that it is in, alone or with other obsels: for any store
\* (engine/obsel.py:75-91, 310-338, trace_obsels.py:228-265).
THEOREM ObselReadsTheSame ==
  ASSUME NEW store, Triples(store), NEW o \in G!Obsels(store)
  PROVE  G!SameDescription(o, store)
<1>1. \A q : \A n \in G!Related(q, store) : G!InTrace(n) \in store
  BY ObselsAre DEF G!Related
<1>2. G!ReadsAs(o, G!ObselBounded(o, store), store)
  <2> DEFINE g == G!ObselBounded(o, store)
  <2>1. G!Bounded(o, store, {}) \subseteq store /\ G!About(store, o) \subseteq G!Bounded(o, store, {})
    <3>1. o \in G!Reached(o, store, {})
      BY ReachedIs
    <3> QED BY <3>1 DEF G!Bounded, G!About
  <2>2. g = G!Bounded(o, store, {}) \cup {G!InTrace(n) : n \in G!Related(o, store)}
    BY DEF G!ObselBounded
  <2>3. g \subseteq store /\ G!About(store, o) \subseteq g /\ \A n \in G!Related(o, store) : G!InTrace(n) \in g
    BY <1>1, <2>1, <2>2
  <2> HIDE DEF g
  <2> QED BY <2>3, DescribesAs DEF G!ReadsAs, g
<1>3. ASSUME NEW slice \in SUBSET G!Obsels(store), o \in slice
      PROVE  G!ReadsAs(o, G!Described(slice, store), store)
  <2>1. PICK W : /\ W \subseteq store
                 /\ G!Described(slice, store) = (UNION {G!About(store, q) : q \in slice})
                      \cup {G!InTrace(n) : n \in UNION {G!Related(q, store) : q \in slice}} \cup W
    <3> DEFINE Out(N) == {t \in store : t[1] \in N}
               Values(N) == {t[3] : t \in Out(N)} \cap G!Blank
               W == Out(Values(slice)) \cup Out(Values(Values(slice)))
    <3>1. W \subseteq store
      OBVIOUS
    <3>2. G!Described(slice, store) = (UNION {G!About(store, q) : q \in slice})
            \cup {G!InTrace(n) : n \in UNION {G!Related(q, store) : q \in slice}} \cup W
      BY DEF G!Described
    <3> HIDE DEF W
    <3> QED BY <3>1, <3>2
  <2> DEFINE g == G!Described(slice, store)
  <2>2. \A q : G!About(store, q) \subseteq store
    BY DEF G!About
  <2>3. g \subseteq store
    BY <1>1, <2>1, <2>2
  <2>4. G!About(store, o) \subseteq g
    BY <1>3, <2>1
  <2>5. \A n \in G!Related(o, store) : G!InTrace(n) \in g
    <3>1. \A n \in G!Related(o, store) : n \in UNION {G!Related(q, store) : q \in slice}
      BY <1>3
    <3> QED BY <2>1, <3>1
  <2> HIDE DEF g
  <2> QED BY <2>3, <2>4, <2>5, DescribesAs DEF G!ReadsAs, g
<1> QED BY <1>2, <1>3 DEF G!SameDescription

\* When obsels have URIs, they are not on the way to other nodes.
LEMMA NotPruned ==
  ASSUME NEW store, NEW X, X \cap G!Blank = {}, NEW o
  PROVE  G!Reached(o, store, X) = G!Reached(o, store, {})
<1>1. \A C : G!Spreads(C, store, X) <=> G!Spreads(C, store, {})
  BY DEF G!Spreads
<1> QED BY <1>1 DEF G!Reached

\* What is reached from one obsel is not reached from another.
LEMMA ReachedByOne ==
  ASSUME NEW store, G!Owned(store), IsFiniteSet(G!Obsels(store)), G!Obsels(store) \cap G!Blank = {},
         NEW o \in G!Obsels(store), NEW q \in G!Obsels(store), o # q
  PROVE  G!Reached(o, store, {}) \cap G!Reached(q, store, {}) = {}
<1>1. SUFFICES ASSUME NEW s \in G!Reached(o, store, {}), s \in G!Reached(q, store, {})
               PROVE  FALSE
  OBVIOUS
<1>2. s \in G!Blank /\ s \notin G!Obsels(store) /\ \E t \in store : s \in {t[1], t[3]}
  <2>1. s # o \/ s # q
    OBVIOUS
  <2>2. s \in G!Blank
    BY <1>1, <2>1, ReachedHasArcs
  <2>3. s # o
    BY <2>2
  <2> QED BY <1>1, <2>2, <2>3, ReachedHasArcs
<1>3. s \in G!Reached(o, store, G!Obsels(store)) /\ s \in G!Reached(q, store, G!Obsels(store))
  BY <1>1, NotPruned
<1>4. PICK p : \A r \in G!Obsels(store) : s \in G!Reached(r, store, G!Obsels(store)) => r = p
  BY <1>2, OwnedByOne
<1> QED BY <1>3, <1>4

\* An obsel disappears with its arcs and its values and nothing else: for any
\* store where values belong to one obsel (engine/obsel.py:123-130).
THEOREM ObselGoesAlone ==
  ASSUME NEW store, Triples(store), IsFiniteSet(G!Obsels(store)), G!Obsels(store) \cap G!Blank = {},
         NEW o \in G!Obsels(store), o # G!Trace
  PROVE  G!DeletedAlone(o, store)
<1> DEFINE Obs == G!Obsels(store)
           R == G!Reached(o, store, {})
           rest == G!Delete(o, store)
<1>1. SUFFICES ASSUME G!Owned(store)
               PROVE  /\ G!About(rest, o) = {}
                      /\ \A q \in Obs \ {o} :
                           /\ G!Attributes(q, rest) = G!Attributes(q, store)
                           /\ G!Relations(q, rest) = {r \in G!Relations(q, store) : r[2] # o}
                      /\ \A s \in G!Blank : G!About(rest, s) # {} => \E q \in G!Obsels(rest) : s \in G!Reached(q, rest, {})
  BY DEF G!DeletedAlone
<1>2. \A t : t \in rest <=> t \in store /\ {t[1], t[3]} \cap R = {}
  BY DEF G!Delete, G!Bounded, G!About
<1>3. o \in R /\ R \subseteq {o} \cup G!Blank
  BY ReachedIs
<1>4. G!Trace \notin R /\ \A q \in Obs : q \in R => q = o
  <2>1. G!Trace \notin G!Blank
    BY DEF G!Trace, G!Blank
  <2> QED BY <1>3, <2>1
<1> HIDE DEF R, rest
<1>5. Triples(rest)
  BY <1>2 DEF Triples
<1>6. G!Obsels(rest) = Obs \ {o}
  <2>1. ASSUME NEW q PROVE q \in G!Obsels(rest) <=> q \in Obs /\ q # o
    <3>1. G!InTrace(q)[1] = q /\ G!InTrace(q)[3] = G!Trace
      BY DEF G!InTrace
    <3>2. q \in G!Obsels(rest) <=> G!InTrace(q) \in rest
      BY <1>5, ObselsAre
    <3>3. q \in Obs <=> G!InTrace(q) \in store
      BY ObselsAre
    <3> QED BY <1>2, <1>3, <1>4, <3>1, <3>2, <3>3
  <2> QED BY <2>1
<1>7. G!About(rest, o) = {}
  BY <1>2, <1>3 DEF G!About
<1>8. ASSUME NEW q \in Obs \ {o}, NEW t \in store, t[1] = q
      PROVE  t \in rest <=> t[3] # o
  <2>1. q \notin R
    BY <1>4
  <2>2. ASSUME t[3] \in R, t[3] # o PROVE FALSE
    <3>1. t[3] \in G!Blank
      BY <1>3, <2>2
    <3>2. t[3] \in G!Reached(q, store, {})
      <4>1. q \in G!Reached(q, store, {})
        BY ReachedIs
      <4> QED BY <1>8, <3>1, <4>1, ReachesOn
    <3> QED BY <1>1, <2>2, <3>2, ReachedByOne DEF R
  <2> QED BY <1>2, <1>3, <1>8, <2>1, <2>2
<1>9. ASSUME NEW q \in Obs \ {o} PROVE G!Attributes(q, rest) = G!Attributes(q, store)
  <2>1. \A t : t \in rest /\ t[1] = q <=> t \in store /\ t[1] = q /\ t[3] # o
    BY <1>2, <1>8
  <2>2. {u \in rest : u[1] = q /\ u[2] # "hasTrace" /\ u[3] \notin G!Obsels(rest)}
          = {u \in store : u[1] = q /\ u[2] # "hasTrace" /\ u[3] \notin G!Obsels(store)}
    BY <1>6, <2>1
  <2> QED BY <2>2 DEF G!Attributes
<1>10. ASSUME NEW q \in Obs \ {o} PROVE G!Relations(q, rest) = {r \in G!Relations(q, store) : r[2] # o}
  <2>1. \A t : t \in rest /\ t[1] = q <=> t \in store /\ t[1] = q /\ t[3] # o
    BY <1>2, <1>8
  <2> DEFINE U == {u \in store : u[1] = q /\ u[2] # "hasTrace" /\ u[3] \in G!Obsels(store)}
  <2>2. {u \in rest : u[1] = q /\ u[2] # "hasTrace" /\ u[3] \in G!Obsels(rest)} = {u \in U : u[3] # o}
    BY <1>6, <2>1
  <2> HIDE DEF U
  <2>3. {<<u[2], u[3]>> : u \in {u \in U : u[3] # o}} = {r \in {<<u[2], u[3]>> : u \in U} : r[2] # o}
    OBVIOUS
  <2> QED BY <2>2, <2>3 DEF G!Relations, U
<1>11. ASSUME NEW s \in G!Blank, G!About(rest, s) # {} PROVE \E q \in G!Obsels(rest) : s \in G!Reached(q, rest, {})
  <2>1. PICK t \in rest : s \in {t[1], t[3]}
    BY <1>11 DEF G!About
  <2>2. t \in store /\ s \notin R /\ s \notin Obs
    BY <1>2, <2>1
  <2>3. PICK q \in Obs : s \in G!Reached(q, store, {})
    <3>1. PICK q \in Obs : s \in G!Reached(q, store, Obs)
      BY <1>1, <2>1, <2>2, OwnedByOne
    <3> QED BY <3>1, NotPruned
  <2>4. q # o /\ q \in G!Obsels(rest)
    BY <1>6, <2>2, <2>3 DEF R
  <2> DEFINE Y == G!Reached(q, store, {})
             X == G!Reached(q, rest, {})
  <2>5. Y \cap R = {}
    BY <1>1, <2>4, ReachedByOne DEF R
  <2>6. q \in X /\ q \in Y /\ X \subseteq {q} \cup G!Blank /\ Y \subseteq {q} \cup G!Blank
    BY ReachedIs
  <2>7. G!Spreads(X \cap Y, store, {})
    <3>1. SUFFICES ASSUME NEW u \in store, NEW x \in {u[1], u[3]}, x \in X, x \in Y, NEW n \in {u[1], u[3]}, n \in G!Blank
                   PROVE  n \in X /\ n \in Y
      BY DEF G!Spreads
    <3>2. n \in Y
      BY <3>1, ReachesOn
    <3>3. u \in rest
      <4>1. SUFFICES ASSUME NEW r \in {u[1], u[3]}, r \in R PROVE FALSE
        BY <1>2, <3>1
      <4>2. r # x /\ r # n
        BY <2>5, <3>1, <3>2, <4>1
      <4>3. x = n
        BY <3>1, <4>1, <4>2
      <4>4. x \in R
        BY <3>1, <4>1, <4>3, ReachesOn DEF R
      <4> QED BY <2>5, <3>1, <4>4
    <3> QED BY <3>1, <3>2, <3>3, ReachesOn
  <2>8. Y \subseteq X
    <3> HIDE DEF X
    <3>1. X \cap Y \in SUBSET (G!Blank \cup {q}) /\ q \in X \cap Y
      BY <2>6
    <3>2. Y \subseteq X \cap Y
      BY <2>7, <3>1, ReachedIs
    <3> QED BY <3>2
  <2> QED BY <2>3, <2>4, <2>8
<1> QED BY <1>7, <1>9, <1>10, <1>11 DEF rest

\* The obsels of D have been given their URIs.
UriOf(m) == IF m \in G!Blank THEN G!Minted[m] ELSE m
NodeNow(D, m) == IF m \in D THEN UriOf(m) ELSE m
Moved(D, t) == <<NodeNow(D, t[1]), t[2], NodeNow(D, t[3])>>
AllMoved(D, W) == {Moved(D, t) : t \in W}

\* The URIs that are minted are not in the graph.
Minting == {"n1", "n2"}
Posts(g) ==
  /\ Triples(g) /\ IsFiniteSet(G!Obsels(g))
  /\ G!Obsels(g) \cap G!Blank \subseteq DOMAIN G!Minted
  /\ \A t \in g : t[1] \notin Minting /\ t[3] \notin Minting
  /\ \A t \in g : {t[1], t[3]} \cap (G!Obsels(g) \cup G!Blank) # {}

LEMMA MintedAre ==
  /\ DOMAIN G!Minted \subseteq G!Blank /\ Minting \cap G!Blank = {}
  /\ \A m \in DOMAIN G!Minted : G!Minted[m] \in Minting
BY DEF G!Minted, G!Blank, Minting

LEMMA ObselsHaveArcs ==
  ASSUME NEW g, Posts(g), NEW o \in G!Obsels(g)
  PROVE  o \notin Minting /\ (o \in G!Blank => UriOf(o) \in Minting) /\ (o \notin G!Blank => UriOf(o) = o)
<1>1. \E t \in g : t[1] = o
  BY DEF G!Obsels
<1>2. o \in G!Blank => o \in DOMAIN G!Minted
  BY DEF Posts
<1> QED BY <1>1, <1>2, MintedAre DEF Posts, UriOf

\* A node that is not an obsel of D is in a moved arc where it was in the arc.
LEMMA NowIs ==
  ASSUME NEW g, Posts(g), NEW D \in SUBSET G!Obsels(g), NEW x, x \notin D, x \notin Minting, NEW m
  PROVE  NodeNow(D, m) = x <=> m = x
<1>1. CASE m \in D
  <2>1. UriOf(m) \in Minting \/ UriOf(m) = m
    BY <1>1, ObselsHaveArcs
  <2> QED BY <1>1, <2>1 DEF NodeNow
<1>2. CASE m \notin D
  BY <1>2 DEF NodeNow
<1> QED BY <1>1, <1>2

\* A blank node that is in a moved arc was there before.
LEMMA BlankNow ==
  ASSUME NEW g, Posts(g), NEW D \in SUBSET G!Obsels(g), NEW m, NodeNow(D, m) \in G!Blank
  PROVE  m \notin D /\ NodeNow(D, m) = m
<1>1. ASSUME m \in D PROVE FALSE
  <2>1. UriOf(m) \in G!Blank
    BY <1>1 DEF NodeNow
  <2> QED BY <1>1, <2>1, ObselsHaveArcs, MintedAre
<1> QED BY <1>1 DEF NodeNow

LEMMA NowNext ==
  ASSUME NEW g, Posts(g), NEW D \in SUBSET G!Obsels(g), NEW c \in G!Obsels(g) \ D, NEW m, m \notin Minting
  PROVE  NodeNow(D \cup {c}, m) = IF NodeNow(D, m) = c THEN UriOf(c) ELSE NodeNow(D, m)
<1>1. NodeNow(D, m) = c <=> m = c
  BY NowIs, ObselsHaveArcs
<1> QED BY <1>1 DEF NodeNow

\* Replacing the node of one more obsel moves the arcs on.
LEMMA MovedOn ==
  ASSUME NEW g, Posts(g), NEW D \in SUBSET G!Obsels(g), NEW c \in G!Obsels(g) \ D, NEW W \in SUBSET g
  PROVE  G!Replaced(AllMoved(D, W), c, UriOf(c)) = AllMoved(D \cup {c}, W)
<1>1. \A t \in W : t[1] \notin Minting /\ t[3] \notin Minting
  BY DEF Posts
<1>2. \A t \in W : Moved(D, t)[1] = NodeNow(D, t[1]) /\ Moved(D, t)[2] = t[2] /\ Moved(D, t)[3] = NodeNow(D, t[3])
  BY DEF Moved
<1> DEFINE Sub(n) == IF n = c THEN UriOf(c) ELSE n
<1>3. \A t \in W : Moved(D \cup {c}, t) = <<Sub(NodeNow(D, t[1])), t[2], Sub(NodeNow(D, t[3]))>>
  BY <1>1, NowNext DEF Moved
<1>4. G!Replaced(AllMoved(D, W), c, UriOf(c)) = {<<Sub(u[1]), u[2], Sub(u[3])>> : u \in AllMoved(D, W)}
  BY DEF G!Replaced
<1> HIDE DEF Sub
<1>5. \A t \in W : <<Sub(Moved(D, t)[1]), Moved(D, t)[2], Sub(Moved(D, t)[3])>> = Moved(D \cup {c}, t)
  BY <1>2, <1>3
<1>6. {<<Sub(u[1]), u[2], Sub(u[3])>> : u \in {Moved(D, t) : t \in W}} = {Moved(D \cup {c}, t) : t \in W}
  BY <1>5
<1> QED BY <1>4, <1>6 DEF AllMoved

\* From an obsel that is not created yet, the same is reached as at first.
LEMMA ReachedLater ==
  ASSUME NEW g, Posts(g), NEW D \in SUBSET G!Obsels(g), NEW c \in G!Obsels(g) \ D, NEW L,
         L = (G!Obsels(g) \cap G!Blank) \ (D \cup {c})
  PROVE  G!Reached(c, AllMoved(D, g), L) = G!Reached(c, g, G!Obsels(g))
<1> DEFINE Obs == G!Obsels(g)
           R == G!Reached(c, g, Obs)
           Q == G!Reached(c, AllMoved(D, g), L)
<1>1. c \in R /\ c \in Q /\ R \subseteq {c} \cup (G!Blank \ Obs) /\ Q \subseteq {c} \cup G!Blank
  BY ReachedIs
<1>2. \A x \in R : x \notin D /\ x \notin Minting
  BY <1>1, MintedAre, ObselsHaveArcs
<1>3. \A t \in g : Moved(D, t) \in AllMoved(D, g) /\ Moved(D, t)[1] = NodeNow(D, t[1]) /\ Moved(D, t)[3] = NodeNow(D, t[3])
  BY DEF Moved, AllMoved
<1> HIDE DEF R, Q
<1>4. G!Spreads(R, AllMoved(D, g), L)
  <2>1. SUFFICES ASSUME NEW t \in g, NEW x \in {NodeNow(D, t[1]), NodeNow(D, t[3])}, x \in R,
                        NEW m \in {NodeNow(D, t[1]), NodeNow(D, t[3])}, m \in G!Blank, m \notin L
                 PROVE  m \in R
    BY <1>3 DEF G!Spreads, AllMoved
  <2>2. x \in {t[1], t[3]}
    BY <1>2, <2>1, NowIs
  <2>3. m \in {t[1], t[3]} /\ m \notin D
    BY <2>1, BlankNow
  <2>4. CASE m \in Obs
    BY <1>1, <2>1, <2>3, <2>4
  <2>5. CASE m \notin Obs
    BY <2>1, <2>2, <2>3, <2>5, ReachesOn DEF R
  <2> QED BY <2>4, <2>5
<1>5. Q \subseteq R
  <2>1. R \in SUBSET (G!Blank \cup {c})
    BY <1>1
  <2> QED BY <1>1, <1>4, <2>1, ReachedIs DEF Q
<1>6. G!Spreads(Q, g, Obs)
  <2>1. SUFFICES ASSUME NEW t \in g, NEW x \in {t[1], t[3]}, x \in Q, NEW m \in {t[1], t[3]}, m \in G!Blank, m \notin Obs
                 PROVE  m \in Q
    BY DEF G!Spreads
  <2>2. x \notin D /\ m \notin D /\ m \notin L
    BY <1>2, <1>5, <2>1
  <2>3. NodeNow(D, x) = x /\ NodeNow(D, m) = m
    BY <2>2 DEF NodeNow
  <2>4. x \in {Moved(D, t)[1], Moved(D, t)[3]} /\ m \in {Moved(D, t)[1], Moved(D, t)[3]}
    BY <1>3, <2>1, <2>3
  <2> QED BY <1>3, <2>1, <2>2, <2>4, ReachesOn DEF Q
<1>7. R \subseteq Q
  <2>1. Q \in SUBSET (G!Blank \cup {c})
    BY <1>1
  <2> QED BY <1>1, <1>6, <2>1, ReachedIs DEF R
<1> QED BY <1>5, <1>7 DEF R, Q

\* The arcs that are stored when the obsels of D are created, and those that are
\* stored with c, when those of L are not created yet.
StillLeft(g, D) == (G!Obsels(g) \cap G!Blank) \ D
Settled(g, D) ==
  {t \in g : {t[1], t[3]} \cap StillLeft(g, D) = {} /\ \E o \in D : {t[1], t[3]} \cap G!Reached(o, g, G!Obsels(g)) # {}}
StoredWith(g, c, L) == {t \in g : {t[1], t[3]} \cap L = {} /\ {t[1], t[3]} \cap G!Reached(c, g, G!Obsels(g)) # {}}

\* The values of an obsel are in no arc with another obsel.
LEMMA ValuesApart ==
  ASSUME NEW g, Posts(g), G!Owned(g), NEW c \in G!Obsels(g), NEW v \in G!Reached(c, g, G!Obsels(g)), v # c,
         NEW t \in g, v \in {t[1], t[3]}, NEW q \in G!Obsels(g), q \in {t[1], t[3]}
  PROVE  q = c
<1>1. v \in G!Blank \ G!Obsels(g)
  BY ReachedHasArcs
<1>2. q \in G!Reached(q, g, G!Obsels(g))
  BY ReachedIs
<1>3. v \in G!Reached(q, g, G!Obsels(g))
  BY <1>1, <1>2, ReachesOn
<1>4. PICK p : \A r \in G!Obsels(g) : v \in G!Reached(r, g, G!Obsels(g)) => r = p
  BY <1>1, OwnedByOne DEF Posts
<1> QED BY <1>3, <1>4

\* The description of a candidate, without the obsels to come.
LEMMA AloneIs ==
  ASSUME NEW g, Posts(g), G!Owned(g), NEW D \in SUBSET G!Obsels(g), NEW c \in G!Obsels(g) \ D, NEW L, L = StillLeft(g, D \cup {c})
  PROVE  G!Alone(G!Bounded(c, AllMoved(D, g), L), c, L) = AllMoved(D, StoredWith(g, c, L))
<1> DEFINE Obs == G!Obsels(g)
           R == G!Reached(c, g, Obs)
           Apart(u) == ~((u[1] = c /\ u[3] \in L) \/ (u[1] \in L /\ u[3] = c))
<1>1. G!Reached(c, AllMoved(D, g), L) = R
  BY ReachedLater DEF StillLeft
<1>2. \A u : u \in G!Alone(G!Bounded(c, AllMoved(D, g), L), c, L)
               <=> u \in AllMoved(D, g) /\ {u[1], u[3]} \cap R # {} /\ Apart(u)
  BY <1>1 DEF G!Alone, G!Bounded, G!About
<1>3. c \in R /\ R \subseteq {c} \cup (G!Blank \ Obs)
  BY ReachedIs
<1>4. \A x \in R \cup L : x \notin D /\ x \notin Minting
  BY <1>3, MintedAre, ObselsHaveArcs DEF StillLeft
<1> HIDE DEF R
<1>5. \A t \in g : Moved(D, t)[1] = NodeNow(D, t[1]) /\ Moved(D, t)[3] = NodeNow(D, t[3])
  BY DEF Moved
<1>6. \A t \in g, x \in R \cup L : (Moved(D, t)[1] = x <=> t[1] = x) /\ (Moved(D, t)[3] = x <=> t[3] = x)
  <2>1. ASSUME NEW t \in g, NEW x \in R \cup L
        PROVE  (NodeNow(D, t[1]) = x <=> t[1] = x) /\ (NodeNow(D, t[3]) = x <=> t[3] = x)
    BY <1>4, NowIs
  <2>2. ASSUME NEW t \in g, NEW x \in R \cup L
        PROVE  (Moved(D, t)[1] = x <=> t[1] = x) /\ (Moved(D, t)[3] = x <=> t[3] = x)
    <3>1. Moved(D, t)[1] = NodeNow(D, t[1]) /\ Moved(D, t)[3] = NodeNow(D, t[3])
      BY <1>5
    <3> QED BY <2>1, <3>1
  <2> QED BY <2>2
<1>7. ASSUME NEW t \in g
      PROVE  {Moved(D, t)[1], Moved(D, t)[3]} \cap R # {} /\ Apart(Moved(D, t)) <=> t \in StoredWith(g, c, L)
  <2>1. {Moved(D, t)[1], Moved(D, t)[3]} \cap R # {} <=> {t[1], t[3]} \cap R # {}
    BY <1>6
  <2>2. Apart(Moved(D, t)) <=> Apart(t)
    BY <1>3, <1>6
  <2>3. ASSUME NEW x \in {t[1], t[3]} \cap R, Apart(t), NEW q \in {t[1], t[3]} \cap L PROVE FALSE
    <3>1. q \in Obs /\ q # c
      BY DEF StillLeft
    <3>2. x = c
      BY <2>3, <3>1, ValuesApart DEF R
    <3> QED BY <2>3, <3>1, <3>2
  <2>4. {t[1], t[3]} \cap L = {} => Apart(t)
    OBVIOUS
  <2> HIDE DEF Apart
  <2>5. t \in StoredWith(g, c, L) <=> {t[1], t[3]} \cap L = {} /\ {t[1], t[3]} \cap R # {}
    BY DEF StoredWith, R
  <2> QED BY <2>1, <2>2, <2>3, <2>4, <2>5
<1> HIDE DEF Apart
<1>8. \A u : u \in AllMoved(D, StoredWith(g, c, L)) <=> \E t \in g : t \in StoredWith(g, c, L) /\ u = Moved(D, t)
  BY DEF AllMoved, StoredWith
<1>9. \A u : u \in AllMoved(D, g) <=> \E t \in g : u = Moved(D, t)
  BY DEF AllMoved
<1>10. \A u : u \in G!Alone(G!Bounded(c, AllMoved(D, g), L), c, L) <=> u \in AllMoved(D, StoredWith(g, c, L))
  <2> DEFINE SlotFits(u) == {u[1], u[3]} \cap R # {} /\ Apart(u)
  <2>1. \A u : u \in G!Alone(G!Bounded(c, AllMoved(D, g), L), c, L) <=> u \in AllMoved(D, g) /\ SlotFits(u)
    BY <1>2
  <2>2. \A t \in g : SlotFits(Moved(D, t)) <=> t \in StoredWith(g, c, L)
    BY <1>7
  <2> HIDE DEF SlotFits
  <2>3. ASSUME NEW u, u \in AllMoved(D, g), SlotFits(u) PROVE u \in AllMoved(D, StoredWith(g, c, L))
    <3>1. PICK t \in g : u = Moved(D, t)
      BY <1>9, <2>3
    <3>2. t \in StoredWith(g, c, L)
      BY <2>2, <2>3, <3>1
    <3> QED BY <1>8, <3>1, <3>2
  <2>4. ASSUME NEW u \in AllMoved(D, StoredWith(g, c, L)) PROVE u \in AllMoved(D, g) /\ SlotFits(u)
    <3>1. PICK t \in g : t \in StoredWith(g, c, L) /\ u = Moved(D, t)
      BY <1>8
    <3>2. u \in AllMoved(D, g)
      BY <1>9, <3>1
    <3> QED BY <2>2, <3>1, <3>2
  <2> QED BY <2>1, <2>3, <2>4
<1> QED BY <1>10 DEF G!Alone

LEMMA SettledNext ==
  ASSUME NEW g, Posts(g), NEW D \in SUBSET G!Obsels(g), NEW c \in G!Obsels(g) \ D
  PROVE  /\ AllMoved(D \cup {c}, Settled(g, D \cup {c}))
              = AllMoved(D, Settled(g, D)) \cup AllMoved(D \cup {c}, StoredWith(g, c, StillLeft(g, D \cup {c})))
<1> DEFINE L == StillLeft(g, D \cup {c})
<1>1. \A x : x \in StillLeft(g, D) <=> x \in L \/ (x = c /\ c \in G!Blank)
  BY DEF StillLeft
<1>2. c \in G!Reached(c, g, G!Obsels(g))
  BY ReachedIs
<1>3. Settled(g, D \cup {c}) = Settled(g, D) \cup StoredWith(g, c, L)
  BY <1>1, <1>2 DEF Settled, StoredWith
<1>4. ASSUME NEW t \in Settled(g, D) PROVE Moved(D \cup {c}, t) = Moved(D, t)
  <2>1. c \in G!Blank => t[1] # c /\ t[3] # c
    BY <1>1 DEF Settled
  <2>2. c \notin G!Blank => UriOf(c) = c
    BY ObselsHaveArcs
  <2>3. NodeNow(D \cup {c}, t[1]) = NodeNow(D, t[1]) /\ NodeNow(D \cup {c}, t[3]) = NodeNow(D, t[3])
    BY <2>1, <2>2 DEF NodeNow
  <2> QED BY <2>3 DEF Moved
<1> HIDE DEF L
<1>5. AllMoved(D \cup {c}, Settled(g, D)) = AllMoved(D, Settled(g, D))
  BY <1>4 DEF AllMoved
<1>6. \A X, Y : AllMoved(D \cup {c}, X \cup Y) = AllMoved(D \cup {c}, X) \cup AllMoved(D \cup {c}, Y)
  BY DEF AllMoved
<1> QED BY <1>3, <1>5, <1>6 DEF L

\* What a post has done when the obsels of D are created.
IsAcc(acc) == acc = [graph |-> acc.graph, left |-> acc.left, refused |-> acc.refused, store |-> acc.store]
Progress(g, store, D, acc) ==
  /\ acc.graph = AllMoved(D, g) /\ acc.left = StillLeft(g, D)
  /\ acc.store = store \cup AllMoved(D, Settled(g, D))

LEMMA OneMore ==
  ASSUME NEW g, Posts(g), G!Owned(g), NEW store, NEW D \in SUBSET G!Obsels(g), NEW c \in G!Obsels(g) \ D,
         NEW acc, IsAcc(acc), acc.refused \/ Progress(g, store, D, acc), NEW next, next = G!PostOne(acc, c)
  PROVE  IsAcc(next) /\ (next.refused \/ Progress(g, store, D \cup {c}, next))
<1> DEFINE L == acc.left \ {c}
           d == G!Alone(G!Bounded(c, acc.graph, L), c, L)
           Turned == acc.refused \/ (c \notin G!Blank /\ ~G!CheckNew(acc.store, c))
<1>1. next = IF Turned THEN [acc EXCEPT !.refused = TRUE]
             ELSE [graph |-> G!Replaced(acc.graph, c, UriOf(c)), left |-> L, refused |-> FALSE,
                   store |-> acc.store \cup G!Replaced(d, c, UriOf(c)) \cup {G!InTrace(UriOf(c))}]
  BY DEF G!PostOne, UriOf
<1>2. CASE Turned
  <2>1. next = [acc EXCEPT !.refused = TRUE]
    BY <1>1, <1>2
  <2>2. next = [graph |-> acc.graph, left |-> acc.left, refused |-> TRUE, store |-> acc.store]
    BY <2>1 DEF IsAcc
  <2>3. PICK yes : yes = TRUE
    OBVIOUS
  <2>4. next = [graph |-> acc.graph, left |-> acc.left, refused |-> yes, store |-> acc.store]
    BY <2>2, <2>3
  <2>5. next.graph = acc.graph /\ next.left = acc.left /\ next.refused = yes /\ next.store = acc.store
    BY <2>4
  <2> QED BY <2>3, <2>4, <2>5 DEF IsAcc
<1>3. CASE ~Turned
  <2>1. Progress(g, store, D, acc)
    BY <1>3
  <2>2. L = StillLeft(g, D \cup {c})
    BY <2>1 DEF Progress, StillLeft
  <2>3. d = AllMoved(D, StoredWith(g, c, L))
    BY <2>1, <2>2, AloneIs DEF Progress
  <2>4. StoredWith(g, c, L) \in SUBSET g
    BY DEF StoredWith
  <2> HIDE DEF L, d
  <2>5. G!Replaced(d, c, UriOf(c)) = AllMoved(D \cup {c}, StoredWith(g, c, L))
    BY <2>3, <2>4, MovedOn
  <2>6. G!Replaced(acc.graph, c, UriOf(c)) = AllMoved(D \cup {c}, g)
    BY <2>1, MovedOn DEF Progress
  <2>7. G!InTrace(UriOf(c)) \in AllMoved(D \cup {c}, StoredWith(g, c, L))
    <3>1. G!InTrace(c) \in g
      BY ObselsAre DEF Posts
    <3>2. G!InTrace(c) = <<c, "hasTrace", G!Trace>>
      BY DEF G!InTrace
    <3>3. G!Trace \notin G!Blank /\ c \in G!Reached(c, g, G!Obsels(g))
      BY ReachedIs DEF G!Trace, G!Blank
    <3>4. c \notin L /\ G!Trace \notin L
      BY <2>2, <3>3 DEF StillLeft
    <3>5. G!InTrace(c) \in StoredWith(g, c, L)
      BY <3>1, <3>2, <3>3, <3>4 DEF StoredWith
    <3>6. NodeNow(D \cup {c}, c) = UriOf(c)
      BY DEF NodeNow
    <3>7. NodeNow(D \cup {c}, G!Trace) = G!Trace
      <4>1. G!Trace \in G!Obsels(g) => UriOf(G!Trace) = G!Trace
        BY <3>3, ObselsHaveArcs
      <4> QED BY <4>1 DEF NodeNow
    <3>8. Moved(D \cup {c}, G!InTrace(c)) = G!InTrace(UriOf(c))
      BY <3>2, <3>6, <3>7 DEF Moved, G!InTrace
    <3> QED BY <3>5, <3>8 DEF AllMoved
  <2>8. PICK no : no = FALSE
    OBVIOUS
  <2>9. PICK gr, st : /\ gr = G!Replaced(acc.graph, c, UriOf(c))
                      /\ st = acc.store \cup G!Replaced(d, c, UriOf(c)) \cup {G!InTrace(UriOf(c))}
    OBVIOUS
  <2>10. next = [graph |-> gr, left |-> L, refused |-> no, store |-> st]
    BY <1>1, <1>3, <2>8, <2>9
  <2>11. next.graph = gr /\ next.left = L /\ next.refused = no /\ next.store = st
    BY <2>10
  <2>12. st = store \cup AllMoved(D \cup {c}, Settled(g, D \cup {c}))
    <3>1. AllMoved(D \cup {c}, Settled(g, D \cup {c}))
            = AllMoved(D, Settled(g, D)) \cup AllMoved(D \cup {c}, StoredWith(g, c, L))
      BY <2>2, SettledNext
    <3>2. acc.store = store \cup AllMoved(D, Settled(g, D))
      BY <2>1 DEF Progress
    <3> QED BY <2>5, <2>7, <2>9, <3>1, <3>2
  <2> QED BY <2>2, <2>6, <2>9, <2>10, <2>11, <2>12 DEF IsAcc, Progress
<1> QED BY <1>2, <1>3

\* A post has a step for each obsel.
PostStart(store, g, order) == [graph |-> g, left |-> G!Obsels(g) \cap G!Blank, refused |-> order = <<>>, store |-> store]
Proceeds(store, g, order, n, v) ==
  v = [k \in 0 .. n |-> IF k = 0 THEN PostStart(store, g, order) ELSE G!PostOne(v[k - 1], order[k])]

LEMMA PostProceeds ==
  ASSUME NEW store, NEW g, NEW order, NEW n \in Nat
  PROVE  \E v : Proceeds(store, g, order, n, v)
<1>1. PICK P : P = {j \in Nat : \E v : Proceeds(store, g, order, j, v)}
  OBVIOUS
<1>2. 0 \in P
  <2>1. PICK v : v = [k \in 0 .. 0 |-> PostStart(store, g, order)]
    OBVIOUS
  <2>2. v = [k \in 0 .. 0 |-> IF k = 0 THEN PostStart(store, g, order) ELSE G!PostOne(v[k - 1], order[k])]
    BY <2>1
  <2> QED BY <1>1, <2>2 DEF Proceeds
<1>3. ASSUME NEW j \in P PROVE j + 1 \in P
  <2>1. j \in Nat
    BY <1>1
  <2>2. PICK v : v = [k \in 0 .. j |-> IF k = 0 THEN PostStart(store, g, order) ELSE G!PostOne(v[k - 1], order[k])]
    BY <1>1 DEF Proceeds
  <2>3. PICK u : u = [k \in 0 .. j + 1 |-> IF k = j + 1 THEN G!PostOne(v[j], order[j + 1]) ELSE v[k]]
    OBVIOUS
  <2>4. u[j + 1] = G!PostOne(v[j], order[j + 1]) /\ \A k \in 0 .. j : u[k] = v[k]
    BY <2>1, <2>3
  <2>5. ASSUME NEW k \in 0 .. j + 1
        PROVE  u[k] = IF k = 0 THEN PostStart(store, g, order) ELSE G!PostOne(u[k - 1], order[k])
    <3>1. CASE k = j + 1
      <4>1. k # 0 /\ k - 1 = j /\ j \in 0 .. j
        BY <2>1, <3>1
      <4> QED BY <2>4, <3>1, <4>1
    <3>2. CASE k # j + 1
      <4>1. k \in 0 .. j /\ (k # 0 => k - 1 \in 0 .. j)
        BY <2>1, <3>2
      <4>2. v[k] = IF k = 0 THEN PostStart(store, g, order) ELSE G!PostOne(v[k - 1], order[k])
        BY <2>2, <4>1
      <4> QED BY <2>4, <4>1, <4>2
    <3> QED BY <3>1, <3>2
  <2>6. Proceeds(store, g, order, j + 1, u)
    BY <2>3, <2>5 DEF Proceeds
  <2> QED BY <1>1, <2>1, <2>6
<1>4. P \in SUBSET Nat
  BY <1>1
<1>5. n \in P
  BY <1>2, <1>3, <1>4, Induction
<1> QED BY <1>1, <1>5

\* The candidates, each once.
Candidates(g, order, n) ==
  /\ order \in [1 .. n -> G!Obsels(g)]
  /\ \A o \in G!Obsels(g) : \E i \in 1 .. n : order[i] = o
  /\ \A i, j \in 1 .. n : order[i] = order[j] => i = j
Created(order, k) == {order[i] : i \in 1 .. k}

LEMMA CreatedNext ==
  ASSUME NEW g, NEW order, NEW n \in Nat, Candidates(g, order, n), NEW k \in 1 .. n
  PROVE  /\ Created(order, k - 1) \in SUBSET G!Obsels(g) /\ order[k] \in G!Obsels(g) \ Created(order, k - 1)
         /\ Created(order, k) = Created(order, k - 1) \cup {order[k]}
<1>1. order \in [1 .. n -> G!Obsels(g)] /\ \A i, j \in 1 .. n : order[i] = order[j] => i = j
  BY DEF Candidates
<1>2. \A i : i \in 1 .. k - 1 => i \in 1 .. n /\ i # k
  OBVIOUS
<1>3. \A i : i \in 1 .. k <=> i \in 1 .. k - 1 \/ i = k
  OBVIOUS
<1>4. Created(order, k - 1) \in SUBSET G!Obsels(g)
  BY <1>1, <1>2 DEF Created
<1>5. order[k] \in G!Obsels(g) \ Created(order, k - 1)
  BY <1>1, <1>2 DEF Created
<1>6. Created(order, k) = Created(order, k - 1) \cup {order[k]}
  BY <1>3 DEF Created
<1> QED BY <1>4, <1>5, <1>6

LEMMA NothingMoved ==
  ASSUME NEW g, Triples(g)
  PROVE  AllMoved({}, g) = g
<1>1. \A t \in g : Moved({}, t) = t
  BY TripleIs DEF Moved, NodeNow
<1> QED BY <1>1 DEF AllMoved

\* Where a post stands after k candidates.
LEMMA PostStands ==
  ASSUME NEW g, Posts(g), G!Owned(g), NEW store, NEW order, NEW n \in Nat, Candidates(g, order, n),
         NEW v, Proceeds(store, g, order, n, v)
  PROVE  \A k \in Nat : k \in 0 .. n => IsAcc(v[k]) /\ (v[k].refused \/ Progress(g, store, Created(order, k), v[k]))
<1>1. PICK P : P = {k \in Nat : k \in 0 .. n => IsAcc(v[k]) /\ (v[k].refused \/ Progress(g, store, Created(order, k), v[k]))}
  OBVIOUS
<1>2. \A k \in 0 .. n : v[k] = IF k = 0 THEN PostStart(store, g, order) ELSE G!PostOne(v[k - 1], order[k])
  BY DEF Proceeds
<1>3. 0 \in P
  <2>1. 0 \in 0 .. n
    OBVIOUS
  <2>2. PICK b : b = (order = <<>>)
    OBVIOUS
  <2>3. v[0] = [graph |-> g, left |-> G!Obsels(g) \cap G!Blank, refused |-> b, store |-> store]
    BY <1>2, <2>1, <2>2 DEF PostStart
  <2>4. v[0].graph = g /\ v[0].left = G!Obsels(g) \cap G!Blank /\ v[0].refused = b /\ v[0].store = store
    BY <2>3
  <2>5. Created(order, 0) = {}
    BY DEF Created
  <2>6. Settled(g, {}) = {} /\ StillLeft(g, {}) = G!Obsels(g) \cap G!Blank
    BY DEF Settled, StillLeft
  <2>7. AllMoved({}, {}) = {} /\ AllMoved({}, g) = g
    BY NothingMoved DEF AllMoved, Posts
  <2>8. Progress(g, store, {}, v[0])
    BY <2>4, <2>6, <2>7 DEF Progress
  <2> QED BY <1>1, <2>3, <2>4, <2>5, <2>8 DEF IsAcc
<1>4. ASSUME NEW k \in P PROVE k + 1 \in P
  <2>1. k \in Nat
    BY <1>1
  <2>2. SUFFICES ASSUME k + 1 \in 0 .. n
                 PROVE  IsAcc(v[k + 1]) /\ (v[k + 1].refused \/ Progress(g, store, Created(order, k + 1), v[k + 1]))
    BY <1>1, <2>1
  <2>3. k \in 0 .. n /\ k + 1 \in 1 .. n /\ (k + 1) - 1 = k /\ k + 1 # 0
    BY <2>1, <2>2
  <2>4. v[k + 1] = G!PostOne(v[k], order[k + 1])
    BY <1>2, <2>2, <2>3
  <2>5. IsAcc(v[k]) /\ (v[k].refused \/ Progress(g, store, Created(order, k), v[k]))
    BY <1>1, <2>3
  <2>6. /\ Created(order, k) \in SUBSET G!Obsels(g) /\ order[k + 1] \in G!Obsels(g) \ Created(order, k)
        /\ Created(order, k + 1) = Created(order, k) \cup {order[k + 1]}
    BY <2>3, CreatedNext
  <2>7. PICK D, c, acc : D = Created(order, k) /\ c = order[k + 1] /\ acc = v[k]
    OBVIOUS
  <2>8. /\ D \in SUBSET G!Obsels(g) /\ c \in G!Obsels(g) \ D
        /\ IsAcc(acc) /\ (acc.refused \/ Progress(g, store, D, acc))
    BY <2>5, <2>6, <2>7
  <2>9. PICK next : next = G!PostOne(acc, c)
    OBVIOUS
  <2>10. IsAcc(next) /\ (next.refused \/ Progress(g, store, D \cup {c}, next))
    BY <2>8, <2>9, OneMore
  <2>11. v[k + 1] = next /\ Created(order, k + 1) = D \cup {c}
    BY <2>4, <2>6, <2>7, <2>9
  <2> QED BY <2>10, <2>11
<1>5. P \in SUBSET Nat
  BY <1>1
<1>6. \A k \in Nat : k \in P
  BY <1>3, <1>4, <1>5, Induction
<1> QED BY <1>1, <1>6

\* What is meant: all candidates have their URIs.
Means(g, order, n, w) ==
  w = [k \in 0 .. n |-> CASE k = 0 -> g
                          [] k > 0 /\ order[k] \in G!Blank -> G!Replaced(w[k - 1], order[k], G!Minted[order[k]])
                          [] OTHER -> w[k - 1]]

LEMMA OneMeant ==
  ASSUME NEW g, Posts(g), NEW order, NEW n \in Nat, Candidates(g, order, n), NEW k \in 1 .. n, NEW f,
         f = AllMoved(Created(order, k - 1), g)
  PROVE  IF order[k] \in G!Blank THEN G!Replaced(f, order[k], G!Minted[order[k]]) = AllMoved(Created(order, k), g)
         ELSE f = AllMoved(Created(order, k), g)
<1> DEFINE c == order[k]
           D == Created(order, k - 1)
<1>1. D \in SUBSET G!Obsels(g) /\ c \in G!Obsels(g) \ D /\ Created(order, k) = D \cup {c}
  BY CreatedNext
<1> HIDE DEF c, D
<1>2. CASE c \in G!Blank
  <2>1. G!Replaced(f, c, UriOf(c)) = AllMoved(D \cup {c}, g)
    BY <1>1, MovedOn DEF D
  <2>2. UriOf(c) = G!Minted[c]
    BY <1>2 DEF UriOf
  <2> QED BY <1>1, <1>2, <2>1, <2>2 DEF c
<1>3. CASE c \notin G!Blank
  <2>1. UriOf(c) = c
    BY <1>3 DEF UriOf
  <2>2. \A m : NodeNow(D \cup {c}, m) = NodeNow(D, m)
    BY <1>1, <2>1 DEF NodeNow
  <2>3. \A t : Moved(D \cup {c}, t) = Moved(D, t)
    BY <2>2 DEF Moved
  <2>4. AllMoved(D \cup {c}, g) = AllMoved(D, g)
    BY <2>3 DEF AllMoved
  <2> QED BY <1>1, <1>3, <2>4 DEF c, D
<1> QED BY <1>2, <1>3

LEMMA ThereIsAMeaning ==
  ASSUME NEW g, Posts(g), NEW order, NEW n \in Nat, Candidates(g, order, n)
  PROVE  \E w : Means(g, order, n, w)
<1>1. PICK w : w = [k \in 0 .. n |-> AllMoved(Created(order, k), g)]
  OBVIOUS
<1>2. ASSUME NEW k \in 0 .. n
      PROVE  w[k] = CASE k = 0 -> g
                      [] k > 0 /\ order[k] \in G!Blank -> G!Replaced(w[k - 1], order[k], G!Minted[order[k]])
                      [] OTHER -> w[k - 1]
  <2>1. w[k] = AllMoved(Created(order, k), g)
    BY <1>1
  <2>2. CASE k = 0
    <3>1. Created(order, 0) = {}
      BY DEF Created
    <3>2. w[0] = g
      BY <2>1, <2>2, <3>1, NothingMoved DEF Posts
    <3> QED BY <2>2, <3>2
  <2>3. CASE k # 0
    <3>1. k \in 1 .. n /\ k - 1 \in 0 .. n /\ k > 0
      BY <2>3
    <3>2. w[k - 1] = AllMoved(Created(order, k - 1), g)
      BY <1>1, <3>1
    <3>3. IF order[k] \in G!Blank THEN G!Replaced(w[k - 1], order[k], G!Minted[order[k]]) = w[k] ELSE w[k - 1] = w[k]
      BY <2>1, <3>1, <3>2, OneMeant
    <3> QED BY <2>3, <3>1, <3>3
  <2> QED BY <2>2, <2>3
<1>3. Means(g, order, n, w)
  BY <1>1, <1>2 DEF Means
<1> QED BY <1>3

LEMMA MeaningIs ==
  ASSUME NEW g, Posts(g), NEW order, NEW n \in Nat, Candidates(g, order, n), NEW w, Means(g, order, n, w)
  PROVE  \A k \in Nat : k \in 0 .. n => w[k] = AllMoved(Created(order, k), g)
<1>1. PICK P : P = {k \in Nat : k \in 0 .. n => w[k] = AllMoved(Created(order, k), g)}
  OBVIOUS
<1>2. \A k \in 0 .. n : w[k] = CASE k = 0 -> g
                                [] k > 0 /\ order[k] \in G!Blank -> G!Replaced(w[k - 1], order[k], G!Minted[order[k]])
                                [] OTHER -> w[k - 1]
  BY DEF Means
<1>3. 0 \in P
  <2>1. Created(order, 0) = {} /\ 0 \in 0 .. n
    BY DEF Created
  <2>2. w[0] = g
    BY <1>2, <2>1
  <2> QED BY <1>1, <2>1, <2>2, NothingMoved DEF Posts
<1>4. ASSUME NEW k \in P PROVE k + 1 \in P
  <2>1. k \in Nat
    BY <1>1
  <2>2. SUFFICES ASSUME k + 1 \in 0 .. n PROVE w[k + 1] = AllMoved(Created(order, k + 1), g)
    BY <1>1, <2>1
  <2>3. k \in 0 .. n /\ k + 1 \in 1 .. n /\ (k + 1) - 1 = k /\ k + 1 # 0 /\ k + 1 > 0
    BY <2>1, <2>2
  <2>4. w[k] = AllMoved(Created(order, k), g)
    BY <1>1, <2>3
  <2>5. IF order[k + 1] \in G!Blank
        THEN G!Replaced(w[k], order[k + 1], G!Minted[order[k + 1]]) = AllMoved(Created(order, k + 1), g)
        ELSE w[k] = AllMoved(Created(order, k + 1), g)
    BY <2>3, <2>4, OneMeant
  <2>6. w[k + 1] = IF order[k + 1] \in G!Blank THEN G!Replaced(w[k], order[k + 1], G!Minted[order[k + 1]]) ELSE w[k]
    BY <1>2, <2>2, <2>3
  <2> QED BY <2>5, <2>6
<1>5. P \in SUBSET Nat
  BY <1>1
<1>6. \A k \in Nat : k \in P
  BY <1>3, <1>4, <1>5, Induction
<1> QED BY <1>1, <1>6

\* Obsels that are posted in one graph are stored as they were related in it, with
\* the URIs that they are given: for any graph whose values belong to one obsel
\* each, any order and any store (engine/trace.py:318-358).
THEOREM PostedAreKept ==
  ASSUME NEW store, NEW g, Posts(g), NEW n \in Nat, NEW order, Candidates(g, order, n)
  PROVE  G!PostedAsMeant(store, g, order)
<1>1. Len(order) = n
  BY DEF Candidates
<1>2. PICK end : end = G!Post(store, g, order)
  OBVIOUS
<1>3. PICK v : Proceeds(store, g, order, n, v) /\ end = v[n]
  <2>1. PICK v : v = CHOOSE z : Proceeds(store, g, order, n, z)
    OBVIOUS
  <2>2. Proceeds(store, g, order, n, v)
    BY <2>1, PostProceeds
  <2>3. end = v[n]
    BY <1>1, <1>2, <2>1 DEF G!Post, Proceeds, PostStart
  <2> QED BY <2>2, <2>3
<1>4. PICK w : Means(g, order, n, w) /\ w = CHOOSE z : Means(g, order, n, z)
  BY ThereIsAMeaning
<1>5. G!PostedAsMeant(store, g, order) <=> (G!Owned(g) /\ ~end.refused => end.store = store \cup w[n])
  BY <1>1, <1>2, <1>4 DEF G!PostedAsMeant, Means
<1>6. SUFFICES ASSUME G!Owned(g), ~end.refused PROVE end.store = store \cup w[n]
  BY <1>5
<1>7. n \in 0 .. n
  OBVIOUS
<1>8. w[n] = AllMoved(Created(order, n), g)
  BY <1>4, <1>7, MeaningIs
<1>9. Progress(g, store, Created(order, n), v[n])
  BY <1>3, <1>6, <1>7, PostStands
<1>10. Created(order, n) = G!Obsels(g)
  BY DEF Candidates, Created
<1>11. Settled(g, G!Obsels(g)) = g
  <2>1. StillLeft(g, G!Obsels(g)) = {}
    BY DEF StillLeft
  <2>2. ASSUME NEW t \in g
        PROVE  \E o \in G!Obsels(g) : {t[1], t[3]} \cap G!Reached(o, g, G!Obsels(g)) # {}
    <3>1. PICK x \in {t[1], t[3]} : x \in G!Obsels(g) \/ x \in G!Blank \ G!Obsels(g)
      BY DEF Posts
    <3>2. CASE x \in G!Obsels(g)
      <4>1. x \in G!Reached(x, g, G!Obsels(g))
        BY ReachedIs
      <4> QED BY <3>1, <3>2, <4>1
    <3>3. CASE x \in G!Blank \ G!Obsels(g)
      <4>1. PICK o \in G!Obsels(g) : x \in G!Reached(o, g, G!Obsels(g))
        BY <1>6, <3>1, <3>3, OwnedByOne DEF Posts
      <4> QED BY <3>1, <4>1
    <3> QED BY <3>1, <3>2, <3>3
  <2> QED BY <2>1, <2>2 DEF Settled
<1> QED BY <1>3, <1>8, <1>9, <1>10, <1>11 DEF Progress

LEMMA FewAre ==
  ASSUME NEW n \in Nat, NEW X, NEW Y \in Few(n, X)
  PROVE  Y \subseteq X
<1>1. ASSUME NEW q \in [1 .. n -> X] PROVE {q[i] : i \in 1 .. n} \subseteq X
  OBVIOUS
<1>2. Y = {} \/ \E q \in [1 .. n -> X] : Y = {q[i] : i \in 1 .. n}
  BY DEF Few
<1> QED BY <1>1, <1>2

LEMMA OrdersAre ==
  ASSUME NEW X, IsFiniteSet(X), NEW q \in Orders(X), NEW g, G!Obsels(g) = X, NEW n, n = Cardinality(X)
  PROVE  n \in Nat /\ Candidates(g, q, n)
<1>1. n \in Nat
  BY FS_CardinalityType
<1>2. q \in [1 .. n -> X] /\ {q[i] : i \in 1 .. n} = X
  BY DEF Orders
<1>3. IsFiniteSet(1 .. n) /\ Cardinality(1 .. n) = n
  BY <1>1, FS_Interval
<1>4. q \in Surjection(1 .. n, X)
  BY <1>2 DEF Surjection
<1>5. q \in Injection(1 .. n, X)
  BY <1>3, <1>4, FS_SurjSameCardinalityImpliesInj
<1>6. \A i, j \in 1 .. n : q[i] = q[j] => i = j
  BY <1>5 DEF Injection, IsInjective
<1>7. \A o \in X : \E i \in 1 .. n : q[i] = o
  BY <1>2
<1> QED BY <1>1, <1>2, <1>6, <1>7 DEF Candidates

\* The obsels of a graph of the run are those that it was made with.
LEMMA GraphOf ==
  ASSUME NEW X, NEW arcs, \A t \in arcs : t[2] = "p", NEW g, g = {G!InTrace(c) : c \in X} \cup arcs
  PROVE  G!Obsels(g) = X
<1>1. \A t \in g : t[2] = "hasTrace" => \E c \in X : t = G!InTrace(c)
  OBVIOUS
<1>2. \A c : G!InTrace(c)[1] = c /\ G!InTrace(c)[2] = "hasTrace" /\ G!InTrace(c)[3] = G!Trace
  BY DEF G!InTrace
<1>3. \A c : c \in G!Obsels(g) <=> \E t \in g : t[2] = "hasTrace" /\ t[3] = G!Trace /\ t[1] = c
  BY DEF G!Obsels
<1>4. \A c \in X : G!InTrace(c) \in g
  OBVIOUS
<1>5. \A c : c \in G!Obsels(g) => c \in X
  BY <1>1, <1>2, <1>3
<1>6. \A c \in X : c \in G!Obsels(g)
  BY <1>2, <1>3, <1>4
<1> QED BY <1>5, <1>6

LEMMA PostInputsFit ==
  ASSUME NEW i \in PostInputs
  PROVE  /\ i.kind = "post" /\ Posts(i.graph)
         /\ \E n \in Nat : Candidates(i.graph, i.order, n)
<1>0. PICK X \in SUBSET {"b1", "b2", "u1"} : i \in PostsOf(X)
  BY DEF PostInputs
<1>1. PICK arcs \in Arcs(X \cup {"s1"}, X \cup {"s1", "o1"}, 2), q \in Orders(X) :
        i = [kind |-> "post", graph |-> OfObsels(X, arcs), order |-> q]
  BY <1>0 DEF PostsOf
<1>2. PICK g : g = OfObsels(X, arcs) /\ g = {G!InTrace(c) : c \in X} \cup arcs
  BY DEF OfObsels
<1>3. i.kind = "post" /\ i.graph = g /\ i.order = q
  BY <1>1, <1>2
<1>4. \A t \in arcs : t \in (X \cup {"s1"}) \X {"p"} \X (X \cup {"s1", "o1"})
  <2>1. arcs \subseteq {t \in (X \cup {"s1"}) \X {"p"} \X (X \cup {"s1", "o1"}) : t[1] # t[3]}
    BY <1>1, FewAre DEF Arcs
  <2> QED BY <2>1
<1>5. \A t \in arcs : t[1] \in X \cup {"s1"} /\ t[2] = "p" /\ t[3] \in X \cup {"s1", "o1"}
  BY <1>4
<1>6. G!Obsels(g) = X
  BY <1>2, <1>5, GraphOf
<1>7. IsFiniteSet(X)
  <2>1. IsFiniteSet({"b1", "b2", "u1"})
    <3>1. IsFiniteSet({"b1"}) /\ IsFiniteSet({"b1"} \cup {"b2"}) /\ IsFiniteSet(({"b1"} \cup {"b2"}) \cup {"u1"})
      BY FS_Singleton, FS_AddElement
    <3>2. ({"b1"} \cup {"b2"}) \cup {"u1"} = {"b1", "b2", "u1"}
      OBVIOUS
    <3> QED BY <3>1, <3>2
  <2> QED BY <2>1, FS_Subset
<1>8. \A c : G!InTrace(c) = <<c, "hasTrace", "t">>
  BY DEF G!InTrace, G!Trace
<1>9. \A t \in g : \/ t[1] \in X /\ t[3] = "t"
                   \/ t[1] \in X \cup {"s1"} /\ t[3] \in X \cup {"s1", "o1"}
  BY <1>2, <1>5, <1>8
<1>10. Posts(g)
  <2>1. Triples(g)
    <3> DEFINE Names == {"b1", "b2", "u1", "s1", "o1", "t", "p", "hasTrace"}
    <3>1. \A c \in X : G!InTrace(c) \in Names \X Names \X Names
      BY <1>8
    <3>2. \A t \in arcs : t \in Names \X Names \X Names
      BY <1>4
    <3>3. g \subseteq Names \X Names \X Names
      <4> HIDE DEF Names
      <4> QED BY <1>2, <3>1, <3>2
    <3> QED BY <3>3 DEF Triples
  <2>2. X \cap G!Blank \subseteq DOMAIN G!Minted
    BY DEF G!Blank, G!Minted
  <2>3. \A t \in g : t[1] \notin Minting /\ t[3] \notin Minting
    BY <1>9 DEF Minting
  <2>4. \A t \in g : {t[1], t[3]} \cap (X \cup G!Blank) # {}
    BY <1>9 DEF G!Blank
  <2> QED BY <1>6, <1>7, <2>1, <2>2, <2>3, <2>4 DEF Posts
<1>11. Cardinality(X) \in Nat /\ Candidates(g, q, Cardinality(X))
  BY <1>6, <1>7, OrdersAre
<1> QED BY <1>3, <1>10, <1>11

LEMMA StoreInputsFit ==
  ASSUME NEW i \in StoreInputs
  PROVE  i.kind = "store" /\ Triples(i.store) /\ G!Obsels(i.store) = {"o1", "o2"}
<1>1. PICK arcs \in Arcs({"o1", "o2", "s1", "s2"}, {"o1", "o2", "s1", "s2", "v"}, 3) :
        i = [kind |-> "store", store |-> OfObsels({"o1", "o2"}, arcs)]
  BY DEF StoreInputs
<1>2. PICK g : g = OfObsels({"o1", "o2"}, arcs) /\ g = {G!InTrace(c) : c \in {"o1", "o2"}} \cup arcs
  BY DEF OfObsels
<1>3. i.kind = "store" /\ i.store = g
  BY <1>1, <1>2
<1>4. \A t \in arcs : t \in {"o1", "o2", "s1", "s2"} \X {"p"} \X {"o1", "o2", "s1", "s2", "v"}
  <2>1. arcs \subseteq {t \in {"o1", "o2", "s1", "s2"} \X {"p"} \X {"o1", "o2", "s1", "s2", "v"} : t[1] # t[3]}
    BY <1>1, FewAre DEF Arcs
  <2> QED BY <2>1
<1>5. G!Obsels(g) = {"o1", "o2"}
  <2>1. \A t \in arcs : t[2] = "p"
    BY <1>4
  <2>2. g = {G!InTrace(c) : c \in {"o1", "o2"}} \cup arcs
    BY <1>2
  <2> QED BY <2>1, <2>2, GraphOf
<1>6. Triples(g)
  <2> DEFINE Names == {"o1", "o2", "s1", "s2", "v", "t", "p", "hasTrace"}
  <2>1. G!InTrace("o1") \in Names \X Names \X Names /\ G!InTrace("o2") \in Names \X Names \X Names
    BY DEF G!InTrace, G!Trace
  <2>2. \A t \in arcs : t \in Names \X Names \X Names
    BY <1>4
  <2>3. g \subseteq Names \X Names \X Names
    <3> HIDE DEF Names
    <3>1. \A c \in {"o1", "o2"} : G!InTrace(c) \in Names \X Names \X Names
      BY <2>1
    <3> QED BY <1>2, <2>2, <3>1
  <2> QED BY <2>3 DEF Triples
<1> QED BY <1>3, <1>5, <1>6

\* Graphs of obsels are kept when they are posted, read and deleted, for the
\* inputs of the run.
THEOREM ObselGraphsCorrect == LibrarySpec => []ObselGraphsKept
<1>1. ASSUME NEW i \in PostInputs
      PROVE  i.kind = "post" /\ G!PostedAsMeant({G!InTrace("o1"), <<"o1", "p", "v">>}, i.graph, i.order)
  BY PostInputsFit, PostedAreKept
<1>2. ASSUME NEW i \in StoreInputs
      PROVE  i.kind = "store" /\ \A o \in {"o1", "o2"} : G!SameDescription(o, i.store) /\ G!DeletedAlone(o, i.store)
  <2>1. i.kind = "store" /\ Triples(i.store) /\ G!Obsels(i.store) = {"o1", "o2"}
    BY StoreInputsFit
  <2>2. IsFiniteSet({"o1", "o2"})
    <3>1. IsFiniteSet({"o1"} \cup {"o2"}) /\ {"o1"} \cup {"o2"} = {"o1", "o2"}
      BY FS_Singleton, FS_AddElement
    <3> QED BY <3>1
  <2>3. {"o1", "o2"} \cap G!Blank = {} /\ \A o \in {"o1", "o2"} : o # G!Trace
    BY DEF G!Blank, G!Trace
  <2> QED BY <2>1, <2>2, <2>3, ObselReadsTheSame, ObselGoesAlone
<1>3. Applied => ObselGraphsKept
  <2> SUFFICES ASSUME Applied, part = "graphs"
               PROVE  CASE input.kind = "post" -> G!PostedAsMeant({G!InTrace("o1"), <<"o1", "p", "v">>}, input.graph, input.order)
                        [] input.kind = "store" ->
                             \A o \in {"o1", "o2"} : G!SameDescription(o, input.store) /\ G!DeletedAlone(o, input.store)
    BY DEF ObselGraphsKept
  <2>1. input \in PostInputs \/ input \in StoreInputs
    BY DEF Applied, Functions
  <2> QED BY <1>1, <1>2, <2>1
<1> QED BY <1>3, AppliedKept, PTL

=============================================================================
