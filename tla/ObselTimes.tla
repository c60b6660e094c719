------------------------------ MODULE ObselTimes ------------------------------
(***************************************************************************)
(* The times of an obsel that is posted: given as numbers in the unit of   *)
(* the trace, as dates, or not at all, they are completed and checked      *)
(* (_ObselImpl.complete_new_graph, check_new_graph; ktbs/time.py; iso8601). *)
(*                                                                         *)
(* A posted obsel gives sets of begins and ends (numbers), and at most one *)
(* date for each.  A date is a local time and the offset of its time zone; *)
(* the model counts both in milliseconds, two of which make a second.      *)
(***************************************************************************)
EXTENDS Integers, FiniteSets

Only(S) == CHOOSE x \in S : TRUE

\* create_obsel, of the Python API: a time is a number or a date; that which is
\* not given is the current date, or the begin.
ApiTimes(begin, end, now) ==
  LET b == IF begin = {} THEN {[date |-> [local |-> now, zone |-> "some", offset |-> 0]]} ELSE begin
      e == IF end = {} THEN b ELSE end
      numbers(S) == {t.number : t \in {x \in S : "number" \in DOMAIN x}}
      dates(S) == {t.date : t \in {x \in S : "date" \in DOMAIN x}}
  IN  [begin |-> numbers(b), beginDT |-> dates(b), end |-> numbers(e), endDT |-> dates(e)]

\* parse_date, parse_timezone: a date without a zone is in UTC.
Instant(d) == IF d.zone = "none" THEN d.local ELSE d.local - d.offset

\* lit2datetime: an origin that is not a date is opaque.
IsDate(origin) == origin.kind = "date"

\* Mutant: the seconds are truncated when the delta is negative only.
ToUnit_Negative(unit, delta) ==
  CASE unit = "millisecond" -> delta
    [] unit = "second" -> IF delta < 0 THEN -delta \div 2 ELSE delta \div 2

\* get_converter_to_unit, timedelta2ms, timedelta2sec: round() goes to the even
\* neighbour.  Another unit (sequence) has no converter.
HasConverter(unit) == unit \in {"millisecond", "second"}
ToUnit(unit, delta) ==
  CASE unit = "millisecond" -> delta
    [] unit = "second" -> IF delta % 2 = 0 THEN delta \div 2
                          ELSE CHOOSE n \in {delta \div 2, delta \div 2 + 1} : n % 2 = 0

\* What dates are converted to: numbers that are added to those given.
Converted(dates, unit, origin) ==
  IF IsDate(origin) /\ HasConverter(unit)
  THEN {ToUnit(unit, Instant(d) - Instant(origin.date)) : d \in dates} ELSE {}

\* complete_new_graph: a missing begin is the current date, a missing end the
\* begin.
Complete(o, unit, origin, now) ==
  LET given == o.begin \cup Converted(o.beginDT, unit, origin)
      begin == IF given = {} THEN {ToUnit(unit, now - Instant(origin.date))} ELSE given
      end == o.end \cup Converted(o.endDT, unit, origin)
  IN  [begin |-> begin, end |-> IF end = {} THEN {Only(begin)} ELSE end]

\* The current date can not be converted: an exception that is not handled.
Raises(o, unit, origin) ==
  /\ o.begin \cup Converted(o.beginDT, unit, origin) = {}
  /\ ~IsDate(origin) \/ ~HasConverter(unit)

\* check_new_graph: one begin and one end (RDF_CARDINALITY_OUT), which should
\* be in order, but the begin is compared with itself (obsel.py:248).
Accepted(c) ==
  /\ Cardinality(c.begin) = 1 /\ Cardinality(c.end) = 1
  /\ LET begin == Only(c.begin)
         end == Only(c.begin)
     IN  ~(end < begin)

Outcome(o, unit, origin, now) ==
  IF Raises(o, unit, origin) THEN [kind |-> "error"]
  ELSE LET c == Complete(o, unit, origin, now)
       IN  IF Accepted(c) THEN [kind |-> "stored", begin |-> Only(c.begin), end |-> Only(c.end)]
           ELSE [kind |-> "refused"]

----------------------------------------------------------------------------
(* Property *)

\* Did the client give times in order, both as numbers or both as dates, or one
\* of them at most?
InOrder(o, now) ==
  /\ Cardinality(o.begin) + Cardinality(o.beginDT) <= 1
  /\ Cardinality(o.end) + Cardinality(o.endDT) <= 1
  /\ o.begin = {} <=> o.end = {}
  /\ o.beginDT = {} => o.endDT = {}
  /\ \A b \in o.begin, e \in o.end : b <= e
  /\ \A b \in o.beginDT, e \in o.endDT : Instant(b) <= Instant(e)

\* An obsel whose times were given in order is stored with a begin and an end
\* in order, whatever their zones and the unit of the trace; it is never refused.
\* It may be an error when the origin is opaque or the unit a sequence.
TimesInOrder(o, unit, origin, now) ==
  LET r == Outcome(o, unit, origin, now)
  IN  InOrder(o, now) =>
        /\ r.kind # "refused"
        /\ r.kind = "stored" => r.begin <= r.end
        /\ r.kind = "error" => o.begin = {} /\ (~IsDate(origin) \/ ~HasConverter(unit))
=============================================================================
