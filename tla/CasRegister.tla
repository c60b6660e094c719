----------------------------- MODULE CasRegister -----------------------------
(***************************************************************************)
(* What the etags of a resource promise to its clients: a register that is *)
(* replaced only by a client whose copy is of the current version.  The    *)
(* service itself may add to the register (something is posted to it),     *)
(* rewrite what it derives, or remove the register, at any time.           *)
(***************************************************************************)
EXTENDS Naturals

CONSTANTS Clients, Values, Derived, Gone, NoVersion, Service

VARIABLES
  value,     \* the content, or Gone
  version,   \* grows with every change
  writer,    \* who made the last change
  held       \* the version each client's copy is of, if any

register == <<value, version, writer, held>>

Init ==
  /\ value \in Values
  /\ version = 0
  /\ writer = Service
  /\ held = [c \in Clients |-> NoVersion]

\* A client takes a copy, is told the version of its copy, or drops it.
Learn(c) ==
  /\ \E v \in 0 .. version \cup {NoVersion} : held' = [held EXCEPT ![c] = v]
  /\ UNCHANGED <<value, version, writer>>

Replace(c) ==
  /\ held[c] = version
  /\ value # Gone
  /\ \E v \in Values : value' = v
  /\ version' = version + 1
  /\ writer' = c
  /\ UNCHANGED held

\* Nothing goes but what the service derives.
Grow ==
  /\ value # Gone
  /\ \E v \in Values : value \ Derived \subseteq v /\ value' = v
  /\ version' = version + 1
  /\ writer' = Service
  /\ UNCHANGED held

Remove ==
  /\ value # Gone
  /\ value' = Gone
  /\ version' = version + 1
  /\ writer' = Service
  /\ UNCHANGED held

Next == (\E c \in Clients : Learn(c) \/ Replace(c)) \/ Grow \/ Remove

Spec == Init /\ [][Next]_register
=============================================================================
