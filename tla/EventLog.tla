------------------------------ MODULE EventLog ------------------------------
(***************************************************************************)
(* What the event store of one run promises to everyone above it: a chain  *)
(* to which entries are added one at a time, each naming its predecessor   *)
(* and no earlier than it, from which only entries whose append never      *)
(* returned can be lost, and these only from the end.                      *)
(***************************************************************************)
EXTENDS Naturals, Sequences

CONSTANTS
    Ids,        \* identities (hashes) of entries
    Times,      \* UTC timestamps
    NoEvent     \* the predecessor of the first entry

VARIABLES
    log,        \* the entries that a reader finds
    acked       \* the entries whose append has returned

vars == <<log, acked>>

Entry == [id : Ids, prev : Ids \cup {NoEvent}, utc : Times]
IdsOf(s) == {s[i].id : i \in DOMAIN s}

Init == log = <<>> /\ acked = {}

Add ==
    \E e \in Entry :
        /\ e.id \notin IdsOf(log)
        /\ IF log = <<>> THEN e.prev = NoEvent
                         ELSE e.prev = log[Len(log)].id /\ log[Len(log)].utc <= e.utc
        /\ log' = Append(log, e)
        /\ UNCHANGED acked

Acknowledge ==
    /\ \E i \in DOMAIN log : acked' = acked \cup {log[i].id}
    /\ UNCHANGED log

LoseTail ==
    /\ \E n \in 0 .. Len(log) :
        /\ acked \subseteq IdsOf(SubSeq(log, 1, n))
        /\ log' = SubSeq(log, 1, n)
    /\ UNCHANGED acked

Next == Add \/ Acknowledge \/ LoseTail

Spec == Init /\ [][Next]_vars
=============================================================================
