------------------------------ MODULE EventLog ------------------------------
(***************************************************************************)
(* What archive.jsonl promises its readers, whatever its copies and the     *)
(* crashes between two writes do underneath: an append-only sequence of     *)
(* distinct lines.                                                          *)
(***************************************************************************)
EXTENDS Sequences

CONSTANT Lines      \* the lines a ledger may hold

VARIABLE log

Holds(e) == \E i \in DOMAIN log : log[i] = e

Init == log = << >>

\* A line that is already present adds nothing.
Grow(e) == ~Holds(e) /\ log' = Append(log, e)

Next == \E e \in Lines : Grow(e)

Spec == Init /\ [][Next]_log
=============================================================================
