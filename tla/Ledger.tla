------------------------------- MODULE Ledger -------------------------------
(***************************************************************************)
(* The files behind the ledger: archive.jsonl in the workspace, its mirror   *)
(* under EVOLVE_HOME, and a receipts file beside each, from                 *)
(* src/src/evolve/archive.py (append_event, ensure_local_archive) and        *)
(* driver.py (_run_operator_guarded, which undoes what an operator wrote).  *)
(*                                                                         *)
(* A step is one file read or one write; open("a") and os.replace are one   *)
(* write, write_text is a truncation and a write.  The mechanism holds the   *)
(* workspace lock; a reader (evolve status, a report, an operator verb      *)
(* before it takes the lock) runs ensure_local_archive without it.          *)
(***************************************************************************)
EXTENDS Naturals, Sequences, FiniteSets

CONSTANTS Evaluations,   \* lines of mechanism evaluations: they get a receipt
          Notes,         \* the mechanism's other lines
          Foreign,       \* a line an operator writes into its archive
          Readers,       \* processes that read the ledger without the lock
          MaxAppends,    \* bound: calls of append_event
          MaxOperators,  \* bound: operator runs
          MaxCrashes,    \* bound: kills of the mechanism
          MaxReads       \* bound: ledger reads without the lock

ASSUME LedgerAssumption ==
  /\ {MaxAppends, MaxOperators, MaxCrashes, MaxReads} \subseteq Nat
  /\ Foreign \notin Evaluations \cup Notes
  /\ Evaluations \cap Notes = {}
  /\ "mechanism" \notin Readers

Mechanism == "mechanism"
Processes == {Mechanism} \cup Readers
MechanismLines == Evaluations \cup Notes

VARIABLES local, mirror,      \* the two copies of the archive
          receipts,           \* receipts[c]: the receipts beside copy c
          proc,               \* proc[p]: what p is doing and has read
          acked,              \* history: lines append_event returned for
          budget              \* appends, operators, crashes and reads so far

ledgerVars == <<local, mirror, receipts, proc, acked, budget>>
files == <<local, mirror, receipts>>

\* pc is the next step, line the one being appended, text and seen what
\* ensure_local_archive or the operator guard has read of the archive (and,
\* for the guard, its mirror) and of the receipts.
Resting(pc) == [pc |-> pc, line |-> Foreign, text |-> << >>, copy |-> << >>,
                seen |-> [local |-> {}, mirror |-> {}]]

LinesOf(s) == {s[i] : i \in DOMAIN s}

Distinct_KeepsLast(s) ==
  LET last == {i \in DOMAIN s : \A j \in i + 1..Len(s) : s[j] # s[i]}
      Nth(n) == CHOOSE i \in last : Cardinality({j \in last : j <= i}) = n
  IN  [n \in 1..Cardinality(last) |-> s[Nth(n)]]

\* Keep the first of several identical lines.
Distinct(s) ==
  LET first == {i \in DOMAIN s : \A j \in 1..i - 1 : s[j] # s[i]}
      Nth(n) == CHOOSE i \in first : Cardinality({j \in first : j <= i}) = n
  IN  [n \in 1..Cardinality(first) |-> s[Nth(n)]]

At(p, pc) == proc[p].pc = pc
Goto(p, pc) == proc' = [proc EXCEPT ![p].pc = pc]
Rest(p, pc) == proc' = [proc EXCEPT ![p] = Resting(pc)]
Spend(kind) == budget' = [budget EXCEPT ![kind] = @ + 1]

LedgerInit ==
  /\ local = << >> /\ mirror = << >>
  /\ receipts = [local |-> {}, mirror |-> {}]
  /\ proc = [p \in Processes |-> Resting(IF p = Mechanism THEN "down" ELSE "ready")]
  /\ acked = {}
  /\ budget = [appends |-> 0, operators |-> 0, crashes |-> 0, reads |-> 0]

-----------------------------------------------------------------------------
(* ensure_local_archive *)

\* Every verb starts here, and so does every read of the rows.
StartEnsure(p) ==
  /\ proc[p].pc \in {"down", "ready"}
  /\ IF p = Mechanism THEN UNCHANGED budget
                      ELSE budget.reads < MaxReads /\ Spend("reads")
  /\ Goto(p, "readLocal")
  /\ UNCHANGED <<files, acked>>

ReadLocal(p) ==
  /\ At(p, "readLocal")
  /\ proc' = [proc EXCEPT ![p].pc = "readMirror", ![p].text = Distinct(local)]
  /\ UNCHANGED <<files, acked, budget>>

ReadMirror(p) ==
  /\ At(p, "readMirror")
  /\ proc' = [proc EXCEPT ![p].pc = "writeLocal", ![p].text = Distinct(@ \o mirror)]
  /\ UNCHANGED <<files, acked, budget>>

WriteLocal(p) ==
  /\ At(p, "writeLocal")
  /\ local' = proc[p].text
  /\ Goto(p, "writeMirror")
  /\ UNCHANGED <<mirror, receipts, acked, budget>>

WriteMirror(p) ==
  /\ At(p, "writeMirror")
  /\ mirror' = proc[p].text
  /\ Goto(p, "readReceipts")
  /\ UNCHANGED <<local, receipts, acked, budget>>

\* _ensure_receipts: nothing to do without receipts.
ReadReceipts(p) ==
  LET all == receipts.local \cup receipts.mirror
  IN  /\ At(p, "readReceipts")
      /\ IF all = {} THEN Rest(p, "ready")
         ELSE proc' = [proc EXCEPT ![p].pc = "truncateLocal",
                         ![p].seen = [local |-> all, mirror |-> all]]
      /\ UNCHANGED <<files, acked, budget>>

\* write_text: open for writing, then write.
ReceiptWrite(p, at, copy, text, then) ==
  /\ At(p, at)
  /\ receipts' = [receipts EXCEPT ![copy] = text]
  /\ IF then = "ready" THEN Rest(p, then) ELSE Goto(p, then)
  /\ UNCHANGED <<local, mirror, acked, budget>>

WriteReceipts_TruncateFirst(p) ==
  \/ ReceiptWrite(p, "truncateLocal", "local", {}, "truncateMirror")
  \/ ReceiptWrite(p, "truncateMirror", "mirror", {}, "receiptLocal")
  \/ ReceiptWrite(p, "receiptLocal", "local", proc[p].seen.local, "receiptMirror")
  \/ ReceiptWrite(p, "receiptMirror", "mirror", proc[p].seen.mirror, "ready")

WriteReceipts(p) ==
  \/ ReceiptWrite(p, "truncateLocal", "local", {}, "receiptLocal")
  \/ ReceiptWrite(p, "receiptLocal", "local", proc[p].seen.local, "truncateMirror")
  \/ ReceiptWrite(p, "truncateMirror", "mirror", {}, "receiptMirror")
  \/ ReceiptWrite(p, "receiptMirror", "mirror", proc[p].seen.mirror, "ready")

-----------------------------------------------------------------------------
(* append_event *)

StartAppend(e) ==
  /\ At(Mechanism, "ready")
  /\ budget.appends < MaxAppends /\ Spend("appends")
  /\ proc' = [proc EXCEPT ![Mechanism].pc = "appendLocal", ![Mechanism].line = e]
  /\ UNCHANGED <<files, acked>>

AppendLocal ==
  /\ At(Mechanism, "appendLocal")
  /\ local' = Append(local, proc[Mechanism].line)
  /\ Goto(Mechanism, "appendMirror")
  /\ UNCHANGED <<mirror, receipts, acked, budget>>

AppendMirror ==
  LET e == proc[Mechanism].line
  IN  /\ At(Mechanism, "appendMirror")
      /\ mirror' = Append(mirror, e)
      /\ IF e \in Evaluations
           THEN Goto(Mechanism, "certifyLocal") /\ UNCHANGED acked
           ELSE Rest(Mechanism, "ready") /\ acked' = acked \cup {e}
      /\ UNCHANGED <<local, receipts, budget>>

CertifyLocal ==
  /\ At(Mechanism, "certifyLocal")
  /\ receipts' = [receipts EXCEPT !.local = @ \cup {proc[Mechanism].line}]
  /\ Goto(Mechanism, "certifyMirror")
  /\ UNCHANGED <<local, mirror, acked, budget>>

CertifyMirror ==
  /\ At(Mechanism, "certifyMirror")
  /\ receipts' = [receipts EXCEPT !.mirror = @ \cup {proc[Mechanism].line}]
  /\ acked' = acked \cup {proc[Mechanism].line}
  /\ Rest(Mechanism, "ready")
  /\ UNCHANGED <<local, mirror, budget>>

-----------------------------------------------------------------------------
(* _run_operator_guarded *)

Snapshot ==
  /\ At(Mechanism, "ready")
  /\ budget.operators < MaxOperators /\ Spend("operators")
  /\ proc' = [proc EXCEPT ![Mechanism] =
       [@ EXCEPT !.pc = "operator", !.text = local, !.copy = mirror, !.seen = receipts]]
  /\ UNCHANGED <<files, acked>>

\* An operator script may add to the workspace's archive or wipe it.
OperatorWrites ==
  /\ At(Mechanism, "operator")
  /\ local' \in {Append(local, Foreign), << >>}
  /\ Goto(Mechanism, "operatorDone")
  /\ UNCHANGED <<mirror, receipts, acked, budget>>

OperatorEnds_WithoutRestore ==
  /\ proc[Mechanism].pc \in {"operator", "operatorDone"}
  /\ Rest(Mechanism, "ready")
  /\ UNCHANGED <<files, acked, budget>>

OperatorEnds ==
  /\ proc[Mechanism].pc \in {"operator", "operatorDone"}
  /\ Goto(Mechanism, "undoLocal")
  /\ UNCHANGED <<files, acked, budget>>

\* _restore_operator_archive_writes rewrites each file, archive first.
RestoreLocal ==
  \/ /\ At(Mechanism, "undoLocal")
     /\ local' = << >>
     /\ Goto(Mechanism, "restoreLocal")
     /\ UNCHANGED <<mirror, receipts, acked, budget>>
  \/ /\ At(Mechanism, "restoreLocal")
     /\ local' = proc[Mechanism].text
     /\ Goto(Mechanism, "undoMirror")
     /\ UNCHANGED <<mirror, receipts, acked, budget>>

\* The receipts files are rewritten last, as ensure_local_archive writes them.
RestoreMirror ==
  \/ /\ At(Mechanism, "undoMirror")
     /\ mirror' = << >>
     /\ Goto(Mechanism, "restoreMirror")
     /\ UNCHANGED <<local, receipts, acked, budget>>
  \/ /\ At(Mechanism, "restoreMirror")
     /\ mirror' = proc[Mechanism].copy
     /\ Goto(Mechanism, "truncateLocal")
     /\ UNCHANGED <<local, receipts, acked, budget>>

-----------------------------------------------------------------------------
\* A kill at any step; whatever verb comes next starts with ensure.
Crash ==
  /\ proc[Mechanism].pc \notin {"down", "ready"}
  /\ budget.crashes < MaxCrashes /\ Spend("crashes")
  /\ Rest(Mechanism, "down")
  /\ UNCHANGED <<files, acked>>

Ensure(p) ==
  \/ StartEnsure(p) \/ ReadLocal(p) \/ ReadMirror(p)
  \/ WriteLocal(p) \/ WriteMirror(p) \/ ReadReceipts(p) \/ WriteReceipts(p)

LedgerNext ==
  \/ \E p \in Processes : Ensure(p)
  \/ \E e \in MechanismLines : StartAppend(e)
  \/ AppendLocal \/ AppendMirror \/ CertifyLocal \/ CertifyMirror
  \/ Snapshot \/ OperatorWrites \/ OperatorEnds \/ RestoreLocal \/ RestoreMirror
  \/ Crash

LedgerSpec == LedgerInit /\ [][LedgerNext]_ledgerVars

-----------------------------------------------------------------------------
(* Properties. *)

\* What the ledger holds: what the next ensure_local_archive will make of the
\* files or, while an operator's writes are still to be undone, of what was saved.
Guarded == proc[Mechanism].pc \in {"operator", "operatorDone", "undoLocal", "restoreLocal",
                                   "undoMirror", "restoreMirror"}
Holding ==
  IF Guarded THEN Distinct(proc[Mechanism].text \o proc[Mechanism].copy)
             ELSE Distinct(local \o mirror)

\* The receipts on disk, or read and about to be written back.
CertifiedLines == receipts.local \cup receipts.mirror \cup proc[Mechanism].seen.local

Log == INSTANCE EventLog WITH Lines <- MechanismLines \cup {Foreign}, log <- Holding

\* The two copies implement an append-only log: no write, truncation, restore
\* or kill ever drops a line, reorders lines or adds two at once.
AppendOnly == Log!Spec

\* A line append_event has returned for is never lost again, whatever is
\* killed while a copy is being rewritten.
AckedStays == acked \subseteq LinesOf(Holding)

\* An acknowledged evaluation keeps its receipt, so what was certified stays
\* certified: one kill truncates one of the two receipts files, never both.
\* (Two kills can: the second truncates the other file before the first is
\* written back, and verify_integrity then calls the archive hand-edited.)
ReceiptsSurviveKill ==
  budget.crashes <= 1 => acked \cap Evaluations \subseteq CertifiedLines

\* Whatever an operator wrote is gone when the operator call returns, unless
\* the mechanism was killed before it could undo it.
OperatorLeavesNoLine ==
  budget.crashes = 0 => Foreign \notin LinesOf(Holding)

=============================================================================
