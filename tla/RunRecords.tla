------------------------------ MODULE RunRecords ------------------------------
(***************************************************************************)
(* The record of a yielded run (src/runs/registry.ts) and what each        *)
(* operation of the registry does to it.  Results, errors, summaries and   *)
(* resources are left out; completedAt is set exactly when the status is   *)
(* terminal.  No caller asks for a retryable run, so none is ever queued.  *)
(***************************************************************************)
CONSTANTS
  NoRun,    \* no record
  Unset     \* notifiedStatus or acknowledgedStatus that was never set

Terminal == {"completed", "failed", "timed_out", "cancelled"}
Status == Terminal \cup {"running"}
Policy == {"tracked", "detached"}

RunRecord ==
  [status: Status, policy: Policy, consumed: BOOLEAN,
   notified: Status \cup {Unset}, acked: Status \cup {Unset}]

ASSUME RunRecordAssumption == NoRun \notin RunRecord /\ Unset \notin Status

NewRun(policy) ==
  [status |-> "running", policy |-> policy, consumed |-> FALSE,
   notified |-> Unset, acked |-> Unset]

Exists(r) == r # NoRun
IsTerminal(r) == r.status \in Terminal

\* complete, fail, timeOut and resourceLimit of a run that is not terminal
Ended(r, status) == [r EXCEPT !.status = status]

CancelledAnyway(r) == [r EXCEPT !.status = "cancelled", !.consumed = TRUE]

\* cancel: an ended run keeps its status, and both count as read.
Cancelled(r) ==
  [r EXCEPT !.status = IF IsTerminal(r) THEN @ ELSE "cancelled", !.consumed = TRUE]

\* read
ReadBy(r) == [r EXCEPT !.consumed = @ \/ IsTerminal(r)]

\* ack: the present status needs no further reminder.
Acknowledged(r) ==
  [r EXCEPT !.acked = r.status, !.consumed = @ \/ IsTerminal(r)]

\* suppressNotification
Suppressed(r) == [r EXCEPT !.acked = r.status]

\* needsNotification of a record of the controller
Needs(r, again) ==
  /\ r.policy = "tracked" /\ ~r.consumed /\ r.acked # r.status
  /\ again \/ r.notified # r.status

\* createNotification and releaseNotification
Notified(r) == [r EXCEPT !.notified = r.status]

Released(r, status) ==
  IF r.status = status /\ r.notified = status THEN [r EXCEPT !.notified = Unset] ELSE r

\* prune takes ended runs past their time that nobody has to read.
Prunable(r, aged) ==
  IsTerminal(r) /\ aged /\ (r.policy = "detached" \/ r.consumed)
=============================================================================
