--------------------------- MODULE ReliabilityJobs ---------------------------
(***************************************************************************)
(* A live row of pibo_jobs (src/reliability/store.ts) and what each        *)
(* statement of the store does to it.  Every statement is one transaction  *)
(* of the database that all processes share.                               *)
(*                                                                         *)
(* Time is reduced to two facts about a row: the run_at of a pending row   *)
(* has come (due), and the claim of a running row is past claim_expires_at *)
(* (expired).  claim_token and attempts are increased together and start   *)
(* together, so attempts stands for both.                                  *)
(***************************************************************************)
EXTENDS Naturals

CONSTANTS
  Process,      \* places a process runs in
  Nobody,       \* worker_id of a row that is not running, or of a process that is gone
  MaxAttempts,  \* max_attempts of every job
  Ends          \* times a process ends

ASSUME JobAssumption == MaxAttempts \in Nat \ {0} /\ Ends \in Nat /\ Nobody \notin Process

NoRow == [state |-> "none"]  \* no live row

\* enqueue
Inserted(id) ==
  [id |-> id, state |-> "pending", worker |-> Nobody, due |-> TRUE,
   expired |-> FALSE, attempts |-> 0, stage |-> 0]

IsRow(r, id) == r # NoRow /\ r.id = id

\* listRecoverableJobs, and the WHERE of claimRecoverableJob; deferred also
\* takes pending rows before their time.
Recoverable(r, deferred) ==
  /\ r # NoRow
  /\ \/ r.state = "pending" /\ (r.due \/ deferred)
     \/ r.state = "running" /\ r.expired

ExhaustedLate(r) == Recoverable(r, TRUE) /\ r.attempts > MaxAttempts

\* moveExhaustedRecoverableJobs takes such a row to pibo_dead_jobs.
Exhausted(r) == Recoverable(r, TRUE) /\ r.attempts >= MaxAttempts

Claimed(r, w) ==
  [r EXCEPT !.state = "running", !.worker = w, !.expired = FALSE, !.attempts = @ + 1]

HoldsAnyOwner(r, id, w, token) == IsRow(r, id) /\ r.state = "running"

\* The row is still claimed by w under this token: the WHERE of
\* updateJobPayload, ack and heartbeat, and getLiveWorkerJob.
Holds(r, id, w, token) ==
  /\ IsRow(r, id) /\ r.state = "running" /\ r.worker = w
  /\ r.attempts = token /\ ~r.expired

\* updateJobPayload
Updated(r, stage) == [r EXCEPT !.stage = stage]

PendingUncounted(r, due) ==
  [r EXCEPT !.state = "pending", !.worker = Nobody, !.due = due, !.expired = FALSE,
            !.attempts = @ - 1]

\* releaseJob and retry of a job with attempts left
Pending(r, due) ==
  [r EXCEPT !.state = "pending", !.worker = Nobody, !.due = due, !.expired = FALSE]

\* What the passing of time does.
ClaimLapses(r) == [r EXCEPT !.expired = TRUE]
BecomesDue(r) == [r EXCEPT !.due = TRUE]
=============================================================================
