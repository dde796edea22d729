----------------------------- MODULE RunRegistry -----------------------------
(***************************************************************************)
(* Yielded runs: the registry each process keeps of them in memory         *)
(* (src/runs/registry.ts), their rows and jobs in the store all processes  *)
(* share, the execution and cancellation of a run in the session router,   *)
(* and processes that end at any moment and start again.                   *)
(*                                                                         *)
(* JavaScript runs each operation of a process to its end, but one that    *)
(* ends a run writes twice, the run and its job: the second write is a     *)
(* step of its own, before which the process may end and other processes   *)
(* may use the store.                                                      *)
(***************************************************************************)
EXTENDS ReliabilityJobs, RunRecords

CONSTANTS
  Run,       \* the runs, by run id; the job of a run is named after it
  Origin     \* the message each run was started for

\* A live row of a run.
RunRow ==
  [id: Run, state: {"running"}, worker: Process \cup {Nobody}, due: {TRUE},
   expired: BOOLEAN, attempts: {1}, stage: {0}]

VARIABLES
  stored,   \* pibo_runs
  row,      \* pibo_jobs of the queue "runs"
  dead,     \* runs with a job in pibo_dead_jobs
  proc,     \* each process: whether it is up, and the second write it owes
  runs,     \* the Map of each process's registry
  exec,     \* the execution of a run in a process
  asked,    \* the cancellation of a run in a process
  aged,     \* runs whose completedAt is further back than the time to keep them
  late,     \* runs whose timeoutAt has passed
  started,  \* runs that were ever started: a run id is drawn once
  ended,    \* times a process ended
  cut       \* history: runs whose end was cut off between its two writes, or
            \* whose job's claim lapsed while they ran

store == <<stored, row, dead>>
memory == <<proc, runs, exec, asked>>
time == <<aged, late>>
vars == <<store, memory, time, started, ended, cut>>

\* What a process owes the store.
Nothing == [write |-> "none"]
Writing == [write: {"ack", "fail", "update"}, run: Run]
Up(p) == proc[p].up /\ proc[p].owes = Nothing
Executing(p, r) == exec[p][r] \in {"running", "awaits"}
Live(p, r) == Exists(runs[p][r]) /\ ~IsTerminal(runs[p][r])

\* getLiveWorkerJob without a token
Claims(p, r) == row[r] # NoRow /\ Holds(row[r], r, p, row[r].attempts)

\* updateRun: nothing happens to a row that is gone.
Stored(r, rec) == stored' = [stored EXCEPT ![r] = IF Exists(@) THEN rec ELSE @]
Remembered(p, r, rec) == runs' = [runs EXCEPT ![p][r] = rec]
Owes(p, write, r) == proc' = [proc EXCEPT ![p].owes = [write |-> write, run |-> r]]

\* A change of the record that ends with one updateRun.
Saves(p, r, rec) ==
  Remembered(p, r, rec) /\ Stored(r, rec) /\ UNCHANGED <<row, dead, proc>>

FailsJob(p, r) ==
  IF Claims(p, r) THEN row' = [row EXCEPT ![r] = NoRow] /\ dead' = dead \cup {r}
  ELSE UNCHANGED <<row, dead>>

SettlesRunOnly(p, r, status) ==
  IF Live(p, r) THEN Saves(p, r, Ended(runs[p][r], status)) ELSE UNCHANGED <<store, proc, runs>>

\* complete, fail, timeOut, resourceLimit: the row first, then the job.
Settles(p, r, status) ==
  IF Live(p, r)
  THEN /\ Remembered(p, r, Ended(runs[p][r], status))
       /\ Stored(r, Ended(runs[p][r], status))
       /\ Owes(p, IF status = "completed" THEN "ack" ELSE "fail", r)
       /\ UNCHANGED <<row, dead>>
  ELSE UNCHANGED <<store, proc, runs>>

\* cancel: the job first, then the row.
Cancels(p, r) ==
  IF Live(p, r)
  THEN /\ Remembered(p, r, Cancelled(runs[p][r])) /\ FailsJob(p, r)
       /\ Owes(p, "update", r) /\ UNCHANGED stored
  ELSE Saves(p, r, Cancelled(runs[p][r]))

\* The second write of an operation.
Writes(p) ==
  /\ proc[p].owes # Nothing
  /\ LET r == proc[p].owes.run IN
       CASE proc[p].owes.write = "ack" ->
              /\ row' = [row EXCEPT ![r] = IF Claims(p, r) THEN NoRow ELSE @]
              /\ UNCHANGED <<stored, dead>>
         [] proc[p].owes.write = "fail" -> FailsJob(p, r) /\ UNCHANGED stored
         [] OTHER -> Stored(r, runs[p][r]) /\ UNCHANGED <<row, dead>>
  /\ proc' = [proc EXCEPT ![p].owes = Nothing]
  /\ UNCHANGED <<runs, exec, asked, time, started, ended, cut>>

-----------------------------------------------------------------------------
(* Start and execution *)

Kept(records) ==
  [r \in Run |-> IF Exists(records[r]) /\ Prunable(records[r], r \in aged)
                 THEN NoRun ELSE records[r]]

\* prune, which list and listAll begin with too
Prune(p) ==
  /\ Up(p)
  /\ runs' = [runs EXCEPT ![p] = Kept(@)] /\ stored' = Kept(stored)
  /\ UNCHANGED <<row, dead, proc, exec, asked, time, started, ended, cut>>

\* startToolRun: prune, createRun in one transaction, and the execution begins.
Start(p, r, policy) ==
  /\ Up(p) /\ r \notin started
  /\ runs' = [runs EXCEPT ![p] = [Kept(@) EXCEPT ![r] = NewRun(policy)]]
  /\ stored' = [Kept(stored) EXCEPT ![r] = NewRun(policy)]
  /\ row' = [row EXCEPT ![r] = Claimed(Inserted(r), p)]
  /\ exec' = [exec EXCEPT ![p][r] = "running"]
  /\ started' = started \cup {r}
  /\ UNCHANGED <<dead, proc, asked, time, ended, cut>>

\* execute() returns, or throws something else than the answer to a cancellation.
ExecutionEnds(p, r, status) ==
  /\ Up(p) /\ exec[p][r] = "running"
  /\ Settles(p, r, status)
  /\ exec' = [exec EXCEPT ![p][r] = "done"]
  /\ UNCHANGED <<asked, time, started, ended, cut>>

\* execute() throws because it was cancelled: whether the run failed is for
\* the cancellation to say, and once that is confirmed the run is left to it.
ExecutionYields(p, r) ==
  /\ Up(p) /\ exec[p][r] = "running" /\ asked[p][r] \in {"pending", "confirmed"}
  /\ exec' = [exec EXCEPT ![p][r] = IF asked[p][r] = "pending" THEN "awaits" ELSE "done"]
  /\ UNCHANGED <<store, proc, runs, asked, time, started, ended, cut>>

-----------------------------------------------------------------------------
(* Cancellation *)

\* The handler of runCancellationHandlers, whose attempt all callers share.
AskCancel(p, r) ==
  /\ Up(p) /\ Live(p, r) /\ Executing(p, r) /\ asked[p][r] = "no"
  /\ asked' = [asked EXCEPT ![p][r] = "pending"]
  /\ UNCHANGED <<store, proc, runs, exec, time, started, ended, cut>>

\* The tool's cancel() resolved.
CancelConfirmed(p, r) ==
  /\ Up(p) /\ asked[p][r] = "pending"
  /\ asked' = [asked EXCEPT ![p][r] = "confirmed"]
  /\ exec' = [exec EXCEPT ![p][r] = IF @ = "awaits" THEN "done" ELSE @]
  /\ UNCHANGED <<store, proc, runs, time, started, ended, cut>>

\* The tool's cancel() threw or took too long, or the execution did not settle
\* in time after it: the callers get the error and the run stays as it is.
CancelFails(p, r) ==
  /\ Up(p)
  /\ \/ asked[p][r] = "pending"
     \/ asked[p][r] = "confirmed" /\ Executing(p, r)
  /\ asked' = [asked EXCEPT ![p][r] = "failed"]
  /\ IF exec[p][r] = "awaits"
     THEN Settles(p, r, "failed") /\ exec' = [exec EXCEPT ![p][r] = "done"]
     ELSE UNCHANGED <<store, proc, runs, exec>>
  /\ UNCHANGED <<time, started, ended, cut>>

CancelCommitsAtOnce(p, r) ==
  /\ Up(p) /\ asked[p][r] = "confirmed" /\ Exists(runs[p][r])
  /\ asked' = [asked EXCEPT ![p][r] = "no"]
  /\ Cancels(p, r)
  /\ UNCHANGED <<exec, time, started, ended, cut>>

\* A caller goes on once the execution has settled.  cancelRun cancels in any
\* case, cancelRunsAfterSettlement only what has not ended.
CancelCommits(p, r) ==
  /\ Up(p) /\ asked[p][r] = "confirmed" /\ ~Executing(p, r)
  /\ asked' = [asked EXCEPT ![p][r] = "no"]
  /\ \/ Exists(runs[p][r]) /\ Cancels(p, r)
     \/ ~Live(p, r) /\ UNCHANGED <<store, proc, runs>>
  /\ UNCHANGED <<exec, time, started, ended, cut>>

\* cancelRun of a run that has ended, or that nothing executes here.
CancelNow(p, r) ==
  /\ Up(p) /\ Exists(runs[p][r]) /\ ~Executing(p, r)
  /\ Cancels(p, r)
  /\ UNCHANGED <<exec, asked, time, started, ended, cut>>

-----------------------------------------------------------------------------
(* Reading, acknowledging and notifying *)

Untouched == UNCHANGED <<exec, asked, time, started, ended, cut>>

Read(p, r) ==
  /\ Up(p) /\ Exists(runs[p][r]) /\ IsTerminal(runs[p][r]) /\ ~runs[p][r].consumed
  /\ Saves(p, r, ReadBy(runs[p][r]))
  /\ Untouched

Ack(p, r) ==
  /\ Up(p) /\ Exists(runs[p][r])
  /\ \/ runs[p][r].acked # runs[p][r].status
     \/ IsTerminal(runs[p][r]) /\ ~runs[p][r].consumed
  /\ Saves(p, r, Acknowledged(runs[p][r]))
  /\ Untouched

\* Op on the records of S, each written to the store.
SavesAll(p, S, Op(_)) ==
  /\ runs' = [runs EXCEPT ![p] = [r \in Run |-> IF r \in S THEN Op(@[r]) ELSE @[r]]]
  /\ stored' = [r \in Run |-> IF r \in S /\ Exists(stored[r]) THEN Op(runs[p][r]) ELSE stored[r]]
  /\ UNCHANGED <<row, dead, proc>>

\* suppressNotification of a run and suppressControllerNotifications
Suppress(p) ==
  /\ Up(p)
  /\ LET known == {r \in Run : Exists(runs[p][r])} IN
       \/ \E r \in known : SavesAll(p, {r}, Suppressed)
       \/ SavesAll(p, {r \in known : runs[p][r].policy = "tracked"}, Suppressed)
  /\ Untouched

CreateNotificationUnsaved(p) ==
  /\ Up(p)
  /\ \E r \in Run : /\ Exists(runs[p][r]) /\ Needs(runs[p][r], FALSE)
                    /\ Remembered(p, r, Notified(runs[p][r]))
  /\ UNCHANGED <<store, proc>>
  /\ Untouched

\* createNotification: what needs one and has the origin of the first of them.
CreateNotification(p) ==
  /\ Up(p)
  /\ \E again \in BOOLEAN :
       LET needing == {r \in Run : Exists(runs[p][r]) /\ Needs(runs[p][r], again)} IN
         \E first \in needing :
           SavesAll(p, {r \in needing : Origin[r] = Origin[first]}, Notified)
  /\ Untouched

\* releaseNotification
ReleaseNotification(p) ==
  /\ Up(p)
  /\ \E S \in SUBSET {r \in Run : Exists(runs[p][r]) /\ runs[p][r].notified = runs[p][r].status} :
       SavesAll(p, S, LAMBDA rec : Released(rec, rec.status))
  /\ Untouched

-----------------------------------------------------------------------------
(* Processes and time *)

\* Its successor draws a new worker id, so what it had claimed is nobody's.
End(p) ==
  /\ proc[p].up /\ ended < Ends
  /\ ended' = ended + 1
  /\ cut' = IF proc[p].owes = Nothing THEN cut ELSE cut \cup {proc[p].owes.run}
  /\ proc' = [proc EXCEPT ![p] = [up |-> FALSE, owes |-> Nothing]]
  /\ runs' = [runs EXCEPT ![p] = [r \in Run |-> NoRun]]
  /\ exec' = [exec EXCEPT ![p] = [r \in Run |-> "none"]]
  /\ asked' = [asked EXCEPT ![p] = [r \in Run |-> "no"]]
  /\ row' = [r \in Run |-> IF row[r] # NoRow /\ row[r].worker = p
                           THEN [row[r] EXCEPT !.worker = Nobody] ELSE row[r]]
  /\ UNCHANGED <<stored, dead, time, started>>

ClaimedByAny(p, r) == row[r] # NoRow /\ row[r].state = "running" /\ ~row[r].expired

\* recoverInterruptedRuns passes over runs whose job this worker has claimed.
ClaimedBy(p, r) == Claims(p, r)

Interrupted(p) ==
  {r \in Run : /\ Exists(stored[r]) /\ stored[r].status = "running"
               /\ ~ClaimedBy(p, r)}

\* reconcileOrphanRunJobs
Orphaned ==
  {r \in Run : row[r] # NoRow /\ row[r].state = "running" /\ row[r].expired /\ ~Exists(stored[r])}

\* The constructor: recoverInterruptedRuns, and all runs are loaded.
Boot(p) ==
  /\ ~proc[p].up
  /\ \E recovered \in {[r \in Run |->
          IF r \in Interrupted(p) THEN Ended(stored[r], IF r \in late THEN "timed_out" ELSE "failed")
          ELSE stored[r]]} :
       stored' = recovered /\ runs' = [runs EXCEPT ![p] = recovered]
  /\ \E taken \in {{r \in Interrupted(p) \cup Orphaned : row[r] # NoRow}} :
       /\ row' = [r \in Run |-> IF r \in taken THEN NoRow ELSE row[r]]
       /\ dead' = dead \cup taken
  /\ proc' = [proc EXCEPT ![p].up = TRUE]
  /\ Untouched

\* A day goes by: nothing renews the claim of a run.
ClaimExpires(r) ==
  /\ row[r] # NoRow /\ ~row[r].expired
  /\ row' = [row EXCEPT ![r] = ClaimLapses(@)]
  /\ cut' = cut \cup {r}
  /\ UNCHANGED <<stored, dead, memory, time, started, ended>>

DeadlinePasses(r) ==
  /\ r \in started \ late
  /\ late' = late \cup {r}
  /\ UNCHANGED <<store, memory, aged, started, ended, cut>>

KeepingEnds(r) ==
  /\ r \notin aged /\ Exists(stored[r]) /\ IsTerminal(stored[r])
  /\ aged' = aged \cup {r}
  /\ UNCHANGED <<store, memory, late, started, ended, cut>>

-----------------------------------------------------------------------------
Init ==
  /\ stored = [r \in Run |-> NoRun] /\ row = [r \in Run |-> NoRow] /\ dead = {}
  /\ proc = [p \in Process |-> [up |-> FALSE, owes |-> Nothing]]
  /\ runs = [p \in Process |-> [r \in Run |-> NoRun]]
  /\ exec = [p \in Process |-> [r \in Run |-> "none"]]
  /\ asked = [p \in Process |-> [r \in Run |-> "no"]]
  /\ aged = {} /\ late = {} /\ started = {} /\ ended = 0 /\ cut = {}

Next ==
  \/ \E p \in Process, r \in Run :
       \/ \E policy \in Policy : Start(p, r, policy)
       \/ \E status \in {"completed", "failed", "timed_out"} : ExecutionEnds(p, r, status)
       \/ ExecutionYields(p, r)
       \/ AskCancel(p, r) \/ CancelConfirmed(p, r) \/ CancelFails(p, r)
       \/ CancelCommits(p, r) \/ CancelNow(p, r)
       \/ Read(p, r) \/ Ack(p, r)
  \/ \E p \in Process :
       \/ Writes(p) \/ Prune(p) \/ Suppress(p)
       \/ CreateNotification(p) \/ ReleaseNotification(p)
       \/ End(p) \/ Boot(p)
  \/ \E r \in Run : ClaimExpires(r) \/ DeadlinePasses(r) \/ KeepingEnds(r)

Spec == Init /\ [][Next]_vars

-----------------------------------------------------------------------------
(* Properties *)

\* Every variable has its type, and every job is claimed by its first attempt.
TypeOK ==
  /\ stored \in [Run -> RunRecord \cup {NoRun}]
  /\ row \in [Run -> RunRow \cup {NoRow}]
  /\ proc \in [Process -> [up: BOOLEAN, owes: Writing \cup {Nothing}]]
  /\ runs \in [Process -> [Run -> RunRecord \cup {NoRun}]]
  /\ exec \in [Process -> [Run -> {"none", "running", "awaits", "done"}]]
  /\ asked \in [Process -> [Run -> {"no", "pending", "confirmed", "failed"}]]
  /\ dead \cup aged \cup late \cup cut \subseteq started
  /\ started \subseteq Run /\ ended \in 0 .. Ends

\* A run ends once: no later completion, failure, cancellation or recovery
\* gives the stored run another status.
TerminalFinal ==
  [][\A r \in Run :
       (Exists(stored[r]) /\ IsTerminal(stored[r]) /\ Exists(stored'[r]))
         => stored'[r].status = stored[r].status]_vars

\* Between two operations the store holds all that a process knows, so that
\* a restart forgets no end, acknowledgement or notification of a run.
MemoryIsStored == \A p \in Process : Up(p) => runs[p] = stored

\* A stored run that is not over is being executed, or has a caller that is
\* about to cancel it: no restart or failed cancellation leaves it behind.
RunningIsExecuted ==
  \A p \in Process, r \in Run :
    (Up(p) /\ Exists(stored[r]) /\ stored[r].status = "running")
      => Executing(p, r) \/ asked[p][r] = "confirmed"

\* The job of a run ends with the run, unless its process ended between the
\* two writes or the claim lapsed meanwhile.
JobEndsWithRun ==
  \A r \in Run : (row[r] # NoRow /\ (\A p \in Process : proc[p].owes = Nothing)) =>
    \/ Exists(stored[r]) /\ stored[r].status = "running"
    \/ r \in cut

\* A run is only cancelled once nothing executes it any more.
CancelledIsOver ==
  \A p \in Process, r \in Run :
    (Exists(runs[p][r]) /\ runs[p][r].status = "cancelled") => ~Executing(p, r)
=============================================================================
