-------------------------- MODULE OutputPersistence --------------------------
(***************************************************************************)
(* How an output event of a session reaches the product's history: the     *)
(* retry queue of src/core/output-persistence-retry.ts, the delivery that  *)
(* src/apps/chat/web-app.ts gives it to run, and the rows of the           *)
(* reliability store that make it durable, with processes that crash, are  *)
(* disposed of and start again beside each other.                          *)
(*                                                                         *)
(* A handler is a function on the state s = [row, dead, me] of the store   *)
(* and of one process; an action applies one handler.  The phases of a     *)
(* delivery between two awaits are separate steps, because a crash or a    *)
(* statement of another process can fall between them, but no other        *)
(* handler of the same process can.                                        *)
(***************************************************************************)
EXTENDS ReliabilityJobs, FiniteSets, Functions

CONSTANTS
  Key,          \* the outputs, by idempotency key
  MaxPending,   \* maxPending of the queue
  Handovers,    \* times any output is handed to any queue, all together
  Lapses        \* claims that lapse although their process is alive

\* A live row of this queue
OutputRow ==
  [id : Nat, state : {"pending", "running"}, worker : Process \cup {Nobody}, due : BOOLEAN,
   expired : BOOLEAN, attempts : 0 .. MaxAttempts, stage : 0 .. 2]

ASSUME OutputAssumption ==
  /\ MaxPending \in Nat \ {0} /\ Handovers \in Nat /\ Lapses \in Nat /\ IsFiniteSet(Key)

VARIABLES
  row,       \* pibo_jobs, by idempotency key
  dead,      \* keys with a row in pibo_dead_jobs
  proc,      \* the queue of each process
  history,   \* keys stored in the product's event log (V2)
  stream,    \* keys appended to the reliability stream
  receipts,  \* keys with a delivery receipt
  sent,      \* times a key was projected and sent to live listeners (two at most)
  handed,    \* history: times a key was handed over
  ended,     \* processes that crashed or were disposed of
  lapsed,    \* claims that lapsed under a live process
  cut        \* history: keys whose delivery was cut off before its receipt

effects == <<history, stream, receipts, sent>>
vars == <<row, dead, proc, effects, handed, ended, lapsed, cut>>

Asynchronous == {"ingest", "fetch", "returned"}
Synchronous == {"checkpoint", "append", "look", "receipt"}
Phase == {"none", "idle", "ended"} \cup Asynchronous \cup Synchronous

\* A PendingJob: listed while the pending Map holds it, ended until the
\* finally() of its attempt has run.
NoEntry ==
  [phase |-> "none", id |-> 0, stage |-> 0, claim |-> 0, timer |-> FALSE,
   force |-> FALSE, aborted |-> FALSE, listed |-> FALSE]

Fresh ==
  [status |-> "down", entry |-> [k \in Key |-> NoEntry], blocked |-> {},
   recovery |-> FALSE, drain |-> "no", awaited |-> {}]

Here(p) == [row |-> row, dead |-> dead, me |-> proc[p]]
Commit(p, s) ==
  row' = s.row /\ dead' = s.dead /\ proc' = [proc EXCEPT ![p] = s.me]

Listed(me) == {k \in Key : me.entry[k].listed}
Running(me) == {k \in Key : me.entry[k].phase \in Asynchronous \cup Synchronous}
Free(p) == \A k \in Key : proc[p].entry[k].phase \notin Synchronous
CutOff(keys) == cut' = cut \cup (keys \ receipts)
Holder(s, p, k) == Holds(s.row[k], s.me.entry[k].id, p, s.me.entry[k].claim)

-----------------------------------------------------------------------------
(* Helpers of the queue *)

\* Op applied to the state s: TLC evaluates s once, not at every use of it.
Then(s, Op(_)) == CHOOSE r \in {Op(t) : t \in {s}} : TRUE

\* Op for each of the keys in turn, in an order of no consequence.
ForEach(keys, s, Op(_, _)) ==
  LET after[done \in SUBSET keys] ==
        IF done = {} THEN s
        ELSE LET k == CHOOSE k \in done : TRUE
             IN Then(after[done \ {k}], LAMBDA t : Op(k, t))
  IN after[keys]

NotifyUnheard(s) == s

\* notifyChange: a drain() that waits for a change looks again.
Notify(s) == IF s.me.drain = "change" THEN [s EXCEPT !.me.drain = "again"] ELSE s

ScheduleRecovery(s) ==
  IF s.me.status = "up" /\ \E k \in Key : s.row[k] # NoRow
  THEN [s EXCEPT !.me.recovery = TRUE] ELSE s

Bury(s, k) == [s EXCEPT !.row[k] = NoRow, !.dead = @ \cup {k}]

\* The attempt is over and the job is not pending any more.
Leaves(s, k) ==
  [s EXCEPT !.me.entry[k] = [@ EXCEPT !.phase = "ended", !.listed = FALSE, !.aborted = FALSE]]

\* reconcileClaimMiss
ClaimMiss(s, k) ==
  LET e == s.me.entry[k]
      left == [Leaves(s, k) EXCEPT
                 !.me.blocked = IF IsRow(s.row[k], e.id) THEN @ \cup {<<k, e.id>>} ELSE @]
  IN Then(Notify(left), ScheduleRecovery)

FirstPhaseEarly(stage) ==
  CASE stage = 0 -> "ingest" [] stage = 1 -> "append" [] OTHER -> "returned"

FirstPhase(stage) ==
  CASE stage = 0 -> "ingest" [] stage = 1 -> "append" [] OTHER -> "look"

\* startAttempt without an execution, and attempt() up to the first await.
Begin(s, p, k, forced) ==
  LET e == s.me.entry[k]
      r == s.row[k]
  IN CASE IsRow(r, e.id) /\ Exhausted(r) -> Then(Bury(s, k), LAMBDA t : ClaimMiss(t, k))
       [] IsRow(r, e.id) /\ ~Exhausted(r) /\ Recoverable(r, forced) ->
            [s EXCEPT !.row[k] = Claimed(r, p),
                      !.me.entry[k] = [e EXCEPT !.phase = FirstPhase(r.stage),
                                                !.stage = r.stage, !.claim = r.attempts + 1,
                                                !.timer = FALSE, !.force = FALSE]]
       [] OTHER -> ClaimMiss(s, k)

\* pending.set of a job for the row of k
Admit(s, k) ==
  [s EXCEPT !.me.entry[k] = [NoEntry EXCEPT !.phase = "idle", !.id = s.row[k].id,
                                            !.listed = TRUE]]

\* Rows that pumpRecovery finds in the store
Found(s) ==
  {k \in Key : /\ Recoverable(s.row[k], s.me.drain # "no")
               /\ <<k, s.row[k].id>> \notin s.me.blocked
               /\ s.me.entry[k] = NoEntry}

\* One of them, while there is a place for it.
Recover(s, p, k) ==
  IF Cardinality(Listed(s.me)) < MaxPending
  THEN Then(Admit(s, k), LAMBDA t : Begin(t, p, k, s.me.drain # "no")) ELSE s

PumpRecoveryUnscheduled(s, p) ==
  IF s.me.status # "up" THEN s
  ELSE ForEach(Found(s), Notify(s), LAMBDA k, t : Recover(t, p, k))

\* pumpRecovery
PumpRecovery(s, p) ==
  IF s.me.status # "up" THEN s
  ELSE Then(ForEach(Found(s), IF Found(s) = {} THEN s ELSE Notify(s),
                    LAMBDA k, t : Recover(t, p, k)),
            ScheduleRecovery)

-----------------------------------------------------------------------------
(* Handing an output over *)

\* enqueue(job) of an output that is pending already: a producer's replay.
Replay(s, p, k) ==
  IF s.me.entry[k].phase = "idle" \/ s.me.entry[k].timer
  THEN Then([s EXCEPT !.me.awaited = @ \ {k}], LAMBDA t : Begin(t, p, k, TRUE))
  ELSE [s EXCEPT !.me.entry[k].force = TRUE]

\* enqueue
HandOver(s, p, k) ==
  LET inserted == IF s.row[k] = NoRow THEN [s EXCEPT !.row[k] = Inserted(handed[k] + 1)] ELSE s
  IN CASE k \in Listed(s.me) -> Replay(s, p, k)
       [] k \notin Listed(s.me) /\ Cardinality(Listed(s.me)) >= MaxPending ->
            [s EXCEPT !.dead = @ \cup {k}]
       [] OTHER -> Then(Notify(Admit(inserted, k)), LAMBDA t : Begin(t, p, k, FALSE))

Enqueue(p, k) ==
  /\ proc[p].status = "up" /\ Free(p) /\ SumFunction(handed) < Handovers
  /\ proc[p].entry[k].listed \/ proc[p].entry[k] = NoEntry
  /\ handed' = [handed EXCEPT ![k] = @ + 1]
  /\ \E s \in {HandOver(Here(p), p, k)} : Commit(p, s)
  /\ UNCHANGED <<effects, ended, lapsed, cut>>

-----------------------------------------------------------------------------
(* An attempt *)

\* attempt() after run() threw an error that is not a lost claim
Fails(s, p, k, permanent) ==
  LET e == s.me.entry[k]
  IN CASE s.me.status # "up" -> Leaves(s, k)
       [] s.me.status = "up" /\ ~Holder(s, p, k) -> ClaimMiss(s, k)
       [] OTHER -> IF permanent \/ e.claim >= MaxAttempts THEN Leaves(Bury(s, k), k)
                   ELSE Notify([s EXCEPT
                          !.row[k] = Pending(@, FALSE),
                          !.me.entry[k] = [e EXCEPT !.phase = "ended", !.timer = TRUE,
                                                    !.aborted = FALSE]])

LosesClaim(s, k) == IF s.me.status # "up" THEN Leaves(s, k) ELSE ClaimMiss(s, k)

In(p, k, phase) == proc[p].entry[k].phase = phase
GoTo(s, k, phase) == [s EXCEPT !.me.entry[k].phase = phase]

StageDone(s, k, stage) ==
  [s EXCEPT !.me.entry[k] = [@ EXCEPT !.phase = "checkpoint", !.stage = stage]]

\* ingestOutput: idempotent by delivery key
Ingest(p, k) ==
  /\ In(p, k, "ingest") /\ Free(p)
  /\ history' = history \cup {k}
  /\ Commit(p, StageDone(Here(p), k, 1))
  /\ UNCHANGED <<stream, receipts, sent, handed, ended, lapsed, cut>>

IngestFailsUnseen(p, k) ==
  /\ In(p, k, "ingest") /\ Free(p)
  /\ Commit(p, StageDone(Here(p), k, 1))
  /\ UNCHANGED <<effects, handed, ended, lapsed, cut>>

\* It fails, perhaps after the event was stored.
IngestFails(p, k) ==
  /\ In(p, k, "ingest") /\ Free(p)
  /\ history' \in {history, history \cup {k}}
  /\ \E permanent \in BOOLEAN : \E s \in {Here(p)} :
       \E t \in {Fails(s, p, k, permanent)} : Commit(p, t)
  /\ UNCHANGED <<stream, receipts, sent, handed, ended, lapsed, cut>>

\* checkpoint(), through updatePayload
Checkpoint(p, k) ==
  /\ In(p, k, "checkpoint")
  /\ \E s \in {Here(p)} :
       \/ /\ Holder(s, p, k)
          /\ Commit(p, GoTo([s EXCEPT !.row[k] = Updated(@, s.me.entry[k].stage)], k,
                            FirstPhase(s.me.entry[k].stage)))
       \/ ~Holder(s, p, k) /\ Commit(p, LosesClaim(s, k))
  /\ UNCHANGED <<effects, handed, ended, lapsed, cut>>

\* appendOnce
Append(p, k) ==
  /\ In(p, k, "append")
  /\ stream' = stream \cup {k}
  /\ Commit(p, StageDone(Here(p), k, 2))
  /\ UNCHANGED <<history, receipts, sent, handed, ended, lapsed, cut>>

\* What comes after the ingestion fails: the append, the look for a receipt, the
\* fetch of a large payload or the receipt.
StepFails(p, k) ==
  /\ \E phase \in {"append", "look", "fetch", "receipt"} : In(p, k, phase)
  /\ In(p, k, "fetch") => Free(p)
  /\ \E s \in {Here(p)} : \E t \in {Fails(s, p, k, FALSE)} : Commit(p, t)
  /\ CutOff({k} \cap {j \in Key : In(p, j, "receipt")})
  /\ UNCHANGED <<effects, handed, ended, lapsed>>

LookAlwaysSends(p, k) ==
  /\ In(p, k, "look")
  /\ Commit(p, GoTo(Here(p), k, "fetch"))
  /\ UNCHANGED <<effects, handed, ended, lapsed, cut>>

\* hasDeliveryReceipt: the side effects are due only without a receipt.
Look(p, k) ==
  /\ In(p, k, "look")
  /\ Commit(p, GoTo(Here(p), k, IF k \in receipts THEN "returned" ELSE "fetch"))
  /\ UNCHANGED <<effects, handed, ended, lapsed, cut>>

\* recordEvent and the live listeners, after a large payload was fetched
Send(p, k) ==
  /\ In(p, k, "fetch") /\ Free(p)
  /\ sent' = [sent EXCEPT ![k] = IF @ < 2 THEN @ + 1 ELSE @]
  /\ Commit(p, GoTo(Here(p), k, "receipt"))
  /\ UNCHANGED <<history, stream, receipts, handed, ended, lapsed, cut>>

\* recordDeliveryReceipt
RecordReceipt(p, k) ==
  /\ In(p, k, "receipt")
  /\ receipts' = receipts \cup {k}
  /\ Commit(p, GoTo(Here(p), k, "returned"))
  /\ UNCHANGED <<history, stream, sent, handed, ended, lapsed, cut>>

\* attempt() after run() resolved: ack, or the claim is lost.
Settles(s, p, k) ==
  CASE s.me.entry[k].aborted -> LosesClaim(s, k)
    [] ~s.me.entry[k].aborted /\ Holder(s, p, k) -> Leaves([s EXCEPT !.row[k] = NoRow], k)
    [] OTHER -> IF IsRow(s.row[k], s.me.entry[k].id) THEN LosesClaim(s, k) ELSE Leaves(s, k)

Return(p, k) ==
  /\ In(p, k, "returned") /\ Free(p)
  /\ \E s \in {Here(p)} : \E t \in {Settles(s, p, k)} : Commit(p, t)
  /\ UNCHANGED <<effects, handed, ended, lapsed, cut>>

\* A heartbeat that renews nothing aborts the run.
Heartbeat(p, k) ==
  /\ In(p, k, "ingest") \/ In(p, k, "fetch")
  /\ Free(p) /\ proc[p].status = "up"
  /\ ~proc[p].entry[k].aborted /\ ~Holder(Here(p), p, k)
  /\ Commit(p, [Here(p) EXCEPT !.me.entry[k].aborted = TRUE])
  /\ UNCHANGED <<effects, handed, ended, lapsed, cut>>

\* execution.finally()
AfterAttempt(s, p, k) ==
  LET e == s.me.entry[k]
      over == IF e.listed THEN [e EXCEPT !.phase = "idle"] ELSE NoEntry
      me == [s.me EXCEPT !.awaited = @ \ {k}, !.entry[k] = over]
      t == Notify([s EXCEPT !.me = me])
      forced == IF e.listed /\ e.force THEN Then(t, LAMBDA u : Begin(u, p, k, TRUE)) ELSE t
  IN Then(forced, LAMBDA u : PumpRecovery(u, p))

Finally(p, k) ==
  /\ In(p, k, "ended") /\ Free(p)
  /\ \E s \in {Here(p)} : \E t \in {AfterAttempt(s, p, k)} : Commit(p, t)
  /\ UNCHANGED <<effects, handed, ended, lapsed, cut>>

\* The timer of schedule(): startAttempt(job, false).
RetryTimer(p, k) ==
  /\ In(p, k, "idle") /\ proc[p].entry[k].timer /\ Free(p)
  /\ \E s \in {Notify([Here(p) EXCEPT !.me.entry[k].timer = FALSE])} :
       \E t \in {Begin(s, p, k, FALSE)} : Commit(p, t)
  /\ UNCHANGED <<effects, handed, ended, lapsed, cut>>

-----------------------------------------------------------------------------
(* Recovery and drain() *)

\* The timer of scheduleRecovery().
RecoveryTimer(p) ==
  /\ proc[p].recovery /\ Free(p)
  /\ \E s \in {Notify([Here(p) EXCEPT !.me.recovery = FALSE])} :
       \E t \in {PumpRecovery(s, p)} : Commit(p, t)
  /\ UNCHANGED <<effects, handed, ended, lapsed, cut>>

\* startAttempt(job, true) of a pending job
Attempt(s, p, k) ==
  IF s.me.entry[k].phase = "idle" THEN Begin(s, p, k, TRUE)
  ELSE [s EXCEPT !.me.entry[k] = [@ EXCEPT !.force = TRUE, !.timer = FALSE]]

\* flushNow
Flush(s, p) == ForEach(Listed(s.me), s, LAMBDA k, t : Attempt(t, p, k))

\* hasRecoverableJobs moves what is exhausted to the dead jobs.
BuryExhausted(s) ==
  LET spent == {k \in Key : Exhausted(s.row[k])}
  IN [s EXCEPT !.row = [k \in Key |-> IF k \in spent THEN NoRow ELSE s.row[k]],
               !.dead = @ \cup spent]

\* The end of the loop of drain(), nothing being attempted.
Waits(s) ==
  IF Listed(s.me) = {} /\ ~(\E k \in Key : Recoverable(s.row[k], TRUE))
  THEN [s EXCEPT !.me.drain = "no"] ELSE ScheduleRecovery(s)

\* What drain() awaits, if it goes on.
AwaitOrEnd(s) ==
  LET executing == {k \in Listed(s.me) : s.me.entry[k].phase # "idle"}
  IN IF executing # {}
     THEN [s EXCEPT !.me = [@ EXCEPT !.drain = "executions", !.awaited = executing]]
     ELSE Then(BuryExhausted(s), Waits)

\* One turn of the loop of drain(), until it awaits.
DrainTurn(s, p) ==
  LET flushed == Flush([s EXCEPT !.me.drain = "change"], p)
  IN Then(Then(flushed, LAMBDA t : PumpRecovery(t, p)), AwaitOrEnd)

Drain(p) ==
  /\ proc[p].status = "up" /\ proc[p].drain = "no" /\ Free(p)
  /\ \E s \in {Here(p)} : \E t \in {DrainTurn(s, p)} : Commit(p, t)
  /\ UNCHANGED <<effects, handed, ended, lapsed, cut>>

DrainAgain(p) ==
  /\ \/ proc[p].drain = "again"
     \/ proc[p].drain = "executions" /\ proc[p].awaited = {}
  /\ Free(p)
  /\ \E s \in {Here(p)} : \E t \in {DrainTurn(s, p)} : Commit(p, t)
  /\ UNCHANGED <<effects, handed, ended, lapsed, cut>>

-----------------------------------------------------------------------------
(* Processes and time *)

\* releaseJob: a row without attempts left goes to the dead jobs.
Released(r) == IF r.attempts >= MaxAttempts THEN NoRow ELSE Pending(r, TRUE)

\* What dispose() leaves of a pending job: its attempt, if one runs.
Dropped(e) ==
  IF e.phase = "idle" THEN NoEntry
  ELSE [e EXCEPT !.listed = FALSE, !.timer = FALSE, !.aborted = e.phase \in Asynchronous]

\* dispose(): claims are released, what runs goes on unlisted and aborted.
Disposed(s, p) ==
  LET claimed == {k \in Listed(s.me) : /\ s.me.entry[k].phase \in Asynchronous
                                       /\ Holder(s, p, k)}
      me == [s.me EXCEPT
               !.entry = [k \in Key |-> IF k \in Listed(s.me) THEN Dropped(s.me.entry[k])
                                        ELSE s.me.entry[k]],
               !.status = "disposed", !.blocked = {}, !.recovery = FALSE]
  IN Notify([s EXCEPT
       !.row = [k \in Key |-> IF k \in claimed THEN Released(s.row[k]) ELSE s.row[k]],
       !.dead = @ \cup {k \in claimed : Released(s.row[k]) = NoRow},
       !.me = me])

Dispose(p) ==
  /\ proc[p].status = "up" /\ ended < Ends /\ Free(p)
  /\ \E s \in {Disposed(Here(p), p)} : Commit(p, s)
  /\ ended' = ended + 1
  /\ CutOff(Running(proc[p]))
  /\ UNCHANGED <<effects, handed, lapsed>>

\* The process ends, of itself after dispose() or by a crash.  Its successor
\* draws a new worker id, so what it had claimed is nobody's.
End(p) ==
  /\ \/ proc[p].status = "disposed" /\ UNCHANGED ended
     \/ proc[p].status = "up" /\ ended < Ends /\ ended' = ended + 1
  /\ proc' = [proc EXCEPT ![p] = Fresh]
  /\ row' = [k \in Key |-> IF row[k] # NoRow /\ row[k].worker = p
                           THEN [row[k] EXCEPT !.worker = Nobody] ELSE row[k]]
  /\ CutOff(Running(proc[p]))
  /\ UNCHANGED <<dead, effects, handed, lapsed>>

\* A new queue, and recover().
Start(p) ==
  /\ proc[p].status = "down"
  /\ \E s \in {[Here(p) EXCEPT !.me.status = "up"]} :
       \E t \in {PumpRecovery(s, p)} : Commit(p, t)
  /\ UNCHANGED <<effects, handed, ended, lapsed, cut>>

\* A claim can lapse under a process that is alive but stalled.
ClaimExpires(k) ==
  /\ row[k] # NoRow /\ row[k].state = "running" /\ ~row[k].expired
  /\ IF row[k].worker = Nobody THEN UNCHANGED lapsed
     ELSE lapsed < Lapses /\ lapsed' = lapsed + 1
  /\ row' = [row EXCEPT ![k] = ClaimLapses(@)]
  /\ CutOff({k})
  /\ UNCHANGED <<dead, proc, effects, handed, ended>>

RetryComesDue(k) ==
  /\ row[k] # NoRow /\ row[k].state = "pending" /\ ~row[k].due
  /\ row' = [row EXCEPT ![k] = BecomesDue(@)]
  /\ UNCHANGED <<dead, proc, effects, handed, ended, lapsed, cut>>

BlockEnds(p) ==
  /\ proc[p].blocked # {}
  /\ proc' = [proc EXCEPT ![p].blocked = {}]
  /\ UNCHANGED <<row, dead, effects, handed, ended, lapsed, cut>>

-----------------------------------------------------------------------------
Init ==
  /\ row = [k \in Key |-> NoRow] /\ dead = {}
  /\ proc = [p \in Process |-> Fresh]
  /\ history = {} /\ stream = {} /\ receipts = {} /\ sent = [k \in Key |-> 0]
  /\ handed = [k \in Key |-> 0] /\ ended = 0 /\ lapsed = 0 /\ cut = {}

Delivery(p, k) ==
  \/ Ingest(p, k) \/ IngestFails(p, k) \/ Checkpoint(p, k) \/ Append(p, k)
  \/ StepFails(p, k) \/ Look(p, k) \/ Send(p, k) \/ RecordReceipt(p, k) \/ Return(p, k)

Next ==
  \/ \E p \in Process, k \in Key :
       \/ Enqueue(p, k) \/ Delivery(p, k) \/ Heartbeat(p, k)
       \/ Finally(p, k) \/ RetryTimer(p, k)
  \/ \E p \in Process :
       \/ RecoveryTimer(p) \/ Drain(p) \/ DrainAgain(p) \/ BlockEnds(p)
       \/ Dispose(p) \/ End(p) \/ Start(p)
  \/ \E k \in Key : ClaimExpires(k) \/ RetryComesDue(k)

Spec == Init /\ [][Next]_vars

ExpiresUnheld(k) == ClaimExpires(k) /\ row[k].worker = Nobody

\* A process that is alive goes on, its timers fire, time passes, and a place
\* whose process ended gets another one.  Nothing is assumed of the producers,
\* and a delivery may fail every time.
FairSpec ==
  /\ Spec
  /\ \A p \in Process, k \in Key :
       /\ WF_vars(Delivery(p, k)) /\ WF_vars(Finally(p, k)) /\ WF_vars(RetryTimer(p, k))
  /\ \A p \in Process :
       /\ WF_vars(RecoveryTimer(p)) /\ WF_vars(DrainAgain(p)) /\ WF_vars(BlockEnds(p))
       /\ WF_vars(Start(p)) /\ WF_vars(proc[p].status = "disposed" /\ End(p))
  /\ \A k \in Key : WF_vars(ExpiresUnheld(k)) /\ WF_vars(RetryComesDue(k))

-----------------------------------------------------------------------------
(* Properties *)

\* Every variable has its type; a running row is not past its attempts.
TypeOK ==
  /\ \A k \in Key : row[k] # NoRow =>
       /\ row[k].attempts \in 0 .. MaxAttempts /\ row[k].stage \in 0 .. 2
       /\ row[k].state \in {"pending", "running"} /\ row[k].worker \in Process \cup {Nobody}
  /\ dead \cup history \cup stream \cup receipts \cup cut \subseteq Key
  /\ \A p \in Process :
       /\ proc[p].status \in {"up", "disposed", "down"}
       /\ \A k \in Key : proc[p].entry[k].phase \in Phase
  /\ sent \in [Key -> 0 .. 2] /\ ended \in 0 .. Ends /\ lapsed \in 0 .. Lapses

\* An output handed to a queue is owed by a live row, dead-lettered, or has gone
\* through every projection: no crash, lost claim, retry or disposal loses it.
NothingLost ==
  \A k \in Key : handed[k] > 0 =>
    \/ row[k] # NoRow
    \/ k \in dead
    \/ k \in history \cap stream \cap receipts

\* A receipt stands for side effects that took place, and the durable
\* checkpoint for projections that were written: recovery may trust them.
CheckpointsTrue ==
  /\ \A k \in receipts : sent[k] > 0
  /\ \A k \in Key : row[k] # NoRow =>
       /\ row[k].stage >= 1 => k \in history
       /\ row[k].stage >= 2 => k \in stream

\* Live listeners see an output twice only if a delivery of it was cut off
\* before its receipt: by the end of its process, a receipt that could not be
\* written, or a claim that lapsed.  After the receipt nothing is sent again,
\* although the job may well be delivered again.
RepeatedOnlyIfCut == \A k \in Key : sent[k] > 1 => k \in cut

\* A job's checkpoint never goes back and its attempts are never given back,
\* although owners of lapsed claims go on running beside the new owner.
ProgressKept ==
  [][\A k \in Key : (row[k] # NoRow /\ IsRow(row'[k], row[k].id)) =>
       row'[k].stage >= row[k].stage /\ row'[k].attempts >= row[k].attempts]_vars

\* Only its present owner settles a job: a row under a claim that has not
\* lapsed is removed by a step of the process that holds the claim.
OnlyOwnerSettles ==
  [][\A k \in Key :
       (row[k] # NoRow /\ row'[k] = NoRow /\ row[k].state = "running" /\ ~row[k].expired)
         => \E p \in Process : row[k].worker = p /\ proc'[p] # proc[p]]_vars

\* Every durable output is settled in the end: delivered or dead-lettered.
EverythingSettles == \A k \in Key : row[k] # NoRow ~> row[k] = NoRow

\* drain() returns: no change it waits for is missed.  This says nothing of a
\* drain() that dispose() overtakes: dispose() wakes it once, and while a row is
\* left in the store it then waits for a change that may never come.
DrainEnds ==
  \A p \in Process : proc[p].drain # "no" ~> (proc[p].drain = "no" \/ proc[p].status # "up")
=============================================================================
