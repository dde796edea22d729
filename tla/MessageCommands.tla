---------------------------- MODULE MessageCommands ----------------------------
(***************************************************************************)
(* The durable message queue of the chat: the message_commands table of    *)
(* src/data/message-command-store.ts, the dispatcher that claims its rows  *)
(* (src/apps/chat/message-command-dispatcher.ts), the outputs by which the *)
(* runtime moves them on, and the operator's reconcile command             *)
(* (src/debug/message-queue.ts), with a process that crashes and starts    *)
(* again and storage calls whose answer is lost.                           *)
(*                                                                         *)
(* A statement or transaction of the storage worker is one step.  A        *)
(* dispatch is a coroutine of the web process; it is named by its command  *)
(* and the token of its claim, because an old one may still be under way   *)
(* when the command is claimed again.                                      *)
(***************************************************************************)
EXTENDS Naturals, Sequences, FiniteSets

CONSTANTS
  Command,     \* the commands, numbered by stream_id
  Session,     \* the sessions
  RoomOf,      \* the room of a session
  None,        \* no owner, no outcome
  QueueLimit,  \* MESSAGE_COMMAND_LIMITS.dispatch.queue
  SteerLimit,  \* MESSAGE_COMMAND_LIMITS.dispatch.steer
  MaxClaims,   \* claims one dispatcher holds at most
  Mishaps      \* bound: processes that end, storage calls that go wrong and
               \* leases that lapse although somebody attends to them

ASSUME CommandAssumption ==
  /\ Command \subseteq Nat /\ IsFiniteSet(Command)
  /\ QueueLimit \in Nat \ {0} /\ SteerLimit \in Nat \ {0} /\ MaxClaims \in Nat \ {0}
  /\ Mishaps \in Nat
  /\ None \notin Nat /\ None \notin {"completed", "failed"}

VARIABLES
  row,       \* message_commands, by stream_id
  log,       \* outcomes in the event log for the command's event id
  served,    \* message_dispatch_rooms: <<r, s>> when s was served after r last was
  epoch,     \* dispatcher processes started; the owner of the live one
  up,        \* a dispatcher process is alive
  claims,    \* its map of claims: command and token
  dispatch,  \* its dispatch coroutines, by command and token
  runtime,   \* what the agent runtime has done with the message
  outbox,    \* outputs emitted and not yet ingested
  emits,     \* history: times the message was handed to the router
  mishaps    \* those of the bound that have happened

store == <<row, log, served>>
local == <<epoch, up, claims, dispatch>>
turns == <<runtime, outbox, emits>>
vars == <<store, local, turns, mishaps>>

Active == {"accepted", "waiting_slot", "initializing", "session_queue", "running"}
Unstarted == {"accepted", "waiting_slot"}
Settled == {"completed", "failed"}
State == Active \cup Settled \cup {"none", "interrupted"}
Delivery == {"queue", "steer"}
Phase == {"claimed", "emitting", "unclear", "refused", "over"}
Output == {"message_queued", "message_started", "message_finished",
           "session_error", "message_steered"}
Turn == {"none", "queued", "running", "finished", "failed", "dropped", "lost"}
\* The reasons a row is failed with that say the message never ran.
NotRun == {"cancelled", "not_dispatched", "refused"}
Reason == NotRun \cup {"none", "expired", "payload", "session_gone", "unclear", "operator"}

Room == {RoomOf[s] : s \in Session}

NoCommand ==
  [state |-> "none", session |-> None, delivery |-> "queue", owner |-> None,
   token |-> 0, lease |-> "none", error |-> "none"]

\* The row has left its owner: owner NULL and lease_until 0.
Released(r, state, error) ==
  [r EXCEPT !.state = state, !.error = error, !.owner = None, !.lease = "none"]

Earlier(rows, c) ==
  {p \in Command : rows[p].session = rows[c].session /\ p < c}

-----------------------------------------------------------------------------
(* MessageCommandStore *)

\* terminalEvidenceSql: the outcome when the log holds exactly one.
Outcome(c) == IF \E v \in Settled : log[c] = {v} THEN CHOOSE v \in Settled : log[c] = {v}
              ELSE None

Barred(rows, c) == \E p \in Earlier(rows, c) : rows[p].state = "interrupted"

\* terminalizeBlockedSuccessors; its batch limits are not reached.
FailBlocked(rows) ==
  [c \in Command |->
     IF /\ rows[c].state \in Unstarted /\ rows[c].delivery = "queue"
        /\ rows[c].owner = None /\ Barred(rows, c)
     THEN Released(rows[c], "failed", "not_dispatched") ELSE rows[c]]

Expired(r) == r.owner # None /\ r.lease = "expired"

RecoveredForReplay(r, outcome) ==
  IF outcome # None THEN Released(r, outcome, "none")
  ELSE IF r.state \in {"waiting_slot", "initializing"} THEN Released(r, "accepted", "none")
  ELSE Released(r, "interrupted", "expired")

RecoveredInPlace(r, outcome) ==
  IF outcome # None THEN Released(r, outcome, "none")
  ELSE IF r.state = "waiting_slot" THEN r
  ELSE Released(r, "interrupted", "expired")

Recovered(r, outcome) ==
  IF outcome # None THEN Released(r, outcome, "none")
  ELSE IF r.state = "waiting_slot" THEN Released(r, "accepted", "none")
  ELSE Released(r, "interrupted", "expired")

\* recoverExpiredLeasesInTransaction
RecoverExpired(rows) ==
  FailBlocked([c \in Command |->
    IF Expired(rows[c]) /\ rows[c].state \in Active
    THEN Recovered(rows[c], Outcome(c)) ELSE rows[c]])

\* reconcileInterrupted, when a storage worker starts.
ReconcileInterrupted(rows) ==
  FailBlocked([c \in Command |->
    IF rows[c].state = "interrupted" /\ Outcome(c) # None
    THEN Released(rows[c], Outcome(c), "none") ELSE rows[c]])

Occupied(rows, d) ==
  {c \in Command : rows[c].owner # None /\ rows[c].state \in Active /\ rows[c].delivery = d}

BlocksWhileActive(rows, p, c) ==
  /\ rows[p].state \in Active
  /\ rows[c].delivery = "queue" \/ rows[p].delivery = "steer"

Blocks(rows, p, c) ==
  /\ rows[p].state \in Active \cup {"interrupted"}
  /\ rows[c].delivery = "queue" \/ rows[p].delivery = "steer"

\* The WHERE clause of candidateSql.  The limits per room are those of the
\* database here: a room of the instances has no two claims of one delivery.
Candidates(rows) ==
  {c \in Command :
     /\ rows[c].state = "accepted"
     /\ Cardinality(Occupied(rows, rows[c].delivery)) <
          (IF rows[c].delivery = "steer" THEN SteerLimit ELSE QueueLimit)
     /\ ~\E p \in Earlier(rows, c) : Blocks(rows, p, c)}

\* The room of c was served longer ago than that of d, or never.
ServedBefore(rows, c, d) == <<RoomOf[rows[c].session], RoomOf[rows[d].session]>> \in served

\* Its ORDER BY: steering first, then the room served longest ago, then age.
GoesBefore(rows, c, d) ==
  IF rows[c].delivery # rows[d].delivery THEN rows[c].delivery = "steer"
  ELSE ServedBefore(rows, c, d) \/ (~ServedBefore(rows, d, c) /\ c <= d)

NextCandidate(rows, c) ==
  c \in Candidates(rows) /\ \A d \in Candidates(rows) : GoesBefore(rows, c, d)

\* What transition() and heartbeat() ask of the row.
Held(c, k) ==
  /\ row[c].owner = epoch /\ row[c].token = k
  /\ row[c].lease = "live" /\ row[c].state \in Active

\* transition()
Transition(c, k, state, error) ==
  IF ~Held(c, k) THEN row[c]
  ELSE IF state \in Settled \cup {"interrupted"} THEN Released(row[c], state, error)
  ELSE [row[c] EXCEPT !.state = state, !.error = error]

StateOf(t) ==
  CASE t = "message_queued" -> "session_queue"
    [] t = "message_started" -> "running"
    [] t = "session_error" -> "failed"
    [] OTHER -> "completed"

Terminal(t) == StateOf(t) \in Settled

EligibleAlways(state) ==
  CASE state = "session_queue" -> {"initializing", "waiting_slot"}
    [] state = "running" -> {"initializing", "waiting_slot", "session_queue"}
    [] OTHER -> Active \cup {"interrupted"} \cup Settled

Eligible(state) ==
  CASE state = "session_queue" -> {"initializing", "waiting_slot"}
    [] state = "running" -> {"initializing", "waiting_slot", "session_queue"}
    [] OTHER -> Active \cup {"interrupted"}

\* recordOutput()
Recorded(r, t) ==
  LET state == StateOf(t)
  IN IF r.state \notin Eligible(state) THEN r
     ELSE IF Terminal(t) THEN Released(r, state, "none")
     ELSE [r EXCEPT !.state = state, !.error = "none"]

-----------------------------------------------------------------------------
(* Admission, claims and dispatches *)

Init ==
  /\ row = [c \in Command |-> NoCommand]
  /\ log = [c \in Command |-> {}]
  /\ served = {}
  /\ epoch = 1 /\ up = TRUE
  /\ claims = {}
  /\ dispatch = [c \in Command |-> <<>>]
  /\ runtime = [c \in Command |-> "none"]
  /\ outbox = [c \in Command |-> {}]
  /\ emits = [c \in Command |-> 0]
  /\ mishaps = 0

Mishap == mishaps < Mishaps /\ mishaps' = mishaps + 1

Without(c) == {m \in claims : m[1] # c}

\* The admit request of the worker.  A retry of the same transaction finds
\* its receipt and a refusal (the barrier, a limit) leaves no trace.
Admit(c, s, d) ==
  LET rows == [row EXCEPT ![c] = [NoCommand EXCEPT !.state = "accepted", !.session = s,
                                                   !.delivery = d]]
  IN /\ up /\ row[c].state = "none"
     /\ \A p \in Command : p < c => row[p].state # "none"
     /\ d = "queue" => ~Barred(rows, c)
     /\ row' = rows
     /\ UNCHANGED <<log, served, local, turns, mishaps>>

\* The row that claim() hands out.
ClaimedRow(r) ==
  [r EXCEPT !.state = "waiting_slot", !.owner = epoch, !.token = @ + 1, !.lease = "live"]

\* claim(), asked for by pump().  The answer may find its payload unreadable or
\* be lost after the transaction; the latter two leave no claim in the process.
Claimed(rows, c) ==
  LET room == RoomOf[rows[c].session]
      k == rows[c].token + 1
  IN /\ served' = {m \in served : m[1] # room} \cup {<<r, room>> : r \in Room \ {room}}
     /\ \/ /\ row' = [rows EXCEPT ![c] = ClaimedRow(@)]
           /\ claims' = Without(c) \cup {<<c, k>>}
           /\ dispatch' = [dispatch EXCEPT ![c] = Append(@, "claimed")]
           /\ UNCHANGED mishaps
        \/ /\ \/ row' = [rows EXCEPT ![c] = ClaimedRow(@)]
              \/ row' = [rows EXCEPT ![c] = Released(ClaimedRow(@), "failed", "payload")]
           /\ dispatch' = [dispatch EXCEPT ![c] = Append(@, "over")]
           /\ Mishap /\ UNCHANGED claims

Claim ==
  LET rows == RecoverExpired(row)
  IN /\ up /\ Cardinality(claims) < MaxClaims
     /\ Candidates(row) # {} \/ \E x \in Command : Expired(row[x])
     /\ \/ /\ Candidates(rows) = {}
           /\ row' = rows /\ UNCHANGED <<served, claims, dispatch, mishaps>>
        \/ \E c \in Command : NextCandidate(rows, c) /\ Claimed(rows, c)
     /\ UNCHANGED <<log, epoch, up, turns>>

\* A dispatch ends: forget() and the end of the coroutine.
Forget(c, k) ==
  /\ claims' = Without(c)
  /\ dispatch' = [dispatch EXCEPT ![c][k] = "over"]

\* dispatch(): the session is gone, and the command fails.
SessionGone(c, k) ==
  /\ dispatch[c][k] = "claimed"
  /\ row' = [row EXCEPT ![c] = Transition(c, k, "failed", "session_gone")]
  /\ Forget(c, k)
  /\ UNCHANGED <<log, served, epoch, up, turns, mishaps>>

\* dispatch(): the transition to initializing, and emit() when it is granted.
Initialize(c, k) ==
  /\ dispatch[c][k] = "claimed"
  /\ row' = [row EXCEPT ![c] = Transition(c, k, "initializing", "none")]
  /\ IF Held(c, k)
     THEN /\ dispatch' = [dispatch EXCEPT ![c][k] = "emitting"]
          /\ emits' = [emits EXCEPT ![c] = @ + 1]
          /\ UNCHANGED claims
     ELSE Forget(c, k) /\ UNCHANGED emits
  /\ UNCHANGED <<log, served, epoch, up, runtime, outbox, mishaps>>

\* The call of either transition fails, before or after it was carried out: the
\* catch clause.
TransitionFails(c, k) ==
  /\ dispatch[c][k] = "claimed" /\ Mishap
  /\ \/ row' = [row EXCEPT ![c] = Transition(c, k, "failed", "session_gone")]
     \/ row' = [row EXCEPT ![c] = Transition(c, k, "initializing", "none")]
     \/ UNCHANGED row
  /\ dispatch' = [dispatch EXCEPT ![c][k] = "unclear"]
  /\ UNCHANGED <<log, served, epoch, up, claims, turns>>

\* The router has queued the message or steered the turn, and says so.
TakenIn(c) ==
  runtime' = [runtime EXCEPT ![c] = IF row[c].delivery = "steer" THEN "finished" ELSE "queued"]

Told(c) ==
  [outbox EXCEPT ![c] =
     @ \cup {IF row[c].delivery = "steer" THEN "message_steered" ELSE "message_queued"}]

\* emit() comes back with the output that says so.  It has no other to return
\* for a message, a session_error neither.
Accepted(c, k) ==
  /\ dispatch[c][k] = "emitting"
  /\ dispatch' = [dispatch EXCEPT ![c][k] = "over"]
  /\ TakenIn(c) /\ outbox' = Told(c)
  /\ UNCHANGED <<store, epoch, up, claims, emits, mishaps>>

\* emit() throws when the message has been taken in: telling of the output goes
\* wrong, before or after those who store it have heard of it.
ThrowsLate(c, k) ==
  /\ dispatch[c][k] = "emitting" /\ Mishap
  /\ dispatch' = [dispatch EXCEPT ![c][k] = "unclear"]
  /\ TakenIn(c) /\ outbox' \in {outbox, Told(c)}
  /\ UNCHANGED <<store, epoch, up, claims, emits>>

\* emit() throws before the message is taken in: the start was cancelled, the
\* queue is full or nothing can be steered (refused); or anything else.
Throws(c, k, how) ==
  /\ dispatch[c][k] = "emitting"
  /\ dispatch' = [dispatch EXCEPT ![c][k] = how]
  /\ UNCHANGED <<store, epoch, up, claims, turns, mishaps>>

\* The transition of the catch clause, and forget(), also when that fails.
Abandon(c, k) ==
  /\ dispatch[c][k] \in {"unclear", "refused"}
  /\ \/ /\ row' = [row EXCEPT ![c] =
                     IF dispatch[c][k] = "refused" THEN Transition(c, k, "failed", "refused")
                     ELSE Transition(c, k, "interrupted", "unclear")]
        /\ UNCHANGED mishaps
     \/ UNCHANGED row /\ Mishap
  /\ Forget(c, k)
  /\ UNCHANGED <<log, served, epoch, up, turns>>

\* Somebody is at work on the claim of c: the heartbeat renews it, or a call of
\* its dispatch is out, which is answered or times out long before a lease ends.
Attended(c) ==
  LET k == row[c].token
  IN up /\ row[c].owner = epoch /\ (<<c, k>> \in claims \/ dispatch[c][k] \notin {"emitting", "over"})

\* A lease lapses: nobody attends to it, or its process was held up too long.
Expire(c) ==
  /\ row[c].owner # None /\ row[c].lease = "live"
  /\ row' = [row EXCEPT ![c].lease = "expired"]
  /\ IF Attended(c)
     THEN Mishap
     ELSE UNCHANGED mishaps
  /\ UNCHANGED <<log, served, local, turns>>

\* heartbeat() is refused and the claim forgotten.
HeartbeatRefused(c) ==
  /\ \E m \in claims : m[1] = c /\ ~Held(c, m[2])
  /\ claims' = Without(c)
  /\ UNCHANGED <<store, epoch, up, dispatch, turns, mishaps>>

-----------------------------------------------------------------------------
(* The runtime, and the outputs it emits, as the dispatcher sees them *)

Emits(c, turn, t) ==
  /\ runtime' = [runtime EXCEPT ![c] = turn]
  /\ outbox' = [outbox EXCEPT ![c] = @ \cup {t}]
  /\ UNCHANGED <<store, local, emits, mishaps>>

TurnStarts(c) == runtime[c] = "queued" /\ Emits(c, "running", "message_started")
TurnFinishes(c) == runtime[c] = "running" /\ Emits(c, "finished", "message_finished")
TurnFails(c) == runtime[c] \in {"queued", "running"} /\ Emits(c, "failed", "session_error")

\* clear_queue, or a cancel before the start, takes the message out of the
\* session's queue; no output is emitted for it.
TurnDropped(c) ==
  /\ runtime[c] = "queued"
  /\ runtime' = [runtime EXCEPT ![c] = "dropped"]
  /\ UNCHANGED <<store, local, outbox, emits, mishaps>>

\* The ingestOutput request: the event log, then recordOutput, and the
\* dispatcher told.  The queue of outputs delivers each at least once, in any
\* order: a failed call leaves the output to be ingested again.
Ingest(c, t) ==
  /\ up /\ t \in outbox[c]
  /\ log' = [log EXCEPT ![c] = IF Terminal(t) THEN @ \cup {StateOf(t)} ELSE @]
  /\ \/ /\ row' = [row EXCEPT ![c] = Recorded(@, t)]
        /\ outbox' = [outbox EXCEPT ![c] = @ \ {t}]
        /\ claims' = IF Terminal(t) THEN Without(c) ELSE claims
        /\ UNCHANGED mishaps
     \/ /\ UNCHANGED <<row, outbox, claims>> /\ Mishap
     \/ /\ row' = [row EXCEPT ![c] = Recorded(@, t)]
        /\ UNCHANGED <<outbox, claims>> /\ Mishap
  /\ UNCHANGED <<served, epoch, up, dispatch, runtime, emits>>

-----------------------------------------------------------------------------
(* Clearing, reconciling, and processes that end *)

CancellableStarting == Unstarted \cup {"initializing"}

Cancellable == Unstarted

\* cancelPending(), before the clear_queue action goes to the runtime.
CancelPending(s) ==
  /\ up /\ \E c \in Command : row[c].session = s /\ row[c].state \in Cancellable
  /\ row' = [c \in Command |->
               IF row[c].session = s /\ row[c].state \in Cancellable
               THEN Released(row[c], "failed", "cancelled") ELSE row[c]]
  /\ UNCHANGED <<log, served, local, turns, mishaps>>

\* reconcileMessageCommand --apply, run by an operator in another process:
\* one interrupted command is given its outcome, chosen successors fail.
Reconcile(c, decision, successors) ==
  /\ row[c].state = "interrupted"
  /\ \A d \in successors :
       /\ row[d].session = row[c].session /\ c < d /\ row[d].state \in Unstarted
       /\ ~(row[d].owner # None /\ row[d].lease = "live")
  /\ row' = [d \in Command |->
               IF d = c THEN Released(row[d], decision, "operator")
               ELSE IF d \in successors THEN Released(row[d], "failed", "cancelled")
               ELSE row[d]]
  /\ UNCHANGED <<log, served, local, turns, mishaps>>

\* The process ends.  A turn under way is lost; when the session was disposed
\* of in time its message is answered by a session_error first.  An output being
\* ingested may have got as far as the event log.
ProcessEnds ==
  /\ up /\ Mishap
  /\ up' = FALSE /\ claims' = {}
  /\ dispatch' = [c \in Command |-> [k \in DOMAIN dispatch[c] |-> "over"]]
  /\ \E answered \in SUBSET {c \in Command : runtime[c] = "running"} :
       /\ outbox' = [c \in Command |->
                       IF c \in answered THEN outbox[c] \cup {"session_error"} ELSE outbox[c]]
       /\ runtime' = [c \in Command |->
                        IF c \in answered THEN "failed"
                        ELSE IF runtime[c] \in {"queued", "running", "dropped"} THEN "lost"
                        ELSE runtime[c]]
  /\ \/ UNCHANGED log
     \/ \E c \in Command : \E t \in outbox[c] :
          Terminal(t) /\ log' = [log EXCEPT ![c] = @ \cup {StateOf(t)}]
  /\ UNCHANGED <<row, served, epoch, emits>>

ProcessStarts ==
  /\ ~up /\ up' = TRUE /\ epoch' = epoch + 1
  /\ row' = ReconcileInterrupted(row)
  /\ UNCHANGED <<log, served, claims, dispatch, turns, mishaps>>

\* A storage worker that died is replaced and repairs as it starts.
WorkerRestarts ==
  /\ up /\ Mishap
  /\ row' = ReconcileInterrupted(row)
  /\ UNCHANGED <<log, served, local, turns>>

DispatchStep(c) ==
  \E k \in DOMAIN dispatch[c] :
    \/ SessionGone(c, k) \/ Initialize(c, k) \/ TransitionFails(c, k)
    \/ Accepted(c, k) \/ ThrowsLate(c, k)
    \/ Throws(c, k, "refused") \/ Throws(c, k, "unclear") \/ Abandon(c, k)

TurnStep(c) == TurnStarts(c) \/ TurnFinishes(c) \/ TurnFails(c)

IngestStep(c) == \E t \in Output : Ingest(c, t)

Next ==
  \/ \E c \in Command :
       \/ \E s \in Session, d \in Delivery : Admit(c, s, d)
       \/ DispatchStep(c)
       \/ Expire(c)
       \/ HeartbeatRefused(c)
       \/ TurnStep(c)
       \/ TurnDropped(c)
       \/ IngestStep(c)
       \/ \E decision \in Settled, successors \in SUBSET Command :
            Reconcile(c, decision, successors)
  \/ Claim
  \/ \E s \in Session : CancelPending(s)
  \/ ProcessEnds \/ ProcessStarts \/ WorkerRestarts

Spec == Init /\ [][Next]_vars

\* The pump polls, its dispatches and the storage calls come back, turns end,
\* outputs are ingested (as output_drain shows), a lease nobody renews runs
\* out and a process is started again.  Nobody has to admit, clear, reconcile
\* or fail anything.
Fairness ==
  /\ \A c \in Command :
       /\ WF_vars(DispatchStep(c)) /\ WF_vars(TurnStep(c)) /\ WF_vars(IngestStep(c))
       /\ WF_vars(Expire(c) /\ ~Attended(c)) /\ WF_vars(HeartbeatRefused(c))
  /\ WF_vars(Claim) /\ WF_vars(ProcessStarts)

FairSpec == Spec /\ Fairness

-----------------------------------------------------------------------------
(* Properties *)

Row ==
  [state : State, session : Session \cup {None}, delivery : Delivery,
   owner : Nat \cup {None}, token : Nat, lease : {"none", "live", "expired"},
   error : Reason]

\* Every variable holds what its declaration says.
TypeOK ==
  /\ row \in [Command -> Row]
  /\ log \in [Command -> SUBSET Settled]
  /\ served \subseteq Room \X Room
  /\ epoch \in Nat /\ up \in BOOLEAN
  /\ claims \subseteq Command \X Nat
  /\ dispatch \in [Command -> Seq(Phase)]
  /\ runtime \in [Command -> Turn]
  /\ outbox \in [Command -> SUBSET Output]
  /\ emits \in [Command -> Nat]
  /\ mishaps \in 0..Mishaps

\* A message goes to the router at most once, whatever leases lapse, claims
\* are taken again, answers are lost or processes are replaced: ambiguous work
\* is never replayed.
DispatchedOnce == \A c \in Command : emits[c] <= 1

NotRunIsTrue ==
  \A c \in Command : row[c].state = "failed" /\ row[c].error \in NotRun => runtime[c] = "none"

AnswerMatchesLog ==
  \A c \in Command :
    row[c].state \in Settled /\ row[c].error # "operator" /\ Outcome(c) # None =>
      row[c].state = Outcome(c)

\* What a settled row says is the truth, then and later.  If it says that its
\* message never ran, no dispatch that was under way when the row was failed
\* reaches the runtime; and unless an operator decided, its answer is the one
\* in the event log.
AnswerIsTrue == NotRunIsTrue /\ AnswerMatchesLog

\* A message goes to the router only when every message of its session before
\* it is settled; a steering message waits for earlier steering alone.
FifoDispatch ==
  [][\A c \in Command : emits'[c] # emits[c] =>
       \A p \in Earlier(row, c) :
         row[c].delivery = "queue" \/ row[p].delivery = "steer" => row[p].state \in Settled]_vars

\* A settled command keeps its answer: no late output, lapse, cancellation,
\* restart or second operator decision changes it.
SettledFinal ==
  [][\A c \in Command : row[c].state \in Settled => row'[c].state = row[c].state]_vars

\* An accepted message is answered in the end: it is settled, or left to the
\* operator as interrupted, or it stands behind one that is.  A message cleared
\* from the runtime's queue keeps its command open and its place among the
\* dispatches taken (ClearedIsClosed), so nothing is promised beside one.
Answered ==
  \A c \in Command :
    row[c].state = "accepted" ~>
      \/ row[c].state \in Settled
      \/ \E p \in Earlier(row, c) \cup {c} : row[p].state = "interrupted"
      \/ \E p \in Command : runtime[p] = "dropped"

\* A message that clear_queue took out of the runtime's queue does not keep its
\* durable command open: it is settled or left to the operator in the end.
ClearedIsClosed ==
  \A c \in Command : runtime[c] = "dropped" ~> row[c].state \notin Active
=============================================================================
