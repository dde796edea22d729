---------------------------- MODULE RoutedSession ----------------------------
(***************************************************************************)
(* The message queue, the drain loop and the turn of one routed session:   *)
(* RuntimeRoutedSession in src/agent-runtime/routed-session.ts.            *)
(*                                                                         *)
(* The class runs on one event loop, so what it does between two awaits is *)
(* one action; every await (preflight, capacity, the native prompt, a      *)
(* model switch, an abort, a native fork) is a place where every other     *)
(* handler may run.  The runtime adapter behind it is a set of outcomes:   *)
(* a call resolves or rejects, and its error events may come at any time   *)
(* the constants allow.                                                    *)
(***************************************************************************)
EXTENDS Sublists, FiniteSets, SequencesExt

CONSTANTS
  Message,     \* messages that can be accepted, each at most once
  Reminder,    \* the run reminders among them
  Compact,     \* compact actions, which take a turn like a message
  None,        \* no item
  MaxQueue,    \* RUNTIME_QUEUE_MAX_MESSAGES
  Fallbacks,   \* number of fallback models of a runtime that can switch models
  IdleErrors,  \* the adapter also reports errors outside a prompt and a compaction
  Watched      \* the messages whose reports are remembered; one can stand for all

Item == Message \cup Compact

ASSUME SessionAssumption ==
  /\ Reminder \subseteq Message /\ Watched \subseteq Message
  /\ Message \cap Compact = {} /\ None \notin Item
  /\ MaxQueue \in Nat \ {0} /\ Fallbacks \in Nat
  /\ IdleErrors \in BOOLEAN

VARIABLES
  queue,       \* items waiting
  drain,       \* drainPromise: none, running, or settled with its finally() still to run
  turn,        \* the in-flight item and the locals of its promise chain
  failed,      \* activeMessageFailed
  identity,    \* session identity operation in flight: none, reading, fork, clone, switch
  native,      \* its native call has begun
  reading,     \* forkCandidatesRequest is set
  runningFork, \* forkWhileRunningOperationInFlight
  disposed,
  disposal,    \* where disposeUnsafe() waits: none, aborting, draining, done
  forced,      \* forceDisposalStarted
  runtimeGone, \* runtimeSession.dispose() has been called
  accepted,    \* history: the items accepted so far
  outcome      \* history: what was reported of each watched message

mailVars == <<queue, drain, turn, failed>>
identityVars == <<identity, native, reading, runningFork>>
disposalVars == <<disposed, disposal, forced, runtimeGone>>
history == <<accepted, outcome>>
vars == <<mailVars, identityVars, disposalVars, history>>

NewTurn(i) ==
  [item |-> i, phase |-> IF i \in Compact THEN "compact" ELSE "preflight",
   cancelled |-> FALSE, cancelling |-> "no", capacityAborted |-> FALSE,
   started |-> FALSE, attempt |-> 0, switched |-> FALSE, pending |-> FALSE,
   threw |-> FALSE, tripped |-> FALSE]
NoTurn == [NewTurn(None) EXCEPT !.phase = "none"]

Busy == drain = "running" /\ ~disposed              \* getStatus().processing
WorkIdle == ~Busy /\ queue = <<>>                   \* assertSessionWorkIdle
InFlight == turn.item \in Message                   \* inFlightMessage
Active == InFlight /\ turn.phase # "preflight"      \* activeMessage
Silent == disposed \/ turn.cancelled
ActiveAndQueued == (Range(queue) \cup {turn.item}) \cap Message

Report(S, what) ==
  outcome' = [m \in Watched |-> IF m \in S THEN outcome[m] \cup what ELSE outcome[m]]

-----------------------------------------------------------------------------
(* The drain loop *)

StartDrainDuringIdentity(q, blocked) ==
  \/ drain # "none" /\ queue' = q /\ UNCHANGED <<drain, turn>>
  \/ drain = "none" /\ (disposed \/ q = <<>>)
     /\ queue' = q /\ drain' = "settled" /\ UNCHANGED turn
  \/ drain = "none" /\ ~disposed /\ q # <<>>
     /\ queue' = Tail(q) /\ drain' = "running" /\ turn' = NewTurn(Head(q))

\* startDrain() with q as the queue; drain() runs at once up to its first
\* await, so the oldest item is in flight before startDrain() returns.
StartDrain(q, blocked) ==
  \/ (blocked \/ drain # "none") /\ queue' = q /\ UNCHANGED <<drain, turn>>
  \/ ~blocked /\ drain = "none" /\ (disposed \/ q = <<>>)
     /\ queue' = q /\ drain' = "settled" /\ UNCHANGED turn
  \/ ~blocked /\ drain = "none" /\ ~disposed /\ q # <<>>
     /\ queue' = Tail(q) /\ drain' = "running" /\ turn' = NewTurn(Head(q))

\* The loop of drain() after a turn.
NextTurn ==
  /\ drain = "running" /\ turn = NoTurn
  /\ \/ /\ queue # <<>> /\ ~disposed
        /\ turn' = NewTurn(Head(queue)) /\ queue' = Tail(queue) /\ UNCHANGED drain
     \/ /\ queue = <<>> \/ disposed
        /\ drain' = "settled" /\ UNCHANGED <<queue, turn>>
  /\ UNCHANGED <<failed, identityVars, disposalVars, history>>

DrainSettledWithoutRestart ==
  /\ drain = "settled" /\ drain' = "none"
  /\ UNCHANGED <<queue, turn, failed, identityVars, disposalVars, history>>

\* drain.finally(): what was enqueued since the loop ended starts a new drain.
DrainSettled ==
  /\ drain = "settled"
  /\ \/ /\ queue # <<>> /\ ~disposed /\ identity = "none"
        /\ turn' = NewTurn(Head(queue)) /\ queue' = Tail(queue) /\ drain' = "running"
     \/ /\ queue = <<>> \/ disposed \/ identity # "none"
        /\ drain' = "none" /\ UNCHANGED <<queue, turn>>
  /\ UNCHANGED <<failed, identityVars, disposalVars, history>>

-----------------------------------------------------------------------------
(* Admission *)

Coalesced(m) == IF m \in Reminder THEN Reminder \cap Range(queue) ELSE {}
Ordinary(q) == Without(q, Reminder \cup Compact)

\* The guard of enqueueMessage: a reading of fork candidates lets messages in.
Open == ~disposed /\ (identity = "none" \/ reading)

EnqueueUncoalesced(m) ==
  /\ m \notin accepted /\ Open
  /\ Len(Ordinary(queue)) < MaxQueue
  /\ accepted' = accepted \cup {m}
  /\ StartDrain(Append(queue, m), identity # "none")
  /\ UNCHANGED <<failed, identityVars, disposalVars, outcome>>

Enqueue(m) ==
  /\ m \notin accepted /\ Open
  /\ Len(Ordinary(queue)) < MaxQueue
  /\ accepted' = accepted \cup {m}
  /\ Report(Coalesced(m), {"withdrawn"})
  /\ StartDrain(Append(Without(queue, Coalesced(m)), m), identity # "none")
  /\ UNCHANGED <<failed, identityVars, disposalVars>>

\* A reminder over one of the limits (size, count, bytes, age) is refused, but
\* the reminders it was to replace are already gone.
RefuseReminder(m) ==
  /\ m \notin accepted /\ Open
  /\ Coalesced(m) # {}
  /\ queue' = Without(queue, Coalesced(m))
  /\ Report(Coalesced(m), {"withdrawn"})
  /\ UNCHANGED <<drain, turn, failed, identityVars, disposalVars, accepted>>

EnqueueCompact(c) ==
  /\ c \notin accepted /\ ~disposed
  /\ accepted' = accepted \cup {c}
  /\ StartDrain(Append(queue, c), identity # "none")
  /\ UNCHANGED <<failed, identityVars, disposalVars, outcome>>

\* removeQueuedMessages (of the messages its predicate selects) and clearQueue
\* (of everything): a dropped compact action is not reported.
RemoveQueued(S) ==
  /\ ~disposed /\ S \cap Range(queue) # {}
  /\ S \subseteq Message \/ Range(queue) \subseteq S
  /\ queue' = Without(queue, S)
  /\ Report(S \cap Range(queue), {"withdrawn"})
  /\ UNCHANGED <<drain, turn, failed, identityVars, disposalVars, accepted>>

-----------------------------------------------------------------------------
(* The turn of a message *)

\* The finally block of processQueuedMessage, after emitting `what'.
EndTurn(what) ==
  /\ turn' = NoTurn /\ failed' = FALSE
  /\ Report({turn.item}, what)

TurnFrame == UNCHANGED <<queue, drain, identityVars, disposalVars, accepted>>

PreflightPasses ==
  /\ turn.phase = "preflight"
  /\ \/ Silent /\ EndTurn({})
     \/ ~Silent /\ turn' = [turn EXCEPT !.phase = "capacity"] /\ failed' = FALSE
        /\ UNCHANGED outcome
  /\ TurnFrame

PreflightRejects ==
  /\ turn.phase = "preflight"
  /\ EndTurn(IF Silent THEN {} ELSE {"error"})
  /\ TurnFrame

PreflightThrows ==
  /\ turn.phase = "preflight"
  /\ EndTurn(IF Silent \/ failed THEN {} ELSE {"error"})
  /\ TurnFrame

SettleUnlessCancelled(threw, nowFailed, said) ==
  EndTurn(said \cup (IF turn.cancelled \/ nowFailed THEN {}
                     ELSE IF threw THEN {"error"} ELSE {"finished"}))

\* processQueuedMessage after promptWithModelFallbacks resolved or threw;
\* `said' is what the fallback loop has just emitted.
Settle(threw, nowFailed, said) ==
  EndTurn(said \cup (IF Silent \/ nowFailed THEN {}
                     ELSE IF threw THEN {"error"} ELSE {"finished"}))

\* The finally block of promptWithModelFallbacks.  exhausted: the loop ran out
\* of models, so its last provider failure is emitted, whoever cancelled since.
LeaveFallbacks(threw, exhausted) ==
  LET nowFailed == failed \/ exhausted
      said == IF exhausted /\ ~failed THEN {"error"} ELSE {}
  IN \/ /\ turn.switched /\ ~disposed
        /\ turn' = [turn EXCEPT !.phase = "restoring", !.threw = threw, !.pending = FALSE]
        /\ failed' = nowFailed /\ Report({turn.item}, said)
     \/ ~(turn.switched /\ ~disposed) /\ Settle(threw, nowFailed, said)

TryModel(n) ==
  /\ turn' = [turn EXCEPT !.phase = "switching", !.attempt = n]
  /\ UNCHANGED <<failed, outcome>>

NextModelGivingUp ==
  \/ turn.attempt < Fallbacks /\ TryModel(turn.attempt + 1)
  \/ turn.attempt = Fallbacks /\ Settle(FALSE, TRUE, {})

NextModel ==
  \/ turn.attempt < Fallbacks /\ TryModel(turn.attempt + 1)
  \/ turn.attempt = Fallbacks /\ LeaveFallbacks(FALSE, TRUE)

\* promptWithinCapacity resolved or rejected: an eligible provider failure
\* tries the next model, anything else ends the message.
AttemptEnds(threw) ==
  \/ Silent /\ LeaveFallbacks(FALSE, FALSE)
  \/ ~Silent /\ turn.pending /\ NextModel
  \/ ~Silent /\ ~turn.pending /\ LeaveFallbacks(threw, FALSE)

CapacityGrantedAnyway ==
  /\ turn.phase = "capacity"
  /\ turn.capacityAborted => Silent
  /\ turn' = [turn EXCEPT !.phase = "prompt", !.started = TRUE]
  /\ UNCHANGED <<failed, outcome>>
  /\ TurnFrame

\* A lease handed over just before the abort signal is given back unused.
CapacityGranted ==
  /\ turn.phase = "capacity"
  /\ turn.capacityAborted => Silent
  /\ \/ Silent /\ AttemptEnds(FALSE)
     \/ ~Silent /\ turn' = [turn EXCEPT !.phase = "prompt", !.started = TRUE]
        /\ UNCHANGED <<failed, outcome>>
  /\ TurnFrame

\* The wait was aborted, timed out, or found its queue full or the pool closed.
CapacityRefused ==
  /\ turn.phase = "capacity" /\ AttemptEnds(TRUE)
  /\ TurnFrame

PromptEnds(threw) ==
  /\ turn.phase = "prompt" /\ AttemptEnds(threw)
  /\ TurnFrame

SwitchSucceeds ==
  /\ turn.phase = "switching"
  /\ turn' = [turn EXCEPT !.phase = "capacity", !.switched = TRUE, !.pending = FALSE]
  /\ UNCHANGED <<failed, outcome>>
  /\ TurnFrame

\* `continue': the loop looks for a cancellation only when a model is left.
SwitchFails ==
  /\ turn.phase = "switching"
  /\ \/ Silent /\ turn.attempt < Fallbacks /\ LeaveFallbacks(FALSE, FALSE)
     \/ (Silent => turn.attempt = Fallbacks) /\ NextModel
  /\ TurnFrame

PrimaryRestored ==
  /\ turn.phase = "restoring" /\ Settle(turn.threw, failed, {})
  /\ TurnFrame

\* processQueuedCompact
CompactEnds ==
  /\ turn.phase = "compact"
  /\ turn' = NoTurn
  /\ UNCHANGED <<failed, outcome>> /\ TurnFrame

\* An error or turn_failed event: kept back while another model may answer,
\* else emitted once per message.  A compaction that fails may report one too,
\* with no message active.  A disposed session no longer listens.
RuntimeFailure(eligible) ==
  /\ ~disposed /\ (IdleErrors \/ turn.phase \in {"prompt", "compact"})
  /\ LET suppressed == Fallbacks > 0 /\ turn.phase \in {"capacity", "prompt", "switching"}
     IN \/ /\ eligible /\ suppressed
           /\ turn' = [turn EXCEPT !.pending = TRUE] /\ UNCHANGED <<failed, outcome>>
        \/ /\ ~(eligible /\ suppressed) /\ ~failed
           /\ failed' = TRUE /\ UNCHANGED turn
           /\ Report(IF Active THEN {turn.item} ELSE {}, {"error"})
  /\ TurnFrame

GuardTripsUnmarked ==
  /\ Active /\ turn.item \in Reminder /\ ~turn.tripped
  /\ turn' = [turn EXCEPT !.tripped = TRUE]
  /\ Report({turn.item}, {"error"})
  /\ UNCHANGED failed /\ TurnFrame

\* tripRunReminderTurnGuard: too many tools, rounds or tokens, or the timer,
\* which runs until the turn ends.
GuardTrips ==
  /\ Active /\ turn.item \in Reminder /\ ~turn.tripped
  /\ turn' = [turn EXCEPT !.tripped = TRUE]
  /\ failed' = TRUE /\ Report({turn.item}, {"error"})
  /\ TurnFrame

-----------------------------------------------------------------------------
(* Cancelling *)

CancelFrame == UNCHANGED <<drain, failed, identityVars, disposalVars, accepted>>

CancelInFlight ==
  /\ InFlight /\ turn.cancelling = "no"
  /\ turn' = [turn EXCEPT !.cancelled = TRUE, !.capacityAborted = TRUE,
                          !.cancelling = IF Active THEN "abort" ELSE "settle"]
  /\ Report({turn.item}, {"withdrawn"})
  /\ UNCHANGED queue

\* cancelMessage(eventId)
Cancel(i) ==
  /\ ~disposed
  /\ \/ /\ i \in Range(queue)
        /\ queue' = Without(queue, {i}) /\ UNCHANGED turn
        /\ Report({i}, {"withdrawn"})
     \/ i = turn.item /\ CancelInFlight
  /\ CancelFrame

\* The abort of a cancelled, active message settled; if it failed the
\* cancellation is taken back, the capacity signal stays aborted.
AbortSettles ==
  /\ turn.cancelling = "abort"
  /\ \/ turn' = [turn EXCEPT !.cancelling = "settle"]
     \/ turn' = [turn EXCEPT !.cancelling = "no", !.cancelled = FALSE]
  /\ UNCHANGED <<queue, outcome>> /\ CancelFrame

\* The abort action: a message not yet started is cancelled, a started one is
\* left to end as the native abort makes it end.
Abort ==
  /\ ~disposed
  /\ \/ ~turn.started /\ CancelInFlight
     \/ /\ Active /\ turn.started
        /\ Report({turn.item}, {"interrupted"}) /\ UNCHANGED <<queue, turn>>
  /\ CancelFrame

\* kill()
Kill ==
  /\ ActiveAndQueued # {} \/ queue # <<>>
  /\ Report(ActiveAndQueued, {"interrupted"})
  /\ queue' = <<>> /\ UNCHANGED turn
  /\ CancelFrame

-----------------------------------------------------------------------------
(* Identity operations of executeAction and getForkCandidates *)

IdentityFrame == UNCHANGED <<failed, disposalVars, history>>

\* fork, clone or switch on an idle session; onBeforeSessionIdentityOperation
\* is awaited first.
BeginIdentity(op) ==
  /\ ~disposed /\ identity = "none" /\ WorkIdle
  /\ identity' = op
  /\ UNCHANGED <<queue, drain, turn, native, reading, runningFork>> /\ IdentityFrame

\* runAction: fork and clone look again for work (a fork that finds a
\* running-safe fork in flight does not), switch does not.
BeginNative ==
  /\ identity \in {"fork", "clone", "switch"} /\ ~native
  /\ identity = "switch" \/ (identity = "fork" /\ runningFork) \/ WorkIdle
  /\ native' = TRUE
  /\ UNCHANGED <<queue, drain, turn, identity, reading, runningFork>> /\ IdentityFrame

\* The finally block, whether the operation succeeded, failed or was refused
\* after the hook.
EndIdentity ==
  /\ identity \in {"fork", "clone", "switch"}
  /\ identity' = "none" /\ native' = FALSE
  /\ StartDrain(queue, FALSE)
  /\ UNCHANGED <<reading, runningFork>> /\ IdentityFrame

BeginRunningFork ==
  /\ ~disposed /\ ~WorkIdle /\ ~runningFork
  /\ runningFork' = TRUE
  /\ UNCHANGED <<queue, drain, turn, identity, native, reading>> /\ IdentityFrame

EndRunningFork ==
  /\ runningFork /\ runningFork' = FALSE
  /\ UNCHANGED <<queue, drain, turn, identity, native, reading>> /\ IdentityFrame

\* An idle session is reserved for the reading, a working one is not.
BeginReading ==
  /\ ~disposed /\ ~reading /\ identity = "none"
  /\ reading' = TRUE
  /\ \/ WorkIdle /\ identity' = "reading"
     \/ ~WorkIdle /\ UNCHANGED identity
  /\ UNCHANGED <<queue, drain, turn, native, runningFork>> /\ IdentityFrame

EndReading ==
  /\ reading /\ reading' = FALSE
  /\ \/ /\ identity = "reading" /\ identity' = "none"
        /\ StartDrain(queue, FALSE)
     \/ identity # "reading" /\ UNCHANGED <<identity, queue, drain, turn>>
  /\ UNCHANGED <<native, runningFork>> /\ IdentityFrame

-----------------------------------------------------------------------------
(* Disposal *)

\* transitionToDisposed
Transition ==
  /\ outcome' = [m \in Watched |->
       outcome[m] \cup (IF m \in ActiveAndQueued THEN {"withdrawn"} ELSE {})
                  \cup (IF Active /\ m = turn.item THEN {"error"} ELSE {})]
  /\ queue' = <<>> /\ disposed' = TRUE
  /\ turn' = IF InFlight THEN [turn EXCEPT !.capacityAborted = TRUE] ELSE turn

DisposeFrame == UNCHANGED <<drain, failed, identityVars, accepted>>

Dispose ==
  /\ ~disposed /\ Transition
  /\ disposal' = "aborting"
  /\ UNCHANGED <<forced, runtimeGone>> /\ DisposeFrame

\* disposeUnsafe, after the native abort settled and after the drain ended.
DisposeAborted ==
  /\ disposal = "aborting"
  /\ \/ drain = "none" /\ disposal' = "done" /\ runtimeGone' = TRUE
     \/ drain # "none" /\ disposal' = "draining" /\ UNCHANGED runtimeGone
  /\ UNCHANGED <<queue, turn, outcome, disposed, forced>> /\ DisposeFrame

DisposeDrainedMissingIt ==
  /\ disposal = "draining" /\ drain = "settled"
  /\ disposal' = "done" /\ runtimeGone' = TRUE
  /\ UNCHANGED <<queue, turn, outcome, disposed, forced>> /\ DisposeFrame

DisposeDrained ==
  /\ disposal = "draining" /\ drain # "running"
  /\ disposal' = "done" /\ runtimeGone' = TRUE
  /\ UNCHANGED <<queue, turn, outcome, disposed, forced>> /\ DisposeFrame

ForceDispose ==
  /\ ~forced /\ forced' = TRUE /\ runtimeGone' = TRUE
  /\ \/ ~disposed /\ Transition
     \/ disposed /\ UNCHANGED <<queue, turn, outcome, disposed>>
  /\ UNCHANGED disposal /\ DisposeFrame

-----------------------------------------------------------------------------
Init ==
  /\ queue = <<>> /\ drain = "none" /\ turn = NoTurn /\ failed = FALSE
  /\ identity = "none" /\ native = FALSE /\ reading = FALSE /\ runningFork = FALSE
  /\ disposed = FALSE /\ disposal = "none" /\ forced = FALSE /\ runtimeGone = FALSE
  /\ accepted = {} /\ outcome = [m \in Watched |-> {}]

Admission ==
  \/ \E m \in Message : Enqueue(m) \/ RefuseReminder(m)
  \/ \E c \in Compact : EnqueueCompact(c)

TurnStep ==
  \/ PreflightPasses \/ PreflightRejects \/ PreflightThrows
  \/ CapacityGranted \/ CapacityRefused
  \/ \E threw \in BOOLEAN : PromptEnds(threw)
  \/ SwitchSucceeds \/ SwitchFails \/ PrimaryRestored \/ CompactEnds

DrainStep == NextTurn \/ DrainSettled

Interference ==
  \/ \E eligible \in BOOLEAN : RuntimeFailure(eligible)
  \/ GuardTrips \/ AbortSettles \/ Abort \/ Kill
  \/ \E i \in Item : Cancel(i)
  \/ \E S \in SUBSET Item : RemoveQueued(S)

IdentityStep == BeginNative \/ EndIdentity \/ EndRunningFork \/ EndReading

IdentityRequest ==
  \/ \E op \in {"fork", "clone", "switch"} : BeginIdentity(op)
  \/ BeginRunningFork \/ BeginReading

DisposeStep == DisposeAborted \/ DisposeDrained

Next ==
  \/ Admission \/ TurnStep \/ DrainStep \/ Interference
  \/ IdentityStep \/ IdentityRequest \/ Dispose \/ DisposeStep \/ ForceDispose

Spec == Init /\ [][Next]_vars

\* What is awaited settles (the pools have deadlines, the adapters settle or
\* are aborted) and a microtask that is due runs.  Nothing is assumed of the
\* callers, nor of an abort.
FairSpec ==
  /\ Spec
  /\ WF_vars(TurnStep) /\ WF_vars(DrainStep)
  /\ WF_vars(EndIdentity) /\ WF_vars(EndReading) /\ WF_vars(DisposeStep)

-----------------------------------------------------------------------------
(* Properties *)

\* Every variable has its type and the queue keeps its limits, whatever is
\* coalesced or cancelled; drain, turn and disposal agree on what runs.
TypeOK ==
  /\ queue \in Seq(Item) /\ IsInjective(queue) /\ Len(Ordinary(queue)) <= MaxQueue
  /\ Cardinality(Reminder \cap Range(queue)) <= 1
  /\ drain \in {"none", "running", "settled"}
  /\ turn.item \in Item \cup {None} /\ turn.attempt \in 0 .. Fallbacks
  /\ turn.cancelling \in {"no", "abort", "settle"}
  /\ turn # NoTurn => drain = "running"
  /\ identity \in {"none", "reading", "fork", "clone", "switch"}
  /\ native => identity \in {"fork", "clone", "switch"}
  /\ identity = "reading" => reading
  /\ (disposal # "none" \/ forced) <=> disposed
  /\ accepted \subseteq Item
  /\ outcome \in [Watched -> SUBSET {"finished", "error", "withdrawn", "interrupted"}]

\* An accepted message is waiting, in hand, or has been answered by a terminal
\* event or a report that it was interrupted: no path drops it in silence.  The
\* code breaks this: see session_silent_drop.
NoSilentDrop ==
  \A m \in accepted \cap Watched :
    m \in Range(queue) \/ m = turn.item \/ outcome[m] # {}

\* What does hold: a message that is accepted is in the session, and when it
\* leaves, by whatever path, something has been reported of it, with a single
\* exception: its preflight ends while the flag of a failure that no active
\* message owns is still up.
LeavesAnswered ==
  [][\A m \in Watched \cap (ActiveAndQueued \cup (accepted' \ accepted)) :
       \/ m \in ActiveAndQueued' \/ outcome'[m] # {}
       \/ m = turn.item /\ turn.phase = "preflight" /\ failed]_vars

\* A message is not reported both as finished and as failed, although its
\* error events, its prompt and its guard's timer settle in any order.
FinishedXorError ==
  \A m \in Watched : ~({"finished", "error"} \subseteq outcome[m])

IdentityExcludesTurns ==
  (identity # "none" /\ ~disposed) => turn = NoTurn /\ drain # "running"

RuntimeOutlivesTurn == (runtimeGone /\ ~forced) => turn = NoTurn

\* Nothing happens to the native session under a running turn: it is not
\* replaced, read or forked from an idle state (a session disposed meanwhile has
\* no such guarantee), and dispose() disposes the runtime only after the turn it
\* interrupted; only forceDispose(), after the router's timeout, goes ahead.
TurnUndisturbed == IdentityExcludesTurns /\ RuntimeOutlivesTurn

\* A message withdrawn (cancelled, cleared, coalesced or disposed of) before it
\* started never starts afterwards, through preflight, capacity and fallbacks.
WithdrawnNeverStarts ==
  [][(turn'.started /\ ~turn.started /\ turn.item \in Watched)
       => "withdrawn" \notin outcome[turn.item]]_vars

\* A disposed session starts and finishes nothing more.
DisposedStaysSilent ==
  [][disposed =>
       /\ ~(turn'.started /\ ~turn.started)
       /\ \A m \in Watched : "finished" \in outcome'[m] => "finished" \in outcome[m]]_vars

\* The session is a serial mailbox: one item in hand, the oldest next, none
\* that waits ever forgotten, whatever is cancelled, killed, forked or disposed.
Mailbox == INSTANCE SerialMailbox WITH waiting <- queue, current <- turn.item
ImplementsMailbox == Mailbox!FairSpec

\* A disposal that began ends with the runtime disposed, whatever the turn was
\* waiting for.
DisposalCompletes == disposal = "aborting" ~> runtimeGone
=============================================================================
