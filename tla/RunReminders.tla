----------------------------- MODULE RunReminders -----------------------------
(***************************************************************************)
(* How a session is told of its tracked runs: the reminders that           *)
(* src/core/session-router.ts (handleRunReminderOutput to                  *)
(* deliverRunReminder) queues, replaces, defers, releases and withdraws    *)
(* while runs end and are read, turns succeed and fail, the session is     *)
(* aborted, reset, rebound or torn down, and the process starts again.     *)
(*                                                                         *)
(* One controlling session.  A handler is a function on the state          *)
(* s = [run, session, memo] of the run registry, the routed session and    *)
(* the Maps of the router; an action applies one of them, or several that  *)
(* run without an await between them.  The queued and active reminders     *)
(* carry the entry that runReminderDeliveries has for them: that a message *)
(* leaves the session with one report is RoutedSession's, that the store   *)
(* has what the registry has is RunRegistry's.                             *)
(***************************************************************************)
EXTENDS RunRecords, Sublists, FiniteSets, Functions, SequencesExt

CONSTANTS
  Runs,       \* number of runs, numbered in the order they are started
  Loops,      \* loop runs whose messages the session takes
  NoOrigin,   \* of a run that a message of no loop started
  First,      \* the origin of the first run
  NoMessage,  \* no active message
  Turns,      \* messages of users and loops, and inspections
  Mishaps,    \* failed turns, refusals, withdrawals, invalidations, crashes
  MaxCalls    \* deliverRunReminder calls that await the session at once

ASSUME ReminderAssumption ==
  /\ Runs \in Nat /\ NoOrigin \notin Loops /\ First \in Loops \cup {NoOrigin}
  /\ Turns \in Nat /\ Mishaps \in Nat /\ MaxCalls \in Nat \ {0}

RunId == 1..Runs

\* The messages of the session; one is known while runReminderDeliveries has it.
Origins == Loops \cup {NoOrigin}
Messages ==
  [kind : {"user", "loop", "compact", "reminder"}, origin : Origins,
   of : [RunId -> Status \cup {Unset}], gen : Nat, known : BOOLEAN]

ASSUME NoMessageAssumption == NoMessage \notin Messages

VARIABLES
  run,      \* the records of the registry
  session,  \* the routed session
  memo,     \* what the router remembers
  begun,    \* the generation and the origin of each run
  told,     \* history: the last status of each run a finished reminder told of
  parked,   \* history: the session was reset or rebound since a user's turn ended
  cutShort, \* history: runs whose reminder ended with its process
  dropped,  \* history: runs the router gave up: after an abort or a teardown,
            \* or because their reminder had no room or no loop
  missed,   \* history: runs that ended while their session was being rebound
  turns, mishaps

history == <<told, parked, cutShort, dropped, missed>>
reminderVars == <<run, session, memo, begun, history, turns, mishaps>>

NoRuns == [r \in RunId |-> Unset]
Message(kind, origin) ==
  [kind |-> kind, origin |-> origin, of |-> NoRuns, gen |-> 0, known |-> FALSE]
Reminder(of, origin, gen) ==
  [kind |-> "reminder", origin |-> origin, of |-> of, gen |-> gen, known |-> TRUE]

\* busy: drain runs, or the fork candidates of an idle session are read.
NoSession == [up |-> FALSE, busy |-> FALSE, active |-> NoMessage, queue |-> <<>>]

\* Invalidation deletes what is scheduled, deferred, warned of or recovering,
\* so that these are always of the present generation.
Forgotten ==
  [sched |-> "none",     \* scheduledRunReminders, with includeAlreadyNotified
   due |-> {},           \* generations with a microtask to deliver
   calls |-> <<>>,       \* deliverRunReminder awaiting the session
   deferred |-> FALSE,   \* deferredRunReminders
   recovering |-> {},    \* runReminderRecoveries, by group
   warned |-> FALSE,     \* runReminderAdmissionWarnings
   gen |-> 0,            \* runReminderGenerations
   quiet |-> "no"]       \* quiescingSessions, and on whose behalf

State == [run |-> run, session |-> session, memo |-> memo]
Become(s) ==
  \E t \in {s} : run' = t.run /\ session' = t.session /\ memo' = t.memo
Mishap == mishaps < Mishaps /\ mishaps' = mishaps + 1

IsReminder(m) == m.kind = "reminder"
Waiting(s) == Range(s.session.queue)
Queued(s) == {m \in Waiting(s) : IsReminder(m)}
Active(s) == {s.session.active} \ {NoMessage}
Idle(s) == s.session.up /\ ~s.session.busy

-----------------------------------------------------------------------------
(* Scheduling and releasing *)

Wanting(s, again) == {r \in RunId : Exists(s.run[r]) /\ Needs(s.run[r], again)}

\* scheduleRunReminder for the present generation: with again also for runs
\* that a reminder was made for already, unless one is under way.
Schedule(s, again) ==
  IF s.memo.quiet # "no" \/ s.memo.deferred THEN s
  ELSE IF Wanting(s, again) = {} THEN [s EXCEPT !.memo.warned = FALSE]
  ELSE IF again /\ \E m \in Waiting(s) \cup Active(s) : m.known THEN s
  ELSE [s EXCEPT !.memo.sched = IF again \/ @ = "again" THEN "again" ELSE "fresh",
                 !.memo.due = @ \cup {s.memo.gen}]

\* onStateChange of an idle session
Notify(s) == IF Idle(s) THEN Schedule(s, FALSE) ELSE s

\* releaseNotification of what the reminders in S tell of
Release(s, S) ==
  [s EXCEPT !.run = [r \in RunId |->
     IF Exists(@[r]) /\ \E m \in S : m.of[r] = @[r].status
     THEN Released(@[r], @[r].status) ELSE @[r]]]

InterruptSilently(s, S) == s

\* handleInterruptedRunReminders
Interrupt(s, S) == Release(s, {m \in S : m.known})

\* removeQueuedMessages(isRunReminderServiceMessage)
RemoveQueued(s) ==
  IF Queued(s) = {} THEN s
  ELSE Notify(Interrupt(
         [s EXCEPT !.session.queue = Without(@, Queued(s))], Queued(s)))

\* refreshQueuedRunReminders
Refresh(s) ==
  IF Queued(s) # {} THEN Schedule(RemoveQueued(s), TRUE)
  ELSE IF Wanting(s, TRUE) = {} THEN [s EXCEPT !.memo.warned = FALSE] ELSE s

\* invalidateRunReminders; suppressControllerNotifications comes last.
Invalidate(s) ==
  LET fenced == [s EXCEPT !.memo.gen = @ + 1, !.memo.sched = "none",
                          !.memo.deferred = FALSE, !.memo.recovering = {},
                          !.memo.warned = FALSE,
                          !.session.active =
                            IF @ = NoMessage THEN @ ELSE [@ EXCEPT !.known = FALSE],
                          !.session.queue = [i \in DOMAIN @ |-> [@[i] EXCEPT !.known = FALSE]]]
      removed == RemoveQueued(fenced)
  IN [removed EXCEPT !.run =
        [r \in RunId |-> IF Exists(@[r]) THEN Suppressed(@[r]) ELSE NoRun]]

-----------------------------------------------------------------------------
(* Delivery *)

\* The microtask of scheduleRunReminder, up to the await of getOrCreateSession.
Deliver(gen) ==
  /\ gen \in memo.due /\ Len(memo.calls) < MaxCalls
  /\ LET mine == memo.sched # "none" /\ gen = memo.gen
     IN memo' = [memo EXCEPT
          !.due = @ \ {gen},
          !.sched = IF mine THEN "none" ELSE @,
          !.calls = IF mine /\ memo.quiet = "no"
                    THEN Append(@, [gen |-> gen, again |-> memo.sched = "again"]) ELSE @]
  /\ UNCHANGED <<run, session, begun, history, turns, mishaps>>

Called(i) == [State EXCEPT !.memo.calls = RemoveAt(@, i)]

FencedByNothing(gen) == FALSE

\* The check that follows the await.
Fenced(gen) == memo.quiet # "no" \/ gen # memo.gen

Abandon(i) ==
  /\ Fenced(memo.calls[i].gen)
  /\ Become(Called(i))
  /\ UNCHANGED <<begun, history, turns, mishaps>>

\* createNotification: the runs of the origin of the first of those in need,
\* which are reserved.
Group(s, again) ==
  LET needing == Wanting(s, again)
      first == CHOOSE r \in needing : \A q \in needing : r <= q
  IN {r \in needing : begun[r].origin = begun[first].origin}

Notification(s, runs, gen) ==
  Reminder([r \in RunId |-> IF r \in runs THEN s.run[r].status ELSE Unset],
           begun[CHOOSE r \in runs : TRUE].origin, gen)

Reserve(s, runs) ==
  [s EXCEPT !.run = [r \in RunId |-> IF r \in runs THEN Notified(@[r]) ELSE @[r]]]

\* enqueueMessage: startDrain of an idle session takes the message at once.
Enqueue(s, m) ==
  IF s.session.busy THEN [s EXCEPT !.session.queue = Append(@, m)]
  ELSE [s EXCEPT !.session.busy = TRUE, !.session.active = m]

\* The session is there: what is queued is released, and a new snapshot takes
\* its place.  Enqueueing it removes nothing more.
Resume(i) ==
  /\ ~Fenced(memo.calls[i].gen)
  /\ LET called == [Called(i) EXCEPT !.session.up = TRUE]
         again == memo.calls[i].again \/ Queued(called) # {}
     IN \E s \in {RemoveQueued(called)} : \E runs \in {Group(s, again)} :
          Become([IF runs = {} THEN s
                  ELSE Enqueue(Reserve(s, runs), Notification(s, runs, memo.calls[i].gen))
                  EXCEPT !.memo.warned = FALSE])
  /\ UNCHANGED <<begun, history, turns, mishaps>>

\* There is no session to be had, or its queue takes no message: the
\* reservation is released, and deferRunReminderAdmission warns.
Refuse(i) ==
  /\ ~Fenced(memo.calls[i].gen) /\ Mishap
  /\ \/ ~session.up /\ Become([Called(i) EXCEPT !.memo.warned = TRUE])
     \/ LET called == [Called(i) EXCEPT !.session.up = TRUE]
            again == memo.calls[i].again \/ Queued(called) # {}
        IN \E s \in {RemoveQueued(called)} : \E runs \in {Group(s, again)} :
             /\ runs # {}
             /\ Become([Release(Reserve(s, runs), {Notification(s, runs, memo.calls[i].gen)})
                        EXCEPT !.memo.warned = TRUE])
  /\ UNCHANGED <<begun, history, turns>>

-----------------------------------------------------------------------------
(* The session and its turns *)

\* A message of a user or of a loop
Ask(kind, origin) ==
  /\ turns < Turns /\ memo.quiet = "no"
  /\ turns' = turns + 1
  /\ Become(Enqueue([State EXCEPT !.session.up = TRUE], Message(kind, origin)))
  /\ UNCHANGED <<begun, history, mishaps>>

\* getForkCandidates of an idle session: until Rest messages wait.
Inspect ==
  /\ turns < Turns /\ Idle(State)
  /\ turns' = turns + 1
  /\ session' = [session EXCEPT !.busy = TRUE]
  /\ UNCHANGED <<run, memo, begun, history, mishaps>>

\* drain takes the next message.
Take ==
  /\ session.active = NoMessage /\ session.queue # <<>>
  /\ session' = [session EXCEPT !.active = Head(session.queue), !.queue = Tail(@)]
  /\ UNCHANGED <<run, memo, begun, history, turns, mishaps>>

\* The end of drain or of an inspection
Rest ==
  /\ session.busy /\ session.active = NoMessage /\ session.queue = <<>>
  /\ Become(Notify([State EXCEPT !.session.busy = FALSE]))
  /\ UNCHANGED <<begun, history, turns, mishaps>>

Over == [State EXCEPT !.session.active = NoMessage]

\* runReminderRecoveryGroupKey
Key(m) == IF m.origin = NoOrigin THEN {r \in RunId : m.of[r] # Unset} ELSE m.origin

Recovered(s, m) == [s EXCEPT !.memo.recovering = @ \ {Key(m)}]

\* message_finished; that of a loop's message, a service message, is no news.
FinishUser ==
  /\ session.active # NoMessage /\ session.active.kind = "user"
  /\ Become(Schedule(Over, TRUE))
  /\ parked' = FALSE
  /\ UNCHANGED <<begun, told, cutShort, dropped, missed, turns, mishaps>>

\* message_finished of a reminder that is still known
FinishReminder ==
  LET m == session.active IN
  /\ m # NoMessage /\ IsReminder(m)
  /\ IF m.known
     THEN /\ Become(Schedule(Recovered(Over, m), FALSE))
          /\ told' = [r \in RunId |-> IF m.of[r] # Unset THEN m.of[r] ELSE told[r]]
     ELSE Become(Over) /\ UNCHANGED told
  /\ UNCHANGED <<begun, parked, cutShort, dropped, missed, turns, mishaps>>

FinishOther ==
  /\ session.active # NoMessage /\ session.active.kind \in {"loop", "compact"}
  /\ Become(Over)
  /\ UNCHANGED <<begun, history, turns, mishaps>>

\* suppressRunReminderDelivery: what the reminder had reserved is not told of
\* any more.
SuppressRuns(s, m) ==
  LET released == {r \in RunId : Exists(s.run[r]) /\ m.of[r] = s.run[r].status
                                                  /\ s.run[r].notified = s.run[r].status}
      given == [Recovered(Release(s, {m}), m) EXCEPT
                  !.run = [r \in RunId |-> IF r \in released THEN Suppressed(@[r]) ELSE @[r]],
                  !.memo.deferred = FALSE, !.memo.warned = FALSE]
  IN Schedule(RemoveQueued(given), FALSE)

\* The turn had no room in its context: deferred until a compaction, once for
\* each group.
Defer(s, m, compaction) ==
  LET released == Release(s, {m})
      deferred == RemoveQueued([released EXCEPT !.memo.deferred = TRUE,
                                                !.memo.recovering = @ \cup {Key(m)}])
  IN IF s.memo.quiet # "no" THEN released
     ELSE IF Key(m) \in s.memo.recovering THEN SuppressRuns(s, m)
     ELSE IF Wanting(released, FALSE) = {} THEN released
     ELSE IF s.memo.deferred \/ ~compaction THEN deferred
     ELSE Enqueue(deferred, Message("compact", NoOrigin))

\* session_error of the active message: a turn fails, or the loop of a
\* reminder was invalidated, or the reminder has no room in the context.
FailTurn ==
  LET m == session.active
      dropping == dropped \cup {r \in RunId : m.of[r] # Unset}
  IN
  /\ m # NoMessage /\ m.kind # "compact"
  /\ \/ Mishap /\ Become(IF m.known THEN Release(Over, {m}) ELSE Over) /\ UNCHANGED dropped
     \/ /\ Mishap /\ m.known /\ m.origin # NoOrigin
        /\ Become(SuppressRuns(Over, m)) /\ dropped' = dropping
     \/ /\ m.known
        /\ IF Key(m) \in memo.recovering THEN dropped' = dropping /\ UNCHANGED mishaps
           ELSE Mishap /\ UNCHANGED dropped
        /\ \E compaction \in BOOLEAN : Become(Defer(Over, m, compaction))
  /\ UNCHANGED <<begun, told, parked, cutShort, missed, turns>>

\* compaction_end of a compaction that succeeded, asked for or automatic
CompactionEnds ==
  /\ session.active # NoMessage /\ memo.deferred
  /\ Become(Schedule([State EXCEPT !.memo.deferred = FALSE], TRUE))
  /\ UNCHANGED <<begun, history, turns, mishaps>>

\* cancelMessage of a queued message or of the one in flight
Withdraw ==
  /\ Mishap
  /\ \/ \E i \in DOMAIN session.queue :
          Become(Interrupt([State EXCEPT !.session.queue = RemoveAt(@, i)],
                           {session.queue[i]} \cap Queued(State)))
     \/ /\ session.active # NoMessage /\ session.active.kind # "compact"
        /\ Become(Interrupt(Over, {session.active}))
  /\ UNCHANGED <<begun, history, turns>>

\* clearQueue
ClearQueue ==
  /\ session.queue # <<>> /\ Mishap
  /\ Become(Notify(Interrupt([State EXCEPT !.session.queue = <<>>], Waiting(State))))
  /\ UNCHANGED <<begun, history, turns>>

-----------------------------------------------------------------------------
(* The runs *)

InTurn == session.active # NoMessage /\ session.active.kind # "compact"

\* yieldedRunOrigin: a run has the origin of the message that started it.
StartRun(r) ==
  /\ InTurn /\ ~Exists(run[r]) /\ \A q \in 1..(r - 1) : Exists(run[q])
  /\ run' = [run EXCEPT ![r] = NewRun("tracked")]
  /\ begun' = [begun EXCEPT ![r] = [gen |-> memo.gen, origin |-> session.active.origin]]
  /\ UNCHANGED <<session, memo, history, turns, mishaps>>

TerminalForgone(s, r) ==
  IF begun[r].gen # s.memo.gen \/ s.memo.quiet # "no" \/ Wanting(s, TRUE) # {r}
  THEN [s EXCEPT !.run[r] = Suppressed(@)] ELSE Schedule(s, FALSE)

\* handleTerminalRunReminder
TerminalReminder(s, r) ==
  IF begun[r].gen # s.memo.gen \/ s.memo.quiet # "no"
  THEN [s EXCEPT !.run[r] = Suppressed(@)] ELSE Schedule(s, FALSE)

\* The execution is over.  However it ended, reminders treat it alike.
Complete(r) ==
  /\ Exists(run[r]) /\ ~IsTerminal(run[r])
  /\ Become(TerminalReminder([State EXCEPT !.run[r] = Ended(@, "completed")], r))
  /\ dropped' = IF memo.quiet = "teardown" THEN dropped \cup {r} ELSE dropped
  /\ missed' = IF memo.quiet = "rebind" THEN missed \cup {r} ELSE missed
  /\ UNCHANGED <<begun, told, parked, cutShort, turns, mishaps>>

\* readRun, ackRun and cancelRun of the session's tools
ReadRun(r) ==
  /\ InTurn /\ Exists(run[r]) /\ IsTerminal(run[r])
  /\ Become(Refresh([State EXCEPT !.run[r] = ReadBy(@)]))
  /\ UNCHANGED <<begun, history, turns, mishaps>>

Acknowledge(r) ==
  /\ InTurn /\ Exists(run[r])
  /\ Become(Refresh([State EXCEPT !.run[r] = Acknowledged(@)]))
  /\ UNCHANGED <<begun, history, turns, mishaps>>

Cancel(r) ==
  /\ InTurn /\ Exists(run[r])
  /\ Become(Refresh([State EXCEPT !.run[r] = Cancelled(@)]))
  /\ UNCHANGED <<begun, history, turns, mishaps>>

-----------------------------------------------------------------------------
(* Invalidation, disposal and restart *)

Known == {r \in RunId : Exists(run[r])}

Abort ==
  /\ Mishap /\ Become(Invalidate(State))
  /\ dropped' = dropped \cup Known
  /\ UNCHANGED <<begun, told, parked, cutShort, missed, turns>>

\* The runtime goes; what it had in hand is reported as interrupted.
Dispose(s) == [Interrupt(s, Waiting(s) \cup Active(s)) EXCEPT !.session = NoSession]

\* resetCachedSession, also of an idle session and in a rebind
Reset ==
  /\ session.up /\ memo.quiet = "no"
  /\ \/ Idle(State) /\ UNCHANGED <<parked, mishaps>>
     \/ Mishap /\ parked' = TRUE
  /\ Become(Dispose(State))
  /\ UNCHANGED <<begun, told, cutShort, dropped, missed, turns>>

\* beginSessionQuiescence of a kill or a deletion
Quiesce ==
  /\ memo.quiet = "no" /\ Mishap
  /\ Become([Invalidate(State) EXCEPT !.memo.quiet = "teardown"])
  /\ dropped' = dropped \cup Known
  /\ UNCHANGED <<begun, told, parked, cutShort, missed, turns>>

\* rebindSessionRuntime holds the session quiet, and invalidates nothing.
Rebind ==
  /\ memo.quiet = "no" /\ ~session.busy /\ Mishap
  /\ memo' = [memo EXCEPT !.quiet = "rebind"]
  /\ parked' = TRUE
  /\ UNCHANGED <<run, session, begun, told, cutShort, dropped, missed, turns>>

\* A rebind that was refused leaves the runtime as it was.
Quieted ==
  /\ \/ memo.quiet # "no" /\ Become([Dispose(State) EXCEPT !.memo.quiet = "no"])
     \/ memo.quiet = "rebind" /\ Become([State EXCEPT !.memo.quiet = "no"])
  /\ UNCHANGED <<begun, history, turns, mishaps>>

\* The process ends, and its successor recovers the runs and schedules the
\* reminders of those that are over.
Restart ==
  LET reserved == {r \in RunId : /\ Exists(run[r]) /\ IsTerminal(run[r])
                                 /\ Needs(run[r], TRUE) /\ ~Needs(run[r], FALSE)}
      recovered == [r \in RunId |-> IF Exists(run[r]) /\ ~IsTerminal(run[r])
                                    THEN Ended(run[r], "failed") ELSE run[r]]
  IN /\ Mishap
     /\ Become(Schedule([run |-> recovered, session |-> NoSession, memo |-> Forgotten], FALSE))
     /\ cutShort' = cutShort \cup {r \in reserved : told[r] # run[r].status}
     /\ UNCHANGED <<begun, told, parked, dropped, missed, turns>>

-----------------------------------------------------------------------------
\* A message has started the first run and is over.
RemindersInit ==
  /\ run = [r \in RunId |-> IF r = 1 THEN NewRun("tracked") ELSE NoRun]
  /\ begun = [r \in RunId |-> [gen |-> 0, origin |-> First]]
  /\ session = [NoSession EXCEPT !.up = TRUE] /\ memo = Forgotten
  /\ told = NoRuns /\ parked = FALSE /\ cutShort = {} /\ dropped = {} /\ missed = {}
  /\ turns = 0 /\ mishaps = 0

Call(i) == Abandon(i) \/ Resume(i)
Finish == FinishUser \/ FinishReminder \/ FinishOther

RemindersNext ==
  \/ \E gen \in memo.due : Deliver(gen)
  \/ \E i \in DOMAIN memo.calls : Call(i) \/ Refuse(i)
  \/ Ask("user", NoOrigin) \/ (\E loop \in Loops : Ask("loop", loop)) \/ Inspect
  \/ Take \/ Rest \/ Finish \/ FailTurn \/ CompactionEnds \/ Withdraw \/ ClearQueue
  \/ \E r \in RunId : StartRun(r) \/ Complete(r) \/ ReadRun(r) \/ Acknowledge(r) \/ Cancel(r)
  \/ Abort \/ Reset \/ Quiesce \/ Rebind \/ Quieted \/ Restart

RemindersSpec == RemindersInit /\ [][RemindersNext]_reminderVars

\* Microtasks run, sessions open or refuse, turns end, teardowns end.
GoesOn ==
  /\ WF_reminderVars(\E gen \in memo.due : Deliver(gen))
  /\ WF_reminderVars(memo.calls # <<>> /\ Call(1))
  /\ WF_reminderVars(Take \/ Rest \/ Finish) /\ WF_reminderVars(Quieted)

FairReminders == RemindersSpec /\ GoesOn

-----------------------------------------------------------------------------
(* Properties *)

\* A queued reminder is of the present generation, never of one that an abort
\* or a teardown has ended, and tells of a run that still wants to be told of:
\* no turn is spent on what the agent has read, acknowledged or cancelled.
RemindersAreCurrent ==
  \A m \in Queued(State) :
    /\ m.known /\ m.gen = memo.gen /\ memo.quiet = "no"
    /\ \E r \in Wanting(State, TRUE) : m.of[r] # Unset

\* What is reserved is on its way: a run that is marked as notified in its
\* present status, and was not told of, is in a queued or active reminder,
\* whose end releases it, unless the process ended under that reminder.
ReservationsCarried ==
  \A r \in Wanting(State, TRUE) \ Wanting(State, FALSE) :
    \/ told[r] = run[r].status \/ r \in cutShort
    \/ \E m \in Waiting(State) \cup Active(State) : m.known /\ m.of[r] = run[r].status

\* Unread: nobody has read, acknowledged or cancelled it since it ended.
Unread(r) == Exists(run[r]) /\ IsTerminal(run[r]) /\ ~run[r].consumed

\* The agent is told of a run that ended, unless it reads or acknowledges it
\* first; the router neither forgets it nor takes it for acknowledged.  The
\* router may put the reminder off until the next change of state (admission
\* was refused), a compaction, or the next turn of a user (the session was
\* reset or rebound, or the process ended).  It may give up a run that was there
\* at an abort or ended in a teardown, or whose reminder has no room in the
\* context for a second time or has lost its loop.  Of a run that ends during a
\* rebind nothing is promised here: see RemainsEligible.
EventuallyTold ==
  \A r \in RunId :
    Unread(r) ~>
      \/ ~Unread(r) \/ told[r] = run[r].status
      \/ memo.warned \/ memo.deferred \/ parked \/ r \in cutShort
      \/ r \in dropped \/ r \in missed

\* What capacity-and-scheduling.md says of a run that the router had no reason
\* to give up: once ended, it remains eligible for reminders until the agent
\* reads or acknowledges it.  handleTerminalRunReminder acknowledges one that
\* ends during a rebind.
RemainsEligible ==
  \A r \in RunId : (Unread(r) /\ r \notin dropped) => r \in Wanting(State, TRUE)
=============================================================================
