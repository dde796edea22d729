# A verification of Pibo's session core

Pibo runs coding agents behind sessions that users, channels, delegating agents and schedulers
address at the same time. This directory holds TLA+ models of the parts that decide whether a message
gets a turn, whether a turn ends with exactly one answer, whether a durable message is handed on once and
in order, whether what the agent said is stored, whether a session has one runtime and loses it when it
should, whether a background run ends exactly once, and whether the agent is told of it;
TLC configurations that check them on small instances; and TLAPS proofs for every instance where they
exist. Every definition is taken from the TypeScript under `src/src`; `PROJECT.json` gives, for each
definition, the lines it stands for. Paths below are relative to `src/src`.

## Inventory

| Component | State | Operations | Interacts with | What makes it hard | What makes it correct |
|---|---|---|---|---|---|
| Fair capacity pool, `core/runtime-capacity.ts` | queues per room in rotation, leases, four counters | acquire, cancel (also by deadline), release, close, drain | sessions (provider turns), router (cold starts) | counters kept by increments on four paths; reserved places for delegated turns; rotation | limits kept, counters exact, no place idle while somebody may take it, order, no starvation |
| Provider pools, `core/runtime-capacity.ts`, `core/provider-capacity.ts` | one pool per provider, created and removed on demand | acquire for a provider, remove when idle, close | pools, sessions | callers hold a pool object across an await while it is removed | the limits of a provider hold over all its pool objects; nobody waits at a pool that is not found |
| Routed session, `agent-runtime/routed-session.ts` | message queue, drain promise, in-flight message, failure flag, identity operation flags, disposal | enqueue, drain, cancel, clear, abort, kill, fork, clone, switch, read candidates, compact, dispose, forceDispose, adapter errors, reminder guard | pool, adapter, router | every await is a place where all other handlers may run | one turn at a time, no message forgotten or answered twice or never, identity operations never under a turn |
| Session router, `core/session-router.ts` | live runtimes, cold starts under way, disposals under way, quiescing ids, idle timers | emit, cold start with eviction, abort of a start, idle eviction, reset, rebind, kill, delete a subtree, dispose all | sessions, starts pool, run registry | every one of these awaits others of them | one runtime per session within the limit, nothing survives a teardown, everybody is answered |
| Run reminders, `core/session-router.ts` from `handleRunReminderOutput` | scheduled, deferred and delivered reminders, generations, recoveries; marks in the run registry | schedule, deliver, replace, defer, release, suppress, invalidate, refresh | sessions, run registry | a delivery awaits the session while runs end, are read, or the session is aborted, reset, rebound or torn down | no stale reminder is queued, no mark is left behind, the end of a run is told |
| Reliability store, `reliability/store.ts` | event stream and consumer offsets, jobs and dead jobs, receipts, runs | append, prune, claim, update, ack, retry, fail, release, heartbeat, recover | output queue, run registry, dispatcher | several processes on one SQLite file; claims that lapse; crash | owners only settle what they hold; ids monotonic; nothing lost |
| Output persistence, `core/output-persistence-retry.ts`, delivery in `apps/chat/web-app.ts` | pending map, retry and recovery timers, heartbeats, blocked jobs, drain waiters | enqueue, recover, drain, dispose, attempt | reliability store, product history, live listeners | at-least-once delivery of three projections with checkpoints | nothing lost, no repeated side effect after a receipt, drain returns |
| Run registry, `runs/registry.ts` | runs in memory and in `pibo_runs` | start, complete, fail, time out, cancel, read, acknowledge, notify, suppress, recover, prune | store, run tools, router | in-memory and stored state; a second process that recovers | terminal states final, cancel wins |
| Message commands, `data/message-command-store.ts`, `data/chat-storage-worker.ts`, `apps/chat/message-command-dispatcher.ts`, `debug/message-queue.ts` | durable user messages with owner, token and lease; claims and dispatches in the process | admit, claim, transition, heartbeat, record an output, recover, clear, reconcile | router, output persistence, operator | leases that lapse, answers that are lost, restarts, late outputs | handed on at most once and in order, answered truly and for good, answered in the end |
| Chat event log, `data/*` | products' events, sessions, payloads | ingest, list | output persistence | idempotency by delivery key | stable stream ids |
| Signals, loops, cron, ralph, `signals/ loops/ cron/ ralph/` | projections and schedules | record, tick | router | ticks racing work | at most one iteration at a time |
| Adapters, `agent-runtimes/*` | native agent processes | prompt, abort, fork, dispose | sessions | protocol translation | the contract that the session assumes |
| Gateway, chat web app, TUI, CLI, traces | sockets, views | I/O | router | I/O | out of scope |
| Compute pool, previews, browser leases, reaper, MCP | host resources and leases | acquire, release, reap | tools | files and processes of the host | candidates for later modules |

All classes of one process run on one JavaScript event loop: what a handler does up to its next await
is atomic with respect to the other handlers of its process, and one action (or, where another
*process* can interfere, several). A statement or immediate transaction of SQLite is atomic for all
processes.

## Modules

| Module | Models |
|---|---|
| `PoolRecords` | the state of a `FairCapacityPool` object, and what each operation of the class makes of it |
| `FairCapacityPool` | `FairCapacityPool`: one action per operation, its trailing `drain()` included |
| `FairCapacityPoolProofs` | TLAPS proofs about it and about `RuntimeCapacity` |
| `SerialMailbox` | abstract: what a session promises about the work it accepts |
| `RoutedSession` | `RuntimeRoutedSession`: queue, drain, turn, identity operations, disposal; implements `SerialMailbox` |
| `RoutedSessionProofs` | TLAPS proofs about it, the refinement included |
| `ReliabilityJobs` | operators: a row of `pibo_jobs` and the statements on it |
| `OutputPersistence` | `OutputPersistenceRetryQueue` in several processes, the delivery of `web-app.ts`, the store |
| `OutputPersistenceProofs` | TLAPS proofs about it |
| `RunRecords` | operators: the record of a run and what each operation makes of it |
| `RunRegistry` | `PiboRunRegistry` in several processes, the execution and cancellation of runs in the router, the store |
| `RunRegistryProofs` | TLAPS proofs about it |
| `RuntimeCapacity` | `RuntimeCapacity`: the registry of provider pools, over `PoolRecords` |
| `MessageCommands` | the table of durable messages, the storage worker, the dispatcher, the outputs that move a row on, the operator's reconcile |
| `MessageCommandsProofs` | TLAPS proofs about it |
| `SessionRouter` | who owns the runtime of a session: cold starts, evictions, disposals, kills, shutdown |
| `SessionRouterProofs` | TLAPS proofs about it |
| `RunReminders` | how the router tells a session of its runs, over `RunRecords` |
| `RunRemindersProofs` | TLAPS proofs about it |
| `Sublists` | operators: what filtering leaves of a queue |
| `SequenceLemmas` | TLAPS proofs of facts about sequences that the modules with queues need |
| `MC...` | instances for TLC; `MCRouterPool` (router and pool) and `MCTrackedRuns` (run registry and reminders) hold two each |

**FairCapacityPool.** `pool` is the object, a record of `PoolRecords`. `rooms` is the order of the JavaScript `Map`, `queue` its
values, `held` the leases that were not released (`release` is idempotent per lease, so a set).
`Acquire`, `Cancel`, `Release` and `Close` are whole handlers; `DrainFrom` is the loop of `drain()`
unrolled to two turns: no operation makes room for more than two waiting requests, and `WorkConserving` is
the check that a third turn would find nobody to serve. The deadline of a wait is a `Cancel` that may come at
any time. A request is `Nested` when it was acquired with `reserved = true`.

**RoutedSession.** `drain` is `drainPromise`: running, or *settled* while its `finally()` has not run,
which is the window in which a new message starts nothing. `turn` holds the in-flight message, where its
promise chain waits (preflight, capacity, prompt, model switches, aborts) and its local flags. The
adapter is the set of outcomes its calls have: each resolves or rejects, and error events come when
the constants allow. `accepted` and `outcome` are history variables: which messages were accepted, and
what was reported of the watched ones. `MaxQueue` stands for `RUNTIME_QUEUE_MAX_MESSAGES`, `Fallbacks` for
the length of the fallback chain.

**OutputPersistence.** An output is handed to a queue (`Enqueue`), which inserts a job row, claims it and
runs the delivery: history (`Ingest`, an await), checkpoint, reliability stream (`Append`), checkpoint,
receipt look-up (`Look`), live side effects (`Send`), receipt, and the acknowledgement (`Return`). Phases
between awaits are separate actions, because a crash or another process may come between them, but the
guard `Free` keeps other handlers of the same process out. A handler is a function on the store and
one process. Time is two facts per row: its `run_at` has come, its claim has lapsed. `End` is a crash
(or the end after `dispose()`); the successor has a new worker id, so the old claims belong to
`Nobody`. Several processes share a queue when a new gateway starts before the old one is gone,
and when several command lines use the shared store (`cli-session/localSessionSource.ts`).

Abstractions of this module: the durable store is there; a job has one delivery; malformed payloads
and `quarantine()` are left out; `expires_at` is not set by this queue; fetching a large payload is
always an await; the microtask that runs the `finally()` of an attempt whose job has left the pending
map comes before a producer is called again; jobs are recovered in any fixed order; `outputPersisted` of
the command dispatcher is left out; a `Dispose` leaves the store usable for a delivery that goes on
(in the web application the store is closed, which only makes its statements fail).
`attempts` also stands for `claim_token`, which every claim increases with it. Every step of a delivery up to the
live side effects may throw (`StepFails`), the receipt look-up and the fetch before it included.

**RunRegistry.** A yielded run has a record in the memory of its process (`runs`), a row in `pibo_runs`
(`stored`) and a job in `pibo_jobs` (`row`); the job is named after the run. An operation of the
registry is one action, except that ending a run writes twice, in two transactions: `proc[p].owes`
is the second write, `Writes` does it, and between the two the process may end or another one
may use the store, but no other handler of the same process runs (`Up`). complete, fail, timeOut
and resourceLimit write the row first; cancel fails the job first. `exec` is the execution of the tool
in the router, with the window in which its error waits for the decision of a cancellation; `asked` is
that cancellation, which all callers share. `Boot` is the constructor with
`recoverInterruptedRuns`. `End` turns the claims of the process into nobody's, as its successor draws
a new worker id. Time is three facts: a claim has lapsed, a deadline has passed, an ended run is old
enough to prune. `cut` is a history variable.

Abstractions of this module: results, errors and resources of a run are left out, and with them
`updateResources`, whose write the next one repeats; no caller asks for a retryable run, so none is
queued; SQLite statements do not fail; waiters are left out; all runs belong to one session.

**RuntimeCapacity.** `acquireProvider` awaits a pool object, so a caller refers to it (`uses`) across
steps of others; objects are named by their provider and a slot, and `providers` is the `Map`. The
operators of the pool come from `PoolRecords`, applied to the object in question. A caller that waited and
was refused is `rejected` until its catch clause (`Caught`) has run, which is when an idle pool leaves
the `Map`. `RegistryNext` covers both kinds of callers: the routed session, which holds a lease for a turn, and the
Pi extension of `provider-capacity.ts`, which holds one for a request.

**MessageCommands.** A statement or transaction of the storage worker is one action on `row`; `log` is what
the event log holds of the outcome, `runtime` what became of the message behind the router and `outbox` what
it emitted. A dispatch is named by its command and the token of its claim, so that an old dispatch may go
on beside a new one. Time is one fact per row: its lease has lapsed. `Expire` needs a mishap while somebody
attends to the row (the heartbeat, or a storage call under way, whose deadline of half a second is short
beside a lease of 30 seconds). Outputs reach the row in any order and at least once, also after a crash: that
is what `OutputPersistence` establishes for the queue in between. `Claim` recovers, chooses and claims in
one transaction; the two ways its answer is of no use (unreadable payload, lost answer) are alternatives.

Abstractions of this module: one dispatcher process at a time, which the web application has; limits of
admission and repeated transactions leave no trace; the batch limits of recovery (100 and 1000 rows) are not
reached; each session is in a room of its own, so the limits per room coincide with one claim each.
A call of the dispatcher may throw at each of its places: before or in the initialization, or in the transition of a
dispatch without its session (`TransitionFails`), in `emit()` before the message is taken in (`Throws`), and in
`emit()` after it is (`ThrowsLate`), when the runtime goes on with a message whose row is `interrupted`. The branch for
an `emit()` that *returns* a `session_error` is left out, as `enqueueMessage` and `steerMessage` return
`message_queued` and `message_steered` only.
After a transition to `interrupted` in a catch clause the accepted successors fail at the next recovery, not at once,
as in the code.

**SessionRouter.** `sessions` is the `Map` of runtimes and `life` what has become of each of them;
`start` is the cold start behind `pendingSessions`, `disposing` and `quiescing` are the two guards by which
disposals hold off callers. A job is one call of a disposing function from its first to its last await; a cold
start that needs room runs a job of its own. `Begin` and `Claim` are the common start: await the
disposals under way, once, then take the ids; when one of those disposals is rejected, so is the job (`Refused`), which
then has taken nothing. A rebind catches that and goes on. `Finish` with `ok = FALSE` is a job that took its runtimes and
is rejected nevertheless: the disposal deadline passed, after which a runtime is forced out, or the runs of the sessions
could not be cancelled or the controller's sessions not be closed. All who awaited the job are rejected with it.
A rebind keeps its session quiescent until its binding is stored (`RebindEnds`). `doomed` is a history field: the
runtimes its ids had, or were getting, when a teardown got past the disposals before it.

Abstractions of this module: the order of microtasks is over-approximated, except that the awaiters of a settled disposal
resume before new input (`Quiet`); waiting among the cold starts is reduced to the limits and the deadline;
a runtime that was forced out counts as gone; `Subtree` does not change; `emit()` of the actions dispose and kill,
which differ from the functions of that name by one retry, is left out.

**RunReminders.** `memo` holds the Maps of the router about reminders, `session` what matters of the
routed session, `run` the records of the registry. A handler is a function on these three; an action
applies those that run without an await between them: `Schedule` is `scheduleRunReminder`, whose microtask is
`Deliver`; a delivery then awaits the session (`memo.calls`) and goes on in `Resume`, `Abandon` or `Refuse`.
A message carries the entry that `runReminderDeliveries` has for it, `known` while it is there. Runs are
numbered in the order they are started, the order of the registry's `Map`, which decides which
origin a reminder is about. `told`, `parked`, `cutShort`, `dropped` and `missed` are history variables: of which end
the agent was told, which reminders were put off, and which runs the router gives up (by a crash, an abort or a
teardown, or for want of room or of the loop) or takes for acknowledged because they ended during a rebind.
`EventuallyTold` promises that a run nobody reads is told unless it is one of these, and `RemainsEligible`
says the part of it that the documentation says and a rebind breaks.

Abstractions of this module: one controlling session; the store is as the registry (that is `MemoryIsStored`);
however an execution ends, it counts as completed; the microtask between the end of a drain and the clearing of
`drainPromise` is one step with it, so a message for an idle session is taken at once, as `startDrain` does;
the size guard of a reminder's turn is one of the failures for lack of room; a refusal of a queue that is
full, too old or too big is one `Refuse`; the model starts when a message has started the first run.

## Runs

| Run | Instance | Shows |
|---|---|---|
| `provider_pools` | two providers, a `Map` of one pool, one place, four requests of two rooms | limits hold over all pool objects of a provider, no request at a pool that is not found, nobody starves when leases are released |
| `session_lifecycle` | three messages, two of them reminders, one compact action, queue of one, one fallback | the session under every interleaving: one report per message, nothing under a turn, withdrawn messages never start; it implements the serial mailbox, and a disposal completes |
| `session_silent_drop` | one message, one compact action | a statement of the repository the code does not keep (below) |
| `output_delivery` | two processes, one output, two attempts, two crashes or disposals, two claims that lapse under a live process | nothing lost, marks true, no repeated side effect after the receipt, stale owners change nothing |
| `output_drain` | one process, two outputs, a pending map of one, two hand-overs, one crash or disposal | every durable output is settled; `drain()` returns, unless `dispose()` overtakes it: that wakes it once, and it then may wait for ever |
| `tracked_runs` | in two parts. The registry: one process, one run, three ends of the process. The reminders: two runs, the first of a loop; one turn of a user or of the loop, one mishap, one delivery awaiting the session at a time | memory and store agree, no run stays running unattended, no job outlives its run, cancellation waits for the execution, ends are final; queued reminders are current, reservations are carried, an ended run is told of |
| `run_second_process` | two processes, one run | a statement of the repository the code does not keep (below) |
| `commands_dispatch` | two commands, of one session or of two, each delivery, one dispatch per delivery, one mishap | handed on once and in order, answered truly, for good, and in the end |
| `commands_cleared` | two commands of one session, no mishap | a statement of the repository the code does not keep (below) |
| `router_and_pool` | in two parts. The router: parent and child in one room, room for one runtime, two messages, one disposal of any kind beside evictions. The pool: eight requests of three rooms, three nested; 4 places, 2 per room, 4 waiting, 2 reserved | one owned runtime per session within the limit, teardowns that are complete or rejected at the start, an end to every message and disposal; limits, exact counters, work conservation, order within a room, and that nested turns are served though no ordinary lease is ever released |
| `router_kill_stuck` | the router alone, as above | a statement of the repository the code does not keep (below) |
| `reminders_rebind` | one run of a loop, one mishap | a statement of the repository the code does not keep (below) |

`router_and_pool` and `tracked_runs` check two modules each on an instance of its own. The two share no variable, and `part`,
chosen at the start, says which of them moves, so every behaviour is one of one module beside an idle other.

Bounds. In the pool of `router_and_pool` all reserves are active (a place of the pool, of the room, of the wait queue), each
limit can be hit, and three rooms make a rotation that matters. With one pool in the `Map` every second
provider meets a full registry and every release may remove the pool. A queue of one message is full with one waiting
and one in hand; one fallback gives the first, the last and the failed model. Two processes with two
attempts make a stale owner beside a new one, and the last attempt of both; the pending map of one
makes recovery wait for a place. One run is enough for the run registry in so far as its operations touch
one run each, apart from notifications and recovery, which treat each run of a set alike; the proofs
cover every set of runs, and two runs are beyond TLC. Three ends of a process cover one while the
run executes, one between two writes, and one of the process that recovered. Two commands are a
predecessor and its successor, or two sessions that compete for one dispatch; one mishap is any one
crash, lost answer or early lapse, and the proofs cover every number. Single runs beyond the listed ones, with the same
properties: two mishaps with one session (631,186 states) and three commands (5.8 million, safety only). In
the router, room for one runtime makes every second cold start evict, and one disposal at a time beside the
evictions gives two disposals of one id; two at once and sessions in rooms of their own were checked as well. With room for one runtime no teardown finds two; three sessions
in a chain with room for two runtimes and one message (59 thousand states, with liveness) or two (5.0 million,
safety) were checked beside it, and the proofs cover every number of runtimes. Adapter errors
outside a turn (`IdleErrors`) come in `session_lifecycle`; `session_silent_drop` is without them, as the failure of a
compaction is enough. Two runs give one group or two, with the run that is still going in front; the mishap is a
failed turn, a context without room (which may then recur), a refusal, a withdrawal, an abort, a reset, a rebind, a
teardown or a crash. The two invariants were also checked with two deliveries awaiting the session
(1.6 million states) and with two turns (3.3 million).

Deadlock is not checked: a system whose work is done and whose bounds are used up may stop. The constants `Handovers`, `Ends`, `Lapses` and `Mishaps` bound what is unbounded in
reality.

`Symmetry` is used only in the safety run `output_delivery`.

### Fairness

* Pool: for `NestedServed` only nested leases are released in the end; for `EveryWaiterServed` all are.
  Leases are released in `finally` blocks of turns, and turns have deadlines.
* Session: what is awaited settles and a due microtask runs. Nothing is assumed of callers or aborts.
* Output queue: a live process goes on, its timers fire, time passes, a place whose process ended gets
  another process. A delivery may fail every time, and producers need not come back. A claim of
  a process that is gone lapses; one of a live process need not.

* Provider pools: a promise that is settled is seen, and leases are released, as for the pool.
* Message commands: the pump polls, dispatches and storage calls come back, turns end, outputs are
  ingested (what `output_drain` shows), a lease nobody renews runs out, and a process is started again. Nobody
  has to admit, clear or reconcile. A dispatch may fail every time.
* Reminders: microtasks run, the session opens or refuses, turns, drains and teardowns end. No user, tool or run
  need do anything.
* Router: continuations run, adapters answer, deadlines pass. Turns need not end, and nobody has to
  send or dispose of anything.

### Statements the code does not keep

1. `run_second_process`: a process that opens the registry while another executes a run marks
   that run failed, because recovery only respects claims of its own, freshly drawn, worker id; the late
   completion then changes the status of a run that had ended.
2. `commands_cleared`: `/clear` takes a message out of the runtime's queue without a terminal output, so its
   durable command stays `session_queue`, renewed by the dispatcher, and blocks its session.
3. `router_kill_stuck`: a cold start of the child evicts the parent's runtime for room, a kill of the parent waits for
   that eviction, and the eviction is forced out at its deadline: the kill fails and leaves its sessions quiescing.
4. `session_silent_drop`: a compaction that fails in the Codex adapter leaves `activeMessageFailed` up although no message
   is active (`agent-runtime/routed-session.ts:999`); when the preflight of the next message throws, that message ends with
   no event at all. What holds instead is `LeavesAnswered`, in `session_lifecycle`: this is the only way out without an answer.
5. `reminders_rebind`: a run that ends while its session is being rebound is acknowledged for good by
   `handleTerminalRunReminder` (`core/session-router.ts:3233`), because a rebind makes the session quiescent as a
   teardown does. Its agent is never told. What holds instead is `EventuallyTold`.

The findings in `PROJECT.json` quote the lines. More behaviours are known and have no run:

* A message is accepted during a fork, clone or switch when an older read of fork candidates is still outstanding; it
  waits until the operation is over.
* `kill()` reports a message interrupted that has not started and does start afterwards.
* A reminder that is due while its session is being rebound is dropped until the next change of state.
* The mark that a run was notified is stored before the reminder has its turn. When the process ends in
  between, the next one does not tell of that run before the end of a user's turn (`cutShort` in `EventuallyTold`).

## Proofs

`FairCapacityPoolProofs` proves, for every set of rooms and requests and every limit allowed by
`PoolAssumption` (positive limits, fewer reserved places than places):

* `Invariance`: `PoolSpec => []PoolInv(pool)`
* `TypeCorrect` for `PoolTypeOK`, and `AccountsExact` and `CapacityKept` for `AccountsMatch` and `CapacityRespected`
* `PlacesNeverIdle` for `WorkConserving`, and `NoOvertaking` for the action property `OlderFirst`; `router_and_pool`
  checks the last four.

None of them is inductive alone. That a decrement keeps a counter in `Nat` needs the counter
to be the size of the set that loses an element; that a grant keeps the limits needs the same; and
that `drain` finds what it takes out needs the queues sorted by room, without repetition, with the
`Map` holding exactly the rooms with waiters. `PoolInv` is the conjunction. The proof goes from
sequences (removing one entry, appending one) over the effect of one grant (`GrantStep`) and the drain
(`DrainKeeps`) to one step per operation (`StepKeeps`). The request set may be infinite;
only the sets held and waiting are finite, which is part of the invariant. That no place stays idle is
an argument about how much one operation frees: a release gives back a place of one room, which can serve one request
of this room that only its room held back, and an ordinary or a nested place, which can serve one more. The two turns
of `DrainFrom` use up both, so the third finds nobody. `OlderFirst` rests on this: a cancellation may grant
nothing, and then the queue it shortens was not overtaken.

The same module proves of `RuntimeCapacity`, for every set of providers, every finite set of callers and every limit
(`CapacityAssumption` and `PoolAssumption`): `RegistryInvariance` and from it `RegistryKept` (`RegistrySound`). It
extends both specifications, which share `PoolRecords`, so a lemma about one turn of `drain` serves both; that is why the
formulas of both have names of their own (`PoolInit`, `RegistryInit`). `CapacityAssumption` says that there are
finitely many callers and that `None` is no pool object; `provider_pools` evaluates it. `RegistryInv` has four parts:

* `RegistryTyped`: types, and a caller refers to an object exactly while it is in `acquireProvider` or holds a lease.
* `PoolsHold`: `PoolInv` of every object, those that have left the `Map` included.
* `PartiesKnown`: whoever waits or holds a lease at an object refers to it, and at the right stage. This is why an object
  nobody refers to is empty, and its name free for a new pool; `SlotLeft` shows by counting that there is one.
* `MapExact`: until the registry closes, who is at an object is at one of the `Map`, and an object of the `Map` has somebody
  at it or a refused caller that has yet to look at it. The limits of a provider follow: all its leases are at one pool.

`RoutedSessionProofs` proves, for every set of messages, every queue limit and every number of fallbacks, all the safety
properties of `session_lifecycle`: `TypeCorrect` (`TypeOK`), `OneVerdict` (`FinishedXorError`), `TurnsUndisturbed`
(`TurnUndisturbed`), `MessagesAnswered` (`LeavesAnswered`), `WithdrawnStaysOut` (`WithdrawnNeverStarts`), `DisposedSilence`
(`DisposedStaysSilent`), and `ActsAsMailbox`: every behaviour of the session is one of `SerialMailbox!Spec`, the
safety part of what `ImplementsMailbox` says. None has a hypothesis on when the adapter reports errors. The invariant `SessionInv` has these parts, each of which some property needs:

* `QueueFits`: what is queued is accepted, there once, and not in hand; one reminder and `MaxQueue` others at most. With
  one item in hand, this is the mailbox.
* `TurnFits`: a turn is in hand only while the drain runs.
* `IdentityFits`, `DisposalFits`: an identity operation has the session to itself, an idle session has an empty
  queue unless one holds it back, and a disposal is done when the drain is over.
* `Unreported`, `HandReported`: nothing was reported of what waits, and what was reported of the message in hand tells
  what has happened to it (failed, aborted, silent). Without these, that nothing is reported twice is not inductive.

Some forty actions change the session in few ways, so steps are first sorted into shapes (`StepShapes`: the queue
grows, is filtered, gives its head to a turn; the turn moves, ends; only the rest changes), and each property
is proved once per shape. That a shape is a step of the mailbox is `StepIsMailboxStep`, under the invariant.

`RunRegistryProofs` proves, for every set of runs, with `Nobody` and `NoRun` different from
what they stand beside (`JobAssumption`, `RunRecordAssumption`):

* for every set of processes, `TypeCorrect` (`TypeOK`) and `CancellationWaits` (`CancelledIsOver`);
* for one process that ends and starts again, `MemoryFollowsStore` (`MemoryIsStored`), `RunsAreAttended`
  (`RunningIsExecuted`), `JobsEndWithRuns` (`JobEndsWithRun`) and `EndsAreFinal` (`TerminalFinal`).

The hypothesis `Process = {g}` of the last four is needed: `run_second_process` refutes `TerminalFinal`
with two. That a run is only cancelled when nothing executes it follows from `ExecutingIsLive`: what
is executed is in memory, as running. The other four need `RegistryInv`, which says what holds
*between* the two writes of an operation: memory and store agree except for the run whose row a
cancellation still owes, and that run still has a running row and no live job (`HalfCancelled`); a
process that is gone leaves no claim, so the next one recovers all that runs
(`EmptyWhenDown`); what runs is executed or about to be cancelled (`Attended`); and a job that was not
cut off is of a run that runs or is to be settled next, with its claim in the hands of the process
(`JobsHeld`). Operations that keep the status of every run are proved once, through the relation `Rewrites`,
and those that end a run through `EndsRun`.

`MessageCommandsProofs` proves, for every set of commands and sessions, every limit and every number of
mishaps allowed by `CommandAssumption`: `TypesCorrect` (`TypeOK`), `HandedOnOnce` (`DispatchedOnce`), `AnswersTrue`
(`AnswerIsTrue`), `DispatchInOrder` (`FifoDispatch`) and `SettledForGood` (`SettledFinal`). They follow from
`CommandInv`, whose parts are:

* `Handover(c)`: the number of dispatches is the token of the row; a row that is not handed over, or whose current dispatch
  has only claimed it, has not been emitted; none is emitted twice.
* `Touch(c)`: a command that is not handed over is untouched by the runtime and has no dispatch in hand; at most one
  dispatch is in hand, and while it is the runtime has not seen the message; a runtime that has not seen it has left
  nothing in log and outbox.
* `InOrder`: commands are admitted in the order of their numbers.
* `Answers(c)`: a row that was failed as never run is untouched; unless an operator decided, a settled state is in the log
  or its command is untouched.
* `ClearedBefore(c)`: a claimed command stands behind settled ones only.

None of the properties
is inductive alone: a late dispatch is harmless only because its token is older than the row's or its row is
already out of its hands, which is `Handover`.

`SessionRouterProofs` proves, for every finite set of sessions, callers and disposals and every limit
(`RouterAssumption`): `TypeCorrect` (`TypeOK`), `OwnedAlways` (`RuntimesOwned`) and the action property `NothingSurvives`
(`TeardownTakesAll`): a teardown ends with nothing left of its sessions, or is rejected by a disposal it waited for. `RouterInv` says:

* `Stands(i)`: a session has one runtime in the hands of its cold start and none in the `Map`, or the one in the `Map` only;
  all other names of it are of runtimes that are gone.
* `JobsFit`: a disposal holds no runtime that is in the hands of a cold start, one per session, and what it began to
  dispose of never comes back to use.
* `Evictions`, `CallersFit`: a cold start evicts exactly while its job is under way, and a caller that was given a runtime was given one of its session.
* the number of runtimes, counting starts that have their place already, is at most `MaxRuntimes`.

`TeardownInv` adds, for each job, that what it has to leave nothing of is registered or awaited before it gathers, and in its
hands afterwards (`Accounted`), and that the disposal of the router takes every session there is. A new runtime
needs a name nobody refers to; `NewName` shows by counting that there always is one among `Generation`.
The search for the proof corrected that bound, and the case of a caller whose start succeeded after its runtime was
taken out of the `Map` again.

`RunRemindersProofs` proves, for every set of runs and all bounds: `NoStaleNews` (`RemindersAreCurrent`) and
`NewsOnItsWay` (`ReservationsCarried`). `ReminderInv` is `Steady`, what every part of a handler keeps, and `Current`, which holds between handlers only. `Steady` says that the session
has one reminder queued at most, that what its messages say and what deliveries are about to tell is of runs that exist (`Sayings`,
`Telling`), that a reservation has a carrier (`Carried`), and that of a run under way only its own generation wants to hear. As the handlers are functions on
the state, the proof is about functions: a few relations between states (`Drops`, `Hushes` and others) keep `Steady`, and each part
of a handler is in one of them. `Current` fails inside a handler and is restored by its `Refresh` or `Invalidate`,
which is why the code calls them where it does.

`OutputPersistenceProofs` proves, for every set of processes, every finite set of outputs and every number of hand-overs,
ends and lapses allowed by `OutputAssumption` and `JobAssumption`, all the properties of `output_delivery`: `TypeCorrect`
(`TypeOK`), `NothingIsLost` (`NothingLost`), `CheckpointsAreTrue` (`CheckpointsTrue`), `RepeatsOnlyCut`
(`RepeatedOnlyIfCut`), and the action properties `ProgressIsKept` (`ProgressKept`) and `OwnersSettle` (`OnlyOwnerSettles`).
The only assumption besides those on numbers is that `Nobody` is no process. `OutputInv` says:

* `RowFits`: a row is owed to a producer and its stage is true; an output that was handed over and has neither a row nor a
  dead letter is in history, stream and receipts.
* `Written`: the phase of a delivery tells which projections have been written, which is what a checkpoint may claim.
* `Claims`: a delivery that was not cut off holds its claim until its receipt, and a row is never past the stage of
  the delivery that holds its claim. So whoever else runs on beside the owner was cut off, and the stale owner of a lapsed
  claim cannot bring a checkpoint back.
* `SentFits`, `AtReceipt`: what was sent without a receipt is at its receipt still, unless the delivery was cut off. This is
  what makes `RepeatedOnlyIfCut` inductive: a second send without a cut would need two owners of one claim.

A handler of the queue may begin several attempts and move several rows, in loops over the pending map and over the rows of the
store. `After(p, s)` is what all of them may make of the state: rows under a claim stay, others may be claimed for `p` or
buried, an attempt goes on as it is or begins under a fresh claim. It is closed under composition (`GoingOn`), every part of a
handler is in it, and it keeps what fits (`Handled`). The loops are recursive functions on sets of keys (`ForEach`);
`FlushLoops` and `PumpLoops` show that they stay where their steps stay, by induction over the number of keys, which is where
the outputs have to be finitely many. The phases of a delivery, disposal, crash and time are proved one by one.

`SequenceLemmas` has what these proofs need of queues. `Without` is a recursive function, not `SelectSeq`, of
which the provers know nothing. Its lemmas are proved by induction over lengths in the form of a statement about sets of
numbers (`SetInduction`, from the well-foundedness of `<`), as an induction over formulas cannot be instantiated.

Model-checked only:

* liveness (`NestedServed`, `DisposalCompletes`, the fair part of `ImplementsMailbox`, `EventuallyTold`, `EveryoneAnswered`,
  `EveryWaiterServed`, `EverythingSettles`, `DrainEnds`, `Answered`): outside what the proof system does, as `ENABLED` is.

Every safety property and action property of the passing runs is proved, under the hypotheses named above.

The type invariants of `FairCapacityPool`, `RunRegistry` and `MessageCommands` are proved and in no run.

## Plan

Order of work; what is done is marked.

1. `FairCapacityPool` with proofs of its type, accounts and limits (done).
2. `SerialMailbox`, `RoutedSession` with the refinement (done).
3. `ReliabilityJobs`, `OutputPersistence` (done).
4. `RunRecords`, `RunRegistry` with proofs (done).
5. `RuntimeCapacity`, with `FairCapacityPool` over the same `PoolRecords` (done).
6. `MessageCommands` with proofs (done).
7. `SessionRouter` (done).
8. `RunReminders` over `RunRecords` (done).
9. `EventStream`: append, consumer offsets, prune. Properties: an id is never given twice; a consumer
   with a saved offset sees every retained event; prune without force keeps what a consumer has not read.
10. Proofs of the session with its refinement, the router, the reminders, and work conservation and order of the pool (done).
11. Proofs of the output queue: type, nothing lost, true checkpoints, no needless repetition, progress, owners (done).
12. Proof of `RegistrySound` of the provider pools (done).

## Not modelled

Adapters, gateways, views, traces, telemetry, plugins, configuration, MCP, previews, containers,
browser leases and the reaper are process and network I/O or presentation; `PROJECT.json` lists each with its
reason. In what is modelled, the content of messages and events, wording, metrics and logging are left out.
