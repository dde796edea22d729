----------------------------- MODULE SessionRouter -----------------------------
(***************************************************************************)
(* The ownership of live runtimes in src/core/session-router.ts: how a     *)
(* session gets its runtime (getOrCreateSession and the cold start behind  *)
(* it), how messages find it, and everything that takes it away again:     *)
(* idle timers, eviction for room, resets, rebinds, kills, deletion of a   *)
(* subtree and the shutdown of the router.                                 *)
(*                                                                         *)
(* Each of these is an async function; an action is the code between two   *)
(* awaits.  A caller is one emit() of a message, and a job one of the      *)
(* functions that dispose.  The waiting for a place among the cold starts  *)
(* is FairCapacityPool's, of which only the limits and the deadline are    *)
(* left here; what a turn does is RoutedSession's.                         *)
(***************************************************************************)
EXTENDS Integers, FiniteSets

CONSTANTS
  Id,           \* Pibo session ids
  Subtree,      \* an id and the ids of its descendants
  RoomFor,      \* the chat room of each session
  Caller,       \* concurrent messages
  Job,          \* concurrent disposals, without those for room
  Kinds,        \* the kinds of jobs that are asked for
  ColdStarts,   \* runtimes being started at once
  MaxRuntimes,  \* runtimes registered or opening at once
  None

ASSUME RouterAssumption ==
  /\ IsFiniteSet(Id) /\ IsFiniteSet(Caller) /\ IsFiniteSet(Job)
  /\ Subtree \in [Id -> SUBSET Id] /\ \A i \in Id : i \in Subtree[i]
  /\ ColdStarts \in Nat \ {0} /\ MaxRuntimes \in Nat \ {0}
  /\ None \notin Id /\ Job \cap Id = {} /\ None \notin Job

VARIABLES
  sessions,   \* the runtime registered for each id
  life,       \* what has become of each runtime
  start,      \* the stage of each id's cold start (pendingSessions)
  aborted,    \* ids whose cold start was told to abort (pendingStartAborts)
  disposing,  \* the job each id's callers wait for (disposingSessions)
  quiescing,  \* ids that take no messages (quiescingSessions)
  timer,      \* ids whose idle timer runs
  job,        \* the disposals under way
  caller,     \* the messages under way
  closing

vars == <<sessions, life, start, aborted, disposing, quiescing, timer, job, caller, closing>>

\* A cold start evicts by a job of its own, named by its id.
Task == Job \cup Id

\* The runtimes an id has one after the other.  A name is used again when
\* nobody refers to the runtime it stood for: a caller refers to one, a job to
\* one that stood when it began and to one that it found in the Map.
Generation == 1 .. 1 + Cardinality(Caller) + 2 * Cardinality(Task)
Runtime == Id \X Generation

ASSUME NobodyAssumption == None \notin Runtime

Idle == [at |-> "idle"]

Alive == {"opening", "idle", "busy", "ending"}  \* a native runtime exists

Init ==
  /\ sessions = [i \in Id |-> None]
  /\ life = [o \in Runtime |-> "none"]
  /\ start = [i \in Id |-> "none"]
  /\ aborted = {} /\ quiescing = {} /\ timer = {}
  /\ disposing = [i \in Id |-> None]
  /\ job = [k \in Task |-> Idle]
  /\ caller = [c \in Caller |-> Idle]
  /\ closing = FALSE

IdleAt(i) == sessions[i] # None /\ life[sessions[i]] = "idle"

RescheduledAlways(i) == timer \cup {i}

\* scheduleIdleSessionEvictionIfIdle(), when life and sessions have changed.
Rescheduled(i) ==
  IF sessions'[i] # None /\ life'[sessions'[i]] = "idle" THEN timer \cup {i} ELSE timer \ {i}

\* A promise that is settled resumes its awaiters before any new input comes.
Quiet == \A c \in Caller : caller[c].at # "resumed"

-----------------------------------------------------------------------------
(* Cold starts: getOrCreateSession, createRoutedSessionWithinCapacity *)

Referred(o) ==
  \/ life[o] # "none" \/ sessions[o[1]] = o
  \/ \E c \in Caller : caller[c].at = "holds" /\ caller[c].runtime = o
  \/ \E k \in Task : job[k] # Idle /\ o \in job[k].cached \cup job[k].doomed

NewRuntime(i) == CHOOSE o \in {i} \X Generation : ~Referred(o)
Starting(i) == CHOOSE o \in {i} \X Generation : life[o] \in {"starting", "opening", "ending"}

\* A caller asks for the runtime of i, in getOrCreateSession's order.
GetOrCreateSession(c, i) ==
  \/ /\ closing \/ i \in quiescing
     /\ caller' = [caller EXCEPT ![c] = Idle]
     /\ UNCHANGED <<life, start, timer>>
  \/ /\ ~closing /\ i \notin quiescing
     /\ \/ /\ disposing[i] # None
           /\ caller' = [caller EXCEPT ![c] = [at |-> "disposal", id |-> i, job |-> disposing[i]]]
           /\ UNCHANGED <<life, start, timer>>
        \/ /\ disposing[i] = None /\ sessions[i] # None
           /\ caller' = [caller EXCEPT ![c] = [at |-> "holds", id |-> i, runtime |-> sessions[i]]]
           /\ timer' = timer \ {i}
           /\ UNCHANGED <<life, start>>
        \/ /\ disposing[i] = None /\ sessions[i] = None
           /\ caller' = [caller EXCEPT ![c] = [at |-> "start", id |-> i]]
           /\ IF start[i] = "none"
              THEN /\ start' = [start EXCEPT ![i] = "waiting"]
                   /\ life' = [life EXCEPT ![NewRuntime(i)] = "starting"]
              ELSE UNCHANGED <<life, start>>
           /\ UNCHANGED timer

\* emit() of a message, up to its first await.
Send(c, i) ==
  /\ caller[c] = Idle /\ Quiet /\ ~closing /\ i \notin quiescing
  /\ GetOrCreateSession(c, i)
  /\ UNCHANGED <<sessions, aborted, disposing, quiescing, job, closing>>

\* The disposal it waited for is over; it asks again.
Resume(c) ==
  /\ caller[c].at = "resumed"
  /\ GetOrCreateSession(c, caller[c].id)
  /\ UNCHANGED <<sessions, aborted, disposing, quiescing, job, closing>>

\* emit() after that: the message enters the runtime's queue or is refused.
Deliver(c) ==
  LET i == caller[c].id
      o == caller[c].runtime
  IN /\ caller[c].at = "holds"
     /\ life' = IF i \in quiescing \/ life[o] \notin {"idle", "busy"} THEN life
                ELSE [life EXCEPT ![o] = "busy"]
     /\ caller' = [caller EXCEPT ![c] = Idle]
     /\ UNCHANGED <<sessions, start, aborted, disposing, quiescing, job, closing>>
     /\ timer' = Rescheduled(i)

\* The runtime's queue is empty again.
TurnEnds(o) ==
  /\ life[o] = "busy"
  /\ life' = [life EXCEPT ![o] = "idle"]
  /\ UNCHANGED <<sessions, start, aborted, disposing, quiescing, job, caller, closing>>
  /\ timer' = Rescheduled(o[1])

Leases == {i \in Id : start[i] \notin {"none", "waiting", "opened", "failed"}}
Creating == {i \in Id : start[i] \in {"opening", "aborting"}}
Registered == {i \in Id : sessions[i] # None}
Full == Cardinality(Registered) + Cardinality(Creating) >= MaxRuntimes

Failed(i) ==
  /\ start' = [start EXCEPT ![i] = "failed"]
  /\ life' = [life EXCEPT ![Starting(i)] = "none"]

Opening(i) ==
  /\ start' = [start EXCEPT ![i] = "opening"]
  /\ life' = [life EXCEPT ![Starting(i)] = "opening"]

\* capacity.starts gives out a lease.
Grant(i) ==
  /\ start[i] = "waiting" /\ Cardinality(Leases) < ColdStarts
  /\ \A j \in Leases : RoomFor[j] # RoomFor[i]
  /\ start' = [start EXCEPT ![i] = "leased"]
  /\ UNCHANGED <<sessions, life, aborted, disposing, quiescing, timer, job, caller, closing>>

\* The wait deadline; a full wait queue refuses in the same way.
NoDeadline(i) == FALSE

Deadline(i) ==
  /\ start[i] = "waiting" /\ Failed(i)
  /\ UNCHANGED <<sessions, aborted, disposing, quiescing, timer, job, caller, closing>>

\* emit() of an abort while no runtime is registered.
AbortStart(i) ==
  /\ sessions[i] = None /\ start[i] # "none" /\ i \notin aborted /\ Quiet /\ ~closing
  /\ aborted' = aborted \cup {i}
  /\ IF start[i] = "waiting" THEN Failed(i) ELSE UNCHANGED <<start, life>>
  /\ UNCHANGED <<sessions, disposing, quiescing, timer, job, caller, closing>>

\* What a disposal is asked to do, of which ids.
Asked(kind, ids) ==
  [at |-> "earlier", kind |-> kind, ids |-> ids, after |-> {}, pending |-> {},
   cached |-> {}, doomed |-> {}]

GatheredAtOnce(r, busy) ==
  [r EXCEPT !.at = "closing", !.pending = {},
            !.cached = {o \in Runtime : o[1] \in r.ids /\ sessions[o[1]] = o}]

\* The cold starts under way for its ids come first; then the runtimes that it
\* disposes of are known.
Gathered(r, busy) ==
  LET ids == IF r.kind = "close" THEN Id ELSE r.ids
  IN IF busy # {} THEN [r EXCEPT !.at = "pending", !.pending = busy]
     ELSE [r EXCEPT !.at = "closing", !.pending = {},
                    !.cached = {o \in Runtime : o[1] \in ids /\ sessions[o[1]] = o}]

StartingOf(ids) == {i \in ids : start[i] # "none"}

\* The start of a disposal: callers wait for it from now on (except for the
\* router's, which refuses them), and a subtree's runs are cancelled first.
\* doomed is what it must leave nothing of, noted for TeardownTakesAll.
Claim(k, r, timers) ==
  LET teardown == r.kind \in {"dispose", "kill"}
      begun == IF teardown THEN [r EXCEPT !.at = "runs"] ELSE Gathered(r, StartingOf(r.ids))
      doomed == IF teardown \/ r.kind = "close"
                THEN {o \in Runtime : o[1] \in r.ids /\ life[o] # "none"} ELSE {}
  IN /\ job' = [job EXCEPT ![k] = [begun EXCEPT !.doomed = doomed]]
     /\ disposing' = IF r.kind = "close" THEN disposing
                     ELSE [i \in Id |-> IF i \in r.ids THEN k ELSE disposing[i]]
     /\ quiescing' = IF r.kind = "reset" THEN quiescing ELSE quiescing \cup r.ids
     /\ timer' = timers \ r.ids

\* Up to the first await: the disposals that are under way for its ids come
\* first, and it does not look again when they are over.
Begin(k, r, timers) ==
  LET earlier == {disposing[i] : i \in r.ids} \ {None}
  IN IF earlier = {} THEN Claim(k, r, timers)
     ELSE /\ job' = [job EXCEPT ![k] = [r EXCEPT !.at = "earlier", !.after = earlier]]
          /\ timer' = timers
          /\ UNCHANGED <<disposing, quiescing>>

Evictable == {v \in Registered : start[v] = "none" /\ IdleAt(v)}

\* A cold start that holds a lease goes on.  A full registry makes it evict an
\* idle runtime, as the job of its id.
BeginStart(i) ==
  /\ start[i] = "leased"
  /\ \/ /\ i \in aborted \/ closing \/ i \in quiescing
        /\ Failed(i)
        /\ UNCHANGED <<disposing, quiescing, timer, job>>
     \/ /\ i \notin aborted /\ ~closing /\ i \notin quiescing
        /\ \/ /\ ~Full /\ Opening(i)
              /\ UNCHANGED <<disposing, quiescing, timer, job>>
           \/ /\ Full /\ Evictable = {} /\ Failed(i)
              /\ UNCHANGED <<disposing, quiescing, timer, job>>
           \/ /\ Full
              /\ \E v \in Evictable : Begin(i, Asked("reset", {v}), timer)
              /\ start' = [start EXCEPT ![i] = "evicting"]
              /\ UNCHANGED life
  /\ UNCHANGED <<sessions, aborted, caller, closing>>

\* The eviction is over, and room is looked for once more.
Evicted(i) ==
  /\ start[i] \in {"evicted", "refused"}
  /\ IF start[i] = "refused" \/ Full THEN Failed(i) ELSE Opening(i)
  /\ UNCHANGED <<sessions, aborted, disposing, quiescing, timer, job, caller, closing>>

\* The adapter has opened the runtime; one whose start was aborted meanwhile is
\* taken out of the Map again and disposed.
Opened(i) ==
  LET o == Starting(i)
  IN /\ start[i] = "opening"
     /\ IF i \in aborted
        THEN /\ start' = [start EXCEPT ![i] = "aborting"]
             /\ life' = [life EXCEPT ![o] = "ending"]
             /\ UNCHANGED sessions
        ELSE /\ start' = [start EXCEPT ![i] = "opened"]
             /\ life' = [life EXCEPT ![o] = "idle"]
             /\ sessions' = [sessions EXCEPT ![i] = o]
     /\ UNCHANGED <<aborted, disposing, quiescing, timer, job, caller, closing>>

\* The adapter fails, or the runtime of an aborted start is disposed.
StartEnds(i) ==
  /\ start[i] \in {"opening", "aborting"} /\ Failed(i)
  /\ UNCHANGED <<sessions, aborted, disposing, quiescing, timer, job, caller, closing>>

\* The promise of the start settles: pendingSessions forgets it, and all who
\* awaited it go on.  A runtime that was disposed of already is of no use.
Settle(i) ==
  /\ start[i] \in {"opened", "failed"}
  /\ start' = [start EXCEPT ![i] = "none"] /\ aborted' = aborted \ {i}
  /\ caller' = [c \in Caller |->
                  IF caller[c].at # "start" \/ caller[c].id # i THEN caller[c]
                  ELSE IF start[i] = "failed" \/ sessions[i] = None THEN Idle
                  ELSE [at |-> "holds", id |-> i, runtime |-> sessions[i]]]
  /\ job' = [k \in Task |->
                IF job[k].at = "pending" /\ i \in job[k].pending
                THEN Gathered(job[k], job[k].pending \ {i}) ELSE job[k]]
  /\ UNCHANGED <<sessions, life, disposing, quiescing, timer, closing>>

-----------------------------------------------------------------------------
(* Disposals *)

Free(k, kind) == k \in Job /\ job[k] = Idle /\ kind \in Kinds /\ Quiet

\* resetCachedSession(), of the sessions of a changed provider login
Reset(k, i) ==
  /\ Free(k, "reset") /\ (sessions[i] # None \/ start[i] # "none")
  /\ Begin(k, Asked("reset", {i}), timer)
  /\ UNCHANGED <<sessions, life, start, aborted, caller, closing>>

\* The idle timer fires: evictIdleSession().
IdleTimer(k, i) ==
  /\ Free(k, "idle") /\ i \in timer /\ IdleAt(i)
  /\ Begin(k, Asked("reset", {i}), timer \ {i})
  /\ UNCHANGED <<sessions, life, start, aborted, caller, closing>>

\* disposeSession()
Dispose(k, i) ==
  /\ Free(k, "dispose")
  /\ Begin(k, Asked("dispose", Subtree[i]), timer)
  /\ UNCHANGED <<sessions, life, start, aborted, caller, closing>>

\* killSession() kills the runtimes first, then disposes of the subtree.
Kill(k, i) ==
  /\ Free(k, "kill") /\ sessions[i] # None
  /\ job' = [job EXCEPT ![k] = [Asked("kill", Subtree[i]) EXCEPT !.at = "killing"]]
  /\ quiescing' = quiescing \cup Subtree[i] /\ timer' = timer \ Subtree[i]
  /\ UNCHANGED <<sessions, life, start, aborted, disposing, caller, closing>>

Killed(k) ==
  LET stopped == {i \in job[k].ids : sessions[i] # None /\ life[sessions[i]] = "busy"}
  IN /\ job[k].at = "killing"
     /\ life' = [o \in Runtime |-> IF \E i \in stopped : sessions[i] = o THEN "idle" ELSE life[o]]
     /\ Begin(k, job[k], timer \cup stopped)
     /\ UNCHANGED <<sessions, start, aborted, caller, closing>>

\* rebindSessionRuntime() of an idle session, up to the checks of the new adapter
Rebind(k, i) ==
  /\ Free(k, "rebind") /\ i \notin quiescing /\ (sessions[i] # None => life[sessions[i]] # "busy")
  /\ job' = [job EXCEPT ![k] = [Asked("rebind", {i}) EXCEPT !.at = "preflight"]]
  /\ quiescing' = quiescing \cup {i} /\ timer' = timer \ {i}
  /\ UNCHANGED <<sessions, life, start, aborted, disposing, caller, closing>>

\* ... which fail, or find nothing to reset, or something
Preflighted(k) ==
  LET cached == \E i \in job[k].ids : sessions[i] # None \/ start[i] # "none"
  IN
  /\ job[k].at = "preflight"
  /\ \/ job' = [job EXCEPT ![k].at = "failed"] /\ UNCHANGED <<disposing, quiescing, timer>>
     \/ /\ ~cached /\ job' = [job EXCEPT ![k].at = "binding"]
        /\ UNCHANGED <<disposing, quiescing, timer>>
     \/ cached /\ Begin(k, job[k], timer)
  /\ UNCHANGED <<sessions, life, start, aborted, caller, closing>>

\* disposeAll(): the capacity refuses those who wait for a cold start.
DisposeAll(k) ==
  LET ids == {i \in Id : sessions[i] # None \/ start[i] # "none"}
      waiting == {i \in Id : start[i] = "waiting"}
  IN /\ Free(k, "close") /\ ~closing /\ closing' = TRUE
     /\ start' = [i \in Id |-> IF i \in waiting THEN "failed" ELSE start[i]]
     /\ life' = [o \in Runtime |-> IF o[1] \in waiting /\ life[o] = "starting" THEN "none" ELSE life[o]]
     /\ Claim(k, Asked("close", ids), timer)
     /\ UNCHANGED <<sessions, aborted, caller>>

\* The disposals it waited for are over.
Woken(k) ==
  /\ job[k].at = "earlier" /\ job[k].after = {}
  /\ Claim(k, job[k], timer)
  /\ UNCHANGED <<sessions, life, start, aborted, caller, closing>>

\* The runs of a subtree are cancelled.
RunsCancelled(k) ==
  /\ job[k].at = "runs"
  /\ job' = [job EXCEPT ![k] = Gathered(@, StartingOf(@.ids))]
  /\ UNCHANGED <<sessions, life, start, aborted, disposing, quiescing, timer, caller, closing>>

\* The controller's sessions are closed; RoutedSession.dispose() is called.
Live(k) == {o \in job[k].cached : life[o] \in {"idle", "busy"}}

DisposeForgetting(k) ==
  /\ life' = [o \in Runtime |-> IF o \in Live(k) THEN "ending" ELSE life[o]]
  /\ sessions' = [i \in Id |-> IF sessions[i] \in job[k].cached THEN None ELSE sessions[i]]

DisposeRuntimes(k) ==
  /\ life' = [o \in Runtime |-> IF o \in Live(k) THEN "ending" ELSE life[o]]
  /\ UNCHANGED sessions

Transition(k) ==
  /\ job[k].at = "closing"
  /\ DisposeRuntimes(k)
  /\ job' = [job EXCEPT ![k].at = "disposing"]
  /\ timer' = timer \ {o[1] : o \in Live(k)}
  /\ UNCHANGED <<start, aborted, disposing, quiescing, caller, closing>>

\* The native runtime is gone.
RuntimeGone(o) ==
  /\ life[o] = "ending" /\ sessions[o[1]] = o
  /\ life' = [life EXCEPT ![o] = "none"]
  /\ UNCHANGED <<sessions, start, aborted, disposing, quiescing, timer, job, caller, closing>>

Forgotten(k) == {i \in Id : sessions[i] \in job[k].cached}

\* The disposal ends, at the latest when its deadline forces the runtimes out.
\* Then it rejects, and so do those who await it; it also does when cancelling
\* the runs, closing the controller's sessions or disposing of a runtime failed.
\* A rebind goes on to resolve and persist its binding.
Finish(k, ok) ==
  /\ job[k].at = "disposing"
  /\ ok => \A o \in job[k].cached : life[o] # "ending"
  /\ life' = [o \in Runtime |-> IF o \in job[k].cached /\ life[o] = "ending" THEN "none" ELSE life[o]]
  /\ sessions' = [i \in Id |-> IF i \in Forgotten(k) THEN None ELSE sessions[i]]
  /\ disposing' = [i \in Id |-> IF disposing[i] = k THEN None ELSE disposing[i]]
  /\ quiescing' = IF job[k].kind \in {"dispose", "kill"} THEN quiescing \ job[k].ids ELSE quiescing
  /\ job' = [t \in Task |->
       IF t = k THEN
         IF job[k].kind = "close" THEN [job[k] EXCEPT !.at = "closed"]
         ELSE IF job[k].kind = "rebind"
              THEN [job[k] EXCEPT !.at = IF ok THEN "binding" ELSE "failed"]
              ELSE Idle
       ELSE IF job[t].at = "earlier" /\ k \in job[t].after
            THEN IF ok THEN [job[t] EXCEPT !.after = @ \ {k}] ELSE [job[t] EXCEPT !.at = "failed"]
            ELSE job[t]]
  /\ caller' = [c \in Caller |->
       IF caller[c].at # "disposal" \/ caller[c].job # k THEN caller[c]
       ELSE IF ok THEN [at |-> "resumed", id |-> caller[c].id] ELSE Idle]
  /\ start' = IF k \in Id THEN [start EXCEPT ![k] = IF ok THEN "evicted" ELSE "refused"] ELSE start
  /\ UNCHANGED <<aborted, timer, closing>>

\* A job that awaited one that was rejected.
Refused(k) ==
  /\ job[k].at = "failed" /\ job[k].kind # "rebind"
  /\ job' = [job EXCEPT ![k] = Idle]
  /\ start' = IF k \in Id THEN [start EXCEPT ![k] = "refused"] ELSE start
  /\ UNCHANGED <<sessions, life, aborted, disposing, quiescing, timer, caller, closing>>

\* The finally block of rebindSessionRuntime(), once the binding is persisted or
\* something failed.
RebindEnds(k) ==
  /\ job[k].at \in {"binding", "failed"} /\ job[k].kind = "rebind"
  /\ job' = [job EXCEPT ![k] = Idle]
  /\ quiescing' = quiescing \ job[k].ids
  /\ timer' = timer \cup {i \in job[k].ids : IdleAt(i)}
  /\ UNCHANGED <<sessions, life, start, aborted, disposing, caller, closing>>

-----------------------------------------------------------------------------
Next ==
  \/ \E c \in Caller : (\E i \in Id : Send(c, i)) \/ Resume(c) \/ Deliver(c)
  \/ \E o \in Runtime : TurnEnds(o) \/ RuntimeGone(o)
  \/ \E i \in Id :
       \/ Grant(i) \/ Deadline(i) \/ AbortStart(i) \/ BeginStart(i) \/ Evicted(i)
       \/ Opened(i) \/ StartEnds(i) \/ Settle(i)
  \/ \E k \in Job, i \in Id :
       Reset(k, i) \/ IdleTimer(k, i) \/ Dispose(k, i) \/ Kill(k, i) \/ Rebind(k, i)
  \/ \E k \in Job : Killed(k) \/ Preflighted(k) \/ RebindEnds(k) \/ DisposeAll(k)
  \/ \E k \in Task :
       Woken(k) \/ RunsCancelled(k) \/ Transition(k) \/ Refused(k) \/ \E ok \in BOOLEAN : Finish(k, ok)

Spec == Init /\ [][Next]_vars

\* Continuations run, adapters answer, deadlines pass.  Turns need not end.
GoesOn ==
  /\ \A c \in Caller : WF_vars(Resume(c)) /\ WF_vars(Deliver(c))
  /\ \A i \in Id :
       /\ WF_vars(Grant(i)) /\ WF_vars(Deadline(i)) /\ WF_vars(BeginStart(i))
       /\ WF_vars(Evicted(i)) /\ WF_vars(Opened(i) \/ StartEnds(i)) /\ WF_vars(Settle(i))
  /\ \A k \in Job : WF_vars(Killed(k)) /\ WF_vars(Preflighted(k)) /\ WF_vars(RebindEnds(k))
  /\ \A k \in Task :
       /\ WF_vars(Woken(k)) /\ WF_vars(RunsCancelled(k)) /\ WF_vars(Transition(k)) /\ WF_vars(Refused(k))
       /\ WF_vars(\E ok \in BOOLEAN : Finish(k, ok))

FairSpec == Spec /\ GoesOn

-----------------------------------------------------------------------------
(* Properties *)

JobRecord ==
  [at : {"earlier", "killing", "preflight", "runs", "pending", "closing", "disposing", "binding",
        "failed", "closed"},
   kind : {"reset", "dispose", "kill", "rebind", "close"},
   ids : SUBSET Id, after : SUBSET Task, pending : SUBSET Id,
   cached : SUBSET Runtime, doomed : SUBSET Runtime]

\* Every variable holds what its declaration says; a cold start evicts exactly
\* while a job of its own is under way, and idle timers run for idle runtimes.
TypeOK ==
  /\ sessions \in [Id -> Runtime \cup {None}]
  /\ life \in [Runtime -> {"none", "starting"} \cup Alive]
  /\ aborted \in SUBSET Id /\ quiescing \in SUBSET Id /\ closing \in BOOLEAN
  /\ disposing \in [Id -> Task \cup {None}]
  /\ \A k \in Task : job[k] = Idle \/ job[k] \in JobRecord
  /\ \A i \in Id : start[i] = "evicting" <=> job[i] # Idle
  /\ \A i \in timer : IdleAt(i)

\* No session ever has two runtimes, no runtime is out of reach of those who
\* dispose of them (in the Map or in the hands of its cold start), and all of
\* them, the ones on their way out included, keep to MaxRuntimes.
RuntimesOwned ==
  LET alive == {o \in Runtime : life[o] \in Alive}
  IN /\ \A o, p \in alive : o[1] = p[1] => o = p
     /\ \A o \in alive : sessions[o[1]] = o \/ start[o[1]] \in {"opening", "aborting"}
     /\ Cardinality(alive) <= MaxRuntimes

\* A teardown (disposal of a subtree, kill, shutdown of the router) ends in one
\* of two ways.  Either a disposal that it had to wait for was rejected: then it
\* gives up and takes nothing, which router_kill_stuck shows.  Or it got past
\* those: then every runtime that its sessions had or were about to get at that
\* point is gone, even if the teardown itself reports a failure, and after the
\* router's shutdown no runtime is left.
TeardownTakesAll ==
  [][\A k \in Job :
       (job[k] # Idle /\ job[k].kind \in {"dispose", "kill", "close"}
                      /\ job'[k].at \in {"idle", "closed"} /\ job'[k] # job[k]) =>
         \/ job[k].at = "failed"
         \/ /\ \A o \in job[k].doomed : life'[o] = "none"
            /\ job[k].kind = "close" => \A o \in Runtime : life'[o] = "none"]_vars

\* Every message is delivered or refused and every disposal ends, although cold
\* starts wait for evictions and disposals wait for cold starts.
EveryoneAnswered ==
  /\ \A c \in Caller : caller[c] # Idle ~> caller[c] = Idle
  /\ \A k \in Task : job[k] # Idle ~> job[k].at \in {"idle", "closed"}

\* A session refuses messages only while a job that will lift this is under way.
QuiescenceIsLifted ==
  closing \/ \A i \in quiescing : \E k \in Job : job[k] # Idle /\ i \in job[k].ids
=============================================================================
