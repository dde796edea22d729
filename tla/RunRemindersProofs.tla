--------------------------- MODULE RunRemindersProofs ---------------------------
(* Proofs about RunReminders for every number of runs, turns and mishaps: no *)
(* turn is spent on stale news, and no news is lost on its way.              *)
EXTENDS RunReminders, SequenceLemmas

-----------------------------------------------------------------------------
(* The inductive invariant, of a state s, of what is known of the beginnings *)
(* of the runs (b) and of what was told (d) or cut off (c)                   *)

Session ==
  [up : BOOLEAN, busy : BOOLEAN, active : Messages \cup {NoMessage}, queue : Seq(Messages)]

Memo ==
  [sched : {"none", "fresh", "again"}, due : SUBSET Nat,
   calls : Seq([gen : Nat, again : BOOLEAN]), deferred : BOOLEAN,
   recovering : SUBSET (Loops \cup SUBSET RunId), warned : BOOLEAN,
   gen : Nat, quiet : {"no", "rebind", "teardown"}]

Work == [run : [RunId -> RunRecord \cup {NoRun}], session : Session, memo : Memo]

\* Only reminders tell of runs, and only reminders are known as such.
SpeaksTrue(m) ==
  /\ m.known => IsReminder(m)
  /\ ~IsReminder(m) => m.of = NoRuns

\* At rest the session has no message, and at most one reminder waits.
SessionFits(w) ==
  /\ ~w.busy => w.active = NoMessage /\ w.queue = <<>>
  /\ w.active # NoMessage => SpeaksTrue(w.active)
  /\ \A m \in Range(w.queue) : SpeaksTrue(m)
  /\ \A i, j \in DOMAIN w.queue :
       IsReminder(w.queue[i]) /\ IsReminder(w.queue[j]) => i = j

\* What is said of a run is that it runs, or how it ended.
Sayings(rec) ==
  IF ~Exists(rec) THEN {Unset} ELSE {Unset, "running", rec.status}

RunsFit(s) ==
  \A r \in RunId : (Exists(s.run[r]) /\ ~IsTerminal(s.run[r])) =>
    {s.run[r].notified, s.run[r].acked} \subseteq {Unset, "running"}

Early == {Unset, "running"}

\* Nobody is told that a run is under way once he was told how it ended.
Telling(s, d) ==
  \A r \in RunId :
    /\ d[r] \in Sayings(s.run[r])
    /\ \A m \in Active(s) :
         m.of[r] \in Sayings(s.run[r]) /\ (m.of[r] = "running" => d[r] \in Early)
    /\ \A m \in Waiting(s) :
         /\ m.of[r] \in Sayings(s.run[r])
         /\ m.of[r] = "running" => d[r] \in Early /\ \A a \in Active(s) : a.of[r] \in Early

Reserved(rec) == Needs(rec, TRUE) /\ ~Needs(rec, FALSE)

Carried(s, d, c) ==
  \A r \in RunId : (Exists(s.run[r]) /\ Reserved(s.run[r])) =>
    \/ d[r] = s.run[r].status \/ r \in c
    \/ \E m \in Waiting(s) \cup Active(s) : m.known /\ m.of[r] = s.run[r].status

\* Of a run that is under way only its own generation wants to hear.
GenerationsFit(s, b) ==
  \A r \in Wanting(s, TRUE) : ~IsTerminal(s.run[r]) => b[r].gen = s.memo.gen

Steady(s, b, d, c) ==
  /\ s \in Work /\ b \in [RunId -> [gen : Nat, origin : Origins]]
  /\ d \in [RunId -> Status \cup {Unset}] /\ c \in SUBSET RunId
  /\ SessionFits(s.session) /\ RunsFit(s) /\ Telling(s, d)
  /\ Carried(s, d, c) /\ GenerationsFit(s, b)

Current(s) ==
  \A m \in Queued(s) :
    /\ m.known /\ m.gen = s.memo.gen /\ s.memo.quiet = "no"
    /\ \E r \in Wanting(s, TRUE) : m.of[r] # Unset

ReminderInv == Steady(State, begun, told, cutShort) /\ Current(State)

-----------------------------------------------------------------------------
(* Records *)

LEMMA Statuses ==
  /\ Unset \notin Status /\ "running" \in Status /\ "running" \notin Terminal
  /\ Status = Terminal \cup {"running"} /\ Unset # "running" /\ Unset \notin Terminal
BY RunRecordAssumption DEF Status, Terminal

LEMMA WorkFields ==
  ASSUME NEW s \in Work
  PROVE  /\ s.run \in [RunId -> RunRecord \cup {NoRun}]
         /\ s.session \in Session /\ s.memo \in Memo
         /\ \A r \in RunId : Exists(s.run[r]) <=> s.run[r] \in RunRecord
         /\ Waiting(s) \subseteq Messages /\ Active(s) \subseteq Messages
         /\ s.session.queue \in Seq(Messages)
<1>1. s.run \in [RunId -> RunRecord \cup {NoRun}] /\ s.session \in Session /\ s.memo \in Memo
  BY DEF Work
<1>2. s.session.queue \in Seq(Messages) /\ s.session.active \in Messages \cup {NoMessage}
  BY <1>1 DEF Session
<1>3. Waiting(s) \subseteq Messages /\ Active(s) \subseteq Messages
  BY <1>2 DEF Waiting, Active, Range
<1>4. \A r \in RunId : Exists(s.run[r]) <=> s.run[r] \in RunRecord
  BY <1>1, RunRecordAssumption DEF Exists
<1> QED  BY <1>1, <1>2, <1>3, <1>4

LEMMA Forgetting ==
  ASSUME NEW x \in RunRecord
  PROVE  LET y == [x EXCEPT !.notified = Unset] IN
         /\ y \in RunRecord /\ y.status = x.status /\ y.policy = x.policy
         /\ y.consumed = x.consumed /\ y.acked = x.acked /\ y.notified = Unset
         /\ Needs(y, TRUE) <=> Needs(x, TRUE)
         /\ Needs(y, TRUE) => Needs(y, FALSE)
<1> DEFINE y == [x EXCEPT !.notified = Unset]
<1>1. /\ y \in RunRecord /\ y.status = x.status /\ y.policy = x.policy
      /\ y.consumed = x.consumed /\ y.acked = x.acked /\ y.notified = Unset
  BY DEF RunRecord
<1>2. x.status # Unset
  BY RunRecordAssumption DEF RunRecord
<1> HIDE DEF y
<1> QED  BY <1>1, <1>2 DEF Needs, y

\* y is what releaseNotification leaves of the records x, of what S tells of.
Frees(x, y, S) ==
  \A r \in RunId :
    IF Exists(x[r]) /\ x[r].notified = x[r].status /\ \E m \in S : m.of[r] = x[r].status
    THEN y[r] = [x[r] EXCEPT !.notified = Unset] ELSE y[r] = x[r]

LEMMA ReleaseFrees ==
  ASSUME NEW s \in Work, NEW S
  PROVE  LET t == Release(s, S) IN
         /\ t \in Work /\ t.session = s.session /\ t.memo = s.memo
         /\ Frees(s.run, t.run, S)
<1> DEFINE t == Release(s, S)
           f == [r \in RunId |->
                   IF Exists(s.run[r]) /\ \E m \in S : m.of[r] = s.run[r].status
                   THEN Released(s.run[r], s.run[r].status) ELSE s.run[r]]
<1>1. s.run \in [RunId -> RunRecord \cup {NoRun}] /\ s = [s EXCEPT !.run = s.run]
  BY DEF Work
<1>2. t = [s EXCEPT !.run = f]
  BY DEF Release
<1>3. ASSUME NEW r \in RunId
      PROVE  /\ f[r] \in RunRecord \cup {NoRun}
             /\ IF Exists(s.run[r]) /\ s.run[r].notified = s.run[r].status
                     /\ \E m \in S : m.of[r] = s.run[r].status
                THEN f[r] = [s.run[r] EXCEPT !.notified = Unset] ELSE f[r] = s.run[r]
  <2>1. s.run[r] \in RunRecord \cup {NoRun}
    BY <1>1
  <2>2. Exists(s.run[r]) => [s.run[r] EXCEPT !.notified = Unset] \in RunRecord
    BY <2>1, Forgetting DEF Exists
  <2>3. f[r] = IF Exists(s.run[r]) /\ \E m \in S : m.of[r] = s.run[r].status
               THEN Released(s.run[r], s.run[r].status) ELSE s.run[r]
    OBVIOUS
  <2> HIDE DEF f
  <2> QED  BY <2>1, <2>2, <2>3 DEF Released
<1>4. f \in [RunId -> RunRecord \cup {NoRun}]
  BY <1>3
<1>5. Frees(s.run, f, S)
  <2> HIDE DEF f
  <2> QED  BY <1>3 DEF Frees
<1> HIDE DEF f, t
<1>6. t \in Work /\ t.session = s.session /\ t.memo = s.memo /\ t.run = f
  BY <1>2, <1>4 DEF Work
<1> QED  BY <1>5, <1>6 DEF t

LEMMA ScheduleKeeps ==
  ASSUME NEW s \in Work, NEW again \in BOOLEAN
  PROVE  LET t == Schedule(s, again) IN
         /\ t \in Work /\ t.run = s.run /\ t.session = s.session
         /\ t.memo.gen = s.memo.gen /\ t.memo.quiet = s.memo.quiet
<1> DEFINE x == IF again \/ s.memo.sched = "again" THEN "again" ELSE "fresh"
           D == s.memo.due \cup {s.memo.gen}
           u == [s EXCEPT !.memo = [s.memo EXCEPT !.warned = FALSE]]
           v == [s EXCEPT !.memo = [s.memo EXCEPT !.sched = x, !.due = D]]
<1>1. s.memo \in Memo
  BY DEF Work
<1>2. /\ [s.memo EXCEPT !.warned = FALSE] \in Memo
      /\ [s.memo EXCEPT !.warned = FALSE].gen = s.memo.gen
      /\ [s.memo EXCEPT !.warned = FALSE].quiet = s.memo.quiet
  BY <1>1 DEF Memo
<1>3. x \in {"none", "fresh", "again"} /\ D \in SUBSET Nat
  BY <1>1 DEF Memo
<1> HIDE DEF x, D
<1>4. /\ [s.memo EXCEPT !.sched = x, !.due = D] \in Memo
      /\ [s.memo EXCEPT !.sched = x, !.due = D].gen = s.memo.gen
      /\ [s.memo EXCEPT !.sched = x, !.due = D].quiet = s.memo.quiet
  BY <1>1, <1>3 DEF Memo
<1>5. /\ u \in Work /\ u.run = s.run /\ u.session = s.session
      /\ u.memo.gen = s.memo.gen /\ u.memo.quiet = s.memo.quiet
  BY <1>2 DEF Work
<1>6. /\ v \in Work /\ v.run = s.run /\ v.session = s.session
      /\ v.memo.gen = s.memo.gen /\ v.memo.quiet = s.memo.quiet
  BY <1>4 DEF Work
<1>7. Schedule(s, again) \in {s, u, v}
  BY DEF Schedule, x, D
<1> HIDE DEF u, v
<1> QED  BY <1>5, <1>6, <1>7

LEMMA NotifyKeeps ==
  ASSUME NEW s \in Work
  PROVE  LET t == Notify(s) IN
         /\ t \in Work /\ t.run = s.run /\ t.session = s.session
         /\ t.memo.gen = s.memo.gen /\ t.memo.quiet = s.memo.quiet
BY ScheduleKeeps DEF Notify

-----------------------------------------------------------------------------
(* Messages go, and what they carried is released *)

Gone(s, t) == (Waiting(s) \cup Active(s)) \ (Waiting(t) \cup Active(t))

Drops(s, t) ==
  /\ t \in Work /\ t.memo.gen = s.memo.gen
  /\ SessionFits(t.session) /\ Waiting(t) \subseteq Waiting(s) /\ Active(t) \subseteq Active(s)
  /\ \A r \in RunId :
       \/ Exists(s.run[r]) /\ t.run[r] = [s.run[r] EXCEPT !.notified = Unset]
       \/ /\ t.run[r] = s.run[r]
          /\ \A m \in Gone(s, t) : Exists(s.run[r]) /\ Reserved(s.run[r]) /\ m.known
                                     => m.of[r] # s.run[r].status

LEMMA DropsKeep ==
  ASSUME NEW s, NEW t, NEW b, NEW d, NEW c, Steady(s, b, d, c), Drops(s, t)
  PROVE  /\ Steady(t, b, d, c) /\ Wanting(t, TRUE) = Wanting(s, TRUE)
         /\ Current(s) /\ (t.memo.quiet \in {s.memo.quiet, "no"} \/ Queued(t) = {})
              => Current(t)
<1>1. /\ s \in Work /\ t \in Work /\ t.memo.gen = s.memo.gen
      /\ SessionFits(t.session) /\ Waiting(t) \subseteq Waiting(s)
      /\ Active(t) \subseteq Active(s)
  BY DEF Steady, Drops
<1>2. ASSUME NEW r \in RunId
      PROVE  /\ Exists(t.run[r]) <=> Exists(s.run[r])
             /\ Exists(s.run[r]) =>
                  /\ t.run[r].status = s.run[r].status /\ t.run[r].acked = s.run[r].acked
                  /\ t.run[r].notified \in {Unset, s.run[r].notified}
                  /\ Needs(t.run[r], TRUE) <=> Needs(s.run[r], TRUE)
                  /\ Reserved(t.run[r]) =>
                       /\ t.run[r] = s.run[r]
                       /\ \A m \in Gone(s, t) : m.known => m.of[r] # s.run[r].status
  <2>1. CASE ~Exists(s.run[r])
    BY <2>1 DEF Drops
  <2>2. CASE Exists(s.run[r]) /\ t.run[r] = [s.run[r] EXCEPT !.notified = Unset]
    <3>1. s.run[r] \in RunRecord
      BY <1>1, <2>2, WorkFields
    <3>2. t.run[r] \in RunRecord /\ Exists(t.run[r])
      BY <2>2, <3>1, Forgetting, RunRecordAssumption DEF Exists
    <3> QED  BY <2>2, <3>1, <3>2, Forgetting DEF Reserved
  <2>3. CASE /\ Exists(s.run[r]) /\ t.run[r] = s.run[r]
             /\ \A m \in Gone(s, t) : Exists(s.run[r]) /\ Reserved(s.run[r]) /\ m.known
                                        => m.of[r] # s.run[r].status
    BY <2>3
  <2> QED  BY <2>1, <2>2, <2>3 DEF Drops
<1>3. Wanting(t, TRUE) = Wanting(s, TRUE)
  BY <1>2 DEF Wanting
<1>4. RunsFit(t)
  BY <1>2 DEF RunsFit, Steady, IsTerminal
<1>5. \A r \in RunId : Sayings(t.run[r]) = Sayings(s.run[r])
  BY <1>2 DEF Sayings
<1>6. Telling(t, d)
  BY <1>1, <1>5 DEF Telling, Steady
<1>7. Carried(t, d, c)
  <2> SUFFICES ASSUME NEW r \in RunId, Exists(t.run[r]), Reserved(t.run[r]),
                      d[r] # t.run[r].status, r \notin c
               PROVE  \E m \in Waiting(t) \cup Active(t) :
                        m.known /\ m.of[r] = t.run[r].status
    BY DEF Carried
  <2>1. t.run[r] = s.run[r] /\ \A m \in Gone(s, t) : m.known => m.of[r] # s.run[r].status
    BY <1>2
  <2>2. PICK m \in Waiting(s) \cup Active(s) : m.known /\ m.of[r] = s.run[r].status
    BY <2>1 DEF Steady, Carried
  <2> QED  BY <2>1, <2>2 DEF Gone
<1>8. GenerationsFit(t, b)
  BY <1>1, <1>2, <1>3 DEF GenerationsFit, Steady, IsTerminal, Wanting
<1>9. Current(s) /\ (t.memo.quiet \in {s.memo.quiet, "no"} \/ Queued(t) = {}) => Current(t)
  BY <1>1, <1>3 DEF Current, Queued
<1> QED  BY <1>1, <1>3, <1>4, <1>6, <1>7, <1>8, <1>9 DEF Steady

\* What goes is released.
LEMMA FreedDrops ==
  ASSUME NEW s \in Work, NEW t \in Work, NEW S, t.memo.gen = s.memo.gen,
         SessionFits(t.session), Waiting(t) \subseteq Waiting(s),
         Active(t) \subseteq Active(s),
         {m \in Gone(s, t) : m.known} \subseteq S, Frees(s.run, t.run, S)
  PROVE  Drops(s, t)
<1>1. ASSUME NEW r \in RunId
      PROVE  \/ Exists(s.run[r]) /\ t.run[r] = [s.run[r] EXCEPT !.notified = Unset]
             \/ /\ t.run[r] = s.run[r]
                /\ \A m \in Gone(s, t) : Exists(s.run[r]) /\ Reserved(s.run[r]) /\ m.known
                                           => m.of[r] # s.run[r].status
  <2>1. Reserved(s.run[r]) => s.run[r].notified = s.run[r].status
    BY DEF Reserved, Needs
  <2> QED  BY <2>1 DEF Frees
<1> QED  BY <1>1 DEF Drops

\* Where no message goes and no record changes, nothing is lost.
LEMMA SameDrops ==
  ASSUME NEW s \in Work, NEW t \in Work, t.run = s.run, t.memo.gen = s.memo.gen,
         SessionFits(t.session), Waiting(t) = Waiting(s), Active(t) = Active(s)
  PROVE  Drops(s, t)
BY DEF Drops, Gone

LEMMA SameSessionDrops ==
  ASSUME NEW b, NEW d, NEW c, NEW s, Steady(s, b, d, c), NEW t \in Work,
         t.run = s.run, t.memo.gen = s.memo.gen, t.session = s.session
  PROVE  Drops(s, t)
BY SameDrops DEF Waiting, Active, Steady

-----------------------------------------------------------------------------
(* Parts of a state are replaced *)

LEMMA Replacing ==
  ASSUME NEW s \in Work
  PROVE  /\ \A x \in Memo : LET t == [s EXCEPT !.memo = x] IN
              t \in Work /\ t.run = s.run /\ t.session = s.session /\ t.memo = x
         /\ \A x \in Session : LET t == [s EXCEPT !.session = x] IN
              t \in Work /\ t.run = s.run /\ t.session = x /\ t.memo = s.memo
         /\ \A x \in [RunId -> RunRecord \cup {NoRun}] : LET t == [s EXCEPT !.run = x] IN
              t \in Work /\ t.run = x /\ t.session = s.session /\ t.memo = s.memo
BY DEF Work

LEMMA Becoming ==
  ASSUME NEW t \in Work, Become(t)
  PROVE  State' = t
BY DEF Become, State, Work

\* removeQueuedMessages leaves no reminder queued, and nothing else changes but
\* what those reminders had reserved.
LEMMA RemoveQueuedFields ==
  ASSUME NEW s \in Work, SessionFits(s.session)
  PROVE  LET t == RemoveQueued(s) IN
         /\ t \in Work /\ Queued(t) = {} /\ SessionFits(t.session)
         /\ Waiting(t) = Waiting(s) \ Queued(s) /\ Active(t) = Active(s)
         /\ t.session.busy = s.session.busy /\ t.session.up = s.session.up
         /\ t.memo.gen = s.memo.gen /\ t.memo.quiet = s.memo.quiet
         /\ Frees(s.run, t.run, {m \in Queued(s) : m.known})
<1>1. CASE Queued(s) = {}
  BY <1>1 DEF RemoveQueued, Frees
<1>2. CASE Queued(s) # {}
  <2> DEFINE q == Without(s.session.queue, Queued(s))
             x == [s.session EXCEPT !.queue = q]
             u == [s EXCEPT !.session = x]
             S == {m \in Queued(s) : m.known}
             v == Release(u, S)
  <2>1. s.session \in Session /\ s.session.queue \in Seq(Messages)
    BY WorkFields
  <2>2. q \in Seq(Messages) /\ Range(q) = Waiting(s) \ Queued(s)
    BY <2>1, WithoutRange DEF Waiting
  <2> HIDE DEF q
  <2>3. /\ x \in Session /\ x.queue = q /\ x.active = s.session.active
        /\ x.busy = s.session.busy /\ x.up = s.session.up
    BY <2>1, <2>2 DEF Session
  <2> HIDE DEF x
  <2>4. u \in Work /\ u.run = s.run /\ u.session = x /\ u.memo = s.memo
    BY <2>3, Replacing
  <2>5. RemoveQueued(s) = Notify(v)
    BY <1>2 DEF RemoveQueued, Interrupt, u, x, q, v
  <2> HIDE DEF u
  <2>6. v \in Work /\ v.session = x /\ v.memo = s.memo /\ Frees(s.run, v.run, S)
    BY <2>4, ReleaseFrees
  <2> HIDE DEF v, S
  <2>7. /\ Notify(v) \in Work /\ Notify(v).run = v.run /\ Notify(v).session = x
        /\ Notify(v).memo.gen = s.memo.gen /\ Notify(v).memo.quiet = s.memo.quiet
    BY <2>6, NotifyKeeps
  <2>8. \A m \in Range(q) : m \in Waiting(s) /\ ~IsReminder(m)
    BY <2>2 DEF Queued
  <2>9. s.session.busy
    <3>1. SUFFICES ASSUME s.session.queue = <<>> PROVE FALSE
      BY DEF SessionFits
    <3> QED  BY <3>1, <1>2 DEF Queued, Waiting, Range
  <2>10. SessionFits(x)
    <3>1. \A i \in DOMAIN q : q[i] \in Range(q)
      BY DEF Range
    <3> QED  BY <2>3, <2>8, <2>9, <3>1 DEF SessionFits, Waiting
  <2>11. Waiting(Notify(v)) = Waiting(s) \ Queued(s) /\ Active(Notify(v)) = Active(s)
    BY <2>2, <2>3, <2>7 DEF Waiting, Active
  <2>12. Queued(Notify(v)) = {}
    BY <2>11 DEF Queued
  <2> QED
    BY <2>3, <2>5, <2>6, <2>7, <2>10, <2>11, <2>12 DEF S
<1> QED  BY <1>1, <1>2

LEMMA RemoveQueuedDrops ==
  ASSUME NEW b, NEW d, NEW c, NEW s, Steady(s, b, d, c)
  PROVE  LET t == RemoveQueued(s) IN
         /\ Drops(s, t) /\ Queued(t) = {} /\ t.memo.quiet = s.memo.quiet
         /\ t.session.busy = s.session.busy /\ t.session.up = s.session.up
<1> DEFINE t == RemoveQueued(s)
           S == {m \in Queued(s) : m.known}
<1>1. s \in Work /\ SessionFits(s.session)
  BY DEF Steady
<1>2. /\ t \in Work /\ Queued(t) = {} /\ SessionFits(t.session)
      /\ Waiting(t) = Waiting(s) \ Queued(s) /\ Active(t) = Active(s)
      /\ t.session.busy = s.session.busy /\ t.session.up = s.session.up
      /\ t.memo.gen = s.memo.gen /\ t.memo.quiet = s.memo.quiet
      /\ Frees(s.run, t.run, S)
  BY <1>1, RemoveQueuedFields
<1> HIDE DEF t
<1>3. {m \in Gone(s, t) : m.known} \subseteq S
  BY <1>2 DEF Gone
<1> HIDE DEF S
<1>4. Drops(s, t)
  BY <1>1, <1>2, <1>3, FreedDrops
<1> QED  BY <1>2, <1>4 DEF t

-----------------------------------------------------------------------------
(* Runs that nobody wants to hear of any more *)

Hushed(x, y) ==
  /\ y \in RunRecord /\ ~Needs(y, TRUE) /\ y.notified = x.notified
  /\ y.status = x.status \/ (x.status = "running" /\ y.status \in Terminal)
  /\ ~IsTerminal(y) => y.acked \in {x.acked, "running"}

LEMMA Hushing ==
  ASSUME NEW x \in RunRecord
  PROVE  /\ Hushed(x, Suppressed(x)) /\ Hushed(x, Acknowledged(x))
         /\ Hushed(x, Cancelled(x)) /\ (IsTerminal(x) => Hushed(x, ReadBy(x)))
         /\ ~IsTerminal(x) => Hushed(x, Suppressed(Ended(x, "completed")))
<1>1. Hushed(x, Suppressed(x))
  BY DEF Hushed, Suppressed, RunRecord, Needs, IsTerminal, Status
<1>2. Hushed(x, Acknowledged(x))
  BY DEF Hushed, Acknowledged, RunRecord, Needs, IsTerminal, Status
<1>3. Hushed(x, Cancelled(x))
  BY DEF Hushed, Cancelled, RunRecord, Needs, IsTerminal, Status, Terminal
<1>4. IsTerminal(x) => Hushed(x, ReadBy(x))
  BY DEF Hushed, ReadBy, RunRecord, Needs, IsTerminal, Status
<1>5. ~IsTerminal(x) => Hushed(x, Suppressed(Ended(x, "completed")))
  BY DEF Hushed, Suppressed, Ended, RunRecord, Needs, IsTerminal, Status, Terminal
<1> QED  BY <1>1, <1>2, <1>3, <1>4, <1>5

Hushes(s, t) ==
  /\ t \in Work /\ t.memo.gen = s.memo.gen /\ t.session = s.session
  /\ \A r \in RunId : \/ t.run[r] = s.run[r]
                      \/ Exists(s.run[r]) /\ Hushed(s.run[r], t.run[r])

LEMMA HushesKeep ==
  ASSUME NEW s, NEW t, NEW b, NEW d, NEW c, Steady(s, b, d, c), Hushes(s, t)
  PROVE  Steady(t, b, d, c) /\ Queued(t) = Queued(s)
<1>1. /\ s \in Work /\ t \in Work /\ t.memo.gen = s.memo.gen /\ t.session = s.session
  BY DEF Steady, Hushes
<1>2. Waiting(t) = Waiting(s) /\ Active(t) = Active(s) /\ Queued(t) = Queued(s)
  BY <1>1 DEF Waiting, Active, Queued
<1>3. ASSUME NEW r \in RunId
      PROVE  /\ Sayings(s.run[r]) \subseteq Sayings(t.run[r])
             /\ Exists(t.run[r]) => Exists(s.run[r])
             /\ Exists(t.run[r]) /\ Needs(t.run[r], TRUE) => t.run[r] = s.run[r]
             /\ Exists(t.run[r]) /\ ~IsTerminal(t.run[r]) =>
                  /\ ~IsTerminal(s.run[r]) /\ t.run[r].notified = s.run[r].notified
                  /\ t.run[r].acked \in {s.run[r].acked, "running"}
  <2>1. CASE t.run[r] = s.run[r]
    BY <2>1
  <2>2. CASE Exists(s.run[r]) /\ Hushed(s.run[r], t.run[r])
    <3>1. Exists(t.run[r])
      BY <2>2, RunRecordAssumption DEF Hushed, Exists
    <3> QED  BY <2>2, <3>1 DEF Hushed, Sayings, IsTerminal
  <2> QED  BY <2>1, <2>2 DEF Hushes
<1>4. SessionFits(t.session)
  BY <1>1 DEF Steady
<1>5. RunsFit(t)
  <2> SUFFICES ASSUME NEW r \in RunId, Exists(t.run[r]), ~IsTerminal(t.run[r])
               PROVE  {t.run[r].notified, t.run[r].acked} \subseteq {Unset, "running"}
    BY DEF RunsFit
  <2>1. Exists(s.run[r]) /\ ~IsTerminal(s.run[r])
    BY <1>3
  <2>2. {s.run[r].notified, s.run[r].acked} \subseteq {Unset, "running"}
    BY <2>1 DEF Steady, RunsFit
  <2> QED  BY <1>3, <2>2
<1>6. Telling(t, d)
  <2>1. Telling(s, d)
    BY DEF Steady
  <2> QED  BY <1>2, <1>3, <2>1 DEF Telling
<1>7. Carried(t, d, c)
  <2>1. Carried(s, d, c)
    BY DEF Steady
  <2>2. \A r \in RunId : Reserved(t.run[r]) => Needs(t.run[r], TRUE)
    BY DEF Reserved
  <2> QED  BY <1>2, <1>3, <2>1, <2>2 DEF Carried
<1>8. GenerationsFit(t, b)
  BY <1>1, <1>3 DEF Steady, GenerationsFit, Wanting
<1> QED  BY <1>1, <1>2, <1>4, <1>5, <1>6, <1>7, <1>8 DEF Steady

\* A refresh leaves no reminder in the queue.
LEMMA RefreshKeeps ==
  ASSUME NEW b, NEW d, NEW c, NEW s, Steady(s, b, d, c)
  PROVE  Steady(Refresh(s), b, d, c) /\ Current(Refresh(s))
<1> DEFINE u == RemoveQueued(s)
<1>1. s \in Work
  BY DEF Steady
<1>2. CASE Queued(s) # {}
  <2>1. Drops(s, u) /\ Queued(u) = {}
    BY RemoveQueuedDrops
  <2> HIDE DEF u
  <2>2. Steady(u, b, d, c) /\ u \in Work
    BY <2>1, DropsKeep DEF Drops
  <2> DEFINE t == Schedule(u, TRUE)
  <2>3. t \in Work /\ t.run = u.run /\ t.session = u.session /\ t.memo.gen = u.memo.gen
    BY <2>2, ScheduleKeeps
  <2> HIDE DEF t
  <2>4. Steady(t, b, d, c)
    BY <2>2, <2>3, SameSessionDrops, DropsKeep
  <2>5. Queued(t) = {}
    BY <2>1, <2>3 DEF Queued, Waiting
  <2>6. Refresh(s) = t
    BY <1>2 DEF Refresh, t, u
  <2> QED  BY <2>4, <2>5, <2>6 DEF Current
<1>3. CASE Queued(s) = {}
  <2> DEFINE x == [s.memo EXCEPT !.warned = FALSE]
             t == [s EXCEPT !.memo = x]
  <2>1. x \in Memo /\ x.gen = s.memo.gen
    BY <1>1, WorkFields DEF Memo
  <2>2. t \in Work /\ t.run = s.run /\ t.session = s.session /\ t.memo = x
    BY <1>1, <2>1, Replacing
  <2>3. Refresh(s) \in {s, t}
    BY <1>3 DEF Refresh
  <2> HIDE DEF x, t
  <2>4. Steady(t, b, d, c)
    BY <2>1, <2>2, SameSessionDrops, DropsKeep
  <2>5. Queued(t) = {}
    BY <1>3, <2>2 DEF Queued, Waiting
  <2> QED  BY <1>3, <2>3, <2>4, <2>5 DEF Current
<1> QED  BY <1>2, <1>3

-----------------------------------------------------------------------------
(* A message enters the session *)

Heard(s, m, d) ==
  \A r \in RunId :
    /\ m.of[r] \in Sayings(s.run[r])
    /\ m.of[r] = "running" => d[r] \in Early /\ \A a \in Active(s) : a.of[r] \in Early

LEMMA EnqueueFields ==
  ASSUME NEW s \in Work, NEW d, SessionFits(s.session), Telling(s, d),
         NEW m \in Messages, SpeaksTrue(m), Heard(s, m, d),
         IsReminder(m) => Queued(s) = {}
  PROVE  LET t == Enqueue(s, m) IN
         /\ t \in Work /\ t.run = s.run /\ t.memo = s.memo
         /\ SessionFits(t.session) /\ Telling(t, d)
         /\ Waiting(t) \cup Active(t) = Waiting(s) \cup Active(s) \cup {m}
         /\ \A q \in Queued(t) : q \in Queued(s) \/ (q = m /\ IsReminder(m))
<1>1. s.session \in Session /\ s.session.queue \in Seq(Messages)
  BY WorkFields
<1>2. CASE s.session.busy
  <2> DEFINE q == s.session.queue
             p == Append(q, m)
             x == [s.session EXCEPT !.queue = p]
             t == [s EXCEPT !.session = x]
  <2>1. Enqueue(s, m) = t
    BY <1>2 DEF Enqueue
  <2>2. /\ p \in Seq(Messages) /\ Range(p) = Waiting(s) \cup {m}
        /\ DOMAIN p = 1 .. (Len(q) + 1) /\ p[Len(q) + 1] = m
        /\ \A i \in 1 .. Len(q) : p[i] = q[i] /\ q[i] \in Waiting(s) /\ i \in DOMAIN q
        /\ Len(q) \in Nat
    <3>1. p \in Seq(Messages) /\ Range(p) = Range(q) \cup {m}
      BY <1>1, AppendKeepsRange
    <3>2. /\ DOMAIN p = 1 .. (Len(q) + 1) /\ p[Len(q) + 1] = m
          /\ \A i \in 1 .. Len(q) : p[i] = q[i] /\ i \in DOMAIN q
          /\ Len(q) \in Nat
      BY <1>1
    <3>3. \A i \in 1 .. Len(q) : q[i] \in Range(q)
      BY <3>2 DEF Range
    <3> QED  BY <3>1, <3>2, <3>3 DEF Waiting
  <2> HIDE DEF p
  <2>3. x \in Session /\ x.queue = p /\ x.active = s.session.active /\ x.busy
    BY <1>1, <1>2, <2>2 DEF Session
  <2> HIDE DEF x
  <2>4. t \in Work /\ t.run = s.run /\ t.session = x /\ t.memo = s.memo
    BY <2>3, Replacing
  <2> HIDE DEF t
  <2>5. Waiting(t) = Waiting(s) \cup {m} /\ Active(t) = Active(s)
    BY <2>2, <2>3, <2>4 DEF Waiting, Active
  <2>6. SessionFits(x)
    <3>1. \A i \in 1 .. Len(q) : IsReminder(m) => ~IsReminder(p[i])
      BY <2>2 DEF Queued
    <3>2. ASSUME NEW i \in DOMAIN p, NEW j \in DOMAIN p, IsReminder(p[i]), IsReminder(p[j])
          PROVE  i = j
      <4>1. CASE i = Len(q) + 1 \/ j = Len(q) + 1
        BY <2>2, <3>1, <3>2, <4>1
      <4>2. CASE i \in 1 .. Len(q) /\ j \in 1 .. Len(q)
        BY <2>2, <3>2, <4>2 DEF SessionFits
      <4> QED  BY <2>2, <4>1, <4>2
    <3>3. x.active # NoMessage => SpeaksTrue(x.active)
      BY <2>3 DEF SessionFits
    <3>4. \A k \in Range(p) : SpeaksTrue(k)
      BY <2>2 DEF SessionFits, Waiting
    <3> QED  BY <2>3, <3>2, <3>3, <3>4 DEF SessionFits
  <2>7. Telling(t, d)
    BY <2>4, <2>5 DEF Telling, Heard
  <2>8. \A k \in Queued(t) : k \in Queued(s) \/ (k = m /\ IsReminder(m))
    BY <2>5 DEF Queued
  <2> QED  BY <2>1, <2>4, <2>5, <2>6, <2>7, <2>8
<1>3. CASE ~s.session.busy
  <2> DEFINE x == [s.session EXCEPT !.busy = TRUE, !.active = m]
             t == [s EXCEPT !.session = x]
  <2>1. Enqueue(s, m) = t
    BY <1>3 DEF Enqueue
  <2>2. x \in Session /\ x.queue = s.session.queue /\ x.active = m /\ x.busy
    BY <1>1 DEF Session
  <2> HIDE DEF x
  <2>3. t \in Work /\ t.run = s.run /\ t.session = x /\ t.memo = s.memo
    BY <2>2, Replacing
  <2> HIDE DEF t
  <2>4. s.session.queue = <<>> /\ s.session.active = NoMessage
    BY <1>3 DEF SessionFits
  <2>5. Waiting(s) = {} /\ Active(s) = {} /\ Waiting(t) = {} /\ Active(t) = {m}
    BY <2>2, <2>3, <2>4, NoMessageAssumption DEF Waiting, Active, Range
  <2>6. SessionFits(x)
    BY <2>2, <2>4 DEF SessionFits, Range
  <2>7. Telling(t, d)
    BY <2>3, <2>5 DEF Telling, Heard
  <2> QED  BY <2>1, <2>3, <2>5, <2>6, <2>7 DEF Queued
<1> QED  BY <1>2, <1>3

LEMMA Silence ==
  ASSUME NEW s, NEW m \in Messages, m.of = NoRuns, NEW d
  PROVE  Heard(s, m, d)
BY Statuses DEF Heard, Sayings, NoRuns

LEMMA PlainMessages ==
  ASSUME NEW kind \in {"user", "loop", "compact"}, NEW origin \in Origins
  PROVE  LET m == Message(kind, origin) IN
         m \in Messages /\ SpeaksTrue(m) /\ ~IsReminder(m) /\ m.of = NoRuns /\ ~m.known
<1>1. NoRuns \in [RunId -> Status \cup {Unset}]
  BY DEF NoRuns
<1> QED  BY <1>1 DEF Message, Messages, SpeaksTrue, IsReminder

LEMMA EnqueueKeeps ==
  ASSUME NEW s, NEW b, NEW d, NEW c, Steady(s, b, d, c),
         NEW m \in Messages, SpeaksTrue(m), ~IsReminder(m)
  PROVE  LET t == Enqueue(s, m) IN
         /\ Steady(t, b, d, c) /\ t.memo = s.memo /\ Queued(t) \subseteq Queued(s)
         /\ Current(s) => Current(t)
<1> DEFINE t == Enqueue(s, m)
<1>1. s \in Work /\ SessionFits(s.session) /\ Telling(s, d) /\ Heard(s, m, d)
  BY Silence DEF Steady, SpeaksTrue
<1>2. /\ t \in Work /\ t.run = s.run /\ t.memo = s.memo
      /\ SessionFits(t.session) /\ Telling(t, d)
      /\ Waiting(t) \cup Active(t) = Waiting(s) \cup Active(s) \cup {m}
      /\ \A q \in Queued(t) : q \in Queued(s)
  BY <1>1, EnqueueFields
<1> HIDE DEF t
<1>3. Carried(t, d, c) /\ RunsFit(t) /\ GenerationsFit(t, b)
  BY <1>2 DEF Steady, Carried, RunsFit, GenerationsFit, Wanting
<1>4. Steady(t, b, d, c)
  BY <1>2, <1>3 DEF Steady
<1>5. Current(s) => Current(t)
  BY <1>2 DEF Current, Wanting
<1> QED  BY <1>2, <1>4, <1>5 DEF t

\* What is reserved is told of in the reminder that is queued with it.
LEMMA Reserving ==
  ASSUME NEW s \in Work, NEW runs \in SUBSET Wanting(s, TRUE)
  PROVE  LET t == Reserve(s, runs) IN
         /\ t \in Work /\ t.session = s.session /\ t.memo = s.memo
         /\ \A r \in RunId \ runs : t.run[r] = s.run[r]
         /\ \A r \in runs : r \in RunId /\ Exists(s.run[r]) /\ s.run[r] \in RunRecord
                /\ Needs(s.run[r], TRUE) /\ t.run[r] = Notified(s.run[r])
<1> DEFINE f == [r \in RunId |-> IF r \in runs THEN Notified(s.run[r]) ELSE s.run[r]]
<1>1. \A r \in runs : /\ r \in RunId /\ Exists(s.run[r]) /\ s.run[r] \in RunRecord
                      /\ Needs(s.run[r], TRUE)
  BY WorkFields DEF Wanting
<1>2. \A x \in RunRecord : Notified(x) \in RunRecord
  BY DEF Notified, RunRecord
<1>3. f \in [RunId -> RunRecord \cup {NoRun}]
  BY <1>1, <1>2, WorkFields
<1>4. Reserve(s, runs) = [s EXCEPT !.run = f]
  BY DEF Reserve
<1>5. /\ \A r \in RunId \ runs : f[r] = s.run[r]
      /\ \A r \in runs : f[r] = Notified(s.run[r])
  BY <1>1
<1> HIDE DEF f
<1>6. LET t == [s EXCEPT !.run = f] IN
        t \in Work /\ t.run = f /\ t.session = s.session /\ t.memo = s.memo
  BY <1>3, Replacing
<1> QED  BY <1>1, <1>4, <1>5, <1>6

LEMMA Notifying ==
  ASSUME NEW x \in RunRecord
  PROVE  LET y == Notified(x) IN
         /\ y \in RunRecord /\ y.status = x.status /\ y.acked = x.acked
         /\ y.notified = x.status /\ (Needs(y, TRUE) <=> Needs(x, TRUE))
BY DEF Notified, RunRecord, Needs

LEMMA Notifications ==
  ASSUME NEW s \in Work, NEW runs \in SUBSET Wanting(s, TRUE), runs # {}, NEW gen \in Nat,
         begun \in [RunId -> [gen : Nat, origin : Origins]]
  PROVE  LET m == Notification(s, runs, gen) IN
         /\ m \in Messages /\ SpeaksTrue(m) /\ IsReminder(m) /\ m.known /\ m.gen = gen
         /\ \A r \in RunId : m.of[r] = IF r \in runs THEN s.run[r].status ELSE Unset
<1> DEFINE f == [r \in RunId |-> IF r \in runs THEN s.run[r].status ELSE Unset]
           q == CHOOSE r \in runs : TRUE
<1>1. \A r \in runs : s.run[r] \in RunRecord
  BY WorkFields DEF Wanting
<1>2. f \in [RunId -> Status \cup {Unset}]
  BY <1>1 DEF RunRecord
<1>3. \A r \in RunId : f[r] = IF r \in runs THEN s.run[r].status ELSE Unset
  OBVIOUS
<1>4. q \in RunId
  BY DEF Wanting
<1>5. begun[q].origin \in Origins
  BY <1>4
<1>6. Notification(s, runs, gen) = Reminder(f, begun[q].origin, gen)
  BY DEF Notification
<1> HIDE DEF f, q
<1> QED  BY <1>2, <1>3, <1>5, <1>6 DEF Reminder, Messages, SpeaksTrue, IsReminder

LEMMA ReminderKeeps ==
  ASSUME NEW s, NEW d, NEW c, Steady(s, begun, d, c), Queued(s) = {},
         NEW runs \in SUBSET Wanting(s, TRUE), runs # {}, s.memo.quiet = "no"
  PROVE  LET t == Enqueue(Reserve(s, runs), Notification(s, runs, s.memo.gen)) IN
         Steady(t, begun, d, c) /\ Current(t)
<1> DEFINE gen == s.memo.gen
           m == Notification(s, runs, gen)
           u == Reserve(s, runs)
           t == Enqueue(u, m)
<1>1. /\ s \in Work /\ SessionFits(s.session) /\ Telling(s, d) /\ RunsFit(s)
      /\ begun \in [RunId -> [gen : Nat, origin : Origins]]
  BY DEF Steady
<1>2. gen \in Nat /\ gen = s.memo.gen
  BY <1>1, WorkFields DEF Memo
<1> HIDE DEF gen
<1>3. /\ m \in Messages /\ SpeaksTrue(m) /\ IsReminder(m) /\ m.known /\ m.gen = gen
      /\ \A r \in RunId : m.of[r] = IF r \in runs THEN s.run[r].status ELSE Unset
  <2>1. /\ s \in Work /\ runs \in SUBSET Wanting(s, TRUE) /\ runs # {} /\ gen \in Nat
        /\ begun \in [RunId -> [gen : Nat, origin : Origins]]
    BY <1>1, <1>2
  <2> QED  BY <2>1, Notifications, Zenon
<1>4. /\ u \in Work /\ u.session = s.session /\ u.memo = s.memo
      /\ \A r \in RunId \ runs : u.run[r] = s.run[r]
      /\ \A r \in runs : r \in RunId /\ Exists(s.run[r]) /\ s.run[r] \in RunRecord
             /\ Needs(s.run[r], TRUE) /\ u.run[r] = Notified(s.run[r])
  BY <1>1, Reserving
<1> HIDE DEF m, u
<1>5. \A r \in runs : /\ u.run[r] \in RunRecord /\ u.run[r].status = s.run[r].status
                      /\ u.run[r].acked = s.run[r].acked /\ Exists(u.run[r])
                      /\ u.run[r].notified = s.run[r].status /\ Needs(u.run[r], TRUE)
  BY <1>4, Notifying, RunRecordAssumption DEF Exists
<1>6. /\ Waiting(u) = Waiting(s) /\ Active(u) = Active(s) /\ Queued(u) = {}
      /\ SessionFits(u.session)
  BY <1>1, <1>4 DEF Waiting, Active, Queued
<1>7. \A r \in RunId : Sayings(u.run[r]) = Sayings(s.run[r])
  BY <1>4, <1>5 DEF Sayings
<1>8. Telling(u, d)
  BY <1>1, <1>6, <1>7 DEF Telling
<1>9. Heard(u, m, d)
  <2> SUFFICES ASSUME NEW r \in RunId
               PROVE  /\ m.of[r] \in Sayings(u.run[r])
                      /\ m.of[r] = "running" =>
                           d[r] \in Early /\ \A a \in Active(u) : a.of[r] \in Early
    BY DEF Heard
  <2>1. CASE r \notin runs
    BY <1>3, <2>1, Statuses DEF Sayings
  <2>2. CASE r \in runs
    <3>1. m.of[r] = s.run[r].status /\ Exists(s.run[r])
      BY <1>3, <1>4, <2>2
    <3>2. s.run[r].status = "running" => Sayings(s.run[r]) = Early
      BY <3>1 DEF Sayings, Early
    <3>3. d[r] \in Sayings(s.run[r]) /\ \A a \in Active(s) : a.of[r] \in Sayings(s.run[r])
      BY <1>1 DEF Telling
    <3>4. m.of[r] \in Sayings(s.run[r])
      BY <3>1 DEF Sayings
    <3> QED  BY <1>6, <1>7, <3>1, <3>2, <3>3, <3>4
  <2> QED  BY <2>1, <2>2
<1>10. /\ t \in Work /\ t.run = u.run /\ t.memo = u.memo
       /\ SessionFits(t.session) /\ Telling(t, d)
       /\ Waiting(t) \cup Active(t) = Waiting(u) \cup Active(u) \cup {m}
       /\ \A q \in Queued(t) : q \in Queued(u) \/ (q = m /\ IsReminder(m))
  BY <1>3, <1>4, <1>6, <1>8, <1>9, EnqueueFields
<1> HIDE DEF t
<1>11. Wanting(t, TRUE) = Wanting(s, TRUE)
  BY <1>4, <1>5, <1>10 DEF Wanting
<1>12. RunsFit(t)
  <2> SUFFICES ASSUME NEW r \in RunId, Exists(t.run[r]), ~IsTerminal(t.run[r])
               PROVE  {t.run[r].notified, t.run[r].acked} \subseteq {Unset, "running"}
    BY DEF RunsFit
  <2>1. CASE r \notin runs
    BY <1>1, <1>4, <1>10, <2>1 DEF RunsFit
  <2>2. CASE r \in runs
    <3>1. ~IsTerminal(s.run[r]) /\ s.run[r] \in RunRecord /\ Exists(s.run[r])
      BY <1>4, <1>5, <1>10, <2>2 DEF IsTerminal
    <3>2. s.run[r].status = "running"
      BY <3>1 DEF IsTerminal, RunRecord, Status
    <3> QED  BY <1>1, <1>5, <1>10, <2>2, <3>1, <3>2 DEF RunsFit
  <2> QED  BY <2>1, <2>2
<1>13. Carried(t, d, c)
  <2> SUFFICES ASSUME NEW r \in RunId, Exists(t.run[r]), Reserved(t.run[r]),
                      d[r] # t.run[r].status, r \notin c
               PROVE  \E k \in Waiting(t) \cup Active(t) :
                        k.known /\ k.of[r] = t.run[r].status
    BY DEF Carried
  <2>1. CASE r \notin runs
    <3>1. t.run[r] = s.run[r]
      BY <1>4, <1>10, <2>1
    <3>2. \E k \in Waiting(s) \cup Active(s) : k.known /\ k.of[r] = s.run[r].status
      BY <3>1 DEF Steady, Carried
    <3> QED  BY <1>6, <1>10, <3>1, <3>2
  <2>2. CASE r \in runs
    BY <1>3, <1>5, <1>10, <2>2
  <2> QED  BY <2>1, <2>2
<1>14. GenerationsFit(t, begun)
  <2>1. \A r \in RunId : IsTerminal(t.run[r]) <=> IsTerminal(s.run[r])
    BY <1>4, <1>5, <1>10 DEF IsTerminal
  <2> QED  BY <1>4, <1>10, <1>11, <2>1 DEF GenerationsFit, Steady, Wanting
<1>15. Steady(t, begun, d, c)
  BY <1>10, <1>12, <1>13, <1>14 DEF Steady
<1>16. Current(t)
  <2> SUFFICES ASSUME NEW q \in Queued(t)
               PROVE  /\ q.known /\ q.gen = t.memo.gen /\ t.memo.quiet = "no"
                      /\ \E r \in Wanting(t, TRUE) : q.of[r] # Unset
    BY DEF Current
  <2>1. q = m /\ t.memo = s.memo
    BY <1>4, <1>6, <1>10
  <2>2. PICK r \in runs : r \in RunId /\ s.run[r] \in RunRecord /\ r \in Wanting(t, TRUE)
    BY <1>4, <1>11
  <2>3. m.of[r] = s.run[r].status /\ s.run[r].status # Unset
    BY <1>3, <2>2, Statuses DEF RunRecord
  <2> QED  BY <1>2, <1>3, <2>1, <2>2, <2>3
<1> QED  BY <1>15, <1>16 DEF t, u, m, gen

\* A reminder that is refused leaves nothing reserved.
LEMMA RefusalDrops ==
  ASSUME NEW s, NEW d, NEW c, Steady(s, begun, d, c), NEW gen \in Nat,
         NEW runs \in SUBSET Wanting(s, TRUE), runs # {}
  PROVE  LET t == Release(Reserve(s, runs), {Notification(s, runs, gen)}) IN
         Drops(s, t) /\ t.session = s.session /\ t.memo = s.memo
<1> DEFINE m == Notification(s, runs, gen)
           u == Reserve(s, runs)
           t == Release(u, {m})
<1>1. s \in Work /\ SessionFits(s.session) /\ begun \in [RunId -> [gen : Nat, origin : Origins]]
  BY DEF Steady
<1>2. \A r \in RunId : m.of[r] = IF r \in runs THEN s.run[r].status ELSE Unset
  BY <1>1, Notifications
<1>3. /\ u \in Work /\ u.session = s.session /\ u.memo = s.memo
      /\ \A r \in RunId \ runs : u.run[r] = s.run[r]
      /\ \A r \in runs : r \in RunId /\ Exists(s.run[r]) /\ s.run[r] \in RunRecord
             /\ Needs(s.run[r], TRUE) /\ u.run[r] = Notified(s.run[r])
  BY <1>1, Reserving
<1> HIDE DEF m, u
<1>4. t \in Work /\ t.session = u.session /\ t.memo = u.memo /\ Frees(u.run, t.run, {m})
  BY <1>3, ReleaseFrees
<1> HIDE DEF t
<1>5. Gone(s, t) = {}
  BY <1>3, <1>4 DEF Gone, Waiting, Active
<1>6. ASSUME NEW r \in RunId
      PROVE  \/ Exists(s.run[r]) /\ t.run[r] = [s.run[r] EXCEPT !.notified = Unset]
             \/ t.run[r] = s.run[r]
  <2>1. CASE r \notin runs
    <3>1. u.run[r] = s.run[r] /\ m.of[r] = Unset
      BY <1>2, <1>3, <2>1
    <3>2. Exists(s.run[r]) => s.run[r].status # Unset
      BY <1>1, WorkFields, Statuses DEF RunRecord
    <3> QED  BY <1>4, <3>1, <3>2 DEF Frees
  <2>2. CASE r \in runs
    <3>1. m.of[r] = s.run[r].status /\ u.run[r] = Notified(s.run[r]) /\ s.run[r] \in RunRecord
          /\ Exists(s.run[r])
      BY <1>2, <1>3, <2>2
    <3>2. /\ u.run[r] \in RunRecord /\ u.run[r].status = s.run[r].status
          /\ u.run[r].notified = s.run[r].status /\ Exists(u.run[r])
      BY <3>1, Notifying, RunRecordAssumption DEF Exists
    <3>3. t.run[r] = [u.run[r] EXCEPT !.notified = Unset]
      BY <1>4, <3>1, <3>2 DEF Frees
    <3>4. [u.run[r] EXCEPT !.notified = Unset] = [s.run[r] EXCEPT !.notified = Unset]
      BY <3>1 DEF Notified, RunRecord
    <3> QED  BY <3>1, <3>3, <3>4
  <2> QED  BY <2>1, <2>2
<1>7. SessionFits(t.session) /\ Waiting(t) = Waiting(s) /\ Active(t) = Active(s)
  BY <1>1, <1>3, <1>4 DEF Waiting, Active
<1>8. Drops(s, t)
  BY <1>3, <1>4, <1>5, <1>6, <1>7 DEF Drops
<1> QED  BY <1>3, <1>4, <1>8 DEF t, u, m

-----------------------------------------------------------------------------
(* What the handlers are made of keeps the invariant *)

Good(s) == Steady(s, begun, told, cutShort) /\ Current(s)

LEMMA GoodStep ==
  ASSUME NEW t, Good(t), Become(t), UNCHANGED <<begun, told, cutShort>>
  PROVE  ReminderInv'
<1>1. State' = t
  BY Becoming DEF Good, Steady
<1> QED  BY <1>1 DEF Good, ReminderInv

LEMMA GoodDrops ==
  ASSUME NEW s, NEW t, Good(s), Drops(s, t),
         t.memo.quiet \in {s.memo.quiet, "no"} \/ Queued(t) = {}
  PROVE  Good(t)
BY DropsKeep DEF Good

LEMMA GoodMemo ==
  ASSUME NEW s, Good(s), NEW x \in Memo, x.gen = s.memo.gen,
         x.quiet \in {s.memo.quiet, "no"} \/ Queued(s) = {}
  PROVE  LET t == [s EXCEPT !.memo = x] IN
         Good(t) /\ t.run = s.run /\ t.session = s.session /\ t.memo = x
<1> DEFINE t == [s EXCEPT !.memo = x]
<1>1. s \in Work
  BY DEF Good, Steady
<1>2. t \in Work /\ t.run = s.run /\ t.session = s.session /\ t.memo = x
  BY <1>1, Replacing
<1> HIDE DEF t
<1>3. Drops(s, t) /\ Queued(t) = Queued(s)
  BY <1>2, SameSessionDrops DEF Good, Queued, Waiting
<1>4. Good(t)
  BY <1>2, <1>3, GoodDrops
<1> QED  BY <1>2, <1>4 DEF t

LEMMA GoodSchedule ==
  ASSUME NEW s, Good(s), NEW again \in BOOLEAN
  PROVE  LET t == Schedule(s, again) IN
         /\ Good(t) /\ t.run = s.run /\ t.session = s.session
         /\ t.memo.gen = s.memo.gen /\ t.memo.quiet = s.memo.quiet
<1> DEFINE t == Schedule(s, again)
<1>1. s \in Work
  BY DEF Good, Steady
<1>2. /\ t \in Work /\ t.run = s.run /\ t.session = s.session
      /\ t.memo.gen = s.memo.gen /\ t.memo.quiet = s.memo.quiet
  BY <1>1, ScheduleKeeps
<1> HIDE DEF t
<1>3. Drops(s, t)
  BY <1>2, SameSessionDrops DEF Good
<1>4. Good(t)
  BY <1>2, <1>3, GoodDrops
<1> QED  BY <1>2, <1>4 DEF t

LEMMA GoodNotify ==
  ASSUME NEW s, Good(s)
  PROVE  Good(Notify(s))
BY GoodSchedule DEF Notify

\* A queue without reminders has none that is out of date.
LEMMA GoodRemoveQueued ==
  ASSUME NEW s, Steady(s, begun, told, cutShort)
  PROVE  LET t == RemoveQueued(s) IN
         /\ Good(t) /\ Queued(t) = {}
         /\ t.memo.gen = s.memo.gen /\ t.memo.quiet = s.memo.quiet
<1> DEFINE t == RemoveQueued(s)
<1>1. Drops(s, t) /\ Queued(t) = {} /\ t.memo.quiet = s.memo.quiet
  BY RemoveQueuedDrops
<1> HIDE DEF t
<1>2. Steady(t, begun, told, cutShort) /\ t.memo.gen = s.memo.gen
  BY <1>1, DropsKeep DEF Drops
<1> QED  BY <1>1, <1>2 DEF Good, Current, t

LEMMA StateFields ==
  ASSUME Good(State)
  PROVE  /\ State \in Work /\ SessionFits(session) /\ session \in Session /\ memo \in Memo
         /\ run \in [RunId -> RunRecord \cup {NoRun}]
         /\ State.run = run /\ State.session = session /\ State.memo = memo
BY WorkFields DEF Good, Steady, State

\* The active message is over.
LEMMA OverFields ==
  ASSUME Good(State), session.active # NoMessage
  PROVE  LET m == session.active IN
         /\ Over \in Work /\ Over.run = run /\ Over.memo = memo
         /\ Waiting(Over) = Waiting(State) /\ Active(Over) = {} /\ Active(State) = {m}
         /\ SessionFits(Over.session) /\ session.busy
         /\ m \in Messages /\ SpeaksTrue(m)
<1> DEFINE x == [session EXCEPT !.active = NoMessage]
<1>1. /\ State \in Work /\ SessionFits(session) /\ session \in Session
      /\ State.run = run /\ State.session = session /\ State.memo = memo
  BY StateFields
<1>2. /\ x \in Session /\ x.active = NoMessage /\ x.queue = session.queue
      /\ x.busy = session.busy
  BY <1>1 DEF Session
<1>3. Over = [State EXCEPT !.session = x]
  BY <1>1 DEF Over
<1> HIDE DEF x
<1>4. Over \in Work /\ Over.run = run /\ Over.session = x /\ Over.memo = memo
  BY <1>1, <1>2, <1>3, Replacing
<1>5. session.busy /\ SpeaksTrue(session.active) /\ session.active \in Messages
  BY <1>1 DEF SessionFits, Session
<1>6. SessionFits(x)
  BY <1>1, <1>2, <1>5 DEF SessionFits
<1>7. Waiting(Over) = Waiting(State) /\ Active(Over) = {} /\ Active(State) = {session.active}
  BY <1>1, <1>2, <1>4 DEF Waiting, Active
<1> QED  BY <1>4, <1>5, <1>6, <1>7

LEMMA GoodOver ==
  ASSUME Good(State), session.active # NoMessage
  PROVE  LET m == session.active
             w == Release(Over, {m})
         IN /\ Good(w) /\ w.memo = memo /\ w.session = Over.session
            /\ ~m.known => Good(Over)
            /\ Frees(run, w.run, {m})
<1> DEFINE m == session.active
           w == Release(Over, {m})
<1>1. /\ Over \in Work /\ Over.run = run /\ Over.memo = memo
      /\ Waiting(Over) = Waiting(State) /\ Active(Over) = {} /\ Active(State) = {m}
      /\ SessionFits(Over.session)
  BY OverFields
<1>2. State \in Work /\ State.run = run /\ State.memo = memo
  BY StateFields
<1>3. w \in Work /\ w.session = Over.session /\ w.memo = memo /\ Frees(run, w.run, {m})
  BY <1>1, ReleaseFrees
<1> HIDE DEF w, m
<1>4. Waiting(w) = Waiting(Over) /\ Active(w) = Active(Over)
  BY <1>3 DEF Waiting, Active
<1>5. Gone(State, w) \subseteq {m} /\ Gone(State, Over) \subseteq {m}
  BY <1>1, <1>4 DEF Gone
<1>6. Drops(State, w)
  BY <1>1, <1>2, <1>3, <1>4, <1>5, FreedDrops
<1>7. ~m.known => Drops(State, Over)
  BY <1>1, <1>2, <1>5 DEF Drops
<1>8. Good(w)
  BY <1>2, <1>3, <1>6, GoodDrops
<1>9. ~m.known => Good(Over)
  BY <1>1, <1>2, <1>7, GoodDrops
<1> QED  BY <1>3, <1>8, <1>9 DEF w, m

LEMMA Keys ==
  ASSUME NEW m \in Messages
  PROVE  Key(m) \in Loops \cup SUBSET RunId
<1>1. m.origin \in Loops \cup {NoOrigin}
  BY DEF Messages, Origins
<1> QED  BY <1>1 DEF Key

\* What a reminder had reserved is suppressed when it has no room.
LEMMA GoodSuppress ==
  ASSUME Good(State), session.active # NoMessage
  PROVE  Good(SuppressRuns(Over, session.active))
<1> DEFINE m == session.active
           w == Release(Over, {m})
           released == {r \in RunId : Exists(Over.run[r]) /\ m.of[r] = Over.run[r].status
                                        /\ Over.run[r].notified = Over.run[r].status}
           f == [r \in RunId |-> IF r \in released THEN Suppressed(w.run[r]) ELSE w.run[r]]
           x == [w.memo EXCEPT !.recovering = @ \ {Key(m)}, !.deferred = FALSE,
                               !.warned = FALSE]
           v == [w EXCEPT !.run = f]
           given == [v EXCEPT !.memo = x]
<1>1. Good(w) /\ w.memo = memo /\ Frees(run, w.run, {m}) /\ w \in Work
  BY GoodOver DEF Good, Steady
<1>2. Over \in Work /\ Over.run = run
  BY OverFields
<1>3. SuppressRuns(Over, m) = Schedule(RemoveQueued(given), FALSE)
  <2>1. given = [Recovered(w, m) EXCEPT
                   !.run = [r \in RunId |-> IF r \in released THEN Suppressed(@[r]) ELSE @[r]],
                   !.memo.deferred = FALSE, !.memo.warned = FALSE]
    BY <1>1 DEF Recovered, Work, Memo
  <2> QED  BY <2>1 DEF SuppressRuns
<1> HIDE DEF w
<1>4. \A r \in released : r \in RunId /\ w.run[r] \in RunRecord
  <2> SUFFICES ASSUME NEW r \in released PROVE r \in RunId /\ w.run[r] \in RunRecord
    OBVIOUS
  <2>1. r \in RunId /\ Exists(run[r]) /\ run[r] \in RunRecord
    BY <1>2, WorkFields
  <2> QED  BY <1>1, <2>1, Forgetting DEF Frees
<1> HIDE DEF released
<1>5. \A r \in RunId : r \in released => Hushed(w.run[r], Suppressed(w.run[r]))
  BY <1>4, Hushing
<1>6. f \in [RunId -> RunRecord \cup {NoRun}]
  BY <1>1, <1>5, WorkFields DEF Hushed
<1>7. \A r \in RunId : \/ f[r] = w.run[r]
                       \/ Exists(w.run[r]) /\ Hushed(w.run[r], f[r])
  BY <1>4, <1>5, RunRecordAssumption DEF Exists
<1> HIDE DEF f
<1>8. x \in Memo /\ x.gen = w.memo.gen
  BY <1>1, WorkFields DEF Memo
<1> HIDE DEF x
<1>9. v \in Work /\ v.run = f /\ v.session = w.session /\ v.memo = w.memo
  BY <1>1, <1>6, Replacing
<1> HIDE DEF v
<1>10. given \in Work /\ given.run = f /\ given.session = w.session /\ given.memo = x
  BY <1>8, <1>9, Replacing
<1> HIDE DEF given
<1>11. Hushes(w, given)
  BY <1>7, <1>8, <1>10 DEF Hushes
<1>12. Steady(given, begun, told, cutShort)
  BY <1>1, <1>11, HushesKeep DEF Good
<1>13. Good(RemoveQueued(given))
  BY <1>12, GoodRemoveQueued
<1>14. Good(Schedule(RemoveQueued(given), FALSE))
  BY <1>13, GoodSchedule
<1> QED  BY <1>3, <1>14

\* What it had reserved waits for a compaction.
LEMMA GoodDefer ==
  ASSUME Good(State), session.active # NoMessage, NEW compaction \in BOOLEAN
  PROVE  Good(Defer(Over, session.active, compaction))
<1> DEFINE m == session.active
           w == Release(Over, {m})
           x == [w.memo EXCEPT !.deferred = TRUE, !.recovering = @ \cup {Key(m)}]
           v == [w EXCEPT !.memo = x]
           deferred == RemoveQueued(v)
           n == Message("compact", NoOrigin)
<1>1. Good(w) /\ w.memo = memo /\ w \in Work /\ m \in Messages
  BY GoodOver, OverFields DEF Good, Steady
<1>2. Key(m) \in Loops \cup SUBSET RunId
  BY <1>1, Keys
<1>3. x \in Memo /\ x.gen = w.memo.gen /\ x.quiet = w.memo.quiet
  BY <1>1, <1>2, WorkFields DEF Memo
<1>4. Defer(Over, m, compaction) \in {w, SuppressRuns(Over, m), deferred, Enqueue(deferred, n)}
  <2>1. v = [w EXCEPT !.memo.deferred = TRUE, !.memo.recovering = @ \cup {Key(m)}]
    BY <1>1 DEF Work, Memo
  <2> HIDE DEF v
  <2> QED  BY <2>1 DEF Defer
<1> HIDE DEF w, x
<1>5. Good(v)
  BY <1>1, <1>3, GoodMemo
<1> HIDE DEF v
<1>6. Good(deferred)
  BY <1>5, GoodRemoveQueued DEF Good
<1> HIDE DEF deferred
<1>7. n \in Messages /\ SpeaksTrue(n) /\ ~IsReminder(n)
  BY PlainMessages DEF Origins
<1> HIDE DEF n
<1>8. Good(Enqueue(deferred, n))
  BY <1>6, <1>7, EnqueueKeeps DEF Good
<1>9. Good(SuppressRuns(Over, m))
  BY GoodSuppress
<1> QED  BY <1>1, <1>4, <1>6, <1>8, <1>9

-----------------------------------------------------------------------------
(* Delivery *)

LEMMA DeliverKeeps ==
  ASSUME ReminderInv, NEW gen \in memo.due, Deliver(gen)
  PROVE  ReminderInv'
<1> DEFINE mine == memo.sched # "none" /\ gen = memo.gen
           D == memo.due \ {gen}
           x == IF mine THEN "none" ELSE memo.sched
           c == IF mine /\ memo.quiet = "no"
                THEN Append(memo.calls, [gen |-> gen, again |-> memo.sched = "again"])
                ELSE memo.calls
           y == [memo EXCEPT !.due = D, !.sched = x, !.calls = c]
           t == [State EXCEPT !.memo = y]
<1>1. Good(State) /\ State \in Work /\ memo \in Memo /\ State.memo = memo
      /\ State.run = run /\ State.session = session
  BY StateFields DEF ReminderInv, Good
<1>2. D \in SUBSET Nat /\ x \in {"none", "fresh", "again"} /\ gen \in Nat
  BY <1>1 DEF Memo
<1>3. c \in Seq([gen : Nat, again : BOOLEAN])
  <2>1. [gen |-> gen, again |-> memo.sched = "again"] \in [gen : Nat, again : BOOLEAN]
    BY <1>2
  <2> QED  BY <1>1, <2>1, AppendProperties DEF Memo
<1>4. memo' = y /\ UNCHANGED <<run, session, begun, told, cutShort>>
  BY DEF Deliver, history
<1> HIDE DEF D, x, c
<1>5. y \in Memo /\ y.gen = memo.gen /\ y.quiet = memo.quiet
  BY <1>1, <1>2, <1>3 DEF Memo
<1> HIDE DEF y
<1>6. Good(t) /\ t.run = run /\ t.session = session /\ t.memo = y
  BY <1>1, <1>5, GoodMemo
<1>7. Become(t)
  BY <1>4, <1>6 DEF Become
<1> HIDE DEF t
<1> QED  BY <1>4, <1>6, <1>7, GoodStep

LEMMA CalledFields ==
  ASSUME ReminderInv, NEW i \in DOMAIN memo.calls
  PROVE  /\ Good(Called(i)) /\ Called(i).session = session /\ Called(i).run = run
         /\ Called(i).memo.gen = memo.gen /\ Called(i).memo.quiet = memo.quiet
         /\ memo.calls[i].gen \in Nat /\ memo.calls[i].again \in BOOLEAN
<1> DEFINE C == [gen : Nat, again : BOOLEAN]
           q == RemoveAt(memo.calls, i)
           y == [memo EXCEPT !.calls = q]
<1>1. Good(State) /\ State \in Work /\ memo \in Memo /\ State.memo = memo
      /\ State.run = run /\ State.session = session
  BY StateFields DEF ReminderInv, Good
<1>2. memo.calls \in Seq(C)
  BY <1>1 DEF Memo
<1>3. q \in Seq(C)
  BY <1>2, RemoveAtProperties
<1>4. memo.calls[i] \in C
  <2> HIDE DEF C
  <2>1. \A j \in DOMAIN memo.calls : memo.calls[j] \in C
    BY <1>2
  <2> QED  BY <2>1
<1>5. Called(i) = [State EXCEPT !.memo = y]
  BY <1>1 DEF Called
<1> HIDE DEF q
<1>6. y \in Memo /\ y.gen = memo.gen /\ y.quiet = memo.quiet
  BY <1>1, <1>3 DEF Memo
<1> HIDE DEF y
<1>7. /\ Good(Called(i)) /\ Called(i).run = run /\ Called(i).session = session
      /\ Called(i).memo = y
  BY <1>1, <1>5, <1>6, GoodMemo
<1> QED  BY <1>4, <1>6, <1>7

LEMMA AbandonKeeps ==
  ASSUME ReminderInv, NEW i \in DOMAIN memo.calls, Abandon(i)
  PROVE  ReminderInv'
BY CalledFields, GoodStep DEF Abandon, history

\* The session is there when the call goes on.
LEMMA Opened ==
  ASSUME NEW s, Good(s)
  PROVE  LET t == [s EXCEPT !.session.up = TRUE] IN
         Good(t) /\ t.memo = s.memo /\ t.run = s.run
<1> DEFINE x == [s.session EXCEPT !.up = TRUE]
           t == [s EXCEPT !.session = x]
<1>1. s \in Work /\ s.session \in Session /\ SessionFits(s.session)
  BY WorkFields DEF Good, Steady
<1>2. /\ x \in Session /\ x.queue = s.session.queue /\ x.active = s.session.active
      /\ x.busy = s.session.busy
  BY <1>1 DEF Session
<1> HIDE DEF x
<1>3. t \in Work /\ t.run = s.run /\ t.session = x /\ t.memo = s.memo
  BY <1>1, <1>2, Replacing
<1> HIDE DEF t
<1>4. Waiting(t) = Waiting(s) /\ Active(t) = Active(s) /\ SessionFits(x)
  BY <1>1, <1>2, <1>3 DEF Waiting, Active, SessionFits
<1>5. Drops(s, t)
  BY <1>1, <1>3, <1>4, SameDrops
<1>6. Good(t)
  BY <1>3, <1>5, GoodDrops
<1> QED  BY <1>3, <1>6 DEF t, x

LEMMA Warning ==
  ASSUME NEW s, Good(s), NEW w \in BOOLEAN
  PROVE  Good([s EXCEPT !.memo.warned = w])
<1> DEFINE x == [s.memo EXCEPT !.warned = w]
<1>1. x \in Memo /\ x.gen = s.memo.gen /\ x.quiet = s.memo.quiet
  BY WorkFields DEF Good, Steady, Memo
<1> HIDE DEF x
<1>2. Good([s EXCEPT !.memo = x])
  BY <1>1, GoodMemo
<1> QED  BY <1>2 DEF x

LEMMA Groups ==
  ASSUME NEW s \in Work, NEW again \in BOOLEAN
  PROVE  Group(s, again) \in SUBSET Wanting(s, TRUE)
BY DEF Group, Wanting, Needs

LEMMA ResumeKeeps ==
  ASSUME ReminderInv, NEW i \in DOMAIN memo.calls, Resume(i)
  PROVE  ReminderInv'
<1> DEFINE called == [Called(i) EXCEPT !.session.up = TRUE]
           again == memo.calls[i].again \/ Queued(called) # {}
           s == RemoveQueued(called)
           runs == Group(s, again)
           e == IF runs = {} THEN s
                ELSE Enqueue(Reserve(s, runs), Notification(s, runs, memo.calls[i].gen))
           t == [e EXCEPT !.memo.warned = FALSE]
<1>1. ~Fenced(memo.calls[i].gen) /\ Become(t) /\ UNCHANGED <<begun, told, cutShort>>
  BY DEF Resume, history
<1>2. memo.quiet = "no" /\ memo.calls[i].gen = memo.gen
  BY <1>1 DEF Fenced
<1>3. Good(Called(i)) /\ Called(i).memo.gen = memo.gen /\ Called(i).memo.quiet = "no"
      /\ again \in BOOLEAN
  BY <1>2, CalledFields
<1>4. Good(called) /\ called.memo.gen = memo.gen /\ called.memo.quiet = "no"
  BY <1>3, Opened
<1> HIDE DEF called, again
<1>5. /\ Good(s) /\ Queued(s) = {} /\ s.memo.gen = memo.calls[i].gen
      /\ s.memo.quiet = "no"
  BY <1>2, <1>4, GoodRemoveQueued DEF Good
<1> HIDE DEF s
<1>6. runs \in SUBSET Wanting(s, TRUE)
  BY <1>3, <1>5, Groups DEF Good, Steady
<1> HIDE DEF runs
<1>7. runs # {} =>
        Good(Enqueue(Reserve(s, runs), Notification(s, runs, s.memo.gen)))
  BY <1>5, <1>6, ReminderKeeps DEF Good
<1>8. Good(e)
  BY <1>5, <1>7
<1> HIDE DEF e
<1>9. Good(t)
  BY <1>8, Warning
<1> HIDE DEF t
<1> QED  BY <1>1, <1>9, GoodStep

LEMMA RefuseKeeps ==
  ASSUME ReminderInv, NEW i \in DOMAIN memo.calls, Refuse(i)
  PROVE  ReminderInv'
<1> DEFINE called == [Called(i) EXCEPT !.session.up = TRUE]
           again == memo.calls[i].again \/ Queued(called) # {}
           s == RemoveQueued(called)
           runs == Group(s, again)
           e == Release(Reserve(s, runs), {Notification(s, runs, memo.calls[i].gen)})
           t == [e EXCEPT !.memo.warned = TRUE]
           u == [Called(i) EXCEPT !.memo.warned = TRUE]
<1>1. /\ UNCHANGED <<begun, told, cutShort>>
      /\ Become(u) \/ (runs # {} /\ Become(t))
  BY DEF Refuse, history
<1>2. Good(Called(i)) /\ memo.calls[i].gen \in Nat /\ again \in BOOLEAN
  BY CalledFields
<1>3. Good(u)
  BY <1>2, Warning
<1>4. ASSUME runs # {} PROVE Good(t)
  <2>1. Good(called)
    BY <1>2, Opened
  <2> HIDE DEF called, again
  <2>2. Good(s)
    BY <2>1, GoodRemoveQueued DEF Good
  <2> HIDE DEF s
  <2>3. runs \in SUBSET Wanting(s, TRUE)
    BY <1>2, <2>2, Groups DEF Good, Steady
  <2> HIDE DEF runs
  <2>4. Drops(s, e) /\ e.memo = s.memo
    BY <1>2, <1>4, <2>2, <2>3, RefusalDrops DEF Good
  <2> HIDE DEF e
  <2>5. Good(e)
    BY <2>2, <2>4, GoodDrops
  <2> QED  BY <2>5, Warning
<1> HIDE DEF u, t
<1> QED  BY <1>1, <1>3, <1>4, GoodStep

-----------------------------------------------------------------------------
(* The session and its turns *)

LEMMA AskKeeps ==
  ASSUME ReminderInv, NEW kind \in {"user", "loop"}, NEW origin \in Origins,
         Ask(kind, origin)
  PROVE  ReminderInv'
<1> DEFINE s == [State EXCEPT !.session.up = TRUE]
           m == Message(kind, origin)
           t == Enqueue(s, m)
<1>1. Become(t) /\ UNCHANGED <<begun, told, cutShort>>
  BY DEF Ask, history
<1>2. Good(s)
  BY Opened DEF ReminderInv, Good
<1>3. m \in Messages /\ SpeaksTrue(m) /\ ~IsReminder(m)
  BY PlainMessages
<1> HIDE DEF s, m
<1>4. Good(t)
  BY <1>2, <1>3, EnqueueKeeps DEF Good
<1> HIDE DEF t
<1> QED  BY <1>1, <1>4, GoodStep

LEMMA Working ==
  ASSUME Good(State), NEW busy \in BOOLEAN,
         session.active = NoMessage /\ session.queue = <<>>
  PROVE  Good([State EXCEPT !.session.busy = busy])
<1> DEFINE x == [session EXCEPT !.busy = busy]
           t == [State EXCEPT !.session = x]
<1>1. /\ State \in Work /\ SessionFits(session) /\ session \in Session /\ memo \in Memo
      /\ State.run = run /\ State.session = session /\ State.memo = memo
  BY StateFields
<1>2. x \in Session /\ x.queue = session.queue /\ x.active = session.active
  BY <1>1 DEF Session
<1>3. t = [State EXCEPT !.session.busy = busy]
  BY <1>1
<1> HIDE DEF x
<1>4. t \in Work /\ t.run = run /\ t.session = x /\ t.memo = memo
  BY <1>1, <1>2, Replacing
<1> HIDE DEF t
<1>5. Waiting(t) = Waiting(State) /\ Active(t) = Active(State) /\ SessionFits(x)
  BY <1>1, <1>2, <1>4 DEF Waiting, Active, SessionFits, Range
<1>6. Drops(State, t)
  BY <1>1, <1>4, <1>5, SameDrops
<1>7. Good(t)
  BY <1>1, <1>4, <1>6, GoodDrops
<1> QED  BY <1>3, <1>7

LEMMA InspectKeeps ==
  ASSUME ReminderInv, Inspect
  PROVE  ReminderInv'
<1> DEFINE t == [State EXCEPT !.session.busy = TRUE]
<1>1. Good(State)
  BY DEF ReminderInv, Good
<1>2. session.active = NoMessage /\ session.queue = <<>>
  BY <1>1, StateFields DEF Inspect, Idle, SessionFits
<1>3. Good(t)
  BY <1>1, <1>2, Working
<1>4. t.run = run /\ t.memo = memo /\ t.session = [session EXCEPT !.busy = TRUE]
  BY DEF State
<1>5. Become(t) /\ UNCHANGED <<begun, told, cutShort>>
  BY <1>4 DEF Inspect, Become, history
<1> HIDE DEF t
<1> QED  BY <1>3, <1>5, GoodStep

LEMMA RestKeeps ==
  ASSUME ReminderInv, Rest
  PROVE  ReminderInv'
<1> DEFINE t == [State EXCEPT !.session.busy = FALSE]
<1>1. Good(t)
  BY Working DEF ReminderInv, Good, Rest
<1> HIDE DEF t
<1>2. Good(Notify(t))
  BY <1>1, GoodNotify
<1>3. Become(Notify(t)) /\ UNCHANGED <<begun, told, cutShort>>
  BY DEF Rest, history, t
<1> QED  BY <1>2, <1>3, GoodStep

LEMMA TakeKeeps ==
  ASSUME ReminderInv, Take
  PROVE  ReminderInv'
<1> DEFINE q == session.queue
           h == Head(q)
           p == Tail(q)
           x == [session EXCEPT !.active = h, !.queue = p]
           t == [State EXCEPT !.session = x]
<1>1. Good(State)
  BY DEF ReminderInv, Good
<1>2. /\ State \in Work /\ SessionFits(session) /\ session \in Session
      /\ State.run = run /\ State.session = session /\ State.memo = memo
      /\ Telling(State, told) /\ Carried(State, told, cutShort)
  BY <1>1, StateFields DEF Good, Steady
<1>3. q # <<>> /\ session.active = NoMessage /\ session' = x
      /\ UNCHANGED <<run, memo, begun, told, cutShort>>
  BY DEF Take, history
<1>4. q \in Seq(Messages)
  BY <1>2 DEF Session
<1>5. /\ h \in Range(q) /\ p \in Seq(Messages) /\ Range(q) = Range(p) \cup {h}
  BY <1>3, <1>4, TailKeepsRange
<1>6. h \in Messages /\ h # NoMessage
  BY <1>4, <1>5, NoMessageAssumption DEF Range
<1>7. /\ h = q[1] /\ 1 \in DOMAIN q
      /\ \A j \in DOMAIN p : j + 1 \in DOMAIN q /\ p[j] = q[j + 1] /\ j \in 1 .. Len(p)
  BY <1>3, <1>4
<1> HIDE DEF h, p
<1>8. x \in Session /\ x.queue = p /\ x.active = h /\ x.busy = session.busy
  BY <1>2, <1>5, <1>6 DEF Session
<1> HIDE DEF x
<1>9. t \in Work /\ t.run = run /\ t.session = x /\ t.memo = memo
  BY <1>2, <1>8, Replacing
<1>10. Become(t)
  BY <1>3, <1>9 DEF Become
<1> HIDE DEF t
<1>11. /\ Waiting(State) = Waiting(t) \cup {h} /\ Active(State) = {}
       /\ Active(t) = {h} /\ Waiting(t) = Range(p)
  BY <1>2, <1>3, <1>5, <1>6, <1>8, <1>9 DEF Waiting, Active
<1>12. \A m \in Waiting(t) : IsReminder(m) => ~IsReminder(h)
  <2> SUFFICES ASSUME NEW j \in DOMAIN p, IsReminder(p[j]), IsReminder(h) PROVE FALSE
    BY <1>11 DEF Range
  <2>1. /\ j + 1 \in DOMAIN q /\ p[j] = q[j + 1] /\ j \in 1 .. Len(p) /\ h = q[1]
        /\ 1 \in DOMAIN q
    BY <1>7
  <2>2. j + 1 = 1
    BY <1>2, <2>1 DEF SessionFits
  <2> QED  BY <1>5, <2>1, <2>2
<1>13. SessionFits(x)
  <2>1. ASSUME NEW i \in DOMAIN p, NEW j \in DOMAIN p, IsReminder(p[i]), IsReminder(p[j])
        PROVE  i = j
    <3>1. /\ i + 1 \in DOMAIN q /\ p[i] = q[i + 1] /\ j + 1 \in DOMAIN q /\ p[j] = q[j + 1]
          /\ i \in Int /\ j \in Int
      BY <1>5, <1>7
    <3>2. i + 1 = j + 1
      BY <1>2, <2>1, <3>1 DEF SessionFits
    <3> QED  BY <3>1, <3>2
  <2>2. SpeaksTrue(h) /\ \A m \in Range(p) : SpeaksTrue(m)
    BY <1>2, <1>5 DEF SessionFits
  <2> QED  BY <1>2, <1>3, <1>8, <2>1, <2>2 DEF SessionFits
<1>14. Telling(t, told)
  <2> SUFFICES ASSUME NEW r \in RunId
        PROVE  /\ told[r] \in Sayings(t.run[r])
               /\ h.of[r] \in Sayings(t.run[r]) /\ (h.of[r] = "running" => told[r] \in Early)
               /\ \A m \in Waiting(t) :
                    /\ m.of[r] \in Sayings(t.run[r])
                    /\ m.of[r] = "running" => told[r] \in Early /\ h.of[r] \in Early
    BY <1>11 DEF Telling
  <2>1. /\ told[r] \in Sayings(t.run[r])
        /\ \A m \in Waiting(t) \cup {h} :
             /\ m.of[r] \in Sayings(t.run[r])
             /\ m.of[r] = "running" => told[r] \in Early
    BY <1>2, <1>9, <1>11 DEF Telling
  <2>2. ASSUME NEW m \in Waiting(t), m.of[r] = "running" PROVE h.of[r] \in Early
    <3>1. SpeaksTrue(m) /\ SpeaksTrue(h)
      BY <1>8, <1>11, <1>13, <1>6 DEF SessionFits
    <3>2. IsReminder(m)
      BY <2>2, <3>1, Statuses DEF SpeaksTrue, NoRuns
    <3>3. h.of = NoRuns
      BY <1>12, <3>1, <3>2 DEF SpeaksTrue
    <3> QED  BY <3>3 DEF NoRuns, Early
  <2> QED  BY <2>1, <2>2
<1>15. Carried(t, told, cutShort)
  <2>1. Waiting(t) \cup Active(t) = Waiting(State) \cup Active(State)
    BY <1>11
  <2> QED  BY <1>2, <1>9, <2>1 DEF Carried
<1>16. RunsFit(t) /\ GenerationsFit(t, begun) /\ Wanting(t, TRUE) = Wanting(State, TRUE)
  BY <1>1, <1>2, <1>9 DEF Good, Steady, RunsFit, GenerationsFit, Wanting
<1>17. Steady(t, begun, told, cutShort)
  BY <1>1, <1>8, <1>9, <1>13, <1>14, <1>15, <1>16 DEF Good, Steady
<1>18. Current(t)
  BY <1>1, <1>2, <1>9, <1>11, <1>16 DEF Good, Current, Queued
<1> QED  BY <1>3, <1>10, <1>17, <1>18, GoodStep DEF Good

LEMMA FinishUserKeeps ==
  ASSUME ReminderInv, FinishUser
  PROVE  ReminderInv'
<1>1. Good(State) /\ session.active # NoMessage /\ ~IsReminder(session.active)
  BY DEF ReminderInv, Good, FinishUser, IsReminder
<1>2. Good(Over)
  BY <1>1, GoodOver, OverFields DEF SpeaksTrue
<1>3. Good(Schedule(Over, TRUE))
  BY <1>2, GoodSchedule
<1> QED  BY <1>3, GoodStep DEF FinishUser

LEMMA FinishOtherKeeps ==
  ASSUME ReminderInv, FinishOther
  PROVE  ReminderInv'
<1>1. Good(State) /\ session.active # NoMessage /\ ~IsReminder(session.active)
  BY DEF ReminderInv, Good, FinishOther, IsReminder
<1>2. Good(Over)
  BY <1>1, GoodOver, OverFields DEF SpeaksTrue
<1> QED  BY <1>2, GoodStep DEF FinishOther, history

\* The agent has been told what the reminder says.
LEMMA FinishReminderKeeps ==
  ASSUME ReminderInv, FinishReminder
  PROVE  ReminderInv'
<1> DEFINE m == session.active
           x == [memo EXCEPT !.recovering = @ \ {Key(m)}]
           s == [Over EXCEPT !.memo = x]
           t == Schedule(s, FALSE)
           d == [r \in RunId |-> IF m.of[r] # Unset THEN m.of[r] ELSE told[r]]
<1>1. /\ Good(State) /\ m # NoMessage /\ Telling(State, told) /\ Carried(State, told, cutShort)
      /\ told \in [RunId -> Status \cup {Unset}] /\ State.run = run
  BY StateFields DEF ReminderInv, Good, Steady, FinishReminder
<1>2. CASE ~m.known
  <2>1. Good(Over)
    BY <1>1, <1>2, GoodOver
  <2>2. Become(Over) /\ UNCHANGED <<begun, told, cutShort>>
    BY <1>2 DEF FinishReminder
  <2> QED  BY <2>1, <2>2, GoodStep
<1>3. CASE m.known
  <2>1. /\ Over \in Work /\ Over.run = run /\ Over.memo = memo
        /\ Waiting(Over) = Waiting(State) /\ Active(Over) = {} /\ Active(State) = {m}
        /\ SessionFits(Over.session) /\ m \in Messages
    BY <1>1, OverFields
  <2>2. x \in Memo /\ x.gen = memo.gen /\ x.quiet = memo.quiet
    BY <1>1, StateFields DEF Memo
  <2>3. s = Recovered(Over, m)
    BY <2>1 DEF Recovered
  <2> HIDE DEF x
  <2>4. s \in Work /\ s.run = run /\ s.session = Over.session /\ s.memo = x
    BY <2>1, <2>2, Replacing
  <2> HIDE DEF s
  <2>5. /\ t \in Work /\ t.run = run /\ t.session = Over.session
        /\ t.memo.gen = memo.gen /\ t.memo.quiet = memo.quiet
    BY <2>2, <2>4, ScheduleKeeps
  <2>6. Become(t) /\ told' = d /\ UNCHANGED <<begun, cutShort>>
    BY <1>3, <2>3 DEF FinishReminder
  <2> HIDE DEF t
  <2>7. Waiting(t) = Waiting(State) /\ Active(t) = {}
    BY <2>1, <2>5 DEF Waiting, Active
  <2>8. m.of \in [RunId -> Status \cup {Unset}]
    BY <2>1 DEF Messages
  <2>9. d \in [RunId -> Status \cup {Unset}]
    BY <1>1, <2>8
  <2>10. \A r \in RunId : d[r] = IF m.of[r] # Unset THEN m.of[r] ELSE told[r]
    OBVIOUS
  <2> HIDE DEF d, m
  <2>11. ASSUME NEW r \in RunId
         PROVE  /\ d[r] \in Sayings(run[r])
                /\ told[r] \in Sayings(run[r]) /\ m.of[r] \in Sayings(run[r])
                /\ m.of[r] = "running" => told[r] \in Early
                /\ \A k \in Waiting(t) :
                     /\ k.of[r] \in Sayings(run[r])
                     /\ k.of[r] = "running" => d[r] \in Early
    <3>1. /\ told[r] \in Sayings(run[r]) /\ m.of[r] \in Sayings(run[r])
          /\ m.of[r] = "running" => told[r] \in Early
          /\ \A k \in Waiting(t) :
               /\ k.of[r] \in Sayings(run[r])
               /\ k.of[r] = "running" => told[r] \in Early /\ m.of[r] \in Early
      BY <1>1, <2>1, <2>7 DEF Telling
    <3> QED  BY <3>1, <2>10
  <2>12. Telling(t, d)
    BY <2>5, <2>7, <2>11 DEF Telling
  <2>13. Carried(t, d, cutShort)
    <3> SUFFICES ASSUME NEW r \in RunId, Exists(run[r]), Reserved(run[r]),
                        d[r] # run[r].status, r \notin cutShort
                 PROVE  \E k \in Waiting(t) : k.known /\ k.of[r] = run[r].status
      BY <2>5, <2>7 DEF Carried
    <3>1. run[r].status # Unset
      BY <1>1, StateFields, WorkFields, Statuses DEF RunRecord
    <3>2. told[r] # run[r].status
      <4>1. SUFFICES ASSUME told[r] = run[r].status PROVE FALSE
        OBVIOUS
      <4>2. m.of[r] # Unset /\ d[r] = m.of[r]
        BY <2>10, <4>1
      <4>3. m.of[r] = "running"
        BY <2>11, <4>2 DEF Sayings
      <4>4. run[r].status = "running"
        BY <2>11, <3>1, <4>1, <4>3 DEF Early
      <4> QED  BY <4>2, <4>3, <4>4
    <3>3. PICK k \in Waiting(State) \cup Active(State) : k.known /\ k.of[r] = run[r].status
      BY <1>1, <3>2 DEF Carried
    <3>4. k # m
      BY <2>10, <3>1, <3>3
    <3> QED  BY <2>1, <2>7, <3>3, <3>4
  <2>14. /\ RunsFit(t) /\ GenerationsFit(t, begun) /\ Wanting(t, TRUE) = Wanting(State, TRUE)
    BY <1>1, <2>5, StateFields DEF Good, Steady, RunsFit, GenerationsFit, Wanting
  <2>15. Steady(t, begun, d, cutShort)
    BY <1>1, <2>1, <2>5, <2>9, <2>12, <2>13, <2>14 DEF Good, Steady
  <2>16. Current(t)
    BY <1>1, <2>5, <2>7, <2>14, StateFields DEF Good, Current, Queued
  <2>17. State' = t
    BY <2>5, <2>6, Becoming
  <2> QED  BY <2>6, <2>15, <2>16, <2>17 DEF ReminderInv
<1> QED  BY <1>2, <1>3

LEMMA FailTurnKeeps ==
  ASSUME ReminderInv, FailTurn
  PROVE  ReminderInv'
<1> DEFINE m == session.active
<1>1. Good(State) /\ m # NoMessage /\ UNCHANGED <<begun, told, cutShort>>
  BY DEF ReminderInv, Good, FailTurn, history
<1>2. CASE Become(IF m.known THEN Release(Over, {m}) ELSE Over)
  BY <1>1, <1>2, GoodOver, GoodStep
<1>3. CASE Become(SuppressRuns(Over, m))
  BY <1>1, <1>3, GoodSuppress, GoodStep
<1>4. ASSUME NEW compaction \in BOOLEAN, Become(Defer(Over, m, compaction))
      PROVE  ReminderInv'
  BY <1>1, <1>4, GoodDefer, GoodStep
<1> QED  BY <1>2, <1>3, <1>4 DEF FailTurn

LEMMA CompactionEndsKeeps ==
  ASSUME ReminderInv, CompactionEnds
  PROVE  ReminderInv'
<1> DEFINE x == [memo EXCEPT !.deferred = FALSE]
           s == [State EXCEPT !.memo = x]
<1>1. Good(State) /\ memo \in Memo /\ State.memo = memo
  BY StateFields DEF ReminderInv, Good
<1>2. s = [State EXCEPT !.memo.deferred = FALSE]
  BY <1>1
<1>3. x \in Memo /\ x.gen = memo.gen /\ x.quiet = memo.quiet
  BY <1>1 DEF Memo
<1> HIDE DEF x
<1>4. Good(s)
  BY <1>1, <1>3, GoodMemo
<1> HIDE DEF s
<1>5. Good(Schedule(s, TRUE))
  BY <1>4, GoodSchedule
<1>6. Become(Schedule(s, TRUE)) /\ UNCHANGED <<begun, told, cutShort>>
  BY <1>2 DEF CompactionEnds, history
<1> QED  BY <1>5, <1>6, GoodStep

\* Messages leave the queue, and what was known of them is released.
LEMMA Leaving ==
  ASSUME Good(State), NEW p \in Seq(Messages), Range(p) \subseteq Range(session.queue),
         SessionFits([session EXCEPT !.queue = p]),
         NEW S, \A m \in Range(session.queue) \ Range(p) : m.known => m \in S
  PROVE  Good(Interrupt([State EXCEPT !.session.queue = p], S))
<1> DEFINE x == [session EXCEPT !.queue = p]
           u == [State EXCEPT !.session = x]
           F == {m \in S : m.known}
           t == Release(u, F)
<1>1. /\ State \in Work /\ SessionFits(session) /\ session \in Session /\ memo \in Memo
      /\ State.run = run /\ State.session = session /\ State.memo = memo
  BY StateFields
<1>2. x \in Session /\ x.queue = p /\ x.active = session.active
  BY <1>1 DEF Session
<1>3. Interrupt([State EXCEPT !.session.queue = p], S) = t
  BY <1>1 DEF Interrupt
<1>4. SessionFits(x)
  OBVIOUS
<1> HIDE DEF x
<1>5. u \in Work /\ u.run = run /\ u.session = x /\ u.memo = memo
  BY <1>1, <1>2, Replacing
<1> HIDE DEF u
<1>6. t \in Work /\ t.session = x /\ t.memo = memo /\ Frees(run, t.run, F)
  BY <1>5, ReleaseFrees
<1> HIDE DEF t
<1>7. /\ Waiting(t) = Range(p) /\ Waiting(State) = Range(session.queue)
      /\ Active(t) = Active(State)
  BY <1>1, <1>2, <1>6 DEF Waiting, Active
<1>8. {m \in Gone(State, t) : m.known} \subseteq F
  BY <1>7 DEF Gone
<1> HIDE DEF F
<1>9. Drops(State, t)
  BY <1>1, <1>4, <1>6, <1>7, <1>8, FreedDrops
<1>10. Good(t)
  BY <1>1, <1>6, <1>9, GoodDrops
<1> QED  BY <1>3, <1>10

LEMMA WithdrawKeeps ==
  ASSUME ReminderInv, Withdraw
  PROVE  ReminderInv'
<1> DEFINE q == session.queue
<1>1. /\ Good(State) /\ UNCHANGED <<begun, told, cutShort>> /\ SessionFits(session)
      /\ session \in Session /\ State.session = session
  BY StateFields DEF ReminderInv, Good, Withdraw, history
<1>2. q \in Seq(Messages)
  BY <1>1 DEF Session
<1>3. ASSUME NEW i \in DOMAIN q,
             Become(Interrupt([State EXCEPT !.session.queue = RemoveAt(@, i)],
                              {q[i]} \cap Queued(State)))
      PROVE  ReminderInv'
  <2> DEFINE p == RemoveAt(q, i)
             S == {q[i]} \cap Queued(State)
             x == [session EXCEPT !.queue = p]
  <2>1. /\ p \in Seq(Messages) /\ Len(p) = Len(q) - 1
        /\ \A j \in 1 .. (Len(q) - 1) : p[j] = IF j < i THEN q[j] ELSE q[j + 1]
        /\ Len(q) \in Nat /\ i \in 1 .. Len(q)
    <3>1. q \in Seq(Messages) /\ i \in DOMAIN q
      BY <1>2, <1>3
    <3> HIDE DEF q
    <3>2. Len(q) \in Nat /\ i \in 1 .. Len(q)
      BY <3>1
    <3> QED  BY <3>1, <3>2, RemoveAtProperties
  <2>2. Become(Interrupt([State EXCEPT !.session.queue = p], S))
    BY <1>1, <1>3
  <2> HIDE DEF p
  <2> DEFINE o(j) == IF j < i THEN j ELSE j + 1
  <2>3. \A j \in DOMAIN p : o(j) \in DOMAIN q /\ p[j] = q[o(j)] /\ j \in Int
    BY <1>2, <2>1
  <2>4. \A j \in DOMAIN q : j # i => \E l \in DOMAIN p : p[l] = q[j]
    <3> SUFFICES ASSUME NEW j \in DOMAIN q, j # i PROVE \E l \in DOMAIN p : p[l] = q[j]
      OBVIOUS
    <3>1. CASE j < i
      BY <1>2, <2>1, <3>1
    <3>2. CASE j > i
      <4>1. j - 1 \in DOMAIN p /\ p[j - 1] = q[j]
        BY <1>2, <2>1, <3>2
      <4> QED  BY <4>1
    <3> QED  BY <1>2, <2>1, <3>1, <3>2
  <2>5. Range(p) \subseteq Range(q) /\ \A m \in Range(q) \ Range(p) : m = q[i]
    BY <2>3, <2>4 DEF Range
  <2>6. \A m \in Range(q) \ Range(p) : m.known => m \in S
    BY <1>1, <2>5 DEF Queued, Waiting, SessionFits, SpeaksTrue
  <2>7. x.queue = p /\ x.active = session.active /\ x.busy = session.busy
    BY <1>1 DEF Session
  <2>8. ~session.busy => p = <<>>
    BY <1>1, <2>1 DEF SessionFits
  <2>9. ASSUME NEW j \in DOMAIN p, NEW l \in DOMAIN p, IsReminder(p[j]), IsReminder(p[l])
        PROVE  j = l
    <3>1. o(j) = o(l) /\ j \in Int /\ l \in Int
      BY <1>1, <2>3, <2>9 DEF SessionFits
    <3> QED  BY <2>1, <3>1
  <2> HIDE DEF x
  <2>10. SessionFits(x)
    BY <1>1, <2>5, <2>7, <2>8, <2>9 DEF SessionFits
  <2>11. Good(Interrupt([State EXCEPT !.session.queue = p], S))
    BY <1>1, <2>1, <2>5, <2>6, <2>10, Leaving DEF x
  <2> QED  BY <1>1, <2>2, <2>11, GoodStep
<1>4. ASSUME session.active # NoMessage, Become(Interrupt(Over, {session.active}))
      PROVE  ReminderInv'
  <2> DEFINE m == session.active
             t == Interrupt(Over, {m})
  <2>1. Good(Release(Over, {m})) /\ (~m.known => Good(Over))
    BY <1>1, <1>4, GoodOver
  <2>2. Over \in Work
    BY <1>1, <1>4, OverFields
  <2>3. CASE m.known
    <3>1. {k \in {m} : k.known} = {m}
      BY <2>3
    <3> QED  BY <1>1, <1>4, <2>1, <3>1, GoodStep DEF Interrupt
  <2>4. CASE ~m.known
    <3>1. {k \in {m} : k.known} = {}
      BY <2>4
    <3>2. t = Release(Over, {})
      BY <3>1 DEF Interrupt
    <3>3. t \in Work /\ t.session = Over.session /\ t.memo = Over.memo
          /\ Frees(Over.run, t.run, {})
      BY <2>2, <3>2, ReleaseFrees
    <3> HIDE DEF t
    <3>4. /\ \A r \in RunId : t.run[r] = Over.run[r]
          /\ Waiting(t) = Waiting(Over) /\ Active(t) = Active(Over)
      BY <3>3 DEF Frees, Waiting, Active
    <3>5. Drops(Over, t)
      BY <2>1, <2>4, <3>3, <3>4 DEF Drops, Gone, Good, Steady
    <3>6. Good(t)
      BY <2>1, <2>4, <3>3, <3>5, GoodDrops
    <3> QED  BY <1>1, <1>4, <3>6, GoodStep DEF t
  <2> QED  BY <2>3, <2>4
<1> QED  BY <1>3, <1>4 DEF Withdraw

LEMMA ClearQueueKeeps ==
  ASSUME ReminderInv, ClearQueue
  PROVE  ReminderInv'
<1> DEFINE x == [session EXCEPT !.queue = <<>>]
           t == Interrupt([State EXCEPT !.session.queue = <<>>], Waiting(State))
<1>1. /\ Good(State) /\ SessionFits(session) /\ session \in Session
      /\ State.session = session
  BY StateFields DEF ReminderInv, Good
<1>2. <<>> \in Seq(Messages) /\ Range(<<>>) = {} /\ Range(session.queue) = Waiting(State)
  BY <1>1 DEF Range, Waiting
<1>3. x.queue = <<>> /\ x.active = session.active /\ x.busy = session.busy
  BY <1>1 DEF Session
<1> HIDE DEF x
<1>4. SessionFits(x)
  BY <1>1, <1>2, <1>3 DEF SessionFits
<1>5. Good(t)
  BY <1>1, <1>2, <1>4, Leaving DEF x
<1>6. Become(Notify(t)) /\ UNCHANGED <<begun, told, cutShort>>
  BY DEF ClearQueue, history
<1> HIDE DEF t
<1> QED  BY <1>5, <1>6, GoodNotify, GoodStep

-----------------------------------------------------------------------------
(* The runs *)

LEMMA Recording ==
  ASSUME Good(State), NEW r \in RunId, NEW y \in RunRecord
  PROVE  LET t == [State EXCEPT !.run[r] = y] IN
         /\ t \in Work /\ t.session = session /\ t.memo = memo /\ t.run[r] = y
         /\ \A q \in RunId \ {r} : t.run[q] = run[q]
         /\ Waiting(t) = Waiting(State) /\ Active(t) = Active(State)
<1> DEFINE f == [run EXCEPT ![r] = y]
           t == [State EXCEPT !.run = f]
<1>1. /\ State \in Work /\ run \in [RunId -> RunRecord \cup {NoRun}]
      /\ State.run = run /\ State.session = session /\ State.memo = memo
  BY StateFields
<1>2. t = [State EXCEPT !.run[r] = y]
  BY <1>1
<1>3. /\ f \in [RunId -> RunRecord \cup {NoRun}] /\ f[r] = y
      /\ \A q \in RunId \ {r} : f[q] = run[q]
  BY <1>1
<1> HIDE DEF f
<1>4. t \in Work /\ t.run = f /\ t.session = session /\ t.memo = memo
  BY <1>1, <1>3, Replacing
<1> HIDE DEF t
<1>5. Waiting(t) = Waiting(State) /\ Active(t) = Active(State)
  BY <1>1, <1>4 DEF Waiting, Active
<1> QED  BY <1>2, <1>3, <1>4, <1>5

LEMMA HushedSteady ==
  ASSUME Good(State), NEW r \in RunId, Exists(run[r]), NEW y, Hushed(run[r], y)
  PROVE  LET t == [State EXCEPT !.run[r] = y] IN
         Steady(t, begun, told, cutShort) /\ Queued(t) = Queued(State)
<1> DEFINE t == [State EXCEPT !.run[r] = y]
<1>1. y \in RunRecord
  BY DEF Hushed
<1>2. /\ t \in Work /\ t.session = session /\ t.memo = memo /\ t.run[r] = y
      /\ \A q \in RunId \ {r} : t.run[q] = run[q]
  BY <1>1, Recording
<1>3. State.run = run /\ State.session = session /\ State.memo = memo
  BY StateFields
<1> HIDE DEF t
<1>4. Hushes(State, t)
  BY <1>2, <1>3 DEF Hushes
<1>5. Steady(t, begun, told, cutShort) /\ Queued(t) = Queued(State)
  BY <1>4, HushesKeep DEF Good
<1> QED  BY <1>5 DEF t

LEMMA ToolKeeps ==
  ASSUME ReminderInv, NEW r \in RunId, Exists(run[r]), NEW y, Hushed(run[r], y),
         Become(Refresh([State EXCEPT !.run[r] = y])), UNCHANGED <<begun, told, cutShort>>
  PROVE  ReminderInv'
<1> DEFINE t == [State EXCEPT !.run[r] = y]
<1>1. Steady(t, begun, told, cutShort)
  BY HushedSteady DEF ReminderInv, Good
<1>2. Become(Refresh(t))
  OBVIOUS
<1> HIDE DEF t
<1>3. Good(Refresh(t))
  BY <1>1, RefreshKeeps DEF Good
<1> QED  BY <1>2, <1>3, GoodStep

LEMMA ReadKeeps ==
  ASSUME ReminderInv, NEW r \in RunId, ReadRun(r) \/ Acknowledge(r) \/ Cancel(r)
  PROVE  ReminderInv'
<1>1. /\ Good(State) /\ State.run = run /\ Exists(run[r]) /\ run[r] \in RunRecord
      /\ UNCHANGED <<begun, told, cutShort>>
  BY StateFields, WorkFields DEF ReminderInv, Good, ReadRun, Acknowledge, Cancel, history
<1>2. CASE ReadRun(r)
  <2>1. Hushed(run[r], ReadBy(run[r]))
    BY <1>1, <1>2, Hushing DEF ReadRun
  <2>2. Become(Refresh([State EXCEPT !.run[r] = ReadBy(run[r])]))
    BY <1>1, <1>2 DEF ReadRun
  <2> QED  BY <1>1, <2>1, <2>2, ToolKeeps
<1>3. CASE Acknowledge(r)
  <2>1. Hushed(run[r], Acknowledged(run[r]))
    BY <1>1, Hushing
  <2>2. Become(Refresh([State EXCEPT !.run[r] = Acknowledged(run[r])]))
    BY <1>1, <1>3 DEF Acknowledge
  <2> QED  BY <1>1, <2>1, <2>2, ToolKeeps
<1>4. CASE Cancel(r)
  <2>1. Hushed(run[r], Cancelled(run[r]))
    BY <1>1, Hushing
  <2>2. Become(Refresh([State EXCEPT !.run[r] = Cancelled(run[r])]))
    BY <1>1, <1>4 DEF Cancel
  <2> QED  BY <1>1, <2>1, <2>2, ToolKeeps
<1> QED  BY <1>2, <1>3, <1>4

\* A run is recorded that nobody was told of in its new status.
LEMMA NewsKeeps ==
  ASSUME Good(State), NEW r \in RunId, NEW y \in RunRecord, y.notified # y.status,
         ~IsTerminal(y) => {y.notified, y.acked} \subseteq {Unset, "running"},
         Sayings(run[r]) \subseteq Sayings(y),
         Exists(run[r]) /\ Needs(run[r], TRUE) => Needs(y, TRUE),
         NEW b, b \in [RunId -> [gen : Nat, origin : Origins]],
         \A q \in RunId \ {r} : b[q] = begun[q],
         ~IsTerminal(y) => b[r].gen = memo.gen
  PROVE  LET t == [State EXCEPT !.run[r] = y] IN
         Steady(t, b, told, cutShort) /\ Current(t)
<1> DEFINE t == [State EXCEPT !.run[r] = y]
<1>1. /\ t \in Work /\ t.session = session /\ t.memo = memo /\ t.run[r] = y
      /\ \A q \in RunId \ {r} : t.run[q] = run[q]
      /\ Waiting(t) = Waiting(State) /\ Active(t) = Active(State)
  BY Recording
<1>2. /\ State.run = run /\ State.session = session /\ State.memo = memo
      /\ SessionFits(session)
  BY StateFields
<1> HIDE DEF t
<1>3. /\ Steady(State, begun, told, cutShort) /\ Current(State) /\ RunsFit(State)
      /\ Telling(State, told) /\ Carried(State, told, cutShort) /\ GenerationsFit(State, begun)
  BY DEF Good, Steady
<1>4. Exists(y)
  BY RunRecordAssumption DEF Exists
<1>5. RunsFit(t)
  BY <1>1, <1>2, <1>3 DEF RunsFit
<1>6. \A q \in RunId : Sayings(run[q]) \subseteq Sayings(t.run[q])
  BY <1>1
<1>7. Telling(t, told)
  <2> SUFFICES ASSUME NEW q \in RunId
        PROVE  /\ told[q] \in Sayings(t.run[q])
               /\ \A m \in Active(t) :
                    m.of[q] \in Sayings(t.run[q]) /\ (m.of[q] = "running" => told[q] \in Early)
               /\ \A m \in Waiting(t) :
                    /\ m.of[q] \in Sayings(t.run[q])
                    /\ m.of[q] = "running" =>
                         told[q] \in Early /\ \A a \in Active(t) : a.of[q] \in Early
    BY DEF Telling
  <2>1. /\ told[q] \in Sayings(run[q])
        /\ \A m \in Active(t) :
             m.of[q] \in Sayings(run[q]) /\ (m.of[q] = "running" => told[q] \in Early)
        /\ \A m \in Waiting(t) :
             /\ m.of[q] \in Sayings(run[q])
             /\ m.of[q] = "running" =>
                  told[q] \in Early /\ \A a \in Active(t) : a.of[q] \in Early
    BY <1>1, <1>2, <1>3 DEF Telling
  <2> QED  BY <1>6, <2>1
<1>8. Carried(t, told, cutShort)
  <2>1. ~Reserved(y)
    BY DEF Reserved, Needs
  <2> QED  BY <1>1, <1>2, <1>3, <2>1 DEF Carried
<1>9. Wanting(State, TRUE) \subseteq Wanting(t, TRUE)
  BY <1>1, <1>2, <1>4 DEF Wanting
<1>10. GenerationsFit(t, b)
  <2> SUFFICES ASSUME NEW q \in Wanting(t, TRUE), ~IsTerminal(t.run[q])
               PROVE  b[q].gen = memo.gen
    BY <1>1 DEF GenerationsFit
  <2>1. q \in RunId
    BY DEF Wanting
  <2>2. CASE q = r
    BY <1>1, <2>2
  <2>3. CASE q # r
    <3>1. t.run[q] = run[q] /\ q \in Wanting(State, TRUE)
      BY <1>1, <1>2, <2>1, <2>3 DEF Wanting
    <3> QED  BY <1>2, <1>3, <2>1, <2>3, <3>1 DEF GenerationsFit
  <2> QED  BY <2>2, <2>3
<1>11. Steady(t, b, told, cutShort)
  BY <1>1, <1>2, <1>3, <1>5, <1>7, <1>8, <1>10 DEF Steady
<1>12. Current(t)
  BY <1>1, <1>2, <1>3, <1>9 DEF Current, Queued
<1> QED  BY <1>11, <1>12 DEF t

LEMMA StartKeeps ==
  ASSUME ReminderInv, NEW r \in RunId, StartRun(r)
  PROVE  ReminderInv'
<1> DEFINE y == NewRun("tracked")
           t == [State EXCEPT !.run[r] = y]
<1>1. /\ Good(State) /\ State.run = run /\ State.session = session /\ State.memo = memo
      /\ SessionFits(session) /\ memo \in Memo /\ session \in Session
      /\ begun \in [RunId -> [gen : Nat, origin : Origins]]
      /\ run \in [RunId -> RunRecord \cup {NoRun}]
  BY StateFields DEF ReminderInv, Good, Steady
<1>2. /\ session.active # NoMessage /\ ~Exists(run[r])
      /\ UNCHANGED <<session, memo, told, cutShort>>
      /\ run' = [run EXCEPT ![r] = y]
      /\ begun' = [begun EXCEPT ![r] = [gen |-> memo.gen, origin |-> session.active.origin]]
  BY DEF StartRun, InTurn, history
<1>3. /\ y \in RunRecord /\ y.notified # y.status /\ ~IsTerminal(y) /\ y.status = "running"
      /\ {y.notified, y.acked} \subseteq {Unset, "running"} /\ Exists(y)
  <2>1. /\ y \in RunRecord /\ y.status = "running" /\ y.notified = Unset /\ y.acked = Unset
    BY DEF NewRun, RunRecord, Status, Policy
  <2> HIDE DEF y
  <2> QED  BY <2>1, Statuses, RunRecordAssumption DEF IsTerminal, Exists
<1>4. session.active \in Messages
  BY <1>1, <1>2 DEF Session
<1>5. /\ begun' \in [RunId -> [gen : Nat, origin : Origins]]
      /\ \A q \in RunId \ {r} : begun'[q] = begun[q]
      /\ begun'[r].gen = memo.gen
  BY <1>1, <1>2, <1>4 DEF Memo, Messages
<1>6. Sayings(run[r]) \subseteq Sayings(y)
  BY <1>2, <1>3 DEF Sayings
<1>7. t.run = run' /\ t.session = session /\ t.memo = memo
  BY <1>1, <1>2 DEF State
<1>8. State' = t
  <2>1. State' = [run |-> run', session |-> session, memo |-> memo]
    BY <1>2 DEF State
  <2>2. t = [run |-> [run EXCEPT ![r] = y], session |-> session, memo |-> memo]
    BY DEF State
  <2> QED  BY <1>2, <2>1, <2>2
<1> HIDE DEF y
<1>9. Steady(t, begun', told, cutShort) /\ Current(t)
  BY <1>1, <1>2, <1>3, <1>5, <1>6, NewsKeeps
<1> HIDE DEF t
<1> QED  BY <1>2, <1>8, <1>9 DEF ReminderInv

LEMMA CompleteKeeps ==
  ASSUME ReminderInv, NEW r \in RunId, Complete(r)
  PROVE  ReminderInv'
<1> DEFINE y == Ended(run[r], "completed")
           u == [State EXCEPT !.run[r] = y]
           z == Suppressed(y)
           v == [State EXCEPT !.run[r] = z]
<1>1. /\ Good(State) /\ State.run = run /\ State.session = session /\ State.memo = memo
      /\ SessionFits(session) /\ memo \in Memo
      /\ begun \in [RunId -> [gen : Nat, origin : Origins]]
      /\ State \in Work /\ run \in [RunId -> RunRecord \cup {NoRun}]
  BY StateFields DEF ReminderInv, Good, Steady
<1>2. /\ Exists(run[r]) /\ ~IsTerminal(run[r]) /\ run[r] \in RunRecord
      /\ UNCHANGED <<begun, told, cutShort>> /\ Become(TerminalReminder(u, r))
  BY <1>1, WorkFields DEF Complete, history
<1>3. u.run[r] = y /\ u.memo = memo
  BY <1>1, <1>2 DEF State
<1>4. CASE begun[r].gen # memo.gen \/ memo.quiet # "no"
  <2>1. v = [u EXCEPT !.run[r] = Suppressed(@)]
    BY <1>1 DEF Work
  <2>2. Become(v)
    BY <1>2, <1>3, <1>4, <2>1 DEF TerminalReminder
  <2>3. Hushed(run[r], z)
    BY <1>2, Hushing
  <2> HIDE DEF z, y, u
  <2>4. Steady(v, begun, told, cutShort) /\ Queued(v) = Queued(State)
    BY <1>1, <1>2, <2>3, HushedSteady
  <2>5. /\ v.memo = memo /\ v.run[r] = z /\ \A q \in RunId \ {r} : v.run[q] = run[q]
    BY <1>1, <2>3, Recording DEF Hushed
  <2> HIDE DEF v
  <2>6. Current(v)
    <3>1. CASE memo.quiet # "no"
      BY <1>1, <2>4, <3>1 DEF Good, Current
    <3>2. CASE begun[r].gen # memo.gen
      <4>1. r \notin Wanting(State, TRUE)
        BY <1>1, <1>2, <3>2 DEF Good, Steady, GenerationsFit
      <4>2. Wanting(State, TRUE) \subseteq Wanting(v, TRUE)
        BY <1>1, <2>5, <4>1 DEF Wanting
      <4> QED  BY <1>1, <2>4, <2>5, <4>2 DEF Good, Current
    <3> QED  BY <1>4, <3>1, <3>2
  <2> QED  BY <1>2, <2>2, <2>4, <2>6, GoodStep DEF Good
<1>5. CASE ~(begun[r].gen # memo.gen \/ memo.quiet # "no")
  <2>1. Become(Schedule(u, FALSE))
    BY <1>2, <1>3, <1>5 DEF TerminalReminder
  <2>2. /\ y \in RunRecord /\ y.status = "completed" /\ y.notified = run[r].notified
        /\ y.acked = run[r].acked /\ y.policy = run[r].policy
        /\ y.consumed = run[r].consumed /\ run[r].status = "running" /\ IsTerminal(y)
    BY <1>2 DEF Ended, RunRecord, Status, Terminal, IsTerminal
  <2> HIDE DEF y
  <2>3. y.notified \in {Unset, "running"} /\ y.acked \in {Unset, "running"}
    BY <1>1, <1>2, <2>2 DEF Good, Steady, RunsFit
  <2>4. y.notified # y.status /\ y.acked # y.status
    BY <2>2, <2>3, Statuses DEF Terminal
  <2>5. Sayings(run[r]) \subseteq Sayings(y)
    BY <1>2, <2>2, RunRecordAssumption DEF Sayings, Exists
  <2>6. Needs(run[r], TRUE) => Needs(y, TRUE)
    BY <2>2, <2>4 DEF Needs
  <2>7. Good(u)
    BY <1>1, <2>2, <2>4, <2>5, <2>6, NewsKeeps DEF Good
  <2> HIDE DEF u
  <2>8. Good(Schedule(u, FALSE))
    BY <2>7, GoodSchedule
  <2> QED  BY <1>2, <2>1, <2>8, GoodStep
<1> QED  BY <1>4, <1>5

-----------------------------------------------------------------------------
(* Invalidation, disposal and restart *)

\* An invalidation knows no message any more and wants no run to be told of,
\* so that nothing is left to carry.
LEMMA GoodInvalidate ==
  ASSUME Good(State)
  PROVE  LET t == Invalidate(State) IN
         Good(t) /\ Queued(t) = {} /\ t.memo.quiet = memo.quiet
<1> DEFINE Unknown(m) == [m EXCEPT !.known = FALSE]
           q == [i \in DOMAIN session.queue |-> Unknown(session.queue[i])]
           a == IF session.active = NoMessage THEN NoMessage ELSE Unknown(session.active)
           n == memo.gen + 1
           x == [memo EXCEPT !.gen = n, !.sched = "none", !.deferred = FALSE,
                             !.recovering = {}, !.warned = FALSE]
           y == [session EXCEPT !.active = a, !.queue = q]
           f == [State EXCEPT !.memo = x, !.session = y]
           g == RemoveQueued(f)
           h == [r \in RunId |-> IF Exists(g.run[r]) THEN Suppressed(g.run[r]) ELSE NoRun]
           t == [g EXCEPT !.run = h]
<1>1. /\ State \in Work /\ SessionFits(session) /\ session \in Session /\ memo \in Memo
      /\ run \in [RunId -> RunRecord \cup {NoRun}]
      /\ State.run = run /\ State.session = session /\ State.memo = memo
  BY StateFields
<1>2. Invalidate(State) = t
  <2>1. f = [State EXCEPT !.memo.gen = @ + 1, !.memo.sched = "none",
                          !.memo.deferred = FALSE, !.memo.recovering = {},
                          !.memo.warned = FALSE,
                          !.session.active =
                            IF @ = NoMessage THEN @ ELSE [@ EXCEPT !.known = FALSE],
                          !.session.queue = [i \in DOMAIN @ |-> [@[i] EXCEPT !.known = FALSE]]]
    BY <1>1, ZenonT(40)
  <2> HIDE DEF f
  <2> QED  BY <2>1 DEF Invalidate
<1>3. \A m \in Messages : /\ Unknown(m) \in Messages /\ Unknown(m).of = m.of
                          /\ Unknown(m).kind = m.kind /\ ~Unknown(m).known
                          /\ Unknown(m) # NoMessage
  BY NoMessageAssumption DEF Messages
<1>4. session.queue \in Seq(Messages) /\ session.active \in Messages \cup {NoMessage}
  BY <1>1 DEF Session
<1> HIDE DEF Unknown
<1>5. /\ q \in Seq(Messages) /\ DOMAIN q = DOMAIN session.queue
      /\ \A i \in DOMAIN q : q[i] = Unknown(session.queue[i]) /\ session.queue[i] \in Messages
      /\ session.queue = <<>> => q = <<>>
  <2>1. /\ Len(session.queue) \in Nat /\ DOMAIN session.queue = 1 .. Len(session.queue)
        /\ \A i \in 1 .. Len(session.queue) : session.queue[i] \in Messages
    BY <1>4
  <2>2. q \in [1 .. Len(session.queue) -> Messages]
    BY <1>3, <2>1
  <2>3. q \in Seq(Messages)
    BY <2>1, <2>2, IsASeq
  <2>4. session.queue = <<>> => Len(q) = 0
    BY <2>1, <2>2
  <2> QED  BY <2>1, <2>3, <2>4, EmptySeq
<1>6. /\ a \in Messages \cup {NoMessage} /\ (a = NoMessage <=> session.active = NoMessage)
      /\ a # NoMessage => a = Unknown(session.active) /\ session.active \in Messages
  BY <1>3, <1>4
<1> HIDE DEF q, a
<1>7. y \in Session /\ y.active = a /\ y.queue = q /\ y.busy = session.busy
  BY <1>1, <1>5, <1>6 DEF Session
<1>8. x \in Memo /\ x.quiet = memo.quiet
  <2>1. n \in Nat
    BY <1>1 DEF Memo
  <2> HIDE DEF n
  <2> QED  BY <1>1, <2>1 DEF Memo
<1> HIDE DEF x, y
<1>9. f \in Work /\ f.run = run /\ f.session = y /\ f.memo = x
  BY <1>1, <1>7, <1>8 DEF Work
<1> HIDE DEF f
<1>10. /\ \A m \in Waiting(f) : \E o \in Waiting(State) : o \in Messages /\ m = Unknown(o)
       /\ \A m \in Active(f) : \E o \in Active(State) : o \in Messages /\ m = Unknown(o)
  BY <1>1, <1>5, <1>6, <1>7, <1>9 DEF Waiting, Active, Range
<1>11. SessionFits(y)
  <2>1. ASSUME NEW i \in DOMAIN q, NEW j \in DOMAIN q, IsReminder(q[i]), IsReminder(q[j])
        PROVE  i = j
    <3>1. IsReminder(session.queue[i]) /\ IsReminder(session.queue[j])
      BY <1>3, <1>5, <2>1 DEF IsReminder
    <3> QED  BY <1>1, <1>5, <3>1 DEF SessionFits
  <2>2. \A m \in Messages : SpeaksTrue(m) => SpeaksTrue(Unknown(m))
    BY <1>3 DEF SpeaksTrue, IsReminder
  <2>3. /\ \A m \in Range(q) : SpeaksTrue(m)
        /\ a # NoMessage => SpeaksTrue(a)
    BY <1>1, <1>5, <1>6, <2>2 DEF SessionFits, Range
  <2> QED  BY <1>1, <1>5, <1>6, <1>7, <2>1, <2>3 DEF SessionFits
<1>12. /\ g \in Work /\ Queued(g) = {} /\ SessionFits(g.session)
       /\ Waiting(g) \subseteq Waiting(f) /\ Active(g) = Active(f)
       /\ g.memo.gen = x.gen /\ g.memo.quiet = x.quiet
       /\ Frees(run, g.run, {m \in Queued(f) : m.known})
  BY <1>9, <1>11, RemoveQueuedFields
<1> HIDE DEF g
<1>13. \A r \in RunId : g.run[r] = run[r]
  <2>1. {m \in Queued(f) : m.known} = {}
    BY <1>3, <1>10 DEF Queued
  <2> QED  BY <1>12, <2>1 DEF Frees
<1>14. \A r \in RunId : IF Exists(run[r])
                        THEN Exists(h[r]) /\ Hushed(run[r], h[r]) /\ h[r].status = run[r].status
                             /\ h[r].acked = run[r].status
                        ELSE h[r] = run[r] /\ h[r] = NoRun
  <2> SUFFICES ASSUME NEW r \in RunId
        PROVE  IF Exists(run[r])
               THEN Exists(h[r]) /\ Hushed(run[r], h[r]) /\ h[r].status = run[r].status
                    /\ h[r].acked = run[r].status
               ELSE h[r] = run[r] /\ h[r] = NoRun
    OBVIOUS
  <2>1. h[r] = IF Exists(run[r]) THEN Suppressed(run[r]) ELSE NoRun
    BY <1>13
  <2>2. Exists(run[r]) => run[r] \in RunRecord
    BY <1>1, WorkFields
  <2> HIDE DEF h
  <2>3. ASSUME NEW z \in RunRecord
        PROVE  /\ Hushed(z, Suppressed(z)) /\ Exists(Suppressed(z))
               /\ Suppressed(z).status = z.status /\ Suppressed(z).acked = z.status
    <3>1. Suppressed(z).status = z.status /\ Suppressed(z).acked = z.status
      BY DEF Suppressed, RunRecord
    <3>2. Hushed(z, Suppressed(z))
      BY Hushing
    <3> QED  BY <3>1, <3>2, RunRecordAssumption DEF Exists, Hushed
  <2> QED  BY <2>1, <2>2, <2>3 DEF Exists
<1>15. h \in [RunId -> RunRecord \cup {NoRun}]
  <2>1. \A r \in RunId : h[r] \in RunRecord \cup {NoRun}
    BY <1>14 DEF Hushed
  <2>2. h = [r \in RunId |-> h[r]]
    OBVIOUS
  <2> HIDE DEF h
  <2> QED  BY <2>1, <2>2
<1> HIDE DEF h
<1>16. t \in Work /\ t.run = h /\ t.session = g.session /\ t.memo = g.memo
  BY <1>12, <1>15, Replacing
<1> HIDE DEF t
<1>17. Queued(t) = {} /\ SessionFits(t.session) /\ Waiting(t) = Waiting(g)
       /\ Active(t) = Active(f)
  BY <1>12, <1>16 DEF Queued, Waiting, Active
<1>18. \A r \in RunId : /\ Exists(h[r]) => ~Needs(h[r], TRUE)
                        /\ Sayings(h[r]) = Sayings(run[r])
  BY <1>14 DEF Hushed, Sayings
<1>19. RunsFit(t)
  <2> SUFFICES ASSUME NEW r \in RunId, Exists(h[r]), ~IsTerminal(h[r])
               PROVE  {h[r].notified, h[r].acked} \subseteq {Unset, "running"}
    BY <1>16 DEF RunsFit
  <2>1. /\ Exists(run[r]) /\ h[r].notified = run[r].notified
        /\ ~IsTerminal(run[r]) /\ h[r].acked \in {run[r].acked, "running"}
    BY <1>14 DEF Hushed, Exists, IsTerminal
  <2>2. {run[r].notified, run[r].acked} \subseteq {Unset, "running"}
    BY <1>1, <2>1 DEF Good, Steady, RunsFit
  <2> QED  BY <2>1, <2>2
<1>20. Telling(t, told)
  <2> SUFFICES ASSUME NEW r \in RunId
        PROVE  /\ told[r] \in Sayings(run[r])
               /\ \A m \in Active(f) :
                    m.of[r] \in Sayings(run[r]) /\ (m.of[r] = "running" => told[r] \in Early)
               /\ \A m \in Waiting(f) :
                    /\ m.of[r] \in Sayings(run[r])
                    /\ m.of[r] = "running" =>
                         told[r] \in Early /\ \A k \in Active(f) : k.of[r] \in Early
    BY <1>12, <1>16, <1>17, <1>18 DEF Telling
  <2>1. /\ told[r] \in Sayings(run[r])
        /\ \A m \in Active(State) :
             m.of[r] \in Sayings(run[r]) /\ (m.of[r] = "running" => told[r] \in Early)
        /\ \A m \in Waiting(State) :
             /\ m.of[r] \in Sayings(run[r])
             /\ m.of[r] = "running" =>
                  told[r] \in Early /\ \A k \in Active(State) : k.of[r] \in Early
    BY <1>1 DEF Good, Steady, Telling
  <2> QED  BY <1>3, <1>10, <2>1
<1>21. Carried(t, told, cutShort) /\ GenerationsFit(t, begun)
  BY <1>16, <1>18 DEF Carried, GenerationsFit, Reserved, Wanting
<1>22. Steady(t, begun, told, cutShort)
  BY <1>16, <1>17, <1>19, <1>20, <1>21 DEF Good, Steady
<1>23. Current(t)
  BY <1>17 DEF Current
<1> QED  BY <1>2, <1>8, <1>12, <1>16, <1>17, <1>22, <1>23 DEF Good

LEMMA AbortKeeps ==
  ASSUME ReminderInv, Abort
  PROVE  ReminderInv'
BY GoodInvalidate, GoodStep DEF Abort, ReminderInv, Good, history

LEMMA Quieting ==
  ASSUME NEW s, Good(s), NEW q \in {"no", "rebind", "teardown"}, q = "no" \/ Queued(s) = {}
  PROVE  Good([s EXCEPT !.memo.quiet = q])
<1> DEFINE x == [s.memo EXCEPT !.quiet = q]
<1>1. x \in Memo /\ x.gen = s.memo.gen /\ x.quiet = q
  <2>1. s.memo \in Memo
    BY WorkFields DEF Good, Steady
  <2> QED  BY <2>1 DEF Memo
<1> HIDE DEF x
<1>2. Good([s EXCEPT !.memo = x])
  BY <1>1, GoodMemo
<1> QED  BY <1>2 DEF x

LEMMA QuiesceKeeps ==
  ASSUME ReminderInv, Quiesce
  PROVE  ReminderInv'
<1> DEFINE s == Invalidate(State)
           t == [s EXCEPT !.memo.quiet = "teardown"]
<1>1. Good(s) /\ Queued(s) = {}
  BY GoodInvalidate DEF ReminderInv, Good
<1>2. Become(t) /\ UNCHANGED <<begun, told, cutShort>>
  BY DEF Quiesce, history
<1> HIDE DEF s
<1>3. Good(t)
  BY <1>1, Quieting
<1> HIDE DEF t
<1> QED  BY <1>2, <1>3, GoodStep

LEMMA RebindKeeps ==
  ASSUME ReminderInv, Rebind
  PROVE  ReminderInv'
<1> DEFINE t == [State EXCEPT !.memo.quiet = "rebind"]
<1>1. /\ Good(State) /\ SessionFits(session) /\ State.session = session
      /\ ~session.busy /\ memo' = [memo EXCEPT !.quiet = "rebind"]
      /\ UNCHANGED <<run, session, begun, told, cutShort>>
  BY StateFields DEF ReminderInv, Good, Rebind
<1>2. Queued(State) = {}
  BY <1>1 DEF SessionFits, Queued, Waiting, Range
<1>3. Good(t)
  BY <1>1, <1>2, Quieting
<1>4. Become(t)
  BY <1>1 DEF Become, State
<1> HIDE DEF t
<1> QED  BY <1>1, <1>3, <1>4, GoodStep

\* What the runtime has in hand when it goes is released.
LEMMA GoodDispose ==
  ASSUME Good(State)
  PROVE  Good(Dispose(State)) /\ Queued(Dispose(State)) = {}
<1> DEFINE S == {m \in Waiting(State) \cup Active(State) : m.known}
           s == Release(State, S)
           t == [s EXCEPT !.session = NoSession]
<1>1. State \in Work /\ State.run = run /\ State.memo = memo
  BY StateFields
<1>2. Dispose(State) = t
  BY DEF Dispose, Interrupt
<1>3. s \in Work /\ s.memo = memo /\ Frees(run, s.run, S)
  BY <1>1, ReleaseFrees
<1> HIDE DEF s
<1>4. /\ NoSession \in Session /\ SessionFits(NoSession) /\ NoSession.queue = <<>>
      /\ NoSession.active = NoMessage
  BY DEF NoSession, Session, SessionFits, Range
<1>5. t \in Work /\ t.run = s.run /\ t.session = NoSession /\ t.memo = memo
  BY <1>3, <1>4, Replacing
<1> HIDE DEF t
<1>6. Waiting(t) = {} /\ Active(t) = {} /\ Queued(t) = {}
  BY <1>4, <1>5 DEF Waiting, Active, Queued, Range
<1>7. {m \in Gone(State, t) : m.known} \subseteq S
  BY DEF Gone
<1> HIDE DEF S
<1>8. Drops(State, t)
  BY <1>1, <1>3, <1>4, <1>5, <1>6, <1>7, FreedDrops
<1>9. Good(t)
  BY <1>6, <1>8, GoodDrops
<1> QED  BY <1>2, <1>6, <1>9

LEMMA ResetKeeps ==
  ASSUME ReminderInv, Reset
  PROVE  ReminderInv'
BY GoodDispose, GoodStep DEF Reset, ReminderInv, Good

LEMMA QuietedKeeps ==
  ASSUME ReminderInv, Quieted
  PROVE  ReminderInv'
<1> DEFINE s == Dispose(State)
           t == [s EXCEPT !.memo.quiet = "no"]
           u == [State EXCEPT !.memo.quiet = "no"]
<1>1. Good(State) /\ Good(s)
  BY GoodDispose DEF ReminderInv, Good
<1>2. Become(t) \/ Become(u)
  BY DEF Quieted
<1>3. UNCHANGED <<begun, told, cutShort>>
  BY DEF Quieted, history
<1> HIDE DEF s
<1>4. Good(t) /\ Good(u)
  BY <1>1, Quieting
<1> HIDE DEF t, u
<1> QED  BY <1>2, <1>3, <1>4, GoodStep

\* Nobody is told of the runs of a reminder that ends with its process: these
\* are the ones that are cut.
LEMMA RestartKeeps ==
  ASSUME ReminderInv, Restart
  PROVE  ReminderInv'
<1> DEFINE reserved == {r \in RunId : /\ Exists(run[r]) /\ IsTerminal(run[r])
                                      /\ Needs(run[r], TRUE) /\ ~Needs(run[r], FALSE)}
           recovered == [r \in RunId |-> IF Exists(run[r]) /\ ~IsTerminal(run[r])
                                         THEN Ended(run[r], "failed") ELSE run[r]]
           s == [run |-> recovered, session |-> NoSession, memo |-> Forgotten]
           t == Schedule(s, FALSE)
           c == cutShort \cup {r \in reserved : told[r] # run[r].status}
<1>1. /\ Good(State) /\ State.run = run /\ Telling(State, told) /\ RunsFit(State)
      /\ begun \in [RunId -> [gen : Nat, origin : Origins]]
      /\ told \in [RunId -> Status \cup {Unset}] /\ cutShort \in SUBSET RunId
      /\ run \in [RunId -> RunRecord \cup {NoRun}] /\ State \in Work
  BY StateFields DEF ReminderInv, Good, Steady
<1>2. Become(t) /\ cutShort' = c /\ UNCHANGED <<begun, told>>
  BY DEF Restart
<1>3. c \in SUBSET RunId /\ \A r \in reserved : told[r] = run[r].status \/ r \in c
  BY <1>1
<1>4. ASSUME NEW r \in RunId, Exists(run[r])
      PROVE  /\ recovered[r] \in RunRecord /\ IsTerminal(recovered[r])
             /\ Sayings(run[r]) \subseteq Sayings(recovered[r])
             /\ Reserved(recovered[r]) => recovered[r] = run[r] /\ r \in reserved
  <2>1. run[r] \in RunRecord
    BY <1>1, <1>4, WorkFields
  <2>2. CASE IsTerminal(run[r])
    BY <1>4, <2>1, <2>2 DEF Reserved
  <2>3. CASE ~IsTerminal(run[r])
    <3>1. recovered[r] = Ended(run[r], "failed")
      BY <1>4, <2>3
    <3> DEFINE y == Ended(run[r], "failed")
    <3>2. /\ y \in RunRecord /\ y.status = "failed" /\ y.notified = run[r].notified
          /\ run[r].status = "running" /\ IsTerminal(y)
      BY <2>1, <2>3 DEF Ended, RunRecord, Status, Terminal, IsTerminal
    <3> HIDE DEF y, recovered
    <3>3. y.notified \in {Unset, "running"}
      BY <1>1, <1>4, <2>3, <3>2 DEF RunsFit
    <3>4. y.notified # y.status
      BY <3>2, <3>3, Statuses DEF Terminal
    <3>5. ~Reserved(y)
      BY <3>4 DEF Reserved, Needs
    <3>6. Sayings(run[r]) \subseteq Sayings(y)
      BY <1>4, <3>2, RunRecordAssumption DEF Sayings, Exists
    <3> QED  BY <3>1, <3>2, <3>5, <3>6 DEF y
  <2> QED  BY <2>2, <2>3
<1>5. \A r \in RunId : ~Exists(run[r]) => recovered[r] = run[r]
  OBVIOUS
<1>6. recovered \in [RunId -> RunRecord \cup {NoRun}]
  <2>1. \A r \in RunId : recovered[r] \in RunRecord \cup {NoRun}
    BY <1>1, <1>4, <1>5
  <2>2. recovered = [r \in RunId |-> recovered[r]]
    OBVIOUS
  <2> HIDE DEF recovered
  <2> QED  BY <2>1, <2>2
<1> HIDE DEF recovered
<1>7. /\ NoSession \in Session /\ SessionFits(NoSession) /\ NoSession.queue = <<>>
      /\ NoSession.active = NoMessage
  BY DEF NoSession, Session, SessionFits, Range
<1>8. Forgotten \in Memo
  <2>1. <<>> \in Seq([gen : Nat, again : BOOLEAN])
    OBVIOUS
  <2> QED  BY <2>1 DEF Forgotten, Memo
<1>9. s \in Work /\ s.run = recovered /\ s.session = NoSession
  BY <1>6, <1>7, <1>8 DEF Work
<1> HIDE DEF s
<1>10. t \in Work /\ t.run = recovered /\ t.session = NoSession
  BY <1>9, ScheduleKeeps
<1> HIDE DEF t
<1>11. Waiting(t) = {} /\ Active(t) = {} /\ Queued(t) = {}
  BY <1>7, <1>10 DEF Waiting, Active, Queued, Range
<1>12. \A r \in RunId : Sayings(run[r]) \subseteq Sayings(recovered[r])
  BY <1>4, <1>5
<1>13. Telling(t, told)
  BY <1>1, <1>10, <1>11, <1>12 DEF Telling
<1>14. \A r \in RunId : Exists(recovered[r]) => Exists(run[r])
  BY <1>5
<1> HIDE DEF c, reserved
<1>15. Carried(t, told, c)
  BY <1>3, <1>4, <1>10, <1>14 DEF Carried
<1>16. RunsFit(t) /\ GenerationsFit(t, begun)
  BY <1>4, <1>10, <1>14 DEF RunsFit, GenerationsFit, Wanting
<1>17. Steady(t, begun, told, c)
  BY <1>1, <1>3, <1>7, <1>10, <1>13, <1>15, <1>16 DEF Steady
<1>18. Current(t)
  BY <1>11 DEF Current
<1>19. State' = t
  BY <1>2, <1>10, Becoming
<1> QED  BY <1>2, <1>17, <1>18, <1>19 DEF ReminderInv

-----------------------------------------------------------------------------
(* The theorems *)

LEMMA Beginning ==
  ASSUME RemindersInit
  PROVE  ReminderInv
<1>1. /\ NewRun("tracked") \in RunRecord /\ NewRun("tracked").status = "running"
      /\ NewRun("tracked").notified = Unset /\ NewRun("tracked").acked = Unset
  BY DEF NewRun, RunRecord, Status, Policy
<1>2. run \in [RunId -> RunRecord \cup {NoRun}]
  BY <1>1 DEF RemindersInit
<1>3. session \in Session /\ session.queue = <<>> /\ session.active = NoMessage
  <2>1. NoSession \in Session /\ NoSession.queue = <<>> /\ NoSession.active = NoMessage
    BY DEF NoSession, Session
  <2>2. session = [NoSession EXCEPT !.up = TRUE]
    BY DEF RemindersInit
  <2> QED  BY <2>1, <2>2 DEF Session
<1>4. memo \in Memo /\ memo.gen = 0
  <2>1. <<>> \in Seq([gen : Nat, again : BOOLEAN])
    OBVIOUS
  <2> QED  BY <2>1 DEF RemindersInit, Forgotten, Memo
<1>5. State \in Work /\ State.run = run /\ State.session = session /\ State.memo = memo
  BY <1>2, <1>3, <1>4 DEF State, Work
<1>6. /\ begun \in [RunId -> [gen : Nat, origin : Origins]] /\ \A r \in RunId : begun[r].gen = 0
      /\ told \in [RunId -> Status \cup {Unset}] /\ \A r \in RunId : told[r] = Unset
      /\ cutShort = {}
  BY ReminderAssumption DEF RemindersInit, NoRuns, Origins
<1>7. Waiting(State) = {} /\ Active(State) = {} /\ Queued(State) = {}
  BY <1>3, <1>5 DEF Waiting, Active, Queued, Range
<1>8. SessionFits(session)
  BY <1>3 DEF SessionFits, Range
<1>9. \A r \in RunId : run[r] = NoRun \/ run[r] = NewRun("tracked")
  BY DEF RemindersInit
<1>10. Telling(State, told)
  BY <1>5, <1>6, <1>7 DEF Telling, Sayings
<1>11. RunsFit(State)
  BY <1>1, <1>5, <1>9 DEF RunsFit, Exists
<1>12. Carried(State, told, cutShort)
  BY <1>1, <1>5, <1>9, Statuses DEF Carried, Reserved, Needs, Exists
<1>13. GenerationsFit(State, begun)
  BY <1>4, <1>5, <1>6 DEF GenerationsFit, Wanting
<1>14. Steady(State, begun, told, cutShort)
  BY <1>5, <1>6, <1>8, <1>10, <1>11, <1>12, <1>13 DEF Steady
<1> QED  BY <1>7, <1>14 DEF ReminderInv, Current

LEMMA Stepping ==
  ASSUME ReminderInv, [RemindersNext]_reminderVars
  PROVE  ReminderInv'
<1>1. CASE UNCHANGED reminderVars
  BY <1>1 DEF reminderVars, history, ReminderInv, State
<1>2. ASSUME NEW gen \in memo.due, Deliver(gen) PROVE ReminderInv'
  BY <1>2, DeliverKeeps
<1>3. ASSUME NEW i \in DOMAIN memo.calls, Call(i) \/ Refuse(i) PROVE ReminderInv'
  BY <1>3, AbandonKeeps, ResumeKeeps, RefuseKeeps DEF Call
<1>4. CASE Ask("user", NoOrigin) \/ \E loop \in Loops : Ask("loop", loop)
  <2>1. NoOrigin \in Origins /\ Loops \subseteq Origins
    BY DEF Origins
  <2> QED  BY <1>4, <2>1, AskKeeps
<1>5. CASE Inspect \/ Take \/ Rest
  BY <1>5, InspectKeeps, TakeKeeps, RestKeeps
<1>6. CASE Finish
  BY <1>6, FinishUserKeeps, FinishReminderKeeps, FinishOtherKeeps DEF Finish
<1>7. CASE FailTurn \/ CompactionEnds \/ Withdraw \/ ClearQueue
  BY <1>7, FailTurnKeeps, CompactionEndsKeeps, WithdrawKeeps, ClearQueueKeeps
<1>8. ASSUME NEW r \in RunId,
             StartRun(r) \/ Complete(r) \/ ReadRun(r) \/ Acknowledge(r) \/ Cancel(r)
      PROVE  ReminderInv'
  BY <1>8, StartKeeps, CompleteKeeps, ReadKeeps
<1>9. CASE Abort \/ Reset \/ Quiesce \/ Rebind \/ Quieted \/ Restart
  BY <1>9, AbortKeeps, ResetKeeps, QuiesceKeeps, RebindKeeps, QuietedKeeps, RestartKeeps
<1> QED  BY <1>1, <1>2, <1>3, <1>4, <1>5, <1>6, <1>7, <1>8, <1>9 DEF RemindersNext

\* Whatever ends, is read, aborted, reset or started again: the invariant holds
\* of the registry, the session and the router together.
THEOREM Invariance == RemindersSpec => []ReminderInv
<1>1. RemindersInit => ReminderInv
  BY Beginning
<1>2. ReminderInv /\ [RemindersNext]_reminderVars => ReminderInv'
  BY Stepping
<1> QED  BY <1>1, <1>2, PTL DEF RemindersSpec

\* A queued reminder is never out of date: it is of the present generation of a
\* session that is not torn down, and tells of a run that wants to be told of
\* (invalidateRunReminders, refreshQueuedRunReminders).
THEOREM NoStaleNews == RemindersSpec => []RemindersAreCurrent
<1>1. ReminderInv => RemindersAreCurrent
  BY DEF ReminderInv, Current, RemindersAreCurrent, State
<1> QED  BY <1>1, Invariance, PTL

\* No news is lost on its way: a run that is marked as notified was told of, or
\* is in a reminder on its way, or its reminder ended with the process
\* (createNotification, releaseNotification).
THEOREM NewsOnItsWay == RemindersSpec => []ReservationsCarried
<1>1. ASSUME ReminderInv PROVE ReservationsCarried
  <2>1. Carried(State, told, cutShort) /\ State.run = run
    BY <1>1 DEF ReminderInv, Steady, State
  <2> SUFFICES ASSUME NEW r \in Wanting(State, TRUE) \ Wanting(State, FALSE)
        PROVE  \/ told[r] = run[r].status \/ r \in cutShort
               \/ \E m \in Waiting(State) \cup Active(State) :
                    m.known /\ m.of[r] = run[r].status
    BY DEF ReservationsCarried
  <2>2. r \in RunId /\ Exists(run[r]) /\ Reserved(run[r])
    BY <2>1 DEF Wanting, Reserved
  <2> QED  BY <2>1, <2>2 DEF Carried
<1> QED  BY <1>1, Invariance, PTL
=============================================================================
