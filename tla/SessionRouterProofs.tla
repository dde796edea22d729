-------------------------- MODULE SessionRouterProofs --------------------------
(* Proofs about SessionRouter for any number of sessions, messages and        *)
(* disposals: no runtime is ever out of reach, and all keep to MaxRuntimes.   *)
EXTENDS SessionRouter, FiniteSetTheorems, TLAPS

-----------------------------------------------------------------------------
(* The inductive invariant *)

Stage ==
  {"none", "waiting", "leased", "evicting", "evicted", "refused",
   "opening", "aborting", "opened", "failed"}

Life == {"none", "starting"} \cup Alive

CallerRecord ==
  {Idle} \cup [at : {"disposal"}, id : Id, job : Task] \cup [at : {"start"}, id : Id]
         \cup [at : {"holds"}, id : Id, runtime : Runtime] \cup [at : {"resumed"}, id : Id]

Typed ==
  /\ sessions \in [Id -> Runtime \cup {None}] /\ life \in [Runtime -> Life]
  /\ start \in [Id -> Stage] /\ aborted \in SUBSET Id
  /\ disposing \in [Id -> Task \cup {None}] /\ quiescing \in SUBSET Id
  /\ timer \in SUBSET Id /\ job \in [Task -> JobRecord \cup {Idle}]
  /\ caller \in [Caller -> CallerRecord] /\ closing \in BOOLEAN

\* What its cold start has made of a runtime at each stage, before it is registered.
Form(stage) ==
  IF stage = "opening" THEN "opening" ELSE IF stage = "aborting" THEN "ending" ELSE "starting"

Settled == {"none", "opened", "failed"}

\* A cold start has one runtime in its hands and no other stands; without one
\* only the registered runtime stands.
Stands(i) ==
  /\ sessions[i] # None => sessions[i][1] = i
  /\ start[i] \notin Settled =>
       /\ sessions[i] = None
       /\ \E o \in Runtime :
            /\ o[1] = i /\ life[o] = Form(start[i])
            /\ \A p \in Runtime : p[1] = i /\ p # o => life[p] = "none"
  /\ start[i] \in Settled =>
       \A o \in Runtime : o[1] = i /\ life[o] # "none" =>
         sessions[i] = o /\ life[o] \in {"idle", "busy", "ending"}

\* An id never stands for two of a set of runtimes.
OnePerId(S) == \A o, p \in S : o[1] = p[1] => o = p

\* A disposal never gets hold of a runtime in the hands of a cold start, and
\* what it has begun to dispose of comes back to no use.
JobFits(j) ==
  /\ OnePerId(j.cached) /\ OnePerId(j.doomed)
  /\ \A o \in j.cached : life[o] # "none" => sessions[o[1]] = o
  /\ j.at = "disposing" => \A o \in j.cached : life[o] \in {"none", "ending"}

JobsFit == \A k \in Task : job[k] # Idle => JobFits(job[k])

Evictions ==
  \A i \in Id : /\ start[i] = "evicting" <=> job[i] # Idle
                /\ job[i] # Idle => job[i].kind = "reset"

CallersFit == \A c \in Caller : caller[c].at = "holds" => caller[c].runtime[1] = caller[c].id

\* What is registered or being opened
Taken == Registered \cup Creating

RouterInv ==
  /\ Typed /\ (\A i \in Id : Stands(i)) /\ JobsFit /\ Evictions /\ CallersFit
  /\ \A i \in timer : IdleAt(i)
  /\ Cardinality(Taken) <= MaxRuntimes

-----------------------------------------------------------------------------
(* Records *)

LEMMA Constants ==
  /\ IsFiniteSet(Id) /\ IsFiniteSet(Caller) /\ IsFiniteSet(Job)
  /\ Subtree \in [Id -> SUBSET Id] /\ MaxRuntimes \in Nat
  /\ None \notin Id /\ Job \cap Id = {} /\ None \notin Job /\ None \notin Runtime
  BY RouterAssumption, NobodyAssumption

LEMMA RuntimeOf ==
  /\ \A o \in Runtime : o[1] \in Id
  /\ \A i \in Id, g \in Generation : <<i, g>> \in Runtime /\ <<i, g>>[1] = i
  /\ \A i \in Id : \A o \in {i} \X Generation : o \in Runtime /\ o[1] = i
  /\ \A o \in Runtime : o \in {o[1]} \X Generation
  BY DEF Runtime

\* Nothing but a caller that waits or holds has more than its place.
LEMMA CallerIs ==
  ASSUME Typed, NEW c \in Caller
  PROVE  /\ caller[c] # Idle => caller[c].id \in Id
         /\ caller[c].at = "holds" => caller[c] # Idle /\ caller[c].runtime \in Runtime
         /\ caller[c].at = "resumed" => caller[c] # Idle
  BY DEF Typed, CallerRecord, Idle

LEMMA CallerRecords ==
  /\ Idle \in CallerRecord
  /\ \A i \in Id : /\ [at |-> "start", id |-> i] \in CallerRecord
                   /\ [at |-> "resumed", id |-> i] \in CallerRecord
                   /\ \A k \in Task : [at |-> "disposal", id |-> i, job |-> k] \in CallerRecord
                   /\ \A o \in Runtime : [at |-> "holds", id |-> i, runtime |-> o] \in CallerRecord
  BY DEF CallerRecord

LEMMA JobIs ==
  ASSUME Typed, NEW k \in Task
  PROVE  /\ job[k] = Idle \/ job[k] \in JobRecord
         /\ job[k].at # "idle" => job[k] \in JobRecord /\ job[k] # Idle
         /\ job[k] \in JobRecord => job[k] # Idle
  BY DEF Typed, JobRecord, Idle

LEMMA NeverIdle == \A j \in JobRecord : j # Idle
  BY DEF JobRecord, Idle

LEMMA AskedIs ==
  ASSUME NEW kind \in {"reset", "dispose", "kill", "rebind", "close"}, NEW ids \in SUBSET Id
  PROVE  /\ Asked(kind, ids) \in JobRecord
         /\ Asked(kind, ids).kind = kind /\ Asked(kind, ids).cached = {} /\ Asked(kind, ids).doomed = {}
  BY DEF Asked, JobRecord

LEMMA Elsewhere ==
  ASSUME NEW at \in {"earlier", "killing", "preflight", "runs", "pending", "closing",
                     "disposing", "binding", "failed", "closed"},
         NEW j \in JobRecord
  PROVE  LET r == [j EXCEPT !.at = at]
         IN  r \in JobRecord /\ r.at = at /\ r.kind = j.kind /\ r.ids = j.ids
             /\ r.cached = j.cached /\ r.doomed = j.doomed
  BY DEF JobRecord

-----------------------------------------------------------------------------
(* What stands of an id *)

\* A disposal has hold of a runtime only while it is registered.
Caught(o) == life[o] # "none" => sessions[o[1]] = o

LEMMA OfItsOwn ==
  ASSUME RouterInv, NEW i \in Id, sessions[i] # None
  PROVE  sessions[i] \in Runtime /\ sessions[i][1] = i
  BY DEF RouterInv, Typed, Stands

\* A cold start has a runtime in hand that nobody else has got hold of.
LEMMA InHand ==
  ASSUME RouterInv, NEW i \in Id, start[i] \notin Settled
  PROVE  /\ Starting(i) \in Runtime /\ Starting(i)[1] = i /\ sessions[i] = None
         /\ life[Starting(i)] = Form(start[i]) /\ ~Caught(Starting(i))
         /\ \A p \in Runtime : p[1] = i /\ p # Starting(i) => life[p] = "none"
<1>1. PICK o \in Runtime : /\ o[1] = i /\ life[o] = Form(start[i])
                           /\ \A p \in Runtime : p[1] = i /\ p # o => life[p] = "none"
  BY DEF RouterInv, Stands
<1>2. Form(start[i]) \in {"starting", "opening", "ending"}
  BY DEF Form
<1>3. \A p \in {i} \X Generation : life[p] \in {"starting", "opening", "ending"} => p = o
  BY <1>1, RuntimeOf
<1>4. o \in {i} \X Generation
  BY <1>1, RuntimeOf
<1>5. Starting(i) \in {i} \X Generation /\ life[Starting(i)] \in {"starting", "opening", "ending"}
  BY <1>1, <1>2, <1>4 DEF Starting
<1>6. Starting(i) = o
  BY <1>3, <1>5
<1>7. sessions[i] = None /\ sessions[i] # o
  BY Constants DEF RouterInv, Stands
<1> QED
  BY <1>1, <1>2, <1>6, <1>7 DEF Caught

\* Without one it has none in hand.
LEMMA AtRest ==
  ASSUME RouterInv, NEW o \in Runtime, start[o[1]] \in Settled, life[o] # "none"
  PROVE  sessions[o[1]] = o /\ life[o] \in {"idle", "busy", "ending"}
  BY RuntimeOf DEF RouterInv, Stands

LEMMA RegisteredIsSettled ==
  ASSUME RouterInv, NEW i \in Id, sessions[i] # None
  PROVE  start[i] \in Settled
  BY DEF RouterInv, Stands

\* Idle and busy runtimes are registered.
LEMMA InUse ==
  ASSUME RouterInv, NEW o \in Runtime, life[o] \in {"idle", "busy"}
  PROVE  sessions[o[1]] = o /\ start[o[1]] \in Settled /\ o # None
<1>1. start[o[1]] \in Settled
  <2> SUFFICES ASSUME start[o[1]] \notin Settled PROVE FALSE
    OBVIOUS
  <2>1. life[o] = "none" \/ life[o] = Form(start[o[1]])
    BY InHand, RuntimeOf
  <2> QED
    BY <2>1 DEF Form
<1> QED
  BY <1>1, AtRest, Constants

\* An id has one runtime at a time.
LEMMA OneStands ==
  ASSUME RouterInv, NEW o \in Runtime, NEW p \in Runtime, o[1] = p[1],
         life[o] # "none", life[p] # "none"
  PROVE  o = p
<1>1. CASE start[o[1]] \in Settled
  BY <1>1, AtRest
<1>2. CASE start[o[1]] \notin Settled
  BY <1>2, InHand, RuntimeOf
<1> QED
  BY <1>1, <1>2

-----------------------------------------------------------------------------
(* There is always a name for a new runtime *)

\* A set whose elements belong to different members of T is no larger than T.
LEMMA NoMoreThan ==
  ASSUME NEW S, NEW T, IsFiniteSet(T), NEW R,
         \A s \in S : \E t \in T : <<s, t>> \in R,
         \A s1, s2 \in S, t \in T : <<s1, t>> \in R /\ <<s2, t>> \in R => s1 = s2
  PROVE  IsFiniteSet(S) /\ Cardinality(S) <= Cardinality(T)
<1> DEFINE f == [s \in S |-> CHOOSE t \in T : <<s, t>> \in R]
<1>1. \A s \in S : f[s] \in T /\ <<s, f[s]>> \in R
  OBVIOUS
<1>2. f \in [S -> T]
  BY <1>1
<1>3. \A s1, s2 \in S : f[s1] = f[s2] => s1 = s2
  BY <1>1
<1>4. f \in Injection(S, T)
  <2> HIDE DEF f
  <2> QED
    BY <1>2, <1>3 DEF Injection, IsInjective
<1> HIDE DEF f
<1> QED
  BY <1>4, FS_Injection

LEMMA SizeOfUnion ==
  ASSUME NEW S, NEW T, IsFiniteSet(S), IsFiniteSet(T)
  PROVE  IsFiniteSet(S \cup T) /\ Cardinality(S \cup T) <= Cardinality(S) + Cardinality(T)
<1>1. Cardinality(S) \in Nat /\ Cardinality(T) \in Nat
  BY FS_CardinalityType
<1>2. IsFiniteSet(S \cap T)
  <2>1. S \cap T \in SUBSET S
    OBVIOUS
  <2> QED
    BY <2>1, FS_Subset
<1>3. Cardinality(S \cap T) \in Nat
  BY <1>2, FS_CardinalityType
<1>4. Cardinality(S \cup T) = Cardinality(S) + Cardinality(T) - Cardinality(S \cap T)
  BY FS_Union
<1> QED
  BY <1>1, <1>3, <1>4, FS_Union

LEMMA TasksFinite == IsFiniteSet(Task) /\ Cardinality(Task) \in Nat /\ Cardinality(Caller) \in Nat
<1>1. IsFiniteSet(Task)
  BY Constants, SizeOfUnion DEF Task
<1> QED
  BY <1>1, Constants, FS_CardinalityType

LEMMA NewName ==
  ASSUME RouterInv, NEW i \in Id, sessions[i] = None, start[i] = "none"
  PROVE  /\ NewRuntime(i) \in Runtime /\ NewRuntime(i)[1] = i /\ ~Referred(NewRuntime(i))
         /\ \A o \in Runtime : o[1] = i => life[o] = "none"
<1> DEFINE Held == {g \in Generation : \E c \in Caller : caller[c].at = "holds" /\ caller[c].runtime = <<i, g>>}
           Kept == {g \in Generation : \E k \in Task : job[k] # Idle /\ <<i, g>> \in job[k].cached}
           Doomed == {g \in Generation : \E k \in Task : job[k] # Idle /\ <<i, g>> \in job[k].doomed}
<1>1. \A o \in Runtime : o[1] = i => life[o] = "none" /\ sessions[i] # o
  <2> TAKE o \in Runtime
  <2> HAVE o[1] = i
  <2>1. sessions[i] # o
    BY Constants
  <2>2. start[o[1]] \in Settled
    BY DEF Settled
  <2> QED
    BY <2>1, <2>2, AtRest
<1>2. IsFiniteSet(Held) /\ Cardinality(Held) <= Cardinality(Caller)
  <2> DEFINE R == {p \in Held \X Caller : caller[p[2]].at = "holds" /\ caller[p[2]].runtime = <<i, p[1]>>}
  <2>1. \A s \in Held : \E t \in Caller : <<s, t>> \in R
    OBVIOUS
  <2>2. \A s1, s2 \in Held, t \in Caller : <<s1, t>> \in R /\ <<s2, t>> \in R => s1 = s2
    OBVIOUS
  <2> HIDE DEF R, Held
  <2> QED
    BY <2>1, <2>2, NoMoreThan, Constants
<1>3. IsFiniteSet(Kept) /\ Cardinality(Kept) <= Cardinality(Task)
  <2> DEFINE R == {p \in Kept \X Task : job[p[2]] # Idle /\ <<i, p[1]>> \in job[p[2]].cached}
  <2>1. \A s \in Kept : \E t \in Task : <<s, t>> \in R
    OBVIOUS
  <2>2. \A s1, s2 \in Kept, t \in Task : <<s1, t>> \in R /\ <<s2, t>> \in R => s1 = s2
    <3> SUFFICES ASSUME NEW s1 \in Kept, NEW s2 \in Kept, NEW t \in Task,
                        <<s1, t>> \in R, <<s2, t>> \in R
                 PROVE  s1 = s2
      OBVIOUS
    <3>1. OnePerId(job[t].cached)
      BY DEF RouterInv, JobsFit, JobFits
    <3>2. <<i, s1>> = <<i, s2>>
      BY <3>1 DEF OnePerId
    <3> QED
      BY <3>2
  <2> HIDE DEF R, Kept
  <2> QED
    BY <2>1, <2>2, NoMoreThan, TasksFinite
<1>4. IsFiniteSet(Doomed) /\ Cardinality(Doomed) <= Cardinality(Task)
  <2> DEFINE R == {p \in Doomed \X Task : job[p[2]] # Idle /\ <<i, p[1]>> \in job[p[2]].doomed}
  <2>1. \A s \in Doomed : \E t \in Task : <<s, t>> \in R
    OBVIOUS
  <2>2. \A s1, s2 \in Doomed, t \in Task : <<s1, t>> \in R /\ <<s2, t>> \in R => s1 = s2
    <3> SUFFICES ASSUME NEW s1 \in Doomed, NEW s2 \in Doomed, NEW t \in Task,
                        <<s1, t>> \in R, <<s2, t>> \in R
                 PROVE  s1 = s2
      OBVIOUS
    <3>1. OnePerId(job[t].doomed)
      BY DEF RouterInv, JobsFit, JobFits
    <3>2. <<i, s1>> = <<i, s2>>
      BY <3>1 DEF OnePerId
    <3> QED
      BY <3>2
  <2> HIDE DEF R, Doomed
  <2> QED
    BY <2>1, <2>2, NoMoreThan, TasksFinite
<1>5. \E g \in Generation : g \notin Held \cup Kept \cup Doomed
  <2> HIDE DEF Held, Kept, Doomed
  <2>1. /\ IsFiniteSet(Held \cup Kept \cup Doomed)
        /\ Cardinality(Held \cup Kept) <= Cardinality(Held) + Cardinality(Kept)
        /\ Cardinality(Held \cup Kept \cup Doomed) <= Cardinality(Held \cup Kept) + Cardinality(Doomed)
    BY <1>2, <1>3, <1>4, SizeOfUnion
  <2>2. /\ Cardinality(Held) \in Nat /\ Cardinality(Kept) \in Nat /\ Cardinality(Doomed) \in Nat
        /\ Cardinality(Held \cup Kept) \in Nat /\ Cardinality(Held \cup Kept \cup Doomed) \in Nat
    BY <1>2, <1>3, <1>4, <2>1, SizeOfUnion, FS_CardinalityType
  <2>3. Cardinality(Held \cup Kept \cup Doomed) <= Cardinality(Caller) + 2 * Cardinality(Task)
    BY <1>2, <1>3, <1>4, <2>1, <2>2, TasksFinite
  <2>4. Cardinality(Generation) = 1 + Cardinality(Caller) + 2 * Cardinality(Task)
    <3> DEFINE n == 1 + Cardinality(Caller) + 2 * Cardinality(Task)
    <3>1. n \in Int /\ 1 \in Int /\ ~(1 > n) /\ n - 1 + 1 = n
      BY TasksFinite
    <3> HIDE DEF n
    <3>2. Cardinality(1 .. n) = n
      BY <3>1, FS_Interval
    <3> QED
      BY <3>2 DEF n, Generation
  <2>5. ~(Generation \in SUBSET (Held \cup Kept \cup Doomed))
    <3> SUFFICES ASSUME Generation \in SUBSET (Held \cup Kept \cup Doomed) PROVE FALSE
      OBVIOUS
    <3>1. Cardinality(Generation) <= Cardinality(Held \cup Kept \cup Doomed)
      BY <2>1, FS_Subset
    <3> QED
      BY <2>2, <2>3, <2>4, <3>1, TasksFinite
  <2> QED
    BY <2>5
<1>6. \E o \in {i} \X Generation : ~Referred(o)
  <2>1. PICK g \in Generation : g \notin Held \cup Kept \cup Doomed
    BY <1>5
  <2>2. <<i, g>> \in Runtime /\ <<i, g>>[1] = i
    BY RuntimeOf
  <2>3. ~Referred(<<i, g>>)
    BY <1>1, <2>1, <2>2 DEF Referred
  <2> QED
    BY <2>3
<1>7. NewRuntime(i) \in {i} \X Generation /\ ~Referred(NewRuntime(i))
  BY <1>6 DEF NewRuntime
<1> QED
  BY <1>1, <1>7, RuntimeOf

-----------------------------------------------------------------------------
(* What a step has to show *)

LEMMA StandsStill ==
  ASSUME NEW i \in Id, Stands(i), sessions'[i] = sessions[i], start'[i] = start[i],
         \A o \in Runtime : o[1] = i => life'[o] = life[o]
  PROVE  Stands(i)'
<1>1. CASE start[i] \in Settled
  BY <1>1 DEF Stands
<1>2. CASE start[i] \notin Settled
  <2>1. PICK o \in Runtime : /\ o[1] = i /\ life[o] = Form(start[i])
                             /\ \A p \in Runtime : p[1] = i /\ p # o => life[p] = "none"
    BY <1>2 DEF Stands
  <2>2. /\ o[1] = i /\ life'[o] = Form(start'[i])
        /\ \A p \in Runtime : p[1] = i /\ p # o => life'[p] = "none"
    BY <2>1 DEF Form
  <2>3. sessions'[i] = None
    BY <1>2 DEF Stands
  <2> QED
    BY <1>2, <2>2, <2>3 DEF Stands, Form
<1> QED
  BY <1>1, <1>2

\* What a disposal has got hold of is registered, or gone; and what is on its
\* way out is not used again.
Stays(o) ==
  Caught(o) => /\ Caught(o)'
               /\ life[o] \in {"none", "ending"} => life'[o] \in {"none", "ending"}

LEMMA JobsStillFit ==
  ASSUME \A k \in Task : job'[k] # Idle =>
           JobFits(job'[k]) /\ \A o \in job'[k].cached : Stays(o)
  PROVE  JobsFit'
  BY DEF JobsFit, JobFits, Stays, Caught, OnePerId

LEMMA JobsAsBefore ==
  ASSUME JobsFit, job' = job,
         \A k \in Task : job[k] # Idle => \A o \in job[k].cached : Stays(o)
  PROVE  JobsFit'
  BY JobsStillFit DEF JobsFit

LEMMA TakenFinite ==
  /\ Taken \in SUBSET Id /\ IsFiniteSet(Taken) /\ Cardinality(Taken) \in Nat
  /\ IsFiniteSet(Registered) /\ IsFiniteSet(Creating)
<1>1. Taken \in SUBSET Id /\ Registered \in SUBSET Id /\ Creating \in SUBSET Id
  BY DEF Taken, Registered, Creating
<1>2. IsFiniteSet(Taken) /\ IsFiniteSet(Registered) /\ IsFiniteSet(Creating)
  BY <1>1, Constants, FS_Subset
<1> QED
  BY <1>1, <1>2, FS_CardinalityType

LEMMA NoMoreTaken ==
  ASSUME RouterInv, Taken' \subseteq Taken
  PROVE  Cardinality(Taken') <= MaxRuntimes
<1>1. IsFiniteSet(Taken) /\ Cardinality(Taken) \in Nat /\ Taken' \in SUBSET Taken
  BY TakenFinite
<1>2. IsFiniteSet(Taken') /\ Cardinality(Taken') <= Cardinality(Taken)
  BY <1>1, FS_Subset
<1>3. Cardinality(Taken') \in Nat /\ MaxRuntimes \in Nat /\ Cardinality(Taken) <= MaxRuntimes
  BY <1>2, FS_CardinalityType, Constants DEF RouterInv
<1> QED
  BY <1>1, <1>2, <1>3

\* The steps in which one id comes to another stage with one of its runtimes
LEMMA OneMoves ==
  ASSUME RouterInv, NEW i \in Id, NEW s \in Stage, NEW o \in Runtime, o[1] = i, NEW l \in Life,
         start' = [start EXCEPT ![i] = s], life' = [life EXCEPT ![o] = l],
         s = "evicting" <=> start[i] = "evicting",
         Stands(i)', \A k \in Task : job[k] # Idle => o \notin job[k].cached \/ Stays(o),
         sessions' = sessions, job' = job, disposing' = disposing, quiescing' = quiescing,
         closing' = closing, aborted' \in SUBSET Id,
         caller' \in [Caller -> CallerRecord], CallersFit',
         timer' \in SUBSET Id, \A j \in timer' : j # i => j \in timer, i \in timer' => IdleAt(i)',
         Cardinality(Taken') <= MaxRuntimes
  PROVE  RouterInv'
<1>t. /\ sessions \in [Id -> Runtime \cup {None}] /\ life \in [Runtime -> Life] /\ start \in [Id -> Stage]
      /\ disposing \in [Id -> Task \cup {None}] /\ quiescing \in SUBSET Id
      /\ job \in [Task -> JobRecord \cup {Idle}] /\ closing \in BOOLEAN
  BY DEF RouterInv, Typed
<1>1. Typed'
  BY <1>t DEF Typed
<1>2. \A p \in Runtime : p[1] # i => life'[p] = life[p]
  BY <1>t
<1>3. \A j \in Id : Stands(j)'
  <2> TAKE j \in Id
  <2>1. CASE j = i
    BY <2>1
  <2>2. CASE j # i
    <3>1. start'[j] = start[j] /\ sessions'[j] = sessions[j] /\ Stands(j)
      BY <2>2, <1>t DEF RouterInv
    <3>2. \A p \in Runtime : p[1] = j => life'[p] = life[p]
      BY <2>2, <1>2
    <3> QED
      BY <3>1, <3>2, StandsStill
  <2> QED
    BY <2>1, <2>2
<1>4. JobsFit'
  <2>1. \A p \in Runtime : p # o => Stays(p)
    <3> TAKE p \in Runtime
    <3> HAVE p # o
    <3>1. life'[p] = life[p]
      BY <1>t
    <3> QED
      BY <3>1 DEF Stays, Caught
  <2>2. \A k \in Task : job[k] # Idle => job[k].cached \subseteq Runtime
    BY <1>t DEF JobRecord
  <2>3. \A k \in Task : job[k] # Idle => \A p \in job[k].cached : Stays(p)
    BY <2>1, <2>2
  <2> QED
    BY <2>3, JobsAsBefore DEF RouterInv
<1>5. Evictions'
  BY <1>t DEF RouterInv, Evictions
<1>6. \A j \in timer' : IdleAt(j)'
  <2> TAKE j \in timer'
  <2>1. CASE j = i
    BY <2>1
  <2>2. CASE j # i
    <3>1. j \in Id /\ IdleAt(j)
      BY <2>2 DEF RouterInv
    <3>2. sessions[j] # None /\ sessions[j] \in Runtime /\ sessions[j][1] = j
      BY <3>1, OfItsOwn DEF IdleAt
    <3>3. life'[sessions[j]] = life[sessions[j]]
      BY <3>2, <2>2, <1>2
    <3> QED
      BY <3>1, <3>2, <3>3 DEF IdleAt
  <2> QED
    BY <2>1, <2>2
<1> QED
  BY <1>1, <1>3, <1>4, <1>5, <1>6 DEF RouterInv

\* The steps in which no runtime and no cold start changes
LEMMA NothingMoves ==
  ASSUME RouterInv, sessions' = sessions, life' = life, start' = start,
         Typed', JobsFit', Evictions', CallersFit', timer' \subseteq timer
  PROVE  RouterInv'
<1>1. \A i \in Id : Stands(i)'
  BY StandsStill DEF RouterInv
<1>2. \A i \in timer' : IdleAt(i)'
  BY DEF RouterInv, IdleAt
<1>3. Taken' = Taken
  BY DEF Taken, Registered, Creating
<1> QED
  BY <1>1, <1>2, <1>3 DEF RouterInv

LEMMA CallerBecomes ==
  ASSUME Typed, CallersFit, NEW c \in Caller, NEW r \in CallerRecord,
         r.at = "holds" => r.runtime[1] = r.id, caller' = [caller EXCEPT ![c] = r]
  PROVE  caller' \in [Caller -> CallerRecord] /\ CallersFit'
<1>1. caller \in [Caller -> CallerRecord]
  BY DEF Typed
<1>2. caller' \in [Caller -> CallerRecord]
  BY <1>1
<1>3. \A d \in Caller : caller'[d] = IF d = c THEN r ELSE caller[d]
  BY <1>1
<1> QED
  BY <1>2, <1>3 DEF CallersFit

LEMMA NobodyMoves ==
  ASSUME RouterInv, UNCHANGED <<sessions, life, start, aborted, disposing, quiescing, job, closing>>,
         caller' \in [Caller -> CallerRecord], CallersFit', timer' \subseteq timer
  PROVE  RouterInv'
<1>1. Typed'
  BY DEF RouterInv, Typed
<1>2. JobsFit' /\ Evictions'
  BY DEF RouterInv, JobsFit, JobFits, OnePerId, Evictions
<1> QED
  BY <1>1, <1>2, NothingMoves

LEMMA TakenNoMore ==
  ASSUME RouterInv, NEW i \in Id, NEW s \in Stage, start' = [start EXCEPT ![i] = s],
         sessions' = sessions, s \in {"opening", "aborting"} => start[i] \in {"opening", "aborting"}
  PROVE  Cardinality(Taken') <= MaxRuntimes
<1>1. start \in [Id -> Stage]
  BY DEF RouterInv, Typed
<1>2. Taken' \subseteq Taken
  BY <1>1 DEF Taken, Registered, Creating
<1> QED
  BY <1>2, NoMoreTaken

-----------------------------------------------------------------------------
(* Messages *)

LEMMA GetsOrCreates ==
  ASSUME RouterInv, NEW c \in Caller, NEW i \in Id, GetOrCreateSession(c, i),
         UNCHANGED <<sessions, aborted, disposing, quiescing, job, closing>>
  PROVE  RouterInv'
<1>t. Typed /\ CallersFit
  BY DEF RouterInv
<1>1. CASE caller' = [caller EXCEPT ![c] = Idle] /\ UNCHANGED <<life, start, timer>>
  <2>1. Idle \in CallerRecord /\ Idle.at # "holds"
    BY CallerRecords DEF Idle
  <2>2. caller' \in [Caller -> CallerRecord] /\ CallersFit'
    BY <1>1, <1>t, <2>1, CallerBecomes
  <2> QED
    BY <1>1, <2>2, NobodyMoves
<1>2. CASE /\ disposing[i] # None
           /\ caller' = [caller EXCEPT ![c] = [at |-> "disposal", id |-> i, job |-> disposing[i]]]
           /\ UNCHANGED <<life, start, timer>>
  <2>1. disposing[i] \in Task
    BY <1>2, <1>t DEF Typed
  <2>2. [at |-> "disposal", id |-> i, job |-> disposing[i]] \in CallerRecord
    BY <2>1, CallerRecords
  <2>3. caller' \in [Caller -> CallerRecord] /\ CallersFit'
    <3> DEFINE r == [at |-> "disposal", id |-> i, job |-> disposing[i]]
    <3>1. r.at # "holds"
      OBVIOUS
    <3> HIDE DEF r
    <3>2. r \in CallerRecord /\ caller' = [caller EXCEPT ![c] = r]
      BY <1>2, <2>2 DEF r
    <3> QED
      BY <1>t, <3>1, <3>2, CallerBecomes
  <2> QED
    BY <1>2, <2>3, NobodyMoves
<1>3. CASE /\ sessions[i] # None
           /\ caller' = [caller EXCEPT ![c] = [at |-> "holds", id |-> i, runtime |-> sessions[i]]]
           /\ timer' = timer \ {i}
           /\ UNCHANGED <<life, start>>
  <2>1. sessions[i] \in Runtime /\ sessions[i][1] = i
    BY <1>3, OfItsOwn
  <2>2. caller' \in [Caller -> CallerRecord] /\ CallersFit'
    <3> DEFINE r == [at |-> "holds", id |-> i, runtime |-> sessions[i]]
    <3>1. r.runtime[1] = r.id
      BY <2>1
    <3>2. r \in CallerRecord
      BY <2>1, CallerRecords
    <3> HIDE DEF r
    <3>3. caller' = [caller EXCEPT ![c] = r]
      BY <1>3 DEF r
    <3> QED
      BY <1>t, <3>1, <3>2, <3>3, CallerBecomes
  <2>3. timer' \subseteq timer
    BY <1>3
  <2> QED
    BY <1>3, <2>2, <2>3, NobodyMoves
<1>4. CASE /\ sessions[i] = None
           /\ caller' = [caller EXCEPT ![c] = [at |-> "start", id |-> i]]
           /\ IF start[i] = "none"
              THEN /\ start' = [start EXCEPT ![i] = "waiting"]
                   /\ life' = [life EXCEPT ![NewRuntime(i)] = "starting"]
              ELSE UNCHANGED <<life, start>>
           /\ UNCHANGED timer
  <2>1. caller' \in [Caller -> CallerRecord] /\ CallersFit'
    <3> DEFINE r == [at |-> "start", id |-> i]
    <3>1. r.at # "holds"
      OBVIOUS
    <3>2. r \in CallerRecord
      BY CallerRecords
    <3> HIDE DEF r
    <3>3. caller' = [caller EXCEPT ![c] = r]
      BY <1>4 DEF r
    <3> QED
      BY <1>t, <3>1, <3>2, <3>3, CallerBecomes
  <2>2. CASE start[i] # "none"
    BY <1>4, <2>1, <2>2, NobodyMoves
  <2>3. CASE start[i] = "none"
    <3> DEFINE o == NewRuntime(i)
    <3>1. /\ o \in Runtime /\ o[1] = i /\ ~Referred(o)
          /\ \A p \in Runtime : p[1] = i => life[p] = "none"
      BY <1>4, <2>3, NewName
    <3>2. start' = [start EXCEPT ![i] = "waiting"] /\ life' = [life EXCEPT ![o] = "starting"]
      BY <1>4, <2>3
    <3> HIDE DEF o
    <3>3. /\ start'[i] = "waiting" /\ life'[o] = "starting"
          /\ \A p \in Runtime : p # o => life'[p] = life[p]
      BY <1>t, <3>1, <3>2 DEF Typed
    <3>4. Stands(i)'
      <4>1. start'[i] \notin Settled /\ Form(start'[i]) = "starting" /\ sessions'[i] = None
        BY <1>4, <3>3 DEF Settled, Form
      <4>2. \A p \in Runtime : p[1] = i /\ p # o => life'[p] = "none"
        BY <3>1, <3>3
      <4> QED
        BY <3>1, <3>3, <4>1, <4>2 DEF Stands
    <3>5. \A k \in Task : job[k] # Idle => o \notin job[k].cached \/ Stays(o)
      BY <3>1 DEF Referred
    <3>6. Cardinality(Taken') <= MaxRuntimes
      BY <3>2, TakenNoMore DEF Stage
    <3>7. timer' = timer /\ timer \in SUBSET Id /\ (i \in timer' => IdleAt(i)')
      BY <1>4, <1>t DEF RouterInv, IdleAt, Typed
    <3>8. "waiting" \in Stage /\ "starting" \in Life /\ start[i] # "evicting" /\ aborted' \in SUBSET Id
      BY <2>3, <1>t DEF Stage, Life, Typed
    <3> QED
      BY <2>1, <3>1, <3>2, <3>4, <3>5, <3>6, <3>7, <3>8, OneMoves
  <2> QED
    BY <2>2, <2>3
<1> QED
  BY <1>1, <1>2, <1>3, <1>4 DEF GetOrCreateSession

LEMMA SendKeeps ==
  ASSUME RouterInv, NEW c \in Caller, NEW i \in Id, Send(c, i)
  PROVE  RouterInv'
  BY GetsOrCreates DEF Send

LEMMA ResumeKeeps ==
  ASSUME RouterInv, NEW c \in Caller, Resume(c)
  PROVE  RouterInv'
<1>1. caller[c].id \in Id
  BY CallerIs DEF RouterInv, Resume
<1> QED
  BY <1>1, GetsOrCreates DEF Resume

\* The registered runtime of an id comes to another stage of its life.
LEMMA RegisteredMoves ==
  ASSUME RouterInv, NEW o \in Runtime, sessions[o[1]] = o, o # None, NEW l \in Life,
         l \in {"none", "idle", "busy", "ending"}, life' = [life EXCEPT ![o] = l],
         life[o] \in {"none", "ending"} => l \in {"none", "ending"},
         UNCHANGED <<sessions, start, aborted, disposing, quiescing, job, closing>>,
         caller' \in [Caller -> CallerRecord], CallersFit',
         timer' \in SUBSET Id, \A j \in timer' : j # o[1] => j \in timer,
         o[1] \in timer' => life'[o] = "idle"
  PROVE  RouterInv'
<1> DEFINE i == o[1]
<1>t. /\ sessions \in [Id -> Runtime \cup {None}] /\ life \in [Runtime -> Life] /\ start \in [Id -> Stage]
      /\ aborted \in SUBSET Id
  BY DEF RouterInv, Typed
<1>1. i \in Id /\ start[i] \in Settled /\ start[i] \in Stage
  BY <1>t, RuntimeOf, RegisteredIsSettled
<1>2. start' = [start EXCEPT ![i] = start[i]] /\ start'[i] = start[i] /\ sessions'[i] = o
  BY <1>t, <1>1
<1>3. life'[o] = l /\ \A p \in Runtime : p # o => life'[p] = life[p]
  BY <1>t
<1>4. Stands(i)'
  <2>1. \A p \in Runtime : p[1] = i /\ life'[p] # "none" =>
          sessions'[i] = p /\ life'[p] \in {"idle", "busy", "ending"}
    <3> SUFFICES ASSUME NEW p \in Runtime, p[1] = i, life'[p] # "none"
                 PROVE  sessions'[i] = p /\ life'[p] \in {"idle", "busy", "ending"}
      OBVIOUS
    <3>1. CASE p = o
      BY <3>1, <1>2, <1>3
    <3>2. CASE p # o
      <4>1. life[p] # "none"
        BY <3>2, <1>3
      <4>2. sessions[p[1]] = p
        BY <4>1, <1>1, AtRest
      <4> QED
        BY <4>2, <3>2
    <3> QED
      BY <3>1, <3>2
  <2> QED
    BY <2>1, <1>1, <1>2 DEF Stands
<1>5. Stays(o)
  BY <1>3, <1>2 DEF Stays, Caught
<1>6. Cardinality(Taken') <= MaxRuntimes
  <2>1. Taken' = Taken
    BY DEF Taken, Registered, Creating
  <2> QED
    BY <2>1, NoMoreTaken
<1>7. i \in timer' => IdleAt(i)'
  BY <1>2 DEF IdleAt
<1>8. start[i] = "evicting" <=> start[i] = "evicting"
  OBVIOUS
<1>9. aborted' \in SUBSET Id
  BY <1>t
<1> HIDE DEF i
<1> QED
  BY <1>1, <1>2, <1>4, <1>5, <1>6, <1>7, <1>9, OneMoves DEF i

LEMMA DeliverKeeps ==
  ASSUME RouterInv, NEW c \in Caller, Deliver(c)
  PROVE  RouterInv'
<1> DEFINE i == caller[c].id
           o == caller[c].runtime
<1>t. Typed /\ CallersFit
  BY DEF RouterInv
<1>1. i \in Id /\ o \in Runtime /\ o[1] = i
  BY <1>t, CallerIs DEF Deliver, CallersFit
<1>2. caller' \in [Caller -> CallerRecord] /\ CallersFit'
  <2>1. Idle \in CallerRecord /\ Idle.at # "holds"
    BY CallerRecords DEF Idle
  <2> QED
    BY <1>t, <2>1, CallerBecomes DEF Deliver
<1>3. UNCHANGED <<sessions, start, aborted, disposing, quiescing, job, closing>>
  BY DEF Deliver
<1>4. timer' = Rescheduled(i)
  BY DEF Deliver
<1>5. CASE life' = life
  <2>1. \A j \in timer' : IdleAt(j) /\ j \in Id
    BY <1>1, <1>3, <1>4, <1>5, <1>t DEF Rescheduled, RouterInv, IdleAt, Typed
  <2>2. Typed'
    <3>1. timer' \in SUBSET Id
      BY <2>1
    <3> QED
      BY <1>t, <1>2, <1>3, <1>5, <3>1 DEF Typed
  <2>3. JobsFit' /\ Evictions'
    BY <1>3, <1>5 DEF RouterInv, JobsFit, JobFits, OnePerId, Evictions
  <2>4. \A j \in Id : Stands(j)'
    BY <1>3, <1>5, StandsStill DEF RouterInv
  <2>5. \A j \in timer' : IdleAt(j)'
    BY <1>3, <1>5, <2>1 DEF IdleAt
  <2>6. Cardinality(Taken') <= MaxRuntimes
    <3>1. Taken' = Taken
      BY <1>3 DEF Taken, Registered, Creating
    <3> QED
      BY <3>1, NoMoreTaken
  <2> QED
    BY <1>2, <2>2, <2>3, <2>4, <2>5, <2>6 DEF RouterInv
<1>6. CASE life[o] \in {"idle", "busy"} /\ life' = [life EXCEPT ![o] = "busy"]
  <2>1. sessions[o[1]] = o /\ o # None
    BY <1>1, <1>6, InUse
  <2>2. life'[o] = "busy"
    BY <1>t, <1>1, <1>6 DEF Typed
  <2>3. timer' = timer \ {i}
    BY <1>1, <1>3, <1>4, <2>1, <2>2 DEF Rescheduled
  <2>4. timer' \in SUBSET Id /\ (\A j \in timer' : j # i => j \in timer) /\ i \notin timer'
    BY <2>3, <1>t DEF Typed
  <2>5. "busy" \in Life
    BY DEF Life, Alive
  <2> HIDE DEF i, o
  <2> QED
    BY <1>1, <1>2, <1>3, <1>6, <2>1, <2>4, <2>5, RegisteredMoves
<1> QED
  BY <1>5, <1>6 DEF Deliver

LEMMA TurnEndsKeeps ==
  ASSUME RouterInv, NEW o \in Runtime, TurnEnds(o)
  PROVE  RouterInv'
<1>t. Typed /\ o[1] \in Id
  BY RuntimeOf DEF RouterInv
<1>1. sessions[o[1]] = o /\ o # None
  BY InUse DEF TurnEnds
<1>2. life'[o] = "idle" /\ life[o] = "busy" /\ "idle" \in Life
  BY <1>t DEF TurnEnds, Typed, Life, Alive
<1>3. timer' = timer \cup {o[1]}
  BY <1>1, <1>2 DEF Rescheduled, TurnEnds
<1>4. timer' \in SUBSET Id /\ \A j \in timer' : j # o[1] => j \in timer
  BY <1>3, <1>t DEF Typed
<1>5. caller' \in [Caller -> CallerRecord] /\ CallersFit'
  BY <1>t DEF Typed, RouterInv, CallersFit, TurnEnds
<1>6. /\ life' = [life EXCEPT ![o] = "idle"]
      /\ UNCHANGED <<sessions, start, aborted, disposing, quiescing, job, closing>>
  BY DEF TurnEnds
<1> QED
  BY <1>1, <1>2, <1>4, <1>5, <1>6, RegisteredMoves

LEMMA RuntimeGoneKeeps ==
  ASSUME RouterInv, NEW o \in Runtime, RuntimeGone(o)
  PROVE  RouterInv'
<1>t. Typed /\ o[1] \in Id /\ o # None
  BY RuntimeOf, Constants DEF RouterInv
<1>1. sessions[o[1]] = o /\ life[o] = "ending" /\ "none" \in Life
  BY DEF RuntimeGone, Life
<1>2. o[1] \notin timer
  BY <1>1 DEF RouterInv, IdleAt
<1>3. timer' \in SUBSET Id /\ timer' = timer
  BY <1>t DEF Typed, RuntimeGone
<1>4. caller' \in [Caller -> CallerRecord] /\ CallersFit'
  BY <1>t DEF Typed, RouterInv, CallersFit, RuntimeGone
<1>5. /\ life' = [life EXCEPT ![o] = "none"]
      /\ UNCHANGED <<sessions, start, aborted, disposing, quiescing, job, closing>>
  BY DEF RuntimeGone
<1> QED
  BY <1>t, <1>1, <1>2, <1>3, <1>4, <1>5, RegisteredMoves

-----------------------------------------------------------------------------
(* Cold starts *)

\* A cold start takes the runtime in its hands to the next stage.
LEMMA StartMoves ==
  ASSUME RouterInv, NEW i \in Id, start[i] \notin Settled, start[i] # "evicting",
         NEW s \in Stage, s \notin {"evicting", "none", "opened"},
         NEW l \in Life, l = IF s = "failed" THEN "none" ELSE Form(s),
         start' = [start EXCEPT ![i] = s], life' = [life EXCEPT ![Starting(i)] = l],
         UNCHANGED <<sessions, disposing, quiescing, timer, job, caller, closing>>,
         aborted' \in SUBSET Id, Cardinality(Taken') <= MaxRuntimes
  PROVE  RouterInv'
<1> DEFINE o == Starting(i)
<1>t. /\ sessions \in [Id -> Runtime \cup {None}] /\ life \in [Runtime -> Life] /\ start \in [Id -> Stage]
      /\ timer \in SUBSET Id
  BY DEF RouterInv, Typed
<1>1. /\ o \in Runtime /\ o[1] = i /\ sessions[i] = None /\ ~Caught(o)
      /\ \A p \in Runtime : p[1] = i /\ p # o => life[p] = "none"
  BY InHand
<1>2. life' = [life EXCEPT ![o] = l]
  OBVIOUS
<1> HIDE DEF o
<1>3. life'[o] = l /\ start'[i] = s /\ sessions'[i] = None
      /\ \A p \in Runtime : p[1] = i /\ p # o => life'[p] = "none"
  BY <1>t, <1>1, <1>2
<1>4. Stands(i)'
  <2>1. CASE s = "failed"
    <3>1. \A p \in Runtime : p[1] = i => life'[p] = "none"
      BY <1>3, <2>1
    <3> QED
      BY <3>1, <1>3, <2>1 DEF Stands, Settled
  <2>2. CASE s # "failed"
    <3>1. s \notin Settled
      BY <2>2 DEF Settled
    <3>2. life'[o] = Form(start'[i])
      BY <1>3, <2>2
    <3> QED
      BY <1>1, <1>3, <3>1, <3>2 DEF Stands
  <2> QED
    BY <2>1, <2>2
<1>5. Stays(o)
  BY <1>1 DEF Stays
<1>6. caller' \in [Caller -> CallerRecord] /\ CallersFit'
  BY DEF Typed, RouterInv, CallersFit
<1>7. i \notin timer' /\ timer' \in SUBSET Id
  BY <1>1, <1>t DEF RouterInv, IdleAt
<1> QED
  BY <1>1, <1>2, <1>4, <1>5, <1>6, <1>7, OneMoves

LEMMA Fails ==
  ASSUME RouterInv, NEW i \in Id, start[i] \notin Settled, start[i] # "evicting", Failed(i),
         UNCHANGED <<sessions, disposing, quiescing, timer, job, caller, closing>>,
         aborted' \in SUBSET Id
  PROVE  RouterInv'
<1>1. "failed" \in Stage /\ "none" \in Life
  BY DEF Stage, Life
<1>2. start' = [start EXCEPT ![i] = "failed"] /\ life' = [life EXCEPT ![Starting(i)] = "none"]
  BY DEF Failed
<1>3. Cardinality(Taken') <= MaxRuntimes
  BY <1>1, <1>2, TakenNoMore
<1> QED
  BY <1>1, <1>2, <1>3, StartMoves

\* There is room for a runtime when the registry is not full.
LEMMA Opens ==
  ASSUME RouterInv, NEW i \in Id, start[i] \notin Settled, start[i] # "evicting", ~Full, Opening(i),
         UNCHANGED <<sessions, disposing, quiescing, timer, job, caller, closing>>,
         aborted' \in SUBSET Id
  PROVE  RouterInv'
<1>t. start \in [Id -> Stage]
  BY DEF RouterInv, Typed
<1>1. "opening" \in Stage /\ "opening" \in Life /\ Form("opening") = "opening"
  BY DEF Stage, Life, Alive, Form
<1>2. start' = [start EXCEPT ![i] = "opening"] /\ life' = [life EXCEPT ![Starting(i)] = "opening"]
  BY DEF Opening
<1>3. Cardinality(Taken') <= MaxRuntimes
  <2>1. Taken' \subseteq Taken \cup {i}
    BY <1>2, <1>t DEF Taken, Registered, Creating
  <2>2. /\ Cardinality(Registered) \in Nat /\ Cardinality(Creating) \in Nat
        /\ Cardinality(Taken) \in Nat /\ IsFiniteSet(Taken)
        /\ Cardinality(Taken) <= Cardinality(Registered) + Cardinality(Creating)
    BY TakenFinite, FS_CardinalityType, SizeOfUnion DEF Taken
  <2>3. IsFiniteSet(Taken \cup {i}) /\ Cardinality(Taken \cup {i}) <= Cardinality(Taken) + 1
    BY <2>2, FS_AddElement
  <2>4. Cardinality(Taken \cup {i}) \in Nat
    BY <2>3, FS_CardinalityType
  <2>5. Taken' \in SUBSET (Taken \cup {i})
    BY <2>1
  <2>6. IsFiniteSet(Taken') /\ Cardinality(Taken') <= Cardinality(Taken \cup {i})
    BY <2>3, <2>5, FS_Subset
  <2>7. Cardinality(Taken') \in Nat /\ MaxRuntimes \in Nat
    BY <2>6, FS_CardinalityType, Constants
  <2>8. Cardinality(Registered) + Cardinality(Creating) < MaxRuntimes
    BY <2>2, <2>7 DEF Full
  <2> QED
    BY <2>2, <2>3, <2>4, <2>6, <2>7, <2>8
<1> QED
  BY <1>1, <1>2, <1>3, StartMoves

LEMMA GrantKeeps ==
  ASSUME RouterInv, NEW i \in Id, Grant(i)
  PROVE  RouterInv'
<1>t. Typed
  BY DEF RouterInv
<1>1. start[i] = "waiting" /\ start[i] \notin Settled /\ Form("waiting") = "starting" /\ Form("leased") = "starting"
  BY DEF Grant, Settled, Form
<1>2. Starting(i) \in Runtime /\ life[Starting(i)] = "starting"
  BY <1>1, InHand
<1>3. life' = [life EXCEPT ![Starting(i)] = "starting"]
  BY <1>t, <1>2 DEF Grant, Typed
<1>4. start' = [start EXCEPT ![i] = "leased"] /\ "leased" \in Stage /\ "starting" \in Life
  BY DEF Grant, Stage, Life
<1>5. UNCHANGED <<sessions, disposing, quiescing, timer, job, caller, closing>> /\ aborted' \in SUBSET Id
  BY <1>t DEF Grant, Typed
<1>6. Cardinality(Taken') <= MaxRuntimes
  BY <1>4, <1>5, TakenNoMore
<1> QED
  BY <1>1, <1>3, <1>4, <1>5, <1>6, StartMoves

LEMMA DeadlineKeeps ==
  ASSUME RouterInv, NEW i \in Id, Deadline(i)
  PROVE  RouterInv'
<1>1. start[i] = "waiting" /\ start[i] \notin Settled /\ aborted' \in SUBSET Id
  BY DEF Deadline, Settled, RouterInv, Typed
<1> QED
  BY <1>1, Fails DEF Deadline

LEMMA AbortStartKeeps ==
  ASSUME RouterInv, NEW i \in Id, AbortStart(i)
  PROVE  RouterInv'
<1>1. aborted' \in SUBSET Id
  BY DEF AbortStart, RouterInv, Typed
<1>2. UNCHANGED <<sessions, disposing, quiescing, timer, job, caller, closing>>
  BY DEF AbortStart
<1>3. CASE start[i] = "waiting"
  <2>1. Failed(i) /\ start[i] \notin Settled
    BY <1>3 DEF AbortStart, Settled
  <2> QED
    BY <1>1, <1>2, <1>3, <2>1, Fails
<1>4. CASE start[i] # "waiting"
  <2>1. UNCHANGED <<start, life>>
    BY <1>4 DEF AbortStart
  <2>2. Typed'
    BY <1>1, <1>2, <2>1 DEF RouterInv, Typed
  <2>3. JobsFit' /\ Evictions' /\ CallersFit'
    BY <1>2, <2>1 DEF RouterInv, JobsFit, JobFits, OnePerId, Evictions, CallersFit
  <2> QED
    BY <1>2, <2>1, <2>2, <2>3, NothingMoves
<1> QED
  BY <1>3, <1>4

LEMMA EvictedKeeps ==
  ASSUME RouterInv, NEW i \in Id, Evicted(i)
  PROVE  RouterInv'
<1>1. start[i] \in {"evicted", "refused"} /\ start[i] \notin Settled /\ aborted' \in SUBSET Id
  BY DEF Evicted, Settled, RouterInv, Typed
<1> QED
  BY <1>1, Fails, Opens DEF Evicted

LEMMA StartEndsKeeps ==
  ASSUME RouterInv, NEW i \in Id, StartEnds(i)
  PROVE  RouterInv'
<1>1. start[i] \in {"opening", "aborting"} /\ start[i] \notin Settled /\ aborted' \in SUBSET Id
  BY DEF StartEnds, Settled, RouterInv, Typed
<1> QED
  BY <1>1, Fails DEF StartEnds

LEMMA OpenedKeeps ==
  ASSUME RouterInv, NEW i \in Id, Opened(i)
  PROVE  RouterInv'
<1> DEFINE o == Starting(i)
<1>t. /\ sessions \in [Id -> Runtime \cup {None}] /\ life \in [Runtime -> Life] /\ start \in [Id -> Stage]
      /\ aborted \in SUBSET Id /\ timer \in SUBSET Id /\ job \in [Task -> JobRecord \cup {Idle}]
  BY DEF RouterInv, Typed
<1>1. start[i] = "opening" /\ start[i] \notin Settled /\ Form("aborting") = "ending"
  BY DEF Opened, Settled, Form
<1>2. /\ o \in Runtime /\ o[1] = i /\ sessions[i] = None /\ ~Caught(o)
      /\ \A p \in Runtime : p[1] = i /\ p # o => life[p] = "none"
  BY <1>1, InHand
<1>3. UNCHANGED <<aborted, disposing, quiescing, timer, job, caller, closing>>
  BY DEF Opened
<1>4. CASE i \in aborted
  <2>1. /\ start' = [start EXCEPT ![i] = "aborting"] /\ life' = [life EXCEPT ![Starting(i)] = "ending"]
        /\ sessions' = sessions
    BY <1>4 DEF Opened
  <2>2. "aborting" \in Stage /\ "ending" \in Life /\ aborted' \in SUBSET Id
    BY <1>t, <1>3 DEF Stage, Life, Alive
  <2>3. Cardinality(Taken') <= MaxRuntimes
    BY <1>1, <2>1, <2>2, TakenNoMore
  <2> QED
    BY <1>1, <1>3, <2>1, <2>2, <2>3, StartMoves
<1>5. CASE i \notin aborted
  <2>1. /\ start' = [start EXCEPT ![i] = "opened"] /\ life' = [life EXCEPT ![o] = "idle"]
        /\ sessions' = [sessions EXCEPT ![i] = o]
    BY <1>5 DEF Opened
  <2> HIDE DEF o
  <2>2. /\ start'[i] = "opened" /\ life'[o] = "idle" /\ sessions'[i] = o
        /\ \A j \in Id : j # i => start'[j] = start[j] /\ sessions'[j] = sessions[j]
        /\ \A p \in Runtime : p # o => life'[p] = life[p]
    BY <1>t, <1>2, <2>1
  <2>3. Typed'
    <3>1. "opened" \in Stage /\ "idle" \in Life
      BY DEF Stage, Life, Alive
    <3>2. sessions' \in [Id -> Runtime \cup {None}] /\ life' \in [Runtime -> Life] /\ start' \in [Id -> Stage]
      BY <1>t, <1>2, <2>1, <3>1
    <3> QED
      BY <1>3, <3>2 DEF RouterInv, Typed
  <2>4. \A j \in Id : Stands(j)'
    <3> TAKE j \in Id
    <3>1. CASE j = i
      BY <1>2, <2>2, <3>1 DEF Stands, Settled
    <3>2. CASE j # i
      <4>1. \A p \in Runtime : p[1] = j => life'[p] = life[p]
        BY <1>2, <2>2, <3>2
      <4> QED
        BY <2>2, <3>2, <4>1, StandsStill DEF RouterInv
    <3> QED
      BY <3>1, <3>2
  <2>5. JobsFit'
    <3>1. \A p \in Runtime : Stays(p)
      <4> TAKE p \in Runtime
      <4>1. CASE p = o
        BY <1>2, <4>1 DEF Stays
      <4>2. CASE p # o /\ p[1] = i
        BY <1>2, <2>2, <4>2 DEF Stays, Caught
      <4>3. CASE p # o /\ p[1] # i
        <5>1. sessions'[p[1]] = sessions[p[1]] /\ life'[p] = life[p]
          BY <2>2, <4>3, RuntimeOf
        <5> QED
          BY <5>1 DEF Stays, Caught
      <4> QED
        BY <4>1, <4>2, <4>3
    <3>2. \A k \in Task : job[k] # Idle => job[k].cached \subseteq Runtime
      BY <1>t DEF JobRecord
    <3>3. \A k \in Task : job[k] # Idle => \A p \in job[k].cached : Stays(p)
      BY <3>1, <3>2
    <3> QED
      BY <1>3, <3>3, JobsAsBefore DEF RouterInv
  <2>6. Evictions'
    BY <1>1, <1>3, <2>2 DEF RouterInv, Evictions
  <2>7. \A j \in timer' : IdleAt(j)'
    <3> TAKE j \in timer'
    <3>1. j \in Id /\ IdleAt(j)
      BY <1>3, <1>t DEF RouterInv
    <3>2. sessions[j] \in Runtime /\ sessions[j][1] = j /\ j # i
      BY <1>2, <3>1, OfItsOwn DEF IdleAt
    <3>3. sessions'[j] = sessions[j] /\ life'[sessions[j]] = life[sessions[j]]
      BY <1>2, <2>2, <3>1, <3>2
    <3> QED
      BY <3>1, <3>3 DEF IdleAt
  <2>8. Taken' \subseteq Taken
    BY <1>1, <2>1, <1>t DEF Taken, Registered, Creating
  <2>9. CallersFit'
    BY <1>3 DEF RouterInv, CallersFit
  <2> QED
    BY <2>3, <2>4, <2>5, <2>6, <2>7, <2>8, <2>9, NoMoreTaken DEF RouterInv
<1> QED
  BY <1>4, <1>5

-----------------------------------------------------------------------------
(* Disposals: what they gather, and how they begin *)

\* What may become a disposal
Sound(r) ==
  /\ r \in JobRecord /\ OnePerId(r.cached) /\ OnePerId(r.doomed)
  /\ \A o \in r.cached : Caught(o)

LEMMA AskedIsSound ==
  ASSUME NEW kind \in {"reset", "dispose", "kill", "rebind", "close"}, NEW ids \in SUBSET Id
  PROVE  Sound(Asked(kind, ids))
  BY AskedIs DEF Sound, OnePerId

LEMMA UnderWayIsSound ==
  ASSUME RouterInv, NEW k \in Task, job[k] # Idle
  PROVE  Sound(job[k])
  BY JobIs DEF RouterInv, JobsFit, JobFits, Sound, Caught

LEMMA SoundFits ==
  ASSUME NEW r, Sound(r), r.at # "disposing"
  PROVE  JobFits(r)
  BY DEF Sound, JobFits, Caught

LEMMA ElsewhereIsSound ==
  ASSUME NEW at \in {"earlier", "killing", "preflight", "runs", "pending", "closing",
                     "disposing", "binding", "failed", "closed"},
         NEW j, Sound(j)
  PROVE  LET r == [j EXCEPT !.at = at]
         IN  r \in JobRecord /\ Sound(r) /\ r.at = at /\ r.kind = j.kind /\ r.cached = j.cached
  BY Elsewhere DEF Sound

LEMMA GatheredFits ==
  ASSUME NEW r, Sound(r), NEW busy \in SUBSET Id
  PROVE  /\ Sound(Gathered(r, busy)) /\ Gathered(r, busy).kind = r.kind
         /\ Gathered(r, busy).at \in {"pending", "closing"}
         /\ Gathered(r, busy).ids = r.ids
<1> DEFINE ids == IF r.kind = "close" THEN Id ELSE r.ids
           found == {o \in Runtime : o[1] \in ids /\ sessions[o[1]] = o}
<1>1. r \in JobRecord
  BY DEF Sound
<1>2. CASE busy # {}
  <2>1. Gathered(r, busy) = [r EXCEPT !.at = "pending", !.pending = busy]
    BY <1>2 DEF Gathered
  <2> QED
    BY <1>1, <2>1 DEF Sound, JobRecord
<1>3. CASE busy = {}
  <2>1. Gathered(r, busy) = [r EXCEPT !.at = "closing", !.pending = {}, !.cached = found]
    BY <1>3 DEF Gathered
  <2>2. found \in SUBSET Runtime /\ OnePerId(found) /\ \A o \in found : Caught(o)
    BY DEF OnePerId, Caught
  <2> HIDE DEF found
  <2> QED
    BY <1>1, <2>1, <2>2 DEF Sound, JobRecord
<1> QED
  BY <1>2, <1>3

\* Where a disposal is after the step that begins it.
Beginnings == {"earlier", "runs", "pending", "closing"}

LEMMA Claims ==
  ASSUME RouterInv, NEW k \in Task, NEW r, Sound(r), NEW timers \in SUBSET Id, Claim(k, r, timers)
  PROVE  /\ \E j \in JobRecord : /\ Sound(j) /\ j.at \in Beginnings /\ j.kind = r.kind
                                 /\ job' = [job EXCEPT ![k] = j]
         /\ disposing' \in [Id -> Task \cup {None}] /\ quiescing' \in SUBSET Id
         /\ timer' \subseteq timers
<1> DEFINE teardown == r.kind \in {"dispose", "kill"}
           begun == IF teardown THEN [r EXCEPT !.at = "runs"] ELSE Gathered(r, StartingOf(r.ids))
           doomed == IF teardown \/ r.kind = "close"
                     THEN {o \in Runtime : o[1] \in r.ids /\ life[o] # "none"} ELSE {}
           j == [begun EXCEPT !.doomed = doomed]
<1>t. r \in JobRecord /\ r.ids \in SUBSET Id
  BY DEF Sound, JobRecord
<1>1. Sound(begun) /\ begun.at \in Beginnings /\ begun.kind = r.kind
  <2>1. CASE teardown
    BY <2>1, ElsewhereIsSound DEF Beginnings
  <2>2. CASE ~teardown
    <3>1. StartingOf(r.ids) \in SUBSET Id
      BY <1>t DEF StartingOf
    <3> QED
      BY <2>2, <3>1, GatheredFits DEF Beginnings
  <2> QED
    BY <2>1, <2>2
<1>2. doomed \in SUBSET Runtime /\ OnePerId(doomed)
  BY OneStands DEF OnePerId
<1>3. job' = [job EXCEPT ![k] = j]
  BY DEF Claim
<1>4. disposing' \in [Id -> Task \cup {None}] /\ quiescing' \in SUBSET Id /\ timer' \subseteq timers
  BY <1>t DEF Claim, RouterInv, Typed
<1> HIDE DEF begun, doomed
<1>5. j \in JobRecord /\ j.at = begun.at /\ j.kind = begun.kind /\ j.cached = begun.cached /\ j.doomed = doomed
  BY <1>1, <1>2 DEF Sound, JobRecord
<1> HIDE DEF j
<1>6. Sound(j) /\ j.at \in Beginnings /\ j.kind = r.kind
  BY <1>1, <1>2, <1>5 DEF Sound
<1> QED
  BY <1>3, <1>4, <1>5, <1>6

LEMMA Begins ==
  ASSUME RouterInv, NEW k \in Task, NEW r, Sound(r), NEW timers \in SUBSET Id, Begin(k, r, timers)
  PROVE  /\ \E j \in JobRecord : /\ Sound(j) /\ j.at \in Beginnings /\ j.kind = r.kind
                                 /\ job' = [job EXCEPT ![k] = j]
         /\ disposing' \in [Id -> Task \cup {None}] /\ quiescing' \in SUBSET Id
         /\ timer' \subseteq timers
<1> DEFINE earlier == {disposing[i] : i \in r.ids} \ {None}
           j == [r EXCEPT !.at = "earlier", !.after = earlier]
<1>1. CASE Claim(k, r, timers)
  BY <1>1, Claims
<1>2. CASE job' = [job EXCEPT ![k] = j] /\ timer' = timers /\ UNCHANGED <<disposing, quiescing>>
  <2>1. r \in JobRecord /\ r.ids \in SUBSET Id
    BY DEF Sound, JobRecord
  <2>2. earlier \in SUBSET Task
    BY <2>1 DEF RouterInv, Typed
  <2>3. disposing' \in [Id -> Task \cup {None}] /\ quiescing' \in SUBSET Id
    BY <1>2 DEF RouterInv, Typed
  <2> HIDE DEF earlier
  <2>4. j \in JobRecord /\ j.at = "earlier" /\ j.kind = r.kind /\ j.cached = r.cached /\ j.doomed = r.doomed
    BY <2>1, <2>2 DEF JobRecord
  <2> HIDE DEF j
  <2>5. Sound(j)
    BY <2>4 DEF Sound
  <2> QED
    BY <1>2, <2>3, <2>4, <2>5 DEF Beginnings
<1> QED
  BY <1>1, <1>2 DEF Begin

-----------------------------------------------------------------------------
(* Disposals: the steps *)

LEMMA JobTyped ==
  ASSUME RouterInv, NEW k \in Task, NEW j \in JobRecord \cup {Idle}, job' = [job EXCEPT ![k] = j]
  PROVE  /\ job' \in [Task -> JobRecord \cup {Idle}]
         /\ \A t \in Task : job'[t] = IF t = k THEN j ELSE job[t]
  BY DEF RouterInv, Typed

LEMMA JobBecomes ==
  ASSUME RouterInv, NEW k \in Task, NEW j \in JobRecord \cup {Idle}, job' = [job EXCEPT ![k] = j],
         j # Idle => JobFits(j), \A o \in Runtime : Stays(o)
  PROVE  JobsFit'
<1>1. \A t \in Task : job'[t] = IF t = k THEN j ELSE job[t]
  BY JobTyped
<1>2. job' \in [Task -> JobRecord \cup {Idle}]
  BY JobTyped
<1>3. \A t \in Task : job'[t] # Idle => JobFits(job'[t])
  BY <1>1 DEF RouterInv, JobsFit
<1>4. \A t \in Task : job'[t] # Idle => job'[t].cached \subseteq Runtime
  BY <1>2 DEF JobRecord
<1> QED
  BY <1>3, <1>4, JobsStillFit

LEMMA EvictionsStay ==
  ASSUME RouterInv, NEW k \in Task, NEW j \in JobRecord, job' = [job EXCEPT ![k] = j],
         k \in Job \/ (job[k] # Idle /\ j.kind = job[k].kind),
         \A i \in Id : start'[i] = "evicting" <=> start[i] = "evicting"
  PROVE  Evictions'
<1>1. \A t \in Task : job'[t] = IF t = k THEN j ELSE job[t]
  BY JobTyped
<1>2. Id \subseteq Task /\ (k \in Job => k \notin Id)
  BY Constants DEF Task
<1> QED
  BY <1>1, <1>2, NeverIdle DEF RouterInv, Evictions

LEMMA NoChangeStays ==
  ASSUME sessions' = sessions, life' = life
  PROVE  \A o \in Runtime : Stays(o)
  BY DEF Stays, Caught

\* The steps in which no more than one job changes
LEMMA JobMoves ==
  ASSUME RouterInv, NEW k \in Task, NEW j \in JobRecord, JobFits(j), job' = [job EXCEPT ![k] = j],
         k \in Job \/ (job[k] # Idle /\ j.kind = job[k].kind),
         UNCHANGED <<sessions, life, start, aborted, caller, closing>>,
         disposing' \in [Id -> Task \cup {None}], quiescing' \in SUBSET Id, timer' \subseteq timer
  PROVE  RouterInv'
<1>1. job' \in [Task -> JobRecord \cup {Idle}]
  BY JobTyped
<1>2. Typed' /\ CallersFit'
  BY <1>1 DEF RouterInv, Typed, CallersFit
<1>3. JobsFit'
  BY JobBecomes, NoChangeStays
<1>4. Evictions'
  BY EvictionsStay
<1> QED
  BY <1>2, <1>3, <1>4, NothingMoves

LEMMA BeginMoves ==
  ASSUME RouterInv, NEW k \in Task, NEW r, Sound(r), NEW timers \in SUBSET timer,
         k \in Job \/ (job[k] # Idle /\ r.kind = job[k].kind),
         Begin(k, r, timers) \/ Claim(k, r, timers),
         UNCHANGED <<sessions, life, start, aborted, caller, closing>>
  PROVE  RouterInv'
<1>1. timers \in SUBSET Id
  BY DEF RouterInv, Typed
<1>2. /\ \E j \in JobRecord : /\ Sound(j) /\ j.at \in Beginnings /\ j.kind = r.kind
                              /\ job' = [job EXCEPT ![k] = j]
      /\ disposing' \in [Id -> Task \cup {None}] /\ quiescing' \in SUBSET Id
      /\ timer' \subseteq timers
  BY <1>1, Begins, Claims
<1>3. PICK j \in JobRecord : /\ Sound(j) /\ j.at # "disposing" /\ j.kind = r.kind
                             /\ job' = [job EXCEPT ![k] = j]
  BY <1>2 DEF Beginnings
<1>4. JobFits(j)
  BY <1>3, SoundFits
<1>5. timer' \subseteq timer
  BY <1>2
<1> QED
  BY <1>2, <1>3, <1>4, <1>5, JobMoves

LEMMA JobsAreTasks == Job \subseteq Task /\ Id \subseteq Task
  BY DEF Task

LEMMA ResetKeeps ==
  ASSUME RouterInv, NEW k \in Job, NEW i \in Id, Reset(k, i)
  PROVE  RouterInv'
<1>1. Sound(Asked("reset", {i}))
  BY AskedIsSound
<1> QED
  BY <1>1, BeginMoves, JobsAreTasks DEF Reset

LEMMA IdleTimerKeeps ==
  ASSUME RouterInv, NEW k \in Job, NEW i \in Id, IdleTimer(k, i)
  PROVE  RouterInv'
<1>1. Sound(Asked("reset", {i})) /\ timer \ {i} \in SUBSET timer
  BY AskedIsSound
<1> QED
  BY <1>1, BeginMoves, JobsAreTasks DEF IdleTimer

LEMMA DisposeKeeps ==
  ASSUME RouterInv, NEW k \in Job, NEW i \in Id, Dispose(k, i)
  PROVE  RouterInv'
<1>1. Subtree[i] \in SUBSET Id
  BY Constants
<1>2. Sound(Asked("dispose", Subtree[i]))
  BY <1>1, AskedIsSound
<1> QED
  BY <1>2, BeginMoves, JobsAreTasks DEF Dispose

LEMMA KillKeeps ==
  ASSUME RouterInv, NEW k \in Job, NEW i \in Id, Kill(k, i)
  PROVE  RouterInv'
<1>1. Subtree[i] \in SUBSET Id
  BY Constants
<1>2. Sound(Asked("kill", Subtree[i]))
  BY <1>1, AskedIsSound
<1> DEFINE a == Asked("kill", Subtree[i])
           j == [a EXCEPT !.at = "killing"]
<1>3. job' = [job EXCEPT ![k] = j]
  BY DEF Kill
<1> HIDE DEF a
<1>4. j \in JobRecord /\ Sound(j) /\ j.at # "disposing"
  BY <1>2, ElsewhereIsSound DEF a
<1> HIDE DEF j
<1>5. JobFits(j)
  BY <1>4, SoundFits
<1>6. disposing' \in [Id -> Task \cup {None}] /\ quiescing' \in SUBSET Id /\ timer' \subseteq timer
  BY <1>1 DEF Kill, RouterInv, Typed
<1>7. UNCHANGED <<sessions, life, start, aborted, caller, closing>>
  BY DEF Kill
<1> QED
  BY <1>3, <1>4, <1>5, <1>6, <1>7, JobMoves, JobsAreTasks

LEMMA RebindKeeps ==
  ASSUME RouterInv, NEW k \in Job, NEW i \in Id, Rebind(k, i)
  PROVE  RouterInv'
<1> DEFINE a == Asked("rebind", {i})
           j == [a EXCEPT !.at = "preflight"]
<1>1. Sound(a)
  BY AskedIsSound
<1>2. job' = [job EXCEPT ![k] = j]
  BY DEF Rebind
<1> HIDE DEF a
<1>3. j \in JobRecord /\ Sound(j) /\ j.at # "disposing"
  BY <1>1, ElsewhereIsSound
<1> HIDE DEF j
<1>4. JobFits(j)
  BY <1>3, SoundFits
<1>5. disposing' \in [Id -> Task \cup {None}] /\ quiescing' \in SUBSET Id /\ timer' \subseteq timer
  BY DEF Rebind, RouterInv, Typed
<1>6. UNCHANGED <<sessions, life, start, aborted, caller, closing>>
  BY DEF Rebind
<1> QED
  BY <1>2, <1>3, <1>4, <1>5, <1>6, JobMoves, JobsAreTasks

LEMMA PreflightedKeeps ==
  ASSUME RouterInv, NEW k \in Job, Preflighted(k)
  PROVE  RouterInv'
<1>1. job[k] # Idle /\ Sound(job[k])
  BY JobIs, UnderWayIsSound, JobsAreTasks DEF Preflighted, RouterInv, Idle
<1>2. UNCHANGED <<sessions, life, start, aborted, caller, closing>>
  BY DEF Preflighted
<1>3. ASSUME NEW at \in {"binding", "failed"}, job' = [job EXCEPT ![k].at = at],
             UNCHANGED <<disposing, quiescing, timer>>
      PROVE  RouterInv'
  <2> DEFINE j == [job[k] EXCEPT !.at = at]
  <2>1. job' = [job EXCEPT ![k] = j]
    BY <1>3
  <2>2. j \in JobRecord /\ Sound(j) /\ j.at # "disposing"
    BY <1>1, ElsewhereIsSound
  <2> HIDE DEF j
  <2>3. JobFits(j)
    BY <2>2, SoundFits
  <2>4. disposing' \in [Id -> Task \cup {None}] /\ quiescing' \in SUBSET Id /\ timer' \subseteq timer
    BY <1>3 DEF RouterInv, Typed
  <2> QED
    BY <1>2, <2>1, <2>2, <2>3, <2>4, JobMoves, JobsAreTasks
<1>4. CASE Begin(k, job[k], timer)
  BY <1>1, <1>2, <1>4, BeginMoves, JobsAreTasks
<1> QED
  BY <1>3, <1>4 DEF Preflighted

LEMMA WokenKeeps ==
  ASSUME RouterInv, NEW k \in Task, Woken(k)
  PROVE  RouterInv'
<1>1. job[k] # Idle /\ Sound(job[k])
  BY JobIs, UnderWayIsSound DEF Woken, RouterInv, Idle
<1> QED
  BY <1>1, BeginMoves DEF Woken

LEMMA RunsCancelledKeeps ==
  ASSUME RouterInv, NEW k \in Task, RunsCancelled(k)
  PROVE  RouterInv'
<1> DEFINE j == Gathered(job[k], StartingOf(job[k].ids))
<1>1. job[k] # Idle /\ Sound(job[k])
  BY JobIs, UnderWayIsSound DEF RunsCancelled, RouterInv, Idle
<1>2. StartingOf(job[k].ids) \in SUBSET Id
  BY <1>1 DEF Sound, JobRecord, StartingOf
<1>3. Sound(j) /\ j.at # "disposing" /\ j.kind = job[k].kind
  BY <1>1, <1>2, GatheredFits
<1>4. job' = [job EXCEPT ![k] = j]
  BY DEF RunsCancelled, RouterInv, Typed
<1> HIDE DEF j
<1>5. JobFits(j) /\ j \in JobRecord
  BY <1>3, SoundFits DEF Sound
<1>6. disposing' \in [Id -> Task \cup {None}] /\ quiescing' \in SUBSET Id /\ timer' \subseteq timer
  BY DEF RunsCancelled, RouterInv, Typed
<1>7. UNCHANGED <<sessions, life, start, aborted, caller, closing>>
  BY DEF RunsCancelled
<1> QED
  BY <1>1, <1>3, <1>4, <1>5, <1>6, <1>7, JobMoves

\* A cold start goes on to a stage in which its runtime is the same.
LEMMA SameForm ==
  ASSUME RouterInv, NEW i \in Id, start[i] \notin Settled, start'[i] \notin Settled,
         Form(start'[i]) = Form(start[i]), sessions'[i] = sessions[i],
         \A o \in Runtime : o[1] = i => life'[o] = life[o]
  PROVE  Stands(i)'
<1>1. /\ Starting(i) \in Runtime /\ Starting(i)[1] = i /\ sessions[i] = None
      /\ life[Starting(i)] = Form(start[i])
      /\ \A p \in Runtime : p[1] = i /\ p # Starting(i) => life[p] = "none"
  BY InHand
<1> DEFINE o == Starting(i)
<1>2. o \in Runtime /\ o[1] = i /\ life[o] = Form(start[i])
      /\ \A p \in Runtime : p[1] = i /\ p # o => life[p] = "none"
  BY <1>1
<1>3. sessions'[i] = None
  BY <1>1
<1>4. \E q \in Runtime :
        /\ q[1] = i /\ life'[q] = Form(start'[i])
        /\ \A p \in Runtime : p[1] = i /\ p # q => life'[p] = "none"
  <2> HIDE DEF o
  <2>1. /\ o[1] = i /\ life'[o] = Form(start'[i])
        /\ \A p \in Runtime : p[1] = i /\ p # o => life'[p] = "none"
    BY <1>2
  <2> QED
    BY <1>2, <2>1
<1> QED
  BY <1>3, <1>4 DEF Stands, Form

\* Runtimes in use may be stopped; those that end, end.
LEMMA InUseChange ==
  ASSUME RouterInv, NEW i \in Id, sessions'[i] = sessions[i], start'[i] = start[i],
         \A o \in Runtime : \/ life'[o] = life[o]
                            \/ /\ life[o] \in {"idle", "busy"}
                               /\ life'[o] \in {"idle", "busy", "ending"}
  PROVE  Stands(i)'
<1>1. CASE start[i] \notin Settled
  <2>1. \A o \in Runtime : o[1] = i => life'[o] = life[o]
    BY <1>1, InUse
  <2> QED
    BY <2>1, StandsStill DEF RouterInv
<1>2. CASE start[i] \in Settled
  <2>1. \A o \in Runtime : o[1] = i /\ life'[o] # "none" =>
          sessions'[i] = o /\ life'[o] \in {"idle", "busy", "ending"}
    <3> SUFFICES ASSUME NEW o \in Runtime, o[1] = i, life'[o] # "none"
                 PROVE  sessions'[i] = o /\ life'[o] \in {"idle", "busy", "ending"}
      OBVIOUS
    <3>1. life[o] # "none"
      OBVIOUS
    <3>2. sessions[o[1]] = o /\ life[o] \in {"idle", "busy", "ending"}
      BY <1>2, <3>1, AtRest
    <3> QED
      BY <3>2
  <2>2. sessions'[i] # None => sessions'[i][1] = i
    BY OfItsOwn
  <2> QED
    BY <1>2, <2>1, <2>2 DEF Stands
<1> QED
  BY <1>1, <1>2

LEMMA BeginStartKeeps ==
  ASSUME RouterInv, NEW i \in Id, BeginStart(i)
  PROVE  RouterInv'
<1>t. Typed
  BY DEF RouterInv
<1>1. start[i] = "leased" /\ start[i] \notin Settled /\ Form("leased") = "starting" /\ Form("evicting") = "starting"
  BY DEF BeginStart, Settled, Form
<1>2. UNCHANGED <<sessions, aborted, caller, closing>> /\ aborted' \in SUBSET Id
  BY <1>t DEF BeginStart, Typed
<1>3. CASE Failed(i) /\ UNCHANGED <<disposing, quiescing, timer, job>>
  BY <1>1, <1>2, <1>3, Fails
<1>4. CASE ~Full /\ Opening(i) /\ UNCHANGED <<disposing, quiescing, timer, job>>
  BY <1>1, <1>2, <1>4, Opens
<1>5. CASE /\ \E v \in Evictable : Begin(i, Asked("reset", {v}), timer)
           /\ start' = [start EXCEPT ![i] = "evicting"]
           /\ UNCHANGED life
  <2>1. PICK v \in Evictable : Begin(i, Asked("reset", {v}), timer)
    BY <1>5
  <2>2. v \in Id /\ timer \in SUBSET Id /\ i \in Task
    BY <1>t, JobsAreTasks DEF Evictable, Registered, Typed
  <2>3. Sound(Asked("reset", {v})) /\ Asked("reset", {v}).kind = "reset"
    BY <2>2, AskedIsSound, AskedIs
  <2> DEFINE r == Asked("reset", {v})
  <2> HIDE DEF r
  <2>4. /\ \E j \in JobRecord : /\ Sound(j) /\ j.at # "disposing" /\ j.kind = r.kind
                                /\ job' = [job EXCEPT ![i] = j]
        /\ disposing' \in [Id -> Task \cup {None}] /\ quiescing' \in SUBSET Id
        /\ timer' \subseteq timer
    BY <2>1, <2>2, <2>3, Begins DEF r, Beginnings
  <2>5. PICK j \in JobRecord : /\ Sound(j) /\ j.at # "disposing" /\ j.kind = "reset"
                               /\ job' = [job EXCEPT ![i] = j]
    BY <2>3, <2>4 DEF r
  <2>6. start'[i] = "evicting" /\ (\A p \in Id : p # i => start'[p] = start[p]) /\ start' \in [Id -> Stage]
    BY <1>t, <1>5 DEF Typed, Stage
  <2>7. job' \in [Task -> JobRecord \cup {Idle}] /\ \A t \in Task : job'[t] = IF t = i THEN j ELSE job[t]
    BY <2>2, <2>5, JobTyped
  <2>8. Typed' /\ CallersFit'
    BY <1>t, <1>2, <1>5, <2>4, <2>6, <2>7 DEF Typed, RouterInv, CallersFit
  <2>9. \A p \in Id : Stands(p)'
    <3> TAKE p \in Id
    <3>1. CASE p = i
      BY <1>1, <1>2, <1>5, <2>6, <3>1, SameForm DEF Settled
    <3>2. CASE p # i
      BY <1>2, <1>5, <2>6, <3>2, StandsStill DEF RouterInv
    <3> QED
      BY <3>1, <3>2
  <2>10. JobsFit'
    BY <1>2, <1>5, <2>2, <2>5, SoundFits, JobBecomes, NoChangeStays
  <2>11. Evictions'
    BY <2>2, <2>5, <2>6, <2>7, NeverIdle, JobsAreTasks DEF RouterInv, Evictions
  <2>12. \A p \in timer' : IdleAt(p)'
    BY <1>2, <1>5, <2>4 DEF RouterInv, IdleAt
  <2>13. Cardinality(Taken') <= MaxRuntimes
    BY <1>2, <1>5, TakenNoMore DEF Stage
  <2> QED
    BY <2>8, <2>9, <2>10, <2>11, <2>12, <2>13 DEF RouterInv
<1> QED
  BY <1>3, <1>4, <1>5 DEF BeginStart

LEMMA SettleKeeps ==
  ASSUME RouterInv, NEW i \in Id, Settle(i)
  PROVE  RouterInv'
<1>t. Typed
  BY DEF RouterInv
<1>1. /\ start[i] \in {"opened", "failed"} /\ start[i] \in Settled
      /\ start' = [start EXCEPT ![i] = "none"] /\ UNCHANGED <<sessions, life, disposing, quiescing, timer, closing>>
  BY DEF Settle, Settled
<1>2. /\ start'[i] = "none" /\ start' \in [Id -> Stage]
      /\ \A p \in Id : p # i => start'[p] = start[p]
  BY <1>t, <1>1 DEF Typed, Stage
<1>3. caller' \in [Caller -> CallerRecord] /\ CallersFit'
  <2>1. \A c \in Caller :
          \/ caller'[c] = caller[c] \/ caller'[c] = Idle
          \/ sessions[i] # None /\ caller'[c] = [at |-> "holds", id |-> i, runtime |-> sessions[i]]
    BY DEF Settle
  <2>2. \A c \in Caller : caller'[c] \in CallerRecord /\ (caller'[c].at = "holds" => caller'[c].runtime[1] = caller'[c].id)
    <3> TAKE c \in Caller
    <3>1. CASE caller'[c] = caller[c]
      BY <1>t, <3>1 DEF Typed, RouterInv, CallersFit
    <3>2. CASE caller'[c] = Idle
      BY <3>2, CallerRecords DEF Idle
    <3>3. CASE sessions[i] # None /\ caller'[c] = [at |-> "holds", id |-> i, runtime |-> sessions[i]]
      <4>1. sessions[i] \in Runtime /\ sessions[i][1] = i
        BY <3>3, OfItsOwn
      <4> DEFINE r == [at |-> "holds", id |-> i, runtime |-> sessions[i]]
      <4>2. r \in CallerRecord
        BY <4>1, CallerRecords
      <4>3. r.runtime[1] = r.id
        BY <4>1
      <4> HIDE DEF r
      <4>4. caller'[c] = r
        BY <3>3 DEF r
      <4> QED
        BY <4>2, <4>3, <4>4
    <3> QED
      BY <2>1, <3>1, <3>2, <3>3
  <2>3. caller' = [c \in Caller |-> caller'[c]]
    BY DEF Settle
  <2> QED
    BY <2>2, <2>3 DEF CallersFit
<1>4. \A k \in Task : \/ job'[k] = job[k]
                      \/ /\ job[k].at = "pending"
                         /\ job'[k] = Gathered(job[k], job[k].pending \ {i})
  BY DEF Settle
<1>5. \A k \in Task : /\ job'[k] \in JobRecord \cup {Idle}
                      /\ job'[k] = Idle <=> job[k] = Idle
                      /\ job[k] # Idle => JobFits(job'[k]) /\ job'[k].kind = job[k].kind
  <2> TAKE k \in Task
  <2>1. CASE job'[k] = job[k]
    BY <1>t, <2>1 DEF Typed, RouterInv, JobsFit
  <2>2. CASE /\ job[k].at = "pending"
             /\ job'[k] = Gathered(job[k], job[k].pending \ {i})
    <3>1. job[k] # Idle /\ job[k] \in JobRecord
      BY <1>t, <2>2, JobIs
    <3>2. Sound(job[k]) /\ job[k].pending \ {i} \in SUBSET Id
      BY <3>1, UnderWayIsSound DEF JobRecord
    <3>3. Sound(job'[k]) /\ job'[k].kind = job[k].kind /\ job'[k].at # "disposing"
      BY <2>2, <3>2, GatheredFits
    <3>4. job'[k] \in JobRecord /\ job'[k] # Idle
      BY <3>3, NeverIdle DEF Sound
    <3>5. JobFits(job'[k])
      BY <3>3 DEF Sound, JobFits, Caught
    <3> QED
      BY <3>1, <3>3, <3>4, <3>5
  <2> QED
    BY <1>4, <2>1, <2>2
<1>6. job' \in [Task -> JobRecord \cup {Idle}]
  <2>1. job' = [k \in Task |-> job'[k]]
    BY DEF Settle
  <2> QED
    BY <1>5, <2>1
<1>7. Typed'
  <2>1. aborted' \in SUBSET Id
    BY <1>t DEF Settle, Typed
  <2> QED
    BY <1>t, <1>1, <1>2, <1>3, <1>6, <2>1 DEF Typed
<1>8. \A p \in Id : Stands(p)'
  <2> TAKE p \in Id
  <2>1. CASE p = i
    BY <1>1, <1>2, <2>1 DEF RouterInv, Stands, Settled
  <2>2. CASE p # i
    BY <1>1, <1>2, <2>2, StandsStill DEF RouterInv
  <2> QED
    BY <2>1, <2>2
<1>9. JobsFit'
  <2>1. \A k \in Task : job'[k] # Idle => job'[k].cached \subseteq Runtime
    BY <1>6 DEF JobRecord
  <2> QED
    BY <1>1, <1>5, <2>1, NoChangeStays, JobsStillFit
<1>10. Evictions'
  BY <1>1, <1>2, <1>5, JobsAreTasks DEF RouterInv, Evictions
<1>11. \A p \in timer' : IdleAt(p)'
  BY <1>1 DEF RouterInv, IdleAt
<1>12. Cardinality(Taken') <= MaxRuntimes
  BY <1>1, TakenNoMore DEF Stage
<1> QED
  BY <1>3, <1>7, <1>8, <1>9, <1>10, <1>11, <1>12 DEF RouterInv

LEMMA KilledKeeps ==
  ASSUME RouterInv, NEW k \in Job, Killed(k)
  PROVE  RouterInv'
<1> DEFINE stopped == {i \in job[k].ids : sessions[i] # None /\ life[sessions[i]] = "busy"}
<1>t. Typed /\ k \in Task
  BY JobsAreTasks DEF RouterInv
<1>1. job[k] # Idle /\ job[k] \in JobRecord /\ Sound(job[k])
  BY <1>t, JobIs, UnderWayIsSound DEF Killed
<1>2. /\ UNCHANGED <<sessions, start, aborted, caller, closing>>
      /\ life' = [o \in Runtime |-> IF \E i \in stopped : sessions[i] = o THEN "idle" ELSE life[o]]
      /\ Begin(k, job[k], timer \cup stopped)
  BY DEF Killed
<1>3. \A i \in stopped : i \in Id /\ sessions[i] # None /\ life[sessions[i]] = "busy"
  BY <1>1 DEF JobRecord
<1>4. \A o \in Runtime : \/ life'[o] = life[o]
                         \/ life[o] = "busy" /\ life'[o] = "idle"
  BY <1>2, <1>3
<1>5. timer \cup stopped \in SUBSET Id
  BY <1>t, <1>3 DEF Typed
<1>6. \A i \in timer \cup stopped : sessions[i] # None /\ life'[sessions[i]] = "idle"
  <2> SUFFICES ASSUME NEW i \in timer \cup stopped
               PROVE  sessions[i] # None /\ life'[sessions[i]] = "idle"
    OBVIOUS
  <2>1. i \in Id /\ sessions[i] # None
    BY <1>3, <1>5 DEF RouterInv, IdleAt
  <2>2. sessions[i] \in Runtime
    BY <2>1, OfItsOwn
  <2>3. CASE i \in stopped
    BY <1>2, <2>1, <2>2, <2>3
  <2>4. CASE i \in timer
    <3>1. life[sessions[i]] = "idle"
      BY <2>4 DEF RouterInv, IdleAt
    <3> QED
      BY <1>2, <2>1, <2>2, <3>1
  <2> QED
    BY <2>3, <2>4
<1> HIDE DEF stopped
<1>7. /\ \E j \in JobRecord : /\ Sound(j) /\ j.at # "disposing" /\ j.kind = job[k].kind
                              /\ job' = [job EXCEPT ![k] = j]
      /\ disposing' \in [Id -> Task \cup {None}] /\ quiescing' \in SUBSET Id
      /\ timer' \subseteq timer \cup stopped
  BY <1>t, <1>1, <1>2, <1>5, Begins DEF Beginnings
<1>8. PICK j \in JobRecord : /\ Sound(j) /\ j.at # "disposing" /\ j.kind = job[k].kind
                             /\ job' = [job EXCEPT ![k] = j]
  BY <1>7
<1>9. Typed' /\ CallersFit'
  <2>1. life' \in [Runtime -> Life]
    BY <1>t, <1>2 DEF Typed, Life, Alive
  <2>2. timer' \in SUBSET Id
    BY <1>5, <1>7
  <2>3. job' \in [Task -> JobRecord \cup {Idle}]
    BY <1>t, <1>8, JobTyped
  <2> QED
    BY <1>t, <1>2, <1>7, <2>1, <2>2, <2>3 DEF Typed, RouterInv, CallersFit
<1>10. \A i \in Id : Stands(i)'
  BY <1>2, <1>4, InUseChange
<1>11. JobsFit'
  <2>1. \A o \in Runtime : Stays(o)
    BY <1>2, <1>4 DEF Stays, Caught
  <2> QED
    BY <1>t, <1>8, <2>1, SoundFits, JobBecomes
<1>12. Evictions'
  BY <1>t, <1>2, <1>8, EvictionsStay
<1>13. \A i \in timer' : IdleAt(i)'
  BY <1>2, <1>6, <1>7 DEF IdleAt
<1>14. Taken' = Taken
  BY <1>2 DEF Taken, Registered, Creating
<1> QED
  BY <1>9, <1>10, <1>11, <1>12, <1>13, <1>14 DEF RouterInv

LEMMA DisposeAllKeeps ==
  ASSUME RouterInv, NEW k \in Job, DisposeAll(k)
  PROVE  RouterInv'
<1> DEFINE ids == {i \in Id : sessions[i] # None \/ start[i] # "none"}
           waiting == {i \in Id : start[i] = "waiting"}
<1>t. Typed /\ k \in Task
  BY JobsAreTasks DEF RouterInv
<1>1. /\ UNCHANGED <<sessions, aborted, caller>> /\ closing' = TRUE
      /\ start' = [i \in Id |-> IF i \in waiting THEN "failed" ELSE start[i]]
      /\ life' = [o \in Runtime |-> IF o[1] \in waiting /\ life[o] = "starting" THEN "none" ELSE life[o]]
      /\ Claim(k, Asked("close", ids), timer)
  BY DEF DisposeAll
<1>2. Sound(Asked("close", ids)) /\ timer \in SUBSET Id
  BY <1>t, AskedIsSound DEF Typed
<1> DEFINE r == Asked("close", ids)
<1> HIDE DEF r
<1>3. /\ \E j \in JobRecord : /\ Sound(j) /\ j.at # "disposing" /\ j.kind = r.kind
                              /\ job' = [job EXCEPT ![k] = j]
      /\ disposing' \in [Id -> Task \cup {None}] /\ quiescing' \in SUBSET Id
      /\ timer' \subseteq timer
  BY <1>t, <1>1, <1>2, Claims DEF r, Beginnings
<1>4. PICK j \in JobRecord : /\ Sound(j) /\ j.at # "disposing"
                             /\ job' = [job EXCEPT ![k] = j]
  BY <1>3
<1>5. \A i \in waiting : start[i] \notin Settled /\ Form(start[i]) = "starting" /\ start'[i] = "failed"
  BY <1>1 DEF Settled, Form
<1>6. \A i \in Id : i \notin waiting => start'[i] = start[i]
  BY <1>1
<1>7. \A o \in Runtime : \/ life'[o] = life[o]
                         \/ life[o] = "starting" /\ o[1] \in waiting /\ life'[o] = "none"
  BY <1>1
<1>8. Typed' /\ CallersFit'
  <2>1. life' \in [Runtime -> Life] /\ start' \in [Id -> Stage]
    BY <1>t, <1>1 DEF Typed, Life, Stage
  <2>2. job' \in [Task -> JobRecord \cup {Idle}]
    BY <1>t, <1>4, JobTyped
  <2>3. timer' \in SUBSET Id
    BY <1>2, <1>3
  <2> QED
    BY <1>t, <1>1, <1>3, <2>1, <2>2, <2>3 DEF Typed, RouterInv, CallersFit
<1>9. \A i \in Id : Stands(i)'
  <2> TAKE i \in Id
  <2>1. CASE i \in waiting
    <3>1. /\ Starting(i) \in Runtime /\ sessions[i] = None /\ life[Starting(i)] = "starting"
          /\ \A p \in Runtime : p[1] = i /\ p # Starting(i) => life[p] = "none"
      BY <1>5, <2>1, InHand
    <3>2. \A p \in Runtime : p[1] = i => life'[p] = "none"
      <4> SUFFICES ASSUME NEW p \in Runtime, p[1] = i PROVE life'[p] = "none"
        OBVIOUS
      <4>1. life[p] \in {"none", "starting"}
        BY <3>1
      <4> QED
        BY <1>1, <2>1, <4>1
    <3> QED
      BY <1>1, <1>5, <2>1, <3>1, <3>2 DEF Stands, Settled
  <2>2. CASE i \notin waiting
    <3>1. \A o \in Runtime : o[1] = i => life'[o] = life[o]
      BY <1>7, <2>2
    <3> QED
      BY <1>1, <1>6, <2>2, <3>1, StandsStill DEF RouterInv
  <2> QED
    BY <2>1, <2>2
<1>10. JobsFit'
  <2>1. \A o \in Runtime : Stays(o)
    BY <1>1, <1>7 DEF Stays, Caught
  <2> QED
    BY <1>t, <1>4, <2>1, SoundFits, JobBecomes
<1>11. Evictions'
  <2>1. \A i \in Id : start'[i] = "evicting" <=> start[i] = "evicting"
    BY <1>5, <1>6
  <2> QED
    BY <1>t, <1>4, <2>1, EvictionsStay
<1>12. \A i \in timer' : IdleAt(i)'
  <2> SUFFICES ASSUME NEW i \in timer' PROVE IdleAt(i)'
    OBVIOUS
  <2>1. i \in Id /\ sessions[i] # None /\ life[sessions[i]] = "idle"
    BY <1>2, <1>3 DEF RouterInv, IdleAt
  <2>2. sessions[i] \in Runtime
    BY <2>1, OfItsOwn
  <2>3. life'[sessions[i]] = "idle"
    BY <1>7, <2>1, <2>2
  <2> QED
    BY <1>1, <2>1, <2>3 DEF IdleAt
<1>13. Taken' \subseteq Taken
  BY <1>1, <1>5, <1>6 DEF Taken, Registered, Creating
<1> QED
  BY <1>8, <1>9, <1>10, <1>11, <1>12, <1>13, NoMoreTaken DEF RouterInv

LEMMA TransitionKeeps ==
  ASSUME RouterInv, NEW k \in Task, Transition(k)
  PROVE  RouterInv'
<1>t. Typed
  BY DEF RouterInv
<1>1. job[k] # Idle /\ job[k] \in JobRecord /\ Sound(job[k])
  BY <1>t, JobIs, UnderWayIsSound DEF Transition, Idle
<1>2. PICK j \in JobRecord : /\ job' = [job EXCEPT ![k] = j] /\ Sound(j)
                             /\ j.kind = job[k].kind /\ j.cached = job[k].cached
  <2> DEFINE r == [job[k] EXCEPT !.at = "disposing"]
  <2>1. job' = [job EXCEPT ![k] = r]
    BY DEF Transition
  <2>2. r \in JobRecord /\ Sound(r) /\ r.kind = job[k].kind /\ r.cached = job[k].cached
    BY <1>1, ElsewhereIsSound
  <2> HIDE DEF r
  <2> QED
    BY <2>1, <2>2
<1>3. Sound(j) /\ j.kind = job[k].kind /\ j.cached = job[k].cached
  BY <1>2
<1>4. /\ UNCHANGED <<sessions, start, aborted, disposing, quiescing, caller, closing>>
      /\ life' = [o \in Runtime |-> IF o \in Live(k) THEN "ending" ELSE life[o]]
      /\ timer' = timer \ {o[1] : o \in Live(k)}
  BY DEF Transition, DisposeRuntimes
<1>5. \A o \in Runtime : \/ o \notin Live(k) /\ life'[o] = life[o]
                         \/ o \in Live(k) /\ life[o] \in {"idle", "busy"} /\ life'[o] = "ending"
  BY <1>4 DEF Live
<1>6. /\ job' \in [Task -> JobRecord \cup {Idle}]
      /\ \A t \in Task : job'[t] = IF t = k THEN j ELSE job[t]
  BY <1>2, <1>3, JobTyped
<1>7. Typed' /\ CallersFit'
  <2>1. life' \in [Runtime -> Life] /\ timer' \in SUBSET Id
    BY <1>t, <1>4 DEF Typed, Life, Alive
  <2> QED
    BY <1>t, <1>4, <1>6, <2>1 DEF Typed, RouterInv, CallersFit
<1>8. \A i \in Id : Stands(i)'
  BY <1>4, <1>5, InUseChange
<1>9. JobsFit'
  <2>1. \A o \in Runtime : Stays(o)
    BY <1>4, <1>5 DEF Stays, Caught
  <2>2. \A o \in j.cached : o \in Runtime /\ life'[o] \in {"none", "ending"}
    <3> SUFFICES ASSUME NEW o \in j.cached PROVE o \in Runtime /\ life'[o] \in {"none", "ending"}
      OBVIOUS
    <3>1. o \in Runtime /\ Caught(o) /\ o \in job[k].cached
      BY <1>1, <1>3 DEF Sound, JobRecord
    <3>2. CASE life[o] = "none"
      BY <1>5, <3>1, <3>2
    <3>3. CASE life[o] # "none"
      <4>1. sessions[o[1]] = o /\ o # None /\ o[1] \in Id
        BY <3>1, <3>3, Constants, RuntimeOf DEF Caught
      <4>2. start[o[1]] \in Settled
        BY <4>1, RegisteredIsSettled
      <4>3. life[o] \in {"idle", "busy", "ending"}
        BY <3>1, <3>3, <4>2, AtRest
      <4>4. life[o] \in {"idle", "busy"} => o \in Live(k)
        BY <3>1 DEF Live
      <4> QED
        BY <1>5, <3>1, <4>3, <4>4
    <3> QED
      BY <3>2, <3>3
  <2>3. JobFits(j)'
    <3>1. \A o \in j.cached : Caught(o)'
      BY <1>3, <2>1, <2>2 DEF Stays, Sound
    <3> QED
      BY <1>3, <2>2, <3>1 DEF Sound, JobFits, Caught, OnePerId
  <2>4. \A t \in Task : t # k /\ job'[t] # Idle => JobFits(job'[t]) /\ job'[t].cached \subseteq Runtime
    BY <1>6 DEF RouterInv, JobsFit, JobRecord
  <2> QED
    BY <1>6, <2>1, <2>2, <2>4, <1>3 DEF JobsFit, JobFits, Stays, Caught, OnePerId, Sound
<1>10. Evictions'
  BY <1>1, <1>2, <1>3, <1>4, EvictionsStay
<1>11. \A i \in timer' : IdleAt(i)'
  <2> SUFFICES ASSUME NEW i \in timer' PROVE IdleAt(i)'
    OBVIOUS
  <2>1. i \in Id /\ sessions[i] # None /\ life[sessions[i]] = "idle"
    BY <1>t, <1>4 DEF RouterInv, IdleAt, Typed
  <2>2. sessions[i] \in Runtime /\ sessions[i][1] = i
    BY <2>1, OfItsOwn
  <2>3. sessions[i] \notin Live(k)
    BY <1>4, <2>2
  <2> QED
    BY <1>4, <1>5, <2>1, <2>2, <2>3 DEF IdleAt
<1>12. Taken' = Taken
  BY <1>4 DEF Taken, Registered, Creating
<1> QED
  BY <1>7, <1>8, <1>9, <1>10, <1>11, <1>12 DEF RouterInv

LEMMA FinishedJobs ==
  ASSUME Typed, NEW k \in Task, NEW ok \in BOOLEAN, Finish(k, ok)
  PROVE  \A t \in Task :
           /\ job'[t] \in JobRecord \cup {Idle}
           /\ job'[t] # Idle =>
                /\ job[t] # Idle /\ job'[t].cached = job[t].cached /\ job'[t].doomed = job[t].doomed
                /\ job'[t].kind = job[t].kind /\ job'[t].ids = job[t].ids
                /\ job'[t].at \in {"pending", "closing", "disposing"} => job'[t] = job[t]
           /\ t # k /\ job[t] # Idle => job'[t] # Idle
           /\ t = k /\ job[k].kind \notin {"close", "rebind"} => job'[t] = Idle
<1>b. job[k] # Idle /\ job[k] \in JobRecord
  BY JobIs DEF Finish, Idle
<1> TAKE t \in Task
<1>1. job'[t] =
       IF t = k THEN
         IF job[k].kind = "close" THEN [job[k] EXCEPT !.at = "closed"]
         ELSE IF job[k].kind = "rebind"
              THEN [job[k] EXCEPT !.at = IF ok THEN "binding" ELSE "failed"]
              ELSE Idle
       ELSE IF job[t].at = "earlier" /\ k \in job[t].after
            THEN IF ok THEN [job[t] EXCEPT !.after = @ \ {k}] ELSE [job[t] EXCEPT !.at = "failed"]
            ELSE job[t]
  BY DEF Finish
<1>2. CASE t = k /\ job[k].kind = "close"
  <2> DEFINE r == [job[k] EXCEPT !.at = "closed"]
  <2>1. r \in JobRecord /\ r.at = "closed" /\ r.cached = job[k].cached /\ r.doomed = job[k].doomed /\ r.ids = job[k].ids /\ r.kind = job[k].kind
    BY <1>b, Elsewhere
  <2>2. job'[t] = r
    BY <1>1, <1>2
  <2> HIDE DEF r
  <2> QED
    BY <1>b, <1>2, <2>1, <2>2
<1>3. CASE t = k /\ job[k].kind \notin {"close", "rebind"}
  BY <1>1, <1>3
<1>7. CASE t = k /\ job[k].kind = "rebind"
  <2> DEFINE at == IF ok THEN "binding" ELSE "failed"
             r == [job[k] EXCEPT !.at = at]
  <2>1. at \in {"binding", "failed"}
    OBVIOUS
  <2>2. job'[t] = r
    BY <1>1, <1>7
  <2> HIDE DEF at
  <2>3. /\ r \in JobRecord /\ r.at = at /\ r.cached = job[k].cached /\ r.doomed = job[k].doomed
        /\ r.ids = job[k].ids /\ r.kind = job[k].kind
    BY <1>b, <2>1, Elsewhere
  <2> HIDE DEF r
  <2> QED
    BY <1>b, <1>7, <2>1, <2>2, <2>3
<1>4. CASE t # k /\ job[t].at = "earlier" /\ k \in job[t].after /\ ok
  <2>1. job[t] \in JobRecord /\ job[t] # Idle
    BY <1>4, JobIs DEF Idle
  <2> DEFINE r == [job[t] EXCEPT !.after = @ \ {k}]
  <2>2. r \in JobRecord /\ r.at = "earlier" /\ r.cached = job[t].cached /\ r.doomed = job[t].doomed /\ r.ids = job[t].ids /\ r.kind = job[t].kind
    BY <1>4, <2>1 DEF JobRecord
  <2>3. job'[t] = r
    BY <1>1, <1>4
  <2> HIDE DEF r
  <2> QED
    BY <1>4, <2>1, <2>2, <2>3, NeverIdle
<1>5. CASE t # k /\ job[t].at = "earlier" /\ k \in job[t].after /\ ~ok
  <2>1. job[t] \in JobRecord /\ job[t] # Idle
    BY <1>5, JobIs DEF Idle
  <2> DEFINE r == [job[t] EXCEPT !.at = "failed"]
  <2>2. r \in JobRecord /\ r.at = "failed" /\ r.cached = job[t].cached /\ r.doomed = job[t].doomed /\ r.ids = job[t].ids /\ r.kind = job[t].kind
    BY <2>1, Elsewhere
  <2>3. job'[t] = r
    BY <1>1, <1>5
  <2> HIDE DEF r
  <2> QED
    BY <1>5, <2>1, <2>2, <2>3, NeverIdle
<1>6. CASE t # k /\ ~(job[t].at = "earlier" /\ k \in job[t].after)
  <2>1. job'[t] = job[t] /\ job[t] \in JobRecord \cup {Idle}
    BY JobIs, <1>1, <1>6
  <2> QED
    BY <1>6, <2>1
<1> QED
  BY <1>2, <1>3, <1>4, <1>5, <1>6, <1>7

LEMMA FinishKeeps ==
  ASSUME RouterInv, NEW k \in Task, NEW ok \in BOOLEAN, Finish(k, ok)
  PROVE  RouterInv'
<1> DEFINE cached == job[k].cached
<1>t. /\ Typed /\ sessions \in [Id -> Runtime \cup {None}] /\ life \in [Runtime -> Life]
      /\ start \in [Id -> Stage] /\ job \in [Task -> JobRecord \cup {Idle}]
      /\ timer \in SUBSET Id
  BY DEF RouterInv, Typed
<1>1. job[k] # Idle /\ job[k] \in JobRecord /\ JobFits(job[k]) /\ job[k].at = "disposing" /\ cached \subseteq Runtime
  <2>1. job[k] # Idle /\ job[k] \in JobRecord /\ job[k].at = "disposing"
    BY <1>t, JobIs DEF Finish, Idle
  <2> QED
    BY <2>1 DEF RouterInv, JobsFit, JobRecord
<1>2. \A o \in cached : Caught(o) /\ life[o] \in {"none", "ending"}
  BY <1>1 DEF JobFits, Caught
<1>3. /\ UNCHANGED <<aborted, timer, closing>>
      /\ life' = [o \in Runtime |-> IF o \in cached /\ life[o] = "ending" THEN "none" ELSE life[o]]
      /\ sessions' = [i \in Id |-> IF i \in Forgotten(k) THEN None ELSE sessions[i]]
      /\ start' = IF k \in Id THEN [start EXCEPT ![k] = IF ok THEN "evicted" ELSE "refused"] ELSE start
  BY DEF Finish
<1>4. /\ \A o \in cached : life'[o] = "none"
      /\ \A o \in Runtime : o \notin cached => life'[o] = life[o]
  BY <1>1, <1>2, <1>3
<1>5. /\ \A i \in Id : sessions[i] \in cached => sessions'[i] = None
      /\ \A i \in Id : sessions[i] \notin cached => sessions'[i] = sessions[i]
  BY <1>3 DEF Forgotten
<1> HIDE DEF cached
<1>6. k \in Id => /\ start[k] = "evicting" /\ job[k].kind = "reset" /\ start'[k] \in {"evicted", "refused"}
  BY <1>t, <1>1, <1>3 DEF RouterInv, Evictions
<1>7. \A i \in Id : i # k => start'[i] = start[i]
  BY <1>t, <1>3
<1>8. \A t \in Task :
        /\ job'[t] \in JobRecord \cup {Idle}
        /\ job'[t] # Idle => /\ job[t] # Idle /\ job'[t].cached = job[t].cached
                             /\ job'[t].doomed = job[t].doomed /\ job'[t].kind = job[t].kind
                             /\ job'[t].at = "disposing" => job[t].at = "disposing"
        /\ t # k /\ job[t] # Idle => job'[t] # Idle
        /\ t = k /\ job[k].kind \notin {"close", "rebind"} => job'[t] = Idle
  BY <1>t, FinishedJobs
<1>9. Typed' /\ CallersFit'
  <2>1. sessions' \in [Id -> Runtime \cup {None}] /\ life' \in [Runtime -> Life]
    BY <1>t, <1>3 DEF Life
  <2>2. start' \in [Id -> Stage]
    BY <1>t, <1>3 DEF Stage
  <2>3. disposing' \in [Id -> Task \cup {None}] /\ quiescing' \in SUBSET Id
    BY <1>t DEF Finish, Typed
  <2>4. job' \in [Task -> JobRecord \cup {Idle}]
    <3>1. job' = [t \in Task |-> job'[t]]
      BY DEF Finish
    <3> QED
      BY <1>8, <3>1
  <2>5. \A c \in Caller : caller'[c] \in CallerRecord /\ (caller'[c].at = "holds" => caller'[c].runtime[1] = caller'[c].id)
    <3> TAKE c \in Caller
    <3>1. \/ caller'[c] = caller[c] \/ caller'[c] = Idle
          \/ caller[c].at = "disposal" /\ caller'[c] = [at |-> "resumed", id |-> caller[c].id]
      BY DEF Finish
    <3>2. CASE caller'[c] = caller[c]
      BY <1>t, <3>2 DEF Typed, RouterInv, CallersFit
    <3>3. CASE caller'[c] = Idle
      BY <3>3, CallerRecords DEF Idle
    <3>4. CASE caller[c].at = "disposal" /\ caller'[c] = [at |-> "resumed", id |-> caller[c].id]
      <4>1. caller[c].id \in Id
        BY <1>t, <3>4, CallerIs DEF Idle
      <4> DEFINE r == [at |-> "resumed", id |-> caller[c].id]
      <4>2. r \in CallerRecord /\ r.at # "holds"
        BY <4>1, CallerRecords
      <4> HIDE DEF r
      <4>3. caller'[c] = r
        BY <3>4 DEF r
      <4> QED
        BY <4>2, <4>3
    <3> QED
      BY <3>1, <3>2, <3>3, <3>4
  <2>6. caller' \in [Caller -> CallerRecord]
    <3>1. caller' = [c \in Caller |-> caller'[c]]
      BY DEF Finish
    <3> QED
      BY <2>5, <3>1
  <2> QED
    BY <1>t, <1>3, <2>1, <2>2, <2>3, <2>4, <2>5, <2>6 DEF Typed, CallersFit
<1>10. \A i \in Id : Stands(i)'
  <2> TAKE i \in Id
  <2>1. CASE start[i] \notin Settled
    <3>1. sessions[i] = None /\ sessions[i] \notin cached
      BY <1>1, <2>1, InHand, Constants
    <3>2. \A o \in Runtime : o[1] = i => life'[o] = life[o]
      <4> SUFFICES ASSUME NEW o \in Runtime, o[1] = i, o \in cached PROVE life'[o] = life[o]
        BY <1>4
      <4>1. life[o] = "none"
        BY <1>2, <3>1, Constants DEF Caught
      <4> QED
        BY <1>4, <4>1
    <3>3. sessions'[i] = sessions[i]
      BY <1>5, <3>1
    <3>4. CASE i = k
      BY <1>6, <2>1, <3>2, <3>3, <3>4, SameForm DEF Settled, Form
    <3>5. CASE i # k
      BY <1>7, <3>2, <3>3, <3>5, StandsStill DEF RouterInv
    <3> QED
      BY <3>4, <3>5
  <2>2. CASE start[i] \in Settled
    <3>1. start'[i] = start[i]
      BY <1>6, <1>7, <2>2 DEF Settled
    <3>2. \A o \in Runtime : o[1] = i /\ life'[o] # "none" =>
            sessions'[i] = o /\ life'[o] \in {"idle", "busy", "ending"}
      <4> SUFFICES ASSUME NEW o \in Runtime, o[1] = i, life'[o] # "none"
                   PROVE  sessions'[i] = o /\ life'[o] \in {"idle", "busy", "ending"}
        OBVIOUS
      <4>1. o \notin cached /\ life'[o] = life[o]
        BY <1>4
      <4>2. sessions[i] = o /\ life[o] \in {"idle", "busy", "ending"}
        BY <2>2, <4>1, AtRest
      <4> QED
        BY <1>5, <4>1, <4>2
    <3>3. sessions'[i] # None => sessions'[i][1] = i
      BY <1>5, OfItsOwn
    <3> QED
      BY <2>2, <3>1, <3>2, <3>3 DEF Stands
  <2> QED
    BY <2>1, <2>2
<1>11. JobsFit'
  <2>1. \A o \in Runtime : Stays(o)
    <3> TAKE o \in Runtime
    <3>1. CASE o \in cached
      BY <1>4, <3>1 DEF Stays, Caught
    <3>2. CASE o \notin cached
      BY <1>4, <1>5, <3>2, RuntimeOf DEF Stays, Caught
    <3> QED
      BY <3>1, <3>2
  <2>2. \A t \in Task : job'[t] # Idle => JobFits(job'[t]) /\ job'[t].cached \subseteq Runtime
    <3> SUFFICES ASSUME NEW t \in Task, job'[t] # Idle
                 PROVE  JobFits(job'[t]) /\ job'[t].cached \subseteq Runtime
      OBVIOUS
    <3>1. JobFits(job[t])
      BY <1>8 DEF RouterInv, JobsFit
    <3>2. job'[t].cached \subseteq Runtime
      BY <1>8 DEF JobRecord
    <3> QED
      BY <1>8, <3>1, <3>2 DEF JobFits
  <2> QED
    BY <2>1, <2>2, JobsStillFit
<1>12. Evictions'
  <2> SUFFICES ASSUME NEW i \in Id
               PROVE  /\ start'[i] = "evicting" <=> job'[i] # Idle
                      /\ job'[i] # Idle => job'[i].kind = "reset"
    BY DEF Evictions
  <2>1. i \in Task /\ (start[i] = "evicting" <=> job[i] # Idle) /\ (job[i] # Idle => job[i].kind = "reset")
    BY JobsAreTasks DEF RouterInv, Evictions
  <2>2. CASE i = k
    BY <1>6, <1>8, <2>1, <2>2
  <2>3. CASE i # k
    BY <1>7, <1>8, <2>1, <2>3
  <2> QED
    BY <2>2, <2>3
<1>13. \A i \in timer' : IdleAt(i)'
  <2> SUFFICES ASSUME NEW i \in timer' PROVE IdleAt(i)'
    OBVIOUS
  <2>1. i \in Id /\ sessions[i] # None /\ life[sessions[i]] = "idle"
    BY <1>t, <1>3 DEF RouterInv, IdleAt
  <2>2. sessions[i] \in Runtime /\ sessions[i] \notin cached
    BY <1>2, <2>1, OfItsOwn
  <2> QED
    BY <1>4, <1>5, <2>1, <2>2 DEF IdleAt
<1>14. Taken' \subseteq Taken
  <2>1. Registered' \subseteq Registered
    BY <1>5 DEF Registered
  <2>2. Creating' \subseteq Creating
    BY <1>6, <1>7 DEF Creating
  <2> QED
    BY <2>1, <2>2 DEF Taken
<1> QED
  BY <1>9, <1>10, <1>11, <1>12, <1>13, <1>14, NoMoreTaken DEF RouterInv

\* The steps after which a job that took nothing is over
LEMMA RefusedKeeps ==
  ASSUME RouterInv, NEW k \in Task, Refused(k) \/ (k \in Job /\ RebindEnds(k))
  PROVE  RouterInv'
<1>t. /\ Typed /\ start \in [Id -> Stage] /\ timer \in SUBSET Id
  BY DEF RouterInv, Typed
<1>1. job[k] # Idle /\ job[k] \in JobRecord
  BY <1>t, JobIs DEF Refused, RebindEnds, Idle
<1>2. /\ job' = [job EXCEPT ![k] = Idle] /\ UNCHANGED <<sessions, life, aborted, disposing, caller, closing>>
      /\ start' = IF k \in Id THEN [start EXCEPT ![k] = "refused"] ELSE start
  BY Constants DEF Refused, RebindEnds
<1>3. \A i \in timer' : i \in Id /\ IdleAt(i)
  BY <1>t, <1>1 DEF Refused, RebindEnds, RouterInv, JobRecord
<1>4. /\ job' \in [Task -> JobRecord \cup {Idle}]
      /\ \A t \in Task : job'[t] = IF t = k THEN Idle ELSE job[t]
  BY <1>2, JobTyped
<1>5. k \in Id => start[k] = "evicting" /\ start'[k] = "refused"
  BY <1>t, <1>1, <1>2 DEF RouterInv, Evictions
<1>6. \A i \in Id : i # k => start'[i] = start[i]
  BY <1>t, <1>2
<1>7. Typed' /\ CallersFit'
  <2>1. start' \in [Id -> Stage]
    BY <1>t, <1>2 DEF Stage
  <2>2. quiescing' \in SUBSET Id /\ timer' \in SUBSET Id
    BY <1>t, <1>3 DEF Refused, RebindEnds, Typed
  <2> QED
    BY <1>t, <1>2, <1>4, <2>1, <2>2 DEF Typed, RouterInv, CallersFit
<1>8. \A i \in Id : Stands(i)'
  <2> TAKE i \in Id
  <2>1. CASE i = k
    BY <1>2, <1>5, <2>1, SameForm DEF Settled, Form
  <2>2. CASE i # k
    BY <1>2, <1>6, <2>2, StandsStill DEF RouterInv
  <2> QED
    BY <2>1, <2>2
<1>9. JobsFit'
  BY <1>2, JobBecomes, NoChangeStays
<1>10. Evictions'
  <2> SUFFICES ASSUME NEW i \in Id
               PROVE  /\ start'[i] = "evicting" <=> job'[i] # Idle
                      /\ job'[i] # Idle => job'[i].kind = "reset"
    BY DEF Evictions
  <2>1. i \in Task /\ (start[i] = "evicting" <=> job[i] # Idle) /\ (job[i] # Idle => job[i].kind = "reset")
    BY JobsAreTasks DEF RouterInv, Evictions
  <2> QED
    BY <1>4, <1>5, <1>6, <2>1
<1>11. \A i \in timer' : IdleAt(i)'
  BY <1>2, <1>3 DEF IdleAt
<1>12. Taken' \subseteq Taken
  BY <1>2, <1>5, <1>6 DEF Taken, Registered, Creating
<1> QED
  BY <1>7, <1>8, <1>9, <1>10, <1>11, <1>12, NoMoreTaken DEF RouterInv

-----------------------------------------------------------------------------
(* Theorems *)

LEMMA InitFits == Init => RouterInv
<1> SUFFICES ASSUME Init PROVE RouterInv
  OBVIOUS
<1>1. Typed
  BY DEF Init, Typed, Life, Stage, CallerRecord
<1>2. \A i \in Id : Stands(i)
  BY DEF Init, Stands, Settled
<1>3. JobsFit /\ CallersFit /\ Evictions
  <2>1. \A k \in Task : job[k] = Idle
    BY DEF Init
  <2>2. \A c \in Caller : caller[c].at # "holds"
    BY DEF Init, Idle
  <2>3. \A i \in Id : start[i] # "evicting"
    BY DEF Init
  <2> QED
    BY <2>1, <2>2, <2>3, JobsAreTasks DEF JobsFit, CallersFit, Evictions
<1>4. \A i \in timer : IdleAt(i)
  BY DEF Init
<1>5. Cardinality(Taken) <= MaxRuntimes
  <2>1. Taken = {}
    BY DEF Init, Taken, Registered, Creating
  <2>2. Cardinality({}) = 0
    BY FS_EmptySet
  <2> QED
    BY <2>1, <2>2, Constants
<1> QED
  BY <1>1, <1>2, <1>3, <1>4, <1>5 DEF RouterInv

LEMMA StepKeeps == RouterInv /\ [Next]_vars => RouterInv'
<1> SUFFICES ASSUME RouterInv, [Next]_vars PROVE RouterInv'
  OBVIOUS
<1>1. CASE UNCHANGED vars
  <2>1. Typed' /\ JobsFit' /\ Evictions' /\ CallersFit'
    BY <1>1 DEF vars, RouterInv, Typed, JobsFit, JobFits, OnePerId, Evictions, CallersFit
  <2> QED
    BY <1>1, <2>1, NothingMoves DEF vars
<1>2. CASE \E c \in Caller : (\E i \in Id : Send(c, i)) \/ Resume(c) \/ Deliver(c)
  BY <1>2, SendKeeps, ResumeKeeps, DeliverKeeps
<1>3. CASE \E o \in Runtime : TurnEnds(o) \/ RuntimeGone(o)
  BY <1>3, TurnEndsKeeps, RuntimeGoneKeeps
<1>4. CASE \E i \in Id :
             \/ Grant(i) \/ Deadline(i) \/ AbortStart(i) \/ BeginStart(i) \/ Evicted(i)
             \/ Opened(i) \/ StartEnds(i) \/ Settle(i)
  BY <1>4, GrantKeeps, DeadlineKeeps, AbortStartKeeps, BeginStartKeeps, EvictedKeeps,
     OpenedKeeps, StartEndsKeeps, SettleKeeps
<1>5. CASE \E k \in Job, i \in Id :
             Reset(k, i) \/ IdleTimer(k, i) \/ Dispose(k, i) \/ Kill(k, i) \/ Rebind(k, i)
  BY <1>5, ResetKeeps, IdleTimerKeeps, DisposeKeeps, KillKeeps, RebindKeeps
<1>6. CASE \E k \in Job : Killed(k) \/ Preflighted(k) \/ RebindEnds(k) \/ DisposeAll(k)
  BY <1>6, KilledKeeps, PreflightedKeeps, RefusedKeeps, DisposeAllKeeps, JobsAreTasks
<1>7. CASE \E k \in Task :
             Woken(k) \/ RunsCancelled(k) \/ Transition(k) \/ Refused(k) \/ \E ok \in BOOLEAN : Finish(k, ok)
  BY <1>7, WokenKeeps, RunsCancelledKeeps, TransitionKeeps, RefusedKeeps, FinishKeeps
<1> QED
  BY <1>1, <1>2, <1>3, <1>4, <1>5, <1>6, <1>7 DEF Next

\* The invariant holds in every state the router can reach, whatever its
\* sessions, messages and disposals, and however their steps mix.
THEOREM Invariance == Spec => []RouterInv
  BY InitFits, StepKeeps, PTL DEF Spec

\* Every variable holds what its declaration says, a cold start evicts exactly
\* while its job is under way, and idle timers run for idle runtimes only.
THEOREM TypeCorrect == Spec => []TypeOK
<1>1. RouterInv => TypeOK
  BY DEF RouterInv, Typed, Evictions, TypeOK, Life
<1> QED
  BY <1>1, Invariance, PTL

LEMMA OwnedFromInv == RouterInv => RuntimesOwned
<1> SUFFICES ASSUME RouterInv PROVE RuntimesOwned
  OBVIOUS
<1> DEFINE alive == {o \in Runtime : life[o] \in Alive}
<1>1. \A o, p \in alive : o[1] = p[1] => o = p
  BY OneStands DEF Alive
<1>2. \A o \in alive : sessions[o[1]] = o \/ start[o[1]] \in {"opening", "aborting"}
  <2> TAKE o \in alive
  <2>1. o[1] \in Id /\ life[o] # "none" /\ life[o] # "starting"
    BY RuntimeOf DEF Alive
  <2>2. CASE start[o[1]] \in Settled
    BY <2>1, <2>2, AtRest
  <2>3. CASE start[o[1]] \notin Settled
    <3>1. life[o] = Form(start[o[1]])
      BY <2>1, <2>3, InHand
    <3> QED
      BY <2>1, <3>1 DEF Form
  <2> QED
    BY <2>2, <2>3
<1>3. Cardinality(alive) <= MaxRuntimes
  <2>1. \A o \in alive : o \in Runtime /\ o # None /\ o[1] \in Id
    BY RuntimeOf, Constants
  <2>2. \A o \in alive : o[1] \in Taken
    BY <1>2, <2>1 DEF Taken, Registered, Creating
  <2> DEFINE R == {p \in alive \X Taken : p[1][1] = p[2]}
  <2>3. \A o \in alive : \E i \in Taken : <<o, i>> \in R
    BY <2>2
  <2>4. \A o, p \in alive, i \in Taken : <<o, i>> \in R /\ <<p, i>> \in R => o = p
    BY <1>1
  <2> HIDE DEF alive, R
  <2>5. IsFiniteSet(alive) /\ Cardinality(alive) <= Cardinality(Taken)
    BY <2>3, <2>4, NoMoreThan, TakenFinite
  <2>6. /\ Cardinality(alive) \in Nat /\ Cardinality(Taken) \in Nat /\ MaxRuntimes \in Nat
        /\ Cardinality(Taken) <= MaxRuntimes
    BY <2>5, FS_CardinalityType, TakenFinite, Constants DEF RouterInv
  <2> QED
    BY <2>5, <2>6
<1> QED
  BY <1>1, <1>2, <1>3 DEF RuntimesOwned

\* No session ever has two runtimes, none is out of reach of the disposals, and
\* they never are more than MaxRuntimes.
THEOREM OwnedAlways == Spec => []RuntimesOwned
  BY OwnedFromInv, Invariance, PTL

-----------------------------------------------------------------------------
(* Teardown: what a disposal has to take away                                *)

\* Of the runtimes that a teardown must leave nothing of, those that are left
\* belong to its ids; those not registered yet are awaited, and once it has
\* gathered they are all in its hands.
Accounted(j) ==
  \A o \in j.doomed : life[o] # "none" =>
    /\ o[1] \in j.ids
    /\ j.at = "pending" => sessions[o[1]] = o \/ o[1] \in j.pending
    /\ j.at \in {"closing", "disposing"} => o \in j.cached

\* The router's own disposal has to take everything.
TakesEverything(j) ==
  j.kind = "close" => closing /\ \A o \in Runtime : life[o] # "none" => o \in j.doomed

TeardownInv ==
  /\ RouterInv
  /\ \A k \in Task : job[k] # Idle => Accounted(job[k]) /\ TakesEverything(job[k])

\* What is gone is gone for good, under the name it has.
Lasts(o) == Stays(o) /\ (life[o] = "none" => life'[o] = "none")

LEMMA AccountsGoOn ==
  ASSUME \A k \in Task : job'[k] # Idle => Accounted(job'[k]) /\ \A o \in job'[k].doomed : Lasts(o)
  PROVE  \A k \in Task : job'[k] # Idle => Accounted(job[k])'
  BY DEF Accounted, Lasts, Stays, Caught

LEMMA UntouchedLasts ==
  ASSUME sessions' = sessions, life' = life
  PROVE  \A o \in Runtime : Lasts(o)
  BY DEF Lasts, Stays, Caught

\* The runtime in the hands of a cold start changes, if any.
LEMMA InHandLasts ==
  ASSUME RouterInv, NEW i \in Id, start[i] \notin Settled, NEW l,
         life' = [life EXCEPT ![Starting(i)] = l], sessions' = sessions
  PROVE  \A o \in Runtime : Lasts(o)
<1>1. Starting(i) \in Runtime /\ ~Caught(Starting(i)) /\ life[Starting(i)] # "none"
  BY InHand DEF Caught
<1>2. \A o \in Runtime : o # Starting(i) => life'[o] = life[o]
  BY DEF RouterInv, Typed
<1> QED
  BY <1>1, <1>2 DEF Lasts, Stays, Caught

\* Every step but the beginning of a cold start
LEMMA CallersLast ==
  ASSUME RouterInv, NEW c \in Caller, Deliver(c)
  PROVE  \A o \in Runtime : Lasts(o)
  BY DEF Deliver, RouterInv, Typed, Lasts, Stays, Caught

LEMMA RuntimesLast ==
  ASSUME RouterInv, NEW o \in Runtime, TurnEnds(o) \/ RuntimeGone(o)
  PROVE  \A p \in Runtime : Lasts(p)
  BY DEF TurnEnds, RuntimeGone, RouterInv, Typed, Lasts, Stays, Caught

LEMMA StartsLast ==
  ASSUME RouterInv, NEW i \in Id,
         \/ Grant(i) \/ Deadline(i) \/ AbortStart(i) \/ BeginStart(i) \/ Evicted(i)
         \/ Opened(i) \/ StartEnds(i) \/ Settle(i)
  PROVE  \A o \in Runtime : Lasts(o)
<1>1. CASE sessions' = sessions /\ life' = life
  BY <1>1, UntouchedLasts
<1>2. CASE sessions' = sessions /\ start[i] \notin Settled /\ (Failed(i) \/ Opening(i))
  BY <1>2, InHandLasts DEF Failed, Opening
<1>3. CASE Opened(i)
  <2> DEFINE o == Starting(i)
  <2>1. start[i] \notin Settled
    BY <1>3 DEF Opened, Settled
  <2>2. /\ o \in Runtime /\ o[1] = i /\ sessions[i] = None /\ ~Caught(o) /\ life[o] # "none"
        /\ \A p \in Runtime : p[1] = i /\ p # o => life[p] = "none"
    BY <2>1, InHand DEF Caught
  <2>3. \/ life' = [life EXCEPT ![o] = "ending"] /\ sessions' = sessions
        \/ life' = [life EXCEPT ![o] = "idle"] /\ sessions' = [sessions EXCEPT ![i] = o]
    BY <1>3 DEF Opened
  <2> HIDE DEF o
  <2>4. /\ \A p \in Runtime : p # o => life'[p] = life[p]
        /\ \A j \in Id : j # i => sessions'[j] = sessions[j]
    BY <2>3 DEF RouterInv, Typed
  <2>5. \A p \in Runtime : Lasts(p)
    <3> TAKE p \in Runtime
    <3>1. CASE p = o
      BY <2>2, <3>1 DEF Lasts, Stays
    <3>2. CASE p # o /\ p[1] = i
      BY <2>2, <2>4, <3>2 DEF Lasts, Stays, Caught
    <3>3. CASE p # o /\ p[1] # i
      BY <2>4, <3>3, RuntimeOf DEF Lasts, Stays, Caught
    <3> QED
      BY <3>1, <3>2, <3>3
  <2> QED
    BY <2>5
<1>4. CASE Deadline(i) \/ AbortStart(i) \/ BeginStart(i) \/ Evicted(i) \/ StartEnds(i)
  <2>1. \/ sessions' = sessions /\ life' = life
        \/ sessions' = sessions /\ start[i] \notin Settled /\ (Failed(i) \/ Opening(i))
    BY <1>4 DEF Deadline, AbortStart, BeginStart, Evicted, StartEnds, Settled
  <2> QED
    BY <1>1, <1>2, <2>1
<1>5. CASE Grant(i) \/ Settle(i)
  BY <1>1, <1>5 DEF Grant, Settle
<1> QED
  BY <1>3, <1>4, <1>5

LEMMA DisposalsLast ==
  ASSUME RouterInv, NEW k \in Task,
         \/ k \in Job /\ \E i \in Id : Reset(k, i) \/ IdleTimer(k, i) \/ Dispose(k, i) \/ Kill(k, i) \/ Rebind(k, i)
         \/ k \in Job /\ (Killed(k) \/ Preflighted(k) \/ RebindEnds(k) \/ DisposeAll(k))
         \/ Woken(k) \/ RunsCancelled(k) \/ Transition(k) \/ Refused(k) \/ \E ok \in BOOLEAN : Finish(k, ok)
  PROVE  \A o \in Runtime : Lasts(o)
<1>t. Typed
  BY DEF RouterInv
<1>1. CASE sessions' = sessions /\ life' = life
  BY <1>1, UntouchedLasts
<1>2. CASE k \in Job /\ Killed(k)
  <2>1. job[k] \in JobRecord
    BY <1>t, <1>2, JobIs DEF Killed
  <2>2. \A o \in Runtime : life'[o] = life[o] \/ (life[o] = "busy" /\ life'[o] = "idle")
    BY <1>2, <2>1 DEF Killed, JobRecord
  <2> QED
    BY <1>2, <2>2 DEF Killed, Lasts, Stays, Caught
<1>3. CASE k \in Job /\ DisposeAll(k)
  <2>1. \A o \in Runtime : life'[o] = life[o] \/ (life[o] = "starting" /\ life'[o] = "none")
    BY <1>3 DEF DisposeAll
  <2> QED
    BY <1>3, <2>1 DEF DisposeAll, Lasts, Stays, Caught
<1>4. CASE Transition(k)
  <2>1. \A o \in Runtime : life'[o] = life[o] \/ (life[o] \in {"idle", "busy"} /\ life'[o] = "ending")
    BY <1>4 DEF Transition, DisposeRuntimes, Live
  <2> QED
    BY <1>4, <2>1 DEF Transition, DisposeRuntimes, Lasts, Stays, Caught
<1>5. CASE \E ok \in BOOLEAN : Finish(k, ok)
  <2>1. job[k] # Idle /\ job[k] \in JobRecord /\ job[k].at = "disposing"
    BY <1>t, <1>5, JobIs DEF Finish, Idle
  <2>2. \A o \in job[k].cached : o \in Runtime /\ life[o] \in {"none", "ending"}
    BY <2>1 DEF RouterInv, JobsFit, JobFits, JobRecord
  <2>3. /\ \A o \in job[k].cached : life'[o] = "none"
        /\ \A o \in Runtime : o \notin job[k].cached => life'[o] = life[o]
    BY <1>5, <2>2 DEF Finish
  <2>4. \A i \in Id : sessions[i] \notin job[k].cached => sessions'[i] = sessions[i]
    BY <1>5 DEF Finish, Forgotten
  <2>5. \A o \in Runtime : Lasts(o)
    <3> TAKE o \in Runtime
    <3>1. CASE o \in job[k].cached
      BY <2>3, <3>1 DEF Lasts, Stays, Caught
    <3>2. CASE o \notin job[k].cached
      BY <2>3, <2>4, <3>2, RuntimeOf DEF Lasts, Stays, Caught
    <3> QED
      BY <3>1, <3>2
  <2> QED
    BY <2>5
<1>6. CASE \/ \E i \in Id : Reset(k, i) \/ IdleTimer(k, i) \/ Dispose(k, i) \/ Kill(k, i) \/ Rebind(k, i)
           \/ Preflighted(k) \/ RebindEnds(k) \/ Woken(k) \/ RunsCancelled(k) \/ Refused(k)
  BY <1>1, <1>6 DEF Reset, IdleTimer, Dispose, Kill, Rebind, Preflighted, RebindEnds,
                    Woken, RunsCancelled, Refused
<1> QED
  BY <1>2, <1>3, <1>4, <1>5, <1>6

LEMMA AliveIsSeen ==
  ASSUME RouterInv, NEW o \in Runtime, life[o] # "none", NEW ids, o[1] \in ids
  PROVE  sessions[o[1]] = o \/ o[1] \in StartingOf(ids)
<1>1. CASE start[o[1]] = "none"
  BY <1>1, AtRest DEF Settled
<1>2. CASE start[o[1]] # "none"
  BY <1>2 DEF StartingOf
<1> QED
  BY <1>1, <1>2

\* What it awaits or gathers accounts for all that it must leave nothing of.
LEMMA GatheredAccounts ==
  ASSUME NEW r, Sound(r), NEW busy \in SUBSET Id, NEW j \in JobRecord,
         j.at = Gathered(r, busy).at, j.pending = Gathered(r, busy).pending,
         j.cached = Gathered(r, busy).cached, j.ids = r.ids,
         \A o \in j.doomed : life[o] # "none" =>
           o[1] \in r.ids /\ (sessions[o[1]] = o \/ o[1] \in busy)
  PROVE  Accounted(j)
<1> DEFINE ids == IF r.kind = "close" THEN Id ELSE r.ids
           found == {o \in Runtime : o[1] \in ids /\ sessions[o[1]] = o}
<1>1. r \in JobRecord /\ r.ids \subseteq Id /\ j.doomed \subseteq Runtime
  BY DEF Sound, JobRecord
<1>2. CASE busy # {}
  <2>1. Gathered(r, busy) = [r EXCEPT !.at = "pending", !.pending = busy]
    BY <1>2 DEF Gathered
  <2>2. j.at = "pending" /\ j.pending = busy
    BY <1>1, <2>1 DEF JobRecord
  <2> QED
    BY <2>2 DEF Accounted
<1>3. CASE busy = {}
  <2>1. Gathered(r, busy) = [r EXCEPT !.at = "closing", !.pending = {}, !.cached = found]
    BY <1>3 DEF Gathered
  <2>2. j.at = "closing" /\ j.cached = found
    BY <1>1, <2>1 DEF JobRecord
  <2>3. \A o \in j.doomed : life[o] # "none" => o \in found
    BY <1>1, <1>3
  <2> HIDE DEF found
  <2> QED
    BY <2>2, <2>3 DEF Accounted
<1> QED
  BY <1>2, <1>3

LEMMA ClaimsAccount ==
  ASSUME RouterInv, NEW k \in Task, NEW r, Sound(r), NEW timers, Claim(k, r, timers)
  PROVE  \E j \in JobRecord :
           /\ job' = [job EXCEPT ![k] = j] /\ Accounted(j) /\ j.kind = r.kind
           /\ r.kind = "close" => \A o \in Runtime : life[o] # "none" /\ o[1] \in r.ids => o \in j.doomed
<1> DEFINE teardown == r.kind \in {"dispose", "kill"}
           begun == IF teardown THEN [r EXCEPT !.at = "runs"] ELSE Gathered(r, StartingOf(r.ids))
           doomed == IF teardown \/ r.kind = "close"
                     THEN {o \in Runtime : o[1] \in r.ids /\ life[o] # "none"} ELSE {}
           j == [begun EXCEPT !.doomed = doomed]
<1>t. r \in JobRecord /\ r.ids \in SUBSET Id /\ StartingOf(r.ids) \in SUBSET Id
  BY DEF Sound, JobRecord, StartingOf
<1>1. begun \in JobRecord /\ begun.kind = r.kind /\ begun.ids = r.ids
  <2>1. CASE teardown
    BY <1>t, <2>1, Elsewhere
  <2>2. CASE ~teardown
    BY <1>t, <2>2, GatheredFits DEF Sound
  <2> QED
    BY <2>1, <2>2
<1>2. doomed \in SUBSET Runtime
  OBVIOUS
<1>3. \A o \in doomed : o \in Runtime /\ life[o] # "none" /\ o[1] \in r.ids
                      /\ (sessions[o[1]] = o \/ o[1] \in StartingOf(r.ids))
  BY AliveIsSeen
<1>4. r.kind = "close" => \A o \in Runtime : life[o] # "none" /\ o[1] \in r.ids => o \in doomed
  OBVIOUS
<1>5. job' = [job EXCEPT ![k] = j]
  BY DEF Claim
<1>6. teardown => begun.at = "runs"
  BY <1>t, Elsewhere
<1>7. ~teardown => begun = Gathered(r, StartingOf(r.ids))
  OBVIOUS
<1> HIDE DEF doomed, begun
<1>8. /\ j \in JobRecord /\ j.at = begun.at /\ j.kind = begun.kind /\ j.ids = begun.ids
      /\ j.pending = begun.pending /\ j.cached = begun.cached /\ j.doomed = doomed
  BY <1>1, <1>2 DEF JobRecord
<1> HIDE DEF j
<1>9. Accounted(j)
  <2>1. CASE teardown
    BY <1>1, <1>3, <1>6, <1>8, <2>1 DEF Accounted
  <2>2. CASE ~teardown
    <3>1. \A o \in j.doomed : life[o] # "none" =>
            o[1] \in r.ids /\ (sessions[o[1]] = o \/ o[1] \in StartingOf(r.ids))
      BY <1>3, <1>8
    <3>2. /\ j.at = Gathered(r, StartingOf(r.ids)).at /\ j.pending = Gathered(r, StartingOf(r.ids)).pending
          /\ j.cached = Gathered(r, StartingOf(r.ids)).cached /\ j.ids = r.ids
      BY <1>1, <1>7, <1>8, <2>2
    <3> HIDE DEF teardown
    <3> QED
      BY <1>t, <1>8, <3>1, <3>2, GatheredAccounts
  <2> QED
    BY <2>1, <2>2
<1> QED
  BY <1>1, <1>4, <1>5, <1>8, <1>9

\* A disposal that begins, or waits to, does not lose what it has noted.
LEMMA BeginsAccount ==
  ASSUME RouterInv, NEW k \in Task, NEW r, Sound(r), NEW timers,
         Begin(k, r, timers) \/ Claim(k, r, timers),
         Accounted(r), TakesEverything(r)
  PROVE  \E j \in JobRecord :
           /\ job' = [job EXCEPT ![k] = j] /\ Accounted(j) /\ j.kind = r.kind
           /\ r.kind = "close" => \A o \in Runtime : life[o] # "none" => o \in j.doomed
<1> DEFINE earlier == {disposing[i] : i \in r.ids} \ {None}
           j == [r EXCEPT !.at = "earlier", !.after = earlier]
<1>1. CASE Claim(k, r, timers)
  <2>1. r.kind = "close" => \A o \in Runtime : life[o] # "none" => o[1] \in r.ids
    BY DEF Accounted, TakesEverything
  <2> QED
    BY <1>1, <2>1, ClaimsAccount
<1>2. CASE job' = [job EXCEPT ![k] = j]
  <2>1. r \in JobRecord /\ r.ids \in SUBSET Id
    BY DEF Sound, JobRecord
  <2>2. earlier \in SUBSET Task
    BY <2>1 DEF RouterInv, Typed
  <2> HIDE DEF earlier
  <2>4. j \in JobRecord /\ j.at = "earlier" /\ j.kind = r.kind /\ j.ids = r.ids /\ j.doomed = r.doomed
    BY <2>1, <2>2 DEF JobRecord
  <2> HIDE DEF j
  <2>5. Accounted(j)
    BY <2>4 DEF Accounted
  <2>6. r.kind = "close" => \A o \in Runtime : life[o] # "none" => o \in j.doomed
    BY <2>4 DEF TakesEverything
  <2> QED
    BY <1>2, <2>4, <2>5, <2>6
<1> QED
  BY <1>1, <1>2 DEF Begin

\* The disposal of a step, seen before it
Answers(j) ==
  Accounted(j) /\ (j.kind = "close" => closing' /\ \A o \in Runtime : life[o] # "none" => o \in j.doomed)

LEMMA TeardownStep ==
  ASSUME TeardownInv, RouterInv', \A o \in Runtime : Lasts(o),
         \A k \in Task : job'[k] # Idle => Answers(job'[k])
  PROVE  TeardownInv'
<1>1. \A k \in Task : job'[k] # Idle => job'[k].doomed \subseteq Runtime
  BY DEF RouterInv, Typed, JobRecord
<1>2. \A k \in Task : job'[k] # Idle => Accounted(job[k])'
  BY <1>1, AccountsGoOn DEF Answers
<1>3. \A k \in Task : job'[k] # Idle => TakesEverything(job[k])'
  BY DEF Answers, TakesEverything, Lasts
<1> QED
  BY <1>2, <1>3 DEF TeardownInv

LEMMA SameJobsAnswer ==
  ASSUME TeardownInv, RouterInv', \A o \in Runtime : Lasts(o), job' = job, closing' = closing
  PROVE  TeardownInv'
  BY TeardownStep DEF TeardownInv, Answers, TakesEverything

LEMMA OneJobAnswers ==
  ASSUME TeardownInv, RouterInv', \A o \in Runtime : Lasts(o), closing => closing',
         NEW k \in Task, NEW j \in JobRecord \cup {Idle}, job' = [job EXCEPT ![k] = j],
         j # Idle => Answers(j)
  PROVE  TeardownInv'
<1>1. \A t \in Task : job'[t] = IF t = k THEN j ELSE job[t]
  BY JobTyped DEF TeardownInv
<1> QED
  BY <1>1, TeardownStep DEF TeardownInv, Answers, TakesEverything

LEMMA CallersAnswer ==
  ASSUME TeardownInv, NEW c \in Caller, NEW i \in Id, GetOrCreateSession(c, i), RouterInv',
         UNCHANGED <<sessions, aborted, disposing, quiescing, job, closing>>
  PROVE  TeardownInv'
<1>1. CASE life' = life
  BY <1>1, UntouchedLasts, SameJobsAnswer
<1>2. CASE /\ ~closing /\ sessions[i] = None /\ start[i] = "none"
           /\ life' = [life EXCEPT ![NewRuntime(i)] = "starting"]
  <2> DEFINE n == NewRuntime(i)
  <2>1. n \in Runtime /\ ~Referred(n)
    BY <1>2, NewName DEF TeardownInv
  <2>2. life' = [life EXCEPT ![n] = "starting"]
    BY <1>2
  <2> HIDE DEF n
  <2>3. \A o \in Runtime : o # n => Lasts(o)
    BY <2>2 DEF TeardownInv, RouterInv, Typed, Lasts, Stays, Caught
  <2>4. \A k \in Task : job[k] # Idle => /\ job[k].doomed \subseteq Runtime /\ n \notin job[k].doomed
                                        /\ job[k].kind # "close"
    BY <1>2, <2>1 DEF TeardownInv, TakesEverything, RouterInv, Typed, JobRecord, Referred
  <2>5. \A k \in Task : job'[k] # Idle => Accounted(job'[k]) /\ \A o \in job'[k].doomed : Lasts(o)
    BY <2>3, <2>4 DEF TeardownInv
  <2>6. \A k \in Task : job'[k] # Idle => Accounted(job[k])'
    BY <2>5, AccountsGoOn
  <2> QED
    BY <2>4, <2>6 DEF TeardownInv, TakesEverything
<1> QED
  BY <1>1, <1>2 DEF GetOrCreateSession

LEMMA EvictionAnswers ==
  ASSUME TeardownInv, NEW i \in Id, BeginStart(i), RouterInv'
  PROVE  TeardownInv'
<1>t. RouterInv /\ \A o \in Runtime : Lasts(o)
  BY StartsLast DEF TeardownInv
<1>1. CASE job' = job
  BY <1>1, <1>t, SameJobsAnswer DEF BeginStart
<1>2. CASE \E v \in Evictable : Begin(i, Asked("reset", {v}), timer)
  <2>1. PICK v \in Evictable : Begin(i, Asked("reset", {v}), timer)
    BY <1>2
  <2>2. v \in Id /\ i \in Task
    BY JobsAreTasks DEF Evictable, Registered
  <2> DEFINE r == Asked("reset", {v})
  <2>3. Sound(r) /\ r.kind = "reset" /\ r.doomed = {}
    BY <2>2, AskedIsSound, AskedIs
  <2> HIDE DEF r
  <2>4. Accounted(r) /\ TakesEverything(r)
    BY <2>3 DEF Accounted, TakesEverything
  <2>5. \E j \in JobRecord : job' = [job EXCEPT ![i] = j] /\ Accounted(j) /\ j.kind = r.kind
    BY <1>t, <2>1, <2>2, <2>3, <2>4, BeginsAccount DEF r
  <2>6. PICK j \in JobRecord : job' = [job EXCEPT ![i] = j] /\ Answers(j)
    BY <2>3, <2>5 DEF Answers
  <2>7. closing' = closing
    BY DEF BeginStart
  <2> QED
    BY <1>t, <2>2, <2>6, <2>7, OneJobAnswers
<1> QED
  BY <1>1, <1>2 DEF BeginStart

LEMMA SettleAnswers ==
  ASSUME TeardownInv, NEW i \in Id, Settle(i), RouterInv'
  PROVE  TeardownInv'
<1>t. RouterInv /\ Typed /\ (\A o \in Runtime : Lasts(o)) /\ closing' = closing
  BY StartsLast DEF TeardownInv, RouterInv, Settle
<1>1. start[i] \in Settled
  BY DEF Settle, Settled
<1>2. \A k \in Task : job'[k] # Idle => Answers(job'[k])
  <2> SUFFICES ASSUME NEW k \in Task, job'[k] # Idle PROVE Answers(job'[k])
    OBVIOUS
  <2>1. CASE job'[k] = job[k]
    BY <1>t, <2>1 DEF TeardownInv, Answers, TakesEverything
  <2>2. CASE /\ job[k].at = "pending"
             /\ job'[k] = Gathered(job[k], job[k].pending \ {i})
    <3>1. job[k] # Idle /\ job[k] \in JobRecord /\ Sound(job[k]) /\ Accounted(job[k]) /\ TakesEverything(job[k])
      BY <1>t, <2>2, JobIs, UnderWayIsSound DEF TeardownInv
    <3> DEFINE busy == job[k].pending \ {i}
    <3>2. busy \in SUBSET Id /\ job[k].ids \subseteq Id
      BY <3>1 DEF JobRecord
    <3>3. \A o \in job[k].doomed : life[o] # "none" =>
            o[1] \in job[k].ids /\ (sessions[o[1]] = o \/ o[1] \in busy)
      <4> SUFFICES ASSUME NEW o \in job[k].doomed, life[o] # "none"
                   PROVE  o[1] \in job[k].ids /\ (sessions[o[1]] = o \/ o[1] \in busy)
        OBVIOUS
      <4>1. o \in Runtime /\ o[1] \in job[k].ids /\ (sessions[o[1]] = o \/ o[1] \in job[k].pending)
        BY <2>2, <3>1 DEF Accounted, JobRecord
      <4>2. o[1] = i => sessions[o[1]] = o
        BY <1>t, <1>1, <4>1, AtRest
      <4> QED
        BY <4>1, <4>2
    <3> HIDE DEF busy
    <3>4. job'[k] = Gathered(job[k], busy)
      BY <2>2 DEF busy
    <3>5. /\ Gathered(job[k], busy) \in JobRecord /\ Gathered(job[k], busy).ids = job[k].ids
          /\ Gathered(job[k], busy).kind = job[k].kind
      BY <3>1, <3>2, GatheredFits DEF Sound
    <3>6. Gathered(job[k], busy).doomed = job[k].doomed
      BY <3>1 DEF Gathered, JobRecord
    <3> DEFINE j == Gathered(job[k], busy)
    <3>7. /\ j \in JobRecord /\ j.at = Gathered(job[k], busy).at /\ j.pending = Gathered(job[k], busy).pending
          /\ j.cached = Gathered(job[k], busy).cached /\ j.ids = job[k].ids
          /\ \A o \in j.doomed : life[o] # "none" =>
               o[1] \in job[k].ids /\ (sessions[o[1]] = o \/ o[1] \in busy)
      BY <3>3, <3>5, <3>6
    <3>8. job'[k] = j /\ j.kind = job[k].kind /\ j.doomed = job[k].doomed
      BY <3>4, <3>5, <3>6
    <3> HIDE DEF j
    <3>9. Accounted(j)
      BY <3>1, <3>2, <3>7, GatheredAccounts
    <3> QED
      BY <1>t, <3>1, <3>8, <3>9 DEF Answers, TakesEverything
  <2> QED
    BY <2>1, <2>2 DEF Settle
<1> QED
  BY <1>t, <1>2, TeardownStep

LEMMA FinishAnswers ==
  ASSUME TeardownInv, NEW k \in Task, NEW ok \in BOOLEAN, Finish(k, ok), RouterInv'
  PROVE  TeardownInv'
<1>t. RouterInv /\ Typed /\ (\A o \in Runtime : Lasts(o)) /\ closing' = closing
  BY DisposalsLast DEF TeardownInv, RouterInv, Finish
<1>1. \A t \in Task : job'[t] # Idle => Answers(job'[t])
  <2> SUFFICES ASSUME NEW t \in Task, job'[t] # Idle PROVE Answers(job'[t])
    OBVIOUS
  <2>1. /\ job[t] # Idle /\ job'[t].doomed = job[t].doomed
        /\ job'[t].kind = job[t].kind /\ job'[t].ids = job[t].ids
        /\ job'[t].at \in {"pending", "closing", "disposing"} => job'[t] = job[t]
    BY <1>t, FinishedJobs
  <2>2. Accounted(job[t]) /\ TakesEverything(job[t])
    BY <2>1 DEF TeardownInv
  <2>3. Accounted(job'[t])
    BY <2>1, <2>2 DEF Accounted
  <2> QED
    BY <1>t, <2>1, <2>2, <2>3 DEF Answers, TakesEverything
<1> QED
  BY <1>t, <1>1, TeardownStep

\* The steps of a disposal that begin it
LEMMA BeginAnswers ==
  ASSUME TeardownInv, RouterInv', \A o \in Runtime : Lasts(o), closing' = closing,
         NEW k \in Task, NEW r, Sound(r), Accounted(r), TakesEverything(r), NEW timers,
         Begin(k, r, timers) \/ Claim(k, r, timers)
  PROVE  TeardownInv'
<1>1. \E j \in JobRecord :
        /\ job' = [job EXCEPT ![k] = j] /\ Accounted(j) /\ j.kind = r.kind
        /\ r.kind = "close" => \A o \in Runtime : life[o] # "none" => o \in j.doomed
  BY BeginsAccount DEF TeardownInv
<1>2. PICK j \in JobRecord : job' = [job EXCEPT ![k] = j] /\ Answers(j)
  BY <1>1 DEF Answers, TakesEverything
<1> QED
  BY <1>2, OneJobAnswers

LEMMA AskedAnswers ==
  ASSUME NEW kind \in {"reset", "dispose", "kill", "rebind"}, NEW ids \in SUBSET Id
  PROVE  /\ Sound(Asked(kind, ids)) /\ Accounted(Asked(kind, ids)) /\ TakesEverything(Asked(kind, ids))
         /\ Asked(kind, ids) \in JobRecord
<1>1. Asked(kind, ids).kind = kind /\ Asked(kind, ids).doomed = {} /\ Asked(kind, ids) \in JobRecord
  BY AskedIs
<1> QED
  BY <1>1, AskedIsSound DEF Accounted, TakesEverything

LEMMA UnderWayAnswers ==
  ASSUME TeardownInv, NEW k \in Task, job[k].at # "idle"
  PROVE  /\ job[k] # Idle /\ job[k] \in JobRecord
         /\ Sound(job[k]) /\ Accounted(job[k]) /\ TakesEverything(job[k])
<1>1. RouterInv /\ Typed
  BY DEF TeardownInv, RouterInv
<1>2. job[k] # Idle /\ job[k] \in JobRecord
  BY <1>1, JobIs
<1> QED
  BY <1>1, <1>2, UnderWayIsSound DEF TeardownInv

\* A disposal goes to a stage in which it need not account for more.
LEMMA ElsewhereAnswers ==
  ASSUME TeardownInv, RouterInv', \A o \in Runtime : Lasts(o), closing' = closing,
         NEW k \in Task, NEW r \in JobRecord, Accounted(r), TakesEverything(r),
         NEW at \in {"killing", "preflight", "binding", "failed", "disposing"},
         at = "disposing" => r.at = "closing",
         job' = [job EXCEPT ![k] = [r EXCEPT !.at = at]]
  PROVE  TeardownInv'
<1> DEFINE j == [r EXCEPT !.at = at]
<1>1. j \in JobRecord /\ j.at = at /\ j.kind = r.kind /\ j.ids = r.ids /\ j.cached = r.cached /\ j.doomed = r.doomed
  BY Elsewhere
<1>2. job' = [job EXCEPT ![k] = j]
  OBVIOUS
<1> HIDE DEF j
<1>3. Answers(j)
  BY <1>1 DEF Answers, Accounted, TakesEverything
<1> QED
  BY <1>1, <1>2, <1>3, OneJobAnswers

LEMMA AskingAnswers ==
  ASSUME TeardownInv, RouterInv', NEW k \in Job, NEW i \in Id,
         Reset(k, i) \/ IdleTimer(k, i) \/ Dispose(k, i) \/ Kill(k, i) \/ Rebind(k, i)
  PROVE  TeardownInv'
<1>t. k \in Task /\ (\A o \in Runtime : Lasts(o)) /\ closing' = closing
  BY JobsAreTasks, DisposalsLast DEF TeardownInv, Reset, IdleTimer, Dispose, Kill, Rebind
<1>1. Subtree[i] \in SUBSET Id /\ {i} \in SUBSET Id
  BY Constants
<1>2. CASE Reset(k, i) \/ IdleTimer(k, i)
  <2>1. Begin(k, Asked("reset", {i}), timer) \/ Begin(k, Asked("reset", {i}), timer \ {i})
    BY <1>2 DEF Reset, IdleTimer
  <2> DEFINE r == Asked("reset", {i})
  <2>2. Sound(r) /\ Accounted(r) /\ TakesEverything(r)
    BY <1>1, AskedAnswers
  <2> HIDE DEF r
  <2>3. Begin(k, r, timer) \/ Begin(k, r, timer \ {i})
    BY <2>1 DEF r
  <2> QED
    BY <1>t, <2>2, <2>3, BeginAnswers
<1>3. CASE Dispose(k, i)
  <2> DEFINE r == Asked("dispose", Subtree[i])
  <2>2. Sound(r) /\ Accounted(r) /\ TakesEverything(r)
    BY <1>1, AskedAnswers
  <2> HIDE DEF r
  <2>3. Begin(k, r, timer)
    BY <1>3 DEF Dispose, r
  <2> QED
    BY <1>t, <2>2, <2>3, BeginAnswers
<1>4. CASE Kill(k, i)
  <2> DEFINE r == Asked("kill", Subtree[i])
  <2>2. r \in JobRecord /\ Accounted(r) /\ TakesEverything(r)
    BY <1>1, AskedAnswers
  <2> HIDE DEF r
  <2>3. job' = [job EXCEPT ![k] = [r EXCEPT !.at = "killing"]]
    BY <1>4 DEF Kill, r
  <2> QED
    BY <1>t, <2>2, <2>3, ElsewhereAnswers
<1>5. CASE Rebind(k, i)
  <2> DEFINE r == Asked("rebind", {i})
  <2>2. r \in JobRecord /\ Accounted(r) /\ TakesEverything(r)
    BY <1>1, AskedAnswers
  <2> HIDE DEF r
  <2>3. job' = [job EXCEPT ![k] = [r EXCEPT !.at = "preflight"]]
    BY <1>5 DEF Rebind, r
  <2> QED
    BY <1>t, <2>2, <2>3, ElsewhereAnswers
<1> QED
  BY <1>2, <1>3, <1>4, <1>5

LEMMA GoingOnAnswers ==
  ASSUME TeardownInv, RouterInv', NEW k \in Task,
         \/ k \in Job /\ (Killed(k) \/ Preflighted(k) \/ RebindEnds(k))
         \/ Woken(k) \/ RunsCancelled(k) \/ Transition(k) \/ Refused(k)
  PROVE  TeardownInv'
<1>t. (\A o \in Runtime : Lasts(o)) /\ closing' = closing
  BY DisposalsLast DEF TeardownInv, Killed, Preflighted, RebindEnds, Woken, RunsCancelled,
                       Transition, Refused
<1>1. /\ job[k] # Idle /\ job[k] \in JobRecord
      /\ Sound(job[k]) /\ Accounted(job[k]) /\ TakesEverything(job[k])
  BY UnderWayAnswers DEF Killed, Preflighted, RebindEnds, Woken, RunsCancelled, Transition, Refused
<1>2. CASE \E timers : Begin(k, job[k], timers) \/ Claim(k, job[k], timers)
  BY <1>t, <1>1, <1>2, BeginAnswers
<1>3. CASE \E at \in {"binding", "failed"} : job' = [job EXCEPT ![k].at = at]
  BY <1>t, <1>1, <1>3, ElsewhereAnswers
<1>4. CASE Transition(k)
  <2>1. job' = [job EXCEPT ![k] = [job[k] EXCEPT !.at = "disposing"]] /\ job[k].at = "closing"
    BY <1>4 DEF Transition
  <2> QED
    BY <1>t, <1>1, <2>1, ElsewhereAnswers
<1>5. CASE RunsCancelled(k)
  <2> DEFINE busy == StartingOf(job[k].ids)
             j == Gathered(job[k], busy)
  <2>1. job[k].at = "runs" /\ job' = [job EXCEPT ![k] = j]
    BY <1>5 DEF RunsCancelled, TeardownInv, RouterInv, Typed
  <2>2. busy \in SUBSET Id
    BY <1>1 DEF JobRecord, StartingOf
  <2>3. \A o \in job[k].doomed : life[o] # "none" =>
          o[1] \in job[k].ids /\ (sessions[o[1]] = o \/ o[1] \in busy)
    <3> SUFFICES ASSUME NEW o \in job[k].doomed, life[o] # "none"
                 PROVE  o[1] \in job[k].ids /\ (sessions[o[1]] = o \/ o[1] \in busy)
      OBVIOUS
    <3>1. o \in Runtime /\ o[1] \in job[k].ids
      BY <1>1 DEF Accounted, JobRecord
    <3> QED
      BY <3>1, AliveIsSeen DEF TeardownInv
  <2> HIDE DEF busy
  <2>4. j \in JobRecord /\ j.ids = job[k].ids /\ j.kind = job[k].kind
    BY <1>1, <2>2, GatheredFits DEF Sound
  <2>5. j.doomed = job[k].doomed
    BY <1>1 DEF Gathered, JobRecord
  <2>6. /\ j.at = Gathered(job[k], busy).at /\ j.pending = Gathered(job[k], busy).pending
        /\ j.cached = Gathered(job[k], busy).cached
    OBVIOUS
  <2> HIDE DEF j
  <2>7. Accounted(j)
    BY <1>1, <2>2, <2>3, <2>4, <2>5, <2>6, GatheredAccounts
  <2>8. Answers(j)
    BY <1>t, <1>1, <2>4, <2>5, <2>7 DEF Answers, TakesEverything
  <2> QED
    BY <1>t, <2>1, <2>4, <2>8, OneJobAnswers
<1>6. CASE Refused(k) \/ RebindEnds(k)
  <2>1. job' = [job EXCEPT ![k] = Idle]
    BY <1>6 DEF Refused, RebindEnds
  <2> QED
    BY <1>t, <2>1, OneJobAnswers
<1> QED
  BY <1>2, <1>3, <1>4, <1>5, <1>6 DEF Killed, Preflighted, Woken

LEMMA DisposeAllAnswers ==
  ASSUME TeardownInv, RouterInv', NEW k \in Job, DisposeAll(k)
  PROVE  TeardownInv'
<1> DEFINE ids == {i \in Id : sessions[i] # None \/ start[i] # "none"}
           r == Asked("close", ids)
<1>t. RouterInv /\ k \in Task /\ (\A o \in Runtime : Lasts(o)) /\ closing' = TRUE
  BY JobsAreTasks, DisposalsLast DEF TeardownInv, DisposeAll
<1>1. Sound(r) /\ r.kind = "close"
  BY AskedIsSound, AskedIs
<1>2. Claim(k, r, timer)
  BY DEF DisposeAll
<1>3. \A o \in Runtime : life[o] # "none" => o[1] \in r.ids
  <2>1. r.ids = ids
    BY DEF Asked
  <2>2. \A o \in Runtime : life[o] # "none" => o[1] \in ids
    <3> SUFFICES ASSUME NEW o \in Runtime, life[o] # "none" PROVE o[1] \in ids
      OBVIOUS
    <3>1. o[1] \in Id /\ o # None
      BY RuntimeOf, Constants
    <3>2. CASE start[o[1]] = "none"
      BY <1>t, <3>1, <3>2, AtRest DEF Settled
    <3>3. CASE start[o[1]] # "none"
      BY <3>1, <3>3
    <3> QED
      BY <3>2, <3>3
  <2> QED
    BY <2>1, <2>2
<1> HIDE DEF r
<1>4. PICK j \in JobRecord :
        /\ job' = [job EXCEPT ![k] = j] /\ Accounted(j) /\ j.kind = r.kind
        /\ r.kind = "close" => \A o \in Runtime : life[o] # "none" /\ o[1] \in r.ids => o \in j.doomed
  BY <1>t, <1>1, <1>2, ClaimsAccount
<1>5. Answers(j)
  BY <1>t, <1>1, <1>3, <1>4 DEF Answers
<1> QED
  BY <1>t, <1>4, <1>5, OneJobAnswers

LEMMA TeardownKept == TeardownInv /\ [Next]_vars => TeardownInv'
<1> SUFFICES ASSUME TeardownInv, [Next]_vars PROVE TeardownInv'
  OBVIOUS
<1>t. RouterInv /\ RouterInv'
  BY StepKeeps DEF TeardownInv
<1>1. CASE UNCHANGED vars
  <2>1. job' = job /\ closing' = closing /\ \A o \in Runtime : Lasts(o)
    BY <1>1, UntouchedLasts DEF vars
  <2> QED
    BY <1>t, <2>1, SameJobsAnswer
<1>2. ASSUME NEW c \in Caller, NEW i \in Id, Send(c, i) PROVE TeardownInv'
  BY <1>t, <1>2, CallersAnswer DEF Send
<1>3. ASSUME NEW c \in Caller, Resume(c) PROVE TeardownInv'
  <2>1. caller[c].id \in Id
    BY <1>t, <1>3, CallerIs DEF RouterInv, Resume
  <2> QED
    BY <1>t, <1>3, <2>1, CallersAnswer DEF Resume
<1>4. ASSUME NEW c \in Caller, Deliver(c) PROVE TeardownInv'
  BY <1>t, <1>4, CallersLast, SameJobsAnswer DEF Deliver
<1>5. ASSUME NEW o \in Runtime, TurnEnds(o) \/ RuntimeGone(o) PROVE TeardownInv'
  BY <1>t, <1>5, RuntimesLast, SameJobsAnswer DEF TurnEnds, RuntimeGone
<1>6. ASSUME NEW i \in Id, \/ Grant(i) \/ Deadline(i) \/ AbortStart(i) \/ Evicted(i)
                          \/ Opened(i) \/ StartEnds(i)
      PROVE  TeardownInv'
  <2>1. job' = job /\ closing' = closing
    BY <1>6 DEF Grant, Deadline, AbortStart, Evicted, Opened, StartEnds
  <2>2. \A o \in Runtime : Lasts(o)
    BY <1>t, <1>6, StartsLast
  <2> QED
    BY <1>t, <2>1, <2>2, SameJobsAnswer
<1>7. ASSUME NEW i \in Id, BeginStart(i) \/ Settle(i) PROVE TeardownInv'
  BY <1>t, <1>7, EvictionAnswers, SettleAnswers
<1>8. ASSUME NEW k \in Job, NEW i \in Id,
             Reset(k, i) \/ IdleTimer(k, i) \/ Dispose(k, i) \/ Kill(k, i) \/ Rebind(k, i)
      PROVE  TeardownInv'
  BY <1>t, <1>8, AskingAnswers
<1>9. ASSUME NEW k \in Job, Killed(k) \/ Preflighted(k) \/ RebindEnds(k) \/ DisposeAll(k)
      PROVE  TeardownInv'
  BY <1>t, <1>9, GoingOnAnswers, DisposeAllAnswers, JobsAreTasks
<1>10. ASSUME NEW k \in Task, Woken(k) \/ RunsCancelled(k) \/ Transition(k) \/ Refused(k) PROVE TeardownInv'
  BY <1>t, <1>10, GoingOnAnswers
<1>11. ASSUME NEW k \in Task, NEW ok \in BOOLEAN, Finish(k, ok) PROVE TeardownInv'
  BY <1>t, <1>11, FinishAnswers
<1> QED
  BY <1>1, <1>2, <1>3, <1>4, <1>5, <1>6, <1>7, <1>8, <1>9, <1>10, <1>11 DEF Next

Over(j) == j.at \in {"idle", "closed"}

\* A disposal ends in no other way than by Finish, unless it is a rebind or one
\* that it waited for was rejected.
LEMMA WaysToEnd ==
  ASSUME RouterInv, Next, NEW k \in Job, job[k] # Idle, job'[k] # job[k], Over(job'[k])
  PROVE  (\E ok \in BOOLEAN : Finish(k, ok)) \/ Refused(k) \/ RebindEnds(k)
<1>t. Typed /\ k \in Task /\ k \notin Id /\ job[k] \in JobRecord
      /\ job \in [Task -> JobRecord \cup {Idle}]
  BY JobsAreTasks, Constants DEF RouterInv, Typed
<1>1. \A t \in Task, r \in JobRecord, timers \in SUBSET Id :
        ~(Sound(r) /\ (Begin(t, r, timers) \/ Claim(t, r, timers)))
  <2> SUFFICES ASSUME NEW t \in Task, NEW r \in JobRecord, NEW timers \in SUBSET Id, Sound(r),
                      Begin(t, r, timers) \/ Claim(t, r, timers)
               PROVE  FALSE
    OBVIOUS
  <2>1. PICK j \in JobRecord : j.at \in Beginnings /\ job' = [job EXCEPT ![t] = j]
    BY Begins, Claims
  <2> QED
    BY <1>t, <2>1 DEF Beginnings, Over
<1>2. \A t \in Task : \A j : job' = [job EXCEPT ![t] = j] => t = k /\ Over(j)
  BY <1>t
<1>3. timer \in SUBSET Id
  BY DEF RouterInv, Typed
<1>4. ASSUME NEW i \in Id, Settle(i) PROVE FALSE
  <2>1. job'[k] = Gathered(job[k], job[k].pending \ {i})
    BY <1>t, <1>4 DEF Settle
  <2>2. job[k].pending \ {i} \in SUBSET Id
    BY <1>t DEF JobRecord
  <2> QED
    BY <1>t, <2>1, <2>2, GatheredFits, UnderWayIsSound DEF Over
<1>5. ASSUME NEW i \in Id, BeginStart(i) PROVE FALSE
  <2>1. \A v \in Id : Asked("reset", {v}) \in JobRecord /\ Sound(Asked("reset", {v}))
    BY AskedIs, AskedIsSound
  <2>2. Evictable \subseteq Id
    BY DEF Evictable, Registered
  <2> QED
    BY <1>t, <1>1, <1>3, <1>5, <2>1, <2>2, JobsAreTasks DEF BeginStart
<1>6. ASSUME NEW t \in Job, NEW i \in Id,
             Reset(t, i) \/ IdleTimer(t, i) \/ Dispose(t, i) \/ Kill(t, i) \/ Rebind(t, i)
      PROVE  FALSE
  <2>1. t \in Task /\ job[t] = Idle /\ t # k
    BY <1>6, JobsAreTasks DEF Reset, IdleTimer, Dispose, Kill, Rebind, Free
  <2>2. Subtree[i] \in SUBSET Id /\ timer \ {i} \in SUBSET Id
    BY <1>3, Constants
  <2>3. \A kind \in {"reset", "dispose"}, ids \in SUBSET Id :
          Asked(kind, ids) \in JobRecord /\ Sound(Asked(kind, ids))
    BY AskedIs, AskedIsSound
  <2> QED
    BY <1>1, <1>2, <1>3, <1>6, <2>1, <2>2, <2>3 DEF Reset, IdleTimer, Dispose, Kill, Rebind
<1>7. ASSUME NEW t \in Job, Killed(t) \/ Preflighted(t) \/ DisposeAll(t) PROVE FALSE
  <2>1. t \in Task
    BY JobsAreTasks
  <2>2. CASE Killed(t)
    <3>1. job[t] # Idle /\ job[t] \in JobRecord /\ Sound(job[t])
      BY <1>t, <2>1, <2>2, JobIs, UnderWayIsSound DEF Killed, Idle
    <3> DEFINE stopped == {i \in job[t].ids : sessions[i] # None /\ life[sessions[i]] = "busy"}
    <3>2. timer \cup stopped \in SUBSET Id
      BY <1>3, <3>1 DEF JobRecord
    <3>3. Begin(t, job[t], timer \cup stopped)
      BY <2>2 DEF Killed
    <3> HIDE DEF stopped
    <3> QED
      BY <1>1, <2>1, <3>1, <3>2, <3>3
  <2>3. CASE Preflighted(t)
    <3>1. job[t] # Idle /\ job[t] \in JobRecord /\ Sound(job[t])
      BY <1>t, <2>1, <2>3, JobIs, UnderWayIsSound DEF Preflighted, Idle
    <3>2. ~\E at \in {"binding", "failed"} : job' = [job EXCEPT ![t].at = at]
      <4> SUFFICES ASSUME NEW at \in {"binding", "failed"}, job' = [job EXCEPT ![t].at = at]
                   PROVE  FALSE
        OBVIOUS
      <4>1. [job[t] EXCEPT !.at = at].at = at
        BY <3>1, Elsewhere
      <4> QED
        BY <1>2, <2>1, <4>1 DEF Over
    <3> QED
      BY <1>1, <1>3, <2>1, <2>3, <3>1, <3>2 DEF Preflighted
  <2>4. CASE DisposeAll(t)
    <3> DEFINE ids == {i \in Id : sessions[i] # None \/ start[i] # "none"}
    <3>1. Asked("close", ids) \in JobRecord /\ Sound(Asked("close", ids))
      BY AskedIs, AskedIsSound
    <3>2. Claim(t, Asked("close", ids), timer)
      BY <2>4 DEF DisposeAll
    <3> QED
      BY <1>1, <1>3, <2>1, <3>1, <3>2
  <2> QED
    BY <1>7, <2>2, <2>3, <2>4
<1>8. ASSUME NEW t \in Task, Woken(t) \/ RunsCancelled(t) \/ Transition(t) PROVE FALSE
  <2>1. job[t] # Idle /\ job[t] \in JobRecord /\ Sound(job[t])
    BY <1>t, <1>8, JobIs, UnderWayIsSound DEF Woken, RunsCancelled, Transition, Idle
  <2>2. CASE Woken(t)
    BY <1>1, <1>3, <2>1, <2>2 DEF Woken
  <2>3. CASE RunsCancelled(t)
    <3>1. StartingOf(job[t].ids) \in SUBSET Id
      BY <2>1 DEF JobRecord, StartingOf
    <3>2. Gathered(job[t], StartingOf(job[t].ids)).at \in {"pending", "closing"}
      BY <2>1, <3>1, GatheredFits
    <3>3. job' = [job EXCEPT ![t] = Gathered(job[t], StartingOf(job[t].ids))]
      BY <2>3 DEF RunsCancelled
    <3> QED
      BY <1>2, <3>2, <3>3 DEF Over
  <2>4. CASE Transition(t)
    <3>1. job' = [job EXCEPT ![t] = [job[t] EXCEPT !.at = "disposing"]]
      BY <2>4 DEF Transition
    <3>2. [job[t] EXCEPT !.at = "disposing"].at = "disposing"
      BY <2>1, Elsewhere
    <3> QED
      BY <1>2, <3>1, <3>2 DEF Over
  <2> QED
    BY <1>8, <2>2, <2>3, <2>4
<1>9. ASSUME NEW t \in Task, NEW ok \in BOOLEAN, Finish(t, ok) PROVE t = k
  <2> SUFFICES ASSUME t # k PROVE FALSE
    OBVIOUS
  <2>1. \/ job'[k] = job[k]
        \/ job[k].at = "earlier" /\ job'[k] = [job[k] EXCEPT !.after = @ \ {t}]
        \/ job'[k] = [job[k] EXCEPT !.at = "failed"]
    BY <1>t, <1>9 DEF Finish
  <2>2. [job[k] EXCEPT !.after = @ \ {t}].at = job[k].at /\ [job[k] EXCEPT !.at = "failed"].at = "failed"
    BY <1>t DEF JobRecord
  <2> QED
    BY <2>1, <2>2 DEF Over
<1>10. ASSUME NEW t \in Task, Refused(t) \/ RebindEnds(t) PROVE t = k
  <2>1. job' = [job EXCEPT ![t] = Idle]
    BY <1>10 DEF Refused, RebindEnds
  <2> QED
    BY <1>2, <2>1
<1>11. ~UNCHANGED job
  OBVIOUS
<1>12. /\ \A c \in Caller : ~((\E i \in Id : Send(c, i)) \/ Resume(c) \/ Deliver(c))
       /\ \A o \in Runtime : ~(TurnEnds(o) \/ RuntimeGone(o))
       /\ \A i \in Id : ~(\/ Grant(i) \/ Deadline(i) \/ AbortStart(i) \/ Evicted(i)
                          \/ Opened(i) \/ StartEnds(i))
  BY <1>11 DEF Send, Resume, Deliver, TurnEnds, RuntimeGone,
               Grant, Deadline, AbortStart, Evicted, Opened, StartEnds
<1>13. \/ \E t \in Task : Refused(t) \/ \E ok \in BOOLEAN : Finish(t, ok)
       \/ \E t \in Job : RebindEnds(t)
  BY <1>4, <1>5, <1>6, <1>7, <1>8, <1>12 DEF Next
<1> QED
  BY <1>9, <1>10, <1>13, JobsAreTasks

\* A teardown that ends was refused, as one that it waited for was rejected, or
\* it got past those.  Then nothing is left of what its sessions had when it
\* did, whatever other disposals and cold starts went on and whether or not the
\* teardown reports a failure; after the router's, no runtime is left at all.
THEOREM NothingSurvives == Spec => TeardownTakesAll
<1> DEFINE Takes == \A k \in Job :
             (job[k] # Idle /\ job[k].kind \in {"dispose", "kill", "close"}
                            /\ job'[k].at \in {"idle", "closed"} /\ job'[k] # job[k]) =>
               \/ job[k].at = "failed"
               \/ /\ \A o \in job[k].doomed : life'[o] = "none"
                  /\ job[k].kind = "close" => \A o \in Runtime : life'[o] = "none"
<1>1. Init => TeardownInv
  <2>1. Init => \A k \in Task : job[k] = Idle
    BY DEF Init
  <2> QED
    BY <2>1, InitFits DEF TeardownInv
<1>2. TeardownInv /\ [Next]_vars => TeardownInv'
  BY TeardownKept
<1>3. TeardownInv /\ [Next]_vars => [Takes]_vars
  <2> SUFFICES ASSUME TeardownInv, Next, NEW k \in Job, job[k] # Idle, job'[k] # job[k], Over(job'[k]),
                      job[k].kind \in {"dispose", "kill", "close"}, job[k].at # "failed"
               PROVE  /\ \A o \in job[k].doomed : life'[o] = "none"
                      /\ job[k].kind = "close" => \A o \in Runtime : life'[o] = "none"
    BY DEF vars, Over
  <2>1. RouterInv /\ Typed /\ k \in Task
    BY JobsAreTasks DEF TeardownInv, RouterInv
  <2>2. PICK ok \in BOOLEAN : Finish(k, ok)
    BY <2>1, WaysToEnd DEF Refused, RebindEnds
  <2>3. job[k] \in JobRecord /\ job[k].at = "disposing" /\ Accounted(job[k]) /\ TakesEverything(job[k])
    BY <2>1, <2>2, UnderWayAnswers DEF Finish
  <2>4. \A o \in job[k].cached : life[o] \in {"none", "ending"}
    BY <2>1, <2>3 DEF RouterInv, JobsFit, JobFits
  <2>5. \A o \in job[k].doomed : o \in Runtime /\ (life[o] # "none" => o \in job[k].cached)
    BY <2>3 DEF Accounted, JobRecord
  <2>6. \A o \in Runtime : life'[o] = IF o \in job[k].cached /\ life[o] = "ending" THEN "none" ELSE life[o]
    BY <2>2 DEF Finish
  <2>7. \A o \in job[k].doomed : life'[o] = "none"
    BY <2>4, <2>5, <2>6
  <2>8. job[k].kind = "close" => \A o \in Runtime : life'[o] = "none"
    BY <2>3, <2>6, <2>7 DEF TakesEverything
  <2> QED
    BY <2>7, <2>8
<1>4. Spec => [][Takes]_vars
  BY <1>1, <1>2, <1>3, PTL DEF Spec
<1> QED
  BY <1>4 DEF TeardownTakesAll
=============================================================================
