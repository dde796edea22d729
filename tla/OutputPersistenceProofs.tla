---------------------- MODULE OutputPersistenceProofs ----------------------
(* Proofs about OutputPersistence for every number of processes, outputs,    *)
(* crashes and lapses: no output is lost, checkpoints and receipts are true, *)
(* nothing is sent again unless a delivery was cut off.                      *)
EXTENDS OutputPersistence, FiniteSetTheorems, TLAPS

Queues == INSTANCE SequenceLemmas

\* What the constants are, and that no row of an output looks like no row.
LEMMA OutputConstants ==
  /\ MaxPending \in Nat \ {0} /\ Handovers \in Nat /\ Ends \in Nat /\ Lapses \in Nat
  /\ IsFiniteSet(Key) /\ Nobody \notin Process /\ NoRow \notin OutputRow
<1>1. \A r \in OutputRow : r.state \in {"pending", "running"}
  BY DEF OutputRow
<1>2. NoRow.state = "none"
  BY DEF NoRow
<1> QED  BY <1>1, <1>2, JobAssumption, OutputAssumption

Entry ==
  [phase : Phase, id : Nat, stage : 0 .. 2, claim : Nat, timer : BOOLEAN,
   force : BOOLEAN, aborted : BOOLEAN, listed : BOOLEAN]

Queue ==
  [status : {"up", "disposed", "down"}, entry : [Key -> Entry],
   blocked : SUBSET (Key \X Nat), recovery : BOOLEAN,
   drain : {"no", "change", "again", "executions"}, awaited : SUBSET Key]

Rows == [Key -> OutputRow \cup {NoRow}]

\* The states handlers work on
Work == [row : Rows, dead : SUBSET Key, me : Queue]

Typed ==
  /\ row \in Rows /\ dead \in SUBSET Key /\ proc \in [Process -> Queue]
  /\ history \in SUBSET Key /\ stream \in SUBSET Key /\ receipts \in SUBSET Key
  /\ sent \in [Key -> 0 .. 2] /\ handed \in [Key -> Nat] /\ cut \in SUBSET Key
  /\ ended \in 0 .. Ends /\ lapsed \in 0 .. Lapses

Runs == Asynchronous \cup Synchronous

\* What is known of the deliveries, in the product and in the history
Facts ==
  [history : SUBSET Key, stream : SUBSET Key, receipts : SUBSET Key,
   sent : [Key -> 0 .. 2], handed : [Key -> Nat], cut : SUBSET Key]

Now ==
  [history |-> history, stream |-> stream, receipts |-> receipts,
   sent |-> sent, handed |-> handed, cut |-> cut]

\* A row is owed to a producer, and its checkpoint is true; an output without a
\* row and without a dead one has gone through every projection.
RowFits(k, r, d, x) ==
  /\ r # NoRow =>
       /\ x.handed[k] > 0
       /\ r.stage >= 1 => k \in x.history
       /\ r.stage >= 2 => k \in x.stream
  /\ x.handed[k] > 0 => r # NoRow \/ k \in d \/ k \in x.history \cap x.stream \cap x.receipts

\* The phase of a delivery tells which projections have been written.
Written(k, e, x) ==
  /\ e.phase \in Synchronous \cup {"fetch", "returned"} => k \in x.history
  /\ e.phase = "ingest" => e.stage = 0
  /\ e.phase = "checkpoint" => e.stage \in 1 .. 2 /\ (e.stage = 2 => k \in x.stream)
  /\ e.phase \in {"look", "fetch", "receipt", "returned"} => k \in x.stream
  /\ e.phase = "receipt" => x.sent[k] > 0
  /\ e.phase = "returned" => k \in x.receipts

\* A delivery that was not cut off goes on under its claim until its receipt.
Claims(p, k, r, e, x) ==
  e.phase \in Runs =>
    /\ Holds(r, e.id, p, e.claim) => r.stage <= e.stage
    /\ k \notin x.cut \cup x.receipts => Holds(r, e.id, p, e.claim)
    /\ k \in x.receipts \ x.cut => e.phase \notin {"fetch", "receipt"}

EntryFits(p, k, r, e, x) ==
  /\ Written(k, e, x) /\ Claims(p, k, r, e, x)
  /\ e.listed => x.handed[k] > 0

\* A receipt follows what was sent, and what was sent without one is still at
\* its receipt unless the delivery was cut off.
SentFits(k, x) ==
  /\ k \in x.receipts => x.sent[k] > 0
  /\ x.sent[k] > 1 => k \in x.cut

AtReceipt(k) ==
  (sent[k] > 0 /\ k \notin receipts \cup cut) =>
     \E p \in Process : proc[p].entry[k].phase = "receipt"

DownIsFresh == \A p \in Process : proc[p].status = "down" => proc[p] = Fresh

OutputInv ==
  /\ Typed /\ DownIsFresh
  /\ \A k \in Key : RowFits(k, row[k], dead, Now) /\ SentFits(k, Now) /\ AtReceipt(k)
  /\ \A p \in Process, k \in Key : EntryFits(p, k, row[k], proc[p].entry[k], Now)

-----------------------------------------------------------------------------
(* Loops over the keys *)

FlushLoop(K, s, p) == ForEach(K, s, LAMBDA k, t : Attempt(t, p, k))
PumpLoop(K, s, p) == ForEach(K, s, LAMBDA k, t : Recover(t, p, k))

\* The key a loop takes of those it has left
Choice(done) == CHOOSE k \in done : TRUE

LEMMA ChoiceIsThere ==
  ASSUME NEW D, D # {}
  PROVE  Choice(D) \in D
  BY DEF Choice

\* A loop ends: what holds of no keys, and with a key if without it, holds of all.
LEMMA LoopsEnd ==
  ASSUME NEW K, IsFiniteSet(K), NEW U,
         \A D \in SUBSET K : D = {} \/ D \ {Choice(D)} \in U => D \in U
  PROVE  SUBSET K \subseteq U
<1> DEFINE T == {n \in Nat : \A D \in SUBSET K : Cardinality(D) = n => D \in U}
<1>0. \A D \in SUBSET K : IsFiniteSet(D) /\ Cardinality(D) \in Nat
  BY FS_Subset, FS_CardinalityType
<1>1. 0 \in T
  <2> SUFFICES ASSUME NEW D \in SUBSET K, Cardinality(D) = 0 PROVE D \in U
    OBVIOUS
  <2> QED  BY <1>0, FS_EmptySet
<1>2. ASSUME NEW n \in T PROVE n + 1 \in T
  <2> SUFFICES ASSUME NEW D \in SUBSET K, Cardinality(D) = n + 1 PROVE D \in U
    OBVIOUS
  <2>1. D # {}
    BY <1>0, FS_EmptySet
  <2>2. Choice(D) \in D
    BY <2>1, ChoiceIsThere
  <2>3. Cardinality(D \ {Choice(D)}) = n
    BY <1>0, <2>2, FS_RemoveElement
  <2> QED  BY <2>3
<1>3. T \in SUBSET Nat
  OBVIOUS
<1>4. T = Nat
  <2> HIDE DEF T
  <2> QED  BY <1>1, <1>2, <1>3, Queues!SetInduction
<1> QED  BY <1>0, <1>4

\* g is a loop that starts with s and takes the steps F, as far as m keys.
Loops(g, s, F, K, m) ==
  \A D \in SUBSET K : Cardinality(D) <= m =>
    g[D] = IF D = {} THEN s ELSE F[<<Choice(D), g[D \ {Choice(D)}]>>]

IsLoop(g, s, F, K) ==
  g = [D \in SUBSET K |-> IF D = {} THEN s ELSE F[<<Choice(D), g[D \ {Choice(D)}]>>]]

LEMMA LoopExists ==
  ASSUME NEW K, IsFiniteSet(K), NEW s, NEW F
  PROVE  \E g : IsLoop(g, s, F, K)
<1>0. \A D \in SUBSET K : IsFiniteSet(D) /\ Cardinality(D) \in Nat
  BY FS_Subset, FS_CardinalityType
<1> DEFINE S == {m \in Nat : \E g : Loops(g, s, F, K, m)}
<1>1. 0 \in S
  <2> DEFINE g == [D \in SUBSET K |-> s]
  <2>1. Loops(g, s, F, K, 0)
    BY <1>0, FS_EmptySet DEF Loops
  <2> QED  BY <2>1
<1>2. ASSUME NEW m \in S PROVE m + 1 \in S
  <2>1. PICK g : Loops(g, s, F, K, m)
    OBVIOUS
  <2> DEFINE h == [D \in SUBSET K |-> IF Cardinality(D) <= m THEN g[D]
                                       ELSE F[<<Choice(D), g[D \ {Choice(D)}]>>]]
  <2>2. ASSUME NEW D \in SUBSET K, Cardinality(D) <= m + 1
        PROVE  h[D] = IF D = {} THEN s ELSE F[<<Choice(D), h[D \ {Choice(D)}]>>]
    <3>1. CASE D = {}
      <4>1. Cardinality(D) <= m
        BY <3>1, FS_EmptySet
      <4> QED  BY <3>1, <4>1, <2>1 DEF Loops
    <3>2. CASE D # {}
      <4>1. Choice(D) \in D
        BY <3>2, ChoiceIsThere
      <4>2. Cardinality(D \ {Choice(D)}) = Cardinality(D) - 1
        BY <1>0, <4>1, FS_RemoveElement
      <4>3. D \ {Choice(D)} \in SUBSET K /\ Cardinality(D \ {Choice(D)}) <= m
        BY <1>0, <2>2, <4>2
      <4>4. h[D \ {Choice(D)}] = g[D \ {Choice(D)}]
        BY <4>3
      <4>5. h[D] = F[<<Choice(D), g[D \ {Choice(D)}]>>]
        <5>1. CASE Cardinality(D) <= m
          <6>1. g[D] = F[<<Choice(D), g[D \ {Choice(D)}]>>]
            BY <5>1, <3>2, <2>1 DEF Loops
          <6> QED  BY <6>1, <5>1
        <5>2. CASE ~(Cardinality(D) <= m)
          BY <5>2
        <5> QED  BY <5>1, <5>2
      <4> HIDE DEF h
      <4> QED  BY <4>4, <4>5, <3>2
    <3> QED  BY <3>1, <3>2
  <2>3. Loops(h, s, F, K, m + 1)
    <3> HIDE DEF h
    <3> QED  BY <2>2 DEF Loops
  <2>4. m + 1 \in Nat
    OBVIOUS
  <2> HIDE DEF h
  <2> QED  BY <2>3, <2>4
<1>3. S = Nat
  <2>1. S \in SUBSET Nat
    OBVIOUS
  <2> HIDE DEF S
  <2> QED  BY <1>1, <1>2, <2>1, Queues!SetInduction
<1>4. Cardinality(K) \in Nat
  BY FS_CardinalityType
<1>5. PICK g : Loops(g, s, F, K, Cardinality(K))
  BY <1>3, <1>4
<1>6. \A D \in SUBSET K : Cardinality(D) <= Cardinality(K)
  BY FS_Subset
<1> DEFINE h == [D \in SUBSET K |-> g[D]]
<1>7. ASSUME NEW D \in SUBSET K
      PROVE  h[D] = IF D = {} THEN s ELSE F[<<Choice(D), h[D \ {Choice(D)}]>>]
  <2>1. g[D] = IF D = {} THEN s ELSE F[<<Choice(D), g[D \ {Choice(D)}]>>]
    BY <1>5, <1>6 DEF Loops
  <2>2. h[D] = g[D] /\ h[D \ {Choice(D)}] = g[D \ {Choice(D)}]
    OBVIOUS
  <2> QED  BY <2>1, <2>2
<1>8. h = [D \in SUBSET K |-> IF D = {} THEN s ELSE F[<<Choice(D), h[D \ {Choice(D)}]>>]]
  <2>1. h = [D \in SUBSET K |-> h[D]]
    OBVIOUS
  <2> HIDE DEF h
  <2> QED  BY <1>7, <2>1
<1> HIDE DEF h
<1> QED  BY <1>8 DEF IsLoop

LEMMA LoopStays ==
  ASSUME NEW K, IsFiniteSet(K), NEW T, NEW g, g[{}] \in T,
         \A D \in SUBSET K : D # {} /\ g[D \ {Choice(D)}] \in T => g[D] \in T
  PROVE  \A D \in SUBSET K : g[D] \in T
<1> DEFINE U == {D \in SUBSET K : g[D] \in T}
<1>1. ASSUME NEW D \in SUBSET K, D = {} \/ D \ {Choice(D)} \in U PROVE D \in U
  BY <1>1
<1> HIDE DEF U
<1>2. SUBSET K \subseteq U
  BY <1>1, LoopsEnd
<1> QED  BY <1>2 DEF U

LEMMA LoopGoes ==
  ASSUME NEW K, IsFiniteSet(K), NEW T, NEW g, g[{}] \in T[{}],
         \A D \in SUBSET K :
           D # {} /\ g[D \ {Choice(D)}] \in T[D \ {Choice(D)}] => g[D] \in T[D]
  PROVE  \A D \in SUBSET K : g[D] \in T[D]
<1> DEFINE U == {D \in SUBSET K : g[D] \in T[D]}
<1>1. ASSUME NEW D \in SUBSET K, D = {} \/ D \ {Choice(D)} \in U PROVE D \in U
  BY <1>1
<1> HIDE DEF U
<1>2. SUBSET K \subseteq U
  BY <1>1, LoopsEnd
<1> QED  BY <1>2 DEF U

\* The loop of flushNow stays where its steps stay.
LEMMA FlushLoops ==
  ASSUME NEW s, NEW p, NEW T, s \in T, NEW K \in SUBSET Key,
         \A t \in T : \A k \in K : Attempt(t, p, k) \in T
  PROVE  FlushLoop(K, s, p) \in T
<1> DEFINE F == [x \in K \X T |-> Attempt(x[2], p, x[1])]
           Body(g) == [done \in SUBSET K |->
                         IF done = {} THEN s
                         ELSE LET k == CHOOSE k \in done : TRUE
                              IN Then(g[done \ {k}], LAMBDA t : Attempt(t, p, k))]
<1>1. IsFiniteSet(K)
  BY OutputConstants, FS_Subset
<1>2. PICK g : IsLoop(g, s, F, K)
  <2> HIDE DEF F
  <2> QED  BY <1>1, LoopExists
<1>3. /\ DOMAIN g = SUBSET K /\ g = [D \in SUBSET K |-> g[D]] /\ g[{}] = s
      /\ \A D \in SUBSET K : D # {} => g[D] = F[<<Choice(D), g[D \ {Choice(D)}]>>]
  <2> HIDE DEF F
  <2> QED  BY <1>2 DEF IsLoop
<1>4. ASSUME NEW t \in T, NEW k \in K
      PROVE  F[<<k, t>>] = Attempt(t, p, k) /\ Attempt(t, p, k) \in T
  <2>1. <<k, t>> \in K \X T /\ <<k, t>>[1] = k /\ <<k, t>>[2] = t
    OBVIOUS
  <2> QED  BY <2>1
<1>5. \A D \in SUBSET K : g[D] \in T
  <2> HIDE DEF F
  <2>1. ASSUME NEW D \in SUBSET K, D # {}, g[D \ {Choice(D)}] \in T PROVE g[D] \in T
    <3>1. Choice(D) \in K
      BY <2>1, ChoiceIsThere
    <3>2. g[D] = F[<<Choice(D), g[D \ {Choice(D)}]>>]
      BY <2>1, <1>3
    <3> QED  BY <2>1, <3>1, <3>2, <1>4
  <2> QED  BY <1>1, <1>3, <2>1, LoopStays
<1>6. ASSUME NEW h, NEW D \in SUBSET K, D # {}
      PROVE  Body(h)[D] = Attempt(h[D \ {Choice(D)}], p, Choice(D))
  <2>1. Body(h)[D] = Then(h[D \ {Choice(D)}], LAMBDA u : Attempt(u, p, Choice(D)))
    BY <1>6 DEF Choice
  <2>2. Then(h[D \ {Choice(D)}], LAMBDA u : Attempt(u, p, Choice(D)))
          = Attempt(h[D \ {Choice(D)}], p, Choice(D))
    BY DEF Then
  <2> QED  BY <2>1, <2>2
<1>7. g = Body(g)
  <2>1. ASSUME NEW D \in SUBSET K
        PROVE  Body(g)[D] = g[D]
    <3>1. CASE D = {}
      BY <1>3, <3>1
    <3>2. CASE D # {}
      <4>1. Choice(D) \in K /\ D \ {Choice(D)} \in SUBSET K
        BY <3>2, ChoiceIsThere
      <4>2. g[D] = Attempt(g[D \ {Choice(D)}], p, Choice(D))
        <5> HIDE DEF F
        <5> QED  BY <4>1, <3>2, <1>3, <1>4, <1>5
      <4> HIDE DEF Body
      <4> QED  BY <4>2, <1>6, <3>2
    <3> QED  BY <3>1, <3>2
  <2>2. Body(g) = [D \in SUBSET K |-> g[D]]
    BY <2>1, Zenon
  <2> QED  BY <1>3, <2>2
<1> DEFINE after == CHOOSE h : h = Body(h)
<1>8. after = Body(after)
  <2> HIDE DEF Body
  <2> QED  BY <1>7
<1>9. \A D \in SUBSET K : after[D] \in T
  <2>1. after[{}] = s
    <3>1. Body(after)[{}] = s
      OBVIOUS
    <3> HIDE DEF Body, after
    <3> QED  BY <1>8, <3>1
  <2>2. ASSUME NEW D \in SUBSET K, D # {}, after[D \ {Choice(D)}] \in T PROVE after[D] \in T
    <3> HIDE DEF Body, after, F
    <3>1. Choice(D) \in K
      BY <2>2, ChoiceIsThere
    <3>2. after[D] = Attempt(after[D \ {Choice(D)}], p, Choice(D))
      <4>1. Body(after)[D] = Attempt(after[D \ {Choice(D)}], p, Choice(D))
        BY <2>2, <1>6
      <4> QED  BY <4>1, <1>8
    <3> QED  BY <2>2, <3>1, <3>2, <1>4
  <2> HIDE DEF after
  <2> QED  BY <1>1, <2>1, <2>2, LoopStays
<1>10. FlushLoop(K, s, p) = after[K]
  BY DEF FlushLoop, ForEach
<1> HIDE DEF after
<1> QED  BY <1>9, <1>10

\* The same when what holds depends on the keys the loop has had.
LEMMA PumpLoops ==
  ASSUME NEW s, NEW p, NEW K \in SUBSET Key, NEW T, s \in T[{}],
         \A D \in SUBSET K : D # {} =>
           \A t \in T[D \ {Choice(D)}] : Recover(t, p, Choice(D)) \in T[D]
  PROVE  PumpLoop(K, s, p) \in T[K]
<1> DEFINE States == UNION {T[D] : D \in SUBSET K}
           F == [x \in K \X States |-> Recover(x[2], p, x[1])]
           Body(g) == [done \in SUBSET K |->
                         IF done = {} THEN s
                         ELSE LET k == CHOOSE k \in done : TRUE
                              IN Then(g[done \ {k}], LAMBDA t : Recover(t, p, k))]
<1>1. IsFiniteSet(K)
  BY OutputConstants, FS_Subset
<1>2. PICK g : IsLoop(g, s, F, K)
  <2> HIDE DEF F
  <2> QED  BY <1>1, LoopExists
<1>3. /\ DOMAIN g = SUBSET K /\ g = [D \in SUBSET K |-> g[D]] /\ g[{}] = s
      /\ \A D \in SUBSET K : D # {} => g[D] = F[<<Choice(D), g[D \ {Choice(D)}]>>]
  <2> HIDE DEF F
  <2> QED  BY <1>2 DEF IsLoop
<1>4. ASSUME NEW t \in States, NEW k \in K
      PROVE  F[<<k, t>>] = Recover(t, p, k)
  <2> HIDE DEF States
  <2>1. <<k, t>> \in K \X States /\ <<k, t>>[1] = k /\ <<k, t>>[2] = t
    OBVIOUS
  <2> QED  BY <2>1
<1>5. \A D \in SUBSET K : g[D] \in T[D]
  <2> HIDE DEF F
  <2>1. ASSUME NEW D \in SUBSET K, D # {}, g[D \ {Choice(D)}] \in T[D \ {Choice(D)}]
        PROVE  g[D] \in T[D]
    <3>1. Choice(D) \in K /\ D \ {Choice(D)} \in SUBSET K
      BY <2>1, ChoiceIsThere
    <3>2. g[D] = F[<<Choice(D), g[D \ {Choice(D)}]>>]
      BY <2>1, <1>3
    <3>3. g[D \ {Choice(D)}] \in States
      BY <2>1, <3>1
    <3> HIDE DEF States
    <3> QED  BY <2>1, <3>1, <3>2, <3>3, <1>4
  <2> QED  BY <1>1, <1>3, <2>1, LoopGoes
<1>6. ASSUME NEW h, NEW D \in SUBSET K, D # {}
      PROVE  Body(h)[D] = Recover(h[D \ {Choice(D)}], p, Choice(D))
  <2>1. Body(h)[D] = Then(h[D \ {Choice(D)}], LAMBDA u : Recover(u, p, Choice(D)))
    BY <1>6 DEF Choice
  <2>2. Then(h[D \ {Choice(D)}], LAMBDA u : Recover(u, p, Choice(D)))
          = Recover(h[D \ {Choice(D)}], p, Choice(D))
    BY DEF Then
  <2> QED  BY <2>1, <2>2
<1>7. g = Body(g)
  <2>1. ASSUME NEW D \in SUBSET K
        PROVE  Body(g)[D] = g[D]
    <3>1. CASE D = {}
      BY <1>3, <3>1
    <3>2. CASE D # {}
      <4>1. Choice(D) \in K /\ D \ {Choice(D)} \in SUBSET K
        BY <3>2, ChoiceIsThere
      <4>2. g[D \ {Choice(D)}] \in States
        BY <4>1, <1>5
      <4>3. g[D] = Recover(g[D \ {Choice(D)}], p, Choice(D))
        <5> HIDE DEF F, States
        <5> QED  BY <4>1, <4>2, <3>2, <1>3, <1>4
      <4> HIDE DEF Body
      <4> QED  BY <4>3, <1>6, <3>2
    <3> QED  BY <3>1, <3>2
  <2>2. Body(g) = [D \in SUBSET K |-> g[D]]
    BY <2>1, Zenon
  <2> QED  BY <1>3, <2>2
<1> DEFINE after == CHOOSE h : h = Body(h)
<1>8. after = Body(after)
  <2> HIDE DEF Body
  <2> QED  BY <1>7
<1>9. \A D \in SUBSET K : after[D] \in T[D]
  <2>1. after[{}] = s
    <3>1. Body(after)[{}] = s
      OBVIOUS
    <3> HIDE DEF Body, after
    <3> QED  BY <1>8, <3>1
  <2>2. ASSUME NEW D \in SUBSET K, D # {}, after[D \ {Choice(D)}] \in T[D \ {Choice(D)}]
        PROVE  after[D] \in T[D]
    <3> HIDE DEF Body, after, F
    <3>1. after[D] = Recover(after[D \ {Choice(D)}], p, Choice(D))
      <4>1. Body(after)[D] = Recover(after[D \ {Choice(D)}], p, Choice(D))
        BY <2>2, <1>6
      <4> QED  BY <4>1, <1>8
    <3> QED  BY <2>2, <3>1
  <2> HIDE DEF after
  <2> QED  BY <1>1, <2>1, <2>2, LoopGoes
<1>10. PumpLoop(K, s, p) = after[K]
  BY DEF PumpLoop, ForEach
<1> HIDE DEF after
<1> QED  BY <1>9, <1>10

-----------------------------------------------------------------------------
(* Handlers that begin attempts and look after what is left of them          *)

Live(r) == r # NoRow /\ r.state = "running" /\ ~r.expired

Same(e, f) == f.phase = e.phase /\ f.id = e.id /\ f.stage = e.stage /\ f.claim = e.claim

\* An attempt that has just claimed its row
Begun(p, r, f) == Holds(r, f.id, p, f.claim) /\ f.stage = r.stage /\ f.phase = FirstPhase(r.stage)

\* They leave claims that have not lapsed, and claim for p only.
RowGoesOn(p, r, q) ==
  /\ Live(r) => q = r
  /\ q # NoRow => r # NoRow /\ q.id = r.id /\ q.stage = r.stage /\ r.attempts <= q.attempts
  /\ Live(q) => q = r \/ q.worker = p

EntryGoesOn(p, r, q, e, f) ==
  /\ f.phase \in Runs =>
       \/ Same(e, f) /\ (Holds(q, f.id, p, f.claim) => q = r)
       \/ Begun(p, q, f)
  /\ f.listed => e.listed \/ r # NoRow

GoesOn(p, s, t) ==
  /\ s.dead \subseteq t.dead /\ t.me.status = s.me.status
  /\ \A k \in Key :
       /\ RowGoesOn(p, s.row[k], t.row[k])
       /\ s.row[k] # NoRow => t.row[k] # NoRow \/ k \in t.dead
       /\ EntryGoesOn(p, s.row[k], t.row[k], s.me.entry[k], t.me.entry[k])

\* What such a handler can make of s
After(p, s) == {t \in Work : GoesOn(p, s, t)}

LEMMA WorkFields ==
  ASSUME NEW s \in Work
  PROVE  /\ s.row \in Rows /\ s.dead \in SUBSET Key /\ s.me \in Queue
         /\ s.me.entry \in [Key -> Entry] /\ s.me.blocked \in SUBSET (Key \X Nat)
         /\ \A k \in Key : /\ s.row[k] \in OutputRow \cup {NoRow}
                           /\ s.row[k] # NoRow => s.row[k] \in OutputRow
                           /\ s.me.entry[k] \in Entry
  BY DEF Work, Rows, Queue

LEMMA RowsGoOn ==
  ASSUME NEW p, NEW a \in OutputRow \cup {NoRow}, NEW b \in OutputRow \cup {NoRow},
         NEW c \in OutputRow \cup {NoRow}, RowGoesOn(p, a, b), RowGoesOn(p, b, c)
  PROVE  RowGoesOn(p, a, c)
<1>1. ASSUME c # NoRow PROVE a.attempts <= c.attempts
  <2>1. a.attempts <= b.attempts /\ b.attempts <= c.attempts /\ a # NoRow /\ b # NoRow
    BY <1>1 DEF RowGoesOn
  <2>2. a \in OutputRow /\ b \in OutputRow /\ c \in OutputRow
    BY <2>1, <1>1
  <2>3. a.attempts \in Nat /\ b.attempts \in Nat /\ c.attempts \in Nat
    BY <2>2, JobAssumption DEF OutputRow
  <2> QED  BY <2>1, <2>3
<1> QED  BY <1>1 DEF RowGoesOn, Live

LEMMA EntriesGoOn ==
  ASSUME NEW p, NEW a, NEW b, NEW c, NEW e, NEW f, NEW g,
         RowGoesOn(p, a, b), RowGoesOn(p, b, c),
         EntryGoesOn(p, a, b, e, f), EntryGoesOn(p, b, c, f, g)
  PROVE  EntryGoesOn(p, a, c, e, g)
<1>1. g.listed => e.listed \/ a # NoRow
  BY DEF EntryGoesOn, RowGoesOn
<1>2. ASSUME g.phase \in Runs, ~Begun(p, c, g)
      PROVE  Same(e, g) /\ (Holds(c, g.id, p, g.claim) => c = a)
  <2>1. Same(f, g) /\ (Holds(c, g.id, p, g.claim) => c = b) /\ f.phase \in Runs
    BY <1>2 DEF EntryGoesOn, Same
  <2>2. CASE Begun(p, b, f)
    <3>1. Live(b)
      BY <2>2 DEF Begun, Holds, IsRow, Live
    <3>2. c = b
      BY <3>1 DEF RowGoesOn
    <3> QED  BY <1>2, <2>1, <2>2, <3>2 DEF Begun, Same
  <2>3. CASE Same(e, f) /\ (Holds(b, f.id, p, f.claim) => b = a)
    BY <2>1, <2>3 DEF Same
  <2> QED  BY <2>1, <2>2, <2>3 DEF EntryGoesOn
<1> QED  BY <1>1, <1>2 DEF EntryGoesOn

LEMMA GoingOn ==
  ASSUME NEW p, NEW s \in Work, NEW t \in After(p, s), NEW u \in After(p, t)
  PROVE  u \in After(p, s)
<1>1. t \in Work /\ u \in Work /\ GoesOn(p, s, t) /\ GoesOn(p, t, u)
  BY DEF After
<1>2. s.dead \subseteq u.dead /\ u.me.status = s.me.status
  BY <1>1 DEF GoesOn
<1>3. ASSUME NEW k \in Key
      PROVE  /\ RowGoesOn(p, s.row[k], u.row[k])
             /\ s.row[k] # NoRow => u.row[k] # NoRow \/ k \in u.dead
             /\ EntryGoesOn(p, s.row[k], u.row[k], s.me.entry[k], u.me.entry[k])
  <2>1. /\ RowGoesOn(p, s.row[k], t.row[k]) /\ RowGoesOn(p, t.row[k], u.row[k])
        /\ EntryGoesOn(p, s.row[k], t.row[k], s.me.entry[k], t.me.entry[k])
        /\ EntryGoesOn(p, t.row[k], u.row[k], t.me.entry[k], u.me.entry[k])
    BY <1>1 DEF GoesOn
  <2>2. /\ s.row[k] \in OutputRow \cup {NoRow} /\ t.row[k] \in OutputRow \cup {NoRow}
        /\ u.row[k] \in OutputRow \cup {NoRow}
    BY <1>1, WorkFields
  <2>3. s.row[k] # NoRow => u.row[k] # NoRow \/ k \in u.dead
    BY <1>1 DEF GoesOn
  <2> QED  BY <2>1, <2>2, <2>3, RowsGoOn, EntriesGoOn
<1> QED  BY <1>1, <1>2, <1>3 DEF GoesOn, After

\* A handler that leaves the rows and begins nothing
LEMMA Bookkeeping ==
  ASSUME NEW p, NEW s \in Work, NEW t \in Work, t.row = s.row, s.dead \subseteq t.dead,
         t.me.status = s.me.status,
         \A k \in Key : /\ t.me.entry[k].phase \in Runs => Same(s.me.entry[k], t.me.entry[k])
                        /\ t.me.entry[k].listed => s.me.entry[k].listed \/ s.row[k] # NoRow
  PROVE  t \in After(p, s)
<1>1. ASSUME NEW k \in Key
      PROVE  RowGoesOn(p, s.row[k], s.row[k])
  <2>1. s.row[k] # NoRow => s.row[k].attempts \in Nat
    BY WorkFields, JobAssumption DEF OutputRow
  <2> QED  BY <2>1 DEF RowGoesOn
<1> QED  BY <1>1 DEF After, GoesOn, EntryGoesOn

LEMMA Staying ==
  ASSUME NEW p, NEW s \in Work
  PROVE  s \in After(p, s)
  BY Bookkeeping DEF Same

-----------------------------------------------------------------------------
(* The steps handlers are made of *)

LEMMA Statuses ==
  /\ "none" \notin Runs /\ "idle" \notin Runs /\ "ended" \notin Runs
  /\ {"none", "idle", "ended"} \subseteq Phase /\ Runs \subseteq Phase
  /\ {"ingest", "append", "look"} \subseteq Runs
  /\ \A stage \in 0 .. 2 : FirstPhase(stage) \in {"ingest", "append", "look"}
<1>1. \A stage \in 0 .. 2 : FirstPhase(stage) \in {"ingest", "append", "look"}
  BY DEF FirstPhase
<1>2. {"ingest", "append", "look"} \subseteq Runs
  BY DEF Runs, Asynchronous, Synchronous
<1>3. "none" \notin Runs /\ "idle" \notin Runs /\ "ended" \notin Runs
  BY DEF Runs, Asynchronous, Synchronous
<1> QED  BY <1>1, <1>2, <1>3 DEF Runs, Phase

\* An entry of the queue is written.
LEMMA EntryWritten ==
  ASSUME NEW s \in Work, NEW k \in Key, NEW e \in Entry
  PROVE  LET t == [s EXCEPT !.me.entry[k] = e] IN
         /\ t \in Work /\ t.row = s.row /\ t.dead = s.dead
         /\ t.me \in Queue /\ t.me.status = s.me.status /\ t.me.blocked = s.me.blocked
         /\ t.me.drain = s.me.drain /\ t.me.recovery = s.me.recovery /\ t.me.awaited = s.me.awaited
         /\ t.me.entry[k] = e /\ \A j \in Key : j # k => t.me.entry[j] = s.me.entry[j]
<1> DEFINE x == [s.me EXCEPT !.entry[k] = e]
<1>1. /\ s.me \in Queue /\ s.me.entry \in [Key -> Entry]
  BY WorkFields
<1>2. /\ x \in Queue /\ x.status = s.me.status /\ x.blocked = s.me.blocked
      /\ x.drain = s.me.drain /\ x.recovery = s.me.recovery /\ x.awaited = s.me.awaited
      /\ x.entry[k] = e /\ \A j \in Key : j # k => x.entry[j] = s.me.entry[j]
  BY <1>1 DEF Queue
<1> DEFINE t == [s EXCEPT !.me.entry[k] = e]
<1>3. t = [s EXCEPT !.me = x]
  BY DEF Work
<1> HIDE DEF x, t
<1>4. t \in Work /\ t.row = s.row /\ t.dead = s.dead /\ t.me = x
  BY <1>2, <1>3 DEF Work
<1> QED  BY <1>2, <1>4 DEF t

\* A flag of the queue is written.
LEMMA QueueWritten ==
  ASSUME NEW s \in Work, NEW x \in Queue
  PROVE  LET t == [s EXCEPT !.me = x] IN
         t \in Work /\ t.row = s.row /\ t.dead = s.dead /\ t.me = x
  BY DEF Work

LEMMA NotifyStays ==
  ASSUME NEW p, NEW s \in Work
  PROVE  /\ Notify(s) \in After(p, s) /\ Notify(s).row = s.row /\ Notify(s).dead = s.dead
         /\ Notify(s).me.entry = s.me.entry /\ Notify(s).me.blocked = s.me.blocked
         /\ Notify(s).me.status = s.me.status
<1> DEFINE x == [s.me EXCEPT !.drain = "again"]
           t == [s EXCEPT !.me = x]
<1>1. s.me \in Queue
  BY WorkFields
<1>2. /\ x \in Queue /\ x.entry = s.me.entry /\ x.status = s.me.status /\ x.blocked = s.me.blocked
  BY <1>1 DEF Queue
<1>3. [s EXCEPT !.me.drain = "again"] = t
  BY DEF Work
<1>4. t \in Work /\ t.row = s.row /\ t.dead = s.dead /\ t.me = x
  <2> HIDE DEF x
  <2> QED  BY <1>2, QueueWritten
<1>5. Notify(s) \in {s, t}
  BY <1>3 DEF Notify
<1> HIDE DEF t, x
<1>6. t \in After(p, s)
  BY <1>2, <1>4, Bookkeeping DEF Same
<1> QED  BY <1>2, <1>4, <1>5, <1>6, Staying

LEMMA ScheduleStays ==
  ASSUME NEW p, NEW s \in Work
  PROVE  /\ ScheduleRecovery(s) \in After(p, s)
         /\ ScheduleRecovery(s).row = s.row /\ ScheduleRecovery(s).me.entry = s.me.entry
<1> DEFINE x == [s.me EXCEPT !.recovery = TRUE]
           t == [s EXCEPT !.me = x]
<1>1. s.me \in Queue
  BY WorkFields
<1>2. /\ x \in Queue /\ x.entry = s.me.entry /\ x.status = s.me.status
  BY <1>1 DEF Queue
<1>3. [s EXCEPT !.me.recovery = TRUE] = t
  BY DEF Work
<1>4. t \in Work /\ t.row = s.row /\ t.dead = s.dead /\ t.me = x
  <2> HIDE DEF x
  <2> QED  BY <1>2, QueueWritten
<1>5. ScheduleRecovery(s) \in {s, t}
  BY <1>3 DEF ScheduleRecovery
<1> HIDE DEF t, x
<1>6. t \in After(p, s)
  BY <1>2, <1>4, Bookkeeping DEF Same
<1> QED  BY <1>2, <1>4, <1>5, <1>6, Staying

\* Writing an entry of which nothing begins
LEMMA EntryStays ==
  ASSUME NEW p, NEW s \in Work, NEW k \in Key, NEW e \in Entry,
         e.phase \in Runs => Same(s.me.entry[k], e),
         e.listed => s.me.entry[k].listed \/ s.row[k] # NoRow
  PROVE  [s EXCEPT !.me.entry[k] = e] \in After(p, s)
<1> DEFINE t == [s EXCEPT !.me.entry[k] = e]
<1>1. /\ t \in Work /\ t.row = s.row /\ t.dead = s.dead /\ t.me.status = s.me.status
      /\ t.me.entry[k] = e /\ \A j \in Key : j # k => t.me.entry[j] = s.me.entry[j]
  BY EntryWritten
<1> HIDE DEF t
<1>2. t \in After(p, s)
  BY <1>1, Bookkeeping DEF Same
<1> QED  BY <1>2 DEF t

LEMMA LeavesStays ==
  ASSUME NEW p, NEW s \in Work, NEW k \in Key
  PROVE  LET t == Leaves(s, k) IN
         /\ t \in After(p, s) /\ t \in Work /\ t.row = s.row /\ t.dead = s.dead
         /\ t.me.status = s.me.status /\ t.me.blocked = s.me.blocked
         /\ t.me.entry[k].phase = "ended" /\ ~t.me.entry[k].listed
         /\ \A j \in Key : j # k => t.me.entry[j] = s.me.entry[j]
<1> DEFINE e == [s.me.entry[k] EXCEPT !.phase = "ended", !.listed = FALSE, !.aborted = FALSE]
<1>1. s.me.entry[k] \in Entry /\ s.me.entry \in [Key -> Entry] /\ s.me \in Queue
  BY WorkFields
<1>2. e \in Entry /\ e.phase = "ended" /\ ~e.listed
  BY <1>1, Statuses DEF Entry
<1>3. Leaves(s, k) = [s EXCEPT !.me.entry[k] = e]
  BY <1>1 DEF Leaves, Work, Queue
<1> HIDE DEF e
<1>4. [s EXCEPT !.me.entry[k] = e] \in After(p, s)
  BY <1>2, EntryStays, Statuses
<1> QED  BY <1>2, <1>3, <1>4, EntryWritten

\* A row of the table is written.
LEMMA RowWritten ==
  ASSUME NEW s \in Work, NEW k \in Key, NEW r \in OutputRow \cup {NoRow}
  PROVE  LET x == [s.row EXCEPT ![k] = r] IN
         x \in Rows /\ x[k] = r /\ \A j \in Key : j # k => x[j] = s.row[j]
  BY WorkFields DEF Rows

LEMMA Buried ==
  ASSUME NEW s \in Work, NEW k \in Key
  PROVE  LET t == Bury(s, k) IN
         /\ t \in Work /\ t.me = s.me /\ t.dead = s.dead \cup {k}
         /\ t.row[k] = NoRow /\ \A j \in Key : j # k => t.row[j] = s.row[j]
<1> DEFINE D == s.dead \cup {k}
           x == [s.row EXCEPT ![k] = NoRow]
<1>1. D \in SUBSET Key
  BY WorkFields
<1>2. Bury(s, k) = [s EXCEPT !.row = x, !.dead = D]
  BY DEF Bury, Work
<1>3. NoRow \in OutputRow \cup {NoRow}
  OBVIOUS
<1>4. x \in Rows /\ x[k] = NoRow /\ \A j \in Key : j # k => x[j] = s.row[j]
  BY <1>3, RowWritten
<1>5. D = s.dead \cup {k}
  OBVIOUS
<1> HIDE DEF x, D
<1> QED  BY <1>1, <1>2, <1>4, <1>5 DEF Work

LEMMA BuryStays ==
  ASSUME NEW p, NEW s \in Work, NEW k \in Key, ~Live(s.row[k])
  PROVE  /\ Bury(s, k) \in After(p, s) /\ Bury(s, k) \in Work /\ Bury(s, k).me = s.me
         /\ Bury(s, k).row[k] = NoRow /\ \A j \in Key : j # k => Bury(s, k).row[j] = s.row[j]
<1> DEFINE t == Bury(s, k)
<1>1. /\ t \in Work /\ t.me = s.me /\ t.dead = s.dead \cup {k}
      /\ t.row[k] = NoRow /\ \A j \in Key : j # k => t.row[j] = s.row[j]
  BY Buried
<1> HIDE DEF t
<1>2. ASSUME NEW j \in Key
      PROVE  /\ RowGoesOn(p, s.row[j], t.row[j])
             /\ s.row[j] # NoRow => t.row[j] # NoRow \/ j \in t.dead
             /\ EntryGoesOn(p, s.row[j], t.row[j], s.me.entry[j], t.me.entry[j])
  <2>1. CASE j = k
    <3>1. ~Live(NoRow) /\ \A a : ~Holds(NoRow, s.me.entry[k].id, p, a)
      BY DEF Live, Holds, IsRow
    <3> QED  BY <1>1, <2>1, <3>1 DEF RowGoesOn, EntryGoesOn, Same
  <2>2. CASE j # k
    <3>1. s.row[j] # NoRow => s.row[j].attempts \in Nat
      BY WorkFields, JobAssumption DEF OutputRow
    <3> QED  BY <1>1, <2>2, <3>1 DEF RowGoesOn, EntryGoesOn, Same
  <2> QED  BY <2>1, <2>2
<1>3. t \in After(p, s)
  BY <1>1, <1>2 DEF After, GoesOn
<1> QED  BY <1>1, <1>3 DEF t

LEMMA MissStays ==
  ASSUME NEW p, NEW s \in Work, NEW k \in Key
  PROVE  /\ ClaimMiss(s, k) \in After(p, s) /\ ClaimMiss(s, k).row = s.row
         /\ \A j \in Key : j # k => ClaimMiss(s, k).me.entry[j] = s.me.entry[j]
<1> DEFINE e == s.me.entry[k]
           t == Leaves(s, k)
           B == IF IsRow(s.row[k], e.id) THEN t.me.blocked \cup {<<k, e.id>>} ELSE t.me.blocked
           x == [t.me EXCEPT !.blocked = B]
           u == [t EXCEPT !.me = x]
<1>1. /\ t \in After(p, s) /\ t \in Work /\ t.row = s.row
      /\ \A j \in Key : j # k => t.me.entry[j] = s.me.entry[j]
  BY LeavesStays
<1>2. e.id \in Nat
  BY WorkFields DEF Entry
<1>3. ClaimMiss(s, k) = ScheduleRecovery(Notify(u))
  <2>1. u = [Leaves(s, k) EXCEPT
               !.me.blocked = IF IsRow(s.row[k], e.id) THEN @ \cup {<<k, e.id>>} ELSE @]
    BY <1>1 DEF Work
  <2> HIDE DEF u
  <2> QED  BY <2>1 DEF ClaimMiss, Then
<1> HIDE DEF t, e
<1>4. B \in SUBSET (Key \X Nat)
  BY <1>1, <1>2, WorkFields
<1> HIDE DEF B
<1>5. x \in Queue /\ x.entry = t.me.entry /\ x.status = t.me.status
  BY <1>1, <1>4, WorkFields DEF Queue
<1> HIDE DEF x
<1>6. u \in Work /\ u.row = t.row /\ u.dead = t.dead /\ u.me = x
  BY <1>1, <1>5, QueueWritten
<1> HIDE DEF u
<1>7. u \in After(p, t)
  BY <1>1, <1>5, <1>6, Bookkeeping DEF Same
<1>8. /\ Notify(u) \in After(p, u) /\ Notify(u) \in Work /\ Notify(u).row = u.row
      /\ Notify(u).me.entry = u.me.entry
  BY <1>6, NotifyStays DEF After
<1>9. /\ ScheduleRecovery(Notify(u)) \in After(p, Notify(u))
      /\ ScheduleRecovery(Notify(u)).row = Notify(u).row
      /\ ScheduleRecovery(Notify(u)).me.entry = Notify(u).me.entry
  BY <1>8, ScheduleStays
<1> QED  BY <1>1, <1>3, <1>5, <1>6, <1>7, <1>8, <1>9, GoingOn

LEMMA ClaimingRow ==
  ASSUME NEW r \in OutputRow, NEW p \in Process, NEW deferred \in BOOLEAN,
         Recoverable(r, deferred), ~Exhausted(r)
  PROVE  /\ Claimed(r, p) \in OutputRow /\ Claimed(r, p).id = r.id
         /\ Claimed(r, p).stage = r.stage /\ Claimed(r, p).worker = p
         /\ Claimed(r, p).state = "running" /\ ~Claimed(r, p).expired
         /\ Claimed(r, p).attempts = r.attempts + 1 /\ r.attempts \in Nat /\ ~Live(r)
<1>1. Recoverable(r, TRUE)
  BY DEF Recoverable
<1>2. r.attempts \in 0 .. MaxAttempts /\ ~(r.attempts >= MaxAttempts)
  BY <1>1 DEF Exhausted, OutputRow
<1>3. r.attempts \in Nat /\ r.attempts + 1 \in 0 .. MaxAttempts
  BY <1>2, JobAssumption
<1>4. ~Live(r)
  BY DEF Recoverable, Live
<1> QED  BY <1>3, <1>4 DEF Claimed, OutputRow

LEMMA BeginStays ==
  ASSUME NEW s \in Work, NEW p \in Process, NEW k \in Key, NEW forced \in BOOLEAN
  PROVE  LET t == Begin(s, p, k, forced) IN
         t \in After(p, s) /\ \A j \in Key : j # k => t.row[j] = s.row[j]
<1> DEFINE e == s.me.entry[k]
           r == s.row[k]
<1>0. e \in Entry /\ (r # NoRow => r \in OutputRow)
  BY WorkFields
<1>1. CASE IsRow(r, e.id) /\ Exhausted(r)
  <2>1. Begin(s, p, k, forced) = ClaimMiss(Bury(s, k), k)
    BY <1>1 DEF Begin, Then
  <2>2. ~Live(r)
    BY <1>1 DEF Exhausted, Recoverable, Live
  <2>3. /\ Bury(s, k) \in After(p, s) /\ Bury(s, k) \in Work
        /\ \A j \in Key : j # k => Bury(s, k).row[j] = s.row[j]
    BY <2>2, BuryStays
  <2>4. /\ ClaimMiss(Bury(s, k), k) \in After(p, Bury(s, k))
        /\ ClaimMiss(Bury(s, k), k).row = Bury(s, k).row
    BY <2>3, MissStays
  <2> QED  BY <2>1, <2>3, <2>4, GoingOn
<1>2. CASE IsRow(r, e.id) /\ ~Exhausted(r) /\ Recoverable(r, forced)
  <2> DEFINE q == Claimed(r, p)
             f == [e EXCEPT !.phase = FirstPhase(r.stage), !.stage = r.stage,
                            !.claim = r.attempts + 1, !.timer = FALSE, !.force = FALSE]
             x == [s.row EXCEPT ![k] = q]
             t == [s EXCEPT !.row = x, !.dead = s.dead]
             u == [t EXCEPT !.me.entry[k] = f]
  <2>1. r \in OutputRow /\ r.id = e.id
    BY <1>0, <1>2 DEF IsRow
  <2>2. /\ q \in OutputRow /\ q.id = r.id /\ q.stage = r.stage /\ q.worker = p
        /\ q.state = "running" /\ ~q.expired /\ q.attempts = r.attempts + 1
        /\ r.attempts \in Nat /\ ~Live(r)
    BY <1>2, <2>1, ClaimingRow
  <2>3. r.stage \in 0 .. 2
    BY <2>1 DEF OutputRow
  <2>4. f \in Entry /\ f.id = e.id /\ f.phase = FirstPhase(r.stage) /\ f.stage = r.stage
        /\ f.claim = r.attempts + 1 /\ f.listed = e.listed
    <3>1. FirstPhase(r.stage) \in Phase /\ r.attempts + 1 \in Nat
      BY <2>2, <2>3, Statuses
    <3> QED  BY <1>0, <2>3, <3>1 DEF Entry
  <2>5. Begin(s, p, k, forced) = u
    <3>1. Begin(s, p, k, forced) =
            [s EXCEPT !.row[k] = q,
                      !.me.entry[k] = [e EXCEPT !.phase = FirstPhase(r.stage),
                                                !.stage = r.stage, !.claim = r.attempts + 1,
                                                !.timer = FALSE, !.force = FALSE]]
      BY <1>2 DEF Begin
    <3> HIDE DEF q
    <3>2. t = [s EXCEPT !.row[k] = q]
      BY DEF Work
    <3> QED  BY <3>1, <3>2
  <2> HIDE DEF q, f
  <2>6. /\ t \in Work /\ t.me = s.me /\ t.dead = s.dead
        /\ t.row[k] = q /\ \A j \in Key : j # k => t.row[j] = s.row[j]
    <3>1. q \in OutputRow \cup {NoRow} /\ s.dead \in SUBSET Key
      BY <2>2, WorkFields
    <3>2. x \in Rows /\ x[k] = q /\ \A j \in Key : j # k => x[j] = s.row[j]
      BY <3>1, RowWritten
    <3> HIDE DEF x
    <3> QED  BY <3>1, <3>2 DEF Work
  <2> HIDE DEF t, x
  <2>7. /\ u \in Work /\ u.row = t.row /\ u.dead = t.dead /\ u.me.status = t.me.status
        /\ u.me.entry[k] = f /\ \A j \in Key : j # k => u.me.entry[j] = t.me.entry[j]
    BY <2>4, <2>6, EntryWritten
  <2> HIDE DEF u
  <2>8. Begun(p, q, f)
    <3>1. q # NoRow
      BY <2>2, OutputConstants
    <3> QED  BY <2>1, <2>2, <2>4, <3>1 DEF Begun, Holds, IsRow
  <2>9. ASSUME NEW j \in Key
        PROVE  /\ RowGoesOn(p, s.row[j], u.row[j])
               /\ s.row[j] # NoRow => u.row[j] # NoRow \/ j \in u.dead
               /\ EntryGoesOn(p, s.row[j], u.row[j], s.me.entry[j], u.me.entry[j])
    <3>1. CASE j = k
      <4>1. q # NoRow /\ r # NoRow /\ r.attempts <= q.attempts
        BY <2>2, <1>2, OutputConstants DEF IsRow
      <4> HIDE DEF e
      <4>2. RowGoesOn(p, r, q)
        BY <2>2, <4>1 DEF RowGoesOn
      <4>3. EntryGoesOn(p, r, q, e, f)
        BY <2>4, <2>8, <4>1 DEF EntryGoesOn
      <4> QED  BY <2>6, <2>7, <3>1, <4>1, <4>2, <4>3 DEF e
    <3>2. CASE j # k
      <4>1. s.row[j] # NoRow => s.row[j].attempts \in Nat
        BY WorkFields, JobAssumption DEF OutputRow
      <4> QED  BY <2>6, <2>7, <3>2, <4>1 DEF RowGoesOn, EntryGoesOn, Same
    <3> QED  BY <3>1, <3>2
  <2> QED  BY <2>5, <2>6, <2>7, <2>9 DEF After, GoesOn
<1>3. CASE ~(IsRow(r, e.id) /\ Exhausted(r)) /\ ~(IsRow(r, e.id) /\ ~Exhausted(r) /\ Recoverable(r, forced))
  <2>1. Begin(s, p, k, forced) = ClaimMiss(s, k)
    BY <1>3 DEF Begin
  <2> QED  BY <2>1, MissStays
<1> QED  BY <1>1, <1>2, <1>3

\* pending.set of a job of a row there is, perhaps just inserted
LEMMA AdmitStays ==
  ASSUME NEW p, NEW s \in Work, NEW k \in Key, s.row[k] # NoRow
  PROVE  Admit(s, k) \in After(p, s) /\ Admit(s, k).row = s.row
<1> DEFINE e == [NoEntry EXCEPT !.phase = "idle", !.id = s.row[k].id, !.listed = TRUE]
<1>1. s.row[k].id \in Nat
  BY WorkFields DEF OutputRow
<1>2. NoEntry \in Entry
  BY Statuses DEF NoEntry, Entry
<1>3. e \in Entry /\ e.phase = "idle"
  BY <1>1, <1>2, Statuses DEF Entry
<1>4. Admit(s, k) = [s EXCEPT !.me.entry[k] = e]
  BY DEF Admit
<1> HIDE DEF e
<1> QED  BY <1>3, <1>4, EntryStays, EntryWritten, Statuses

LEMMA RecoverStays ==
  ASSUME NEW s \in Work, NEW p \in Process, NEW k \in Key, s.row[k] # NoRow
  PROVE  LET t == Recover(s, p, k) IN
         t \in After(p, s) /\ \A j \in Key : j # k => t.row[j] = s.row[j]
<1> DEFINE t == Admit(s, k)
           forced == s.me.drain # "no"
<1>1. t \in After(p, s) /\ t.row = s.row /\ t \in Work
  BY AdmitStays DEF After
<1>2. Recover(s, p, k) \in {s, Begin(t, p, k, forced)}
  BY DEF Recover, Then
<1> HIDE DEF t, forced
<1>3. forced \in BOOLEAN
  BY DEF forced
<1>4. /\ Begin(t, p, k, forced) \in After(p, t)
      /\ \A j \in Key : j # k => Begin(t, p, k, forced).row[j] = t.row[j]
  BY <1>1, <1>3, BeginStays
<1>5. Begin(t, p, k, forced) \in After(p, s)
  BY <1>1, <1>4, GoingOn
<1> QED  BY <1>1, <1>2, <1>4, <1>5, Staying

LEMMA AttemptStays ==
  ASSUME NEW s \in Work, NEW p \in Process, NEW k \in Key
  PROVE  Attempt(s, p, k) \in After(p, s)
<1> DEFINE e == [s.me.entry[k] EXCEPT !.force = TRUE, !.timer = FALSE]
<1>1. e \in Entry /\ Same(s.me.entry[k], e) /\ e.listed = s.me.entry[k].listed
  <2>1. s.me.entry[k] \in Entry
    BY WorkFields
  <2> QED  BY <2>1 DEF Entry, Same
<1>2. [s EXCEPT !.me.entry[k] = [@ EXCEPT !.force = TRUE, !.timer = FALSE]]
        = [s EXCEPT !.me.entry[k] = e]
  BY WorkFields DEF Work, Queue
<1> HIDE DEF e
<1>3. [s EXCEPT !.me.entry[k] = e] \in After(p, s)
  BY <1>1, EntryStays
<1>4. Begin(s, p, k, TRUE) \in After(p, s)
  BY BeginStays
<1> QED  BY <1>2, <1>3, <1>4 DEF Attempt

LEMMA FlushStays ==
  ASSUME NEW s \in Work, NEW p \in Process
  PROVE  Flush(s, p) \in After(p, s)
<1>1. Listed(s.me) \in SUBSET Key
  BY DEF Listed
<1>2. ASSUME NEW t \in After(p, s), NEW k \in Listed(s.me)
      PROVE  Attempt(t, p, k) \in After(p, s)
  <2>1. t \in Work
    BY DEF After
  <2>2. Attempt(t, p, k) \in After(p, t)
    BY <1>1, <2>1, AttemptStays
  <2> QED  BY <2>2, GoingOn
<1>3. s \in After(p, s)
  BY Staying
<1> HIDE DEF After
<1>4. FlushLoop(Listed(s.me), s, p) \in After(p, s)
  BY <1>1, <1>2, <1>3, FlushLoops
<1>5. Flush(s, p) = FlushLoop(Listed(s.me), s, p)
  BY DEF Flush, FlushLoop
<1> QED  BY <1>4, <1>5

LEMMA FoundIsThere ==
  ASSUME NEW s
  PROVE  Found(s) \in SUBSET Key /\ \A k \in Found(s) : s.row[k] # NoRow
  BY DEF Found, Recoverable

LEMMA PumpStays ==
  ASSUME NEW s \in Work, NEW p \in Process
  PROVE  PumpRecovery(s, p) \in After(p, s)
<1> DEFINE K == Found(s)
           s0 == IF K = {} THEN s ELSE Notify(s)
           T == [D \in SUBSET K |-> {t \in After(p, s) : \A k \in K \ D : t.row[k] = s.row[k]}]
           u == PumpLoop(K, s0, p)
<1>1. K \in SUBSET Key /\ \A k \in K : s.row[k] # NoRow
  BY FoundIsThere
<1>2. s0 \in After(p, s) /\ s0.row = s.row
  BY Staying, NotifyStays
<1> HIDE DEF K, s0
<1>3. s0 \in T[{}]
  BY <1>2
<1>4. ASSUME NEW D \in SUBSET K, D # {}, NEW t \in T[D \ {Choice(D)}]
      PROVE  Recover(t, p, Choice(D)) \in T[D]
  <2>1. Choice(D) \in D /\ Choice(D) \in K /\ Choice(D) \in Key
    BY <1>1, <1>4, ChoiceIsThere
  <2>2. t \in After(p, s) /\ \A k \in K \ (D \ {Choice(D)}) : t.row[k] = s.row[k]
    BY <2>1
  <2>3. t \in Work /\ t.row[Choice(D)] # NoRow
    BY <1>1, <2>1, <2>2 DEF After
  <2>4. /\ Recover(t, p, Choice(D)) \in After(p, t)
        /\ \A j \in Key : j # Choice(D) => Recover(t, p, Choice(D)).row[j] = t.row[j]
    BY <2>1, <2>3, RecoverStays
  <2>5. Recover(t, p, Choice(D)) \in After(p, s)
    BY <2>2, <2>4, GoingOn
  <2>6. \A k \in K \ D : Recover(t, p, Choice(D)).row[k] = s.row[k]
    BY <1>1, <2>1, <2>2, <2>4
  <2> QED  BY <2>5, <2>6
<1>5. u \in T[K]
  <2> HIDE DEF T
  <2> QED  BY <1>1, <1>3, <1>4, PumpLoops
<1>6. u \in After(p, s) /\ u \in Work
  <2> HIDE DEF u
  <2> QED  BY <1>5 DEF After
<1>7. PumpRecovery(s, p) \in {s, ScheduleRecovery(u)}
  BY DEF PumpRecovery, Then, PumpLoop, K, s0
<1> HIDE DEF u
<1>8. ScheduleRecovery(u) \in After(p, u)
  BY <1>6, ScheduleStays
<1> QED  BY <1>6, <1>7, <1>8, GoingOn, Staying

\* The queue is written, and nothing begins.
LEMMA QueueStays ==
  ASSUME NEW p, NEW s \in Work, NEW x \in Queue, x.status = s.me.status,
         \A k \in Key : /\ x.entry[k].phase \in Runs => Same(s.me.entry[k], x.entry[k])
                        /\ x.entry[k].listed => s.me.entry[k].listed \/ s.row[k] # NoRow
  PROVE  [s EXCEPT !.me = x] \in After(p, s) /\ [s EXCEPT !.me = x] \in Work
<1> DEFINE t == [s EXCEPT !.me = x]
<1>1. t \in Work /\ t.row = s.row /\ t.dead = s.dead /\ t.me = x
  BY QueueWritten
<1> HIDE DEF t
<1>2. t \in After(p, s)
  BY <1>1, Bookkeeping
<1> QED  BY <1>1, <1>2 DEF t

LEMMA FlagStays ==
  ASSUME NEW p, NEW s \in Work, NEW x \in Queue, x.status = s.me.status, x.entry = s.me.entry
  PROVE  [s EXCEPT !.me = x] \in After(p, s) /\ [s EXCEPT !.me = x] \in Work
  BY QueueStays DEF Same

LEMMA BuryingStays ==
  ASSUME NEW p, NEW s \in Work
  PROVE  BuryExhausted(s) \in After(p, s)
<1> DEFINE spent == {k \in Key : Exhausted(s.row[k])}
           x == [k \in Key |-> IF k \in spent THEN NoRow ELSE s.row[k]]
           D == s.dead \cup spent
           t == [s EXCEPT !.row = x, !.dead = D]
<1>1. BuryExhausted(s) = t
  BY DEF BuryExhausted
<1>2. /\ x \in Rows /\ D \in SUBSET Key
      /\ \A k \in Key : x[k] = IF k \in spent THEN NoRow ELSE s.row[k]
  BY WorkFields DEF Rows
<1>3. \A k \in spent : k \in Key /\ ~Live(s.row[k])
  BY DEF Exhausted, Recoverable, Live
<1> HIDE DEF x, spent
<1>4. t \in Work /\ t.me = s.me /\ t.dead = s.dead \cup spent /\ t.row = x
  <2>1. D = s.dead \cup spent
    OBVIOUS
  <2> HIDE DEF D
  <2> QED  BY <1>2, <2>1 DEF Work
<1> HIDE DEF t
<1>5. ASSUME NEW j \in Key
      PROVE  /\ RowGoesOn(p, s.row[j], t.row[j])
             /\ s.row[j] # NoRow => t.row[j] # NoRow \/ j \in t.dead
             /\ EntryGoesOn(p, s.row[j], t.row[j], s.me.entry[j], t.me.entry[j])
  <2>1. CASE j \in spent
    <3>1. ~Live(NoRow) /\ \A a : ~Holds(NoRow, s.me.entry[j].id, p, a)
      BY DEF Live, Holds, IsRow
    <3>2. t.row[j] = NoRow /\ ~Live(s.row[j]) /\ j \in t.dead
      BY <1>2, <1>3, <1>4, <2>1
    <3> QED  BY <1>4, <3>1, <3>2 DEF RowGoesOn, EntryGoesOn, Same
  <2>2. CASE j \notin spent
    <3>1. s.row[j] # NoRow => s.row[j].attempts \in Nat
      BY WorkFields, JobAssumption DEF OutputRow
    <3>2. t.row[j] = s.row[j]
      BY <1>2, <1>4, <2>2
    <3> QED  BY <1>4, <3>1, <3>2 DEF RowGoesOn, EntryGoesOn, Same
  <2> QED  BY <2>1, <2>2
<1> QED  BY <1>1, <1>4, <1>5 DEF After, GoesOn

LEMMA WaitsStays ==
  ASSUME NEW p, NEW s \in Work
  PROVE  Waits(s) \in After(p, s)
<1> DEFINE x == [s.me EXCEPT !.drain = "no"]
<1>1. x \in Queue /\ x.status = s.me.status /\ x.entry = s.me.entry
  BY WorkFields DEF Queue
<1>2. [s EXCEPT !.me.drain = "no"] = [s EXCEPT !.me = x]
  BY DEF Work
<1> HIDE DEF x
<1>3. [s EXCEPT !.me = x] \in After(p, s)
  BY <1>1, FlagStays
<1> QED  BY <1>2, <1>3, ScheduleStays DEF Waits

LEMMA DrainStays ==
  ASSUME NEW s \in Work, NEW p \in Process
  PROVE  DrainTurn(s, p) \in After(p, s)
<1> DEFINE x == [s.me EXCEPT !.drain = "change"]
           a == [s EXCEPT !.me = x]
           b == Flush(a, p)
           c == PumpRecovery(b, p)
           executing == {k \in Listed(c.me) : c.me.entry[k].phase # "idle"}
           y == [c.me EXCEPT !.drain = "executions", !.awaited = executing]
           d == BuryExhausted(c)
<1>1. x \in Queue /\ x.status = s.me.status /\ x.entry = s.me.entry
  BY WorkFields DEF Queue
<1>2. [s EXCEPT !.me.drain = "change"] = a
  BY DEF Work
<1>3. DrainTurn(s, p) \in {[c EXCEPT !.me = y], Waits(d)}
  <2>1. Flush([s EXCEPT !.me.drain = "change"], p) = b
    BY <1>2
  <2> HIDE DEF b
  <2>2. DrainTurn(s, p) = Then(Then(b, LAMBDA t : PumpRecovery(t, p)), AwaitOrEnd)
    BY <2>1 DEF DrainTurn
  <2>3. Then(b, LAMBDA t : PumpRecovery(t, p)) = c
    BY DEF Then
  <2> HIDE DEF c
  <2>4. Then(c, AwaitOrEnd) = AwaitOrEnd(c)
    BY DEF Then
  <2>5. Then(d, Waits) = Waits(d)
    BY DEF Then
  <2>6. AwaitOrEnd(c) \in {[c EXCEPT !.me = y], Waits(d)}
    BY <2>5 DEF AwaitOrEnd
  <2> QED  BY <2>2, <2>3, <2>4, <2>6
<1> HIDE DEF x
<1>4. a \in After(p, s) /\ a \in Work
  BY <1>1, FlagStays
<1> HIDE DEF a
<1>5. b \in After(p, s) /\ b \in Work
  <2>1. b \in After(p, a)
    BY <1>4, FlushStays
  <2> QED  BY <1>4, <2>1, GoingOn DEF After
<1> HIDE DEF b
<1>6. c \in After(p, s) /\ c \in Work
  <2>1. c \in After(p, b)
    BY <1>5, PumpStays
  <2> QED  BY <1>5, <2>1, GoingOn DEF After
<1> HIDE DEF c
<1>7. [c EXCEPT !.me = y] \in After(p, s)
  <2>1. executing \in SUBSET Key
    BY DEF Listed
  <2> HIDE DEF executing
  <2>2. y \in Queue /\ y.status = c.me.status /\ y.entry = c.me.entry
    BY <1>6, <2>1, WorkFields DEF Queue
  <2> HIDE DEF y
  <2>3. [c EXCEPT !.me = y] \in After(p, c)
    BY <1>6, <2>2, FlagStays
  <2> QED  BY <1>6, <2>3, GoingOn
<1>8. d \in After(p, s) /\ d \in Work
  <2>1. d \in After(p, c)
    BY <1>6, BuryingStays
  <2> QED  BY <1>6, <2>1, GoingOn DEF After
<1> HIDE DEF d, y
<1>9. Waits(d) \in After(p, s)
  <2>1. Waits(d) \in After(p, d)
    BY <1>8, WaitsStays
  <2> QED  BY <1>8, <2>1, GoingOn
<1> QED  BY <1>3, <1>7, <1>9

LEMMA AfterAttemptStays ==
  ASSUME NEW s \in Work, NEW p \in Process, NEW k \in Key
  PROVE  AfterAttempt(s, p, k) \in After(p, s)
<1> DEFINE e == s.me.entry[k]
           over == IF e.listed THEN [e EXCEPT !.phase = "idle"] ELSE NoEntry
           x == [s.me EXCEPT !.awaited = @ \ {k}, !.entry[k] = over]
           a == [s EXCEPT !.me = x]
           t == Notify(a)
           u == IF e.listed /\ e.force THEN Begin(t, p, k, TRUE) ELSE t
<1>1. over \in Entry /\ over.phase \notin Runs /\ (over.listed => e.listed)
  <2>1. NoEntry \in Entry /\ NoEntry.phase \notin Runs /\ ~NoEntry.listed
    BY Statuses DEF NoEntry, Entry
  <2> QED  BY <2>1, WorkFields, Statuses DEF Entry
<1>2. AfterAttempt(s, p, k) = PumpRecovery(u, p)
  <2>1. AfterAttempt(s, p, k)
          = Then(IF e.listed /\ e.force THEN Then(t, LAMBDA v : Begin(v, p, k, TRUE)) ELSE t,
                 LAMBDA v : PumpRecovery(v, p))
    BY DEF AfterAttempt
  <2> HIDE DEF t, e
  <2>2. Then(t, LAMBDA v : Begin(v, p, k, TRUE)) = Begin(t, p, k, TRUE)
    BY DEF Then
  <2>3. AfterAttempt(s, p, k) = Then(u, LAMBDA v : PumpRecovery(v, p))
    BY <2>1, <2>2
  <2> HIDE DEF u
  <2>4. Then(u, LAMBDA v : PumpRecovery(v, p)) = PumpRecovery(u, p)
    BY DEF Then
  <2> QED  BY <2>3, <2>4
<1> HIDE DEF over, e
<1>3. /\ x \in Queue /\ x.status = s.me.status /\ x.entry[k] = over
      /\ \A j \in Key : j # k => x.entry[j] = s.me.entry[j]
  <2> DEFINE y == [s.me.entry EXCEPT ![k] = over]
             W == s.me.awaited \ {k}
  <2>1. y \in [Key -> Entry] /\ y[k] = over /\ \A j \in Key : j # k => y[j] = s.me.entry[j]
    BY <1>1, WorkFields
  <2>2. s.me \in Queue /\ W \in SUBSET Key
    BY WorkFields DEF Queue
  <2>3. x = [s.me EXCEPT !.awaited = W, !.entry = y]
    BY <2>2 DEF Queue
  <2> HIDE DEF x, y, W
  <2> QED  BY <2>1, <2>2, <2>3 DEF Queue
<1> HIDE DEF x
<1>4. a \in After(p, s) /\ a \in Work
  <2>1. \A j \in Key : /\ x.entry[j].phase \in Runs => Same(s.me.entry[j], x.entry[j])
                       /\ x.entry[j].listed => s.me.entry[j].listed \/ s.row[j] # NoRow
    BY <1>1, <1>3 DEF Same, e
  <2> QED  BY <1>3, <2>1, QueueStays
<1> HIDE DEF a
<1>5. t \in After(p, s) /\ t \in Work
  <2>1. t \in After(p, a)
    BY <1>4, NotifyStays
  <2> QED  BY <1>4, <2>1, GoingOn DEF After
<1> HIDE DEF t
<1>6. u \in After(p, s) /\ u \in Work
  <2>1. Begin(t, p, k, TRUE) \in After(p, t)
    BY <1>5, BeginStays
  <2>2. Begin(t, p, k, TRUE) \in After(p, s)
    BY <1>5, <2>1, GoingOn
  <2> QED  BY <1>5, <2>2 DEF After
<1> HIDE DEF u
<1>7. PumpRecovery(u, p) \in After(p, u)
  BY <1>6, PumpStays
<1> QED  BY <1>2, <1>6, <1>7, GoingOn

-----------------------------------------------------------------------------
(* What fits goes on fitting                                                 *)

Grows(x, y) ==
  /\ x.history \subseteq y.history /\ x.stream \subseteq y.stream
  /\ x.receipts \subseteq y.receipts /\ x.cut \subseteq y.cut
  /\ \A k \in Key : x.sent[k] > 0 => y.sent[k] > 0
  /\ \A k \in Key : x.handed[k] > 0 => y.handed[k] > 0

LEMMA RowGrows ==
  ASSUME NEW k \in Key, NEW r, NEW d, NEW D, d \subseteq D, NEW x, NEW y, Grows(x, y),
         RowFits(k, r, d, x), y.handed[k] > 0 => x.handed[k] > 0
  PROVE  RowFits(k, r, D, y)
  BY DEF RowFits, Grows

LEMMA EntryGrows ==
  ASSUME NEW p, NEW k \in Key, NEW r, NEW e, NEW x, NEW y, Grows(x, y), EntryFits(p, k, r, e, x),
         k \in y.receipts \ (x.receipts \cup y.cut) => e.phase \notin {"fetch", "receipt"}
  PROVE  EntryFits(p, k, r, e, y)
<1>1. Written(k, e, y)
  BY DEF EntryFits, Written, Grows
<1>2. Claims(p, k, r, e, y)
  BY DEF EntryFits, Claims, Grows
<1> QED  BY <1>1, <1>2 DEF EntryFits, Grows

\* The handlers that begin attempts keep what fits.
LEMMA AfterRowFits ==
  ASSUME NEW k \in Key, NEW p, NEW r, NEW q, NEW d, NEW D, d \subseteq D, NEW x,
         RowFits(k, r, d, x), RowGoesOn(p, r, q), r # NoRow => q # NoRow \/ k \in D
  PROVE  RowFits(k, q, D, x)
  BY DEF RowFits, RowGoesOn

LEMMA AfterEntryFits ==
  ASSUME NEW k \in Key, NEW p, NEW r \in OutputRow \cup {NoRow}, NEW q \in OutputRow \cup {NoRow},
         NEW d, NEW e, NEW f, NEW x,
         RowFits(k, r, d, x), RowGoesOn(p, r, q),
         EntryFits(p, k, r, e, x), EntryGoesOn(p, r, q, e, f)
  PROVE  EntryFits(p, k, q, f, x)
<1>1. f.listed => x.handed[k] > 0
  BY DEF EntryGoesOn, EntryFits, RowFits
<1>2. CASE f.phase \notin Runs
  <2>1. Written(k, f, x)
    BY <1>2 DEF Written, Runs, Asynchronous, Synchronous
  <2> QED  BY <1>1, <1>2, <2>1 DEF EntryFits, Claims
<1>3. CASE f.phase \in Runs /\ Same(e, f) /\ (Holds(q, f.id, p, f.claim) => q = r)
  <2>1. Written(k, f, x)
    BY <1>3 DEF Same, EntryFits, Written
  <2>2. Holds(r, f.id, p, f.claim) => q = r
    <3>1. Holds(r, f.id, p, f.claim) => Live(r)
      BY DEF Holds, IsRow, Live
    <3> QED  BY <3>1 DEF RowGoesOn
  <2>3. Claims(p, k, r, e, x)
    BY DEF EntryFits
  <2>4. Claims(p, k, q, f, x)
    BY <1>3, <2>2, <2>3 DEF Claims, Same
  <2> QED  BY <1>1, <2>1, <2>4 DEF EntryFits
<1>4. CASE Begun(p, q, f)
  <2>1. q # NoRow /\ q \in OutputRow /\ q.stage \in 0 .. 2
    BY <1>4 DEF Begun, Holds, IsRow, OutputRow
  <2>2. /\ q.stage >= 1 => k \in x.history
        /\ q.stage >= 2 => k \in x.stream
    BY <2>1 DEF RowFits, RowGoesOn
  <2>3. /\ f.phase = FirstPhase(q.stage) /\ f.stage = q.stage /\ Holds(q, f.id, p, f.claim)
    BY <1>4 DEF Begun
  <2>4. \/ q.stage = 0 /\ f.phase = "ingest"
        \/ q.stage = 1 /\ f.phase = "append"
        \/ q.stage = 2 /\ f.phase = "look"
    BY <2>1, <2>3 DEF FirstPhase
  <2>5. Written(k, f, x)
    BY <2>2, <2>3, <2>4 DEF Written, Synchronous
  <2>6. Claims(p, k, q, f, x)
    <3>1. f.phase \notin {"fetch", "receipt"} /\ q.stage <= f.stage
      BY <2>1, <2>3, <2>4
    <3> QED  BY <2>3, <3>1 DEF Claims
  <2> QED  BY <1>1, <2>5, <2>6 DEF EntryFits
<1> QED  BY <1>2, <1>3, <1>4 DEF EntryGoesOn

\* What a step of p makes of a row leaves the claims of the others alone.
OthersKeep(p, r, q) ==
  /\ Live(r) /\ r.worker # p => q = r
  /\ Live(q) => q = r \/ q.worker \in {p, Nobody}

LEMMA OthersGoOn ==
  ASSUME NEW p, NEW a, NEW b, NEW c, OthersKeep(p, a, b), RowGoesOn(p, b, c)
  PROVE  OthersKeep(p, a, c)
  BY DEF OthersKeep, RowGoesOn, Live

LEMMA OtherFits ==
  ASSUME NEW p \in Process, NEW o \in Process, o # p, NEW k \in Key, NEW r, NEW q, NEW e,
         NEW x, NEW y, Grows(x, y), EntryFits(o, k, r, e, x), OthersKeep(p, r, q),
         k \in y.receipts \ (x.receipts \cup y.cut) => Live(r) /\ r.worker = p
  PROVE  EntryFits(o, k, q, e, y)
<1>1. Holds(r, e.id, o, e.claim) => Live(r) /\ r.worker # p
  BY DEF Holds, IsRow, Live
<1>2. Holds(q, e.id, o, e.claim) <=> Holds(r, e.id, o, e.claim)
  <2>1. Holds(r, e.id, o, e.claim) => q = r
    BY <1>1 DEF OthersKeep
  <2>2. Holds(q, e.id, o, e.claim) => Live(q) /\ q.worker = o
    BY DEF Holds, IsRow, Live
  <2>3. o \notin {p, Nobody}
    BY OutputConstants
  <2> QED  BY <2>1, <2>2, <2>3 DEF OthersKeep
<1>3. Holds(r, e.id, o, e.claim) => q = r
  BY <1>1 DEF OthersKeep
<1>4. EntryFits(o, k, q, e, x)
  BY <1>2, <1>3 DEF EntryFits, Claims
<1>5. k \in y.receipts \ (x.receipts \cup y.cut) => e.phase \notin {"fetch", "receipt"}
  <2> SUFFICES ASSUME k \in y.receipts \ (x.receipts \cup y.cut), e.phase \in {"fetch", "receipt"}
               PROVE  FALSE
    OBVIOUS
  <2>1. k \notin x.cut \cup x.receipts /\ e.phase \in Runs
    BY DEF Grows, Runs, Asynchronous, Synchronous
  <2>2. Holds(r, e.id, o, e.claim)
    BY <2>1 DEF EntryFits, Claims
  <2> QED  BY <1>1, <2>2
<1> QED  BY <1>4, <1>5, EntryGrows

LEMMA NowIsKnown ==
  ASSUME Typed
  PROVE  /\ Now \in Facts
         /\ \A p \in Process : Here(p) \in Work /\ Here(p).row = row /\ Here(p).dead = dead
                               /\ Here(p).me = proc[p]
  BY DEF Typed, Now, Facts, Here, Work

\* What a step of the process p has to do for the invariant to go on.
LEMMA Keeps ==
  ASSUME OutputInv, NEW p \in Process, NEW t \in Work, Commit(p, t),
         NEW y \in Facts, y = Now', Grows(Now, y),
         ended' \in 0 .. Ends, lapsed' \in 0 .. Lapses,
         t.me.status = "down" => t.me = Fresh,
         \A k \in Key :
           /\ RowFits(k, t.row[k], t.dead, y) /\ EntryFits(p, k, t.row[k], t.me.entry[k], y)
           /\ OthersKeep(p, row[k], t.row[k]) /\ SentFits(k, y)
           /\ k \in y.receipts \ (receipts \cup y.cut) => Live(row[k]) /\ row[k].worker = p
           /\ (y.sent[k] > 0 /\ k \notin y.receipts \cup y.cut) =>
                \/ t.me.entry[k].phase = "receipt"
                \/ \E o \in Process : o # p /\ proc[o].entry[k].phase = "receipt"
  PROVE  OutputInv'
<1>0. Typed /\ Now \in Facts
  BY NowIsKnown DEF OutputInv
<1>1. /\ row' = t.row /\ dead' = t.dead /\ proc' \in [Process -> Queue] /\ proc'[p] = t.me
      /\ \A o \in Process : o # p => proc'[o] = proc[o]
  BY <1>0, WorkFields DEF Commit, Typed
<1>2. /\ history' = y.history /\ stream' = y.stream /\ receipts' = y.receipts
      /\ sent' = y.sent /\ handed' = y.handed /\ cut' = y.cut
  BY DEF Now
<1>3. Typed'
  BY <1>1, <1>2, WorkFields DEF Typed, Facts
<1>4. DownIsFresh'
  BY <1>1 DEF OutputInv, DownIsFresh, Fresh
<1>5. ASSUME NEW k \in Key PROVE (RowFits(k, row[k], dead, Now) /\ SentFits(k, Now))'
  BY <1>1
<1>6. ASSUME NEW k \in Key PROVE AtReceipt(k)'
  BY <1>1, <1>2 DEF AtReceipt
<1>7. ASSUME NEW o \in Process, NEW k \in Key
      PROVE  EntryFits(o, k, row[k], proc[o].entry[k], Now)'
  <2>1. CASE o = p
    BY <1>1, <2>1
  <2>2. CASE o # p
    <3>1. /\ EntryFits(o, k, row[k], proc[o].entry[k], Now) /\ OthersKeep(p, row[k], t.row[k])
          /\ k \in y.receipts \ (Now.receipts \cup y.cut) => Live(row[k]) /\ row[k].worker = p
      BY DEF OutputInv, Now
    <3>2. EntryFits(o, k, t.row[k], proc[o].entry[k], y)
      BY <2>2, <3>1, OtherFits
    <3> QED  BY <1>1, <2>2, <3>2
  <2> QED  BY <2>1, <2>2
<1> QED  BY <1>3, <1>4, <1>5, <1>6, <1>7 DEF OutputInv

LEMMA Handled ==
  ASSUME OutputInv, NEW p \in Process, NEW s \in Work, NEW t \in After(p, s), Commit(p, t),
         NEW y \in Facts, y = Now', Grows(Now, y), y.receipts = receipts, y.sent = sent,
         ended' \in 0 .. Ends, lapsed' \in 0 .. Lapses, s.me.status # "down",
         \A k \in Key :
           /\ RowFits(k, s.row[k], s.dead, y) /\ EntryFits(p, k, s.row[k], s.me.entry[k], y)
           /\ OthersKeep(p, row[k], s.row[k])
           /\ proc[p].entry[k].phase = "receipt" =>
                k \in y.receipts \cup y.cut \/ t.me.entry[k].phase = "receipt"
  PROVE  OutputInv'
<1>1. t \in Work /\ GoesOn(p, s, t) /\ t.me.status # "down" /\ s.dead \subseteq t.dead
  BY DEF After, GoesOn
<1>2. ASSUME NEW k \in Key
      PROVE  /\ RowFits(k, t.row[k], t.dead, y) /\ EntryFits(p, k, t.row[k], t.me.entry[k], y)
             /\ OthersKeep(p, row[k], t.row[k])
  <2>1. /\ RowGoesOn(p, s.row[k], t.row[k]) /\ (s.row[k] # NoRow => t.row[k] # NoRow \/ k \in t.dead)
        /\ EntryGoesOn(p, s.row[k], t.row[k], s.me.entry[k], t.me.entry[k])
    BY <1>1 DEF GoesOn
  <2>2. s.row[k] \in OutputRow \cup {NoRow} /\ t.row[k] \in OutputRow \cup {NoRow}
    BY <1>1, WorkFields
  <2>3. RowFits(k, t.row[k], t.dead, y)
    BY <1>1, <2>1, AfterRowFits
  <2>4. EntryFits(p, k, t.row[k], t.me.entry[k], y)
    BY <2>1, <2>2, AfterEntryFits
  <2>5. OthersKeep(p, row[k], t.row[k])
    BY <2>1, OthersGoOn
  <2> QED  BY <2>3, <2>4, <2>5
<1>3. ASSUME NEW k \in Key
      PROVE  SentFits(k, y)
  <2>1. SentFits(k, Now) /\ Now.receipts = receipts /\ Now.sent = sent
    BY DEF OutputInv, Now
  <2> QED  BY <2>1 DEF SentFits, Grows
<1>4. ASSUME NEW k \in Key, y.sent[k] > 0, k \notin y.receipts \cup y.cut
      PROVE  \/ t.me.entry[k].phase = "receipt"
             \/ \E o \in Process : o # p /\ proc[o].entry[k].phase = "receipt"
  <2>1. sent[k] > 0 /\ k \notin receipts \cup cut
    BY <1>4 DEF Grows, Now
  <2>2. PICK o \in Process : proc[o].entry[k].phase = "receipt"
    BY <2>1 DEF OutputInv, AtReceipt
  <2> QED  BY <1>4, <2>2
<1> HIDE DEF Commit
<1> QED  BY <1>1, <1>2, <1>3, <1>4, Keeps

\* An attempt that is not at its end of an await is not at its receipt.
LEMMA FreeOfReceipts ==
  ASSUME NEW p \in Process, Free(p), NEW k \in Key
  PROVE  proc[p].entry[k].phase # "receipt"
  BY DEF Free, Synchronous

LEMMA GrowsSame ==
  ASSUME NEW x
  PROVE  Grows(x, x)
  BY DEF Grows

LEMMA Unmoved ==
  ASSUME OutputInv, UNCHANGED <<effects, handed, ended, lapsed, cut>>
  PROVE  /\ Now' = Now /\ Now \in Facts
         /\ ended' \in 0 .. Ends /\ lapsed' \in 0 .. Lapses
         /\ Now.receipts = receipts /\ Now.sent = sent /\ Now.cut = cut
         /\ Now.history = history /\ Now.stream = stream /\ Now.handed = handed
  BY NowIsKnown DEF OutputInv, Typed, effects, Now

\* A handler that writes nothing but its queue and the rows
Quietly(p) ==
  /\ Free(p) /\ proc[p].status # "down" /\ \E t \in After(p, Here(p)) : Commit(p, t)
  /\ UNCHANGED <<effects, handed, ended, lapsed, cut>>

LEMMA QuietKeeps ==
  ASSUME OutputInv, NEW p \in Process, Quietly(p)
  PROVE  OutputInv'
<1>1. PICK s : s = Here(p)
  OBVIOUS
<1>2. PICK t \in After(p, s) : Commit(p, t)
  BY <1>1 DEF Quietly
<1>3. /\ Free(p) /\ proc[p].status # "down"
      /\ UNCHANGED <<effects, handed, ended, lapsed, cut>>
  BY DEF Quietly
<1>4. PICK y : y = Now
  OBVIOUS
<1>5. /\ y = Now' /\ y \in Facts /\ Grows(Now, y) /\ y.receipts = receipts /\ y.sent = sent
      /\ ended' \in 0 .. Ends /\ lapsed' \in 0 .. Lapses
  BY <1>4, <1>3, Unmoved, GrowsSame
<1>6. s \in Work /\ s.row = row /\ s.dead = dead /\ s.me = proc[p]
  BY <1>1, NowIsKnown DEF OutputInv
<1>7. ASSUME NEW k \in Key
      PROVE  /\ RowFits(k, s.row[k], s.dead, y) /\ EntryFits(p, k, s.row[k], s.me.entry[k], y)
             /\ OthersKeep(p, row[k], s.row[k])
             /\ proc[p].entry[k].phase # "receipt"
  BY <1>4, <1>6, <1>3, FreeOfReceipts DEF OutputInv, OthersKeep
<1> HIDE DEF Commit
<1> QED  BY <1>5, <1>6, <1>7, <1>2, <1>3, Handled

\* A process with something to do is not down.
LEMMA UpIfBusy ==
  ASSUME OutputInv, NEW p \in Process,
         \/ \E k \in Key : proc[p].entry[k].phase # "none"
         \/ proc[p].recovery \/ proc[p].drain # "no" \/ proc[p].blocked # {}
  PROVE  proc[p].status # "down"
<1> SUFFICES ASSUME proc[p].status = "down" PROVE FALSE
  OBVIOUS
<1>1. proc[p] = Fresh
  BY DEF OutputInv, DownIsFresh
<1>2. \A k \in Key : Fresh.entry[k].phase = "none"
  BY DEF Fresh, NoEntry
<1>3. ~Fresh.recovery /\ Fresh.drain = "no" /\ Fresh.blocked = {}
  BY DEF Fresh
<1> QED  BY <1>1, <1>2, <1>3

LEMMA FinallyQuiet ==
  ASSUME OutputInv, NEW p \in Process, NEW k \in Key, Finally(p, k)
  PROVE  Quietly(p)
<1>1. PICK s \in {Here(p)} : \E t \in {AfterAttempt(s, p, k)} : Commit(p, t)
  BY DEF Finally
<1>2. PICK t \in {AfterAttempt(s, p, k)} : Commit(p, t)
  BY <1>1
<1>3. s \in Work
  BY NowIsKnown DEF OutputInv
<1>4. t \in After(p, s)
  BY <1>3, AfterAttemptStays
<1>5. proc[p].status # "down"
  BY UpIfBusy DEF Finally, In
<1> QED  BY <1>1, <1>2, <1>4, <1>5 DEF Quietly, Finally

LEMMA RetryTimerQuiet ==
  ASSUME OutputInv, NEW p \in Process, NEW k \in Key, RetryTimer(p, k)
  PROVE  Quietly(p)
<1> DEFINE f(s) == [s EXCEPT !.me.entry[k].timer = FALSE]
<1>1. PICK h : h = Here(p)
  OBVIOUS
<1>2. PICK t \in {Begin(Notify(f(h)), p, k, FALSE)} : Commit(p, t)
  BY <1>1 DEF RetryTimer
<1>3. h \in Work
  BY <1>1, NowIsKnown DEF OutputInv
<1>4. f(h) \in After(p, h) /\ f(h) \in Work
  <2> DEFINE e == [h.me.entry[k] EXCEPT !.timer = FALSE]
  <2>1. e \in Entry /\ Same(h.me.entry[k], e) /\ e.listed = h.me.entry[k].listed
    <3>1. h.me.entry[k] \in Entry
      BY <1>3, WorkFields
    <3> QED  BY <3>1 DEF Entry, Same
  <2>2. f(h) = [h EXCEPT !.me.entry[k] = e]
    BY <1>3, WorkFields DEF Work, Queue
  <2> HIDE DEF e
  <2>3. [h EXCEPT !.me.entry[k] = e] \in After(p, h)
    BY <1>3, <2>1, EntryStays
  <2> QED  BY <2>2, <2>3 DEF After
<1> HIDE DEF f
<1>5. Notify(f(h)) \in After(p, h) /\ Notify(f(h)) \in Work
  <2>1. Notify(f(h)) \in After(p, f(h))
    BY <1>4, NotifyStays
  <2> QED  BY <1>3, <1>4, <2>1, GoingOn DEF After
<1>6. t \in After(p, h)
  <2>1. t \in After(p, Notify(f(h)))
    BY <1>5, BeginStays
  <2> QED  BY <1>3, <1>5, <2>1, GoingOn
<1>7. proc[p].status # "down"
  BY UpIfBusy DEF RetryTimer, In
<1> QED  BY <1>1, <1>2, <1>6, <1>7 DEF Quietly, RetryTimer

LEMMA RecoveryTimerQuiet ==
  ASSUME OutputInv, NEW p \in Process, RecoveryTimer(p)
  PROVE  Quietly(p)
<1> DEFINE f(s) == [s EXCEPT !.me.recovery = FALSE]
<1>1. PICK h : h = Here(p)
  OBVIOUS
<1>2. PICK t \in {PumpRecovery(Notify(f(h)), p)} : Commit(p, t)
  BY <1>1 DEF RecoveryTimer
<1>3. h \in Work
  BY <1>1, NowIsKnown DEF OutputInv
<1>4. f(h) \in After(p, h) /\ f(h) \in Work
  <2> DEFINE x == [h.me EXCEPT !.recovery = FALSE]
  <2>1. x \in Queue /\ x.status = h.me.status /\ x.entry = h.me.entry
    BY <1>3, WorkFields DEF Queue
  <2>2. f(h) = [h EXCEPT !.me = x]
    BY <1>3 DEF Work
  <2> HIDE DEF x
  <2>3. [h EXCEPT !.me = x] \in After(p, h) /\ [h EXCEPT !.me = x] \in Work
    BY <1>3, <2>1, FlagStays
  <2> QED  BY <2>2, <2>3
<1> HIDE DEF f
<1>5. Notify(f(h)) \in After(p, h) /\ Notify(f(h)) \in Work
  <2>1. Notify(f(h)) \in After(p, f(h))
    BY <1>4, NotifyStays
  <2> QED  BY <1>3, <1>4, <2>1, GoingOn DEF After
<1>6. t \in After(p, h)
  <2>1. t \in After(p, Notify(f(h)))
    BY <1>5, PumpStays
  <2> QED  BY <1>3, <1>5, <2>1, GoingOn
<1>7. proc[p].status # "down"
  BY UpIfBusy DEF RecoveryTimer
<1> QED  BY <1>1, <1>2, <1>6, <1>7 DEF Quietly, RecoveryTimer

LEMMA DrainQuiet ==
  ASSUME OutputInv, NEW p \in Process, Drain(p) \/ DrainAgain(p)
  PROVE  Quietly(p)
<1>1. PICK s \in {Here(p)} : \E t \in {DrainTurn(s, p)} : Commit(p, t)
  BY DEF Drain, DrainAgain
<1>2. PICK t \in {DrainTurn(s, p)} : Commit(p, t)
  BY <1>1
<1>3. s \in Work
  BY NowIsKnown DEF OutputInv
<1>4. t \in After(p, s)
  BY <1>3, DrainStays
<1>5. proc[p].status # "down" /\ Free(p) /\ UNCHANGED <<effects, handed, ended, lapsed, cut>>
  BY UpIfBusy DEF Drain, DrainAgain
<1> QED  BY <1>1, <1>2, <1>4, <1>5 DEF Quietly

LEMMA HeartbeatQuiet ==
  ASSUME OutputInv, NEW p \in Process, NEW k \in Key, Heartbeat(p, k)
  PROVE  Quietly(p)
<1>1. PICK h : h = Here(p)
  OBVIOUS
<1>2. PICK t \in {[h EXCEPT !.me.entry[k].aborted = TRUE]} : Commit(p, t)
  BY <1>1 DEF Heartbeat
<1>3. h \in Work
  BY <1>1, NowIsKnown DEF OutputInv
<1>4. t \in After(p, h)
  <2> DEFINE e == [h.me.entry[k] EXCEPT !.aborted = TRUE]
  <2>1. e \in Entry /\ Same(h.me.entry[k], e) /\ e.listed = h.me.entry[k].listed
    <3>1. h.me.entry[k] \in Entry
      BY <1>3, WorkFields
    <3> QED  BY <3>1 DEF Entry, Same
  <2>2. t = [h EXCEPT !.me.entry[k] = e]
    BY <1>3, WorkFields DEF Work, Queue
  <2> HIDE DEF e
  <2> QED  BY <1>3, <2>1, <2>2, EntryStays
<1>5. proc[p].status # "down" /\ Free(p) /\ UNCHANGED <<effects, handed, ended, lapsed, cut>>
  BY DEF Heartbeat
<1> QED  BY <1>1, <1>2, <1>4, <1>5 DEF Quietly

-----------------------------------------------------------------------------
(* The steps of a delivery                                                   *)

\* A step about one output
LEMMA OneKey ==
  ASSUME OutputInv, NEW p \in Process, NEW k \in Key, NEW t \in Work, Commit(p, t),
         NEW y \in Facts, y = Now', Grows(Now, y), y.handed = handed,
         y.receipts \subseteq receipts \cup {k},
         \A j \in Key : j # k => y.sent[j] = sent[j],
         ended' \in 0 .. Ends, lapsed' \in 0 .. Lapses, proc[p].status # "down",
         t.me.status = proc[p].status, dead \subseteq t.dead,
         \A j \in Key : j # k => t.row[j] = row[j] /\ t.me.entry[j] = proc[p].entry[j],
         RowFits(k, t.row[k], t.dead, y), EntryFits(p, k, t.row[k], t.me.entry[k], y),
         OthersKeep(p, row[k], t.row[k]), SentFits(k, y),
         k \in y.receipts \ (receipts \cup y.cut) => Live(row[k]) /\ row[k].worker = p,
         \/ y.sent[k] = sent[k] /\ proc[p].entry[k].phase # "receipt"
         \/ k \in y.receipts \cup y.cut \/ t.me.entry[k].phase = "receipt"
  PROVE  OutputInv'
<1>0. /\ Now.receipts = receipts /\ Now.sent = sent /\ Now.cut = cut /\ Now.handed = handed
  BY DEF Now
<1>1. ASSUME NEW j \in Key, j # k
      PROVE  /\ RowFits(j, t.row[j], t.dead, y) /\ EntryFits(p, j, t.row[j], t.me.entry[j], y)
             /\ OthersKeep(p, row[j], t.row[j]) /\ SentFits(j, y)
             /\ j \notin y.receipts \ (receipts \cup y.cut)
  <2>1. /\ RowFits(j, row[j], dead, Now) /\ SentFits(j, Now)
        /\ EntryFits(p, j, row[j], proc[p].entry[j], Now)
        /\ t.row[j] = row[j] /\ t.me.entry[j] = proc[p].entry[j]
    BY <1>1 DEF OutputInv
  <2>2. RowFits(j, t.row[j], t.dead, y)
    BY <1>0, <2>1, RowGrows
  <2>3. j \notin y.receipts \ (receipts \cup y.cut)
    BY <1>1
  <2>4. EntryFits(p, j, t.row[j], t.me.entry[j], y)
    BY <1>0, <2>1, <2>3, EntryGrows
  <2>5. SentFits(j, y)
    BY <1>0, <1>1, <2>1 DEF SentFits, Grows
  <2>6. OthersKeep(p, row[j], t.row[j])
    BY <2>1 DEF OthersKeep
  <2> QED  BY <2>2, <2>3, <2>4, <2>5, <2>6
<1>2. ASSUME NEW j \in Key, y.sent[j] > 0, j \notin y.receipts \cup y.cut
      PROVE  \/ t.me.entry[j].phase = "receipt"
             \/ \E o \in Process : o # p /\ proc[o].entry[j].phase = "receipt"
  <2>1. CASE y.sent[j] = sent[j] /\ (j = k => proc[p].entry[k].phase # "receipt")
    <3>1. sent[j] > 0 /\ j \notin receipts \cup cut
      BY <1>0, <1>2, <2>1 DEF Grows
    <3>2. PICK o \in Process : proc[o].entry[j].phase = "receipt"
      BY <3>1 DEF OutputInv, AtReceipt
    <3> QED  BY <2>1, <3>2
  <2>2. CASE ~(y.sent[j] = sent[j] /\ (j = k => proc[p].entry[k].phase # "receipt"))
    BY <1>2, <2>2
  <2> QED  BY <2>1, <2>2
<1> HIDE DEF Commit
<1> QED  BY <1>1, <1>2, Keeps

\* A running entry goes to its next phase.
InPhase(s, t, k, phase) ==
  /\ t \in Work /\ t.row = s.row /\ t.dead = s.dead /\ t.me.status = s.me.status
  /\ \A j \in Key : j # k => t.me.entry[j] = s.me.entry[j]
  /\ t.me.entry[k].id = s.me.entry[k].id /\ t.me.entry[k].claim = s.me.entry[k].claim
  /\ t.me.entry[k].listed = s.me.entry[k].listed
  /\ t.me.entry[k].phase = phase /\ t.me.entry[k].stage = s.me.entry[k].stage

LEMMA PhaseMoved ==
  ASSUME NEW s \in Work, NEW k \in Key, NEW phase \in Runs, NEW t, t = GoTo(s, k, phase)
  PROVE  InPhase(s, t, k, phase)
<1> DEFINE e == s.me.entry[k]
           f == [e EXCEPT !.phase = phase]
<1>1. e \in Entry /\ phase \in Phase
  BY WorkFields, Statuses
<1>2. /\ f \in Entry /\ f.id = e.id /\ f.claim = e.claim /\ f.listed = e.listed
      /\ f.phase = phase /\ f.stage = e.stage
  BY <1>1 DEF Entry
<1>3. t = [s EXCEPT !.me.entry[k] = f]
  BY WorkFields DEF GoTo, Work, Queue
<1> HIDE DEF f
<1> QED  BY <1>2, <1>3, EntryWritten DEF InPhase

LEMMA StageMoved ==
  ASSUME NEW s \in Work, NEW k \in Key, NEW stage, stage \in 0 .. 2,
         NEW t, t = StageDone(s, k, stage)
  PROVE  /\ t \in Work /\ t.row = s.row /\ t.dead = s.dead /\ t.me.status = s.me.status
         /\ \A j \in Key : j # k => t.me.entry[j] = s.me.entry[j]
         /\ t.me.entry[k].id = s.me.entry[k].id /\ t.me.entry[k].claim = s.me.entry[k].claim
         /\ t.me.entry[k].listed = s.me.entry[k].listed
         /\ t.me.entry[k].phase = "checkpoint" /\ t.me.entry[k].stage = stage
<1> DEFINE e == s.me.entry[k]
           f == [e EXCEPT !.phase = "checkpoint", !.stage = stage]
<1>1. e \in Entry /\ "checkpoint" \in Phase
  BY WorkFields, Statuses DEF Phase, Synchronous
<1>2. /\ f \in Entry /\ f.id = e.id /\ f.claim = e.claim /\ f.listed = e.listed
      /\ f.phase = "checkpoint" /\ f.stage = stage
  BY <1>1 DEF Entry
<1>3. t = [s EXCEPT !.me.entry[k] = f]
  BY WorkFields DEF StageDone, Work, Queue
<1> HIDE DEF f
<1> QED  BY <1>2, <1>3, EntryWritten

LEMMA ClaimsMove ==
  ASSUME NEW p, NEW k \in Key, NEW r \in OutputRow \cup {NoRow}, NEW e \in Entry, NEW f \in Entry,
         NEW x, NEW y, Claims(p, k, r, e, x), Grows(x, y), e.phase \in Runs,
         f.id = e.id, f.claim = e.claim, e.stage <= f.stage,
         k \in y.receipts \ y.cut => f.phase \notin {"fetch", "receipt"}
  PROVE  Claims(p, k, r, f, y)
<1>1. Holds(r, f.id, p, f.claim) => r.stage <= f.stage
  <2> SUFFICES ASSUME Holds(r, f.id, p, f.claim) PROVE r.stage <= f.stage
    OBVIOUS
  <2>1. r.stage <= e.stage
    BY DEF Claims
  <2>2. r \in OutputRow
    BY DEF Holds, IsRow
  <2>3. r.stage \in 0 .. 2 /\ e.stage \in 0 .. 2 /\ f.stage \in 0 .. 2
    BY <2>2 DEF OutputRow, Entry
  <2> QED  BY <2>1, <2>3
<1>2. k \notin y.cut \cup y.receipts => Holds(r, f.id, p, f.claim)
  BY DEF Claims, Grows
<1> QED  BY <1>1, <1>2 DEF Claims

\* What the invariant says of an entry that is being attempted
LEMMA Attempted ==
  ASSUME OutputInv, NEW p \in Process, NEW k \in Key, NEW h, h = Here(p),
         proc[p].entry[k].phase \in Runs
  PROVE  /\ h \in Work /\ h.row = row /\ h.dead = dead /\ h.me = proc[p]
         /\ proc[p].entry[k] \in Entry /\ row[k] \in OutputRow \cup {NoRow}
         /\ RowFits(k, row[k], dead, Now) /\ SentFits(k, Now)
         /\ Written(k, proc[p].entry[k], Now) /\ Claims(p, k, row[k], proc[p].entry[k], Now)
         /\ proc[p].entry[k].listed => Now.handed[k] > 0
         /\ proc[p].status # "down" /\ OthersKeep(p, row[k], row[k])
<1>1. h \in Work /\ h.row = row /\ h.dead = dead /\ h.me = proc[p]
  BY NowIsKnown DEF OutputInv
<1>2. proc[p].entry[k] \in Entry /\ row[k] \in OutputRow \cup {NoRow}
  BY <1>1, WorkFields
<1>3. proc[p].status # "down"
  BY UpIfBusy, Statuses
<1> QED  BY <1>1, <1>2, <1>3 DEF OutputInv, EntryFits, OthersKeep

LEMMA IngestKeeps ==
  ASSUME OutputInv, NEW p \in Process, NEW k \in Key, Ingest(p, k)
  PROVE  OutputInv'
<1> DEFINE e == proc[p].entry[k]
<1>1. PICK h : h = Here(p)
  OBVIOUS
<1>2. PICK t : t = StageDone(h, k, 1) /\ Commit(p, t)
  BY <1>1 DEF Ingest
<1>3. PICK y : y = Now'
  OBVIOUS
<1>4. /\ y \in Facts /\ Grows(Now, y) /\ y.handed = handed /\ y.receipts = receipts
      /\ y.sent = sent /\ k \in y.history /\ y.cut = cut
      /\ ended' \in 0 .. Ends /\ lapsed' \in 0 .. Lapses
  BY <1>3 DEF Ingest, Now, Facts, Grows, OutputInv, Typed
<1>5. e.phase = "ingest" /\ e.phase \in Runs
  BY DEF Ingest, In, Runs, Asynchronous
<1>6. /\ h \in Work /\ h.row = row /\ h.dead = dead /\ h.me = proc[p]
      /\ e \in Entry /\ row[k] \in OutputRow \cup {NoRow}
      /\ RowFits(k, row[k], dead, Now) /\ SentFits(k, Now)
      /\ Written(k, e, Now) /\ Claims(p, k, row[k], e, Now)
      /\ (e.listed => Now.handed[k] > 0)
      /\ proc[p].status # "down" /\ OthersKeep(p, row[k], row[k])
  BY <1>1, <1>5, Attempted
<1>7. /\ t \in Work /\ t.row = row /\ t.dead = dead /\ t.me.status = proc[p].status
      /\ \A j \in Key : j # k => t.me.entry[j] = proc[p].entry[j]
      /\ t.me.entry[k].id = e.id /\ t.me.entry[k].claim = e.claim
      /\ t.me.entry[k].listed = e.listed
      /\ t.me.entry[k].phase = "checkpoint" /\ t.me.entry[k].stage = 1
  <2>1. PICK stage \in 0 .. 2 : stage = 1
    OBVIOUS
  <2>2. t = StageDone(h, k, stage)
    BY <1>2, <2>1
  <2>3. /\ t \in Work /\ t.row = h.row /\ t.dead = h.dead /\ t.me.status = h.me.status
        /\ \A j \in Key : j # k => t.me.entry[j] = h.me.entry[j]
        /\ t.me.entry[k].id = h.me.entry[k].id /\ t.me.entry[k].claim = h.me.entry[k].claim
        /\ t.me.entry[k].listed = h.me.entry[k].listed
        /\ t.me.entry[k].phase = "checkpoint" /\ t.me.entry[k].stage = stage
    BY <1>6, <2>2, StageMoved
  <2> QED  BY <1>6, <2>1, <2>3
<1> HIDE DEF e, Commit
<1>8. PICK f \in Entry : f = t.me.entry[k]
  BY <1>7, WorkFields
<1>9. Now.handed = handed /\ Now.receipts = receipts /\ Now.sent = sent /\ Now.cut = cut
  BY DEF Now
<1>10. Written(k, f, y)
  BY <1>4, <1>7, <1>8 DEF Written
<1>11. Claims(p, k, row[k], f, y)
  <2>1. e.stage <= f.stage
    BY <1>5, <1>6, <1>7, <1>8 DEF Written
  <2> QED  BY <1>4, <1>5, <1>6, <1>7, <1>8, <2>1, ClaimsMove
<1>12. EntryFits(p, k, row[k], f, y)
  BY <1>4, <1>6, <1>7, <1>8, <1>9, <1>10, <1>11 DEF EntryFits
<1>13. RowFits(k, row[k], dead, y)
  BY <1>4, <1>6, <1>9, RowGrows
<1>14. SentFits(k, y)
  BY <1>4, <1>6, <1>9 DEF SentFits, Grows
<1> QED  BY <1>2, <1>3, <1>4, <1>5, <1>6, <1>7, <1>8, <1>12, <1>13, <1>14, OneKey DEF e

LEMMA AppendKeeps ==
  ASSUME OutputInv, NEW p \in Process, NEW k \in Key, Append(p, k)
  PROVE  OutputInv'
<1> DEFINE e == proc[p].entry[k]
<1>1. PICK h : h = Here(p)
  OBVIOUS
<1>2. PICK t : t = StageDone(h, k, 2) /\ Commit(p, t)
  BY <1>1 DEF Append
<1>3. PICK y : y = Now'
  OBVIOUS
<1>4. /\ y \in Facts /\ Grows(Now, y) /\ y.handed = handed /\ y.receipts = receipts
      /\ y.sent = sent /\ k \in y.stream /\ y.history = history /\ y.cut = cut
      /\ ended' \in 0 .. Ends /\ lapsed' \in 0 .. Lapses
  BY <1>3 DEF Append, Now, Facts, Grows, OutputInv, Typed
<1>5. e.phase = "append" /\ e.phase \in Runs
  BY DEF Append, In, Runs, Synchronous
<1>6. /\ h \in Work /\ h.row = row /\ h.dead = dead /\ h.me = proc[p]
      /\ e \in Entry /\ row[k] \in OutputRow \cup {NoRow}
      /\ RowFits(k, row[k], dead, Now) /\ SentFits(k, Now)
      /\ Written(k, e, Now) /\ Claims(p, k, row[k], e, Now)
      /\ (e.listed => Now.handed[k] > 0)
      /\ proc[p].status # "down" /\ OthersKeep(p, row[k], row[k])
  BY <1>1, <1>5, Attempted
<1>7. /\ t \in Work /\ t.row = row /\ t.dead = dead /\ t.me.status = proc[p].status
      /\ \A j \in Key : j # k => t.me.entry[j] = proc[p].entry[j]
      /\ t.me.entry[k].id = e.id /\ t.me.entry[k].claim = e.claim
      /\ t.me.entry[k].listed = e.listed
      /\ t.me.entry[k].phase = "checkpoint" /\ t.me.entry[k].stage = 2
  <2>1. PICK stage \in 0 .. 2 : stage = 2
    OBVIOUS
  <2>2. t = StageDone(h, k, stage)
    BY <1>2, <2>1
  <2>3. /\ t \in Work /\ t.row = h.row /\ t.dead = h.dead /\ t.me.status = h.me.status
        /\ \A j \in Key : j # k => t.me.entry[j] = h.me.entry[j]
        /\ t.me.entry[k].id = h.me.entry[k].id /\ t.me.entry[k].claim = h.me.entry[k].claim
        /\ t.me.entry[k].listed = h.me.entry[k].listed
        /\ t.me.entry[k].phase = "checkpoint" /\ t.me.entry[k].stage = stage
    BY <1>6, <2>2, StageMoved
  <2> QED  BY <1>6, <2>1, <2>3
<1> HIDE DEF e, Commit
<1>8. PICK f \in Entry : f = t.me.entry[k]
  BY <1>7, WorkFields
<1>9. Now.handed = handed /\ Now.receipts = receipts /\ Now.sent = sent /\ Now.cut = cut
  BY DEF Now
<1>10. Written(k, f, y)
  <2>1. k \in y.history
    BY <1>4, <1>5, <1>6 DEF Written, Synchronous, Now
  <2> QED  BY <1>4, <1>7, <1>8, <2>1 DEF Written
<1>11. Claims(p, k, row[k], f, y)
  <2>1. e.stage <= f.stage
    BY <1>6, <1>7, <1>8 DEF Entry
  <2> QED  BY <1>4, <1>5, <1>6, <1>7, <1>8, <2>1, ClaimsMove
<1>12. EntryFits(p, k, row[k], f, y)
  BY <1>4, <1>6, <1>7, <1>8, <1>9, <1>10, <1>11 DEF EntryFits
<1>13. RowFits(k, row[k], dead, y)
  BY <1>4, <1>6, <1>9, RowGrows
<1>14. SentFits(k, y)
  BY <1>4, <1>6, <1>9 DEF SentFits, Grows
<1> QED  BY <1>2, <1>3, <1>4, <1>5, <1>6, <1>7, <1>8, <1>12, <1>13, <1>14, OneKey DEF e

LEMMA LookKeeps ==
  ASSUME OutputInv, NEW p \in Process, NEW k \in Key, Look(p, k)
  PROVE  OutputInv'
<1> DEFINE e == proc[p].entry[k]
<1>1. PICK h : h = Here(p)
  OBVIOUS
<1>2. PICK t : t = GoTo(h, k, IF k \in receipts THEN "returned" ELSE "fetch") /\ Commit(p, t)
  BY <1>1 DEF Look
<1>3. PICK y : y = Now'
  OBVIOUS
<1>4. /\ y \in Facts /\ Grows(Now, y) /\ y.handed = handed /\ y.receipts = receipts
      /\ y.sent = sent /\ y.stream = stream /\ y.history = history /\ y.cut = cut
      /\ ended' \in 0 .. Ends /\ lapsed' \in 0 .. Lapses
  BY <1>3 DEF Look, effects, Now, Facts, Grows, OutputInv, Typed
<1>5. e.phase = "look" /\ e.phase \in Runs
  BY DEF Look, In, Runs, Synchronous
<1>6. /\ h \in Work /\ h.row = row /\ h.dead = dead /\ h.me = proc[p]
      /\ e \in Entry /\ row[k] \in OutputRow \cup {NoRow}
      /\ RowFits(k, row[k], dead, Now) /\ SentFits(k, Now)
      /\ Written(k, e, Now) /\ Claims(p, k, row[k], e, Now)
      /\ (e.listed => Now.handed[k] > 0)
      /\ proc[p].status # "down" /\ OthersKeep(p, row[k], row[k])
  BY <1>1, <1>5, Attempted
<1>7. /\ t \in Work /\ t.row = row /\ t.dead = dead /\ t.me.status = proc[p].status
      /\ \A j \in Key : j # k => t.me.entry[j] = proc[p].entry[j]
      /\ t.me.entry[k].id = e.id /\ t.me.entry[k].claim = e.claim
      /\ t.me.entry[k].listed = e.listed
      /\ t.me.entry[k].stage = e.stage
      /\ t.me.entry[k].phase = IF k \in receipts THEN "returned" ELSE "fetch"
  <2> DEFINE phase == IF k \in receipts THEN "returned" ELSE "fetch"
  <2>1. phase \in Runs /\ t = GoTo(h, k, phase)
    BY <1>2 DEF Runs, Asynchronous
  <2> HIDE DEF phase
  <2>2. InPhase(h, t, k, phase)
    BY <1>6, <2>1, PhaseMoved
  <2> QED  BY <1>6, <2>2 DEF InPhase, phase
<1> HIDE DEF e, Commit
<1>8. PICK f \in Entry : f = t.me.entry[k]
  BY <1>7, WorkFields
<1>9. Now.handed = handed /\ Now.receipts = receipts /\ Now.sent = sent /\ Now.cut = cut
  BY DEF Now
<1>10. Written(k, f, y)
  <2>1. k \in y.history /\ k \in y.stream
    BY <1>4, <1>5, <1>6 DEF Written, Synchronous, Now
  <2> QED  BY <1>4, <1>7, <1>8, <2>1 DEF Written, Synchronous
<1>11. Claims(p, k, row[k], f, y)
  <2>1. e.stage <= f.stage
    BY <1>6, <1>7, <1>8 DEF Entry
  <2> QED  BY <1>4, <1>5, <1>6, <1>7, <1>8, <2>1, ClaimsMove
<1>12. EntryFits(p, k, row[k], f, y)
  BY <1>4, <1>6, <1>7, <1>8, <1>9, <1>10, <1>11 DEF EntryFits
<1>13. RowFits(k, row[k], dead, y)
  BY <1>4, <1>6, <1>9, RowGrows
<1>14. SentFits(k, y)
  BY <1>4, <1>6, <1>9 DEF SentFits, Grows
<1> QED  BY <1>2, <1>3, <1>4, <1>5, <1>6, <1>7, <1>8, <1>12, <1>13, <1>14, OneKey DEF e

LEMMA SendKeeps ==
  ASSUME OutputInv, NEW p \in Process, NEW k \in Key, Send(p, k)
  PROVE  OutputInv'
<1> DEFINE e == proc[p].entry[k]
<1>1. PICK h : h = Here(p)
  OBVIOUS
<1>2. PICK t : t = GoTo(h, k, "receipt") /\ Commit(p, t)
  BY <1>1 DEF Send
<1>3. PICK y : y = Now'
  OBVIOUS
<1>4. /\ y \in Facts /\ Grows(Now, y) /\ y.handed = handed /\ y.receipts = receipts
      /\ y.sent[k] = (IF sent[k] < 2 THEN sent[k] + 1 ELSE sent[k])
      /\ (\A j \in Key : j # k => y.sent[j] = sent[j])
      /\ y.stream = stream /\ y.history = history /\ y.cut = cut
      /\ ended' \in 0 .. Ends /\ lapsed' \in 0 .. Lapses
  <2>1. sent \in [Key -> 0 .. 2] /\ sent' \in [Key -> 0 .. 2]
    BY DEF Send, OutputInv, Typed
  <2>2. \A j \in Key : sent[j] > 0 => sent'[j] > 0
    BY <2>1 DEF Send
  <2>3. /\ sent'[k] = (IF sent[k] < 2 THEN sent[k] + 1 ELSE sent[k])
        /\ (\A j \in Key : j # k => sent'[j] = sent[j])
    BY <2>1 DEF Send
  <2>4. y \in Facts
    BY <1>3, <2>1 DEF Send, Now, Facts, OutputInv, Typed
  <2> QED  BY <1>3, <2>2, <2>3, <2>4 DEF Send, Now, Grows, OutputInv, Typed
<1>5. e.phase = "fetch" /\ e.phase \in Runs
  BY DEF Send, In, Runs, Asynchronous
<1>6. /\ h \in Work /\ h.row = row /\ h.dead = dead /\ h.me = proc[p]
      /\ e \in Entry /\ row[k] \in OutputRow \cup {NoRow}
      /\ RowFits(k, row[k], dead, Now) /\ SentFits(k, Now)
      /\ Written(k, e, Now) /\ Claims(p, k, row[k], e, Now)
      /\ (e.listed => Now.handed[k] > 0)
      /\ proc[p].status # "down" /\ OthersKeep(p, row[k], row[k])
  BY <1>1, <1>5, Attempted
<1>7. /\ t \in Work /\ t.row = row /\ t.dead = dead /\ t.me.status = proc[p].status
      /\ \A j \in Key : j # k => t.me.entry[j] = proc[p].entry[j]
      /\ t.me.entry[k].id = e.id /\ t.me.entry[k].claim = e.claim
      /\ t.me.entry[k].listed = e.listed
      /\ t.me.entry[k].phase = "receipt" /\ t.me.entry[k].stage = e.stage
  <2>1. "receipt" \in Runs
    BY DEF Runs, Synchronous
  <2>2. InPhase(h, t, k, "receipt")
    BY <1>2, <1>6, <2>1, PhaseMoved
  <2> QED  BY <1>6, <2>2 DEF InPhase
<1> HIDE DEF e, Commit
<1>8. PICK f \in Entry : f = t.me.entry[k]
  BY <1>7, WorkFields
<1>9. Now.handed = handed /\ Now.receipts = receipts /\ Now.sent = sent /\ Now.cut = cut
  BY DEF Now
<1>10. Written(k, f, y)
  <2>1. k \in y.history /\ k \in y.stream
    BY <1>4, <1>5, <1>6 DEF Written, Now
  <2>2. sent[k] \in 0 .. 2
    BY DEF OutputInv, Typed
  <2>3. y.sent[k] > 0
    BY <1>4, <2>2
  <2> QED  BY <1>4, <1>7, <1>8, <2>1, <2>3 DEF Written
<1>11. Claims(p, k, row[k], f, y)
  <2>1. e.stage <= f.stage
    BY <1>6, <1>7, <1>8 DEF Entry
  <2>2. k \notin y.receipts \ y.cut
    BY <1>4, <1>5, <1>6, <1>9 DEF Claims
  <2> QED  BY <1>4, <1>5, <1>6, <1>7, <1>8, <2>1, <2>2, ClaimsMove
<1>12. EntryFits(p, k, row[k], f, y)
  BY <1>4, <1>6, <1>7, <1>8, <1>9, <1>10, <1>11 DEF EntryFits
<1>13. RowFits(k, row[k], dead, y)
  BY <1>4, <1>6, <1>9, RowGrows
<1>14. SentFits(k, y)
  <2>1. sent[k] \in 0 .. 2
    BY DEF OutputInv, Typed
  <2>2. ASSUME y.sent[k] > 1, k \notin cut PROVE FALSE
    <3>1. sent[k] > 0
      BY <1>4, <2>1, <2>2
    <3>2. k \notin receipts
      BY <1>5, <1>6, <1>9, <2>2 DEF Claims
    <3>3. PICK o \in Process : proc[o].entry[k].phase = "receipt"
      BY <2>2, <3>1, <3>2 DEF OutputInv, AtReceipt
    <3>4. Claims(o, k, row[k], proc[o].entry[k], Now) /\ proc[o].entry[k].phase \in Runs
      BY <3>3 DEF OutputInv, EntryFits, Runs, Synchronous
    <3>5. row[k].worker = o
      BY <1>9, <2>2, <3>2, <3>4 DEF Claims, Holds
    <3>6. row[k].worker = p
      BY <1>5, <1>6, <1>9, <2>2, <3>2 DEF Claims, Holds
    <3> QED  BY <1>5, <3>3, <3>5, <3>6 DEF e
  <2>3. k \in y.receipts => y.sent[k] > 0
    BY <1>4, <1>6, <1>9, <2>1 DEF SentFits, Grows
  <2> QED  BY <1>4, <2>2, <2>3 DEF SentFits
<1> QED  BY <1>2, <1>3, <1>4, <1>5, <1>6, <1>7, <1>8, <1>12, <1>13, <1>14, OneKey DEF e

LEMMA RecordReceiptKeeps ==
  ASSUME OutputInv, NEW p \in Process, NEW k \in Key, RecordReceipt(p, k)
  PROVE  OutputInv'
<1> DEFINE e == proc[p].entry[k]
<1>1. PICK h : h = Here(p)
  OBVIOUS
<1>2. PICK t : t = GoTo(h, k, "returned") /\ Commit(p, t)
  BY <1>1 DEF RecordReceipt
<1>3. PICK y : y = Now'
  OBVIOUS
<1>4. /\ y \in Facts /\ Grows(Now, y) /\ y.handed = handed /\ y.receipts = receipts \cup {k}
      /\ y.sent = sent /\ y.stream = stream /\ y.history = history /\ y.cut = cut
      /\ ended' \in 0 .. Ends /\ lapsed' \in 0 .. Lapses
  BY <1>3 DEF RecordReceipt, Now, Facts, Grows, OutputInv, Typed
<1>5. e.phase = "receipt" /\ e.phase \in Runs
  BY DEF RecordReceipt, In, Runs, Synchronous
<1>6. /\ h \in Work /\ h.row = row /\ h.dead = dead /\ h.me = proc[p]
      /\ e \in Entry /\ row[k] \in OutputRow \cup {NoRow}
      /\ RowFits(k, row[k], dead, Now) /\ SentFits(k, Now)
      /\ Written(k, e, Now) /\ Claims(p, k, row[k], e, Now)
      /\ (e.listed => Now.handed[k] > 0)
      /\ proc[p].status # "down" /\ OthersKeep(p, row[k], row[k])
  BY <1>1, <1>5, Attempted
<1>7. /\ t \in Work /\ t.row = row /\ t.dead = dead /\ t.me.status = proc[p].status
      /\ \A j \in Key : j # k => t.me.entry[j] = proc[p].entry[j]
      /\ t.me.entry[k].id = e.id /\ t.me.entry[k].claim = e.claim
      /\ t.me.entry[k].listed = e.listed
      /\ t.me.entry[k].phase = "returned" /\ t.me.entry[k].stage = e.stage
  <2>1. "returned" \in Runs
    BY DEF Runs, Asynchronous
  <2>2. InPhase(h, t, k, "returned")
    BY <1>2, <1>6, <2>1, PhaseMoved
  <2> QED  BY <1>6, <2>2 DEF InPhase
<1> HIDE DEF e, Commit
<1>8. PICK f \in Entry : f = t.me.entry[k]
  BY <1>7, WorkFields
<1>9. Now.handed = handed /\ Now.receipts = receipts /\ Now.sent = sent /\ Now.cut = cut
  BY DEF Now
<1>10. Written(k, f, y)
  <2>1. k \in y.history /\ k \in y.stream
    BY <1>4, <1>5, <1>6 DEF Written, Synchronous, Now
  <2> QED  BY <1>4, <1>7, <1>8, <2>1 DEF Written, Synchronous
<1>11. Claims(p, k, row[k], f, y)
  <2>1. e.stage <= f.stage
    BY <1>6, <1>7, <1>8 DEF Entry
  <2> QED  BY <1>4, <1>5, <1>6, <1>7, <1>8, <2>1, ClaimsMove
<1>12. EntryFits(p, k, row[k], f, y)
  BY <1>4, <1>6, <1>7, <1>8, <1>9, <1>10, <1>11 DEF EntryFits
<1>13. RowFits(k, row[k], dead, y)
  BY <1>4, <1>6, <1>9, RowGrows
<1>14. SentFits(k, y)
  BY <1>4, <1>5, <1>6, <1>9 DEF SentFits, Written
<1>15. k \notin receipts \cup cut => Live(row[k]) /\ row[k].worker = p
  BY <1>5, <1>6, <1>9 DEF Claims, Holds, IsRow, Live
<1> QED  BY <1>2, <1>3, <1>4, <1>5, <1>6, <1>7, <1>8, <1>12, <1>13, <1>14, <1>15, OneKey DEF e


\* A handler in which an attempt ends, perhaps at its receipt
LEMMA HandledAttempt ==
  ASSUME OutputInv, NEW p \in Process, NEW k \in Key, NEW h, h = Here(p),
         proc[p].entry[k].phase \in Runs, NEW t \in After(p, h), Commit(p, t),
         \A j \in Key : j # k => t.me.entry[j] = h.me.entry[j],
         NEW y \in Facts, y = Now', Grows(Now, y), y.receipts = receipts, y.sent = sent,
         y.handed = handed, ended' \in 0 .. Ends, lapsed' \in 0 .. Lapses,
         proc[p].entry[k].phase = "receipt" => k \in y.receipts \cup y.cut
  PROVE  OutputInv'
<1>1. /\ h \in Work /\ h.row = row /\ h.dead = dead /\ h.me = proc[p]
      /\ proc[p].status # "down"
  BY Attempted
<1>2. Now.receipts = receipts /\ Now.handed = handed
  BY DEF Now
<1>3. ASSUME NEW j \in Key
      PROVE  /\ RowFits(j, h.row[j], h.dead, y) /\ EntryFits(p, j, h.row[j], h.me.entry[j], y)
             /\ OthersKeep(p, row[j], h.row[j])
             /\ proc[p].entry[j].phase = "receipt" =>
                  j \in y.receipts \cup y.cut \/ t.me.entry[j].phase = "receipt"
  <2>1. /\ RowFits(j, row[j], dead, Now) /\ EntryFits(p, j, row[j], proc[p].entry[j], Now)
    BY DEF OutputInv
  <2>2. RowFits(j, h.row[j], h.dead, y)
    BY <1>1, <1>2, <2>1, RowGrows
  <2>3. EntryFits(p, j, h.row[j], h.me.entry[j], y)
    BY <1>1, <1>2, <2>1, EntryGrows
  <2>4. OthersKeep(p, row[j], h.row[j])
    BY <1>1 DEF OthersKeep
  <2>5. proc[p].entry[j].phase = "receipt" =>
          j \in y.receipts \cup y.cut \/ t.me.entry[j].phase = "receipt"
    BY <1>1
  <2> QED  BY <2>2, <2>3, <2>4, <2>5
<1> HIDE DEF Commit
<1> QED  BY <1>1, <1>3, Handled

LEMMA LosesStays ==
  ASSUME NEW p, NEW s \in Work, NEW k \in Key
  PROVE  /\ LosesClaim(s, k) \in After(p, s)
         /\ \A j \in Key : j # k => LosesClaim(s, k).me.entry[j] = s.me.entry[j]
  BY LeavesStays, MissStays DEF LosesClaim

LEMMA Updating ==
  ASSUME NEW r \in OutputRow, NEW stage \in 0 .. 2
  PROVE  /\ Updated(r, stage) \in OutputRow /\ Updated(r, stage).stage = stage
         /\ Updated(r, stage).id = r.id /\ Updated(r, stage).state = r.state
         /\ Updated(r, stage).worker = r.worker /\ Updated(r, stage).expired = r.expired
         /\ Updated(r, stage).attempts = r.attempts
  BY DEF Updated, OutputRow

LEMMA CheckpointKeeps ==
  ASSUME OutputInv, NEW p \in Process, NEW k \in Key, Checkpoint(p, k)
  PROVE  OutputInv'
<1> DEFINE e == proc[p].entry[k]
           r == row[k]
<1>1. PICK h : h = Here(p)
  OBVIOUS
<1>2. PICK y : y = Now
  OBVIOUS
<1>3. /\ y = Now' /\ y \in Facts /\ Grows(Now, y) /\ y.receipts = receipts /\ y.sent = sent
      /\ y.handed = handed /\ ended' \in 0 .. Ends /\ lapsed' \in 0 .. Lapses
  BY <1>2, Unmoved, GrowsSame DEF Checkpoint
<1>4. e.phase = "checkpoint" /\ e.phase \in Runs
  BY DEF Checkpoint, In, Runs, Synchronous
<1>5. /\ h \in Work /\ h.row = row /\ h.dead = dead /\ h.me = proc[p]
      /\ e \in Entry /\ r \in OutputRow \cup {NoRow}
      /\ RowFits(k, r, dead, Now) /\ SentFits(k, Now)
      /\ Written(k, e, Now) /\ Claims(p, k, r, e, Now)
      /\ (e.listed => Now.handed[k] > 0)
      /\ proc[p].status # "down" /\ OthersKeep(p, r, r)
  BY <1>1, <1>4, Attempted
<1>6. CASE ~Holder(h, p, k)
  <2>1. PICK t : t = LosesClaim(h, k) /\ Commit(p, t)
    BY <1>1, <1>6 DEF Checkpoint
  <2>2. t \in After(p, h) /\ \A j \in Key : j # k => t.me.entry[j] = h.me.entry[j]
    BY <1>5, <2>1, LosesStays
  <2> HIDE DEF Commit
  <2> QED  BY <1>1, <1>3, <1>4, <2>1, <2>2, HandledAttempt
<1>7. CASE Holder(h, p, k)
  <2> DEFINE q == Updated(r, e.stage)
             x == [row EXCEPT ![k] = q]
             u == [h EXCEPT !.row = x]
  <2>1. PICK t : t = GoTo(u, k, FirstPhase(e.stage)) /\ Commit(p, t)
    <3>1. PICK s \in {Here(p)} :
            /\ Holder(s, p, k)
            /\ Commit(p, GoTo([s EXCEPT !.row[k] = Updated(@, s.me.entry[k].stage)], k,
                              FirstPhase(s.me.entry[k].stage)))
      BY <1>1, <1>7 DEF Checkpoint
    <3>2. s = h
      BY <1>1, <3>1
    <3>3. [s EXCEPT !.row[k] = Updated(@, s.me.entry[k].stage)] = u
      BY <1>5, <3>2 DEF Work
    <3> QED  BY <1>5, <3>1, <3>2, <3>3
  <2>2. Holds(r, e.id, p, e.claim)
    BY <1>5, <1>7 DEF Holder
  <2>3. r \in OutputRow /\ r # NoRow
    BY <1>5, <2>2 DEF Holds, IsRow
  <2>4. e.stage \in 1 .. 2 /\ (e.stage = 2 => k \in stream) /\ k \in history
    BY <1>4, <1>5 DEF Written, Now, Synchronous
  <2>5. /\ q \in OutputRow /\ q.stage = e.stage /\ q.id = r.id /\ q.state = r.state
        /\ q.worker = r.worker /\ q.expired = r.expired /\ q.attempts = r.attempts
    <3>1. e.stage \in 0 .. 2
      BY <2>4
    <3> QED  BY <2>3, <3>1, Updating
  <2> HIDE DEF q
  <2>6. x \in Rows /\ x[k] = q /\ \A j \in Key : j # k => x[j] = row[j]
    BY <1>5, <2>5, WorkFields DEF Rows
  <2> HIDE DEF x, Commit, r, e
  <2>7. u \in Work /\ u.row = x /\ u.dead = dead /\ u.me = proc[p]
    BY <1>5, <2>6 DEF Work
  <2> HIDE DEF u
  <2>8. FirstPhase(e.stage) = (IF e.stage = 1 THEN "append" ELSE "look")
    BY <2>4 DEF FirstPhase
  <2>9. /\ t \in Work /\ t.row = x /\ t.dead = dead /\ t.me.status = proc[p].status
        /\ \A j \in Key : j # k => t.me.entry[j] = proc[p].entry[j]
        /\ t.me.entry[k].id = e.id /\ t.me.entry[k].claim = e.claim
        /\ t.me.entry[k].listed = e.listed /\ t.me.entry[k].phase = FirstPhase(e.stage)
        /\ t.me.entry[k].stage = e.stage
    <3>1. PICK phase \in Runs : phase = FirstPhase(e.stage)
      BY <2>8, Statuses
    <3>2. t = GoTo(u, k, phase)
      BY <2>1, <3>1
    <3>3. InPhase(u, t, k, phase)
      BY <2>7, <3>2, PhaseMoved
    <3> QED  BY <2>7, <3>1, <3>3 DEF InPhase, e
  <2>10. PICK f : f = t.me.entry[k]
    OBVIOUS
  <2>11. q # NoRow /\ Holds(q, f.id, p, f.claim)
    <3>1. q # NoRow
      BY <2>5, OutputConstants
    <3> QED  BY <2>2, <2>5, <2>9, <2>10, <3>1 DEF Holds, IsRow
  <2>12. Written(k, f, y)
    BY <1>2, <2>4, <2>8, <2>9, <2>10 DEF Written, Now, Synchronous
  <2>13. Claims(p, k, q, f, y)
    <3>1. q.stage <= f.stage
      BY <2>4, <2>5, <2>9, <2>10
    <3> QED  BY <2>8, <2>9, <2>10, <2>11, <3>1 DEF Claims
  <2>14. EntryFits(p, k, q, f, y)
    BY <1>2, <1>5, <2>9, <2>10, <2>12, <2>13 DEF EntryFits
  <2>15. RowFits(k, q, dead, y)
    <3>1. y.handed[k] > 0
      BY <1>2, <1>5, <2>3 DEF RowFits
    <3>2. k \in y.history /\ (q.stage >= 2 => k \in y.stream)
      BY <1>2, <2>4, <2>5 DEF Now
    <3> QED  BY <2>11, <3>1, <3>2 DEF RowFits
  <2>16. OthersKeep(p, r, q)
    BY <2>2, <2>5 DEF OthersKeep, Holds
  <2>17. /\ \A j \in Key : j # k => t.row[j] = row[j] /\ t.me.entry[j] = proc[p].entry[j]
         /\ t.row[k] = q /\ y.receipts \subseteq receipts \cup {k}
         /\ \A j \in Key : j # k => y.sent[j] = sent[j]
         /\ y.sent[k] = sent[k] /\ SentFits(k, y)
         /\ proc[p].entry[k].phase # "receipt" /\ proc[p].status # "down"
         /\ k \notin y.receipts \ (receipts \cup y.cut)
    BY <1>2, <1>3, <1>4, <1>5, <2>6, <2>9 DEF e
  <2> QED  BY <1>3, <2>1, <2>9, <2>10, <2>14, <2>15, <2>16, <2>17, OneKey DEF r
<1> QED  BY <1>6, <1>7

\* An attempt that is over fits whatever became of its row.
LEMMA EndedFits ==
  ASSUME NEW p, NEW k \in Key, NEW r, NEW e, NEW q, NEW f, NEW x, NEW y,
         EntryFits(p, k, r, e, x), Grows(x, y), f.phase = "ended", f.listed => e.listed
  PROVE  EntryFits(p, k, q, f, y)
<1>1. f.phase \notin Runs
  BY Statuses
<1>2. Written(k, f, y)
  BY <1>1 DEF Written, Runs, Asynchronous, Synchronous
<1> QED  BY <1>1, <1>2 DEF EntryFits, Claims, Grows

\* The holder of the claim settles the job, or gives it back for a retry.
LEMMA OwnerEnds ==
  ASSUME OutputInv, NEW p \in Process, NEW k \in Key, NEW h, h = Here(p),
         proc[p].entry[k].phase \in Runs, Holder(h, p, k),
         NEW t \in Work, Commit(p, t), t.me.status = proc[p].status, dead \subseteq t.dead,
         \A j \in Key : j # k => t.row[j] = row[j] /\ t.me.entry[j] = proc[p].entry[j],
         t.me.entry[k].phase = "ended", t.me.entry[k].listed => proc[p].entry[k].listed,
         ~Live(t.row[k]), NEW y \in Facts, RowFits(k, t.row[k], t.dead, y),
         y = Now', Grows(Now, y), y.receipts = receipts, y.sent = sent,
         y.handed = handed, ended' \in 0 .. Ends, lapsed' \in 0 .. Lapses,
         proc[p].entry[k].phase = "receipt" => k \in y.receipts \cup y.cut
  PROVE  OutputInv'
<1>1. /\ h \in Work /\ h.row = row /\ h.dead = dead /\ h.me = proc[p]
      /\ proc[p].status # "down" /\ SentFits(k, Now)
  BY Attempted
<1>2. EntryFits(p, k, row[k], proc[p].entry[k], Now)
  BY DEF OutputInv
<1>3. EntryFits(p, k, t.row[k], t.me.entry[k], y)
  BY <1>2, EndedFits
<1>4. OthersKeep(p, row[k], t.row[k])
  BY <1>1 DEF OthersKeep, Holder, Holds
<1>5. SentFits(k, y)
  BY <1>1 DEF SentFits, Grows, Now
<1> HIDE DEF Commit, Holder
<1>6. k \notin y.receipts \ (receipts \cup y.cut) /\ y.receipts \subseteq receipts \cup {k}
  OBVIOUS
<1>7. \/ y.sent[k] = sent[k] /\ proc[p].entry[k].phase # "receipt"
      \/ k \in y.receipts \cup y.cut \/ t.me.entry[k].phase = "receipt"
  OBVIOUS
<1> QED  BY <1>1, <1>3, <1>4, <1>5, <1>6, <1>7, OneKey

LEMMA GivingBack ==
  ASSUME NEW r \in OutputRow, NEW due \in BOOLEAN
  PROVE  /\ Pending(r, due) \in OutputRow /\ Pending(r, due).id = r.id
         /\ Pending(r, due).stage = r.stage /\ Pending(r, due).attempts = r.attempts
         /\ ~Live(Pending(r, due))
  BY DEF Pending, OutputRow, Live

\* What attempt() makes of an error under its claim
FailedUnder(h, k, t) ==
  /\ t \in Work /\ h.dead \subseteq t.dead /\ t.me.status = h.me.status
  /\ \A j \in Key : j # k => t.row[j] = h.row[j] /\ t.me.entry[j] = h.me.entry[j]
  /\ t.me.entry[k].phase = "ended" /\ (t.me.entry[k].listed => h.me.entry[k].listed)
  /\ h.row[k] \in OutputRow /\ h.row[k] # NoRow
  /\ (t.row[k] = NoRow /\ k \in t.dead) \/ t.row[k] = Pending(h.row[k], FALSE)

LEMMA FailsOver ==
  ASSUME NEW h \in Work, NEW p \in Process, NEW k \in Key,
         h.me.status = "up", Holder(h, p, k),
         NEW t \in {Fails(h, p, k, TRUE), Fails(h, p, k, FALSE)}
  PROVE  FailedUnder(h, k, t)
<1> DEFINE e == h.me.entry[k]
           f == [e EXCEPT !.phase = "ended", !.timer = TRUE, !.aborted = FALSE]
           q == Pending(h.row[k], FALSE)
           x == [h.row EXCEPT ![k] = q]
           u == [h EXCEPT !.row = x]
           v == [u EXCEPT !.me.entry[k] = f]
<1>1. h.row[k] \in OutputRow /\ h.row[k] # NoRow
  BY WorkFields DEF Holder, Holds, IsRow
<1>2. t \in {Leaves(Bury(h, k), k), Notify(v)}
  <2>1. [h EXCEPT !.row[k] = Pending(@, FALSE), !.me.entry[k] = f] = v
    BY DEF Work
  <2> HIDE DEF v, f
  <2>2. [h EXCEPT !.row[k] = Pending(@, FALSE),
           !.me.entry[k] = [e EXCEPT !.phase = "ended", !.timer = TRUE, !.aborted = FALSE]] = v
    BY <2>1 DEF f
  <2> QED  BY <2>2 DEF Fails
<1>3. CASE t = Leaves(Bury(h, k), k)
  <2>1. /\ Bury(h, k) \in Work /\ Bury(h, k).me = h.me /\ Bury(h, k).dead = h.dead \cup {k}
        /\ Bury(h, k).row[k] = NoRow /\ \A j \in Key : j # k => Bury(h, k).row[j] = h.row[j]
    BY Buried
  <2>2. PICK b : b = Bury(h, k)
    OBVIOUS
  <2>3. /\ t \in After(p, b)
        /\ t \in Work /\ t.row = b.row /\ t.dead = b.dead /\ t.me.status = b.me.status
        /\ t.me.entry[k].phase = "ended" /\ ~t.me.entry[k].listed
        /\ \A j \in Key : j # k => t.me.entry[j] = b.me.entry[j]
    BY <1>3, <2>1, <2>2, LeavesStays
  <2> QED  BY <1>1, <2>1, <2>2, <2>3 DEF FailedUnder
<1>4. CASE t = Notify(v)
  <2>1. q \in OutputRow
    BY <1>1, GivingBack
  <2>2. f \in Entry /\ f.phase = "ended" /\ f.listed = e.listed
    <3>1. e \in Entry
      BY WorkFields
    <3> QED  BY <3>1, Statuses DEF Entry
  <2> HIDE DEF f
  <2>3. q \in OutputRow \cup {NoRow} /\ q = Pending(h.row[k], FALSE)
    BY <2>1
  <2> HIDE DEF q
  <2>4. x \in Rows /\ x[k] = q /\ \A j \in Key : j # k => x[j] = h.row[j]
    BY <2>3, WorkFields DEF Rows
  <2> HIDE DEF x
  <2>5. u \in Work /\ u.row = x /\ u.dead = h.dead /\ u.me = h.me
    BY <2>4 DEF Work
  <2> HIDE DEF u
  <2>6. /\ v \in Work /\ v.row = u.row /\ v.dead = u.dead /\ v.me.status = u.me.status
        /\ v.me.entry[k] = f /\ \A j \in Key : j # k => v.me.entry[j] = u.me.entry[j]
    BY <2>2, <2>5, EntryWritten
  <2> HIDE DEF v
  <2>7. /\ t \in Work /\ t.row = v.row /\ t.dead = v.dead /\ t.me.entry = v.me.entry
        /\ t.me.status = v.me.status
    BY <1>4, <2>6, NotifyStays DEF After
  <2> QED  BY <1>1, <2>2, <2>3, <2>4, <2>5, <2>6, <2>7 DEF FailedUnder
<1> QED  BY <1>2, <1>3, <1>4

\* attempt() after an error keeps the invariant.
LEMMA FailureKeeps ==
  ASSUME OutputInv, NEW p \in Process, NEW k \in Key, NEW h, h = Here(p),
         proc[p].entry[k].phase \in Runs,
         NEW t \in {Fails(h, p, k, TRUE), Fails(h, p, k, FALSE)}, Commit(p, t),
         NEW y \in Facts, y = Now', Grows(Now, y), y.receipts = receipts, y.sent = sent,
         y.handed = handed, ended' \in 0 .. Ends, lapsed' \in 0 .. Lapses,
         proc[p].entry[k].phase = "receipt" => k \in y.receipts \cup y.cut
  PROVE  OutputInv'
<1>1. /\ h \in Work /\ h.row = row /\ h.dead = dead /\ h.me = proc[p]
      /\ RowFits(k, row[k], dead, Now)
  BY Attempted
<1> HIDE DEF Commit
<1>2. CASE h.me.status = "up" /\ Holder(h, p, k)
  <2>1. /\ t \in Work /\ h.dead \subseteq t.dead /\ t.me.status = h.me.status
        /\ \A j \in Key : j # k => t.row[j] = h.row[j] /\ t.me.entry[j] = h.me.entry[j]
        /\ t.me.entry[k].phase = "ended" /\ (t.me.entry[k].listed => h.me.entry[k].listed)
        /\ h.row[k] \in OutputRow /\ h.row[k] # NoRow
        /\ (t.row[k] = NoRow /\ k \in t.dead) \/ t.row[k] = Pending(h.row[k], FALSE)
    <3>1. FailedUnder(h, k, t)
      BY <1>1, <1>2, FailsOver
    <3> QED  BY <3>1 DEF FailedUnder
  <2>2. RowFits(k, row[k], t.dead, y)
    <3>1. y.handed[k] > 0 => Now.handed[k] > 0
      BY DEF Now
    <3> QED  BY <1>1, <2>1, <3>1, RowGrows
  <2>3. CASE t.row[k] = NoRow /\ k \in t.dead
    <3>1. RowFits(k, t.row[k], t.dead, y) /\ ~Live(t.row[k])
      BY <2>3 DEF RowFits, Live
    <3> QED  BY <1>1, <1>2, <2>1, <3>1, OwnerEnds
  <2>4. CASE t.row[k] = Pending(h.row[k], FALSE)
    <3>1. /\ t.row[k] \in OutputRow /\ t.row[k].stage = row[k].stage /\ ~Live(t.row[k])
      BY <1>1, <2>1, <2>4, GivingBack
    <3>2. t.row[k] # NoRow /\ row[k] # NoRow
      BY <1>1, <2>1, <3>1, OutputConstants
    <3>3. RowFits(k, t.row[k], t.dead, y)
      BY <2>2, <3>1, <3>2 DEF RowFits
    <3> QED  BY <1>1, <1>2, <2>1, <3>1, <3>3, OwnerEnds
  <2> QED  BY <2>1, <2>3, <2>4
<1>3. CASE ~(h.me.status = "up" /\ Holder(h, p, k))
  <2>1. t \in {Leaves(h, k), ClaimMiss(h, k)}
    BY <1>3 DEF Fails
  <2>2. t \in After(p, h) /\ \A j \in Key : j # k => t.me.entry[j] = h.me.entry[j]
    BY <1>1, <2>1, LeavesStays, MissStays
  <2> QED  BY <2>2, HandledAttempt
<1> QED  BY <1>2, <1>3

LEMMA IngestFailsKeeps ==
  ASSUME OutputInv, NEW p \in Process, NEW k \in Key, IngestFails(p, k)
  PROVE  OutputInv'
<1>1. PICK h : h = Here(p)
  OBVIOUS
<1>2. PICK t \in {Fails(h, p, k, TRUE), Fails(h, p, k, FALSE)} : Commit(p, t)
  BY <1>1 DEF IngestFails
<1>3. PICK y : y = Now'
  OBVIOUS
<1>4. /\ y \in Facts /\ Grows(Now, y) /\ y.handed = handed /\ y.receipts = receipts
      /\ y.sent = sent /\ ended' \in 0 .. Ends /\ lapsed' \in 0 .. Lapses
  BY <1>3 DEF IngestFails, Now, Facts, Grows, OutputInv, Typed
<1>5. proc[p].entry[k].phase = "ingest" /\ "ingest" \in Runs
  BY DEF IngestFails, In, Runs, Asynchronous
<1> HIDE DEF Commit
<1> QED  BY <1>1, <1>2, <1>3, <1>4, <1>5, FailureKeeps

LEMMA StepFailsKeeps ==
  ASSUME OutputInv, NEW p \in Process, NEW k \in Key, StepFails(p, k)
  PROVE  OutputInv'
<1>1. PICK h : h = Here(p)
  OBVIOUS
<1>2. PICK t \in {Fails(h, p, k, FALSE)} : Commit(p, t)
  BY <1>1 DEF StepFails
<1>3. PICK y : y = Now'
  OBVIOUS
<1>4. /\ y \in Facts /\ Grows(Now, y) /\ y.handed = handed /\ y.receipts = receipts
      /\ y.sent = sent /\ ended' \in 0 .. Ends /\ lapsed' \in 0 .. Lapses
  BY <1>3 DEF StepFails, CutOff, effects, Now, Facts, Grows, OutputInv, Typed
<1>5. proc[p].entry[k].phase \in Runs
  BY DEF StepFails, In, Runs, Asynchronous, Synchronous
<1>6. proc[p].entry[k].phase = "receipt" => k \in y.receipts \cup y.cut
  BY <1>3 DEF StepFails, CutOff, effects, Now, In
<1> HIDE DEF Commit
<1> QED  BY <1>1, <1>2, <1>3, <1>4, <1>5, <1>6, FailureKeeps

LEMMA ReturnKeeps ==
  ASSUME OutputInv, NEW p \in Process, NEW k \in Key, Return(p, k)
  PROVE  OutputInv'
<1> DEFINE e == proc[p].entry[k]
<1>1. PICK h : h = Here(p)
  OBVIOUS
<1>2. PICK t \in {Settles(h, p, k)} : Commit(p, t)
  BY <1>1 DEF Return
<1>3. PICK y : y = Now
  OBVIOUS
<1>4. /\ y = Now' /\ y \in Facts /\ Grows(Now, y) /\ y.receipts = receipts /\ y.sent = sent
      /\ y.handed = handed /\ ended' \in 0 .. Ends /\ lapsed' \in 0 .. Lapses
  BY <1>3, Unmoved, GrowsSame DEF Return
<1>5. e.phase = "returned" /\ e.phase \in Runs
  BY DEF Return, In, Runs, Asynchronous
<1>6. /\ h \in Work /\ h.row = row /\ h.dead = dead /\ h.me = proc[p]
      /\ RowFits(k, row[k], dead, Now) /\ Written(k, e, Now)
  BY <1>1, <1>5, Attempted
<1> HIDE DEF Commit
<1>7. CASE t = Leaves([h EXCEPT !.row[k] = NoRow], k) /\ Holder(h, p, k)
  <2> DEFINE x == [row EXCEPT ![k] = NoRow]
             u == [h EXCEPT !.row = x]
  <2>1. t = Leaves(u, k)
    BY <1>6, <1>7 DEF Work
  <2>2. NoRow \in OutputRow \cup {NoRow}
    OBVIOUS
  <2>3. x \in Rows /\ x[k] = NoRow /\ \A j \in Key : j # k => x[j] = row[j]
    BY <1>6, <2>2, RowWritten
  <2> HIDE DEF x
  <2>4. u \in Work /\ u.row = x /\ u.dead = dead /\ u.me = proc[p]
    BY <1>6, <2>3 DEF Work
  <2> HIDE DEF u
  <2>5. /\ t \in Work /\ t.row = u.row /\ t.dead = u.dead /\ t.me.status = u.me.status
        /\ t.me.entry[k].phase = "ended" /\ ~t.me.entry[k].listed
        /\ \A j \in Key : j # k => t.me.entry[j] = u.me.entry[j]
    BY <2>1, <2>4, LeavesStays
  <2>6. k \in y.history \cap y.stream \cap y.receipts
    BY <1>3, <1>5, <1>6 DEF Written
  <2>7. RowFits(k, t.row[k], t.dead, y) /\ ~Live(t.row[k])
    BY <2>3, <2>4, <2>5, <2>6 DEF RowFits, Live
  <2> QED  BY <1>1, <1>2, <1>4, <1>5, <1>7, <2>3, <2>4, <2>5, <2>7, OwnerEnds
<1>8. CASE t \in {LosesClaim(h, k), Leaves(h, k)}
  <2>1. t \in After(p, h) /\ \A j \in Key : j # k => t.me.entry[j] = h.me.entry[j]
    BY <1>6, <1>8, LeavesStays, LosesStays
  <2> QED  BY <1>1, <1>2, <1>4, <1>5, <2>1, HandledAttempt
<1>9. \/ t = Leaves([h EXCEPT !.row[k] = NoRow], k) /\ Holder(h, p, k)
      \/ t \in {LosesClaim(h, k), Leaves(h, k)}
  BY <1>2 DEF Settles
<1> QED  BY <1>7, <1>8, <1>9

-----------------------------------------------------------------------------
(* Handing over, processes and time                                          *)

LEMMA BlockEndsKeeps ==
  ASSUME OutputInv, NEW p \in Process, BlockEnds(p)
  PROVE  OutputInv'
<1> DEFINE x == [proc[p] EXCEPT !.blocked = {}]
<1>1. PICK h : h = Here(p)
  OBVIOUS
<1>2. PICK y : y = Now
  OBVIOUS
<1>3. /\ y = Now' /\ y \in Facts /\ Grows(Now, y) /\ y.receipts = receipts /\ y.sent = sent
      /\ y.handed = handed /\ ended' \in 0 .. Ends /\ lapsed' \in 0 .. Lapses
  BY <1>2, Unmoved, GrowsSame DEF BlockEnds
<1>4. h \in Work /\ h.row = row /\ h.dead = dead /\ h.me = proc[p]
  BY <1>1, NowIsKnown DEF OutputInv
<1>5. proc[p] \in Queue /\ proc \in [Process -> Queue]
  BY DEF OutputInv, Typed
<1>6. x \in Queue /\ x.status = h.me.status /\ x.entry = h.me.entry
  BY <1>4, <1>5 DEF Queue
<1>7. PICK t : t = [h EXCEPT !.me = x]
  OBVIOUS
<1>8. proc' = [proc EXCEPT ![p] = x] /\ row' = row /\ dead' = dead
  BY <1>5 DEF BlockEnds
<1> HIDE DEF x
<1>9. t \in After(p, h) /\ t.me = x /\ t.row = row /\ t.dead = dead
  BY <1>4, <1>6, <1>7, FlagStays, QueueWritten
<1>10. Commit(p, t)
  BY <1>8, <1>9 DEF Commit
<1>11. proc[p].status # "down"
  BY UpIfBusy DEF BlockEnds
<1>12. ASSUME NEW j \in Key
       PROVE  /\ RowFits(j, h.row[j], h.dead, y) /\ EntryFits(p, j, h.row[j], h.me.entry[j], y)
              /\ OthersKeep(p, row[j], h.row[j])
              /\ proc[p].entry[j].phase = "receipt" =>
                   j \in y.receipts \cup y.cut \/ t.me.entry[j].phase = "receipt"
  BY <1>2, <1>4, <1>6, <1>9 DEF OutputInv, OthersKeep
<1> HIDE DEF Commit
<1> QED  BY <1>3, <1>4, <1>9, <1>10, <1>11, <1>12, Handled

LEMMA StartKeeps ==
  ASSUME OutputInv, NEW p \in Process, Start(p)
  PROVE  OutputInv'
<1> DEFINE x == [proc[p] EXCEPT !.status = "up"]
<1>1. PICK h : h = Here(p)
  OBVIOUS
<1>2. PICK y : y = Now
  OBVIOUS
<1>3. /\ y = Now' /\ y \in Facts /\ Grows(Now, y) /\ y.receipts = receipts /\ y.sent = sent
      /\ y.handed = handed /\ ended' \in 0 .. Ends /\ lapsed' \in 0 .. Lapses
  BY <1>2, Unmoved, GrowsSame DEF Start
<1>4. h \in Work /\ h.row = row /\ h.dead = dead /\ h.me = proc[p]
  BY <1>1, NowIsKnown DEF OutputInv
<1>5. PICK s : s = [h EXCEPT !.me = x]
  OBVIOUS
<1>6. PICK t \in {PumpRecovery(s, p)} : Commit(p, t)
  <2>1. [h EXCEPT !.me.status = "up"] = s
    BY <1>4, <1>5 DEF Work
  <2> QED  BY <1>1, <2>1 DEF Start
<1>7. x \in Queue /\ x.status = "up" /\ x.entry = proc[p].entry
  BY <1>4, WorkFields DEF Queue
<1> HIDE DEF x, Commit
<1>8. s \in Work /\ s.row = row /\ s.dead = dead /\ s.me = x
  BY <1>4, <1>5, <1>7, QueueWritten
<1>9. t \in After(p, s) /\ s.me.status # "down"
  BY <1>6, <1>7, <1>8, PumpStays
<1>10. ASSUME NEW j \in Key PROVE proc[p].entry[j].phase # "receipt"
  <2>1. proc[p] = Fresh
    BY DEF Start, OutputInv, DownIsFresh
  <2> QED  BY <2>1 DEF Fresh, NoEntry
<1>11. ASSUME NEW j \in Key
       PROVE  /\ RowFits(j, s.row[j], s.dead, y) /\ EntryFits(p, j, s.row[j], s.me.entry[j], y)
              /\ OthersKeep(p, row[j], s.row[j])
  BY <1>2, <1>7, <1>8 DEF OutputInv, OthersKeep
<1> QED  BY <1>3, <1>6, <1>8, <1>9, <1>10, <1>11, Handled

LEMMA EndKeeps ==
  ASSUME OutputInv, NEW p \in Process, End(p)
  PROVE  OutputInv'
<1> DEFINE x == [k \in Key |-> IF row[k] # NoRow /\ row[k].worker = p
                               THEN [row[k] EXCEPT !.worker = Nobody] ELSE row[k]]
<1>1. PICK y : y = Now'
  OBVIOUS
<1>2. /\ y \in Facts /\ Grows(Now, y) /\ y.handed = handed /\ y.receipts = receipts
      /\ y.sent = sent /\ y.cut = cut \cup (Running(proc[p]) \ receipts)
      /\ ended' \in 0 .. Ends /\ lapsed' \in 0 .. Lapses
  <2>1. ended' \in 0 .. Ends
    BY OutputConstants DEF End, OutputInv, Typed
  <2>2. Running(proc[p]) \subseteq Key
    BY DEF Running
  <2> QED  BY <1>1, <2>1, <2>2 DEF End, CutOff, effects, Now, Facts, Grows, OutputInv, Typed
<1>3. row \in Rows /\ dead \in SUBSET Key
  BY DEF OutputInv, Typed
<1>4. PICK r2 : r2 = x
  OBVIOUS
<1>5. row' = r2 /\ dead' = dead /\ proc' = [proc EXCEPT ![p] = Fresh]
  BY <1>4 DEF End
<1>6. ASSUME NEW k \in Key
      PROVE  /\ row[k] = NoRow => r2[k] = NoRow
             /\ row[k] # NoRow => /\ r2[k] \in OutputRow /\ r2[k].stage = row[k].stage
                                  /\ \/ r2[k] = row[k]
                                     \/ row[k].worker = p /\ r2[k].worker = Nobody
             /\ r2[k] \in OutputRow \cup {NoRow}
  <2>1. row[k] \in OutputRow \cup {NoRow} /\ r2[k] = x[k]
    BY <1>3, <1>4 DEF Rows
  <2>2. CASE row[k] # NoRow /\ row[k].worker = p
    <3>1. row[k] \in OutputRow /\ r2[k] = [row[k] EXCEPT !.worker = Nobody]
      BY <2>1, <2>2
    <3> QED  BY <2>2, <3>1 DEF OutputRow
  <2>3. CASE ~(row[k] # NoRow /\ row[k].worker = p)
    BY <2>1, <2>3
  <2> QED  BY <2>2, <2>3
<1>7. r2 \in Rows
  <2>1. r2 = [k \in Key |-> r2[k]]
    BY <1>4
  <2> QED  BY <1>6, <2>1 DEF Rows
<1> HIDE DEF x
<1>8. Fresh \in Queue /\ \A k \in Key : Fresh.entry[k] = NoEntry
  BY Statuses DEF Fresh, Queue, NoEntry, Entry
<1>9. NoEntry.phase = "none" /\ ~NoEntry.listed
  BY DEF NoEntry
<1>10. PICK t : t = [row |-> r2, dead |-> dead, me |-> Fresh]
  OBVIOUS
<1>11. t \in Work /\ t.row = r2 /\ t.dead = dead /\ t.me = Fresh
  BY <1>3, <1>7, <1>8, <1>10 DEF Work
<1>12. Commit(p, t)
  BY <1>5, <1>11 DEF Commit
<1>13. ASSUME NEW k \in Key
       PROVE  /\ RowFits(k, t.row[k], t.dead, y) /\ EntryFits(p, k, t.row[k], t.me.entry[k], y)
              /\ OthersKeep(p, row[k], t.row[k]) /\ SentFits(k, y)
              /\ k \notin y.receipts \ (receipts \cup y.cut)
  <2>1. RowFits(k, row[k], dead, Now) /\ SentFits(k, Now)
    BY DEF OutputInv
  <2>2. RowFits(k, row[k], dead, y)
    <3>1. y.handed[k] > 0 => Now.handed[k] > 0
      BY <1>2 DEF Now
    <3> QED  BY <1>2, <2>1, <3>1, RowGrows
  <2>3. r2[k] = NoRow <=> row[k] = NoRow
    BY <1>6, OutputConstants
  <2>4. RowFits(k, r2[k], dead, y)
    BY <1>6, <2>2, <2>3 DEF RowFits
  <2>5. SentFits(k, y)
    BY <1>2, <2>1 DEF SentFits, Grows, Now
  <2>6. EntryFits(p, k, r2[k], NoEntry, y)
    BY <1>9, Statuses DEF EntryFits, Written, Claims, Synchronous
  <2>7. OthersKeep(p, row[k], r2[k])
    BY <1>6, <2>3 DEF OthersKeep, Live
  <2> QED  BY <1>2, <1>8, <1>11, <2>4, <2>5, <2>6, <2>7
<1>14. ASSUME NEW k \in Key, y.sent[k] > 0, k \notin y.receipts \cup y.cut
       PROVE  \E o \in Process : o # p /\ proc[o].entry[k].phase = "receipt"
  <2>1. sent[k] > 0 /\ k \notin receipts \cup cut /\ k \notin Running(proc[p])
    BY <1>2, <1>14
  <2>2. PICK o \in Process : proc[o].entry[k].phase = "receipt"
    BY <2>1 DEF OutputInv, AtReceipt
  <2>3. o # p
    BY <2>1, <2>2 DEF Running, Synchronous
  <2> QED  BY <2>2, <2>3
<1> HIDE DEF Commit
<1> QED  BY <1>1, <1>2, <1>11, <1>12, <1>13, <1>14, Keeps

\* Time passes over a row without a claim to lose, or cuts its delivery off.
LEMMA TimeKeeps ==
  ASSUME OutputInv, NEW k \in Key, NEW q \in OutputRow, row' = [row EXCEPT ![k] = q],
         row[k] # NoRow, q.stage = row[k].stage, ~Live(q),
         Live(row[k]) => k \in cut' \cup receipts,
         cut' \in SUBSET Key, cut \subseteq cut', lapsed' \in 0 .. Lapses,
         UNCHANGED <<dead, proc, effects, handed, ended>>
  PROVE  OutputInv'
<1>1. PICK y : y = Now'
  OBVIOUS
<1>2. /\ y \in Facts /\ Grows(Now, y) /\ y.handed = handed /\ y.receipts = receipts
      /\ y.sent = sent /\ y.cut = cut'
  BY <1>1 DEF effects, Now, Facts, Grows, OutputInv, Typed
<1>3. /\ row' \in Rows /\ row'[k] = q /\ \A j \in Key : j # k => row'[j] = row[j]
  BY DEF OutputInv, Typed, Rows
<1>4. Typed'
  BY <1>3 DEF OutputInv, Typed, effects
<1>5. DownIsFresh'
  BY DEF OutputInv, DownIsFresh, Fresh
<1>6. q # NoRow
  BY OutputConstants
<1>7. ASSUME NEW j \in Key
      PROVE  RowFits(j, row'[j], dead', y) /\ SentFits(j, y) /\ AtReceipt(j)'
  <2>1. RowFits(j, row[j], dead, Now) /\ SentFits(j, Now) /\ AtReceipt(j)
    BY DEF OutputInv
  <2>2. RowFits(j, row[j], dead, y)
    <3>1. y.handed[j] > 0 => Now.handed[j] > 0
      BY <1>2 DEF Now
    <3> QED  BY <1>2, <2>1, <3>1, RowGrows
  <2>3. RowFits(j, row'[j], dead', y)
    <3>1. CASE j = k
      BY <1>3, <1>6, <2>2, <3>1 DEF RowFits
    <3>2. CASE j # k
      BY <1>3, <2>2, <3>2
    <3> QED  BY <3>1, <3>2
  <2>4. SentFits(j, y)
    BY <1>2, <2>1 DEF SentFits, Grows, Now
  <2>5. AtReceipt(j)'
    BY <2>1 DEF AtReceipt, effects
  <2> QED  BY <2>3, <2>4, <2>5
<1>8. ASSUME NEW o \in Process, NEW j \in Key
      PROVE  EntryFits(o, j, row'[j], proc'[o].entry[j], y)
  <2>1. EntryFits(o, j, row[j], proc[o].entry[j], Now)
    BY DEF OutputInv
  <2>2. EntryFits(o, j, row[j], proc[o].entry[j], y)
    BY <1>2, <2>1, EntryGrows DEF Now
  <2>3. CASE j # k
    BY <1>3, <2>2, <2>3
  <2>4. CASE j = k
    <3>1. ~Holds(q, proc[o].entry[k].id, o, proc[o].entry[k].claim)
      BY DEF Holds, Live, IsRow
    <3>2. k \notin y.cut \cup y.receipts => proc[o].entry[k].phase \notin Runs
      <4> SUFFICES ASSUME k \notin y.cut \cup y.receipts, proc[o].entry[k].phase \in Runs
                   PROVE  FALSE
        OBVIOUS
      <4>1. Holds(row[k], proc[o].entry[k].id, o, proc[o].entry[k].claim)
        BY <2>2, <2>4 DEF EntryFits, Claims
      <4>2. Live(row[k])
        BY <4>1 DEF Holds, IsRow, Live
      <4> QED  BY <1>2, <4>2
    <3>3. EntryFits(o, k, q, proc[o].entry[k], y)
      BY <2>2, <2>4, <3>1, <3>2 DEF EntryFits, Claims
    <3> QED  BY <1>3, <2>4, <3>3
  <2> QED  BY <2>3, <2>4
<1> QED  BY <1>1, <1>4, <1>5, <1>7, <1>8 DEF OutputInv

LEMMA ClaimExpiresKeeps ==
  ASSUME OutputInv, NEW k \in Key, ClaimExpires(k)
  PROVE  OutputInv'
<1> DEFINE q == ClaimLapses(row[k])
<1>1. row \in Rows /\ row[k] \in OutputRow /\ row[k] # NoRow
  BY DEF ClaimExpires, OutputInv, Typed, Rows
<1>2. q \in OutputRow /\ q.stage = row[k].stage /\ ~Live(q)
  BY <1>1 DEF ClaimLapses, OutputRow, Live
<1>3. row' = [row EXCEPT ![k] = q]
  BY DEF ClaimExpires
<1>4. k \in cut' \cup receipts /\ cut' \in SUBSET Key /\ cut \subseteq cut'
  BY DEF ClaimExpires, CutOff, OutputInv, Typed
<1>5. lapsed' \in 0 .. Lapses
  BY OutputConstants DEF ClaimExpires, OutputInv, Typed
<1>6. UNCHANGED <<dead, proc, effects, handed, ended>>
  BY DEF ClaimExpires
<1> HIDE DEF q
<1> QED  BY <1>1, <1>2, <1>3, <1>4, <1>5, <1>6, TimeKeeps

LEMMA RetryComesDueKeeps ==
  ASSUME OutputInv, NEW k \in Key, RetryComesDue(k)
  PROVE  OutputInv'
<1> DEFINE q == BecomesDue(row[k])
<1>1. row \in Rows /\ row[k] \in OutputRow /\ row[k] # NoRow
  BY DEF RetryComesDue, OutputInv, Typed, Rows
<1>2. q \in OutputRow /\ q.stage = row[k].stage /\ ~Live(q) /\ ~Live(row[k])
  BY <1>1 DEF RetryComesDue, BecomesDue, OutputRow, Live
<1>3. row' = [row EXCEPT ![k] = q]
  BY DEF RetryComesDue
<1>4. /\ cut' \in SUBSET Key /\ cut \subseteq cut' /\ lapsed' \in 0 .. Lapses
      /\ UNCHANGED <<dead, proc, effects, handed, ended>>
  BY DEF RetryComesDue, OutputInv, Typed
<1> HIDE DEF q
<1> QED  BY <1>1, <1>2, <1>3, <1>4, TimeKeeps

LEMMA Releasing ==
  ASSUME NEW r \in OutputRow, NEW q, q = Released(r)
  PROVE  q = NoRow \/ (q \in OutputRow /\ q.stage = r.stage /\ ~Live(q))
<1>1. /\ Pending(r, TRUE) \in OutputRow /\ Pending(r, TRUE).stage = r.stage
      /\ ~Live(Pending(r, TRUE))
  BY GivingBack
<1> QED  BY <1>1 DEF Released

LEMMA Dropping ==
  ASSUME NEW e \in Entry
  PROVE  /\ Dropped(e) \in Entry /\ ~Dropped(e).listed
         /\ Dropped(e).phase \in Runs => Same(e, Dropped(e))
<1>1. CASE e.phase = "idle"
  <2>1. NoEntry \in Entry /\ ~NoEntry.listed /\ NoEntry.phase \notin Runs
    BY Statuses DEF NoEntry, Entry
  <2> QED  BY <1>1, <2>1 DEF Dropped
<1>2. CASE e.phase # "idle"
  <2> DEFINE b == e.phase \in Asynchronous
             f == [e EXCEPT !.listed = FALSE, !.timer = FALSE, !.aborted = b]
  <2>1. b \in BOOLEAN
    OBVIOUS
  <2>2. Dropped(e) = f
    BY <1>2 DEF Dropped
  <2> HIDE DEF b
  <2>3. f \in Entry /\ ~f.listed /\ Same(e, f)
    BY <2>1 DEF Entry, Same
  <2> QED  BY <2>2, <2>3
<1> QED  BY <1>1, <1>2

LEMMA DisposeKeeps ==
  ASSUME OutputInv, NEW p \in Process, Dispose(p)
  PROVE  OutputInv'
<1> DEFINE claimed == {k \in Listed(proc[p]) : /\ proc[p].entry[k].phase \in Asynchronous
                                               /\ Holder(Here(p), p, k)}
           w == [k \in Key |-> IF k \in Listed(proc[p]) THEN Dropped(proc[p].entry[k])
                               ELSE proc[p].entry[k]]
           me == [proc[p] EXCEPT !.entry = w, !.status = "disposed", !.blocked = {},
                                 !.recovery = FALSE]
           x == [k \in Key |-> IF k \in claimed THEN Released(row[k]) ELSE row[k]]
           gone == {k \in claimed : Released(row[k]) = NoRow}
<1>1. PICK h : h = Here(p)
  OBVIOUS
<1>2. h \in Work /\ h.row = row /\ h.dead = dead /\ h.me = proc[p]
  BY <1>1, NowIsKnown DEF OutputInv
<1>3. PICK D : D = dead \cup gone
  OBVIOUS
<1>4. PICK u : u = [h EXCEPT !.row = x, !.dead = D, !.me = me]
  OBVIOUS
<1>5. PICK t : t = Notify(u) /\ Commit(p, t)
  <2>1. Disposed(h, p) = Notify(u)
    BY <1>1, <1>2, <1>3, <1>4 DEF Disposed
  <2> QED  BY <1>1, <2>1 DEF Dispose
<1>6. PICK y : y = Now'
  OBVIOUS
<1>7. /\ y \in Facts /\ Grows(Now, y) /\ y.handed = handed /\ y.receipts = receipts
      /\ y.sent = sent /\ y.cut = cut \cup (Running(proc[p]) \ receipts)
      /\ ended' \in 0 .. Ends /\ lapsed' \in 0 .. Lapses
  <2>1. ended' \in 0 .. Ends
    BY OutputConstants DEF Dispose, OutputInv, Typed
  <2>2. Running(proc[p]) \subseteq Key
    BY DEF Running
  <2> QED  BY <1>6, <2>1, <2>2 DEF Dispose, CutOff, effects, Now, Facts, Grows, OutputInv, Typed
<1>8. \A k \in claimed : Holds(row[k], proc[p].entry[k].id, p, proc[p].entry[k].claim)
  BY <1>1, <1>2 DEF Holder
<1>9. claimed \in SUBSET Key /\ gone \subseteq claimed
  BY DEF Listed
<1>10. PICK r2 : r2 = x
  OBVIOUS
<1>11. ASSUME NEW k \in Key
       PROVE  /\ k \notin claimed => r2[k] = row[k]
              /\ k \in claimed => /\ row[k] \in OutputRow /\ row[k].worker = p
                                  /\ \/ r2[k] = NoRow /\ k \in D
                                     \/ r2[k] \in OutputRow /\ r2[k].stage = row[k].stage
                                        /\ ~Live(r2[k])
              /\ row[k] \in OutputRow \cup {NoRow} /\ r2[k] \in OutputRow \cup {NoRow}
  <2>1. row[k] \in OutputRow \cup {NoRow}
    BY <1>2, WorkFields
  <2>2. r2[k] = IF k \in claimed THEN Released(row[k]) ELSE row[k]
    BY <1>10
  <2>3. k \in claimed /\ Released(row[k]) = NoRow => k \in D
    BY <1>3
  <2> HIDE DEF claimed
  <2>4. k \in claimed => row[k] \in OutputRow /\ row[k].worker = p
    BY <1>8, <2>1 DEF Holds, IsRow
  <2>5. CASE k \in claimed
    BY <2>1, <2>2, <2>3, <2>4, <2>5, Releasing
  <2>6. CASE k \notin claimed
    BY <2>1, <2>2, <2>6
  <2> QED  BY <2>5, <2>6
<1>12. r2 \in Rows
  <2>1. r2 = [k \in Key |-> r2[k]]
    BY <1>10
  <2> QED  BY <1>11, <2>1 DEF Rows
<1>13. ASSUME NEW k \in Key
       PROVE  /\ w[k] \in Entry
              /\ w[k].phase \in Runs => Same(proc[p].entry[k], w[k])
              /\ w[k].listed => proc[p].entry[k].listed
  <2>1. proc[p].entry[k] \in Entry
    BY <1>2, WorkFields
  <2> QED  BY <2>1, Dropping DEF Same
<1>14. D \in SUBSET Key /\ dead \subseteq D
  BY <1>2, <1>3, <1>9, WorkFields
<1>15. PICK f : f = w
  OBVIOUS
<1>16. f \in [Key -> Entry]
  BY <1>13, <1>15
<1>17. me \in Queue /\ me.status = "disposed" /\ me.entry = f
  <2>1. me = [proc[p] EXCEPT !.entry = f, !.status = "disposed", !.blocked = {}, !.recovery = FALSE]
    BY <1>15
  <2>2. proc[p] \in Queue
    BY <1>2, WorkFields
  <2> HIDE DEF me
  <2> QED  BY <1>16, <2>1, <2>2 DEF Queue
<1>18. u \in Work /\ u.row = r2 /\ u.dead = D /\ u.me = me
  <2> HIDE DEF me, x
  <2> QED  BY <1>2, <1>4, <1>10, <1>12, <1>14, <1>17 DEF Work
<1>19. /\ t \in Work /\ t.row = r2 /\ t.dead = D /\ t.me.entry = f /\ t.me.status = "disposed"
  <2> HIDE DEF me, x
  <2>1. Notify(u) \in After(p, u) /\ Notify(u).row = u.row /\ Notify(u).dead = u.dead
        /\ Notify(u).me.entry = u.me.entry /\ Notify(u).me.status = u.me.status
    BY <1>18, NotifyStays
  <2> QED  BY <1>5, <1>17, <1>18, <2>1 DEF After
<1>20. ASSUME NEW k \in Key
       PROVE  /\ RowFits(k, t.row[k], t.dead, y) /\ EntryFits(p, k, t.row[k], t.me.entry[k], y)
              /\ OthersKeep(p, row[k], t.row[k]) /\ SentFits(k, y)
              /\ k \notin y.receipts \ (receipts \cup y.cut)
  <2> HIDE DEF claimed, w, me, x, gone
  <2>1. /\ RowFits(k, row[k], dead, Now) /\ SentFits(k, Now)
        /\ EntryFits(p, k, row[k], proc[p].entry[k], Now)
    BY DEF OutputInv
  <2>2. RowFits(k, row[k], D, y)
    <3>1. y.handed[k] > 0 => Now.handed[k] > 0
      BY <1>7 DEF Now
    <3> QED  BY <1>7, <1>14, <2>1, <3>1, RowGrows
  <2>3. SentFits(k, y)
    BY <1>7, <2>1 DEF SentFits, Grows, Now
  <2>4. EntryFits(p, k, row[k], proc[p].entry[k], y)
    BY <1>7, <2>1, EntryGrows DEF Now
  <2>5. /\ f[k].phase \in Runs => Same(proc[p].entry[k], f[k])
        /\ f[k].listed => proc[p].entry[k].listed
    BY <1>13, <1>15
  <2>6. Written(k, f[k], y) /\ (f[k].listed => y.handed[k] > 0)
    <3>1. CASE f[k].phase \in Runs
      BY <2>4, <2>5, <3>1 DEF EntryFits, Written, Same
    <3>2. CASE f[k].phase \notin Runs
      BY <2>4, <2>5, <3>2 DEF EntryFits, Written, Runs, Asynchronous, Synchronous
    <3> QED  BY <3>1, <3>2
  <2>7. f[k].phase \in Runs => k \in y.cut \cup y.receipts
    BY <1>7, <2>5 DEF Running, Runs, Same
  <2>8. CASE k \in claimed
    <3>1. row[k] \in OutputRow /\ row[k].worker = p /\ row[k] # NoRow
      BY <1>11, <2>8, OutputConstants
    <3>2. \/ r2[k] = NoRow /\ k \in D
          \/ r2[k] \in OutputRow /\ r2[k] # NoRow /\ r2[k].stage = row[k].stage /\ ~Live(r2[k])
      BY <1>11, <2>8, OutputConstants
    <3>3. ~Live(r2[k])
      BY <3>2 DEF Live
    <3>4. RowFits(k, r2[k], D, y)
      BY <2>2, <3>1, <3>2 DEF RowFits
    <3>5. OthersKeep(p, row[k], r2[k])
      BY <3>1, <3>3 DEF OthersKeep
    <3>6. ~Holds(r2[k], f[k].id, p, f[k].claim)
      BY <3>3 DEF Holds, IsRow, Live
    <3>7. Claims(p, k, r2[k], f[k], y)
      BY <2>4, <2>5, <2>7, <3>6 DEF EntryFits, Claims, Same
    <3> QED  BY <1>7, <1>19, <2>3, <2>6, <3>4, <3>5, <3>7 DEF EntryFits
  <2>9. CASE k \notin claimed
    <3>1. r2[k] = row[k]
      BY <1>11, <2>9
    <3>2. OthersKeep(p, row[k], r2[k])
      BY <3>1 DEF OthersKeep
    <3>3. Claims(p, k, r2[k], f[k], y)
      BY <2>4, <2>5, <2>7, <3>1 DEF EntryFits, Claims, Same
    <3> QED  BY <1>7, <1>19, <2>2, <2>3, <2>6, <3>1, <3>2, <3>3 DEF EntryFits
  <2> QED  BY <2>8, <2>9
<1>21. ASSUME NEW k \in Key, y.sent[k] > 0, k \notin y.receipts \cup y.cut
       PROVE  \E o \in Process : o # p /\ proc[o].entry[k].phase = "receipt"
  <2>1. sent[k] > 0 /\ k \notin receipts \cup cut
    BY <1>7, <1>21
  <2>2. PICK o \in Process : proc[o].entry[k].phase = "receipt"
    BY <2>1 DEF OutputInv, AtReceipt
  <2>3. o # p
    BY <2>2, FreeOfReceipts DEF Dispose
  <2> QED  BY <2>2, <2>3
<1> HIDE DEF Commit, claimed, w, me, x, gone
<1> QED  BY <1>5, <1>6, <1>7, <1>19, <1>20, <1>21, Keeps

\* The row of an output that has none is inserted.
Inserts(r, q) == q = r \/ (r = NoRow /\ q \in OutputRow /\ q.stage = 0 /\ ~Live(q))

HandedTo(h, k, s) ==
  /\ s.me = h.me /\ h.dead \subseteq s.dead /\ Inserts(h.row[k], s.row[k])
  /\ \A j \in Key : j # k => s.row[j] = h.row[j]
  /\ h.me.entry[k].listed \/ s.row[k] # NoRow \/ k \in s.dead

LEMMA ReplayStays ==
  ASSUME NEW h \in Work, NEW p \in Process, NEW k \in Key
  PROVE  Replay(h, p, k) \in After(p, h)
<1> DEFINE x == [h.me EXCEPT !.awaited = @ \ {k}]
           a == [h EXCEPT !.me = x]
           e == [h.me.entry[k] EXCEPT !.force = TRUE]
<1>1. h.me \in Queue /\ h.me.entry[k] \in Entry
  BY WorkFields
<1>2. x \in Queue /\ x.status = h.me.status /\ x.entry = h.me.entry
  BY <1>1 DEF Queue
<1>3. [h EXCEPT !.me.awaited = @ \ {k}] = a
  BY DEF Work
<1>4. Replay(h, p, k) \in {Begin(a, p, k, TRUE), [h EXCEPT !.me.entry[k].force = TRUE]}
  BY <1>3 DEF Replay, Then
<1> HIDE DEF x
<1>5. a \in After(p, h) /\ a \in Work
  BY <1>2, FlagStays
<1> HIDE DEF a
<1>6. Begin(a, p, k, TRUE) \in After(p, h)
  <2>1. Begin(a, p, k, TRUE) \in After(p, a)
    BY <1>5, BeginStays
  <2> QED  BY <1>5, <2>1, GoingOn
<1>7. e \in Entry /\ Same(h.me.entry[k], e) /\ e.listed = h.me.entry[k].listed
  BY <1>1 DEF Entry, Same
<1>8. [h EXCEPT !.me.entry[k].force = TRUE] = [h EXCEPT !.me.entry[k] = e]
  BY <1>1 DEF Work, Queue
<1> HIDE DEF e
<1>9. [h EXCEPT !.me.entry[k] = e] \in After(p, h)
  BY <1>7, EntryStays
<1> QED  BY <1>4, <1>6, <1>8, <1>9

\* pending.set of the job of a row, and the first attempt
LEMMA AdmittedStays ==
  ASSUME NEW s \in Work, NEW p \in Process, NEW k \in Key, s.row[k] # NoRow
  PROVE  Begin(Notify(Admit(s, k)), p, k, FALSE) \in After(p, s)
<1>1. Admit(s, k) \in After(p, s) /\ Admit(s, k) \in Work
  BY AdmitStays DEF After
<1>2. Notify(Admit(s, k)) \in After(p, Admit(s, k)) /\ Notify(Admit(s, k)) \in Work
  BY <1>1, NotifyStays DEF After
<1>3. Begin(Notify(Admit(s, k)), p, k, FALSE) \in After(p, Notify(Admit(s, k)))
  BY <1>2, BeginStays
<1>4. Notify(Admit(s, k)) \in After(p, s)
  BY <1>1, <1>2, GoingOn
<1> QED  BY <1>2, <1>3, <1>4, GoingOn

LEMMA HandOverStays ==
  ASSUME NEW h \in Work, NEW p \in Process, NEW k \in Key, handed[k] \in Nat
  PROVE  \E s \in Work : HandedTo(h, k, s) /\ HandOver(h, p, k) \in After(p, s)
<1> DEFINE new == Inserted(handed[k] + 1)
<1>1. new \in OutputRow /\ new.stage = 0 /\ ~Live(new)
  BY JobAssumption DEF Inserted, OutputRow, Live
<1>2. CASE k \in Listed(h.me)
  <2>1. HandOver(h, p, k) \in After(p, h)
    BY <1>2, ReplayStays DEF HandOver
  <2> QED  BY <1>2, <2>1 DEF HandedTo, Inserts, Listed
<1>3. CASE k \notin Listed(h.me) /\ Cardinality(Listed(h.me)) >= MaxPending
  <2> DEFINE s == [h EXCEPT !.dead = @ \cup {k}]
  <2>1. HandOver(h, p, k) = s
    BY <1>3 DEF HandOver
  <2>2. s \in Work /\ s.row = h.row /\ s.me = h.me /\ s.dead = h.dead \cup {k}
    BY DEF Work
  <2> HIDE DEF s
  <2>3. s \in After(p, s)
    BY <2>2, Staying
  <2> QED  BY <2>1, <2>2, <2>3 DEF HandedTo, Inserts
<1>4. CASE k \notin Listed(h.me) /\ ~(Cardinality(Listed(h.me)) >= MaxPending)
  <2> DEFINE x == [h.row EXCEPT ![k] = new]
             s == IF h.row[k] = NoRow THEN [h EXCEPT !.row = x] ELSE h
  <2>1. HandOver(h, p, k) = Begin(Notify(Admit(s, k)), p, k, FALSE)
    BY <1>4 DEF HandOver, Then, Work
  <2> HIDE DEF new
  <2>2. x \in Rows /\ x[k] = new /\ \A j \in Key : j # k => x[j] = h.row[j]
    BY <1>1, RowWritten
  <2> HIDE DEF x
  <2>3. /\ s \in Work /\ s.me = h.me /\ s.dead = h.dead /\ s.row[k] # NoRow
        /\ Inserts(h.row[k], s.row[k]) /\ \A j \in Key : j # k => s.row[j] = h.row[j]
    BY <1>1, <2>2, OutputConstants DEF Work, Inserts
  <2> HIDE DEF s
  <2>4. Begin(Notify(Admit(s, k)), p, k, FALSE) \in After(p, s)
    BY <2>3, AdmittedStays
  <2> QED  BY <2>1, <2>3, <2>4 DEF HandedTo
<1> QED  BY <1>2, <1>3, <1>4

LEMMA EnqueueKeeps ==
  ASSUME OutputInv, NEW p \in Process, NEW k \in Key, Enqueue(p, k)
  PROVE  OutputInv'
<1>1. PICK h : h = Here(p)
  OBVIOUS
<1>2. h \in Work /\ h.row = row /\ h.dead = dead /\ h.me = proc[p]
  BY <1>1, NowIsKnown DEF OutputInv
<1>3. PICK t : t = HandOver(h, p, k) /\ Commit(p, t)
  BY <1>1 DEF Enqueue
<1>4. handed \in [Key -> Nat]
  BY DEF OutputInv, Typed
<1>5. PICK s \in Work : HandedTo(h, k, s) /\ t \in After(p, s)
  BY <1>2, <1>3, <1>4, HandOverStays
<1>6. PICK y : y = Now'
  OBVIOUS
<1>7. /\ y \in Facts /\ Grows(Now, y) /\ y.receipts = receipts /\ y.sent = sent
      /\ y.history = history /\ y.stream = stream /\ y.cut = cut
      /\ y.handed = [handed EXCEPT ![k] = @ + 1]
      /\ ended' \in 0 .. Ends /\ lapsed' \in 0 .. Lapses
  <2>1. handed' \in [Key -> Nat] /\ \A j \in Key : handed[j] > 0 => handed'[j] > 0
    BY <1>4 DEF Enqueue
  <2> QED  BY <1>6, <2>1 DEF Enqueue, effects, Now, Facts, Grows, OutputInv, Typed
<1>8. y.handed[k] > 0 /\ \A j \in Key : j # k => y.handed[j] = handed[j]
  BY <1>4, <1>7
<1>9. proc[p].status # "down" /\ Free(p)
  BY DEF Enqueue
<1>10. s.me = proc[p] /\ dead \subseteq s.dead /\ \A j \in Key : j # k => s.row[j] = row[j]
  BY <1>2, <1>5 DEF HandedTo
<1>11. ASSUME NEW j \in Key
       PROVE  /\ RowFits(j, s.row[j], s.dead, y) /\ EntryFits(p, j, s.row[j], proc[p].entry[j], y)
              /\ OthersKeep(p, row[j], s.row[j])
  <2>1. /\ RowFits(j, row[j], dead, Now) /\ EntryFits(p, j, row[j], proc[p].entry[j], Now)
    BY DEF OutputInv
  <2>2. EntryFits(p, j, row[j], proc[p].entry[j], y)
    BY <1>7, <2>1, EntryGrows DEF Now
  <2>3. CASE j # k
    <3>1. RowFits(j, row[j], s.dead, y)
      <4>1. y.handed[j] > 0 => Now.handed[j] > 0
        BY <1>8, <2>3 DEF Now
      <4> QED  BY <1>7, <1>10, <2>1, <4>1, RowGrows
    <3> QED  BY <1>10, <2>2, <2>3, <3>1 DEF OthersKeep
  <2>4. CASE j = k
    <3>1. Inserts(row[k], s.row[k]) /\ (proc[p].entry[k].listed \/ s.row[k] # NoRow \/ k \in s.dead)
      BY <1>2, <1>5 DEF HandedTo
    <3>2. Now.handed = handed /\ Now.history = history /\ Now.stream = stream
          /\ Now.receipts = receipts
      BY DEF Now
    <3>3. RowFits(k, s.row[k], s.dead, y)
      <4>1. s.row[k] # NoRow => /\ s.row[k].stage >= 1 => k \in history
                                /\ s.row[k].stage >= 2 => k \in stream
        BY <2>1, <2>4, <3>1, <3>2 DEF RowFits, Inserts
      <4>2. s.row[k] # NoRow \/ k \in s.dead \/ k \in history \cap stream \cap receipts
        <5> SUFFICES ASSUME proc[p].entry[k].listed, s.row[k] = NoRow PROVE
                       k \in s.dead \/ k \in history \cap stream \cap receipts
          BY <3>1
        <5>1. row[k] = NoRow
          BY <3>1, OutputConstants DEF Inserts
        <5>2. handed[k] > 0
          BY <2>1, <2>4, <3>2 DEF EntryFits
        <5> QED  BY <1>10, <2>1, <2>4, <3>2, <5>1, <5>2 DEF RowFits
      <4> QED  BY <1>7, <1>8, <4>1, <4>2 DEF RowFits
    <3>4. OthersKeep(p, row[k], s.row[k])
      BY <3>1 DEF Inserts, OthersKeep, Live
    <3>5. EntryFits(p, k, s.row[k], proc[p].entry[k], y)
      <4>1. CASE s.row[k] = row[k]
        BY <2>2, <2>4, <4>1
      <4>2. CASE row[k] = NoRow /\ ~Live(s.row[k])
        <5>1. \A e : ~Holds(row[k], e.id, p, e.claim) /\ ~Holds(s.row[k], e.id, p, e.claim)
          BY <4>2 DEF Holds, IsRow, Live
        <5> QED  BY <2>2, <2>4, <5>1 DEF EntryFits, Claims
      <4> QED  BY <3>1, <4>1, <4>2 DEF Inserts
    <3> QED  BY <2>4, <3>3, <3>4, <3>5
  <2> QED  BY <2>3, <2>4
<1>12. ASSUME NEW j \in Key PROVE proc[p].entry[j].phase # "receipt"
  BY <1>9, FreeOfReceipts
<1> HIDE DEF Commit
<1> QED  BY <1>3, <1>5, <1>6, <1>7, <1>9, <1>10, <1>11, <1>12, Handled

-----------------------------------------------------------------------------
(* What holds of the deliveries                                              *)

LEMMA InitKeeps ==
  ASSUME Init
  PROVE  OutputInv
<1>1. Fresh \in Queue /\ \A k \in Key : Fresh.entry[k] = NoEntry
  BY Statuses DEF Fresh, Queue, NoEntry, Entry
<1>2. NoEntry.phase = "none" /\ ~NoEntry.listed
  BY DEF NoEntry
<1>3. Typed
  BY <1>1, OutputConstants DEF Init, Typed, Rows
<1>4. DownIsFresh
  BY DEF Init, DownIsFresh
<1>5. ASSUME NEW k \in Key PROVE RowFits(k, row[k], dead, Now) /\ SentFits(k, Now) /\ AtReceipt(k)
  BY DEF Init, RowFits, SentFits, AtReceipt, Now
<1>6. ASSUME NEW p \in Process, NEW k \in Key PROVE EntryFits(p, k, row[k], proc[p].entry[k], Now)
  <2>1. proc[p].entry[k] = NoEntry
    BY <1>1 DEF Init
  <2> QED  BY <1>2, <2>1, Statuses DEF EntryFits, Written, Claims, Synchronous
<1> QED  BY <1>3, <1>4, <1>5, <1>6 DEF OutputInv

LEMMA DeliveryKeeps ==
  ASSUME OutputInv, NEW p \in Process, NEW k \in Key, Delivery(p, k)
  PROVE  OutputInv'
<1>1. CASE Ingest(p, k)
  BY <1>1, IngestKeeps
<1>2. CASE IngestFails(p, k)
  BY <1>2, IngestFailsKeeps
<1>3. CASE Checkpoint(p, k)
  BY <1>3, CheckpointKeeps
<1>4. CASE Append(p, k)
  BY <1>4, AppendKeeps
<1>5. CASE StepFails(p, k)
  BY <1>5, StepFailsKeeps
<1>6. CASE Look(p, k)
  BY <1>6, LookKeeps
<1>7. CASE Send(p, k)
  BY <1>7, SendKeeps
<1>8. CASE RecordReceipt(p, k)
  BY <1>8, RecordReceiptKeeps
<1>9. CASE Return(p, k)
  BY <1>9, ReturnKeeps
<1> QED  BY <1>1, <1>2, <1>3, <1>4, <1>5, <1>6, <1>7, <1>8, <1>9 DEF Delivery

LEMMA NextKeeps ==
  ASSUME OutputInv, [Next]_vars
  PROVE  OutputInv'
<1>1. CASE UNCHANGED vars
  BY <1>1 DEF vars, effects, OutputInv, Typed, DownIsFresh, Now, AtReceipt
<1>2. ASSUME NEW p \in Process, NEW k \in Key,
             Enqueue(p, k) \/ Delivery(p, k) \/ Heartbeat(p, k) \/ Finally(p, k) \/ RetryTimer(p, k)
      PROVE  OutputInv'
  <2>1. CASE Enqueue(p, k)
    BY <2>1, EnqueueKeeps
  <2>2. CASE Delivery(p, k)
    BY <2>2, DeliveryKeeps
  <2>3. CASE Heartbeat(p, k)
    BY <2>3, HeartbeatQuiet, QuietKeeps
  <2>4. CASE Finally(p, k)
    BY <2>4, FinallyQuiet, QuietKeeps
  <2>5. CASE RetryTimer(p, k)
    BY <2>5, RetryTimerQuiet, QuietKeeps
  <2> QED  BY <1>2, <2>1, <2>2, <2>3, <2>4, <2>5
<1>3. ASSUME NEW p \in Process,
             \/ RecoveryTimer(p) \/ Drain(p) \/ DrainAgain(p) \/ BlockEnds(p)
             \/ Dispose(p) \/ End(p) \/ Start(p)
      PROVE  OutputInv'
  <2>1. CASE RecoveryTimer(p)
    BY <2>1, RecoveryTimerQuiet, QuietKeeps
  <2>2. CASE Drain(p) \/ DrainAgain(p)
    BY <2>2, DrainQuiet, QuietKeeps
  <2>3. CASE BlockEnds(p)
    BY <2>3, BlockEndsKeeps
  <2>4. CASE Dispose(p)
    BY <2>4, DisposeKeeps
  <2>5. CASE End(p)
    BY <2>5, EndKeeps
  <2>6. CASE Start(p)
    BY <2>6, StartKeeps
  <2> QED  BY <1>3, <2>1, <2>2, <2>3, <2>4, <2>5, <2>6
<1>4. ASSUME NEW k \in Key, ClaimExpires(k) \/ RetryComesDue(k)
      PROVE  OutputInv'
  <2>1. CASE ClaimExpires(k)
    BY <2>1, ClaimExpiresKeeps
  <2>2. CASE RetryComesDue(k)
    BY <2>2, RetryComesDueKeeps
  <2> QED  BY <1>4, <2>1, <2>2
<1> QED  BY <1>1, <1>2, <1>3, <1>4 DEF Next

\* Rows are owed and their checkpoints true, the phase of every delivery tells
\* what has been written, and one that was not cut off goes on under its claim
\* until its receipt: every handler of the queue and of a delivery, every crash,
\* disposal, lapse and start keeps this.
THEOREM Invariance == Spec => []OutputInv
<1>1. Init => OutputInv
  BY InitKeeps
<1>2. OutputInv /\ [Next]_vars => OutputInv'
  BY NextKeeps
<1> QED  BY <1>1, <1>2, PTL DEF Spec

\* Every variable of the queue and of the store has its type.
THEOREM TypeCorrect == Spec => []TypeOK
<1>1. OutputInv => TypeOK
  <2> SUFFICES ASSUME OutputInv PROVE TypeOK
    OBVIOUS
  <2>1. Typed
    BY DEF OutputInv
  <2>2. ASSUME NEW k \in Key, row[k] # NoRow
        PROVE  /\ row[k].attempts \in 0 .. MaxAttempts /\ row[k].stage \in 0 .. 2
               /\ row[k].state \in {"pending", "running"} /\ row[k].worker \in Process \cup {Nobody}
    BY <2>1, <2>2 DEF Typed, Rows, OutputRow
  <2>3. ASSUME NEW p \in Process
        PROVE  /\ proc[p].status \in {"up", "disposed", "down"}
               /\ \A k \in Key : proc[p].entry[k].phase \in Phase
    BY <2>1 DEF Typed, Queue, Entry
  <2> QED  BY <2>1, <2>2, <2>3 DEF TypeOK, Typed
<1> QED  BY <1>1, Invariance, PTL

\* An output handed to a queue is owed by a row, dead-lettered, or has gone
\* through history, stream and receipt, whatever crashes, lapses or is disposed of.
THEOREM NothingIsLost == Spec => []NothingLost
<1>1. OutputInv => NothingLost
  BY DEF OutputInv, RowFits, NothingLost, Now
<1> QED  BY <1>1, Invariance, PTL

\* A receipt stands for something sent, a checkpoint for projections written.
THEOREM CheckpointsAreTrue == Spec => []CheckpointsTrue
<1>1. OutputInv => CheckpointsTrue
  <2> SUFFICES ASSUME OutputInv PROVE CheckpointsTrue
    OBVIOUS
  <2>1. receipts \in SUBSET Key
    BY DEF OutputInv, Typed
  <2> QED  BY <2>1 DEF OutputInv, RowFits, SentFits, CheckpointsTrue, Now
<1> QED  BY <1>1, Invariance, PTL

\* Live listeners see an output again only if a delivery of it was cut off
\* before its receipt.
THEOREM RepeatsOnlyCut == Spec => []RepeatedOnlyIfCut
<1>1. OutputInv => RepeatedOnlyIfCut
  BY DEF OutputInv, SentFits, RepeatedOnlyIfCut, Now
<1> QED  BY <1>1, Invariance, PTL

-----------------------------------------------------------------------------
(* What a step may do to a row                                               *)

RowMoves(k) ==
  /\ (row[k] # NoRow /\ IsRow(row'[k], row[k].id)) =>
       row'[k].stage >= row[k].stage /\ row'[k].attempts >= row[k].attempts
  /\ (Live(row[k]) /\ row'[k] = NoRow) =>
       \E p \in Process : row[k].worker = p /\ proc'[p] # proc[p]

LEMMA RowNumbers ==
  ASSUME NEW r \in OutputRow
  PROVE  r.stage \in Nat /\ r.attempts \in Nat
  BY JobAssumption DEF OutputRow

LEMMA RowType ==
  ASSUME OutputInv, NEW k \in Key
  PROVE  row[k] \in OutputRow \cup {NoRow}
  BY DEF OutputInv, Typed, Rows

LEMMA RowKept ==
  ASSUME OutputInv, NEW k \in Key, row'[k] = row[k]
  PROVE  RowMoves(k)
<1>1. row[k] # NoRow => row[k].stage \in Nat /\ row[k].attempts \in Nat
  BY RowType, RowNumbers
<1> QED  BY <1>1 DEF RowMoves, Live

\* A row whose claim changes, but not what was reached and tried
LEMMA ClaimMoves ==
  ASSUME OutputInv, NEW k \in Key, row[k] # NoRow, row'[k] # NoRow,
         row'[k].stage = row[k].stage, row'[k].attempts = row[k].attempts
  PROVE  RowMoves(k)
<1>1. row[k].stage \in Nat /\ row[k].attempts \in Nat
  BY RowType, RowNumbers
<1> QED  BY <1>1 DEF RowMoves

LEMMA HandlerMoves ==
  ASSUME OutputInv, NEW p \in Process, NEW s \in Work, NEW t \in After(p, s), Commit(p, t),
         NEW k \in Key, s.row[k] = row[k]
  PROVE  RowMoves(k)
<1>1. RowGoesOn(p, row[k], row'[k])
  BY DEF After, GoesOn, Commit
<1>2. row[k] # NoRow => row[k].stage \in Nat /\ row[k].attempts \in Nat
  BY RowType, RowNumbers
<1>3. t \in Work /\ row' = t.row
  BY DEF After, Commit
<1>4. row'[k] # NoRow => row'[k].stage \in Nat /\ row'[k].attempts \in Nat
  BY <1>3, WorkFields, RowNumbers
<1> QED  BY <1>1, <1>2, <1>4 DEF RowMoves, RowGoesOn, IsRow, Live

LEMMA QuietMoves ==
  ASSUME OutputInv, NEW p \in Process, Quietly(p), NEW k \in Key
  PROVE  RowMoves(k)
<1>1. PICK h : h = Here(p)
  OBVIOUS
<1>2. PICK t \in After(p, h) : Commit(p, t)
  BY <1>1 DEF Quietly
<1>3. h \in Work /\ h.row = row
  BY <1>1, NowIsKnown DEF OutputInv
<1> QED  BY <1>2, <1>3, HandlerMoves

LEMMA EnqueueMoves ==
  ASSUME OutputInv, NEW p \in Process, NEW j \in Key, Enqueue(p, j), NEW k \in Key
  PROVE  RowMoves(k)
<1>1. PICK h : h = Here(p)
  OBVIOUS
<1>2. h \in Work /\ h.row = row
  BY <1>1, NowIsKnown DEF OutputInv
<1>3. PICK t : t = HandOver(h, p, j) /\ Commit(p, t)
  BY <1>1 DEF Enqueue
<1>4. handed[j] \in Nat
  BY DEF OutputInv, Typed
<1>5. PICK s \in Work : HandedTo(h, j, s) /\ t \in After(p, s)
  BY <1>2, <1>3, <1>4, HandOverStays
<1>6. CASE s.row[k] = row[k]
  BY <1>3, <1>5, <1>6, HandlerMoves
<1>7. CASE row[k] = NoRow
  BY <1>7 DEF RowMoves, Live
<1> QED  BY <1>2, <1>5, <1>6, <1>7 DEF HandedTo, Inserts

LEMMA FailureMoves ==
  ASSUME OutputInv, NEW p \in Process, NEW j \in Key, NEW h, h = Here(p),
         proc[p].entry[j].phase \in Runs,
         NEW t \in {Fails(h, p, j, TRUE), Fails(h, p, j, FALSE)}, Commit(p, t), NEW k \in Key
  PROVE  RowMoves(k)
<1>1. h \in Work /\ h.row = row /\ h.me = proc[p]
  BY Attempted
<1>2. row' = t.row /\ proc'[p] = t.me
  BY DEF Commit, OutputInv, Typed
<1> HIDE DEF Commit
<1>3. CASE h.me.status = "up" /\ Holder(h, p, j)
  <2>1. FailedUnder(h, j, t)
    BY <1>1, <1>3, FailsOver
  <2>2. CASE k # j
    BY <1>1, <1>2, <2>1, <2>2, RowKept DEF FailedUnder
  <2>3. CASE k = j /\ t.row[j] = NoRow
    <3>1. t.me # proc[p]
      BY <1>1, <2>1, Statuses DEF FailedUnder
    <3>2. row[j].worker = p
      BY <1>1, <1>3 DEF Holder, Holds
    <3> QED  BY <1>2, <2>3, <3>1, <3>2 DEF RowMoves, IsRow
  <2>4. CASE k = j /\ t.row[j] = Pending(row[j], FALSE)
    <3>1. row[j] \in OutputRow /\ row[j] # NoRow
      BY <1>1, <2>1 DEF FailedUnder
    <3>2. t.row[j] # NoRow /\ t.row[j].stage = row[j].stage /\ t.row[j].attempts = row[j].attempts
      BY <2>4, <3>1, GivingBack, OutputConstants
    <3> QED  BY <1>2, <2>4, <3>1, <3>2, ClaimMoves
  <2> QED  BY <1>1, <2>1, <2>2, <2>3, <2>4 DEF FailedUnder
<1>4. CASE ~(h.me.status = "up" /\ Holder(h, p, j))
  <2>1. t \in {Leaves(h, j), ClaimMiss(h, j)}
    BY <1>4 DEF Fails
  <2>2. t \in After(p, h)
    BY <1>1, <2>1, LeavesStays, MissStays
  <2> QED  BY <1>1, <2>2, HandlerMoves
<1> QED  BY <1>3, <1>4

LEMMA CheckpointMoves ==
  ASSUME OutputInv, NEW p \in Process, NEW j \in Key, Checkpoint(p, j), NEW k \in Key
  PROVE  RowMoves(k)
<1> DEFINE e == proc[p].entry[j]
<1>1. PICK h : h = Here(p)
  OBVIOUS
<1>2. e.phase \in Runs
  BY DEF Checkpoint, In, Runs, Synchronous
<1>3. /\ h \in Work /\ h.row = row /\ h.me = proc[p] /\ e \in Entry
      /\ row[j] \in OutputRow \cup {NoRow} /\ Claims(p, j, row[j], e, Now)
  BY <1>1, <1>2, Attempted
<1>4. CASE Holder(h, p, j)
  <2>1. Holds(row[j], e.id, p, e.claim) /\ row[j].stage <= e.stage
    BY <1>2, <1>3, <1>4 DEF Holder, Claims
  <2>2. row[j] \in OutputRow /\ row[j] # NoRow
    BY <1>3, <2>1 DEF Holds, IsRow
  <2>3. row' = [row EXCEPT ![j] = Updated(row[j], e.stage)]
    BY <1>1, <1>3, <1>4 DEF Checkpoint, Commit, GoTo, Work, Here
  <2>4. row \in Rows
    BY DEF OutputInv, Typed
  <2>5. CASE k = j
    <3>1. e.stage \in 0 .. 2
      BY <1>3 DEF Entry
    <3>2. PICK q : q = Updated(row[j], e.stage)
      OBVIOUS
    <3>3. q \in OutputRow /\ q.stage = e.stage /\ q.attempts = row[j].attempts
      BY <2>2, <3>1, <3>2, Updating
    <3>4. row'[k] = q /\ q # NoRow
      BY <2>3, <2>4, <2>5, <3>2, <3>3, OutputConstants DEF Rows
    <3>5. row[k].stage \in Nat /\ row[k].attempts \in Nat
      BY <2>2, <2>5, RowNumbers
    <3> QED  BY <2>1, <2>5, <3>1, <3>3, <3>4, <3>5 DEF RowMoves
  <2>6. CASE k # j
    <3>1. row'[k] = row[k]
      BY <2>3, <2>4, <2>6 DEF Rows
    <3> QED  BY <3>1, RowKept
  <2> QED  BY <2>5, <2>6
<1>5. CASE ~Holder(h, p, j)
  <2>1. PICK t : t = LosesClaim(h, j) /\ Commit(p, t)
    BY <1>1, <1>5 DEF Checkpoint
  <2>2. t \in After(p, h)
    BY <1>3, <2>1, LosesStays
  <2> QED  BY <1>3, <2>1, <2>2, HandlerMoves
<1> QED  BY <1>4, <1>5

LEMMA ReturnMoves ==
  ASSUME OutputInv, NEW p \in Process, NEW j \in Key, Return(p, j), NEW k \in Key
  PROVE  RowMoves(k)
<1>1. PICK h : h = Here(p)
  OBVIOUS
<1>2. PICK t \in {Settles(h, p, j)} : Commit(p, t)
  BY <1>1 DEF Return
<1>3. proc[p].entry[j].phase \in Runs
  BY DEF Return, In, Runs, Asynchronous
<1>4. h \in Work /\ h.row = row /\ h.dead = dead /\ h.me = proc[p]
  BY <1>1, <1>3, Attempted
<1>5. row' = t.row /\ proc'[p] = t.me
  BY <1>2 DEF Commit, OutputInv, Typed
<1> HIDE DEF Commit
<1>6. CASE t = Leaves([h EXCEPT !.row[j] = NoRow], j) /\ Holder(h, p, j)
  <2> DEFINE x == [row EXCEPT ![j] = NoRow]
             u == [h EXCEPT !.row = x]
  <2>1. t = Leaves(u, j)
    BY <1>4, <1>6 DEF Work
  <2>2. NoRow \in OutputRow \cup {NoRow}
    OBVIOUS
  <2>3. x \in Rows /\ x[j] = NoRow /\ \A i \in Key : i # j => x[i] = row[i]
    BY <1>4, <2>2, RowWritten
  <2> HIDE DEF x
  <2>4. u \in Work /\ u.row = x
    BY <1>4, <2>3 DEF Work
  <2> HIDE DEF u
  <2>5. t.row = x /\ t.me.entry[j].phase = "ended"
    BY <2>1, <2>4, LeavesStays
  <2>6. CASE k = j
    <3>1. t.me # proc[p]
      BY <1>3, <2>5, Statuses
    <3>2. row[j].worker = p
      BY <1>4, <1>6 DEF Holder, Holds
    <3> QED  BY <1>5, <2>3, <2>5, <2>6, <3>1, <3>2 DEF RowMoves, IsRow
  <2>7. CASE k # j
    BY <1>5, <2>3, <2>5, <2>7, RowKept
  <2> QED  BY <2>6, <2>7
<1>7. CASE t \in {LosesClaim(h, j), Leaves(h, j)}
  <2>1. t \in After(p, h)
    BY <1>4, <1>7, LeavesStays, LosesStays
  <2> QED  BY <1>2, <1>4, <2>1, HandlerMoves
<1>8. \/ t = Leaves([h EXCEPT !.row[j] = NoRow], j) /\ Holder(h, p, j)
      \/ t \in {LosesClaim(h, j), Leaves(h, j)}
  BY <1>2 DEF Settles
<1> QED  BY <1>6, <1>7, <1>8

LEMMA DisposeMoves ==
  ASSUME OutputInv, NEW p \in Process, Dispose(p), NEW k \in Key
  PROVE  RowMoves(k)
<1> DEFINE claimed == {j \in Listed(proc[p]) : /\ proc[p].entry[j].phase \in Asynchronous
                                               /\ Holder(Here(p), p, j)}
           w == [j \in Key |-> IF j \in Listed(proc[p]) THEN Dropped(proc[p].entry[j])
                               ELSE proc[p].entry[j]]
           me == [proc[p] EXCEPT !.entry = w, !.status = "disposed", !.blocked = {},
                                 !.recovery = FALSE]
           x == [j \in Key |-> IF j \in claimed THEN Released(row[j]) ELSE row[j]]
           gone == {j \in claimed : Released(row[j]) = NoRow}
<1>0. row' = x /\ proc'[p].status = "disposed"
  <2>1. PICK h : h = Here(p)
    OBVIOUS
  <2>2. h \in Work /\ h.row = row /\ h.dead = dead /\ h.me = proc[p]
    BY <2>1, NowIsKnown DEF OutputInv
  <2>3. PICK D : D = dead \cup gone
    OBVIOUS
  <2>4. PICK u : u = [h EXCEPT !.row = x, !.dead = D, !.me = me]
    OBVIOUS
  <2>5. PICK t : t = Notify(u) /\ Commit(p, t)
    <3>1. Disposed(h, p) = Notify(u)
      BY <2>1, <2>2, <2>3, <2>4 DEF Disposed
    <3> QED  BY <2>1, <3>1 DEF Dispose
  <2>6. PICK v : v = w
    OBVIOUS
  <2>7. me.status = "disposed" /\ DOMAIN me = DOMAIN proc[p] /\ proc[p] \in Queue
    <3>1. proc[p] \in Queue
      BY <2>2, WorkFields
    <3>2. me = [proc[p] EXCEPT !.entry = v, !.status = "disposed", !.blocked = {}, !.recovery = FALSE]
      BY <2>6
    <3> HIDE DEF me, w
    <3> QED  BY <3>1, <3>2 DEF Queue
  <2>8. PICK n : n = me
    OBVIOUS
  <2> HIDE DEF me, x, gone, w, Commit
  <2>9. u.row = x /\ u.me = n /\ n.status = "disposed" /\ DOMAIN n = DOMAIN proc[p]
        /\ DOMAIN u = DOMAIN h
    BY <2>2, <2>4, <2>7, <2>8 DEF Work
  <2>10. t.row = x /\ t.me.status = "disposed"
    <3>1. CASE t = u
      BY <2>9, <3>1
    <3>2. CASE t = [u EXCEPT !.me.drain = "again"]
      <4>1. PICK m : m = [n EXCEPT !.drain = "again"]
        OBVIOUS
      <4>2. m.status = "disposed"
        BY <2>7, <2>9, <4>1 DEF Queue
      <4>3. t = [u EXCEPT !.me = m]
        BY <2>9, <3>2, <4>1
      <4>4. t.row = u.row /\ t.me = m
        BY <2>2, <2>9, <4>3 DEF Work
      <4> QED  BY <2>9, <4>2, <4>4
    <3> QED  BY <2>5, <3>1, <3>2 DEF Notify
  <2> QED  BY <2>5, <2>10 DEF Commit, OutputInv, Typed
<1>1. row' = [j \in Key |-> IF j \in claimed THEN Released(row[j]) ELSE row[j]]
  BY <1>0
<1>2. proc[p].status = "up" /\ proc'[p].status = "disposed"
  BY <1>0 DEF Dispose
<1> HIDE DEF w, me, x, gone
<1>3. CASE k \in claimed
  <2>1. Holds(row[k], proc[p].entry[k].id, p, proc[p].entry[k].claim)
    BY <1>3 DEF Holder, Here
  <2>2. row[k] # NoRow /\ row[k].worker = p
    BY <2>1 DEF Holds, IsRow
  <2>3. row[k] \in OutputRow
    BY <2>2, RowType
  <2>4. row'[k] = Released(row[k])
    BY <1>1, <1>3
  <2>5. CASE row'[k] = NoRow
    BY <1>2, <2>2, <2>5 DEF RowMoves, IsRow
  <2>6. CASE row'[k] = Pending(row[k], TRUE)
    <3>1. row'[k] # NoRow /\ row'[k].stage = row[k].stage /\ row'[k].attempts = row[k].attempts
      BY <2>3, <2>6, GivingBack, OutputConstants
    <3> QED  BY <2>2, <3>1, ClaimMoves
  <2> QED  BY <2>4, <2>5, <2>6 DEF Released
<1>4. CASE k \notin claimed
  <2>1. row'[k] = row[k]
    BY <1>1, <1>4
  <2> QED  BY <2>1, RowKept
<1> QED  BY <1>3, <1>4

LEMMA EndMoves ==
  ASSUME OutputInv, NEW p \in Process, End(p), NEW k \in Key
  PROVE  RowMoves(k)
<1>1. row'[k] = IF row[k] # NoRow /\ row[k].worker = p THEN [row[k] EXCEPT !.worker = Nobody]
                ELSE row[k]
  BY DEF End
<1>2. CASE row[k] # NoRow /\ row[k].worker = p
  <2>1. row[k] \in OutputRow
    BY <1>2, RowType
  <2>2. PICK q : q = [row[k] EXCEPT !.worker = Nobody]
    OBVIOUS
  <2>3. q \in OutputRow /\ q.stage = row[k].stage /\ q.attempts = row[k].attempts
    BY <2>1, <2>2 DEF OutputRow
  <2>4. row'[k] = q /\ q # NoRow
    BY <1>1, <1>2, <2>2, <2>3, OutputConstants
  <2> QED  BY <1>2, <2>3, <2>4, ClaimMoves
<1>3. CASE ~(row[k] # NoRow /\ row[k].worker = p)
  BY <1>1, <1>3, RowKept
<1> QED  BY <1>2, <1>3

LEMMA StartMoves ==
  ASSUME OutputInv, NEW p \in Process, Start(p), NEW k \in Key
  PROVE  RowMoves(k)
<1> DEFINE x == [proc[p] EXCEPT !.status = "up"]
<1>1. PICK h : h = Here(p)
  OBVIOUS
<1>2. h \in Work /\ h.row = row /\ h.me = proc[p]
  BY <1>1, NowIsKnown DEF OutputInv
<1>3. PICK s : s = [h EXCEPT !.me = x]
  OBVIOUS
<1>4. PICK t \in {PumpRecovery(s, p)} : Commit(p, t)
  <2>1. [h EXCEPT !.me.status = "up"] = s
    BY <1>2, <1>3 DEF Work
  <2> QED  BY <1>1, <2>1 DEF Start
<1>5. x \in Queue
  BY <1>2, WorkFields DEF Queue
<1> HIDE DEF x, Commit
<1>6. s \in Work /\ s.row = row
  BY <1>2, <1>3, <1>5, QueueWritten
<1>7. t \in After(p, s)
  BY <1>4, <1>6, PumpStays
<1> QED  BY <1>4, <1>6, <1>7, HandlerMoves

LEMMA TimeMoves ==
  ASSUME OutputInv, NEW j \in Key, ClaimExpires(j) \/ RetryComesDue(j), NEW k \in Key
  PROVE  RowMoves(k)
<1>1. row \in Rows /\ row[j] # NoRow
  BY DEF ClaimExpires, RetryComesDue, OutputInv, Typed
<1>2. row[j] \in OutputRow
  BY <1>1, RowType
<1>3. PICK q \in {ClaimLapses(row[j]), BecomesDue(row[j])} : row' = [row EXCEPT ![j] = q]
  BY DEF ClaimExpires, RetryComesDue
<1>4. q \in OutputRow /\ q.stage = row[j].stage /\ q.attempts = row[j].attempts
  BY <1>2, <1>3 DEF ClaimLapses, BecomesDue, OutputRow
<1>5. CASE k = j
  <2>1. row'[k] = q /\ q # NoRow
    BY <1>1, <1>3, <1>4, <1>5, OutputConstants DEF Rows
  <2> QED  BY <1>1, <1>4, <1>5, <2>1, ClaimMoves
<1>6. CASE k # j
  <2>1. row'[k] = row[k]
    BY <1>1, <1>3, <1>6 DEF Rows
  <2> QED  BY <2>1, RowKept
<1> QED  BY <1>5, <1>6

\* The phases of a delivery between checkpoints leave the rows alone.
LEMMA PhasesMove ==
  ASSUME OutputInv, NEW p \in Process, NEW j \in Key,
         \/ Ingest(p, j) \/ Append(p, j) \/ Look(p, j) \/ Send(p, j) \/ RecordReceipt(p, j),
         NEW k \in Key
  PROVE  RowMoves(k)
<1>1. row' = row
  BY DEF Ingest, Append, Look, Send, RecordReceipt, StageDone, GoTo, Commit, Here
<1> QED  BY <1>1, RowKept

LEMMA DeliveryMoves ==
  ASSUME OutputInv, NEW p \in Process, NEW j \in Key, Delivery(p, j), NEW k \in Key
  PROVE  RowMoves(k)
<1>1. CASE IngestFails(p, j) \/ StepFails(p, j)
  <2>1. PICK h : h = Here(p)
    OBVIOUS
  <2>2. PICK t \in {Fails(h, p, j, TRUE), Fails(h, p, j, FALSE)} : Commit(p, t)
    BY <1>1, <2>1 DEF IngestFails, StepFails
  <2>3. proc[p].entry[j].phase \in Runs
    BY <1>1 DEF IngestFails, StepFails, In, Runs, Asynchronous, Synchronous
  <2> HIDE DEF Commit
  <2> QED  BY <2>1, <2>2, <2>3, FailureMoves
<1>2. CASE Checkpoint(p, j)
  BY <1>2, CheckpointMoves
<1>3. CASE Return(p, j)
  BY <1>3, ReturnMoves
<1>4. CASE Ingest(p, j) \/ Append(p, j) \/ Look(p, j) \/ Send(p, j) \/ RecordReceipt(p, j)
  BY <1>4, PhasesMove
<1> QED  BY <1>1, <1>2, <1>3, <1>4 DEF Delivery

LEMMA EveryMove ==
  ASSUME OutputInv, [Next]_vars, NEW k \in Key
  PROVE  RowMoves(k)
<1>1. CASE UNCHANGED vars
  BY <1>1, RowKept DEF vars
<1>2. ASSUME NEW p \in Process, NEW j \in Key,
             Enqueue(p, j) \/ Delivery(p, j) \/ Heartbeat(p, j) \/ Finally(p, j) \/ RetryTimer(p, j)
      PROVE  RowMoves(k)
  <2>1. CASE Enqueue(p, j)
    BY <2>1, EnqueueMoves
  <2>2. CASE Delivery(p, j)
    BY <2>2, DeliveryMoves
  <2>3. CASE Heartbeat(p, j) \/ Finally(p, j) \/ RetryTimer(p, j)
    BY <2>3, HeartbeatQuiet, FinallyQuiet, RetryTimerQuiet, QuietMoves
  <2> QED  BY <1>2, <2>1, <2>2, <2>3
<1>3. ASSUME NEW p \in Process,
             \/ RecoveryTimer(p) \/ Drain(p) \/ DrainAgain(p) \/ BlockEnds(p)
             \/ Dispose(p) \/ End(p) \/ Start(p)
      PROVE  RowMoves(k)
  <2>1. CASE RecoveryTimer(p) \/ Drain(p) \/ DrainAgain(p)
    BY <2>1, RecoveryTimerQuiet, DrainQuiet, QuietMoves
  <2>2. CASE BlockEnds(p)
    BY <2>2, RowKept DEF BlockEnds
  <2>3. CASE Dispose(p)
    BY <2>3, DisposeMoves
  <2>4. CASE End(p)
    BY <2>4, EndMoves
  <2>5. CASE Start(p)
    BY <2>5, StartMoves
  <2> QED  BY <1>3, <2>1, <2>2, <2>3, <2>4, <2>5
<1>4. ASSUME NEW j \in Key, ClaimExpires(j) \/ RetryComesDue(j)
      PROVE  RowMoves(k)
  BY <1>4, TimeMoves
<1> QED  BY <1>1, <1>2, <1>3, <1>4 DEF Next

\* The checkpoint of a job never goes back, and no attempt is given back,
\* although owners of lapsed claims go on beside the new owner.
THEOREM ProgressIsKept == Spec => ProgressKept
<1> DEFINE Kept == \A k \in Key : (row[k] # NoRow /\ IsRow(row'[k], row[k].id)) =>
                     row'[k].stage >= row[k].stage /\ row'[k].attempts >= row[k].attempts
<1>1. OutputInv /\ [Next]_vars => [Kept]_vars
  BY EveryMove DEF RowMoves
<1> QED  BY <1>1, Invariance, PTL DEF Spec, ProgressKept

\* A row under a claim that has not lapsed is removed by the process that holds
\* the claim, and by no other.
THEOREM OwnersSettle == Spec => OnlyOwnerSettles
<1> DEFINE Settled ==
       \A k \in Key :
         (row[k] # NoRow /\ row'[k] = NoRow /\ row[k].state = "running" /\ ~row[k].expired)
           => \E p \in Process : row[k].worker = p /\ proc'[p] # proc[p]
<1>1. OutputInv /\ [Next]_vars => [Settled]_vars
  BY EveryMove DEF RowMoves, Live
<1> QED  BY <1>1, Invariance, PTL DEF Spec, OnlyOwnerSettles
=============================================================================
