-------------------------- MODULE RunRegistryProofs --------------------------
(* Proofs about RunRegistry for every set of runs.  The theorems about types *)
(* and cancellation hold for every set of processes, those that relate the   *)
(* memory of a process to the store for one process that ends and starts     *)
(* again: with two they are false.                                           *)
EXTENDS RunRegistry, TLAPS

\* What the constants are, and that no row of a run looks like no row.
LEMMA RunConstants == Nobody \notin Process /\ NoRow \notin RunRow /\ Ends \in Nat
<1>1. \A r \in RunRow : r.state = "running"
  BY DEF RunRow
<1>2. NoRow.state = "none"
  BY DEF NoRow
<1> QED  BY <1>1, <1>2, JobAssumption

-----------------------------------------------------------------------------
(* Types *)

\* What is stored, claimed, remembered or owed is of a run that was started.
KnownIsStarted ==
  /\ \A r \in Run : Exists(stored[r]) \/ row[r] # NoRow => r \in started
  /\ \A p \in Process, r \in Run : Exists(runs[p][r]) => r \in started
  /\ \A p \in Process : proc[p].owes # Nothing => proc[p].owes.run \in started

\* The part of TypeOK that operations on records disturb.
StoreTyped ==
  /\ stored \in [Run -> RunRecord \cup {NoRun}]
  /\ row \in [Run -> RunRow \cup {NoRow}]
  /\ proc \in [Process -> [up: BOOLEAN, owes: Writing \cup {Nothing}]]
  /\ runs \in [Process -> [Run -> RunRecord \cup {NoRun}]]
  /\ dead \subseteq started /\ started \subseteq Run
  /\ KnownIsStarted

\* The rest of it.
RestTyped ==
  /\ exec \in [Process -> [Run -> {"none", "running", "awaits", "done"}]]
  /\ asked \in [Process -> [Run -> {"no", "pending", "confirmed", "failed"}]]
  /\ aged \cup late \cup cut \subseteq started /\ ended \in 0 .. Ends

TypeInv == StoreTyped /\ RestTyped

\* Each operation makes a record of a record.
LEMMA RecordsTyped ==
  ASSUME NEW rec \in RunRecord
  PROVE  /\ rec # NoRun
         /\ \A status \in Terminal : Ended(rec, status) \in RunRecord
         /\ Cancelled(rec) \in RunRecord /\ ReadBy(rec) \in RunRecord
         /\ Acknowledged(rec) \in RunRecord /\ Suppressed(rec) \in RunRecord
         /\ Notified(rec) \in RunRecord
         /\ \A status : Released(rec, status) \in RunRecord
<1>1. rec # NoRun
  BY RunRecordAssumption
<1>2. /\ \A status \in Terminal : Ended(rec, status) \in RunRecord
      /\ Cancelled(rec) \in RunRecord /\ ReadBy(rec) \in RunRecord
      /\ Acknowledged(rec) \in RunRecord /\ Suppressed(rec) \in RunRecord
      /\ Notified(rec) \in RunRecord
      /\ \A status : Released(rec, status) \in RunRecord
  BY DEF RunRecord, Ended, Cancelled, ReadBy, Acknowledged, Suppressed, Notified,
         Released, Status, Terminal, IsTerminal
<1> QED  BY <1>1, <1>2

\* What each operation does to the fields that tell whether a run is over.
LEMMA RecordsKeepStatus ==
  ASSUME NEW rec \in RunRecord
  PROVE  /\ \A status : Ended(rec, status).status = status
         /\ Cancelled(rec).status = IF IsTerminal(rec) THEN rec.status ELSE "cancelled"
         /\ ReadBy(rec).status = rec.status /\ Acknowledged(rec).status = rec.status
         /\ Suppressed(rec).status = rec.status /\ Notified(rec).status = rec.status
         /\ \A status : Released(rec, status).status = rec.status
BY DEF RunRecord, Ended, Cancelled, ReadBy, Acknowledged, Suppressed, Notified,
       Released, IsTerminal

-----------------------------------------------------------------------------
(* What the operations of a process do to the records *)

\* Process p gave some records new ones of the same status, and saved them.
Rewrites(p) ==
  /\ runs' \in [Process -> [Run -> RunRecord \cup {NoRun}]]
  /\ stored' \in [Run -> RunRecord \cup {NoRun}]
  /\ \A q \in Process \ {p} : runs'[q] = runs[q]
  /\ \A r \in Run :
       \/ runs'[p][r] = runs[p][r] /\ stored'[r] = stored[r]
       \/ /\ Exists(runs[p][r]) /\ Exists(runs'[p][r])
          /\ runs'[p][r].status = runs[p][r].status
          /\ stored'[r] = IF Exists(stored[r]) THEN runs'[p][r] ELSE stored[r]
  /\ UNCHANGED <<row, dead, proc>>

\* Process p ended its live run r in memory, and owes the store the rest.
EndsRun(p, r, write, status) ==
  /\ runs' \in [Process -> [Run -> RunRecord \cup {NoRun}]]
  /\ proc' \in [Process -> [up: BOOLEAN, owes: Writing \cup {Nothing}]]
  /\ \A q \in Process \ {p} : runs'[q] = runs[q] /\ proc'[q] = proc[q]
  /\ \A s \in Run \ {r} : runs'[p][s] = runs[p][s]
  /\ Exists(runs'[p][r]) /\ runs'[p][r].status = status
  /\ proc'[p].up = proc[p].up /\ proc'[p].owes = [write |-> write, run |-> r]

LEMMA SavesRewrites ==
  ASSUME StoreTyped, NEW p \in Process, NEW r \in Run, NEW rec \in RunRecord,
         Exists(runs[p][r]), rec.status = runs[p][r].status, Saves(p, r, rec)
  PROVE  Rewrites(p)
<1>1. runs' = [runs EXCEPT ![p][r] = rec]
  BY DEF Saves, Remembered
<1>2. stored' = [stored EXCEPT ![r] = IF Exists(@) THEN rec ELSE @]
  BY DEF Saves, Stored
<1>3. /\ runs \in [Process -> [Run -> RunRecord \cup {NoRun}]]
      /\ stored \in [Run -> RunRecord \cup {NoRun}]
  BY DEF StoreTyped
<1>4. rec # NoRun
  BY RecordsTyped
<1> QED  BY <1>1, <1>2, <1>3, <1>4 DEF Rewrites, Saves, Exists

\* The same for the records of a set: new[r] is what r gets.
LEMMA SavesSetRewrites ==
  ASSUME StoreTyped, NEW p \in Process, NEW S \in SUBSET Run, NEW new,
         \A r \in S : /\ Exists(runs[p][r]) /\ new[r] \in RunRecord
                      /\ new[r].status = runs[p][r].status,
         runs' = [runs EXCEPT ![p] = [r \in Run |-> IF r \in S THEN new[r] ELSE @[r]]],
         stored' = [r \in Run |-> IF r \in S /\ Exists(stored[r]) THEN new[r] ELSE stored[r]],
         UNCHANGED <<row, dead, proc>>
  PROVE  Rewrites(p)
<1>1. /\ runs \in [Process -> [Run -> RunRecord \cup {NoRun}]]
      /\ stored \in [Run -> RunRecord \cup {NoRun}]
  BY DEF StoreTyped
<1>2. \A r \in S : new[r] # NoRun
  BY RecordsTyped
<1>3. runs'[p] = [r \in Run |-> IF r \in S THEN new[r] ELSE runs[p][r]]
  BY <1>1
<1>4. /\ runs' \in [Process -> [Run -> RunRecord \cup {NoRun}]]
      /\ stored' \in [Run -> RunRecord \cup {NoRun}]
      /\ \A q \in Process \ {p} : runs'[q] = runs[q]
  BY <1>1
<1> QED  BY <1>2, <1>3, <1>4 DEF Rewrites, Exists


\* Reading, acknowledging and notifying keep the status of every run.
LEMMA HandlersRewrite ==
  ASSUME StoreTyped, NEW p \in Process
  PROVE  /\ \A r \in Run : Read(p, r) \/ Ack(p, r) => Rewrites(p)
         /\ Suppress(p) \/ CreateNotification(p) \/ ReleaseNotification(p) => Rewrites(p)
<1>1. \A r \in Run : Exists(runs[p][r]) => runs[p][r] \in RunRecord
  BY DEF StoreTyped, Exists
<1>2. ASSUME NEW r \in Run, Read(p, r)  PROVE Rewrites(p)
  BY <1>1, <1>2, RecordsTyped, RecordsKeepStatus, SavesRewrites DEF Read
<1>3. ASSUME NEW r \in Run, Ack(p, r)  PROVE Rewrites(p)
  BY <1>1, <1>3, RecordsTyped, RecordsKeepStatus, SavesRewrites DEF Ack
<1>4. ASSUME Suppress(p)  PROVE Rewrites(p)
  <2>1. PICK S \in SUBSET {r \in Run : Exists(runs[p][r])} : SavesAll(p, S, Suppressed)
    BY <1>4 DEF Suppress
  <2> DEFINE new == [r \in Run |-> Suppressed(runs[p][r])]
  <2>2. \A r \in S : new[r] \in RunRecord /\ new[r].status = runs[p][r].status
    BY <1>1, RecordsTyped, RecordsKeepStatus
  <2>3. /\ runs' = [runs EXCEPT ![p] = [r \in Run |-> IF r \in S THEN new[r] ELSE @[r]]]
        /\ stored' = [r \in Run |-> IF r \in S /\ Exists(stored[r]) THEN new[r] ELSE stored[r]]
        /\ UNCHANGED <<row, dead, proc>>
    BY <2>1 DEF SavesAll, StoreTyped
  <2> HIDE DEF new
  <2> QED  BY <2>2, <2>3, SavesSetRewrites
<1>5. ASSUME CreateNotification(p)  PROVE Rewrites(p)
  <2>1. PICK S \in SUBSET {r \in Run : Exists(runs[p][r])} : SavesAll(p, S, Notified)
    BY <1>5 DEF CreateNotification
  <2> DEFINE new == [r \in Run |-> Notified(runs[p][r])]
  <2>2. \A r \in S : new[r] \in RunRecord /\ new[r].status = runs[p][r].status
    BY <1>1, RecordsTyped, RecordsKeepStatus
  <2>3. /\ runs' = [runs EXCEPT ![p] = [r \in Run |-> IF r \in S THEN new[r] ELSE @[r]]]
        /\ stored' = [r \in Run |-> IF r \in S /\ Exists(stored[r]) THEN new[r] ELSE stored[r]]
        /\ UNCHANGED <<row, dead, proc>>
    BY <2>1 DEF SavesAll, StoreTyped
  <2> HIDE DEF new
  <2> QED  BY <2>2, <2>3, SavesSetRewrites
<1>6. ASSUME ReleaseNotification(p)  PROVE Rewrites(p)
  <2>1. PICK S \in SUBSET {r \in Run : Exists(runs[p][r])} :
          SavesAll(p, S, LAMBDA rec : Released(rec, rec.status))
    BY <1>6 DEF ReleaseNotification
  <2> DEFINE new == [r \in Run |-> Released(runs[p][r], runs[p][r].status)]
  <2>2. \A r \in S : new[r] \in RunRecord /\ new[r].status = runs[p][r].status
    BY <1>1, RecordsTyped, RecordsKeepStatus
  <2>3. /\ runs' = [runs EXCEPT ![p] = [r \in Run |-> IF r \in S THEN new[r] ELSE @[r]]]
        /\ stored' = [r \in Run |-> IF r \in S /\ Exists(stored[r]) THEN new[r] ELSE stored[r]]
        /\ UNCHANGED <<row, dead, proc>>
    BY <2>1 DEF SavesAll, StoreTyped
  <2> HIDE DEF new
  <2> QED  BY <2>2, <2>3, SavesSetRewrites
<1> QED  BY <1>2, <1>3, <1>4, <1>5, <1>6

\* Remembering a new record and owing a write, which ending a run begins with.
LEMMA EndingARun ==
  ASSUME StoreTyped, NEW p \in Process, NEW r \in Run, NEW rec \in RunRecord,
         NEW write \in {"ack", "fail", "update"},
         Remembered(p, r, rec), Owes(p, write, r)
  PROVE  EndsRun(p, r, write, rec.status) /\ runs'[p][r] = rec
<1> DEFINE writes == [write |-> write, run |-> r]
<1>1. writes \in Writing /\ rec # NoRun
  BY RecordsTyped DEF Writing
<1>2. /\ runs' = [runs EXCEPT ![p][r] = rec]
      /\ proc' = [proc EXCEPT ![p].owes = writes]
  BY DEF Remembered, Owes
<1> HIDE DEF writes
<1>3. proc' \in [Process -> [up: BOOLEAN, owes: Writing \cup {Nothing}]]
  BY <1>1, <1>2 DEF StoreTyped
<1>4. proc'[p].up = proc[p].up /\ proc'[p].owes = writes
  BY <1>2 DEF StoreTyped
<1>5. runs' \in [Process -> [Run -> RunRecord \cup {NoRun}]]
  BY <1>1, <1>2 DEF StoreTyped
<1>6. /\ \A q \in Process \ {p} : runs'[q] = runs[q] /\ proc'[q] = proc[q]
      /\ \A s \in Run \ {r} : runs'[p][s] = runs[p][s]
      /\ runs'[p][r] = rec
  BY <1>2 DEF StoreTyped
<1> QED  BY <1>1, <1>3, <1>4, <1>5, <1>6 DEF EndsRun, Exists, writes

\* complete, fail, timeOut or resourceLimit of a live run
LEMMA SettlesEnds ==
  ASSUME StoreTyped, NEW p \in Process, NEW r \in Run, NEW status \in Terminal,
         Live(p, r), Settles(p, r, status)
  PROVE  /\ \E write \in {"ack", "fail"} : EndsRun(p, r, write, status)
         /\ stored' = [stored EXCEPT ![r] = IF Exists(@) THEN runs'[p][r] ELSE @]
         /\ UNCHANGED <<row, dead>>
<1> DEFINE rec == Ended(runs[p][r], status)
           write == IF status = "completed" THEN "ack" ELSE "fail"
<1>1. rec \in RunRecord /\ rec.status = status
  BY RecordsTyped, RecordsKeepStatus DEF Live, Exists, StoreTyped
<1>2. /\ Remembered(p, r, rec) /\ Owes(p, write, r) /\ Stored(r, rec)
      /\ UNCHANGED <<row, dead>>
  BY DEF Settles
<1>3. write \in {"ack", "fail"}
  OBVIOUS
<1> HIDE DEF rec, write
<1>4. EndsRun(p, r, write, status) /\ runs'[p][r] = rec
  BY <1>1, <1>2, <1>3, EndingARun
<1> QED  BY <1>2, <1>3, <1>4 DEF Stored

\* cancel of a live run, and of one that has ended
LEMMA CancelsEnds ==
  ASSUME StoreTyped, NEW p \in Process, NEW r \in Run, Live(p, r), Cancels(p, r)
  PROVE  /\ EndsRun(p, r, "update", "cancelled")
         /\ FailsJob(p, r) /\ UNCHANGED stored
<1>1. runs[p][r] \in RunRecord /\ ~IsTerminal(runs[p][r])
  BY DEF Live, Exists, StoreTyped
<1>2. Cancelled(runs[p][r]) \in RunRecord /\ Cancelled(runs[p][r]).status = "cancelled"
  BY <1>1, RecordsTyped, RecordsKeepStatus
<1>3. /\ Remembered(p, r, Cancelled(runs[p][r])) /\ Owes(p, "update", r)
      /\ FailsJob(p, r) /\ UNCHANGED stored
  BY DEF Cancels
<1> QED  BY <1>2, <1>3, EndingARun

LEMMA CancelsRewrites ==
  ASSUME StoreTyped, NEW p \in Process, NEW r \in Run,
         Exists(runs[p][r]), ~Live(p, r), Cancels(p, r)
  PROVE  Rewrites(p)
<1>1. runs[p][r] \in RunRecord /\ IsTerminal(runs[p][r])
  BY DEF StoreTyped, Live, Exists
<1>2. Saves(p, r, Cancelled(runs[p][r]))
  BY DEF Cancels
<1> QED  BY <1>1, <1>2, RecordsTyped, RecordsKeepStatus, SavesRewrites


\* prune takes only what is over.
LEMMA KeptRecords ==
  ASSUME NEW records \in [Run -> RunRecord \cup {NoRun}]
  PROVE  /\ Kept(records) \in [Run -> RunRecord \cup {NoRun}]
         /\ \A r \in Run : \/ Kept(records)[r] = records[r]
                           \/ /\ Kept(records)[r] = NoRun
                              /\ records[r] \in RunRecord /\ IsTerminal(records[r])
BY DEF Kept, Exists, Prunable

\* The row of a new run: one field changed after the other.
LEMMA ClaimedTyped ==
  ASSUME NEW r \in Run, NEW p \in Process
  PROVE  Claimed(Inserted(r), p) \in RunRow
<1> DEFINE Rows(states, workers, n) ==
             [id: Run, state: states, worker: workers, due: {TRUE},
              expired: BOOLEAN, attempts: {n}, stage: {0}]
           c0 == Inserted(r)
           c1 == [c0 EXCEPT !.state = "running"]
           c2 == [c1 EXCEPT !.worker = p]
           c3 == [c2 EXCEPT !.expired = FALSE]
           c4 == [c3 EXCEPT !.attempts = @ + 1]
<1>1. Claimed(Inserted(r), p) = c4
  BY DEF Claimed
<1>2. c0 \in Rows({"pending"}, {Nobody}, 0)
  BY DEF Inserted
<1> HIDE DEF c0
<1>3. c1 \in Rows({"running"}, {Nobody}, 0)
  BY <1>2
<1> HIDE DEF c1
<1>4. c2 \in Rows({"running"}, Process \cup {Nobody}, 0)
  BY <1>3
<1> HIDE DEF c2
<1>5. c3 \in Rows({"running"}, Process \cup {Nobody}, 0)
  BY <1>4
<1> HIDE DEF c3
<1>6. c3.attempts + 1 = 1
  BY <1>5
<1>7. c4 \in RunRow
  BY <1>5, <1>6 DEF RunRow
<1> QED  BY <1>1, <1>7

\* A new run and its row.
LEMMA NewTyped ==
  ASSUME NEW r \in Run, NEW p \in Process, NEW policy \in Policy
  PROVE  /\ NewRun(policy) \in RunRecord /\ NewRun(policy) # NoRun
         /\ NewRun(policy).status = "running"
         /\ Claimed(Inserted(r), p) \in RunRow /\ Claimed(Inserted(r), p) # NoRow
         /\ Claimed(Inserted(r), p).worker = p /\ ~Claimed(Inserted(r), p).expired
<1>1. NewRun(policy) \in RunRecord /\ NewRun(policy).status = "running"
  BY DEF NewRun, RunRecord, Status, Terminal
<1>2. Claimed(Inserted(r), p).worker = p /\ ~Claimed(Inserted(r), p).expired
  BY DEF Claimed, Inserted
<1> QED  BY <1>1, <1>2, ClaimedTyped, RunRecordAssumption, RunConstants

\* What recovery makes of the store.
LEMMA BootEffect ==
  ASSUME StoreTyped, NEW p \in Process, Boot(p)
  PROVE  /\ stored' \in [Run -> RunRecord \cup {NoRun}]
         /\ runs' = [runs EXCEPT ![p] = stored']
         /\ \A r \in Run : IF r \in Interrupted(p)
                           THEN Exists(stored'[r]) /\ IsTerminal(stored'[r])
                           ELSE stored'[r] = stored[r]
         /\ \A r \in Run : row'[r] = IF r \in Interrupted(p) \cup Orphaned THEN NoRow ELSE row[r]
         /\ row' \in [Run -> RunRow \cup {NoRow}]
         /\ dead' \subseteq dead \cup {r \in Run : row[r] # NoRow}
<1> DEFINE Outcome(r) == IF r \in late THEN "timed_out" ELSE "failed"
           recovered == [r \in Run |-> IF r \in Interrupted(p) THEN Ended(stored[r], Outcome(r))
                                       ELSE stored[r]]
           taken == {r \in Interrupted(p) \cup Orphaned : row[r] # NoRow}
<1>1. /\ stored' = recovered /\ runs' = [runs EXCEPT ![p] = recovered]
      /\ row' = [r \in Run |-> IF r \in taken THEN NoRow ELSE row[r]]
      /\ dead' = dead \cup taken
  BY DEF Boot
<1>2. \A r \in Interrupted(p) : r \in Run /\ stored[r] \in RunRecord
  BY DEF Interrupted, StoreTyped, Exists
<1>3. \A r \in Run : Outcome(r) \in Terminal
  BY DEF Terminal
<1>4. ASSUME NEW r \in Interrupted(p)
      PROVE  /\ Ended(stored[r], Outcome(r)) \in RunRecord
             /\ Exists(Ended(stored[r], Outcome(r)))
             /\ IsTerminal(Ended(stored[r], Outcome(r)))
  <2>1. stored[r] \in RunRecord /\ Outcome(r) \in Terminal
    BY <1>2, <1>3
  <2>2. /\ Ended(stored[r], Outcome(r)) \in RunRecord
        /\ Ended(stored[r], Outcome(r)).status = Outcome(r)
    <3> HIDE DEF Outcome
    <3> QED  BY <2>1, RecordsTyped, RecordsKeepStatus
  <2> HIDE DEF Outcome
  <2> QED  BY <2>1, <2>2, RunRecordAssumption DEF Exists, IsTerminal
<1>5. Orphaned \subseteq Run /\ Interrupted(p) \subseteq Run
  BY DEF Orphaned, Interrupted
<1>6. /\ recovered \in [Run -> RunRecord \cup {NoRun}]
      /\ \A r \in Run : IF r \in Interrupted(p)
                        THEN Exists(recovered[r]) /\ IsTerminal(recovered[r])
                        ELSE recovered[r] = stored[r]
  <2>1. \A r \in Run : recovered[r] = IF r \in Interrupted(p)
                                     THEN Ended(stored[r], Outcome(r)) ELSE stored[r]
    OBVIOUS
  <2>2. \A r \in Run : recovered[r] \in RunRecord \cup {NoRun}
    <3> HIDE DEF Outcome, recovered
    <3> QED  BY <1>4, <2>1 DEF StoreTyped
  <2>3. recovered \in [Run -> RunRecord \cup {NoRun}]
    <3> HIDE DEF Outcome
    <3> QED  BY <2>2
  <2> HIDE DEF Outcome, recovered
  <2> QED  BY <1>4, <2>1, <2>3
<1> HIDE DEF recovered
<1> QED  BY <1>1, <1>5, <1>6 DEF StoreTyped


\* What fail() of the store does to the rows.
LEMMA FailsJobEffect ==
  ASSUME StoreTyped, NEW p \in Process, NEW r \in Run, FailsJob(p, r)
  PROVE  /\ row' = [row EXCEPT ![r] = IF Claims(p, r) THEN NoRow ELSE @]
         /\ row' \in [Run -> RunRow \cup {NoRow}]
         /\ dead' \subseteq started
<1>1. CASE Claims(p, r)
  BY <1>1 DEF FailsJob, Claims, StoreTyped, KnownIsStarted
<1>2. CASE ~Claims(p, r)
  BY <1>2 DEF FailsJob, StoreTyped
<1> QED  BY <1>1, <1>2

-----------------------------------------------------------------------------
(* Every step keeps the types *)

LEMMA RewritesTyped ==
  ASSUME StoreTyped, NEW p \in Process, Rewrites(p), UNCHANGED started
  PROVE  StoreTyped'
<1>1. \A q \in Process, r \in Run : Exists(runs'[q][r]) => r \in started
  BY DEF StoreTyped, KnownIsStarted, Rewrites
<1>2. \A r \in Run : Exists(stored'[r]) => r \in started
  BY DEF StoreTyped, KnownIsStarted, Rewrites
<1> QED  BY <1>1, <1>2 DEF StoreTyped, KnownIsStarted, Rewrites

LEMMA EndsRunTyped ==
  ASSUME StoreTyped, NEW p \in Process, NEW r \in Run, NEW write, NEW status,
         Live(p, r), EndsRun(p, r, write, status), UNCHANGED started,
         stored' \in [Run -> RunRecord \cup {NoRun}],
         row' \in [Run -> RunRow \cup {NoRow}], dead' \subseteq started,
         \A s \in Run : /\ Exists(stored'[s]) => Exists(stored[s])
                        /\ row'[s] # NoRow => row[s] # NoRow
  PROVE  StoreTyped'
<1>1. r \in started
  BY DEF StoreTyped, KnownIsStarted, Live
<1>2. \A q \in Process, s \in Run : Exists(runs'[q][s]) => s \in started
  BY <1>1 DEF StoreTyped, KnownIsStarted, EndsRun
<1>3. ASSUME NEW q \in Process, proc'[q].owes # Nothing
      PROVE  proc'[q].owes.run \in started
  <2>1. CASE q = p
    BY <1>1, <2>1 DEF EndsRun
  <2>2. CASE q # p
    BY <1>3, <2>2 DEF StoreTyped, KnownIsStarted, EndsRun
  <2> QED  BY <2>1, <2>2
<1> QED  BY <1>2, <1>3 DEF StoreTyped, KnownIsStarted, EndsRun

LEMMA SettlesTyped ==
  ASSUME StoreTyped, NEW p \in Process, NEW r \in Run, NEW status \in Terminal,
         Settles(p, r, status), UNCHANGED started
  PROVE  StoreTyped'
<1>1. CASE Live(p, r)
  <2>1. PICK write \in {"ack", "fail"} : EndsRun(p, r, write, status)
    BY <1>1, SettlesEnds
  <2>2. stored' = [stored EXCEPT ![r] = IF Exists(@) THEN runs'[p][r] ELSE @]
    BY <1>1, SettlesEnds
  <2>3. runs'[p][r] \in RunRecord \cup {NoRun}
    BY <2>1 DEF EndsRun
  <2>4. /\ stored' \in [Run -> RunRecord \cup {NoRun}]
        /\ \A s \in Run : Exists(stored'[s]) => Exists(stored[s])
    BY <2>2, <2>3 DEF StoreTyped, Exists
  <2>5. UNCHANGED <<row, dead>>
    BY <1>1, SettlesEnds
  <2>6. /\ row' \in [Run -> RunRow \cup {NoRow}] /\ dead' \subseteq started
        /\ \A s \in Run : row'[s] # NoRow => row[s] # NoRow
    BY <2>5 DEF StoreTyped
  <2> QED  BY <1>1, <2>1, <2>4, <2>6, EndsRunTyped
<1>2. CASE ~Live(p, r)
  BY <1>2 DEF StoreTyped, KnownIsStarted, Settles, store
<1> QED  BY <1>1, <1>2

LEMMA CancelsTyped ==
  ASSUME StoreTyped, NEW p \in Process, NEW r \in Run, Exists(runs[p][r]),
         Cancels(p, r), UNCHANGED started
  PROVE  StoreTyped'
<1>1. CASE Live(p, r)
  <2>1. EndsRun(p, r, "update", "cancelled") /\ FailsJob(p, r) /\ UNCHANGED stored
    BY <1>1, CancelsEnds
  <2>2. /\ row' = [row EXCEPT ![r] = IF Claims(p, r) THEN NoRow ELSE @]
        /\ row' \in [Run -> RunRow \cup {NoRow}] /\ dead' \subseteq started
    BY <2>1, FailsJobEffect
  <2>3. \A s \in Run : row'[s] # NoRow => row[s] # NoRow
    BY <2>2 DEF StoreTyped
  <2>4. stored' \in [Run -> RunRecord \cup {NoRun}]
    BY <2>1 DEF StoreTyped
  <2> QED  BY <1>1, <2>1, <2>2, <2>3, <2>4, EndsRunTyped
<1>2. CASE ~Live(p, r)
  BY <1>2, CancelsRewrites, RewritesTyped
<1> QED  BY <1>1, <1>2


LEMMA StoreTypedStep ==
  ASSUME StoreTyped, [Next]_vars
  PROVE  StoreTyped'
<1> USE DEF StoreTyped, KnownIsStarted
<1>1. ASSUME NEW p \in Process, NEW r \in Run, NEW policy \in Policy, Start(p, r, policy)
      PROVE  StoreTyped'
  <2> DEFINE rec == NewRun(policy)
             job == Claimed(Inserted(r), p)
  <2>1. rec \in RunRecord /\ rec # NoRun /\ job \in RunRow /\ job # NoRow
    BY NewTyped
  <2> HIDE DEF rec, job
  <2>2. /\ runs' = [runs EXCEPT ![p] = [Kept(@) EXCEPT ![r] = rec]]
        /\ stored' = [Kept(stored) EXCEPT ![r] = rec]
        /\ row' = [row EXCEPT ![r] = job]
        /\ started' = started \cup {r} /\ UNCHANGED <<dead, proc>>
    BY <1>1 DEF Start, rec, job
  <2>3. /\ Kept(stored) \in [Run -> RunRecord \cup {NoRun}]
        /\ Kept(runs[p]) \in [Run -> RunRecord \cup {NoRun}]
        /\ \A s \in Run : /\ Exists(Kept(stored)[s]) => Exists(stored[s])
                          /\ Exists(Kept(runs[p])[s]) => Exists(runs[p][s])
    BY KeptRecords DEF Exists
  <2>4. /\ runs' \in [Process -> [Run -> RunRecord \cup {NoRun}]]
        /\ stored' \in [Run -> RunRecord \cup {NoRun}]
        /\ row' \in [Run -> RunRow \cup {NoRow}]
    BY <2>1, <2>2, <2>3
  <2>5. \A q \in Process, s \in Run : Exists(runs'[q][s]) => s = r \/ Exists(runs[q][s])
    BY <2>2, <2>3
  <2>6. \A s \in Run : Exists(stored'[s]) \/ row'[s] # NoRow =>
                         s = r \/ Exists(stored[s]) \/ row[s] # NoRow
    BY <2>2, <2>3
  <2> QED  BY <2>2, <2>4, <2>5, <2>6
<1>2. ASSUME NEW p \in Process, NEW r \in Run,
             NEW status \in {"completed", "failed", "timed_out"}, ExecutionEnds(p, r, status)
      PROVE  StoreTyped'
  BY <1>2, SettlesTyped DEF ExecutionEnds, Terminal
<1>3. ASSUME NEW p \in Process, NEW r \in Run,
             ExecutionYields(p, r) \/ AskCancel(p, r) \/ CancelConfirmed(p, r)
      PROVE  StoreTyped'
  BY <1>3 DEF ExecutionYields, AskCancel, CancelConfirmed, store
<1>4. ASSUME NEW p \in Process, NEW r \in Run, CancelFails(p, r)
      PROVE  StoreTyped'
  <2>1. CASE exec[p][r] = "awaits"
    BY <1>4, <2>1, SettlesTyped DEF CancelFails, Terminal
  <2>2. CASE exec[p][r] # "awaits"
    BY <1>4, <2>2 DEF CancelFails, store
  <2> QED  BY <2>1, <2>2
<1>5. ASSUME NEW p \in Process, NEW r \in Run, CancelCommits(p, r) \/ CancelNow(p, r)
      PROVE  StoreTyped'
  <2>1. CASE Exists(runs[p][r]) /\ Cancels(p, r)
    BY <1>5, <2>1, CancelsTyped DEF CancelCommits, CancelNow
  <2>2. CASE UNCHANGED <<store, proc, runs, started>>
    BY <2>2 DEF store
  <2> QED  BY <1>5, <2>1, <2>2 DEF CancelCommits, CancelNow
<1>6. ASSUME NEW p \in Process, NEW r \in Run, Read(p, r) \/ Ack(p, r)
      PROVE  StoreTyped'
  BY <1>6, HandlersRewrite, RewritesTyped DEF Read, Ack, Untouched
<1>7. ASSUME NEW p \in Process,
             Suppress(p) \/ CreateNotification(p) \/ ReleaseNotification(p)
      PROVE  StoreTyped'
  BY <1>7, HandlersRewrite, RewritesTyped
     DEF Suppress, CreateNotification, ReleaseNotification, Untouched
<1>8. ASSUME NEW p \in Process, Writes(p)
      PROVE  StoreTyped'
  <2> DEFINE r == proc[p].owes.run
  <2>1. r \in Run /\ r \in started
    BY <1>8 DEF Writes
  <2>2. /\ proc' \in [Process -> [up: BOOLEAN, owes: Writing \cup {Nothing}]]
        /\ \A q \in Process : proc'[q].owes # Nothing => proc'[q].owes = proc[q].owes
    BY <1>8 DEF Writes
  <2>3. UNCHANGED <<runs, started>>
    BY <1>8 DEF Writes
  <2>4. CASE proc[p].owes.write = "ack"
    <3>1. /\ row' = [row EXCEPT ![r] = IF Claims(p, r) THEN NoRow ELSE @]
          /\ UNCHANGED <<stored, dead>>
      BY <1>8, <2>4 DEF Writes
    <3> QED  BY <2>1, <2>2, <2>3, <3>1
  <2>5. CASE proc[p].owes.write = "fail"
    <3>1. FailsJob(p, r) /\ UNCHANGED stored
      BY <1>8, <2>5 DEF Writes
    <3>2. /\ row' = [row EXCEPT ![r] = IF Claims(p, r) THEN NoRow ELSE @]
          /\ row' \in [Run -> RunRow \cup {NoRow}] /\ dead' \subseteq started
      BY <2>1, <3>1, FailsJobEffect
    <3> QED  BY <2>1, <2>2, <2>3, <3>1, <3>2
  <2>6. CASE proc[p].owes.write \notin {"ack", "fail"}
    <3>1. Stored(r, runs[p][r]) /\ UNCHANGED <<row, dead>>
      BY <1>8, <2>6 DEF Writes
    <3>2. /\ stored' \in [Run -> RunRecord \cup {NoRun}]
          /\ \A s \in Run : Exists(stored'[s]) => Exists(stored[s])
      BY <2>1, <3>1 DEF Stored, Exists
    <3> QED  BY <2>1, <2>2, <2>3, <3>1, <3>2
  <2> QED  BY <2>4, <2>5, <2>6
<1>9. ASSUME NEW p \in Process, Prune(p)
      PROVE  StoreTyped'
  <2>1. /\ runs' = [runs EXCEPT ![p] = Kept(@)] /\ stored' = Kept(stored)
        /\ UNCHANGED <<row, dead, proc, started>>
    BY <1>9 DEF Prune
  <2>2. /\ Kept(stored) \in [Run -> RunRecord \cup {NoRun}]
        /\ Kept(runs[p]) \in [Run -> RunRecord \cup {NoRun}]
        /\ \A s \in Run : /\ Exists(Kept(stored)[s]) => Exists(stored[s])
                          /\ Exists(Kept(runs[p])[s]) => Exists(runs[p][s])
    BY KeptRecords DEF Exists
  <2>3. /\ runs' \in [Process -> [Run -> RunRecord \cup {NoRun}]]
        /\ \A q \in Process, s \in Run : Exists(runs'[q][s]) => Exists(runs[q][s])
    BY <2>1, <2>2
  <2> QED  BY <2>1, <2>2, <2>3
<1>10. ASSUME NEW p \in Process, End(p)
       PROVE  StoreTyped'
  <2>1. /\ runs' = [runs EXCEPT ![p] = [r \in Run |-> NoRun]]
        /\ proc' = [proc EXCEPT ![p] = [up |-> FALSE, owes |-> Nothing]]
        /\ UNCHANGED <<stored, dead, started>>
    BY <1>10 DEF End
  <2>2. \A r \in Run : row'[r] = IF row[r] # NoRow /\ row[r].worker = p
                                 THEN [row[r] EXCEPT !.worker = Nobody] ELSE row[r]
    BY <1>10 DEF End
  <2>3. \A job \in RunRow : [job EXCEPT !.worker = Nobody] \in RunRow
    BY DEF RunRow
  <2>4. /\ row' \in [Run -> RunRow \cup {NoRow}]
        /\ \A r \in Run : row'[r] # NoRow => row[r] # NoRow
    <3>1. \A r \in Run : row'[r] \in RunRow \cup {NoRow}
      BY <2>2, <2>3
    <3>2. row' = [r \in Run |-> row'[r]]
      BY <1>10 DEF End
    <3> QED  BY <2>2, <3>1, <3>2
  <2>5. runs' \in [Process -> [Run -> RunRecord \cup {NoRun}]]
    BY <2>1
  <2>6. /\ proc' \in [Process -> [up: BOOLEAN, owes: Writing \cup {Nothing}]]
        /\ \A q \in Process : proc'[q].owes # Nothing => proc'[q].owes = proc[q].owes
    BY <2>1
  <2>7. \A q \in Process, r \in Run : Exists(runs'[q][r]) => Exists(runs[q][r])
    BY <2>1 DEF Exists
  <2> QED  BY <2>1, <2>4, <2>5, <2>6, <2>7
<1>11. ASSUME NEW p \in Process, Boot(p)
       PROVE  StoreTyped'
  <2>1. /\ stored' \in [Run -> RunRecord \cup {NoRun}]
        /\ runs' = [runs EXCEPT ![p] = stored']
        /\ row' \in [Run -> RunRow \cup {NoRow}]
        /\ dead' \subseteq dead \cup {r \in Run : row[r] # NoRow}
    BY <1>11, BootEffect
  <2>2. \A r \in Run : /\ Exists(stored'[r]) => Exists(stored[r])
                       /\ row'[r] # NoRow => row[r] # NoRow
    BY <1>11, BootEffect DEF Interrupted
  <2>3. /\ proc' = [proc EXCEPT ![p].up = TRUE] /\ UNCHANGED started
    BY <1>11 DEF Boot, Untouched
  <2>4. /\ proc' \in [Process -> [up: BOOLEAN, owes: Writing \cup {Nothing}]]
        /\ \A q \in Process : proc'[q].owes = proc[q].owes
    BY <2>3
  <2>5. /\ runs' \in [Process -> [Run -> RunRecord \cup {NoRun}]]
        /\ \A q \in Process, r \in Run :
             Exists(runs'[q][r]) => Exists(runs[q][r]) \/ Exists(stored[r])
    BY <2>1, <2>2
  <2> QED  BY <2>1, <2>2, <2>3, <2>4, <2>5
<1>12. ASSUME NEW r \in Run, ClaimExpires(r)
       PROVE  StoreTyped'
  <2>1. \A job \in RunRow : ClaimLapses(job) \in RunRow
    BY DEF ClaimLapses, RunRow
  <2> QED  BY <1>12, <2>1 DEF ClaimExpires, memory
<1>13. ASSUME NEW r \in Run, DeadlinePasses(r) \/ KeepingEnds(r)
       PROVE  StoreTyped'
  BY <1>13 DEF DeadlinePasses, KeepingEnds, store, memory
<1>14. CASE UNCHANGED vars
  BY <1>14 DEF vars, store, memory
<1> QED  BY <1>1, <1>2, <1>3, <1>4, <1>5, <1>6, <1>7, <1>8, <1>9, <1>10, <1>11, <1>12,
            <1>13, <1>14 DEF Next


LEMMA RestTypedStep ==
  ASSUME StoreTyped, RestTyped, [Next]_vars
  PROVE  RestTyped'
<1> USE DEF RestTyped
<1>1. ASSUME NEW p \in Process, NEW r \in Run, NEW policy \in Policy, Start(p, r, policy)
      PROVE  RestTyped'
  BY <1>1 DEF Start, time
<1>2. ASSUME NEW p \in Process, NEW r \in Run,
             NEW status \in {"completed", "failed", "timed_out"}, ExecutionEnds(p, r, status)
      PROVE  RestTyped'
  BY <1>2 DEF ExecutionEnds, time
<1>3. ASSUME NEW p \in Process, NEW r \in Run,
             ExecutionYields(p, r) \/ AskCancel(p, r) \/ CancelConfirmed(p, r)
      PROVE  RestTyped'
  <2>1. CASE ExecutionYields(p, r)
    BY <2>1 DEF ExecutionYields, time
  <2>2. CASE AskCancel(p, r)
    BY <2>2 DEF AskCancel, time
  <2>3. CASE CancelConfirmed(p, r)
    <3>1. exec' \in [Process -> [Run -> {"none", "running", "awaits", "done"}]]
      BY <2>3 DEF CancelConfirmed
    <3> QED  BY <2>3, <3>1 DEF CancelConfirmed, time
  <2> QED  BY <1>3, <2>1, <2>2, <2>3
<1>4. ASSUME NEW p \in Process, NEW r \in Run, CancelFails(p, r)
      PROVE  RestTyped'
  <2>1. exec' \in [Process -> [Run -> {"none", "running", "awaits", "done"}]]
    <3>1. exec' = [exec EXCEPT ![p][r] = "done"] \/ UNCHANGED exec
      BY <1>4 DEF CancelFails
    <3> QED  BY <3>1
  <2>2. asked' \in [Process -> [Run -> {"no", "pending", "confirmed", "failed"}]]
    <3>1. asked' = [asked EXCEPT ![p][r] = "failed"]
      BY <1>4 DEF CancelFails
    <3> QED  BY <3>1
  <2> QED  BY <1>4, <2>1, <2>2 DEF CancelFails, time
<1>5. ASSUME NEW p \in Process, NEW r \in Run, CancelCommits(p, r) \/ CancelNow(p, r)
      PROVE  RestTyped'
  <2>1. CASE CancelCommits(p, r)
    BY <2>1 DEF CancelCommits, time
  <2>2. CASE CancelNow(p, r)
    BY <2>2 DEF CancelNow, time
  <2> QED  BY <1>5, <2>1, <2>2
<1>6. ASSUME NEW p \in Process, NEW r \in Run, Read(p, r) \/ Ack(p, r)
      PROVE  RestTyped'
  BY <1>6 DEF Read, Ack, Untouched, time
<1>7. ASSUME NEW p \in Process,
             Suppress(p) \/ CreateNotification(p) \/ ReleaseNotification(p)
      PROVE  RestTyped'
  BY <1>7 DEF Suppress, CreateNotification, ReleaseNotification, Untouched, time
<1>8. ASSUME NEW p \in Process, Writes(p) \/ Prune(p)
      PROVE  RestTyped'
  BY <1>8 DEF Writes, Prune, time
<1>9. ASSUME NEW p \in Process, End(p)
      PROVE  RestTyped'
  <2>1. exec' \in [Process -> [Run -> {"none", "running", "awaits", "done"}]]
    BY <1>9 DEF End
  <2>2. asked' \in [Process -> [Run -> {"no", "pending", "confirmed", "failed"}]]
    BY <1>9 DEF End
  <2>3. aged' \cup late' \cup cut' \subseteq started'
    BY <1>9 DEF End, time, StoreTyped, KnownIsStarted
  <2>4. ended' \in 0 .. Ends
    BY <1>9, RunConstants DEF End
  <2> QED  BY <2>1, <2>2, <2>3, <2>4
<1>10. ASSUME NEW p \in Process, Boot(p)
       PROVE  RestTyped'
  BY <1>10 DEF Boot, Untouched, time
<1>11. ASSUME NEW r \in Run, ClaimExpires(r) \/ DeadlinePasses(r) \/ KeepingEnds(r)
       PROVE  RestTyped'
  BY <1>11 DEF ClaimExpires, DeadlinePasses, KeepingEnds, memory, time, StoreTyped,
               KnownIsStarted
<1>12. CASE UNCHANGED vars
  BY <1>12 DEF vars, memory, time
<1> QED  BY <1>1, <1>2, <1>3, <1>4, <1>5, <1>6, <1>7, <1>8, <1>9, <1>10, <1>11, <1>12
         DEF Next

LEMMA TypeInvInit == Init => TypeInv
<1> SUFFICES ASSUME Init PROVE TypeInv
  OBVIOUS
<1>1. StoreTyped
  BY DEF Init, StoreTyped, KnownIsStarted, Exists
<1>2. RestTyped
  BY RunConstants DEF Init, RestTyped
<1> QED  BY <1>1, <1>2 DEF TypeInv

LEMMA TypeInvariance == Spec => []TypeInv
<1>1. TypeInv /\ [Next]_vars => TypeInv'
  BY StoreTypedStep, RestTypedStep DEF TypeInv
<1> QED  BY <1>1, TypeInvInit, PTL DEF Spec

\* Every variable has its type, whatever the runs and processes: nothing is
\* executed, written or recovered that was not started.
THEOREM TypeCorrect == Spec => []TypeOK
<1>1. TypeInv => TypeOK
  BY DEF TypeInv, StoreTyped, RestTyped, TypeOK
<1> QED  BY <1>1, TypeInvariance, PTL

-----------------------------------------------------------------------------
(* Cancellation waits for the execution, in every process *)

\* What a process executes it has in memory as running, and a place without
\* a process executes nothing.
ExecutingIsLive ==
  \A p \in Process, r \in Run : Executing(p, r) =>
    proc[p].up /\ Exists(runs[p][r]) /\ runs[p][r].status = "running"

\* A change of records that keeps what is executed.
LEMMA RewritesKeepExecuting ==
  ASSUME StoreTyped, ExecutingIsLive, NEW p \in Process, Rewrites(p), UNCHANGED exec
  PROVE  ExecutingIsLive'
<1> SUFFICES ASSUME NEW q \in Process, NEW s \in Run, Executing(q, s)
             PROVE  proc'[q].up /\ Exists(runs'[q][s]) /\ runs'[q][s].status = "running"
  BY DEF ExecutingIsLive, Executing, Exists
<1>1. proc[q].up /\ Exists(runs[q][s]) /\ runs[q][s].status = "running"
  BY DEF ExecutingIsLive
<1>2. CASE q = p
  BY <1>1, <1>2 DEF Rewrites, Exists
<1>3. CASE q # p
  BY <1>1, <1>3 DEF Rewrites
<1> QED  BY <1>2, <1>3

\* The end of a run that is not executed any more.
LEMMA EndsRunKeepsExecuting ==
  ASSUME StoreTyped, ExecutingIsLive, NEW p \in Process, NEW r \in Run, NEW write, NEW status,
         EndsRun(p, r, write, status), ~Executing(p, r)',
         \A q \in Process, s \in Run : Executing(q, s)' => Executing(q, s)
  PROVE  ExecutingIsLive'
<1> SUFFICES ASSUME NEW q \in Process, NEW s \in Run, Executing(q, s)'
             PROVE  proc'[q].up /\ Exists(runs'[q][s]) /\ runs'[q][s].status = "running"
  BY DEF ExecutingIsLive, Executing, Exists
<1>1. q # p \/ s # r
  BY DEF Executing
<1>2. runs'[q][s] = runs[q][s] /\ proc'[q].up = proc[q].up
  BY <1>1 DEF EndsRun
<1> QED  BY <1>2 DEF ExecutingIsLive

LEMMA ExecutingStep ==
  ASSUME TypeInv, ExecutingIsLive, [Next]_vars
  PROVE  ExecutingIsLive'
<1> USE DEF TypeInv
<1>0. /\ exec \in [Process -> [Run -> {"none", "running", "awaits", "done"}]]
      /\ runs \in [Process -> [Run -> RunRecord \cup {NoRun}]]
      /\ proc \in [Process -> [up: BOOLEAN, owes: Writing \cup {Nothing}]]
  BY DEF StoreTyped, RestTyped
<1>1. ASSUME NEW p \in Process, NEW r \in Run, NEW policy \in Policy, Start(p, r, policy)
      PROVE  ExecutingIsLive'
  <2> DEFINE rec == NewRun(policy)
  <2>1. rec # NoRun /\ rec.status = "running"
    BY NewTyped
  <2> HIDE DEF rec
  <2>2. /\ runs' = [runs EXCEPT ![p] = [Kept(@) EXCEPT ![r] = rec]]
        /\ exec' = [exec EXCEPT ![p][r] = "running"]
        /\ proc[p].up /\ UNCHANGED proc
    BY <1>1 DEF Start, Up, rec
  <2>3. \A q \in Process, s \in Run :
          (q # p \/ s # r) => exec'[q][s] = exec[q][s]
    BY <1>0, <2>2
  <2>4. runs'[p][r] = rec
    BY <1>0, <2>2, KeptRecords
  <2>5. \A q \in Process, s \in Run :
          ((q # p \/ s # r) /\ Executing(q, s)) => runs'[q][s] = runs[q][s]
    <3>1. \A s \in Run : Executing(p, s) => Kept(runs[p])[s] = runs[p][s]
      BY <1>0, KeptRecords DEF ExecutingIsLive, IsTerminal, Terminal
    <3>2. Kept(runs[p]) \in [Run -> RunRecord \cup {NoRun}]
      BY <1>0, KeptRecords
    <3> QED  BY <1>0, <2>2, <3>1, <3>2
  <2> QED  BY <2>1, <2>2, <2>3, <2>4, <2>5 DEF ExecutingIsLive, Executing, Exists
<1>2. ASSUME NEW p \in Process, NEW r \in Run, NEW status \in Terminal,
             Settles(p, r, status), exec' = [exec EXCEPT ![p][r] = "done"]
      PROVE  ExecutingIsLive'
  <2>1. /\ ~Executing(p, r)'
        /\ \A q \in Process, s \in Run : Executing(q, s)' => Executing(q, s)
    BY <1>0, <1>2 DEF Executing
  <2>2. CASE Live(p, r)
    BY <1>2, <2>1, <2>2, SettlesEnds, EndsRunKeepsExecuting
  <2>3. CASE ~Live(p, r)
    BY <1>2, <2>1, <2>3 DEF Settles, ExecutingIsLive, Executing
  <2> QED  BY <2>2, <2>3
<1>3. ASSUME NEW p \in Process, NEW r \in Run,
             NEW status \in {"completed", "failed", "timed_out"}, ExecutionEnds(p, r, status)
      PROVE  ExecutingIsLive'
  BY <1>2, <1>3 DEF ExecutionEnds, Terminal
<1>4. ASSUME NEW p \in Process, NEW r \in Run,
             ExecutionYields(p, r) \/ AskCancel(p, r) \/ CancelConfirmed(p, r)
      PROVE  ExecutingIsLive'
  <2>1. \A q \in Process, s \in Run : Executing(q, s)' => Executing(q, s)
    <3>1. CASE ExecutionYields(p, r)
      BY <1>0, <3>1 DEF ExecutionYields, Executing
    <3>2. CASE AskCancel(p, r)
      BY <3>2 DEF AskCancel, Executing
    <3>3. CASE CancelConfirmed(p, r)
      BY <1>0, <3>3 DEF CancelConfirmed, Executing
    <3> QED  BY <1>4, <3>1, <3>2, <3>3
  <2>2. UNCHANGED <<runs, proc>>
    BY <1>4 DEF ExecutionYields, AskCancel, CancelConfirmed
  <2> QED  BY <2>1, <2>2 DEF ExecutingIsLive, Executing
<1>5. ASSUME NEW p \in Process, NEW r \in Run, CancelFails(p, r)
      PROVE  ExecutingIsLive'
  <2>1. CASE exec[p][r] = "awaits"
    BY <1>2, <1>5, <2>1 DEF CancelFails, Terminal
  <2>2. CASE exec[p][r] # "awaits"
    BY <1>5, <2>2 DEF CancelFails, ExecutingIsLive, Executing
  <2> QED  BY <2>1, <2>2
<1>6. ASSUME NEW p \in Process, NEW r \in Run, CancelCommits(p, r) \/ CancelNow(p, r)
      PROVE  ExecutingIsLive'
  <2>1. ~Executing(p, r) /\ UNCHANGED exec
    BY <1>6 DEF CancelCommits, CancelNow
  <2>2. CASE Live(p, r) /\ Cancels(p, r)
    <3>1. EndsRun(p, r, "update", "cancelled")
      BY <2>2, CancelsEnds
    <3> QED  BY <2>1, <3>1, EndsRunKeepsExecuting DEF Executing
  <2>3. CASE Exists(runs[p][r]) /\ ~Live(p, r) /\ Cancels(p, r)
    BY <2>1, <2>3, CancelsRewrites, RewritesKeepExecuting
  <2>4. CASE UNCHANGED <<store, proc, runs>>
    BY <2>1, <2>4 DEF ExecutingIsLive, Executing
  <2> QED  BY <1>6, <2>2, <2>3, <2>4 DEF CancelCommits, CancelNow
<1>7. ASSUME NEW p \in Process, NEW r \in Run, Read(p, r) \/ Ack(p, r)
      PROVE  ExecutingIsLive'
  BY <1>7, HandlersRewrite, RewritesKeepExecuting DEF Read, Ack, Untouched
<1>8. ASSUME NEW p \in Process,
             Suppress(p) \/ CreateNotification(p) \/ ReleaseNotification(p)
      PROVE  ExecutingIsLive'
  BY <1>8, HandlersRewrite, RewritesKeepExecuting
     DEF Suppress, CreateNotification, ReleaseNotification, Untouched
<1>9. ASSUME NEW p \in Process, Writes(p)
      PROVE  ExecutingIsLive'
  BY <1>0, <1>9 DEF Writes, ExecutingIsLive, Executing
<1>10. ASSUME NEW p \in Process, Prune(p)
       PROVE  ExecutingIsLive'
  <2>1. runs' = [runs EXCEPT ![p] = Kept(@)] /\ UNCHANGED <<proc, exec>>
    BY <1>10 DEF Prune
  <2>2. \A s \in Run : Executing(p, s) => Kept(runs[p])[s] = runs[p][s]
    BY <1>0, KeptRecords DEF ExecutingIsLive, IsTerminal, Terminal
  <2>3. \A q \in Process, s \in Run : Executing(q, s) => runs'[q][s] = runs[q][s]
    BY <1>0, <2>1, <2>2
  <2> QED  BY <2>1, <2>3 DEF ExecutingIsLive, Executing
<1>11. ASSUME NEW p \in Process, End(p)
       PROVE  ExecutingIsLive'
  <2>1. /\ exec' = [exec EXCEPT ![p] = [r \in Run |-> "none"]]
        /\ runs' = [runs EXCEPT ![p] = [r \in Run |-> NoRun]]
        /\ proc' = [proc EXCEPT ![p] = [up |-> FALSE, owes |-> Nothing]]
    BY <1>11 DEF End
  <2>2. \A q \in Process, s \in Run : Executing(q, s)' => q # p
    BY <1>0, <2>1 DEF Executing
  <2>3. \A q \in Process, s \in Run : q # p =>
          exec'[q][s] = exec[q][s] /\ runs'[q][s] = runs[q][s] /\ proc'[q] = proc[q]
    BY <1>0, <2>1
  <2> QED  BY <2>2, <2>3 DEF ExecutingIsLive, Executing
<1>12. ASSUME NEW p \in Process, Boot(p)
       PROVE  ExecutingIsLive'
  <2>1. /\ runs' = [runs EXCEPT ![p] = stored'] /\ proc' = [proc EXCEPT ![p].up = TRUE]
        /\ ~proc[p].up /\ UNCHANGED exec
    BY <1>12, BootEffect DEF Boot, Untouched
  <2>2. \A q \in Process, s \in Run : Executing(q, s) =>
          runs'[q][s] = runs[q][s] /\ proc'[q] = proc[q]
    BY <1>0, <2>1 DEF ExecutingIsLive
  <2> QED  BY <2>1, <2>2 DEF ExecutingIsLive, Executing
<1>13. ASSUME NEW r \in Run, ClaimExpires(r) \/ DeadlinePasses(r) \/ KeepingEnds(r)
       PROVE  ExecutingIsLive'
  BY <1>13 DEF ClaimExpires, DeadlinePasses, KeepingEnds, memory, ExecutingIsLive, Executing
<1>14. CASE UNCHANGED vars
  BY <1>14 DEF vars, memory, ExecutingIsLive, Executing
<1> QED  BY <1>1, <1>3, <1>4, <1>5, <1>6, <1>7, <1>8, <1>9, <1>10, <1>11, <1>12,
            <1>13, <1>14 DEF Next

LEMMA ExecutingInvariance == Spec => []ExecutingIsLive
<1>1. Init => ExecutingIsLive
  BY DEF Init, ExecutingIsLive, Executing
<1>2. TypeInv /\ ExecutingIsLive /\ [Next]_vars => ExecutingIsLive'
  BY ExecutingStep
<1> QED  BY <1>1, <1>2, TypeInvariance, PTL DEF Spec

\* However runs end and whatever the processes, a run is only cancelled once
\* nothing executes it any more.
THEOREM CancellationWaits == Spec => []CancelledIsOver
<1>1. ExecutingIsLive => CancelledIsOver
  BY DEF ExecutingIsLive, CancelledIsOver
<1> QED  BY <1>1, ExecutingInvariance, PTL


-----------------------------------------------------------------------------
(* One process g that ends and starts again: its memory and the store *)

\* g has cancelled a run in memory, and failed its job, but its row still runs.
HalfCancelled(g) ==
  LET r == proc[g].owes.run IN
    /\ Exists(stored[r]) /\ stored[r].status = "running"
    /\ Exists(runs[g][r]) /\ runs[g][r].status = "cancelled"
    /\ row[r] = NoRow \/ r \in cut

\* Memory and store agree up to the write that a cancellation still owes.
Agrees(g) ==
  /\ proc[g].owes.write = "update" => HalfCancelled(g)
  /\ proc[g].up => \A r \in Run :
       runs[g][r] = stored[r] \/ (proc[g].owes.write = "update" /\ proc[g].owes.run = r)

\* A process that is gone leaves nothing but rows that nobody has claimed.
EmptyWhenDown(g) ==
  ~proc[g].up => /\ proc[g].owes = Nothing
                 /\ \A r \in Run : /\ runs[g][r] = NoRun /\ asked[g][r] = "no"
                                   /\ row[r] # NoRow => row[r].worker # g

\* What runs is executed or about to be cancelled.
Attended(g) ==
  \A r \in Run : (Exists(runs[g][r]) /\ runs[g][r].status = "running") =>
    Executing(g, r) \/ asked[g][r] = "confirmed"

\* A job is of a run that runs, or whose job is to be settled next, and
\* while g is up it has the claim.
JobsHeld(g) ==
  \A r \in Run : (row[r] # NoRow /\ r \notin cut) =>
    /\ row[r].id = r /\ ~row[r].expired /\ (proc[g].up => row[r].worker = g)
    /\ Exists(stored[r])
    /\ \/ stored[r].status = "running"
       \/ proc[g].owes.write \in {"ack", "fail"} /\ proc[g].owes.run = r

RegistryInv(g) ==
  /\ TypeInv /\ ExecutingIsLive
  /\ Agrees(g) /\ EmptyWhenDown(g) /\ Attended(g) /\ JobsHeld(g)

\* Between two operations memory and store are the same.
LEMMA UpAgrees ==
  ASSUME NEW g, Process = {g}, RegistryInv(g), Up(g)
  PROVE  /\ runs[g] = stored /\ proc[g].owes.write = "none"
         /\ \A r \in Run : (row[r] # NoRow /\ r \notin cut) =>
              Exists(stored[r]) /\ stored[r].status = "running" /\ Claims(g, r)
<1>1. proc[g].owes.write = "none"
  BY DEF Up, Nothing
<1>2. \A r \in Run : runs[g][r] = stored[r]
  BY <1>1 DEF RegistryInv, Agrees, Up
<1>3. /\ runs[g] \in [Run -> RunRecord \cup {NoRun}]
      /\ stored \in [Run -> RunRecord \cup {NoRun}]
      /\ row \in [Run -> RunRow \cup {NoRow}]
  BY DEF RegistryInv, TypeInv, StoreTyped
<1>4. runs[g] = stored
  BY <1>2, <1>3
<1>5. ASSUME NEW r \in Run, row[r] # NoRow, r \notin cut
      PROVE  Exists(stored[r]) /\ stored[r].status = "running" /\ Claims(g, r)
  <2>1. row[r].state = "running"
    BY <1>3, <1>5 DEF RunRow
  <2> QED  BY <1>1, <1>5, <2>1 DEF RegistryInv, JobsHeld, Up, Claims, Holds, IsRow
<1> QED  BY <1>1, <1>4, <1>5

\* Saving records of the same status disturbs nothing.
LEMMA RewritesKeepInv ==
  ASSUME NEW g, Process = {g}, RegistryInv(g), Up(g), Rewrites(g),
         UNCHANGED exec,
         \A r \in Run : asked[g][r] = "confirmed" /\ asked'[g][r] # "confirmed" => ~Live(g, r),
         UNCHANGED cut
  PROVE  Agrees(g)' /\ EmptyWhenDown(g)' /\ Attended(g)' /\ JobsHeld(g)'
<1>1. /\ \A r \in Run : runs[g][r] = stored[r]
      /\ proc[g].owes.write = "none" /\ proc[g].up /\ UNCHANGED <<proc, row>>
  BY UpAgrees DEF Up, Rewrites
<1>2. \A r \in Run :
        /\ runs'[g][r] = stored'[r]
        /\ Exists(runs'[g][r]) <=> Exists(runs[g][r])
        /\ Exists(runs'[g][r]) => runs'[g][r].status = runs[g][r].status
  BY <1>1 DEF Rewrites
<1>3. Agrees(g)' /\ EmptyWhenDown(g)'
  BY <1>1, <1>2 DEF Agrees, EmptyWhenDown
<1>4. Attended(g)'
  BY <1>2 DEF RegistryInv, Attended, Executing, Live, IsTerminal, Terminal
<1>5. JobsHeld(g)'
  BY <1>1, <1>2 DEF RegistryInv, JobsHeld
<1> QED  BY <1>3, <1>4, <1>5

\* Ending a live run by itself, as ExecutionEnds and CancelFails do.
LEMMA SettlesKeepsInv ==
  ASSUME NEW g, Process = {g}, RegistryInv(g), Up(g), NEW r \in Run, NEW status \in Terminal,
         Settles(g, r, status), exec' = [exec EXCEPT ![g][r] = "done"],
         Executing(g, r), UNCHANGED cut,
         \A s \in Run : s # r /\ asked[g][s] = "confirmed" => asked'[g][s] = "confirmed"
  PROVE  Agrees(g)' /\ EmptyWhenDown(g)' /\ Attended(g)' /\ JobsHeld(g)'
<1>1. Live(g, r)
  BY DEF RegistryInv, ExecutingIsLive, Live, IsTerminal, Terminal
<1>2. StoreTyped /\ RestTyped /\ g \in Process
  BY DEF RegistryInv, TypeInv
<1>3. PICK write \in {"ack", "fail"} : EndsRun(g, r, write, status)
  BY <1>1, <1>2, SettlesEnds
<1>4. /\ stored' = [stored EXCEPT ![r] = IF Exists(@) THEN runs'[g][r] ELSE @]
      /\ UNCHANGED <<row, dead>>
  BY <1>1, <1>2, SettlesEnds
<1>5. /\ runs[g] = stored /\ proc[g].up
      /\ \A s \in Run : (row[s] # NoRow /\ s \notin cut) =>
           Exists(stored[s]) /\ stored[s].status = "running" /\ Claims(g, s)
  BY UpAgrees DEF Up
<1>6. /\ runs'[g][r] = stored'[r] /\ Exists(stored'[r]) /\ stored'[r].status = status
      /\ \A s \in Run : runs'[g][s] = stored'[s]
      /\ \A s \in Run \ {r} : stored'[s] = stored[s] /\ runs'[g][s] = runs[g][s]
  BY <1>1, <1>2, <1>3, <1>4, <1>5 DEF EndsRun, Live, StoreTyped
<1>7. proc'[g].up /\ proc'[g].owes.write \in {"ack", "fail"} /\ proc'[g].owes.run = r
  BY <1>3, <1>5 DEF EndsRun
<1>8. Agrees(g)' /\ EmptyWhenDown(g)'
  BY <1>6, <1>7 DEF Agrees, EmptyWhenDown
<1>9. Attended(g)'
  BY <1>2, <1>6 DEF RegistryInv, Attended, Executing, Terminal, RestTyped
<1>10. JobsHeld(g)'
  BY <1>4, <1>5, <1>6, <1>7 DEF RegistryInv, JobsHeld
<1> QED  BY <1>8, <1>9, <1>10

\* Cancelling a live run that nothing executes.
LEMMA CancelsKeepsInv ==
  ASSUME NEW g, Process = {g}, RegistryInv(g), Up(g), NEW r \in Run, Live(g, r),
         Cancels(g, r), UNCHANGED <<exec, cut>>,
         \A s \in Run : s # r /\ asked[g][s] = "confirmed" => asked'[g][s] = "confirmed"
  PROVE  Agrees(g)' /\ EmptyWhenDown(g)' /\ Attended(g)' /\ JobsHeld(g)'
<1>1. StoreTyped /\ g \in Process
  BY DEF RegistryInv, TypeInv
<1>2. EndsRun(g, r, "update", "cancelled") /\ FailsJob(g, r) /\ UNCHANGED stored
  BY <1>1, CancelsEnds
<1>3. row' = [row EXCEPT ![r] = IF Claims(g, r) THEN NoRow ELSE @]
  BY <1>1, <1>2, FailsJobEffect
<1>4. /\ runs[g] = stored /\ proc[g].up /\ proc[g].owes.write = "none"
      /\ \A s \in Run : (row[s] # NoRow /\ s \notin cut) =>
           Exists(stored[s]) /\ stored[s].status = "running" /\ Claims(g, s)
  BY UpAgrees DEF Up
<1>5. Exists(stored[r]) /\ stored[r].status = "running"
  BY <1>1, <1>4 DEF Live, IsTerminal, StoreTyped, Exists, RunRecord, Status
<1>6. row'[r] = NoRow \/ r \in cut
  BY <1>1, <1>3, <1>4 DEF StoreTyped
<1>7. \A s \in Run \ {r} : row'[s] = row[s] /\ runs'[g][s] = runs[g][s]
  BY <1>1, <1>2, <1>3 DEF EndsRun, StoreTyped
<1>8. /\ proc'[g].up /\ proc'[g].owes.write = "update" /\ proc'[g].owes.run = r
      /\ Exists(runs'[g][r]) /\ runs'[g][r].status = "cancelled"
  BY <1>2, <1>4 DEF EndsRun
<1>9. Agrees(g)'
  BY <1>2, <1>4, <1>5, <1>6, <1>7, <1>8 DEF Agrees, HalfCancelled, Exists
<1>10. EmptyWhenDown(g)'
  BY <1>8 DEF EmptyWhenDown
<1>11. Attended(g)'
  BY <1>7, <1>8 DEF RegistryInv, Attended, Executing, Exists
<1>12. JobsHeld(g)'
  BY <1>2, <1>4, <1>6, <1>7, <1>8 DEF RegistryInv, JobsHeld
<1> QED  BY <1>9, <1>10, <1>11, <1>12


LEMMA RegistryStep ==
  ASSUME NEW g, Process = {g}, RegistryInv(g), [Next]_vars
  PROVE  Agrees(g)' /\ EmptyWhenDown(g)' /\ Attended(g)' /\ JobsHeld(g)'
<1> DEFINE Again == Agrees(g)' /\ EmptyWhenDown(g)' /\ Attended(g)' /\ JobsHeld(g)'
<1> SUFFICES Again
  OBVIOUS
<1>0. /\ g \in Process
      /\ stored \in [Run -> RunRecord \cup {NoRun}]
      /\ row \in [Run -> RunRow \cup {NoRow}]
      /\ proc \in [Process -> [up: BOOLEAN, owes: Writing \cup {Nothing}]]
      /\ runs \in [Process -> [Run -> RunRecord \cup {NoRun}]]
      /\ exec \in [Process -> [Run -> {"none", "running", "awaits", "done"}]]
      /\ asked \in [Process -> [Run -> {"no", "pending", "confirmed", "failed"}]]
  BY DEF RegistryInv, TypeInv, StoreTyped, RestTyped
<1>u. Up(g) => /\ runs[g] = stored /\ proc[g].owes.write = "none" /\ proc[g].up
               /\ \A r \in Run : (row[r] # NoRow /\ r \notin cut) =>
                    Exists(stored[r]) /\ stored[r].status = "running" /\ Claims(g, r)
  BY UpAgrees DEF Up
<1>1. ASSUME NEW r \in Run, NEW policy \in Policy, Start(g, r, policy)
      PROVE  Again
  <2> DEFINE rec == NewRun(policy)
             job == Claimed(Inserted(r), g)
  <2>1. /\ rec # NoRun /\ rec.status = "running" /\ job # NoRow
        /\ job.worker = g /\ ~job.expired /\ job.id = r
    BY <1>0, NewTyped DEF Claimed, Inserted
  <2> HIDE DEF rec, job
  <2>2. /\ runs' = [runs EXCEPT ![g] = [Kept(@) EXCEPT ![r] = rec]]
        /\ stored' = [Kept(stored) EXCEPT ![r] = rec]
        /\ row' = [row EXCEPT ![r] = job]
        /\ exec' = [exec EXCEPT ![g][r] = "running"]
        /\ UNCHANGED <<proc, asked, cut>>
    BY <1>1 DEF Start, rec, job
  <2>3. /\ runs[g] = stored /\ proc[g].owes.write = "none" /\ proc[g].up
        /\ \A s \in Run : (row[s] # NoRow /\ s \notin cut) =>
             Exists(stored[s]) /\ stored[s].status = "running"
    BY <1>1, <1>u DEF Start
  <2>4. Kept(stored) \in [Run -> RunRecord \cup {NoRun}]
    BY <1>0, KeptRecords
  <2>5. runs'[g] = stored'
    BY <1>0, <2>2, <2>3
  <2>6. stored'[r] = rec /\ row'[r] = job /\ exec'[g][r] = "running"
    BY <1>0, <2>2, <2>4
  <2>7. ASSUME NEW s \in Run \ {r}
        PROVE  /\ row'[s] = row[s] /\ exec'[g][s] = exec[g][s]
               /\ Exists(stored'[s]) => stored'[s] = stored[s]
               /\ (Exists(stored[s]) /\ stored[s].status = "running") => stored'[s] = stored[s]
    <3>1. stored'[s] = Kept(stored)[s] /\ row'[s] = row[s] /\ exec'[g][s] = exec[g][s]
      BY <1>0, <2>2, <2>4
    <3>2. \/ Kept(stored)[s] = stored[s]
          \/ /\ Kept(stored)[s] = NoRun
             /\ stored[s] \in RunRecord /\ IsTerminal(stored[s])
      BY <1>0, KeptRecords
    <3> QED  BY <3>1, <3>2 DEF Exists, IsTerminal, Terminal
  <2>8. Agrees(g)' /\ EmptyWhenDown(g)'
    BY <2>2, <2>3, <2>5 DEF Agrees, EmptyWhenDown
  <2>9. Attended(g)'
    BY <2>2, <2>3, <2>5, <2>6, <2>7 DEF RegistryInv, Attended, Executing
  <2>10. JobsHeld(g)'
    BY <2>1, <2>2, <2>3, <2>6, <2>7 DEF RegistryInv, JobsHeld, Exists
  <2> QED  BY <2>8, <2>9, <2>10
<1>2. ASSUME NEW r \in Run, NEW status \in {"completed", "failed", "timed_out"},
             ExecutionEnds(g, r, status)
      PROVE  Again
  BY <1>2, SettlesKeepsInv DEF ExecutionEnds, Terminal, Executing
<1>3. ASSUME NEW r \in Run, ExecutionYields(g, r) \/ AskCancel(g, r) \/ CancelConfirmed(g, r)
      PROVE  Again
  <2>1. UNCHANGED <<stored, row, proc, runs, cut>> /\ proc[g].up
    BY <1>3 DEF ExecutionYields, AskCancel, CancelConfirmed, store, Up
  <2>2. Agrees(g)' /\ EmptyWhenDown(g)' /\ JobsHeld(g)'
    BY <2>1 DEF RegistryInv, Agrees, HalfCancelled, EmptyWhenDown, JobsHeld
  <2>3. \A s \in Run : (Executing(g, s) \/ asked[g][s] = "confirmed") =>
                         (Executing(g, s) \/ asked[g][s] = "confirmed")'
    <3>1. CASE ExecutionYields(g, r)
      BY <1>0, <3>1 DEF ExecutionYields, Executing
    <3>2. CASE AskCancel(g, r)
      BY <1>0, <3>2 DEF AskCancel, Executing
    <3>3. CASE CancelConfirmed(g, r)
      BY <1>0, <3>3 DEF CancelConfirmed, Executing
    <3> QED  BY <1>3, <3>1, <3>2, <3>3
  <2>4. Attended(g)'
    BY <2>1, <2>3 DEF RegistryInv, Attended
  <2> QED  BY <2>2, <2>4
<1>4. ASSUME NEW r \in Run, CancelFails(g, r)
      PROVE  Again
  <2>1. /\ asked' = [asked EXCEPT ![g][r] = "failed"] /\ Up(g) /\ UNCHANGED cut
        /\ asked[g][r] = "pending" \/ Executing(g, r)
    BY <1>4 DEF CancelFails
  <2>2. CASE exec[g][r] = "awaits"
    <3>1. Settles(g, r, "failed") /\ exec' = [exec EXCEPT ![g][r] = "done"]
      BY <1>4, <2>2 DEF CancelFails
    <3>2. \A s \in Run : s # r /\ asked[g][s] = "confirmed" => asked'[g][s] = "confirmed"
      BY <1>0, <2>1
    <3> QED  BY <2>1, <2>2, <3>1, <3>2, SettlesKeepsInv DEF Terminal, Executing
  <2>3. CASE exec[g][r] # "awaits"
    <3>1. UNCHANGED <<stored, row, proc, runs, exec>>
      BY <1>4, <2>3 DEF CancelFails, store
    <3>2. Agrees(g)' /\ EmptyWhenDown(g)' /\ JobsHeld(g)'
      BY <2>1, <3>1 DEF RegistryInv, Agrees, HalfCancelled, EmptyWhenDown, JobsHeld, Up
    <3>3. Attended(g)'
      BY <1>0, <2>1, <3>1 DEF RegistryInv, Attended, Executing
    <3> QED  BY <3>2, <3>3
  <2> QED  BY <2>2, <2>3
<1>5. ASSUME NEW r \in Run, CancelCommits(g, r) \/ CancelNow(g, r)
      PROVE  Again
  <2>1. /\ Up(g) /\ UNCHANGED <<exec, cut>>
        /\ \A s \in Run : s # r => asked'[g][s] = asked[g][s]
    BY <1>0, <1>5 DEF CancelCommits, CancelNow
  <2>2. CASE Live(g, r) /\ Cancels(g, r)
    BY <2>1, <2>2, CancelsKeepsInv
  <2>3. CASE ~Live(g, r)
    <3>1. CASE Exists(runs[g][r]) /\ Cancels(g, r)
      <4>1. Rewrites(g)
        BY <1>0, <2>3, <3>1, CancelsRewrites DEF RegistryInv, TypeInv
      <4> QED  BY <2>1, <2>3, <4>1, RewritesKeepInv
    <3>2. CASE UNCHANGED <<store, proc, runs>>
      <4>1. UNCHANGED <<stored, row, proc, runs>>
        BY <3>2 DEF store
      <4>2. Agrees(g)' /\ EmptyWhenDown(g)' /\ JobsHeld(g)'
        BY <2>1, <4>1 DEF RegistryInv, Agrees, HalfCancelled, EmptyWhenDown, JobsHeld, Up
      <4>3. Attended(g)'
        BY <2>1, <2>3, <4>1 DEF RegistryInv, Attended, Executing, Live, IsTerminal, Terminal
      <4> QED  BY <4>2, <4>3
    <3> QED  BY <1>5, <3>1, <3>2 DEF CancelCommits, CancelNow
  <2> QED  BY <1>5, <2>2, <2>3 DEF CancelCommits, CancelNow, Live
<1>6. ASSUME NEW r \in Run, Read(g, r) \/ Ack(g, r)
      PROVE  Again
  <2>1. Up(g) /\ UNCHANGED <<exec, asked, cut>>
    BY <1>6 DEF Read, Ack, Untouched
  <2>2. Rewrites(g)
    BY <1>0, <1>6, HandlersRewrite DEF RegistryInv, TypeInv
  <2> QED  BY <2>1, <2>2, RewritesKeepInv
<1>7. ASSUME Suppress(g) \/ CreateNotification(g) \/ ReleaseNotification(g)
      PROVE  Again
  <2>1. Up(g) /\ UNCHANGED <<exec, asked, cut>>
    BY <1>7 DEF Suppress, CreateNotification, ReleaseNotification, Untouched
  <2>2. Rewrites(g)
    BY <1>0, <1>7, HandlersRewrite DEF RegistryInv, TypeInv
  <2> QED  BY <2>1, <2>2, RewritesKeepInv
<1>8. ASSUME Writes(g)
      PROVE  Again
  <2> DEFINE r == proc[g].owes.run
  <2>1. /\ proc[g].up /\ proc[g].owes \in Writing /\ r \in Run
        /\ proc'[g].up /\ proc'[g].owes = Nothing /\ proc'[g].owes.write = "none"
        /\ UNCHANGED <<runs, exec, asked, cut>>
    BY <1>0, <1>8 DEF Writes, RegistryInv, EmptyWhenDown, Writing, Nothing
  <2>2. Attended(g)'
    BY <2>1 DEF RegistryInv, Attended, Executing
  <2>3. EmptyWhenDown(g)'
    BY <2>1 DEF EmptyWhenDown
  <2>4. \A s \in Run : (row[s] # NoRow /\ s \notin cut) => Claims(g, s)
    <3>1. \A s \in Run : row[s] # NoRow => row[s].state = "running"
      BY <1>0 DEF RunRow
    <3> QED  BY <2>1, <3>1 DEF RegistryInv, JobsHeld, Claims, Holds, IsRow
  <2>5. CASE proc[g].owes.write \in {"ack", "fail"}
    <3>1. UNCHANGED stored /\ row' = [row EXCEPT ![r] = IF Claims(g, r) THEN NoRow ELSE @]
      <4>1. CASE proc[g].owes.write = "ack"
        BY <1>8, <4>1 DEF Writes
      <4>2. CASE proc[g].owes.write = "fail"
        BY <1>0, <1>8, <2>1, <4>2, FailsJobEffect DEF Writes, RegistryInv, TypeInv
      <4> QED  BY <2>5, <4>1, <4>2
    <3>2. Agrees(g)'
      BY <2>1, <2>5, <3>1 DEF RegistryInv, Agrees
    <3>3. \A s \in Run : (row'[s] # NoRow /\ s \notin cut) => s # r /\ row'[s] = row[s]
      BY <1>0, <2>1, <2>4, <3>1
    <3>4. JobsHeld(g)'
      BY <2>1, <3>1, <3>3 DEF RegistryInv, JobsHeld
    <3> QED  BY <2>2, <2>3, <3>2, <3>4
  <2>6. CASE proc[g].owes.write = "update"
    <3>1. Stored(r, runs[g][r]) /\ UNCHANGED row
      BY <1>8, <2>6 DEF Writes
    <3>2. HalfCancelled(g)
      BY <2>6 DEF RegistryInv, Agrees
    <3>3. /\ stored'[r] = runs[g][r]
          /\ \A s \in Run \ {r} : stored'[s] = stored[s]
      BY <1>0, <2>1, <3>1, <3>2 DEF Stored, HalfCancelled
    <3>4. Agrees(g)'
      BY <2>1, <3>3 DEF RegistryInv, Agrees
    <3>5. JobsHeld(g)'
      BY <2>1, <2>6, <3>1, <3>2, <3>3 DEF RegistryInv, JobsHeld, HalfCancelled
    <3> QED  BY <2>2, <2>3, <3>4, <3>5
  <2> QED  BY <2>1, <2>5, <2>6 DEF Writing
<1>9. ASSUME Prune(g)
      PROVE  Again
  <2>1. /\ runs' = [runs EXCEPT ![g] = Kept(@)] /\ stored' = Kept(stored)
        /\ UNCHANGED <<row, proc, exec, asked, cut>>
        /\ runs[g] = stored /\ proc[g].owes.write = "none" /\ proc[g].up
        /\ \A r \in Run : (row[r] # NoRow /\ r \notin cut) =>
             Exists(stored[r]) /\ stored[r].status = "running"
    BY <1>9, <1>u DEF Prune
  <2>2. runs'[g] = stored'
    BY <1>0, <2>1
  <2>3. \A r \in Run :
          \/ stored'[r] = stored[r]
          \/ stored'[r] = NoRun /\ stored[r] \in RunRecord /\ IsTerminal(stored[r])
    BY <1>0, <2>1, KeptRecords
  <2>4. Agrees(g)' /\ EmptyWhenDown(g)'
    BY <2>1, <2>2 DEF Agrees, EmptyWhenDown
  <2>5. Attended(g)'
    BY <2>1, <2>2, <2>3 DEF RegistryInv, Attended, Executing, Exists
  <2>6. JobsHeld(g)'
    BY <2>1, <2>3 DEF RegistryInv, JobsHeld, IsTerminal, Terminal
  <2> QED  BY <2>4, <2>5, <2>6
<1>10. ASSUME End(g)
       PROVE  Again
  <2>1. /\ runs' = [runs EXCEPT ![g] = [r \in Run |-> NoRun]]
        /\ asked' = [asked EXCEPT ![g] = [r \in Run |-> "no"]]
        /\ proc' = [proc EXCEPT ![g] = [up |-> FALSE, owes |-> Nothing]]
        /\ cut' = IF proc[g].owes = Nothing THEN cut ELSE cut \cup {proc[g].owes.run}
        /\ UNCHANGED stored
    BY <1>10 DEF End
  <2>2. /\ ~proc'[g].up /\ proc'[g].owes = Nothing /\ proc'[g].owes.write = "none"
        /\ \A r \in Run : runs'[g][r] = NoRun /\ asked'[g][r] = "no"
    BY <1>0, <2>1 DEF Nothing
  <2>3. ASSUME NEW r \in Run
        PROVE  /\ row'[r] # NoRow => row'[r].worker # g /\ row[r] # NoRow
               /\ row'[r] # NoRow => row'[r].id = row[r].id /\ row'[r].expired = row[r].expired
    <3>1. row'[r] = IF row[r] # NoRow /\ row[r].worker = g
                    THEN [row[r] EXCEPT !.worker = Nobody] ELSE row[r]
      BY <1>10 DEF End
    <3>2. CASE row[r] # NoRow /\ row[r].worker = g
      BY <1>0, <3>1, <3>2, RunConstants DEF RunRow
    <3>3. CASE ~(row[r] # NoRow /\ row[r].worker = g)
      BY <3>1, <3>3
    <3> QED  BY <3>2, <3>3
  <2>4. Agrees(g)' /\ EmptyWhenDown(g)'
    BY <2>2, <2>3 DEF Agrees, EmptyWhenDown
  <2>5. Attended(g)'
    BY <2>2 DEF Attended, Exists
  <2>6. JobsHeld(g)'
    <3>1. \A r \in Run : r \notin cut' =>
            r \notin cut /\ (proc[g].owes.write \in {"ack", "fail"} => proc[g].owes.run # r)
      BY <2>1 DEF Nothing
    <3> QED  BY <2>1, <2>2, <2>3, <3>1 DEF RegistryInv, JobsHeld
  <2> QED  BY <2>4, <2>5, <2>6
<1>11. ASSUME Boot(g)
       PROVE  Again
  <2>1. /\ ~proc[g].up /\ proc' = [proc EXCEPT ![g].up = TRUE]
        /\ UNCHANGED <<exec, asked, cut>>
    BY <1>11 DEF Boot, Untouched
  <2>2. /\ proc[g].owes = Nothing
        /\ \A r \in Run : row[r] # NoRow => row[r].worker # g
    BY <2>1 DEF RegistryInv, EmptyWhenDown
  <2>3. proc'[g].up /\ proc'[g].owes.write = "none"
    BY <1>0, <2>1, <2>2 DEF Nothing
  <2>4. /\ runs' = [runs EXCEPT ![g] = stored']
        /\ \A r \in Run : IF r \in Interrupted(g)
                          THEN Exists(stored'[r]) /\ IsTerminal(stored'[r])
                          ELSE stored'[r] = stored[r]
        /\ \A r \in Run : row'[r] = IF r \in Interrupted(g) \cup Orphaned THEN NoRow ELSE row[r]
    BY <1>0, <1>11, BootEffect DEF RegistryInv, TypeInv
  <2>5. \A r \in Run : (Exists(stored[r]) /\ stored[r].status = "running") => r \in Interrupted(g)
    BY <2>2 DEF Interrupted, ClaimedBy, Claims, Holds
  <2>6. Agrees(g)' /\ EmptyWhenDown(g)'
    BY <1>0, <2>3, <2>4 DEF Agrees, EmptyWhenDown
  <2>7. Attended(g)'
    BY <1>0, <2>4, <2>5 DEF Attended, IsTerminal, Terminal
  <2>8. \A r \in Run : (row[r] # NoRow /\ r \notin cut) => r \in Interrupted(g)
    BY <2>2, <2>5 DEF RegistryInv, JobsHeld, Nothing
  <2>9. JobsHeld(g)'
    BY <2>1, <2>4, <2>8 DEF JobsHeld
  <2> QED  BY <2>6, <2>7, <2>9
<1>12. ASSUME NEW r \in Run, ClaimExpires(r)
       PROVE  Again
  <2>1. /\ row' = [row EXCEPT ![r] = ClaimLapses(@)] /\ row[r] # NoRow
        /\ cut' = cut \cup {r} /\ UNCHANGED <<stored, proc, runs, exec, asked>>
    BY <1>12 DEF ClaimExpires, memory
  <2>2. row[r] \in RunRow /\ row'[r] = ClaimLapses(row[r])
    BY <1>0, <2>1
  <2>3. row'[r].worker = row[r].worker
    BY <2>2 DEF ClaimLapses, RunRow
  <2>4. \A s \in Run \ {r} : row'[s] = row[s]
    BY <1>0, <2>1
  <2>5. Agrees(g)'
    BY <2>1, <2>4 DEF RegistryInv, Agrees, HalfCancelled, TypeInv, StoreTyped, Writing, Nothing
  <2>6. EmptyWhenDown(g)'
    BY <2>1, <2>3, <2>4 DEF RegistryInv, EmptyWhenDown
  <2>7. Attended(g)'
    BY <2>1 DEF RegistryInv, Attended, Executing
  <2>8. JobsHeld(g)'
    BY <2>1, <2>4 DEF RegistryInv, JobsHeld
  <2> QED  BY <2>5, <2>6, <2>7, <2>8
<1>13. ASSUME UNCHANGED <<stored, row, proc, runs, exec, asked, cut>>
       PROVE  Again
  BY <1>13 DEF RegistryInv, Agrees, HalfCancelled, EmptyWhenDown, Attended, JobsHeld, Executing
<1>14. ASSUME NEW r \in Run, DeadlinePasses(r) \/ KeepingEnds(r)
       PROVE  Again
  BY <1>13, <1>14 DEF DeadlinePasses, KeepingEnds, store, memory
<1>15. CASE UNCHANGED vars
  BY <1>13, <1>15 DEF vars, store, memory
<1> HIDE DEF Again
<1>16. CASE \E r \in Run :
              \/ \E policy \in Policy : Start(g, r, policy)
              \/ \E status \in {"completed", "failed", "timed_out"} : ExecutionEnds(g, r, status)
              \/ ExecutionYields(g, r)
              \/ AskCancel(g, r) \/ CancelConfirmed(g, r) \/ CancelFails(g, r)
              \/ CancelCommits(g, r) \/ CancelNow(g, r)
              \/ Read(g, r) \/ Ack(g, r)
  BY <1>1, <1>2, <1>3, <1>4, <1>5, <1>6, <1>16
<1>17. CASE \/ Writes(g) \/ Prune(g) \/ Suppress(g)
            \/ CreateNotification(g) \/ ReleaseNotification(g)
            \/ End(g) \/ Boot(g)
  BY <1>7, <1>8, <1>9, <1>10, <1>11, <1>17
<1>18. CASE \E r \in Run : ClaimExpires(r) \/ DeadlinePasses(r) \/ KeepingEnds(r)
  BY <1>12, <1>14, <1>18
<1> QED  BY <1>15, <1>16, <1>17, <1>18 DEF Next

\* The strengthening is an invariant.
LEMMA RegistryInvariance ==
  ASSUME NEW CONSTANT g, Process = {g}
  PROVE  Spec => []RegistryInv(g)
<1>1. Init => RegistryInv(g)
  <2> SUFFICES ASSUME Init PROVE RegistryInv(g)
    OBVIOUS
  <2>1. TypeInv /\ ExecutingIsLive
    BY TypeInvInit DEF Init, ExecutingIsLive, Executing
  <2>2. Agrees(g) /\ EmptyWhenDown(g) /\ Attended(g) /\ JobsHeld(g)
    BY DEF Init, Agrees, EmptyWhenDown, Attended, JobsHeld, Exists, Nothing
  <2> QED  BY <2>1, <2>2 DEF RegistryInv
<1>2. RegistryInv(g) /\ [Next]_vars => RegistryInv(g)'
  <2> SUFFICES ASSUME RegistryInv(g), [Next]_vars PROVE RegistryInv(g)'
    OBVIOUS
  <2>1. TypeInv' /\ ExecutingIsLive'
    BY StoreTypedStep, RestTypedStep, ExecutingStep DEF RegistryInv, TypeInv
  <2>2. Agrees(g)' /\ EmptyWhenDown(g)' /\ Attended(g)' /\ JobsHeld(g)'
    BY RegistryStep
  <2> QED  BY <2>1, <2>2 DEF RegistryInv
<1> QED  BY <1>1, <1>2, PTL DEF Spec

\* Between two operations the store holds all that the only process knows,
\* however often it ends, also between the two writes of an operation.
THEOREM MemoryFollowsStore ==
  ASSUME NEW CONSTANT g, Process = {g}
  PROVE  Spec => []MemoryIsStored
<1>1. RegistryInv(g) => MemoryIsStored
  BY UpAgrees DEF MemoryIsStored
<1> QED  BY <1>1, RegistryInvariance, PTL

\* No run stays running in the store with nobody to end it.
THEOREM RunsAreAttended ==
  ASSUME NEW CONSTANT g, Process = {g}
  PROVE  Spec => []RunningIsExecuted
<1>1. RegistryInv(g) => RunningIsExecuted
  BY UpAgrees DEF RunningIsExecuted, RegistryInv, Attended
<1> QED  BY <1>1, RegistryInvariance, PTL

\* A job outlives its run only where its process ended between the two
\* writes, or its claim lapsed.
THEOREM JobsEndWithRuns ==
  ASSUME NEW CONSTANT g, Process = {g}
  PROVE  Spec => []JobEndsWithRun
<1>1. RegistryInv(g) => JobEndsWithRun
  <2> SUFFICES ASSUME RegistryInv(g), NEW r \in Run, row[r] # NoRow,
                      proc[g].owes = Nothing, r \notin cut
               PROVE  Exists(stored[r]) /\ stored[r].status = "running"
    BY DEF JobEndsWithRun
  <2> QED  BY DEF RegistryInv, JobsHeld, Nothing
<1> QED  BY <1>1, RegistryInvariance, PTL

\* With one process the status of an ended run never changes in the store:
\* neither by a late completion or cancellation nor by a recovery.
THEOREM EndsAreFinal ==
  ASSUME NEW CONSTANT g, Process = {g}
  PROVE  Spec => TerminalFinal
<1> DEFINE Final == \A r \in Run :
             (Exists(stored[r]) /\ IsTerminal(stored[r]) /\ Exists(stored'[r]))
               => stored'[r].status = stored[r].status
<1>1. ASSUME RegistryInv(g), Next
      PROVE  Final
  <2>0. /\ g \in Process /\ StoreTyped /\ (Up(g) => runs[g] = stored)
        /\ stored \in [Run -> RunRecord \cup {NoRun}]
    BY <1>1, UpAgrees DEF RegistryInv, TypeInv, StoreTyped
  <2>1. ASSUME Up(g), Rewrites(g)
        PROVE  Final
    BY <2>0, <2>1 DEF Rewrites
  <2>2. ASSUME Up(g), NEW r \in Run, NEW status \in Terminal, Settles(g, r, status)
        PROVE  Final
    <3>1. CASE Live(g, r)
      <4>1. stored' = [stored EXCEPT ![r] = IF Exists(@) THEN runs'[g][r] ELSE @]
        BY <2>0, <2>2, <3>1, SettlesEnds
      <4>2. ~IsTerminal(stored[r])
        BY <2>0, <2>2, <3>1 DEF Live
      <4> QED  BY <2>0, <4>1, <4>2
    <3>2. CASE ~Live(g, r)
      BY <2>2, <3>2 DEF Settles, store
    <3> QED  BY <3>1, <3>2
  <2>3. ASSUME Up(g), NEW r \in Run, Exists(runs[g][r]), Cancels(g, r)
        PROVE  Final
    <3>1. CASE Live(g, r)
      BY <2>0, <2>3, <3>1, CancelsEnds
    <3>2. CASE ~Live(g, r)
      BY <2>0, <2>1, <2>3, <3>2, CancelsRewrites
    <3> QED  BY <3>1, <3>2
  <2>4. ASSUME UNCHANGED stored
        PROVE  Final
    BY <2>4
  <2>5. ASSUME NEW r \in Run, NEW policy \in Policy, Start(g, r, policy)
        PROVE  Final
    <3>1. stored' = [Kept(stored) EXCEPT ![r] = NewRun(policy)] /\ ~Exists(stored[r])
      BY <2>0, <2>5 DEF Start, StoreTyped, KnownIsStarted
    <3>2. /\ Kept(stored) \in [Run -> RunRecord \cup {NoRun}]
          /\ \A s \in Run : Kept(stored)[s] = stored[s] \/ ~Exists(Kept(stored)[s])
      BY <2>0, KeptRecords DEF Exists
    <3> QED  BY <3>1, <3>2
  <2>6. ASSUME Prune(g)
        PROVE  Final
    <3>1. \A s \in Run : Kept(stored)[s] = stored[s] \/ ~Exists(Kept(stored)[s])
      BY <2>0, KeptRecords DEF Exists
    <3> QED  BY <2>6, <3>1 DEF Prune
  <2>7. ASSUME Writes(g)
        PROVE  Final
    <3>1. CASE proc[g].owes.write = "update"
      <4>1. Stored(proc[g].owes.run, runs[g][proc[g].owes.run])
        BY <2>7, <3>1 DEF Writes
      <4>2. ~IsTerminal(stored[proc[g].owes.run])
        BY <1>1, <3>1 DEF RegistryInv, Agrees, HalfCancelled, IsTerminal, Terminal
      <4> QED  BY <2>0, <4>1, <4>2 DEF Stored
    <3>2. CASE proc[g].owes.write # "update"
      BY <2>0, <2>7, <3>2 DEF Writes, StoreTyped, Writing, Nothing
    <3> QED  BY <3>1, <3>2
  <2>8. ASSUME Boot(g)
        PROVE  Final
    BY <2>0, <2>8, BootEffect DEF Interrupted, IsTerminal, Terminal
  <2> HIDE DEF Final
  <2>9. CASE \E r \in Run :
               \/ \E policy \in Policy : Start(g, r, policy)
               \/ \E status \in {"completed", "failed", "timed_out"} : ExecutionEnds(g, r, status)
               \/ ExecutionYields(g, r)
               \/ AskCancel(g, r) \/ CancelConfirmed(g, r) \/ CancelFails(g, r)
               \/ CancelCommits(g, r) \/ CancelNow(g, r)
               \/ Read(g, r) \/ Ack(g, r)
    <3>1. PICK r \in Run :
               \/ \E policy \in Policy : Start(g, r, policy)
               \/ \E status \in {"completed", "failed", "timed_out"} : ExecutionEnds(g, r, status)
               \/ ExecutionYields(g, r)
               \/ AskCancel(g, r) \/ CancelConfirmed(g, r) \/ CancelFails(g, r)
               \/ CancelCommits(g, r) \/ CancelNow(g, r)
               \/ Read(g, r) \/ Ack(g, r)
      BY <2>9
    <3>2. CASE \E status \in {"completed", "failed", "timed_out"} : ExecutionEnds(g, r, status)
      BY <2>2, <3>2 DEF ExecutionEnds, Terminal
    <3>3. CASE ExecutionYields(g, r) \/ AskCancel(g, r) \/ CancelConfirmed(g, r)
      BY <2>4, <3>3 DEF ExecutionYields, AskCancel, CancelConfirmed, store
    <3>4. CASE CancelFails(g, r)
      BY <2>2, <2>4, <3>4 DEF CancelFails, Terminal, store
    <3>5. CASE CancelCommits(g, r)
      BY <2>3, <2>4, <3>5 DEF CancelCommits, store
    <3>6. CASE CancelNow(g, r)
      BY <2>3, <3>6 DEF CancelNow
    <3>7. CASE Read(g, r) \/ Ack(g, r)
      <4>1. Up(g)
        BY <3>7 DEF Read, Ack
      <4> QED  BY <2>0, <2>1, <3>7, <4>1, HandlersRewrite
    <3> QED  BY <2>5, <3>1, <3>2, <3>3, <3>4, <3>5, <3>6, <3>7
  <2>10. CASE Suppress(g) \/ CreateNotification(g) \/ ReleaseNotification(g)
    <3>1. Up(g)
      BY <2>10 DEF Suppress, CreateNotification, ReleaseNotification
    <3> QED  BY <2>0, <2>1, <2>10, <3>1, HandlersRewrite
  <2>11. CASE End(g)
    BY <2>4, <2>11 DEF End
  <2>12. CASE \E r \in Run : ClaimExpires(r) \/ DeadlinePasses(r) \/ KeepingEnds(r)
    BY <2>4, <2>12 DEF ClaimExpires, DeadlinePasses, KeepingEnds, store
  <2> QED  BY <1>1, <2>6, <2>7, <2>8, <2>9, <2>10, <2>11, <2>12 DEF Next
<1>2. RegistryInv(g) /\ [Next]_vars => [Final]_vars
  BY <1>1
<1>3. TerminalFinal <=> [][Final]_vars
  BY DEF TerminalFinal
<1> QED  BY <1>2, <1>3, RegistryInvariance, PTL DEF Spec
=============================================================================
