------------------------ MODULE MessageCommandsProofs ------------------------
(* Proofs about MessageCommands for every set of commands and sessions and   *)
(* every number of mishaps: what the module says of messages that are handed *)
(* on twice, out of order or answered wrongly is true of all of them.        *)
EXTENDS MessageCommands, TLAPS

-----------------------------------------------------------------------------
(* Types, and rows that are admitted *)

\* A row that is not admitted was never claimed, one that is has a session.
Admitted(c) ==
  /\ row[c].state = "none" => row[c].owner = None /\ row[c].token = 0
  /\ row[c].state # "none" => row[c].session \in Session

TypeInv == TypeOK /\ \A c \in Command : Admitted(c)

LEMMA StatesDiffer ==
  /\ State = {"accepted", "waiting_slot", "initializing", "session_queue", "running",
              "completed", "failed", "none", "interrupted"}
  /\ Unstarted \subseteq Active /\ Active \subseteq State /\ Settled \subseteq State
  /\ Active \cap (Settled \cup {"none", "interrupted"}) = {}
  /\ Settled \cap {"none", "interrupted"} = {}
BY DEF State, Active, Settled, Unstarted

LEMMA ReasonsDiffer ==
  /\ Reason = {"cancelled", "not_dispatched", "refused", "none", "expired", "payload",
               "session_gone", "unclear", "operator"}
  /\ NotRun = {"cancelled", "not_dispatched", "refused"}
BY DEF Reason, NotRun

\* The fields that nothing but admission and claims change.
SameRow(r, q) ==
  /\ q \in Row
  /\ q.session = r.session /\ q.delivery = r.delivery /\ q.token = r.token
  /\ q.owner \in {r.owner, None}

LEMMA ReleasedRow ==
  ASSUME NEW r \in Row, NEW state \in State, NEW error \in Reason
  PROVE  /\ Released(r, state, error) \in Row
         /\ SameRow(r, Released(r, state, error))
         /\ Released(r, state, error).state = state
         /\ Released(r, state, error).error = error
         /\ Released(r, state, error).owner = None
BY DEF Row, Released, SameRow

LEMMA OutcomeIsLogged ==
  ASSUME NEW c \in Command, Outcome(c) # None
  PROVE  Outcome(c) \in Settled /\ log[c] = {Outcome(c)}
BY DEF Outcome

LEMMA FailBlockedRows ==
  ASSUME NEW rows \in [Command -> Row]
  PROVE  /\ FailBlocked(rows) \in [Command -> Row]
         /\ \A c \in Command :
              \/ FailBlocked(rows)[c] = rows[c]
              \/ /\ rows[c].state \in Unstarted
                 /\ FailBlocked(rows)[c] = Released(rows[c], "failed", "not_dispatched")
<1>1. \A d \in Command : Released(rows[d], "failed", "not_dispatched") \in Row
  BY ReleasedRow, StatesDiffer, ReasonsDiffer
<1> QED  BY <1>1 DEF FailBlocked

\* What a repair of the table makes of a row.
Repairs(c, q) ==
  /\ SameRow(row[c], q)
  /\ \/ q.state = row[c].state /\ q.error = row[c].error
     \/ row[c].state = "waiting_slot" /\ q.state = "accepted"
     \/ row[c].state \in Active /\ q.state = "interrupted"
     \/ /\ row[c].state \in Active \cup {"interrupted"}
        /\ q.state \in Settled /\ log[c] = {q.state} /\ q.error = "none"
     \/ /\ row[c].state \in Unstarted
        /\ q.state = "failed" /\ q.error = "not_dispatched"

LEMMA BlockedRepairs ==
  ASSUME TypeOK, NEW rows \in [Command -> Row], NEW c \in Command, Repairs(c, rows[c])
  PROVE  Repairs(c, FailBlocked(rows)[c])
<1>1. CASE FailBlocked(rows)[c] = rows[c]
  BY <1>1
<1>2. CASE /\ rows[c].state \in Unstarted
           /\ FailBlocked(rows)[c] = Released(rows[c], "failed", "not_dispatched")
  <2>1. row[c].state \in Unstarted
    BY <1>2 DEF Repairs, Unstarted, Settled
  <2>2. row[c] \in Row /\ rows[c] \in Row
    BY DEF TypeOK
  <2>3. "failed" \in State /\ "not_dispatched" \in Reason
    BY StatesDiffer, ReasonsDiffer
  <2> DEFINE q == Released(rows[c], "failed", "not_dispatched")
  <2>4. SameRow(rows[c], q) /\ q.state = "failed" /\ q.error = "not_dispatched"
    BY <2>2, <2>3, ReleasedRow
  <2>5. SameRow(row[c], q)
    BY <2>4 DEF SameRow, Repairs
  <2> QED  BY <1>2, <2>1, <2>4, <2>5 DEF Repairs
<1> QED  BY <1>1, <1>2, FailBlockedRows

LEMMA RecoverRepairs ==
  ASSUME TypeOK
  PROVE  /\ RecoverExpired(row) \in [Command -> Row]
         /\ \A c \in Command : Repairs(c, RecoverExpired(row)[c])
<1> DEFINE rows == [c \in Command |->
             IF Expired(row[c]) /\ row[c].state \in Active
             THEN Recovered(row[c], Outcome(c)) ELSE row[c]]
<1>1. \A c \in Command : rows[c] \in Row /\ Repairs(c, rows[c])
  <2> SUFFICES ASSUME NEW c \in Command
               PROVE  rows[c] \in Row /\ Repairs(c, rows[c])
    OBVIOUS
  <2>1. row[c] \in Row
    BY DEF TypeOK
  <2>2. CASE ~(Expired(row[c]) /\ row[c].state \in Active)
    BY <2>1, <2>2 DEF Repairs, SameRow
  <2>3. CASE Expired(row[c]) /\ row[c].state \in Active /\ Outcome(c) # None
    <3>1. PICK v \in Settled : v = Outcome(c) /\ log[c] = {v}
      BY <2>3, OutcomeIsLogged
    <3>2. rows[c] = Released(row[c], v, "none")
      BY <2>3, <3>1 DEF Recovered
    <3>3. SameRow(row[c], rows[c]) /\ rows[c].state = v /\ rows[c].error = "none"
      <4>1. v \in State /\ "none" \in Reason
        BY StatesDiffer, ReasonsDiffer
      <4> HIDE DEF rows
      <4> QED  BY <2>1, <3>2, <4>1, ReleasedRow
    <3> QED  BY <2>3, <3>1, <3>3 DEF Repairs, SameRow
  <2>4. CASE Expired(row[c]) /\ row[c].state = "waiting_slot" /\ Outcome(c) = None
    <3>1. rows[c] = Released(row[c], "accepted", "none")
      BY <2>4 DEF Recovered, Active
    <3> QED  BY <2>1, <2>4, <3>1, ReleasedRow, StatesDiffer, ReasonsDiffer DEF Repairs
  <2>5. CASE /\ Expired(row[c]) /\ row[c].state \in Active
             /\ row[c].state # "waiting_slot" /\ Outcome(c) = None
    <3>1. rows[c] = Released(row[c], "interrupted", "expired")
      BY <2>5 DEF Recovered
    <3> QED  BY <2>1, <2>5, <3>1, ReleasedRow, StatesDiffer, ReasonsDiffer DEF Repairs
  <2> QED  BY <2>2, <2>3, <2>4, <2>5
<1>2. rows \in [Command -> Row] /\ RecoverExpired(row) = FailBlocked(rows)
  BY <1>1 DEF RecoverExpired
<1> HIDE DEF rows
<1> QED  BY <1>1, <1>2, BlockedRepairs, FailBlockedRows

LEMMA ReconcileRepairs ==
  ASSUME TypeOK
  PROVE  /\ ReconcileInterrupted(row) \in [Command -> Row]
         /\ \A c \in Command : Repairs(c, ReconcileInterrupted(row)[c])
<1> DEFINE rows == [c \in Command |->
             IF row[c].state = "interrupted" /\ Outcome(c) # None
             THEN Released(row[c], Outcome(c), "none") ELSE row[c]]
<1>1. \A c \in Command : rows[c] \in Row /\ Repairs(c, rows[c])
  <2> SUFFICES ASSUME NEW c \in Command
               PROVE  rows[c] \in Row /\ Repairs(c, rows[c])
    OBVIOUS
  <2>1. row[c] \in Row
    BY DEF TypeOK
  <2>2. CASE row[c].state = "interrupted" /\ Outcome(c) # None
    <3>1. PICK v \in Settled : v = Outcome(c) /\ log[c] = {v}
      BY <2>2, OutcomeIsLogged
    <3>2. rows[c] = Released(row[c], v, "none")
      BY <2>2, <3>1
    <3>3. SameRow(row[c], rows[c]) /\ rows[c].state = v /\ rows[c].error = "none"
      <4>1. v \in State /\ "none" \in Reason
        BY StatesDiffer, ReasonsDiffer
      <4> HIDE DEF rows
      <4> QED  BY <2>1, <3>2, <4>1, ReleasedRow
    <3> QED  BY <2>2, <3>1, <3>3 DEF Repairs, SameRow
  <2>3. CASE ~(row[c].state = "interrupted" /\ Outcome(c) # None)
    BY <2>1, <2>3 DEF Repairs, SameRow
  <2> QED  BY <2>2, <2>3
<1>2. rows \in [Command -> Row] /\ ReconcileInterrupted(row) = FailBlocked(rows)
  BY <1>1 DEF ReconcileInterrupted
<1> HIDE DEF rows
<1> QED  BY <1>1, <1>2, BlockedRepairs, FailBlockedRows

-----------------------------------------------------------------------------
(* What a step makes of a row *)

\* The runtime has not seen the command and no dispatch is handing it over.
Untouched(c) ==
  runtime[c] = "none" /\ \A k \in DOMAIN dispatch[c] : dispatch[c][k] # "emitting"

InHand == {"emitting", "refused"}

\* A command is handed to the router at most once, by the dispatch of its
\* latest claim, and not before that dispatch has its transition.
Handover(c) ==
  /\ Len(dispatch[c]) = row[c].token
  /\ row[c].state \in Unstarted \cup {"none"} => emits[c] = 0
  /\ \A k \in DOMAIN dispatch[c] :
       k = row[c].token /\ dispatch[c][k] = "claimed" => emits[c] = 0
  /\ emits[c] <= 1

\* One that was not handed over is untouched; one in hand is in one hand only;
\* and the runtime has answered nothing that it has not seen.
Touch(c) ==
  /\ emits[c] = 0 =>
       runtime[c] = "none" /\ \A k \in DOMAIN dispatch[c] : dispatch[c][k] \notin InHand
  /\ \A k, j \in DOMAIN dispatch[c] :
       dispatch[c][k] \in InHand /\ dispatch[c][j] \in InHand => k = j
  /\ \A k \in DOMAIN dispatch[c] : dispatch[c][k] \in InHand => runtime[c] = "none"
  /\ runtime[c] = "none" => log[c] = {} /\ outbox[c] = {}

HandoverInv == TypeInv /\ \A c \in Command : Handover(c) /\ Touch(c)

\* A row that settles has its answer from an operator or the event log, or
\* fails before the runtime has seen it.
Earned(c) ==
  \/ row'[c].error = "operator"
  \/ row'[c].error \notin NotRun /\ row'[c].state \in log'[c]
  \/ Untouched(c)'

RowAdvances(c) ==
  /\ SameRow(row[c], row'[c])
  /\ \/ row'[c].state = row[c].state /\ row'[c].error = row[c].error
     \/ row[c].state = "waiting_slot" /\ row'[c].state = "accepted"
     \/ /\ row[c].state \in Active
        /\ row'[c].state \in (Active \ Unstarted) \cup {"interrupted"}
     \/ /\ row[c].state \in Active \cup {"interrupted"}
        /\ row'[c].state \in Settled /\ Earned(c)

RowAdmitted(c) ==
  /\ row[c].state = "none" /\ row'[c] \in Row
  /\ row'[c].state = "accepted" /\ row'[c].session \in Session
  /\ row'[c].owner = None /\ row'[c].token = row[c].token
  /\ \A p \in Command : p < c => row[p].state # "none"

RowClaimed(c) ==
  /\ row[c].state \in Unstarted /\ row'[c] \in Row
  /\ row'[c].session = row[c].session /\ row'[c].delivery = row[c].delivery
  /\ row'[c].token = row[c].token + 1
  /\ \E phase \in {"claimed", "over"} : dispatch'[c] = Append(dispatch[c], phase)
  /\ UNCHANGED <<emits, runtime, log, outbox>>
  /\ \/ row'[c].state = "waiting_slot"
     \/ /\ row'[c].state = "failed" /\ row'[c].error = "payload"
        /\ row'[c].owner = None /\ Untouched(c)'
  /\ \A p \in Earlier(row, c) :
       /\ row[c].delivery = "queue" \/ row[p].delivery = "steer"
       => row'[p].state \in Settled \cup {"none"}

LEMMA TransitionRow ==
  ASSUME TypeOK, NEW c \in Command, NEW k, NEW state \in State, NEW error \in Reason
  PROVE  /\ ~Held(c, k) => Transition(c, k, state, error) = row[c]
         /\ Held(c, k) =>
              /\ SameRow(row[c], Transition(c, k, state, error))
              /\ Transition(c, k, state, error).state = state
              /\ Transition(c, k, state, error).error = error
              /\ row[c].state \in Active /\ row[c].token = k /\ row[c].owner # None
<1>1. row[c] \in Row
  BY DEF TypeOK
<1>2. CASE ~Held(c, k)
  BY <1>2 DEF Transition
<1>3. CASE Held(c, k) /\ state \in Settled \cup {"interrupted"}
  <2>1. Transition(c, k, state, error) = Released(row[c], state, error)
    BY <1>3 DEF Transition
  <2> QED  BY <1>1, <1>3, <2>1, ReleasedRow, CommandAssumption DEF Held, TypeOK
<1>4. CASE Held(c, k) /\ state \notin Settled \cup {"interrupted"}
  <2>1. Transition(c, k, state, error) = [row[c] EXCEPT !.state = state, !.error = error]
    BY <1>4 DEF Transition
  <2> QED  BY <1>1, <1>4, <2>1, CommandAssumption DEF Held, TypeOK, SameRow, Row
<1> QED  BY <1>2, <1>3, <1>4

LEMMA RecordedRow ==
  ASSUME NEW r \in Row, NEW t \in Output
  PROVE  /\ SameRow(r, Recorded(r, t))
         /\ \/ Recorded(r, t) = r
            \/ /\ r.state \in Active
               /\ Recorded(r, t).state \in Active \ Unstarted
            \/ /\ Terminal(t) /\ r.state \in Active \cup {"interrupted"}
               /\ Recorded(r, t).state = StateOf(t) /\ StateOf(t) \in Settled
               /\ Recorded(r, t).error = "none"
<1>1. StateOf(t) \in {"session_queue", "running"} \cup Settled
  BY DEF StateOf, Settled
<1>2. StateOf(t) \in State /\ "none" \in Reason
  BY <1>1, StatesDiffer, ReasonsDiffer
<1>3. CASE r.state \notin Eligible(StateOf(t))
  BY <1>3 DEF Recorded, SameRow
<1>4. CASE r.state \in Eligible(StateOf(t)) /\ Terminal(t)
  <2>1. Recorded(r, t) = Released(r, StateOf(t), "none")
    BY <1>4 DEF Recorded
  <2>2. r.state \in Active \cup {"interrupted"} /\ StateOf(t) \in Settled
    BY <1>4 DEF Terminal, Eligible, Settled
  <2> QED  BY <1>2, <1>4, <2>1, <2>2, ReleasedRow
<1>5. CASE r.state \in Eligible(StateOf(t)) /\ ~Terminal(t)
  <2>1. Recorded(r, t) = [r EXCEPT !.state = StateOf(t), !.error = "none"]
    BY <1>5 DEF Recorded
  <2>2. StateOf(t) \in {"session_queue", "running"} /\ r.state \in Active
    BY <1>1, <1>5 DEF Terminal, Eligible, Active
  <2> QED  BY <1>2, <2>1, <2>2 DEF SameRow, Row, Active, Unstarted
<1> QED  BY <1>3, <1>4, <1>5

LEMMA UnstartedUntouched ==
  ASSUME HandoverInv, NEW c \in Command, row[c].state \in Unstarted \cup {"none"}
  PROVE  Untouched(c)
BY DEF HandoverInv, Handover, Touch, Untouched, InHand

LEMMA RepairAdvances ==
  ASSUME HandoverInv, NEW c \in Command, Repairs(c, row'[c]), log' = log,
         row[c].state \in Unstarted => Untouched(c)'
  PROVE  RowAdvances(c)
<1>1. CASE row'[c].state \in Settled /\ log[c] = {row'[c].state} /\ row'[c].error = "none"
  <2>1. Earned(c)
    BY <1>1, ReasonsDiffer DEF Earned
  <2> QED  BY <1>1, <2>1, StatesDiffer DEF Repairs, RowAdvances
<1>2. CASE row[c].state \in Unstarted /\ row'[c].state = "failed"
  BY <1>2, StatesDiffer DEF Repairs, RowAdvances, Earned, Settled
<1> QED  BY <1>1, <1>2, StatesDiffer DEF Repairs, RowAdvances

LEMMA KeptAdvances ==
  ASSUME TypeOK, NEW c \in Command, row'[c] = row[c]
  PROVE  RowAdvances(c)
BY DEF TypeOK, RowAdvances, SameRow

\* The transitions of a dispatch: those that settle have to be earned.
LEMMA TransitionAdvances ==
  ASSUME TypeOK, NEW c \in Command, NEW k, NEW state \in State, NEW error \in Reason,
         row' = [row EXCEPT ![c] = Transition(c, k, state, error)],
         \/ state \in (Active \ Unstarted) \cup {"interrupted"}
         \/ state \in Settled /\ (Held(c, k) => Untouched(c)')
  PROVE  row' \in [Command -> Row] /\ \A d \in Command : RowAdvances(d)
<1>1. Transition(c, k, state, error) \in Row
  <2>1. CASE Held(c, k)
    BY <2>1, TransitionRow DEF SameRow
  <2>2. CASE ~Held(c, k)
    <3>1. Transition(c, k, state, error) = row[c]
      BY <2>2, TransitionRow
    <3> QED  BY <3>1 DEF TypeOK
  <2> QED  BY <2>1, <2>2
<1>2. row' \in [Command -> Row]
  BY <1>1 DEF TypeOK
<1>3. ASSUME NEW d \in Command, d # c
      PROVE  RowAdvances(d)
  BY <1>3, KeptAdvances DEF TypeOK
<1>4. row'[c] = Transition(c, k, state, error)
  BY DEF TypeOK
<1>5. RowAdvances(c)
  <2>1. CASE ~Held(c, k)
    <3>1. row'[c] = row[c]
      BY <1>4, <2>1, TransitionRow
    <3> QED  BY <3>1, KeptAdvances
  <2>2. CASE Held(c, k)
    <3>1. /\ SameRow(row[c], row'[c]) /\ row[c].state \in Active
          /\ row'[c].state = state /\ row'[c].error = error
      BY <1>4, <2>2, TransitionRow
    <3> QED  BY <2>2, <3>1 DEF RowAdvances, Earned
  <2> QED  BY <2>1, <2>2
<1> QED  BY <1>2, <1>3, <1>5

LEMMA ClaimedRowTyped ==
  ASSUME NEW r \in Row, epoch \in Nat
  PROVE  /\ ClaimedRow(r) \in Row /\ ClaimedRow(r).state = "waiting_slot"
         /\ ClaimedRow(r).token = r.token + 1
         /\ ClaimedRow(r).session = r.session /\ ClaimedRow(r).delivery = r.delivery
<1>1. PICK n \in Nat : n = r.token + 1
  BY DEF Row
<1>2. ClaimedRow(r) =
        [r EXCEPT !.state = "waiting_slot", !.owner = epoch, !.token = n, !.lease = "live"]
  BY <1>1 DEF ClaimedRow
<1>3. "waiting_slot" \in State
  BY StatesDiffer
<1> QED  BY <1>1, <1>2, <1>3 DEF Row

LEMMA ClaimedRows ==
  ASSUME HandoverInv, Claim, NEW c \in Command,
         NextCandidate(RecoverExpired(row), c), Claimed(RecoverExpired(row), c)
  PROVE  /\ row' \in [Command -> Row] /\ RowClaimed(c)
         /\ \A d \in Command \ {c} : RowAdvances(d)
<1> DEFINE rows == RecoverExpired(row)
<1>1. TypeOK /\ UNCHANGED <<emits, runtime, log, outbox>>
  BY DEF HandoverInv, TypeInv, Claim, turns
<1>2. rows \in [Command -> Row] /\ \A d \in Command : Repairs(d, rows[d])
  BY <1>1, RecoverRepairs
<1>3. /\ rows[c].state = "accepted"
      /\ ~\E p \in Earlier(rows, c) : Blocks(rows, p, c)
  BY DEF NextCandidate, Candidates
<1>4. PICK phase \in {"claimed", "over"} : dispatch' = [dispatch EXCEPT ![c] = Append(@, phase)]
  BY DEF Claimed
<1>5. PICK q : /\ row' = [rows EXCEPT ![c] = q]
               /\ q \in {ClaimedRow(rows[c]), Released(ClaimedRow(rows[c]), "failed", "payload")}
  BY <1>2 DEF Claimed
<1>6. /\ row[c].state \in Unstarted /\ rows[c].session = row[c].session
      /\ rows[c].delivery = row[c].delivery /\ rows[c].token = row[c].token
  BY <1>2, <1>3, StatesDiffer DEF Repairs, SameRow, Settled, Unstarted
<1>7. /\ ClaimedRow(rows[c]) \in Row /\ ClaimedRow(rows[c]).state = "waiting_slot"
      /\ ClaimedRow(rows[c]).token = row[c].token + 1
      /\ ClaimedRow(rows[c]).session = row[c].session
      /\ ClaimedRow(rows[c]).delivery = row[c].delivery
  <2>1. rows[c] \in Row /\ epoch \in Nat /\ "waiting_slot" \in State
    BY <1>1, <1>2, StatesDiffer DEF TypeOK
  <2> QED  BY <1>6, <2>1, ClaimedRowTyped
<1>8. /\ q \in Row /\ q.token = row[c].token + 1
      /\ q.session = row[c].session /\ q.delivery = row[c].delivery
      /\ \/ q.state = "waiting_slot"
         \/ q.state = "failed" /\ q.error = "payload" /\ q.owner = None
  <2>1. "failed" \in State /\ "payload" \in Reason
    BY StatesDiffer, ReasonsDiffer
  <2> HIDE DEF rows
  <2> QED  BY <1>5, <1>7, <2>1, ReleasedRow DEF SameRow
<1>9. Untouched(c)'
  <2>1. Untouched(c)
    BY <1>6, UnstartedUntouched
  <2> QED  BY <1>1, <1>4, <2>1 DEF Untouched, TypeOK
<1>10. row' \in [Command -> Row] /\ row'[c] = q /\ \A d \in Command \ {c} : row'[d] = rows[d]
  BY <1>2, <1>5, <1>8
<1>11. ASSUME NEW p \in Earlier(row, c), row[c].delivery = "queue" \/ row[p].delivery = "steer"
      PROVE  row'[p].state \in Settled \cup {"none"}
  <2>1. p \in Command \ {c} /\ p \in Earlier(rows, c)
    BY <1>2, CommandAssumption DEF Earlier, Repairs, SameRow
  <2>2. rows[p].delivery = row[p].delivery /\ rows[p] \in Row
    BY <1>2, <2>1 DEF Repairs, SameRow
  <2>3. rows[p].state \notin Active \cup {"interrupted"}
    BY <1>3, <1>6, <1>11, <2>1, <2>2 DEF Blocks
  <2> QED  BY <1>10, <2>1, <2>2, <2>3 DEF Row, State
<1>12. RowClaimed(c)
  <2>1. dispatch'[c] = Append(dispatch[c], phase)
    BY <1>1, <1>4 DEF TypeOK
  <2> QED  BY <1>1, <1>6, <1>8, <1>9, <1>10, <1>11, <2>1 DEF RowClaimed
<1>13. ASSUME NEW d \in Command, d # c
       PROVE  RowAdvances(d)
  <2>1. Repairs(d, row'[d])
    BY <1>2, <1>10, <1>13
  <2>2. row[d].state \in Unstarted => Untouched(d)'
    BY <1>1, <1>4, <1>13, UnstartedUntouched DEF Untouched, TypeOK
  <2> QED  BY <1>1, <2>1, <2>2, RepairAdvances
<1> QED  BY <1>10, <1>12, <1>13

LEMMA ClaimRows ==
  ASSUME HandoverInv, Claim
  PROVE  /\ row' \in [Command -> Row]
         /\ \A d \in Command : RowAdvances(d) \/ RowClaimed(d)
<1> DEFINE rows == RecoverExpired(row)
<1>1. TypeOK /\ UNCHANGED <<emits, runtime, log, outbox>>
  BY DEF HandoverInv, TypeInv, Claim, turns
<1>2. CASE row' = rows /\ dispatch' = dispatch
  <2>1. rows \in [Command -> Row] /\ \A d \in Command : Repairs(d, rows[d])
    BY <1>1, RecoverRepairs
  <2>2. \A d \in Command : row[d].state \in Unstarted => Untouched(d)'
    BY <1>1, <1>2, UnstartedUntouched DEF Untouched
  <2> HIDE DEF rows
  <2> QED  BY <1>1, <1>2, <2>1, <2>2, RepairAdvances
<1> QED  BY <1>2, ClaimedRows DEF Claim

AdmitRow(c, s, d) ==
  [NoCommand EXCEPT !.state = "accepted", !.session = s, !.delivery = d]

LEMMA AdmitRows ==
  ASSUME HandoverInv, NEW c \in Command, NEW s \in Session, NEW d \in Delivery, Admit(c, s, d)
  PROVE  /\ row' \in [Command -> Row] /\ RowAdmitted(c)
         /\ \A e \in Command \ {c} : RowAdvances(e)
<1>1. /\ TypeOK /\ row[c].state = "none" /\ row[c].token = NoCommand.token
      /\ row' = [row EXCEPT ![c] = AdmitRow(c, s, d)]
  BY DEF HandoverInv, TypeInv, Admitted, Admit, AdmitRow, NoCommand
<1>2. /\ AdmitRow(c, s, d) \in Row /\ AdmitRow(c, s, d).state = "accepted"
      /\ AdmitRow(c, s, d).session = s /\ AdmitRow(c, s, d).owner = None
      /\ AdmitRow(c, s, d).token = NoCommand.token
  BY StatesDiffer, ReasonsDiffer DEF AdmitRow, NoCommand, Row
<1>3. row' \in [Command -> Row]
  BY <1>1, <1>2 DEF TypeOK
<1>4. RowAdmitted(c)
  BY <1>1, <1>2, <1>3 DEF RowAdmitted, Admit, TypeOK
<1>5. \A e \in Command \ {c} : RowAdvances(e)
  BY <1>1, KeptAdvances DEF TypeOK
<1> QED  BY <1>3, <1>4, <1>5

LEMMA SessionGoneRows ==
  ASSUME HandoverInv, NEW c \in Command, NEW k \in DOMAIN dispatch[c],
         SessionGone(c, k) \/ TransitionFails(c, k),
         row' = [row EXCEPT ![c] = Transition(c, k, "failed", "session_gone")]
  PROVE  row' \in [Command -> Row] /\ \A d \in Command : RowAdvances(d)
<1>1. TypeOK
  BY DEF HandoverInv, TypeInv
<1>2. ASSUME Held(c, k)
      PROVE  Untouched(c)'
  <2>1. emits[c] = 0
    BY <1>2 DEF SessionGone, TransitionFails, HandoverInv, Handover, Held
  <2>2. Untouched(c)
    BY <2>1 DEF HandoverInv, Touch, Untouched, InHand
  <2>3. \E phase \in {"over", "unclear"} : dispatch' = [dispatch EXCEPT ![c][k] = phase]
    BY DEF SessionGone, TransitionFails, Forget
  <2>4. \A j \in DOMAIN dispatch'[c] : dispatch'[c][j] = "emitting" =>
          j \in DOMAIN dispatch[c] /\ dispatch[c][j] = "emitting"
    BY <1>1, <2>3 DEF TypeOK
  <2>5. runtime' = runtime
    BY DEF SessionGone, TransitionFails, turns
  <2> QED  BY <2>2, <2>4, <2>5 DEF Untouched
<1>3. "failed" \in State /\ "failed" \in Settled /\ "session_gone" \in Reason
  BY StatesDiffer, ReasonsDiffer DEF Settled
<1> QED  BY <1>1, <1>2, <1>3, TransitionAdvances

LEMMA AbandonRows ==
  ASSUME HandoverInv, NEW c \in Command, NEW k \in DOMAIN dispatch[c], Abandon(c, k)
  PROVE  row' \in [Command -> Row] /\ \A d \in Command : RowAdvances(d)
<1>1. TypeOK
  BY DEF HandoverInv, TypeInv
<1>2. CASE row' = row
  BY <1>1, <1>2, KeptAdvances DEF TypeOK
<1>3. CASE /\ dispatch[c][k] = "refused"
           /\ row' = [row EXCEPT ![c] = Transition(c, k, "failed", "refused")]
  <2>1. Untouched(c)'
    <3>1. /\ runtime[c] = "none"
          /\ \A j \in DOMAIN dispatch[c] : dispatch[c][j] \in InHand => j = k
      BY <1>3 DEF HandoverInv, Touch, InHand
    <3>2. /\ runtime' = runtime
          /\ dispatch' = [dispatch EXCEPT ![c][k] = "over"]
      BY DEF Abandon, Forget, turns
    <3> QED  BY <1>1, <3>1, <3>2 DEF Untouched, InHand, TypeOK
  <2>2. "failed" \in State /\ "failed" \in Settled /\ "refused" \in Reason
    BY StatesDiffer, ReasonsDiffer DEF Settled
  <2> QED  BY <1>1, <1>3, <2>1, <2>2, TransitionAdvances
<1>4. CASE row' = [row EXCEPT ![c] = Transition(c, k, "interrupted", "unclear")]
  <2>1. "interrupted" \in State /\ "unclear" \in Reason
    BY StatesDiffer, ReasonsDiffer
  <2> QED  BY <1>1, <1>4, <2>1, TransitionAdvances
<1>5. \/ row' = row
      \/ /\ dispatch[c][k] = "refused"
         /\ row' = [row EXCEPT ![c] = Transition(c, k, "failed", "refused")]
      \/ row' = [row EXCEPT ![c] = Transition(c, k, "interrupted", "unclear")]
  BY DEF Abandon
<1> QED  BY <1>2, <1>3, <1>4, <1>5

LEMMA InitializeRows ==
  ASSUME HandoverInv, NEW c \in Command, NEW k,
         \/ row' = [row EXCEPT ![c] = Transition(c, k, "initializing", "none")]
         \/ row' = row
  PROVE  row' \in [Command -> Row] /\ \A d \in Command : RowAdvances(d)
<1>1. TypeOK
  BY DEF HandoverInv, TypeInv
<1>2. CASE row' = row
  BY <1>1, <1>2, KeptAdvances DEF TypeOK
<1>3. CASE row' = [row EXCEPT ![c] = Transition(c, k, "initializing", "none")]
  <2>1. /\ "initializing" \in State /\ "none" \in Reason
        /\ "initializing" \in (Active \ Unstarted) \cup {"interrupted"}
    BY StatesDiffer, ReasonsDiffer DEF Active, Unstarted
  <2> QED  BY <1>1, <1>3, <2>1, TransitionAdvances
<1> QED  BY <1>2, <1>3

LEMMA ExpireRows ==
  ASSUME HandoverInv, NEW c \in Command, Expire(c)
  PROVE  row' \in [Command -> Row] /\ \A d \in Command : RowAdvances(d)
<1>1. TypeOK /\ row' = [row EXCEPT ![c].lease = "expired"]
  BY DEF HandoverInv, TypeInv, Expire
<1>2. row[c] \in Row
  BY <1>1 DEF TypeOK
<1>3. /\ row' \in [Command -> Row]
      /\ row'[c] = [row[c] EXCEPT !.lease = "expired"]
  BY <1>1, <1>2 DEF TypeOK, Row
<1>4. RowAdvances(c)
  BY <1>2, <1>3 DEF RowAdvances, SameRow, Row
<1>5. \A d \in Command \ {c} : RowAdvances(d)
  BY <1>1, KeptAdvances DEF TypeOK
<1> QED  BY <1>3, <1>4, <1>5

LEMMA IngestRows ==
  ASSUME HandoverInv, NEW c \in Command, NEW t \in Output, Ingest(c, t)
  PROVE  row' \in [Command -> Row] /\ \A d \in Command : RowAdvances(d)
<1>1. TypeOK /\ row[c] \in Row
  BY DEF HandoverInv, TypeInv, TypeOK
<1>2. CASE row' = row
  BY <1>1, <1>2, KeptAdvances DEF TypeOK
<1>3. CASE row' = [row EXCEPT ![c] = Recorded(@, t)]
  <2>1. row'[c] = Recorded(row[c], t) /\ \A d \in Command \ {c} : row'[d] = row[d]
    BY <1>1, <1>3 DEF TypeOK
  <2>2. SameRow(row[c], row'[c])
    BY <1>1, <2>1, RecordedRow
  <2>3. row' \in [Command -> Row]
    BY <1>1, <1>3, <2>1, <2>2 DEF TypeOK, SameRow
  <2>4. Terminal(t) => StateOf(t) \in log'[c]
    BY <1>1 DEF Ingest, TypeOK
  <2>5. RowAdvances(c)
    <3>1. CASE row'[c] = row[c]
      BY <1>1, <3>1, KeptAdvances
    <3>2. CASE row[c].state \in Active /\ row'[c].state \in Active \ Unstarted
      BY <2>2, <3>2 DEF RowAdvances
    <3>3. CASE /\ Terminal(t) /\ row[c].state \in Active \cup {"interrupted"}
               /\ row'[c].state = StateOf(t) /\ StateOf(t) \in Settled
               /\ row'[c].error = "none"
      <4>1. Earned(c)
        BY <2>4, <3>3, ReasonsDiffer DEF Earned
      <4> QED  BY <2>2, <3>3, <4>1 DEF RowAdvances
    <3> QED  BY <1>1, <2>1, <3>1, <3>2, <3>3, RecordedRow
  <2> QED  BY <1>1, <2>1, <2>3, <2>5, KeptAdvances
<1> QED  BY <1>2, <1>3 DEF Ingest

\* A step that leaves the runtime and the dispatches alone and fails unstarted
\* rows or decides interrupted ones.
LEMMA FailedRows ==
  ASSUME HandoverInv, runtime' = runtime, dispatch' = dispatch,
         NEW Failing \in SUBSET Command, NEW Decided \in SUBSET Command, NEW decision \in Settled,
         \A d \in Failing : row[d].state \in Unstarted,
         \A d \in Decided : row[d].state = "interrupted",
         row' = [d \in Command |->
                   IF d \in Decided THEN Released(row[d], decision, "operator")
                   ELSE IF d \in Failing THEN Released(row[d], "failed", "cancelled")
                   ELSE row[d]]
  PROVE  row' \in [Command -> Row] /\ \A d \in Command : RowAdvances(d)
<1>1. ASSUME NEW d \in Command
      PROVE  row'[d] \in Row /\ RowAdvances(d)
  <2>1. TypeOK /\ row[d] \in Row
    BY DEF HandoverInv, TypeInv, TypeOK
  <2>2. CASE d \in Decided
    <3>1. row'[d] = Released(row[d], decision, "operator")
      BY <2>2
    <3>2. decision \in State /\ "operator" \in Reason
      BY StatesDiffer, ReasonsDiffer
    <3>3. /\ SameRow(row[d], row'[d]) /\ row'[d].state = decision
          /\ row'[d].error = "operator"
      BY <2>1, <3>1, <3>2, ReleasedRow
    <3> QED  BY <2>2, <3>3 DEF RowAdvances, Earned, SameRow
  <2>3. CASE d \notin Decided /\ d \in Failing
    <3>1. row'[d] = Released(row[d], "failed", "cancelled")
      BY <2>3
    <3>2. "failed" \in State /\ "failed" \in Settled /\ "cancelled" \in Reason
      BY StatesDiffer, ReasonsDiffer DEF Settled
    <3>3. SameRow(row[d], row'[d]) /\ row'[d].state = "failed"
      BY <2>1, <3>1, <3>2, ReleasedRow
    <3>4. Untouched(d)' /\ row[d].state \in Active
      BY <2>3, UnstartedUntouched, StatesDiffer DEF Untouched
    <3> QED  BY <3>2, <3>3, <3>4 DEF RowAdvances, Earned, SameRow
  <2>4. CASE d \notin Decided /\ d \notin Failing
    BY <2>1, <2>4, KeptAdvances
  <2> QED  BY <2>2, <2>3, <2>4
<1> QED  BY <1>1

LEMMA CancelPendingRows ==
  ASSUME HandoverInv, NEW s \in Session, CancelPending(s)
  PROVE  row' \in [Command -> Row] /\ \A d \in Command : RowAdvances(d)
<1> DEFINE Failing == {d \in Command : row[d].session = s /\ row[d].state \in Cancellable}
           Decided == {d \in Command : FALSE}
<1>1. /\ row' = [d \in Command |->
                   IF d \in Decided THEN Released(row[d], "failed", "operator")
                   ELSE IF d \in Failing THEN Released(row[d], "failed", "cancelled")
                   ELSE row[d]]
      /\ runtime' = runtime /\ dispatch' = dispatch
  BY DEF CancelPending, local, turns
<1>2. /\ \A d \in Failing : row[d].state \in Unstarted
      /\ \A d \in Decided : row[d].state = "interrupted"
      /\ Failing \in SUBSET Command /\ Decided \in SUBSET Command /\ "failed" \in Settled
  BY DEF Cancellable, Settled
<1> HIDE DEF Failing, Decided
<1> QED  BY <1>1, <1>2, FailedRows

LEMMA ReconcileRows ==
  ASSUME HandoverInv, NEW c \in Command, NEW decision \in Settled,
         NEW successors \in SUBSET Command, Reconcile(c, decision, successors)
  PROVE  row' \in [Command -> Row] /\ \A d \in Command : RowAdvances(d)
<1> DEFINE Decided == {c}
<1>1. /\ row' = [d \in Command |->
                   IF d \in Decided THEN Released(row[d], decision, "operator")
                   ELSE IF d \in successors THEN Released(row[d], "failed", "cancelled")
                   ELSE row[d]]
      /\ runtime' = runtime /\ dispatch' = dispatch
  BY DEF Reconcile, local, turns
<1>2. /\ \A d \in successors : row[d].state \in Unstarted
      /\ \A d \in Decided : row[d].state = "interrupted"
      /\ Decided \in SUBSET Command
  BY DEF Reconcile
<1> HIDE DEF Decided
<1> QED  BY <1>1, <1>2, FailedRows

LEMMA RestartRows ==
  ASSUME HandoverInv, ProcessStarts \/ WorkerRestarts
  PROVE  row' \in [Command -> Row] /\ \A d \in Command : RowAdvances(d)
<1>1. /\ TypeOK /\ row' = ReconcileInterrupted(row)
      /\ log' = log /\ runtime' = runtime /\ dispatch' = dispatch
  BY DEF HandoverInv, TypeInv, ProcessStarts, WorkerRestarts, local, turns
<1>2. row' \in [Command -> Row] /\ \A d \in Command : Repairs(d, row'[d])
  BY <1>1, ReconcileRepairs
<1>3. \A d \in Command : row[d].state \in Unstarted => Untouched(d)'
  BY <1>1, UnstartedUntouched DEF Untouched
<1> QED  BY <1>1, <1>2, <1>3, RepairAdvances

\* Every row is kept, advances, is admitted or is claimed.
LEMMA StepRows ==
  ASSUME HandoverInv, [Next]_vars
  PROVE  /\ row' \in [Command -> Row]
         /\ \A d \in Command : RowAdvances(d) \/ RowAdmitted(d) \/ RowClaimed(d)
<1>1. ASSUME row' = row
      PROVE  row' \in [Command -> Row] /\ \A d \in Command : RowAdvances(d)
  BY <1>1, KeptAdvances DEF HandoverInv, TypeInv, TypeOK
<1>2. ASSUME NEW c \in Command, NEW k \in DOMAIN dispatch[c],
             \/ SessionGone(c, k) \/ Initialize(c, k) \/ TransitionFails(c, k) \/ Abandon(c, k)
      PROVE  row' \in [Command -> Row] /\ \A d \in Command : RowAdvances(d)
  BY <1>2, SessionGoneRows, AbandonRows, InitializeRows
     DEF SessionGone, Initialize, TransitionFails
<1>3. ASSUME NEW c \in Command, NEW k,
             \/ Accepted(c, k) \/ ThrowsLate(c, k)
             \/ Throws(c, k, "refused") \/ Throws(c, k, "unclear")
             \/ HeartbeatRefused(c) \/ TurnStep(c) \/ TurnDropped(c) \/ ProcessEnds
      PROVE  row' = row
  BY <1>3 DEF Accepted, ThrowsLate, Throws, HeartbeatRefused, TurnStep, TurnStarts, TurnFinishes,
              TurnFails, Emits, TurnDropped, ProcessEnds, store
<1>4. ASSUME NEW c \in Command, NEW s \in Session, NEW d \in Delivery, Admit(c, s, d)
      PROVE  /\ row' \in [Command -> Row]
             /\ \A e \in Command : RowAdvances(e) \/ RowAdmitted(e)
  BY <1>4, AdmitRows
<1>5. CASE vars' = vars
  BY <1>1, <1>5 DEF vars, store
<1>6. CASE ProcessEnds
  BY <1>1, <1>6 DEF ProcessEnds
<1>7. ASSUME NEW c \in Command, DispatchStep(c)
      PROVE  row' \in [Command -> Row] /\ \A d \in Command : RowAdvances(d)
  <2>1. PICK k \in DOMAIN dispatch[c] :
          \/ SessionGone(c, k) \/ Initialize(c, k) \/ TransitionFails(c, k)
          \/ Accepted(c, k) \/ ThrowsLate(c, k)
          \/ Throws(c, k, "refused") \/ Throws(c, k, "unclear") \/ Abandon(c, k)
    BY <1>7 DEF DispatchStep
  <2>2. CASE \/ SessionGone(c, k) \/ Initialize(c, k) \/ TransitionFails(c, k)
             \/ Abandon(c, k)
    BY <1>2, <2>2
  <2>3. CASE \/ Accepted(c, k) \/ ThrowsLate(c, k)
             \/ Throws(c, k, "refused") \/ Throws(c, k, "unclear")
    BY <1>1, <1>3, <2>3
  <2> QED  BY <2>1, <2>2, <2>3
<1>8. ASSUME NEW c \in Command, IngestStep(c)
      PROVE  row' \in [Command -> Row] /\ \A d \in Command : RowAdvances(d)
  BY <1>8, IngestRows DEF IngestStep
<1> QED
  BY <1>1, <1>3, <1>4, <1>5, <1>6, <1>7, <1>8, ClaimRows, ExpireRows, CancelPendingRows,
     ReconcileRows, RestartRows DEF Next

-----------------------------------------------------------------------------
(* Types are kept *)

LEMMA DispatchMoves ==
  ASSUME TypeOK, NEW c \in Command, NEW k \in DOMAIN dispatch[c], NEW phase \in Phase,
         dispatch' = [dispatch EXCEPT ![c][k] = phase]
  PROVE  /\ dispatch' \in [Command -> Seq(Phase)]
         /\ \A d \in Command : Len(dispatch'[d]) = Len(dispatch[d])
         /\ \A d \in Command : DOMAIN dispatch'[d] = DOMAIN dispatch[d]
         /\ \A d \in Command \ {c} : dispatch'[d] = dispatch[d]
         /\ dispatch'[c][k] = phase
         /\ \A j \in DOMAIN dispatch[c] \ {k} : dispatch'[c][j] = dispatch[c][j]
<1>1. dispatch[c] \in Seq(Phase)
  BY DEF TypeOK
<1>2. dispatch'[c] = [dispatch[c] EXCEPT ![k] = phase] /\ dispatch'[c] \in Seq(Phase)
  BY <1>1 DEF TypeOK
<1>3. Len(dispatch'[c]) = Len(dispatch[c]) /\ DOMAIN dispatch'[c] = DOMAIN dispatch[c]
  BY <1>1, <1>2
<1> QED  BY <1>1, <1>2, <1>3 DEF TypeOK

LEMMA DispatchAppends ==
  ASSUME TypeOK, NEW c \in Command, NEW phase \in Phase,
         dispatch' = [dispatch EXCEPT ![c] = Append(@, phase)]
  PROVE  /\ dispatch' \in [Command -> Seq(Phase)]
         /\ \A d \in Command \ {c} : dispatch'[d] = dispatch[d]
         /\ Len(dispatch'[c]) = Len(dispatch[c]) + 1
         /\ dispatch'[c][Len(dispatch[c]) + 1] = phase
         /\ \A j \in DOMAIN dispatch'[c] :
              \/ j = Len(dispatch[c]) + 1
              \/ j \in DOMAIN dispatch[c] /\ dispatch'[c][j] = dispatch[c][j]
<1>1. dispatch[c] \in Seq(Phase) /\ dispatch'[c] = Append(dispatch[c], phase)
  BY DEF TypeOK
<1>2. dispatch'[c] \in Seq(Phase) /\ dispatch' \in [Command -> Seq(Phase)]
  BY <1>1 DEF TypeOK
<1>3. \A d \in Command \ {c} : dispatch'[d] = dispatch[d]
  BY DEF TypeOK
<1> QED  BY <1>1, <1>2, <1>3

LEMMA DispatchEnds ==
  ASSUME TypeOK,
         dispatch' = [c \in Command |-> [k \in DOMAIN dispatch[c] |-> "over"]]
  PROVE  /\ dispatch' \in [Command -> Seq(Phase)]
         /\ \A c \in Command : Len(dispatch'[c]) = Len(dispatch[c])
         /\ \A c \in Command : \A k \in DOMAIN dispatch'[c] : dispatch'[c][k] = "over"
<1>1. ASSUME NEW c \in Command
      PROVE  /\ dispatch'[c] \in Seq(Phase) /\ Len(dispatch'[c]) = Len(dispatch[c])
             /\ \A k \in DOMAIN dispatch'[c] : dispatch'[c][k] = "over"
  <2>1. dispatch[c] \in Seq(Phase) /\ dispatch'[c] = [k \in DOMAIN dispatch[c] |-> "over"]
    BY DEF TypeOK
  <2>2. /\ DOMAIN dispatch[c] = 1 .. Len(dispatch[c]) /\ Len(dispatch[c]) \in Nat
        /\ "over" \in Phase
    BY <2>1 DEF Phase
  <2> QED  BY <2>1, <2>2
<1> QED  BY <1>1

\* The part of TypeOK that is not about rows.
RestTyped ==
  /\ log \in [Command -> SUBSET Settled]
  /\ served \subseteq Room \X Room
  /\ epoch \in Nat /\ up \in BOOLEAN
  /\ claims \subseteq Command \X Nat
  /\ dispatch \in [Command -> Seq(Phase)]
  /\ runtime \in [Command -> Turn]
  /\ outbox \in [Command -> SUBSET Output]
  /\ emits \in [Command -> Nat]
  /\ mishaps \in 0 .. Mishaps

LEMMA MishapTyped ==
  ASSUME TypeOK, Mishap
  PROVE  mishaps' \in 0 .. Mishaps
BY CommandAssumption DEF TypeOK, Mishap

LEMMA ForgetTyped ==
  ASSUME TypeOK, NEW c \in Command, NEW k \in DOMAIN dispatch[c], Forget(c, k)
  PROVE  claims' \subseteq Command \X Nat /\ dispatch' \in [Command -> Seq(Phase)]
<1>1. "over" \in Phase
  BY DEF Phase
<1> QED  BY <1>1, DispatchMoves DEF Forget, Without, TypeOK

LEMMA DispatchTyped ==
  ASSUME TypeOK, NEW c \in Command, DispatchStep(c)
  PROVE  RestTyped'
<1>1. PICK k \in DOMAIN dispatch[c] :
        \/ SessionGone(c, k) \/ Initialize(c, k) \/ TransitionFails(c, k)
        \/ Accepted(c, k) \/ ThrowsLate(c, k)
        \/ Throws(c, k, "refused") \/ Throws(c, k, "unclear") \/ Abandon(c, k)
  BY DEF DispatchStep
<1>2. {"emitting", "unclear", "refused", "over"} \subseteq Phase
  BY DEF Phase
<1>3. CASE SessionGone(c, k)
  BY <1>3, ForgetTyped DEF SessionGone, RestTyped, TypeOK, turns
<1>4. CASE Initialize(c, k)
  <2>1. CASE Held(c, k)
    <3>1. dispatch' \in [Command -> Seq(Phase)]
      BY <1>2, <1>4, <2>1, DispatchMoves DEF Initialize
    <3>2. emits' \in [Command -> Nat]
      BY <1>4, <2>1 DEF Initialize, TypeOK
    <3> QED  BY <1>4, <2>1, <3>1, <3>2 DEF Initialize, RestTyped, TypeOK
  <2>2. CASE ~Held(c, k)
    BY <1>4, <2>2, ForgetTyped DEF Initialize, RestTyped, TypeOK
  <2> QED  BY <2>1, <2>2
<1>5. CASE TransitionFails(c, k)
  BY <1>2, <1>5, MishapTyped, DispatchMoves DEF TransitionFails, RestTyped, TypeOK, turns
<1>6. CASE Accepted(c, k) \/ ThrowsLate(c, k)
  <2>1. dispatch' \in [Command -> Seq(Phase)]
    BY <1>2, <1>6, DispatchMoves DEF Accepted, ThrowsLate
  <2>2. runtime' \in [Command -> Turn]
    <3>1. {"finished", "queued"} \subseteq Turn
      BY DEF Turn
    <3> QED  BY <1>6, <3>1 DEF Accepted, ThrowsLate, TakenIn, TypeOK
  <2>3. outbox' \in [Command -> SUBSET Output]
    <3>1. {"message_steered", "message_queued"} \subseteq Output
      BY DEF Output
    <3>2. Told(c) \in [Command -> SUBSET Output]
      BY <3>1 DEF Told, TypeOK
    <3> QED  BY <1>6, <3>2 DEF Accepted, ThrowsLate, TypeOK
  <2>4. mishaps' \in 0 .. Mishaps
    BY <1>6, MishapTyped DEF Accepted, ThrowsLate, TypeOK
  <2> QED  BY <1>6, <2>1, <2>2, <2>3, <2>4 DEF Accepted, ThrowsLate, RestTyped, TypeOK, store
<1>7. CASE Throws(c, k, "refused") \/ Throws(c, k, "unclear")
  BY <1>2, <1>7, DispatchMoves DEF Throws, RestTyped, TypeOK, turns, store
<1>8. CASE Abandon(c, k)
  BY <1>8, ForgetTyped, MishapTyped DEF Abandon, RestTyped, TypeOK, turns
<1> QED  BY <1>1, <1>3, <1>4, <1>5, <1>6, <1>7, <1>8

LEMMA ClaimTyped ==
  ASSUME TypeOK, \A c \in Command : Admitted(c), Claim
  PROVE  RestTyped'
<1> DEFINE rows == RecoverExpired(row)
<1>1. /\ log' = log /\ epoch' = epoch /\ up' = up /\ runtime' = runtime
      /\ outbox' = outbox /\ emits' = emits
  BY DEF Claim, turns
<1>2. CASE UNCHANGED <<served, claims, dispatch, mishaps>>
  BY <1>1, <1>2 DEF RestTyped, TypeOK
<1>3. ASSUME NEW c \in Command, NextCandidate(rows, c), Claimed(rows, c)
      PROVE  RestTyped'
  <2>1. rows \in [Command -> Row] /\ Repairs(c, rows[c]) /\ rows[c].state = "accepted"
    BY <1>3, RecoverRepairs DEF NextCandidate, Candidates
  <2>2. row[c].state # "none"
    BY <2>1, StatesDiffer DEF Repairs, Settled
  <2>3. rows[c].session \in Session
    BY <2>1, <2>2 DEF Repairs, SameRow, Admitted
  <2>4. rows[c].token + 1 \in Nat
    BY <2>1 DEF Row
  <2>5. RoomOf[rows[c].session] \in Room
    BY <2>3 DEF Room
  <2>6. served' \subseteq Room \X Room
    BY <1>3, <2>5 DEF Claimed, TypeOK
  <2>7. claims' \subseteq Command \X Nat
    BY <1>3, <2>4 DEF Claimed, Without, TypeOK
  <2>8. mishaps' \in 0 .. Mishaps
    BY <1>3, MishapTyped DEF Claimed, TypeOK
  <2>9. {"claimed", "over"} \subseteq Phase
    BY DEF Phase
  <2>10. dispatch' \in [Command -> Seq(Phase)]
    BY <1>3, <2>9, DispatchAppends DEF Claimed
  <2> QED  BY <1>1, <2>6, <2>7, <2>8, <2>10 DEF RestTyped, TypeOK
<1> QED  BY <1>2, <1>3 DEF Claim

LEMMA EmitsTyped ==
  ASSUME TypeOK, NEW c \in Command, NEW turn \in Turn, NEW t \in Output, Emits(c, turn, t)
  PROVE  RestTyped'
<1>1. runtime' \in [Command -> Turn] /\ outbox' \in [Command -> SUBSET Output]
  BY DEF Emits, TypeOK
<1> QED  BY <1>1 DEF Emits, RestTyped, TypeOK, store, local

LEMMA IngestTyped ==
  ASSUME TypeOK, NEW c \in Command, NEW t \in Output, Ingest(c, t)
  PROVE  RestTyped'
<1>1. log' \in [Command -> SUBSET Settled]
  BY DEF Ingest, Terminal, TypeOK
<1>2. outbox' \in [Command -> SUBSET Output]
  BY DEF Ingest, TypeOK
<1>3. claims' \subseteq Command \X Nat
  BY DEF Ingest, Without, TypeOK
<1>4. mishaps' \in 0 .. Mishaps
  BY MishapTyped DEF Ingest, TypeOK
<1> QED  BY <1>1, <1>2, <1>3, <1>4 DEF Ingest, RestTyped, TypeOK

LEMMA ProcessEndsTyped ==
  ASSUME TypeOK, ProcessEnds
  PROVE  RestTyped'
<1>1. dispatch' \in [Command -> Seq(Phase)]
  BY DispatchEnds DEF ProcessEnds
<1>2. PICK answered \in SUBSET {c \in Command : runtime[c] = "running"} :
        /\ outbox' = [c \in Command |->
                       IF c \in answered THEN outbox[c] \cup {"session_error"} ELSE outbox[c]]
        /\ runtime' = [c \in Command |->
                        IF c \in answered THEN "failed"
                        ELSE IF runtime[c] \in {"queued", "running", "dropped"} THEN "lost"
                        ELSE runtime[c]]
  BY DEF ProcessEnds
<1>3. outbox' \in [Command -> SUBSET Output]
  BY <1>2 DEF TypeOK, Output
<1>4. runtime' \in [Command -> Turn]
  BY <1>2 DEF TypeOK, Turn
<1>5. log' \in [Command -> SUBSET Settled]
  <2>1. CASE log' = log
    BY <2>1 DEF TypeOK
  <2>2. ASSUME NEW c \in Command, NEW t \in outbox[c], Terminal(t),
               log' = [log EXCEPT ![c] = @ \cup {StateOf(t)}]
        PROVE  log' \in [Command -> SUBSET Settled]
    BY <2>2 DEF Terminal, TypeOK
  <2> QED  BY <2>1, <2>2 DEF ProcessEnds
<1>6. mishaps' \in 0 .. Mishaps
  BY MishapTyped DEF ProcessEnds
<1> QED  BY <1>1, <1>3, <1>4, <1>5, <1>6 DEF ProcessEnds, RestTyped, TypeOK

LEMMA RestKept ==
  ASSUME HandoverInv, [Next]_vars
  PROVE  RestTyped'
<1>1. TypeOK /\ \A c \in Command : Admitted(c)
  BY DEF HandoverInv, TypeInv
<1>2. CASE UNCHANGED vars
  BY <1>1, <1>2 DEF vars, store, local, turns, RestTyped, TypeOK
<1>3. ASSUME NEW c \in Command, NEW s \in Session, NEW d \in Delivery, Admit(c, s, d)
      PROVE  RestTyped'
  BY <1>1, <1>3 DEF Admit, local, turns, RestTyped, TypeOK
<1>4. ASSUME NEW c \in Command, Expire(c)
      PROVE  RestTyped'
  BY <1>1, <1>4, MishapTyped DEF Expire, local, turns, RestTyped, TypeOK
<1>5. ASSUME NEW c \in Command, HeartbeatRefused(c)
      PROVE  RestTyped'
  BY <1>1, <1>5 DEF HeartbeatRefused, Without, store, turns, RestTyped, TypeOK
<1>6. ASSUME NEW c \in Command, TurnStep(c)
      PROVE  RestTyped'
  <2>1. /\ {"running", "finished", "failed"} \subseteq Turn
        /\ {"message_started", "message_finished", "session_error"} \subseteq Output
    BY DEF Turn, Output
  <2> QED  BY <1>1, <1>6, <2>1, EmitsTyped DEF TurnStep, TurnStarts, TurnFinishes, TurnFails
<1>7. ASSUME NEW c \in Command, TurnDropped(c)
      PROVE  RestTyped'
  <2>1. runtime' \in [Command -> Turn]
    BY <1>1, <1>7 DEF TurnDropped, TypeOK, Turn
  <2> QED  BY <1>1, <1>7, <2>1 DEF TurnDropped, store, local, RestTyped, TypeOK
<1>8. ASSUME NEW c \in Command, NEW decision \in Settled, NEW successors \in SUBSET Command,
             Reconcile(c, decision, successors)
      PROVE  RestTyped'
  BY <1>1, <1>8 DEF Reconcile, local, turns, RestTyped, TypeOK
<1>9. ASSUME NEW s \in Session, CancelPending(s)
      PROVE  RestTyped'
  BY <1>1, <1>9 DEF CancelPending, local, turns, RestTyped, TypeOK
<1>10. CASE ProcessStarts
  BY <1>1, <1>10 DEF ProcessStarts, turns, RestTyped, TypeOK
<1>11. CASE WorkerRestarts
  BY <1>1, <1>11, MishapTyped DEF WorkerRestarts, local, turns, RestTyped, TypeOK
<1>12. ASSUME NEW c \in Command, IngestStep(c)
       PROVE  RestTyped'
  BY <1>1, <1>12, IngestTyped DEF IngestStep
<1> QED
  BY <1>1, <1>2, <1>3, <1>4, <1>5, <1>6, <1>7, <1>8, <1>9, <1>10, <1>11, <1>12,
     DispatchTyped, ClaimTyped, ProcessEndsTyped DEF Next

LEMMA TypesKept ==
  ASSUME HandoverInv, [Next]_vars
  PROVE  TypeInv'
<1>1. TypeOK'
  BY StepRows, RestKept DEF RestTyped, TypeOK
<1>2. ASSUME NEW c \in Command
      PROVE  Admitted(c)'
  <2>1. Admitted(c) /\ row[c] \in Row
    BY DEF HandoverInv, TypeInv, TypeOK
  <2>2. CASE RowAdvances(c) /\ row[c].state = "none"
    <3>1. /\ row'[c].state = "none" /\ row'[c].token = row[c].token
          /\ row'[c].owner \in {row[c].owner, None}
      BY <2>2, StatesDiffer DEF RowAdvances, SameRow
    <3> QED  BY <2>1, <2>2, <3>1 DEF Admitted
  <2>3. CASE RowAdvances(c) /\ row[c].state # "none"
    <3>1. row'[c].state # "none" /\ row'[c].session = row[c].session
      BY <2>3, StatesDiffer DEF RowAdvances, SameRow, Settled, Active
    <3> QED  BY <2>1, <2>3, <3>1 DEF Admitted
  <2>4. CASE RowAdmitted(c)
    BY <2>4 DEF RowAdmitted, Admitted
  <2>5. CASE RowClaimed(c)
    BY <2>1, <2>5 DEF RowClaimed, Admitted, Unstarted
  <2> QED  BY <2>2, <2>3, <2>4, <2>5, StepRows
<1> QED  BY <1>1, <1>2 DEF TypeInv

-----------------------------------------------------------------------------
(* What a step makes of the dispatches of a command and of its turn *)

\* The dispatches of the command stay or let it go, and what the runtime has
\* seen it does not unsee.
Settles(c) ==
  /\ emits'[c] = emits[c]
  /\ Len(dispatch'[c]) = Len(dispatch[c]) /\ DOMAIN dispatch'[c] = DOMAIN dispatch[c]
  /\ \A k \in DOMAIN dispatch[c] :
       /\ dispatch'[c][k] = "claimed" => dispatch[c][k] = "claimed"
       /\ dispatch'[c][k] \in InHand => dispatch[c][k] \in InHand
       /\ dispatch'[c][k] = "emitting" => dispatch[c][k] = "emitting"
  /\ log[c] \subseteq log'[c]
  /\ IF runtime[c] = "none"
     THEN runtime'[c] = "none" /\ log'[c] \subseteq log[c] \cup {StateOf(t) : t \in outbox[c]}
            /\ outbox'[c] \subseteq outbox[c]
     ELSE runtime'[c] # "none"

\* One of its dispatches hands it to the router.
HandedOn(c) ==
  /\ \E k \in DOMAIN dispatch[c] :
       /\ Held(c, k) /\ dispatch[c][k] = "claimed"
       /\ dispatch' = [dispatch EXCEPT ![c][k] = "emitting"]
  /\ emits' = [emits EXCEPT ![c] = @ + 1]
  /\ row'[c].state = "initializing"
  /\ UNCHANGED <<runtime, log, outbox>>

\* The router takes it from one.
TakenOver(c) ==
  /\ \E k \in DOMAIN dispatch[c] :
       /\ dispatch[c][k] = "emitting"
       /\ \E phase \in {"over", "unclear"} : dispatch' = [dispatch EXCEPT ![c][k] = phase]
  /\ runtime'[c] # "none" /\ UNCHANGED <<emits, log>>

LEMMA SameSettles ==
  ASSUME NEW c \in Command, emits'[c] = emits[c], dispatch'[c] = dispatch[c],
         runtime'[c] = runtime[c], log'[c] = log[c], outbox'[c] = outbox[c]
  PROVE  Settles(c)
BY DEF Settles

LEMMA LetGoSettles ==
  ASSUME TypeOK, NEW c \in Command, NEW k \in DOMAIN dispatch[c],
         NEW phase \in {"over", "unclear", "refused"},
         phase = "refused" => dispatch[c][k] \in InHand,
         dispatch' = [dispatch EXCEPT ![c][k] = phase],
         UNCHANGED <<emits, runtime, log, outbox>>
  PROVE  \A d \in Command : Settles(d)
<1>1. phase \in Phase
  BY DEF Phase
<1>2. \A d \in Command \ {c} : Settles(d)
  BY <1>1, DispatchMoves, SameSettles
<1>3. Settles(c)
  BY <1>1, DispatchMoves DEF Settles, InHand
<1> QED  BY <1>2, <1>3

LEMMA DispatchStepSettles ==
  ASSUME TypeOK, NEW c \in Command, DispatchStep(c)
  PROVE  \A d \in Command : Settles(d) \/ HandedOn(d) \/ TakenOver(d)
<1>1. PICK k \in DOMAIN dispatch[c] :
        \/ SessionGone(c, k) \/ Initialize(c, k) \/ TransitionFails(c, k)
        \/ Accepted(c, k) \/ ThrowsLate(c, k)
        \/ Throws(c, k, "refused") \/ Throws(c, k, "unclear") \/ Abandon(c, k)
  BY DEF DispatchStep
<1>2. CASE SessionGone(c, k) \/ Abandon(c, k)
  BY <1>2, LetGoSettles DEF SessionGone, Abandon, Forget, turns
<1>3. CASE TransitionFails(c, k)
  BY <1>3, LetGoSettles DEF TransitionFails, turns
<1>4. CASE Throws(c, k, "refused") \/ Throws(c, k, "unclear")
  BY <1>4, LetGoSettles DEF Throws, turns, store, InHand
<1>5. CASE Initialize(c, k) /\ ~Held(c, k)
  BY <1>5, LetGoSettles DEF Initialize, Forget
<1>6. CASE Initialize(c, k) /\ Held(c, k)
  <2>1. \A d \in Command \ {c} : Settles(d)
    <3>1. "emitting" \in Phase
      BY DEF Phase
    <3>2. /\ dispatch' = [dispatch EXCEPT ![c][k] = "emitting"]
          /\ UNCHANGED <<runtime, log, outbox>>
          /\ \A d \in Command \ {c} : emits'[d] = emits[d]
      BY <1>6 DEF Initialize, TypeOK
    <3> QED  BY <3>1, <3>2, DispatchMoves, SameSettles
  <2>2. row'[c].state = "initializing"
    <3>1. row'[c] = Transition(c, k, "initializing", "none")
      BY <1>6 DEF Initialize, TypeOK
    <3>2. "initializing" \in State /\ "none" \in Reason
      BY StatesDiffer, ReasonsDiffer
    <3> QED  BY <1>6, <3>1, <3>2, TransitionRow
  <2>3. HandedOn(c)
    BY <1>6, <2>2 DEF Initialize, HandedOn
  <2> QED  BY <2>1, <2>3
<1>7. CASE Accepted(c, k) \/ ThrowsLate(c, k)
  <2>1. PICK phase \in {"over", "unclear"} : dispatch' = [dispatch EXCEPT ![c][k] = phase]
    BY <1>7 DEF Accepted, ThrowsLate
  <2>2. \A d \in Command \ {c} : Settles(d)
    <3>1. phase \in Phase
      BY DEF Phase
    <3>2. /\ UNCHANGED <<log, emits>>
          /\ \A d \in Command \ {c} : runtime'[d] = runtime[d] /\ outbox'[d] = outbox[d]
      BY <1>7 DEF Accepted, ThrowsLate, TakenIn, Told, TypeOK, store
    <3> QED  BY <2>1, <3>1, <3>2, DispatchMoves, SameSettles
  <2>3. TakenOver(c)
    <3>1. dispatch[c][k] = "emitting" /\ UNCHANGED <<emits, log>>
      BY <1>7 DEF Accepted, ThrowsLate, store
    <3>2. runtime'[c] # "none"
      BY <1>7 DEF Accepted, ThrowsLate, TakenIn, TypeOK
    <3> QED  BY <2>1, <3>1, <3>2 DEF TakenOver
  <2> QED  BY <2>2, <2>3
<1> QED  BY <1>1, <1>2, <1>3, <1>4, <1>5, <1>6, <1>7

LEMMA ProcessEndsSettles ==
  ASSUME TypeOK, ProcessEnds
  PROVE  \A d \in Command : Settles(d)
<1> SUFFICES ASSUME NEW d \in Command
             PROVE  Settles(d)
  OBVIOUS
<1>1. PICK answered \in SUBSET {c \in Command : runtime[c] = "running"} :
        /\ outbox' = [c \in Command |->
                       IF c \in answered THEN outbox[c] \cup {"session_error"} ELSE outbox[c]]
        /\ runtime' = [c \in Command |->
                        IF c \in answered THEN "failed"
                        ELSE IF runtime[c] \in {"queued", "running", "dropped"} THEN "lost"
                        ELSE runtime[c]]
  BY DEF ProcessEnds
<1>2. IF runtime[d] = "none" THEN runtime'[d] = "none" /\ outbox'[d] = outbox[d]
      ELSE runtime'[d] # "none"
  BY <1>1
<1>3. log'[d] \subseteq log[d] \cup {StateOf(t) : t \in outbox[d]} /\ log[d] \subseteq log'[d]
  <2>1. CASE log' = log
    BY <2>1
  <2>2. ASSUME NEW c \in Command, NEW t \in outbox[c], log' = [log EXCEPT ![c] = @ \cup {StateOf(t)}]
        PROVE  /\ log'[d] \subseteq log[d] \cup {StateOf(u) : u \in outbox[d]}
               /\ log[d] \subseteq log'[d]
    BY <2>2 DEF TypeOK
  <2> QED  BY <2>1, <2>2 DEF ProcessEnds
<1>4. /\ Len(dispatch'[d]) = Len(dispatch[d]) /\ DOMAIN dispatch'[d] = DOMAIN dispatch[d]
      /\ \A k \in DOMAIN dispatch[d] : dispatch'[d][k] = "over"
  BY DispatchEnds DEF ProcessEnds
<1>5. emits'[d] = emits[d]
  BY DEF ProcessEnds
<1> QED  BY <1>2, <1>3, <1>4, <1>5 DEF Settles, InHand

LEMMA TurnSettles ==
  ASSUME TypeOK, NEW c \in Command, TurnStep(c) \/ TurnDropped(c)
  PROVE  \A d \in Command : Settles(d)
<1>1. PICK turn \in {"running", "finished", "failed", "dropped"} :
        /\ runtime[c] # "none" /\ runtime' = [runtime EXCEPT ![c] = turn]
        /\ UNCHANGED <<emits, dispatch, log>>
        /\ \A d \in Command \ {c} : outbox'[d] = outbox[d]
  BY DEF TurnStep, TurnStarts, TurnFinishes, TurnFails, Emits, TurnDropped, TypeOK, store, local
<1>2. \A d \in Command \ {c} : Settles(d)
  BY <1>1, SameSettles DEF TypeOK
<1>3. Settles(c)
  BY <1>1 DEF Settles, TypeOK
<1> QED  BY <1>2, <1>3

LEMMA IngestSettles ==
  ASSUME TypeOK, NEW c \in Command, NEW t \in Output, Ingest(c, t)
  PROVE  \A d \in Command : Settles(d)
<1>1. /\ UNCHANGED <<emits, dispatch, runtime>>
      /\ \A d \in Command \ {c} : outbox'[d] = outbox[d] /\ log'[d] = log[d]
  BY DEF Ingest, TypeOK
<1>2. \A d \in Command \ {c} : Settles(d)
  BY <1>1, SameSettles
<1>3. /\ log'[c] \subseteq log[c] \cup {StateOf(u) : u \in outbox[c]}
      /\ log[c] \subseteq log'[c] /\ outbox'[c] \subseteq outbox[c]
  BY DEF Ingest, TypeOK
<1>4. Settles(c)
  BY <1>1, <1>3 DEF Settles
<1> QED  BY <1>2, <1>4

\* What becomes of each command in a step of the system.
LEMMA StepSettles ==
  ASSUME HandoverInv, [Next]_vars
  PROVE  \A d \in Command : Settles(d) \/ HandedOn(d) \/ TakenOver(d) \/ RowClaimed(d)
<1>1. TypeOK
  BY DEF HandoverInv, TypeInv
<1>2. ASSUME UNCHANGED <<emits, dispatch, runtime, log, outbox>>
      PROVE  \A d \in Command : Settles(d)
  BY <1>2, SameSettles
<1>3. ASSUME NEW c \in Command,
             \/ \E s \in Session, d \in Delivery : Admit(c, s, d)
             \/ Expire(c) \/ HeartbeatRefused(c)
             \/ \E decision \in Settled, successors \in SUBSET Command :
                  Reconcile(c, decision, successors)
      PROVE  UNCHANGED <<emits, dispatch, runtime, log, outbox>>
  BY <1>3 DEF Admit, Expire, HeartbeatRefused, Reconcile, store, local, turns
<1>4. ASSUME \/ UNCHANGED vars \/ ProcessStarts \/ WorkerRestarts
             \/ \E s \in Session : CancelPending(s)
      PROVE  UNCHANGED <<emits, dispatch, runtime, log, outbox>>
  BY <1>4 DEF vars, ProcessStarts, WorkerRestarts, CancelPending, store, local, turns
<1>5. CASE Claim
  <2>1. \/ UNCHANGED <<emits, dispatch, runtime, log, outbox>>
        \/ \E c \in Command : /\ NextCandidate(RecoverExpired(row), c)
                             /\ Claimed(RecoverExpired(row), c)
    BY <1>5 DEF Claim, turns
  <2>2. ASSUME NEW c \in Command, Claimed(RecoverExpired(row), c),
               NextCandidate(RecoverExpired(row), c)
        PROVE  \A d \in Command : Settles(d) \/ RowClaimed(d)
    <3>1. /\ UNCHANGED <<emits, runtime, log, outbox>>
          /\ \A d \in Command \ {c} : dispatch'[d] = dispatch[d]
      BY <1>1, <1>5, <2>2 DEF Claim, Claimed, TypeOK, turns
    <3>2. RowClaimed(c)
      BY <1>5, <2>2, ClaimedRows
    <3> QED  BY <3>1, <3>2, SameSettles
  <2> QED  BY <1>2, <2>1, <2>2
<1> QED
  BY <1>1, <1>2, <1>3, <1>4, <1>5, DispatchStepSettles, ProcessEndsSettles, TurnSettles,
     IngestSettles DEF Next, IngestStep

LEMMA HandoverKept ==
  ASSUME HandoverInv, [Next]_vars, NEW c \in Command
  PROVE  Handover(c)' /\ Touch(c)'
<1>1. TypeOK /\ Handover(c) /\ Touch(c) /\ row[c] \in Row /\ dispatch[c] \in Seq(Phase)
  BY DEF HandoverInv, TypeInv, TypeOK
<1>2. TypeOK'
  BY TypesKept DEF TypeInv
<1>3. CASE RowClaimed(c)
  <2>1. PICK phase \in {"claimed", "over"} : dispatch'[c] = Append(dispatch[c], phase)
    BY <1>3 DEF RowClaimed
  <2>2. /\ Len(dispatch'[c]) = Len(dispatch[c]) + 1
        /\ \A k \in DOMAIN dispatch'[c] :
             dispatch'[c][k] \in InHand => k \in DOMAIN dispatch[c] /\ dispatch'[c][k] = dispatch[c][k]
    BY <1>1, <2>1 DEF InHand
  <2>3. /\ emits'[c] = 0 /\ emits[c] = 0 /\ runtime'[c] = runtime[c] /\ log'[c] = log[c]
        /\ outbox'[c] = outbox[c] /\ row'[c].token = row[c].token + 1
    BY <1>1, <1>3 DEF RowClaimed, Handover
  <2>4. Handover(c)'
    BY <1>1, <2>2, <2>3 DEF Handover
  <2>5. Touch(c)'
    BY <1>1, <2>2, <2>3 DEF Touch
  <2> QED  BY <2>4, <2>5
<1>4. CASE ~RowClaimed(c)
  <2>1. /\ RowAdvances(c) \/ RowAdmitted(c)
        /\ Settles(c) \/ HandedOn(c) \/ TakenOver(c)
    BY <1>4, StepRows, StepSettles
  <2>2. /\ row'[c].token = row[c].token
        /\ row'[c].state \in Unstarted \cup {"none"} => row[c].state \in Unstarted \cup {"none"}
    BY <2>1, StatesDiffer DEF RowAdvances, RowAdmitted, SameRow, Unstarted, Settled
  <2>3. CASE Settles(c)
    <3>1. Handover(c)'
      BY <1>1, <2>2, <2>3 DEF Handover, Settles
    <3>2. Touch(c)'
      BY <1>1, <2>3 DEF Touch, Settles
    <3> QED  BY <3>1, <3>2
  <2>4. CASE HandedOn(c)
    <3>1. PICK k \in DOMAIN dispatch[c] :
            /\ Held(c, k) /\ dispatch[c][k] = "claimed"
            /\ dispatch' = [dispatch EXCEPT ![c][k] = "emitting"]
      BY <2>4 DEF HandedOn
    <3>2. k = row[c].token /\ emits[c] = 0 /\ emits'[c] = 1
      BY <1>1, <2>4, <3>1 DEF Held, Handover, HandedOn, TypeOK
    <3>3. /\ Len(dispatch'[c]) = Len(dispatch[c]) /\ DOMAIN dispatch'[c] = DOMAIN dispatch[c]
          /\ dispatch'[c][k] = "emitting"
          /\ \A j \in DOMAIN dispatch[c] \ {k} : dispatch'[c][j] = dispatch[c][j]
      BY <1>1, <3>1, DispatchMoves DEF Phase
    <3>4. row'[c].state \notin Unstarted \cup {"none"}
      BY <2>4 DEF HandedOn, Unstarted
    <3>5. Handover(c)'
      BY <1>1, <2>2, <3>2, <3>3, <3>4 DEF Handover
    <3>6. Touch(c)'
      BY <1>1, <2>4, <3>2, <3>3 DEF Touch, HandedOn, InHand
    <3> QED  BY <3>5, <3>6
  <2>5. CASE TakenOver(c)
    <3>1. PICK k \in DOMAIN dispatch[c], phase \in {"over", "unclear"} :
            dispatch[c][k] = "emitting" /\ dispatch' = [dispatch EXCEPT ![c][k] = phase]
      BY <2>5 DEF TakenOver
    <3>2. /\ Len(dispatch'[c]) = Len(dispatch[c]) /\ DOMAIN dispatch'[c] = DOMAIN dispatch[c]
          /\ dispatch'[c][k] = phase
          /\ \A j \in DOMAIN dispatch[c] \ {k} : dispatch'[c][j] = dispatch[c][j]
      BY <1>1, <3>1, DispatchMoves DEF Phase
    <3>3. emits[c] # 0 /\ \A j \in DOMAIN dispatch'[c] : dispatch'[c][j] \notin InHand
      BY <1>1, <3>1, <3>2 DEF Touch, InHand
    <3>4. Handover(c)'
      BY <1>1, <2>2, <2>5, <3>2 DEF Handover, TakenOver
    <3>5. Touch(c)'
      BY <2>5, <3>3 DEF Touch, TakenOver
    <3> QED  BY <3>4, <3>5
  <2> QED  BY <2>1, <2>3, <2>4, <2>5
<1> QED  BY <1>3, <1>4

-----------------------------------------------------------------------------
(* The invariant *)

\* What a settled row answers is true.
Answers(c) ==
  row[c].state \in Settled =>
    /\ row[c].error \in NotRun => Untouched(c)
    /\ row[c].error # "operator" => row[c].state \in log[c] \/ Untouched(c)

\* Commands are admitted in the order of their numbers.
InOrder == \A p, c \in Command : p < c /\ row[c].state # "none" => row[p].state # "none"

\* A claimed command stands behind settled ones only.
ClearedBefore(c) ==
  row[c].owner # None =>
    \A p \in Earlier(row, c) :
      row[c].delivery = "queue" \/ row[p].delivery = "steer" => row[p].state \in Settled

CommandInv ==
  HandoverInv /\ InOrder /\ \A c \in Command : Answers(c) /\ ClearedBefore(c)

LEMMA SettledStays ==
  ASSUME HandoverInv, [Next]_vars, NEW c \in Command, row[c].state \in Settled
  PROVE  row'[c].state = row[c].state /\ row'[c].error = row[c].error
<1>1. row[c].state \notin Active \cup {"none", "interrupted"}
  BY StatesDiffer
<1>2. RowAdvances(c)
  BY <1>1, StepRows, StatesDiffer DEF RowAdmitted, RowClaimed
<1> QED  BY <1>1, <1>2, StatesDiffer DEF RowAdvances, Active

LEMMA AnswersKept ==
  ASSUME HandoverInv, [Next]_vars, NEW c \in Command, Answers(c)
  PROVE  Answers(c)'
<1> SUFFICES ASSUME row'[c].state \in Settled
             PROVE  /\ row'[c].error \in NotRun => Untouched(c)'
                    /\ row'[c].error # "operator" => row'[c].state \in log'[c] \/ Untouched(c)'
  BY DEF Answers
<1>1. CASE row[c].state \in Settled
  <2>1. row'[c].state = row[c].state /\ row'[c].error = row[c].error
    BY <1>1, SettledStays
  <2>2. row[c].state \notin Active
    BY <1>1, StatesDiffer
  <2>3. Settles(c) \/ TakenOver(c)
    BY <2>2, StepSettles, StatesDiffer DEF HandedOn, Held, RowClaimed
  <2>4. log[c] \subseteq log'[c]
    BY <2>3 DEF Settles, TakenOver
  <2>5. Untouched(c) => Untouched(c)'
    BY <2>3 DEF Settles, TakenOver, Untouched
  <2> QED  BY <1>1, <2>1, <2>4, <2>5 DEF Answers
<1>2. CASE row[c].state \notin Settled
  <2>1. ~RowAdmitted(c)
    BY StatesDiffer DEF RowAdmitted, Settled
  <2>2. CASE RowClaimed(c)
    <3>1. row'[c].error = "payload" /\ Untouched(c)'
      BY <2>2 DEF RowClaimed, Settled
    <3> QED  BY <3>1
  <2>3. CASE RowAdvances(c)
    <3>1. Earned(c)
      BY <1>2, <2>3, StatesDiffer DEF RowAdvances, Settled
    <3> QED  BY <3>1, ReasonsDiffer DEF Earned
  <2> QED  BY <2>1, <2>2, <2>3, StepRows
<1> QED  BY <1>1, <1>2

LEMMA OrderKept ==
  ASSUME HandoverInv, [Next]_vars, InOrder, \A c \in Command : ClearedBefore(c)
  PROVE  InOrder' /\ \A c \in Command : ClearedBefore(c)'
<1>1. \A c \in Command : row[c].state # "none" =>
        /\ row'[c].state # "none"
        /\ row'[c].session = row[c].session /\ row'[c].delivery = row[c].delivery
  BY StepRows, StatesDiffer
     DEF RowAdvances, RowAdmitted, RowClaimed, SameRow, Active, Settled, Unstarted
<1>2. \A c \in Command : row[c].state = "none" /\ row'[c].state # "none" =>
        /\ row'[c].owner = None
        /\ \A p \in Command : p < c => row[p].state # "none"
  BY StepRows, StatesDiffer DEF RowAdvances, RowAdmitted, RowClaimed, Active, Unstarted
<1>3. InOrder'
  BY <1>1, <1>2 DEF InOrder
<1>4. ASSUME NEW c \in Command
      PROVE  ClearedBefore(c)'
  <2> SUFFICES ASSUME row'[c].owner # None, NEW p \in Earlier(row', c),
                      row'[c].delivery = "queue" \/ row'[p].delivery = "steer"
               PROVE  row'[p].state \in Settled
    BY DEF ClearedBefore, Earlier
  <2>1. row'[c].state # "none"
    BY TypesKept DEF TypeInv, Admitted
  <2>2. row[c].state # "none" /\ p \in Command /\ p < c
    BY <1>2, <2>1 DEF Earlier
  <2>3. row[p].state # "none"
    BY <2>2 DEF InOrder
  <2>4. /\ p \in Earlier(row, c) /\ row'[p].state # "none"
        /\ row[c].delivery = "queue" \/ row[p].delivery = "steer"
    BY <1>1, <2>2, <2>3 DEF Earlier
  <2>5. CASE RowClaimed(c)
    BY <2>4, <2>5 DEF RowClaimed
  <2>6. CASE RowAdvances(c)
    <3>1. row[c].owner # None
      BY <2>6 DEF RowAdvances, SameRow
    <3>2. row[p].state \in Settled
      BY <2>4, <3>1 DEF ClearedBefore
    <3> QED  BY <2>2, <3>2, SettledStays
  <2>7. ~RowAdmitted(c)
    BY <2>2 DEF RowAdmitted
  <2> QED  BY <2>5, <2>6, <2>7, StepRows
<1> QED  BY <1>3, <1>4

LEMMA InitInv ==
  ASSUME Init
  PROVE  CommandInv
<1>1. NoCommand \in Row
  BY StatesDiffer, ReasonsDiffer DEF NoCommand, Row, Delivery
<1>2. TypeOK
  BY <1>1, CommandAssumption DEF Init, TypeOK, Turn
<1>3. \A c \in Command : Admitted(c) /\ Handover(c) /\ Touch(c)
  BY DEF Init, Admitted, Handover, Touch, NoCommand, InHand
<1>4. InOrder /\ \A c \in Command : Answers(c) /\ ClearedBefore(c)
  BY StatesDiffer DEF Init, InOrder, Answers, ClearedBefore, NoCommand
<1> QED  BY <1>2, <1>3, <1>4 DEF CommandInv, HandoverInv, TypeInv

LEMMA StepInv ==
  ASSUME CommandInv, [Next]_vars
  PROVE  CommandInv'
<1>1. HandoverInv
  BY DEF CommandInv
<1>2. TypeInv' /\ \A c \in Command : Handover(c)' /\ Touch(c)'
  BY <1>1, TypesKept, HandoverKept
<1>3. InOrder' /\ \A c \in Command : Answers(c)' /\ ClearedBefore(c)'
  BY <1>1, AnswersKept, OrderKept DEF CommandInv
<1> QED  BY <1>2, <1>3 DEF CommandInv, HandoverInv

\* The invariant of the queue of durable messages holds in every state, for
\* every number of commands, sessions and mishaps.
THEOREM Invariance == Spec => []CommandInv
<1>1. Init => CommandInv
  BY InitInv
<1>2. CommandInv /\ [Next]_vars => CommandInv'
  BY StepInv
<1> QED  BY <1>1, <1>2, PTL DEF Spec

-----------------------------------------------------------------------------
(* The theorems *)

\* Every variable of the message queue holds what its declaration says, however
\* many commands, sessions and mishaps there are.
THEOREM TypesCorrect == Spec => []TypeOK
<1>1. CommandInv => TypeOK
  BY DEF CommandInv, HandoverInv, TypeInv
<1> QED  BY <1>1, Invariance, PTL

\* Ambiguous work is never replayed: whatever leases lapse, answers are lost or
\* processes are replaced, a message goes to the router at most once.
THEOREM HandedOnOnce == Spec => []DispatchedOnce
<1>1. CommandInv => DispatchedOnce
  BY DEF CommandInv, HandoverInv, Handover, DispatchedOnce
<1> QED  BY <1>1, Invariance, PTL

\* A row that says its message never ran, or gives its answer, tells the truth,
\* then and later.
THEOREM AnswersTrue == Spec => []AnswerIsTrue
<1>1. ASSUME CommandInv
      PROVE  NotRunIsTrue
  BY <1>1, StatesDiffer DEF CommandInv, Answers, Untouched, NotRunIsTrue, Settled
<1>2. ASSUME CommandInv, NEW c \in Command, row[c].state \in Settled,
             row[c].error # "operator", Outcome(c) # None
      PROVE  row[c].state = Outcome(c)
  <2>1. log[c] = {Outcome(c)}
    BY <1>2, OutcomeIsLogged
  <2>2. ~Untouched(c)
    BY <1>2, <2>1 DEF CommandInv, HandoverInv, Touch, Untouched
  <2> QED  BY <1>2, <2>1, <2>2 DEF CommandInv, Answers
<1>3. CommandInv => AnswerIsTrue
  BY <1>1, <1>2 DEF AnswerIsTrue, AnswerMatchesLog
<1> QED  BY <1>3, Invariance, PTL

\* A message goes to the router only when the messages of its session that it
\* has to wait for are settled.
THEOREM DispatchInOrder == Spec => FifoDispatch
<1>1. ASSUME CommandInv, [Next]_vars
      PROVE  [\A c \in Command : emits'[c] # emits[c] =>
                \A p \in Earlier(row, c) :
                  row[c].delivery = "queue" \/ row[p].delivery = "steer"
                    => row[p].state \in Settled]_vars
  <2> SUFFICES ASSUME NEW c \in Command, emits'[c] # emits[c], NEW p \in Earlier(row, c),
                      row[c].delivery = "queue" \/ row[p].delivery = "steer"
               PROVE  row[p].state \in Settled
    OBVIOUS
  <2>1. HandedOn(c)
    BY <1>1, StepSettles DEF CommandInv, Settles, TakenOver, RowClaimed
  <2>2. row[c].owner # None
    BY <1>1, <2>1, CommandAssumption
       DEF HandedOn, Held, CommandInv, HandoverInv, TypeInv, TypeOK
  <2> QED  BY <1>1, <2>2 DEF CommandInv, ClearedBefore
<1> QED  BY <1>1, Invariance, PTL DEF Spec, FifoDispatch

\* No late output, lapse, cancellation, restart or second decision changes the
\* answer of a settled command.
THEOREM SettledForGood == Spec => SettledFinal
<1>1. ASSUME CommandInv, [Next]_vars
      PROVE  [\A c \in Command : row[c].state \in Settled => row'[c].state = row[c].state]_vars
  BY <1>1, SettledStays DEF CommandInv
<1> QED  BY <1>1, Invariance, PTL DEF Spec, SettledFinal
=============================================================================
