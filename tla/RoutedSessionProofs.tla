-------------------------- MODULE RoutedSessionProofs --------------------------
(* Proofs about RoutedSession for every set of messages and every bound: what *)
(* a session does with the work it accepts, whatever its adapter, its callers *)
(* and its disposal do in the meantime.                                       *)
EXTENDS RoutedSession, SequenceLemmas

-----------------------------------------------------------------------------
(* The inductive invariant *)

Turn ==
  [item : Item \cup {None},
   phase : {"none", "compact", "preflight", "capacity", "prompt", "switching", "restoring"},
   cancelled : BOOLEAN, cancelling : {"no", "abort", "settle"},
   capacityAborted : BOOLEAN, started : BOOLEAN, attempt : 0 .. Fallbacks,
   switched : BOOLEAN, pending : BOOLEAN, threw : BOOLEAN, tripped : BOOLEAN]

Reports == SUBSET {"finished", "error", "withdrawn", "interrupted"}

Typed ==
  /\ queue \in Seq(Item) /\ drain \in {"none", "running", "settled"}
  /\ turn \in Turn /\ failed \in BOOLEAN
  /\ identity \in {"none", "reading", "fork", "clone", "switch"}
  /\ native \in BOOLEAN /\ reading \in BOOLEAN /\ runningFork \in BOOLEAN
  /\ disposed \in BOOLEAN /\ disposal \in {"none", "aborting", "draining", "done"}
  /\ forced \in BOOLEAN /\ runtimeGone \in BOOLEAN
  /\ accepted \in SUBSET Item /\ outcome \in [Watched -> Reports]

\* What Ordinary(queue) counts, as a set.
Plain(S) == S \ (Reminder \cup Compact)

QueueFits ==
  /\ IsInjective(queue)
  /\ Range(queue) \subseteq accepted /\ turn.item \notin Range(queue)
  /\ Cardinality(Plain(Range(queue))) <= MaxQueue
  /\ \A r, q \in Reminder \cap Range(queue) : r = q

TurnFits ==
  /\ turn.item \in accepted \cup {None}
  /\ turn.item = None => turn = NoTurn
  /\ turn.item # None => drain = "running"
  /\ turn.phase = "none" <=> turn.item = None
  /\ turn.phase = "compact" <=> turn.item \in Compact

\* An idle session has no work, unless an identity operation holds it back.
IdentityFits ==
  /\ native => identity \in {"fork", "clone", "switch"}
  /\ identity = "reading" => reading
  /\ (identity # "none" /\ ~disposed) => turn.item = None /\ drain # "running"
  /\ (drain = "none" /\ identity = "none") => queue = <<>>

DisposalFits ==
  /\ (disposal # "none" \/ forced) <=> disposed
  /\ disposed => queue = <<>>
  /\ disposal = "done" => drain # "running"
  /\ runtimeGone => forced \/ disposal = "done"

\* Nothing is reported of what waits or was never accepted.
Unreported == \A m \in Watched : m \notin accepted \/ m \in Range(queue) => outcome[m] = {}

\* What has been reported of the message in hand tells what has happened to it.
HandReported ==
  turn.item \in Watched =>
    LET said == outcome[turn.item] IN
    /\ "finished" \notin said
    /\ "error" \in said => (failed \/ disposed) /\ turn.phase # "preflight"
    /\ failed /\ turn.phase # "preflight" => said # {}
    /\ Silent => said # {}
    /\ "withdrawn" \in said => turn.capacityAborted

SessionInv ==
  /\ Typed /\ QueueFits /\ TurnFits /\ IdentityFits /\ DisposalFits
  /\ Unreported /\ HandReported /\ FinishedXorError

-----------------------------------------------------------------------------
(* Records and reports *)

Later == {"capacity", "prompt", "switching", "restoring"}

LEMMA TurnRecords ==
  /\ NoTurn \in Turn /\ NoTurn.item = None /\ NoTurn.phase = "none"
  /\ ~NoTurn.started
  /\ \A i \in Item :
       /\ NewTurn(i) \in Turn /\ NewTurn(i).item = i
       /\ NewTurn(i).phase = IF i \in Compact THEN "compact" ELSE "preflight"
       /\ ~NewTurn(i).cancelled /\ ~NewTurn(i).capacityAborted /\ ~NewTurn(i).started
<1>1. 0 \in 0 .. Fallbacks
  BY SessionAssumption
<1> QED  BY <1>1 DEF NoTurn, NewTurn, Turn

\* Every item is a message or a compact action, never both, and None is neither.
LEMMA Items ==
  /\ None \notin Item /\ None \notin Message /\ None \notin Compact
  /\ Message \subseteq Item /\ Compact \subseteq Item
  /\ \A i \in Item : i \in Message <=> i \notin Compact
  /\ Watched \subseteq Message /\ Reminder \subseteq Message
BY SessionAssumption DEF Item

LEMMA ReportedTyped ==
  ASSUME Typed, NEW S, NEW what \in Reports, Report(S, what)
  PROVE  /\ outcome' \in [Watched -> Reports]
         /\ \A m \in Watched :
              outcome'[m] = IF m \in S THEN outcome[m] \cup what ELSE outcome[m]
         /\ what = {} \/ S \cap Watched = {} => outcome' = outcome
<1>1. \A m \in Watched :
        outcome'[m] = IF m \in S THEN outcome[m] \cup what ELSE outcome[m]
  BY DEF Report
<1>2. outcome' \in [Watched -> Reports]
  BY <1>1 DEF Report, Typed, Reports
<1>3. ASSUME what = {} \/ S \cap Watched = {}
      PROVE  outcome' = outcome
  <2>1. \A m \in Watched : outcome'[m] = outcome[m]
    BY <1>1, <1>3
  <2> QED  BY <1>2, <2>1 DEF Typed
<1> QED  BY <1>1, <1>2, <1>3

-----------------------------------------------------------------------------
(* What a step does to the item in hand *)

\* The turn is over, and `said' is the last that is reported of its message.
Ends(said) ==
  /\ TurnFrame /\ turn' = NoTurn /\ failed' = FALSE /\ Report({turn.item}, said)
  /\ turn.item \in Message /\ said \in {{}, {"error"}, {"finished"}}
  /\ said = {"finished"} => ~Silent /\ ~failed
  /\ said = {} => Silent \/ failed

CompactOver ==
  /\ TurnFrame /\ turn.item \in Compact
  /\ turn' = NoTurn /\ UNCHANGED <<failed, outcome>>

\* The item stays in hand, and `what' is reported of it.
Carries(what) ==
  /\ TurnFrame /\ Report({turn.item}, what)
  /\ what \in SUBSET {"error", "withdrawn", "interrupted"}
  /\ turn' \in Turn /\ turn'.item = turn.item /\ (turn.item = None => turn' = turn)
  /\ turn'.phase = turn.phase \/ (turn.item \in Message /\ turn'.phase \in Later)
  /\ failed' \in BOOLEAN
  /\ failed => failed' \/ turn.phase = "preflight"
  /\ failed' /\ Active' => (failed /\ Active) \/ "error" \in what
  /\ "error" \in what => failed' /\ turn.phase # "preflight" /\ turn.item \in Message
  /\ "withdrawn" \in what \/ turn.capacityAborted => turn'.capacityAborted
  /\ turn'.cancelled => turn.cancelled \/ what # {}
  /\ turn'.started => turn.started \/ ~(Silent \/ turn.capacityAborted)

TurnMoves ==
  \/ CompactOver
  \/ \E said \in Reports : Ends(said)
  \/ \E what \in Reports : Carries(what)

LEMMA EndsKeep ==
  ASSUME SessionInv, NEW said, Ends(said)
  PROVE  SessionInv'
<1> USE DEF SessionInv, Ends, TurnFrame, identityVars, disposalVars
<1>1. turn.item \in Message /\ turn.item # None /\ drain = "running"
  BY Items DEF TurnFits
<1>2. turn' = NoTurn /\ turn'.item = None /\ turn'.phase = "none" /\ turn' \in Turn
  BY TurnRecords
<1>3. said \in Reports /\ outcome' \in [Watched -> Reports]
      /\ \A m \in Watched :
           outcome'[m] = IF m = turn.item THEN outcome[m] \cup said ELSE outcome[m]
  BY ReportedTyped DEF Reports
<1>4. Typed'
  BY <1>2, <1>3 DEF Typed
<1>5. QueueFits'
  BY <1>2, Items DEF QueueFits, Typed
<1>6. TurnFits'
  BY <1>2, Items DEF TurnFits
<1>7. IdentityFits' /\ DisposalFits'
  BY <1>1, <1>2 DEF IdentityFits, DisposalFits
<1>8. Unreported'
  BY <1>1, <1>3, Items DEF Unreported, QueueFits, TurnFits, Typed
<1>9. HandReported'
  BY <1>2, Items DEF HandReported
<1>10. FinishedXorError'
  BY <1>1, <1>3 DEF FinishedXorError, HandReported, Silent
<1> QED  BY <1>4, <1>5, <1>6, <1>7, <1>8, <1>9, <1>10

LEMMA CompactOverKeeps ==
  ASSUME SessionInv, CompactOver
  PROVE  SessionInv'
<1> USE DEF SessionInv, CompactOver, TurnFrame, identityVars, disposalVars
<1>1. turn.item # None /\ drain = "running"
  BY Items DEF TurnFits
<1>2. turn' = NoTurn /\ turn'.item = None /\ turn'.phase = "none" /\ turn' \in Turn
  BY TurnRecords
<1>3. Typed'
  BY <1>2 DEF Typed
<1>4. QueueFits'
  BY <1>2, Items DEF QueueFits, Typed
<1>5. TurnFits'
  BY <1>2, Items DEF TurnFits
<1>6. IdentityFits' /\ DisposalFits'
  BY <1>1, <1>2 DEF IdentityFits, DisposalFits
<1>7. Unreported' /\ HandReported' /\ FinishedXorError'
  BY <1>2, Items DEF Unreported, HandReported, FinishedXorError
<1> QED  BY <1>3, <1>4, <1>5, <1>6, <1>7

LEMMA CarriesKeeps ==
  ASSUME SessionInv, NEW what, Carries(what)
  PROVE  SessionInv'
<1> USE DEF SessionInv, Carries, TurnFrame, identityVars, disposalVars
<1>1. what \in Reports /\ outcome' \in [Watched -> Reports]
      /\ \A m \in Watched :
           outcome'[m] = IF m = turn.item THEN outcome[m] \cup what ELSE outcome[m]
  BY ReportedTyped DEF Reports
<1>2. Typed'
  BY <1>1 DEF Typed
<1>3. QueueFits'
  BY DEF QueueFits, Typed
<1>4. TurnFits'
  BY Items DEF TurnFits, Later
<1>5. IdentityFits' /\ DisposalFits'
  BY DEF IdentityFits, DisposalFits
<1>6. Unreported'
  BY <1>1, Items DEF Unreported, QueueFits, TurnFits, Typed
<1>7. HandReported'
  <2> SUFFICES ASSUME turn.item \in Watched
               PROVE  LET said == outcome'[turn.item] IN
                      /\ "finished" \notin said
                      /\ "error" \in said => (failed' \/ disposed) /\ turn'.phase # "preflight"
                      /\ failed' /\ turn'.phase # "preflight" => said # {}
                      /\ Silent' => said # {}
                      /\ "withdrawn" \in said => turn'.capacityAborted
    BY DEF HandReported
  <2>1. outcome'[turn.item] = outcome[turn.item] \cup what /\ turn.item \in Message
    BY <1>1, Items
  <2>2. "finished" \notin outcome'[turn.item]
    BY <2>1 DEF HandReported
  <2>3. "error" \in outcome'[turn.item] => (failed' \/ disposed) /\ turn'.phase # "preflight"
    BY <2>1 DEF HandReported, Later
  <2>4. failed' /\ turn'.phase # "preflight" => outcome'[turn.item] # {}
    BY <2>1 DEF HandReported, Active, InFlight
  <2>5. Silent' => outcome'[turn.item] # {}
    BY <2>1 DEF HandReported, Silent
  <2>6. "withdrawn" \in outcome'[turn.item] => turn'.capacityAborted
    BY <2>1 DEF HandReported
  <2> QED  BY <2>2, <2>3, <2>4, <2>5, <2>6
<1>8. FinishedXorError'
  BY <1>1 DEF FinishedXorError, HandReported
<1> QED  BY <1>2, <1>3, <1>4, <1>5, <1>6, <1>7, <1>8

\* LeaveFallbacks ends the turn, or restores the primary model first.
LEMMA LeavingMoves ==
  ASSUME SessionInv, TurnFrame, turn.item \in Message, turn.phase \in Later,
         NEW threw \in BOOLEAN, NEW exhausted \in BOOLEAN, LeaveFallbacks(threw, exhausted)
  PROVE  TurnMoves
<1> USE DEF SessionInv
<1> DEFINE nowFailed == failed \/ exhausted
           said == IF exhausted /\ ~failed THEN {"error"} ELSE {}
           last == said \cup (IF Silent \/ nowFailed THEN {}
                              ELSE IF threw THEN {"error"} ELSE {"finished"})
<1>1. CASE turn.switched /\ ~disposed
  <2>1. /\ turn' = [turn EXCEPT !.phase = "restoring", !.threw = threw, !.pending = FALSE]
        /\ failed' = nowFailed /\ Report({turn.item}, said)
    BY <1>1 DEF LeaveFallbacks
  <2>2. turn' \in Turn /\ turn'.item = turn.item /\ turn'.phase = "restoring"
        /\ turn'.cancelled = turn.cancelled /\ turn'.started = turn.started
        /\ turn'.capacityAborted = turn.capacityAborted
    BY <2>1 DEF Typed, Turn
  <2>3. said \in Reports /\ Carries(said)
    BY <2>1, <2>2, Items DEF Carries, Typed, Reports, Active, InFlight, Later
  <2> QED  BY <2>3 DEF TurnMoves
<1>2. CASE ~(turn.switched /\ ~disposed)
  <2>1. turn' = NoTurn /\ failed' = FALSE /\ Report({turn.item}, last)
    BY <1>2 DEF LeaveFallbacks, Settle, EndTurn
  <2>2. last \in Reports /\ Ends(last)
    BY <2>1 DEF Ends, Reports, Typed
  <2> QED  BY <2>2 DEF TurnMoves
<1> QED  BY <1>1, <1>2

LEMMA NextModelMoves ==
  ASSUME SessionInv, TurnFrame, turn.item \in Message, turn.phase \in Later, NextModel
  PROVE  TurnMoves
<1> USE DEF SessionInv
<1>1. CASE turn.attempt < Fallbacks /\ TryModel(turn.attempt + 1)
  <2>1. turn' = [turn EXCEPT !.phase = "switching", !.attempt = turn.attempt + 1]
        /\ UNCHANGED <<failed, outcome>>
    BY <1>1 DEF TryModel
  <2>2. turn.attempt + 1 \in 0 .. Fallbacks
    BY <1>1, SessionAssumption DEF Typed, Turn
  <2>3. turn' \in Turn /\ turn'.item = turn.item /\ turn'.phase = "switching"
        /\ turn'.cancelled = turn.cancelled /\ turn'.started = turn.started
        /\ turn'.capacityAborted = turn.capacityAborted
    BY <2>1, <2>2 DEF Typed, Turn
  <2>4. Report({turn.item}, {})
    BY <2>1 DEF Report, Typed
  <2>5. {} \in Reports /\ Carries({})
    BY <2>1, <2>3, <2>4, Items DEF Carries, Typed, Reports, Active, InFlight, Later
  <2> QED  BY <2>5 DEF TurnMoves
<1>2. CASE turn.attempt = Fallbacks /\ LeaveFallbacks(FALSE, TRUE)
  BY <1>2, LeavingMoves
<1> QED  BY <1>1, <1>2 DEF NextModel

LEMMA AttemptMoves ==
  ASSUME SessionInv, TurnFrame, turn.item \in Message, turn.phase \in Later,
         NEW threw \in BOOLEAN, AttemptEnds(threw)
  PROVE  TurnMoves
BY LeavingMoves, NextModelMoves DEF AttemptEnds

\* A phase of a message's turn has the message in hand.
LEMMA PhaseHasMessage ==
  ASSUME SessionInv, turn.phase \in Later \cup {"preflight"}
  PROVE  turn.item \in Message
BY Items DEF SessionInv, Typed, Turn, TurnFits, Later

LEMMA PreflightMoves ==
  ASSUME SessionInv, PreflightPasses \/ PreflightRejects \/ PreflightThrows
  PROVE  TurnMoves
<1> USE DEF SessionInv
<1>1. turn.phase = "preflight" /\ turn.item \in Message /\ TurnFrame
  BY PhaseHasMessage DEF PreflightPasses, PreflightRejects, PreflightThrows
<1>2. CASE PreflightPasses
  <2>1. CASE Silent /\ EndTurn({})
    BY <2>1, <1>1 DEF TurnMoves, Ends, EndTurn, Reports
  <2>2. CASE ~Silent /\ turn' = [turn EXCEPT !.phase = "capacity"] /\ failed' = FALSE
             /\ UNCHANGED outcome
    <3>1. turn' \in Turn /\ turn'.item = turn.item /\ turn'.phase = "capacity"
          /\ turn'.cancelled = turn.cancelled /\ turn'.started = turn.started
          /\ turn'.capacityAborted = turn.capacityAborted
      BY <2>2 DEF Typed, Turn
    <3>2. Report({turn.item}, {})
      BY <2>2 DEF Report, Typed
    <3>3. {} \in Reports /\ Carries({})
      BY <1>1, <2>2, <3>1, <3>2, Items DEF Carries, Typed, Reports, Later
    <3> QED  BY <3>3 DEF TurnMoves
  <2> QED  BY <1>2, <2>1, <2>2 DEF PreflightPasses
<1>3. CASE PreflightRejects
  BY <1>1, <1>3 DEF PreflightRejects, TurnMoves, Ends, EndTurn, Reports
<1>4. CASE PreflightThrows
  BY <1>1, <1>4 DEF PreflightThrows, TurnMoves, Ends, EndTurn, Reports
<1> QED  BY <1>2, <1>3, <1>4

LEMMA TurnStepMoves ==
  ASSUME SessionInv, TurnStep
  PROVE  TurnMoves
<1> USE DEF SessionInv
<1>1. CASE PreflightPasses \/ PreflightRejects \/ PreflightThrows
  BY <1>1, PreflightMoves
<1>2. CASE CapacityGranted
  <2>1. turn.phase = "capacity" /\ turn.item \in Message /\ TurnFrame
    BY <1>2, PhaseHasMessage DEF CapacityGranted, Later
  <2>2. CASE Silent /\ AttemptEnds(FALSE)
    BY <2>1, <2>2, AttemptMoves DEF Later
  <2>3. CASE ~Silent /\ turn' = [turn EXCEPT !.phase = "prompt", !.started = TRUE]
             /\ UNCHANGED <<failed, outcome>>
    <3>1. turn' \in Turn /\ turn'.item = turn.item /\ turn'.phase = "prompt"
          /\ turn'.cancelled = turn.cancelled
          /\ turn'.capacityAborted = turn.capacityAborted
      BY <2>3 DEF Typed, Turn
    <3>2. Report({turn.item}, {})
      BY <2>3 DEF Report, Typed
    <3>3. ~(Silent \/ turn.capacityAborted)
      BY <1>2, <2>3 DEF CapacityGranted
    <3>4. {} \in Reports /\ Carries({})
      BY <2>1, <2>3, <3>1, <3>2, <3>3, Items DEF Carries, Typed, Reports, Active, InFlight, Later
    <3> QED  BY <3>4 DEF TurnMoves
  <2> QED  BY <1>2, <2>2, <2>3 DEF CapacityGranted
<1>3. CASE CapacityRefused
  <2>1. turn.phase = "capacity" /\ turn.item \in Message /\ TurnFrame /\ AttemptEnds(TRUE)
    BY <1>3, PhaseHasMessage DEF CapacityRefused, Later
  <2> QED  BY <2>1, AttemptMoves DEF Later
<1>4. ASSUME NEW threw \in BOOLEAN, PromptEnds(threw) PROVE TurnMoves
  <2>1. turn.phase = "prompt" /\ turn.item \in Message /\ TurnFrame /\ AttemptEnds(threw)
    BY <1>4, PhaseHasMessage DEF PromptEnds, Later
  <2> QED  BY <2>1, AttemptMoves DEF Later
<1>5. CASE SwitchSucceeds
  <2>1. turn.phase = "switching" /\ turn.item \in Message /\ TurnFrame
        /\ turn' = [turn EXCEPT !.phase = "capacity", !.switched = TRUE, !.pending = FALSE]
        /\ UNCHANGED <<failed, outcome>>
    BY <1>5, PhaseHasMessage DEF SwitchSucceeds, Later
  <2>2. turn' \in Turn /\ turn'.item = turn.item /\ turn'.phase = "capacity"
        /\ turn'.cancelled = turn.cancelled /\ turn'.started = turn.started
        /\ turn'.capacityAborted = turn.capacityAborted
    BY <2>1 DEF Typed, Turn
  <2>3. Report({turn.item}, {})
    BY <2>1 DEF Report, Typed
  <2>4. {} \in Reports /\ Carries({})
    BY <2>1, <2>2, <2>3, Items DEF Carries, Typed, Reports, Active, InFlight, Later
  <2> QED  BY <2>4 DEF TurnMoves
<1>6. CASE SwitchFails
  <2>1. turn.phase = "switching" /\ turn.item \in Message /\ TurnFrame
    BY <1>6, PhaseHasMessage DEF SwitchFails, Later
  <2> QED  BY <1>6, <2>1, LeavingMoves, NextModelMoves DEF SwitchFails, Later
<1>7. CASE PrimaryRestored
  <2>1. turn.phase = "restoring" /\ turn.item \in Message /\ TurnFrame
    BY <1>7, PhaseHasMessage DEF PrimaryRestored, Later
  <2> DEFINE last == IF Silent \/ failed THEN {}
                     ELSE IF turn.threw THEN {"error"} ELSE {"finished"}
  <2>2. turn' = NoTurn /\ failed' = FALSE /\ Report({turn.item}, last)
    BY <1>7 DEF PrimaryRestored, Settle, EndTurn
  <2>3. last \in Reports /\ Ends(last)
    BY <2>1, <2>2 DEF Ends, Reports
  <2> QED  BY <2>3 DEF TurnMoves
<1>8. CASE CompactEnds
  <2>1. turn.item \in Compact
    BY <1>8 DEF CompactEnds, TurnFits
  <2> QED  BY <1>8, <2>1 DEF CompactEnds, TurnMoves, CompactOver
<1> QED  BY <1>1, <1>2, <1>3, <1>4, <1>5, <1>6, <1>7, <1>8 DEF TurnStep

LEMMA FailureMoves ==
  ASSUME SessionInv, NEW eligible \in BOOLEAN, RuntimeFailure(eligible)
  PROVE  TurnMoves
<1> USE DEF SessionInv
<1> DEFINE suppressed == Fallbacks > 0 /\ turn.phase \in {"capacity", "prompt", "switching"}
<1>1. TurnFrame
  BY DEF RuntimeFailure
<1>2. CASE eligible /\ suppressed /\ turn' = [turn EXCEPT !.pending = TRUE]
           /\ UNCHANGED <<failed, outcome>>
  <2>1. turn.item \in Message
    BY <1>2, PhaseHasMessage DEF Later
  <2>2. turn' \in Turn /\ turn'.item = turn.item /\ turn'.phase = turn.phase
        /\ turn'.cancelled = turn.cancelled /\ turn'.started = turn.started
        /\ turn'.capacityAborted = turn.capacityAborted
    BY <1>2 DEF Typed, Turn
  <2>3. Report({turn.item}, {})
    BY <1>2 DEF Report, Typed
  <2>4. {} \in Reports /\ Carries({})
    BY <1>1, <1>2, <2>1, <2>2, <2>3, Items DEF Carries, Typed, Reports, Active, InFlight
  <2> QED  BY <2>4 DEF TurnMoves
<1>3. CASE ~failed /\ failed' = TRUE /\ UNCHANGED turn
           /\ Report(IF Active THEN {turn.item} ELSE {}, {"error"})
  <2>1. CASE Active
    <3>1. Report({turn.item}, {"error"}) /\ turn.item # None /\ turn.phase # "preflight"
          /\ turn.item \in Message
      BY <1>3, <2>1, Items DEF Active, InFlight
    <3>2. {"error"} \in Reports /\ Carries({"error"})
      BY <1>1, <1>3, <3>1 DEF Carries, Typed, Reports
    <3> QED  BY <3>2 DEF TurnMoves
  <2>2. CASE ~Active
    <3>1. Report({}, {"error"})
      BY <1>3, <2>2
    <3>2. Report({turn.item}, {})
      BY <3>1 DEF Report
    <3>3. {} \in Reports /\ Carries({})
      BY <1>1, <1>3, <2>2, <3>2 DEF Carries, Typed, Reports, Active, InFlight
    <3> QED  BY <3>3 DEF TurnMoves
  <2> QED  BY <2>1, <2>2
<1> QED  BY <1>2, <1>3 DEF RuntimeFailure

LEMMA GuardMoves ==
  ASSUME SessionInv, GuardTrips
  PROVE  TurnMoves
<1> USE DEF SessionInv
<1>1. TurnFrame /\ Active /\ turn' = [turn EXCEPT !.tripped = TRUE]
      /\ failed' = TRUE /\ Report({turn.item}, {"error"})
  BY DEF GuardTrips
<1>2. turn' \in Turn /\ turn'.item = turn.item /\ turn'.phase = turn.phase
      /\ turn'.cancelled = turn.cancelled /\ turn'.started = turn.started
      /\ turn'.capacityAborted = turn.capacityAborted
  BY <1>1 DEF Typed, Turn
<1>3. {"error"} \in Reports /\ Carries({"error"})
  BY <1>1, <1>2, Items DEF Carries, Typed, Reports, Active, InFlight
<1> QED  BY <1>3 DEF TurnMoves

LEMMA AbortSettlesMoves ==
  ASSUME SessionInv, AbortSettles
  PROVE  TurnMoves
<1> USE DEF SessionInv
<1>1. /\ turn.cancelling = "abort" /\ UNCHANGED <<queue, outcome>> /\ CancelFrame
      /\ \/ turn' = [turn EXCEPT !.cancelling = "settle"]
         \/ turn' = [turn EXCEPT !.cancelling = "no", !.cancelled = FALSE]
  BY DEF AbortSettles
<1>2. turn.item # None
  BY <1>1 DEF TurnFits, NoTurn, NewTurn
<1>3. turn' \in Turn /\ turn'.item = turn.item /\ turn'.phase = turn.phase
      /\ (turn'.cancelled => turn.cancelled) /\ turn'.started = turn.started
      /\ turn'.capacityAborted = turn.capacityAborted
  BY <1>1 DEF Typed, Turn
<1>4. Report({turn.item}, {}) /\ TurnFrame /\ UNCHANGED failed
  BY <1>1 DEF Report, Typed, CancelFrame, TurnFrame
<1>5. {} \in Reports /\ Carries({})
  BY <1>2, <1>3, <1>4 DEF Carries, Typed, Reports, Active, InFlight
<1> QED  BY <1>5 DEF TurnMoves

LEMMA CancelInFlightMoves ==
  ASSUME SessionInv, CancelInFlight, CancelFrame
  PROVE  TurnMoves
<1> USE DEF SessionInv
<1>1. /\ InFlight /\ turn.cancelling = "no" /\ UNCHANGED queue
      /\ turn' = [turn EXCEPT !.cancelled = TRUE, !.capacityAborted = TRUE,
                              !.cancelling = IF Active THEN "abort" ELSE "settle"]
      /\ Report({turn.item}, {"withdrawn"})
  BY DEF CancelInFlight
<1>2. turn' \in Turn /\ turn'.item = turn.item /\ turn'.phase = turn.phase
      /\ turn'.started = turn.started /\ turn'.capacityAborted
  BY <1>1 DEF Typed, Turn
<1>3. TurnFrame /\ UNCHANGED failed
  BY <1>1 DEF CancelFrame, TurnFrame
<1>4. {"withdrawn"} \in Reports /\ Carries({"withdrawn"})
  BY <1>1, <1>2, <1>3, Items DEF Carries, Typed, Reports, Active, InFlight
<1> QED  BY <1>4 DEF TurnMoves

LEMMA AbortMoves ==
  ASSUME SessionInv, Abort
  PROVE  TurnMoves
<1> USE DEF SessionInv
<1>1. CASE CancelInFlight /\ CancelFrame
  BY <1>1, CancelInFlightMoves
<1>2. CASE Active /\ Report({turn.item}, {"interrupted"}) /\ UNCHANGED <<queue, turn>> /\ CancelFrame
  <2>1. TurnFrame /\ UNCHANGED failed
    BY <1>2 DEF CancelFrame, TurnFrame
  <2>2. {"interrupted"} \in Reports /\ Carries({"interrupted"})
    BY <1>2, <2>1 DEF Carries, Typed, Reports, Active
  <2> QED  BY <2>2 DEF TurnMoves
<1> QED  BY <1>1, <1>2 DEF Abort

-----------------------------------------------------------------------------
(* What a step does to the queue *)

\* Some of what waits is dropped, and each message of it is reported; kill()
\* reports what is in hand, too.
Drops(S, T, what) ==
  /\ CancelFrame /\ UNCHANGED turn
  /\ queue' = Without(queue, S) /\ S \subseteq Range(queue)
  /\ Report(T, what) /\ what \in {{"withdrawn"}, {"interrupted"}}
  /\ S \cap Message \subseteq T /\ T \subseteq S \cup {turn.item}
  /\ what = {"withdrawn"} => T \subseteq S

QueueDrops ==
  \E S \in SUBSET Item, T \in SUBSET Item, what \in Reports : Drops(S, T, what)

LEMMA QueueItems ==
  ASSUME Typed
  PROVE  queue \in Seq(Item) /\ Range(queue) \subseteq Item
BY DEF Typed, Range

LEMMA PlainFinite ==
  ASSUME Typed, QueueFits, NEW S, S \subseteq Range(queue)
  PROVE  /\ IsFiniteSet(Plain(S)) /\ Cardinality(Plain(S)) \in Nat
         /\ Cardinality(Plain(S)) <= Cardinality(Plain(Range(queue)))
<1>1. IsFiniteSet(Range(queue))
  BY QueueItems, LengthIsCount DEF QueueFits
<1>2. IsFiniteSet(Plain(Range(queue))) /\ Plain(S) \subseteq Plain(Range(queue))
  BY <1>1, FS_Subset DEF Plain
<1> QED  BY <1>2, FS_Subset, FS_CardinalityType

LEMMA RemoveQueuedDrops ==
  ASSUME SessionInv, NEW S \in SUBSET Item, RemoveQueued(S)
  PROVE  QueueDrops
<1> DEFINE W == S \cap Range(queue)
<1>1. queue' = Without(queue, W)
  BY QueueItems, WithoutSame DEF RemoveQueued, SessionInv
<1>2. Report(W, {"withdrawn"}) /\ CancelFrame /\ UNCHANGED turn
  BY DEF RemoveQueued, CancelFrame
<1> HIDE DEF W
<1>3. W \subseteq Range(queue) /\ W \in SUBSET Item
  BY DEF W
<1>4. Drops(W, W, {"withdrawn"}) /\ {"withdrawn"} \in Reports
  BY <1>1, <1>2, <1>3 DEF Drops, Reports
<1> QED  BY <1>3, <1>4 DEF QueueDrops

LEMMA RefuseDrops ==
  ASSUME SessionInv, NEW m \in Message, RefuseReminder(m)
  PROVE  QueueDrops
<1>1. Coalesced(m) \subseteq Range(queue) /\ Coalesced(m) \in SUBSET Item
  BY Items DEF Coalesced
<1>2. CancelFrame /\ UNCHANGED turn /\ queue' = Without(queue, Coalesced(m))
      /\ Report(Coalesced(m), {"withdrawn"})
  BY DEF RefuseReminder, CancelFrame
<1>3. Drops(Coalesced(m), Coalesced(m), {"withdrawn"}) /\ {"withdrawn"} \in Reports
  BY <1>1, <1>2 DEF Drops, Reports
<1> QED  BY <1>1, <1>3 DEF QueueDrops

LEMMA CancelDrops ==
  ASSUME SessionInv, NEW i \in Item, Cancel(i)
  PROVE  QueueDrops \/ TurnMoves
<1>1. CASE i \in Range(queue) /\ queue' = Without(queue, {i}) /\ UNCHANGED turn
           /\ Report({i}, {"withdrawn"}) /\ CancelFrame
  <2>1. Drops({i}, {i}, {"withdrawn"}) /\ {"withdrawn"} \in Reports
    BY <1>1 DEF Drops, Reports
  <2> QED  BY <2>1 DEF QueueDrops
<1>2. CASE CancelInFlight /\ CancelFrame
  BY <1>2, CancelInFlightMoves
<1> QED  BY <1>1, <1>2 DEF Cancel

LEMMA KillDrops ==
  ASSUME SessionInv, Kill
  PROVE  QueueDrops
<1>1. queue' = Without(queue, Range(queue))
  BY QueueItems, WithoutAll DEF Kill, SessionInv
<1>2. Range(queue) \in SUBSET Item /\ ActiveAndQueued \in SUBSET Item
  BY QueueItems, Items DEF SessionInv, ActiveAndQueued
<1>3. Range(queue) \cap Message \subseteq ActiveAndQueued
      /\ ActiveAndQueued \subseteq Range(queue) \cup {turn.item}
  BY DEF ActiveAndQueued
<1>4. CancelFrame /\ UNCHANGED turn /\ Report(ActiveAndQueued, {"interrupted"})
  BY DEF Kill, CancelFrame
<1>5. Drops(Range(queue), ActiveAndQueued, {"interrupted"}) /\ {"interrupted"} \in Reports
  BY <1>1, <1>3, <1>4 DEF Drops, Reports
<1> QED  BY <1>2, <1>5 DEF QueueDrops

\* A shorter queue is as good, whatever is withdrawn from it.
LEMMA DropsKeep ==
  ASSUME SessionInv, NEW S, NEW T, NEW what \in Reports, Drops(S, T, what)
  PROVE  SessionInv'
<1> USE DEF SessionInv, Drops, CancelFrame, identityVars, disposalVars
<1>1. queue \in Seq(Item) /\ Range(queue) \subseteq Item /\ IsInjective(queue)
  BY QueueItems DEF QueueFits
<1>2. queue' \in Seq(Item) /\ IsInjective(queue') /\ Range(queue') = Range(queue) \ S
  BY <1>1, WithoutRange
<1>3. queue = <<>> => queue' = <<>>
  BY WithoutEmpty
<1>4. /\ outcome' \in [Watched -> Reports]
      /\ \A m \in Watched :
           outcome'[m] = IF m \in T THEN outcome[m] \cup what ELSE outcome[m]
  BY ReportedTyped
<1>5. Typed'
  BY <1>2, <1>4 DEF Typed
<1>6. QueueFits'
  <2>1. Cardinality(Plain(Range(queue'))) <= MaxQueue
    <3>1. Range(queue') \subseteq Range(queue)
      BY <1>2
    <3>2. Cardinality(Plain(Range(queue'))) <= Cardinality(Plain(Range(queue)))
          /\ Cardinality(Plain(Range(queue'))) \in Nat
          /\ Cardinality(Plain(Range(queue))) \in Nat
      BY <3>1, PlainFinite
    <3> QED  BY <3>2, SessionAssumption DEF QueueFits
  <2> QED  BY <1>2, <2>1 DEF QueueFits
<1>7. TurnFits'
  BY DEF TurnFits
<1>8. IdentityFits' /\ DisposalFits'
  BY <1>3 DEF IdentityFits, DisposalFits
<1>9. Unreported'
  BY <1>1, <1>2, <1>4, Items DEF Unreported, QueueFits, TurnFits
<1>10. HandReported'
  BY <1>1, <1>4 DEF HandReported, QueueFits, Silent
<1>11. FinishedXorError'
  BY <1>4 DEF FinishedXorError
<1> QED  BY <1>5, <1>6, <1>7, <1>8, <1>9, <1>10, <1>11

\* The oldest item is taken, and no identity operation is in flight any more.
Takes ==
  /\ queue # <<>> /\ ~disposed /\ turn.item = None
  /\ turn' = NewTurn(Head(queue)) /\ queue' = Tail(queue) /\ drain' = "running"
  /\ identity' = "none" /\ native' = FALSE
  /\ reading' \in BOOLEAN /\ runningFork' \in BOOLEAN
  /\ UNCHANGED <<failed, disposalVars, history>>

LEMMA TakesKeeps ==
  ASSUME SessionInv, Takes
  PROVE  SessionInv'
<1> USE DEF SessionInv, Takes, disposalVars, history
<1>1. queue \in Seq(Item) /\ Range(queue) \subseteq Item /\ IsInjective(queue)
  BY QueueItems DEF QueueFits
<1> DEFINE i == Head(queue)
<1>2. /\ i \in Range(queue) /\ queue' \in Seq(Item) /\ IsInjective(queue')
      /\ Range(queue') = Range(queue) \ {i}
  BY <1>1, TailRange
<1> HIDE DEF i
<1>3. turn' = NewTurn(i) /\ i \in Item
  BY <1>1, <1>2 DEF i
<1>4. /\ turn' \in Turn /\ turn'.item = i
      /\ turn'.phase = IF i \in Compact THEN "compact" ELSE "preflight"
      /\ ~turn'.cancelled /\ ~turn'.capacityAborted
  BY <1>3, TurnRecords
<1>5. Typed'
  BY <1>2, <1>4 DEF Typed
<1>6. QueueFits'
  <2>1. Range(queue') \subseteq Range(queue)
    BY <1>2
  <2>2. Cardinality(Plain(Range(queue'))) <= Cardinality(Plain(Range(queue)))
        /\ Cardinality(Plain(Range(queue'))) \in Nat
        /\ Cardinality(Plain(Range(queue))) \in Nat
    BY <2>1, PlainFinite
  <2>3. Cardinality(Plain(Range(queue'))) <= MaxQueue
    BY <2>2, SessionAssumption DEF QueueFits
  <2> QED  BY <1>2, <1>4, <2>3 DEF QueueFits
<1>7. TurnFits'
  BY <1>2, <1>3, <1>4, Items DEF TurnFits, QueueFits
<1>8. IdentityFits' /\ DisposalFits'
  BY DEF IdentityFits, DisposalFits, Typed
<1>9. Unreported'
  BY <1>2 DEF Unreported
<1>10. HandReported'
  <2> SUFFICES ASSUME i \in Watched PROVE outcome[i] = {} /\ turn'.phase = "preflight"
    BY <1>4 DEF HandReported, Silent
  <2> QED  BY <1>2, <1>3, <1>4, Items DEF Unreported
<1>11. FinishedXorError'
  BY DEF FinishedXorError
<1> QED  BY <1>5, <1>6, <1>7, <1>8, <1>9, <1>10, <1>11

\* An item in hand has a turn, so where there is no turn there is none in hand.
LEMMA NoTurnNoItem ==
  ASSUME TurnFits
  PROVE  turn = NoTurn <=> turn.item = None
BY TurnRecords DEF TurnFits

\* startDrain() when an identity operation has ended: it takes the oldest item,
\* or leaves the queue alone.
LEMMA StartDrainAgain ==
  ASSUME SessionInv, StartDrain(queue, FALSE)
  PROVE  \/ /\ queue # <<>> /\ ~disposed /\ turn.item = None
            /\ turn' = NewTurn(Head(queue)) /\ queue' = Tail(queue) /\ drain' = "running"
         \/ /\ UNCHANGED <<queue, turn>> /\ drain' \in {"running", "settled"}
            /\ drain' = "running" => drain = "running"
<1>1. drain = "none" => turn.item = None
  BY DEF SessionInv, TurnFits
<1> QED  BY <1>1 DEF StartDrain, SessionInv, Typed

\* The drain, the identity operation and the disposal move, and nothing of what
\* is waiting or in hand does.
Bookkeeping ==
  /\ UNCHANGED <<queue, turn, failed, disposed, accepted, outcome>>
  /\ drain' \in {"none", "running", "settled"} /\ (turn.item # None => drain' = "running")
  /\ identity' \in {"none", "reading", "fork", "clone", "switch"}
  /\ native' \in BOOLEAN /\ reading' \in BOOLEAN /\ runningFork' \in BOOLEAN
  /\ disposal' \in {"none", "aborting", "draining", "done"}
  /\ forced' \in BOOLEAN /\ runtimeGone' \in BOOLEAN

LEMMA BookkeepingKeeps ==
  ASSUME SessionInv, Bookkeeping, IdentityFits', DisposalFits'
  PROVE  SessionInv'
<1> USE DEF SessionInv, Bookkeeping
<1>1. Typed'
  BY DEF Typed
<1>2. QueueFits' /\ TurnFits' /\ Unreported' /\ FinishedXorError'
  BY DEF QueueFits, TurnFits, Unreported, FinishedXorError
<1>3. HandReported'
  BY DEF HandReported, Silent
<1> QED  BY <1>1, <1>2, <1>3

LEMMA DrainKeeps ==
  ASSUME SessionInv, DrainStep
  PROVE  SessionInv' /\ (Takes \/ UNCHANGED <<queue, turn, failed, history>>)
<1> USE DEF SessionInv
<1>1. CASE NextTurn /\ queue # <<>> /\ ~disposed
  <2>1. turn.item = None /\ drain = "running"
    BY <1>1, NoTurnNoItem DEF NextTurn
  <2>2. identity = "none" /\ native = FALSE
    BY <1>1, <2>1 DEF IdentityFits, Typed
  <2>3. Takes
    BY <1>1, <2>1, <2>2 DEF NextTurn, Takes, identityVars, Typed
  <2> QED  BY <2>3, TakesKeeps
<1>2. CASE NextTurn /\ ~(queue # <<>> /\ ~disposed)
  <2>1. /\ turn.item = None /\ drain = "running" /\ drain' = "settled"
        /\ UNCHANGED <<queue, turn, failed, identityVars, disposalVars, history>>
    BY <1>2, NoTurnNoItem DEF NextTurn
  <2>2. IdentityFits' /\ DisposalFits'
    BY <2>1 DEF IdentityFits, DisposalFits, identityVars, disposalVars
  <2>3. Bookkeeping
    BY <2>1 DEF Bookkeeping, Typed, identityVars, disposalVars, history
  <2> QED  BY <2>1, <2>2, <2>3, BookkeepingKeeps
<1>3. CASE DrainSettled /\ queue # <<>> /\ ~disposed /\ identity = "none"
  <2>1. turn.item = None /\ native = FALSE
    BY <1>3 DEF DrainSettled, TurnFits, IdentityFits, Typed
  <2>2. Takes
    BY <1>3, <2>1 DEF DrainSettled, Takes, identityVars, Typed
  <2> QED  BY <2>2, TakesKeeps
<1>4. CASE DrainSettled /\ ~(queue # <<>> /\ ~disposed /\ identity = "none")
  <2>1. /\ drain = "settled" /\ drain' = "none" /\ turn.item = None
        /\ UNCHANGED <<queue, turn, failed, identityVars, disposalVars, history>>
    BY <1>4 DEF DrainSettled, TurnFits
  <2>2. IdentityFits' /\ DisposalFits'
    BY <1>4, <2>1 DEF IdentityFits, DisposalFits, identityVars, disposalVars
  <2>3. Bookkeeping
    BY <2>1 DEF Bookkeeping, Typed, identityVars, disposalVars, history
  <2> QED  BY <2>1, <2>2, <2>3, BookkeepingKeeps
<1> QED  BY <1>1, <1>2, <1>3, <1>4 DEF DrainStep

-----------------------------------------------------------------------------
(* Identity operations *)

LEMMA IdentityRequestKeeps ==
  ASSUME SessionInv, IdentityRequest
  PROVE  SessionInv'
<1> USE DEF SessionInv
<1>1. /\ UNCHANGED <<queue, drain, turn, native, failed, disposalVars, history>>
      /\ identity' \in {"none", "reading", "fork", "clone", "switch"}
      /\ reading' \in BOOLEAN /\ runningFork' \in BOOLEAN
  BY DEF IdentityRequest, BeginIdentity, BeginRunningFork, BeginReading, IdentityFrame, Typed
<1>2. identity' # identity =>
        /\ identity = "none" /\ WorkIdle /\ ~disposed
        /\ identity' = "reading" => reading'
  BY DEF IdentityRequest, BeginIdentity, BeginRunningFork, BeginReading
<1>3. reading' = reading \/ reading'
  BY DEF IdentityRequest, BeginIdentity, BeginRunningFork, BeginReading
<1>4. IdentityFits'
  BY <1>1, <1>2, <1>3 DEF IdentityFits, WorkIdle, Busy, TurnFits, disposalVars, Typed
<1>5. DisposalFits'
  BY <1>1 DEF DisposalFits, disposalVars
<1>6. Bookkeeping
  BY <1>1, <1>4 DEF Bookkeeping, Typed, TurnFits, disposalVars, history
<1> QED  BY <1>1, <1>4, <1>5, <1>6, BookkeepingKeeps

LEMMA IdentityStepKeeps ==
  ASSUME SessionInv, IdentityStep
  PROVE  SessionInv' /\ (Takes \/ UNCHANGED <<queue, turn, failed, history>>)
<1> USE DEF SessionInv
<1>1. CASE BeginNative
  <2>1. /\ UNCHANGED <<queue, drain, turn, identity, reading, runningFork>>
        /\ native' = TRUE /\ identity \in {"fork", "clone", "switch"}
        /\ UNCHANGED <<failed, disposalVars, history>>
    BY <1>1 DEF BeginNative, IdentityFrame
  <2>2. IdentityFits' /\ DisposalFits'
    BY <2>1 DEF IdentityFits, DisposalFits, disposalVars
  <2>3. Bookkeeping
    BY <2>1 DEF Bookkeeping, Typed, TurnFits, disposalVars, history
  <2> QED  BY <2>1, <2>2, <2>3, BookkeepingKeeps
<1>2. CASE EndIdentity
  <2>1. /\ identity \in {"fork", "clone", "switch"} /\ identity' = "none" /\ native' = FALSE
        /\ StartDrain(queue, FALSE) /\ UNCHANGED <<reading, runningFork>>
        /\ UNCHANGED <<failed, disposalVars, history>>
    BY <1>2 DEF EndIdentity, IdentityFrame
  <2>2. CASE /\ queue # <<>> /\ ~disposed /\ turn.item = None
             /\ turn' = NewTurn(Head(queue)) /\ queue' = Tail(queue) /\ drain' = "running"
    <3>1. Takes
      BY <2>1, <2>2 DEF Takes, Typed
    <3> QED  BY <3>1, TakesKeeps
  <2>3. CASE /\ UNCHANGED <<queue, turn>> /\ drain' \in {"running", "settled"}
             /\ drain' = "running" => drain = "running"
    <3>1. turn.item # None => drain' = "running"
      BY <2>1, <2>3 DEF StartDrain, TurnFits
    <3>2. IdentityFits' /\ DisposalFits'
      BY <2>1, <2>3 DEF IdentityFits, DisposalFits, disposalVars
    <3>3. Bookkeeping
      BY <2>1, <2>3, <3>1 DEF Bookkeeping, Typed, disposalVars, history
    <3> QED  BY <2>1, <2>3, <3>2, <3>3, BookkeepingKeeps
  <2> QED  BY <2>1, <2>2, <2>3, StartDrainAgain
<1>3. CASE EndRunningFork
  <2>1. /\ UNCHANGED <<queue, drain, turn, identity, native, reading>> /\ runningFork' = FALSE
        /\ UNCHANGED <<failed, disposalVars, history>>
    BY <1>3 DEF EndRunningFork, IdentityFrame
  <2>2. IdentityFits' /\ DisposalFits'
    BY <2>1 DEF IdentityFits, DisposalFits, disposalVars
  <2>3. Bookkeeping
    BY <2>1 DEF Bookkeeping, Typed, TurnFits, disposalVars, history
  <2> QED  BY <2>1, <2>2, <2>3, BookkeepingKeeps
<1>4. CASE EndReading /\ identity = "reading"
  <2>1. /\ reading' = FALSE /\ identity' = "none" /\ native' = FALSE
        /\ StartDrain(queue, FALSE) /\ UNCHANGED runningFork
        /\ UNCHANGED <<failed, disposalVars, history>>
    BY <1>4 DEF EndReading, IdentityFrame, IdentityFits, Typed
  <2>2. CASE /\ queue # <<>> /\ ~disposed /\ turn.item = None
             /\ turn' = NewTurn(Head(queue)) /\ queue' = Tail(queue) /\ drain' = "running"
    <3>1. Takes
      BY <2>1, <2>2 DEF Takes, Typed
    <3> QED  BY <3>1, TakesKeeps
  <2>3. CASE /\ UNCHANGED <<queue, turn>> /\ drain' \in {"running", "settled"}
             /\ drain' = "running" => drain = "running"
    <3>1. turn.item # None => drain' = "running"
      BY <2>1, <2>3 DEF StartDrain, TurnFits
    <3>2. IdentityFits' /\ DisposalFits'
      BY <2>1, <2>3 DEF IdentityFits, DisposalFits, disposalVars
    <3>3. Bookkeeping
      BY <2>1, <2>3, <3>1 DEF Bookkeeping, Typed, disposalVars, history
    <3> QED  BY <2>1, <2>3, <3>2, <3>3, BookkeepingKeeps
  <2> QED  BY <2>1, <2>2, <2>3, StartDrainAgain
<1>5. CASE EndReading /\ identity # "reading"
  <2>1. /\ UNCHANGED <<queue, drain, turn, identity, native, runningFork>> /\ reading' = FALSE
        /\ UNCHANGED <<failed, disposalVars, history>>
    BY <1>5 DEF EndReading, IdentityFrame
  <2>2. IdentityFits' /\ DisposalFits'
    BY <1>5, <2>1 DEF IdentityFits, DisposalFits, disposalVars
  <2>3. Bookkeeping
    BY <2>1 DEF Bookkeeping, Typed, TurnFits, disposalVars, history
  <2> QED  BY <2>1, <2>2, <2>3, BookkeepingKeeps
<1> QED  BY <1>1, <1>2, <1>3, <1>4, <1>5 DEF IdentityStep

-----------------------------------------------------------------------------
(* Admission *)

\* What enqueueing i leaves, with S dropped in its favour.  A session that can
\* start its drain at once had nothing waiting.
Admits(i, S) ==
  /\ i \in Item /\ i \notin accepted /\ ~disposed /\ S \subseteq Range(queue)
  /\ accepted' = accepted \cup {i} /\ Report(S, {"withdrawn"})
  /\ UNCHANGED <<failed, identityVars, disposalVars>>
  /\ \/ /\ queue' = Append(Without(queue, S), i) /\ UNCHANGED <<drain, turn>>
        /\ identity # "none" \/ drain # "none"
     \/ /\ queue = <<>> /\ queue' = <<>> /\ identity = "none" /\ drain = "none"
        /\ drain' = "running" /\ turn' = NewTurn(i)

LEMMA DrainAdmits ==
  ASSUME SessionInv, NEW i \in Item, i \notin accepted, ~disposed,
         NEW S, S \subseteq Range(queue), S \subseteq Message,
         accepted' = accepted \cup {i}, Report(S, {"withdrawn"}),
         UNCHANGED <<failed, identityVars, disposalVars>>,
         StartDrain(Append(Without(queue, S), i), identity # "none")
  PROVE  Admits(i, S)
<1> DEFINE q == Append(Without(queue, S), i)
<1>1. Without(queue, S) \in Seq(Item) /\ q # <<>>
  BY QueueItems, WithoutRange, AppendProperties DEF SessionInv
<1>2. CASE (identity # "none" \/ drain # "none") /\ queue' = q /\ UNCHANGED <<drain, turn>>
  BY <1>2 DEF Admits
<1>3. CASE /\ identity = "none" /\ drain = "none" /\ q # <<>>
           /\ queue' = Tail(q) /\ drain' = "running" /\ turn' = NewTurn(Head(q))
  <2>1. queue = <<>>
    BY <1>3 DEF SessionInv, IdentityFits
  <2>2. Without(queue, S) = <<>> /\ <<>> \in Seq(Item)
    BY <2>1, <1>1, WithoutEmpty
  <2>3. q = <<i>> /\ Tail(q) = <<>> /\ Head(q) = i
    BY <2>2
  <2> HIDE DEF q
  <2> QED  BY <1>3, <2>1, <2>3 DEF Admits
<1> QED  BY <1>1, <1>2, <1>3 DEF StartDrain

LEMMA EnqueueAdmits ==
  ASSUME SessionInv, NEW m \in Message, Enqueue(m)
  PROVE  Admits(m, Coalesced(m)) /\ Len(Ordinary(queue)) < MaxQueue
<1>1. m \in Item /\ Coalesced(m) \subseteq Range(queue) /\ Coalesced(m) \subseteq Message
  BY Items DEF Coalesced
<1> QED  BY <1>1, DrainAdmits DEF Enqueue, Open

LEMMA EnqueueCompactAdmits ==
  ASSUME SessionInv, NEW c \in Compact, EnqueueCompact(c)
  PROVE  Admits(c, {})
<1>1. c \in Item /\ Without(queue, {}) = queue
  BY Items, QueueItems, WithoutNone DEF SessionInv
<1>2. Report({}, {"withdrawn"})
  BY DEF EnqueueCompact, Report, SessionInv, Typed
<1> QED  BY <1>1, <1>2, DrainAdmits DEF EnqueueCompact

\* Ordinary(queue).length is the number of plain messages that wait.
LEMMA OrdinaryCounts ==
  ASSUME SessionInv
  PROVE  /\ Len(Ordinary(queue)) = Cardinality(Plain(Range(queue)))
         /\ Len(Ordinary(queue)) \in Nat
<1>1. queue \in Seq(Item) /\ IsInjective(queue)
  BY DEF SessionInv, Typed, QueueFits
<1>2. /\ Ordinary(queue) \in Seq(Item) /\ IsInjective(Ordinary(queue))
      /\ Range(Ordinary(queue)) = Plain(Range(queue))
  BY <1>1, WithoutRange DEF Ordinary, Plain
<1> QED  BY <1>2, LengthIsCount

LEMMA AdmitsKeeps ==
  ASSUME SessionInv, NEW i, NEW S, Admits(i, S),
         i \in Message => S = Coalesced(i) /\ Len(Ordinary(queue)) < MaxQueue
  PROVE  SessionInv'
<1> USE DEF SessionInv, Admits, identityVars, disposalVars
<1>1. queue \in Seq(Item) /\ IsInjective(queue) /\ Range(queue) \subseteq Item
  BY QueueItems DEF QueueFits
<1>2. i \notin Range(queue) /\ i # turn.item /\ i # None /\ i \in Item
  BY Items DEF QueueFits, TurnFits
<1>3. /\ outcome' \in [Watched -> Reports]
      /\ \A m \in Watched :
           outcome'[m] = IF m \in S THEN outcome[m] \cup {"withdrawn"} ELSE outcome[m]
  BY ReportedTyped DEF Reports
<1>4. CASE /\ queue' = Append(Without(queue, S), i) /\ UNCHANGED <<drain, turn>>
           /\ identity # "none" \/ drain # "none"
  <2> DEFINE q0 == Without(queue, S)
  <2>1. q0 \in Seq(Item) /\ IsInjective(q0) /\ Range(q0) = Range(queue) \ S
    BY <1>1, WithoutRange
  <2>2. i \notin Range(q0)
    BY <1>2, <2>1
  <2> HIDE DEF q0
  <2>3. /\ queue' \in Seq(Item) /\ IsInjective(queue')
        /\ Range(queue') = (Range(queue) \ S) \cup {i}
    BY <1>2, <1>4, <2>1, <2>2, AppendRange DEF q0
  <2>4. Typed'
    BY <1>2, <1>3, <1>4, <2>3 DEF Typed
  <2>5. Cardinality(Plain(Range(queue'))) <= MaxQueue
    <3>1. /\ IsFiniteSet(Plain(Range(queue) \ S))
          /\ Cardinality(Plain(Range(queue) \ S)) \in Nat
          /\ Cardinality(Plain(Range(queue) \ S)) <= Cardinality(Plain(Range(queue)))
          /\ Cardinality(Plain(Range(queue))) \in Nat
          /\ Cardinality(Plain(Range(queue))) <= MaxQueue
      BY PlainFinite DEF QueueFits
    <3>2. CASE i \in Reminder \cup Compact
      <4>1. Plain(Range(queue')) = Plain(Range(queue) \ S)
        BY <2>3, <3>2 DEF Plain
      <4> QED  BY <3>1, <4>1, SessionAssumption
    <3>3. CASE i \notin Reminder \cup Compact
      <4>1. i \in Message /\ Cardinality(Plain(Range(queue))) < MaxQueue
        BY <1>2, <3>3, Items, OrdinaryCounts
      <4>2. Plain(Range(queue')) = Plain(Range(queue) \ S) \cup {i}
            /\ i \notin Plain(Range(queue) \ S)
        BY <1>2, <2>3, <3>3 DEF Plain
      <4>3. Cardinality(Plain(Range(queue'))) = Cardinality(Plain(Range(queue) \ S)) + 1
        BY <3>1, <4>2, FS_AddElement
      <4> QED  BY <3>1, <4>1, <4>3, SessionAssumption
    <3> QED  BY <3>2, <3>3
  <2>6. \A r, q \in Reminder \cap Range(queue') : r = q
    <3>1. CASE i \in Reminder
      <4>1. S = Reminder \cap Range(queue)
        BY <3>1, Items DEF Coalesced
      <4>2. Reminder \cap Range(queue') = {i}
        BY <2>3, <3>1, <4>1
      <4> QED  BY <4>2
    <3>2. CASE i \notin Reminder
      BY <2>3, <3>2 DEF QueueFits
    <3> QED  BY <3>1, <3>2
  <2>7. QueueFits'
    BY <1>2, <1>4, <2>3, <2>5, <2>6 DEF QueueFits
  <2>8. TurnFits' /\ IdentityFits' /\ DisposalFits'
    BY <1>4 DEF TurnFits, IdentityFits, DisposalFits
  <2>9. Unreported'
    BY <1>2, <1>3, <2>3, <1>4 DEF Unreported, QueueFits
  <2>10. HandReported'
    BY <1>3, <1>4 DEF HandReported, QueueFits, Silent
  <2>11. FinishedXorError'
    BY <1>3 DEF FinishedXorError
  <2> QED  BY <2>4, <2>7, <2>8, <2>9, <2>10, <2>11
<1>5. CASE /\ queue = <<>> /\ queue' = <<>> /\ identity = "none" /\ drain = "none"
           /\ drain' = "running" /\ turn' = NewTurn(i)
  <2>1. /\ turn' \in Turn /\ turn'.item = i
        /\ turn'.phase = IF i \in Compact THEN "compact" ELSE "preflight"
        /\ ~turn'.cancelled /\ ~turn'.capacityAborted
    BY <1>2, <1>5, TurnRecords
  <2>2. Typed'
    BY <1>2, <1>3, <1>5, <2>1 DEF Typed
  <2>3. Range(queue') = {} /\ Range(queue) = {}
    BY <1>5 DEF Range
  <2>4. QueueFits'
    BY <1>5, <2>3 DEF QueueFits
  <2>5. TurnFits'
    BY <1>2, <1>5, <2>1, Items DEF TurnFits
  <2>6. IdentityFits' /\ DisposalFits'
    BY <1>5 DEF IdentityFits, DisposalFits
  <2>7. S = {} /\ outcome' = outcome
    BY <2>3, ReportedTyped DEF Reports
  <2>8. Unreported' /\ FinishedXorError'
    BY <2>3, <2>7 DEF Unreported, FinishedXorError
  <2>9. HandReported'
    <3> SUFFICES ASSUME i \in Watched PROVE outcome[i] = {} /\ turn'.phase = "preflight"
      BY <2>1, <2>7 DEF HandReported, Silent
    <3> QED  BY <2>1, <2>3, Items DEF Unreported
  <2> QED  BY <2>2, <2>4, <2>5, <2>6, <2>8, <2>9
<1> QED  BY <1>4, <1>5

-----------------------------------------------------------------------------
(* Disposal *)

LEMMA TransitionKeeps ==
  ASSUME SessionInv, ~disposed, Transition, DisposeFrame,
         disposal' \in {"none", "aborting"}, forced' \in BOOLEAN, runtimeGone' \in BOOLEAN,
         disposal' = "aborting" \/ forced', runtimeGone' => forced'
  PROVE  SessionInv'
<1> USE DEF SessionInv, DisposeFrame, identityVars
<1>1. /\ queue' = <<>> /\ disposed' = TRUE /\ Range(queue') = {} /\ queue' \in Seq(Item)
      /\ IsInjective(queue')
  BY DEF Transition, Range, IsInjective
<1>2. /\ turn' \in Turn /\ turn'.item = turn.item /\ turn'.phase = turn.phase
      /\ (turn.item \notin Message => turn' = turn)
      /\ (turn.item \in Message \/ turn.capacityAborted => turn'.capacityAborted)
  BY DEF Transition, InFlight, Typed, Turn
<1>3. \A m \in Watched :
        outcome'[m] = outcome[m]
          \cup (IF m \in ActiveAndQueued THEN {"withdrawn"} ELSE {})
          \cup (IF Active /\ m = turn.item THEN {"error"} ELSE {})
  BY DEF Transition
<1>4. outcome' \in [Watched -> Reports]
  BY <1>3 DEF Transition, Typed, Reports
<1>5. Typed'
  BY <1>1, <1>2, <1>4 DEF Typed
<1>6. QueueFits'
  <2>1. Plain(Range(queue')) = {}
    BY <1>1 DEF Plain
  <2>2. Cardinality(Plain(Range(queue'))) <= MaxQueue
    BY <2>1, FS_EmptySet, SessionAssumption
  <2> QED  BY <1>1, <2>2 DEF QueueFits
<1>7. TurnFits'
  BY <1>2, Items DEF TurnFits
<1>8. IdentityFits' /\ DisposalFits'
  BY <1>1 DEF IdentityFits, DisposalFits
<1>9. Unreported'
  <2> SUFFICES ASSUME NEW m \in Watched, m \notin accepted
               PROVE  outcome'[m] = {}
    BY <1>1 DEF Unreported
  <2>1. m \notin Range(queue) /\ m # turn.item
    BY Items DEF QueueFits, TurnFits
  <2> QED  BY <1>3, <2>1 DEF Unreported, ActiveAndQueued
<1>10. HandReported'
  <2> SUFFICES ASSUME turn.item \in Watched
               PROVE  /\ "finished" \notin outcome'[turn.item]
                      /\ "error" \in outcome'[turn.item] => turn'.phase # "preflight"
                      /\ outcome'[turn.item] # {} /\ turn'.capacityAborted
    BY <1>1, <1>2 DEF HandReported
  <2>1. turn.item \in ActiveAndQueued /\ turn.item \in Message
    BY Items DEF ActiveAndQueued
  <2>2. "withdrawn" \in outcome'[turn.item]
    BY <1>3, <2>1
  <2>3. Active <=> turn.phase # "preflight"
    BY <2>1 DEF Active, InFlight
  <2>4. "finished" \notin outcome'[turn.item]
    BY <1>3 DEF HandReported
  <2>5. "error" \in outcome'[turn.item] => turn'.phase # "preflight"
    BY <1>2, <1>3, <2>3 DEF HandReported
  <2> QED  BY <1>2, <2>1, <2>2, <2>4, <2>5
<1>11. FinishedXorError'
  <2> SUFFICES ASSUME NEW m \in Watched, "finished" \in outcome'[m], "error" \in outcome'[m]
               PROVE  FALSE
    BY DEF FinishedXorError
  <2>1. CASE m = turn.item
    BY <1>3, <2>1 DEF HandReported
  <2>2. CASE m # turn.item
    BY <1>3, <2>2 DEF FinishedXorError
  <2> QED  BY <2>1, <2>2
<1> QED  BY <1>5, <1>6, <1>7, <1>8, <1>9, <1>10, <1>11

LEMMA DisposalKeeps ==
  ASSUME SessionInv, Dispose \/ ForceDispose \/ DisposeStep
  PROVE  SessionInv'
<1> USE DEF SessionInv
<1>1. CASE Dispose
  <2>1. ~disposed /\ Transition /\ disposal' = "aborting" /\ UNCHANGED <<forced, runtimeGone>>
        /\ DisposeFrame
    BY <1>1 DEF Dispose
  <2>2. ~forced /\ ~runtimeGone
    BY <2>1 DEF DisposalFits
  <2> QED  BY <2>1, <2>2, TransitionKeeps DEF Typed
<1>2. CASE ForceDispose /\ ~disposed
  <2>1. Transition /\ forced' = TRUE /\ runtimeGone' = TRUE /\ UNCHANGED disposal /\ DisposeFrame
    BY <1>2 DEF ForceDispose
  <2>2. disposal = "none"
    BY <1>2 DEF DisposalFits, Typed
  <2> QED  BY <1>2, <2>1, <2>2, TransitionKeeps
<1>3. CASE ForceDispose /\ disposed
  <2>1. /\ forced' = TRUE /\ runtimeGone' = TRUE
        /\ UNCHANGED <<queue, turn, outcome, disposed, disposal, drain, failed, identityVars, accepted>>
    BY <1>3 DEF ForceDispose, DisposeFrame
  <2>2. IdentityFits' /\ DisposalFits'
    BY <1>3, <2>1 DEF IdentityFits, DisposalFits, identityVars
  <2>3. Bookkeeping
    BY <2>1 DEF Bookkeeping, Typed, TurnFits, identityVars
  <2> QED  BY <2>1, <2>2, <2>3, BookkeepingKeeps
<1>4. CASE DisposeStep
  <2>1. /\ disposal \in {"aborting", "draining"} /\ disposal' \in {"draining", "done"}
        /\ disposal' = "done" => drain # "running"
        /\ (runtimeGone' = TRUE /\ disposal' = "done") \/ UNCHANGED runtimeGone
        /\ UNCHANGED <<queue, turn, outcome, disposed, forced, drain, failed, identityVars, accepted>>
    BY <1>4 DEF DisposeStep, DisposeAborted, DisposeDrained, DisposeFrame
  <2>2. IdentityFits' /\ DisposalFits'
    BY <2>1 DEF IdentityFits, DisposalFits, identityVars
  <2>3. Bookkeeping
    BY <2>1 DEF Bookkeeping, Typed, TurnFits, identityVars
  <2> QED  BY <2>1, <2>2, <2>3, BookkeepingKeeps
<1> QED  BY <1>1, <1>2, <1>3, <1>4

-----------------------------------------------------------------------------
(* Every step is one of a few *)

StepShape ==
  \/ TurnMoves \/ QueueDrops \/ Takes
  \/ \E i \in Item, S \in SUBSET Item : Admits(i, S)
  \/ ~disposed /\ Transition /\ DisposeFrame
  \/ UNCHANGED <<queue, turn, failed, history>>

LEMMA StepShapes ==
  ASSUME SessionInv, [Next]_vars
  PROVE  SessionInv' /\ StepShape
<1>1. ASSUME NEW m \in Message, Enqueue(m) PROVE SessionInv' /\ StepShape
  <2>1. Admits(m, Coalesced(m)) /\ Len(Ordinary(queue)) < MaxQueue
    BY <1>1, EnqueueAdmits
  <2>2. m \in Item /\ Coalesced(m) \in SUBSET Item
    BY Items DEF Coalesced
  <2> QED  BY <2>1, <2>2, AdmitsKeeps DEF StepShape
<1>2. ASSUME NEW m \in Message, RefuseReminder(m) PROVE SessionInv' /\ StepShape
  BY <1>2, RefuseDrops, DropsKeep DEF QueueDrops, StepShape
<1>3. ASSUME NEW c \in Compact, EnqueueCompact(c) PROVE SessionInv' /\ StepShape
  <2>1. Admits(c, {}) /\ c \in Item /\ c \notin Message
    BY <1>3, EnqueueCompactAdmits, Items
  <2> QED  BY <2>1, AdmitsKeeps DEF StepShape
<1>4. CASE TurnMoves
  BY <1>4, EndsKeep, CompactOverKeeps, CarriesKeeps DEF TurnMoves, StepShape
<1>5. CASE QueueDrops
  BY <1>5, DropsKeep DEF QueueDrops, StepShape
<1>6. CASE TurnStep
  BY <1>4, <1>6, TurnStepMoves
<1>7. CASE DrainStep
  BY <1>7, DrainKeeps DEF StepShape
<1>8. CASE Interference
  <2>1. ASSUME NEW eligible \in BOOLEAN, RuntimeFailure(eligible) PROVE TurnMoves
    BY <2>1, FailureMoves
  <2>2. CASE GuardTrips
    BY <1>4, <2>2, GuardMoves
  <2>3. CASE AbortSettles
    BY <1>4, <2>3, AbortSettlesMoves
  <2>4. CASE Abort
    BY <1>4, <2>4, AbortMoves
  <2>5. CASE Kill
    BY <1>5, <2>5, KillDrops
  <2>6. ASSUME NEW i \in Item, Cancel(i) PROVE QueueDrops \/ TurnMoves
    BY <2>6, CancelDrops
  <2>7. ASSUME NEW S \in SUBSET Item, RemoveQueued(S) PROVE QueueDrops
    BY <2>7, RemoveQueuedDrops
  <2> QED  BY <1>4, <1>5, <1>8, <2>1, <2>2, <2>3, <2>4, <2>5, <2>6, <2>7 DEF Interference
<1>9. CASE IdentityStep
  BY <1>9, IdentityStepKeeps DEF StepShape
<1>10. CASE IdentityRequest
  <2>1. UNCHANGED <<queue, turn, failed, history>>
    BY <1>10 DEF IdentityRequest, BeginIdentity, BeginRunningFork, BeginReading, IdentityFrame, history
  <2> QED  BY <1>10, <2>1, IdentityRequestKeeps DEF StepShape
<1>11. CASE Dispose \/ ForceDispose \/ DisposeStep
  <2>1. (~disposed /\ Transition /\ DisposeFrame) \/ UNCHANGED <<queue, turn, failed, history>>
    BY <1>11 DEF Dispose, ForceDispose, DisposeStep, DisposeAborted, DisposeDrained,
                 DisposeFrame, history
  <2> QED  BY <1>11, <2>1, DisposalKeeps DEF StepShape
<1>12. CASE UNCHANGED vars
  <2>1. /\ UNCHANGED <<queue, drain, turn, failed>>
        /\ UNCHANGED <<identity, native, reading, runningFork>>
        /\ UNCHANGED <<disposed, disposal, forced, runtimeGone, accepted, outcome>>
    BY <1>12 DEF vars, mailVars, identityVars, disposalVars, history
  <2>2. IdentityFits' /\ DisposalFits'
    BY <2>1 DEF SessionInv, IdentityFits, DisposalFits
  <2>3. SessionInv'
    BY <2>1, <2>2, BookkeepingKeeps DEF Bookkeeping, SessionInv, Typed, TurnFits
  <2> QED  BY <2>1, <2>3 DEF StepShape, history
<1> QED  BY <1>1, <1>2, <1>3, <1>6, <1>7, <1>8, <1>9, <1>10, <1>11, <1>12 DEF Next, Admission

LEMMA InitHolds == Init => SessionInv
<1> SUFFICES ASSUME Init PROVE SessionInv
  OBVIOUS
<1>1. /\ turn \in Turn /\ turn.item = None /\ turn.phase = "none"
      /\ queue \in Seq(Item) /\ Range(queue) = {} /\ IsInjective(queue)
  BY TurnRecords DEF Init, Range, IsInjective
<1>2. Typed
  BY <1>1 DEF Init, Typed, Reports
<1>3. QueueFits
  <2>1. Plain(Range(queue)) = {}
    BY <1>1 DEF Plain
  <2>2. Cardinality(Plain(Range(queue))) <= MaxQueue
    BY <2>1, FS_EmptySet, SessionAssumption
  <2> QED  BY <1>1, <2>2 DEF QueueFits
<1>4. TurnFits
  BY <1>1, Items DEF Init, TurnFits
<1>5. IdentityFits /\ DisposalFits
  BY DEF Init, IdentityFits, DisposalFits
<1>6. Unreported /\ HandReported /\ FinishedXorError
  BY <1>1, Items DEF Init, Unreported, HandReported, FinishedXorError
<1> QED  BY <1>2, <1>3, <1>4, <1>5, <1>6 DEF SessionInv

-----------------------------------------------------------------------------
(* What holds in every session *)

\* The invariant of the session holds in every state it can reach, however its
\* handlers mix with the awaits of its turn.
THEOREM Invariance == Spec => []SessionInv
<1>1. SessionInv /\ [Next]_vars => SessionInv'
  BY StepShapes
<1> QED  BY InitHolds, <1>1, PTL DEF Spec

\* Every variable has its type; MAX messages wait at most and one reminder.
THEOREM TypeCorrect == Spec => []TypeOK
<1>1. SessionInv => TypeOK
  <2> SUFFICES ASSUME SessionInv PROVE TypeOK
    OBVIOUS
  <2>1. Len(Ordinary(queue)) <= MaxQueue
    BY OrdinaryCounts DEF SessionInv, QueueFits
  <2>2. Cardinality(Reminder \cap Range(queue)) <= 1
    <3>1. CASE Reminder \cap Range(queue) = {}
      BY <3>1, FS_EmptySet
    <3>2. ASSUME NEW r \in Reminder \cap Range(queue)
          PROVE  Cardinality(Reminder \cap Range(queue)) <= 1
      <4>1. Reminder \cap Range(queue) = {r}
        BY DEF SessionInv, QueueFits
      <4> QED  BY <4>1, FS_Singleton
    <3> QED  BY <3>1, <3>2
  <2>3. turn # NoTurn => drain = "running"
    BY NoTurnNoItem DEF SessionInv, TurnFits
  <2>4. /\ turn.item \in Item \cup {None} /\ turn.attempt \in 0 .. Fallbacks
        /\ turn.cancelling \in {"no", "abort", "settle"}
    BY DEF SessionInv, Typed, Turn
  <2>5. /\ native => identity \in {"fork", "clone", "switch"}
        /\ identity = "reading" => reading
        /\ (disposal # "none" \/ forced) <=> disposed
    BY DEF SessionInv, IdentityFits, DisposalFits
  <2>6. /\ queue \in Seq(Item) /\ drain \in {"none", "running", "settled"}
        /\ identity \in {"none", "reading", "fork", "clone", "switch"}
        /\ accepted \subseteq Item /\ outcome \in [Watched -> Reports] /\ IsInjective(queue)
    BY DEF SessionInv, Typed, QueueFits
  <2> QED  BY <2>1, <2>2, <2>3, <2>4, <2>5, <2>6 DEF TypeOK, Reports
<1> QED  BY Invariance, <1>1, PTL

\* A message is finished or failed, never both.
THEOREM OneVerdict == Spec => []FinishedXorError
<1>1. SessionInv => FinishedXorError
  BY DEF SessionInv
<1> QED  BY Invariance, <1>1, PTL

\* No identity operation and no orderly disposal touches a running turn.
THEOREM TurnsUndisturbed == Spec => []TurnUndisturbed
<1>1. SessionInv => TurnUndisturbed
  <2> SUFFICES ASSUME SessionInv PROVE TurnUndisturbed
    OBVIOUS
  <2>1. IdentityExcludesTurns
    BY NoTurnNoItem DEF SessionInv, IdentityFits, IdentityExcludesTurns
  <2>2. RuntimeOutlivesTurn
    BY NoTurnNoItem DEF SessionInv, DisposalFits, TurnFits, RuntimeOutlivesTurn
  <2> QED  BY <2>1, <2>2 DEF TurnUndisturbed
<1> QED  BY Invariance, <1>1, PTL

-----------------------------------------------------------------------------
(* Nothing is dropped in silence *)

\* The message m, in the session or accepted by this step, is still there after
\* it, has been reported of, or is the one exception.
Accounted(m) ==
  \/ m \in ActiveAndQueued' \/ outcome'[m] # {}
  \/ m = turn.item /\ turn.phase = "preflight" /\ failed

LEMMA LeavingStep ==
  ASSUME SessionInv, [Next]_vars,
         NEW m \in Watched, m \in ActiveAndQueued \/ m \in accepted' \ accepted
  PROVE  Accounted(m)
<1> USE DEF Accounted
<1>1. StepShape /\ m \in Item /\ m \in Message /\ m \notin Compact
  BY StepShapes, Items
<1>2. m \in ActiveAndQueued => m \in Range(queue) \/ m = turn.item
  BY DEF ActiveAndQueued
<1>3. m \in Range(queue') \/ m = turn'.item => m \in ActiveAndQueued'
  BY <1>1 DEF ActiveAndQueued
<1>4. ASSUME NEW said \in Reports, Ends(said) PROVE Accounted(m)
  <2>1. outcome'[m] = IF m = turn.item THEN outcome[m] \cup said ELSE outcome[m]
    BY <1>4, ReportedTyped DEF SessionInv, Ends
  <2>2. UNCHANGED <<queue, accepted>>
    BY <1>4 DEF Ends, TurnFrame
  <2>3. m = turn.item => outcome'[m] # {} \/ (turn.phase = "preflight" /\ failed)
    BY <1>4, <2>1 DEF SessionInv, HandReported, Ends
  <2> QED  BY <1>2, <1>3, <2>2, <2>3
<1>5. CASE CompactOver
  <2>1. turn.item # m /\ UNCHANGED <<queue, accepted>>
    BY <1>1, <1>5 DEF CompactOver, TurnFrame
  <2> QED  BY <1>2, <1>3, <2>1
<1>6. ASSUME NEW what \in Reports, Carries(what) PROVE Accounted(m)
  <2>1. UNCHANGED <<queue, accepted>> /\ turn'.item = turn.item
    BY <1>6 DEF Carries, TurnFrame
  <2> QED  BY <1>2, <1>3, <2>1
<1>7. ASSUME NEW S \in SUBSET Item, NEW T \in SUBSET Item, NEW what \in Reports, Drops(S, T, what)
      PROVE  Accounted(m)
  <2>1. outcome'[m] = IF m \in T THEN outcome[m] \cup what ELSE outcome[m]
    BY <1>7, ReportedTyped DEF SessionInv, Drops
  <2>2. Range(queue') = Range(queue) \ S
    BY <1>7, QueueItems, WithoutRange DEF Drops, SessionInv
  <2>3. UNCHANGED <<turn, accepted>> /\ S \cap Message \subseteq T /\ what # {}
    BY <1>7 DEF Drops, CancelFrame
  <2> QED  BY <1>1, <1>2, <1>3, <2>1, <2>2, <2>3
<1>8. CASE Takes
  <2>1. queue \in Seq(Item) /\ queue # <<>> /\ IsInjective(queue)
    BY <1>8 DEF Takes, SessionInv, Typed, QueueFits
  <2>2. turn'.item = Head(queue) /\ Range(queue') = Range(queue) \ {Head(queue)}
    BY <1>8, <2>1, TailRange, QueueItems, TurnRecords DEF Takes, SessionInv
  <2>3. turn.item = None /\ UNCHANGED accepted /\ m # None
    BY <1>1, <1>8, Items DEF Takes, history
  <2> QED  BY <1>2, <1>3, <2>2, <2>3
<1>9. ASSUME NEW i \in Item, NEW S \in SUBSET Item, Admits(i, S)
      PROVE  Accounted(m)
  <2>1. outcome'[m] = IF m \in S THEN outcome[m] \cup {"withdrawn"} ELSE outcome[m]
    BY <1>9, ReportedTyped DEF SessionInv, Admits, Reports
  <2>2. accepted' = accepted \cup {i}
    BY <1>9 DEF Admits
  <2>3. CASE queue' = Append(Without(queue, S), i) /\ UNCHANGED turn
    <3>1. Range(queue') = (Range(queue) \ S) \cup {i}
      BY <2>3, QueueItems, WithoutRange, AppendKeepsRange DEF SessionInv
    <3> QED  BY <1>2, <1>3, <2>1, <2>2, <2>3, <3>1
  <2>4. CASE queue = <<>> /\ queue' = <<>> /\ drain = "none" /\ turn' = NewTurn(i)
    <3>1. turn.item = None /\ turn'.item = i /\ Range(queue) = {} /\ m # None
      BY <1>1, <2>4, TurnRecords, Items DEF SessionInv, TurnFits, Range
    <3> QED  BY <1>2, <1>3, <2>2, <3>1
  <2> QED  BY <1>9, <2>3, <2>4 DEF Admits
<1>10. CASE Transition /\ DisposeFrame
  <2>1. m \in ActiveAndQueued => "withdrawn" \in outcome'[m]
    BY <1>10 DEF Transition
  <2>2. UNCHANGED accepted
    BY <1>10 DEF DisposeFrame
  <2> QED  BY <2>1, <2>2
<1>11. CASE UNCHANGED <<queue, turn, failed, history>>
  BY <1>2, <1>3, <1>11 DEF history
<1> QED  BY <1>1, <1>4, <1>5, <1>6, <1>7, <1>8, <1>9, <1>10, <1>11
            DEF StepShape, TurnMoves, QueueDrops

\* A message is in the session from its acceptance on, and whenever one leaves,
\* something has been reported of it, unless its preflight ends while the flag of
\* a failure of no active message is up: whatever the adapter reports, and when.
THEOREM MessagesAnswered == Spec => LeavesAnswered
<1>1. ASSUME SessionInv, [Next]_vars
      PROVE  [\A m \in Watched \cap (ActiveAndQueued \cup (accepted' \ accepted)) :
                \/ m \in ActiveAndQueued' \/ outcome'[m] # {}
                \/ m = turn.item /\ turn.phase = "preflight" /\ failed]_vars
  BY <1>1, LeavingStep DEF Accounted
<1> QED  BY Invariance, <1>1, PTL DEF Spec, LeavesAnswered

-----------------------------------------------------------------------------
(* What a step may not do *)

LEMMA StartsAndFinishes ==
  ASSUME SessionInv, [Next]_vars
  PROVE  /\ turn'.started /\ ~turn.started => ~(Silent \/ turn.capacityAborted)
         /\ disposed => \A m \in Watched :
              "finished" \in outcome'[m] => "finished" \in outcome[m]
<1>1. StepShape
  BY StepShapes
<1>2. ASSUME NEW said \in Reports, Ends(said)
      PROVE  ~turn'.started /\ (disposed => \A m \in Watched :
               "finished" \in outcome'[m] => "finished" \in outcome[m])
  <2>1. \A m \in Watched :
          outcome'[m] = IF m = turn.item THEN outcome[m] \cup said ELSE outcome[m]
    BY <1>2, ReportedTyped DEF SessionInv, Ends
  <2>2. ~turn'.started /\ (disposed => "finished" \notin said)
    BY <1>2, TurnRecords DEF Ends, Silent
  <2> QED  BY <2>1, <2>2
<1>3. CASE CompactOver
  BY <1>3, TurnRecords DEF CompactOver
<1>4. ASSUME NEW what \in Reports, Carries(what)
      PROVE  /\ turn'.started /\ ~turn.started => ~(Silent \/ turn.capacityAborted)
             /\ \A m \in Watched : "finished" \in outcome'[m] => "finished" \in outcome[m]
  <2>0. Typed /\ Report({turn.item}, what)
    BY <1>4 DEF SessionInv, Carries
  <2>1. \A m \in Watched :
          outcome'[m] = IF m = turn.item THEN outcome[m] \cup what ELSE outcome[m]
    BY <2>0, ReportedTyped
  <2>2. /\ "finished" \notin what
        /\ turn'.started => turn.started \/ ~(Silent \/ turn.capacityAborted)
    BY <1>4 DEF Carries
  <2> QED  BY <2>1, <2>2
<1>5. ASSUME NEW S \in SUBSET Item, NEW T \in SUBSET Item, NEW what \in Reports, Drops(S, T, what)
      PROVE  /\ UNCHANGED turn
             /\ \A m \in Watched : "finished" \in outcome'[m] => "finished" \in outcome[m]
  <2>1. \A m \in Watched :
          outcome'[m] = IF m \in T THEN outcome[m] \cup what ELSE outcome[m]
    BY <1>5, ReportedTyped DEF SessionInv, Drops
  <2>2. UNCHANGED turn /\ "finished" \notin what
    BY <1>5 DEF Drops
  <2> QED  BY <2>1, <2>2
<1>6. CASE Takes
  <2>1. Head(queue) \in Item
    BY <1>6, QueueItems, HeadTailProperties DEF Takes, SessionInv
  <2> QED  BY <1>6, <2>1, TurnRecords DEF Takes
<1>7. ASSUME NEW i \in Item, NEW S \in SUBSET Item, Admits(i, S)
      PROVE  ~disposed /\ (UNCHANGED turn \/ ~turn'.started)
  BY <1>7, TurnRecords DEF Admits
<1>8. CASE ~disposed /\ Transition
  BY <1>8 DEF Transition, SessionInv, Typed, Turn
<1>9. CASE UNCHANGED <<queue, turn, failed, history>>
  BY <1>9 DEF history
<1> QED  BY <1>1, <1>2, <1>3, <1>4, <1>5, <1>6, <1>7, <1>8, <1>9
            DEF StepShape, TurnMoves, QueueDrops, Takes, disposalVars, history

\* A message withdrawn before it started never starts.
THEOREM WithdrawnStaysOut == Spec => WithdrawnNeverStarts
<1> DEFINE Step == (turn'.started /\ ~turn.started /\ turn.item \in Watched)
                      => "withdrawn" \notin outcome[turn.item]
<1>1. SessionInv /\ [Next]_vars => Step
  BY StartsAndFinishes DEF SessionInv, HandReported
<1>2. WithdrawnNeverStarts <=> [][Step]_vars
  BY DEF WithdrawnNeverStarts
<1> HIDE DEF Step
<1> QED  BY Invariance, <1>1, <1>2, PTL DEF Spec

\* A disposed session starts and finishes nothing.
THEOREM DisposedSilence == Spec => DisposedStaysSilent
<1> DEFINE Step == disposed =>
                     /\ ~(turn'.started /\ ~turn.started)
                     /\ \A m \in Watched : "finished" \in outcome'[m] => "finished" \in outcome[m]
<1>1. SessionInv /\ [Next]_vars => Step
  BY StartsAndFinishes DEF Silent
<1>2. DisposedStaysSilent <=> [][Step]_vars
  BY DEF DisposedStaysSilent
<1> HIDE DEF Step
<1> QED  BY Invariance, <1>1, <1>2, PTL DEF Spec

-----------------------------------------------------------------------------
(* The session is a serial mailbox *)

LEMMA SameFilter ==
  ASSUME NEW s, NEW D
  PROVE  Mailbox!Without(s, D) = Without(s, D) /\ Mailbox!Range(s) = Range(s)
BY DEF Mailbox!Without, Mailbox!Filtered, Without, Filtered, Mailbox!Range, Range

LEMMA StepIsMailboxStep ==
  ASSUME SessionInv, [Next]_vars
  PROVE  [Mailbox!Next]_(Mailbox!vars)
<1> USE DEF Mailbox!vars
<1>1. StepShape
  BY StepShapes
<1>2. queue \in Seq(Item)
  BY DEF SessionInv, Typed
<1>3. CASE TurnMoves
  <2>1. UNCHANGED queue
    BY <1>3 DEF TurnMoves, Ends, CompactOver, Carries, TurnFrame
  <2>2. ASSUME NEW said, Ends(said) PROVE turn.item # None /\ turn'.item = None
    BY <2>2, Items, TurnRecords DEF Ends
  <2>3. CompactOver => turn.item # None /\ turn'.item = None
    BY Items, TurnRecords DEF CompactOver
  <2>4. ASSUME NEW what, Carries(what) PROVE turn'.item = turn.item
    BY <2>4 DEF Carries
  <2> QED  BY <1>3, <2>1, <2>2, <2>3, <2>4 DEF TurnMoves, Mailbox!Next, Mailbox!Leave
<1>4. ASSUME NEW S \in SUBSET Item, NEW T \in SUBSET Item, NEW what \in Reports, Drops(S, T, what)
      PROVE  [Mailbox!Next]_(Mailbox!vars)
  <2>1. queue' = Without(queue, S) /\ S \subseteq Range(queue) /\ UNCHANGED turn
    BY <1>4 DEF Drops
  <2>2. CASE S = {}
    BY <1>2, <2>1, <2>2, WithoutNone
  <2>3. CASE S # {}
    <3>1. S \in (SUBSET Mailbox!Range(queue)) \ {{}} /\ queue' = Mailbox!Without(queue, S)
      BY <2>1, <2>3, SameFilter
    <3> QED  BY <2>1, <3>1 DEF Mailbox!Next, Mailbox!Withdraw
  <2> QED  BY <2>2, <2>3
<1>5. CASE Takes
  <2>1. Head(queue) \in Item
    BY <1>2, <1>5, HeadTailProperties DEF Takes
  <2>2. turn.item = None /\ queue # <<>> /\ turn'.item = Head(queue) /\ queue' = Tail(queue)
    BY <1>5, <2>1, TurnRecords DEF Takes
  <2> QED  BY <2>2 DEF Mailbox!Next, Mailbox!Take
<1>6. ASSUME NEW i \in Item, NEW S \in SUBSET Item, Admits(i, S)
      PROVE  [Mailbox!Next]_(Mailbox!vars)
  <2>1. i \notin Range(queue) /\ i # turn.item /\ S \subseteq Range(queue)
    BY <1>6, Items DEF Admits, SessionInv, QueueFits, TurnFits
  <2>2. CASE queue' = Append(Without(queue, S), i) /\ UNCHANGED turn
    <3>1. queue' = Append(Mailbox!Without(queue, S), i) /\ S \in SUBSET Mailbox!Range(queue)
          /\ i \notin Mailbox!Range(queue)
      BY <2>1, <2>2, SameFilter
    <3> QED  BY <2>1, <2>2, <3>1 DEF Mailbox!Next, Mailbox!Accept
  <2>3. CASE queue = <<>> /\ queue' = <<>> /\ drain = "none" /\ turn' = NewTurn(i)
    <3>1. turn.item = None /\ turn'.item = i /\ i \notin Mailbox!Range(queue)
      BY <2>1, <2>3, SameFilter, TurnRecords DEF SessionInv, TurnFits
    <3> QED  BY <2>1, <2>3, <3>1 DEF Mailbox!Next, Mailbox!Accept
  <2> QED  BY <1>6, <2>2, <2>3 DEF Admits
<1>7. CASE Transition
  <2>1. queue' = Without(queue, Range(queue)) /\ turn'.item = turn.item
    BY <1>2, <1>7, WithoutAll DEF Transition, SessionInv, Typed, Turn
  <2>2. CASE queue = <<>>
    BY <1>7, <2>1, <2>2 DEF Transition
  <2>3. CASE queue # <<>>
    <3>1. Head(queue) \in Range(queue)
      BY <1>2, <2>3, TailKeepsRange
    <3>2. Range(queue) \in (SUBSET Mailbox!Range(queue)) \ {{}}
          /\ queue' = Mailbox!Without(queue, Range(queue))
      BY <2>1, <3>1, SameFilter
    <3> QED  BY <2>1, <3>2 DEF Mailbox!Next, Mailbox!Withdraw
  <2> QED  BY <2>2, <2>3
<1>8. CASE UNCHANGED <<queue, turn, failed, history>>
  BY <1>8
<1> QED  BY <1>1, <1>3, <1>4, <1>5, <1>6, <1>7, <1>8 DEF StepShape, QueueDrops

\* Every session behaves as a serial mailbox: one item in hand at a time, the
\* oldest next, and none lost or repeated.
THEOREM ActsAsMailbox == Spec => Mailbox!Spec
<1>1. Init => Mailbox!Init
  BY TurnRecords DEF Init, Mailbox!Init
<1>2. SessionInv /\ [Next]_vars => [Mailbox!Next]_(Mailbox!vars)
  BY StepIsMailboxStep
<1> QED  BY Invariance, <1>1, <1>2, PTL DEF Spec, Mailbox!Spec
=============================================================================
