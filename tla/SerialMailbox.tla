---------------------------- MODULE SerialMailbox ----------------------------
(* What a routed session promises about the work it accepts: items wait in   *)
(* one queue, one at a time is in hand, and the next is always the oldest.   *)
(* Items may be withdrawn while they wait; one in hand stays in hand until   *)
(* its turn is over.                                                         *)
EXTENDS Sublists, SequencesExt

CONSTANTS Item, None

VARIABLES waiting, current

vars == <<waiting, current>>

Init == waiting = <<>> /\ current = None

\* Accept i; some of the work that waits may be withdrawn in its favour.
Accept(i) ==
  /\ i \notin Range(waiting) /\ i # current
  /\ \/ \E W \in SUBSET Range(waiting) : waiting' = Append(Without(waiting, W), i)
        /\ UNCHANGED current
     \/ /\ waiting = <<>> /\ current = None
        /\ current' = i /\ UNCHANGED waiting

Withdraw ==
  /\ \E W \in (SUBSET Range(waiting)) \ {{}} : waiting' = Without(waiting, W)
  /\ UNCHANGED current

Take ==
  /\ current = None /\ waiting # <<>>
  /\ current' = Head(waiting) /\ waiting' = Tail(waiting)

Leave == current # None /\ current' = None /\ UNCHANGED waiting

Next == (\E i \in Item : Accept(i)) \/ Withdraw \/ Take \/ Leave

Spec == Init /\ [][Next]_vars

\* No turn lasts for ever, and the oldest item is taken when none is in hand.
FairSpec == Spec /\ WF_vars(Take) /\ WF_vars(Leave)
=============================================================================
