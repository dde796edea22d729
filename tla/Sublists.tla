------------------------------- MODULE Sublists -------------------------------
(* What Array.prototype.filter leaves of a queue.  It is SelectSeq with a     *)
(* set for its test, written as a recursive function because the provers      *)
(* know nothing of SelectSeq.                                                 *)
EXTENDS Integers, Sequences

\* What is left of the first n elements.
Filtered(s, D) ==
  LET left[n \in 0 .. Len(s)] ==
        IF n = 0 THEN <<>>
        ELSE IF s[n] \in D THEN left[n - 1] ELSE Append(left[n - 1], s[n])
  IN left

\* The elements of s that are not in D, in their order.
Without(s, D) == Filtered(s, D)[Len(s)]
=============================================================================
