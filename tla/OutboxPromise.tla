---------------------------- MODULE OutboxPromise ----------------------------
(***************************************************************************)
(* What the outbox promises for each event that was written, with no       *)
(* workers, batches or counters: it stays open until it is delivered or    *)
(* given up, one of the two happens, and it is final.                      *)
(***************************************************************************)
EXTENDS Naturals, Sequences

CONSTANT Bound   \* bound: events that are ever written

VARIABLE fate    \* the fate of each event, in the order they were written

Init == fate = <<>>

Publish == fate' = Append(fate, "open")

Close(i, f) == fate[i] = "open" /\ fate' = [fate EXCEPT ![i] = f]

Next == \/ Publish
        \/ \E i \in 1..Len(fate), f \in {"delivered", "given up"} : Close(i, f)

Spec == Init /\ [][Next]_fate

\* And no event stays open for ever.
EveryEventCloses ==
  \A i \in 1..Bound : (i <= Len(fate)) ~> (i <= Len(fate) /\ fate[i] # "open")
=============================================================================
