--------------------------- MODULE FifoWithBarrier --------------------------
(***************************************************************************)
(* What a conversation's queue promises its reader: messages are served    *)
(* one at a time in the order they were sent, and one that could not be    *)
(* served holds up everything behind it until a person retries it or takes *)
(* it out.                                                                 *)
(***************************************************************************)
EXTENDS Naturals

CONSTANT Messages       \* 1 .. some bound, in the order they are sent

VARIABLE stage          \* stage[m]: how far message m has come

Stages == {"unsent", "waiting", "serving", "blocked", "gone"}

Init == stage = [m \in Messages |-> "unsent"]

Move(m, from, to) ==
    /\ stage[m] = from
    /\ stage' = [stage EXCEPT ![m] = to]

Earlier(m) == {n \in Messages : n < m}

Send(m) ==
    /\ \A n \in Earlier(m) : stage[n] # "unsent"
    /\ Move(m, "unsent", "waiting")

Serve(m) ==
    /\ \A n \in Earlier(m) : stage[n] = "gone"
    /\ Move(m, "waiting", "serving")

Next ==
    \E m \in Messages :
        \/ Send(m)
        \/ Serve(m)
        \/ Move(m, "serving", "gone") \/ Move(m, "serving", "blocked")
        \/ Move(m, "blocked", "waiting")
        \/ Move(m, "blocked", "gone") \/ Move(m, "waiting", "gone")

Spec == Init /\ [][Next]_stage
=============================================================================
