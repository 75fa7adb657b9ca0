--------------------------- MODULE SerialAttempts ---------------------------
(***************************************************************************)
(* What the fenced lease store promises about the attempts of one run:     *)
(* they begin in order, at most one of them is open, each is closed once   *)
(* and for good, and the right to write the run is given with the opening  *)
(* of an attempt and withdrawn no later than its replacement.              *)
(***************************************************************************)
EXTENDS Naturals

CONSTANT Attempts       \* 1 .. n, in the order of their fences

VARIABLES
    phase,              \* phase[k] \in {"none", "open", "closed"}
    authority           \* the attempt that may write the run, or 0

Init ==
    /\ phase = [k \in Attempts |-> "none"]
    /\ authority = 0

\* The next attempt in order begins; one that was still open is superseded.
Begin(k) ==
    /\ phase[k] = "none"
    /\ \A j \in Attempts : j < k => phase[j] # "none"
    /\ phase' = [j \in Attempts |->
                   IF j = k THEN "open"
                   ELSE IF phase[j] = "open" THEN "closed" ELSE phase[j]]
    /\ authority' = k

\* The attempt ends with its authority (its own commit, or a stop).
End(k) ==
    /\ phase[k] = "open"
    /\ phase' = [phase EXCEPT ![k] = "closed"]
    /\ authority' = 0

\* The attempt is declared lost; the row names it until somebody else does.
Lose(k) ==
    /\ phase[k] = "open"
    /\ phase' = [phase EXCEPT ![k] = "closed"]
    /\ UNCHANGED authority

\* A run that names a lost attempt, or none, is cut loose from it.
Revoke ==
    /\ \A k \in Attempts : phase[k] # "open"
    /\ authority' = 0
    /\ UNCHANGED phase

Next ==
    \/ \E k \in Attempts : Begin(k) \/ End(k) \/ Lose(k)
    \/ Revoke

Spec == Init /\ [][Next]_<<phase, authority>>
=============================================================================
