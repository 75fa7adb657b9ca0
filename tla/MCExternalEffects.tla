------------------------- MODULE MCExternalEffects --------------------------
(* Values for TLC.                                                         *)
EXTENDS ExternalEffects, FiniteSets, TLC

CONSTANTS
    MaxTotal,       \* bound on the calls made, one that left the legacy
                    \* intent included; the last attempt is only reached
                    \* without one, with one call in each, all alike
    MaxClearances   \* bound on the effects an operator cleared

Symmetry == Permutations(Requests)

Made == {c \in Calls : pc[c] # "idle"}
Left == {k \in {LegacyKey} : intent[k] # None}

FewCalls ==
    /\ Cardinality(Made) + Cardinality(Left) <= MaxTotal
    /\ cur = MaxAttempts =>
        Left = {} /\ \A c, d \in Made : c[2] = 1 /\ ask[c] = ask[d]
FewClearances == Cardinality({k \in Keys : cleared[k] > 0}) <= MaxClearances
=============================================================================
