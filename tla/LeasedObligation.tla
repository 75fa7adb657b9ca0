-------------------------- MODULE LeasedObligation --------------------------
(***************************************************************************)
(* What a decided approval and a stored credential both owe their agent:   *)
(* the row is worked off by processes that lease it, at most so many times *)
(* and never once it is closed, and a lease buys the start of one piece of *)
(* work.  That start may come after the closing: a process that outlived   *)
(* its lease is not called back.                                           *)
(***************************************************************************)
EXTENDS Naturals

CONSTANTS
    Obligations,
    MaxTries            \* how often one may be leased

VARIABLES
    stage,              \* stage[o] \in {"none", "owed", "closed"}
    tries,              \* tries[o]: leases handed out
    works               \* works[o]: pieces of work started

Init ==
    /\ stage = [o \in Obligations |-> "none"]
    /\ tries = [o \in Obligations |-> 0]
    /\ works = [o \in Obligations |-> 0]

Incur(o) ==
    /\ stage[o] = "none"
    /\ stage' = [stage EXCEPT ![o] = "owed"]
    /\ UNCHANGED <<tries, works>>

\* Carried out, given up, or withdrawn before anything was owed.
Close(o) ==
    /\ stage[o] # "closed"
    /\ stage' = [stage EXCEPT ![o] = "closed"]
    /\ UNCHANGED <<tries, works>>

Lease(o) ==
    /\ stage[o] = "owed" /\ tries[o] < MaxTries
    /\ tries' = [tries EXCEPT ![o] = @ + 1]
    /\ UNCHANGED <<stage, works>>

Work(o) ==
    /\ works[o] < tries[o]
    /\ works' = [works EXCEPT ![o] = @ + 1]
    /\ UNCHANGED <<stage, tries>>

Next == \E o \in Obligations : Incur(o) \/ Close(o) \/ Lease(o) \/ Work(o)

Spec == Init /\ [][Next]_<<stage, tries, works>>
=============================================================================
