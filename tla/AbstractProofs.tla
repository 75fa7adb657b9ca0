--------------------------- MODULE AbstractProofs ---------------------------
(***************************************************************************)
(* What the three abstract specifications promise, and with it every       *)
(* module shown to implement one of them: RunExecution and ExternalEffects *)
(* (SerialAttempts), ChatDispatch (FifoWithBarrier), ApprovalExecution and *)
(* CredentialHandoff (LeasedObligation).                                   *)
(***************************************************************************)
EXTENDS Naturals, TLAPS

CONSTANTS Attempts, Messages, Obligations, MaxTries

VARIABLES
    phase, authority,       \* of SerialAttempts
    place,                  \* of FifoWithBarrier: its stage
    stage, tries, works     \* of LeasedObligation

Serial == INSTANCE SerialAttempts
Fifo == INSTANCE FifoWithBarrier WITH stage <- place
Obligation == INSTANCE LeasedObligation

-----------------------------------------------------------------------------
(* Attempts.                                                               *)

\* At most one attempt is open and it has the authority; authority belongs to
\* the latest attempt there is.
OneWriter ==
    /\ \A k \in Attempts : phase[k] = "open" => authority = k
    /\ authority # 0 =>
        /\ authority \in Attempts /\ phase[authority] # "none"
        /\ \A k \in Attempts : k > authority => phase[k] = "none"

\* Attempts begin in order, none is left out.
SerialInv ==
    /\ phase \in [Attempts -> {"none", "open", "closed"}]
    /\ \A j, k \in Attempts : j < k /\ phase[k] # "none" => phase[j] # "none"
    /\ OneWriter

\* An attempt that is closed stays closed.
ClosedForGood ==
    [][\A k \in Attempts : phase[k] = "closed" => phase'[k] = "closed"]_
        <<phase, authority>>

\* Every step of the abstract attempts keeps them in order.
LEMMA SerialStep ==
    ASSUME Attempts \subseteq Nat \ {0}, SerialInv,
           [Serial!Next]_<<phase, authority>>
    PROVE  /\ SerialInv'
           /\ \A k \in Attempts : phase[k] = "closed" => phase'[k] = "closed"
<1> USE DEF SerialInv, OneWriter
<1>1. ASSUME NEW k \in Attempts, Serial!Begin(k)
      PROVE  /\ SerialInv'
             /\ \A j \in Attempts : phase[j] = "closed" => phase'[j] = "closed"
  <2>1. phase[k] = "none" /\ authority' = k /\ k \in Nat \ {0}
    BY <1>1 DEF Serial!Begin
  <2>2. \A j \in Attempts :
            phase'[j] = IF j = k THEN "open"
                        ELSE IF phase[j] = "open" THEN "closed" ELSE phase[j]
    BY <1>1 DEF Serial!Begin
  <2>3. phase' \in [Attempts -> {"none", "open", "closed"}]
    BY <1>1 DEF Serial!Begin
  <2>4. \A j \in Attempts : j > k => phase[j] = "none"
    BY <2>1
  <2>5. \A j \in Attempts : j < k => phase[j] # "none"
    BY <1>1 DEF Serial!Begin
  <2>6. OneWriter'
    BY <2>1, <2>2, <2>4
  <2>7. \A i, j \in Attempts : i < j /\ phase'[j] # "none" => phase'[i] # "none"
    BY <2>1, <2>2, <2>4, <2>5
  <2> QED
    BY <2>1, <2>2, <2>3, <2>6, <2>7
<1>2. ASSUME NEW k \in Attempts, Serial!End(k) \/ Serial!Lose(k)
      PROVE  /\ SerialInv'
             /\ \A j \in Attempts : phase[j] = "closed" => phase'[j] = "closed"
  <2>1. /\ phase[k] = "open" /\ phase' = [phase EXCEPT ![k] = "closed"]
        /\ authority' \in {0, authority}
    BY <1>2 DEF Serial!End, Serial!Lose
  <2> QED
    BY <2>1
<1>3. CASE Serial!Revoke
  BY <1>3 DEF Serial!Revoke
<1>4. CASE UNCHANGED <<phase, authority>>
  BY <1>4
<1> QED
  BY <1>1, <1>2, <1>3, <1>4 DEF Serial!Next

\* One attempt at a time may write the run, the one that began last.
THEOREM AttemptsHaveOneWriter ==
    ASSUME Attempts \subseteq Nat \ {0}
    PROVE  Serial!Spec => []OneWriter /\ ClosedForGood
<1>1. Serial!Init => SerialInv
  BY DEF Serial!Init, SerialInv, OneWriter
<1>2. SerialInv /\ [Serial!Next]_<<phase, authority>> => SerialInv'
  BY SerialStep
<1>3. SerialInv /\ [Serial!Next]_<<phase, authority>> =>
        [\A k \in Attempts : phase[k] = "closed" => phase'[k] = "closed"]_
            <<phase, authority>>
  BY SerialStep
<1>4. SerialInv => OneWriter
  BY DEF SerialInv
<1> QED
  BY <1>1, <1>2, <1>3, <1>4, PTL DEF Serial!Spec, ClosedForGood

-----------------------------------------------------------------------------
(* Messages.                                                               *)

\* A message is being served, or was and failed, only with everything before
\* it gone: so one is served at a time and a failed one holds up the rest.
ServedInOrder ==
    \A m, n \in Messages :
        n < m /\ place[m] \in {"serving", "blocked"} => place[n] = "gone"

\* Every message has a stage, and the order is kept.
FifoInv == place \in [Messages -> Fifo!Stages] /\ ServedInOrder

\* Every step of the abstract queue keeps the order.
LEMMA FifoStep ==
    ASSUME FifoInv, [Fifo!Next]_place
    PROVE  FifoInv'
<1> USE DEF FifoInv, ServedInOrder, Fifo!Stages, Fifo!Move, Fifo!Earlier
<1>1. ASSUME NEW m \in Messages, Fifo!Send(m) \/ Fifo!Serve(m)
      PROVE  FifoInv'
  BY <1>1 DEF Fifo!Send, Fifo!Serve
<1>2. ASSUME NEW m \in Messages,
             \/ Fifo!Move(m, "serving", "gone")
             \/ Fifo!Move(m, "serving", "blocked")
             \/ Fifo!Move(m, "blocked", "waiting")
             \/ Fifo!Move(m, "blocked", "gone")
             \/ Fifo!Move(m, "waiting", "gone")
      PROVE  FifoInv'
  BY <1>2
<1>3. CASE UNCHANGED place
  BY <1>3
<1> QED
  BY <1>1, <1>2, <1>3 DEF Fifo!Next

\* Messages are served one at a time, in the order they were sent.
THEOREM MessagesServedInOrder == Fifo!Spec => []ServedInOrder
<1>1. Fifo!Init => FifoInv
  BY DEF Fifo!Init, FifoInv, ServedInOrder, Fifo!Stages
<1>2. FifoInv /\ [Fifo!Next]_place => FifoInv'
  BY FifoStep
<1>3. FifoInv => ServedInOrder
  BY DEF FifoInv
<1> QED
  BY <1>1, <1>2, <1>3, PTL DEF Fifo!Spec

-----------------------------------------------------------------------------
(* Obligations.                                                            *)

\* Work is paid for by leases, leases are counted, and nothing is begun for
\* what was never owed.
WorkIsLeased ==
    \A o \in Obligations :
        /\ works[o] <= tries[o] /\ tries[o] <= MaxTries
        /\ stage[o] = "none" => works[o] = 0

ObligationInv ==
    /\ stage \in [Obligations -> {"none", "owed", "closed"}]
    /\ tries \in [Obligations -> Nat] /\ works \in [Obligations -> Nat]
    /\ WorkIsLeased
    /\ \A o \in Obligations : stage[o] = "none" => tries[o] = 0

\* Once an obligation is closed no lease of it is given out.
NoLeaseAfterClosing ==
    [][\A o \in Obligations : stage[o] = "closed" =>
            stage'[o] = "closed" /\ tries'[o] = tries[o]]_<<stage, tries, works>>

\* Every step of the abstract obligation keeps its account.
LEMMA ObligationStep ==
    ASSUME MaxTries \in Nat, ObligationInv,
           [Obligation!Next]_<<stage, tries, works>>
    PROVE  /\ ObligationInv'
           /\ \A o \in Obligations : stage[o] = "closed" =>
                stage'[o] = "closed" /\ tries'[o] = tries[o]
<1> USE DEF ObligationInv, WorkIsLeased
<1>1. ASSUME NEW o \in Obligations, Obligation!Incur(o) \/ Obligation!Close(o)
      PROVE  /\ ObligationInv'
             /\ \A p \in Obligations : stage[p] = "closed" =>
                    stage'[p] = "closed" /\ tries'[p] = tries[p]
  BY <1>1 DEF Obligation!Incur, Obligation!Close
<1>2. ASSUME NEW o \in Obligations, Obligation!Lease(o) \/ Obligation!Work(o)
      PROVE  /\ ObligationInv'
             /\ \A p \in Obligations : stage[p] = "closed" =>
                    stage'[p] = "closed" /\ tries'[p] = tries[p]
  BY <1>2 DEF Obligation!Lease, Obligation!Work
<1>3. CASE UNCHANGED <<stage, tries, works>>
  BY <1>3
<1> QED
  BY <1>1, <1>2, <1>3 DEF Obligation!Next

\* An obligation is worked on at most as often as it is leased, at most
\* MaxTries times, and is not leased again once it is closed.
THEOREM ObligationsAreLeased ==
    ASSUME MaxTries \in Nat
    PROVE  Obligation!Spec => []WorkIsLeased /\ NoLeaseAfterClosing
<1>1. Obligation!Init => ObligationInv
  BY DEF Obligation!Init, ObligationInv, WorkIsLeased
<1>2. ObligationInv /\ [Obligation!Next]_<<stage, tries, works>> => ObligationInv'
  BY ObligationStep
<1>3. ObligationInv /\ [Obligation!Next]_<<stage, tries, works>> =>
        [\A o \in Obligations : stage[o] = "closed" =>
            stage'[o] = "closed" /\ tries'[o] = tries[o]]_<<stage, tries, works>>
  BY ObligationStep
<1>4. ObligationInv => WorkIsLeased
  BY DEF ObligationInv
<1> QED
  BY <1>1, <1>2, <1>3, <1>4, PTL DEF Obligation!Spec, NoLeaseAfterClosing
=============================================================================
