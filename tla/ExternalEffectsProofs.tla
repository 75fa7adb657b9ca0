----------------------- MODULE ExternalEffectsProofs ------------------------
(***************************************************************************)
(* What is proved about ExternalEffects, for any requests, attempts, calls *)
(* and clearances: the type invariant and every property the run checks.   *)
(*                                                                         *)
(* None of the properties is inductive alone.  OneStartPerKey needs that   *)
(* "failed" and a call about to retry exist only where an operator cleared *)
(* the effect; SecondKeyIsLate that a call which coined its own key found  *)
(* no intent of an earlier attempt, so that one recorded since is late;    *)
(* OneStartPerClearance that a call of the current attempt about to retry  *)
(* still has its clearance to spend; CallsKeepApart that a key carries the *)
(* ordinal of its call; AnswersAreEarned that the request of a claimed     *)
(* call is the recorded one.  Then the refinement of SerialAttempts, and   *)
(* ReplaysTakeOver: what holds of "two identical calls remain distinct".   *)
(***************************************************************************)
EXTENDS ExternalEffects, TLAPS

\* A call past its key carries the ordinal of the key, or the legacy key.
KeysCarryOrdinals ==
    \A c \in Calls : \/ key[c] = NoKey
                     \/ key[c] = LegacyKey
                     \/ key[c][1] = c[2]

Claimed == {"retrying", "running", "landed", "threw", "answered", "replayed"}

\* A call that was keyed has a key; one that was claimed has the recorded
\* request.
ClaimedMatches ==
    \A c \in Calls :
        /\ pc[c] \notin {"idle", "resolving", "refused"} => key[c] \in Keys
        /\ pc[c] # "idle" => ask[c] \in Requests
        /\ pc[c] \in Claimed => intent[key[c]] = ask[c]

\* An effect nobody recorded has no history.
NoHistoryWithoutIntent ==
    \A k \in Keys : intent[k] = None =>
        /\ started[k] = 0 /\ late[k] = 0 /\ cleared[k] = 0
        /\ latest[k] = "none"

\* "failed", and so a retry, comes from an operator only.
FailedMeansCleared ==
    /\ \A k \in Keys : latest[k] = "failed" => cleared[k] > 0
    /\ \A c \in Calls : pc[c] = "retrying" => cleared[key[c]] > 0

\* What is recorded or answered as done reached the outside system, unless a
\* person vouched for it.
DoneLanded ==
    /\ \A k \in Keys : latest[k] = "completed" => k \in landed
    /\ \A c \in Calls : pc[c] \in {"landed", "answered"} => key[c] \in landed
    /\ \A c \in Calls : pc[c] = "replayed" =>
            key[c] \in landed \/ latest[key[c]] = "reconciled"

\* Where a retry may be coming, a clearance has not been spent.
ClearanceLeft(k) == started[k] <= cleared[k] + late[k]
RetriesAreCovered ==
    /\ \A a \in Attempts : a > cur => \A c \in CallsOf(a) : pc[c] = "idle"
    /\ \A k \in Keys \ {LegacyKey} :
        latest[k] = "failed" => ClearanceLeft(k)
    /\ \A c \in CallsOf(cur) :
        (pc[c] = "retrying" /\ key[c] # LegacyKey) => ClearanceLeft(key[c])

IInv ==
    /\ TypeOK
    /\ KeysCarryOrdinals
    /\ ClaimedMatches
    /\ NoHistoryWithoutIntent
    /\ FailedMeansCleared
    /\ DoneLanded
    /\ OneStartPerKey

-----------------------------------------------------------------------------
\* What calls and keys are made of.
LEMMA CallParts ==
    ASSUME NEW c \in Calls
    PROVE  /\ c[1] \in Attempts /\ c[2] \in Ordinals
           /\ c = <<c[1], c[2]>>
           /\ <<c[2], c[1]>> \in Keys
           /\ <<c[2], c[1]>> # LegacyKey
BY DEF Calls, Keys, Attempts, Ordinals, LegacyKey

LEMMA NoKeyIsNone == NoKey \notin Keys
BY BoundsAssumption DEF NoKey, Keys, Ordinals, Attempts, LegacyKey

LEMMA LegacyIsKey == LegacyKey \in Keys
BY DEF Keys

\* A recovered key carries the ordinal of the call that recovers it.
LEMMA RecoveredOrdinal ==
    ASSUME NEW c \in Calls, NEW k \in Recovered(c)
    PROVE  k \in Keys /\ k[1] = c[2]
BY DEF Recovered

-----------------------------------------------------------------------------
\* The initial states satisfy the invariant.
LEMMA InitInvariant == Init => IInv /\ RetriesAreCovered
<1> SUFFICES ASSUME Init PROVE IInv /\ RetriesAreCovered
  OBVIOUS
<1> USE BoundsAssumption, RequestsAssumption DEF Init
<1>1. PICK r \in Requests \cup {None}, e \in {"none", "completed", "ambiguous"} :
        /\ r = None => e = "none"
        /\ intent = [k \in Keys |-> IF k = LegacyKey THEN r ELSE None]
        /\ latest = [k \in Keys |-> IF k = LegacyKey THEN e ELSE "none"]
        /\ started = [k \in Keys |->
                        IF k = LegacyKey /\ r # None THEN 1 ELSE 0]
        /\ landed = IF e = "completed" THEN {LegacyKey} ELSE {}
  OBVIOUS
<1>2. TypeOK
  <2>1. /\ intent \in [Keys -> Requests \cup {None}]
        /\ latest \in [Keys -> Kinds]
        /\ started \in [Keys -> Nat]
        /\ landed \subseteq Keys
    BY <1>1, LegacyIsKey DEF Kinds
  <2>2. /\ cur \in 0 .. MaxAttempts /\ parked \subseteq Attempts
        /\ transcript \subseteq Keys /\ known \in [Attempts -> SUBSET Keys]
    BY DEF Attempts
  <2> QED
    BY <2>1, <2>2 DEF TypeOK, Places
<1>3. KeysCarryOrdinals
  BY DEF KeysCarryOrdinals
<1>4. ClaimedMatches
  BY DEF ClaimedMatches, Claimed
<1>5. NoHistoryWithoutIntent /\ FailedMeansCleared /\ OneStartPerKey
  BY <1>1 DEF NoHistoryWithoutIntent, FailedMeansCleared, OneStartPerKey
<1>6. DoneLanded
  BY <1>1 DEF DoneLanded
<1>7. RetriesAreCovered
  BY <1>1 DEF RetriesAreCovered, CallsOf
<1> QED
  BY <1>2, <1>3, <1>4, <1>5, <1>6, <1>7 DEF IInv

-----------------------------------------------------------------------------
\* Every step keeps the type invariant.
LEMMA NextType ==
    ASSUME TypeOK, ClaimedMatches, [Next]_vars
    PROVE  TypeOK'
<1> USE DEF TypeOK, runVars, ledgerVars, callVars, worldVars, Go
<1>1. CASE Park
  <2>1. {key[c] : c \in {d \in CallsOf(cur) :
                            pc[d] \in {"answered", "replayed"}}} \subseteq Keys
    BY DEF ClaimedMatches, CallsOf
  <2>2. transcript' \subseteq Keys /\ parked' \subseteq Attempts
    BY <1>1, <2>1 DEF Park
  <2>3. cur' \in 0 .. MaxAttempts
    BY <1>1 DEF Park, Attempts
  <2> QED
    BY <1>1, <2>2, <2>3 DEF Park
<1>2. CASE Lapse
  BY <1>2 DEF Lapse
<1>3. CASE NextAttempt
  BY <1>3, BoundsAssumption DEF NextAttempt, Attempts
<1>4. ASSUME NEW c \in Calls, Step(c) PROVE TypeOK'
  <2> USE DEF Enter, Append
  <2>1. ASSUME NEW r \in Requests, Invoke(c, r) PROVE TypeOK'
    BY <2>1 DEF Invoke, Places
  <2>2. CASE Resolve(c)
    <3>1. <<c[2], c[1]>> \in Keys /\ LegacyKey \in Keys
      BY CallParts, LegacyIsKey
    <3>2. \A k \in Recovered(c) : k \in Keys
      BY DEF Recovered
    <3>3. key' \in [Calls -> Keys \cup {NoKey}]
      BY <2>2, <3>1, <3>2 DEF Resolve
    <3>4. pc' \in [Calls -> Places]
      BY <2>2 DEF Resolve, Places, Returned
    <3> QED
      BY <2>2, <3>3, <3>4 DEF Resolve
  <2>3. CASE Claim(c)
    <3>1. key[c] \in Keys /\ ask[c] \in Requests
      BY <2>3 DEF Claim, ClaimedMatches
    <3>2. started' \in [Keys -> Nat] /\ late' \in [Keys -> Nat]
      BY <2>3, <3>1 DEF Claim
    <3>3. pc' \in [Calls -> Places] /\ intent' \in [Keys -> Requests \cup {None}]
      BY <2>3, <3>1 DEF Claim, Places, Returned
    <3> QED
      BY <2>3, <3>2, <3>3 DEF Claim
  <2>4. CASE StartRetry(c)
    <3>1. started' \in [Keys -> Nat] /\ late' \in [Keys -> Nat]
      BY <2>4 DEF StartRetry
    <3>2. pc' \in [Calls -> Places] /\ latest' \in [Keys -> Kinds]
      BY <2>4 DEF StartRetry, Places, Returned, Kinds
    <3> QED
      BY <2>4, <3>1, <3>2 DEF StartRetry
  <2>5. CASE Land(c)
    BY <2>5 DEF Land, Places, ClaimedMatches
  <2>6. CASE AdapterThrows(c)
    BY <2>6 DEF AdapterThrows, Places
  <2>7. CASE RecordCompleted(c)
    BY <2>7 DEF RecordCompleted, Places, Returned, Kinds
  <2>8. CASE RecordError(c)
    BY <2>8 DEF RecordError, Places, Returned, Kinds, ErrorKind
  <2> QED
    BY <1>4, <2>1, <2>2, <2>3, <2>4, <2>5, <2>6, <2>7, <2>8 DEF Step
<1>5. ASSUME NEW k \in Keys, ConfirmCompleted(k) PROVE TypeOK'
  BY <1>5 DEF ConfirmCompleted, Append, Kinds
<1>6. ASSUME NEW k \in Keys, ClearForRetry(k) PROVE TypeOK'
  BY <1>6 DEF ClearForRetry, Append, Kinds
<1>7. CASE UNCHANGED vars
  BY <1>7 DEF vars
<1> QED
  BY <1>1, <1>2, <1>3, <1>4, <1>5, <1>6, <1>7 DEF Next

-----------------------------------------------------------------------------
\* The steps of the run and of the operator do not touch calls and intents.
LEMMA OthersLeaveCalls ==
    ASSUME \/ Park \/ Lapse \/ NextAttempt \/ UNCHANGED vars
           \/ \E k \in Keys : ConfirmCompleted(k) \/ ClearForRetry(k)
    PROVE  UNCHANGED <<intent, pc, ask, key, started, late, landed>>
BY DEF Park, Lapse, NextAttempt, vars, ConfirmCompleted, ClearForRetry,
       ledgerVars, callVars, worldVars

\* A key is only ever given to a call by Resolve, under the call's ordinal.
LEMMA NextOrdinals ==
    ASSUME TypeOK, KeysCarryOrdinals, [Next]_vars
    PROVE  KeysCarryOrdinals'
<1> USE DEF KeysCarryOrdinals
<1>1. ASSUME NEW c \in Calls, Resolve(c) PROVE KeysCarryOrdinals'
  <2>1. key' = key \/ \E k \in Keys : /\ key' = [key EXCEPT ![c] = k]
                                      /\ k = LegacyKey \/ k[1] = c[2]
    <3>1. <<c[2], c[1]>>[1] = c[2]
      OBVIOUS
    <3> QED
      BY <1>1, <3>1, RecoveredOrdinal, CallParts, LegacyIsKey DEF Resolve
  <2> QED
    BY <2>1 DEF TypeOK
<1>2. ASSUME NEW c \in Calls, Step(c), ~ Resolve(c) PROVE UNCHANGED key
  BY <1>2 DEF Step, Invoke, Claim, StartRetry, Land, AdapterThrows,
              RecordCompleted, RecordError
<1> QED
  BY <1>1, <1>2, OthersLeaveCalls DEF Next

\* A claimed call has the recorded request, and intents never change.
LEMMA NextMatches ==
    ASSUME TypeOK, ClaimedMatches, [Next]_vars
    PROVE  ClaimedMatches'
<1> USE DEF ClaimedMatches, Claimed, TypeOK, Go, Returned
<1>1. ASSUME NEW c \in Calls, Step(c) PROVE ClaimedMatches'
  <2>1. ASSUME NEW r \in Requests, Invoke(c, r) PROVE ClaimedMatches'
    BY <2>1 DEF Invoke, ledgerVars
  <2>2. CASE Resolve(c)
    <3>1. <<c[2], c[1]>> \in Keys /\ LegacyKey \in Keys
      BY CallParts, LegacyIsKey
    <3>2. \A k \in Recovered(c) : k \in Keys
      BY DEF Recovered
    <3>3. \/ pc' = [pc EXCEPT ![c] = "refused"] /\ key' = key
          \/ /\ pc' = [pc EXCEPT ![c] = "keyed"]
             /\ \E k \in Keys : key' = [key EXCEPT ![c] = k]
      BY <2>2, <3>1, <3>2 DEF Resolve
    <3>4. pc[c] = "resolving" /\ UNCHANGED <<ask, intent>>
      BY <2>2 DEF Resolve, ledgerVars
    <3>5. \A d \in Calls : d # c => pc'[d] = pc[d] /\ key'[d] = key[d]
      BY <3>3
    <3>6. pc'[c] = "refused" \/ (pc'[c] = "keyed" /\ key'[c] \in Keys)
      BY <3>3
    <3>7. \A d \in Calls : d # c =>
            /\ pc'[d] \notin {"idle", "resolving", "refused"} => key'[d] \in Keys
            /\ pc'[d] # "idle" => ask'[d] \in Requests
            /\ pc'[d] \in Claimed => intent'[key'[d]] = ask'[d]
      BY <3>4, <3>5
    <3>8. /\ pc'[c] \notin {"idle", "resolving", "refused"} => key'[c] \in Keys
          /\ pc'[c] # "idle" => ask'[c] \in Requests
          /\ pc'[c] \in Claimed => intent'[key'[c]] = ask'[c]
      BY <3>4, <3>6
    <3> QED
      BY <3>7, <3>8
  <2>3. CASE Claim(c)
    <3>1. key[c] \in Keys /\ ask[c] \in Requests
      BY <2>3 DEF Claim
    <3>2. Disposition(c) = "execute" => intent[key[c]] = None
      BY DEF Disposition
    <3>3. Disposition(c) \in {"retry", "completed"} => intent[key[c]] = ask[c]
      BY DEF Disposition
    <3>4. CASE Disposition(c) = "execute"
      <4>1. intent[key[c]] = None
        BY <3>2, <3>4
      <4>2. /\ intent' = [intent EXCEPT ![key[c]] = ask[c]]
            /\ pc' = [pc EXCEPT ![c] = "running"]
            /\ UNCHANGED <<ask, key>>
        BY <2>3, <3>4 DEF Claim
      <4>3. \A d \in Calls : pc[d] \in Claimed => key[d] # key[c]
        BY <4>1, RequestsAssumption
      <4> QED
        BY <3>1, <4>2, <4>3
    <3>5. CASE Disposition(c) # "execute"
      BY <2>3, <3>1, <3>3, <3>5 DEF Claim
    <3> QED
      BY <3>4, <3>5
  <2>4. CASE StartRetry(c) \/ RecordCompleted(c) \/ RecordError(c)
    BY <2>4 DEF StartRetry, RecordCompleted, RecordError
  <2>5. CASE Land(c) \/ AdapterThrows(c)
    BY <2>5 DEF Land, AdapterThrows, ledgerVars
  <2> QED
    BY <1>1, <2>1, <2>2, <2>3, <2>4, <2>5 DEF Step
<1> QED
  BY <1>1, OthersLeaveCalls DEF Next

\* What is recorded of an effect begins with its intent.
LEMMA NextHistory ==
    ASSUME TypeOK, ClaimedMatches, NoHistoryWithoutIntent, [Next]_vars
    PROVE  NoHistoryWithoutIntent'
<1> USE RequestsAssumption DEF NoHistoryWithoutIntent, TypeOK, Append, Enter
<1>1. ASSUME NEW c \in Calls, Step(c) PROVE NoHistoryWithoutIntent'
  <2>1. pc[c] \in Claimed => key[c] \in Keys /\ intent[key[c]] # None
    BY DEF ClaimedMatches, Claimed
  <2>2. CASE Claim(c)
    <3>1. key[c] \in Keys /\ ask[c] \in Requests
      BY <2>2 DEF Claim, ClaimedMatches
    <3> QED
      BY <2>2, <3>1 DEF Claim
  <2>3. CASE StartRetry(c)
    BY <2>1, <2>3 DEF StartRetry, Claimed
  <2>4. CASE RecordCompleted(c) \/ RecordError(c)
    BY <2>1, <2>4 DEF RecordCompleted, RecordError, Claimed, worldVars
  <2>5. CASE Land(c) \/ AdapterThrows(c) \/ Resolve(c)
                \/ \E r \in Requests : Invoke(c, r)
    BY <2>5 DEF Land, AdapterThrows, Resolve, Invoke, ledgerVars, worldVars
  <2> QED
    BY <1>1, <2>2, <2>3, <2>4, <2>5 DEF Step
<1>2. CASE Park \/ Lapse \/ NextAttempt \/ UNCHANGED vars
  BY <1>2 DEF Park, Lapse, NextAttempt, vars, ledgerVars, worldVars
<1>3. ASSUME NEW k \in Keys, ConfirmCompleted(k) \/ ClearForRetry(k)
      PROVE  NoHistoryWithoutIntent'
  BY <1>3 DEF ConfirmCompleted, ClearForRetry, Reconcilable, worldVars
<1> QED
  BY <1>1, <1>2, <1>3 DEF Next

\* Clearances only grow, and only an operator writes "failed".
LEMMA NextFailed ==
    ASSUME TypeOK, ClaimedMatches, NoHistoryWithoutIntent, FailedMeansCleared,
           [Next]_vars
    PROVE  FailedMeansCleared'
<1> USE DEF FailedMeansCleared, TypeOK, Append, Go
<1>1. ASSUME NEW c \in Calls, Step(c) PROVE FailedMeansCleared'
  <2>1. CASE Claim(c)
    <3>1. Disposition(c) = "retry" => latest[key[c]] = "failed"
      BY DEF Disposition
    <3>2. key[c] \in Keys
      BY <2>1 DEF Claim, ClaimedMatches
    <3> QED
      BY <2>1, <3>1, <3>2 DEF Claim
  <2>2. CASE StartRetry(c)
    BY <2>2 DEF StartRetry
  <2>3. CASE RecordCompleted(c) \/ RecordError(c)
    BY <2>3 DEF RecordCompleted, RecordError, ErrorKind, worldVars
  <2>4. CASE Land(c) \/ AdapterThrows(c) \/ \E r \in Requests : Invoke(c, r)
    BY <2>4 DEF Land, AdapterThrows, Invoke, ledgerVars, worldVars
  <2>5. CASE Resolve(c)
    <3>1. \/ pc' = [pc EXCEPT ![c] = "refused"] /\ key' = key
          \/ /\ pc' = [pc EXCEPT ![c] = "keyed"]
             /\ \E k : key' = [key EXCEPT ![c] = k]
      BY <2>5 DEF Resolve
    <3> QED
      BY <2>5, <3>1 DEF Resolve, ledgerVars, worldVars
  <2> QED
    BY <1>1, <2>1, <2>2, <2>3, <2>4, <2>5 DEF Step
<1>2. CASE Park \/ Lapse \/ NextAttempt \/ UNCHANGED vars
  BY <1>2 DEF Park, Lapse, NextAttempt, vars, ledgerVars, worldVars, callVars
<1>3. ASSUME NEW k \in Keys, ConfirmCompleted(k) PROVE FailedMeansCleared'
  BY <1>3 DEF ConfirmCompleted, worldVars, callVars
<1>4. ASSUME NEW k \in Keys, ClearForRetry(k) PROVE FailedMeansCleared'
  <2>1. /\ latest' = [latest EXCEPT ![k] = "failed"]
        /\ cleared' = [cleared EXCEPT ![k] = @ + 1]
        /\ UNCHANGED <<pc, key>>
    BY <1>4 DEF ClearForRetry, callVars
  <2>2. \A i \in Keys : cleared'[i] = cleared[i] \/ cleared'[i] > 0
    BY <2>1
  <2>3. \A c \in Calls : pc[c] = "retrying" => key[c] \in Keys
    BY DEF ClaimedMatches
  <2> QED
    BY <2>1, <2>2, <2>3
<1> QED
  BY <1>1, <1>2, <1>3, <1>4 DEF Next

\* A completion is recorded after the action landed, and stays recorded.
LEMMA NextLanded ==
    ASSUME TypeOK, ClaimedMatches, DoneLanded, [Next]_vars
    PROVE  DoneLanded'
<1> USE DEF DoneLanded, TypeOK, Append, Go
<1>1. ASSUME NEW c \in Calls, Step(c) PROVE DoneLanded'
  <2>0. pc[c] \notin {"idle", "resolving", "refused"} => key[c] \in Keys
    BY DEF ClaimedMatches
  <2>00. \A d \in Calls : pc[d] = "replayed" => key[d] \in Keys
    BY DEF ClaimedMatches
  <2>1. CASE Claim(c)
    <3>1. Disposition(c) = "completed" =>
            latest[key[c]] \in {"completed", "reconciled"}
      BY DEF Disposition, Settled
    <3> QED
      BY <2>1, <2>0, <3>1 DEF Claim
  <2>2. CASE StartRetry(c)
    BY <2>2, <2>00, <2>0 DEF StartRetry, MayAppend, Settled
  <2>3. CASE RecordCompleted(c)
    BY <2>3, <2>00, <2>0 DEF RecordCompleted, MayAppend, Settled, worldVars
  <2>4. CASE RecordError(c)
    BY <2>4, <2>00, <2>0 DEF RecordError, MayAppend, Settled, ErrorKind, worldVars
  <2>5. CASE Land(c) \/ AdapterThrows(c) \/ \E r \in Requests : Invoke(c, r)
    BY <2>5, <2>0 DEF Land, AdapterThrows, Invoke, ledgerVars, worldVars
  <2>6. CASE Resolve(c)
    <3>1. \/ pc' = [pc EXCEPT ![c] = "refused"] /\ key' = key
          \/ /\ pc' = [pc EXCEPT ![c] = "keyed"]
             /\ \E k : key' = [key EXCEPT ![c] = k]
      BY <2>6 DEF Resolve
    <3> QED
      BY <2>6, <3>1 DEF Resolve, ledgerVars, worldVars
  <2> QED
    BY <1>1, <2>1, <2>2, <2>3, <2>4, <2>5, <2>6 DEF Step
<1>2. CASE Park \/ Lapse \/ NextAttempt \/ UNCHANGED vars
  BY <1>2 DEF Park, Lapse, NextAttempt, vars, ledgerVars, worldVars, callVars
<1>3. ASSUME NEW k \in Keys, ConfirmCompleted(k) \/ ClearForRetry(k)
      PROVE  DoneLanded'
  <2>1. \A d \in Calls : pc[d] = "replayed" => key[d] \in Keys
    BY DEF ClaimedMatches
  <2>2. /\ latest[k] # "reconciled"
        /\ \E kind \in {"reconciled", "failed"} :
                latest' = [latest EXCEPT ![k] = kind]
        /\ UNCHANGED <<pc, key, landed>>
    BY <1>3 DEF ConfirmCompleted, ClearForRetry, Reconcilable, Settled, callVars,
                worldVars
  <2> QED
    BY <2>1, <2>2
<1> QED
  BY <1>1, <1>2, <1>3 DEF Next

\* Only a fresh intent and a retry enter the adapter.
LEMMA NextUnaided ==
    ASSUME TypeOK, ClaimedMatches, NoHistoryWithoutIntent, FailedMeansCleared,
           OneStartPerKey, [Next]_vars
    PROVE  OneStartPerKey'
<1> USE DEF OneStartPerKey, TypeOK, Enter
<1>1. ASSUME NEW c \in Calls, Step(c) PROVE OneStartPerKey'
  <2>1. CASE Claim(c)
    <3>1. Disposition(c) = "execute" => intent[key[c]] = None
      BY DEF Disposition
    <3>2. key[c] \in Keys
      BY <2>1 DEF Claim, ClaimedMatches
    <3>3. Disposition(c) = "execute" => started[key[c]] = 0
      BY <3>1, <3>2 DEF NoHistoryWithoutIntent
    <3> QED
      BY <2>1, <3>2, <3>3 DEF Claim
  <2>2. CASE StartRetry(c)
    <3>1. cleared[key[c]] > 0 /\ key[c] \in Keys
      BY <2>2 DEF StartRetry, FailedMeansCleared, ClaimedMatches
    <3> QED
      BY <2>2, <3>1 DEF StartRetry
  <2>3. CASE ~ Claim(c) /\ ~ StartRetry(c)
    BY <1>1, <2>3 DEF Step, Invoke, Resolve, Land, AdapterThrows,
        RecordCompleted, RecordError, worldVars
  <2> QED
    BY <2>1, <2>2, <2>3
<1>2. CASE Park \/ Lapse \/ NextAttempt \/ UNCHANGED vars
  BY <1>2 DEF Park, Lapse, NextAttempt, vars, worldVars
<1>3. ASSUME NEW k \in Keys, ConfirmCompleted(k) \/ ClearForRetry(k)
      PROVE  OneStartPerKey'
  BY <1>3 DEF ConfirmCompleted, ClearForRetry, worldVars
<1> QED
  BY <1>1, <1>2, <1>3 DEF Next

LEMMA Inductive == IInv /\ [Next]_vars => IInv'
BY NextType, NextOrdinals, NextMatches, NextHistory, NextFailed, NextLanded,
   NextUnaided DEF IInv

LEMMA Invariance == Spec => []IInv
<1>1. Init => IInv
  BY InitInvariant
<1> QED
  BY <1>1, Inductive, PTL DEF Spec

-----------------------------------------------------------------------------
\* Two calls of one attempt under the same key are one call, or share the
\* legacy key.
LEMMA OrdinalsKeepApart ==
    ASSUME TypeOK, KeysCarryOrdinals
    PROVE  CallsKeepApart
<1> SUFFICES ASSUME NEW c \in Calls, NEW d \in Calls, c # d, c[1] = d[1],
                    key[c] # NoKey, key[c] = key[d], key[c] # LegacyKey
             PROVE  FALSE
  BY DEF CallsKeepApart
<1>1. key[c][1] = c[2] /\ key[d][1] = d[2]
  BY DEF KeysCarryOrdinals
<1>2. c = <<c[1], c[2]>> /\ d = <<d[1], d[2]>>
  BY CallParts
<1> QED
  BY <1>1, <1>2

\* RetriesAreCovered is kept together with OneStartPerClearance: a step
\* spends at most one clearance, and one call of the current attempt at most
\* is there to spend it.
LEMMA NextCovered ==
    ASSUME IInv, RetriesAreCovered, OneStartPerClearance, [Next]_vars
    PROVE  RetriesAreCovered' /\ OneStartPerClearance'
<1> USE DEF RetriesAreCovered, OneStartPerClearance, ClearanceLeft
<1>0. TypeOK /\ ClaimedMatches /\ NoHistoryWithoutIntent /\ KeysCarryOrdinals
  BY DEF IInv
<1>1. ASSUME NEW c \in Calls, Step(c)
      PROVE  RetriesAreCovered' /\ OneStartPerClearance'
  <2>1. \A d \in Calls : pc[d] = "retrying" => key[d] \in Keys
    BY <1>0 DEF ClaimedMatches
  <2>2. c[1] <= cur \/ pc[c] = "idle"
    <3>1. c[1] \in Attempts /\ c \in CallsOf(c[1])
      BY CallParts DEF CallsOf
    <3>2. c[1] > cur => pc[c] = "idle"
      BY <3>1
    <3> QED
      BY <1>0, <3>1, <3>2 DEF TypeOK, Attempts
  <2>3. CASE Claim(c)
    <3>1. /\ key[c] \in Keys /\ c[1] <= cur
          /\ UNCHANGED <<cur, latest, key, cleared>>
      BY <1>0, <2>2, <2>3 DEF Claim, ClaimedMatches, runVars
    <3>2. CASE Disposition(c) = "execute"
      <4>1. intent[key[c]] = None
        BY <3>2 DEF Disposition
      <4>2. /\ started[key[c]] = 0 /\ late[key[c]] = 0 /\ cleared[key[c]] = 0
            /\ latest[key[c]] = "none"
        BY <1>0, <3>1, <4>1 DEF NoHistoryWithoutIntent
      <4>3. \A d \in Calls : pc[d] = "retrying" => key[d] # key[c]
        BY <1>0, <4>1, RequestsAssumption DEF ClaimedMatches, Claimed
      <4>4. /\ pc' = [pc EXCEPT ![c] = "running"]
            /\ started' = [started EXCEPT ![key[c]] = @ + 1]
            /\ late' = [late EXCEPT ![key[c]] = IF c[1] = cur THEN @ ELSE @ + 1]
        BY <2>3, <3>2 DEF Claim, Enter, Go
      <4> QED
        BY <1>0, <2>1, <3>1, <4>2, <4>3, <4>4 DEF TypeOK, CallsOf, Attempts
    <3>3. CASE Disposition(c) = "retry"
      <4>1. latest[key[c]] = "failed"
        BY <3>3 DEF Disposition
      <4>2. pc' = [pc EXCEPT ![c] = "retrying"] /\ UNCHANGED <<started, late>>
        BY <2>3, <3>3 DEF Claim, Go
      <4> QED
        BY <1>0, <3>1, <4>1, <4>2 DEF TypeOK, CallsOf, Attempts
    <3>4. CASE Disposition(c) \notin {"execute", "retry"}
      <4>1. /\ pc' = [pc EXCEPT ![c] = "replayed"]
               \/ pc' = [pc EXCEPT ![c] = "refused"]
            /\ UNCHANGED <<started, late>>
        BY <2>3, <3>4 DEF Claim, Go
      <4> QED
        BY <1>0, <3>1, <4>1 DEF TypeOK, CallsOf, Attempts
    <3> QED
      BY <3>2, <3>3, <3>4
  <2>4. CASE StartRetry(c)
    <3>1. /\ key[c] \in Keys /\ c[1] <= cur
          /\ UNCHANGED <<cur, key, cleared>>
      BY <1>0, <2>2, <2>4 DEF StartRetry, ClaimedMatches, runVars
    <3>2. CASE MayAppend(key[c], "retry_started")
      <4>1. /\ pc' = [pc EXCEPT ![c] = "running"]
            /\ latest' = [latest EXCEPT ![key[c]] = "retry_started"]
            /\ started' = [started EXCEPT ![key[c]] = @ + 1]
            /\ late' = [late EXCEPT ![key[c]] = IF c[1] = cur THEN @ ELSE @ + 1]
        BY <2>4, <3>2 DEF StartRetry, Enter, Go, Append
      <4>2. CASE c[1] = cur
        <5>1. key[c] # LegacyKey => ClearanceLeft(key[c])
          BY <2>4, <4>2 DEF StartRetry, CallsOf
        <5>2. \A d \in CallsOf(cur) :
                (d # c /\ pc[d] = "retrying" /\ key[d] # LegacyKey)
                    => key[d] # key[c]
          BY <1>0, <2>1, <4>2, OrdinalsKeepApart, NoKeyIsNone
             DEF CallsKeepApart, CallsOf
        <5> QED
          BY <1>0, <2>1, <3>1, <4>1, <4>2, <5>1, <5>2 DEF TypeOK, CallsOf, Attempts
      <4>3. CASE c[1] # cur
        BY <1>0, <2>1, <3>1, <4>1, <4>3 DEF TypeOK, CallsOf, Attempts
      <4> QED
        BY <4>2, <4>3
    <3>3. CASE ~ MayAppend(key[c], "retry_started")
      <4>1. /\ pc' = [pc EXCEPT ![c] = "refused"]
            /\ UNCHANGED <<latest, started, late>>
        BY <2>4, <3>3 DEF StartRetry, Go
      <4> QED
        BY <1>0, <3>1, <4>1 DEF TypeOK, CallsOf, Attempts
    <3> QED
      BY <3>2, <3>3
  <2>5. ASSUME ~ Claim(c), ~ StartRetry(c)
        PROVE  RetriesAreCovered' /\ OneStartPerClearance'
    <3>1. UNCHANGED <<cur, started, late, cleared>>
      BY <1>1, <2>5 DEF Step, Invoke, Resolve, Land, AdapterThrows,
         RecordCompleted, RecordError, runVars, worldVars
    <3>2. \A k \in Keys : latest'[k] = "failed" => latest[k] = "failed"
      BY <1>0, <1>1, <2>5 DEF TypeOK, Step, Invoke, Resolve, Land, AdapterThrows,
         RecordCompleted, RecordError, ErrorKind, Append, ledgerVars
    <3>3. \A d \in Calls : d # c => pc'[d] = pc[d] /\ key'[d] = key[d]
      BY <1>0, <1>1, <2>5 DEF TypeOK, Step, Invoke, Resolve, Land, AdapterThrows,
         RecordCompleted, RecordError, Go
    <3>4. pc'[c] # "retrying" /\ c[1] <= cur
      BY <1>0, <1>1, <2>2, <2>5, CallParts DEF TypeOK, Step, Invoke, Resolve, Land,
         AdapterThrows, RecordCompleted, RecordError, Go
    <3>5. \A a \in Attempts : a > cur' => \A d \in CallsOf(a) : pc'[d] = "idle"
      BY <1>0, <3>1, <3>3, <3>4 DEF CallsOf, TypeOK, Attempts
    <3>6. \A k \in Keys \ {LegacyKey} : latest'[k] = "failed" =>
            started'[k] <= cleared'[k] + late'[k]
      BY <3>1, <3>2
    <3>7. \A d \in CallsOf(cur) : (pc'[d] = "retrying" /\ key'[d] # LegacyKey) =>
            started'[key'[d]] <= cleared'[key'[d]] + late'[key'[d]]
      BY <3>1, <3>3, <3>4 DEF CallsOf
    <3> QED
      BY <3>1, <3>5, <3>6, <3>7 DEF CallsOf
  <2> QED
    BY <2>3, <2>4, <2>5
<1>2. CASE Park \/ Lapse \/ UNCHANGED vars
  <2>1. UNCHANGED <<cur, latest, pc, key, started, late, cleared>>
    BY <1>2 DEF Park, Lapse, vars, ledgerVars, worldVars, callVars
  <2> QED
    BY <2>1 DEF CallsOf
<1>3. CASE NextAttempt
  <2>1. UNCHANGED <<latest, pc, key, started, late, cleared>> /\ cur' = cur + 1
    BY <1>3 DEF NextAttempt, ledgerVars, worldVars, callVars
  <2>2. \A c \in CallsOf(cur + 1) : pc[c] = "idle"
    BY <1>0, <1>3, BoundsAssumption DEF NextAttempt, Attempts, TypeOK
  <2>3. \A a \in Attempts : a > cur + 1 => a > cur
    BY <1>0 DEF TypeOK, Attempts
  <2> QED
    BY <2>1, <2>2, <2>3 DEF CallsOf
<1>4. ASSUME NEW k \in Keys, ConfirmCompleted(k)
      PROVE  RetriesAreCovered' /\ OneStartPerClearance'
  <2>1. /\ UNCHANGED <<cur, pc, key, started, late, cleared>>
        /\ latest' = [latest EXCEPT ![k] = "reconciled"]
    BY <1>4 DEF ConfirmCompleted, Append, worldVars, callVars, runVars
  <2> QED
    BY <1>0, <2>1 DEF TypeOK, CallsOf, Attempts
<1>5. ASSUME NEW k \in Keys, ClearForRetry(k)
      PROVE  RetriesAreCovered' /\ OneStartPerClearance'
  <2>1. /\ UNCHANGED <<cur, pc, key, started, late>>
        /\ latest' = [latest EXCEPT ![k] = "failed"]
        /\ cleared' = [cleared EXCEPT ![k] = @ + 1]
    BY <1>5 DEF ClearForRetry, Append, callVars, runVars
  <2>2. \A c \in Calls : pc[c] = "retrying" => key[c] \in Keys
    BY <1>0 DEF ClaimedMatches
  <2> QED
    BY <1>0, <2>1, <2>2 DEF TypeOK, CallsOf, Attempts
<1> QED
  BY <1>1, <1>2, <1>3, <1>4, <1>5 DEF Next

-----------------------------------------------------------------------------
\* Every reachable state is of the right type.
THEOREM TypeCorrect == Spec => []TypeOK
BY Invariance, PTL DEF IInv

\* Two calls of an attempt never share an effect.
THEOREM CallsKeepApartTheorem == Spec => []CallsKeepApart
<1>1. IInv => CallsKeepApart
  BY OrdinalsKeepApart DEF IInv
<1> QED
  BY <1>1, Invariance, PTL

\* A call is answered as done only if it was, or a person said so.
THEOREM AnswersAreEarnedTheorem == Spec => []AnswersAreEarned
<1>1. IInv => AnswersAreEarned
  BY DEF IInv, ClaimedMatches, DoneLanded, AnswersAreEarned, Claimed
<1> QED
  BY <1>1, Invariance, PTL

\* A clearance buys one start, and only an attempt that was replaced can take
\* another.
THEOREM OneStartPerClearanceTheorem == Spec => []OneStartPerClearance
<1>1. Init => OneStartPerClearance
  <2>1. Init => \A k \in Keys \ {LegacyKey} :
                    started[k] = 0 /\ cleared[k] = 0 /\ late[k] = 0
    BY DEF Init
  <2> QED
    BY <2>1 DEF OneStartPerClearance
<1>2. Init => RetriesAreCovered
  BY InitInvariant
<1>3. IInv /\ RetriesAreCovered /\ OneStartPerClearance /\ [Next]_vars
        => RetriesAreCovered' /\ OneStartPerClearance'
  BY NextCovered
<1> QED
  BY <1>1, <1>2, <1>3, Invariance, PTL DEF Spec

\* No step takes back what is known to be done, or begins it again.
THEOREM SettledStaysSettledTheorem == Spec => SettledStaysSettled
<1>1. IInv /\ [Next]_vars =>
        [\A k \in Keys : latest[k] \in Settled =>
            latest'[k] = latest[k] /\ started'[k] = started[k]]_vars
  <2> SUFFICES ASSUME IInv, Next, NEW k \in Keys, latest[k] \in Settled
               PROVE  latest'[k] = latest[k] /\ started'[k] = started[k]
    BY DEF vars
  <2> USE DEF IInv, TypeOK, Append, Enter, ledgerVars, worldVars
  <2>1. ASSUME NEW c \in Calls, Claim(c)
        PROVE  latest'[k] = latest[k] /\ started'[k] = started[k]
    <3>1. CASE Disposition(c) = "execute"
      <4>1. key[c] \in Keys /\ intent[key[c]] = None
        BY <2>1, <3>1 DEF Claim, Disposition, ClaimedMatches
      <4>2. key[c] # k
        BY <4>1 DEF NoHistoryWithoutIntent, Settled
      <4> QED
        BY <2>1, <4>2 DEF Claim
    <3>2. CASE Disposition(c) # "execute"
      BY <2>1, <3>2 DEF Claim
    <3> QED
      BY <3>1, <3>2
  <2>2. ASSUME NEW c \in Calls, StartRetry(c)
        PROVE  latest'[k] = latest[k] /\ started'[k] = started[k]
    BY <2>2 DEF StartRetry, MayAppend
  <2>3. ASSUME NEW c \in Calls, Step(c), ~ Claim(c), ~ StartRetry(c)
        PROVE  latest'[k] = latest[k] /\ started'[k] = started[k]
    BY <2>3 DEF Step, Invoke, Resolve, Land, AdapterThrows, RecordCompleted,
       RecordError, MayAppend
  <2>4. CASE Park \/ Lapse \/ NextAttempt
    BY <2>4 DEF Park, Lapse, NextAttempt
  <2>5. ASSUME NEW i \in Keys, ConfirmCompleted(i) \/ ClearForRetry(i)
        PROVE  latest'[k] = latest[k] /\ started'[k] = started[k]
    BY <2>5 DEF ConfirmCompleted, ClearForRetry, Reconcilable
  <2> QED
    BY <2>1, <2>2, <2>3, <2>4, <2>5 DEF Next
<1> QED
  BY <1>1, Invariance, PTL DEF SettledStaysSettled, Spec

-----------------------------------------------------------------------------
(* The attempts.                                                           *)

\* A claim, a parking and the rest are steps of SerialAttempts.
LEMMA NextSerial ==
    ASSUME TypeOK, [Next]_vars
    PROVE  [Serial!Next]_(<<[a \in Attempts |-> Phase(a)],
                            IF authority = "released" THEN 0 ELSE cur>>)
<1> DEFINE phase == [a \in Attempts |-> Phase(a)]
<1> USE BoundsAssumption DEF TypeOK, Attempts
<1>1. CASE Park
  <2>1. /\ cur \in Attempts /\ cur' = cur
        /\ authority # "released" /\ authority' = "released"
    BY <1>1 DEF Park
  <2>2. phase[cur] = "open"
    BY <2>1 DEF Phase
  <2>3. phase' = [phase EXCEPT ![cur] = "closed"]
    <3>1. \A a \in Attempts :
            Phase(a)' = IF a = cur THEN "closed" ELSE Phase(a)
      BY <2>1 DEF Phase
    <3> QED
      BY <3>1
  <2>4. Serial!End(cur)
    BY <2>1, <2>2, <2>3 DEF Serial!End
  <2> QED
    BY <2>1, <2>4 DEF Serial!Next
<1>2. CASE NextAttempt
  <2>1. /\ cur + 1 \in Attempts /\ cur' = cur + 1
        /\ authority # "live" /\ authority' = "live"
    BY <1>2 DEF NextAttempt
  <2>2. /\ phase[cur + 1] = "none"
        /\ \A j \in Attempts : j < cur + 1 => phase[j] # "none"
    BY <2>1 DEF Phase
  <2>3. phase' = [j \in Attempts |->
                    IF j = cur + 1 THEN "open"
                    ELSE IF phase[j] = "open" THEN "closed" ELSE phase[j]]
    BY <2>1 DEF Phase
  <2>4. Serial!Begin(cur + 1)
    BY <2>1, <2>2, <2>3 DEF Serial!Begin
  <2> QED
    BY <2>1, <2>4 DEF Serial!Next
<1>3. CASE Lapse
  BY <1>3 DEF Lapse, Phase
<1>4. CASE \/ \E c \in Calls : Step(c)
           \/ \E k \in Keys : ConfirmCompleted(k) \/ ClearForRetry(k)
           \/ UNCHANGED vars
  <2>1. UNCHANGED <<authority, cur>>
    BY <1>4 DEF Step, Invoke, Resolve, Claim, StartRetry, Land, AdapterThrows,
       RecordCompleted, RecordError, ConfirmCompleted, ClearForRetry, vars,
       runVars
  <2> QED
    BY <2>1 DEF Phase
<1> QED
  BY <1>1, <1>2, <1>3, <1>4 DEF Next

\* The attempts whose calls share the ledger implement the specification that
\* the fenced leases of RunExecution implement.
THEOREM AttemptsAreSerialTheorem == Spec => AttemptsAreSerial
<1>1. Init => Serial!Init
  BY DEF Init, Serial!Init, Phase, Attempts
<1>2. TypeOK /\ [Next]_vars =>
        [Serial!Next]_(<<[a \in Attempts |-> Phase(a)],
                         IF authority = "released" THEN 0 ELSE cur>>)
  BY NextSerial
<1> QED
  BY <1>1, <1>2, TypeCorrect, PTL DEF Spec, AttemptsAreSerial, Serial!Spec

-----------------------------------------------------------------------------
(* What IdenticalCallsStayDistinct leaves true.                            *)

Own(c) == <<c[2], c[1]>>

\* An intent was recorded by the call its key is named for, and whoever else
\* has the key found it recorded.
CoinedByOwner ==
    \A k \in Keys \ {LegacyKey} : intent[k] # None =>
        /\ key[Coiner(k)] = k /\ ask[Coiner(k)] = intent[k]
        /\ pc[Coiner(k)] \notin {"idle", "resolving", "keyed"}
TakenOver ==
    \A c \in Calls :
        (pc[c] \notin {"idle", "resolving"} /\ key[c] \in Keys \ {LegacyKey}) =>
            key[c] = Own(c) \/ intent[key[c]] # None
\* A call has no key before it resolved one.
Unkeyed == \A c \in Calls : pc[c] \in {"idle", "resolving"} => key[c] = NoKey
\* A call that is replayed does not carry its own key.
ReplaysAreOthers == \A c \in Calls : pc[c] = "replayed" => key[c] # Own(c)

Coined == CoinedByOwner /\ TakenOver /\ Unkeyed /\ ReplaysAreOthers

\* The coiner of a key is a call, and the owner of its own key.
LEMMA CoinerOwns ==
    /\ \A k \in Keys \ {LegacyKey} : Coiner(k) \in Calls /\ Own(Coiner(k)) = k
    /\ \A c \in Calls : Own(c) \in Keys \ {LegacyKey} /\ Coiner(Own(c)) = c
BY DEF Coiner, Own, Keys, Calls, Attempts, Ordinals, LegacyKey

\* A call that moves on past the places where it had no key, keeping its key
\* and its request, leaves what was coined.
LEMMA MoveKeepsCoined ==
    ASSUME IInv, Coined, NEW c \in Calls,
           pc[c] \notin {"idle", "resolving", "keyed"},
           NEW place \in Places \ {"idle", "resolving", "keyed", "replayed"},
           pc' = [pc EXCEPT ![c] = place],
           UNCHANGED <<intent, ask, key>>
    PROVE  Coined'
<1> USE DEF IInv, TypeOK, Coined
<1>1. CoinedByOwner'
  BY CoinerOwns DEF CoinedByOwner
<1>2. TakenOver' /\ Unkeyed'
  BY DEF TakenOver, Unkeyed
<1>3. ReplaysAreOthers'
  BY DEF ReplaysAreOthers
<1> QED
  BY <1>1, <1>2, <1>3

\* Every step keeps what was coined.
LEMMA NextCoined ==
    ASSUME IInv, Coined, [Next]_vars
    PROVE  Coined'
<1> USE RequestsAssumption DEF IInv, TypeOK, Go
<1>1. CASE UNCHANGED <<intent, pc, ask, key>>
  BY <1>1 DEF Coined, CoinedByOwner, TakenOver, Unkeyed, ReplaysAreOthers
<1>2. ASSUME NEW c \in Calls, NEW r \in Requests, Invoke(c, r)
      PROVE  Coined'
  <2>1. /\ pc[c] = "idle" /\ pc' = [pc EXCEPT ![c] = "resolving"]
        /\ ask' = [ask EXCEPT ![c] = r] /\ UNCHANGED <<intent, key>>
    BY <1>2 DEF Invoke, ledgerVars
  <2>2. CoinedByOwner'
    BY <2>1, CoinerOwns DEF Coined, CoinedByOwner
  <2>3. TakenOver' /\ Unkeyed' /\ ReplaysAreOthers'
    BY <2>1 DEF Coined, TakenOver, Unkeyed, ReplaysAreOthers
  <2> QED
    BY <2>2, <2>3 DEF Coined
<1>3. ASSUME NEW c \in Calls, Resolve(c) PROVE Coined'
  <2>1. pc[c] = "resolving" /\ UNCHANGED <<intent, ask>>
    BY <1>3 DEF Resolve, ledgerVars
  <2>2. \A k \in Recovered(c) : k \in Keys /\ intent[k] # None
    BY DEF Recovered
  <2>3. \/ pc' = [pc EXCEPT ![c] = "refused"] /\ key' = key
        \/ /\ pc' = [pc EXCEPT ![c] = "keyed"]
           /\ \E k \in Keys : /\ key' = [key EXCEPT ![c] = k]
                              /\ k = LegacyKey \/ k = Own(c) \/ intent[k] # None
    BY <1>3, <2>2, CallParts, LegacyIsKey DEF Resolve, Own
  <2>4. \A k \in Keys \ {LegacyKey} : intent[k] # None => Coiner(k) # c
    BY <2>1 DEF Coined, CoinedByOwner
  <2>5. CoinedByOwner'
    <3>1. \A d \in Calls : d # c => pc'[d] = pc[d] /\ key'[d] = key[d]
      BY <2>3
    <3> QED
      BY <2>1, <2>4, <3>1, CoinerOwns DEF Coined, CoinedByOwner
  <2>6. CASE pc' = [pc EXCEPT ![c] = "refused"] /\ key' = key
    <3>1. key[c] \in Keys \ {LegacyKey} => key[c] = Own(c) \/ intent[key[c]] # None
      BY <2>1, NoKeyIsNone DEF Coined, Unkeyed
    <3> QED
      BY <2>1, <2>5, <2>6, <3>1 DEF Coined, TakenOver, Unkeyed, ReplaysAreOthers
  <2>7. ASSUME NEW k \in Keys, key' = [key EXCEPT ![c] = k],
               k = LegacyKey \/ k = Own(c) \/ intent[k] # None,
               pc' = [pc EXCEPT ![c] = "keyed"]
        PROVE  Coined'
    <3>1. TakenOver'
      BY <2>1, <2>7 DEF Coined, TakenOver
    <3>2. Unkeyed' /\ ReplaysAreOthers'
      BY <2>1, <2>7 DEF Coined, Unkeyed, ReplaysAreOthers
    <3> QED
      BY <2>5, <3>1, <3>2 DEF Coined
  <2> QED
    BY <2>3, <2>6, <2>7
<1>4. ASSUME NEW c \in Calls, Claim(c) PROVE Coined'
  <2>1. pc[c] = "keyed" /\ key[c] \in Keys /\ UNCHANGED <<ask, key>>
    BY <1>4 DEF Claim, ClaimedMatches
  <2>2. key[c] = Own(c) => intent[key[c]] = None
    BY <2>1, CoinerOwns DEF Coined, CoinedByOwner
  <2>3. \A k \in Keys \ {LegacyKey} : intent[k] # None => Coiner(k) # c
    BY <2>1 DEF Coined, CoinedByOwner
  <2>4. CASE Disposition(c) = "execute"
    <3>1. /\ pc' = [pc EXCEPT ![c] = "running"]
          /\ intent' = [intent EXCEPT ![key[c]] = ask[c]]
      BY <1>4, <2>4 DEF Claim
    <3>2. intent[key[c]] = None
      BY <2>4 DEF Disposition
    <3>3. key[c] = LegacyKey \/ key[c] = Own(c)
      BY <2>1, <3>2 DEF Coined, TakenOver
    <3>4. CoinedByOwner'
      BY <2>1, <2>3, <3>1, <3>3, CoinerOwns DEF Coined, CoinedByOwner
    <3>5. TakenOver' /\ Unkeyed' /\ ReplaysAreOthers'
      BY <2>1, <3>1, <3>3 DEF Coined, TakenOver, Unkeyed, ReplaysAreOthers, ClaimedMatches
    <3> QED
      BY <3>4, <3>5 DEF Coined
  <2>5. CASE Disposition(c) # "execute"
    <3>1. /\ intent' = intent
          /\ \/ pc' = [pc EXCEPT ![c] = "retrying"]
             \/ pc' = [pc EXCEPT ![c] = "replayed"]
             \/ pc' = [pc EXCEPT ![c] = "refused"]
      BY <1>4, <2>5 DEF Claim
    <3>2. intent[key[c]] # None
      <4>1. ask[c] \in Requests
        BY <2>1 DEF ClaimedMatches
      <4> QED
        BY <2>5, <4>1 DEF Disposition
    <3>3. CoinedByOwner'
      BY <2>1, <2>3, <3>1, CoinerOwns DEF Coined, CoinedByOwner
    <3>4. TakenOver' /\ Unkeyed' /\ ReplaysAreOthers'
      BY <2>1, <2>2, <3>1, <3>2 DEF Coined, TakenOver, Unkeyed, ReplaysAreOthers
    <3> QED
      BY <3>3, <3>4 DEF Coined
  <2> QED
    BY <2>4, <2>5
<1>5. ASSUME NEW c \in Calls,
             StartRetry(c) \/ Land(c) \/ AdapterThrows(c)
                \/ RecordCompleted(c) \/ RecordError(c)
      PROVE  Coined'
  <2>1. /\ pc[c] \notin {"idle", "resolving", "keyed"}
        /\ UNCHANGED <<intent, ask, key>>
    BY <1>5 DEF StartRetry, Land, AdapterThrows, RecordCompleted, RecordError,
       ledgerVars
  <2>2. \/ pc' = [pc EXCEPT ![c] = "running"] \/ pc' = [pc EXCEPT ![c] = "landed"]
        \/ pc' = [pc EXCEPT ![c] = "threw"] \/ pc' = [pc EXCEPT ![c] = "answered"]
        \/ pc' = [pc EXCEPT ![c] = "refused"]
    BY <1>5 DEF StartRetry, Land, AdapterThrows, RecordCompleted, RecordError
  <2>3. {"running", "landed", "threw", "answered", "refused"}
            \subseteq Places \ {"idle", "resolving", "keyed", "replayed"}
    BY DEF Places, Returned
  <2> QED
    BY <2>1, <2>2, <2>3, MoveKeepsCoined
<1> QED
  BY <1>1, <1>2, <1>3, <1>4, <1>5, OthersLeaveCalls DEF Next, Step

\* What was coined stays so along every behaviour.
LEMMA CoinedHolds == Spec => []Coined
<1>1. Init => Coined
  BY LegacyIsKey
     DEF Init, Coined, CoinedByOwner, TakenOver, Unkeyed, ReplaysAreOthers
<1>2. IInv /\ Coined /\ [Next]_vars => Coined'
  BY NextCoined
<1> QED
  BY <1>1, <1>2, Invariance, PTL DEF Spec

\* Nobody is answered with a recorded outcome but a call that takes over from
\* the same call of another attempt: the run effects_after_park finds such a
\* call where the transcript said so already, and no worse.
THEOREM ReplaysTakeOverTheorem == Spec => []ReplaysTakeOver
<1>1. IInv /\ Coined => ReplaysTakeOver
  <2> SUFFICES ASSUME IInv, Coined, NEW c \in Calls, pc[c] = "replayed",
                      key[c] # LegacyKey
               PROVE  LET d == Coiner(key[c]) IN
                        /\ d # c /\ d[2] = c[2]
                        /\ key[d] = key[c] /\ ask[d] = ask[c]
    BY DEF ReplaysTakeOver
  <2>1. /\ key[c] \in Keys \ {LegacyKey} /\ intent[key[c]] = ask[c]
        /\ ask[c] \in Requests /\ key[c] # NoKey
    BY NoKeyIsNone DEF IInv, ClaimedMatches, Claimed
  <2>2. /\ key[Coiner(key[c])] = key[c] /\ ask[Coiner(key[c])] = ask[c]
    BY <2>1, RequestsAssumption DEF Coined, CoinedByOwner
  <2>3. Coiner(key[c]) # c
    BY <2>1, CoinerOwns DEF Coined, ReplaysAreOthers
  <2>4. Coiner(key[c])[2] = c[2]
    BY <2>1 DEF Coiner, IInv, KeysCarryOrdinals
  <2> QED
    BY <2>2, <2>3, <2>4
<1> QED
  BY <1>1, Invariance, CoinedHolds, PTL

-----------------------------------------------------------------------------
(* The same call of two attempts.                                          *)

\* Calls are made by attempts that have begun.
CallersBegan == \A c \in Calls : pc[c] # "idle" => c[1] <= cur

\* Where a call coined a key of its own although an earlier attempt's call of
\* its ordinal recorded an intent, that one was recorded, and begun, late.
OriginalsAreLate ==
    \A c, d \in Calls :
        (c[2] = d[2] /\ c[1] < d[1] /\ key[d] = Own(d) /\ intent[Own(c)] # None)
            => late[Own(c)] > 0

\* Attempts are numbers.
LEMMA CallersNumbered == \A c \in Calls : c[1] \in Nat
BY DEF Calls, Attempts, Ordinals

LEMMA CurrentNumbered == TypeOK => cur \in Nat
BY BoundsAssumption DEF TypeOK, Attempts

\* Every step keeps callers among the attempts that have begun.
LEMMA NextBegan ==
    ASSUME TypeOK, CallersBegan, [Next]_vars
    PROVE  CallersBegan'
<1> USE DEF CallersBegan, TypeOK, Go
<1>1. CASE UNCHANGED <<pc, cur>>
  BY <1>1
<1>2. CASE NextAttempt
  <2>1. cur' = cur + 1 /\ pc' = pc /\ cur \in 0 .. MaxAttempts
    BY <1>2 DEF NextAttempt, callVars, Attempts
  <2> QED
    BY <2>1, CallersNumbered, CurrentNumbered
<1>3. ASSUME NEW c \in Calls, Step(c) PROVE CallersBegan'
  <2>1. c[1] <= cur
    BY <1>3 DEF Step, Invoke, Resolve, Claim, StartRetry, Land, AdapterThrows,
       RecordCompleted, RecordError
  <2>2. cur' = cur /\ \A d \in Calls : d # c => pc'[d] = pc[d]
    BY <1>3 DEF Step, Invoke, Resolve, Claim, StartRetry, Land, AdapterThrows,
       RecordCompleted, RecordError, runVars
  <2> QED
    BY <2>1, <2>2
<1>4. CASE Park \/ Lapse \/ UNCHANGED vars
            \/ \E k \in Keys : ConfirmCompleted(k) \/ ClearForRetry(k)
  BY <1>1, <1>4 DEF Park, Lapse, vars, ConfirmCompleted, ClearForRetry,
     callVars, runVars
<1> QED
  BY <1>2, <1>3, <1>4 DEF Next

\* Every step keeps what is late.
LEMMA NextLate ==
    ASSUME IInv, Coined, CallersBegan, OriginalsAreLate, [Next]_vars
    PROVE  OriginalsAreLate'
<1> USE DEF IInv, TypeOK
<1>1. ASSUME UNCHANGED <<intent, key>>,
             \A k \in Keys : late[k] > 0 => late'[k] > 0
      PROVE  OriginalsAreLate'
  BY <1>1, CoinerOwns DEF OriginalsAreLate, Own
<1>2. ASSUME NEW e \in Calls, Resolve(e) PROVE OriginalsAreLate'
  <2>1. UNCHANGED <<intent, late>>
    BY <1>2 DEF Resolve, ledgerVars, worldVars
  <2>2. \A d \in Calls : d # e => key'[d] = key[d]
    BY <1>2 DEF Resolve
  <2>3. CASE Recovered(e) = {}
    <3>1. \A c \in Calls : c[2] = e[2] /\ c[1] < e[1] => intent[Own(c)] = None
      <4> SUFFICES ASSUME NEW c \in Calls, c[2] = e[2], c[1] < e[1],
                          intent[Own(c)] # None
                   PROVE  FALSE
        OBVIOUS
      <4>1. Own(c) \in Keys /\ c[1] # e[1]
        BY CoinerOwns, CallersNumbered
      <4>2. Own(c)[1] = e[2] /\ Own(c)[2] # e[1]
        BY <4>1 DEF Own
      <4> QED
        BY <2>3, <4>1, <4>2 DEF Recovered
    <3> QED
      BY <2>1, <2>2, <3>1 DEF OriginalsAreLate, Own
  <2>4. CASE Recovered(e) # {}
    <3>1. \A k \in Recovered(e) : k # Own(e)
      BY CallParts DEF Recovered, Own
    <3>2. pc[e] = "resolving" /\ key[e] = NoKey
      BY <1>2 DEF Resolve, Coined, Unkeyed
    <3>3. key'[e] = key[e] \/ key'[e] \in Recovered(e)
      BY <1>2, <2>4 DEF Resolve
    <3>4. key'[e] # Own(e)
      BY <3>1, <3>2, <3>3, CoinerOwns, NoKeyIsNone
    <3> QED
      BY <2>1, <2>2, <3>4 DEF OriginalsAreLate, Own
  <2> QED
    BY <2>3, <2>4
<1>3. ASSUME NEW e \in Calls, Claim(e) PROVE OriginalsAreLate'
  <2>1. pc[e] = "keyed" /\ key[e] \in Keys /\ UNCHANGED <<ask, key, cur>>
    BY <1>3 DEF Claim, ClaimedMatches, runVars
  <2>2. CASE Disposition(e) # "execute"
    BY <1>1, <1>3, <2>1, <2>2 DEF Claim
  <2>3. CASE Disposition(e) = "execute"
    <3>1. /\ intent' = [intent EXCEPT ![key[e]] = ask[e]]
          /\ late' = [late EXCEPT ![key[e]] = IF e[1] = cur THEN @ ELSE @ + 1]
      BY <1>3, <2>3 DEF Claim, Enter
    <3>2. intent[key[e]] = None
      BY <2>3 DEF Disposition
    <3>3. key[e] = LegacyKey \/ key[e] = Own(e)
      BY <2>1, <3>2 DEF Coined, TakenOver
    <3>4. ASSUME NEW c \in Calls, NEW d \in Calls,
                 c[2] = d[2], c[1] < d[1], key'[d] = Own(d)',
                 intent'[Own(c)] # None
          PROVE  late'[Own(c)] > 0
      <4>1. Own(c) \in Keys \ {LegacyKey} /\ key[d] = Own(d)
        BY <2>1, <3>4, CoinerOwns DEF Own
      <4>2. CASE Own(c) # key[e]
        <5>1. intent[Own(c)] # None /\ late'[Own(c)] = late[Own(c)]
          BY <2>1, <3>1, <3>4, <4>1, <4>2
        <5> QED
          BY <3>4, <4>1, <5>1 DEF OriginalsAreLate
      <4>3. CASE Own(c) = key[e]
        <5>1. c = e
          BY <3>3, <4>1, <4>3, CoinerOwns
        <5>2. pc[d] # "idle"
          <6>1. key[d] # NoKey
            BY <4>1, CoinerOwns, NoKeyIsNone
          <6> QED
            BY <6>1 DEF Coined, Unkeyed
        <5>3. c[1] # cur
          <6>1. c[1] \in Nat /\ d[1] \in Nat /\ cur \in Nat
            BY CallersNumbered, CurrentNumbered
          <6>2. d[1] <= cur
            BY <5>2 DEF CallersBegan
          <6> QED
            BY <3>4, <6>1, <6>2
        <5>4. late'[Own(c)] = late[Own(c)] + 1
          BY <2>1, <3>1, <4>3, <5>1, <5>3
        <5> QED
          BY <4>1, <5>4
      <4> QED
        BY <4>2, <4>3
    <3> QED
      BY <3>4 DEF OriginalsAreLate, Own
  <2> QED
    BY <2>2, <2>3
<1>4. ASSUME NEW e \in Calls, Step(e), ~ Resolve(e), ~ Claim(e)
      PROVE  OriginalsAreLate'
  <2>1. UNCHANGED <<intent, key>>
    BY <1>4 DEF Step, Invoke, StartRetry, Land, AdapterThrows,
       RecordCompleted, RecordError, ledgerVars
  <2>2. \A k \in Keys : late[k] > 0 => late'[k] > 0
    BY <1>4 DEF Step, Invoke, StartRetry, Land, AdapterThrows,
       RecordCompleted, RecordError, worldVars, Enter
  <2> QED
    BY <1>1, <2>1, <2>2
<1> QED
  BY <1>1, <1>2, <1>3, <1>4, OthersLeaveCalls DEF Next

\* No crash, overlap or lost answer makes a call of the run start again, under
\* its key or another attempt's, that a person has not declared undone, unless
\* an attempt that was replaced met its successor between look-up and record.
THEOREM NeverRepeatedUnaidedTheorem == Spec => []NeverRepeatedUnaided
<1>1. Init => CallersBegan /\ OriginalsAreLate
  BY NoKeyIsNone, CoinerOwns DEF Init, CallersBegan, OriginalsAreLate
<1>2. IInv /\ CallersBegan /\ [Next]_vars => CallersBegan'
  BY NextBegan DEF IInv
<1>3. IInv /\ Coined /\ CallersBegan /\ OriginalsAreLate /\ [Next]_vars =>
        OriginalsAreLate'
  BY NextLate
<1>4. IInv /\ Coined /\ OriginalsAreLate => NeverRepeatedUnaided
  <2> SUFFICES ASSUME IInv, Coined, OriginalsAreLate,
                      NEW k \in Keys \ {LegacyKey}, NEW l \in Keys \ {LegacyKey},
                      k[1] = l[1], k[2] < l[2], started[k] > 0, started[l] > 0
               PROVE  late[k] > 0
    BY DEF NeverRepeatedUnaided, IInv, SecondKeyIsLate
  <2>1. intent[k] # None /\ intent[l] # None
    BY DEF IInv, TypeOK, NoHistoryWithoutIntent
  <2>2. /\ Coiner(k) \in Calls /\ Own(Coiner(k)) = k
        /\ Coiner(l) \in Calls /\ Own(Coiner(l)) = l
    BY CoinerOwns
  <2>3. Coiner(k)[2] = Coiner(l)[2] /\ Coiner(k)[1] < Coiner(l)[1]
    BY DEF Coiner
  <2>4. key[Coiner(l)] = l
    BY <2>1 DEF Coined, CoinedByOwner
  <2> QED
    BY <2>1, <2>2, <2>3, <2>4 DEF OriginalsAreLate
<1> QED
  BY <1>1, <1>2, <1>3, <1>4, Invariance, CoinedHolds, PTL DEF Spec
=============================================================================
