----------------------- MODULE CredentialHandoffProofs ----------------------
(***************************************************************************)
(* What is proved about CredentialHandoff, for any number of requests,     *)
(* submissions and continuations: the type invariant, the invariants the   *)
(* run checks, and that a stored credential is a LeasedObligation.         *)
(*                                                                         *)
(* StoredMeansSealed needs that a submission past its review will find a   *)
(* proposal no older than its request, and that one past the probe has     *)
(* sealed what it found; SucceededMeansDelivered that a continuation about *)
(* to settle has appended its answer; WokenOnlyWhenStored that a           *)
(* continuation is about a stored request, and that stored is for good.    *)
(* WokenAgainAfterSetback counts, beside the runs started, those that may  *)
(* still be: one for each continuation that has not woken the agent, one   *)
(* for a request that can be leased. The obligation counts the same way: a *)
(* lease is spent, or held by a continuation that may still wake.          *)
(* NothingIsStranded needs that a continuation which outlived no lease is  *)
(* alone with its request, so that the attempts are still what it read.    *)
(***************************************************************************)
EXTENDS CredentialHandoff, FiniteSetTheorems, TLAPS

\* A submission past its claim has a request; one past the review will find
\* the proposal it reviewed or a newer one, and one past the probe has sealed
\* the credential for what it found.
SubmissionsKnown ==
    \A s \in Submissions :
        /\ spc[s] # "idle" => sreq[s] \in Requests
        /\ spc[s] = "reviewed" => sreq[s] <= proposed
        /\ spc[s] = "sealed" => \E q \in activated : q >= sreq[s]

\* A continuation is about a stored request, and one that settles has
\* delivered.
ContinuationsKnown ==
    \A e \in Executors :
        /\ epc[e] # "idle" =>
                ereq[e] \in Requests /\ status[ereq[e]] = "stored"
        /\ epc[e] = "settling" => ereq[e] \in delivered

IInv ==
    /\ TypeOK
    /\ SubmissionsKnown
    /\ ContinuationsKnown
    /\ StoredMeansSealed
    /\ WokenOnlyWhenStored
    /\ SucceededMeansDelivered

\* The continuations that may still wake the agent.
Waking(r) == {e \in Executors : ereq[e] = r /\ epc[e] \in ToWake}

\* One more run for a request that can be leased.
Due(r) == IF Free(r) THEN 1 ELSE 0

Accounted ==
    \A r \in Requests :
        wakes[r] + Cardinality(Waking(r)) + Due(r) <= 1 + setbacks[r]

-----------------------------------------------------------------------------
\* The initial states satisfy the invariant.
LEMMA InitInvariant == Init => IInv
<1> SUFFICES ASSUME Init PROVE IInv
  OBVIOUS
<1> USE BoundsAssumption DEF Init
<1>1. TypeOK
  BY DEF TypeOK, Statuses, Open, RunStates, SubmissionPlaces,
     ContinuationStatuses, ExecutorPlaces, ToWake, Awake, Beaten, None
<1>2. SubmissionsKnown /\ ContinuationsKnown
  BY DEF SubmissionsKnown, ContinuationsKnown
<1>3. StoredMeansSealed /\ WokenOnlyWhenStored /\ SucceededMeansDelivered
  BY DEF StoredMeansSealed, WokenOnlyWhenStored, SucceededMeansDelivered
<1> QED
  BY <1>1, <1>2, <1>3 DEF IInv

-----------------------------------------------------------------------------
\* Every step keeps the type invariant.
LEMMA NextType ==
    ASSUME IInv, [Next]_vars
    PROVE  TypeOK'
<1> USE BoundsAssumption DEF IInv, TypeOK, requestVars, submitVars,
        leaseVars, executorVars, outcomeVars
<1>1. ASSUME NEW r \in Requests,
             Propose(r) \/ Ask(r) \/ Stop(r) \/ Decline(r)
                \/ RunStops(r, "parked") \/ RunStops(r, "over") \/ Sweep(r)
      PROVE  TypeOK'
  <2>1. proposed' \in 0 .. MaxRequests
    BY <1>1 DEF Propose, Ask, Stop, Decline, RunStops, Sweep, Requests
  <2>2. status' \in [Requests -> Statuses]
    BY <1>1 DEF Propose, Ask, Stop, Decline, RunStops, Sweep, Statuses, Open
  <2>3. run' \in [Requests -> RunStates]
    BY <1>1 DEF Propose, Ask, Stop, Decline, RunStops, Sweep, RunStates
  <2> QED
    BY <1>1, <2>1, <2>2, <2>3
       DEF Propose, Ask, Stop, Decline, RunStops, Sweep
<1>2. ASSUME NEW r \in Requests, Lapse(r) PROVE TypeOK'
  BY <1>2 DEF Lapse
<1>3. ASSUME NEW s \in Submissions, NEW r \in Requests, Submit(s, r)
      PROVE  TypeOK'
  BY <1>3 DEF Submit, SGo, Statuses, Open, SubmissionPlaces
<1>4. ASSUME NEW s \in Submissions,
             Review(s) \/ Activate(s) \/ Reject(s) \/ Store(s) \/ GiveBack(s)
                \/ SubmissionDies(s)
      PROVE  TypeOK'
  <2>1. sreq[s] \in Requests
    BY <1>4 DEF Review, Activate, Reject, Store, GiveBack, SubmissionDies,
       SubmissionsKnown
  <2>2. status' \in [Requests -> Statuses]
    BY <1>4 DEF Review, Activate, Reject, Store, GiveBack, SubmissionDies,
       Statuses, Open
  <2>3. /\ spc' \in [Submissions -> SubmissionPlaces]
        /\ sreq' \in [Submissions -> Requests \cup {None}]
    BY <1>4, <2>1 DEF Review, Activate, Reject, Store, GiveBack,
       SubmissionDies, SGo, SubmissionPlaces
  <2>4. activated' \subseteq Requests /\ crashes' \in Nat
    <3>1. spc[s] = "reviewed" => proposed \in Requests
      BY <2>1 DEF SubmissionsKnown, Requests
    <3> QED
      BY <1>4, <3>1 DEF Review, Activate, Seals, Reject, Store, GiveBack,
         SubmissionDies
  <2> QED
    BY <1>4, <2>2, <2>3, <2>4
       DEF Review, Activate, Reject, Store, GiveBack, SubmissionDies
<1>5. ASSUME NEW e \in Executors, NEW r \in Requests, Claim(e, r)
      PROVE  TypeOK'
  <2>1. attempts' \in [Requests -> 0 .. MaxAttempts]
    BY <1>5 DEF Claim, Claimable, Owed
  <2>2. /\ cont' \in [Requests -> ContinuationStatuses]
        /\ epc' \in [Executors -> ExecutorPlaces]
        /\ ereq' \in [Executors -> Requests \cup {None}]
        /\ lapsed' \subseteq Requests
    BY <1>5 DEF Claim, EGo, ContinuationStatuses, ExecutorPlaces, ToWake
  <2> QED
    BY <1>5, <2>1, <2>2 DEF Claim
<1>6. ASSUME NEW e \in Executors, Goes(e) \/ ExecutorDies(e) PROVE TypeOK'
  <2>1. ereq[e] \in Requests
    BY <1>6 DEF Goes, ReadOrigin, ReadAttempts, Resume, FollowUp, RunEnds,
       Throw, Append, Succeed, GiveUp, ExecutorDies, ContinuationsKnown,
       ToWake, Awake, Beaten
  <2>2. /\ epc' \in [Executors -> ExecutorPlaces]
        /\ ereq' \in [Executors -> Requests \cup {None}]
    BY <1>6, <2>1 DEF Goes, ReadOrigin, ReadAttempts, Resume, FollowUp,
       RunEnds, AfterRun, Throw, Append, Succeed, GiveUp, ExecutorDies, EGo,
       ExecutorPlaces, ToWake, Awake, Beaten
  <2>3. run' \in [Requests -> RunStates]
    BY <1>6 DEF Goes, ReadOrigin, ReadAttempts, Resume, FollowUp, RunEnds,
       RunDone, Throw, Append, Succeed, GiveUp, ExecutorDies, RunStates
  <2>4. /\ cont' \in [Requests -> ContinuationStatuses]
        /\ continued' \subseteq Requests
        /\ setbacks' \in [Requests -> Nat]
    BY <1>6, <2>1 DEF Goes, ReadOrigin, ReadAttempts, Resume, FollowUp,
       RunEnds, Throw, Append, Succeed, GiveUp, ExecutorDies,
       ContinuationStatuses
  <2>5. /\ wakes' \in [Requests -> Nat] /\ delivered' \subseteq Requests
        /\ crashes' \in Nat
    BY <1>6, <2>1 DEF Goes, ReadOrigin, ReadAttempts, Resume, FollowUp, Wake,
       RunEnds, Throw, Append, Succeed, GiveUp, ExecutorDies
  <2> QED
    BY <1>6, <2>2, <2>3, <2>4, <2>5 DEF Goes, ReadOrigin, ReadAttempts, Resume,
       FollowUp, RunEnds, Throw, Append, Succeed, GiveUp, ExecutorDies
<1>7. CASE UNCHANGED vars
  BY <1>7 DEF vars
<1> QED
  BY <1>1, <1>2, <1>3, <1>4, <1>5, <1>6, <1>7 DEF Next

-----------------------------------------------------------------------------
\* A stored request stays stored.
LEMMA StoredStays ==
    ASSUME IInv, [Next]_vars, NEW r \in Requests, status[r] = "stored"
    PROVE  status'[r] = "stored"
<1> USE DEF IInv, TypeOK, requestVars
<1>1. ASSUME NEW q \in Requests,
             Propose(q) \/ Ask(q) \/ Stop(q) \/ Decline(q)
                \/ RunStops(q, "parked") \/ RunStops(q, "over") \/ Sweep(q)
                \/ Lapse(q)
      PROVE  status'[r] = "stored"
  BY <1>1 DEF Propose, Ask, Stop, Decline, RunStops, Sweep, Lapse, Open
<1>2. ASSUME NEW s \in Submissions, NEW q \in Requests, Submit(s, q)
      PROVE  status'[r] = "stored"
  BY <1>2 DEF Submit, Open
<1>3. ASSUME NEW s \in Submissions,
             Review(s) \/ Activate(s) \/ Reject(s) \/ Store(s) \/ GiveBack(s)
                \/ SubmissionDies(s)
      PROVE  status'[r] = "stored"
  BY <1>3 DEF Review, Activate, Reject, Store, GiveBack, SubmissionDies
<1>4. ASSUME NEW e \in Executors,
             Goes(e) \/ ExecutorDies(e) \/ \E q \in Requests : Claim(e, q)
      PROVE  status'[r] = "stored"
  BY <1>4 DEF Goes, ReadOrigin, ReadAttempts, Resume, FollowUp, RunEnds, Throw,
     Append, Succeed, GiveUp, ExecutorDies, Claim
<1>5. CASE UNCHANGED vars
  BY <1>5 DEF vars
<1> QED
  BY <1>1, <1>2, <1>3, <1>4, <1>5 DEF Next

\* Every step keeps what submissions know, and a request is stored only with
\* its credential sealed.
LEMMA NextSubmissions ==
    ASSUME IInv, [Next]_vars
    PROVE  SubmissionsKnown' /\ StoredMeansSealed'
<1> USE DEF IInv, TypeOK, requestVars, submitVars
<1>1. ASSUME NEW r \in Requests,
             Propose(r) \/ Ask(r) \/ Stop(r) \/ Decline(r)
                \/ RunStops(r, "parked") \/ RunStops(r, "over") \/ Sweep(r)
                \/ Lapse(r)
      PROVE  SubmissionsKnown' /\ StoredMeansSealed'
  <2>1. /\ activated' = activated /\ spc' = spc /\ sreq' = sreq
        /\ proposed' \in Nat /\ proposed <= proposed'
    BY <1>1 DEF Propose, Ask, Stop, Decline, RunStops, Sweep, Lapse, Requests
  <2>2. \A q \in Requests : status'[q] = "stored" => status[q] = "stored"
    BY <1>1 DEF Propose, Ask, Stop, Decline, RunStops, Sweep, Lapse
  <2> QED
    BY <2>1, <2>2 DEF SubmissionsKnown, StoredMeansSealed, Requests
<1>2. ASSUME NEW s \in Submissions, NEW r \in Requests, Submit(s, r)
      PROVE  SubmissionsKnown' /\ StoredMeansSealed'
  BY <1>2 DEF Submit, SGo, SubmissionsKnown, StoredMeansSealed
<1>3. ASSUME NEW s \in Submissions, Activate(s)
      PROVE  SubmissionsKnown' /\ StoredMeansSealed'
  <2>1. sreq[s] \in Requests /\ sreq[s] <= proposed
    BY <1>3 DEF Activate, SubmissionsKnown
  <2>2. activated' = activated \cup {proposed}
    BY <1>3 DEF Activate, Seals
  <2>3. SubmissionsKnown'
    BY <1>3, <2>1, <2>2 DEF Activate, SGo, SubmissionsKnown, Requests
  <2>4. StoredMeansSealed'
    BY <1>3, <2>2 DEF Activate, StoredMeansSealed
  <2> QED
    BY <2>3, <2>4
<1>4. ASSUME NEW s \in Submissions, Store(s)
      PROVE  SubmissionsKnown' /\ StoredMeansSealed'
  <2>1. sreq[s] \in Requests /\ \E q \in activated : q >= sreq[s]
    BY <1>4 DEF Store, SubmissionsKnown
  <2>2. \A q \in Requests : status'[q] = "stored" =>
            status[q] = "stored" \/ q = sreq[s]
    BY <1>4, <2>1 DEF Store
  <2> QED
    BY <1>4, <2>1, <2>2 DEF Store, SGo, SubmissionsKnown, StoredMeansSealed
<1>5. ASSUME NEW s \in Submissions,
             Review(s) \/ Reject(s) \/ GiveBack(s) \/ SubmissionDies(s)
      PROVE  SubmissionsKnown' /\ StoredMeansSealed'
  <2>1. UNCHANGED <<proposed, activated>> /\ proposed \in Nat
    BY <1>5 DEF Review, Reject, GiveBack, SubmissionDies
  <2>2. \A q \in Requests : status'[q] = "stored" => status[q] = "stored"
    BY <1>5 DEF Review, Reject, GiveBack, SubmissionDies
  <2>3. \A u \in Submissions : u # s => spc'[u] = spc[u] /\ sreq'[u] = sreq[u]
    BY <1>5 DEF Review, Reject, GiveBack, SubmissionDies, SGo
  <2>4. /\ spc'[s] # "idle" => sreq'[s] \in Requests
        /\ spc'[s] = "reviewed" => sreq'[s] <= proposed
        /\ spc'[s] # "sealed"
    BY <1>5 DEF Review, Reject, GiveBack, SubmissionDies, SGo,
       SubmissionsKnown
  <2> QED
    BY <2>1, <2>2, <2>3, <2>4 DEF SubmissionsKnown, StoredMeansSealed
<1>6. ASSUME NEW e \in Executors,
             Goes(e) \/ ExecutorDies(e) \/ \E r \in Requests : Claim(e, r)
      PROVE  SubmissionsKnown' /\ StoredMeansSealed'
  <2>1. UNCHANGED <<spc, sreq, proposed, activated, status>>
    BY <1>6 DEF Goes, ReadOrigin, ReadAttempts, Resume, FollowUp, RunEnds,
       Throw, Append, Succeed, GiveUp, ExecutorDies, Claim
  <2> QED
    BY <2>1 DEF SubmissionsKnown, StoredMeansSealed
<1>7. CASE UNCHANGED vars
  BY <1>7 DEF vars, SubmissionsKnown, StoredMeansSealed
<1> QED
  BY <1>1, <1>2, <1>3, <1>4, <1>5, <1>6, <1>7 DEF Next

\* Every step keeps what continuations know, wakes an agent only for a stored
\* request, and settles as succeeded only what is delivered.
LEMMA NextContinuations ==
    ASSUME IInv, [Next]_vars
    PROVE  /\ ContinuationsKnown' /\ WokenOnlyWhenStored'
           /\ SucceededMeansDelivered'
<1> USE DEF IInv, TypeOK, executorVars, leaseVars, outcomeVars
<1>1. \A r \in Requests : status[r] = "stored" => status'[r] = "stored"
  BY StoredStays
<1>2. CASE UNCHANGED <<executorVars, cont, outcomeVars>>
  BY <1>1, <1>2
     DEF ContinuationsKnown, WokenOnlyWhenStored, SucceededMeansDelivered
<1>3. ASSUME NEW e \in Executors, NEW r \in Requests, Claim(e, r)
      PROVE  /\ ContinuationsKnown' /\ WokenOnlyWhenStored'
             /\ SucceededMeansDelivered'
  <2>1. status[r] = "stored"
    BY <1>3 DEF Claim, Claimable, Owed
  <2> QED
    BY <1>1, <1>3, <2>1 DEF Claim, EGo, ContinuationsKnown,
       WokenOnlyWhenStored, SucceededMeansDelivered
<1>4. ASSUME NEW e \in Executors,
             ReadOrigin(e) \/ RunEnds(e) \/ Throw(e) \/ Append(e)
                \/ ReadAttempts(e)
      PROVE  /\ ContinuationsKnown' /\ WokenOnlyWhenStored'
             /\ SucceededMeansDelivered'
  BY <1>1, <1>4 DEF ReadOrigin, ReadAttempts, RunEnds, AfterRun, Throw, Append,
     EGo, ToWake, Awake, ContinuationsKnown, WokenOnlyWhenStored,
     SucceededMeansDelivered
<1>5. ASSUME NEW e \in Executors, Resume(e) \/ FollowUp(e)
      PROVE  /\ ContinuationsKnown' /\ WokenOnlyWhenStored'
             /\ SucceededMeansDelivered'
  <2>1. PICK r \in Requests : r = ereq[e] /\ status[r] = "stored"
    BY <1>5 DEF Resume, FollowUp, ContinuationsKnown
  <2>2. wakes' = [wakes EXCEPT ![r] = @ + 1]
    BY <1>5, <2>1 DEF Resume, FollowUp, Wake
  <2>3. WokenOnlyWhenStored'
    BY <1>1, <2>1, <2>2 DEF WokenOnlyWhenStored
  <2>4. ContinuationsKnown' /\ SucceededMeansDelivered'
    BY <1>1, <1>5 DEF Resume, FollowUp, EGo, ContinuationsKnown,
       SucceededMeansDelivered
  <2> QED
    BY <2>3, <2>4
<1>6. ASSUME NEW e \in Executors, Succeed(e) \/ GiveUp(e)
      PROVE  /\ ContinuationsKnown' /\ WokenOnlyWhenStored'
             /\ SucceededMeansDelivered'
  <2>1. ereq[e] \in Requests
    BY <1>6 DEF Succeed, GiveUp, Beaten, ContinuationsKnown
  <2>2. SucceededMeansDelivered'
    BY <1>6, <2>1 DEF Succeed, GiveUp, ContinuationsKnown,
       SucceededMeansDelivered
  <2>3. ContinuationsKnown' /\ WokenOnlyWhenStored'
    BY <1>1, <1>6 DEF Succeed, GiveUp, EGo, ContinuationsKnown,
       WokenOnlyWhenStored
  <2> QED
    BY <2>2, <2>3
<1>7. ASSUME NEW e \in Executors, ExecutorDies(e)
      PROVE  /\ ContinuationsKnown' /\ WokenOnlyWhenStored'
             /\ SucceededMeansDelivered'
  BY <1>1, <1>7 DEF ExecutorDies, EGo, ContinuationsKnown,
     WokenOnlyWhenStored, SucceededMeansDelivered
<1>8. ASSUME NEW r \in Requests,
             Propose(r) \/ Ask(r) \/ Stop(r) \/ Decline(r)
                \/ RunStops(r, "parked") \/ RunStops(r, "over") \/ Sweep(r)
                \/ Lapse(r)
      PROVE  UNCHANGED <<executorVars, cont, outcomeVars>>
  BY <1>8 DEF Propose, Ask, Stop, Decline, RunStops, Sweep, Lapse
<1>9. ASSUME NEW s \in Submissions,
             Review(s) \/ Activate(s) \/ Reject(s) \/ Store(s) \/ GiveBack(s)
                \/ SubmissionDies(s) \/ \E r \in Requests : Submit(s, r)
      PROVE  UNCHANGED <<executorVars, cont, outcomeVars>>
  BY <1>9 DEF Review, Activate, Reject, Store, GiveBack, SubmissionDies, Submit
<1>10. CASE UNCHANGED vars
  BY <1>2, <1>10 DEF vars
<1> QED
  BY <1>2, <1>3, <1>4, <1>5, <1>6, <1>7, <1>8, <1>9, <1>10 DEF Next, Goes

\* All of the invariant along every behaviour.
LEMMA Invariance == Spec => []IInv
<1>1. IInv /\ [Next]_vars => IInv'
  BY NextType, NextSubmissions, NextContinuations DEF IInv
<1> QED
  BY InitInvariant, <1>1, PTL DEF Spec

\* Requests, submissions, leases and continuations keep their types, the
\* attempts their limit.
THEOREM TypeCorrect == Spec => []TypeOK
<1>1. IInv => TypeOK
  BY DEF IInv
<1> QED
  BY Invariance, <1>1, PTL

\* A request shown as stored has a credential sealed for its revision or a
\* later one, however many people submit it and whatever is proposed meanwhile.
THEOREM StoredMeansSealedTheorem == Spec => []StoredMeansSealed
<1>1. IInv => StoredMeansSealed
  BY DEF IInv
<1> QED
  BY Invariance, <1>1, PTL

\* A declined, expired or unanswered request wakes nobody.
THEOREM WokenOnlyWhenStoredTheorem == Spec => []WokenOnlyWhenStored
<1>1. IInv => WokenOnlyWhenStored
  BY DEF IInv
<1> QED
  BY Invariance, <1>1, PTL

\* A continuation settled as succeeded has its answer in the conversation.
THEOREM SucceededMeansDeliveredTheorem == Spec => []SucceededMeansDelivered
<1>1. IInv => SucceededMeansDelivered
  BY DEF IInv
<1> QED
  BY Invariance, <1>1, PTL

-----------------------------------------------------------------------------
\* The continuations that may still wake the agent are finitely many.
LEMMA WakingFinite ==
    ASSUME NEW r
    PROVE  IsFiniteSet(Waking(r)) /\ Cardinality(Waking(r)) \in Nat
BY ExecutorsAssumption, FS_Subset, FS_CardinalityType DEF Waking

\* A step that starts no run, lets no further continuation start one and lets
\* no request be leased anew but for a setback keeps the account.
LEMMA AccountKept ==
    ASSUME TypeOK, Accounted, wakes' = wakes,
           setbacks' \in [Requests -> Nat],
           \A r \in Requests : Due(r)' - setbacks'[r] <= Due(r) - setbacks[r],
           \A r \in Requests : Waking(r)' \subseteq Waking(r)
    PROVE  Accounted'
<1> SUFFICES ASSUME NEW r \in Requests
             PROVE  wakes'[r] + Cardinality(Waking(r)') + Due(r)'
                        <= 1 + setbacks'[r]
  BY DEF Accounted
<1>1. Cardinality(Waking(r)') <= Cardinality(Waking(r))
  BY WakingFinite, FS_Subset
<1>2. /\ Cardinality(Waking(r)) \in Nat /\ Cardinality(Waking(r)') \in Nat
      /\ Due(r) \in Nat /\ Due(r)' \in Nat
  <2>1. IsFiniteSet(Waking(r)')
    BY WakingFinite, FS_Subset
  <2> QED
    BY <2>1, WakingFinite, FS_CardinalityType DEF Due
<1>3. wakes[r] + Cardinality(Waking(r)) + Due(r) <= 1 + setbacks[r]
  BY DEF Accounted
<1>4. Due(r)' - setbacks'[r] <= Due(r) - setbacks[r]
  OBVIOUS
<1> QED
  BY <1>1, <1>2, <1>3, <1>4 DEF TypeOK

\* Every step keeps the account of the runs to come.
LEMMA NextAccounted ==
    ASSUME IInv, Accounted, [Next]_vars
    PROVE  Accounted'
<1> USE DEF IInv, requestVars, submitVars, leaseVars, executorVars,
        outcomeVars
<1>1. CASE UNCHANGED <<cont, lapsed, setbacks, executorVars, outcomeVars>>
  BY <1>1 DEF Accounted, Waking, Due, Free
<1>2. ASSUME NEW r \in Requests,
             Propose(r) \/ Ask(r) \/ Stop(r) \/ Decline(r)
                \/ RunStops(r, "parked") \/ RunStops(r, "over") \/ Sweep(r)
      PROVE  Accounted'
  BY <1>1, <1>2 DEF Propose, Ask, Stop, Decline, RunStops, Sweep
<1>3. ASSUME NEW s \in Submissions,
             Review(s) \/ Activate(s) \/ Reject(s) \/ Store(s) \/ GiveBack(s)
                \/ SubmissionDies(s) \/ \E r \in Requests : Submit(s, r)
      PROVE  Accounted'
  BY <1>1, <1>3 DEF Review, Activate, Reject, Store, GiveBack, SubmissionDies,
     Submit
<1>4. ASSUME NEW r \in Requests, Lapse(r) PROVE Accounted'
  <2>1. \A q \in Requests : Waking(q)' = Waking(q)
    BY <1>4 DEF Lapse, Waking
  <2>2. wakes' = wakes /\ setbacks' \in [Requests -> Nat]
    BY <1>4 DEF Lapse, TypeOK
  <2>3. \A q \in Requests : Due(q)' - setbacks'[q] <= Due(q) - setbacks[q]
    BY <1>4 DEF Lapse, Due, Free, TypeOK
  <2> QED
    BY <2>1, <2>2, <2>3, AccountKept
<1>5. ASSUME NEW e \in Executors, NEW r \in Requests, Claim(e, r)
      PROVE  Accounted'
  <2>1. Waking(r)' = Waking(r) \cup {e} /\ e \notin Waking(r)
    BY <1>5 DEF Claim, EGo, Waking, ToWake, TypeOK
  <2>2. Cardinality(Waking(r)') = Cardinality(Waking(r)) + 1
    BY <2>1, WakingFinite, FS_AddElement
  <2>3. Due(r) = 1 /\ Due(r)' = 0
    BY <1>5 DEF Claim, Claimable, Due, Free, TypeOK
  <2>4. \A q \in Requests : q # r =>
            Waking(q)' = Waking(q) /\ Due(q)' = Due(q)
    BY <1>5 DEF Claim, EGo, Waking, ToWake, Due, Free, TypeOK
  <2>5. wakes' = wakes /\ setbacks' = setbacks
    BY <1>5 DEF Claim
  <2>6. wakes[r] + Cardinality(Waking(r)') + Due(r)' <= 1 + setbacks[r]
    BY <2>2, <2>3, WakingFinite DEF Accounted, TypeOK
  <2> QED
    BY <2>4, <2>5, <2>6 DEF Accounted
<1>6. ASSUME NEW e \in Executors, Resume(e) \/ FollowUp(e)
      PROVE  Accounted'
  <2>1. PICK r \in Requests : r = ereq[e]
    BY <1>6 DEF Resume, FollowUp, ContinuationsKnown
  <2>2. Waking(r)' = Waking(r) \ {e} /\ e \in Waking(r)
    BY <1>6, <2>1 DEF Resume, FollowUp, EGo, Waking, ToWake, TypeOK
  <2>3. Cardinality(Waking(r)') = Cardinality(Waking(r)) - 1
    BY <2>2, WakingFinite, FS_RemoveElement
  <2>4. wakes' = [wakes EXCEPT ![r] = @ + 1] /\ setbacks' = setbacks
    BY <1>6, <2>1 DEF Resume, FollowUp, Wake
  <2>5. /\ \A q \in Requests : Due(q)' = Due(q)
        /\ \A q \in Requests : q # r => Waking(q)' = Waking(q)
    BY <1>6, <2>1 DEF Resume, FollowUp, EGo, Waking, ToWake, Due, Free, TypeOK
  <2>6. Due(r) \in Nat /\ Due(r)' = Due(r)
    BY <2>1, <2>5 DEF Due
  <2>7. wakes'[r] + Cardinality(Waking(r)') + Due(r)' <= 1 + setbacks[r]
    BY <2>3, <2>4, <2>6, WakingFinite DEF Accounted, TypeOK
  <2> QED
    BY <2>4, <2>5, <2>7 DEF Accounted, TypeOK
<1>7. ASSUME NEW e \in Executors,
             ReadOrigin(e) \/ RunEnds(e) \/ Throw(e) \/ Append(e)
                \/ ReadAttempts(e)
                \/ ExecutorDies(e)
      PROVE  Accounted'
  <2>1. UNCHANGED <<cont, lapsed, setbacks, wakes>>
    BY <1>7 DEF ReadOrigin, ReadAttempts, RunEnds, Throw, Append, ExecutorDies
  <2>2. \A q \in Requests : Waking(q)' \subseteq Waking(q)
    BY <1>7 DEF ReadOrigin, ReadAttempts, RunEnds, AfterRun, Throw, Append,
       ExecutorDies, EGo, Waking, ToWake, Awake, TypeOK
  <2>3. /\ setbacks' \in [Requests -> Nat]
        /\ \A q \in Requests : Due(q)' - setbacks'[q] <= Due(q) - setbacks[q]
    BY <2>1 DEF Due, Free, TypeOK
  <2> QED
    BY <2>1, <2>2, <2>3, AccountKept
<1>8. ASSUME NEW e \in Executors, Succeed(e) \/ GiveUp(e)
      PROVE  Accounted'
  <2>1. PICK r \in Requests : r = ereq[e]
    BY <1>8 DEF Succeed, GiveUp, Beaten, ContinuationsKnown
  <2>2. \A q \in Requests : Waking(q)' \subseteq Waking(q)
    BY <1>8 DEF Succeed, GiveUp, EGo, Waking, ToWake, TypeOK
  <2>3. wakes' = wakes /\ setbacks' \in [Requests -> Nat]
    BY <1>8, <2>1 DEF Succeed, GiveUp, TypeOK
  <2>4. \A q \in Requests : Due(q)' - setbacks'[q] <= Due(q) - setbacks[q]
    BY <1>8, <2>1 DEF Succeed, GiveUp, Due, Free, TypeOK
  <2> QED
    BY <2>2, <2>3, <2>4, AccountKept
<1>9. CASE UNCHANGED vars
  BY <1>1, <1>9 DEF vars
<1> QED
  BY <1>2, <1>3, <1>4, <1>5, <1>6, <1>7, <1>8, <1>9 DEF Next, Goes

\* An agent is woken again for one credential only after a recorded setback,
\* for any number of continuations of any number of requests.
THEOREM WokenAgainAfterSetbackTheorem == Spec => []WokenAgainAfterSetback
<1>1. Init => Accounted
  <2> SUFFICES ASSUME Init PROVE Accounted
    OBVIOUS
  <2>1. \A r \in Requests : Waking(r) = {} /\ Due(r) = 1
    BY DEF Init, Waking, ToWake, Due, Free
  <2>2. Cardinality({}) = 0
    BY FS_EmptySet
  <2>3. \A r \in Requests : Cardinality(Waking(r)) = 0
    BY <2>1, <2>2
  <2>4. \A r \in Requests : wakes[r] = 0 /\ setbacks[r] = 0
    BY DEF Init
  <2> QED
    BY <2>1, <2>3, <2>4 DEF Accounted
<1>2. IInv /\ Accounted /\ [Next]_vars => Accounted'
  BY NextAccounted
<1>3. IInv /\ Accounted => WokenAgainAfterSetback
  <2> SUFFICES ASSUME IInv, Accounted, NEW r \in Requests
               PROVE  wakes[r] <= 1 + setbacks[r]
    BY DEF WokenAgainAfterSetback
  <2>1. Cardinality(Waking(r)) \in Nat /\ Due(r) \in Nat
    BY WakingFinite DEF Due
  <2> QED
    BY <2>1 DEF Accounted, IInv, TypeOK
<1> QED
  BY Invariance, <1>1, <1>2, <1>3, PTL DEF Spec

-----------------------------------------------------------------------------
(* What a stored credential owes the agent.                                *)

\* A lease that has not been used up is a continuation's that may still wake
\* the agent.
LeasesSpent ==
    \A r \in Requests : wakes[r] + Cardinality(Waking(r)) <= attempts[r]

\* Steps that take no lease and start no run, and after which no further
\* continuation is about to start one, spend no lease.
LEMMA SpendingKept ==
    ASSUME LeasesSpent, TypeOK, wakes' = wakes, attempts' = attempts,
           \A r \in Requests : Waking(r)' \subseteq Waking(r)
    PROVE  LeasesSpent'
<1> SUFFICES ASSUME NEW r \in Requests
             PROVE  wakes[r] + Cardinality(Waking(r)') <= attempts[r]
  BY DEF LeasesSpent
<1>1. Cardinality(Waking(r)') <= Cardinality(Waking(r))
  BY WakingFinite, FS_Subset
<1>2. Cardinality(Waking(r)) \in Nat /\ Cardinality(Waking(r)') \in Nat
  <2>1. IsFiniteSet(Waking(r)')
    BY WakingFinite, FS_Subset
  <2> QED
    BY <2>1, WakingFinite, FS_CardinalityType
<1>3. wakes[r] + Cardinality(Waking(r)) <= attempts[r]
  BY DEF LeasesSpent
<1> QED
  BY <1>1, <1>2, <1>3 DEF TypeOK

\* A claim takes a lease for one more continuation; a run that starts spends
\* the lease of the continuation that starts it.
LEMMA LeaseTaken ==
    ASSUME IInv, LeasesSpent,
           NEW e \in Executors, NEW r \in Requests, Claim(e, r)
    PROVE  LeasesSpent'
<1> USE DEF IInv, outcomeVars
<1>1. Waking(r)' = Waking(r) \cup {e} /\ e \notin Waking(r)
  BY DEF Claim, EGo, Waking, ToWake, TypeOK
<1>2. Cardinality(Waking(r)') = Cardinality(Waking(r)) + 1
  BY <1>1, WakingFinite, FS_AddElement
<1>3. \A q \in Requests : q # r => Waking(q)' = Waking(q)
  BY DEF Claim, EGo, Waking, ToWake, TypeOK
<1>4. wakes' = wakes /\ attempts' = [attempts EXCEPT ![r] = @ + 1]
  BY DEF Claim
<1>5. wakes'[r] + Cardinality(Waking(r)') <= attempts'[r]
  BY <1>2, <1>4, WakingFinite DEF LeasesSpent, TypeOK
<1> QED
  BY <1>3, <1>4, <1>5 DEF LeasesSpent, TypeOK

LEMMA LeaseSpent ==
    ASSUME IInv, LeasesSpent,
           NEW e \in Executors, Resume(e) \/ FollowUp(e)
    PROVE  /\ ereq[e] \in Requests /\ wakes[ereq[e]] < attempts[ereq[e]]
           /\ LeasesSpent'
<1> USE DEF IInv, leaseVars
<1>1. PICK r \in Requests : r = ereq[e]
  BY DEF Resume, FollowUp, ContinuationsKnown
<1>2. Waking(r)' = Waking(r) \ {e} /\ e \in Waking(r)
  BY <1>1 DEF Resume, FollowUp, EGo, Waking, ToWake, TypeOK
<1>3. Cardinality(Waking(r)') = Cardinality(Waking(r)) - 1
  BY <1>2, WakingFinite, FS_RemoveElement
<1>4. Cardinality(Waking(r)') \in Nat
  <2>1. IsFiniteSet(Waking(r)')
    BY <1>2, WakingFinite, FS_RemoveElement
  <2> QED
    BY <2>1, FS_CardinalityType
<1>5. \A q \in Requests : q # r => Waking(q)' = Waking(q)
  BY <1>1 DEF Resume, FollowUp, EGo, Waking, ToWake, TypeOK
<1>6. wakes' = [wakes EXCEPT ![r] = @ + 1] /\ attempts' = attempts
  BY <1>1 DEF Resume, FollowUp, Wake
<1>7. wakes[r] + Cardinality(Waking(r)) <= attempts[r]
  BY DEF LeasesSpent
<1>8. wakes[r] < attempts[r]
  BY <1>3, <1>4, <1>7, WakingFinite DEF TypeOK
<1>9. wakes'[r] + Cardinality(Waking(r)') <= attempts'[r]
  BY <1>3, <1>6, <1>7, WakingFinite DEF TypeOK
<1> QED
  BY <1>1, <1>5, <1>6, <1>8, <1>9 DEF LeasesSpent, TypeOK

\* The steps of a continuation that neither take a lease nor start a run, and
\* those of everybody else.
OtherSteps(e) ==
    \/ ReadOrigin(e) \/ RunEnds(e) \/ Throw(e) \/ Append(e) \/ Succeed(e)
    \/ ReadAttempts(e) \/ GiveUp(e) \/ ExecutorDies(e)

LEMMA StepCases ==
    ASSUME [Next]_vars
    PROVE  \/ UNCHANGED <<status, leaseVars, executorVars, outcomeVars>>
           \/ \E r \in Requests :
                Ask(r) \/ Decline(r) \/ Lapse(r)
           \/ \E s \in Submissions :
                \/ \E r \in Requests : Submit(s, r)
                \/ Store(s) \/ GiveBack(s)
           \/ \E e \in Executors, r \in Requests : Claim(e, r)
           \/ \E e \in Executors :
                Resume(e) \/ FollowUp(e) \/ OtherSteps(e)
<1> USE DEF requestVars
<1>1. CASE \E r \in Requests :
              Propose(r) \/ Stop(r) \/ RunStops(r, "parked")
                \/ RunStops(r, "over") \/ Sweep(r)
  BY <1>1 DEF Propose, Stop, RunStops, Sweep
<1>2. CASE \E s \in Submissions :
              Review(s) \/ Activate(s) \/ Reject(s) \/ SubmissionDies(s)
  BY <1>2 DEF Review, Activate, Reject, SubmissionDies
<1>3. CASE UNCHANGED vars
  BY <1>3 DEF vars, leaseVars, executorVars, outcomeVars
<1> QED
  BY <1>1, <1>2, <1>3 DEF Next, Goes, OtherSteps

\* Every step keeps the leases' account.
LEMMA NextSpent ==
    ASSUME IInv, LeasesSpent, [Next]_vars
    PROVE  LeasesSpent'
<1> USE DEF IInv, leaseVars, executorVars, outcomeVars
<1>1. CASE UNCHANGED <<attempts, wakes, executorVars>>
  BY <1>1 DEF LeasesSpent, Waking
<1>2. ASSUME NEW r \in Requests, Ask(r) \/ Decline(r) \/ Lapse(r)
      PROVE  LeasesSpent'
  BY <1>1, <1>2 DEF Ask, Decline, Lapse
<1>3. ASSUME NEW s \in Submissions,
             Store(s) \/ GiveBack(s) \/ \E r \in Requests : Submit(s, r)
      PROVE  LeasesSpent'
  BY <1>1, <1>3 DEF Store, GiveBack, Submit
<1>4. ASSUME NEW e \in Executors, OtherSteps(e)
      PROVE  LeasesSpent'
  <2>1. wakes' = wakes /\ attempts' = attempts
    BY <1>4 DEF OtherSteps, ReadOrigin, ReadAttempts, RunEnds, Throw, Append,
       Succeed, GiveUp, ExecutorDies
  <2>2. \A q \in Requests : Waking(q)' \subseteq Waking(q)
    BY <1>4 DEF OtherSteps, ReadOrigin, ReadAttempts, RunEnds, AfterRun, Throw,
       Append, Succeed, GiveUp, ExecutorDies, EGo, Waking, ToWake, Awake,
       TypeOK
  <2> QED
    BY <2>1, <2>2, SpendingKept
<1> QED
  BY <1>1, <1>2, <1>3, <1>4, StepCases, LeaseTaken, LeaseSpent

\* What a step does to one request, seen from outside.
Outside(r) ==
    \/ /\ Stage(r) = "none" /\ Stage(r)' = "owed"
       /\ attempts' = attempts /\ wakes' = wakes
    \/ /\ Stage(r) # "closed" /\ Stage(r)' = "closed"
       /\ attempts' = attempts /\ wakes' = wakes
    \/ /\ Stage(r) = "owed" /\ Stage(r)' = Stage(r)
       /\ attempts[r] < MaxAttempts
       /\ attempts' = [attempts EXCEPT ![r] = @ + 1] /\ wakes' = wakes
    \/ /\ Stage(r)' = Stage(r) /\ wakes[r] < attempts[r]
       /\ wakes' = [wakes EXCEPT ![r] = @ + 1] /\ attempts' = attempts

\* Every step is a stutter or does one of these to one request.
LEMMA RequestSteps ==
    ASSUME IInv, LeasesSpent, [Next]_vars
    PROVE  \/ /\ \A q \in Requests : Stage(q)' = Stage(q)
              /\ attempts' = attempts /\ wakes' = wakes
           \/ \E r \in Requests :
                /\ \A q \in Requests : q # r => Stage(q)' = Stage(q)
                /\ Outside(r)
<1> DEFINE Goal ==
           \/ /\ \A q \in Requests : Stage(q)' = Stage(q)
              /\ attempts' = attempts /\ wakes' = wakes
           \/ \E r \in Requests :
                /\ \A q \in Requests : q # r => Stage(q)' = Stage(q)
                /\ Outside(r)
<1> USE DEF IInv, TypeOK, requestVars, leaseVars, outcomeVars
<1>1. CASE UNCHANGED <<status, leaseVars, executorVars, outcomeVars>>
  BY <1>1 DEF Stage
<1>2. ASSUME NEW r \in Requests, Ask(r) \/ Decline(r) \/ Lapse(r)
      PROVE  Goal
  <2>1. \A q \in Requests : (status'[q] = "stored") <=> (status[q] = "stored")
    BY <1>2 DEF Ask, Decline, Lapse, Open
  <2>2. UNCHANGED <<attempts, wakes, continued>>
    BY <1>2 DEF Ask, Decline, Lapse
  <2> QED
    BY <2>1, <2>2 DEF Stage
<1>3. ASSUME NEW s \in Submissions,
             GiveBack(s) \/ \E r \in Requests : Submit(s, r)
      PROVE  Goal
  <2>1. \A q \in Requests : (status'[q] = "stored") <=> (status[q] = "stored")
    BY <1>3 DEF GiveBack, Submit, Open
  <2>2. UNCHANGED <<attempts, wakes, continued>>
    BY <1>3 DEF GiveBack, Submit
  <2> QED
    BY <2>1, <2>2 DEF Stage
<1>4. ASSUME NEW s \in Submissions, Store(s)
      PROVE  Goal
  <2>1. PICK r \in Requests : r = sreq[s]
    BY <1>4 DEF Store, SubmissionsKnown
  <2>2. UNCHANGED <<attempts, wakes, continued>>
    BY <1>4 DEF Store
  <2>3. CASE status' = status
    BY <2>2, <2>3 DEF Stage
  <2>4. CASE status' = [status EXCEPT ![r] = "stored"]
    <3>1. \A q \in Requests : q # r => Stage(q)' = Stage(q)
      BY <2>1, <2>2, <2>4 DEF Stage
    <3>2. CASE status[r] = "stored"
      BY <2>1, <2>2, <2>4, <3>2 DEF Stage
    <3>3. CASE status[r] # "stored"
      <4>1. /\ Stage(r) = "none"
            /\ Stage(r)' = "owed" \/ Stage(r)' = "closed"
        BY <2>1, <2>4, <3>3 DEF Stage
      <4>2. Outside(r)
        BY <2>2, <4>1 DEF Outside
      <4> QED
        BY <2>1, <3>1, <4>2
    <3> QED
      BY <3>2, <3>3
  <2> QED
    BY <1>4, <2>1, <2>3, <2>4 DEF Store
<1>5. ASSUME NEW e \in Executors, NEW r \in Requests, Claim(e, r)
      PROVE  Goal
  <2>1. \A q \in Requests : Stage(q)' = Stage(q)
    BY <1>5 DEF Claim, Stage
  <2>2. Stage(r) = "owed" /\ attempts[r] < MaxAttempts
    BY <1>5 DEF Claim, Claimable, Owed, Stage
  <2>3. wakes' = wakes /\ attempts' = [attempts EXCEPT ![r] = @ + 1]
    BY <1>5 DEF Claim
  <2> QED
    BY <2>1, <2>2, <2>3 DEF Outside
<1>6. ASSUME NEW e \in Executors, Resume(e) \/ FollowUp(e)
      PROVE  Goal
  <2>1. \A q \in Requests : Stage(q)' = Stage(q)
    BY <1>6 DEF Resume, FollowUp, Stage
  <2>2. /\ attempts' = attempts
        /\ wakes' = [wakes EXCEPT ![ereq[e]] = @ + 1]
    BY <1>6 DEF Resume, FollowUp, Wake
  <2>3. ereq[e] \in Requests /\ wakes[ereq[e]] < attempts[ereq[e]]
    BY <1>6, LeaseSpent
  <2> QED
    BY <2>1, <2>2, <2>3 DEF Outside
<1>7. ASSUME NEW e \in Executors, Succeed(e) \/ GiveUp(e)
      PROVE  Goal
  <2>1. PICK r \in Requests : r = ereq[e] /\ status[r] = "stored"
    BY <1>7 DEF Succeed, GiveUp, Beaten, ContinuationsKnown
  <2>2. UNCHANGED <<attempts, wakes, status>>
    BY <1>7 DEF Succeed, GiveUp
  <2>3. continued' = continued \/ continued' = continued \cup {r}
    BY <1>7, <2>1 DEF Succeed, GiveUp
  <2>4. \A q \in Requests : q # r => Stage(q)' = Stage(q)
    BY <2>2, <2>3 DEF Stage
  <2>5. \/ Stage(r)' = Stage(r)
        \/ Stage(r) # "closed" /\ Stage(r)' = "closed"
    BY <2>1, <2>2, <2>3 DEF Stage
  <2>6. CASE Stage(r)' = Stage(r)
    BY <2>2, <2>4, <2>6
  <2>7. CASE Stage(r) # "closed" /\ Stage(r)' = "closed"
    <3>1. Outside(r)
      BY <2>2, <2>7 DEF Outside
    <3> QED
      BY <2>1, <2>4, <3>1
  <2> QED
    BY <2>5, <2>6, <2>7
<1>8. ASSUME NEW e \in Executors,
             ReadOrigin(e) \/ RunEnds(e) \/ Throw(e) \/ Append(e)
                \/ ReadAttempts(e)
                \/ ExecutorDies(e)
      PROVE  Goal
  <2>1. UNCHANGED <<attempts, wakes, status, continued>>
    BY <1>8 DEF ReadOrigin, ReadAttempts, RunEnds, Throw, Append, ExecutorDies
  <2> QED
    BY <2>1 DEF Stage
<1>9. Goal
  BY <1>1, <1>2, <1>3, <1>4, <1>5, <1>6, <1>7, <1>8, StepCases
     DEF OtherSteps
<1> QED
  BY <1>9

\* Each of them is a step of the abstract obligation.
LEMMA NextObligation ==
    ASSUME IInv, LeasesSpent, [Next]_vars
    PROVE  [Obligation!Next]_(<<[r \in Requests |-> Stage(r)], attempts, wakes>>)
<1> DEFINE stage == [r \in Requests |-> Stage(r)]
<1>1. CASE /\ \A q \in Requests : Stage(q)' = Stage(q)
           /\ attempts' = attempts /\ wakes' = wakes
  BY <1>1
<1>2. ASSUME NEW r \in Requests, Outside(r),
             \A q \in Requests : q # r => Stage(q)' = Stage(q)
      PROVE  \/ Obligation!Incur(r) \/ Obligation!Close(r)
             \/ Obligation!Lease(r) \/ Obligation!Work(r)
  <2>1. stage' = [stage EXCEPT ![r] = Stage(r)']
    BY <1>2
  <2>2. stage[r] = Stage(r)
    OBVIOUS
  <2>3. Stage(r)' = Stage(r) => stage' = stage
    BY <1>2
  <2> HIDE DEF stage
  <2>4. CASE /\ Stage(r) = "none" /\ Stage(r)' = "owed"
             /\ attempts' = attempts /\ wakes' = wakes
    BY <2>1, <2>2, <2>4 DEF Obligation!Incur, stage
  <2>5. CASE /\ Stage(r) # "closed" /\ Stage(r)' = "closed"
             /\ attempts' = attempts /\ wakes' = wakes
    BY <2>1, <2>2, <2>5 DEF Obligation!Close, stage
  <2>6. CASE /\ Stage(r) = "owed" /\ Stage(r)' = Stage(r)
             /\ attempts[r] < MaxAttempts
             /\ attempts' = [attempts EXCEPT ![r] = @ + 1] /\ wakes' = wakes
    BY <2>2, <2>3, <2>6 DEF Obligation!Lease, stage
  <2>7. CASE /\ Stage(r)' = Stage(r) /\ wakes[r] < attempts[r]
             /\ wakes' = [wakes EXCEPT ![r] = @ + 1] /\ attempts' = attempts
    BY <2>3, <2>7 DEF Obligation!Work, stage
  <2> QED
    BY <1>2, <2>4, <2>5, <2>6, <2>7 DEF Outside
<1> QED
  BY <1>1, <1>2, RequestSteps DEF Obligation!Next

\* A stored credential is an obligation worked off under leases: a request
\* that is not stored wakes nobody, one that is settled is not leased again,
\* and no lease wakes the agent twice.
THEOREM StoredIsObligation == Spec => ObligationSpec
<1>1. Init => LeasesSpent
  <2> SUFFICES ASSUME Init, NEW r \in Requests
               PROVE  wakes[r] + Cardinality(Waking(r)) <= attempts[r]
    BY DEF LeasesSpent
  <2>1. Waking(r) = {}
    BY DEF Init, Waking, ToWake
  <2>2. wakes[r] = 0 /\ attempts[r] = 0 /\ Cardinality(Waking(r)) = 0
    BY <2>1, FS_EmptySet DEF Init
  <2> QED
    BY <2>2
<1>2. IInv /\ LeasesSpent /\ [Next]_vars => LeasesSpent'
  BY NextSpent
<1>3. Init => Obligation!Init
  BY DEF Init, Obligation!Init, Stage
<1>4. IInv /\ LeasesSpent /\ [Next]_vars =>
        [Obligation!Next]_(<<[r \in Requests |-> Stage(r)], attempts, wakes>>)
  BY NextObligation
<1> QED
  BY <1>1, <1>2, <1>3, <1>4, Invariance, PTL
     DEF Spec, ObligationSpec, Obligation!Spec

-----------------------------------------------------------------------------
(* The settlement.                                                         *)

\* What the columns of one continuation say together.
Consistent(r) ==
    /\ r \in continued => cont[r] \in {"succeeded", "failed"}
    /\ cont[r] = "succeeded" => r \in continued
    /\ cont[r] = "pending" => attempts[r] = 0
    /\ cont[r] = "failed" /\ r \notin continued =>
            attempts[r] < MaxAttempts \/ r \in outlived

Consistency == \A r \in Requests : Consistent(r)

\* As long as no continuation of it outlived a lease, a request's continuation
\* is the only one, holds the lease, and has read the attempts as they are.
HoldsAlone(e, r) ==
    /\ cont[r] = "leased" /\ r \notin lapsed
    /\ \A d \in Executors : ereq[d] = r => d = e
    /\ epc[e] = "failing" => attempts[r] < MaxAttempts

HoldersAlone ==
    \A e \in Executors, r \in Requests \ outlived :
        ereq[e] = r => HoldsAlone(e, r)

\* Every step keeps the holders alone.
LEMMA NextAlone ==
    ASSUME IInv, HoldersAlone, [Next]_vars
    PROVE  HoldersAlone'
<1> USE BoundsAssumption
        DEF IInv, TypeOK, leaseVars, executorVars, HoldersAlone, HoldsAlone
<1>1. CASE UNCHANGED <<leaseVars, executorVars>>
  BY <1>1
<1>2. ASSUME NEW r \in Requests, Ask(r) \/ Decline(r) PROVE HoldersAlone'
  BY <1>1, <1>2 DEF Ask, Decline
<1>3. ASSUME NEW r \in Requests, Lapse(r) PROVE HoldersAlone'
  <2>1. /\ lapsed' = lapsed \cup {r} /\ outlived \subseteq outlived'
        /\ UNCHANGED <<cont, attempts, executorVars>>
    BY <1>3 DEF Lapse
  <2>2. r \in outlived' \/ ~ AtWork(r)
    BY <1>3 DEF Lapse
  <2> QED
    BY <2>1, <2>2 DEF AtWork
<1>4. ASSUME NEW s \in Submissions,
             Store(s) \/ GiveBack(s) \/ \E r \in Requests : Submit(s, r)
      PROVE  HoldersAlone'
  BY <1>1, <1>4 DEF Store, GiveBack, Submit
<1>5. ASSUME NEW e \in Executors, NEW r \in Requests, Claim(e, r)
      PROVE  HoldersAlone'
  <2>1. /\ ereq' = [ereq EXCEPT ![e] = r] /\ epc' = [epc EXCEPT ![e] = "claimed"]
        /\ cont' = [cont EXCEPT ![r] = "leased"] /\ lapsed' = lapsed \ {r}
        /\ attempts' = [attempts EXCEPT ![r] = @ + 1] /\ outlived' = outlived
    BY <1>5 DEF Claim, EGo
  <2>2. r \notin outlived => \A d \in Executors : ereq[d] # r
    BY <1>5 DEF Claim, Claimable, Free
  <2>3. ASSUME NEW d \in Executors, NEW q \in Requests \ outlived, ereq'[d] = q
        PROVE  HoldsAlone(d, q)'
    <3>1. CASE q = r
      BY <2>1, <2>2, <2>3, <3>1
    <3>2. CASE q # r
      BY <2>1, <2>3, <3>2
    <3> QED
      BY <3>1, <3>2
  <2> QED
    BY <2>1, <2>3
<1>6. ASSUME NEW e \in Executors,
             Succeed(e) \/ GiveUp(e) \/ ExecutorDies(e)
      PROVE  HoldersAlone'
  <2>1. /\ ereq' = [ereq EXCEPT ![e] = None] /\ epc' = [epc EXCEPT ![e] = "idle"]
        /\ UNCHANGED <<lapsed, attempts, outlived>>
        /\ \A q \in Requests : q # ereq[e] => cont'[q] = cont[q]
    BY <1>6 DEF Succeed, GiveUp, ExecutorDies, EGo
  <2>2. None \notin Requests
    BY DEF None, Requests
  <2> QED
    BY <2>1, <2>2
<1>7. ASSUME NEW e \in Executors, ReadAttempts(e) PROVE HoldersAlone'
  <2>1. /\ ereq' = ereq
        /\ epc' = [epc EXCEPT
                    ![e] = IF Final(ereq[e]) THEN "closing" ELSE "failing"]
        /\ UNCHANGED leaseVars
    BY <1>7 DEF ReadAttempts, EGo
  <2>2. ereq[e] \in Requests /\ ~ Final(ereq[e]) =>
            attempts[ereq[e]] < MaxAttempts
    BY DEF Final
  <2> QED
    BY <2>1, <2>2
<1>8. ASSUME NEW e \in Executors,
             ReadOrigin(e) \/ RunEnds(e) \/ Throw(e) \/ Append(e)
                \/ Resume(e) \/ FollowUp(e)
      PROVE  HoldersAlone'
  <2>1. ereq' = ereq /\ UNCHANGED leaseVars
    BY <1>8 DEF ReadOrigin, RunEnds, Throw, Append, Resume, FollowUp, EGo
  <2>2. \A d \in Executors : epc'[d] = "failing" => epc[d] = "failing"
    BY <1>8 DEF ReadOrigin, RunEnds, AfterRun, Throw, Append, Resume, FollowUp,
       EGo
  <2> QED
    BY <2>1, <2>2
<1> QED
  BY <1>1, <1>2, <1>3, <1>4, <1>5, <1>6, <1>7, <1>8, StepCases
     DEF OtherSteps

\* Every step keeps the columns consistent, and none undoes a settlement.
LEMMA NextConsistent ==
    ASSUME IInv, Consistency, HoldersAlone, [Next]_vars
    PROVE  /\ Consistency'
           /\ \A r \in continued : cont'[r] = cont[r] /\ r \in continued'
<1> DEFINE Goal ==
           /\ Consistency'
           /\ \A r \in continued : cont'[r] = cont[r] /\ r \in continued'
<1> USE BoundsAssumption
        DEF IInv, TypeOK, leaseVars, Consistency, Consistent
<1>1. CASE /\ UNCHANGED <<cont, attempts, continued>>
           /\ outlived \subseteq outlived'
  BY <1>1
<1>2. ASSUME NEW r \in Requests, Ask(r) \/ Decline(r) \/ Lapse(r)
      PROVE  Goal
  BY <1>1, <1>2 DEF Ask, Decline, Lapse
<1>3. ASSUME NEW s \in Submissions,
             Store(s) \/ GiveBack(s) \/ \E r \in Requests : Submit(s, r)
      PROVE  Goal
  BY <1>1, <1>3 DEF Store, GiveBack, Submit
<1>4. ASSUME NEW e \in Executors, NEW r \in Requests, Claim(e, r)
      PROVE  Goal
  BY <1>4 DEF Claim, Claimable, Owed
<1>5. ASSUME NEW e \in Executors, Succeed(e) PROVE Goal
  <2>1. ereq[e] \in Requests
    BY <1>5 DEF Succeed, ContinuationsKnown
  <2> QED
    BY <1>5, <2>1 DEF Succeed
<1>6. ASSUME NEW e \in Executors, GiveUp(e) PROVE Goal
  <2>1. ereq[e] \in Requests
    BY <1>6 DEF GiveUp, Beaten, ContinuationsKnown
  <2>2. PICK r \in Requests : r = ereq[e]
    BY <2>1
  <2>3. UNCHANGED <<attempts, outlived>>
    BY <1>6 DEF GiveUp
  <2>4. CASE cont[r] # "leased"
    <3>1. UNCHANGED <<cont, continued>>
      BY <1>6, <2>2, <2>4 DEF GiveUp
    <3> QED
      BY <1>1, <2>3, <3>1
  <2>5. CASE cont[r] = "leased"
    <3>1. /\ cont' = [cont EXCEPT ![r] = "failed"]
          /\ continued' = IF epc[e] = "closing" THEN continued \cup {r}
                          ELSE continued
      BY <1>6, <2>2, <2>5 DEF GiveUp
    <3>2. epc[e] # "closing" => attempts[r] < MaxAttempts \/ r \in outlived
      BY <1>6, <2>2 DEF GiveUp, Beaten, HoldersAlone, HoldsAlone
    <3>3. r \notin continued
      BY <2>5
    <3>4. Consistent(r)'
      BY <2>3, <3>1, <3>2
    <3>5. \A q \in Requests : q # r => Consistent(q)'
      BY <2>3, <3>1
    <3>6. \A q \in continued : cont'[q] = cont[q] /\ q \in continued'
      BY <3>1, <3>3
    <3> QED
      BY <3>4, <3>5, <3>6
  <2> QED
    BY <2>4, <2>5
<1>7. ASSUME NEW e \in Executors,
             ReadOrigin(e) \/ RunEnds(e) \/ Throw(e) \/ Append(e)
                \/ ReadAttempts(e)
                \/ ExecutorDies(e) \/ Resume(e) \/ FollowUp(e)
      PROVE  Goal
  BY <1>1, <1>7 DEF ReadOrigin, ReadAttempts, RunEnds, Throw, Append,
     ExecutorDies, Resume, FollowUp
<1>8. Goal
  BY <1>1, <1>2, <1>3, <1>4, <1>5, <1>6, <1>7, StepCases DEF OtherSteps
<1> QED
  BY <1>8

\* The columns are consistent, and holders alone, along every behaviour.
LEMMA ConsistencyHolds == Spec => [](Consistency /\ HoldersAlone)
<1>1. Init => Consistency /\ HoldersAlone
  BY DEF Init, Consistency, Consistent, HoldersAlone, None, Requests
<1>2. IInv /\ Consistency /\ HoldersAlone /\ [Next]_vars =>
        Consistency' /\ HoldersAlone'
  BY NextConsistent, NextAlone
<1> QED
  BY <1>1, <1>2, Invariance, PTL DEF Spec

\* An owed credential can always be leased, now or when the lease it is under
\* lapses, unless that lease is the last, or a continuation that outlived an
\* earlier lease has settled the last one as failed.
THEOREM NothingStranded == Spec => []NothingIsStranded
<1>1. IInv /\ Consistency => NothingIsStranded
  <2> SUFFICES ASSUME IInv, Consistency, NEW r \in Requests,
                      Stage(r) = "owed", ~ Claimable(r)
               PROVE  \/ /\ cont[r] = "leased"
                         /\ r \notin lapsed \/ attempts[r] = MaxAttempts
                      \/ SpentByStraggler(r)
    BY DEF NothingIsStranded
  <2>1. status[r] = "stored" /\ r \notin continued
    BY DEF Stage
  <2>2. /\ cont[r] \in ContinuationStatuses /\ attempts[r] \in 0 .. MaxAttempts
        /\ Consistent(r)
    BY DEF IInv, TypeOK, Consistency
  <2>3. CASE cont[r] = "leased"
    BY <2>1, <2>2, <2>3, BoundsAssumption DEF Claimable, Owed, Free
  <2>4. CASE cont[r] = "failed"
    BY <2>1, <2>2, <2>4, BoundsAssumption
       DEF Claimable, Owed, Free, SpentByStraggler, Consistent
  <2>5. cont[r] \notin {"pending", "succeeded"}
    BY <2>1, <2>2, BoundsAssumption DEF Claimable, Owed, Free, Consistent
  <2> QED
    BY <2>2, <2>3, <2>4, <2>5 DEF ContinuationStatuses
<1> QED
  BY <1>1, Invariance, ConsistencyHolds, PTL

\* The first settlement of a continuation stands, whoever comes late.
THEOREM VerdictStands == Spec => VerdictIsFinal
<1>1. IInv /\ Consistency /\ HoldersAlone /\ [Next]_vars =>
        [\A r \in continued : cont'[r] = cont[r] /\ r \in continued']_vars
  BY NextConsistent
<1> QED
  BY <1>1, Invariance, ConsistencyHolds, PTL DEF Spec, VerdictIsFinal
=============================================================================
