---------------------- MODULE ApprovalExecutionProofs -----------------------
(***************************************************************************)
(* What is proved about ApprovalExecution, for any number of jobs and any  *)
(* bounds: the type invariant, that a refusal starts no work, that the     *)
(* stamp and the ledger's completion are final, that continuations and     *)
(* starts of the action are capped however jobs overlap and crash, that    *)
(* every start is accounted for, and that a decision is a LeasedObligation.*)
(* Last, what holds of two sentences the code does not keep: "exactly once"*)
(* while no start is lost, "must not bury" while there is no straggler.    *)
(*                                                                         *)
(* RefusalStartsNoWork is not inductive: a job that has planned a follow-up*)
(* run must be known to carry an approval, which is only so because no job *)
(* starts before the decision and a decision never changes.                *)
(***************************************************************************)
EXTENDS ApprovalExecution, FiniteSetTheorems, TLAPS

\* Only an approval leads to a performed action or to a run of its own.
OnlyApprovalWorks ==
    (performed # 0 \/ followUps # 0) => decision = "approved"

\* A job is under way only for a decision that has been taken, and plans a
\* follow-up only for an approval.
JobsFollowDecision ==
    \A j \in Jobs : /\ pc[j] # "idle" => Decided
                    /\ plan[j] = "follow_up" => decision = "approved"

IInv == TypeOK /\ OnlyApprovalWorks /\ JobsFollowDecision

-----------------------------------------------------------------------------
\* planApprovalExecution answers with one of the plans, and with a follow-up
\* only when the decision is not a refusal.
LEMMA ChooseType ==
    ASSUME NEW number
    PROVE  /\ Choose(number) \in Plans
           /\ Choose(number) = "follow_up" => decision # "rejected"
BY DEF Choose, Plans

\* The two endings keep the row in its type and leave the decision alone.
LEMMA SettleType ==
    ASSUME TypeOK, SettleSuccess \/ SettleFailure \/ SettleRetryable
    PROVE  /\ decision' = decision /\ attempts' = attempts
           /\ stamped' \in BOOLEAN
           /\ exec' \in ExecStatus
           /\ hold' \in {"none", "live", "expired"}
           /\ stamped => stamped'
BY DEF TypeOK, SettleSuccess, SettleFailure, SettleRetryable, ExecStatus, rowVars

-----------------------------------------------------------------------------
\* Every step of a job keeps the type invariant.
LEMMA JobType ==
    ASSUME TypeOK, NEW j \in Jobs, Claim(j) \/ JobStep(j) \/ Crash(j)
    PROVE  TypeOK'
<1> USE MaxAttemptsAssumption, MaxCrashesAssumption DEF TypeOK, Go, Leave, rowVars,
        runVars, effectVars, jobVars, historyVars, Places, Plans
<1>1. CASE Claim(j)
  BY <1>1 DEF Claim, ExecStatus
<1>2. CASE Plan(j)
  <2>1. Choose(mine[j]) \in Plans
    BY ChooseType
  <2> QED
    BY <1>2, <2>1 DEF Plan
<1>3. CASE GiveUp(j) \/ Succeed(j) \/ Fail(j)
  BY <1>3, SettleType DEF GiveUp, Succeed, Fail
<1>4. CASE DeliverRefusal(j) \/ SkipAction(j) \/ StepFails(j)
  BY <1>4 DEF DeliverRefusal, SkipAction, StepFails
<1>5. CASE StartAction(j) \/ FinishAction(j) \/ ActionThrows(j)
  <2>1. CASE StartAction(j)
    <3>1. performed' \in Nat /\ pc' \in [Jobs -> Places]
      BY <2>1 DEF StartAction
    <3> QED
      BY <2>1, <3>1 DEF StartAction
  <2>2. CASE FinishAction(j)
    BY <2>2 DEF FinishAction
  <2>3. CASE ActionThrows(j)
    BY <2>3 DEF ActionThrows
  <2> QED
    BY <1>5, <2>1, <2>2, <2>3
<1>6. CASE Continue(j)
  BY <1>6 DEF Continue, RunStatus
<1>7. CASE FinishContinuation(j)
  BY <1>7 DEF FinishContinuation, RunStatus, Parked
<1>8. CASE ContinuationThrows(j) \/ RecordThrow(j)
  BY <1>8 DEF ContinuationThrows, RecordThrow, RunStatus
<1>9. CASE Crash(j)
  BY <1>9 DEF Crash
<1> QED
  BY <1>1, <1>2, <1>3, <1>4, <1>5, <1>6, <1>7, <1>8, <1>9 DEF JobStep

\* So does every step of the people and the clock around them.
LEMMA OthersType ==
    ASSUME TypeOK, Others
    PROVE  TypeOK'
<1> USE DEF TypeOK, rowVars, runVars, effectVars, jobVars, historyVars, RunStatus, Parked,
        Decisions, ExecStatus
<1>1. ASSUME NEW verdict \in {"approved", "rejected"},
             DecideByEmail(verdict) \/ DecideInApp(verdict)
      PROVE  TypeOK'
  BY <1>1 DEF DecideByEmail, DecideInApp
<1>2. ASSUME NEW status \in {"parked_here", "ended"}, AskerEnds(status)
      PROVE  TypeOK'
  BY <1>2 DEF AskerEnds
<1>3. CASE StopRun
  BY <1>3 DEF StopRun
<1>4. CASE Offboard
  BY <1>4 DEF Offboard
<1>5. CASE Expire
  BY <1>5 DEF Expire
<1> QED
  BY <1>1, <1>2, <1>3, <1>4, <1>5 DEF Others

-----------------------------------------------------------------------------
\* A step of a job leaves the decision alone and works only for an approval.
LEMMA JobFollows ==
    ASSUME IInv, NEW j \in Jobs, Claim(j) \/ JobStep(j) \/ Crash(j)
    PROVE  OnlyApprovalWorks' /\ JobsFollowDecision'
<1> USE DEF IInv, OnlyApprovalWorks, JobsFollowDecision, Go, Leave, rowVars, runVars,
        effectVars, jobVars, historyVars, Decided, TypeOK
<1>1. CASE Claim(j)
  BY <1>1 DEF Claim, Claimable
<1>2. CASE Plan(j)
  <2>1. Choose(mine[j]) = "follow_up" => decision = "approved"
    BY <1>2, ChooseType DEF Plan
  <2> QED
    BY <1>2, <2>1 DEF Plan
<1>3. CASE GiveUp(j) \/ Succeed(j) \/ Fail(j)
  BY <1>3, SettleType DEF GiveUp, Succeed, Fail
<1>4. CASE DeliverRefusal(j) \/ SkipAction(j) \/ StepFails(j)
  BY <1>4 DEF DeliverRefusal, SkipAction, StepFails
<1>5. CASE StartAction(j) \/ FinishAction(j) \/ ActionThrows(j)
  BY <1>5 DEF StartAction, FinishAction, ActionThrows
<1>6. CASE Continue(j)
  BY <1>6 DEF Continue
<1>7. CASE FinishContinuation(j) \/ ContinuationThrows(j) \/ RecordThrow(j)
  BY <1>7 DEF FinishContinuation, ContinuationThrows, RecordThrow
<1>8. CASE Crash(j)
  BY <1>8 DEF Crash
<1> QED
  BY <1>1, <1>2, <1>3, <1>4, <1>5, <1>6, <1>7, <1>8 DEF JobStep

\* Everybody else changes a decision only while it is pending, when no job has
\* begun.
LEMMA OthersFollow ==
    ASSUME IInv, Others
    PROVE  OnlyApprovalWorks' /\ JobsFollowDecision'
<1> USE DEF IInv, OnlyApprovalWorks, JobsFollowDecision, rowVars, runVars, effectVars,
        jobVars, historyVars, Decided
<1>1. ASSUME NEW verdict \in {"approved", "rejected"},
             DecideByEmail(verdict) \/ DecideInApp(verdict)
      PROVE  OnlyApprovalWorks' /\ JobsFollowDecision'
  BY <1>1 DEF DecideByEmail, DecideInApp
<1>2. ASSUME NEW status \in {"parked_here", "ended"}, AskerEnds(status)
      PROVE  OnlyApprovalWorks' /\ JobsFollowDecision'
  BY <1>2 DEF AskerEnds
<1>3. CASE StopRun
  BY <1>3 DEF StopRun
<1>4. CASE Offboard
  BY <1>4 DEF Offboard
<1>5. CASE Expire
  BY <1>5 DEF Expire
<1> QED
  BY <1>1, <1>2, <1>3, <1>4, <1>5 DEF Others

-----------------------------------------------------------------------------
\* The initial state satisfies the inductive invariant.
LEMMA InitIInv == Init => IInv
<1> SUFFICES ASSUME Init PROVE IInv
  OBVIOUS
<1> USE DEF Init
<1>1. attempts \in 0 .. MaxAttempts + 1 /\ crashes \in 0 .. MaxCrashes
  BY MaxAttemptsAssumption, MaxCrashesAssumption
<1>2. 0 \in 0 .. MaxAttempts + 1
  BY MaxAttemptsAssumption
<1>3. /\ pc \in [Jobs -> Places]
      /\ mine \in [Jobs -> 0 .. MaxAttempts + 1]
      /\ plan \in [Jobs -> Plans]
  BY <1>2 DEF Places, Plans
<1>4. TypeOK
  BY <1>1, <1>3 DEF TypeOK, Decisions, ExecStatus, RunStatus, Parked
<1>5. OnlyApprovalWorks /\ JobsFollowDecision
  BY DEF OnlyApprovalWorks, JobsFollowDecision
<1> QED
  BY <1>4, <1>5 DEF IInv

\* Every step keeps it.
LEMMA StepIInv == IInv /\ [Next]_vars => IInv'
<1> SUFFICES ASSUME IInv, [Next]_vars PROVE IInv'
  OBVIOUS
<1>1. ASSUME NEW j \in Jobs, Claim(j) \/ JobStep(j) \/ Crash(j)
      PROVE  IInv'
  BY <1>1, JobType, JobFollows DEF IInv
<1>2. CASE Others
  BY <1>2, OthersType, OthersFollow DEF IInv
<1>3. CASE UNCHANGED vars
  BY <1>3 DEF IInv, TypeOK, OnlyApprovalWorks, JobsFollowDecision, Decided, vars, rowVars,
              runVars, effectVars, jobVars, historyVars
<1> QED
  BY <1>1, <1>2, <1>3 DEF Next

\* The strengthening holds in every reachable state.
THEOREM InductiveInvariant == Spec => []IInv
BY InitIInv, StepIInv, PTL DEF Spec

\* Every variable keeps its type, whatever jobs, people and crashes do.
THEOREM TypeInvariant == Spec => []TypeOK
BY InductiveInvariant, PTL DEF IInv

\* A rejected request never has its action performed and never starts a run
\* of its own: the runaway of follow-up runs that only say "no" cannot occur.
THEOREM RefusalIsNotWork == Spec => []RefusalStartsNoWork
<1>1. IInv => RefusalStartsNoWork
  BY DEF IInv, OnlyApprovalWorks, RefusalStartsNoWork
<1> QED
  BY <1>1, InductiveInvariant, PTL

-----------------------------------------------------------------------------
\* No step of anybody clears the stamp or begins an attempt after it.
LEMMA StampStep ==
    ASSUME TypeOK, [Next]_vars, stamped
    PROVE  stamped' /\ attempts' = attempts
<1> USE DEF rowVars
<1>1. ASSUME NEW j \in Jobs, Claim(j) \/ JobStep(j) \/ Crash(j)
      PROVE  stamped' /\ attempts' = attempts
  <2>1. ~Claim(j)
    BY DEF Claim, Claimable
  <2>2. CASE GiveUp(j) \/ Succeed(j) \/ Fail(j)
    BY <2>2, SettleType DEF GiveUp, Succeed, Fail
  <2>3. CASE UNCHANGED rowVars
    BY <2>3
  <2> QED
    BY <1>1, <2>1, <2>2, <2>3 DEF JobStep, Plan, DeliverRefusal, SkipAction, StartAction,
       FinishAction, ActionThrows, StepFails, Continue, FinishContinuation,
       ContinuationThrows, RecordThrow, Crash
<1>2. CASE Others
  BY <1>2 DEF Others, DecideByEmail, DecideInApp, AskerEnds, StopRun, Offboard, Expire
<1>3. CASE UNCHANGED vars
  BY <1>3 DEF vars
<1> QED
  BY <1>1, <1>2, <1>3 DEF Next

\* executed_at is the one terminal condition of the retry set, and it is final.
THEOREM StampFinal == Spec => StampIsFinal
<1>1. TypeOK /\ [Next]_vars => [stamped => stamped' /\ attempts' = attempts]_vars
  BY StampStep
<1> QED
  BY <1>1, TypeInvariant, PTL DEF Spec, StampIsFinal

\* A completion on the ledger stays and keeps the action from being performed.
THEOREM CompletionStays == Spec => CompletedActionStays
<1>1. ASSUME [Next]_vars, carried
      PROVE  performed' = performed /\ carried'
  <2> USE <1>1 DEF effectVars
  <2>1. ASSUME NEW j \in Jobs, Claim(j) \/ JobStep(j) \/ Crash(j)
        PROVE  performed' = performed /\ carried'
    BY <2>1 DEF JobStep, Claim, Plan, GiveUp, DeliverRefusal, SkipAction, StartAction,
       FinishAction, ActionThrows, StepFails, Continue, FinishContinuation,
       ContinuationThrows, RecordThrow, Succeed, Fail, Crash
  <2>2. CASE Others
    BY <2>2 DEF Others, DecideByEmail, DecideInApp, AskerEnds, StopRun, Offboard, Expire
  <2>3. CASE UNCHANGED vars
    BY <2>3 DEF vars
  <2> QED
    BY <2>1, <2>2, <2>3 DEF Next
<1>2. [Next]_vars => [carried => performed' = performed /\ carried']_vars
  BY <1>1
<1> QED
  BY <1>2, PTL DEF Spec, CompletedActionStays
-----------------------------------------------------------------------------
(* The cap on continuations.  Every continuation spends the number of the  *)
(* attempt that starts it; numbers up to the cap are handed out once.      *)

\* Where a job has not started its continuation yet but still may.
Ahead == {"claimed", "planned", "acting", "acted"}

\* Jobs under way carry numbers that were handed out, apart from each other
\* up to the cap, and do not get past planning beyond it.
NumbersApart ==
    /\ \A j \in Jobs : pc[j] # "idle" => mine[j] \in 1 .. attempts
    /\ \A j, k \in Jobs : (j # k /\ pc[j] # "idle" /\ pc[k] # "idle" /\ mine[j] = mine[k])
                            => mine[j] > MaxAttempts
    /\ \A j \in Jobs : pc[j] = "idle" => plan[j] = "none"
    /\ \A j \in Jobs : plan[j] \in {"resume", "follow_up"} => mine[j] <= MaxAttempts
    /\ \A j \in Jobs : pc[j] \in {"acting", "acted"} => mine[j] <= MaxAttempts

\* S: the numbers spent so far.
Spent(S) ==
    /\ S \subseteq 1 .. MaxAttempts
    /\ Cardinality(S) = continued
    /\ \A n \in S : n <= attempts
    /\ \A j \in Jobs : pc[j] \in Ahead => mine[j] \notin S

BoundInv == TypeOK /\ NumbersApart /\ \E S : Spent(S)

\* Numbers spent are finitely many, at most the cap.
LEMMA SpentBound ==
    ASSUME NEW S, S \subseteq 1 .. MaxAttempts
    PROVE  /\ IsFiniteSet(S)
           /\ Cardinality(S) <= MaxAttempts
<1>1. IsFiniteSet(1 .. MaxAttempts) /\ Cardinality(1 .. MaxAttempts) = MaxAttempts
  BY FS_Interval, MaxAttemptsAssumption
<1> QED
  BY <1>1, FS_Subset

\* No attempt beyond the cap plans to go on.
LEMMA ChooseCap ==
    ASSUME NEW number, Choose(number) \in {"resume", "follow_up"}
    PROVE  ~(number > MaxAttempts)
BY DEF Choose

\* A claim hands out a number nobody has, until the count saturates.
LEMMA ClaimSpends ==
    ASSUME BoundInv, NEW j \in Jobs, Claim(j)
    PROVE  NumbersApart' /\ (\E S : Spent(S))'
<1> USE MaxAttemptsAssumption DEF BoundInv, TypeOK, Claim, Go, historyVars
<1>1. PICK S : Spent(S)
  OBVIOUS
<1>2. /\ mine'[j] = attempts' /\ pc'[j] = "claimed" /\ plan' = plan
      /\ attempts' \in 1 .. MaxAttempts + 1 /\ attempts <= attempts'
      /\ attempts' <= MaxAttempts => attempts' = attempts + 1
      /\ \A k \in Jobs \ {j} : mine'[k] = mine[k] /\ pc'[k] = pc[k]
  OBVIOUS
<1>3. NumbersApart'
  <2>1. \A k \in Jobs : pc'[k] # "idle" => mine'[k] \in 1 .. attempts'
    BY <1>2 DEF NumbersApart
  <2>2. \A k \in Jobs \ {j} : pc[k] # "idle" => mine[k] <= attempts
    BY DEF NumbersApart
  <2>3. ASSUME NEW k \in Jobs, NEW l \in Jobs, k # l, pc'[k] # "idle", pc'[l] # "idle",
               mine'[k] = mine'[l]
        PROVE  mine'[k] > MaxAttempts
    BY <1>2, <2>2, <2>3 DEF NumbersApart
  <2>4. plan[j] \in {"resume", "follow_up"} => mine'[j] <= MaxAttempts
    BY DEF NumbersApart
  <2> QED
    BY <1>2, <2>1, <2>3, <2>4 DEF NumbersApart
<1>4. Spent(S)'
  <2>1. attempts' \in S => attempts' <= MaxAttempts
    BY <1>1 DEF Spent
  <2>2. attempts' \notin S
    BY <1>1, <1>2, <2>1 DEF Spent
  <2> QED
    BY <1>1, <1>2, <2>2 DEF Spent, Ahead
<1> QED
  BY <1>3, <1>4

\* A job that leaves gives its number up without spending it.
LEMMA LeaveSpends ==
    ASSUME BoundInv, NEW j \in Jobs, GiveUp(j) \/ Succeed(j) \/ Fail(j) \/ Crash(j)
    PROVE  NumbersApart' /\ (\E S : Spent(S))'
<1>1. attempts' = attempts /\ continued' = continued /\ Leave(j)
  BY SettleType DEF BoundInv, GiveUp, Succeed, Fail, Crash, rowVars, historyVars
<1>2. PICK S : Spent(S)
  BY DEF BoundInv
<1>3. NumbersApart'
  BY <1>1 DEF BoundInv, TypeOK, NumbersApart, Leave, Go
<1>4. Spent(S)'
  BY <1>1, <1>2 DEF BoundInv, TypeOK, Spent, Leave, Go, Ahead
<1> QED
  BY <1>3, <1>4

\* The steps of a job that neither hand out nor spend a number.
Moves(j) ==
    \/ Plan(j) \/ DeliverRefusal(j) \/ SkipAction(j) \/ StartAction(j) \/ FinishAction(j)
    \/ ActionThrows(j) \/ StepFails(j) \/ FinishContinuation(j) \/ ContinuationThrows(j)
    \/ RecordThrow(j)

\* They leave every number as it is, and go ahead only from ahead.
LEMMA MoveSpends ==
    ASSUME BoundInv, NEW j \in Jobs, Moves(j)
    PROVE  NumbersApart' /\ (\E S : Spent(S))'
<1>1. attempts' = attempts /\ continued' = continued /\ mine' = mine
  BY DEF Moves, Plan, DeliverRefusal, SkipAction, StartAction, FinishAction, ActionThrows,
         StepFails, FinishContinuation, ContinuationThrows, RecordThrow, rowVars, historyVars
<1>2. /\ pc[j] # "idle" /\ pc'[j] # "idle"
      /\ pc'[j] \in Ahead => pc[j] \in Ahead
      /\ pc'[j] \in {"acting", "acted"} => (plan[j] \in {"resume", "follow_up"} \/ pc[j] = "acting")
      /\ \A k \in Jobs \ {j} : pc'[k] = pc[k]
  BY DEF BoundInv, TypeOK, Moves, Plan, DeliverRefusal, SkipAction, StartAction, FinishAction,
         ActionThrows, StepFails, FinishContinuation, ContinuationThrows, RecordThrow, Go, Ahead
<1>3. /\ plan'[j] \in {"resume", "follow_up"} => mine[j] <= MaxAttempts
      /\ \A k \in Jobs \ {j} : plan'[k] = plan[k]
  <2>1. CASE Plan(j)
    <3>1. Choose(mine[j]) \in {"resume", "follow_up"} => mine[j] <= MaxAttempts
      BY ChooseCap, MaxAttemptsAssumption DEF BoundInv, TypeOK
    <3> QED
      BY <2>1, <3>1 DEF Plan, BoundInv, TypeOK
  <2>2. CASE plan' = plan
    BY <2>2 DEF BoundInv, NumbersApart
  <2> QED
    BY <2>1, <2>2 DEF Moves, DeliverRefusal, SkipAction, StartAction, FinishAction,
       ActionThrows, StepFails, FinishContinuation, ContinuationThrows, RecordThrow
<1>4. PICK S : Spent(S)
  BY DEF BoundInv
<1>5. NumbersApart'
  BY <1>1, <1>2, <1>3 DEF BoundInv, NumbersApart
<1>6. Spent(S)'
  BY <1>1, <1>2, <1>4 DEF Spent
<1> QED
  BY <1>5, <1>6

\* A continuation spends the number of its attempt, which nobody else carries.
LEMMA ContinueSpends ==
    ASSUME BoundInv, NEW j \in Jobs, Continue(j)
    PROVE  NumbersApart' /\ (\E S : Spent(S))'
<1> USE DEF BoundInv, TypeOK, Continue, Go, rowVars, historyVars
<1>1. PICK S : Spent(S)
  OBVIOUS
<1>2. /\ attempts' = attempts /\ mine' = mine /\ plan' = plan
      /\ pc[j] = "acted" /\ pc'[j] \in {"continuing", "threw"}
      /\ \A k \in Jobs \ {j} : pc'[k] = pc[k]
  OBVIOUS
<1>3. NumbersApart'
  BY <1>2 DEF NumbersApart
<1>4. CASE ~employed
  <2>1. Spent(S)'
    BY <1>1, <1>2, <1>4 DEF Spent, Ahead
  <2> QED
    BY <1>3, <2>1
<1>5. CASE employed
  <2> DEFINE T == S \cup {mine[j]}
  <2>1. mine[j] \in 1 .. MaxAttempts /\ mine[j] <= attempts /\ mine[j] \notin S
    BY <1>1, <1>2, MaxAttemptsAssumption DEF NumbersApart, Spent, Ahead
  <2>2. T \subseteq 1 .. MaxAttempts
    BY <1>1, <2>1 DEF Spent
  <2>3. Cardinality(T) = continued'
    <3>1. Cardinality(T) = Cardinality(S) + 1
      BY <1>1, <2>1, SpentBound, FS_AddElement DEF Spent
    <3> QED
      BY <1>1, <1>5, <3>1 DEF Spent
  <2>4. \A n \in T : n <= attempts'
    BY <1>1, <1>2, <2>1 DEF Spent
  <2>5. ASSUME NEW k \in Jobs, pc'[k] \in Ahead
        PROVE  mine'[k] \notin T
    BY <1>1, <1>2, <2>1, <2>5, MaxAttemptsAssumption DEF NumbersApart, Spent, Ahead
  <2>6. Spent(T)'
    BY <2>2, <2>3, <2>4, <2>5 DEF Spent
  <2> QED
    BY <1>3, <2>6
<1> QED
  BY <1>4, <1>5

\* Nobody else touches a number.
LEMMA OthersSpend ==
    ASSUME BoundInv, Others \/ UNCHANGED vars
    PROVE  NumbersApart' /\ (\E S : Spent(S))'
<1>1. attempts' = attempts /\ continued' = continued /\ UNCHANGED jobVars
  BY DEF Others, DecideByEmail, DecideInApp, AskerEnds, StopRun, Offboard, Expire, vars,
         rowVars, historyVars
<1>2. PICK S : Spent(S)
  BY DEF BoundInv
<1>3. Spent(S)' /\ NumbersApart'
  BY <1>1, <1>2 DEF BoundInv, Spent, NumbersApart, jobVars
<1> QED
  BY <1>3

\* Initially nothing is spent.
LEMMA InitBound == Init => BoundInv
<1> SUFFICES ASSUME Init PROVE BoundInv
  OBVIOUS
<1>1. TypeOK
  BY InitIInv DEF IInv
<1>2. NumbersApart
  BY DEF Init, NumbersApart
<1>3. Spent({})
  BY FS_EmptySet DEF Init, Spent, Ahead
<1> QED
  BY <1>1, <1>2, <1>3 DEF BoundInv

\* Every step keeps the numbers apart and the spent ones spent.
LEMMA StepBound == BoundInv /\ TypeOK' /\ [Next]_vars => BoundInv'
<1> SUFFICES ASSUME BoundInv, TypeOK', [Next]_vars PROVE BoundInv'
  OBVIOUS
<1>1. ASSUME NEW j \in Jobs, Claim(j) \/ JobStep(j) \/ Crash(j)
      PROVE  BoundInv'
  BY <1>1, ClaimSpends, LeaveSpends, MoveSpends, ContinueSpends DEF JobStep, Moves, BoundInv
<1> QED
  BY <1>1, OthersSpend DEF Next, BoundInv

\* The bound holds in every reachable state.
THEOREM NumbersBound == Spec => []BoundInv
BY InitBound, StepBound, TypeInvariant, PTL DEF Spec

\* No decision starts more continuations than the cap allows, for any number
\* of overlapping jobs and of crashes.
THEOREM ContinuationsCapped == Spec => []ContinuationsBounded
<1>1. BoundInv => ContinuationsBounded
  BY SpentBound, MaxAttemptsAssumption DEF BoundInv, TypeOK, Spent, ContinuationsBounded
<1> QED
  BY <1>1, NumbersBound, PTL

-----------------------------------------------------------------------------
(* The same cap on the action.  A start of it spends the number of its     *)
(* attempt too; SkipAction spends nothing.                                 *)

\* Where a job may still start the action.
Before == {"claimed", "planned"}

\* S: the numbers whose attempt started the action.
Acted(S) ==
    /\ S \subseteq 1 .. MaxAttempts
    /\ Cardinality(S) = performed
    /\ \A n \in S : n <= attempts
    /\ \A j \in Jobs : pc[j] \in Before => mine[j] \notin S

\* The action is started at most as often as there are attempts.
ActionsBounded == performed <= MaxAttempts

\* A step that starts no action leaves the numbers spent on it as they are.
LEMMA OtherStepsAct ==
    ASSUME BoundInv, NEW S, Acted(S), [Next]_vars,
           \A j \in Jobs : ~ (StartAction(j) /\ ~ carried)
    PROVE  Acted(S)'
<1> USE DEF BoundInv, TypeOK
<1>1. CASE \E j \in Jobs : Claim(j)
  <2>1. PICK j \in Jobs : Claim(j)
    BY <1>1
  <2>2. /\ performed' = performed
        /\ attempts' \in Nat /\ attempts <= attempts' /\ attempts' \notin S
        /\ mine'[j] = attempts'
        /\ \A k \in Jobs \ {j} : mine'[k] = mine[k] /\ pc'[k] = pc[k]
    <3>1. attempts' \in S => attempts' <= MaxAttempts
      BY MaxAttemptsAssumption DEF Acted
    <3> QED
      BY <2>1, <3>1, MaxAttemptsAssumption DEF Claim, Go, effectVars, Acted
  <2>3. ASSUME NEW n \in S PROVE n <= attempts'
    <3>1. n \in Nat /\ n <= attempts /\ attempts \in Nat
      BY MaxAttemptsAssumption DEF Acted
    <3> QED
      BY <2>2, <3>1
  <2>4. \A k \in Jobs : pc'[k] \in Before => mine'[k] \notin S
    BY <2>2 DEF Acted
  <2> QED
    BY <2>2, <2>3, <2>4 DEF Acted
<1>2. ASSUME NEW j \in Jobs, JobStep(j) \/ Crash(j) PROVE Acted(S)'
  <2>1. performed' = performed /\ attempts' = attempts
    BY <1>2, SettleType DEF JobStep, Plan, GiveUp, DeliverRefusal, SkipAction,
       StartAction, FinishAction, ActionThrows, StepFails, Continue,
       FinishContinuation, ContinuationThrows, RecordThrow, Succeed, Fail, Crash,
       effectVars, rowVars
  <2>2. \A k \in Jobs : pc'[k] \in Before => pc[k] \in Before /\ mine'[k] = mine[k]
    BY <1>2 DEF JobStep, Plan, GiveUp, DeliverRefusal, SkipAction, StartAction,
       FinishAction, ActionThrows, StepFails, Continue, FinishContinuation,
       ContinuationThrows, RecordThrow, Succeed, Fail, Crash, Go, Leave, Before
  <2> QED
    BY <2>1, <2>2 DEF Acted
<1>3. CASE Others \/ UNCHANGED vars
  BY <1>3 DEF Others, DecideByEmail, DecideInApp, AskerEnds, StopRun, Offboard, Expire,
     vars, rowVars, effectVars, jobVars, Acted
<1> QED
  BY <1>1, <1>2, <1>3 DEF Next

\* The start of the action spends the number of its attempt.
LEMMA StartSpends ==
    ASSUME BoundInv, NEW S, Acted(S), NEW j \in Jobs, StartAction(j), ~ carried
    PROVE  Acted(S \cup {mine[j]})'
<1> DEFINE T == S \cup {mine[j]}
<1> USE DEF BoundInv, TypeOK, StartAction, Go, rowVars
<1>1. /\ performed' = performed + 1 /\ attempts' = attempts /\ mine' = mine
      /\ pc[j] = "planned" /\ pc'[j] = "acting"
      /\ \A k \in Jobs \ {j} : pc'[k] = pc[k]
  OBVIOUS
<1>2. mine[j] \in 1 .. MaxAttempts /\ mine[j] <= attempts /\ mine[j] \notin S
  BY MaxAttemptsAssumption DEF NumbersApart, Acted, Before
<1>3. T \subseteq 1 .. MaxAttempts /\ \A n \in T : n <= attempts
  BY <1>2 DEF Acted
<1>4. Cardinality(T) = performed + 1
  BY <1>2, SpentBound, FS_AddElement DEF Acted
<1>5. ASSUME NEW k \in Jobs, pc'[k] \in Before
      PROVE  mine'[k] \notin T
  BY <1>1, <1>2, <1>5, MaxAttemptsAssumption DEF NumbersApart, Acted, Before
<1> QED
  BY <1>1, <1>3, <1>4, <1>5 DEF Acted

\* The approved action is started at most as often as attempts are allowed,
\* even when every one of them is lost.
THEOREM ActionsCapped == Spec => []ActionsBounded
<1>1. Init => \E S : Acted(S)
  <2>1. Init => Acted({})
    BY FS_EmptySet DEF Init, Acted, Before
  <2> QED
    BY <2>1
<1>2. BoundInv /\ (\E S : Acted(S)) /\ [Next]_vars => (\E S : Acted(S))'
  <2> SUFFICES ASSUME BoundInv, NEW S, Acted(S), [Next]_vars
               PROVE  (\E R : Acted(R))'
    OBVIOUS
  <2>1. ASSUME NEW j \in Jobs, StartAction(j), ~ carried
        PROVE  (\E R : Acted(R))'
    BY <2>1, StartSpends
  <2>2. CASE \A j \in Jobs : ~ (StartAction(j) /\ ~ carried)
    BY <2>2, OtherStepsAct
  <2> QED
    BY <2>1, <2>2
<1>3. BoundInv /\ (\E S : Acted(S)) => ActionsBounded
  BY SpentBound, MaxAttemptsAssumption DEF BoundInv, TypeOK, Acted, ActionsBounded
<1> QED
  BY <1>1, <1>2, <1>3, NumbersBound, PTL DEF Spec

-----------------------------------------------------------------------------
(* The account of the action's starts.  It needs that one job at a time is *)
(* in the action, and none once the completion is on the ledger.           *)

Acting == {j \in Jobs : pc[j] = "acting"}

OneActs ==
    /\ \A j, k \in Acting : j = k
    /\ carried => Acting = {}

\* A step either leaves the action alone, or starts it, finishes it, loses it.
LEMMA ActionSteps ==
    ASSUME TypeOK, [Next]_vars
    PROVE  \/ Acting' = Acting /\ UNCHANGED <<carried, performed, lost>>
           \/ \E j \in Jobs :
                /\ Acting = {} /\ ~ carried /\ Acting' = {j}
                /\ performed' = performed + 1 /\ UNCHANGED <<carried, lost>>
           \/ \E j \in Acting :
                /\ Acting' = Acting \ {j}
                /\ performed' = performed
                /\ \/ carried' /\ lost' = lost
                   \/ carried' = carried /\ lost' = lost + 1
<1> USE DEF TypeOK, Acting, Go, Leave, effectVars
<1>1. ASSUME NEW j \in Jobs, StartAction(j)
      PROVE  \/ Acting' = Acting /\ UNCHANGED <<carried, performed, lost>>
             \/ /\ Acting = {} /\ ~ carried /\ Acting' = {j}
                /\ performed' = performed + 1 /\ UNCHANGED <<carried, lost>>
  BY <1>1 DEF StartAction
<1>2. ASSUME NEW j \in Jobs, FinishAction(j)
      PROVE  /\ j \in Acting /\ Acting' = Acting \ {j}
             /\ performed' = performed /\ carried' /\ lost' = lost
  BY <1>2 DEF FinishAction
<1>3. ASSUME NEW j \in Jobs, ActionThrows(j) \/ (Crash(j) /\ pc[j] = "acting")
      PROVE  /\ j \in Acting /\ Acting' = Acting \ {j}
             /\ performed' = performed /\ carried' = carried /\ lost' = lost + 1
  BY <1>3 DEF ActionThrows, Crash
<1>4. ASSUME NEW j \in Jobs,
             \/ Claim(j) \/ Plan(j) \/ GiveUp(j) \/ DeliverRefusal(j) \/ SkipAction(j)
             \/ StepFails(j) \/ Continue(j) \/ FinishContinuation(j)
             \/ ContinuationThrows(j) \/ RecordThrow(j) \/ Succeed(j) \/ Fail(j)
             \/ Crash(j) /\ pc[j] # "acting"
      PROVE  Acting' = Acting /\ UNCHANGED <<carried, performed, lost>>
  <2>1. pc[j] # "acting" /\ pc'[j] # "acting"
    BY <1>4 DEF Claim, Plan, GiveUp, DeliverRefusal, SkipAction, StepFails, Continue,
       FinishContinuation, ContinuationThrows, RecordThrow, Succeed, Fail, Crash
  <2>2. /\ \A k \in Jobs \ {j} : pc'[k] = pc[k]
        /\ UNCHANGED <<carried, performed, lost>>
    BY <1>4 DEF Claim, Plan, GiveUp, DeliverRefusal, SkipAction, StepFails, Continue,
       FinishContinuation, ContinuationThrows, RecordThrow, Succeed, Fail, Crash
  <2> QED
    BY <2>1, <2>2
<1>5. CASE Others \/ UNCHANGED vars
  BY <1>5 DEF Others, DecideByEmail, DecideInApp, AskerEnds, StopRun, Offboard, Expire,
     vars, jobVars
<1> QED
  BY <1>1, <1>2, <1>3, <1>4, <1>5 DEF Next, JobStep

\* The action is repeated exactly as often as it was lost, and never after its
\* completion, for any number of jobs that overlap.
THEOREM StartsAreAccounted == Spec => [](OneActs /\ StartsAccounted)
<1>1. Init => OneActs /\ StartsAccounted
  BY DEF Init, OneActs, StartsAccounted, Acting
<1>2. TypeOK /\ OneActs /\ StartsAccounted /\ [Next]_vars
        => (OneActs /\ StartsAccounted)'
  <2> SUFFICES ASSUME TypeOK, OneActs, StartsAccounted, [Next]_vars
               PROVE  (OneActs /\ StartsAccounted)'
    OBVIOUS
  <2> DEFINE open == IF carried \/ Acting # {} THEN 1 ELSE 0
  <2>1. StartsAccounted <=> performed = lost + open
    BY DEF StartsAccounted, Acting
  <2>2. StartsAccounted' <=> performed' = lost' + open'
    BY DEF StartsAccounted, Acting
  <2>3. performed \in Nat /\ lost \in Nat
    BY DEF TypeOK
  <2>4. CASE Acting' = Acting /\ UNCHANGED <<carried, performed, lost>>
    BY <2>1, <2>2, <2>4 DEF OneActs
  <2>5. CASE \E j \in Jobs :
                /\ Acting = {} /\ ~ carried /\ Acting' = {j}
                /\ performed' = performed + 1 /\ UNCHANGED <<carried, lost>>
    BY <2>1, <2>2, <2>3, <2>5 DEF OneActs
  <2>6. CASE \E j \in Acting :
                /\ Acting' = Acting \ {j}
                /\ performed' = performed
                /\ \/ carried' /\ lost' = lost
                   \/ carried' = carried /\ lost' = lost + 1
    <3>1. PICK j \in Acting :
                /\ Acting' = Acting \ {j}
                /\ performed' = performed
                /\ \/ carried' /\ lost' = lost
                   \/ carried' = carried /\ lost' = lost + 1
      BY <2>6
    <3>2. Acting' = {} /\ ~ carried
      BY <3>1 DEF OneActs
    <3> QED
      BY <2>1, <2>2, <2>3, <3>1, <3>2 DEF OneActs
  <2> QED
    BY <2>4, <2>5, <2>6, ActionSteps
<1> QED
  BY <1>1, <1>2, TypeInvariant, PTL DEF Spec

\* "Acted on exactly once" is kept as long as no start of the action is lost
\* to an error of its adapter or to the death of its process.
THEOREM OnceUnlessLost == Spec => [](lost = 0 => ApprovedActionOnce)
<1>1. StartsAccounted => (lost = 0 => ApprovedActionOnce)
  BY DEF StartsAccounted, ApprovedActionOnce
<1> QED
  BY <1>1, StartsAreAccounted, PTL

-----------------------------------------------------------------------------
(* Nothing is stranded.                                                    *)

\* A request that is undecided has not been touched by any job.
Untouched == decision = "pending" => exec = "pending"

\* A decision is stamped, waits for a job, or is leased, and then the lease
\* ends.
THEOREM NothingStranded == Spec => [](Untouched /\ NothingIsStranded)
<1> DEFINE Reachable ==
        Decided /\ ~stamped => \/ exec \in {"pending", "failed"}
                               \/ exec = "leased" /\ hold \in {"live", "expired"}
<1>1. Init => Untouched /\ Reachable
  BY DEF Init, Untouched, Decided
<1>2. IInv /\ Untouched /\ Reachable /\ [Next]_vars => (Untouched /\ Reachable)'
  <2> SUFFICES ASSUME IInv, Untouched, Reachable, [Next]_vars
               PROVE  (Untouched /\ Reachable)'
    OBVIOUS
  <2> USE DEF IInv, Untouched, Decided, JobsFollowDecision
  <2>1. ASSUME NEW j \in Jobs, Claim(j) PROVE (Untouched /\ Reachable)'
    BY <2>1 DEF Claim, Claimable
  <2>2. ASSUME NEW j \in Jobs, GiveUp(j) \/ Succeed(j) \/ Fail(j)
        PROVE  (Untouched /\ Reachable)'
    BY <2>2 DEF GiveUp, Succeed, Fail, SettleSuccess, SettleFailure, SettleRetryable, rowVars
  <2>3. ASSUME NEW j \in Jobs, JobStep(j) \/ Crash(j), ~ GiveUp(j), ~ Succeed(j), ~ Fail(j)
        PROVE  UNCHANGED rowVars
    BY <2>3 DEF JobStep, Plan, DeliverRefusal, SkipAction, StartAction, FinishAction,
       ActionThrows, StepFails, Continue, FinishContinuation, ContinuationThrows,
       RecordThrow, Crash, rowVars
  <2>4. ASSUME UNCHANGED rowVars PROVE (Untouched /\ Reachable)'
    BY <2>4 DEF rowVars
  <2>5. CASE Others
    BY <2>5 DEF Others, DecideByEmail, DecideInApp, AskerEnds, StopRun, Offboard, Expire,
       rowVars, TypeOK
  <2>6. CASE UNCHANGED vars
    BY <2>4, <2>6 DEF vars
  <2> QED
    BY <2>1, <2>2, <2>3, <2>4, <2>5, <2>6 DEF Next
<1>3. Reachable => NothingIsStranded
  BY DEF NothingIsStranded, Claimable
<1> HIDE DEF Reachable
<1> QED
  BY <1>1, <1>2, <1>3, InductiveInvariant, PTL DEF Spec

-----------------------------------------------------------------------------
(* The refinement of LeasedObligation.                                     *)

\* The leases that count are the numbers from 1.
LEMMA LeasesCount ==
    ASSUME TypeOK
    PROVE  /\ Leases \in Nat
           /\ IsFiniteSet(1 .. Leases) /\ Cardinality(1 .. Leases) = Leases
<1>1. Leases \in Nat
  BY MaxAttemptsAssumption DEF TypeOK, Leases
<1> QED
  BY <1>1, FS_Interval

\* Where the three mapped values go in one step: the stage forward, the
\* leases up by a claim, the work up by a continuation within the leases.
LEMMA MappedSteps ==
    ASSUME IInv, BoundInv, BoundInv', [Next]_vars
    PROVE  \/ Stage' = Stage /\ Leases' = Leases /\ continued' = continued
           \/ /\ Stage = "none" /\ Stage' = "owed"
              /\ Leases' = Leases /\ continued' = continued
           \/ /\ Stage # "closed" /\ Stage' = "closed"
              /\ Leases' = Leases /\ continued' = continued
           \/ /\ Stage = "owed" /\ Leases < MaxAttempts /\ Leases' = Leases + 1
              /\ Stage' = Stage /\ continued' = continued
           \/ /\ continued < Leases /\ continued' = continued + 1
              /\ Stage' = Stage /\ Leases' = Leases
<1> USE DEF IInv, TypeOK, Stage, Leases, Decided
<1>1. ASSUME NEW j \in Jobs, Claim(j)
      PROVE  \/ Stage' = Stage /\ Leases' = Leases /\ continued' = continued
             \/ /\ Stage = "owed" /\ Leases < MaxAttempts /\ Leases' = Leases + 1
                /\ Stage' = Stage /\ continued' = continued
  BY <1>1, MaxAttemptsAssumption DEF Claim, Claimable, historyVars
<1>2. ASSUME NEW j \in Jobs, Continue(j)
      PROVE  \/ Stage' = Stage /\ Leases' = Leases /\ continued' = continued
             \/ /\ continued < Leases /\ continued' = continued + 1
                /\ Stage' = Stage /\ Leases' = Leases
  <2>1. Stage' = Stage /\ Leases' = Leases
    BY <1>2 DEF Continue, rowVars
  <2>2. CASE ~ employed
    BY <1>2, <2>1, <2>2 DEF Continue, historyVars
  <2>3. CASE employed
    <3>1. continued' = continued + 1
      BY <1>2, <2>3 DEF Continue
    <3>2. continued' <= Leases
      <4>1. PICK S : Spent(S)'
        BY DEF BoundInv
      <4>2. S \subseteq 1 .. Leases
        BY <2>1, <4>1, MaxAttemptsAssumption DEF Spent, BoundInv
      <4>3. IsFiniteSet(1 .. Leases) /\ Cardinality(1 .. Leases) = Leases
        BY LeasesCount
      <4> QED
        BY <4>1, <4>2, <4>3, FS_Subset DEF Spent
    <3>3. continued < Leases
      <4>1. continued \in Nat /\ Leases \in Nat
        BY LeasesCount
      <4> QED
        BY <3>1, <3>2, <4>1
    <3> QED
      BY <2>1, <3>1, <3>3
  <2> QED
    BY <2>2, <2>3
<1>3. ASSUME NEW j \in Jobs, JobStep(j) \/ Crash(j), ~ Continue(j)
      PROVE  \/ Stage' = Stage /\ Leases' = Leases /\ continued' = continued
             \/ /\ Stage # "closed" /\ Stage' = "closed"
                /\ Leases' = Leases /\ continued' = continued
  <2>1. CASE GiveUp(j) \/ Succeed(j) \/ Fail(j)
    <3>1. pc[j] # "idle" /\ continued' = continued
      BY <2>1 DEF GiveUp, Succeed, Fail, historyVars
    <3>2. decision' = decision /\ attempts' = attempts /\ (stamped => stamped')
      BY <2>1, SettleType DEF GiveUp, Succeed, Fail
    <3> QED
      BY <3>1, <3>2 DEF JobsFollowDecision
  <2>2. CASE ~ (GiveUp(j) \/ Succeed(j) \/ Fail(j))
    BY <1>3, <2>2 DEF JobStep, Plan, DeliverRefusal, SkipAction, StartAction,
       FinishAction, ActionThrows, StepFails, FinishContinuation, ContinuationThrows,
       RecordThrow, Crash, rowVars, historyVars
  <2> QED
    BY <2>1, <2>2
<1>4. CASE Others
  BY <1>4 DEF Others, DecideByEmail, DecideInApp, AskerEnds, StopRun, Offboard, Expire,
     rowVars, historyVars
<1>5. CASE UNCHANGED vars
  BY <1>5 DEF vars, rowVars, historyVars
<1> QED
  BY <1>1, <1>2, <1>3, <1>4, <1>5 DEF Next

\* Each of them is a step of the abstract obligation.
LEMMA NextObligation ==
    ASSUME IInv, BoundInv, BoundInv', [Next]_vars
    PROVE  [Obligation!Next]_(<<[o \in Approval |-> Stage], [o \in Approval |-> Leases],
                                [o \in Approval |-> continued]>>)
<1> DEFINE stage == [o \in Approval |-> Stage]
           tries == [o \in Approval |-> Leases]
           works == [o \in Approval |-> continued]
<1> USE DEF Approval
<1>1. ASSUME Stage = "none", Stage' = "owed", Leases' = Leases, continued' = continued
      PROVE  Obligation!Incur("approval")
  BY <1>1 DEF Obligation!Incur
<1>2. ASSUME Stage # "closed", Stage' = "closed", Leases' = Leases, continued' = continued
      PROVE  Obligation!Close("approval")
  BY <1>2 DEF Obligation!Close
<1>3. ASSUME Stage = "owed", Leases < MaxAttempts, Leases' = Leases + 1,
             Stage' = Stage, continued' = continued
      PROVE  Obligation!Lease("approval")
  BY <1>3 DEF Obligation!Lease
<1>4. ASSUME continued < Leases, continued' = continued + 1, Stage' = Stage,
             Leases' = Leases
      PROVE  Obligation!Work("approval")
  BY <1>4 DEF Obligation!Work
<1>5. ASSUME Stage' = Stage, Leases' = Leases, continued' = continued
      PROVE  UNCHANGED <<stage, tries, works>>
  BY <1>5
<1> QED
  BY <1>1, <1>2, <1>3, <1>4, <1>5, MappedSteps DEF Obligation!Next

\* A decided approval is an obligation worked off under leases: nothing begins
\* before the decision or after the stamp, and no lease starts two
\* continuations.
THEOREM DecisionIsObligation == Spec => ObligationSpec
<1>1. Init => Obligation!Init
  BY MaxAttemptsAssumption DEF Init, Obligation!Init, Stage, Leases, Decided
<1>2. IInv /\ BoundInv /\ BoundInv' /\ [Next]_vars =>
        [Obligation!Next]_(<<[o \in Approval |-> Stage], [o \in Approval |-> Leases],
                             [o \in Approval |-> continued]>>)
  BY NextObligation
<1> QED
  BY <1>1, <1>2, InductiveInvariant, NumbersBound, PTL
     DEF Spec, ObligationSpec, Obligation!Spec

-----------------------------------------------------------------------------
(* What it takes to bury a success.                                        *)

\* After a success the jobs still at work are beyond the cap, and those only
\* fail where there is no stamp.
Harmless ==
    stamped /\ exec = "succeeded" =>
        \A j \in Jobs : pc[j] # "idle" => mine[j] > MaxAttempts

\* As long as every job at work is of the latest attempt, "the straggler's
\* error" does "not bury the outcome that worked": the finding of the run
\* approval_straggler needs a claim that lapses under a job at work.
THEOREM SuccessStaysWithoutStragglers ==
    Spec /\ []NoStraggler => SuccessIsNotBuried
<1>1. Init => Harmless
  BY DEF Init, Harmless
<1>2. IInv /\ BoundInv /\ NoStraggler /\ Harmless /\ [Next]_vars => Harmless'
  <2> SUFFICES ASSUME IInv, BoundInv, NoStraggler, Harmless, [Next]_vars
               PROVE  Harmless'
    OBVIOUS
  <2> USE DEF IInv, TypeOK, Harmless
  <2>1. ASSUME NEW j \in Jobs, Claim(j) PROVE Harmless'
    BY <2>1 DEF Claim
  <2>2. ASSUME NEW j \in Jobs, Succeed(j) PROVE Harmless'
    <3>1. \A k \in Jobs \ {j} : pc[k] # "idle" => mine[k] > MaxAttempts
      BY <2>2 DEF Succeed, NoStraggler, BoundInv, NumbersApart
    <3> QED
      BY <2>2, <3>1 DEF Succeed, Leave, Go
  <2>3. ASSUME NEW j \in Jobs, JobStep(j) \/ Crash(j), ~ Succeed(j)
        PROVE  Harmless'
    <3>1. /\ stamped' /\ exec' = "succeeded" => stamped /\ exec = "succeeded"
          /\ \A k \in Jobs : pc'[k] # "idle" => pc[k] # "idle" /\ mine'[k] = mine[k]
      BY <2>3 DEF JobStep, Plan, GiveUp, DeliverRefusal, SkipAction, StartAction,
         FinishAction, ActionThrows, StepFails, Continue, FinishContinuation,
         ContinuationThrows, RecordThrow, Fail, Crash, SettleFailure, SettleRetryable,
         Leave, Go, rowVars
    <3> QED
      BY <3>1
  <2>4. CASE Others
    BY <2>4 DEF Others, DecideByEmail, DecideInApp, AskerEnds, StopRun, Offboard, Expire,
       JobsFollowDecision, Decided, jobVars, rowVars
  <2>5. CASE UNCHANGED vars
    BY <2>5 DEF vars, rowVars, jobVars
  <2> QED
    BY <2>1, <2>2, <2>3, <2>4, <2>5 DEF Next
<1>3. IInv /\ Harmless /\ [Next]_vars =>
        [(stamped /\ exec = "succeeded") => exec' = "succeeded"]_vars
  <2> SUFFICES ASSUME IInv, Harmless, [Next]_vars, stamped, exec = "succeeded"
               PROVE  exec' = "succeeded"
    OBVIOUS
  <2> USE MaxAttemptsAssumption DEF IInv, TypeOK, Harmless
  <2>1. ASSUME NEW j \in Jobs, Fail(j) PROVE exec' = "succeeded"
    <3>1. mine[j] > MaxAttempts /\ mine[j] \in Nat
      BY <2>1 DEF Fail
    <3>2. mine[j] >= MaxAttempts
      BY <3>1
    <3> QED
      BY <2>1, <3>2 DEF Fail, SettleFailure, rowVars
  <2>2. ASSUME NEW j \in Jobs, Claim(j) \/ JobStep(j) \/ Crash(j), ~ Fail(j)
        PROVE  exec' = "succeeded"
    BY <2>2 DEF Claim, Claimable, JobStep, Plan, GiveUp, DeliverRefusal, SkipAction,
       StartAction, FinishAction, ActionThrows, StepFails, Continue,
       FinishContinuation, ContinuationThrows, RecordThrow, Succeed, Crash,
       SettleSuccess, SettleFailure, rowVars
  <2>3. CASE Others
    BY <2>3 DEF Others, DecideByEmail, DecideInApp, AskerEnds, StopRun, Offboard, Expire,
       rowVars
  <2>4. CASE UNCHANGED vars
    BY <2>4 DEF vars, rowVars
  <2> QED
    BY <2>1, <2>2, <2>3, <2>4 DEF Next
<1> QED
  BY <1>1, <1>2, <1>3, InductiveInvariant, NumbersBound, PTL
     DEF Spec, SuccessIsNotBuried
=============================================================================
