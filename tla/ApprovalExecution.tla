------------------------- MODULE ApprovalExecution --------------------------
(***************************************************************************)
(* One approval: the request an agent parks on, the human decision, and    *)
(* the worker jobs that carry the decision out and take it back to the     *)
(* agent.                                                                  *)
(*                                                                         *)
(* A job is one call of executeDecidedApproval.  The approvals pass puts a *)
(* decided approval back on the deep-work queue every half minute, so two  *)
(* jobs of the same approval may run at once; the five-minute claim on the *)
(* row is all that keeps them apart, and nothing renews it.                *)
(*                                                                         *)
(* Abstractions.                                                           *)
(*  - The run that asked is its status, telling apart the two requests it  *)
(*    may be parked on (this one, or a later one).  RunExecution models    *)
(*    the run itself; here a continuation opens it and ends it.            *)
(*  - withTenant is a transaction (agent-runs.ts:819-850 tells what became *)
(*    of runs that were wrapped in one).  The executor calls the action    *)
(*    inside withTenant, so the intent and the outcome the external-effect *)
(*    ledger keeps under the approval's key appear together when it        *)
(*    returns, and vanish together when it throws or the process dies; an  *)
(*    insert of the same key by another job waits for that.  What others   *)
(*    can read is then one bit: the action is on the ledger as completed.  *)
(*  - execution_attempts saturates one beyond the cap: nothing in the code *)
(*    tells larger numbers apart.                                          *)
(***************************************************************************)
EXTENDS Naturals

CONSTANTS
    Jobs,           \* deep-work slots that may hold a job of this approval
    MaxAttempts,    \* APPROVAL_MAX_ATTEMPTS
    MaxCrashes      \* bound on the process deaths considered

ASSUME MaxAttemptsAssumption == MaxAttempts \in Nat \ {0}
ASSUME MaxCrashesAssumption == MaxCrashes \in Nat

Decisions  == {"pending", "approved", "rejected", "expired"}
ExecStatus == {"pending", "leased", "failed", "succeeded"}
Parked     == {"parked_here", "parked_other"}
RunStatus  == {"running", "ended", "cancelled"} \cup Parked
Plans      == {"none", "give_up", "deliver_refusal", "resume", "follow_up"}
Places     == {"idle", "claimed", "planned", "acting", "acted", "continuing",
               "threw", "delivering", "failed"}

VARIABLES
    decision,       \* approvals.status
    stamped,        \* approvals.executed_at is not null
    exec,           \* approvals.execution_status
    hold,           \* approvals.execution_lease_until against the clock
    attempts,       \* approvals.execution_attempts
    run,            \* status of the run that asked
    asking,         \* the attempt that raised the request has not ended yet
    employed,       \* the agent may work
    carried,        \* the action's completion is on the effect ledger
    pc,             \* pc[j]: where job j is
    mine,           \* mine[j]: the attempt number its claim returned
    plan,           \* plan[j]: what planApprovalExecution chose
    performed,      \* how many times the action was started
    lost,           \* how many of those ended without a recorded completion
    continued,      \* how many continuations were started
    followUps,      \* how many of them were runs of their own
    crashes

rowVars     == <<decision, stamped, exec, hold, attempts>>
runVars     == <<run, asking, employed>>
effectVars  == <<carried, performed, lost>>
jobVars     == <<pc, mine, plan>>
historyVars == <<continued, followUps>>
vars == <<rowVars, runVars, effectVars, jobVars, historyVars, crashes>>

TypeOK ==
    /\ decision \in Decisions
    /\ stamped \in BOOLEAN
    /\ exec \in ExecStatus
    /\ hold \in {"none", "live", "expired"}
    /\ attempts \in 0 .. MaxAttempts + 1
    /\ run \in RunStatus
    /\ asking \in BOOLEAN
    /\ employed \in BOOLEAN
    /\ carried \in BOOLEAN
    /\ pc \in [Jobs -> Places]
    /\ mine \in [Jobs -> 0 .. MaxAttempts + 1]
    /\ plan \in [Jobs -> Plans]
    /\ performed \in Nat
    /\ lost \in Nat
    /\ continued \in Nat
    /\ followUps \in Nat
    /\ crashes \in 0 .. MaxCrashes

Decided == decision \in {"approved", "rejected"}

Go(j, place) == pc' = [pc EXCEPT ![j] = place]

-----------------------------------------------------------------------------
(* Endings: settleTerminal and settleRetryable.                            *)

SettleSuccess ==
    /\ stamped' = TRUE
    /\ exec' = "succeeded"
    /\ hold' = "none"
    /\ UNCHANGED <<decision, attempts>>

\* Broken variant: "failed" is taken for an ending.
SettleFailure_Unstamped ==
    IF stamped
    THEN UNCHANGED rowVars
    ELSE /\ exec' = "failed"
         /\ hold' = "none"
         /\ UNCHANGED <<decision, stamped, attempts>>

\* A failure does not overwrite a stamped ending.
SettleFailure ==
    IF stamped
    THEN UNCHANGED rowVars
    ELSE /\ stamped' = TRUE
         /\ exec' = "failed"
         /\ hold' = "none"
         /\ UNCHANGED <<decision, attempts>>

\* By id alone: neither the stamp nor the claim of another job is looked at.
SettleRetryable ==
    /\ exec' = "failed"
    /\ hold' = "none"
    /\ UNCHANGED <<decision, stamped, attempts>>

-----------------------------------------------------------------------------
(* One job.                                                                *)

\* Broken variant: the stamp is not part of the claim.
Claimable_Stamped ==
    /\ Decided
    /\ exec \in {"pending", "failed"} \/ (exec = "leased" /\ hold = "expired")

Claimable ==
    /\ Decided
    /\ ~stamped
    /\ exec \in {"pending", "failed"} \/ (exec = "leased" /\ hold = "expired")

Claim(j) ==
    /\ pc[j] = "idle"
    /\ Claimable
    /\ exec' = "leased"
    /\ hold' = "live"
    /\ attempts' = IF attempts > MaxAttempts THEN attempts ELSE attempts + 1
    /\ mine' = [mine EXCEPT ![j] = attempts']
    /\ Go(j, "claimed")
    /\ UNCHANGED <<decision, stamped, runVars, effectVars, plan, historyVars, crashes>>

\* Broken variant: no cap on the attempts.
Choose_Uncapped(number) ==
    IF ~employed THEN "give_up"
    ELSE IF run \in Parked THEN "resume"
    ELSE IF decision = "rejected" THEN "deliver_refusal"
    ELSE "follow_up"

\* Broken variant: a refusal is work like any other.
Choose_RefusalIsWork(number) ==
    IF number > MaxAttempts \/ ~employed THEN "give_up"
    ELSE IF run \in Parked THEN "resume"
    ELSE "follow_up"

\* Broken variant: the decision itself is taken for the plan.
Choose_Unmapped(number) ==
    IF number > MaxAttempts \/ ~employed THEN "give_up"
    ELSE IF run \in Parked THEN "resume"
    ELSE decision

\* planApprovalExecution, from the facts as they are now.
Choose(number) ==
    IF number > MaxAttempts \/ ~employed THEN "give_up"
    ELSE IF run \in Parked THEN "resume"
    ELSE IF decision = "rejected" THEN "deliver_refusal"
    ELSE "follow_up"

\* carryOutDecision reads run and person, and settles a plan to give up.
Plan(j) ==
    /\ pc[j] = "claimed"
    /\ plan' = [plan EXCEPT ![j] = Choose(mine[j])]
    /\ Go(j, "planned")
    /\ UNCHANGED <<rowVars, runVars, effectVars, mine, historyVars, crashes>>

Leave(j) ==
    /\ Go(j, "idle")
    /\ mine' = [mine EXCEPT ![j] = 0]
    /\ plan' = [plan EXCEPT ![j] = "none"]

GiveUp(j) ==
    /\ pc[j] = "planned" /\ plan[j] = "give_up"
    /\ SettleFailure
    /\ Leave(j)
    /\ UNCHANGED <<runVars, effectVars, historyVars, crashes>>

\* The refusal goes on the run's ledger; nothing is started.
DeliverRefusal(j) ==
    /\ pc[j] = "planned" /\ plan[j] = "deliver_refusal"
    /\ Go(j, "delivering")
    /\ UNCHANGED <<rowVars, runVars, effectVars, mine, plan, historyVars, crashes>>

\* A refusal has no action to carry out; an approval may name an ability that
\* the agent does not have any more, which is an answer like another.
SkipAction(j) ==
    /\ pc[j] = "planned" /\ plan[j] \in {"resume", "follow_up"}
    /\ Go(j, "acted")
    /\ UNCHANGED <<rowVars, runVars, effectVars, mine, plan, historyVars, crashes>>

\* Broken variant: the key names the attempt, so a completion is not found.
StartAction_KeyPerAttempt(j) ==
    /\ pc[j] = "planned" /\ plan[j] \in {"resume", "follow_up"}
    /\ decision = "approved"
    /\ performed' = performed + 1
    /\ Go(j, "acting")
    /\ UNCHANGED <<rowVars, runVars, carried, lost, mine, plan, historyVars, crashes>>

\* executeExternalEffect, up to the call of the adapter: a completion on the
\* ledger is returned, an insert under way elsewhere is waited for.
StartAction(j) ==
    /\ pc[j] = "planned" /\ plan[j] \in {"resume", "follow_up"}
    /\ decision = "approved"
    /\ \A k \in Jobs : pc[k] # "acting"
    /\ performed' = IF carried THEN performed ELSE performed + 1
    /\ Go(j, IF carried THEN "acted" ELSE "acting")
    /\ UNCHANGED <<rowVars, runVars, carried, lost, mine, plan, historyVars, crashes>>

\* The adapter answers and the transaction commits.
FinishAction(j) ==
    /\ pc[j] = "acting"
    /\ carried' = TRUE
    /\ Go(j, "acted")
    /\ UNCHANGED <<rowVars, runVars, performed, lost, mine, plan, historyVars, crashes>>

\* The adapter throws, or closing the abilities does: what the ledger would
\* have said of it is rolled back.
ActionThrows(j) ==
    /\ pc[j] = "acting"
    /\ lost' = lost + 1
    /\ Go(j, "failed")
    /\ UNCHANGED <<rowVars, runVars, carried, performed, mine, plan, historyVars, crashes>>

\* Reading the run, opening the ability set, recording the action or the refusal on the run,
\* closing the assignment or telling the chat may fail.
StepFails(j) ==
    /\ pc[j] \in {"claimed", "planned", "acted", "delivering"}
    /\ plan[j] # "give_up"
    /\ Go(j, "failed")
    /\ UNCHANGED <<rowVars, runVars, effectVars, mine, plan, historyVars, crashes>>

\* executeAgentRun: the parked run is reopened by id alone, or a run of its
\* own is started.  The employment gate is asked again.
Continue(j) ==
    /\ pc[j] = "acted"
    /\ IF employed
       THEN /\ run' = IF plan[j] = "resume" THEN "running" ELSE run
            /\ continued' = continued + 1
            /\ followUps' = IF plan[j] = "follow_up" THEN followUps + 1 ELSE followUps
            /\ Go(j, "continuing")
       ELSE /\ Go(j, "threw")
            /\ UNCHANGED <<run, historyVars>>
    /\ UNCHANGED <<rowVars, asking, employed, effectVars, mine, plan, crashes>>

\* The continuation returns.  The resumed run has ended or parked on a later
\* request, unless it was cancelled meanwhile.
FinishContinuation(j) ==
    /\ pc[j] = "continuing"
    /\ IF plan[j] = "resume" /\ run # "cancelled"
       THEN run' \in {"ended", "parked_other"}
       ELSE UNCHANGED run
    /\ Go(j, "delivering")
    /\ UNCHANGED <<rowVars, asking, employed, effectVars, mine, plan, historyVars, crashes>>

ContinuationThrows(j) ==
    /\ pc[j] = "continuing"
    /\ Go(j, "threw")
    /\ UNCHANGED <<rowVars, runVars, effectVars, mine, plan, historyVars, crashes>>

\* The run that asked is marked failed, by id alone.
RecordThrow(j) ==
    /\ pc[j] = "threw"
    /\ run' = "ended"
    /\ Go(j, "failed")
    /\ UNCHANGED <<rowVars, asking, employed, effectVars, mine, plan, historyVars, crashes>>

Succeed(j) ==
    /\ pc[j] = "delivering"
    /\ SettleSuccess
    /\ Leave(j)
    /\ UNCHANGED <<runVars, effectVars, historyVars, crashes>>

\* settlementAfterFailure: terminal on the cap, retryable before it.
Fail(j) ==
    /\ pc[j] = "failed"
    /\ IF mine[j] >= MaxAttempts THEN SettleFailure ELSE SettleRetryable
    /\ Leave(j)
    /\ UNCHANGED <<runVars, effectVars, historyVars, crashes>>

Crash(j) ==
    /\ pc[j] # "idle"
    /\ crashes < MaxCrashes
    /\ crashes' = crashes + 1
    /\ lost' = IF pc[j] = "acting" THEN lost + 1 ELSE lost
    /\ Leave(j)
    /\ UNCHANGED <<rowVars, runVars, carried, performed, historyVars>>

-----------------------------------------------------------------------------
(* Everybody else.                                                         *)

\* A decision by email only marks the row.
DecideByEmail(verdict) ==
    /\ decision = "pending"
    /\ decision' = verdict
    /\ UNCHANGED <<stamped, exec, hold, attempts, runVars, effectVars, jobVars,
                   historyVars, crashes>>

\* A decision in the app closes the run as well when it is a refusal and the
\* run is parked on an approval, whichever one.
DecideInApp(verdict) ==
    /\ decision = "pending"
    /\ decision' = verdict
    /\ run' = IF verdict = "rejected" /\ run \in Parked THEN "ended" ELSE run
    /\ UNCHANGED <<stamped, exec, hold, attempts, asking, employed, effectVars,
                   jobVars, historyVars, crashes>>

\* The attempt that raised the request commits: parked on it, or ended (a
\* call, a failure).  A cancelled run stays cancelled.
AskerEnds(status) ==
    /\ asking
    /\ asking' = FALSE
    /\ run' = IF run = "cancelled" THEN run ELSE status
    /\ UNCHANGED <<rowVars, employed, effectVars, jobVars, historyVars, crashes>>

\* stopRunAction: the run is cancelled, an undecided approval rejected and
\* stamped; one that is decided is left alone.
StopRun ==
    /\ run \in {"running"} \cup Parked
    /\ run' = "cancelled"
    /\ asking' = FALSE
    /\ IF decision = "pending"
       THEN /\ decision' = "rejected"
            /\ stamped' = TRUE
            /\ exec' = "succeeded"
       ELSE UNCHANGED <<decision, stamped, exec>>
    /\ UNCHANGED <<hold, attempts, employed, effectVars, jobVars, historyVars, crashes>>

\* windDownOffboarded: undecided approvals expire, decided ones that were not
\* carried out are stamped, the run is cancelled.
Offboard ==
    /\ employed
    /\ employed' = FALSE
    /\ run' = IF run = "ended" THEN run ELSE "cancelled"
    /\ decision' = IF decision = "pending" THEN "expired" ELSE decision
    /\ IF Decided /\ ~stamped
       THEN /\ stamped' = TRUE
            /\ exec' = "failed"
            /\ hold' = "none"
       ELSE UNCHANGED <<stamped, exec, hold>>
    /\ UNCHANGED <<attempts, asking, effectVars, jobVars, historyVars, crashes>>

\* Five minutes pass.
Expire ==
    /\ hold = "live"
    /\ hold' = "expired"
    /\ UNCHANGED <<decision, stamped, exec, attempts, runVars, effectVars, jobVars,
                   historyVars, crashes>>

-----------------------------------------------------------------------------
Init ==
    /\ decision = "pending" /\ stamped = FALSE /\ exec = "pending" /\ hold = "none"
    /\ attempts = 0
    /\ run = "running" /\ asking = TRUE /\ employed = TRUE
    /\ carried = FALSE
    /\ pc = [j \in Jobs |-> "idle"]
    /\ mine = [j \in Jobs |-> 0]
    /\ plan = [j \in Jobs |-> "none"]
    /\ performed = 0 /\ lost = 0 /\ continued = 0 /\ followUps = 0 /\ crashes = 0

JobStep(j) ==
    \/ Plan(j)
    \/ GiveUp(j)
    \/ DeliverRefusal(j)
    \/ SkipAction(j)
    \/ StartAction(j)
    \/ FinishAction(j)
    \/ ActionThrows(j)
    \/ StepFails(j)
    \/ Continue(j)
    \/ FinishContinuation(j)
    \/ ContinuationThrows(j)
    \/ RecordThrow(j)
    \/ Succeed(j)
    \/ Fail(j)

Others ==
    \/ \E verdict \in {"approved", "rejected"} :
         DecideByEmail(verdict) \/ DecideInApp(verdict)
    \/ \E status \in {"parked_here", "ended"} : AskerEnds(status)
    \/ StopRun
    \/ Offboard
    \/ Expire

Next ==
    \/ \E j \in Jobs : Claim(j) \/ JobStep(j) \/ Crash(j)
    \/ Others

Spec == Init /\ [][Next]_vars

(* Fairness.  The approvals pass runs every half minute and the queue hands *)
(* its jobs out; a job's own steps end (the loop of a continuation is       *)
(* bounded, the adapter's call is assumed to answer or throw); five minutes *)
(* pass.  Nothing is assumed of people.                                     *)
FairSpec ==
    /\ Spec
    /\ WF_vars(\E j \in Jobs : Claim(j))
    /\ \A j \in Jobs : WF_vars(JobStep(j))
    /\ WF_vars(Expire)
    /\ WF_vars(\E status \in {"parked_here", "ended"} : AskerEnds(status))

-----------------------------------------------------------------------------
(* What must hold.                                                         *)

\* No decision starts more continuations than the cap allows, however its
\* attempts crash, overlap or fail: the runaway of 196 attempts cannot recur.
ContinuationsBounded == continued <= MaxAttempts

\* Every start of the action is accounted for, and by one thing only: it is
\* under way, its completion is on the ledger, or it was lost, to an error or
\* with its process.  So the action is repeated exactly as often as it was
\* lost, however many jobs overlap and whatever plan a later attempt chooses,
\* and never after its completion.
StartsAccounted ==
    performed = lost + (IF carried \/ \E j \in Jobs : pc[j] = "acting" THEN 1 ELSE 0)

\* An action whose completion is on the ledger is never performed again,
\* however many jobs overlap and whatever plan a later attempt chooses.
CompletedActionStays == [][carried => performed' = performed /\ carried']_vars

\* A refusal carries nothing out and starts no run of its own.
RefusalStartsNoWork == decision = "rejected" => performed = 0 /\ followUps = 0

\* The stamp is final: nothing clears it, and no attempt begins after it.
StampIsFinal == [][stamped => stamped' /\ attempts' = attempts]_vars

(* Refinement: what a decision owes the agent.  A claim beyond the cap only *)
(* gives up; it leases nothing.                                             *)
Stage == IF stamped \/ decision = "expired" THEN "closed"
         ELSE IF Decided THEN "owed" ELSE "none"
Leases == IF attempts > MaxAttempts THEN MaxAttempts ELSE attempts

Approval == {"approval"}
Obligation == INSTANCE LeasedObligation
    WITH Obligations <- Approval,
         MaxTries <- MaxAttempts,
         stage <- [o \in Approval |-> Stage],
         tries <- [o \in Approval |-> Leases],
         works <- [o \in Approval |-> continued]

\* Nobody works on a decision that is not taken, each attempt starts one
\* continuation at most, and once the row is stamped it stays closed and no
\* attempt begins, whatever jobs outlive their lease.
ObligationSpec == Obligation!Spec

\* A decision that is not stamped can be claimed, or will be as soon as the
\* clock allows: no straggler and no crash leaves it in between.
NothingIsStranded ==
    Decided /\ ~stamped =>
        Claimable \/ (exec = "leased" /\ hold = "live")

\* Every decision is carried out or given up on.
DecisionSettles == (Decided /\ ~stamped) ~> stamped

(* What the code says of itself and does not keep to.                      *)

\* "the straggler's error must not bury the outcome that worked"
SuccessIsNotBuried ==
    [][(stamped /\ exec = "succeeded") => exec' = "succeeded"]_vars

\* What it takes to bury one: a job at work whose attempt is not the latest.
NoStraggler == \A j \in Jobs : pc[j] # "idle" => mine[j] = attempts

\* "Every decided approval is acted on exactly once": the approved action is
\* not performed a second time.
ApprovedActionOnce == performed <= 1

\* "the suspended run is released": once a decision has been carried out, the
\* run that asked for it does not stay parked on it.
DecidedRunIsReleased ==
    (exec = "succeeded" /\ run = "parked_here") ~> run # "parked_here"
=============================================================================
