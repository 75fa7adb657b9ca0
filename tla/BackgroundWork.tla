--------------------------- MODULE BackgroundWork ---------------------------
(***************************************************************************)
(* The worker's own work: duties that come due, assignments somebody was   *)
(* promised, runs another run launched.  Heartbeat passes read the rows    *)
(* and queue a job for each; a job claims its row, opens a run, and        *)
(* settles the row from the run's outcome.  Mail, the silence pass and     *)
(* decided approvals continue a run that parked.  The sweep closes runs    *)
(* that went silent.                                                       *)
(*                                                                         *)
(* Abstractions.                                                           *)
(*  - There is no clock.  An occurrence may be due as soon as it is        *)
(*    scheduled; the queue forgets a finished job in a step of its own.  A *)
(*    run is silent for thirty minutes when no process is at it, or when   *)
(*    it was parked that long and has written nothing since.               *)
(*  - All agents are one: it is employed or offboarded.                    *)
(*  - A duty's occurrences are numbered as they are scheduled; the last    *)
(*    number stands for its end date.  An unanchored duty is older than    *)
(*    the arming on save.                                                  *)
(*  - Continuations run one at a time beside the job slots, and die with   *)
(*    the same process.  What they do with their own inputs (approvals,    *)
(*    replies) is left out; here they take up a parked run and settle.     *)
(*  - A duty that happens once is one that ends with its first occurrence. *)
(*  - The answer a delegated assignment posts back to the colleague counts *)
(*    as mail its run sent.                                                *)
(*  - A run is RunExecution's, cut down to its row and its active attempt. *)
(***************************************************************************)
EXTENDS Naturals, FiniteSets

CONSTANTS
    Duties, Assignments, Children,  \* the rows there may be
    Loads,          \* the sets of rows a tenant may have
    Slots,          \* job slots of the deep-work queue
    Resumer,        \* the executor of continuations
    MaxRuns,        \* the run limit of a recurring duty
    LastOccurrence, \* bound on occurrences: a duty's end date
    MaxNumber,      \* bound on occurrences, and on runs of an assignment
    MaxReopens,     \* bound on the operator's rescheduling
    MaxResumes,     \* bound on continuations
    MaxFaults       \* bound on crashes, redeployments, failed steps, and on
                    \* offboarding

Items == Duties \cup Assignments \cup Children
Rows  == Items \X (1 .. MaxNumber)
Jobs  == Items \X (0 .. MaxNumber)

ASSUME KindsAssumption ==
    /\ Duties \cap Assignments = {} /\ Duties \cap Children = {}
    /\ Assignments \cap Children = {}
    /\ Items # {} /\ Loads \subseteq SUBSET Items
ASSUME ExecutorsAssumption == IsFiniteSet(Slots) /\ Resumer \notin Slots
ASSUME BoundsAssumption ==
    /\ {MaxRuns, MaxNumber} \subseteq Nat \ {0}
    /\ LastOccurrence \in 1 .. MaxNumber
    /\ {MaxReopens, MaxResumes, MaxFaults} \subseteq Nat

Executors == Slots \cup {Resumer}

Unfinished == {"running", "waiting"}
RunStates  == {"none", "completed", "failed", "cancelled"} \cup Unfinished
AssignmentStates ==
    {"none", "pending", "working", "waiting_approval", "delivered", "failed",
     "cancelled"}

\* What a run comes to.  A spent salary budget and a stop are failures here:
\* the callers do not tell them apart.
Parking  == {"waiting_approval", "waiting_reply", "waiting_credential"}
Outcomes == {"completed", "failed"} \cup Parking

\* An executor has claimed its row; has a run without an attempt; is in the
\* agent loop, of an old run and with nothing written yet, or at work; has its
\* outcome; has put the run's name on the assignment.
Looping == {"quiet", "loop"}
Places  == {"idle", "claimed", "opened", "ended", "named"} \cup Looping

VARIABLES
    on, due,        \* each duty: enabled; next_due_at, 0 for null
    count, issued,  \* each duty: run_count; the last occurrence scheduled
    reopened,       \* each duty: times an operator scheduled it again
    status,         \* each assignment's status
    named,          \* each assignment's run_id, 0 for null
    marked,         \* assignments whose last_error is the crash marker
    run,            \* each run row
    attempt,        \* children with an active attempt
    sent,           \* runs whose mail, or answer to the colleague, is out
    queue, kept,    \* jobs waiting; finished jobs whose id is remembered
    pc, item, nth,  \* each executor: where it is, its row, its run
    outcome,        \* each executor: the outcome it holds
    employed,
    resumes, faults,
    begun,          \* times a duty's or a child's run was begun afresh
    resumed,        \* children taken up again after they parked
    hidden,         \* occurrences claimed past work the runs did not show
    revived,        \* assignments that went on after they were settled
    refusals        \* rows opened only to record that a run which was there
                    \* before was not continued

dutyVars == <<on, due, count, issued, reopened>>
assignmentVars == <<status, named, marked>>
runVars   == <<run, attempt, sent>>
queueVars == <<queue, kept>>
execVars  == <<pc, item, nth, outcome>>
tallies   == <<resumes, faults>>
history   == <<begun, resumed, hidden, revived, refusals>>
vars == <<dutyVars, assignmentVars, runVars, queueVars, execVars, employed,
          tallies, history>>

TypeOK ==
    /\ on \in [Duties -> BOOLEAN]
    /\ due \in [Duties -> 0 .. MaxNumber]
    /\ issued \in [Duties -> 0 .. MaxNumber]
    /\ count \in [Duties -> Nat] /\ reopened \in [Duties -> Nat]
    /\ status \in [Assignments -> AssignmentStates]
    /\ named \in [Assignments -> 0 .. MaxNumber]
    /\ marked \subseteq Assignments
    /\ run \in [Rows -> RunStates]
    /\ attempt \subseteq Children /\ sent \subseteq Rows
    /\ queue \subseteq Jobs /\ kept \subseteq Jobs
    /\ pc \in [Executors -> Places]
    /\ item \in [Executors -> Items] /\ nth \in [Executors -> 0 .. MaxNumber]
    /\ outcome \in [Executors -> Outcomes]
    /\ employed \in BOOLEAN
    /\ resumes \in Nat /\ faults \in Nat
    /\ begun \in [Rows -> Nat]
    /\ resumed \subseteq Children /\ hidden \subseteq Rows
    /\ revived \subseteq Assignments /\ refusals \in [Items -> Nat]

\* The run an executor is at, and the job a slot holds.  Assignment jobs have
\* no id of their own and are never remembered; nor is the job of an occurrence
\* that is past, whose id does not come again.
At(e) == <<item[e], nth[e]>>
Held(e) == <<item[e], IF item[e] \in Assignments THEN 0 ELSE nth[e]>>
Remembered(j, awaited) ==
    IF j[1] \in Assignments \/ (j[1] \in Duties /\ awaited[j[1]] # j[2])
    THEN kept ELSE kept \cup {j}

Busy(e) == pc[e] # "idle"
Nothing == CHOOSE i \in Items : TRUE      \* what an idle executor is at
Go(e, place, i, k) ==
    /\ pc' = [pc EXCEPT ![e] = place]
    /\ item' = [item EXCEPT ![e] = i]
    /\ nth' = [nth EXCEPT ![e] = k]
Leave(e) ==
    /\ pc' = [pc EXCEPT ![e] = "idle"]
    /\ item' = [item EXCEPT ![e] = Nothing]
    /\ nth' = [nth EXCEPT ![e] = 0]
    /\ outcome' = [outcome EXCEPT ![e] = "failed"]
    /\ kept' = IF e = Resumer THEN kept ELSE Remembered(Held(e), due)
    /\ UNCHANGED queue

-----------------------------------------------------------------------------
(* The heartbeat passes.                                                   *)

\* dueDuties, pendingAssignmentIds, unstartedChildRunIds.
Wanted(i, k) ==
    \/ i \in Duties /\ on[i] /\ employed /\ k = due[i]
    \/ i \in Assignments /\ status[i] = "pending" /\ k = 0
    \/ i \in Children /\ k = 1 /\ run[<<i, k>>] = "running"
       /\ i \notin attempt

\* dutiesPass, assignmentsPass, launchedChildrenPass: a job with an id is
\* added unless the queue knows it.
Enqueue(i, k) ==
    /\ Wanted(i, k)
    /\ <<i, k>> \notin queue \cup kept
    /\ i \notin Assignments =>
         ~ \E e \in Slots : Busy(e) /\ Held(e) = <<i, k>>
    /\ queue' = queue \cup {<<i, k>>}
    /\ UNCHANGED <<dutyVars, assignmentVars, runVars, kept, execVars,
                   employed, tallies, history>>

\* The queue forgets a finished job: after a day, a week when it failed.
Expire(j) ==
    /\ j \in kept
    /\ kept' = kept \ {j}
    /\ UNCHANGED <<dutyVars, assignmentVars, runVars, queue, execVars,
                   employed, tallies, history>>

-----------------------------------------------------------------------------
(* Claiming.                                                               *)

\* executeDueDuty asks for an unfinished run of the duty.  Broken variant: it
\* forgets the runs that wait.
LiveRun_Running(d) == \E k \in 1 .. MaxNumber : run[<<d, k>>] = "running"
LiveRun(d) == \E k \in 1 .. MaxNumber : run[<<d, k>>] \in Unfinished

\* Work on the duty that no unfinished run shows: a claim whose run is not in
\* the table yet, an executor at a run the sweep or the operator closed.
OutOfSight(d) ==
    \E e \in Executors :
        /\ pc[e] \in {"claimed", "opened"} \cup Looping /\ item[e] = d
        /\ run[At(e)] \notin Unfinished

\* nextOccurrence and occurrenceAfterSkip: they differ in the runs charged.
\* Broken variants: one run too many; the end date is forgotten.
Following_Endless(d, charged) ==
    IF charged >= MaxRuns THEN 0 ELSE issued[d] + 1
Following_Late(d, charged) ==
    IF charged > MaxRuns \/ issued[d] = LastOccurrence
    THEN 0 ELSE issued[d] + 1
Following(d, charged) ==
    IF charged >= MaxRuns \/ issued[d] = LastOccurrence
    THEN 0 ELSE issued[d] + 1

\* The row once an occurrence is over with; null retires the duty.  Broken
\* variant: a skipped occurrence stays due.
Reschedule(d, next) ==
    /\ due' = [due EXCEPT ![d] = next]
    /\ on' = [on EXCEPT ![d] = next # 0]
    /\ issued' = [issued EXCEPT ![d] = IF next = 0 THEN @ ELSE next]
AfterSkip_Stays(d) == due[d]
AfterSkip(d) == Following(d, count[d])

\* The claim compares the due time the pass saw.
Current(d, k) == on[d] /\ due[d] = k

\* Idle slots are alike: one of them, always the same, takes the job.
Take(e, i, k) ==
    /\ e \in Slots /\ ~ Busy(e)
    /\ e = CHOOSE s \in Slots : ~ Busy(s)
    /\ <<i, k>> \in queue
    /\ queue' = queue \ {<<i, k>>}

\* executeDueDuty for a job that is stale, that anchors, or that skips: an
\* unfinished run, or a spent self-directed budget.
PassOver(e, d, k) ==
    /\ Take(e, d, k) /\ d \in Duties
    /\ \/ ~ Current(d, k) /\ UNCHANGED <<on, due, issued>>
       \/ /\ Current(d, k) /\ k = 0
          /\ Reschedule(d, Following(d, count[d] + 1))
       \/ /\ Current(d, k) /\ k # 0
          /\ Reschedule(d, AfterSkip(d))
    /\ kept' = Remembered(<<d, k>>, due')
    /\ UNCHANGED <<count, reopened, assignmentVars, runVars, execVars,
                   employed, tallies, history>>

ClaimDuty(e, d, k) ==
    /\ Take(e, d, k) /\ d \in Duties
    /\ Current(d, k) /\ k # 0 /\ ~ LiveRun(d)
    /\ Reschedule(d, Following(d, count[d] + 1))
    /\ count' = [count EXCEPT ![d] = @ + 1]
    /\ Go(e, "claimed", d, k)
    /\ hidden' = IF OutOfSight(d) THEN hidden \cup {<<d, k>>} ELSE hidden
    /\ UNCHANGED <<reopened, assignmentVars, runVars, kept, outcome, employed,
                   tallies, begun, resumed, revived, refusals>>

\* runAssignment: pending to working, or the job is done.  Broken variant: what
\* was picked up again is not claimed.
Claimable_Fresh(a) == status[a] = "pending" /\ a \notin marked
Claimable(a) == status[a] = "pending"
ClaimAssignment(e, a) ==
    /\ Take(e, a, 0) /\ a \in Assignments
    /\ IF Claimable(a)
       THEN /\ status' = [status EXCEPT ![a] = "working"]
            /\ Go(e, "claimed", a, 0)
       ELSE UNCHANGED <<status, pc, item, nth>>
    /\ UNCHANGED <<dutyVars, named, marked, runVars, kept, outcome, employed,
                   tallies, history>>

\* runLaunchedChild: unless it has an attempt, or is over.  Broken variant:
\* any running child.
Unstarted_Running(c) == run[<<c, 1>>] = "running"
Unstarted(c) == run[<<c, 1>>] = "running" /\ c \notin attempt
ClaimChild(e, c) ==
    /\ Take(e, c, 1) /\ c \in Children
    /\ IF Unstarted(c)
       THEN Go(e, "claimed", c, 1) /\ UNCHANGED kept
       ELSE kept' = Remembered(<<c, 1>>, due) /\ UNCHANGED <<pc, item, nth>>
    /\ UNCHANGED <<dutyVars, assignmentVars, runVars, outcome, employed,
                   tallies, history>>

\* A reply arrives, the silence pass wakes it, its approval is decided.
PickUp(i, k) ==
    /\ ~ Busy(Resumer) /\ run[<<i, k>>] = "waiting"
    /\ resumes < MaxResumes
    /\ resumes' = resumes + 1
    /\ Go(Resumer, "claimed", i, k)
    /\ UNCHANGED <<dutyVars, assignmentVars, runVars, queueVars, outcome,
                   employed, faults, history>>

\* The claiming transaction fails: the job fails, the row is as it was.
JobFails(e, i, k) ==
    /\ faults < MaxFaults /\ Take(e, i, k)
    /\ faults' = faults + 1
    /\ kept' = Remembered(<<i, k>>, due)
    /\ UNCHANGED <<dutyVars, assignmentVars, runVars, execVars, employed,
                   resumes, history>>

-----------------------------------------------------------------------------
(* executeAgentRun, and what its callers do with the outcome.              *)

\* The rows an assignment's runs have taken, and the one it would take next.
Opened(a) == {k \in 1 .. MaxNumber : run[<<a, k>>] # "none"}
RowFor(e) ==
    IF item[e] \in Assignments /\ nth[e] = 0
    THEN <<item[e], Cardinality(Opened(item[e])) + 1>> ELSE At(e)

\* The run was there before, perhaps for long.
Adopts(e) == e = Resumer \/ item[e] \in Children

\* runAssignment: everything the ask stems from has cost too much.
OverBudget(e) ==
    /\ pc[e] = "claimed" /\ e \in Slots /\ item[e] \in Assignments
    /\ status' = [status EXCEPT ![item[e]] = "failed"]
    /\ marked' = marked \ {item[e]}
    /\ Leave(e)
    /\ UNCHANGED <<dutyVars, named, runVars, employed, tallies, history>>

\* The employment gate refuses, before it is asked whether the run was there
\* already.  refuseRun always opens a failed row, with the caller's trigger: the
\* run's own where it would be new, one beside it where it was there before.
Refuse(e) ==
    /\ pc[e] = "claimed" /\ ~ employed
    /\ IF Adopts(e)
       THEN /\ refusals' = [refusals EXCEPT ![item[e]] = @ + 1]
            /\ UNCHANGED run
       ELSE /\ run' = [run EXCEPT ![RowFor(e)] = "failed"]
            /\ UNCHANGED refusals
    /\ IF e = Resumer \/ item[e] \notin Assignments
       THEN UNCHANGED <<status, marked>>
       ELSE /\ status' = [status EXCEPT ![item[e]] = "failed"]
            /\ marked' = marked \ {item[e]}
    /\ Leave(e)
    /\ UNCHANGED <<dutyVars, named, attempt, sent, employed, tallies, begun,
                   resumed, hidden, revived>>

\* The run row is inserted, or the one there is set to running by its id.
Open(e) ==
    /\ pc[e] = "claimed" /\ employed
    /\ RowFor(e) \in Rows
    /\ run' = [run EXCEPT ![RowFor(e)] = "running"]
    /\ Go(e, "opened", item[e], RowFor(e)[2])
    /\ resumed' = IF e = Resumer THEN resumed \cup ({item[e]} \cap Children)
                  ELSE resumed
    /\ UNCHANGED <<dutyVars, assignmentVars, attempt, sent, queueVars,
                   outcome, employed, tallies, begun, hidden, revived,
                   refusals>>

\* The caller goes on with the outcome; only an assignment does anything.
Return(e, o) ==
    IF item[e] \in Assignments
    THEN /\ pc' = [pc EXCEPT ![e] = IF e = Resumer THEN "named" ELSE "ended"]
         /\ outcome' = [outcome EXCEPT ![e] = o]
         /\ UNCHANGED <<item, nth, queueVars>>
    ELSE Leave(e)

\* active_attempt_id of the run, of which only a child's is ever asked for.
Attempts(e, new) == (attempt \ {item[e]}) \cup (new \cap Children)

\* The lease is claimed on a running row that is not leased: the lease of a
\* process that died has lapsed by then.  The loser throws.
Leased(r) == \E e \in Executors : pc[e] \in Looping /\ At(e) = r
Begin(e) ==
    /\ pc[e] = "opened"
    /\ IF run[At(e)] = "running" /\ ~ Leased(At(e))
       THEN /\ attempt' = Attempts(e, {item[e]})
            /\ begun' = IF e = Resumer \/ item[e] \in Assignments THEN begun
                        ELSE [begun EXCEPT ![At(e)] = @ + 1]
            /\ Go(e, IF Adopts(e) THEN "quiet" ELSE "loop", item[e], nth[e])
            /\ UNCHANGED <<outcome, queueVars>>
       ELSE /\ Leave(e)
            /\ UNCHANGED <<attempt, begun>>
    /\ UNCHANGED <<dutyVars, assignmentVars, run, sent, employed,
                   tallies, resumed, hidden, revived, refusals>>

\* assembleRunFoundation says no: failed by id, and returned as an outcome.
Unassembled(e) ==
    /\ pc[e] = "opened"
    /\ run' = [run EXCEPT ![At(e)] = "failed"]
    /\ Return(e, "failed")
    /\ UNCHANGED <<dutyVars, assignmentVars, attempt, sent, employed,
                   tallies, history>>

\* The loop writes its first event.
Speak(e) ==
    /\ pc[e] = "quiet"
    /\ Go(e, "loop", item[e], nth[e])
    /\ UNCHANGED <<dutyVars, assignmentVars, runVars, outcome, queueVars,
                   employed, tallies, history>>

RunStatus(o) == IF o \in Parking THEN "waiting" ELSE o

\* A run that completes has sent its mail or not; finalizeRunAttempt commits,
\* but not over a cancellation.
End(e, o) ==
    /\ pc[e] = "loop"
    /\ run' = [run EXCEPT ![At(e)] =
                  IF @ = "cancelled" THEN @ ELSE RunStatus(o)]
    /\ attempt' = Attempts(e, {})
    /\ \/ UNCHANGED sent
       \/ /\ item[e] \in Assignments /\ o = "completed"
          /\ sent' = sent \cup {At(e)}
    /\ Return(e, o)
    /\ UNCHANGED <<dutyVars, assignmentVars, employed, tallies, history>>

\* The renewal finds the run swept: the job fails, nothing is settled.
LeaseLost(e) ==
    /\ pc[e] \in Looping /\ run[At(e)] = "failed"
    /\ Leave(e)
    /\ UNCHANGED <<dutyVars, assignmentVars, runVars, employed, tallies,
                   history>>

\* executeAgentRun throws: the run says failed, the job fails.
Throw(e) ==
    /\ pc[e] \in {"opened"} \cup Looping /\ faults < MaxFaults
    /\ faults' = faults + 1
    /\ run' = [run EXCEPT ![At(e)] = IF @ = "cancelled" THEN @ ELSE "failed"]
    /\ attempt' = IF pc[e] \in Looping THEN Attempts(e, {}) ELSE attempt
    /\ Leave(e)
    /\ UNCHANGED <<dutyVars, assignmentVars, sent, employed, resumes,
                   history>>

\* runAssignment records the run it was given.
Name(e) ==
    /\ pc[e] = "ended"
    /\ named' = [named EXCEPT ![item[e]] = nth[e]]
    /\ Go(e, "named", item[e], nth[e])
    /\ UNCHANGED <<dutyVars, status, marked, runVars, outcome, queueVars,
                   employed, tallies, history>>

\* Proof of delivery is the mail ledger.  Broken variant: the outcome is.
Delivered_Claimed(e) == outcome[e] = "completed"
Delivered(e) == outcome[e] = "completed" /\ At(e) \in sent

\* finalizeAssignmentRun, by the assignment's id, whatever its status is.  An
\* answer that is posted to the colleague leaves last_error as it was.
Over ==
    {a \in Assignments : status[a] \in {"delivered", "failed", "cancelled"}}
Finalize(e) ==
    /\ pc[e] = "named"
    /\ status' = [status EXCEPT ![item[e]] =
         CASE outcome[e] = "waiting_approval" -> "waiting_approval"
           [] outcome[e] = "waiting_reply" -> "working"
           [] Delivered(e) -> "delivered"
           [] OTHER -> "failed"]
    /\ IF outcome[e] \in {"waiting_approval", "waiting_reply"}
       THEN /\ revived' = revived \cup ({item[e]} \cap Over)
            /\ UNCHANGED marked
       ELSE /\ \/ marked' = marked \ {item[e]}
               \/ Delivered(e) /\ UNCHANGED marked
            /\ UNCHANGED revived
    /\ Leave(e)
    /\ UNCHANGED <<dutyVars, named, runVars, employed, tallies, begun,
                   resumed, hidden, refusals>>

-----------------------------------------------------------------------------
(* The sweep, the operator, the process.                                   *)

Attended(r) ==
    \E e \in Executors : pc[e] \in {"opened"} \cup Looping /\ At(e) = r

\* Nothing was written for thirty minutes.
Silent(r) ==
    \A e \in Executors :
        At(e) = r => \/ pc[e] \notin {"opened", "loop"}
                     \/ pc[e] = "opened" /\ Adopts(e)

\* What becomes of a working assignment whose recorded run is swept.  Broken
\* variants: the marker is not looked at; a marked assignment is left alone.
Reclaimed_Always(a) == "pending"
Reclaimed_Spares(a) == IF a \in marked THEN "working" ELSE "pending"
Reclaimed(a) == IF a \in marked THEN "failed" ELSE "pending"

\* abandonedWorkPass closes every kind of run.  Broken variant: those of
\* assignments only.
Sweepable_Assignments(i) == i \in Assignments
Sweepable(i) == i \in Items
Sweep(i, k) ==
    /\ Sweepable(i)
    /\ run[<<i, k>>] = "running" /\ Silent(<<i, k>>)
    /\ run' = [run EXCEPT ![<<i, k>>] = "failed"]
    /\ IF i \in Assignments /\ named[i] = k /\ status[i] = "working"
       THEN /\ status' = [status EXCEPT ![i] = Reclaimed(i)]
            /\ marked' = marked \cup {i}
       ELSE UNCHANGED <<status, marked>>
    /\ UNCHANGED <<dutyVars, named, attempt, sent, queueVars, execVars,
                   employed, tallies, history>>

\* updateDuty, with a schedule that has an occurrence to come.
Reopen(d) ==
    /\ reopened[d] < MaxReopens /\ issued[d] \in 1 .. LastOccurrence - 1
    /\ reopened' = [reopened EXCEPT ![d] = @ + 1]
    /\ Reschedule(d, issued[d] + 1)
    /\ UNCHANGED <<count, assignmentVars, runVars, queueVars, execVars,
                   employed, tallies, history>>

\* deleteDuty, cancel_scheduled_task, delete_scheduled_task.
Retire(d) ==
    /\ on[d]
    /\ Reschedule(d, 0)
    /\ UNCHANGED <<count, reopened, assignmentVars, runVars, queueVars,
                   execVars, employed, tallies, history>>

\* windDownOffboarded.
Offboard ==
    /\ employed /\ faults < MaxFaults
    /\ faults' = faults + 1
    /\ employed' = FALSE
    /\ on' = [d \in Duties |-> FALSE] /\ due' = [d \in Duties |-> 0]
    /\ status' = [a \in Assignments |->
          IF status[a] \in {"pending", "working", "waiting_approval"}
          THEN "cancelled" ELSE status[a]]
    /\ run' = [r \in Rows |->
                 IF run[r] \in Unfinished THEN "cancelled" ELSE run[r]]
    /\ UNCHANGED <<count, issued, reopened, named, marked, attempt, sent,
                   queueVars, execVars, resumes, history>>

\* The worker is killed, or shut down: a shutdown records the runs that are
\* in the loop.  The queue hands its jobs out again.
Die(graceful) ==
    /\ faults < MaxFaults /\ \E e \in Executors : Busy(e)
    /\ faults' = faults + 1
    /\ run' = [r \in Rows |->
          IF /\ graceful /\ run[r] = "running"
             /\ \E e \in Executors : pc[e] \in Looping /\ At(e) = r
          THEN "failed" ELSE run[r]]
    /\ pc' = [e \in Executors |-> "idle"]
    /\ item' = [e \in Executors |-> Nothing]
    /\ nth' = [e \in Executors |-> 0]
    /\ outcome' = [e \in Executors |-> "failed"]
    /\ queue' = queue \cup {Held(e) : e \in {s \in Slots : Busy(s)}}
    /\ UNCHANGED <<dutyVars, assignmentVars, attempt, sent, kept,
                   employed, resumes, history>>

-----------------------------------------------------------------------------
\* An assignment may have been reclaimed before: its first run was swept.
Init ==
    \E load \in Loads, again \in SUBSET Assignments :
    /\ again \subseteq load
    /\ on = [d \in Duties |-> d \in load]
    /\ due \in [Duties -> {0, 1}]
    /\ \A d \in Duties : due[d] = 1 => d \in load
    /\ issued = due
    /\ count = [d \in Duties |-> 0] /\ reopened = [d \in Duties |-> 0]
    /\ status = [a \in Assignments |-> IF a \in load THEN "pending" ELSE "none"]
    /\ named = [a \in Assignments |-> IF a \in again THEN 1 ELSE 0]
    /\ marked = again
    /\ run = [r \in Rows |->
                 IF r \in again \X {1} THEN "failed"
                 ELSE IF r \in (Children \cap load) \X {1} THEN "running"
                 ELSE "none"]
    /\ attempt = {} /\ sent = {}
    /\ queue = {} /\ kept = {}
    /\ pc = [e \in Executors |-> "idle"]
    /\ item = [e \in Executors |-> Nothing]
    /\ nth = [e \in Executors |-> 0]
    /\ outcome = [e \in Executors |-> "failed"]
    /\ employed = TRUE
    /\ resumes = 0 /\ faults = 0
    /\ begun = [r \in Rows |-> 0]
    /\ resumed = {} /\ hidden = {} /\ revived = {}
    /\ refusals = [i \in Items |-> 0]

\* What an executor does on its own with what it has claimed.
Advance(e) ==
    \/ OverBudget(e) \/ Refuse(e) \/ Open(e) \/ Begin(e) \/ Unassembled(e)
    \/ Speak(e) \/ \E o \in Outcomes : End(e, o)
    \/ LeaseLost(e) \/ Name(e) \/ Finalize(e)

Claim(e, i, k) ==
    \/ PassOver(e, i, k) \/ ClaimDuty(e, i, k)
    \/ k = 0 /\ ClaimAssignment(e, i)
    \/ k = 1 /\ ClaimChild(e, i)

Next ==
    \/ \E i \in Items, k \in 0 .. MaxNumber :
         \/ Enqueue(i, k) \/ Expire(<<i, k>>)
         \/ \E e \in Slots : Claim(e, i, k) \/ JobFails(e, i, k)
    \/ \E e \in Executors : Advance(e) \/ Throw(e)
    \/ \E i \in Items, k \in 1 .. MaxNumber : PickUp(i, k) \/ Sweep(i, k)
    \/ \E d \in Duties : Reopen(d) \/ Retire(d)
    \/ Offboard
    \/ \E graceful \in BOOLEAN : Die(graceful)

Spec == Init /\ [][Next]_vars

(***************************************************************************)
(* Heartbeats tick for ever and the process is restarted when it dies.  A  *)
(* job waits its turn behind finitely many others: the queue is first in,  *)
(* first out, so its slot is strongly fair.  A run ends, by its step limit *)
(* and its deadlines.  The sweep finds a run no process is at; the queue   *)
(* forgets a finished job.                                                 *)
(***************************************************************************)
FairSpec ==
    /\ Spec
    /\ \A i \in Items :
         /\ WF_vars(\E k \in 0 .. MaxNumber : Enqueue(i, k))
         /\ WF_vars(\E k \in 0 .. MaxNumber : Expire(<<i, k>>))
         /\ SF_vars(\E e \in Slots, k \in 0 .. MaxNumber : Claim(e, i, k))
         /\ WF_vars(\E k \in 1 .. MaxNumber :
                      ~ Attended(<<i, k>>) /\ Sweep(i, k))
    /\ \A e \in Executors : WF_vars(Advance(e))

-----------------------------------------------------------------------------
(* Safety.                                                                 *)

\* "A duty never runs twice at once" (duty-execution.ts:69): two executors are
\* at work for one duty only when the later occurrence was claimed past work
\* that no unfinished run showed.
NeverTwiceAtOnce ==
    \A e, f \in Executors :
        /\ e # f /\ item[e] = item[f] /\ item[e] \in Duties
        /\ pc[e] \in Looping /\ pc[f] \in Looping
        => At(e) \in hidden \/ At(f) \in hidden

\* A skip and an anchoring cost nothing, and the limit holds: the runs a duty
\* has opened are charged for, and the charges are at most its limit, plus one
\* for each time an operator scheduled it again.  The rows nobody is charged for
\* are refusals, "opens a run of its own" (agent-runs.ts:671): at most one for
\* each time a parked run was taken up, and none while the agent is employed.
RunLimitKept ==
    \A d \in Duties :
        /\ Cardinality({k \in 1 .. MaxNumber : run[<<d, k>>] # "none"})
             <= count[d]
        /\ refusals[d] <= IF employed THEN 0 ELSE resumes
        /\ count[d] <= MaxRuns + reopened[d]

\* "duplicate queue jobs are harmless" (duty-execution.ts:43), "keeps a second
\* tick from starting the same child twice" (worker.mts): an occurrence, or a
\* child's brief, is begun at most once, however its job is repeated; a child
\* again only if a continuation of its parked run took it up.
BegunOnce ==
    \A r \in Rows : begun[r] > 1 => r[1] \in resumed

\* "It goes back on the queue to be finished, once" (worker.mts:582): an
\* assignment is started at most twice, unless a run of it went on, and parked,
\* after another, or an earlier outcome of its own, had settled it: settling
\* forgets the reclaim.  A row that only records a refused continuation is no
\* start.
FinishedOnce ==
    \A a \in Assignments : a \notin revived => Cardinality(Opened(a)) <= 2

\* "an assignment is 'delivered' only when the run actually sent mail"
\* (assignments.ts:15), whichever of its runs settles it last.
DeliveredIsEarned ==
    \A a \in Assignments :
        status[a] = "delivered" => \E k \in Opened(a) : <<a, k>> \in sent

-----------------------------------------------------------------------------
(* Liveness.                                                               *)

\* While its agent is employed, an occurrence that is due is run or passed
\* over: "a Redis loss leaves the occurrence visible to the next heartbeat"
\* (duty-execution.ts:43).
DueIsServed ==
    \A d \in Duties, k \in 0 .. LastOccurrence :
        on[d] /\ due[d] = k ~> ~ (on[d] /\ due[d] = k /\ employed)

\* A promised deliverable is taken up.
PendingIsTaken ==
    \A a \in Assignments : status[a] = "pending" ~> status[a] # "pending"

\* A child ends or parks, whatever becomes of its job: its parent waits for it.
ChildSettles ==
    \A c \in Children :
        run[<<c, 1>>] = "running" ~> run[<<c, 1>>] # "running"

\* A working assignment whose recorded run has lost its process does not stay
\* working: it is queued again or given up.
DeadWorkIsReclaimed ==
    \A a \in Assignments :
        /\ status[a] = "working" /\ named[a] # 0
        /\ run[<<a, named[a]>>] = "running" /\ ~ Attended(<<a, named[a]>>)
        ~> status[a] # "working" \/ Attended(<<a, named[a]>>)
=============================================================================
