---------------------------- MODULE RunExecution ----------------------------
(***************************************************************************)
(* One durable run: its row, the ledger of its fenced attempts, and every  *)
(* process that may write either of them.                                  *)
(*                                                                         *)
(* An executor is one call of executeAgentRun together with the caller     *)
(* that made it (approval executor, reply or silence pass, credential      *)
(* continuation).  Each awaited read or write of the database is a step of *)
(* its own; a database transaction is one step.                            *)
(*                                                                         *)
(* Abstractions.                                                           *)
(*  - The k-th attempt of the run is named by its fence k: the fence is    *)
(*    incremented by every claim and unique per run.                       *)
(*  - The event ledger of an attempt is kept as its latest kind (all the   *)
(*    code ever reads of it) and the number of terminal events appended.   *)
(*  - lease_expires_at is "none", "live" or "expired"; time may pass at    *)
(*    any moment.  Comparing it with the clock of one process or another   *)
(*    only changes who notices first, and every order of that is allowed.  *)
(*  - Transcript, summary and timestamps are left out.                     *)
(***************************************************************************)
EXTENDS Naturals

CONSTANTS
    Executors,      \* calls of executeAgentRun that may concern this run
    WakesOn,        \* the parked status each executor's caller looks for
    MaxFence,       \* bound on the number of claims of the run
    NoOwner         \* lease_owner is null

Parked == {"waiting_approval", "waiting_reply", "waiting_credential"}

ASSUME ExecutorsAssumption == NoOwner \notin Executors
ASSUME WakesOnAssumption == WakesOn \in [Executors -> Parked]
ASSUME MaxFenceAssumption == MaxFence \in Nat \ {0}

Fences    == 1 .. MaxFence
NoAttempt == 0

Settled   == {"completed", "failed", "cancelled"}
RunStatus == {"running"} \cup Parked \cup Settled
Stoppable == {"running"} \cup Parked

OpenKinds     == {"claimed", "renewed"}
TerminalKinds == {"completed", "failed", "cancelled", "lease_lost"}
AttemptKinds  == {"none"} \cup OpenKinds \cup TerminalKinds

(* Where an executor is: the caller has read the parked run ("woken"), the *)
(* employment gate let it through ("admitted"), the row says running and   *)
(* nothing is leased yet ("opened"), then inside runWithFencedLease        *)
(* ("executing", "committing"), in its catch block ("failing", "lost",     *)
(* "losing"), or the caller is handling what it threw ("thrown", "refused"  *)
(* when that is ExecutionLeaseUnavailableError).                           *)
Holding    == {"executing", "committing", "failing", "lost", "losing"}
Authority  == {"executing", "committing", "failing"}
Places     == {"idle", "woken", "admitted", "opened", "thrown", "refused"}
                \cup Holding

VARIABLES
    status,         \* runs.status
    leaseOwner,     \* runs.lease_owner
    leaseFence,     \* runs.lease_fence
    lease,          \* runs.lease_expires_at against the clock
    activeAttempt,  \* runs.active_attempt_id
    latest,         \* latest[k]: kind of the latest event of attempt k
    terminals,      \* terminals[k]: terminal events appended to attempt k
    employed,       \* people.status = 'active' for the run's agent
    pc,             \* pc[e]: where executor e is
    held,           \* held[e]: the attempt of the lease e was given
    result,         \* result[e]: the run status e is about to commit, if any
    beat            \* beat[e]: attempt whose 'renewed' event e still owes

rowVars    == <<status, leaseOwner, leaseFence, lease, activeAttempt>>
leaseVars  == <<leaseOwner, leaseFence, lease, activeAttempt>>
ledgerVars == <<latest, terminals>>
localVars  == <<pc, held, result, beat>>
vars == <<status, leaseOwner, leaseFence, lease, activeAttempt,
          latest, terminals, employed, pc, held, result, beat>>

TypeOK ==
    /\ status \in RunStatus
    /\ leaseOwner \in Executors \cup {NoOwner}
    /\ leaseFence \in 0 .. MaxFence
    /\ lease \in {"none", "live", "expired"}
    /\ activeAttempt \in 0 .. MaxFence
    /\ latest \in [Fences -> AttemptKinds]
    /\ terminals \in [Fences -> Nat]
    /\ employed \in BOOLEAN
    /\ pc \in [Executors -> Places]
    /\ held \in [Executors -> 0 .. MaxFence]
    /\ result \in [Executors -> RunStatus]
    /\ beat \in [Executors -> 0 .. MaxFence]

-----------------------------------------------------------------------------
(* Helpers of the lease store and the attempt ledger.                      *)

IsOpen(k) == latest[k] \in OpenKinds

\* Broken variant: a terminal write addressed by the run's id alone.
RunFence_ById(e) == held[e] # NoAttempt

\* runFence: the row still names e's owner, fence and attempt.  Neither the
\* status nor the expiry is part of it.
RunFence(e) ==
    /\ leaseOwner = e
    /\ leaseFence = held[e]
    /\ activeAttempt = held[e]

\* Append a terminal event to attempt k without asking what came before.
CloseAttempt(k, kind) ==
    /\ latest' = [latest EXCEPT ![k] = kind]
    /\ terminals' = [terminals EXCEPT ![k] = @ + 1]

\* The attempt a crashed or lapsed executor left behind, if its history is
\* not finished.  Broken variant: the latest event is not looked at.
Superseded_Unchecked(k) == k # NoAttempt
Superseded(k) == k # NoAttempt /\ IsOpen(k)

\* Append a terminal event to attempt k only while it is open.
CloseIfOpen(k, kind) ==
    IF k # NoAttempt /\ IsOpen(k)
    THEN CloseAttempt(k, kind)
    ELSE UNCHANGED ledgerVars

ClearLease ==
    /\ leaseOwner' = NoOwner
    /\ lease' = "none"
    /\ activeAttempt' = NoAttempt
    /\ UNCHANGED leaseFence

Go(e, place) == pc' = [pc EXCEPT ![e] = place]

\* The call is over; what it held is forgotten.  A heartbeat append already
\* under way outlives it.
Leave(e, place) ==
    /\ Go(e, place)
    /\ held' = [held EXCEPT ![e] = NoAttempt]
    /\ result' = [result EXCEPT ![e] = "running"]
    /\ UNCHANGED beat

\* The kind of terminal event that goes with a committed run status.  Broken
\* variant: the run status is written as it stands.
AttemptKind_Unmapped(s) == s
AttemptKind(s) ==
    CASE s = "failed"    -> "failed"
      [] s = "cancelled" -> "cancelled"
      [] OTHER           -> "completed"

-----------------------------------------------------------------------------
(* Callers.                                                                *)

\* The caller finds the run parked on what it has news of.  What it read is
\* only a memory from here on: the silence pass reads all waiting runs first
\* and then works through them one whole run at a time.
Wake(e) ==
    /\ pc[e] = "idle"
    /\ status = WakesOn[e]
    /\ Go(e, "woken")
    /\ UNCHANGED <<rowVars, ledgerVars, employed, held, result, beat>>

\* executeAgentRun asks the employment gate before anything else.  A refusal
\* leaves a failed run of its own, never this one.
Admit(e) ==
    /\ pc[e] = "woken"
    /\ Go(e, IF employed THEN "admitted" ELSE "thrown")
    /\ UNCHANGED <<rowVars, ledgerVars, employed, held, result, beat>>

\* Resume: the row is set running by id alone, whatever it says by now.
Reopen(e) ==
    /\ pc[e] = "admitted"
    /\ status' = "running"
    /\ Go(e, "opened")
    /\ UNCHANGED <<leaseVars, ledgerVars, employed, held, result, beat>>

\* The approval executor marks the run failed when its continuation threw,
\* by id alone; the other callers only log.
CallerHandlesThrow(e) ==
    /\ pc[e] \in {"thrown", "refused"}
    /\ status' = IF WakesOn[e] = "waiting_approval" THEN "failed" ELSE status
    /\ Go(e, "idle")
    /\ UNCHANGED <<leaseVars, ledgerVars, employed, held, result, beat>>

-----------------------------------------------------------------------------
(* Between opening the run and holding its lease.                          *)

\* assembleRunFoundation refuses (no model, no role): failed by id alone.
FoundationFails(e) ==
    /\ pc[e] = "opened"
    /\ status' = "failed"
    /\ Go(e, "idle")
    /\ UNCHANGED <<leaseVars, ledgerVars, employed, held, result, beat>>

\* Anything else thrown before a lease exists: failed unless cancelled.
FailsBeforeLease(e) ==
    /\ pc[e] = "opened"
    /\ status' = IF status = "cancelled" THEN status ELSE "failed"
    /\ Go(e, "thrown")
    /\ UNCHANGED <<leaseVars, ledgerVars, employed, held, result, beat>>

Claimable == status = "running" /\ lease # "live"

\* claim: one transaction takes the lease under a new fence, closes the
\* attempt it supersedes and opens its own.
Claim(e) ==
    /\ pc[e] = "opened"
    /\ Claimable
    /\ leaseFence < MaxFence
    /\ LET k == leaseFence + 1
           Lost(j) == j = activeAttempt /\ Superseded(j)
       IN  /\ leaseFence' = k
           /\ activeAttempt' = k
           /\ latest' = [j \in Fences |->
                           IF j = k THEN "claimed"
                           ELSE IF Lost(j) THEN "lease_lost" ELSE latest[j]]
           /\ terminals' = [j \in Fences |->
                              IF Lost(j) THEN terminals[j] + 1 ELSE terminals[j]]
           /\ held' = [held EXCEPT ![e] = k]
    /\ leaseOwner' = e
    /\ lease' = "live"
    /\ Go(e, "executing")
    /\ UNCHANGED <<status, employed, result, beat>>

\* claim returned null: ExecutionLeaseUnavailableError leaves the row to
\* whoever owns it and goes to the caller.
ClaimRefused(e) ==
    /\ pc[e] = "opened"
    /\ ~Claimable
    /\ Go(e, "refused")
    /\ UNCHANGED <<rowVars, ledgerVars, employed, held, result, beat>>

-----------------------------------------------------------------------------
(* Holding the lease.                                                      *)

\* renew, first transaction: the guarded UPDATE.
Renew(e) ==
    /\ pc[e] \in {"executing", "committing"}
    /\ beat[e] = NoAttempt
    /\ status = "running" /\ RunFence(e) /\ lease = "live"
    /\ beat' = [beat EXCEPT ![e] = held[e]]
    /\ UNCHANGED <<rowVars, ledgerVars, employed, pc, held, result>>

\* Broken variant: the heartbeat's event is appended unconditionally.
RecordRenewal_Unchecked(e) ==
    /\ beat[e] # NoAttempt
    /\ beat' = [beat EXCEPT ![e] = NoAttempt]
    /\ latest' = [latest EXCEPT ![beat[e]] = "renewed"]
    /\ UNCHANGED <<rowVars, terminals, employed, pc, held, result>>

\* renew, second transaction: the 'renewed' event, refused by the transition
\* table once the attempt is terminal.  A refusal during the work is a lost
\* lease.
RecordRenewal(e) ==
    /\ beat[e] # NoAttempt
    /\ beat' = [beat EXCEPT ![e] = NoAttempt]
    /\ IF IsOpen(beat[e])
       THEN /\ latest' = [latest EXCEPT ![beat[e]] = "renewed"]
            /\ UNCHANGED <<terminals, pc>>
       ELSE /\ IF pc[e] = "executing" /\ held[e] = beat[e]
               THEN Go(e, "lost") ELSE UNCHANGED pc
            /\ UNCHANGED ledgerVars
    /\ UNCHANGED <<rowVars, employed, held, result>>

\* renew matched no row: the orchestrator aborts the work.  (Loss noticed
\* while commit is under way is decided by what commit returns.)
RenewRefused(e) ==
    /\ pc[e] = "executing"
    /\ beat[e] = NoAttempt
    /\ ~(status = "running" /\ RunFence(e) /\ lease = "live")
    /\ Go(e, "lost")
    /\ UNCHANGED <<rowVars, ledgerVars, employed, held, result, beat>>

\* The loop ends: finished, failed, parked, or cancelled because it read the
\* row and the row says so.
EndLoop(e, s) ==
    /\ pc[e] = "executing"
    /\ s = "cancelled" => status = "cancelled"
    /\ result' = [result EXCEPT ![e] = s]
    /\ Go(e, "committing")
    /\ UNCHANGED <<rowVars, ledgerVars, employed, held, beat>>

\* finalizeRunAttempt: run status, lease and attempt evidence in one
\* transaction; a cancellation of the row that kept the lease wins.
Finalize(e, s) ==
    IF RunFence(e)
    THEN /\ status' = IF status = "cancelled" THEN status ELSE s
         /\ CloseAttempt(held[e], IF status = "cancelled" THEN "cancelled" ELSE AttemptKind(s))
         /\ ClearLease
    ELSE UNCHANGED <<rowVars, ledgerVars>>

\* commit: false from finalizeRunAttempt means the lease was lost.
Commit(e) ==
    /\ pc[e] = "committing"
    /\ Finalize(e, result[e])
    /\ IF RunFence(e)
       THEN Leave(e, "idle")
       ELSE /\ Go(e, "lost")
            /\ UNCHANGED <<held, result, beat>>
    /\ UNCHANGED employed

\* An error thrown by the work or by the completion checks.
Throws(e) ==
    /\ pc[e] \in {"executing", "committing"}
    /\ Go(e, "failing")
    /\ UNCHANGED <<rowVars, ledgerVars, employed, held, result, beat>>

\* The catch block's finalizeRunAttempt('failed'); its answer is ignored.
FinalizeFailure(e) ==
    /\ pc[e] = "failing"
    /\ Finalize(e, "failed")
    /\ Leave(e, "thrown")
    /\ UNCHANGED employed

\* Lost lease: a cancelled run is reported as cancelled, and nothing is
\* recorded.
LostToCancellation(e) ==
    /\ pc[e] = "lost"
    /\ status = "cancelled"
    /\ Leave(e, "idle")
    /\ UNCHANGED <<rowVars, ledgerVars, employed>>

LostToAnother(e) ==
    /\ pc[e] = "lost"
    /\ status # "cancelled"
    /\ Go(e, "losing")
    /\ UNCHANGED <<rowVars, ledgerVars, employed, held, result, beat>>

\* recordRunAttemptEvent('lease_lost'), through the transition table.
RecordLoss(e) ==
    /\ pc[e] = "losing"
    /\ CloseIfOpen(held[e], "lease_lost")
    /\ Leave(e, "thrown")
    /\ UNCHANGED <<rowVars, employed>>

-----------------------------------------------------------------------------
(* Everybody else who writes the row.                                      *)

\* The lease deadline passes.
Expire ==
    /\ lease = "live"
    /\ lease' = "expired"
    /\ UNCHANGED <<status, leaseOwner, leaseFence, activeAttempt,
                   ledgerVars, employed, localVars>>

\* Broken variant: the attempt's history is closed and its lease kept.
Stop_KeepsLease ==
    /\ status \in Stoppable
    /\ status' = "cancelled"
    /\ CloseIfOpen(activeAttempt, "cancelled")
    /\ UNCHANGED <<leaseVars, employed, localVars>>

\* stopRunAction, one transaction with the row locked.
Stop ==
    /\ status \in Stoppable
    /\ status' = "cancelled"
    /\ ClearLease
    /\ CloseIfOpen(activeAttempt, "cancelled")
    /\ UNCHANGED <<employed, localVars>>

\* windDownOffboarded: the run is cancelled where it stands; lease, active
\* attempt and ledger are not touched.
Offboard ==
    /\ employed
    /\ employed' = FALSE
    /\ status' = IF status \in Stoppable THEN "cancelled" ELSE status
    /\ UNCHANGED <<leaseVars, ledgerVars, localVars>>

\* Declining the approval in the app closes the parked run.
Decline ==
    /\ status = "waiting_approval"
    /\ status' = "completed"
    /\ UNCHANGED <<leaseVars, ledgerVars, employed, localVars>>

\* Cancelling the credential request closes the run parked on it.
CancelCredentialRequest ==
    /\ status = "waiting_credential"
    /\ status' = "cancelled"
    /\ UNCHANGED <<leaseVars, ledgerVars, employed, localVars>>

\* An approved action whose run was not parked when the plan was made is
\* followed up in a run of its own; when that throws, the run that asked is
\* marked failed by id alone, whatever it has become.
FollowUpThrows ==
    /\ leaseFence > 0
    /\ status' = "failed"
    /\ UNCHANGED <<leaseVars, ledgerVars, employed, localVars>>

\* Broken variant: only runs that still name an owner are looked at.
Sweep_LeasedOnly ==
    /\ status = "running" /\ leaseOwner # NoOwner
    /\ status' = "failed"
    /\ UNCHANGED <<leaseVars, ledgerVars, employed, localVars>>

\* abandonedWorkPass: half an hour without a run event.  A step that is
\* still streaming appends none, so a working executor can be swept too.
Sweep ==
    /\ status = "running"
    /\ status' = "failed"
    /\ UNCHANGED <<leaseVars, ledgerVars, employed, localVars>>

\* shutdown: a run still inside its loop when the drain budget is spent.
\* The process exits afterwards (Crash).
StrandedAtShutdown(e) ==
    /\ pc[e] = "executing"
    /\ status = "running"
    /\ status' = "failed"
    /\ UNCHANGED <<leaseVars, ledgerVars, employed, localVars>>

\* The executor's process dies; its memory and heartbeat die with it.
Crash(e) ==
    /\ pc[e] # "idle"
    /\ Go(e, "idle")
    /\ held' = [held EXCEPT ![e] = NoAttempt]
    /\ result' = [result EXCEPT ![e] = "running"]
    /\ beat' = [beat EXCEPT ![e] = NoAttempt]
    /\ UNCHANGED <<rowVars, ledgerVars, employed>>

-----------------------------------------------------------------------------
\* A new run: its row has just been inserted by the executor about to work.
Init ==
    /\ status = "running"
    /\ leaseOwner = NoOwner
    /\ leaseFence = 0
    /\ lease = "none"
    /\ activeAttempt = NoAttempt
    /\ latest = [k \in Fences |-> "none"]
    /\ terminals = [k \in Fences |-> 0]
    /\ employed = TRUE
    /\ \E e \in Executors : pc = [x \in Executors |-> IF x = e THEN "opened" ELSE "idle"]
    /\ held = [e \in Executors |-> NoAttempt]
    /\ result = [e \in Executors |-> "running"]
    /\ beat = [e \in Executors |-> NoAttempt]

Work(e) ==
    \/ Admit(e)
    \/ Reopen(e)
    \/ FoundationFails(e)
    \/ FailsBeforeLease(e)
    \/ Claim(e)
    \/ ClaimRefused(e)
    \/ RenewRefused(e)
    \/ \E s \in Settled \cup Parked : EndLoop(e, s)
    \/ Throws(e)
    \/ Commit(e)
    \/ FinalizeFailure(e)
    \/ LostToCancellation(e)
    \/ LostToAnother(e)
    \/ RecordLoss(e)
    \/ CallerHandlesThrow(e)

Heartbeat(e) == Renew(e) \/ RecordRenewal(e)

Environment ==
    \/ Expire
    \/ Stop
    \/ Offboard
    \/ Decline
    \/ CancelCredentialRequest
    \/ FollowUpThrows
    \/ Sweep

Next ==
    \/ \E e \in Executors :
         Wake(e) \/ Work(e) \/ Heartbeat(e) \/ StrandedAtShutdown(e) \/ Crash(e)
    \/ Environment

Spec == Init /\ [][Next]_vars

(* Fairness.  A step under way ends: the loop is bounded by its step budget *)
(* and the deadlines of model and tools, and every await on the database   *)
(* returns or throws.  The sweep runs on the worker's clock, and half an    *)
(* hour without an event is certain once nobody works on the run.  Nothing  *)
(* is assumed of people, of new news, of leases expiring or of crashes.     *)
Unattended == \A e \in Executors : pc[e] \notin {"opened"} \cup Holding
SweepUnattended == Unattended /\ Sweep

FairSpec ==
    /\ Spec
    /\ \A e \in Executors : WF_vars(Work(e)) /\ WF_vars(RecordRenewal(e))
    /\ WF_vars(SweepUnattended)

-----------------------------------------------------------------------------
(* What must hold.                                                         *)

\* The ledger of an attempt holds exactly one terminal event once it is
\* closed and none before.  Four writers append terminals (finalize, claim,
\* stop, the lost-lease record), and only one of them asks the transition
\* table first.
LedgerClosedOnce ==
    \A k \in Fences : terminals[k] = IF latest[k] \in TerminalKinds THEN 1 ELSE 0

\* The only attempt whose history may be open is the one the row names, so a
\* late heartbeat never reopens a closed attempt and a takeover leaves no
\* open attempt behind.
OnlyActiveAttemptIsOpen ==
    \A k \in Fences : IsOpen(k) => k = activeAttempt

\* Whoever would pass the fence writes for an attempt whose history is open:
\* nothing can close the attempt and leave its executor with authority.
ClosedAttemptHasNoAuthority ==
    \A e \in Executors :
        (pc[e] \in Authority /\ RunFence(e)) => IsOpen(held[e])

\* Once its attempt is closed (superseded, stopped, swept away by a takeover),
\* an executor still has its commit, failure and lost-lease steps to go
\* through, and none of them may change the run's row or any ledger.
ClosedAttemptWritesNothing ==
    [][\A e \in Executors :
         (held[e] # NoAttempt /\ ~IsOpen(held[e]) /\ pc'[e] # pc[e])
            => UNCHANGED <<rowVars, ledgerVars>>]_vars

\* A run never says "running" forever, whatever crashes: a worker ends it, or
\* the sweep finds it.
RunningEnds == status = "running" ~> status # "running"

(* Refinement: seen from outside, the attempts of a run are opened one at a *)
(* time in fence order and closed for good.                                *)
Phase(kind) == IF kind = "none" THEN "none"
               ELSE IF kind \in OpenKinds THEN "open" ELSE "closed"

Serial == INSTANCE SerialAttempts
            WITH Attempts <- Fences,
                 phase <- [k \in Fences |-> Phase(latest[k])],
                 authority <- activeAttempt

\* The fenced store implements SerialAttempts.
SerialSpec == Serial!Spec

(* What the code says of itself and does not keep to.                      *)

\* "The transcript only exists to resume a parked run.  Nothing will": a run
\* that an operator stopped (nobody was offboarded) does not run again.
StoppedStaysStopped ==
    [][(status = "cancelled" /\ employed) => status' # "running"]_vars

\* What holds of it: a run that has ended, whose lease no executor at work
\* holds and which no caller remembers as parked, stays ended, whoever throws,
\* sweeps, stops, offboards or brings news later.
Over ==
    /\ status \in Settled
    /\ \A e \in Executors :
        /\ pc[e] \notin {"woken", "admitted"}
        /\ ~ (pc[e] \in Authority /\ RunFence(e))
OverForGood == [][Over => Over']_vars
=============================================================================
