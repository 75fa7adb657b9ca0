# Bunkhouse: TLA+ models, checks and proofs

Bunkhouse employs AI agents.  An agent is a person record; its work is a *run*
(a row with a status, a transcript, an event ledger); a worker process and the
web application open, resume, stop and recover runs while people approve
requests, answer mail, hire and offboard.  This directory models the part where
that is hard: several processes that write the same rows, each able to die
between two awaits.

| file | what it is |
|---|---|
| `RunExecution.tla` | a run: its row, its fenced attempts, every writer of either |
| `SerialAttempts.tla` | what the fenced lease store promises, seen from outside; the effect ledger relies on the same |
| `ApprovalExecution.tla` | an approval: the request, the decision, the jobs that carry it out |
| `ExternalEffects.tla` | the ledger that keeps an attempt from repeating an earlier attempt's action |
| `ChatDispatch.tla` | a conversation's queue: messages, drains, recovery |
| `FifoWithBarrier.tla` | what that queue promises, seen from outside |
| `CredentialHandoff.tla` | a credential asked for, submitted, sealed, and the continuation it owes |
| `BackgroundWork.tla` | duties, assignments and launched runs, from heartbeat to settlement |
| `LeasedObligation.tla` | what a decided approval and a stored credential both promise, seen from outside |
| `MC*.tla` | values for TLC |
| `*.cfg` | one per run, see "Runs" |
| `*Proofs.tla` | what TLAPS proves, for every value of the constants (`AbstractProofs`: of the three abstract specifications) |
| `PROJECT.json` | components, runs, mutants, the map from definitions to source lines, findings, hazards, theorems |

To repeat: `tlc -config X.cfg M` for a run, `tlapm MProofs.tla` for the proofs.
Paths below are relative to the repository; `web/` abbreviates `apps/web/`.

## 1. Inventory

For each component: the state it keeps, its operations, whom it talks to, what
is hard, and what makes it correct.

**Run execution** (`web/src/lib/agent-runs.ts`, `run-execution.ts`,
`run-attempt-lifecycle.ts`, `person-work.ts`).
State: the `runs` row (status, lease owner, fence, expiry, active attempt) and
the append-only `run_attempt_events`.  Operations: open, resume, claim, renew,
commit, fail, record loss.  Called by the approval executor, inbound mail, the
silence pass, chat, duties, credential continuations; the row is also written
by stop, offboarding, declining, cancelling a request, the sweep and shutdown.
Hard: a worker that has lost its lease does not know; the heartbeat is two
transactions; many writers address the row by its id alone.  Correct when the
attempts of a run form one serial history, a closed attempt writes nothing,
each attempt is closed once, and no run says "running" for ever.  *Modelled*
except for live (call) runs, whose record the call owns.

**Approval execution** (`web/src/lib/approval-executor.ts`,
`approval-execution.ts`, `web/src/app/approvals/actions.ts`).
State: the `approvals` row (status, `executed_at`, execution status, lease,
attempts), the run that asked, the effect under the approval's key.
Operations: claim, plan, act, continue, settle; decide in the app or by email.
Hard: a five-minute claim that nothing renews around a continuation that may
take hours; settlements by id; a decision that is faster than the run that asked.
Correct when a decision is carried out or given up on, never more than the cap
allows, a refusal starts no work, and an action done is not done again.
*Modelled.*

**External-effect ledger** (`run-execution.ts:280-530`).  State: events per
effect key (`intent`, `retry_started`, `completed`, `failed`, `ambiguous`,
reconciled).  Operations: resolve the key of a call, claim, retry, record,
reconcile.  Hard: matching the n-th call of a new attempt with the n-th intent
of an old one; two retries at once; an operator against a late answer.  Correct
when an action starts again only on a person's word, and nobody is told it is
done when it is not.  *Modelled.*

**Chat dispatch queue** (`chat-dispatch.ts`, `chat-dispatch-lifecycle.ts`,
`chat-steer.ts`, `chat-threads.ts:1070-1250`).  State: per-conversation queue of
messages, each linked to a run.  Operations: enqueue, claim, link, settle,
retry, cancel, steer, recover.  Hard: a failed message blocks what is behind it
by design; recovery settles from a snapshot; a retry keeps the link of the
failed attempt; turns exclude each other only inside a process.  Correct when
messages are served in order, each is answered once for each time it was asked,
and the barrier is lifted by people only.  *Partly modelled*: editing a message
and a run's reading of steered words are left out.

**Credential handoffs** (`system-credential-requests.ts`,
`authored-systems.ts`).  State: the request, the sealed secret, a leased
continuation with a cap.  Operations: ask, submit, decline, claim, wake, append,
settle.  Hard: sealing and settling are two transactions; overlapping
submissions; a crash on the last attempt; an expired lease settled by its former
holder.  Correct when stored means sealed, nobody is woken for less, and a
stored credential is followed up.  *Modelled.*

**Duties, assignments, sub-agents** (`duty-execution.ts`, `duties.ts`,
`assignments.ts`, `subagents.ts`, and the worker's passes).  State: a duty's due
time, count and limit; an assignment's status and run; a child run.  Operations:
heartbeat, claim, skip, anchor, run, settle, sweep, reopen, retire.  Hard: the
same row is queued by many ticks; a claim has no run row yet; a straggler
settles after the sweep.  Correct when an occurrence is begun once, limits hold,
delivered means sent, and what is due or promised is taken up.  *Partly
modelled*: cron arithmetic and cost sums are data.

**Inbound mail and waits** (`agent-runs.ts:1560-1780`, `worker.mts:200-270`).
State: waiting runs, messages and whether they are consumed, nudges sent.
Hard: the pass reads all waits first and works through them run by run; a
message is consumed before the run it resumes holds a lease.  *Partly*: the
waking is in `RunExecution` and `BackgroundWork`; which message wakes which run
is not.

**Run control and offboarding** (`web/src/app/runs/run-actions.ts`,
`web/src/app/organization/actions.ts`).  Stop and wind-down are actions of the
modules whose rows they write.

**Background worker** (`web/scripts/worker.mts`).  Queues, passes on clocks,
shutdown with a drain budget.  Its passes are actions of the models or the
ground for their fairness; job slots, remembered job ids, crash and shutdown are
in `BackgroundWork`.

**Agent runtime and governance** (`packages/runtime/src`, `autonomy.ts`).  The
loop is one bounded step of `RunExecution` and `BackgroundWork`; the governed
call with its deadline is part of `ExternalEffects`.

**Live calls, MCP tokens, colleague messages, mailbox connections, memory and
knowledge, desks and browsers, spend, authored systems, the web interface,
deployment**: not modelled; section 12 says why.

The hazards of all of them, at the line where they bite, are in
`PROJECT.json` under `hazards`, each with the property that covers it or the
reason that none does.

## 2. Plan

Done, in this order: `RunExecution` with `SerialAttempts` (what every other
component opens and resumes), `ApprovalExecution` (the component whose comments
record the most incidents), `ExternalEffects` (what both rely on when an attempt
is repeated), `ChatDispatch` with `FifoWithBarrier`, `CredentialHandoff`,
`BackgroundWork`, and `LeasedObligation`, which the approval and the credential
turned out to share.

The modules meet at the run.  `RunExecution` has it in full; in the others it is
cut down to what they read of it (at work, parked, over), and their actions on it
are the ones `RunExecution` allows a caller.  They are not composed into one
state space: the product of two of them is out of TLC's reach, and each keeps
the run's part of a race as an action of its own.  What joins them instead are
the abstract specifications: `RunExecution` implements `SerialAttempts`, and so
do the attempts that `ExternalEffects` assumes; `ApprovalExecution` and
`CredentialHandoff` implement the one `LeasedObligation`.

Left, in order of use: which message wakes which run and the nudges (`Waits`);
live calls (the session row against the sweep of unanswered calls); the
rotating tokens.  The modules that are proved about declare no RECURSIVE
operator.

## 3. RunExecution

An *executor* is one call of `executeAgentRun` with the caller that made it.
Each awaited read or write is a step; a database transaction is one step.

| state | code |
|---|---|
| `status`, `leaseOwner`, `leaseFence`, `lease`, `activeAttempt` | the columns of `runs` |
| `latest`, `terminals` | the attempt's ledger, as its latest kind and the number of its terminal events |
| `employed` | `people.status = 'active'` |
| `pc`, `held`, `result`, `beat` | where the executor is, its lease, what it is about to commit, the heartbeat event it still owes |

The k-th attempt is named by its fence.  An expiry is `none`, `live` or
`expired`; `Expire` may happen at any time.

An executor's path: `Wake` (its caller reads the parked run) → `Admit` (the
employment gate) → `Reopen` (the row is set running, by id) → `Claim` or
`ClaimRefused` → work, with `Renew`/`RecordRenewal` beside it → `EndLoop` →
`Commit`; or `Throws` → `FinalizeFailure`; or a lost lease
(`RenewRefused`, a refused `RecordRenewal`, a refused `Commit`) →
`LostToCancellation`, or `LostToAnother` → `RecordLoss`.  What it throws reaches
`CallerHandlesThrow`.  A new run starts at `opened`.

Everyone else: `Stop`, `Offboard`, `Decline`, `CancelCredentialRequest`,
`FollowUpThrows` (the approval executor failing the run that asked), `Sweep`,
`StrandedAtShutdown`, `Crash`.  Several of them write the row and leave lease
and ledger alone, as the code does: that is what the properties have to bear.

Properties: `LedgerClosedOnce`, `OnlyActiveAttemptIsOpen`,
`ClosedAttemptHasNoAuthority`, `ClosedAttemptWritesNothing`, the refinement
`SerialSpec`, and the liveness `RunningEnds`.

`SerialAttempts` says what a reader of the lease store may rely on: attempts
begin in order, at most one is open, each is closed once and for good, and the
authority to write comes with the opening of an attempt and goes no later than
with its successor.  The mapping takes `phase` from `latest` and `authority`
from `activeAttempt`.  A takeover, a stop and a commit race in the code and are
still one step each (`Begin`, `End`, `Lose`, `Revoke`) of the abstract
specification.

Fairness: `WF(Work(e))`: the loop is bounded by its step budget and by the
deadlines of the model and the tools, and an await on the database returns or
throws.  `WF(RecordRenewal(e))`: a heartbeat under way ends.
`WF(SweepUnattended)`: the sweep runs on the worker's clock and looks at runs
without an event for half an hour, which is certain once no executor is at work.
Nothing is assumed of people, of news, of leases or of crashes.

## 4. ApprovalExecution

A *job* is one call of `executeDecidedApproval`; the pass enqueues a decided
approval again every half minute, so jobs of one approval overlap.

| state | code |
|---|---|
| `decision`, `stamped`, `exec`, `hold`, `attempts` | the columns of `approvals` |
| `run`, `asking`, `employed` | the run that asked, whether the attempt that asked has ended, the employment gate |
| `carried` | the effect ledger has the action's completion under `approval:<id>` |
| `pc`, `mine`, `plan` | where the job is, the attempt number its claim returned, its plan |
| `performed`, `lost`, `continued`, `followUps` | history, for the properties: starts of the action, those whose evidence was rolled back, continuations, runs of its own |
| `crashes` | counts toward the bound |

A job's path: `Claim` → `Plan` → `GiveUp`, or `DeliverRefusal`, or
`StartAction` (`FinishAction`, `ActionThrows`) or `SkipAction` → `Continue` →
`FinishContinuation` or `ContinuationThrows` → `RecordThrow` → `Succeed` or
`Fail`.  `StepFails` is a throw of any other awaited call.  Others:
`DecideByEmail`, `DecideInApp`, `AskerEnds`, `StopRun`, `Offboard`, `Expire`.

*The action runs inside a transaction.*  The executor calls
`executeExternalEffect` inside `app.withTenant`, whose body is one transaction:
`agent-runs.ts:819-850` tells what became of runs that were wrapped in one,
`mail-oauth.ts:691-694` and `scripts/mcp-token-renewal.test.mts:94` say it of
other callers (the function itself is in a package outside the repository).  So
intent and outcome become visible together or not at all, which is why the
model keeps one bit of the ledger; and an insert under the same key waits for
the transaction that holds it, which is the guard of `StartAction`.

Properties: `ContinuationsBounded`, `RefusalStartsNoWork`, `StartsAccounted`
(the action was started once for each loss, and once more if it is under way or
on the ledger), the refinement `ObligationSpec`, and the liveness
`DecisionSettles`.

`LeasedObligation` says what a row promises that is worked off by processes
leasing it: nothing before it is owed, at most so many leases and none once it is
closed, and a piece of work for a lease at most.  The work may start after the
closing, since a process that outlived its lease is not called back.  Here the
obligation is owed by the decision and closed by the stamp (or by the expiry of
a request), the leases are the attempts up to the cap, the work is the
continuation.

Fairness: `WF` on some job claiming (the pass and the queue), on each job's
steps (a continuation is bounded; the adapter's call is assumed to answer or
throw: it has no deadline of its own, a hazard in the list), on the five
minutes passing, and on the asking attempt ending.

## 5. ExternalEffects

One run and the calls it makes of one governed tool.  A *call* is `<<a, n>>`: the
n-th call of the tool by attempt `a`; a *key* is the ordinal prefix with the
attempt that coined it.

| state | code |
|---|---|
| `authority`, `cur` | the run's lease, the attempt that claimed it last |
| `parked`, `transcript`, `known` | which loops ended by parking; what the transcript reports done, on the row and at the start of each attempt |
| `intent`, `latest` | `external_effect_intents.request`, the latest event of a key |
| `pc`, `ask`, `key` | where a call is, what it asks, the key it resolved |
| `started`, `late`, `landed`, `cleared` | history: adapter entries, those by a replaced attempt, actions that happened, an operator's "not completed" |

A call's path: `Invoke` → `Resolve` → `Claim` → (`StartRetry`) → `Land`,
`AdapterThrows` → `RecordCompleted` or `RecordError`.  The run: `Park`, `Lapse`,
`NextAttempt`.  The operator: `ConfirmCompleted`, `ClearForRetry`.  A replaced
attempt goes on until its heartbeat tells it; a call may outlive the loop that
made it (the tool's deadline passes, the adapter does not stop), so calls of
several attempts overlap.  A key from before the ordinals (`LegacyKey`) may be
left by an older worker.

The run starts unclaimed (`authority = "released"`, no attempt), so that its
attempts are those of `SerialAttempts` from the first on: `AttemptsAreSerial`
maps the claim, the park and the lapse to that specification's moves.

Properties: `NeverRepeatedUnaided`, `OneStartPerClearance`, `CallsKeepApart`,
`AnswersAreEarned`, `SettledStaysSettled`.  The first is about a call of the run,
not about a key: `OneStartPerKey` says nothing starts twice under one key unless
a person cleared it, `SecondKeyIsLate` that the same ordinal starts under a
second key only where a replaced attempt started after it was replaced (it had
resolved its key before, and records its intent without the fence); that one
repetition is in the code and nobody is asked.  There is no liveness: the loop may
end, and nobody has to reconcile.

## 6. ChatDispatch and FifoWithBarrier

One conversation.  A *drain* is one call of `drainChatDispatchQueue`, in the web
process after a person's action or in the worker after its pass.

| state | code |
|---|---|
| `status`, `link` | `chat_dispatches.status`, `run_id` |
| `askedAt`, `asked`, `replies`, `noted` | the transcript: the question, the agent's messages that carry its id, the note that the agent may not work |
| `run`, `opened` | the runs of the conversation, in order |
| `pc`, `at`, `mine`, `seen`, `mislinked` | each drain: its step, message, run, the run its watcher found, whether the link threw |
| `looked`, `verdict` | what the recovery pass read and is about to write |

A drain's turn: `Claim` → `Ask` → `OpenRun` → `RunEnds` → `Answer` →
`Complete`, or `CompleteRefused` → `Fail`; `Watch` links the run beside it.
`Refuse` opens a run that has failed already (`refuseRun`), which the watcher
finds and links like any other; `Note` then is the answer, on the way to
`Complete`.
Recovery: `Look` → `ReadRun` → `Recover`, three steps because it reads the
message, then its run, then settles.  People: `Enqueue`, `Retry`, `Cancel`,
`Steer`.  Others: `ParkedEnds`, `Sweep`, `Crash` of a process with its drains.
Turns of one process exclude each other (`serializeByThread`); those of two
processes do not.

Properties: the refinement `FifoSpec`, `CompletedMeansAnswered`,
`AnsweredOncePerRequest`, and the liveness `HeadIsServed`.

`FifoWithBarrier` is the reader's view: one message is served at a time, none
before every earlier one is gone, a failed one holds up the rest until a person
acts.  The mapping reads `stage` from `status`; recovery, drains and crashes
become its few moves.

Fairness: a turn goes on while its process lives (its awaits have deadlines, the
loop a step limit); the conversations pass comes round every half minute,
recovers, then drains (`worker.mts`), so the worker's drains claim and recovery
proceeds; the sweep of `RunExecution` goes on.  Nothing is asked of people or of
the browser that sent the message.

## 7. CredentialHandoff

One conversation and one system; each run that asks proposes a new revision, and
run, revision and request share a number.

| state | code |
|---|---|
| `proposed`, `status`, `activated` | the system's latest version, the request's status, revisions with a sealed credential |
| `run` | the run that asked |
| `spc`, `sreq` | each submission of the form |
| `cont`, `attempts`, `lapsed`, `continued` | `continuation_status`, `_attempts`, whether the lease has lapsed, `continued_at` |
| `epc`, `ereq` | each continuation under way, in the web process or the worker |
| `delivered`, `wakes`, `setbacks`, `outlived` | history: answers in the conversation, runs woken, attempts recorded as failed or lapsed, requests a continuation of which outlived its lease |

`Propose`, `Ask` (an earlier open request expires), `RunStops`, `Stop`; `Submit`
→ `Review` → `Activate` (or `Reject` from either) → `Store` or `GiveBack`;
`Decline`; a continuation's `Claim` → `ReadOrigin` → `Resume` or `FollowUp` →
`RunEnds` → `Append` → `Succeed`, or `Throw` → `ReadAttempts` → `GiveUp`;
`Lapse`, `Sweep`, and the deaths of either.

Most races of this module are refused by an advisory lock, an index or the
trigger of migration 0071.  Two are not, and are two steps in the model: the
proposal is reviewed by `submitSystemCredentialRequest` and listed anew by
`activateAuthoredSystem`, which compares only with its own reading; and
`settleStoredCredentialContinuation` reads the attempts in one statement and
writes the failure in the next.

Properties: `StoredMeansSealed` (for the revision asked for or a later one: the
first race seals what arrived in between), `WokenAgainAfterSetback`,
`SucceededMeansDelivered`, the refinement `ObligationSpec`, and the liveness
`StoredIsContinued`, which names two dead ends: the last attempt's process died
(`LastAttemptDied`), or a straggler failed the last attempt as if it were not the
last (`SpentByStraggler`, the second race).

Each request is an obligation of `LeasedObligation`: owed when it is stored,
closed when its continuation settles, leased by `Claim`, and waking the agent is
the work.  That no run is woken for a credential that is not stored
(`WokenOnlyWhenStored`) is one consequence.

Fairness: a continuation goes on while its process lives, the approvals pass
enqueues what is owed every half minute, leases lapse.  Nobody has to submit.

## 8. BackgroundWork

The rows of one tenant: duties, assignments, launched children.  An *executor* is
a job slot of the deep-work queue, or the continuation of a parked run.

| state | code |
|---|---|
| `on`, `due`, `count` | a duty's `enabled`, `next_due_at`, `run_count` |
| `issued`, `reopened` | occurrences are numbered as they are scheduled; the operator's rescheduling |
| `status`, `named`, `marked` | an assignment's `status`, `run_id`, crash marker in `last_error` |
| `run`, `attempt`, `sent` | run rows, children with an active attempt, runs whose mail or answer is out |
| `queue`, `kept` | jobs waiting, finished jobs whose id the queue remembers |
| `pc`, `item`, `nth`, `outcome` | each executor: where it is, its row, its run, the outcome it holds |
| `begun`, `resumed`, `hidden`, `revived` | history, for the properties |
| `refusals` | run rows `refuseRun` opened beside a run that was there before: failed, with its trigger, and read by nobody here |

Heartbeats `Enqueue`; the queue forgets a job in `Expire`.  A slot claims:
`PassOver` (a stale job, an anchoring, a skip), `ClaimDuty`, `ClaimAssignment`,
`ClaimChild`; `JobFails` when that transaction does.  Then `OverBudget`,
`Refuse` or `Open` → `Begin` (the lease) → `Speak` → `End`, and for assignments
`Name` → `Finalize`; or `Unassembled`, `LeaseLost`, `Throw`.  `PickUp` continues a
parked run.  `Sweep` closes silent runs and reclaims their assignment; `Reopen`
and `Retire` are the operator's; `Offboard`; `Die` kills the process and hands
its jobs out again, `graceful` as the shutdown does it.

Properties: `NeverTwiceAtOnce`, `RunLimitKept`, `BegunOnce`, `FinishedOnce`,
`DeliveredIsEarned`, and the liveness `DueIsServed`, `PendingIsTaken`,
`ChildSettles`, `DeadWorkIsReclaimed`.  Three of them name an exception, because
the code has it: an occurrence claimed past work that no row showed (`hidden`),
a child a continuation took up (`resumed`), an assignment whose run went on and
parked after a settlement (`revived`).  Section 10 says what happens there.
`RunLimitKept` counts the refused rows apart: no charge covers them, a parked run
that was taken up leaves one at most, and none while the agent is employed.

Fairness: heartbeats tick for ever and the process is restarted.  A claim is
*strongly* fair: whether a slot is free comes and goes, but the queue is first
in, first out, so a job waits behind finitely many.  An executor's own steps are
weakly fair (step limit, deadlines).  The sweep finds a run no process is at, and
the queue forgets a finished job (retention of a day, a week for a failed one).
Nothing is assumed of people, continuations, crashes or failing steps.

## 9. Runs

| run | shows |
|---|---|
| `MCRunExecution.cfg` | two deliveries of one decision, three claims: all properties of section 3 hold, about 450,000 states |
| `RunStopped.cfg` | violation of `StoppedStaysStopped`: finding 1 |
| `MCApprovalExecution.cfg` | two overlapping jobs, cap of three, one crash: all properties of section 4 hold, about 420,000 states |
| `ApprovalRepeated.cfg` | violation of `ApprovedActionOnce`: finding 2 |
| `ApprovalStraggler.cfg` | violation of `SuccessIsNotBuried`: finding 3 |
| `ApprovalStranded.cfg` | violation of `DecidedRunIsReleased`: finding 4 |
| `MCExternalEffects.cfg` | three attempts, three calls, two requests, one clearance: all properties of section 5 hold, about 1,400,000 states, over two minutes |
| `EffectsAfterPark.cfg` | violation of `IdenticalCallsStayDistinct`: finding 5 |
| `MCChatDispatch.cfg` | two messages, a drain in the web process and one in the worker, a retry, a crash: all properties of section 6 hold, about 500,000 states, two minutes |
| `ChatTwoTurns.cfg` | violation of `OneTurnAtATime`: finding 6 |
| `MCCredentialHandoff.cfg` | two requests, two submissions, two continuations, cap of two, one crash: all properties of section 7 hold, about 710,000 states, two minutes |
| `MCBackgroundWork.cfg` | a duty, an assignment or a child; two slots and a continuation; one fault: all properties of section 8 hold, about 44,000 states, two minutes for the liveness |

Bounds, and why they are enough.

*RunExecution.*  `MaxFence = 3`: one attempt is superseded by another, which is
itself superseded; a late write of the first then meets a ledger that has moved
on twice.  Two executors: every race in the list is between two of them or one
and the environment, and an executor may come back after it left.

*ApprovalExecution.*  `Jobs`: the deep-work queue runs two jobs at a time
(`worker.mts:846`).  `MaxAttempts = 3` stands for the code's 5: below the cap, at
it and beyond it all occur.  `MaxCrashes = 1`: what a crash leaves (a live claim
without a job) also arises from a straggler whose claim lapses, and each costs an
attempt.  `attempts` saturates one beyond the cap, where the code tells no
numbers apart.

*ExternalEffects.*  Three attempts: one replaced, its successor replaced, so a
retry of the first may meet the third's.  Three calls in all, a legacy intent
counted as one (`FewCalls`): two calls of one attempt beside one of another, or
one in each of three, all asking for the same (a conflict needs but two
attempts).  Two requests, symmetric: equal and different.  One clearance (`FewClearances`): the
properties count clearances, and one is where a second start becomes possible.

*ChatDispatch.*  Two messages: one and the one behind it.  Two runs: the watcher
may find the wrong one.  (A turn without a run to open throws.)  One retry of the
first message, one crash of either process.

*CredentialHandoff.*  Two requests: one that is superseded; the run and the
continuation of one of them are followed (`Followed`): what the run of the other
comes to, and who continues it, touches no row of this one.  Two submissions of the same request; two continuations; a cap of two, so that there
is a last attempt and one before it.

*BackgroundWork.*  The rows of a load are one of each kind at a time: duties,
assignments and children meet only in the slots, and fairness covers waiting for
one.  Two slots as in the code.  Limit of two runs, three occurrences, one
reopening: below the limit, at it, and again below.  Three runs of an assignment
are one more than `FinishedOnce` allows.  One fault of any kind; one
continuation, beside both slots, which suffices for a stale settlement to undo
another's.  The safety properties are proved for any number of each.

Deadlock is not checked: a run that has ended, an approval that is settled, a
queue that is empty really stop.

Every property of a passing run is broken by a mutant of a modelled definition
(`PROJECT.json`, `mutants`): an unguarded terminal write, a sweep that sees
leased runs only, an uncapped plan, an effect key matched by request alone, an
uncertain outcome taken for completion, a claim that passes over a failed
message, a recovery that trusts the run, a lease claimed over a live one, a skip
that leaves its occurrence due, a reclaim that does not look at its marker.  The
broken variants stand before the definitions they break.

## 10. Findings

Where the code does not keep to a sentence, the model says what holds instead,
and that is proved (section 11): the end of each paragraph names it.

1. **A stopped run runs again** (`agent-runs.ts:869`).  Stopping says that
   nothing will resume the run (`run-actions.ts:77`); the resume sets the row
   running by id, from a run that was read before the stop.  A run that no caller
   remembers as parked, and no executor at work holds, does stay ended
   (`OverForGood`).
2. **An approved action is performed twice** (`approval-executor.ts:200`).
   "Acted on exactly once" (15-17), with a thrown adapter treated as uncertain;
   but the throw rolls back the intent, and the next attempt finds none.  One
   job, no crash.  The action is done once more for each such loss and never
   otherwise (`StartsAccounted`); at most as often as attempts are allowed.
3. **A straggler buries a success** (`approval-executor.ts:63`).  The comment
   at 50-52 rules it out; only `settleTerminal` has the guard, the retryable
   settlement does not.  As long as every job at work is of the latest attempt a
   success stays (`SuccessStaysWithoutStragglers`).
4. **A run parks on a decided approval** (`approval-execution.ts:60`).  The
   decision is carried out before the run that asked has committed as parked;
   nothing looks at that approval again.  (This one is about something that must
   happen: the safe part, that no decision is left in between, is
   `NothingIsStranded`; the run is what is left.)
5. **A call is answered with what an earlier call did** (`agent-runs.ts:1143`).
   "Two identical calls remain distinct" (`run-execution.ts:283-286`), but
   ordinals restart with every attempt and the intents of attempts that parked
   in good order are matched too.  A run that does something, parks, is resumed
   on its transcript and does it again gets the first one's outcome; the second
   action never happens.  Recorded outcomes do go to the call of the same ordinal
   and request in another attempt only (`ReplaysTakeOver`).
6. **Two turns in one conversation** (`chat-dispatch.ts:698`).  "Two drainers can
   never run two turns in one conversation" (`chat-dispatch.test.mts:251`);
   recovery fails a message whose drain is alive but has no linked run after two
   minutes, a retry or the message behind it is then claimed in the other
   process, and turns exclude each other in one process only.  Two turns at once
   are always in two processes, one of them overruled (`OverlapMeansOverruled`).

Seen while modelling, in the model as in the code, without a run of their own:

- A duty does run twice at once (`duty-execution.ts:69`) in two windows: before
  the claim's run row exists, and when the sweep or an operator closed a run
  whose executor is still at work (`hidden`).
- An assignment learns its run only after `executeAgentRun` returned
  (`assignments.ts:221`): when the process of its first run dies, it stays
  "working" for good, against `worker.mts:580-585`.  `DeadWorkIsReclaimed` speaks
  of the others.
- A run that resumes after more than half an hour in the park may be swept before
  its first event; its assignment is then done twice.
- An assignment is settled by its id, whatever its status: a run that parks after
  another executor had settled it, or after an earlier outcome of its own had,
  puts it back to "working" with the crash marker gone.  If it dies then, the
  assignment is reclaimed a second time, against "once" (`worker.mts:582`):
  `revived`.
- An assignment whose run parked on a credential is marked failed with the words
  of a spent budget (`assignments.ts:66-72`).
- The anchoring pass asks for the next occurrence as if a run had been charged
  (`agent-runs.ts:1833` says it must not be): a duty with a limit of one retires
  unrun.
- A refused continuation opens a run row beside the one it was to continue
  (`agent-runs.ts:694`, the gate at 858 is before `resumeRunId`): a duty has a row
  more than it was charged for, and a parent whose child is refused is shown two
  (`subagents.ts:156`).
- A failed job keeps its id for up to a week (`worker.mts:748-753`): its row
  waits that long.
- A call of the run is started twice with nobody asked when a replaced attempt
  and its successor look for an earlier intent (`run-execution.ts:307`) before
  either has recorded its own (:375): they coin two keys for one ordinal, against
  "correlates its Nth call of this tool with the Nth immutable intent from the
  abandoned attempt" (283-286).  `NeverRepeatedUnaided` allows just this.
- A credential is sealed for a revision the person has not reviewed, and the
  request for the old one shown as stored, when a proposal arrives between the
  review (`system-credential-requests.ts:416`) and the listing in
  `activateAuthoredSystem` (`authored-systems.ts:304`), against "no credential is
  stored against a scope the operator did not just review" (:318-321).
- A stored credential is never continued, with every process alive, when a
  continuation that had outlived its lease read the attempts (:513) before its
  successor made the last one and writes the failure (:519) after: failed, at the
  cap, without `continued_at`.  And one whose last attempt's process dies stays
  leased (:490).  Both are against "cannot turn 'continue automatically' into an
  empty promise" (:539-541), and are the exceptions in `StoredIsContinued`.
- Also there: an expired holder settles its successor (:531); a claim that finds its
  request expired rolls back the mark with its own throw (:283-299); a run whose
  request was cancelled or stored before it parked stays parked.
- Two overlapping submissions may leave a sealed credential behind a request
  that is pending again, for a person to submit once more.
- An operator may clear an effect while the adapter call of a loop that gave up
  on it is still out (`run-execution.ts:483`).
- A message steered into a run's last step is not read (`chat-steer.ts:53`).

## 11. Proofs

All proof modules hold for any number of executors, jobs, calls, drains,
requests and slots and any bounds; they rest on the named assumptions of the
model modules (`NoOwner` is not an executor, kinds of rows are disjoint, some
sets are finite, the bounds are natural numbers).  Each has an inductive
invariant `IInv` and a lemma for each part of it.

**RunExecutionProofs.**  `LedgerClosedOnce` is not inductive.  That `finalize`
never closes a closed attempt is `ClosedAttemptHasNoAuthority`; this in turn
needs each attempt to be in the hands of one executor (`HeldByOne`), since
another's `RecordLoss` could otherwise close it under a holder; and a claim
leaves no other attempt open only if the row names the newest
(`ActiveIsNewest`) and no event precedes its claim (`LedgerFollowsFence`).
Steps fall into three classes: those that change neither lease nor ledger
(`QuietStep`), those that retire the active attempt (`RetireStep`), and `Claim`,
`RecordRenewal` and `RecordLoss` by themselves.  From `IInv` follow
`TypeInvariant`, `ClosedOnce`, `OneOpenAttempt`, `FenceImpliesOpen`, the action
property `ClosedWritesNothing`, and `Refinement`: `Spec => SerialSpec`.

`OverStaysOver` needs no history: what could bring an ended run back is a caller
between its read and its write, or an executor that passes the fence.

**ApprovalExecutionProofs.**  `TypeInvariant`; `RefusalIsNotWork`, which needs
that jobs exist only for decisions taken and that follow-ups are planned for
approvals only; `StampFinal` and `CompletionStays`, action by action.
`ContinuationsCapped` is a counting argument: every claim hands out a new
attempt number, jobs before their continuation hold different numbers, and a
plan to continue is made only for a number within the cap.  `ActionsCapped` is
the same argument for starts of the action: a set of spent numbers that grows
with every start.  `StartsAreAccounted` needs that one job at most is inside the
transaction; `OnceUnlessLost` is its corollary.  `NothingStranded` needs that an
undecided request was touched by no job.  `DecisionIsObligation` is
`Spec => ObligationSpec`: a continuation is a piece of work the abstract row has
a lease left for, which is the counting argument again.
`SuccessStaysWithoutStragglers` has its hypothesis as a premise
(`Spec /\ []NoStraggler => SuccessIsNotBuried`): behaviours without a lapse under
a job at work satisfy it, the run `approval_straggler` is one that does not.

**ExternalEffectsProofs.**  All five properties.  `OneStartPerKey` needs that
"failed", and with it a call about to retry, exists only where an operator
cleared the effect (`FailedMeansCleared`).  `SecondKeyIsLate` needs that a later
attempt coins a key of its own for an ordinal only where no earlier attempt's
intent was recorded when it looked, so that a start under the earlier key comes
after; the two make `NeverRepeatedUnaided`.  `OneStartPerClearance` needs that such a
call of the current attempt still has its clearance to spend
(`RetriesAreCovered`); `CallsKeepApart` that a key carries the ordinal of every
call that resolved it; `AnswersAreEarned` that a claimed call asks what the
intent records.  `SettledStaysSettled` covers the start as well: a claim
acts only where there is no intent, a settled key has one, and a retry starts
only where the ledger takes its event.
`AttemptsAreSerialTheorem` is `Spec => AttemptsAreSerial`.  `ReplaysTakeOver`
needs to know who coined a key (`Coined`): its attempt and ordinal name a call
that resolved it.

**ChatDispatchProofs.**  `CompletedMeansAnswered` needs that a drain about to
settle has answered and that recovery's "completed" was reached on an answer.
`AnsweredOncePerRequest` is a counting argument: answers given, drains that may
still answer, and one for a message that waits, are together at most one more
than its retries.  `FifoTheorem` is `Spec => FifoSpec`, each step a move of the
abstract queue or a stutter; it needs that messages are sent in order and that
recovery settles as completed or failed only.  `OverlapMeansOverruledTheorem`
needs that drains of one process are never in a turn together and that one
message at most is running; two drains on the same message take a retry, which
the account of answers already counts.

**CredentialHandoffProofs.**  All safety properties of the run and more.
`WokenAgainAfterSetback` counts in the same way: runs started, continuations that
have not woken the agent yet, and one for a request that can be leased, are at
most one more than the setbacks.  `WokenOnlyWhenStored` needs that stored is for
good.  `StoredIsObligation` is `Spec => ObligationSpec`: wakings are counted
against leases handed out, by the executors that have claimed and not yet woken
(`LeasesSpent`).  `NothingStranded` is the safe part of `StoredIsContinued`: on
the last lease, a holder that read fewer attempts is one that outlived an earlier
lease, and it needs that one executor at most holds a request nobody outlived.
`VerdictStands` says the first settlement does.  `StoredMeansSealed` needs that
every submission that reviewed or sealed has a revision no later than what was
proposed, and sealed.

**BackgroundWorkProofs.**  `NextMoves` says once, for all actions, what a step
may do to a run and to an executor; the rest reasons from these moves.
`NeverTwiceAtOnce` follows from a statement about runs that are *present*
(unfinished, or with an executor at them): only a claim makes one present, and
a claim past another is recorded.  `RunLimitKept` counts what is charged for
(rows, and claims without a row) against `count`, and keeps room under the limit
while the duty is on; the refused rows are counted against the continuations
(`RefusalsPaid`).  `BegunOnce` needs that a claimed occurrence is never due
again, that a child has one job at a time, and that a child which was begun has
an attempt or is not running.  `FinishedOnce` counts an assignment's rows and the
slots that have claimed it without a row yet: none while it waits unmarked, one
until its first reclaim, two after; only settling it or giving it up takes the mark
away, and what goes on after that is `revived`.  `DeliveredIsEarned` needs that mail
goes out at the end of a run that has its row.

**AbstractProofs.**  What the refinements buy, proved of the abstract
specifications once: attempts have one writer and are closed for good
(`AttemptsHaveOneWriter`), nothing is served past an earlier message
(`MessagesServedInOrder`), and there is no more work than leases, no more leases
than the cap, none before it is owed or after it is closed
(`ObligationsAreLeased`).

`AttemptsAreSerial`, `ReplaysTakeOver`, `OverForGood`, `OverlapMeansOverruled`,
`NothingIsStranded` and `VerdictIsFinal` are in no run's list: TLC agreed with
each on the instances of section 9 before it was proved, and the proof now covers
these.

**Only model-checked**: the liveness properties (`RunningEnds`,
`DecisionSettles`, `HeadIsServed`, `StoredIsContinued`, `DueIsServed`,
`PendingIsTaken`, `ChildSettles`, `DeadWorkIsReclaimed`) and the violations.
Liveness under fairness and ENABLED are outside this prover's reach.  Every
safety property of a passing run is a theorem.

## 12. What is left out

Transcripts, summaries, costs, wording and timestamps: no property is about
them.  Time is an event that may happen at any moment; which process's clock
notices first is thereby covered.  A crash forgets a process's memory and keeps
committed rows.  `employed` is never set back.  Two approvals of one run are told
apart only as "parked here" and "parked on another".  In `ApprovalExecution`
a continuation opens and ends the run in two steps; what can happen to a run in
between is the subject of `RunExecution`.  In `ExternalEffects` domain keys are
left out (no ability declares one), and `executeExternalEffect`, library code,
is modelled from the store and the arguments it is given.

**Not modelled.**  Live calls: mostly media I/O; the race of the session row is
listed as a hazard.  MCP and mailbox tokens: the exclusion is a lock held across
a provider's answer, and what can fail is the provider.  Colleague messages,
authored systems, memory and knowledge: rows written in single transactions.
Desks and browsers: hosts that are not in the repository.  Spend: arithmetic on
price tables.  The web interface and the deployment: pages, packaging; the
actions that write, and the constraints and triggers that refuse a write, are in
the models where they act.  Most of the repository by size is of these kinds, so
the map covers a small share of its lines.
