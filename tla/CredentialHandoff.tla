-------------------------- MODULE CredentialHandoff -------------------------
(***************************************************************************)
(* An agent proposes an outside system and asks, in the conversation, for  *)
(* the credential it needs; its run parks.  A person submits the           *)
(* credential, which is tested and sealed, or declines.  A stored          *)
(* credential owes the agent a continuation: web processes and worker jobs *)
(* lease the request, wake the agent, append its answer and settle.        *)
(*                                                                         *)
(* Abstractions.                                                           *)
(*  - One conversation and one system.  Each run that asks proposes a new  *)
(*    revision first; the run, its revision and its request share a number.*)
(*  - There is no clock.  Any time may pass between two steps: a lease     *)
(*    lapses in a step of its own, a stale verification is recovered in    *)
(*    the claim that finds it, a request outlives its seven days in any    *)
(*    step.                                                                *)
(*  - A claim of an expired request throws inside the transaction that     *)
(*    marks it expired, so the mark is rolled back: no step.               *)
(*  - Reading a request's status and changing it are one step: advisory    *)
(*    locks, the unique index of open requests and the trigger of          *)
(*    migration 0071 refuse the loser of a race, which then throws.  They  *)
(*    refuse nothing in two places, which are two steps each: reviewing    *)
(*    the proposal and sealing the credential, reading how many attempts   *)
(*    were made and settling one as failed.                                *)
(*  - A run is RunExecution's; here it is at work in the process that      *)
(*    opened it, parked on this request, taken up by a continuation, or    *)
(*    over, parked on something else included.                             *)
(***************************************************************************)
EXTENDS Naturals, FiniteSets

CONSTANTS
    MaxRequests,    \* bound on the runs that ask
    Followed,       \* requests whose run's fate and continuation are considered
    Submissions,    \* submissions of the credential form at a time
    Executors,      \* continuations under way at a time, web and worker
    MaxAttempts,    \* CONTINUATION_MAX_ATTEMPTS
    MaxCrashes      \* bound on the process deaths considered

ASSUME BoundsAssumption ==
    {MaxRequests, MaxCrashes} \subseteq Nat /\ MaxAttempts \in Nat \ {0}
ASSUME ExecutorsAssumption == IsFiniteSet(Executors)

Requests == 1 .. MaxRequests
None     == 0

Open      == {"pending", "verifying"}
Statuses  == {"absent", "stored", "cancelled", "expired"} \cup Open
RunStates == {"unborn", "working", "parked", "resumed", "over", "cancelled"}
ContinuationStatuses == {"pending", "leased", "succeeded", "failed"}

\* A submission: its claim is verified, it has found the proposal unchanged,
\* its credential is sealed, or it threw.
SubmissionPlaces == {"idle", "verifying", "reviewed", "sealed", "throwing"}

\* A continuation: claimed, about to resume the run or to open a follow-up,
\* at that work, the answer to be appended, to settle; or it threw, and then
\* found the attempts used up or not.
ToWake == {"claimed", "resuming", "following"}
Awake  == {"resumed", "followed"}
Beaten == {"closing", "failing"}
ExecutorPlaces ==
    {"idle", "answering", "settling", "throwing"}
        \cup ToWake \cup Awake \cup Beaten

VARIABLES
    proposed,       \* authored_systems.latest_version
    status,         \* status[r] of the request row
    activated,      \* revisions a credential was sealed for
    run,            \* run[r]: the run that asked
    spc, sreq,      \* each submission: where it is, its request
    cont,           \* cont[r]: continuation_status
    attempts,       \* attempts[r]: continuation_attempts
    lapsed,         \* requests whose continuation lease has lapsed
    continued,      \* requests with continued_at
    epc, ereq,      \* each continuation: where it is, its request
    delivered,      \* requests whose answer is in the conversation
    wakes,          \* wakes[r]: runs started or resumed for the request
    setbacks,       \* setbacks[r]: attempts recorded as failed or lapsed
    outlived,       \* requests a continuation was at work on as a lease lapsed
    crashes

requestVars == <<proposed, status, activated>>
submitVars  == <<spc, sreq>>
leaseVars   == <<cont, attempts, lapsed, continued, setbacks, outlived>>
executorVars == <<epc, ereq>>
outcomeVars == <<delivered, wakes>>
vars == <<proposed, status, activated, run, spc, sreq, cont, attempts,
          lapsed, continued, epc, ereq, delivered, wakes, setbacks, outlived,
          crashes>>

TypeOK ==
    /\ proposed \in 0 .. MaxRequests
    /\ status \in [Requests -> Statuses]
    /\ activated \subseteq Requests
    /\ run \in [Requests -> RunStates]
    /\ spc \in [Submissions -> SubmissionPlaces]
    /\ sreq \in [Submissions -> Requests \cup {None}]
    /\ cont \in [Requests -> ContinuationStatuses]
    /\ attempts \in [Requests -> 0 .. MaxAttempts]
    /\ lapsed \subseteq Requests
    /\ continued \subseteq Requests
    /\ epc \in [Executors -> ExecutorPlaces]
    /\ ereq \in [Executors -> Requests \cup {None}]
    /\ delivered \subseteq Requests
    /\ wakes \in [Requests -> Nat]
    /\ setbacks \in [Requests -> Nat]
    /\ outlived \subseteq Requests
    /\ crashes \in Nat

-----------------------------------------------------------------------------
(* The agent asks.                                                         *)

\* A run starts and proposes the next revision of the system.
Propose(r) ==
    /\ r = proposed + 1
    /\ proposed' = r
    /\ run' = [run EXCEPT ![r] = "working"]
    /\ UNCHANGED <<status, activated, submitVars, leaseVars, executorVars,
                   outcomeVars, crashes>>

\* requestSystemCredential: only for the latest proposal; an open request for
\* an earlier revision expires.
Ask(r) ==
    /\ run[r] = "working" /\ status[r] = "absent"
    /\ proposed = r
    /\ status' = [q \in Requests |->
                    IF q = r THEN "pending"
                    ELSE IF status[q] \in Open THEN "expired" ELSE status[q]]
    /\ UNCHANGED <<proposed, activated, run, submitVars, leaseVars,
                   executorVars, outcomeVars, crashes>>

\* The run that asked parks, whatever has become of its request; or it ends,
\* parks on something else, or its process dies and the sweep closes it.
RunStops(r, s) ==
    /\ run[r] = "working" /\ r \in Followed
    /\ s = "parked" => status[r] # "absent"
    /\ run' = [run EXCEPT ![r] = s]
    /\ UNCHANGED <<requestVars, submitVars, leaseVars, executorVars,
                   outcomeVars, crashes>>

\* The operator stops the run, at work or parked.
Stop(r) ==
    /\ run[r] \in {"working", "parked", "resumed"} /\ r \in Followed
    /\ run' = [run EXCEPT ![r] = "cancelled"]
    /\ UNCHANGED <<requestVars, submitVars, leaseVars, executorVars,
                   outcomeVars, crashes>>

-----------------------------------------------------------------------------
(* The person submits or declines.                                         *)

SGo(s, place, r) ==
    /\ spc' = [spc EXCEPT ![s] = place]
    /\ sreq' = [sreq EXCEPT ![s] = r]

\* claimRequest.  A verification that is under way for two minutes is taken
\* over.
Submit(s, r) ==
    /\ spc[s] = "idle" /\ status[r] \in Open
    /\ status' = [status EXCEPT ![r] = "verifying"]
    /\ SGo(s, "verifying", r)
    /\ UNCHANGED <<proposed, activated, run, leaseVars, executorVars,
                   outcomeVars, crashes>>

\* submitSystemCredentialRequest reads the systems: the request must be for
\* the latest proposal.
Review(s) ==
    /\ spc[s] = "verifying" /\ proposed = sreq[s]
    /\ SGo(s, "reviewed", sreq[s])
    /\ UNCHANGED <<requestVars, run, leaseVars, executorVars, outcomeVars,
                   crashes>>

\* activateAuthoredSystem reads the systems anew, tests the latest proposal
\* it finds, and seals the credential for it if no newer one has arrived by
\* then.  It is not told the request's revision.  Broken variant: the
\* connection is not saved.
Seals_Nothing == activated
Seals == activated \cup {proposed}
Activate(s) ==
    /\ spc[s] = "reviewed"
    /\ activated' = Seals
    /\ SGo(s, "sealed", sreq[s])
    /\ UNCHANGED <<proposed, status, run, leaseVars, executorVars,
                   outcomeVars, crashes>>

\* The proposal changed before a read or during the probe, or the probe fails.
Reject(s) ==
    /\ spc[s] \in {"verifying", "reviewed"}
    /\ SGo(s, "throwing", sreq[s])
    /\ UNCHANGED <<requestVars, run, leaseVars, executorVars, outcomeVars,
                   crashes>>

\* finishRequest, stored: the request must be being verified, or be stored.
Store(s) ==
    /\ spc[s] = "sealed"
    /\ \/ /\ status[sreq[s]] \in {"verifying", "stored"}
          /\ status' = [status EXCEPT ![sreq[s]] = "stored"]
          /\ SGo(s, "idle", None)
       \/ /\ status[sreq[s]] \notin {"verifying", "stored"}
          /\ SGo(s, "throwing", sreq[s])
          /\ UNCHANGED status
    /\ UNCHANGED <<proposed, activated, run, leaseVars, executorVars,
                   outcomeVars, crashes>>

\* finishRequest, failed: it throws unless the request is being verified.
GiveBack(s) ==
    /\ spc[s] = "throwing"
    /\ status' = IF status[sreq[s]] = "verifying"
                 THEN [status EXCEPT ![sreq[s]] = "pending"] ELSE status
    /\ SGo(s, "idle", None)
    /\ UNCHANGED <<proposed, activated, run, leaseVars, executorVars,
                   outcomeVars, crashes>>

\* cancelSystemCredentialRequest: the run parked behind it ends with it.
Decline(r) ==
    /\ status[r] = "pending"
    /\ status' = [status EXCEPT ![r] = "cancelled"]
    /\ run' = [run EXCEPT ![r] = IF @ = "parked" THEN "cancelled" ELSE @]
    /\ UNCHANGED <<proposed, activated, submitVars, leaseVars, executorVars,
                   outcomeVars, crashes>>

SubmissionDies(s) ==
    /\ spc[s] # "idle" /\ crashes < MaxCrashes
    /\ crashes' = crashes + 1
    /\ SGo(s, "idle", None)
    /\ UNCHANGED <<requestVars, run, leaseVars, executorVars, outcomeVars>>

-----------------------------------------------------------------------------
(* The continuation.                                                       *)

EGo(e, place, r) ==
    /\ epc' = [epc EXCEPT ![e] = place]
    /\ ereq' = [ereq EXCEPT ![e] = r]

\* The rows a continuation may lease.  Broken variants: any number of times;
\* before the credential is stored; over a live lease; not over a lapsed one.
Owed(r) ==
    /\ status[r] = "stored" /\ r \notin continued
    /\ attempts[r] < MaxAttempts
Free(r) ==
    \/ cont[r] \in {"pending", "failed"}
    \/ cont[r] = "leased" /\ r \in lapsed
Claimable_Unbounded(r) == status[r] = "stored" /\ r \notin continued /\ Free(r)
Claimable_Early(r) ==
    status[r] # "absent" /\ attempts[r] < MaxAttempts /\ Free(r)
Claimable_Leased(r) == Owed(r)
Claimable_NeverTwice(r) == Owed(r) /\ cont[r] \in {"pending", "failed"}
Claimable(r) == Owed(r) /\ Free(r)

\* claimStoredCredentialContinuation.
Claim(e, r) ==
    /\ epc[e] = "idle" /\ Claimable(r) /\ r \in Followed
    /\ cont' = [cont EXCEPT ![r] = "leased"]
    /\ attempts' = [attempts EXCEPT ![r] = @ + 1]
    /\ lapsed' = lapsed \ {r}
    /\ EGo(e, "claimed", r)
    /\ UNCHANGED <<continued, setbacks, outlived, requestVars, run,
                   submitVars, outcomeVars, crashes>>

\* Some continuation of the request is under way.
AtWork(r) == \E e \in Executors : ereq[e] = r

\* Ten minutes pass.
Lapse(r) ==
    /\ cont[r] = "leased" /\ r \notin lapsed
    /\ lapsed' = lapsed \cup {r}
    /\ outlived' = IF AtWork(r) THEN outlived \cup {r} ELSE outlived
    /\ setbacks' = [setbacks EXCEPT ![r] = @ + 1]
    /\ UNCHANGED <<cont, attempts, continued, requestVars, run, submitVars,
                   executorVars, outcomeVars, crashes>>

\* The origin is read: a parked run is resumed, another one followed up.
ReadOrigin(e) ==
    /\ epc[e] = "claimed"
    /\ EGo(e, IF run[ereq[e]] = "parked" THEN "resuming" ELSE "following",
           ereq[e])
    /\ UNCHANGED <<requestVars, run, submitVars, leaseVars, outcomeVars,
                   crashes>>

Wake(r) == wakes' = [wakes EXCEPT ![r] = @ + 1]

\* Somebody's live process has the run.
Held(r) ==
    \/ run[r] = "working"
    \/ \E e \in Executors : epc[e] = "resumed" /\ ereq[e] = r

\* executeAgentRun takes the run up, in whatever state it is by now, unless
\* somebody holds it.
Resume(e) ==
    /\ epc[e] = "resuming" /\ ~ Held(ereq[e])
    /\ run' = [run EXCEPT ![ereq[e]] = "resumed"]
    /\ Wake(ereq[e])
    /\ EGo(e, "resumed", ereq[e])
    /\ UNCHANGED <<delivered, requestVars, submitVars, leaseVars, crashes>>

\* executeAgentRun opens a follow-up run.
FollowUp(e) ==
    /\ epc[e] = "following"
    /\ Wake(ereq[e])
    /\ EGo(e, "followed", ereq[e])
    /\ UNCHANGED <<delivered, run, requestVars, submitVars, leaseVars,
                   crashes>>

\* A resumed run is over when its executor is done with it.
RunDone(e) ==
    run' = IF epc[e] = "resumed" /\ run[ereq[e]] = "resumed"
           THEN [run EXCEPT ![ereq[e]] = "over"] ELSE run

\* What the executor turns to when the run has ended.  Broken variant: to
\* the settlement.
AfterRun_Settling == "settling"
AfterRun == "answering"
RunEnds(e) ==
    /\ epc[e] \in Awake
    /\ RunDone(e)
    /\ EGo(e, AfterRun, ereq[e])
    /\ UNCHANGED <<requestVars, submitVars, leaseVars, outcomeVars, crashes>>

\* The agent may not work, the run is held by another, or it throws.
Throw(e) ==
    /\ epc[e] \in ToWake \cup Awake
    /\ RunDone(e)
    /\ EGo(e, "throwing", ereq[e])
    /\ UNCHANGED <<requestVars, submitVars, leaseVars, outcomeVars, crashes>>

\* appendCredentialOutcomeToChat: one answer for one request.
Append(e) ==
    /\ epc[e] = "answering"
    /\ delivered' = delivered \cup {ereq[e]}
    /\ EGo(e, "settling", ereq[e])
    /\ UNCHANGED <<wakes, run, requestVars, submitVars, leaseVars, crashes>>

\* settleStoredCredentialContinuation, with the run: whoever holds the lease.
Succeed(e) ==
    LET r == ereq[e] IN
    /\ epc[e] = "settling"
    /\ IF cont[r] = "leased"
       THEN /\ cont' = [cont EXCEPT ![r] = "succeeded"]
            /\ continued' = continued \cup {r}
       ELSE UNCHANGED <<cont, continued>>
    /\ EGo(e, "idle", None)
    /\ UNCHANGED <<attempts, lapsed, setbacks, outlived, requestVars, run,
                   submitVars, outcomeVars, crashes>>

\* With an error it first reads how many attempts were made, its own or a
\* successor's: the last is final.
Final(r) == attempts[r] >= MaxAttempts
ReadAttempts(e) ==
    /\ epc[e] = "throwing"
    /\ EGo(e, IF Final(ereq[e]) THEN "closing" ELSE "failing", ereq[e])
    /\ UNCHANGED <<requestVars, run, submitVars, leaseVars, outcomeVars,
                   crashes>>

\* Then it settles the lease, whoever holds it, by what it read.
GiveUp(e) ==
    LET r == ereq[e] IN
    /\ epc[e] \in Beaten
    /\ IF cont[r] = "leased"
       THEN /\ cont' = [cont EXCEPT ![r] = "failed"]
            /\ continued' = IF epc[e] = "closing" THEN continued \cup {r}
                            ELSE continued
            /\ setbacks' = [setbacks EXCEPT ![r] = @ + 1]
       ELSE UNCHANGED <<cont, continued, setbacks>>
    /\ EGo(e, "idle", None)
    /\ UNCHANGED <<attempts, lapsed, outlived, requestVars, run, submitVars,
                   outcomeVars, crashes>>

ExecutorDies(e) ==
    /\ epc[e] # "idle" /\ crashes < MaxCrashes
    /\ crashes' = crashes + 1
    /\ EGo(e, "idle", None)
    /\ UNCHANGED <<requestVars, run, submitVars, leaseVars, outcomeVars>>

\* The sweep closes a resumed run whose process is dead.
Sweep(r) ==
    /\ run[r] = "resumed" /\ ~ Held(r)
    /\ run' = [run EXCEPT ![r] = "over"]
    /\ UNCHANGED <<requestVars, submitVars, leaseVars, executorVars,
                   outcomeVars, crashes>>

-----------------------------------------------------------------------------
Init ==
    /\ proposed = 0
    /\ status = [r \in Requests |-> "absent"]
    /\ activated = {}
    /\ run = [r \in Requests |-> "unborn"]
    /\ spc = [s \in Submissions |-> "idle"]
    /\ sreq = [s \in Submissions |-> None]
    /\ cont = [r \in Requests |-> "pending"]
    /\ attempts = [r \in Requests |-> 0]
    /\ lapsed = {} /\ continued = {}
    /\ epc = [e \in Executors |-> "idle"]
    /\ ereq = [e \in Executors |-> None]
    /\ delivered = {}
    /\ wakes = [r \in Requests |-> 0]
    /\ setbacks = [r \in Requests |-> 0]
    /\ outlived = {}
    /\ crashes = 0

\* What a claimed continuation does on its own.
Goes(e) ==
    \/ ReadOrigin(e) \/ Resume(e) \/ FollowUp(e)
    \/ RunEnds(e) \/ Throw(e) \/ Append(e) \/ Succeed(e)
    \/ ReadAttempts(e) \/ GiveUp(e)

Next ==
    \/ \E r \in Requests :
        \/ Propose(r) \/ Ask(r) \/ Stop(r) \/ Decline(r)
        \/ RunStops(r, "parked") \/ RunStops(r, "over")
        \/ Lapse(r) \/ Sweep(r)
    \/ \E s \in Submissions :
        \/ \E r \in Requests : Submit(s, r)
        \/ Review(s) \/ Activate(s) \/ Reject(s) \/ Store(s)
        \/ GiveBack(s) \/ SubmissionDies(s)
    \/ \E e \in Executors :
        \/ \E r \in Requests : Claim(e, r)
        \/ Goes(e) \/ ExecutorDies(e)

Spec == Init /\ [][Next]_vars

\* A claimed continuation goes on while its process lives: the agent loop has
\* a step limit and its calls deadlines.  The approvals pass enqueues what is
\* owed every half minute, and leases lapse.  Nobody has to submit anything.
FairSpec ==
    /\ Spec
    /\ \A e \in Executors : WF_vars(Goes(e))
    /\ \A r \in Requests : WF_vars(\E e \in Executors : Claim(e, r))
    /\ \A r \in Requests : WF_vars(Lapse(r))

-----------------------------------------------------------------------------
(* Properties.                                                             *)

\* A request is only shown as stored, and its agent only told so, once a
\* credential was sealed for the revision that was requested or for one that
\* replaced it: also when submissions of it overlap, one of them is taken
\* over, dies or comes back late.  For the very revision the person reviewed
\* it does not hold: a proposal that arrives between Review and Activate is
\* the one that is sealed, and the earlier request is shown as stored.
StoredMeansSealed ==
    \A r \in Requests : status[r] = "stored" => \E q \in activated : q >= r

\* A request that was declined, expired or never answered wakes nobody.
WokenOnlyWhenStored ==
    \A r \in Requests : wakes[r] > 0 => status[r] = "stored"

\* An agent is woken a second time for one credential only when an attempt
\* was recorded as failed or outlived its lease, and never by two processes
\* that find the same request: the "exactly once" of migration 0071, as far
\* as the leases give it.
WokenAgainAfterSetback ==
    \A r \in Requests : wakes[r] <= 1 + setbacks[r]

(* Refinement: what a stored credential owes the agent.                    *)
Stage(r) == IF status[r] # "stored" THEN "none"
            ELSE IF r \in continued THEN "closed" ELSE "owed"

Obligation == INSTANCE LeasedObligation
    WITH Obligations <- Requests,
         MaxTries <- MaxAttempts,
         stage <- [r \in Requests |-> Stage(r)],
         tries <- attempts,
         works <- wakes

\* A request that was declined, expired or never answered wakes nobody; each
\* lease wakes the agent once at most, and none is given once the request is
\* settled, whatever processes die, lapse or come back late.
ObligationSpec == Obligation!Spec

\* A continuation that read the attempts before its successor made the last
\* one has settled that one as failed, not as final: nothing is left to lease.
SpentByStraggler(r) ==
    /\ cont[r] = "failed" /\ r \notin continued
    /\ attempts[r] = MaxAttempts
    /\ r \in outlived

\* A credential that is owed can be leased, or will be when its lease lapses,
\* unless the lease is the last one: then only somebody at work on it can
\* settle it.  It is stuck otherwise only where a continuation outlived its
\* lease and failed the last one, which was its successor's.
NothingIsStranded ==
    \A r \in Requests : Stage(r) = "owed" =>
        \/ Claimable(r)
        \/ cont[r] = "leased" /\ (r \notin lapsed \/ attempts[r] = MaxAttempts)
        \/ SpentByStraggler(r)

\* The first settlement stands: no executor that outlived its lease settles
\* the request anew, and none takes a settlement back.
VerdictIsFinal ==
    [][\A r \in continued : cont'[r] = cont[r] /\ r \in continued']_vars

\* A continuation is settled as succeeded only with its answer in the
\* conversation, by the holder of the lease or by one that outlived it.
SucceededMeansDelivered ==
    \A r \in Requests : cont[r] = "succeeded" => r \in delivered

\* The last lease is held by nobody who is still at work.
LastAttemptDied(r) ==
    attempts[r] = MaxAttempts /\ cont[r] = "leased" /\ ~ AtWork(r)

\* A stored credential's continuation is settled for good in the end, whichever
\* processes die or come back late on the way, save for two dead ends, which
\* no step leaves: the last attempt's process died, or a straggler failed the
\* last attempt.  The comment on executeStoredCredentialContinuation ("cannot
\* turn 'continue automatically' into an empty promise") admits neither.
StoredIsContinued ==
    \A r \in Requests \cap Followed :
        status[r] = "stored" ~>
            r \in continued \/ LastAttemptDied(r) \/ SpentByStraggler(r)
=============================================================================
