---------------------------- MODULE ChatDispatch ----------------------------
(***************************************************************************)
(* The queue of one conversation: messages a person sends an agent, the    *)
(* drains that turn each of them into a run and a reply, and the recovery  *)
(* pass that settles what a dead process left running.                     *)
(*                                                                         *)
(* A drain is one call of drainChatDispatchQueue, in the web process after *)
(* an action of the person or in the worker after its conversations pass.  *)
(* sendMessage is serialized per conversation inside one process, and not  *)
(* between processes.                                                      *)
(*                                                                         *)
(* Abstractions.                                                           *)
(*  - Runs of the conversation are numbered in the order they start.  The  *)
(*    run itself is RunExecution's; here it is at work, parked on a person *)
(*    (reply, approval, credential) or over.                               *)
(*  - A status change reads the row and writes it under the trigger of     *)
(*    migration 0063, which refuses the edge that is not in the table: the *)
(*    loser of a race throws as it would had it read the new row.  Read    *)
(*    and write are one step.                                              *)
(*  - The watcher's read and the link it asks for are one step.            *)
(*  - Reading the history and recording the question are one step.        *)
(*  - Editing a waiting message and repeating an enqueue with the same key *)
(*    change nothing the queue looks at.                                   *)
(***************************************************************************)
EXTENDS Naturals, FiniteSets

CONSTANTS
    MaxMessages,    \* bound on the messages sent
    Drains,         \* calls of drainChatDispatchQueue at a time
    ProcessOf,      \* the process each drain runs in
    Worker,         \* the drains of the worker's conversations pass
    MaxRuns,        \* bound on the runs opened
    Retriable,      \* messages a person may retry,
    MaxRetries,     \* and the bound on the retries of each
    MaxCrashes      \* bound on the process deaths considered

ASSUME BoundsAssumption ==
    {MaxMessages, MaxRuns, MaxRetries, MaxCrashes} \subseteq Nat
ASSUME DrainsAssumption == IsFiniteSet(Drains) /\ Worker \subseteq Drains

Messages == 1 .. MaxMessages
Runs     == 1 .. MaxRuns
None     == 0

Statuses  == {"absent", "queued", "running", "completed", "failed",
              "cancelled"}
RunStates == {"unborn", "working", "parked", "over"}
Live      == {"working", "parked"}

(* Where a drain is: it has claimed a message and waits for the turn before*)
(* it in its process ("claimed"), its question is recorded and the watcher *)
(* started ("asking"), its run is at work ("working"), the run is over and *)
(* its answer to be recorded ("answering"), the agent may not work and a   *)
(* note says so next ("refused"), the message is to be settled             *)
(* ("settling"), or the turn threw ("throwing").                           *)
InTurn == {"asking", "working", "answering", "refused"}
Places == {"idle", "claimed", "settling", "throwing"} \cup InTurn

VARIABLES
    status,         \* status[m]: chat_dispatches.status, absent before
    link,           \* link[m]: chat_dispatches.run_id
    askedAt,        \* askedAt[m]: runs opened when its question was recorded
    asked,          \* messages whose question is in the transcript
    replies,        \* replies[m]: agent messages that carry its id
    noted,          \* messages answered by a system note instead
    run,            \* run[k]: state of the k-th run
    opened,         \* number of runs opened
    pc,             \* pc[d]: where drain d is
    at,             \* at[d]: the message it claimed
    mine,           \* mine[d]: the run it opened
    seen,           \* seen[d]: the run its watcher found
    mislinked,      \* mislinked[d]: linkRun threw
    looked,         \* what the recovery pass read: [m, run], or none of it
    verdict,        \* what it is about to settle the message as
    retried,        \* retried[m]: how often a person retried it
    crashes

queueVars    == <<status, link>>
threadVars   == <<askedAt, asked, replies, noted>>
runVars      == <<run, opened>>
drainVars    == <<pc, at, mine, seen, mislinked>>
recoveryVars == <<looked, verdict>>
peopleVars   == <<retried, crashes>>
vars == <<status, link, askedAt, asked, replies, noted, run, opened,
          pc, at, mine, seen, mislinked, looked, verdict, retried,
          crashes>>

Nothing == [m |-> None, run |-> None]

TypeOK ==
    /\ status \in [Messages -> Statuses]
    /\ link \in [Messages -> 0 .. MaxRuns]
    /\ askedAt \in [Messages -> 0 .. MaxRuns]
    /\ asked \subseteq Messages
    /\ replies \in [Messages -> Nat]
    /\ noted \subseteq Messages
    /\ run \in [Runs -> RunStates]
    /\ opened \in 0 .. MaxRuns
    /\ pc \in [Drains -> Places]
    /\ at \in [Drains -> 0 .. MaxMessages]
    /\ mine \in [Drains -> 0 .. MaxRuns]
    /\ seen \in [Drains -> 0 .. MaxRuns]
    /\ mislinked \in [Drains -> BOOLEAN]
    /\ looked \in [m : 0 .. MaxMessages, run : 0 .. MaxRuns]
    /\ verdict \in {"none", "unread"} \cup Statuses
    /\ retried \in [Messages -> Nat]
    /\ crashes \in Nat

-----------------------------------------------------------------------------
(* The queue.                                                              *)

Go(d, place) == pc' = [pc EXCEPT ![d] = place]

Gone(m) == status[m] \in {"completed", "cancelled"}

\* enqueue: the next position of the conversation.
Enqueue(m) ==
    /\ status[m] = "absent"
    /\ \A n \in Messages : n < m => status[n] # "absent"
    /\ status' = [status EXCEPT ![m] = "queued"]
    /\ UNCHANGED <<link, threadVars, runVars, drainVars, recoveryVars,
                   peopleVars>>

\* The message claimNext takes next.  Broken variant: a failed message is
\* passed over.
IsHead_SkipsFailed(m) ==
    /\ status[m] = "queued"
    /\ \A n \in Messages : n < m => status[n] # "queued"
IsHead(m) ==
    /\ status[m] = "queued"
    /\ \A n \in Messages : n < m => status[n] \notin {"queued", "failed"}

\* The worker drains the conversations that have something pending.  Broken
\* variant: those with a message under way.
Pending_Running == \E m \in Messages : status[m] = "running"
Pending == \E m \in Messages : status[m] \in {"queued", "running"}

\* claimNext.  run_id is left as it is.
Claim(d, m) ==
    /\ pc[d] = "idle"
    /\ d \in Worker => Pending
    /\ \A n \in Messages : status[n] # "running"
    /\ IsHead(m)
    /\ status' = [status EXCEPT ![m] = "running"]
    /\ at' = [at EXCEPT ![d] = m]
    /\ Go(d, "claimed")
    /\ UNCHANGED <<link, mine, seen, mislinked, threadVars, runVars,
                   recoveryVars, peopleVars>>

\* settle: nothing if that is the status already, an error if the table has
\* no such edge.
Settles(m, outcome) == status[m] = "running" \/ status[m] = outcome

Settle(m, outcome, k) ==
    IF status[m] = "running"
    THEN /\ status' = [status EXCEPT ![m] = outcome]
         /\ link' = [link EXCEPT ![m] = IF k # None THEN k ELSE @]
    ELSE UNCHANGED queueVars

\* linkRun: only a running message without a run is linked.
LinkRefused(m, k) ==
    status[m] = "running" /\ link[m] \notin {None, k}

LinkRun(m, k) ==
    link' = IF status[m] = "running" /\ link[m] = None
            THEN [link EXCEPT ![m] = k] ELSE link

-----------------------------------------------------------------------------
(* One turn of a drain: sendMessage, and what the drain does around it.    *)

\* serializeByThread lets one turn of the process through.
MayEnter(d) ==
    /\ pc[d] = "claimed"
    /\ \A e \in Drains : ProcessOf[e] = ProcessOf[d] => pc[e] \notin InTurn

\* The question is recorded once; a retry goes on from the one there is.
Ask(d) ==
    /\ MayEnter(d)
    /\ asked' = asked \cup {at[d]}
    /\ askedAt' = IF at[d] \in asked THEN askedAt
                  ELSE [askedAt EXCEPT ![at[d]] = opened]
    /\ Go(d, "asking")
    /\ UNCHANGED <<replies, noted, at, mine, seen, mislinked, queueVars,
                   runVars, recoveryVars, peopleVars>>

\* executeAgentRun opens a run.
OpenRun(d) ==
    /\ pc[d] = "asking" /\ opened < MaxRuns
    /\ opened' = opened + 1
    /\ run' = [run EXCEPT ![opened + 1] = "working"]
    /\ mine' = [mine EXCEPT ![d] = opened + 1]
    /\ Go(d, "working")
    /\ UNCHANGED <<at, seen, mislinked, queueVars, threadVars,
                   recoveryVars, peopleVars>>

\* The agent may not work: refuseRun opens a run of the conversation that has
\* failed already.
Refuse(d) ==
    /\ pc[d] = "asking" /\ opened < MaxRuns
    /\ opened' = opened + 1
    /\ run' = [run EXCEPT ![opened + 1] = "over"]
    /\ mine' = [mine EXCEPT ![d] = opened + 1]
    /\ Go(d, "refused")
    /\ UNCHANGED <<at, seen, mislinked, queueVars, threadVars,
                   recoveryVars, peopleVars>>

\* findRun: the latest run of the conversation since the question.
Found(d) == opened > askedAt[at[d]]

Watched(d) ==
    IF seen[d] = None /\ Found(d)
    THEN /\ seen' = [seen EXCEPT ![d] = opened]
         /\ mislinked' = [mislinked EXCEPT ![d] = LinkRefused(at[d], opened)]
         /\ LinkRun(at[d], opened)
    ELSE UNCHANGED <<seen, mislinked, link>>

\* The watcher looks.
Watch(d) ==
    /\ pc[d] \in {"asking", "working", "refused"}
    /\ seen[d] = None /\ Found(d)
    /\ Watched(d)
    /\ UNCHANGED <<status, pc, at, mine, threadVars, runVars,
                   recoveryVars, peopleVars>>

\* The run ends in this process, done or parked on a person, and leaves an
\* answer; or it failed.  watch.stop looks once more before either goes on.
RunEnds(d, s, place) ==
    /\ pc[d] = "working"
    /\ run' = [run EXCEPT ![mine[d]] = s]
    /\ Watched(d)
    /\ Go(d, place)
    /\ UNCHANGED <<opened, status, at, mine, threadVars,
                   recoveryVars, peopleVars>>

\* A note, that names the refused run, is the answer; then watch.stop looks,
\* and sendMessage returns.
Note(d) ==
    /\ pc[d] = "refused"
    /\ noted' = noted \cup {at[d]}
    /\ Watched(d)
    /\ Go(d, "settling")
    /\ UNCHANGED <<askedAt, asked, replies, status, at, mine, runVars,
                   recoveryVars, peopleVars>>

\* The agent's answer is recorded.
Answer(d) ==
    /\ pc[d] = "answering"
    /\ replies' = [replies EXCEPT ![at[d]] = @ + 1]
    /\ Go(d, "settling")
    /\ UNCHANGED <<askedAt, asked, noted, at, mine, seen, mislinked,
                   queueVars, runVars, recoveryVars, peopleVars>>

Leave(d) ==
    /\ Go(d, "idle")
    /\ at' = [at EXCEPT ![d] = None]
    /\ mine' = [mine EXCEPT ![d] = None]
    /\ seen' = [seen EXCEPT ![d] = None]
    /\ mislinked' = [mislinked EXCEPT ![d] = FALSE]

\* The links are awaited and the message is settled; then the drain claims
\* the next.
Complete(d) ==
    /\ pc[d] = "settling"
    /\ ~ mislinked[d] /\ Settles(at[d], "completed")
    /\ Settle(at[d], "completed", mine[d])
    /\ Leave(d)
    /\ UNCHANGED <<threadVars, runVars, recoveryVars, peopleVars>>

\* A link threw, or somebody settled the message otherwise.
CompleteRefused(d) ==
    /\ pc[d] = "settling"
    /\ mislinked[d] \/ ~ Settles(at[d], "completed")
    /\ Go(d, "throwing")
    /\ UNCHANGED <<at, mine, seen, mislinked, queueVars, threadVars,
                   runVars, recoveryVars, peopleVars>>

\* The turn throws before its question is recorded: the conversation was
\* closed, an attachment is gone, or another process recorded the question
\* since this one read the history, and the unique index refuses a second.
\* Or it throws before there is a run, or after it ended.
Threw(d) == MayEnter(d) \/ pc[d] \in {"asking", "throwing"}

\* The drain's catch: the message has failed and the drain ends, even when
\* that can no longer be recorded.
Fail(d) ==
    /\ Threw(d)
    /\ Settle(at[d], "failed", None)
    /\ Leave(d)
    /\ UNCHANGED <<threadVars, runVars, recoveryVars, peopleVars>>

-----------------------------------------------------------------------------
(* The recovery pass.                                                      *)

\* What recovery makes of a message whose turn is over without an answer.
\* Broken variants: it is sent round again; the run's own word is used.
RecoveredAs_Requeued == "queued"
RecoveredAs_Raw == "crashed"
RecoveredAs == "failed"

\* An unlinked claim gets two minutes.
Unlinked == RecoveredAs

\* A turn may take two minutes to open its run; the watcher looks every
\* second, so a run that is open is linked long before.
Aged(m) ==
    \A d \in Drains :
        at[d] = m => ~ (pc[d] \in {"working", "refused"} /\ seen[d] = None)

\* The pass reads the running message.
Look(m) ==
    /\ verdict = "none"
    /\ status[m] = "running"
    /\ link[m] = None => Aged(m)
    /\ verdict' = IF link[m] = None THEN Unlinked ELSE "unread"
    /\ verdict' # "none"
    /\ looked' = [m |-> m, run |-> link[m]]
    /\ UNCHANGED <<queueVars, threadVars, runVars, drainVars, peopleVars>>

\* The state of the linked run, and whether the message was answered.
\* Broken variant: a run that is over has answered.
LinkedVerdict_TrustsRun(m, k) ==
    IF replies[m] > 0 \/ run[k] = "over" THEN "completed"
    ELSE IF run[k] \notin Live THEN RecoveredAs ELSE "none"
LinkedVerdict(m, k) ==
    IF replies[m] > 0 THEN "completed"
    ELSE IF run[k] \notin Live THEN RecoveredAs ELSE "none"

ReadRun ==
    /\ verdict = "unread"
    /\ verdict' = LinkedVerdict(looked.m, looked.run)
    /\ looked' = IF verdict' = "none" THEN Nothing ELSE looked
    /\ UNCHANGED <<queueVars, threadVars, runVars, drainVars,
                   peopleVars>>

\* The message is settled, or the pass throws and begins anew.
Recover ==
    /\ verdict \notin {"none", "unread"}
    /\ Settle(looked.m, verdict, looked.run)
    /\ looked' = Nothing /\ verdict' = "none"
    /\ UNCHANGED <<threadVars, runVars, drainVars, peopleVars>>

-----------------------------------------------------------------------------
(* The person, the run's other handlers, and process death.                *)

\* changeFailedOrQueued, retried.  run_id is left as it is.
Retry(m) ==
    /\ status[m] = "failed" /\ m \in Retriable /\ retried[m] < MaxRetries
    /\ status' = [status EXCEPT ![m] = "queued"]
    /\ retried' = [retried EXCEPT ![m] = @ + 1]
    /\ UNCHANGED <<link, crashes, threadVars, runVars, drainVars,
                   recoveryVars>>

\* changeFailedOrQueued, cancelled.
Cancel(m) ==
    /\ status[m] \in {"queued", "failed"}
    /\ status' = [status EXCEPT ![m] = "cancelled"]
    /\ UNCHANGED <<link, threadVars, runVars, drainVars, recoveryVars,
                   peopleVars>>

\* steerRunningTurn: the words go to a live run of the conversation and the
\* message is done with.  A question that is recorded already (a retry) is
\* refused a second time.
Steer(m) ==
    /\ status[m] = "queued" /\ m \notin asked
    /\ \E k \in Runs : run[k] \in Live
    /\ status' = [status EXCEPT ![m] = "cancelled"]
    /\ asked' = asked \cup {m}
    /\ askedAt' = [askedAt EXCEPT ![m] = opened]
    /\ UNCHANGED <<link, replies, noted, runVars, drainVars,
                   recoveryVars, peopleVars>>

\* A parked run is taken up by others and ends.
ParkedEnds(k) ==
    /\ run[k] = "parked"
    /\ run' = [run EXCEPT ![k] = "over"]
    /\ UNCHANGED <<opened, queueVars, threadVars, drainVars, recoveryVars,
                   peopleVars>>

\* A process dies with the drains in it.
Crash(p) ==
    /\ crashes < MaxCrashes
    /\ \E d \in Drains : ProcessOf[d] = p /\ pc[d] # "idle"
    /\ crashes' = crashes + 1
    /\ LET Dead == {d \in Drains : ProcessOf[d] = p} IN
        /\ pc' = [d \in Drains |-> IF d \in Dead THEN "idle" ELSE pc[d]]
        /\ at' = [d \in Drains |-> IF d \in Dead THEN None ELSE at[d]]
        /\ mine' = [d \in Drains |-> IF d \in Dead THEN None ELSE mine[d]]
        /\ seen' = [d \in Drains |-> IF d \in Dead THEN None ELSE seen[d]]
        /\ mislinked' = [d \in Drains |-> d \notin Dead /\ mislinked[d]]
    /\ UNCHANGED <<retried, queueVars, threadVars, runVars, recoveryVars>>

\* The sweep of RunExecution fails a run whose process is dead.
Sweep(k) ==
    /\ run[k] = "working"
    /\ \A d \in Drains : mine[d] # k
    /\ run' = [run EXCEPT ![k] = "over"]
    /\ UNCHANGED <<opened, queueVars, threadVars, drainVars, recoveryVars,
                   peopleVars>>

-----------------------------------------------------------------------------
Init ==
    /\ status = [m \in Messages |-> "absent"]
    /\ link = [m \in Messages |-> None]
    /\ askedAt = [m \in Messages |-> 0]
    /\ asked = {} /\ noted = {}
    /\ replies = [m \in Messages |-> 0]
    /\ run = [k \in Runs |-> "unborn"] /\ opened = 0
    /\ pc = [d \in Drains |-> "idle"]
    /\ at = [d \in Drains |-> None]
    /\ mine = [d \in Drains |-> None]
    /\ seen = [d \in Drains |-> None]
    /\ mislinked = [d \in Drains |-> FALSE]
    /\ looked = Nothing /\ verdict = "none"
    /\ retried = [m \in Messages |-> 0]
    /\ crashes = 0

\* What a drain does on its own once it has claimed a message.
Turn(d) ==
    \/ Ask(d)
    \/ OpenRun(d) \/ Refuse(d) \/ Note(d)
    \/ \E s \in {"over", "parked"} : RunEnds(d, s, "answering")
    \/ RunEnds(d, "over", "throwing")
    \/ Answer(d)
    \/ Complete(d) \/ CompleteRefused(d) \/ Fail(d)

Recovery == (\E m \in Messages : Look(m)) \/ ReadRun \/ Recover

People ==
    \E m \in Messages : Enqueue(m) \/ Retry(m) \/ Cancel(m) \/ Steer(m)

Next ==
    \/ People
    \/ \E d \in Drains : \/ \E m \in Messages : Claim(d, m)
                         \/ Turn(d) \/ Watch(d)
    \/ Recovery
    \/ \E k \in Runs : Sweep(k) \/ ParkedEnds(k)
    \/ \E p \in {ProcessOf[d] : d \in Drains} : Crash(p)

Spec == Init /\ [][Next]_vars

\* A turn that was begun goes on while its process lives: every await of it
\* has a deadline, the agent loop a step limit.  The conversations pass comes
\* round every half minute: it recovers, then drains.  The sweep goes on.
\* Nothing is asked of people: a retry, a cancellation, a decision a parked
\* run waits for may never come.
FairSpec ==
    /\ Spec
    /\ \A d \in Drains : WF_vars(Turn(d))
    /\ \A d \in Worker : WF_vars(\E m \in Messages : Claim(d, m))
    /\ WF_vars(Recovery)
    /\ \A k \in Runs : WF_vars(Sweep(k))

-----------------------------------------------------------------------------
(* Properties.                                                             *)

\* The queue the drains, the recovery pass and the person work on is the
\* queue FifoWithBarrier describes: one message at a time is under way, none
\* starts before every earlier one is gone, and a failed one holds up the
\* rest, whatever processes die and whatever the recovery pass settles late.
Stage(m) ==
    CASE status[m] = "absent" -> "unsent"
      [] status[m] = "queued" -> "waiting"
      [] status[m] = "running" -> "serving"
      [] status[m] = "failed" -> "blocked"
      [] OTHER -> "gone"
Fifo == INSTANCE FifoWithBarrier WITH stage <- [m \in Messages |-> Stage(m)]
FifoSpec == Fifo!Spec

\* A message is only shown as completed once the transcript answers it, by
\* the agent or by the note that the agent may not work; also when it is the
\* recovery pass that completes it.
CompletedMeansAnswered ==
    \A m \in Messages :
        status[m] = "completed" => replies[m] > 0 \/ m \in noted

\* Nothing but a person's retry makes an agent answer a message again: not a
\* crash, not two processes that drain at once, not recovery.
AnsweredOncePerRequest ==
    \A m \in Messages : replies[m] <= 1 + retried[m]

\* A message with nothing before it is served in the end, with or without the
\* browser that sent it and whichever process dies on the way: it does not
\* wait for ever and does not stay under way, unless the run it is linked to
\* is parked on a person.
Parked(m) == link[m] # None /\ run[link[m]] = "parked"
HeadIsServed ==
    \A m \in Messages :
        (status[m] \in {"queued", "running"}
            /\ \A n \in Messages : n < m => Gone(n))
            ~> status[m] \notin {"queued", "running"} \/ Parked(m)

\* What chat-dispatch.test.mts:251 says of drains: two of them "can never
\* run two turns in one conversation".
OneTurnAtATime ==
    \A d, e \in Drains :
        d # e => ~ (pc[d] = "working" /\ pc[e] = "working")

\* What holds of it: two turns at once are in two processes, and one of them
\* was overruled, its message settled under it by the recovery pass and
\* perhaps retried by a person since.
OverlapMeansOverruled ==
    \A d, e \in Drains :
        (d # e /\ pc[d] \in InTurn /\ pc[e] \in InTurn) =>
            /\ ProcessOf[d] # ProcessOf[e]
            /\ \/ status[at[d]] # "running"
               \/ status[at[e]] # "running"
               \/ at[d] = at[e] /\ retried[at[d]] > 0
=============================================================================
