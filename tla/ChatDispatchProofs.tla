------------------------- MODULE ChatDispatchProofs -------------------------
(***************************************************************************)
(* What is proved about ChatDispatch, for any number of messages, drains   *)
(* and processes: the type invariant, the two invariants the run checks,   *)
(* and that the queue implements FifoWithBarrier.                          *)
(*                                                                         *)
(* The refinement needs that messages are sent in order and that recovery  *)
(* settles as completed or failed and nothing else.  CompletedMeansAnswered*)
(* needs that a drain about to settle has answered, and that a verdict of  *)
(* "completed" was reached on an answer.  AnsweredOncePerRequest counts    *)
(* what is still to come: a message that waits, and each drain that has    *)
(* claimed it and not yet answered, stand for one more answer.  Two turns  *)
(* at once are shown to need an overruled one.                             *)
(***************************************************************************)
EXTENDS ChatDispatch, FiniteSetTheorems, TLAPS

\* Messages are sent in the order of their numbers.
SentInOrder ==
    \A m, n \in Messages :
        n < m /\ status[n] = "absent" => status[m] = "absent"

\* A drain that is not idle has a message; a verdict is about one.
Placed == \A d \in Drains : pc[d] # "idle" => at[d] \in Messages
Examined ==
    /\ verdict # "none" => looked.m \in Messages
    /\ verdict \in {"none", "unread", "completed", "failed"}

Answered(m) == replies[m] > 0 \/ m \in noted

\* Who is about to complete a message knows that it is answered.
Earned ==
    /\ \A d \in Drains : pc[d] = "settling" => Answered(at[d])
    /\ verdict = "completed" => replies[looked.m] > 0

IInv ==
    /\ TypeOK
    /\ SentInOrder
    /\ Placed
    /\ Examined
    /\ Earned
    /\ CompletedMeansAnswered

\* The drains that may still answer a message.
Owing(m) ==
    {d \in Drains : at[d] = m /\ pc[d] \in {"claimed"} \cup InTurn}

\* One more answer for a message that is to be claimed.
Due(m) == IF status[m] \in {"absent", "queued"} THEN 1 ELSE 0

Accounted ==
    \A m \in Messages :
        replies[m] + Cardinality(Owing(m)) + Due(m) <= 1 + retried[m]

-----------------------------------------------------------------------------
\* The initial states satisfy the invariant.
LEMMA InitInvariant == Init => IInv
<1> SUFFICES ASSUME Init PROVE IInv
  OBVIOUS
<1> USE BoundsAssumption DEF Init
<1>1. TypeOK
  <2>1. looked \in [m : 0 .. MaxMessages, run : 0 .. MaxRuns]
    BY DEF Nothing, None
  <2> QED
    BY <2>1 DEF TypeOK, Statuses, RunStates, Places, InTurn, None, Messages
<1>2. SentInOrder /\ Placed /\ Examined
  BY DEF SentInOrder, Placed, Examined
<1>3. Earned /\ CompletedMeansAnswered
  BY DEF Earned, CompletedMeansAnswered
<1> QED
  BY <1>1, <1>2, <1>3 DEF IInv

\* A settlement sets a status of the table and keeps the links in range.
LEMMA SettleType ==
    ASSUME TypeOK, NEW m \in Messages, NEW s \in Statuses,
           NEW k \in 0 .. MaxRuns, Settle(m, s, k)
    PROVE  /\ status' \in [Messages -> Statuses]
           /\ link' \in [Messages -> 0 .. MaxRuns]
<1>1. CASE status[m] = "running"
  BY <1>1 DEF Settle, TypeOK
<1>2. CASE status[m] # "running"
  BY <1>2 DEF Settle, TypeOK, queueVars
<1> QED
  BY <1>1, <1>2

\* Leaving a message keeps the types of what a drain knows.
LEMMA LeaveType ==
    ASSUME TypeOK, NEW d \in Drains, Leave(d)
    PROVE  /\ pc' \in [Drains -> Places]
           /\ at' \in [Drains -> 0 .. MaxMessages]
           /\ mine' \in [Drains -> 0 .. MaxRuns]
           /\ seen' \in [Drains -> 0 .. MaxRuns]
           /\ mislinked' \in [Drains -> BOOLEAN]
BY BoundsAssumption DEF TypeOK, Leave, Go, Places, None

\* So does a look of the watcher, which may write a link.
LEMMA WatchedType ==
    ASSUME TypeOK, NEW d \in Drains, Watched(d)
    PROVE  /\ seen' \in [Drains -> 0 .. MaxRuns]
           /\ mislinked' \in [Drains -> BOOLEAN]
           /\ link' \in [Messages -> 0 .. MaxRuns]
<1>1. CASE seen[d] = None /\ Found(d)
  <2>1. /\ seen' = [seen EXCEPT ![d] = opened]
        /\ mislinked' = [mislinked EXCEPT ![d] = LinkRefused(at[d], opened)]
        /\ LinkRun(at[d], opened)
    BY <1>1 DEF Watched
  <2>2. LinkRefused(at[d], opened) \in BOOLEAN
    BY DEF LinkRefused
  <2> QED
    BY <2>1, <2>2 DEF TypeOK, LinkRun
<1>2. CASE ~ (seen[d] = None /\ Found(d))
  BY <1>2 DEF Watched, TypeOK
<1> QED
  BY <1>1, <1>2

-----------------------------------------------------------------------------
\* Every step keeps the type invariant.
LEMMA NextType ==
    ASSUME TypeOK, Placed, Examined, [Next]_vars
    PROVE  TypeOK'
<1> USE BoundsAssumption DEF TypeOK, queueVars, threadVars, runVars,
        drainVars, recoveryVars, peopleVars
<1>1. ASSUME NEW m \in Messages, Enqueue(m) PROVE TypeOK'
  BY <1>1 DEF Enqueue, Statuses
<1>2. ASSUME NEW m \in Messages, Retry(m) PROVE TypeOK'
  BY <1>2 DEF Retry, Statuses
<1>3. ASSUME NEW m \in Messages, Cancel(m) PROVE TypeOK'
  BY <1>3 DEF Cancel, Statuses
<1>4. ASSUME NEW m \in Messages, Steer(m) PROVE TypeOK'
  BY <1>4 DEF Steer, Statuses
<1>5. ASSUME NEW d \in Drains, NEW m \in Messages, Claim(d, m) PROVE TypeOK'
  <2>1. m \in 0 .. MaxMessages
    BY DEF Messages
  <2>2. /\ status' \in [Messages -> Statuses]
        /\ at' \in [Drains -> 0 .. MaxMessages]
        /\ pc' \in [Drains -> Places]
    BY <1>5, <2>1 DEF Claim, Go, Statuses, Places
  <2> QED
    BY <1>5, <2>2 DEF Claim
<1>6. ASSUME NEW d \in Drains, Ask(d) PROVE TypeOK'
  <2>1. at[d] \in Messages
    BY <1>6 DEF Ask, MayEnter, Placed
  <2>2. askedAt' \in [Messages -> 0 .. MaxRuns]
    BY <1>6 DEF Ask
  <2>3. pc' \in [Drains -> Places] /\ asked' \subseteq Messages
    BY <1>6, <2>1 DEF Ask, Go, Places, InTurn
  <2> QED
    BY <1>6, <2>2, <2>3 DEF Ask
<1>7. ASSUME NEW d \in Drains, OpenRun(d) PROVE TypeOK'
  BY <1>7 DEF OpenRun, Go, Places, InTurn, RunStates, Runs
<1>8. ASSUME NEW d \in Drains, Refuse(d) \/ Note(d) PROVE TypeOK'
  <2>1. CASE Refuse(d)
    BY <2>1 DEF Refuse, Go, Places, InTurn, RunStates, Runs
  <2>2. CASE Note(d)
    BY <2>2, WatchedType DEF Note, Go, Places, Placed
  <2> QED
    BY <1>8, <2>1, <2>2
<1>9. ASSUME NEW d \in Drains, NEW s \in {"over", "parked"},
             NEW place \in {"answering", "throwing"}, RunEnds(d, s, place)
      PROVE  TypeOK'
  <2>1. run' \in [Runs -> RunStates]
    BY <1>9 DEF RunEnds, RunStates
  <2>2. pc' \in [Drains -> Places]
    BY <1>9 DEF RunEnds, Go, Places, InTurn
  <2>3. /\ seen' \in [Drains -> 0 .. MaxRuns]
        /\ mislinked' \in [Drains -> BOOLEAN]
        /\ link' \in [Messages -> 0 .. MaxRuns]
    BY <1>9, WatchedType DEF RunEnds
  <2> QED
    BY <1>9, <2>1, <2>2, <2>3 DEF RunEnds
<1>10. ASSUME NEW d \in Drains, Answer(d) PROVE TypeOK'
  <2>1. at[d] \in Messages
    BY <1>10 DEF Answer, Placed
  <2>2. replies' \in [Messages -> Nat] /\ pc' \in [Drains -> Places]
    BY <1>10, <2>1 DEF Answer, Go, Places
  <2> QED
    BY <1>10, <2>2 DEF Answer
<1>11. ASSUME NEW d \in Drains, Complete(d) PROVE TypeOK'
  <2>1. at[d] \in Messages /\ mine[d] \in 0 .. MaxRuns
    BY <1>11 DEF Complete, Placed
  <2>2. /\ status' \in [Messages -> Statuses]
        /\ link' \in [Messages -> 0 .. MaxRuns]
    BY <1>11, <2>1, SettleType DEF Complete, Statuses
  <2> QED
    BY <1>11, <2>2, LeaveType DEF Complete
<1>12. ASSUME NEW d \in Drains, CompleteRefused(d) PROVE TypeOK'
  BY <1>12 DEF CompleteRefused, Go, Places
<1>13. ASSUME NEW d \in Drains, Fail(d) PROVE TypeOK'
  <2>1. at[d] \in Messages
    BY <1>13 DEF Fail, Threw, MayEnter, Placed
  <2>2. /\ status' \in [Messages -> Statuses]
        /\ link' \in [Messages -> 0 .. MaxRuns]
    BY <1>13, <2>1, SettleType DEF Fail, Statuses, None
  <2> QED
    BY <1>13, <2>2, LeaveType DEF Fail
<1>14. ASSUME NEW d \in Drains, Watch(d) PROVE TypeOK'
  BY <1>14, WatchedType DEF Watch
<1>15. ASSUME NEW m \in Messages, Look(m) PROVE TypeOK'
  <2>1. verdict' \in {"failed", "unread"}
    BY <1>15 DEF Look, Unlinked, RecoveredAs
  <2>2. m \in 0 .. MaxMessages /\ link[m] \in 0 .. MaxRuns
    BY DEF Messages
  <2>3. looked' \in [m : 0 .. MaxMessages, run : 0 .. MaxRuns]
    BY <1>15, <2>2 DEF Look
  <2> QED
    BY <1>15, <2>1, <2>3 DEF Look, Statuses
<1>16. CASE ReadRun
  <2>1. verdict' \in {"completed", "failed", "none"}
    BY <1>16 DEF ReadRun, LinkedVerdict, RecoveredAs
  <2>2. looked' \in [m : 0 .. MaxMessages, run : 0 .. MaxRuns]
    BY <1>16 DEF ReadRun, Nothing, None
  <2> QED
    BY <1>16, <2>1, <2>2 DEF ReadRun, Statuses
<1>17. CASE Recover
  <2>1. looked.m \in Messages /\ verdict \in Statuses
    BY <1>17 DEF Recover, Examined, Statuses
  <2>2. looked.run \in 0 .. MaxRuns
    OBVIOUS
  <2>3. /\ status' \in [Messages -> Statuses]
        /\ link' \in [Messages -> 0 .. MaxRuns]
    BY <1>17, <2>1, <2>2, SettleType DEF Recover
  <2>4. looked' \in [m : 0 .. MaxMessages, run : 0 .. MaxRuns]
    BY <1>17 DEF Recover, Nothing, None
  <2> QED
    BY <1>17, <2>3, <2>4 DEF Recover
<1>18. ASSUME NEW k \in Runs, Sweep(k) \/ ParkedEnds(k) PROVE TypeOK'
  BY <1>18 DEF Sweep, ParkedEnds, RunStates
<1>19. ASSUME NEW p, Crash(p) PROVE TypeOK'
  <2>1. /\ pc' \in [Drains -> Places]
        /\ at' \in [Drains -> 0 .. MaxMessages]
        /\ mine' \in [Drains -> 0 .. MaxRuns]
        /\ seen' \in [Drains -> 0 .. MaxRuns]
    BY <1>19 DEF Crash, Places, None
  <2>2. mislinked' \in [Drains -> BOOLEAN]
    BY <1>19 DEF Crash
  <2> QED
    BY <1>19, <2>1, <2>2 DEF Crash
<1>20. CASE UNCHANGED vars
  BY <1>20 DEF vars
<1> QED
  BY <1>1, <1>2, <1>3, <1>4, <1>5, <1>6, <1>7, <1>8, <1>9, <1>10, <1>11,
     <1>12, <1>13, <1>14, <1>15, <1>16, <1>17, <1>18, <1>19, <1>20
     DEF Next, People, Turn, Recovery

-----------------------------------------------------------------------------
\* A settlement leaves no message unsent that was sent, nor sends one.
LEMMA SettleKeeps ==
    ASSUME TypeOK, NEW m \in Messages, NEW s \in {"completed", "failed"},
           NEW k, Settle(m, s, k), NEW n \in Messages
    PROVE  /\ status'[n] = "absent" <=> status[n] = "absent"
           /\ status'[n] # status[n] =>
                n = m /\ status[n] = "running" /\ status'[n] = s
<1>1. CASE status[m] = "running"
  BY <1>1 DEF Settle, TypeOK
<1>2. CASE status[m] # "running"
  BY <1>2 DEF Settle, TypeOK, queueVars
<1> QED
  BY <1>1, <1>2

\* How far a step may change the queue: one message is sent after all before
\* it, or messages that were sent change their status.
LEMMA OrderKept ==
    ASSUME SentInOrder,
           \A n \in Messages : status'[n] = "absent" <=> status[n] = "absent"
    PROVE  SentInOrder'
BY DEF SentInOrder

\* Every step keeps the order of the messages and what drains and the
\* recovery pass are about.
LEMMA NextShape ==
    ASSUME TypeOK, SentInOrder, Placed, Examined, [Next]_vars
    PROVE  SentInOrder' /\ Placed' /\ Examined'
<1> USE DEF queueVars, threadVars, runVars, drainVars, recoveryVars,
        peopleVars
<1>1. ASSUME NEW m \in Messages, Enqueue(m)
      PROVE  SentInOrder' /\ Placed' /\ Examined'
  <2>1. SentInOrder'
    BY <1>1 DEF Enqueue, SentInOrder, TypeOK, Messages
  <2> QED
    BY <1>1, <2>1 DEF Enqueue, Placed, Examined
<1>2. ASSUME NEW m \in Messages, Retry(m) \/ Cancel(m) \/ Steer(m)
      PROVE  SentInOrder' /\ Placed' /\ Examined'
  <2>1. \A n \in Messages : status'[n] = "absent" <=> status[n] = "absent"
    BY <1>2 DEF Retry, Cancel, Steer, TypeOK
  <2> QED
    BY <1>2, <2>1, OrderKept DEF Retry, Cancel, Steer, Placed, Examined
<1>3. ASSUME NEW d \in Drains, NEW m \in Messages, Claim(d, m)
      PROVE  SentInOrder' /\ Placed' /\ Examined'
  <2>1. \A n \in Messages : status'[n] = "absent" <=> status[n] = "absent"
    BY <1>3 DEF Claim, IsHead, TypeOK
  <2>2. Placed'
    BY <1>3 DEF Claim, Go, Placed, TypeOK
  <2> QED
    BY <1>3, <2>1, <2>2, OrderKept DEF Claim, Examined
<1>4. ASSUME NEW d \in Drains,
             Ask(d) \/ OpenRun(d) \/ Refuse(d) \/ Note(d)
                \/ Answer(d) \/ CompleteRefused(d) \/ Watch(d)
                \/ \E s \in {"over", "parked"}, p \in {"answering", "throwing"} :
                        RunEnds(d, s, p)
      PROVE  SentInOrder' /\ Placed' /\ Examined'
  <2>1. status' = status /\ at' = at /\ looked' = looked /\ verdict' = verdict
    BY <1>4 DEF Ask, OpenRun, Refuse, Note, Answer, CompleteRefused, Watch,
       RunEnds
  <2>2. pc[d] # "idle" /\ \A e \in Drains : e # d => pc'[e] = pc[e]
    BY <1>4 DEF Ask, OpenRun, Refuse, Note, Answer, CompleteRefused, Watch,
       RunEnds, MayEnter, Go, TypeOK
  <2> QED
    BY <2>1, <2>2, OrderKept DEF Placed, Examined
<1>5. ASSUME NEW d \in Drains, Complete(d) \/ Fail(d)
      PROVE  SentInOrder' /\ Placed' /\ Examined'
  <2>1. at[d] \in Messages
    BY <1>5 DEF Complete, Fail, Threw, MayEnter, Placed
  <2>2. \A n \in Messages : status'[n] = "absent" <=> status[n] = "absent"
    BY <1>5, <2>1, SettleKeeps DEF Complete, Fail
  <2>3. Placed'
    BY <1>5 DEF Complete, Fail, Leave, Go, Placed, TypeOK
  <2> QED
    BY <1>5, <2>2, <2>3, OrderKept DEF Complete, Fail, Examined
<1>6. ASSUME NEW m \in Messages, Look(m)
      PROVE  SentInOrder' /\ Placed' /\ Examined'
  BY <1>6, OrderKept DEF Look, Unlinked, RecoveredAs, Placed, Examined
<1>7. CASE ReadRun
  BY <1>7, OrderKept
     DEF ReadRun, LinkedVerdict, RecoveredAs, Placed, Examined
<1>8. CASE Recover
  <2>1. looked.m \in Messages /\ verdict \in {"completed", "failed"}
    BY <1>8 DEF Recover, Examined
  <2>2. \A n \in Messages : status'[n] = "absent" <=> status[n] = "absent"
    BY <1>8, <2>1, SettleKeeps DEF Recover
  <2> QED
    BY <1>8, <2>2, OrderKept DEF Recover, Placed, Examined
<1>9. ASSUME NEW k \in Runs, Sweep(k) \/ ParkedEnds(k)
      PROVE  SentInOrder' /\ Placed' /\ Examined'
  BY <1>9 DEF Sweep, ParkedEnds, SentInOrder, Placed, Examined
<1>10. ASSUME NEW p, Crash(p)
       PROVE  SentInOrder' /\ Placed' /\ Examined'
  <2>1. Placed'
    BY <1>10 DEF Crash, Placed
  <2> QED
    BY <1>10, <2>1 DEF Crash, SentInOrder, Examined
<1>11. CASE UNCHANGED vars
  BY <1>11 DEF vars, SentInOrder, Placed, Examined
<1> QED
  BY <1>1, <1>2, <1>3, <1>4, <1>5, <1>6, <1>7, <1>8, <1>9, <1>10, <1>11
     DEF Next, People, Turn, Recovery

-----------------------------------------------------------------------------
\* Answers are never taken back, and a message is completed only by one who
\* knows that it is answered.
LEMMA NextAnswered ==
    ASSUME IInv, [Next]_vars
    PROVE  Earned' /\ CompletedMeansAnswered'
<1> USE DEF IInv, TypeOK, queueVars, threadVars, runVars, drainVars,
        recoveryVars, peopleVars
<1>1. ASSUME NEW m \in Messages,
             Enqueue(m) \/ Retry(m) \/ Cancel(m) \/ Steer(m) \/ Look(m)
      PROVE  Earned' /\ CompletedMeansAnswered'
  <2>1. /\ replies' = replies /\ noted' = noted /\ pc' = pc /\ at' = at
        /\ verdict' # "completed" \/ (verdict' = verdict /\ looked' = looked)
    BY <1>1 DEF Enqueue, Retry, Cancel, Steer, Look, Unlinked, RecoveredAs
  <2>2. \A n \in Messages :
            status'[n] = "completed" => status[n] = "completed"
    BY <1>1 DEF Enqueue, Retry, Cancel, Steer, Look
  <2> QED
    BY <2>1, <2>2 DEF Earned, Answered, CompletedMeansAnswered
<1>2. ASSUME NEW d \in Drains, NEW m \in Messages, Claim(d, m)
      PROVE  Earned' /\ CompletedMeansAnswered'
  <2>1. Earned'
    BY <1>2 DEF Claim, Go, Earned, Answered
  <2>2. CompletedMeansAnswered'
    BY <1>2 DEF Claim, CompletedMeansAnswered
  <2> QED
    BY <2>1, <2>2
<1>3. ASSUME NEW d \in Drains,
             Ask(d) \/ OpenRun(d) \/ Refuse(d) \/ CompleteRefused(d)
                \/ Watch(d)
                \/ \E s \in {"over", "parked"}, p \in {"answering", "throwing"} :
                        RunEnds(d, s, p)
      PROVE  Earned' /\ CompletedMeansAnswered'
  <2>1. /\ status' = status /\ replies' = replies /\ noted' = noted
        /\ at' = at /\ verdict' = verdict /\ looked' = looked
    BY <1>3 DEF Ask, OpenRun, Refuse, CompleteRefused, Watch, RunEnds
  <2>2. \A e \in Drains : pc'[e] = "settling" => pc[e] = "settling"
    BY <1>3 DEF Ask, OpenRun, Refuse, CompleteRefused, Watch, RunEnds, Go
  <2> QED
    BY <2>1, <2>2 DEF Earned, Answered, CompletedMeansAnswered
<1>4. ASSUME NEW d \in Drains, Note(d)
      PROVE  Earned' /\ CompletedMeansAnswered'
  <2>1. Earned'
    BY <1>4 DEF Note, Go, Earned, Answered
  <2>2. CompletedMeansAnswered'
    BY <1>4 DEF Note, CompletedMeansAnswered
  <2> QED
    BY <2>1, <2>2
<1>5. ASSUME NEW d \in Drains, Answer(d)
      PROVE  Earned' /\ CompletedMeansAnswered'
  <2>1. at[d] \in Messages
    BY <1>5 DEF Answer, Placed
  <2>2. /\ replies'[at[d]] > 0
        /\ \A n \in Messages : replies[n] > 0 => replies'[n] > 0
    BY <1>5, <2>1 DEF Answer
  <2>3. Earned'
    BY <1>5, <2>2 DEF Answer, Go, Earned, Answered, Placed, Examined
  <2>4. CompletedMeansAnswered'
    BY <1>5, <2>2 DEF Answer, CompletedMeansAnswered
  <2> QED
    BY <2>3, <2>4
<1>6. ASSUME NEW d \in Drains, Complete(d) \/ Fail(d)
      PROVE  Earned' /\ CompletedMeansAnswered'
  <2>1. at[d] \in Messages
    BY <1>6 DEF Complete, Fail, Threw, MayEnter, Placed
  <2>2. /\ replies' = replies /\ noted' = noted
        /\ verdict' = verdict /\ looked' = looked
        /\ \A e \in Drains : pc'[e] = "settling" =>
                pc[e] = "settling" /\ at'[e] = at[e]
    BY <1>6 DEF Complete, Fail, Leave, Go
  <2>3. \A n \in Messages : status'[n] = "completed" =>
            \/ status[n] = "completed"
            \/ n = at[d] /\ pc[d] = "settling"
    BY <1>6, <2>1, SettleKeeps DEF Complete, Fail
  <2> QED
    BY <2>2, <2>3 DEF Earned, Answered, CompletedMeansAnswered
<1>7. CASE ReadRun
  <2>1. verdict' = "completed" =>
            looked' = looked /\ replies[looked.m] > 0
    BY <1>7 DEF ReadRun, LinkedVerdict, RecoveredAs
  <2> QED
    BY <1>7, <2>1 DEF ReadRun, Earned, Answered, CompletedMeansAnswered
<1>8. CASE Recover
  <2>1. looked.m \in Messages /\ verdict \in {"completed", "failed"}
    BY <1>8 DEF Recover, Examined
  <2>2. \A n \in Messages : status'[n] = "completed" =>
            \/ status[n] = "completed"
            \/ n = looked.m /\ verdict = "completed"
    BY <1>8, <2>1, SettleKeeps DEF Recover
  <2> QED
    BY <1>8, <2>2 DEF Recover, Earned, Answered, CompletedMeansAnswered
<1>9. ASSUME NEW k \in Runs, Sweep(k) \/ ParkedEnds(k)
      PROVE  Earned' /\ CompletedMeansAnswered'
  BY <1>9 DEF Sweep, ParkedEnds, Earned, Answered, CompletedMeansAnswered
<1>10. ASSUME NEW p, Crash(p)
       PROVE  Earned' /\ CompletedMeansAnswered'
  <2>1. \A e \in Drains : pc'[e] = "settling" =>
            pc[e] = "settling" /\ at'[e] = at[e]
    BY <1>10 DEF Crash
  <2> QED
    BY <1>10, <2>1 DEF Crash, Earned, Answered, CompletedMeansAnswered
<1>11. CASE UNCHANGED vars
  BY <1>11 DEF vars, Earned, Answered, CompletedMeansAnswered
<1> QED
  BY <1>1, <1>2, <1>3, <1>4, <1>5, <1>6, <1>7, <1>8, <1>9, <1>10, <1>11
     DEF Next, People, Turn, Recovery

-----------------------------------------------------------------------------
\* A step that changes the status of one message is a move of its stage.
LEMMA StageMoves ==
    ASSUME TypeOK, NEW m \in Messages, NEW s \in Statuses,
           status' = [status EXCEPT ![m] = s],
           NEW from, NEW to, Stage(m) = from, Stage(m)' = to
    PROVE  Fifo!Move(m, from, to)
<1>1. \A n \in Messages : n # m => Stage(n)' = Stage(n)
  BY DEF TypeOK, Stage
<1>2. [n \in Messages |-> Stage(n)]' =
        [[n \in Messages |-> Stage(n)] EXCEPT ![m] = to]
  BY <1>1
<1> QED
  BY <1>2 DEF Fifo!Move

\* A settlement serves its message to the end, blocks the queue with it, or
\* changes nothing.
LEMMA SettleMoves ==
    ASSUME TypeOK, NEW m \in Messages, NEW s \in {"completed", "failed"},
           NEW k, Settle(m, s, k)
    PROVE  \/ Fifo!Move(m, "serving", "gone")
           \/ Fifo!Move(m, "serving", "blocked")
           \/ status' = status
<1>1. CASE status[m] = "running"
  <2>1. status' = [status EXCEPT ![m] = s] /\ s \in Statuses
    BY <1>1 DEF Settle, Statuses
  <2>2. Stage(m) = "serving"
    BY <1>1 DEF Stage
  <2>3. CASE s = "completed"
    <3>1. Stage(m)' = "gone"
      BY <2>1, <2>3 DEF Stage, TypeOK
    <3> QED
      BY <2>1, <2>2, <3>1, StageMoves
  <2>4. CASE s = "failed"
    <3>1. Stage(m)' = "blocked"
      BY <2>1, <2>4 DEF Stage, TypeOK
    <3> QED
      BY <2>1, <2>2, <3>1, StageMoves
  <2> QED
    BY <2>3, <2>4
<1>2. CASE status[m] # "running"
  BY <1>2 DEF Settle, queueVars
<1> QED
  BY <1>1, <1>2

\* Every step is a step of the abstract queue or leaves it alone.
LEMMA NextRefines ==
    ASSUME IInv, [Next]_vars
    PROVE  Fifo!Next \/ status' = status
<1> USE DEF IInv
<1>1. ASSUME NEW m \in Messages, Enqueue(m) PROVE Fifo!Next
  <2>1. Stage(m) = "unsent" /\ Stage(m)' = "waiting"
    BY <1>1 DEF Enqueue, Stage, TypeOK
  <2>2. Fifo!Move(m, "unsent", "waiting")
    BY <1>1, <2>1, StageMoves DEF Enqueue, Statuses
  <2>3. \A n \in Fifo!Earlier(m) :
            [k \in Messages |-> Stage(k)][n] # "unsent"
    BY <1>1 DEF Enqueue, Fifo!Earlier, Stage
  <2> QED
    BY <2>2, <2>3 DEF Fifo!Send, Fifo!Next
<1>2. ASSUME NEW m \in Messages, Retry(m) PROVE Fifo!Next
  <2>1. Stage(m) = "blocked" /\ Stage(m)' = "waiting"
    BY <1>2 DEF Retry, Stage, TypeOK
  <2>2. Fifo!Move(m, "blocked", "waiting")
    BY <1>2, <2>1, StageMoves DEF Retry, Statuses
  <2> QED
    BY <2>2 DEF Fifo!Next
<1>3. ASSUME NEW m \in Messages, Cancel(m) \/ Steer(m) PROVE Fifo!Next
  <2>1. /\ Stage(m) \in {"waiting", "blocked"} /\ Stage(m)' = "gone"
        /\ status' = [status EXCEPT ![m] = "cancelled"]
    BY <1>3 DEF Cancel, Steer, Stage, TypeOK
  <2>2. \/ Fifo!Move(m, "waiting", "gone")
        \/ Fifo!Move(m, "blocked", "gone")
    BY <2>1, StageMoves DEF Statuses
  <2> QED
    BY <2>2 DEF Fifo!Next
<1>4. ASSUME NEW d \in Drains, NEW m \in Messages, Claim(d, m)
      PROVE  Fifo!Next
  <2>1. Stage(m) = "waiting" /\ Stage(m)' = "serving"
    BY <1>4 DEF Claim, IsHead, Stage, TypeOK
  <2>2. Fifo!Move(m, "waiting", "serving")
    BY <1>4, <2>1, StageMoves DEF Claim, Statuses
  <2>3. ASSUME NEW n \in Fifo!Earlier(m) PROVE Stage(n) = "gone"
    <3>1. n \in Messages /\ n < m
      BY DEF Fifo!Earlier
    <3>2. status[n] \notin {"queued", "failed", "running"}
      BY <1>4, <3>1 DEF Claim, IsHead
    <3>3. status[n] # "absent"
      BY <1>4, <3>1 DEF Claim, IsHead, SentInOrder
    <3> QED
      BY <3>1, <3>2, <3>3 DEF Stage, TypeOK, Statuses
  <2>4. \A n \in Fifo!Earlier(m) : [k \in Messages |-> Stage(k)][n] = "gone"
    BY <2>3 DEF Fifo!Earlier
  <2> QED
    BY <2>2, <2>4 DEF Fifo!Serve, Fifo!Next
<1>5. ASSUME NEW d \in Drains, Complete(d) \/ Fail(d)
      PROVE  Fifo!Next \/ status' = status
  <2>1. at[d] \in Messages
    BY <1>5 DEF Complete, Fail, Threw, MayEnter, Placed
  <2> QED
    BY <1>5, <2>1, SettleMoves DEF Complete, Fail, Fifo!Next
<1>6. CASE Recover
  <2>1. looked.m \in Messages /\ verdict \in {"completed", "failed"}
    BY <1>6 DEF Recover, Examined
  <2> QED
    BY <1>6, <2>1, SettleMoves DEF Recover, Fifo!Next
<1>7. ASSUME NEW d \in Drains,
             Ask(d) \/ OpenRun(d) \/ Refuse(d) \/ Note(d)
                \/ Answer(d) \/ CompleteRefused(d) \/ Watch(d)
                \/ \E s \in {"over", "parked"}, p \in {"answering", "throwing"} :
                        RunEnds(d, s, p)
      PROVE  status' = status
  BY <1>7 DEF Ask, OpenRun, Refuse, Note, Answer, CompleteRefused, Watch,
     RunEnds, queueVars
<1>8. ASSUME NEW m \in Messages, Look(m) PROVE status' = status
  BY <1>8 DEF Look, queueVars
<1>9. ASSUME ReadRun PROVE status' = status
  BY <1>9 DEF ReadRun, queueVars
<1>10. ASSUME NEW k \in Runs, Sweep(k) \/ ParkedEnds(k)
       PROVE  status' = status
  BY <1>10 DEF Sweep, ParkedEnds, queueVars
<1>11. ASSUME NEW p, Crash(p) PROVE status' = status
  BY <1>11 DEF Crash, queueVars
<1>12. CASE UNCHANGED vars
  BY <1>12 DEF vars
<1> QED
  BY <1>1, <1>2, <1>3, <1>4, <1>5, <1>6, <1>7, <1>8, <1>9, <1>10, <1>11,
     <1>12 DEF Next, People, Turn, Recovery

\* All of the invariant along every behaviour.
LEMMA Invariance == Spec => []IInv
<1>1. IInv /\ [Next]_vars => IInv'
  BY NextType, NextShape, NextAnswered DEF IInv
<1> QED
  BY InitInvariant, <1>1, PTL DEF Spec

\* The queue, the transcript, the runs, the drains and the recovery pass keep
\* their types.
THEOREM TypeCorrect == Spec => []TypeOK
<1>1. IInv => TypeOK
  BY DEF IInv
<1> QED
  BY Invariance, <1>1, PTL

\* Whoever completes a message, its own drain or the recovery pass, the
\* transcript answers it.
THEOREM CompletedMeansAnsweredTheorem == Spec => []CompletedMeansAnswered
<1>1. IInv => CompletedMeansAnswered
  BY DEF IInv
<1> QED
  BY Invariance, <1>1, PTL

\* The queue of the code is the abstract queue: in order, one at a time, and
\* stopped by a failure, for any drains in any processes.
THEOREM FifoTheorem == Spec => FifoSpec
<1>1. Init => Fifo!Init
  BY DEF Init, Fifo!Init, Stage
<1>2. IInv /\ [Next]_vars => [Fifo!Next]_([m \in Messages |-> Stage(m)])
  <2>1. status' = status =>
            UNCHANGED [m \in Messages |-> Stage(m)]
    BY DEF Stage
  <2> QED
    BY <2>1, NextRefines
<1> QED
  BY Invariance, <1>1, <1>2, PTL DEF Spec, FifoSpec, Fifo!Spec

-----------------------------------------------------------------------------
\* The drains that owe an answer are finitely many.
LEMMA OwingFinite ==
    ASSUME NEW m
    PROVE  IsFiniteSet(Owing(m)) /\ Cardinality(Owing(m)) \in Nat
BY DrainsAssumption, FS_Subset, FS_CardinalityType DEF Owing

\* A step that gives no drain a message, answers none and lets none wait
\* anew but for a retry keeps the account.
LEMMA AccountKept ==
    ASSUME TypeOK, Accounted, replies' = replies,
           retried' \in [Messages -> Nat],
           \A m \in Messages : Due(m)' - retried'[m] <= Due(m) - retried[m],
           \A m \in Messages : Owing(m)' \subseteq Owing(m)
    PROVE  Accounted'
<1> SUFFICES ASSUME NEW m \in Messages
             PROVE  replies'[m] + Cardinality(Owing(m)') + Due(m)'
                        <= 1 + retried'[m]
  BY DEF Accounted
<1>1. Cardinality(Owing(m)') <= Cardinality(Owing(m))
  BY OwingFinite, FS_Subset
<1>2. /\ Cardinality(Owing(m)) \in Nat /\ Cardinality(Owing(m)') \in Nat
      /\ Due(m) \in Nat /\ Due(m)' \in Nat
  <2>1. IsFiniteSet(Owing(m)')
    BY OwingFinite, FS_Subset
  <2> QED
    BY <2>1, OwingFinite, FS_CardinalityType DEF Due
<1>3. replies[m] + Cardinality(Owing(m)) + Due(m) <= 1 + retried[m]
  BY DEF Accounted
<1>4. Due(m)' - retried'[m] <= Due(m) - retried[m]
  OBVIOUS
<1> QED
  BY <1>1, <1>2, <1>3, <1>4 DEF TypeOK

\* Every step keeps the account of the answers to come.
LEMMA NextAccounted ==
    ASSUME IInv, Accounted, [Next]_vars
    PROVE  Accounted'
<1> USE DEF IInv, queueVars, threadVars, runVars, drainVars, recoveryVars,
        peopleVars
<1>1. ASSUME NEW m \in Messages,
             Enqueue(m) \/ Retry(m) \/ Cancel(m) \/ Steer(m)
      PROVE  Accounted'
  <2>1. \A n \in Messages : Owing(n)' = Owing(n)
    BY <1>1 DEF Enqueue, Retry, Cancel, Steer, Owing
  <2>2. \A n \in Messages : Due(n)' - retried'[n] <= Due(n) - retried[n]
    BY <1>1 DEF Enqueue, Retry, Cancel, Steer, Due, TypeOK
  <2>3. retried' \in [Messages -> Nat] /\ replies' = replies
    BY <1>1 DEF Enqueue, Retry, Cancel, Steer, TypeOK
  <2> QED
    BY <2>1, <2>2, <2>3, AccountKept
<1>2. ASSUME NEW d \in Drains, NEW m \in Messages, Claim(d, m)
      PROVE  Accounted'
  <2>1. Owing(m)' = Owing(m) \cup {d} /\ d \notin Owing(m)
    BY <1>2 DEF Claim, Go, Owing, InTurn, TypeOK
  <2>2. Cardinality(Owing(m)') = Cardinality(Owing(m)) + 1
    BY <2>1, OwingFinite, FS_AddElement
  <2>3. Due(m) = 1 /\ Due(m)' = 0
    BY <1>2 DEF Claim, IsHead, Due, TypeOK
  <2>4. \A n \in Messages : n # m =>
            Owing(n)' = Owing(n) /\ Due(n)' = Due(n)
    BY <1>2 DEF Claim, Go, Owing, InTurn, Due, TypeOK
  <2>5. replies' = replies /\ retried' = retried
    BY <1>2 DEF Claim
  <2>6. replies[m] + Cardinality(Owing(m)') + Due(m)' <= 1 + retried[m]
    BY <2>2, <2>3, OwingFinite DEF Accounted, TypeOK
  <2> QED
    BY <2>4, <2>5, <2>6 DEF Accounted
<1>3. ASSUME NEW d \in Drains, Answer(d) PROVE Accounted'
  <2>1. PICK m \in Messages : m = at[d]
    BY <1>3 DEF Answer, Placed
  <2>2. Owing(m)' = Owing(m) \ {d} /\ d \in Owing(m)
    BY <1>3, <2>1 DEF Answer, Go, Owing, InTurn, TypeOK
  <2>3. Cardinality(Owing(m)') = Cardinality(Owing(m)) - 1
    BY <2>2, OwingFinite, FS_RemoveElement
  <2>4. /\ \A n \in Messages : Due(n)' = Due(n)
        /\ \A n \in Messages : n # m =>
                Owing(n)' = Owing(n) /\ replies'[n] = replies[n]
        /\ replies'[m] = replies[m] + 1 /\ retried' = retried
    BY <1>3, <2>1 DEF Answer, Go, Owing, InTurn, Due, TypeOK
  <2>5. Due(m) \in Nat /\ Due(m)' = Due(m)
    BY <2>1, <2>4 DEF Due
  <2>6. replies'[m] + Cardinality(Owing(m)') + Due(m)' <= 1 + retried[m]
    BY <2>1, <2>3, <2>4, <2>5, OwingFinite DEF Accounted, TypeOK
  <2> QED
    BY <2>4, <2>6 DEF Accounted
<1>4. ASSUME NEW d \in Drains,
             Ask(d) \/ OpenRun(d) \/ Refuse(d) \/ Note(d)
                \/ CompleteRefused(d) \/ Watch(d)
                \/ \E s \in {"over", "parked"}, p \in {"answering", "throwing"} :
                        RunEnds(d, s, p)
      PROVE  Accounted'
  <2>1. /\ status' = status /\ replies' = replies /\ at' = at
        /\ retried' = retried
    BY <1>4 DEF Ask, OpenRun, Refuse, Note, CompleteRefused, Watch, RunEnds
  <2>2. \A e \in Drains : pc'[e] \in {"claimed"} \cup InTurn =>
            pc[e] \in {"claimed"} \cup InTurn
    BY <1>4 DEF Ask, OpenRun, Refuse, Note, CompleteRefused, Watch, RunEnds,
       MayEnter, Go, InTurn, TypeOK
  <2>3. \A n \in Messages : Owing(n)' \subseteq Owing(n)
    BY <2>1, <2>2 DEF Owing
  <2>4. /\ \A n \in Messages : Due(n)' - retried'[n] <= Due(n) - retried[n]
        /\ retried' \in [Messages -> Nat]
    BY <2>1 DEF Due, TypeOK
  <2> QED
    BY <2>1, <2>3, <2>4, AccountKept
<1>5. ASSUME NEW d \in Drains, Complete(d) \/ Fail(d) PROVE Accounted'
  <2>1. at[d] \in Messages
    BY <1>5 DEF Complete, Fail, Threw, MayEnter, Placed
  <2>2. \A n \in Messages : Owing(n)' \subseteq Owing(n)
    BY <1>5 DEF Complete, Fail, Leave, Go, Owing, InTurn, TypeOK
  <2>3. \A n \in Messages : status'[n] = status[n]
            \/ status'[n] \in {"completed", "failed"}
    BY <1>5, <2>1, SettleKeeps DEF Complete, Fail
  <2>4. replies' = replies /\ retried' = retried
    BY <1>5 DEF Complete, Fail
  <2>5. /\ \A n \in Messages : Due(n)' - retried'[n] <= Due(n) - retried[n]
        /\ retried' \in [Messages -> Nat]
    BY <2>3, <2>4 DEF Due, TypeOK
  <2> QED
    BY <2>2, <2>4, <2>5, AccountKept
<1>6. CASE Recover
  <2>1. looked.m \in Messages /\ verdict \in {"completed", "failed"}
    BY <1>6 DEF Recover, Examined
  <2>2. \A n \in Messages : status'[n] = status[n]
            \/ status'[n] \in {"completed", "failed"}
    BY <1>6, <2>1, SettleKeeps DEF Recover
  <2>3. /\ replies' = replies /\ retried' = retried
        /\ \A n \in Messages : Owing(n)' = Owing(n)
    BY <1>6 DEF Recover, Owing
  <2>4. /\ \A n \in Messages : Due(n)' - retried'[n] <= Due(n) - retried[n]
        /\ retried' \in [Messages -> Nat]
    BY <2>2, <2>3 DEF Due, TypeOK
  <2> QED
    BY <2>3, <2>4, AccountKept
<1>7. ASSUME NEW p, Crash(p) PROVE Accounted'
  <2>1. \A n \in Messages : Owing(n)' \subseteq Owing(n)
    BY <1>7 DEF Crash, Owing, InTurn
  <2>2. /\ \A n \in Messages : Due(n)' - retried'[n] <= Due(n) - retried[n]
        /\ retried' \in [Messages -> Nat] /\ replies' = replies
    BY <1>7 DEF Crash, Due, TypeOK
  <2> QED
    BY <2>1, <2>2, AccountKept
<1>8. CASE ReadRun \/ UNCHANGED vars
  BY <1>8 DEF ReadRun, vars, Accounted, Owing, Due
<1>9. ASSUME NEW m \in Messages, Look(m) PROVE Accounted'
  BY <1>9 DEF Look, Accounted, Owing, Due
<1>10. ASSUME NEW k \in Runs, Sweep(k) \/ ParkedEnds(k) PROVE Accounted'
  BY <1>10 DEF Sweep, ParkedEnds, Accounted, Owing, Due
<1> QED
  BY <1>1, <1>2, <1>3, <1>4, <1>5, <1>6, <1>7, <1>8, <1>9, <1>10
     DEF Next, People, Turn, Recovery

\* The account is kept along every behaviour.
LEMMA AccountHolds == Spec => []Accounted
<1>1. Init => Accounted
  <2> SUFFICES ASSUME Init PROVE Accounted
    OBVIOUS
  <2>1. \A m \in Messages : Owing(m) = {} /\ Due(m) = 1
    BY DEF Init, Owing, InTurn, Due
  <2>2. Cardinality({}) = 0
    BY FS_EmptySet
  <2>3. \A m \in Messages : Cardinality(Owing(m)) = 0
    BY <2>1, <2>2
  <2>4. \A m \in Messages : replies[m] = 0 /\ retried[m] = 0
    BY DEF Init
  <2> QED
    BY <2>1, <2>3, <2>4 DEF Accounted
<1>2. IInv /\ Accounted /\ [Next]_vars => Accounted'
  BY NextAccounted
<1> QED
  BY Invariance, <1>1, <1>2, PTL DEF Spec

\* Only a person's retry makes an agent answer a message again.
THEOREM AnsweredOncePerRequestTheorem == Spec => []AnsweredOncePerRequest
<1>1. IInv /\ Accounted => AnsweredOncePerRequest
  <2> SUFFICES ASSUME IInv, Accounted, NEW m \in Messages
               PROVE  replies[m] <= 1 + retried[m]
    BY DEF AnsweredOncePerRequest
  <2>1. Cardinality(Owing(m)) \in Nat /\ Due(m) \in Nat
    BY OwingFinite DEF Due
  <2> QED
    BY <2>1 DEF Accounted, IInv, TypeOK
<1> QED
  BY Invariance, AccountHolds, <1>1, PTL

-----------------------------------------------------------------------------
(* What OneTurnAtATime leaves true.                                        *)

\* One message is under way, and one turn in each process.
OneUnderWay ==
    \A m, n \in Messages :
        status[m] = "running" /\ status[n] = "running" => m = n
OneTurnEach ==
    \A d, e \in Drains :
        (ProcessOf[d] = ProcessOf[e] /\ pc[d] \in InTurn /\ pc[e] \in InTurn)
            => d = e

\* Only a claim puts a message under way.
LEMMA NextOneUnderWay ==
    ASSUME IInv, OneUnderWay, [Next]_vars
    PROVE  OneUnderWay'
<1> USE DEF OneUnderWay, IInv, TypeOK, queueVars
<1>1. ASSUME NEW d \in Drains, NEW m \in Messages, Claim(d, m)
      PROVE  OneUnderWay'
  BY <1>1 DEF Claim
<1>2. ASSUME \A m \in Messages : status'[m] = "running" => status[m] = "running"
      PROVE  OneUnderWay'
  BY <1>2
<1>3. CASE People
  BY <1>2, <1>3 DEF People, Enqueue, Retry, Cancel, Steer
<1>4. ASSUME NEW d \in Drains, Turn(d) \/ Watch(d) PROVE OneUnderWay'
  BY <1>2, <1>4 DEF Turn, Ask, OpenRun, Refuse, Note, RunEnds, Answer, Complete,
     CompleteRefused, Fail, Settle, Watch
<1>5. CASE Recovery
  BY <1>2, <1>5 DEF Recovery, Look, ReadRun, Recover, Settle, Examined
<1>6. CASE \/ \E k \in Runs : Sweep(k) \/ ParkedEnds(k)
           \/ \E p \in {ProcessOf[d] : d \in Drains} : Crash(p)
           \/ UNCHANGED vars
  BY <1>6 DEF Sweep, ParkedEnds, Crash, vars
<1> QED
  BY <1>1, <1>3, <1>4, <1>5, <1>6 DEF Next

\* serializeByThread lets a turn of the process in when there is none.
LEMMA NextOneTurnEach ==
    ASSUME IInv, OneTurnEach, [Next]_vars
    PROVE  OneTurnEach'
<1> USE DEF OneTurnEach, IInv, TypeOK, Go, drainVars
<1>1. ASSUME \A d \in Drains : pc'[d] \in InTurn => pc[d] \in InTurn
      PROVE  OneTurnEach'
  BY <1>1
<1>2. ASSUME NEW d \in Drains, Ask(d) PROVE OneTurnEach'
  <2>1. \A e \in Drains : ProcessOf[e] = ProcessOf[d] => pc[e] \notin InTurn
    BY <1>2 DEF Ask, MayEnter
  <2>2. pc' = [pc EXCEPT ![d] = "asking"]
    BY <1>2 DEF Ask
  <2> QED
    BY <2>1, <2>2
<1>3. ASSUME NEW d \in Drains, Turn(d), ~ Ask(d) PROVE OneTurnEach'
  BY <1>1, <1>3 DEF Turn, OpenRun, Refuse, Note, RunEnds, Answer, Complete,
     CompleteRefused, Fail, Leave, InTurn
<1>4. ASSUME NEW d \in Drains, NEW m \in Messages, Claim(d, m)
      PROVE  OneTurnEach'
  BY <1>1, <1>4 DEF Claim, InTurn
<1>5. ASSUME NEW p, Crash(p) PROVE OneTurnEach'
  BY <1>1, <1>5 DEF Crash, InTurn
<1>6. CASE \/ People \/ Recovery \/ \E d \in Drains : Watch(d)
           \/ \E k \in Runs : Sweep(k) \/ ParkedEnds(k)
           \/ UNCHANGED vars
  <2>1. UNCHANGED pc
    BY <1>6 DEF People, Enqueue, Retry, Cancel, Steer, Recovery, Look,
       ReadRun, Recover, Watch, Sweep, ParkedEnds, vars
  <2> QED
    BY <2>1
<1> QED
  BY <1>2, <1>3, <1>4, <1>5, <1>6 DEF Next

\* Two turns are at work at once only in two processes, and only where the
\* recovery pass has settled a message under one of them: nothing else leads
\* to the finding of chat_two_turns.
THEOREM OverlapMeansOverruledTheorem == Spec => []OverlapMeansOverruled
<1>1. Init => OneUnderWay /\ OneTurnEach
  BY DEF Init, OneUnderWay, OneTurnEach, InTurn
<1>2. IInv /\ OneUnderWay /\ OneTurnEach /\ [Next]_vars
        => OneUnderWay' /\ OneTurnEach'
  BY NextOneUnderWay, NextOneTurnEach
<1>3. IInv /\ Accounted /\ OneUnderWay /\ OneTurnEach => OverlapMeansOverruled
  <2> SUFFICES ASSUME IInv, Accounted, OneUnderWay, OneTurnEach,
                      NEW d \in Drains, NEW e \in Drains, d # e,
                      pc[d] \in InTurn, pc[e] \in InTurn
               PROVE  /\ ProcessOf[d] # ProcessOf[e]
                      /\ \/ status[at[d]] # "running"
                         \/ status[at[e]] # "running"
                         \/ at[d] = at[e] /\ retried[at[d]] > 0
    BY DEF OverlapMeansOverruled
  <2>1. ProcessOf[d] # ProcessOf[e]
    BY DEF OneTurnEach
  <2>2. at[d] \in Messages /\ at[e] \in Messages
    BY DEF IInv, Placed, InTurn
  <2>3. ASSUME status[at[d]] = "running", status[at[e]] = "running"
        PROVE  at[d] = at[e] /\ retried[at[d]] > 0
    <3>1. at[d] = at[e]
      BY <2>2, <2>3 DEF OneUnderWay
    <3>2. {d, e} \subseteq Owing(at[d])
      BY <3>1 DEF Owing
    <3>3. Cardinality({d, e}) = 2
      <4>1. Cardinality({d}) = 1 /\ IsFiniteSet({d})
        BY FS_Singleton
      <4>2. {d, e} = {d} \cup {e}
        OBVIOUS
      <4> QED
        BY <4>1, <4>2, FS_AddElement
    <3>4. 2 <= Cardinality(Owing(at[d])) /\ Cardinality(Owing(at[d])) \in Nat
      BY <3>2, <3>3, OwingFinite, FS_Subset
    <3>5. replies[at[d]] + Cardinality(Owing(at[d])) + Due(at[d])
            <= 1 + retried[at[d]]
      BY <2>2 DEF Accounted
    <3>6. /\ Due(at[d]) \in Nat
          /\ replies[at[d]] \in Nat /\ retried[at[d]] \in Nat
      BY <2>2 DEF Due, IInv, TypeOK
    <3> QED
      BY <3>1, <3>4, <3>5, <3>6
  <2> QED
    BY <2>1, <2>3
<1> QED
  BY <1>1, <1>2, <1>3, Invariance, AccountHolds, PTL DEF Spec
=============================================================================
