------------------------ MODULE BackgroundWorkProofs ------------------------
(***************************************************************************)
(* The safety of the background work, for any rows, slots and bounds.      *)
(*                                                                         *)
(* NextPlaced keeps the types and the rows executors are at.  NextMoves    *)
(* then says, once for all actions, what a step may do to a run and to an  *)
(* executor; the other lemmas of this module reason from these moves.      *)
(*  - A run of a duty becomes present by a claim alone; a claim sees the   *)
(*    unfinished runs, and records when it passed other work.              *)
(*  - A duty that is on has a run left; what is charged for grows by what  *)
(*    is claimed, one at a time.                                           *)
(*  - A claimed occurrence is never due again; a child has one job, and is *)
(*    begun without an attempt and running, which its beginning ends.      *)
(*  - Mail goes out at the end of a run, and delivered is set from it.     *)
(*  - An assignment waits for a claim unmarked before it was ever started, *)
(*    marked once it was; only settling it, or giving it up, takes the    *)
(*    mark away.                                                           *)
(***************************************************************************)
EXTENDS BackgroundWork, FiniteSetTheorems, TLAPS

\* A duty's occurrences are scheduled up to its end date, and the one it waits
\* for is the last that was scheduled.
ScheduleKnown ==
    \A d \in Duties : issued[d] <= LastOccurrence /\ due[d] \in {0, issued[d]}

\* An executor with a run has its row, and one that claimed anything but an
\* assignment knows which row it will have.
RowsKnown ==
    \A e \in Executors :
        /\ pc[e] \notin {"idle", "claimed"} =>
               At(e) \in Rows /\ run[At(e)] # "none"
        /\ pc[e] = "claimed" =>
               IF e = Resumer THEN At(e) \in Rows /\ run[At(e)] # "none"
               ELSE item[e] \in Assignments \/ At(e) \in Rows

Placed == TypeOK /\ ScheduleKnown /\ RowsKnown

-----------------------------------------------------------------------------
LEMMA NothingIsItem == Nothing \in Items
  BY KindsAssumption DEF Nothing

\* The initial states have their types.
LEMMA InitPlaced == Init => Placed
<1> SUFFICES ASSUME Init PROVE Placed
  OBVIOUS
<1> USE BoundsAssumption, KindsAssumption, NothingIsItem DEF Init
<1>1. TypeOK
  <2>1. /\ on \in [Duties -> BOOLEAN] /\ count \in [Duties -> Nat]
        /\ due \in [Duties -> 0 .. MaxNumber]
        /\ issued \in [Duties -> 0 .. MaxNumber]
        /\ reopened \in [Duties -> Nat]
    OBVIOUS
  <2>2. /\ status \in [Assignments -> AssignmentStates]
        /\ named \in [Assignments -> 0 .. MaxNumber]
        /\ marked \subseteq Assignments
        /\ run \in [Rows -> RunStates]
    BY DEF AssignmentStates, RunStates, Unfinished
  <2>3. /\ attempt \subseteq Children /\ sent \subseteq Rows
        /\ queue \subseteq Jobs /\ kept \subseteq Jobs
        /\ employed \in BOOLEAN /\ resumes \in Nat /\ faults \in Nat
        /\ begun \in [Rows -> Nat]
        /\ resumed \subseteq Children /\ hidden \subseteq Rows
        /\ revived \subseteq Assignments /\ refusals \in [Items -> Nat]
    OBVIOUS
  <2>4. /\ pc \in [Executors -> Places] /\ outcome \in [Executors -> Outcomes]
        /\ item \in [Executors -> Items]
        /\ nth \in [Executors -> 0 .. MaxNumber]
    BY DEF Places, Outcomes
  <2> QED
    BY <2>1, <2>2, <2>3, <2>4 DEF TypeOK
<1>2. ScheduleKnown
  BY DEF ScheduleKnown
<1>3. RowsKnown
  BY DEF RowsKnown
<1> QED
  BY <1>1, <1>2, <1>3 DEF Placed

\* A step that only puts a job in the queue's memory.
LEMMA JobKept ==
    ASSUME TypeOK, NEW j \in Jobs, NEW awaited
    PROVE  Remembered(j, awaited) \subseteq Jobs
  BY DEF TypeOK, Remembered

\* What leaving does to the types.
LEMMA LeaveType ==
    ASSUME TypeOK, NEW e \in Executors, Leave(e)
    PROVE  /\ queue' \subseteq Jobs /\ kept' \subseteq Jobs
           /\ pc' \in [Executors -> Places] /\ item' \in [Executors -> Items]
           /\ nth' \in [Executors -> 0 .. MaxNumber]
           /\ outcome' \in [Executors -> Outcomes]
<1>1. Held(e) \in Jobs
  BY BoundsAssumption DEF TypeOK, Held, Jobs
<1>2. kept' \subseteq Jobs
  BY <1>1, JobKept DEF Leave, TypeOK
<1> QED
  BY <1>2, NothingIsItem, BoundsAssumption
     DEF Leave, TypeOK, Places, Outcomes

\* And returning to the caller.
LEMMA ReturnType ==
    ASSUME TypeOK, NEW e \in Executors, NEW o \in Outcomes, Return(e, o)
    PROVE  /\ queue' \subseteq Jobs /\ kept' \subseteq Jobs
           /\ pc' \in [Executors -> Places] /\ item' \in [Executors -> Items]
           /\ nth' \in [Executors -> 0 .. MaxNumber]
           /\ outcome' \in [Executors -> Outcomes]
<1>1. CASE item[e] \in Assignments
  BY <1>1 DEF Return, TypeOK, queueVars, Places
<1>2. CASE item[e] \notin Assignments
  BY <1>2, LeaveType DEF Return
<1> QED
  BY <1>1, <1>2

\* What comes after an occurrence.
LEMMA FollowingType ==
    ASSUME TypeOK, ScheduleKnown, NEW d \in Duties, NEW c \in Nat
    PROVE  /\ Following(d, c) \in {0, issued[d] + 1}
           /\ Following(d, c) \in 0 .. LastOccurrence
           /\ Following(d, c) # 0 => c < MaxRuns
  BY BoundsAssumption DEF TypeOK, ScheduleKnown, Following

LEMMA RescheduleType ==
    ASSUME TypeOK, ScheduleKnown, NEW d \in Duties,
           NEW next \in 0 .. LastOccurrence,
           next \in {0, issued[d] + 1}, Reschedule(d, next)
    PROVE  /\ due' \in [Duties -> 0 .. MaxNumber]
           /\ issued' \in [Duties -> 0 .. MaxNumber]
           /\ on' \in [Duties -> BOOLEAN]
           /\ ScheduleKnown'
<1> USE BoundsAssumption DEF TypeOK, Reschedule
<1>1. due' \in [Duties -> 0 .. MaxNumber] /\ on' \in [Duties -> BOOLEAN]
  OBVIOUS
<1>2. issued' \in [Duties -> 0 .. MaxNumber]
  OBVIOUS
<1>3. ScheduleKnown'
  BY DEF ScheduleKnown
<1> QED
  BY <1>1, <1>2, <1>3

\* RowsKnown is kept when an executor leaves and no run is forgotten.
LEMMA LeaveRows ==
    ASSUME Placed, NEW e \in Executors, Leave(e),
           \A r \in Rows : run[r] # "none" => run'[r] # "none"
    PROVE  RowsKnown'
  BY DEF Placed, TypeOK, RowsKnown, Leave, At

LEMMA ReturnRows ==
    ASSUME Placed, NEW e \in Executors, NEW o \in Outcomes, Return(e, o),
           pc[e] \notin {"idle", "claimed"},
           \A r \in Rows : run[r] # "none" => run'[r] # "none"
    PROVE  RowsKnown'
<1>1. CASE item[e] \in Assignments
  BY <1>1 DEF Return, Placed, TypeOK, RowsKnown, At
<1>2. CASE item[e] \notin Assignments
  BY <1>2, LeaveRows DEF Return
<1> QED
  BY <1>1, <1>2

-----------------------------------------------------------------------------
\* Every step keeps the types, the schedule and the rows executors are at.
LEMMA NextPlaced ==
    ASSUME Placed, [Next]_vars
    PROVE  Placed'
<1> USE BoundsAssumption, KindsAssumption, ExecutorsAssumption
<1>0. TypeOK /\ ScheduleKnown /\ RowsKnown
  BY DEF Placed
<1>1. ASSUME NEW i \in Items, NEW k \in 0 .. MaxNumber,
             Enqueue(i, k) \/ Expire(<<i, k>>)
      PROVE  Placed'
  <2>1. TypeOK'
    BY <1>0, <1>1 DEF TypeOK, Enqueue, Expire, Jobs, dutyVars, assignmentVars,
       runVars, execVars, tallies, history
  <2> QED
    BY <1>0, <1>1, <2>1 DEF Enqueue, Expire, Placed, ScheduleKnown, RowsKnown,
       At, dutyVars, runVars, execVars
<1>2. ASSUME NEW e \in Slots, NEW i \in Items, NEW k \in 0 .. MaxNumber,
             PassOver(e, i, k)
      PROVE  Placed'
  <2>1. /\ due' \in [Duties -> 0 .. MaxNumber]
        /\ issued' \in [Duties -> 0 .. MaxNumber]
        /\ on' \in [Duties -> BOOLEAN]
        /\ ScheduleKnown'
    <3> i \in Duties /\ count[i] \in Nat /\ count[i] + 1 \in Nat
      BY <1>0, <1>2 DEF PassOver, TypeOK
    <3>1. CASE UNCHANGED <<on, due, issued>>
      BY <1>0, <3>1 DEF TypeOK, ScheduleKnown
    <3>2. CASE Reschedule(i, Following(i, count[i] + 1))
      BY <1>0, <3>2, FollowingType, RescheduleType
    <3>3. CASE Reschedule(i, AfterSkip(i))
      BY <1>0, <3>3, FollowingType, RescheduleType DEF AfterSkip
    <3> QED
      BY <1>2, <3>1, <3>2, <3>3 DEF PassOver
  <2>2. queue' \subseteq Jobs /\ kept' \subseteq Jobs
    <3>1. <<i, k>> \in Jobs
      BY DEF Jobs
    <3> QED
      BY <1>0, <1>2, <3>1, JobKept DEF PassOver, Take, TypeOK
  <2>3. TypeOK'
    BY <1>0, <1>2, <2>1, <2>2 DEF PassOver, TypeOK, assignmentVars, runVars,
       execVars, tallies, history
  <2>4. RowsKnown'
    BY <1>0, <1>2 DEF PassOver, RowsKnown, At, runVars, execVars
  <2> QED
    BY <2>1, <2>3, <2>4 DEF Placed
<1>3. ASSUME NEW e \in Slots, NEW i \in Items, NEW k \in 0 .. MaxNumber,
             ClaimDuty(e, i, k)
      PROVE  Placed'
  <2> i \in Duties /\ count[i] \in Nat /\ count[i] + 1 \in Nat
    BY <1>0, <1>3 DEF ClaimDuty, TypeOK
  <2> e \in Executors /\ e # Resumer
    BY DEF Executors
  <2>0. <<i, k>> \in Rows
    BY <1>3 DEF ClaimDuty, Rows
  <2>1. /\ due' \in [Duties -> 0 .. MaxNumber]
        /\ issued' \in [Duties -> 0 .. MaxNumber]
        /\ on' \in [Duties -> BOOLEAN]
        /\ ScheduleKnown'
    BY <1>0, <1>3, FollowingType, RescheduleType DEF ClaimDuty
  <2>2. /\ pc' \in [Executors -> Places] /\ item' \in [Executors -> Items]
        /\ nth' \in [Executors -> 0 .. MaxNumber]
    BY <1>0, <1>3 DEF ClaimDuty, Go, TypeOK, Places
  <2>3. TypeOK'
    BY <1>0, <1>3, <2>0, <2>1, <2>2 DEF ClaimDuty, Take, TypeOK,
       assignmentVars, runVars, tallies
  <2>4. RowsKnown'
    BY <1>0, <1>3, <2>0 DEF ClaimDuty, Take, Go, Busy, RowsKnown, At, TypeOK,
       runVars
  <2> QED
    BY <2>1, <2>3, <2>4 DEF Placed
<1>4. ASSUME NEW e \in Slots, NEW i \in Items, ClaimAssignment(e, i)
      PROVE  Placed'
  <2> e \in Executors /\ e # Resumer /\ i \in Assignments
    BY <1>4 DEF Executors, ClaimAssignment
  <2>0. /\ status' \in [Assignments -> AssignmentStates]
        /\ pc' \in [Executors -> Places] /\ item' \in [Executors -> Items]
        /\ nth' \in [Executors -> 0 .. MaxNumber]
        /\ \A f \in Executors :
             \/ pc'[f] = pc[f] /\ item'[f] = item[f] /\ nth'[f] = nth[f]
             \/ f = e /\ pc'[f] = "claimed" /\ item'[f] = i
    <3>1. CASE Claimable(i)
      <4>1. /\ status' = [status EXCEPT ![i] = "working"]
            /\ Go(e, "claimed", i, 0)
        BY <1>4, <3>1 DEF ClaimAssignment
      <4> QED
        BY <1>0, <4>1 DEF Go, TypeOK, Places, AssignmentStates
    <3>2. CASE ~ Claimable(i)
      BY <1>0, <1>4, <3>2 DEF ClaimAssignment, TypeOK
    <3> QED
      BY <3>1, <3>2
  <2>1. TypeOK'
    BY <1>0, <1>4, <2>0 DEF ClaimAssignment, Take, TypeOK, dutyVars, runVars,
       tallies, history
  <2>2. ScheduleKnown'
    BY <1>0, <1>4 DEF ClaimAssignment, ScheduleKnown, dutyVars
  <2>3. RowsKnown'
    BY <1>0, <1>4, <2>0 DEF ClaimAssignment, RowsKnown, At, runVars
  <2> QED
    BY <2>1, <2>2, <2>3 DEF Placed
<1>5. ASSUME NEW e \in Slots, NEW i \in Items, ClaimChild(e, i)
      PROVE  Placed'
  <2> e \in Executors /\ e # Resumer /\ i \in Children
    BY <1>5 DEF Executors, ClaimChild
  <2>0. <<i, 1>> \in Jobs /\ <<i, 1>> \in Rows
    BY DEF Jobs, Rows
  <2>1. kept' \subseteq Jobs
    BY <1>0, <1>5, <2>0, JobKept DEF ClaimChild, TypeOK
  <2>2. /\ pc' \in [Executors -> Places] /\ item' \in [Executors -> Items]
        /\ nth' \in [Executors -> 0 .. MaxNumber]
        /\ \A f \in Executors :
             \/ pc'[f] = pc[f] /\ item'[f] = item[f] /\ nth'[f] = nth[f]
             \/ f = e /\ pc'[f] = "claimed" /\ item'[f] = i /\ nth'[f] = 1
    <3>1. CASE Unstarted(i)
      <4>1. Go(e, "claimed", i, 1)
        BY <1>5, <3>1 DEF ClaimChild
      <4> QED
        BY <1>0, <4>1 DEF Go, TypeOK, Places
    <3>2. CASE ~ Unstarted(i)
      BY <1>0, <1>5, <3>2 DEF ClaimChild, TypeOK
    <3> QED
      BY <3>1, <3>2
  <2>5. TypeOK'
    BY <1>0, <1>5, <2>1, <2>2 DEF ClaimChild, Take, TypeOK, dutyVars,
       assignmentVars, runVars, tallies, history
  <2>3. ScheduleKnown'
    BY <1>0, <1>5 DEF ClaimChild, ScheduleKnown, dutyVars
  <2>4. RowsKnown'
    BY <1>0, <1>5, <2>0, <2>2 DEF ClaimChild, RowsKnown, At, runVars
  <2> QED
    BY <2>3, <2>4, <2>5 DEF Placed
<1>6. ASSUME NEW i \in Items, NEW k \in 1 .. MaxNumber, PickUp(i, k)
      PROVE  Placed'
  <2> Resumer \in Executors
    BY DEF Executors
  <2>0. <<i, k>> \in Rows
    BY DEF Rows
  <2>1. TypeOK'
    BY <1>0, <1>6 DEF PickUp, Go, TypeOK, Places, dutyVars, assignmentVars,
       runVars, queueVars, history
  <2>2. ScheduleKnown'
    BY <1>0, <1>6 DEF PickUp, ScheduleKnown, dutyVars
  <2>3. RowsKnown'
    BY <1>0, <1>6, <2>0 DEF PickUp, Go, Busy, RowsKnown, At, TypeOK, runVars
  <2> QED
    BY <2>1, <2>2, <2>3 DEF Placed
<1>7. ASSUME NEW e \in Slots, NEW i \in Items, NEW k \in 0 .. MaxNumber,
             JobFails(e, i, k)
      PROVE  Placed'
  <2>0. <<i, k>> \in Jobs
    BY DEF Jobs
  <2>1. kept' \subseteq Jobs
    BY <1>0, <1>7, <2>0, JobKept DEF JobFails
  <2>2. TypeOK'
    BY <1>0, <1>7, <2>1 DEF JobFails, Take, TypeOK, dutyVars, assignmentVars,
       runVars, execVars, history
  <2> QED
    BY <1>0, <1>7, <2>2 DEF JobFails, Placed, ScheduleKnown, RowsKnown, At,
       dutyVars, runVars, execVars
<1>8. ASSUME NEW e \in Executors, OverBudget(e) \/ Refuse(e) \/ LeaseLost(e)
      PROVE  Placed'
  <2>1. Leave(e)
    BY <1>8 DEF OverBudget, Refuse, LeaseLost
  <2>2. run' \in [Rows -> RunStates]
    BY <1>0, <1>8 DEF OverBudget, Refuse, LeaseLost, TypeOK, RunStates,
       runVars
  <2>3. /\ status' \in [Assignments -> AssignmentStates]
        /\ marked' \subseteq Assignments
    BY <1>0, <1>8 DEF OverBudget, Refuse, LeaseLost, TypeOK,
       AssignmentStates, assignmentVars
  <2>8. refusals' \in [Items -> Nat]
    BY <1>0, <1>8 DEF OverBudget, Refuse, LeaseLost, TypeOK, history
  <2>4. TypeOK'
    BY <1>0, <1>8, <2>1, <2>2, <2>3, <2>8, LeaveType DEF OverBudget, Refuse,
       LeaseLost, TypeOK, dutyVars, assignmentVars, runVars, tallies, history
  <2>5. \A r \in Rows : run[r] # "none" => run'[r] # "none"
    BY <1>0, <1>8 DEF OverBudget, Refuse, LeaseLost, TypeOK, runVars
  <2>6. ScheduleKnown'
    BY <1>0, <1>8 DEF OverBudget, Refuse, LeaseLost, ScheduleKnown, dutyVars
  <2>7. RowsKnown'
    BY <2>1, <2>5, LeaveRows
  <2> QED
    BY <2>4, <2>6, <2>7 DEF Placed
<1>9. ASSUME NEW e \in Executors, Open(e)
      PROVE  Placed'
  <2>0. /\ RowFor(e) \in Rows /\ RowFor(e)[2] \in 1 .. MaxNumber
        /\ RowFor(e) = <<item[e], RowFor(e)[2]>>
    BY <1>9 DEF Open, Rows, RowFor, At
  <2>1. TypeOK'
    BY <1>0, <1>9, <2>0 DEF Open, Go, TypeOK, Places, RunStates, Unfinished,
       dutyVars, assignmentVars, queueVars, tallies
  <2>2. ScheduleKnown'
    BY <1>0, <1>9 DEF Open, ScheduleKnown, dutyVars
  <2>3. RowsKnown'
    BY <1>0, <1>9, <2>0 DEF Open, Go, RowsKnown, At, TypeOK
  <2> QED
    BY <2>1, <2>2, <2>3 DEF Placed
<1>10. ASSUME NEW e \in Executors, Begin(e)
       PROVE  Placed'
  <2>1. attempt' \subseteq Children /\ begun' \in [Rows -> Nat]
    BY <1>0, <1>10 DEF Begin, Attempts, TypeOK
  <2>2. ScheduleKnown'
    BY <1>0, <1>10 DEF Begin, ScheduleKnown, dutyVars
  <2>3. CASE run[At(e)] = "running" /\ ~ Leased(At(e))
    <3>0. /\ pc' \in [Executors -> Places] /\ item' = item /\ nth' = nth
          /\ UNCHANGED <<run, outcome, queueVars>>
          /\ \A f \in Executors : f # e => pc'[f] = pc[f]
      <4>1. \E place \in Looping : Go(e, place, item[e], nth[e])
        BY <1>10, <2>3 DEF Begin, Looping
      <4>2. UNCHANGED <<run, outcome, queueVars>>
        BY <1>10, <2>3 DEF Begin
      <4> QED
        BY <1>0, <4>1, <4>2 DEF Go, TypeOK, Places
    <3>1. TypeOK'
      BY <1>0, <1>10, <2>1, <3>0 DEF Begin, TypeOK, dutyVars, assignmentVars,
         queueVars, tallies
    <3>2. RowsKnown'
      BY <1>0, <1>10, <3>0 DEF Begin, RowsKnown, At
    <3> QED
      BY <2>2, <3>1, <3>2 DEF Placed
  <2>4. CASE ~ (run[At(e)] = "running" /\ ~ Leased(At(e)))
    <3>1. Leave(e) /\ run' = run
      BY <1>10, <2>4 DEF Begin
    <3>2. TypeOK'
      BY <1>0, <1>10, <2>1, <3>1, LeaveType DEF Begin, TypeOK, dutyVars,
         assignmentVars, tallies
    <3> QED
      BY <2>2, <3>1, <3>2, LeaveRows DEF Placed
  <2> QED
    BY <2>3, <2>4
<1>11. ASSUME NEW e \in Executors, NEW o \in Outcomes,
              End(e, o) \/ (o = "failed" /\ Unassembled(e))
       PROVE  Placed'
  <2>1. Return(e, o) /\ pc[e] \notin {"idle", "claimed"}
    BY <1>11 DEF End, Unassembled
  <2>2. RunStatus(o) \in RunStates \ {"none"}
    BY DEF RunStatus, Outcomes, Parking, RunStates, Unfinished
  <2>3. /\ run' \in [Rows -> RunStates]
        /\ \A r \in Rows : run[r] # "none" => run'[r] # "none"
    BY <1>0, <1>11, <2>2 DEF End, Unassembled, TypeOK, RunStates
  <2>4. attempt' \subseteq Children /\ sent' \subseteq Rows
    <3>1. At(e) \in Rows
      BY <1>0, <2>1 DEF RowsKnown
    <3> QED
      BY <1>0, <1>11, <3>1 DEF End, Unassembled, Attempts, TypeOK
  <2>5. TypeOK'
    BY <1>0, <1>11, <2>1, <2>3, <2>4, ReturnType DEF End, Unassembled, TypeOK,
       dutyVars, assignmentVars, tallies, history
  <2>6. ScheduleKnown'
    BY <1>0, <1>11 DEF End, Unassembled, ScheduleKnown, dutyVars
  <2> QED
    BY <2>1, <2>3, <2>5, <2>6, ReturnRows DEF Placed
<1>12. ASSUME NEW e \in Executors, Speak(e) \/ Name(e)
       PROVE  Placed'
  <2>1. TypeOK'
    BY <1>0, <1>12 DEF Speak, Name, Go, TypeOK, Places, Looping, dutyVars,
       assignmentVars, runVars, queueVars, tallies, history
  <2>2. ScheduleKnown'
    BY <1>0, <1>12 DEF Speak, Name, ScheduleKnown, dutyVars
  <2>3. RowsKnown'
    BY <1>0, <1>12 DEF Speak, Name, Go, RowsKnown, At, TypeOK, runVars
  <2> QED
    BY <2>1, <2>2, <2>3 DEF Placed
<1>13. ASSUME NEW e \in Executors, Throw(e)
       PROVE  Placed'
  <2>1. Leave(e) /\ attempt' \subseteq Children
    BY <1>0, <1>13 DEF Throw, Attempts, TypeOK
  <2>2. /\ run' \in [Rows -> RunStates]
        /\ \A r \in Rows : run[r] # "none" => run'[r] # "none"
    BY <1>0, <1>13 DEF Throw, TypeOK, RunStates
  <2>3. TypeOK'
    BY <1>0, <1>13, <2>1, <2>2, LeaveType DEF Throw, TypeOK, dutyVars,
       assignmentVars, history
  <2>4. ScheduleKnown'
    BY <1>0, <1>13 DEF Throw, ScheduleKnown, dutyVars
  <2> QED
    BY <2>1, <2>2, <2>3, <2>4, LeaveRows DEF Placed
<1>14. ASSUME NEW e \in Executors, Finalize(e)
       PROVE  Placed'
  <2>1. Leave(e) /\ run' = run
    BY <1>14 DEF Finalize, runVars
  <2>2. status' \in [Assignments -> AssignmentStates]
    BY <1>0, <1>14 DEF Finalize, TypeOK, AssignmentStates
  <2>3. marked' \subseteq Assignments /\ revived' \subseteq Assignments
    BY <1>0, <1>14 DEF Finalize, Over, TypeOK
  <2>4. TypeOK'
    BY <1>0, <1>14, <2>1, <2>2, <2>3, LeaveType DEF Finalize, TypeOK,
       dutyVars, runVars, tallies
  <2>5. ScheduleKnown'
    BY <1>0, <1>14 DEF Finalize, ScheduleKnown, dutyVars
  <2> QED
    BY <2>1, <2>4, <2>5, LeaveRows DEF Placed
<1>15. ASSUME NEW i \in Items, NEW k \in 1 .. MaxNumber, Sweep(i, k)
       PROVE  Placed'
  <2>0. <<i, k>> \in Rows
    BY DEF Rows
  <2>1. /\ run' \in [Rows -> RunStates]
        /\ \A r \in Rows : run[r] # "none" => run'[r] # "none"
    BY <1>0, <1>15 DEF Sweep, TypeOK, RunStates
  <2>2. /\ status' \in [Assignments -> AssignmentStates]
        /\ marked' \subseteq Assignments
    BY <1>0, <1>15 DEF Sweep, Reclaimed, TypeOK, AssignmentStates
  <2>3. TypeOK'
    BY <1>0, <1>15, <2>0, <2>1, <2>2 DEF Sweep, TypeOK, dutyVars, queueVars,
       execVars, tallies, history
  <2>4. ScheduleKnown'
    BY <1>0, <1>15 DEF Sweep, ScheduleKnown, dutyVars
  <2>5. RowsKnown'
    BY <1>0, <1>15, <2>1 DEF Sweep, RowsKnown, At, execVars
  <2> QED
    BY <2>3, <2>4, <2>5 DEF Placed
<1>16. ASSUME NEW d \in Duties, Reopen(d) \/ Retire(d)
       PROVE  Placed'
  <2>1. /\ due' \in [Duties -> 0 .. MaxNumber]
        /\ issued' \in [Duties -> 0 .. MaxNumber]
        /\ on' \in [Duties -> BOOLEAN]
        /\ ScheduleKnown'
    <3>1. CASE Reopen(d)
      <4>1. issued[d] + 1 \in 0 .. LastOccurrence /\ Reschedule(d, issued[d] + 1)
        BY <1>0, <3>1 DEF Reopen, TypeOK
      <4> QED
        BY <1>0, <4>1, RescheduleType
    <3>2. CASE Retire(d)
      <4>1. 0 \in 0 .. LastOccurrence /\ Reschedule(d, 0)
        BY <3>2 DEF Retire
      <4> QED
        BY <1>0, <4>1, RescheduleType
    <3> QED
      BY <1>16, <3>1, <3>2
  <2>2. TypeOK'
    BY <1>0, <1>16, <2>1 DEF Reopen, Retire, TypeOK, assignmentVars, runVars,
       queueVars, execVars, tallies, history
  <2>3. RowsKnown'
    BY <1>0, <1>16 DEF Reopen, Retire, RowsKnown, At, runVars, execVars
  <2> QED
    BY <2>1, <2>2, <2>3 DEF Placed
<1>17. ASSUME Offboard PROVE Placed'
  <2>1. /\ run' \in [Rows -> RunStates]
        /\ \A r \in Rows : run[r] # "none" => run'[r] # "none"
    BY <1>0, <1>17 DEF Offboard, TypeOK, RunStates
  <2>0. status' \in [Assignments -> AssignmentStates]
    <3>1. /\ status \in [Assignments -> AssignmentStates]
          /\ status' = [a \in Assignments |->
               IF status[a] \in {"pending", "working", "waiting_approval"}
               THEN "cancelled" ELSE status[a]]
      BY <1>0, <1>17 DEF Offboard, TypeOK
    <3> QED
      BY <3>1 DEF AssignmentStates
  <2>5. on' \in [Duties -> BOOLEAN] /\ due' \in [Duties -> 0 .. MaxNumber]
    BY <1>17 DEF Offboard
  <2>6. employed' = FALSE /\ faults' = faults + 1 /\ faults \in Nat
    BY <1>0, <1>17, Zenon DEF Offboard, TypeOK
  <2>7. UNCHANGED <<count, issued, reopened, named, marked, attempt, sent,
                    queue, kept, execVars, resumes, history>>
    BY <1>17 DEF Offboard, queueVars
  <2>8. employed' \in BOOLEAN /\ resumes' \in Nat /\ faults' \in Nat
    <3>1. employed' \in BOOLEAN
      BY <2>6, Zenon
    <3>2. resumes' \in Nat /\ faults' \in Nat
      BY <1>0, <2>6, <2>7 DEF TypeOK
    <3> QED
      BY <3>1, <3>2, Zenon
  <2>9. /\ count' \in [Duties -> Nat] /\ reopened' \in [Duties -> Nat]
        /\ issued' \in [Duties -> 0 .. MaxNumber]
        /\ named' \in [Assignments -> 0 .. MaxNumber]
        /\ marked' \subseteq Assignments
        /\ attempt' \subseteq Children /\ sent' \subseteq Rows
        /\ queue' \subseteq Jobs /\ kept' \subseteq Jobs
    BY <1>0, <2>7 DEF TypeOK
  <2>10. /\ pc' \in [Executors -> Places]
         /\ item' \in [Executors -> Items]
         /\ nth' \in [Executors -> 0 .. MaxNumber]
         /\ outcome' \in [Executors -> Outcomes]
         /\ begun' \in [Rows -> Nat]
         /\ resumed' \subseteq Children /\ hidden' \subseteq Rows
         /\ revived' \subseteq Assignments /\ refusals' \in [Items -> Nat]
    BY <1>0, <2>7 DEF TypeOK, execVars, history
  <2>2. TypeOK'
    BY <2>0, <2>1, <2>5, <2>8, <2>9, <2>10, Zenon DEF TypeOK
  <2>3. ScheduleKnown'
    BY <1>0, <1>17 DEF Offboard, ScheduleKnown
  <2>4. RowsKnown'
    BY <1>0, <1>17, <2>1 DEF Offboard, RowsKnown, At, execVars
  <2> QED
    BY <2>2, <2>3, <2>4 DEF Placed
<1>18. ASSUME NEW graceful \in BOOLEAN, Die(graceful) PROVE Placed'
  <2>1. run' \in [Rows -> RunStates]
    BY <1>0, <1>18 DEF Die, TypeOK, RunStates
  <2>2. queue' \subseteq Jobs
    <3>1. \A e \in Slots : Held(e) \in Jobs
      BY <1>0 DEF Held, Jobs, TypeOK, Executors
    <3> QED
      BY <1>0, <1>18, <3>1 DEF Die, TypeOK
  <2>3. TypeOK'
    BY <1>0, <1>18, <2>1, <2>2, NothingIsItem DEF Die, TypeOK, Places,
       Outcomes, dutyVars, assignmentVars, history
  <2>4. ScheduleKnown'
    BY <1>0, <1>18 DEF Die, ScheduleKnown, dutyVars
  <2>5. RowsKnown'
    BY <1>18 DEF Die, RowsKnown
  <2> QED
    BY <2>3, <2>4, <2>5 DEF Placed
<1>19. CASE UNCHANGED vars
  BY <1>0, <1>19 DEF vars, Placed, TypeOK, ScheduleKnown, RowsKnown, At,
     dutyVars, assignmentVars, runVars, queueVars, execVars, tallies, history
<1> QED
  BY <1>1, <1>2, <1>3, <1>4, <1>5, <1>6, <1>7, <1>8, <1>9, <1>10, <1>11,
     <1>12, <1>13, <1>14, <1>15, <1>16, <1>17, <1>18, <1>19
     DEF Next, Advance, Claim, Outcomes

-----------------------------------------------------------------------------
(* What a step may do to a run and to an executor, whichever action it is. *)

\* A run that was opened is closed; or an executor opens its row, or is
\* refused; or the loop at it ends.
TakenUp(e) == e = Resumer /\ item[e] \in Children => item[e] \in resumed'
RunMoves(r) ==
    \/ run'[r] = run[r]
    \/ run[r] # "none" /\ run'[r] \in {"failed", "cancelled"}
    \/ \E e \in Executors :
         /\ pc[e] = "claimed" /\ RowFor(e) = r
         /\ run'[r] \in {"failed", "running"} /\ TakenUp(e)
         /\ pc'[e] # "claimed"
    \/ \E e \in Executors :
         pc[e] = "loop" /\ At(e) = r /\ run'[r] \notin {"none", "running"}

Same(f) == pc'[f] = pc[f] /\ item'[f] = item[f] /\ nth'[f] = nth[f]

\* An executor stays, leaves the work to its caller, claims, opens its row,
\* takes the lease, or writes its first event.
ExecutorMoves(f) ==
    \/ Same(f)
    \/ pc'[f] = "idle"
    \/ /\ pc[f] \in {"opened", "loop", "ended"} /\ pc'[f] \in {"ended", "named"}
       /\ item'[f] = item[f] /\ nth'[f] = nth[f]
    \/ /\ f \in Slots /\ pc'[f] = "claimed" /\ item'[f] \notin Duties
       /\ ClaimAssignment(f, item'[f]) \/ ClaimChild(f, item'[f])
    \/ f \in Slots /\ ClaimDuty(f, item'[f], nth'[f])
    \/ f = Resumer /\ pc'[f] = "claimed" /\ run[At(f)'] = "waiting"
    \/ /\ pc[f] = "claimed" /\ pc'[f] = "opened" /\ At(f)' = RowFor(f)
       /\ TakenUp(f)
    \/ /\ pc[f] = "opened" /\ pc'[f] \in Looping /\ At(f)' = At(f)
       /\ ~ Leased(At(f))
       /\ \A g \in Executors : g # f => Same(g)
    \/ pc[f] = "quiet" /\ pc'[f] = "loop" /\ At(f)' = At(f)

Moves ==
    /\ \A r \in Rows : RunMoves(r)
    /\ \A f \in Executors : ExecutorMoves(f)

\* Leaving is one of the moves.
LEMMA LeaveMoves ==
    ASSUME Placed, NEW e \in Executors, Leave(e)
    PROVE  \A f \in Executors : ExecutorMoves(f)
<1>1. pc'[e] = "idle" /\ \A f \in Executors : f # e => Same(f)
  BY DEF Leave, Same, Placed, TypeOK
<1> QED
  BY <1>1 DEF ExecutorMoves

LEMMA ReturnMoves ==
    ASSUME Placed, NEW e \in Executors, NEW o \in Outcomes, Return(e, o),
           pc[e] \in {"opened", "loop"}
    PROVE  \A f \in Executors : ExecutorMoves(f)
<1>1. CASE item[e] \in Assignments
  <2>1. /\ pc'[e] \in {"ended", "named"}
        /\ item'[e] = item[e] /\ nth'[e] = nth[e]
        /\ \A f \in Executors : f # e => Same(f)
    BY <1>1 DEF Return, Same, Placed, TypeOK
  <2> QED
    BY <2>1 DEF ExecutorMoves
<1>2. CASE item[e] \notin Assignments
  BY <1>2, LeaveMoves DEF Return
<1> QED
  BY <1>1, <1>2

\* Every step is made of such moves.
LEMMA NextMoves ==
    ASSUME Placed, [Next]_vars
    PROVE  Moves
<1> USE BoundsAssumption, KindsAssumption, ExecutorsAssumption
<1>0. TypeOK /\ RowsKnown
  BY DEF Placed
<1>1. ASSUME UNCHANGED <<run, pc, item, nth>> PROVE Moves
  BY <1>1 DEF Moves, RunMoves, ExecutorMoves, Same
<1>2. ASSUME NEW i \in Items, NEW k \in 0 .. MaxNumber,
             Enqueue(i, k) \/ Expire(<<i, k>>)
      PROVE  Moves
  BY <1>1, <1>2 DEF Enqueue, Expire, runVars, execVars
<1>3. ASSUME NEW e \in Slots, NEW i \in Items, NEW k \in 0 .. MaxNumber,
             PassOver(e, i, k) \/ JobFails(e, i, k)
      PROVE  Moves
  BY <1>1, <1>3 DEF PassOver, JobFails, runVars, execVars
<1>4. ASSUME NEW d \in Duties, Reopen(d) \/ Retire(d)
      PROVE  Moves
  BY <1>1, <1>4 DEF Reopen, Retire, runVars, execVars
<1>5. CASE UNCHANGED vars
  BY <1>1, <1>5 DEF vars, runVars, execVars
<1>6. ASSUME NEW e \in Slots, NEW i \in Items, NEW k \in 0 .. MaxNumber,
             ClaimDuty(e, i, k)
      PROVE  Moves
  <2>1. e \in Executors /\ i \in Duties /\ run' = run
    BY <1>6 DEF ClaimDuty, Executors, runVars
  <2>2. item'[e] = i /\ nth'[e] = k /\ \A f \in Executors : f # e => Same(f)
    BY <1>0, <1>6, <2>1 DEF ClaimDuty, Go, Same, TypeOK
  <2> QED
    BY <1>6, <2>1, <2>2 DEF Moves, RunMoves, ExecutorMoves
<1>7. ASSUME NEW e \in Slots, NEW i \in Items,
             ClaimAssignment(e, i) \/ ClaimChild(e, i)
      PROVE  Moves
  <2>1. e \in Executors /\ i \notin Duties /\ run' = run
    BY <1>7 DEF ClaimAssignment, ClaimChild, Executors, runVars
  <2>2. CASE UNCHANGED <<pc, item, nth>>
    BY <1>1, <2>1, <2>2
  <2>3. ASSUME NEW k \in 0 .. MaxNumber, Go(e, "claimed", i, k) PROVE Moves
    <3>1. /\ pc'[e] = "claimed" /\ item'[e] = i
          /\ \A f \in Executors : f # e => Same(f)
      BY <1>0, <2>1, <2>3 DEF Go, Same, TypeOK
    <3> QED
      BY <1>7, <2>1, <3>1 DEF Moves, RunMoves, ExecutorMoves
  <2> QED
    BY <1>7, <2>2, <2>3 DEF ClaimAssignment, ClaimChild
<1>8. ASSUME NEW i \in Items, NEW k \in 1 .. MaxNumber, PickUp(i, k)
      PROVE  Moves
  <2>1. Resumer \in Executors /\ run' = run
    BY <1>8 DEF PickUp, Executors, runVars
  <2>2. /\ pc'[Resumer] = "claimed" /\ item'[Resumer] = i /\ nth'[Resumer] = k
        /\ run[<<i, k>>] = "waiting"
        /\ \A f \in Executors : f # Resumer => Same(f)
    BY <1>0, <1>8, <2>1 DEF PickUp, Go, Same, TypeOK
  <2> QED
    BY <2>1, <2>2 DEF Moves, RunMoves, ExecutorMoves, At
<1>9. ASSUME NEW e \in Executors, OverBudget(e) \/ Refuse(e) \/ LeaseLost(e)
      PROVE  Moves
  <2>1. Leave(e)
    BY <1>9 DEF OverBudget, Refuse, LeaseLost
  <2>2. \A r \in Rows : RunMoves(r)
    <3>1. CASE run' = run
      BY <3>1 DEF RunMoves
    <3>2. CASE /\ pc[e] = "claimed" /\ ~ Adopts(e)
               /\ run' = [run EXCEPT ![RowFor(e)] = "failed"]
      <4>1. pc'[e] = "idle"
        BY <1>0, <2>1 DEF Leave, TypeOK
      <4> QED
        BY <1>0, <3>2, <4>1 DEF RunMoves, TypeOK, TakenUp, Adopts
    <3> QED
      BY <1>9, <3>1, <3>2 DEF OverBudget, Refuse, LeaseLost, runVars
  <2> QED
    BY <2>1, <2>2, LeaveMoves DEF Moves
<1>10. ASSUME NEW e \in Executors, Open(e)
       PROVE  Moves
  <2>1. /\ pc[e] = "claimed" /\ RowFor(e) \in Rows
        /\ run' = [run EXCEPT ![RowFor(e)] = "running"]
        /\ RowFor(e) = <<item[e], RowFor(e)[2]>>
    BY <1>10 DEF Open, Rows, RowFor, At
  <2>2. /\ pc'[e] = "opened" /\ At(e)' = RowFor(e)
        /\ \A f \in Executors : f # e => Same(f)
    BY <1>0, <1>10, <2>1 DEF Open, Go, Same, TypeOK, At
  <2>0. TakenUp(e)
    BY <1>10 DEF Open, TakenUp
  <2>3. \A r \in Rows : RunMoves(r)
    <3>1. pc'[e] # "claimed"
      BY <2>2
    <3> QED
      BY <1>0, <2>0, <2>1, <3>1 DEF RunMoves, TypeOK
  <2> QED
    BY <2>0, <2>1, <2>2, <2>3 DEF Moves, ExecutorMoves
<1>11. ASSUME NEW e \in Executors, Begin(e)
       PROVE  Moves
  <2>1. run' = run /\ pc[e] = "opened"
    BY <1>11 DEF Begin
  <2>2. \A r \in Rows : RunMoves(r)
    BY <2>1 DEF RunMoves
  <2>3. CASE run[At(e)] = "running" /\ ~ Leased(At(e))
    <3>1. /\ pc'[e] \in Looping /\ At(e)' = At(e)
          /\ \A f \in Executors : f # e => Same(f)
      BY <1>0, <1>11, <2>3 DEF Begin, Go, Same, TypeOK, Looping, At
    <3> QED
      BY <2>1, <2>2, <2>3, <3>1 DEF Moves, ExecutorMoves
  <2>4. CASE ~ (run[At(e)] = "running" /\ ~ Leased(At(e)))
    BY <1>11, <2>2, <2>4, LeaveMoves DEF Begin, Moves
  <2> QED
    BY <2>3, <2>4
<1>12. ASSUME NEW e \in Executors, Unassembled(e)
       PROVE  Moves
  <2>1. /\ pc[e] = "opened" /\ Return(e, "failed")
        /\ run' = [run EXCEPT ![At(e)] = "failed"]
    BY <1>12 DEF Unassembled
  <2>2. \A r \in Rows : RunMoves(r)
    BY <1>0, <2>1 DEF RunMoves, TypeOK, RowsKnown
  <2> QED
    BY <2>1, <2>2, ReturnMoves DEF Moves, Outcomes
<1>13. ASSUME NEW e \in Executors, NEW o \in Outcomes, End(e, o)
       PROVE  Moves
  <2>1. RunStatus(o) \notin {"none", "running"}
    BY DEF RunStatus, Outcomes, Parking
  <2>2. \A r \in Rows : RunMoves(r)
    BY <1>0, <1>13, <2>1 DEF End, RunMoves, TypeOK
  <2> QED
    BY <1>13, <2>2, ReturnMoves DEF End, Moves
<1>14. ASSUME NEW e \in Executors, Speak(e) \/ Name(e)
       PROVE  Moves
  <2>1. run' = run
    BY <1>14 DEF Speak, Name, runVars
  <2>2. /\ \A f \in Executors : f # e => Same(f)
        /\ item'[e] = item[e] /\ nth'[e] = nth[e]
        /\ \/ pc'[e] = "named" /\ pc[e] = "ended"
           \/ pc[e] = "quiet" /\ pc'[e] = "loop" /\ At(e)' = At(e)
    BY <1>0, <1>14 DEF Speak, Name, Go, Same, TypeOK, At
  <2> QED
    BY <2>1, <2>2 DEF Moves, RunMoves, ExecutorMoves
<1>15. ASSUME NEW e \in Executors, Throw(e)
       PROVE  Moves
  <2>1. /\ pc[e] \in {"opened"} \cup Looping /\ Leave(e)
        /\ run' = [run EXCEPT ![At(e)] =
                      IF @ = "cancelled" THEN @ ELSE "failed"]
    BY <1>15 DEF Throw
  <2>2. \A r \in Rows : RunMoves(r)
    BY <1>0, <2>1 DEF RunMoves, TypeOK, RowsKnown, Looping
  <2> QED
    BY <2>1, <2>2, LeaveMoves DEF Moves
<1>16. ASSUME NEW e \in Executors, Finalize(e)
       PROVE  Moves
  <2>1. Leave(e) /\ run' = run
    BY <1>16 DEF Finalize, runVars
  <2> QED
    BY <2>1, LeaveMoves DEF Moves, RunMoves
<1>17. ASSUME NEW i \in Items, NEW k \in 1 .. MaxNumber, Sweep(i, k)
       PROVE  Moves
  <2>1. UNCHANGED <<pc, item, nth>>
    BY <1>17 DEF Sweep, execVars
  <2>2. \A r \in Rows : RunMoves(r)
    BY <1>0, <1>17 DEF Sweep, RunMoves, TypeOK
  <2> QED
    BY <2>1, <2>2 DEF Moves, ExecutorMoves, Same
<1>18. ASSUME Offboard PROVE Moves
  <2>1. UNCHANGED <<pc, item, nth>>
    BY <1>18 DEF Offboard, execVars
  <2>2. \A r \in Rows : RunMoves(r)
    BY <1>0, <1>18 DEF Offboard, RunMoves, TypeOK, Unfinished
  <2> QED
    BY <2>1, <2>2 DEF Moves, ExecutorMoves, Same
<1>19. ASSUME NEW graceful \in BOOLEAN, Die(graceful) PROVE Moves
  <2>1. \A f \in Executors : pc'[f] = "idle"
    BY <1>19 DEF Die
  <2>2. \A r \in Rows : RunMoves(r)
    BY <1>0, <1>19 DEF Die, RunMoves, TypeOK
  <2> QED
    BY <2>1, <2>2 DEF Moves, ExecutorMoves
<1> QED
  BY <1>2, <1>3, <1>4, <1>5, <1>6, <1>7, <1>8, <1>9, <1>10, <1>11, <1>12,
     <1>13, <1>14, <1>15, <1>16, <1>17, <1>18, <1>19
     DEF Next, Advance, Claim

-----------------------------------------------------------------------------
(* A duty does not run twice at once.                                      *)

\* A run that is unfinished, or that an executor has claimed or is at.
Active == {"claimed", "opened"} \cup Looping
Present(r) ==
    \/ run[r] \in Unfinished
    \/ \E e \in Executors : pc[e] \in Active /\ At(e) = r

\* Of two such runs of one duty, one was claimed past the other.
PresentHidden ==
    \A q, r \in Rows :
        /\ q # r /\ q[1] = r[1] /\ q[1] \in Duties
        /\ Present(q) /\ Present(r)
        => q \in hidden \/ r \in hidden

\* The lease keeps executors apart.
LoopsApart ==
    \A e, f \in Executors :
        e # f /\ pc[e] \in Looping /\ pc[f] \in Looping => At(e) # At(f)

\* Only a claim makes a run of a duty present.
LEMMA PresenceBegins ==
    ASSUME Placed, [Next]_vars, NEW r \in Rows, r[1] \in Duties, Present(r)'
    PROVE  \/ Present(r)
           \/ \E e \in Slots : ClaimDuty(e, r[1], r[2])
<1>0. TypeOK /\ RowsKnown /\ Moves
  BY NextMoves DEF Placed
<1>1. CASE run'[r] \in Unfinished
  <2>1. RunMoves(r)
    BY <1>0 DEF Moves
  <2>2. CASE run'[r] = run[r]
    BY <1>1, <2>2 DEF Present
  <2>3. CASE \E e \in Executors : pc[e] = "claimed" /\ RowFor(e) = r
    <3>1. PICK e \in Executors : pc[e] = "claimed" /\ RowFor(e) = r
      BY <2>3
    <3>2. item[e] \notin Assignments
      BY <3>1, KindsAssumption DEF RowFor, At
    <3> QED
      BY <3>1, <3>2 DEF Present, Active, RowFor
  <2>4. CASE \E e \in Executors : pc[e] = "loop" /\ At(e) = r
    BY <2>4 DEF Present, Active, Looping
  <2> QED
    BY <1>1, <2>1, <2>2, <2>3, <2>4 DEF RunMoves, Unfinished
<1>2. ASSUME NEW f \in Executors, pc'[f] \in Active, At(f)' = r
      PROVE  \/ Present(r)
             \/ \E e \in Slots : ClaimDuty(e, r[1], r[2])
  <2>1. ExecutorMoves(f)
    BY <1>0 DEF Moves
  <2>2. item'[f] = r[1] /\ nth'[f] = r[2]
    BY <1>2 DEF At
  <2>3. CASE Same(f)
    BY <1>2, <2>3 DEF Same, At, Present
  <2>4. CASE f \in Slots /\ ClaimDuty(f, item'[f], nth'[f])
    BY <2>2, <2>4
  <2>5. CASE run[At(f)'] = "waiting"
    BY <1>2, <2>5 DEF Present, Unfinished
  <2>6. CASE pc[f] = "claimed" /\ At(f)' = RowFor(f)
    <3>1. item[f] \notin Assignments
      BY <1>2, <2>6, KindsAssumption DEF RowFor, At
    <3> QED
      BY <1>2, <2>6, <3>1 DEF RowFor, Present, Active
  <2>7. CASE pc[f] \in {"opened", "quiet"} /\ At(f)' = At(f)
    BY <1>2, <2>7 DEF Present, Active, Looping
  <2> QED
    BY <1>2, <2>1, <2>2, <2>3, <2>4, <2>5, <2>6, <2>7
       DEF ExecutorMoves, Active, Looping
<1> QED
  BY <1>1, <1>2 DEF Present

\* What was claimed past hidden work stays known.
LEMMA HiddenKept ==
    ASSUME [Next]_vars
    PROVE  hidden \subseteq hidden'
<1>1. ASSUME NEW e \in Slots, NEW i \in Items, NEW k \in 0 .. MaxNumber,
             Claim(e, i, k)
      PROVE  hidden \subseteq hidden'
  BY <1>1 DEF Claim, PassOver, ClaimDuty, ClaimAssignment, ClaimChild, history
<1>2. ASSUME NEW e \in Executors, Advance(e)
      PROVE  hidden' = hidden
  BY <1>2 DEF Advance, OverBudget, Refuse, Open, Begin, Unassembled, Speak, End,
     LeaseLost, Name, Finalize, history
<1> QED
  BY <1>1, <1>2 DEF Next, Enqueue, Expire, JobFails, Throw, PickUp, Sweep,
     Reopen, Retire, Offboard, Die, vars, history

\* A claim past work that no unfinished run shows is recorded as such.
LEMMA ClaimHides ==
    ASSUME Placed, NEW e \in Slots, NEW r \in Rows, NEW q \in Rows,
           ClaimDuty(e, r[1], r[2]), q[1] = r[1], Present(q)
    PROVE  r \in hidden'
<1>1. r = <<r[1], r[2]>> /\ q = <<q[1], q[2]>> /\ q[2] \in 1 .. MaxNumber
  BY DEF Rows
<1>2. run[q] \notin Unfinished
  BY <1>1 DEF ClaimDuty, LiveRun
<1>3. PICK f \in Executors : pc[f] \in Active /\ At(f) = q
  BY <1>2 DEF Present
<1>4. item[f] = q[1]
  BY <1>3 DEF At
<1>5. OutOfSight(r[1])
  BY <1>2, <1>3, <1>4 DEF OutOfSight, Active
<1> QED
  BY <1>1, <1>5 DEF ClaimDuty

\* Every step keeps runs of a duty apart, up to those claims.
LEMMA NextPresent ==
    ASSUME Placed, PresentHidden, [Next]_vars
    PROVE  PresentHidden'
<1> SUFFICES ASSUME NEW q \in Rows, NEW r \in Rows, q # r, q[1] = r[1],
                    q[1] \in Duties, Present(q)', Present(r)'
             PROVE  q \in hidden' \/ r \in hidden'
  BY DEF PresentHidden
<1>1. CASE Present(q) /\ Present(r)
  BY <1>1, HiddenKept DEF PresentHidden
<1>2. CASE Present(q) /\ ~ Present(r)
  <2>1. PICK e \in Slots : ClaimDuty(e, r[1], r[2])
    BY <1>2, PresenceBegins
  <2> QED
    BY <1>2, <2>1, ClaimHides
<1>3. CASE ~ Present(q) /\ Present(r)
  <2>1. PICK e \in Slots : ClaimDuty(e, q[1], q[2])
    BY <1>3, PresenceBegins
  <2> QED
    BY <1>3, <2>1, ClaimHides
<1>4. CASE ~ Present(q) /\ ~ Present(r)
  <2>1. PICK e \in Slots : ClaimDuty(e, r[1], r[2])
    BY <1>4, PresenceBegins
  <2>2. PICK f \in Slots : ClaimDuty(f, q[1], q[2])
    BY <1>4, PresenceBegins
  <2>3. q[2] = due[q[1]] /\ r[2] = due[r[1]]
    BY <2>1, <2>2 DEF ClaimDuty, Current
  <2> QED
    BY <2>3 DEF Rows
<1> QED
  BY <1>1, <1>2, <1>3, <1>4

LEMMA NextApart ==
    ASSUME Placed, LoopsApart, [Next]_vars
    PROVE  LoopsApart'
<1> SUFFICES ASSUME NEW e \in Executors, NEW f \in Executors, e # f,
                    pc'[e] \in Looping, pc'[f] \in Looping
             PROVE  At(e)' # At(f)'
  BY DEF LoopsApart
<1>1. ExecutorMoves(e) /\ ExecutorMoves(f)
  BY NextMoves DEF Moves
<1>2. ASSUME NEW g \in {e, f}
      PROVE  \/ pc[g] \in Looping /\ At(g)' = At(g)
             \/ /\ At(g)' = At(g) /\ ~ Leased(At(g))
                /\ \A h \in Executors : h # g => Same(h)
  <2>1. g \in Executors /\ pc'[g] \in Looping /\ ExecutorMoves(g)
    BY <1>1
  <2>2. ~ (g \in Slots /\ ClaimDuty(g, item'[g], nth'[g]))
    <3> SUFFICES ASSUME g \in Slots, ClaimDuty(g, item'[g], nth'[g])
                 PROVE  FALSE
      OBVIOUS
    <3>1. pc'[g] = "claimed"
      BY <2>1 DEF ClaimDuty, Go, Placed, TypeOK
    <3> QED
      BY <2>1, <3>1 DEF Looping
  <2> QED
    BY <2>1, <2>2 DEF ExecutorMoves, Same, At, Looping
<1>3. CASE /\ pc[e] \in Looping /\ At(e)' = At(e)
           /\ pc[f] \in Looping /\ At(f)' = At(f)
  BY <1>3 DEF LoopsApart
<1>4. CASE /\ At(e)' = At(e) /\ ~ Leased(At(e))
           /\ \A h \in Executors : h # e => Same(h)
  <2>1. pc[f] \in Looping /\ At(f)' = At(f)
    BY <1>4 DEF Same, At
  <2> QED
    BY <1>4, <2>1 DEF Leased
<1>5. CASE /\ At(f)' = At(f) /\ ~ Leased(At(f))
           /\ \A h \in Executors : h # f => Same(h)
  <2>1. pc[e] \in Looping /\ At(e)' = At(e)
    BY <1>5 DEF Same, At
  <2> QED
    BY <1>5, <2>1 DEF Leased
<1> QED
  BY <1>2, <1>3, <1>4, <1>5

-----------------------------------------------------------------------------
(* A delivery has gone out.                                                *)

SentOpened == \A r \in sent : run[r] # "none"

LEMMA RunsKept ==
    ASSUME Placed, [Next]_vars, NEW r \in Rows, run[r] # "none"
    PROVE  run'[r] # "none"
<1>1. RunMoves(r)
  BY NextMoves DEF Moves
<1> QED
  BY <1>1 DEF RunMoves

\* Mail goes out at the end of a run.
LEMMA SentMoves ==
    ASSUME Placed, [Next]_vars
    PROVE  \/ sent' = sent
           \/ \E e \in Executors :
                /\ pc[e] = "loop" /\ sent' = sent \cup {At(e)}
<1>1. ASSUME NEW e \in Executors, Advance(e)
      PROVE  sent' = sent \/ (pc[e] = "loop" /\ sent' = sent \cup {At(e)})
  <2>1. ASSUME NEW o \in Outcomes, End(e, o)
        PROVE  sent' = sent \/ (pc[e] = "loop" /\ sent' = sent \cup {At(e)})
    BY <2>1 DEF End
  <2> QED
    BY <1>1, <2>1 DEF Advance, OverBudget, Refuse, Open, Begin, Unassembled,
       Speak, LeaseLost, Name, Finalize, runVars
<1>2. ASSUME NEW e \in Slots, NEW i \in Items, NEW k \in 0 .. MaxNumber,
             Claim(e, i, k) \/ JobFails(e, i, k)
      PROVE  sent' = sent
  BY <1>2 DEF Claim, PassOver, ClaimDuty, ClaimAssignment, ClaimChild,
     JobFails, runVars
<1> QED
  BY <1>1, <1>2 DEF Next, Enqueue, Expire, Throw, PickUp, Sweep, Reopen, Retire,
     Offboard, Die, vars, runVars

\* An assignment becomes delivered in Finalize, of a run whose mail is out.
LEMMA DeliveredMoves ==
    ASSUME Placed, [Next]_vars, NEW a \in Assignments,
           status[a] # "delivered", status'[a] = "delivered"
    PROVE  \E e \in Executors : item[e] = a /\ At(e) \in sent
<1>0. TypeOK
  BY DEF Placed
<1>1. ASSUME NEW e \in Executors, Finalize(e)
      PROVE  item[e] = a /\ At(e) \in sent
  <2>1. item[e] = a
    BY <1>0, <1>1 DEF Finalize, TypeOK
  <2>2. status'[a] = CASE outcome[e] = "waiting_approval" -> "waiting_approval"
                       [] outcome[e] = "waiting_reply" -> "working"
                       [] Delivered(e) -> "delivered"
                       [] OTHER -> "failed"
    BY <1>0, <1>1, <2>1 DEF Finalize, TypeOK
  <2>3. Delivered(e)
    BY <2>2
  <2> QED
    BY <2>1, <2>3 DEF Delivered
<1>2. ASSUME NEW e \in Executors, Advance(e), ~ Finalize(e)
      PROVE  FALSE
  <2>1. ASSUME OverBudget(e) \/ Refuse(e) PROVE FALSE
    BY <1>0, <2>1 DEF OverBudget, Refuse, TypeOK
  <2>2. ASSUME UNCHANGED status PROVE FALSE
    BY <2>2
  <2>3. ASSUME NEW o \in Outcomes, End(e, o) PROVE FALSE
    BY <2>2, <2>3 DEF End, assignmentVars
  <2> QED
    BY <1>2, <2>1, <2>2, <2>3 DEF Advance, Open, Begin, Unassembled, Speak,
       LeaseLost, Name, assignmentVars
<1>3. ASSUME NEW e \in Slots, NEW i \in Items, NEW k \in 0 .. MaxNumber,
             Claim(e, i, k) \/ JobFails(e, i, k)
      PROVE  FALSE
  <2>1. ASSUME ClaimAssignment(e, i) PROVE FALSE
    BY <1>0, <2>1 DEF ClaimAssignment, TypeOK
  <2> QED
    BY <1>3, <2>1 DEF Claim, PassOver, ClaimDuty, ClaimChild, JobFails,
       assignmentVars
<1>4. ASSUME NEW i \in Items, NEW k \in 1 .. MaxNumber, Sweep(i, k)
      PROVE  FALSE
  BY <1>0, <1>4 DEF Sweep, Reclaimed, TypeOK
<1>5. ASSUME Offboard PROVE FALSE
  BY <1>0, <1>5 DEF Offboard, TypeOK
<1>6. ASSUME UNCHANGED status PROVE FALSE
  BY <1>6
<1> QED
  BY <1>1, <1>2, <1>3, <1>4, <1>5, <1>6 DEF Next, Enqueue, Expire, Throw,
     PickUp, Reopen, Retire, Die, vars, assignmentVars

LEMMA NextEarned ==
    ASSUME Placed, SentOpened, DeliveredIsEarned, [Next]_vars
    PROVE  SentOpened' /\ DeliveredIsEarned'
<1>0. sent \subseteq Rows
  BY DEF Placed, TypeOK
<1>1. SentOpened'
  <2>1. CASE sent' = sent
    BY <1>0, <2>1, RunsKept DEF SentOpened
  <2>2. ASSUME NEW e \in Executors, pc[e] = "loop", sent' = sent \cup {At(e)}
        PROVE  SentOpened'
    <3>1. At(e) \in Rows /\ run[At(e)] # "none"
      BY <2>2 DEF Placed, RowsKnown
    <3> QED
      BY <1>0, <2>2, <3>1, RunsKept DEF SentOpened
  <2> QED
    BY <2>1, <2>2, SentMoves
<1>2. sent \subseteq sent'
  BY SentMoves
<1>3. DeliveredIsEarned'
  <2> SUFFICES ASSUME NEW a \in Assignments, status'[a] = "delivered"
               PROVE  \E k \in Opened(a)' : <<a, k>> \in sent'
    BY DEF DeliveredIsEarned
  <2>1. \E k \in 1 .. MaxNumber : <<a, k>> \in sent
    <3>1. CASE status[a] = "delivered"
      BY <3>1 DEF DeliveredIsEarned, Opened
    <3>2. CASE status[a] # "delivered"
      <4>1. PICK e \in Executors : item[e] = a /\ At(e) \in sent
        BY <3>2, DeliveredMoves
      <4> QED
        BY <1>0, <4>1 DEF At, Rows
    <3> QED
      BY <3>1, <3>2
  <2>2. PICK k \in 1 .. MaxNumber : <<a, k>> \in sent
    BY <2>1
  <2>3. run'[<<a, k>>] # "none"
    BY <1>1, <1>2, <2>2 DEF SentOpened
  <2> QED
    BY <1>2, <2>2, <2>3 DEF Opened
<1> QED
  BY <1>1, <1>3

-----------------------------------------------------------------------------
(* The run limit.                                                          *)

\* A duty that is on has a run left to it.
Room ==
    \A d \in Duties :
        /\ on[d] => count[d] < MaxRuns + reopened[d]
        /\ count[d] <= MaxRuns + reopened[d]

\* The occurrences a duty has been charged for: their rows are there, or
\* claimed and about to be.
Charged(d) ==
    {k \in 1 .. MaxNumber :
        \/ run[<<d, k>>] # "none"
        \/ \E e \in Executors : pc[e] = "claimed" /\ At(e) = <<d, k>>}

Accounted == \A d \in Duties : Cardinality(Charged(d)) <= count[d]

\* Every step leaves a duty that is on with a run.
LEMMA NextRoom ==
    ASSUME Placed, Room, [Next]_vars
    PROVE  Room'
<1> USE BoundsAssumption DEF Room
<1>0. TypeOK /\ ScheduleKnown
  BY DEF Placed
<1>1. ASSUME UNCHANGED <<on, count, reopened>> PROVE Room'
  BY <1>1
<1>2. ASSUME NEW e \in Slots, NEW d \in Items, NEW k \in 0 .. MaxNumber,
             ClaimDuty(e, d, k)
      PROVE  Room'
  <2>1. d \in Duties /\ on[d] /\ count[d] \in Nat /\ count[d] + 1 \in Nat
    BY <1>0, <1>2 DEF ClaimDuty, Current, TypeOK
  <2>2. /\ count' = [count EXCEPT ![d] = @ + 1] /\ reopened' = reopened
        /\ on' = [on EXCEPT ![d] = Following(d, count[d] + 1) # 0]
    BY <1>2 DEF ClaimDuty, Reschedule
  <2>3. Following(d, count[d] + 1) # 0 => count[d] + 1 < MaxRuns
    BY <1>0, <2>1, FollowingType
  <2>4. ASSUME NEW b \in Duties, b # d
        PROVE  on'[b] = on[b] /\ count'[b] = count[b]
    BY <1>0, <2>2, <2>4 DEF TypeOK
  <2>5. /\ count'[d] = count[d] + 1 /\ reopened[d] \in Nat
        /\ on'[d] => count[d] + 1 < MaxRuns
    BY <1>0, <2>1, <2>2, <2>3 DEF TypeOK
  <2>6. count[d] < MaxRuns + reopened[d]
    BY <2>1
  <2>7. /\ on'[d] => count'[d] < MaxRuns + reopened'[d]
        /\ count'[d] <= MaxRuns + reopened'[d]
    BY <2>1, <2>2, <2>5, <2>6
  <2> QED
    BY <2>2, <2>4, <2>7
<1>3. ASSUME NEW e \in Slots, NEW d \in Items, NEW k \in 0 .. MaxNumber,
             PassOver(e, d, k)
      PROVE  Room'
  <2>1. d \in Duties /\ count[d] \in Nat /\ count[d] + 1 \in Nat
        /\ UNCHANGED <<count, reopened>>
    BY <1>0, <1>3 DEF PassOver, TypeOK
  <2>2. CASE UNCHANGED <<on, due, issued>>
    BY <1>1, <2>1, <2>2
  <2>3. ASSUME NEW c \in {count[d], count[d] + 1},
               Reschedule(d, Following(d, c))
        PROVE  Room'
    <3>1. on' = [on EXCEPT ![d] = Following(d, c) # 0]
      BY <2>3 DEF Reschedule
    <3>2. Following(d, c) # 0 => c < MaxRuns
      BY <1>0, <2>1, FollowingType
    <3> QED
      BY <1>0, <2>1, <3>1, <3>2 DEF TypeOK
  <2> QED
    BY <1>3, <2>2, <2>3 DEF PassOver, AfterSkip
<1>4. ASSUME NEW d \in Duties, Reopen(d) PROVE Room'
  <2>1. /\ reopened' = [reopened EXCEPT ![d] = @ + 1] /\ count' = count
        /\ \A b \in Duties : b # d => on'[b] = on[b]
    BY <1>0, <1>4 DEF Reopen, Reschedule, TypeOK
  <2> QED
    BY <1>0, <2>1 DEF TypeOK
<1>5. ASSUME NEW d \in Duties, Retire(d) PROVE Room'
  <2>1. /\ UNCHANGED <<count, reopened>> /\ ~ on'[d]
        /\ \A b \in Duties : b # d => on'[b] = on[b]
    BY <1>0, <1>5 DEF Retire, Reschedule, TypeOK
  <2> QED
    BY <2>1
<1>6. ASSUME Offboard PROVE Room'
  <2>1. UNCHANGED <<count, reopened>> /\ \A d \in Duties : ~ on'[d]
    BY <1>6 DEF Offboard
  <2> QED
    BY <2>1
<1>7. ASSUME NEW e \in Executors, Advance(e) \/ Throw(e) PROVE Room'
  BY <1>1, <1>7 DEF Advance, Throw, OverBudget, Refuse, Open, Begin,
     Unassembled, Speak, End, LeaseLost, Name, Finalize, dutyVars
<1>8. ASSUME NEW e \in Slots, NEW i \in Items, NEW k \in 0 .. MaxNumber,
             ClaimAssignment(e, i) \/ ClaimChild(e, i) \/ JobFails(e, i, k)
      PROVE  Room'
  BY <1>1, <1>8 DEF ClaimAssignment, ClaimChild, JobFails, dutyVars
<1> QED
  BY <1>1, <1>2, <1>3, <1>4, <1>5, <1>6, <1>7, <1>8
     DEF Next, Claim, Enqueue, Expire, PickUp, Sweep, Die, vars, dutyVars

\* The count moves with a claim.
LEMMA CountMoves ==
    ASSUME Placed, [Next]_vars, NEW d \in Duties
    PROVE  \/ count'[d] = count[d]
           \/ /\ count'[d] = count[d] + 1
              /\ \E e \in Slots : ClaimDuty(e, d, due[d])
<1>1. ASSUME NEW e \in Slots, NEW i \in Items, NEW k \in 0 .. MaxNumber,
             ClaimDuty(e, i, k)
      PROVE  \/ count'[d] = count[d]
             \/ /\ count'[d] = count[d] + 1
                /\ \E f \in Slots : ClaimDuty(f, d, due[d])
  <2>1. count' = [count EXCEPT ![i] = @ + 1] /\ k = due[i]
    BY <1>1 DEF ClaimDuty, Current
  <2> QED
    BY <1>1, <2>1 DEF Placed, TypeOK
<1>2. ASSUME NEW e \in Executors, Advance(e) \/ Throw(e)
      PROVE  count' = count
  BY <1>2 DEF Advance, Throw, OverBudget, Refuse, Open, Begin,
     Unassembled, Speak, End, LeaseLost, Name, Finalize, dutyVars
<1>3. ASSUME NEW e \in Slots, NEW i \in Items, NEW k \in 0 .. MaxNumber,
             Claim(e, i, k) \/ JobFails(e, i, k), ~ ClaimDuty(e, i, k)
      PROVE  count' = count
  BY <1>3 DEF Claim, PassOver, ClaimAssignment, ClaimChild, JobFails, dutyVars
<1>4. CASE count' = count
  BY <1>4
<1> QED
  BY <1>1, <1>2, <1>3, <1>4 DEF Next, Enqueue, Expire, PickUp, Sweep, Reopen,
     Retire, Offboard, Die, vars, dutyVars

\* What is charged for grows by what is claimed.
LEMMA ChargedMoves ==
    ASSUME Placed, [Next]_vars, NEW d \in Duties
    PROVE  \A k \in Charged(d)' :
               k \in Charged(d) \/ \E e \in Slots : ClaimDuty(e, d, k)
<1> SUFFICES ASSUME NEW k \in 1 .. MaxNumber, k \in Charged(d)'
             PROVE  k \in Charged(d) \/ \E e \in Slots : ClaimDuty(e, d, k)
  BY DEF Charged
<1> DEFINE r == <<d, k>>
<1>0. RowsKnown /\ Moves /\ r \in Rows /\ d \notin Assignments
  BY NextMoves, KindsAssumption DEF Placed, Rows, Items
<1>1. CASE run'[r] # "none"
  <2>1. RunMoves(r)
    BY <1>0 DEF Moves
  <2>2. ASSUME NEW e \in Executors, pc[e] = "claimed", RowFor(e) = r
        PROVE  k \in Charged(d)
    <3>1. item[e] \notin Assignments
      BY <1>0, <2>2 DEF RowFor, At
    <3> QED
      BY <2>2, <3>1 DEF RowFor, Charged
  <2>3. ASSUME NEW e \in Executors, pc[e] = "loop", At(e) = r
        PROVE  k \in Charged(d)
    BY <1>0, <2>3 DEF RowsKnown, Charged
  <2> QED
    BY <1>1, <2>1, <2>2, <2>3 DEF RunMoves, Charged
<1>2. ASSUME NEW f \in Executors, pc'[f] = "claimed", At(f)' = r
      PROVE  k \in Charged(d) \/ \E e \in Slots : ClaimDuty(e, d, k)
  <2>1. ExecutorMoves(f) /\ item'[f] = d /\ nth'[f] = k
    BY <1>0, <1>2 DEF Moves, At
  <2>2. CASE Same(f)
    BY <1>2, <2>2 DEF Same, At, Charged
  <2>3. CASE run[At(f)'] = "waiting"
    BY <1>2, <2>3 DEF Charged
  <2> QED
    BY <1>2, <2>1, <2>2, <2>3 DEF ExecutorMoves, Looping
<1> QED
  BY <1>1, <1>2 DEF Charged

LEMMA NextAccounted ==
    ASSUME Placed, Accounted, [Next]_vars
    PROVE  Accounted'
<1> SUFFICES ASSUME NEW d \in Duties
             PROVE  Cardinality(Charged(d)') <= count'[d]
  BY DEF Accounted
<1>0. count[d] \in Nat /\ Cardinality(Charged(d)) <= count[d]
  BY DEF Placed, TypeOK, Accounted
<1>1. IsFiniteSet(Charged(d))
  <2>1. IsFiniteSet(1 .. MaxNumber)
    BY FS_Interval, BoundsAssumption
  <2> QED
    BY <2>1, FS_Subset DEF Charged
<1>2. Cardinality(Charged(d)) \in Nat
  BY <1>1, FS_CardinalityType
<1>3. CASE count'[d] = count[d] /\ Charged(d)' \subseteq Charged(d)
  <2>1. /\ IsFiniteSet(Charged(d)')
        /\ Cardinality(Charged(d)') <= Cardinality(Charged(d))
    BY <1>1, <1>3, FS_Subset
  <2>2. Cardinality(Charged(d)') \in Nat
    BY <2>1, FS_CardinalityType
  <2> QED
    BY <1>0, <1>2, <1>3, <2>1, <2>2
<1>4. CASE /\ count'[d] = count[d] + 1
           /\ Charged(d)' \subseteq Charged(d) \cup {due[d]}
  <2> DEFINE more == Charged(d) \cup {due[d]}
  <2>1. /\ IsFiniteSet(more)
        /\ Cardinality(more) <= Cardinality(Charged(d)) + 1
        /\ Cardinality(more) \in Nat
    <3>1. /\ IsFiniteSet(more)
          /\ Cardinality(more) = IF due[d] \in Charged(d)
                                 THEN Cardinality(Charged(d))
                                 ELSE Cardinality(Charged(d)) + 1
      BY <1>1, FS_AddElement
    <3> QED
      BY <1>2, <3>1
  <2>2. /\ IsFiniteSet(Charged(d)')
        /\ Cardinality(Charged(d)') <= Cardinality(more)
    BY <1>4, <2>1, FS_Subset
  <2>3. Cardinality(Charged(d)') \in Nat
    BY <2>2, FS_CardinalityType
  <2> QED
    BY <1>0, <1>2, <1>4, <2>1, <2>2, <2>3
<1>5. \/ count'[d] = count[d]
      \/ /\ count'[d] = count[d] + 1
         /\ \E e \in Slots : ClaimDuty(e, d, due[d])
  BY CountMoves
<1>6. ASSUME NEW e \in Slots, NEW k \in 1 .. MaxNumber, ClaimDuty(e, d, k)
      PROVE  count'[d] = count[d] + 1 /\ k = due[d]
  BY <1>6 DEF ClaimDuty, Current, Placed, TypeOK
<1>7. \A k \in Charged(d)' :
          \/ k \in Charged(d)
          \/ count'[d] = count[d] + 1 /\ k = due[d]
  <2>1. Charged(d)' \subseteq 1 .. MaxNumber
    BY DEF Charged
  <2> QED
    BY <1>6, <2>1, ChargedMoves
<1>8. CASE count'[d] = count[d]
  <2>1. count[d] # count[d] + 1
    BY <1>0
  <2> QED
    BY <1>3, <1>7, <1>8, <2>1
<1>9. CASE count'[d] = count[d] + 1
  BY <1>4, <1>7, <1>9
<1> QED
  BY <1>5, <1>8, <1>9

\* Only a parked run of a duty that was taken up is refused without a row to
\* go by: what is counted as taken up covers the refusals and the one that may
\* still be refused.
RefusalsPaid ==
    \A d \in Duties :
        /\ employed => refusals[d] = 0
        /\ refusals[d] <= resumes
        /\ pc[Resumer] = "claimed" /\ item[Resumer] = d
             => refusals[d] < resumes

LEMMA NextRefusals ==
    ASSUME Placed, RefusalsPaid, [Next]_vars
    PROVE  RefusalsPaid'
<1> DEFINE Kept == /\ refusals' = refusals /\ resumes' = resumes
                   /\ employed' => employed
                   /\ pc'[Resumer] = "claimed" =>
                         pc[Resumer] = "claimed"
                         /\ item'[Resumer] = item[Resumer]
<1>0. /\ TypeOK /\ Resumer \in Executors /\ Resumer \notin Slots
      /\ \A d \in Duties :
             d \in Items /\ d \notin Children /\ d \notin Assignments
  BY ExecutorsAssumption, KindsAssumption DEF Placed, Executors, Items
<1>1. ASSUME Kept PROVE RefusalsPaid'
  BY <1>0, <1>1 DEF RefusalsPaid, TypeOK
<1>2. ASSUME NEW e \in Executors, Refuse(e) PROVE RefusalsPaid'
  <2>1. CASE Adopts(e) /\ item[e] \in Duties
    <3>1. /\ e = Resumer /\ pc[e] = "claimed" /\ ~ employed
          /\ refusals' = [refusals EXCEPT ![item[e]] = @ + 1]
          /\ pc' = [pc EXCEPT ![e] = "idle"]
          /\ UNCHANGED <<employed, resumes>>
      BY <1>0, <1>2, <2>1 DEF Refuse, Adopts, Leave, tallies
    <3> QED
      BY <1>0, <2>1, <3>1 DEF RefusalsPaid, TypeOK
  <2>2. CASE ~ (Adopts(e) /\ item[e] \in Duties)
    <3>1. \A d \in Duties : refusals'[d] = refusals[d]
      BY <1>0, <1>2, <2>2 DEF Refuse, TypeOK
    <3>2. /\ UNCHANGED <<employed, resumes>>
          /\ pc'[Resumer] = "claimed" =>
                 pc[Resumer] = "claimed" /\ item'[Resumer] = item[Resumer]
      BY <1>0, <1>2 DEF Refuse, Leave, tallies, TypeOK
    <3> QED
      BY <3>1, <3>2 DEF RefusalsPaid
  <2> QED
    BY <2>1, <2>2
<1>3. ASSUME NEW i \in Items, NEW k \in 1 .. MaxNumber, PickUp(i, k)
      PROVE  RefusalsPaid'
  <2>1. /\ resumes' = resumes + 1 /\ resumes \in Nat
        /\ UNCHANGED <<refusals, employed>>
        /\ \A d \in Duties : refusals[d] \in Nat
    BY <1>0, <1>3 DEF PickUp, TypeOK, history
  <2> QED
    BY <2>1 DEF RefusalsPaid
<1>4. ASSUME NEW e \in Slots, NEW i \in Items, NEW k \in 0 .. MaxNumber,
             Claim(e, i, k) \/ JobFails(e, i, k)
      PROVE  Kept
  BY <1>0, <1>4 DEF Claim, PassOver, ClaimDuty, ClaimAssignment, ClaimChild,
     JobFails, Go, TypeOK, tallies, history, execVars
<1>5. ASSUME NEW e \in Executors, Open(e) \/ Begin(e) \/ Speak(e) \/ Name(e)
      PROVE  Kept
  BY <1>0, <1>5 DEF Open, Begin, Speak, Name, Go, Leave, TypeOK, tallies,
     history
<1>6. ASSUME NEW e \in Executors,
             \/ OverBudget(e) \/ Unassembled(e) \/ LeaseLost(e)
             \/ Finalize(e) \/ Throw(e) \/ \E o \in Outcomes : End(e, o)
      PROVE  Kept
  BY <1>0, <1>6 DEF OverBudget, Unassembled, LeaseLost, Finalize, Throw, End,
     Return, Leave, TypeOK, tallies, history
<1>7. ASSUME Offboard \/ \E graceful \in BOOLEAN : Die(graceful)
      PROVE  Kept
  BY <1>0, <1>7 DEF Offboard, Die, TypeOK, history, execVars
<1>8. ASSUME NEW i \in Items, NEW k \in 0 .. MaxNumber,
             \/ Enqueue(i, k) \/ Expire(<<i, k>>) \/ Sweep(i, k)
             \/ i \in Duties /\ (Reopen(i) \/ Retire(i))
      PROVE  Kept
  BY <1>8 DEF Enqueue, Expire, Sweep, Reopen, Retire, execVars, tallies,
     history
<1>9. ASSUME UNCHANGED vars PROVE Kept
  BY <1>9 DEF vars, execVars, tallies, history
<1> QED
  <2>1. \A d \in Duties : d \in Items /\ 0 \in 0 .. MaxNumber
    BY <1>0, BoundsAssumption
  <2>2. \A k \in 1 .. MaxNumber : k \in 0 .. MaxNumber
    OBVIOUS
  <2> QED
    BY <1>1, <1>2, <1>3, <1>4, <1>5, <1>6, <1>7, <1>8, <1>9, <2>1, <2>2
       DEF Next, Advance

\* The rows are among what is charged for.
LEMMA LimitFollows ==
    ASSUME Placed, Room, Accounted, RefusalsPaid
    PROVE  RunLimitKept
<1> SUFFICES ASSUME NEW d \in Duties
             PROVE  Cardinality({k \in 1 .. MaxNumber : run[<<d, k>>] # "none"})
                      <= count[d]
  BY DEF RunLimitKept, Room, RefusalsPaid, Placed, TypeOK
<1> DEFINE rows == {k \in 1 .. MaxNumber : run[<<d, k>>] # "none"}
<1>1. rows \subseteq Charged(d) /\ IsFiniteSet(Charged(d))
  <2>1. IsFiniteSet(1 .. MaxNumber)
    BY FS_Interval, BoundsAssumption
  <2> QED
    BY <2>1, FS_Subset DEF Charged
<1>2. IsFiniteSet(rows) /\ Cardinality(rows) <= Cardinality(Charged(d))
  BY <1>1, FS_Subset
<1>3. Cardinality(rows) \in Nat /\ Cardinality(Charged(d)) \in Nat
  BY <1>1, <1>2, FS_CardinalityType
<1> QED
  BY <1>2, <1>3 DEF Accounted, Placed, TypeOK

-----------------------------------------------------------------------------
(* An occurrence, or a child's brief, is begun once.                       *)

\* An occurrence that has been claimed.
Past(d, k) == k <= issued[d] /\ k # due[d]

Fresh == {"claimed", "opened"}

\* What is begun has been claimed; what a slot is about to begin has been
\* claimed by that slot alone, and was not begun.
OccurrencesOnce ==
    /\ \A d \in Duties, k \in 1 .. MaxNumber :
         begun[<<d, k>>] <= 1 /\ (begun[<<d, k>>] > 0 => Past(d, k))
    /\ \A e \in Slots : pc[e] \in Fresh /\ item[e] \in Duties =>
         Past(item[e], nth[e]) /\ begun[At(e)] = 0
    /\ \A e, f \in Slots :
         /\ e # f /\ pc[e] \in Fresh /\ pc[f] \in Fresh /\ item[e] \in Duties
         => At(e) # At(f)

\* A child has one job, in the queue or at a slot; a continuation that has
\* opened it is on record.
JobsApart ==
    /\ \A e \in Slots : Busy(e) /\ item[e] \in Children =>
         nth[e] = 1 /\ <<item[e], 1>> \notin queue
    /\ \A e, f \in Slots :
         e # f /\ Busy(e) /\ Busy(f) /\ item[e] \in Children
         => item[e] # item[f]
    /\ pc[Resumer] \notin {"idle", "claimed"} /\ item[Resumer] \in Children
         => item[Resumer] \in resumed

\* A child that was begun has an attempt or is not running, and no slot is
\* about to begin it.
BriefsOnce ==
    \A c \in Children : c \notin resumed =>
        /\ \A k \in 1 .. MaxNumber :
             begun[<<c, k>>] <= 1 /\ (begun[<<c, k>>] > 0 => k = 1)
        /\ begun[<<c, 1>>] > 0 =>
             /\ c \in attempt \/ run[<<c, 1>>] # "running"
             /\ \A e \in Slots : pc[e] \in Fresh => item[e] # c

\* Assignments are not counted.
NoneForAssignments ==
    \A a \in Assignments, k \in 1 .. MaxNumber : begun[<<a, k>>] = 0

\* A slot begins what it has opened.
Starts(e) ==
    /\ pc[e] = "opened" /\ pc'[e] \in Looping /\ item[e] \notin Assignments
    /\ e # Resumer
    /\ begun' = [begun EXCEPT ![At(e)] = @ + 1]
    /\ attempt' = Attempts(e, {item[e]})
    /\ \A f \in Executors : f # e => Same(f)
    /\ UNCHANGED <<item, nth, run, due, issued, resumed>>

LEMMA BegunMoves ==
    ASSUME Placed, [Next]_vars
    PROVE  begun' = begun \/ \E e \in Slots : Starts(e)
<1>1. ASSUME NEW e \in Executors, Begin(e)
      PROVE  begun' = begun \/ (e \in Slots /\ Starts(e))
  <2>1. CASE /\ run[At(e)] = "running" /\ ~ Leased(At(e))
             /\ e # Resumer /\ item[e] \notin Assignments
    <3>1. /\ begun' = [begun EXCEPT ![At(e)] = @ + 1]
          /\ attempt' = Attempts(e, {item[e]}) /\ pc[e] = "opened"
          /\ Go(e, IF Adopts(e) THEN "quiet" ELSE "loop", item[e], nth[e])
          /\ UNCHANGED <<run, due, issued, resumed>>
      BY <1>1, <2>1 DEF Begin, dutyVars
    <3>2. /\ pc'[e] \in Looping /\ UNCHANGED <<item, nth>>
          /\ \A f \in Executors : f # e => Same(f)
      BY <3>1 DEF Go, Placed, TypeOK, Same, Looping
    <3> QED
      BY <2>1, <3>1, <3>2 DEF Starts, Executors
  <2> QED
    BY <1>1, <2>1 DEF Begin
<1>2. ASSUME NEW e \in Executors, Advance(e), ~ Begin(e)
      PROVE  begun' = begun
  BY <1>2 DEF Advance, OverBudget, Refuse, Open, Unassembled, Speak, End,
     LeaseLost, Name, Finalize, history
<1>3. ASSUME NEW e \in Slots, NEW i \in Items, NEW k \in 0 .. MaxNumber,
             Claim(e, i, k) \/ JobFails(e, i, k)
      PROVE  begun' = begun
  BY <1>3 DEF Claim, PassOver, ClaimDuty, ClaimAssignment, ClaimChild,
     JobFails, history
<1> QED
  BY <1>1, <1>2, <1>3 DEF Next, Enqueue, Expire, Throw, PickUp, Sweep,
     Reopen, Retire, Offboard, Die, vars, history

\* An occurrence that was claimed is never due again.
LEMMA PastKept ==
    ASSUME Placed, [Next]_vars, NEW d \in Duties, NEW k \in 1 .. MaxNumber,
           Past(d, k)
    PROVE  Past(d, k)'
<1> USE BoundsAssumption DEF Past
<1>0. TypeOK /\ ScheduleKnown /\ issued[d] \in Nat
  BY DEF Placed, TypeOK
<1>1. ASSUME UNCHANGED <<due, issued>> PROVE Past(d, k)'
  BY <1>1
<1>2. ASSUME NEW b \in Duties, NEW next \in {0, issued[b] + 1},
             Reschedule(b, next)
      PROVE  Past(d, k)'
  <2>1. CASE b = d
    <3>1. due'[d] = next /\ issued'[d] \in {issued[d], issued[d] + 1}
      BY <1>0, <1>2, <2>1 DEF Reschedule, TypeOK
    <3> QED
      BY <1>0, <1>2, <2>1, <3>1
  <2>2. CASE b # d
    BY <1>0, <1>2, <2>2 DEF Reschedule, TypeOK
  <2> QED
    BY <2>1, <2>2
<1>3. ASSUME NEW b \in Duties, NEW c \in {count[b], count[b] + 1}
      PROVE  Following(b, c) \in {0, issued[b] + 1}
  <2>1. c \in Nat
    BY <1>0 DEF TypeOK
  <2> QED
    BY <1>0, <2>1, FollowingType
<1>4. ASSUME NEW e \in Slots, NEW i \in Items, NEW j \in 0 .. MaxNumber,
             Claim(e, i, j) \/ JobFails(e, i, j)
      PROVE  Past(d, k)'
  <2>1. CASE PassOver(e, i, j) \/ ClaimDuty(e, i, j)
    BY <1>1, <1>2, <1>3, <2>1 DEF PassOver, ClaimDuty, AfterSkip
  <2>2. CASE ~ (PassOver(e, i, j) \/ ClaimDuty(e, i, j))
    BY <1>1, <1>4, <2>2 DEF Claim, ClaimAssignment, ClaimChild, JobFails,
       dutyVars
  <2> QED
    BY <2>1, <2>2
<1>5. ASSUME NEW b \in Duties, Reopen(b) \/ Retire(b)
      PROVE  Past(d, k)'
  BY <1>2, <1>5 DEF Reopen, Retire
<1>6. ASSUME Offboard PROVE Past(d, k)'
  BY <1>0, <1>6 DEF Offboard
<1>7. ASSUME NEW e \in Executors, Advance(e) \/ Throw(e) PROVE Past(d, k)'
  BY <1>1, <1>7 DEF Advance, Throw, OverBudget, Refuse, Open, Begin,
     Unassembled, Speak, End, LeaseLost, Name, Finalize, dutyVars
<1> QED
  BY <1>1, <1>4, <1>5, <1>6, <1>7 DEF Next, Enqueue, Expire, PickUp, Sweep, Die,
     vars, dutyVars

\* How a slot comes to be about to begin a duty's run.
LEMMA FreshDuty ==
    ASSUME Placed, [Next]_vars, NEW f \in Slots,
           pc'[f] \in Fresh, item'[f] \in Duties
    PROVE  \/ pc[f] \in Fresh /\ item'[f] = item[f] /\ At(f)' = At(f)
           \/ ClaimDuty(f, item'[f], nth'[f])
<1>1. ExecutorMoves(f) /\ f # Resumer /\ item'[f] \notin Assignments
  BY NextMoves, ExecutorsAssumption, KindsAssumption DEF Moves, Executors
<1>2. CASE Same(f)
  BY <1>2 DEF Same, At
<1>3. CASE pc[f] = "claimed" /\ At(f)' = RowFor(f)
  <2>1. item[f] \notin Assignments
    BY <1>1, <1>3 DEF RowFor, At
  <2> QED
    BY <1>3, <2>1 DEF RowFor, At, Fresh
<1> QED
  BY <1>1, <1>2, <1>3 DEF ExecutorMoves, Fresh, Looping

LEMMA NextOccurrences ==
    ASSUME Placed, OccurrencesOnce, [Next]_vars
    PROVE  OccurrencesOnce'
<1>0. TypeOK /\ ScheduleKnown /\ RowsKnown /\ Slots \subseteq Executors
  BY DEF Placed, Executors
<1>1. ASSUME NEW e \in Slots, NEW d \in Duties, NEW k, ClaimDuty(e, d, k)
      PROVE  /\ k \in 1 .. MaxNumber /\ ~ Past(d, k) /\ Past(d, k)'
             /\ k = due[d]
  <2>1. k = due[d] /\ k # 0 /\ k = issued[d] /\ k \in 0 .. MaxNumber
    BY <1>0, <1>1 DEF ClaimDuty, Current, TypeOK, ScheduleKnown
  <2>2. Following(d, count[d] + 1) \in {0, issued[d] + 1}
    <3>1. count[d] + 1 \in Nat
      BY <1>0 DEF TypeOK
    <3> QED
      BY <1>0, <3>1, FollowingType
  <2>3. due'[d] \in {0, k + 1} /\ issued'[d] \in {k, k + 1}
    BY <1>0, <1>1, <2>1, <2>2 DEF ClaimDuty, Reschedule, TypeOK
  <2> QED
    BY <2>1, <2>3, BoundsAssumption DEF Past
<1>2. ASSUME NEW g \in Slots, Starts(g), item[g] \in Duties
      PROVE  Past(item[g], nth[g]) /\ begun[At(g)] = 0 /\ At(g) \in Rows
  BY <1>0, <1>2 DEF Starts, OccurrencesOnce, Fresh, RowsKnown
<1>3. ASSUME NEW d \in Duties, NEW k \in 1 .. MaxNumber
      PROVE  \/ begun'[<<d, k>>] = begun[<<d, k>>]
             \/ \E g \in Slots :
                  /\ Starts(g) /\ At(g) = <<d, k>> /\ item[g] = d
                  /\ nth[g] = k /\ begun'[<<d, k>>] = 1
  <2>1. CASE begun' = begun
    BY <2>1
  <2>2. ASSUME NEW g \in Slots, Starts(g)
        PROVE  \/ begun'[<<d, k>>] = begun[<<d, k>>]
               \/ /\ At(g) = <<d, k>> /\ item[g] = d /\ nth[g] = k
                  /\ begun'[<<d, k>>] = 1
    <3>1. <<d, k>> \in Rows /\ begun' = [begun EXCEPT ![At(g)] = @ + 1]
      BY <2>2 DEF Rows, Items, Starts
    <3>2. CASE At(g) = <<d, k>>
      <4>1. item[g] = d /\ nth[g] = k
        BY <3>2 DEF At
      <4>2. begun[At(g)] = 0
        BY <1>2, <2>2, <4>1
      <4> QED
        BY <1>0, <3>1, <3>2, <4>1, <4>2 DEF TypeOK
    <3> QED
      BY <1>0, <3>1, <3>2 DEF TypeOK
  <2> QED
    BY <2>1, <2>2, BegunMoves
<1>4. ASSUME NEW d \in Duties, NEW k \in 1 .. MaxNumber
      PROVE  /\ begun'[<<d, k>>] <= 1
             /\ begun'[<<d, k>>] > 0 => Past(d, k)'
  <2>1. CASE begun'[<<d, k>>] = begun[<<d, k>>]
    BY <2>1, PastKept DEF OccurrencesOnce
  <2>2. ASSUME NEW g \in Slots, Starts(g), item[g] = d, nth[g] = k,
               begun'[<<d, k>>] = 1
        PROVE  begun'[<<d, k>>] <= 1 /\ Past(d, k)'
    BY <1>2, <2>2, PastKept
  <2> QED
    BY <1>3, <2>1, <2>2
<1>5. ASSUME NEW f \in Slots, pc'[f] \in Fresh, NEW d \in Duties, NEW k,
             item'[f] = d, nth'[f] = k
      PROVE  Past(d, k)' /\ begun'[<<d, k>>] = 0
  <2>0. At(f)' = <<d, k>>
    BY <1>5 DEF At
  <2>1. CASE ClaimDuty(f, d, k)
    <3>1. k \in 1 .. MaxNumber /\ ~ Past(d, k) /\ Past(d, k)'
      BY <1>1, <1>5, <2>1
    <3>2. begun[<<d, k>>] = 0
      <4>1. begun[<<d, k>>] \in Nat /\ ~ begun[<<d, k>>] > 0
        BY <1>0, <1>5, <3>1 DEF OccurrencesOnce, TypeOK, Rows, Items
      <4> QED
        BY <4>1
    <3>3. begun'[<<d, k>>] = begun[<<d, k>>]
      BY <1>2, <1>3, <1>5, <3>1
    <3> QED
      BY <3>1, <3>2, <3>3
  <2>2. CASE pc[f] \in Fresh /\ item'[f] = item[f] /\ At(f)' = At(f)
    <3>0. nth'[f] = nth[f]
      BY <2>2 DEF At
    <3>1. Past(d, k) /\ begun[<<d, k>>] = 0
      BY <1>5, <2>0, <2>2, <3>0 DEF OccurrencesOnce
    <3>2. <<d, k>> \in Rows
      <4>0. f # Resumer /\ item[f] \notin Assignments
        BY <1>5, <2>2, ExecutorsAssumption, KindsAssumption
      <4>1. At(f) \in Rows
        BY <1>0, <1>5, <2>2, <4>0 DEF RowsKnown, Fresh
      <4> QED
        BY <2>0, <2>2, <4>1
    <3>3. k \in 1 .. MaxNumber
      BY <3>2 DEF Rows
    <3>4. begun'[<<d, k>>] = begun[<<d, k>>]
      <4> SUFFICES ASSUME NEW g \in Slots, Starts(g), At(g) = <<d, k>>
                   PROVE  FALSE
        BY <1>3, <1>5, <3>3
      <4>1. g # f
        BY <1>5 DEF Starts, Fresh, Looping
      <4>2. pc[g] \in Fresh /\ item[g] = d
        BY DEF Starts, Fresh, At
      <4> QED
        BY <1>5, <2>0, <2>2, <4>1, <4>2 DEF OccurrencesOnce
    <3>5. Past(d, k)'
      BY <1>5, <3>1, <3>3, PastKept
    <3> QED
      BY <3>1, <3>4, <3>5
  <2> QED
    BY <1>5, <2>1, <2>2, FreshDuty
<1>6. ASSUME NEW e \in Slots, NEW f \in Slots, e # f, pc'[e] \in Fresh,
             pc'[f] \in Fresh, item'[e] \in Duties
      PROVE  At(e)' # At(f)'
  <2> SUFFICES ASSUME At(e)' = At(f)', NEW d \in Duties, NEW k,
                      item'[e] = d, nth'[e] = k
               PROVE  FALSE
    BY <1>6
  <2>1. item'[f] = d /\ nth'[f] = k
    BY DEF At
  <2>2. ASSUME NEW g \in {e, f}
        PROVE  \/ /\ pc[g] \in Fresh /\ item[g] = d /\ At(g) = At(g)'
                  /\ Past(d, k)
               \/ ClaimDuty(g, d, k) /\ ~ Past(d, k)
    <3>1. g \in Slots /\ pc'[g] \in Fresh /\ item'[g] = d /\ nth'[g] = k
      BY <1>6, <2>1
    <3>2. CASE pc[g] \in Fresh /\ item'[g] = item[g] /\ At(g)' = At(g)
      <4>1. nth[g] = k
        BY <3>1, <3>2 DEF At
      <4> QED
        BY <1>6, <3>1, <3>2, <4>1 DEF OccurrencesOnce
    <3>3. CASE ClaimDuty(g, d, k)
      BY <1>1, <1>6, <3>1, <3>3
    <3> QED
      BY <1>6, <3>1, <3>2, <3>3, FreshDuty
  <2>3. CASE ClaimDuty(e, d, k) /\ ClaimDuty(f, d, k)
    BY <1>6, <2>3 DEF ClaimDuty, Take
  <2>4. CASE /\ pc[e] \in Fresh /\ item[e] = d /\ At(e) = At(e)'
             /\ pc[f] \in Fresh /\ At(f) = At(f)'
    BY <1>6, <2>4 DEF OccurrencesOnce
  <2> QED
    BY <2>2, <2>3, <2>4
<1>7. ASSUME NEW f \in Slots, pc'[f] \in Fresh, item'[f] \in Duties
      PROVE  Past(item[f], nth[f])' /\ begun'[At(f)'] = 0
  <2> SUFFICES ASSUME NEW d \in Duties, NEW k, item'[f] = d, nth'[f] = k
               PROVE  Past(item[f], nth[f])' /\ begun'[At(f)'] = 0
    BY <1>7
  <2>1. Past(d, k)' /\ begun'[<<d, k>>] = 0
    BY <1>5, <1>7
  <2> QED
    BY <2>1 DEF Past, At
<1> QED
  BY <1>4, <1>6, <1>7 DEF OccurrencesOnce

LEMMA NextNone ==
    ASSUME Placed, NoneForAssignments, [Next]_vars
    PROVE  NoneForAssignments'
<1>1. ASSUME NEW g \in Slots, Starts(g),
             NEW a \in Assignments, NEW k \in 1 .. MaxNumber
      PROVE  begun'[<<a, k>>] = begun[<<a, k>>]
  <2>1. At(g) # <<a, k>>
    BY <1>1 DEF Starts, At
  <2> QED
    BY <1>1, <2>1 DEF Starts, Placed, TypeOK, Rows, Items
<1> QED
  BY <1>1, BegunMoves DEF NoneForAssignments

\* How a slot comes to be busy with a child.
LEMMA BusyChild ==
    ASSUME Placed, [Next]_vars, NEW f \in Slots, NEW c \in Children,
           pc'[f] # "idle", item'[f] = c
    PROVE  \/ Busy(f) /\ item[f] = c /\ nth'[f] = nth[f]
              /\ (pc'[f] \in Fresh => pc[f] \in Fresh)
           \/ ClaimChild(f, c) /\ pc'[f] = "claimed"
<1>1. /\ ExecutorMoves(f) /\ f # Resumer
      /\ c \notin Assignments /\ c \notin Duties
  BY NextMoves, ExecutorsAssumption, KindsAssumption DEF Moves, Executors
<1>2. CASE Same(f)
  BY <1>2 DEF Same, Busy
<1>3. CASE pc[f] = "claimed" /\ At(f)' = RowFor(f)
  <2>1. item[f] = c
    BY <1>3 DEF RowFor, At
  <2> QED
    BY <1>1, <1>3, <2>1 DEF RowFor, At, Busy, Fresh
<1>4. CASE (pc[f] = "opened" \/ pc[f] = "quiet") /\ At(f)' = At(f)
           /\ pc'[f] \in Looping
  BY <1>4 DEF At, Busy, Fresh, Looping
<1>5. CASE /\ pc[f] \in {"opened", "loop", "ended"}
           /\ pc'[f] \in {"ended", "named"}
           /\ item'[f] = item[f] /\ nth'[f] = nth[f]
  BY <1>5 DEF Fresh, Busy
<1>6. CASE /\ pc'[f] = "claimed"
           /\ ClaimAssignment(f, item'[f]) \/ ClaimChild(f, item'[f])
  BY <1>1, <1>6 DEF ClaimAssignment
<1>7. ~ ClaimDuty(f, item'[f], nth'[f])
  BY <1>1 DEF ClaimDuty
<1>8. "loop" \in Looping
  BY DEF Looping
<1> QED
  BY <1>1, <1>2, <1>3, <1>4, <1>5, <1>6, <1>7, <1>8, Zenon DEF ExecutorMoves

\* How a job comes to be in the queue.
LEMMA QueueMoves ==
    ASSUME Placed, [Next]_vars, NEW c \in Children, <<c, 1>> \in queue'
    PROVE  \/ <<c, 1>> \in queue
              /\ \A f \in Slots : ~ (ClaimChild(f, c) /\ pc'[f] = "claimed")
           \/ Enqueue(c, 1)
           \/ \A f \in Executors : pc'[f] = "idle"
<1>0. ASSUME NEW f \in Slots, ClaimChild(f, c)
      PROVE  FALSE
  BY <1>0 DEF ClaimChild, Take
<1> SUFFICES \/ <<c, 1>> \in queue \/ Enqueue(c, 1)
             \/ \A f \in Executors : pc'[f] = "idle"
  BY <1>0
<1>1. ASSUME NEW i \in Items, NEW k \in 0 .. MaxNumber, Enqueue(i, k)
      PROVE  <<c, 1>> \in queue \/ Enqueue(c, 1)
  BY <1>1 DEF Enqueue
<1>2. ASSUME NEW e \in Slots, NEW i \in Items, NEW k \in 0 .. MaxNumber,
             Claim(e, i, k) \/ JobFails(e, i, k)
      PROVE  <<c, 1>> \in queue
  BY <1>2 DEF Claim, PassOver, ClaimDuty, ClaimAssignment, ClaimChild,
     JobFails, Take
<1>3. ASSUME NEW e \in Executors, Advance(e) \/ Throw(e)
      PROVE  <<c, 1>> \in queue
  <2>1. CASE queue' = queue
    BY <2>1
  <2>2. ASSUME NEW o, Return(e, o) PROVE queue' = queue
    BY <2>2 DEF Return, Leave, queueVars
  <2> QED
    BY <1>3, <2>1, <2>2 DEF Advance, Throw, OverBudget, Refuse, Open, Begin,
       Unassembled, Speak, End, LeaseLost, Name, Finalize, Leave, queueVars
<1> QED
  BY <1>1, <1>2, <1>3 DEF Next, Expire, PickUp, Sweep, Reopen, Retire, Offboard,
     Die, vars, queueVars

LEMMA ResumedKept ==
    ASSUME [Next]_vars
    PROVE  resumed \subseteq resumed'
<1>1. ASSUME NEW e \in Slots, NEW i \in Items, NEW k \in 0 .. MaxNumber,
             Claim(e, i, k) \/ JobFails(e, i, k)
      PROVE  resumed' = resumed
  BY <1>1 DEF Claim, PassOver, ClaimDuty, ClaimAssignment, ClaimChild,
     JobFails, history
<1>2. ASSUME NEW e \in Executors, Advance(e) \/ Throw(e)
      PROVE  resumed \subseteq resumed'
  BY <1>2 DEF Advance, Throw, OverBudget, Refuse, Open, Begin, Unassembled,
     Speak, End, LeaseLost, Name, Finalize, history
<1> QED
  BY <1>1, <1>2 DEF Next, Enqueue, Expire, PickUp, Sweep, Reopen, Retire,
     Offboard, Die, vars, history

LEMMA NextJobs ==
    ASSUME Placed, JobsApart, [Next]_vars
    PROVE  JobsApart'
<1>1. ASSUME NEW f \in Slots, NEW c \in Children, pc'[f] # "idle",
             item'[f] = c
      PROVE  nth'[f] = 1 /\ <<c, 1>> \notin queue'
  <2>0. f \in Executors
    BY DEF Executors
  <2>1. CASE ClaimChild(f, c) /\ pc'[f] = "claimed"
    <3>1. Unstarted(c)
      BY <2>0, <2>1 DEF ClaimChild, Take, Busy
    <3>2. nth'[f] = 1
      BY <2>0, <2>1, <3>1 DEF ClaimChild, Go, Placed, TypeOK
    <3> QED
      BY <2>1, <3>2 DEF ClaimChild, Take
  <2>2. CASE Busy(f) /\ item[f] = c /\ nth'[f] = nth[f]
    <3>1. nth[f] = 1 /\ <<c, 1>> \notin queue
      BY <2>2 DEF JobsApart
    <3>2. ~ Enqueue(c, 1)
      <4>1. c \notin Assignments
        BY KindsAssumption
      <4> QED
        BY <2>2, <3>1, <4>1 DEF Enqueue, Held
    <3> QED
      BY <1>1, <2>0, <2>2, <3>1, <3>2, QueueMoves
  <2> QED
    BY <1>1, <2>1, <2>2, BusyChild
<1>2. ASSUME NEW e \in Slots, NEW f \in Slots, e # f, NEW c \in Children,
             pc'[e] # "idle", pc'[f] # "idle", item'[e] = c, item'[f] = c
      PROVE  FALSE
  <2>1. ASSUME NEW g \in {e, f}
        PROVE  \/ Busy(g) /\ item[g] = c /\ <<c, 1>> \notin queue
               \/ ClaimChild(g, c) /\ <<c, 1>> \in queue
    <3>1. g \in Slots /\ pc'[g] # "idle" /\ item'[g] = c
      BY <1>2
    <3> QED
      BY <3>1, BusyChild DEF JobsApart, ClaimChild, Take
  <2>2. CASE Busy(e) /\ item[e] = c /\ Busy(f) /\ item[f] = c
    BY <1>2, <2>2 DEF JobsApart
  <2>3. CASE ClaimChild(e, c) /\ ClaimChild(f, c)
    BY <1>2, <2>3 DEF ClaimChild, Take
  <2> QED
    BY <2>1, <2>2, <2>3
<1>3. ASSUME pc'[Resumer] \notin {"idle", "claimed"},
             item'[Resumer] \in Children
      PROVE  item'[Resumer] \in resumed'
  <2>1. ExecutorMoves(Resumer) /\ Resumer \notin Slots
    BY NextMoves, ExecutorsAssumption DEF Moves, Executors
  <2>2. CASE Same(Resumer)
    BY <1>3, <2>2, ResumedKept DEF Same, JobsApart
  <2>3. CASE pc[Resumer] = "claimed" /\ At(Resumer)' = RowFor(Resumer)
             /\ TakenUp(Resumer)
    <3>1. item'[Resumer] = item[Resumer]
      BY <2>3 DEF RowFor, At
    <3> QED
      BY <1>3, <2>3, <3>1 DEF TakenUp
  <2>4. CASE pc[Resumer] \in {"opened", "quiet"} /\ At(Resumer)' = At(Resumer)
    BY <1>3, <2>4, ResumedKept DEF At, JobsApart
  <2>5. CASE /\ pc[Resumer] \in {"opened", "loop", "ended"}
             /\ item'[Resumer] = item[Resumer]
    BY <1>3, <2>5, ResumedKept DEF JobsApart
  <2> QED
    BY <1>3, <2>1, <2>2, <2>3, <2>4, <2>5 DEF ExecutorMoves
<1> QED
  BY <1>1, <1>2, <1>3 DEF JobsApart, Busy

\* An attempt is over when the loop at it is, and its run does not run on.
LEMMA AttemptMoves ==
    ASSUME Placed, [Next]_vars, NEW c \in Children,
           c \in attempt, c \notin attempt'
    PROVE  \E e \in Executors :
             pc[e] \in Looping /\ item[e] = c /\ run'[At(e)] # "running"
<1>0. TypeOK /\ RowsKnown
  BY DEF Placed
<1>1. ASSUME NEW e \in Executors, NEW o \in Outcomes, End(e, o)
      PROVE  pc[e] \in Looping /\ item[e] = c /\ run'[At(e)] # "running"
  <2>1. RunStatus(o) # "running"
    BY DEF RunStatus, Outcomes, Parking
  <2>2. At(e) \in Rows /\ pc[e] = "loop"
    BY <1>0, <1>1 DEF End, RowsKnown
  <2>3. item[e] = c
    BY <1>1 DEF End, Attempts
  <2> QED
    BY <1>0, <1>1, <2>1, <2>2, <2>3 DEF End, TypeOK, Looping
<1>2. ASSUME NEW e \in Executors, Throw(e)
      PROVE  pc[e] \in Looping /\ item[e] = c /\ run'[At(e)] # "running"
  <2>1. pc[e] \in Looping /\ item[e] = c
    BY <1>2 DEF Throw, Attempts
  <2>2. At(e) \in Rows
    BY <1>0, <2>1 DEF RowsKnown, Looping
  <2> QED
    BY <1>0, <1>2, <2>1, <2>2 DEF Throw, TypeOK
<1>3. ASSUME NEW e \in Executors, Begin(e) PROVE FALSE
  BY <1>3 DEF Begin, Attempts
<1>4. ASSUME NEW e \in Executors, Advance(e)
      PROVE  \E o \in Outcomes : End(e, o)
  BY <1>3, <1>4 DEF Advance, OverBudget, Refuse, Open, Unassembled, Speak,
     LeaseLost, Name, Finalize, runVars
<1>5. ASSUME NEW e \in Slots, NEW i \in Items, NEW k \in 0 .. MaxNumber,
             Claim(e, i, k) \/ JobFails(e, i, k)
      PROVE  FALSE
  BY <1>5 DEF Claim, PassOver, ClaimDuty, ClaimAssignment, ClaimChild,
     JobFails, runVars
<1> QED
  BY <1>1, <1>2, <1>4, <1>5 DEF Next, Enqueue, Expire, PickUp, Sweep, Reopen,
     Retire, Offboard, Die, vars, runVars

LEMMA NextBriefs ==
    ASSUME Placed, JobsApart, BriefsOnce, [Next]_vars
    PROVE  BriefsOnce'
<1> SUFFICES ASSUME NEW c \in Children, c \notin resumed'
             PROVE  /\ \A k \in 1 .. MaxNumber :
                         /\ begun'[<<c, k>>] <= 1
                         /\ begun'[<<c, k>>] > 0 => k = 1
                    /\ begun'[<<c, 1>>] > 0 =>
                         /\ c \in attempt' \/ run'[<<c, 1>>] # "running"
                         /\ \A e \in Slots : pc'[e] \in Fresh => item'[e] # c
  BY DEF BriefsOnce
<1>0. /\ TypeOK /\ RowsKnown /\ Moves /\ Slots \subseteq Executors
      /\ Resumer \notin Slots /\ c \notin resumed /\ c \notin Assignments
      /\ 1 \in 1 .. MaxNumber /\ <<c, 1>> \in Rows
      /\ \A k \in 1 .. MaxNumber :
           <<c, k>> \in Rows /\ begun[<<c, k>>] \in Nat
  BY NextMoves, ResumedKept, ExecutorsAssumption, KindsAssumption,
     BoundsAssumption DEF Placed, TypeOK, Executors, Rows, Items
<1>1. ASSUME NEW g \in Slots, Starts(g), item[g] = c
      PROVE  /\ At(g) = <<c, 1>> /\ begun[<<c, 1>>] = 0
             /\ begun'[<<c, 1>>] = 1 /\ c \in attempt'
             /\ \A f \in Slots : pc'[f] \in Fresh => item'[f] # c
             /\ \A k \in 1 .. MaxNumber :
                  k # 1 => begun'[<<c, k>>] = begun[<<c, k>>]
  <2>1. Busy(g) /\ pc[g] \in Fresh /\ At(g) = <<c, 1>>
    BY <1>1 DEF Starts, Busy, Fresh, JobsApart, At
  <2>2. begun[<<c, 1>>] = 0
    BY <1>0, <1>1, <2>1 DEF BriefsOnce
  <2>3. /\ begun'[<<c, 1>>] = 1
        /\ \A k \in 1 .. MaxNumber :
             k # 1 => begun'[<<c, k>>] = begun[<<c, k>>]
    BY <1>0, <1>1, <2>1, <2>2 DEF Starts, TypeOK
  <2>4. c \in attempt'
    BY <1>1 DEF Starts, Attempts
  <2>5. ASSUME NEW f \in Slots, pc'[f] \in Fresh, item'[f] = c
        PROVE  FALSE
    <3>1. f # g
      BY <1>1, <2>5 DEF Starts, Fresh, Looping
    <3>2. Same(f)
      BY <1>0, <1>1, <3>1 DEF Starts
    <3> QED
      BY <1>1, <2>1, <2>5, <3>1, <3>2 DEF Same, JobsApart, Busy, Fresh
  <2> QED
    BY <2>1, <2>2, <2>3, <2>4, <2>5
<1>2. ASSUME NEW g \in Slots, Starts(g), item[g] # c
      PROVE  \A k \in 1 .. MaxNumber : begun'[<<c, k>>] = begun[<<c, k>>]
  BY <1>0, <1>2 DEF Starts, TypeOK, At
<1>3. CASE \E g \in Slots : Starts(g) /\ item[g] = c
  BY <1>0, <1>1, <1>3 DEF BriefsOnce
<1>4. CASE \A k \in 1 .. MaxNumber : begun'[<<c, k>>] = begun[<<c, k>>]
  <2>1. \A k \in 1 .. MaxNumber :
          begun'[<<c, k>>] <= 1 /\ (begun'[<<c, k>>] > 0 => k = 1)
    BY <1>0, <1>4 DEF BriefsOnce
  <2> SUFFICES ASSUME begun[<<c, 1>>] > 0
               PROVE  /\ c \in attempt' \/ run'[<<c, 1>>] # "running"
                      /\ \A e \in Slots : pc'[e] \in Fresh => item'[e] # c
    BY <1>0, <1>4, <2>1
  <2>2. /\ c \in attempt \/ run[<<c, 1>>] # "running"
        /\ \A e \in Slots : pc[e] \in Fresh => item[e] # c
    BY <1>0 DEF BriefsOnce
  <2>3. ASSUME c \in attempt, c \notin attempt'
        PROVE  run'[<<c, 1>>] # "running"
    <3>1. PICK e \in Executors :
            pc[e] \in Looping /\ item[e] = c /\ run'[At(e)] # "running"
      BY <2>3, AttemptMoves
    <3>2. e \in Slots
      BY <1>0, <3>1 DEF JobsApart, Executors, Looping
    <3>3. At(e) = <<c, 1>>
      BY <3>1, <3>2 DEF JobsApart, Busy, Looping, At
    <3> QED
      BY <3>1, <3>3
  <2>4. ASSUME run[<<c, 1>>] # "running", run'[<<c, 1>>] = "running"
        PROVE  FALSE
    <3>1. PICK e \in Executors :
            pc[e] = "claimed" /\ RowFor(e) = <<c, 1>> /\ TakenUp(e)
      BY <1>0, <2>4 DEF Moves, RunMoves
    <3>2. item[e] = c
      BY <3>1 DEF RowFor, At
    <3>3. CASE e \in Slots
      BY <2>2, <3>1, <3>2, <3>3 DEF Fresh
    <3>4. CASE e = Resumer
      BY <3>1, <3>2, <3>4 DEF TakenUp
    <3> QED
      BY <3>3, <3>4 DEF Executors
  <2>5. ASSUME NEW f \in Slots, pc'[f] \in Fresh, item'[f] = c
        PROVE  FALSE
    <3>1. pc'[f] # "idle"
      BY <2>5 DEF Fresh
    <3>2. CASE ClaimChild(f, c) /\ pc'[f] = "claimed"
      <4>1. Unstarted(c)
        BY <1>0, <3>2 DEF ClaimChild, Take, Busy
      <4> QED
        BY <2>2, <4>1 DEF Unstarted
    <3> QED
      BY <2>2, <2>5, <3>1, <3>2, BusyChild
  <2> QED
    BY <2>2, <2>3, <2>4, <2>5
<1> QED
  BY <1>2, <1>3, <1>4, BegunMoves

\* What was begun twice was taken up again.
LEMMA OnceFollows ==
    ASSUME TypeOK, OccurrencesOnce, BriefsOnce, NoneForAssignments
    PROVE  BegunOnce
<1> SUFFICES ASSUME NEW i \in Items, NEW k \in 1 .. MaxNumber,
                    begun[<<i, k>>] > 1, i \notin resumed
             PROVE  FALSE
  BY DEF BegunOnce, Rows
<1>1. begun[<<i, k>>] \in Nat
  BY DEF TypeOK, Rows
<1>2. CASE i \in Duties
  BY <1>1, <1>2 DEF OccurrencesOnce
<1>3. CASE i \in Assignments
  BY <1>3 DEF NoneForAssignments
<1>4. CASE i \in Children
  <2>1. begun[<<i, k>>] <= 1
    BY <1>4, Zenon DEF BriefsOnce
  <2> QED
    BY <1>1, <2>1
<1> QED
  BY <1>2, <1>3, <1>4 DEF Items

-----------------------------------------------------------------------------
(* The starts of an assignment.                                            *)

\* What an assignment has been started, or is about to be: its runs, and the
\* slots that have claimed it and not opened a row.
Taking(a) == {s \in Slots : pc[s] = "claimed" /\ item[s] = a}
Started(a) == Cardinality(Opened(a)) + Cardinality(Taking(a))

TakersFresh ==
    \A s \in Slots :
        pc[s] = "claimed" /\ item[s] \in Assignments => nth[s] = 0

\* Until it is revived, an assignment has been started once by the time it is
\* first reclaimed, and only what is over forgets that it was.
StartsBounded ==
    \A a \in Assignments : a \notin revived =>
        /\ Started(a) <= 2
        /\ status[a] = "pending" => Started(a) <= 1
        /\ a \notin marked =>
             /\ status[a] = "pending" => Started(a) = 0
             /\ a \in Over \/ Started(a) <= 1

LEMMA StartsFinite ==
    ASSUME NEW a \in Assignments
    PROVE  /\ IsFiniteSet(Opened(a)) /\ Cardinality(Opened(a)) \in Nat
           /\ IsFiniteSet(Taking(a)) /\ Cardinality(Taking(a)) \in Nat
           /\ Started(a) \in Nat
<1>1. IsFiniteSet(Opened(a))
  <2>1. IsFiniteSet(1 .. MaxNumber)
    BY FS_Interval, BoundsAssumption
  <2> QED
    BY <2>1, FS_Subset DEF Opened
<1>2. IsFiniteSet(Taking(a))
  BY FS_Subset, ExecutorsAssumption DEF Taking
<1>3. Cardinality(Opened(a)) \in Nat /\ Cardinality(Taking(a)) \in Nat
  BY <1>1, <1>2, FS_CardinalityType
<1> QED
  BY <1>1, <1>2, <1>3 DEF Started

\* A claim of an assignment counts from the start: a slot that claims one has
\* no run of it.
LEMMA NextTakers ==
    ASSUME Placed, TakersFresh, [Next]_vars
    PROVE  TakersFresh'
<1> SUFFICES ASSUME NEW s \in Slots,
                    pc'[s] = "claimed", item'[s] \in Assignments
             PROVE  nth'[s] = 0
  BY DEF TakersFresh
<1>0. /\ TypeOK /\ ExecutorMoves(s) /\ s \in Executors /\ s # Resumer
      /\ item'[s] \notin Duties /\ item'[s] \notin Children
  BY NextMoves, ExecutorsAssumption, KindsAssumption
     DEF Placed, Moves, Executors
<1>1. CASE Same(s)
  BY <1>1 DEF Same, TakersFresh
<1>2. ASSUME ClaimAssignment(s, item'[s]), ~ Same(s)
      PROVE  nth'[s] = 0
  <2>1. CASE Claimable(item'[s])
    BY <1>0, <1>2, <2>1 DEF ClaimAssignment, Go, TypeOK
  <2>2. CASE ~ Claimable(item'[s])
    BY <1>2, <2>2 DEF ClaimAssignment, Same
  <2> QED
    BY <2>1, <2>2
<1>3. ASSUME ClaimChild(s, item'[s]) \/ ClaimDuty(s, item'[s], nth'[s])
      PROVE  FALSE
  BY <1>0, <1>3 DEF ClaimChild, ClaimDuty
<1> QED
  BY <1>0, <1>1, <1>2, <1>3 DEF ExecutorMoves, Looping

\* A row of an assignment is taken by a slot that had claimed it.
LEMMA OpenedMoves ==
    ASSUME Placed, [Next]_vars, NEW a \in Assignments, NEW k \in Opened(a)'
    PROVE  \/ k \in Opened(a)
           \/ \E s \in Slots : /\ s \in Taking(a) /\ s \notin Taking(a)'
                              /\ RowFor(s) = <<a, k>>
<1> DEFINE r == <<a, k>>
<1>0. /\ RowsKnown /\ k \in 1 .. MaxNumber /\ r \in Rows /\ run'[r] # "none"
      /\ RunMoves(r)
  BY NextMoves DEF Placed, Moves, Opened, Rows, Items
<1>1. ASSUME NEW e \in Executors, pc[e] = "claimed", pc'[e] # "claimed",
             RowFor(e) = r
      PROVE  \/ k \in Opened(a)
             \/ \E s \in Slots : /\ s \in Taking(a) /\ s \notin Taking(a)'
                                /\ RowFor(s) = <<a, k>>
  <2>1. item[e] = a
    BY <1>1 DEF RowFor, At
  <2>2. CASE e \in Slots
    <3>1. e \in Taking(a) /\ e \notin Taking(a)'
      BY <1>1, <2>1, <2>2 DEF Taking
    <3> QED
      BY <1>1, <2>2, <3>1
  <2>3. CASE e = Resumer
    <3>1. At(e) \in Rows /\ run[At(e)] # "none"
      BY <1>0, <1>1, <2>3 DEF RowsKnown
    <3>2. nth[e] # 0
      BY <3>1, BoundsAssumption DEF At, Rows
    <3>3. At(e) = r
      BY <1>1, <3>2 DEF RowFor
    <3> QED
      BY <1>0, <3>1, <3>3 DEF Opened
  <2> QED
    BY <2>2, <2>3 DEF Executors
<1>2. ASSUME NEW e \in Executors, pc[e] = "loop", At(e) = r
      PROVE  k \in Opened(a)
  BY <1>0, <1>2 DEF RowsKnown, Opened
<1> QED
  BY <1>0, <1>1, <1>2 DEF RunMoves, Opened

\* A slot comes to hold an assignment by a claim that was granted.
LEMMA TakingMoves ==
    ASSUME Placed, [Next]_vars, NEW a \in Assignments,
           NEW s \in Taking(a)', s \notin Taking(a)
    PROVE  ClaimAssignment(s, a) /\ Claimable(a)
<1>0. /\ TypeOK /\ ExecutorMoves(s) /\ s \in Slots /\ s \in Executors
      /\ s # Resumer /\ pc'[s] = "claimed" /\ item'[s] = a
      /\ a \notin Duties /\ a \notin Children
  BY NextMoves, ExecutorsAssumption, KindsAssumption
     DEF Placed, Moves, Taking, Executors
<1>1. ~ Same(s)
  BY <1>0 DEF Same, Taking
<1>2. ASSUME ClaimChild(s, a) \/ ClaimDuty(s, a, nth'[s])
      PROVE  FALSE
  BY <1>0, <1>2 DEF ClaimChild, ClaimDuty
<1>3. ClaimAssignment(s, a)
  BY <1>0, <1>1, <1>2 DEF ExecutorMoves, Looping
<1>4. ASSUME ~ Claimable(a) PROVE FALSE
  BY <1>1, <1>3, <1>4 DEF ClaimAssignment, Same
<1> QED
  BY <1>3, <1>4

\* A step starts an assignment at most once, and only by claiming it.
LEMMA StartedMoves ==
    ASSUME Placed, TakersFresh, [Next]_vars, NEW a \in Assignments
    PROVE  \/ Started(a)' <= Started(a)
           \/ /\ Started(a)' <= Started(a) + 1
              /\ status[a] = "pending" /\ status'[a] = "working"
              /\ UNCHANGED <<marked, revived>>
<1> DEFINE next == Cardinality(Opened(a)) + 1
<1>0. /\ IsFiniteSet(Opened(a)) /\ Cardinality(Opened(a)) \in Nat
      /\ IsFiniteSet(Taking(a)) /\ Cardinality(Taking(a)) \in Nat
  BY StartsFinite
<1>1. ASSUME NEW s \in Slots, ClaimAssignment(s, a), Claimable(a)
      PROVE  /\ Started(a)' <= Started(a) + 1
             /\ status[a] = "pending" /\ status'[a] = "working"
             /\ UNCHANGED <<marked, revived>>
  <2>1. /\ status[a] = "pending" /\ status'[a] = "working"
        /\ UNCHANGED <<marked, revived, run>>
    BY <1>1 DEF Claimable, ClaimAssignment, Placed, TypeOK, history, runVars
  <2>2. Opened(a)' = Opened(a)
    BY <2>1 DEF Opened
  <2>3. Taking(a)' \subseteq Taking(a) \cup {s}
    BY <1>1 DEF ClaimAssignment, Go, Taking, Placed, TypeOK, Executors
  <2>4. /\ IsFiniteSet(Taking(a) \cup {s})
        /\ Cardinality(Taking(a) \cup {s}) =
             IF s \in Taking(a) THEN Cardinality(Taking(a))
                                ELSE Cardinality(Taking(a)) + 1
    BY <1>0, FS_AddElement
  <2>5. /\ Cardinality(Taking(a)') <= Cardinality(Taking(a) \cup {s})
        /\ IsFiniteSet(Taking(a)')
    BY <2>3, <2>4, FS_Subset
  <2>6. Cardinality(Taking(a)') \in Nat
    BY <2>5, FS_CardinalityType
  <2>7. Cardinality(Taking(a)') <= Cardinality(Taking(a)) + 1
    BY <1>0, <2>4, <2>5, <2>6
  <2>8. Started(a)' = Cardinality(Opened(a)) + Cardinality(Taking(a)')
    BY <2>2 DEF Started
  <2> QED
    BY <1>0, <2>1, <2>6, <2>7, <2>8 DEF Started
<1>2. CASE \A s \in Slots : ~ (ClaimAssignment(s, a) /\ Claimable(a))
  <2>1. Taking(a)' \subseteq Taking(a)
    <3>1. Taking(a)' \subseteq Slots
      BY DEF Taking
    <3> QED
      BY <1>2, <3>1, TakingMoves
  <2>2. /\ IsFiniteSet(Taking(a)') /\ Cardinality(Taking(a)') \in Nat
        /\ Cardinality(Taking(a)') <= Cardinality(Taking(a))
    BY <1>0, <2>1, FS_Subset, FS_CardinalityType
  <2>3. CASE Opened(a)' \subseteq Opened(a)
    <3>1. /\ Cardinality(Opened(a)') \in Nat
          /\ Cardinality(Opened(a)') <= Cardinality(Opened(a))
      BY <1>0, <2>3, FS_Subset, FS_CardinalityType
    <3> QED
      BY <1>0, <2>2, <3>1 DEF Started
  <2>4. ASSUME NEW n \in Opened(a)', n \notin Opened(a)
        PROVE  Started(a)' <= Started(a)
    <3>1. PICK s \in Slots : s \in Taking(a) /\ s \notin Taking(a)'
      BY <2>4, OpenedMoves
    <3>2. \A k \in Opened(a)' : k \in Opened(a) \/ k = next
      <4>1. ASSUME NEW t \in Slots, t \in Taking(a)
            PROVE  RowFor(t) = <<a, next>>
        BY <4>1 DEF Taking, TakersFresh, RowFor
      <4> QED
        BY <4>1, OpenedMoves
    <3>3. /\ IsFiniteSet(Opened(a) \cup {next})
          /\ Cardinality(Opened(a) \cup {next}) =
               IF next \in Opened(a) THEN Cardinality(Opened(a))
                                     ELSE Cardinality(Opened(a)) + 1
      BY <1>0, FS_AddElement
    <3>4. /\ Cardinality(Opened(a)') <= Cardinality(Opened(a) \cup {next})
          /\ IsFiniteSet(Opened(a)')
      <4>1. Opened(a)' \subseteq Opened(a) \cup {next}
        BY <3>2
      <4> QED
        BY <3>3, <4>1, FS_Subset
    <3>5. Cardinality(Opened(a)') \in Nat
      BY <3>4, FS_CardinalityType
    <3>6. Cardinality(Opened(a)') <= Cardinality(Opened(a)) + 1
      BY <1>0, <3>3, <3>4, <3>5
    <3>7. /\ IsFiniteSet(Taking(a) \ {s})
          /\ Cardinality(Taking(a) \ {s}) = Cardinality(Taking(a)) - 1
      BY <1>0, <3>1, FS_RemoveElement
    <3>8. Cardinality(Taking(a)') <= Cardinality(Taking(a) \ {s})
      <4>1. Taking(a)' \subseteq Taking(a) \ {s}
        BY <2>1, <3>1
      <4> QED
        BY <3>7, <4>1, FS_Subset
    <3> QED
      BY <1>0, <2>2, <3>5, <3>6, <3>7, <3>8 DEF Started
  <2> QED
    BY <2>3, <2>4
<1> QED
  BY <1>1, <1>2

\* What a step may do to an assignment: give it up, or settle it; claim it;
\* reclaim it, which marks it; go on with one that is not over, or revive it.
AssignmentMoves(a) ==
    \/ status'[a] = status[a] /\ (a \in marked' <=> a \in marked)
    \/ a \in Over'
    \/ /\ status[a] = "pending" /\ status'[a] = "working"
       /\ (a \in marked' <=> a \in marked)
    \/ /\ status[a] = "working" /\ status'[a] = "pending"
       /\ a \notin marked /\ a \in marked'
    \/ /\ a \notin Over /\ status'[a] # "pending"
       /\ (a \in marked' <=> a \in marked)
    \/ a \in revived'

LEMMA NextAssignments ==
    ASSUME Placed, [Next]_vars, NEW a \in Assignments
    PROVE  AssignmentMoves(a) /\ (a \in revived => a \in revived')
<1>0. TypeOK
  BY DEF Placed
<1>1. ASSUME UNCHANGED <<status, marked, revived>>
      PROVE  AssignmentMoves(a) /\ (a \in revived => a \in revived')
  BY <1>1 DEF AssignmentMoves
<1>2. ASSUME NEW e \in Executors, Finalize(e)
      PROVE  AssignmentMoves(a) /\ (a \in revived => a \in revived')
  <2>1. CASE item[e] # a
    <3>1. status'[a] = status[a] /\ (a \in marked' <=> a \in marked)
      BY <1>0, <1>2, <2>1 DEF Finalize, TypeOK
    <3> QED
      BY <1>2, <3>1 DEF AssignmentMoves, Finalize
  <2>2. CASE item[e] = a /\ outcome[e] \in {"waiting_approval", "waiting_reply"}
    <3>1. /\ status'[a] \in {"waiting_approval", "working"}
          /\ marked' = marked
          /\ revived' = revived \cup ({a} \cap Over)
      <4>1. status'[a] =
              CASE outcome[e] = "waiting_approval" -> "waiting_approval"
                [] outcome[e] = "waiting_reply" -> "working"
                [] Delivered(e) -> "delivered"
                [] OTHER -> "failed"
        BY <1>0, <1>2, <2>2 DEF Finalize, TypeOK
      <4>2. status'[a] \in {"waiting_approval", "working"}
        <5>1. ~ Delivered(e)
          BY <2>2 DEF Delivered
        <5> QED
          BY <2>2, <4>1, <5>1
      <4>3. marked' = marked /\ revived' = revived \cup ({a} \cap Over)
        BY <1>2, <2>2 DEF Finalize
      <4> QED
        BY <4>2, <4>3
    <3> QED
      BY <3>1 DEF AssignmentMoves
  <2>3. CASE item[e] = a
             /\ outcome[e] \notin {"waiting_approval", "waiting_reply"}
    <3>1. status'[a] \in {"delivered", "failed"} /\ revived' = revived
      BY <1>0, <1>2, <2>3 DEF Finalize, TypeOK
    <3>2. a \in Over'
      BY <3>1 DEF Over
    <3> QED
      BY <3>1, <3>2 DEF AssignmentMoves
  <2> QED
    BY <2>1, <2>2, <2>3
<1>3. ASSUME NEW e \in Executors, OverBudget(e) \/ Refuse(e)
      PROVE  AssignmentMoves(a) /\ (a \in revived => a \in revived')
  <2>1. UNCHANGED revived
    BY <1>3 DEF OverBudget, Refuse, history
  <2>2. \/ status'[a] = status[a] /\ (a \in marked' <=> a \in marked)
        \/ status'[a] = "failed"
    BY <1>0, <1>3 DEF OverBudget, Refuse, TypeOK
  <2> QED
    BY <2>1, <2>2 DEF AssignmentMoves, Over
<1>4. ASSUME NEW s \in Slots, NEW i \in Items, ClaimAssignment(s, i)
      PROVE  AssignmentMoves(a) /\ (a \in revived => a \in revived')
  <2>1. UNCHANGED <<marked, revived>>
    BY <1>4 DEF ClaimAssignment, history
  <2>2. \/ status'[a] = status[a]
        \/ status[a] = "pending" /\ status'[a] = "working"
    BY <1>0, <1>4 DEF ClaimAssignment, Claimable, TypeOK
  <2> QED
    BY <2>1, <2>2 DEF AssignmentMoves
<1>5. ASSUME NEW i \in Items, NEW k \in 1 .. MaxNumber, Sweep(i, k)
      PROVE  AssignmentMoves(a) /\ (a \in revived => a \in revived')
  <2>1. UNCHANGED revived
    BY <1>5 DEF Sweep, history
  <2>2. \/ status'[a] = status[a] /\ (a \in marked' <=> a \in marked)
        \/ /\ status[a] = "working" /\ a \in marked'
           /\ status'[a] = Reclaimed(a)
    BY <1>0, <1>5 DEF Sweep, TypeOK
  <2> QED
    BY <2>1, <2>2 DEF AssignmentMoves, Reclaimed, Over
<1>6. ASSUME Offboard
      PROVE  AssignmentMoves(a) /\ (a \in revived => a \in revived')
  <2>1. UNCHANGED <<marked, revived>>
    BY <1>6 DEF Offboard, history
  <2>2. status'[a] = status[a] \/ status'[a] = "cancelled"
    BY <1>6 DEF Offboard
  <2> QED
    BY <2>1, <2>2 DEF AssignmentMoves, Over
<1>7. ASSUME NEW e \in Executors, Advance(e),
             ~ (Finalize(e) \/ OverBudget(e) \/ Refuse(e))
      PROVE  UNCHANGED <<status, marked, revived>>
  <2>1. ASSUME NEW o \in Outcomes, End(e, o)
        PROVE  UNCHANGED <<status, marked, revived>>
    BY <2>1 DEF End, assignmentVars, history
  <2> QED
    BY <1>7, <2>1 DEF Advance, Open, Begin, Unassembled, Speak, LeaseLost,
       Name, assignmentVars, history
<1>8. ASSUME NEW e \in Slots, NEW i \in Items, NEW k \in 0 .. MaxNumber,
             Claim(e, i, k) \/ JobFails(e, i, k), ~ ClaimAssignment(e, i)
      PROVE  UNCHANGED <<status, marked, revived>>
  BY <1>8 DEF Claim, PassOver, ClaimDuty, ClaimChild, JobFails,
     assignmentVars, history
<1> QED
  BY <1>1, <1>2, <1>3, <1>4, <1>5, <1>6, <1>7, <1>8 DEF Next, Enqueue, Expire,
     Throw, PickUp, Reopen, Retire, Die, vars, assignmentVars, history

\* Only a claim is a start, and an assignment waits for one unmarked before it
\* has been started, marked after.
LEMMA NextStarts ==
    ASSUME Placed, TakersFresh, StartsBounded, [Next]_vars
    PROVE  StartsBounded'
<1> SUFFICES ASSUME NEW a \in Assignments, a \notin revived'
             PROVE  /\ Started(a)' <= 2
                    /\ status'[a] = "pending" => Started(a)' <= 1
                    /\ a \notin marked' =>
                         /\ status'[a] = "pending" => Started(a)' = 0
                         /\ a \in Over' \/ Started(a)' <= 1
  BY DEF StartsBounded
<1>1. AssignmentMoves(a) /\ a \notin revived
  BY NextAssignments
<1>2. Started(a) \in Nat /\ Started(a)' \in Nat
  <2>1. Started(a) \in Nat
    BY StartsFinite
  <2>2. IsFiniteSet(Opened(a)') /\ IsFiniteSet(Taking(a)')
    <3>1. IsFiniteSet(1 .. MaxNumber)
      BY FS_Interval, BoundsAssumption
    <3>2. Opened(a)' \subseteq 1 .. MaxNumber /\ Taking(a)' \subseteq Slots
      BY DEF Opened, Taking
    <3> QED
      BY <3>1, <3>2, FS_Subset, ExecutorsAssumption
  <2>3. Cardinality(Opened(a)') \in Nat /\ Cardinality(Taking(a)') \in Nat
    BY <2>2, FS_CardinalityType
  <2> QED
    BY <2>1, <2>3 DEF Started
<1>3. /\ Started(a) <= 2
      /\ status[a] = "pending" => Started(a) <= 1
      /\ a \notin marked =>
           /\ status[a] = "pending" => Started(a) = 0
           /\ a \in Over \/ Started(a) <= 1
  BY <1>1 DEF StartsBounded
<1>4. /\ a \in Over <=> status[a] \in {"delivered", "failed", "cancelled"}
      /\ a \in Over' <=> status'[a] \in {"delivered", "failed", "cancelled"}
  BY DEF Over
<1>5. CASE Started(a)' <= Started(a)
  BY <1>1, <1>2, <1>3, <1>4, <1>5 DEF AssignmentMoves
<1>6. CASE /\ Started(a)' <= Started(a) + 1
           /\ status[a] = "pending" /\ status'[a] = "working"
           /\ UNCHANGED <<marked, revived>>
  BY <1>2, <1>3, <1>4, <1>6
<1> QED
  BY <1>5, <1>6, StartedMoves

LEMMA FinishedFollows ==
    ASSUME StartsBounded
    PROVE  FinishedOnce
<1> SUFFICES ASSUME NEW a \in Assignments, a \notin revived
             PROVE  Cardinality(Opened(a)) <= 2
  BY DEF FinishedOnce
<1>1. Cardinality(Opened(a)) \in Nat /\ Cardinality(Taking(a)) \in Nat
  BY StartsFinite
<1> QED
  BY <1>1 DEF StartsBounded, Started

-----------------------------------------------------------------------------
(* The inductive invariant, and the theorems.                              *)

IInv ==
    /\ Placed
    /\ PresentHidden /\ LoopsApart
    /\ SentOpened /\ DeliveredIsEarned
    /\ Room /\ Accounted /\ RefusalsPaid
    /\ OccurrencesOnce /\ JobsApart /\ BriefsOnce /\ NoneForAssignments
    /\ TakersFresh /\ StartsBounded

\* Nothing is busy, begun or sent, and no duty has a run.
LEMMA InitInvariant == Init => IInv
<1> SUFFICES ASSUME Init PROVE IInv
  OBVIOUS
<1>0. Placed /\ TypeOK
  BY InitPlaced DEF Placed
<1>1. /\ \A e \in Executors : pc[e] = "idle"
      /\ \A r \in Rows : begun[r] = 0
      /\ \A d \in Duties : count[d] = 0 /\ reopened[d] = 0
      /\ sent = {} /\ attempt = {} /\ queue = {}
      /\ \A a \in Assignments : status[a] # "delivered"
  BY DEF Init
<1>2. ASSUME NEW d \in Duties, NEW k \in 1 .. MaxNumber
      PROVE  run[<<d, k>>] = "none"
  <2>1. <<d, k>> \in Rows /\ d \notin Assignments /\ d \notin Children
    BY KindsAssumption DEF Rows, Items
  <2> QED
    BY <2>1 DEF Init
<1>3. Slots \subseteq Executors /\ Resumer \in Executors
  BY DEF Executors
<1>4. PresentHidden
  BY <1>1, <1>2 DEF PresentHidden, Present, Unfinished, Active, Looping, Rows
<1>5. LoopsApart
  BY <1>1 DEF LoopsApart, Looping
<1>6. SentOpened /\ DeliveredIsEarned
  BY <1>1 DEF SentOpened, DeliveredIsEarned
<1>7. Room
  BY <1>1, BoundsAssumption DEF Room
<1>8. Accounted
  <2> SUFFICES ASSUME NEW d \in Duties
               PROVE  Cardinality(Charged(d)) <= count[d]
    BY DEF Accounted
  <2>1. Charged(d) = {}
    BY <1>1, <1>2 DEF Charged
  <2>2. Cardinality(Charged(d)) = 0
    BY <2>1, FS_EmptySet
  <2> QED
    BY <1>1, <2>2
<1>9. OccurrencesOnce
  BY <1>1, <1>3 DEF OccurrencesOnce, Fresh, Rows, Items
<1>10. JobsApart
  BY <1>1, <1>3 DEF JobsApart, Busy
<1>11. BriefsOnce
  <2>1. \A c \in Children, k \in 1 .. MaxNumber : begun[<<c, k>>] = 0
    BY <1>1 DEF Rows, Items
  <2>2. 1 \in 1 .. MaxNumber
    BY BoundsAssumption
  <2> QED
    BY <2>1, <2>2 DEF BriefsOnce
<1>12. NoneForAssignments
  BY <1>1 DEF NoneForAssignments, Rows, Items
<1>13. TakersFresh
  BY <1>1, <1>3 DEF TakersFresh
<1>14. StartsBounded
  <2> SUFFICES ASSUME NEW a \in Assignments
               PROVE  /\ Started(a) <= 1
                      /\ a \notin marked => Started(a) = 0
    BY StartsFinite DEF StartsBounded
  <2>1. Cardinality(Taking(a)) = 0
    <3>1. Taking(a) = {}
      BY <1>1, <1>3 DEF Taking
    <3> QED
      BY <3>1, FS_EmptySet
  <2>2. \A k \in 1 .. MaxNumber :
          run[<<a, k>>] # "none" => a \in marked /\ k = 1
    <3> SUFFICES ASSUME NEW k \in 1 .. MaxNumber, run[<<a, k>>] # "none"
                 PROVE  a \in marked /\ k = 1
      OBVIOUS
    <3>1. <<a, k>> \in Rows /\ a \notin Children
      BY KindsAssumption DEF Rows, Items
    <3> QED
      BY <3>1 DEF Init
  <2>3. CASE a \notin marked
    <3>1. Opened(a) = {}
      BY <2>2, <2>3 DEF Opened
    <3>2. Cardinality(Opened(a)) = 0
      BY <3>1, FS_EmptySet
    <3> QED
      BY <2>1, <3>2 DEF Started
  <2>4. CASE a \in marked
    <3>1. Opened(a) \subseteq {1}
      BY <2>2 DEF Opened
    <3>2. IsFiniteSet({1}) /\ Cardinality({1}) = 1
      BY FS_Singleton
    <3>3. Cardinality(Opened(a)) <= 1
      BY <3>1, <3>2, FS_Subset
    <3>4. Cardinality(Opened(a)) \in Nat
      BY StartsFinite
    <3> QED
      BY <2>1, <2>4, <3>3, <3>4 DEF Started
  <2> QED
    BY <2>3, <2>4
<1>15. RefusalsPaid
  <2>1. resumes = 0 /\ \A i \in Items : refusals[i] = 0
    BY DEF Init
  <2> QED
    BY <1>1, <1>3, <2>1 DEF RefusalsPaid, Items
<1> QED
  BY <1>0, <1>4, <1>5, <1>6, <1>7, <1>8, <1>9, <1>10, <1>11, <1>12, <1>13,
     <1>14, <1>15 DEF IInv

LEMMA NextInvariant ==
    ASSUME IInv, [Next]_vars
    PROVE  IInv'
  BY NextPlaced, NextPresent, NextApart, NextEarned, NextRoom, NextAccounted,
     NextRefusals, NextOccurrences, NextJobs, NextBriefs, NextNone,
     NextTakers, NextStarts
     DEF IInv

THEOREM Invariance == Spec => []IInv
<1>1. Init => IInv
  BY InitInvariant
<1>2. IInv /\ [Next]_vars => IInv'
  BY NextInvariant
<1> QED
  BY <1>1, <1>2, PTL DEF Spec

\* The variables have their types.
THEOREM TypeCorrect == Spec => []TypeOK
<1>1. IInv => TypeOK
  BY DEF IInv, Placed
<1> QED
  BY <1>1, Invariance, PTL

\* Whatever the heartbeats, the queue and crashes do, two executors work for
\* one duty only across a claim that could not see the other's run.
THEOREM NeverTwiceAtOnceTheorem == Spec => []NeverTwiceAtOnce
<1>1. IInv => NeverTwiceAtOnce
  <2> SUFFICES ASSUME IInv, NEW e \in Executors, NEW f \in Executors,
                      e # f, item[e] = item[f], item[e] \in Duties,
                      pc[e] \in Looping, pc[f] \in Looping
               PROVE  At(e) \in hidden \/ At(f) \in hidden
    BY DEF NeverTwiceAtOnce
  <2>1. At(e) \in Rows /\ At(f) \in Rows
    BY DEF IInv, Placed, RowsKnown, Looping
  <2>2. Present(At(e)) /\ Present(At(f))
    BY DEF Present, Active
  <2>3. At(e) # At(f)
    BY DEF IInv, LoopsApart
  <2>4. At(e)[1] = item[e] /\ At(f)[1] = item[e]
    BY DEF At
  <2> QED
    BY <2>1, <2>2, <2>3, <2>4 DEF IInv, PresentHidden
<1> QED
  BY <1>1, Invariance, PTL

\* The runs of a duty are charged for, up to its limit and the operator's
\* rescheduling; the rows that only record a refusal are no more than the times
\* a parked run was taken up, and none while the agent is employed.
THEOREM RunLimitKeptTheorem == Spec => []RunLimitKept
<1>1. IInv => RunLimitKept
  BY LimitFollows DEF IInv
<1> QED
  BY <1>1, Invariance, PTL

\* However its job is repeated, an occurrence or a brief is begun once.
THEOREM BegunOnceTheorem == Spec => []BegunOnce
<1>1. IInv => BegunOnce
  BY OnceFollows DEF IInv, Placed
<1> QED
  BY <1>1, Invariance, PTL

\* An assignment that says delivered has a run whose mail went out.
THEOREM DeliveredIsEarnedTheorem == Spec => []DeliveredIsEarned
<1>1. IInv => DeliveredIsEarned
  BY DEF IInv
<1> QED
  BY <1>1, Invariance, PTL

\* Whatever is swept, redelivered or settled late, an assignment is started at
\* most twice until a run of it goes on after another had settled it.
THEOREM FinishedOnceTheorem == Spec => []FinishedOnce
<1>1. IInv => FinishedOnce
  BY FinishedFollows DEF IInv
<1> QED
  BY <1>1, Invariance, PTL
=============================================================================
