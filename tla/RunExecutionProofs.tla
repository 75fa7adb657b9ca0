------------------------- MODULE RunExecutionProofs -------------------------
(***************************************************************************)
(* Proofs about RunExecution, for any set of executors and any bound on    *)
(* the number of claims.                                                   *)
(***************************************************************************)
EXTENDS RunExecution, TLAPS

(* The inductive invariant.  LedgerClosedOnce needs to know that finalize   *)
(* never appends to a closed attempt, which is ClosedAttemptHasNoAuthority; *)
(* that one needs every attempt to be held by one executor at most; and     *)
(* OnlyActiveAttemptIsOpen needs the row to name the newest attempt.        *)

\* An attempt has events from the claim that made it on, and not before.
LedgerFollowsFence ==
    \A k \in Fences : latest[k] = "none" <=> k > leaseFence

\* The row names the newest attempt or none.
ActiveIsNewest == activeAttempt \in {NoAttempt, leaseFence}

\* Leases are in the hands of executors inside runWithFencedLease, each
\* attempt in the hands of one; a heartbeat is owed to an attempt that exists.
HeldByOne ==
    /\ \A e \in Executors : held[e] <= leaseFence /\ beat[e] <= leaseFence
    /\ \A e \in Executors : held[e] # NoAttempt <=> pc[e] \in Holding
    /\ \A e, o \in Executors : held[e] = held[o] /\ held[e] # NoAttempt => e = o

Core ==
    /\ LedgerFollowsFence
    /\ ActiveIsNewest
    /\ HeldByOne
    /\ OnlyActiveAttemptIsOpen
    /\ LedgerClosedOnce
    /\ ClosedAttemptHasNoAuthority

IInv == TypeOK /\ Core

USE DEF Fences, NoAttempt

-----------------------------------------------------------------------------
(* Types.                                                                  *)

LedgerType ==
    latest \in [Fences -> AttemptKinds] /\ terminals \in [Fences -> Nat]

\* Closing an attempt that exists keeps the ledger well formed.
LEMMA CloseType ==
    ASSUME LedgerType, NEW k, NEW kind \in TerminalKinds, CloseAttempt(k, kind)
    PROVE  LedgerType'
<1>1. latest' \in [Fences -> AttemptKinds]
  BY DEF CloseAttempt, LedgerType, AttemptKinds
<1>2. terminals' = [j \in Fences |-> IF j = k THEN terminals[j] + 1 ELSE terminals[j]]
  BY DEF CloseAttempt, LedgerType
<1>3. \A j \in Fences : terminals[j] \in Nat /\ terminals[j] + 1 \in Nat
  BY DEF LedgerType
<1> QED
  BY <1>1, <1>2, <1>3 DEF LedgerType

\* So does closing it only while it is open.
LEMMA CloseIfOpenType ==
    ASSUME LedgerType, NEW k, NEW kind \in TerminalKinds, CloseIfOpen(k, kind)
    PROVE  LedgerType'
<1>1. CASE k # NoAttempt /\ IsOpen(k)
  <2>1. CloseAttempt(k, kind)
    BY <1>1 DEF CloseIfOpen
  <2> QED
    BY <2>1, CloseType
<1>2. CASE ~(k # NoAttempt /\ IsOpen(k))
  BY <1>2 DEF CloseIfOpen, ledgerVars, LedgerType
<1> QED
  BY <1>1, <1>2

\* The terminal kind that goes with a status is one.
LEMMA AttemptKindType == \A s : AttemptKind(s) \in TerminalKinds
  BY DEF AttemptKind, TerminalKinds

\* What finalizeRunAttempt leaves is well formed.
LEMMA FinalizeType ==
    ASSUME TypeOK, NEW e \in Executors, NEW s \in RunStatus, Finalize(e, s)
    PROVE  /\ LedgerType'
           /\ status' \in RunStatus /\ leaseOwner' \in Executors \cup {NoOwner}
           /\ leaseFence' = leaseFence /\ lease' \in {"none", "live", "expired"}
           /\ activeAttempt' \in 0 .. MaxFence
<1> USE MaxFenceAssumption
<1>1. CASE RunFence(e)
  <2> DEFINE kind == IF status = "cancelled" THEN "cancelled" ELSE AttemptKind(s)
  <2>1. kind \in TerminalKinds
    BY AttemptKindType DEF TerminalKinds
  <2>2. CloseAttempt(held[e], kind) /\ LedgerType
    BY <1>1 DEF Finalize, TypeOK, LedgerType
  <2> HIDE DEF kind
  <2>3. LedgerType'
    BY <2>1, <2>2, CloseType
  <2> QED
    BY <1>1, <2>3 DEF Finalize, ClearLease, TypeOK
<1>2. CASE ~RunFence(e)
  BY <1>2 DEF Finalize, rowVars, ledgerVars, TypeOK, LedgerType
<1> QED
  BY <1>1, <1>2

\* Every step keeps every variable in its set: fences stay under the bound,
\* events are of the six kinds, statuses of the seven.
THEOREM TypeStep == TypeOK /\ [Next]_vars => TypeOK'
<1> SUFFICES ASSUME TypeOK, [Next]_vars PROVE TypeOK'
  OBVIOUS
<1> USE ExecutorsAssumption, WakesOnAssumption, MaxFenceAssumption
        DEF TypeOK, rowVars, leaseVars, ledgerVars, localVars, Go,
            RunStatus, Settled, Parked, Places, Holding, AttemptKinds
<1>1. ASSUME NEW e \in Executors, Wake(e) \/ Admit(e) PROVE TypeOK'
  BY <1>1 DEF Wake, Admit
<1>2. ASSUME NEW e \in Executors, Reopen(e) \/ CallerHandlesThrow(e) PROVE TypeOK'
  BY <1>2 DEF Reopen, CallerHandlesThrow
<1>3. ASSUME NEW e \in Executors, FoundationFails(e) \/ FailsBeforeLease(e) PROVE TypeOK'
  BY <1>3 DEF FoundationFails, FailsBeforeLease
<1>4. ASSUME NEW e \in Executors, Claim(e) PROVE TypeOK'
  <2> USE <1>4 DEF Claim
  <2>1. leaseFence + 1 \in 1 .. MaxFence
    OBVIOUS
  <2>2. latest' \in [Fences -> AttemptKinds] /\ terminals' \in [Fences -> Nat]
    BY DEF OpenKinds, TerminalKinds
  <2>3. UNCHANGED <<status, employed, result, beat>>
    OBVIOUS
  <2> QED
    BY <2>1, <2>2, <2>3
<1>5. ASSUME NEW e \in Executors, ClaimRefused(e) \/ RenewRefused(e) PROVE TypeOK'
  BY <1>5 DEF ClaimRefused, RenewRefused
<1>6. ASSUME NEW e \in Executors, Renew(e) \/ RecordRenewal(e) PROVE TypeOK'
  <2>1. CASE Renew(e)
    BY <2>1 DEF Renew
  <2>2. CASE RecordRenewal(e)
    <3>1. latest' \in [Fences -> AttemptKinds] /\ terminals' = terminals
      BY <2>2 DEF RecordRenewal, OpenKinds
    <3>2. pc' \in [Executors -> Places]
      BY <2>2 DEF RecordRenewal
    <3>3. beat' \in [Executors -> 0 .. MaxFence] /\ UNCHANGED <<rowVars, employed, held, result>>
      BY <2>2 DEF RecordRenewal
    <3> QED
      BY <3>1, <3>2, <3>3
  <2> QED
    BY <1>6, <2>1, <2>2
<1>7. ASSUME NEW e \in Executors, NEW x \in Settled \cup Parked, EndLoop(e, x) PROVE TypeOK'
  BY <1>7 DEF EndLoop
<1>8. ASSUME NEW e \in Executors, Throws(e) \/ LostToAnother(e) PROVE TypeOK'
  BY <1>8 DEF Throws, LostToAnother
<1>9. ASSUME NEW e \in Executors, Commit(e) \/ FinalizeFailure(e) PROVE TypeOK'
  <2>1. /\ pc' \in [Executors -> Places]
        /\ held' \in [Executors -> 0 .. MaxFence]
        /\ result' \in [Executors -> RunStatus] /\ beat' = beat /\ employed' = employed
    <3>1. CASE Commit(e) /\ RunFence(e)
      <4>1. Leave(e, "idle") /\ UNCHANGED employed
        BY <3>1 DEF Commit
      <4> QED
        BY <4>1 DEF Leave
    <3>2. CASE Commit(e) /\ ~RunFence(e)
      BY <3>2 DEF Commit
    <3>3. CASE FinalizeFailure(e)
      BY <3>3 DEF FinalizeFailure, Leave
    <3> QED
      BY <1>9, <3>1, <3>2, <3>3
  <2>2. "failed" \in RunStatus /\ result[e] \in RunStatus
    OBVIOUS
  <2>3. CASE Commit(e)
    <3>1. Finalize(e, result[e])
      BY <2>3 DEF Commit
    <3> QED
      BY <2>1, <2>2, <3>1, FinalizeType DEF LedgerType
  <2>4. CASE FinalizeFailure(e)
    <3>1. Finalize(e, "failed")
      BY <2>4 DEF FinalizeFailure
    <3> QED
      BY <2>1, <2>2, <3>1, FinalizeType DEF LedgerType
  <2> QED
    BY <1>9, <2>3, <2>4
<1>10. ASSUME NEW e \in Executors, LostToCancellation(e) \/ Crash(e) PROVE TypeOK'
  <2>1. CASE LostToCancellation(e)
    BY <2>1 DEF LostToCancellation, Leave
  <2>2. CASE Crash(e)
    BY <2>2 DEF Crash
  <2> QED
    BY <1>10, <2>1, <2>2
<1>11. ASSUME NEW e \in Executors, RecordLoss(e) PROVE TypeOK'
  <2>1. LedgerType'
    BY <1>11, CloseIfOpenType DEF RecordLoss, TerminalKinds, LedgerType
  <2> QED
    BY <1>11, <2>1 DEF RecordLoss, Leave, LedgerType
<1>12. ASSUME NEW e \in Executors, StrandedAtShutdown(e) PROVE TypeOK'
  BY <1>12 DEF StrandedAtShutdown
<1>13. ASSUME Stop PROVE TypeOK'
  <2>1. LedgerType'
    BY <1>13, CloseIfOpenType DEF Stop, TerminalKinds, LedgerType
  <2> QED
    BY <1>13, <2>1 DEF Stop, ClearLease, LedgerType
<1>14. ASSUME Environment, ~Stop PROVE TypeOK'
  BY <1>14 DEF Environment, Expire, Offboard, Decline, CancelCredentialRequest,
         FollowUpThrows, Sweep
<1>15. CASE UNCHANGED vars
  BY <1>15 DEF vars
<1> QED
  BY <1>1, <1>2, <1>3, <1>4, <1>5, <1>6, <1>7, <1>8, <1>9, <1>10, <1>11,
     <1>12, <1>13, <1>14, <1>15 DEF Next, Work, Heartbeat

\* Every variable keeps its type, for any executors and any number of claims.
THEOREM TypeInvariant == Spec => []TypeOK
<1>1. Init => TypeOK
  BY ExecutorsAssumption, WakesOnAssumption, MaxFenceAssumption
     DEF Init, TypeOK, RunStatus, AttemptKinds, Places
<1>2. TypeOK /\ [Next]_vars => TypeOK'
  BY TypeStep
<1> QED
  BY <1>1, <1>2, PTL DEF Spec

-----------------------------------------------------------------------------
(* The steps of the invariant, by what they do to lease and ledger.        *)

\* Executors move and may let go of what they hold; nobody gains authority.
LocalsQuiet ==
    \A e \in Executors :
        /\ held'[e] \in {held[e], NoAttempt}
        /\ held'[e] # NoAttempt <=> pc'[e] \in Holding
        /\ pc'[e] \in Authority => pc[e] \in Authority
        /\ beat'[e] <= leaseFence

Quiet ==
    /\ LocalsQuiet
    /\ leaseOwner' = leaseOwner /\ leaseFence' = leaseFence
    /\ activeAttempt' = activeAttempt
    /\ latest' = latest /\ terminals' = terminals

\* The active attempt, if it is open, is closed; the row names none.
Retire ==
    /\ LocalsQuiet
    /\ leaseFence' = leaseFence
    /\ activeAttempt' = NoAttempt
    /\ \/ /\ activeAttempt # NoAttempt /\ IsOpen(activeAttempt)
          /\ \E kind \in TerminalKinds : CloseAttempt(activeAttempt, kind)
       \/ /\ activeAttempt = NoAttempt \/ ~IsOpen(activeAttempt)
          /\ latest' = latest /\ terminals' = terminals

\* While executors only keep or let go, no attempt comes to be held by two.
LEMMA HeldByOneQuiet ==
    ASSUME TypeOK, HeldByOne, LocalsQuiet, leaseFence' = leaseFence
    PROVE  HeldByOne'
<1>1. ASSUME NEW e \in Executors PROVE held'[e] <= leaseFence' /\ beat'[e] <= leaseFence'
  <2>1. leaseFence \in 0 .. MaxFence /\ held[e] <= leaseFence
    BY DEF TypeOK, HeldByOne
  <2>2. held'[e] \in {held[e], 0} /\ beat'[e] <= leaseFence
    BY DEF LocalsQuiet
  <2>3. 0 <= leaseFence
    BY <2>1, MaxFenceAssumption
  <2> QED
    BY <2>1, <2>2, <2>3
<1>2. \A e \in Executors : held'[e] # NoAttempt <=> pc'[e] \in Holding
  BY DEF LocalsQuiet
<1>3. \A e, o \in Executors : held'[e] = held'[o] /\ held'[e] # NoAttempt => e = o
  BY DEF HeldByOne, LocalsQuiet
<1> QED
  BY <1>1, <1>2, <1>3 DEF HeldByOne

\* A step that leaves the ledger and the row's fence alone keeps the invariant.
LEMMA QuietStep == IInv /\ Quiet => Core'
<1> SUFFICES ASSUME IInv, Quiet PROVE Core'
  OBVIOUS
<1>1. HeldByOne'
  BY HeldByOneQuiet DEF Quiet, IInv, Core
<1>2. ClosedAttemptHasNoAuthority'
  <2> SUFFICES ASSUME NEW e \in Executors, pc'[e] \in Authority, RunFence(e)'
               PROVE  IsOpen(held[e])'
    BY DEF ClosedAttemptHasNoAuthority
  <2>1. held'[e] = held[e] /\ pc[e] \in Authority
    BY DEF Quiet, LocalsQuiet, Authority, Holding
  <2>2. RunFence(e)
    BY <2>1 DEF RunFence, Quiet
  <2>3. IsOpen(held[e])
    BY <2>1, <2>2 DEF IInv, Core, ClosedAttemptHasNoAuthority
  <2> QED
    BY <2>1, <2>3 DEF IsOpen, Quiet
<1> QED
  BY <1>1, <1>2 DEF IInv, Core, Quiet, LedgerFollowsFence, ActiveIsNewest,
     OnlyActiveAttemptIsOpen, LedgerClosedOnce, IsOpen

\* So does one that closes the active attempt together with its authority.
LEMMA RetireStep == IInv /\ Retire => Core'
<1> SUFFICES ASSUME IInv, Retire PROVE Core'
  OBVIOUS
<1> USE DEF IInv, Core
<1>1. HeldByOne'
  BY HeldByOneQuiet DEF Retire
<1>2. /\ ActiveIsNewest'
      /\ ClosedAttemptHasNoAuthority'
  <2>1. \A e \in Executors : pc'[e] \in Authority => held'[e] # activeAttempt'
    BY DEF Retire, LocalsQuiet, Authority, Holding
  <2> QED
    BY <2>1 DEF Retire, ActiveIsNewest, ClosedAttemptHasNoAuthority, RunFence
<1>3. CASE latest' = latest /\ terminals' = terminals /\ ~(activeAttempt # NoAttempt /\ IsOpen(activeAttempt))
  <2>1. \A k \in Fences : ~IsOpen(k)
    BY <1>3, MaxFenceAssumption DEF OnlyActiveAttemptIsOpen
  <2> QED
    BY <1>1, <1>2, <1>3, <2>1 DEF Retire, OnlyActiveAttemptIsOpen, IsOpen,
       LedgerFollowsFence, LedgerClosedOnce
<1>4. CASE activeAttempt # NoAttempt /\ IsOpen(activeAttempt)
  <2>1. PICK kind \in TerminalKinds : CloseAttempt(activeAttempt, kind)
    BY <1>4 DEF Retire
  <2>2. activeAttempt \in Fences /\ kind \notin OpenKinds /\ kind # "none"
    BY <1>4, MaxFenceAssumption DEF TypeOK, OpenKinds, TerminalKinds
  <2>3. \A k \in Fences : latest'[k] = IF k = activeAttempt THEN kind ELSE latest[k]
    BY <2>1 DEF TypeOK, CloseAttempt
  <2>4. \A k \in Fences : terminals'[k] = IF k = activeAttempt THEN terminals[k] + 1 ELSE terminals[k]
    BY <2>1 DEF TypeOK, CloseAttempt
  <2>5. OnlyActiveAttemptIsOpen'
    BY <2>2, <2>3 DEF OnlyActiveAttemptIsOpen, IsOpen
  <2>6. LedgerFollowsFence'
    BY <1>4, <2>2, <2>3 DEF Retire, LedgerFollowsFence, IsOpen, OpenKinds
  <2>7. LedgerClosedOnce'
    <3>1. terminals[activeAttempt] = 0
      BY <1>4, <2>2 DEF LedgerClosedOnce, IsOpen, OpenKinds, TerminalKinds
    <3> QED
      BY <2>2, <2>3, <2>4, <3>1 DEF LedgerClosedOnce
  <2> QED
    BY <1>1, <1>2, <2>5, <2>6, <2>7
<1> QED
  BY <1>3, <1>4 DEF Retire

\* What a claim does to the ledger, attempt by attempt.
LEMMA ClaimLedger ==
    ASSUME IInv, NEW e \in Executors, Claim(e)
    PROVE  /\ leaseFence + 1 \in Fences
           /\ \A k \in Fences :
                latest'[k] = IF k = leaseFence + 1 THEN "claimed"
                             ELSE IF IsOpen(k) THEN "lease_lost" ELSE latest[k]
           /\ \A k \in Fences :
                terminals'[k] = IF IsOpen(k) THEN terminals[k] + 1 ELSE terminals[k]
<1>1. leaseFence + 1 \in Fences
  BY MaxFenceAssumption DEF IInv, TypeOK, Claim
<1>2. \A k \in Fences : IsOpen(k) <=> k = activeAttempt /\ Superseded(k)
  BY MaxFenceAssumption DEF IInv, Core, OnlyActiveAttemptIsOpen, Superseded
<1> QED
  BY <1>1, <1>2 DEF Claim

\* So does a claim: the fence is new, and the attempt it supersedes is closed.
LEMMA ClaimStep == ASSUME IInv, NEW e \in Executors, Claim(e) PROVE Core'
<1> DEFINE new == leaseFence + 1
<1> USE DEF IInv, Core
<1>1. leaseFence' = new /\ activeAttempt' = new /\ new \in Fences /\ leaseFence \in Nat
  BY ClaimLedger, MaxFenceAssumption DEF Claim, TypeOK
<1>2. latest[new] = "none" /\ ~IsOpen(new)
  BY <1>1 DEF LedgerFollowsFence, IsOpen, OpenKinds
<1>3. LedgerFollowsFence'
  <2> SUFFICES ASSUME NEW k \in Fences PROVE latest'[k] = "none" <=> k > new
    BY <1>1 DEF LedgerFollowsFence
  <2> QED
    BY <1>1, ClaimLedger DEF LedgerFollowsFence, IsOpen, OpenKinds
<1>4. OnlyActiveAttemptIsOpen'
  BY <1>1, ClaimLedger DEF OnlyActiveAttemptIsOpen, IsOpen, OpenKinds
<1>5. LedgerClosedOnce'
  BY <1>1, <1>2, ClaimLedger DEF LedgerClosedOnce, IsOpen, OpenKinds, TerminalKinds
<1>6. HeldByOne'
  <2>1. \A x \in Executors : held'[x] = IF x = e THEN new ELSE held[x]
    BY DEF Claim, TypeOK
  <2>2. \A x \in Executors : pc'[x] = IF x = e THEN "executing" ELSE pc[x]
    BY DEF Claim, TypeOK, Go
  <2>3. \A x \in Executors : held[x] < new /\ held[x] <= new /\ beat'[x] <= new
    BY <1>1 DEF HeldByOne, TypeOK, Claim
  <2>4. \A x \in Executors : held'[x] <= leaseFence' /\ beat'[x] <= leaseFence'
    BY <1>1, <2>1, <2>3
  <2>5. \A x \in Executors : held'[x] # NoAttempt <=> pc'[x] \in Holding
    BY <1>1, <2>1, <2>2 DEF HeldByOne, Holding
  <2>6. \A x, o \in Executors : held'[x] = held'[o] /\ held'[x] # NoAttempt => x = o
    BY <1>1, <2>1, <2>3 DEF HeldByOne, TypeOK
  <2> QED
    BY <2>4, <2>5, <2>6 DEF HeldByOne
<1>7. ClosedAttemptHasNoAuthority'
  <2>1. held'[e] = new /\ leaseOwner' = e
    BY DEF Claim, TypeOK
  <2> QED
    BY <1>1, <2>1, ClaimLedger DEF ClosedAttemptHasNoAuthority, RunFence, IsOpen, OpenKinds
<1> QED
  BY <1>1, <1>3, <1>4, <1>5, <1>6, <1>7 DEF ActiveIsNewest

\* A heartbeat's event keeps an open attempt open and changes nothing else.
LEMMA RecordRenewalStep == ASSUME IInv, NEW e \in Executors, RecordRenewal(e) PROVE Core'
<1> USE DEF IInv, Core
<1>1. /\ LocalsQuiet
      /\ leaseOwner' = leaseOwner /\ leaseFence' = leaseFence
      /\ activeAttempt' = activeAttempt /\ terminals' = terminals /\ held' = held
  <2>1. held' = held /\ leaseOwner' = leaseOwner /\ leaseFence' = leaseFence
        /\ activeAttempt' = activeAttempt /\ terminals' = terminals
    BY DEF RecordRenewal, rowVars, ledgerVars
  <2>2. \A x \in Executors : pc'[x] = pc[x] \/ (pc[x] = "executing" /\ pc'[x] = "lost")
    BY DEF RecordRenewal, Go, TypeOK
  <2>3. \A x \in Executors : beat'[x] <= leaseFence
    <3>1. \A x \in Executors : beat'[x] = IF x = e THEN 0 ELSE beat[x]
      BY DEF RecordRenewal, TypeOK
    <3>2. leaseFence \in Nat /\ 0 <= leaseFence
      BY MaxFenceAssumption DEF TypeOK
    <3> QED
      BY <3>1, <3>2 DEF HeldByOne
  <2> QED
    BY <2>1, <2>2, <2>3 DEF LocalsQuiet, HeldByOne, Holding, Authority
<1>2. CASE ~IsOpen(beat[e])
  <2>1. latest' = latest
    BY <1>2 DEF RecordRenewal, ledgerVars
  <2> QED
    BY <1>1, <2>1, QuietStep DEF Quiet
<1>3. CASE IsOpen(beat[e])
  <2>1. beat[e] \in Fences
    BY MaxFenceAssumption DEF RecordRenewal, TypeOK
  <2>2. \A k \in Fences : latest'[k] = IF k = beat[e] THEN "renewed" ELSE latest[k]
    BY <1>3 DEF RecordRenewal, TypeOK
  <2>3. \A k \in Fences :
          /\ IsOpen(k)' <=> IsOpen(k)
          /\ latest'[k] \in TerminalKinds <=> latest[k] \in TerminalKinds
          /\ latest'[k] = "none" <=> latest[k] = "none"
    BY <1>3, <2>1, <2>2 DEF IsOpen, OpenKinds, TerminalKinds
  <2>4. HeldByOne'
    BY <1>1, HeldByOneQuiet
  <2>5. ClosedAttemptHasNoAuthority'
    <3> SUFFICES ASSUME NEW x \in Executors, pc'[x] \in Authority, RunFence(x)'
                 PROVE  IsOpen(held[x])'
      BY DEF ClosedAttemptHasNoAuthority
    <3>1. pc[x] \in Authority /\ RunFence(x) /\ held'[x] = held[x]
      BY <1>1 DEF LocalsQuiet, RunFence
    <3>2. held[x] \in Fences
      BY <3>1, MaxFenceAssumption DEF HeldByOne, TypeOK, Authority, Holding
    <3>3. IsOpen(held[x])
      BY <3>1 DEF ClosedAttemptHasNoAuthority
    <3> QED
      BY <2>3, <3>1, <3>2, <3>3 DEF IsOpen
  <2> QED
    BY <1>1, <2>3, <2>4, <2>5 DEF LedgerFollowsFence, ActiveIsNewest,
       OnlyActiveAttemptIsOpen, LedgerClosedOnce
<1> QED
  BY <1>2, <1>3

\* The lost-lease record closes the attempt of an executor that is leaving.
LEMMA RecordLossStep == ASSUME IInv, NEW e \in Executors, RecordLoss(e) PROVE Core'
<1> USE DEF IInv, Core
<1> DEFINE k == held[e]
<1>1. /\ LocalsQuiet
      /\ leaseOwner' = leaseOwner /\ leaseFence' = leaseFence
      /\ activeAttempt' = activeAttempt
  BY DEF RecordLoss, Leave, Go, rowVars, LocalsQuiet, HeldByOne, TypeOK, Holding, Authority
<1>2. CASE ~IsOpen(k) \/ k = NoAttempt
  <2>1. latest' = latest /\ terminals' = terminals
    BY <1>2 DEF RecordLoss, CloseIfOpen, ledgerVars
  <2> QED
    BY <1>1, <2>1, QuietStep DEF Quiet
<1>3. CASE IsOpen(k) /\ k # NoAttempt
  <2>1. k \in Fences
    BY <1>3, MaxFenceAssumption DEF TypeOK
  <2>2. CloseAttempt(k, "lease_lost")
    BY <1>3 DEF RecordLoss, CloseIfOpen
  <2>3. \A j \in Fences : /\ latest'[j] = IF j = k THEN "lease_lost" ELSE latest[j]
                         /\ terminals'[j] = IF j = k THEN terminals[j] + 1 ELSE terminals[j]
    BY <2>2 DEF CloseAttempt, TypeOK
  <2>4. LedgerFollowsFence' /\ OnlyActiveAttemptIsOpen'
    BY <1>1, <1>3, <2>1, <2>3
       DEF LedgerFollowsFence, OnlyActiveAttemptIsOpen, IsOpen, OpenKinds
  <2>5. LedgerClosedOnce'
    BY <1>3, <2>1, <2>3 DEF LedgerClosedOnce, IsOpen, OpenKinds, TerminalKinds
  <2>6. ClosedAttemptHasNoAuthority'
    <3> SUFFICES ASSUME NEW x \in Executors, pc'[x] \in Authority, RunFence(x)'
                 PROVE  IsOpen(held[x])'
      BY DEF ClosedAttemptHasNoAuthority
    <3>1. pc[x] \in Authority /\ held'[x] = held[x] /\ RunFence(x)
      BY <1>1 DEF LocalsQuiet, RunFence, Authority, Holding
    <3>2. x # e
      BY <3>1 DEF RecordLoss, Authority
    <3>3. held[x] # k /\ held[x] \in Fences
      BY <3>1, <3>2, MaxFenceAssumption DEF HeldByOne, TypeOK, Authority, Holding
    <3>4. IsOpen(held[x])
      BY <3>1 DEF ClosedAttemptHasNoAuthority
    <3> QED
      BY <2>3, <3>1, <3>3, <3>4 DEF IsOpen
  <2>7. HeldByOne'
    BY <1>1, HeldByOneQuiet
  <2> QED
    BY <1>1, <2>4, <2>5, <2>6, <2>7 DEF ActiveIsNewest
<1> QED
  BY <1>2, <1>3

\* finalizeRunAttempt, from an executor that may still have authority,
\* retires the active attempt or does nothing.
LEMMA FinalizeStep ==
    ASSUME IInv, NEW e \in Executors, pc[e] \in Authority, NEW s, Finalize(e, s),
           LocalsQuiet
    PROVE  Core'
<1> USE DEF IInv, Core
<1>1. CASE RunFence(e)
  <2>1. activeAttempt = held[e] /\ held[e] # NoAttempt /\ IsOpen(held[e])
    BY <1>1 DEF RunFence, ClosedAttemptHasNoAuthority, HeldByOne, Authority, Holding
  <2>2. \E kind \in TerminalKinds : CloseAttempt(held[e], kind)
    <3> DEFINE kind == IF status = "cancelled" THEN "cancelled" ELSE AttemptKind(s)
    <3>1. kind \in TerminalKinds
      BY AttemptKindType DEF TerminalKinds
    <3>2. CloseAttempt(held[e], kind)
      BY <1>1 DEF Finalize
    <3> QED
      BY <3>1, <3>2
  <2>3. leaseFence' = leaseFence /\ activeAttempt' = NoAttempt
    BY <1>1 DEF Finalize, ClearLease
  <2> QED
    BY <2>1, <2>2, <2>3, RetireStep DEF Retire
<1>2. CASE ~RunFence(e)
  BY <1>2, QuietStep DEF Finalize, Quiet, rowVars, ledgerVars
<1> QED
  BY <1>1, <1>2

\* A call that ends, by a return or by the death of its process, only lets go.
LEMMA LeaveQuiet ==
    ASSUME IInv, NEW e \in Executors, NEW place \in Places \ Holding,
           pc' = [pc EXCEPT ![e] = place], held' = [held EXCEPT ![e] = NoAttempt],
           beat' \in {beat, [beat EXCEPT ![e] = NoAttempt]}
    PROVE  LocalsQuiet
<1>1. \A x \in Executors : beat'[x] \in {beat[x], 0} /\ beat[x] <= leaseFence
  BY DEF IInv, Core, HeldByOne, TypeOK
<1>2. 0 <= leaseFence
  BY MaxFenceAssumption DEF IInv, TypeOK
<1> QED
  BY <1>1, <1>2 DEF IInv, Core, TypeOK, HeldByOne, LocalsQuiet, Authority, Holding

\* An executor that moves and keeps what it holds, gaining no authority.
LEMMA MoveQuiet ==
    ASSUME IInv, NEW e \in Executors, NEW place \in Places,
           place \in Holding <=> pc[e] \in Holding,
           place \in Authority => pc[e] \in Authority,
           pc' = [pc EXCEPT ![e] = place], held' = held, beat' = beat
    PROVE  LocalsQuiet
  BY DEF IInv, Core, TypeOK, HeldByOne, LocalsQuiet

\* Every step of executors, people and crashes keeps the core of the invariant.
THEOREM CoreStep == IInv /\ [Next]_vars => Core'
<1> SUFFICES ASSUME IInv, [Next]_vars PROVE Core'
  OBVIOUS
<1> USE DEF rowVars, leaseVars, ledgerVars, localVars, Go, Quiet
<1>1. ASSUME NEW e \in Executors, Wake(e) \/ Admit(e) PROVE Core'
  BY <1>1, MoveQuiet, QuietStep DEF Wake, Admit, Places, Holding, Authority
<1>2. ASSUME NEW e \in Executors, Reopen(e) \/ CallerHandlesThrow(e) PROVE Core'
  BY <1>2, MoveQuiet, QuietStep DEF Reopen, CallerHandlesThrow, Places, Holding, Authority
<1>3. ASSUME NEW e \in Executors, FoundationFails(e) \/ FailsBeforeLease(e) PROVE Core'
  BY <1>3, MoveQuiet, QuietStep
     DEF FoundationFails, FailsBeforeLease, Places, Holding, Authority
<1>4. ASSUME NEW e \in Executors, Claim(e) PROVE Core'
  BY <1>4, ClaimStep
<1>5. ASSUME NEW e \in Executors, ClaimRefused(e) \/ RenewRefused(e) PROVE Core'
  BY <1>5, MoveQuiet, QuietStep DEF ClaimRefused, RenewRefused, Places, Holding, Authority
<1>6. ASSUME NEW e \in Executors, RecordRenewal(e) PROVE Core'
  BY <1>6, RecordRenewalStep
<1>7. ASSUME NEW e \in Executors, Renew(e) PROVE Core'
  <2>1. \A x \in Executors : beat'[x] \in {beat[x], held[x]} /\ pc'[x] = pc[x] /\ held'[x] = held[x]
    BY <1>7 DEF Renew, IInv, TypeOK
  <2>2. LocalsQuiet
    BY <2>1 DEF LocalsQuiet, IInv, Core, HeldByOne
  <2> QED
    BY <1>7, <2>2, QuietStep DEF Renew
<1>8. ASSUME NEW e \in Executors, NEW x \in Settled \cup Parked, EndLoop(e, x) PROVE Core'
  BY <1>8, MoveQuiet, QuietStep DEF EndLoop, Places, Holding, Authority
<1>9. ASSUME NEW e \in Executors, Throws(e) \/ LostToAnother(e) PROVE Core'
  BY <1>9, MoveQuiet, QuietStep DEF Throws, LostToAnother, Places, Holding, Authority
<1>10. ASSUME NEW e \in Executors, Commit(e) PROVE Core'
  <2>1. pc[e] \in Authority /\ Finalize(e, result[e])
    BY <1>10 DEF Commit, Authority
  <2>2. CASE RunFence(e)
    <3>1. Leave(e, "idle")
      BY <1>10, <2>2 DEF Commit
    <3>2. LocalsQuiet
      BY <3>1, LeaveQuiet DEF Leave, Places, Holding
    <3> QED
      BY <2>1, <3>2, FinalizeStep
  <2>3. CASE ~RunFence(e)
    <3>1. LocalsQuiet
      BY <1>10, <2>3, MoveQuiet DEF Commit, Places, Holding, Authority
    <3> QED
      BY <2>1, <3>1, FinalizeStep
  <2> QED
    BY <2>2, <2>3
<1>11. ASSUME NEW e \in Executors, FinalizeFailure(e) PROVE Core'
  <2>1. pc[e] \in Authority /\ Finalize(e, "failed") /\ Leave(e, "thrown")
    BY <1>11 DEF FinalizeFailure, Authority
  <2>2. LocalsQuiet
    BY <2>1, LeaveQuiet DEF Leave, Places, Holding
  <2> QED
    BY <2>1, <2>2, FinalizeStep
<1>12. ASSUME NEW e \in Executors, LostToCancellation(e) \/ Crash(e) PROVE Core'
  <2>1. LocalsQuiet
    BY <1>12, LeaveQuiet DEF LostToCancellation, Crash, Leave, Places, Holding
  <2> QED
    BY <1>12, <2>1, QuietStep DEF LostToCancellation, Crash
<1>13. ASSUME NEW e \in Executors, RecordLoss(e) PROVE Core'
  BY <1>13, RecordLossStep
<1>14. ASSUME UNCHANGED localVars PROVE LocalsQuiet
  BY <1>14 DEF LocalsQuiet, IInv, Core, HeldByOne
<1>15. ASSUME NEW e \in Executors, StrandedAtShutdown(e) PROVE Core'
  BY <1>15, <1>14, QuietStep DEF StrandedAtShutdown
<1>16. ASSUME Stop PROVE Core'
  <2>1. LocalsQuiet /\ leaseFence' = leaseFence /\ activeAttempt' = NoAttempt
    BY <1>14, <1>16 DEF Stop, ClearLease
  <2>2. CloseIfOpen(activeAttempt, "cancelled") /\ "cancelled" \in TerminalKinds
    BY <1>16 DEF Stop, TerminalKinds
  <2>3. Retire
    BY <2>1, <2>2 DEF Retire, CloseIfOpen
  <2> QED
    BY <2>3, RetireStep
<1>17. ASSUME Environment, ~Stop PROVE Core'
  BY <1>14, <1>17, QuietStep DEF Environment, Expire, Offboard, Decline,
     CancelCredentialRequest, FollowUpThrows, Sweep
<1>18. CASE UNCHANGED vars
  BY <1>14, <1>18, QuietStep DEF vars
<1> QED
  BY <1>1, <1>2, <1>3, <1>4, <1>5, <1>6, <1>7, <1>8, <1>9, <1>10, <1>11, <1>12,
     <1>13, <1>15, <1>16, <1>17, <1>18 DEF Next, Work, Heartbeat

\* A run that has just been inserted satisfies the inductive invariant.
THEOREM InitIInv == Init => IInv
<1> SUFFICES ASSUME Init PROVE IInv
  OBVIOUS
<1> USE ExecutorsAssumption, WakesOnAssumption, MaxFenceAssumption DEF Init
<1>1. TypeOK
  BY DEF TypeOK, RunStatus, AttemptKinds, Places
<1>2. LedgerFollowsFence /\ ActiveIsNewest
  BY DEF LedgerFollowsFence, ActiveIsNewest
<1>3. HeldByOne
  BY DEF HeldByOne, Holding
<1>4. OnlyActiveAttemptIsOpen /\ LedgerClosedOnce /\ ClosedAttemptHasNoAuthority
  BY DEF OnlyActiveAttemptIsOpen, LedgerClosedOnce, ClosedAttemptHasNoAuthority,
         IsOpen, OpenKinds, TerminalKinds, Authority
<1> QED
  BY <1>1, <1>2, <1>3, <1>4 DEF IInv, Core

\* The inductive invariant holds of every behaviour of the code.
THEOREM InductiveInvariant == Spec => []IInv
<1>1. IInv /\ [Next]_vars => IInv'
  BY TypeStep, CoreStep DEF IInv
<1> QED
  BY InitIInv, <1>1, PTL DEF Spec

-----------------------------------------------------------------------------
(* The properties.                                                         *)

\* An attempt's ledger closes exactly once, whichever of finalize, claim, stop
\* and the lost-lease record gets there first.
THEOREM ClosedOnce == Spec => []LedgerClosedOnce
<1>1. IInv => LedgerClosedOnce
  BY DEF IInv, Core
<1> QED
  BY InductiveInvariant, <1>1, PTL

\* Only the attempt named by the row can be open.
THEOREM OneOpenAttempt == Spec => []OnlyActiveAttemptIsOpen
<1>1. IInv => OnlyActiveAttemptIsOpen
  BY DEF IInv, Core
<1> QED
  BY InductiveInvariant, <1>1, PTL

\* Passing the fence implies that the attempt's history is still open.
THEOREM FenceImpliesOpen == Spec => []ClosedAttemptHasNoAuthority
<1>1. IInv => ClosedAttemptHasNoAuthority
  BY DEF IInv, Core
<1> QED
  BY InductiveInvariant, <1>1, PTL

\* Nobody but e moves e: its program counter changes in its own steps only.
LEMMA OnlyOwnStepsMove ==
    ASSUME IInv, [Next]_vars, NEW e \in Executors, pc'[e] # pc[e]
    PROVE  \/ Wake(e) \/ Work(e) \/ Heartbeat(e) \/ Crash(e)
<1>1. ASSUME NEW o \in Executors, o # e,
             Wake(o) \/ Work(o) \/ Heartbeat(o) \/ StrandedAtShutdown(o) \/ Crash(o)
      PROVE  FALSE
  BY <1>1 DEF Wake, Work, Heartbeat, StrandedAtShutdown, Crash, Admit, Reopen,
     FoundationFails, FailsBeforeLease, Claim, ClaimRefused, RenewRefused, EndLoop,
     Throws, Commit, FinalizeFailure, LostToCancellation, LostToAnother, RecordLoss,
     CallerHandlesThrow, Renew, RecordRenewal, Go, Leave, localVars, IInv, TypeOK
<1>2. ~StrandedAtShutdown(e) /\ ~Environment /\ ~UNCHANGED vars
  BY DEF StrandedAtShutdown, Environment, Expire, Stop, Offboard, Decline,
     CancelCredentialRequest, FollowUpThrows, Sweep, localVars, vars
<1> QED
  BY <1>1, <1>2 DEF Next

\* A step of an executor whose attempt is closed changes neither row nor ledger.
LEMMA ClosedWritesNothingStep ==
    ASSUME IInv, [Next]_vars, NEW e \in Executors,
           held[e] # NoAttempt, ~IsOpen(held[e]), pc'[e] # pc[e]
    PROVE  UNCHANGED <<rowVars, ledgerVars>>
<1>1. pc[e] \in Holding
  BY DEF IInv, Core, HeldByOne
<1>2. Wake(e) \/ Work(e) \/ Heartbeat(e) \/ Crash(e)
  BY OnlyOwnStepsMove
<1>3. ASSUME NEW s, pc[e] \in Authority, Finalize(e, s)
      PROVE  UNCHANGED <<rowVars, ledgerVars>>
  BY <1>3 DEF IInv, Core, ClosedAttemptHasNoAuthority, Finalize
<1>4. ~Wake(e) /\ ~Admit(e) /\ ~Reopen(e) /\ ~FoundationFails(e) /\ ~FailsBeforeLease(e)
      /\ ~Claim(e) /\ ~ClaimRefused(e) /\ ~CallerHandlesThrow(e) /\ ~Renew(e)
  BY <1>1 DEF Holding, Wake, Admit, Reopen, FoundationFails, FailsBeforeLease, Claim,
     ClaimRefused, CallerHandlesThrow, Renew
<1>5. CASE Commit(e) \/ FinalizeFailure(e)
  BY <1>3, <1>5 DEF Commit, FinalizeFailure, Authority
<1>6. CASE RecordLoss(e)
  BY <1>6 DEF RecordLoss, CloseIfOpen
<1>7. CASE RecordRenewal(e)
  <2>1. ~IsOpen(beat[e])
    BY <1>7 DEF RecordRenewal
  <2> QED
    BY <1>7, <2>1 DEF RecordRenewal
<1>8. CASE RenewRefused(e) \/ Throws(e) \/ LostToCancellation(e) \/ LostToAnother(e) \/ Crash(e)
  BY <1>8 DEF RenewRefused, Throws, LostToCancellation, LostToAnother, Crash
<1>9. ASSUME NEW x \in Settled \cup Parked, EndLoop(e, x)
      PROVE  UNCHANGED <<rowVars, ledgerVars>>
  BY <1>9 DEF EndLoop
<1> QED
  BY <1>2, <1>4, <1>5, <1>6, <1>7, <1>8, <1>9 DEF Work, Heartbeat

\* An executor whose attempt is closed goes through commit, failure and loss
\* without changing row or ledger.
THEOREM ClosedWritesNothing == Spec => ClosedAttemptWritesNothing
<1>1. ASSUME IInv, [Next]_vars
      PROVE  [\A e \in Executors :
                (held[e] # NoAttempt /\ ~IsOpen(held[e]) /\ pc'[e] # pc[e])
                  => UNCHANGED <<rowVars, ledgerVars>>]_vars
  BY <1>1, ClosedWritesNothingStep
<1> QED
  BY InductiveInvariant, <1>1, PTL DEF Spec, ClosedAttemptWritesNothing

-----------------------------------------------------------------------------
(* Refinement: the store implements SerialAttempts.                        *)

\* The abstract phases as the ledger determines them.
LEMMA PhaseOf ==
    ASSUME TypeOK, NEW k \in Fences
    PROVE  /\ Phase(latest[k]) = "none" <=> latest[k] = "none"
           /\ Phase(latest[k]) = "open" <=> IsOpen(k)
           /\ Phase(latest[k]) \in {"none", "open", "closed"}
  BY DEF Phase, IsOpen, OpenKinds

\* A lost attempt, a retired one, a new one, or none of these: what a step
\* does to the ledger and to the attempt named by the row.
LEMMA SerialStep ==
    ASSUME IInv, [Next]_vars
    PROVE  [Serial!Next]_<<[k \in Fences |-> Phase(latest[k])], activeAttempt>>
<1> DEFINE ph == [k \in Fences |-> Phase(latest[k])]
           Stutter == ph' = ph /\ activeAttempt' = activeAttempt
           Closes(k) == /\ k \in Fences /\ ph[k] = "open"
                        /\ ph' = [ph EXCEPT ![k] = "closed"]
<1> USE DEF IInv, Core
<1>1. ASSUME NEW k \in Fences, IsOpen(k), NEW kind \in TerminalKinds, CloseAttempt(k, kind)
      PROVE  Closes(k)
  <2>1. \A j \in Fences : latest'[j] = IF j = k THEN kind ELSE latest[j]
    BY <1>1 DEF CloseAttempt, TypeOK
  <2>2. Phase(kind) = "closed"
    BY DEF Phase, TerminalKinds, OpenKinds
  <2> QED
    BY <1>1, <2>1, <2>2, PhaseOf
<1>2. ASSUME latest' = latest PROVE ph' = ph
  BY <1>2
<1>3. ASSUME NEW k \in Fences, Closes(k), activeAttempt' = activeAttempt PROVE Serial!Next
  BY <1>3 DEF Serial!Next, Serial!Lose
<1>4. ASSUME NEW k \in Fences, Closes(k), activeAttempt' = NoAttempt PROVE Serial!Next
  BY <1>4 DEF Serial!Next, Serial!End
<1>5. ASSUME NEW e \in Executors, Claim(e) PROVE Serial!Next
  <2> DEFINE new == leaseFence + 1
  <2>1. new \in Fences /\ activeAttempt' = new /\ leaseFence \in Nat
    BY <1>5, ClaimLedger, MaxFenceAssumption DEF Claim, TypeOK
  <2>2. \A k \in Fences : latest'[k] = IF k = new THEN "claimed"
                                      ELSE IF IsOpen(k) THEN "lease_lost" ELSE latest[k]
    BY <1>5, ClaimLedger
  <2>3. Phase("claimed") = "open" /\ Phase("lease_lost") = "closed"
    BY DEF Phase, OpenKinds
  <2>4. ph' = [j \in Fences |-> IF j = new THEN "open"
                                ELSE IF ph[j] = "open" THEN "closed" ELSE ph[j]]
    BY <2>2, <2>3, PhaseOf
  <2>5. ph[new] = "none" /\ \A j \in Fences : j < new => ph[j] # "none"
    BY <2>1, PhaseOf DEF LedgerFollowsFence
  <2>6. Serial!Begin(new)
    BY <2>1, <2>4, <2>5 DEF Serial!Begin
  <2> QED
    BY <2>1, <2>6 DEF Serial!Next
<1>6. ASSUME NEW e \in Executors, pc[e] \in Authority, NEW s, Finalize(e, s)
      PROVE  Serial!Next \/ Stutter
  <2>1. CASE RunFence(e)
    <3> DEFINE kind == IF status = "cancelled" THEN "cancelled" ELSE AttemptKind(s)
    <3>1. kind \in TerminalKinds /\ CloseAttempt(held[e], kind) /\ activeAttempt' = NoAttempt
      BY <1>6, <2>1, AttemptKindType DEF Finalize, ClearLease, TerminalKinds
    <3>2. held[e] \in Fences /\ IsOpen(held[e])
      BY <1>6, <2>1, MaxFenceAssumption
         DEF ClosedAttemptHasNoAuthority, HeldByOne, TypeOK, Authority, Holding
    <3> QED
      BY <1>1, <1>4, <3>1, <3>2
  <2>2. CASE ~RunFence(e)
    BY <1>2, <1>6, <2>2 DEF Finalize, rowVars, ledgerVars
  <2> QED
    BY <2>1, <2>2
<1>7. ASSUME Stop PROVE Serial!Next
  <2>1. activeAttempt' = NoAttempt /\ CloseIfOpen(activeAttempt, "cancelled")
    BY <1>7 DEF Stop, ClearLease
  <2>2. CASE activeAttempt # NoAttempt /\ IsOpen(activeAttempt)
    <3>1. activeAttempt \in Fences /\ "cancelled" \in TerminalKinds
      BY <2>2, MaxFenceAssumption DEF TypeOK, TerminalKinds
    <3>2. CloseAttempt(activeAttempt, "cancelled")
      BY <2>1, <2>2 DEF CloseIfOpen
    <3>3. Closes(activeAttempt)
      BY <1>1, <2>2, <3>1, <3>2
    <3> HIDE DEF Closes
    <3> QED
      BY <1>4, <2>1, <3>1, <3>3
  <2>3. CASE ~(activeAttempt # NoAttempt /\ IsOpen(activeAttempt))
    <3>1. \A k \in Fences : ph[k] # "open"
      BY <2>3, PhaseOf, MaxFenceAssumption DEF OnlyActiveAttemptIsOpen
    <3>2. ph' = ph
      BY <1>2, <2>1, <2>3 DEF CloseIfOpen, ledgerVars
    <3> QED
      BY <2>1, <3>1, <3>2 DEF Serial!Next, Serial!Revoke
  <2> QED
    BY <2>2, <2>3
<1>8. ASSUME NEW e \in Executors, RecordLoss(e) PROVE Serial!Next \/ Stutter
  <2>1. activeAttempt' = activeAttempt /\ CloseIfOpen(held[e], "lease_lost")
    BY <1>8 DEF RecordLoss, rowVars
  <2>2. CASE held[e] # NoAttempt /\ IsOpen(held[e])
    <3>1. held[e] \in Fences /\ "lease_lost" \in TerminalKinds
      BY <2>2, MaxFenceAssumption DEF TypeOK, TerminalKinds
    <3>2. CloseAttempt(held[e], "lease_lost")
      BY <2>1, <2>2 DEF CloseIfOpen
    <3>3. Closes(held[e])
      BY <1>1, <2>2, <3>1, <3>2
    <3> HIDE DEF Closes
    <3> QED
      BY <1>3, <2>1, <3>1, <3>3
  <2>3. CASE ~(held[e] # NoAttempt /\ IsOpen(held[e]))
    BY <1>2, <2>1, <2>3 DEF CloseIfOpen, ledgerVars
  <2> QED
    BY <2>2, <2>3
<1>9. ASSUME NEW e \in Executors, RecordRenewal(e) PROVE Stutter
  <2>1. activeAttempt' = activeAttempt
    BY <1>9 DEF RecordRenewal, rowVars
  <2>2. CASE ~IsOpen(beat[e])
    BY <1>2, <1>9, <2>1, <2>2 DEF RecordRenewal, ledgerVars
  <2>3. CASE IsOpen(beat[e])
    <3>1. \A k \in Fences : latest'[k] = IF k = beat[e] THEN "renewed" ELSE latest[k]
      BY <1>9, <2>3 DEF RecordRenewal, TypeOK
    <3>2. \A k \in Fences : Phase(latest'[k]) = Phase(latest[k])
      BY <2>3, <3>1 DEF Phase, IsOpen, OpenKinds
    <3> QED
      BY <2>1, <3>2
  <2> QED
    BY <2>2, <2>3
<1>10. ASSUME latest' = latest, activeAttempt' = activeAttempt PROVE Stutter
  BY <1>10, <1>2
<1>11. ASSUME NEW e \in Executors, Commit(e) \/ FinalizeFailure(e)
       PROVE  Serial!Next \/ Stutter
  BY <1>6, <1>11 DEF Commit, FinalizeFailure, Authority
<1>12. ASSUME NEW e \in Executors, Work(e),
              ~Claim(e), ~Commit(e), ~FinalizeFailure(e), ~RecordLoss(e)
       PROVE  latest' = latest /\ activeAttempt' = activeAttempt
  BY <1>12 DEF Work, Admit, Reopen, FoundationFails, FailsBeforeLease, ClaimRefused,
     RenewRefused, EndLoop, Throws, LostToCancellation, LostToAnother,
     CallerHandlesThrow, rowVars, leaseVars, ledgerVars
<1>13. ASSUME NEW e \in Executors, Wake(e) \/ Renew(e) \/ StrandedAtShutdown(e) \/ Crash(e)
       PROVE  latest' = latest /\ activeAttempt' = activeAttempt
  BY <1>13 DEF Wake, Renew, StrandedAtShutdown, Crash, rowVars, leaseVars, ledgerVars
<1>14. ASSUME Environment, ~Stop PROVE latest' = latest /\ activeAttempt' = activeAttempt
  BY <1>14 DEF Environment, Expire, Offboard, Decline, CancelCredentialRequest,
     FollowUpThrows, Sweep, leaseVars, ledgerVars
<1>15. ASSUME UNCHANGED vars PROVE Stutter
  BY <1>10, <1>15 DEF vars
<1> HIDE DEF Stutter
<1>16. ASSUME NEW e \in Executors, Work(e) PROVE Serial!Next \/ Stutter
  BY <1>5, <1>8, <1>10, <1>11, <1>12, <1>16
<1>17. ASSUME NEW e \in Executors, Heartbeat(e) PROVE Stutter
  BY <1>9, <1>10, <1>13, <1>17 DEF Heartbeat
<1>18. ASSUME NEW e \in Executors, Wake(e) \/ StrandedAtShutdown(e) \/ Crash(e) PROVE Stutter
  BY <1>10, <1>13, <1>18
<1>19. ASSUME Environment PROVE Serial!Next \/ Stutter
  BY <1>7, <1>10, <1>14, <1>19
<1>20. Serial!Next \/ Stutter
  BY <1>15, <1>16, <1>17, <1>18, <1>19 DEF Next
<1> QED
  BY <1>20 DEF Stutter

\* The fenced store implements its abstract specification.
THEOREM Refinement == Spec => SerialSpec
<1>1. Init => Serial!Init
  BY DEF Init, Serial!Init, Phase
<1>2. IInv /\ [Next]_vars
        => [Serial!Next]_<<[k \in Fences |-> Phase(latest[k])], activeAttempt>>
  BY SerialStep
<1> QED
  BY InductiveInvariant, <1>1, <1>2, PTL DEF Spec, SerialSpec, Serial!Spec

-----------------------------------------------------------------------------
(* What StoppedStaysStopped leaves true.                                   *)

\* A run that is over is neither claimed nor written back to a status that
\* could be woken.
LEMMA OverStep ==
    ASSUME TypeOK, Over, [Next]_vars
    PROVE  Over'
<1> USE DEF TypeOK, Over, rowVars, leaseVars, ledgerVars, localVars, Go,
            Settled, Parked
<1>1. ASSUME NEW e \in Executors, Wake(e) \/ Admit(e) \/ Reopen(e) \/ Claim(e)
                \/ StrandedAtShutdown(e)
      PROVE  FALSE
  BY <1>1, WakesOnAssumption
     DEF Wake, Admit, Reopen, Claim, Claimable, StrandedAtShutdown
<1>2. ASSUME NEW e \in Executors,
             FoundationFails(e) \/ FailsBeforeLease(e) \/ ClaimRefused(e)
                \/ CallerHandlesThrow(e) \/ LostToAnother(e)
      PROVE  Over'
  BY <1>2 DEF FoundationFails, FailsBeforeLease, ClaimRefused,
     CallerHandlesThrow, LostToAnother, RunFence, Authority
<1>3. ASSUME NEW e \in Executors,
             RenewRefused(e) \/ Throws(e) \/ \E x \in Settled \cup Parked : EndLoop(e, x)
      PROVE  Over'
  BY <1>3 DEF RenewRefused, Throws, EndLoop, RunFence, Authority
<1>4. ASSUME NEW e \in Executors, Commit(e) PROVE Over'
  <2>1. ~ RunFence(e)
    BY <1>4 DEF Commit, Authority
  <2> QED
    BY <1>4, <2>1 DEF Commit, Finalize, RunFence, Authority
<1>5. ASSUME NEW e \in Executors, FinalizeFailure(e) PROVE Over'
  <2>1. ~ RunFence(e)
    BY <1>5 DEF FinalizeFailure, Authority
  <2> QED
    BY <1>5, <2>1 DEF FinalizeFailure, Finalize, Leave, RunFence, Authority
<1>6. ASSUME NEW e \in Executors, LostToCancellation(e) \/ RecordLoss(e) \/ Crash(e)
      PROVE  Over'
  BY <1>6 DEF LostToCancellation, RecordLoss, Crash, Leave, RunFence, Authority
<1>7. ASSUME NEW e \in Executors, Renew(e) \/ RecordRenewal(e) PROVE Over'
  BY <1>7 DEF Renew, RecordRenewal, RunFence, Authority
<1>8. CASE Environment
  <2>1. Expire \/ Offboard \/ FollowUpThrows
    BY <1>8 DEF Environment, Stop, Decline, CancelCredentialRequest, Sweep,
       Stoppable
  <2> QED
    BY <2>1 DEF Expire, Offboard, FollowUpThrows, RunFence, Stoppable
<1>9. CASE UNCHANGED vars
  BY <1>9 DEF vars, RunFence
<1> QED
  BY <1>1, <1>2, <1>3, <1>4, <1>5, <1>6, <1>7, <1>8, <1>9
     DEF Next, Work, Heartbeat

\* A run that is over stays over: what starts a stopped run again (the finding
\* of run_stopped) is a caller that had read it as parked, and nothing else.
THEOREM OverStaysOver == Spec => OverForGood
<1>1. TypeOK /\ [Next]_vars => [Over => Over']_vars
  BY OverStep
<1> QED
  BY <1>1, TypeInvariant, PTL DEF Spec, OverForGood
=============================================================================
