-------------------------- MODULE ExternalEffects ---------------------------
(***************************************************************************)
(* The calls one run makes of one governed tool, and the ledger of         *)
(* external effects that keeps an attempt from repeating what an earlier   *)
(* attempt did.                                                            *)
(*                                                                         *)
(* The attempts of a run follow each other: the run parks and is resumed,  *)
(* or the lease of an attempt lapses and another executor claims the run.  *)
(* An attempt that was replaced finds out when its heartbeat next does,    *)
(* and a call may outlive the loop that made it (the deadline of the tool  *)
(* passes, the loop goes on or ends, the adapter does not).  So calls of   *)
(* several attempts overlap.  Nothing here forces a step: a process that   *)
(* dies, and a loop that is aborted, take no further one.                  *)
(*                                                                         *)
(* Abstractions.                                                           *)
(*  - A call is <<a, n>>: the n-th call of the tool by attempt a (the      *)
(*    code's ordinal is n - 1).  The SDK id of a call is the call.         *)
(*  - An idempotency key is <<n, a>>: ordinal prefix n, coined by attempt  *)
(*    a.  LegacyKey is the one key a run from before this contract may     *)
(*    have left.  Domain keys are left out: no ability declares one.       *)
(*  - The event log of a key is its latest kind, all the code reads of it. *)
(*  - executeExternalEffect is library code, modelled from the store and   *)
(*    the arguments it is given and the outcomes the tests expect.         *)
(*  - The loop is free to ask for anything: it is a language model.        *)
(***************************************************************************)
EXTENDS Naturals

CONSTANTS
    Requests,       \* what a call of the tool may ask for
    MaxAttempts,    \* bound on the attempts of the run
    MaxCalls,       \* bound on the calls of the tool by one attempt
    MaxCleared,     \* bound on an operator's "not completed" per effect
    None            \* no request

ASSUME RequestsAssumption == None \notin Requests
ASSUME BoundsAssumption ==
    MaxAttempts \in Nat \ {0} /\ MaxCalls \in Nat /\ MaxCleared \in Nat

Attempts  == 1 .. MaxAttempts
Ordinals  == 1 .. MaxCalls
Calls     == Attempts \X Ordinals
LegacyKey == <<0, 0>>
Keys      == (Ordinals \X Attempts) \cup {LegacyKey}

Kinds   == {"none", "retry_started", "completed", "ambiguous", "failed",
            "reconciled"}
Settled == {"completed", "reconciled"}

(* Where a call is: "resolving" its key, about to be claimed ("keyed"),    *)
(* told to retry, in the adapter ("running"), past what the adapter does   *)
(* ("landed") or out of it with an error ("threw"); and how it came back   *)
(* to the loop: with its own outcome ("answered"), with the recorded one   *)
(* ("replayed"), or with an error ("refused").                             *)
Returned == {"answered", "replayed", "refused"}
Places   == {"idle", "resolving", "keyed", "retrying", "running", "landed",
             "threw"} \cup Returned

VARIABLES
    authority,      \* the run's lease: "live", "lapsed", or "released"
    cur,            \* the attempt that claimed the run last, or 0
    parked,         \* attempts whose loop ended by parking the run
    transcript,     \* runs.transcript: the effects it reports as done
    known,          \* known[a]: the transcript attempt a started from
    intent,         \* intent[k]: external_effect_intents.request of key k
    latest,         \* latest[k]: kind of the latest event of key k
    pc,             \* pc[c]: where call c is
    ask,            \* ask[c]: the request of call c
    key,            \* key[c]: the idempotency key call c resolved
    started,        \* started[k]: how often the adapter was entered
    late,           \* late[k]: how often by an attempt that had been replaced
    landed,         \* keys whose action reached the outside system
    cleared         \* cleared[k]: how often an operator said "not completed"

runVars    == <<authority, cur, parked, transcript, known>>
ledgerVars == <<intent, latest>>
callVars   == <<pc, ask, key>>
worldVars  == <<started, late, landed, cleared>>
vars == <<authority, cur, parked, transcript, known, intent, latest,
          pc, ask, key, started, late, landed, cleared>>

NoKey == <<0, MaxAttempts + 1>>

TypeOK ==
    /\ authority \in {"live", "lapsed", "released"}
    /\ cur \in IF authority = "released" THEN 0 .. MaxAttempts ELSE Attempts
    /\ parked \subseteq Attempts
    /\ transcript \subseteq Keys
    /\ known \in [Attempts -> SUBSET Keys]
    /\ intent \in [Keys -> Requests \cup {None}]
    /\ latest \in [Keys -> Kinds]
    /\ pc \in [Calls -> Places]
    /\ ask \in [Calls -> Requests \cup {None}]
    /\ key \in [Calls -> Keys \cup {NoKey}]
    /\ started \in [Keys -> Nat]
    /\ late \in [Keys -> Nat]
    /\ landed \subseteq Keys
    /\ cleared \in [Keys -> Nat]

-----------------------------------------------------------------------------
(* The attempts of the run.                                                *)

Go(c, place) == pc' = [pc EXCEPT ![c] = place]

CallsOf(a) == {c \in Calls : c[1] = a}

\* The loop of the last attempt ends and finalizes the run as parked; the
\* fence does not look at the lease's expiry.  The loop has every call's
\* result by then, or the error withDeadline gave it in place of one: a call
\* may still be under way.
Park ==
    /\ authority # "released"
    /\ authority' = "released"
    /\ parked' = parked \cup {cur}
    /\ transcript' = known[cur] \cup
            {key[c] : c \in {d \in CallsOf(cur) :
                                pc[d] \in {"answered", "replayed"}}}
    /\ UNCHANGED <<cur, known, ledgerVars, callVars, worldVars>>

\* Nobody renewed the lease in time.
Lapse ==
    /\ authority = "live"
    /\ authority' = "lapsed"
    /\ UNCHANGED <<cur, parked, transcript, known, ledgerVars, callVars,
                   worldVars>>

\* An executor claims the run: a new one, a parked one it was asked to resume,
\* or one whose lease lapsed.  It starts from the transcript on the row, and its
\* ordinals start again.
NextAttempt ==
    /\ authority # "live" /\ cur < MaxAttempts
    /\ authority' = "live"
    /\ cur' = cur + 1
    /\ known' = [known EXCEPT ![cur + 1] = transcript]
    /\ UNCHANGED <<parked, transcript, ledgerVars, callVars, worldVars>>

-----------------------------------------------------------------------------
(* One call.                                                               *)

\* The loop calls the tool: the ordinal is taken in this process, in order.
Invoke(c, r) ==
    /\ c[1] <= cur /\ c[1] \notin parked
    /\ pc[c] = "idle"
    /\ \A d \in CallsOf(c[1]) : d[2] < c[2] => pc[d] # "idle"
    /\ Go(c, "resolving")
    /\ ask' = [ask EXCEPT ![c] = r]
    /\ UNCHANGED <<key, runVars, ledgerVars, worldVars>>

\* Keys other attempts recorded under this ordinal.  Broken variant:
\* matched by the request alone, as before ordinals were part of the key.
Recovered_ByRequest(c) ==
    {k \in Keys \ {LegacyKey} : intent[k] = ask[c] /\ k[2] # c[1]}
Recovered(c) ==
    {k \in Keys : intent[k] # None /\ k[2] # c[1] /\ k[1] = c[2]}

\* The key a request recorded before ordinals were part of the key.
Legacy(c) == {k \in {LegacyKey} : intent[k] # None /\ intent[k] = ask[c]}

\* resolveExternalEffectIdempotencyKey.
Resolve(c) ==
    /\ pc[c] = "resolving"
    /\ \/ \E k \in Recovered(c) :
            \/ intent[k] = ask[c]
                /\ key' = [key EXCEPT ![c] = k] /\ Go(c, "keyed")
            \/ intent[k] # ask[c]
                /\ Go(c, "refused") /\ UNCHANGED key
       \/ /\ Recovered(c) = {}
          /\ key' = [key EXCEPT ![c] =
                IF Legacy(c) # {} THEN LegacyKey ELSE <<c[2], c[1]>>]
          /\ Go(c, "keyed")
    /\ UNCHANGED <<ask, runVars, ledgerVars, worldVars>>

\* The adapter is entered.
Enter(c) ==
    /\ started' = [started EXCEPT ![key[c]] = @ + 1]
    /\ late' = [late EXCEPT ![key[c]] = IF c[1] = cur THEN @ ELSE @ + 1]

\* claim, and what executeExternalEffect does with the disposition.  Broken
\* variants: an intent without an outcome is taken for one that never began;
\* an uncertain outcome is taken for completion.
Disposition_Optimistic(c) ==
    LET k == key[c] IN
    CASE intent[k] = None -> "execute"
      [] intent[k] # None /\ intent[k] # ask[c] -> "conflict"
      [] intent[k] = ask[c] /\ latest[k] \in Settled -> "completed"
      [] intent[k] = ask[c] /\ latest[k] \in {"failed", "none"} -> "retry"
      [] OTHER -> "uncertain"
Disposition_Trusting(c) ==
    LET k == key[c] IN
    CASE intent[k] = None -> "execute"
      [] intent[k] # None /\ intent[k] # ask[c] -> "conflict"
      [] intent[k] = ask[c] /\ latest[k] = "failed" -> "retry"
      [] intent[k] = ask[c] /\ latest[k] \in Settled \cup {"ambiguous"} ->
            "completed"
      [] OTHER -> "uncertain"
Disposition(c) ==
    LET k == key[c] IN
    CASE intent[k] = None -> "execute"
      [] intent[k] # None /\ intent[k] # ask[c] -> "conflict"
      [] intent[k] = ask[c] /\ latest[k] \in Settled -> "completed"
      [] intent[k] = ask[c] /\ latest[k] = "failed" -> "retry"
      [] OTHER -> "uncertain"

Claim(c) ==
    /\ pc[c] = "keyed"
    /\ \/ /\ Disposition(c) = "execute"
          /\ intent' = [intent EXCEPT ![key[c]] = ask[c]]
          /\ Enter(c) /\ Go(c, "running")
       \/ /\ Disposition(c) = "retry" /\ Go(c, "retrying")
          /\ UNCHANGED <<intent, started, late>>
       \/ /\ Disposition(c) = "completed" /\ Go(c, "replayed")
          /\ UNCHANGED <<intent, started, late>>
       \/ /\ Disposition(c) \in {"uncertain", "conflict"} /\ Go(c, "refused")
          /\ UNCHANGED <<intent, started, late>>
    /\ UNCHANGED <<latest, ask, key, runVars, landed, cleared>>

\* assertEffectTransition.  Broken variant: a terminal event does not bar
\* what follows.
MayAppend_Anytime(k, kind) == TRUE
MayAppend(k, kind) ==
    /\ latest[k] \notin Settled
    /\ IF kind = "retry_started"
       THEN latest[k] \in {"failed", "ambiguous", "none"}
       ELSE latest[k] \in {"none", "retry_started"}

Append(k, kind) == latest' = [latest EXCEPT ![k] = kind]

\* The retry boundary, then the adapter; a refused append is an error of the
\* call.
StartRetry(c) ==
    /\ pc[c] = "retrying"
    /\ \/ /\ MayAppend(key[c], "retry_started")
          /\ Append(key[c], "retry_started")
          /\ Enter(c) /\ Go(c, "running")
       \/ /\ ~ MayAppend(key[c], "retry_started")
          /\ Go(c, "refused")
          /\ UNCHANGED <<latest, started, late>>
    /\ UNCHANGED <<intent, ask, key, runVars, landed, cleared>>

\* The outside system does what was asked.
Land(c) ==
    /\ pc[c] = "running"
    /\ landed' = landed \cup {key[c]}
    /\ Go(c, "landed")
    /\ UNCHANGED <<ask, key, runVars, ledgerVars, started, late,
                   cleared>>

\* The adapter throws, whether or not the outside system took the request.
AdapterThrows(c) ==
    /\ pc[c] \in {"running", "landed"}
    /\ Go(c, "threw")
    /\ UNCHANGED <<ask, key, runVars, ledgerVars, worldVars>>

\* The outcome of a call that returned.
RecordCompleted(c) ==
    /\ pc[c] = "landed"
    /\ \/ /\ MayAppend(key[c], "completed")
          /\ Append(key[c], "completed") /\ Go(c, "answered")
       \/ /\ ~ MayAppend(key[c], "completed")
          /\ Go(c, "refused") /\ UNCHANGED latest
    /\ UNCHANGED <<intent, ask, key, runVars, worldVars>>

\* classifyError.  Broken variants: an error means nothing happened; the
\* disposition's name is recorded in place of the event's.
ErrorKind_Optimistic == "failed"
ErrorKind_Unknown == "uncertain"
ErrorKind == "ambiguous"

\* The outcome of a call that threw; the error goes back to the loop.
RecordError(c) ==
    /\ pc[c] = "threw"
    /\ \/ MayAppend(key[c], ErrorKind) /\ Append(key[c], ErrorKind)
       \/ ~ MayAppend(key[c], ErrorKind) /\ UNCHANGED latest
    /\ Go(c, "refused")
    /\ UNCHANGED <<intent, ask, key, runVars, worldVars>>

-----------------------------------------------------------------------------
(* An operator settles an effect of unknown fate.                          *)

Reconcilable(k) ==
    /\ intent[k] # None
    /\ latest[k] \notin Settled
    /\ authority # "live"

\* reconcileExternalEffect, confirming completion.
ConfirmCompleted(k) ==
    /\ Reconcilable(k)
    /\ Append(k, "reconciled")
    /\ UNCHANGED <<intent, runVars, callVars, worldVars>>

\* reconcileExternalEffect, clearing the effect for a retry.  It does not go
\* through assertEffectTransition: "failed" may follow "failed".
ClearForRetry(k) ==
    /\ Reconcilable(k)
    /\ cleared[k] < MaxCleared
    /\ Append(k, "failed")
    /\ cleared' = [cleared EXCEPT ![k] = @ + 1]
    /\ UNCHANGED <<intent, runVars, callVars, started, late, landed>>

-----------------------------------------------------------------------------
\* Nobody has claimed the run yet.  An older worker may have left one
\* intent under a key of the old form, with any outcome but none settled by
\* a person; what it did counts as one start.
Init ==
    /\ authority = "released" /\ cur = 0
    /\ parked = {} /\ transcript = {} /\ known = [a \in Attempts |-> {}]
    /\ \E r \in Requests \cup {None}, e \in {"none", "completed", "ambiguous"} :
        /\ r = None => e = "none"
        /\ intent = [k \in Keys |-> IF k = LegacyKey THEN r ELSE None]
        /\ latest = [k \in Keys |-> IF k = LegacyKey THEN e ELSE "none"]
        /\ started = [k \in Keys |->
                        IF k = LegacyKey /\ r # None THEN 1 ELSE 0]
        /\ landed = IF e = "completed" THEN {LegacyKey} ELSE {}
    /\ pc = [c \in Calls |-> "idle"]
    /\ ask = [c \in Calls |-> None]
    /\ key = [c \in Calls |-> NoKey]
    /\ late = [k \in Keys |-> 0]
    /\ cleared = [k \in Keys |-> 0]

Step(c) ==
    \/ \E r \in Requests : Invoke(c, r)
    \/ Resolve(c)
    \/ Claim(c)
    \/ StartRetry(c)
    \/ Land(c)
    \/ AdapterThrows(c)
    \/ RecordCompleted(c)
    \/ RecordError(c)

Next ==
    \/ Park \/ Lapse \/ NextAttempt
    \/ \E c \in Calls : Step(c)
    \/ \E k \in Keys : ConfirmCompleted(k) \/ ClearForRetry(k)

Spec == Init /\ [][Next]_vars

-----------------------------------------------------------------------------
(* Properties.                                                             *)

\* Under one key nothing is started a second time unless a person said that
\* the first start did not complete: not after a crash between the adapter
\* and its outcome, nor by another attempt, nor after an error that came back
\* from a request that was accepted.
OneStartPerKey == \A k \in Keys : started[k] > 1 => cleared[k] > 0

\* The n-th call of two attempts is started under two keys only by an attempt
\* that starts after it was replaced: it had resolved its key, and recorded
\* the intent after its successor had looked for one.
SecondKeyIsLate ==
    \A k, l \in Keys \ {LegacyKey} :
        (k[1] = l[1] /\ k[2] < l[2] /\ started[k] > 0 /\ started[l] > 0) =>
            late[k] > 0

\* A call of the run is started a second time, under its key or under another
\* attempt's for the same ordinal, only where a person said that the first
\* start did not complete, or where an attempt that had been replaced meets
\* its successor between the look-up of the key and the recording of the
\* intent, which is made without the fence: then nobody is asked.
NeverRepeatedUnaided == OneStartPerKey /\ SecondKeyIsLate

\* Each "not completed" buys one more start.  Only an attempt that had been
\* replaced can exceed that: it read "failed" before it lost the run and
\* starts its retry after the new attempt's has come back ambiguous.  (Under
\* a legacy key two calls of one attempt may meet, and both read "failed".)
OneStartPerClearance ==
    \A k \in Keys \ {LegacyKey} : started[k] <= 1 + cleared[k] + late[k]

\* Two calls of one attempt never share an effect: neither is answered with
\* what the other did, however alike they are and whatever an earlier
\* attempt left (an intent from before the contract excepted).
CallsKeepApart ==
    \A c, d \in Calls :
        (c # d /\ c[1] = d[1] /\ key[c] # NoKey) =>
            key[c] # key[d] \/ key[c] = LegacyKey

\* A call is told its action is done only when the outside system took that
\* very action or a person said it did.
AnswersAreEarned ==
    \A c \in Calls : pc[c] \in {"answered", "replayed"} =>
        /\ intent[key[c]] = ask[c]
        /\ key[c] \in landed \/ latest[key[c]] = "reconciled"

\* An effect known to be done stays known to be done, and is not begun again:
\* a call that comes back late, a retry that was on its way when the outcome
\* became known and an operator all leave it alone.
SettledStaysSettled ==
    [][\A k \in Keys : latest[k] \in Settled =>
            latest'[k] = latest[k] /\ started'[k] = started[k]]_vars

(* Refinement: the attempts that make the calls are what RunExecution's    *)
(* fenced leases also implement.                                           *)
Phase(a) == IF a > cur THEN "none"
            ELSE IF a = cur /\ authority # "released" THEN "open" ELSE "closed"

Serial == INSTANCE SerialAttempts
    WITH phase <- [a \in Attempts |-> Phase(a)],
         authority <- IF authority = "released" THEN 0 ELSE cur

\* The attempts whose calls overlap here are those RunExecution admits: they
\* begin in order, one is open, and none is opened again.
AttemptsAreSerial == Serial!Spec

\* What run-execution.ts:280-286 says of a key: an attempt takes over the
\* calls of the attempt it replaces, and otherwise "two identical calls
\* remain distinct".  So no call is answered with what an earlier call, one
\* the attempt finds done in the transcript it resumed from, did.
IdenticalCallsStayDistinct ==
    \A c \in Calls : pc[c] = "replayed" => key[c] \notin known[c[1]]

\* What holds of it: a call that is answered with a recorded outcome has that
\* of the call with the same ordinal in another attempt, which asked for the
\* same (or what an older worker left); never that of a call of its own
\* attempt, and never that of the attempt's n-th call when it is the m-th.
Coiner(k) == <<k[2], k[1]>>
ReplaysTakeOver ==
    \A c \in Calls : pc[c] = "replayed" =>
        \/ key[c] = LegacyKey
        \/ LET d == Coiner(key[c]) IN
            /\ d # c /\ d[2] = c[2]
            /\ key[d] = key[c] /\ ask[d] = ask[c]
=============================================================================
