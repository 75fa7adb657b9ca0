--------------------------- MODULE MCRunExecution ---------------------------
(***************************************************************************)
(* Values for TLC: which news each executor's caller waits for.            *)
(***************************************************************************)
EXTENDS RunExecution, TLC

CONSTANTS
    a, b,       \* deliveries of a decided approval
    r, s        \* the arrival of a reply, and the silence pass

\* One decision delivered twice: the claim on it lapses after five minutes.
TwoDeliveries == a :> "waiting_approval" @@ b :> "waiting_approval"

\* A reply racing the silence pass.
ReplyAndSilence == r :> "waiting_reply" @@ s :> "waiting_reply"
=============================================================================
