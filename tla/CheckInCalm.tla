---------------------------- MODULE CheckInCalm ----------------------------
(***************************************************************************)
(* CheckIn with a history variable that says whether servers and alarms    *)
(* have kept to what the code expects of them, and what holds as long as   *)
(* they have.  The variable allows every step of CheckIn.                  *)
(***************************************************************************)
EXTENDS CheckIn

VARIABLE calm   \* history: have servers and alarms been as the code expects?

\* Servers send their CheckIn once, and the tags of an alarm that went off and of
\* a CheckIn are not in the queue together.
Calm ==
    /\ \A r \in Waits, k \in 2..Sends : checkin[r][k] = "unsent"
    /\ ~(/\ \E r \in Waits : alarm[r] = "fired"
         /\ \E r \in Waits, k \in 1..Sends : checkin[r][k] = "sent")

CalmInit == Init /\ calm = TRUE
CalmNext == Next /\ calm' = (calm /\ Calm')
CalmSpec == CalmInit /\ [][CalmNext]_<<vars, calm>>
CalmFairSpec == CalmSpec /\ Fairness

\* As long as servers and alarms have been calm, the session is always connected to its
\* newest server: server_stub is made from the address of the check-in that was
\* waited for, and not from one that came before.
AddressFresh == calm /\ at = "between" => stub = round

\* As long as servers and alarms have been calm, no coroutine is called that does not
\* wait, and the process does not exit: not at the test for an earlier wait, not
\* because an entry is missing or has no status, not because an alarm outlived its
\* wait.
RendezvousSafe == calm => crashed = "no"
=============================================================================
