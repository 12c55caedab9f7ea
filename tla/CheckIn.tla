------------------------------ MODULE CheckIn ------------------------------
(***************************************************************************)
(* The rendezvous of a session with its machine server.                    *)
(*                                                                         *)
(* StartSession spawns a machine server, and every snapshot and rollback   *)
(* replaces it by another.  Each time the handler registers itself in      *)
(* sessions_waiting_checkin, sets a deadline alarm with a coroutine of its *)
(* own and yields.  Two things resume it, both by calling its coroutine    *)
(* directly: the CheckIn RPC of the new server, after it was acknowledged, *)
(* or the coroutine of the alarm.                                          *)
(*                                                                         *)
(* The waits of one session are numbered; wait r is for server r, and the  *)
(* alarm of wait r is alarm[r].  The completion queue promises no order    *)
(* between the tags that are in it.                                        *)
(***************************************************************************)
EXTENDS Naturals

CONSTANTS
    MaxWaits,    \* how many times the session waits
    Sends        \* how many CheckIn requests a server may send

ASSUME CheckInAssumption ==
    /\ MaxWaits \in Nat \ {0} /\ Sends \in Nat \ {0}

VARIABLES
    exists,      \* is the session in hctx.sessions?
    at,          \* the yield at which the session's handler is suspended
    round,       \* the current wait, or the last one
    waiting,     \* the session's entry in sessions_waiting_checkin, or NoEntry
    alarm,       \* for each wait its alarm: set, or its tag in the queue
    checkin,     \* for each server its CheckIn requests
    address,     \* server_address, as the number of the server, or 0
    stub,        \* the server that server_stub is connected to, or 0
    crashed,     \* "no", or the way the process went wrong
    accepted     \* history: the server last accepted in each wait, or 0

vars == <<exists, at, round, waiting, alarm, checkin, address, stub, crashed,
          accepted>>

Waits == 1..MaxWaits
NoEntry == [round |-> 0, status |-> "none"]

\* The states of the handler: between two waits, or waiting for the answer
\* to the call that makes the server check in, or waiting for the check-in, or
\* responding with an error.
Places == {"start", "trigger", "wait", "between", "failed"}

\* Types, and that no alarm belongs to a wait that has not begun.
TypeOK ==
    /\ exists \in BOOLEAN /\ at \in Places /\ round \in 0..MaxWaits
    /\ waiting \in {NoEntry} \cup [round : Waits, status : {"unset", "true", "false"}]
    /\ alarm \in [Waits -> {"none", "set", "fired", "cancelled", "over"}]
    /\ \A r \in Waits : r > round => alarm[r] = "none"
    /\ checkin \in [Waits -> [1..Sends -> {"unsent", "sent", "acking", "over"}]]
    /\ address \in 0..MaxWaits /\ stub \in 0..MaxWaits
    /\ accepted \in [Waits -> 0..MaxWaits]
    /\ crashed \in {"no", "exit", "stray"}

Init ==
    /\ exists = FALSE /\ at = "start" /\ round = 0 /\ waiting = NoEntry
    /\ alarm = [r \in Waits |-> "none"]
    /\ checkin = [r \in Waits |-> [k \in 1..Sends |-> "unsent"]]
    /\ address = 0 /\ stub = 0 /\ crashed = "no"
    /\ accepted = [r \in Waits |-> 0]

-----------------------------------------------------------------------------
(* The session's handler. *)

\* Fault: the coroutine of the deadline is created without an alarm.
RegisterNoAlarm(r) ==
    /\ waiting' = [round |-> r, status |-> "unset"]
    /\ at' = "wait" /\ UNCHANGED alarm

\* The handler registers itself for wait r and creates the coroutine of the
\* deadline, which sets the alarm of the entry and yields.
Register(r) ==
    /\ waiting' = [round |-> r, status |-> "unset"]
    /\ alarm' = [alarm EXCEPT ![r] = "set"]
    /\ at' = "wait"

\* StartSession has inserted its session, spawns the server and registers
\* without a yield in between.
Spawn ==
    /\ at = "start" /\ round = 0
    /\ exists' = TRUE /\ round' = 1
    /\ Register(1)
    /\ UNCHANGED <<checkin, address, stub, crashed, accepted>>

\* A snapshot or a rollback is requested.  The new server may check in before
\* the answer arrives.
Trigger ==
    /\ at = "between" /\ round < MaxWaits
    /\ IF waiting # NoEntry
       THEN crashed' = "exit" /\ UNCHANGED <<at, round>>
       ELSE at' = "trigger" /\ round' = round + 1 /\ UNCHANGED crashed
    /\ UNCHANGED <<exists, waiting, alarm, checkin, address, stub, accepted>>

Triggered ==
    /\ at = "trigger"
    /\ Register(round)
    /\ UNCHANGED <<exists, round, checkin, address, stub, crashed, accepted>>

TriggerFails ==
    /\ at = "trigger" /\ at' = "failed"
    /\ UNCHANGED <<exists, round, waiting, alarm, checkin, address, stub, crashed,
                   accepted>>

\* Fault: a failed check-in is not told from a successful one.
ResumeIgnoringStatus(e, s) ==
    IF at # "wait"
    THEN crashed' = "stray" /\ UNCHANGED <<at, exists, waiting, stub>>
    ELSE /\ waiting' = NoEntry /\ at' = "between" /\ stub' = address
         /\ UNCHANGED <<exists, crashed>>

\* The rest of trigger_and_wait_checkin, when its coroutine is called with the
\* status s in its entry, if e says there is one.  A call that does not find the handler at
\* this yield continues it at another, with a result that is not there.
ResumeWaiter(e, s) ==
    IF at # "wait"
    THEN crashed' = "stray" /\ UNCHANGED <<at, exists, waiting, stub>>
    ELSE IF ~e \/ s = "unset"
    THEN crashed' = "exit" /\ UNCHANGED <<at, exists, waiting, stub>>
    ELSE /\ waiting' = NoEntry
         /\ IF s = "true"
            THEN at' = "between" /\ stub' = address /\ UNCHANGED exists
            ELSE /\ at' = "failed" /\ UNCHANGED stub
                 /\ exists' = (round # 1)  \* StartSession erases the session
         /\ UNCHANGED crashed

-----------------------------------------------------------------------------
(* The alarm and its coroutine. *)

AlarmFires(r) ==
    /\ alarm[r] = "set"
    /\ alarm' = [alarm EXCEPT ![r] = "fired"]
    /\ UNCHANGED <<exists, at, round, waiting, checkin, address, stub, crashed,
                   accepted>>

\* The tag of an alarm that went off.  The entry it finds is the one the
\* session has now.
CheckinDeadline(r) ==
    /\ alarm[r] = "fired"
    /\ alarm' = [alarm EXCEPT ![r] = "over"]
    /\ IF waiting = NoEntry
       THEN crashed' = "exit" /\ UNCHANGED <<at, exists, waiting, stub>>
       ELSE ResumeWaiter(TRUE, "false")
    /\ UNCHANGED <<round, checkin, address, accepted>>

\* The tag of an alarm that was cancelled.
AlarmCancelled(r) ==
    /\ alarm[r] = "cancelled"
    /\ alarm' = [alarm EXCEPT ![r] = "over"]
    /\ UNCHANGED <<exists, at, round, waiting, checkin, address, stub, crashed,
                   accepted>>

-----------------------------------------------------------------------------
(* The CheckIn requests. *)

\* Server r exists once its wait has been triggered.
Send(r, k) ==
    /\ r <= round /\ checkin[r][k] = "unsent"
    /\ k > 1 => checkin[r][k - 1] # "unsent"
    /\ checkin' = [checkin EXCEPT ![r][k] = "sent"]
    /\ UNCHANGED <<exists, at, round, waiting, alarm, address, stub, crashed,
                   accepted>>

\* Fault: the alarm is not cancelled.
CancelNothing(r) == UNCHANGED alarm

\* Cancelling has no effect on an alarm that went off.
Cancel(r) == alarm' = [alarm EXCEPT ![r] = IF @ = "set" THEN "cancelled" ELSE @]

\* Fault: the address is kept from the first check-in.
AcceptKeepingAddress(r, k) ==
    /\ address' = IF address = 0 THEN r ELSE address
    /\ waiting' = [waiting EXCEPT !.status = "true"]
    /\ accepted' = [accepted EXCEPT ![waiting.round] = r]
    /\ checkin' = [checkin EXCEPT ![r][k] = "acking"]
    /\ Cancel(waiting.round)

\* A request names its session and no more, so that it is taken as the one the
\* session waits for, if it waits.
AcceptCheckIn(r, k) ==
    /\ address' = r
    /\ waiting' = [waiting EXCEPT !.status = "true"]
    /\ accepted' = [accepted EXCEPT ![waiting.round] = r]
    /\ checkin' = [checkin EXCEPT ![r][k] = "acking"]
    /\ Cancel(waiting.round)

ReceiveCheckIn(r, k) ==
    /\ checkin[r][k] = "sent"
    /\ IF waiting = NoEntry \/ ~exists
       THEN /\ checkin' = [checkin EXCEPT ![r][k] = "over"]  \* INVALID_ARGUMENT
            /\ UNCHANGED <<waiting, alarm, address, accepted>>
       ELSE AcceptCheckIn(r, k)
    /\ UNCHANGED <<exists, at, round, stub, crashed>>

\* Fault: the handler is not resumed once the check-in is acknowledged.
AckedWithoutResume(r, k) ==
    /\ checkin[r][k] = "acking"
    /\ checkin' = [checkin EXCEPT ![r][k] = "over"]
    /\ UNCHANGED <<exists, at, round, waiting, alarm, address, stub, crashed, accepted>>

\* The acknowledgement is delivered: the request calls the coroutine it found.
CheckInAcked(r, k) ==
    /\ checkin[r][k] = "acking"
    /\ checkin' = [checkin EXCEPT ![r][k] = "over"]
    /\ ResumeWaiter(waiting # NoEntry, waiting.status)
    /\ UNCHANGED <<round, alarm, address, accepted>>

Next ==
    /\ crashed = "no"
    /\ \/ Spawn \/ Trigger \/ Triggered \/ TriggerFails
       \/ \E r \in Waits : \/ AlarmFires(r) \/ CheckinDeadline(r) \/ AlarmCancelled(r)
                           \/ \E k \in 1..Sends : \/ Send(r, k)
                                                  \/ ReceiveCheckIn(r, k)
                                                  \/ CheckInAcked(r, k)

Spec == Init /\ [][Next]_vars

\* Alarms go off, and the main loop takes every tag out of the queue.  Nothing
\* is assumed of the servers.
Running(A) == crashed = "no" /\ A

Fairness ==
    \A r \in Waits :
        /\ WF_vars(Running(AlarmFires(r)))
        /\ WF_vars(Running(CheckinDeadline(r)))
        /\ WF_vars(Running(AlarmCancelled(r)))
        /\ \A k \in 1..Sends : /\ WF_vars(Running(ReceiveCheckIn(r, k)))
                               /\ WF_vars(Running(CheckInAcked(r, k)))

FairSpec == Spec /\ Fairness

-----------------------------------------------------------------------------
(* Properties. *)

\* A handler that waits for its check-in has its entry in the table, and somebody is going
\* to call its coroutine: its own alarm, set or gone off, or, when a check-in
\* has cancelled that, the request that did.
WaitHasWaker ==
    at = "wait" /\ crashed = "no" =>
        /\ waiting.round = round
        /\ \/ alarm[round] \in {"set", "fired"}
           \/ /\ waiting.status = "true"
              /\ \E x \in Waits, k \in 1..Sends : checkin[x][k] = "acking"

\* A wait ends well only if a check-in was accepted during it, and server_stub
\* is then connected to the server that was accepted last, whatever became of
\* alarms and requests of earlier waits.
SuccessEarned ==
    at = "between" => accepted[round] # 0 /\ stub = accepted[round]

\* Every wait ends, with a server or with the deadline, even if the server never
\* checks in or does so too early.
WaitsEnd ==
    \A r \in Waits :
        at = "wait" /\ round = r ~> crashed # "no" \/ ~(at = "wait" /\ round = r)
=============================================================================
