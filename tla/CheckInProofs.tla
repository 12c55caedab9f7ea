--------------------------- MODULE CheckInProofs ---------------------------
(***************************************************************************)
(* For any number of waits and any number of check-ins, with alarms that   *)
(* race with them: a wait has somebody who will end it, and ends well only *)
(* with a server that checked in during it.                                *)
(*                                                                         *)
(* The two need to know that an entry of sessions_waiting_checkin is       *)
(* always that of the current wait, although alarms and requests of        *)
(* earlier waits may still be about, and that its status is true only      *)
(* after a check-in of this wait, whose address is still there.            *)
(*                                                                         *)
(* As long as servers and alarms are calm, more is true of the requests    *)
(* and alarms of earlier waits: there are none left, and those of the      *)
(* current wait are never about together.                                  *)
(***************************************************************************)
EXTENDS CheckInCalm, TLAPS

\* An entry is that of the current wait, and its handler is waiting.
EntryIsCurrent ==
    waiting # NoEntry => at = "wait" /\ waiting.round = round

\* A status of true comes from the last check-in accepted in the wait.
StatusEarned ==
    waiting.status = "true" =>
        /\ accepted[waiting.round] # 0
        /\ address = accepted[waiting.round]

\* A handler that has begun is in one of its waits or past it.
Begun == at # "start" => round # 0

IInv == /\ TypeOK /\ Begun /\ EntryIsCurrent /\ StatusEarned
        /\ WaitHasWaker /\ SuccessEarned

CheckIns == [Waits -> [1..Sends -> {"unsent", "sent", "acking", "over"}]]

\* The initial state satisfies the invariant: nothing waits, no status is set.
LEMMA InitIInv == Init => IInv
<1> SUFFICES ASSUME Init PROVE IInv
  OBVIOUS
<1>1. checkin \in [Waits -> [1..Sends -> {"unsent", "sent", "acking", "over"}]]
  BY DEF Init
<1>2. accepted \in [Waits -> 0..MaxWaits]
  BY CheckInAssumption DEF Init
<1>3. /\ alarm \in [Waits -> {"none", "set", "fired", "cancelled", "over"}]
      /\ \A r \in Waits : r > round => alarm[r] = "none"
  BY DEF Init
<1>4. exists \in BOOLEAN /\ waiting = NoEntry
  BY Zenon DEF Init
<1>5. /\ at \in Places /\ round \in 0..MaxWaits
      /\ address \in 0..MaxWaits /\ stub \in 0..MaxWaits
      /\ crashed \in {"no", "exit", "stray"}
  BY CheckInAssumption DEF Init, Places
<1>6. TypeOK
  BY <1>1, <1>2, <1>3, <1>4, <1>5 DEF TypeOK
<1> QED
  BY <1>6 DEF Init, IInv, Begun, EntryIsCurrent, StatusEarned, WaitHasWaker,
              SuccessEarned, NoEntry

\* Registering for a wait keeps the invariant: the entry is new and the alarm set.
LEMMA RegisterIInv ==
    ASSUME IInv, NEW r \in Waits, Register(r), round' = r, r = round \/ r = round + 1,
           UNCHANGED <<checkin, address, stub, crashed, accepted>>, exists' \in BOOLEAN
    PROVE  IInv'
  BY CheckInAssumption
     DEF Register, IInv, TypeOK, Begun, EntryIsCurrent, StatusEarned, WaitHasWaker,
         SuccessEarned, Waits, Places, NoEntry

\* Continuing a handler after its wait keeps the invariant whatever status it
\* finds: it leaves the wait with the address of the server it was earned with,
\* fails, or the process is no longer running.
LEMMA ResumeIInv ==
    ASSUME IInv, NEW e \in BOOLEAN, NEW s,
           e => waiting # NoEntry, s \in {waiting.status, "false"},
           ResumeWaiter(e, s),
           UNCHANGED <<round, address, accepted>>,
           alarm' \in [Waits -> {"none", "set", "fired", "cancelled", "over"}],
           \A x \in Waits : x > round => alarm'[x] = "none",
           checkin' \in CheckIns
    PROVE  IInv'
<1> USE CheckInAssumption DEF Waits, NoEntry, CheckIns
<1>1. CASE at # "wait"
  BY <1>1 DEF ResumeWaiter, IInv, TypeOK, Begun, EntryIsCurrent, StatusEarned,
              WaitHasWaker, SuccessEarned
<1>2. CASE at = "wait" /\ (~e \/ s = "unset")
  BY <1>2 DEF ResumeWaiter, IInv, TypeOK, Begun, EntryIsCurrent, StatusEarned,
              WaitHasWaker, SuccessEarned
<1>3. CASE at = "wait" /\ e /\ s # "unset"
  <2>1. waiting' = NoEntry /\ UNCHANGED crashed
        /\ \/ s = "true" /\ at' = "between" /\ stub' = address /\ UNCHANGED exists
           \/ at' = "failed" /\ UNCHANGED stub /\ exists' \in BOOLEAN
    BY <1>3 DEF ResumeWaiter
  <2>2. waiting.round = round /\ round \in Waits
    BY <1>3 DEF IInv, TypeOK, EntryIsCurrent
  <2>3. TypeOK'
    BY <2>1 DEF IInv, TypeOK, Places
  <2>4. SuccessEarned'
    BY <2>1, <2>2 DEF IInv, StatusEarned, SuccessEarned
  <2> QED
    BY <2>1, <2>2, <2>3, <2>4
       DEF IInv, Begun, EntryIsCurrent, StatusEarned, WaitHasWaker
<1> QED BY <1>1, <1>2, <1>3

\* Every step keeps the invariant.
LEMMA NextIInv == IInv /\ [Next]_vars => IInv'
<1> SUFFICES ASSUME IInv, [Next]_vars PROVE IInv'
  OBVIOUS
<1> USE CheckInAssumption
<1>1. CASE UNCHANGED vars
  BY <1>1 DEF vars, IInv, TypeOK, Begun, EntryIsCurrent, StatusEarned, WaitHasWaker,
              SuccessEarned
<1>2. CASE Spawn
  <2>1. 1 \in Waits BY DEF Waits
  <2> QED BY <1>2, <2>1, RegisterIInv DEF Spawn, IInv, TypeOK
<1>3. CASE Trigger
  BY <1>3 DEF Trigger, IInv, TypeOK, Begun, EntryIsCurrent, StatusEarned,
              WaitHasWaker, SuccessEarned, Waits, Places, NoEntry
<1>4. CASE Triggered
  <2>1. round \in Waits BY <1>4 DEF Triggered, IInv, TypeOK, Begun, Waits
  <2> QED BY <1>4, <2>1, RegisterIInv DEF Triggered, IInv, TypeOK
<1>5. CASE TriggerFails
  BY <1>5 DEF TriggerFails, IInv, TypeOK, Begun, EntryIsCurrent, StatusEarned,
              WaitHasWaker, SuccessEarned, Waits, Places, NoEntry
<1>6. ASSUME NEW r \in Waits, AlarmFires(r) PROVE IInv'
  BY <1>6 DEF AlarmFires, IInv, TypeOK, Begun, EntryIsCurrent, StatusEarned,
              WaitHasWaker, SuccessEarned, Waits, NoEntry
<1>7. ASSUME NEW r \in Waits, CheckinDeadline(r), crashed = "no" PROVE IInv'
  <2>1. /\ alarm' \in [Waits -> {"none", "set", "fired", "cancelled", "over"}]
        /\ \A x \in Waits : x > round => alarm'[x] = "none"
    BY <1>7 DEF CheckinDeadline, IInv, TypeOK, Waits
  <2>2. checkin' \in CheckIns
    BY <1>7 DEF CheckinDeadline, IInv, TypeOK, CheckIns
  <2>3. CASE waiting = NoEntry
    BY <1>7, <2>1, <2>2, <2>3
       DEF CheckinDeadline, IInv, TypeOK, Begun, EntryIsCurrent, StatusEarned,
           WaitHasWaker, SuccessEarned, NoEntry, Waits
  <2>4. CASE waiting # NoEntry
    BY <1>7, <2>1, <2>2, <2>4, ResumeIInv DEF CheckinDeadline
  <2> QED BY <2>3, <2>4
<1>8. ASSUME NEW r \in Waits, AlarmCancelled(r) PROVE IInv'
  BY <1>8 DEF AlarmCancelled, IInv, TypeOK, Begun, EntryIsCurrent, StatusEarned,
              WaitHasWaker, SuccessEarned, Waits, NoEntry
<1>9. ASSUME NEW r \in Waits, NEW k \in 1..Sends, Send(r, k) PROVE IInv'
  <2>1. TypeOK' BY <1>9 DEF Send, IInv, TypeOK
  <2>2. \A x \in Waits, j \in 1..Sends :
            checkin[x][j] = "acking" => checkin'[x][j] = "acking"
    BY <1>9 DEF Send, IInv, TypeOK
  <2>3. WaitHasWaker'
    BY <1>9, <2>2, <2>1 DEF Send, IInv, TypeOK, WaitHasWaker
  <2> QED BY <1>9, <2>1, <2>3
             DEF Send, IInv, Begun, EntryIsCurrent, StatusEarned, SuccessEarned
<1>10. ASSUME NEW r \in Waits, NEW k \in 1..Sends, ReceiveCheckIn(r, k) PROVE IInv'
  <2>1. CASE waiting = NoEntry \/ ~exists
    <3>1. TypeOK'
      <4>1. checkin' = [checkin EXCEPT ![r][k] = "over"]
            /\ UNCHANGED <<exists, at, round, waiting, alarm, address, stub, crashed,
                           accepted>>
        BY <1>10, <2>1 DEF ReceiveCheckIn
      <4>2. checkin' \in CheckIns BY <4>1 DEF IInv, TypeOK, CheckIns
      <4> QED BY <4>1, <4>2 DEF IInv, TypeOK, CheckIns
    <3>2. \A x \in Waits, j \in 1..Sends :
            checkin[x][j] = "acking" => checkin'[x][j] = "acking"
      BY <1>10, <2>1 DEF ReceiveCheckIn, IInv, TypeOK
    <3>3. WaitHasWaker'
      BY <1>10, <2>1, <3>1, <3>2 DEF ReceiveCheckIn, IInv, TypeOK, WaitHasWaker
    <3> QED BY <1>10, <2>1, <3>1, <3>3
               DEF ReceiveCheckIn, IInv, Begun, EntryIsCurrent, StatusEarned,
                   SuccessEarned
  <2>2. CASE ~(waiting = NoEntry \/ ~exists)
    <3>1. AcceptCheckIn(r, k) /\ UNCHANGED <<exists, at, round, stub, crashed>>
      BY <1>10, <2>2 DEF ReceiveCheckIn
    <3>2. /\ at = "wait" /\ waiting.round = round /\ round \in Waits
          /\ waiting \in [round : Waits, status : {"unset", "true", "false"}]
      BY <2>2 DEF IInv, TypeOK, EntryIsCurrent
    <3>3. waiting' = [round |-> round, status |-> "true"]
      BY <3>1, <3>2 DEF AcceptCheckIn
    <3>4. alarm' \in [Waits -> {"none", "set", "fired", "cancelled", "over"}]
          /\ \A x \in Waits : x > round => alarm'[x] = "none"
      BY <3>1, <3>2 DEF AcceptCheckIn, Cancel, IInv, TypeOK, Waits
    <3>5. accepted' \in [Waits -> 0..MaxWaits] /\ accepted'[round] = r /\ r # 0
          /\ address' = r /\ r \in 0..MaxWaits
      BY <3>1, <3>2 DEF AcceptCheckIn, IInv, TypeOK, Waits
    <3>6. checkin' \in CheckIns
          /\ checkin'[r][k] = "acking"
      BY <3>1 DEF AcceptCheckIn, IInv, TypeOK, CheckIns
    <3>7. TypeOK'
      BY <3>1, <3>2, <3>3, <3>4, <3>5, <3>6 DEF IInv, TypeOK, CheckIns
    <3>8. EntryIsCurrent' /\ StatusEarned' /\ Begun' /\ SuccessEarned'
      BY <3>1, <3>2, <3>3, <3>5
         DEF IInv, EntryIsCurrent, StatusEarned, Begun, SuccessEarned
    <3>9. WaitHasWaker'
      BY <3>1, <3>3, <3>6 DEF WaitHasWaker
    <3> QED BY <3>7, <3>8, <3>9 DEF IInv
  <2> QED BY <2>1, <2>2
<1>11. ASSUME NEW r \in Waits, NEW k \in 1..Sends, CheckInAcked(r, k), crashed = "no"
       PROVE IInv'
  <2>1. checkin' \in CheckIns
    BY <1>11 DEF CheckInAcked, IInv, TypeOK, CheckIns
  <2>2. /\ alarm' \in [Waits -> {"none", "set", "fired", "cancelled", "over"}]
        /\ \A x \in Waits : x > round => alarm'[x] = "none"
    BY <1>11 DEF CheckInAcked, IInv, TypeOK
  <2>3. ResumeWaiter(waiting # NoEntry, waiting.status)
        /\ UNCHANGED <<round, address, accepted>>
    BY <1>11 DEF CheckInAcked
  <2> QED BY <2>1, <2>2, <2>3, ResumeIInv
<1> QED BY <1>1, <1>2, <1>3, <1>4, <1>5, <1>6, <1>7, <1>8, <1>9, <1>10, <1>11 DEF Next

\* The invariant holds in every state the rendezvous reaches.
THEOREM Invariance == Spec => []IInv
  BY InitIInv, NextIInv, PTL DEF Spec

\* Somebody is going to call every coroutine that trigger_and_wait_checkin has
\* suspended: its own alarm, or the CheckIn that cancelled it, however many alarms
\* and check-ins of earlier waits are still about.
THEOREM NoWaitForgotten == Spec => []WaitHasWaker
<1>1. IInv => WaitHasWaker BY DEF IInv
<1> QED BY <1>1, Invariance, PTL

\* trigger_and_wait_checkin returns only after a check-in was accepted during the
\* wait, and server_stub is connected to the server accepted last.
THEOREM ServerEarned == Spec => []SuccessEarned
<1>1. IInv => SuccessEarned BY DEF IInv
<1> QED BY <1>1, Invariance, PTL

-----------------------------------------------------------------------------
(* Calm servers and alarms. *)

\* An alarm that can still go off is that of a wait that no check-in has ended.
AlarmIsCurrent ==
    \A r \in Waits :
        alarm[r] \in {"set", "fired"} =>
            r = round /\ at = "wait" /\ waiting.status = "unset"

\* A CheckIn that is being acknowledged is the one request of the newest server,
\* and it has set the status of the entry and the address.
AckIsCurrent ==
    /\ \A r \in Waits, k \in 1..Sends :
        checkin[r][k] = "acking" =>
            r = round /\ k = 1 /\ at = "wait" /\ waiting.status = "true"
    /\ waiting.status = "true" => address = round
    /\ waiting.status # "false"

\* The servers of earlier waits have nothing left to say, those of later ones have
\* not begun, and neither has the newest one anything left once its wait is over.
RequestsInOrder ==
    /\ \A r \in Waits : r < round => checkin[r][1] = "over"
    /\ \A r \in Waits : r > round => checkin[r][1] = "unsent"
    /\ at = "between" => checkin[round][1] = "over" /\ stub = round

CalmInv ==
    calm => Calm /\ crashed = "no" /\ AlarmIsCurrent /\ AckIsCurrent /\ RequestsInOrder

\* A step that leaves alarms and requests calm keeps them in order, and does not
\* end the process.
LEMMA NextCalm == IInv /\ CalmInv /\ [CalmNext]_<<vars, calm>> => CalmInv'
<1> SUFFICES ASSUME IInv, CalmInv, [CalmNext]_<<vars, calm>>, calm' PROVE
       /\ Calm' /\ crashed' = "no" /\ AlarmIsCurrent' /\ AckIsCurrent'
       /\ RequestsInOrder'
  BY DEF CalmInv
<1> USE CheckInAssumption
<1> 1 \in 1..Sends /\ round \in Nat
  BY DEF IInv, TypeOK
<1> checkin \in CheckIns
  BY DEF IInv, TypeOK, CheckIns
<1>1. CASE UNCHANGED <<vars, calm>>
  BY <1>1 DEF vars, CalmInv, Calm, AlarmIsCurrent, AckIsCurrent, RequestsInOrder
<1>2. CASE CalmNext
  <2>1. Next /\ calm /\ Calm'
    BY <1>2 DEF CalmNext
  <2>2. Calm /\ crashed = "no" /\ AlarmIsCurrent /\ AckIsCurrent /\ RequestsInOrder
    BY <2>1 DEF CalmInv
  <2>3. CASE Spawn
    BY <2>1, <2>2, <2>3
       DEF Spawn, Register, AlarmIsCurrent, AckIsCurrent, RequestsInOrder, IInv, TypeOK,
           Waits, CheckIns
  <2>4. CASE Trigger
    <3>1. waiting = NoEntry /\ waiting.status = "none"
      BY <2>4 DEF Trigger, IInv, EntryIsCurrent, NoEntry
    <3>2. /\ at = "between" /\ at' = "trigger" /\ round' = round + 1
          /\ UNCHANGED <<waiting, alarm, checkin, address, stub, crashed>>
      BY <2>4, <3>1 DEF Trigger
    <3> QED
      BY <2>1, <2>2, <3>1, <3>2
         DEF AlarmIsCurrent, AckIsCurrent, RequestsInOrder, Waits, NoEntry
  <2>5. CASE Triggered
    <3>1. waiting = NoEntry /\ at = "trigger" /\ round \in Waits
      BY <2>5 DEF Triggered, IInv, EntryIsCurrent, Begun, TypeOK, Waits
    <3> QED
      BY <2>1, <2>2, <2>5, <3>1
         DEF Triggered, Register, AlarmIsCurrent, AckIsCurrent, RequestsInOrder, IInv,
             TypeOK
  <2>6. CASE TriggerFails
    BY <2>1, <2>2, <2>6
       DEF TriggerFails, AlarmIsCurrent, AckIsCurrent, RequestsInOrder
  <2>7. ASSUME NEW r \in Waits, AlarmFires(r) \/ AlarmCancelled(r)
        PROVE  crashed' = "no" /\ AlarmIsCurrent' /\ AckIsCurrent' /\ RequestsInOrder'
    BY <2>2, <2>7 DEF AlarmFires, AlarmCancelled, AlarmIsCurrent, AckIsCurrent,
                      RequestsInOrder, IInv, TypeOK
  <2>8. ASSUME NEW r \in Waits, CheckinDeadline(r)
        PROVE  crashed' = "no" /\ AlarmIsCurrent' /\ AckIsCurrent' /\ RequestsInOrder'
    <3>1. r = round /\ at = "wait" /\ waiting.status = "unset" /\ waiting # NoEntry
      BY <2>2, <2>8 DEF CheckinDeadline, AlarmIsCurrent, NoEntry
    <3>2. /\ at' = "failed" /\ waiting' = NoEntry /\ alarm' = [alarm EXCEPT ![r] = "over"]
          /\ UNCHANGED <<round, checkin, address, stub, crashed>>
      BY <2>8, <3>1 DEF CheckinDeadline, ResumeWaiter
    <3>3. waiting'.status = "none"
      BY <3>2 DEF NoEntry
    <3> QED
      BY <2>2, <3>1, <3>2, <3>3
         DEF AlarmIsCurrent, AckIsCurrent, RequestsInOrder, IInv, TypeOK
  <2>9. ASSUME NEW r \in Waits, NEW k \in 1..Sends, Send(r, k)
        PROVE  crashed' = "no" /\ AlarmIsCurrent' /\ AckIsCurrent' /\ RequestsInOrder'
    <3>1. /\ r <= round /\ checkin[r][k] = "unsent"
          /\ checkin' = [checkin EXCEPT ![r][k] = "sent"]
          /\ UNCHANGED <<exists, at, round, waiting, alarm, address, stub, crashed>>
      BY <2>9 DEF Send
    <3>2. \A x \in Waits, j \in 1..Sends :
              checkin'[x][j] = IF x = r /\ j = k THEN "sent" ELSE checkin[x][j]
      BY <3>1 DEF CheckIns
    <3>3. round \in Waits BY <3>1 DEF IInv, TypeOK, Waits
    <3> QED
      BY <2>2, <3>1, <3>2, <3>3, 1 \in 1..Sends
         DEF AlarmIsCurrent, AckIsCurrent, RequestsInOrder, Waits
  <2>10. ASSUME NEW r \in Waits, NEW k \in 1..Sends, ReceiveCheckIn(r, k)
         PROVE  crashed' = "no" /\ AlarmIsCurrent' /\ AckIsCurrent' /\ RequestsInOrder'
    <3>1. checkin[r][k] = "sent" /\ UNCHANGED <<exists, at, round, stub, crashed>>
      BY <2>10 DEF ReceiveCheckIn
    <3>2. k = 1
      BY <2>2, <3>1 DEF Calm
    <3>3. r = round
      BY <2>2, <3>1, <3>2 DEF RequestsInOrder, Waits
    <3>4. CASE waiting = NoEntry \/ ~exists
      <4>1. /\ checkin' = [checkin EXCEPT ![r][k] = "over"]
            /\ UNCHANGED <<waiting, alarm, address>>
        BY <2>10, <3>4 DEF ReceiveCheckIn
      <4>2. \A x \in Waits, j \in 1..Sends :
                checkin'[x][j] = IF x = r /\ j = k THEN "over" ELSE checkin[x][j]
        BY <4>1 DEF CheckIns
      <4> QED
        BY <2>2, <3>1, <3>2, <3>3, <4>1, <4>2
           DEF AlarmIsCurrent, AckIsCurrent, RequestsInOrder, Waits
    <3>5. CASE ~(waiting = NoEntry \/ ~exists)
      <4>1. AcceptCheckIn(r, k)
        BY <2>10, <3>5 DEF ReceiveCheckIn
      <4>2. at = "wait" /\ waiting.round = round
            /\ waiting \in [round : Waits, status : {"unset", "true", "false"}]
        BY <3>5 DEF IInv, TypeOK, EntryIsCurrent
      <4>3. address' = round /\ waiting'.status = "true"
        BY <4>1, <4>2, <3>3 DEF AcceptCheckIn
      <4>4. \A x \in Waits, j \in 1..Sends :
                checkin'[x][j] = IF x = r /\ j = k THEN "acking" ELSE checkin[x][j]
        BY <4>1 DEF AcceptCheckIn, CheckIns
      <4>5. \A x \in Waits : alarm'[x] \notin {"set", "fired"}
        <5>1. alarm[r] # "fired"
          BY <2>2, <3>1 DEF Calm
        <5>2. alarm' = [alarm EXCEPT ![r] = IF alarm[r] = "set" THEN "cancelled"
                                                               ELSE alarm[r]]
          BY <4>1, <4>2, <3>3 DEF AcceptCheckIn, Cancel
        <5> QED
          BY <2>2, <3>3, <5>1, <5>2 DEF AlarmIsCurrent, IInv, TypeOK
      <4> QED
        BY <2>2, <3>1, <3>2, <3>3, <4>2, <4>3, <4>4, <4>5
           DEF AlarmIsCurrent, AckIsCurrent, RequestsInOrder, Waits
    <3> QED BY <3>4, <3>5
  <2>11. ASSUME NEW r \in Waits, NEW k \in 1..Sends, CheckInAcked(r, k)
         PROVE  crashed' = "no" /\ AlarmIsCurrent' /\ AckIsCurrent' /\ RequestsInOrder'
    <3>1. r = round /\ k = 1 /\ at = "wait" /\ waiting.status = "true"
          /\ waiting # NoEntry
      BY <2>2, <2>11 DEF CheckInAcked, AckIsCurrent, NoEntry
    <3>2. /\ at' = "between" /\ waiting' = NoEntry /\ stub' = address
          /\ checkin' = [checkin EXCEPT ![r][k] = "over"]
          /\ UNCHANGED <<round, alarm, address, crashed>>
      BY <2>11, <3>1 DEF CheckInAcked, ResumeWaiter
    <3>3. waiting'.status = "none"
      BY <3>2 DEF NoEntry
    <3>4. \A x \in Waits, j \in 1..Sends :
              checkin'[x][j] = IF x = r /\ j = k THEN "over" ELSE checkin[x][j]
      BY <3>2 DEF CheckIns
    <3> QED
      BY <2>2, <3>1, <3>2, <3>3, <3>4
         DEF AlarmIsCurrent, AckIsCurrent, RequestsInOrder, Waits
  <2> QED
    BY <2>1, <2>3, <2>4, <2>5, <2>6, <2>7, <2>8, <2>9, <2>10, <2>11 DEF Next
<1> QED BY <1>1, <1>2

\* Every state satisfies both invariants.
THEOREM CalmInvariance == CalmSpec => [](IInv /\ CalmInv)
<1>1. CalmInit => IInv /\ CalmInv
  BY InitIInv, CheckInAssumption
     DEF CalmInit, Init, CalmInv, Calm, AlarmIsCurrent, AckIsCurrent, RequestsInOrder,
         NoEntry, Waits
<1>2. IInv /\ [CalmNext]_<<vars, calm>> => IInv'
  BY NextIInv DEF CalmNext, vars
<1> QED BY <1>1, <1>2, NextCalm, PTL DEF CalmSpec

\* As long as servers check in once and no alarm goes off while a CheckIn is in the
\* queue, a session that has left trigger_and_wait_checkin is connected to the
\* server it has just triggered, after any number of snapshots and rollbacks.
THEOREM NewestServer == CalmSpec => []AddressFresh
<1>1. IInv /\ CalmInv => AddressFresh BY DEF CalmInv, RequestsInOrder, AddressFresh
<1> QED BY <1>1, CalmInvariance, PTL

\* Under the same conditions no coroutine is called that does not wait, and none of
\* the exits of trigger_and_wait_checkin and of its alarm is taken.
THEOREM RendezvousKept == CalmSpec => []RendezvousSafe
<1>1. IInv /\ CalmInv => RendezvousSafe BY DEF CalmInv, RendezvousSafe
<1> QED BY <1>1, CalmInvariance, PTL
=============================================================================
