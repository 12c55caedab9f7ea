------------------------------ MODULE Dispatch ------------------------------
(***************************************************************************)
(* The life of the coroutines: who creates, resumes and deletes them.      *)
(*                                                                         *)
(* A handler is a coroutine on the heap whose address is the tag of        *)
(* whatever it waits for.  The dispatch loop takes a tag from the          *)
(* completion queue, resumes the coroutine at that address and deletes it  *)
(* if it has finished.  The contract is the comment at the top of the      *)
(* source: a coroutine that yields has to arrange for its tag to arrive    *)
(* again, or it leaks; one that arranged it has to yield and not finish, or*)
(* the tag that arrives is a dangling pointer.                             *)
(*                                                                         *)
(* Coroutines depart from the contract at two places, where they yield     *)
(* with nothing arranged and leave their address to others:                *)
(*   - the wait for a check-in, in sessions_waiting_checkin: the coroutine *)
(*     is called by that of a CheckIn request or of the deadline alarm;    *)
(*   - the hand-over between AdvanceState and InspectState, in the         *)
(*     pending_query of the epoch: each puts the tag of the other in the   *)
(*     completion queue when it is done.                                   *)
(*                                                                         *)
(* The handlers are those of one session.  What a handler tests before it  *)
(* does any of this is kept: whether the session exists and is tainted, how*)
(* many inputs are pending, processing_lock.  session_lock is not: a       *)
(* request may be served at any time, as it may once strangers have cleared*)
(* the lock.  What else goes wrong then (a session or an epoch that is     *)
(* destroyed under a handler) is in Session.                               *)
(***************************************************************************)
EXTENDS Naturals, FiniteSets, Functions

CONSTANTS
    RpcSets,        \* bound: sets of RPCs that are looked at together
    MaxCoroutines,  \* bound: how many coroutines there may be at a time
    MaxInputs,      \* bound: how many inputs may be pending
    None

\* The RPCs that are answered at once.
AtOnce == {"GetVersion", "GetStatus", "GetSessionStatus", "GetEpochStatus",
           "DeleteEpoch", "HealthCheck", "HealthWatch"}

\* Those that are answered after their calls to the machine server, the one that is
\* answered before them, and the one machine servers call.
AllRpcs == AtOnce \cup {"StartSession", "FinishEpoch", "EndSession", "InspectState",
                        "AdvanceState", "CheckIn"}

\* Addresses of coroutines, and the null pointer.
Slots == 1..MaxCoroutines
Null == 0
Addresses == Slots \cup {Null}

ASSUME DispatchAssumption ==
    /\ RpcSets \subseteq SUBSET AllRpcs /\ MaxCoroutines \in Nat /\ MaxInputs \in Nat
    /\ \A rpcs \in RpcSets : Cardinality(rpcs) < MaxCoroutines
    /\ None \notin Addresses /\ None \notin AllRpcs \cup {"CheckinDeadline"}
    /\ None \notin [coroutine : Slots, alarm : Slots, status : BOOLEAN]

VARIABLES
    served,  \* the RPCs that are looked at
    co,      \* the coroutine at every address
    tags,    \* how often the address is a tag that has yet to arrive
    waiting, \* sessions_waiting_checkin: the entry of the session, or None
    session, \* whether the session exists and is tainted
    inputs,  \* how many inputs are pending in the active epoch
    query,   \* pending_query of the active epoch: None, or the address it holds
    crashed  \* the process has exited, or resumed what it must not resume

sessionVars == <<session, inputs, query>>
vars == <<served, co, tags, waiting, sessionVars, crashed>>

\* Where a coroutine of each kind may be suspended.  Those that wait for a request,
\* for the delivery of an answer or an error, or for the machine server, get their
\* own tag.  A parked one waits for a check-in, one that is asleep for the other
\* side of a hand-over: in the loop over the inputs, or leaving after an exception;
\* a stale one sleeps in the loop over an epoch that was finished meanwhile.  A
\* finished one was not deleted.
Labels(kind) ==
    CASE kind \in AtOnce \cup {"CheckIn"} -> {"listening", "acking"}
      [] kind = "StartSession" -> {"listening", "refusing", "parked", "calling", "acking"}
      [] kind \in {"FinishEpoch", "EndSession"} ->
            {"listening", "refusing", "calling", "acking"}
      [] kind = "InspectState" ->
            {"listening", "refusing", "asleep", "triggering", "parked", "calling",
             "acking"}
      [] kind = "AdvanceState" ->
            {"listening", "refusing", "acking", "triggering", "parked", "calling",
             "asleep", "stale", "leaving", "finished"}
      [] kind = "CheckinDeadline" -> {"alarm", "fired", "cancelled"}

\* A coroutine.  Its peer is the address it keeps of another one: that of the
\* coroutine an accepted CheckIn is going to call, or, in an InspectState, the one
\* resume_on_exit is going to schedule.
Coroutine(kind, at, peer) == [kind |-> kind, at |-> at, peer |-> peer]
Listener(rpc) == Coroutine(rpc, "listening", None)
Deadline == Coroutine("CheckinDeadline", "alarm", None)
Free == Coroutine(None, "free", None)

\* A checkin_context.  Its status is set by a CheckIn.
Entry(c, alarm) == [coroutine |-> c, alarm |-> alarm, status |-> FALSE]

FreeSlots == {s \in Slots : co[s] = Free}

\* operator new: which of the free addresses it returns makes no difference.
NewSlot == CHOOSE s \in FreeSlots : TRUE
NextNewSlot == CHOOSE s \in FreeSlots \ {NewSlot} : TRUE

\* main creates one handler for every RPC; each runs up to the yield that waits for
\* a request.  The session may have been started before, by handlers that are gone.
Init ==
    /\ served \in RpcSets
    /\ LET n == Cardinality(served)
           at == CHOOSE f \in Bijection(1..n, served) : TRUE
       IN  co = [s \in Slots |-> IF s <= n THEN Listener(at[s]) ELSE Free]
    /\ tags = [s \in Addresses |-> IF s \in 1..Cardinality(served) THEN 1 ELSE 0]
    /\ waiting = None
    /\ session \in {"absent", "sound"} /\ inputs = 0 /\ query = None
    /\ crashed = FALSE

-----------------------------------------------------------------------------
(* One turn of the dispatch loop *)

Times(condition) == IF condition THEN 1 ELSE 0

\* The tag c arrives and the coroutine there runs up to its next yield or to its
\* end, in which case it is deleted.  The coroutines are then as after says, the
\* ones in armed have arranged for their tag to arrive again, and the tag scheduled,
\* if any, was put in the queue by enqueue_completion_queue.
Resume(c, after, armed, scheduled) ==
    /\ tags[c] > 0
    /\ co' = [after EXCEPT ![c] = IF @.at = "finished" THEN Free ELSE @]
    /\ tags' = [s \in Addresses |-> (tags[s] - Times(s = c)) + Times(s \in armed)
                                        + Times(s = scheduled)]
    /\ UNCHANGED served

\* The turn of c in which w runs up to a yield and is then x.  Either w is c, or c
\* calls w and has nothing else to do.  before is how the coroutines are when w
\* starts to run.
Runs(c, w, before, x, armed, scheduled) ==
    Resume(c, [before EXCEPT ![c].at = "finished", ![w] = x], armed, scheduled)

\* The coroutine w, suspended elsewhere.
Moved(w, at) == [co[w] EXCEPT !.at = at]

\* A handler that has received a request first creates the next one of its kind.
Receives(c, rpc) == co[c].kind = rpc /\ co[c].at = "listening" /\ FreeSlots # {}
Succeeded(c, at) == [co EXCEPT ![c].at = at, ![NewSlot] = Listener(co[c].kind)]

\* The coroutines once the entry in sessions_waiting_checkin has its alarm cancelled,
\* or is erased, which destroys the alarm.  An alarm that has gone off stays so.
Cancelled ==
    IF waiting # None /\ co[waiting.alarm].at = "alarm"
    THEN [co EXCEPT ![waiting.alarm].at = "cancelled"]
    ELSE co

\* Inputs of the session are being processed: processing_lock.
Processing(c) ==
    /\ co[c].kind = "AdvanceState"
    /\ co[c].at \in {"triggering", "parked", "calling", "asleep", "stale"}

\* The test trigger_and_wait_checkin begins with: the process exits if the session
\* has an entry in sessions_waiting_checkin.
TestsEntry == crashed' = (waiting # None)

\* The session after a taint_session, or another exception in its handlers.
Tainted == IF session = "absent" THEN "absent" ELSE "tainted"

-----------------------------------------------------------------------------
(* Requests *)

\* Fault: the next handler is created only for a request that is served.
RequestNotOKUnheard(c) ==
    /\ co[c].at = "listening" /\ FreeSlots # {}
    /\ Resume(c, [co EXCEPT ![c].at = "finished"], {}, None)
    /\ UNCHANGED <<waiting, sessionVars, crashed>>

\* A request comes with ok false: the handler returns.
RequestNotOK(c) ==
    /\ co[c].at = "listening" /\ FreeSlots # {}
    /\ Resume(c, Succeeded(c, "finished"), {NewSlot}, None)
    /\ UNCHANGED <<waiting, sessionVars, crashed>>

\* A handler that answers before anything else and waits for the answer to be
\* delivered.
Answers(c) ==
    /\ Resume(c, Succeeded(c, "acking"), {NewSlot, c}, None)
    /\ UNCHANGED <<waiting, sessionVars, crashed>>

GetVersion(c) == Receives(c, "GetVersion") /\ Answers(c)
GetStatus(c) == Receives(c, "GetStatus") /\ Answers(c)
GetSessionStatus(c) == Receives(c, "GetSessionStatus") /\ Answers(c)
GetEpochStatus(c) == Receives(c, "GetEpochStatus") /\ Answers(c)
DeleteEpoch(c) == Receives(c, "DeleteEpoch") /\ Answers(c)
HealthCheck(c) == Receives(c, "HealthCheck") /\ Answers(c)
HealthWatch(c) == Receives(c, "HealthWatch") /\ Answers(c)

\* A handler that answers with an error before anything else.
Refuses(c) ==
    /\ Resume(c, Succeeded(c, "refusing"), {NewSlot, c}, None)
    /\ UNCHANGED <<waiting, sessionVars, crashed>>

\* The session is created, its machine server spawned, and its check-in waited for.
StartSessionRequest(c) ==
    /\ Receives(c, "StartSession")
    /\ \/ Refuses(c)
       \/ /\ session = "absent" /\ TestsEntry /\ Cardinality(FreeSlots) > 1
          /\ Resume(c, [Succeeded(c, "parked") EXCEPT ![NextNewSlot] = Deadline],
                    {NewSlot, NextNewSlot}, None)
          /\ waiting' = Entry(c, NextNewSlot)
          /\ session' = "sound" /\ inputs' = 0 /\ query' = None

\* finish_epoch and start_new_epoch: the handlers that are in the loop over the
\* inputs of the old epoch stay there.
NewEpoch(after) ==
    [s \in Slots |-> IF after[s].at = "asleep" /\ after[s].kind = "AdvanceState"
                     THEN [after[s] EXCEPT !.at = "stale"] ELSE after[s]]

\* The machine is stored, or the epoch finished at once.
FinishEpochRequest(c) ==
    /\ Receives(c, "FinishEpoch")
    /\ \/ Refuses(c)
       \/ /\ session = "sound" /\ inputs = 0
          /\ Resume(c, Succeeded(c, "calling"), {NewSlot, c}, None)
          /\ UNCHANGED <<waiting, sessionVars, crashed>>
       \/ /\ session = "sound" /\ inputs = 0
          /\ Resume(c, NewEpoch(Succeeded(c, "acking")), {NewSlot, c}, None)
          /\ query' = None /\ UNCHANGED <<waiting, session, inputs, crashed>>

\* The machine server is shut down.
EndSessionRequest(c) ==
    /\ Receives(c, "EndSession")
    /\ \/ Refuses(c)
       \/ /\ session # "absent" /\ (session = "sound" => inputs = 0)
          /\ \A s \in Slots : ~Processing(s)
          /\ Resume(c, Succeeded(c, "calling"), {NewSlot, c}, None)
          /\ UNCHANGED <<waiting, sessionVars, crashed>>

\* The input is enqueued and acknowledged.
AdvanceStateRequest(c) ==
    /\ Receives(c, "AdvanceState")
    /\ \/ Refuses(c)
       \/ /\ session = "sound" /\ inputs < MaxInputs
          /\ Resume(c, Succeeded(c, "acking"), {NewSlot, c}, None)
          /\ inputs' = inputs + 1 /\ UNCHANGED <<waiting, session, query, crashed>>

\* The query waits for the input that is being processed, or is processed: a
\* snapshot is triggered, unless it is too long and answered at once.
InspectStateRequest(c) ==
    /\ Receives(c, "InspectState")
    /\ \/ Refuses(c)
       \/ /\ session = "sound" /\ query = None
          /\ \/ /\ inputs > 0 /\ query' = c /\ UNCHANGED crashed
                /\ Resume(c, Succeeded(c, "asleep"), {NewSlot}, None)
             \/ /\ inputs = 0 /\ query' = Null /\ TestsEntry
                /\ Resume(c, Succeeded(c, "triggering"), {NewSlot, c}, None)
             \/ /\ inputs = 0 /\ query' = None /\ UNCHANGED crashed
                /\ Resume(c, Succeeded(c, "acking"), {NewSlot, c}, None)
          /\ UNCHANGED <<waiting, session, inputs>>

\* Fault: the alarm is not cancelled.
CheckInRequestKeepsAlarm(c) ==
    /\ Receives(c, "CheckIn")
    /\ \/ Answers(c)
       \/ /\ waiting # None /\ session # "absent"
          /\ Resume(c, [co EXCEPT ![c].at = "acking", ![c].peer = waiting.coroutine,
                                  ![NewSlot] = Listener("CheckIn")],
                    {NewSlot, c}, None)
          /\ waiting' = [waiting EXCEPT !.status = TRUE]
          /\ UNCHANGED <<sessionVars, crashed>>

\* A machine server checks in.  If there is an entry for the session, its status is
\* set, its alarm cancelled, and the coroutine remembered until the CheckIn is
\* acknowledged.
CheckInRequest(c) ==
    /\ Receives(c, "CheckIn")
    /\ \/ Answers(c)
       \/ /\ waiting # None /\ session # "absent"
          /\ Resume(c, [Cancelled EXCEPT ![c].at = "acking",
                                         ![c].peer = waiting.coroutine,
                                         ![NewSlot] = Listener("CheckIn")],
                    {NewSlot, c}, None)
          /\ waiting' = [waiting EXCEPT !.status = TRUE]
          /\ UNCHANGED <<sessionVars, crashed>>

-----------------------------------------------------------------------------
(* Work *)

\* The handler w, run by the turn of c, gives up: the exception handlers.  Those
\* that have not answered answer with an error.
AnswerFails(c, w, before) ==
    /\ co[w].kind \in {"StartSession", "FinishEpoch", "EndSession"}
    /\ Runs(c, w, before, Moved(w, "refusing"), {w}, None)
    /\ session' = (IF co[w].kind = "StartSession" THEN "absent" ELSE session)
    /\ UNCHANGED <<inputs, query, crashed>>

\* In an InspectState, resume_on_exit schedules the peer.
InspectStateFails(c, w, before, peer) ==
    /\ co[w].kind = "InspectState"
    /\ Runs(c, w, before, Coroutine("InspectState", "refusing", None), {w},
            IF peer = Null THEN None ELSE peer)
    /\ session' = Tainted /\ UNCHANGED <<inputs, query, crashed>>

\* An AdvanceState has answered already: it wakes up a query, if there is one, and is
\* then asleep, or it has nothing more to do.
AdvanceStateFails(c, w, before) ==
    /\ co[w].kind = "AdvanceState" /\ session' = Tainted
    /\ \/ /\ query # None /\ query' = w
          /\ Runs(c, w, before, Moved(w, "leaving"), {}, query)
       \/ /\ query = None /\ UNCHANGED query
          /\ Runs(c, w, before, Moved(w, "finished"), {}, None)
    /\ UNCHANGED <<inputs, crashed>>

\* The machine server was triggered to check in: the entry is made, in place of the
\* one there may be, and its alarm set.
Triggered(c) ==
    /\ co[c].at = "triggering" /\ FreeSlots # {}
    /\ Resume(c, [Cancelled EXCEPT ![c].at = "parked", ![NewSlot] = Deadline],
              {NewSlot}, None)
    /\ waiting' = Entry(c, NewSlot) /\ UNCHANGED <<sessionVars, crashed>>

\* A call to the machine server was answered, and another one follows, which may be
\* one that triggers a check-in.
CallsAgain(c) ==
    /\ co[c].at = "calling"
    /\ \/ /\ co[c].kind \in {"StartSession", "InspectState", "AdvanceState"}
          /\ Runs(c, c, co, Moved(c, "calling"), {c}, None) /\ UNCHANGED crashed
       \/ /\ co[c].kind \in {"InspectState", "AdvanceState"} /\ TestsEntry
          /\ Runs(c, c, co, Moved(c, "triggering"), {c}, None)
    /\ UNCHANGED <<waiting, sessionVars>>

\* The machine server fails a call, or what it answers is not acceptable.
CallFails(c) ==
    /\ co[c].at \in {"triggering", "calling"}
    /\ \/ AnswerFails(c, c, co)
       \/ InspectStateFails(c, c, co, co[c].peer)
       \/ AdvanceStateFails(c, c, co)
    /\ UNCHANGED waiting

\* The last call of a handler that has yet to answer.
LastCallAnswered(c) ==
    /\ co[c].at = "calling"
    /\ \/ /\ co[c].kind = "StartSession"
          /\ Runs(c, c, co, Moved(c, "acking"), {c}, None)
          /\ UNCHANGED sessionVars
       \/ /\ co[c].kind = "FinishEpoch"
          /\ Runs(c, c, NewEpoch(co), Moved(c, "acking"), {c}, None)
          /\ inputs' = 0 /\ query' = None /\ UNCHANGED session
       \/ /\ co[c].kind = "EndSession"
          /\ Runs(c, c, co, Moved(c, "acking"), {c}, None)
          /\ session' = "absent" /\ UNCHANGED <<inputs, query>>
    /\ UNCHANGED <<waiting, crashed>>

\* An input was processed.  If a query is pending, its coroutine is scheduled and
\* the handler waits for it; if not, the next input is taken up.
InputProcessed(c) ==
    /\ co[c].kind = "AdvanceState" /\ co[c].at = "calling" /\ inputs > 0
    /\ inputs' = inputs - 1
    /\ \/ /\ query # None /\ query' = c
          /\ Runs(c, c, co, Moved(c, "asleep"), {}, query) /\ UNCHANGED crashed
       \/ /\ query = None /\ inputs = 1
          /\ Runs(c, c, co, Moved(c, "finished"), {}, None)
          /\ UNCHANGED <<query, crashed>>
       \/ /\ query = None /\ inputs > 1 /\ TestsEntry
          /\ Runs(c, c, co, Moved(c, "triggering"), {c}, None) /\ UNCHANGED query
    /\ UNCHANGED <<waiting, session>>

\* A sleeping AdvanceState is resumed: it takes up the next input, or returns.
AdvanceStateAwake(c) ==
    /\ co[c].kind = "AdvanceState" /\ co[c].at \in {"asleep", "stale", "leaving"}
    /\ \/ /\ co[c].at = "asleep" /\ inputs > 0 /\ TestsEntry
          /\ Runs(c, c, co, Moved(c, "triggering"), {c}, None)
       \/ /\ (co[c].at = "asleep" => inputs = 0) /\ UNCHANGED crashed
          /\ Runs(c, c, co, Moved(c, "finished"), {}, None)
    /\ UNCHANGED <<waiting, sessionVars>>

\* A sleeping InspectState is resumed.  It finds the address to schedule when it
\* leaves in the query, which it then processes unless the session was tainted.
InspectStateAwake(c) ==
    /\ co[c].kind = "InspectState" /\ co[c].at = "asleep"
    /\ \/ /\ session # "sound" /\ InspectStateFails(c, c, co, query)
       \/ /\ session = "sound" /\ TestsEntry
          /\ Runs(c, c, co, Coroutine("InspectState", "triggering", query), {c}, None)
          /\ UNCHANGED sessionVars
       \/ /\ session = "sound" /\ query' = None
          /\ Runs(c, c, co, Coroutine("InspectState", "acking", query), {c}, None)
          /\ UNCHANGED <<session, inputs, crashed>>
    /\ UNCHANGED waiting

-----------------------------------------------------------------------------
(* Answers delivered *)

\* Fault: the handler returns after it has made a call.
AdvanceStateAckedReturns(c) ==
    /\ co[c].kind = "AdvanceState" /\ co[c].at = "acking"
    /\ \/ /\ inputs = 1 /\ (\A s \in Slots : ~Processing(s)) /\ TestsEntry
          /\ Runs(c, c, co, Moved(c, "finished"), {c}, None)
          /\ UNCHANGED <<waiting, sessionVars>>
       \/ /\ inputs # 1
          /\ Runs(c, c, co, Moved(c, "finished"), {}, None)
          /\ UNCHANGED <<waiting, sessionVars, crashed>>

\* The acknowledgement of an input was delivered: the handler processes the queue
\* if its input is the only one there.  It fails if somebody else has released
\* session_lock, or if the queue is being processed.
AdvanceStateAcked(c) ==
    /\ co[c].kind = "AdvanceState" /\ co[c].at = "acking"
    /\ \/ /\ inputs = 1 /\ (\A s \in Slots : ~Processing(s)) /\ TestsEntry
          /\ Runs(c, c, co, Moved(c, "triggering"), {c}, None)
          /\ UNCHANGED <<waiting, sessionVars>>
       \/ /\ inputs # 1
          /\ Runs(c, c, co, Moved(c, "finished"), {}, None)
          /\ UNCHANGED <<waiting, sessionVars, crashed>>
       \/ AdvanceStateFails(c, c, co) /\ UNCHANGED waiting

\* An answer that is the end of its handler was delivered; resume_on_exit schedules
\* the peer of an InspectState.
ResponseDelivered(c) ==
    /\ \/ co[c].at = "acking" /\ co[c].kind \notin {"AdvanceState", "CheckIn"}
       \/ co[c].at = "refusing"
    /\ Runs(c, c, co, Moved(c, "finished"), {},
            IF co[c].peer = Null THEN None ELSE co[c].peer)
    /\ UNCHANGED <<waiting, sessionVars, crashed>>

\* The acknowledgement of a CheckIn was delivered: the handler calls the coroutine
\* that waited, which finds the status set, erases the entry and runs up to its next
\* yield.
CheckInAcked(c) ==
    LET w == co[c].peer
    IN  /\ co[c].kind = "CheckIn" /\ co[c].at = "acking"
        /\ \/ /\ w = None
              /\ Runs(c, c, co, Moved(c, "finished"), {}, None)
              /\ UNCHANGED <<waiting, sessionVars, crashed>>
           \/ /\ w # None /\ co[w].at = "parked" /\ waiting # None /\ waiting.status
              /\ waiting' = None /\ UNCHANGED crashed
              /\ \/ /\ Runs(c, w, Cancelled, Moved(w, "calling"), {w}, None)
                    /\ UNCHANGED sessionVars
                 \/ /\ co[w].kind \in {"AdvanceState", "InspectState"}
                    /\ Runs(c, w, Cancelled, Moved(w, "triggering"), {w}, None)
                    /\ UNCHANGED sessionVars
                 \/ /\ co[w].kind = "InspectState" /\ query' = None
                    /\ Runs(c, w, Cancelled, Moved(w, "acking"), {w}, None)
                    /\ UNCHANGED <<session, inputs>>

\* The alarm goes off, unless it was cancelled: its tag is put in the queue.
AlarmGoesOff(d) ==
    /\ co[d].at = "alarm"
    /\ co' = [co EXCEPT ![d].at = "fired"]
    /\ UNCHANGED <<served, tags, waiting, sessionVars, crashed>>

\* The tag of an alarm that went off arrives: its handler calls the coroutine of the
\* entry there is for the session, which erases the entry and fails.  If that is an
\* AdvanceState that has nothing more to do, it is finished when it returns, not to
\* the dispatch loop, but to the alarm's handler.
DeadlineExpired(d) ==
    /\ co[d].at = "fired" /\ waiting # None /\ co[waiting.coroutine].at = "parked"
    /\ LET w == waiting.coroutine
       IN  \/ AnswerFails(d, w, Cancelled)
           \/ InspectStateFails(d, w, Cancelled, co[w].peer)
           \/ AdvanceStateFails(d, w, Cancelled)
    /\ waiting' = None

\* The alarm was cancelled: its tag arrives with ok false.
DeadlineCancelled(d) ==
    /\ co[d].at = "cancelled"
    /\ Runs(d, d, co, Moved(d, "finished"), {}, None)
    /\ UNCHANGED <<waiting, sessionVars, crashed>>

-----------------------------------------------------------------------------
(* The end of the process *)

\* When its tag arrives the handler c reaches exit(1), because the entry is missing
\* or its status not set, or calls a coroutine that does not wait, or takes an input
\* from an empty queue.
Exits(c) ==
    \/ co[c].at = "fired" /\ (waiting # None => co[waiting.coroutine].at # "parked")
    \/ /\ co[c].at = "acking" /\ co[c].kind = "CheckIn" /\ co[c].peer # None
       /\ \/ co[co[c].peer].at # "parked"
          \/ waiting # None => ~waiting.status
    \/ co[c].at = "calling" /\ co[c].kind = "AdvanceState" /\ inputs = 0

\* A tag arrives for which nobody waits: the null pointer's, one of a coroutine that
\* was deleted, has finished or is going to be called, or one of two.
Stray(a) ==
    a \in Slots => co[a].at \in {"free", "finished", "parked"} \/ tags[a] > 1

Crashes(a) ==
    /\ tags[a] > 0
    /\ Stray(a) \/ (a \in Slots /\ Exits(a))
    /\ crashed' = TRUE
    /\ UNCHANGED <<served, co, tags, waiting, sessionVars>>

Step(c) ==
    \/ RequestNotOK(c)
    \/ GetVersion(c) \/ GetStatus(c) \/ GetSessionStatus(c) \/ GetEpochStatus(c)
    \/ DeleteEpoch(c) \/ HealthCheck(c) \/ HealthWatch(c)
    \/ StartSessionRequest(c) \/ FinishEpochRequest(c) \/ EndSessionRequest(c)
    \/ AdvanceStateRequest(c) \/ InspectStateRequest(c) \/ CheckInRequest(c)
    \/ Triggered(c) \/ CallsAgain(c) \/ CallFails(c) \/ LastCallAnswered(c)
    \/ InputProcessed(c) \/ AdvanceStateAwake(c) \/ InspectStateAwake(c)
    \/ AdvanceStateAcked(c) \/ ResponseDelivered(c) \/ CheckInAcked(c)
    \/ AlarmGoesOff(c) \/ DeadlineExpired(c) \/ DeadlineCancelled(c)

Next ==
    \/ ~crashed /\ \E c \in Slots : Step(c)
    \/ ~crashed /\ \E a \in Addresses : Crashes(a)

Spec == Init /\ [][Next]_vars
-----------------------------------------------------------------------------

\* The types, and that coroutines are suspended where their kind may be.
TypeOK ==
    /\ served \in RpcSets /\ tags \in [Addresses -> Nat]
    /\ DOMAIN co = Slots
    /\ \A s \in Slots :
        \/ co[s] = Free
        \/ /\ co[s].kind \in served \cup {"CheckinDeadline"}
           /\ co[s].at \in Labels(co[s].kind)
           /\ co[s].peer \in Addresses \cup {None}
    /\ waiting \in [coroutine : Slots, alarm : Slots, status : BOOLEAN] \cup {None}
    /\ session \in {"absent", "sound", "tainted"}
    /\ inputs \in Nat
    /\ query \in Addresses \cup {None}
    /\ crashed \in BOOLEAN

\* Every RPC keeps being served: whatever becomes of the handlers of the requests
\* received so far, exactly one handler waits for the next request.
AlwaysServed ==
    \A r \in served :
        Cardinality({s \in Slots : co[s] = Listener(r)}) = 1

\* "cannot leak (pointer is in completion queue)", say the lines that create
\* handlers: a coroutine that finished has been deleted.
NoLeak == \A s \in Slots : co[s].at # "finished"
=============================================================================
