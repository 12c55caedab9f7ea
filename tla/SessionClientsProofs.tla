------------------------ MODULE SessionClientsProofs ------------------------
(***************************************************************************)
(* What clients earn by a discipline, for any number of handlers and       *)
(* epochs.  ClientInv is the inductive invariant.  It has Inv of           *)
(* SessionProofs, which nobody has to earn, and adds for the disciplines   *)
(* kept so far what they make true:                                        *)
(*   queue   epochs, queues, trees and numbers are in place; while the     *)
(*           session is neither tainted nor gone, so are the machine and   *)
(*           the handover between a query and the handler that called it;  *)
(*   within  AdvanceStates are about the active epoch, and a queue nobody  *)
(*           is processing has the lock set and one input in it;           *)
(*   serial  at most one input is about, with the lock set until its       *)
(*           handler starts on it; a tainted session ends in order.        *)
(* None of these is inductive alone: that a query is called by a handler   *)
(* that waits for it needs the epoch of that handler to be the active one, *)
(* which is about epochs; that an epoch is finished with full trees needs  *)
(* nobody to work on it, which is about the queue.  The proof first sorts  *)
(* the steps of a handler by what they do to each part (Rests, TakesUp,    *)
(* Enqueues, ... for epochs, Aloof, Asks, Calls, ... for queries), then    *)
(* shows each sort to keep the part.                                       *)
(***************************************************************************)
EXTENDS SessionProofs, SessionClients

-----------------------------------------------------------------------------
(* What clients do not do *)

\* Requests of which the queue discipline allows one at a time.
Other(h) == Live(h) /\ rpc[h] # "AdvanceState"

\* Handlers that got past the checks of their request and have not ended.
Accepted(h) == pc[h] \notin {"idle", "error", "done"}

\* Inside the loop of process_pending_inputs, with an input.
Working(h) == Processing(h) /\ pc[h] # "handoff"

\* Who keeps to serial or within keeps to queue.
Disciplines ==
    /\ clients \subseteq {"serial", "queue", "within"}
    /\ clients # {} => "queue" \in clients

\* What is served at the same time, under each discipline.
Overlapping ==
    \A g, h \in Handlers :
        g # h /\ Live(g) /\ Live(h) =>
            /\ "queue" \in clients =>
                /\ rpc[g] = "AdvanceState" \/ rpc[h] = "AdvanceState"
                /\ rpc[g] # "DeleteEpoch"
            /\ "within" \in clients => rpc[g] # "FinishEpoch"
            /\ "serial" \in clients =>
                rpc[g] # "AdvanceState" \/ rpc[h] # "AdvanceState"

-----------------------------------------------------------------------------
(* Epochs, queues and trees, for clients that keep to queue *)

\* The only epoch that is active, or has a queue, is the one at the index.
OneActive ==
    \A e \in EpochIndices :
        epoch_state[e] = "active" \/ pending_inputs[e] # <<>>
            => e = active_epoch_index

\* Both trees of epoch e have one leaf for each result.
TreesFull(e) ==
    /\ vouchers_tree[e] = Len(processed_inputs[e])
    /\ notices_tree[e] = Len(processed_inputs[e])

\* Trees are full, except while an input is being worked on or after that failed.
TreesInPlace ==
    \A e \in EpochIndices :
        \/ TreesFull(e)
        \/ e = active_epoch_index /\ (tainted \/ \E h \in Handlers : Working(h))

\* Working on an input one tree after the other gets a leaf for it.
VoucherIn == {"notice_proof", "root_hash", "check_hash"}
NoticeIn == {"root_hash", "check_hash"}

LeavesInPlace(h) ==
    LET n == Len(processed_inputs[ep[h]])
    IN  /\ vouchers_tree[ep[h]] = IF pc[h] \in VoucherIn THEN n + 1 ELSE n
        /\ notices_tree[ep[h]] = IF pc[h] \in NoticeIn THEN n + 1 ELSE n

\* A handler that works on an input has it at the front of the queue, and the
\* epoch_input_index it read is still that of the next result.
WorkersInPlace ==
    \A h \in Handlers : Working(h) =>
        /\ pending_inputs[ep[h]] # <<>>
        /\ epoch_input_index[h] = Len(processed_inputs[ep[h]])
        /\ ~tainted => LeavesInPlace(h)

\* While FinishEpoch waits for the machine to be stored, its epoch is the active
\* one and has nothing left to do.
StoresInPlace ==
    \A h \in Handlers : pc[h] = "store" =>
        /\ rpc[h] = "FinishEpoch"
        /\ ep[h] = active_epoch_index
        /\ active_epoch_index # MaxEpochIndex
        /\ pending_inputs[ep[h]] = <<>>
        /\ TreesFull(ep[h])

\* The epoch a handler has a reference to is there.
EpochsThere ==
    \A h \in Handlers :
        rpc[h] \in {"AdvanceState", "InspectState", "FinishEpoch"} /\ Accepted(h)
            => epoch_state[ep[h]] # "absent"

\* The inputs in the queue are numbered from the count on.
QueueNumbered ==
    \A e \in EpochIndices : \A k \in 1..Len(pending_inputs[e]) :
        pending_inputs[e][k].input_index = processed_input_count + k - 1

\* The result at a position has this position and its input's number.
Numbered(result, i) ==
    /\ result.epoch_input_index = i - 1
    /\ result.input_index = result.input.input_index

ResultsNumbered ==
    \A e \in EpochIndices : \A i \in 1..Len(processed_inputs[e]) :
        Numbered(processed_inputs[e][i], i)

EpochsInPlace ==
    /\ OneActive /\ TreesInPlace /\ WorkersInPlace /\ StoresInPlace
    /\ EpochsThere /\ QueueNumbered /\ ResultsNumbered

-----------------------------------------------------------------------------
(* Queries and the machine, while the session is not tainted *)

Waits(h) == pc[h] = "query" /\ scheduled[h] = 0
Called(h) == pc[h] = "query" /\ scheduled[h] > 0
Asking(h) == pc[h] = "query" \/ Querying(h)

\* h has a coroutine to resume on exit.
Owes(h) == Live(h) /\ resume_on_exit[h] \notin {None, Null}

\* p waits in process_pending_inputs until a query is done.
Parked(p) == p \in Handlers /\ pc[p] = "handoff" /\ scheduled[p] = 0

\* A query is about the active epoch.  While it waits, pending_query has its own
\* coroutine and there is an input to wait for; once it is called, the coroutine
\* that called it, which is parked until the query, on exit, resumes it.  Without
\* one the queue is empty.
QueryInPlace(h) ==
    /\ Asking(h) => ep[h] = active_epoch_index
    /\ Waits(h) =>
        /\ pending_query[active_epoch_index] = h
        /\ pending_inputs[active_epoch_index] # <<>>
    /\ Called(h) => Parked(pending_query[active_epoch_index])
    /\ Querying(h) =>
        IF Owes(h) THEN pending_query[active_epoch_index] = resume_on_exit[h]
                   ELSE /\ pending_query[active_epoch_index] = Null
                        /\ pending_inputs[active_epoch_index] = <<>>
    /\ Owes(h) => rpc[h] = "InspectState" /\ Parked(resume_on_exit[h])
    /\ pc[h] = "idle" => resume_on_exit[h] = None

\* Only handlers that wait for it are in the completion queue, once.
TagsInPlace(h) ==
    scheduled[h] > 0 => scheduled[h] = 1 /\ pc[h] \in {"handoff", "query"}

Handover ==
    /\ \A h \in Handlers : QueryInPlace(h) /\ TagsInPlace(h)
    /\ pending_query[active_epoch_index] # None => \E h \in Handlers : Asking(h)
    /\ scheduled[Null] = 0

\* Between the snapshot and the rollback, and when the machine has accepted an input.
Snapped == {"snapshot_checkin", "run", "rollback", "rollback_checkin"}
Fed == {"voucher_proof", "notice_proof", "root_hash"}

\* The machine hash of the active epoch is that of the inputs accepted, all and in
\* order.  So is the machine when no input or query is in it, and so is the
\* snapshot when one is.
MachineInPlace ==
    /\ most_recent_machine_hash[active_epoch_index] = committed
    /\ (\A h \in Handlers : pc[h] \notin Dirty) => machine = committed
    /\ \A h \in Handlers :
        /\ pc[h] \in Snapped => snapshot = committed
        /\ pc[h] \in Fed => machine = Append(committed, Head(pending_inputs[ep[h]]).id)

\* A query waits only while the session is there, and has been called if it is
\* tainted.
QueriesCalled ==
    \A h \in Handlers : pc[h] = "query" => exists /\ (tainted => scheduled[h] > 0)

-----------------------------------------------------------------------------
(* For clients that keep to within *)

\* AdvanceStates are about the active epoch.
AdvancesInPlace ==
    \A h \in Handlers :
        rpc[h] = "AdvanceState" /\ Accepted(h) => ep[h] = active_epoch_index

\* If nobody is processing the queue there is one input in it, the response for
\* which is being delivered, under session_lock.
QueueWatched ==
    ~tainted /\ exists /\ ~processing_lock /\ pending_inputs[active_epoch_index] # <<>> =>
        /\ session_lock
        /\ Len(pending_inputs[active_epoch_index]) = 1
        /\ \A h \in Handlers : Other(h) => pc[h] = "error"

-----------------------------------------------------------------------------
(* For clients that keep to serial *)

\* While the response of an AdvanceState is being delivered, all others are refused.
EnqueuedAlone ==
    \A h \in Handlers : pc[h] = "enqueued" =>
        /\ session_lock /\ ~tainted
        /\ ep[h] = active_epoch_index /\ Len(pending_inputs[ep[h]]) = 1
        /\ \A g \in Handlers \ {h} : Live(g) => pc[g] = "error"

\* The queue has the input that is being worked on, and no other.
OneInput ==
    \A h \in Handlers : Processing(h) =>
        Len(pending_inputs[ep[h]]) = IF pc[h] = "handoff" THEN 0 ELSE 1

\* An input in the queue has a handler.
InputHasHandler ==
    ~tainted /\ pending_inputs[active_epoch_index] # <<>> =>
        \E h \in Handlers : pc[h] = "enqueued" \/ Working(h)

SerialWork ==
    /\ EnqueuedAlone /\ OneInput /\ InputHasHandler
    /\ \A h \in Handlers : pc[h] \in Talking => ~tainted
    /\ \A h \in Handlers : pc[h] = "shutdown" => ~processing_lock

\* In a tainted session a query that waits has been called by an AdvanceState that
\* waits for it in an exception handler.
TaintedQuery(h) ==
    /\ scheduled[h] > 0 =>
        scheduled[h] = 1 /\ pc[h] \in {"handoff", "query", "tainting"}
    /\ Accepted(h) /\ resume_on_exit[h] \notin {None, Null} =>
        rpc[h] = "InspectState" /\ Parked(resume_on_exit[h])
    /\ pc[h] = "idle" => resume_on_exit[h] = None
    /\ pc[h] = "query" =>
        /\ scheduled[h] = 1
        /\ pending_query[ep[h]] \in Handlers
        /\ pc[pending_query[ep[h]]] = "tainting"
        /\ scheduled[pending_query[ep[h]]] = 0

TaintedHandover ==
    /\ \A h \in Handlers : TaintedQuery(h)
    /\ scheduled[Null] = 0

\* Only a handler that waits for a check-in is registered for one.
CheckinsInPlace ==
    sessions_waiting_checkin # None =>
        /\ sessions_waiting_checkin \in Handlers
        /\ pc[sessions_waiting_checkin] \in {"snapshot_checkin", "rollback_checkin"}

\* AdvanceState is never at the labels of the other handlers.
OthersLabels ==
    \A h \in Handlers :
        pc[h] \in {"ack", "query", "store", "shutdown"} => rpc[h] # "AdvanceState"

\* After EndSession nothing is left of the session but its responses.
Ended == \A h \in Handlers : pc[h] \in {"idle", "error", "ack", "tainting", "done"}

-----------------------------------------------------------------------------
(* The inductive invariant *)

ClientInv ==
    /\ Inv /\ Disciplines /\ Overlapping /\ CheckinsInPlace /\ OthersLabels
    /\ "queue" \in clients =>
        /\ EpochsInPlace /\ QueriesCalled
        /\ ~tainted /\ exists => Handover /\ MachineInPlace
    /\ "within" \in clients => AdvancesInPlace /\ QueueWatched
    /\ "serial" \in clients =>
        /\ exists => ~crashed /\ SerialWork
        /\ exists /\ tainted => TaintedHandover
        /\ ~exists => Ended

-----------------------------------------------------------------------------
(* One handler moves at a time *)

\* Nobody but h moves.
OnlyMoves(h) ==
    \A g \in Handlers \ {h} :
        /\ pc'[g] = pc[g] /\ rpc'[g] = rpc[g] /\ ep'[g] = ep[g]
        /\ resume_on_exit'[g] = resume_on_exit[g]
        /\ epoch_input_index'[g] = epoch_input_index[g]

\* h takes up a request.
Arrives(h) ==
    /\ OnlyMoves(h)
    /\ pc[h] = "idle" /\ pc'[h] \notin {"idle", "done"}
    /\ resume_on_exit'[h] = resume_on_exit[h]

\* h goes on with its request.
GoesOn(h) == OnlyMoves(h) /\ Live(h) /\ pc'[h] # "idle" /\ UNCHANGED <<rpc, ep>>

\* A request is taken up by one handler.
LEMMA RequestArrives ==
    ASSUME TypeOK, NEW h \in Handlers, Request(h)
    PROVE  Arrives(h)
<1> USE DEF lockVars, countVars, epochVars, machineVars, localVars, TypeOK, HandlersOK, LocalsOK,
            Receive, Refuse, Arrives, OnlyMoves
<1>1. ASSUME NEW e \in EpochIndices, NEW b \in BOOLEAN, AdvanceState(h, e, b)
      PROVE  Arrives(h)
  BY <1>1 DEF AdvanceState
<1>2. ASSUME NEW b \in BOOLEAN, InspectState(h, b)
      PROVE  Arrives(h)
  BY <1>2 DEF InspectState, ProcessPendingQuery, AnswerQuery, TriggerCheckin
<1>3. ASSUME NEW e \in EpochIndices, NEW b \in BOOLEAN,
             NEW store \in BOOLEAN, FinishEpoch(h, e, b, store)
      PROVE  Arrives(h)
  BY <1>3 DEF FinishEpoch, FinishAndStartEpoch
<1>4. ASSUME NEW e \in EpochIndices, DeleteEpoch(h, e)
      PROVE  Arrives(h)
  BY <1>4 DEF DeleteEpoch
<1>5. CASE EndSession(h)
  BY <1>5 DEF EndSession
<1>6. ASSUME NEW r \in {"GetSessionStatus", "GetEpochStatus"},
             NEW e \in EpochIndices, GetStatus(h, r, e)
      PROVE  Arrives(h)
  BY <1>6 DEF GetStatus
<1> QED
  BY <1>1, <1>2, <1>3, <1>4, <1>5, <1>6 DEF Request

\* A step of a handler is a step of one that has its request.
LEMMA StepGoesOn ==
    ASSUME TypeOK, NEW h \in Handlers, Step(h)
    PROVE  GoesOn(h)
<1> USE DEF lockVars, countVars, epochVars, machineVars, localVars, TypeOK, HandlersOK, LocalsOK,
            GoesOn, OnlyMoves, Live, At, Talking, TriggerCheckin
<1>1. CASE AdvanceStateAcked(h)
  BY <1>1 DEF AdvanceStateAcked, TaintAdvanceState, Return, TakeUpInput
<1>2. CASE ResumeProcessing(h)
  BY <1>2 DEF ResumeProcessing, ProcessNext, Return, TakeUpInput
<1>3. ASSUME NEW b \in BOOLEAN, ResumeQuery(h, b)
      PROVE  GoesOn(h)
  BY <1>3 DEF ResumeQuery, ProcessPendingQuery, AnswerQuery
<1>4. CASE SnapshotTaken(h) \/ SnapshotCheckedIn(h) \/ RolledBack(h)
  BY <1>4 DEF SnapshotTaken, SnapshotCheckedIn, RolledBack, AwaitCheckin, CheckedIn
<1>5. CASE InputRun(h)
  BY <1>5 DEF InputRun, RunMachine, TaintAdvanceState
<1>6. CASE QueryRun(h)
  BY <1>6 DEF QueryRun, RunMachine
<1>7. CASE VouchersProved(h) \/ NoticesProved(h)
  BY <1>7 DEF VouchersProved, NoticesProved
<1>8. CASE InputAccepted(h)
  BY <1>8 DEF InputAccepted, CompleteInput, ServeQueryFirst, ProcessNext, Return,
      TakeUpInput
<1>9. CASE InputRolledBack(h) \/ QueryRolledBack(h)
  BY <1>9 DEF InputRolledBack, QueryRolledBack, CheckedIn, AnswerQuery
<1>10. CASE InputSkipped(h)
  BY <1>10 DEF InputSkipped, CompleteInput, ServeQueryFirst, ProcessNext, Return,
      TakeUpInput, TaintAdvanceState
<1>11. CASE MachineFails(h)
  BY <1>11 DEF MachineFails, TaintAdvanceState, UnwindInspectState
<1>12. CASE CallFails(h) \/ Stored(h) \/ ShutDown(h) \/ Acked(h) \/ ErrorAcked(h)
            \/ UseAfterFree(h) \/ ResumeTainting(h)
  BY <1>12 DEF CallFails, Stored, FinishAndStartEpoch, ShutDown, Acked, ErrorAcked,
      UseAfterFree, ResumeTainting
<1> QED
  BY <1>1, <1>2, <1>3, <1>4, <1>5, <1>6, <1>7, <1>8, <1>9, <1>10, <1>11, <1>12
      DEF Step

-----------------------------------------------------------------------------
(* The disciplines *)

\* What keeps to serial or within keeps to queue.
LEMMA OverlapsNested ==
    /\ Overlap["serial"] \subseteq Overlap["queue"]
    /\ Overlap["within"] \subseteq Overlap["queue"]
  BY DEF Overlap

\* A discipline that is broken stays broken, and serial and within break with queue.
LEMMA DisciplinesKept ==
    ASSUME Disciplines, ClientNext
    PROVE  Disciplines'
<1>1. clients' = {d \in clients : KeepsTo(d)}
  BY DEF ClientNext
<1>2. ASSUME NEW d \in {"serial", "within"}, KeepsTo(d) PROVE KeepsTo("queue")
  BY <1>2, OverlapsNested DEF KeepsTo
<1> QED
  BY <1>1, <1>2 DEF Disciplines

\* Clients that keep to a discipline have only the requests served together that it
\* allows: a handler that moves adds none, a request that arrives is checked.
LEMMA OverlappingKept ==
    ASSUME TypeOK, Disciplines, Overlapping, NEW h \in Handlers, Request(h) \/ Step(h),
           clients' = {d \in clients : KeepsTo(d)}
    PROVE  Overlapping'
<1>1. CASE Step(h)
  <2>1. GoesOn(h)
    BY <1>1, StepGoesOn
  <2>2. \A g \in Handlers : Live(g)' => Live(g)
    BY <2>1 DEF GoesOn, OnlyMoves, Live
  <2>3. clients' \subseteq clients /\ rpc' = rpc
    BY <2>1 DEF GoesOn
  <2> QED
    BY <2>2, <2>3 DEF Overlapping
<1>2. CASE Request(h)
  <2>1. Arrives(h)
    BY <1>2, RequestArrives
  <2>2. \A g \in Handlers \ {h} : (Live(g)' <=> Live(g)) /\ rpc'[g] = rpc[g]
    BY <2>1 DEF Arrives, OnlyMoves, Live
  <2>3. ASSUME NEW g \in Handlers \ {h}, Live(g), NEW d \in clients'
        PROVE  <<rpc[g], rpc'[h]>> \in Overlap[d]
    BY <2>1, <2>3 DEF Arrives, KeepsTo
  <2>4. ASSUME NEW g \in Handlers \ {h}, Live(g), "queue" \in clients'
        PROVE  rpc[g] = "AdvanceState" /\ rpc'[h] # "DeleteEpoch"
    BY <2>3, <2>4 DEF Overlap, Others
  <2>5. ASSUME NEW g \in Handlers \ {h}, Live(g), "within" \in clients'
        PROVE  rpc[g] = "AdvanceState" /\ rpc'[h] # "FinishEpoch"
    BY <2>3, <2>5 DEF Overlap, Others
  <2>6. ASSUME NEW g \in Handlers \ {h}, Live(g), "serial" \in clients'
        PROVE  rpc'[h] # "AdvanceState"
    BY <2>3, <2>6 DEF Overlap, Others
  <2> QED
    BY <2>2, <2>4, <2>5, <2>6 DEF Overlapping
<1> QED
  BY <1>1, <1>2

-----------------------------------------------------------------------------
(* What a step does to the epochs *)

epochState == <<active_epoch_index, epoch_state, pending_inputs, processed_inputs,
                vouchers_tree, notices_tree, processed_input_count>>

\* h touches no epoch.  It works on no new input, and leaves one it works on only
\* by failing.
Rests(h) ==
    /\ UNCHANGED epochState
    /\ tainted => tainted'
    /\ Working(h)' =>
        /\ Working(h) /\ ep'[h] = ep[h]
        /\ epoch_input_index'[h] = epoch_input_index[h]
        /\ pc'[h] = pc[h] \/ (pc[h] \notin VoucherIn /\ pc'[h] \notin VoucherIn)
    /\ Working(h) /\ ~Working(h)' => tainted'
    /\ pc'[h] = "store" =>
        pc[h] = "store" /\ ep'[h] = ep[h] /\ rpc'[h] = rpc[h]
    /\ \/ Accepted(h) /\ rpc'[h] = rpc[h] /\ ep'[h] = ep[h]
       \/ ~Accepted(h)'
       \/ rpc'[h] \notin {"AdvanceState", "InspectState", "FinishEpoch"}
       \/ ep'[h] = active_epoch_index

\* h takes up the input at the front of the queue.
TakesUp(h) ==
    /\ UNCHANGED <<epochState, tainted, rpc, ep>>
    /\ \A g \in Handlers : ~Working(g)
    /\ rpc[h] = "AdvanceState" /\ Accepted(h) /\ pc'[h] = "snapshot"
    /\ pending_inputs[ep[h]] # <<>>
    /\ epoch_input_index'[h] = Len(processed_inputs[ep[h]])

\* h is an AdvanceState that adds its input to the queue.
Enqueues(h, e) ==
    /\ UNCHANGED <<active_epoch_index, epoch_state, processed_inputs, vouchers_tree,
                   notices_tree, processed_input_count, tainted>>
    /\ pc[h] = "idle" /\ pc'[h] = "enqueued"
    /\ e = active_epoch_index /\ ep'[h] = e
    /\ pending_inputs' =
            [pending_inputs EXCEPT
                ![e] = Append(@, [id |-> h, input_index |-> CurrentInputIndex(e)])]

\* h adds a leaf to a tree, or one to both.
AddsLeaf(h) ==
    /\ UNCHANGED <<active_epoch_index, epoch_state, processed_inputs, pending_inputs,
                   processed_input_count, tainted, rpc, ep, epoch_input_index>>
    /\ Working(h) /\ Working(h)'
    /\ \/ /\ pc[h] = "voucher_proof" /\ pc'[h] = "notice_proof"
          /\ vouchers_tree' = [vouchers_tree EXCEPT ![ep[h]] = @ + 1]
          /\ UNCHANGED notices_tree
       \/ /\ pc[h] = "notice_proof" /\ pc'[h] = "root_hash"
          /\ notices_tree' = [notices_tree EXCEPT ![ep[h]] = @ + 1]
          /\ UNCHANGED vouchers_tree
       \/ /\ pc[h] = "rollback_checkin" /\ pc'[h] = "check_hash"
          /\ vouchers_tree' = [vouchers_tree EXCEPT ![ep[h]] = @ + 1]
          /\ notices_tree' = [notices_tree EXCEPT ![ep[h]] = @ + 1]

\* h records a result, and goes on with the next input, waits or returns.
Records(h, status) ==
    /\ RecordInput(h, status)
    /\ UNCHANGED <<active_epoch_index, epoch_state, vouchers_tree, notices_tree,
                   tainted, rpc, ep>>
    /\ Working(h) /\ pc[h] \in NoticeIn
    /\ \/ pc'[h] \in {"handoff", "done"}
       \/ /\ pc'[h] = "snapshot" /\ pending_inputs'[ep[h]] # <<>>
          /\ epoch_input_index'[h] = Len(processed_inputs'[ep[h]])

\* h finishes the epoch e and starts the next one.
Finishes(h, e) ==
    /\ FinishAndStartEpoch(h, e)
    /\ ep'[h] = e
    /\ UNCHANGED <<processed_input_count, tainted>>

\* h waits for the machine to be stored before it finishes e.
Stores(h, e) ==
    /\ UNCHANGED <<epochState, tainted>>
    /\ pc[h] = "idle" /\ pc'[h] = "store"
    /\ rpc'[h] = "FinishEpoch" /\ ep'[h] = e

\* What a FinishEpoch checked.
MayFinish(h, e) ==
    /\ active_epoch_index # MaxEpochIndex /\ ~tainted
    /\ epoch_state[e] = "active" /\ pending_inputs[e] = <<>>

\* h deletes the epoch e.
Deletes(h, e) ==
    /\ UNCHANGED <<active_epoch_index, processed_input_count, tainted>>
    /\ e # active_epoch_index
    /\ epoch_state' = [epoch_state EXCEPT ![e] = "absent"]
    /\ ClearEpoch(e)
    /\ pc[h] = "idle" /\ pc'[h] = "ack" /\ rpc'[h] = "DeleteEpoch"

EpochStep(h) ==
    \/ Rests(h) \/ TakesUp(h) \/ AddsLeaf(h)
    \/ \E e \in EpochIndices : Enqueues(h, e) /\ rpc'[h] = "AdvanceState"
    \/ \E status \in {"accepted", "skipped"} : Records(h, status) /\ Valid(h)
    \/ \E e \in EpochIndices :
            /\ Finishes(h, e)
            /\ \/ MayFinish(h, e) /\ rpc'[h] = "FinishEpoch"
               \/ pc[h] = "store" /\ ep[h] = e /\ rpc'[h] = rpc[h]
    \/ \E e \in EpochIndices : Stores(h, e) /\ MayFinish(h, e)
    \/ \E e \in EpochIndices : Deletes(h, e)

\* Every step is one of these.
LEMMA EpochSteps ==
    ASSUME TypeOK, LabelsMatch, ProcessingExclusive, ActiveEpochIsActive,
           NEW h \in Handlers, Request(h) \/ Step(h)
    PROVE  EpochStep(h)
<1> USE DEF lockVars, countVars, epochVars, machineVars, localVars, epochState
<1>1. ASSUME NEW e \in EpochIndices, NEW b \in BOOLEAN, AdvanceState(h, e, b)
      PROVE  EpochStep(h)
  <2>1. CASE AdvanceStateCode(e, b) # "OK"
    <3>1. Rests(h)
      BY <1>1, <2>1 DEF AdvanceState, Refuse, Receive, Rests, Working, Processing, Accepted,
          TypeOK, HandlersOK, Talking
    <3> QED
      BY <3>1 DEF EpochStep
  <2>2. CASE AdvanceStateCode(e, b) = "OK"
    <3>1. Enqueues(h, e) /\ rpc'[h] = "AdvanceState"
      BY <1>1, <2>2 DEF AdvanceState, AdvanceStateCode, Receive, Enqueues, TypeOK, HandlersOK
    <3> QED
      BY <3>1 DEF EpochStep
  <2> QED
    BY <2>1, <2>2
<1>2. ASSUME NEW b \in BOOLEAN, InspectState(h, b)
      PROVE  EpochStep(h)
  <2>1. Rests(h)
    BY <1>2 DEF InspectState, ProcessPendingQuery, AnswerQuery, TriggerCheckin,
          Refuse, Receive, Rests, Working, Processing, Accepted,
          TypeOK, HandlersOK, Talking
  <2> QED
    BY <2>1 DEF EpochStep
<1>3. ASSUME NEW e \in EpochIndices, NEW b \in BOOLEAN,
             NEW store \in BOOLEAN, FinishEpoch(h, e, b, store)
      PROVE  EpochStep(h)
  <2>1. CASE FinishEpochCode(e, b) # "OK"
    <3>1. Rests(h)
      BY <1>3, <2>1 DEF FinishEpoch, Refuse, Receive, Rests, Working, Processing, Accepted,
          TypeOK, HandlersOK, Talking
    <3> QED
      BY <3>1 DEF EpochStep
  <2>2. CASE FinishEpochCode(e, b) = "OK"
    <3>1. MayFinish(h, e)
      BY <2>2 DEF FinishEpochCode, MayFinish
    <3>2. (Finishes(h, e) /\ rpc'[h] = "FinishEpoch") \/ Stores(h, e)
      BY <1>3, <2>2 DEF FinishEpoch, Receive, Finishes, Stores, TypeOK, HandlersOK
    <3> QED
      BY <3>1, <3>2 DEF EpochStep
  <2> QED
    BY <2>1, <2>2
<1>4. ASSUME NEW e \in EpochIndices, DeleteEpoch(h, e)
      PROVE  EpochStep(h)
  <2>1. CASE DeleteEpochCode(e) # "OK"
    <3>1. Rests(h)
      BY <1>4, <2>1 DEF DeleteEpoch, Refuse, Receive, Rests, Working, Processing, Accepted,
          TypeOK, HandlersOK, Talking
    <3> QED
      BY <3>1 DEF EpochStep
  <2>2. CASE DeleteEpochCode(e) = "OK"
    <3>1. Deletes(h, e)
      BY <1>4, <2>2 DEF DeleteEpoch, DeleteEpochCode, Receive, Deletes, TypeOK, HandlersOK
    <3> QED
      BY <3>1 DEF EpochStep
  <2> QED
    BY <2>1, <2>2
<1>5. CASE \/ EndSession(h)
           \/ \E r \in {"GetSessionStatus", "GetEpochStatus"}, e \in EpochIndices :
                    GetStatus(h, r, e)
  <2>1. Rests(h)
    BY <1>5 DEF EndSession, GetStatus, Refuse, Receive, Rests, Working, Processing, Accepted,
          TypeOK, HandlersOK, Talking
  <2> QED
    BY <2>1 DEF EpochStep
<1>6. CASE AdvanceStateAcked(h)
  <2>1. CASE TakeUpInput(h) /\ ~processing_lock /\ UNCHANGED tainted
                /\ Len(pending_inputs[ep[h]]) = 1
    <3>1. \A g \in Handlers : ~Working(g)
      BY <2>1 DEF ProcessingExclusive, Working
    <3>2. pending_inputs[ep[h]] # <<>>
      BY <2>1
    <3>3. TakesUp(h)
      BY <1>6, <2>1, <3>1, <3>2 DEF AdvanceStateAcked, At, TakesUp, TakeUpInput, TriggerCheckin,
          Accepted, LabelsMatch, TypeOK, HandlersOK, LocalsOK
    <3> QED
      BY <3>3 DEF EpochStep
  <2>2. CASE TaintAdvanceState(h) \/ (Return(h) /\ UNCHANGED tainted)
    <3>1. Rests(h)
      BY <1>6, <2>2 DEF AdvanceStateAcked, At, TaintAdvanceState, Return, Rests,
          Working, Processing, Accepted, TypeOK, HandlersOK, Talking
    <3> QED
      BY <3>1 DEF EpochStep
  <2> QED
    BY <1>6, <2>1, <2>2 DEF AdvanceStateAcked
<1>7. CASE ResumeProcessing(h)
  <2>1. CASE TakeUpInput(h) /\ pending_inputs[ep[h]] # <<>>
    <3>1. \A g \in Handlers : ~Working(g)
      BY <1>7 DEF ResumeProcessing, At, ProcessingExclusive, Working, Processing, LabelsMatch
    <3>3. TakesUp(h)
      BY <1>7, <2>1, <3>1 DEF ResumeProcessing, At, TakesUp, TakeUpInput, TriggerCheckin,
          Accepted, LabelsMatch, TypeOK, HandlersOK, LocalsOK
    <3> QED
      BY <3>3 DEF EpochStep
  <2>2. CASE Return(h)
    <3>1. Rests(h)
      BY <1>7, <2>2 DEF ResumeProcessing, At, Return, Rests,
          Working, Processing, Accepted, TypeOK, HandlersOK, Talking
    <3> QED
      BY <3>1 DEF EpochStep
  <2> QED
    BY <1>7, <2>1, <2>2 DEF ResumeProcessing, ProcessNext
<1>8. CASE \/ SnapshotTaken(h) \/ SnapshotCheckedIn(h) \/ RolledBack(h) \/ InputRun(h)
           \/ QueryRun(h) \/ MachineFails(h)
  <2>1. Rests(h)
    BY <1>8 DEF SnapshotTaken, SnapshotCheckedIn, RolledBack, AwaitCheckin, CheckedIn,
        InputRun, QueryRun, RunMachine, MachineFails, TaintAdvanceState, UnwindInspectState,
        At, TriggerCheckin, Rests, Working, Processing, Accepted, TypeOK, HandlersOK, Talking,
        VoucherIn
  <2> QED
    BY <2>1 DEF EpochStep
<1>9. CASE \/ \E b \in BOOLEAN : ResumeQuery(h, b)
           \/ QueryRolledBack(h)
  <2>1. Rests(h)
    BY <1>9 DEF ResumeQuery, ProcessPendingQuery, AnswerQuery, QueryRolledBack, CheckedIn,
        At, TriggerCheckin, Rests, Working, Processing, Accepted, LabelsMatch, TypeOK,
        HandlersOK, Talking, VoucherIn
  <2> QED
    BY <2>1 DEF EpochStep
<1>10. CASE \/ ResumeTainting(h) \/ CallFails(h) \/ ShutDown(h) \/ Acked(h) \/ ErrorAcked(h)
            \/ UseAfterFree(h)
  <2> USE DEF Rests, Working, Processing, Accepted, TypeOK, HandlersOK, Talking
  <2>1. Rests(h)
    <3>1. CASE ResumeTainting(h) \/ Acked(h) \/ ErrorAcked(h)
      <4>1. /\ pc[h] \in {"tainting", "ack", "error"}
            /\ pc' = [pc EXCEPT ![h] = "done"]
            /\ UNCHANGED <<tainted, countVars, epochVars, rpc, ep, localVars>>
        BY <3>1 DEF ResumeTainting, Acked, ErrorAcked
      <4> QED
        BY <4>1
    <3>2. CASE CallFails(h) \/ ShutDown(h)
      BY <3>2 DEF CallFails, ShutDown
    <3>3. CASE UseAfterFree(h)
      BY <3>3 DEF UseAfterFree
    <3> QED
      BY <1>10, <3>1, <3>2, <3>3
  <2> QED
    BY <2>1 DEF EpochStep
<1>11. CASE VouchersProved(h) \/ NoticesProved(h) \/ InputRolledBack(h)
  <2>1. AddsLeaf(h)
    BY <1>11 DEF VouchersProved, NoticesProved, InputRolledBack, CheckedIn, At, AddsLeaf,
        Working, Processing, Talking, LabelsMatch, TypeOK, HandlersOK
  <2> QED
    BY <2>1 DEF EpochStep
<1>12. CASE InputAccepted(h)
  <2>1. Records(h, "accepted") /\ Valid(h)
    BY <1>12 DEF InputAccepted, At, CompleteInput, ServeQueryFirst, ProcessNext, Return,
        TakeUpInput, TriggerCheckin, Records, Working, Processing, Talking, NoticeIn,
        LabelsMatch, TypeOK, HandlersOK, LocalsOK
  <2> QED
    BY <2>1 DEF EpochStep
<1>13. CASE InputSkipped(h)
  <2>1. CASE CompleteInput(h, "skipped") /\ UNCHANGED tainted
    <3>1. Records(h, "skipped") /\ Valid(h)
      BY <1>13, <2>1 DEF InputSkipped, At, CompleteInput, ServeQueryFirst, ProcessNext,
        Return, TakeUpInput, TriggerCheckin, Records, Working, Processing, Talking, NoticeIn,
        LabelsMatch, TypeOK, HandlersOK, LocalsOK
    <3> QED
      BY <3>1 DEF EpochStep
  <2>2. CASE /\ TaintAdvanceState(h)
             /\ UNCHANGED <<processed_input_count, pending_inputs, processed_inputs, localVars>>
    <3>1. Rests(h)
      BY <1>13, <2>2 DEF InputSkipped, At, TaintAdvanceState, Rests, Working,
          Processing, Accepted, TypeOK, HandlersOK, Talking
    <3> QED
      BY <3>1 DEF EpochStep
  <2> QED
    BY <1>13, <2>1, <2>2 DEF InputSkipped
<1>14. CASE Stored(h)
  <2>1. ep[h] \in EpochIndices /\ pc[h] = "store"
    BY <1>14 DEF Stored, At, TypeOK, HandlersOK
  <2>2. Finishes(h, ep[h]) /\ rpc' = rpc
    BY <1>14 DEF Stored, Finishes
  <2> QED
    BY <2>1, <2>2 DEF EpochStep
<1> QED
  BY <1>1, <1>2, <1>3, <1>4, <1>5, <1>6, <1>7, <1>8, <1>9, <1>10, <1>11, <1>12, <1>13, <1>14
      DEF Request, Step

\* A request that keeps to queue finds only AdvanceStates.
LEMMA FindsAdvances ==
    ASSUME NEW h \in Handlers, Arrives(h), "queue" \in clients',
           clients' = {d \in clients : KeepsTo(d)}
    PROVE  \A g \in Handlers : ~Other(g)
<1>1. ASSUME NEW g \in Handlers, Live(g) PROVE <<rpc[g], rpc'[h]>> \in Overlap["queue"]
  BY <1>1 DEF Arrives, KeepsTo
<1> QED
  BY <1>1 DEF Overlap, Other

\* Work goes on only in the active epoch, and not while the machine is stored.
LEMMA WorkIsActive ==
    ASSUME TypeOK, EpochsInPlace, NEW h \in Handlers, Working(h)
    PROVE  /\ ep[h] = active_epoch_index /\ ep[h] \in EpochIndices
           /\ \A g \in Handlers : pc[g] # "store"
  BY DEF EpochsInPlace, OneActive, WorkersInPlace, StoresInPlace, TypeOK, HandlersOK

\* EpochsInPlace is kept by a step that leaves epochs, queues and trees alone.
LEMMA RestKeepsEpochs ==
    ASSUME TypeOK, ActiveEpochIsActive, EpochsInPlace, NEW h \in Handlers, OnlyMoves(h),
           Rests(h)
    PROVE  EpochsInPlace'
<1> USE DEF EpochsInPlace, epochState
<1>1. OneActive' /\ QueueNumbered' /\ ResultsNumbered'
  BY DEF Rests, OneActive, QueueNumbered, ResultsNumbered
<1>2. \A e : TreesFull(e)' <=> TreesFull(e)
  BY DEF Rests, TreesFull
<1>3. \A g \in Handlers \ {h} : (Working(g)' <=> Working(g)) /\ pc'[g] = pc[g]
                                /\ ep'[g] = ep[g] /\ epoch_input_index'[g] = epoch_input_index[g]
                                /\ rpc'[g] = rpc[g]
  BY DEF OnlyMoves, Working, Processing
<1>4. TreesInPlace'
  BY <1>2, <1>3 DEF Rests, TreesInPlace
<1>5. WorkersInPlace'
  <2> SUFFICES ASSUME NEW g \in Handlers, Working(g)'
               PROVE  /\ pending_inputs[ep[g]] # <<>> /\ ep'[g] = ep[g]
                      /\ epoch_input_index'[g] = Len(processed_inputs[ep[g]])
                      /\ ~tainted' => LeavesInPlace(g)'
    BY DEF Rests, WorkersInPlace
  <2>1. /\ Working(g) /\ ep'[g] = ep[g] /\ epoch_input_index'[g] = epoch_input_index[g]
        /\ pc'[g] = pc[g] \/ (pc[g] \notin VoucherIn /\ pc'[g] \notin VoucherIn)
    BY <1>3 DEF Rests
  <2>2. ~tainted => (LeavesInPlace(g)' <=> LeavesInPlace(g))
    BY <2>1 DEF Rests, LeavesInPlace, VoucherIn, NoticeIn
  <2> QED
    BY <2>1, <2>2 DEF Rests, WorkersInPlace
<1>6. StoresInPlace'
  BY <1>2, <1>3 DEF Rests, StoresInPlace
<1>7. EpochsThere'
  BY <1>3 DEF Rests, EpochsThere, Accepted, ActiveEpochIsActive
<1> QED
  BY <1>1, <1>4, <1>5, <1>6, <1>7

\* EpochsInPlace is kept when process_pending_inputs takes up the next input.
LEMMA TakeUpKeepsEpochs ==
    ASSUME TypeOK, EpochsInPlace, NEW h \in Handlers, OnlyMoves(h), TakesUp(h)
    PROVE  EpochsInPlace'
<1> USE DEF EpochsInPlace, epochState
<1>1. OneActive' /\ QueueNumbered' /\ ResultsNumbered'
  BY DEF TakesUp, OneActive, QueueNumbered, ResultsNumbered
<1>2. \A e : TreesFull(e)' <=> TreesFull(e)
  BY DEF TakesUp, TreesFull
<1>3. \A g \in Handlers \ {h} : ~Working(g)' /\ pc'[g] = pc[g]
  BY DEF OnlyMoves, Working, Processing, TakesUp
<1>4. Working(h)' /\ ep[h] \in EpochIndices /\ ep[h] = active_epoch_index
  BY DEF TakesUp, Working, Processing, Talking, TypeOK, HandlersOK, OneActive
<1>5. TreesInPlace'
  BY <1>2, <1>4 DEF TakesUp, TreesInPlace
<1>6. WorkersInPlace'
  <2>1. ~tainted => TreesFull(ep[h])
    BY <1>4 DEF TakesUp, TreesInPlace
  <2>2. ~tainted' => LeavesInPlace(h)'
    BY <2>1 DEF TakesUp, TreesFull, LeavesInPlace, VoucherIn, NoticeIn
  <2> QED
    BY <1>3, <2>2 DEF WorkersInPlace, TakesUp
<1>7. StoresInPlace'
  BY <1>2, <1>3 DEF TakesUp, StoresInPlace
<1>8. EpochsThere'
  BY <1>3 DEF TakesUp, EpochsThere, Accepted
<1> QED
  BY <1>1, <1>5, <1>6, <1>7, <1>8

\* EpochsInPlace is kept when AdvanceState puts its input in the queue; no FinishEpoch
\* is storing the machine then.
LEMMA EnqueueKeepsEpochs ==
    ASSUME TypeOK, ActiveEpochIsActive, EpochsInPlace, NEW h \in Handlers, OnlyMoves(h),
           NEW e \in EpochIndices, Enqueues(h, e), \A g \in Handlers : ~Other(g)
    PROVE  EpochsInPlace'
<1> USE DEF EpochsInPlace
<1> DEFINE i == [id |-> h, input_index |-> CurrentInputIndex(e)]
<1>1. pending_inputs[e] \in Seq(Input) /\ processed_input_count \in Nat
  BY DEF TypeOK, LogsOK, SessionOK
<1>2. Len(pending_inputs[e]) \in Nat
  BY <1>1
<1>3. i \in Input /\ i.input_index = Len(pending_inputs[e]) + processed_input_count
  BY <1>1, <1>2 DEF CurrentInputIndex, Input
<1> HIDE DEF i
<1>4. /\ pending_inputs'[e] = Append(pending_inputs[e], i)
      /\ \A f \in EpochIndices \ {e} : pending_inputs'[f] = pending_inputs[f]
  BY DEF Enqueues, TypeOK, LogsOK, i
<1>5. /\ Len(pending_inputs'[e]) = Len(pending_inputs[e]) + 1
      /\ \A k \in 1..Len(pending_inputs[e]) : pending_inputs'[e][k] = pending_inputs[e][k]
      /\ pending_inputs'[e][Len(pending_inputs[e]) + 1] = i
  BY <1>1, <1>3, <1>4
<1>6. pending_inputs'[e] # <<>>
  BY <1>2, <1>5
<1>7. OneActive' /\ ResultsNumbered'
  BY <1>4 DEF Enqueues, OneActive, ResultsNumbered
<1>8. QueueNumbered'
  <2> SUFFICES ASSUME NEW f \in EpochIndices, NEW k \in 1..Len(pending_inputs'[f])
               PROVE  pending_inputs'[f][k].input_index = processed_input_count + k - 1
    BY DEF QueueNumbered, Enqueues
  <2>1. CASE f # e
    BY <1>4, <2>1 DEF QueueNumbered
  <2>2. CASE f = e /\ k = Len(pending_inputs[e]) + 1
    BY <1>1, <1>2, <1>3, <1>5, <2>2
  <2>3. CASE f = e /\ k # Len(pending_inputs[e]) + 1
    <3>1. k \in 1..Len(pending_inputs[e])
      BY <1>2, <1>5, <2>3
    <3> QED
      BY <1>5, <2>3, <3>1 DEF QueueNumbered
  <2> QED
    BY <2>1, <2>2, <2>3
<1>9. \A g \in Handlers \ {h} : (Working(g)' <=> Working(g)) /\ pc'[g] = pc[g]
                                /\ ep'[g] = ep[g] /\ epoch_input_index'[g] = epoch_input_index[g]
                                /\ rpc'[g] = rpc[g]
  BY DEF OnlyMoves, Working, Processing
<1>10. ~Working(h)' /\ pc'[h] # "store"
  BY DEF Enqueues, Working, Processing, Talking
<1>11. \A f : TreesFull(f)' <=> TreesFull(f)
  BY DEF Enqueues, TreesFull
<1>12. \A g \in Handlers : pc[g] # "store"
  BY DEF StoresInPlace, Other, Live
<1>13. \A g \in Handlers : Working(g)' <=> Working(g)
  BY <1>9, <1>10 DEF Enqueues, Working, Processing, Talking
<1>14. ASSUME NEW g \in Handlers, Working(g) PROVE g # h => (LeavesInPlace(g)' <=> LeavesInPlace(g))
  BY <1>9 DEF LeavesInPlace, Enqueues
<1>16. TreesInPlace'
  BY <1>11, <1>13 DEF TreesInPlace, Enqueues
<1>17. WorkersInPlace'
  <2> SUFFICES ASSUME NEW g \in Handlers, Working(g)'
               PROVE  /\ pending_inputs'[ep'[g]] # <<>>
                      /\ epoch_input_index'[g] = Len(processed_inputs'[ep'[g]])
                      /\ ~tainted' => LeavesInPlace(g)'
    BY DEF WorkersInPlace
  <2>1. g # h /\ Working(g) /\ ep'[g] = ep[g] /\ ep[g] \in EpochIndices
    BY <1>9, <1>10 DEF TypeOK, HandlersOK
  <2> QED
    BY <1>4, <1>6, <1>9, <1>14, <2>1 DEF WorkersInPlace, Enqueues
<1>18. StoresInPlace'
  BY <1>9, <1>10, <1>12 DEF StoresInPlace
<1>19. EpochsThere'
  BY <1>9 DEF EpochsThere, Accepted, Enqueues, ActiveEpochIsActive
<1> QED
  BY <1>7, <1>8, <1>16, <1>17, <1>18, <1>19

\* EpochsInPlace is kept when a tree gets the leaf of an input.
LEMMA LeafKeepsEpochs ==
    ASSUME TypeOK, ProcessingExclusive, EpochsInPlace, NEW h \in Handlers,
           OnlyMoves(h), AddsLeaf(h)
    PROVE  EpochsInPlace'
<1> USE DEF EpochsInPlace
<1>1. OneActive' /\ QueueNumbered' /\ ResultsNumbered'
  BY DEF AddsLeaf, OneActive, QueueNumbered, ResultsNumbered
<1>2. /\ ep[h] = active_epoch_index /\ ep[h] \in EpochIndices
      /\ \A g \in Handlers : pc[g] # "store"
  BY WorkIsActive DEF AddsLeaf
<1>3. \A e \in EpochIndices \ {ep[h]} : TreesFull(e)' <=> TreesFull(e)
  BY DEF AddsLeaf, TreesFull, TypeOK, EpochsOK
<1>4. TreesInPlace'
  BY <1>2, <1>3 DEF AddsLeaf, TreesInPlace
<1>5. \A g \in Handlers \ {h} : ~Working(g)' /\ pc'[g] = pc[g]
  BY DEF OnlyMoves, Working, Processing, AddsLeaf, ProcessingExclusive
<1>6. WorkersInPlace'
  <2>1. /\ Len(processed_inputs[ep[h]]) \in Nat
        /\ vouchers_tree[ep[h]] \in Nat /\ notices_tree[ep[h]] \in Nat
    BY <1>2 DEF TypeOK, LogsOK, EpochsOK
  <2>2. ~tainted' => LeavesInPlace(h)'
    BY <1>2, <2>1 DEF AddsLeaf, WorkersInPlace, LeavesInPlace, VoucherIn, NoticeIn, TypeOK, EpochsOK
  <2> QED
    BY <1>5, <2>2 DEF WorkersInPlace, AddsLeaf
<1>7. StoresInPlace'
  BY <1>2, <1>5 DEF StoresInPlace, AddsLeaf
<1>8. EpochsThere'
  BY <1>5 DEF EpochsThere, Accepted, AddsLeaf, Working, Processing, Talking
<1> QED
  BY <1>1, <1>4, <1>6, <1>7, <1>8

\* EpochsInPlace is kept when a result is recorded: the front of the queue has the
\* number the result gets, since that is the count.
LEMMA RecordKeepsEpochs ==
    ASSUME Inv, EpochsInPlace, NEW h \in Handlers,
           OnlyMoves(h), NEW s \in {"accepted", "skipped"}, Records(h, s), Valid(h)
    PROVE  EpochsInPlace'
<1> USE DEF EpochsInPlace
<1> DEFINE e == ep[h]
           q == pending_inputs[e]
           r == processed_inputs[e]
           p == [input |-> Head(q), input_index |-> input_index[h],
                 epoch_input_index |-> epoch_input_index[h], status |-> s]
<1>1. TypeOK /\ ProcessingExclusive /\ IndexCaptured
  BY DEF Inv
<1>2. /\ e = active_epoch_index /\ e \in EpochIndices
      /\ \A g \in Handlers : pc[g] # "store"
  BY <1>1, WorkIsActive DEF Records
<1>3. /\ q \in Seq(Input) /\ q # <<>> /\ r \in Seq(ProcessedInput)
      /\ processed_input_count \in Nat
  BY <1>1, <1>2 DEF TypeOK, LogsOK, SessionOK, WorkersInPlace, Records
<1>4. p \in ProcessedInput
  BY <1>1, FrontInput DEF ProcessedInput, TypeOK, LocalsOK, Records, Working
<1>5. /\ processed_inputs'[e] = Append(r, p) /\ pending_inputs'[e] = Tail(q)
      /\ \A f \in EpochIndices \ {e} : /\ processed_inputs'[f] = processed_inputs[f]
                                       /\ pending_inputs'[f] = pending_inputs[f]
      /\ processed_input_count' = processed_input_count + 1
  BY <1>1, <1>2 DEF Records, RecordInput, TypeOK, LogsOK
<1>6. /\ p.epoch_input_index = Len(r)
      /\ p.input_index = p.input.input_index
  <2>1. input_index[h] = processed_input_count /\ epoch_input_index[h] = Len(r)
    BY <1>1 DEF IndexCaptured, Records, Working, WorkersInPlace
  <2>2. 1 \in 1..Len(q) /\ Head(q) = q[1]
    BY <1>3, EmptySeq, HeadTailProperties
  <2>3. q[1].input_index = processed_input_count + 1 - 1
    BY <1>2, <2>2 DEF QueueNumbered
  <2> QED
    BY <1>3, <2>1, <2>2, <2>3
<1>7. Len(r) \in Nat /\ Len(q) \in Nat \ {0}
  BY <1>3, EmptySeq
<1>8. /\ Len(Append(r, p)) = Len(r) + 1
      /\ \A k \in 1..Len(r) : Append(r, p)[k] = r[k]
      /\ Append(r, p)[Len(r) + 1] = p
  BY <1>3, <1>4, AppendProperties
<1>9. /\ Len(Tail(q)) = Len(q) - 1
      /\ \A k \in 1..Len(q) - 1 : Tail(q)[k] = q[k + 1]
  BY <1>3, HeadTailProperties
<1> HIDE DEF p, q, r, e
<1>10. OneActive'
  BY <1>2, <1>5 DEF Records, OneActive
<1>11. QueueNumbered'
  <2> SUFFICES ASSUME NEW f \in EpochIndices, NEW k \in 1..Len(pending_inputs'[f])
               PROVE  pending_inputs'[f][k].input_index = processed_input_count + 1 + k - 1
    BY <1>5 DEF QueueNumbered
  <2>1. CASE f # e
    <3>1. pending_inputs[f] = <<>>
      BY <1>2, <2>1 DEF OneActive
    <3> QED
      BY <1>5, <2>1, <3>1
  <2>2. CASE f = e
    <3>1. k \in 1..Len(q) - 1 /\ k + 1 \in 1..Len(q) /\ k \in Nat
      BY <1>5, <1>7, <1>9, <2>2
    <3>2. pending_inputs'[f][k] = q[k + 1]
      BY <1>5, <1>9, <2>2, <3>1
    <3>3. q[k + 1].input_index = processed_input_count + (k + 1) - 1
      BY <1>2, <3>1 DEF QueueNumbered, q, e
    <3> QED
      BY <1>3, <3>1, <3>2, <3>3
  <2> QED
    BY <2>1, <2>2
<1>12. ResultsNumbered'
  <2> SUFFICES ASSUME NEW f \in EpochIndices, NEW k \in 1..Len(processed_inputs'[f])
               PROVE  Numbered(processed_inputs'[f][k], k)
    BY DEF ResultsNumbered, Numbered
  <2>1. CASE f # e
    BY <1>5, <2>1 DEF ResultsNumbered
  <2>2. CASE f = e /\ k = Len(r) + 1
    BY <1>5, <1>6, <1>7, <1>8, <2>2 DEF Numbered
  <2>3. CASE f = e /\ k # Len(r) + 1
    <3>1. k \in 1..Len(r)
      BY <1>5, <1>7, <1>8, <2>3
    <3> QED
      BY <1>2, <1>5, <1>8, <2>3, <3>1 DEF ResultsNumbered, r, e
  <2> QED
    BY <2>1, <2>2, <2>3
<1>13. \A f \in EpochIndices \ {e} : TreesFull(f)' <=> TreesFull(f)
  BY <1>5 DEF Records, TreesFull
<1>14. ASSUME NEW f \in EpochIndices, f = e, ~tainted PROVE TreesFull(f)'
  <2>1. vouchers_tree[e] = Len(r) + 1 /\ notices_tree[e] = Len(r) + 1
    BY <1>14 DEF Records, WorkersInPlace, LeavesInPlace, VoucherIn, NoticeIn, e, r
  <2> QED
    BY <1>5, <1>8, <1>14, <2>1 DEF TreesFull, Records
<1>15. TreesInPlace'
  <2>1. ASSUME NEW f \in EpochIndices, f # e PROVE TreesFull(f)
    BY <1>2, <2>1 DEF TreesInPlace
  <2> QED
    BY <1>2, <1>13, <1>14, <2>1 DEF TreesInPlace, Records
<1>16. \A g \in Handlers \ {h} : ~Working(g)' /\ pc'[g] = pc[g]
  BY <1>1 DEF OnlyMoves, Working, Processing, Records, ProcessingExclusive
<1>17. WorkersInPlace'
  <2>1. ~tainted' /\ pc'[h] = "snapshot" => LeavesInPlace(h)'
    BY <1>2, <1>14 DEF Records, TreesFull, LeavesInPlace, VoucherIn, NoticeIn, e
  <2>2. Working(h)' => pc'[h] = "snapshot"
    BY DEF Records, Working, Processing, Talking
  <2> QED
    BY <1>16, <2>1, <2>2 DEF WorkersInPlace, Records
<1>18. StoresInPlace'
  BY <1>2, <1>16 DEF StoresInPlace, Records
<1>19. EpochsThere'
  BY <1>16 DEF EpochsThere, Accepted, Records, Working, Processing, Talking
<1> QED
  BY <1>10, <1>11, <1>12, <1>15, <1>17, <1>18, <1>19

\* EpochsInPlace is kept by finish_epoch and start_new_epoch, for the active epoch with
\* nothing left to do and an index that does not wrap around.
LEMMA FinishKeepsEpochs ==
    ASSUME TypeOK, EpochsInPlace, NEW h \in Handlers, OnlyMoves(h),
           NEW e \in EpochIndices, Finishes(h, e),
           e = active_epoch_index, e # MaxEpochIndex, pending_inputs[e] = <<>>, TreesFull(e),
           \A g \in Handlers \ {h} : pc[g] # "store"
    PROVE  EpochsInPlace'
<1> USE DEF EpochsInPlace
<1> DEFINE next == (active_epoch_index + 1) % (MaxEpochIndex + 1)
<1>1. next = e + 1 /\ next \in EpochIndices /\ next # e
  BY ConstantsAssumption DEF EpochIndices
<1>2. /\ active_epoch_index' = next /\ epoch_state'[e] = "finished" /\ epoch_state'[next] = "active"
      /\ \A f \in EpochIndices \ {e, next} : epoch_state'[f] = epoch_state[f]
      /\ pending_inputs'[next] = <<>> /\ processed_inputs'[next] = <<>>
      /\ vouchers_tree'[next] = 0 /\ notices_tree'[next] = 0
      /\ \A f \in EpochIndices \ {next} :
            /\ pending_inputs'[f] = pending_inputs[f] /\ processed_inputs'[f] = processed_inputs[f]
            /\ vouchers_tree'[f] = vouchers_tree[f] /\ notices_tree'[f] = notices_tree[f]
  BY <1>1 DEF Finishes, FinishAndStartEpoch, ClearEpoch, TypeOK, EpochsOK, LogsOK
<1>3. pc'[h] = "ack" /\ ep'[h] = e
  BY DEF Finishes, FinishAndStartEpoch, TypeOK, HandlersOK
<1> HIDE DEF next
<1>4. OneActive'
  BY <1>1, <1>2 DEF OneActive
<1>5. QueueNumbered' /\ ResultsNumbered'
  <2>1. \A f \in EpochIndices : pending_inputs'[f] = <<>>
    BY <1>2, <1>4 DEF OneActive
  <2>2. \A f \in EpochIndices : \/ processed_inputs'[f] = processed_inputs[f]
                                \/ processed_inputs'[f] = <<>>
    BY <1>2
  <2>3. Len(<<>>) = 0 /\ 1..0 = {}
    OBVIOUS
  <2> QED
    BY <2>1, <2>2, <2>3 DEF QueueNumbered, ResultsNumbered
<1>6. TreesInPlace'
  <2>1. ASSUME NEW f \in EpochIndices, f # next PROVE TreesFull(f)'
    <3>1. TreesFull(f)
      <4>1. ASSUME NEW g \in Handlers, Working(g) PROVE FALSE
        BY <4>1 DEF WorkersInPlace, OneActive, TypeOK, HandlersOK
      <4> QED
        BY DEF TreesInPlace
    <3> QED
      BY <1>2, <2>1, <3>1 DEF TreesFull
  <2>2. ASSUME NEW f \in EpochIndices, f = next PROVE TreesFull(f)'
    BY <1>2, <2>2 DEF TreesFull
  <2> QED
    BY <2>1, <2>2 DEF TreesInPlace
<1>7. \A g \in Handlers : ~Working(g)'
  BY <1>3 DEF OnlyMoves, Working, Processing, Talking, WorkersInPlace, OneActive, TypeOK, HandlersOK
<1>8. WorkersInPlace' /\ StoresInPlace'
  BY <1>3, <1>7 DEF WorkersInPlace, StoresInPlace, OnlyMoves
<1>9. EpochsThere'
  BY <1>1, <1>2, <1>3 DEF EpochsThere, Accepted, OnlyMoves, TypeOK, HandlersOK
<1> QED
  BY <1>4, <1>5, <1>6, <1>8, <1>9

\* EpochsInPlace is kept when FinishEpoch, past its checks, waits for the store.
LEMMA StoreKeepsEpochs ==
    ASSUME TypeOK, EpochsInPlace, NEW h \in Handlers, OnlyMoves(h), pc[h] = "idle",
           NEW e \in EpochIndices, Stores(h, e), MayFinish(h, e)
    PROVE  EpochsInPlace'
<1> USE DEF EpochsInPlace, epochState
<1>1. OneActive' /\ QueueNumbered' /\ ResultsNumbered'
  BY DEF Stores, OneActive, QueueNumbered, ResultsNumbered
<1>2. \A f : TreesFull(f)' <=> TreesFull(f)
  BY DEF Stores, TreesFull
<1>3. \A g \in Handlers \ {h} : pc'[g] = pc[g] /\ ep'[g] = ep[g] /\ rpc'[g] = rpc[g]
  BY DEF OnlyMoves
<1>4. e = active_epoch_index
  BY DEF MayFinish, OneActive
<1>5. \A g \in Handlers : ~Working(g)
  BY <1>4 DEF WorkersInPlace, MayFinish, OneActive, TypeOK, HandlersOK
<1>6. \A g \in Handlers : ~Working(g)'
  BY <1>3, <1>5 DEF Working, Processing, Talking, Stores
<1>7. TreesFull(e)
  BY <1>5 DEF TreesInPlace, MayFinish
<1>8. TreesInPlace' /\ WorkersInPlace'
  BY <1>2, <1>5, <1>6 DEF TreesInPlace, WorkersInPlace, Stores
<1>9. StoresInPlace'
  BY <1>2, <1>3, <1>4, <1>7 DEF StoresInPlace, Stores, MayFinish
<1>10. EpochsThere'
  BY <1>3 DEF EpochsThere, Accepted, Stores, MayFinish
<1> QED
  BY <1>1, <1>8, <1>9, <1>10

\* EpochsInPlace is kept by DeleteEpoch when nothing else is served.
LEMMA DeleteKeepsEpochs ==
    ASSUME TypeOK, EpochsInPlace, NEW h \in Handlers, OnlyMoves(h),
           NEW e \in EpochIndices, Deletes(h, e), \A g \in Handlers \ {h} : ~Live(g)
    PROVE  EpochsInPlace'
<1> USE DEF EpochsInPlace
<1>1. /\ epoch_state'[e] = "absent" /\ pending_inputs'[e] = <<>> /\ processed_inputs'[e] = <<>>
      /\ vouchers_tree'[e] = 0 /\ notices_tree'[e] = 0
      /\ \A f \in EpochIndices \ {e} :
            /\ epoch_state'[f] = epoch_state[f]
            /\ pending_inputs'[f] = pending_inputs[f] /\ processed_inputs'[f] = processed_inputs[f]
            /\ vouchers_tree'[f] = vouchers_tree[f] /\ notices_tree'[f] = notices_tree[f]
  BY DEF Deletes, ClearEpoch, TypeOK, EpochsOK, LogsOK
<1>2. Len(<<>>) = 0 /\ 1..0 = {}
  OBVIOUS
<1>3. OneActive' /\ QueueNumbered' /\ ResultsNumbered'
  BY <1>1, <1>2 DEF Deletes, OneActive, QueueNumbered, ResultsNumbered
<1>4. \A g \in Handlers : ~Working(g)' /\ pc'[g] # "store" /\ (g # h => ~Accepted(g)')
  BY DEF OnlyMoves, Live, Deletes, Working, Processing, Talking, Accepted
<1>5. WorkersInPlace' /\ StoresInPlace' /\ EpochsThere'
  BY <1>4 DEF WorkersInPlace, StoresInPlace, EpochsThere, Deletes
<1>6. TreesInPlace'
  <2>1. ASSUME NEW f \in EpochIndices, f # active_epoch_index PROVE TreesFull(f)'
    BY <1>1, <1>2, <2>1 DEF TreesInPlace, TreesFull
  <2>2. \A g \in Handlers : ~Working(g)
    BY DEF Deletes, Working, Processing, Live, Talking
  <2>3. ASSUME NEW f \in EpochIndices, f = active_epoch_index, ~tainted
        PROVE  TreesFull(f)'
    BY <1>1, <2>2, <2>3 DEF TreesInPlace, TreesFull, Deletes
  <2> QED
    BY <2>1, <2>3 DEF TreesInPlace, Deletes
<1> QED
  BY <1>3, <1>5, <1>6

\* Hence every step of clients that keep to queue keeps the epochs in place.
LEMMA EpochsStayInPlace ==
    ASSUME Inv, Overlapping, Overlapping', EpochsInPlace, NEW h \in Handlers,
           Request(h) \/ Step(h), "queue" \in clients',
           clients' = {d \in clients : KeepsTo(d)}
    PROVE  EpochsInPlace'
<1>1. TypeOK /\ LabelsMatch /\ ProcessingExclusive /\ ActiveEpochIsActive
  BY DEF Inv
<1>2. EpochStep(h)
  BY <1>1, EpochSteps
<1>3. Arrives(h) \/ GoesOn(h)
  BY <1>1, RequestArrives, StepGoesOn
<1>4. OnlyMoves(h)
  BY <1>3 DEF Arrives, GoesOn
<1>5. pc[h] = "idle" => \A g \in Handlers : ~Other(g)
  BY <1>3, FindsAdvances DEF GoesOn, Live
<1>6. "queue" \in clients
  OBVIOUS
<1>7. CASE Rests(h) \/ TakesUp(h) \/ AddsLeaf(h)
  BY <1>1, <1>4, <1>7, RestKeepsEpochs, TakeUpKeepsEpochs, LeafKeepsEpochs
<1>8. ASSUME NEW e \in EpochIndices, Enqueues(h, e) PROVE EpochsInPlace'
  <2>1. \A g \in Handlers : ~Other(g)
    BY <1>5, <1>8 DEF Enqueues
  <2> QED
    BY <1>1, <1>4, <1>8, <2>1, EnqueueKeepsEpochs
<1>9. ASSUME NEW s \in {"accepted", "skipped"}, Records(h, s), Valid(h) PROVE EpochsInPlace'
  BY <1>4, <1>9, RecordKeepsEpochs
<1>10. ASSUME NEW e \in EpochIndices, Finishes(h, e), MayFinish(h, e), rpc'[h] = "FinishEpoch"
       PROVE  EpochsInPlace'
  <2>1. e = active_epoch_index /\ e # MaxEpochIndex /\ pending_inputs[e] = <<>>
    BY <1>10 DEF MayFinish, EpochsInPlace, OneActive
  <2>2. \A g \in Handlers : ~Working(g)
    BY <1>1, <2>1 DEF EpochsInPlace, WorkersInPlace, OneActive, TypeOK, HandlersOK
  <2>3. TreesFull(e)
    BY <1>10, <2>2 DEF EpochsInPlace, TreesInPlace, MayFinish
  <2>4. ASSUME NEW g \in Handlers \ {h}, pc[g] = "store" PROVE FALSE
    <3>1. Live(g)' /\ rpc'[g] = "FinishEpoch" /\ Live(h)'
      BY <1>1, <1>4, <1>10, <2>4 DEF OnlyMoves, Live, EpochsInPlace, StoresInPlace,
          Finishes, FinishAndStartEpoch, TypeOK, HandlersOK
    <3> QED
      BY <1>10, <3>1 DEF Overlapping
  <2> QED
    BY <1>1, <1>4, <1>10, <2>1, <2>3, <2>4, FinishKeepsEpochs
<1>11. ASSUME NEW e \in EpochIndices, Finishes(h, e), pc[h] = "store", ep[h] = e
       PROVE  EpochsInPlace'
  <2>1. /\ e = active_epoch_index /\ e # MaxEpochIndex /\ pending_inputs[e] = <<>>
        /\ TreesFull(e) /\ rpc[h] = "FinishEpoch"
    BY <1>11 DEF EpochsInPlace, StoresInPlace
  <2>2. ASSUME NEW g \in Handlers \ {h}, pc[g] = "store" PROVE FALSE
    BY <1>6, <1>11, <2>1, <2>2 DEF Overlapping, Live, EpochsInPlace, StoresInPlace
  <2> QED
    BY <1>1, <1>4, <1>11, <2>1, <2>2, FinishKeepsEpochs
<1>12. ASSUME NEW e \in EpochIndices, Stores(h, e), MayFinish(h, e) PROVE EpochsInPlace'
  BY <1>1, <1>4, <1>12, StoreKeepsEpochs DEF Stores
<1>13. ASSUME NEW e \in EpochIndices, Deletes(h, e) PROVE EpochsInPlace'
  <2>1. ASSUME NEW g \in Handlers \ {h}, Live(g) PROVE FALSE
    <3>1. Live(g)' /\ Live(h)' /\ rpc'[h] = "DeleteEpoch"
      BY <1>4, <1>13, <2>1 DEF OnlyMoves, Live, Deletes
    <3> QED
      BY <3>1 DEF Overlapping
  <2> QED
    BY <1>1, <1>4, <1>13, <2>1, DeleteKeepsEpochs
<1>14. \/ Rests(h) \/ TakesUp(h) \/ AddsLeaf(h)
       \/ \E e \in EpochIndices : Enqueues(h, e) \/ Deletes(h, e)
       \/ \E status \in {"accepted", "skipped"} : Records(h, status) /\ Valid(h)
       \/ \E e \in EpochIndices :
            /\ Finishes(h, e)
            /\ \/ MayFinish(h, e) /\ rpc'[h] = "FinishEpoch"
               \/ pc[h] = "store" /\ ep[h] = e
       \/ \E e \in EpochIndices : Stores(h, e) /\ MayFinish(h, e)
  BY <1>2 DEF EpochStep
<1> QED
  BY <1>7, <1>8, <1>9, <1>10, <1>11, <1>12, <1>13, <1>14

-----------------------------------------------------------------------------
(* What a step does to queries *)

queryState == <<active_epoch_index, pending_query, pending_inputs, scheduled,
                resume_on_exit, pc, rpc, ep>>

\* h has nothing to do with the query of the active epoch.
Aloof(h) ==
    /\ UNCHANGED <<active_epoch_index, scheduled, resume_on_exit>>
    /\ pending_query'[active_epoch_index] = pending_query[active_epoch_index]
    /\ pc[h] \notin {"handoff", "query"} /\ pc'[h] \notin {"handoff", "query"}
    /\ Asking(h)' <=> Asking(h)
    /\ \/ pending_inputs'[active_epoch_index] = pending_inputs[active_epoch_index]
       \/ pc[h] = "idle"
       \/ pending_query[active_epoch_index] = None

\* h is an InspectState that waits, goes ahead or is answered at once.
Asks(h) ==
    /\ UNCHANGED <<active_epoch_index, scheduled, resume_on_exit, pending_inputs>>
    /\ pc[h] = "idle" /\ rpc'[h] = "InspectState" /\ ep'[h] = active_epoch_index
    /\ \E q \in {h, Null, None} :
        /\ pending_query' = [pending_query EXCEPT ![active_epoch_index] = q]
        /\ pc'[h] = "query" => q = h /\ pending_inputs[active_epoch_index] # <<>>
        /\ pc'[h] = "snapshot" => q = Null /\ pending_inputs[active_epoch_index] = <<>>
        /\ pc'[h] \notin {"query", "snapshot"} => pc'[h] = "ack" /\ q = None

\* h goes on to the next epoch.
Advances(h) ==
    /\ UNCHANGED <<scheduled, resume_on_exit>>
    /\ pc[h] \in {"idle", "store"} /\ pc'[h] = "ack" /\ rpc'[h] = "FinishEpoch"
    /\ active_epoch_index' \in EpochIndices
    /\ pending_query' = [pending_query EXCEPT ![active_epoch_index'] = None]

\* h is resumed inside process_pending_inputs.
Unparks(h) ==
    /\ UNCHANGED <<active_epoch_index, pending_query, pending_inputs, resume_on_exit>>
    /\ Resume(h) /\ pc[h] = "handoff" /\ pc'[h] \in {"snapshot", "done"}
    /\ rpc[h] = "AdvanceState"

\* The query h was called and goes ahead or is answered.
Starts(h) ==
    /\ UNCHANGED <<active_epoch_index, pending_inputs>>
    /\ Resume(h) /\ pc[h] = "query" /\ pc'[h] \in {"snapshot", "ack"}
    /\ resume_on_exit' = [resume_on_exit EXCEPT ![h] = pending_query[ep[h]]]
    /\ pending_query' =
            [pending_query EXCEPT ![ep[h]] = IF pc'[h] = "ack" THEN None ELSE @]

\* h has completed an input and calls a query before it goes on.
Calls(h) ==
    /\ UNCHANGED <<active_epoch_index, resume_on_exit>>
    /\ Working(h) /\ pc'[h] = "handoff"
    /\ pending_query[ep[h]] # None /\ Schedule(pending_query[ep[h]])
    /\ pending_query' = [pending_query EXCEPT ![ep[h]] = h]

\* The query h is answered.
Answers(h) ==
    /\ UNCHANGED <<active_epoch_index, pending_inputs, scheduled, resume_on_exit>>
    /\ Querying(h) /\ pc'[h] = "ack"
    /\ pending_query' = [pending_query EXCEPT ![ep[h]] = None]

\* h returns.
Leaves(h) ==
    /\ UNCHANGED <<active_epoch_index, pending_query, pending_inputs, resume_on_exit>>
    /\ pc[h] = "ack" /\ pc'[h] = "done" /\ UnwindInspectState(h)

\* Unless the session is tainted or ended, every step is one of these.
LEMMA QuerySteps ==
    ASSUME Inv, EpochsInPlace, Handover, NEW h \in Handlers, Request(h) \/ Step(h),
           ~tainted', exists'
    PROVE  \/ UNCHANGED queryState
           \/ Aloof(h) \/ Asks(h) \/ Advances(h) \/ Unparks(h) \/ Starts(h)
           \/ Calls(h) \/ Answers(h) \/ Leaves(h)
<1> DEFINE Goal == \/ UNCHANGED queryState
                   \/ Aloof(h) \/ Asks(h) \/ Advances(h) \/ Unparks(h) \/ Starts(h)
                   \/ Calls(h) \/ Answers(h) \/ Leaves(h)
<1> SUFFICES Goal
  OBVIOUS
<1>0. /\ TypeOK /\ LabelsMatch
      /\ pc[h] \in Labels /\ rpc[h] \in RpcKinds /\ ep[h] \in EpochIndices
      /\ active_epoch_index \in EpochIndices
  BY DEF Inv, TypeOK, HandlersOK, SessionOK
<1> USE DEF lockVars, countVars, epochVars, machineVars, localVars
<1>1. ASSUME NEW e \in EpochIndices, NEW b \in BOOLEAN, AdvanceState(h, e, b)
      PROVE  Goal
  <2>1. Aloof(h)
    BY <1>0, <1>1 DEF AdvanceState, Receive, Refuse, Aloof, Asking, Querying, Talking, TypeOK,
        HandlersOK
  <2> QED
    BY <2>1
<1>2. ASSUME NEW b \in BOOLEAN, InspectState(h, b)
      PROVE  Goal
  <2>1. CASE InspectStateCode # "OK"
    <3>1. Aloof(h)
      BY <1>0, <1>2, <2>1 DEF InspectState, Receive, Refuse, Aloof, Asking, Querying, Talking,
          TypeOK, HandlersOK
    <3> QED
      BY <3>1
  <2>2. CASE InspectStateCode = "OK"
    <3>1. Asks(h)
      BY <1>0, <1>2, <2>2 DEF InspectState, Receive, ProcessPendingQuery, AnswerQuery,
          TriggerCheckin, Asks, TypeOK, HandlersOK
    <3> QED
      BY <3>1
  <2> QED
    BY <2>1, <2>2
<1>3. ASSUME NEW e \in EpochIndices, NEW b \in BOOLEAN,
             NEW store \in BOOLEAN, FinishEpoch(h, e, b, store)
      PROVE  Goal
  <2>1. Aloof(h) \/ (FinishAndStartEpoch(h, e) /\ UNCHANGED <<scheduled, localVars>>)
    BY <1>0, <1>3 DEF FinishEpoch, Receive, Refuse, Aloof, Asking, Querying, Talking, TypeOK,
        HandlersOK
  <2>2. CASE FinishAndStartEpoch(h, e) /\ UNCHANGED <<scheduled, localVars>>
    <3>1. active_epoch_index' \in EpochIndices
      BY <1>0, <2>2, FinishTyped
    <3>2. Advances(h)
      BY <1>0, <1>3, <2>2, <3>1 DEF FinishEpoch, Receive, FinishAndStartEpoch, ClearEpoch, Advances,
          TypeOK, HandlersOK
    <3> QED
      BY <3>2
  <2> QED
    BY <2>1, <2>2
<1>4. ASSUME NEW e \in EpochIndices, DeleteEpoch(h, e)
      PROVE  Goal
  <2>1. Aloof(h)
    BY <1>0, <1>4 DEF DeleteEpoch, DeleteEpochCode, ClearEpoch, Receive, Refuse, Aloof, Asking,
        Querying, Talking, TypeOK, HandlersOK, EpochsOK, LogsOK
  <2> QED
    BY <2>1
<1>5. CASE \/ EndSession(h)
           \/ \E r \in {"GetSessionStatus", "GetEpochStatus"}, e \in EpochIndices :
                    GetStatus(h, r, e)
  <2>1. Aloof(h)
    BY <1>0, <1>5 DEF EndSession, GetStatus, Receive, Refuse, Aloof, Asking, Querying, Talking,
        TypeOK, HandlersOK
  <2> QED
    BY <2>1
<1>6. CASE AdvanceStateAcked(h)
  <2>1. Aloof(h)
    BY <1>0, <1>6 DEF AdvanceStateAcked, At, TaintAdvanceState, Return, TakeUpInput,
        TriggerCheckin, Aloof, Asking, Querying, Talking, LabelsMatch, TypeOK, HandlersOK
  <2> QED
    BY <2>1
<1>7. CASE ResumeProcessing(h)
  <2>1. Unparks(h)
    BY <1>0, <1>7 DEF ResumeProcessing, At, ProcessNext, Return, TakeUpInput, TriggerCheckin,
        Unparks, LabelsMatch, TypeOK, HandlersOK
  <2> QED
    BY <2>1
<1>8. ASSUME NEW b \in BOOLEAN, ResumeQuery(h, b)
      PROVE  Goal
  <2>1. Starts(h)
    BY <1>0, <1>8 DEF ResumeQuery, At, ProcessPendingQuery, AnswerQuery, TriggerCheckin, Starts,
        TypeOK, HandlersOK
  <2> QED
    BY <2>1
<1>9. CASE \/ SnapshotTaken(h) \/ SnapshotCheckedIn(h) \/ RolledBack(h) \/ InputRun(h)
           \/ QueryRun(h) \/ VouchersProved(h) \/ NoticesProved(h) \/ InputRolledBack(h)
  <2>1. Aloof(h)
    BY <1>0, <1>9 DEF SnapshotTaken, SnapshotCheckedIn, RolledBack, AwaitCheckin, CheckedIn, At,
        InputRun, QueryRun, RunMachine, TaintAdvanceState, TriggerCheckin, VouchersProved,
        NoticesProved, InputRolledBack, Aloof, Asking, Querying, Talking, TypeOK, HandlersOK
  <2> QED
    BY <2>1
<1>10. CASE InputAccepted(h) \/ InputSkipped(h)
  <2>1. /\ Working(h) /\ pc[h] \in {"root_hash", "check_hash"} /\ rpc[h] = "AdvanceState"
        /\ ServeQueryFirst(h) /\ UNCHANGED <<active_epoch_index, rpc, ep>>
    BY <1>0, <1>10 DEF InputAccepted, InputSkipped, CompleteInput, At, TaintAdvanceState,
        LabelsMatch, Working, Processing, Talking
  <2>2. ep[h] = active_epoch_index
    BY <1>0, <2>1, WorkIsActive
  <2>3. CASE pending_query[ep[h]] # None
    <3>1. Calls(h)
      BY <1>0, <2>1, <2>3 DEF ServeQueryFirst, Calls, TypeOK, HandlersOK
    <3> QED
      BY <3>1
  <2>4. CASE pending_query[ep[h]] = None
    <3>1. Aloof(h)
      BY <1>0, <2>1, <2>2, <2>4 DEF ServeQueryFirst, ProcessNext, Return, TakeUpInput,
          TriggerCheckin, Aloof, Asking, Querying, TypeOK, HandlersOK
    <3> QED
      BY <3>1
  <2> QED
    BY <2>3, <2>4
<1>11. CASE QueryRolledBack(h)
  <2>1. Answers(h)
    BY <1>0, <1>11 DEF QueryRolledBack, CheckedIn, At, AnswerQuery, Answers, Querying, Talking,
        TypeOK, HandlersOK
  <2> QED
    BY <2>1
<1>12. CASE MachineFails(h) \/ ResumeTainting(h) \/ ShutDown(h)
  BY <1>12 DEF MachineFails, TaintAdvanceState, ResumeTainting, Resume, ShutDown, Handover,
      TagsInPlace
<1>13. CASE CallFails(h) \/ ErrorAcked(h)
  <2>1. Aloof(h)
    BY <1>0, <1>13 DEF CallFails, ErrorAcked, Aloof, Asking, Querying, Talking, TypeOK, HandlersOK
  <2> QED
    BY <2>1
<1>14. CASE Stored(h)
  <2>1. FinishAndStartEpoch(h, ep[h]) /\ pc[h] = "store" /\ UNCHANGED <<rpc, scheduled, localVars>>
    BY <1>14 DEF Stored, At
  <2>2. active_epoch_index' \in EpochIndices
    BY <1>0, <2>1, FinishTyped
  <2>3. rpc[h] = "FinishEpoch"
    BY <2>1 DEF EpochsInPlace, StoresInPlace
  <2>4. Advances(h)
    BY <1>0, <2>1, <2>2, <2>3 DEF FinishAndStartEpoch, ClearEpoch, Advances, TypeOK, HandlersOK
  <2> QED
    BY <2>4
<1>15. CASE Acked(h)
  <2>1. Leaves(h)
    BY <1>0, <1>15 DEF Acked, Leaves, TypeOK, HandlersOK
  <2> QED
    BY <2>1
<1>16. CASE UseAfterFree(h)
  BY <1>16 DEF UseAfterFree, queryState
<1> HIDE DEF Goal
<1> QED
  BY <1>1, <1>2, <1>3, <1>4, <1>5, <1>6, <1>7, <1>8, <1>9, <1>10, <1>11, <1>12, <1>13, <1>14,
      <1>15, <1>16 DEF Request, Step

-----------------------------------------------------------------------------
(* Every step keeps the queries in place *)

\* A handler that asks, or has a coroutine to resume, is not an AdvanceState.
LEMMA AskersAreOther ==
    ASSUME LabelsMatch, Handover, NEW h \in Handlers
    PROVE  /\ Asking(h) => Other(h)
           /\ Owes(h) => Other(h)
           /\ Parked(h) => Processing(h)
  BY DEF LabelsMatch, Handover, QueryInPlace, Asking, Owes, Other, Live, Querying, Parked,
      Processing, Talking

\* If nobody has registered, nobody asks.
LEMMA NobodyAsks ==
    ASSUME TypeOK, Handover, pending_query[active_epoch_index] = None, NEW h \in Handlers
    PROVE  ~Asking(h)
<1>1. scheduled[h] \in Nat
  BY DEF TypeOK, LocalsOK
<1>2. CASE pc[h] = "query"
  <2>1. Waits(h) \/ Called(h)
    BY <1>1, <1>2 DEF Waits, Called
  <2> QED
    BY <2>1, ConstantsAssumption DEF Handover, QueryInPlace, Parked
<1>3. CASE Querying(h)
  BY <1>3, ConstantsAssumption DEF Handover, QueryInPlace, Owes
<1> QED
  BY <1>2, <1>3 DEF Asking

\* An AdvanceState that does not move is in place.
LEMMA StillInPlace ==
    ASSUME LabelsMatch, Handover, NEW h \in Handlers, OnlyMoves(h),
           NEW g \in Handlers \ {h}, ~Other(g)
    PROVE  QueryInPlace(g)'
<1>1. ~Asking(g) /\ ~Owes(g)
  BY AskersAreOther
<1>2. ~Asking(g)' /\ ~Owes(g)'
  BY <1>1 DEF OnlyMoves, Asking, Querying, Owes, Live
<1>3. pc'[g] = "idle" => resume_on_exit'[g] = None
  BY DEF OnlyMoves, Handover, QueryInPlace
<1> QED
  BY <1>2, <1>3 DEF QueryInPlace, Asking, Waits, Called

\* Handover is kept by a step that has nothing to do with queries.
LEMMA AloofKeepsQueries ==
    ASSUME Inv, Handover, NEW h \in Handlers, Arrives(h) \/ GoesOn(h), Aloof(h),
           pc[h] = "idle" => \A g \in Handlers : ~Other(g)
    PROVE  Handover'
<1>1. TypeOK /\ LabelsMatch /\ OnlyMoves(h)
  BY DEF Inv, Arrives, GoesOn
<1>2. \A g \in Handlers : Asking(g)' <=> Asking(g)
  BY <1>1 DEF Aloof, OnlyMoves, Asking, Querying
<1>3. ASSUME NEW g \in Handlers, Asking(g)
      PROVE  pending_inputs'[active_epoch_index] = pending_inputs[active_epoch_index]
  BY <1>1, <1>3, NobodyAsks, AskersAreOther DEF Aloof
<1>4. \A g \in Handlers : /\ Waits(g)' <=> Waits(g)
                          /\ Called(g)' <=> Called(g)
                          /\ Querying(g)' <=> Querying(g)
                          /\ Asking(g) => ep'[g] = ep[g]
  BY <1>1, <1>2 DEF Waits, Called, Aloof, OnlyMoves, GoesOn, Arrives, Asking, Querying, Talking
<1>5. \A p : Parked(p)' <=> Parked(p)
  BY <1>1 DEF Aloof, OnlyMoves, Parked
<1>6. \A g \in Handlers : Owes(g)' => Owes(g) /\ rpc'[g] = rpc[g]
  BY <1>1 DEF Aloof, OnlyMoves, GoesOn, Arrives, Owes, Live, Handover, QueryInPlace
<1>7. \A g \in Handlers : Querying(g) => (Owes(g)' <=> Owes(g))
  BY <1>4, <1>6 DEF Aloof, OnlyMoves, Owes, Live, Querying, Talking
<1>8. ASSUME NEW g \in Handlers PROVE QueryInPlace(g)'
  <2>1. QueryInPlace(g)
    BY DEF Handover
  <2>2. UNCHANGED <<active_epoch_index, resume_on_exit>>
        /\ pending_query'[active_epoch_index] = pending_query[active_epoch_index]
    BY DEF Aloof
  <2>3. pc'[g] = "idle" => pc[g] = "idle"
    BY <1>1 DEF OnlyMoves, GoesOn, Arrives
  <2>4. (Waits(g) => Asking(g)) /\ (Querying(g) => Asking(g))
    BY DEF Waits, Asking
  <2> QED
    BY <1>2, <1>3, <1>4, <1>5, <1>6, <1>7, <2>1, <2>2, <2>3, <2>4 DEF QueryInPlace
<1>9. \A g \in Handlers : TagsInPlace(g)'
  BY <1>1 DEF Handover, TagsInPlace, Aloof, OnlyMoves
<1> QED
  BY <1>2, <1>8, <1>9 DEF Handover, Aloof

\* Handover is kept when InspectState starts its query or begins to wait.
LEMMA AskKeepsQueries ==
    ASSUME Inv, Handover, NEW h \in Handlers, OnlyMoves(h), Asks(h),
           \A g \in Handlers : ~Other(g)
    PROVE  Handover'
<1>1. TypeOK /\ LabelsMatch
  BY DEF Inv
<1>2. active_epoch_index \in EpochIndices /\ scheduled[h] \in Nat
  BY <1>1 DEF TypeOK, SessionOK, LocalsOK
<1>3. scheduled[h] = 0 /\ resume_on_exit[h] = None
  BY <1>2 DEF Handover, TagsInPlace, QueryInPlace, Asks
<1>4. PICK q \in {h, Null, None} :
        /\ pending_query'[active_epoch_index] = q
        /\ pc'[h] = "query" => q = h /\ pending_inputs[active_epoch_index] # <<>>
        /\ pc'[h] = "snapshot" => q = Null /\ pending_inputs[active_epoch_index] = <<>>
        /\ pc'[h] \notin {"query", "snapshot"} => pc'[h] = "ack" /\ q = None
  BY <1>1, <1>2 DEF Asks, TypeOK, EpochsOK
<1>5. QueryInPlace(h)'
  BY <1>3, <1>4 DEF Asks, QueryInPlace, Asking, Waits, Called, Querying, Owes, Live, Talking
<1>6. \A g \in Handlers \ {h} : QueryInPlace(g)'
  BY <1>1, StillInPlace
<1>7. \A g \in Handlers : TagsInPlace(g)'
  BY <1>3 DEF Handover, TagsInPlace, Asks, OnlyMoves
<1>8. pending_query'[active_epoch_index] # None => Asking(h)'
  BY <1>4 DEF Asks, Asking, Querying, Talking
<1> QED
  BY <1>5, <1>6, <1>7, <1>8 DEF Handover, Asks

\* Handover is kept when the session goes on to a new epoch, which has no query.
LEMMA AdvanceKeepsQueries ==
    ASSUME Inv, Handover, NEW h \in Handlers, Arrives(h) \/ GoesOn(h), Advances(h),
           \A g \in Handlers \ {h} : ~Other(g)
    PROVE  Handover'
<1>1. TypeOK /\ LabelsMatch /\ OnlyMoves(h)
  BY DEF Inv, Arrives, GoesOn
<1>2. pending_query'[active_epoch_index'] = None
  BY <1>1 DEF Advances, TypeOK, EpochsOK
<1>3. ~Asking(h)' /\ ~Owes(h)' /\ pc'[h] = "ack"
  BY DEF Advances, Asking, Querying, Talking, Owes, Handover, QueryInPlace, Live, Arrives,
      GoesOn
<1>4. QueryInPlace(h)'
  BY <1>3 DEF QueryInPlace, Asking, Waits, Called
<1>5. \A g \in Handlers \ {h} : QueryInPlace(g)'
  BY <1>1, StillInPlace
<1>6. \A g \in Handlers : TagsInPlace(g)'
  BY <1>1 DEF Handover, TagsInPlace, Advances, OnlyMoves
<1> QED
  BY <1>2, <1>4, <1>5, <1>6 DEF Handover, Advances

\* Handover is kept when process_pending_inputs is resumed after a query.
LEMMA UnparkKeepsQueries ==
    ASSUME Inv, Handover, NEW h \in Handlers, GoesOn(h), Unparks(h)
    PROVE  Handover'
<1>1. TypeOK /\ LabelsMatch /\ OnlyMoves(h)
  BY DEF Inv, GoesOn
<1>2. scheduled[h] = 1 /\ scheduled'[h] = 0
      /\ \A c \in (Handlers \cup {Null}) \ {h} : scheduled'[c] = scheduled[c]
  BY <1>1 DEF Unparks, Resume, Handover, TagsInPlace, TypeOK, LocalsOK
<1>3. ~Owes(h) /\ ~Owes(h)' /\ ~Asking(h) /\ ~Asking(h)'
  BY <1>1 DEF Unparks, GoesOn, Handover, QueryInPlace, Owes, Live, Asking, Querying, Talking
<1>4. \A p : Parked(p)' <=> Parked(p)
  BY <1>1, <1>2 DEF Parked, Unparks, OnlyMoves
<1>5. ASSUME NEW g \in Handlers \ {h} PROVE QueryInPlace(g)'
  <2>1. QueryInPlace(g)
    BY DEF Handover
  <2>2. /\ Asking(g)' <=> Asking(g)
        /\ Waits(g)' <=> Waits(g)
        /\ Called(g)' <=> Called(g)
        /\ Querying(g)' <=> Querying(g)
        /\ Owes(g)' <=> Owes(g)
        /\ UNCHANGED <<pc[g], rpc[g], ep[g], resume_on_exit[g]>>
    BY <1>1, <1>2 DEF OnlyMoves, Asking, Waits, Called, Querying, Owes, Live
  <2> QED
    BY <1>4, <2>1, <2>2 DEF QueryInPlace, Unparks
<1>6. QueryInPlace(h)'
  BY <1>3 DEF QueryInPlace, Asking, Waits, Called, GoesOn
<1>7. \A g \in Handlers : TagsInPlace(g)'
  BY <1>1, <1>2 DEF Handover, TagsInPlace, OnlyMoves
<1>8. \A g \in Handlers \ {h} : Asking(g)' <=> Asking(g)
  BY <1>1 DEF OnlyMoves, Asking, Querying
<1> QED
  BY <1>2, <1>3, <1>5, <1>6, <1>7, <1>8, ConstantsAssumption DEF Handover, Unparks

\* Handover is kept when a query that was called starts, with its caller to resume.
LEMMA StartKeepsQueries ==
    ASSUME Inv, Handover, NEW h \in Handlers, GoesOn(h), Starts(h),
           \A g \in Handlers \ {h} : ~Other(g)
    PROVE  Handover'
<1>1. TypeOK /\ LabelsMatch /\ OnlyMoves(h)
  BY DEF Inv, GoesOn
<1> DEFINE p == pending_query[active_epoch_index]
<1>2. Called(h) /\ ep[h] = active_epoch_index /\ ep[h] \in EpochIndices
  BY <1>1 DEF Starts, Resume, Called, Handover, QueryInPlace, Asking, TypeOK, SessionOK
<1>3. Parked(p) /\ p # h /\ p \notin {None, Null}
  BY <1>2, ConstantsAssumption DEF Handover, QueryInPlace, Parked, Called
<1>4. scheduled[h] = 1 /\ scheduled'[h] = 0
      /\ \A c \in (Handlers \cup {Null}) \ {h} : scheduled'[c] = scheduled[c]
  BY <1>1 DEF Starts, Resume, Handover, TagsInPlace, TypeOK, LocalsOK
<1>5. /\ resume_on_exit'[h] = p
      /\ pending_query'[active_epoch_index] = IF pc'[h] = "ack" THEN None ELSE p
      /\ pc'[h] \in {"snapshot", "ack"} /\ rpc'[h] = "InspectState" /\ ep'[h] = ep[h]
      /\ active_epoch_index' = active_epoch_index
  BY <1>1, <1>2 DEF Starts, TypeOK, EpochsOK, LocalsOK, GoesOn, LabelsMatch
<1>6. pc'[p] = "handoff" /\ scheduled'[p] = 0 /\ p \in Handlers
  BY <1>1, <1>3, <1>4 DEF Parked, OnlyMoves
<1>7. ASSUME NEW q, q = p PROVE Parked(q)'
  BY <1>6, <1>7 DEF Parked
<1> HIDE DEF p
<1>8. QueryInPlace(h)'
  BY <1>2, <1>3, <1>5, <1>7 DEF QueryInPlace, Asking, Waits, Called, Querying, Owes, Live, Talking
<1>9. \A g \in Handlers \ {h} : QueryInPlace(g)'
  BY <1>1, StillInPlace
<1>10. \A g \in Handlers : TagsInPlace(g)'
  BY <1>1, <1>4 DEF Handover, TagsInPlace, OnlyMoves
<1>11. pending_query'[active_epoch_index'] # None => Asking(h)'
  BY <1>5 DEF Asking, Querying, Talking
<1>12. scheduled'[Null] = 0
  BY <1>4, ConstantsAssumption DEF Handover
<1> QED
  BY <1>8, <1>9, <1>10, <1>11, <1>12 DEF Handover

\* A query that process_pending_inputs finds waits for it.
LEMMA FoundQueryWaits ==
    ASSUME Inv, EpochsInPlace, Handover, NEW h \in Handlers, Working(h),
           pending_query[active_epoch_index] # None
    PROVE  \E g \in Handlers \ {h} : Waits(g) /\ pending_query[active_epoch_index] = g
<1>1. TypeOK /\ LabelsMatch /\ ProcessingExclusive
  BY DEF Inv
<1>2. ep[h] = active_epoch_index /\ pending_inputs[active_epoch_index] # <<>>
  BY <1>1, WorkIsActive DEF EpochsInPlace, WorkersInPlace
<1>3. \A p : ~Parked(p)
  BY <1>1 DEF Parked, LabelsMatch, ProcessingExclusive, Processing, Working
<1>4. PICK g \in Handlers : Asking(g)
  BY DEF Handover
<1>5. ~Querying(g) /\ ~Called(g)
  BY <1>2, <1>3 DEF Handover, QueryInPlace
<1>6. scheduled[g] \in Nat
  BY <1>1 DEF TypeOK, LocalsOK
<1>7. Waits(g)
  BY <1>4, <1>5, <1>6 DEF Asking, Waits, Called
<1>8. g # h
  BY <1>7 DEF Waits, Working, Processing, Talking
<1> QED
  BY <1>7, <1>8 DEF Handover, QueryInPlace

\* Handover is kept when process_pending_inputs calls the query that waits: it was in
\* pending_query, its caller takes its place, and it is the only query there is.
LEMMA CallKeepsQueries ==
    ASSUME Inv, EpochsInPlace, Handover, NEW h \in Handlers, GoesOn(h), Calls(h),
           \A f, g \in Handlers : Other(f) /\ Other(g) => f = g
    PROVE  Handover'
<1>1. TypeOK /\ LabelsMatch /\ ProcessingExclusive /\ OnlyMoves(h)
  BY DEF Inv, GoesOn
<1>2. ep[h] = active_epoch_index /\ ep[h] \in EpochIndices
  BY <1>1, WorkIsActive DEF Calls
<1>3. PICK g \in Handlers \ {h} : Waits(g) /\ pending_query[active_epoch_index] = g
  BY <1>2, FoundQueryWaits DEF Calls
<1>4. scheduled'[g] = 1
      /\ \A c \in (Handlers \cup {Null}) \ {g} : scheduled'[c] = scheduled[c]
  BY <1>1, <1>2, <1>3 DEF Calls, Schedule, Waits, TypeOK, LocalsOK
<1>5. /\ pending_query'[active_epoch_index] = h /\ pc'[h] = "handoff"
      /\ UNCHANGED <<active_epoch_index, rpc, ep, resume_on_exit>>
      /\ rpc[h] = "AdvanceState" /\ pc[h] \in Talking
  BY <1>1, <1>2 DEF Calls, GoesOn, Working, Processing, TypeOK, EpochsOK
<1>6. scheduled[h] = 0
  <2>1. scheduled[h] \in Nat
    BY <1>1 DEF TypeOK, LocalsOK
  <2> QED
    BY <1>5, <2>1 DEF Handover, TagsInPlace, Talking
<1>7. ASSUME NEW q, q = h PROVE Parked(q)'
  BY <1>3, <1>4, <1>5, <1>6, <1>7 DEF Parked
<1>8. Asking(g) /\ Other(g) /\ pc[g] = "query" /\ pc'[g] = "query"
  BY <1>1, <1>3, AskersAreOther DEF Asking, Waits, OnlyMoves
<1>9. \A p : ~Parked(p)
  BY <1>1 DEF Parked, LabelsMatch, ProcessingExclusive, Processing, Working, Calls
<1>10. \A f \in Handlers : ~Owes(f) /\ ~Owes(f)'
  BY <1>1, <1>5, <1>9 DEF Handover, QueryInPlace, Owes, Live, OnlyMoves, Talking
<1>11. QueryInPlace(g)'
  <2>1. ep[g] = active_epoch_index
    BY <1>8 DEF Handover, QueryInPlace
  <2>2. ~Querying(g)' /\ ~Waits(g)'
    BY <1>4, <1>8 DEF Querying, Talking, Waits
  <2> QED
    BY <1>5, <1>7, <1>8, <1>10, <2>1, <2>2 DEF QueryInPlace
<1>12. ~Other(h)
  BY <1>5 DEF Other
<1>13. \A f \in Handlers \ {g, h} : QueryInPlace(f)'
  BY <1>1, <1>8, StillInPlace
<1>14. QueryInPlace(h)'
  BY <1>5, <1>10 DEF QueryInPlace, Asking, Waits, Called, Querying, Talking
<1>15. \A f \in Handlers : TagsInPlace(f)'
  BY <1>1, <1>4, <1>6, <1>8 DEF Handover, TagsInPlace, OnlyMoves
<1>16. Asking(g)' /\ scheduled'[Null] = 0
  BY <1>4, <1>8, ConstantsAssumption DEF Asking, Handover
<1> QED
  BY <1>11, <1>13, <1>14, <1>15, <1>16 DEF Handover

\* Handover is kept when a query is answered and pending_query is reset.
LEMMA AnswerKeepsQueries ==
    ASSUME Inv, Handover, NEW h \in Handlers, GoesOn(h), Answers(h),
           \A g \in Handlers \ {h} : ~Other(g)
    PROVE  Handover'
<1>1. TypeOK /\ LabelsMatch /\ OnlyMoves(h)
  BY DEF Inv, GoesOn
<1>2. ep[h] = active_epoch_index /\ ep[h] \in EpochIndices
  BY <1>1 DEF Answers, Handover, QueryInPlace, Asking, TypeOK, SessionOK
<1>3. pending_query'[active_epoch_index'] = None
  BY <1>1, <1>2 DEF Answers, TypeOK, EpochsOK
<1>4. ~Asking(h)' /\ (Owes(h)' => Owes(h)) /\ UNCHANGED <<rpc, resume_on_exit>>
  BY DEF Answers, GoesOn, Asking, Querying, Talking, Owes
<1>5. \A p : Parked(p)' <=> Parked(p)
  BY <1>1 DEF Answers, Querying, Talking, OnlyMoves, Parked
<1>6. QueryInPlace(h)'
  BY <1>4, <1>5 DEF Handover, QueryInPlace, Asking, Waits, Called, GoesOn
<1>7. \A g \in Handlers \ {h} : QueryInPlace(g)'
  BY <1>1, StillInPlace
<1>8. \A g \in Handlers : TagsInPlace(g)'
  BY <1>1 DEF Handover, TagsInPlace, Answers, Querying, Talking, OnlyMoves
<1> QED
  BY <1>3, <1>6, <1>7, <1>8 DEF Handover, Answers

\* Handover is kept when InspectState ends and resumes the coroutine it owes this to,
\* which is parked and no other query is about to call.
LEMMA LeaveKeepsQueries ==
    ASSUME Inv, Handover, NEW h \in Handlers, GoesOn(h), Leaves(h),
           \A f, g \in Handlers : Other(f) /\ Other(g) => f = g
    PROVE  Handover'
<1>1. TypeOK /\ LabelsMatch /\ OnlyMoves(h)
  BY DEF Inv, GoesOn
<1>2. CASE ~Owes(h)
  <2>1. UNCHANGED scheduled
    BY <1>2 DEF Leaves, UnwindInspectState, Owes, Live
  <2>2. Aloof(h)
    BY <2>1 DEF Leaves, Aloof, Asking, Querying, Talking
  <2> QED
    BY <2>2, AloofKeepsQueries DEF Leaves
<1>3. CASE Owes(h)
  <2> DEFINE p == resume_on_exit[h]
  <2>1. Parked(p) /\ p # h /\ Schedule(p)
    BY <1>3 DEF Handover, QueryInPlace, Parked, Leaves, UnwindInspectState, Owes
  <2>2. p \in Handlers /\ scheduled'[p] = 1 /\ pc'[p] = "handoff"
        /\ \A c \in (Handlers \cup {Null}) \ {p} : scheduled'[c] = scheduled[c]
    BY <1>1, <2>1 DEF Schedule, Parked, TypeOK, LocalsOK, OnlyMoves
  <2> HIDE DEF p
  <2>3. \A g \in Handlers \ {h} : ~Other(g)
    BY <1>1, <1>3, AskersAreOther
  <2>4. ~Asking(h) /\ ~Asking(h)' /\ ~Owes(h)'
    BY DEF Leaves, Asking, Querying, Talking, Owes, Live
  <2>5. pending_query[active_epoch_index] = None
    BY <1>1, <2>3, <2>4, AskersAreOther DEF Handover
  <2>6. QueryInPlace(h)'
    BY <2>4 DEF QueryInPlace, Asking, Waits, Called, Leaves
  <2>7. \A g \in Handlers \ {h} : QueryInPlace(g)'
    BY <1>1, <2>3, StillInPlace
  <2>8. \A g \in Handlers : TagsInPlace(g)'
    BY <1>1, <2>2 DEF Handover, TagsInPlace, Leaves, OnlyMoves
  <2>9. scheduled'[Null] = 0
    BY <2>2, ConstantsAssumption DEF Handover
  <2> QED
    BY <2>5, <2>6, <2>7, <2>8, <2>9 DEF Handover, Leaves
<1> QED
  BY <1>2, <1>3

\* The session stays ended once it was, and tainted.
LEMMA EndsForGood ==
    ASSUME NEW h \in Handlers, Request(h) \/ Step(h)
    PROVE  (exists' => exists) /\ (tainted => tainted')
<1> USE DEF lockVars, countVars, epochVars, machineVars, localVars, Refuse
<1>1. CASE \/ \E e \in EpochIndices, b \in BOOLEAN : AdvanceState(h, e, b)
           \/ \E b \in BOOLEAN : InspectState(h, b)
           \/ \E e \in EpochIndices, b, store \in BOOLEAN : FinishEpoch(h, e, b, store)
  <2>1. UNCHANGED <<exists, tainted>>
    BY <1>1 DEF AdvanceState, InspectState, FinishEpoch
  <2> QED
    BY <2>1
<1>5. CASE \/ \E e \in EpochIndices : DeleteEpoch(h, e)
           \/ EndSession(h)
           \/ \E r \in {"GetSessionStatus", "GetEpochStatus"}, e \in EpochIndices :
                    GetStatus(h, r, e)
  <2>1. UNCHANGED <<exists, tainted>>
    BY <1>5 DEF DeleteEpoch, EndSession, GetStatus
  <2> QED
    BY <2>1
<1>2. CASE \/ AdvanceStateAcked(h) \/ ResumeProcessing(h) \/ ResumeTainting(h)
           \/ \E b \in BOOLEAN : ResumeQuery(h, b)
           \/ InputRun(h) \/ InputAccepted(h) \/ InputSkipped(h) \/ MachineFails(h)
  BY <1>2 DEF AdvanceStateAcked, ResumeProcessing, ResumeTainting, ResumeQuery, InputRun,
      InputAccepted, InputSkipped, MachineFails, TaintAdvanceState
<1>3. CASE \/ SnapshotTaken(h) \/ SnapshotCheckedIn(h) \/ RolledBack(h) \/ QueryRun(h)
           \/ VouchersProved(h) \/ NoticesProved(h) \/ InputRolledBack(h) \/ QueryRolledBack(h)
  BY <1>3 DEF SnapshotTaken, SnapshotCheckedIn, RolledBack, QueryRun, VouchersProved,
      NoticesProved, InputRolledBack, QueryRolledBack, AwaitCheckin
<1>4. CASE \/ CallFails(h) \/ Stored(h) \/ ErrorAcked(h) \/ UseAfterFree(h)
  BY <1>4 DEF CallFails, Stored, ErrorAcked, UseAfterFree
<1>6. CASE Acked(h) \/ ShutDown(h)
  <2>1. tainted' = tainted /\ (exists' = exists \/ exists' = FALSE)
    BY <1>6 DEF Acked, ShutDown
  <2> QED
    BY <2>1
<1> QED
  BY <1>1, <1>2, <1>3, <1>4, <1>5, <1>6 DEF Step, Request

\* Hence every step keeps the queries in place.
LEMMA QueriesStayInPlace ==
    ASSUME Inv, Overlapping, EpochsInPlace, Handover, NEW h \in Handlers,
           Request(h) \/ Step(h), ~tainted', exists',
           "queue" \in clients', clients' = {d \in clients : KeepsTo(d)}
    PROVE  Handover'
<1>1. Arrives(h) \/ GoesOn(h)
  BY RequestArrives, StepGoesOn DEF Inv
<1>2. OnlyMoves(h)
  BY <1>1 DEF Arrives, GoesOn
<1>3. pc[h] = "idle" => Arrives(h) /\ \A g \in Handlers : ~Other(g)
  BY <1>1, FindsAdvances DEF GoesOn, Live
<1>4. \A f, g \in Handlers : Other(f) /\ Other(g) => f = g
  BY DEF Overlapping, Other
<1>5. pc[h] # "idle" => GoesOn(h)
  BY <1>1 DEF Arrives
<1>6. CASE UNCHANGED queryState
  BY <1>6 DEF queryState, Handover, QueryInPlace, TagsInPlace, Asking, Querying, Waits, Called,
      Owes, Parked, Live
<1>7. CASE Aloof(h)
  BY <1>1, <1>3, <1>7, AloofKeepsQueries
<1>8. CASE Asks(h)
  BY <1>2, <1>3, <1>8, AskKeepsQueries DEF Asks
<1>9. CASE Advances(h)
  <2>1. Other(h)'
    BY <1>9 DEF Advances, Other, Live
  <2>2. pc[h] = "store" => Other(h)
    BY <1>5, <2>1 DEF GoesOn, Other
  <2>3. \A g \in Handlers \ {h} : ~Other(g)
    BY <1>3, <1>4, <1>9, <2>2 DEF Advances
  <2> QED
    BY <1>1, <1>9, <2>3, AdvanceKeepsQueries
<1>10. CASE Unparks(h)
  BY <1>5, <1>10, UnparkKeepsQueries DEF Unparks
<1>11. CASE Starts(h)
  BY <1>4, <1>5, <1>11, StartKeepsQueries, AskersAreOther DEF Starts, Inv, Asking
<1>12. CASE Calls(h)
  BY <1>4, <1>5, <1>12, CallKeepsQueries DEF Calls, Working, Processing, Talking
<1>13. CASE Answers(h)
  BY <1>4, <1>5, <1>13, AnswerKeepsQueries, AskersAreOther DEF Answers, Inv, Asking, Querying,
      Talking
<1>14. CASE Leaves(h)
  BY <1>4, <1>5, <1>14, LeaveKeepsQueries DEF Leaves
<1> QED
  BY <1>6, <1>7, <1>8, <1>9, <1>10, <1>11, <1>12, <1>13, <1>14, QuerySteps

-----------------------------------------------------------------------------
(* What a step does to the machine *)

\* h leaves the machine alone, and the state it is in as well.
Spares(h) ==
    /\ UNCHANGED <<machineVars, committed>>
    /\ most_recent_machine_hash'[active_epoch_index']
            = most_recent_machine_hash[active_epoch_index]
    /\ pc[h] \in Dirty => pc'[h] \in Dirty
    /\ pc'[h] \in Snapped => pc[h] \in Snapped
    /\ pc'[h] \in Fed => pc[h] \in Fed
    /\ \A g \in Handlers :
        pc'[g] \in Fed => Head(pending_inputs'[ep'[g]]) = Head(pending_inputs[ep[g]])

\* h works on the machine: it has the machine to itself.
Uses(h) ==
    /\ pc[h] \in Talking
    /\ active_epoch_index' = active_epoch_index
    /\ \/ /\ pc[h] = "snapshot" /\ pc'[h] = "snapshot_checkin"
          /\ snapshot' = machine
          /\ UNCHANGED <<machine, committed, most_recent_machine_hash>>
       \/ /\ pc[h] = "rollback" /\ pc'[h] = "rollback_checkin"
          /\ machine' = snapshot
          /\ UNCHANGED <<snapshot, committed, most_recent_machine_hash>>
       \/ /\ pc[h] = "run" /\ pc'[h] = "rollback"
          /\ UNCHANGED <<snapshot, committed, most_recent_machine_hash>>
       \/ /\ pc[h] = "run" /\ pc'[h] = "voucher_proof"
          /\ machine' = Append(machine, Head(pending_inputs[ep[h]]).id)
          /\ UNCHANGED <<snapshot, committed, most_recent_machine_hash, pending_inputs, ep>>
       \/ /\ pc[h] = "root_hash" /\ pc'[h] \in {"handoff", "snapshot", "done"}
          /\ ep[h] = active_epoch_index
          /\ most_recent_machine_hash' =
                [most_recent_machine_hash EXCEPT ![ep[h]] = machine]
          /\ committed' = Append(committed, Head(pending_inputs[ep[h]]).id)
          /\ UNCHANGED <<machine, snapshot>>

\* At most one handler talks to the machine server, whether about an input or a query.
LEMMA OneTalks ==
    ASSUME Inv, EpochsInPlace, Handover, NEW g \in Handlers, NEW h \in Handlers,
           pc[g] \in Talking, pc[h] \in Talking,
           Other(g) /\ Other(h) => g = h
    PROVE  g = h
<1>1. TypeOK /\ LabelsMatch /\ ProcessingExclusive
  BY DEF Inv
<1>2. \A f \in Handlers : pc[f] \in Talking => Working(f) \/ Querying(f)
  BY <1>1 DEF LabelsMatch, Working, Processing, Querying, Talking
<1>3. ASSUME NEW f \in Handlers, Working(f), NEW q \in Handlers, Querying(q) PROVE FALSE
  <2>1. ep[f] = active_epoch_index /\ pending_inputs[active_epoch_index] # <<>>
    BY <1>1, <1>3, WorkIsActive DEF EpochsInPlace, WorkersInPlace
  <2>2. \A p : ~Parked(p)
    BY <1>1, <1>3 DEF Parked, LabelsMatch, ProcessingExclusive, Processing, Working
  <2> QED
    BY <1>3, <2>1, <2>2 DEF Handover, QueryInPlace
<1>4. CASE Working(g) /\ Working(h)
  BY <1>1, <1>4 DEF ProcessingExclusive, Working
<1>5. CASE Querying(g) /\ Querying(h)
  BY <1>1, <1>5, AskersAreOther DEF Asking
<1> QED
  BY <1>2, <1>3, <1>4, <1>5

\* The front of the queue stays there when an input is added.
LEMMA FrontStays ==
    ASSUME NEW S, NEW s \in Seq(S), s # <<>>, NEW x
    PROVE  Head(Append(s, x)) = Head(s)
<1>1. Len(s) \in Nat /\ Len(s) # 0
  OBVIOUS
<1> QED
  BY <1>1

\* Unless the session is tainted or ended, a step spares the machine or uses it.
LEMMA MachineSteps ==
    ASSUME Inv, EpochsInPlace, Handover, NEW h \in Handlers, Request(h) \/ Step(h),
           OnlyMoves(h), ~tainted', exists',
           pc[h] = "idle" => \A g \in Handlers : ~Other(g),
           \A f, g \in Handlers : Other(f) /\ Other(g) => f = g
    PROVE  Spares(h) \/ Uses(h)
<1>0. /\ TypeOK /\ LabelsMatch
      /\ pc[h] \in Labels /\ rpc[h] \in RpcKinds /\ ep[h] \in EpochIndices
      /\ active_epoch_index \in EpochIndices
  BY DEF Inv, TypeOK, HandlersOK, SessionOK
<1> USE DEF lockVars, countVars, epochVars, machineVars, localVars
<1>a. \A g \in Handlers : pc[g] \in Fed => Working(g)
  BY <1>0 DEF LabelsMatch, Fed, Working, Processing, Talking
<1>b. \A g \in Handlers \ {h} : pc'[g] = pc[g] /\ ep'[g] = ep[g]
  BY DEF OnlyMoves
<1>c. pc[h] \in Talking => \A g \in Handlers \ {h} : pc[g] \notin Talking
  BY OneTalks
<1>1. ASSUME NEW e \in EpochIndices, NEW b \in BOOLEAN, AdvanceState(h, e, b)
      PROVE  Spares(h)
  <2>1. CASE AdvanceStateCode(e, b) # "OK"
    BY <1>0, <1>1, <2>1 DEF AdvanceState, Receive, Refuse, Spares, Dirty, Snapped, Fed, TypeOK,
        HandlersOK
  <2>2. CASE AdvanceStateCode(e, b) = "OK"
    <3>1. /\ pc[h] = "idle" /\ pc'[h] = "enqueued"
          /\ UNCHANGED <<machineVars, committed, most_recent_machine_hash, active_epoch_index>>
      BY <1>0, <1>1, <2>2 DEF AdvanceState, Receive, TypeOK, HandlersOK
    <3>2. ASSUME NEW g \in Handlers, pc'[g] \in Fed
          PROVE  Head(pending_inputs'[ep'[g]]) = Head(pending_inputs[ep[g]])
      <4>1. pc[g] \in Fed /\ ep'[g] = ep[g]
        BY <1>b, <3>1, <3>2 DEF Fed
      <4>2. pending_inputs[ep[g]] # <<>> /\ pending_inputs[ep[g]] \in Seq(Input)
        BY <1>0, <1>a, <4>1 DEF EpochsInPlace, WorkersInPlace, TypeOK, HandlersOK, LogsOK
      <4>3. CASE ep[g] # e
        <5>1. pending_inputs' =
                [pending_inputs EXCEPT ![e] =
                    Append(@, [id |-> h, input_index |-> CurrentInputIndex(e)])]
          BY <1>1, <2>2 DEF AdvanceState
        <5>2. ep[g] \in EpochIndices
          BY <1>0 DEF TypeOK, HandlersOK
        <5>3. pending_inputs'[ep[g]] = pending_inputs[ep[g]]
          BY <1>0, <4>3, <5>1, <5>2 DEF TypeOK, LogsOK
        <5> QED
          BY <4>1, <5>3
      <4>4. CASE ep[g] = e
        <5>1. pending_inputs'[e] =
                Append(pending_inputs[e], [id |-> h, input_index |-> CurrentInputIndex(e)])
          BY <1>0, <1>1, <2>2 DEF AdvanceState, TypeOK, LogsOK
        <5> QED
          BY <4>1, <4>2, <4>4, <5>1, FrontStays
      <4> QED
        BY <4>3, <4>4
    <3> QED
      BY <3>1, <3>2 DEF Spares, Dirty, Snapped, Fed
  <2> QED
    BY <2>1, <2>2
<1>2. ASSUME NEW b \in BOOLEAN, InspectState(h, b)
      PROVE  Spares(h)
  BY <1>0, <1>b, <1>2 DEF InspectState, ProcessPendingQuery, AnswerQuery, TriggerCheckin, Receive,
      Refuse, Spares, Dirty, Snapped, Fed, TypeOK, HandlersOK
<1>3. ASSUME NEW e \in EpochIndices, FinishAndStartEpoch(h, e), e = active_epoch_index,
             pending_inputs[e] = <<>>, UNCHANGED <<committed, machineVars>>,
             pc[h] \in {"idle", "store"}, \A g \in Handlers \ {h} : ~Other(g)
      PROVE  Spares(h)
  <2>1. \A g \in Handlers : ~Working(g)
    BY <1>0, <1>3, WorkIsActive DEF EpochsInPlace, WorkersInPlace
  <2>2. most_recent_machine_hash'[active_epoch_index'] = most_recent_machine_hash[e]
    BY <1>0, <1>3, FinishTyped DEF FinishAndStartEpoch, TypeOK, LogsOK
  <2>3. pc'[h] = "ack"
    BY <1>0, <1>3 DEF FinishAndStartEpoch, TypeOK, HandlersOK
  <2>4. \A g \in Handlers : pc'[g] \notin Fed
    BY <1>a, <1>b, <2>1, <2>3 DEF Fed
  <2> QED
    BY <1>3, <2>2, <2>3, <2>4 DEF Spares, Dirty, Snapped, Fed
<1>4. ASSUME NEW e \in EpochIndices, NEW b \in BOOLEAN,
             NEW store \in BOOLEAN, FinishEpoch(h, e, b, store)
      PROVE  Spares(h)
  <2>1. CASE FinishAndStartEpoch(h, e) /\ FinishEpochCode(e, b) = "OK"
    <3>1. e = active_epoch_index /\ pending_inputs[e] = <<>>
      BY <2>1 DEF FinishEpochCode, EpochsInPlace, OneActive
    <3>2. UNCHANGED <<committed, machineVars>> /\ pc[h] = "idle"
      BY <1>4, <2>1 DEF FinishEpoch, Receive
    <3> QED
      BY <1>3, <2>1, <3>1, <3>2
  <2>2. CASE ~(FinishAndStartEpoch(h, e) /\ FinishEpochCode(e, b) = "OK")
    BY <1>0, <1>b, <1>4, <2>2 DEF FinishEpoch, Receive, Refuse, Spares, Dirty, Snapped, Fed,
        TypeOK, HandlersOK
  <2> QED
    BY <2>1, <2>2
<1>5. ASSUME NEW e \in EpochIndices, DeleteEpoch(h, e)
      PROVE  Spares(h)
  <2>1. CASE DeleteEpochCode(e) # "OK"
    BY <1>0, <1>b, <1>5, <2>1 DEF DeleteEpoch, Receive, Refuse, Spares, Dirty, Snapped, Fed,
        TypeOK, HandlersOK
  <2>2. CASE DeleteEpochCode(e) = "OK"
    <3>1. /\ e # active_epoch_index /\ pc[h] = "idle" /\ pc'[h] = "ack"
          /\ UNCHANGED <<machineVars, committed, active_epoch_index, ep>>
          /\ most_recent_machine_hash'[active_epoch_index]
                = most_recent_machine_hash[active_epoch_index]
          /\ pending_inputs'[active_epoch_index] = pending_inputs[active_epoch_index]
      BY <1>0, <1>5, <2>2 DEF DeleteEpoch, DeleteEpochCode, ClearEpoch, Receive, TypeOK,
          HandlersOK, LogsOK
    <3>2. \A g \in Handlers : pc'[g] \in Fed => ep[g] = active_epoch_index
      BY <1>0, <1>a, <1>b, <3>1, WorkIsActive DEF Fed
    <3> QED
      BY <3>1, <3>2 DEF Spares, Dirty, Snapped, Fed
  <2> QED
    BY <2>1, <2>2
<1>6. CASE \/ EndSession(h)
           \/ \E r \in {"GetSessionStatus", "GetEpochStatus"}, e \in EpochIndices :
                    GetStatus(h, r, e)
  BY <1>0, <1>b, <1>6 DEF EndSession, GetStatus, Receive, Refuse, Spares, Dirty, Snapped, Fed,
      TypeOK, HandlersOK
<1>7. CASE AdvanceStateAcked(h) \/ ResumeProcessing(h)
  BY <1>0, <1>7 DEF AdvanceStateAcked, ResumeProcessing, At, TaintAdvanceState, ProcessNext, Return,
      TakeUpInput, TriggerCheckin, Spares, Dirty, Snapped, Fed, TypeOK, HandlersOK
<1>8. ASSUME NEW b \in BOOLEAN, ResumeQuery(h, b)
      PROVE  Spares(h)
  BY <1>0, <1>8 DEF ResumeQuery, At, ProcessPendingQuery, AnswerQuery, TriggerCheckin, Spares,
      Dirty, Snapped, Fed, TypeOK, HandlersOK
<1>9. CASE SnapshotCheckedIn(h) \/ VouchersProved(h) \/ NoticesProved(h)
  BY <1>0, <1>9 DEF SnapshotCheckedIn, CheckedIn, At, TriggerCheckin, VouchersProved,
        NoticesProved, Spares, Dirty, Snapped, Fed, TypeOK, HandlersOK
<1>10. CASE InputRolledBack(h) \/ QueryRolledBack(h)
  BY <1>0, <1>10 DEF CheckedIn, At, InputRolledBack, QueryRolledBack, AnswerQuery, Spares, Dirty,
      Snapped, Fed, TypeOK, HandlersOK
<1>11. CASE SnapshotTaken(h) \/ RolledBack(h)
  BY <1>0, <1>11 DEF SnapshotTaken, RolledBack, AwaitCheckin, At, Uses, Talking, TypeOK, HandlersOK
<1>12. CASE InputRun(h) \/ QueryRun(h)
  BY <1>0, <1>12 DEF InputRun, QueryRun, RunMachine, TaintAdvanceState, TriggerCheckin, At, Uses,
      Talking, TypeOK, HandlersOK
<1>13. CASE InputAccepted(h)
  <2>1. Working(h)
    BY <1>0, <1>13 DEF InputAccepted, At, LabelsMatch, Working, Processing, Talking
  <2>2. ep[h] = active_epoch_index
    BY <1>0, <2>1, WorkIsActive
  <2>3. pc'[h] \in {"handoff", "snapshot", "done"}
    BY <1>0, <1>13 DEF InputAccepted, CompleteInput, ServeQueryFirst, ProcessNext, Return,
      TakeUpInput, TriggerCheckin, TypeOK, HandlersOK
  <2> QED
    BY <1>13, <2>2, <2>3 DEF InputAccepted, At, Uses, Talking
<1>14. CASE InputSkipped(h)
  <2>1. /\ pc[h] = "check_hash" /\ pc'[h] \in {"handoff", "snapshot", "done"}
        /\ UNCHANGED <<active_epoch_index, most_recent_machine_hash, committed, machineVars>>
    BY <1>0, <1>14 DEF InputSkipped, At, TaintAdvanceState, CompleteInput, ServeQueryFirst,
        ProcessNext, Return, TakeUpInput, TriggerCheckin, TypeOK, HandlersOK
  <2>2. \A g \in Handlers : pc'[g] \notin Fed
    BY <1>b, <1>c, <2>1 DEF Fed, Talking
  <2> QED
    BY <2>1, <2>2 DEF Spares, Dirty, Snapped, Fed
<1>15. CASE MachineFails(h) \/ ResumeTainting(h) \/ ShutDown(h)
  BY <1>15 DEF MachineFails, TaintAdvanceState, ResumeTainting, Resume, ShutDown, Handover,
      TagsInPlace
<1>16. CASE CallFails(h) \/ ErrorAcked(h) \/ Acked(h)
  <2>1. /\ pc[h] \in {"store", "shutdown", "error", "ack"} /\ pc'[h] \in {"error", "done"}
        /\ UNCHANGED <<countVars, epochVars, machineVars, ep>>
    BY <1>0, <1>16 DEF CallFails, ErrorAcked, Acked, TypeOK, HandlersOK
  <2> QED
    BY <2>1 DEF Spares, Dirty, Snapped, Fed
<1>17. CASE Stored(h)
  <2>1. /\ FinishAndStartEpoch(h, ep[h]) /\ pc[h] = "store"
        /\ UNCHANGED <<committed, machineVars>>
    BY <1>17 DEF Stored, At
  <2>2. /\ rpc[h] = "FinishEpoch" /\ ep[h] = active_epoch_index /\ pending_inputs[ep[h]] = <<>>
    BY <2>1 DEF EpochsInPlace, StoresInPlace
  <2>3. \A g \in Handlers \ {h} : ~Other(g)
    BY <2>1, <2>2 DEF Other, Live
  <2> QED
    BY <1>0, <1>3, <2>1, <2>2, <2>3
<1>18. CASE UseAfterFree(h)
  BY <1>18 DEF UseAfterFree, Spares
<1> QED
  BY <1>1, <1>2, <1>4, <1>5, <1>6, <1>7, <1>8, <1>9, <1>10, <1>11, <1>12, <1>13, <1>14,
      <1>15, <1>16, <1>17, <1>18 DEF Request, Step

\* Hence every step keeps the machine in place.
LEMMA MachineStaysInPlace ==
    ASSUME Inv, Overlapping, EpochsInPlace, Handover, MachineInPlace, NEW h \in Handlers,
           Request(h) \/ Step(h), ~tainted', exists',
           "queue" \in clients', clients' = {d \in clients : KeepsTo(d)}
    PROVE  MachineInPlace'
<1>1. Arrives(h) \/ GoesOn(h)
  BY RequestArrives, StepGoesOn DEF Inv
<1>2. OnlyMoves(h)
  BY <1>1 DEF Arrives, GoesOn
<1>3. pc[h] = "idle" => \A g \in Handlers : ~Other(g)
  BY <1>1, FindsAdvances DEF GoesOn, Live
<1>4. \A f, g \in Handlers : Other(f) /\ Other(g) => f = g
  BY DEF Overlapping, Other
<1>5. \A g \in Handlers \ {h} : pc'[g] = pc[g] /\ ep'[g] = ep[g]
  BY <1>2 DEF OnlyMoves
<1>6. CASE Spares(h)
  <2>1. (\A g \in Handlers : pc'[g] \notin Dirty) => \A g \in Handlers : pc[g] \notin Dirty
    BY <1>5, <1>6 DEF Spares
  <2>2. ASSUME NEW g \in Handlers
        PROVE  /\ pc'[g] \in Snapped => pc[g] \in Snapped
               /\ pc'[g] \in Fed =>
                    /\ pc[g] \in Fed
                    /\ Head(pending_inputs'[ep'[g]]) = Head(pending_inputs[ep[g]])
    BY <1>5, <1>6 DEF Spares
  <2>3. /\ UNCHANGED <<machine, snapshot, committed>>
        /\ most_recent_machine_hash'[active_epoch_index']
            = most_recent_machine_hash[active_epoch_index]
    BY <1>6 DEF Spares, machineVars
  <2> QED
    BY <2>1, <2>2, <2>3 DEF MachineInPlace
<1>7. CASE Uses(h)
  <2>1. \A g \in Handlers \ {h} : pc'[g] \notin Talking /\ pc[g] \notin Talking
    BY <1>4, <1>5, <1>7, OneTalks DEF Uses
  <2>2. \A g \in Handlers \ {h} : pc'[g] \notin Snapped \cup Fed /\ pc[g] \notin Dirty
    BY <2>1 DEF Talking, Snapped, Fed, Dirty
  <2>3. pc[h] \notin Dirty => machine = committed
    BY <2>2 DEF MachineInPlace
  <2>4. /\ active_epoch_index \in EpochIndices
        /\ most_recent_machine_hash \in [EpochIndices -> Seq(Handlers)]
    BY DEF Inv, TypeOK, SessionOK, LogsOK
  <2> QED
    BY <1>7, <2>2, <2>3, <2>4 DEF Uses, MachineInPlace, Snapped, Fed, Dirty
<1> QED
  BY <1>2, <1>3, <1>4, <1>6, <1>7, MachineSteps

-----------------------------------------------------------------------------
(* Whatever clients send *)

\* Every step keeps AdvanceStates away from the labels of other handlers.
LEMMA OthersLabelsKept ==
    ASSUME TypeOK, LabelsMatch, OthersLabels, NEW h \in Handlers, Request(h) \/ Step(h)
    PROVE  OthersLabels'
<1>1. OnlyMoves(h)
  BY RequestArrives, StepGoesOn DEF Arrives, GoesOn
<1>2. /\ pc[h] \in Labels /\ rpc[h] \in RpcKinds
      /\ pc \in [Handlers -> Labels] /\ rpc \in [Handlers -> RpcKinds]
  BY DEF TypeOK, HandlersOK
<1> DEFINE Goal == pc'[h] \in {"ack", "query", "store", "shutdown"} => rpc'[h] # "AdvanceState"
<1> USE DEF lockVars, countVars, epochVars, machineVars, localVars, Receive, Refuse, AnswerQuery,
            TriggerCheckin, FinishAndStartEpoch
<1>3. ASSUME NEW e \in EpochIndices, NEW b \in BOOLEAN, AdvanceState(h, e, b) PROVE Goal
  BY <1>2, <1>3 DEF AdvanceState
<1>4. ASSUME NEW b \in BOOLEAN, InspectState(h, b) PROVE Goal
  BY <1>2, <1>4 DEF InspectState, ProcessPendingQuery
<1>5. ASSUME NEW e \in EpochIndices, NEW b \in BOOLEAN,
             NEW store \in BOOLEAN, FinishEpoch(h, e, b, store)
      PROVE  Goal
  BY <1>2, <1>5 DEF FinishEpoch
<1>6. ASSUME \/ EndSession(h) \/ \E e \in EpochIndices : DeleteEpoch(h, e)
             \/ \E r \in {"GetSessionStatus", "GetEpochStatus"}, e \in EpochIndices :
                      GetStatus(h, r, e)
      PROVE  Goal
  BY <1>2, <1>6 DEF EndSession, DeleteEpoch, GetStatus
<1>7. ASSUME AdvanceStateAcked(h) \/ ResumeProcessing(h) \/ InputAccepted(h) \/ InputSkipped(h)
      PROVE  Goal
  BY <1>2, <1>7 DEF AdvanceStateAcked, ResumeProcessing, InputAccepted, InputSkipped,
      TaintAdvanceState, CompleteInput, ServeQueryFirst, ProcessNext, Return, TakeUpInput
<1>8. ASSUME \/ SnapshotTaken(h) \/ SnapshotCheckedIn(h) \/ RolledBack(h) \/ InputRun(h)
             \/ QueryRun(h) \/ VouchersProved(h) \/ NoticesProved(h) \/ InputRolledBack(h)
             \/ MachineFails(h)
      PROVE  Goal
  BY <1>2, <1>8 DEF SnapshotTaken, SnapshotCheckedIn, RolledBack, AwaitCheckin, InputRun, QueryRun,
      VouchersProved, NoticesProved, InputRolledBack, MachineFails, TaintAdvanceState
<1>9. ASSUME QueryRolledBack(h) \/ \E b \in BOOLEAN : ResumeQuery(h, b)
      PROVE  Goal
  BY <1>2, <1>9 DEF QueryRolledBack, ResumeQuery, ProcessPendingQuery, At, LabelsMatch
<1>10. ASSUME Stored(h) \/ ShutDown(h)
      PROVE  Goal
  BY <1>2, <1>10 DEF Stored, ShutDown, At, OthersLabels
<1>11. ASSUME CallFails(h) \/ ErrorAcked(h) \/ UseAfterFree(h)
      PROVE  Goal
  BY <1>2, <1>11 DEF CallFails, ErrorAcked, UseAfterFree, OthersLabels
<1>12. ASSUME Acked(h) \/ ResumeTainting(h)
      PROVE  Goal
  <2>1. pc' = [pc EXCEPT ![h] = "done"]
    BY <1>12 DEF Acked, ResumeTainting
  <2> QED
    BY <1>2, <2>1
<1>13. Goal
  <2> HIDE DEF Goal
  <2> QED
    BY <1>3, <1>4, <1>5, <1>6, <1>7, <1>8, <1>9, <1>10, <1>11, <1>12 DEF Request, Step
<1> QED
  BY <1>1, <1>13 DEF OthersLabels, OnlyMoves

\* Every step keeps the registration for a check-in in place: h registers itself,
\* it leaves the wait when it is checked in, or it is not at the wait.
LEMMA CheckinsKept ==
    ASSUME TypeOK, CheckinsInPlace, NEW h \in Handlers, Request(h) \/ Step(h)
    PROVE  CheckinsInPlace'
<1>1. OnlyMoves(h)
  BY RequestArrives, StepGoesOn DEF Arrives, GoesOn
<1>2. pc[h] \in Labels /\ pc \in [Handlers -> Labels]
  BY DEF TypeOK, HandlersOK
<1> DEFINE Wait == {"snapshot_checkin", "rollback_checkin"}
           Goal == \/ sessions_waiting_checkin' = None
                   \/ sessions_waiting_checkin' = h /\ pc'[h] \in Wait
                   \/ /\ UNCHANGED sessions_waiting_checkin
                      /\ pc'[h] = pc[h] \/ pc[h] \notin Wait
<1> USE DEF lockVars, countVars, epochVars, machineVars, localVars, Receive, Refuse
<1>3. ASSUME \/ \E e \in EpochIndices, b \in BOOLEAN : AdvanceState(h, e, b)
             \/ \E b \in BOOLEAN : InspectState(h, b)
             \/ \E e \in EpochIndices, b, store \in BOOLEAN : FinishEpoch(h, e, b, store)
      PROVE  Goal
  <2>1. UNCHANGED sessions_waiting_checkin /\ pc[h] = "idle"
    BY <1>3 DEF AdvanceState, InspectState, FinishEpoch
  <2> QED
    BY <2>1
<1>4. ASSUME \/ \E e \in EpochIndices : DeleteEpoch(h, e)
             \/ EndSession(h)
             \/ \E r \in {"GetSessionStatus", "GetEpochStatus"}, e \in EpochIndices :
                      GetStatus(h, r, e)
      PROVE  Goal
  <2>1. UNCHANGED sessions_waiting_checkin /\ pc[h] = "idle"
    BY <1>4 DEF DeleteEpoch, EndSession, GetStatus
  <2> QED
    BY <2>1
<1>5. ASSUME \/ AdvanceStateAcked(h) \/ ResumeProcessing(h) \/ ResumeTainting(h)
             \/ \E b \in BOOLEAN : ResumeQuery(h, b)
             \/ InputRun(h) \/ InputAccepted(h) \/ InputSkipped(h)
      PROVE  Goal
  BY <1>5 DEF AdvanceStateAcked, ResumeProcessing, ResumeTainting, ResumeQuery, InputRun,
      RunMachine, InputAccepted, InputSkipped, At
<1>6. ASSUME \/ SnapshotCheckedIn(h) \/ InputRolledBack(h) \/ QueryRolledBack(h) \/ MachineFails(h)
      PROVE  Goal
  BY <1>6 DEF SnapshotCheckedIn, InputRolledBack, QueryRolledBack, MachineFails, CheckedIn
<1>7. ASSUME SnapshotTaken(h) \/ RolledBack(h)
      PROVE  Goal
  BY <1>2, <1>7 DEF SnapshotTaken, RolledBack, AwaitCheckin
<1>8. ASSUME QueryRun(h) \/ VouchersProved(h) \/ NoticesProved(h)
      PROVE  Goal
  BY <1>8 DEF QueryRun, RunMachine, VouchersProved, NoticesProved, At
<1>9. ASSUME CallFails(h) \/ Stored(h) \/ ShutDown(h) \/ ErrorAcked(h) \/ UseAfterFree(h)
      PROVE  Goal
  BY <1>9 DEF CallFails, Stored, ShutDown, ErrorAcked, UseAfterFree, At
<1>10. ASSUME Acked(h)
      PROVE  Goal
  <2>1. UNCHANGED sessions_waiting_checkin /\ pc[h] = "ack"
    BY <1>10 DEF Acked
  <2> QED
    BY <2>1
<1>11. Goal
  <2> HIDE DEF Goal
  <2> QED
    BY <1>3, <1>4, <1>5, <1>6, <1>7, <1>8, <1>9, <1>10 DEF Request, Step
<1> QED
  BY <1>1, <1>11 DEF CheckinsInPlace, OnlyMoves

-----------------------------------------------------------------------------
(* Queries that wait *)

\* What happens when the session becomes tainted or ends: the handler that talks to
\* the machine fails, an AdvanceState fails before it has begun, or EndSession is
\* through.
Ends(h) ==
    \/ /\ Live(h) /\ rpc[h] = "AdvanceState" /\ exists /\ UNCHANGED <<exists, resume_on_exit>>
       /\ pc[h] \in Talking \cup {"enqueued"}
       /\ TaintAdvanceState(h)
    \/ /\ Querying(h) /\ exists /\ UNCHANGED <<exists, pending_query, resume_on_exit>>
       /\ UnwindInspectState(h)
       /\ pc'[h] = "error"
    \/ pc[h] = "shutdown"

\* A session is tainted or erased only by the steps of Ends.
LEMMA EndSteps ==
    ASSUME TypeOK, LabelsMatch, NEW h \in Handlers, Request(h) \/ Step(h)
    PROVE  Ends(h) \/ UNCHANGED <<tainted, exists>>
<1> USE DEF lockVars, countVars, epochVars, machineVars, localVars, Receive, Refuse
<1>3. CASE \/ \E e \in EpochIndices, b \in BOOLEAN : AdvanceState(h, e, b)
           \/ \E b \in BOOLEAN : InspectState(h, b)
           \/ \E e \in EpochIndices, b, store \in BOOLEAN : FinishEpoch(h, e, b, store)
  BY <1>3 DEF AdvanceState, InspectState, FinishEpoch
<1>4. CASE \/ \E e \in EpochIndices : DeleteEpoch(h, e)
           \/ EndSession(h)
           \/ \E r \in {"GetSessionStatus", "GetEpochStatus"}, e \in EpochIndices :
                    GetStatus(h, r, e)
  BY <1>4 DEF DeleteEpoch, EndSession, GetStatus
<1>5. CASE AdvanceStateAcked(h) \/ InputRun(h) \/ InputSkipped(h)
  <2>1. \/ UNCHANGED <<tainted, exists>>
        \/ /\ UNCHANGED <<exists, resume_on_exit>> /\ TaintAdvanceState(h) /\ exists
           /\ pc[h] \in {"enqueued", "run", "check_hash"} /\ rpc[h] = "AdvanceState"
    BY <1>5 DEF AdvanceStateAcked, InputRun, RunMachine, InputSkipped, At, Valid, LabelsMatch
  <2> QED
    BY <2>1 DEF Ends, Live, Talking
<1>6. CASE MachineFails(h)
  <2>1. UNCHANGED <<exists, resume_on_exit>> /\ exists /\ pc[h] \in Talking
    BY <1>6 DEF MachineFails, At, Valid
  <2>2. CASE rpc[h] = "AdvanceState"
    BY <1>6, <2>1, <2>2 DEF MachineFails, Ends, Live, Talking
  <2>3. CASE rpc[h] = "InspectState"
    BY <1>6, <2>1, <2>3 DEF MachineFails, Ends, Querying, TypeOK, HandlersOK
  <2> QED
    BY <1>6, <2>2, <2>3 DEF MachineFails
<1>7. CASE \/ ResumeProcessing(h) \/ ResumeTainting(h) \/ InputAccepted(h)
           \/ \E b \in BOOLEAN : ResumeQuery(h, b)
           \/ QueryRun(h) \/ VouchersProved(h) \/ NoticesProved(h)
  BY <1>7 DEF ResumeProcessing, ResumeTainting, InputAccepted, ResumeQuery, QueryRun,
      VouchersProved, NoticesProved
<1>8. CASE \/ SnapshotTaken(h) \/ SnapshotCheckedIn(h) \/ RolledBack(h) \/ InputRolledBack(h)
           \/ QueryRolledBack(h)
  BY <1>8 DEF SnapshotTaken, SnapshotCheckedIn, RolledBack, AwaitCheckin, InputRolledBack,
      QueryRolledBack
<1>9. CASE CallFails(h) \/ Stored(h) \/ ErrorAcked(h) \/ UseAfterFree(h)
  BY <1>9 DEF CallFails, Stored, ErrorAcked, UseAfterFree
<1>10. CASE Acked(h)
  BY <1>10 DEF Acked
<1>11. CASE ShutDown(h)
  BY <1>11 DEF ShutDown, Ends
<1> QED
  BY <1>3, <1>4, <1>5, <1>6, <1>7, <1>8, <1>9, <1>10, <1>11 DEF Request, Step

\* No step of h takes a tag of another handler from the queue, and a query begins to
\* wait only in a session that is there and not tainted.
LEMMA TagsKept ==
    ASSUME TypeOK, NEW h \in Handlers, Request(h) \/ Step(h)
    PROVE  /\ \A g \in Handlers \ {h} : scheduled[g] > 0 => scheduled'[g] > 0
           /\ pc'[h] = "query" =>
                \/ pc[h] = "query" /\ UNCHANGED <<exists, tainted, scheduled>>
                \/ exists' /\ ~tainted'
<1> DEFINE Keeps == \A g \in Handlers \ {h} : scheduled[g] > 0 => scheduled'[g] > 0
           Goal == Keeps /\ (pc'[h] = "query" =>
                    \/ pc[h] = "query" /\ UNCHANGED <<exists, tainted, scheduled>>
                    \/ exists' /\ ~tainted')
<1>1. /\ pc[h] \in Labels /\ pc \in [Handlers -> Labels]
      /\ scheduled \in [Handlers \cup {Null} -> Nat]
  BY DEF TypeOK, HandlersOK, LocalsOK
<1>2. ASSUME UNCHANGED scheduled PROVE Keeps
  BY <1>2
<1>3. ASSUME NEW c, Schedule(c) PROVE Keeps
  BY <1>1, <1>3 DEF Schedule
<1>4. ASSUME Resume(h) PROVE Keeps
  BY <1>1, <1>4 DEF Resume
<1>5. ASSUME UnwindInspectState(h) PROVE Keeps
  BY <1>2, <1>3, <1>5 DEF UnwindInspectState
<1>6. ASSUME TaintAdvanceState(h) PROVE Keeps /\ pc'[h] # "query"
  BY <1>1, <1>2, <1>3, <1>6 DEF TaintAdvanceState
<1>7. ASSUME ServeQueryFirst(h) PROVE Keeps /\ pc'[h] # "query"
  BY <1>1, <1>2, <1>3, <1>7 DEF ServeQueryFirst, ProcessNext, Return, TakeUpInput, TriggerCheckin
<1> HIDE DEF Keeps
<1> USE DEF lockVars, countVars, epochVars, machineVars, localVars, Receive, Refuse
<1>11. ASSUME NEW e \in EpochIndices, NEW b \in BOOLEAN, AdvanceState(h, e, b) PROVE Goal
  BY <1>1, <1>2, <1>11 DEF AdvanceState
<1>12. ASSUME NEW b \in BOOLEAN, InspectState(h, b) PROVE Goal
  <2>1. UNCHANGED <<scheduled, exists, tainted>>
    BY <1>12 DEF InspectState
  <2>2. InspectStateCode = "OK" => exists /\ ~tainted
    BY DEF InspectStateCode
  <2>3. InspectStateCode # "OK" => pc'[h] = "error"
    BY <1>1, <1>12 DEF InspectState
  <2> QED
    BY <1>2, <2>1, <2>2, <2>3
<1>13. ASSUME NEW e \in EpochIndices, NEW b \in BOOLEAN,
              NEW store \in BOOLEAN, FinishEpoch(h, e, b, store)
       PROVE  Goal
  BY <1>1, <1>2, <1>13 DEF FinishEpoch, FinishAndStartEpoch
<1>14. ASSUME \/ EndSession(h) \/ \E e \in EpochIndices : DeleteEpoch(h, e)
              \/ \E r \in {"GetSessionStatus", "GetEpochStatus"}, e \in EpochIndices :
                    GetStatus(h, r, e)
       PROVE  Goal
  BY <1>1, <1>2, <1>14 DEF EndSession, DeleteEpoch, GetStatus
<1>15. ASSUME AdvanceStateAcked(h) PROVE Goal
  BY <1>1, <1>2, <1>6, <1>15 DEF AdvanceStateAcked, Return, TakeUpInput, TriggerCheckin
<1>16. ASSUME ResumeProcessing(h) PROVE Goal
  BY <1>1, <1>4, <1>16 DEF ResumeProcessing, ProcessNext, Return, TakeUpInput, TriggerCheckin
<1>17. ASSUME NEW b \in BOOLEAN, ResumeQuery(h, b) PROVE Goal
  <2>1. pc'[h] # "query"
    BY <1>1, <1>17 DEF ResumeQuery, ProcessPendingQuery, AnswerQuery, TriggerCheckin
  <2>2. CASE tainted
    BY <1>1, <1>17, <2>1, <2>2 DEF ResumeQuery, Keeps
  <2>3. CASE ~tainted
    BY <1>4, <1>17, <2>1, <2>3 DEF ResumeQuery
  <2> QED
    BY <2>2, <2>3
<1>18. ASSUME InputRun(h) \/ InputAccepted(h) \/ InputSkipped(h) PROVE Goal
  BY <1>1, <1>2, <1>6, <1>7, <1>18 DEF InputRun, InputAccepted, InputSkipped, CompleteInput,
      TriggerCheckin
<1>19. ASSUME MachineFails(h) PROVE Goal
  BY <1>1, <1>5, <1>6, <1>19 DEF MachineFails
<1>20. ASSUME \/ SnapshotTaken(h) \/ SnapshotCheckedIn(h) \/ RolledBack(h) \/ QueryRun(h)
              \/ VouchersProved(h) \/ NoticesProved(h) \/ InputRolledBack(h)
              \/ QueryRolledBack(h)
       PROVE  Goal
  BY <1>1, <1>2, <1>20 DEF SnapshotTaken, SnapshotCheckedIn, RolledBack, AwaitCheckin, QueryRun,
      VouchersProved, NoticesProved, InputRolledBack, QueryRolledBack, AnswerQuery, TriggerCheckin
<1>21. ASSUME \/ CallFails(h) \/ Stored(h) \/ ShutDown(h) \/ ErrorAcked(h) \/ UseAfterFree(h)
       PROVE  Goal
  BY <1>1, <1>2, <1>21 DEF CallFails, Stored, FinishAndStartEpoch, ShutDown, ErrorAcked,
      UseAfterFree
<1>22. ASSUME Acked(h) \/ ResumeTainting(h) PROVE Goal
  <2>1. pc' = [pc EXCEPT ![h] = "done"] /\ (UnwindInspectState(h) \/ Resume(h))
    BY <1>22 DEF Acked, ResumeTainting
  <2> QED
    BY <1>1, <1>4, <1>5, <2>1
<1> HIDE DEF Goal
<1>23. Goal
  BY <1>11, <1>12, <1>13, <1>14, <1>15, <1>16, <1>17, <1>18, <1>19, <1>20, <1>21, <1>22
      DEF Request, Step
<1> QED
  BY <1>23 DEF Goal, Keeps

\* Every step keeps queries that wait called if the session is tainted.
LEMMA QueriesStayCalled ==
    ASSUME Inv, Overlapping, OthersLabels, QueriesCalled, "queue" \in clients,
           ~tainted /\ exists => Handover,
           NEW h \in Handlers, Request(h) \/ Step(h)
    PROVE  QueriesCalled'
<1>1. TypeOK /\ LabelsMatch
  BY DEF Inv
<1>2. OnlyMoves(h)
  BY <1>1, RequestArrives, StepGoesOn DEF Arrives, GoesOn
<1>3. pc'[h] = "query" => exists' /\ (tainted' => scheduled'[h] > 0)
  BY <1>1, TagsKept DEF QueriesCalled
<1>4. ASSUME NEW g \in Handlers \ {h}, pc'[g] = "query"
      PROVE  exists' /\ (tainted' => scheduled'[g] > 0)
  <2>1. pc[g] = "query" /\ exists /\ (tainted => scheduled[g] > 0) /\ Other(g)
    BY <1>1, <1>2, <1>4 DEF OnlyMoves, QueriesCalled, LabelsMatch, Other, Live
  <2>2. scheduled[g] > 0 => scheduled'[g] > 0
    BY <1>1, TagsKept
  <2>3. ~Other(h)
    BY <2>1 DEF Overlapping, Other
  <2>4. CASE UNCHANGED <<tainted, exists>>
    BY <2>1, <2>2, <2>4
  <2>5. CASE TaintAdvanceState(h) /\ UNCHANGED exists
    <3>1. CASE tainted
      BY <2>1, <2>2, <2>5, <3>1
    <3>2. CASE ~tainted
      <4>1. scheduled[g] \in Nat /\ scheduled \in [Handlers \cup {Null} -> Nat]
        BY <1>1 DEF TypeOK, LocalsOK
      <4>2. scheduled[g] = 0 => pending_query[active_epoch_index] = g
        BY <2>1, <3>2 DEF Handover, QueryInPlace, Waits
      <4>3. scheduled[g] = 0 => Schedule(g)
        BY <2>5, <4>2, ConstantsAssumption DEF TaintAdvanceState
      <4> QED
        BY <2>1, <2>2, <2>5, <4>1, <4>3 DEF Schedule
    <3> QED
      BY <3>1, <3>2
  <2>6. ~Querying(h) /\ pc[h] # "shutdown"
    BY <2>3 DEF Querying, Other, Live, Talking, OthersLabels
  <2> QED
    BY <1>1, <2>4, <2>5, <2>6, EndSteps DEF Ends
<1> QED
  BY <1>3, <1>4 DEF QueriesCalled

-----------------------------------------------------------------------------
(* Every step keeps the queue watched *)

\* What a handler does at a label.
LEMMA StepsAtLabels ==
    ASSUME NEW h \in Handlers, Step(h)
    PROVE  /\ pc[h] = "error" => ErrorAcked(h)
           /\ pc[h] = "ack" => Acked(h)
           /\ pc[h] = "tainting" => ResumeTainting(h)
           /\ \/ UseAfterFree(h)
              \/ /\ pc[h] = "enqueued" => AdvanceStateAcked(h)
                 /\ pc[h] = "handoff" => ResumeProcessing(h)
                 /\ pc[h] = "query" => \E b \in BOOLEAN : ResumeQuery(h, b)
                 /\ pc[h] = "store" => Stored(h) \/ CallFails(h)
                 /\ pc[h] = "shutdown" => ShutDown(h) \/ CallFails(h)
<1> USE DEF At, Talking
<1>1. CASE \/ AdvanceStateAcked(h) \/ ResumeProcessing(h) \/ ResumeTainting(h)
           \/ ErrorAcked(h)
  BY <1>1 DEF AdvanceStateAcked, ResumeProcessing, ResumeTainting, ErrorAcked
<1>2. CASE \/ InputRun(h) \/ InputAccepted(h) \/ InputSkipped(h) \/ MachineFails(h)
           \/ SnapshotTaken(h) \/ SnapshotCheckedIn(h) \/ RolledBack(h) \/ QueryRun(h)
           \/ VouchersProved(h) \/ NoticesProved(h) \/ InputRolledBack(h) \/ QueryRolledBack(h)
  <2>1. pc[h] \in Talking
    BY <1>2 DEF InputRun, RunMachine, InputAccepted, InputSkipped, MachineFails,
        SnapshotTaken, SnapshotCheckedIn, CheckedIn, RolledBack, QueryRun, VouchersProved,
        NoticesProved, InputRolledBack, QueryRolledBack
  <2> QED
    BY <2>1
<1>3. CASE \E b \in BOOLEAN : ResumeQuery(h, b)
  <2>1. pc[h] = "query"
    BY <1>3 DEF ResumeQuery
  <2> QED
    BY <1>3, <2>1
<1>4. CASE CallFails(h) \/ Stored(h) \/ ShutDown(h)
  <2>1. pc[h] \in {"store", "shutdown"} /\ (Stored(h) => pc[h] = "store")
        /\ (ShutDown(h) => pc[h] = "shutdown")
    BY <1>4 DEF CallFails, Stored, ShutDown
  <2> QED
    BY <1>4, <2>1
<1>5. CASE Acked(h)
  <2>1. pc[h] = "ack"
    BY <1>5 DEF Acked
  <2> QED
    BY <1>5, <2>1
<1>6. CASE UseAfterFree(h)
  BY <1>6 DEF UseAfterFree
<1> QED
  BY <1>1, <1>2, <1>3, <1>4, <1>5, <1>6 DEF Step

\* A request that finds the session locked is refused and leaves it so; an input that
\* is added locks it.
LEMMA RefusedIfLocked ==
    ASSUME TypeOK, NEW h \in Handlers, Request(h)
    PROVE  /\ session_lock => /\ pc'[h] = "error"
                              /\ UNCHANGED <<session_lock, processing_lock, tainted, crashed>>
                              /\ UNCHANGED <<active_epoch_index, pending_inputs, ep>>
           /\ pc'[h] = "enqueued" => session_lock' /\ ~tainted /\ UNCHANGED <<tainted, crashed>>
<1>1. pc[h] \in Labels /\ pc \in [Handlers -> Labels]
  BY DEF TypeOK, HandlersOK
<1> USE DEF lockVars, countVars, epochVars, machineVars, localVars, Receive, Refuse
<1>2. ASSUME NEW e \in EpochIndices, NEW b \in BOOLEAN, AdvanceState(h, e, b)
      PROVE  /\ session_lock => /\ pc'[h] = "error"
                                /\ UNCHANGED <<session_lock, processing_lock, tainted, crashed>>
                                /\ UNCHANGED <<active_epoch_index, pending_inputs, ep>>
             /\ pc'[h] = "enqueued" => session_lock' /\ ~tainted /\ UNCHANGED <<tainted, crashed>>
  BY <1>1, <1>2 DEF AdvanceState, AdvanceStateCode
<1>3. CASE \E b \in BOOLEAN : InspectState(h, b)
  BY <1>1, <1>3 DEF InspectState, InspectStateCode, ProcessPendingQuery, AnswerQuery,
      TriggerCheckin
<1>4. CASE \E e \in EpochIndices, b, store \in BOOLEAN : FinishEpoch(h, e, b, store)
  BY <1>1, <1>4 DEF FinishEpoch, FinishEpochCode, FinishAndStartEpoch
<1>5. CASE \/ EndSession(h) \/ \E e \in EpochIndices : DeleteEpoch(h, e)
           \/ \E r \in {"GetSessionStatus", "GetEpochStatus"}, e \in EpochIndices :
                    GetStatus(h, r, e)
  BY <1>1, <1>5 DEF EndSession, EndSessionCode, DeleteEpoch, DeleteEpochCode, GetStatus,
      StatusCode
<1> QED
  BY <1>2, <1>3, <1>4, <1>5 DEF Request

\* A handler leaves process_pending_inputs when the queue is empty, unless it fails.
LEMMA LeavesEmptyQueue ==
    ASSUME TypeOK, NEW h \in Handlers, Request(h) \/ Step(h), Processing(h), ~Processing(h)'
    PROVE  \/ tainted'
           \/ active_epoch_index' = active_epoch_index /\ pending_inputs'[ep[h]] = <<>>
<1>1. pc[h] \in Labels /\ pc \in [Handlers -> Labels]
  BY DEF TypeOK, HandlersOK
<1> USE DEF lockVars, countVars, epochVars, machineVars, localVars, TriggerCheckin, Processing,
            Talking
<1>2. CASE Request(h)
  <2>1. pc[h] = "idle"
    BY <1>2, RequestArrives DEF Arrives
  <2> QED
    BY <2>1
<1>3. CASE ResumeProcessing(h)
  BY <1>1, <1>3 DEF ResumeProcessing, ProcessNext, TakeUpInput
<1>4. CASE InputAccepted(h)
  BY <1>1, <1>4 DEF InputAccepted, CompleteInput, ServeQueryFirst, ProcessNext, TakeUpInput
<1>5. CASE InputSkipped(h)
  BY <1>1, <1>5 DEF InputSkipped, CompleteInput, ServeQueryFirst, ProcessNext, TakeUpInput,
      TaintAdvanceState
<1>6. CASE InputRun(h) \/ MachineFails(h)
  BY <1>1, <1>6 DEF InputRun, MachineFails, TaintAdvanceState
<1>7. CASE \/ SnapshotTaken(h) \/ SnapshotCheckedIn(h) \/ RolledBack(h)
           \/ VouchersProved(h) \/ NoticesProved(h) \/ InputRolledBack(h) \/ UseAfterFree(h)
  BY <1>1, <1>7 DEF SnapshotTaken, SnapshotCheckedIn, RolledBack, AwaitCheckin, VouchersProved,
      NoticesProved, InputRolledBack, UseAfterFree
<1>8. CASE \/ AdvanceStateAcked(h) \/ ResumeTainting(h) \/ QueryRun(h) \/ QueryRolledBack(h)
           \/ \E b \in BOOLEAN : ResumeQuery(h, b)
           \/ CallFails(h) \/ Stored(h) \/ ShutDown(h) \/ ErrorAcked(h)
  BY <1>8 DEF AdvanceStateAcked, ResumeTainting, QueryRun, QueryRolledBack, ResumeQuery, CallFails,
      Stored, ShutDown, ErrorAcked, At
<1>9. CASE Acked(h)
  <2>1. pc[h] = "ack"
    BY <1>9 DEF Acked
  <2> QED
    BY <2>1
<1> QED
  BY <1>2, <1>3, <1>4, <1>5, <1>6, <1>7, <1>8, <1>9 DEF Step

\* AdvanceStates stay about the active epoch, which does not change while one is
\* being served.
LEMMA AdvancesStayInPlace ==
    ASSUME Inv, EpochsInPlace, AdvancesInPlace, Overlapping', "within" \in clients',
           NEW h \in Handlers, Request(h) \/ Step(h)
    PROVE  AdvancesInPlace'
<1>1. TypeOK /\ LabelsMatch /\ ProcessingExclusive /\ ActiveEpochIsActive
  BY DEF Inv
<1>2. OnlyMoves(h) /\ EpochStep(h)
  BY <1>1, RequestArrives, StepGoesOn, EpochSteps DEF Arrives, GoesOn
<1>3. ASSUME active_epoch_index' = active_epoch_index,
             rpc'[h] = "AdvanceState" /\ Accepted(h)' => ep'[h] = active_epoch_index
      PROVE  AdvancesInPlace'
  BY <1>2, <1>3 DEF AdvancesInPlace, OnlyMoves, Accepted
<1>4. CASE Rests(h)
  BY <1>3, <1>4 DEF Rests, epochState, AdvancesInPlace
<1>5. CASE TakesUp(h)
  BY <1>3, <1>5 DEF TakesUp, epochState, AdvancesInPlace
<1>6. CASE AddsLeaf(h)
  BY <1>3, <1>6 DEF AddsLeaf, AdvancesInPlace, Accepted, Working, Processing, Talking
<1>7. CASE \E status \in {"accepted", "skipped"} : Records(h, status)
  BY <1>3, <1>7 DEF Records, AdvancesInPlace, Accepted, Working, Processing, Talking
<1>8. CASE \E e \in EpochIndices : Enqueues(h, e) \/ Stores(h, e) \/ Deletes(h, e)
  BY <1>3, <1>8 DEF Enqueues, Stores, epochState, Deletes
<1>9. ASSUME NEW e \in EpochIndices, Finishes(h, e), rpc'[h] = "FinishEpoch"
      PROVE  AdvancesInPlace'
  <2>1. pc'[h] = "ack"
    BY <1>1, <1>9 DEF Finishes, FinishAndStartEpoch, TypeOK, HandlersOK
  <2>2. \A g \in Handlers \ {h} : ~Live(g)'
    BY <1>9, <2>1 DEF Overlapping, Live
  <2> QED
    BY <1>9, <2>2 DEF AdvancesInPlace, Accepted, Live
<1>10. ASSUME NEW e \in EpochIndices, Finishes(h, e), pc[h] = "store", rpc'[h] = rpc[h]
       PROVE  AdvancesInPlace'
  BY <1>9, <1>10 DEF EpochsInPlace, StoresInPlace
<1> QED
  BY <1>2, <1>4, <1>5, <1>6, <1>7, <1>8, <1>9, <1>10 DEF EpochStep

\* If nobody is processing the queue after a step, an input in it is watched.
LEMMA QueueStaysWatched ==
    ASSUME Inv, Inv', Overlapping, OthersLabels, EpochsInPlace,
           ~tainted /\ exists => Handover,
           AdvancesInPlace, QueueWatched, "within" \in clients', "queue" \in clients',
           clients' = {d \in clients : KeepsTo(d)},
           NEW h \in Handlers, Request(h) \/ Step(h)
    PROVE  QueueWatched'
<1> SUFFICES ASSUME ~tainted', exists', ~processing_lock',
                    pending_inputs'[active_epoch_index'] # <<>>
             PROVE  /\ session_lock'
                    /\ Len(pending_inputs'[active_epoch_index']) = 1
                    /\ \A g \in Handlers : Other(g)' => pc'[g] = "error"
  BY DEF QueueWatched
<1>1. /\ TypeOK /\ LabelsMatch /\ ProcessingExclusive /\ ActiveEpochIsActive
      /\ ProcessingExclusive'
  BY DEF Inv
<1>2. Arrives(h) \/ GoesOn(h)
  BY <1>1, RequestArrives, StepGoesOn
<1>3. OnlyMoves(h) /\ EpochStep(h) /\ ProcessingStep(h)
  BY <1>1, <1>2, EpochSteps, ProcessingSteps DEF Arrives, GoesOn
<1>4. ~tainted /\ exists /\ Handover
  BY EndsForGood
<1>5. pc[h] = "idle" => /\ Request(h)
                        /\ \A g \in Handlers : ~Other(g)
  BY <1>2, FindsAdvances, StepGoesOn, <1>1 DEF GoesOn, Live
<1>6. ~Processing(h)'
  BY <1>1 DEF ProcessingExclusive
<1>7. CASE Processing(h)
  <2>1. active_epoch_index' = active_epoch_index /\ pending_inputs'[ep[h]] = <<>>
    BY <1>1, <1>6, <1>7, LeavesEmptyQueue
  <2>2. ep[h] = active_epoch_index
    BY <1>7 DEF AdvancesInPlace, Accepted, Processing, Talking
  <2> QED
    BY <2>1, <2>2
<1>8. CASE ~Processing(h)
  <2>1. ~processing_lock
    BY <1>3, <1>6, <1>8 DEF ProcessingStep
  <2>2. ASSUME pending_inputs[active_epoch_index] # <<>>
        PROVE  /\ session_lock /\ Len(pending_inputs[active_epoch_index]) = 1
               /\ \A g \in Handlers : Other(g) => pc[g] = "error"
               /\ pc[h] = "idle" => pc'[h] = "error" /\ session_lock'
    BY <1>1, <1>4, <1>5, <2>1, <2>2, RefusedIfLocked DEF QueueWatched
  <2>3. CASE Rests(h)
    <3>1. UNCHANGED <<pending_inputs, active_epoch_index>>
      BY <2>3 DEF Rests, epochState
    <3>2. /\ session_lock /\ Len(pending_inputs[active_epoch_index]) = 1
          /\ \A g \in Handlers : Other(g) => pc[g] = "error"
          /\ pc[h] = "idle" => pc'[h] = "error" /\ session_lock'
      BY <2>2, <3>1
    <3>3. session_lock' /\ (Other(h)' => pc'[h] = "error")
      <4>1. CASE pc[h] = "idle"
        BY <3>2, <4>1
      <4>2. CASE pc[h] = "error"
        <5>1. ErrorAcked(h)
          BY <1>1, <4>2, RequestArrives, StepsAtLabels DEF Arrives
        <5> QED
          BY <1>1, <3>2, <5>1 DEF ErrorAcked, lockVars, Other, Live, TypeOK, HandlersOK
      <4>3. CASE pc[h] \notin {"idle", "error"}
        <5>1. Step(h) /\ Live(h) /\ rpc[h] = "AdvanceState"
          BY <1>1, <1>2, <3>2, <4>3, RequestArrives DEF Arrives, GoesOn, Other
        <5>2. pc[h] \in {"enqueued", "tainting"}
          BY <1>1, <1>8, <4>3, <5>1 DEF Live, Processing, OthersLabels, TypeOK, HandlersOK, Labels
        <5>3. pc[h] # "tainting"
          BY <1>4, <5>1, StepsAtLabels DEF ResumeTainting, Resume, Handover, TagsInPlace
        <5>4. AdvanceStateAcked(h) \/ UseAfterFree(h)
          BY <5>1, <5>2, <5>3, StepsAtLabels
        <5>5. ep[h] = active_epoch_index
          BY <5>1, <5>2 DEF AdvancesInPlace, Accepted
        <5>6. ~AdvanceStateAcked(h)
          BY <3>2, <5>5 DEF AdvanceStateAcked, TaintAdvanceState
        <5> QED
          BY <3>2, <5>1, <5>4, <5>6 DEF UseAfterFree, lockVars, Other
      <4> QED
        BY <4>1, <4>2, <4>3
    <3>4. \A g \in Handlers \ {h} : Other(g)' => pc'[g] = "error"
      BY <1>3, <3>2 DEF OnlyMoves, Other, Live
    <3> QED
      BY <3>1, <3>2, <3>3, <3>4
  <2>4. CASE TakesUp(h) \/ AddsLeaf(h) \/ \E status \in {"accepted", "skipped"} : Records(h, status)
    BY <1>6, <1>8, <2>4 DEF TakesUp, AddsLeaf, Records, Working, Processing, Talking
  <2>5. ASSUME NEW e \in EpochIndices, Enqueues(h, e), rpc'[h] = "AdvanceState"
        PROVE  /\ session_lock'
               /\ Len(pending_inputs'[active_epoch_index']) = 1
               /\ \A g \in Handlers : Other(g)' => pc'[g] = "error"
    <3>1. pc[h] = "idle" /\ pc'[h] = "enqueued" /\ e = active_epoch_index /\ active_epoch_index' = e
      BY <2>5 DEF Enqueues
    <3>2. pending_inputs[e] = <<>>
      BY <2>2, <3>1
    <3>3. pending_inputs'[e] = <<[id |-> h, input_index |-> CurrentInputIndex(e)]>>
      BY <1>1, <2>5, <3>2 DEF Enqueues, TypeOK, LogsOK
    <3>4. session_lock'
      BY <1>1, <1>5, <3>1, RefusedIfLocked
    <3>5. \A g \in Handlers : ~Other(g)'
      BY <1>3, <1>5, <2>5, <3>1 DEF OnlyMoves, Other, Live
    <3> QED
      BY <3>1, <3>3, <3>4, <3>5
  <2>6. ASSUME NEW e \in EpochIndices, Finishes(h, e) PROVE FALSE
    <3>1. active_epoch_index' \in EpochIndices
      BY <1>1, <2>6, FinishTyped DEF Finishes
    <3> QED
      BY <1>1, <2>6, <3>1 DEF Finishes, FinishAndStartEpoch, ClearEpoch, TypeOK, LogsOK
  <2>7. ASSUME NEW e \in EpochIndices, Stores(h, e) \/ Deletes(h, e) PROVE FALSE
    <3>1. active_epoch_index \in EpochIndices
      BY <1>1 DEF TypeOK, SessionOK
    <3>2. pending_inputs'[active_epoch_index'] = pending_inputs[active_epoch_index]
      BY <1>1, <2>7, <3>1 DEF Stores, Deletes, ClearEpoch, epochState, TypeOK, LogsOK
    <3> QED
      BY <2>2, <2>7, <3>2 DEF Stores, Deletes
  <2> QED
    BY <1>3, <2>3, <2>4, <2>5, <2>6, <2>7 DEF EpochStep
<1> QED
  BY <1>7, <1>8

-----------------------------------------------------------------------------
(* Every step keeps AdvanceStates that do not overlap in place *)

\* Where a step of h can take it.
Transits(h) ==
    /\ pc'[h] = "enqueued" =>
        \/ UseAfterFree(h)
        \/ /\ pc[h] = "idle" /\ rpc'[h] = "AdvanceState" /\ ep'[h] = active_epoch_index
           /\ session_lock' /\ ~tainted
           /\ UNCHANGED <<tainted, active_epoch_index, processing_lock>>
           /\ \E i \in Input : pending_inputs' =
                [pending_inputs EXCEPT ![active_epoch_index] = Append(@, i)]
    /\ pc'[h] = "shutdown" =>
        UNCHANGED processing_lock /\ (pc[h] = "shutdown" \/ ~processing_lock)
    /\ pc'[h] = "handoff" => Processing(h) /\ (pc[h] = "handoff" \/ ~tainted')
    /\ pc'[h] \in Talking =>
        \/ pc[h] \in Talking \cup {"enqueued", "handoff"} /\ UNCHANGED tainted
        \/ ~tainted' /\ rpc'[h] = "InspectState"
    /\ tainted' /\ ~tainted => pc[h] \in Talking \cup {"enqueued"}

\* Every step takes its handler from one label to another as Transits says.
LEMMA TransitSteps ==
    ASSUME TypeOK, LabelsMatch, NEW h \in Handlers, Request(h) \/ Step(h),
           pc[h] \in Talking => ~tainted
    PROVE  Transits(h)
<1>1. /\ pc[h] \in Labels /\ pc \in [Handlers -> Labels] /\ rpc \in [Handlers -> RpcKinds]
      /\ ep \in [Handlers -> EpochIndices]
  BY DEF TypeOK, HandlersOK
<1> USE DEF lockVars, countVars, epochVars, machineVars, localVars, Receive, Refuse, TriggerCheckin,
            At, Processing
<1>2. ASSUME NEW e \in EpochIndices, NEW b \in BOOLEAN, AdvanceState(h, e, b)
      PROVE  Transits(h)
  <2>1. CASE AdvanceStateCode(e, b) # "OK"
    BY <1>1, <1>2, <2>1 DEF AdvanceState, Transits, Talking
  <2>2. CASE AdvanceStateCode(e, b) = "OK"
    <3>1. e = active_epoch_index /\ ~tainted
      BY <2>2 DEF AdvanceStateCode
    <3> DEFINE i == [id |-> h, input_index |-> CurrentInputIndex(e)]
    <3>2. i \in Input
      BY DEF Input, CurrentInputIndex, TypeOK, LogsOK, SessionOK
    <3>3. pending_inputs' = [pending_inputs EXCEPT ![e] = Append(@, i)]
      BY <1>2, <2>2 DEF AdvanceState
    <3> HIDE DEF i
    <3>4. /\ pc[h] = "idle" /\ pc'[h] = "enqueued" /\ rpc'[h] = "AdvanceState" /\ ep'[h] = e
          /\ session_lock' /\ UNCHANGED <<tainted, active_epoch_index, processing_lock>>
      BY <1>1, <1>2, <2>2 DEF AdvanceState
    <3> QED
      BY <3>1, <3>2, <3>3, <3>4 DEF Transits, Talking
  <2> QED
    BY <2>1, <2>2
<1>3. ASSUME NEW b \in BOOLEAN, InspectState(h, b)
      PROVE  Transits(h)
  BY <1>1, <1>3 DEF InspectState, InspectStateCode, ProcessPendingQuery, AnswerQuery, Transits,
      Talking
<1>4. CASE \E e \in EpochIndices, b, store \in BOOLEAN : FinishEpoch(h, e, b, store)
  BY <1>1, <1>4 DEF FinishEpoch, FinishAndStartEpoch, Transits, Talking
<1>5. CASE \/ EndSession(h) \/ \E e \in EpochIndices : DeleteEpoch(h, e)
           \/ \E r \in {"GetSessionStatus", "GetEpochStatus"}, e \in EpochIndices :
                    GetStatus(h, r, e)
  BY <1>1, <1>5 DEF EndSession, EndSessionCode, DeleteEpoch, GetStatus, Transits, Talking
<1>6. CASE AdvanceStateAcked(h)
  BY <1>1, <1>6 DEF AdvanceStateAcked, TaintAdvanceState, Return, TakeUpInput, Transits, Talking
<1>7. CASE ResumeProcessing(h) \/ InputAccepted(h)
  BY <1>1, <1>7 DEF ResumeProcessing, InputAccepted, CompleteInput, ServeQueryFirst, ProcessNext,
      Return, TakeUpInput, Transits, Talking, LabelsMatch
<1>8. CASE InputSkipped(h)
  BY <1>1, <1>8 DEF InputSkipped, CompleteInput, ServeQueryFirst, ProcessNext, Return, TakeUpInput,
      TaintAdvanceState, Transits, Talking, LabelsMatch
<1>9. CASE InputRun(h) \/ MachineFails(h)
  BY <1>1, <1>9 DEF InputRun, RunMachine, MachineFails, TaintAdvanceState, Transits, Talking
<1>10. ASSUME NEW b \in BOOLEAN, ResumeQuery(h, b)
       PROVE  Transits(h)
  BY <1>1, <1>10 DEF ResumeQuery, ProcessPendingQuery, AnswerQuery, Transits, Talking, LabelsMatch
<1>11. CASE \/ SnapshotTaken(h) \/ SnapshotCheckedIn(h) \/ RolledBack(h) \/ QueryRun(h)
            \/ VouchersProved(h) \/ NoticesProved(h) \/ InputRolledBack(h) \/ QueryRolledBack(h)
  BY <1>1, <1>11 DEF SnapshotTaken, SnapshotCheckedIn, RolledBack, AwaitCheckin, CheckedIn,
      QueryRun, RunMachine, VouchersProved, NoticesProved, InputRolledBack, QueryRolledBack,
      AnswerQuery, Transits, Talking
<1>12. CASE \/ CallFails(h) \/ Stored(h) \/ ShutDown(h) \/ ErrorAcked(h)
  BY <1>1, <1>12 DEF CallFails, Stored, FinishAndStartEpoch, ShutDown, ErrorAcked, Transits, Talking
<1>13. CASE UseAfterFree(h)
  <2>1. UNCHANGED <<pc, rpc, tainted, processing_lock>>
    BY <1>13 DEF UseAfterFree
  <2>2. pc[h] \in Talking => ~tainted
    OBVIOUS
  <2> QED
    BY <1>13, <2>1, <2>2 DEF Transits, LabelsMatch
<1>14. CASE Acked(h) \/ ResumeTainting(h)
  <2>1. pc' = [pc EXCEPT ![h] = "done"] /\ UNCHANGED tainted
    BY <1>14 DEF Acked, ResumeTainting
  <2> QED
    BY <1>1, <2>1 DEF Transits, Talking
<1> QED
  BY <1>2, <1>3, <1>4, <1>5, <1>6, <1>7, <1>8, <1>9, <1>10, <1>11, <1>12, <1>13, <1>14
      DEF Request, Step

\* While the response of an AdvanceState is being delivered, the others do not touch
\* the session.
LEMMA OthersIdle ==
    ASSUME TypeOK, EnqueuedAlone, NEW h \in Handlers, Request(h) \/ Step(h),
           NEW g \in Handlers \ {h}, pc[g] = "enqueued"
    PROVE  /\ pc'[h] \in {"error", "done"}
           /\ UNCHANGED <<session_lock, processing_lock, tainted, crashed>>
           /\ UNCHANGED <<active_epoch_index, pending_inputs, ep>>
<1>1. session_lock /\ (Live(h) => pc[h] = "error")
  BY DEF EnqueuedAlone
<1>2. CASE Request(h)
  BY <1>1, <1>2, RefusedIfLocked
<1>3. CASE Step(h)
  <2>1. ErrorAcked(h)
    BY <1>1, <1>3, StepGoesOn, StepsAtLabels DEF GoesOn
  <2> QED
    BY <2>1 DEF ErrorAcked, lockVars, countVars, epochVars, TypeOK, HandlersOK
<1> QED
  BY <1>2, <1>3

\* When it has been delivered, its handler takes up the input.
LEMMA EnqueuedTakesUp ==
    ASSUME Inv, SerialWork, NEW h \in Handlers, pc[h] = "enqueued", AdvanceStateAcked(h)
    PROVE  /\ pc'[h] = "snapshot" /\ Working(h)' /\ UNCHANGED <<tainted, scheduled, pending_query>>
           /\ TakeUpInput(h)
<1>1. TypeOK /\ LabelsMatch /\ ProcessingExclusive
  BY DEF Inv
<1>2. /\ session_lock /\ Len(pending_inputs[ep[h]]) = 1
      /\ \A g \in Handlers : ~Processing(g)
  BY DEF SerialWork, EnqueuedAlone, Live, Processing, Talking
<1>3. ~processing_lock
  BY <1>1, <1>2 DEF ProcessingExclusive
<1>4. TakeUpInput(h) /\ UNCHANGED <<tainted, scheduled, pending_query, rpc>>
  BY <1>2, <1>3 DEF AdvanceStateAcked
<1>5. pc'[h] = "snapshot" /\ rpc[h] = "AdvanceState"
  BY <1>1, <1>4 DEF TakeUpInput, TriggerCheckin, LabelsMatch, TypeOK, HandlersOK
<1> QED
  BY <1>4, <1>5 DEF Working, Processing, Talking

\* Every step keeps the one AdvanceState and its input in place.
LEMMA SerialWorkKept ==
    ASSUME Inv, Inv', Overlapping, Overlapping', OthersLabels, EpochsInPlace,
           ~tainted => Handover, SerialWork,
           "queue" \in clients', "serial" \in clients',
           clients' = {d \in clients : KeepsTo(d)},
           NEW h \in Handlers, Request(h) \/ Step(h)
    PROVE  SerialWork'
<1>1. /\ TypeOK /\ LabelsMatch /\ ProcessingExclusive /\ ActiveEpochIsActive
      /\ ProcessingExclusive' /\ TypeOK'
  BY DEF Inv
<1>2. Arrives(h) \/ GoesOn(h)
  BY <1>1, RequestArrives, StepGoesOn
<1>3. /\ OnlyMoves(h) /\ EpochStep(h) /\ ProcessingStep(h) /\ Transits(h)
      /\ tainted => tainted'
  BY <1>1, <1>2, EpochSteps, ProcessingSteps, TransitSteps, EndsForGood
      DEF Arrives, GoesOn, SerialWork
<1>4. Arrives(h) => \A g \in Handlers : ~Other(g)
  BY FindsAdvances
<1>5. pc[h] # "idle" => GoesOn(h) /\ Step(h)
  BY <1>1, <1>2, RequestArrives DEF Arrives
<1>6. \A f, g \in Handlers : f # g /\ Live(f) /\ Live(g) =>
            (rpc[f] = "AdvanceState" <=> rpc[g] # "AdvanceState")
  BY DEF Overlapping
<1>7. \A f, g \in Handlers : f # g /\ Live(f)' /\ Live(g)' =>
            /\ rpc'[f] = "AdvanceState" <=> rpc'[g] # "AdvanceState"
            /\ rpc'[f] # "DeleteEpoch"
  BY DEF Overlapping
<1>8. /\ active_epoch_index \in EpochIndices /\ pending_inputs \in [EpochIndices -> Seq(Input)]
      /\ \A g \in Handlers : ep[g] \in EpochIndices /\ pc[g] \in Labels
      /\ \A e \in EpochIndices : pending_inputs[e] \in Seq(Input) /\ Len(pending_inputs[e]) \in Nat
  <2>1. pending_inputs \in [EpochIndices -> Seq(Input)]
    BY <1>1 DEF TypeOK, LogsOK
  <2>2. \A e \in EpochIndices : pending_inputs[e] \in Seq(Input)
    BY <2>1
  <2> QED
    BY <1>1, <2>1, <2>2 DEF TypeOK, SessionOK, HandlersOK
<1>9. ASSUME NEW g \in Handlers, pc[g] = "enqueued" \/ Processing(g)
      PROVE  Live(g) /\ rpc[g] = "AdvanceState"
  BY <1>1, <1>9 DEF Live, Processing, Talking, LabelsMatch
<1>10. ASSUME NEW status, Records(h, status)
       PROVE  /\ pending_inputs'[ep[h]] = <<>> /\ pc'[h] \in {"handoff", "done"}
              /\ ep[h] = active_epoch_index /\ active_epoch_index' = active_epoch_index
  <2>1. Len(pending_inputs[ep[h]]) = 1 /\ ep[h] = active_epoch_index
    BY <1>1, <1>10, WorkIsActive DEF Records, SerialWork, OneInput, Working
  <2>2. pending_inputs'[ep[h]] = Tail(pending_inputs[ep[h]])
    BY <1>8, <1>10 DEF Records, RecordInput
  <2>3. pending_inputs'[ep[h]] = <<>>
    BY <1>8, <2>1, <2>2
  <2> QED
    BY <1>10, <2>1, <2>3 DEF Records
<1>11. ASSUME NEW e \in EpochIndices,
              \/ Stores(h, e) /\ MayFinish(h, e)
              \/ /\ Finishes(h, e)
                 /\ \/ MayFinish(h, e) /\ rpc'[h] = "FinishEpoch"
                    \/ pc[h] = "store" /\ ep[h] = e /\ rpc'[h] = rpc[h]
       PROVE  /\ e = active_epoch_index /\ pending_inputs[e] = <<>>
              /\ \A g \in Handlers : ~Working(g)
  <2>1. e = active_epoch_index /\ pending_inputs[e] = <<>>
    BY <1>11 DEF MayFinish, EpochsInPlace, OneActive, StoresInPlace
  <2> QED
    BY <1>1, <2>1, WorkIsActive DEF EpochsInPlace, WorkersInPlace
<1>12. ASSUME NEW e \in EpochIndices, Finishes(h, e)
       PROVE  /\ pending_inputs'[active_epoch_index'] = <<>>
              /\ \A f \in EpochIndices :
                    pending_inputs'[f] = pending_inputs[f] \/ pending_inputs'[f] = <<>>
              /\ pc'[h] = "ack"
  <2>1. active_epoch_index' \in EpochIndices
    BY <1>1 DEF TypeOK, SessionOK
  <2> QED
    BY <1>1, <1>8, <1>12, <2>1 DEF Finishes, FinishAndStartEpoch, ClearEpoch, TypeOK, HandlersOK
<1>13. EnqueuedAlone'
  <2>1. ASSUME NEW g \in Handlers \ {h}, pc'[g] = "enqueued"
        PROVE  /\ session_lock' /\ ~tainted'
               /\ ep'[g] = active_epoch_index' /\ Len(pending_inputs'[ep'[g]]) = 1
               /\ \A f \in Handlers \ {g} : Live(f)' => pc'[f] = "error"
    <3>1. pc[g] = "enqueued"
      BY <1>3, <2>1 DEF OnlyMoves
    <3>2. /\ pc'[h] \in {"error", "done"}
          /\ UNCHANGED <<session_lock, tainted, active_epoch_index, pending_inputs, ep>>
      BY <1>1, <3>1, OthersIdle DEF SerialWork
    <3>3. \A f \in Handlers \ {g} : Live(f)' => pc'[f] = "error"
      BY <1>3, <3>1, <3>2 DEF SerialWork, EnqueuedAlone, OnlyMoves, Live
    <3> QED
      BY <3>1, <3>2, <3>3 DEF SerialWork, EnqueuedAlone
  <2>2. ASSUME pc'[h] = "enqueued"
        PROVE  /\ session_lock' /\ ~tainted'
               /\ ep'[h] = active_epoch_index' /\ Len(pending_inputs'[ep'[h]]) = 1
               /\ \A f \in Handlers \ {h} : Live(f)' => pc'[f] = "error"
    <3>1. CASE UseAfterFree(h)
      <4>1. UNCHANGED <<pc, session_lock, tainted, active_epoch_index, pending_inputs, ep>>
        BY <3>1 DEF UseAfterFree, lockVars, countVars, epochVars
      <4> QED
        BY <2>2, <4>1 DEF SerialWork, EnqueuedAlone, Live
    <3>2. CASE ~UseAfterFree(h)
      <4>1. /\ pc[h] = "idle" /\ rpc'[h] = "AdvanceState" /\ ep'[h] = active_epoch_index
            /\ session_lock' /\ ~tainted
            /\ UNCHANGED <<tainted, active_epoch_index, processing_lock>>
            /\ \E i \in Input : pending_inputs' =
                    [pending_inputs EXCEPT ![active_epoch_index] = Append(@, i)]
        BY <1>3, <2>2, <3>2 DEF Transits
      <4>2. \A f \in Handlers : ~Other(f)
        BY <1>2, <1>4, <4>1 DEF GoesOn, Live
      <4>3. \A f \in Handlers \ {h} : ~Live(f)
        <5> SUFFICES ASSUME NEW f \in Handlers \ {h}, Live(f) PROVE FALSE
          OBVIOUS
        <5>1. Live(f)' /\ rpc'[f] = "AdvanceState" /\ Live(h)'
          BY <1>3, <2>2, <4>2 DEF OnlyMoves, Live, Other
        <5> QED
          BY <1>7, <4>1, <5>1
      <4>4. pending_inputs[active_epoch_index] = <<>>
        BY <1>9, <4>1, <4>3 DEF SerialWork, InputHasHandler, Live, Working
      <4>5. PICK i \in Input : pending_inputs' =
                [pending_inputs EXCEPT ![active_epoch_index] = Append(@, i)]
        BY <4>1
      <4>6. pending_inputs'[active_epoch_index] = <<i>>
        BY <1>8, <4>4, <4>5
      <4>7. \A f \in Handlers \ {h} : ~Live(f)'
        BY <1>3, <4>3 DEF OnlyMoves, Live
      <4>8. Len(pending_inputs'[active_epoch_index]) = 1
        BY <4>6
      <4>9. /\ ep'[h] = active_epoch_index /\ active_epoch_index' = active_epoch_index
            /\ session_lock' /\ ~tainted'
        BY <4>1
      <4> QED
        BY <4>7, <4>8, <4>9
    <3> QED
      BY <3>1, <3>2
  <2> QED
    BY <2>1, <2>2 DEF EnqueuedAlone
<1>14. ASSUME TakesUp(h)
       PROVE  pc[h] = "enqueued" /\ Len(pending_inputs[ep[h]]) = 1
  <2>1. pc'[h] = "snapshot" /\ rpc'[h] = "AdvanceState" /\ ~Working(h)
        /\ pending_inputs[ep[h]] # <<>> /\ rpc[h] = "AdvanceState"
    BY <1>14 DEF TakesUp
  <2>2. pc[h] \in Talking \cup {"enqueued", "handoff"}
    BY <1>3, <2>1 DEF Transits, Talking
  <2>3. pc[h] \in {"enqueued", "handoff"}
    BY <2>1, <2>2 DEF Working, Processing, Talking
  <2>4. pc[h] # "handoff"
    BY <1>8, <2>1 DEF SerialWork, OneInput, Processing
  <2> QED
    BY <2>3, <2>4 DEF SerialWork, EnqueuedAlone
<1>15. OneInput'
  <2>1. ASSUME NEW g \in Handlers \ {h}, Processing(g)'
        PROVE  Len(pending_inputs'[ep'[g]]) = IF pc'[g] = "handoff" THEN 0 ELSE 1
    <3>1. /\ Processing(g) /\ ep'[g] = ep[g] /\ pc'[g] = pc[g] /\ rpc'[g] = rpc[g]
          /\ Live(g)' /\ rpc[g] = "AdvanceState" /\ ~Processing(h)
      BY <1>1, <1>3, <2>1 DEF OnlyMoves, Processing, Live, Talking, ProcessingExclusive
    <3>2. Len(pending_inputs[ep[g]]) = IF pc[g] = "handoff" THEN 0 ELSE 1
      BY <3>1 DEF SerialWork, OneInput
    <3>3. CASE Rests(h) \/ TakesUp(h) \/ \E e \in EpochIndices : Stores(h, e)
      BY <3>1, <3>2, <3>3 DEF Rests, TakesUp, Stores, epochState
    <3>4. CASE AddsLeaf(h) \/ \E status \in {"accepted", "skipped"} : Records(h, status)
      BY <3>1, <3>4 DEF AddsLeaf, Records, Working
    <3>5. ASSUME NEW e \in EpochIndices, \/ Enqueues(h, e) /\ rpc'[h] = "AdvanceState"
                                         \/ Deletes(h, e)
          PROVE  FALSE
      BY <1>7, <3>1, <3>5 DEF Enqueues, Deletes, Live
    <3>6. ASSUME NEW e \in EpochIndices, Finishes(h, e),
                 \/ MayFinish(h, e) /\ rpc'[h] = "FinishEpoch"
                 \/ pc[h] = "store" /\ ep[h] = e /\ rpc'[h] = rpc[h]
          PROVE  Len(pending_inputs'[ep'[g]]) = IF pc'[g] = "handoff" THEN 0 ELSE 1
      <4>1. pc[g] = "handoff"
        BY <1>11, <3>1, <3>6 DEF Working
      <4> QED
        BY <1>8, <1>12, <3>1, <3>2, <3>6, <4>1
    <3> QED
      BY <1>3, <3>3, <3>4, <3>5, <3>6 DEF EpochStep
  <2>2. ASSUME Processing(h)'
        PROVE  Len(pending_inputs'[ep'[h]]) = IF pc'[h] = "handoff" THEN 0 ELSE 1
    <3>1. CASE Rests(h)
      <4>1. UNCHANGED pending_inputs
        BY <3>1 DEF Rests, epochState
      <4>2. CASE Working(h)'
        <5>1. Working(h) /\ ep'[h] = ep[h] /\ pc'[h] # "handoff"
          BY <3>1, <4>2 DEF Rests, Working
        <5> QED
          BY <4>1, <5>1 DEF SerialWork, OneInput, Working
      <4>3. CASE ~Working(h)'
        <5>1. pc'[h] = "handoff"
          BY <2>2, <4>3 DEF Working
        <5>2. Processing(h) /\ (pc[h] = "handoff" \/ ~tainted')
          BY <1>3, <5>1 DEF Transits
        <5>3. pc[h] = "handoff"
          BY <3>1, <4>3, <5>2 DEF Rests, Working
        <5>4. ep'[h] = ep[h]
          BY <1>5, <5>3 DEF GoesOn
        <5> QED
          BY <4>1, <5>1, <5>2, <5>3, <5>4 DEF SerialWork, OneInput
      <4> QED
        BY <4>2, <4>3
    <3>2. CASE TakesUp(h)
      BY <1>14, <3>2 DEF TakesUp, epochState
    <3>3. CASE AddsLeaf(h)
      BY <3>3 DEF AddsLeaf, Working, SerialWork, OneInput
    <3>4. ASSUME NEW status \in {"accepted", "skipped"}, Records(h, status)
          PROVE  Len(pending_inputs'[ep'[h]]) = IF pc'[h] = "handoff" THEN 0 ELSE 1
      <4>1. pc'[h] = "handoff" /\ pending_inputs'[ep[h]] = <<>> /\ ep'[h] = ep[h]
        BY <1>10, <2>2, <3>4 DEF Processing, Talking, Records
      <4> QED
        BY <4>1
    <3>5. ASSUME NEW e \in EpochIndices,
                 Enqueues(h, e) \/ Deletes(h, e) \/ Stores(h, e) \/ Finishes(h, e)
          PROVE  FALSE
      BY <1>12, <2>2, <3>5 DEF Enqueues, Deletes, Stores, Processing, Talking
    <3> QED
      BY <1>3, <3>1, <3>2, <3>3, <3>4, <3>5 DEF EpochStep
  <2> QED
    BY <2>1, <2>2 DEF OneInput
<1>16. InputHasHandler'
  <2> SUFFICES ASSUME ~tainted', pending_inputs'[active_epoch_index'] # <<>>
               PROVE  \E g \in Handlers : pc'[g] = "enqueued" \/ Working(g)'
    BY DEF InputHasHandler
  <2>1. ASSUME NEW g \in Handlers \ {h}, pc[g] = "enqueued" \/ Working(g)
        PROVE  pc'[g] = "enqueued" \/ Working(g)'
    BY <1>3, <2>1 DEF OnlyMoves, Working, Processing
  <2>2. pending_inputs[active_epoch_index] # <<>> =>
            \E g \in Handlers : pc[g] = "enqueued" \/ Working(g)
    BY <1>3 DEF SerialWork, InputHasHandler
  <2>3. CASE Rests(h)
    <3>1. PICK g \in Handlers : pc[g] = "enqueued" \/ Working(g)
      BY <2>2, <2>3 DEF Rests, epochState
    <3>2. CASE g # h
      BY <2>1, <3>1, <3>2
    <3>3. CASE g = h /\ Working(h)
      BY <2>3, <3>3 DEF Rests
    <3>4. CASE g = h /\ pc[h] = "enqueued"
      <4>1. AdvanceStateAcked(h) \/ UseAfterFree(h)
        BY <1>5, <3>4, StepsAtLabels
      <4>2. CASE AdvanceStateAcked(h)
        BY <3>4, <4>2, EnqueuedTakesUp
      <4>3. CASE UseAfterFree(h)
        BY <3>4, <4>3 DEF UseAfterFree
      <4> QED
        BY <4>1, <4>2, <4>3
    <3> QED
      BY <3>1, <3>2, <3>3, <3>4
  <2>4. CASE TakesUp(h) \/ AddsLeaf(h)
    BY <2>4 DEF TakesUp, AddsLeaf, Working, Processing, Talking
  <2>5. ASSUME NEW status \in {"accepted", "skipped"}, Records(h, status) PROVE FALSE
    BY <1>10, <2>5
  <2>6. ASSUME NEW e \in EpochIndices, Enqueues(h, e) PROVE pc'[h] = "enqueued"
    BY <2>6 DEF Enqueues
  <2>7. ASSUME NEW e \in EpochIndices, Finishes(h, e) PROVE FALSE
    BY <1>12, <2>7
  <2>8. ASSUME NEW e \in EpochIndices, Stores(h, e), MayFinish(h, e) PROVE FALSE
    BY <1>11, <2>8 DEF Stores, epochState
  <2>9. ASSUME NEW e \in EpochIndices, Deletes(h, e)
        PROVE  \E g \in Handlers : pc'[g] = "enqueued" \/ Working(g)'
    <3>1. pending_inputs[active_epoch_index] # <<>> /\ pc[h] = "idle"
      BY <1>8, <2>9 DEF Deletes, ClearEpoch
    <3>2. ~Working(h)
      BY <3>1 DEF Working, Processing, Talking
    <3> QED
      BY <2>1, <2>2, <3>1, <3>2
  <2> QED
    BY <1>3, <2>3, <2>4, <2>5, <2>6, <2>7, <2>8, <2>9 DEF EpochStep
<1>17. \A g \in Handlers : pc'[g] \in Talking => ~tainted'
  <2>1. ASSUME NEW g \in Handlers \ {h}, pc'[g] \in Talking PROVE ~tainted'
    <3>1. pc[g] \in Talking /\ ~tainted /\ Live(g)
      BY <1>3, <2>1 DEF OnlyMoves, SerialWork, Live, Talking
    <3>2. SUFFICES ASSUME tainted' PROVE FALSE
      OBVIOUS
    <3>3. pc[h] \in Talking \cup {"enqueued"}
      BY <1>3, <3>1, <3>2 DEF Transits
    <3>4. pc[h] \in Talking
      BY <3>1, <3>3 DEF SerialWork, EnqueuedAlone, Talking
    <3>5. Other(g) /\ Other(h) => g = h
      BY <1>6 DEF Other
    <3> QED
      BY <3>1, <3>4, <3>5, OneTalks
  <2>2. ASSUME pc'[h] \in Talking PROVE ~tainted'
    <3>1. CASE pc[h] \in Talking \cup {"enqueued"} /\ UNCHANGED tainted
      BY <3>1 DEF SerialWork, EnqueuedAlone
    <3>2. CASE pc[h] = "handoff"
      <4>1. ResumeProcessing(h) \/ UseAfterFree(h)
        BY <1>5, <3>2, StepsAtLabels
      <4>2. pending_inputs[ep[h]] = <<>>
        BY <1>1, <1>8, <3>2 DEF SerialWork, OneInput, Processing, LabelsMatch
      <4>3. ResumeProcessing(h) => pc'[h] = "done"
        BY <1>1, <4>2 DEF ResumeProcessing, ProcessNext, Return, epochVars, TypeOK, HandlersOK
      <4>4. UseAfterFree(h) => pc'[h] = "handoff"
        BY <3>2 DEF UseAfterFree
      <4> QED
        BY <2>2, <4>1, <4>3, <4>4 DEF Talking
    <3> QED
      BY <1>3, <2>2, <3>1, <3>2 DEF Transits
  <2> QED
    BY <2>1, <2>2
<1>18. \A g \in Handlers : pc'[g] = "shutdown" => ~processing_lock'
  <2>1. pc'[h] = "shutdown" => ~processing_lock'
    BY <1>3 DEF Transits, SerialWork
  <2>2. ASSUME NEW g \in Handlers \ {h}, pc'[g] = "shutdown", processing_lock' PROVE FALSE
    <3>1. pc[g] = "shutdown" /\ ~processing_lock
      BY <1>3, <2>2 DEF OnlyMoves, SerialWork
    <3>2. ~Processing(h) /\ Processing(h)'
      BY <1>3, <2>2, <3>1 DEF ProcessingStep
    <3>3. pc[h] \in Talking \cup {"enqueued", "handoff"} /\ rpc'[h] = "AdvanceState"
      BY <1>3, <3>2 DEF Transits, Processing
    <3>4. pc[h] # "idle"
      BY <3>3 DEF Talking
    <3>5. rpc'[h] = rpc[h]
      BY <1>5, <3>4 DEF GoesOn
    <3>6. pc[h] = "enqueued"
      BY <3>2, <3>3, <3>5 DEF Processing
    <3> QED
      BY <3>1, <3>6 DEF SerialWork, EnqueuedAlone, Live
  <2> QED
    BY <2>1, <2>2
<1> QED
  BY <1>13, <1>15, <1>16, <1>17, <1>18 DEF SerialWork

-----------------------------------------------------------------------------
(* While the session is there, the server-manager does not crash *)

\* A step that does not use what is gone crashes only if it asks for a check-in
\* while another handler waits for one.
AsksAgain(h) ==
    /\ sessions_waiting_checkin # None
    /\ \/ pc[h] \in {"run", "root_hash", "check_hash", "enqueued"}
       \/ pc[h] = "handoff" /\ pending_inputs[ep[h]] # <<>>
       \/ pc[h] = "query" /\ scheduled[h] > 0
       \/ pc[h] = "idle" /\ pending_inputs[active_epoch_index] = <<>>

\* Only a use of what was destroyed, or a second registration for a check-in, crashes.
LEMMA CrashSteps ==
    ASSUME TypeOK, ~crashed, exists, NEW h \in Handlers, Request(h) \/ Step(h)
    PROVE  ~crashed' \/ UseAfterFree(h) \/ AsksAgain(h)
<1> USE DEF lockVars, countVars, epochVars, machineVars, localVars, Receive, Refuse, TriggerCheckin
<1>1. CASE \E e \in EpochIndices, b \in BOOLEAN : AdvanceState(h, e, b)
  BY <1>1 DEF AdvanceState
<1>2. CASE \E b \in BOOLEAN : InspectState(h, b)
  BY <1>2 DEF InspectState, ProcessPendingQuery, AsksAgain
<1>3. CASE \E e \in EpochIndices, b, store \in BOOLEAN : FinishEpoch(h, e, b, store)
  BY <1>3 DEF FinishEpoch
<1>4. CASE \/ \E e \in EpochIndices : DeleteEpoch(h, e)
           \/ EndSession(h)
           \/ \E r \in {"GetSessionStatus", "GetEpochStatus"}, e \in EpochIndices :
                    GetStatus(h, r, e)
  BY <1>4 DEF DeleteEpoch, EndSession, GetStatus
<1>5. CASE AdvanceStateAcked(h)
  BY <1>5 DEF AdvanceStateAcked, At, TakeUpInput, AsksAgain
<1>6. CASE ResumeProcessing(h)
  BY <1>6 DEF ResumeProcessing, At, ProcessNext, TakeUpInput, AsksAgain
<1>7. CASE \E b \in BOOLEAN : ResumeQuery(h, b)
  BY <1>7 DEF ResumeQuery, Resume, At, ProcessPendingQuery, AsksAgain
<1>8. CASE InputRun(h) \/ QueryRun(h)
  BY <1>8 DEF InputRun, QueryRun, RunMachine, At, AsksAgain
<1>9. CASE InputAccepted(h) \/ InputSkipped(h)
  BY <1>9 DEF InputAccepted, InputSkipped, At, CompleteInput, ServeQueryFirst, ProcessNext,
      TakeUpInput, AsksAgain
<1>10. CASE SnapshotTaken(h) \/ SnapshotCheckedIn(h) \/ RolledBack(h)
  BY <1>10 DEF SnapshotTaken, SnapshotCheckedIn, CheckedIn, RolledBack, AwaitCheckin
<1>11. CASE VouchersProved(h) \/ NoticesProved(h) \/ InputRolledBack(h) \/ QueryRolledBack(h)
  BY <1>11 DEF VouchersProved, NoticesProved, InputRolledBack, QueryRolledBack
<1>12. CASE MachineFails(h) \/ CallFails(h) \/ Stored(h) \/ ShutDown(h) \/ ErrorAcked(h)
            \/ ResumeTainting(h)
  BY <1>12 DEF MachineFails, CallFails, Stored, ShutDown, ErrorAcked, ResumeTainting
<1>13. CASE Acked(h)
  BY <1>13 DEF Acked
<1> QED
  BY <1>1, <1>2, <1>3, <1>4, <1>5, <1>6, <1>7, <1>8, <1>9, <1>10, <1>11, <1>12, <1>13
      DEF Request, Step

\* No tag in the completion queue is stray.
LEMMA NoStray ==
    ASSUME ~tainted => Handover, tainted => TaintedHandover, NEW c \in Handlers \cup {Null}
    PROVE  ~ResumeStray(c)
<1>1. ASSUME c = Null PROVE ~ResumeStray(c)
  <2>1. scheduled[Null] = 0
    BY DEF Handover, TaintedHandover
  <2> QED
    BY <1>1, <2>1 DEF ResumeStray
<1>2. ASSUME c \in Handlers PROVE ~ResumeStray(c)
  <2>1. scheduled[c] > 0 => pc[c] \in {"handoff", "query", "tainting"}
    BY <1>2 DEF Handover, TagsInPlace, TaintedHandover, TaintedQuery
  <2>2. ResumeStray(c) => scheduled[c] > 0 /\ pc[c] \notin {"handoff", "query", "tainting"}
    BY <1>2 DEF ResumeStray
  <2> QED
    BY <2>1, <2>2
<1> QED
  BY <1>1, <1>2

\* If AdvanceStates do not overlap, what a handler uses is there.
LEMMA NothingFreed ==
    ASSUME Inv, EpochsInPlace, SerialWork, ~tainted => Handover, tainted => TaintedHandover,
           exists, NEW h \in Handlers
    PROVE  ~UseAfterFree(h)
<1>1. TypeOK /\ LabelsMatch
  BY DEF Inv
<1> SUFFICES ASSUME UseAfterFree(h) PROVE FALSE
  OBVIOUS
<1>2. /\ ~Valid(h)
      /\ \/ pc[h] \in Talking \cup {"enqueued", "store", "handoff"}
         \/ pc[h] = "query" /\ scheduled[h] > 0
  BY DEF UseAfterFree
<1>3. epoch_state[ep[h]] # "absent"
  BY <1>1, <1>2 DEF EpochsInPlace, EpochsThere, StoresInPlace, LabelsMatch, Accepted, Talking
<1>4. Processing(h) /\ pc[h] # "handoff" => pending_inputs[ep[h]] # <<>>
  BY DEF EpochsInPlace, WorkersInPlace, Working
<1>5. ASSUME rpc[h] = "InspectState" PROVE pending_query[ep[h]] # None
  <2>1. CASE pc[h] \in Talking
    BY <1>5, <2>1, ConstantsAssumption
        DEF SerialWork, Handover, QueryInPlace, Asking, Querying, Owes
  <2>2. CASE pc[h] = "query" /\ tainted
    BY <2>2, ConstantsAssumption DEF TaintedHandover, TaintedQuery
  <2>3. CASE pc[h] = "query" /\ ~tainted
    BY <1>2, <2>3, ConstantsAssumption
        DEF Handover, QueryInPlace, Asking, Called, Parked, Talking
  <2>4. pc[h] \in Talking \cup {"query"}
    BY <1>1, <1>2, <1>5 DEF LabelsMatch, EpochsInPlace, StoresInPlace
  <2> QED
    BY <2>1, <2>2, <2>3, <2>4
<1> QED
  BY <1>2, <1>3, <1>4, <1>5 DEF Valid

\* Nobody asks for a check-in while another handler waits for one.
LEMMA NoneAsksAgain ==
    ASSUME Inv, Overlapping, CheckinsInPlace, EpochsInPlace, SerialWork,
           ~tainted => Handover, "queue" \in clients', clients' = {d \in clients : KeepsTo(d)},
           NEW h \in Handlers, Request(h) \/ Step(h)
    PROVE  ~AsksAgain(h)
<1>1. TypeOK /\ LabelsMatch /\ ProcessingExclusive /\ "queue" \in clients
  BY DEF Inv
<1>2. ASSUME AsksAgain(h)
      PROVE  FALSE
  <2>1. PICK g \in Handlers : pc[g] \in {"snapshot_checkin", "rollback_checkin"}
    BY <1>2 DEF AsksAgain, CheckinsInPlace
  <2>2. pc[g] \in Talking /\ Live(g) /\ g # h /\ ~tainted /\ Handover
    BY <1>2, <2>1 DEF AsksAgain, SerialWork, Talking, Live
  <2>3. Working(g) \/ Querying(g)
    BY <1>1, <2>1, <2>2 DEF LabelsMatch, Working, Processing, Querying
  <2>4. CASE pc[h] \in {"run", "root_hash", "check_hash"}
    <3>1. pc[h] \in Talking /\ Live(h)
      BY <2>4 DEF Talking, Live
    <3>2. Other(g) /\ Other(h) => g = h
      BY DEF Overlapping, Other
    <3> QED
      BY <2>2, <3>1, <3>2, OneTalks
  <2>5. CASE pc[h] = "enqueued"
    BY <2>1, <2>2, <2>5 DEF SerialWork, EnqueuedAlone
  <2>6. CASE pc[h] = "handoff" /\ pending_inputs[ep[h]] # <<>>
    <3>1. Processing(h) /\ ep[h] \in EpochIndices
      BY <1>1, <2>6 DEF Processing, LabelsMatch, TypeOK, HandlersOK
    <3>2. Len(pending_inputs[ep[h]]) = 0 /\ pending_inputs[ep[h]] \in Seq(Input)
      BY <1>1, <2>6, <3>1 DEF SerialWork, OneInput, TypeOK, LogsOK
    <3> QED
      BY <2>6, <3>2
  <2>7. CASE pc[h] = "query" /\ scheduled[h] > 0
    <3>1. PICK p \in Handlers : pc[p] = "handoff"
      BY <2>2, <2>7 DEF Handover, QueryInPlace, Called, Parked
    <3>2. Processing(p) /\ p # g
      BY <1>1, <2>1, <3>1 DEF Processing, LabelsMatch
    <3>3. Other(h)
      BY <1>1, <2>7 DEF Other, Live, LabelsMatch
    <3>4. ~Querying(g)
      BY <2>2, <3>3 DEF Overlapping, Other, Querying
    <3> QED
      BY <1>1, <2>3, <3>2, <3>4 DEF ProcessingExclusive, Working
  <2>8. CASE pc[h] = "idle" /\ pending_inputs[active_epoch_index] = <<>>
    <3>1. Arrives(h)
      BY <1>1, <1>2, <2>8, RequestArrives, StepGoesOn DEF GoesOn, Live
    <3>2. ~Other(g)
      BY <1>2, <3>1, FindsAdvances
    <3>3. Working(g)
      BY <2>2, <2>3, <3>2 DEF Other, Querying
    <3> QED
      BY <1>1, <2>8, <3>3, WorkIsActive DEF EpochsInPlace, WorkersInPlace
  <2> QED
    BY <1>2, <2>4, <2>5, <2>6, <2>7, <2>8 DEF AsksAgain
<1> QED
  BY <1>2

-----------------------------------------------------------------------------
(* In a tainted session *)

\* A request for a tainted session is refused, or ends at once, or ends the session.
LEMMA RequestsIfTainted ==
    ASSUME TypeOK, tainted, NEW h \in Handlers, Request(h)
    PROVE  /\ pc'[h] \in {"error", "ack", "shutdown"}
           /\ UNCHANGED <<scheduled, resume_on_exit>>
           /\ UNCHANGED pending_query \/ rpc'[h] = "DeleteEpoch"
<1>1. pc \in [Handlers -> Labels] /\ rpc \in [Handlers -> RpcKinds]
  BY DEF TypeOK, HandlersOK
<1> USE DEF lockVars, countVars, epochVars, machineVars, localVars, Receive, Refuse
<1>2. CASE \E e \in EpochIndices, b \in BOOLEAN : AdvanceState(h, e, b)
  BY <1>1, <1>2 DEF AdvanceState, AdvanceStateCode
<1>3. CASE \E b \in BOOLEAN : InspectState(h, b)
  BY <1>1, <1>3 DEF InspectState, InspectStateCode
<1>4. CASE \E e \in EpochIndices, b, store \in BOOLEAN : FinishEpoch(h, e, b, store)
  BY <1>1, <1>4 DEF FinishEpoch, FinishEpochCode
<1>5. CASE \/ EndSession(h) \/ \E e \in EpochIndices : DeleteEpoch(h, e)
           \/ \E r \in {"GetSessionStatus", "GetEpochStatus"}, e \in EpochIndices :
                    GetStatus(h, r, e)
  BY <1>1, <1>5 DEF EndSession, DeleteEpoch, GetStatus
<1> QED
  BY <1>2, <1>3, <1>4, <1>5 DEF Request

\* Every step in a session that is tainted keeps its queries called, by a coroutine that
\* waits for them.
LEMMA TaintedHandoverKept ==
    ASSUME Inv, Overlapping, Overlapping', OthersLabels, EpochsInPlace, SerialWork,
           TaintedHandover, tainted, exists, exists', "queue" \in clients, "queue" \in clients',
           NEW h \in Handlers, ~UseAfterFree(h), Request(h) \/ Step(h)
    PROVE  TaintedHandover'
<1>1. TypeOK /\ LabelsMatch
  BY DEF Inv
<1>2. Arrives(h) \/ GoesOn(h)
  BY <1>1, RequestArrives, StepGoesOn
<1>3. OnlyMoves(h) /\ (pc[h] # "idle" => GoesOn(h) /\ Step(h))
  BY <1>1, <1>2, RequestArrives DEF Arrives, GoesOn
<1>4. /\ scheduled \in [Handlers \cup {Null} -> Nat] /\ pc \in [Handlers -> Labels]
      /\ \A g \in Handlers : scheduled[g] \in Nat
  BY <1>1 DEF TypeOK, LocalsOK, HandlersOK
<1>5. \A g \in Handlers : TaintedQuery(g)
  BY DEF TaintedHandover
<1>6. ASSUME Other(h), NEW g \in Handlers \ {h}
      PROVE  pc[g] # "query" /\ (Accepted(g) => resume_on_exit[g] \in {None, Null})
  <2>1. ~Other(g)
    BY <1>6 DEF Overlapping, Other
  <2> QED
    BY <1>1, <1>5, <2>1 DEF Other, LabelsMatch, TaintedQuery, Accepted, Live
<1>7. \A g \in Handlers \ {h} : pc'[g] = pc[g] /\ rpc'[g] = rpc[g] /\ ep'[g] = ep[g]
            /\ resume_on_exit'[g] = resume_on_exit[g]
  BY <1>3 DEF OnlyMoves
\* h leaves the completion queue alone.
<1>8. ASSUME UNCHANGED <<scheduled, resume_on_exit>>,
             pc[h] \notin {"handoff", "query", "tainting"},
             pc'[h] \in {"error", "ack", "shutdown", "done"},
             pc[h] = "idle" \/ ~Accepted(h)' \/ (rpc'[h] = rpc[h] /\ Accepted(h)),
             UNCHANGED pending_query \/ \A g \in Handlers \ {h} : pc[g] # "query"
      PROVE  TaintedHandover'
  <2>1. ASSUME NEW p, p \in Handlers, Parked(p) PROVE Parked(p)'
    BY <1>7, <1>8, <2>1 DEF Parked
  <2>2. TaintedQuery(h)'
    <3>1. scheduled[h] = 0
      BY <1>4, <1>5, <1>8 DEF TaintedQuery
    <3>2. ASSUME Accepted(h)', resume_on_exit[h] \notin {None, Null}
          PROVE  rpc'[h] = "InspectState" /\ Parked(resume_on_exit[h])'
      <4>1. Accepted(h) /\ rpc'[h] = rpc[h]
        BY <1>5, <1>8, <3>2 DEF TaintedQuery
      <4>2. rpc[h] = "InspectState" /\ Parked(resume_on_exit[h])
        BY <1>5, <3>2, <4>1 DEF TaintedQuery
      <4>3. resume_on_exit[h] \in Handlers
        BY <4>2 DEF Parked
      <4>4. Parked(resume_on_exit[h])'
        BY <1>7, <1>8, <4>2, <4>3 DEF Parked
      <4> QED
        BY <4>1, <4>2, <4>4
    <3> QED
      BY <1>8, <3>1, <3>2 DEF TaintedQuery
  <2>3. ASSUME NEW g \in Handlers \ {h} PROVE TaintedQuery(g)'
    <3>1. ASSUME Accepted(g), resume_on_exit[g] \notin {None, Null}
          PROVE  rpc[g] = "InspectState" /\ Parked(resume_on_exit[g])'
      <4>1. rpc[g] = "InspectState" /\ Parked(resume_on_exit[g])
        BY <1>5, <3>1 DEF TaintedQuery
      <4> QED
        BY <1>7, <1>8, <4>1 DEF Parked
    <3>2. ASSUME pc[g] = "query"
          PROVE  /\ pending_query'[ep[g]] \in Handlers
                 /\ pc'[pending_query'[ep[g]]] = "tainting"
                 /\ scheduled[pending_query'[ep[g]]] = 0
      BY <1>5, <1>7, <1>8, <3>2 DEF TaintedQuery
    <3> QED
      BY <1>5, <1>7, <1>8, <3>1, <3>2 DEF TaintedQuery, Accepted
  <2>4. scheduled'[Null] = 0
    BY <1>8 DEF TaintedHandover
  <2> QED
    BY <2>2, <2>3, <2>4 DEF TaintedHandover
\* h is not an AdvanceState, ends and resumes one that waits for it.
<1>9. ASSUME Other(h), pc'[h] \in {"error", "done"}, NEW p \in Handlers \ {h},
             pc[p] \in {"handoff", "tainting"}, scheduled[p] = 0,
             scheduled'[h] = 0, scheduled'[p] = 1,
             \A c \in (Handlers \cup {Null}) \ {h, p} : scheduled'[c] = scheduled[c]
      PROVE  TaintedHandover'
  <2>1. TaintedQuery(h)'
    BY <1>4, <1>9 DEF TaintedQuery, Accepted
  <2>2. ASSUME NEW g \in Handlers \ {h} PROVE TaintedQuery(g)'
    <3>1. scheduled'[g] = IF g = p THEN 1 ELSE scheduled[g]
      BY <1>4, <1>9
    <3> QED
      BY <1>5, <1>6, <1>7, <1>9, <3>1 DEF TaintedQuery, Accepted
  <2>3. scheduled'[Null] = 0
    BY <1>4, <1>9, ConstantsAssumption DEF TaintedHandover
  <2> QED
    BY <2>1, <2>2, <2>3 DEF TaintedHandover
\* h is an AdvanceState that is resumed and ends.
<1>10. ASSUME Resume(h), pc[h] \in {"handoff", "tainting"}, pc'[h] = "done",
              UNCHANGED pending_query
       PROVE  TaintedHandover'
  <2>1. scheduled[h] = 1 /\ scheduled' = [scheduled EXCEPT ![h] = 0]
    <3>1. scheduled[h] > 0 /\ scheduled' = [scheduled EXCEPT ![h] = scheduled[h] - 1]
      BY <1>10 DEF Resume
    <3>2. scheduled[h] = 1
      BY <1>5, <3>1 DEF TaintedQuery
    <3> QED
      BY <3>1, <3>2
  <2>2. TaintedQuery(h)'
    BY <1>4, <1>10, <2>1 DEF TaintedQuery, Accepted
  <2>3. ASSUME NEW g \in Handlers \ {h} PROVE TaintedQuery(g)'
    <3>1. ASSUME Accepted(g), resume_on_exit[g] \notin {None, Null}
          PROVE  rpc[g] = "InspectState" /\ Parked(resume_on_exit[g])'
      <4>1. rpc[g] = "InspectState" /\ Parked(resume_on_exit[g])
        BY <1>5, <3>1 DEF TaintedQuery
      <4>2. resume_on_exit[g] # h
        BY <2>1, <4>1 DEF Parked
      <4> QED
        BY <1>4, <1>7, <2>1, <4>1, <4>2 DEF Parked
    <3>2. ASSUME pc[g] = "query"
          PROVE  /\ pending_query'[ep[g]] \in Handlers
                 /\ pc'[pending_query'[ep[g]]] = "tainting"
                 /\ scheduled'[pending_query'[ep[g]]] = 0
      <4>1. /\ pending_query[ep[g]] \in Handlers /\ pc[pending_query[ep[g]]] = "tainting"
            /\ scheduled[pending_query[ep[g]]] = 0
        BY <1>5, <3>2 DEF TaintedQuery
      <4> QED
        BY <1>4, <1>7, <1>10, <2>1, <4>1
    <3>3. scheduled'[g] = scheduled[g]
      BY <1>4, <2>1
    <3> QED
      BY <1>5, <1>7, <3>1, <3>2, <3>3 DEF TaintedQuery, Accepted
  <2>4. scheduled'[Null] = 0
    BY <1>4, <2>1, ConstantsAssumption DEF TaintedHandover
  <2> QED
    BY <2>2, <2>3, <2>4 DEF TaintedHandover
<1>11. pc[h] \in {"idle", "error", "ack", "handoff", "tainting", "query", "store", "shutdown"}
  BY <1>2, <1>4 DEF SerialWork, EnqueuedAlone, Arrives, GoesOn, Live, Labels
<1>12. CASE pc[h] = "idle"
  <2>1. Request(h) /\ Arrives(h)
    BY <1>1, <1>2, <1>12, StepGoesOn DEF GoesOn, Live
  <2>2. /\ pc'[h] \in {"error", "ack", "shutdown"}
        /\ UNCHANGED <<scheduled, resume_on_exit>>
        /\ UNCHANGED pending_query \/ rpc'[h] = "DeleteEpoch"
    BY <1>1, <2>1, RequestsIfTainted
  <2>3. ASSUME rpc'[h] = "DeleteEpoch", NEW g \in Handlers \ {h} PROVE pc[g] # "query"
    <3>1. Live(h)'
      BY <2>2 DEF Live
    <3>2. ~Live(g)'
      BY <2>3, <3>1 DEF Overlapping
    <3> QED
      BY <1>7, <3>2 DEF Live
  <2> QED
    BY <1>8, <1>12, <2>2, <2>3
<1>13. CASE pc[h] = "error"
  <2>1. /\ pc'[h] = "done" /\ UNCHANGED <<scheduled, resume_on_exit, pending_query>>
    BY <1>1, <1>3, <1>13, StepsAtLabels DEF ErrorAcked, localVars, TypeOK, HandlersOK
  <2> QED
    BY <1>8, <1>13, <2>1 DEF Accepted
<1>14. CASE pc[h] = "ack"
  <2>1. /\ pc' = [pc EXCEPT ![h] = "done"] /\ UnwindInspectState(h)
        /\ UNCHANGED <<resume_on_exit, pending_query>>
    BY <1>3, <1>14, StepsAtLabels DEF Acked, localVars
  <2>2. pc'[h] = "done" /\ Other(h) /\ Accepted(h) /\ scheduled[h] = 0
    BY <1>4, <1>5, <1>14, <2>1 DEF OthersLabels, Other, Live, Accepted, TaintedQuery
  <2>3. CASE UNCHANGED scheduled
    BY <1>8, <1>14, <2>1, <2>2, <2>3 DEF Accepted
  <2>4. CASE resume_on_exit[h] \notin {None, Null} /\ Schedule(resume_on_exit[h])
    <3>1. PICK p \in Handlers \ {h} :
                p = resume_on_exit[h] /\ pc[p] = "handoff" /\ scheduled[p] = 0
      BY <1>5, <1>14, <2>2, <2>4 DEF TaintedQuery, Parked
    <3>2. /\ scheduled'[h] = 0 /\ scheduled'[p] = 1
          /\ \A c \in (Handlers \cup {Null}) \ {h, p} : scheduled'[c] = scheduled[c]
      BY <1>4, <2>2, <2>4, <3>1 DEF Schedule
    <3> QED
      BY <1>9, <1>14, <2>2, <3>1, <3>2
  <2> QED
    BY <2>1, <2>3, <2>4 DEF UnwindInspectState
<1>15. CASE pc[h] = "handoff"
  <2>1. ResumeProcessing(h)
    BY <1>3, <1>15, StepsAtLabels
  <2>2. pending_inputs[ep[h]] = <<>>
    <3>1. Processing(h) /\ ep[h] \in EpochIndices
      BY <1>1, <1>15 DEF Processing, LabelsMatch, TypeOK, HandlersOK
    <3>2. Len(pending_inputs[ep[h]]) = 0 /\ pending_inputs[ep[h]] \in Seq(Input)
      BY <1>1, <1>15, <3>1 DEF SerialWork, OneInput, TypeOK, LogsOK
    <3> QED
      BY <3>2
  <2>3. pc'[h] = "done" /\ Resume(h) /\ UNCHANGED pending_query
    BY <1>4, <2>1, <2>2 DEF ResumeProcessing, ProcessNext, Return, epochVars
  <2> QED
    BY <1>10, <1>15, <2>3
<1>16. CASE pc[h] = "tainting"
  <2>1. pc'[h] = "done" /\ Resume(h) /\ UNCHANGED pending_query
    BY <1>3, <1>4, <1>16, StepsAtLabels DEF ResumeTainting
  <2> QED
    BY <1>10, <1>16, <2>1
<1>17. CASE pc[h] = "query"
  <2>1. PICK b \in BOOLEAN : ResumeQuery(h, b)
    BY <1>3, <1>17, StepsAtLabels
  <2>2. PICK p \in Handlers : /\ p = pending_query[ep[h]] /\ pc[p] = "tainting"
                              /\ scheduled[p] = 0 /\ scheduled[h] = 1
    BY <1>5, <1>17 DEF TaintedQuery
  <2>3. p # h /\ p # Null
    BY <1>17, <2>2, ConstantsAssumption
  <2>4. /\ scheduled' = [scheduled EXCEPT ![h] = @ - 1, ![p] = @ + 1]
        /\ pc'[h] = "error"
    BY <1>4, <2>1, <2>2, <2>3 DEF ResumeQuery
  <2>5. /\ scheduled'[h] = 0 /\ scheduled'[p] = 1
        /\ \A c \in (Handlers \cup {Null}) \ {h, p} : scheduled'[c] = scheduled[c]
    BY <1>4, <2>2, <2>3, <2>4
  <2>6. Other(h)
    BY <1>1, <1>17 DEF Other, Live, LabelsMatch
  <2> QED
    BY <1>9, <2>2, <2>3, <2>4, <2>5, <2>6
<1>18. CASE pc[h] = "store"
  <2>1. Other(h) /\ Accepted(h) /\ rpc'[h] = rpc[h]
    BY <1>3, <1>18 DEF OthersLabels, Other, Live, Accepted, GoesOn
  <2>2. UNCHANGED <<scheduled, resume_on_exit>> /\ pc'[h] \in {"ack", "error"}
    BY <1>3, <1>4, <1>18, StepsAtLabels DEF Stored, FinishAndStartEpoch, CallFails, localVars
  <2> QED
    BY <1>6, <1>8, <1>18, <2>1, <2>2
<1>19. CASE pc[h] = "shutdown"
  <2>1. ~ShutDown(h)
    BY DEF ShutDown
  <2>2. UNCHANGED <<scheduled, resume_on_exit, pending_query>> /\ pc'[h] = "error"
    BY <1>3, <1>4, <1>19, <2>1, StepsAtLabels DEF CallFails, localVars
  <2> QED
    BY <1>8, <1>19, <2>2 DEF Accepted
<1> QED
  BY <1>11, <1>12, <1>13, <1>14, <1>15, <1>16, <1>17, <1>18, <1>19

\* The step that taints the session calls the query that waits, or resumes the
\* coroutine that waits for the query that failed.
LEMMA TaintHandsOver ==
    ASSUME Inv, Overlapping, OthersLabels, EpochsInPlace, SerialWork, Handover,
           ~tainted, tainted', exists, "queue" \in clients,
           NEW h \in Handlers, ~UseAfterFree(h), Request(h) \/ Step(h)
    PROVE  TaintedHandover'
<1>1. TypeOK /\ LabelsMatch /\ ProcessingExclusive
  BY DEF Inv
<1>2. pc[h] \in Talking \cup {"enqueued"}
  BY <1>1, TransitSteps DEF Transits
<1>3. OnlyMoves(h) /\ Step(h) /\ Live(h)
  BY <1>1, <1>2, RequestArrives, StepGoesOn DEF Arrives, GoesOn, Talking
<1>4. /\ scheduled \in [Handlers \cup {Null} -> Nat] /\ pc \in [Handlers -> Labels]
      /\ \A g \in Handlers : scheduled[g] \in Nat
      /\ active_epoch_index \in EpochIndices
      /\ pending_query \in [EpochIndices -> Handlers \cup {None, Null}]
  BY <1>1 DEF TypeOK, LocalsOK, HandlersOK, SessionOK, EpochsOK
<1>5. pc[h] \in Talking /\ scheduled[h] = 0
  <2>1. pc[h] # "enqueued"
    BY <1>3, StepsAtLabels, EnqueuedTakesUp
  <2> QED
    BY <1>2, <1>4, <2>1 DEF Handover, TagsInPlace, Talking
<1>6. \A g \in Handlers \ {h} : pc'[g] = pc[g] /\ rpc'[g] = rpc[g] /\ ep'[g] = ep[g]
            /\ resume_on_exit'[g] = resume_on_exit[g]
  BY <1>3 DEF OnlyMoves
<1>7. \A g \in Handlers : QueryInPlace(g) /\ TagsInPlace(g)
  BY DEF Handover
<1>8. CASE Working(h) /\ TaintAdvanceState(h) /\ UNCHANGED resume_on_exit
  <2>1. \A p : ~Parked(p)
    BY <1>1, <1>8 DEF Parked, Working, Processing, LabelsMatch, ProcessingExclusive
  <2>2. \A g \in Handlers : Live(g) => resume_on_exit[g] \in {None, Null}
    BY <1>7, <2>1 DEF QueryInPlace, Owes
  <2>3. ASSUME pending_query[active_epoch_index] = None PROVE TaintedHandover'
    <3>1. UNCHANGED scheduled /\ pc'[h] = "done"
      BY <1>4, <1>8, <2>3 DEF TaintAdvanceState
    <3>2. \A g \in Handlers : pc[g] # "query"
      BY <1>1, <2>3, NobodyAsks DEF Asking
    <3>3. \A g \in Handlers : TaintedQuery(g)'
      BY <1>5, <1>6, <1>7, <1>8, <2>2, <3>1, <3>2
          DEF TaintedQuery, TagsInPlace, QueryInPlace, Accepted, Live
    <3>4. scheduled'[Null] = 0
      BY <3>1 DEF Handover
    <3> QED
      BY <3>3, <3>4 DEF TaintedHandover
  <2>4. ASSUME pending_query[active_epoch_index] # None PROVE TaintedHandover'
    <3>1. PICK q \in Handlers \ {h} : Waits(q) /\ pending_query[active_epoch_index] = q
      BY <1>8, <2>4, FoundQueryWaits
    <3>2. /\ pc'[h] = "tainting" /\ Schedule(q) /\ pending_query'[active_epoch_index] = h
      BY <1>4, <1>8, <2>4, <3>1 DEF TaintAdvanceState
    <3>3. /\ scheduled[q] = 0 /\ scheduled'[q] = 1 /\ pc[q] = "query" /\ ep[q] = active_epoch_index
          /\ \A c \in (Handlers \cup {Null}) \ {q} : scheduled'[c] = scheduled[c]
      BY <1>4, <1>7, <3>1, <3>2 DEF Schedule, Waits, QueryInPlace, Asking
    <3>4. ASSUME NEW g \in Handlers, pc[g] = "query" PROVE g = q
      BY <1>1, <3>3, <3>4 DEF Overlapping, Live, LabelsMatch
    <3>5. TaintedQuery(h)'
      BY <1>5, <1>8, <2>2, <3>2, <3>3 DEF TaintedQuery, Accepted, Live, Talking
    <3>6. TaintedQuery(q)'
      BY <1>5, <1>6, <2>2, <3>2, <3>3 DEF TaintedQuery, Accepted, Live
    <3>7. ASSUME NEW g \in Handlers \ {h, q} PROVE TaintedQuery(g)'
      <4>1. pc'[g] # "query" /\ scheduled'[g] = scheduled[g] /\ pc'[g] = pc[g]
            /\ resume_on_exit'[g] = resume_on_exit[g]
        BY <1>6, <3>3, <3>4
      <4> QED
        BY <1>7, <2>2, <4>1 DEF TaintedQuery, TagsInPlace, QueryInPlace, Accepted, Live
    <3>8. scheduled'[Null] = 0
      BY <3>3, ConstantsAssumption DEF Handover
    <3> QED
      BY <3>5, <3>6, <3>7, <3>8 DEF TaintedHandover
  <2> QED
    BY <2>3, <2>4
<1>9. CASE /\ Querying(h) /\ UnwindInspectState(h) /\ pc'[h] = "error"
           /\ UNCHANGED <<pending_query, resume_on_exit>>
  <2>1. Other(h)
    BY <1>3, <1>9 DEF Other, Querying
  <2>2. ASSUME NEW g \in Handlers \ {h}
        PROVE  /\ pc'[g] # "query" /\ ~Owes(g) /\ pc'[g] = pc[g]
               /\ resume_on_exit'[g] = resume_on_exit[g]
    <3>1. ~Other(g)
      BY <2>1 DEF Overlapping, Other
    <3> QED
      BY <1>1, <1>6, <3>1, AskersAreOther DEF Asking
  <2>3. CASE UNCHANGED scheduled
    <3>1. \A g \in Handlers : TaintedQuery(g)'
      BY <1>5, <1>7, <1>9, <2>2, <2>3
          DEF TaintedQuery, TagsInPlace, QueryInPlace, Accepted, Owes, Live
    <3> QED
      BY <2>3, <3>1 DEF TaintedHandover, Handover
  <2>4. CASE resume_on_exit[h] \notin {None, Null} /\ Schedule(resume_on_exit[h])
    <3>1. PICK p \in Handlers \ {h} :
                p = resume_on_exit[h] /\ pc[p] = "handoff" /\ scheduled[p] = 0
      BY <1>3, <1>5, <1>7, <2>4 DEF QueryInPlace, Owes, Parked, Talking
    <3>2. /\ scheduled'[p] = 1
          /\ \A c \in (Handlers \cup {Null}) \ {p} : scheduled'[c] = scheduled[c]
      BY <1>4, <2>4, <3>1 DEF Schedule
    <3>3. TaintedQuery(h)'
      BY <1>5, <1>9, <3>2 DEF TaintedQuery, Accepted
    <3>4. ASSUME NEW g \in Handlers \ {h} PROVE TaintedQuery(g)'
      <4>1. CASE g = p
        BY <2>2, <3>1, <3>2, <4>1 DEF TaintedQuery, Accepted, Owes, Live
      <4>2. CASE g # p
        <5>1. scheduled'[g] = scheduled[g]
          BY <3>2, <4>2
        <5> QED
          BY <1>7, <2>2, <5>1
              DEF TaintedQuery, TagsInPlace, QueryInPlace, Accepted, Owes, Live
      <4> QED
        BY <4>1, <4>2
    <3>5. scheduled'[Null] = 0
      BY <3>2, ConstantsAssumption DEF Handover
    <3> QED
      BY <3>3, <3>4, <3>5 DEF TaintedHandover
  <2> QED
    BY <1>9, <2>3, <2>4 DEF UnwindInspectState
<1>10. pc[h] # "shutdown"
  BY <1>5 DEF Talking
<1>11. rpc[h] = "AdvanceState" => Working(h)
  BY <1>5 DEF Working, Processing, Talking
<1> QED
  BY <1>1, <1>8, <1>9, <1>10, <1>11, EndSteps DEF Ends

-----------------------------------------------------------------------------
(* After EndSession *)

\* A request for a session that is not there is refused.
LEMMA RefusedIfGone ==
    ASSUME TypeOK, ~exists, NEW h \in Handlers, Request(h)
    PROVE  pc'[h] = "error"
<1>1. pc \in [Handlers -> Labels]
  BY DEF TypeOK, HandlersOK
<1> USE DEF Receive, Refuse
<1>2. CASE \E e \in EpochIndices, b \in BOOLEAN : AdvanceState(h, e, b)
  BY <1>1, <1>2 DEF AdvanceState, AdvanceStateCode
<1>3. CASE \E b \in BOOLEAN : InspectState(h, b)
  BY <1>1, <1>3 DEF InspectState, InspectStateCode
<1>4. CASE \E e \in EpochIndices, b, store \in BOOLEAN : FinishEpoch(h, e, b, store)
  BY <1>1, <1>4 DEF FinishEpoch, FinishEpochCode
<1>5. CASE \/ EndSession(h) \/ \E e \in EpochIndices : DeleteEpoch(h, e)
           \/ \E r \in {"GetSessionStatus", "GetEpochStatus"}, e \in EpochIndices :
                    GetStatus(h, r, e)
  BY <1>1, <1>5 DEF EndSession, EndSessionCode, DeleteEpoch, DeleteEpochCode, GetStatus, StatusCode
<1> QED
  BY <1>2, <1>3, <1>4, <1>5 DEF Request

\* If AdvanceStates do not overlap, nothing but responses is left when the session has
\* ended, and every step keeps it so.
LEMMA EndedKept ==
    ASSUME Inv, Overlapping, OthersLabels, exists => SerialWork, ~exists => Ended,
           "queue" \in clients, ~exists', NEW h \in Handlers, Request(h) \/ Step(h)
    PROVE  Ended'
<1>1. TypeOK /\ LabelsMatch /\ ProcessingExclusive
  BY DEF Inv
<1>2. OnlyMoves(h) /\ (pc[h] # "idle" => Step(h) /\ Live(h)) /\ pc \in [Handlers -> Labels]
  BY <1>1, RequestArrives, StepGoesOn DEF Arrives, GoesOn, TypeOK, HandlersOK
<1>3. CASE exists
  <2>1. pc[h] = "shutdown"
    BY <1>1, <1>3, EndSteps DEF Ends
  <2>2. ShutDown(h)
    BY <1>2, <1>3, <2>1, StepsAtLabels DEF UseAfterFree, CallFails
  <2>3. pc'[h] = "ack"
    BY <1>2, <2>2 DEF ShutDown
  <2>4. ASSUME NEW g \in Handlers \ {h}, Live(g) PROVE pc[g] \in {"error", "tainting"}
    <3>1. rpc[g] = "AdvanceState"
      BY <1>2, <2>1, <2>4 DEF Overlapping, OthersLabels, Live
    <3>2. ~Processing(g)
      BY <1>1, <1>3, <2>1 DEF SerialWork, ProcessingExclusive
    <3>3. pc[g] # "enqueued"
      BY <1>2, <1>3, <2>1 DEF SerialWork, EnqueuedAlone
    <3> QED
      BY <1>2, <2>4, <3>1, <3>2, <3>3 DEF OthersLabels, Processing, Live, Labels
  <2> QED
    BY <1>2, <2>3, <2>4 DEF Ended, OnlyMoves, Live
<1>4. CASE ~exists
  <2>1. CASE pc[h] = "idle"
    <3>1. Request(h)
      BY <1>1, <2>1, StepGoesOn DEF GoesOn, Live
    <3>2. pc'[h] = "error"
      BY <1>1, <1>4, <3>1, RefusedIfGone
    <3> QED
      BY <1>2, <1>4, <3>2 DEF Ended, OnlyMoves
  <2>2. CASE pc[h] # "idle"
    <3>1. pc[h] \in {"error", "ack", "tainting"}
      BY <1>2, <1>4, <2>2 DEF Ended, Live
    <3>2. pc' = [pc EXCEPT ![h] = "done"]
      BY <1>2, <2>2, <3>1, StepsAtLabels DEF ErrorAcked, Acked, ResumeTainting
    <3> QED
      BY <1>2, <1>4, <3>2 DEF Ended, OnlyMoves
  <2> QED
    BY <2>1, <2>2
<1> QED
  BY <1>3, <1>4

-----------------------------------------------------------------------------
(* The theorems *)

\* The invariant holds when the session has been started.
LEMMA ClientInitInv == ClientInit => ClientInv
<1> SUFFICES ASSUME ClientInit PROVE ClientInv
  OBVIOUS
<1>1. Init /\ clients = {"serial", "queue", "within"} /\ Inv
  BY InitInv DEF ClientInit
<1>2. /\ \A h \in Handlers : pc[h] = "idle" /\ resume_on_exit[h] = None /\ scheduled[h] = 0
      /\ scheduled[Null] = 0
      /\ \A e \in EpochIndices :
            /\ pending_inputs[e] = <<>> /\ processed_inputs[e] = <<>> /\ pending_query[e] = None
            /\ vouchers_tree[e] = 0 /\ notices_tree[e] = 0
            /\ epoch_state[e] = "active" => e = active_epoch_index
            /\ most_recent_machine_hash[e] = <<>>
      /\ active_epoch_index \in EpochIndices
      /\ machine = <<>> /\ committed = <<>>
  BY <1>1, ConstantsAssumption DEF Init, Inv, TypeOK, SessionOK
<1>3. Disciplines /\ Overlapping /\ CheckinsInPlace /\ OthersLabels
  BY <1>1, <1>2 DEF Init, Disciplines, Overlapping, Live, CheckinsInPlace, OthersLabels
<1>4. EpochsInPlace
  BY <1>2 DEF EpochsInPlace, OneActive, TreesInPlace, TreesFull, WorkersInPlace, Working,
      Processing, Talking, StoresInPlace, EpochsThere, Accepted, QueueNumbered, ResultsNumbered
<1>5. QueriesCalled /\ Handover
  BY <1>2 DEF QueriesCalled, Handover, QueryInPlace, TagsInPlace, Asking, Waits, Called, Querying,
      Owes, Live, Talking
<1>6. MachineInPlace
  BY <1>2 DEF MachineInPlace, Snapped, Fed
<1>7. AdvancesInPlace /\ QueueWatched
  BY <1>2 DEF AdvancesInPlace, Accepted, QueueWatched
<1>8. SerialWork /\ exists /\ ~crashed /\ ~tainted
  BY <1>1, <1>2 DEF Init, SerialWork, EnqueuedAlone, OneInput, InputHasHandler, Processing, Talking
<1> QED
  BY <1>1, <1>3, <1>4, <1>5, <1>6, <1>7, <1>8 DEF ClientInv

\* Every step of a handler keeps it.
LEMMA HandlerKeepsClientInv ==
    ASSUME ClientInv, Inv', Disciplines', clients' = {d \in clients : KeepsTo(d)},
           NEW h \in Handlers, Request(h) \/ Step(h)
    PROVE  ClientInv'
<1>1. /\ Inv /\ Disciplines /\ Overlapping /\ CheckinsInPlace /\ OthersLabels
      /\ TypeOK /\ LabelsMatch
  BY DEF ClientInv, Inv
<1>2. Overlapping' /\ CheckinsInPlace' /\ OthersLabels'
  BY <1>1, OverlappingKept, CheckinsKept, OthersLabelsKept
<1>3. (exists' => exists) /\ (tainted => tainted')
  BY EndsForGood
<1>4. clients' \subseteq clients /\ (clients' # {} => "queue" \in clients')
  BY DEF Disciplines
<1>5. ASSUME "queue" \in clients'
      PROVE  /\ EpochsInPlace' /\ QueriesCalled'
             /\ ~tainted' /\ exists' => Handover' /\ MachineInPlace'
  <2>1. /\ EpochsInPlace /\ QueriesCalled /\ "queue" \in clients
        /\ ~tainted /\ exists => Handover /\ MachineInPlace
    BY <1>4, <1>5 DEF ClientInv
  <2>2. EpochsInPlace' /\ QueriesCalled'
    BY <1>1, <1>2, <1>5, <2>1, EpochsStayInPlace, QueriesStayCalled
  <2>3. ASSUME ~tainted', exists' PROVE Handover' /\ MachineInPlace'
    BY <1>1, <1>3, <1>5, <2>1, <2>3, QueriesStayInPlace, MachineStaysInPlace
  <2> QED
    BY <2>2, <2>3
<1>6. ASSUME "within" \in clients' PROVE AdvancesInPlace' /\ QueueWatched'
  <2>1. /\ AdvancesInPlace /\ QueueWatched /\ EpochsInPlace
        /\ ~tainted /\ exists => Handover
        /\ "queue" \in clients'
    BY <1>4, <1>6 DEF ClientInv
  <2> QED
    BY <1>1, <1>2, <1>6, <2>1, AdvancesStayInPlace, QueueStaysWatched
<1>7. ASSUME "serial" \in clients'
      PROVE  /\ exists' => ~crashed' /\ SerialWork'
             /\ exists' /\ tainted' => TaintedHandover'
             /\ ~exists' => Ended'
  <2>1. /\ "queue" \in clients' /\ "queue" \in clients /\ EpochsInPlace
        /\ exists => /\ ~crashed /\ SerialWork
                     /\ ~tainted => Handover
                     /\ tainted => TaintedHandover
        /\ ~exists => Ended
    BY <1>4, <1>7 DEF ClientInv
  <2>2. ASSUME exists' PROVE ~crashed' /\ SerialWork' /\ (tainted' => TaintedHandover')
    <3>1. /\ ~crashed /\ SerialWork /\ exists
          /\ ~tainted => Handover
          /\ tainted => TaintedHandover
      BY <1>3, <2>1, <2>2
    <3>2. ~UseAfterFree(h)
      BY <1>1, <2>1, <3>1, NothingFreed
    <3>3. ~AsksAgain(h)
      BY <1>1, <2>1, <3>1, NoneAsksAgain
    <3>4. ~crashed'
      BY <1>1, <3>1, <3>2, <3>3, CrashSteps
    <3>5. SerialWork'
      BY <1>1, <1>2, <1>7, <2>1, <3>1, SerialWorkKept
    <3>6. ASSUME tainted' PROVE TaintedHandover'
      <4>1. CASE tainted
        BY <1>1, <1>2, <2>1, <2>2, <3>1, <3>2, <4>1, TaintedHandoverKept
      <4>2. CASE ~tainted
        BY <1>1, <2>1, <3>1, <3>2, <3>6, <4>2, TaintHandsOver
      <4> QED
        BY <4>1, <4>2
    <3> QED
      BY <3>4, <3>5, <3>6
  <2>3. ASSUME ~exists' PROVE Ended'
    BY <1>1, <2>1, <2>3, EndedKept
  <2> QED
    BY <2>2, <2>3
<1> QED
  BY <1>2, <1>5, <1>6, <1>7 DEF ClientInv

\* A step that at most crashes, and does not while it matters, keeps it.
LEMMA QuietKeepsClientInv ==
    ASSUME ClientInv, Inv',
           UNCHANGED <<exists, session_lock, processing_lock, tainted>>,
           UNCHANGED <<countVars, sessions_waiting_checkin, epochVars>>,
           UNCHANGED <<pending_query, pc, rpc, ep, localVars>>,
           UNCHANGED <<scheduled, machineVars, clients>>,
           "serial" \in clients /\ exists /\ ~crashed => ~crashed'
    PROVE  ClientInv'
<1> USE DEF countVars, epochVars, localVars, machineVars
<1>1. /\ Disciplines' <=> Disciplines
      /\ CheckinsInPlace' <=> CheckinsInPlace
      /\ OthersLabels' <=> OthersLabels
      /\ Ended' <=> Ended
  BY DEF Disciplines, CheckinsInPlace, OthersLabels, Ended
<1>2. Overlapping' <=> Overlapping
  BY DEF Overlapping, Live
<1>3. EpochsInPlace' <=> EpochsInPlace
  <2>1. OneActive' <=> OneActive
    BY DEF OneActive
  <2>2. TreesInPlace' <=> TreesInPlace
    BY DEF TreesInPlace, TreesFull, Working, Processing
  <2>3. WorkersInPlace' <=> WorkersInPlace
    BY DEF WorkersInPlace, LeavesInPlace, Working, Processing
  <2>4. StoresInPlace' <=> StoresInPlace
    BY DEF StoresInPlace, TreesFull
  <2>5. EpochsThere' <=> EpochsThere
    BY DEF EpochsThere, Accepted
  <2>6. QueueNumbered' <=> QueueNumbered
    BY DEF QueueNumbered
  <2>7. ResultsNumbered' <=> ResultsNumbered
    BY DEF ResultsNumbered, Numbered
  <2> QED
    BY <2>1, <2>2, <2>3, <2>4, <2>5, <2>6, <2>7 DEF EpochsInPlace
<1>4. QueriesCalled' <=> QueriesCalled
  BY DEF QueriesCalled
<1>5. Handover' <=> Handover
  <2>1. ASSUME NEW g \in Handlers PROVE QueryInPlace(g)' <=> QueryInPlace(g)
    BY DEF QueryInPlace, Asking, Waits, Called, Parked, Querying, Owes, Live
  <2>2. ASSUME NEW g \in Handlers
        PROVE  (TagsInPlace(g)' <=> TagsInPlace(g)) /\ (Asking(g)' <=> Asking(g))
    BY DEF TagsInPlace, Asking, Querying
  <2> QED
    BY <2>1, <2>2 DEF Handover
<1>6. MachineInPlace' <=> MachineInPlace
  BY DEF MachineInPlace
<1>7. AdvancesInPlace' <=> AdvancesInPlace
  BY DEF AdvancesInPlace, Accepted
<1>8. QueueWatched' <=> QueueWatched
  BY DEF QueueWatched, Other, Live
<1>9. SerialWork' <=> SerialWork
  <2>1. EnqueuedAlone' <=> EnqueuedAlone
    BY DEF EnqueuedAlone, Live
  <2>2. OneInput' <=> OneInput
    BY DEF OneInput, Processing
  <2>3. InputHasHandler' <=> InputHasHandler
    BY DEF InputHasHandler, Working, Processing
  <2> QED
    BY <2>1, <2>2, <2>3 DEF SerialWork
<1>10. TaintedHandover' <=> TaintedHandover
  <2>1. ASSUME NEW g \in Handlers PROVE TaintedQuery(g)' <=> TaintedQuery(g)
    BY DEF TaintedQuery, Accepted, Parked
  <2> QED
    BY <2>1 DEF TaintedHandover
<1> QED
  BY <1>1, <1>2, <1>3, <1>4, <1>5, <1>6, <1>7, <1>8, <1>9, <1>10 DEF ClientInv

\* Every step keeps it.
LEMMA ClientNextInv == ClientInv /\ [ClientNext]_clientVars => ClientInv'
<1> SUFFICES ASSUME ClientInv, [ClientNext]_clientVars PROVE ClientInv'
  OBVIOUS
<1>1. Inv /\ Disciplines
  BY DEF ClientInv
<1>2. [Next]_vars
  BY DEF ClientNext, clientVars
<1>3. Inv'
  BY <1>1, <1>2, NextInv
<1>4. ASSUME ClientNext, NEW h \in Handlers, Request(h) \/ Step(h)
      PROVE  ClientInv'
  <2>1. Disciplines' /\ clients' = {d \in clients : KeepsTo(d)}
    BY <1>1, <1>4, DisciplinesKept DEF ClientNext
  <2> QED
    BY <1>3, <1>4, <2>1, HandlerKeepsClientInv
<1>5. ASSUME ClientNext, NEW c \in Handlers \cup {Null}, ResumeStray(c)
      PROVE  ClientInv'
  <2>1. /\ UNCHANGED <<exists, session_lock, processing_lock, tainted>>
        /\ UNCHANGED <<countVars, sessions_waiting_checkin, epochVars>>
        /\ UNCHANGED <<pending_query, pc, rpc, ep, localVars>>
        /\ UNCHANGED <<scheduled, machineVars>>
    BY <1>5, StrayOnlyCrashes
  <2>2. clients' = {d \in clients : KeepsTo(d)}
    BY <1>5 DEF ClientNext
  <2>3. ASSUME NEW d PROVE KeepsTo(d)
    BY <2>1 DEF KeepsTo
  <2>4. clients' = clients
    BY <2>2, <2>3
  <2>5. ~("serial" \in clients /\ exists)
    <3> SUFFICES ASSUME "serial" \in clients, exists PROVE FALSE
      OBVIOUS
    <3>1. (~tainted => Handover) /\ (tainted => TaintedHandover)
      BY DEF ClientInv, Disciplines
    <3> QED
      BY <1>5, <3>1, NoStray
  <2> QED
    BY <1>3, <2>1, <2>4, <2>5, QuietKeepsClientInv
<1>6. CASE UNCHANGED clientVars
  <2>1. UNCHANGED <<vars, clients>>
    BY <1>6 DEF clientVars
  <2> QED
    BY <1>3, <2>1, QuietKeepsClientInv DEF vars, lockVars
<1> QED
  BY <1>4, <1>5, <1>6 DEF ClientNext, Next

\* The invariant holds in every state of every behaviour.
THEOREM ClientInvariance == ClientSpec => []ClientInv
  BY ClientInitInv, ClientNextInv, PTL DEF ClientSpec

\* For clients that overlap no other requests than AdvanceStates, the machine and the
\* hash the active epoch reports are those of the accepted inputs, all and in order,
\* for any number of requests and epochs: queries and skipped inputs leave no trace.
THEOREM MachineStaysTrue == ClientSpec => []MachineAgrees
<1>1. ClientInv => MachineAgrees
  BY DEF ClientInv, MachineInPlace, MachineAgrees
<1> QED
  BY <1>1, ClientInvariance, PTL

\* For the same clients a finished epoch has an empty queue and full Merkle trees, so
\* finish_epoch has a proof for each of its results, and no other epoch than the one
\* at active_epoch_index is active.
THEOREM EpochsStaySound == ClientSpec => []EpochsSound
<1>1. ClientInv => EpochsSound
  <2> SUFFICES ASSUME ClientInv, "queue" \in clients, NEW e \in EpochIndices
               PROVE  /\ epoch_state[e] = "active" => e = active_epoch_index
                      /\ epoch_state[e] = "finished" =>
                            /\ pending_inputs[e] = <<>>
                            /\ vouchers_tree[e] = Len(processed_inputs[e])
                            /\ notices_tree[e] = Len(processed_inputs[e])
    BY DEF EpochsSound
  <2>1. EpochsInPlace /\ ActiveEpochIsActive
    BY DEF ClientInv, Inv
  <2>2. epoch_state[e] = "finished" => e # active_epoch_index
    BY <2>1 DEF ActiveEpochIsActive
  <2> QED
    BY <2>1, <2>2 DEF EpochsInPlace, OneActive, TreesInPlace, TreesFull
<1> QED
  BY <1>1, ClientInvariance, PTL

\* For the same clients the indices recorded with a result, which were read when its
\* input was taken up, are its position in the epoch and its input's own number.
THEOREM IndicesStayInAgreement == ClientSpec => []IndexAgreement
<1>1. ClientInv => IndexAgreement
  BY DEF ClientInv, EpochsInPlace, ResultsNumbered, Numbered, IndexAgreement
<1> QED
  BY <1>1, ClientInvariance, PTL

\* If an epoch is not finished either while AdvanceStates are being served, or if these
\* do not overlap, a query that waits has been called or will be by a handler that is
\* inside process_pending_inputs.
THEOREM NoQueryLost == ClientSpec => []QueryNotLost
<1>1. ClientInv => QueryNotLost
  <2> SUFFICES ASSUME ClientInv, "within" \in clients \/ "serial" \in clients,
                      NEW h \in Handlers, pc[h] = "query", ~(scheduled[h] > 0)
               PROVE  \E g \in Handlers : Processing(g) /\ ep[g] = ep[h]
    BY DEF QueryNotLost
  <2>1. /\ TypeOK /\ LabelsMatch /\ ProcessingExclusive /\ "queue" \in clients
        /\ EpochsInPlace /\ QueriesCalled /\ OthersLabels
    BY DEF ClientInv, Inv, Disciplines
  <2>2. exists /\ ~tainted /\ Handover
    BY <2>1 DEF QueriesCalled, ClientInv
  <2>3. Waits(h)
    BY <2>1 DEF Waits, TypeOK, LocalsOK
  <2>4. ep[h] = active_epoch_index /\ pending_inputs[active_epoch_index] # <<>>
    BY <2>2, <2>3 DEF Handover, QueryInPlace, Asking, Waits
  <2>5. Other(h) /\ Live(h) /\ pc[h] # "error"
    BY <2>1 DEF Other, Live, OthersLabels
  <2>6. CASE "within" \in clients
    <3>1. AdvancesInPlace /\ QueueWatched
      BY <2>6 DEF ClientInv
    <3>2. processing_lock
      BY <2>2, <2>4, <2>5, <3>1 DEF QueueWatched
    <3>3. PICK g \in Handlers : Processing(g)
      BY <2>1, <3>2 DEF ProcessingExclusive
    <3>4. ep[g] = active_epoch_index
      BY <3>1, <3>3 DEF AdvancesInPlace, Accepted, Processing, Talking
    <3> QED
      BY <2>4, <3>3, <3>4
  <2>7. CASE "serial" \in clients
    <3>1. SerialWork
      BY <2>2, <2>7 DEF ClientInv
    <3>2. PICK g \in Handlers : pc[g] = "enqueued" \/ Working(g)
      BY <2>2, <2>4, <3>1 DEF SerialWork, InputHasHandler
    <3>3. Working(g)
      BY <2>5, <3>1, <3>2 DEF SerialWork, EnqueuedAlone
    <3> QED
      BY <2>1, <2>4, <3>3, WorkIsActive DEF Working
  <2> QED
    BY <2>6, <2>7
<1> QED
  BY <1>1, ClientInvariance, PTL

\* If AdvanceStates do not overlap, session_lock keeps every other handler out of the
\* part of the code it protects, and at most one handler talks to the machine server.
THEOREM LockExcludes == ClientSpec => []SerialExclusive
<1>1. ClientInv => SerialExclusive
  <2> SUFFICES ASSUME ClientInv, "serial" \in clients
               PROVE  /\ SessionLockExclusive
                      /\ \A g, h \in Handlers :
                            /\ pc[g] \in Talking \cup {"store", "shutdown"}
                            /\ pc[h] \in Talking \cup {"store", "shutdown"}
                            => g = h
    BY DEF SerialExclusive
  <2>1. /\ TypeOK /\ LabelsMatch /\ ProcessingExclusive /\ Inv /\ "queue" \in clients
        /\ EpochsInPlace /\ OthersLabels /\ Overlapping
    BY DEF ClientInv, Inv, Disciplines
  <2>2. ASSUME NEW g \in Handlers, NEW h \in Handlers, Other(g), Other(h) PROVE g = h
    BY <2>1, <2>2 DEF Overlapping, Other
  <2>3. exists => SerialWork
    BY DEF ClientInv
  <2>4. SessionLockExclusive
    <3> SUFFICES ASSUME NEW g \in Handlers, NEW h \in Handlers, exists, HoldsLock(g), HoldsLock(h)
                 PROVE  g = h
      BY DEF SessionLockExclusive
    <3>1. \A f \in {g, h} : Live(f) /\ pc[f] # "error" /\ (pc[f] = "enqueued" \/ Other(f))
      BY <2>1 DEF HoldsLock, Querying, Other, Live, OthersLabels, Talking
    <3>2. CASE pc[g] = "enqueued" \/ pc[h] = "enqueued"
      BY <2>3, <3>1, <3>2 DEF SerialWork, EnqueuedAlone
    <3> QED
      BY <2>2, <3>1, <3>2
  <2>5. ASSUME NEW g \in Handlers, NEW h \in Handlers,
               pc[g] \in Talking \cup {"store", "shutdown"},
               pc[h] \in Talking \cup {"store", "shutdown"}
        PROVE  g = h
    <3>1. exists /\ SerialWork
      <4>1. ~Ended
        BY <2>5 DEF Ended, Talking
      <4> QED
        BY <4>1 DEF ClientInv
    <3>2. ASSUME NEW f \in Handlers, pc[f] \in Talking \cup {"store", "shutdown"}
          PROVE  Working(f) \/ Other(f)
      BY <2>1, <3>2 DEF Working, Processing, Other, Live, OthersLabels, Talking
    <3>3. ASSUME NEW f \in Handlers, Working(f)
          PROVE  \A k \in Handlers : pc[k] \notin {"store", "shutdown"}
      BY <2>1, <3>1, <3>3, WorkIsActive DEF SerialWork, ProcessingExclusive, Working
    <3>4. CASE pc[g] \in Talking /\ pc[h] \in Talking
      <4>1. ~tainted /\ Handover
        BY <3>1, <3>4, <2>1 DEF SerialWork, ClientInv
      <4> QED
        BY <2>1, <2>2, <3>4, <4>1, OneTalks
    <3>5. CASE pc[g] \in {"store", "shutdown"} \/ pc[h] \in {"store", "shutdown"}
      BY <2>2, <2>5, <3>2, <3>3, <3>5
    <3> QED
      BY <2>5, <3>4, <3>5
  <2> QED
    BY <2>4, <2>5
<1> QED
  BY <1>1, ClientInvariance, PTL

\* If AdvanceStates do not overlap, the server-manager does not reach exit(1) or
\* undefined behaviour before EndSession has erased the session.
THEOREM ServerStaysUp == ClientSpec => []NoCrash
<1>1. ClientInv => NoCrash
  BY DEF ClientInv, NoCrash
<1> QED
  BY <1>1, ClientInvariance, PTL

-----------------------------------------------------------------------------
(* What becomes of a finished epoch *)

\* For clients that keep to queue the index of the active epoch does not wrap around:
\* every epoch that is there is at it or behind it.
EpochsBehind ==
    "queue" \in clients =>
        \A e \in EpochIndices : epoch_state[e] # "absent" => e <= active_epoch_index

\* The state, the queue, the results and the leaves of epoch e stay as they are.
EpochStays(e) ==
    /\ epoch_state'[e] = epoch_state[e]
    /\ pending_inputs'[e] = pending_inputs[e] /\ processed_inputs'[e] = processed_inputs[e]
    /\ vouchers_tree'[e] = vouchers_tree[e] /\ notices_tree'[e] = notices_tree[e]

\* The index after one that is not the last.
LEMMA IndexAdvances ==
    ASSUME active_epoch_index \in EpochIndices, active_epoch_index # MaxEpochIndex
    PROVE  (active_epoch_index + 1) % (MaxEpochIndex + 1) = active_epoch_index + 1
  BY ConstantsAssumption DEF EpochIndices

\* What a step of a handler does to epochs, for clients that keep to queue: to the
\* active one anything, the next one may start, another one may be deleted.
LEMMA OtherEpochsStay ==
    ASSUME TypeOK, ActiveEpochIsActive, EpochsInPlace, NEW h \in Handlers, EpochStep(h),
           NEW e \in EpochIndices, e # active_epoch_index
    PROVE  /\ \/ EpochStays(e) /\ active_epoch_index' = active_epoch_index
              \/ epoch_state'[e] = "absent" /\ active_epoch_index' = active_epoch_index
              \/ /\ active_epoch_index' = active_epoch_index + 1
                 /\ EpochStays(e) \/ e = active_epoch_index + 1
           /\ active_epoch_index \in EpochIndices
<1>0. /\ active_epoch_index \in EpochIndices /\ EpochIndices \subseteq Nat
      /\ epoch_state \in [EpochIndices -> {"absent", "active", "finished"}]
      /\ pending_inputs \in [EpochIndices -> Seq(Input)]
      /\ processed_inputs \in [EpochIndices -> Seq(ProcessedInput)]
      /\ vouchers_tree \in [EpochIndices -> Nat] /\ notices_tree \in [EpochIndices -> Nat]
  BY DEF TypeOK, SessionOK, EpochsOK, LogsOK, EpochIndices
<1>1. CASE Rests(h) \/ TakesUp(h)
  BY <1>0, <1>1 DEF Rests, TakesUp, epochState, EpochStays
<1>2. CASE AddsLeaf(h)
  <2>1. ep[h] = active_epoch_index
    BY <1>2, WorkIsActive DEF AddsLeaf
  <2> QED
    BY <1>0, <1>2, <2>1 DEF AddsLeaf, EpochStays
<1>3. ASSUME NEW d \in EpochIndices, Enqueues(h, d)
      PROVE  EpochStays(e) /\ active_epoch_index' = active_epoch_index
  BY <1>0, <1>3 DEF Enqueues, EpochStays
<1>4. ASSUME NEW status \in {"accepted", "skipped"}, Records(h, status)
      PROVE  EpochStays(e) /\ active_epoch_index' = active_epoch_index
  <2>1. ep[h] = active_epoch_index
    BY <1>4, WorkIsActive DEF Records
  <2> QED
    BY <1>0, <1>4, <2>1 DEF Records, RecordInput, EpochStays
<1>5. ASSUME NEW d \in EpochIndices, Finishes(h, d),
             \/ MayFinish(h, d) /\ rpc'[h] = "FinishEpoch"
             \/ pc[h] = "store" /\ ep[h] = d /\ rpc'[h] = rpc[h]
      PROVE  /\ active_epoch_index' = active_epoch_index + 1
             /\ EpochStays(e) \/ e = active_epoch_index + 1
  <2>1. d = active_epoch_index /\ active_epoch_index # MaxEpochIndex
    BY <1>5 DEF MayFinish, EpochsInPlace, OneActive, StoresInPlace
  <2>2. (active_epoch_index + 1) % (MaxEpochIndex + 1) = active_epoch_index + 1
    BY <1>0, <2>1, IndexAdvances
  <2> QED
    BY <1>0, <1>5, <2>1, <2>2 DEF Finishes, FinishAndStartEpoch, ClearEpoch, EpochStays
<1>6. ASSUME NEW d \in EpochIndices, Stores(h, d)
      PROVE  EpochStays(e) /\ active_epoch_index' = active_epoch_index
  BY <1>0, <1>6 DEF Stores, epochState, EpochStays
<1>7. ASSUME NEW d \in EpochIndices, Deletes(h, d)
      PROVE  /\ EpochStays(e) \/ epoch_state'[e] = "absent"
             /\ active_epoch_index' = active_epoch_index
  BY <1>0, <1>7 DEF Deletes, ClearEpoch, EpochStays
<1> QED
  BY <1>0, <1>1, <1>2, <1>3, <1>4, <1>5, <1>6, <1>7 DEF EpochStep

\* A step of a handler, or one that touches no epoch.
LEMMA StepsOfEpochs ==
    ASSUME ClientInv, [ClientNext]_clientVars, "queue" \in clients
    PROVE  /\ TypeOK /\ ActiveEpochIsActive /\ EpochsInPlace
           /\ \/ \E h \in Handlers : EpochStep(h)
              \/ UNCHANGED epochState
<1>1. /\ TypeOK /\ LabelsMatch /\ ProcessingExclusive /\ ActiveEpochIsActive
      /\ EpochsInPlace
  BY DEF ClientInv, Inv
<1>2. ASSUME NEW h \in Handlers, Request(h) \/ Step(h) PROVE EpochStep(h)
  BY <1>1, <1>2, EpochSteps
<1>3. ASSUME NEW c \in Handlers \cup {Null}, ResumeStray(c) PROVE UNCHANGED epochState
  BY <1>1, <1>3, StrayOnlyCrashes DEF epochState, countVars, epochVars
<1>4. ASSUME UNCHANGED clientVars PROVE UNCHANGED epochState
  <2>1. UNCHANGED vars
    BY <1>4 DEF clientVars
  <2>2. UNCHANGED countVars /\ UNCHANGED epochVars
    BY <2>1 DEF vars
  <2> QED
    BY <2>2 DEF countVars, epochVars, epochState
<1> QED
  BY <1>1, <1>2, <1>3, <1>4 DEF ClientNext, Next

\* The index never wraps around for these clients.
LEMMA BehindKept == ClientInv /\ EpochsBehind /\ [ClientNext]_clientVars => EpochsBehind'
<1> SUFFICES ASSUME ClientInv, EpochsBehind, [ClientNext]_clientVars, "queue" \in clients',
                    NEW e \in EpochIndices, epoch_state'[e] # "absent"
             PROVE  e <= active_epoch_index'
  BY DEF EpochsBehind
<1>1. "queue" \in clients
  BY DEF ClientNext, clientVars
<1>2. /\ TypeOK /\ ActiveEpochIsActive /\ EpochsInPlace
      /\ (\E h \in Handlers : EpochStep(h)) \/ UNCHANGED epochState
  BY <1>1, StepsOfEpochs
<1>3. epoch_state[e] # "absent" => e <= active_epoch_index
  BY <1>1 DEF EpochsBehind
<1>4. active_epoch_index \in Nat /\ e \in Nat
  BY <1>2 DEF TypeOK, SessionOK, EpochIndices
<1>5. CASE UNCHANGED epochState
  BY <1>3, <1>5 DEF epochState
<1>6. ASSUME NEW h \in Handlers, EpochStep(h) PROVE e <= active_epoch_index'
  <2>1. CASE e # active_epoch_index
    BY <1>2, <1>3, <1>4, <1>6, <2>1, OtherEpochsStay DEF EpochStays
  <2>2. CASE e = active_epoch_index
    <3>1. active_epoch_index' = active_epoch_index \/ active_epoch_index' = active_epoch_index + 1
      <4>1. ASSUME NEW d \in EpochIndices, Finishes(h, d),
                   \/ MayFinish(h, d) \/ pc[h] = "store"
            PROVE  active_epoch_index' = active_epoch_index + 1
        <5>1. active_epoch_index # MaxEpochIndex /\ active_epoch_index \in EpochIndices
          BY <1>2, <4>1 DEF MayFinish, EpochsInPlace, StoresInPlace, TypeOK, SessionOK
        <5>2. (active_epoch_index + 1) % (MaxEpochIndex + 1) = active_epoch_index + 1
          BY <5>1, IndexAdvances
        <5> QED
          BY <4>1, <5>2 DEF Finishes, FinishAndStartEpoch
      <4> QED
        BY <1>6, <4>1 DEF EpochStep, Rests, TakesUp, AddsLeaf, Enqueues, Records, Stores,
            Deletes, epochState
    <3> QED
      BY <1>4, <2>2, <3>1
  <2> QED
    BY <2>1, <2>2
<1> QED
  BY <1>2, <1>5, <1>6

\* For clients that keep to queue, state, queue, results and leaves of a finished epoch
\* do not change any more, whatever goes on in the session, until a DeleteEpoch takes it
\* away.
FinishedEpochsFrozen ==
    [][\A e \in EpochIndices :
            "queue" \in clients /\ epoch_state[e] = "finished" =>
                EpochStays(e) \/ epoch_state'[e] = "absent"]_clientVars

\* A finished epoch is final (finish_epoch and DeleteEpoch), for any number of requests and
\* epochs: no input, result or leaf is added to it, no later epoch takes its place.
THEOREM FinishedIsFinal == ClientSpec => FinishedEpochsFrozen
<1>1. ClientInit => EpochsBehind
  <2> SUFFICES ASSUME ClientInit, NEW e \in EpochIndices, epoch_state[e] # "absent"
               PROVE  e <= active_epoch_index
    BY DEF EpochsBehind
  <2>1. e = StartEpoch /\ active_epoch_index = StartEpoch
    BY DEF ClientInit, Init
  <2> QED
    BY <2>1 DEF EpochIndices
<1>2. ClientInv /\ EpochsBehind /\ [ClientNext]_clientVars =>
        \A e \in EpochIndices :
            "queue" \in clients /\ epoch_state[e] = "finished" =>
                EpochStays(e) \/ epoch_state'[e] = "absent"
  <2> SUFFICES ASSUME ClientInv, EpochsBehind, [ClientNext]_clientVars,
                      NEW e \in EpochIndices, "queue" \in clients, epoch_state[e] = "finished"
               PROVE  EpochStays(e) \/ epoch_state'[e] = "absent"
    OBVIOUS
  <2>1. /\ TypeOK /\ ActiveEpochIsActive /\ EpochsInPlace
        /\ (\E h \in Handlers : EpochStep(h)) \/ UNCHANGED epochState
    BY StepsOfEpochs
  <2>2. e <= active_epoch_index /\ e \in Nat /\ active_epoch_index \in Nat
    BY <2>1 DEF EpochsBehind, TypeOK, SessionOK, EpochIndices
  <2>3. e # active_epoch_index
    BY <2>1 DEF ActiveEpochIsActive
  <2>4. CASE UNCHANGED epochState
    BY <2>4 DEF epochState, EpochStays
  <2>5. ASSUME NEW h \in Handlers, EpochStep(h)
        PROVE  EpochStays(e) \/ epoch_state'[e] = "absent"
    BY <2>1, <2>2, <2>3, <2>5, OtherEpochsStay
  <2> QED
    BY <2>1, <2>4, <2>5
<1> QED
  BY <1>1, <1>2, BehindKept, ClientInvariance, PTL DEF ClientSpec, FinishedEpochsFrozen
=============================================================================
