------------------------------ MODULE Session ------------------------------
(***************************************************************************)
(* One session of the Cartesi server-manager and the RPC handlers that     *)
(* work on it (src/src/server-manager.cpp).                                *)
(*                                                                         *)
(* Every RPC is served by a coroutine of its own.  One thread runs them    *)
(* all: a coroutine keeps the thread until it yields, and it yields when   *)
(* it has asked for something that will put it back in the completion      *)
(* queue: a call to the machine server, the delivery of its response, an   *)
(* alarm.  An action below is therefore everything a handler does between  *)
(* two yields, and pc[h] names the yield handler h is suspended at.        *)
(* A handler serves one RPC and is deleted when it ends.                   *)
(*                                                                         *)
(* Between yields the handlers share the session's fields.  Two boolean    *)
(* flags keep them apart: session_lock (one RPC at a time, but released by *)
(* AdvanceState before it processes its input) and processing_lock (one    *)
(* handler at a time inside process_pending_inputs).                       *)
(*                                                                         *)
(* The module starts after a successful StartSession.                      *)
(***************************************************************************)
EXTENDS Integers, Sequences

CONSTANTS
    Handlers,       \* the handlers, one for each RPC a client may send
    Rpcs,           \* the RPCs clients send
    MaxEpochIndex,  \* UINT64_MAX, the largest epoch index
    StartEpoch,     \* StartSessionRequest.active_epoch_index
    StartCount,     \* StartSessionRequest.processed_input_count
    MachineFaults,  \* may calls to the machine server fail?
    None,           \* "no handler"
    Null            \* the null coroutine pointer

RpcKinds == {"AdvanceState", "InspectState", "FinishEpoch", "DeleteEpoch",
             "EndSession", "GetSessionStatus", "GetEpochStatus"}

EpochIndices == 0..MaxEpochIndex

ASSUME ConstantsAssumption ==
    /\ Rpcs \subseteq RpcKinds
    /\ MaxEpochIndex \in Nat \ {0}
    /\ StartEpoch \in 0..MaxEpochIndex - 1  \* StartSession refuses UINT64_MAX
    /\ StartCount \in Nat
    /\ MachineFaults \in BOOLEAN
    /\ None \notin Handlers /\ Null \notin Handlers /\ None # Null

VARIABLES
    \* The session (session_type)
    exists,                   \* is the session in hctx.sessions?
    session_lock,
    processing_lock,
    tainted,
    active_epoch_index,
    processed_input_count,
    sessions_waiting_checkin, \* handler registered for the check-in, or None
    \* Its epochs (epoch_type), by epoch index
    epoch_state,
    pending_inputs,
    processed_inputs,
    pending_query,            \* None, Null or the coroutine in pending_query
    vouchers_tree,            \* number of leaves
    notices_tree,
    most_recent_machine_hash, \* a machine hash stands for the state hashed
    \* The handlers
    pc,
    rpc,
    ep,                       \* the epoch a handler holds a reference to
    resume_on_exit,           \* InspectState: coroutine to resume on exit
    input_index,              \* AdvanceState: global_input_index, read when
                              \* the current input was taken up
    epoch_input_index,        \* AdvanceState: epoch_input_index, same
    reply,                    \* status code of the response, once sent
    scheduled,                \* how many times enqueue_completion_queue has put
                              \* each coroutine in the queue
    crashed,                  \* the process called exit(1) or its behaviour is
                              \* undefined: it is claimed to do nothing more
    \* The machine server: its state is the inputs and queries it has run
    machine,
    snapshot,
    \* History
    enqueued,                 \* all inputs ever enqueued in each epoch
    committed                 \* all inputs the machine accepted, in order

lockVars == <<session_lock, processing_lock>>
countVars == <<active_epoch_index, processed_input_count>>
epochVars == <<epoch_state, pending_inputs, processed_inputs, vouchers_tree,
               notices_tree, most_recent_machine_hash, enqueued, committed>>
machineVars == <<machine, snapshot>>
localVars == <<resume_on_exit, input_index, epoch_input_index>>
vars == <<exists, lockVars, tainted, countVars, sessions_waiting_checkin,
          epochVars, pending_query, pc, rpc, ep, localVars, reply, scheduled,
          crashed, machineVars>>

Codes == {"none", "OK", "INVALID_ARGUMENT", "OUT_OF_RANGE", "ABORTED",
          "DATA_LOSS", "INTERNAL", "MACHINE_ERROR"}

\* Handlers that are in the middle of a conversation with the machine server
\* about an input or a query.
Talking == {"snapshot", "snapshot_checkin", "run", "voucher_proof",
            "notice_proof", "root_hash", "rollback", "rollback_checkin",
            "check_hash"}

Labels == Talking \cup
    {"idle",      \* waiting for a request
     "error",     \* an error response is being delivered
     "ack",       \* the response is being delivered, session_lock held
     "enqueued",  \* AdvanceState: same, the input is in the queue
     "handoff",   \* AdvanceState: waiting for the query between two inputs
     "tainting",  \* AdvanceState: same, in an exception handler
     "query",     \* InspectState: waiting for process_pending_inputs
     "store",     \* FinishEpoch: waiting for the machine to be stored
     "shutdown",  \* EndSession: waiting for the machine server to shut down
     "done"}      \* finished and deleted

\* An input is named after the handler that received it.  The input a
\* processed_input_type was computed from is history: the code drops it.
Input == [id : Handlers, input_index : Nat]
ProcessedInput == [input : Input, input_index : Nat, epoch_input_index : Nat,
                   status : {"accepted", "skipped"}]

Live(h) == pc[h] \notin {"idle", "done"}
Processing(h) == rpc[h] = "AdvanceState" /\ pc[h] \in Talking \cup {"handoff"}
Querying(h) == rpc[h] = "InspectState" /\ pc[h] \in Talking

FlagsOK ==
    /\ exists \in BOOLEAN /\ session_lock \in BOOLEAN
    /\ processing_lock \in BOOLEAN /\ tainted \in BOOLEAN
    /\ crashed \in BOOLEAN

SessionOK ==
    /\ active_epoch_index \in EpochIndices
    /\ processed_input_count \in Nat
    /\ sessions_waiting_checkin \in Handlers \cup {None}

EpochsOK ==
    /\ epoch_state \in [EpochIndices -> {"absent", "active", "finished"}]
    /\ pending_query \in [EpochIndices -> Handlers \cup {None, Null}]
    /\ vouchers_tree \in [EpochIndices -> Nat]
    /\ notices_tree \in [EpochIndices -> Nat]

LogsOK ==
    /\ pending_inputs \in [EpochIndices -> Seq(Input)]
    /\ processed_inputs \in [EpochIndices -> Seq(ProcessedInput)]
    /\ enqueued \in [EpochIndices -> Seq(Input)]
    /\ most_recent_machine_hash \in [EpochIndices -> Seq(Handlers)]
    /\ committed \in Seq(Handlers)
    /\ machine \in Seq(Handlers) /\ snapshot \in Seq(Handlers)

HandlersOK ==
    /\ pc \in [Handlers -> Labels]
    /\ rpc \in [Handlers -> RpcKinds]
    /\ ep \in [Handlers -> EpochIndices]
    /\ reply \in [Handlers -> Codes]

LocalsOK ==
    /\ resume_on_exit \in [Handlers -> Handlers \cup {None, Null}]
    /\ input_index \in [Handlers -> Nat]
    /\ epoch_input_index \in [Handlers -> Nat]
    /\ scheduled \in [Handlers \cup {Null} -> Nat]

\* The types of the variables.
TypeOK == FlagsOK /\ SessionOK /\ EpochsOK /\ LogsOK /\ HandlersOK /\ LocalsOK

\* start_first_epoch: the session as StartSession leaves it.
Init ==
    /\ exists = TRUE /\ session_lock = FALSE /\ processing_lock = FALSE
    /\ tainted = FALSE
    /\ active_epoch_index = StartEpoch
    /\ processed_input_count = StartCount
    /\ sessions_waiting_checkin = None
    /\ epoch_state = [e \in EpochIndices |->
                        IF e = StartEpoch THEN "active" ELSE "absent"]
    /\ pending_inputs = [e \in EpochIndices |-> <<>>]
    /\ processed_inputs = [e \in EpochIndices |-> <<>>]
    /\ pending_query = [e \in EpochIndices |-> None]
    /\ vouchers_tree = [e \in EpochIndices |-> 0]
    /\ notices_tree = [e \in EpochIndices |-> 0]
    /\ most_recent_machine_hash = [e \in EpochIndices |-> <<>>]
    /\ pc = [h \in Handlers |-> "idle"]
    /\ rpc = [h \in Handlers |-> "GetSessionStatus"]
    /\ ep = [h \in Handlers |-> StartEpoch]
    /\ resume_on_exit = [h \in Handlers |-> None]
    /\ input_index = [h \in Handlers |-> 0]
    /\ epoch_input_index = [h \in Handlers |-> 0]
    /\ reply = [h \in Handlers |-> "none"]
    /\ scheduled = [c \in Handlers \cup {Null} |-> 0]
    /\ crashed = FALSE
    /\ machine = <<>> /\ snapshot = <<>>
    /\ enqueued = [e \in EpochIndices |-> <<>>]
    /\ committed = <<>>

-----------------------------------------------------------------------------
(* Receiving a request *)

\* Handler h takes up a request of kind r.
Receive(h, r) ==
    /\ ~crashed /\ pc[h] = "idle" /\ r \in Rpcs
    /\ rpc' = [rpc EXCEPT ![h] = r]

\* Fault: the auto_lock is constructed before session_lock is looked at.
RefuseAndUnlock(h, code) ==
    /\ pc' = [pc EXCEPT ![h] = "error"]
    /\ reply' = [reply EXCEPT ![h] = code]
    /\ session_lock' = FALSE
    /\ UNCHANGED <<exists, processing_lock, tainted, countVars, epochVars,
                   sessions_waiting_checkin, pending_query, ep, localVars,
                   scheduled, crashed, machineVars>>

\* FinishWithError: the auto_lock, if it was taken at all, is destroyed while
\* the exception unwinds, so an error leaves session_lock as the request found
\* it.
Refuse(h, code) ==
    /\ pc' = [pc EXCEPT ![h] = "error"]
    /\ reply' = [reply EXCEPT ![h] = code]
    /\ UNCHANGED <<exists, lockVars, tainted, countVars, epochVars,
                   sessions_waiting_checkin, pending_query, ep, localVars,
                   scheduled, crashed, machineVars>>

\* The checks AdvanceState makes, in its order.
AdvanceStateCode(e, request_ok) ==
    IF ~exists THEN "INVALID_ARGUMENT"
    ELSE IF active_epoch_index = MaxEpochIndex THEN "OUT_OF_RANGE"
    ELSE IF session_lock THEN "ABORTED"
    ELSE IF tainted THEN "DATA_LOSS"
    ELSE IF e # active_epoch_index THEN "INVALID_ARGUMENT"
    ELSE IF epoch_state[e] = "absent" THEN "INTERNAL"
    ELSE IF epoch_state[e] # "active" THEN "INVALID_ARGUMENT"
    ELSE IF ~request_ok THEN "INVALID_ARGUMENT"
    ELSE "OK"

\* Fault: the inputs still in the queue are not counted.
ProcessedIndexOnly(e) == processed_input_count

\* The index the next input must carry.
CurrentInputIndex(e) == Len(pending_inputs[e]) + processed_input_count

\* The AdvanceState handler up to its first response.  request_ok stands for
\* the input index and the metadata being the ones the code expects.
AdvanceState(h, e, request_ok) ==
    /\ Receive(h, "AdvanceState")
    /\ LET code == AdvanceStateCode(e, request_ok)
           i == [id |-> h, input_index |-> CurrentInputIndex(e)]
       IN  \/ code # "OK" /\ Refuse(h, code)
           \/ /\ code = "OK"
              /\ session_lock' = TRUE
              /\ pending_inputs' = [pending_inputs EXCEPT ![e] = Append(@, i)]
              /\ enqueued' = [enqueued EXCEPT ![e] = Append(@, i)]
              /\ ep' = [ep EXCEPT ![h] = e]
              /\ reply' = [reply EXCEPT ![h] = "OK"]
              /\ pc' = [pc EXCEPT ![h] = "enqueued"]
              /\ UNCHANGED <<exists, processing_lock, tainted, countVars,
                             sessions_waiting_checkin, epoch_state,
                             processed_inputs, vouchers_tree, notices_tree,
                             most_recent_machine_hash, committed,
                             pending_query, localVars, scheduled, crashed,
                             machineVars>>

\* The checks InspectState makes, in its order.
InspectStateCode ==
    IF ~exists THEN "INVALID_ARGUMENT"
    ELSE IF session_lock THEN "ABORTED"
    ELSE IF tainted THEN "DATA_LOSS"
    ELSE IF epoch_state[active_epoch_index] = "absent" THEN "INTERNAL"
    ELSE IF pending_query[active_epoch_index] # None THEN "INTERNAL"
    ELSE "OK"

-----------------------------------------------------------------------------
(* Steps several handlers share *)

\* trigger_and_wait_checkin, up to the yield of its trigger (the request for a
\* snapshot or a rollback).
TriggerCheckin(h, label) ==
    /\ pc' = [pc EXCEPT ![h] = label]
    /\ crashed' = (sessions_waiting_checkin' # None)

\* enqueue_completion_queue
Schedule(c) == scheduled' = [scheduled EXCEPT ![c] = @ + 1]

\* Fault: the handler does not wait for its tag.
ResumeUnscheduled(h) ==
    ~crashed /\ scheduled' = [scheduled EXCEPT ![h] = @ - 1]

\* The completion queue returns the tag of a scheduled coroutine.
Resume(h) ==
    /\ ~crashed /\ scheduled[h] > 0
    /\ scheduled' = [scheduled EXCEPT ![h] = @ - 1]

\* The response of an InspectState is sent: pending_query.reset() and Finish.
AnswerQuery(h, e) ==
    /\ pending_query' = [pending_query EXCEPT ![e] = None]
    /\ reply' = [reply EXCEPT ![h] = "OK"]
    /\ pc' = [pc EXCEPT ![h] = "ack"]

\* process_pending_query up to its first yield.  coroutine is what pending_query
\* holds if the query is not answered at once for being too long.
ProcessPendingQuery(h, e, coroutine, too_long) ==
    \/ too_long /\ AnswerQuery(h, e) /\ UNCHANGED crashed
    \/ /\ ~too_long /\ TriggerCheckin(h, "snapshot")
       /\ pending_query' = [pending_query EXCEPT ![e] = coroutine]
       /\ UNCHANGED reply

\* The InspectState handler up to its first yield.
InspectState(h, too_long) ==
    /\ Receive(h, "InspectState")
    /\ LET e == active_epoch_index
       IN  \/ InspectStateCode # "OK" /\ Refuse(h, InspectStateCode)
           \/ /\ InspectStateCode = "OK"
              /\ session_lock' = TRUE
              /\ ep' = [ep EXCEPT ![h] = e]
              /\ UNCHANGED <<exists, processing_lock, tainted, countVars,
                             sessions_waiting_checkin, epochVars, localVars,
                             scheduled, machineVars>>
              /\ \/ /\ pending_inputs[e] # <<>>
                    /\ pending_query' = [pending_query EXCEPT ![e] = h]
                    /\ pc' = [pc EXCEPT ![h] = "query"]
                    /\ UNCHANGED <<reply, crashed>>
                 \/ /\ pending_inputs[e] = <<>>
                    /\ ProcessPendingQuery(h, e, Null, too_long)

-----------------------------------------------------------------------------
(* Stale references *)

\* What a suspended handler will use when it is resumed is still there: the
\* session, the epoch, its query or the input at the front of the queue.
Valid(h) ==
    /\ exists
    /\ epoch_state[ep[h]] # "absent"
    /\ rpc[h] = "InspectState" => pending_query[ep[h]] # None
    /\ Processing(h) /\ pc[h] # "handoff" => pending_inputs[ep[h]] # <<>>

\* A handler is resumed after its session or its epoch was destroyed.
UseAfterFree(h) ==
    /\ ~crashed
    /\ \/ /\ pc[h] \in Talking \cup {"enqueued", "store"} /\ ~Valid(h)
          /\ pc[h] \in {"snapshot_checkin", "rollback_checkin"}
                => sessions_waiting_checkin = h
       \/ pc[h] \in {"handoff", "query"} /\ ~Valid(h) /\ scheduled[h] > 0
       \/ pc[h] = "shutdown" /\ ~exists
    /\ crashed' = TRUE
    /\ UNCHANGED <<exists, lockVars, tainted, countVars, epochVars,
                   sessions_waiting_checkin, pending_query, pc, rpc, ep,
                   localVars, reply, scheduled, machineVars>>

\* The completion queue returns the tag of a coroutine that is not waiting for
\* it: a null one, a deleted one, or one whose own operation is still pending.
ResumeStray(c) ==
    /\ ~crashed /\ scheduled[c] > 0
    /\ c \in Handlers => pc[c] \notin {"handoff", "query", "tainting"}
    /\ crashed' = TRUE
    /\ UNCHANGED <<exists, lockVars, tainted, countVars, epochVars,
                   sessions_waiting_checkin, pending_query, pc, rpc, ep,
                   localVars, reply, scheduled, machineVars>>

\* Handler h is resumed at one of the labels and finds all it needs.
At(h, labels) == ~crashed /\ pc[h] \in labels /\ Valid(h)

-----------------------------------------------------------------------------
(* AdvanceState after its response, and process_pending_inputs *)

\* Fault: the query that waits is not resumed.
TaintAndForgetQuery(h) ==
    /\ tainted' = TRUE
    /\ session_lock' = FALSE
    /\ processing_lock' = (processing_lock /\ ~Processing(h))
    /\ pc' = [pc EXCEPT ![h] = "done"]
    /\ UNCHANGED <<scheduled, pending_query>>

\* The exception handlers of AdvanceState.  Unwinding destroys both auto_locks
\* (processing_lock only if h is inside process_pending_inputs); a query that
\* waits for us is resumed.
TaintAdvanceState(h) ==
    LET query == pending_query[active_epoch_index]
    IN  /\ tainted' = TRUE
        /\ session_lock' = FALSE
        /\ processing_lock' = (processing_lock /\ ~Processing(h))
        /\ IF query = None
           THEN /\ pc' = [pc EXCEPT ![h] = "done"]
                /\ UNCHANGED <<scheduled, pending_query>>
           ELSE /\ pc' = [pc EXCEPT ![h] = "tainting"]
                /\ Schedule(query)
                /\ pending_query' = [pending_query EXCEPT
                                        ![active_epoch_index] = h]

\* The handler returns: the destructor of its auto_lock clears session_lock.
Return(h) ==
    /\ pc' = [pc EXCEPT ![h] = "done"]
    /\ session_lock' = FALSE

\* The loop of process_pending_inputs takes up the input at the front.
TakeUpInput(h) ==
    /\ input_index' = [input_index EXCEPT ![h] = processed_input_count']
    /\ epoch_input_index' =
            [epoch_input_index EXCEPT ![h] = Len(processed_inputs'[ep[h]])]
    /\ TriggerCheckin(h, "snapshot")
    /\ UNCHANGED resume_on_exit

\* Fault: process_pending_inputs does not look at processing_lock.
AckedWithoutProcessingLock(h) ==
    /\ At(h, {"enqueued"})
    /\ session_lock /\ Len(pending_inputs[ep[h]]) = 1
    /\ UNCHANGED <<exists, tainted, countVars, sessions_waiting_checkin,
                   epochVars, pending_query, rpc, ep, reply, scheduled,
                   machineVars>>
    /\ session_lock' = FALSE /\ processing_lock' = TRUE
    /\ TakeUpInput(h)

\* The response of AdvanceState was delivered.
AdvanceStateAcked(h) ==
    /\ At(h, {"enqueued"})
    /\ UNCHANGED <<exists, countVars, sessions_waiting_checkin, epochVars,
                   rpc, ep, reply, machineVars>>
    /\ \/ \* release() throws: another handler has cleared the lock
          /\ ~session_lock
          /\ TaintAdvanceState(h) /\ UNCHANGED <<localVars, crashed>>
       \/ \* some other handler is to process the input
          /\ session_lock /\ Len(pending_inputs[ep[h]]) # 1
          /\ Return(h)
          /\ UNCHANGED <<processing_lock, tainted, pending_query, localVars,
                         scheduled, crashed>>
       \/ \* "concurrent input processing detected in session"
          /\ session_lock /\ Len(pending_inputs[ep[h]]) = 1 /\ processing_lock
          /\ TaintAdvanceState(h) /\ UNCHANGED <<localVars, crashed>>
       \/ /\ session_lock /\ Len(pending_inputs[ep[h]]) = 1 /\ ~processing_lock
          /\ session_lock' = FALSE /\ processing_lock' = TRUE
          /\ TakeUpInput(h)
          /\ UNCHANGED <<tainted, pending_query, scheduled>>

\* Fault: IF instead of WHILE.
ProcessOnlyOne(h) ==
    Return(h) /\ processing_lock' = FALSE /\ UNCHANGED <<localVars, crashed>>

\* process_pending_inputs goes back to the head of its loop.
ProcessNext(h) ==
    \/ /\ pending_inputs'[ep[h]] = <<>>
       /\ Return(h) /\ processing_lock' = FALSE
       /\ UNCHANGED <<localVars, crashed>>
    \/ /\ pending_inputs'[ep[h]] # <<>>
       /\ TakeUpInput(h) /\ UNCHANGED lockVars

\* Fault: skipped inputs are not counted.
RecordCountingAccepted(h, status) ==
    LET e == ep[h]
        p == [input |-> Head(pending_inputs[e]), input_index |-> input_index[h],
              epoch_input_index |-> epoch_input_index[h], status |-> status]
    IN  /\ processed_inputs' = [processed_inputs EXCEPT ![e] = Append(@, p)]
        /\ processed_input_count' =
                processed_input_count + (IF status = "accepted" THEN 1 ELSE 0)
        /\ pending_inputs' = [pending_inputs EXCEPT ![e] = Tail(@)]

\* Fault: pop_back.
RecordAndPopBack(h, status) ==
    LET e == ep[h]
        n == Len(pending_inputs[e])
        p == [input |-> Head(pending_inputs[e]), input_index |-> input_index[h],
              epoch_input_index |-> epoch_input_index[h], status |-> status]
    IN  /\ processed_inputs' = [processed_inputs EXCEPT ![e] = Append(@, p)]
        /\ processed_input_count' = processed_input_count + 1
        /\ pending_inputs' = [pending_inputs EXCEPT ![e] = SubSeq(@, 1, n - 1)]

\* An input is done: its result is kept, it is counted and removed.
RecordInput(h, status) ==
    LET e == ep[h]
        p == [input |-> Head(pending_inputs[e]), input_index |-> input_index[h],
              epoch_input_index |-> epoch_input_index[h], status |-> status]
    IN  /\ processed_inputs' = [processed_inputs EXCEPT ![e] = Append(@, p)]
        /\ processed_input_count' = processed_input_count + 1
        /\ pending_inputs' = [pending_inputs EXCEPT ![e] = Tail(@)]

\* Fault: pending_query.coroutine is left as it is.
ServeQueryNoReturn(h) ==
    LET query == pending_query[ep[h]]
    IN  \/ /\ query # None
           /\ Schedule(query)
           /\ UNCHANGED pending_query
           /\ pc' = [pc EXCEPT ![h] = "handoff"]
           /\ UNCHANGED <<lockVars, localVars, crashed>>
        \/ /\ query = None
           /\ ProcessNext(h)
           /\ UNCHANGED <<scheduled, pending_query>>

\* A query that waits goes before the next input.
ServeQueryFirst(h) ==
    LET query == pending_query[ep[h]]
    IN  \/ /\ query # None
           /\ Schedule(query)
           /\ pending_query' = [pending_query EXCEPT ![ep[h]] = h]
           /\ pc' = [pc EXCEPT ![h] = "handoff"]
           /\ UNCHANGED <<lockVars, localVars, crashed>>
        \/ /\ query = None
           /\ ProcessNext(h)
           /\ UNCHANGED <<scheduled, pending_query>>

\* The end of the loop's body.
CompleteInput(h, status) == RecordInput(h, status) /\ ServeQueryFirst(h)

\* The query is done with the machine; process_pending_inputs continues.
ResumeProcessing(h) ==
    /\ At(h, {"handoff"}) /\ Resume(h)
    /\ UNCHANGED <<exists, tainted, countVars, sessions_waiting_checkin,
                   epochVars, pending_query, rpc, ep, reply, machineVars>>
    /\ ProcessNext(h)

\* The query is done with a tainted session; AdvanceState ends.
ResumeTainting(h) ==
    /\ pc[h] = "tainting" /\ Resume(h)
    /\ pc' = [pc EXCEPT ![h] = "done"]
    /\ UNCHANGED <<exists, lockVars, tainted, countVars, epochVars,
                   sessions_waiting_checkin, pending_query, rpc, ep, localVars,
                   reply, crashed, machineVars>>

-----------------------------------------------------------------------------
(* Conversation with the machine server, about an input or a query *)

\* snapshot() or rollback() returned: wait for the new server to check in.
AwaitCheckin(h, label) ==
    /\ pc' = [pc EXCEPT ![h] = label]
    /\ sessions_waiting_checkin' = h
    /\ UNCHANGED <<exists, lockVars, tainted, countVars, epochVars,
                   pending_query, rpc, ep, localVars, reply, scheduled, crashed>>

SnapshotTaken(h) ==
    /\ At(h, {"snapshot"})
    /\ AwaitCheckin(h, "snapshot_checkin")
    /\ snapshot' = machine /\ UNCHANGED machine

RolledBack(h) ==
    /\ At(h, {"rollback"})
    /\ AwaitCheckin(h, "rollback_checkin")
    /\ machine' = snapshot /\ UNCHANGED snapshot

\* The server checked in and trigger_and_wait_checkin returns.
CheckedIn(h, label) ==
    /\ At(h, {label})
    /\ sessions_waiting_checkin = h
    /\ sessions_waiting_checkin' = None

\* The server runs the input or the query.
RunMachine(h, id) ==
    /\ At(h, {"run"})
    /\ machine' = Append(machine, id) /\ UNCHANGED snapshot

\* After the snapshot: the payload fits into the rx buffer and is run, or it is
\* an input that does not fit and is skipped.
SnapshotCheckedIn(h) ==
    /\ CheckedIn(h, "snapshot_checkin")
    /\ UNCHANGED <<exists, lockVars, tainted, countVars, epochVars,
                   pending_query, rpc, ep, localVars, reply, scheduled,
                   machineVars>>
    /\ \/ pc' = [pc EXCEPT ![h] = "run"] /\ UNCHANGED crashed
       \/ rpc[h] = "AdvanceState" /\ TriggerCheckin(h, "rollback")

\* Both trees of the epoch have one leaf for each earlier input.
TreesConsistent(h) ==
    /\ vouchers_tree[ep[h]] = epoch_input_index[h]
    /\ notices_tree[ep[h]] = epoch_input_index[h]

\* The loop around run_machine ended for an input: the machine accepted it or it
\* is to be skipped.
InputRun(h) ==
    /\ rpc[h] = "AdvanceState"
    /\ RunMachine(h, Head(pending_inputs[ep[h]]).id)
    /\ UNCHANGED <<exists, countVars, sessions_waiting_checkin, epochVars, rpc,
                   ep, localVars, reply>>
    /\ \/ /\ TreesConsistent(h)
          /\ \/ pc' = [pc EXCEPT ![h] = "voucher_proof"] /\ UNCHANGED crashed
             \/ TriggerCheckin(h, "rollback")
          /\ UNCHANGED <<lockVars, tainted, pending_query, scheduled>>
       \/ /\ ~TreesConsistent(h)
          /\ TaintAdvanceState(h) /\ UNCHANGED crashed

\* Fault: the query is answered and not rolled back.
QueryRunOnly(h) ==
    /\ rpc[h] = "InspectState"
    /\ RunMachine(h, h)
    /\ AnswerQuery(h, ep[h])
    /\ UNCHANGED <<exists, lockVars, tainted, countVars, epochVars, rpc, ep,
                   sessions_waiting_checkin, localVars, scheduled, crashed>>

\* The same for a query, which is always rolled back.
QueryRun(h) ==
    /\ rpc[h] = "InspectState"
    /\ RunMachine(h, h)
    /\ UNCHANGED <<exists, lockVars, tainted, countVars, epochVars,
                   sessions_waiting_checkin, pending_query, rpc, ep, localVars,
                   reply, scheduled>>
    /\ TriggerCheckin(h, "rollback")

\* The proof of the voucher hashes arrived: vouchers_tree.push_back.
VouchersProved(h) ==
    /\ At(h, {"voucher_proof"})
    /\ pc' = [pc EXCEPT ![h] = "notice_proof"]
    /\ vouchers_tree' = [vouchers_tree EXCEPT ![ep[h]] = @ + 1]
    /\ UNCHANGED <<exists, lockVars, tainted, countVars, epoch_state,
                   sessions_waiting_checkin, pending_inputs, processed_inputs,
                   notices_tree, most_recent_machine_hash, enqueued, committed,
                   pending_query, rpc, ep, localVars, reply, scheduled, crashed,
                   machineVars>>

\* The proof of the notice hashes arrived: notices_tree.push_back.
NoticesProved(h) ==
    /\ At(h, {"notice_proof"})
    /\ pc' = [pc EXCEPT ![h] = "root_hash"]
    /\ notices_tree' = [notices_tree EXCEPT ![ep[h]] = @ + 1]
    /\ UNCHANGED <<exists, lockVars, tainted, countVars, epoch_state,
                   sessions_waiting_checkin, pending_inputs, processed_inputs,
                   vouchers_tree, most_recent_machine_hash, enqueued, committed,
                   pending_query, rpc, ep, localVars, reply, scheduled, crashed,
                   machineVars>>

\* get_root_hash returned for an accepted input.
InputAccepted(h) ==
    /\ At(h, {"root_hash"})
    /\ most_recent_machine_hash' =
            [most_recent_machine_hash EXCEPT ![ep[h]] = machine]
    /\ committed' = Append(committed, Head(pending_inputs[ep[h]]).id)
    /\ UNCHANGED <<exists, tainted, active_epoch_index, epoch_state,
                   sessions_waiting_checkin, vouchers_tree, notices_tree,
                   enqueued, rpc, ep, reply, machineVars>>
    /\ CompleteInput(h, "accepted")

\* The rolled back server of a skipped input checked in: a null hash goes into
\* each tree.
InputRolledBack(h) ==
    /\ rpc[h] = "AdvanceState"
    /\ CheckedIn(h, "rollback_checkin")
    /\ vouchers_tree' = [vouchers_tree EXCEPT ![ep[h]] = @ + 1]
    /\ notices_tree' = [notices_tree EXCEPT ![ep[h]] = @ + 1]
    /\ pc' = [pc EXCEPT ![h] = "check_hash"]
    /\ UNCHANGED <<exists, lockVars, tainted, countVars, epoch_state,
                   pending_inputs, processed_inputs, most_recent_machine_hash,
                   enqueued, committed, pending_query, rpc, ep, localVars,
                   reply, scheduled, crashed, machineVars>>

\* get_root_hash returned for a skipped input.
InputSkipped(h) ==
    /\ At(h, {"check_hash"})
    /\ UNCHANGED <<exists, active_epoch_index, sessions_waiting_checkin,
                   epoch_state, vouchers_tree, notices_tree,
                   most_recent_machine_hash, enqueued, committed, rpc, ep,
                   reply, machineVars>>
    /\ \/ /\ most_recent_machine_hash[ep[h]] = machine
          /\ CompleteInput(h, "skipped") /\ UNCHANGED tainted
       \/ /\ most_recent_machine_hash[ep[h]] # machine
          /\ TaintAdvanceState(h)
          /\ UNCHANGED <<processed_input_count, pending_inputs,
                         processed_inputs, localVars, crashed>>

\* The rolled back server of a query checked in: the query is answered.
QueryRolledBack(h) ==
    /\ rpc[h] = "InspectState"
    /\ CheckedIn(h, "rollback_checkin")
    /\ AnswerQuery(h, ep[h])
    /\ UNCHANGED <<exists, lockVars, tainted, countVars, epochVars, rpc, ep,
                   localVars, scheduled, crashed, machineVars>>

\* Fault: process_pending_inputs is not resumed.
UnwindWithoutResume(h) == session_lock' = FALSE /\ UNCHANGED scheduled

\* Unwinding an InspectState: resume_on_exit puts process_pending_inputs back in
\* the queue, then the auto_lock clears session_lock.
UnwindInspectState(h) ==
    /\ session_lock' = FALSE
    /\ \/ resume_on_exit[h] \in {None, Null} /\ UNCHANGED scheduled
       \/ /\ resume_on_exit[h] \notin {None, Null}
          /\ Schedule(resume_on_exit[h])

\* A call to the machine server failed, the machine misbehaved, or the check-in
\* deadline was reached: taint_session is thrown.  A server that failed in the
\* middle of a run may have changed its state.
MachineFails(h) ==
    /\ MachineFaults
    /\ At(h, Talking)
    /\ \/ pc[h] \notin {"snapshot_checkin", "rollback_checkin"}
          /\ UNCHANGED sessions_waiting_checkin
       \/ \E label \in {"snapshot_checkin", "rollback_checkin"} :
                CheckedIn(h, label)
    /\ \/ UNCHANGED machine
       \/ pc[h] = "run" /\ machine' = Append(machine, h)
    /\ UNCHANGED <<exists, countVars, epochVars, rpc, ep, localVars, crashed,
                   snapshot>>
    /\ \/ /\ rpc[h] = "AdvanceState"
          /\ TaintAdvanceState(h) /\ UNCHANGED reply
       \/ /\ rpc[h] = "InspectState"
          /\ tainted' = TRUE
          /\ UnwindInspectState(h)
          /\ pc' = [pc EXCEPT ![h] = "error"]
          /\ reply' = [reply EXCEPT ![h] = "MACHINE_ERROR"]
          /\ UNCHANGED <<processing_lock, pending_query>>

\* A query waiting for process_pending_inputs is resumed: by it, or by one of
\* the exception handlers of AdvanceState.
ResumeQuery(h, too_long) ==
    LET coroutine == pending_query[ep[h]]
    IN  /\ At(h, {"query"})
        /\ UNCHANGED <<exists, processing_lock, tainted, countVars, epochVars,
                       sessions_waiting_checkin, rpc, ep, input_index,
                       epoch_input_index, machineVars>>
        /\ \/ /\ tainted
              /\ ~crashed /\ scheduled[h] > 0
              /\ scheduled' = [scheduled EXCEPT
                                    ![h] = @ - 1,
                                    ![coroutine] = IF coroutine = Null THEN @
                                                                       ELSE @ + 1]
              /\ session_lock' = FALSE
              /\ pc' = [pc EXCEPT ![h] = "error"]
              /\ reply' = [reply EXCEPT ![h] = "DATA_LOSS"]
              /\ UNCHANGED <<pending_query, resume_on_exit, crashed>>
           \/ /\ ~tainted
              /\ Resume(h)
              /\ resume_on_exit' = [resume_on_exit EXCEPT ![h] = coroutine]
              /\ ProcessPendingQuery(h, ep[h], coroutine, too_long)
              /\ UNCHANGED session_lock

-----------------------------------------------------------------------------
(* FinishEpoch, DeleteEpoch, EndSession and the status requests *)

\* Fault: the queue is not looked at.
FinishEpochCodeNoQueue(e, count_ok) ==
    IF ~exists THEN "INVALID_ARGUMENT"
    ELSE IF active_epoch_index = MaxEpochIndex THEN "OUT_OF_RANGE"
    ELSE IF session_lock THEN "ABORTED"
    ELSE IF tainted THEN "DATA_LOSS"
    ELSE IF epoch_state[e] # "active" \/ ~count_ok THEN "INVALID_ARGUMENT"
    ELSE "OK"

\* The checks FinishEpoch makes, in its order.
FinishEpochCode(e, count_ok) ==
    IF ~exists THEN "INVALID_ARGUMENT"
    ELSE IF active_epoch_index = MaxEpochIndex THEN "OUT_OF_RANGE"
    ELSE IF session_lock THEN "ABORTED"
    ELSE IF tainted THEN "DATA_LOSS"
    ELSE IF epoch_state[e] # "active" THEN "INVALID_ARGUMENT"
    ELSE IF pending_inputs[e] # <<>> THEN "INVALID_ARGUMENT"
    ELSE IF ~count_ok THEN "INVALID_ARGUMENT"
    ELSE "OK"

\* An epoch_type as its constructor leaves it.
ClearEpoch(e) ==
    /\ pending_inputs' = [pending_inputs EXCEPT ![e] = <<>>]
    /\ processed_inputs' = [processed_inputs EXCEPT ![e] = <<>>]
    /\ pending_query' = [pending_query EXCEPT ![e] = None]
    /\ vouchers_tree' = [vouchers_tree EXCEPT ![e] = 0]
    /\ notices_tree' = [notices_tree EXCEPT ![e] = 0]
    /\ enqueued' = [enqueued EXCEPT ![e] = <<>>]

\* finish_epoch, start_new_epoch and the response.  The index wraps around.
FinishAndStartEpoch(h, e) ==
    LET next == (active_epoch_index + 1) % (MaxEpochIndex + 1)
    IN  /\ active_epoch_index' = next
        /\ epoch_state' = [epoch_state EXCEPT ![e] = "finished",
                                              ![next] = "active"]
        /\ most_recent_machine_hash' =
                [most_recent_machine_hash EXCEPT
                    ![next] = most_recent_machine_hash[e]]
        /\ ClearEpoch(next)
        /\ pc' = [pc EXCEPT ![h] = "ack"]
        /\ reply' = [reply EXCEPT ![h] = "OK"]

\* The FinishEpoch handler up to its first yield.
FinishEpoch(h, e, count_ok, store) ==
    /\ Receive(h, "FinishEpoch")
    /\ LET code == FinishEpochCode(e, count_ok)
       IN  \/ code # "OK" /\ Refuse(h, code)
           \/ /\ code = "OK"
              /\ session_lock' = TRUE
              /\ ep' = [ep EXCEPT ![h] = e]
              /\ UNCHANGED <<exists, processing_lock, tainted,
                             processed_input_count, sessions_waiting_checkin,
                             committed, localVars, scheduled, crashed,
                             machineVars>>
              /\ \/ ~store /\ FinishAndStartEpoch(h, e)
                 \/ /\ store /\ pc' = [pc EXCEPT ![h] = "store"]
                    /\ UNCHANGED <<active_epoch_index, epoch_state,
                                   pending_inputs, processed_inputs,
                                   vouchers_tree, notices_tree,
                                   most_recent_machine_hash, enqueued,
                                   pending_query, reply>>

\* The machine was stored.
Stored(h) ==
    /\ At(h, {"store"})
    /\ FinishAndStartEpoch(h, ep[h])
    /\ UNCHANGED <<exists, lockVars, tainted, processed_input_count,
                   sessions_waiting_checkin, committed, rpc, ep, localVars,
                   scheduled, crashed, machineVars>>

\* A call to the machine server failed in FinishEpoch or EndSession: an error
\* response, the session stays as it was.
CallFails(h) ==
    /\ MachineFaults /\ ~crashed
    /\ pc[h] = "store" \/ pc[h] = "shutdown"
    /\ exists
    /\ session_lock' = FALSE
    /\ pc' = [pc EXCEPT ![h] = "error"]
    /\ reply' = [reply EXCEPT ![h] = "MACHINE_ERROR"]
    /\ UNCHANGED <<exists, processing_lock, tainted, countVars, epochVars,
                   sessions_waiting_checkin, pending_query, rpc, ep, localVars,
                   scheduled, crashed, machineVars>>

\* Fault: the active epoch may be deleted.
DeleteEpochCodeAny(e) ==
    IF ~exists THEN "INVALID_ARGUMENT"
    ELSE IF session_lock THEN "ABORTED"
    ELSE IF epoch_state[e] = "absent" THEN "INVALID_ARGUMENT"
    ELSE "OK"

\* The checks DeleteEpoch makes, in its order.
DeleteEpochCode(e) ==
    IF ~exists THEN "INVALID_ARGUMENT"
    ELSE IF session_lock THEN "ABORTED"
    ELSE IF epoch_state[e] # "finished" \/ active_epoch_index = e
        THEN "INVALID_ARGUMENT"
    ELSE "OK"

\* The DeleteEpoch handler up to its first yield.
DeleteEpoch(h, e) ==
    /\ Receive(h, "DeleteEpoch")
    /\ LET code == DeleteEpochCode(e)
       IN  \/ code # "OK" /\ Refuse(h, code)
           \/ /\ code = "OK"
              /\ session_lock' = TRUE
              /\ epoch_state' = [epoch_state EXCEPT ![e] = "absent"]
              /\ most_recent_machine_hash' =
                    [most_recent_machine_hash EXCEPT ![e] = <<>>]
              /\ ClearEpoch(e)
              /\ pc' = [pc EXCEPT ![h] = "ack"]
              /\ reply' = [reply EXCEPT ![h] = "OK"]
              /\ UNCHANGED <<exists, processing_lock, tainted, countVars,
                             sessions_waiting_checkin, committed, ep, localVars,
                             scheduled, crashed, machineVars>>

\* The checks EndSession makes, in its order.
EndSessionCode ==
    IF ~exists THEN "INVALID_ARGUMENT"
    ELSE IF session_lock THEN "ABORTED"
    ELSE IF ~tainted /\ pending_inputs[active_epoch_index] # <<>>
        THEN "INVALID_ARGUMENT"
    ELSE IF ~tainted /\ processed_inputs[active_epoch_index] # <<>>
        THEN "INVALID_ARGUMENT"
    ELSE IF processing_lock THEN "INTERNAL"
    ELSE "OK"

\* The EndSession handler up to its first yield.
EndSession(h) ==
    /\ Receive(h, "EndSession")
    /\ \/ EndSessionCode # "OK" /\ Refuse(h, EndSessionCode)
       \/ /\ EndSessionCode = "OK"
          /\ session_lock' = TRUE
          /\ pc' = [pc EXCEPT ![h] = "shutdown"]
          /\ UNCHANGED <<exists, processing_lock, tainted, countVars, epochVars,
                         sessions_waiting_checkin, pending_query, ep, localVars,
                         reply, scheduled, crashed, machineVars>>

\* The machine server was shut down: sessions.erase.
ShutDown(h) ==
    /\ ~crashed /\ pc[h] = "shutdown" /\ exists
    /\ exists' = FALSE
    /\ pc' = [pc EXCEPT ![h] = "ack"]
    /\ reply' = [reply EXCEPT ![h] = "OK"]
    /\ UNCHANGED <<lockVars, tainted, countVars, epochVars,
                   sessions_waiting_checkin, pending_query, rpc, ep, localVars,
                   scheduled, crashed, machineVars>>

\* GetSessionStatus and GetEpochStatus change nothing but hold the lock until
\* their response is delivered.
StatusCode(r, e) ==
    IF ~exists THEN "INVALID_ARGUMENT"
    ELSE IF session_lock THEN "ABORTED"
    ELSE IF r = "GetEpochStatus" /\ epoch_state[e] = "absent"
        THEN "INVALID_ARGUMENT"
    ELSE "OK"

GetStatus(h, r, e) ==
    /\ Receive(h, r)
    /\ LET code == StatusCode(r, e)
       IN  \/ code # "OK" /\ Refuse(h, code)
           \/ /\ code = "OK"
              /\ session_lock' = TRUE
              /\ pc' = [pc EXCEPT ![h] = "ack"]
              /\ reply' = [reply EXCEPT ![h] = "OK"]
              /\ UNCHANGED <<exists, processing_lock, tainted, countVars,
                             epochVars, sessions_waiting_checkin, pending_query,
                             ep, localVars, scheduled, crashed, machineVars>>

\* The response was delivered and the handler ends with its auto_lock.  If the
\* session was erased, that is a write to freed memory.
Acked(h) ==
    /\ ~crashed /\ pc[h] = "ack"
    /\ pc' = [pc EXCEPT ![h] = "done"]
    /\ UnwindInspectState(h)
    /\ crashed' \in IF exists THEN {FALSE} ELSE BOOLEAN
    /\ UNCHANGED <<exists, processing_lock, tainted, countVars, epochVars,
                   sessions_waiting_checkin, pending_query, rpc, ep, localVars,
                   reply, machineVars>>

\* The error response was delivered.
ErrorAcked(h) ==
    /\ ~crashed /\ pc[h] = "error"
    /\ pc' = [pc EXCEPT ![h] = "done"]
    /\ UNCHANGED <<exists, lockVars, tainted, countVars, epochVars,
                   sessions_waiting_checkin, pending_query, rpc, ep, localVars,
                   reply, scheduled, crashed, machineVars>>

-----------------------------------------------------------------------------
(* The specification *)

Request(h) ==
    \/ \E e \in EpochIndices, b \in BOOLEAN : AdvanceState(h, e, b)
    \/ \E b \in BOOLEAN : InspectState(h, b)
    \/ \E e \in EpochIndices, b, store \in BOOLEAN : FinishEpoch(h, e, b, store)
    \/ \E e \in EpochIndices : DeleteEpoch(h, e)
    \/ EndSession(h)
    \/ \E r \in {"GetSessionStatus", "GetEpochStatus"}, e \in EpochIndices :
            GetStatus(h, r, e)

\* A step of a handler that has its request: what it waits for has arrived.
Step(h) ==
    \/ AdvanceStateAcked(h) \/ ResumeProcessing(h) \/ ResumeTainting(h)
    \/ \E b \in BOOLEAN : ResumeQuery(h, b)
    \/ SnapshotTaken(h) \/ SnapshotCheckedIn(h) \/ InputRun(h) \/ QueryRun(h)
    \/ VouchersProved(h) \/ NoticesProved(h) \/ InputAccepted(h)
    \/ RolledBack(h) \/ InputRolledBack(h) \/ InputSkipped(h)
    \/ QueryRolledBack(h)
    \/ MachineFails(h) \/ CallFails(h)
    \/ Stored(h) \/ ShutDown(h) \/ Acked(h) \/ ErrorAcked(h)
    \/ UseAfterFree(h)

Next ==
    \/ \E h \in Handlers : Request(h) \/ Step(h)
    \/ \E c \in Handlers \cup {Null} : ResumeStray(c)

Spec == Init /\ [][Next]_vars

\* Every call to the machine server has a deadline, every response and every
\* alarm comes back through the completion queue, and so does the check-in or
\* its deadline.
Fairness ==
    /\ \A h \in Handlers : WF_vars(Step(h))
    /\ WF_vars(\E c \in Handlers \cup {Null} : ResumeStray(c))

FairSpec == Spec /\ Fairness

-----------------------------------------------------------------------------
(* Properties that hold whatever the clients send *)

\* The inputs a sequence of results was computed from.
InputsOf(results) == [i \in 1..Len(results) |-> results[i].input]

\* processing_lock does what it is for: it is set exactly while a handler is
\* inside process_pending_inputs, and there is never a second one, even though
\* the session_lock that callers hold on to is cleared by strangers.
ProcessingExclusive ==
    /\ processing_lock <=> \E h \in Handlers : Processing(h)
    /\ \A g, h \in Handlers : Processing(g) /\ Processing(h) => g = h

\* The epoch at active_epoch_index is there and active, so the "active epoch not
\* found" and "epoch is finished" errors of AdvanceState and InspectState are
\* unreachable, and session.epochs[session.active_epoch_index] never creates an
\* epoch in the exception handlers.
ActiveEpochIsActive == epoch_state[active_epoch_index] = "active"

\* No input an epoch accepted is lost, duplicated or overtaken: the results, in
\* order, and then the queue are exactly the inputs enqueued, in order.
InputLog ==
    \A e \in EpochIndices :
        enqueued[e] = InputsOf(processed_inputs[e]) \o pending_inputs[e]

\* The index recorded with a result was read when the input was taken up, many
\* yields before processed_input_count was incremented; still no two results of
\* the session share it, in whatever epochs they are, and none has an index that
\* is still to be given out.
IndicesUnique ==
    \A e, f \in EpochIndices :
        \A i \in 1..Len(processed_inputs[e]), j \in 1..Len(processed_inputs[f]) :
            /\ processed_inputs[e][i].input_index < processed_input_count
            /\ processed_inputs[e][i].input_index
                    = processed_inputs[f][j].input_index => e = f /\ i = j

\* Every handler ends: none is left waiting for a coroutine, a check-in or a
\* response that never comes.
HandlersEnd == \A h \in Handlers : Live(h) ~> pc[h] = "done" \/ crashed

\* An input a client was told is accepted gets a result, unless the session is
\* tainted.  In particular an input enqueued while process_pending_inputs is
\* about to leave its loop is not left behind in the queue.
InputsProcessed ==
    \A h \in Handlers :
        pc[h] = "enqueued" ~> \/ tainted \/ crashed
                              \/ \E e \in EpochIndices :
                                    \E i \in 1..Len(processed_inputs[e]) :
                                        processed_inputs[e][i].input.id = h

-----------------------------------------------------------------------------
(* What comments in the code say and the code does not keep *)

\* The handlers between taking session_lock and giving it back.
HoldsLock(h) ==
    \/ pc[h] \in {"ack", "enqueued", "query", "store", "shutdown"}
    \/ Querying(h)

\* "Lock session so other rpcs to the same session are rejected": no two
\* handlers are in the part of their code that session_lock protects.
SessionLockExclusive ==
    \A g, h \in Handlers : exists /\ HoldsLock(g) /\ HoldsLock(h) => g = h

\* "This is just for peace of mind: there is no way two concurrent calls can
\* happen": no handler is about to call process_pending_inputs while another one
\* is inside.
NoConcurrentProcessing ==
    \A h \in Handlers :
        pc[h] = "enqueued" /\ session_lock /\ Len(pending_inputs[ep[h]]) = 1
            => ~processing_lock

\* "If the session is tainted, nothing is going on with it": no handler goes on
\* processing inputs in a tainted session.
TaintedIsQuiet == tainted => \A h \in Handlers : ~Processing(h)
=============================================================================
