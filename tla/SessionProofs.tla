--------------------------- MODULE SessionProofs ---------------------------
(***************************************************************************)
(* Type correctness of Session and the safety of process_pending_inputs,   *)
(* for any number of handlers and epochs, whatever requests clients send   *)
(* and whenever they send them, over a machine server that may or may not  *)
(* fail: the properties below do not depend on session_lock, which         *)
(* strangers clear, nor on the client's discipline.                        *)
(***************************************************************************)
EXTENDS Session, SequenceTheorems, TLAPS

-----------------------------------------------------------------------------
(* Types *)

\* A handler is only ever at the labels of the RPC it serves.  Without this the
\* types are not inductive: what process_pending_inputs takes from the queue is
\* an input only because the handler at its labels is an AdvanceState.
LabelsMatch ==
    \A h \in Handlers :
        /\ pc[h] \in {"enqueued", "handoff", "tainting", "voucher_proof",
                      "notice_proof", "root_hash", "check_hash"}
                => rpc[h] = "AdvanceState"
        /\ pc[h] = "query" => rpc[h] = "InspectState"
        /\ pc[h] \in Talking => rpc[h] \in {"AdvanceState", "InspectState"}

\* The session StartSession leaves is of the right types.
LEMMA InitTyped == Init => TypeOK
<1> SUFFICES ASSUME Init PROVE TypeOK
  OBVIOUS
<1>1. StartEpoch \in EpochIndices /\ StartCount \in Nat
  BY ConstantsAssumption DEF EpochIndices
<1>2. FlagsOK
  BY DEF Init, FlagsOK
<1>3. SessionOK
  BY <1>1 DEF Init, SessionOK
<1>4. EpochsOK
  BY DEF Init, EpochsOK
<1>5. LogsOK
  BY EmptySeq DEF Init, LogsOK
<1>6. HandlersOK
  BY <1>1 DEF Init, HandlersOK, Labels, RpcKinds, Codes
<1>7. LocalsOK
  BY DEF Init, LocalsOK
<1> QED
  BY <1>2, <1>3, <1>4, <1>5, <1>6, <1>7 DEF TypeOK

\* The checks of the handlers answer with status codes.
LEMMA CodesTyped ==
    /\ \A e, b : /\ AdvanceStateCode(e, b) \in Codes
                 /\ FinishEpochCode(e, b) \in Codes
    /\ \A e : DeleteEpochCode(e) \in Codes
    /\ \A r, e : StatusCode(r, e) \in Codes
    /\ InspectStateCode \in Codes /\ EndSessionCode \in Codes
  BY DEF AdvanceStateCode, FinishEpochCode, DeleteEpochCode, StatusCode,
         InspectStateCode, EndSessionCode, Codes

\* enqueue_completion_queue keeps the type of the queue.
LEMMA ScheduleTyped ==
    ASSUME LocalsOK, NEW c, Schedule(c)
    PROVE  scheduled' \in [Handlers \cup {Null} -> Nat]
<1>1. ASSUME NEW d \in Handlers \cup {Null} PROVE scheduled'[d] \in Nat
  BY DEF LocalsOK, Schedule
<1> QED
  BY <1>1 DEF LocalsOK, Schedule

\* Taking a tag from the completion queue keeps its type: the tag was there.
LEMMA ResumeTyped ==
    ASSUME LocalsOK, NEW h \in Handlers, Resume(h)
    PROVE  scheduled' \in [Handlers \cup {Null} -> Nat]
<1>1. scheduled[h] - 1 \in Nat
  BY DEF LocalsOK, Resume
<1> QED
  BY <1>1 DEF LocalsOK, Resume

\* Taking up an input keeps the types of the indices read.
LEMMA TakeUpTyped ==
    ASSUME LogsOK', SessionOK', LocalsOK, NEW h \in Handlers,
           ep[h] \in EpochIndices, TakeUpInput(h)
    PROVE  /\ input_index' \in [Handlers -> Nat]
           /\ epoch_input_index' \in [Handlers -> Nat]
           /\ resume_on_exit' = resume_on_exit
  BY DEF LocalsOK, TakeUpInput, LogsOK, SessionOK

\* A handler that is processing an input, and finds what it needs, finds the
\* input at the front of the queue.
LEMMA FrontInput ==
    ASSUME TypeOK, NEW h \in Handlers, Processing(h), pc[h] # "handoff",
           Valid(h)
    PROVE  /\ pending_inputs[ep[h]] # <<>>
           /\ Head(pending_inputs[ep[h]]) \in Input
           /\ Tail(pending_inputs[ep[h]]) \in Seq(Input)
           /\ Head(pending_inputs[ep[h]]).id \in Handlers
<1>1. pending_inputs[ep[h]] \in Seq(Input) /\ pending_inputs[ep[h]] # <<>>
  BY DEF Valid, TypeOK, LogsOK, HandlersOK
<1>2. /\ Head(pending_inputs[ep[h]]) \in Input
      /\ Tail(pending_inputs[ep[h]]) \in Seq(Input)
  BY <1>1, HeadTailProperties
<1>3. \A i \in Input : i.id \in Handlers
  BY DEF Input
<1> QED
  BY <1>1, <1>2, <1>3

\* Recording a result keeps the types of the logs.
LEMMA RecordTyped ==
    ASSUME TypeOK, NEW h \in Handlers, Processing(h), pc[h] # "handoff",
           Valid(h),
           NEW s \in {"accepted", "skipped"}, RecordInput(h, s)
    PROVE  /\ pending_inputs' \in [EpochIndices -> Seq(Input)]
           /\ processed_inputs' \in [EpochIndices -> Seq(ProcessedInput)]
           /\ processed_input_count' \in Nat
<1>1. ep[h] \in EpochIndices
  BY DEF TypeOK, HandlersOK
<1> DEFINE p == [input |-> Head(pending_inputs[ep[h]]),
                 input_index |-> input_index[h],
                 epoch_input_index |-> epoch_input_index[h], status |-> s]
<1>2. p \in ProcessedInput
  BY FrontInput DEF ProcessedInput, TypeOK, LocalsOK
<1>3. Append(processed_inputs[ep[h]], p) \in Seq(ProcessedInput)
  BY <1>1, <1>2, AppendProperties DEF TypeOK, LogsOK
<1>4. processed_inputs' = [processed_inputs EXCEPT
                                ![ep[h]] = Append(processed_inputs[ep[h]], p)]
  BY DEF RecordInput
<1> HIDE DEF p
<1> QED
  BY <1>1, <1>3, <1>4, FrontInput DEF RecordInput, TypeOK, LogsOK, SessionOK

\* A new or an erased epoch has logs of the right types.
LEMMA ClearTyped ==
    ASSUME LogsOK, NEW e \in EpochIndices, ClearEpoch(e)
    PROVE  /\ pending_inputs' \in [EpochIndices -> Seq(Input)]
           /\ processed_inputs' \in [EpochIndices -> Seq(ProcessedInput)]
           /\ enqueued' \in [EpochIndices -> Seq(Input)]
<1>1. /\ <<>> \in Seq(Input)
      /\ <<>> \in Seq(ProcessedInput)
  OBVIOUS
<1> QED
  BY <1>1 DEF LogsOK, ClearEpoch

\* finish_epoch and start_new_epoch keep the types of the epochs; the next
\* index, modulo the width, is an index.
LEMMA FinishTyped ==
    ASSUME TypeOK, NEW h \in Handlers, NEW e \in EpochIndices,
           FinishAndStartEpoch(h, e)
    PROVE  /\ active_epoch_index' \in EpochIndices
           /\ epoch_state' \in [EpochIndices -> {"absent", "active", "finished"}]
           /\ pending_inputs' \in [EpochIndices -> Seq(Input)]
           /\ processed_inputs' \in [EpochIndices -> Seq(ProcessedInput)]
           /\ enqueued' \in [EpochIndices -> Seq(Input)]
           /\ most_recent_machine_hash' \in [EpochIndices -> Seq(Handlers)]
           /\ pending_query' \in [EpochIndices -> Handlers \cup {None, Null}]
           /\ vouchers_tree' \in [EpochIndices -> Nat]
           /\ notices_tree' \in [EpochIndices -> Nat]
<1> DEFINE next == (active_epoch_index + 1) % (MaxEpochIndex + 1)
<1>1. next \in EpochIndices
  BY ConstantsAssumption DEF TypeOK, SessionOK, EpochIndices
<1>2. ClearEpoch(next) /\ active_epoch_index' = next
  BY DEF FinishAndStartEpoch
<1>3. /\ pending_inputs' \in [EpochIndices -> Seq(Input)]
      /\ processed_inputs' \in [EpochIndices -> Seq(ProcessedInput)]
      /\ enqueued' \in [EpochIndices -> Seq(Input)]
  BY <1>1, <1>2, ClearTyped DEF TypeOK
<1>4. most_recent_machine_hash' =
            [most_recent_machine_hash EXCEPT
                ![next] = most_recent_machine_hash[e]]
  BY DEF FinishAndStartEpoch
<1>5. epoch_state' = [epoch_state EXCEPT ![e] = "finished", ![next] = "active"]
  BY DEF FinishAndStartEpoch
<1> HIDE DEF next
<1>6. most_recent_machine_hash' \in [EpochIndices -> Seq(Handlers)]
  BY <1>1, <1>4 DEF TypeOK, LogsOK
<1>7. epoch_state' \in [EpochIndices -> {"absent", "active", "finished"}]
  BY <1>1, <1>5 DEF TypeOK, EpochsOK
<1>8. /\ pending_query' \in [EpochIndices -> Handlers \cup {None, Null}]
      /\ vouchers_tree' \in [EpochIndices -> Nat]
      /\ notices_tree' \in [EpochIndices -> Nat]
  BY <1>1, <1>2 DEF ClearEpoch, TypeOK, EpochsOK
<1> QED
  BY <1>1, <1>2, <1>3, <1>6, <1>7, <1>8

\* Every step of a handler keeps the types of the flags.
LEMMA FlagsKept ==
    ASSUME TypeOK, NEW h \in Handlers,
           Request(h) \/ Step(h)
    PROVE  FlagsOK'
<1> USE DEF lockVars, countVars, epochVars, machineVars, localVars
<1>1. ASSUME NEW e \in EpochIndices, NEW b \in BOOLEAN, AdvanceState(h, e, b)
      PROVE  FlagsOK'
  BY <1>1 DEF AdvanceState, Refuse, CurrentInputIndex, TypeOK, FlagsOK
<1>2. ASSUME NEW b \in BOOLEAN, InspectState(h, b)
      PROVE  FlagsOK'
  BY <1>2 DEF InspectState, Refuse, ProcessPendingQuery, AnswerQuery,
      TriggerCheckin, TypeOK, FlagsOK
<1>3. ASSUME NEW e \in EpochIndices, NEW b \in BOOLEAN,
             NEW store \in BOOLEAN, FinishEpoch(h, e, b, store)
      PROVE  FlagsOK'
  BY <1>3 DEF FinishEpoch, Refuse, FinishAndStartEpoch, ClearEpoch, TypeOK,
      FlagsOK
<1>4. ASSUME NEW e \in EpochIndices, DeleteEpoch(h, e)
      PROVE  FlagsOK'
  BY <1>4 DEF DeleteEpoch, Refuse, ClearEpoch, TypeOK, FlagsOK
<1>5. ASSUME NEW r \in {"GetSessionStatus", "GetEpochStatus"},
             NEW e \in EpochIndices, GetStatus(h, r, e)
      PROVE  FlagsOK'
  BY <1>5 DEF GetStatus, Refuse, TypeOK, FlagsOK
<1>6. CASE AdvanceStateAcked(h)
  BY <1>6 DEF AdvanceStateAcked, TaintAdvanceState, Return, TakeUpInput,
      TriggerCheckin, TypeOK, FlagsOK
<1>7. CASE ResumeProcessing(h)
  BY <1>7 DEF ResumeProcessing, ProcessNext, Return, TakeUpInput,
      TriggerCheckin, TypeOK, FlagsOK
<1>8. ASSUME NEW b \in BOOLEAN, ResumeQuery(h, b)
      PROVE  FlagsOK'
  BY <1>8 DEF ResumeQuery, ProcessPendingQuery, AnswerQuery, TriggerCheckin,
      TypeOK, FlagsOK
<1>9. CASE SnapshotCheckedIn(h)
  BY <1>9 DEF SnapshotCheckedIn, CheckedIn, TriggerCheckin, TypeOK, FlagsOK
<1>10. CASE InputRun(h)
  BY <1>10 DEF InputRun, RunMachine, TriggerCheckin, TaintAdvanceState,
      TypeOK, FlagsOK
<1>11. CASE QueryRun(h)
  BY <1>11 DEF QueryRun, RunMachine, TriggerCheckin, TypeOK, FlagsOK
<1>12. CASE InputAccepted(h)
  BY <1>12 DEF InputAccepted, CompleteInput, ServeQueryFirst, ProcessNext,
      Return, TakeUpInput, TriggerCheckin, TypeOK, FlagsOK
<1>13. CASE InputSkipped(h)
  BY <1>13 DEF InputSkipped, CompleteInput, ServeQueryFirst, ProcessNext,
      Return, TakeUpInput, TriggerCheckin, TaintAdvanceState, TypeOK,
      FlagsOK
<1>14. CASE MachineFails(h)
  BY <1>14 DEF MachineFails, CheckedIn, TaintAdvanceState,
      UnwindInspectState, TypeOK, FlagsOK
<1>15. CASE Acked(h)
  BY <1>15 DEF Acked, UnwindInspectState, TypeOK, FlagsOK
<1>16. CASE \/ EndSession(h) \/ ResumeTainting(h) \/ SnapshotTaken(h)
           \/ VouchersProved(h) \/ NoticesProved(h) \/ RolledBack(h)
           \/ InputRolledBack(h) \/ QueryRolledBack(h) \/ CallFails(h)
           \/ Stored(h) \/ ShutDown(h) \/ ErrorAcked(h)
           \/ UseAfterFree(h)
  BY <1>16 DEF EndSession, ResumeTainting, SnapshotTaken, VouchersProved,
      NoticesProved, RolledBack, InputRolledBack, QueryRolledBack,
      CallFails, Stored, ShutDown, ErrorAcked, UseAfterFree, Receive,
      Refuse, AwaitCheckin, CheckedIn, TypeOK, FlagsOK
<1> QED
  BY <1>1, <1>2, <1>3, <1>4, <1>5, <1>6, <1>7, <1>8, <1>9, <1>10, <1>11,
      <1>12, <1>13, <1>14, <1>15, <1>16 DEF Request, Step

\* Every step of a handler keeps the types of the session's fields.
LEMMA SessionKept ==
    ASSUME TypeOK, NEW h \in Handlers,
           Request(h) \/ Step(h)
    PROVE  SessionOK'
<1> USE DEF lockVars, countVars, epochVars, machineVars, localVars
<1>1. ASSUME NEW e \in EpochIndices, NEW b \in BOOLEAN, AdvanceState(h, e, b)
      PROVE  SessionOK'
  BY <1>1, ConstantsAssumption DEF AdvanceState, Refuse, CurrentInputIndex,
      TypeOK, SessionOK, EpochIndices
<1>2. ASSUME NEW b \in BOOLEAN, InspectState(h, b)
      PROVE  SessionOK'
  BY <1>2, ConstantsAssumption DEF InspectState, Refuse,
      ProcessPendingQuery, AnswerQuery, TypeOK, SessionOK, EpochIndices
<1>3. ASSUME NEW e \in EpochIndices, NEW b \in BOOLEAN,
             NEW store \in BOOLEAN, FinishEpoch(h, e, b, store)
      PROVE  SessionOK'
  BY <1>3, ConstantsAssumption DEF FinishEpoch, Refuse, FinishAndStartEpoch,
      TypeOK, SessionOK, EpochIndices
<1>4. ASSUME NEW e \in EpochIndices, DeleteEpoch(h, e)
      PROVE  SessionOK'
  BY <1>4, ConstantsAssumption DEF DeleteEpoch, Refuse, TypeOK, SessionOK,
      EpochIndices
<1>5. ASSUME NEW r \in {"GetSessionStatus", "GetEpochStatus"},
             NEW e \in EpochIndices, GetStatus(h, r, e)
      PROVE  SessionOK'
  BY <1>5, ConstantsAssumption DEF GetStatus, Refuse, TypeOK, SessionOK,
      EpochIndices
<1>6. ASSUME NEW b \in BOOLEAN, ResumeQuery(h, b)
      PROVE  SessionOK'
  BY <1>6, ConstantsAssumption DEF ResumeQuery, Resume, ProcessPendingQuery,
      AnswerQuery, TypeOK, SessionOK, EpochIndices
<1>7. CASE InputAccepted(h)
  BY <1>7, ConstantsAssumption DEF InputAccepted, CompleteInput,
      RecordInput, TypeOK, SessionOK, EpochIndices
<1>8. CASE InputSkipped(h)
  BY <1>8, ConstantsAssumption DEF InputSkipped, CompleteInput, RecordInput,
      TypeOK, SessionOK, EpochIndices
<1>9. CASE Stored(h)
  BY <1>9, ConstantsAssumption DEF Stored, FinishAndStartEpoch, TypeOK,
      SessionOK, EpochIndices
<1>10. CASE \/ EndSession(h) \/ AdvanceStateAcked(h)
           \/ ResumeProcessing(h) \/ ResumeTainting(h)
           \/ SnapshotTaken(h) \/ SnapshotCheckedIn(h) \/ InputRun(h)
           \/ QueryRun(h) \/ VouchersProved(h) \/ NoticesProved(h)
           \/ RolledBack(h) \/ InputRolledBack(h) \/ QueryRolledBack(h)
           \/ MachineFails(h) \/ CallFails(h) \/ ShutDown(h) \/ Acked(h)
           \/ ErrorAcked(h) \/ UseAfterFree(h)
  BY <1>10 DEF EndSession, AdvanceStateAcked, ResumeProcessing,
      ResumeTainting, SnapshotTaken, SnapshotCheckedIn, InputRun, QueryRun,
      VouchersProved, NoticesProved, RolledBack, InputRolledBack,
      QueryRolledBack, MachineFails, CallFails, ShutDown, Acked, ErrorAcked,
      UseAfterFree, Refuse, AwaitCheckin, CheckedIn, TypeOK, SessionOK,
      EpochIndices
<1> QED
  BY <1>1, <1>2, <1>3, <1>4, <1>5, <1>6, <1>7, <1>8, <1>9, <1>10
      DEF Request, Step

\* Every step of a handler keeps the types of the epochs' fields.
LEMMA EpochsKept ==
    ASSUME TypeOK, NEW h \in Handlers,
           Request(h) \/ Step(h)
    PROVE  EpochsOK'
<1> USE DEF lockVars, countVars, epochVars, machineVars, localVars
<1>1. ASSUME NEW e \in EpochIndices, NEW b \in BOOLEAN, AdvanceState(h, e, b)
      PROVE  EpochsOK'
  BY <1>1 DEF AdvanceState, Refuse, CurrentInputIndex, SessionOK,
      HandlersOK, TypeOK, EpochsOK
<1>2. ASSUME NEW b \in BOOLEAN, InspectState(h, b)
      PROVE  EpochsOK'
  <2>1. pending_query' \in [EpochIndices -> Handlers \cup {None, Null}]
    BY <1>2 DEF InspectState, Refuse, ProcessPendingQuery, AnswerQuery,
        TypeOK, EpochsOK, SessionOK
  <2> QED
    BY <1>2, <2>1 DEF InspectState, Refuse, TypeOK, EpochsOK
<1>3. ASSUME NEW e \in EpochIndices, NEW b \in BOOLEAN,
             NEW store \in BOOLEAN, FinishEpoch(h, e, b, store)
      PROVE  EpochsOK'
  BY <1>3, FinishTyped DEF FinishEpoch, Refuse, TypeOK, EpochsOK
<1>4. ASSUME NEW e \in EpochIndices, DeleteEpoch(h, e)
      PROVE  EpochsOK'
  <2>1. CASE Refuse(h, DeleteEpochCode(e))
    BY <2>1 DEF Refuse, TypeOK, EpochsOK
  <2>2. CASE /\ ClearEpoch(e)
             /\ epoch_state' = [epoch_state EXCEPT ![e] = "absent"]
    BY <2>2 DEF ClearEpoch, TypeOK, EpochsOK
  <2> QED
    BY <1>4, <2>1, <2>2 DEF DeleteEpoch
<1>5. CASE EndSession(h)
  BY <1>5 DEF EndSession, Refuse, SessionOK, HandlersOK, TypeOK, EpochsOK
<1>6. ASSUME NEW r \in {"GetSessionStatus", "GetEpochStatus"},
             NEW e \in EpochIndices, GetStatus(h, r, e)
      PROVE  EpochsOK'
  BY <1>6 DEF GetStatus, Refuse, SessionOK, HandlersOK, TypeOK, EpochsOK
<1>7. CASE AdvanceStateAcked(h)
  BY <1>7 DEF AdvanceStateAcked, TaintAdvanceState, SessionOK, HandlersOK,
      TypeOK, EpochsOK
<1>8. ASSUME NEW b \in BOOLEAN, ResumeQuery(h, b)
      PROVE  EpochsOK'
  BY <1>8 DEF ResumeQuery, ProcessPendingQuery, AnswerQuery, SessionOK,
      HandlersOK, TypeOK, EpochsOK
<1>9. CASE InputRun(h)
  BY <1>9 DEF InputRun, TaintAdvanceState, SessionOK, HandlersOK, TypeOK,
      EpochsOK
<1>10. CASE VouchersProved(h)
  BY <1>10 DEF VouchersProved, SessionOK, HandlersOK, TypeOK, EpochsOK
<1>11. CASE NoticesProved(h)
  BY <1>11 DEF NoticesProved, SessionOK, HandlersOK, TypeOK, EpochsOK
<1>12. CASE InputAccepted(h)
  BY <1>12 DEF InputAccepted, CompleteInput, ServeQueryFirst, SessionOK,
      HandlersOK, TypeOK, EpochsOK
<1>13. CASE InputRolledBack(h)
  BY <1>13 DEF InputRolledBack, SessionOK, HandlersOK, TypeOK, EpochsOK
<1>14. CASE InputSkipped(h)
  <2>1. pending_query' \in [EpochIndices -> Handlers \cup {None, Null}]
    BY <1>14 DEF InputSkipped, CompleteInput, ServeQueryFirst,
       TaintAdvanceState, TypeOK, EpochsOK, SessionOK, HandlersOK
  <2> QED
    BY <1>14, <2>1 DEF InputSkipped, TypeOK, EpochsOK
<1>15. CASE QueryRolledBack(h)
  BY <1>15 DEF QueryRolledBack, AnswerQuery, SessionOK, HandlersOK, TypeOK,
      EpochsOK
<1>16. CASE MachineFails(h)
  BY <1>16 DEF MachineFails, TaintAdvanceState, SessionOK, HandlersOK,
      TypeOK, EpochsOK
<1>17. CASE Stored(h)
  BY <1>17, FinishTyped DEF Stored, TypeOK, EpochsOK, HandlersOK
<1>18. CASE \/ ResumeProcessing(h) \/ ResumeTainting(h)
           \/ SnapshotTaken(h) \/ SnapshotCheckedIn(h) \/ QueryRun(h)
           \/ RolledBack(h) \/ CallFails(h) \/ ShutDown(h) \/ Acked(h)
           \/ ErrorAcked(h) \/ UseAfterFree(h)
  BY <1>18 DEF ResumeProcessing, ResumeTainting, SnapshotTaken,
      SnapshotCheckedIn, QueryRun, RolledBack, CallFails, ShutDown, Acked,
      ErrorAcked, UseAfterFree, AwaitCheckin, CheckedIn, TypeOK, EpochsOK,
      HandlersOK
<1> QED
  BY <1>1, <1>2, <1>3, <1>4, <1>5, <1>6, <1>7, <1>8, <1>9, <1>10, <1>11,
      <1>12, <1>13, <1>14, <1>15, <1>16, <1>17, <1>18 DEF Request, Step

\* Every step of a handler keeps the types of the logs.  process_pending_inputs
\* takes the front of the queue, which is an input only for a handler that is
\* inside it: hence LabelsMatch.
LEMMA LogsKept ==
    ASSUME TypeOK, LabelsMatch, NEW h \in Handlers,
           Request(h) \/ Step(h)
    PROVE  LogsOK'
<1> USE DEF lockVars, countVars, epochVars, machineVars, localVars
<1>1. ASSUME NEW e \in EpochIndices, NEW b \in BOOLEAN, AdvanceState(h, e, b)
      PROVE  LogsOK'
  <2> DEFINE i == [id |-> h, input_index |-> CurrentInputIndex(e)]
  <2>1. i \in Input
    BY DEF CurrentInputIndex, Input, TypeOK, LogsOK, SessionOK
  <2>2. /\ Append(pending_inputs[e], i) \in Seq(Input)
        /\ Append(enqueued[e], i) \in Seq(Input)
    BY <2>1, AppendProperties DEF TypeOK, LogsOK
  <2>3. CASE Refuse(h, AdvanceStateCode(e, b))
    BY <2>3 DEF Refuse, TypeOK, LogsOK
  <2>4. CASE /\ pending_inputs' =
                    [pending_inputs EXCEPT ![e] = Append(pending_inputs[e], i)]
             /\ enqueued' = [enqueued EXCEPT ![e] = Append(enqueued[e], i)]
             /\ UNCHANGED <<processed_inputs, most_recent_machine_hash,
                            committed, machineVars>>
    <3> HIDE DEF i
    <3> QED
      BY <2>2, <2>4 DEF TypeOK, LogsOK
  <2> QED
    BY <1>1, <2>3, <2>4 DEF AdvanceState
<1>2. ASSUME NEW b \in BOOLEAN, InspectState(h, b)
      PROVE  LogsOK'
  BY <1>2 DEF InspectState, Receive, Refuse, ProcessPendingQuery,
      AnswerQuery, TriggerCheckin, TypeOK, LogsOK
<1>3. ASSUME NEW e \in EpochIndices, NEW b \in BOOLEAN,
             NEW store \in BOOLEAN, FinishEpoch(h, e, b, store)
      PROVE  LogsOK'
  BY <1>3, FinishTyped DEF FinishEpoch, Refuse, TypeOK, LogsOK
<1>4. ASSUME NEW e \in EpochIndices, DeleteEpoch(h, e)
      PROVE  LogsOK'
  <2>1. CASE Refuse(h, DeleteEpochCode(e))
    BY <2>1 DEF Refuse, TypeOK, LogsOK
  <2>2. CASE /\ ClearEpoch(e)
             /\ most_recent_machine_hash' =
                    [most_recent_machine_hash EXCEPT ![e] = <<>>]
             /\ UNCHANGED <<committed, machineVars>>
    <3>1. <<>> \in Seq(Handlers)
      OBVIOUS
    <3>2. most_recent_machine_hash' \in [EpochIndices -> Seq(Handlers)]
      BY <2>2, <3>1 DEF TypeOK, LogsOK
    <3> QED
      BY <2>2, <3>2, ClearTyped DEF TypeOK, LogsOK
  <2> QED
    BY <1>4, <2>1, <2>2 DEF DeleteEpoch
<1>5. ASSUME NEW r \in {"GetSessionStatus", "GetEpochStatus"},
             NEW e \in EpochIndices, GetStatus(h, r, e)
      PROVE  LogsOK'
  BY <1>5 DEF GetStatus, Receive, Refuse, TypeOK, LogsOK
<1>6. ASSUME NEW b \in BOOLEAN, ResumeQuery(h, b)
      PROVE  LogsOK'
  BY <1>6 DEF ResumeQuery, At, Resume, ProcessPendingQuery, AnswerQuery,
      TriggerCheckin, TypeOK, LogsOK
<1>7. CASE InputRun(h)
  BY <1>7, FrontInput, AppendProperties DEF InputRun, RunMachine, At,
      Processing, Talking, TypeOK, LogsOK
<1>8. CASE QueryRun(h)
  BY <1>8, AppendProperties DEF QueryRun, RunMachine, TypeOK, LogsOK
<1>9. CASE InputAccepted(h)
  <2>1. Processing(h) /\ pc[h] # "handoff" /\ Valid(h)
    BY <1>9 DEF InputAccepted, At, LabelsMatch, Processing, Talking
  <2>2. Head(pending_inputs[ep[h]]).id \in Handlers
    BY <2>1, FrontInput
  <2>3. committed' \in Seq(Handlers)
    BY <1>9, <2>2, AppendProperties DEF InputAccepted, TypeOK, LogsOK
  <2>4. most_recent_machine_hash' \in [EpochIndices -> Seq(Handlers)]
    BY <1>9 DEF InputAccepted, TypeOK, LogsOK
  <2> QED
    BY <1>9, <2>1, <2>3, <2>4, RecordTyped
        DEF InputAccepted, CompleteInput, TypeOK, LogsOK
<1>10. CASE InputSkipped(h)
  <2>1. Processing(h) /\ pc[h] # "handoff" /\ Valid(h)
    BY <1>10 DEF InputSkipped, At, LabelsMatch, Processing, Talking
  <2> QED
    BY <1>10, <2>1, RecordTyped DEF InputSkipped, CompleteInput, TypeOK, LogsOK
<1>11. CASE MachineFails(h)
  <2>1. Append(machine, h) \in Seq(Handlers)
    BY AppendProperties DEF TypeOK, LogsOK
  <2>2. machine' = machine \/ machine' = Append(machine, h)
    BY <1>11 DEF MachineFails
  <2> QED
    BY <1>11, <2>1, <2>2 DEF MachineFails, TypeOK, LogsOK
<1>12. CASE Stored(h)
  BY <1>12, FinishTyped DEF Stored, TypeOK, LogsOK, HandlersOK
<1>13. CASE \/ EndSession(h) \/ AdvanceStateAcked(h)
           \/ ResumeProcessing(h) \/ ResumeTainting(h)
           \/ SnapshotTaken(h) \/ SnapshotCheckedIn(h)
           \/ VouchersProved(h) \/ NoticesProved(h) \/ RolledBack(h)
           \/ InputRolledBack(h) \/ QueryRolledBack(h) \/ CallFails(h)
           \/ ShutDown(h) \/ Acked(h) \/ ErrorAcked(h)
           \/ UseAfterFree(h)
  BY <1>13 DEF EndSession, AdvanceStateAcked, ResumeProcessing,
      ResumeTainting, SnapshotTaken, SnapshotCheckedIn, VouchersProved,
      NoticesProved, RolledBack, InputRolledBack, QueryRolledBack,
      CallFails, ShutDown, Acked, ErrorAcked, UseAfterFree, Refuse,
      AwaitCheckin, TypeOK, LogsOK
<1> QED
  BY <1>1, <1>2, <1>3, <1>4, <1>5, <1>6, <1>7, <1>8, <1>9, <1>10, <1>11,
      <1>12, <1>13 DEF Request, Step

\* Every step of a handler keeps the types of the handlers' states.
LEMMA HandlersKept ==
    ASSUME TypeOK, NEW h \in Handlers,
           Request(h) \/ Step(h)
    PROVE  HandlersOK'
<1> USE DEF lockVars, countVars, epochVars, machineVars, localVars
<1>1. ASSUME NEW e \in EpochIndices, NEW b \in BOOLEAN, AdvanceState(h, e, b)
      PROVE  HandlersOK'
  BY <1>1, CodesTyped DEF AdvanceState, Receive, Refuse, TypeOK, HandlersOK,
      SessionOK, Labels, Talking, Codes, RpcKinds
<1>2. ASSUME NEW b \in BOOLEAN, InspectState(h, b)
      PROVE  HandlersOK'
  BY <1>2, CodesTyped DEF InspectState, Receive, Refuse,
      ProcessPendingQuery, AnswerQuery, TriggerCheckin, TypeOK, HandlersOK,
      SessionOK, Labels, Talking, Codes, RpcKinds
<1>3. ASSUME NEW e \in EpochIndices, NEW b \in BOOLEAN,
             NEW store \in BOOLEAN, FinishEpoch(h, e, b, store)
      PROVE  HandlersOK'
  BY <1>3, CodesTyped DEF FinishEpoch, Receive, Refuse, FinishAndStartEpoch,
      TypeOK, HandlersOK, SessionOK, Labels, Talking, Codes, RpcKinds
<1>4. ASSUME NEW e \in EpochIndices, DeleteEpoch(h, e)
      PROVE  HandlersOK'
  BY <1>4, CodesTyped DEF DeleteEpoch, Receive, Refuse, TypeOK, HandlersOK,
      SessionOK, Labels, Talking, Codes, RpcKinds
<1>5. CASE EndSession(h)
  BY <1>5, CodesTyped DEF EndSession, Receive, Refuse, TypeOK, HandlersOK,
      SessionOK, Labels, Talking, Codes, RpcKinds
<1>6. ASSUME NEW r \in {"GetSessionStatus", "GetEpochStatus"},
             NEW e \in EpochIndices, GetStatus(h, r, e)
      PROVE  HandlersOK'
  BY <1>6, CodesTyped DEF GetStatus, Receive, Refuse, TypeOK, HandlersOK,
      SessionOK, Labels, Talking, Codes, RpcKinds
<1>7. ASSUME NEW b \in BOOLEAN, ResumeQuery(h, b)
      PROVE  HandlersOK'
  BY <1>7, CodesTyped DEF ResumeQuery, At, ProcessPendingQuery, AnswerQuery,
      TriggerCheckin, TypeOK, HandlersOK, SessionOK, Labels, Talking, Codes,
      RpcKinds
<1>8. CASE Stored(h)
  BY <1>8, CodesTyped DEF Stored, At, FinishAndStartEpoch, TypeOK,
      HandlersOK, SessionOK, Labels, Talking, Codes, RpcKinds
<1>9. CASE \/ AdvanceStateAcked(h) \/ ResumeProcessing(h)
           \/ ResumeTainting(h) \/ SnapshotTaken(h)
           \/ SnapshotCheckedIn(h) \/ InputRun(h) \/ QueryRun(h)
           \/ VouchersProved(h) \/ NoticesProved(h) \/ InputAccepted(h)
           \/ RolledBack(h) \/ InputRolledBack(h) \/ InputSkipped(h)
           \/ QueryRolledBack(h) \/ MachineFails(h) \/ CallFails(h)
           \/ ShutDown(h) \/ Acked(h) \/ ErrorAcked(h)
           \/ UseAfterFree(h)
  BY <1>9 DEF AdvanceStateAcked, ResumeProcessing, ResumeTainting,
      SnapshotTaken, SnapshotCheckedIn, InputRun, QueryRun, VouchersProved,
      NoticesProved, InputAccepted, RolledBack, InputRolledBack,
      InputSkipped, QueryRolledBack, MachineFails, CallFails, ShutDown,
      Acked, ErrorAcked, UseAfterFree, TaintAdvanceState, Return,
      TakeUpInput, TriggerCheckin, ProcessNext, AwaitCheckin, CompleteInput,
      ServeQueryFirst, AnswerQuery, TypeOK, HandlersOK, Labels, Talking,
      Codes
<1> QED
  BY <1>1, <1>2, <1>3, <1>4, <1>5, <1>6, <1>7, <1>8, <1>9 DEF Request, Step

\* Every step of a handler keeps the types of the handlers' variables and of
\* the completion queue.
LEMMA LocalsKept ==
    ASSUME TypeOK, SessionOK', LogsOK', NEW h \in Handlers,
           Request(h) \/ Step(h)
    PROVE  LocalsOK'
<1> USE DEF lockVars, countVars, epochVars, machineVars, localVars
<1>1. ASSUME NEW e \in EpochIndices, NEW b \in BOOLEAN, AdvanceState(h, e, b)
      PROVE  LocalsOK'
  BY <1>1, ScheduleTyped, ResumeTyped, TakeUpTyped DEF AdvanceState,
      Receive, Refuse, CurrentInputIndex, TypeOK, LocalsOK, HandlersOK,
      EpochsOK
<1>2. ASSUME NEW b \in BOOLEAN, InspectState(h, b)
      PROVE  LocalsOK'
  BY <1>2, ScheduleTyped, ResumeTyped, TakeUpTyped DEF InspectState,
      Receive, Refuse, TypeOK, LocalsOK, HandlersOK, EpochsOK
<1>3. ASSUME NEW e \in EpochIndices, NEW b \in BOOLEAN,
             NEW store \in BOOLEAN, FinishEpoch(h, e, b, store)
      PROVE  LocalsOK'
  BY <1>3, ScheduleTyped, ResumeTyped, TakeUpTyped DEF FinishEpoch, Receive,
      Refuse, FinishAndStartEpoch, ClearEpoch, TypeOK, LocalsOK, HandlersOK,
      EpochsOK
<1>4. ASSUME NEW e \in EpochIndices, DeleteEpoch(h, e)
      PROVE  LocalsOK'
  BY <1>4, ScheduleTyped, ResumeTyped, TakeUpTyped DEF DeleteEpoch, Receive,
      Refuse, ClearEpoch, TypeOK, LocalsOK, HandlersOK, EpochsOK
<1>5. ASSUME NEW r \in {"GetSessionStatus", "GetEpochStatus"},
             NEW e \in EpochIndices, GetStatus(h, r, e)
      PROVE  LocalsOK'
  BY <1>5, ScheduleTyped, ResumeTyped, TakeUpTyped DEF GetStatus, Receive,
      Refuse, TypeOK, LocalsOK, HandlersOK, EpochsOK
<1>6. CASE AdvanceStateAcked(h)
  BY <1>6, ScheduleTyped, ResumeTyped, TakeUpTyped DEF AdvanceStateAcked,
      TaintAdvanceState, TypeOK, LocalsOK, HandlersOK, EpochsOK
<1>7. CASE ResumeProcessing(h)
  BY <1>7, ScheduleTyped, ResumeTyped, TakeUpTyped DEF ResumeProcessing,
      ProcessNext, TypeOK, LocalsOK, HandlersOK, EpochsOK
<1>8. CASE ResumeTainting(h)
  BY <1>8, ScheduleTyped, ResumeTyped, TakeUpTyped DEF ResumeTainting,
      TypeOK, LocalsOK, HandlersOK, EpochsOK
<1>9. ASSUME NEW b \in BOOLEAN, ResumeQuery(h, b)
      PROVE  LocalsOK'
  BY <1>9, ScheduleTyped, ResumeTyped, TakeUpTyped DEF ResumeQuery, Resume,
      TypeOK, LocalsOK, HandlersOK, EpochsOK
<1>10. CASE InputRun(h)
  BY <1>10, ScheduleTyped, ResumeTyped, TakeUpTyped DEF InputRun,
      TaintAdvanceState, TypeOK, LocalsOK, HandlersOK, EpochsOK
<1>11. CASE InputAccepted(h)
  BY <1>11, ScheduleTyped, ResumeTyped, TakeUpTyped DEF InputAccepted,
      CompleteInput, ServeQueryFirst, ProcessNext, TypeOK, LocalsOK,
      HandlersOK, EpochsOK
<1>12. CASE InputSkipped(h)
  BY <1>12, ScheduleTyped, ResumeTyped, TakeUpTyped DEF InputSkipped,
      CompleteInput, ServeQueryFirst, ProcessNext, TaintAdvanceState,
      TypeOK, LocalsOK, HandlersOK, EpochsOK
<1>13. CASE MachineFails(h)
  BY <1>13, ScheduleTyped, ResumeTyped, TakeUpTyped DEF MachineFails,
      TaintAdvanceState, UnwindInspectState, TypeOK, LocalsOK, HandlersOK,
      EpochsOK
<1>14. CASE Acked(h)
  BY <1>14, ScheduleTyped, ResumeTyped, TakeUpTyped DEF Acked,
      UnwindInspectState, TypeOK, LocalsOK, HandlersOK, EpochsOK
<1>15. CASE \/ EndSession(h) \/ SnapshotTaken(h) \/ SnapshotCheckedIn(h)
           \/ QueryRun(h) \/ VouchersProved(h) \/ NoticesProved(h)
           \/ RolledBack(h) \/ InputRolledBack(h) \/ QueryRolledBack(h)
           \/ CallFails(h) \/ Stored(h) \/ ShutDown(h) \/ ErrorAcked(h)
           \/ UseAfterFree(h)
  BY <1>15 DEF EndSession, SnapshotTaken, SnapshotCheckedIn, QueryRun,
      VouchersProved, NoticesProved, RolledBack, InputRolledBack,
      QueryRolledBack, CallFails, Stored, ShutDown, ErrorAcked,
      UseAfterFree, Refuse, AwaitCheckin, TypeOK, LocalsOK
<1> QED
  BY <1>1, <1>2, <1>3, <1>4, <1>5, <1>6, <1>7, <1>8, <1>9, <1>10, <1>11,
      <1>12, <1>13, <1>14, <1>15 DEF Request, Step

\* Every step of a handler keeps it at the labels of its RPC.
LEMMA LabelsKept ==
    ASSUME TypeOK, LabelsMatch, NEW h \in Handlers,
           Request(h) \/ Step(h)
    PROVE  LabelsMatch'
<1> USE DEF lockVars, countVars, epochVars, machineVars, localVars
<1>1. ASSUME NEW e \in EpochIndices, NEW b \in BOOLEAN, AdvanceState(h, e, b)
      PROVE  LabelsMatch'
  BY <1>1 DEF AdvanceState, Receive, Refuse, TypeOK, HandlersOK,
      LabelsMatch, Talking
<1>2. ASSUME NEW b \in BOOLEAN, InspectState(h, b)
      PROVE  LabelsMatch'
  BY <1>2 DEF InspectState, Receive, Refuse, ProcessPendingQuery,
      AnswerQuery, TriggerCheckin, TypeOK, HandlersOK, LabelsMatch, Talking
<1>3. ASSUME NEW e \in EpochIndices, NEW b \in BOOLEAN,
             NEW store \in BOOLEAN, FinishEpoch(h, e, b, store)
      PROVE  LabelsMatch'
  BY <1>3 DEF FinishEpoch, Receive, Refuse, FinishAndStartEpoch, TypeOK,
      HandlersOK, LabelsMatch, Talking
<1>4. ASSUME NEW e \in EpochIndices, DeleteEpoch(h, e)
      PROVE  LabelsMatch'
  BY <1>4 DEF DeleteEpoch, Receive, Refuse, TypeOK, HandlersOK, LabelsMatch,
      Talking
<1>5. CASE EndSession(h)
  BY <1>5 DEF EndSession, Receive, Refuse, TypeOK, HandlersOK, LabelsMatch,
      Talking
<1>6. ASSUME NEW r \in {"GetSessionStatus", "GetEpochStatus"},
             NEW e \in EpochIndices, GetStatus(h, r, e)
      PROVE  LabelsMatch'
  BY <1>6 DEF GetStatus, Receive, Refuse, TypeOK, HandlersOK, LabelsMatch,
      Talking
<1>7. CASE AdvanceStateAcked(h)
  BY <1>7 DEF AdvanceStateAcked, At, TaintAdvanceState, Return, TakeUpInput,
      TriggerCheckin, TypeOK, HandlersOK, LabelsMatch, Talking
<1>8. CASE ResumeProcessing(h)
  BY <1>8 DEF ResumeProcessing, At, ProcessNext, Return, TakeUpInput,
      TriggerCheckin, TypeOK, HandlersOK, LabelsMatch, Talking
<1>9. ASSUME NEW b \in BOOLEAN, ResumeQuery(h, b)
      PROVE  LabelsMatch'
  BY <1>9 DEF ResumeQuery, At, ProcessPendingQuery, AnswerQuery,
      TriggerCheckin, TypeOK, HandlersOK, LabelsMatch, Talking
<1>10. CASE InputAccepted(h)
  BY <1>10 DEF InputAccepted, At, CompleteInput, ServeQueryFirst,
      ProcessNext, Return, TakeUpInput, TriggerCheckin, TypeOK, HandlersOK,
      LabelsMatch, Talking
<1>11. CASE InputSkipped(h)
  BY <1>11 DEF InputSkipped, At, CompleteInput, ServeQueryFirst,
      ProcessNext, Return, TakeUpInput, TriggerCheckin, TaintAdvanceState,
      TypeOK, HandlersOK, LabelsMatch, Talking
<1>12. CASE MachineFails(h)
  BY <1>12 DEF MachineFails, At, CheckedIn, TaintAdvanceState,
      UnwindInspectState, TypeOK, HandlersOK, LabelsMatch, Talking
<1>13. CASE \/ ResumeTainting(h) \/ SnapshotTaken(h)
           \/ SnapshotCheckedIn(h) \/ InputRun(h) \/ QueryRun(h)
           \/ VouchersProved(h) \/ NoticesProved(h) \/ RolledBack(h)
           \/ InputRolledBack(h) \/ QueryRolledBack(h) \/ CallFails(h)
           \/ Stored(h) \/ ShutDown(h) \/ Acked(h) \/ ErrorAcked(h)
           \/ UseAfterFree(h)
  BY <1>13 DEF ResumeTainting, SnapshotTaken, SnapshotCheckedIn, InputRun,
      QueryRun, VouchersProved, NoticesProved, RolledBack, InputRolledBack,
      QueryRolledBack, CallFails, Stored, ShutDown, Acked, ErrorAcked,
      UseAfterFree, At, AwaitCheckin, CheckedIn, TriggerCheckin, RunMachine,
      TaintAdvanceState, AnswerQuery, FinishAndStartEpoch, TypeOK,
      HandlersOK, LabelsMatch, Talking
<1> QED
  BY <1>1, <1>2, <1>3, <1>4, <1>5, <1>6, <1>7, <1>8, <1>9, <1>10, <1>11,
      <1>12, <1>13 DEF Request, Step

\* Every step of a handler keeps the types and the labels.
LEMMA StepTyped ==
    ASSUME TypeOK, LabelsMatch, NEW h \in Handlers, Request(h) \/ Step(h)
    PROVE  TypeOK' /\ LabelsMatch'
<1>1. FlagsOK' /\ SessionOK' /\ EpochsOK'
  BY FlagsKept, SessionKept, EpochsKept
<1>2. LogsOK'
  BY LogsKept
<1>3. HandlersOK' /\ LocalsOK'
  BY <1>1, <1>2, HandlersKept, LocalsKept
<1>4. LabelsMatch'
  BY LabelsKept
<1> QED
  BY <1>1, <1>2, <1>3, <1>4 DEF TypeOK

\* A stray tag in the completion queue ends the process and changes nothing
\* else.
LEMMA StrayOnlyCrashes ==
    ASSUME NEW c \in Handlers \cup {Null}, ResumeStray(c)
    PROVE  /\ crashed' = TRUE
           /\ UNCHANGED <<exists, session_lock, processing_lock, tainted>>
           /\ UNCHANGED <<countVars, sessions_waiting_checkin, epochVars>>
           /\ UNCHANGED <<pending_query, pc, rpc, ep, localVars, reply>>
           /\ UNCHANGED <<scheduled, machineVars>>
  BY DEF ResumeStray, lockVars

\* Such a step keeps the types and the labels.
LEMMA StrayTyped ==
    ASSUME TypeOK, LabelsMatch, NEW c \in Handlers \cup {Null}, ResumeStray(c)
    PROVE  TypeOK' /\ LabelsMatch'
<1> USE StrayOnlyCrashes DEF countVars, epochVars, localVars, machineVars
<1>1. FlagsOK'
  BY DEF TypeOK, FlagsOK
<1>2. SessionOK' /\ EpochsOK' /\ LogsOK' /\ HandlersOK' /\ LocalsOK'
  BY DEF TypeOK, SessionOK, EpochsOK, LogsOK, HandlersOK, LocalsOK
<1>3. LabelsMatch'
  BY DEF LabelsMatch
<1> QED
  BY <1>1, <1>2, <1>3 DEF TypeOK

\* No step at all keeps the types and the labels.
LEMMA StutterTyped ==
    ASSUME TypeOK, LabelsMatch, UNCHANGED vars
    PROVE  TypeOK' /\ LabelsMatch'
<1> USE DEF vars, lockVars, countVars, epochVars, localVars, machineVars
<1>1. FlagsOK' /\ SessionOK' /\ EpochsOK' /\ LogsOK' /\ HandlersOK' /\ LocalsOK'
  BY DEF TypeOK, FlagsOK, SessionOK, EpochsOK, LogsOK, HandlersOK, LocalsOK
<1>2. LabelsMatch'
  BY DEF LabelsMatch
<1> QED
  BY <1>1, <1>2 DEF TypeOK

\* Whatever clients send and the machine server does, the variables keep their
\* types, no tag is taken from the completion queue that is not there, and each
\* handler stays at the yields of its own RPC.
THEOREM TypeCorrect == Spec => [](TypeOK /\ LabelsMatch)
<1>1. Init => TypeOK /\ LabelsMatch
  <2> SUFFICES ASSUME Init PROVE TypeOK /\ LabelsMatch
    OBVIOUS
  <2>1. TypeOK
    BY InitTyped
  <2>2. LabelsMatch
    BY DEF Init, LabelsMatch, Talking
  <2> QED
    BY <2>1, <2>2
<1>2. TypeOK /\ LabelsMatch /\ [Next]_vars => TypeOK' /\ LabelsMatch'
  BY StepTyped, StrayTyped, StutterTyped DEF Next
<1> QED
  BY <1>1, <1>2, PTL DEF Spec

-----------------------------------------------------------------------------
(* One handler at a time inside process_pending_inputs *)

\* What a step of h does to processing_lock: h enters process_pending_inputs and
\* sets it, h leaves and clears it, or neither.
ProcessingStep(h) ==
    /\ \A g \in Handlers \ {h} : Processing(g)' <=> Processing(g)
    /\ \/ /\ Processing(h)' <=> Processing(h)
          /\ processing_lock' <=> processing_lock
       \/ /\ ~Processing(h) /\ Processing(h)'
          /\ ~processing_lock /\ processing_lock'
       \/ Processing(h) /\ ~Processing(h)' /\ ~processing_lock'

\* Every step of a handler sets, clears or keeps processing_lock as it enters,
\* leaves or stays where it is.
LEMMA ProcessingSteps ==
    ASSUME TypeOK, LabelsMatch, NEW h \in Handlers,
           Request(h) \/ Step(h)
    PROVE  ProcessingStep(h)
<1> USE DEF lockVars, countVars, epochVars, machineVars, localVars
<1>1. ASSUME NEW e \in EpochIndices, NEW b \in BOOLEAN, AdvanceState(h, e, b)
      PROVE  ProcessingStep(h)
  BY <1>1 DEF AdvanceState, Receive, Refuse, ProcessingStep, Processing,
      TypeOK, FlagsOK, HandlersOK, LabelsMatch, Talking
<1>2. ASSUME NEW b \in BOOLEAN, InspectState(h, b)
      PROVE  ProcessingStep(h)
  BY <1>2 DEF InspectState, Receive, Refuse, ProcessPendingQuery,
      AnswerQuery, TriggerCheckin, ProcessingStep, Processing, TypeOK,
      FlagsOK, HandlersOK, LabelsMatch, Talking
<1>3. ASSUME NEW e \in EpochIndices, NEW b \in BOOLEAN,
             NEW store \in BOOLEAN, FinishEpoch(h, e, b, store)
      PROVE  ProcessingStep(h)
  BY <1>3 DEF FinishEpoch, Receive, Refuse, FinishAndStartEpoch,
      ProcessingStep, Processing, TypeOK, FlagsOK, HandlersOK, LabelsMatch,
      Talking
<1>4. ASSUME NEW e \in EpochIndices, DeleteEpoch(h, e)
      PROVE  ProcessingStep(h)
  BY <1>4 DEF DeleteEpoch, Receive, Refuse, ProcessingStep, Processing,
      TypeOK, FlagsOK, HandlersOK, LabelsMatch, Talking
<1>5. CASE EndSession(h)
  BY <1>5 DEF EndSession, Receive, Refuse, ProcessingStep, Processing,
      TypeOK, FlagsOK, HandlersOK, LabelsMatch, Talking
<1>6. ASSUME NEW r \in {"GetSessionStatus", "GetEpochStatus"},
             NEW e \in EpochIndices, GetStatus(h, r, e)
      PROVE  ProcessingStep(h)
  BY <1>6 DEF GetStatus, Receive, Refuse, ProcessingStep, Processing,
      TypeOK, FlagsOK, HandlersOK, LabelsMatch, Talking
<1>7. CASE AdvanceStateAcked(h)
  BY <1>7 DEF AdvanceStateAcked, At, TaintAdvanceState, Return, TakeUpInput,
      TriggerCheckin, ProcessingStep, Processing, TypeOK, FlagsOK,
      HandlersOK, LabelsMatch, Talking
<1>8. CASE ResumeProcessing(h)
  BY <1>8 DEF ResumeProcessing, At, ProcessNext, Return, TakeUpInput,
      TriggerCheckin, ProcessingStep, Processing, TypeOK, FlagsOK,
      HandlersOK, LabelsMatch, Talking
<1>9. CASE ResumeTainting(h)
  BY <1>9 DEF ResumeTainting, ProcessingStep, Processing, TypeOK, FlagsOK,
      HandlersOK, LabelsMatch, Talking
<1>10. ASSUME NEW b \in BOOLEAN, ResumeQuery(h, b)
      PROVE  ProcessingStep(h)
  BY <1>10 DEF ResumeQuery, At, ProcessPendingQuery, AnswerQuery,
      TriggerCheckin, ProcessingStep, Processing, TypeOK, FlagsOK,
      HandlersOK, LabelsMatch, Talking
<1>11. CASE SnapshotTaken(h)
  BY <1>11 DEF SnapshotTaken, At, AwaitCheckin, ProcessingStep, Processing,
      TypeOK, FlagsOK, HandlersOK, LabelsMatch, Talking
<1>12. CASE SnapshotCheckedIn(h)
  BY <1>12 DEF SnapshotCheckedIn, At, CheckedIn, TriggerCheckin,
      ProcessingStep, Processing, TypeOK, FlagsOK, HandlersOK, LabelsMatch,
      Talking
<1>13. CASE InputRun(h)
  BY <1>13 DEF InputRun, RunMachine, At, TriggerCheckin, TaintAdvanceState,
      ProcessingStep, Processing, TypeOK, FlagsOK, HandlersOK, LabelsMatch,
      Talking
<1>14. CASE QueryRun(h)
  BY <1>14 DEF QueryRun, RunMachine, At, TriggerCheckin, ProcessingStep,
      Processing, TypeOK, FlagsOK, HandlersOK, LabelsMatch, Talking
<1>15. CASE VouchersProved(h)
  BY <1>15 DEF VouchersProved, At, ProcessingStep, Processing, TypeOK,
      FlagsOK, HandlersOK, LabelsMatch, Talking
<1>16. CASE NoticesProved(h)
  BY <1>16 DEF NoticesProved, At, ProcessingStep, Processing, TypeOK,
      FlagsOK, HandlersOK, LabelsMatch, Talking
<1>17. CASE InputAccepted(h)
  BY <1>17 DEF InputAccepted, At, CompleteInput, ServeQueryFirst,
      ProcessNext, Return, TakeUpInput, TriggerCheckin, ProcessingStep,
      Processing, TypeOK, FlagsOK, HandlersOK, LabelsMatch, Talking
<1>18. CASE RolledBack(h)
  BY <1>18 DEF RolledBack, At, AwaitCheckin, ProcessingStep, Processing,
      TypeOK, FlagsOK, HandlersOK, LabelsMatch, Talking
<1>19. CASE InputRolledBack(h)
  BY <1>19 DEF InputRolledBack, CheckedIn, At, ProcessingStep, Processing,
      TypeOK, FlagsOK, HandlersOK, LabelsMatch, Talking
<1>20. CASE InputSkipped(h)
  BY <1>20 DEF InputSkipped, At, CompleteInput, ServeQueryFirst,
      ProcessNext, Return, TakeUpInput, TriggerCheckin, TaintAdvanceState,
      ProcessingStep, Processing, TypeOK, FlagsOK, HandlersOK, LabelsMatch,
      Talking
<1>21. CASE QueryRolledBack(h)
  BY <1>21 DEF QueryRolledBack, CheckedIn, At, AnswerQuery, ProcessingStep,
      Processing, TypeOK, FlagsOK, HandlersOK, LabelsMatch, Talking
<1>22. CASE MachineFails(h)
  BY <1>22 DEF MachineFails, At, CheckedIn, TaintAdvanceState,
      UnwindInspectState, ProcessingStep, Processing, TypeOK, FlagsOK,
      HandlersOK, LabelsMatch, Talking
<1>23. CASE CallFails(h)
  BY <1>23 DEF CallFails, ProcessingStep, Processing, TypeOK, FlagsOK,
      HandlersOK, LabelsMatch, Talking
<1>24. CASE Stored(h)
  BY <1>24 DEF Stored, At, FinishAndStartEpoch, ProcessingStep, Processing,
      TypeOK, FlagsOK, HandlersOK, LabelsMatch, Talking
<1>25. CASE Acked(h)
  BY <1>25 DEF Acked, UnwindInspectState, ProcessingStep, Processing,
      TypeOK, FlagsOK, HandlersOK, LabelsMatch, Talking
<1>26. CASE UseAfterFree(h)
  BY <1>26 DEF UseAfterFree, ProcessingStep, Processing, TypeOK, FlagsOK,
      HandlersOK, LabelsMatch, Talking
<1>27. CASE \/ ShutDown(h) \/ ErrorAcked(h)
  BY <1>27 DEF ShutDown, ErrorAcked, ProcessingStep, Processing, TypeOK,
      FlagsOK, HandlersOK, LabelsMatch, Talking
<1> QED
  BY <1>1, <1>2, <1>3, <1>4, <1>5, <1>6, <1>7, <1>8, <1>9, <1>10, <1>11,
      <1>12, <1>13, <1>14, <1>15, <1>16, <1>17, <1>18, <1>19, <1>20, <1>21,
      <1>22, <1>23, <1>24, <1>25, <1>26, <1>27 DEF Request, Step

\* Hence every step of a handler keeps ProcessingExclusive.
LEMMA ExclusionKept ==
    ASSUME TypeOK, LabelsMatch, ProcessingExclusive, NEW h \in Handlers,
           Request(h) \/ Step(h)
    PROVE  ProcessingExclusive'
<1>1. ProcessingStep(h)
  BY ProcessingSteps
<1> QED
  BY <1>1 DEF ProcessingStep, ProcessingExclusive

-----------------------------------------------------------------------------
(* The active epoch *)

\* Every step of a handler keeps the active epoch there and active.
LEMMA ActiveKept ==
    ASSUME TypeOK, ActiveEpochIsActive, NEW h \in Handlers,
           Request(h) \/ Step(h)
    PROVE  ActiveEpochIsActive'
<1> USE DEF lockVars, countVars, epochVars, machineVars, localVars
<1>1. ASSUME NEW e \in EpochIndices, NEW b \in BOOLEAN, AdvanceState(h, e, b)
      PROVE  ActiveEpochIsActive'
  BY <1>1, ConstantsAssumption DEF AdvanceState, Refuse,
      ActiveEpochIsActive, TypeOK, EpochsOK, SessionOK, EpochIndices
<1>2. ASSUME NEW b \in BOOLEAN, InspectState(h, b)
      PROVE  ActiveEpochIsActive'
  BY <1>2, ConstantsAssumption DEF InspectState, Refuse,
      ActiveEpochIsActive, TypeOK, EpochsOK, SessionOK, EpochIndices
<1>3. ASSUME NEW e \in EpochIndices, NEW b \in BOOLEAN,
             NEW store \in BOOLEAN, FinishEpoch(h, e, b, store)
      PROVE  ActiveEpochIsActive'
  BY <1>3, ConstantsAssumption DEF FinishEpoch, Refuse, FinishAndStartEpoch,
      ActiveEpochIsActive, TypeOK, EpochsOK, SessionOK, EpochIndices
<1>4. ASSUME NEW e \in EpochIndices, DeleteEpoch(h, e)
      PROVE  ActiveEpochIsActive'
  BY <1>4, ConstantsAssumption DEF DeleteEpoch, Refuse, DeleteEpochCode,
      ActiveEpochIsActive, TypeOK, EpochsOK, SessionOK, EpochIndices
<1>5. ASSUME NEW r \in {"GetSessionStatus", "GetEpochStatus"},
             NEW e \in EpochIndices, GetStatus(h, r, e)
      PROVE  ActiveEpochIsActive'
  BY <1>5, ConstantsAssumption DEF GetStatus, Refuse, ActiveEpochIsActive,
      TypeOK, EpochsOK, SessionOK, EpochIndices
<1>6. ASSUME NEW b \in BOOLEAN, ResumeQuery(h, b)
      PROVE  ActiveEpochIsActive'
  BY <1>6, ConstantsAssumption DEF ResumeQuery, ActiveEpochIsActive, TypeOK,
      EpochsOK, SessionOK, EpochIndices
<1>7. CASE Stored(h)
  BY <1>7, ConstantsAssumption DEF Stored, FinishAndStartEpoch, HandlersOK,
      ActiveEpochIsActive, TypeOK, EpochsOK, SessionOK, EpochIndices
<1>8. CASE \/ EndSession(h) \/ AdvanceStateAcked(h)
           \/ ResumeProcessing(h) \/ ResumeTainting(h)
           \/ SnapshotTaken(h) \/ SnapshotCheckedIn(h) \/ InputRun(h)
           \/ QueryRun(h) \/ VouchersProved(h) \/ NoticesProved(h)
           \/ InputAccepted(h) \/ RolledBack(h) \/ InputRolledBack(h)
           \/ InputSkipped(h) \/ QueryRolledBack(h) \/ MachineFails(h)
           \/ CallFails(h) \/ ShutDown(h) \/ Acked(h) \/ ErrorAcked(h)
           \/ UseAfterFree(h)
  BY <1>8 DEF EndSession, AdvanceStateAcked, ResumeProcessing,
      ResumeTainting, SnapshotTaken, SnapshotCheckedIn, InputRun, QueryRun,
      VouchersProved, NoticesProved, InputAccepted, RolledBack,
      InputRolledBack, InputSkipped, QueryRolledBack, MachineFails,
      CallFails, ShutDown, Acked, ErrorAcked, UseAfterFree, Refuse,
      AwaitCheckin, ActiveEpochIsActive
<1> QED
  BY <1>1, <1>2, <1>3, <1>4, <1>5, <1>6, <1>7, <1>8 DEF Request, Step

-----------------------------------------------------------------------------
(* The log of an epoch: its results, then its queue *)

\* The inputs of a sequence of results are a sequence of inputs, as long.
LEMMA InputsTyped ==
    ASSUME NEW r \in Seq(ProcessedInput)
    PROVE  /\ InputsOf(r) \in Seq(Input) /\ Len(InputsOf(r)) = Len(r)
           /\ \A i \in 1..Len(r) : InputsOf(r)[i] = r[i].input
<1>1. \A i \in 1..Len(r) : r[i].input \in Input
  <2> TAKE i \in 1..Len(r)
  <2>1. r[i] \in ProcessedInput
    BY ElementOfSeq
  <2> QED
    BY <2>1 DEF ProcessedInput
<1> QED
  BY <1>1 DEF InputsOf

\* Moving the front of the queue to the end of the results does not change the
\* log.
LEMMA MoveFront ==
    ASSUME NEW r \in Seq(ProcessedInput), NEW p \in ProcessedInput,
           NEW q \in Seq(Input), q # <<>>, p.input = Head(q)
    PROVE  InputsOf(Append(r, p)) \o Tail(q) = InputsOf(r) \o q
<1>1. Append(r, p) \in Seq(ProcessedInput) /\ Len(Append(r, p)) = Len(r) + 1
  BY AppendProperties
<1> DEFINE s == InputsOf(Append(r, p))
<1>2. s \in Seq(Input) /\ Len(s) = Len(r) + 1
  BY <1>1, InputsTyped
<1>3. \A i \in 1..Len(r) + 1 :
            s[i] = IF i <= Len(r) THEN r[i].input ELSE Head(q)
  <2> TAKE i \in 1..Len(r) + 1
  <2>1. s[i] = Append(r, p)[i].input
    BY <1>1, InputsTyped
  <2>2. Append(r, p)[i] = IF i <= Len(r) THEN r[i] ELSE p
    BY AppendProperties, LenProperties
  <2> QED
    BY <2>1, <2>2
<1>4. /\ InputsOf(r) \in Seq(Input) /\ Len(InputsOf(r)) = Len(r)
      /\ \A i \in 1..Len(r) : InputsOf(r)[i] = r[i].input
  BY InputsTyped
<1>5. /\ Tail(q) \in Seq(Input)
      /\ Len(Tail(q)) = Len(q) - 1 /\ Len(q) \in Nat \ {0}
      /\ \A i \in 1..Len(q)-1 : Tail(q)[i] = q[i+1]
      /\ Head(q) = q[1]
  BY HeadTailProperties, EmptySeq, LenProperties
<1> HIDE DEF s
<1>6. s \o Tail(q) \in Seq(Input) /\ Len(s \o Tail(q)) = Len(r) + Len(q)
  <2>1. s \o Tail(q) \in Seq(Input) /\ Len(s \o Tail(q)) = Len(s) + Len(Tail(q))
    BY <1>2, <1>5, ConcatProperties
  <2> QED
    BY <1>2, <1>5, <2>1, LenProperties
<1>7. InputsOf(r) \o q \in Seq(Input) /\ Len(InputsOf(r) \o q) = Len(r) + Len(q)
  <2>1. /\ InputsOf(r) \o q \in Seq(Input)
        /\ Len(InputsOf(r) \o q) = Len(InputsOf(r)) + Len(q)
    BY <1>4, ConcatProperties
  <2> QED
    BY <1>4, <2>1
<1>8. ASSUME NEW i \in 1..Len(r) + Len(q)
      PROVE  (s \o Tail(q))[i] = (InputsOf(r) \o q)[i]
  <2>1. /\ Len(r) \in Nat /\ Len(q) \in Nat /\ i \in Nat /\ 1 <= i
        /\ i <= Len(r) + Len(q)
    BY <1>5, LenProperties
  <2>2. i \in 1..Len(s) + Len(Tail(q)) /\ i \in 1..Len(InputsOf(r)) + Len(q)
    BY <1>2, <1>4, <1>5, <2>1
  <2>3. (s \o Tail(q))[i] = IF i <= Len(s) THEN s[i]
                                          ELSE Tail(q)[i - Len(s)]
    BY <1>2, <1>5, <2>2, ConcatProperties
  <2>4. (InputsOf(r) \o q)[i] = IF i <= Len(InputsOf(r)) THEN InputsOf(r)[i]
                                             ELSE q[i - Len(InputsOf(r))]
    BY <1>4, <2>2, ConcatProperties
  <2>5. CASE i <= Len(r)
    BY <1>2, <1>3, <1>4, <2>1, <2>3, <2>4, <2>5
  <2>6. CASE i = Len(r) + 1
    <3>1. q[i - Len(r)] = Head(q)
      BY <1>5, <2>1, <2>6
    <3> QED
      BY <1>2, <1>3, <1>4, <2>1, <2>3, <2>4, <2>6, <3>1
  <2>7. CASE i > Len(r) + 1
    <3> DEFINE j == i - (Len(r) + 1)
    <3>1. j \in 1..Len(q) - 1 /\ j + 1 = i - Len(r)
      BY <1>5, <2>1, <2>7
    <3>2. Tail(q)[j] = q[j + 1]
      BY <1>5, <3>1
    <3> QED
      BY <1>2, <1>4, <2>1, <2>3, <2>4, <2>7, <3>1, <3>2
  <2>8. i <= Len(r) \/ i = Len(r) + 1 \/ i > Len(r) + 1
    BY <2>1
  <2> QED
    BY <2>5, <2>6, <2>7, <2>8
<1> QED
  BY <1>6, <1>7, <1>8, SeqEqual DEF s

\* Enqueuing an input adds it at the end of the log.
LEMMA AddBack ==
    ASSUME NEW r \in Seq(ProcessedInput), NEW q \in Seq(Input), NEW i \in Input
    PROVE  InputsOf(r) \o Append(q, i) = Append(InputsOf(r) \o q, i)
  BY InputsTyped, AppendIsConcat, ConcatAssociative, ConcatProperties

\* An epoch with no results and no queue has an empty log.
LEMMA EmptyLog == InputsOf(<<>>) \o <<>> = <<>>
  BY DEF InputsOf

\* Recording a result keeps the log.
LEMMA RecordKeepsLog ==
    ASSUME TypeOK, InputLog, NEW h \in Handlers, Processing(h),
           pc[h] # "handoff", Valid(h), NEW s \in {"accepted", "skipped"},
           RecordInput(h, s), UNCHANGED enqueued
    PROVE  InputLog'
<1> DEFINE e == ep[h]
           p == [input |-> Head(pending_inputs[e]),
                 input_index |-> input_index[h],
                 epoch_input_index |-> epoch_input_index[h], status |-> s]
<1>1. e \in EpochIndices
  BY DEF TypeOK, HandlersOK
<1>2. p \in ProcessedInput /\ p.input = Head(pending_inputs[e])
  BY FrontInput DEF ProcessedInput, TypeOK, LocalsOK
<1>3. /\ processed_inputs' = [processed_inputs EXCEPT
                                    ![e] = Append(processed_inputs[e], p)]
      /\ pending_inputs' = [pending_inputs EXCEPT ![e] = Tail(pending_inputs[e])]
  BY DEF RecordInput
<1> HIDE DEF p
<1>4. InputsOf(processed_inputs'[e]) \o pending_inputs'[e]
        = InputsOf(processed_inputs[e]) \o pending_inputs[e]
  BY <1>1, <1>2, <1>3, FrontInput, MoveFront DEF TypeOK, LogsOK
<1> SUFFICES ASSUME NEW f \in EpochIndices
             PROVE  enqueued'[f] =
                        InputsOf(processed_inputs'[f]) \o pending_inputs'[f]
  BY DEF InputLog, InputsOf
<1>5. CASE f = e
  BY <1>4, <1>5 DEF InputLog
<1>6. CASE f # e
  BY <1>1, <1>3, <1>6 DEF InputLog, TypeOK, LogsOK
<1> QED
  BY <1>5, <1>6

\* A new or an erased epoch has an empty log, and the others keep theirs.
LEMMA ClearKeepsLog ==
    ASSUME TypeOK, InputLog, NEW e \in EpochIndices, ClearEpoch(e)
    PROVE  InputLog'
<1> SUFFICES ASSUME NEW f \in EpochIndices
             PROVE  enqueued'[f] =
                        InputsOf(processed_inputs'[f]) \o pending_inputs'[f]
  BY DEF InputLog, InputsOf
<1>1. CASE f = e
  BY <1>1, EmptyLog DEF ClearEpoch, TypeOK, LogsOK
<1>2. CASE f # e
  BY <1>2 DEF ClearEpoch, InputLog, TypeOK, LogsOK
<1> QED
  BY <1>1, <1>2

\* A step that touches neither the queues nor the results keeps the log.
LEMMA StaysLog ==
    ASSUME InputLog, UNCHANGED <<enqueued, pending_inputs, processed_inputs>>
    PROVE  InputLog'
  BY DEF InputLog, InputsOf

\* finish_epoch and start_new_epoch keep the logs of the other epochs.
LEMMA FinishKeepsLog ==
    ASSUME TypeOK, InputLog, NEW h \in Handlers, NEW e \in EpochIndices,
           FinishAndStartEpoch(h, e)
    PROVE  InputLog'
<1> DEFINE next == (active_epoch_index + 1) % (MaxEpochIndex + 1)
<1>1. next \in EpochIndices
  BY ConstantsAssumption DEF TypeOK, SessionOK, EpochIndices
<1>2. ClearEpoch(next)
  BY DEF FinishAndStartEpoch
<1> HIDE DEF next
<1> QED
  BY <1>1, <1>2, ClearKeepsLog

\* Every step of a handler keeps InputLog.
LEMMA LogKept ==
    ASSUME TypeOK, LabelsMatch, InputLog, NEW h \in Handlers,
           Request(h) \/ Step(h)
    PROVE  InputLog'
<1> USE DEF lockVars, countVars, epochVars, machineVars, localVars
<1>1. ASSUME NEW e \in EpochIndices, NEW b \in BOOLEAN, AdvanceState(h, e, b)
      PROVE  InputLog'
  <2> DEFINE i == [id |-> h, input_index |-> CurrentInputIndex(e)]
  <2>1. i \in Input
    BY DEF CurrentInputIndex, Input, TypeOK, LogsOK, SessionOK
  <2>2. CASE Refuse(h, AdvanceStateCode(e, b))
    BY <2>2, StaysLog DEF Refuse
  <2>3. CASE /\ pending_inputs' =
                    [pending_inputs EXCEPT ![e] = Append(pending_inputs[e], i)]
             /\ enqueued' = [enqueued EXCEPT ![e] = Append(enqueued[e], i)]
             /\ UNCHANGED processed_inputs
    <3> HIDE DEF i
    <3>1. InputsOf(processed_inputs[e]) \o Append(pending_inputs[e], i)
            = Append(enqueued[e], i)
      <4>1. /\ processed_inputs[e] \in Seq(ProcessedInput)
            /\ pending_inputs[e] \in Seq(Input)
        BY DEF TypeOK, LogsOK
      <4>2. enqueued[e] = InputsOf(processed_inputs[e]) \o pending_inputs[e]
        BY DEF InputLog
      <4> QED
        BY <2>1, <4>1, <4>2, AddBack
    <3> SUFFICES ASSUME NEW f \in EpochIndices
                 PROVE  enqueued'[f] =
                            InputsOf(processed_inputs'[f]) \o pending_inputs'[f]
      BY DEF InputLog, InputsOf
    <3>2. CASE f = e
      BY <2>3, <3>1, <3>2 DEF TypeOK, LogsOK
    <3>3. CASE f # e
      BY <2>3, <3>3 DEF InputLog, TypeOK, LogsOK
    <3> QED
      BY <3>2, <3>3
  <2> QED
    BY <1>1, <2>2, <2>3 DEF AdvanceState
<1>2. ASSUME NEW b \in BOOLEAN, InspectState(h, b)
      PROVE  InputLog'
  BY <1>2, StaysLog DEF InspectState, Refuse
<1>3. ASSUME NEW e \in EpochIndices, NEW b \in BOOLEAN,
             NEW store \in BOOLEAN, FinishEpoch(h, e, b, store)
      PROVE  InputLog'
  BY <1>3, FinishKeepsLog, StaysLog DEF FinishEpoch, Refuse
<1>4. ASSUME NEW e \in EpochIndices, DeleteEpoch(h, e)
      PROVE  InputLog'
  BY <1>4, ClearKeepsLog, StaysLog DEF DeleteEpoch, Refuse
<1>5. ASSUME NEW r \in {"GetSessionStatus", "GetEpochStatus"},
             NEW e \in EpochIndices, GetStatus(h, r, e)
      PROVE  InputLog'
  BY <1>5, StaysLog DEF GetStatus, Refuse
<1>6. ASSUME NEW b \in BOOLEAN, ResumeQuery(h, b)
      PROVE  InputLog'
  BY <1>6, StaysLog DEF ResumeQuery
<1>7. CASE InputAccepted(h)
  <2>1. Processing(h) /\ pc[h] # "handoff" /\ Valid(h)
    BY <1>7 DEF InputAccepted, At, LabelsMatch, Processing, Talking
  <2> QED
    BY <1>7, <2>1, RecordKeepsLog DEF InputAccepted, CompleteInput
<1>8. CASE InputSkipped(h)
  <2>1. Processing(h) /\ pc[h] # "handoff" /\ Valid(h)
    BY <1>8 DEF InputSkipped, At, LabelsMatch, Processing, Talking
  <2> QED
    BY <1>8, <2>1, RecordKeepsLog, StaysLog DEF InputSkipped, CompleteInput
<1>9. CASE Stored(h)
  BY <1>9, FinishKeepsLog DEF Stored, TypeOK, HandlersOK
<1>10. CASE \/ EndSession(h) \/ AdvanceStateAcked(h)
           \/ ResumeProcessing(h) \/ ResumeTainting(h)
           \/ SnapshotTaken(h) \/ SnapshotCheckedIn(h) \/ InputRun(h)
           \/ QueryRun(h) \/ VouchersProved(h) \/ NoticesProved(h)
           \/ RolledBack(h) \/ InputRolledBack(h) \/ QueryRolledBack(h)
           \/ MachineFails(h) \/ CallFails(h) \/ ShutDown(h) \/ Acked(h)
           \/ ErrorAcked(h) \/ UseAfterFree(h)
  BY <1>10, StaysLog DEF EndSession, AdvanceStateAcked, ResumeProcessing,
      ResumeTainting, SnapshotTaken, SnapshotCheckedIn, InputRun, QueryRun,
      VouchersProved, NoticesProved, RolledBack, InputRolledBack,
      QueryRolledBack, MachineFails, CallFails, ShutDown, Acked, ErrorAcked,
      UseAfterFree, Refuse, AwaitCheckin
<1> QED
  BY <1>1, <1>2, <1>3, <1>4, <1>5, <1>6, <1>7, <1>8, <1>9, <1>10
      DEF Request, Step

-----------------------------------------------------------------------------
(* The indices of the results *)

\* The index a handler read when it took up its input is still the number of
\* inputs processed.
IndexCaptured ==
    \A h \in Handlers : Processing(h) /\ pc[h] # "handoff"
                            => input_index[h] = processed_input_count

\* Every step of a handler keeps IndexCaptured: only a handler inside
\* process_pending_inputs changes processed_input_count, and it is alone there.
LEMMA CaptureKept ==
    ASSUME TypeOK, LabelsMatch, ProcessingExclusive,
           IndexCaptured, NEW h \in Handlers,
           Request(h) \/ Step(h)
    PROVE  IndexCaptured'
<1> USE DEF lockVars, countVars, epochVars, machineVars, localVars
<1>1. ASSUME NEW e \in EpochIndices, NEW b \in BOOLEAN, AdvanceState(h, e, b)
      PROVE  IndexCaptured'
  BY <1>1 DEF AdvanceState, Receive, Refuse, IndexCaptured, Processing,
      TypeOK, HandlersOK, LocalsOK, LabelsMatch, Talking
<1>2. ASSUME NEW b \in BOOLEAN, InspectState(h, b)
      PROVE  IndexCaptured'
  BY <1>2 DEF InspectState, Receive, Refuse, ProcessPendingQuery,
      AnswerQuery, TriggerCheckin, IndexCaptured, Processing, TypeOK,
      HandlersOK, LocalsOK, LabelsMatch, Talking
<1>3. ASSUME NEW e \in EpochIndices, NEW b \in BOOLEAN,
             NEW store \in BOOLEAN, FinishEpoch(h, e, b, store)
      PROVE  IndexCaptured'
  BY <1>3 DEF FinishEpoch, Receive, Refuse, FinishAndStartEpoch,
      IndexCaptured, Processing, TypeOK, HandlersOK, LocalsOK, LabelsMatch,
      Talking
<1>4. ASSUME NEW e \in EpochIndices, DeleteEpoch(h, e)
      PROVE  IndexCaptured'
  BY <1>4 DEF DeleteEpoch, Receive, Refuse, IndexCaptured, Processing,
      TypeOK, HandlersOK, LocalsOK, LabelsMatch, Talking
<1>5. CASE EndSession(h)
  BY <1>5 DEF EndSession, Receive, Refuse, IndexCaptured, Processing,
      TypeOK, HandlersOK, LocalsOK, LabelsMatch, Talking
<1>6. ASSUME NEW r \in {"GetSessionStatus", "GetEpochStatus"},
             NEW e \in EpochIndices, GetStatus(h, r, e)
      PROVE  IndexCaptured'
  BY <1>6 DEF GetStatus, Receive, Refuse, IndexCaptured, Processing, TypeOK,
      HandlersOK, LocalsOK, LabelsMatch, Talking
<1>7. CASE AdvanceStateAcked(h)
  BY <1>7 DEF AdvanceStateAcked, At, TaintAdvanceState, Return, TakeUpInput,
      TriggerCheckin, IndexCaptured, Processing, TypeOK, HandlersOK,
      LocalsOK, LabelsMatch, Talking
<1>8. CASE ResumeProcessing(h)
  BY <1>8 DEF ResumeProcessing, At, ProcessNext, Return, TakeUpInput,
      TriggerCheckin, IndexCaptured, Processing, TypeOK, HandlersOK,
      LocalsOK, LabelsMatch, Talking
<1>9. CASE ResumeTainting(h)
  BY <1>9 DEF ResumeTainting, IndexCaptured, Processing, TypeOK, HandlersOK,
      LocalsOK, LabelsMatch, Talking
<1>10. ASSUME NEW b \in BOOLEAN, ResumeQuery(h, b)
      PROVE  IndexCaptured'
  BY <1>10 DEF ResumeQuery, At, ProcessPendingQuery, AnswerQuery,
      TriggerCheckin, IndexCaptured, Processing, TypeOK, HandlersOK,
      LocalsOK, LabelsMatch, Talking
<1>11. CASE SnapshotTaken(h)
  BY <1>11 DEF SnapshotTaken, At, AwaitCheckin, IndexCaptured, Processing,
      TypeOK, HandlersOK, LocalsOK, LabelsMatch, Talking
<1>12. CASE SnapshotCheckedIn(h)
  BY <1>12 DEF SnapshotCheckedIn, At, CheckedIn, TriggerCheckin,
      IndexCaptured, Processing, TypeOK, HandlersOK, LocalsOK, LabelsMatch,
      Talking
<1>13. CASE InputRun(h)
  BY <1>13 DEF InputRun, RunMachine, At, TriggerCheckin, TaintAdvanceState,
      IndexCaptured, Processing, TypeOK, HandlersOK, LocalsOK, LabelsMatch,
      Talking
<1>14. CASE QueryRun(h)
  BY <1>14 DEF QueryRun, RunMachine, At, TriggerCheckin, IndexCaptured,
      Processing, TypeOK, HandlersOK, LocalsOK, LabelsMatch, Talking
<1>15. CASE VouchersProved(h)
  BY <1>15 DEF VouchersProved, At, IndexCaptured, Processing, TypeOK,
      HandlersOK, LocalsOK, LabelsMatch, Talking
<1>16. CASE NoticesProved(h)
  BY <1>16 DEF NoticesProved, At, IndexCaptured, Processing, TypeOK,
      HandlersOK, LocalsOK, LabelsMatch, Talking
<1>17. CASE InputAccepted(h)
  <2>1. Processing(h)
    BY <1>17 DEF InputAccepted, At, LabelsMatch, Processing, Talking
  <2>2. \A g \in Handlers \ {h} : ~Processing(g) /\ ~Processing(g)'
    BY <1>17, <2>1, ProcessingSteps DEF ProcessingExclusive, ProcessingStep
  <2>3. \/ pc'[h] \in {"handoff", "done"}
        \/ input_index'[h] = processed_input_count'
    BY <1>17 DEF InputAccepted, CompleteInput, ServeQueryFirst, ProcessNext,
        Return, TakeUpInput, TypeOK, HandlersOK, LocalsOK
  <2> QED
    BY <2>2, <2>3 DEF IndexCaptured, Processing, Talking
<1>18. CASE RolledBack(h)
  BY <1>18 DEF RolledBack, At, AwaitCheckin, IndexCaptured, Processing,
      TypeOK, HandlersOK, LocalsOK, LabelsMatch, Talking
<1>19. CASE InputRolledBack(h)
  BY <1>19 DEF InputRolledBack, CheckedIn, At, IndexCaptured, Processing,
      TypeOK, HandlersOK, LocalsOK, LabelsMatch, Talking
<1>20. CASE InputSkipped(h)
  <2>1. Processing(h)
    BY <1>20 DEF InputSkipped, At, LabelsMatch, Processing, Talking
  <2>2. \A g \in Handlers \ {h} : ~Processing(g) /\ ~Processing(g)'
    BY <1>20, <2>1, ProcessingSteps DEF ProcessingExclusive, ProcessingStep
  <2>3. \/ pc'[h] \in {"handoff", "done", "tainting"}
        \/ input_index'[h] = processed_input_count'
    BY <1>20 DEF InputSkipped, CompleteInput, ServeQueryFirst, ProcessNext,
        Return, TakeUpInput, TaintAdvanceState, TypeOK, HandlersOK, LocalsOK
  <2> QED
    BY <2>2, <2>3 DEF IndexCaptured, Processing, Talking
<1>21. CASE QueryRolledBack(h)
  BY <1>21 DEF QueryRolledBack, CheckedIn, At, AnswerQuery, IndexCaptured,
      Processing, TypeOK, HandlersOK, LocalsOK, LabelsMatch, Talking
<1>22. CASE MachineFails(h)
  BY <1>22 DEF MachineFails, At, CheckedIn, TaintAdvanceState,
      UnwindInspectState, IndexCaptured, Processing, TypeOK, HandlersOK,
      LocalsOK, LabelsMatch, Talking
<1>23. CASE CallFails(h)
  BY <1>23 DEF CallFails, IndexCaptured, Processing, TypeOK, HandlersOK,
      LocalsOK, LabelsMatch, Talking
<1>24. CASE Stored(h)
  BY <1>24 DEF Stored, At, FinishAndStartEpoch, IndexCaptured, Processing,
      TypeOK, HandlersOK, LocalsOK, LabelsMatch, Talking
<1>25. CASE Acked(h)
  BY <1>25 DEF Acked, UnwindInspectState, IndexCaptured, Processing, TypeOK,
      HandlersOK, LocalsOK, LabelsMatch, Talking
<1>26. CASE UseAfterFree(h)
  BY <1>26 DEF UseAfterFree, IndexCaptured, Processing, TypeOK, HandlersOK,
      LocalsOK, LabelsMatch, Talking
<1>27. CASE \/ ShutDown(h) \/ ErrorAcked(h)
  BY <1>27 DEF ShutDown, ErrorAcked, IndexCaptured, Processing, TypeOK,
      HandlersOK, LocalsOK, LabelsMatch, Talking
<1> QED
  BY <1>1, <1>2, <1>3, <1>4, <1>5, <1>6, <1>7, <1>8, <1>9, <1>10, <1>11,
      <1>12, <1>13, <1>14, <1>15, <1>16, <1>17, <1>18, <1>19, <1>20, <1>21,
      <1>22, <1>23, <1>24, <1>25, <1>26, <1>27 DEF Request, Step

\* The index recorded is processed_input_count, larger than any recorded before.
LEMMA RecordKeepsUnique ==
    ASSUME TypeOK, IndexCaptured, IndicesUnique, NEW h \in Handlers,
           Processing(h), pc[h] # "handoff", Valid(h),
           NEW s \in {"accepted", "skipped"}, RecordInput(h, s)
    PROVE  IndicesUnique'
<1> DEFINE e == ep[h]
           n == Len(processed_inputs[e])
           p == [input |-> Head(pending_inputs[e]),
                 input_index |-> input_index[h],
                 epoch_input_index |-> epoch_input_index[h], status |-> s]
<1>1. e \in EpochIndices
  BY DEF TypeOK, HandlersOK
<1>2. p \in ProcessedInput /\ p.input_index = processed_input_count
  BY FrontInput DEF ProcessedInput, TypeOK, LocalsOK, IndexCaptured
<1>3. /\ processed_inputs' = [processed_inputs EXCEPT
                                    ![e] = Append(processed_inputs[e], p)]
      /\ processed_input_count' = processed_input_count + 1
  BY DEF RecordInput
<1> HIDE DEF p
<1>4. /\ n \in Nat /\ Len(Append(processed_inputs[e], p)) = n + 1
      /\ \A i \in 1..n : Append(processed_inputs[e], p)[i] = processed_inputs[e][i]
      /\ Append(processed_inputs[e], p)[n + 1] = p
  BY <1>1, <1>2, AppendProperties, LenProperties DEF TypeOK, LogsOK
<1>5. /\ Len(processed_inputs'[e]) = n + 1
      /\ \A i \in 1..n : processed_inputs'[e][i] = processed_inputs[e][i]
      /\ processed_inputs'[e][n + 1] = p
      /\ \A f \in EpochIndices \ {e} : processed_inputs'[f] = processed_inputs[f]
  BY <1>1, <1>3, <1>4 DEF TypeOK, LogsOK
<1>6. /\ processed_input_count \in Nat
      /\ \A f \in EpochIndices, i \in Nat :
            i \in 1..Len(processed_inputs[f]) =>
                processed_inputs[f][i].input_index \in Nat
  <2>1. ASSUME NEW f \in EpochIndices, NEW i \in 1..Len(processed_inputs[f])
        PROVE  processed_inputs[f][i].input_index \in Nat
    <3>1. processed_inputs[f][i] \in ProcessedInput
      BY ElementOfSeq DEF TypeOK, LogsOK
    <3> QED
      BY <3>1 DEF ProcessedInput
  <2> QED
    BY <2>1 DEF TypeOK, SessionOK
<1> SUFFICES ASSUME NEW f \in EpochIndices, NEW g \in EpochIndices,
                    NEW i \in 1..Len(processed_inputs'[f]),
                    NEW j \in 1..Len(processed_inputs'[g])
             PROVE  /\ processed_inputs'[f][i].input_index
                            < processed_input_count + 1
                    /\ processed_inputs'[f][i].input_index
                            = processed_inputs'[g][j].input_index
                            => f = g /\ i = j
  BY <1>3 DEF IndicesUnique
<1>7. CASE f = e /\ i = n + 1 /\ g = e /\ j = n + 1
  BY <1>2, <1>5, <1>6, <1>7
<1>8. CASE f = e /\ i = n + 1 /\ ~(g = e /\ j = n + 1)
  <2>1. /\ j \in 1..Len(processed_inputs[g])
        /\ processed_inputs'[g][j] = processed_inputs[g][j]
    BY <1>4, <1>5, <1>8
  <2>2. processed_inputs[g][j].input_index < processed_input_count
    BY <2>1 DEF IndicesUnique
  <2> QED
    BY <1>2, <1>5, <1>6, <1>8, <2>1, <2>2
<1>9. CASE ~(f = e /\ i = n + 1) /\ g = e /\ j = n + 1
  <2>1. /\ i \in 1..Len(processed_inputs[f])
        /\ processed_inputs'[f][i] = processed_inputs[f][i]
    BY <1>4, <1>5, <1>9
  <2>2. processed_inputs[f][i].input_index < processed_input_count
    BY <2>1 DEF IndicesUnique
  <2> QED
    BY <1>2, <1>5, <1>6, <1>9, <2>1, <2>2
<1>10. CASE ~(f = e /\ i = n + 1) /\ ~(g = e /\ j = n + 1)
  <2>1. /\ i \in 1..Len(processed_inputs[f])
        /\ processed_inputs'[f][i] = processed_inputs[f][i]
    BY <1>4, <1>5, <1>10
  <2>2. /\ j \in 1..Len(processed_inputs[g])
        /\ processed_inputs'[g][j] = processed_inputs[g][j]
    BY <1>4, <1>5, <1>10
  <2>3. /\ processed_inputs[f][i].input_index < processed_input_count
        /\ processed_inputs[f][i].input_index
                = processed_inputs[g][j].input_index => f = g /\ i = j
    BY <2>1, <2>2 DEF IndicesUnique
  <2>4. processed_inputs[f][i].input_index \in Nat
    BY <1>6, <2>1
  <2> QED
    BY <1>6, <2>1, <2>2, <2>3, <2>4
<1> QED
  BY <1>7, <1>8, <1>9, <1>10

\* Erasing results leaves the indices of the others unique.
LEMMA ClearKeepsUnique ==
    ASSUME TypeOK, IndicesUnique, NEW e \in EpochIndices, ClearEpoch(e),
           UNCHANGED processed_input_count
    PROVE  IndicesUnique'
<1>1. \A f \in EpochIndices : \/ processed_inputs'[f] = processed_inputs[f]
                              \/ 1..Len(processed_inputs'[f]) = {}
  BY DEF ClearEpoch, TypeOK, LogsOK
<1> QED
  BY <1>1 DEF IndicesUnique

\* A step that touches neither the results nor their count keeps the indices.
LEMMA StaysUnique ==
    ASSUME IndicesUnique, UNCHANGED <<processed_inputs, processed_input_count>>
    PROVE  IndicesUnique'
  BY DEF IndicesUnique

\* finish_epoch and start_new_epoch keep the indices unique.
LEMMA FinishKeepsUnique ==
    ASSUME TypeOK, IndicesUnique, NEW h \in Handlers, NEW e \in EpochIndices,
           FinishAndStartEpoch(h, e), UNCHANGED processed_input_count
    PROVE  IndicesUnique'
<1> DEFINE next == (active_epoch_index + 1) % (MaxEpochIndex + 1)
<1>1. next \in EpochIndices
  BY ConstantsAssumption DEF TypeOK, SessionOK, EpochIndices
<1>2. ClearEpoch(next)
  BY DEF FinishAndStartEpoch
<1> HIDE DEF next
<1> QED
  BY <1>1, <1>2, ClearKeepsUnique

\* Every step of a handler keeps IndicesUnique.
LEMMA UniqueKept ==
    ASSUME TypeOK, LabelsMatch, IndexCaptured, IndicesUnique,
           NEW h \in Handlers,
           Request(h) \/ Step(h)
    PROVE  IndicesUnique'
<1> USE DEF lockVars, countVars, epochVars, machineVars, localVars
<1>1. ASSUME NEW e \in EpochIndices, NEW b \in BOOLEAN, AdvanceState(h, e, b)
      PROVE  IndicesUnique'
  BY <1>1, StaysUnique DEF AdvanceState, Refuse
<1>2. ASSUME NEW b \in BOOLEAN, InspectState(h, b)
      PROVE  IndicesUnique'
  BY <1>2, StaysUnique DEF InspectState, Refuse
<1>3. ASSUME NEW e \in EpochIndices, NEW b \in BOOLEAN,
             NEW store \in BOOLEAN, FinishEpoch(h, e, b, store)
      PROVE  IndicesUnique'
  BY <1>3, FinishKeepsUnique, StaysUnique DEF FinishEpoch, Refuse
<1>4. ASSUME NEW e \in EpochIndices, DeleteEpoch(h, e)
      PROVE  IndicesUnique'
  BY <1>4, ClearKeepsUnique, StaysUnique DEF DeleteEpoch, Refuse
<1>5. ASSUME NEW r \in {"GetSessionStatus", "GetEpochStatus"},
             NEW e \in EpochIndices, GetStatus(h, r, e)
      PROVE  IndicesUnique'
  BY <1>5, StaysUnique DEF GetStatus, Refuse
<1>6. ASSUME NEW b \in BOOLEAN, ResumeQuery(h, b)
      PROVE  IndicesUnique'
  BY <1>6, StaysUnique DEF ResumeQuery
<1>7. CASE InputAccepted(h)
  <2>1. Processing(h) /\ pc[h] # "handoff" /\ Valid(h)
    BY <1>7 DEF InputAccepted, At, LabelsMatch, Processing, Talking
  <2> QED
    BY <1>7, <2>1, RecordKeepsUnique DEF InputAccepted, CompleteInput
<1>8. CASE InputSkipped(h)
  <2>1. Processing(h) /\ pc[h] # "handoff" /\ Valid(h)
    BY <1>8 DEF InputSkipped, At, LabelsMatch, Processing, Talking
  <2> QED
    BY <1>8, <2>1, RecordKeepsUnique, StaysUnique
        DEF InputSkipped, CompleteInput
<1>9. CASE Stored(h)
  BY <1>9, FinishKeepsUnique DEF Stored, TypeOK, HandlersOK
<1>10. CASE \/ EndSession(h) \/ AdvanceStateAcked(h)
           \/ ResumeProcessing(h) \/ ResumeTainting(h)
           \/ SnapshotTaken(h) \/ SnapshotCheckedIn(h) \/ InputRun(h)
           \/ QueryRun(h) \/ VouchersProved(h) \/ NoticesProved(h)
           \/ RolledBack(h) \/ InputRolledBack(h) \/ QueryRolledBack(h)
           \/ MachineFails(h) \/ CallFails(h) \/ ShutDown(h) \/ Acked(h)
           \/ ErrorAcked(h) \/ UseAfterFree(h)
  BY <1>10, StaysUnique DEF EndSession, AdvanceStateAcked, ResumeProcessing,
      ResumeTainting, SnapshotTaken, SnapshotCheckedIn, InputRun, QueryRun,
      VouchersProved, NoticesProved, RolledBack, InputRolledBack,
      QueryRolledBack, MachineFails, CallFails, ShutDown, Acked, ErrorAcked,
      UseAfterFree, Refuse, AwaitCheckin
<1> QED
  BY <1>1, <1>2, <1>3, <1>4, <1>5, <1>6, <1>7, <1>8, <1>9, <1>10
      DEF Request, Step

-----------------------------------------------------------------------------
(* The theorems *)

\* The inductive invariant.  IndicesUnique needs IndexCaptured, that needs
\* ProcessingExclusive, and all need the types and the labels.
Inv ==
    /\ TypeOK /\ LabelsMatch
    /\ ProcessingExclusive
    /\ ActiveEpochIsActive
    /\ InputLog
    /\ IndexCaptured /\ IndicesUnique

\* It holds after StartSession.
LEMMA InitInv == Init => Inv
<1> SUFFICES ASSUME Init PROVE Inv
  OBVIOUS
<1>1. TypeOK
  BY InitTyped
<1>2. \A h \in Handlers : pc[h] = "idle"
  BY DEF Init
<1>3. LabelsMatch /\ ProcessingExclusive /\ IndexCaptured
  BY <1>2 DEF Init, LabelsMatch, ProcessingExclusive, IndexCaptured,
      Processing, Talking
<1>4. ActiveEpochIsActive
  BY <1>1 DEF Init, ActiveEpochIsActive, TypeOK, SessionOK
<1>5. InputLog
  BY EmptyLog DEF Init, InputLog
<1>6. IndicesUnique
  BY DEF Init, IndicesUnique
<1> QED
  BY <1>1, <1>3, <1>4, <1>5, <1>6 DEF Inv

\* A step that leaves the session, its epochs and the handlers alone keeps it,
\* once the types are known.
LEMMA QuietInv ==
    ASSUME Inv, TypeOK', LabelsMatch',
           UNCHANGED <<processing_lock, active_epoch_index,
                       processed_input_count, epoch_state, pending_inputs,
                       processed_inputs, enqueued, pc, rpc, input_index>>
    PROVE  Inv'
<1>1. ProcessingExclusive'
  BY DEF Inv, ProcessingExclusive, Processing
<1>2. ActiveEpochIsActive'
  BY DEF Inv, ActiveEpochIsActive
<1>3. InputLog' /\ IndicesUnique'
  BY StaysLog, StaysUnique DEF Inv
<1>4. IndexCaptured'
  BY DEF Inv, IndexCaptured, Processing
<1> QED
  BY <1>1, <1>2, <1>3, <1>4 DEF Inv

\* Every step keeps it.
LEMMA NextInv == Inv /\ [Next]_vars => Inv'
<1> SUFFICES ASSUME Inv, [Next]_vars PROVE Inv'
  OBVIOUS
<1>1. ASSUME NEW h \in Handlers, Request(h) \/ Step(h)
      PROVE  Inv'
  <2>1. TypeOK' /\ LabelsMatch'
    BY <1>1, StepTyped DEF Inv
  <2>2. ProcessingExclusive' /\ ActiveEpochIsActive'
    BY <1>1, ExclusionKept, ActiveKept DEF Inv
  <2>3. InputLog'
    BY <1>1, LogKept DEF Inv
  <2>4. IndexCaptured' /\ IndicesUnique'
    BY <1>1, CaptureKept, UniqueKept DEF Inv
  <2> QED
    BY <2>1, <2>2, <2>3, <2>4 DEF Inv
<1>2. ASSUME NEW c \in Handlers \cup {Null}, ResumeStray(c)
      PROVE  Inv'
  BY <1>2, StrayTyped, StrayOnlyCrashes, QuietInv
      DEF Inv, countVars, epochVars, localVars
<1>3. CASE UNCHANGED vars
  BY <1>3, StutterTyped, QuietInv
      DEF Inv, vars, lockVars, countVars, epochVars, localVars
<1> QED
  BY <1>1, <1>2, <1>3 DEF Next

\* The invariant holds in every state of every behaviour.
THEOREM Invariance == Spec => []Inv
  BY InitInv, NextInv, PTL DEF Spec

\* processing_lock is set exactly while a handler is inside
\* process_pending_inputs, and no two are.
THEOREM MutualExclusion == Spec => []ProcessingExclusive
<1>1. Inv => ProcessingExclusive
  BY DEF Inv
<1> QED
  BY <1>1, Invariance, PTL

\* session.epochs.at(active_epoch_index) is always there and active, whatever
\* FinishEpoch and DeleteEpoch requests arrive and whenever.
THEOREM ActiveEpochStays == Spec => []ActiveEpochIsActive
<1>1. Inv => ActiveEpochIsActive
  BY DEF Inv
<1> QED
  BY <1>1, Invariance, PTL

\* No input an epoch accepted is lost, duplicated or overtaken.
THEOREM NoInputLost == Spec => []InputLog
<1>1. Inv => InputLog
  BY DEF Inv
<1> QED
  BY <1>1, Invariance, PTL

\* No two results share a global input index, although the index is read many
\* yields before it is recorded.
THEOREM IndicesStayUnique == Spec => []IndicesUnique
<1>1. Inv => IndicesUnique
  BY DEF Inv
<1> QED
  BY <1>1, Invariance, PTL
=============================================================================
