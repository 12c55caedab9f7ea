---------------------------- MODULE LedgerProofs ----------------------------
(***************************************************************************)
(* Session implements InputLedger, for any number of handlers and epochs,  *)
(* whatever clients send and whatever fails.  Every step of Session is     *)
(* mapped to the step of the ledger it stands for: AdvanceState accepts,   *)
(* InputAccepted and InputSkipped process, FinishEpoch goes to the next    *)
(* epoch, DeleteEpoch deletes, and all others stutter or taint.            *)
(***************************************************************************)
EXTENDS SessionProofs, SessionLedger

-----------------------------------------------------------------------------
(* The mapping and the sequences it goes through *)

\* The inputs of a log are a sequence, and appending commutes with the mapping.
LEMMA LogOfAppend ==
    ASSUME NEW s \in Seq(Input), NEW i \in Input
    PROVE  LogOf(Append(s, i)) = Append(LogOf(s), i.id)
<1>1. \A t \in Seq(Input) :
        /\ LogOf(t) \in Seq(Handlers) /\ Len(LogOf(t)) = Len(t)
        /\ \A k \in 1..Len(t) : LogOf(t)[k] = t[k].id
  <2> TAKE t \in Seq(Input)
  <2>1. \A k \in 1..Len(t) : t[k].id \in Handlers
    <3> TAKE k \in 1..Len(t)
    <3>1. t[k] \in Input
      BY ElementOfSeq
    <3> QED
      BY <3>1 DEF Input
  <2> QED
    BY <2>1 DEF LogOf
<1>2. /\ Append(s, i) \in Seq(Input) /\ Len(Append(s, i)) = Len(s) + 1
      /\ Append(LogOf(s), i.id) \in Seq(Handlers)
      /\ Len(Append(LogOf(s), i.id)) = Len(s) + 1
  <2>1. i.id \in Handlers
    BY DEF Input
  <2>2. LogOf(s) \in Seq(Handlers) /\ Len(LogOf(s)) = Len(s)
    BY <1>1
  <2>3. Append(s, i) \in Seq(Input) /\ Len(Append(s, i)) = Len(s) + 1
    BY AppendProperties
  <2> QED
    BY <2>1, <2>2, <2>3, AppendProperties
<1>3. ASSUME NEW k \in 1..Len(s) + 1
      PROVE  LogOf(Append(s, i))[k] = Append(LogOf(s), i.id)[k]
  <2>1. LogOf(Append(s, i))[k] = Append(s, i)[k].id
    BY <1>1, <1>2
  <2>2. Append(s, i)[k] = IF k <= Len(s) THEN s[k] ELSE i
    BY AppendProperties, LenProperties
  <2>3. Append(LogOf(s), i.id)[k] = IF k <= Len(s) THEN LogOf(s)[k] ELSE i.id
    BY <1>1, AppendProperties, LenProperties
  <2>4. k <= Len(s) => LogOf(s)[k] = s[k].id
    BY <1>1, LenProperties
  <2> QED
    BY <2>1, <2>2, <2>3, <2>4
<1>4. LogOf(Append(s, i)) \in Seq(Handlers) /\ Len(LogOf(Append(s, i))) = Len(s) + 1
  BY <1>1, <1>2
<1> QED
  BY <1>2, <1>3, <1>4, SeqEqual

\* What the ledger keeps of a result.
Result == [input : Handlers, input_index : Nat]

\* The results of an epoch are a sequence, as long as processed_inputs.
LEMMA ResultsTyped ==
    ASSUME NEW s \in Seq(ProcessedInput)
    PROVE  /\ ResultsOf(s) \in Seq(Result) /\ Len(ResultsOf(s)) = Len(s)
           /\ \A k \in 1..Len(s) :
                ResultsOf(s)[k] =
                    [input |-> s[k].input.id, input_index |-> s[k].input_index]
<1>1. \A k \in 1..Len(s) :
        [input |-> s[k].input.id, input_index |-> s[k].input_index] \in Result
  <2> TAKE k \in 1..Len(s)
  <2>1. s[k] \in ProcessedInput
    BY ElementOfSeq
  <2> QED
    BY <2>1 DEF ProcessedInput, Input, Result
<1> QED
  BY <1>1 DEF ResultsOf

\* Recording a result appends it to the mapped results.
LEMMA ResultsOfAppend ==
    ASSUME NEW s \in Seq(ProcessedInput), NEW p \in ProcessedInput
    PROVE  ResultsOf(Append(s, p)) =
            Append(ResultsOf(s), [input |-> p.input.id, input_index |-> p.input_index])
<1> DEFINE r == [input |-> p.input.id, input_index |-> p.input_index]
<1>1. r \in Result
  BY DEF ProcessedInput, Input, Result
<1>2. r = [input |-> p.input.id, input_index |-> p.input_index]
  OBVIOUS
<1> HIDE DEF r
<1>3. Append(s, p) \in Seq(ProcessedInput) /\ Len(Append(s, p)) = Len(s) + 1
  BY AppendProperties
<1>4. /\ Append(ResultsOf(s), r) \in Seq(Result)
      /\ Len(Append(ResultsOf(s), r)) = Len(s) + 1
  BY <1>1, ResultsTyped, AppendProperties
<1>5. /\ ResultsOf(Append(s, p)) \in Seq(Result)
      /\ Len(ResultsOf(Append(s, p))) = Len(s) + 1
  BY <1>3, ResultsTyped
<1>6. ASSUME NEW k \in 1..Len(s) + 1
      PROVE  ResultsOf(Append(s, p))[k] = Append(ResultsOf(s), r)[k]
  <2>1. ResultsOf(Append(s, p))[k] =
            [input |-> Append(s, p)[k].input.id,
             input_index |-> Append(s, p)[k].input_index]
    BY <1>3, ResultsTyped
  <2>2. Append(s, p)[k] = IF k <= Len(s) THEN s[k] ELSE p
    BY AppendProperties, LenProperties
  <2>3. Append(ResultsOf(s), r)[k] = IF k <= Len(s) THEN ResultsOf(s)[k] ELSE r
    BY <1>1, ResultsTyped, AppendProperties, LenProperties
  <2>4. k <= Len(s) =>
            ResultsOf(s)[k] =
                [input |-> s[k].input.id, input_index |-> s[k].input_index]
    BY ResultsTyped, LenProperties
  <2> QED
    BY <1>2, <2>1, <2>2, <2>3, <2>4
<1> QED
  BY <1>2, <1>4, <1>5, <1>6, SeqEqual

\* The front of the queue is the oldest input of the log without a result.
LEMMA FrontIsNext ==
    ASSUME NEW r \in Seq(ProcessedInput), NEW q \in Seq(Input), q # <<>>
    PROVE  LET l == InputsOf(r) \o q
           IN  /\ Len(r) < Len(LogOf(l))
               /\ LogOf(l)[Len(r) + 1] = Head(q).id
<1> DEFINE l == InputsOf(r) \o q
<1>1. /\ InputsOf(r) \in Seq(Input) /\ Len(InputsOf(r)) = Len(r) /\ Len(r) \in Nat
  BY InputsTyped, LenProperties
<1>2. Len(q) \in Nat \ {0} /\ Head(q) = q[1]
  BY HeadTailProperties, EmptySeq, LenProperties
<1>3. Len(l) = Len(r) + Len(q)
  <2>1. Len(l) = Len(InputsOf(r)) + Len(q)
    BY <1>1, ConcatProperties
  <2> QED
    BY <1>1, <2>1
<1>4. Len(r) + 1 \in 1..Len(InputsOf(r)) + Len(q)
  BY <1>1, <1>2
<1>5. l[Len(r) + 1] = q[1]
  <2>1. l[Len(r) + 1] = IF Len(r) + 1 <= Len(InputsOf(r)) THEN InputsOf(r)[Len(r) + 1]
                        ELSE q[Len(r) + 1 - Len(InputsOf(r))]
    BY <1>1, <1>4, ConcatProperties
  <2> QED
    BY <1>1, <2>1
<1> HIDE DEF l
<1>6. Len(LogOf(l)) = Len(l) /\ LogOf(l)[Len(r) + 1] = l[Len(r) + 1].id
  BY <1>1, <1>2, <1>3 DEF LogOf
<1> QED
  BY <1>1, <1>2, <1>3, <1>5, <1>6 DEF l

-----------------------------------------------------------------------------
(* The steps *)

\* A step that leaves logs, results, count and epochs alone stutters or taints.
LEMMA QuietStep ==
    ASSUME UNCHANGED <<enqueued, processed_inputs, processed_input_count,
                       epoch_state, active_epoch_index>>,
           tainted' = tainted \/ tainted' = TRUE
    PROVE  [Ledger!Next]_(Ledger!vars)
<1>1. Log' = Log /\ Results' = Results
  BY DEF Log, Results, LogOf, ResultsOf
<1> QED
  BY <1>1 DEF Ledger!Next, Ledger!Taint, Ledger!vars

\* An AdvanceState that is accepted.
LEMMA AcceptStep ==
    ASSUME TypeOK, NEW h \in Handlers, NEW e \in EpochIndices,
           NEW i \in Input, i.id = h,
           ~tainted, e = active_epoch_index, epoch_state[e] = "active",
           enqueued' = [enqueued EXCEPT ![e] = Append(enqueued[e], i)],
           UNCHANGED <<processed_inputs, processed_input_count, epoch_state,
                       active_epoch_index, tainted>>
    PROVE  [Ledger!Next]_(Ledger!vars)
<1>1. Results' = Results
  BY DEF Results, ResultsOf
<1>2. enqueued \in [EpochIndices -> Seq(Input)]
  BY DEF TypeOK, LogsOK
<1>3. LogOf(Append(enqueued[e], i)) = Append(LogOf(enqueued[e]), h)
  BY <1>2, LogOfAppend
<1>4. Log' = [Log EXCEPT ![e] = Append(Log[e], h)]
  <2>1. Log' = [f \in EpochIndices |-> LogOf(enqueued'[f])]
    BY DEF Log, LogOf
  <2> HIDE DEF LogOf
  <2> QED
    BY <1>2, <1>3, <2>1 DEF Log
<1>5. Ledger!Accept(h)
  BY <1>1, <1>4 DEF Ledger!Accept
<1> QED
  BY <1>5 DEF Ledger!Next

\* A new or an erased epoch.
LEMMA ClearStep ==
    ASSUME TypeOK, NEW e \in EpochIndices, ClearEpoch(e)
    PROVE  Ledger!Clear(e)
<1>1. LogOf(<<>>) = <<>> /\ ResultsOf(<<>>) = <<>>
  BY DEF LogOf, ResultsOf
<1>2. /\ enqueued \in [EpochIndices -> Seq(Input)]
      /\ processed_inputs \in [EpochIndices -> Seq(ProcessedInput)]
  BY DEF TypeOK, LogsOK
<1>3. /\ enqueued' = [enqueued EXCEPT ![e] = <<>>]
      /\ processed_inputs' = [processed_inputs EXCEPT ![e] = <<>>]
  BY DEF ClearEpoch
<1>4. /\ Log' = [f \in EpochIndices |-> LogOf(enqueued'[f])]
      /\ Results' = [f \in EpochIndices |-> ResultsOf(processed_inputs'[f])]
  BY DEF Log, Results, LogOf, ResultsOf
<1> HIDE DEF LogOf, ResultsOf
<1>5. Log' = [Log EXCEPT ![e] = <<>>] /\ Results' = [Results EXCEPT ![e] = <<>>]
  BY <1>1, <1>2, <1>3, <1>4 DEF Log, Results
<1> QED
  BY <1>5 DEF Ledger!Clear

\* An input that is accepted by the machine or skipped.
LEMMA ProcessStep ==
    ASSUME Inv, NEW h \in Handlers, Processing(h), pc[h] # "handoff", Valid(h),
           NEW s \in {"accepted", "skipped"}, RecordInput(h, s),
           UNCHANGED <<enqueued, epoch_state, active_epoch_index, tainted>>
    PROVE  [Ledger!Next]_(Ledger!vars)
<1> DEFINE e == ep[h]
           p == [input |-> Head(pending_inputs[e]),
                 input_index |-> input_index[h],
                 epoch_input_index |-> epoch_input_index[h], status |-> s]
<1>1. e \in EpochIndices /\ TypeOK
  BY DEF Inv, TypeOK, HandlersOK
<1>2. p \in ProcessedInput /\ p.input = Head(pending_inputs[e])
      /\ p.input_index = processed_input_count
  BY <1>1, FrontInput DEF ProcessedInput, Inv, TypeOK, LocalsOK, IndexCaptured
<1>3. /\ processed_inputs' = [processed_inputs EXCEPT
                                    ![e] = Append(processed_inputs[e], p)]
      /\ processed_input_count' = processed_input_count + 1
  BY DEF RecordInput
<1> HIDE DEF p
<1>4. /\ enqueued \in [EpochIndices -> Seq(Input)]
      /\ processed_inputs \in [EpochIndices -> Seq(ProcessedInput)]
      /\ pending_inputs \in [EpochIndices -> Seq(Input)]
  BY <1>1 DEF TypeOK, LogsOK
<1>5. pending_inputs[e] # <<>>
      /\ enqueued[e] = InputsOf(processed_inputs[e]) \o pending_inputs[e]
  BY <1>1 DEF Valid, Inv, InputLog
<1>6. /\ Len(processed_inputs[e]) < Len(LogOf(enqueued[e]))
      /\ LogOf(enqueued[e])[Len(processed_inputs[e]) + 1] = p.input.id
  BY <1>1, <1>2, <1>4, <1>5, FrontIsNext
<1>7. Len(ResultsOf(processed_inputs[e])) = Len(processed_inputs[e])
  BY <1>1, <1>4, ResultsTyped
<1>8. ResultsOf(Append(processed_inputs[e], p)) =
        Append(ResultsOf(processed_inputs[e]),
               [input |-> p.input.id, input_index |-> processed_input_count])
  BY <1>1, <1>2, <1>4, ResultsOfAppend
<1>9. /\ Log' = Log
      /\ Results' = [f \in EpochIndices |-> ResultsOf(processed_inputs'[f])]
  BY DEF Log, LogOf, Results, ResultsOf
<1> HIDE DEF LogOf, ResultsOf, e
<1>10. Results' = [Results EXCEPT ![e] =
            Append(Results[e], [input |-> Log[e][Len(Results[e]) + 1],
                                input_index |-> processed_input_count])]
  BY <1>1, <1>3, <1>4, <1>6, <1>7, <1>8, <1>9 DEF Results, Log
<1>11. Len(Results[e]) < Len(Log[e])
  BY <1>1, <1>6, <1>7 DEF Results, Log
<1>12. Ledger!Process(e)
  BY <1>3, <1>9, <1>10, <1>11 DEF Ledger!Process
<1> QED
  BY <1>1, <1>12 DEF Ledger!Next, EpochIndices, Ledger!EpochIndices

\* The end of an epoch.
LEMMA NextEpochStep ==
    ASSUME TypeOK, NEW h \in Handlers, NEW e \in EpochIndices,
           epoch_state[e] # "absent", FinishAndStartEpoch(h, e),
           UNCHANGED <<processed_input_count, tainted>>
    PROVE  [Ledger!Next]_(Ledger!vars)
<1> DEFINE next == (active_epoch_index + 1) % (MaxEpochIndex + 1)
<1>1. next \in EpochIndices
  BY ConstantsAssumption DEF TypeOK, SessionOK, EpochIndices
<1>2. /\ ClearEpoch(next) /\ active_epoch_index' = next
      /\ epoch_state' = [epoch_state EXCEPT ![e] = "finished", ![next] = "active"]
  BY DEF FinishAndStartEpoch
<1>3. Ledger!Clear(next)
  BY <1>1, <1>2, ClearStep
<1>4. Ledger!NextEpoch(e)
  BY <1>2, <1>3 DEF Ledger!NextEpoch
<1> QED
  BY <1>4 DEF Ledger!Next, EpochIndices, Ledger!EpochIndices

\* Every step of a handler is a step of the ledger or a stutter.
LEMMA HandlerStep ==
    ASSUME Inv, NEW h \in Handlers, Request(h) \/ Step(h)
    PROVE  [Ledger!Next]_(Ledger!vars)
<1> USE DEF lockVars, countVars, epochVars, machineVars, localVars
<1>0. TypeOK /\ LabelsMatch
  BY DEF Inv
<1>1. ASSUME NEW e \in EpochIndices, NEW b \in BOOLEAN, AdvanceState(h, e, b)
      PROVE  [Ledger!Next]_(Ledger!vars)
  <2> DEFINE i == [id |-> h, input_index |-> CurrentInputIndex(e)]
  <2>1. i \in Input /\ i.id = h
    BY <1>0 DEF CurrentInputIndex, Input, TypeOK, LogsOK, SessionOK
  <2>2. CASE Refuse(h, AdvanceStateCode(e, b))
    BY <2>2, QuietStep DEF Refuse
  <2>3. CASE /\ AdvanceStateCode(e, b) = "OK"
             /\ enqueued' = [enqueued EXCEPT ![e] = Append(enqueued[e], i)]
             /\ UNCHANGED <<processed_inputs, processed_input_count, epoch_state,
                            active_epoch_index, tainted>>
    <3>1. ~tainted /\ e = active_epoch_index /\ epoch_state[e] = "active"
      BY <2>3 DEF AdvanceStateCode
    <3> HIDE DEF i
    <3> QED
      BY <1>0, <2>1, <2>3, <3>1, AcceptStep
  <2> QED
    BY <1>1, <2>2, <2>3 DEF AdvanceState
<1>2. ASSUME NEW e \in EpochIndices, NEW b \in BOOLEAN,
             NEW store \in BOOLEAN, FinishEpoch(h, e, b, store)
      PROVE  [Ledger!Next]_(Ledger!vars)
  <2>1. CASE Refuse(h, FinishEpochCode(e, b))
    BY <2>1, QuietStep DEF Refuse
  <2>2. CASE FinishEpochCode(e, b) = "OK"
    <3>1. epoch_state[e] # "absent"
      BY <2>2 DEF FinishEpochCode
    <3> QED
      BY <1>0, <1>2, <2>1, <2>2, <3>1, NextEpochStep, QuietStep DEF FinishEpoch
  <2> QED
    BY <1>2, <2>1, <2>2 DEF FinishEpoch
<1>3. CASE Stored(h)
  <2>1. ep[h] \in EpochIndices /\ epoch_state[ep[h]] # "absent"
    BY <1>0, <1>3 DEF Stored, At, Valid, TypeOK, HandlersOK
  <2> QED
    BY <1>0, <1>3, <2>1, NextEpochStep DEF Stored
<1>4. ASSUME NEW e \in EpochIndices, DeleteEpoch(h, e)
      PROVE  [Ledger!Next]_(Ledger!vars)
  <2>1. CASE Refuse(h, DeleteEpochCode(e))
    BY <2>1, QuietStep DEF Refuse
  <2>2. CASE /\ DeleteEpochCode(e) = "OK" /\ ClearEpoch(e)
             /\ epoch_state' = [epoch_state EXCEPT ![e] = "absent"]
             /\ UNCHANGED <<tainted, countVars>>
    <3>1. epoch_state[e] = "finished" /\ e # active_epoch_index
      BY <2>2 DEF DeleteEpochCode
    <3>2. Ledger!Clear(e)
      BY <1>0, <2>2, ClearStep
    <3>3. Ledger!Delete(e)
      BY <2>2, <3>1, <3>2 DEF Ledger!Delete
    <3> QED
      BY <3>3 DEF Ledger!Next, EpochIndices, Ledger!EpochIndices
  <2> QED
    BY <1>4, <2>1, <2>2 DEF DeleteEpoch
<1>5. CASE InputAccepted(h)
  <2>1. Processing(h) /\ pc[h] # "handoff" /\ Valid(h)
    BY <1>0, <1>5 DEF InputAccepted, At, LabelsMatch, Processing, Talking
  <2> QED
    BY <1>5, <2>1, ProcessStep DEF InputAccepted, CompleteInput
<1>6. CASE InputSkipped(h)
  <2>1. Processing(h) /\ pc[h] # "handoff" /\ Valid(h)
    BY <1>0, <1>6 DEF InputSkipped, At, LabelsMatch, Processing, Talking
  <2>2. CASE CompleteInput(h, "skipped") /\ UNCHANGED tainted
    BY <1>6, <2>1, <2>2, ProcessStep DEF InputSkipped, CompleteInput
  <2>3. CASE TaintAdvanceState(h) /\ UNCHANGED <<processed_inputs, processed_input_count>>
    BY <1>6, <2>3, QuietStep DEF InputSkipped, TaintAdvanceState
  <2> QED
    BY <1>6, <2>2, <2>3 DEF InputSkipped
<1>7. ASSUME NEW b \in BOOLEAN, InspectState(h, b) \/ ResumeQuery(h, b)
      PROVE  [Ledger!Next]_(Ledger!vars)
  BY <1>7, QuietStep DEF InspectState, ResumeQuery, Refuse
<1>8. ASSUME NEW r \in {"GetSessionStatus", "GetEpochStatus"},
             NEW e \in EpochIndices, GetStatus(h, r, e)
      PROVE  [Ledger!Next]_(Ledger!vars)
  BY <1>8, QuietStep DEF GetStatus, Refuse
<1>9. CASE \/ AdvanceStateAcked(h) \/ InputRun(h) \/ MachineFails(h)
  BY <1>9, QuietStep DEF AdvanceStateAcked, InputRun, MachineFails,
      TaintAdvanceState
<1>10. CASE \/ EndSession(h) \/ ResumeProcessing(h) \/ ResumeTainting(h)
           \/ SnapshotTaken(h) \/ SnapshotCheckedIn(h)
           \/ QueryRun(h) \/ VouchersProved(h) \/ NoticesProved(h)
           \/ RolledBack(h) \/ InputRolledBack(h) \/ QueryRolledBack(h)
           \/ CallFails(h) \/ ShutDown(h) \/ Acked(h)
           \/ ErrorAcked(h) \/ UseAfterFree(h)
  BY <1>10, QuietStep DEF EndSession, ResumeProcessing,
      ResumeTainting, SnapshotTaken, SnapshotCheckedIn, QueryRun,
      VouchersProved, NoticesProved, RolledBack, InputRolledBack,
      QueryRolledBack, CallFails, ShutDown, Acked, ErrorAcked,
      UseAfterFree, Refuse, AwaitCheckin
<1> QED
  BY <1>1, <1>2, <1>3, <1>4, <1>5, <1>6, <1>7, <1>8, <1>9, <1>10
      DEF Request, Step

\* The session implements the ledger: what its handlers do to inputs, results,
\* counts and epochs, in whatever order they are resumed, is what the ledger
\* allows.
THEOREM Refinement == Spec => ImplementsLedger
<1>1. Init => Ledger!Init
  <2> SUFFICES ASSUME Init PROVE Ledger!Init
    OBVIOUS
  <2>1. /\ enqueued = [e \in EpochIndices |-> <<>>]
        /\ processed_inputs = [e \in EpochIndices |-> <<>>]
    BY DEF Init
  <2>2. LogOf(<<>>) = <<>> /\ ResultsOf(<<>>) = <<>>
    BY DEF LogOf, ResultsOf
  <2>3. Log = [e \in EpochIndices |-> <<>>] /\ Results = [e \in EpochIndices |-> <<>>]
    BY <2>1, <2>2 DEF Log, Results
  <2> QED
    BY <2>3 DEF Init, Ledger!Init, EpochIndices, Ledger!EpochIndices
<1>2. Inv /\ [Next]_vars => [Ledger!Next]_(Ledger!vars)
  <2> SUFFICES ASSUME Inv, [Next]_vars PROVE [Ledger!Next]_(Ledger!vars)
    OBVIOUS
  <2>1. ASSUME NEW c \in Handlers \cup {Null}, ResumeStray(c)
        PROVE  [Ledger!Next]_(Ledger!vars)
    BY <2>1, StrayOnlyCrashes, QuietStep DEF Inv, countVars, epochVars
  <2>2. CASE UNCHANGED vars
    BY <2>2, QuietStep DEF vars, countVars, epochVars
  <2> QED
    BY <2>1, <2>2, HandlerStep DEF Next
<1> QED
  BY <1>1, <1>2, Invariance, PTL DEF Spec, ImplementsLedger, Ledger!Spec
=============================================================================
