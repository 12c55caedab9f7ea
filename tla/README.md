# server-manager: specifications, checks and proofs

The server-manager is a gRPC server that keeps *sessions*. A session owns one
remote Cartesi machine server and a series of *epochs*; clients send it inputs,
ask it queries, finish and delete its epochs and end it. All line numbers below
are of `src/src/server-manager.cpp` unless another file is named.

## 1. Inventory

| Part | State | Operations | Where |
|---|---|---|---|
| Session | `session_lock`, `processing_lock`, `tainted`, `active_epoch_index`, `processed_input_count`, `epochs`, `server_stub` | the RPC handlers below | `session_type`, 429-447 |
| Epoch | `state`, `pending_inputs`, `processed_inputs`, `pending_query`, `vouchers_tree`, `notices_tree`, `most_recent_machine_hash` | `start_first_epoch`, `finish_epoch`, `start_new_epoch` | `epoch_type`, 388-397 |
| AdvanceState | its input, the two indices of the input it works on | checks, enqueue, respond, then maybe `process_pending_inputs` | 2797-2994, 2545-2793 |
| InspectState | its query, the coroutine to resume on exit | checks, maybe wait, `process_pending_query`, respond | 3021-3175, 2443-2540 |
| FinishEpoch, DeleteEpoch, EndSession, GetSessionStatus, GetEpochStatus | none of their own | checks, at most one call to the machine server, one change, respond | 806-1333 |
| Check-in | `sessions_waiting_checkin`, a deadline alarm | `trigger_and_wait_checkin`, CheckIn, CheckinDeadline | 1532-1611 |
| StartSession | the session under construction | checks, spawn, check-in, start the machine | 1748-1906 |
| Run of a machine | cycles, deadlines | `run_machine` and the loops around it | 2009-2047 |
| Completion queue, coroutines | the tags that are ready, one coroutine for each RPC | the dispatch loop, `enqueue_completion_queue`, shutdown | 556-560, 3503-3548 |
| Merkle trees | leaves by level, or one hash for every bit of the leaf count | push_back, get_proof, get_root_hash, get_next_leaf_proof, verify, slice | `src/src/*merkle-tree*` |
| Machine server | the machine and its snapshot | RPCs used by the manager | another repository |
| GetVersion, GetStatus, Health, options, conversions | none | read only | |

**How the parts interact.** One thread runs everything. Each RPC is a coroutine;
it keeps the thread until it yields, and it yields when it has asked for
something that puts it back in the completion queue: a call to the machine
server, the delivery of its response, an alarm. Between two yields a handler is
atomic; across a yield any other handler may change the session. What keeps the
handlers apart are two boolean flags wrapped in `auto_lock`. `session_lock`
makes other requests to the session fail with ABORTED. AdvanceState gives it up
once its response is delivered, so that more inputs can be queued while it
processes; `processing_lock` then makes sure that only one handler is inside
`process_pending_inputs`. An InspectState that finds inputs in the queue leaves
its coroutine in `pending_query` and waits. The processing handler comes past
between two inputs, puts that coroutine in the completion queue, leaves its own
coroutine in the same place and waits for its turn. Every snapshot and rollback
replaces the machine server by a new process that has to check in.

**What is hard.** The order in which responses are delivered and coroutines are
resumed; values read before a yield and used after it (`size() == 1` of a queue,
the indices of an input, references to the epoch and to the front of the queue);
locks whose destructors run long after they were released; the exchange of
coroutines through one pointer, also from exception handlers; failures of the
machine server at each of the nine points where it is waited for, with a
check-in that may never come; indices at their limit. `hazards` in
`PROJECT.json` lists these at their lines with the properties about them.

**What makes each part correct.**
- Session and epochs: no accepted input is lost, duplicated or reordered; the
  indices of results are unique and agree with what the clients were told; the
  machine and the hash reported are those of the accepted inputs; a finished
  epoch is complete; the active epoch is there and active.
- Locks: what a lock protects is exclusive.
- Query handoff: no query and no processing handler waits for ever, and no
  coroutine is resumed that does not wait.
- Process: no `exit(1)`, no use of what was destroyed.
- Check-in: every wait ends, with a server that checked in during it or with its
  deadline; the server connected to is the newest one.
- StartSession: a session others can see is complete or locked, a failed start
  leaves nothing behind, and what passed the checks is fit for use.
- Run: the limits on cycles and time are obeyed and given as a reason only when
  they were reached; outputs are complete and in order; the machine is where the
  session believes it to be.
- Trees: what is repaired step by step equals the tree built at once, and so do
  the proofs taken from it.
- Dispatch loop: a tag is the address of a living coroutine that waits for it, a
  coroutine that waits without a tag is going to be called, and one that has
  finished is deleted.

## 2. Modules

| Module | Role |
|---|---|
| `Session` | one session and its handlers, the properties, and the faulty variants (comment "Fault:") that show that each property can fail |
| `SessionClients` | a session and what its clients have sent while others were served; the properties clients earn by a discipline |
| `InputLedger` | abstract: what a session promises about inputs, results and epochs |
| `SessionLedger` | the refinement mapping from `Session` to `InputLedger` |
| `CheckIn` | the rendezvous of a session with its machine servers |
| `CheckInCalm` | the same with a history of servers and alarms, and the properties that depend on it |
| `StartSession` | the table of sessions: how they are started, used and ended |
| `StartClients` | the same with a history of its clients, and the properties that depend on it |
| `MachineRun` | what happens to one input or query between its snapshot and its outcome |
| `MerkleTrees` | complete, back and pristine trees, proofs, slices and their messages |
| `Dispatch` | creation, resumption and deletion of coroutines |
| `DispatchOrderly` | the same with a history of how the session is used, and the properties that depend on it |
| `SessionProofs`, `SessionClientsProofs`, `LedgerProofs`, `CheckInProofs`, `StartSessionProofs`, `MachineRunProofs`, `MerkleProofs`, `DispatchProofs` | proofs |
| `MCSession`, `MCCheckIn`, `MCStartSession`, `MCMachineRun`, `MCMerkleTrees`, `MCDispatch` | the instances that are model-checked: values of constants, symmetry or the order of handlers |

Each module looks at the handlers from one side. `Session` takes a check-in and
a run as one step each; `CheckIn` and `MachineRun` open these steps, for one
handler at a time, which is what `SerialExclusive` of `SessionClients` is about.
`Session` starts from the state `StartSession` leaves (`LockHasHolder`,
`ConfigSound`), and the assumptions of `MachineRun` on its constants are what
`ConfigSound` says. `MerkleTrees` is behind the leaves `MachineRun` appends and
the leaf counts of `Session`. `Dispatch` forgets what handlers do and keeps how
they wait; it has the check-in and the hand-over of a query together, at the grain of
coroutines and tags.

### Session

*State.* The variables carry the names of the fields they stand for. An epoch is
a row of functions from epoch indices, with `"absent"` for an index that is not
in the map. A tree is its number of leaves. A machine, and likewise its hash, is
the sequence of inputs and queries it has run. `pc[h]` is the yield at which
handler `h` is suspended, `rpc[h]` what it serves, `ep[h]` the epoch it holds a
reference to; `input_index` and `epoch_input_index` are the local variables of
`process_pending_inputs`, and `resume_on_exit` that of InspectState. `scheduled`
counts the alarms `enqueue_completion_queue` has set. `enqueued` and `committed`
are history and influence nothing.

*Actions.* One action is what a handler does between two yields.

| Code | Actions |
|---|---|
| AdvanceState, 2797-2921, then 2922-2994 | `AdvanceState`, then `AdvanceStateAcked`; exception handlers in `TaintAdvanceState`, `ResumeTainting` |
| `process_pending_inputs`, 2545-2793 | `TakeUpInput`, `SnapshotTaken`, `SnapshotCheckedIn`, `InputRun`, then `VouchersProved`, `NoticesProved`, `InputAccepted` or `RolledBack`, `InputRolledBack`, `InputSkipped`; `ServeQueryFirst`, `ResumeProcessing` |
| InspectState, 3021-3175, and `process_pending_query`, 2443-2540 | `InspectState`, `ResumeQuery`, `SnapshotTaken`, `SnapshotCheckedIn`, `QueryRun`, `RolledBack`, `QueryRolledBack`, `UnwindInspectState` |
| a failure in either of them, `CHECK_STATUS_OR_TAINT` | `MachineFails` |
| FinishEpoch, 806-908, with `store`, `finish_epoch`, `start_new_epoch` | `FinishEpoch`, `Stored`, `CallFails` |
| DeleteEpoch, 912-978 | `DeleteEpoch` |
| EndSession, 996-1079 | `EndSession`, `ShutDown`, `CallFails` |
| GetSessionStatus, GetEpochStatus | `GetStatus` |
| delivery of a response, end of a handler | `Acked`, `ErrorAcked` |
| a coroutine resumed after its session, epoch, query or input is gone, or while it waits for something else | `UseAfterFree`, `ResumeStray` |

*Abstractions.*
- The loop around `run_machine`, which alternates runs with reading vouchers,
  notices and reports, is one step with the outcomes accepted, to be skipped,
  and failed. Nothing in the session's shared state changes in it.
- A check-in and its deadline exclude each other and take one step.
- Undefined behaviour and `exit(1)` set `crashed`, after which nothing happens.
  After EndSession has erased the session, the destructor of its `auto_lock`
  writes to freed memory; `Acked` leaves open whether that does any harm.
- What a request says is reduced to what the checks find: an epoch index, and
  whether the input index, the metadata, the number of processed inputs or the
  length of the payload are as the code wants them.
- Clients send anything at any time. `SessionClients` adds the history variable
  `clients`, the set of the disciplines they have kept to so far in what they sent
  while other requests were being served. `queue`: AdvanceStates pile up, other
  requests are sent one at a time, and no DeleteEpoch under an AdvanceState.
  `within`: the same, and no FinishEpoch under one either. `serial`: `queue`, and
  AdvanceStates do not overlap each other. It restrains nobody; properties that do
  not mention it need nothing of the clients.

### InputLedger and SessionLedger

The ledger has, for every epoch, the log of the inputs accepted and the results
so far, the count, the states of the epochs and the active index. Its steps
accept an input at the end of the log of the active epoch, give the oldest input
without a result the next number, finish, clear and delete epochs, and taint.
There are no queues, locks, handlers or machine. The mapping takes an input to
the handler that brought it, the log to the history `enqueued`, and the results
to `processed_inputs` without the hashes.

### CheckIn

The waits of one session are numbered, and so are the servers they are for.
`Spawn`, `Trigger`, `Triggered` and `TriggerFails` are the stretches of a handler
up to a wait, `ResumeWaiter` the rest of `trigger_and_wait_checkin` (1587-1611)
after a direct call of its coroutine. `AlarmFires`, `CheckinDeadline` and
`AlarmCancelled` are the alarm of each wait and its coroutine; `Send`,
`ReceiveCheckIn` and `CheckInAcked` are the requests. A server may check in as
soon as it was asked for, before its handler has registered, and `Sends` times.
A call of a coroutine that is not at this yield, and an `exit(1)`, set `crashed`.
The tag of an alarm that has gone off and a request may be in the queue together.
In `CheckInCalm`, `calm` remembers that this has not happened so far and that no
server has checked in twice.

### StartSession

The record of a session has the fields that `StartSession` fills in and the lock.
`StartRequest` is everything up to the spawning of the server, with the checks in
their order (`StartCode`, `RequestCode`); then one action per answer, with the
checks of the configuration in `ConfigAnswered`; `StartFails` is the exception
handlers. `EndRequest`, `ShutDown` and `Ended` are EndSession, and `UseRequest`
and `Used` stand for any other request, which locks a session and relies on it.
Sessions are named after the handler that started them, so that a reference to
one that is gone can be told from its successor; storage is reused for the next
session under the same id, which an allocator may do. In `StartClients`,
`patient` remembers that no session has been started while an EndSession was
ending.

### MachineRun

One action per answer of the machine server, from the snapshot to the recording.
Calls that repeat (one for each range to clear, one proof for each hash) are one
step; `CallFails` may stop at any. The machine is its cycle, its flags, the
reason and acknowledgement in tohost and fromhost, whose payload and metadata it
holds, the length in its tx buffer and which hashes are not null. `Ran` is what
a call of Run may leave: a stop at the limit, any yield, a halt, or, for a
machine that is not `honest`, no progress, hashes that do not fit the yields,
lengths that are too large, wrong acknowledgements and unknown reasons. Words
have `WordMax` for `UINT64_MAX`, with sums and differences that wrap and the
conversion to a signed number. The bit `odd` only keeps an increment without any
effect from being no step at all.

### MerkleTrees

Operators translated from the classes, on trees as functions from levels, driven
by a small machine that pushes leaves to a complete tree, lets a back tree
follow, stores a proof with every leaf and finishes the epoch. Hashes are free
terms, which is collision freedom. `Reference` hashes all leaves at once.

### Dispatch

*State.* `co` has the coroutine at every address: its kind (the RPC, or the deadline of
a check-in), the yield at which it is suspended, and the address it keeps of another
one (the coroutine an accepted CheckIn is going to call, or `resume_on_exit`). `tags`
counts how often an address, or the null pointer, is still to arrive. `waiting` is the
entry of the session in `sessions_waiting_checkin`, with its coroutine, its alarm and
its status. `session`, `inputs` and `query` are what handlers test before they wait:
whether the session exists and is tainted, how many inputs are pending, and the
coroutine of `pending_query`. `crashed` is set by every `exit(1)` and by the
resumption of a coroutine that does not wait or no longer exists. `served` is the set
of RPCs that are looked at in a behaviour, one of a few. New coroutines get a free
address, it does not matter which.

*Actions.* `Resume` is a turn of the loop (3518-3548), with the deletion of what has
finished, and `Runs` a turn in which the coroutine may be called by another one. All
thirteen RPCs are there. Those answered at once share `Answers`. For the others there
is an action for the request, one for the answer that is delivered and, between them,
calls to the machine server that are answered or fail, in any number. A CheckIn is
accepted whenever there is an entry for the session (3201-3219): a second one during
the acknowledgement of the first, and one that meets an alarm that has gone off, which
cannot be cancelled any more. A hand-over (2784-2791, 2962-2969, 2981-2988, 3095-3101)
exchanges the addresses in `query` and schedules the other side; what is scheduled may
be the null pointer, the handler itself, or a coroutine that was deleted.

*Left out.* `session_lock` is not in `Dispatch`: a request is let in at any time, as it
may be once a stranger has cleared the lock. Of the epochs only the active one is
followed; a handler that waits in the loop over the inputs of an epoch that was finished
meanwhile is `stale`, and returns when it is resumed. What becomes of a handler whose
session or epoch is destroyed under it is in `Session`. A stub is always created
(`check_server_stub`, 1610).

`DispatchOrderly` adds `orderly`, which is true as long as (a) `session_lock` lets
requests in one at a time, (b) a wait accepts one CheckIn, and (c) it accepts none when
its alarm has gone off. (a) is what `SerialExclusive` shows for serial clients; (b) and
(c) are what `calm` means in `CheckInCalm`. Without it `TagsSound` and
`ParkedHasOneWaker` are false: a second CheckIn, or the alarm, calls a coroutine that
has gone on or has ended.

## 3. Runs

The safety run of `MCSession` uses the symmetry of the handlers. `CHECK_DEADLOCK
FALSE` everywhere: every handler serves one request and ends, so a behaviour stops
when the budget of requests, waits or leaves is spent, and in `MCDispatch` when the
process has exited. That nobody stops *earlier* is `HandlersEnd`, `WaitsEnd`, `RequestsEnd` and `JobsEnd`.

| Run | Instance | Shows |
|---|---|---|
| `session` | four requests, anything at any time, faults | whatever clients do: `TypeOK`, `ProcessingExclusive`, `ActiveEpochIsActive`, `InputLog`, `IndicesUnique`, `ImplementsLedger`; for clients that keep to `queue`: `MachineAgrees`, `EpochsSound`, `IndexAgreement`; to `within` or `serial`: `QueryNotLost`; to `serial`: `SerialExclusive`, `NoCrash` |
| `session_live` | four requests of three kinds, clients that keep to `within` or `serial`; faults, fairness | `HandlersEnd`, `InputsProcessed` |
| `concurrent`, `lock`, `tainted` | two or three requests | findings of section 5 |
| `checkin` | three waits, two check-ins per server, races, fairness | `WaitHasWaker`, `SuccessEarned`, `WaitsEnd`; as long as servers and alarms are calm: `AddressFresh`, `RendezvousSafe` |
| `start` | four requests for one id, every flaw of request and configuration, fairness | `ConfigSound`, `RequestsEnd`; as long as clients are patient: `LockHasHolder`, `OutcomeTold` |
| `start_reuse` | three requests for one id | finding of section 5 |
| `run` | two requests on an honest machine or one that misbehaves, fairness | `CyclesKept`, `DeadlineKept`, `RecordsAgree`, `OutputsFaithful`, `RightRequest`, `NoSilentReturn`, `HonestNotTainted`, `JobsEnd` |
| `trees` | all sequences of up to eight leaves | `CompleteIsTree`, `ProofsOfTree`, `ProofsSurviveTransport`, `BackIsTree`, `NextLeafProofForesees`, `FinishedProofsCurrent` |
| `dispatch` | seven coroutines, two inputs; three to four RPCs at a time that meet each other | `AlwaysServed`; as long as the session is used in an orderly way: `TagsSound`, `ParkedHasOneWaker` |
| `dispatch_leak` | six coroutines, one input | finding of section 5 |

`TypeOK` is a property of its own in `session`. It is proved for every module, and
it is also a conjunct of `ConfigSound`, `RecordsAgree`, `TagsSound` and
`CompleteIsTree`.

**Bounds.** Four handlers are enough for one input being processed, one in the
queue, one query that waits and one stranger that disturbs them, or for two
FinishEpochs that overlap in `store` and two requests after them.
`MaxEpochIndex = 2` stands for `UINT64_MAX`. Starting at epoch 1 brings the limit
and the wrap-around within reach. `StartCount = 5` makes the index in the session
different from the index in the epoch. GetSessionStatus is not sent: it does what
GetEpochStatus does, with one check less. Liveness is checked with four handlers
too; SYMMETRY is unsound there, so the handlers are numbered and take up requests
in order (`OrderedFairSpec`), and only the three kinds of request that others wait
for are sent.

Three waits let alarms and requests of two earlier waits meet a third. Four
requests are a start, an end, a start again and a stranger. In `MachineRun` three
cycles in increments of two make the last increment shorter than the others, and
leave room for a yield in every place; two requests show what the first leaves to
the second; the lengths are one that fits, one that fits without its header and
one that does not fit a word. Machines start at cycle 1, far from the end of the
words, or at 12, from where the first request has all its cycles up to the last
one, 15, and the sum wraps around for the second. Every increment takes one unit
of time, so that the deadline expires after two. Eight leaves fill a tree of
three levels above the leaves, so that every number of trailing ones in the leaf
count occurs. Seven coroutines are three listeners and four more: an AdvanceState that
waits for a check-in with its deadline and two CheckIns, or with its deadline, a CheckIn
and a query that waits for it. Two inputs let the loop over the inputs come back to a
query that was handed over. Addresses are interchangeable, but they are numbers that
refer to each other; `View` of `MCDispatch` therefore identifies states that differ
only in them.

**What the client disciplines mean.** The properties of `SessionClients`, and
`HandlersEnd`, do not hold for clients that send anything at any time. The cause
is mostly `~auto_lock` (section 5): once `session_lock` is cleared under a handler
that relies on it, a query and an input can reach the machine server together,
which ends in `exit(1)`, in a machine with the effects of both, or, when both have
passed the test at 1576 before either registers at 1583, in one registration
overwriting the other and a handler that waits for ever. A second cause needs
DeleteEpoch: an epoch can be finished and deleted while an AdvanceState of it still
waits for its response to be delivered, and the handler then uses the erased epoch.
A third one is a failed InspectState, which leaves its `pending_query` behind with a
coroutine that no longer exists; when an AdvanceState fails later in the same
session, its exception handler schedules that coroutine.

The attempt to prove `QueryNotLost` and `IndexAgreement` for weaker clients led to
two more, which need more requests than a run has:

- *A queue nobody processes* (`queue`, five requests). AdvanceState A1 processes,
  hands over to query Q1 and waits; Q1 ends and puts A1 back in the completion
  queue. Before A1 arrives there, a FinishEpoch is served: the queue is empty, so
  the next epoch starts. A2 is accepted into it and waits for its response to be
  delivered. A1 resumes, finds its own epoch without inputs, returns, and
  `~auto_lock` clears the `session_lock` A2 relies on. Query Q2 is let in, finds
  A2's input and waits for somebody to come past it, but nobody is processing. With
  a third AdvanceState let in the same way before A2 looks, both see a queue of
  size 2 and return: the inputs stay where they are. Hence `within`, which keeps
  FinishEpoch away from AdvanceStates, and `serial`, which keeps these apart.
- *An index that wraps around* (any clients, eight requests). Two FinishEpochs
  that wait in `store` together both go on to a next epoch, the second without the
  test for `UINT64_MAX`. `start_new_epoch` (714-721) then wraps to an index whose
  epoch may still have a handler in `process_pending_inputs`; the epoch it refers to
  is replaced by an empty one, and the `epoch_input_index` it read before is no
  longer the position of its result. With TLC guided along this path `IndexAgreement`
  without its premise fails; it is therefore a property of `queue`, where
  FinishEpochs do not overlap.

`queue` is not enough for the properties of `serial`: lock and process fail with two
AdvanceStates (`lock`).

**Fairness.** Weak fairness of each handler's steps and of the delivery of
scheduled tags. Every call to the machine server gets a deadline
(`set_deadline`, 681-683), responses and alarms always come back through the
completion queue, and a check-in that does not come is replaced by its deadline
alarm. Nothing is assumed of clients, and no outcome of a call is preferred. The
same holds in `StartSession` and `MachineRun`. In `CheckIn` alarms go off and tags
are taken from the queue; servers need not check in. `JobsEnd` needs time to
pass: `run` has `Ticks = {1}`, since a machine that takes no time and makes no
progress would be run for ever.

**Mutants.** Each property has in `PROJECT.json` a faulty variant of one
definition under which TLC finds it violated in the same run.

## 4. Proofs

Every safety property the passing runs check is a theorem. The theorems hold for
all values of the constants that satisfy the assumption of the module:

| About | For every | Assumption |
|---|---|---|
| `Session`, `SessionClients` | set of handlers, `MaxEpochIndex`, start, set of RPCs, with or without faults | `ConstantsAssumption`, with what StartSession checks: it refuses the index `UINT64_MAX` |
| `CheckIn`, `CheckInCalm` | number of waits and check-ins, with races | `CheckInAssumption` |
| `StartSession`, `StartClients` | set of handlers, ids, requests and machine configurations | `StartSessionAssumption`: fields are numbers, a rollup configuration has the five ranges |
| `MachineRun` | word size, limits, increments, lengths, number of requests, honest or any machine | `MachineRunAssumption`: what `ConfigSound` ensures, and types |
| `MerkleTrees` | size of root, leaf and word, any leaves | `MerkleAssumption`: what the constructors check. They also refuse roots of 64 bits or more, so that the numbers of the model fit an address |
| `Dispatch`, `DispatchOrderly` | number of coroutines and inputs, choice of RPCs | `DispatchAssumption`: there is room for the listeners, `None` is no address, RPC or entry |

| Theorem | States | Premise in the property |
|---|---|---|
| `TypeCorrect` | `TypeOK`, and that a handler is only at labels of its own RPC | |
| `MutualExclusion` | `ProcessingExclusive` | |
| `ActiveEpochStays` | `ActiveEpochIsActive` | |
| `NoInputLost` | `InputLog` | |
| `IndicesStayUnique` | `IndicesUnique` | |
| `Refinement` | `Session` implements `InputLedger` (`ImplementsLedger`) | |
| `MachineStaysTrue` | `MachineAgrees` | `queue` |
| `EpochsStaySound` | `EpochsSound` | `queue` |
| `IndicesStayInAgreement` | `IndexAgreement` | `queue` |
| `NoQueryLost` | `QueryNotLost` | `within` or `serial` |
| `LockExcludes` | `SerialExclusive` | `serial` |
| `ServerStaysUp` | `NoCrash` | `serial` |
| `FinishedIsFinal` | `FinishedEpochsFrozen`, an action property that is in no run | `queue` |
| `NoWaitForgotten` | `WaitHasWaker` | |
| `ServerEarned` | `SuccessEarned` | |
| `NewestServer` | `AddressFresh` | `calm` |
| `RendezvousKept` | `RendezvousSafe` | `calm` |
| `ConfigStaysSound` | `ConfigSound` | |
| `LocksAreHeld` | `LockHasHolder` | `patient` |
| `OutcomesAreTold` | `OutcomeTold` | `patient` |
| `CyclesStayKept` | `CyclesKept` | |
| `DeadlineStaysKept` | `DeadlineKept` | |
| `RecordsStayTogether` | `RecordsAgree` | |
| `OutputsStayFaithful` | `OutputsFaithful` | |
| `RequestInHand` | `RightRequest` | |
| `HonestStaysUntainted` | `HonestNotTainted` | |
| `NeverSilent` | `NoSilentReturn` | |
| `CompleteStaysTree` | `CompleteIsTree` | |
| `ProofsStayOfTree` | `ProofsOfTree` | |
| `ProofsStaySent` | `ProofsSurviveTransport` | |
| `BackStaysTree` | `BackIsTree` | |
| `NextLeafStaysForeseen` | `NextLeafProofForesees` | |
| `FinishedStaysCurrent` | `FinishedProofsCurrent` | |
| `ContractKept` | `TagsSound` | `orderly` (not for the types) |
| `OneWaker` | `ParkedHasOneWaker` | `orderly` |
| `ListenersStay` | `AlwaysServed` | |

The premises are history variables that start true and restrain nobody: the
specifications of these theorems have every behaviour of the component.

*Session.* The inductive invariant `Inv` is the conjunction of `TypeOK`, `LabelsMatch`, the
four properties and `IndexCaptured`. `LabelsMatch` is needed because a label
such as `"snapshot"` is shared by inputs and queries, and whether a step enters
or leaves `process_pending_inputs` depends on the RPC. `ProcessingExclusive` is
inductive with it: every step that enters finds `processing_lock` clear and sets
it, and every step that leaves, by the end of the loop or by an exception,
clears it (`ProcessingStep` classifies the steps, `ExclusionKept` concludes).
`IndicesUnique` is not inductive: nothing in it says that the index recorded is
still fresh when it is recorded. `IndexCaptured` says that for the handler
inside `process_pending_inputs` the index it read is `processed_input_count`,
and it holds because only that handler, by mutual exclusion, moves the count.
`InputLog` follows from two facts about sequences (`MoveFront`, `AddBack`) for
the two kinds of step that touch the log. `ActiveEpochIsActive` needs care at one
place only, a FinishEpoch whose index wraps around or whose epoch is not the
active one any more.

*Refinement.* Every action is sorted by what it does to the ledger: nothing but
perhaps tainting (`QuietStep`), an acceptance (`AcceptStep`), a result
(`ProcessStep`), a change of epoch (`NextEpochStep`) or a deletion. The one that
needs `Inv` is the result: `InputLog` makes the front of the queue the oldest
input of the log without a result (`FrontIsNext`), and `IndexCaptured` makes the
index recorded the count. So that the ledger numbers results without gaps is what
mutual exclusion is for.

*Clients.* The inductive invariant `ClientInv` of `SessionClientsProofs` adds to
`Inv` what is earned. `Overlapping` says which requests are served together under
each discipline. For `queue` there are three parts, each about the state between
two tests of the code. `EpochsInPlace`: only the epoch at the index has a queue,
the handler that works on an input has it at the front and knows its position,
trees lack at most the leaf of that input, and nobody works while a FinishEpoch
waits in `store`; this carries the tests of FinishEpoch over its yield.
`Handover`, while the session is not tainted: `pending_query` is the query that
waits, or the handler that called it and is parked until the query resumes it, and
each is in the completion queue at most once. `MachineInPlace`: the machine is
`committed` except at the labels of `Dirty`, and the snapshot is `committed`
between its taking and the rollback. For `within`, `QueueWatched`: a queue nobody
processes has one input, whose AdvanceState holds `session_lock`. For `serial`,
`SerialWork` has at most one input in the whole session and every other request
refused while its response is delivered, and `TaintedHandover` follows exception
handlers that wake a query after the session is tainted; together they make every
coroutine that is resumed one that waits, which is `NoCrash`. The steps are sorted
by what they do to each part (`Rests`, `Enqueues`, `Records`, `Finishes`, ... and
`Aloof`, `Asks`, `Calls`, `Leaves`, ...), and each sort is shown to keep it.

*Finished epochs.* `FinishedIsFinal` follows from `ClientInv` and `EpochsBehind`: no
epoch is ahead of the index. For `queue` the index does not wrap around, because
`EpochsInPlace` keeps the test for `UINT64_MAX` true over the yield of FinishEpoch.
Hence the epoch that starts is not a finished one, inputs, results and leaves
go to the epoch at the index (`OtherEpochsStay`), and this one is active. Without
the premise the theorem is not to be had: the index that wraps around, described
in section 3, replaces a finished epoch by an empty one (TLC finds it with five
requests and `MaxEpochIndex = 2`).

*Check-in.* `WaitHasWaker` and `SuccessEarned` become inductive with
`EntryIsCurrent`, an entry of `sessions_waiting_checkin` is that of the current
wait and its handler waits, and `StatusEarned`, a status of true comes from the
check-in whose address the session has. The first is why a late alarm or request
of an earlier wait can end the current one, but not leave it without a waker. As
long as all is calm, more is true: the alarms and requests that are about are those
of the current wait, an alarm that can still go off excludes a status, and every
earlier server is done (`CalmInv`).

*StartSession.* `Base` holds for any clients: what is in the table has passed the
checks that concern the fields it has. `Earned` needs patience at one step, the
unlocking in `Ended`: only there is a session written to by a handler that does not
hold it.

*MachineRun.* `IInv` says where machine and snapshot are at every call, whose request
is in the machine, that `max_mcycle` is that of the request, which tree has the leaf
in advance, and how many of the machine's yields have been taken in. For an honest
machine it follows the hashes from the clearing of the ranges to their count: there
are as many as yields, and as many outputs were kept. The lemma `RanShape` reduces
what a call of Run may leave to three shapes, so that the proof does not depend on
how a machine may misbehave in detail.

*Dispatch.* The inductive invariant is `Sound`, which holds whatever happens, and
`orderly => Earned`. `Sound` has the types, what kinds, labels
and peers say of each other, and one listener for every RPC; it gives `AlwaysServed`. `Earned` has three parts, none of
which is inductive without the others.

- `Tagged` counts tags: one for every coroutine that arranged its own, none for a parked
  one and for the null pointer.
- `Waits` pairs the parked coroutine with the entry of the session, and the entry with
  what is going to call it: its alarm while no CheckIn was accepted, that one CheckIn
  afterwards. Here (b) and (c) are used.
- `Worked` is about who may be at work. `Locked`: the machine server works for one
  handler at a time and one handler processes inputs, never beside those that need all
  of them processed, so that `trigger_and_wait_checkin` finds no entry; and inputs that
  are pending in a sound session have a handler that is going to process them. `Handed`:
  a query that sleeps is the pending one or was scheduled, and who sleeps on the other
  side of the exchange is owed a wake-up by exactly one coroutine, after a failure too.
  `Asked`: in a sound session a pending query has its InspectState. Here (a) is used.

A direct call lets the callee arm a tag, and a hand-over puts somebody else's in the
queue: that neither gives a coroutine two tags is what the pairing is for. The proof goes
action by action, in lemmas that state for a group of conjuncts what a step with a
certain frame preserves.

*Merkle trees.* The algorithms are recursive functions of the level. The lemmas
`...Def` show that each of these functions exists and satisfies its equation, and
`IntervalInduction` is induction over an interval of numbers, for a set in the place
of a predicate, from the existence of a least counterexample: the induction theorems
of the library take an operator, which the provers cannot instantiate. Addresses
become indices of nodes by a few facts about division by powers of two
(`QuotientHalf`, `SiblingIndex`, `Family`). On these rest three arguments.

- Complete tree (`TreeHolds`). In a tree that is full, every level is what `NextLevel`
  makes of the one below, starting from nothing. `LevelRepair`: when only the last
  entry of a level is new or one was added (`EndsAnew`), `NextLevel` repairs the level
  above into the one it would make from nothing, and that one ends anew too. So
  the tree after a push is full (`BubbleUpRepairs`), and at every node has
  the hash of the reference (`TreeNodes`), pristine where there are no leaves.
- Back tree (`ContextHolds`). Where the path to the next leaf turns right, the
  context has the hash of the node to the left of it (`LeftOfPath`). A push carries
  through the trailing ones of the leaf count like an addition (`Carry`,
  `ContextStep`), and the other entries stay, because their nodes are complete
  (`LeftAgrees`).
- Proofs. Climbing from a node with the siblings of the reference meets the
  reference at every level (`ClimbReference`), which gives verification, slices and,
  with the context for the siblings to the left and pristine hashes to the
  right, the root after the next push (`NextLeafRoot`).

`MerkleInv` is needed because neither `CompleteIsTree` nor `BackIsTree` is inductive.
The root of a back tree says nothing of the entries of its context that the next push
will use, and `FinishedProofsCurrent` alone does not know what `GetProof` reads.

*Only model-checked.* Liveness (`HandlersEnd`, `InputsProcessed`, `WaitsEnd`,
`RequestsEnd`, `JobsEnd`): fairness and ENABLED are outside what TLAPS supports here.

## 5. Findings

- `concurrent`: the comment at 2546 says that "there is no way two concurrent
  calls can happen" of `process_pending_inputs`. The test at 2941 is made after
  the yield that delivers the response; when the first handler removes its input
  in between, the second one finds a queue of size 1, its own, and calls
  `process_pending_inputs` while the first goes on with the same input. The
  guard there throws, and the session is tainted although no machine failed.
- `lock`: `release()` clears `session_lock`, and so does the destructor later,
  whoever holds it then. An AdvanceState that ends therefore clears the lock of
  another request, and a third one is let in, against "Lock session so other
  rpcs to the same session are rejected" (2844).
- `tainted`: "If the session is tainted, nothing is going on with it" (1037) is
  not so when a query taints it: `process_pending_inputs`, which the query
  resumes on its way out, goes on with the queue.
- `start_reuse`: EndSession erases its session (1064), yields, and destroys an
  `auto_lock` on it. A session started meanwhile in the same storage is unlocked
  before it is complete, against the comment at 1787.
- `dispatch_leak`: an AdvanceState whose check-in fails finishes inside the call
  of the alarm's handler (1566). The dispatch loop deletes only the coroutine it
  resumed itself, so this one is never deleted, although it "cannot leak" (2811).

Some premises of the properties mark places where the code does less than its
comments say. They are the places to look at when a premise is dropped:

- `within` or `serial` in `QueryNotLost`, and `queue` in `IndexAgreement`: the two
  scenarios at the end of "What the client disciplines mean", against "The session is
  locked, and therefore no other rpcs can interfere (including AdvanceState rpcs)"
  (3087).
- `calm` in `RendezvousSafe`, and `orderly` in `TagsSound` and `ParkedHasOneWaker`: an alarm that has gone off can no longer be
  cancelled. If its tag is in the queue behind an accepted check-in, it fails the
  wait although "Session is not waiting for check-in anymore" (3215), and the
  CheckIn then calls a coroutine that waits for something else or has finished. A
  server that checks in twice has the same effect on a later wait.
- The sum in `CyclesKept`: `current_mcycle + max_advance_state` (2587) wraps
  around, and an input is skipped for cycles it has not had.
- The sign in `DeadlineKept`: a deadline of 2^63 ms or more is negative when it is
  compared (2041) and expires at once.
- The automatic yield in `DeadlineKept`: the deadline is not looked at when an
  increment ends in one (2033); a machine that yields in every increment runs on
  after the "Deadline for completing the AdvanceState RPC" (402) until its cycles
  are spent.

## 6. Not modelled, and the plan

Not modelled for good: option parsing, logging, signals and the contents of what
Health, GetVersion and GetStatus answer (no state); conversions between messages
and structures other than that of proofs (copies of fields, and at 744-753 the sibling
hashes of a validity proof, listed from the target up for readers outside the
repository); the hash function (a library); `machine-merkle-tree.h`, whose methods have
no implementation in the repository. `OutputsFaithful` says nothing of a tx buffer that
is smaller than the header of a payload, where the unsigned difference at 2196 wraps
around. The shutdown at 3549-3558 with `drain_completion_queue` is never reached: no
handler yields `side_effect::shutdown`, and the queue is not shut down before. The
exception of `check_server_stub` (1525) is never thrown, since `NewStub` does not return
null.

Next: more action properties from `ClientInv`, such as what a step may never do to
the results of the active epoch and to the count of inputs.
