----------------------------- MODULE MachineRun -----------------------------
(***************************************************************************)
(* What happens to one input or one query between its snapshot and its     *)
(* outcome: the inside of the steps Session takes at "run".  A request is  *)
(* written to the machine, the machine runs in increments until it yields, *)
(* halts or exceeds a limit, what it yields is read from its tx buffer, and*)
(* an accepted input is proved from the hashes the machine left behind.    *)
(*                                                                         *)
(* Requests come one after the other: that only one handler talks to the   *)
(* machine at a time is the business of Session, and that a snapshot or a  *)
(* rollback ends in a check-in that of CheckIn.  The machine server is not *)
(* part of the repository; it is modelled by what its calls do to the few  *)
(* parts of the machine the manager looks at.                              *)
(***************************************************************************)
EXTENDS Integers, Sequences, FiniteSets

CONSTANTS
    WordMax,        \* UINT64_MAX
    FirstCycles,    \* cycles at which a stored machine may be
    MaxCycles,      \* server_cycles.max_advance_state, .max_inspect_state
    Increment,      \* server_cycles.*_increment
    MaxDeadline,    \* server_deadline.advance_state, .inspect_state
    Ticks,          \* how long one increment may take
    MaxElapsed,     \* bound: time is not told apart beyond it
    MaxJobs,        \* bound: number of inputs and queries
    PayloadSizes,   \* sizes of the payloads of inputs and queries
    RxLength, TxLength,             \* lengths of the rx and tx buffers
    StringHeader, VoucherHeader,    \* EVM_ABI_STRING_, VOUCHER_HEADER_LENGTH
    Lengths,        \* payload lengths the machine may write to the tx buffer
    HashSlots       \* entries of a voucher or notice hashes memory range

\* What StartSession makes sure of, and what the formats are.
ASSUME MachineRunAssumption ==
    /\ WordMax \in Nat /\ FirstCycles \subseteq 0..WordMax
    /\ MaxCycles \in 1..WordMax /\ Increment \in 1..MaxCycles
    /\ MaxDeadline \in 0..WordMax /\ Ticks \subseteq Nat /\ MaxElapsed \in Nat
    /\ MaxJobs \in Nat /\ PayloadSizes \subseteq Nat /\ RxLength \in 0..WordMax
    /\ TxLength \in 0..WordMax /\ StringHeader \in 0..WordMax
    /\ VoucherHeader \in 0..WordMax /\ Lengths \subseteq Nat
    /\ HashSlots \in Nat

VARIABLES
    at,             \* the call the handler waits for
    kind, size, job,    \* the request, the size of its payload, its number
    current_mcycle, \* session.current_mcycle
    taint,          \* why session.tainted is set, or "none"
    processed,      \* outcomes of the epoch's processed_inputs
    vouchers_tree, notices_tree,    \* leaves of the epoch's trees
    cycle, max_mcycle, limit,   \* the run's current_mcycle, its limits
    elapsed,        \* time since start_time
    odd,            \* has run_machine, since it was called, gone on an odd number of
                    \* times?  (tells an increment that changes nothing from no step)
    length,         \* payload_data_length
    vouchers, notices, reports, status,     \* what the run has come to
    machine, saved  \* the machine and its snapshot

request == <<kind, size, job>>
epoch == <<current_mcycle, processed, vouchers_tree, notices_tree>>
run == <<cycle, max_mcycle, limit, elapsed, odd>>
outcome == <<vouchers, notices, reports, status>>
vars == <<at, request, epoch, taint, run, length, outcome, machine, saved>>

Word == 0..WordMax
\* Unsigned 64-bit arithmetic, and the conversion to a signed number.
Add(a, b) == (a + b) % (WordMax + 1)
Sub(a, b) == (a - b) % (WordMax + 1)
Signed(a) == IF 2 * a > WordMax THEN a - (WordMax + 1) ELSE a

Least(a, b) == IF a <= b THEN a ELSE b

Outputs == {"voucher", "notice", "report"}
Reasons == {"rx_accepted", "rx_rejected", "tx_exception", "other"} \cup Outputs
Skips == {"rejected", "exception", "machine_halted", "cycle_limit_exceeded",
          "time_limit_exceeded", "payload_length_limit_exceeded"}
Labels == {"idle", "snapshot", "clear", "write", "metadata", "reset", "ack", "run",
           "header", "payload", "voucher_proof", "voucher_hashes",
           "notice_proof", "notice_hashes", "root_hash", "rollback",
           "rolled_back", "tainted"}

-----------------------------------------------------------------------------
(* The machine, as far as the manager's calls show it. *)

Slots == 0..(HashSlots - 1)
NoHashes == [i \in Slots |-> FALSE]

Machine == [honest : BOOLEAN,    \* does it behave, and its server never fail?
            mcycle : Word, y : BOOLEAN, x : BOOLEAN, h : BOOLEAN,
            reason : Reasons,                     \* htif.tohost
            manual : BOOLEAN, ack : {0, 1},       \* htif.fromhost
            rx : 0..MaxJobs, metadata : 0..MaxJobs,  \* whose payload, whose metadata
            tx : Lengths \cup {0},                \* the length in the tx buffer
            voucher_hashes : [Slots -> BOOLEAN],  \* which entries are not null
            notice_hashes : [Slots -> BOOLEAN],
            emitted : Seq(Reasons)]    \* automatic yields since the last reset

\* The machine StartSession leaves: at a manual yield, the last input accepted.
FirstMachine(c, b) ==
    [honest |-> b, mcycle |-> c, y |-> TRUE, x |-> FALSE, h |-> FALSE,
     reason |-> "rx_accepted", manual |-> TRUE, ack |-> 0,
     rx |-> 0, metadata |-> 0, tx |-> 0,
     voucher_hashes |-> NoHashes, notice_hashes |-> NoHashes, emitted |-> <<>>]

\* How many automatic yields for a reason there were.
Count(m, r) == Cardinality({i \in DOMAIN m.emitted : m.emitted[i] = r})

HeaderOf(r) == IF r = "voucher" THEN VoucherHeader ELSE StringHeader

\* The lengths a machine writes before it yields: any, unless it is honest.
LengthsFor(m, r) == {n \in Lengths : m.honest => HeaderOf(r) + n <= TxLength}

\* The hashes memory range after the machine yields one more entry.  An honest
\* machine fills in the entries in order and never yields more than there is
\* room for.
WithHash(m, hashes, n) ==
    {[hashes EXCEPT ![i] = TRUE] : i \in {i \in Slots : m.honest => i = n}}
    \cup (IF m.honest THEN {} ELSE {hashes})

\* The machine ran to a cycle and just stopped there.
StoppedAt(m, c) == [m EXCEPT !.mcycle = c, !.x = FALSE]

\* The fromhost a manual yield leaves: unless the machine is honest, possibly not
\* that of an answer to a manual yield, or not for an input.
Acks(m) == {f \in [manual : BOOLEAN, ack : {0, 1}] : m.honest => f.manual /\ f.ack = 0}

\* The reasons of a manual yield that answers the request.
AnswerReasons(m) == {r \in {"rx_accepted", "rx_rejected", "other"} : m.honest => r # "other"}

Answered(m, c, r, f) == [StoppedAt(m, c) EXCEPT !.y = TRUE, !.reason = r,
                                                !.manual = f.manual, !.ack = f.ack]

Excepted(m, c, n) ==
    [StoppedAt(m, c) EXCEPT !.y = TRUE, !.reason = "tx_exception", !.tx = n]

YieldedManually(m, c) ==
    {Answered(m, c, r, f) : r \in AnswerReasons(m), f \in Acks(m)}
    \cup {Excepted(m, c, n) : n \in LengthsFor(m, "tx_exception")}

Emitted(m, c, r, n) ==
    [StoppedAt(m, c) EXCEPT !.x = TRUE, !.reason = r, !.tx = n,
                            !.emitted = Append(m.emitted, r)]

YieldedAutomatically(m, c) ==
    {[Emitted(m, c, "voucher", n) EXCEPT !.voucher_hashes = w] :
        n \in LengthsFor(m, "voucher"),
        w \in WithHash(m, m.voucher_hashes, Count(m, "voucher"))}
    \cup {[Emitted(m, c, "notice", n) EXCEPT !.notice_hashes = w] :
        n \in LengthsFor(m, "notice"),
        w \in WithHash(m, m.notice_hashes, Count(m, "notice"))}
    \cup {Emitted(m, c, "report", n) : n \in LengthsFor(m, "report")}
    \cup {Emitted(m, c, "other", 0)}

Halted(m, c) == [StoppedAt(m, c) EXCEPT !.h = TRUE]

\* The machine ran, and stopped before the limit or at it.
Stopped(m, l) ==
    UNION {YieldedManually(m, c) \cup YieldedAutomatically(m, c) \cup {Halted(m, c)} :
              c \in (m.mcycle + 1)..l}

\* Unless it is honest, it may make no progress.
Stalled(m) == {r \in {StoppedAt(m, m.mcycle)} : ~m.honest}

\* What Run(l) may leave.  A machine that has yielded manually or halted, or has
\* reached the limit already, does not run.
Ran(m, l) ==
    IF m.y \/ m.h \/ l <= m.mcycle
    THEN {StoppedAt(m, m.mcycle)}
    ELSE {StoppedAt(m, l)} \cup Stopped(m, l) \cup Stalled(m)

-----------------------------------------------------------------------------
\* Every variable has its type.
TypeOK ==
    /\ at \in Labels
    /\ kind \in {"advance", "inspect"} /\ size \in PayloadSizes \cup {0}
    /\ job \in 0..MaxJobs
    /\ taint \in {"none", "call", "length", "count", "reason", "silent", "ack",
                  "trees"}
    /\ current_mcycle \in Word /\ processed \in Seq(Skips \cup {"accepted"})
    /\ vouchers_tree \in Seq({"zero", "hashes"})
    /\ notices_tree \in Seq({"zero", "hashes"})
    /\ cycle \in Word /\ max_mcycle \in Word /\ limit \in Word
    /\ elapsed \in 0..MaxElapsed /\ odd \in BOOLEAN /\ length \in Word
    /\ vouchers \in Seq(Nat) /\ notices \in Seq(Nat) /\ reports \in Seq(Nat)
    /\ status \in Skips \cup {"accepted"}
    /\ machine \in Machine /\ saved \in Machine

Init ==
    /\ at = "idle" /\ kind = "advance" /\ size = 0 /\ job = 0 /\ taint = "none"
    /\ current_mcycle \in FirstCycles /\ processed = <<>>
    /\ vouchers_tree = <<>> /\ notices_tree = <<>>
    /\ cycle = 0 /\ max_mcycle = 0 /\ limit = 0 /\ elapsed = 0 /\ odd = FALSE
    /\ length = 0
    /\ vouchers = <<>> /\ notices = <<>> /\ reports = <<>> /\ status = "accepted"
    /\ machine \in {FirstMachine(current_mcycle, b) : b \in BOOLEAN} /\ saved = machine

-----------------------------------------------------------------------------
(* Preparing the machine. *)

TooLong(n) == n + StringHeader > RxLength

\* CHECK_STATUS_OR_TAINT and the other exceptions that taint the session: the
\* request has no outcome, and no further request is accepted.
Taint(why) ==
    /\ at' = "tainted" /\ taint' = why
    /\ UNCHANGED <<request, epoch, run, length, outcome, saved>>

\* Any call may fail, or answer with the wrong number of bytes or the wrong hash.
CallFails ==
    /\ ~machine.honest
    /\ at \notin {"idle", "tainted"}
    /\ Taint("call")
    /\ UNCHANGED machine

\* A query too long for the rx buffer is answered without a snapshot; an input
\* is looked at after its snapshot.
Begin(k, n) ==
    /\ at = "idle" /\ job < MaxJobs
    /\ kind' = k /\ size' = n /\ job' = job + 1
    /\ vouchers' = <<>> /\ notices' = <<>> /\ reports' = <<>>
    /\ IF k = "inspect" /\ TooLong(n)
       THEN at' = "idle" /\ status' = "payload_length_limit_exceeded"
       ELSE at' = "snapshot" /\ status' = "accepted"
    /\ cycle' = current_mcycle
    /\ UNCHANGED <<epoch, taint, max_mcycle, limit, elapsed, odd, length, machine,
                   saved>>

SnapshotTaken ==
    /\ at = "snapshot"
    /\ saved' = machine
    /\ IF TooLong(size)
       THEN at' = "rollback" /\ status' = "payload_length_limit_exceeded"
       ELSE at' = "clear" /\ UNCHANGED status
    /\ UNCHANGED <<request, epoch, taint, run, length, vouchers, notices, reports,
                   machine>>

\* A call of the preparation was answered: the next one, and what it did.
Prepared(from, to, m) ==
    /\ at = from /\ at' = to
    /\ machine' = m
    /\ UNCHANGED <<request, epoch, taint, run, length, outcome, saved>>

\* clear_memory_ranges for an input, one call for each range, of which CallFails
\* may stop any; clear_rx_buffer for a query.
AllCleared == [machine EXCEPT !.rx = 0, !.metadata = 0,
                              !.voucher_hashes = NoHashes, !.notice_hashes = NoHashes]

\* Fault: the notice hashes are forgotten.
ClearedButNotices ==
    Prepared("clear", "write",
             IF kind = "advance"
             THEN [machine EXCEPT !.rx = 0, !.metadata = 0, !.voucher_hashes = NoHashes]
             ELSE [machine EXCEPT !.rx = 0])

RangesCleared ==
    Prepared("clear", "write", IF kind = "advance" THEN AllCleared
                                                   ELSE [machine EXCEPT !.rx = 0])

\* write_evm_abi_string of the payload.
PayloadWritten ==
    Prepared("write", IF kind = "advance" THEN "metadata" ELSE "reset",
             [machine EXCEPT !.rx = job])

MetadataWritten == Prepared("metadata", "reset", [machine EXCEPT !.metadata = job])

\* The machine may run again; what it yields from here on belongs to this request.
IflagsYReset ==
    Prepared("reset", "ack", [machine EXCEPT !.y = FALSE, !.emitted = <<>>])

-----------------------------------------------------------------------------
(* run_machine, and the loop around it. *)

\* The limit of the first increment of a call of run_machine.
FirstLimit(c, max) == Least(Add(c, Increment), max)

\* Fault: only the first increment respects the limit.
NextLimitUncapped(l, max) == Add(l, Increment)

\* The limit of a later increment.
NextLimit(l, max) == Least(Add(l, Increment), max)

\* Fault: the deadline itself is taken to be too late.
ExpiredAtOnce(t) == t >= Signed(MaxDeadline)

\* Fault: the deadline is never looked at.
ExpiredNever(t) == FALSE

\* Has max_deadline expired?  Time is a signed number of milliseconds.
Expired(t) == t > Signed(MaxDeadline)

\* ROLLUP_ADVANCE_STATE and ROLLUP_INSPECT_STATE.
RequestId == IF kind = "advance" THEN 0 ELSE 1

\* check_htif_yield_ack_data for an input: fromhost has to be the answer to a
\* manual yield with the id of an advance request.  set_htif_yield_ack_data for
\* a query: the same without the id, and then a call that writes the id of an
\* inspect request to it.
AckRefused ==
    /\ at = "ack"
    /\ ~machine.manual \/ (kind = "advance" /\ machine.ack # RequestId)
    /\ Taint("ack")
    /\ UNCHANGED machine

\* Fault: fromhost is not written for a query.
AckReadyUnset ==
    /\ at = "ack"
    /\ machine.manual /\ (kind = "advance" => machine.ack = RequestId)
    /\ max_mcycle' = Add(current_mcycle, MaxCycles)
    /\ limit' = FirstLimit(current_mcycle, max_mcycle')
    /\ elapsed' = 0 /\ odd' = FALSE
    /\ at' = "run"
    /\ UNCHANGED <<request, epoch, taint, cycle, length, outcome, machine, saved>>

AckReady ==
    /\ at = "ack"
    /\ machine.manual /\ (kind = "advance" => machine.ack = RequestId)
    /\ machine' = [machine EXCEPT !.ack = RequestId]
    /\ max_mcycle' = Add(current_mcycle, MaxCycles)
    /\ limit' = FirstLimit(current_mcycle, max_mcycle')
    /\ elapsed' = 0 /\ odd' = FALSE
    /\ at' = "run"
    /\ UNCHANGED <<request, epoch, taint, cycle, length, outcome, saved>>

\* Fault: run_machine returns at the limit of an increment.
ReturnsAtLimit(m) == m.y \/ m.x \/ m.h \/ m.mcycle >= limit

\* Does run_machine return on this answer?
Returns(m) == m.y \/ m.x \/ m.h \/ m.mcycle >= max_mcycle

\* An increment was answered: the machine it left, and the time it took.
Increments(m) ==
    /\ at = "run"
    /\ machine' = m
    /\ \E t \in Ticks : elapsed' = Least(elapsed + t, MaxElapsed)
    /\ UNCHANGED <<request, epoch, max_mcycle, length, saved>>

\* Neither a yield nor a limit: the next increment.
RunGoesOn ==
    \E m \in Ran(machine, limit) :
        /\ Increments(m)
        /\ ~Returns(m) /\ ~Expired(elapsed')
        /\ limit' = NextLimit(limit, max_mcycle) /\ odd' = ~odd
        /\ UNCHANGED <<at, taint, cycle, outcome>>

TreesConsistent == Len(vouchers_tree) = Len(processed)
                   /\ Len(notices_tree) = Len(processed)

\* The loop is left with an outcome: an accepted input is proved, anything else
\* is rolled back.
Leave(s) ==
    /\ status' = s
    /\ IF kind = "advance" /\ ~TreesConsistent
       THEN at' = "tainted" /\ taint' = "trees"
       ELSE /\ at' = IF kind = "advance" /\ s = "accepted" THEN "voucher_proof"
                                                           ELSE "rollback"
            /\ UNCHANGED taint

\* The outcome that ends the loop at once, if any, in the order of the code.
EndOfRun(m) ==
    IF ~Returns(m) THEN IF Expired(elapsed') THEN "time_limit_exceeded" ELSE "none"
    ELSE IF m.mcycle >= max_mcycle THEN "cycle_limit_exceeded"
    ELSE IF m.h THEN "machine_halted"
    ELSE IF m.y /\ m.reason = "rx_rejected" THEN "rejected"
    ELSE IF m.y /\ m.reason = "rx_accepted" THEN "accepted"
    ELSE "none"

\* An input that is accepted takes the cycle of the machine with it.
RunEnds ==
    \E m \in Ran(machine, limit) :
        /\ Increments(m)
        /\ EndOfRun(m) # "none"
        /\ Leave(EndOfRun(m))
        /\ cycle' = IF kind = "advance" /\ EndOfRun(m) = "accepted" THEN m.mcycle ELSE cycle
        /\ UNCHANGED <<limit, odd, vouchers, notices, reports>>

\* The reasons for which the loop reads the tx buffer.
IsRead(m) ==
    \/ m.y /\ m.reason = "tx_exception"
    \/ ~m.y /\ m.x /\ m.reason \in (IF kind = "advance" THEN Outputs ELSE {"report"})

RunHasOutput ==
    \E m \in Ran(machine, limit) :
        /\ Increments(m)
        /\ Returns(m) /\ EndOfRun(m) = "none" /\ IsRead(m)
        /\ at' = "header"
        /\ UNCHANGED <<taint, cycle, limit, odd, outcome>>

\* run_machine is called again from the cycle the machine has got to.
RunAgain(m) ==
    /\ cycle' = m.mcycle /\ limit' = FirstLimit(m.mcycle, max_mcycle)
    /\ odd' = FALSE

\* An automatic yield for another reason is ignored.
RunIgnoresYield ==
    \E m \in Ran(machine, limit) :
        /\ Increments(m)
        /\ Returns(m) /\ EndOfRun(m) = "none" /\ ~IsRead(m) /\ ~m.y /\ m.x
        /\ RunAgain(m)
        /\ UNCHANGED <<at, taint, outcome>>

\* A manual yield for an unknown reason, or no yield at all.
RunMakesNoSense ==
    \E m \in Ran(machine, limit) :
        /\ Increments(m)
        /\ Returns(m) /\ EndOfRun(m) = "none" /\ ~IsRead(m) /\ (m.y \/ ~m.x)
        /\ at' = "tainted" /\ taint' = (IF m.y THEN "reason" ELSE "silent")
        /\ UNCHANGED <<cycle, limit, odd, outcome>>

-----------------------------------------------------------------------------
(* Reading the tx buffer: the header, then as many bytes as it says. *)

\* get_payload_length, and the bounds check before the payload is read.
Fits(n) == n <= WordMax /\ n <= Sub(TxLength, HeaderOf(machine.reason))

HeaderRead ==
    /\ at = "header"
    /\ Fits(machine.tx)
    /\ length' = machine.tx /\ at' = "payload"
    /\ UNCHANGED <<request, epoch, taint, run, outcome, machine, saved>>

LengthRefused ==
    /\ at = "header"
    /\ ~Fits(machine.tx)
    /\ Taint("length")
    /\ UNCHANGED machine

\* The exception of a manual yield ends the loop.
ExceptionRead ==
    /\ at = "payload" /\ machine.y
    /\ Leave("exception")
    /\ UNCHANGED <<request, epoch, run, length, vouchers, notices, reports,
                   machine, saved>>

\* A list with the newest automatic yield added, if it was for that reason.  A
\* yield is named after its place among the yields of the request.
Extended(list, r) ==
    IF machine.reason = r THEN Append(list, Len(machine.emitted)) ELSE list

\* Fault: notices are kept with the vouchers.
PayloadReadMixedUp ==
    /\ at = "payload" /\ ~machine.y
    /\ vouchers' = Extended(Extended(vouchers, "voucher"), "notice")
    /\ reports' = Extended(reports, "report")
    /\ RunAgain(machine)
    /\ at' = "run"
    /\ UNCHANGED <<request, epoch, taint, max_mcycle, elapsed, length, status,
                   notices, machine, saved>>

\* read_voucher, read_notice and read_report: kept, and the machine goes on.
PayloadRead ==
    /\ at = "payload" /\ ~machine.y
    /\ vouchers' = Extended(vouchers, "voucher")
    /\ notices' = Extended(notices, "notice")
    /\ reports' = Extended(reports, "report")
    /\ RunAgain(machine)
    /\ at' = "run"
    /\ UNCHANGED <<request, epoch, taint, max_mcycle, elapsed, length, status,
                   machine, saved>>

-----------------------------------------------------------------------------
(* Recording the outcome. *)

\* count_null_terminated_entries: the entries before the first null one.
CountEntries(hashes) == Cardinality({i \in Slots : \A j \in 0..i : hashes[j]})

\* get_proof for a hashes memory range, whose hash becomes the leaf of the input.
VouchersProved ==
    /\ at = "voucher_proof" /\ at' = "voucher_hashes"
    /\ vouchers_tree' = Append(vouchers_tree, "hashes")
    /\ UNCHANGED <<request, current_mcycle, processed, notices_tree, taint, run,
                   length, outcome, machine, saved>>

NoticesProved ==
    /\ at = "notice_proof" /\ at' = "notice_hashes"
    /\ notices_tree' = Append(notices_tree, "hashes")
    /\ UNCHANGED <<request, current_mcycle, processed, vouchers_tree, taint, run,
                   length, outcome, machine, saved>>

\* The hashes memory range was read: as many hashes as there were yields, each of
\* which is proved in turn.
Counted(from, to, hashes, list) ==
    /\ at = from /\ at' = to
    /\ CountEntries(hashes) = Len(list)
    /\ UNCHANGED <<request, epoch, taint, run, length, outcome, machine, saved>>

Miscounted(from, hashes, list) ==
    /\ at = from
    /\ CountEntries(hashes) # Len(list)
    /\ Taint("count")
    /\ UNCHANGED machine

VouchersCounted ==
    Counted("voucher_hashes", "notice_proof", machine.voucher_hashes, vouchers)
VouchersMiscounted ==
    Miscounted("voucher_hashes", machine.voucher_hashes, vouchers)
NoticesCounted ==
    Counted("notice_hashes", "root_hash", machine.notice_hashes, notices)
NoticesMiscounted ==
    Miscounted("notice_hashes", machine.notice_hashes, notices)

\* Fault: session.current_mcycle is left alone.
AcceptedInPlace ==
    /\ at = "root_hash" /\ at' = "idle"
    /\ processed' = Append(processed, status)
    /\ UNCHANGED <<request, current_mcycle, vouchers_tree, notices_tree, taint, run,
                   length, outcome, machine, saved>>

\* get_root_hash, and the accepted input is recorded.
InputAccepted ==
    /\ at = "root_hash" /\ at' = "idle"
    /\ processed' = Append(processed, status)
    /\ current_mcycle' = cycle
    /\ UNCHANGED <<request, vouchers_tree, notices_tree, taint, run, length, outcome,
                   machine, saved>>

\* A query is answered once it is rolled back; an input gets null leaves first.
RolledBack ==
    /\ at = "rollback"
    /\ machine' = saved
    /\ IF kind = "inspect"
       THEN at' = "idle" /\ UNCHANGED <<vouchers_tree, notices_tree>>
       ELSE /\ at' = "rolled_back"
            /\ vouchers_tree' = Append(vouchers_tree, "zero")
            /\ notices_tree' = Append(notices_tree, "zero")
    /\ UNCHANGED <<request, current_mcycle, processed, taint, run, length, outcome,
                   saved>>

\* The root hash is the one from before, and the skipped input is recorded.
InputSkipped ==
    /\ at = "rolled_back" /\ at' = "idle"
    /\ processed' = Append(processed, status)
    /\ UNCHANGED <<request, current_mcycle, vouchers_tree, notices_tree, taint, run,
                   length, outcome, machine, saved>>

-----------------------------------------------------------------------------
Prepare == SnapshotTaken \/ RangesCleared \/ PayloadWritten \/ MetadataWritten
           \/ IflagsYReset \/ AckRefused \/ AckReady
RunMachine == RunGoesOn \/ RunEnds \/ RunHasOutput \/ RunIgnoresYield
              \/ RunMakesNoSense
ReadTx == HeaderRead \/ LengthRefused \/ ExceptionRead \/ PayloadRead
Record == VouchersProved \/ VouchersCounted \/ VouchersMiscounted \/ NoticesProved
          \/ NoticesCounted \/ NoticesMiscounted \/ InputAccepted \/ RolledBack
          \/ InputSkipped

Step == Prepare \/ RunMachine \/ ReadTx \/ Record \/ CallFails

Next == Step \/ \E k \in {"advance", "inspect"}, n \in PayloadSizes : Begin(k, n)

Spec == Init /\ [][Next]_vars

\* Every call has a deadline, so it is answered or fails.
FairSpec == Spec /\ WF_vars(Step)

-----------------------------------------------------------------------------
(* Properties. *)

\* Whatever the machine yields, and however often run_machine starts over after a
\* yield, no request makes the machine run for more than its cycles, and none is
\* given up for them before the machine has run for all of them, unless their sum
\* with the cycle of the session wraps around (max_mcycle and the two limits of
\* run_machine).
CyclesKept ==
    current_mcycle + MaxCycles <= WordMax =>
        /\ machine.mcycle <= current_mcycle + MaxCycles
        /\ at = "rollback" /\ status = "cycle_limit_exceeded"
            => machine.mcycle = current_mcycle + MaxCycles

\* A request is given up for its time only after its deadline, and the machine is
\* run on after the deadline only if the last increment ended in an automatic
\* yield, after which run_machine returns before it looks at the time.  All this as
\* long as the deadline is not negative as a signed number.
DeadlineKept ==
    2 * MaxDeadline <= WordMax =>
        /\ at = "rollback" /\ status = "time_limit_exceeded" => elapsed > MaxDeadline
        /\ at = "run" /\ elapsed > MaxDeadline => machine.x

\* Between two requests, machine and session agree.  The machine is at the cycle the
\* session believes and at the manual yield of an accepted input: accepting moves
\* both, skipping neither (current_mcycle is assigned for accepted inputs only,
\* rollback undoes the rest).  And the leaves of both trees of the epoch say of every
\* processed input whether it was accepted, though a leaf is pushed calls before the
\* input is recorded.
RecordsAgree ==
    TypeOK /\ (at = "idle" =>
        /\ machine.mcycle = current_mcycle
        /\ machine.y /\ machine.reason = "rx_accepted"
        /\ \A tree \in {vouchers_tree, notices_tree} :
            /\ Len(tree) = Len(processed)
            /\ \A i \in DOMAIN tree : tree[i] = "hashes" <=> processed[i] = "accepted")

\* How many yields have been taken in: all but the one that is being read.
TakenIn == Len(machine.emitted)
           - (IF at \in {"header", "payload"} /\ machine.x THEN 1 ELSE 0)

\* The list holds the places, among the yields of the request, of those for one
\* reason that have been taken in: each once, and in order.
Lists(list, r) ==
    /\ {list[i] : i \in DOMAIN list} = {i \in 1..TakenIn : machine.emitted[i] = r}
    /\ \A i, j \in DOMAIN list : i < j => list[i] < list[j]

\* Every voucher, notice and report the machine yields is kept once, in the order
\* of the yields, and nothing else is, through however many increments and reads
\* the run takes; of a query only the reports are.  What is read of the tx buffer
\* lies inside it, provided a header does.
OutputsFaithful ==
    /\ at = "payload" /\ HeaderOf(machine.reason) <= TxLength
        => HeaderOf(machine.reason) + length <= TxLength
    /\ at \in {"run", "header", "payload", "voucher_proof", "voucher_hashes",
              "notice_proof", "notice_hashes", "root_hash"}
        => /\ Lists(reports, "report")
           /\ IF kind = "advance" THEN Lists(vouchers, "voucher") /\ Lists(notices, "notice")
                                  ELSE vouchers = <<>> /\ notices = <<>>

\* The machine runs on the payload and the metadata of the request in hand and
\* knows whether it is an input or a query, whatever the request before it was.
RightRequest ==
    at = "run" => /\ machine.rx = job /\ machine.ack = RequestId
                  /\ kind = "advance" => machine.metadata = job

\* A machine that does what it should never has its session tainted, whatever
\* inputs and queries were accepted, skipped or answered before: no hash, flag or
\* acknowledgement of one request is mistaken for one of the next.
HonestNotTainted == machine.honest => taint = "none"

\* run_machine never returns an answer that is neither a yield, a halt nor a
\* limit, and the trees are never found inconsistent: the tests for them are there
\* for peace of mind.
NoSilentReturn == taint \notin {"silent", "trees"}

\* Every request comes to an outcome or taints the session.
JobsEnd == at # "idle" ~> at \in {"idle", "tainted"}
=============================================================================
