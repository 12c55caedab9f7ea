-------------------------- MODULE MachineRunProofs --------------------------
(***************************************************************************)
(* For any lengths, cycles, deadlines and any number of requests, on a     *)
(* machine that may do anything: what MachineRun promises of every state.  *)
(*                                                                         *)
(* The properties speak of the moments at which something is decided; IInv *)
(* says what is so on the way there: in what state machine and snapshot are*)
(* at each call (MachineInPlace), whose request has been written to it     *)
(* (RequestInPlace), that the limits of the run are those of the request   *)
(* (LimitsInPlace), which trees have the leaf of the input in hand         *)
(* (TreesInPlace), and what has been kept of the yields so far             *)
(* (OutputsInPlace).  HonestInPlace follows an honest machine from the     *)
(* clearing of its memory ranges on: its hashes are as many as its yields  *)
(* and what has been kept is as much as it emitted, so that the counts at  *)
(* the end cannot disagree.                                                *)
(***************************************************************************)
EXTENDS MachineRun, FiniteSetTheorems, TLAPS

-----------------------------------------------------------------------------
(* The machine and the arithmetic. *)

\* Numbers stay words, and sums that fit are what they seem.
LEMMA WordArithmetic ==
    /\ \A a, b \in Word : Add(a, b) \in Word /\ (a + b <= WordMax => Add(a, b) = a + b)
    /\ \A a, b \in Word : Sub(a, b) \in Word /\ (b <= a => Sub(a, b) = a - b)
<1> USE MachineRunAssumption
<1>1. \A x \in Int : x % (WordMax + 1) \in 0..WordMax
  OBVIOUS
<1>2. \A x \in 0..WordMax : x % (WordMax + 1) = x
  OBVIOUS
<1> QED BY <1>1, <1>2 DEF Word, Add, Sub

\* A machine that has not yielded manually ran, and did not yield.
RanQuietly(m, r) ==
    /\ ~r.y /\ ~r.x
    /\ r.manual = m.manual /\ r.ack = m.ack /\ r.emitted = m.emitted
    /\ r.voucher_hashes = m.voucher_hashes /\ r.notice_hashes = m.notice_hashes

\* It ran to a manual yield.
RanToManual(m, r) ==
    /\ r.y /\ ~r.x /\ r.emitted = m.emitted
    /\ r.voucher_hashes = m.voucher_hashes /\ r.notice_hashes = m.notice_hashes
    /\ m.honest => /\ r.reason \in {"rx_accepted", "rx_rejected", "tx_exception"}
                   /\ r.reason # "tx_exception" => r.manual /\ r.ack = 0
                   /\ r.reason = "tx_exception" => HeaderOf(r.reason) + r.tx <= TxLength

\* It ran to an automatic yield.
RanToAutomatic(m, r) ==
    /\ ~r.y /\ r.x /\ r.manual = m.manual /\ r.ack = m.ack
    /\ r.reason \in Outputs \cup {"other"} /\ r.emitted = Append(m.emitted, r.reason)
    /\ m.honest /\ r.reason # "other" => HeaderOf(r.reason) + r.tx <= TxLength
    /\ IF r.reason = "voucher"
       THEN r.voucher_hashes \in WithHash(m, m.voucher_hashes, Count(m, "voucher"))
       ELSE r.voucher_hashes = m.voucher_hashes
    /\ IF r.reason = "notice"
       THEN r.notice_hashes \in WithHash(m, m.notice_hashes, Count(m, "notice"))
       ELSE r.notice_hashes = m.notice_hashes

\* What a call of Run leaves of a machine that has not yielded manually, in terms
\* of the fields that the manager looks at.
LEMMA RanShape ==
    ASSUME NEW m \in Machine, ~m.y, NEW l \in Word, NEW r \in Ran(m, l)
    PROVE  /\ r \in Machine
           /\ r.honest = m.honest /\ r.rx = m.rx /\ r.metadata = m.metadata
           /\ r.mcycle = m.mcycle \/ r.mcycle <= l
           /\ RanQuietly(m, r) \/ RanToManual(m, r) \/ RanToAutomatic(m, r)
<1> USE MachineRunAssumption
<1> DEFINE Shape(q) ==
           /\ q \in Machine
           /\ q.honest = m.honest /\ q.rx = m.rx /\ q.metadata = m.metadata
           /\ q.mcycle = m.mcycle \/ q.mcycle <= l
           /\ RanQuietly(m, q) \/ RanToManual(m, q) \/ RanToAutomatic(m, q)
<1>1. \A c \in Word : /\ StoppedAt(m, c) \in Machine
                      /\ StoppedAt(m, c).mcycle = c /\ RanQuietly(m, StoppedAt(m, c))
  BY DEF StoppedAt, Machine, RanQuietly
<1>2. \A c \in Word : c = m.mcycle \/ c <= l => Shape(StoppedAt(m, c))
  BY DEF StoppedAt, Machine, RanQuietly
<1>3. \A c \in Word : c <= l => Shape(Halted(m, c))
  BY DEF StoppedAt, Halted, Machine, RanQuietly
<1>4. ASSUME NEW c \in Word, c <= l, NEW q \in YieldedManually(m, c) PROVE Shape(q)
  <2>1. CASE \E a \in AnswerReasons(m), f \in Acks(m) : q = Answered(m, c, a, f)
    BY <1>4, <2>1 DEF Answered, AnswerReasons, Acks, StoppedAt, Machine, RanToManual, Reasons
  <2>2. CASE \E n \in LengthsFor(m, "tx_exception") : q = Excepted(m, c, n)
    BY <1>4, <2>2 DEF Excepted, StoppedAt, Machine, RanToManual, LengthsFor, Reasons
  <2>3. \/ \E a \in AnswerReasons(m), f \in Acks(m) : q = Answered(m, c, a, f)
        \/ \E n \in LengthsFor(m, "tx_exception") : q = Excepted(m, c, n)
    <3> HIDE DEF Shape
    <3> QED BY DEF YieldedManually
  <2> QED BY <2>1, <2>2, <2>3
<1>5. ASSUME NEW c \in Word, c <= l, NEW q \in YieldedAutomatically(m, c) PROVE Shape(q)
  <2>1. ASSUME NEW n \in Lengths \cup {0}, NEW a \in Reasons
        PROVE  LET e == Emitted(m, c, a, n)
               IN  /\ e \in Machine
                   /\ e.honest = m.honest /\ e.rx = m.rx /\ e.metadata = m.metadata
                   /\ e.mcycle = c /\ ~e.y /\ e.x /\ e.manual = m.manual /\ e.ack = m.ack
                   /\ e.reason = a /\ e.tx = n /\ e.emitted = Append(m.emitted, a)
                   /\ e.voucher_hashes = m.voucher_hashes
                   /\ e.notice_hashes = m.notice_hashes
    <3>1. m.emitted \in Seq(Reasons)
      BY DEF Machine
    <3>2. Append(m.emitted, a) \in Seq(Reasons)
      BY <3>1
    <3> QED
      BY <3>2, <1>1 DEF StoppedAt, Emitted, Machine
  <2>2. \A h \in [Slots -> BOOLEAN] : \A n : WithHash(m, h, n) \subseteq [Slots -> BOOLEAN]
    BY DEF WithHash
  <2>3. \A n : /\ WithHash(m, m.voucher_hashes, n) \subseteq [Slots -> BOOLEAN]
              /\ WithHash(m, m.notice_hashes, n) \subseteq [Slots -> BOOLEAN]
    BY <2>2 DEF Machine
  <2>4. CASE \E n \in LengthsFor(m, "voucher"),
                w \in WithHash(m, m.voucher_hashes, Count(m, "voucher")) :
                    q = [Emitted(m, c, "voucher", n) EXCEPT !.voucher_hashes = w]
    <3> PICK n \in LengthsFor(m, "voucher"),
             w \in WithHash(m, m.voucher_hashes, Count(m, "voucher")) :
                    q = [Emitted(m, c, "voucher", n) EXCEPT !.voucher_hashes = w]
      BY <2>4
    <3> DEFINE e == Emitted(m, c, "voucher", n)
    <3>1. n \in Lengths /\ (m.honest => HeaderOf("voucher") + n <= TxLength)
          /\ w \in [Slots -> BOOLEAN] /\ "voucher" \in Reasons /\ "voucher" \in Outputs
      BY <2>3 DEF LengthsFor, Outputs, Reasons
    <3>2. /\ e \in Machine
          /\ e.honest = m.honest /\ e.rx = m.rx /\ e.metadata = m.metadata
          /\ e.mcycle = c /\ ~e.y /\ e.x /\ e.manual = m.manual /\ e.ack = m.ack
          /\ e.reason = "voucher" /\ e.tx = n /\ e.emitted = Append(m.emitted, "voucher")
          /\ e.voucher_hashes = m.voucher_hashes /\ e.notice_hashes = m.notice_hashes
      BY <2>1, <3>1
    <3>3. q = [e EXCEPT !.voucher_hashes = w]
      OBVIOUS
    <3> HIDE DEF e
    <3>4. q \in Machine /\ q.honest = e.honest /\ q.rx = e.rx /\ q.metadata = e.metadata
          /\ q.mcycle = e.mcycle /\ q.y = e.y /\ q.x = e.x /\ q.manual = e.manual
          /\ q.ack = e.ack /\ q.reason = e.reason /\ q.tx = e.tx /\ q.emitted = e.emitted
          /\ q.voucher_hashes = w /\ q.notice_hashes = e.notice_hashes
      BY <3>1, <3>2, <3>3 DEF Machine
    <3> QED
      BY <1>5, <3>1, <3>2, <3>4 DEF RanToAutomatic
  <2>5. CASE \E n \in LengthsFor(m, "notice"),
                w \in WithHash(m, m.notice_hashes, Count(m, "notice")) :
                    q = [Emitted(m, c, "notice", n) EXCEPT !.notice_hashes = w]
    <3> PICK n \in LengthsFor(m, "notice"),
             w \in WithHash(m, m.notice_hashes, Count(m, "notice")) :
                    q = [Emitted(m, c, "notice", n) EXCEPT !.notice_hashes = w]
      BY <2>5
    <3> DEFINE e == Emitted(m, c, "notice", n)
    <3>1. n \in Lengths /\ (m.honest => HeaderOf("notice") + n <= TxLength)
          /\ w \in [Slots -> BOOLEAN] /\ "notice" \in Reasons /\ "notice" \in Outputs
      BY <2>3 DEF LengthsFor, Outputs, Reasons
    <3>2. /\ e \in Machine
          /\ e.honest = m.honest /\ e.rx = m.rx /\ e.metadata = m.metadata
          /\ e.mcycle = c /\ ~e.y /\ e.x /\ e.manual = m.manual /\ e.ack = m.ack
          /\ e.reason = "notice" /\ e.tx = n /\ e.emitted = Append(m.emitted, "notice")
          /\ e.voucher_hashes = m.voucher_hashes /\ e.notice_hashes = m.notice_hashes
      BY <2>1, <3>1
    <3>3. q = [e EXCEPT !.notice_hashes = w]
      OBVIOUS
    <3> HIDE DEF e
    <3>4. q \in Machine /\ q.honest = e.honest /\ q.rx = e.rx /\ q.metadata = e.metadata
          /\ q.mcycle = e.mcycle /\ q.y = e.y /\ q.x = e.x /\ q.manual = e.manual
          /\ q.ack = e.ack /\ q.reason = e.reason /\ q.tx = e.tx /\ q.emitted = e.emitted
          /\ q.voucher_hashes = e.voucher_hashes /\ q.notice_hashes = w
      BY <3>1, <3>2, <3>3 DEF Machine
    <3> QED
      BY <1>5, <3>1, <3>2, <3>4 DEF RanToAutomatic
  <2>6. CASE \E n \in LengthsFor(m, "report") : q = Emitted(m, c, "report", n)
    <3> PICK n \in LengthsFor(m, "report") : q = Emitted(m, c, "report", n)
      BY <2>6
    <3>1. n \in Lengths /\ (m.honest => HeaderOf("report") + n <= TxLength)
          /\ "report" \in Reasons /\ "report" \in Outputs
      BY DEF LengthsFor, Outputs, Reasons
    <3> QED
      BY <1>5, <2>1, <3>1 DEF RanToAutomatic
  <2>7. CASE q = Emitted(m, c, "other", 0)
    <3>1. "other" \in Reasons /\ 0 \in Lengths \cup {0}
      BY DEF Reasons
    <3> QED
      BY <1>5, <2>1, <2>7, <3>1 DEF RanToAutomatic
  <2> QED BY <1>5, <2>4, <2>5, <2>6, <2>7 DEF YieldedAutomatically
<1>6. m.mcycle \in Word
  BY DEF Machine
<1>7. CASE r \in {StoppedAt(m, m.mcycle), StoppedAt(m, l)}
  BY <1>2, <1>6, <1>7 DEF Word
<1>8. CASE \E c \in (m.mcycle + 1)..l :
             r \in YieldedManually(m, c) \cup YieldedAutomatically(m, c) \cup {Halted(m, c)}
  <2> PICK c \in (m.mcycle + 1)..l :
             r \in YieldedManually(m, c) \cup YieldedAutomatically(m, c) \cup {Halted(m, c)}
    BY <1>8
  <2> c \in Word /\ c <= l
    BY <1>6 DEF Word
  <2> QED BY <1>3, <1>4, <1>5
<1>9. \/ r \in {StoppedAt(m, m.mcycle), StoppedAt(m, l)}
      \/ \E c \in (m.mcycle + 1)..l :
             r \in YieldedManually(m, c) \cup YieldedAutomatically(m, c) \cup {Halted(m, c)}
  <2> HIDE DEF Shape
  <2>1. r = StoppedAt(m, m.mcycle)
        \/ r \in {StoppedAt(m, l)} \cup Stopped(m, l) \cup Stalled(m)
    BY DEF Ran
  <2>2. r \in Stalled(m) => r = StoppedAt(m, m.mcycle)
    BY DEF Stalled
  <2>3. r \in Stopped(m, l) => \E c \in (m.mcycle + 1)..l :
             r \in YieldedManually(m, c) \cup YieldedAutomatically(m, c) \cup {Halted(m, c)}
    BY DEF Stopped
  <2> QED BY <2>1, <2>2, <2>3
<1> QED BY <1>7, <1>8, <1>9

-----------------------------------------------------------------------------
(* The invariant. *)

Preparing == {"clear", "write", "metadata", "reset", "ack"}
Reading == {"header", "payload"}
Proving == {"voucher_proof", "voucher_hashes", "notice_proof", "notice_hashes",
            "root_hash"}

\* A machine that waits for a request.
Ready(m) ==
    /\ m.mcycle = current_mcycle /\ m.y /\ ~m.x /\ m.reason = "rx_accepted"
    /\ m.honest => m.manual /\ m.ack = 0

\* Where the machine is at each call of the handler.  Until the outcome is
\* recorded, the snapshot is a machine that waits for this request.
MachineInPlace ==
    /\ saved.honest = machine.honest
    /\ at \in {"idle", "snapshot", "rolled_back"} => Ready(machine)
    /\ at \in Preparing \cup Reading \cup {"run", "rollback"} => Ready(saved)
    /\ at \in Preparing => /\ machine.mcycle = current_mcycle
                           /\ machine.honest => machine.manual /\ machine.ack = 0
    /\ at \in {"ack", "run"} => ~machine.y
    /\ at \in Reading => IsRead(machine) /\ ~(machine.y /\ machine.x)
    /\ at \in Proving => /\ kind = "advance" /\ status = "accepted"
                         /\ cycle = machine.mcycle /\ machine.y /\ ~machine.x
                         /\ machine.reason = "rx_accepted"
                         /\ machine.honest => machine.manual /\ machine.ack = 0
    /\ at = "rolled_back" => kind = "advance"

\* The machine goes on after this yield has been read.
GoesOn == at \in Reading /\ ~machine.y

\* What has been written to the machine is the request in hand.
RequestInPlace ==
    /\ at \in {"metadata", "reset", "ack", "run"} \/ GoesOn => machine.rx = job
    /\ at \in {"reset", "ack", "run"} \/ GoesOn
        => (kind = "advance" => machine.metadata = job)
    /\ at = "run" \/ GoesOn => machine.ack = RequestId

\* The limits of the run are those of the request.
LimitsInPlace ==
    current_mcycle + MaxCycles <= WordMax =>
        /\ machine.mcycle <= current_mcycle + MaxCycles
        /\ at \in Reading \cup {"run"} =>
            max_mcycle = current_mcycle + MaxCycles /\ limit <= max_mcycle

\* A tree says of every processed input whether it was accepted, and may have the
\* leaf of the input in hand already.
TreeAgrees(tree, more, leaf) ==
    /\ Len(tree) = Len(processed) + (IF more THEN 1 ELSE 0)
    /\ more => tree[Len(tree)] = leaf
    /\ \A i \in 1..Len(processed) : tree[i] = "hashes" <=> processed[i] = "accepted"

TreesInPlace ==
    /\ at # "tainted" =>
        /\ TreeAgrees(vouchers_tree,
                      at \in {"voucher_hashes", "notice_proof", "notice_hashes",
                              "root_hash", "rolled_back"},
                      IF at = "rolled_back" THEN "zero" ELSE "hashes")
        /\ TreeAgrees(notices_tree,
                      at \in {"notice_hashes", "root_hash", "rolled_back"},
                      IF at = "rolled_back" THEN "zero" ELSE "hashes")
    /\ at \in {"rollback", "rolled_back"} /\ kind = "advance" => status # "accepted"

\* Nothing has been kept before the machine runs, and what is being read is the
\* newest yield.
OutputsInPlace ==
    /\ at \in Preparing \cup {"snapshot"} =>
        vouchers = <<>> /\ notices = <<>> /\ reports = <<>>
    /\ at = "ack" => machine.emitted = <<>>
    /\ at \in Reading /\ machine.x =>
        /\ Len(machine.emitted) > 0
        /\ machine.emitted[Len(machine.emitted)] = machine.reason

\* The hashes memory range of an honest machine.
Filled(hashes, n) ==
    /\ n <= HashSlots /\ hashes \in [Slots -> BOOLEAN]
    /\ \A i \in Slots : hashes[i] <=> i < n

\* As many outputs as there were yields, but for the one that is being read.
AllKept(list, r) ==
    Len(list) + (IF at \in Reading /\ machine.x /\ machine.reason = r THEN 1 ELSE 0)
        = Count(machine, r)

\* An honest machine gives no reason to taint the session.
HonestInPlace ==
    machine.honest =>
        /\ taint = "none"
        /\ at = "header" => HeaderOf(machine.reason) + machine.tx <= TxLength
        /\ kind = "advance" /\ at \in Preparing \ {"clear"} =>
            machine.voucher_hashes = NoHashes /\ machine.notice_hashes = NoHashes
        /\ kind = "advance" /\ at \in Reading \cup Proving \cup {"run"} =>
            /\ Filled(machine.voucher_hashes, Count(machine, "voucher"))
            /\ Filled(machine.notice_hashes, Count(machine, "notice"))
            /\ AllKept(vouchers, "voucher") /\ AllKept(notices, "notice")

IInv ==
    /\ TypeOK /\ MachineInPlace /\ RequestInPlace /\ LimitsInPlace /\ CyclesKept
    /\ DeadlineKept /\ TreesInPlace /\ OutputsInPlace /\ OutputsFaithful /\ HonestInPlace
    /\ NoSilentReturn

\* What an increment leaves in the machine.
LEMMA IncrementShape ==
    ASSUME TypeOK, MachineInPlace, NEW m \in Ran(machine, limit), Increments(m)
    PROVE  /\ at = "run" /\ machine' = m /\ m \in Machine /\ elapsed' \in 0..MaxElapsed
           /\ m.honest = machine.honest /\ m.rx = machine.rx
           /\ m.metadata = machine.metadata
           /\ m.mcycle = machine.mcycle \/ m.mcycle <= limit
           /\ \/ RanQuietly(machine, m) \/ RanToManual(machine, m)
              \/ RanToAutomatic(machine, m)
<1>1. machine \in Machine /\ limit \in Word /\ ~machine.y
  BY DEF Increments, TypeOK, MachineInPlace
<1>2. elapsed' \in 0..MaxElapsed
  BY MachineRunAssumption DEF Increments, Least, TypeOK
<1> QED
  BY <1>1, <1>2, RanShape DEF Increments

\* A call that fails, and an answer that makes no sense, change no more than this.
LEMMA TaintSteps ==
    ASSUME CallFails \/ AckRefused \/ LengthRefused \/ VouchersMiscounted
           \/ NoticesMiscounted
    PROVE  \E why \in {"call", "ack", "length", "count"} :
               Taint(why) /\ UNCHANGED machine
  BY DEF CallFails, AckRefused, LengthRefused, VouchersMiscounted, NoticesMiscounted,
         Miscounted

\* The limits of an increment: words, and never above the limit of the run.
LEMMA Limits ==
    \A a, l \in Word : /\ FirstLimit(a, l) \in Word /\ FirstLimit(a, l) <= l
                       /\ NextLimit(a, l) \in Word /\ NextLimit(a, l) <= l
<1>1. Increment \in Word
  BY MachineRunAssumption DEF Word
<1>2. \A a \in Word : Add(a, Increment) \in Word
  BY <1>1, WordArithmetic
<1> QED
  BY <1>2, MachineRunAssumption DEF FirstLimit, NextLimit, Least, Word

Leaves == {"zero", "hashes"}

\* A tree with one more leaf.
LEMMA LeafAdded ==
    ASSUME NEW tree \in Seq(Leaves), NEW leaf \in Leaves
    PROVE  /\ Append(tree, leaf) \in Seq(Leaves)
           /\ Len(Append(tree, leaf)) = Len(tree) + 1
           /\ Append(tree, leaf)[Len(tree) + 1] = leaf
           /\ \A i \in 1..Len(tree) : Append(tree, leaf)[i] = tree[i]
  OBVIOUS

\* Every step keeps the types.
LEMMA TypeStep == IInv /\ Next => TypeOK'
<1> SUFFICES ASSUME IInv, Next PROVE TypeOK'
  OBVIOUS
<1> USE MachineRunAssumption DEF request, epoch, run, outcome
<1> TypeOK /\ MachineInPlace
  BY DEF IInv
<1>1. CASE CallFails \/ AckRefused \/ LengthRefused \/ VouchersMiscounted
           \/ NoticesMiscounted
  BY <1>1, TaintSteps DEF Taint, TypeOK, Labels
<1>2. ASSUME NEW k \in {"advance", "inspect"}, NEW n \in PayloadSizes, Begin(k, n)
      PROVE  TypeOK'
  BY <1>2 DEF Begin, TypeOK, Labels, Skips
<1>3. CASE SnapshotTaken
  BY <1>3 DEF SnapshotTaken, TypeOK, Labels, Skips
<1>4. CASE RangesCleared \/ PayloadWritten \/ MetadataWritten \/ IflagsYReset
  <2>1. machine \in Machine /\ NoHashes \in [Slots -> BOOLEAN] /\ job \in 0..MaxJobs
        /\ 0 \in 0..MaxJobs /\ <<>> \in Seq(Reasons)
    BY DEF NoHashes, TypeOK
  <2>2. machine' \in Machine
    <3>1. CASE RangesCleared
      BY <2>1, <3>1 DEF RangesCleared, Prepared, AllCleared, Machine
    <3>2. CASE PayloadWritten \/ MetadataWritten
      BY <2>1, <3>2 DEF PayloadWritten, MetadataWritten, Prepared, Machine
    <3>3. CASE IflagsYReset
      BY <2>1, <3>3 DEF IflagsYReset, Prepared, Machine
    <3> QED BY <1>4, <3>1, <3>2, <3>3
  <2> QED
    BY <1>4, <2>2 DEF RangesCleared, PayloadWritten, MetadataWritten, IflagsYReset,
                      Prepared, TypeOK, Labels
<1>5. CASE AckReady
  <2>1. machine' \in Machine
    <3>1. machine \in Machine /\ RequestId \in {0, 1}
      BY DEF TypeOK, RequestId
    <3> QED BY <1>5, <3>1 DEF AckReady, Machine
  <2>2. max_mcycle' \in Word
    <3>1. MaxCycles \in Word
      BY DEF Word
    <3> QED BY <1>5, <3>1, WordArithmetic DEF AckReady, TypeOK
  <2>3. limit' \in Word
    BY <1>5, <2>2, Limits DEF AckReady, TypeOK
  <2>4. odd' \in BOOLEAN
    BY <1>5, Zenon DEF AckReady
  <2>5. elapsed' \in 0..MaxElapsed
    BY <1>5 DEF AckReady
  <2> QED
    BY <1>5, <2>1, <2>2, <2>3, <2>4, <2>5 DEF AckReady, TypeOK, Labels
<1>6. CASE RunMachine
  <2>2. PICK m \in Ran(machine, limit) : Increments(m)
    BY <1>6 DEF RunMachine, RunGoesOn, RunEnds, RunHasOutput, RunIgnoresYield,
                RunMakesNoSense
  <2>3. machine' \in Machine /\ elapsed' \in 0..MaxElapsed
        /\ UNCHANGED <<request, epoch, max_mcycle, length, saved>>
    BY <2>2, IncrementShape DEF Increments
  <2>4. machine'.mcycle \in Word
    BY <2>3 DEF Machine
  <2>5. CASE RunGoesOn
    BY Limits, <2>3, <2>5 DEF RunGoesOn, TypeOK
  <2>6. CASE RunEnds
    <3>1. PICK q \in Ran(machine, limit) :
             /\ Increments(q) /\ Leave(EndOfRun(q)) /\ EndOfRun(q) # "none"
             /\ cycle' \in {q.mcycle, cycle}
             /\ UNCHANGED <<limit, odd, vouchers, notices, reports>>
      BY <2>6 DEF RunEnds
    <3>2. EndOfRun(q) \in Skips \cup {"accepted"}
      BY <3>1 DEF EndOfRun, Skips
    <3>3. cycle' \in Word
      BY <3>1, <2>4 DEF Increments, TypeOK
    <3> QED
      BY <3>1, <3>2, <3>3, <2>3 DEF Leave, TypeOK, Labels
  <2>7. CASE RunHasOutput
    BY <2>3, <2>7 DEF RunHasOutput, TypeOK, Labels
  <2>8. CASE RunIgnoresYield
    BY Limits, <2>3, <2>4, <2>8 DEF RunIgnoresYield, Increments, RunAgain, TypeOK
  <2>9. CASE RunMakesNoSense
    BY <2>3, <2>9 DEF RunMakesNoSense, TypeOK, Labels
  <2> QED BY <1>6, <2>5, <2>6, <2>7, <2>8, <2>9 DEF RunMachine
<1>7. CASE HeaderRead
  <2>1. length' \in Word
    <3>1. machine \in Machine
      BY DEF TypeOK
    <3>2. machine.tx \in Lengths \cup {0}
      BY <3>1 DEF Machine
    <3>3. \A n \in Lengths \cup {0} : n \in Nat
      OBVIOUS
    <3>4. machine.tx \in Nat
      BY <3>2, <3>3, Zenon
    <3>5. length' = machine.tx /\ machine.tx <= WordMax
      BY <1>7 DEF HeaderRead, Fits
    <3> QED BY <3>4, <3>5 DEF Word
  <2> QED
    BY <1>7, <2>1 DEF HeaderRead, TypeOK, Labels
<1>8. CASE ExceptionRead
  BY <1>8 DEF ExceptionRead, Leave, TypeOK, Labels, Skips
<1>9. CASE PayloadRead
  <2>1. machine.mcycle \in Word /\ Len(machine.emitted) \in Nat
    BY DEF TypeOK, Machine
  <2>2. vouchers' \in Seq(Nat) /\ notices' \in Seq(Nat) /\ reports' \in Seq(Nat)
    BY <1>9, <2>1 DEF PayloadRead, Extended, TypeOK
  <2>3. cycle' \in Word /\ limit' \in Word
    BY <1>9, <2>1, Limits DEF PayloadRead, RunAgain, TypeOK
  <2>4. odd' \in BOOLEAN
    BY <1>9, Zenon DEF PayloadRead, RunAgain
  <2> QED
    BY <1>9, <2>2, <2>3, <2>4 DEF PayloadRead, TypeOK, Labels
<1>10. CASE VouchersProved \/ NoticesProved
  <2>1. vouchers_tree' \in Seq(Leaves) /\ notices_tree' \in Seq(Leaves)
    BY <1>10, LeafAdded DEF VouchersProved, NoticesProved, TypeOK, Leaves
  <2> QED
    BY <1>10, <2>1 DEF VouchersProved, NoticesProved, TypeOK, Labels, Leaves
<1>11. CASE VouchersCounted \/ NoticesCounted
  <2>1. at' \in Labels /\ UNCHANGED <<request, epoch, taint, run, length, outcome, machine, saved>>
    BY <1>11 DEF VouchersCounted, NoticesCounted, Counted, Labels
  <2> QED BY <2>1 DEF TypeOK
<1>12. CASE InputAccepted
  BY <1>12 DEF InputAccepted, TypeOK, Labels
<1>13. CASE RolledBack
  <2>1. vouchers_tree' \in Seq(Leaves) /\ notices_tree' \in Seq(Leaves)
    BY <1>13, LeafAdded DEF RolledBack, TypeOK, Leaves
  <2>2. at' \in Labels
    BY <1>13 DEF RolledBack, Labels
  <2> QED
    BY <1>13, <2>1, <2>2 DEF RolledBack, TypeOK, Leaves
<1>14. CASE InputSkipped
  BY <1>14 DEF InputSkipped, TypeOK, Labels
<1> QED
  BY <1>1, <1>2, <1>3, <1>4, <1>5, <1>6, <1>7, <1>8, <1>9, <1>10, <1>11, <1>12, <1>13,
     <1>14
     DEF Next, Step, Prepare, ReadTx, Record

\* Every step leaves the machine where the next call expects it.
LEMMA MachineStep == IInv /\ Next => MachineInPlace'
<1> SUFFICES ASSUME IInv, Next PROVE MachineInPlace'
  OBVIOUS
<1> USE DEF request, epoch, run, outcome, Preparing, Reading, Proving
<1> TypeOK /\ MachineInPlace
  BY DEF IInv
<1>1. CASE CallFails \/ AckRefused \/ LengthRefused \/ VouchersMiscounted
           \/ NoticesMiscounted
  BY <1>1, TaintSteps DEF Taint, MachineInPlace
<1>2. ASSUME NEW k \in {"advance", "inspect"}, NEW n \in PayloadSizes, Begin(k, n)
      PROVE  MachineInPlace'
  BY <1>2 DEF Begin, MachineInPlace, Ready
<1>3. CASE SnapshotTaken
  BY <1>3 DEF SnapshotTaken, MachineInPlace, Ready
<1>4. CASE RangesCleared \/ PayloadWritten \/ MetadataWritten \/ IflagsYReset
  <2>1. /\ machine'.honest = machine.honest /\ machine'.mcycle = machine.mcycle
        /\ machine'.manual = machine.manual /\ machine'.ack = machine.ack
        /\ IflagsYReset => ~machine'.y
    BY <1>4 DEF RangesCleared, PayloadWritten, MetadataWritten, IflagsYReset, Prepared,
                AllCleared, TypeOK, Machine
  <2> QED
    BY <1>4, <2>1 DEF RangesCleared, PayloadWritten, MetadataWritten, IflagsYReset, Prepared,
                      MachineInPlace, Ready
<1>5. CASE AckReady
  <2>1. machine'.honest = machine.honest /\ machine'.y = machine.y
    BY <1>5 DEF AckReady, TypeOK, Machine
  <2> QED
    BY <1>5, <2>1 DEF AckReady, MachineInPlace, Ready
<1>6. ASSUME NEW m \in Ran(machine, limit), Increments(m),
             \/ ~Returns(m) /\ UNCHANGED <<at, cycle, outcome>>
             \/ ~m.y /\ RunAgain(m) /\ UNCHANGED <<at, outcome>>
             \/ at' = "header" /\ IsRead(m) /\ UNCHANGED <<cycle, outcome>>
             \/ at' = "tainted"
             \/ EndOfRun(m) # "none" /\ Leave(EndOfRun(m))
                /\ cycle' = IF kind = "advance" /\ EndOfRun(m) = "accepted" THEN m.mcycle
                                                                             ELSE cycle
      PROVE  MachineInPlace'
  <2>1. /\ at = "run" /\ machine' = m /\ m.honest = machine.honest
        /\ \/ RanQuietly(machine, m) \/ RanToManual(machine, m)
           \/ RanToAutomatic(machine, m)
        /\ UNCHANGED <<kind, current_mcycle, saved>>
    BY <1>6, IncrementShape DEF Increments
  <2>2. m.y => RanToManual(machine, m)
    BY <2>1 DEF RanQuietly, RanToAutomatic
  <2>3. ~(m.y /\ m.x)
    BY <2>2 DEF RanToManual
  <2>4. IsRead(m) => IsRead(machine)'
    BY <2>1 DEF IsRead
  <2>5. EndOfRun(m) = "accepted" => m.y /\ m.reason = "rx_accepted"
    BY DEF EndOfRun
  <2>6. CASE EndOfRun(m) # "none" /\ Leave(EndOfRun(m))
             /\ cycle' = IF kind = "advance" /\ EndOfRun(m) = "accepted" THEN m.mcycle
                                                                          ELSE cycle
    BY <2>1, <2>2, <2>5, <2>6 DEF Leave, RanToManual, MachineInPlace, Ready
  <2>7. CASE at' # at \/ ~m.y
    BY <1>6, <2>1, <2>3, <2>4, <2>6, <2>7 DEF MachineInPlace, Ready
  <2> QED BY <1>6, <2>1, <2>6, <2>7 DEF Returns
<1>7. CASE RunMachine
  BY <1>6, <1>7 DEF RunMachine, RunGoesOn, RunEnds, RunHasOutput, RunIgnoresYield,
                    RunMakesNoSense
<1>8. CASE HeaderRead
  BY <1>8 DEF HeaderRead, MachineInPlace, Ready, IsRead
<1>9. CASE ExceptionRead
  BY <1>9 DEF ExceptionRead, Leave, MachineInPlace, Ready
<1>10. CASE PayloadRead
  BY <1>10 DEF PayloadRead, MachineInPlace, Ready
<1>11. CASE VouchersProved \/ NoticesProved \/ VouchersCounted \/ NoticesCounted
  BY <1>11 DEF VouchersProved, NoticesProved, VouchersCounted, NoticesCounted, Counted,
               MachineInPlace
<1>12. CASE InputAccepted
  BY <1>12 DEF InputAccepted, MachineInPlace, Ready
<1>13. CASE RolledBack
  <2>1. /\ Ready(saved) /\ machine' = saved /\ UNCHANGED <<saved, kind, current_mcycle>>
        /\ at' = "idle" \/ (at' = "rolled_back" /\ kind = "advance")
    BY <1>13 DEF RolledBack, MachineInPlace, TypeOK
  <2> QED
    BY <2>1 DEF MachineInPlace, Ready
<1>14. CASE InputSkipped
  BY <1>14 DEF InputSkipped, MachineInPlace, Ready
<1> QED
  BY <1>1, <1>2, <1>3, <1>4, <1>5, <1>7, <1>8, <1>9, <1>10, <1>11, <1>12, <1>13, <1>14
     DEF Next, Step, Prepare, ReadTx, Record

\* Every step leaves the request in hand in the machine, from the calls that write
\* it to the end of the run.
LEMMA RequestStep == IInv /\ Next => RequestInPlace'
<1> SUFFICES ASSUME IInv, Next PROVE RequestInPlace'
  OBVIOUS
<1> USE DEF request, epoch, run, outcome, Preparing, Reading, GoesOn
<1> TypeOK /\ MachineInPlace /\ RequestInPlace /\ machine \in Machine
  BY DEF IInv, TypeOK
<1>1. CASE CallFails \/ AckRefused \/ LengthRefused \/ VouchersMiscounted
           \/ NoticesMiscounted
  BY <1>1, TaintSteps DEF Taint, RequestInPlace
<1>2. ASSUME NEW k \in {"advance", "inspect"}, NEW n \in PayloadSizes, Begin(k, n)
      PROVE  RequestInPlace'
  BY <1>2 DEF Begin, RequestInPlace
<1>3. CASE SnapshotTaken
  BY <1>3 DEF SnapshotTaken, RequestInPlace
<1>4. CASE RangesCleared
  BY <1>4 DEF RangesCleared, Prepared, RequestInPlace
<1>5. CASE PayloadWritten
  <2>1. machine'.rx = job
    BY <1>5 DEF PayloadWritten, Prepared, Machine
  <2> QED
    BY <1>5, <2>1 DEF PayloadWritten, Prepared, RequestInPlace, TypeOK
<1>6. CASE MetadataWritten
  <2>1. machine'.rx = machine.rx /\ machine'.metadata = job
    BY <1>6 DEF MetadataWritten, Prepared, Machine
  <2> QED
    BY <1>6, <2>1 DEF MetadataWritten, Prepared, RequestInPlace
<1>7. CASE IflagsYReset
  <2>1. machine'.rx = machine.rx /\ machine'.metadata = machine.metadata
    BY <1>7 DEF IflagsYReset, Prepared, Machine
  <2> QED
    BY <1>7, <2>1 DEF IflagsYReset, Prepared, RequestInPlace
<1>8. CASE AckReady
  <2>1. /\ machine'.rx = machine.rx /\ machine'.metadata = machine.metadata
        /\ machine'.ack = RequestId
    BY <1>8 DEF AckReady, Machine
  <2> QED
    BY <1>8, <2>1 DEF AckReady, RequestInPlace, RequestId
<1>9. CASE RunMachine
  <2>1. PICK m \in Ran(machine, limit) : Increments(m)
    BY <1>9 DEF RunMachine, RunGoesOn, RunEnds, RunHasOutput, RunIgnoresYield,
                RunMakesNoSense
  <2>2. /\ at = "run" /\ machine' = m /\ m.rx = machine.rx /\ m.metadata = machine.metadata
        /\ m.y \/ m.ack = machine.ack
        /\ UNCHANGED <<kind, job>>
    BY <2>1, IncrementShape
       DEF Increments, RanQuietly, RanToManual, RanToAutomatic
  <2>3. at' = "run" => ~m.y
    BY <1>9, <2>1, <2>2 DEF RunMachine, RunGoesOn, RunEnds, RunHasOutput, RunIgnoresYield,
                RunMakesNoSense, Increments, Returns, Leave
  <2>4. at' \notin {"metadata", "reset", "ack"}
    BY <1>9, <2>2 DEF RunMachine, RunGoesOn, RunEnds, RunHasOutput, RunIgnoresYield,
                RunMakesNoSense, Leave
  <2> QED
    BY <2>2, <2>3, <2>4 DEF RequestInPlace, RequestId
<1>10. CASE ReadTx
  BY <1>10, <1>1 DEF ReadTx, HeaderRead, ExceptionRead, PayloadRead, Leave, RequestInPlace,
               RequestId
<1>11. CASE Record
  <2>1. at' \in {"voucher_hashes", "notice_proof", "notice_hashes", "root_hash",
                 "rolled_back", "idle", "tainted"}
    BY <1>11 DEF Record, VouchersProved, VouchersCounted, VouchersMiscounted,
                 NoticesProved, NoticesCounted, NoticesMiscounted, InputAccepted, RolledBack,
                 InputSkipped, Counted, Miscounted, Taint
  <2> QED
    BY <2>1 DEF RequestInPlace
<1> QED
  BY <1>1, <1>2, <1>3, <1>4, <1>5, <1>6, <1>7, <1>8, <1>9, <1>10, <1>11
     DEF Next, Step, Prepare

\* Every step keeps the machine below the limit of its request.
LEMMA LimitsStep == IInv /\ Next => LimitsInPlace' /\ CyclesKept'
<1> SUFFICES ASSUME IInv, Next, (current_mcycle + MaxCycles <= WordMax)'
             PROVE  /\ machine'.mcycle <= current_mcycle' + MaxCycles
                    /\ at' \in Reading \cup {"run"} =>
                        max_mcycle' = current_mcycle' + MaxCycles /\ limit' <= max_mcycle'
                    /\ at' = "rollback" /\ status' = "cycle_limit_exceeded"
                        => machine'.mcycle = current_mcycle' + MaxCycles
  BY DEF LimitsInPlace, CyclesKept
<1> USE MachineRunAssumption DEF request, epoch, run, outcome, Reading, Proving, Preparing
<1> TypeOK /\ TypeOK' /\ MachineInPlace /\ LimitsInPlace /\ CyclesKept
  BY TypeStep DEF IInv
<1>1. machine \in Machine /\ machine.mcycle \in Word /\ current_mcycle \in Word
      /\ saved.mcycle \in Word /\ max_mcycle \in Word /\ limit \in Word
  BY DEF TypeOK, Machine
<1>2. current_mcycle \in Nat /\ machine.mcycle \in Nat /\ max_mcycle \in Nat /\ limit \in Nat
  BY <1>1 DEF Word
<1>3. CASE InputAccepted
  BY <1>2, <1>3 DEF InputAccepted, MachineInPlace
<1>4. ASSUME current_mcycle' = current_mcycle, machine'.mcycle = machine.mcycle,
             at' \notin Reading \cup {"run", "rollback"}
      PROVE  machine'.mcycle <= current_mcycle' + MaxCycles
  BY <1>4 DEF LimitsInPlace
<1>5. CASE CallFails \/ AckRefused \/ LengthRefused \/ VouchersMiscounted
           \/ NoticesMiscounted
  BY <1>5, TaintSteps DEF Taint, LimitsInPlace
<1>6. ASSUME NEW k \in {"advance", "inspect"}, NEW n \in PayloadSizes, Begin(k, n)
      PROVE  /\ current_mcycle' = current_mcycle /\ machine'.mcycle = machine.mcycle
             /\ at' \notin Reading \cup {"run", "rollback"}
  BY <1>6 DEF Begin
<1>7. CASE SnapshotTaken
  BY <1>7 DEF SnapshotTaken, LimitsInPlace
<1>8. CASE RangesCleared \/ PayloadWritten \/ MetadataWritten \/ IflagsYReset
  <2>1. machine'.mcycle = machine.mcycle
    BY <1>1, <1>8 DEF RangesCleared, PayloadWritten, MetadataWritten, IflagsYReset, Prepared,
                AllCleared, Machine
  <2>2. at' \notin Reading \cup {"run", "rollback"} /\ UNCHANGED current_mcycle
    BY <1>8 DEF RangesCleared, PayloadWritten, MetadataWritten, IflagsYReset, Prepared
  <2> QED BY <1>4, <2>1, <2>2
<1>9. CASE AckReady
  <2>1. machine'.mcycle = machine.mcycle /\ UNCHANGED current_mcycle /\ at' = "run"
    BY <1>1, <1>9 DEF AckReady, Machine
  <2>2. max_mcycle' = current_mcycle + MaxCycles
    <3>1. MaxCycles \in Word
      BY DEF Word
    <3> QED BY <1>1, <1>9, <2>1, <3>1, WordArithmetic DEF AckReady
  <2>3. limit' <= max_mcycle'
    <3>1. max_mcycle' \in Word
      BY DEF TypeOK
    <3> QED BY <1>1, <1>9, <3>1, Limits DEF AckReady
  <2> QED
    BY <2>1, <2>2, <2>3 DEF LimitsInPlace
<1>10. CASE RunMachine
  <2>1. PICK m \in Ran(machine, limit) :
          /\ Increments(m)
          /\ \/ /\ at' = "run" /\ (limit' = NextLimit(limit, max_mcycle)
                                  \/ limit' = FirstLimit(m.mcycle, max_mcycle))
             \/ at' = "header" /\ limit' = limit
             \/ at' = "tainted"
             \/ EndOfRun(m) # "none" /\ Leave(EndOfRun(m))
    BY <1>10 DEF RunMachine, RunGoesOn, RunEnds, RunHasOutput, RunIgnoresYield,
                 RunMakesNoSense, RunAgain, Increments
  <2>2. /\ at = "run" /\ machine' = m /\ m \in Machine
        /\ m.mcycle = machine.mcycle \/ m.mcycle <= limit
        /\ UNCHANGED <<current_mcycle, max_mcycle>>
    BY <2>1, IncrementShape DEF Increments
  <2>3. m.mcycle \in Word /\ m.mcycle \in Nat
    BY <2>2 DEF Machine, Word
  <2>4. max_mcycle = current_mcycle + MaxCycles /\ limit <= max_mcycle
        /\ machine.mcycle <= max_mcycle
    BY <2>2 DEF LimitsInPlace
  <2>5. m.mcycle <= max_mcycle
    BY <1>2, <2>2, <2>3, <2>4
  <2>6. at' = "run" => limit' <= max_mcycle
    BY <1>1, <2>1, <2>2, <2>3, Limits DEF Leave
  <2>7. CASE at' \in {"run", "header", "tainted"}
    BY <2>1, <2>2, <2>4, <2>5, <2>6, <2>7 DEF Leave
  <2>8. CASE EndOfRun(m) # "none" /\ Leave(EndOfRun(m))
    <3>1. EndOfRun(m) = "cycle_limit_exceeded" => m.mcycle >= max_mcycle
      BY DEF EndOfRun
    <3> QED
      BY <1>2, <2>2, <2>3, <2>4, <2>5, <2>8, <3>1 DEF Leave
  <2> QED BY <2>1, <2>7, <2>8
<1>11. CASE HeaderRead
  BY <1>11 DEF HeaderRead, LimitsInPlace
<1>12. CASE ExceptionRead
  BY <1>12 DEF ExceptionRead, Leave, LimitsInPlace
<1>13. CASE PayloadRead
  <2>1. limit' <= max_mcycle
    BY <1>1, <1>13, Limits DEF PayloadRead, RunAgain
  <2> QED
    BY <1>13, <2>1 DEF PayloadRead, LimitsInPlace
<1>14. CASE VouchersProved \/ NoticesProved \/ VouchersCounted \/ NoticesCounted \/ InputSkipped
  <2>1. at' \notin Reading \cup {"run", "rollback"} /\ UNCHANGED <<machine, current_mcycle>>
    BY <1>14 DEF VouchersProved, NoticesProved, VouchersCounted, NoticesCounted, Counted,
                 InputSkipped
  <2> QED BY <1>4, <2>1
<1>15. CASE RolledBack
  BY <1>2, <1>15 DEF RolledBack, MachineInPlace, Ready
<1> QED
  BY <1>3, <1>4, <1>5, <1>6, <1>7, <1>8, <1>9, <1>10, <1>11, <1>12, <1>13, <1>14, <1>15
     DEF Next, Step, Prepare, ReadTx, Record

\* Every step keeps the deadline.
LEMMA DeadlineStep == IInv /\ Next => DeadlineKept'
<1> SUFFICES ASSUME IInv, Next, 2 * MaxDeadline <= WordMax
             PROVE  /\ at' = "rollback" /\ status' = "time_limit_exceeded"
                        => elapsed' > MaxDeadline
                    /\ at' = "run" /\ elapsed' > MaxDeadline => machine'.x
  BY DEF DeadlineKept
<1> USE MachineRunAssumption DEF request, epoch, run, outcome, Reading
<1> MachineInPlace /\ DeadlineKept
  BY DEF IInv
<1>1. \A t \in Nat : Expired(t) <=> t > MaxDeadline
  BY DEF Expired, Signed
<1>2. CASE RunMachine
  <2>1. PICK m \in Ran(machine, limit) :
          /\ Increments(m)
          /\ \/ at' = "run" /\ (~Expired(elapsed') \/ m.x)
             \/ at' \in {"header", "tainted"}
             \/ EndOfRun(m) # "none" /\ Leave(EndOfRun(m))
    BY <1>2 DEF RunMachine, RunGoesOn, RunEnds, RunHasOutput, RunIgnoresYield,
                 RunMakesNoSense, Increments
  <2>2. machine' = m /\ elapsed' \in Nat
    BY <2>1, IncrementShape DEF IInv
  <2>3. EndOfRun(m) = "time_limit_exceeded" => Expired(elapsed')
    BY DEF EndOfRun
  <2> QED
    BY <1>1, <2>1, <2>2, <2>3 DEF Leave
<1>3. CASE AckReady
  BY <1>3 DEF AckReady
<1>4. CASE PayloadRead
  BY <1>4 DEF PayloadRead, MachineInPlace, IsRead
<1>5. CASE ExceptionRead
  BY <1>5 DEF ExceptionRead, Leave
<1>6. CASE SnapshotTaken
  BY <1>6 DEF SnapshotTaken
<1>7. CASE at' \notin {"run", "rollback"}
  BY <1>7
<1> QED
  BY <1>2, <1>3, <1>4, <1>5, <1>6, <1>7
     DEF Next, Step, Prepare, ReadTx, Record, CallFails, AckRefused, LengthRefused,
         VouchersMiscounted, NoticesMiscounted, Miscounted, Taint, Begin, RangesCleared,
         PayloadWritten, MetadataWritten, IflagsYReset, Prepared, HeaderRead,
         VouchersProved, NoticesProved, VouchersCounted, NoticesCounted, Counted,
         InputAccepted, RolledBack, InputSkipped

\* The loop is left with consistent trees.
LEMMA LeaveClean ==
    ASSUME TreesInPlace, at \in Reading \cup {"run"}, NEW s, Leave(s)
    PROVE  /\ UNCHANGED taint /\ status' = s
           /\ \/ at' = "voucher_proof" /\ s = "accepted"
              \/ at' = "rollback" /\ (kind = "advance" => s # "accepted")
  BY DEF Leave, TreesInPlace, TreeAgrees, TreesConsistent, Reading

\* Every step keeps the trees in agreement with the processed inputs.
LEMMA TreesStep == IInv /\ Next => TreesInPlace'
<1> SUFFICES ASSUME IInv, Next PROVE TreesInPlace'
  OBVIOUS
<1> USE DEF request, epoch, run, outcome, Reading
<1> TypeOK /\ MachineInPlace /\ TreesInPlace
  BY DEF IInv
<1> DEFINE Bare == {"idle", "snapshot", "clear", "write", "metadata", "reset", "ack", "run",
                    "header", "payload", "voucher_proof", "rollback"}
<1>1. ASSUME at \in Bare, at' \in Bare, UNCHANGED <<processed, vouchers_tree, notices_tree>>,
             at' = "rollback" /\ kind' = "advance" => status' # "accepted"
      PROVE  TreesInPlace'
  BY <1>1 DEF TreesInPlace, TreeAgrees
<1>2. CASE at' = "tainted"
  BY <1>2 DEF TreesInPlace
<1>3. ASSUME NEW k \in {"advance", "inspect"}, NEW n \in PayloadSizes, Begin(k, n)
      PROVE  TreesInPlace'
  BY <1>1, <1>3 DEF Begin
<1>4. CASE Prepare /\ at' # "tainted"
  BY <1>1, <1>4
     DEF Prepare, SnapshotTaken, RangesCleared, PayloadWritten, MetadataWritten,
         IflagsYReset, Prepared, AckReady, AckRefused, Taint
<1>5. CASE RunMachine /\ at' # "tainted"
  <2>1. PICK m \in Ran(machine, limit) :
           /\ Increments(m)
           /\ at' \in {"run", "header", "tainted"} \/ Leave(EndOfRun(m))
    BY <1>5 DEF RunMachine, RunGoesOn, RunEnds, RunHasOutput, RunIgnoresYield,
                RunMakesNoSense, Increments
  <2>2. at = "run" /\ UNCHANGED <<kind, processed, vouchers_tree, notices_tree>>
    BY <2>1 DEF Increments
  <2> QED
    BY <1>1, <1>5, <2>1, <2>2, LeaveClean
<1>6. CASE ReadTx /\ at' # "tainted"
  <2>1. CASE ExceptionRead
    <3>1. at = "payload" /\ Leave("exception")
          /\ UNCHANGED <<kind, processed, vouchers_tree, notices_tree>>
      BY <2>1 DEF ExceptionRead
    <3> QED BY <1>1, <3>1, LeaveClean
  <2>2. CASE HeaderRead \/ PayloadRead \/ LengthRefused
    BY <1>1, <1>6, <2>2 DEF HeaderRead, PayloadRead, LengthRefused, Taint
  <2> QED BY <1>6, <2>1, <2>2 DEF ReadTx
<1>7. CASE VouchersProved
  <2>1. Len(processed) \in Nat /\ vouchers_tree \in Seq(Leaves)
    BY DEF TypeOK, Leaves
  <2>2. /\ TreeAgrees(vouchers_tree, FALSE, "hashes")
        /\ TreeAgrees(notices_tree, FALSE, "hashes")
    BY <1>7 DEF VouchersProved, TreesInPlace, TreeAgrees
  <2>3. TreeAgrees(vouchers_tree, TRUE, "hashes")'
    BY <1>7, <2>1, <2>2, LeafAdded DEF VouchersProved, TreeAgrees, Leaves
  <2> QED
    BY <1>7, <2>2, <2>3 DEF VouchersProved, TreesInPlace, TreeAgrees
<1>8. CASE NoticesProved
  <2>1. Len(processed) \in Nat /\ notices_tree \in Seq(Leaves)
    BY DEF TypeOK, Leaves
  <2>2. /\ TreeAgrees(vouchers_tree, TRUE, "hashes")
        /\ TreeAgrees(notices_tree, FALSE, "hashes")
    BY <1>8 DEF NoticesProved, TreesInPlace, TreeAgrees
  <2>3. TreeAgrees(notices_tree, TRUE, "hashes")'
    BY <1>8, <2>1, <2>2, LeafAdded DEF NoticesProved, TreeAgrees, Leaves
  <2> QED
    BY <1>8, <2>2, <2>3 DEF NoticesProved, TreesInPlace, TreeAgrees
<1>9. CASE VouchersCounted \/ NoticesCounted
  BY <1>9 DEF VouchersCounted, NoticesCounted, Counted, TreesInPlace, TreeAgrees
<1>10. ASSUME NEW leaf \in Leaves,
              TreeAgrees(vouchers_tree, TRUE, leaf), TreeAgrees(notices_tree, TRUE, leaf),
              processed' = Append(processed, status),
              leaf = "hashes" <=> status = "accepted",
              at' = "idle", UNCHANGED <<vouchers_tree, notices_tree>>
       PROVE  TreesInPlace'
  <2>1. /\ Len(processed) \in Nat /\ Len(processed') = Len(processed) + 1
        /\ processed'[Len(processed) + 1] = status
        /\ \A i \in 1..Len(processed) : processed'[i] = processed[i]
    BY <1>10 DEF TypeOK
  <2>2. \A i \in 1..Len(processed') : i \in 1..Len(processed) \/ i = Len(processed) + 1
    BY <2>1
  <2> QED
    BY <1>10, <2>1, <2>2 DEF TreesInPlace, TreeAgrees
<1>11. CASE InputAccepted
  BY <1>10, <1>11 DEF InputAccepted, TreesInPlace, MachineInPlace, Proving, Leaves
<1>12. CASE InputSkipped
  BY <1>10, <1>12 DEF InputSkipped, TreesInPlace, MachineInPlace, Leaves
<1>13. CASE RolledBack
  <2>1. CASE kind = "inspect"
    BY <1>1, <1>13, <2>1 DEF RolledBack
  <2>2. CASE kind = "advance"
    <3>1. Len(processed) \in Nat /\ vouchers_tree \in Seq(Leaves)
          /\ notices_tree \in Seq(Leaves)
      BY DEF TypeOK, Leaves
    <3>2. /\ at = "rollback" /\ at' = "rolled_back"
          /\ vouchers_tree' = Append(vouchers_tree, "zero")
          /\ notices_tree' = Append(notices_tree, "zero")
          /\ UNCHANGED <<kind, processed, status>>
      BY <1>13, <2>2 DEF RolledBack
    <3>3. TreeAgrees(vouchers_tree, FALSE, "hashes") /\ TreeAgrees(notices_tree, FALSE, "hashes")
          /\ status # "accepted"
      BY <2>2, <3>2 DEF TreesInPlace, TreeAgrees
    <3>4. TreeAgrees(vouchers_tree, TRUE, "zero")'
      BY <3>1, <3>2, <3>3, LeafAdded DEF TreeAgrees, Leaves
    <3>5. TreeAgrees(notices_tree, TRUE, "zero")'
      BY <3>1, <3>2, <3>3, LeafAdded DEF TreeAgrees, Leaves
    <3> QED
      BY <3>2, <3>3, <3>4, <3>5 DEF TreesInPlace
  <2> QED BY <2>1, <2>2 DEF TypeOK
<1>14. CASE CallFails \/ VouchersMiscounted \/ NoticesMiscounted
  BY <1>2, <1>14 DEF CallFails, VouchersMiscounted, NoticesMiscounted, Miscounted, Taint
<1> QED
  BY <1>2, <1>3, <1>4, <1>5, <1>6, <1>7, <1>8, <1>9, <1>11, <1>12, <1>13, <1>14
     DEF Next, Step, Record

\* No step taints the session for trees that disagree or for an answer without a
\* yield.
LEMMA SilentStep == IInv /\ Next => NoSilentReturn'
<1> SUFFICES ASSUME IInv, Next PROVE NoSilentReturn'
  OBVIOUS
<1> USE DEF Reading
<1> TreesInPlace /\ NoSilentReturn
  BY DEF IInv
<1>1. CASE CallFails \/ AckRefused \/ LengthRefused \/ VouchersMiscounted
           \/ NoticesMiscounted
  BY <1>1, TaintSteps DEF Taint, NoSilentReturn
<1>2. CASE RunEnds
  <2>1. at = "run" /\ \E s : Leave(s)
    BY <1>2 DEF RunEnds, Increments
  <2> QED
    BY <2>1, LeaveClean DEF NoSilentReturn
<1>3. CASE ExceptionRead
  <2>1. at = "payload" /\ \E s : Leave(s)
    BY <1>3 DEF ExceptionRead
  <2> QED
    BY <2>1, LeaveClean DEF NoSilentReturn
<1>4. CASE RunMakesNoSense
  BY <1>4 DEF RunMakesNoSense, Returns, EndOfRun, NoSilentReturn
<1>5. CASE UNCHANGED taint
  BY <1>5 DEF NoSilentReturn
<1> QED
  BY <1>1, <1>2, <1>3, <1>4, <1>5
     DEF Next, Step, Prepare, RunMachine, ReadTx, Record, Begin, SnapshotTaken,
         RangesCleared, PayloadWritten, MetadataWritten, IflagsYReset, Prepared,
         AckReady, RunGoesOn, RunHasOutput, RunIgnoresYield, HeaderRead, PayloadRead,
         VouchersProved, NoticesProved, VouchersCounted, NoticesCounted, Counted,
         InputAccepted, RolledBack, InputSkipped

\* Lists over the first n yields of a sequence.
ListsUpTo(list, em, n, r) ==
    /\ {list[i] : i \in DOMAIN list} = {i \in 1..n : em[i] = r}
    /\ \A i, j \in DOMAIN list : i < j => list[i] < list[j]

\* A list stays the list of the first n yields when there is one yield more.
LEMMA ListSurvives ==
    ASSUME NEW em \in Seq(Reasons), NEW q \in Reasons, NEW list, NEW r,
           ListsUpTo(list, em, Len(em), r)
    PROVE  /\ ListsUpTo(list, Append(em, q), Len(em), r)
           /\ q # r => ListsUpTo(list, Append(em, q), Len(em) + 1, r)
<1>1. /\ \A i \in 1..Len(em) : Append(em, q)[i] = em[i]
      /\ Append(em, q)[Len(em) + 1] = q /\ Len(em) \in Nat
  OBVIOUS
<1>2. {i \in 1..Len(em) : Append(em, q)[i] = r} = {i \in 1..Len(em) : em[i] = r}
  BY <1>1
<1>3. q # r => {i \in 1..(Len(em) + 1) : Append(em, q)[i] = r}
                 = {i \in 1..Len(em) : em[i] = r}
  BY <1>1
<1> QED BY <1>2, <1>3 DEF ListsUpTo

\* A list that was complete but for the last yield is complete once that is taken in.
LEMMA ListCompleted ==
    ASSUME NEW em \in Seq(Reasons), Len(em) > 0, NEW list \in Seq(Nat), NEW r,
           ListsUpTo(list, em, Len(em) - 1, r)
    PROVE  /\ em[Len(em)] # r => ListsUpTo(list, em, Len(em), r)
           /\ em[Len(em)] = r => ListsUpTo(Append(list, Len(em)), em, Len(em), r)
<1> DEFINE n == Len(em)
           more == Append(list, n)
<1>1. n \in Nat /\ n > 0 /\ 1..n = (1..(n - 1)) \cup {n}
  OBVIOUS
<1>2. em[n] # r => {i \in 1..n : em[i] = r} = {i \in 1..(n - 1) : em[i] = r}
  BY <1>1
<1>3. ASSUME em[n] = r PROVE ListsUpTo(more, em, n, r)
  <2>1. /\ DOMAIN more = 1..(Len(list) + 1) /\ Len(list) \in Nat
        /\ DOMAIN list = 1..Len(list)
        /\ more[Len(list) + 1] = n /\ \A i \in 1..Len(list) : more[i] = list[i]
    BY <1>1
  <2>2. \A i \in DOMAIN list : list[i] \in 1..(n - 1) /\ em[list[i]] = r
    BY DEF ListsUpTo
  <2>3. {i \in 1..n : em[i] = r} = {i \in 1..(n - 1) : em[i] = r} \cup {n}
    BY <1>1, <1>3
  <2>4. {more[i] : i \in DOMAIN more} = {list[i] : i \in DOMAIN list} \cup {n}
    BY <2>1
  <2>5. \A i, j \in DOMAIN more : i < j => more[i] < more[j]
    BY <1>1, <2>1, <2>2 DEF ListsUpTo
  <2> QED
    BY <2>3, <2>4, <2>5 DEF ListsUpTo
<1> QED BY <1>2, <1>3 DEF ListsUpTo

\* Every step keeps the outputs of the machine, and no others.
LEMMA OutputsStep == IInv /\ Next => OutputsInPlace' /\ OutputsFaithful'
<1> SUFFICES ASSUME IInv, Next PROVE OutputsInPlace' /\ OutputsFaithful'
  OBVIOUS
<1> USE DEF request, epoch, run, outcome, Reading
<1> TypeOK /\ MachineInPlace /\ OutputsInPlace /\ OutputsFaithful
  BY DEF IInv
<1> machine \in Machine /\ machine.emitted \in Seq(Reasons)
  BY DEF TypeOK, Machine
<1> DEFINE Kept == {"run", "header", "payload", "voucher_proof", "voucher_hashes",
                    "notice_proof", "notice_hashes", "root_hash"}
           All(vs, ns, rs, em, n) ==
               /\ ListsUpTo(rs, em, n, "report")
               /\ IF kind = "advance"
                  THEN ListsUpTo(vs, em, n, "voucher") /\ ListsUpTo(ns, em, n, "notice")
                  ELSE vs = <<>> /\ ns = <<>>
<1>1. at \in Kept => All(vouchers, notices, reports, machine.emitted, TakenIn)
  BY DEF OutputsFaithful, Lists, ListsUpTo
<1>2. ASSUME at' \in Kept \ {"payload"}, UNCHANGED kind,
             All(vouchers', notices', reports', machine'.emitted, TakenIn')
      PROVE  OutputsFaithful'
  BY <1>2 DEF OutputsFaithful, Lists, ListsUpTo
<1>3. CASE at' \notin Kept /\ at' \notin Preparing \cup {"snapshot"}
  BY <1>3 DEF OutputsInPlace, OutputsFaithful, Preparing
<1>4. ASSUME NEW k \in {"advance", "inspect"}, NEW n \in PayloadSizes, Begin(k, n)
      PROVE  OutputsInPlace' /\ OutputsFaithful'
  BY <1>4 DEF Begin, OutputsInPlace, OutputsFaithful, Preparing
<1>5. CASE SnapshotTaken
  BY <1>5 DEF SnapshotTaken, OutputsInPlace, OutputsFaithful, Preparing
<1>6. CASE RangesCleared \/ PayloadWritten \/ MetadataWritten \/ IflagsYReset
  <2>1. IflagsYReset => machine'.emitted = <<>>
    BY DEF IflagsYReset, Prepared, Machine
  <2> QED
    BY <1>6, <2>1 DEF RangesCleared, PayloadWritten, MetadataWritten, IflagsYReset, Prepared,
                OutputsInPlace, OutputsFaithful, Preparing
<1>7. CASE AckReady
  <2>1. machine'.emitted = <<>>
    BY <1>7 DEF AckReady, OutputsInPlace, Machine
  <2>2. /\ at' = "run" /\ vouchers' = <<>> /\ notices' = <<>> /\ reports' = <<>>
        /\ UNCHANGED kind
    BY <1>7 DEF AckReady, OutputsInPlace, Preparing
  <2>3. \A r : ListsUpTo(<<>>, <<>>, 0, r)
    BY DEF ListsUpTo
  <2>4. TakenIn' = 0
    BY <2>1, <2>2 DEF TakenIn
  <2>5. OutputsFaithful'
    BY <1>2, <2>1, <2>2, <2>3, <2>4
  <2> QED BY <2>2, <2>5 DEF OutputsInPlace, Preparing
<1>8. ASSUME NEW m \in Ran(machine, limit), Increments(m)
      PROVE  /\ at = "run" /\ machine' = m /\ TakenIn = Len(machine.emitted)
             /\ All(vouchers, notices, reports, machine.emitted, Len(machine.emitted))
             /\ m.reason \in Reasons /\ UNCHANGED kind
             /\ ~m.x => m.emitted = machine.emitted
             /\ m.x => /\ ~m.y /\ m.emitted = Append(machine.emitted, m.reason)
                       /\ m.reason \in Outputs \cup {"other"}
  <2>1. /\ at = "run" /\ machine' = m /\ m \in Machine
        /\ \/ RanQuietly(machine, m) \/ RanToManual(machine, m)
           \/ RanToAutomatic(machine, m)
    BY <1>8, IncrementShape
  <2>2. m.reason \in Reasons
    BY <2>1 DEF Machine
  <2>3. /\ ~m.x => m.emitted = machine.emitted
        /\ m.x => /\ ~m.y /\ m.emitted = Append(machine.emitted, m.reason)
                  /\ m.reason \in Outputs \cup {"other"}
    BY <2>1 DEF RanQuietly, RanToManual, RanToAutomatic
  <2>4. TakenIn = Len(machine.emitted)
    BY <2>1 DEF TakenIn
  <2> QED BY <1>1, <1>8, <2>1, <2>2, <2>3, <2>4 DEF Increments
<1>9. CASE RunGoesOn \/ RunEnds
  <2>1. PICK m \in Ran(machine, limit) :
           /\ Increments(m) /\ UNCHANGED <<vouchers, notices, reports>>
           /\ \/ at' = "run" /\ ~m.x
              \/ at' = "voucher_proof" /\ m.y
              \/ at' \in {"rollback", "tainted"}
    BY <1>9 DEF RunGoesOn, RunEnds, Returns, Leave, EndOfRun, Increments
  <2>2. CASE at' \in {"rollback", "tainted"}
    BY <1>3, <2>2 DEF Preparing
  <2>3. CASE at' \in {"run", "voucher_proof"}
    <3>1. machine'.emitted = machine.emitted /\ UNCHANGED kind
          /\ All(vouchers, notices, reports, machine.emitted, Len(machine.emitted))
      BY <1>8, <2>1, <2>3
    <3>2. TakenIn' = Len(machine.emitted)
      <4>1. Len(machine.emitted) \in Nat /\ at' \notin {"header", "payload"}
        BY <2>3
      <4> QED BY <3>1, <4>1 DEF TakenIn
    <3>3. OutputsFaithful'
      BY <1>2, <2>1, <2>3, <3>1, <3>2
    <3> QED BY <2>3, <3>3 DEF OutputsInPlace, Preparing
  <2> QED BY <2>1, <2>2, <2>3
<1>10. CASE RunHasOutput
  <2>1. PICK m \in Ran(machine, limit) :
           Increments(m) /\ at' = "header" /\ UNCHANGED <<vouchers, notices, reports>>
    BY <1>10 DEF RunHasOutput
  <2>2. Len(machine.emitted) \in Nat
    OBVIOUS
  <2>3. CASE ~m.x
    <3>1. TakenIn' = Len(machine.emitted) /\ machine'.emitted = machine.emitted
          /\ ~machine'.x
      BY <1>8, <2>1, <2>2, <2>3 DEF TakenIn
    <3>2. OutputsFaithful'
      BY <1>2, <1>8, <2>1, <3>1
    <3> QED BY <2>1, <3>1, <3>2 DEF OutputsInPlace, Preparing
  <2>4. CASE m.x
    <3>1. machine' = m /\ m.emitted = Append(machine.emitted, m.reason) /\ m.reason \in Reasons
      BY <1>8, <2>1, <2>4
    <3>2. /\ Len(m.emitted) = Len(machine.emitted) + 1
          /\ m.emitted[Len(machine.emitted) + 1] = m.reason
      BY <3>1
    <3>3. TakenIn' = Len(machine.emitted)
      BY <2>1, <2>2, <2>4, <3>1, <3>2 DEF TakenIn
    <3>4. OutputsFaithful'
      BY <1>2, <1>8, <2>1, <3>1, <3>3, ListSurvives
    <3> QED
      BY <2>1, <2>2, <3>1, <3>2, <3>4 DEF OutputsInPlace, Preparing
  <2> QED BY <2>3, <2>4
<1>11. CASE RunIgnoresYield
  <2>1. PICK m \in Ran(machine, limit) :
           /\ Increments(m) /\ at' = "run" /\ UNCHANGED <<vouchers, notices, reports>>
           /\ ~IsRead(m) /\ ~m.y /\ m.x
    BY <1>11 DEF RunIgnoresYield, Increments
  <2>2. machine' = m /\ m.emitted = Append(machine.emitted, m.reason) /\ m.reason \in Reasons
    BY <1>8, <2>1
  <2>3. m.reason # "report" /\ (kind = "advance" => m.reason \notin Outputs)
    BY <2>1 DEF IsRead, Outputs
  <2>4. TakenIn' = Len(machine.emitted) + 1
    BY <2>1, <2>2 DEF TakenIn
  <2>5. OutputsFaithful'
    BY <1>2, <1>8, <2>1, <2>2, <2>3, <2>4, ListSurvives DEF Outputs
  <2> QED BY <2>1, <2>5 DEF OutputsInPlace, Preparing
<1>12. CASE HeaderRead
  <2>1. /\ at = "header" /\ at' = "payload" /\ TakenIn' = TakenIn
        /\ UNCHANGED <<kind, machine, vouchers, notices, reports>>
    BY <1>12 DEF HeaderRead, TakenIn
  <2>2. ASSUME HeaderOf(machine.reason) <= TxLength
        PROVE  HeaderOf(machine.reason) + length' <= TxLength
    <3>1. HeaderOf(machine.reason) \in Word /\ TxLength \in Word
      BY MachineRunAssumption DEF HeaderOf, Word
    <3>2. Sub(TxLength, HeaderOf(machine.reason)) = TxLength - HeaderOf(machine.reason)
      BY <2>2, <3>1, WordArithmetic
    <3>3. length' <= TxLength - HeaderOf(machine.reason) /\ length' \in Word
      BY <1>12, <3>2, TypeStep DEF HeaderRead, Fits, TypeOK
    <3> QED
      BY <3>1, <3>3, MachineRunAssumption DEF Word
  <2> QED
    BY <2>1, <2>2 DEF OutputsInPlace, OutputsFaithful, Lists, Preparing
<1>13. CASE ExceptionRead
  BY <1>13, <1>3 DEF ExceptionRead, Leave, Preparing
<1>14. CASE PayloadRead
  <2>1. /\ at = "payload" /\ machine.x /\ at' = "run" /\ UNCHANGED <<kind, machine>>
        /\ machine.reason \in (IF kind = "advance" THEN Outputs ELSE {"report"})
    BY <1>14 DEF PayloadRead, MachineInPlace, IsRead
  <2>2. /\ Len(machine.emitted) \in Nat /\ Len(machine.emitted) > 0
        /\ machine.emitted[Len(machine.emitted)] = machine.reason
    BY <2>1 DEF OutputsInPlace
  <2>3. TakenIn = Len(machine.emitted) - 1 /\ TakenIn' = Len(machine.emitted)
    BY <2>1, <2>2 DEF TakenIn
  <2>4. ASSUME NEW list \in Seq(Nat), NEW r,
               ListsUpTo(list, machine.emitted, Len(machine.emitted) - 1, r)
        PROVE  ListsUpTo(Extended(list, r), machine.emitted, Len(machine.emitted), r)
    BY <2>2, <2>4, ListCompleted DEF Extended
  <2>5. vouchers \in Seq(Nat) /\ notices \in Seq(Nat) /\ reports \in Seq(Nat)
    BY DEF TypeOK
  <2>6. All(vouchers, notices, reports, machine.emitted, Len(machine.emitted) - 1)
    BY <1>1, <2>1, <2>3
  <2>7. All(vouchers', notices', reports', machine.emitted, Len(machine.emitted))
    <3>1. /\ vouchers' = Extended(vouchers, "voucher")
          /\ notices' = Extended(notices, "notice")
          /\ reports' = Extended(reports, "report")
      BY <1>14 DEF PayloadRead
    <3>2. kind # "advance" => vouchers' = vouchers /\ notices' = notices
      BY <2>1, <3>1 DEF Extended
    <3> QED
      BY <2>4, <2>5, <2>6, <3>1, <3>2
  <2>8. OutputsFaithful'
    BY <1>2, <2>1, <2>3, <2>7
  <2> QED BY <2>1, <2>8 DEF OutputsInPlace, Preparing
<1>15. CASE VouchersProved \/ NoticesProved \/ VouchersCounted \/ NoticesCounted
  <2>1. /\ at \in Proving /\ at' \in Proving
        /\ UNCHANGED <<kind, machine, vouchers, notices, reports>>
    BY <1>15 DEF VouchersProved, NoticesProved, VouchersCounted, NoticesCounted, Counted,
                 Proving
  <2>2. TakenIn' = TakenIn
    BY <2>1 DEF TakenIn, Proving
  <2>3. OutputsFaithful'
    BY <1>1, <1>2, <2>1, <2>2 DEF Proving
  <2> QED BY <2>1, <2>3 DEF OutputsInPlace, Preparing, Proving
<1>16. CASE at' \in {"idle", "rolled_back", "tainted"}
  BY <1>3, <1>16 DEF Preparing
<1> QED
  BY <1>4, <1>5, <1>6, <1>7, <1>9, <1>10, <1>11, <1>12, <1>13, <1>14, <1>15, <1>16
     DEF Next, Step, Prepare, RunMachine, ReadTx, Record, CallFails, AckRefused,
         LengthRefused, VouchersMiscounted, NoticesMiscounted, Miscounted, Taint,
         RunMakesNoSense, InputAccepted, RolledBack, InputSkipped

-----------------------------------------------------------------------------
(* The honest machine. *)

\* One more yield is one more in the count of its reason.
LEMMA CountAppended ==
    ASSUME NEW m \in Machine, NEW w \in Machine, NEW q \in Reasons, NEW r,
           w.emitted = Append(m.emitted, q)
    PROVE  Count(w, r) = Count(m, r) + (IF q = r THEN 1 ELSE 0)
<1> DEFINE em == m.emitted
           n == Len(em)
           S == {i \in DOMAIN em : em[i] = r}
           T == {i \in DOMAIN w.emitted : w.emitted[i] = r}
<1>1. em \in Seq(Reasons) /\ n \in Nat /\ DOMAIN em = 1..n
  BY DEF Machine
<1>2. /\ DOMAIN w.emitted = 1..(n + 1) /\ w.emitted[n + 1] = q
      /\ \A i \in 1..n : w.emitted[i] = em[i]
  BY <1>1
<1>3. IsFiniteSet(S) /\ Cardinality(S) \in Nat
  <2>1. IsFiniteSet(1..n) /\ S \in SUBSET (1..n)
    BY <1>1, FS_Interval
  <2>2. IsFiniteSet(S)
    BY <2>1, FS_Subset
  <2> QED BY <2>2, FS_CardinalityType
<1>4. CASE q = r
  <2>1. T = S \cup {n + 1} /\ n + 1 \notin S
    BY <1>1, <1>2, <1>4
  <2>2. Cardinality(T) = Cardinality(S) + 1
    BY <1>3, <2>1, FS_AddElement
  <2> QED BY <1>4, <2>2 DEF Count
<1>5. CASE q # r
  <2>1. T = S
    BY <1>1, <1>2, <1>5
  <2>2. Count(w, r) = Count(m, r) /\ Count(m, r) \in Nat
    BY <1>3, <2>1 DEF Count
  <2> QED BY <1>5, <2>2
<1> QED BY <1>4, <1>5

\* Counts are numbers, and there are none without yields.
LEMMA CountType ==
    ASSUME NEW m \in Machine, NEW r
    PROVE  Count(m, r) \in Nat /\ (m.emitted = <<>> => Count(m, r) = 0)
<1> DEFINE S == {i \in DOMAIN m.emitted : m.emitted[i] = r}
<1>1. m.emitted \in Seq(Reasons) /\ Len(m.emitted) \in Nat
      /\ DOMAIN m.emitted = 1..Len(m.emitted)
  BY DEF Machine
<1>2. IsFiniteSet(1..Len(m.emitted)) /\ S \in SUBSET (1..Len(m.emitted))
  BY <1>1, FS_Interval
<1>3. IsFiniteSet(S)
  BY <1>2, FS_Subset
<1>4. m.emitted = <<>> => S = {}
  OBVIOUS
<1> QED BY <1>3, <1>4, FS_CardinalityType, FS_EmptySet DEF Count

\* An honest machine fills in the next entry.
LEMMA FilledMore ==
    ASSUME NEW m, m.honest, NEW n \in Nat, NEW h, Filled(h, n), NEW w \in WithHash(m, h, n)
    PROVE  Filled(w, n + 1)
<1>1. n \in Slots /\ w = [h EXCEPT ![n] = TRUE]
  BY DEF WithHash
<1>2. n + 1 <= HashSlots
  BY <1>1, MachineRunAssumption DEF Slots
<1>3. h \in [Slots -> BOOLEAN] /\ \A i \in Slots : i \in Int /\ (h[i] <=> i < n)
  BY MachineRunAssumption DEF Filled, Slots
<1>4. w \in [Slots -> BOOLEAN]
  BY <1>1, <1>3
<1>5. ASSUME NEW i \in Slots PROVE w[i] <=> i < n + 1
  <2>1. CASE i = n
    BY <1>1, <1>3, <2>1
  <2>2. CASE i # n
    BY <1>1, <1>3, <2>2
  <2> QED BY <2>1, <2>2
<1> QED BY <1>2, <1>4, <1>5 DEF Filled

\* count_null_terminated_entries finds what an honest machine filled in.
LEMMA EntriesFilled ==
    ASSUME NEW n \in Nat, NEW h, Filled(h, n)
    PROVE  CountEntries(h) = n
<1> DEFINE Before(i) == \A j \in 0..i : h[j]
<1>1. \A i \in Slots : Before(i) <=> i <= n - 1
  <2> TAKE i \in Slots
  <2>1. i \in 0..i /\ i \in Nat /\ \A j \in 0..i : j \in Slots /\ j \in Nat
    BY MachineRunAssumption DEF Slots
  <2>2. \A j \in 0..i : h[j] <=> j < n
    BY <2>1 DEF Filled
  <2> QED BY <2>1, <2>2
<1>2. 0..(n - 1) \subseteq Slots
  BY MachineRunAssumption DEF Filled, Slots
<1> HIDE DEF Before
<1>3. {i \in Slots : Before(i)} = 0..(n - 1)
  BY <1>1, <1>2, MachineRunAssumption DEF Slots
<1>4. Cardinality(0..(n - 1)) = n
  BY FS_Interval
<1> QED BY <1>3, <1>4 DEF CountEntries, Before

\* No step of an honest machine gives the manager a reason to taint the session.
LEMMA HonestStep == IInv /\ Next => HonestInPlace'
<1> SUFFICES ASSUME IInv, Next, machine'.honest
             PROVE  /\ taint' = "none"
                    /\ at' = "header" => HeaderOf(machine'.reason) + machine'.tx <= TxLength
                    /\ kind' = "advance" /\ at' \in Preparing \ {"clear"} =>
                        /\ machine'.voucher_hashes = NoHashes
                        /\ machine'.notice_hashes = NoHashes
                    /\ kind' = "advance" /\ at' \in Reading \cup Proving \cup {"run"} =>
                        /\ Filled(machine'.voucher_hashes, Count(machine', "voucher"))
                        /\ Filled(machine'.notice_hashes, Count(machine', "notice"))
                        /\ AllKept(vouchers, "voucher")' /\ AllKept(notices, "notice")'
  BY DEF HonestInPlace
<1> USE DEF request, epoch, run, outcome
<1> TypeOK /\ MachineInPlace /\ TreesInPlace /\ OutputsInPlace /\ HonestInPlace
    /\ machine \in Machine
  BY DEF IInv, TypeOK
<1> DEFINE FilledIn(m) == /\ Filled(m.voucher_hashes, Count(m, "voucher"))
                          /\ Filled(m.notice_hashes, Count(m, "notice"))
           Goal == /\ taint' = "none"
                   /\ at' = "header" => HeaderOf(machine'.reason) + machine'.tx <= TxLength
                   /\ kind' = "advance" /\ at' \in Preparing \ {"clear"} =>
                        /\ machine'.voucher_hashes = NoHashes
                        /\ machine'.notice_hashes = NoHashes
                   /\ kind' = "advance" /\ at' \in Reading \cup Proving \cup {"run"} =>
                        /\ FilledIn(machine')
                        /\ AllKept(vouchers, "voucher")' /\ AllKept(notices, "notice")'
<1>1. ASSUME machine.honest, UNCHANGED taint,
             at' \notin (Preparing \ {"clear"}) \cup Reading \cup Proving \cup {"run"}
      PROVE  Goal
  BY <1>1 DEF HonestInPlace, Reading
<1>2. CASE CallFails
  BY <1>2 DEF CallFails
<1>3. CASE AckRefused
  BY <1>3 DEF AckRefused, MachineInPlace, Preparing, RequestId
<1>4. CASE LengthRefused
  <2>1. at = "header" /\ machine.honest /\ ~Fits(machine.tx)
    BY <1>4 DEF LengthRefused
  <2>2. HeaderOf(machine.reason) + machine.tx <= TxLength
    BY <2>1 DEF HonestInPlace
  <2>3. HeaderOf(machine.reason) \in Word /\ TxLength \in Word
    BY MachineRunAssumption DEF HeaderOf, Word
  <2>4. machine.tx \in Lengths \cup {0}
    BY DEF Machine
  <2>5. \A n \in Lengths \cup {0} : n \in Nat
    BY MachineRunAssumption
  <2>6. machine.tx \in Nat
    BY <2>4, <2>5, Zenon
  <2>7. HeaderOf(machine.reason) <= TxLength
    BY <2>2, <2>3, <2>6, MachineRunAssumption DEF Word
  <2>8. Sub(TxLength, HeaderOf(machine.reason)) = TxLength - HeaderOf(machine.reason)
    BY <2>3, <2>7, WordArithmetic
  <2>9. Fits(machine.tx)
    BY <2>2, <2>3, <2>6, <2>8, MachineRunAssumption DEF Fits, Word
  <2> QED BY <2>1, <2>9
<1>5. ASSUME machine.honest, kind = "advance", at \in Proving
      PROVE  /\ CountEntries(machine.voucher_hashes) = Len(vouchers)
             /\ CountEntries(machine.notice_hashes) = Len(notices)
  <2>1. FilledIn(machine) /\ AllKept(vouchers, "voucher") /\ AllKept(notices, "notice")
    BY <1>5 DEF HonestInPlace
  <2>2. Count(machine, "voucher") \in Nat /\ Count(machine, "notice") \in Nat
    BY CountType
  <2>3. Len(vouchers) \in Nat /\ Len(notices) \in Nat
    BY DEF TypeOK
  <2>4. Len(vouchers) = Count(machine, "voucher") /\ Len(notices) = Count(machine, "notice")
    BY <1>5, <2>1, <2>3 DEF AllKept, Reading, Proving
  <2> QED BY <2>1, <2>2, <2>4, EntriesFilled
<1>6. CASE VouchersMiscounted \/ NoticesMiscounted
  BY <1>5, <1>6 DEF VouchersMiscounted, NoticesMiscounted, Miscounted, MachineInPlace,
                    Proving
<1>7. ASSUME NEW k \in {"advance", "inspect"}, NEW n \in PayloadSizes, Begin(k, n)
      PROVE  Goal
  BY <1>1, <1>7 DEF Begin, Preparing, Reading, Proving
<1>8. CASE SnapshotTaken
  BY <1>1, <1>8 DEF SnapshotTaken, Preparing, Reading, Proving
<1>9. CASE RangesCleared \/ PayloadWritten \/ MetadataWritten \/ IflagsYReset
  <2>1. /\ machine'.honest = machine.honest
        /\ kind = "advance" =>
            \/ machine'.voucher_hashes = NoHashes /\ machine'.notice_hashes = NoHashes
            \/ /\ machine'.voucher_hashes = machine.voucher_hashes
               /\ machine'.notice_hashes = machine.notice_hashes /\ ~RangesCleared
    BY <1>9 DEF RangesCleared, PayloadWritten, MetadataWritten, IflagsYReset, Prepared,
                AllCleared, Machine
  <2>2. /\ at' \in Preparing /\ UNCHANGED <<kind, taint>>
        /\ ~RangesCleared => at \in Preparing \ {"clear"}
    BY <1>9 DEF RangesCleared, PayloadWritten, MetadataWritten, IflagsYReset, Prepared,
                Preparing
  <2> QED
    BY <2>1, <2>2 DEF HonestInPlace, Preparing, Reading, Proving
<1>10. CASE AckReady
  <2>1. /\ machine'.honest = machine.honest /\ machine'.emitted = machine.emitted
        /\ machine'.voucher_hashes = machine.voucher_hashes
        /\ machine'.notice_hashes = machine.notice_hashes
    BY <1>10 DEF AckReady, Machine
  <2>2. /\ at = "ack" /\ at' = "run" /\ vouchers' = <<>> /\ notices' = <<>>
        /\ UNCHANGED <<kind, taint>> /\ machine.emitted = <<>>
    BY <1>10 DEF AckReady, OutputsInPlace, Preparing
  <2>3. machine' \in Machine
    BY TypeStep DEF TypeOK
  <2>4. Count(machine', "voucher") = 0 /\ Count(machine', "notice") = 0
    BY <2>1, <2>2, <2>3, CountType
  <2>5. Filled(NoHashes, 0)
    BY MachineRunAssumption DEF Filled, NoHashes, Slots
  <2>6. AllKept(vouchers, "voucher")' /\ AllKept(notices, "notice")'
    BY <2>2, <2>4 DEF AllKept, Reading
  <2> QED
    BY <2>1, <2>2, <2>4, <2>5, <2>6 DEF HonestInPlace, Preparing
<1>11. ASSUME NEW m \in Ran(machine, limit), Increments(m)
       PROVE  /\ at = "run" /\ machine' = m /\ m \in Machine /\ machine.honest
              /\ UNCHANGED kind
              /\ \/ RanQuietly(machine, m) \/ RanToManual(machine, m)
                 \/ RanToAutomatic(machine, m)
              /\ taint = "none"
              /\ kind = "advance" => /\ FilledIn(machine) /\ AllKept(vouchers, "voucher")
                                     /\ AllKept(notices, "notice")
  BY <1>11, IncrementShape DEF Increments, HonestInPlace
<1>12. ASSUME NEW m \in Ran(machine, limit), Increments(m), ~m.x \/ m.reason = "other",
              at' \in {"run", "voucher_proof", "header"}, at' = "header" => ~m.x,
              UNCHANGED <<vouchers, notices>>, kind = "advance"
       PROVE  /\ FilledIn(machine')
              /\ AllKept(vouchers, "voucher")' /\ AllKept(notices, "notice")'
  <2>1. /\ m.voucher_hashes = machine.voucher_hashes
        /\ m.notice_hashes = machine.notice_hashes
        /\ \/ m.emitted = machine.emitted
           \/ m.emitted = Append(machine.emitted, "other")
    BY <1>11, <1>12 DEF RanQuietly, RanToManual, RanToAutomatic
  <2>2. Count(machine, "voucher") \in Nat /\ Count(machine, "notice") \in Nat
    BY CountType
  <2>3. /\ Count(m, "voucher") = Count(machine, "voucher")
        /\ Count(m, "notice") = Count(machine, "notice")
    <3>1. CASE m.emitted = machine.emitted
      BY <3>1 DEF Count
    <3>2. CASE m.emitted = Append(machine.emitted, "other")
      <4>1. "other" \in Reasons
        BY DEF Reasons
      <4> QED BY <1>11, <1>12, <2>2, <3>2, <4>1, CountAppended
    <3> QED BY <2>1, <3>1, <3>2
  <2> QED
    BY <1>11, <1>12, <2>1, <2>3 DEF AllKept, Reading
<1>13. CASE RunGoesOn
  <2>1. PICK m \in Ran(machine, limit) :
           /\ Increments(m) /\ ~m.x /\ at' = "run"
           /\ UNCHANGED <<taint, vouchers, notices>>
    BY <1>13 DEF RunGoesOn, Returns, Increments
  <2> QED
    BY <1>11, <1>12, <2>1 DEF Preparing
<1>14. CASE RunEnds
  <2>1. PICK m \in Ran(machine, limit) :
           /\ Increments(m) /\ Leave(EndOfRun(m)) /\ UNCHANGED <<vouchers, notices>>
    BY <1>14 DEF RunEnds
  <2>2. at = "run" /\ EndOfRun(m) = "accepted" => ~m.x
    <3>1. EndOfRun(m) = "accepted" => m.y
      BY DEF EndOfRun
    <3> QED BY <1>11, <2>1, <3>1 DEF RanQuietly, RanToManual, RanToAutomatic
  <2>3. UNCHANGED taint /\ (at' = "rollback" \/ (at' = "voucher_proof" /\ ~m.x))
    BY <1>11, <2>1, <2>2, LeaveClean DEF Reading
  <2> QED
    BY <1>11, <1>12, <2>1, <2>3 DEF Preparing, Reading, Proving
<1>15. CASE RunIgnoresYield
  <2>1. PICK m \in Ran(machine, limit) :
           /\ Increments(m) /\ m.x /\ ~m.y /\ ~IsRead(m) /\ at' = "run"
           /\ UNCHANGED <<taint, vouchers, notices>>
    BY <1>15 DEF RunIgnoresYield, Increments
  <2>2. kind = "advance" => m.reason = "other"
    BY <1>11, <2>1 DEF IsRead, RanQuietly, RanToManual, RanToAutomatic
  <2> QED
    BY <1>11, <1>12, <2>1, <2>2 DEF Preparing
<1>16. CASE RunMakesNoSense
  <2>1. PICK m \in Ran(machine, limit) :
           /\ Increments(m) /\ Returns(m) /\ EndOfRun(m) = "none" /\ ~IsRead(m)
           /\ m.y \/ ~m.x
    BY <1>16 DEF RunMakesNoSense
  <2>2. m.y
    BY <2>1 DEF Returns, EndOfRun
  <2>3. m.reason \in {"rx_accepted", "rx_rejected", "tx_exception"}
    BY <1>11, <2>1, <2>2 DEF RanQuietly, RanToManual, RanToAutomatic
  <2> QED
    BY <2>1, <2>2, <2>3 DEF EndOfRun, IsRead
<1>17. CASE RunHasOutput
  <2>1. PICK m \in Ran(machine, limit) :
           /\ Increments(m) /\ IsRead(m) /\ at' = "header"
           /\ UNCHANGED <<taint, vouchers, notices>>
    BY <1>17 DEF RunHasOutput
  <2>2. HeaderOf(m.reason) + m.tx <= TxLength
    BY <1>11, <2>1
       DEF IsRead, RanQuietly, RanToManual, RanToAutomatic, Outputs
  <2>3. CASE ~m.x
    BY <1>11, <1>12, <2>1, <2>2, <2>3 DEF Preparing
  <2>4. CASE m.x /\ kind = "advance"
    <3>1. RanToAutomatic(machine, m) /\ m.reason \in Outputs
      BY <1>11, <2>1, <2>4 DEF IsRead, RanQuietly, RanToManual, RanToAutomatic
    <3>2. m.reason \in Reasons /\ m.emitted = Append(machine.emitted, m.reason)
      BY <3>1 DEF RanToAutomatic, Reasons
    <3>3. Count(machine, "voucher") \in Nat /\ Count(machine, "notice") \in Nat
      BY CountType
    <3>4. /\ Count(m, "voucher") = Count(machine, "voucher")
                                   + (IF m.reason = "voucher" THEN 1 ELSE 0)
          /\ Count(m, "notice") = Count(machine, "notice")
                                  + (IF m.reason = "notice" THEN 1 ELSE 0)
      BY <1>11, <2>1, <3>2, CountAppended
    <3>5. FilledIn(machine) /\ AllKept(vouchers, "voucher") /\ AllKept(notices, "notice")
      BY <1>11, <2>1, <2>4
    <3>6. Filled(m.voucher_hashes, Count(m, "voucher"))
      <4>1. CASE m.reason = "voucher"
        BY <1>11, <2>1, <3>1, <3>3, <3>4, <3>5, <4>1, FilledMore DEF RanToAutomatic
      <4>2. CASE m.reason # "voucher"
        BY <3>1, <3>3, <3>4, <3>5, <4>2 DEF RanToAutomatic
      <4> QED BY <4>1, <4>2
    <3>7. Filled(m.notice_hashes, Count(m, "notice"))
      <4>1. CASE m.reason = "notice"
        BY <1>11, <2>1, <3>1, <3>3, <3>4, <3>5, <4>1, FilledMore DEF RanToAutomatic
      <4>2. CASE m.reason # "notice"
        BY <3>1, <3>3, <3>4, <3>5, <4>2 DEF RanToAutomatic
      <4> QED BY <4>1, <4>2
    <3>8. AllKept(vouchers, "voucher")' /\ AllKept(notices, "notice")'
      <4>1. Len(vouchers) \in Nat /\ Len(notices) \in Nat /\ at = "run" /\ machine' = m
        BY <1>11, <2>1 DEF TypeOK
      <4> QED
        BY <2>1, <2>4, <3>3, <3>4, <3>5, <4>1 DEF AllKept, Reading
    <3> QED
      BY <1>11, <2>1, <2>2, <3>6, <3>7, <3>8 DEF Preparing
  <2>5. CASE m.x /\ kind # "advance"
    BY <1>11, <2>1, <2>2, <2>5 DEF Preparing
  <2> QED BY <2>3, <2>4, <2>5
<1>18. CASE HeaderRead
  <2>1. AllKept(vouchers, "voucher")' = AllKept(vouchers, "voucher")
        /\ AllKept(notices, "notice")' = AllKept(notices, "notice")
    BY <1>18 DEF HeaderRead, AllKept, Reading
  <2> QED
    BY <1>18, <2>1 DEF HeaderRead, HonestInPlace, Preparing, Reading, Proving
<1>19. CASE ExceptionRead
  <2>1. at = "payload" /\ Leave("exception") /\ UNCHANGED machine
    BY <1>19 DEF ExceptionRead
  <2>2. at' = "rollback" /\ UNCHANGED taint
    BY <2>1, LeaveClean DEF Reading
  <2> QED
    BY <1>1, <2>1, <2>2 DEF Preparing, Reading, Proving
<1>20. CASE PayloadRead
  <2>1. /\ at = "payload" /\ at' = "run" /\ machine.x /\ UNCHANGED <<kind, machine, taint>>
        /\ vouchers' = Extended(vouchers, "voucher")
        /\ notices' = Extended(notices, "notice")
    BY <1>20 DEF PayloadRead, MachineInPlace, Reading, IsRead
  <2>2. /\ vouchers \in Seq(Nat) /\ notices \in Seq(Nat) /\ Len(machine.emitted) \in Nat
        /\ Len(vouchers) \in Nat /\ Len(notices) \in Nat
    BY DEF TypeOK, Machine
  <2>3. /\ Len(vouchers') = Len(vouchers) + (IF machine.reason = "voucher" THEN 1 ELSE 0)
        /\ Len(notices') = Len(notices) + (IF machine.reason = "notice" THEN 1 ELSE 0)
    BY <2>1, <2>2 DEF Extended
  <2>4. kind = "advance" => /\ AllKept(vouchers, "voucher")' /\ AllKept(notices, "notice")'
                            /\ FilledIn(machine)
    <3> SUFFICES ASSUME kind = "advance"
                 PROVE  /\ AllKept(vouchers, "voucher")' /\ AllKept(notices, "notice")'
                        /\ FilledIn(machine)
      OBVIOUS
    <3>1. AllKept(vouchers, "voucher") /\ AllKept(notices, "notice") /\ FilledIn(machine)
      BY <2>1 DEF HonestInPlace, Reading
    <3>2. /\ Len(vouchers') = Count(machine, "voucher")
          /\ Len(notices') = Count(machine, "notice")
      BY <2>1, <2>3, <3>1 DEF AllKept, Reading
    <3>3. Len(vouchers') \in Nat /\ Len(notices') \in Nat
      BY <2>2, <2>3
    <3>4. AllKept(vouchers, "voucher")' /\ AllKept(notices, "notice")'
      BY <2>1, <3>2, <3>3 DEF AllKept, Reading
    <3> QED BY <3>1, <3>4
  <2> QED
    BY <2>1, <2>4 DEF HonestInPlace, Preparing
<1>21. CASE VouchersProved \/ NoticesProved \/ VouchersCounted \/ NoticesCounted
  <2>1. /\ at \in Proving /\ at' \in Proving
        /\ UNCHANGED <<kind, machine, vouchers, notices, taint>>
    BY <1>21 DEF VouchersProved, NoticesProved, VouchersCounted, NoticesCounted, Counted,
                 Proving
  <2>2. AllKept(vouchers, "voucher")' = AllKept(vouchers, "voucher")
        /\ AllKept(notices, "notice")' = AllKept(notices, "notice")
    BY <2>1 DEF AllKept, Reading, Proving
  <2> QED
    BY <2>1, <2>2 DEF HonestInPlace, Preparing, Reading, Proving
<1>22. CASE InputAccepted \/ RolledBack \/ InputSkipped
  <2>1. machine'.honest = machine.honest /\ at' \in {"idle", "rolled_back"} /\ UNCHANGED taint
    BY <1>22 DEF InputAccepted, RolledBack, InputSkipped, MachineInPlace
  <2> QED
    BY <1>1, <2>1 DEF Preparing, Reading, Proving
<1> QED
  BY <1>2, <1>3, <1>4, <1>6, <1>7, <1>8, <1>9, <1>10, <1>13, <1>14, <1>15, <1>16, <1>17,
     <1>18, <1>19, <1>20, <1>21, <1>22
     DEF Next, Step, Prepare, RunMachine, ReadTx, Record

-----------------------------------------------------------------------------
(* The theorems. *)

\* The state StartSession leaves satisfies the invariant.
LEMMA InitIInv == Init => IInv
<1> SUFFICES ASSUME Init PROVE IInv
  OBVIOUS
<1> USE MachineRunAssumption
<1>1. PICK b \in BOOLEAN : machine = FirstMachine(current_mcycle, b) /\ saved = machine
  BY DEF Init
<1>2. current_mcycle \in Word
  BY DEF Init, Word
<1>3. machine \in Machine
  <2>1. NoHashes \in [Slots -> BOOLEAN] /\ <<>> \in Seq(Reasons) /\ 0 \in 0..MaxJobs
        /\ "rx_accepted" \in Reasons
    BY DEF NoHashes, Reasons
  <2> QED
    BY <1>1, <1>2, <2>1 DEF FirstMachine, Machine
<1>4. TypeOK
  <2>1. odd \in BOOLEAN
    BY Zenon DEF Init
  <2>2. /\ 0 \in Word /\ 0 \in 0..MaxElapsed /\ 0 \in 0..MaxJobs
        /\ "accepted" \in Skips \cup {"accepted"}
    BY DEF Word
  <2> QED
    BY <1>1, <1>2, <1>3, <2>1, <2>2 DEF Init, TypeOK, Labels
<1>5. Ready(machine)
  BY <1>1 DEF FirstMachine, Ready
<1>6. MachineInPlace /\ RequestInPlace
  BY <1>1, <1>5 DEF Init, MachineInPlace, RequestInPlace, GoesOn, Preparing, Reading, Proving
<1>7. LimitsInPlace /\ CyclesKept /\ DeadlineKept
  BY <1>2, <1>5 DEF Init, LimitsInPlace, CyclesKept, DeadlineKept, Ready, Reading, Word
<1>8. TreesInPlace
  BY DEF Init, TreesInPlace, TreeAgrees
<1>9. OutputsInPlace /\ OutputsFaithful
  BY DEF Init, OutputsInPlace, OutputsFaithful, Preparing, Reading
<1>10. HonestInPlace /\ NoSilentReturn
  BY DEF Init, HonestInPlace, NoSilentReturn, Preparing, Reading, Proving
<1> QED BY <1>4, <1>6, <1>7, <1>8, <1>9, <1>10 DEF IInv

\* The invariant depends on the variables alone.
LEMMA Stutter == IInv /\ UNCHANGED vars => IInv'
<1> SUFFICES ASSUME IInv, UNCHANGED vars PROVE IInv'
  OBVIOUS
<1>1. UNCHANGED <<at, kind, size, job, current_mcycle, taint, processed, vouchers_tree,
                  notices_tree, cycle, max_mcycle, limit, elapsed, odd, length, vouchers,
                  notices, reports, status, machine, saved>>
  BY DEF vars, request, epoch, run, outcome
<1>2. TypeOK' /\ NoSilentReturn'
  BY <1>1 DEF IInv, TypeOK, NoSilentReturn
<1>3. MachineInPlace' /\ RequestInPlace'
  BY <1>1 DEF IInv, MachineInPlace, RequestInPlace, GoesOn, Ready, IsRead, RequestId
<1>4. LimitsInPlace' /\ CyclesKept' /\ DeadlineKept'
  BY <1>1 DEF IInv, LimitsInPlace, CyclesKept, DeadlineKept
<1>5. TreesInPlace'
  BY <1>1 DEF IInv, TreesInPlace, TreeAgrees
<1>6. OutputsInPlace' /\ OutputsFaithful'
  <2>1. TakenIn' = TakenIn
    BY <1>1 DEF TakenIn
  <2>2. /\ Lists(reports, "report")' <=> Lists(reports, "report")
        /\ Lists(vouchers, "voucher")' <=> Lists(vouchers, "voucher")
        /\ Lists(notices, "notice")' <=> Lists(notices, "notice")
    BY <1>1, <2>1 DEF Lists
  <2> QED
    BY <1>1, <2>2 DEF IInv, OutputsInPlace, OutputsFaithful
<1>7. HonestInPlace'
  BY <1>1 DEF IInv, HonestInPlace, AllKept
<1> QED BY <1>2, <1>3, <1>4, <1>5, <1>6, <1>7 DEF IInv

\* The invariant holds in every state.
THEOREM Invariance == Spec => []IInv
<1>1. IInv /\ [Next]_vars => IInv'
  <2>1. CASE Next
    BY <2>1, TypeStep, MachineStep, RequestStep, LimitsStep, DeadlineStep, TreesStep,
       SilentStep, OutputsStep, HonestStep DEF IInv
  <2>2. CASE UNCHANGED vars
    BY <2>2, Stutter
  <2> QED BY <2>1, <2>2
<1> QED BY <1>1, InitIInv, PTL DEF Spec

\* Between two requests, machine and session agree on the cycle, and the trees of the
\* epoch on which inputs were accepted, whatever the machine did.
THEOREM RecordsStayTogether == Spec => []RecordsAgree
<1>1. IInv => RecordsAgree
  <2> SUFFICES ASSUME IInv PROVE RecordsAgree
    OBVIOUS
  <2>1. TypeOK /\ MachineInPlace /\ TreesInPlace
    BY DEF IInv
  <2>2. DOMAIN vouchers_tree = 1..Len(vouchers_tree)
        /\ DOMAIN notices_tree = 1..Len(notices_tree) /\ Len(processed) \in Nat
    BY <2>1 DEF TypeOK
  <2>3. at = "idle" => Ready(machine)
    BY <2>1 DEF MachineInPlace
  <2>4. at = "idle" => \A tree \in {vouchers_tree, notices_tree} :
            /\ Len(tree) = Len(processed)
            /\ \A i \in DOMAIN tree : tree[i] = "hashes" <=> processed[i] = "accepted"
    <3> SUFFICES ASSUME at = "idle", NEW tree \in {vouchers_tree, notices_tree}
                 PROVE  /\ Len(tree) = Len(processed)
                        /\ \A i \in DOMAIN tree :
                                tree[i] = "hashes" <=> processed[i] = "accepted"
      OBVIOUS
    <3>1. TreeAgrees(vouchers_tree, FALSE, "hashes") /\ TreeAgrees(notices_tree, FALSE, "hashes")
      BY <2>1 DEF TreesInPlace, TreeAgrees
    <3>2. TreeAgrees(tree, FALSE, "hashes") /\ DOMAIN tree = 1..Len(tree)
      BY <2>2, <3>1
    <3> QED
      BY <2>2, <3>2 DEF TreeAgrees
  <2> QED BY <2>1, <2>3, <2>4 DEF RecordsAgree, Ready
<1> QED BY <1>1, Invariance, PTL

\* No request runs the machine past its cycles or is given up before them, for any
\* increment and any number of yields.
THEOREM CyclesStayKept == Spec => []CyclesKept
<1>1. IInv => CyclesKept BY DEF IInv
<1> QED BY <1>1, Invariance, PTL

\* No request is given up before its deadline, or run past it but after an automatic
\* yield.
THEOREM DeadlineStaysKept == Spec => []DeadlineKept
<1>1. IInv => DeadlineKept BY DEF IInv
<1> QED BY <1>1, Invariance, PTL

\* Vouchers, notices and reports are those the machine yielded, in order.
THEOREM OutputsStayFaithful == Spec => []OutputsFaithful
<1>1. IInv => OutputsFaithful BY DEF IInv
<1> QED BY <1>1, Invariance, PTL

\* The machine runs on the request in hand.
THEOREM RequestInHand == Spec => []RightRequest
<1>1. IInv => RightRequest BY DEF IInv, RequestInPlace, RightRequest
<1> QED BY <1>1, Invariance, PTL

\* An honest machine never has its session tainted.
THEOREM HonestStaysUntainted == Spec => []HonestNotTainted
<1>1. IInv => HonestNotTainted BY DEF IInv, HonestInPlace, HonestNotTainted
<1> QED BY <1>1, Invariance, PTL

\* The two tests of the code that are there for peace of mind never fail.
THEOREM NeverSilent == Spec => []NoSilentReturn
<1>1. IInv => NoSilentReturn BY DEF IInv
<1> QED BY <1>1, Invariance, PTL
=============================================================================
