--------------------------- MODULE SessionClients ---------------------------
(***************************************************************************)
(* A session and its clients.  Session lets them send anything at any      *)
(* time, and some of what a reader of the code expects then does not hold, *)
(* because session_lock is cleared by strangers.  Here it is remembered    *)
(* what discipline the clients have kept to so far, in what they sent      *)
(* while an earlier request was being served, and the properties below are *)
(* the ones they earn by it.                                               *)
(***************************************************************************)
EXTENDS SessionLedger

VARIABLE clients    \* history: the disciplines clients have kept to so far

clientVars == <<vars, clients>>

Others == RpcKinds \ {"AdvanceState", "DeleteEpoch"}

\* The pairs of an RPC that is being served and one that may be sent meanwhile.
\*   serial:  AdvanceStates do not overlap each other, and at most one other
\*            request is sent while one is being served, not a DeleteEpoch;
\*   queue:   AdvanceStates pile up; other requests are sent one at a time, and a
\*            DeleteEpoch never while an AdvanceState is being served;
\*   within:  the same, and a FinishEpoch never while one is being served either.
Overlap ==
    [serial |-> {"AdvanceState"} \X Others,
     queue  |-> {"AdvanceState"} \X (Others \cup {"AdvanceState"}),
     within |-> {"AdvanceState"} \X ((Others \cup {"AdvanceState"})
                                        \ {"FinishEpoch"})]

\* Does a request that is taken up in this step, if any, keep to discipline d?
KeepsTo(d) ==
    \A h \in Handlers :
        pc[h] = "idle" /\ pc'[h] # "idle" =>
            \A g \in Handlers : Live(g) => <<rpc[g], rpc'[h]>> \in Overlap[d]

ClientInit == Init /\ clients = {"serial", "queue", "within"}

ClientNext == Next /\ clients' = {d \in clients : KeepsTo(d)}

ClientSpec == ClientInit /\ [][ClientNext]_clientVars

-----------------------------------------------------------------------------

\* The machine server is in the state the last accepted input left it in, except
\* at these labels.
Dirty == {"voucher_proof", "notice_proof", "root_hash", "rollback"}

\* If no two requests but AdvanceStates overlap: as long as the session is not
\* tainted, the machine hash the active epoch reports is that of the accepted
\* inputs, all and in order; so is the machine's state whenever no input is being
\* worked on: queries and skipped inputs leave no trace.
MachineAgrees ==
    "queue" \in clients /\ ~tainted /\ exists =>
        /\ most_recent_machine_hash[active_epoch_index] = committed
        /\ (\A h \in Handlers : pc[h] \notin Dirty) => machine = committed

\* For the same clients, at most the epoch at active_epoch_index is active.  A
\* finished epoch has no input left in its queue, and one leaf for each result in
\* both Merkle trees, so that finish_epoch finds a proof for each of them.
EpochsSound ==
    "queue" \in clients =>
        \A e \in EpochIndices :
            /\ epoch_state[e] = "active" => e = active_epoch_index
            /\ epoch_state[e] = "finished" =>
                /\ pending_inputs[e] = <<>>
                /\ vouchers_tree[e] = Len(processed_inputs[e])
                /\ notices_tree[e] = Len(processed_inputs[e])

\* The indices recorded with a result were read when the input was taken up.  Still,
\* for the same clients, the epoch_input_index is its position in the epoch, where
\* finish_epoch looks for its proofs, and the input_index is the one in the metadata
\* the input was accepted with and the machine is shown.
IndexAgreement ==
    "queue" \in clients =>
        \A e \in EpochIndices : \A i \in 1..Len(processed_inputs[e]) :
            LET result == processed_inputs[e][i]
            IN  /\ result.epoch_input_index = i - 1
                /\ result.input_index = result.input.input_index

\* If an epoch is not finished either while AdvanceStates are being served, or if
\* these do not overlap: a query that waits has been scheduled, or there is a
\* handler that will come past it when it completes its input or fails.
QueryNotLost ==
    clients \cap {"within", "serial"} # {} =>
        \A h \in Handlers :
            pc[h] = "query" =>
                \/ scheduled[h] > 0
                \/ \E g \in Handlers : Processing(g) /\ ep[g] = ep[h]

\* If AdvanceStates do not overlap: session_lock does what it is for, and at
\* most one handler talks to the machine server of the session, also after
\* AdvanceState has given up session_lock.
SerialExclusive ==
    "serial" \in clients =>
        /\ SessionLockExclusive
        /\ \A g, h \in Handlers :
            /\ pc[g] \in Talking \cup {"store", "shutdown"}
            /\ pc[h] \in Talking \cup {"store", "shutdown"}
            => g = h

\* For those clients the server-manager does not reach exit(1) or undefined
\* behaviour while the session exists.
NoCrash == "serial" \in clients /\ crashed => ~exists
=============================================================================
