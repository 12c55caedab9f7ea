--------------------------- MODULE SessionLedger ---------------------------
(***************************************************************************)
(* Session implements InputLedger.  An input of the ledger is the handler  *)
(* that brought it.  The log is the history of what was enqueued; the      *)
(* queue, the locks, the handlers and the machine are not seen.            *)
(***************************************************************************)
EXTENDS Session

\* The inputs in a sequence of input_type.
LogOf(s) == [k \in 1..Len(s) |-> s[k].id]

\* The results in a sequence of processed_input_type.
ResultsOf(s) ==
    [k \in 1..Len(s) |-> [input |-> s[k].input.id, input_index |-> s[k].input_index]]

Log == [e \in EpochIndices |-> LogOf(enqueued[e])]
Results == [e \in EpochIndices |-> ResultsOf(processed_inputs[e])]

Ledger ==
    INSTANCE InputLedger WITH
        Inputs <- Handlers,
        log <- Log,
        results <- Results,
        count <- processed_input_count,
        state <- epoch_state,
        active <- active_epoch_index

\* The session does to inputs and epochs what the ledger allows, whatever
\* clients send and whenever, and whatever fails: an input is accepted at the
\* end of the active epoch, the input that gets the next result is the oldest
\* without one, it gets the next number, and results stay.
ImplementsLedger == Ledger!Spec
=============================================================================
