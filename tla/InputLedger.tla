---------------------------- MODULE InputLedger ----------------------------
(***************************************************************************)
(* What a session promises of the inputs it is sent, without handlers,     *)
(* locks, machine servers or queues.                                       *)
(*                                                                         *)
(* Every epoch has a log of the inputs accepted in it and a sequence of    *)
(* results.  An input is accepted in the active epoch, at the end of its   *)
(* log, as long as the session is not tainted.  One step gives the next    *)
(* input of one epoch its result, which is numbered with the count of all  *)
(* inputs processed so far in the session.  An epoch is followed by an     *)
(* empty one, and an epoch that is finished may be deleted.  Nothing else  *)
(* happens to logs and results: what a client has read of an epoch stays   *)
(* as it is for as long as the epoch does.                                 *)
(***************************************************************************)
EXTENDS Naturals, Sequences

CONSTANTS
    Inputs,         \* the inputs
    MaxEpochIndex,  \* epoch indices are 0..MaxEpochIndex and wrap around
    StartEpoch,     \* the first active epoch
    StartCount      \* how many inputs were processed before

VARIABLES
    log,      \* the inputs accepted in each epoch
    results,  \* the results of each epoch
    count,    \* the number of inputs processed since genesis
    state,    \* absent, active or finished
    active,   \* the index of the active epoch
    tainted   \* has the session been given up?

vars == <<log, results, count, state, active, tainted>>

EpochIndices == 0..MaxEpochIndex

Init ==
    /\ log = [e \in EpochIndices |-> <<>>]
    /\ results = [e \in EpochIndices |-> <<>>]
    /\ count = StartCount
    /\ state = [e \in EpochIndices |-> IF e = StartEpoch THEN "active" ELSE "absent"]
    /\ active = StartEpoch
    /\ tainted = FALSE

Accept(i) ==
    /\ ~tainted /\ state[active] = "active"
    /\ log' = [log EXCEPT ![active] = Append(@, i)]
    /\ UNCHANGED <<results, count, state, active, tainted>>

Process(e) ==
    /\ Len(results[e]) < Len(log[e])
    /\ results' = [results EXCEPT ![e] =
            Append(@, [input |-> log[e][Len(@) + 1], input_index |-> count])]
    /\ count' = count + 1
    /\ UNCHANGED <<log, state, active, tainted>>

Clear(e) ==
    /\ log' = [log EXCEPT ![e] = <<>>]
    /\ results' = [results EXCEPT ![e] = <<>>]

NextEpoch(e) ==
    LET next == (active + 1) % (MaxEpochIndex + 1)
    IN  /\ state[e] # "absent"
        /\ state' = [state EXCEPT ![e] = "finished", ![next] = "active"]
        /\ active' = next
        /\ Clear(next)
        /\ UNCHANGED <<count, tainted>>

Delete(e) ==
    /\ state[e] = "finished" /\ e # active
    /\ state' = [state EXCEPT ![e] = "absent"]
    /\ Clear(e)
    /\ UNCHANGED <<count, active, tainted>>

Taint ==
    /\ tainted' = TRUE
    /\ UNCHANGED <<log, results, count, state, active>>

Next ==
    \/ \E i \in Inputs : Accept(i)
    \/ \E e \in EpochIndices : Process(e) \/ NextEpoch(e) \/ Delete(e)
    \/ Taint

Spec == Init /\ [][Next]_vars
=============================================================================
