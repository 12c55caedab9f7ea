--------------------------- MODULE MCStartSession ---------------------------
(* StartSession on small instances: requests and configurations that are right,
   and those that differ from them in one respect. *)
EXTENDS StartClients

GoodRequest ==
    [machine_directory |-> TRUE, active_epoch_index |-> MaxIndex - 1,
     server_deadline |-> [advance_state |-> 2, advance_state_increment |-> 2,
                          inspect_state |-> 1, inspect_state_increment |-> 1],
     server_cycles |-> [max_advance_state |-> 2, advance_state_increment |-> 2,
                        max_inspect_state |-> 1, inspect_state_increment |-> 1]]

MCRequests ==
    {GoodRequest,
     [GoodRequest EXCEPT !.machine_directory = FALSE],
     [GoodRequest EXCEPT !.active_epoch_index = MaxIndex],
     [GoodRequest EXCEPT !.server_deadline = NoConfig],
     [GoodRequest EXCEPT !.server_deadline.advance_state = 1],
     [GoodRequest EXCEPT !.server_deadline.inspect_state = 0],
     [GoodRequest EXCEPT !.server_cycles = NoConfig],
     [GoodRequest EXCEPT !.server_cycles.max_advance_state = 1],
     [GoodRequest EXCEPT !.server_cycles.advance_state_increment = 0],
     [GoodRequest EXCEPT !.server_cycles.max_inspect_state = 0],
     [GoodRequest EXCEPT !.server_cycles.inspect_state_increment = 0]}

Names == {"tx_buffer", "rx_buffer", "input_metadata", "voucher_hashes", "notice_hashes"}

GoodConfig ==
    [yield_manual |-> TRUE, yield_automatic |-> TRUE, console_getchar |-> FALSE,
     rollup |-> [n \in Names |-> [start |-> 8, length |-> 4, shared |-> FALSE]]]

MCMachineConfigs ==
    {GoodConfig,
     [GoodConfig EXCEPT !.yield_manual = FALSE],
     [GoodConfig EXCEPT !.yield_automatic = FALSE],
     [GoodConfig EXCEPT !.console_getchar = TRUE],
     [GoodConfig EXCEPT !.rollup = NoConfig],
     [GoodConfig EXCEPT !.rollup = [n \in Names |-> [@[n] EXCEPT !.length = 0]]],
     [GoodConfig EXCEPT !.rollup["rx_buffer"].shared = TRUE],
     [GoodConfig EXCEPT !.rollup["tx_buffer"].length = 0],
     [GoodConfig EXCEPT !.rollup["voucher_hashes"].length = 6],
     [GoodConfig EXCEPT !.rollup["notice_hashes"].start = 6]}

\* Fewer of each, for the runs in which sessions are started again.
FewRequests == {GoodRequest, [GoodRequest EXCEPT !.machine_directory = FALSE]}
FewConfigs == {GoodConfig, [GoodConfig EXCEPT !.console_getchar = TRUE]}

-----------------------------------------------------------------------------

\* Handlers are numbered and take up requests in order, which stands in for
\* SYMMETRY where liveness is checked.
InOrder == \A g, h \in Handlers : g < h /\ pc[h] # "idle" => pc[g] # "idle"

OrderedFairSpec == ClientInit /\ [][ClientNext /\ InOrder']_clientVars /\ Fairness
=============================================================================
