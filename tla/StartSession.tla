---------------------------- MODULE StartSession ----------------------------
(***************************************************************************)
(* How sessions come into being and go: the table hctx.sessions, the       *)
(* StartSession and EndSession handlers, and any other request, which      *)
(* locks a session it finds and relies on it being complete.               *)
(*                                                                         *)
(* StartSession puts the session in the table first, locked, and completes *)
(* it over eight yields: the machine server it spawned has to check in, to *)
(* have the right version, to load the machine, to tell its configuration, *)
(* to be at a manual yield and to tell its root hash.  Whatever fails, the *)
(* session is erased again, by its id.                                     *)
(*                                                                         *)
(* A session is named after the handler that started it, so that the       *)
(* reference a handler holds is told from the session now under the same   *)
(* id.                                                                     *)
(***************************************************************************)
EXTENDS Naturals, FiniteSets

CONSTANTS
    Handlers,       \* the handlers, one for each request
    Ids,            \* session ids
    EmptyId,        \* the empty string, an id a request may carry
    MaxIndex,       \* UINT64_MAX
    Requests,       \* what a StartSessionRequest may say, besides its id
    MachineConfigs, \* what a machine server may tell of its configuration
    NoSession, NoConfig, None

VARIABLES
    sessions,    \* hctx.sessions
    pc,          \* the yield at which a handler is suspended
    id,          \* the session id of its request
    ref,         \* the session its reference refers to
    reply,       \* the status code of its response
    crashed      \* has the behaviour of the process become undefined?

vars == <<sessions, pc, id, ref, reply, crashed>>

-----------------------------------------------------------------------------
(* What requests and configurations are checked for. *)

IsPowerOfTwo(v) == v > 0 /\ \E n \in 0..v : v = 2^n

\* check_memory_range_config: the code of its first complaint, or "OK".
MemoryRangeCode(range) ==
    IF range.shared THEN "INVALID_ARGUMENT"
    ELSE IF ~IsPowerOfTwo(range.length) \/ range.start % range.length # 0
    THEN "OUT_OF_RANGE"
    ELSE "OK"

RangeNames == <<"tx_buffer", "rx_buffer", "input_metadata", "voucher_hashes",
                "notice_hashes">>

\* check_htif_config, then check_rollup_config, which goes through the ranges in
\* the order above.
ConfigCode(config) ==
    LET code(i) == MemoryRangeCode(config.rollup[RangeNames[i]])
        bad == {i \in DOMAIN RangeNames : code(i) # "OK"}
    IN  IF \/ ~config.yield_manual \/ ~config.yield_automatic
           \/ config.console_getchar \/ config.rollup = NoConfig
           \/ \A i \in DOMAIN RangeNames : config.rollup[RangeNames[i]].length = 0
        THEN "INVALID_ARGUMENT"
        ELSE IF bad = {} THEN "OK"
        ELSE code(CHOOSE i \in bad : \A j \in bad : i <= j)

\* Fault: only the maximum is tested for zero.
CyclesCodeIncrementZero(max, increment) ==
    IF max = 0 \/ max < increment THEN "INVALID_ARGUMENT" ELSE "OK"

CyclesCode(max, increment) ==
    IF max = 0 \/ increment = 0 \/ max < increment THEN "INVALID_ARGUMENT" ELSE "OK"

\* The checks StartSession makes before it spawns a server.
RequestCode(req) ==
    LET d == req.server_deadline
        c == req.server_cycles
    IN  IF ~req.machine_directory THEN "INVALID_ARGUMENT"
        ELSE IF req.active_epoch_index = MaxIndex THEN "OUT_OF_RANGE"
        ELSE IF \/ d = NoConfig
                \/ d.advance_state < d.advance_state_increment
                \/ d.inspect_state < d.inspect_state_increment
                \/ c = NoConfig
        THEN "INVALID_ARGUMENT"
        ELSE IF CyclesCode(c.max_advance_state, c.advance_state_increment) # "OK"
        THEN "INVALID_ARGUMENT"
        ELSE CyclesCode(c.max_inspect_state, c.inspect_state_increment)

-----------------------------------------------------------------------------

\* The session of a request, as get_proto_session makes it and auto_lock
\* locks it.
NewSession(h, req) ==
    [by |-> h, session_lock |-> TRUE, request |-> req, stub |-> FALSE,
     memory_range |-> NoConfig, current_mcycle |-> None, epochs |-> {}]

Starting == {"checkin", "version", "machine", "config", "mcycle", "run", "root_hash"}
Labels == Starting \cup {"idle", "started", "shutdown", "ended", "using", "error", "done"}

Sessions ==
    [by : Handlers, session_lock : BOOLEAN, request : Requests, stub : BOOLEAN,
     memory_range : {NoConfig} \cup {c.rollup : c \in MachineConfigs},
     current_mcycle : {None, "mcycle"}, epochs : SUBSET (0..MaxIndex)]

\* Numbers in requests and configurations are unsigned; a configuration that tells of
\* rollup ranges tells of all five.
ASSUME StartSessionAssumption ==
    /\ EmptyId \notin Ids /\ MaxIndex \in Nat
    /\ None \notin Handlers /\ None \notin Ids /\ None # "mcycle"
    /\ NoSession \notin Sessions
    /\ \A req \in Requests :
        /\ req.active_epoch_index \in 0..MaxIndex
        /\ req.server_deadline # NoConfig =>
            /\ req.server_deadline.advance_state \in Nat
            /\ req.server_deadline.advance_state_increment \in Nat
            /\ req.server_deadline.inspect_state \in Nat
            /\ req.server_deadline.inspect_state_increment \in Nat
        /\ req.server_cycles # NoConfig =>
            /\ req.server_cycles.max_advance_state \in Nat
            /\ req.server_cycles.advance_state_increment \in Nat
            /\ req.server_cycles.max_inspect_state \in Nat
            /\ req.server_cycles.inspect_state_increment \in Nat
    /\ \A config \in MachineConfigs :
        config.rollup # NoConfig =>
            /\ DOMAIN config.rollup = {RangeNames[i] : i \in DOMAIN RangeNames}
            /\ \A n \in DOMAIN config.rollup :
                config.rollup[n].start \in Nat /\ config.rollup[n].length \in Nat

\* Types, and that a session in the table was started by the handler it is named
\* after and under the id of that handler's request.
TypeOK ==
    /\ sessions \in [Ids -> {NoSession} \cup Sessions]
    /\ pc \in [Handlers -> Labels]
    /\ id \in [Handlers -> Ids \cup {EmptyId, None}]
    /\ ref \in [Handlers -> Handlers \cup {None}]
    /\ reply \in [Handlers -> {"none", "OK", "INVALID_ARGUMENT", "ALREADY_EXISTS", "ABORTED",
                               "OUT_OF_RANGE", "FAILED_PRECONDITION", "INTERNAL",
                               "MACHINE_ERROR"}]
    /\ crashed \in BOOLEAN
    /\ \A i \in Ids : sessions[i] # NoSession => id[sessions[i].by] = i

Init ==
    /\ sessions = [i \in Ids |-> NoSession]
    /\ pc = [h \in Handlers |-> "idle"]
    /\ id = [h \in Handlers |-> None]
    /\ ref = [h \in Handlers |-> None]
    /\ reply = [h \in Handlers |-> "none"]
    /\ crashed = FALSE

\* Is the session handler h refers to still there?
Valid(h) ==
    id[h] \in Ids /\ sessions[id[h]] # NoSession /\ sessions[id[h]].by = ref[h]

\* Handler h responds with an error and yields.
Refuse(h, i, code) ==
    /\ id' = [id EXCEPT ![h] = i]
    /\ pc' = [pc EXCEPT ![h] = "error"]
    /\ reply' = [reply EXCEPT ![h] = code]
    /\ UNCHANGED <<sessions, ref, crashed>>

Goto(h, label) == pc' = [pc EXCEPT ![h] = label] /\ UNCHANGED <<id, ref, reply, crashed>>

-----------------------------------------------------------------------------
(* StartSession. *)

\* A session that fails a check is inserted and erased in the same step.
StartCode(i, req) ==
    IF i = EmptyId THEN "INVALID_ARGUMENT"
    ELSE IF sessions[i] # NoSession THEN "ALREADY_EXISTS"
    ELSE RequestCode(req)

\* The request arrives.  The server is spawned, or cannot be.  The storage of the
\* new session may be that of one an EndSession has erased, whose reference is
\* then one to the new session.
StartRequest(h, i, req) ==
    /\ pc[h] = "idle"
    /\ \/ /\ StartCode(i, req) # "OK"
          /\ Refuse(h, i, StartCode(i, req))
       \/ StartCode(i, req) = "OK" /\ Refuse(h, i, "INTERNAL")
       \/ /\ StartCode(i, req) = "OK"
          /\ sessions' = [sessions EXCEPT ![i] = NewSession(h, req)]
          /\ pc' = [pc EXCEPT ![h] = "checkin"]
          /\ id' = [id EXCEPT ![h] = i]
          /\ \E reused \in {{}} \cup {{g} : g \in {x \in Handlers : pc[x] = "ended"}} :
                ref' = [g \in Handlers |-> IF g \in reused \cup {h} THEN h ELSE ref[g]]
          /\ UNCHANGED <<reply, crashed>>

\* Fault: the session is left in the table.
StartFailsNotErased(h, code) == Refuse(h, id[h], code)

\* Fault: the session is erased and the client told that all is well.
StartFailsToldOK(h, code) ==
    /\ sessions' = [sessions EXCEPT ![id[h]] = NoSession]
    /\ pc' = [pc EXCEPT ![h] = "error"]
    /\ reply' = [reply EXCEPT ![h] = "OK"]
    /\ UNCHANGED <<id, ref, crashed>>

\* A check failed or a call did: the lock is given back, the session erased and
\* the error reported.  (Past the check-in the server is told to shut down
\* before, and the outcome of that is ignored.)
StartFails(h, code) ==
    /\ sessions' = [sessions EXCEPT ![id[h]] = NoSession]
    /\ pc' = [pc EXCEPT ![h] = "error"]
    /\ reply' = [reply EXCEPT ![h] = code]
    /\ UNCHANGED <<id, ref, crashed>>

\* Handler h is resumed at a yield where it goes on using its session.
At(h, label) == pc[h] = label /\ Valid(h)

UpdateSession(h, s) == sessions' = [sessions EXCEPT ![id[h]] = s]

\* The check-in of the server, or its deadline, which taints the session.
CheckedIn(h) ==
    /\ At(h, "checkin")
    /\ \/ /\ UpdateSession(h, [sessions[id[h]] EXCEPT !.stub = TRUE])
          /\ Goto(h, "version")
       \/ StartFails(h, "INTERNAL")

\* GetVersion answers with a version, compatible or not.
VersionAnswered(h) ==
    /\ At(h, "version")
    /\ \/ Goto(h, "machine") /\ UNCHANGED sessions
       \/ StartFails(h, "FAILED_PRECONDITION")

MachineStarted(h) ==
    /\ At(h, "machine") /\ Goto(h, "config") /\ UNCHANGED sessions

ConfigAnswered(h) ==
    /\ At(h, "config")
    /\ \E config \in MachineConfigs :
        \/ /\ ConfigCode(config) = "OK"
           /\ UpdateSession(h, [sessions[id[h]] EXCEPT !.memory_range = config.rollup])
           /\ Goto(h, "mcycle")
        \/ /\ ConfigCode(config) # "OK"
           /\ StartFails(h, ConfigCode(config))

\* check_is_yielded reads mcycle, then runs the machine up to that cycle: it has
\* to stay there, at a manual yield that accepts.
McycleRead(h) ==
    /\ At(h, "mcycle") /\ Goto(h, "run") /\ UNCHANGED sessions

MachineYielded(h) ==
    /\ At(h, "run")
    /\ \/ /\ UpdateSession(h, [sessions[id[h]] EXCEPT !.current_mcycle = "mcycle"])
          /\ Goto(h, "root_hash")
       \/ \E code \in {"INVALID_ARGUMENT", "INTERNAL"} : StartFails(h, code)

\* The root hash completes the first epoch.
RootHashAnswered(h) ==
    /\ At(h, "root_hash")
    /\ UpdateSession(h, [sessions[id[h]] EXCEPT
                            !.epochs = {sessions[id[h]].request.active_epoch_index}])
    /\ pc' = [pc EXCEPT ![h] = "started"]
    /\ reply' = [reply EXCEPT ![h] = "OK"]
    /\ UNCHANGED <<id, ref, crashed>>

\* Fault: what failed is tried again, for ever.
CallFailsRetried(h) ==
    /\ pc[h] \in Starting \ {"checkin"} /\ Valid(h)
    /\ Goto(h, "checkin") /\ UNCHANGED sessions

\* A call to the machine server fails or exceeds its deadline; MACHINE_ERROR is the
\* code of the failed call.
CallFails(h) ==
    /\ pc[h] \in Starting \ {"checkin"} /\ Valid(h)
    /\ StartFails(h, IF pc[h] = "root_hash" THEN "INTERNAL" ELSE "MACHINE_ERROR")

\* The response has been delivered: the handler ends and its auto_lock clears
\* the flag it refers to.
Unlocked(h) ==
    [sessions EXCEPT ![id[h]] = [@ EXCEPT !.session_lock = FALSE]]

Started(h) ==
    /\ At(h, "started")
    /\ sessions' = Unlocked(h)
    /\ Goto(h, "done")

-----------------------------------------------------------------------------
(* Requests for a session that is in the table. *)

\* No session has the empty id.
LockCode(i) ==
    IF i = EmptyId \/ sessions[i] = NoSession THEN "INVALID_ARGUMENT"
    ELSE IF sessions[i].session_lock THEN "ABORTED"
    ELSE "OK"

\* The request locks the session, asks for something and yields.
LockSession(h, i, label) ==
    /\ pc[h] = "idle"
    /\ \/ LockCode(i) # "OK" /\ Refuse(h, i, LockCode(i))
       \/ /\ LockCode(i) = "OK"
          /\ sessions' = [sessions EXCEPT ![i] = [@ EXCEPT !.session_lock = TRUE]]
          /\ pc' = [pc EXCEPT ![h] = label]
          /\ id' = [id EXCEPT ![h] = i]
          /\ ref' = [ref EXCEPT ![h] = sessions[i].by]
          /\ UNCHANGED <<reply, crashed>>

\* Some request that keeps the session locked until its response is delivered.
UseRequest(h, i) == LockSession(h, i, "using")

Used(h) ==
    /\ At(h, "using")
    /\ sessions' = Unlocked(h)
    /\ Goto(h, "done")

\* EndSession, of a session whose active epoch is pristine.  It calls the server
\* through server_stub.
EndRequest(h, i) ==
    IF LockCode(i) = "OK" /\ ~sessions[i].stub
    THEN pc[h] = "idle" /\ crashed' = TRUE /\ UNCHANGED <<sessions, pc, id, ref, reply>>
    ELSE LockSession(h, i, "shutdown")

\* The machine server has shut down; the session is erased, or the call failed.
ShutDown(h) ==
    /\ At(h, "shutdown")
    /\ \/ /\ sessions' = [sessions EXCEPT ![id[h]] = NoSession]
          /\ pc' = [pc EXCEPT ![h] = "ended"]
          /\ reply' = [reply EXCEPT ![h] = "OK"]
       \/ /\ sessions' = Unlocked(h)
          /\ pc' = [pc EXCEPT ![h] = "error"]
          /\ reply' = [reply EXCEPT ![h] = "MACHINE_ERROR"]
    /\ UNCHANGED <<id, ref, crashed>>

\* EndSession ends: its auto_lock writes to where the session was.
Ended(h) ==
    /\ pc[h] = "ended"
    /\ sessions' = [i \in Ids |->
          IF sessions[i] # NoSession /\ sessions[i].by = ref[h]
          THEN [sessions[i] EXCEPT !.session_lock = FALSE]
          ELSE sessions[i]]
    /\ Goto(h, "done")

ErrorDelivered(h) == pc[h] = "error" /\ Goto(h, "done") /\ UNCHANGED sessions

\* A handler is resumed and its session is gone.
UseAfterFree(h) ==
    /\ pc[h] \in Starting \cup {"started", "using", "shutdown"} /\ ~Valid(h)
    /\ crashed' = TRUE
    /\ UNCHANGED <<sessions, pc, id, ref, reply>>

Request(h) ==
    \E i \in Ids \cup {EmptyId} :
        \/ \E req \in Requests : StartRequest(h, i, req)
        \/ EndRequest(h, i)
        \/ UseRequest(h, i)

Step(h) ==
    \/ CheckedIn(h) \/ VersionAnswered(h) \/ MachineStarted(h) \/ ConfigAnswered(h)
    \/ McycleRead(h) \/ MachineYielded(h) \/ RootHashAnswered(h) \/ CallFails(h)
    \/ Started(h) \/ Used(h) \/ ShutDown(h) \/ Ended(h) \/ ErrorDelivered(h)

Next == ~crashed /\ \E h \in Handlers : Request(h) \/ Step(h) \/ UseAfterFree(h)

Spec == Init /\ [][Next]_vars

\* Every call has a deadline and every response is delivered or given up.
Fairness == \A h \in Handlers : WF_vars(~crashed /\ (Step(h) \/ UseAfterFree(h)))
FairSpec == Spec /\ Fairness

-----------------------------------------------------------------------------
(* Properties. *)

Complete(s) ==
    /\ s.stub /\ s.memory_range # NoConfig /\ s.current_mcycle # None
    /\ s.epochs = {s.request.active_epoch_index}

\* "Lock session so other rpcs to the same session are rejected": a session that
\* is in the table and not locked is complete.  Other handlers rely on it: they
\* use server_stub, and epochs[active_epoch_index] would create an epoch.
CompleteOrLocked ==
    \A i \in Ids :
        sessions[i] # NoSession /\ ~sessions[i].session_lock => Complete(sessions[i])

\* The types, and what process_pending_inputs relies on: the limits allow at least one increment,
\* increments are not zero, deadlines allow one increment, the next epoch has an
\* index, and every buffer is a node of the machine's Merkle tree.
ConfigSound ==
    TypeOK /\ \A i \in Ids :
        sessions[i] # NoSession /\ Complete(sessions[i]) =>
            LET s == sessions[i]
                c == s.request.server_cycles
                d == s.request.server_deadline
            IN  /\ c.advance_state_increment \in 1..c.max_advance_state
                /\ c.inspect_state_increment \in 1..c.max_inspect_state
                /\ d.advance_state >= d.advance_state_increment
                /\ d.inspect_state >= d.inspect_state_increment
                /\ s.request.active_epoch_index + 1 <= MaxIndex
                /\ \A n \in DOMAIN s.memory_range :
                    LET r == s.memory_range[n]
                    IN  \E k \in 0..r.length, j \in 0..r.start :
                            r.length = 2^k /\ r.start = j * 2^k

\* Every request for a session ends, so that no session stays locked.
RequestsEnd ==
    \A h \in Handlers : pc[h] # "idle" ~> pc[h] = "done" \/ crashed
=============================================================================
