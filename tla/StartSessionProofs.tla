------------------------- MODULE StartSessionProofs -------------------------
(***************************************************************************)
(* Proofs about StartSession, for any number of handlers and ids and any   *)
(* requests and machine configurations.                                    *)
(*                                                                         *)
(* Base is what holds whatever clients do: a session in the table has been *)
(* checked as far as it is filled in.  Earned is what patient clients get: *)
(* a lock has one holder, which has a reference to the session that is in  *)
(* the table (HoldersInPlace); a session is being started or complete and  *)
(* its client told so (StartersInPlace); an EndSession that answered OK has*)
(* taken a session that is gone, and each session that was promised is     *)
(* there or has been taken (EndersInPlace, StartedInPlace).                *)
(***************************************************************************)
EXTENDS StartClients, Integers, FiniteSetTheorems, TLAPS

-----------------------------------------------------------------------------
(* What the checks ensure. *)

\* A number that is a multiple of another.
LEMMA Multiple ==
    ASSUME NEW a \in Nat, NEW b \in Nat, b > 0, a % b = 0
    PROVE  \E j \in 0..a : a = j * b
<1>1. a = (a \div b) * b + (a % b) /\ a \div b \in Nat
  BY SMT
<1>2. a = (a \div b) * b
  BY <1>1
<1>3. a \div b <= a
  BY <1>1, <1>2
<1> QED
  BY <1>1, <1>2, <1>3

\* A request that passes the checks of StartSession.
LEMMA RequestChecked ==
    ASSUME NEW req \in Requests, RequestCode(req) = "OK"
    PROVE  LET d == req.server_deadline
               c == req.server_cycles
           IN  /\ c.advance_state_increment \in 1..c.max_advance_state
               /\ c.inspect_state_increment \in 1..c.max_inspect_state
               /\ d.advance_state >= d.advance_state_increment
               /\ d.inspect_state >= d.inspect_state_increment
               /\ req.active_epoch_index + 1 <= MaxIndex
<1> DEFINE d == req.server_deadline
           c == req.server_cycles
<1>1. /\ req.active_epoch_index # MaxIndex
      /\ d # NoConfig /\ ~(d.advance_state < d.advance_state_increment)
      /\ ~(d.inspect_state < d.inspect_state_increment)
      /\ c # NoConfig
      /\ CyclesCode(c.max_advance_state, c.advance_state_increment) = "OK"
      /\ CyclesCode(c.max_inspect_state, c.inspect_state_increment) = "OK"
  BY DEF RequestCode
<1>2. /\ c.max_advance_state \in Nat /\ c.advance_state_increment \in Nat
      /\ c.max_inspect_state \in Nat /\ c.inspect_state_increment \in Nat
      /\ d.advance_state \in Nat /\ d.advance_state_increment \in Nat
      /\ d.inspect_state \in Nat /\ d.inspect_state_increment \in Nat
      /\ req.active_epoch_index \in 0..MaxIndex /\ MaxIndex \in Nat
  BY <1>1, StartSessionAssumption
<1>3. \A m, n \in Nat : CyclesCode(m, n) = "OK" => n \in 1..m
  BY DEF CyclesCode
<1> HIDE DEF c, d
<1>4. /\ c.advance_state_increment \in 1..c.max_advance_state
      /\ c.inspect_state_increment \in 1..c.max_inspect_state
  BY <1>1, <1>2, <1>3
<1>5. /\ d.advance_state >= d.advance_state_increment
      /\ d.inspect_state >= d.inspect_state_increment
      /\ req.active_epoch_index + 1 <= MaxIndex
  BY <1>1, <1>2
<1> QED
  BY <1>4, <1>5 DEF c, d

\* A configuration that passes them.
LEMMA ConfigChecked ==
    ASSUME NEW config \in MachineConfigs, ConfigCode(config) = "OK"
    PROVE  /\ config.rollup # NoConfig
           /\ \A n \in DOMAIN config.rollup :
                LET r == config.rollup[n]
                IN  \E k \in 0..r.length, j \in 0..r.start :
                        r.length = 2^k /\ r.start = j * 2^k
<1> DEFINE code(i) == MemoryRangeCode(config.rollup[RangeNames[i]])
           bad == {i \in DOMAIN RangeNames : code(i) # "OK"}
           first == CHOOSE i \in bad : \A j \in bad : i <= j
<1>1. DOMAIN RangeNames = {1, 2, 3, 4, 5}
  BY DEF RangeNames
<1>2. /\ config.rollup # NoConfig
      /\ bad # {} => code(first) = "OK"
  BY DEF ConfigCode
<1>3. bad # {} => first \in bad
  <2>1. \A i \in bad : i \in {1, 2, 3, 4, 5}
    BY <1>1
  <2>2. bad # {} => \E i \in bad : \A j \in bad : i <= j
    <3> HIDE DEF bad
    <3>1. CASE 1 \in bad
      BY <2>1, <3>1
    <3>2. CASE 1 \notin bad /\ 2 \in bad
      BY <2>1, <3>2
    <3>3. CASE 1 \notin bad /\ 2 \notin bad /\ 3 \in bad
      BY <2>1, <3>3
    <3>4. CASE 1 \notin bad /\ 2 \notin bad /\ 3 \notin bad
      BY <2>1, <3>4
    <3> QED
      BY <3>1, <3>2, <3>3, <3>4
  <2> QED
    BY <2>2
<1>4. \A i \in DOMAIN RangeNames : code(i) = "OK"
  BY <1>2, <1>3
<1> SUFFICES ASSUME NEW n \in DOMAIN config.rollup
             PROVE  \E k \in 0..config.rollup[n].length, j \in 0..config.rollup[n].start :
                        /\ config.rollup[n].length = 2^k
                        /\ config.rollup[n].start = j * 2^k
  BY <1>2
<1> DEFINE r == config.rollup[n]
<1>5. r.start \in Nat /\ r.length \in Nat /\ MemoryRangeCode(r) = "OK"
  BY <1>2, <1>4, StartSessionAssumption
<1> HIDE DEF r
<1>6. r.length > 0 /\ r.start % r.length = 0 /\ \E k \in 0..r.length : r.length = 2^k
  BY <1>5 DEF MemoryRangeCode, IsPowerOfTwo
<1>7. \E j \in 0..r.start : r.start = j * r.length
  BY <1>5, <1>6, Multiple
<1> QED
  BY <1>6, <1>7 DEF r

-----------------------------------------------------------------------------
(* What is so whatever clients do. *)

\* A session has been checked as far as it is filled in.
Checked(s) ==
    /\ RequestCode(s.request) = "OK"
    /\ s.memory_range # NoConfig =>
        \E config \in MachineConfigs :
            ConfigCode(config) = "OK" /\ s.memory_range = config.rollup

\* Sessions in the table have been checked, and were started by handlers that are
\* no longer waiting for a request.
SessionsChecked ==
    \A i \in Ids :
        sessions[i] # NoSession => Checked(sessions[i]) /\ pc[sessions[i].by] # "idle"

Base == TypeOK /\ SessionsChecked

\* What has been checked is what process_pending_inputs relies on.
LEMMA BaseSound == Base => ConfigSound
<1> SUFFICES ASSUME Base, NEW i \in Ids, sessions[i] # NoSession, Complete(sessions[i])
             PROVE  LET s == sessions[i]
                        c == s.request.server_cycles
                        d == s.request.server_deadline
                    IN  /\ c.advance_state_increment \in 1..c.max_advance_state
                        /\ c.inspect_state_increment \in 1..c.max_inspect_state
                        /\ d.advance_state >= d.advance_state_increment
                        /\ d.inspect_state >= d.inspect_state_increment
                        /\ s.request.active_epoch_index + 1 <= MaxIndex
                        /\ \A n \in DOMAIN s.memory_range :
                            LET r == s.memory_range[n]
                            IN  \E k \in 0..r.length, j \in 0..r.start :
                                    r.length = 2^k /\ r.start = j * 2^k
  BY DEF Base, ConfigSound
<1> DEFINE s == sessions[i]
<1>1. s \in Sessions /\ Checked(s)
  BY DEF Base, TypeOK, SessionsChecked
<1>2. s.request \in Requests /\ RequestCode(s.request) = "OK"
  BY <1>1 DEF Sessions, Checked
<1>3. PICK config \in MachineConfigs :
        ConfigCode(config) = "OK" /\ s.memory_range = config.rollup
  BY <1>1 DEF Complete, Checked
<1> QED
  BY <1>2, <1>3, RequestChecked, ConfigChecked

\* The types of what a step leaves alone, and of pc, id and reply.
LEMMA BaseStep ==
    ASSUME Base, NEW h \in Handlers, NEW label \in Labels \ {"idle"},
           pc' = [pc EXCEPT ![h] = label],
           \/ id' = id
           \/ pc[h] = "idle" /\ \E i \in Ids \cup {EmptyId} : id' = [id EXCEPT ![h] = i],
           ref' \in [Handlers -> Handlers \cup {None}], crashed' = crashed,
           \/ reply' = reply
           \/ \E code \in {"none", "OK", "INVALID_ARGUMENT", "ALREADY_EXISTS", "ABORTED",
                           "OUT_OF_RANGE", "FAILED_PRECONDITION", "INTERNAL",
                           "MACHINE_ERROR"} : reply' = [reply EXCEPT ![h] = code],
           sessions' \in [Ids -> {NoSession} \cup Sessions],
           \A i \in Ids : sessions'[i] # NoSession /\ sessions'[i] # sessions[i] =>
                /\ Checked(sessions'[i])
                /\ \/ sessions[i] # NoSession /\ sessions'[i].by = sessions[i].by
                   \/ sessions'[i].by = h /\ id'[h] = i
    PROVE  Base'
<1>1. /\ pc' \in [Handlers -> Labels] /\ pc'[h] = label /\ label # "idle"
      /\ \A g \in Handlers : g # h => pc'[g] = pc[g] /\ id'[g] = id[g]
  BY DEF Base, TypeOK
<1>2. /\ id' \in [Handlers -> Ids \cup {EmptyId, None}]
      /\ pc[h] # "idle" => id'[h] = id[h]
  BY DEF Base, TypeOK
<1>3. reply' \in [Handlers -> {"none", "OK", "INVALID_ARGUMENT", "ALREADY_EXISTS",
                               "ABORTED", "OUT_OF_RANGE", "FAILED_PRECONDITION",
                               "INTERNAL", "MACHINE_ERROR"}]
  BY DEF Base, TypeOK
<1>4. \A i \in Ids : sessions'[i] # NoSession => sessions'[i].by \in Handlers
  BY DEF Sessions
<1>5. ASSUME NEW i \in Ids, sessions'[i] # NoSession
      PROVE  /\ Checked(sessions'[i]) /\ pc'[sessions'[i].by] # "idle"
             /\ id'[sessions'[i].by] = i
  <2>1. CASE sessions[i] # NoSession /\ sessions'[i].by = sessions[i].by
    <3>1. pc[sessions[i].by] # "idle" /\ id[sessions[i].by] = i /\ Checked(sessions[i])
      BY <2>1 DEF Base, TypeOK, SessionsChecked
    <3>2. Checked(sessions'[i])
      BY <1>5, <3>1
    <3> QED
      BY <1>1, <1>2, <1>4, <1>5, <2>1, <3>1, <3>2
  <2>2. CASE sessions'[i] # sessions[i] /\ sessions'[i].by = h /\ id'[h] = i
    BY <1>1, <1>5, <2>2
  <2> QED
    BY <1>5, <2>1, <2>2
<1> QED
  BY <1>1, <1>2, <1>3, <1>5 DEF Base, TypeOK, SessionsChecked, Checked

\* The session of a handler that goes on, and what updates make of it.
LEMMA Updates ==
    ASSUME Base, NEW h \in Handlers, Valid(h)
    PROVE  LET s == sessions[id[h]]
           IN  /\ id[h] \in Ids /\ s \in Sessions /\ s # NoSession /\ s.by = ref[h]
               /\ Checked(s) /\ s.request \in Requests
<1> DEFINE s == sessions[id[h]]
<1>1. id[h] \in Ids /\ s # NoSession /\ s.by = ref[h]
  BY DEF Valid
<1>2. s \in Sessions /\ Checked(s)
  BY <1>1 DEF Base, TypeOK, SessionsChecked
<1> QED
  BY <1>1, <1>2 DEF Sessions

\* A session is replaced by one that was started by the same handler.
LEMMA Replaces ==
    ASSUME Base, NEW h \in Handlers, Valid(h), NEW t \in Sessions, Checked(t),
           t.by = sessions[id[h]].by, UpdateSession(h, t)
    PROVE  /\ sessions' \in [Ids -> {NoSession} \cup Sessions]
           /\ \A i \in Ids : sessions'[i] # NoSession /\ sessions'[i] # sessions[i] =>
                /\ Checked(sessions'[i])
                /\ sessions[i] # NoSession /\ sessions'[i].by = sessions[i].by
<1>1. id[h] \in Ids /\ sessions[id[h]] # NoSession
  BY Updates
<1>2. sessions \in [Ids -> {NoSession} \cup Sessions]
  BY DEF Base, TypeOK
<1>3. sessions' = [sessions EXCEPT ![id[h]] = t]
  BY DEF UpdateSession
<1> QED
  BY <1>1, <1>2, <1>3

\* A session is erased.
LEMMA Erases ==
    ASSUME Base, NEW h \in Handlers, Valid(h),
           sessions' = [sessions EXCEPT ![id[h]] = NoSession]
    PROVE  /\ sessions' \in [Ids -> {NoSession} \cup Sessions]
           /\ \A i \in Ids : sessions'[i] # NoSession => sessions'[i] = sessions[i]
<1>1. sessions \in [Ids -> {NoSession} \cup Sessions] /\ id[h] \in Ids
  BY Updates DEF Base, TypeOK
<1> QED
  BY <1>1

\* The fields of sessions that are updated.
LEMMA Amended ==
    ASSUME NEW s \in Sessions, Checked(s)
    PROVE  /\ \A b \in BOOLEAN : LET t == [s EXCEPT !.session_lock = b]
              IN  /\ t \in Sessions /\ Checked(t) /\ t.by = s.by /\ t.session_lock = b
                  /\ t.stub = s.stub /\ t.memory_range = s.memory_range
                  /\ t.current_mcycle = s.current_mcycle /\ t.epochs = s.epochs
                  /\ t.request = s.request
           /\ LET t == [s EXCEPT !.stub = TRUE]
              IN  /\ t \in Sessions /\ Checked(t) /\ t.by = s.by
                  /\ t.session_lock = s.session_lock /\ t.stub
           /\ LET t == [s EXCEPT !.current_mcycle = "mcycle"]
              IN  /\ t \in Sessions /\ Checked(t) /\ t.by = s.by
                  /\ t.session_lock = s.session_lock /\ t.stub = s.stub
                  /\ t.memory_range = s.memory_range /\ t.current_mcycle = "mcycle"
           /\ LET t == [s EXCEPT !.epochs = {s.request.active_epoch_index}]
              IN  /\ t \in Sessions /\ Checked(t) /\ t.by = s.by
                  /\ t.session_lock = s.session_lock /\ t.stub = s.stub
                  /\ t.memory_range = s.memory_range
                  /\ t.current_mcycle = s.current_mcycle /\ t.request = s.request
                  /\ t.epochs = {t.request.active_epoch_index}
<1>1. ASSUME NEW b \in BOOLEAN
      PROVE  LET t == [s EXCEPT !.session_lock = b]
             IN  /\ t \in Sessions /\ Checked(t) /\ t.by = s.by /\ t.session_lock = b
                 /\ t.stub = s.stub /\ t.memory_range = s.memory_range
                 /\ t.current_mcycle = s.current_mcycle /\ t.epochs = s.epochs
                 /\ t.request = s.request
  BY DEF Sessions, Checked
<1>2. LET t == [s EXCEPT !.stub = TRUE]
      IN  /\ t \in Sessions /\ Checked(t) /\ t.by = s.by
          /\ t.session_lock = s.session_lock /\ t.stub
  BY DEF Sessions, Checked
<1>3. LET t == [s EXCEPT !.current_mcycle = "mcycle"]
      IN  /\ t \in Sessions /\ Checked(t) /\ t.by = s.by
          /\ t.session_lock = s.session_lock /\ t.stub = s.stub
          /\ t.memory_range = s.memory_range /\ t.current_mcycle = "mcycle"
  BY DEF Sessions, Checked
<1>4. s.request.active_epoch_index \in 0..MaxIndex
  BY StartSessionAssumption DEF Sessions
<1>5. LET t == [s EXCEPT !.epochs = {s.request.active_epoch_index}]
      IN  /\ t \in Sessions /\ Checked(t) /\ t.by = s.by
          /\ t.session_lock = s.session_lock /\ t.stub = s.stub
          /\ t.memory_range = s.memory_range
          /\ t.current_mcycle = s.current_mcycle /\ t.request = s.request
          /\ t.epochs = {t.request.active_epoch_index}
  BY <1>4 DEF Sessions, Checked
<1> QED
  BY <1>1, <1>2, <1>3, <1>5

\* The same for the configuration a machine server tells.
LEMMA ConfigAmended ==
    ASSUME NEW s \in Sessions, Checked(s), NEW config \in MachineConfigs,
           ConfigCode(config) = "OK"
    PROVE  LET t == [s EXCEPT !.memory_range = config.rollup]
           IN  /\ t \in Sessions /\ Checked(t) /\ t.by = s.by
               /\ t.session_lock = s.session_lock /\ t.stub = s.stub
               /\ t.memory_range # NoConfig
  BY ConfigChecked DEF Sessions, Checked

\* The session of a request that has passed the checks.
LEMMA FreshSession ==
    ASSUME NEW h \in Handlers, NEW req \in Requests, RequestCode(req) = "OK"
    PROVE  LET t == NewSession(h, req)
           IN  t \in Sessions /\ Checked(t) /\ t.by = h /\ t.session_lock
  BY DEF NewSession, Sessions, Checked

\* The codes of the checks are codes of responses.
LEMMA Codes ==
    /\ \A req : RequestCode(req) \in {"OK", "INVALID_ARGUMENT", "OUT_OF_RANGE"}
    /\ \A config \in MachineConfigs :
        ConfigCode(config) \in {"OK", "INVALID_ARGUMENT", "OUT_OF_RANGE"}
<1>1. ASSUME NEW req PROVE RequestCode(req) \in {"OK", "INVALID_ARGUMENT", "OUT_OF_RANGE"}
  BY DEF RequestCode, CyclesCode
<1>2. \A range : MemoryRangeCode(range) \in {"OK", "INVALID_ARGUMENT", "OUT_OF_RANGE"}
  BY DEF MemoryRangeCode
<1>3. ASSUME NEW config \in MachineConfigs
      PROVE  ConfigCode(config) \in {"OK", "INVALID_ARGUMENT", "OUT_OF_RANGE"}
  BY <1>2 DEF ConfigCode
<1> QED
  BY <1>1, <1>3

\* A request that is refused.
LEMMA RefuseBase ==
    ASSUME Base, NEW h \in Handlers, pc[h] = "idle", NEW i \in Ids \cup {EmptyId},
           NEW code \in {"OK", "INVALID_ARGUMENT", "OUT_OF_RANGE", "ALREADY_EXISTS",
                         "ABORTED", "INTERNAL"},
           Refuse(h, i, code)
    PROVE  Base'
<1>1. "error" \in Labels \ {"idle"}
  BY DEF Labels
<1>2. /\ sessions' \in [Ids -> {NoSession} \cup Sessions] /\ sessions' = sessions
      /\ ref' \in [Handlers -> Handlers \cup {None}]
  BY DEF Base, TypeOK, Refuse
<1>3. /\ pc' = [pc EXCEPT ![h] = "error"] /\ crashed' = crashed
      /\ id' = [id EXCEPT ![h] = i] /\ reply' = [reply EXCEPT ![h] = code]
  BY DEF Refuse
<1> QED
  BY <1>1, <1>2, <1>3, BaseStep

\* Steps that go to a label.
LEMMA GotoBase ==
    ASSUME Base, NEW h \in Handlers, NEW label \in Labels \ {"idle"}, Goto(h, label),
           sessions' \in [Ids -> {NoSession} \cup Sessions],
           \A i \in Ids : sessions'[i] # NoSession /\ sessions'[i] # sessions[i] =>
                /\ Checked(sessions'[i])
                /\ sessions[i] # NoSession /\ sessions'[i].by = sessions[i].by
    PROVE  Base'
<1>1. /\ pc' = [pc EXCEPT ![h] = label] /\ id' = id /\ reply' = reply
      /\ crashed' = crashed /\ ref' \in [Handlers -> Handlers \cup {None}]
  BY DEF Base, TypeOK, Goto
<1> QED
  BY <1>1, BaseStep

\* Steps that answer.
LEMMA ReplyBase ==
    ASSUME Base, NEW h \in Handlers, NEW label \in Labels \ {"idle"},
           NEW code \in {"OK", "INVALID_ARGUMENT", "OUT_OF_RANGE", "FAILED_PRECONDITION",
                         "INTERNAL", "MACHINE_ERROR"},
           pc' = [pc EXCEPT ![h] = label], reply' = [reply EXCEPT ![h] = code],
           UNCHANGED <<id, ref, crashed>>,
           sessions' \in [Ids -> {NoSession} \cup Sessions],
           \A i \in Ids : sessions'[i] # NoSession /\ sessions'[i] # sessions[i] =>
                /\ Checked(sessions'[i])
                /\ sessions[i] # NoSession /\ sessions'[i].by = sessions[i].by
    PROVE  Base'
<1>1. /\ id' = id /\ crashed' = crashed /\ ref' \in [Handlers -> Handlers \cup {None}]
  BY DEF Base, TypeOK
<1> QED
  BY <1>1, BaseStep

\* A start that fails.
LEMMA FailBase ==
    ASSUME Base, NEW h \in Handlers, Valid(h),
           NEW code \in {"OK", "INVALID_ARGUMENT", "OUT_OF_RANGE", "FAILED_PRECONDITION",
                         "INTERNAL", "MACHINE_ERROR"},
           StartFails(h, code)
    PROVE  Base'
<1>1. "error" \in Labels \ {"idle"}
  BY DEF Labels
<1> QED
  BY <1>1, Erases, ReplyBase DEF StartFails

\* Locks that are given back.
LEMMA UnlockedIs ==
    ASSUME Base, NEW h \in Handlers, Valid(h), sessions' = Unlocked(h)
    PROVE  UpdateSession(h, [sessions[id[h]] EXCEPT !.session_lock = FALSE])
<1>1. sessions \in [Ids -> {NoSession} \cup Sessions] /\ id[h] \in Ids
  BY Updates DEF Base, TypeOK
<1> QED
  BY <1>1 DEF Unlocked, UpdateSession

\* The arrival of a request.
LEMMA RequestBase ==
    ASSUME Base, NEW h \in Handlers, Request(h)
    PROVE  Base'
<1>1. PICK i \in Ids \cup {EmptyId} :
        \/ \E req \in Requests : StartRequest(h, i, req)
        \/ EndRequest(h, i)
        \/ UseRequest(h, i)
  BY DEF Request
<1>2. ASSUME NEW req \in Requests, StartRequest(h, i, req) PROVE Base'
  <2>1. pc[h] = "idle"
    BY <1>2 DEF StartRequest
  <2>2. StartCode(i, req) \in {"OK", "INVALID_ARGUMENT", "OUT_OF_RANGE", "ALREADY_EXISTS"}
    BY Codes DEF StartCode
  <2>3. CASE Refuse(h, i, StartCode(i, req)) \/ Refuse(h, i, "INTERNAL")
    BY <2>1, <2>2, <2>3, RefuseBase
  <2>4. CASE /\ StartCode(i, req) = "OK"
             /\ sessions' = [sessions EXCEPT ![i] = NewSession(h, req)]
             /\ pc' = [pc EXCEPT ![h] = "checkin"]
             /\ id' = [id EXCEPT ![h] = i]
             /\ \E reused \in {{}} \cup {{g} : g \in {x \in Handlers : pc[x] = "ended"}} :
                ref' = [g \in Handlers |-> IF g \in reused \cup {h} THEN h ELSE ref[g]]
             /\ UNCHANGED <<reply, crashed>>
    <3> DEFINE n == NewSession(h, req)
    <3>1. i \in Ids /\ RequestCode(req) = "OK"
      BY <2>4 DEF StartCode
    <3>2. n \in Sessions /\ Checked(n) /\ n.by = h
      BY <3>1, FreshSession
    <3> HIDE DEF n
    <3>3. /\ sessions' \in [Ids -> {NoSession} \cup Sessions]
          /\ \A j \in Ids : sessions'[j] = IF j = i THEN n ELSE sessions[j]
      BY <2>4, <3>1, <3>2 DEF Base, TypeOK, n
    <3>4. ref' \in [Handlers -> Handlers \cup {None}]
      BY <2>4 DEF Base, TypeOK
    <3>5. "checkin" \in Labels \ {"idle"}
      BY DEF Labels, Starting
    <3>6. id'[h] = i
      BY <2>4 DEF Base, TypeOK
    <3>7. \A j \in Ids : sessions'[j] # NoSession /\ sessions'[j] # sessions[j] =>
              Checked(sessions'[j]) /\ sessions'[j].by = h /\ id'[h] = j
      BY <3>2, <3>3, <3>6
    <3> QED
      BY <2>1, <2>4, <3>1, <3>3, <3>4, <3>5, <3>7, BaseStep
  <2> QED
    BY <1>2, <2>3, <2>4 DEF StartRequest
<1>3. ASSUME NEW label \in {"using", "shutdown"}, LockSession(h, i, label) PROVE Base'
  <2>1. pc[h] = "idle" /\ LockCode(i) \in {"OK", "INVALID_ARGUMENT", "ABORTED"}
    BY <1>3 DEF LockSession, LockCode
  <2>2. CASE Refuse(h, i, LockCode(i))
    BY <2>1, <2>2, RefuseBase
  <2>3. CASE /\ LockCode(i) = "OK"
             /\ sessions' = [sessions EXCEPT ![i] = [@ EXCEPT !.session_lock = TRUE]]
             /\ pc' = [pc EXCEPT ![h] = label]
             /\ id' = [id EXCEPT ![h] = i]
             /\ ref' = [ref EXCEPT ![h] = sessions[i].by]
             /\ UNCHANGED <<reply, crashed>>
    <3> DEFINE n == [sessions[i] EXCEPT !.session_lock = TRUE]
    <3>1. i \in Ids /\ sessions[i] # NoSession
      BY <2>3 DEF LockCode
    <3>2. sessions[i] \in Sessions /\ Checked(sessions[i])
      BY <3>1 DEF Base, TypeOK, SessionsChecked
    <3>3. n \in Sessions /\ Checked(n) /\ n.by = sessions[i].by
      BY <3>2, Amended
    <3>4. sessions' = [sessions EXCEPT ![i] = n]
      BY <2>3, <3>1 DEF Base, TypeOK
    <3> HIDE DEF n
    <3>5. /\ sessions' \in [Ids -> {NoSession} \cup Sessions]
          /\ \A j \in Ids : sessions'[j] = IF j = i THEN n ELSE sessions[j]
      BY <3>1, <3>3, <3>4 DEF Base, TypeOK
    <3>6. ref' \in [Handlers -> Handlers \cup {None}]
      <4>1. sessions[i].by \in Handlers
        BY <3>2 DEF Sessions
      <4> QED
        BY <2>3, <4>1 DEF Base, TypeOK
    <3>7. label \in Labels \ {"idle"}
      BY DEF Labels
    <3>8. \A j \in Ids : sessions'[j] # NoSession /\ sessions'[j] # sessions[j] =>
              /\ Checked(sessions'[j])
              /\ sessions[j] # NoSession /\ sessions'[j].by = sessions[j].by
      BY <3>1, <3>3, <3>5
    <3> QED
      BY <2>1, <2>3, <3>5, <3>6, <3>7, <3>8, BaseStep
  <2> QED
    BY <1>3, <2>2, <2>3 DEF LockSession
<1>4. ASSUME crashed' = TRUE, UNCHANGED <<sessions, pc, id, ref, reply>> PROVE Base'
  BY <1>4 DEF Base, TypeOK, SessionsChecked, Checked
<1> QED
  BY <1>1, <1>2, <1>3, <1>4 DEF EndRequest, UseRequest

\* The steps of a handler.
LEMMA StepBase ==
    ASSUME Base, NEW h \in Handlers, Step(h)
    PROVE  Base'
<1> DEFINE s == sessions[id[h]]
<1>1. \A l \in {"version", "machine", "config", "mcycle", "run", "root_hash", "started",
                "done", "error", "ended"} : l \in Labels \ {"idle"}
  BY DEF Labels, Starting
<1>2. ASSUME Valid(h), NEW t \in Sessions, Checked(t), t.by = s.by, UpdateSession(h, t),
             NEW l \in Labels \ {"idle"}, Goto(h, l)
      PROVE  Base'
  BY <1>2, Replaces, GotoBase
<1>3. ASSUME sessions' = sessions, NEW l \in Labels \ {"idle"}, Goto(h, l)
      PROVE  Base'
  <2>1. sessions' \in [Ids -> {NoSession} \cup Sessions]
    BY <1>3 DEF Base, TypeOK
  <2> QED
    BY <1>3, <2>1, GotoBase
<1>4. Valid(h) => s \in Sessions /\ Checked(s)
  BY Updates
<1>5. CASE CheckedIn(h)
  BY <1>1, <1>2, <1>4, <1>5, Amended, FailBase DEF CheckedIn, At
<1>6. CASE VersionAnswered(h)
  BY <1>1, <1>3, <1>6, FailBase DEF VersionAnswered, At
<1>7. CASE MachineStarted(h) \/ McycleRead(h)
  BY <1>1, <1>3, <1>7 DEF MachineStarted, McycleRead
<1>8. CASE ConfigAnswered(h)
  <2>1. Valid(h)
    BY <1>8 DEF ConfigAnswered, At
  <2>2. PICK config \in MachineConfigs :
        \/ /\ ConfigCode(config) = "OK"
           /\ UpdateSession(h, [sessions[id[h]] EXCEPT !.memory_range = config.rollup])
           /\ Goto(h, "mcycle")
        \/ /\ ConfigCode(config) # "OK"
           /\ StartFails(h, ConfigCode(config))
    BY <1>8 DEF ConfigAnswered
  <2>3. CASE /\ ConfigCode(config) = "OK"
             /\ UpdateSession(h, [sessions[id[h]] EXCEPT !.memory_range = config.rollup])
             /\ Goto(h, "mcycle")
    <3> DEFINE u == [s EXCEPT !.memory_range = config.rollup]
    <3>1. u \in Sessions /\ Checked(u) /\ u.by = s.by
      <4> HIDE DEF s
      <4>1. s \in Sessions /\ Checked(s) /\ ConfigCode(config) = "OK"
        BY <1>4, <2>1, <2>3
      <4> QED
        BY <4>1, ConfigAmended
    <3>2. UpdateSession(h, u) /\ Goto(h, "mcycle")
      BY <2>3
    <3> HIDE DEF u
    <3> QED
      BY <1>1, <1>2, <2>1, <3>1, <3>2
  <2>4. CASE StartFails(h, ConfigCode(config))
    BY <2>1, <2>4, Codes, FailBase
  <2> QED
    BY <2>2, <2>3, <2>4
<1>9. CASE MachineYielded(h)
  <2> DEFINE u == [s EXCEPT !.current_mcycle = "mcycle"]
  <2>1. Valid(h)
    BY <1>9 DEF MachineYielded, At
  <2>2. CASE UpdateSession(h, u) /\ Goto(h, "root_hash")
    <3>1. u \in Sessions /\ Checked(u) /\ u.by = s.by
      BY <1>4, <2>1, Amended
    <3> HIDE DEF u
    <3> QED
      BY <1>1, <1>2, <2>1, <2>2, <3>1
  <2>3. CASE \E code \in {"INVALID_ARGUMENT", "INTERNAL"} : StartFails(h, code)
    BY <2>1, <2>3, FailBase
  <2> QED
    BY <1>9, <2>2, <2>3 DEF MachineYielded
<1>10. CASE RootHashAnswered(h)
  <2> DEFINE u == [s EXCEPT !.epochs = {s.request.active_epoch_index}]
  <2>1. Valid(h) /\ UpdateSession(h, u)
    BY <1>10 DEF RootHashAnswered, At
  <2>2. u \in Sessions /\ Checked(u) /\ u.by = s.by
    BY <1>4, <2>1, Amended
  <2> HIDE DEF u
  <2>3. /\ pc' = [pc EXCEPT ![h] = "started"] /\ reply' = [reply EXCEPT ![h] = "OK"]
        /\ UNCHANGED <<id, ref, crashed>>
    BY <1>10 DEF RootHashAnswered
  <2> QED
    BY <1>1, <2>1, <2>2, <2>3, Replaces, ReplyBase
<1>11. CASE CallFails(h)
  BY <1>11, FailBase DEF CallFails
<1>12. CASE Started(h) \/ Used(h)
  <2>1. Valid(h) /\ sessions' = Unlocked(h) /\ Goto(h, "done")
    BY <1>12 DEF Started, Used, At
  <2> QED
    BY <1>1, <1>2, <1>4, <2>1, UnlockedIs, Amended
<1>13. CASE ShutDown(h)
  <2>1. Valid(h) /\ UNCHANGED <<id, ref, crashed>>
    BY <1>13 DEF ShutDown, At
  <2>2. CASE /\ sessions' = [sessions EXCEPT ![id[h]] = NoSession]
             /\ pc' = [pc EXCEPT ![h] = "ended"]
             /\ reply' = [reply EXCEPT ![h] = "OK"]
    BY <1>1, <2>1, <2>2, Erases, ReplyBase
  <2>3. CASE /\ sessions' = Unlocked(h)
             /\ pc' = [pc EXCEPT ![h] = "error"]
             /\ reply' = [reply EXCEPT ![h] = "MACHINE_ERROR"]
    <3> DEFINE u == [s EXCEPT !.session_lock = FALSE]
    <3>1. u \in Sessions /\ Checked(u) /\ u.by = s.by
      BY <1>4, <2>1, Amended
    <3>2. UpdateSession(h, u)
      BY <2>1, <2>3, UnlockedIs
    <3> HIDE DEF u
    <3> QED
      BY <1>1, <2>1, <2>3, <3>1, <3>2, Replaces, ReplyBase
  <2> QED
    BY <1>13, <2>2, <2>3 DEF ShutDown
<1>14. CASE Ended(h)
  <2>1. Goto(h, "done")
    BY <1>14 DEF Ended
  <2>2. \A i \in Ids : sessions[i] # NoSession =>
            LET u == [sessions[i] EXCEPT !.session_lock = FALSE]
            IN  u \in Sessions /\ Checked(u) /\ u.by = sessions[i].by
    BY Amended DEF Base, TypeOK, SessionsChecked
  <2>3. \A i \in Ids : \/ sessions'[i] = sessions[i]
                       \/ /\ sessions[i] # NoSession
                          /\ sessions'[i] = [sessions[i] EXCEPT !.session_lock = FALSE]
    BY <1>14 DEF Ended
  <2>4. sessions' \in [Ids -> {NoSession} \cup Sessions]
    <3>1. sessions' = [i \in Ids |-> sessions'[i]]
      BY <1>14 DEF Ended
    <3> QED
      BY <2>2, <2>3, <3>1 DEF Base, TypeOK
  <2> QED
    BY <1>1, <2>1, <2>2, <2>3, <2>4, GotoBase
<1>15. CASE ErrorDelivered(h)
  BY <1>1, <1>3, <1>15 DEF ErrorDelivered
<1> QED
  BY <1>5, <1>6, <1>7, <1>8, <1>9, <1>10, <1>11, <1>12, <1>13, <1>14, <1>15 DEF Step

\* Every step.
LEMMA NextBase == Base /\ [Next]_vars => Base'
<1> SUFFICES ASSUME Base, [Next]_vars PROVE Base'
  OBVIOUS
<1>1. CASE UNCHANGED vars
  BY <1>1 DEF vars, Base, TypeOK, SessionsChecked, Checked
<1>2. ASSUME NEW h \in Handlers, UseAfterFree(h) PROVE Base'
  BY <1>2 DEF UseAfterFree, Base, TypeOK, SessionsChecked, Checked
<1> QED
  BY <1>1, <1>2, RequestBase, StepBase DEF Next

\* The empty table.
LEMMA InitBase == Init => Base
<1> SUFFICES ASSUME Init PROVE Base
  OBVIOUS
<1>1. /\ sessions \in [Ids -> {NoSession} \cup Sessions]
      /\ \A i \in Ids : sessions[i] = NoSession
  BY DEF Init
<1>2. pc \in [Handlers -> Labels] /\ id \in [Handlers -> Ids \cup {EmptyId, None}]
  BY DEF Init, Labels
<1>3. /\ ref \in [Handlers -> Handlers \cup {None}]
      /\ reply \in [Handlers -> {"none", "OK", "INVALID_ARGUMENT", "ALREADY_EXISTS",
                                 "ABORTED", "OUT_OF_RANGE", "FAILED_PRECONDITION",
                                 "INTERNAL", "MACHINE_ERROR"}]
  BY DEF Init
<1>4. crashed \in BOOLEAN
  BY DEF Init
<1> QED
  BY <1>1, <1>2, <1>3, <1>4 DEF Base, TypeOK, SessionsChecked

\* A session that is complete is fit for use: its limits allow at least one
\* increment, no increment of cycles is zero, the next epoch has an index and the
\* ranges are nodes of the machine's Merkle tree.
THEOREM ConfigStaysSound == Spec => []ConfigSound
  BY InitBase, NextBase, BaseSound, PTL DEF Spec

-----------------------------------------------------------------------------
(* What patient clients earn. *)

Holding == Starting \cup {"started", "using", "shutdown"}

\* What a session has by the time its StartSession is at a label.
FilledIn(label, s) ==
    /\ label \in (Starting \ {"checkin"}) \cup {"started"} => s.stub
    /\ label \in {"mcycle", "run", "root_hash", "started"} => s.memory_range # NoConfig
    /\ label \in {"root_hash", "started"} => s.current_mcycle # None
    /\ label = "started" => s.epochs = {s.request.active_epoch_index}

\* A session that is locked has one holder, and holders have a session that is
\* locked.
HoldersInPlace ==
    /\ \A h \in Handlers :
        pc[h] \in Holding =>
            /\ id[h] \in Ids /\ sessions[id[h]] # NoSession
            /\ sessions[id[h]].by = ref[h] /\ sessions[id[h]].session_lock
            /\ pc[h] \in Starting \cup {"started"} => ref[h] = h
            /\ FilledIn(pc[h], sessions[id[h]])
    /\ \A g, h \in Handlers :
        pc[g] \in Holding /\ pc[h] \in Holding /\ id[g] = id[h] => g = h
    /\ \A i \in Ids :
        sessions[i] # NoSession /\ sessions[i].session_lock =>
            \E h \in Handlers : pc[h] \in Holding /\ id[h] = i

\* A session is being started, or it is complete and its StartSession answered OK.
StartersInPlace ==
    \A i \in Ids : sessions[i] # NoSession =>
        \/ pc[sessions[i].by] \in Starting
        \/ /\ Complete(sessions[i])
           /\ pc[sessions[i].by] \in {"started", "done"}
           /\ reply[sessions[i].by] = "OK" /\ ref[sessions[i].by] = sessions[i].by

\* The session of an EndSession that answered OK is gone.
EndersInPlace ==
    /\ \A h \in Handlers :
        /\ pc[h] = "ended" => reply[h] = "OK" /\ ref[h] # h
        /\ reply[h] = "OK" => pc[h] \in {"started", "done", "ended"} /\ ref[h] # None
        /\ pc[h] = "started" => reply[h] = "OK"
        /\ ref[h] # None => pc[ref[h]] # "idle"
    /\ \A h \in Handlers, i \in Ids :
        reply[h] = "OK" /\ ref[h] # h /\ sessions[i] # NoSession =>
            sessions[i].by # ref[h]

\* The session of a StartSession that answered OK is there, or an EndSession has
\* taken it.
StartedInPlace ==
    \A h \in Handlers :
        pc[h] = "done" /\ reply[h] = "OK" /\ ref[h] = h =>
            \/ id[h] \in Ids /\ sessions[id[h]] # NoSession /\ sessions[id[h]].by = h
            \/ \E g \in Handlers : g # h /\ ref[g] = h /\ reply[g] = "OK"

Earned == HoldersInPlace /\ StartersInPlace /\ EndersInPlace /\ StartedInPlace

\* The labels.
LEMMA LabelSets ==
    /\ \A l \in Starting : /\ l \in Holding
                           /\ l \notin {"idle", "ended", "done", "error", "started"}
    /\ \A l \in {"started", "using", "shutdown"} : l \in Holding /\ l \notin Starting
    /\ \A l \in {"idle", "ended", "done", "error"} : l \notin Holding /\ l \notin Starting
    /\ "checkin" \in Starting
  BY DEF Holding, Starting

\* A request that is refused.
LEMMA RefuseEarned ==
    ASSUME Base, Earned, NEW h \in Handlers, pc[h] = "idle", NEW i, NEW code,
           code # "OK", Refuse(h, i, code)
    PROVE  Earned'
<1>1. /\ \A g \in Handlers : /\ pc'[g] = IF g = h THEN "error" ELSE pc[g]
                             /\ g # h => id'[g] = id[g] /\ reply'[g] = reply[g]
      /\ reply'[h] = code /\ sessions' = sessions /\ ref' = ref
      /\ \A g \in Handlers : ref[g] \in Handlers \cup {None}
  BY DEF Refuse, Base, TypeOK
<1>2. \A j \in Ids : sessions[j] # NoSession =>
        sessions[j].by \in Handlers /\ sessions[j].by # h
  BY DEF Base, TypeOK, SessionsChecked, Sessions
<1>3. HoldersInPlace'
  BY <1>1, LabelSets DEF Earned, HoldersInPlace
<1>4. StartersInPlace'
  BY <1>1, <1>2 DEF Earned, StartersInPlace, Complete
<1>5. EndersInPlace'
  BY <1>1 DEF Earned, EndersInPlace
<1>6. StartedInPlace'
  BY <1>1, StartSessionAssumption DEF Earned, StartedInPlace, EndersInPlace
<1> QED
  BY <1>3, <1>4, <1>5, <1>6 DEF Earned

\* A start that gets one step further.
LEMMA AmendEarned ==
    ASSUME Base, Earned, NEW h \in Handlers, pc[h] \in Starting, NEW t \in Sessions,
           t.by = sessions[id[h]].by, t.session_lock = sessions[id[h]].session_lock,
           UpdateSession(h, t), NEW l \in Starting, FilledIn(l, t), Goto(h, l)
    PROVE  Earned'
<1>1. /\ id[h] \in Ids /\ sessions[id[h]] # NoSession /\ sessions[id[h]].by = h
      /\ ref[h] = h /\ sessions[id[h]].session_lock
  BY LabelSets DEF Earned, HoldersInPlace
<1>2. /\ \A g \in Handlers : pc'[g] = IF g = h THEN l ELSE pc[g]
      /\ id' = id /\ reply' = reply /\ ref' = ref
      /\ \A j \in Ids : sessions'[j] = IF j = id[h] THEN t ELSE sessions[j]
      /\ \A g \in Handlers : ref[g] \in Handlers \cup {None}
  BY <1>1 DEF Goto, UpdateSession, Base, TypeOK
<1>3. t # NoSession
  BY StartSessionAssumption
<1>4. \A j \in Ids : sessions[j] # NoSession =>
        /\ sessions[j].by \in Handlers
        /\ sessions[j].by = h => j = id[h]
  BY DEF Base, TypeOK, Sessions
<1>5. HoldersInPlace'
  <2>1. ASSUME NEW g \in Handlers, pc'[g] \in Holding
        PROVE  /\ id'[g] \in Ids /\ sessions'[id'[g]] # NoSession
               /\ sessions'[id'[g]].by = ref'[g] /\ sessions'[id'[g]].session_lock
               /\ pc'[g] \in Starting \cup {"started"} => ref'[g] = g
               /\ FilledIn(pc'[g], sessions'[id'[g]])
    <3>1. CASE g = h
      BY <1>1, <1>2, <1>3, <3>1, LabelSets
    <3>2. CASE g # h
      <4>1. pc[g] \in Holding /\ id[g] # id[h]
        BY <1>2, <2>1, <3>2, LabelSets DEF Earned, HoldersInPlace
      <4>2. sessions'[id'[g]] = sessions[id[g]] /\ pc'[g] = pc[g]
        BY <1>2, <3>2, <4>1 DEF Earned, HoldersInPlace
      <4> QED
        BY <1>2, <4>1, <4>2 DEF Earned, HoldersInPlace
    <3> QED
      BY <3>1, <3>2
  <2>2. \A f, g \in Handlers :
            pc'[f] \in Holding /\ pc'[g] \in Holding /\ id'[f] = id'[g] => f = g
    BY <1>2, LabelSets DEF Earned, HoldersInPlace
  <2>3. \A i \in Ids :
            sessions'[i] # NoSession /\ sessions'[i].session_lock =>
                \E g \in Handlers : pc'[g] \in Holding /\ id'[g] = i
    BY <1>1, <1>2, LabelSets DEF Earned, HoldersInPlace
  <2> QED
    BY <2>1, <2>2, <2>3 DEF HoldersInPlace, FilledIn
<1>6. StartersInPlace'
  BY <1>1, <1>2, <1>3, <1>4 DEF Earned, StartersInPlace, Complete
<1>7. EndersInPlace'
  BY <1>1, <1>2, <1>3, LabelSets DEF Earned, EndersInPlace
<1>8. StartedInPlace'
  BY <1>1, <1>2, <1>3, LabelSets DEF Earned, StartedInPlace
<1> QED
  BY <1>5, <1>6, <1>7, <1>8 DEF Earned

\* A start that fails.
LEMMA FailEarned ==
    ASSUME Base, Earned, NEW h \in Handlers, pc[h] \in Starting, NEW code,
           code # "OK", StartFails(h, code)
    PROVE  Earned'
<1>1. /\ id[h] \in Ids /\ sessions[id[h]] # NoSession /\ sessions[id[h]].by = h
      /\ ref[h] = h /\ sessions[id[h]].session_lock
  BY LabelSets DEF Earned, HoldersInPlace
<1>2. /\ \A g \in Handlers : /\ pc'[g] = IF g = h THEN "error" ELSE pc[g]
                             /\ reply'[g] = IF g = h THEN code ELSE reply[g]
      /\ id' = id /\ ref' = ref
      /\ \A j \in Ids : sessions'[j] = IF j = id[h] THEN NoSession ELSE sessions[j]
      /\ \A g \in Handlers : ref[g] \in Handlers \cup {None}
  BY <1>1 DEF StartFails, Base, TypeOK
<1>3. \A j \in Ids : sessions[j] # NoSession =>
        /\ sessions[j].by \in Handlers
        /\ sessions[j].by = h => j = id[h]
  BY DEF Base, TypeOK, Sessions
<1>4. HoldersInPlace'
  BY <1>1, <1>2, LabelSets DEF Earned, HoldersInPlace
<1>5. StartersInPlace'
  BY <1>1, <1>2, <1>3 DEF Earned, StartersInPlace, Complete
<1>6. EndersInPlace'
  BY <1>1, <1>2, LabelSets DEF Earned, EndersInPlace
<1>7. StartedInPlace'
  BY <1>1, <1>2, LabelSets DEF Earned, StartedInPlace, EndersInPlace
<1> QED
  BY <1>4, <1>5, <1>6, <1>7 DEF Earned

\* A start that is complete.
LEMMA RootHashEarned ==
    ASSUME Base, Earned, NEW h \in Handlers, RootHashAnswered(h)
    PROVE  Earned'
<1> DEFINE s == sessions[id[h]]
           t == [s EXCEPT !.epochs = {s.request.active_epoch_index}]
<1>1. pc[h] = "root_hash" /\ "root_hash" \in Starting /\ Valid(h)
  BY DEF RootHashAnswered, At, Starting
<1>2. /\ id[h] \in Ids /\ s # NoSession /\ s.by = h
      /\ ref[h] = h /\ s.session_lock /\ FilledIn("root_hash", s)
  BY <1>1, LabelSets DEF Earned, HoldersInPlace
<1>3. /\ t \in Sessions /\ t.by = h /\ t.session_lock /\ t # NoSession
      /\ FilledIn("started", t) /\ Complete(t)
  <2>1. s \in Sessions /\ Checked(s)
    BY <1>1, Updates
  <2>2. /\ t \in Sessions /\ t.by = s.by /\ t.session_lock = s.session_lock
        /\ t.stub = s.stub /\ t.memory_range = s.memory_range
        /\ t.current_mcycle = s.current_mcycle
        /\ t.epochs = {t.request.active_epoch_index}
    BY <2>1, Amended
  <2>3. s.stub /\ s.memory_range # NoConfig /\ s.current_mcycle # None
    BY <1>2 DEF FilledIn, Starting
  <2> HIDE DEF s, t
  <2> QED
    BY <1>2, <2>2, <2>3, StartSessionAssumption DEF FilledIn, Complete
<1> HIDE DEF s, t
<1>4. /\ \A g \in Handlers : /\ pc'[g] = IF g = h THEN "started" ELSE pc[g]
                             /\ reply'[g] = IF g = h THEN "OK" ELSE reply[g]
      /\ id' = id /\ ref' = ref
      /\ \A j \in Ids : sessions'[j] = IF j = id[h] THEN t ELSE sessions[j]
      /\ \A g \in Handlers : ref[g] \in Handlers \cup {None}
  BY <1>2 DEF RootHashAnswered, UpdateSession, Base, TypeOK, s, t
<1>5. \A j \in Ids : sessions[j] # NoSession =>
        /\ sessions[j].by \in Handlers
        /\ sessions[j].by = h => j = id[h]
  BY DEF Base, TypeOK, Sessions
<1>6. HoldersInPlace'
  <2>1. ASSUME NEW g \in Handlers, pc'[g] \in Holding
        PROVE  /\ id'[g] \in Ids /\ sessions'[id'[g]] # NoSession
               /\ sessions'[id'[g]].by = ref'[g] /\ sessions'[id'[g]].session_lock
               /\ pc'[g] \in Starting \cup {"started"} => ref'[g] = g
               /\ FilledIn(pc'[g], sessions'[id'[g]])
    <3>1. CASE g = h
      BY <1>2, <1>3, <1>4, <3>1
    <3>2. CASE g # h
      <4>1. pc[g] \in Holding /\ id[g] # id[h]
        BY <1>1, <1>4, <2>1, <3>2, LabelSets DEF Earned, HoldersInPlace
      <4>2. sessions'[id'[g]] = sessions[id[g]] /\ pc'[g] = pc[g]
        BY <1>4, <3>2, <4>1 DEF Earned, HoldersInPlace
      <4> QED
        BY <1>4, <4>1, <4>2 DEF Earned, HoldersInPlace
    <3> QED
      BY <3>1, <3>2
  <2>2. \A f, g \in Handlers :
            pc'[f] \in Holding /\ pc'[g] \in Holding /\ id'[f] = id'[g] => f = g
    BY <1>1, <1>4, LabelSets DEF Earned, HoldersInPlace
  <2>3. \A i \in Ids :
            sessions'[i] # NoSession /\ sessions'[i].session_lock =>
                \E g \in Handlers : pc'[g] \in Holding /\ id'[g] = i
    BY <1>2, <1>4, LabelSets DEF Earned, HoldersInPlace
  <2> QED
    BY <2>1, <2>2, <2>3 DEF HoldersInPlace, FilledIn
<1>7. StartersInPlace'
  BY <1>2, <1>3, <1>4, <1>5 DEF Earned, StartersInPlace, Complete
<1>8. EndersInPlace'
  BY <1>1, <1>2, <1>3, <1>4, StartSessionAssumption DEF Earned, EndersInPlace, s
<1>9. StartedInPlace'
  BY <1>1, <1>2, <1>3, <1>4 DEF Earned, StartedInPlace, EndersInPlace, s
<1> QED
  BY <1>6, <1>7, <1>8, <1>9 DEF Earned

\* A lock that is given back.
LEMMA UnlockEarned ==
    ASSUME Base, Earned, NEW h \in Handlers, pc[h] \in {"started", "using", "shutdown"},
           sessions' = Unlocked(h), NEW l \in {"done", "error"},
           pc' = [pc EXCEPT ![h] = l], UNCHANGED <<id, ref>>,
           \/ l = "done" /\ reply' = reply
           \/ /\ pc[h] = "shutdown" /\ reply' = [reply EXCEPT ![h] = "MACHINE_ERROR"]
    PROVE  Earned'
<1> DEFINE s == sessions[id[h]]
           t == [s EXCEPT !.session_lock = FALSE]
<1>1. /\ id[h] \in Ids /\ s # NoSession /\ s.by = ref[h] /\ s.session_lock
      /\ pc[h] = "started" => ref[h] = h
  BY LabelSets DEF Earned, HoldersInPlace
<1>2. /\ t.by = s.by /\ ~t.session_lock
      /\ t.stub = s.stub /\ t.memory_range = s.memory_range /\ t.request = s.request
      /\ t.current_mcycle = s.current_mcycle /\ t.epochs = s.epochs
      /\ t # NoSession
  <2>1. s \in Sessions
    BY <1>1 DEF Base, TypeOK
  <2> HIDE DEF s
  <2> QED
    BY <2>1, StartSessionAssumption DEF Sessions
<1>3. \A j \in Ids : sessions'[j] = IF j = id[h] THEN t ELSE sessions[j]
  BY <1>1 DEF Unlocked, Base, TypeOK
<1> HIDE DEF t
<1>4. /\ \A g \in Handlers : /\ pc'[g] = IF g = h THEN l ELSE pc[g]
                             /\ g # h => reply'[g] = reply[g]
      /\ id' = id /\ ref' = ref
      /\ \/ l = "done" /\ reply' = reply
         \/ pc[h] = "shutdown" /\ reply'[h] = "MACHINE_ERROR"
      /\ \A g \in Handlers : ref[g] \in Handlers \cup {None}
  BY DEF Base, TypeOK
<1>5. \A j \in Ids : sessions[j] # NoSession =>
        /\ sessions[j].by \in Handlers
        /\ id[sessions[j].by] = j
  BY DEF Base, TypeOK, Sessions
<1>6. /\ \A g \in Handlers : pc'[g] \in Holding => g # h /\ pc[g] \in Holding
      /\ \A g \in Handlers : pc[g] \in Holding /\ g # h => id[g] # id[h]
  BY <1>4, LabelSets DEF Earned, HoldersInPlace
<1>7. Complete(t) = Complete(s)
  BY <1>2 DEF Complete
<1>8. HoldersInPlace'
  <2>1. ASSUME NEW g \in Handlers, pc'[g] \in Holding
        PROVE  /\ id'[g] \in Ids /\ sessions'[id'[g]] # NoSession
               /\ sessions'[id'[g]].by = ref'[g] /\ sessions'[id'[g]].session_lock
               /\ pc'[g] \in Starting \cup {"started"} => ref'[g] = g
               /\ FilledIn(pc'[g], sessions'[id'[g]])
    <3>1. pc[g] \in Holding /\ id[g] # id[h] /\ g # h
      BY <1>6, <2>1
    <3>2. sessions'[id'[g]] = sessions[id[g]] /\ pc'[g] = pc[g]
      BY <1>3, <1>4, <3>1 DEF Earned, HoldersInPlace
    <3> QED
      BY <1>4, <3>1, <3>2 DEF Earned, HoldersInPlace
  <2>2. \A f, g \in Handlers :
            pc'[f] \in Holding /\ pc'[g] \in Holding /\ id'[f] = id'[g] => f = g
    BY <1>4, <1>6 DEF Earned, HoldersInPlace
  <2>3. \A i \in Ids :
            sessions'[i] # NoSession /\ sessions'[i].session_lock =>
                \E g \in Handlers : pc'[g] \in Holding /\ id'[g] = i
    BY <1>2, <1>3, <1>4 DEF Earned, HoldersInPlace
  <2> QED
    BY <2>1, <2>2, <2>3 DEF HoldersInPlace, FilledIn
<1>9. StartersInPlace'
  <2> SUFFICES ASSUME NEW i \in Ids, sessions'[i] # NoSession
               PROVE  \/ pc'[sessions'[i].by] \in Starting
                      \/ /\ Complete(sessions'[i])
                         /\ pc'[sessions'[i].by] \in {"started", "done"}
                         /\ reply'[sessions'[i].by] = "OK"
                         /\ ref'[sessions'[i].by] = sessions'[i].by
    BY DEF StartersInPlace, Complete
  <2>1. /\ sessions[i] # NoSession /\ sessions'[i].by = sessions[i].by
        /\ Complete(sessions'[i]) = Complete(sessions[i])
    BY <1>1, <1>2, <1>3, <1>7
  <2>2. CASE sessions[i].by = h
    <3>1. pc[h] \notin Starting /\ pc[h] # "shutdown"
      BY <2>1, <2>2, LabelSets DEF Earned, StartersInPlace
    <3>2. /\ Complete(sessions[i]) /\ reply[h] = "OK" /\ ref[h] = h
      BY <2>1, <2>2, <3>1 DEF Earned, StartersInPlace
    <3> QED
      BY <1>4, <2>1, <2>2, <3>1, <3>2
  <2>3. CASE sessions[i].by # h
    BY <1>4, <1>5, <2>1, <2>3 DEF Earned, StartersInPlace
  <2> QED
    BY <2>2, <2>3
<1>10. EndersInPlace'
  BY <1>1, <1>2, <1>3, <1>4 DEF Earned, EndersInPlace
<1>11. StartedInPlace'
  BY <1>1, <1>2, <1>3, <1>4 DEF Earned, StartedInPlace, EndersInPlace
<1> QED
  BY <1>8, <1>9, <1>10, <1>11 DEF Earned

\* A handler that ends without a session.
LEMMA DoneEarned ==
    ASSUME Base, Earned, NEW h \in Handlers, pc[h] \in {"ended", "error"},
           sessions' = sessions, Goto(h, "done")
    PROVE  Earned'
<1>1. /\ \A g \in Handlers : pc'[g] = IF g = h THEN "done" ELSE pc[g]
      /\ id' = id /\ ref' = ref /\ reply' = reply
      /\ \A g \in Handlers : ref[g] \in Handlers \cup {None}
      /\ \A i \in Ids : sessions[i] # NoSession => sessions[i].by \in Handlers
  BY DEF Goto, Base, TypeOK, Sessions
<1>2. HoldersInPlace'
  BY <1>1, LabelSets DEF Earned, HoldersInPlace
<1>3. StartersInPlace'
  BY <1>1, LabelSets DEF Earned, StartersInPlace, Complete
<1>4. EndersInPlace'
  BY <1>1 DEF Earned, EndersInPlace
<1>5. StartedInPlace'
  BY <1>1 DEF Earned, StartedInPlace, EndersInPlace
<1> QED
  BY <1>2, <1>3, <1>4, <1>5 DEF Earned

\* A session that is erased by EndSession.
LEMMA EndEarned ==
    ASSUME Base, Earned, NEW h \in Handlers, pc[h] = "shutdown",
           sessions' = [sessions EXCEPT ![id[h]] = NoSession],
           pc' = [pc EXCEPT ![h] = "ended"], reply' = [reply EXCEPT ![h] = "OK"],
           UNCHANGED <<id, ref>>
    PROVE  Earned'
<1>1. /\ id[h] \in Ids /\ sessions[id[h]] # NoSession
      /\ sessions[id[h]].by = ref[h] /\ ref[h] # h
  BY LabelSets DEF Earned, HoldersInPlace, StartersInPlace
<1>2. /\ \A g \in Handlers : /\ pc'[g] = IF g = h THEN "ended" ELSE pc[g]
                             /\ reply'[g] = IF g = h THEN "OK" ELSE reply[g]
      /\ id' = id /\ ref' = ref
      /\ \A j \in Ids : sessions'[j] = IF j = id[h] THEN NoSession ELSE sessions[j]
      /\ \A g \in Handlers : ref[g] \in Handlers \cup {None}
  BY <1>1 DEF Base, TypeOK
<1>3. \A j \in Ids : sessions[j] # NoSession =>
        /\ sessions[j].by \in Handlers /\ id[sessions[j].by] = j
  BY DEF Base, TypeOK, Sessions
<1>4. HoldersInPlace'
  BY <1>1, <1>2, LabelSets DEF Earned, HoldersInPlace
<1>5. StartersInPlace'
  <2>1. \A j \in Ids : sessions[j] # NoSession => sessions[j].by # h
    BY LabelSets DEF Earned, StartersInPlace
  <2> QED
    BY <1>2, <1>3, <2>1 DEF Earned, StartersInPlace, Complete
<1>6. EndersInPlace'
  BY <1>1, <1>2, <1>3, StartSessionAssumption DEF Earned, EndersInPlace
<1>7. StartedInPlace'
  BY <1>1, <1>2 DEF Earned, StartedInPlace, EndersInPlace
<1> QED
  BY <1>4, <1>5, <1>6, <1>7 DEF Earned

\* A session that is locked by a request for it.
LEMMA LockEarned ==
    ASSUME Base, Earned, NEW h \in Handlers, pc[h] = "idle", NEW i, LockCode(i) = "OK",
           NEW l \in {"using", "shutdown"},
           sessions' = [sessions EXCEPT ![i] = [@ EXCEPT !.session_lock = TRUE]],
           pc' = [pc EXCEPT ![h] = l], id' = [id EXCEPT ![h] = i],
           ref' = [ref EXCEPT ![h] = sessions[i].by], UNCHANGED reply,
           i \in Ids \cup {EmptyId}
    PROVE  Earned'
<1> DEFINE s == sessions[i]
           t == [s EXCEPT !.session_lock = TRUE]
<1>1. /\ i \in Ids /\ s # NoSession /\ ~s.session_lock /\ s.by \in Handlers /\ s.by # h
      /\ pc[h] = "idle"
  BY DEF LockCode, Base, TypeOK, SessionsChecked, Sessions
<1>2. \A g \in Handlers : pc[g] \in Holding => id[g] # i
  BY <1>1 DEF Earned, HoldersInPlace
<1>3. /\ t.by = s.by /\ t.session_lock /\ t # NoSession
      /\ Complete(t) = Complete(s)
  <2>1. s \in Sessions /\ Checked(s)
    BY <1>1 DEF Base, TypeOK, SessionsChecked
  <2>2. /\ t \in Sessions /\ t.by = s.by /\ t.session_lock = TRUE
        /\ t.stub = s.stub /\ t.memory_range = s.memory_range /\ t.request = s.request
        /\ t.current_mcycle = s.current_mcycle /\ t.epochs = s.epochs
    BY <2>1, Amended
  <2> HIDE DEF s, t
  <2> QED
    BY <2>2, StartSessionAssumption DEF Complete
<1>4. /\ \A g \in Handlers : /\ pc'[g] = IF g = h THEN l ELSE pc[g]
                             /\ id'[g] = IF g = h THEN i ELSE id[g]
                             /\ ref'[g] = IF g = h THEN s.by ELSE ref[g]
      /\ reply' = reply
      /\ \A j \in Ids : sessions'[j] = IF j = i THEN t ELSE sessions[j]
      /\ \A g \in Handlers : ref[g] \in Handlers \cup {None}
  BY <1>1 DEF Base, TypeOK
<1> HIDE DEF t
<1>5. \A j \in Ids : sessions[j] # NoSession =>
        sessions[j].by \in Handlers /\ sessions[j].by # h
  BY DEF Base, TypeOK, SessionsChecked, Sessions
<1>6. HoldersInPlace'
  <2>1. ASSUME NEW g \in Handlers, pc'[g] \in Holding
        PROVE  /\ id'[g] \in Ids /\ sessions'[id'[g]] # NoSession
               /\ sessions'[id'[g]].by = ref'[g] /\ sessions'[id'[g]].session_lock
               /\ pc'[g] \in Starting \cup {"started"} => ref'[g] = g
               /\ FilledIn(pc'[g], sessions'[id'[g]])
    <3>1. CASE g = h
      <4>1. FilledIn(l, t)
        BY LabelSets DEF FilledIn
      <4>2. /\ pc'[g] = l /\ id'[g] = i /\ ref'[g] = s.by /\ sessions'[i] = t
            /\ l \notin Starting \cup {"started"}
        BY <1>1, <1>4, <3>1, LabelSets
      <4> QED
        BY <1>1, <1>3, <4>1, <4>2
    <3>2. CASE g # h
      <4>1. pc[g] \in Holding /\ id[g] # i
        BY <1>2, <1>4, <2>1, <3>2 DEF Earned, HoldersInPlace
      <4>2. sessions'[id'[g]] = sessions[id[g]] /\ pc'[g] = pc[g]
        BY <1>4, <3>2, <4>1 DEF Earned, HoldersInPlace
      <4> QED
        BY <1>4, <3>2, <4>1, <4>2 DEF Earned, HoldersInPlace
    <3> QED
      BY <3>1, <3>2
  <2>2. \A f, g \in Handlers :
            pc'[f] \in Holding /\ pc'[g] \in Holding /\ id'[f] = id'[g] => f = g
    BY <1>2, <1>4 DEF Earned, HoldersInPlace
  <2>3. \A j \in Ids :
            sessions'[j] # NoSession /\ sessions'[j].session_lock =>
                \E g \in Handlers : pc'[g] \in Holding /\ id'[g] = j
    <3>1. pc'[h] \in Holding /\ id'[h] = i
      BY <1>4, LabelSets
    <3>2. ASSUME NEW j \in Ids, j # i, sessions'[j] # NoSession, sessions'[j].session_lock
          PROVE  \E g \in Handlers : pc'[g] \in Holding /\ id'[g] = j
      <4>1. PICK g \in Handlers : pc[g] \in Holding /\ id[g] = j
        BY <1>4, <3>2 DEF Earned, HoldersInPlace
      <4>2. g # h
        BY <4>1, LabelSets, <1>1
      <4> QED
        BY <1>4, <4>1, <4>2
    <3> QED
      BY <3>1, <3>2
  <2> QED
    BY <2>1, <2>2, <2>3 DEF HoldersInPlace, FilledIn
<1>7. StartersInPlace'
  <2> SUFFICES ASSUME NEW j \in Ids, sessions'[j] # NoSession
               PROVE  \/ pc'[sessions'[j].by] \in Starting
                      \/ /\ Complete(sessions'[j])
                         /\ pc'[sessions'[j].by] \in {"started", "done"}
                         /\ reply'[sessions'[j].by] = "OK"
                         /\ ref'[sessions'[j].by] = sessions'[j].by
    BY DEF StartersInPlace, Complete
  <2>1. /\ sessions[j] # NoSession /\ sessions'[j].by = sessions[j].by
        /\ Complete(sessions'[j]) = Complete(sessions[j])
    BY <1>1, <1>3, <1>4
  <2> QED
    BY <1>4, <1>5, <2>1 DEF Earned, StartersInPlace
<1>8. EndersInPlace'
  <2>1. pc[s.by] # "idle"
    BY <1>1 DEF Base, SessionsChecked
  <2>2. reply[h] # "OK"
    BY <1>1 DEF Earned, EndersInPlace
  <2> QED
    BY <1>1, <1>3, <1>4, <2>1, <2>2 DEF Earned, EndersInPlace
<1>9. StartedInPlace'
  <2>1. reply[h] # "OK"
    BY <1>1 DEF Earned, EndersInPlace
  <2> SUFFICES ASSUME NEW g \in Handlers, pc'[g] = "done", reply'[g] = "OK", ref'[g] = g
               PROVE  \/ /\ id'[g] \in Ids /\ sessions'[id'[g]] # NoSession
                         /\ sessions'[id'[g]].by = g
                      \/ \E f \in Handlers : f # g /\ ref'[f] = g /\ reply'[f] = "OK"
    BY DEF StartedInPlace
  <2>2. g # h /\ pc[g] = "done" /\ reply[g] = "OK" /\ ref[g] = g /\ id'[g] = id[g]
    BY <1>4, <2>1
  <2>3. CASE id[g] \in Ids /\ sessions[id[g]] # NoSession /\ sessions[id[g]].by = g
    BY <1>3, <1>4, <2>2, <2>3
  <2>4. CASE \E f \in Handlers : f # g /\ ref[f] = g /\ reply[f] = "OK"
    BY <1>4, <2>1, <2>4
  <2> QED
    BY <2>2, <2>3, <2>4 DEF Earned, StartedInPlace
<1> QED
  BY <1>6, <1>7, <1>8, <1>9 DEF Earned

\* A session that comes into being while no EndSession is ending.
LEMMA StartEarned ==
    ASSUME Base, Earned, NEW h \in Handlers, pc[h] = "idle", NEW i \in Ids,
           NEW req \in Requests, StartCode(i, req) = "OK",
           sessions' = [sessions EXCEPT ![i] = NewSession(h, req)],
           pc' = [pc EXCEPT ![h] = "checkin"], id' = [id EXCEPT ![h] = i],
           ref' = [ref EXCEPT ![h] = h], UNCHANGED reply
    PROVE  Earned'
<1> DEFINE t == NewSession(h, req)
<1>1. i \in Ids /\ sessions[i] = NoSession /\ RequestCode(req) = "OK" /\ pc[h] = "idle"
  BY StartSessionAssumption DEF StartCode
<1>2. \A g \in Handlers : pc[g] \in Holding => id[g] # i
  BY <1>1 DEF Earned, HoldersInPlace
<1>3. t.by = h /\ t.session_lock /\ t # NoSession
  BY <1>1, FreshSession, StartSessionAssumption
<1> HIDE DEF t
<1>4. /\ \A g \in Handlers : /\ pc'[g] = IF g = h THEN "checkin" ELSE pc[g]
                             /\ id'[g] = IF g = h THEN i ELSE id[g]
                             /\ ref'[g] = IF g = h THEN h ELSE ref[g]
      /\ reply' = reply
      /\ \A j \in Ids : sessions'[j] = IF j = i THEN t ELSE sessions[j]
      /\ \A g \in Handlers : ref[g] \in Handlers \cup {None}
  BY <1>1 DEF Base, TypeOK, t
<1>5. \A j \in Ids : sessions[j] # NoSession =>
        sessions[j].by \in Handlers /\ sessions[j].by # h
  BY DEF Base, TypeOK, SessionsChecked, Sessions
<1>6. HoldersInPlace'
  <2>1. ASSUME NEW g \in Handlers, pc'[g] \in Holding
        PROVE  /\ id'[g] \in Ids /\ sessions'[id'[g]] # NoSession
               /\ sessions'[id'[g]].by = ref'[g] /\ sessions'[id'[g]].session_lock
               /\ pc'[g] \in Starting \cup {"started"} => ref'[g] = g
               /\ FilledIn(pc'[g], sessions'[id'[g]])
    <3>1. CASE g = h
      <4>1. FilledIn("checkin", t)
        BY LabelSets DEF FilledIn
      <4> QED
        BY <1>1, <1>3, <1>4, <3>1, <4>1, LabelSets
    <3>2. CASE g # h
      <4>1. pc[g] \in Holding /\ id[g] # i
        BY <1>2, <1>4, <2>1, <3>2 DEF Earned, HoldersInPlace
      <4>2. sessions'[id'[g]] = sessions[id[g]] /\ pc'[g] = pc[g]
        BY <1>4, <3>2, <4>1 DEF Earned, HoldersInPlace
      <4> QED
        BY <1>4, <3>2, <4>1, <4>2 DEF Earned, HoldersInPlace
    <3> QED
      BY <3>1, <3>2
  <2>2. \A f, g \in Handlers :
            pc'[f] \in Holding /\ pc'[g] \in Holding /\ id'[f] = id'[g] => f = g
    BY <1>2, <1>4 DEF Earned, HoldersInPlace
  <2>3. \A j \in Ids :
            sessions'[j] # NoSession /\ sessions'[j].session_lock =>
                \E g \in Handlers : pc'[g] \in Holding /\ id'[g] = j
    <3>1. pc'[h] \in Holding /\ id'[h] = i
      BY <1>4, LabelSets
    <3>2. ASSUME NEW j \in Ids, j # i, sessions'[j] # NoSession, sessions'[j].session_lock
          PROVE  \E g \in Handlers : pc'[g] \in Holding /\ id'[g] = j
      <4>1. PICK g \in Handlers : pc[g] \in Holding /\ id[g] = j
        BY <1>4, <3>2 DEF Earned, HoldersInPlace
      <4>2. g # h
        BY <4>1, LabelSets, <1>1
      <4> QED
        BY <1>4, <4>1, <4>2
    <3> QED
      BY <3>1, <3>2
  <2> QED
    BY <2>1, <2>2, <2>3 DEF HoldersInPlace, FilledIn
<1>7. StartersInPlace'
  BY <1>3, <1>4, <1>5, LabelSets DEF Earned, StartersInPlace, Complete
<1>8. EndersInPlace'
  <2>1. reply[h] # "OK" /\ \A g \in Handlers : ref[g] # h
    BY <1>1, StartSessionAssumption DEF Earned, EndersInPlace
  <2> QED
    BY <1>1, <1>3, <1>4, <2>1 DEF Earned, EndersInPlace
<1>9. StartedInPlace'
  <2>1. reply[h] # "OK"
    BY <1>1 DEF Earned, EndersInPlace
  <2> QED
    BY <1>1, <1>3, <1>4, <2>1 DEF Earned, StartedInPlace
<1> QED
  BY <1>6, <1>7, <1>8, <1>9 DEF Earned

\* The arrival of a request, while no EndSession is ending if it starts a session.
LEMMA RequestEarned ==
    ASSUME Base, Earned, ~crashed, NEW h \in Handlers, Request(h), Patience
    PROVE  ~crashed' /\ Earned'
<1>1. PICK i \in Ids \cup {EmptyId} :
        \/ \E req \in Requests : StartRequest(h, i, req)
        \/ EndRequest(h, i)
        \/ UseRequest(h, i)
  BY DEF Request
<1>2. ASSUME NEW req \in Requests, StartRequest(h, i, req) PROVE ~crashed' /\ Earned'
  <2>1. pc[h] = "idle"
    BY <1>2 DEF StartRequest
  <2>2. CASE \/ StartCode(i, req) # "OK" /\ Refuse(h, i, StartCode(i, req))
             \/ Refuse(h, i, "INTERNAL")
    BY <2>1, <2>2, RefuseEarned DEF Refuse
  <2>3. CASE /\ StartCode(i, req) = "OK"
             /\ sessions' = [sessions EXCEPT ![i] = NewSession(h, req)]
             /\ pc' = [pc EXCEPT ![h] = "checkin"]
             /\ id' = [id EXCEPT ![h] = i]
             /\ \E reused \in {{}} \cup {{g} : g \in {x \in Handlers : pc[x] = "ended"}} :
                ref' = [g \in Handlers |-> IF g \in reused \cup {h} THEN h ELSE ref[g]]
             /\ UNCHANGED <<reply, crashed>>
    <3>1. \A g \in Handlers : pc[g] # "ended"
      <4>1. pc'[h] = "checkin"
        BY <2>3 DEF Base, TypeOK
      <4> QED
        BY <2>1, <4>1 DEF Patience
    <3>2. {g \in Handlers : pc[g] = "ended"} = {}
      BY <3>1
    <3>3. ref' = [ref EXCEPT ![h] = h]
      BY <2>3, <3>2 DEF Base, TypeOK
    <3>4. i \in Ids
      BY <2>3 DEF StartCode
    <3> QED
      BY <2>1, <2>3, <3>3, <3>4, StartEarned
  <2> QED
    BY <1>2, <2>2, <2>3 DEF StartRequest
<1>3. ASSUME NEW l \in {"using", "shutdown"}, LockSession(h, i, l)
      PROVE  ~crashed' /\ Earned'
  <2>1. pc[h] = "idle"
    BY <1>3 DEF LockSession
  <2>2. CASE LockCode(i) # "OK" /\ Refuse(h, i, LockCode(i))
    BY <2>1, <2>2, RefuseEarned DEF Refuse
  <2>3. CASE /\ LockCode(i) = "OK"
             /\ sessions' = [sessions EXCEPT ![i] = [@ EXCEPT !.session_lock = TRUE]]
             /\ pc' = [pc EXCEPT ![h] = l]
             /\ id' = [id EXCEPT ![h] = i]
             /\ ref' = [ref EXCEPT ![h] = sessions[i].by]
             /\ UNCHANGED <<reply, crashed>>
    BY <2>1, <2>3, LockEarned
  <2> QED
    BY <1>3, <2>2, <2>3 DEF LockSession
<1>4. ~(LockCode(i) = "OK" /\ ~sessions[i].stub)
  <2> SUFFICES ASSUME LockCode(i) = "OK", ~sessions[i].stub PROVE FALSE
    OBVIOUS
  <2>1. i \in Ids /\ sessions[i] # NoSession /\ ~sessions[i].session_lock
    BY DEF LockCode
  <2>2. sessions[i].by \in Handlers /\ id[sessions[i].by] = i
    BY <2>1 DEF Base, TypeOK, Sessions
  <2>3. pc[sessions[i].by] \in Starting
    BY <2>1 DEF Earned, StartersInPlace, Complete
  <2> QED
    BY <2>1, <2>2, <2>3, LabelSets DEF Earned, HoldersInPlace
<1> QED
  BY <1>1, <1>2, <1>3, <1>4 DEF EndRequest, UseRequest

\* The steps of a handler.
LEMMA StepEarned ==
    ASSUME Base, Earned, ~crashed, NEW h \in Handlers, Step(h)
    PROVE  ~crashed' /\ Earned'
<1> DEFINE s == sessions[id[h]]
<1>1. /\ {"checkin", "version", "machine", "config", "mcycle", "run", "root_hash"} = Starting
      /\ \A l \in Starting : l \in Holding
  BY DEF Starting, Holding
<1>2. ~crashed'
  BY DEF Step, CheckedIn, VersionAnswered, MachineStarted, ConfigAnswered, McycleRead,
      MachineYielded, RootHashAnswered, CallFails, Started, Used, ShutDown, Ended,
      ErrorDelivered, Goto, StartFails
<1> SUFFICES Earned'
  BY <1>2
<1>3. ASSUME pc[h] \in Starting
      PROVE  s \in Sessions /\ Checked(s) /\ FilledIn(pc[h], s)
  <2>1. id[h] \in Ids /\ s # NoSession /\ FilledIn(pc[h], s)
    BY <1>1, <1>3 DEF Earned, HoldersInPlace
  <2> QED
    BY <2>1 DEF Base, TypeOK, SessionsChecked
<1>4. ASSUME pc[h] \in Starting, sessions' = sessions, NEW l \in Starting,
             FilledIn(l, s), Goto(h, l)
      PROVE  Earned'
  <2>1. id[h] \in Ids
    BY <1>1, <1>4 DEF Earned, HoldersInPlace
  <2>2. UpdateSession(h, s)
    BY <1>4, <2>1 DEF UpdateSession, Base, TypeOK
  <2>3. s \in Sessions
    BY <1>3, <1>4
  <2> QED
    BY <1>4, <2>2, <2>3, AmendEarned
<1>5. CASE CheckedIn(h)
  <2> DEFINE u == [s EXCEPT !.stub = TRUE]
  <2>1. pc[h] \in Starting
    BY <1>1, <1>5 DEF CheckedIn, At
  <2>2. CASE UpdateSession(h, u) /\ Goto(h, "version")
    <3>1. u \in Sessions /\ u.by = s.by /\ u.session_lock = s.session_lock /\ u.stub
      BY <1>3, <2>1, Amended
    <3> HIDE DEF u
    <3>2. FilledIn("version", u) /\ "version" \in Starting
      BY <1>1, <3>1 DEF FilledIn
    <3> QED
      BY <2>1, <2>2, <3>1, <3>2, AmendEarned
  <2>3. CASE StartFails(h, "INTERNAL")
    BY <2>1, <2>3, FailEarned
  <2> QED
    BY <1>5, <2>2, <2>3 DEF CheckedIn
<1>6. CASE VersionAnswered(h)
  <2>1. pc[h] = "version" /\ pc[h] \in Starting
    BY <1>1, <1>6 DEF VersionAnswered, At
  <2>2. FilledIn("machine", s) /\ "machine" \in Starting
    BY <1>1, <1>3, <2>1 DEF FilledIn
  <2> QED
    BY <1>4, <1>6, <2>1, <2>2, FailEarned DEF VersionAnswered
<1>7. CASE MachineStarted(h)
  <2>1. pc[h] = "machine" /\ pc[h] \in Starting
    BY <1>1, <1>7 DEF MachineStarted, At
  <2>2. FilledIn("config", s) /\ "config" \in Starting
    BY <1>1, <1>3, <2>1 DEF FilledIn
  <2> QED
    BY <1>4, <1>7, <2>1, <2>2 DEF MachineStarted
<1>8. CASE ConfigAnswered(h)
  <2>1. pc[h] = "config" /\ pc[h] \in Starting
    BY <1>1, <1>8 DEF ConfigAnswered, At
  <2>2. PICK config \in MachineConfigs :
        \/ /\ ConfigCode(config) = "OK"
           /\ UpdateSession(h, [sessions[id[h]] EXCEPT !.memory_range = config.rollup])
           /\ Goto(h, "mcycle")
        \/ /\ ConfigCode(config) # "OK"
           /\ StartFails(h, ConfigCode(config))
    BY <1>8 DEF ConfigAnswered
  <2> DEFINE u == [s EXCEPT !.memory_range = config.rollup]
  <2>3. CASE /\ ConfigCode(config) = "OK"
             /\ UpdateSession(h, u) /\ Goto(h, "mcycle")
    <3>1. s \in Sessions /\ Checked(s) /\ FilledIn("config", s)
      BY <1>3, <2>1
    <3>2. /\ u \in Sessions /\ u.by = s.by /\ u.session_lock = s.session_lock
          /\ u.stub = s.stub /\ u.memory_range # NoConfig
      <4> HIDE DEF s
      <4> QED
        BY <2>3, <3>1, ConfigAmended
    <3> HIDE DEF u
    <3>3. FilledIn("mcycle", u) /\ "mcycle" \in Starting
      BY <1>1, <3>1, <3>2 DEF FilledIn
    <3> QED
      BY <2>1, <2>3, <3>2, <3>3, AmendEarned
  <2>4. CASE ConfigCode(config) # "OK" /\ StartFails(h, ConfigCode(config))
    BY <2>1, <2>4, FailEarned
  <2> QED
    BY <2>2, <2>3, <2>4
<1>9. CASE McycleRead(h)
  <2>1. pc[h] = "mcycle" /\ pc[h] \in Starting
    BY <1>1, <1>9 DEF McycleRead, At
  <2>2. FilledIn("run", s) /\ "run" \in Starting
    BY <1>1, <1>3, <2>1 DEF FilledIn
  <2> QED
    BY <1>4, <1>9, <2>1, <2>2 DEF McycleRead
<1>10. CASE MachineYielded(h)
  <2> DEFINE u == [s EXCEPT !.current_mcycle = "mcycle"]
  <2>1. pc[h] = "run" /\ pc[h] \in Starting
    BY <1>1, <1>10 DEF MachineYielded, At
  <2>2. CASE UpdateSession(h, u) /\ Goto(h, "root_hash")
    <3>1. s \in Sessions /\ Checked(s) /\ FilledIn("run", s)
      BY <1>3, <2>1
    <3>2. /\ u \in Sessions /\ u.by = s.by /\ u.session_lock = s.session_lock
          /\ u.stub = s.stub /\ u.memory_range = s.memory_range
          /\ u.current_mcycle = "mcycle"
      BY <3>1, Amended
    <3> HIDE DEF u
    <3>3. FilledIn("root_hash", u) /\ "root_hash" \in Starting
      BY <1>1, <3>1, <3>2, StartSessionAssumption DEF FilledIn
    <3> QED
      BY <2>1, <2>2, <3>2, <3>3, AmendEarned
  <2>3. CASE \E code \in {"INVALID_ARGUMENT", "INTERNAL"} : StartFails(h, code)
    BY <2>1, <2>3, FailEarned
  <2> QED
    BY <1>10, <2>2, <2>3 DEF MachineYielded
<1>11. CASE RootHashAnswered(h)
  BY <1>11, RootHashEarned
<1>12. CASE CallFails(h)
  BY <1>12, FailEarned DEF CallFails
<1>13. CASE Started(h) \/ Used(h)
  BY <1>13, UnlockEarned DEF Started, Used, At, Goto
<1>14. CASE ShutDown(h)
  BY <1>14, UnlockEarned, EndEarned DEF ShutDown, At
<1>15. CASE Ended(h)
  <2>1. pc[h] = "ended" /\ Goto(h, "done")
    BY <1>15 DEF Ended
  <2>2. \A i \in Ids : sessions[i] # NoSession => sessions[i].by # ref[h]
    BY <2>1 DEF Earned, EndersInPlace
  <2>3. sessions' = sessions
    BY <1>15, <2>2 DEF Ended, Base, TypeOK
  <2> QED
    BY <2>1, <2>3, DoneEarned
<1>16. CASE ErrorDelivered(h)
  BY <1>16, DoneEarned DEF ErrorDelivered
<1> QED
  BY <1>5, <1>6, <1>7, <1>8, <1>9, <1>10, <1>11, <1>12, <1>13, <1>14, <1>15, <1>16
      DEF Step

\* No handler of patient clients goes on with a session that is gone.
LEMMA NoUseAfterFree ==
    ASSUME Earned, NEW h \in Handlers PROVE ~UseAfterFree(h)
  BY DEF Earned, HoldersInPlace, Holding, UseAfterFree, Valid

\* The inductive invariant.
ClientInv == Base /\ (patient => ~crashed /\ Earned)

\* The empty table, with clients that have not had the chance to be impatient.
LEMMA InitClientInv == ClientInit => ClientInv
<1> SUFFICES ASSUME ClientInit PROVE ClientInv
  OBVIOUS
<1>1. /\ Base /\ ~crashed
      /\ \A i \in Ids : sessions[i] = NoSession
      /\ \A h \in Handlers : pc[h] = "idle" /\ ref[h] = None /\ reply[h] = "none"
  BY InitBase DEF ClientInit, Init
<1>2. Earned
  BY <1>1, LabelSets
      DEF Earned, HoldersInPlace, StartersInPlace, EndersInPlace, StartedInPlace
<1> QED
  BY <1>1, <1>2 DEF ClientInv

\* Every step, as long as clients are patient.
LEMMA NextClientInv == ClientInv /\ [ClientNext]_clientVars => ClientInv'
<1> SUFFICES ASSUME ClientInv, [ClientNext]_clientVars PROVE ClientInv'
  OBVIOUS
<1>1. Base'
  BY NextBase DEF ClientInv, ClientNext, clientVars
<1>2. CASE UNCHANGED clientVars
  BY <1>1, <1>2 DEF clientVars, vars, ClientInv, Earned, HoldersInPlace, StartersInPlace,
      EndersInPlace, StartedInPlace, FilledIn, Complete
<1>3. CASE ClientNext
  <2> SUFFICES ASSUME patient' PROVE ~crashed' /\ Earned'
    BY <1>1 DEF ClientInv
  <2>1. Base /\ Earned /\ ~crashed /\ Patience /\ Next
    BY <1>3 DEF ClientInv, ClientNext
  <2>2. PICK h \in Handlers : Request(h) \/ Step(h) \/ UseAfterFree(h)
    BY <2>1 DEF Next
  <2> QED
    BY <2>1, <2>2, RequestEarned, StepEarned, NoUseAfterFree
<1> QED
  BY <1>2, <1>3

\* What the checks ensure, and what patient clients earn, holds in every state.
THEOREM ClientInvariance == ClientSpec => []ClientInv
  BY InitClientInv, NextClientInv, PTL DEF ClientSpec

\* For patient clients a locked session has exactly one handler that will unlock or
\* erase it, one that is not complete is locked by its StartSession, and no handler
\* goes on with a session that was erased under it.
THEOREM LocksAreHeld == ClientSpec => []LockHasHolder
<1>1. ClientInv => LockHasHolder
  <2> SUFFICES ASSUME ClientInv, patient PROVE LockHasHolder
    BY DEF LockHasHolder
  <2>1. Base /\ ~crashed /\ Earned
    BY DEF ClientInv
  <2> SUFFICES ASSUME NEW i \in Ids, sessions[i] # NoSession
               PROVE  LET holders == {h \in Handlers :
                              /\ pc[h] \in Holding
                              /\ id[h] = i /\ Valid(h)}
                      IN  /\ Cardinality(holders) =
                                (IF sessions[i].session_lock THEN 1 ELSE 0)
                          /\ ~Complete(sessions[i]) => sessions[i].by \in holders
    BY <2>1 DEF LockHasHolder, Holding
  <2> DEFINE holders == {h \in Handlers : pc[h] \in Holding /\ id[h] = i /\ Valid(h)}
  <2>2. \A h \in Handlers : h \in holders <=> pc[h] \in Holding /\ id[h] = i
    BY <2>1 DEF Earned, HoldersInPlace, Valid
  <2>3. ~Complete(sessions[i]) => sessions[i].by \in holders
    <3>1. sessions[i].by \in Handlers /\ id[sessions[i].by] = i
      BY <2>1 DEF Base, TypeOK, Sessions
    <3> QED
      BY <2>1, <2>2, <3>1, LabelSets DEF Earned, StartersInPlace
  <2>4. CASE sessions[i].session_lock
    <3>1. PICK h \in Handlers : pc[h] \in Holding /\ id[h] = i
      BY <2>1, <2>4 DEF Earned, HoldersInPlace
    <3>2. holders = {h}
      BY <2>1, <2>2, <3>1 DEF Earned, HoldersInPlace
    <3> HIDE DEF holders
    <3> QED
      BY <2>3, <2>4, <3>2, FS_Singleton DEF holders
  <2>5. CASE ~sessions[i].session_lock
    <3>1. holders = {}
      BY <2>1, <2>2, <2>5 DEF Earned, HoldersInPlace
    <3> QED
      BY <2>3, <2>5, <3>1, FS_EmptySet
  <2> QED
    BY <2>4, <2>5
<1> QED
  BY <1>1, ClientInvariance, PTL

\* For patient clients a StartSession that answered with an error left no session,
\* and one that answered OK left its session, unless an EndSession that answered OK
\* has taken it.
THEOREM OutcomesAreTold == ClientSpec => []OutcomeTold
<1>1. ClientInv => OutcomeTold
  <2> SUFFICES ASSUME ClientInv, patient, NEW h \in Handlers, id[h] \in Ids,
                      pc[h] \in {"error", "started", "done"}
               PROVE  LET there == sessions[id[h]] # NoSession /\ sessions[id[h]].by = h
                          ended == \E g \in Handlers : g # h /\ ref[g] = h /\ reply[g] = "OK"
                      IN  IF reply[h] = "OK" /\ ref[h] = h THEN there # ended ELSE ~there
    BY DEF OutcomeTold
  <2> DEFINE there == sessions[id[h]] # NoSession /\ sessions[id[h]].by = h
             ended == \E g \in Handlers : g # h /\ ref[g] = h /\ reply[g] = "OK"
  <2>1. Base /\ Earned
    BY DEF ClientInv
  <2>2. there => reply[h] = "OK" /\ ref[h] = h
    BY <2>1, LabelSets DEF Earned, StartersInPlace
  <2>3. ~(there /\ ended)
    BY <2>1 DEF Earned, EndersInPlace
  <2>4. reply[h] = "OK" /\ ref[h] = h => there \/ ended
    <3>1. CASE pc[h] = "started"
      BY <2>1, <3>1, LabelSets DEF Earned, HoldersInPlace
    <3>2. CASE pc[h] = "done"
      BY <2>1, <3>2 DEF Earned, StartedInPlace
    <3>3. CASE pc[h] = "error"
      BY <2>1, <3>3 DEF Earned, EndersInPlace
    <3> QED
      BY <3>1, <3>2, <3>3
  <2>5. there \in BOOLEAN /\ ended \in BOOLEAN
    OBVIOUS
  <2> HIDE DEF there, ended
  <2>6. reply[h] = "OK" /\ ref[h] = h => there # ended
    BY <2>3, <2>4, <2>5
  <2> QED
    BY <2>2, <2>6 DEF there, ended
<1> QED
  BY <1>1, ClientInvariance, PTL
=============================================================================
