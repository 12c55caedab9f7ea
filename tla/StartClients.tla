---------------------------- MODULE StartClients ----------------------------
(***************************************************************************)
(* StartSession and its clients.  The one thing clients can do wrong is to *)
(* start a session while the EndSession of an earlier one is still ending: *)
(* the new session may be given the storage the EndSession refers to.  Here*)
(* it is remembered whether they have been patient so far, and the         *)
(* properties below are what they earn by it.                              *)
(***************************************************************************)
EXTENDS StartSession

VARIABLE patient    \* history: has no session been started while an EndSession
                    \* was ending?

clientVars == <<vars, patient>>

Patience ==
    \A h \in Handlers :
        pc[h] = "idle" /\ pc'[h] = "checkin" => \A g \in Handlers : pc[g] # "ended"

ClientInit == Init /\ patient = TRUE
ClientNext == Next /\ patient' = (patient /\ Patience)
ClientSpec == ClientInit /\ [][ClientNext]_clientVars

-----------------------------------------------------------------------------

\* For patient clients a session that is locked has a handler that will unlock or
\* erase it, no two handlers have the same session locked, one that is not complete
\* is locked by the StartSession that fills it in, and no handler goes on with a
\* session that was erased under it.
LockHasHolder ==
    patient =>
        /\ ~crashed
        /\ \A i \in Ids :
            sessions[i] # NoSession =>
                LET holders == {h \in Handlers :
                        /\ pc[h] \in Starting \cup {"started", "using", "shutdown"}
                        /\ id[h] = i /\ Valid(h)}
                IN  /\ Cardinality(holders) = (IF sessions[i].session_lock THEN 1 ELSE 0)
                    /\ ~Complete(sessions[i]) => sessions[i].by \in holders

\* For patient clients what StartSession told is so: after an error there is no
\* session of its, and after OK there is, until an EndSession that answered OK has
\* taken it.
OutcomeTold ==
    patient =>
        \A h \in Handlers :
            id[h] \in Ids /\ pc[h] \in {"error", "started", "done"} =>
                LET there == sessions[id[h]] # NoSession /\ sessions[id[h]].by = h
                    ended == \E g \in Handlers : g # h /\ ref[g] = h /\ reply[g] = "OK"
                IN  IF reply[h] = "OK" /\ ref[h] = h THEN there # ended ELSE ~there
=============================================================================
