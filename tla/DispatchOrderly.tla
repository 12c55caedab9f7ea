-------------------------- MODULE DispatchOrderly --------------------------
(***************************************************************************)
(* Dispatch with a history variable that says whether session_lock, machine*)
(* servers and alarms have done so far what the code relies on, and what   *)
(* holds as long as they have.  The variable allows every step of Dispatch.*)
(***************************************************************************)
EXTENDS Dispatch

VARIABLE orderly   \* history: has the session been used as the code expects?

\* The handler c has locked the session: from the moment it accepts a request until
\* its answer is delivered, or it fails.  An AdvanceState releases the lock when its
\* answer is delivered, and works on.
Holds(c) ==
    \/ /\ co[c].kind \in {"StartSession", "FinishEpoch", "EndSession", "InspectState"}
       /\ co[c].at \notin {"listening", "refusing"}
    \/ co[c].kind = "AdvanceState" /\ co[c].at = "acking"

\* A CheckIn that was accepted and is being acknowledged.
Accepted(c) == co[c].kind = "CheckIn" /\ co[c].peer # None

\* session_lock lets requests in one at a time, which it does for serial clients
\* (SerialExclusive in SessionClients); a wait accepts one CheckIn, and none when its
\* alarm has gone off (as calm servers and alarms in CheckInCalm).
Orderly ==
    /\ \A c, d \in Slots : Holds(c) /\ Holds(d) => c = d
    /\ \A c, d \in Slots : Accepted(c) /\ Accepted(d) => c = d
    /\ \A c, d \in Slots : ~(Accepted(c) /\ co[d].at = "fired")

OrderlyInit == Init /\ orderly = TRUE
OrderlyNext == Next /\ orderly' = (orderly /\ Orderly')
OrderlySpec == OrderlyInit /\ [][OrderlyNext]_<<vars, orderly>>

-----------------------------------------------------------------------------

\* Coroutines that have arranged nothing and leave their address to others.
Sleeps(c) == co[c].at \in {"asleep", "stale", "leaving"}

\* Coroutines are suspended where their kind may be, and as long as the session is
\* used in an orderly way the contract of the dispatch loop is kept.  The process
\* does not exit and resumes no coroutine that does not wait.  A tag in the
\* completion queue is the address of a living coroutine that waits for it, and of
\* no other wait of that coroutine: none is the null pointer, none arrives for a
\* deleted one (THIS WILL CRASH) or for one that is about to be called by another
\* coroutine, and whoever leaves its address to nobody has its tag on the way
\* (THIS WILL LEAK).
TagsSound ==
    /\ TypeOK
    /\ orderly =>
        /\ ~crashed
        /\ tags[Null] = 0
        /\ \A s \in Slots :
            \/ tags[s] = 0 /\ co[s].at \in {"free", "finished", "parked"}
            \/ tags[s] = 1 /\ co[s].at \notin {"free", "finished", "parked"}
            \/ tags[s] = 0 /\ Sleeps(s)

\* The coroutine e is going to call or to schedule w: a deadline whose alarm is set
\* or has gone off calls the one in the entry of the session, an accepted CheckIn the
\* one it remembers; an AdvanceState that processes inputs, or will when its tag
\* arrives, schedules the one in the pending query, and so does an InspectState that
\* was woken up; one that was, before, the one it found there.
Wakes(e, w) ==
    \/ co[e].at \in {"alarm", "fired"} /\ waiting # None /\ waiting.coroutine = w
    \/ co[e].peer = w
    \/ /\ co[e].kind = "AdvanceState" /\ query = w /\ e # w
       /\ \/ co[e].at \in {"triggering", "parked", "calling"}
          \/ co[e].at = "asleep" /\ tags[e] > 0
    \/ /\ co[e].kind = "InspectState" /\ query = w /\ e # w
       /\ co[e].at = "asleep" /\ tags[e] > 0

\* As long as the session is used in an orderly way: a coroutine that has arranged
\* nothing for itself, at a check-in or at a hand-over, either has been scheduled or
\* exactly one other coroutine is going to call or to schedule it.  Nobody is going
\* to do that to any other coroutine.
ParkedHasOneWaker ==
    orderly =>
        \A w \in Slots :
            Cardinality({e \in Slots : Wakes(e, w)}) =
                IF tags[w] = 0 /\ (co[w].at = "parked" \/ Sleeps(w)) THEN 1 ELSE 0
=============================================================================
