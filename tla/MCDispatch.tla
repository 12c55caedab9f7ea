----------------------------- MODULE MCDispatch -----------------------------
(* Dispatch on small instances. *)
EXTENDS DispatchOrderly, FiniteSetsExt

\* The RPCs whose handlers meet each other at a check-in and at a hand-over, those
\* that begin and end a session and an epoch, and those that are answered at once.
MCRpcSets == {{"AdvanceState", "InspectState", "CheckIn"},
              {"StartSession", "AdvanceState", "EndSession", "CheckIn"},
              {"FinishEpoch", "AdvanceState", "InspectState"},
              {"GetVersion", "GetStatus", "HealthCheck"},
              {"GetSessionStatus", "GetEpochStatus", "DeleteEpoch", "HealthWatch"}}

-----------------------------------------------------------------------------
(* States that differ only in the addresses operator new has returned are the same *)
(* to TLC: an address is seen as what is kept there and who refers to it.          *)

Seen(s) ==
    [kind |-> co[s].kind, at |-> co[s].at, tags |-> tags[s],
     parked |-> waiting # None /\ waiting.coroutine = s,
     alarm |-> waiting # None /\ waiting.alarm = s,
     query |-> query = s,
     peers |-> Quantify(Slots, LAMBDA t : co[t].peer = s)]

SeenFrom(s, Peer(_)) ==
    IF co[s].peer \in Slots THEN <<Seen(s), co[s].peer = s, Peer(co[s].peer)>>
                            ELSE <<Seen(s), co[s].peer>>

\* A CheckIn may refer to an InspectState that refers to an AdvanceState.
Around(s) == SeenFrom(s, LAMBDA t : SeenFrom(t, Seen))

View ==
    <<served, session, inputs, crashed, orderly, tags[Null],
      waiting # None /\ waiting.status, query \in {None, Null}, query = None,
      {<<Around(s), Quantify(Slots, LAMBDA t : Around(t) = Around(s))>> : s \in Slots}>>
=============================================================================
