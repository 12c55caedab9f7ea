---------------------------- MODULE MCSession ----------------------------
(* A session and its clients on small instances. *)
EXTENDS SessionClients, TLC

Symmetry == Permutations(Handlers)

\* Clients that overlap no other requests than AdvanceStates, and these not at all
\* or within an epoch.
CalmNext == ClientNext /\ clients' \cap {"within", "serial"} # {}

\* Handlers are interchangeable.  Liveness rules out SYMMETRY, so there they are
\* numbered and take up requests in that order.
InOrder == \A g, h \in Handlers : g < h /\ pc[h] # "idle" => pc[g] # "idle"

OrderedFairSpec == ClientInit /\ [][CalmNext /\ InOrder']_clientVars /\ Fairness
==========================================================================
