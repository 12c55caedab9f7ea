--------------------------- MODULE DispatchProofs ---------------------------
(***************************************************************************)
(* Proofs about Dispatch and DispatchOrderly, for any number of coroutines *)
(* and of inputs and any choice of RPCs that are served together.          *)
(*                                                                         *)
(* The inductive invariant Inv has two parts.  Sound holds however the     *)
(* session is used: what is kept at every address, and the listeners.      *)
(* Earned holds as long as the session is used in an orderly way.  That the*)
(* tags are in order (Tagged) rests on who is going to call or schedule    *)
(* whom: at a check-in on the entry and its alarm or CheckIn (Waits), at a *)
(* hand-over on what the pending query holds (Handed, Asked).  That nobody *)
(* else interferes with either rests on who may work for the session       *)
(* beside whom (Locked).                                                   *)
(*                                                                         *)
(* The lemmas named Sound... are about the first part; those named Tidy... *)
(* about Tagged and Waits; the ones between FactsHold and EarnedRequest    *)
(* say what each kind of turn does to Locked, Handed and Asked.            *)
(***************************************************************************)
EXTENDS DispatchOrderly, FiniteSetTheorems, TLAPS

AtServer == {"triggering", "parked", "calling"}
Places == {"free", "listening", "acking", "refusing", "triggering", "parked", "calling",
           "asleep", "stale", "leaving", "finished", "alarm", "fired", "cancelled"}

\* What may be kept at an address when rpcs are served: a coroutine that is suspended
\* where its kind may be, and keeps an address only if it is going to use it.
Legal(rpcs) ==
    {x \in [kind : rpcs \cup {"CheckinDeadline", None}, at : Places,
            peer : Addresses \cup {None}] :
        \/ x = Free
        \/ /\ x.kind # None /\ x.at \in Labels(x.kind)
           /\ \/ x.peer = None
              \/ x.kind = "CheckIn" /\ x.at = "acking" /\ x.peer \in Slots
              \/ x.kind = "InspectState" /\ x.at \in AtServer \cup {"acking"}}

\* The types, in the form that is kept by every step.
RestTyped ==
    /\ waiting \in [coroutine : Slots, alarm : Slots, status : BOOLEAN] \cup {None}
    /\ session \in {"absent", "sound", "tainted"}
    /\ inputs \in Nat /\ query \in Addresses \cup {None} /\ crashed \in BOOLEAN

Base ==
    /\ served \in RpcSets /\ tags \in [Addresses -> Nat]
    /\ co \in [Slots -> Legal(served)]
    /\ RestTyped

\* Every RPC that is served has a listener, and no second one.
ListenersInPlace ==
    \A r \in served :
        /\ \E s \in Slots : co[s] = Listener(r)
        /\ \A s, t \in Slots : co[s] = Listener(r) /\ co[t] = Listener(r) => s = t

\* The labels of a coroutine tell its kind.
Fits(x) ==
    /\ x.at = "free" => x.kind = None /\ x.peer = None
    /\ x.at = "listening" => x.kind \in AllRpcs
    /\ x.at \in {"alarm", "fired", "cancelled"} <=> x.kind = "CheckinDeadline"
    /\ x.at \in {"stale", "leaving", "finished"} => x.kind = "AdvanceState"
    /\ x.at \in {"asleep", "triggering"} => x.kind \in {"InspectState", "AdvanceState"}
    /\ x.at = "parked" => x.kind \in {"StartSession", "InspectState", "AdvanceState"}
    /\ x.at \in {"calling", "refusing"} =>
          x.kind \in {"StartSession", "FinishEpoch", "EndSession", "InspectState",
                      "AdvanceState"}
    /\ x.kind = "CheckIn" => x.at \in {"listening", "acking"}
    /\ x.peer # None =>
          \/ x.kind = "CheckIn" /\ x.at = "acking" /\ x.peer \in Slots
          \/ x.kind = "InspectState" /\ x.at \in AtServer \cup {"acking"}

KindsInPlace == \A s \in Slots : Fits(co[s])

-----------------------------------------------------------------------------

\* What is kept at an address is Free or a coroutine, whose label tells its kind.
LEMMA LegalFits ==
    ASSUME NEW rpcs \in RpcSets, NEW x \in Legal(rpcs)
    PROVE  /\ Fits(x)
           /\ x = Free \/ (x.kind \in AllRpcs \cup {"CheckinDeadline"} /\ x.kind # None)
           /\ x.kind \in rpcs \cup {"CheckinDeadline", None}
           /\ x.at = "free" <=> x = Free
           /\ x = [kind |-> x.kind, at |-> x.at, peer |-> x.peer]
<1>1. rpcs \subseteq AllRpcs
  BY DispatchAssumption
<1>2. \/ x = Free
      \/ /\ x.kind \in AllRpcs \cup {"CheckinDeadline"} /\ x.at \in Labels(x.kind)
         /\ x.kind # None
         /\ \/ x.peer = None
            \/ x.kind = "CheckIn" /\ x.at = "acking" /\ x.peer \in Slots
            \/ x.kind = "InspectState" /\ x.at \in AtServer \cup {"acking"}
  BY <1>1 DEF Legal
<1>3. CASE x = Free
  BY <1>3, DispatchAssumption DEF Free, Coroutine, AllRpcs, AtOnce, Fits
<1>4. CASE x # Free
  <2>1. Fits(x) /\ x.at # "free"
    BY <1>2, <1>4 DEF Labels, AllRpcs, AtOnce, AtServer, Fits
  <2> QED
    BY <1>2, <1>4, <2>1 DEF Legal
<1> QED
  BY <1>3, <1>4

\* That holds before and after a step.
LEMMA Kinds == (Base => KindsInPlace) /\ (Base' => KindsInPlace')
  BY LegalFits DEF Base, KindsInPlace

\* A coroutine that is suspended elsewhere.
LEMMA MovedLegal ==
    ASSUME NEW rpcs \in RpcSets, NEW x \in Legal(rpcs), NEW at \in Labels(x.kind),
           x # Free,
           x.peer # None => x.kind = "InspectState" /\ at \in AtServer \cup {"acking"}
    PROVE  /\ [x EXCEPT !.at = at] \in Legal(rpcs)
<1>1. x.kind # None /\ x.kind \in AllRpcs \cup {"CheckinDeadline"}
  BY LegalFits
<1>2. at \in Places
  BY <1>1 DEF Labels, AllRpcs, AtOnce, Places
<1> QED
  BY <1>1, <1>2 DEF Legal, Free, Coroutine, Places

\* Listeners, deadlines and the free address.
LEMMA NewLegal ==
    ASSUME NEW rpcs \in RpcSets
    PROVE  /\ Free \in Legal(rpcs) /\ Deadline \in Legal(rpcs)
           /\ \A r \in rpcs : Listener(r) \in Legal(rpcs)
<1>1. rpcs \subseteq AllRpcs /\ None \notin rpcs \cup {"CheckinDeadline"}
  BY DispatchAssumption
<1>2. \A r \in rpcs : "listening" \in Labels(r)
  BY <1>1 DEF Labels, AllRpcs, AtOnce
<1>3. "alarm" \in Labels("CheckinDeadline")
  BY DEF Labels, AtOnce
<1>4. Free \in Legal(rpcs)
  BY DEF Legal, Free, Coroutine, Places
<1>5. Deadline \in Legal(rpcs)
  BY <1>1, <1>3 DEF Legal, Deadline, Coroutine, Places
<1>6. \A r \in rpcs : Listener(r) \in Legal(rpcs)
  BY <1>1, <1>2 DEF Legal, Listener, Coroutine, Places
<1> QED
  BY <1>4, <1>5, <1>6

\* A turn leaves coroutines and tags behind.
LEMMA TurnLegal ==
    ASSUME Base, NEW c \in Slots, NEW after, NEW armed, NEW scheduled,
           Resume(c, after, armed, scheduled), after = [s \in Slots |-> after[s]],
           \A s \in Slots : after[s] \in Legal(served) \/ (s = c /\ after[s].at = "finished")
    PROVE  /\ co' \in [Slots -> Legal(served)] /\ tags' \in [Addresses -> Nat]
           /\ served' = served
<1>1. \A s \in Slots : co'[s] \in Legal(served)
  BY NewLegal DEF Resume, Base
<1>2. co' = [s \in Slots |-> co'[s]]
  BY DEF Resume
<1>3. tags' \in [Addresses -> Nat]
  BY DEF Resume, Base, Times, Addresses
<1> QED
  BY <1>1, <1>2, <1>3 DEF Resume

\* operator new returns a free address.
LEMMA NewSlotFree ==
    ASSUME FreeSlots # {}
    PROVE  NewSlot \in Slots /\ co[NewSlot] = Free
  BY DEF FreeSlots, NewSlot

\* And another one when it is asked again.
LEMMA NextNewSlotFree ==
    ASSUME Cardinality(FreeSlots) > 1
    PROVE  /\ NextNewSlot \in Slots /\ co[NextNewSlot] = Free
           /\ NextNewSlot # NewSlot /\ FreeSlots # {}
<1>1. FreeSlots # {} /\ FreeSlots # {NewSlot}
  BY FS_EmptySet, FS_Singleton
<1>2. FreeSlots \ {NewSlot} # {}
  BY <1>1
<1> QED
  BY <1>1, <1>2 DEF FreeSlots, NextNewSlot

\* A turn of c in which w runs.
LEMMA Ran ==
    ASSUME Base, NEW c \in Slots, NEW w \in Slots, NEW before \in [Slots -> Legal(served)],
           NEW x, NEW armed, NEW scheduled, Runs(c, w, before, x, armed, scheduled)
    PROVE  /\ \A s \in Slots : s \notin {c, w} => co'[s] = before[s]
           /\ w = c => co'[c] = IF x.at = "finished" THEN Free ELSE x
           /\ w # c => co'[c] = Free /\ co'[w] = x
           /\ tags[c] > 0 /\ served' = served
           /\ \A s \in Addresses :
                tags'[s] = (tags[s] - Times(s = c)) + Times(s \in armed)
                                + Times(s = scheduled)
           /\ (w = c /\ x.at = "finished") \/ x \in Legal(served) =>
                co' \in [Slots -> Legal(served)] /\ tags' \in [Addresses -> Nat]
<1> DEFINE y == [before[c] EXCEPT !.at = "finished"]
           after == [before EXCEPT ![c].at = "finished", ![w] = x]
<1>1. /\ after = [s \in Slots |-> after[s]]
      /\ \A s \in Slots : after[s] = IF s = w THEN x ELSE IF s = c THEN y ELSE before[s]
  OBVIOUS
<1>2. Resume(c, after, armed, scheduled)
  BY DEF Runs
<1>3. y.at = "finished"
  BY DEF Legal
<1> HIDE DEF after, y
<1>4. ASSUME (w = c /\ x.at = "finished") \/ x \in Legal(served)
      PROVE  co' \in [Slots -> Legal(served)] /\ tags' \in [Addresses -> Nat]
  <2>1. \A s \in Slots : after[s] \in Legal(served) \/ (s = c /\ after[s].at = "finished")
    BY <1>1, <1>3, <1>4
  <2> QED
    BY <1>1, <1>2, <2>1, TurnLegal
<1>5. /\ \A s \in Slots : s \notin {c, w} => co'[s] = before[s]
      /\ w = c => co'[c] = IF x.at = "finished" THEN Free ELSE x
      /\ w # c => co'[c] = Free /\ co'[w] = x
  BY <1>1, <1>2, <1>3 DEF Resume
<1> QED
  BY <1>2, <1>4, <1>5 DEF Resume

\* A turn of a listener that has received a request.
LEMMA Received ==
    ASSUME Base, NEW c \in Slots, NEW at, NEW armed, co[c].at = "listening",
           FreeSlots # {}, Resume(c, Succeeded(c, at), armed, None)
    PROVE  /\ NewSlot \in Slots /\ NewSlot # c /\ co[NewSlot] = Free
           /\ \A s \in Slots : s \notin {c, NewSlot} => co'[s] = co[s]
           /\ co'[NewSlot] = Listener(co[c].kind) /\ co[c] = Listener(co[c].kind)
           /\ co'[c] = IF at = "finished" THEN Free ELSE Coroutine(co[c].kind, at, None)
           /\ tags[c] > 0 /\ served' = served
           /\ \A s \in Addresses :
                tags'[s] = (tags[s] - Times(s = c)) + Times(s \in armed)
           /\ at = "finished" \/ at \in Labels(co[c].kind) =>
                co' \in [Slots -> Legal(served)] /\ tags' \in [Addresses -> Nat]
<1> DEFINE n == NewSlot
           x == [co[c] EXCEPT !.at = at]
           after == Succeeded(c, at)
<1>1. n \in Slots /\ co[n] = Free /\ n # c
  BY NewSlotFree DEF Free, Coroutine
<1>2. Fits(co[c]) /\ co[c] # Free /\ co[c] = Listener(co[c].kind) /\ co[c].kind \in served
  BY LegalFits DEF Base, Fits, AtServer, Listener, Coroutine, Free, AllRpcs, AtOnce
<1>3. x = Coroutine(co[c].kind, at, None)
  BY <1>2 DEF Listener, Coroutine
<1> HIDE DEF n, x
<1>4. /\ after = [s \in Slots |-> after[s]]
      /\ \A s \in Slots : after[s] = IF s = n THEN Listener(co[c].kind)
                                     ELSE IF s = c THEN x ELSE co[s]
  BY <1>1 DEF Succeeded, Base, n, x
<1> HIDE DEF after
<1>5. Resume(c, after, armed, None)
  BY DEF after
<1>6. ASSUME at = "finished" \/ at \in Labels(co[c].kind)
      PROVE  co' \in [Slots -> Legal(served)] /\ tags' \in [Addresses -> Nat]
  <2>1. at = "finished" \/ x \in Legal(served)
    BY <1>2, <1>6, MovedLegal DEF Base, Listener, Coroutine, x
  <2>2. Listener(co[c].kind) \in Legal(served)
    BY <1>2, NewLegal DEF Base
  <2>3. x.at = at
    BY <1>3 DEF Coroutine
  <2>4. \A s \in Slots : after[s] \in Legal(served) \/ (s = c /\ after[s].at = "finished")
    BY <1>1, <1>4, <2>1, <2>2, <2>3 DEF Base
  <2> QED
    BY <1>4, <1>5, <2>4, TurnLegal
<1>7. /\ \A s \in Slots : s \notin {c, n} => co'[s] = co[s]
      /\ co'[n] = Listener(co[c].kind)
  BY <1>1, <1>4, <1>5 DEF Resume
<1>8. co'[c] = IF at = "finished" THEN Free ELSE Coroutine(co[c].kind, at, None)
  BY <1>1, <1>3, <1>4, <1>5 DEF Resume, Coroutine
<1>9. \A s \in Addresses : tags'[s] = (tags[s] - Times(s = c)) + Times(s \in armed)
  <2>1. \A s \in Addresses : Times(s = None) = 0 /\ Times(s \in armed) \in Nat
    BY DispatchAssumption DEF Times
  <2> QED
    BY <1>5, <2>1 DEF Resume, Base, Times
<1> QED
  BY <1>1, <1>2, <1>5, <1>6, <1>7, <1>8, <1>9 DEF Resume, n

\* The coroutines once the alarm of the entry was cancelled.
LEMMA CancelledLegal ==
    ASSUME Base
    PROVE  /\ Cancelled \in [Slots -> Legal(served)]
           /\ \A s \in Slots :
                \/ Cancelled[s] = co[s]
                \/ /\ co[s].at = "alarm" /\ waiting # None /\ s = waiting.alarm
                   /\ Cancelled[s] = Coroutine("CheckinDeadline", "cancelled", None)
<1>1. CASE waiting # None /\ co[waiting.alarm].at = "alarm"
  <2> DEFINE d == waiting.alarm
             x == [co[d] EXCEPT !.at = "cancelled"]
  <2>1. d \in Slots /\ co[d] \in Legal(served) /\ served \in RpcSets
    BY <1>1 DEF Base, RestTyped
  <2>2. Fits(co[d]) /\ co[d] # Free /\ co[d] = Coroutine(co[d].kind, co[d].at, co[d].peer)
    BY <1>1, <2>1, LegalFits DEF Free, Coroutine
  <2>3. co[d].kind = "CheckinDeadline" /\ co[d].peer = None
    BY <1>1, <2>2 DEF Fits, AtServer
  <2>4. x = Coroutine("CheckinDeadline", "cancelled", None)
    BY <2>2, <2>3 DEF Coroutine
  <2>5. "cancelled" \in Labels("CheckinDeadline")
    BY DEF Labels, AtOnce
  <2>6. x \in Legal(served)
    BY <2>1, <2>2, <2>3, <2>5, MovedLegal
  <2>7. Cancelled = [co EXCEPT ![d] = x]
    BY <1>1, <2>1 DEF Cancelled, Base
  <2> HIDE DEF d, x
  <2>8. \A s \in Slots : Cancelled[s] = IF s = d THEN x ELSE co[s]
    BY <2>7 DEF Base
  <2>9. Cancelled \in [Slots -> Legal(served)]
    BY <2>1, <2>6, <2>7 DEF Base
  <2> QED
    BY <1>1, <2>4, <2>8, <2>9 DEF d
<1>2. CASE ~(waiting # None /\ co[waiting.alarm].at = "alarm")
  BY <1>2 DEF Cancelled, Base
<1> QED
  BY <1>1, <1>2

\* And once a new epoch was begun.
LEMMA NewEpochLegal ==
    ASSUME NEW rpcs \in RpcSets, NEW f, f = [s \in Slots |-> f[s]]
    PROVE  /\ NewEpoch(f) = [s \in Slots |-> NewEpoch(f)[s]]
           /\ \A s \in Slots : f[s] \in Legal(rpcs) =>
                /\ NewEpoch(f)[s] \in Legal(rpcs)
                /\ \/ NewEpoch(f)[s] = f[s]
                   \/ /\ f[s].at = "asleep" /\ f[s].kind = "AdvanceState"
                      /\ NewEpoch(f)[s] = Coroutine("AdvanceState", "stale", None)
                /\ f[s].at = "asleep" /\ f[s].kind = "AdvanceState" =>
                      NewEpoch(f)[s].at = "stale"
<1>1. NewEpoch(f) = [s \in Slots |-> NewEpoch(f)[s]]
  BY DEF NewEpoch
<1>2. ASSUME NEW s \in Slots, f[s] \in Legal(rpcs)
      PROVE  /\ NewEpoch(f)[s] \in Legal(rpcs)
             /\ \/ NewEpoch(f)[s] = f[s]
                \/ /\ f[s].at = "asleep" /\ f[s].kind = "AdvanceState"
                   /\ NewEpoch(f)[s] = Coroutine("AdvanceState", "stale", None)
             /\ f[s].at = "asleep" /\ f[s].kind = "AdvanceState" =>
                   NewEpoch(f)[s].at = "stale"
  <2> DEFINE x == f[s]
             y == [x EXCEPT !.at = "stale"]
  <2>1. CASE x.at = "asleep" /\ x.kind = "AdvanceState"
    <3>1. Fits(x) /\ x # Free /\ x = Coroutine(x.kind, x.at, x.peer)
      BY <1>2, <2>1, LegalFits DEF Free, Coroutine
    <3>2. x.peer = None
      BY <2>1, <3>1 DEF Fits, AtServer
    <3>3. y = Coroutine("AdvanceState", "stale", None)
      BY <2>1, <3>1, <3>2 DEF Coroutine
    <3>4. "stale" \in Labels("AdvanceState")
      BY DEF Labels, AtOnce
    <3>5. y \in Legal(rpcs)
      BY <1>2, <2>1, <3>1, <3>2, <3>4, MovedLegal
    <3>6. NewEpoch(f)[s] = y
      BY <2>1 DEF NewEpoch
    <3> QED
      BY <2>1, <3>3, <3>5, <3>6 DEF Coroutine
  <2>2. CASE ~(x.at = "asleep" /\ x.kind = "AdvanceState")
    BY <1>2, <2>2 DEF NewEpoch
  <2> QED
    BY <2>1, <2>2
<1> QED
  BY <1>1, <1>2

\* The listeners, when no listener is concerned.
LEMMA ListenersKept ==
    ASSUME ListenersInPlace, served' = served,
           \A s \in Slots : \/ co'[s] = co[s]
                            \/ co[s].at # "listening" /\ co'[s].at # "listening"
    PROVE  ListenersInPlace'
<1>1. \A r : Listener(r).at = "listening"
  BY DEF Listener, Coroutine
<1>2. \A s \in Slots, r \in served : co'[s] = Listener(r) <=> co[s] = Listener(r)
  BY <1>1
<1> QED
  BY <1>2 DEF ListenersInPlace

\* And when a listener has received a request.
LEMMA ListenersReplaced ==
    ASSUME ListenersInPlace, served' = served, NEW c \in Slots, NEW n \in Slots,
           co[c] = Listener(co[c].kind), co[n].at # "listening",
           co'[n] = Listener(co[c].kind), co'[c].at # "listening",
           \A s \in Slots : \/ s \in {c, n} \/ co'[s] = co[s]
                            \/ co[s].at # "listening" /\ co'[s].at # "listening"
    PROVE  ListenersInPlace'
<1>1. \A r : Listener(r).at = "listening" /\ Listener(r).kind = r
  BY DEF Listener, Coroutine
<1>2. SUFFICES ASSUME NEW r \in served
               PROVE  /\ \E s \in Slots : co'[s] = Listener(r)
                      /\ \A s, t \in Slots :
                            co'[s] = Listener(r) /\ co'[t] = Listener(r) => s = t
  BY DEF ListenersInPlace, Listener, Coroutine
<1>3. CASE r = co[c].kind
  <2>1. \A s \in Slots : co'[s] = Listener(r) => s = n
    BY <1>1, <1>3 DEF ListenersInPlace
  <2> QED
    BY <1>3, <2>1
<1>4. CASE r # co[c].kind
  <2>1. \A s \in Slots : co'[s] = Listener(r) <=> co[s] = Listener(r)
    BY <1>1, <1>4
  <2> QED
    BY <2>1 DEF ListenersInPlace
<1> QED
  BY <1>3, <1>4

\* What holds however the session is used.
Sound == Base /\ ListenersInPlace

\* A turn in which a coroutine works alone, or in which it calls another one.
LEMMA SoundRan ==
    ASSUME Sound, NEW c \in Slots, NEW w \in Slots, NEW before \in [Slots -> Legal(served)],
           NEW x, NEW armed, NEW scheduled, Runs(c, w, before, x, armed, scheduled),
           \A s \in Slots : \/ before[s] = co[s]
                            \/ co[s].at # "listening" /\ before[s].at # "listening",
           co[c].at # "listening", co[w].at # "listening", x.at # "listening",
           (w = c /\ x.at = "finished") \/ x \in Legal(served), RestTyped'
    PROVE  Sound'
<1>1. Base'
  BY Ran DEF Base, Sound
<1>2. Free.at # "listening"
  BY DEF Free, Coroutine
<1>3. \A s \in Slots : \/ co'[s] = co[s]
                       \/ co[s].at # "listening" /\ co'[s].at # "listening"
  BY <1>2, Ran DEF Sound
<1>4. ListenersInPlace'
  BY <1>3, Ran, ListenersKept DEF Sound
<1> QED
  BY <1>1, <1>4 DEF Sound

\* A turn in which a coroutine works alone and is then suspended at another place.
LEMMA SoundAlone ==
    ASSUME Sound, NEW c \in Slots, NEW at, NEW armed, NEW scheduled,
           Runs(c, c, co, Moved(c, at), armed, scheduled),
           co[c].at # "listening", co[c].at # "free", at # "listening",
           \/ at = "finished"
           \/ /\ at \in Labels(co[c].kind)
              /\ co[c].peer # None =>
                    co[c].kind = "InspectState" /\ at \in AtServer \cup {"acking"},
           RestTyped'
    PROVE  Sound'
<1>1. co \in [Slots -> Legal(served)] /\ served \in RpcSets /\ co[c] \in Legal(served)
  BY DEF Sound, Base
<1>2. Moved(c, at).at = at
  BY <1>1 DEF Moved, Legal
<1>3. co[c] # Free
  BY DEF Free, Coroutine
<1>4. at = "finished" \/ Moved(c, at) \in Legal(served)
  BY <1>1, <1>3, MovedLegal DEF Moved
<1> QED
  BY <1>1, <1>2, <1>4, SoundRan

\* A turn of a listener that has received a request.
LEMMA SoundReceived ==
    ASSUME Sound, NEW c \in Slots, NEW at, NEW armed, co[c].at = "listening",
           FreeSlots # {}, Resume(c, Succeeded(c, at), armed, None), at # "listening",
           at = "finished" \/ at \in Labels(co[c].kind), RestTyped'
    PROVE  Sound'
<1>1. Base
  BY DEF Sound
<1>2. Base'
  BY <1>1, Received DEF Base
<1>3. Free.at # "listening" /\ Coroutine(co[c].kind, at, None).at = at
  BY DEF Free, Coroutine
<1>4. ListenersInPlace'
  <2>1. co'[c].at # "listening"
    BY <1>1, <1>3, Received
  <2>2. served' = served /\ co[c] = Listener(co[c].kind) /\ co'[NewSlot] = Listener(co[c].kind)
    BY <1>1, Received
  <2>3. NewSlot \in Slots /\ co[NewSlot].at # "listening"
    BY <1>1, <1>3, Received
  <2>4. \A s \in Slots : s \in {c, NewSlot} \/ co'[s] = co[s]
    BY <1>1, Received
  <2> QED
    BY <2>1, <2>2, <2>3, <2>4, ListenersReplaced DEF Sound
<1> QED
  BY <1>2, <1>4 DEF Sound

\* A session is started.
LEMMA StartParks ==
    ASSUME Base, NEW c \in Slots, Receives(c, "StartSession"), Cardinality(FreeSlots) > 1,
           Resume(c, [Succeeded(c, "parked") EXCEPT ![NextNewSlot] = Deadline],
                  {NewSlot, NextNewSlot}, None)
    PROVE  LET n == NewSlot
               d == NextNewSlot
           IN  /\ n \in Slots /\ d \in Slots /\ n # c /\ d # c /\ n # d
               /\ co[n] = Free /\ co[d] = Free /\ co[c] = Listener("StartSession")
               /\ \A s \in Slots : s \notin {c, n, d} => co'[s] = co[s]
               /\ co'[c] = Coroutine("StartSession", "parked", None)
               /\ co'[n] = Listener("StartSession") /\ co'[d] = Deadline
               /\ tags[c] > 0 /\ served' = served
               /\ \A s \in Addresses :
                    tags'[s] = (tags[s] - Times(s = c)) + Times(s \in {n, d})
               /\ co' \in [Slots -> Legal(served)] /\ tags' \in [Addresses -> Nat]
<1> DEFINE n == NewSlot
           d == NextNewSlot
           l == Listener("StartSession")
           p == Coroutine("StartSession", "parked", None)
           after == [Succeeded(c, "parked") EXCEPT ![d] = Deadline]
<1>1. co[c].kind = "StartSession" /\ co[c].at = "listening"
  BY DEF Receives
<1>2. /\ n \in Slots /\ d \in Slots /\ n # c /\ d # c /\ n # d
      /\ co[n] = Free /\ co[d] = Free
  BY <1>1, NewSlotFree, NextNewSlotFree DEF Free, Coroutine
<1>3. Fits(co[c]) /\ co[c].kind \in served /\ co[c] = Coroutine(co[c].kind, co[c].at, co[c].peer)
  BY <1>1, LegalFits, DispatchAssumption DEF Base, Coroutine, AllRpcs
<1>4. co[c] = l /\ [co[c] EXCEPT !.at = "parked"] = p
  BY <1>1, <1>3 DEF Fits, AtServer, Listener, Coroutine
<1> HIDE DEF n, d
<1>5. /\ after = [s \in Slots |-> after[s]]
      /\ \A s \in Slots : after[s] = IF s = d THEN Deadline ELSE IF s = n THEN l
                                     ELSE IF s = c THEN p ELSE co[s]
  BY <1>1, <1>2, <1>4 DEF Succeeded, Base, n
<1>6. Resume(c, after, {n, d}, None)
  BY DEF n, d
<1> HIDE DEF after
<1>7. p.at = "parked" /\ p \in Legal(served) /\ l \in Legal(served) /\ Deadline \in Legal(served)
  <2>1. "parked" \in Labels("StartSession") /\ served \in RpcSets /\ co[c] \in Legal(served)
    BY DEF Labels, AtOnce, Base
  <2>2. co[c] # Free /\ co[c].peer = None
    BY <1>4 DEF Listener, Free, Coroutine
  <2>3. p \in Legal(served)
    BY <1>1, <1>4, <2>1, <2>2, MovedLegal
  <2> QED
    BY <1>1, <1>3, <2>1, <2>3, NewLegal DEF Coroutine
<1>8. co' \in [Slots -> Legal(served)] /\ tags' \in [Addresses -> Nat] /\ served' = served
  <2>1. \A s \in Slots : after[s] \in Legal(served)
    BY <1>5, <1>7 DEF Base
  <2> QED
    BY <1>5, <1>6, <2>1, TurnLegal
<1>9. /\ \A s \in Slots : s \notin {c, n, d} => co'[s] = co[s]
      /\ co'[c] = p /\ co'[n] = l /\ co'[d] = Deadline
  BY <1>2, <1>5, <1>6, <1>7 DEF Resume
<1>10. \A s \in Addresses : tags'[s] = (tags[s] - Times(s = c)) + Times(s \in {n, d})
  <2>1. \A s \in Addresses : Times(s = None) = 0 /\ Times(s \in {n, d}) \in Nat
    BY DispatchAssumption DEF Times
  <2> QED
    BY <1>6, <2>1 DEF Resume, Base, Times
<1> QED
  BY <1>2, <1>4, <1>6, <1>8, <1>9, <1>10 DEF Resume, n, d

\* The machine server was triggered.
LEMMA TriggeredParks ==
    ASSUME Base, NEW c \in Slots, Triggered(c)
    PROVE  LET n == NewSlot
           IN  /\ n \in Slots /\ n # c /\ co[n] = Free
               /\ \A s \in Slots : s \notin {c, n} => co'[s] = Cancelled[s]
               /\ co[c].at = "triggering" /\ co'[c] = Coroutine(co[c].kind, "parked", co[c].peer)
               /\ co'[n] = Deadline
               /\ tags[c] > 0 /\ served' = served
               /\ \A s \in Addresses :
                    tags'[s] = (tags[s] - Times(s = c)) + Times(s = n)
               /\ co' \in [Slots -> Legal(served)] /\ tags' \in [Addresses -> Nat]
<1> DEFINE n == NewSlot
           p == Coroutine(co[c].kind, "parked", co[c].peer)
           after == [Cancelled EXCEPT ![c].at = "parked", ![n] = Deadline]
<1>1. co[c].at = "triggering" /\ n \in Slots /\ n # c /\ co[n] = Free
  BY NewSlotFree DEF Triggered, Free, Coroutine
<1>2. Fits(co[c]) /\ co[c] # Free /\ co[c] = Coroutine(co[c].kind, co[c].at, co[c].peer)
  BY <1>1, LegalFits DEF Base, Free, Coroutine
<1>3. [co[c] EXCEPT !.at = "parked"] = p
  BY <1>2 DEF Coroutine
<1>4. Cancelled \in [Slots -> Legal(served)] /\ Cancelled[c] = co[c]
  BY <1>1, CancelledLegal
<1> HIDE DEF n
<1>5. /\ after = [s \in Slots |-> after[s]]
      /\ \A s \in Slots : after[s] = IF s = n THEN Deadline ELSE IF s = c THEN p
                                     ELSE Cancelled[s]
  BY <1>1, <1>3, <1>4
<1>6. Resume(c, after, {n}, None)
  BY DEF Triggered, n
<1> HIDE DEF after
<1>7. p.at = "parked" /\ p \in Legal(served) /\ Deadline \in Legal(served)
  <2>1. "parked" \in Labels(co[c].kind) /\ served \in RpcSets /\ co[c] \in Legal(served)
    BY <1>1, <1>2 DEF Labels, AtOnce, Base, Fits
  <2>2. co[c].peer # None => co[c].kind = "InspectState"
    BY <1>1, <1>2 DEF Fits
  <2>3. p \in Legal(served)
    BY <1>2, <1>3, <2>1, <2>2, MovedLegal DEF AtServer
  <2> QED
    BY <2>1, <2>3, NewLegal DEF Coroutine
<1>8. co' \in [Slots -> Legal(served)] /\ tags' \in [Addresses -> Nat] /\ served' = served
  <2>1. \A s \in Slots : after[s] \in Legal(served)
    BY <1>4, <1>5, <1>7
  <2> QED
    BY <1>5, <1>6, <2>1, TurnLegal
<1>9. /\ \A s \in Slots : s \notin {c, n} => co'[s] = Cancelled[s]
      /\ co'[c] = p /\ co'[n] = Deadline
  BY <1>1, <1>5, <1>6, <1>7 DEF Resume
<1>10. \A s \in Addresses : tags'[s] = (tags[s] - Times(s = c)) + Times(s = n)
  <2>1. \A s \in Addresses : Times(s = None) = 0 /\ Times(s \in {n}) = Times(s = n)
                             /\ Times(s = n) \in Nat
    BY DispatchAssumption DEF Times
  <2> QED
    BY <1>6, <2>1 DEF Resume, Base, Times
<1> QED
  BY <1>1, <1>6, <1>8, <1>9, <1>10 DEF Resume, n

\* A CheckIn is accepted.
LEMMA CheckInAccepts ==
    ASSUME Base, NEW c \in Slots, Receives(c, "CheckIn"), waiting # None,
           Resume(c, [Cancelled EXCEPT ![c].at = "acking", ![c].peer = waiting.coroutine,
                                       ![NewSlot] = Listener("CheckIn")],
                  {NewSlot, c}, None)
    PROVE  LET n == NewSlot
           IN  /\ n \in Slots /\ n # c /\ co[n] = Free /\ co[c] = Listener("CheckIn")
               /\ \A s \in Slots : s \notin {c, n} => co'[s] = Cancelled[s]
               /\ co'[c] = Coroutine("CheckIn", "acking", waiting.coroutine)
               /\ co'[n] = Listener("CheckIn")
               /\ tags[c] > 0 /\ served' = served
               /\ \A s \in Addresses :
                    tags'[s] = (tags[s] - Times(s = c)) + Times(s \in {n, c})
               /\ co' \in [Slots -> Legal(served)] /\ tags' \in [Addresses -> Nat]
<1> DEFINE n == NewSlot
           l == Listener("CheckIn")
           p == Coroutine("CheckIn", "acking", waiting.coroutine)
           after == [Cancelled EXCEPT ![c].at = "acking", ![c].peer = waiting.coroutine,
                                      ![n] = l]
<1>1. /\ co[c].kind = "CheckIn" /\ co[c].at = "listening"
      /\ n \in Slots /\ n # c /\ co[n] = Free
  BY NewSlotFree DEF Receives, Free, Coroutine
<1>2. Fits(co[c]) /\ co[c].kind \in served /\ co[c] = Coroutine(co[c].kind, co[c].at, co[c].peer)
  BY <1>1, LegalFits, DispatchAssumption DEF Base, Coroutine, AllRpcs
<1>3. co[c] = l
  BY <1>1, <1>2 DEF Fits, AtServer, Listener, Coroutine
<1>4. Cancelled \in [Slots -> Legal(served)] /\ Cancelled[c] = l
  BY <1>1, <1>3, CancelledLegal
<1>5. [[l EXCEPT !.at = "acking"] EXCEPT !.peer = waiting.coroutine] = p
  <2> DEFINE z == Coroutine("CheckIn", "acking", None)
  <2>1. [l EXCEPT !.at = "acking"] = z
    BY DEF Listener, Coroutine
  <2>2. [z EXCEPT !.peer = waiting.coroutine] = p
    BY DEF Coroutine
  <2> HIDE DEF z, l, p
  <2> QED
    BY <2>1, <2>2
<1> HIDE DEF n
<1>6. /\ after = [s \in Slots |-> after[s]]
      /\ \A s \in Slots : after[s] = IF s = n THEN l ELSE IF s = c THEN p
                                     ELSE Cancelled[s]
  BY <1>1, <1>4, <1>5
<1>7. Resume(c, after, {n, c}, None)
  BY DEF n
<1> HIDE DEF after
<1>8. p.at = "acking" /\ p \in Legal(served) /\ l \in Legal(served)
  <2>1. "acking" \in Labels("CheckIn") /\ served \in RpcSets
    BY DEF Labels, AtOnce, Base
  <2>2. waiting.coroutine \in Addresses /\ waiting.coroutine \in Slots
    BY DEF Base, RestTyped, Addresses
  <2>3. "CheckIn" # None /\ "CheckIn" \in served
    BY <1>1, <1>2, DispatchAssumption DEF AllRpcs
  <2>4. p \in Legal(served)
    BY <2>1, <2>2, <2>3 DEF Legal, Coroutine, Places
  <2> QED
    BY <1>1, <1>2, <2>1, <2>4, NewLegal DEF Coroutine
<1>9. co' \in [Slots -> Legal(served)] /\ tags' \in [Addresses -> Nat] /\ served' = served
  <2>1. \A s \in Slots : after[s] \in Legal(served)
    BY <1>4, <1>6, <1>8
  <2> QED
    BY <1>6, <1>7, <2>1, TurnLegal
<1>10. /\ \A s \in Slots : s \notin {c, n} => co'[s] = Cancelled[s]
       /\ co'[c] = p /\ co'[n] = l
  BY <1>1, <1>6, <1>7, <1>8 DEF Resume
<1>11. \A s \in Addresses : tags'[s] = (tags[s] - Times(s = c)) + Times(s \in {n, c})
  <2>1. \A s \in Addresses : Times(s = None) = 0 /\ Times(s \in {n, c}) \in Nat
    BY DispatchAssumption DEF Times
  <2> QED
    BY <1>7, <2>1 DEF Resume, Base, Times
<1> QED
  BY <1>1, <1>3, <1>7, <1>9, <1>10, <1>11 DEF Resume, n

\* An epoch is finished at once.
LEMMA EpochFinishes ==
    ASSUME Base, NEW c \in Slots, Receives(c, "FinishEpoch"),
           Resume(c, NewEpoch(Succeeded(c, "acking")), {NewSlot, c}, None)
    PROVE  LET n == NewSlot
           IN  /\ n \in Slots /\ n # c /\ co[n] = Free /\ co[c] = Listener("FinishEpoch")
               /\ \A s \in Slots : s \notin {c, n} => co'[s] = NewEpoch(co)[s]
               /\ co'[c] = Coroutine("FinishEpoch", "acking", None)
               /\ co'[n] = Listener("FinishEpoch")
               /\ tags[c] > 0 /\ served' = served
               /\ \A s \in Addresses :
                    tags'[s] = (tags[s] - Times(s = c)) + Times(s \in {n, c})
               /\ co' \in [Slots -> Legal(served)] /\ tags' \in [Addresses -> Nat]
<1> DEFINE n == NewSlot
           l == Listener("FinishEpoch")
           p == Coroutine("FinishEpoch", "acking", None)
           f == Succeeded(c, "acking")
           after == NewEpoch(f)
<1>1. /\ co[c].kind = "FinishEpoch" /\ co[c].at = "listening"
      /\ n \in Slots /\ n # c /\ co[n] = Free
  BY NewSlotFree DEF Receives, Free, Coroutine
<1>2. Fits(co[c]) /\ co[c].kind \in served /\ co[c] = Coroutine(co[c].kind, co[c].at, co[c].peer)
  BY <1>1, LegalFits, DispatchAssumption DEF Base, Coroutine, AllRpcs
<1>3. co[c] = l /\ [co[c] EXCEPT !.at = "acking"] = p
  BY <1>1, <1>2 DEF Fits, AtServer, Listener, Coroutine
<1> HIDE DEF n
<1>4. /\ f = [s \in Slots |-> f[s]]
      /\ \A s \in Slots : f[s] = IF s = n THEN l ELSE IF s = c THEN p ELSE co[s]
  BY <1>1, <1>3 DEF Succeeded, Base, n
<1>5. Resume(c, after, {n, c}, None)
  BY DEF n
<1>6. /\ l.at = "listening" /\ p.at = "acking" /\ served \in RpcSets
      /\ p \in Legal(served) /\ l \in Legal(served)
  <2>1. "acking" \in Labels("FinishEpoch") /\ served \in RpcSets /\ co[c] \in Legal(served)
    BY DEF Labels, AtOnce, Base
  <2>2. co[c] # Free /\ co[c].peer = None
    BY <1>3 DEF Listener, Free, Coroutine
  <2>3. p \in Legal(served)
    BY <1>1, <1>3, <2>1, <2>2, MovedLegal
  <2> QED
    BY <1>1, <1>2, <2>1, <2>3, NewLegal DEF Listener, Coroutine
<1> HIDE DEF f, l, p
<1>7. /\ \A s \in Slots : f[s] \in Legal(served)
      /\ after = [s \in Slots |-> after[s]]
      /\ \A s \in Slots : after[s] \in Legal(served) /\ (after[s].at # "finished" \/ after[s] = f[s])
  <2>1. \A s \in Slots : f[s] \in Legal(served)
    BY <1>4, <1>6 DEF Base
  <2> QED
    BY <1>4, <1>6, <2>1, NewEpochLegal DEF Coroutine
<1>8. after[c] = p /\ after[n] = l
  BY <1>1, <1>4, <1>6, <1>7, NewEpochLegal
<1>9. \A s \in Slots : s \notin {c, n} => after[s] = NewEpoch(co)[s]
  BY <1>4 DEF NewEpoch
<1> HIDE DEF after
<1>10. co' \in [Slots -> Legal(served)] /\ tags' \in [Addresses -> Nat] /\ served' = served
  BY <1>5, <1>7, TurnLegal
<1>11. /\ \A s \in Slots : s \notin {c, n} => co'[s] = NewEpoch(co)[s]
       /\ co'[c] = p /\ co'[n] = l
  BY <1>1, <1>5, <1>6, <1>7, <1>8, <1>9 DEF Resume
<1>12. \A s \in Addresses : tags'[s] = (tags[s] - Times(s = c)) + Times(s \in {n, c})
  <2>1. \A s \in Addresses : Times(s = None) = 0 /\ Times(s \in {n, c}) \in Nat
    BY DispatchAssumption DEF Times
  <2> QED
    BY <1>5, <2>1 DEF Resume, Base, Times
<1> QED
  BY <1>1, <1>3, <1>5, <1>10, <1>11, <1>12 DEF Resume, n, l, p

-----------------------------------------------------------------------------
(* Every step keeps the types and the listeners. *)

\* The places that the steps refer to.
LEMMA KnownLabels ==
    /\ \A k \in AllRpcs : "acking" \in Labels(k)
    /\ \A k \in {"StartSession", "FinishEpoch", "EndSession", "InspectState",
                 "AdvanceState"} : "refusing" \in Labels(k) /\ "calling" \in Labels(k)
    /\ \A k \in {"InspectState", "AdvanceState"} :
            "asleep" \in Labels(k) /\ "triggering" \in Labels(k)
    /\ "leaving" \in Labels("AdvanceState") /\ "finished" \in Labels("AdvanceState")
    /\ "fired" \in Labels("CheckinDeadline")
  BY DEF Labels, AllRpcs, AtOnce

\* Requests.
LEMMA SoundRequest ==
    ASSUME Sound, NEW c \in Slots,
           \/ RequestNotOK(c)
           \/ GetVersion(c) \/ GetStatus(c) \/ GetSessionStatus(c) \/ GetEpochStatus(c)
           \/ DeleteEpoch(c) \/ HealthCheck(c) \/ HealthWatch(c)
           \/ StartSessionRequest(c) \/ FinishEpochRequest(c) \/ EndSessionRequest(c)
           \/ AdvanceStateRequest(c) \/ InspectStateRequest(c) \/ CheckInRequest(c)
    PROVE  Sound'
<1>1. Base /\ RestTyped
  BY DEF Sound, Base
<1>2. ASSUME RequestNotOK(c) PROVE Sound'
  BY <1>1, <1>2, SoundReceived DEF RequestNotOK, RestTyped, sessionVars
<1>3. ASSUME NEW rpc \in AllRpcs, Receives(c, rpc), Answers(c) PROVE Sound'
  BY <1>1, <1>3, SoundReceived, KnownLabels DEF Answers, Receives, RestTyped, sessionVars
<1>4. ASSUME NEW rpc \in {"StartSession", "FinishEpoch", "EndSession", "InspectState",
                          "AdvanceState"},
             Receives(c, rpc), Refuses(c)
      PROVE  Sound'
  BY <1>1, <1>4, SoundReceived, KnownLabels DEF Refuses, Receives, RestTyped, sessionVars
<1>5. CASE \/ GetVersion(c) \/ GetStatus(c) \/ GetSessionStatus(c) \/ GetEpochStatus(c)
           \/ DeleteEpoch(c) \/ HealthCheck(c) \/ HealthWatch(c)
  BY <1>3, <1>5 DEF GetVersion, GetStatus, GetSessionStatus, GetEpochStatus, DeleteEpoch,
      HealthCheck, HealthWatch, AllRpcs, AtOnce
<1>6. CASE StartSessionRequest(c)
  <2>1. CASE Refuses(c)
    BY <1>4, <1>6, <2>1 DEF StartSessionRequest
  <2>2. CASE ~Refuses(c)
    <3> DEFINE n == NewSlot
               d == NextNewSlot
    <3>1. /\ Receives(c, "StartSession") /\ Cardinality(FreeSlots) > 1
          /\ Resume(c, [Succeeded(c, "parked") EXCEPT ![NextNewSlot] = Deadline],
                    {NewSlot, NextNewSlot}, None)
          /\ waiting' = Entry(c, NextNewSlot) /\ crashed' = (waiting # None)
          /\ session' = "sound" /\ inputs' = 0 /\ query' = None
      BY <1>6, <2>2 DEF StartSessionRequest, TestsEntry
    <3>2. Base'
      BY <1>1, <3>1, StartParks DEF Base, RestTyped, Entry
    <3>3. /\ Free.at # "listening" /\ Deadline.at # "listening"
          /\ Coroutine("StartSession", "parked", None).at # "listening"
          /\ Listener("StartSession").kind = "StartSession"
      BY DEF Free, Deadline, Listener, Coroutine
    <3>4. /\ n \in Slots /\ co[c] = Listener("StartSession") /\ served' = served
          /\ co'[n] = Listener("StartSession")
          /\ co[n].at # "listening" /\ co'[c].at # "listening"
      BY <1>1, <3>1, <3>3, StartParks
    <3>5. \A s \in Slots : \/ s \in {c, n} \/ co'[s] = co[s]
                           \/ co[s].at # "listening" /\ co'[s].at # "listening"
      <4>1. /\ \A s \in Slots : s \notin {c, n, d} => co'[s] = co[s]
            /\ co[d] = Free /\ co'[d] = Deadline
        BY <1>1, <3>1, StartParks
      <4> QED
        BY <3>3, <4>1
    <3> HIDE DEF n
    <3>6. ListenersInPlace'
      BY <3>3, <3>4, <3>5, ListenersReplaced DEF Sound
    <3> QED
      BY <3>2, <3>6 DEF Sound
  <2> QED
    BY <2>1, <2>2
<1>7. CASE FinishEpochRequest(c)
  <2>1. CASE Refuses(c)
    BY <1>4, <1>7, <2>1 DEF FinishEpochRequest
  <2>2. CASE Resume(c, Succeeded(c, "calling"), {NewSlot, c}, None)
             /\ UNCHANGED <<waiting, sessionVars, crashed>>
    BY <1>1, <1>7, <2>2, SoundReceived, KnownLabels
        DEF FinishEpochRequest, Receives, RestTyped, sessionVars
  <2>3. CASE /\ Resume(c, NewEpoch(Succeeded(c, "acking")), {NewSlot, c}, None)
             /\ query' = None /\ UNCHANGED <<waiting, session, inputs, crashed>>
    <3> DEFINE n == NewSlot
    <3>1. Receives(c, "FinishEpoch")
      BY <1>7 DEF FinishEpochRequest
    <3>2. Base'
      BY <1>1, <2>3, <3>1, EpochFinishes DEF Base, RestTyped
    <3>3. /\ Free.at # "listening"
          /\ Coroutine("FinishEpoch", "acking", None).at # "listening"
          /\ Coroutine("AdvanceState", "stale", None).at # "listening"
          /\ Listener("FinishEpoch").kind = "FinishEpoch"
      BY DEF Free, Listener, Coroutine
    <3>4. /\ n \in Slots /\ co[c] = Listener("FinishEpoch") /\ served' = served
          /\ co'[n] = Listener("FinishEpoch")
          /\ co[n].at # "listening" /\ co'[c].at # "listening"
      BY <1>1, <2>3, <3>1, <3>3, EpochFinishes
    <3>5. \A s \in Slots : \/ NewEpoch(co)[s] = co[s]
                           \/ co[s].at # "listening" /\ NewEpoch(co)[s].at # "listening"
      <4>1. /\ co = [s \in Slots |-> co[s]] /\ served \in RpcSets
            /\ \A s \in Slots : co[s] \in Legal(served)
        BY <1>1 DEF Base
      <4> QED
        BY <3>3, <4>1, NewEpochLegal
    <3>6. \A s \in Slots : \/ s \in {c, n} \/ co'[s] = co[s]
                           \/ co[s].at # "listening" /\ co'[s].at # "listening"
      BY <1>1, <2>3, <3>1, <3>5, EpochFinishes
    <3> HIDE DEF n
    <3>7. ListenersInPlace'
      BY <3>3, <3>4, <3>6, ListenersReplaced DEF Sound
    <3> QED
      BY <3>2, <3>7 DEF Sound
  <2> QED
    BY <1>7, <2>1, <2>2, <2>3 DEF FinishEpochRequest
<1>8. CASE EndSessionRequest(c)
  <2>1. CASE Refuses(c)
    BY <1>4, <1>8, <2>1 DEF EndSessionRequest
  <2>2. CASE ~Refuses(c)
    BY <1>1, <1>8, <2>2, SoundReceived, KnownLabels
        DEF EndSessionRequest, Receives, RestTyped, sessionVars
  <2> QED
    BY <2>1, <2>2
<1>9. CASE AdvanceStateRequest(c)
  <2>1. CASE Refuses(c)
    BY <1>4, <1>9, <2>1 DEF AdvanceStateRequest
  <2>2. CASE ~Refuses(c)
    <3>1. RestTyped'
      BY <1>1, <1>9, <2>2 DEF AdvanceStateRequest, RestTyped
    <3> QED
      BY <1>9, <2>2, <3>1, SoundReceived, KnownLabels
          DEF AdvanceStateRequest, Receives, AllRpcs
  <2> QED
    BY <2>1, <2>2
<1>10. CASE InspectStateRequest(c)
  <2>1. CASE Refuses(c)
    BY <1>4, <1>10, <2>1 DEF InspectStateRequest
  <2>2. CASE ~Refuses(c)
    <3>1. RestTyped'
      BY <1>1, <1>10, <2>2 DEF InspectStateRequest, RestTyped, TestsEntry, Addresses, Null
    <3>2. PICK at \in {"asleep", "triggering", "acking"}, armed \in {{NewSlot}, {NewSlot, c}} :
                Resume(c, Succeeded(c, at), armed, None)
      BY <1>10, <2>2 DEF InspectStateRequest
    <3>3. at \in Labels("InspectState") /\ at # "listening"
      BY KnownLabels DEF AllRpcs
    <3> QED
      BY <1>10, <3>1, <3>2, <3>3, SoundReceived DEF InspectStateRequest, Receives
  <2> QED
    BY <2>1, <2>2
<1>11. CASE CheckInRequest(c)
  <2>1. CASE Answers(c)
    BY <1>3, <1>11, <2>1 DEF CheckInRequest, AllRpcs
  <2>2. CASE ~Answers(c)
    <3> DEFINE n == NewSlot
    <3>1. /\ Receives(c, "CheckIn") /\ waiting # None
          /\ Resume(c, [Cancelled EXCEPT ![c].at = "acking",
                                         ![c].peer = waiting.coroutine,
                                         ![NewSlot] = Listener("CheckIn")],
                    {NewSlot, c}, None)
          /\ waiting' = [waiting EXCEPT !.status = TRUE]
          /\ UNCHANGED <<session, inputs, query, crashed>>
      BY <1>11, <2>2 DEF CheckInRequest, sessionVars
    <3>2. RestTyped'
      BY <1>1, <3>1 DEF RestTyped
    <3>3. Base'
      BY <1>1, <3>1, <3>2, CheckInAccepts DEF Base
    <3>4. /\ Free.at # "listening"
          /\ \A p : Coroutine("CheckIn", "acking", p).at # "listening"
          /\ Coroutine("CheckinDeadline", "cancelled", None).at # "listening"
          /\ Listener("CheckIn").kind = "CheckIn"
      BY DEF Free, Listener, Coroutine
    <3>5. /\ n \in Slots /\ co[c] = Listener("CheckIn") /\ served' = served
          /\ co'[n] = Listener("CheckIn")
          /\ co[n].at # "listening" /\ co'[c].at # "listening"
      BY <1>1, <3>1, <3>4, CheckInAccepts
    <3>6. \A s \in Slots : \/ Cancelled[s] = co[s]
                           \/ co[s].at # "listening" /\ Cancelled[s].at # "listening"
      BY <1>1, <3>4, CancelledLegal
    <3>7. \A s \in Slots : \/ s \in {c, n} \/ co'[s] = co[s]
                           \/ co[s].at # "listening" /\ co'[s].at # "listening"
      BY <1>1, <3>1, <3>6, CheckInAccepts
    <3> HIDE DEF n
    <3>8. ListenersInPlace'
      BY <3>4, <3>5, <3>7, ListenersReplaced DEF Sound
    <3> QED
      BY <3>3, <3>8 DEF Sound
  <2> QED
    BY <2>1, <2>2
<1> QED
  BY <1>2, <1>5, <1>6, <1>7, <1>8, <1>9, <1>10, <1>11

\* Work, answers and alarms.
LEMMA SoundWork ==
    ASSUME Sound, NEW c \in Slots,
           \/ Triggered(c) \/ CallsAgain(c) \/ CallFails(c) \/ LastCallAnswered(c)
           \/ InputProcessed(c) \/ AdvanceStateAwake(c) \/ InspectStateAwake(c)
           \/ AdvanceStateAcked(c) \/ ResponseDelivered(c) \/ CheckInAcked(c)
           \/ AlarmGoesOff(c) \/ DeadlineExpired(c) \/ DeadlineCancelled(c)
    PROVE  Sound'
<1>1. /\ Base /\ RestTyped /\ served \in RpcSets
      /\ co \in [Slots -> Legal(served)] /\ co = [s \in Slots |-> co[s]]
      /\ \A s \in Slots : co[s] \in Legal(served)
  BY DEF Sound, Base
<1>2. \A s \in Slots : Fits(co[s])
  BY <1>1, LegalFits
<1>3. /\ Cancelled \in [Slots -> Legal(served)]
      /\ \A s \in Slots : \/ Cancelled[s] = co[s]
                          \/ co[s].at # "listening" /\ Cancelled[s].at # "listening"
  BY <1>1, CancelledLegal DEF Coroutine
<1>4. /\ NewEpoch(co) \in [Slots -> Legal(served)]
      /\ \A s \in Slots : \/ NewEpoch(co)[s] = co[s]
                          \/ co[s].at # "listening" /\ NewEpoch(co)[s].at # "listening"
  <2>1. /\ \A s \in Slots : NewEpoch(co)[s] \in Legal(served)
        /\ NewEpoch(co) = [s \in Slots |-> NewEpoch(co)[s]]
    BY <1>1, NewEpochLegal
  <2> QED
    BY <1>1, <2>1, NewEpochLegal DEF Coroutine
<1>5. ASSUME NEW w \in Slots, co[w].at \in AtServer, NEW before \in {co, Cancelled},
             AnswerFails(c, w, before), co[c].at # "listening",
             waiting' \in {waiting, None}
      PROVE  Sound'
  <2>1. RestTyped'
    BY <1>1, <1>5 DEF AnswerFails, RestTyped
  <2>2. co[w] # Free /\ co[w].at # "listening" /\ co[w].peer = None
    BY <1>2, <1>5 DEF AnswerFails, Fits, AtServer, Free, Coroutine
  <2>3. Moved(w, "refusing") \in Legal(served)
    BY <1>1, <1>5, <2>2, KnownLabels, MovedLegal DEF AnswerFails, Moved
  <2>4. Moved(w, "refusing").at # "listening"
    BY <1>1 DEF Moved, Legal
  <2> QED
    BY <1>1, <1>3, <1>5, <2>1, <2>2, <2>3, <2>4, SoundRan DEF AnswerFails
<1>6. ASSUME NEW w \in Slots, co[w].at # "listening", NEW before \in {co, Cancelled},
             NEW peer, InspectStateFails(c, w, before, peer), co[c].at # "listening",
             waiting' \in {waiting, None}
      PROVE  Sound'
  <2> DEFINE x == Coroutine("InspectState", "refusing", None)
  <2>1. RestTyped'
    BY <1>1, <1>6 DEF InspectStateFails, RestTyped, Tainted
  <2>2. "InspectState" \in served
    BY <1>1, <1>6, LegalFits, DispatchAssumption DEF InspectStateFails, AllRpcs
  <2>3. x.at = "refusing" /\ x \in Legal(served)
    BY <1>1, <2>2, KnownLabels, DispatchAssumption DEF Legal, Coroutine, AllRpcs, Places
  <2> HIDE DEF x
  <2>4. PICK scheduled : Runs(c, w, before, x, {w}, scheduled)
    BY <1>6 DEF InspectStateFails, x
  <2> QED
    BY <1>1, <1>3, <1>6, <2>1, <2>3, <2>4, SoundRan
<1>7. ASSUME NEW w \in Slots, co[w].at \in AtServer \cup {"acking"},
             NEW before \in {co, Cancelled}, AdvanceStateFails(c, w, before),
             co[c].at # "listening", waiting' \in {waiting, None}
      PROVE  Sound'
  <2>1. RestTyped'
    BY <1>1, <1>7 DEF AdvanceStateFails, RestTyped, Tainted, Addresses
  <2>2. co[w] # Free /\ co[w].at # "listening" /\ co[w].peer = None
    BY <1>2, <1>7 DEF AdvanceStateFails, Fits, AtServer, Free, Coroutine
  <2>3. PICK at \in {"leaving", "finished"}, scheduled \in {query, None} :
            Runs(c, w, before, Moved(w, at), {}, scheduled)
    BY <1>7 DEF AdvanceStateFails
  <2>4. Moved(w, at) \in Legal(served)
    BY <1>1, <1>7, <2>2, KnownLabels, MovedLegal DEF AdvanceStateFails, Moved
  <2>5. Moved(w, at).at # "listening"
    BY <1>1 DEF Moved, Legal
  <2> QED
    BY <1>1, <1>3, <1>7, <2>1, <2>2, <2>3, <2>4, <2>5, SoundRan
<1>8. ASSUME Triggered(c) PROVE Sound'
  <2> DEFINE n == NewSlot
  <2>1. RestTyped'
    BY <1>1, <1>8, NewSlotFree DEF Triggered, RestTyped, Entry, sessionVars
  <2>2. Base'
    BY <1>1, <1>8, <2>1, TriggeredParks DEF Base
  <2>3. /\ Free.at # "listening" /\ Deadline.at # "listening"
        /\ \A k, p : Coroutine(k, "parked", p).at # "listening"
    BY DEF Free, Deadline, Coroutine
  <2>4. \A s \in Slots : \/ co'[s] = co[s]
                         \/ co[s].at # "listening" /\ co'[s].at # "listening"
    BY <1>1, <1>3, <1>8, <2>3, TriggeredParks
  <2>5. ListenersInPlace'
    BY <1>1, <1>8, <2>4, TriggeredParks, ListenersKept DEF Sound
  <2> QED
    BY <2>2, <2>5 DEF Sound
<1>9. ASSUME CallsAgain(c) PROVE Sound'
  <2>1. PICK at \in {"calling", "triggering"} :
            /\ Runs(c, c, co, Moved(c, at), {c}, None) /\ co[c].at = "calling"
            /\ at \in Labels(co[c].kind)
    BY <1>9, KnownLabels DEF CallsAgain
  <2>2. RestTyped'
    BY <1>1, <1>9 DEF CallsAgain, RestTyped, TestsEntry, sessionVars
  <2>3. co[c].peer # None => co[c].kind = "InspectState" /\ at \in AtServer
    BY <1>2, <2>1 DEF Fits, AtServer
  <2> QED
    BY <2>1, <2>2, <2>3, SoundAlone
<1>10. ASSUME CallFails(c) PROVE Sound'
  BY <1>5, <1>6, <1>7, <1>10 DEF CallFails, AtServer
<1>11. ASSUME LastCallAnswered(c) PROVE Sound'
  <2>1. co[c].at = "calling" /\ co[c].kind \in {"StartSession", "FinishEpoch", "EndSession"}
    BY <1>11 DEF LastCallAnswered
  <2>2. co[c].peer = None /\ co[c] # Free /\ "acking" \in Labels(co[c].kind)
    BY <1>2, <2>1, KnownLabels DEF Fits, AllRpcs, Free, Coroutine
  <2>3. RestTyped'
    BY <1>1, <1>11 DEF LastCallAnswered, RestTyped, sessionVars
  <2>4. CASE Runs(c, c, co, Moved(c, "acking"), {c}, None)
    BY <2>1, <2>2, <2>3, <2>4, SoundAlone
  <2>5. CASE Runs(c, c, NewEpoch(co), Moved(c, "acking"), {c}, None)
    <3>1. Moved(c, "acking") \in Legal(served)
      BY <1>1, <2>2, MovedLegal DEF Moved
    <3>2. Moved(c, "acking").at = "acking"
      BY <1>1 DEF Moved, Legal
    <3> QED
      BY <1>4, <2>1, <2>3, <2>5, <3>1, <3>2, SoundRan
  <2> QED
    BY <1>11, <2>4, <2>5 DEF LastCallAnswered
<1>12. ASSUME NEW at, NEW armed, NEW scheduled, co[c].kind = "AdvanceState",
              co[c].at \notin {"listening", "free"},
              Runs(c, c, co, Moved(c, at), armed, scheduled),
              at \in {"asleep", "finished", "triggering"}, RestTyped'
       PROVE  Sound'
  <2>1. co[c].peer = None /\ at \in Labels(co[c].kind)
    BY <1>2, <1>12, KnownLabels DEF Fits
  <2> QED
    BY <1>12, <2>1, SoundAlone
<1>13. ASSUME InputProcessed(c) PROVE Sound'
  <2>1. inputs' \in Nat
    BY <1>1, <1>13 DEF InputProcessed, RestTyped
  <2>2. query' \in Addresses \cup {None} /\ crashed' \in BOOLEAN
    BY <1>1, <1>13 DEF InputProcessed, RestTyped, TestsEntry, Addresses
  <2>3. RestTyped'
    BY <1>1, <1>13, <2>1, <2>2 DEF InputProcessed, RestTyped
  <2> QED
    BY <1>12, <1>13, <2>3 DEF InputProcessed
<1>14. ASSUME AdvanceStateAwake(c) PROVE Sound'
  <2>1. RestTyped'
    BY <1>1, <1>14 DEF AdvanceStateAwake, RestTyped, TestsEntry, sessionVars
  <2> QED
    BY <1>12, <1>14, <2>1 DEF AdvanceStateAwake
<1>15. ASSUME InspectStateAwake(c) PROVE Sound'
  <2>1. co[c].kind = "InspectState" /\ co[c].at = "asleep"
    BY <1>15 DEF InspectStateAwake
  <2>2. CASE InspectStateFails(c, c, co, query) /\ UNCHANGED waiting
    BY <1>6, <2>1, <2>2
  <2>3. CASE ~(InspectStateFails(c, c, co, query) /\ UNCHANGED waiting)
    <3>1. PICK at \in {"triggering", "acking"} :
              Runs(c, c, co, Coroutine("InspectState", at, query), {c}, None)
      BY <1>15, <2>3 DEF InspectStateAwake
    <3> DEFINE x == Coroutine("InspectState", at, query)
    <3>2. RestTyped'
      BY <1>1, <1>15, <2>3 DEF InspectStateAwake, RestTyped, TestsEntry, sessionVars
    <3>3. "InspectState" \in served /\ at \in Labels("InspectState")
      BY <1>1, <2>1, LegalFits, KnownLabels, DispatchAssumption DEF AllRpcs
    <3>4. x.at = at /\ x \in Legal(served)
      BY <1>1, <3>3, DispatchAssumption
          DEF Legal, Coroutine, AllRpcs, AtServer, Places, RestTyped
    <3> HIDE DEF x
    <3>5. Runs(c, c, co, x, {c}, None)
      BY <3>1 DEF x
    <3> QED
      BY <1>1, <2>1, <3>2, <3>4, <3>5, SoundRan
  <2> QED
    BY <2>2, <2>3
<1>16. ASSUME AdvanceStateAcked(c) PROVE Sound'
  <2>1. CASE AdvanceStateFails(c, c, co) /\ UNCHANGED waiting
    BY <1>7, <1>16, <2>1 DEF AdvanceStateAcked
  <2>2. CASE ~(AdvanceStateFails(c, c, co) /\ UNCHANGED waiting)
    <3>1. RestTyped'
      BY <1>1, <1>16, <2>2 DEF AdvanceStateAcked, RestTyped, TestsEntry, sessionVars
    <3> QED
      BY <1>12, <1>16, <2>2, <3>1 DEF AdvanceStateAcked
  <2> QED
    BY <2>1, <2>2
<1>17. ASSUME ResponseDelivered(c) PROVE Sound'
  <2>1. RestTyped'
    BY <1>1, <1>17 DEF ResponseDelivered, RestTyped, sessionVars
  <2>2. PICK scheduled : Runs(c, c, co, Moved(c, "finished"), {}, scheduled)
    BY <1>17 DEF ResponseDelivered
  <2> QED
    BY <1>17, <2>1, <2>2, SoundAlone DEF ResponseDelivered
<1>18. ASSUME CheckInAcked(c) PROVE Sound'
  <2> DEFINE w == co[c].peer
  <2>1. co[c].kind = "CheckIn" /\ co[c].at = "acking"
    BY <1>18 DEF CheckInAcked
  <2>2. RestTyped'
    BY <1>1, <1>18 DEF CheckInAcked, RestTyped, sessionVars
  <2>3. CASE w = None
    BY <1>18, <2>1, <2>2, <2>3, SoundAlone DEF CheckInAcked
  <2>4. CASE w # None
    <3>1. co[w].at = "parked"
      BY <1>18, <2>4 DEF CheckInAcked
    <3>2. PICK at \in {"calling", "triggering", "acking"} :
              /\ Runs(c, w, Cancelled, Moved(w, at), {w}, None)
              /\ at = "triggering" => co[w].kind \in {"AdvanceState", "InspectState"}
              /\ at = "acking" => co[w].kind = "InspectState"
      BY <1>18, <2>4 DEF CheckInAcked
    <3>3. ASSUME w \in Slots PROVE Sound'
      <4>1. /\ co[w] # Free /\ at \in Labels(co[w].kind)
            /\ co[w].peer # None => co[w].kind = "InspectState"
        BY <1>2, <3>1, <3>2, <3>3, KnownLabels DEF Fits, Free, Coroutine, AllRpcs
      <4>2. Moved(w, at) \in Legal(served)
        BY <1>1, <3>3, <4>1, MovedLegal DEF Moved, AtServer
      <4>3. Moved(w, at).at # "listening"
        BY <1>1, <3>3 DEF Moved, Legal
      <4> QED
        BY <1>3, <2>1, <2>2, <3>1, <3>2, <3>3, <4>2, <4>3, SoundRan
    <3>4. w \in Slots
      BY <1>2, <2>1, <2>4 DEF Fits
    <3> QED
      BY <3>3, <3>4
  <2> QED
    BY <2>3, <2>4
<1>19. ASSUME AlarmGoesOff(c) PROVE Sound'
  <2> DEFINE x == [co[c] EXCEPT !.at = "fired"]
  <2>1. co[c].at = "alarm" /\ co[c] # Free /\ Fits(co[c])
    BY <1>2, <1>19 DEF AlarmGoesOff, Free, Coroutine
  <2>2. x \in Legal(served)
    BY <1>1, <2>1, KnownLabels, MovedLegal DEF Fits, AtServer
  <2>3. x.at = "fired"
    BY <1>1 DEF Legal
  <2>4. co' = [co EXCEPT ![c] = x] /\ UNCHANGED <<served, tags>> /\ RestTyped'
    BY <1>1, <1>19 DEF AlarmGoesOff, RestTyped, sessionVars
  <2> HIDE DEF x
  <2>5. co' \in [Slots -> Legal(served)]
    BY <1>1, <2>2, <2>4
  <2>6. \A s \in Slots : \/ co'[s] = co[s]
                         \/ co[s].at # "listening" /\ co'[s].at # "listening"
    BY <1>1, <2>1, <2>3, <2>4
  <2>7. ListenersInPlace'
    BY <2>4, <2>6, ListenersKept DEF Sound
  <2> QED
    BY <1>1, <2>4, <2>5, <2>7 DEF Sound, Base
<1>20. ASSUME DeadlineExpired(c) PROVE Sound'
  <2>1. waiting.coroutine \in Slots
    BY <1>1, <1>20 DEF DeadlineExpired, RestTyped
  <2>2. co[c].at = "fired" /\ co[waiting.coroutine].at = "parked" /\ waiting' = None
    BY <1>20 DEF DeadlineExpired
  <2> QED
    BY <1>5, <1>6, <1>7, <1>20, <2>1, <2>2 DEF DeadlineExpired, AtServer
<1>21. ASSUME DeadlineCancelled(c) PROVE Sound'
  <2>1. RestTyped'
    BY <1>1, <1>21 DEF DeadlineCancelled, RestTyped, sessionVars
  <2> QED
    BY <1>21, <2>1, SoundAlone DEF DeadlineCancelled
<1> QED
  BY <1>8, <1>9, <1>10, <1>11, <1>13, <1>14, <1>15, <1>16, <1>17, <1>18, <1>19, <1>20, <1>21

-----------------------------------------------------------------------------
(* What holds as long as the session is used in an orderly way. *)

Advances(c) == co[c].kind = "AdvanceState" /\ co[c].at \in AtServer
Inspects(c) == co[c].kind = "InspectState" /\ co[c].at \in AtServer
Queued(c) == co[c].kind = "InspectState" /\ co[c].at = "asleep"

\* An AdvanceState that sleeps and was scheduled, and one that was not.
Woken(c) == co[c].kind = "AdvanceState" /\ co[c].at = "asleep" /\ tags[c] = 1
Lent(c) ==
    /\ co[c].kind = "AdvanceState" /\ co[c].at \in {"asleep", "leaving"} /\ tags[c] = 0

\* The contract of the dispatch loop.
Tagged ==
    /\ tags[Null] = 0
    /\ \A s \in Slots :
        /\ co[s].at \in {"free", "finished", "parked"} => tags[s] = 0
        /\ co[s].at \notin {"free", "finished", "parked"} /\ ~Sleeps(s) => tags[s] = 1
        /\ Sleeps(s) => tags[s] \in {0, 1}

\* The wait for a check-in: the parked coroutine, the entry, and either its alarm or
\* the CheckIn that was accepted.
Waits ==
    /\ \A w \in Slots : co[w].at = "parked" => waiting # None /\ waiting.coroutine = w
    /\ waiting # None =>
        /\ co[waiting.coroutine].at = "parked"
        /\ ~waiting.status => co[waiting.alarm].at \in {"alarm", "fired"}
        /\ waiting.status => \E c \in Slots : Accepted(c)
    /\ \A d \in Slots : co[d].at \in {"alarm", "fired"} =>
        waiting # None /\ waiting.alarm = d /\ ~waiting.status
    /\ \A c \in Slots : Accepted(c) =>
        waiting # None /\ waiting.status /\ co[c].peer = waiting.coroutine

\* Who works for the session, and when: the machine server works for one handler at
\* a time, inputs are processed by one, and not beside those that need them all
\* processed; inputs that are pending are going to be processed.
Locked ==
    /\ Orderly
    /\ \A s, t \in Slots : co[s].at \in AtServer /\ co[t].at \in AtServer => s = t
    /\ \A s, t \in Slots : Processing(s) /\ Processing(t) => s = t
    /\ \A s \in Slots : Advances(s) => inputs > 0
    /\ \A c \in Slots :
        /\ co[c].at \in AtServer
        /\ \/ co[c].kind \in {"StartSession", "FinishEpoch"}
           \/ Inspects(c) /\ co[c].peer = None
        => inputs = 0
    /\ \A c, s \in Slots :
        co[c].at \in AtServer /\ co[c].kind \in {"StartSession", "EndSession"} => ~Processing(s)
    /\ session = "absent" => \A s \in Slots :
        ~Processing(s) /\ ~(co[s].kind = "AdvanceState" /\ co[s].at = "acking")
    /\ session = "sound" /\ inputs > 0 =>
        \E a \in Slots : \/ Processing(a) /\ co[a].at # "stale"
                         \/ inputs = 1 /\ co[a].kind = "AdvanceState" /\ co[a].at = "acking"

\* A query that sleeps and was not scheduled is the pending one, and an AdvanceState
\* is going to schedule it.
Unheard(q) ==
    Queued(q) /\ tags[q] = 0 =>
        query = q /\ inputs > 0 /\ \E a \in Slots : Advances(a) \/ Woken(a)

\* A query that was scheduled finds the AdvanceState that did it in the pending
\* query, keeps it, and nobody processes inputs meanwhile.
Heard(q) ==
    /\ Queued(q) /\ tags[q] = 1 =>
        query \in Slots /\ Lent(query) /\ \A x \in Slots : Processing(x) => x = query
    /\ co[q].kind = "InspectState" /\ co[q].peer # None =>
        /\ co[q].peer \in Slots /\ Lent(co[q].peer)
        /\ \A x \in Slots : Processing(x) => x = co[q].peer
    /\ Inspects(q) /\ co[q].peer # None => query = co[q].peer

\* An AdvanceState that sleeps and was not scheduled is the one a query has found or
\* is going to find.
Owed(q) ==
    co[q].kind = "AdvanceState" /\ Sleeps(q) /\ tags[q] = 0 =>
        /\ co[q].at # "stale"
        /\ \E i \in Slots : \/ co[i].kind = "InspectState" /\ co[i].peer = q
                            \/ Queued(i) /\ tags[i] = 1 /\ query = q

\* What an AdvanceState that processes inputs finds in the pending query: nothing, a
\* query that sleeps, or itself, which a query that failed has left there.
Pending(q) ==
    /\ co[q].kind \in {"InspectState", "AdvanceState"} /\ co[q].at = "acking" => query = None
    /\ Advances(q) \/ Woken(q) =>
        \/ query \in {None, q}
        \/ query \in Slots /\ Queued(query) /\ tags[query] = 0
        \/ query = Null /\ inputs = 0

\* The pending query of a session that is sound is somebody's.
Asked ==
    query # None /\ session = "sound" => \E i \in Slots : Inspects(i) \/ Queued(i)

Handed == \A q \in Slots : Unheard(q) /\ Heard(q) /\ Owed(q) /\ Pending(q)

Worked == Locked /\ Handed /\ Asked
Earned == ~crashed /\ Tagged /\ Waits /\ Worked

\* The inductive invariant.
Inv == Sound /\ (orderly => Earned)

\* A step in an orderly use of the session.
Tidy == Base /\ Base' /\ Earned /\ Orderly'

\* Coroutines that have nothing to do with a check-in, and with the session.
Quiet(s) == co[s].at \notin {"parked", "alarm", "fired"} /\ ~Accepted(s)
Idle(s) ==
    \/ co[s].kind \notin {"StartSession", "FinishEpoch", "EndSession", "InspectState",
                          "AdvanceState"}
    \/ co[s].at \in {"listening", "refusing", "finished"}

\* Nobody outside W has done anything to the session.
Except(W) ==
    \A s \in Slots : \/ s \in W
                     \/ co'[s] = co[s] /\ tags'[s] = tags[s]
                     \/ Idle(s) /\ Idle(s)'

\* The places of coroutines whose tag is on the way.
Armed == {"listening", "acking", "refusing", "triggering", "calling", "alarm", "fired",
          "cancelled"}
Asleep == {"asleep", "stale", "leaving"}

-----------------------------------------------------------------------------

\* A check-in goes on being waited for.
LEMMA WaitsKept ==
    ASSUME Base, Waits, waiting' = waiting,
           \A s \in Slots : co'[s] = co[s] \/ (Quiet(s) /\ Quiet(s)')
    PROVE  Waits'
<1>1. waiting # None => waiting.coroutine \in Slots /\ waiting.alarm \in Slots
  BY DEF Base, RestTyped
<1> QED
  BY <1>1 DEF Waits, Quiet, Accepted

\* A turn in which a coroutine works alone.
LEMMA TidyAlone ==
    ASSUME Tidy, NEW c \in Slots, NEW x, NEW armed, NEW scheduled,
           Runs(c, c, co, x, armed, scheduled), waiting' = waiting, Quiet(c),
           x.at \in (Armed \cup Asleep \cup {"finished"}) \ {"alarm", "fired"},
           x.kind = "CheckIn" => x.at = "finished",
           armed = IF x.at \in Armed THEN {c} ELSE {},
           \/ scheduled = None
           \/ scheduled \in Slots /\ scheduled # c /\ Sleeps(scheduled) /\ tags[scheduled] = 0
           \/ scheduled = c /\ x.at \in Asleep
    PROVE  /\ Tagged' /\ Waits'
           /\ \A s \in Slots : /\ s # c => co'[s] = co[s]
                               /\ s \notin {c, scheduled} => tags'[s] = tags[s]
           /\ x.at # "finished" => co'[c] = x
           /\ x.at = "finished" => co'[c] = Free
           /\ scheduled \in Slots => tags'[scheduled] = 1
           /\ scheduled # c => tags'[c] = IF x.at \in Armed THEN 1 ELSE 0
<1>1. Base /\ co \in [Slots -> Legal(served)] /\ Tagged /\ Waits
  BY DEF Tidy, Base, Earned
<1>2. /\ \A s \in Slots : s # c => co'[s] = co[s]
      /\ co'[c] = IF x.at = "finished" THEN Free ELSE x
      /\ tags[c] > 0
      /\ \A s \in Addresses :
            tags'[s] = (tags[s] - Times(s = c)) + Times(s \in armed) + Times(s = scheduled)
  BY <1>1, Ran
<1>3. tags[c] = 1
  BY <1>1, <1>2 DEF Tagged
<1>4. /\ None \notin Addresses /\ Slots \subseteq Addresses /\ Null \in Addresses
      /\ Null \notin Slots /\ tags \in [Addresses -> Nat]
  BY <1>1, DispatchAssumption DEF Addresses, Slots, Null, Base
<1>5. \A s \in Addresses : s \notin {c, scheduled} => tags'[s] = tags[s]
  BY <1>2, <1>4 DEF Times
<1>6. scheduled # c => tags'[c] = IF x.at \in Armed THEN 1 ELSE 0
  BY <1>2, <1>3, <1>4 DEF Times
<1>7. scheduled \in Slots => tags'[scheduled] = 1
  BY <1>2, <1>3, <1>4 DEF Times, Armed, Asleep
<1>8. tags'[Null] = 0
  BY <1>1, <1>4, <1>5 DEF Tagged
<1>9. Free.at = "free" /\ Free.peer = None /\ Free.kind = None
  BY DEF Free, Coroutine
<1>10. Tagged'
  BY <1>1, <1>2, <1>4, <1>5, <1>6, <1>7, <1>8, <1>9 DEF Tagged, Sleeps, Armed, Asleep
<1>11. Quiet(c)'
  BY <1>2, <1>9 DEF Quiet, Accepted, Armed, Asleep
<1>12. Waits'
  BY <1>1, <1>2, <1>11, WaitsKept
<1> QED
  BY <1>2, <1>4, <1>5, <1>6, <1>7, <1>10, <1>12

\* A turn of a listener that has received a request.
LEMMA TidyReceived ==
    ASSUME Tidy, NEW c \in Slots, NEW at, NEW armed, co[c].at = "listening",
           FreeSlots # {}, Resume(c, Succeeded(c, at), armed, None), waiting' = waiting,
           at \in (Armed \cup Asleep \cup {"finished"}) \ {"alarm", "fired", "listening"},
           armed = IF at \in Armed THEN {NewSlot, c} ELSE {NewSlot}
    PROVE  /\ Tagged' /\ Waits' /\ Except({c}) /\ Idle(c)
           /\ at # "finished" => /\ co'[c].kind = co[c].kind /\ co'[c].at = at
                                 /\ co'[c].peer = None
           /\ at = "finished" => Idle(c)'
           /\ tags'[c] = IF at \in Armed THEN 1 ELSE 0
           /\ \A s \in Slots : co[s].at = "parked" => co'[s].at = "parked"
<1>1. Base /\ Tagged /\ Waits
  BY DEF Tidy, Earned
<1>2. PICK n \in Slots :
      /\ n = NewSlot /\ n # c /\ co[n] = Free
      /\ \A s \in Slots : s \notin {c, n} => co'[s] = co[s]
      /\ co'[n] = Listener(co[c].kind) /\ co[c] = Listener(co[c].kind)
      /\ co'[c] = IF at = "finished" THEN Free ELSE Coroutine(co[c].kind, at, None)
      /\ tags[c] > 0
      /\ \A s \in Addresses : tags'[s] = (tags[s] - Times(s = c)) + Times(s \in armed)
  BY <1>1, Received
<1>3. /\ Slots \subseteq Addresses /\ Null \in Addresses
      /\ Null \notin Slots /\ tags \in [Addresses -> Nat]
  BY <1>1 DEF Addresses, Slots, Null, Base
<1>4. /\ co[n].at = "free" /\ co[n].peer = None /\ co[n].kind = None
      /\ co[c].peer = None
      /\ co'[n].at = "listening" /\ co'[n].peer = None /\ co'[n].kind = co[c].kind
      /\ at # "finished" => /\ co'[c].kind = co[c].kind /\ co'[c].at = at
                            /\ co'[c].peer = None
      /\ at = "finished" => co'[c].kind = None /\ co'[c].at = "free" /\ co'[c].peer = None
  BY <1>2 DEF Free, Listener, Coroutine
<1>5. tags[c] = 1 /\ tags[n] = 0
  BY <1>1, <1>2, <1>4 DEF Tagged, Sleeps
<1>6. \A s : s \in armed <=> s = n \/ (s = c /\ at \in Armed)
  BY <1>2
<1>7. /\ \A s \in Addresses : s \notin {c, n} => tags'[s] = tags[s]
      /\ tags'[n] = 1
      /\ tags'[c] = IF at \in Armed THEN 1 ELSE 0
  <2>1. \A s \in Addresses :
            /\ tags[s] \in Nat
            /\ tags'[s] = (tags[s] - (IF s = c THEN 1 ELSE 0))
                              + (IF s = n \/ (s = c /\ at \in Armed) THEN 1 ELSE 0)
    BY <1>2, <1>3, <1>6 DEF Times
  <2>2. \A s \in Addresses : s \notin {c, n} => tags'[s] = tags[s]
    BY <2>1
  <2>3. n \in Addresses /\ c \in Addresses
    BY <1>3
  <2>4. tags'[n] = (tags[n] - 0) + 1
    BY <1>2, <2>1, <2>3
  <2>5. tags'[c] = (tags[c] - 1) + (IF at \in Armed THEN 1 ELSE 0)
    BY <1>2, <2>1, <2>3
  <2> QED
    BY <1>5, <2>2, <2>4, <2>5
<1>8. Tagged'
  BY <1>1, <1>2, <1>3, <1>4, <1>7 DEF Tagged, Sleeps, Armed, Asleep
<1>9. Quiet(c) /\ Quiet(n) /\ Quiet(c)' /\ Quiet(n)'
  BY <1>2, <1>4 DEF Quiet, Accepted, Armed, Asleep
<1>10. Waits'
  <2>1. \A s \in Slots : co'[s] = co[s] \/ (Quiet(s) /\ Quiet(s)')
    BY <1>2, <1>9
  <2> QED
    BY <1>1, <2>1, WaitsKept
<1>11. Idle(c) /\ Idle(n) /\ Idle(n)' /\ (at = "finished" => Idle(c)')
  BY <1>2, <1>4, DispatchAssumption DEF Idle, AllRpcs
<1>12. Except({c})
  <2>1. \A s \in Slots : s \notin {c, n} => co'[s] = co[s] /\ tags'[s] = tags[s]
    BY <1>2, <1>3, <1>7
  <2> QED
    BY <1>11, <2>1 DEF Except
<1>13. \A s \in Slots : co[s].at = "parked" => co'[s].at = "parked"
  BY <1>2, <1>4
<1> QED
  BY <1>4, <1>7, <1>8, <1>10, <1>11, <1>12, <1>13

\* A turn of an accepted CheckIn or of an alarm that went off, which calls the
\* coroutine that waits.
LEMMA TidyCalled ==
    ASSUME Tidy, NEW c \in Slots, NEW w \in Slots, NEW x, NEW armed, NEW scheduled,
           Runs(c, w, Cancelled, x, armed, scheduled), waiting' = None,
           waiting # None, waiting.coroutine = w, Accepted(c) \/ co[c].at = "fired",
           x.at \in (Armed \cup Asleep \cup {"finished"}) \ {"alarm", "fired"},
           x.kind # "CheckIn",
           armed = IF x.at \in Armed THEN {w} ELSE {},
           \/ scheduled = None
           \/ scheduled \in Slots /\ scheduled # w /\ Sleeps(scheduled) /\ tags[scheduled] = 0
           \/ scheduled = w /\ x.at \in Asleep
    PROVE  /\ Tagged' /\ Waits' /\ Idle(c) /\ Idle(c)' /\ w # c
           /\ \A s \in Slots : /\ s \notin {c, w} => co'[s] = co[s]
                               /\ s \notin {c, w, scheduled} => tags'[s] = tags[s]
           /\ co'[w] = x
           /\ scheduled \in Slots => tags'[scheduled] = 1
           /\ scheduled # w => tags'[w] = IF x.at \in Armed THEN 1 ELSE 0
<1>1. Base /\ co \in [Slots -> Legal(served)] /\ Tagged /\ Waits /\ KindsInPlace /\ Orderly
  BY Kinds DEF Tidy, Base, Earned, Worked, Locked
<1>2. co[w].at = "parked" /\ w # c /\ waiting.alarm \in Slots
  BY <1>1 DEF Waits, Accepted, KindsInPlace, Fits, Base, RestTyped
<1>3. Cancelled = co
  BY <1>1, <1>2 DEF Cancelled, Waits
<1>4. /\ \A s \in Slots : s \notin {c, w} => co'[s] = co[s]
      /\ co'[c] = Free /\ co'[w] = x /\ tags[c] > 0
      /\ \A s \in Addresses :
            tags'[s] = (tags[s] - Times(s = c)) + Times(s \in armed) + Times(s = scheduled)
  BY <1>1, <1>2, <1>3, Ran
<1>5. tags[c] = 1 /\ tags[w] = 0 /\ ~Sleeps(c)
  BY <1>1, <1>2, <1>4 DEF Tagged, Accepted, KindsInPlace, Fits, Sleeps
<1>6. /\ None \notin Addresses /\ Slots \subseteq Addresses /\ Null \in Addresses
      /\ Null \notin Slots /\ tags \in [Addresses -> Nat]
  BY <1>1, DispatchAssumption DEF Addresses, Slots, Null, Base
<1>7. /\ \A s : s \in armed <=> s = w /\ x.at \in Armed
      /\ scheduled # c /\ (scheduled \in Slots \/ scheduled \notin Addresses)
      /\ scheduled = w => x.at \notin Armed
  BY <1>5, <1>6 DEF Armed, Asleep
<1>8. \A s \in Addresses :
            /\ tags[s] \in Nat
            /\ tags'[s] = (tags[s] - (IF s = c THEN 1 ELSE 0))
                            + (IF s = w /\ x.at \in Armed THEN 1 ELSE 0)
                            + (IF s = scheduled THEN 1 ELSE 0)
  BY <1>4, <1>6, <1>7 DEF Times
<1>9. /\ \A s \in Addresses : s \notin {c, w, scheduled} => tags'[s] = tags[s]
      /\ tags'[c] = 0
  <2>1. \A s \in Addresses : s \notin {c, w, scheduled} => tags'[s] = tags[s]
    BY <1>8
  <2>2. tags'[c] = (tags[c] - 1) + 0 + 0
    BY <1>2, <1>6, <1>7, <1>8
  <2> QED
    BY <1>5, <2>1, <2>2
<1>10. scheduled # w => tags'[w] = IF x.at \in Armed THEN 1 ELSE 0
  <2>1. scheduled # w => tags'[w] = (tags[w] - 0) + (IF x.at \in Armed THEN 1 ELSE 0) + 0
    BY <1>2, <1>6, <1>8
  <2> QED
    BY <1>5, <2>1
<1>11. scheduled \in Slots => tags'[scheduled] = 1
  <2>1. CASE scheduled = w
    <3>1. tags'[w] = (tags[w] - 0) + 0 + 1
      BY <1>2, <1>6, <1>7, <1>8, <2>1
    <3> QED
      BY <1>5, <2>1, <3>1
  <2>2. CASE scheduled \in Slots /\ scheduled # w
    <3>1. tags[scheduled] = 0 /\ scheduled \in Addresses
      BY <1>6, <2>2, DispatchAssumption
    <3>2. tags'[scheduled] = (tags[scheduled] - 0) + 0 + 1
      BY <1>7, <1>8, <2>2, <3>1
    <3> QED
      BY <3>1, <3>2
  <2> QED
    BY <2>1, <2>2
<1>12. Free.at = "free" /\ Free.peer = None /\ Free.kind = None
  BY DEF Free, Coroutine
<1>13. tags'[Null] = 0
  BY <1>1, <1>6, <1>9 DEF Tagged
<1>14. Tagged'
  BY <1>1, <1>2, <1>4, <1>6, <1>9, <1>10, <1>11, <1>12, <1>13
      DEF Tagged, Sleeps, Armed, Asleep
<1>15. /\ \A s \in Slots : co'[s].at # "parked" /\ co'[s].at \notin {"alarm", "fired"}
       /\ \A s \in Slots : ~Accepted(s)'
  BY <1>1, <1>2, <1>4, <1>12 DEF Waits, Orderly, Accepted, Armed, Asleep
<1>16. Waits'
  BY <1>15 DEF Waits
<1>17. Idle(c) /\ Idle(c)'
  BY <1>1, <1>4, <1>12, DispatchAssumption DEF Idle, Accepted, KindsInPlace, Fits, AllRpcs
<1> QED
  BY <1>2, <1>4, <1>6, <1>9, <1>10, <1>11, <1>14, <1>16, <1>17

\* The test that trigger_and_wait_checkin begins with succeeds.
LEMMA EntryTested ==
    ASSUME Tidy, Worked', NEW c \in Slots, TestsEntry, co[c].at # "parked",
           co'[c].at \in AtServer,
           \A s \in Slots : co[s].at = "parked" => co'[s].at = "parked"
    PROVE  ~crashed'
<1>1. SUFFICES ASSUME waiting # None PROVE FALSE
  BY DEF TestsEntry
<1>2. waiting.coroutine \in Slots /\ co[waiting.coroutine].at = "parked"
  BY <1>1 DEF Tidy, Earned, Waits, Base, RestTyped
<1> QED
  BY <1>2 DEF Worked, Locked, AtServer

-----------------------------------------------------------------------------
(* What the turns of the handlers do to the session. *)

Is(c, kind, at) == co[c].kind = kind /\ co[c].at = at

\* What the proofs below have in common.
Facts ==
    /\ None \notin Slots /\ Null \notin Slots /\ KindsInPlace /\ KindsInPlace'
    /\ \A s, t \in Slots : (Holds(s) /\ Holds(t)) \/ (Holds(s)' /\ Holds(t)') => s = t

\* They hold at every step of an orderly use of the session.
LEMMA FactsHold == ASSUME Tidy PROVE Facts
  BY Kinds, DispatchAssumption
      DEF Facts, Tidy, Earned, Worked, Locked, Orderly, Addresses, Slots, Null

USE DEF Facts, Tidy, Earned, Worked, KindsInPlace, Fits, Tagged, NewEpoch, Tainted, Locked,
        Handed, Asked, Unheard, Heard, Owed, Pending, Processing, Advances, Inspects, Queued,
        Lent, Woken, Sleeps, Holds, AtServer, Base, RestTyped, Except, Idle, sessionVars, Is

\* Nobody who works for the session has done anything.
LEMMA NobodyWorks ==
    ASSUME Tidy, Except({}), UNCHANGED sessionVars
    PROVE  Worked'
  BY FactsHold

\* A machine is to be stored, a session ended.
LEMMA HolderCalls ==
    ASSUME Tidy, NEW w \in Slots, Except({w}), Idle(w), UNCHANGED sessionVars,
           \/ Is(w, "FinishEpoch", "calling")' /\ inputs = 0
           \/ Is(w, "EndSession", "calling")' /\ \A s \in Slots : ~Processing(s)
    PROVE  Worked'
  BY FactsHold

\* An epoch is finished, at once or after the machine was stored.
LEMMA EpochEnds ==
    ASSUME Tidy, NEW w \in Slots, Is(w, "FinishEpoch", "acking")',
           \A s \in Slots \ {w} : \/ tags'[s] = tags[s] /\ co'[s] = NewEpoch(co)[s]
                                  \/ Idle(s) /\ Idle(s)',
           inputs' = 0, query' = None, session' = session,
           \/ Idle(w) /\ session = "sound" /\ inputs = 0
           \/ Is(w, "FinishEpoch", "calling")
    PROVE  Worked'
<1>1. \A s \in Slots \ {w} :
        \/ /\ tags'[s] = tags[s]
           /\ \/ co'[s] = co[s] /\ ~(co[s].at = "asleep" /\ co[s].kind = "AdvanceState")
              \/ /\ Is(s, "AdvanceState", "asleep") /\ Is(s, "AdvanceState", "stale")'
                 /\ co'[s].peer = co[s].peer
        \/ Idle(s) /\ Idle(s)'
  BY DEF Legal
<1> HIDE DEF NewEpoch
<1>2. Locked'
  BY <1>1, FactsHold
<1>3. Handed'
  BY <1>1, FactsHold
<1>4. Asked'
  BY <1>1, FactsHold
<1> QED
  BY <1>2, <1>3, <1>4

\* An input is enqueued.
LEMMA InputEnqueued ==
    ASSUME Tidy, NEW w \in Slots, Except({w}), Idle(w), session = "sound",
           Is(w, "AdvanceState", "acking")', inputs' = inputs + 1,
           UNCHANGED <<session, query>>
    PROVE  Worked'
  BY FactsHold

\* A query waits for the inputs.
LEMMA QueryWaits ==
    ASSUME Tidy, NEW w \in Slots, Except({w}), Idle(w), session = "sound", inputs > 0,
           query = None, Is(w, "InspectState", "asleep")', co'[w].peer = None,
           tags'[w] = 0, query' = w, UNCHANGED <<session, inputs>>
    PROVE  Worked'
  BY FactsHold

\* A query is processed, or answered, at once.
LEMMA QueryTakenUp ==
    ASSUME Tidy, NEW w \in Slots, Except({w}), Idle(w), session = "sound", inputs = 0,
           query = None, co'[w].peer = None, UNCHANGED <<session, inputs>>,
           \/ Is(w, "InspectState", "triggering")' /\ query' = Null
           \/ Is(w, "InspectState", "acking")' /\ query' = None
    PROVE  Worked'
  BY FactsHold

\* A session is started.
LEMMA SessionStarts ==
    ASSUME Tidy, NEW w \in Slots, Except({w}), Idle(w), session = "absent",
           Is(w, "StartSession", "parked")', session' = "sound", inputs' = 0, query' = None
    PROVE  Worked'
  BY FactsHold

\* A handler goes on to make calls.
LEMMA StaysAtServer ==
    ASSUME Tidy, NEW w \in Slots, Except({w}), co[w].at \in AtServer, co'[w].at \in AtServer,
           co'[w].kind = co[w].kind, co'[w].peer = co[w].peer, UNCHANGED sessionVars
    PROVE  Worked'
  BY FactsHold

\* A handler that has answered leaves, and wakes up nobody.
LEMMA HolderLeaves ==
    ASSUME Tidy, NEW w \in Slots, Except({w}), co[w].at = "acking",
           co[w].kind # "AdvanceState", co[w].peer = None \/ co[w].kind = "CheckIn",
           Idle(w)', UNCHANGED sessionVars
    PROVE  Worked'
  BY FactsHold

\* An InspectState leaves and wakes up an AdvanceState.
LEMMA InspectLeaves ==
    ASSUME Tidy, NEW w \in Slots, NEW p \in Slots, Except({w, p}), p # w,
           Is(w, "InspectState", "acking"), co[w].peer = p, Idle(w)', co'[p] = co[p],
           tags'[p] = 1, UNCHANGED sessionVars
    PROVE  Worked'
  BY FactsHold

\* An AdvanceState returns: from its sleep, or because others process its input.
LEMMA AdvanceReturns ==
    ASSUME Tidy, NEW w \in Slots, Except({w}), co[w].kind = "AdvanceState", Idle(w)',
           \/ /\ co[w].at \in {"asleep", "stale", "leaving"} /\ tags[w] = 1
              /\ co[w].at = "asleep" => inputs = 0
           \/ co[w].at = "acking" /\ inputs # 1,
           UNCHANGED sessionVars
    PROVE  Worked'
  BY FactsHold

\* It has processed the last input.
LEMMA LastInputProcessed ==
    ASSUME Tidy, NEW w \in Slots, Except({w}), Is(w, "AdvanceState", "calling"), Idle(w)',
           inputs = 1, query = None, inputs' = 0, UNCHANGED <<session, query>>
    PROVE  Worked'
  BY FactsHold

\* It takes up an input: the only one, or the next one, after a sleep or at once.
LEMMA InputTakenUp ==
    ASSUME Tidy, NEW w \in Slots, Except({w}), co[w].kind = "AdvanceState",
           Is(w, "AdvanceState", "triggering")', UNCHANGED <<session, query>>,
           \/ /\ co[w].at = "acking" /\ inputs = 1 /\ \A s \in Slots : ~Processing(s)
              /\ inputs' = inputs
           \/ co[w].at = "asleep" /\ tags[w] = 1 /\ inputs > 0 /\ inputs' = inputs
           \/ /\ co[w].at = "calling" /\ inputs > 1 /\ query = None
              /\ inputs' = inputs - 1
    PROVE  Worked'
  BY FactsHold

\* It has processed an input and lends its turn to a query.
LEMMA TurnLent ==
    ASSUME Tidy, NEW w \in Slots, NEW p \in Slots, Except({w, p}), p # w, Advances(w),
           Is(w, "AdvanceState", "asleep")', tags'[w] = 0, query = p, co'[p] = co[p],
           tags'[p] = 1, inputs > 0, inputs' = inputs - 1, query' = w, session' = session
    PROVE  Worked'
  BY FactsHold

\* Or to itself.
LEMMA TurnKept ==
    ASSUME Tidy, NEW w \in Slots, Except({w}), Advances(w),
           Is(w, "AdvanceState", "asleep")', query = w, tags'[w] = 1, inputs > 0,
           inputs' = inputs - 1, query' = w, session' = session
    PROVE  Worked'
  BY FactsHold

\* An InspectState that was woken up processes its query, or answers it at once.
LEMMA QueryAwake ==
    ASSUME Tidy, NEW w \in Slots, Except({w}), Is(w, "InspectState", "asleep"),
           tags[w] = 1, co'[w].peer = query, UNCHANGED <<session, inputs>>,
           \/ Is(w, "InspectState", "triggering")' /\ query' = query
           \/ Is(w, "InspectState", "acking")' /\ query' = None
    PROVE  Worked'
  BY FactsHold

\* It answers its query.
LEMMA QueryAnswered ==
    ASSUME Tidy, NEW w \in Slots, Except({w}), Inspects(w),
           Is(w, "InspectState", "acking")', co'[w].peer = co[w].peer, query' = None,
           UNCHANGED <<session, inputs>>
    PROVE  Worked'
  BY FactsHold

\* A session was started, or is ended.
LEMMA SessionAnswered ==
    ASSUME Tidy, NEW w \in Slots, Except({w}), UNCHANGED <<inputs, query>>,
           \/ /\ Is(w, "StartSession", "calling") /\ Is(w, "StartSession", "acking")'
              /\ session' = session
           \/ /\ Is(w, "EndSession", "calling") /\ Is(w, "EndSession", "acking")'
              /\ session' = "absent"
    PROVE  Worked'
  BY FactsHold

\* A handler that has not answered gives up.
LEMMA AnswerGivenUp ==
    ASSUME Tidy, NEW w \in Slots, Except({w}), co[w].at \in AtServer, Idle(w)',
           co[w].kind \in {"StartSession", "FinishEpoch", "EndSession"},
           session' = (IF co[w].kind = "StartSession" THEN "absent" ELSE session),
           UNCHANGED <<inputs, query>>
    PROVE  Worked'
  BY FactsHold

\* An InspectState gives up, and wakes up an AdvanceState.
LEMMA QueryGivenUp ==
    ASSUME Tidy, NEW w \in Slots, NEW p \in Slots, Except({w, p}), p # w, Idle(w)',
           \/ Inspects(w) /\ co[w].peer = p
           \/ Queued(w) /\ tags[w] = 1 /\ query = p,
           co'[p] = co[p], tags'[p] = 1, session' = Tainted, UNCHANGED <<inputs, query>>
    PROVE  Worked'
  BY FactsHold

\* Or nobody.
LEMMA FirstQueryGivenUp ==
    ASSUME Tidy, NEW w \in Slots, Except({w}), Inspects(w), Idle(w)', co[w].peer = None,
           session' = Tainted, UNCHANGED <<inputs, query>>
    PROVE  Worked'
  BY FactsHold

\* An AdvanceState gives up, and there is no query.
LEMMA AdvanceGivenUp ==
    ASSUME Tidy, NEW w \in Slots, Except({w}), co[w].kind = "AdvanceState", Idle(w)',
           co[w].at \in AtServer \cup {"acking"}, query = None, session' = Tainted,
           UNCHANGED <<inputs, query>>
    PROVE  Worked'
  BY FactsHold

\* It lends its turn to a query.
LEMMA GivenUpAndLent ==
    ASSUME Tidy, NEW w \in Slots, NEW p \in Slots, Except({w, p}), p # w, Advances(w),
           Is(w, "AdvanceState", "leaving")', tags'[w] = 0, query = p, co'[p] = co[p],
           tags'[p] = 1, session' = Tainted, query' = w, inputs' = inputs
    PROVE  Worked'
  BY FactsHold

\* Or to itself.
LEMMA GivenUpAndKept ==
    ASSUME Tidy, NEW w \in Slots, Except({w}), Advances(w),
           Is(w, "AdvanceState", "leaving")', query = w, tags'[w] = 1,
           session' = Tainted, query' = w, inputs' = inputs
    PROVE  Worked'
  BY FactsHold

HIDE DEF Facts, Tidy, Earned, Worked, KindsInPlace, Fits, Tagged, NewEpoch, Tainted, Locked,
         Handed, Asked, Unheard, Heard, Owed, Pending, Processing, Advances, Inspects, Queued,
         Lent, Woken, Sleeps, Holds, AtServer, Base, RestTyped, Except, Idle, sessionVars, Is

-----------------------------------------------------------------------------
(* Every step of an orderly use of the session keeps what it has earned. *)

\* Requests.
LEMMA EarnedRequest ==
    ASSUME Tidy, NEW c \in Slots,
           \/ RequestNotOK(c)
           \/ GetVersion(c) \/ GetStatus(c) \/ GetSessionStatus(c) \/ GetEpochStatus(c)
           \/ DeleteEpoch(c) \/ HealthCheck(c) \/ HealthWatch(c)
           \/ StartSessionRequest(c) \/ FinishEpochRequest(c) \/ EndSessionRequest(c)
           \/ AdvanceStateRequest(c) \/ InspectStateRequest(c) \/ CheckInRequest(c)
    PROVE  Earned'
<1>1. Base /\ ~crashed /\ Tagged /\ Waits /\ Worked
  BY DEF Tidy, Earned
<1>2. ASSUME NEW at \in {"finished", "acking", "refusing"}, NEW armed, FreeSlots # {},
             co[c].at = "listening", Resume(c, Succeeded(c, at), armed, None),
             armed = IF at = "finished" THEN {NewSlot} ELSE {NewSlot, c},
             at = "acking" => co[c].kind \in AtOnce \cup {"CheckIn"},
             UNCHANGED <<waiting, sessionVars, crashed>>
      PROVE  Earned'
  <2>1. Tagged' /\ Waits' /\ Except({c}) /\ Idle(c) /\ Idle(c)'
    <3>1. /\ at \in (Armed \cup Asleep \cup {"finished"}) \ {"alarm", "fired", "listening"}
          /\ armed = IF at \in Armed THEN {NewSlot, c} ELSE {NewSlot}
      BY <1>2 DEF Armed, Asleep
    <3>2. /\ Tagged' /\ Waits' /\ Except({c}) /\ Idle(c)
          /\ at # "finished" => co'[c].kind = co[c].kind /\ co'[c].at = at
          /\ at = "finished" => Idle(c)'
      BY <1>2, <3>1, TidyReceived
    <3> QED
      BY <1>2, <3>2 DEF Idle, AtOnce
  <2>2. Except({})
    BY <2>1 DEF Except
  <2>3. Worked'
    BY <1>2, <2>2, NobodyWorks
  <2> QED
    BY <1>1, <1>2, <2>1, <2>3 DEF Earned
<1>3. CASE RequestNotOK(c)
  BY <1>2, <1>3 DEF RequestNotOK
<1>4. ASSUME NEW rpc \in AtOnce \cup {"CheckIn"}, Receives(c, rpc), Answers(c) PROVE Earned'
  BY <1>2, <1>4 DEF Receives, Answers
<1>5. ASSUME NEW rpc, Receives(c, rpc), Refuses(c) PROVE Earned'
  BY <1>2, <1>5 DEF Receives, Refuses
<1>6. CASE \/ GetVersion(c) \/ GetStatus(c) \/ GetSessionStatus(c) \/ GetEpochStatus(c)
           \/ DeleteEpoch(c) \/ HealthCheck(c) \/ HealthWatch(c)
  BY <1>4, <1>6 DEF GetVersion, GetStatus, GetSessionStatus, GetEpochStatus, DeleteEpoch,
      HealthCheck, HealthWatch, AtOnce
<1>7. ASSUME NEW kind, NEW at \in {"calling", "acking", "triggering", "asleep"}, NEW armed,
             Receives(c, kind), Resume(c, Succeeded(c, at), armed, None),
             armed = IF at = "asleep" THEN {NewSlot} ELSE {NewSlot, c},
             waiting' = waiting
      PROVE  /\ Tagged' /\ Waits' /\ Except({c}) /\ Idle(c)
             /\ Is(c, kind, at)' /\ co'[c].peer = None
             /\ at = "asleep" => tags'[c] = 0
             /\ \A s \in Slots : co[s].at = "parked" => co'[s].at = "parked"
  <2>1. /\ at \in (Armed \cup Asleep \cup {"finished"}) \ {"alarm", "fired", "listening"}
        /\ armed = IF at \in Armed THEN {NewSlot, c} ELSE {NewSlot}
        /\ at # "finished" /\ (at = "asleep" => at \notin Armed)
    BY <1>7 DEF Armed, Asleep
  <2>2. co[c].kind = kind /\ co[c].at = "listening" /\ FreeSlots # {}
    BY <1>7 DEF Receives
  <2> QED
    BY <1>7, <2>1, <2>2, TidyReceived DEF Is
<1>8. CASE StartSessionRequest(c)
  <2>1. CASE Refuses(c)
    BY <1>5, <1>8, <2>1 DEF StartSessionRequest
  <2>2. CASE ~Refuses(c)
    <3>1. /\ Receives(c, "StartSession") /\ Cardinality(FreeSlots) > 1
          /\ Resume(c, [Succeeded(c, "parked") EXCEPT ![NextNewSlot] = Deadline],
                    {NewSlot, NextNewSlot}, None)
          /\ waiting' = Entry(c, NextNewSlot) /\ TestsEntry /\ session = "absent"
          /\ session' = "sound" /\ inputs' = 0 /\ query' = None
      BY <1>8, <2>2 DEF StartSessionRequest
    <3>2. PICK n \in Slots, d \in Slots :
            /\ n # c /\ d # c /\ n # d /\ d = NextNewSlot
            /\ co[n] = Free /\ co[d] = Free /\ co[c] = Listener("StartSession")
            /\ \A s \in Slots : s \notin {c, n, d} => co'[s] = co[s]
            /\ co'[c] = Coroutine("StartSession", "parked", None)
            /\ co'[n] = Listener("StartSession") /\ co'[d] = Deadline
            /\ tags[c] > 0
            /\ \A s \in Addresses :
                  tags'[s] = (tags[s] - Times(s = c)) + Times(s \in {n, d})
      BY <1>1, <3>1, StartParks
    <3>3. /\ Is(n, None, "free") /\ Is(d, None, "free") /\ Is(c, "StartSession", "listening")
          /\ Is(c, "StartSession", "parked")' /\ Is(n, "StartSession", "listening")'
          /\ Is(d, "CheckinDeadline", "alarm")'
          /\ co[n].peer = None /\ co[d].peer = None /\ co[c].peer = None
          /\ co'[n].peer = None /\ co'[d].peer = None /\ co'[c].peer = None
      BY <3>2 DEF Is, Free, Listener, Deadline, Coroutine
    <3>4. /\ \A s \in Slots : s \notin {c, n, d} => tags'[s] = tags[s]
          /\ tags'[n] = 1 /\ tags'[d] = 1 /\ tags'[c] = 0 /\ tags'[Null] = 0
      <4>1. tags[n] = 0 /\ tags[d] = 0 /\ tags[c] = 1 /\ tags[Null] = 0
        BY <1>1, <3>2, <3>3 DEF Tagged, Is, Sleeps
      <4>2. /\ Slots \subseteq Addresses /\ Null \in Addresses /\ Null \notin Slots
            /\ \A s \in Addresses : tags[s] \in Nat
        BY <1>1 DEF Addresses, Slots, Null, Base
      <4>3. \A s \in Slots : s \notin {c, n, d} => tags'[s] = (tags[s] - 0) + 0
        BY <3>2, <4>2 DEF Times
      <4>4. tags'[n] = (tags[n] - 0) + 1 /\ tags'[d] = (tags[d] - 0) + 1
        BY <3>2, <4>2 DEF Times
      <4>5. tags'[c] = (tags[c] - 1) + 0 /\ tags'[Null] = (tags[Null] - 0) + 0
        BY <3>2, <4>2 DEF Times
      <4> QED
        BY <4>1, <4>2, <4>3, <4>4, <4>5
    <3>5. Tagged'
      BY <1>1, <3>2, <3>3, <3>4 DEF Tagged, Is, Sleeps
    <3>6. Except({c}) /\ Idle(c)
      BY <3>2, <3>3, <3>4, DispatchAssumption DEF Except, Idle, Is, AllRpcs
    <3>7. Worked'
      BY <3>1, <3>3, <3>6, SessionStarts
    <3>8. ~crashed'
      BY <3>1, <3>2, <3>3, <3>7, EntryTested DEF Is, AtServer
    <3>9. waiting = None
      BY <3>1, <3>8 DEF TestsEntry
    <3>10. Waits'
      <4>1. /\ waiting' # None /\ waiting'.coroutine = c /\ waiting'.alarm = d
            /\ ~waiting'.status
        <5>1. Entry(c, d) \in [coroutine : Slots, alarm : Slots, status : BOOLEAN]
          BY DEF Entry
        <5>2. waiting' = Entry(c, d)
          BY <3>1, <3>2
        <5> QED
          BY <5>1, <5>2, DispatchAssumption DEF Entry
      <4>2. \A s \in Slots : Quiet(s)
        BY <1>1, <3>9 DEF Waits, Quiet
      <4> QED
        BY <3>2, <3>3, <4>1, <4>2 DEF Waits, Quiet, Accepted, Is
    <3> QED
      BY <3>5, <3>7, <3>8, <3>10 DEF Earned
  <2> QED
    BY <2>1, <2>2
<1>9. CASE FinishEpochRequest(c)
  <2>1. Receives(c, "FinishEpoch")
    BY <1>9 DEF FinishEpochRequest
  <2>2. CASE Refuses(c)
    BY <1>5, <2>1, <2>2
  <2>3. CASE /\ session = "sound" /\ inputs = 0
             /\ Resume(c, Succeeded(c, "calling"), {NewSlot, c}, None)
             /\ UNCHANGED <<waiting, sessionVars, crashed>>
    <3>1. /\ Tagged' /\ Waits' /\ Except({c}) /\ Idle(c)
          /\ Is(c, "FinishEpoch", "calling")'
      BY <1>7, <2>1, <2>3
    <3>2. Worked'
      BY <2>3, <3>1, HolderCalls
    <3> QED
      BY <1>1, <2>3, <3>1, <3>2 DEF Earned
  <2>4. CASE /\ session = "sound" /\ inputs = 0
             /\ Resume(c, NewEpoch(Succeeded(c, "acking")), {NewSlot, c}, None)
             /\ query' = None /\ UNCHANGED <<waiting, session, inputs, crashed>>
    <3>1. PICK n \in Slots :
            /\ n # c /\ co[n] = Free /\ co[c] = Listener("FinishEpoch")
            /\ \A s \in Slots : s \notin {c, n} => co'[s] = NewEpoch(co)[s]
            /\ co'[c] = Coroutine("FinishEpoch", "acking", None)
            /\ co'[n] = Listener("FinishEpoch")
            /\ tags[c] > 0
            /\ \A s \in Addresses :
                  tags'[s] = (tags[s] - Times(s = c)) + Times(s \in {n, c})
      BY <1>1, <2>1, <2>4, EpochFinishes
    <3>2. /\ Is(n, None, "free") /\ Is(c, "FinishEpoch", "listening")
          /\ Is(c, "FinishEpoch", "acking")' /\ Is(n, "FinishEpoch", "listening")'
          /\ co[n].peer = None /\ co[c].peer = None
          /\ co'[n].peer = None /\ co'[c].peer = None
      BY <3>1 DEF Is, Free, Listener, Coroutine
    <3>3. /\ \A s \in Slots : s # n => tags'[s] = tags[s]
          /\ tags'[n] = 1 /\ tags'[Null] = 0
      <4>1. tags[n] = 0 /\ tags[c] = 1 /\ tags[Null] = 0
        BY <1>1, <3>1, <3>2 DEF Tagged, Is, Sleeps
      <4>2. /\ Slots \subseteq Addresses /\ Null \in Addresses /\ Null \notin Slots
            /\ \A s \in Addresses : tags[s] \in Nat
        BY <1>1 DEF Addresses, Slots, Null, Base
      <4>3. \A s \in Slots : s \notin {c, n} => tags'[s] = (tags[s] - 0) + 0
        BY <3>1, <4>2 DEF Times
      <4>4. tags'[n] = (tags[n] - 0) + 1 /\ tags'[c] = (tags[c] - 1) + 1
        BY <3>1, <4>2 DEF Times
      <4>5. tags'[Null] = (tags[Null] - 0) + 0
        BY <3>1, <4>2 DEF Times
      <4> QED
        BY <4>1, <4>2, <4>3, <4>4, <4>5
    <3>4. \A s \in Slots \ {c, n} :
            \/ co'[s] = co[s]
            \/ /\ Is(s, "AdvanceState", "asleep") /\ Is(s, "AdvanceState", "stale")'
               /\ co'[s].peer = None
      <4>1. /\ co = [s \in Slots |-> co[s]] /\ served \in RpcSets
            /\ \A s \in Slots : co[s] \in Legal(served)
        BY <1>1 DEF Base
      <4> QED
        BY <3>1, <4>1, NewEpochLegal DEF Is, Coroutine
    <3>5. Tagged'
      BY <1>1, <3>2, <3>3, <3>4 DEF Tagged, Is, Sleeps
    <3>6. \A s \in Slots : co'[s] = co[s] \/ (Quiet(s) /\ Quiet(s)')
      BY <3>2, <3>4 DEF Is, Quiet, Accepted
    <3>7. Waits'
      BY <1>1, <2>4, <3>6, WaitsKept
    <3>8. Idle(c) /\ Idle(n) /\ Idle(n)'
      BY <3>2, DispatchAssumption DEF Idle, Is, AllRpcs
    <3>9. Worked'
      BY <2>4, <3>1, <3>2, <3>3, <3>8, EpochEnds
    <3> QED
      BY <1>1, <2>4, <3>5, <3>7, <3>9 DEF Earned
  <2> QED
    BY <1>9, <2>2, <2>3, <2>4 DEF FinishEpochRequest
<1>10. CASE EndSessionRequest(c)
  <2>1. CASE Refuses(c)
    BY <1>5, <1>10, <2>1 DEF EndSessionRequest
  <2>2. CASE ~Refuses(c)
    <3>1. /\ Tagged' /\ Waits' /\ Except({c}) /\ Idle(c)
          /\ Is(c, "EndSession", "calling")'
      BY <1>7, <1>10, <2>2 DEF EndSessionRequest
    <3>2. Worked'
      BY <1>10, <2>2, <3>1, HolderCalls DEF EndSessionRequest
    <3> QED
      BY <1>1, <1>10, <2>2, <3>1, <3>2 DEF Earned, EndSessionRequest
  <2> QED
    BY <2>1, <2>2
<1>11. CASE AdvanceStateRequest(c)
  <2>1. CASE Refuses(c)
    BY <1>5, <1>11, <2>1 DEF AdvanceStateRequest
  <2>2. CASE ~Refuses(c)
    <3>1. /\ Tagged' /\ Waits' /\ Except({c}) /\ Idle(c)
          /\ Is(c, "AdvanceState", "acking")'
      BY <1>7, <1>11, <2>2 DEF AdvanceStateRequest
    <3>2. Worked'
      BY <1>11, <2>2, <3>1, InputEnqueued DEF AdvanceStateRequest
    <3> QED
      BY <1>1, <1>11, <2>2, <3>1, <3>2 DEF Earned, AdvanceStateRequest
  <2> QED
    BY <2>1, <2>2
<1>12. CASE InspectStateRequest(c)
  <2>1. Receives(c, "InspectState")
    BY <1>12 DEF InspectStateRequest
  <2>2. CASE Refuses(c)
    BY <1>5, <2>1, <2>2
  <2>3. CASE ~Refuses(c)
    <3>1. session = "sound" /\ query = None /\ UNCHANGED <<waiting, session, inputs>>
      BY <1>12, <2>3 DEF InspectStateRequest
    <3>2. CASE /\ inputs > 0 /\ query' = c /\ UNCHANGED crashed
               /\ Resume(c, Succeeded(c, "asleep"), {NewSlot}, None)
      <4>1. /\ Tagged' /\ Waits' /\ Except({c}) /\ Idle(c)
            /\ Is(c, "InspectState", "asleep")' /\ co'[c].peer = None /\ tags'[c] = 0
        BY <1>7, <2>1, <3>1, <3>2
      <4>2. Worked'
        BY <3>1, <3>2, <4>1, QueryWaits
      <4> QED
        BY <1>1, <3>2, <4>1, <4>2 DEF Earned
    <3>3. CASE /\ inputs = 0 /\ query' = Null /\ TestsEntry
               /\ Resume(c, Succeeded(c, "triggering"), {NewSlot, c}, None)
      <4>1. /\ Tagged' /\ Waits' /\ Except({c}) /\ Idle(c)
            /\ Is(c, "InspectState", "triggering")' /\ co'[c].peer = None
            /\ \A s \in Slots : co[s].at = "parked" => co'[s].at = "parked"
        BY <1>7, <2>1, <3>1, <3>3
      <4>2. Worked'
        BY <3>1, <3>3, <4>1, QueryTakenUp
      <4>3. ~crashed'
        BY <2>1, <3>3, <4>1, <4>2, EntryTested DEF Is, AtServer, Receives
      <4> QED
        BY <4>1, <4>2, <4>3 DEF Earned
    <3>4. CASE /\ inputs = 0 /\ query' = None /\ UNCHANGED crashed
               /\ Resume(c, Succeeded(c, "acking"), {NewSlot, c}, None)
      <4>1. /\ Tagged' /\ Waits' /\ Except({c}) /\ Idle(c)
            /\ Is(c, "InspectState", "acking")' /\ co'[c].peer = None
        BY <1>7, <2>1, <3>1, <3>4
      <4>2. Worked'
        BY <3>1, <3>4, <4>1, QueryTakenUp
      <4> QED
        BY <1>1, <3>4, <4>1, <4>2 DEF Earned
    <3> QED
      BY <1>12, <2>3, <3>2, <3>3, <3>4 DEF InspectStateRequest
  <2> QED
    BY <2>2, <2>3
<1>13. CASE CheckInRequest(c)
  <2>1. CASE Answers(c)
    BY <1>4, <1>13, <2>1 DEF CheckInRequest
  <2>2. CASE ~Answers(c)
    <3>1. /\ Receives(c, "CheckIn") /\ waiting # None
          /\ Resume(c, [Cancelled EXCEPT ![c].at = "acking",
                                         ![c].peer = waiting.coroutine,
                                         ![NewSlot] = Listener("CheckIn")],
                    {NewSlot, c}, None)
          /\ waiting' = [waiting EXCEPT !.status = TRUE]
          /\ UNCHANGED <<sessionVars, crashed>>
      BY <1>13, <2>2 DEF CheckInRequest
    <3>2. PICK n \in Slots :
            /\ n # c /\ co[n] = Free /\ co[c] = Listener("CheckIn")
            /\ \A s \in Slots : s \notin {c, n} => co'[s] = Cancelled[s]
            /\ co'[c] = Coroutine("CheckIn", "acking", waiting.coroutine)
            /\ co'[n] = Listener("CheckIn")
            /\ tags[c] > 0
            /\ \A s \in Addresses :
                  tags'[s] = (tags[s] - Times(s = c)) + Times(s \in {n, c})
      BY <1>1, <3>1, CheckInAccepts
    <3>3. /\ Is(n, None, "free") /\ Is(c, "CheckIn", "listening")
          /\ Is(c, "CheckIn", "acking")' /\ Is(n, "CheckIn", "listening")'
          /\ co[n].peer = None /\ co[c].peer = None
          /\ co'[n].peer = None /\ co'[c].peer = waiting.coroutine
      BY <3>2 DEF Is, Free, Listener, Coroutine
    <3>4. /\ \A s \in Slots : s # n => tags'[s] = tags[s]
          /\ tags'[n] = 1 /\ tags'[Null] = 0
      <4>1. tags[n] = 0 /\ tags[c] = 1 /\ tags[Null] = 0
        BY <1>1, <3>2, <3>3 DEF Tagged, Is, Sleeps
      <4>2. /\ Slots \subseteq Addresses /\ Null \in Addresses /\ Null \notin Slots
            /\ \A s \in Addresses : tags[s] \in Nat
        BY <1>1 DEF Addresses, Slots, Null, Base
      <4>3. \A s \in Slots : s \notin {c, n} => tags'[s] = (tags[s] - 0) + 0
        BY <3>2, <4>2 DEF Times
      <4>4. tags'[n] = (tags[n] - 0) + 1 /\ tags'[c] = (tags[c] - 1) + 1
        BY <3>2, <4>2 DEF Times
      <4>5. tags'[Null] = (tags[Null] - 0) + 0
        BY <3>2, <4>2 DEF Times
      <4> QED
        BY <4>1, <4>2, <4>3, <4>4, <4>5
    <3>5. \A s \in Slots \ {c, n} :
            \/ co'[s] = co[s] /\ (s = waiting.alarm => co[s].at # "alarm")
            \/ /\ Is(s, "CheckinDeadline", "cancelled")' /\ co'[s].peer = None
               /\ co[s].at = "alarm" /\ s = waiting.alarm
      <4>1. KindsInPlace
        BY <1>1, Kinds
      <4>2. \A s \in Slots :
              \/ Cancelled[s] = co[s] /\ (s = waiting.alarm => co[s].at # "alarm")
              \/ /\ co[s].at = "alarm" /\ s = waiting.alarm
                 /\ Cancelled[s] = Coroutine("CheckinDeadline", "cancelled", None)
        <5>1. waiting.alarm \in Slots
          BY <1>1, <3>1 DEF Base, RestTyped
        <5>2. co[waiting.alarm].at = "alarm" => Cancelled[waiting.alarm] # co[waiting.alarm]
          BY <1>1, <3>1, <5>1 DEF Cancelled, Base, Legal
        <5> QED
          BY <1>1, <5>2, CancelledLegal
      <4> QED
        BY <3>2, <4>2 DEF Is, Coroutine
    <3>6. Tagged'
      BY <1>1, <3>3, <3>4, <3>5 DEF Tagged, Is, Sleeps
    <3>7. Waits'
      <4>1. /\ waiting' # None /\ waiting'.status
            /\ waiting'.coroutine = waiting.coroutine /\ waiting'.alarm = waiting.alarm
            /\ waiting.coroutine \in Slots /\ waiting.alarm \in Slots
        BY <1>1, <3>1, DispatchAssumption DEF Base, RestTyped
      <4>2. Accepted(c)' /\ Orderly'
        BY <3>3, <4>1, DispatchAssumption DEF Accepted, Is, Tidy, Addresses
      <4>3. \A s \in Slots : co'[s].at \notin {"alarm", "fired"}
        <5>1. \A s \in Slots : co'[s].at # "fired"
          BY <4>2 DEF Orderly
        <5>2. \A s \in Slots : co'[s].at = "alarm" => FALSE
          BY <1>1, <3>3, <3>5 DEF Waits, Is
        <5> QED
          BY <5>1, <5>2
      <4>4. \A s \in Slots : Accepted(s)' => s = c
        BY <4>2 DEF Orderly
      <4>5. \A s \in Slots : co'[s].at = "parked" <=> co[s].at = "parked"
        BY <3>3, <3>5 DEF Is
      <4>6. \A s \in Slots : Accepted(s)' =>
                waiting' # None /\ waiting'.status /\ co'[s].peer = waiting'.coroutine
        BY <3>3, <4>1, <4>4
      <4>7. /\ co[waiting.coroutine].at = "parked"
            /\ \A s \in Slots : co[s].at = "parked" => s = waiting.coroutine
        BY <1>1, <3>1 DEF Waits
      <4> QED
        BY <4>1, <4>2, <4>3, <4>5, <4>6, <4>7 DEF Waits
    <3>8. Except({})
      <4>1. \A s \in Slots : Is(s, "CheckinDeadline", "cancelled")' => Idle(s)'
        BY DEF Is, Idle
      <4>2. \A s \in Slots : co[s].at = "alarm" => Idle(s)
        BY <1>1, Kinds DEF KindsInPlace, Fits, Idle
      <4>3. Idle(c) /\ Idle(n) /\ Idle(c)' /\ Idle(n)'
        BY <3>3, DispatchAssumption DEF Is, Idle, AllRpcs
      <4> QED
        BY <3>4, <3>5, <4>1, <4>2, <4>3 DEF Except
    <3>9. Worked'
      BY <3>1, <3>8, NobodyWorks
    <3> QED
      BY <1>1, <3>1, <3>6, <3>7, <3>9 DEF Earned
  <2> QED
    BY <2>1, <2>2
<1> QED
  BY <1>3, <1>6, <1>8, <1>9, <1>10, <1>11, <1>12, <1>13

\* The turn of c in which w runs: w is c, or c calls w, which waited for a check-in.
Turn(c, w, before) ==
    \/ w = c /\ before = co /\ waiting' = waiting /\ Quiet(c)
    \/ /\ before = Cancelled /\ waiting # None /\ waiting.coroutine = w /\ waiting' = None
       /\ Accepted(c) \/ co[c].at = "fired"

\* After it, w is suspended at at and keeps peer, and scheduled is in the queue.
Does(w, at, peer, scheduled) ==
    /\ Tagged' /\ Waits'
    /\ at # "finished" => /\ co'[w].kind = co[w].kind /\ co'[w].at = at
                         /\ co'[w].peer = peer
    /\ at \in {"finished", "refusing"} => Idle(w)'
    /\ scheduled \in {None, w} => Except({w})
    /\ scheduled \in Slots => Except({w, scheduled}) /\ tags'[scheduled] = 1
    /\ scheduled # w => /\ at \in {"asleep", "leaving"} => tags'[w] = 0
                        /\ scheduled \in Slots => co'[scheduled] = co[scheduled]
    /\ \A s \in Slots \ {w} : co[s].at = "parked" => co'[s].at = "parked"

\* What Moved is.
LEMMA MovedIs ==
    ASSUME Base, NEW w \in Slots, NEW at
    PROVE  Moved(w, at) = Coroutine(co[w].kind, at, co[w].peer)
<1>1. co[w] = [kind |-> co[w].kind, at |-> co[w].at, peer |-> co[w].peer]
  BY LegalFits DEF Base
<1> QED
  BY <1>1 DEF Moved, Coroutine

\* A turn leaves the contract of the dispatch loop and the wait for a check-in in
\* order, and changes nothing for those who do not run.
LEMMA TurnDoes ==
    ASSUME Tidy, NEW c \in Slots, NEW w \in Slots, NEW before, Turn(c, w, before),
           NEW at \in {"refusing", "acking", "triggering", "calling", "asleep", "leaving",
                       "finished"},
           NEW peer, NEW armed, NEW scheduled,
           Runs(c, w, before, Coroutine(co[w].kind, at, peer), armed, scheduled),
           armed = IF at \in {"asleep", "leaving", "finished"} THEN {} ELSE {w},
           co[w].kind = "CheckIn" => at = "finished",
           \/ scheduled = None
           \/ scheduled \in Slots /\ scheduled # w /\ Sleeps(scheduled) /\ tags[scheduled] = 0
           \/ scheduled = w /\ at \in {"asleep", "leaving"}
    PROVE  Does(w, at, peer, scheduled)
<1> DEFINE x == Coroutine(co[w].kind, at, peer)
<1>1. x.kind = co[w].kind /\ x.at = at /\ x.peer = peer
  BY DEF Coroutine
<1>2. /\ Base /\ KindsInPlace /\ None \notin Slots /\ None \notin AllRpcs /\ Waits
  BY Kinds, DispatchAssumption DEF Tidy, Addresses, Earned
<1>3. /\ x.at \in (Armed \cup Asleep \cup {"finished"}) \ {"alarm", "fired"}
      /\ armed = IF x.at \in Armed THEN {w} ELSE {}
      /\ x.at = "finished" => x.at \notin Armed \cup Asleep
      /\ x.at \in {"asleep", "leaving"} <=> x.at \in Asleep
      /\ at \in {"asleep", "leaving"} => at \notin Armed
  BY <1>1 DEF Armed, Asleep
<1>4. Is(w, None, "free")' => Idle(w)'
  BY <1>2 DEF Is, Idle, AllRpcs
<1>5. co'[w].at = at /\ at \in {"finished", "refusing"} => Idle(w)'
  BY DEF Idle
<1> HIDE DEF x
<1>6. CASE w = c /\ before = co /\ waiting' = waiting /\ Quiet(c)
  <2>1. Runs(c, c, co, x, armed, scheduled)
    BY <1>6 DEF x
  <2>2. /\ Tagged' /\ Waits'
        /\ \A s \in Slots : /\ s # c => co'[s] = co[s]
                            /\ s \notin {c, scheduled} => tags'[s] = tags[s]
        /\ x.at # "finished" => co'[c] = x
        /\ x.at = "finished" => co'[c] = Free
        /\ scheduled \in Slots => tags'[scheduled] = 1
        /\ scheduled # c => tags'[c] = IF x.at \in Armed THEN 1 ELSE 0
    BY <1>1, <1>3, <1>6, <2>1, TidyAlone
  <2>3. at # "finished" => /\ co'[w].kind = co[w].kind /\ co'[w].at = at
                             /\ co'[w].peer = peer
    BY <1>1, <1>6, <2>2
  <2>4. at = "finished" => Is(w, None, "free")'
    BY <1>1, <1>6, <2>2 DEF Is, Free, Coroutine
  <2>5. /\ scheduled \in {None, w} => Except({w})
        /\ scheduled \in Slots => Except({w, scheduled})
    BY <1>2, <1>6, <2>2 DEF Except
  <2> QED
    BY <1>1, <1>3, <1>4, <1>5, <1>6, <2>2, <2>3, <2>4, <2>5 DEF Does
<1>7. CASE /\ before = Cancelled /\ waiting # None /\ waiting.coroutine = w /\ waiting' = None
           /\ Accepted(c) \/ co[c].at = "fired"
  <2>1. Runs(c, w, Cancelled, x, armed, scheduled)
    BY <1>7 DEF x
  <2>2. co[w].kind # "CheckIn" /\ co[c].at # "parked"
    BY <1>2, <1>7 DEF Waits, KindsInPlace, Fits, Accepted
  <2>3. /\ Tagged' /\ Waits' /\ Idle(c) /\ Idle(c)' /\ w # c
        /\ \A s \in Slots : /\ s \notin {c, w} => co'[s] = co[s]
                            /\ s \notin {c, w, scheduled} => tags'[s] = tags[s]
        /\ co'[w] = x
        /\ scheduled \in Slots => tags'[scheduled] = 1
        /\ scheduled # w => tags'[w] = IF x.at \in Armed THEN 1 ELSE 0
    BY <1>1, <1>3, <1>7, <2>1, <2>2, TidyCalled
  <2>4. co'[w].kind = co[w].kind /\ co'[w].at = at /\ co'[w].peer = peer
    BY <1>1, <2>3
  <2>5. /\ scheduled \in {None, w} => Except({w})
        /\ scheduled \in Slots => Except({w, scheduled})
    BY <1>2, <2>3 DEF Except
  <2>6. scheduled \in Slots /\ scheduled # w => scheduled # c
    <3>1. ~Sleeps(c)
      BY <1>2, <1>7 DEF KindsInPlace, Fits, Accepted, Sleeps
    <3> QED
      BY <1>2, <3>1
  <2> QED
    BY <1>1, <1>3, <1>5, <2>2, <2>3, <2>4, <2>5, <2>6 DEF Does
<1> QED
  BY <1>6, <1>7 DEF Turn

\* A handler gives up, in its own turn or called after the deadline.
LEMMA GivesUp ==
    ASSUME Tidy, NEW c \in Slots, NEW w \in Slots, NEW before, Turn(c, w, before),
           co[w].at \in AtServer \/ Is(w, "AdvanceState", "acking"),
           \/ AnswerFails(c, w, before)
           \/ InspectStateFails(c, w, before, co[w].peer)
           \/ AdvanceStateFails(c, w, before)
    PROVE  Earned'
<1>1. /\ Base /\ ~crashed /\ Worked /\ KindsInPlace
      /\ None \notin Slots /\ Null # None
  BY Kinds, DispatchAssumption DEF Tidy, Earned, Addresses
<1>2. CASE AnswerFails(c, w, before)
  <2>1. /\ co[w].kind \in {"StartSession", "FinishEpoch", "EndSession"}
        /\ Runs(c, w, before, Coroutine(co[w].kind, "refusing", co[w].peer), {w}, None)
        /\ session' = (IF co[w].kind = "StartSession" THEN "absent" ELSE session)
        /\ UNCHANGED <<inputs, query, crashed>> /\ co[w].at \in AtServer
    BY <1>1, <1>2, MovedIs DEF AnswerFails, Is
  <2>2. Does(w, "refusing", co[w].peer, None)
    BY <2>1, TurnDoes
  <2>3. Worked'
    BY <2>1, <2>2, AnswerGivenUp DEF Does
  <2> QED
    BY <1>1, <2>1, <2>2, <2>3 DEF Does, Earned
<1>3. CASE InspectStateFails(c, w, before, co[w].peer)
  <2> DEFINE p == co[w].peer
  <2>1. /\ co[w].kind = "InspectState"
        /\ Runs(c, w, before, Coroutine("InspectState", "refusing", None), {w},
                IF p = Null THEN None ELSE p)
        /\ session' = Tainted /\ UNCHANGED <<inputs, query, crashed>> /\ Inspects(w)
    BY <1>3 DEF InspectStateFails, Is, Inspects
  <2>2. p # None => p \in Slots /\ p # w /\ Lent(p) /\ p # Null
    BY <1>1, <2>1 DEF Worked, Handed, Heard, Lent, Slots, Null
  <2>3. p # None => Sleeps(p) /\ tags[p] = 0
    BY <2>2 DEF Lent, Sleeps
  <2>4. Runs(c, w, before, Coroutine(co[w].kind, "refusing", None), {w}, p)
    BY <1>1, <2>1, <2>2
  <2>5. Does(w, "refusing", None, p)
    BY <2>1, <2>2, <2>3, <2>4, TurnDoes
  <2>6. CASE p = None
    <3>1. Worked'
      BY <2>1, <2>5, <2>6, FirstQueryGivenUp DEF Does
    <3> QED
      BY <1>1, <2>1, <2>5, <3>1 DEF Does, Earned
  <2>7. CASE p # None
    <3>1. Worked'
      BY <2>1, <2>2, <2>5, <2>7, QueryGivenUp DEF Does
    <3> QED
      BY <1>1, <2>1, <2>5, <3>1 DEF Does, Earned
  <2> QED
    BY <2>6, <2>7
<1>4. CASE AdvanceStateFails(c, w, before)
  <2>1. /\ co[w].kind = "AdvanceState" /\ session' = Tainted
        /\ co[w].at \in AtServer \cup {"acking"} /\ UNCHANGED <<inputs, crashed>>
    BY <1>4 DEF AdvanceStateFails, Is
  <2>2. CASE query = None
    <3>1. /\ Runs(c, w, before, Coroutine(co[w].kind, "finished", co[w].peer), {}, None)
          /\ query' = query
      BY <1>1, <1>4, <2>2, MovedIs DEF AdvanceStateFails
    <3>2. Does(w, "finished", co[w].peer, None)
      BY <2>1, <3>1, TurnDoes
    <3>3. Worked'
      BY <2>1, <2>2, <3>1, <3>2, AdvanceGivenUp DEF Does
    <3> QED
      BY <1>1, <2>1, <3>2, <3>3 DEF Does, Earned
  <2>3. CASE query # None
    <3>1. /\ Runs(c, w, before, Coroutine(co[w].kind, "leaving", co[w].peer), {}, query)
          /\ query' = w
      BY <1>1, <1>4, <2>3, MovedIs DEF AdvanceStateFails
    <3>2. Advances(w)
      BY <1>1, <2>1, <2>3 DEF Worked, Handed, Pending, Advances
    <3>3. query = w \/ (query \in Slots /\ Queued(query) /\ tags[query] = 0)
      BY <1>1, <2>3, <3>2 DEF Worked, Locked, Handed, Pending
    <3>4. CASE query = w
      <4>1. Does(w, "leaving", co[w].peer, query)
        BY <2>1, <3>1, <3>4, TurnDoes
      <4>2. Worked'
        BY <2>1, <3>1, <3>2, <3>4, <4>1, GivenUpAndKept DEF Does, Is
      <4> QED
        BY <1>1, <2>1, <4>1, <4>2 DEF Does, Earned
    <3>5. CASE query \in Slots /\ Queued(query) /\ tags[query] = 0
      <4>1. query # w /\ Sleeps(query)
        BY <2>1, <3>5 DEF Queued, Sleeps
      <4>2. Does(w, "leaving", co[w].peer, query)
        BY <2>1, <3>1, <3>5, <4>1, TurnDoes
      <4>3. PICK p \in Slots : p = query
        BY <3>5
      <4>4. Except({w, p}) /\ tags'[p] = 1 /\ co'[p] = co[p] /\ tags'[w] = 0
            /\ Is(w, "AdvanceState", "leaving")'
        BY <2>1, <3>5, <4>1, <4>2, <4>3 DEF Does, Is
      <4>5. Worked'
        BY <2>1, <3>1, <3>2, <4>1, <4>3, <4>4, GivenUpAndLent
      <4> QED
        BY <1>1, <2>1, <4>2, <4>5 DEF Does, Earned
    <3> QED
      BY <3>3, <3>4, <3>5
  <2> QED
    BY <2>2, <2>3
<1> QED
  BY <1>2, <1>3, <1>4

\* Work, answers and alarms.
LEMMA EarnedWork ==
    ASSUME Tidy, NEW c \in Slots,
           \/ Triggered(c) \/ CallsAgain(c) \/ CallFails(c) \/ LastCallAnswered(c)
           \/ InputProcessed(c) \/ AdvanceStateAwake(c) \/ InspectStateAwake(c)
           \/ AdvanceStateAcked(c) \/ ResponseDelivered(c) \/ CheckInAcked(c)
           \/ AlarmGoesOff(c) \/ DeadlineExpired(c) \/ DeadlineCancelled(c)
    PROVE  Earned'
<1>1. /\ Base /\ ~crashed /\ Tagged /\ Waits /\ Worked /\ KindsInPlace
      /\ None \notin Slots /\ None # Null /\ None \notin AllRpcs
  BY Kinds, MovedIs, DispatchAssumption DEF Tidy, Earned, Addresses
<1>2. ASSUME co[c].at \notin {"parked", "alarm", "fired"}, co[c].kind # "CheckIn",
             waiting' = waiting
      PROVE  Turn(c, c, co)
  BY <1>2 DEF Turn, Quiet, Accepted
<1>3. ASSUME NEW at, NEW armed, NEW scheduled, Runs(c, c, co, Moved(c, at), armed, scheduled)
      PROVE  Runs(c, c, co, Coroutine(co[c].kind, at, co[c].peer), armed, scheduled)
  BY <1>1, <1>3, MovedIs
<1>4. CASE Triggered(c)
  <2>1. /\ co[c].at = "triggering" /\ waiting' = Entry(c, NewSlot)
        /\ UNCHANGED <<sessionVars, crashed>>
    BY <1>4 DEF Triggered
  <2>2. waiting = None
    BY <1>1, <2>1 DEF Waits, Worked, Locked, AtServer, Base, RestTyped
  <2>3. Cancelled = co
    BY <2>2 DEF Cancelled
  <2>4. PICK n \in Slots :
          /\ n = NewSlot /\ n # c /\ co[n] = Free
          /\ \A s \in Slots : s \notin {c, n} => co'[s] = co[s]
          /\ co'[c] = Coroutine(co[c].kind, "parked", co[c].peer)
          /\ co'[n] = Deadline /\ tags[c] > 0
          /\ \A s \in Addresses : tags'[s] = (tags[s] - Times(s = c)) + Times(s = n)
    BY <1>1, <1>4, <2>3, TriggeredParks
  <2>5. /\ Is(n, None, "free") /\ co[n].peer = None
        /\ Is(n, "CheckinDeadline", "alarm")' /\ co'[n].peer = None
        /\ co'[c].kind = co[c].kind /\ co'[c].at = "parked" /\ co'[c].peer = co[c].peer
    BY <2>4 DEF Is, Free, Deadline, Coroutine
  <2>6. /\ \A s \in Slots : s \notin {c, n} => tags'[s] = tags[s]
        /\ tags'[n] = 1 /\ tags'[c] = 0 /\ tags'[Null] = 0
    <3>1. tags[n] = 0 /\ tags[c] = 1 /\ tags[Null] = 0
      BY <1>1, <2>1, <2>5 DEF Tagged, Is, Sleeps
    <3>2. /\ Slots \subseteq Addresses /\ Null \in Addresses /\ Null \notin Slots
          /\ \A s \in Addresses : tags[s] \in Nat
      BY <1>1 DEF Addresses, Slots, Null, Base
    <3>3. \A s \in Slots : s \notin {c, n} => tags'[s] = (tags[s] - 0) + 0
      BY <2>4, <3>2 DEF Times
    <3>4. tags'[n] = (tags[n] - 0) + 1 /\ tags'[c] = (tags[c] - 1) + 0
      BY <2>4, <3>2 DEF Times
    <3>5. tags'[Null] = (tags[Null] - 0) + 0
      BY <2>4, <3>2 DEF Times
    <3> QED
      BY <3>1, <3>2, <3>3, <3>4, <3>5
  <2>7. Tagged'
    BY <1>1, <2>4, <2>5, <2>6 DEF Tagged, Is, Sleeps
  <2>8. Except({c})
    BY <1>1, <2>4, <2>5, <2>6 DEF Except, Idle, Is, AllRpcs
  <2>9. Worked'
    BY <2>1, <2>5, <2>8, StaysAtServer DEF AtServer
  <2>10. Waits'
    <3>1. waiting' # None /\ waiting'.coroutine = c /\ waiting'.alarm = n /\ ~waiting'.status
      <4>1. Entry(c, n) \in [coroutine : Slots, alarm : Slots, status : BOOLEAN]
        BY DEF Entry
      <4>2. waiting' = Entry(c, n)
        BY <2>1, <2>4
      <4> QED
        BY <4>1, <4>2, DispatchAssumption DEF Entry
    <3>2. \A s \in Slots : Quiet(s)
      BY <1>1, <2>2 DEF Waits, Quiet
    <3>3. co[c].kind # "CheckIn"
      BY <1>1, <2>1 DEF KindsInPlace, Fits
    <3> QED
      BY <2>4, <2>5, <3>1, <3>2, <3>3 DEF Waits, Quiet, Accepted, Is
  <2> QED
    BY <1>1, <2>1, <2>7, <2>9, <2>10 DEF Earned
<1>5. CASE CallsAgain(c)
  <2>1. /\ co[c].at = "calling" /\ co[c].kind # "CheckIn"
        /\ UNCHANGED <<waiting, sessionVars>>
    BY <1>1, <1>5 DEF CallsAgain, KindsInPlace, Fits
  <2>2. CASE Runs(c, c, co, Moved(c, "calling"), {c}, None) /\ UNCHANGED crashed
    <3>1. Does(c, "calling", co[c].peer, None)
      BY <1>2, <1>3, <2>1, <2>2, TurnDoes
    <3>2. Worked'
      BY <2>1, <3>1, StaysAtServer DEF Does, AtServer
    <3> QED
      BY <1>1, <2>2, <3>1, <3>2 DEF Earned, Does
  <2>3. CASE TestsEntry /\ Runs(c, c, co, Moved(c, "triggering"), {c}, None)
    <3>1. Does(c, "triggering", co[c].peer, None)
      BY <1>2, <1>3, <2>1, <2>3, TurnDoes
    <3>2. Worked'
      BY <2>1, <3>1, StaysAtServer DEF Does, AtServer
    <3>3. ~crashed'
      BY <2>1, <2>3, <3>1, <3>2, EntryTested DEF Does, AtServer
    <3> QED
      BY <3>1, <3>2, <3>3 DEF Earned, Does
  <2> QED
    BY <1>5, <2>2, <2>3 DEF CallsAgain
<1>6. CASE CallFails(c)
  <2>1. co[c].at \in {"triggering", "calling"} /\ waiting' = waiting
    BY <1>6 DEF CallFails
  <2>2. co[c].kind # "CheckIn"
    BY <1>1, <2>1 DEF KindsInPlace, Fits
  <2>3. Turn(c, c, co)
    BY <1>2, <2>1, <2>2
  <2> QED
    BY <1>6, <2>1, <2>3, GivesUp DEF CallFails, AtServer
<1>7. CASE LastCallAnswered(c)
  <2>1. co[c].at = "calling" /\ UNCHANGED <<waiting, crashed>>
    BY <1>7 DEF LastCallAnswered
  <2>2. ASSUME NEW kind \in {"StartSession", "EndSession"}, co[c].kind = kind,
               Runs(c, c, co, Moved(c, "acking"), {c}, None), UNCHANGED <<inputs, query>>,
               session' = IF kind = "StartSession" THEN session ELSE "absent"
        PROVE  Earned'
    <3>1. Does(c, "acking", co[c].peer, None)
      BY <1>2, <1>3, <2>1, <2>2, TurnDoes
    <3>2. Worked'
      BY <2>1, <2>2, <3>1, SessionAnswered DEF Does, Is
    <3> QED
      BY <1>1, <2>1, <3>1, <3>2 DEF Earned, Does
  <2>3. CASE /\ co[c].kind = "FinishEpoch"
             /\ Runs(c, c, NewEpoch(co), Moved(c, "acking"), {c}, None)
             /\ inputs' = 0 /\ query' = None /\ UNCHANGED session
    <3> DEFINE x == Coroutine(co[c].kind, "acking", co[c].peer)
    <3>1. /\ served \in RpcSets /\ co = [s \in Slots |-> co[s]]
          /\ \A s \in Slots : co[s] \in Legal(served)
      BY <1>1 DEF Base
    <3>2. /\ NewEpoch(co) \in [Slots -> Legal(served)]
          /\ \A s \in Slots :
                \/ NewEpoch(co)[s] = co[s]
                \/ /\ Is(s, "AdvanceState", "asleep")
                   /\ NewEpoch(co)[s] = Coroutine("AdvanceState", "stale", None)
      <4>1. /\ \A s \in Slots : NewEpoch(co)[s] \in Legal(served)
            /\ NewEpoch(co) = [s \in Slots |-> NewEpoch(co)[s]]
        BY <3>1, NewEpochLegal
      <4>2. NewEpoch(co) \in [Slots -> Legal(served)]
        BY <4>1
      <4> QED
        BY <3>1, <4>2, NewEpochLegal DEF Is
    <3>3. Runs(c, c, NewEpoch(co), x, {c}, None) /\ x.at # "finished"
      BY <1>1, <2>3, MovedIs DEF Coroutine
    <3> HIDE DEF x
    <3>4. /\ \A s \in Slots : s # c => co'[s] = NewEpoch(co)[s]
          /\ co'[c] = x /\ tags[c] > 0
          /\ \A s \in Addresses : tags'[s] = (tags[s] - Times(s = c)) + Times(s \in {c})
                                                + Times(s = None)
      BY <1>1, <3>2, <3>3, Ran
    <3>5. co'[c].kind = "FinishEpoch" /\ co'[c].at = "acking" /\ co'[c].peer = co[c].peer
      BY <2>3, <3>4 DEF x, Coroutine
    <3>6. \A s \in Addresses : tags'[s] = tags[s]
      <4>1. None \notin Addresses /\ \A s \in Addresses : tags[s] \in Nat
        BY <1>1, DispatchAssumption DEF Base
      <4>2. \A s \in Addresses : s # c => tags'[s] = (tags[s] - 0) + 0 + 0
        BY <3>4, <4>1 DEF Times
      <4>3. c \in Addresses => tags'[c] = (tags[c] - 1) + 1 + 0
        BY <3>4, <4>1 DEF Times
      <4> QED
        BY <4>1, <4>2, <4>3
    <3>7. Slots \subseteq Addresses /\ Null \in Addresses
      BY DEF Addresses
    <3>8. \A s \in Slots \ {c} :
            \/ co'[s] = co[s]
            \/ Is(s, "AdvanceState", "asleep") /\ Is(s, "AdvanceState", "stale")'
      BY <3>2, <3>4 DEF Is, Coroutine
    <3>9. Tagged'
      BY <1>1, <2>1, <3>5, <3>6, <3>7, <3>8 DEF Tagged, Is, Sleeps
    <3>10. \A s \in Slots : co'[s] = co[s] \/ (Quiet(s) /\ Quiet(s)')
      BY <2>1, <2>3, <3>5, <3>8 DEF Is, Quiet, Accepted
    <3>11. Waits'
      BY <1>1, <2>1, <3>10, WaitsKept
    <3>12. Worked'
      BY <2>1, <2>3, <3>4, <3>5, <3>6, <3>7, EpochEnds DEF Is
    <3> QED
      BY <1>1, <2>1, <3>9, <3>11, <3>12 DEF Earned
  <2> QED
    BY <1>7, <2>2, <2>3 DEF LastCallAnswered, sessionVars
<1>8. CASE InputProcessed(c)
  <2>1. /\ co[c].kind = "AdvanceState" /\ co[c].at = "calling" /\ inputs > 0
        /\ inputs' = inputs - 1 /\ UNCHANGED <<waiting, session>>
        /\ Advances(c) /\ inputs \in Nat
    BY <1>1, <1>8 DEF InputProcessed, Advances, AtServer, Base, RestTyped
  <2>2. Turn(c, c, co)
    BY <1>2, <2>1
  <2>3. CASE /\ query # None /\ query' = c
             /\ Runs(c, c, co, Moved(c, "asleep"), {}, query) /\ UNCHANGED crashed
    <3>1. query = c \/ (query \in Slots /\ Queued(query) /\ tags[query] = 0)
      BY <1>1, <2>1, <2>3 DEF Worked, Handed, Pending
    <3>2. CASE query = c
      <4>1. Does(c, "asleep", co[c].peer, query)
        BY <1>3, <2>1, <2>2, <2>3, <3>2, TurnDoes
      <4>2. Worked'
        BY <2>1, <2>3, <3>2, <4>1, TurnKept DEF Does, Is
      <4> QED
        BY <1>1, <2>3, <4>1, <4>2 DEF Earned, Does
    <3>3. CASE query \in Slots /\ Queued(query) /\ tags[query] = 0
      <4>1. query # c /\ Sleeps(query)
        BY <2>1, <3>3 DEF Queued, Sleeps
      <4>2. Does(c, "asleep", co[c].peer, query)
        BY <1>3, <2>1, <2>2, <2>3, <3>3, <4>1, TurnDoes
      <4>3. PICK p \in Slots : p = query
        BY <3>3
      <4>4. /\ Except({c, p}) /\ tags'[p] = 1 /\ co'[p] = co[p] /\ tags'[c] = 0
            /\ Is(c, "AdvanceState", "asleep")'
        BY <2>1, <3>3, <4>1, <4>2, <4>3 DEF Does, Is
      <4>5. Worked'
        BY <2>1, <2>3, <4>1, <4>3, <4>4, TurnLent
      <4> QED
        BY <1>1, <2>3, <4>2, <4>5 DEF Earned, Does
    <3> QED
      BY <3>1, <3>2, <3>3
  <2>4. CASE /\ query = None /\ inputs = 1
             /\ Runs(c, c, co, Moved(c, "finished"), {}, None)
             /\ UNCHANGED <<query, crashed>>
    <3>1. Does(c, "finished", co[c].peer, None)
      BY <1>3, <2>1, <2>2, <2>4, TurnDoes
    <3>2. Worked'
      BY <2>1, <2>4, <3>1, LastInputProcessed DEF Does, Is
    <3> QED
      BY <1>1, <2>4, <3>1, <3>2 DEF Earned, Does
  <2>5. CASE /\ query = None /\ inputs > 1 /\ TestsEntry
             /\ Runs(c, c, co, Moved(c, "triggering"), {c}, None) /\ UNCHANGED query
    <3>1. Does(c, "triggering", co[c].peer, None)
      BY <1>3, <2>1, <2>2, <2>5, TurnDoes
    <3>2. Worked'
      BY <2>1, <2>5, <3>1, InputTakenUp DEF Does, Is
    <3>3. ~crashed'
      BY <2>1, <2>5, <3>1, <3>2, EntryTested DEF Does, AtServer
    <3> QED
      BY <3>1, <3>2, <3>3 DEF Earned, Does
  <2> QED
    BY <1>8, <2>3, <2>4, <2>5 DEF InputProcessed
<1>9. CASE AdvanceStateAwake(c)
  <2>1. /\ co[c].kind = "AdvanceState" /\ co[c].at \in {"asleep", "stale", "leaving"}
        /\ UNCHANGED <<waiting, sessionVars>>
    BY <1>9 DEF AdvanceStateAwake
  <2>2. Turn(c, c, co)
    BY <1>2, <2>1
  <2>3. tags[c] = 1
    BY <1>1, <1>9, <2>1 DEF AdvanceStateAwake, Runs, Resume, Tagged, Sleeps
  <2>4. CASE /\ co[c].at = "asleep" /\ inputs > 0 /\ TestsEntry
             /\ Runs(c, c, co, Moved(c, "triggering"), {c}, None)
    <3>1. Does(c, "triggering", co[c].peer, None)
      BY <1>3, <2>1, <2>2, <2>4, TurnDoes
    <3>2. Worked'
      BY <2>1, <2>3, <2>4, <3>1, InputTakenUp DEF Does, Is, sessionVars
    <3>3. ~crashed'
      BY <2>1, <2>4, <3>1, <3>2, EntryTested DEF Does, AtServer
    <3> QED
      BY <3>1, <3>2, <3>3 DEF Earned, Does
  <2>5. CASE /\ (co[c].at = "asleep" => inputs = 0) /\ UNCHANGED crashed
             /\ Runs(c, c, co, Moved(c, "finished"), {}, None)
    <3>1. Does(c, "finished", co[c].peer, None)
      BY <1>3, <2>1, <2>2, <2>5, TurnDoes
    <3>2. Worked'
      BY <2>1, <2>3, <2>5, <3>1, AdvanceReturns DEF Does
    <3> QED
      BY <1>1, <2>5, <3>1, <3>2 DEF Earned, Does
  <2> QED
    BY <1>9, <2>4, <2>5 DEF AdvanceStateAwake
<1>10. CASE InspectStateAwake(c)
  <2>1. co[c].kind = "InspectState" /\ co[c].at = "asleep" /\ waiting' = waiting
    BY <1>10 DEF InspectStateAwake
  <2>2. Turn(c, c, co)
    BY <1>2, <2>1
  <2>3. tags[c] = 1
    BY <1>1, <1>10, <2>1 DEF InspectStateAwake, InspectStateFails, Runs, Resume, Tagged, Sleeps
  <2>4. PICK p \in Slots : p = query /\ Lent(p) /\ Queued(c)
    BY <1>1, <2>1, <2>3 DEF Worked, Handed, Heard, Queued
  <2>5. p # c /\ Sleeps(p) /\ tags[p] = 0 /\ p # Null
    BY <2>1, <2>4 DEF Lent, Sleeps, Slots, Null
  <2>6. CASE InspectStateFails(c, c, co, query)
    <3>1. /\ Runs(c, c, co, Coroutine(co[c].kind, "refusing", None), {c}, p)
          /\ session' = Tainted /\ UNCHANGED <<inputs, query, crashed>>
      BY <2>1, <2>4, <2>5, <2>6 DEF InspectStateFails
    <3>2. Does(c, "refusing", None, p)
      BY <2>1, <2>2, <2>5, <3>1, TurnDoes
    <3>3. Worked'
      BY <2>3, <2>4, <2>5, <3>1, <3>2, QueryGivenUp DEF Does
    <3> QED
      BY <1>1, <3>1, <3>2, <3>3 DEF Earned, Does
  <2>7. CASE /\ TestsEntry /\ UNCHANGED sessionVars
             /\ Runs(c, c, co, Coroutine("InspectState", "triggering", query), {c}, None)
    <3>1. Does(c, "triggering", p, None)
      BY <2>1, <2>2, <2>4, <2>7, TurnDoes
    <3>2. Worked'
      BY <2>1, <2>3, <2>4, <2>7, <3>1, QueryAwake DEF Does, Is, sessionVars
    <3>3. ~crashed'
      BY <2>1, <2>7, <3>1, <3>2, EntryTested DEF Does, AtServer
    <3> QED
      BY <3>1, <3>2, <3>3 DEF Earned, Does
  <2>8. CASE /\ query' = None /\ UNCHANGED <<session, inputs, crashed>>
             /\ Runs(c, c, co, Coroutine("InspectState", "acking", query), {c}, None)
    <3>1. Does(c, "acking", p, None)
      BY <2>1, <2>2, <2>4, <2>8, TurnDoes
    <3>2. Worked'
      BY <2>1, <2>3, <2>4, <2>8, <3>1, QueryAwake DEF Does, Is
    <3> QED
      BY <1>1, <2>8, <3>1, <3>2 DEF Earned, Does
  <2> QED
    BY <1>10, <2>6, <2>7, <2>8 DEF InspectStateAwake
<1>11. CASE AdvanceStateAcked(c)
  <2>1. co[c].kind = "AdvanceState" /\ co[c].at = "acking" /\ waiting' = waiting
    BY <1>11 DEF AdvanceStateAcked
  <2>2. Turn(c, c, co)
    BY <1>2, <2>1
  <2>3. CASE /\ inputs = 1 /\ (\A s \in Slots : ~Processing(s)) /\ TestsEntry
             /\ Runs(c, c, co, Moved(c, "triggering"), {c}, None)
             /\ UNCHANGED <<waiting, sessionVars>>
    <3>1. Does(c, "triggering", co[c].peer, None)
      BY <1>3, <2>1, <2>2, <2>3, TurnDoes
    <3>2. Worked'
      BY <2>1, <2>3, <3>1, InputTakenUp DEF Does, Is, sessionVars
    <3>3. ~crashed'
      BY <2>1, <2>3, <3>1, <3>2, EntryTested DEF Does, AtServer
    <3> QED
      BY <3>1, <3>2, <3>3 DEF Earned, Does
  <2>4. CASE /\ inputs # 1 /\ Runs(c, c, co, Moved(c, "finished"), {}, None)
             /\ UNCHANGED <<waiting, sessionVars, crashed>>
    <3>1. Does(c, "finished", co[c].peer, None)
      BY <1>3, <2>1, <2>2, <2>4, TurnDoes
    <3>2. Worked'
      BY <2>1, <2>4, <3>1, AdvanceReturns DEF Does
    <3> QED
      BY <1>1, <2>4, <3>1, <3>2 DEF Earned, Does
  <2>5. CASE AdvanceStateFails(c, c, co)
    BY <2>1, <2>2, <2>5, GivesUp DEF Is
  <2> QED
    BY <1>11, <2>3, <2>4, <2>5 DEF AdvanceStateAcked
<1>12. CASE ResponseDelivered(c)
  <2>1. /\ \/ co[c].at = "acking" /\ co[c].kind \notin {"AdvanceState", "CheckIn"}
           \/ co[c].at = "refusing"
        /\ UNCHANGED <<waiting, sessionVars, crashed>>
    BY <1>12 DEF ResponseDelivered
  <2>2. Turn(c, c, co)
    <3>1. co[c].kind # "CheckIn"
      BY <1>1, <2>1 DEF KindsInPlace, Fits
    <3> QED
      BY <1>2, <2>1, <3>1
  <2>3. CASE co[c].peer = None
    <3>1. Runs(c, c, co, Moved(c, "finished"), {}, None)
      BY <1>12, <2>3 DEF ResponseDelivered
    <3>2. Does(c, "finished", co[c].peer, None)
      BY <1>3, <2>1, <2>2, <3>1, TurnDoes
    <3>3. CASE co[c].at = "acking"
      <4>1. Worked'
        BY <2>1, <2>3, <3>2, <3>3, HolderLeaves DEF Does
      <4> QED
        BY <1>1, <2>1, <3>2, <4>1 DEF Earned, Does
    <3>4. CASE co[c].at = "refusing"
      <4>1. Except({})
        BY <3>2, <3>4 DEF Does, Except, Idle
      <4>2. Worked'
        BY <2>1, <4>1, NobodyWorks
      <4> QED
        BY <1>1, <2>1, <3>2, <4>2 DEF Earned, Does
    <3> QED
      BY <2>1, <3>3, <3>4
  <2>4. CASE co[c].peer # None
    <3>1. co[c].kind = "InspectState" /\ co[c].at = "acking"
      BY <1>1, <2>1, <2>4 DEF KindsInPlace, Fits, AtServer
    <3>2. PICK p \in Slots : p = co[c].peer /\ Lent(p)
      BY <1>1, <2>4, <3>1 DEF Worked, Handed, Heard
    <3>3. p # c /\ Sleeps(p) /\ tags[p] = 0 /\ p # Null
      BY <3>1, <3>2 DEF Lent, Sleeps, Slots, Null
    <3>4. Runs(c, c, co, Moved(c, "finished"), {}, p)
      BY <1>12, <3>2, <3>3 DEF ResponseDelivered
    <3>5. Does(c, "finished", co[c].peer, p)
      BY <1>3, <2>1, <2>2, <3>1, <3>3, <3>4, TurnDoes
    <3>6. Worked'
      BY <2>1, <3>1, <3>2, <3>3, <3>5, InspectLeaves DEF Does, Is
    <3> QED
      BY <1>1, <2>1, <3>5, <3>6 DEF Earned, Does
  <2> QED
    BY <2>3, <2>4
<1>13. CASE CheckInAcked(c)
  <2>1. co[c].kind = "CheckIn" /\ co[c].at = "acking"
    BY <1>13 DEF CheckInAcked
  <2>2. CASE co[c].peer = None
    <3>1. /\ Runs(c, c, co, Moved(c, "finished"), {}, None)
          /\ UNCHANGED <<waiting, sessionVars, crashed>>
      BY <1>13, <2>2 DEF CheckInAcked
    <3>2. Turn(c, c, co)
      BY <2>1, <2>2, <3>1 DEF Turn, Quiet, Accepted
    <3>3. Does(c, "finished", co[c].peer, None)
      BY <1>3, <3>1, <3>2, TurnDoes
    <3>4. Worked'
      BY <2>1, <3>1, <3>3, HolderLeaves DEF Does
    <3> QED
      BY <1>1, <3>1, <3>3, <3>4 DEF Earned, Does
  <2>3. CASE co[c].peer # None
    <3>1. Accepted(c)
      BY <2>1, <2>3 DEF Accepted
    <3>2. PICK w \in Slots : w = co[c].peer
      BY <1>1, <2>1, <2>3 DEF KindsInPlace, Fits
    <3>3. waiting # None /\ waiting.coroutine = w /\ co[w].at = "parked"
      BY <1>1, <3>1, <3>2 DEF Waits
    <3>4. waiting' = None /\ UNCHANGED crashed
      BY <1>13, <2>3 DEF CheckInAcked
    <3>5. Turn(c, w, Cancelled) /\ co[w].kind # "CheckIn"
      BY <1>1, <3>1, <3>3, <3>4 DEF Turn, KindsInPlace, Fits
    <3>6. ASSUME NEW at \in {"calling", "triggering"}, UNCHANGED sessionVars,
                 Runs(c, w, Cancelled, Moved(w, at), {w}, None)
          PROVE  Earned'
      <4>1. Does(w, at, co[w].peer, None)
        BY <1>1, <3>5, <3>6, MovedIs, TurnDoes
      <4>2. Worked'
        BY <3>3, <3>6, <4>1, StaysAtServer DEF Does, AtServer
      <4> QED
        BY <1>1, <3>4, <4>1, <4>2 DEF Earned, Does
    <3>7. ASSUME co[w].kind = "InspectState", query' = None, UNCHANGED <<session, inputs>>,
                 Runs(c, w, Cancelled, Moved(w, "acking"), {w}, None)
          PROVE  Earned'
      <4>1. Does(w, "acking", co[w].peer, None)
        BY <1>1, <3>5, <3>7, MovedIs, TurnDoes
      <4>2. Worked'
        BY <3>3, <3>7, <4>1, QueryAnswered DEF Does, Inspects, Is, AtServer
      <4> QED
        BY <1>1, <3>4, <4>1, <4>2 DEF Earned, Does
    <3> QED
      BY <1>13, <2>3, <3>2, <3>6, <3>7 DEF CheckInAcked
  <2> QED
    BY <2>2, <2>3
<1>14. CASE AlarmGoesOff(c)
  <2>1. /\ co[c].at = "alarm" /\ co' = [co EXCEPT ![c].at = "fired"]
        /\ UNCHANGED <<tags, waiting, sessionVars, crashed>>
    BY <1>14 DEF AlarmGoesOff
  <2>2. co[c].kind = "CheckinDeadline" /\ co[c].peer = None
    BY <1>1, <2>1 DEF KindsInPlace, Fits, AtServer
  <2>3. /\ \A s \in Slots : s # c => co'[s] = co[s]
        /\ co'[c].kind = "CheckinDeadline" /\ co'[c].at = "fired" /\ co'[c].peer = None
    BY <1>1, <2>1, <2>2 DEF Base, Legal
  <2>4. Tagged'
    BY <1>1, <2>1, <2>3 DEF Tagged, Sleeps
  <2>5. Waits'
    BY <1>1, <2>1, <2>2, <2>3 DEF Waits, Accepted, Base, RestTyped
  <2>6. Except({})
    BY <2>1, <2>2, <2>3 DEF Except, Idle
  <2>7. Worked'
    BY <2>1, <2>6, NobodyWorks
  <2> QED
    BY <1>1, <2>1, <2>4, <2>5, <2>7 DEF Earned
<1>15. CASE DeadlineExpired(c)
  <2>1. /\ co[c].at = "fired" /\ waiting # None /\ co[waiting.coroutine].at = "parked"
        /\ waiting' = None
    BY <1>15 DEF DeadlineExpired
  <2>2. PICK w \in Slots : w = waiting.coroutine
    BY <1>1, <2>1 DEF Base, RestTyped
  <2>3. Turn(c, w, Cancelled) /\ co[w].at \in AtServer
    BY <2>1, <2>2 DEF Turn, AtServer
  <2> QED
    BY <1>15, <2>2, <2>3, GivesUp DEF DeadlineExpired
<1>16. CASE DeadlineCancelled(c)
  <2>1. /\ co[c].at = "cancelled" /\ UNCHANGED <<waiting, sessionVars, crashed>>
        /\ Runs(c, c, co, Moved(c, "finished"), {}, None)
    BY <1>16 DEF DeadlineCancelled
  <2>2. co[c].kind = "CheckinDeadline"
    BY <1>1, <2>1 DEF KindsInPlace, Fits
  <2>3. Does(c, "finished", co[c].peer, None)
    BY <1>2, <1>3, <2>1, <2>2, TurnDoes
  <2>4. Except({})
    BY <2>2, <2>3 DEF Does, Except, Idle
  <2>5. Worked'
    BY <2>1, <2>4, NobodyWorks
  <2> QED
    BY <1>1, <2>1, <2>3, <2>5 DEF Earned, Does
<1> QED
  BY <1>4, <1>5, <1>6, <1>7, <1>8, <1>9, <1>10, <1>11, <1>12, <1>13, <1>14, <1>15, <1>16

\* No tag arrives that ends the process.
LEMMA NoCrash ==
    ASSUME Base, Earned, NEW a \in Addresses
    PROVE  ~Crashes(a)
<1>1. KindsInPlace /\ Tagged /\ Waits /\ Locked
  BY Kinds DEF Earned, Worked
<1>2. SUFFICES ASSUME tags[a] > 0, Stray(a) \/ (a \in Slots /\ Exits(a)) PROVE FALSE
  BY DEF Crashes
<1>3. a \in Slots
  BY <1>1, <1>2 DEF Tagged, Addresses
<1>4. ~Stray(a)
  BY <1>1, <1>2, <1>3 DEF Stray, Tagged, Sleeps
<1>5. ~Exits(a)
  BY <1>1, <1>3 DEF Exits, Waits, Accepted, Locked, Advances, AtServer
<1> QED
  BY <1>2, <1>3, <1>4, <1>5

-----------------------------------------------------------------------------

\* The sets of RPCs that are looked at are finite.
LEMMA ServedFinite ==
    ASSUME NEW rpcs \in RpcSets
    PROVE  IsFiniteSet(rpcs) /\ Cardinality(rpcs) \in Nat
<1> DEFINE A == {"GetVersion", "GetStatus"}
           B == {"GetSessionStatus", "GetEpochStatus"}
           C == {"DeleteEpoch", "HealthCheck"}
           D == {"HealthWatch", "StartSession"}
           E == {"FinishEpoch", "EndSession"}
           F == {"InspectState", "AdvanceState"}
           G == {"CheckIn"}
<1>1. \A x, y : IsFiniteSet({x, y})
  <2> SUFFICES ASSUME NEW x, NEW y PROVE IsFiniteSet({x, y})
    OBVIOUS
  <2>1. IsFiniteSet({x}) /\ IsFiniteSet({y}) /\ {x, y} = {x} \cup {y}
    BY FS_Singleton
  <2> QED
    BY <2>1, FS_Union
<1>2. /\ IsFiniteSet(A) /\ IsFiniteSet(B) /\ IsFiniteSet(C) /\ IsFiniteSet(D)
      /\ IsFiniteSet(E) /\ IsFiniteSet(F) /\ IsFiniteSet(G)
  BY <1>1, FS_Singleton
<1>3. AllRpcs = A \cup B \cup C \cup D \cup E \cup F \cup G
  BY DEF AllRpcs, AtOnce
<1> HIDE DEF A, B, C, D, E, F, G
<1>4. IsFiniteSet(A \cup B \cup C)
  BY <1>2, FS_Union
<1>5. IsFiniteSet(A \cup B \cup C \cup D \cup E)
  BY <1>2, <1>4, FS_Union
<1>6. IsFiniteSet(A \cup B \cup C \cup D \cup E \cup F \cup G)
  BY <1>2, <1>5, FS_Union
<1>7. rpcs \subseteq AllRpcs
  BY DispatchAssumption
<1>8. IsFiniteSet(rpcs)
  BY <1>3, <1>6, <1>7, FS_Subset
<1> QED
  BY <1>8, FS_CardinalityType

\* main creates one handler for each.
LEMMA InitInv == OrderlyInit => Inv
<1> SUFFICES ASSUME Init PROVE Inv
  BY DEF OrderlyInit
<1> DEFINE n == Cardinality(served)
           f == CHOOSE g \in Bijection(1..n, served) : TRUE
<1>1. /\ n \in Nat /\ n < MaxCoroutines /\ served \subseteq AllRpcs /\ MaxCoroutines \in Nat
      /\ served \in RpcSets /\ None \notin AllRpcs
  BY ServedFinite, DispatchAssumption DEF Init
<1>2. f \in Bijection(1..n, served)
  BY ServedFinite, FS_CardinalityType DEF Init, ExistsBijection
<1>3. /\ co = [s \in Slots |-> IF s <= n THEN Listener(f[s]) ELSE Free]
      /\ tags = [s \in Addresses |-> IF s \in 1..n THEN 1 ELSE 0]
  BY DEF Init
<1> HIDE DEF n, f
<1>4. /\ f \in [1..n -> served]
      /\ \A i, j \in 1..n : f[i] = f[j] => i = j
      /\ \A r \in served : \E i \in 1..n : f[i] = r
  BY <1>2 DEF Bijection, Injection, Surjection, IsInjective
<1>5. \A s \in Slots : s \in Nat /\ (s <= n <=> s \in 1..n)
  BY <1>1 DEF Slots
<1>6. \A s \in Slots :
        \/ /\ s <= n /\ tags[s] = 1
           /\ co[s] = Listener(f[s]) /\ f[s] \in served
           /\ co[s].kind = f[s] /\ co[s].at = "listening" /\ co[s].peer = None
        \/ /\ ~(s <= n) /\ tags[s] = 0
           /\ co[s] = Free /\ co[s].kind = None /\ co[s].at = "free" /\ co[s].peer = None
  BY <1>3, <1>4, <1>5 DEF Listener, Free, Coroutine, Addresses
<1>7. Base
  <2>1. \A s \in Slots : co[s] \in Legal(served)
    BY <1>1, <1>6, NewLegal
  <2>2. tags \in [Addresses -> Nat]
    BY <1>3
  <2> QED
    BY <1>1, <1>3, <2>1, <2>2 DEF Base, RestTyped, Init
<1>8. ListenersInPlace
  <2> SUFFICES ASSUME NEW r \in served
               PROVE  /\ \E s \in Slots : co[s] = Listener(r)
                      /\ \A s, t \in Slots :
                            co[s] = Listener(r) /\ co[t] = Listener(r) => s = t
    BY DEF ListenersInPlace
  <2>1. PICK i \in 1..n : f[i] = r
    BY <1>4
  <2>2. i \in Slots /\ i <= n
    BY <1>1, <2>1 DEF Slots
  <2>3. \A s \in Slots : co[s] = Listener(r) => s \in 1..n /\ f[s] = r
    <3> SUFFICES ASSUME NEW s \in Slots, co[s] = Listener(r)
                 PROVE  s \in 1..n /\ f[s] = r
      OBVIOUS
    <3>1. co[s].at = "listening" /\ co[s].kind = r
      BY DEF Listener, Coroutine
    <3> QED
      BY <1>5, <1>6, <3>1
  <2> QED
    BY <1>4, <1>6, <2>1, <2>2, <2>3
<1>9. Tagged
  <2>1. tags[Null] = 0
    BY <1>1, <1>3 DEF Addresses, Null
  <2> QED
    BY <1>6, <2>1 DEF Tagged, Sleeps
<1>10. \A s \in Slots : /\ co[s].at \in {"listening", "free"} /\ co[s].peer = None
                        /\ co[s].at = "free" => co[s].kind = None
  BY <1>6
<1>11. Waits
  BY <1>10 DEF Waits, Accepted, Init
<1>12. Worked
  <2>1. \A s \in Slots : ~Holds(s) /\ ~Accepted(s) /\ co[s].at # "fired"
    BY <1>1, <1>10 DEF Holds, Accepted, AllRpcs
  <2>2. Locked
    BY <1>10, <2>1 DEF Locked, Orderly, AtServer, Processing, Advances, Inspects, Init
  <2>3. Handed
    BY <1>10 DEF Handed, Unheard, Heard, Owed, Pending, Queued, Inspects, Advances, Woken,
        Sleeps, AtServer
  <2> QED
    BY <2>2, <2>3 DEF Worked, Asked, Init
<1> QED
  BY <1>7, <1>8, <1>9, <1>11, <1>12 DEF Inv, Sound, Earned, Init

\* Every step keeps the invariant.
LEMMA NextInv == Inv /\ [OrderlyNext]_<<vars, orderly>> => Inv'
<1> SUFFICES ASSUME Inv, [OrderlyNext]_<<vars, orderly>> PROVE Inv'
  OBVIOUS
<1>1. Sound /\ Base /\ (orderly => Earned)
  BY DEF Inv, Sound
<1>2. CASE UNCHANGED <<vars, orderly>>
  <2>1. /\ served' = served /\ co' = co /\ tags' = tags /\ waiting' = waiting
        /\ session' = session /\ inputs' = inputs /\ query' = query /\ crashed' = crashed
        /\ orderly' = orderly
    BY <1>2 DEF vars, sessionVars
  <2>2. Sound'
    BY <1>1, <2>1 DEF Sound, Base, RestTyped, ListenersInPlace
  <2>3. Waits' <=> Waits
    BY <2>1 DEF Waits, Accepted
  <2>4. Tagged' <=> Tagged
    BY <2>1 DEF Tagged, Sleeps
  <2>5. Locked' <=> Locked
    BY <2>1 DEF Locked, Orderly, Holds, Accepted, Processing, Advances, Inspects
  <2>6. Handed' /\ Asked' <=> Handed /\ Asked
    BY <2>1 DEF Handed, Asked, Unheard, Heard, Owed, Pending, Processing, Advances, Inspects,
        Queued, Lent, Woken, Sleeps
  <2> QED
    BY <1>1, <2>1, <2>2, <2>3, <2>4, <2>5, <2>6 DEF Inv, Earned, Worked
<1>3. CASE OrderlyNext
  <2>1. orderly' => orderly /\ Orderly'
    BY <1>3 DEF OrderlyNext
  <2>2. ASSUME NEW c \in Slots, Step(c) PROVE Inv'
    <3>1. Sound'
      BY <1>1, <2>2, SoundRequest, SoundWork DEF Step
    <3>2. ASSUME orderly' PROVE Earned'
      <4>1. Tidy
        BY <1>1, <2>1, <3>1, <3>2 DEF Tidy, Sound
      <4> QED
        BY <2>2, <4>1, EarnedRequest, EarnedWork DEF Step
    <3> QED
      BY <3>1, <3>2 DEF Inv
  <2>3. ASSUME NEW a \in Addresses, Crashes(a) PROVE Inv'
    <3>1. Sound'
      BY <1>1, <2>3 DEF Crashes, Sound, Base, RestTyped, ListenersInPlace, sessionVars
    <3>2. ~orderly
      BY <1>1, <2>3, NoCrash
    <3> QED
      BY <2>1, <3>1, <3>2 DEF Inv
  <2> QED
    BY <1>3, <2>2, <2>3 DEF OrderlyNext, Next
<1> QED
  BY <1>2, <1>3

\* The invariant holds throughout.
THEOREM Invariance == OrderlySpec => []Inv
  BY InitInv, NextInv, PTL DEF OrderlySpec

\* For any number of coroutines and pending inputs: coroutines are suspended where
\* their kind may be, and the contract of the dispatch loop is kept as long as
\* session_lock lets requests in one at a time and a wait accepts one CheckIn, and
\* none when its alarm has gone off.  No tag then arrives that nobody waits for, none
\* is lost, and the process does not exit.
THEOREM ContractKept == OrderlySpec => []TagsSound
<1>1. Inv => TagsSound
  <2> SUFFICES ASSUME Inv PROVE TagsSound
    OBVIOUS
  <2>1. Base /\ (orderly => ~crashed /\ Tagged)
    BY DEF Inv, Sound, Earned
  <2>2. TypeOK
    <3>1. \A s \in Slots :
            \/ co[s] = Free
            \/ /\ co[s].kind \in served \cup {"CheckinDeadline"}
               /\ co[s].at \in Labels(co[s].kind)
               /\ co[s].peer \in Addresses \cup {None}
      BY <2>1 DEF Base, Legal
    <3> QED
      BY <2>1, <3>1 DEF Base, RestTyped, TypeOK
  <2> QED
    BY <2>1, <2>2 DEF TagsSound, Tagged
<1> QED
  BY <1>1, Invariance, PTL

\* Under the same premise: a coroutine that left its address to others, at a check-in
\* or at a hand-over, and was not scheduled yet is going to be called or scheduled by
\* exactly one other; nobody is going to do that to any other coroutine.
THEOREM OneWaker == OrderlySpec => []ParkedHasOneWaker
<1>1. Inv => ParkedHasOneWaker
  <2> SUFFICES ASSUME Inv, orderly, NEW w \in Slots
               PROVE  Cardinality({e \in Slots : Wakes(e, w)}) =
                        IF tags[w] = 0 /\ (co[w].at = "parked" \/ Sleeps(w)) THEN 1 ELSE 0
    BY DEF ParkedHasOneWaker
  <2> DEFINE W == {e \in Slots : Wakes(e, w)}
             Rings(e) == co[e].at \in {"alarm", "fired"} \/ Accepted(e)
             Asks(e) == /\ co[e].kind = "InspectState"
                        /\ co[e].peer = w \/ (Queued(e) /\ tags[e] = 1 /\ query = w)
             Lends(e) == (Advances(e) \/ Woken(e)) /\ query = w /\ e # w
  <2>1. /\ Base /\ KindsInPlace /\ Tagged /\ Waits /\ Locked /\ Handed /\ Orderly
        /\ None \notin Slots /\ Null \notin Slots
    BY Kinds, DispatchAssumption
        DEF Inv, Sound, Earned, Worked, Locked, Addresses, Slots, Null
  <2>2. ASSUME NEW e \in Slots, Wakes(e, w)
        PROVE  \/ Rings(e) /\ co[w].at = "parked" /\ waiting # None /\ waiting.coroutine = w
               \/ Asks(e) /\ Lent(w)
               \/ Lends(e) /\ Queued(w) /\ tags[w] = 0
    <3>1. CASE co[e].at \in {"alarm", "fired"} /\ waiting # None /\ waiting.coroutine = w
      BY <2>1, <3>1 DEF Waits
    <3>2. CASE co[e].peer = w
      <4>1. Accepted(e) \/ co[e].kind = "InspectState"
        BY <2>1, <3>2 DEF KindsInPlace, Fits, Accepted
      <4>2. CASE Accepted(e)
        BY <2>1, <3>2, <4>2 DEF Waits
      <4>3. CASE co[e].kind = "InspectState"
        BY <2>1, <3>2, <4>3 DEF Handed, Heard
      <4> QED
        BY <4>1, <4>2, <4>3
    <3>3. CASE /\ co[e].kind = "AdvanceState" /\ query = w /\ e # w
               /\ \/ co[e].at \in {"triggering", "parked", "calling"}
                  \/ co[e].at = "asleep" /\ tags[e] > 0
      <4>1. Advances(e) \/ Woken(e)
        BY <2>1, <3>3 DEF Advances, Woken, AtServer, Tagged, Sleeps
      <4> QED
        BY <2>1, <3>3, <4>1 DEF Handed, Pending
    <3>4. CASE /\ co[e].kind = "InspectState" /\ query = w /\ e # w
               /\ co[e].at = "asleep" /\ tags[e] > 0
      <4>1. Queued(e) /\ tags[e] = 1
        BY <2>1, <3>4 DEF Queued, Tagged, Sleeps
      <4> QED
        BY <2>1, <3>4, <4>1 DEF Handed, Heard
    <3> QED
      BY <2>2, <3>1, <3>2, <3>3, <3>4 DEF Wakes
  <2>3. \A e \in Slots : Lends(e) => Wakes(e, w)
    BY DEF Wakes, Advances, Woken, AtServer
  <2>4. CASE co[w].at = "parked"
    <3>1. tags[w] = 0 /\ ~Lent(w) /\ ~Queued(w)
      BY <2>1, <2>4 DEF Tagged, Lent, Queued
    <3>2. waiting # None /\ waiting.coroutine = w /\ waiting.alarm \in Slots
      BY <2>1, <2>4 DEF Waits, Base, RestTyped
    <3>3. PICK e \in Slots : Rings(e)
      BY <2>1, <3>2 DEF Waits
    <3>4. \A d \in Slots : Rings(d) => d = e
      BY <2>1, <3>3 DEF Waits, Orderly
    <3>5. Wakes(e, w)
      BY <2>1, <3>2, <3>3 DEF Wakes, Waits
    <3>6. W = {e}
      BY <2>2, <3>1, <3>4, <3>5
    <3> QED
      BY <2>4, <3>1, <3>6, FS_Singleton
  <2>5. CASE Queued(w) /\ tags[w] = 0
    <3>1. co[w].at # "parked" /\ ~Lent(w) /\ Sleeps(w)
      BY <2>5 DEF Queued, Lent, Sleeps
    <3>2. PICK e \in Slots : Lends(e)
      BY <2>1, <2>5 DEF Handed, Unheard, Queued, Advances, Woken
    <3>3. \A d \in Slots : Lends(d) => d = e
      BY <2>1, <3>2 DEF Locked, Processing, Advances, Woken, AtServer
    <3>4. W = {e}
      BY <2>2, <2>3, <3>1, <3>2, <3>3
    <3> QED
      BY <2>5, <3>1, <3>4, FS_Singleton
  <2>6. CASE co[w].kind = "AdvanceState" /\ Sleeps(w) /\ tags[w] = 0
    <3>1. co[w].at # "parked" /\ ~Queued(w)
      BY <2>6 DEF Queued, Sleeps
    <3>2. PICK e \in Slots : Asks(e)
      BY <2>1, <2>6 DEF Handed, Owed, Queued
    <3>3. \A d \in Slots : Asks(d) => Holds(d)
      BY <2>1 DEF KindsInPlace, Fits, Queued, Holds, AtServer
    <3>4. \A d \in Slots : Asks(d) => d = e
      BY <2>1, <3>2, <3>3 DEF Orderly
    <3>5. Wakes(e, w)
      BY <2>6, <3>2 DEF Wakes, Queued
    <3>6. W = {e}
      BY <2>2, <3>1, <3>4, <3>5
    <3> QED
      BY <2>6, <3>6, FS_Singleton
  <2>7. CASE ~(tags[w] = 0 /\ (co[w].at = "parked" \/ Sleeps(w)))
    <3>1. ~Lent(w) /\ co[w].at # "parked" /\ ~(Queued(w) /\ tags[w] = 0)
      BY <2>1, <2>7 DEF Tagged, Lent, Queued, Sleeps
    <3>2. W = {}
      BY <2>2, <3>1
    <3> QED
      BY <2>7, <3>2, FS_EmptySet
  <2>8. Sleeps(w) => Queued(w) \/ co[w].kind = "AdvanceState"
    BY <2>1 DEF Sleeps, Queued, KindsInPlace, Fits
  <2> QED
    BY <2>4, <2>5, <2>6, <2>7, <2>8
<1> QED
  BY <1>1, Invariance, PTL

\* However the session is used: every RPC keeps exactly one handler that waits for
\* the next request.
THEOREM ListenersStay == OrderlySpec => []AlwaysServed
<1>1. Inv => AlwaysServed
  <2> SUFFICES ASSUME Inv, NEW r \in served
               PROVE  Cardinality({s \in Slots : co[s] = Listener(r)}) = 1
    BY DEF AlwaysServed
  <2>1. PICK s \in Slots : co[s] = Listener(r)
    BY DEF Inv, Sound, ListenersInPlace
  <2>2. {t \in Slots : co[t] = Listener(r)} = {s}
    BY <2>1 DEF Inv, Sound, ListenersInPlace
  <2> QED
    BY <2>2, FS_Singleton
<1> QED
  BY <1>1, Invariance, PTL
=============================================================================
