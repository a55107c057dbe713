------------------------------- MODULE KVStore -------------------------------
(***************************************************************************)
(* What lsm::DB promises its readers: a map from keys to values that only  *)
(* writes change, and snapshots that keep the map of the moment they were  *)
(* taken.  A snapshot taken while a write is under way also gets the rest  *)
(* of that write: it was numbered before the snapshot.                     *)
(***************************************************************************)
EXTENDS Naturals

CONSTANTS
    Keys,
    Values,
    Missing,    \* what a read of an absent key gives
    Snaps       \* names of snapshots

VARIABLES
    store,      \* what a read finds now
    pins,       \* the snapshots: what a read through each of them finds
    busy,       \* whether a write is under way
    late        \* the snapshots that were taken during it

vars == <<store, pins, busy, late>>

Init ==
    /\ store = [k \in Keys |-> Missing]
    /\ pins = [s \in {} |-> store]
    /\ busy = FALSE
    /\ late = {}

Begin ==
    /\ ~busy
    /\ busy' = TRUE
    /\ UNCHANGED <<store, pins, late>>

\* One entry of the write takes effect; it may be the last one.
Set(k) ==
    /\ busy
    /\ late' = IF busy' THEN late ELSE {}
    /\ store' \in {[store EXCEPT ![k] = v] : v \in Values \cup {Missing}}
    /\ pins' = [s \in DOMAIN pins |->
                  IF s \in late THEN [pins[s] EXCEPT ![k] = store'[k]]
                  ELSE pins[s]]
    /\ busy' \in BOOLEAN

Pin(s) ==
    /\ s \notin DOMAIN pins
    /\ late' = IF busy THEN late \cup {s} ELSE late
    /\ DOMAIN pins' = DOMAIN pins \cup {s}
    /\ pins' = [p \in DOMAIN pins' |-> IF p = s THEN store ELSE pins[p]]
    /\ UNCHANGED <<busy, store>>

Unpin(s) ==
    /\ s \in DOMAIN pins
    /\ late' = late \ {s}
    /\ DOMAIN pins' = DOMAIN pins \ {s}
    /\ pins' = [p \in DOMAIN pins' |-> pins[p]]
    /\ UNCHANGED <<busy, store>>

Next ==
    \/ Begin
    \/ \E k \in Keys : Set(k)
    \/ \E s \in Snaps : Pin(s) \/ Unpin(s)

Spec == Init /\ [][Next]_vars

=============================================================================
