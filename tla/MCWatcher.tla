----------------------------- MODULE MCWatcher -----------------------------
(***************************************************************************)
(* Instances of Watcher for TLC.                                           *)
(***************************************************************************)
EXTENDS Watcher

CONSTANT MCFirst  \* the watcher that sees every event

MCWatcherOf == [e \in Events |-> MCFirst]

MCRuns == Watchers \cup Events

MCCancellers == Events \cup {Signal}
=============================================================================
