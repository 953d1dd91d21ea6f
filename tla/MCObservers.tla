----------------------------- MODULE MCObservers -----------------------------
(***************************************************************************)
(* Small instances of Observers for TLC, with two browsers each: a browser *)
(* can be shown what was sent before the other one came.  A thread is      *)
(* started by a registration, a resume or a gpg that could not be started; *)
(* the safety run has a name for each of them, so the guards on idle       *)
(* chains never bind.  The liveness run has two names and no symmetry:     *)
(* there such a step waits until a thread has ended, which nobody owes it. *)
(***************************************************************************)
EXTENDS Observers, TLC

\* Sockets and chains are interchangeable; only safety runs use this.
Symmetry == Permutations(Sockets) \cup Permutations(Chains)
=============================================================================
