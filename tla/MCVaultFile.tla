---------------------------- MODULE MCVaultFile ----------------------------
(***************************************************************************)
(* Instances of VaultFile for TLC.  Inodes are interchangeable; records and *)
(* processes are too.                                                      *)
(***************************************************************************)
EXTENDS VaultFile, TLC

\* One process on a machine where anything may fail, and two processes on a sound
\* one whose operator meddles.
Alone(p) == [procs |-> {p}, faults |-> TRUE, powerCuts |-> TRUE, rollbacks |-> FALSE,
             maxCounter |-> 3]
Together == [procs |-> Proc, faults |-> FALSE, powerCuts |-> FALSE, rollbacks |-> TRUE,
             maxCounter |-> 2]
Surroundings == {Alone(p) : p \in Proc} \cup {Together}

Interchangeable == Permutations(Inode) \cup Permutations(Record)
                   \cup Permutations(Proc)

\* Once two operations have overlapped, or somebody who remembered no counter has
\* opened an older copy, the run says nothing more, so what follows is not explored.
WhileTheClaimsApply == ~overlap /\ rolledBack # "accepted"
=============================================================================
