---------------------------- MODULE MCLeaderLease ----------------------------
(* Instances of LeaderLease for TLC: the replicas are model values. *)
EXTENDS LeaderLease, TLC

CONSTANTS r1, r2, r3

Two == {r1, r2}
Three == {r1, r2, r3}

\* Replicas are only ever compared.
ReplicaSymmetry == Permutations(Three)
=============================================================================
