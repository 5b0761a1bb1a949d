-------------------------- MODULE MCVisitorTracker --------------------------
(* Instances of VisitorTracker for TLC.  Fingerprints do not influence each *)
(* other, so one is enough; three visits of it are one that inserts, one    *)
(* that updates, and one that comes when both are over or under way.        *)
EXTENDS VisitorTracker, TLC

CONSTANTS v1, v2, v3, u1, u2, f1

Symmetry == Permutations(Visits) \union Permutations(Users)
=============================================================================
