---------------------------- MODULE MCMembership ----------------------------
(***************************************************************************)
(* Instances of Membership for TLC.  Member and request rows, calls and    *)
(* users are interchangeable, so symmetric states are checked once.        *)
(***************************************************************************)
EXTENDS Membership, TLC

Symmetry ==
    Permutations(Users) \cup Permutations(Sessions) \cup Permutations(MemberIds)
        \cup Permutations(RequestIds) \cup Permutations(Calls)
=============================================================================
