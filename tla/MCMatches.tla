----------------------------- MODULE MCMatches -----------------------------
(***************************************************************************)
(* Instances of Matches for TLC: line-ups of singles over two or three     *)
(* members.                                                                *)
(***************************************************************************)
EXTENDS Matches, TLC

Side(m, order) == <<[member |-> m, order |-> order]>>
Stake1 == [o \in {1} |-> 1]
NoStake == [o \in {} |-> 1]

Even == [type |-> "SINGLES", bets |-> Stake1, teams |-> <<Side("anna", 1), Side("binh", 1)>>]
Uneven == [type |-> "SINGLES", bets |-> NoStake, teams |-> <<Side("chi", 1), Side("anna", 2)>>]
NoTeams == [type |-> "SINGLES", bets |-> Stake1, teams |-> <<>>]

\* Singles for a stake of one; two rows of one user that play at different orders,
\* in a body that names no stake; and an edit without teams.
SinglesSheets == {Even, Uneven, NoTeams}

\* One body that passes validation, one that says nothing of teams.
OneSheet == {Even, NoTeams}

ThreeMembers == {"anna", "binh", "chi"}
TwoMembers == {"anna", "binh"}

\* One user has two of the rows, as the creator of a session may.
UserOfThree == [m \in ThreeMembers |-> IF m = "chi" THEN "anna" ELSE m]
UserOfTwo == [m \in TwoMembers |-> m]

\* Calls are interchangeable.
Symmetry == Permutations(Calls)
=============================================================================
