---------------------------- MODULE MatchesProofs ----------------------------
(***************************************************************************)
(* Theorems about Matches for any members, sheets, bounds and calls.       *)
(*                                                                         *)
(* However calls interleave and fail, results are shown only once the bets *)
(* of the match have been settled.  One call at a time, failures included, *)
(* a FINISHED match has a winner and a loser and changes no more, the      *)
(* line-up of a STARTED match is fixed, no money is made, balances match   *)
(* the results, and the whole implements Settlement.                       *)
(***************************************************************************)
EXTENDS Matches, Lemmas

-----------------------------------------------------------------------------
(* The inductive invariant, for calls that interleave *)

Inserts == {"FindPlayers", "InsertMatch"}
Edits == {"DeleteTeams", "FindNewPlayers"}
Settles == {"FindMembers", "SaveMembers", "WriteMembers"}
Saves == {"SaveMatch", "WriteMatch"}

Ops == Inserts \cup Edits \cup Settles \cup Saves \cup {"DeleteMatch"}

\* A call holds a sheet that has been validated.
Valid(k) ==
    /\ IsSheet(k.sheet)
    /\ k.op \in Inserts => k.sheet.type # "unset"
    /\ k.op \in Inserts \/ k.sheet.teams # <<>> => ValidTeams(k.sheet)

\* The teams a call keeps are rows of the match that it works on.
Keeps(k) ==
    /\ k.keep \in [DOMAIN k.keep -> TeamRow]
    /\ \A t \in DOMAIN k.keep :
            /\ t \in DOMAIN teams
            /\ teams[t].match = k.match
            /\ k.keep[t].match = k.match

\* New teams of this match, none of them with a result.
IsFresh(k) ==
    /\ k.fresh \in Seq(TeamRow)
    /\ \A i \in DOMAIN k.fresh : k.fresh[i].match = k.match /\ k.fresh[i].result = "none"

\* A call shows results of a match only once it has been settled.
Paid(k) ==
    /\ k.row.status = "FINISHED" => settled[k.match] >= 1
    /\ \A t \in DOMAIN k.keep : k.keep[t].result # "none" => settled[k.match] >= 1

Good(k) ==
    /\ k.op \in Ops
    /\ k.op \in Inserts \cup Edits => Valid(k)
    /\ k.op \notin Inserts => k.match \in DOMAIN matches
    /\ k.op \in Edits => k.row \in MatchRow /\ k.row.status = "READY"
    /\ k.op \in Settles \cup Saves => k.row \in MatchRow /\ Keeps(k)
    /\ k.op \in Saves => IsFresh(k) /\ Paid(k)
    /\ k.op \in {"SaveMembers", "WriteMembers"} => DOMAIN k.amounts \subseteq Members
    /\ k.op = "WriteMembers" => k.seen \in [DOMAIN k.amounts -> MemberRow]
    /\ k.op = "WriteMatch" =>
            k.seen \in MatchRow /\ k.seenTeams \in [DOMAIN k.keep -> TeamRow]

CallsInv == \A c \in DOMAIN inflight : Good(inflight[c])

\* A team belongs to a match that has been inserted (its foreign key).
TeamsHaveMatch == \A t \in DOMAIN teams : teams[t].match \in DOMAIN matches

IInv == TypeOK /\ CallsInv /\ TeamsHaveMatch /\ ResultsAreSettled

-----------------------------------------------------------------------------
(* The inductive invariant, for one call at a time *)

\* Nothing has changed behind the back of a call since it loaded the match.
\* An edit takes the teams of a READY match away before it saves new ones.
Current(k) ==
    /\ k.op \in Edits \cup {"DeleteMatch"} => matches[k.match].status = "READY"
    /\ k.op = "DeleteTeams" => k.ids = TeamsOf(k.match)
    /\ k.op = "FindNewPlayers" => TeamsOf(k.match) = {}
    /\ k.op \in Settles =>
            matches[k.match].status = "STARTED" /\ k.row.status = "FINISHED"
    /\ k.op \in Settles \cup Saves => DOMAIN k.keep = TeamsOf(k.match)

\* What a save brings: the new line-up of a READY match, its start, or its end.
Saving(k) ==
    k.op \in Saves =>
        \/ /\ matches[k.match].status = "READY" /\ k.row.status = "READY"
           /\ k.keep = EmptyTable /\ Len(k.fresh) = 2
           /\ \A i \in DOMAIN k.fresh : k.fresh[i].place = "attached"
        \/ /\ matches[k.match].status = "READY" /\ k.row.status = "STARTED"
           /\ k.fresh = <<>>
           /\ \A t \in DOMAIN k.keep : k.keep[t].result = "none"
        \/ /\ matches[k.match].status = "STARTED" /\ k.row.status = "FINISHED"
           /\ k.fresh = <<>>

\* Whoever finishes a match has a winner and a loser.
Decided(k) ==
    k.op \in Settles \/ (k.op \in Saves /\ k.row.status = "FINISHED") =>
        \E w, l \in DOMAIN k.keep :
            /\ DOMAIN k.keep = {w, l}
            /\ k.keep[w].result = "WINNER" /\ k.keep[l].result = "LOSER"

\* What a save has read is what the tables hold.
Fresh(k) ==
    k.op = "WriteMatch" =>
        /\ k.seen = matches[k.match]
        /\ \A t \in DOMAIN k.keep : k.seenTeams[t] = teams[t]
        /\ k.orphans = {}

Serial(k) == Current(k) /\ Saving(k) /\ Decided(k) /\ Fresh(k)

\* A match has two teams, or none.
PairOf(m) == TeamsOf(m) = {} \/ \E a, b \in DOMAIN teams : a # b /\ TeamsOf(m) = {a, b}

\* What FinishedHasResults says of one match.
ResultsOf(m) ==
    IF matches[m].status = "FINISHED"
    THEN \E w, l \in DOMAIN teams :
            /\ TeamsOf(m) = {w, l}
            /\ teams[w].result = "WINNER" /\ teams[l].result = "LOSER"
    ELSE \A t \in TeamsOf(m) : teams[t].result = "none"

MatchesInv == \A m \in DOMAIN matches : PairOf(m) /\ ResultsOf(m)

SerialInv == MatchesInv /\ \A c \in DOMAIN inflight : Serial(inflight[c])

-----------------------------------------------------------------------------
(* Rows and sequences of rows *)

LEMMA SeqOf ==
    ASSUME NEW S, NEW n \in Nat, NEW f, f \in [1..n -> S]
    PROVE  f \in Seq(S) /\ Len(f) = n /\ DOMAIN f = 1..n
OBVIOUS

LEMMA SeqFacts ==
    ASSUME NEW S, NEW f \in Seq(S)
    PROVE  Len(f) \in Nat /\ DOMAIN f = 1..Len(f) /\ f \in [1..Len(f) -> S]
OBVIOUS

LEMMA Tables2 ==
    ASSUME TypeOK
    PROVE  /\ Len(matches) \in Nat /\ DOMAIN matches = 1..Len(matches)
           /\ DOMAIN matches \subseteq MatchIds
           /\ \A m \in DOMAIN matches : matches[m] \in MatchRow
           /\ Len(teams) \in Nat /\ DOMAIN teams = 1..Len(teams)
           /\ DOMAIN teams \subseteq TeamIds
           /\ \A t \in DOMAIN teams : teams[t] \in TeamRow
           /\ \A m \in MatchIds : settled[m] \in Nat
BY BoundsAssumption DEF TypeOK, MatchIds, TeamIds

LEMMA NewTeamsRows ==
    ASSUME NEW sheet, IsSheet(sheet), ValidTeams(sheet), NEW m \in MatchIds
    PROVE  /\ NewTeams(sheet, m) \in Seq(TeamRow)
           /\ DOMAIN NewTeams(sheet, m) = 1..2 /\ Len(NewTeams(sheet, m)) = 2
           /\ \A i \in 1..2 :
                 /\ NewTeams(sheet, m)[i].match = m
                 /\ NewTeams(sheet, m)[i].result = "none"
                 /\ NewTeams(sheet, m)[i].place = "attached"
<1> DEFINE P == [member : Members, order : Nat \ {0}]
<1> DEFINE T == NewTeams(sheet, m)
<1>1. sheet.teams \in Seq(Seq(P)) /\ Len(sheet.teams) = 2
  BY DEF IsSheet, ValidTeams
<1>2. \A i \in 1..2 : sheet.teams[i] \in Seq(P)
  BY <1>1
<1>3. ASSUME NEW i \in 1..2
      PROVE  T[i] \in TeamRow
  <2> DEFINE n == Len(sheet.teams[i])
  <2>1. n \in Nat /\ DOMAIN sheet.teams[i] = 1..n /\ \A j \in 1..n : sheet.teams[i][j] \in P
    <3>1. sheet.teams[i] \in Seq(P)
      BY <1>2
    <3>2. QED
      BY <3>1, SeqFacts
  <2>2. T[i].players \in [1..n -> Player]
    BY <2>1, MembersAssumption DEF NewTeams, Player
  <2>3. T[i].players \in Seq(Player)
    BY <2>1, <2>2, SeqOf
  <2>4. QED
    BY <2>3 DEF NewTeams, TeamRow, TeamResult
<1>4. T \in [1..2 -> TeamRow]
  BY <1>3 DEF NewTeams
<1>5. T \in Seq(TeamRow) /\ Len(T) = 2 /\ DOMAIN T = 1..2
  BY <1>4, SeqOf
<1>6. QED
  BY <1>5 DEF NewTeams

LEMMA BetsOfRow ==
    ASSUME NEW sheet, IsSheet(sheet), NEW stored \in Bets
    PROVE  BetsOf(sheet, stored) \in Bets
BY DEF BetsOf, Bets, IsSheet, Orders

-----------------------------------------------------------------------------
(* Calls *)

\* Matches and teams are inserted and change, but none goes away or moves to
\* another match, and what has been settled stays settled.
Grows ==
    /\ DOMAIN matches \subseteq DOMAIN matches'
    /\ \A t \in DOMAIN teams : t \in DOMAIN teams' /\ teams'[t].match = teams[t].match
    /\ \A m \in MatchIds : settled'[m] >= settled[m]

Quiet == UNCHANGED <<sessionStatus, members, matches, teams, settled>>

LEMMA QuietGrows ==
    ASSUME TypeOK, Quiet
    PROVE  Grows
BY Tables2 DEF Quiet, Grows

LEMMA GoodStays ==
    ASSUME TypeOK, TypeOK', Grows, NEW k, Good(k)
    PROVE  Good(k)'
<1>1. k.op \notin Inserts => k.match \in DOMAIN matches /\ k.match \in DOMAIN matches'
  BY DEF Good, Grows
<1>2. ASSUME k.op \in Settles \cup Saves
      PROVE  Keeps(k)'
  BY <1>2 DEF Good, Keeps, Grows
<1>3. ASSUME k.op \in Saves
      PROVE  IsFresh(k)' /\ Paid(k)'
  <2>1. k.match \in MatchIds
    BY <1>1, <1>3, Tables2 DEF Saves, Inserts
  <2>2. settled[k.match] \in Nat /\ settled'[k.match] \in Nat
    BY <2>1 DEF TypeOK
  <2>3. settled'[k.match] >= settled[k.match]
    BY <2>1 DEF Grows
  <2>4. IsFresh(k) /\ Paid(k)
    BY <1>3 DEF Good
  <2>5. QED
    BY <2>2, <2>3, <2>4 DEF IsFresh, Paid
<1>4. QED
  BY <1>1, <1>2, <1>3 DEF Good, Valid

LEMMA AtCall ==
    ASSUME IInv, NEW c, NEW op, At(c, op)
    PROVE  c \in DOMAIN inflight /\ c \in Calls /\ Good(inflight[c]) /\ inflight[c].op = op
BY DEF IInv, TypeOK, CallsInv, At

\* A call goes on with k while the tables change around the others.
LEMMA CallsAwait ==
    ASSUME TypeOK, TypeOK', CallsInv, Grows, NEW c, NEW k, Await(c, k), Good(k)'
    PROVE  CallsInv'
<1>1. /\ DOMAIN inflight' = DOMAIN inflight \cup {c}
      /\ inflight'[c] = k
      /\ \A d \in DOMAIN inflight : d # c => inflight'[d] = inflight[d]
  BY DEF Await, Put
<1>2. ASSUME NEW d \in DOMAIN inflight'
      PROVE  Good(inflight[d])'
  <2>1. CASE d = c
    BY <1>1, <2>1
  <2>2. CASE d # c
    <3>1. Good(inflight'[d])
      BY <1>1, <2>2 DEF CallsInv
    <3>2. QED
      BY <3>1, GoodStays
  <2>3. QED
    BY <2>1, <2>2
<1>3. QED
  BY <1>2 DEF CallsInv

LEMMA CallsAnswer ==
    ASSUME TypeOK, TypeOK', CallsInv, Grows, NEW c, Answer(c)
    PROVE  CallsInv'
<1>1. /\ DOMAIN inflight' = DOMAIN inflight \ {c}
      /\ \A d \in DOMAIN inflight' : inflight'[d] = inflight[d]
  BY DEF Answer, Drop
<1>2. ASSUME NEW d \in DOMAIN inflight'
      PROVE  Good(inflight[d])'
  <2>1. Good(inflight'[d])
    BY <1>1 DEF CallsInv
  <2>2. QED
    BY <2>1, GoodStays
<1>3. QED
  BY <1>2 DEF CallsInv

\* Steps that only read.
LEMMA QuietAwait ==
    ASSUME IInv, NEW c \in Calls, NEW k, Good(k), Await(c, k), Quiet
    PROVE  IInv'
<1>1. TypeOK /\ CallsInv
  BY DEF IInv
<1>2. TypeOK'
  BY <1>1 DEF TypeOK, Quiet, Await, Put
<1>3. Grows
  BY <1>1, QuietGrows
<1>4. CallsInv'
  BY <1>1, <1>2, <1>3, GoodStays, CallsAwait
<1>5. QED
  BY <1>2, <1>4 DEF IInv, Quiet, TeamsHaveMatch, ResultsAreSettled

LEMMA QuietAnswer ==
    ASSUME IInv, NEW c, Answer(c), Quiet
    PROVE  IInv'
<1>1. TypeOK /\ CallsInv
  BY DEF IInv
<1>2. TypeOK'
  BY <1>1 DEF TypeOK, Quiet, Answer, Drop
<1>3. Grows
  BY <1>1, QuietGrows
<1>4. CallsInv'
  BY <1>1, <1>2, <1>3, CallsAnswer
<1>5. QED
  BY <1>2, <1>4 DEF IInv, Quiet, TeamsHaveMatch, ResultsAreSettled

-----------------------------------------------------------------------------
(* Steps *)

LEMMA InitInv ==
    ASSUME Init
    PROVE  IInv
<1>1. <<>> \in Seq(MatchRow) /\ <<>> \in Seq(TeamRow) /\ Len(<<>>) = 0
  OBVIOUS
<1>2. DOMAIN inflight = {} /\ DOMAIN matches = {} /\ DOMAIN teams = {}
  BY DEF Init, EmptyTable
<1>3. TypeOK
  BY <1>1, <1>2, BoundsAssumption DEF Init, TypeOK, MemberRow
<1>4. QED
  BY <1>2, <1>3 DEF IInv, CallsInv, TeamsHaveMatch, ResultsAreSettled

LEMMA StutterStep ==
    ASSUME IInv, UNCHANGED vars
    PROVE  IInv'
<1>1. TypeOK /\ TypeOK' /\ Grows /\ inflight' = inflight
  BY QuietGrows DEF IInv, TypeOK, vars, Quiet
<1>2. CallsInv'
  BY <1>1, GoodStays DEF IInv, CallsInv
<1>3. QED
  BY <1>1, <1>2 DEF IInv, vars, TeamsHaveMatch, ResultsAreSettled

LEMMA EnvironmentStep ==
    ASSUME IInv, Environment
    PROVE  IInv'
<1>1. UNCHANGED <<matches, teams, inflight, settled>>
  BY DEF Environment, SessionMoves, MemberLeaves
<1>2. TypeOK'
  <2>1. CASE SessionMoves
    BY <2>1 DEF IInv, TypeOK, SessionMoves
  <2>2. CASE \E m \in Members : MemberLeaves(m)
    BY <2>2 DEF IInv, TypeOK, MemberLeaves, MemberRow
  <2>3. QED
    BY <2>1, <2>2 DEF Environment
<1>3. TypeOK /\ Grows
  BY <1>1, Tables2 DEF IInv, Grows
<1>4. CallsInv'
  BY <1>1, <1>2, <1>3, GoodStays DEF IInv, CallsInv
<1>5. QED
  BY <1>1, <1>2, <1>4 DEF IInv, TeamsHaveMatch, ResultsAreSettled

LEMMA InsertStep ==
    ASSUME IInv, NEW c \in Calls, NEW sheet \in Sheets, MatchInsert(c, sheet)
    PROVE  IInv'
<1> DEFINE k == [op |-> "FindPlayers", sheet |-> sheet]
<1>1. Good(k)
  BY SheetsAssumption DEF MatchInsert, Good, Valid, Ops, Inserts, Edits, Settles, Saves
<1>2. Await(c, k) /\ Quiet
  BY DEF MatchInsert, Quiet
<1>3. QED
  BY <1>1, <1>2, QuietAwait

LEMMA InsertFindPlayersStep ==
    ASSUME IInv, NEW c, MatchInsertFindPlayers(c)
    PROVE  IInv'
<1> DEFINE k == [inflight[c] EXCEPT !.op = "InsertMatch"]
<1>1. c \in Calls /\ Good(inflight[c]) /\ inflight[c].op = "FindPlayers" /\ Quiet
  BY AtCall DEF MatchInsertFindPlayers, Quiet
<1>2. CASE Await(c, k)
  <2>1. Good(k)
    BY <1>1 DEF Good, Valid, Ops, Inserts, Edits, Settles, Saves
  <2>2. QED
    BY <1>1, <1>2, <2>1, QuietAwait
<1>3. CASE Answer(c)
  BY <1>1, <1>3, QuietAnswer
<1>4. QED
  BY <1>2, <1>3 DEF MatchInsertFindPlayers

\* New rows at the end of a table leave the old ones where they are.
LEMMA AppendRow ==
    ASSUME NEW S, NEW s \in Seq(S), NEW e \in S
    PROVE  /\ Append(s, e) \in Seq(S)
           /\ Len(Append(s, e)) = Len(s) + 1
           /\ DOMAIN Append(s, e) = 1..(Len(s) + 1)
           /\ \A i \in 1..Len(s) : Append(s, e)[i] = s[i]
           /\ Append(s, e)[Len(s) + 1] = e
OBVIOUS

LEMMA AppendRows ==
    ASSUME NEW S, NEW s \in Seq(S), NEW r \in Seq(S)
    PROVE  /\ s \o r \in Seq(S)
           /\ Len(s \o r) = Len(s) + Len(r)
           /\ DOMAIN (s \o r) = 1..(Len(s) + Len(r))
           /\ \A i \in 1..Len(s) : (s \o r)[i] = s[i]
           /\ \A i \in 1..(Len(s) + Len(r)) :
                 i \notin 1..Len(s) => i - Len(s) \in 1..Len(r) /\ (s \o r)[i] = r[i - Len(s)]
OBVIOUS

\* The rows of the match and the teams that MatchInsertSave inserts.
LEMMA InsertSaveRows ==
    ASSUME IInv, NEW c, MatchInsertSave(c)
    PROVE  /\ Answer(c) /\ UNCHANGED <<sessionStatus, members, settled>>
           /\ matches' \in Seq(MatchRow) /\ teams' \in Seq(TeamRow)
           /\ Len(matches') = Len(matches) + 1 /\ Len(teams') = Len(teams) + 2
           /\ \A m \in DOMAIN matches : m \in DOMAIN matches' /\ matches'[m] = matches[m]
           /\ \A m \in DOMAIN matches' :
                 m \notin DOMAIN matches =>
                    m = Len(matches) + 1 /\ matches'[m].status = "READY"
           /\ \A t \in DOMAIN teams : t \in DOMAIN teams' /\ teams'[t] = teams[t]
           /\ \A t \in DOMAIN teams' :
                 t \notin DOMAIN teams =>
                    /\ t \in {Len(teams) + 1, Len(teams) + 2}
                    /\ teams'[t].match = Len(matches) + 1
                    /\ teams'[t].result = "none" /\ teams'[t].place = "attached"
<1> DEFINE sheet == inflight[c].sheet
<1> DEFINE row == [status |-> "READY", type |-> sheet.type,
                   bets |-> BetsOf(sheet, NoBets), live |-> TRUE]
<1> DEFINE new == NewTeams(sheet, Len(matches) + 1)
<1>1. TypeOK /\ matches \in Seq(MatchRow) /\ teams \in Seq(TeamRow)
  BY DEF IInv, TypeOK
<1>2. IsSheet(sheet) /\ sheet.type # "unset" /\ ValidTeams(sheet)
  <2>1. Good(inflight[c]) /\ inflight[c].op = "InsertMatch"
    BY AtCall DEF MatchInsertSave
  <2>2. QED
    BY <2>1 DEF Good, Valid, Inserts
<1>3. row \in MatchRow
  <2>1. NoBets \in Bets
    BY DEF NoBets, Bets
  <2>2. BetsOf(sheet, NoBets) \in Bets
    BY <1>2, <2>1, BetsOfRow
  <2>3. sheet.type \in MatchType
    BY <1>2 DEF IsSheet
  <2>4. QED
    BY <2>2, <2>3 DEF MatchRow, MatchStatus
<1>4. Len(matches) + 1 \in MatchIds
  BY <1>1, Tables2, BoundsAssumption DEF MatchInsertSave, MatchIds
<1>5. /\ new \in Seq(TeamRow) /\ DOMAIN new = 1..2 /\ Len(new) = 2
      /\ \A i \in 1..2 : /\ new[i].match = Len(matches) + 1
                         /\ new[i].result = "none" /\ new[i].place = "attached"
  BY <1>2, <1>4, NewTeamsRows
<1>6. matches' = Append(matches, row) /\ teams' = teams \o new
  BY DEF MatchInsertSave
<1> HIDE DEF row, new
<1>7. /\ matches' \in Seq(MatchRow) /\ Len(matches') = Len(matches) + 1
      /\ DOMAIN matches' = 1..(Len(matches) + 1)
      /\ \A m \in 1..Len(matches) : matches'[m] = matches[m]
      /\ matches'[Len(matches) + 1] = row
  BY <1>1, <1>3, <1>6, AppendRow
<1>8. /\ teams' \in Seq(TeamRow) /\ Len(teams') = Len(teams) + 2
      /\ DOMAIN teams' = 1..(Len(teams) + 2)
      /\ \A t \in 1..Len(teams) : teams'[t] = teams[t]
      /\ \A t \in 1..(Len(teams) + 2) :
            t \notin 1..Len(teams) => t - Len(teams) \in 1..2 /\ teams'[t] = new[t - Len(teams)]
  <2>1. /\ teams \o new \in Seq(TeamRow) /\ Len(teams \o new) = Len(teams) + Len(new)
        /\ DOMAIN (teams \o new) = 1..(Len(teams) + Len(new))
        /\ \A t \in 1..Len(teams) : (teams \o new)[t] = teams[t]
        /\ \A t \in 1..(Len(teams) + Len(new)) : t \notin 1..Len(teams) =>
              t - Len(teams) \in 1..Len(new) /\ (teams \o new)[t] = new[t - Len(teams)]
    <3>1. teams \in Seq(TeamRow) /\ new \in Seq(TeamRow)
      BY <1>1, <1>5
    <3>2. QED
      BY <3>1, AppendRows
  <2>2. Len(new) = 2 /\ teams' = teams \o new
    BY <1>5, <1>6
  <2>3. QED
    BY <2>1, <2>2, Zenon
<1>9. DOMAIN matches = 1..Len(matches) /\ Len(matches) \in Nat
      /\ DOMAIN teams = 1..Len(teams) /\ Len(teams) \in Nat
  BY <1>1, Tables2
<1>10. row.status = "READY"
  BY DEF row
<1>11. QED
  BY <1>5, <1>7, <1>8, <1>9, <1>10 DEF MatchInsertSave

LEMMA InsertSaveStep ==
    ASSUME IInv, NEW c, MatchInsertSave(c)
    PROVE  IInv'
<1>1. TypeOK /\ CallsInv /\ DOMAIN matches = 1..Len(matches) /\ Len(matches) \in Nat
      /\ Len(teams) \in Nat
  BY Tables2 DEF IInv
<1>2. TypeOK'
  <2>1. Len(matches') <= MaxMatches /\ Len(teams') <= MaxTeams
    BY <1>1, InsertSaveRows, BoundsAssumption DEF MatchInsertSave
  <2>2. (DOMAIN inflight)' \subseteq Calls
    BY <1>1, InsertSaveRows DEF Answer, Drop, TypeOK
  <2>3. QED
    BY <1>1, <2>1, <2>2, InsertSaveRows DEF TypeOK
<1>3. Grows
  BY <1>1, InsertSaveRows, Tables2 DEF Grows
<1>4. CallsInv'
  BY <1>1, <1>2, <1>3, InsertSaveRows, CallsAnswer
<1>5. DOMAIN matches' = 1..(Len(matches) + 1)
  BY <1>1, InsertSaveRows, SeqFacts
<1>6. TeamsHaveMatch'
  <2>1. ASSUME NEW t \in DOMAIN teams' PROVE teams'[t].match \in DOMAIN matches'
    <3>1. CASE t \in DOMAIN teams
      BY <3>1, InsertSaveRows DEF IInv, TeamsHaveMatch
    <3>2. CASE t \notin DOMAIN teams
      BY <1>1, <1>5, <2>1, <3>2, InsertSaveRows
    <3>3. QED
      BY <3>1, <3>2
  <2>2. QED
    BY <2>1 DEF TeamsHaveMatch
<1>7. ResultsAreSettled'
  BY InsertSaveRows DEF IInv, ResultsAreSettled
<1>8. QED
  BY <1>2, <1>4, <1>6, <1>7 DEF IInv

LEMMA EditStep ==
    ASSUME IInv, NEW c \in Calls, NEW m, NEW sheet \in Sheets, MatchEdit(c, m, sheet)
    PROVE  IInv'
<1> DEFINE row == [matches[m] EXCEPT !.bets = BetsOf(sheet, @), !.type = TypeOf(sheet.type, @)]
<1> DEFINE k == [op |-> "DeleteTeams", match |-> m, sheet |-> sheet, row |-> row,
                 ids |-> TeamsOf(m)]
<1>1. IsSheet(sheet) /\ m \in DOMAIN matches /\ matches[m] \in MatchRow
  BY SheetsAssumption, Tables2 DEF MatchEdit, IInv
<1>2. row \in MatchRow /\ row.status = "READY"
  <2>1. BetsOf(sheet, matches[m].bets) \in Bets
    BY <1>1, BetsOfRow DEF MatchRow
  <2>2. TypeOf(sheet.type, matches[m].type) \in MatchType
    BY <1>1 DEF IsSheet, TypeOf, MatchRow
  <2>3. QED
    BY <1>1, <2>1, <2>2 DEF MatchRow, MatchEdit
<1>3. Await(c, k) /\ Quiet
  BY DEF MatchEdit, Quiet
<1> HIDE DEF row
<1>4. Good(k)
  BY <1>1, <1>2 DEF MatchEdit, Good, Valid, Ops, Inserts, Edits, Settles, Saves
<1>5. QED
  BY <1>3, <1>4, QuietAwait

LEMMA EditDeleteTeamsStep ==
    ASSUME IInv, NEW c, MatchEditDeleteTeams(c)
    PROVE  IInv'
<1> DEFINE k == [op |-> "FindNewPlayers", match |-> inflight[c].match,
                 sheet |-> inflight[c].sheet, row |-> inflight[c].row]
<1>1. c \in Calls /\ Good(inflight[c]) /\ inflight[c].op = "DeleteTeams"
  BY AtCall DEF MatchEditDeleteTeams
<1>2. TypeOK /\ CallsInv /\ TeamsHaveMatch /\ ResultsAreSettled
      /\ DOMAIN teams = 1..Len(teams) /\ Len(teams) \in Nat
  BY Tables2 DEF IInv
<1>3. /\ Await(c, k) /\ UNCHANGED <<sessionStatus, members, matches, settled>>
      /\ DOMAIN teams' = DOMAIN teams
      /\ \A t \in DOMAIN teams : teams'[t] \in TeamRow /\ teams'[t].match = teams[t].match
                                 /\ teams'[t].result = teams[t].result
  <2>1. \A t \in DOMAIN teams : teams[t] \in TeamRow
    BY <1>2, Tables2
  <2>2. QED
    BY <2>1 DEF MatchEditDeleteTeams, TeamRow
<1>4. teams' \in Seq(TeamRow) /\ Len(teams') = Len(teams)
  <2>1. teams' \in [1..Len(teams) -> TeamRow]
    BY <1>2, <1>3 DEF MatchEditDeleteTeams
  <2>2. QED
    BY <1>2, <2>1, SeqOf
<1>5. TypeOK'
  BY <1>1, <1>2, <1>3, <1>4 DEF TypeOK, Await, Put
<1>6. Grows
  BY <1>2, <1>3, Tables2 DEF Grows
<1>7. Good(k)
  BY <1>1 DEF Good, Valid, Ops, Inserts, Edits, Settles, Saves
<1> HIDE DEF k
<1>8. CallsInv'
  BY <1>2, <1>3, <1>5, <1>6, <1>7, GoodStays, CallsAwait
<1>9. QED
  BY <1>2, <1>3, <1>5, <1>8 DEF IInv, TeamsHaveMatch, ResultsAreSettled

LEMMA EditFindPlayersStep ==
    ASSUME IInv, NEW c, MatchEditFindPlayers(c)
    PROVE  IInv'
<1> DEFINE h == inflight[c]
<1> DEFINE k == [op |-> "SaveMatch", match |-> h.match, row |-> h.row,
                 keep |-> EmptyTable, fresh |-> NewTeams(h.sheet, h.match)]
<1>1. c \in Calls /\ Good(h) /\ h.op = "FindNewPlayers" /\ Quiet
  BY AtCall DEF MatchEditFindPlayers, Quiet
<1>2. CASE h.sheet.teams # <<>> /\ Await(c, k)
  <2>1. /\ IsSheet(h.sheet) /\ ValidTeams(h.sheet)
        /\ h.match \in DOMAIN matches /\ h.row \in MatchRow /\ h.row.status = "READY"
    BY <1>1, <1>2 DEF Good, Valid, Inserts, Edits
  <2>2. h.match \in MatchIds
    BY <2>1, Tables2 DEF IInv
  <2>3. IsFresh(k)
    BY <2>1, <2>2, NewTeamsRows DEF IsFresh
  <2>4. Keeps(k) /\ Paid(k)
    BY <2>1 DEF Keeps, Paid, EmptyTable
  <2>5. k.op = "SaveMatch" /\ k.match \in DOMAIN matches /\ k.row \in MatchRow
    BY <2>1
  <2> HIDE DEF k
  <2>6. Good(k)
    BY <2>3, <2>4, <2>5 DEF Good, Ops, Inserts, Edits, Settles, Saves
  <2>7. QED
    BY <1>1, <1>2, <2>6, QuietAwait
<1>3. CASE Answer(c)
  BY <1>1, <1>3, QuietAnswer
<1>4. QED
  BY <1>2, <1>3 DEF MatchEditFindPlayers

LEMMA StartStep ==
    ASSUME IInv, NEW c \in Calls, NEW m, MatchStart(c, m)
    PROVE  IInv'
<1> DEFINE row == [matches[m] EXCEPT !.status = "STARTED"]
<1> DEFINE k == [op |-> "SaveMatch", match |-> m, row |-> row,
                 keep |-> Loaded(m), fresh |-> <<>>]
<1>1. m \in DOMAIN matches /\ matches[m] \in MatchRow
      /\ \A t \in DOMAIN teams : teams[t] \in TeamRow
  BY Tables2 DEF MatchStart, IInv
<1>2. row \in MatchRow /\ row.status = "STARTED"
  BY <1>1 DEF MatchRow, MatchStatus
<1>3. Await(c, k) /\ Quiet
  BY DEF MatchStart, Quiet
<1>4. Keeps(k)
  BY <1>1 DEF Keeps, Loaded, TeamsOf
<1>5. IsFresh(k)
  BY DEF IsFresh
<1> HIDE DEF row
<1>6. Paid(k)
  BY <1>2 DEF Paid, Loaded, TeamsOf, IInv, ResultsAreSettled
<1>7. k.op = "SaveMatch" /\ k.match \in DOMAIN matches /\ k.row \in MatchRow
  BY <1>1, <1>2
<1> HIDE DEF k
<1>8. Good(k)
  BY <1>4, <1>5, <1>6, <1>7 DEF Good, Ops, Inserts, Edits, Settles, Saves
<1>9. QED
  BY <1>3, <1>8, QuietAwait

LEMMA FinishStep ==
    ASSUME IInv, NEW c \in Calls, NEW m, NEW w, NEW l, NEW resent,
           NEW type \in TypesResent, MatchFinish(c, m, w, l, resent, type)
    PROVE  IInv'
<1> DEFINE row == [matches[m] EXCEPT !.status = "FINISHED",
                      !.bets = [o \in Orders |-> IF o \in resent THEN 0 ELSE @[o]],
                      !.type = TypeOf(type, @)]
<1> DEFINE keep == [t \in {w, l} |->
                      [teams[t] EXCEPT !.result = IF t = w THEN "WINNER" ELSE "LOSER"]]
<1> DEFINE k == [op |-> "FindMembers", match |-> m, winner |-> w, loser |-> l,
                 bets |-> matches[m].bets, row |-> row, keep |-> keep]
<1>1. m \in DOMAIN matches /\ matches[m] \in MatchRow
      /\ \A t \in DOMAIN teams : teams[t] \in TeamRow
  BY Tables2 DEF MatchFinish, IInv
<1>2. row \in MatchRow
  <2>1. [o \in Orders |-> IF o \in resent THEN 0 ELSE matches[m].bets[o]] \in Bets
    BY <1>1 DEF MatchRow, Bets
  <2>2. TypeOf(type, matches[m].type) \in MatchType
    BY <1>1, ResentAssumption DEF TypeOf, MatchRow
  <2>3. QED
    BY <1>1, <2>1, <2>2 DEF MatchRow, MatchStatus
<1>3. {w, l} \subseteq DOMAIN teams /\ \A t \in {w, l} : teams[t].match = m
  BY DEF MatchFinish, TeamsOf
<1>4. keep \in [{w, l} -> TeamRow] /\ \A t \in {w, l} : keep[t].match = m
  BY <1>1, <1>3 DEF TeamRow, TeamResult
<1>5. Await(c, k) /\ Quiet
  BY DEF MatchFinish, Quiet
<1> HIDE DEF row, keep
<1>6. Keeps(k)
  BY <1>3, <1>4 DEF Keeps
<1>7. k.op = "FindMembers" /\ k.match \in DOMAIN matches /\ k.row \in MatchRow
  BY <1>1, <1>2
<1> HIDE DEF k
<1>8. Good(k)
  BY <1>6, <1>7 DEF Good, Ops, Inserts, Edits, Settles, Saves
<1>9. QED
  BY <1>5, <1>8, QuietAwait

LEMMA FindMembersStep ==
    ASSUME IInv, NEW c, MatchFinishFindMembers(c)
    PROVE  IInv'
<1> DEFINE h == inflight[c]
<1>1. c \in Calls /\ Good(h) /\ h.op = "FindMembers" /\ Quiet
  BY AtCall DEF MatchFinishFindMembers, Quiet
<1>2. CASE Answer(c)
  BY <1>1, <1>2, QuietAnswer
<1>3. CASE ~Answer(c)
  <2> DEFINE amounts(chosen) ==
        [m \in Range(chosen) |-> members[m].winningAmount
                                    + Stake(h.keep[h.winner], h.bets, chosen, m)
                                    - Stake(h.keep[h.loser], h.bets, chosen, m)]
  <2> DEFINE k(chosen) == [op |-> "SaveMembers", match |-> h.match, row |-> h.row,
                           keep |-> h.keep, amounts |-> amounts(chosen)]
  <2> DEFINE users == {p.user : p \in PlayersOf(h.keep)}
  <2>1. PICK chosen \in [users -> LiveMembers] : Await(c, k(chosen))
    BY <1>3 DEF MatchFinishFindMembers
  <2>2. DOMAIN amounts(chosen) \subseteq Members
    BY <2>1 DEF Range, LiveMembers
  <2> HIDE DEF amounts
  <2>3. h.match \in DOMAIN matches /\ h.row \in MatchRow /\ Keeps(h)
    BY <1>1 DEF Good, Inserts, Settles
  <2>4. /\ k(chosen).op = "SaveMembers" /\ k(chosen).match \in DOMAIN matches
        /\ k(chosen).row \in MatchRow /\ DOMAIN k(chosen).amounts \subseteq Members
    BY <2>2, <2>3
  <2>5. Keeps(k(chosen))
    BY <2>3 DEF Keeps
  <2> HIDE DEF k
  <2>6. Good(k(chosen))
    BY <2>4, <2>5 DEF Good, Ops, Inserts, Edits, Settles, Saves
  <2>7. QED
    BY <1>1, <2>1, <2>6, QuietAwait
<1>4. QED
  BY <1>2, <1>3

LEMMA ReadMembersStep ==
    ASSUME IInv, NEW c, MatchFinishReadMembers(c)
    PROVE  IInv'
<1> DEFINE h == inflight[c]
<1> DEFINE k == [op |-> "WriteMembers", match |-> h.match, row |-> h.row,
                 keep |-> h.keep, amounts |-> h.amounts,
                 seen |-> [m \in DOMAIN h.amounts |-> members[m]]]
<1>1. c \in Calls /\ Good(h) /\ h.op = "SaveMembers" /\ Quiet
  BY AtCall DEF MatchFinishReadMembers, Quiet
<1>2. /\ h.match \in DOMAIN matches /\ h.row \in MatchRow /\ Keeps(h)
      /\ DOMAIN h.amounts \subseteq Members
  BY <1>1 DEF Good, Inserts, Settles
<1>3. k.seen \in [DOMAIN k.amounts -> MemberRow]
  BY <1>2 DEF IInv, TypeOK
<1>4. /\ k.op = "WriteMembers" /\ k.match \in DOMAIN matches /\ k.row \in MatchRow
      /\ DOMAIN k.amounts \subseteq Members
  BY <1>2
<1>5. Keeps(k)
  BY <1>2 DEF Keeps
<1>6. Await(c, k)
  BY DEF MatchFinishReadMembers
<1> HIDE DEF k
<1>7. Good(k)
  BY <1>3, <1>4, <1>5 DEF Good, Ops, Inserts, Edits, Settles, Saves
<1>8. QED
  BY <1>1, <1>6, <1>7, QuietAwait

\* The write that settles the match: from here on its results may be shown.
LEMMA WriteMembersStep ==
    ASSUME IInv, NEW c, MatchFinishWriteMembers(c)
    PROVE  IInv'
<1> DEFINE h == inflight[c]
<1> PICK k : k = [op |-> "SaveMatch", match |-> h.match, row |-> h.row,
                  keep |-> h.keep, fresh |-> <<>>]
  OBVIOUS
<1> DEFINE write(m) ==
        [winningAmount |-> Column(members[m].winningAmount,
                                  h.seen[m].winningAmount, h.amounts[m]),
         live |-> Column(members[m].live, h.seen[m].live, TRUE)]
<1>1. c \in Calls /\ Good(h) /\ h.op = "WriteMembers"
  BY AtCall DEF MatchFinishWriteMembers
<1>2. /\ h.match \in DOMAIN matches /\ h.row \in MatchRow /\ Keeps(h)
      /\ DOMAIN h.amounts \subseteq Members
      /\ h.seen \in [DOMAIN h.amounts -> MemberRow]
  BY <1>1 DEF Good, Inserts, Settles
<1>3. TypeOK /\ CallsInv /\ h.match \in MatchIds /\ settled \in [MatchIds -> Nat]
  BY <1>2, Tables2 DEF IInv, TypeOK
<1>4. /\ Await(c, k) /\ UNCHANGED <<sessionStatus, matches, teams>>
      /\ members' = [m \in Members |-> IF m \in DOMAIN h.amounts THEN write(m) ELSE members[m]]
      /\ settled' = [settled EXCEPT ![h.match] = @ + 1]
      /\ \A m \in DOMAIN h.amounts : write(m).winningAmount \in -MaxMoney..MaxMoney
  BY DEF MatchFinishWriteMembers
<1>5. members' \in [Members -> MemberRow]
  <2>1. ASSUME NEW m \in DOMAIN h.amounts
        PROVE  write(m) \in MemberRow
    <3>1. members[m] \in MemberRow /\ h.seen[m] \in MemberRow
      BY <1>2, <1>3 DEF TypeOK
    <3>2. write(m).winningAmount \in Int
      BY <1>4, BoundsAssumption
    <3>3. write(m).live \in BOOLEAN
      BY <3>1 DEF Column, MemberRow
    <3>4. QED
      BY <3>2, <3>3 DEF MemberRow
  <2> HIDE DEF write
  <2>2. QED
    BY <1>3, <1>4, <2>1 DEF TypeOK
<1>6. /\ settled' \in [MatchIds -> Nat]
      /\ \A m \in MatchIds : settled'[m] >= settled[m]
      /\ settled'[h.match] >= 1
  BY <1>3, <1>4
<1>7. (DOMAIN inflight)' \subseteq Calls
  BY <1>1, <1>3, <1>4 DEF TypeOK, Await, Put
<1>8. TypeOK'
  BY <1>3, <1>4, <1>5, <1>6, <1>7 DEF TypeOK
<1>9. Grows
  BY <1>3, <1>4, <1>6 DEF Grows
<1>10. Good(k)'
  <2>1. k.op = "SaveMatch" /\ k.match \in DOMAIN matches' /\ k.row \in MatchRow
    BY <1>2, <1>4
  <2>2. Keeps(k)'
    BY <1>2, <1>4 DEF Keeps
  <2>3. IsFresh(k)
    BY DEF IsFresh
  <2>4. Paid(k)'
    BY <1>6 DEF Paid
  <2>5. QED
    BY <2>1, <2>2, <2>3, <2>4 DEF Good, IsFresh, Ops, Inserts, Edits, Settles, Saves
<1>11. CallsInv'
  BY <1>3, <1>4, <1>8, <1>9, <1>10, CallsAwait
<1>12. ResultsAreSettled'
  <2>1. \A m \in MatchIds : settled[m] >= 1 => settled'[m] >= 1
    BY <1>3, <1>6
  <2>2. (\A m \in DOMAIN matches : m \in MatchIds) /\ \A t \in DOMAIN teams : teams[t].match \in MatchIds
    BY <1>3, Tables2 DEF IInv, TeamsHaveMatch
  <2>3. QED
    BY <1>4, <2>1, <2>2 DEF IInv, ResultsAreSettled
<1>13. QED
  BY <1>4, <1>8, <1>11, <1>12 DEF IInv, TeamsHaveMatch

LEMMA SaveReadStep ==
    ASSUME IInv, NEW c, MatchSaveRead(c)
    PROVE  IInv'
<1> DEFINE h == inflight[c]
<1> DEFINE k == [op |-> "WriteMatch", match |-> h.match, row |-> h.row,
                 keep |-> h.keep, fresh |-> h.fresh, seen |-> matches[h.match],
                 seenTeams |-> [t \in DOMAIN h.keep |-> teams[t]],
                 orphans |-> TeamsOf(h.match) \ DOMAIN h.keep]
<1>1. c \in Calls /\ Good(h) /\ h.op = "SaveMatch" /\ Quiet
  BY AtCall DEF MatchSaveRead, Quiet
<1>2. /\ h.match \in DOMAIN matches /\ h.row \in MatchRow /\ Keeps(h)
      /\ IsFresh(h) /\ Paid(h)
  BY <1>1 DEF Good, Inserts, Saves
<1>3. k.seen \in MatchRow /\ k.seenTeams \in [DOMAIN k.keep -> TeamRow]
  BY <1>2, Tables2 DEF IInv, Keeps
<1>4. k.op = "WriteMatch" /\ k.match \in DOMAIN matches /\ k.row \in MatchRow
  BY <1>2
<1>5. Keeps(k) /\ IsFresh(k) /\ Paid(k)
  BY <1>2 DEF Keeps, IsFresh, Paid
<1>6. Await(c, k)
  BY DEF MatchSaveRead
<1> HIDE DEF k
<1>7. Good(k)
  BY <1>3, <1>4, <1>5 DEF Good, Ops, Inserts, Edits, Settles, Saves
<1>8. QED
  BY <1>1, <1>6, <1>7, QuietAwait

\* The save was rolled back: its step changes nothing.
RolledBack(k) == \E t \in DOMAIN k.keep : k.seenTeams[t].place = "deleted" /\ teams[t].place # "deleted"

\* What the save of k writes to the match and to the teams that were there.
SavedMatch(k) ==
    LET current == matches[k.match]
    IN  [status |-> Column(current.status, k.seen.status, k.row.status),
         type |-> Column(current.type, k.seen.type, k.row.type),
         bets |-> [o \in Orders |-> Column(current.bets[o], k.seen.bets[o], k.row.bets[o])],
         live |-> Column(current.live, k.seen.live, TRUE)]

SavedTeam(k, t) ==
    IF t \in DOMAIN k.keep /\ k.seenTeams[t].place = "deleted" THEN k.keep[t]
    ELSE IF t \in DOMAIN k.keep
         THEN IF teams[t].place = "deleted" THEN teams[t]
              ELSE [teams[t] EXCEPT
                        !.result = Column(@, k.seenTeams[t].result, k.keep[t].result),
                        !.place = Column(@, k.seenTeams[t].place, "attached")]
    ELSE IF t \in k.orphans /\ teams[t].place # "deleted"
         THEN [teams[t] EXCEPT !.place = "detached"]
    ELSE teams[t]

LEMMA SaveWriteCases ==
    ASSUME NEW c, MatchSaveWrite(c)
    PROVE  LET k == inflight[c] IN
           /\ Answer(c) /\ UNCHANGED <<sessionStatus, members, settled>>
           /\ \/ RolledBack(k) /\ UNCHANGED <<matches, teams>>
              \/ /\ ~RolledBack(k)
                 /\ Len(teams) + Len(k.fresh) <= MaxTeams
                 /\ matches' = Put(matches, k.match, SavedMatch(k))
                 /\ teams' = [t \in DOMAIN teams |-> SavedTeam(k, t)] \o k.fresh
<1> DEFINE k == inflight[c]
           inserted == {t \in DOMAIN k.keep : k.seenTeams[t].place = "deleted"}
           update(t) == IF teams[t].place = "deleted" THEN teams[t]
                        ELSE [teams[t] EXCEPT
                            !.result = Column(@, k.seenTeams[t].result, k.keep[t].result),
                            !.place = Column(@, k.seenTeams[t].place, "attached")]
           detach(t) == IF teams[t].place = "deleted" THEN teams[t]
                        ELSE [teams[t] EXCEPT !.place = "detached"]
           kept == [t \in DOMAIN teams |->
                        IF t \in inserted THEN k.keep[t]
                        ELSE IF t \in DOMAIN k.keep THEN update(t)
                        ELSE IF t \in k.orphans THEN detach(t)
                        ELSE teams[t]]
<1>1. RolledBack(k) <=> \E t \in inserted : teams[t].place # "deleted"
  BY DEF RolledBack
<1>2. kept = [t \in DOMAIN teams |-> SavedTeam(k, t)]
  <2>1. ASSUME NEW t \in DOMAIN teams
        PROVE  (IF t \in inserted THEN k.keep[t]
                ELSE IF t \in DOMAIN k.keep THEN update(t)
                ELSE IF t \in k.orphans THEN detach(t)
                ELSE teams[t]) = SavedTeam(k, t)
    BY DEF SavedTeam
  <2>2. QED
    BY <2>1
<1>3. /\ Answer(c) /\ UNCHANGED <<sessionStatus, members, settled>>
      /\ IF \E t \in inserted : teams[t].place # "deleted"
         THEN UNCHANGED <<matches, teams>>
         ELSE /\ Len(teams) + Len(k.fresh) <= MaxTeams
              /\ matches' = Put(matches, k.match, SavedMatch(k))
              /\ teams' = kept \o k.fresh
  BY DEF MatchSaveWrite, SavedMatch
<1> HIDE DEF inserted, kept
<1>4. QED
  BY <1>1, <1>2, <1>3

LEMMA SavedMatchRow ==
    ASSUME IInv, NEW k, Good(k), k.op = "WriteMatch"
    PROVE  /\ SavedMatch(k) \in MatchRow
           /\ SavedMatch(k).status \in {matches[k.match].status, k.row.status}
<1>1. k.seen \in MatchRow /\ k.row \in MatchRow
  BY DEF Good, Saves
<1>2. matches[k.match] \in MatchRow
  BY Tables2 DEF Good, Inserts, IInv
<1>3. SavedMatch(k).bets \in Bets
  BY <1>1, <1>2 DEF SavedMatch, Column, MatchRow, Bets
<1>4. SavedMatch(k) = [status |-> SavedMatch(k).status, type |-> SavedMatch(k).type,
                       bets |-> SavedMatch(k).bets, live |-> SavedMatch(k).live]
  BY DEF SavedMatch
<1>5. /\ SavedMatch(k).status \in MatchStatus /\ SavedMatch(k).type \in MatchType
      /\ SavedMatch(k).live \in BOOLEAN
      /\ SavedMatch(k).status \in {matches[k.match].status, k.row.status}
  BY <1>1, <1>2 DEF SavedMatch, Column, MatchRow
<1>6. QED
  BY <1>3, <1>4, <1>5 DEF MatchRow

LEMMA SavedTeamRow ==
    ASSUME IInv, NEW k, Good(k), k.op = "WriteMatch", NEW t \in DOMAIN teams
    PROVE  /\ SavedTeam(k, t) \in TeamRow
           /\ SavedTeam(k, t).match = teams[t].match
           /\ \/ SavedTeam(k, t).result = teams[t].result
              \/ t \in DOMAIN k.keep /\ SavedTeam(k, t).result = k.keep[t].result
<1>1. /\ Keeps(k) /\ k.seenTeams \in [DOMAIN k.keep -> TeamRow]
      /\ teams[t] \in TeamRow
  BY Tables2 DEF Good, Saves, IInv
<1>2. CASE t \in DOMAIN k.keep
  <2>1. k.keep[t] \in TeamRow /\ k.seenTeams[t] \in TeamRow /\ teams[t].match = k.match
        /\ k.keep[t].match = k.match
    BY <1>1, <1>2 DEF Keeps
  <2>2. QED
    BY <1>1, <1>2, <2>1 DEF SavedTeam, Column, TeamRow
<1>3. CASE t \notin DOMAIN k.keep
  BY <1>1, <1>3 DEF SavedTeam, TeamRow
<1>4. QED
  BY <1>2, <1>3

\* What a save leaves in the tables.
LEMMA SaveWriteRows ==
    ASSUME IInv, NEW c, MatchSaveWrite(c), ~RolledBack(inflight[c])
    PROVE  LET k == inflight[c] IN
           /\ matches' \in Seq(MatchRow) /\ Len(matches') = Len(matches)
           /\ teams' \in Seq(TeamRow) /\ Len(teams') = Len(teams) + Len(k.fresh)
           /\ \A m \in DOMAIN matches :
                 matches'[m] = IF m = k.match THEN SavedMatch(k) ELSE matches[m]
           /\ \A t \in DOMAIN teams : t \in DOMAIN teams' /\ teams'[t] = SavedTeam(k, t)
           /\ \A t \in DOMAIN teams' : t \notin DOMAIN teams =>
                 \E i \in DOMAIN k.fresh : t = Len(teams) + i /\ teams'[t] = k.fresh[i]
<1> DEFINE k == inflight[c]
<1>1. /\ Good(k) /\ k.op = "WriteMatch" /\ matches \in Seq(MatchRow)
      /\ DOMAIN matches = 1..Len(matches) /\ Len(matches) \in Nat
      /\ DOMAIN teams = 1..Len(teams) /\ Len(teams) \in Nat
  BY AtCall, Tables2 DEF MatchSaveWrite, IInv, TypeOK
<1>2. k.match \in DOMAIN matches /\ k.fresh \in Seq(TeamRow)
  BY <1>1 DEF Good, Inserts, Saves, IsFresh
<1> DEFINE kept == [t \in DOMAIN teams |-> SavedTeam(k, t)]
<1>3. matches' = Put(matches, k.match, SavedMatch(k)) /\ teams' = kept \o k.fresh
  BY SaveWriteCases
<1>4. matches' \in [1..Len(matches) -> MatchRow]
      /\ \A m \in DOMAIN matches :
            matches'[m] = IF m = k.match THEN SavedMatch(k) ELSE matches[m]
  <2>1. SavedMatch(k) \in MatchRow /\ \A m \in DOMAIN matches : matches[m] \in MatchRow
    BY <1>1, SavedMatchRow, Tables2 DEF IInv
  <2> HIDE DEF k
  <2>2. QED
    BY <1>1, <1>2, <1>3, <2>1 DEF Put
<1>5. matches' \in Seq(MatchRow) /\ Len(matches') = Len(matches)
  BY <1>1, <1>4, SeqOf
<1>6. kept \in [1..Len(teams) -> TeamRow]
  BY <1>1, SavedTeamRow
<1>7. kept \in Seq(TeamRow) /\ Len(kept) = Len(teams)
  BY <1>1, <1>6, SeqOf
<1>8. \A t \in DOMAIN teams : kept[t] = SavedTeam(k, t)
  OBVIOUS
<1>9. Len(k.fresh) \in Nat /\ DOMAIN k.fresh = 1..Len(k.fresh)
  BY <1>2, SeqFacts
<1> DEFINE fresh == k.fresh
<1> HIDE DEF kept
<1>10. /\ kept \o fresh \in Seq(TeamRow) /\ Len(kept \o fresh) = Len(kept) + Len(fresh)
       /\ DOMAIN (kept \o fresh) = 1..(Len(kept) + Len(fresh))
       /\ \A i \in 1..Len(kept) : (kept \o fresh)[i] = kept[i]
       /\ \A i \in 1..(Len(kept) + Len(fresh)) : i \notin 1..Len(kept) =>
             i - Len(kept) \in 1..Len(fresh) /\ (kept \o fresh)[i] = fresh[i - Len(kept)]
  <2>1. kept \in Seq(TeamRow) /\ fresh \in Seq(TeamRow)
    BY <1>2, <1>7
  <2> HIDE DEF fresh
  <2>2. QED
    BY <2>1, AppendRows
<1>11. \A t \in DOMAIN teams' : t \notin DOMAIN teams =>
          \E i \in DOMAIN k.fresh : t = Len(teams) + i /\ teams'[t] = k.fresh[i]
  <2>1. ASSUME NEW t \in DOMAIN teams', t \notin DOMAIN teams
        PROVE  \E i \in DOMAIN fresh : t = Len(teams) + i /\ teams'[t] = fresh[i]
    <3>1. t \in 1..(Len(kept) + Len(fresh)) /\ t \notin 1..Len(kept)
      BY <1>1, <1>3, <1>7, <1>10, <2>1
    <3>2. t - Len(teams) \in DOMAIN fresh /\ teams'[t] = fresh[t - Len(teams)]
      BY <1>3, <1>7, <1>9, <1>10, <3>1
    <3>3. t = Len(teams) + (t - Len(teams))
      BY <1>1, <1>7, <1>9, <3>1
    <3>4. QED
      BY <3>2, <3>3
  <2>2. QED
    BY <2>1
<1>12. \A t \in DOMAIN teams : t \in DOMAIN teams' /\ teams'[t] = SavedTeam(k, t)
  BY <1>1, <1>3, <1>7, <1>8, <1>9, <1>10
<1>13. QED
  BY <1>3, <1>4, <1>5, <1>7, <1>10, <1>11, <1>12

LEMMA SaveWriteStep ==
    ASSUME IInv, NEW c, MatchSaveWrite(c)
    PROVE  IInv'
<1> DEFINE k == inflight[c]
<1>1. Answer(c) /\ UNCHANGED <<sessionStatus, members, settled>>
  BY SaveWriteCases
<1>2. CASE RolledBack(k)
  BY <1>1, <1>2, SaveWriteCases, QuietAnswer DEF Quiet
<1>3. CASE ~RolledBack(k)
  <2>1. /\ TypeOK /\ CallsInv /\ TeamsHaveMatch /\ ResultsAreSettled
        /\ Good(k) /\ k.op = "WriteMatch"
        /\ DOMAIN matches = 1..Len(matches) /\ Len(matches) \in Nat
    BY AtCall, Tables2 DEF MatchSaveWrite, IInv
  <2>2. k.match \in DOMAIN matches /\ IsFresh(k) /\ Paid(k) /\ Keeps(k)
    BY <2>1 DEF Good, Inserts, Saves
  <2>3. /\ matches' \in Seq(MatchRow) /\ Len(matches') = Len(matches)
        /\ teams' \in Seq(TeamRow) /\ Len(teams') = Len(teams) + Len(k.fresh)
        /\ \A m \in DOMAIN matches :
              matches'[m] = IF m = k.match THEN SavedMatch(k) ELSE matches[m]
        /\ \A t \in DOMAIN teams : t \in DOMAIN teams' /\ teams'[t] = SavedTeam(k, t)
        /\ \A t \in DOMAIN teams' : t \notin DOMAIN teams =>
              \E i \in DOMAIN k.fresh : t = Len(teams) + i /\ teams'[t] = k.fresh[i]
    BY <1>3, SaveWriteRows
  <2>4. DOMAIN matches' = DOMAIN matches
    BY <2>1, <2>3, SeqFacts
  <2>5. Len(teams') <= MaxTeams
    BY <1>3, <2>3, SaveWriteCases
  <2>6. TypeOK'
    BY <1>1, <2>1, <2>3, <2>5 DEF TypeOK, Answer, Drop
  <2>7. \A t \in DOMAIN teams :
            /\ teams'[t].match = teams[t].match
            /\ \/ teams'[t].result = teams[t].result
               \/ t \in DOMAIN k.keep /\ teams'[t].result = k.keep[t].result
    BY <2>1, <2>3, SavedTeamRow
  <2>8. Grows
    BY <1>1, <2>1, <2>3, <2>4, <2>7, Tables2 DEF Grows
  <2>9. CallsInv'
    BY <1>1, <2>1, <2>6, <2>8, CallsAnswer
  <2>10. ASSUME NEW t \in DOMAIN teams'
         PROVE  /\ teams'[t].match \in DOMAIN matches'
                /\ teams'[t].result # "none" => settled'[teams'[t].match] >= 1
    <3>1. CASE t \in DOMAIN teams
      <4>1. teams[t].match \in DOMAIN matches
        BY <2>1, <3>1 DEF TeamsHaveMatch
      <4>2. teams[t].result # "none" => settled[teams[t].match] >= 1
        BY <2>1, <3>1 DEF ResultsAreSettled
      <4>3. t \in DOMAIN k.keep /\ k.keep[t].result # "none" => settled[teams[t].match] >= 1
        BY <2>2 DEF Paid, Keeps
      <4>4. QED
        BY <1>1, <2>4, <2>7, <3>1, <4>1, <4>2, <4>3
    <3>2. CASE t \notin DOMAIN teams
      <4>1. PICK i \in DOMAIN k.fresh : teams'[t] = k.fresh[i]
        BY <2>3, <3>2
      <4>2. teams'[t].match = k.match /\ teams'[t].result = "none"
        BY <2>2, <4>1 DEF IsFresh
      <4>3. QED
        BY <2>2, <2>4, <4>2
    <3>3. QED
      BY <3>1, <3>2
  <2>11. ASSUME NEW m \in DOMAIN matches', matches'[m].status = "FINISHED"
         PROVE  settled'[m] >= 1
    <3>1. CASE m = k.match
      <4>1. SavedMatch(k).status \in {matches[m].status, k.row.status}
        BY <2>1, <3>1, SavedMatchRow
      <4>2. matches[m].status = "FINISHED" \/ k.row.status = "FINISHED"
        BY <2>2, <2>3, <2>11, <3>1, <4>1
      <4>3. QED
        BY <1>1, <2>1, <2>2, <3>1, <4>2 DEF Paid, ResultsAreSettled
    <3>2. CASE m # k.match
      BY <1>1, <2>1, <2>3, <2>4, <2>11, <3>2 DEF ResultsAreSettled
    <3>3. QED
      BY <3>1, <3>2
  <2>12. QED
    BY <2>6, <2>9, <2>10, <2>11 DEF IInv, TeamsHaveMatch, ResultsAreSettled
<1>4. QED
  BY <1>2, <1>3

LEMMA RemoveStep ==
    ASSUME IInv, NEW c \in Calls, NEW m, MatchRemove(c, m)
    PROVE  IInv'
<1> DEFINE k == [op |-> "DeleteMatch", match |-> m]
<1>1. Good(k)
  BY DEF MatchRemove, Good, Ops, Inserts, Edits, Settles, Saves
<1>2. Await(c, k) /\ Quiet
  BY DEF MatchRemove, Quiet
<1>3. QED
  BY <1>1, <1>2, QuietAwait

LEMMA RemoveDeleteStep ==
    ASSUME IInv, NEW c, MatchRemoveDelete(c)
    PROVE  IInv'
<1> DEFINE m == inflight[c].match
<1>1. TypeOK /\ CallsInv /\ m \in DOMAIN matches
  BY AtCall DEF MatchRemoveDelete, Good, Inserts, IInv
<1>2. Answer(c) /\ UNCHANGED <<sessionStatus, members, teams, settled>>
  BY DEF MatchRemoveDelete
<1>3. /\ DOMAIN matches = 1..Len(matches) /\ Len(matches) \in Nat
      /\ \A x \in DOMAIN matches : matches[x] \in MatchRow
  BY <1>1, Tables2
<1>4. /\ DOMAIN matches' = DOMAIN matches
      /\ \A x \in DOMAIN matches :
            matches'[x] \in MatchRow /\ matches'[x].status = matches[x].status
  BY <1>3 DEF MatchRemoveDelete, MatchRow
<1>5. matches' \in Seq(MatchRow) /\ Len(matches') = Len(matches)
  <2>1. matches' \in [1..Len(matches) -> MatchRow]
    BY <1>3, <1>4 DEF MatchRemoveDelete
  <2>2. QED
    BY <1>3, <2>1, SeqOf
<1>6. TypeOK'
  BY <1>1, <1>2, <1>5 DEF TypeOK, Answer, Drop
<1>7. Grows
  BY <1>1, <1>2, <1>4, Tables2 DEF Grows
<1>8. CallsInv'
  BY <1>1, <1>2, <1>6, <1>7, CallsAnswer
<1>9. QED
  BY <1>2, <1>4, <1>6, <1>8 DEF IInv, TeamsHaveMatch, ResultsAreSettled

LEMMA AbortStep ==
    ASSUME IInv, NEW c, Abort(c)
    PROVE  IInv'
BY QuietAnswer DEF Abort, Quiet

-----------------------------------------------------------------------------
(* Theorems about calls that interleave *)

\* A disjunct of Next: the environment moves, or a call begins, goes on or fails.
\* The handlers that begin a call, the body of the request taken apart.
Asks(c) ==
    \/ \E sheet \in Sheets : MatchInsert(c, sheet)
    \/ \E m \in MatchIds, sheet \in Sheets : MatchEdit(c, m, sheet)
    \/ \E m \in MatchIds : MatchStart(c, m)
    \/ \E m \in MatchIds, w \in TeamIds, l \in TeamIds, resent \in BetsResent,
          type \in TypesResent : MatchFinish(c, m, w, l, resent, type)
    \/ \E m \in MatchIds : MatchRemove(c, m)

LEMMA ActionCases ==
    ASSUME Next
    PROVE  Environment \/ \E c \in Calls : Asks(c) \/ Continues(c) \/ Abort(c)
<1>1. ASSUME NEW c \in Calls, Begins(c)
      PROVE  Asks(c)
  <2>1. CASE \E m \in MatchIds, body \in UpdateMatchDto :
                body.status = "unset" /\ MatchEdit(c, m, body.sheet)
    <3>1. \A body \in UpdateMatchDto : body.status = "unset" => body.sheet \in Sheets
      BY DEF UpdateMatchDto
    <3>2. QED
      BY <2>1, <3>1 DEF Asks
  <2>2. CASE \E m \in MatchIds, body \in UpdateMatchDto :
                body.status = "STARTED" /\ MatchStart(c, m)
    BY <2>2 DEF Asks
  <2>3. CASE \E m \in MatchIds, body \in UpdateMatchDto :
                /\ body.status = "FINISHED"
                /\ \E l \in TeamIds : MatchFinish(c, m, body.winnerTeamId, l, body.bets, body.type)
    <3>1. \A body \in UpdateMatchDto : body.status = "FINISHED" =>
             body.winnerTeamId \in TeamIds /\ body.bets \in BetsResent /\ body.type \in TypesResent
      BY DEF UpdateMatchDto
    <3>2. QED
      BY <2>3, <3>1 DEF Asks
  <2>4. QED
    BY <1>1, <2>1, <2>2, <2>3 DEF Begins, Asks
<1>2. QED
  BY <1>1 DEF Next

LEMMA Inductive ==
    ASSUME IInv, [Next]_vars
    PROVE  IInv'
<1>1. CASE UNCHANGED vars
  BY <1>1, StutterStep
<1>2. CASE Next
  <2>1. CASE Environment
    BY <2>1, EnvironmentStep
  <2>2. CASE ~Environment
    <3>1. PICK c \in Calls : Asks(c) \/ Continues(c) \/ Abort(c)
      BY <1>2, <2>2, ActionCases
    <3>2. CASE Continues(c)
      BY <3>2, InsertFindPlayersStep, InsertSaveStep, EditDeleteTeamsStep, EditFindPlayersStep,
         FindMembersStep, ReadMembersStep, WriteMembersStep, SaveReadStep, SaveWriteStep,
         RemoveDeleteStep DEF Continues
    <3>3. CASE ~Continues(c)
      BY <3>1, <3>3, InsertStep, EditStep, StartStep, FinishStep, RemoveStep, AbortStep DEF Asks
    <3>4. QED
      BY <3>2, <3>3
  <2>3. QED
    BY <2>1, <2>2
<1>3. QED
  BY <1>1, <1>2

\* The inductive invariant holds.
THEOREM Invariance == Spec => []IInv
<1>1. Init => IInv
  BY InitInv
<1>2. IInv /\ [Next]_vars => IInv'
  BY Inductive
<1>3. QED
  BY <1>1, <1>2, PTL DEF Spec

\* Every table of MatchService holds rows of its type, within the bounds of the
\* model, however the calls interleave.
THEOREM TypeCorrect == Spec => []TypeOK
<1>1. IInv => TypeOK
  BY DEF IInv
<1>2. QED
  BY <1>1, Invariance, PTL

\* No match is shown as FINISHED and no team as winner or loser before the bets of
\* the match have reached the members (MatchService.change saves the members first).
THEOREM SettledFirst == Spec => []ResultsAreSettled
<1>1. IInv => ResultsAreSettled
  BY DEF IInv
<1>2. QED
  BY <1>1, Invariance, PTL

-----------------------------------------------------------------------------
(* One call at a time *)

OneAtATime == \A c, d \in Calls : c = d

\* What a step does to match m: nothing, or what its call has it do.  Once a match
\* is STARTED that changes no line-up, and once it is FINISHED it is nothing.
Untouched(m) ==
    /\ m \in DOMAIN matches' /\ matches'[m] = matches[m]
    /\ TeamsOf(m)' = TeamsOf(m)
    /\ \A t \in TeamsOf(m) : teams'[t] = teams[t]

SameLineup(m) ==
    \A t \in DOMAIN teams :
        /\ t \in TeamsOf(m)' <=> t \in TeamsOf(m)
        /\ t \in TeamsOf(m) => teams'[t].players = teams[t].players

Moved(m) ==
    /\ matches[m].status # "FINISHED"
    /\ matches[m].status = "STARTED" => SameLineup(m)
    /\ PairOf(m)' /\ ResultsOf(m)'

Effect ==
    /\ \A m \in DOMAIN matches : Untouched(m) \/ Moved(m)
    /\ \A m \in DOMAIN matches' : m \notin DOMAIN matches => PairOf(m)' /\ ResultsOf(m)'

LEMMA UntouchedStays ==
    ASSUME NEW m, PairOf(m), ResultsOf(m), Untouched(m)
    PROVE  PairOf(m)' /\ ResultsOf(m)' /\ SameLineup(m)
<1>1. \A t \in TeamsOf(m) : t \in DOMAIN teams' /\ t \in DOMAIN teams
  BY DEF Untouched, TeamsOf
<1>2. PairOf(m)'
  <2>1. CASE TeamsOf(m) = {}
    BY <2>1 DEF Untouched, PairOf
  <2>2. CASE \E a, b \in DOMAIN teams : a # b /\ TeamsOf(m) = {a, b}
    <3>1. PICK a, b : a # b /\ TeamsOf(m) = {a, b}
      BY <2>2
    <3>2. a \in DOMAIN teams' /\ b \in DOMAIN teams' /\ TeamsOf(m)' = {a, b}
      BY <1>1, <3>1 DEF Untouched
    <3>3. QED
      BY <3>1, <3>2 DEF PairOf
  <2>3. QED
    BY <2>1, <2>2 DEF PairOf
<1>3. ResultsOf(m)'
  <2>1. CASE matches[m].status = "FINISHED"
    <3>1. PICK w, l \in DOMAIN teams : /\ TeamsOf(m) = {w, l}
                                       /\ teams[w].result = "WINNER" /\ teams[l].result = "LOSER"
      BY <2>1 DEF ResultsOf
    <3>2. /\ w \in DOMAIN teams' /\ l \in DOMAIN teams' /\ TeamsOf(m)' = {w, l}
          /\ teams'[w].result = "WINNER" /\ teams'[l].result = "LOSER"
      BY <1>1, <3>1 DEF Untouched
    <3>3. QED
      BY <2>1, <3>2 DEF ResultsOf, Untouched
  <2>2. CASE matches[m].status # "FINISHED"
    BY <2>2 DEF ResultsOf, Untouched
  <2>3. QED
    BY <2>1, <2>2
<1>4. SameLineup(m)
  BY DEF SameLineup, Untouched
<1>5. QED
  BY <1>2, <1>3, <1>4

LEMMA EffectKeeps ==
    ASSUME MatchesInv, Effect
    PROVE  MatchesInv'
<1>1. ASSUME NEW m \in DOMAIN matches'
      PROVE  PairOf(m)' /\ ResultsOf(m)'
  BY UntouchedStays DEF Effect, Moved, MatchesInv
<1>2. QED
  BY <1>1 DEF MatchesInv

LEMMA QuietEffect ==
    ASSUME UNCHANGED <<matches, teams>>
    PROVE  Effect
BY DEF Effect, Untouched, TeamsOf

\* The only call there is goes on with k, or ends.
LEMMA SerialAwait ==
    ASSUME OneAtATime, TypeOK, SerialInv, Effect,
           NEW c \in Calls, NEW k, Await(c, k), Serial(k)'
    PROVE  SerialInv'
<1>1. MatchesInv'
  BY EffectKeeps DEF SerialInv
<1>2. DOMAIN inflight' = {c} /\ inflight'[c] = k
  BY DEF OneAtATime, TypeOK, Await, Put
<1>3. ASSUME NEW d \in DOMAIN inflight'
      PROVE  Serial(inflight[d])'
  BY <1>2
<1>4. QED
  BY <1>1, <1>3 DEF SerialInv

LEMMA SerialAnswer ==
    ASSUME OneAtATime, TypeOK, SerialInv, Effect, NEW c \in Calls, Answer(c)
    PROVE  SerialInv'
<1>1. MatchesInv'
  BY EffectKeeps DEF SerialInv
<1>2. DOMAIN inflight' = {}
  BY DEF OneAtATime, TypeOK, Answer, Drop
<1>3. QED
  BY <1>1, <1>2 DEF SerialInv

LEMMA SerialStays ==
    ASSUME UNCHANGED <<matches, teams>>, NEW k, Serial(k)
    PROVE  Serial(k)'
BY DEF Serial, Current, Saving, Decided, Fresh, TeamsOf

\* Steps that only read.
LEMMA SerialQuietAwait ==
    ASSUME OneAtATime, TypeOK, SerialInv, NEW c \in Calls, NEW k, Await(c, k), Serial(k), Quiet
    PROVE  SerialInv' /\ Effect
BY QuietEffect, SerialStays, SerialAwait DEF Quiet

LEMMA SerialQuietAnswer ==
    ASSUME OneAtATime, TypeOK, SerialInv, NEW c \in Calls, Answer(c), Quiet
    PROVE  SerialInv' /\ Effect
BY QuietEffect, SerialAnswer DEF Quiet

LEMMA SerialInit ==
    ASSUME Init
    PROVE  SerialInv
BY DEF Init, EmptyTable, SerialInv, MatchesInv

LEMMA SerialStutter ==
    ASSUME SerialInv, UNCHANGED <<matches, teams, inflight>>
    PROVE  SerialInv' /\ Effect
<1>1. Effect /\ MatchesInv'
  BY QuietEffect, EffectKeeps DEF SerialInv
<1>2. ASSUME NEW d \in DOMAIN inflight'
      PROVE  Serial(inflight[d])'
  <2>1. Serial(inflight'[d])
    BY DEF SerialInv
  <2>2. QED
    BY <2>1, SerialStays
<1>3. QED
  BY <1>1, <1>2 DEF SerialInv

\* What a handler that goes on has in hand.
LEMMA SerialAt ==
    ASSUME IInv, SerialInv, NEW c, NEW op, At(c, op)
    PROVE  /\ c \in Calls /\ Good(inflight[c]) /\ inflight[c].op = op /\ Serial(inflight[c])
           /\ TypeOK /\ MatchesInv
BY AtCall DEF At, SerialInv, IInv

LEMMA SerialInsert ==
    ASSUME OneAtATime, IInv, SerialInv, NEW c \in Calls, NEW sheet, MatchInsert(c, sheet)
    PROVE  SerialInv' /\ Effect
<1> DEFINE k == [op |-> "FindPlayers", sheet |-> sheet]
<1>1. Serial(k)
  BY DEF Serial, Current, Saving, Decided, Fresh, Edits, Settles, Saves
<1>2. QED
  BY <1>1, SerialQuietAwait DEF MatchInsert, Quiet, IInv

LEMMA SerialInsertFindPlayers ==
    ASSUME OneAtATime, IInv, SerialInv, NEW c, MatchInsertFindPlayers(c)
    PROVE  SerialInv' /\ Effect
<1> DEFINE k == [inflight[c] EXCEPT !.op = "InsertMatch"]
<1>1. TypeOK /\ c \in Calls /\ inflight[c].op = "FindPlayers" /\ Quiet
  BY SerialAt DEF MatchInsertFindPlayers, Quiet
<1>2. k.op \in Inserts
  BY <1>1 DEF Inserts
<1> HIDE DEF k
<1>3. Serial(k)
  BY <1>2 DEF Serial, Current, Saving, Decided, Fresh, Inserts, Edits, Settles, Saves
<1>4. Await(c, k) \/ Answer(c)
  BY DEF MatchInsertFindPlayers, k
<1>5. QED
  BY <1>1, <1>3, <1>4, SerialQuietAwait, SerialQuietAnswer

LEMMA SerialInsertSave ==
    ASSUME OneAtATime, IInv, SerialInv, NEW c, MatchInsertSave(c)
    PROVE  SerialInv' /\ Effect
<1>1. TypeOK /\ c \in Calls /\ Answer(c)
  BY SerialAt DEF MatchInsertSave
<1> DEFINE n == Len(matches) + 1
           a == Len(teams) + 1
           b == Len(teams) + 2
<1>2. /\ DOMAIN matches = 1..Len(matches) /\ Len(matches) \in Nat
      /\ DOMAIN teams = 1..Len(teams) /\ Len(teams) \in Nat
  BY <1>1, Tables2
<1>3. DOMAIN matches' = 1..n /\ DOMAIN teams' = 1..b
  BY <1>2, InsertSaveRows, SeqFacts
<1>4. ASSUME NEW m \in DOMAIN matches
      PROVE  Untouched(m)
  <2>1. TeamsOf(m)' = TeamsOf(m)
    BY <1>2, InsertSaveRows DEF TeamsOf
  <2>2. QED
    BY <2>1, InsertSaveRows DEF Untouched, TeamsOf
<1>5. ASSUME NEW m \in DOMAIN matches', m \notin DOMAIN matches
      PROVE  PairOf(m)' /\ ResultsOf(m)'
  <2>1. m = n /\ matches'[m].status = "READY"
    BY <1>5, InsertSaveRows
  <2>2. a \in DOMAIN teams' \ DOMAIN teams /\ b \in DOMAIN teams' \ DOMAIN teams /\ a # b
    BY <1>2, <1>3
  <2>3. \A t \in DOMAIN teams : teams'[t].match # n
    BY <1>2, InsertSaveRows DEF IInv, TeamsHaveMatch
  <2>4. /\ teams'[a].match = n /\ teams'[a].place = "attached" /\ teams'[a].result = "none"
        /\ teams'[b].match = n /\ teams'[b].place = "attached" /\ teams'[b].result = "none"
    BY <2>2, InsertSaveRows
  <2>5. \A t \in DOMAIN teams' : t \notin DOMAIN teams => t \in {a, b}
    BY InsertSaveRows
  <2> HIDE DEF a, b, n
  <2>6. TeamsOf(m)' = {a, b}
    BY <2>1, <2>2, <2>3, <2>4, <2>5 DEF TeamsOf
  <2>7. QED
    BY <2>1, <2>2, <2>4, <2>6 DEF PairOf, ResultsOf
<1>6. Effect
  BY <1>4, <1>5 DEF Effect
<1>7. QED
  BY <1>1, <1>6, SerialAnswer

LEMMA SerialEdit ==
    ASSUME OneAtATime, IInv, SerialInv, NEW c \in Calls, NEW m, NEW sheet, MatchEdit(c, m, sheet)
    PROVE  SerialInv' /\ Effect
<1> PICK k : k = [op |-> "DeleteTeams", match |-> m, sheet |-> sheet,
                  row |-> [matches[m] EXCEPT !.bets = BetsOf(sheet, @),
                                             !.type = TypeOf(sheet.type, @)],
                  ids |-> TeamsOf(m)]
  OBVIOUS
<1>1. Await(c, k) /\ Quiet /\ matches[m].status = "READY"
  BY DEF MatchEdit, Quiet
<1>2. k.op = "DeleteTeams" /\ k.match = m /\ k.ids = TeamsOf(m)
  OBVIOUS
<1>3. Serial(k)
  BY <1>1, <1>2 DEF Serial, Current, Saving, Decided, Fresh, Edits, Settles, Saves
<1>4. QED
  BY <1>1, <1>3, SerialQuietAwait DEF IInv

LEMMA SerialEditDeleteTeams ==
    ASSUME OneAtATime, IInv, SerialInv, NEW c, MatchEditDeleteTeams(c)
    PROVE  SerialInv' /\ Effect
<1> DEFINE h == inflight[c]
<1> PICK x : x = h.match
  OBVIOUS
<1> PICK k : k = [op |-> "FindNewPlayers", match |-> h.match, sheet |-> h.sheet, row |-> h.row]
  OBVIOUS
<1>1. TypeOK /\ c \in Calls /\ Good(h) /\ h.op = "DeleteTeams" /\ Serial(h)
  BY SerialAt DEF MatchEditDeleteTeams
<1>2. /\ matches[x].status = "READY" /\ h.ids = TeamsOf(x)
      /\ x \in DOMAIN matches
  BY <1>1 DEF Serial, Current, Edits, Good, Inserts
<1>3. /\ Await(c, k) /\ matches' = matches /\ DOMAIN teams' = DOMAIN teams
      /\ \A t \in DOMAIN teams : t \notin h.ids => teams'[t] = teams[t]
      /\ \A t \in h.ids : teams'[t].place = "deleted"
  <2>1. \A t \in DOMAIN teams : teams[t] \in TeamRow
    BY <1>1, Tables2
  <2>2. h.ids \subseteq DOMAIN teams
    BY <1>2 DEF TeamsOf
  <2>3. QED
    BY <2>1, <2>2 DEF MatchEditDeleteTeams, TeamRow
<1>4. TeamsOf(x)' = {}
  BY <1>2, <1>3 DEF TeamsOf
<1>5. ASSUME NEW m \in DOMAIN matches
      PROVE  Untouched(m) \/ Moved(m)
  <2>1. CASE m = x
    <3>1. PairOf(m)' /\ ResultsOf(m)'
      BY <1>2, <1>3, <1>4, <2>1 DEF PairOf, ResultsOf
    <3>2. QED
      BY <1>2, <2>1, <3>1 DEF Moved
  <2>2. CASE m # x
    <3>1. \A t \in TeamsOf(m) : teams'[t] = teams[t]
      BY <1>2, <1>3, <2>2 DEF TeamsOf
    <3>2. TeamsOf(m)' = TeamsOf(m)
      BY <1>2, <1>3, <2>2, <3>1 DEF TeamsOf
    <3>3. QED
      BY <1>3, <3>1, <3>2 DEF Untouched
  <2>3. QED
    BY <2>1, <2>2
<1>6. Effect
  BY <1>3, <1>5 DEF Effect
<1>7. Serial(k)'
  <2>1. k.op = "FindNewPlayers" /\ k.match = x
    OBVIOUS
  <2>2. TeamsOf(k.match)' = {} /\ matches'[k.match].status = "READY"
    BY <1>2, <1>3, <1>4, <2>1
  <2>3. QED
    BY <2>1, <2>2 DEF Serial, Current, Saving, Decided, Fresh, Edits, Settles, Saves
<1>8. QED
  BY <1>1, <1>3, <1>6, <1>7, SerialAwait

LEMMA SerialEditFindPlayers ==
    ASSUME OneAtATime, IInv, SerialInv, NEW c, MatchEditFindPlayers(c)
    PROVE  SerialInv' /\ Effect
<1> DEFINE h == inflight[c]
<1> PICK k : k = [op |-> "SaveMatch", match |-> h.match, row |-> h.row,
                  keep |-> EmptyTable, fresh |-> NewTeams(h.sheet, h.match)]
  OBVIOUS
<1>1. TypeOK /\ c \in Calls /\ Good(h) /\ h.op = "FindNewPlayers" /\ Serial(h) /\ Quiet
  BY SerialAt DEF MatchEditFindPlayers, Quiet
<1>2. CASE h.sheet.teams # <<>> /\ Await(c, k)
  <2>1. /\ IsSheet(h.sheet) /\ ValidTeams(h.sheet)
        /\ h.match \in DOMAIN matches /\ h.row.status = "READY"
        /\ matches[h.match].status = "READY" /\ TeamsOf(h.match) = {}
    BY <1>1, <1>2 DEF Good, Valid, Inserts, Edits, Serial, Current
  <2>2. h.match \in MatchIds
    BY <1>1, <2>1, Tables2
  <2>3. DOMAIN k.keep = {} /\ k.keep = EmptyTable
    BY DEF EmptyTable
  <2>4. Len(k.fresh) = 2 /\ \A i \in DOMAIN k.fresh : k.fresh[i].place = "attached"
    BY <2>1, <2>2, NewTeamsRows
  <2>5. /\ k.op = "SaveMatch" /\ TeamsOf(k.match) = {} /\ k.row.status = "READY"
        /\ matches[k.match].status = "READY"
    BY <2>1
  <2>6. Serial(k)
    BY <2>3, <2>4, <2>5 DEF Serial, Current, Saving, Decided, Fresh, Edits, Settles, Saves
  <2>7. QED
    BY <1>1, <1>2, <2>6, SerialQuietAwait
<1>3. CASE Answer(c)
  BY <1>1, <1>3, SerialQuietAnswer
<1>4. QED
  BY <1>2, <1>3 DEF MatchEditFindPlayers

LEMMA SerialStart ==
    ASSUME OneAtATime, IInv, SerialInv, NEW c \in Calls, NEW m, MatchStart(c, m)
    PROVE  SerialInv' /\ Effect
<1> PICK k : k = [op |-> "SaveMatch", match |-> m,
                  row |-> [matches[m] EXCEPT !.status = "STARTED"],
                  keep |-> Loaded(m), fresh |-> <<>>]
  OBVIOUS
<1>1. TypeOK /\ MatchesInv /\ Await(c, k) /\ Quiet
      /\ m \in DOMAIN matches /\ matches[m].status = "READY" /\ matches[m] \in MatchRow
  BY Tables2 DEF MatchStart, Quiet, IInv, SerialInv
<1>2. k.op = "SaveMatch" /\ k.match = m /\ k.row.status = "STARTED" /\ k.fresh = <<>>
  BY <1>1 DEF MatchRow
<1>3. DOMAIN k.keep = TeamsOf(m) /\ \A t \in TeamsOf(m) : k.keep[t] = teams[t]
  BY DEF Loaded
<1>4. \A t \in TeamsOf(m) : teams[t].result = "none"
  BY <1>1 DEF MatchesInv, ResultsOf
<1>5. Serial(k)
  BY <1>1, <1>2, <1>3, <1>4 DEF Serial, Current, Saving, Decided, Fresh, Edits, Settles, Saves
<1>6. QED
  BY <1>1, <1>5, SerialQuietAwait

LEMMA SerialFinish ==
    ASSUME OneAtATime, IInv, SerialInv, NEW c \in Calls, NEW m, NEW w, NEW l, NEW resent,
           NEW type, MatchFinish(c, m, w, l, resent, type)
    PROVE  SerialInv' /\ Effect
<1> PICK keep : keep = [t \in {w, l} |->
                          [teams[t] EXCEPT !.result = IF t = w THEN "WINNER" ELSE "LOSER"]]
  OBVIOUS
<1> PICK row : row = [matches[m] EXCEPT !.status = "FINISHED",
                        !.bets = [o \in Orders |-> IF o \in resent THEN 0 ELSE @[o]],
                        !.type = TypeOf(type, @)]
  OBVIOUS
<1> PICK k : k = [op |-> "FindMembers", match |-> m, winner |-> w, loser |-> l,
                  bets |-> matches[m].bets, row |-> row, keep |-> keep]
  OBVIOUS
<1>1. TypeOK /\ MatchesInv /\ Await(c, k) /\ Quiet
      /\ m \in DOMAIN matches /\ matches[m].status = "STARTED" /\ matches[m] \in MatchRow
      /\ w \in TeamsOf(m) /\ l \in TeamsOf(m) /\ l # w
      /\ \A t \in DOMAIN teams : teams[t] \in TeamRow
  BY Tables2 DEF MatchFinish, Quiet, IInv, SerialInv
<1>2. TeamsOf(m) = {w, l}
  BY <1>1 DEF MatchesInv, PairOf
<1>3. DOMAIN keep = {w, l} /\ keep[w].result = "WINNER" /\ keep[l].result = "LOSER"
  BY <1>1 DEF TeamRow, TeamsOf
<1>4. row.status = "FINISHED"
  BY <1>1 DEF MatchRow
<1>5. k.op = "FindMembers" /\ k.match = m /\ k.row = row /\ k.keep = keep
  OBVIOUS
<1>6. Serial(k)
  BY <1>1, <1>2, <1>3, <1>4, <1>5
  DEF Serial, Current, Saving, Decided, Fresh, Edits, Settles, Saves
<1>7. QED
  BY <1>1, <1>6, SerialQuietAwait

\* A finish goes on: nothing of the match changes until its save.
LEMMA SerialSettles ==
    ASSUME NEW h, Serial(h), h.op \in Settles,
           NEW k, k.match = h.match, k.row = h.row, k.keep = h.keep,
           k.op \in Settles \/ (k.op = "SaveMatch" /\ k.fresh = <<>>)
    PROVE  Serial(k)
BY DEF Serial, Current, Saving, Decided, Fresh, Edits, Settles, Saves

LEMMA SerialFindMembers ==
    ASSUME OneAtATime, IInv, SerialInv, NEW c, MatchFinishFindMembers(c)
    PROVE  SerialInv' /\ Effect
<1> DEFINE h == inflight[c]
<1>1. TypeOK /\ c \in Calls /\ h.op = "FindMembers" /\ Serial(h) /\ Quiet
  BY SerialAt DEF MatchFinishFindMembers, Quiet
<1>2. CASE Answer(c)
  BY <1>1, <1>2, SerialQuietAnswer
<1>3. CASE ~Answer(c)
  <2> DEFINE k(amounts) == [op |-> "SaveMembers", match |-> h.match, row |-> h.row,
                            keep |-> h.keep, amounts |-> amounts]
  <2>1. PICK amounts : Await(c, k(amounts))
    BY <1>3 DEF MatchFinishFindMembers
  <2>2. Serial(k(amounts))
    BY <1>1, SerialSettles DEF Settles
  <2>3. QED
    BY <1>1, <2>1, <2>2, SerialQuietAwait
<1>4. QED
  BY <1>2, <1>3

LEMMA SerialReadMembers ==
    ASSUME OneAtATime, IInv, SerialInv, NEW c, MatchFinishReadMembers(c)
    PROVE  SerialInv' /\ Effect
<1> DEFINE h == inflight[c]
<1> DEFINE k == [op |-> "WriteMembers", match |-> h.match, row |-> h.row,
                 keep |-> h.keep, amounts |-> h.amounts,
                 seen |-> [m \in DOMAIN h.amounts |-> members[m]]]
<1>1. TypeOK /\ c \in Calls /\ h.op = "SaveMembers" /\ Serial(h) /\ Quiet
  BY SerialAt DEF MatchFinishReadMembers, Quiet
<1>2. Serial(k)
  BY <1>1, SerialSettles DEF Settles
<1>3. QED
  BY <1>1, <1>2, SerialQuietAwait DEF MatchFinishReadMembers

LEMMA SerialWriteMembers ==
    ASSUME OneAtATime, IInv, SerialInv, NEW c, MatchFinishWriteMembers(c)
    PROVE  SerialInv' /\ Effect
<1> DEFINE h == inflight[c]
<1> PICK k : k = [op |-> "SaveMatch", match |-> h.match, row |-> h.row,
                  keep |-> h.keep, fresh |-> <<>>]
  OBVIOUS
<1>1. TypeOK /\ c \in Calls /\ h.op = "WriteMembers" /\ Serial(h)
      /\ Await(c, k) /\ UNCHANGED <<matches, teams>>
  BY SerialAt DEF MatchFinishWriteMembers
<1>2. Serial(k)
  BY <1>1, SerialSettles DEF Settles
<1>3. QED
  BY <1>1, <1>2, QuietEffect, SerialStays, SerialAwait

LEMMA SerialSaveRead ==
    ASSUME OneAtATime, IInv, SerialInv, NEW c, MatchSaveRead(c)
    PROVE  SerialInv' /\ Effect
<1> DEFINE h == inflight[c]
<1> PICK k : k = [op |-> "WriteMatch", match |-> h.match, row |-> h.row,
                  keep |-> h.keep, fresh |-> h.fresh, seen |-> matches[h.match],
                  seenTeams |-> [t \in DOMAIN h.keep |-> teams[t]],
                  orphans |-> TeamsOf(h.match) \ DOMAIN h.keep]
  OBVIOUS
<1>1. TypeOK /\ c \in Calls /\ h.op = "SaveMatch" /\ Serial(h) /\ Quiet /\ Await(c, k)
  BY SerialAt DEF MatchSaveRead, Quiet
<1>2. k.op = "WriteMatch" /\ k.match = h.match /\ k.row = h.row /\ k.keep = h.keep
      /\ k.fresh = h.fresh /\ k.seen = matches[k.match]
      /\ \A t \in DOMAIN k.keep : k.seenTeams[t] = teams[t]
  OBVIOUS
<1>3. k.orphans = {}
  BY <1>1 DEF Serial, Current, Settles, Saves
<1>4. Serial(k)
  BY <1>1, <1>2, <1>3 DEF Serial, Current, Saving, Decided, Fresh, Edits, Settles, Saves
<1>5. QED
  BY <1>1, <1>4, SerialQuietAwait

\* A save that nothing came in between of: the match gets the status and its teams
\* the results that the call has in hand, and nothing else changes.
LEMMA SerialSaveRows ==
    ASSUME IInv, SerialInv, NEW c, MatchSaveWrite(c)
    PROVE  LET k == inflight[c] IN
           /\ ~RolledBack(k)
           /\ k.match \in DOMAIN matches /\ DOMAIN k.keep = TeamsOf(k.match)
           /\ DOMAIN matches' = DOMAIN matches
           /\ matches'[k.match].status = k.row.status
           /\ \A m \in DOMAIN matches : m # k.match => matches'[m] = matches[m]
           /\ \A t \in DOMAIN teams :
                 /\ t \in DOMAIN teams' /\ teams'[t].match = teams[t].match
                 /\ teams'[t].place = teams[t].place /\ teams'[t].players = teams[t].players
                 /\ t \in DOMAIN k.keep => teams'[t].result = k.keep[t].result
                 /\ t \notin DOMAIN k.keep => teams'[t] = teams[t]
<1> DEFINE k == inflight[c]
<1>1. TypeOK /\ Good(k) /\ k.op = "WriteMatch" /\ Serial(k) /\ matches \in Seq(MatchRow)
  BY SerialAt DEF MatchSaveWrite, TypeOK
<1>2. /\ k.match \in DOMAIN matches /\ DOMAIN k.keep = TeamsOf(k.match)
      /\ k.seen = matches[k.match] /\ k.orphans = {}
      /\ \A t \in DOMAIN k.keep : k.seenTeams[t] = teams[t] /\ teams[t].place = "attached"
  BY <1>1 DEF Good, Inserts, Serial, Current, Fresh, Saves, TeamsOf
<1>3. ~RolledBack(k)
  BY <1>2 DEF RolledBack
<1>4. /\ Len(matches') = Len(matches) /\ matches' \in Seq(MatchRow)
      /\ \A m \in DOMAIN matches :
            matches'[m] = IF m = k.match THEN SavedMatch(k) ELSE matches[m]
      /\ \A t \in DOMAIN teams : t \in DOMAIN teams' /\ teams'[t] = SavedTeam(k, t)
  BY <1>3, SaveWriteRows
<1>5. DOMAIN matches' = DOMAIN matches
  BY <1>1, <1>4, SeqFacts
<1>6. SavedMatch(k).status = k.row.status
  BY <1>2 DEF SavedMatch, Column
<1>7. ASSUME NEW t \in DOMAIN teams
      PROVE  /\ SavedTeam(k, t).match = teams[t].match
             /\ SavedTeam(k, t).place = teams[t].place
             /\ SavedTeam(k, t).players = teams[t].players
             /\ t \in DOMAIN k.keep => SavedTeam(k, t).result = k.keep[t].result
             /\ t \notin DOMAIN k.keep => SavedTeam(k, t) = teams[t]
  <2>1. teams[t] \in TeamRow
    BY <1>1, Tables2
  <2>2. CASE t \in DOMAIN k.keep
    <3>1. SavedTeam(k, t) =
            [teams[t] EXCEPT !.result = Column(@, teams[t].result, k.keep[t].result),
                             !.place = Column(@, teams[t].place, "attached")]
      BY <1>2, <2>2 DEF SavedTeam
    <3>2. QED
      BY <1>2, <2>1, <2>2, <3>1 DEF Column, TeamRow
  <2>3. CASE t \notin DOMAIN k.keep
    BY <1>2, <2>3 DEF SavedTeam
  <2>4. QED
    BY <2>2, <2>3
<1> HIDE DEF k
<1>8. QED
  BY <1>2, <1>3, <1>4, <1>5, <1>6, <1>7 DEF k

LEMMA SerialSaveWrite ==
    ASSUME OneAtATime, IInv, SerialInv, NEW c, MatchSaveWrite(c)
    PROVE  SerialInv' /\ Effect
<1> DEFINE k == inflight[c]
<1> PICK x : x = k.match
  OBVIOUS
<1> PICK keep : keep = k.keep
  OBVIOUS
<1> PICK fresh : fresh = k.fresh
  OBVIOUS
<1> PICK row : row = k.row
  OBVIOUS
<1>1. TypeOK /\ MatchesInv /\ c \in Calls /\ Good(k) /\ k.op = "WriteMatch" /\ Serial(k)
      /\ DOMAIN teams = 1..Len(teams) /\ Len(teams) \in Nat /\ teams \in Seq(TeamRow)
  BY SerialAt, Tables2 DEF MatchSaveWrite, TypeOK
<1>2. /\ ~RolledBack(k)
      /\ x \in DOMAIN matches /\ DOMAIN keep = TeamsOf(x)
      /\ DOMAIN matches' = DOMAIN matches
      /\ matches'[x].status = row.status
      /\ \A m \in DOMAIN matches : m # x => matches'[m] = matches[m]
      /\ \A t \in DOMAIN teams :
            /\ t \in DOMAIN teams' /\ teams'[t].match = teams[t].match
            /\ teams'[t].place = teams[t].place /\ teams'[t].players = teams[t].players
            /\ t \in DOMAIN keep => teams'[t].result = keep[t].result
            /\ t \notin DOMAIN keep => teams'[t] = teams[t]
  BY SerialSaveRows
<1>3. /\ teams' \in Seq(TeamRow) /\ Len(teams') = Len(teams) + Len(fresh)
      /\ \A t \in DOMAIN teams' : t \notin DOMAIN teams =>
            \E i \in DOMAIN fresh : t = Len(teams) + i /\ teams'[t] = fresh[i]
  BY <1>2, SaveWriteRows
<1>4. fresh \in Seq(TeamRow) /\ \A i \in DOMAIN fresh : fresh[i].match = x /\ fresh[i].result = "none"
  BY <1>1 DEF Good, IsFresh, Saves
<1>5. ASSUME NEW m \in DOMAIN matches, m # x
      PROVE  Untouched(m)
  <2>1. \A t \in DOMAIN teams' : t \notin DOMAIN teams => teams'[t].match # m
    BY <1>3, <1>4, <1>5
  <2>2. \A t \in TeamsOf(m) : t \in DOMAIN teams /\ teams'[t] = teams[t]
    BY <1>2, <1>5 DEF TeamsOf
  <2>3. TeamsOf(m)' = TeamsOf(m)
    BY <1>2, <2>1 DEF TeamsOf
  <2>4. QED
    BY <1>2, <1>5, <2>2, <2>3 DEF Untouched
<1>6. Moved(x)
  <2> DEFINE Edited ==
        /\ matches[x].status = "READY" /\ row.status = "READY"
        /\ keep = EmptyTable /\ Len(fresh) = 2
        /\ \A i \in DOMAIN fresh : fresh[i].place = "attached"
  <2> DEFINE Started ==
        /\ matches[x].status = "READY" /\ row.status = "STARTED" /\ fresh = <<>>
        /\ \A t \in DOMAIN keep : keep[t].result = "none"
  <2> DEFINE Finished ==
        matches[x].status = "STARTED" /\ row.status = "FINISHED" /\ fresh = <<>>
  <2>1. Edited \/ Started \/ Finished
    BY <1>1 DEF Serial, Saving, Saves
  <2>2. CASE Edited
    <3> DEFINE a == Len(teams) + 1
               b == Len(teams) + 2
    <3>1. DOMAIN keep = {} /\ DOMAIN fresh = 1..2 /\ DOMAIN teams' = 1..(Len(teams) + 2)
      BY <1>3, <1>4, <2>2, SeqFacts DEF EmptyTable
    <3>2. a \in DOMAIN teams' \ DOMAIN teams /\ b \in DOMAIN teams' \ DOMAIN teams /\ a # b
      BY <1>1, <3>1
    <3>3. \A t \in {a, b} : /\ teams'[t].match = x /\ teams'[t].place = "attached"
                            /\ teams'[t].result = "none"
      BY <1>3, <1>4, <2>2, <3>2
    <3>4. \A t \in DOMAIN teams' : t \notin DOMAIN teams => t \in {a, b}
      BY <1>1, <3>1
    <3>5. \A t \in DOMAIN teams : ~(teams'[t].match = x /\ teams'[t].place = "attached")
      BY <1>2, <3>1 DEF TeamsOf
    <3> HIDE DEF a, b
    <3>6. TeamsOf(x)' = {a, b}
      BY <3>2, <3>3, <3>4, <3>5 DEF TeamsOf
    <3>7. PairOf(x)'
      BY <3>2, <3>6 DEF PairOf
    <3>8. ResultsOf(x)'
      BY <1>2, <2>2, <3>3, <3>6 DEF ResultsOf
    <3>9. QED
      BY <2>2, <3>7, <3>8 DEF Moved
  <2>3. CASE Started \/ Finished
    <3>1. DOMAIN teams' = DOMAIN teams
      BY <1>1, <1>3, <2>3, SeqFacts
    <3>2. TeamsOf(x)' = TeamsOf(x)
      BY <1>2, <3>1 DEF TeamsOf
    <3>3. PairOf(x)'
      BY <1>1, <1>2, <3>1, <3>2 DEF MatchesInv, PairOf
    <3>4. SameLineup(x)
      BY <1>2, <3>2 DEF SameLineup
    <3>5. ResultsOf(x)'
      <4>1. CASE Started
        BY <1>2, <3>2, <4>1 DEF ResultsOf, TeamsOf
      <4>2. CASE Finished
        <5>1. PICK w, l \in DOMAIN keep :
                 /\ DOMAIN keep = {w, l}
                 /\ keep[w].result = "WINNER" /\ keep[l].result = "LOSER"
          BY <1>1, <4>2 DEF Serial, Decided, Saves
        <5>2. /\ w \in DOMAIN teams' /\ l \in DOMAIN teams' /\ TeamsOf(x)' = {w, l}
              /\ teams'[w].result = "WINNER" /\ teams'[l].result = "LOSER"
          BY <1>2, <3>1, <3>2, <5>1 DEF TeamsOf
        <5>3. matches'[x].status = "FINISHED"
          BY <1>2, <4>2
        <5>4. QED
          BY <5>2, <5>3 DEF ResultsOf
      <4>3. QED
        BY <2>3, <4>1, <4>2
    <3>6. matches[x].status # "FINISHED"
      BY <2>3
    <3>7. QED
      BY <3>3, <3>4, <3>5, <3>6 DEF Moved
  <2>4. QED
    BY <2>1, <2>2, <2>3
<1>7. Effect
  BY <1>2, <1>5, <1>6 DEF Effect
<1>8. Answer(c)
  BY DEF MatchSaveWrite
<1>9. QED
  BY <1>1, <1>7, <1>8, SerialAnswer

LEMMA SerialRemove ==
    ASSUME OneAtATime, IInv, SerialInv, NEW c \in Calls, NEW m, MatchRemove(c, m)
    PROVE  SerialInv' /\ Effect
<1> DEFINE k == [op |-> "DeleteMatch", match |-> m]
<1>1. Serial(k)
  BY DEF MatchRemove, Serial, Current, Saving, Decided, Fresh, Edits, Settles, Saves
<1>2. QED
  BY <1>1, SerialQuietAwait DEF MatchRemove, Quiet, IInv

LEMMA SerialRemoveDelete ==
    ASSUME OneAtATime, IInv, SerialInv, NEW c, MatchRemoveDelete(c)
    PROVE  SerialInv' /\ Effect
<1> PICK x : x = inflight[c].match
  OBVIOUS
<1>1. /\ TypeOK /\ MatchesInv /\ c \in Calls /\ Answer(c) /\ teams' = teams
      /\ x \in DOMAIN matches /\ matches[x].status = "READY" /\ matches[x] \in MatchRow
  BY SerialAt, Tables2 DEF MatchRemoveDelete, Good, Inserts, Serial, Current
<1>2. /\ DOMAIN matches' = DOMAIN matches
      /\ matches'[x].status = "READY"
      /\ \A m \in DOMAIN matches : m # x => matches'[m] = matches[m]
  BY <1>1 DEF MatchRemoveDelete, MatchRow
<1>3. \A m : TeamsOf(m)' = TeamsOf(m)
  BY <1>1 DEF TeamsOf
<1>4. ASSUME NEW m \in DOMAIN matches, m # x
      PROVE  Untouched(m)
  BY <1>1, <1>2, <1>3, <1>4 DEF Untouched
<1>5. Moved(x)
  BY <1>1, <1>2, <1>3 DEF Moved, MatchesInv, PairOf, ResultsOf
<1>6. Effect
  BY <1>2, <1>4, <1>5 DEF Effect
<1>7. QED
  BY <1>1, <1>6, SerialAnswer

LEMMA SerialInductive ==
    ASSUME OneAtATime, IInv, SerialInv, [Next]_vars
    PROVE  SerialInv' /\ Effect
<1>1. CASE UNCHANGED vars
  BY <1>1, SerialStutter DEF vars
<1>2. CASE Next
  <2>1. CASE Environment
    BY <2>1, SerialStutter DEF Environment, SessionMoves, MemberLeaves
  <2>2. CASE ~Environment
    <3>1. PICK c \in Calls : Asks(c) \/ Continues(c) \/ Abort(c)
      BY <1>2, <2>2, ActionCases
    <3>2. CASE Continues(c)
      BY <3>2, SerialInsertFindPlayers, SerialInsertSave, SerialEditDeleteTeams,
         SerialEditFindPlayers, SerialFindMembers, SerialReadMembers, SerialWriteMembers,
         SerialSaveRead, SerialSaveWrite, SerialRemoveDelete DEF Continues
    <3>3. CASE Abort(c)
      BY <3>3, SerialQuietAnswer DEF Abort, Quiet, IInv
    <3>4. CASE ~Continues(c) /\ ~Abort(c)
      BY <3>1, <3>4, SerialInsert, SerialEdit, SerialStart, SerialFinish, SerialRemove DEF Asks
    <3>5. QED
      BY <3>2, <3>3, <3>4
  <2>3. QED
    BY <2>1, <2>2
<1>3. QED
  BY <1>1, <1>2

-----------------------------------------------------------------------------
(* Theorems about one call at a time.  Any of its queries may fail, the    *)
(* process may die in between, and the session moves on and members leave  *)
(* meanwhile.                                                              *)

\* The invariant of one call at a time holds: matches have their pair of sides, and
\* what the call has in hand is what the tables say.
THEOREM SerialInvariance ==
    ASSUME OneAtATime
    PROVE  Spec => []SerialInv
<1>1. Init => SerialInv
  BY SerialInit
<1>2. IInv /\ SerialInv /\ [Next]_vars => SerialInv'
  BY SerialInductive
<1>3. QED
  BY <1>1, <1>2, Invariance, PTL DEF Spec

\* A FINISHED match has two teams, the winner and the loser, and no other match has
\* a result yet, wherever a call of MatchService was cut off.
THEOREM WinnerAndLoser ==
    ASSUME OneAtATime
    PROVE  Spec => []FinishedHasResults
<1>1. SerialInv => FinishedHasResults
  BY DEF SerialInv, MatchesInv, ResultsOf, FinishedHasResults
<1>2. QED
  BY <1>1, SerialInvariance, PTL

\* 'Match has finished': nothing about a FINISHED match changes any more.
THEOREM FinishedForGood ==
    ASSUME OneAtATime
    PROVE  Spec => FinishedIsFinal
<1> DEFINE A == \A m \in DOMAIN matches :
                    matches[m].status = "FINISHED" =>
                       /\ matches'[m] = matches[m]
                       /\ TeamsOf(m)' = TeamsOf(m)
                       /\ \A t \in TeamsOf(m) : teams'[t] = teams[t]
<1>1. IInv /\ SerialInv /\ [Next]_vars => [A]_vars
  <2>1. Effect => A
    BY DEF Effect, Moved, Untouched
  <2>2. QED
    BY <2>1, SerialInductive
<1>2. QED
  BY <1>1, Invariance, SerialInvariance, PTL DEF Spec, FinishedIsFinal

\* 'Match is not ready': the line-up of a STARTED match stays.
THEOREM LineupIsFixed ==
    ASSUME OneAtATime
    PROVE  Spec => LineupFixedAfterStart
<1> DEFINE A == \A m \in DOMAIN matches :
                    matches[m].status = "STARTED" =>
                       \A t \in DOMAIN teams :
                          /\ t \in TeamsOf(m)' <=> t \in TeamsOf(m)
                          /\ t \in TeamsOf(m) => teams'[t].players = teams[t].players
<1>1. IInv /\ SerialInv /\ [Next]_vars => [A]_vars
  <2>1. SerialInv /\ Effect => A
    <3>1. ASSUME SerialInv, Effect, NEW m \in DOMAIN matches, matches[m].status = "STARTED"
          PROVE  SameLineup(m)
      BY <3>1, UntouchedStays DEF SerialInv, MatchesInv, Effect, Moved
    <3>2. QED
      BY <3>1 DEF SameLineup
  <2>2. QED
    BY <2>1, SerialInductive
<1>2. QED
  BY <1>1, Invariance, SerialInvariance, PTL DEF Spec, LineupFixedAfterStart

-----------------------------------------------------------------------------
(* What the players of a match stake, added up *)

\* Every player of the team plays at an order that has a moneyBet column.
InOrder(team) == \A j \in DOMAIN team.players : team.players[j].order \in Orders

LEMMA PlacesFinite ==
    ASSUME NEW team \in TeamRow
    PROVE  /\ IsFiniteSet(DOMAIN team.players)
           /\ \A j \in DOMAIN team.players : team.players[j] \in Player
<1>1. team.players \in Seq(Player)
  BY DEF TeamRow
<1>2. DOMAIN team.players = 1..Len(team.players) /\ Len(team.players) \in Nat
  BY <1>1
<1>3. IsFiniteSet(1..Len(team.players))
  BY <1>2, FS_Interval
<1>4. QED
  BY <1>1, <1>2, <1>3

LEMMA BetsAtInt ==
    ASSUME NEW team \in TeamRow, InOrder(team), NEW bets \in Bets,
           NEW J, J \subseteq DOMAIN team.players
    PROVE  IsFiniteSet(J) /\ BetsAt(team, bets, J) \in Int
<1>1. IsFiniteSet(J)
  BY PlacesFinite, FS_Subset
<1>2. PICK f : f = [j \in DOMAIN team.players |-> bets[team.players[j].order]]
  OBVIOUS
<1>3. \A j \in J : f[j] \in Int
  BY <1>2 DEF Bets, InOrder
<1>4. SumFunctionOnSet(f, J) \in Int
  BY <1>1, <1>3, SumInt
<1>5. QED
  BY <1>1, <1>2, <1>4 DEF BetsAt

LEMMA BetsAtNone ==
    ASSUME NEW team, NEW bets
    PROVE  BetsAt(team, bets, {}) = 0
BY SumEmpty DEF BetsAt

\* Members that stand for one user each, all players among these users: what each
\* member stakes adds up to what the team stakes.
LEMMA SharesAddUp ==
    ASSUME NEW team \in TeamRow, InOrder(team), NEW bets \in Bets,
           NEW D, D \subseteq Members,
           \A m, n \in D : UserOf[m] = UserOf[n] => m = n,
           \A j \in DOMAIN team.players : \E m \in D : UserOf[m] = team.players[j].user,
           NEW g, \A m \in Members :
                g[m] = IF m \in D THEN BetsAt(team, bets, PlacesOf(team, UserOf[m])) ELSE 0
    PROVE  SumFunctionOnSet(g, Members) = BetsAt(team, bets, DOMAIN team.players)
<1>1. PICK J : J = DOMAIN team.players
  OBVIOUS
<1>2. PICK f : f = [j \in J |-> bets[team.players[j].order]]
  OBVIOUS
<1>3. PICK h : h = [j \in J |-> CHOOSE m \in D : UserOf[m] = team.players[j].user]
  OBVIOUS
<1>4. \A j \in J : h[j] \in D /\ UserOf[h[j]] = team.players[j].user
  BY <1>1, <1>3
<1>5. ASSUME NEW m \in Members
      PROVE  g[m] = SumFunctionOnSet(f, {j \in J : h[j] = m})
  <2>1. CASE m \in D
    <3>1. {j \in J : h[j] = m} = PlacesOf(team, UserOf[m])
      BY <1>1, <1>4, <2>1 DEF PlacesOf
    <3>2. QED
      BY <1>1, <1>2, <2>1, <3>1 DEF BetsAt
  <2>2. CASE m \notin D
    <3>1. {j \in J : h[j] = m} = {}
      BY <1>4, <2>2
    <3>2. QED
      BY <2>2, <3>1, SumEmpty
  <2>3. QED
    BY <2>1, <2>2
<1>6. \A j \in J : f[j] \in Int /\ h[j] \in Members
  BY <1>1, <1>2, <1>4 DEF Bets, InOrder
<1>7. IsFiniteSet(J) /\ IsFiniteSet(Members)
  BY <1>1, PlacesFinite, MembersAssumption
<1>8. SumFunctionOnSet(g, Members) = SumFunctionOnSet(f, J)
  <2>1. PICK G : G = [m \in Members |-> {j \in J : h[j] = m}]
    OBVIOUS
  <2>2. (\A m \in Members : G[m] = {j \in J : h[j] = m})
        /\ \A m \in Members : g[m] = SumFunctionOnSet(f, G[m])
    BY <1>5, <2>1
  <2>3. QED
    BY <1>6, <1>7, <2>2, SumGroups
<1>9. QED
  BY <1>1, <1>2, <1>8 DEF BetsAt

\* Teams that play at the same orders stake the same.
LEMMA EvenSides ==
    ASSUME NEW a \in TeamRow, InOrder(a), NEW b \in TeamRow, InOrder(b), NEW bets \in Bets,
           \A o \in Orders : Cardinality({j \in DOMAIN a.players : a.players[j].order = o})
                           = Cardinality({j \in DOMAIN b.players : b.players[j].order = o})
    PROVE  BetsAt(a, bets, DOMAIN a.players) = BetsAt(b, bets, DOMAIN b.players)
<1> DEFINE Count(team, o) == Cardinality({j \in DOMAIN team.players : team.players[j].order = o})
<1>1. PICK g : g = [o \in Orders |-> bets[o] * Count(a, o)]
  OBVIOUS
<1>2. IsFiniteSet(Orders)
  <2>1. PICK n \in Int : n = 3
    OBVIOUS
  <2>2. IsFiniteSet(1..n)
    BY FS_Interval
  <2>3. QED
    BY <2>1, <2>2 DEF Orders
<1>3. ASSUME NEW team \in TeamRow, InOrder(team),
             \A o \in Orders : Count(team, o) = Count(a, o)
      PROVE  BetsAt(team, bets, DOMAIN team.players) = SumFunctionOnSet(g, Orders)
  <2>1. PICK J : J = DOMAIN team.players
    OBVIOUS
  <2>2. PICK f : f = [j \in J |-> bets[team.players[j].order]]
    OBVIOUS
  <2>3. PICK h : h = [j \in J |-> team.players[j].order]
    OBVIOUS
  <2>4. (\A j \in J : f[j] \in Int) /\ (\A j \in J : h[j] \in Orders)
    BY <1>3, <2>1, <2>2, <2>3 DEF Bets, InOrder
  <2>5. IsFiniteSet(J)
    BY <2>1, PlacesFinite
  <2>6. ASSUME NEW o \in Orders
        PROVE  g[o] = SumFunctionOnSet(f, {j \in J : h[j] = o})
    <3>1. PICK S : S = {j \in J : h[j] = o}
      OBVIOUS
    <3>2. bets[o] \in Int /\ \A j \in S : f[j] = bets[o]
      BY <2>2, <2>3, <3>1 DEF Bets
    <3>3. IsFiniteSet(S)
      BY <2>5, <3>1, FS_Subset
    <3>4. SumFunctionOnSet(f, S) = bets[o] * Cardinality(S)
      BY <3>2, <3>3, SumConst
    <3>5. S = {j \in DOMAIN team.players : team.players[j].order = o}
      BY <2>1, <2>3, <3>1
    <3>6. Cardinality(S) = Count(a, o)
      BY <1>3, <3>5
    <3>7. QED
      BY <1>1, <3>1, <3>4, <3>6
  <2> HIDE DEF Count
  <2>7. SumFunctionOnSet(g, Orders) = SumFunctionOnSet(f, J)
    <3>1. PICK G : G = [o \in Orders |-> {j \in J : h[j] = o}]
      OBVIOUS
    <3>2. (\A o \in Orders : G[o] = {j \in J : h[j] = o})
          /\ \A o \in Orders : g[o] = SumFunctionOnSet(f, G[o])
      BY <2>6, <3>1
    <3>3. QED
      BY <1>2, <2>4, <2>5, <3>2, SumGroups
  <2>8. QED
    BY <2>1, <2>2, <2>7 DEF BetsAt
<1>4. QED
  BY <1>3

\* The two sides of a match, the winner and the loser.
Sides(sides, w, l) ==
    /\ DOMAIN sides = {w, l} /\ w # l
    /\ sides[w] \in TeamRow /\ InOrder(sides[w]) /\ sides[w].result = "WINNER"
    /\ sides[l] \in TeamRow /\ InOrder(sides[l]) /\ sides[l].result = "LOSER"

\* The one gets what the other gives.
LEMMA TwoSides ==
    ASSUME NEW sides, NEW w, NEW l, Sides(sides, w, l), NEW bets \in Bets, NEW u
    PROVE  /\ ResultOf(sides, bets, u) = BetsAt(sides[w], bets, PlacesOf(sides[w], u))
                                       - BetsAt(sides[l], bets, PlacesOf(sides[l], u))
           /\ ResultOf(sides, bets, u) \in Int
           /\ BetsAt(sides[w], bets, PlacesOf(sides[w], u)) \in Int
           /\ BetsAt(sides[l], bets, PlacesOf(sides[l], u)) \in Int
<1> DEFINE earned(t) == BetsAt(sides[t], bets, PlacesOf(sides[t], u))
<1>1. PICK f : f = [t \in DOMAIN sides |->
                        IF sides[t].result = "WINNER" THEN earned(t) ELSE -earned(t)]
  OBVIOUS
<1>2. DOMAIN f = {w, l} /\ f[w] = earned(w) /\ f[l] = -earned(l)
  BY <1>1 DEF Sides
<1>3. earned(w) \in Int /\ earned(l) \in Int
  BY BetsAtInt DEF PlacesOf, Sides
<1> HIDE DEF earned
<1>4. \A t \in {w, l} : f[t] \in Int
  BY <1>2, <1>3
<1>5. SumFunctionOnSet(f, {w, l}) = f[w] + f[l]
  <2>1. PICK A, B, C : A = {w, l} /\ B = {l} /\ C = {}
    OBVIOUS
  <2>2. /\ A = B \cup {w} /\ w \in A /\ A \ {w} = B
        /\ l \in B /\ B \ {l} = C
    BY <2>1 DEF Sides
  <2>3. IsFiniteSet(B)
    BY <2>1, FS_Singleton
  <2>4. IsFiniteSet(A)
    BY <2>2, <2>3, FS_AddElement
  <2>5. (\A t \in A : f[t] \in Int) /\ (\A t \in B : f[t] \in Int)
    BY <1>4, <2>1
  <2>6. SumFunctionOnSet(f, A) = f[w] + SumFunctionOnSet(f, B)
    BY <2>2, <2>4, <2>5, SumRemove
  <2>7. SumFunctionOnSet(f, B) = f[l] + SumFunctionOnSet(f, C)
    BY <2>2, <2>3, <2>5, SumRemove
  <2>8. SumFunctionOnSet(f, C) = 0
    BY <2>1, SumEmpty
  <2>9. f[l] + 0 = f[l]
    BY <1>2, <1>3
  <2>10. QED
    BY <2>1, <2>6, <2>7, <2>8, <2>9
<1>6. ResultOf(sides, bets, u) = SumFunction(f)
  BY <1>1 DEF ResultOf, earned
<1>7. SumFunction(f) = SumFunctionOnSet(f, {w, l})
  BY <1>2 DEF SumFunction, SumFunctionOnSet, FoldFunction
<1>8. QED
  BY <1>2, <1>3, <1>5, <1>6, <1>7 DEF earned

-----------------------------------------------------------------------------
(* What a call that settles a match is about to pay *)

\* A match is finished with the line-ups that it was started with.
Played(k) ==
    /\ k.op \in Settles \cup Saves =>
            \A t \in DOMAIN k.keep : k.keep[t] = [teams[t] EXCEPT !.result = k.keep[t].result]
    /\ k.op = "FindMembers" =>
            /\ k.bets = matches[k.match].bets
            /\ DOMAIN k.keep = {k.winner, k.loser} /\ k.winner # k.loser
            /\ k.keep[k.winner].result = "WINNER" /\ k.keep[k.loser].result = "LOSER"

\* The amounts are what one member row of each player has, and the result of the
\* player added to it.
Owed(k) ==
    k.op \in {"SaveMembers", "WriteMembers"} =>
        /\ \A t \in DOMAIN k.keep : InOrder(k.keep[t])
        /\ \A m, n \in DOMAIN k.amounts : UserOf[m] = UserOf[n] => m = n
        /\ \A t \in DOMAIN k.keep : \A j \in DOMAIN k.keep[t].players :
                \E m \in DOMAIN k.amounts : UserOf[m] = k.keep[t].players[j].user
        /\ \A m \in DOMAIN k.amounts :
                k.amounts[m] = members[m].winningAmount
                                 + ResultOf(k.keep, matches[k.match].bets, UserOf[m])
        /\ k.op = "WriteMembers" =>
                \A m \in DOMAIN k.amounts : k.seen[m].winningAmount = members[m].winningAmount

LedgerInv == \A c \in DOMAIN inflight : Played(inflight[c]) /\ Owed(inflight[c])

\* Nothing that a call has in hand about money changes.
SameMoney ==
    /\ UNCHANGED <<matches, teams>>
    /\ \A m \in Members : members'[m].winningAmount = members[m].winningAmount

LEMMA LedgerStays ==
    ASSUME SameMoney, NEW k, Played(k), Owed(k),
           k.op \in {"SaveMembers", "WriteMembers"} => DOMAIN k.amounts \subseteq Members
    PROVE  Played(k)' /\ Owed(k)'
<1>1. Played(k)'
  BY DEF Played, SameMoney
<1>2. Owed(k)'
  BY DEF Owed, SameMoney
<1>3. QED
  BY <1>1, <1>2

LEMMA LedgerAwait ==
    ASSUME OneAtATime, TypeOK, NEW c \in Calls, NEW k, Await(c, k), Played(k)', Owed(k)'
    PROVE  LedgerInv'
<1>1. DOMAIN inflight' = {c} /\ inflight'[c] = k
  BY DEF OneAtATime, TypeOK, Await, Put
<1>2. QED
  BY <1>1 DEF LedgerInv

LEMMA LedgerQuietAwait ==
    ASSUME OneAtATime, TypeOK, NEW c \in Calls, NEW k, Await(c, k), Played(k), Owed(k),
           k.op \in {"SaveMembers", "WriteMembers"} => DOMAIN k.amounts \subseteq Members,
           Quiet
    PROVE  LedgerInv'
BY LedgerStays, LedgerAwait DEF Quiet, SameMoney

LEMMA LedgerAnswer ==
    ASSUME OneAtATime, TypeOK, NEW c \in Calls, Answer(c)
    PROVE  LedgerInv'
<1>1. DOMAIN inflight' = {}
  BY DEF OneAtATime, TypeOK, Answer, Drop
<1>2. QED
  BY <1>1 DEF LedgerInv

\* A call that handles no money.
LEMMA LedgerElsewhere ==
    ASSUME OneAtATime, TypeOK, NEW c \in Calls, NEW k, Await(c, k), k.op \notin Settles \cup Saves
    PROVE  LedgerInv'
<1>1. Played(k)' /\ Owed(k)'
  BY DEF Played, Owed, Settles
<1>2. QED
  BY <1>1, LedgerAwait

LEMMA LedgerEditFindPlayers ==
    ASSUME OneAtATime, IInv, SerialInv, NEW c, MatchEditFindPlayers(c)
    PROVE  LedgerInv'
<1> DEFINE h == inflight[c]
<1> PICK k : k = [op |-> "SaveMatch", match |-> h.match, row |-> h.row,
                  keep |-> EmptyTable, fresh |-> NewTeams(h.sheet, h.match)]
  OBVIOUS
<1>1. TypeOK /\ c \in Calls /\ Quiet
  BY SerialAt DEF MatchEditFindPlayers, Quiet
<1>2. DOMAIN k.keep = {} /\ k.op = "SaveMatch"
  BY DEF EmptyTable
<1>3. Played(k) /\ Owed(k)
  BY <1>2 DEF Played, Owed
<1>4. Await(c, k) \/ Answer(c)
  BY DEF MatchEditFindPlayers
<1>5. QED
  BY <1>1, <1>2, <1>3, <1>4, LedgerQuietAwait, LedgerAnswer

LEMMA LedgerStart ==
    ASSUME OneAtATime, IInv, SerialInv, NEW c \in Calls, NEW m, MatchStart(c, m)
    PROVE  LedgerInv'
<1> PICK k : k = [op |-> "SaveMatch", match |-> m,
                  row |-> [matches[m] EXCEPT !.status = "STARTED"],
                  keep |-> Loaded(m), fresh |-> <<>>]
  OBVIOUS
<1>1. TypeOK /\ Await(c, k) /\ Quiet /\ \A t \in DOMAIN teams : teams[t] \in TeamRow
  BY Tables2 DEF MatchStart, Quiet, IInv
<1>2. k.op = "SaveMatch"
      /\ \A t \in DOMAIN k.keep : k.keep[t] = teams[t] /\ teams[t] \in TeamRow
  BY <1>1 DEF Loaded, TeamsOf
<1>3. Played(k) /\ Owed(k)
  BY <1>2 DEF Played, Owed, TeamRow
<1>4. QED
  BY <1>1, <1>2, <1>3, LedgerQuietAwait

LEMMA LedgerFinish ==
    ASSUME OneAtATime, IInv, SerialInv, NEW c \in Calls, NEW m, NEW w, NEW l, NEW resent,
           NEW type, MatchFinish(c, m, w, l, resent, type)
    PROVE  LedgerInv'
<1> PICK keep : keep = [t \in {w, l} |->
                          [teams[t] EXCEPT !.result = IF t = w THEN "WINNER" ELSE "LOSER"]]
  OBVIOUS
<1> PICK row : row = [matches[m] EXCEPT !.status = "FINISHED",
                        !.bets = [o \in Orders |-> IF o \in resent THEN 0 ELSE @[o]],
                        !.type = TypeOf(type, @)]
  OBVIOUS
<1> PICK k : k = [op |-> "FindMembers", match |-> m, winner |-> w, loser |-> l,
                  bets |-> matches[m].bets, row |-> row, keep |-> keep]
  OBVIOUS
<1>1. TypeOK /\ Await(c, k) /\ Quiet /\ w \in DOMAIN teams /\ l \in DOMAIN teams /\ l # w
      /\ \A t \in DOMAIN teams : teams[t] \in TeamRow
  BY Tables2 DEF MatchFinish, Quiet, IInv, TeamsOf
<1>2. /\ DOMAIN keep = {w, l} /\ keep[w].result = "WINNER" /\ keep[l].result = "LOSER"
      /\ \A t \in {w, l} : keep[t] = [teams[t] EXCEPT !.result = keep[t].result]
  BY <1>1 DEF TeamRow
<1>3. /\ k.op = "FindMembers" /\ k.match = m /\ k.winner = w /\ k.loser = l
      /\ k.bets = matches[m].bets /\ k.keep = keep
  OBVIOUS
<1>4. Played(k) /\ Owed(k)
  BY <1>1, <1>2, <1>3 DEF Played, Owed
<1>5. QED
  BY <1>1, <1>3, <1>4, LedgerQuietAwait

\* One member row is chosen of each user, so a row gets what its user's places
\* are worth.
LEMMA StakeOfRow ==
    ASSUME NEW team, NEW bets, NEW users, NEW chosen, DOMAIN chosen = users,
           \A u \in users : UserOf[chosen[u]] = u,
           \A j \in DOMAIN team.players : team.players[j].user \in users,
           NEW m \in Range(chosen)
    PROVE  Stake(team, bets, chosen, m) = BetsAt(team, bets, PlacesOf(team, UserOf[m]))
<1>1. PICK u \in users : m = chosen[u] /\ UserOf[m] = u
  BY DEF Range
<1>2. {j \in DOMAIN team.players : chosen[team.players[j].user] = m} = PlacesOf(team, UserOf[m])
  BY <1>1 DEF PlacesOf
<1>3. QED
  BY <1>2 DEF Stake

LEMMA LedgerFindMembers ==
    ASSUME OneAtATime, IInv, SerialInv, LedgerInv, NEW c, MatchFinishFindMembers(c)
    PROVE  LedgerInv'
<1> PICK h : h = inflight[c]
  OBVIOUS
<1>1. /\ TypeOK /\ c \in Calls /\ h.op = "FindMembers" /\ Quiet
      /\ Good(h) /\ Serial(h) /\ Played(h)
  BY SerialAt DEF MatchFinishFindMembers, Quiet, LedgerInv, At
<1> DEFINE users == {p.user : p \in PlayersOf(h.keep)}
           w == h.keep[h.winner]
           l == h.keep[h.loser]
           amounts(chosen) ==
               [m \in Range(chosen) |-> members[m].winningAmount
                                          + Stake(w, h.bets, chosen, m)
                                          - Stake(l, h.bets, chosen, m)]
           k(chosen) == [op |-> "SaveMembers", match |-> h.match, row |-> h.row,
                         keep |-> h.keep, amounts |-> amounts(chosen)]
<1>2. CASE Answer(c)
  BY <1>1, <1>2, LedgerAnswer
<1>3. CASE ~Answer(c)
  <2>1. /\ \A p \in PlayersOf(h.keep) : p.order \in Orders
        /\ \E chosen \in [users -> LiveMembers] :
                /\ \A u \in users : UserOf[chosen[u]] = u
                /\ Await(c, k(chosen))
    BY <1>3 DEF MatchFinishFindMembers
  <2>2. PICK chosen \in [users -> LiveMembers] :
                /\ \A u \in users : UserOf[chosen[u]] = u
                /\ Await(c, k(chosen))
    BY <2>1
  <2>3. PICK f : f = k(chosen)
    OBVIOUS
  <2>4. /\ f.op = "SaveMembers" /\ f.keep = h.keep /\ f.match = h.match
        /\ f.amounts = amounts(chosen) /\ DOMAIN f.amounts = Range(chosen)
    BY <2>3
  <2>5. Range(chosen) \subseteq Members
    BY <2>2 DEF Range, LiveMembers
  <2>6. /\ DOMAIN h.keep = {h.winner, h.loser} /\ h.winner # h.loser
        /\ w.result = "WINNER" /\ l.result = "LOSER" /\ w \in TeamRow /\ l \in TeamRow
        /\ h.bets = matches[h.match].bets /\ h.bets \in Bets
    BY <1>1, Tables2 DEF Played, Good, Keeps, Settles, Inserts, MatchRow
  <2>7. \A t \in DOMAIN h.keep : \A j \in DOMAIN h.keep[t].players :
            h.keep[t].players[j] \in PlayersOf(h.keep) /\ h.keep[t].players[j].user \in users
    BY DEF PlayersOf, Range
  <2>8. \A t \in DOMAIN h.keep : InOrder(h.keep[t])
    BY <2>1, <2>7 DEF InOrder
  <2>9. \A m, n \in Range(chosen) : UserOf[m] = UserOf[n] => m = n
    BY <2>2 DEF Range
  <2>10. ASSUME NEW t \in DOMAIN h.keep, NEW j \in DOMAIN h.keep[t].players
         PROVE  \E m \in Range(chosen) : UserOf[m] = h.keep[t].players[j].user
    <3>1. h.keep[t].players[j].user \in users
      BY <2>7
    <3> HIDE DEF users
    <3>2. QED
      BY <2>2, <3>1 DEF Range
  <2>11. ASSUME NEW m \in Range(chosen)
         PROVE  f.amounts[m] = members[m].winningAmount
                                 + ResultOf(h.keep, matches[h.match].bets, UserOf[m])
    <3>1. members[m].winningAmount \in Int
      BY <1>1, <2>5 DEF TypeOK, MemberRow
    <3>2. /\ Stake(w, h.bets, chosen, m) = BetsAt(w, h.bets, PlacesOf(w, UserOf[m]))
          /\ Stake(l, h.bets, chosen, m) = BetsAt(l, h.bets, PlacesOf(l, UserOf[m]))
      <4> HIDE DEF users, w, l
      <4>1. DOMAIN chosen = users
        BY <2>2
      <4>2. /\ \A j \in DOMAIN w.players : w.players[j].user \in users
            /\ \A j \in DOMAIN l.players : l.players[j].user \in users
        BY <2>6, <2>7 DEF w, l
      <4>3. QED
        BY <2>2, <4>1, <4>2, StakeOfRow
    <3>3. /\ ResultOf(h.keep, h.bets, UserOf[m]) = BetsAt(w, h.bets, PlacesOf(w, UserOf[m]))
                                                 - BetsAt(l, h.bets, PlacesOf(l, UserOf[m]))
          /\ BetsAt(w, h.bets, PlacesOf(w, UserOf[m])) \in Int
          /\ BetsAt(l, h.bets, PlacesOf(l, UserOf[m])) \in Int
      <4>1. PICK keep, a, b : keep = h.keep /\ a = h.winner /\ b = h.loser
        OBVIOUS
      <4>2. PICK bets, u : bets = h.bets /\ u = UserOf[m]
        OBVIOUS
      <4>3. keep[a] = w /\ keep[b] = l /\ bets \in Bets
        BY <2>6, <4>1, <4>2
      <4>4. Sides(keep, a, b)
        BY <2>6, <2>8, <4>1, <4>3 DEF Sides
      <4> HIDE DEF w, l
      <4>5. /\ ResultOf(keep, bets, u) = BetsAt(keep[a], bets, PlacesOf(keep[a], u))
                                        - BetsAt(keep[b], bets, PlacesOf(keep[b], u))
            /\ BetsAt(keep[a], bets, PlacesOf(keep[a], u)) \in Int
            /\ BetsAt(keep[b], bets, PlacesOf(keep[b], u)) \in Int
        BY <4>3, <4>4, TwoSides
      <4>6. QED
        BY <4>1, <4>2, <4>3, <4>5
    <3>4. f.amounts[m] = members[m].winningAmount + Stake(w, h.bets, chosen, m)
                                                  - Stake(l, h.bets, chosen, m)
      BY <2>4
    <3> HIDE DEF w, l, users, amounts
    <3>5. QED
      BY <2>6, <3>1, <3>2, <3>3, <3>4
  <2> HIDE DEF w, l, users, amounts, k
  <2>12. Owed(f)
    BY <2>4, <2>8, <2>9, <2>10, <2>11 DEF Owed
  <2>13. Played(f)
    BY <1>1, <2>4 DEF Played, Settles
  <2>14. QED
    BY <1>1, <2>2, <2>3, <2>4, <2>5, <2>12, <2>13, LedgerQuietAwait
<1>4. QED
  BY <1>2, <1>3

LEMMA LedgerReadMembers ==
    ASSUME OneAtATime, IInv, SerialInv, LedgerInv, NEW c, MatchFinishReadMembers(c)
    PROVE  LedgerInv'
<1> PICK h : h = inflight[c]
  OBVIOUS
<1> PICK k : k = [op |-> "WriteMembers", match |-> h.match, row |-> h.row,
                  keep |-> h.keep, amounts |-> h.amounts,
                  seen |-> [m \in DOMAIN h.amounts |-> members[m]]]
  OBVIOUS
<1>1. /\ TypeOK /\ c \in Calls /\ h.op = "SaveMembers" /\ Quiet /\ Await(c, k)
      /\ DOMAIN h.amounts \subseteq Members /\ Played(h) /\ Owed(h)
  BY SerialAt DEF MatchFinishReadMembers, Quiet, LedgerInv, At, Good
<1>2. /\ k.op = "WriteMembers" /\ k.match = h.match /\ k.keep = h.keep
      /\ k.amounts = h.amounts /\ k.seen = [m \in DOMAIN h.amounts |-> members[m]]
  OBVIOUS
<1>3. Played(k)
  BY <1>1, <1>2 DEF Played, Settles
<1>4. Owed(k)
  BY <1>1, <1>2 DEF Owed
<1>5. QED
  BY <1>1, <1>2, <1>3, <1>4, LedgerQuietAwait

LEMMA LedgerWriteMembers ==
    ASSUME OneAtATime, IInv, SerialInv, LedgerInv, NEW c, MatchFinishWriteMembers(c)
    PROVE  LedgerInv'
<1> PICK h : h = inflight[c]
  OBVIOUS
<1> PICK k : k = [op |-> "SaveMatch", match |-> h.match, row |-> h.row,
                  keep |-> h.keep, fresh |-> <<>>]
  OBVIOUS
<1>1. /\ TypeOK /\ c \in Calls /\ h.op = "WriteMembers" /\ Await(c, k) /\ Played(h)
      /\ UNCHANGED <<matches, teams>>
  BY SerialAt DEF MatchFinishWriteMembers, LedgerInv, At
<1>2. k.op = "SaveMatch" /\ k.keep = h.keep
  OBVIOUS
<1>3. Played(k)' /\ Owed(k)'
  BY <1>1, <1>2 DEF Played, Owed, Settles
<1>4. QED
  BY <1>1, <1>3, LedgerAwait

LEMMA LedgerSaveRead ==
    ASSUME OneAtATime, IInv, SerialInv, LedgerInv, NEW c, MatchSaveRead(c)
    PROVE  LedgerInv'
<1> PICK h : h = inflight[c]
  OBVIOUS
<1> PICK k : k = [op |-> "WriteMatch", match |-> h.match, row |-> h.row,
                  keep |-> h.keep, fresh |-> h.fresh, seen |-> matches[h.match],
                  seenTeams |-> [t \in DOMAIN h.keep |-> teams[t]],
                  orphans |-> TeamsOf(h.match) \ DOMAIN h.keep]
  OBVIOUS
<1>1. TypeOK /\ c \in Calls /\ h.op = "SaveMatch" /\ Quiet /\ Await(c, k) /\ Played(h)
  BY SerialAt DEF MatchSaveRead, Quiet, LedgerInv, At
<1>2. k.op = "WriteMatch" /\ k.keep = h.keep
  OBVIOUS
<1>3. Played(k) /\ Owed(k)
  BY <1>1, <1>2 DEF Played, Owed, Saves
<1>4. QED
  BY <1>1, <1>2, <1>3, LedgerQuietAwait

LEMMA LedgerStutter ==
    ASSUME IInv, LedgerInv, SameMoney, UNCHANGED inflight
    PROVE  LedgerInv'
<1>1. ASSUME NEW d \in DOMAIN inflight'
      PROVE  Played(inflight[d])' /\ Owed(inflight[d])'
  <2>1. Played(inflight'[d]) /\ Owed(inflight'[d]) /\ Good(inflight'[d])
    BY DEF LedgerInv, IInv, CallsInv
  <2>2. QED
    BY <2>1, LedgerStays DEF Good
<1>2. QED
  BY <1>1 DEF LedgerInv

LEMMA LedgerInductive ==
    ASSUME OneAtATime, IInv, SerialInv, LedgerInv, [Next]_vars
    PROVE  LedgerInv'
<1>1. CASE UNCHANGED vars
  BY <1>1, LedgerStutter DEF vars, SameMoney
<1>2. CASE Next
  <2>1. CASE Environment
    <3>1. CASE SessionMoves
      BY <3>1, LedgerStutter DEF SessionMoves, SameMoney
    <3>2. CASE \E m \in Members : MemberLeaves(m)
      <4>1. members \in [Members -> MemberRow]
        BY DEF IInv, TypeOK
      <4>2. \A m \in Members : members'[m].winningAmount = members[m].winningAmount
        BY <3>2, <4>1 DEF MemberLeaves, MemberRow
      <4>3. QED
        BY <3>2, <4>2, LedgerStutter DEF MemberLeaves, SameMoney
    <3>3. QED
      BY <2>1, <3>1, <3>2 DEF Environment
  <2>2. CASE ~Environment
    <3>1. PICK c \in Calls : Asks(c) \/ Continues(c) \/ Abort(c)
      BY <1>2, <2>2, ActionCases
    <3>2. TypeOK
      BY DEF IInv
    <3>3. ASSUME MatchInsertSave(c) \/ MatchSaveWrite(c) \/ MatchRemoveDelete(c) \/ Abort(c)
          PROVE  LedgerInv'
      <4>1. Answer(c)
        BY <3>3 DEF MatchInsertSave, MatchSaveWrite, MatchRemoveDelete, Abort
      <4>2. QED
        BY <3>2, <4>1, LedgerAnswer
    <3>4. CASE MatchInsertFindPlayers(c)
      <4>1. PICK k : k = [inflight[c] EXCEPT !.op = "InsertMatch"]
        OBVIOUS
      <4>2. Await(c, k) \/ Answer(c)
        BY <3>4, <4>1 DEF MatchInsertFindPlayers
      <4>3. Await(c, k) => k.op \notin Settles \cup Saves
        BY <3>4, <4>1, AtCall DEF MatchInsertFindPlayers, Settles, Saves
      <4>4. QED
        BY <3>2, <4>2, <4>3, LedgerElsewhere, LedgerAnswer
    <3>5. CASE MatchEditDeleteTeams(c)
      <4>1. PICK k : k = [op |-> "FindNewPlayers", match |-> inflight[c].match,
                          sheet |-> inflight[c].sheet, row |-> inflight[c].row]
        OBVIOUS
      <4>2. Await(c, k)
        BY <3>5, <4>1 DEF MatchEditDeleteTeams
      <4>3. k.op \notin Settles \cup Saves
        BY <4>1 DEF Settles, Saves
      <4>4. QED
        BY <3>2, <4>2, <4>3, LedgerElsewhere
    <3>6. CASE Continues(c)
      BY <3>3, <3>4, <3>5, <3>6, LedgerEditFindPlayers, LedgerFindMembers, LedgerReadMembers,
         LedgerWriteMembers, LedgerSaveRead DEF Continues
    <3>7. ASSUME NEW sheet, MatchInsert(c, sheet)
          PROVE  LedgerInv'
      <4>1. PICK k : k = [op |-> "FindPlayers", sheet |-> sheet]
        OBVIOUS
      <4>2. Await(c, k) /\ k.op \notin Settles \cup Saves
        BY <3>7, <4>1 DEF MatchInsert, Settles, Saves
      <4>3. QED
        BY <3>2, <4>2, LedgerElsewhere
    <3>8. ASSUME NEW m, NEW sheet, MatchEdit(c, m, sheet)
          PROVE  LedgerInv'
      <4>1. PICK k : k = [op |-> "DeleteTeams", match |-> m, sheet |-> sheet,
                          row |-> [matches[m] EXCEPT
                                     !.bets = BetsOf(sheet, @),
                                     !.type = TypeOf(sheet.type, @)],
                          ids |-> TeamsOf(m)]
        OBVIOUS
      <4>2. Await(c, k) /\ k.op \notin Settles \cup Saves
        BY <3>8, <4>1 DEF MatchEdit, Settles, Saves
      <4>3. QED
        BY <3>2, <4>2, LedgerElsewhere
    <3>9. ASSUME NEW m, MatchRemove(c, m)
          PROVE  LedgerInv'
      <4>1. PICK k : k = [op |-> "DeleteMatch", match |-> m]
        OBVIOUS
      <4>2. Await(c, k) /\ k.op \notin Settles \cup Saves
        BY <3>9, <4>1 DEF MatchRemove, Settles, Saves
      <4>3. QED
        BY <3>2, <4>2, LedgerElsewhere
    <3>10. QED
      BY <3>1, <3>3, <3>6, <3>7, <3>8, <3>9, LedgerStart, LedgerFinish DEF Asks
  <2>3. QED
    BY <2>1, <2>2
<1>3. QED
  BY <1>1, <1>2

LEMMA LedgerInvariance ==
    ASSUME OneAtATime
    PROVE  Spec => []LedgerInv
<1>1. Init => LedgerInv
  BY DEF Init, EmptyTable, LedgerInv
<1>2. IInv /\ SerialInv /\ LedgerInv /\ [Next]_vars => LedgerInv'
  BY LedgerInductive
<1>3. QED
  BY <1>1, <1>2, Invariance, SerialInvariance, PTL DEF Spec

-----------------------------------------------------------------------------
(* The payment *)

\* A call that is about to pay has two sides, their results, and bets for each of
\* the orders they play at.
LEMMA AboutToPay ==
    ASSUME IInv, SerialInv, LedgerInv, NEW c, At(c, "WriteMembers")
    PROVE  LET k == inflight[c]
           IN  /\ k.match \in DOMAIN matches /\ matches[k.match].bets \in Bets
               /\ \E w, l \in DOMAIN teams :
                     /\ Sides(k.keep, w, l)
                     /\ teams[w].match = k.match /\ k.keep[w].players = teams[w].players
                     /\ teams[l].match = k.match /\ k.keep[l].players = teams[l].players
<1> DEFINE k == inflight[c]
<1>1. /\ TypeOK /\ Good(k) /\ Serial(k) /\ k.op = "WriteMembers" /\ Played(k) /\ Owed(k)
  BY SerialAt DEF LedgerInv, At
<1>2. k.match \in DOMAIN matches /\ matches[k.match].bets \in Bets
  BY <1>1, Tables2 DEF Good, Inserts, MatchRow
<1>3. Keeps(k)
  BY <1>1 DEF Good, Settles
<1>4. PICK w, l \in DOMAIN k.keep :
         /\ DOMAIN k.keep = {w, l}
         /\ k.keep[w].result = "WINNER" /\ k.keep[l].result = "LOSER"
  BY <1>1 DEF Serial, Decided, Settles
<1>5. /\ k.keep[w] \in TeamRow /\ w \in DOMAIN teams /\ teams[w].match = k.match
      /\ k.keep[l] \in TeamRow /\ l \in DOMAIN teams /\ teams[l].match = k.match
      /\ teams[w] \in TeamRow /\ teams[l] \in TeamRow
  BY <1>1, <1>3, <1>4, Tables2 DEF Keeps
<1>6. InOrder(k.keep[w]) /\ InOrder(k.keep[l])
  BY <1>1, <1>4 DEF Owed
<1>7. k.keep[w].players = teams[w].players /\ k.keep[l].players = teams[l].players
  BY <1>1, <1>4, <1>5 DEF Played, Settles, TeamRow
<1>8. Sides(k.keep, w, l)
  BY <1>4, <1>5, <1>6 DEF Sides
<1> HIDE DEF k
<1>9. QED
  BY <1>2, <1>5, <1>7, <1>8 DEF k

\* Every row that is paid gets the result of its user, every other row nothing.
LEMMA PaidOut ==
    ASSUME IInv, SerialInv, LedgerInv, NEW c, MatchFinishWriteMembers(c)
    PROVE  LET k == inflight[c]
           IN  \A m \in Members :
                  /\ members[m].winningAmount \in Int
                  /\ members'[m].winningAmount =
                        IF m \in DOMAIN k.amounts
                        THEN members[m].winningAmount
                                 + ResultOf(k.keep, matches[k.match].bets, UserOf[m])
                        ELSE members[m].winningAmount
<1> PICK k : k = inflight[c]
  OBVIOUS
<1>1. TypeOK /\ Owed(k) /\ k.op = "WriteMembers"
  BY SerialAt DEF LedgerInv, At, MatchFinishWriteMembers
<1>2. ASSUME NEW m \in Members
      PROVE  members'[m].winningAmount =
                IF m \in DOMAIN k.amounts
                THEN Column(members[m].winningAmount, k.seen[m].winningAmount, k.amounts[m])
                ELSE members[m].winningAmount
  BY DEF MatchFinishWriteMembers
<1>3. \A m \in DOMAIN k.amounts :
         /\ k.amounts[m] = members[m].winningAmount
                             + ResultOf(k.keep, matches[k.match].bets, UserOf[m])
         /\ k.seen[m].winningAmount = members[m].winningAmount
  BY <1>1 DEF Owed
<1>4. \A m \in Members : members[m].winningAmount \in Int
  BY <1>1 DEF TypeOK, MemberRow
<1>5. QED
  BY <1>2, <1>3, <1>4 DEF Column

LEMMA NoResult ==
    ASSUME NEW sides, NEW w, NEW l, Sides(sides, w, l), NEW bets \in Bets, NEW u,
           PlacesOf(sides[w], u) = {}, PlacesOf(sides[l], u) = {}
    PROVE  ResultOf(sides, bets, u) = 0
<1>1. BetsAt(sides[w], bets, {}) = 0 /\ BetsAt(sides[l], bets, {}) = 0
  BY BetsAtNone
<1>2. /\ ResultOf(sides, bets, u) = BetsAt(sides[w], bets, PlacesOf(sides[w], u))
                                  - BetsAt(sides[l], bets, PlacesOf(sides[l], u))
      /\ BetsAt(sides[w], bets, PlacesOf(sides[w], u)) \in Int
      /\ BetsAt(sides[l], bets, PlacesOf(sides[l], u)) \in Int
  BY TwoSides
<1>3. QED
  BY <1>1, <1>2

LEMMA BalancePaid ==
    ASSUME IInv, SerialInv, LedgerInv, NEW c, MatchFinishWriteMembers(c), NEW u
    PROVE  LET k == inflight[c]
           IN  /\ BalanceOf(u) \in Int
               /\ ResultOf(k.keep, matches[k.match].bets, u) \in Int
               /\ BalanceOf(u)' = BalanceOf(u) + ResultOf(k.keep, matches[k.match].bets, u)
<1> PICK k : k = inflight[c]
  OBVIOUS
<1> PICK keep, bets : keep = k.keep /\ bets = matches[k.match].bets
  OBVIOUS
<1> PICK r : r = ResultOf(keep, bets, u)
  OBVIOUS
<1> PICK D : D = DOMAIN k.amounts
  OBVIOUS
<1>1. Owed(k) /\ Good(k) /\ k.op = "WriteMembers"
  BY SerialAt DEF LedgerInv, At, MatchFinishWriteMembers
<1>2. PICK w, l \in DOMAIN teams : Sides(keep, w, l)
  BY AboutToPay DEF MatchFinishWriteMembers
<1>3. bets \in Bets
  BY AboutToPay DEF MatchFinishWriteMembers
<1>4. r \in Int
  BY <1>2, <1>3, TwoSides
<1>5. \A m \in Members :
         /\ members[m].winningAmount \in Int
         /\ members'[m].winningAmount =
               IF m \in D THEN members[m].winningAmount + ResultOf(keep, bets, UserOf[m])
               ELSE members[m].winningAmount
  BY PaidOut
<1>6. PICK S : S = {n \in Members : UserOf[n] = u}
  OBVIOUS
<1>7. IsFiniteSet(S) /\ S \subseteq Members
  BY <1>6, MembersAssumption, FS_Subset
<1>8. PICK f : f = [m \in S |-> members[m].winningAmount]
  OBVIOUS
<1>9. PICK h : h = [m \in S |-> members'[m].winningAmount]
  OBVIOUS
<1>10. PICK g : g = [m \in S |-> IF m \in D THEN r ELSE 0]
  OBVIOUS
<1>11. BalanceOf(u) = SumFunctionOnSet(f, S)
  BY <1>6, <1>8, SumOfFunction DEF BalanceOf
<1>12. BalanceOf(u)' = SumFunctionOnSet(h, S)
  BY <1>6, <1>9, SumOfFunction DEF BalanceOf
<1>13. \A m \in S : f[m] \in Int /\ g[m] \in Int /\ h[m] = f[m] + g[m]
  BY <1>4, <1>5, <1>6, <1>7, <1>8, <1>9, <1>10
<1>14. SumFunctionOnSet(h, S) = SumFunctionOnSet(f, S) + SumFunctionOnSet(g, S)
  BY <1>7, <1>13, SumPlus
<1>15. SumFunctionOnSet(g, S) = r
  <2>1. CASE \E m \in S : m \in D
    <3>1. PICK m \in S : m \in D
      BY <2>1
    <3>2. \A n \in S : n # m => n \notin D
      BY <1>1, <1>6, <3>1 DEF Owed
    <3>3. g[m] = r /\ \A n \in S : n # m => g[n] = 0
      BY <1>10, <3>1, <3>2
    <3>4. QED
      BY <1>4, <1>7, <3>3, SumOne
  <2>2. CASE \A m \in S : m \notin D
    <3>1. ASSUME NEW t \in DOMAIN keep, NEW j \in DOMAIN keep[t].players
          PROVE  keep[t].players[j].user # u
      <4>1. PICK m \in D : UserOf[m] = keep[t].players[j].user
        BY <1>1 DEF Owed
      <4>2. m \in Members
        BY <1>1 DEF Good
      <4>3. QED
        BY <1>6, <2>2, <4>1, <4>2
    <3>2. PlacesOf(keep[w], u) = {} /\ PlacesOf(keep[l], u) = {}
      BY <1>2, <3>1 DEF PlacesOf, Sides
    <3>3. r = 0
      BY <1>2, <1>3, <3>2, NoResult
    <3>4. \A m \in S : g[m] = 0
      BY <1>10, <2>2
    <3>5. QED
      BY <1>7, <3>3, <3>4, SumZero
  <2>3. QED
    BY <2>1, <2>2
<1>16. BalanceOf(u) \in Int
  BY <1>7, <1>11, <1>13, SumInt
<1>17. QED
  BY <1>4, <1>11, <1>12, <1>14, <1>15, <1>16

Total == SumFunction([m \in Members |-> members[m].winningAmount])

LEMMA TotalPaid ==
    ASSUME IInv, SerialInv, LedgerInv, NEW c, MatchFinishWriteMembers(c), EvenLineups
    PROVE  Total' = Total
<1> PICK k : k = inflight[c]
  OBVIOUS
<1> PICK keep, bets : keep = k.keep /\ bets = matches[k.match].bets
  OBVIOUS
<1> PICK D : D = DOMAIN k.amounts
  OBVIOUS
<1>1. Owed(k) /\ Good(k) /\ k.op = "WriteMembers"
  BY SerialAt DEF LedgerInv, At, MatchFinishWriteMembers
<1>2. PICK w, l \in DOMAIN teams :
         /\ Sides(keep, w, l)
         /\ teams[w].match = k.match /\ keep[w].players = teams[w].players
         /\ teams[l].match = k.match /\ keep[l].players = teams[l].players
  BY AboutToPay DEF MatchFinishWriteMembers
<1>3. bets \in Bets
  BY AboutToPay DEF MatchFinishWriteMembers
<1>4. PICK a, b : a = keep[w] /\ b = keep[l]
  OBVIOUS
<1>5. a \in TeamRow /\ InOrder(a) /\ b \in TeamRow /\ InOrder(b)
  BY <1>2, <1>4 DEF Sides
<1>6. PICK f : f = [m \in Members |-> members[m].winningAmount]
  OBVIOUS
<1>7. PICK h : h = [m \in Members |-> members'[m].winningAmount]
  OBVIOUS
<1>8. PICK gain : gain = [m \in Members |->
                            IF m \in D THEN BetsAt(a, bets, PlacesOf(a, UserOf[m])) ELSE 0]
  OBVIOUS
<1>9. PICK loss : loss = [m \in Members |->
                            IF m \in D THEN BetsAt(b, bets, PlacesOf(b, UserOf[m])) ELSE 0]
  OBVIOUS
<1>10. PICK g : g = [m \in Members |-> gain[m] - loss[m]]
  OBVIOUS
<1>11. IsFiniteSet(Members)
  BY MembersAssumption
<1>12. \A m \in Members : gain[m] \in Int /\ loss[m] \in Int
  <2>1. \A u : BetsAt(a, bets, PlacesOf(a, u)) \in Int /\ BetsAt(b, bets, PlacesOf(b, u)) \in Int
    BY <1>3, <1>5, BetsAtInt DEF PlacesOf
  <2>2. QED
    BY <1>8, <1>9, <2>1
<1>13. SumFunctionOnSet(gain, Members) = SumFunctionOnSet(loss, Members)
  <2>1. D \subseteq Members
    BY <1>1 DEF Good
  <2>2. \A m, n \in D : UserOf[m] = UserOf[n] => m = n
    BY <1>1 DEF Owed
  <2>3. ASSUME NEW team \in TeamRow, InOrder(team), NEW sum,
               \A j \in DOMAIN team.players : \E m \in D : UserOf[m] = team.players[j].user,
               \A m \in Members :
                  sum[m] = IF m \in D THEN BetsAt(team, bets, PlacesOf(team, UserOf[m])) ELSE 0
        PROVE  SumFunctionOnSet(sum, Members) = BetsAt(team, bets, DOMAIN team.players)
    BY <1>3, <2>1, <2>2, <2>3, SharesAddUp
  <2>4. /\ SumFunctionOnSet(gain, Members) = BetsAt(a, bets, DOMAIN a.players)
        /\ SumFunctionOnSet(loss, Members) = BetsAt(b, bets, DOMAIN b.players)
    <3>1. \A j \in DOMAIN a.players : \E m \in D : UserOf[m] = a.players[j].user
      BY <1>1, <1>2, <1>4 DEF Owed, Sides
    <3>2. \A j \in DOMAIN b.players : \E m \in D : UserOf[m] = b.players[j].user
      BY <1>1, <1>2, <1>4 DEF Owed, Sides
    <3>3. \A m \in Members :
             gain[m] = IF m \in D THEN BetsAt(a, bets, PlacesOf(a, UserOf[m])) ELSE 0
      BY <1>8
    <3>4. \A m \in Members :
             loss[m] = IF m \in D THEN BetsAt(b, bets, PlacesOf(b, UserOf[m])) ELSE 0
      BY <1>9
    <3>5. SumFunctionOnSet(gain, Members) = BetsAt(a, bets, DOMAIN a.players)
      BY <1>5, <2>3, <3>1, <3>3
    <3>6. SumFunctionOnSet(loss, Members) = BetsAt(b, bets, DOMAIN b.players)
      BY <1>5, <2>3, <3>2, <3>4
    <3>7. QED
      BY <3>5, <3>6
  <2>5. \A o \in Orders : Cardinality({j \in DOMAIN a.players : a.players[j].order = o})
                         = Cardinality({j \in DOMAIN b.players : b.players[j].order = o})
    <3>1. OrdersIn(w) = OrdersIn(l)
      BY <1>2 DEF EvenLineups
    <3>2. \A o \in Orders :
             /\ OrdersIn(w)[o] = Cardinality({j \in DOMAIN a.players : a.players[j].order = o})
             /\ OrdersIn(l)[o] = Cardinality({j \in DOMAIN b.players : b.players[j].order = o})
      BY <1>2, <1>4 DEF OrdersIn
    <3>3. QED
      BY <3>1, <3>2
  <2>6. QED
    BY <1>3, <1>5, <2>4, <2>5, EvenSides
<1>14. SumFunctionOnSet(g, Members) = 0
  <2>1. \A m \in Members : gain[m] \in Int /\ loss[m] \in Int /\ g[m] = gain[m] - loss[m]
    BY <1>10, <1>12
  <2>2. SumFunctionOnSet(g, Members)
            = SumFunctionOnSet(gain, Members) - SumFunctionOnSet(loss, Members)
    BY <1>11, <2>1, SumMinus
  <2>3. SumFunctionOnSet(gain, Members) \in Int
    BY <1>11, <1>12, SumInt
  <2>4. QED
    BY <1>13, <2>2, <2>3
<1>15. \A m \in Members : f[m] \in Int /\ g[m] \in Int /\ h[m] = f[m] + g[m]
  <2>1. ASSUME NEW m \in Members, m \in D
        PROVE  ResultOf(keep, bets, UserOf[m]) = gain[m] - loss[m]
    <3>1. PICK u : u = UserOf[m]
      OBVIOUS
    <3>2. /\ ResultOf(keep, bets, u) = BetsAt(keep[w], bets, PlacesOf(keep[w], u))
                                     - BetsAt(keep[l], bets, PlacesOf(keep[l], u))
          /\ BetsAt(keep[w], bets, PlacesOf(keep[w], u)) \in Int
          /\ BetsAt(keep[l], bets, PlacesOf(keep[l], u)) \in Int
      BY <1>2, <1>3, TwoSides
    <3>3. QED
      BY <1>4, <1>8, <1>9, <2>1, <3>1, <3>2
  <2>2. \A m \in Members :
           /\ members[m].winningAmount \in Int
           /\ members'[m].winningAmount =
                 IF m \in D THEN members[m].winningAmount + ResultOf(keep, bets, UserOf[m])
                 ELSE members[m].winningAmount
    BY PaidOut
  <2>3. \A m \in Members : m \notin D => gain[m] = 0 /\ loss[m] = 0
    BY <1>8, <1>9
  <2>4. QED
    BY <1>6, <1>7, <1>10, <1>12, <2>1, <2>2, <2>3
<1>16. SumFunctionOnSet(h, Members)
           = SumFunctionOnSet(f, Members) + SumFunctionOnSet(g, Members)
  BY <1>11, <1>15, SumPlus
<1>17. SumFunctionOnSet(f, Members) \in Int
  BY <1>11, <1>15, SumInt
<1>18. Total = SumFunctionOnSet(f, Members) /\ Total' = SumFunctionOnSet(h, Members)
  BY <1>6, <1>7, SumOfFunction DEF Total
<1>19. QED
  BY <1>14, <1>16, <1>17, <1>18

\* No other step moves money.
LEMMA UnpaidStays ==
    ASSUME IInv, [Next]_vars, \A c \in Calls : ~MatchFinishWriteMembers(c)
    PROVE  \A m \in Members : members'[m].winningAmount = members[m].winningAmount
<1>1. members \in [Members -> MemberRow]
  BY DEF IInv, TypeOK
<1>2. CASE \E m \in Members : MemberLeaves(m)
  BY <1>1, <1>2 DEF MemberLeaves, MemberRow
<1>3. CASE UNCHANGED members
  BY <1>3
<1>4. CASE Next /\ ~Environment
  <2>1. PICK c \in Calls : Asks(c) \/ Continues(c) \/ Abort(c)
    BY <1>4, ActionCases
  <2>2. UNCHANGED members
    <3>1. CASE Continues(c)
      BY <3>1 DEF Continues, MatchInsertFindPlayers, MatchInsertSave, MatchEditDeleteTeams,
         MatchEditFindPlayers, MatchFinishFindMembers, MatchFinishReadMembers, MatchSaveRead,
         MatchSaveWrite, MatchRemoveDelete
    <3>2. CASE ~Continues(c)
      BY <2>1, <3>2 DEF MatchInsert, MatchEdit, MatchStart, MatchFinish, MatchRemove, Abort, Asks
    <3>3. QED
      BY <3>1, <3>2
  <2>3. QED
    BY <2>2
<1>5. QED
  BY <1>2, <1>3, <1>4 DEF Environment, SessionMoves, vars

\* Teams are added, and the match and the players of a team stay.
LEMMA LineupsStay ==
    ASSUME IInv, SerialInv, [Next]_vars
    PROVE  \A t \in DOMAIN teams : /\ t \in DOMAIN teams' /\ teams'[t].match = teams[t].match
                                  /\ teams'[t].players = teams[t].players
<1>1. TypeOK
  BY DEF IInv
<1>2. CASE \E c : MatchInsertSave(c)
  <2>1. PICK c : MatchInsertSave(c)
    BY <1>2
  <2>2. QED
    BY <1>1, <2>1, InsertSaveRows
<1>3. CASE \E c : MatchEditDeleteTeams(c)
  <2>1. PICK c : MatchEditDeleteTeams(c)
    BY <1>3
  <2>2. \A t \in DOMAIN teams : teams[t] \in TeamRow
    BY <1>1, Tables2
  <2>3. QED
    BY <2>1, <2>2 DEF MatchEditDeleteTeams, TeamRow
<1>4. CASE \E c : MatchSaveWrite(c)
  BY <1>4, SerialSaveRows
<1>5. CASE UNCHANGED teams
  BY <1>5
<1>6. CASE Next /\ ~Environment
  <2>1. PICK c \in Calls : Asks(c) \/ Continues(c) \/ Abort(c)
    BY <1>6, ActionCases
  <2>2. CASE Continues(c)
    <3>1. ASSUME ~MatchInsertSave(c), ~MatchEditDeleteTeams(c), ~MatchSaveWrite(c)
          PROVE  UNCHANGED teams
      BY <2>2, <3>1 DEF Continues, MatchInsertFindPlayers, MatchEditFindPlayers,
         MatchFinishFindMembers, MatchFinishReadMembers, MatchFinishWriteMembers,
         MatchSaveRead, MatchRemoveDelete
    <3>2. QED
      BY <1>2, <1>3, <1>4, <1>5, <3>1
  <2>3. CASE ~Continues(c)
    <3>1. UNCHANGED teams
      BY <2>1, <2>3 DEF MatchInsert, MatchEdit, MatchStart, MatchFinish, MatchRemove, Abort, Asks
    <3>2. QED
      BY <1>5, <3>1
  <2>4. QED
    BY <2>2, <2>3
<1>7. QED
  BY <1>5, <1>6 DEF Environment, SessionMoves, MemberLeaves, vars

LEMMA EvenBefore ==
    ASSUME IInv, SerialInv, [Next]_vars, EvenLineups'
    PROVE  EvenLineups
<1>1. ASSUME NEW t \in DOMAIN teams
      PROVE  t \in DOMAIN teams' /\ teams'[t].match = teams[t].match /\ OrdersIn(t)' = OrdersIn(t)
  BY LineupsStay DEF OrdersIn
<1>2. ASSUME NEW t \in DOMAIN teams, NEW u \in DOMAIN teams, teams[t].match = teams[u].match
      PROVE  OrdersIn(t) = OrdersIn(u)
  <2>1. OrdersIn(t)' = OrdersIn(u)'
    BY <1>1, <1>2 DEF EvenLineups
  <2>2. QED
    BY <1>1, <2>1
<1>3. QED
  BY <1>2 DEF EvenLineups

\* Settling moves money between players and makes none.
THEOREM NoMoneyIsMade ==
    ASSUME OneAtATime
    PROVE  Spec => []MoneyIsZeroSum
<1>1. Init => MoneyIsZeroSum
  <2>1. ASSUME Init
        PROVE  Total = 0
    <3>1. PICK f : f = [m \in Members |-> members[m].winningAmount]
      OBVIOUS
    <3>2. \A m \in Members : f[m] = 0
      BY <2>1, <3>1 DEF Init
    <3>3. Total = SumFunctionOnSet(f, Members)
      BY <3>1, SumOfFunction DEF Total
    <3>4. QED
      BY <3>2, <3>3, MembersAssumption, SumZero
  <2>2. QED
    BY <2>1 DEF MoneyIsZeroSum, Total
<1>2. IInv /\ SerialInv /\ LedgerInv /\ MoneyIsZeroSum /\ [Next]_vars => MoneyIsZeroSum'
  <2> SUFFICES ASSUME IInv, SerialInv, LedgerInv, MoneyIsZeroSum, [Next]_vars, EvenLineups'
               PROVE  Total' = 0
    BY DEF MoneyIsZeroSum, Total
  <2>1. EvenLineups /\ Total = 0
    BY EvenBefore DEF MoneyIsZeroSum, Total
  <2>2. CASE \E c \in Calls : MatchFinishWriteMembers(c)
    BY <2>1, <2>2, TotalPaid
  <2>3. CASE \A c \in Calls : ~MatchFinishWriteMembers(c)
    <3>1. \A m \in Members : members'[m].winningAmount = members[m].winningAmount
      BY <2>3, UnpaidStays
    <3>2. Total' = Total
      BY <3>1 DEF Total
    <3>3. QED
      BY <2>1, <3>2
  <2>4. QED
    BY <2>2, <2>3
<1>3. QED
  BY <1>1, <1>2, Invariance, SerialInvariance, LedgerInvariance, PTL DEF Spec

\* A call that has paid a match and is about to show its results.
Shows(k) == k.op \in Saves /\ k.row.status = "FINISHED"

Earned(u) == SumFunction([x \in FinishedMatches |-> ResultOf(Loaded(x), matches[x].bets, u)])

\* The FINISHED matches and those of X are settled once, the others not at all.
Once(X) == \A x \in DOMAIN matches : settled[x] = IF x \in FinishedMatches \cup X THEN 1 ELSE 0

Billed(k) ==
    /\ k.op \in Settles \/ Shows(k) => k.row.bets = matches[k.match].bets
    /\ Shows(k) =>
        /\ \E w, l : Sides(k.keep, w, l)
        /\ Once({k.match}) =>
                \A u : BalanceOf(u) = Earned(u) + ResultOf(k.keep, matches[k.match].bets, u)

BooksInv ==
    /\ \A x \in FinishedMatches : \E w, l : Sides(Loaded(x), w, l)
    /\ \A c \in DOMAIN inflight : Billed(inflight[c])
    /\ (\A c \in DOMAIN inflight : ~Shows(inflight[c])) /\ Once({}) =>
            \A u : BalanceOf(u) = Earned(u)

\* Nothing about a FINISHED match changes and none is added; nobody is paid.
Kept ==
    /\ DOMAIN matches \subseteq DOMAIN matches'
    /\ settled' = settled
    /\ \A m \in Members : members'[m].winningAmount = members[m].winningAmount
    /\ FinishedMatches' = FinishedMatches
    /\ \A x \in FinishedMatches : matches'[x] = matches[x] /\ Loaded(x)' = Loaded(x)

LEMMA BalanceStays ==
    ASSUME \A m \in Members : members'[m].winningAmount = members[m].winningAmount, NEW u
    PROVE  BalanceOf(u)' = BalanceOf(u)
BY DEF BalanceOf

LEMMA KeptBooks ==
    ASSUME Kept
    PROVE  /\ \A u : Earned(u)' = Earned(u) /\ BalanceOf(u)' = BalanceOf(u)
           /\ \A X : Once(X)' => Once(X)
           /\ (\A x \in FinishedMatches : \E w, l : Sides(Loaded(x), w, l)) =>
              (\A x \in FinishedMatches : \E w, l : Sides(Loaded(x), w, l))'
<1>1. ASSUME NEW u
      PROVE  Earned(u)' = Earned(u) /\ BalanceOf(u)' = BalanceOf(u)
  <2>1. PICK f : f = [x \in FinishedMatches |-> ResultOf(Loaded(x), matches[x].bets, u)]
    OBVIOUS
  <2>2. PICK g : g = [x \in FinishedMatches' |-> ResultOf(Loaded(x)', matches'[x].bets, u)]
    OBVIOUS
  <2>3. f = g
    BY <2>1, <2>2 DEF Kept
  <2>4. Earned(u) = SumFunction(f) /\ Earned(u)' = SumFunction(g)
    BY <2>1, <2>2 DEF Earned
  <2>5. BalanceOf(u)' = BalanceOf(u)
    BY BalanceStays DEF Kept
  <2>6. QED
    BY <2>3, <2>4, <2>5
<1>2. ASSUME NEW X, Once(X)'
      PROVE  Once(X)
  BY <1>2 DEF Once, Kept
<1>3. ASSUME \A x \in FinishedMatches : \E w, l : Sides(Loaded(x), w, l)
      PROVE  (\A x \in FinishedMatches : \E w, l : Sides(Loaded(x), w, l))'
  <2>1. ASSUME NEW x \in FinishedMatches
        PROVE  \E w, l : Sides(Loaded(x), w, l)'
    <3>1. PICK w, l : Sides(Loaded(x), w, l)
      BY <1>3
    <3>2. Sides(Loaded(x), w, l)'
      BY <3>1 DEF Kept, Sides
    <3>3. QED
      BY <3>2
  <2>2. QED
    BY <2>1 DEF Kept
<1>4. QED
  BY <1>1, <1>2, <1>3

LEMMA QuietKept ==
    ASSUME Quiet
    PROVE  Kept
BY DEF Quiet, Kept, FinishedMatches, Loaded, TeamsOf

LEMMA EffectKept ==
    ASSUME Effect, DOMAIN matches \subseteq DOMAIN matches', UNCHANGED settled,
           \A m \in Members : members'[m].winningAmount = members[m].winningAmount,
           \A x \in DOMAIN matches' : matches'[x].status = "FINISHED" => x \in FinishedMatches
    PROVE  Kept
<1>1. \A x \in FinishedMatches : Untouched(x)
  BY DEF Effect, Moved, FinishedMatches
<1>2. \A x \in FinishedMatches : matches'[x] = matches[x] /\ Loaded(x)' = Loaded(x)
  BY <1>1 DEF Untouched, Loaded
<1>3. FinishedMatches' = FinishedMatches
  BY <1>2 DEF FinishedMatches
<1>4. QED
  BY <1>2, <1>3 DEF Kept

\* The call goes on without having paid.
LEMMA BooksAwait ==
    ASSUME OneAtATime, TypeOK, BooksInv, Kept, NEW c \in Calls, NEW k, Await(c, k), ~Shows(k),
           c \in DOMAIN inflight => ~Shows(inflight[c]),
           k.op \in Settles => k.row.bets = matches'[k.match].bets
    PROVE  BooksInv'
<1>1. DOMAIN inflight' = {c} /\ inflight'[c] = k /\ DOMAIN inflight \subseteq {c}
  BY DEF OneAtATime, TypeOK, Await, Put
<1>2. (\A d \in DOMAIN inflight : ~Shows(inflight[d])) /\ ~Shows(k)'
  BY <1>1 DEF Shows
<1>3. Billed(k)'
  BY <1>2 DEF Billed
<1>4. \A d \in DOMAIN inflight' : Billed(inflight[d])'
  BY <1>1, <1>3
<1>5. Once({})' => Once({})
  BY KeptBooks
<1>6. Once({})' => \A u : (BalanceOf(u) = Earned(u))'
  BY <1>2, <1>5, KeptBooks DEF BooksInv
<1>7. (\A x \in FinishedMatches : \E w, l : Sides(Loaded(x), w, l))'
  BY KeptBooks DEF BooksInv
<1>8. QED
  BY <1>4, <1>6, <1>7 DEF BooksInv

LEMMA BooksAnswer ==
    ASSUME OneAtATime, TypeOK, BooksInv, Kept, NEW c \in Calls, Answer(c),
           c \in DOMAIN inflight => ~Shows(inflight[c])
    PROVE  BooksInv'
<1>1. DOMAIN inflight' = {} /\ DOMAIN inflight \subseteq {c}
  BY DEF OneAtATime, TypeOK, Answer, Drop
<1>2. \A d \in DOMAIN inflight : ~Shows(inflight[d])
  BY <1>1
<1>3. Once({})' => Once({})
  BY KeptBooks
<1>4. Once({})' => \A u : (BalanceOf(u) = Earned(u))'
  BY <1>2, <1>3, KeptBooks DEF BooksInv
<1>5. (\A x \in FinishedMatches : \E w, l : Sides(Loaded(x), w, l))'
  BY KeptBooks DEF BooksInv
<1>6. QED
  BY <1>1, <1>4, <1>5 DEF BooksInv

LEMMA BilledStays ==
    ASSUME Kept, UNCHANGED matches, NEW k, Billed(k)
    PROVE  Billed(k)'
<1>1. Shows(k)' = Shows(k)
  BY DEF Shows
<1>2. k.op \in Settles \/ Shows(k) => k.row.bets = matches'[k.match].bets
  BY DEF Billed
<1>3. ASSUME Shows(k)
      PROVE  /\ (\E w, l : Sides(k.keep, w, l))'
             /\ Once({k.match})' =>
                   \A u : (BalanceOf(u) = Earned(u) + ResultOf(k.keep, matches[k.match].bets, u))'
  <2>1. (\E w, l : Sides(k.keep, w, l))'
    BY <1>3 DEF Billed, Sides
  <2>2. Once({k.match})' => Once({k.match})
    BY KeptBooks
  <2>3. Once({k.match}) =>
          \A u : BalanceOf(u) = Earned(u) + ResultOf(k.keep, matches[k.match].bets, u)
    BY <1>3 DEF Billed
  <2>4. QED
    BY <2>1, <2>2, <2>3, KeptBooks
<1>4. QED
  BY <1>1, <1>2, <1>3 DEF Billed

LEMMA BooksStutter ==
    ASSUME BooksInv, Kept, UNCHANGED <<matches, inflight>>
    PROVE  BooksInv'
<1>1. \A d \in DOMAIN inflight' : Billed(inflight[d])'
  <2>1. ASSUME NEW d \in DOMAIN inflight'
        PROVE  Billed(inflight[d])'
    <3>1. Billed(inflight'[d])
      BY DEF BooksInv
    <3>2. QED
      BY <3>1, BilledStays
  <2>2. QED
    BY <2>1
<1>2. (\A c \in DOMAIN inflight : ~Shows(inflight[c]))' /\ Once({})' =>
        \A u : (BalanceOf(u) = Earned(u))'
  BY KeptBooks DEF BooksInv, Shows
<1>3. (\A x \in FinishedMatches : \E w, l : Sides(Loaded(x), w, l))'
  BY KeptBooks DEF BooksInv
<1>4. QED
  BY <1>1, <1>2, <1>3 DEF BooksInv

\* The members are paid: what is due to the players of the match is what they have
\* got, and the match is to be shown.
LEMMA BooksWriteMembers ==
    ASSUME OneAtATime, IInv, SerialInv, LedgerInv, BooksInv, NEW c, MatchFinishWriteMembers(c)
    PROVE  BooksInv'
<1> PICK h : h = inflight[c]
  OBVIOUS
<1> PICK x, bets : x = h.match /\ bets = matches[x].bets
  OBVIOUS
<1> PICK k : k = [op |-> "SaveMatch", match |-> h.match, row |-> h.row,
                  keep |-> h.keep, fresh |-> <<>>]
  OBVIOUS
<1>1. /\ TypeOK /\ c \in Calls /\ c \in DOMAIN inflight /\ h.op = "WriteMembers"
      /\ Serial(h) /\ Billed(h) /\ Await(c, k) /\ UNCHANGED <<matches, teams>>
      /\ settled' = [settled EXCEPT ![x] = @ + 1]
  BY SerialAt DEF MatchFinishWriteMembers, At, BooksInv
<1>2. k.op = "SaveMatch" /\ k.match = x /\ k.row = h.row /\ k.keep = h.keep
  OBVIOUS
<1>3. DOMAIN inflight = {c} /\ DOMAIN inflight' = {c} /\ inflight'[c] = k
  BY <1>1 DEF OneAtATime, TypeOK, Await, Put
<1>4. x \in DOMAIN matches /\ x \in MatchIds /\ \E w, l : Sides(h.keep, w, l)
  <2>1. At(c, "WriteMembers")
    BY DEF MatchFinishWriteMembers
  <2>2. x \in DOMAIN matches /\ \E w, l : Sides(h.keep, w, l)
    BY <2>1, AboutToPay
  <2>3. QED
    BY <1>1, <2>2, Tables2
<1>5. x \notin FinishedMatches
  BY <1>1 DEF Serial, Current, Settles, FinishedMatches
<1>6. /\ FinishedMatches' = FinishedMatches
      /\ (\A u : Earned(u)' = Earned(u))
      /\ \A y : Loaded(y)' = Loaded(y)
  BY <1>1 DEF Earned, FinishedMatches, Loaded, TeamsOf
<1>7. Once({x})' => Once({})
  <2> SUFFICES ASSUME Once({x})', NEW y \in DOMAIN matches
               PROVE  settled[y] = IF y \in FinishedMatches THEN 1 ELSE 0
    BY DEF Once
  <2>1. y \in MatchIds /\ settled[y] \in Nat
    BY <1>1, Tables2
  <2>2. settled'[y] = IF y = x THEN settled[y] + 1 ELSE settled[y]
    BY <1>1, <1>4, <2>1 DEF TypeOK
  <2>3. settled'[y] = IF y \in FinishedMatches \/ y = x THEN 1 ELSE 0
    BY <1>1, <1>6 DEF Once
  <2>4. QED
    BY <1>5, <2>1, <2>2, <2>3
<1>8. \A d \in DOMAIN inflight : ~Shows(inflight[d])
  BY <1>1, <1>3 DEF Shows, Saves
<1>9. ASSUME Once({x})', NEW u
      PROVE  (BalanceOf(u) = Earned(u) + ResultOf(k.keep, matches[k.match].bets, u))'
  <2>1. BalanceOf(u) = Earned(u)
    BY <1>7, <1>8, <1>9 DEF BooksInv
  <2>2. BalanceOf(u)' = BalanceOf(u) + ResultOf(h.keep, matches[h.match].bets, u)
    BY BalancePaid
  <2>3. QED
    BY <1>1, <1>2, <1>6, <2>1, <2>2
<1>10. Shows(k)'
  BY <1>1, <1>2 DEF Shows, Saves, Serial, Current, Settles
<1>11. Billed(k)'
  <2>1. k.row.bets = matches'[k.match].bets
    BY <1>1, <1>2 DEF Billed, Settles
  <2>2. (\E w, l : Sides(k.keep, w, l))'
    BY <1>2, <1>4 DEF Sides
  <2>3. Once({k.match})' =>
            \A u : (BalanceOf(u) = Earned(u) + ResultOf(k.keep, matches[k.match].bets, u))'
    BY <1>2, <1>9
  <2>4. QED
    BY <2>1, <2>2, <2>3 DEF Billed
<1>12. (\A y \in FinishedMatches : \E w, l : Sides(Loaded(y), w, l))'
  <2>1. ASSUME NEW y \in FinishedMatches
        PROVE  \E w, l : Sides(Loaded(y), w, l)'
    <3>1. PICK w, l : Sides(Loaded(y), w, l)
      BY DEF BooksInv
    <3>2. Sides(Loaded(y), w, l)'
      BY <1>6, <3>1 DEF Sides
    <3>3. QED
      BY <3>2
  <2>2. QED
    BY <1>6, <2>1
<1>13. \A d \in DOMAIN inflight' : Billed(inflight[d])' /\ Shows(inflight[d])'
  BY <1>3, <1>10, <1>11
<1>14. c \in DOMAIN inflight'
  BY <1>3
<1>15. QED
  BY <1>12, <1>13, <1>14 DEF BooksInv

\* What is shown of a match in its own save.
LEMMA ShownRows ==
    ASSUME OneAtATime, IInv, SerialInv, LedgerInv, BooksInv, NEW c, MatchSaveWrite(c),
           NEW k, k = inflight[c], Shows(k)
    PROVE  /\ k.match \in DOMAIN matches /\ k.match \notin FinishedMatches
           /\ DOMAIN matches' = DOMAIN matches
           /\ FinishedMatches' = FinishedMatches \cup {k.match}
           /\ matches'[k.match].bets = matches[k.match].bets
           /\ Loaded(k.match)' = k.keep
           /\ \A x \in FinishedMatches : matches'[x] = matches[x] /\ Loaded(x)' = Loaded(x)
<1> PICK x, keep, row : x = k.match /\ keep = k.keep /\ row = k.row
  OBVIOUS
<1>1. /\ TypeOK /\ Good(k) /\ k.op = "WriteMatch" /\ Serial(k) /\ Billed(k) /\ Played(k)
  BY SerialAt DEF MatchSaveWrite, At, BooksInv, LedgerInv
<1>2. matches[x].status = "STARTED" /\ row.status = "FINISHED" /\ k.fresh = <<>>
  BY <1>1 DEF Serial, Saving, Saves, Shows
<1>3. /\ ~RolledBack(k)
      /\ x \in DOMAIN matches /\ DOMAIN keep = TeamsOf(x)
      /\ DOMAIN matches' = DOMAIN matches
      /\ matches'[x].status = row.status
      /\ \A m \in DOMAIN matches : m # x => matches'[m] = matches[m]
      /\ \A t \in DOMAIN teams :
            /\ t \in DOMAIN teams' /\ teams'[t].match = teams[t].match
            /\ teams'[t].place = teams[t].place /\ teams'[t].players = teams[t].players
            /\ t \in DOMAIN keep => teams'[t].result = keep[t].result
            /\ t \notin DOMAIN keep => teams'[t] = teams[t]
  BY SerialSaveRows
<1>4. /\ matches'[x] = SavedMatch(k) /\ Len(teams') = Len(teams) + Len(k.fresh)
      /\ teams' \in Seq(TeamRow) /\ k.fresh \in Seq(TeamRow)
  BY <1>1, <1>3, SaveWriteRows DEF Good, IsFresh, Saves
<1>5. DOMAIN teams' = DOMAIN teams
  <2>1. Len(k.fresh) = 0 /\ Len(teams') = Len(teams)
    BY <1>1, <1>2, <1>4, Tables2
  <2>2. DOMAIN teams' = 1..Len(teams') /\ DOMAIN teams = 1..Len(teams) /\ Len(teams) \in Nat
    BY <1>1, <1>4, Tables2
  <2>3. QED
    BY <2>1, <2>2
<1>6. matches'[x].bets = matches[x].bets
  <2>1. matches[x] \in MatchRow /\ row.bets = matches[x].bets /\ k.seen = matches[x]
    BY <1>1, <1>3, Tables2 DEF Billed, Serial, Fresh
  <2>2. matches'[x].bets = [o \in Orders |-> matches[x].bets[o]]
    BY <1>4, <2>1 DEF SavedMatch, Column
  <2>3. QED
    BY <2>1, <2>2 DEF MatchRow, Bets
<1>7. TeamsOf(x)' = DOMAIN keep
  BY <1>3, <1>5 DEF TeamsOf
<1>8. ASSUME NEW t \in DOMAIN keep
      PROVE  teams'[t] = keep[t]
  <2>1. t \in DOMAIN teams /\ teams[t] \in TeamRow /\ keep[t] \in TeamRow
    BY <1>1, <1>3, Tables2 DEF TeamsOf, Good, Keeps, Saves
  <2> teams'[t] \in TeamRow
    BY <1>4, <1>5, <2>1, SeqFacts
  <2>2. keep[t] = [teams[t] EXCEPT !.result = keep[t].result]
    BY <1>1 DEF Played, Saves
  <2>3. /\ keep[t].match = teams[t].match /\ keep[t].place = teams[t].place
        /\ keep[t].players = teams[t].players
    BY <2>1, <2>2 DEF TeamRow
  <2>4. QED
    BY <1>3, <2>1, <2>3 DEF TeamRow
<1>9. Loaded(x)' = keep
  <2>1. Loaded(x)' = [t \in DOMAIN keep |-> teams'[t]]
    BY <1>7 DEF Loaded
  <2>2. keep = [t \in DOMAIN keep |-> keep[t]]
    BY <1>1 DEF Good, Keeps, Saves
  <2>3. QED
    BY <1>8, <2>1, <2>2
<1>10. x \notin FinishedMatches
  BY <1>2 DEF FinishedMatches
<1>11. FinishedMatches' = FinishedMatches \cup {x}
  BY <1>2, <1>3 DEF FinishedMatches
<1>12. Effect
  BY SerialSaveWrite
<1>13. \A y \in FinishedMatches : Untouched(y)
  BY <1>12 DEF Effect, Moved, FinishedMatches
<1>14. \A y \in FinishedMatches : matches'[y] = matches[y] /\ Loaded(y)' = Loaded(y)
  BY <1>13 DEF Untouched, Loaded
<1>15. QED
  BY <1>3, <1>6, <1>9, <1>10, <1>11, <1>14

LEMMA BooksSaveWrite ==
    ASSUME OneAtATime, IInv, SerialInv, LedgerInv, BooksInv, NEW c, MatchSaveWrite(c),
           Shows(inflight[c])
    PROVE  BooksInv'
<1> PICK k : k = inflight[c]
  OBVIOUS
<1> PICK x, keep, bets : x = k.match /\ keep = k.keep /\ bets = matches[x].bets
  OBVIOUS
<1> PICK F : F = FinishedMatches
  OBVIOUS
<1>1. /\ TypeOK /\ c \in Calls /\ c \in DOMAIN inflight /\ Billed(k) /\ Shows(k) /\ Answer(c)
      /\ UNCHANGED <<members, settled>>
  BY SerialAt DEF MatchSaveWrite, At, BooksInv
<1>2. /\ x \in DOMAIN matches /\ x \notin F /\ DOMAIN matches' = DOMAIN matches
      /\ FinishedMatches' = F \cup {x} /\ matches'[x].bets = bets /\ Loaded(x)' = keep
      /\ \A y \in F : matches'[y] = matches[y] /\ Loaded(y)' = Loaded(y)
  BY <1>1, ShownRows
<1>3. DOMAIN inflight' = {}
  BY <1>1 DEF OneAtATime, TypeOK, Answer, Drop
<1>4. bets \in Bets /\ \A y \in F : matches[y].bets \in Bets
  BY <1>1, <1>2, Tables2 DEF MatchRow, FinishedMatches
<1>5. (\E w, l : Sides(keep, w, l)) /\ \A y \in F : \E w, l : Sides(Loaded(y), w, l)
  BY <1>1 DEF Billed, BooksInv
<1>6. (\A y \in FinishedMatches : \E w, l : Sides(Loaded(y), w, l))'
  <2>1. ASSUME NEW y \in F \cup {x}
        PROVE  \E w, l : Sides(Loaded(y), w, l)'
    <3>1. PICK sides : sides = IF y = x THEN keep ELSE Loaded(y)
      OBVIOUS
    <3>2. Loaded(y)' = sides
      BY <1>2, <3>1
    <3>3. PICK w, l : Sides(sides, w, l)
      BY <1>5, <3>1
    <3>4. Sides(Loaded(y), w, l)'
      BY <3>2, <3>3 DEF Sides
    <3>5. QED
      BY <3>4
  <2>2. QED
    BY <1>2, <2>1
<1>7. Once({})' => Once({x})
  BY <1>1, <1>2 DEF Once
<1>8. ASSUME NEW u
      PROVE  Earned(u)' = Earned(u) + ResultOf(keep, bets, u)
  <2>1. PICK f : f = [y \in F |-> ResultOf(Loaded(y), matches[y].bets, u)]
    OBVIOUS
  <2>2. PICK g : g = [y \in F \cup {x} |-> ResultOf(Loaded(y)', matches'[y].bets, u)]
    OBVIOUS
  <2>3. Earned(u) = SumFunctionOnSet(f, F)
    BY <2>1, SumOfFunction DEF Earned
  <2>4. Earned(u)' = SumFunctionOnSet(g, F \cup {x})
    <3>1. Earned(u)' = SumFunction(g)
      BY <1>2, <2>2 DEF Earned
    <3>2. DOMAIN g = F \cup {x}
      BY <2>2
    <3>3. QED
      BY <3>1, <3>2, SumOfFunction
  <2>5. \A y \in F : g[y] = f[y] /\ f[y] \in Int
    <3>1. ASSUME NEW y \in F
          PROVE  ResultOf(Loaded(y), matches[y].bets, u) \in Int
      <4>1. PICK sides, w, l : sides = Loaded(y) /\ Sides(sides, w, l)
        BY <1>5
      <4>2. ResultOf(sides, matches[y].bets, u) \in Int
        BY <1>4, <4>1, TwoSides
      <4>3. QED
        BY <4>1, <4>2
    <3>2. QED
      BY <1>2, <2>1, <2>2, <3>1
  <2>6. g[x] = ResultOf(keep, bets, u) /\ g[x] \in Int
    <3>1. PICK w, l : Sides(keep, w, l)
      BY <1>5
    <3>2. ResultOf(keep, bets, u) \in Int
      BY <1>4, <3>1, TwoSides
    <3>3. QED
      BY <1>2, <2>2, <3>2
  <2>7. IsFiniteSet(F)
    <3>1. IsFiniteSet(DOMAIN matches)
      BY <1>1, Tables2, FS_Interval
    <3>2. QED
      BY <3>1, FS_Subset DEF FinishedMatches
  <2>8. \A y \in F \cup {x} : g[y] \in Int
    BY <2>5, <2>6
  <2>9. SumFunctionOnSet(g, F \cup {x}) = g[x] + SumFunctionOnSet(g, F)
    BY <1>2, <2>7, <2>8, SumAdd
  <2>10. SumFunctionOnSet(g, F) = SumFunctionOnSet(f, F) /\ SumFunctionOnSet(f, F) \in Int
    BY <2>5, <2>7, SumSame, SumInt
  <2>11. QED
    BY <2>3, <2>4, <2>6, <2>9, <2>10
<1>9. ASSUME Once({})', NEW u
      PROVE  (BalanceOf(u) = Earned(u))'
  <2>1. BalanceOf(u) = Earned(u) + ResultOf(keep, bets, u)
    BY <1>1, <1>7, <1>9 DEF Billed
  <2>2. BalanceOf(u)' = BalanceOf(u)
    BY <1>1, BalanceStays
  <2>3. QED
    BY <1>8, <2>1, <2>2
<1>10. QED
  BY <1>3, <1>6, <1>9 DEF BooksInv

\* A save that shows no results.
LEMMA BooksSaveOther ==
    ASSUME OneAtATime, IInv, SerialInv, LedgerInv, BooksInv, NEW c, MatchSaveWrite(c),
           ~Shows(inflight[c])
    PROVE  BooksInv'
<1> PICK k : k = inflight[c]
  OBVIOUS
<1>1. /\ TypeOK /\ c \in Calls /\ Answer(c) /\ UNCHANGED <<members, settled>>
      /\ k.op = "WriteMatch" /\ k.row.status # "FINISHED"
  BY SerialAt DEF MatchSaveWrite, At, Shows, Saves
<1>2. /\ k.match \in DOMAIN matches /\ DOMAIN matches' = DOMAIN matches
      /\ matches'[k.match].status = k.row.status
      /\ \A m \in DOMAIN matches : m # k.match => matches'[m] = matches[m]
  BY SerialSaveRows
<1>3. \A x \in DOMAIN matches' : matches'[x].status = "FINISHED" => x \in FinishedMatches
  BY <1>1, <1>2 DEF FinishedMatches
<1>4. Kept
  BY <1>1, <1>2, <1>3, SerialSaveWrite, EffectKept
<1>5. QED
  BY <1>1, <1>4, BooksAnswer

LEMMA BooksSaveRead ==
    ASSUME OneAtATime, IInv, SerialInv, BooksInv, NEW c, MatchSaveRead(c)
    PROVE  BooksInv'
<1> PICK h : h = inflight[c]
  OBVIOUS
<1> PICK k : k = [op |-> "WriteMatch", match |-> h.match, row |-> h.row,
                  keep |-> h.keep, fresh |-> h.fresh, seen |-> matches[h.match],
                  seenTeams |-> [t \in DOMAIN h.keep |-> teams[t]],
                  orphans |-> TeamsOf(h.match) \ DOMAIN h.keep]
  OBVIOUS
<1>1. /\ TypeOK /\ c \in Calls /\ c \in DOMAIN inflight /\ h.op = "SaveMatch" /\ Billed(h)
      /\ Quiet /\ Await(c, k)
  BY SerialAt DEF MatchSaveRead, Quiet, At, BooksInv
<1>2. k.op = "WriteMatch" /\ k.match = h.match /\ k.row = h.row /\ k.keep = h.keep
  OBVIOUS
<1>3. Kept
  BY <1>1, QuietKept
<1>4. CASE ~Shows(h)
  BY <1>1, <1>2, <1>3, <1>4, BooksAwait DEF Shows, Saves, Settles
<1>5. CASE Shows(h)
  <2>1. DOMAIN inflight' = {c} /\ inflight'[c] = k
    BY <1>1 DEF OneAtATime, TypeOK, Await, Put
  <2>2. Billed(k)
    BY <1>1, <1>2, <1>5 DEF Billed, Shows, Saves, Settles
  <2>3. Billed(k)'
    BY <1>1, <1>3, <2>2, BilledStays DEF Quiet
  <2>4. Shows(k)'
    BY <1>2, <1>5 DEF Shows, Saves
  <2>5. c \in DOMAIN inflight' /\ \A d \in DOMAIN inflight' : Billed(inflight[d])' /\ Shows(inflight[d])'
    BY <2>1, <2>3, <2>4
  <2>6. (\A x \in FinishedMatches : \E w, l : Sides(Loaded(x), w, l))'
    BY <1>3, KeptBooks DEF BooksInv
  <2>7. QED
    BY <2>5, <2>6 DEF BooksInv
<1>6. QED
  BY <1>4, <1>5

\* A call that was cut off between the payment and its save leaves a match that
\* was settled and is not FINISHED.
LEMMA BooksAbort ==
    ASSUME OneAtATime, IInv, SerialInv, BooksInv, NEW c \in Calls, Abort(c)
    PROVE  BooksInv'
<1> PICK k : k = inflight[c]
  OBVIOUS
<1>1. /\ TypeOK /\ c \in DOMAIN inflight /\ Answer(c) /\ Quiet /\ Good(k) /\ Serial(k)
  BY DEF Abort, Quiet, IInv, CallsInv, SerialInv
<1>2. Kept
  BY <1>1, QuietKept
<1>3. CASE ~Shows(k)
  BY <1>1, <1>2, <1>3, BooksAnswer
<1>4. CASE Shows(k)
  <2>1. k.match \in DOMAIN matches /\ settled[k.match] >= 1 /\ k.match \notin FinishedMatches
    BY <1>1, <1>4 DEF Shows, Good, Paid, Saves, Inserts, Serial, Saving, FinishedMatches
  <2>2. ~Once({})
    BY <2>1 DEF Once
  <2>3. ~Once({})'
    BY <1>2, <2>2, KeptBooks
  <2>4. DOMAIN inflight' = {}
    BY <1>1 DEF OneAtATime, TypeOK, Answer, Drop
  <2>5. (\A x \in FinishedMatches : \E w, l : Sides(Loaded(x), w, l))'
    BY <1>2, KeptBooks DEF BooksInv
  <2>6. QED
    BY <2>3, <2>4, <2>5 DEF BooksInv
<1>5. QED
  BY <1>3, <1>4

\* No body that finishes a match repeats its bets.
NothingResent == BetsResent \subseteq {{}}

LEMMA BooksFinish ==
    ASSUME OneAtATime, NothingResent, IInv, SerialInv, BooksInv, NEW c \in Calls, NEW m, NEW w,
           NEW l, NEW resent \in BetsResent, NEW type, MatchFinish(c, m, w, l, resent, type)
    PROVE  BooksInv'
<1> PICK row : row = [matches[m] EXCEPT !.status = "FINISHED",
                        !.bets = [o \in Orders |-> IF o \in resent THEN 0 ELSE @[o]],
                        !.type = TypeOf(type, @)]
  OBVIOUS
<1> PICK keep : keep = [t \in {w, l} |->
                          [teams[t] EXCEPT !.result = IF t = w THEN "WINNER" ELSE "LOSER"]]
  OBVIOUS
<1> PICK k : k = [op |-> "FindMembers", match |-> m, winner |-> w, loser |-> l,
                  bets |-> matches[m].bets, row |-> row, keep |-> keep]
  OBVIOUS
<1>1. TypeOK /\ Await(c, k) /\ Quiet /\ c \notin DOMAIN inflight /\ matches[m] \in MatchRow
  BY Tables2 DEF MatchFinish, Quiet, IInv, Idle
<1>2. row.bets = matches[m].bets
  <2>1. resent = {}
    BY DEF NothingResent
  <2>2. row.bets = [o \in Orders |-> matches[m].bets[o]]
    BY <1>1, <2>1 DEF MatchRow
  <2>3. QED
    BY <1>1, <2>2 DEF MatchRow, Bets
<1>3. k.op = "FindMembers" /\ k.match = m /\ k.row = row
  OBVIOUS
<1>4. ~Shows(k) /\ k.row.bets = matches'[k.match].bets
  BY <1>1, <1>2, <1>3 DEF Shows, Saves, Quiet
<1>5. QED
  BY <1>1, <1>4, QuietKept, BooksAwait

\* Handlers that read, and go on without having paid.
LEMMA BooksQuiet ==
    ASSUME OneAtATime, TypeOK, BooksInv, Quiet, NEW c \in Calls, NEW k, Await(c, k), ~Shows(k),
           c \in DOMAIN inflight => ~Shows(inflight[c]),
           k.op \in Settles => k.row.bets = matches[k.match].bets
    PROVE  BooksInv'
BY QuietKept, BooksAwait DEF Quiet

LEMMA BooksStart ==
    ASSUME OneAtATime, TypeOK, BooksInv, NEW c \in Calls, NEW m, MatchStart(c, m)
    PROVE  BooksInv'
<1> PICK row : row = [matches[m] EXCEPT !.status = "STARTED"]
  OBVIOUS
<1> PICK k : k = [op |-> "SaveMatch", match |-> m, row |-> row, keep |-> Loaded(m), fresh |-> <<>>]
  OBVIOUS
<1>1. Quiet /\ Await(c, k) /\ c \notin DOMAIN inflight /\ matches[m] \in MatchRow
  BY Tables2 DEF MatchStart, Quiet, Idle
<1>2. k.op = "SaveMatch" /\ k.row = row /\ row.status = "STARTED"
  BY <1>1 DEF MatchRow
<1>3. ~Shows(k) /\ k.op \notin Settles
  BY <1>2 DEF Shows, Settles
<1>4. QED
  BY <1>1, <1>3, BooksQuiet

LEMMA BooksEditFindPlayers ==
    ASSUME OneAtATime, IInv, SerialInv, BooksInv, NEW c, MatchEditFindPlayers(c)
    PROVE  BooksInv'
<1> PICK h : h = inflight[c]
  OBVIOUS
<1> PICK k : k = [op |-> "SaveMatch", match |-> h.match, row |-> h.row,
                  keep |-> EmptyTable, fresh |-> NewTeams(h.sheet, h.match)]
  OBVIOUS
<1>1. /\ TypeOK /\ c \in Calls /\ h.op = "FindNewPlayers" /\ Good(h) /\ Quiet
      /\ Await(c, k) \/ Answer(c)
  BY SerialAt DEF MatchEditFindPlayers, Quiet
<1>2. k.op = "SaveMatch" /\ k.row = h.row /\ h.row.status = "READY"
  BY <1>1 DEF Good, Edits
<1>3. ~Shows(h) /\ ~Shows(k) /\ k.op \notin Settles
  BY <1>1, <1>2 DEF Shows, Settles
<1>4. QED
  BY <1>1, <1>3, BooksQuiet, BooksAnswer, QuietKept

\* The find and the read of the members keep what the call has in hand.
LEMMA BooksMembers ==
    ASSUME OneAtATime, IInv, SerialInv, BooksInv, NEW c,
           MatchFinishFindMembers(c) \/ MatchFinishReadMembers(c)
    PROVE  BooksInv'
<1> PICK h : h = inflight[c]
  OBVIOUS
<1>1. /\ TypeOK /\ c \in Calls /\ h.op \in {"FindMembers", "SaveMembers"} /\ Billed(h) /\ Quiet
  BY SerialAt DEF MatchFinishFindMembers, MatchFinishReadMembers, Quiet, At, BooksInv
<1>2. ~Shows(h) /\ h.row.bets = matches[h.match].bets
  BY <1>1 DEF Shows, Saves, Billed, Settles
<1>3. Answer(c) \/ \E k : /\ Await(c, k) /\ k.op \in {"SaveMembers", "WriteMembers"}
                          /\ k.match = h.match /\ k.row = h.row
  <2>1. CASE MatchFinishReadMembers(c)
    BY <2>1 DEF MatchFinishReadMembers
  <2>2. CASE MatchFinishFindMembers(c) /\ ~Answer(c)
    <3> DEFINE k(chosen) ==
          [op |-> "SaveMembers", match |-> h.match, row |-> h.row, keep |-> h.keep,
           amounts |-> [m \in Range(chosen) |->
                            members[m].winningAmount
                                + Stake(h.keep[h.winner], h.bets, chosen, m)
                                - Stake(h.keep[h.loser], h.bets, chosen, m)]]
    <3>1. \E chosen : Await(c, k(chosen))
      BY <2>2 DEF MatchFinishFindMembers
    <3>2. \A chosen : /\ k(chosen).op = "SaveMembers"
                      /\ k(chosen).match = h.match /\ k(chosen).row = h.row
      OBVIOUS
    <3> HIDE DEF k
    <3>3. QED
      BY <3>1, <3>2
  <2>3. QED
    BY <2>1, <2>2
<1>4. CASE Answer(c)
  BY <1>1, <1>2, <1>4, BooksAnswer, QuietKept
<1>5. CASE ~Answer(c)
  <2>1. PICK k : /\ Await(c, k) /\ k.op \in {"SaveMembers", "WriteMembers"}
                 /\ k.match = h.match /\ k.row = h.row
    BY <1>3, <1>5
  <2>2. ~Shows(k)
    BY <2>1 DEF Shows, Saves
  <2>3. QED
    BY <1>1, <1>2, <2>1, <2>2, BooksQuiet
<1>6. QED
  BY <1>4, <1>5

LEMMA BooksInsertFindPlayers ==
    ASSUME OneAtATime, IInv, SerialInv, BooksInv, NEW c, MatchInsertFindPlayers(c)
    PROVE  BooksInv'
<1> PICK h : h = inflight[c]
  OBVIOUS
<1> PICK k : k = [h EXCEPT !.op = "InsertMatch"]
  OBVIOUS
<1>1. TypeOK /\ c \in Calls /\ h.op = "FindPlayers" /\ Quiet /\ (Await(c, k) \/ Answer(c))
  BY SerialAt DEF MatchInsertFindPlayers, Quiet
<1>2. ~Shows(h) /\ ~Shows(k) /\ k.op \notin Settles
  BY <1>1 DEF Shows, Saves, Settles
<1>3. QED
  BY <1>1, <1>2, BooksQuiet, BooksAnswer, QuietKept

LEMMA BooksInsertSave ==
    ASSUME OneAtATime, IInv, SerialInv, BooksInv, NEW c, MatchInsertSave(c)
    PROVE  BooksInv'
<1>1. /\ TypeOK /\ c \in Calls /\ inflight[c].op = "InsertMatch"
      /\ Answer(c) /\ UNCHANGED <<members, settled>>
  BY SerialAt, InsertSaveRows DEF MatchInsertSave
<1>2. ~Shows(inflight[c])
  BY <1>1 DEF Shows, Saves
<1>3. /\ DOMAIN matches \subseteq DOMAIN matches'
      /\ \A x \in DOMAIN matches' : matches'[x].status = "FINISHED" => x \in FinishedMatches
  <2>1. /\ \A m \in DOMAIN matches : m \in DOMAIN matches' /\ matches'[m] = matches[m]
        /\ \A m \in DOMAIN matches' : m \notin DOMAIN matches => matches'[m].status = "READY"
    BY InsertSaveRows
  <2>2. QED
    BY <2>1 DEF FinishedMatches
<1>4. Kept
  BY <1>1, <1>3, SerialInsertSave, EffectKept
<1>5. QED
  BY <1>1, <1>2, <1>4, BooksAnswer

LEMMA BooksEditDeleteTeams ==
    ASSUME OneAtATime, IInv, SerialInv, BooksInv, NEW c, MatchEditDeleteTeams(c)
    PROVE  BooksInv'
<1> PICK h : h = inflight[c]
  OBVIOUS
<1> PICK k : k = [op |-> "FindNewPlayers", match |-> h.match, sheet |-> h.sheet, row |-> h.row]
  OBVIOUS
<1>1. /\ TypeOK /\ c \in Calls /\ h.op = "DeleteTeams" /\ Await(c, k)
      /\ UNCHANGED <<members, matches, settled>>
  BY SerialAt DEF MatchEditDeleteTeams
<1>2. ~Shows(h) /\ ~Shows(k) /\ k.op \notin Settles
  BY <1>1 DEF Shows, Saves, Settles
<1>3. \A x \in DOMAIN matches' : matches'[x].status = "FINISHED" => x \in FinishedMatches
  BY <1>1 DEF FinishedMatches
<1>4. Kept
  BY <1>1, <1>3, SerialEditDeleteTeams, EffectKept
<1>5. QED
  BY <1>1, <1>2, <1>4, BooksAwait

LEMMA BooksRemoveDelete ==
    ASSUME OneAtATime, IInv, SerialInv, BooksInv, NEW c, MatchRemoveDelete(c)
    PROVE  BooksInv'
<1> PICK h : h = inflight[c]
  OBVIOUS
<1>1. /\ TypeOK /\ c \in Calls /\ h.op = "DeleteMatch" /\ Answer(c)
      /\ UNCHANGED <<members, settled>>
      /\ matches' = [matches EXCEPT ![h.match].live = FALSE]
  BY SerialAt DEF MatchRemoveDelete
<1>2. ~Shows(h)
  BY <1>1 DEF Shows, Saves
<1>3. \A x \in DOMAIN matches' : matches'[x].status = "FINISHED" => x \in FinishedMatches
  <2>1. \A x \in DOMAIN matches : matches[x] \in MatchRow
    BY <1>1, Tables2
  <2>2. QED
    BY <1>1, <2>1 DEF FinishedMatches, MatchRow
<1>4. Kept
  BY <1>1, <1>3, SerialRemoveDelete, EffectKept
<1>5. QED
  BY <1>1, <1>2, <1>4, BooksAnswer

\* Calls that begin with something else.
LEMMA BooksBegin ==
    ASSUME OneAtATime, IInv, BooksInv, NEW c \in Calls, NEW m, NEW sheet,
           MatchInsert(c, sheet) \/ MatchEdit(c, m, sheet) \/ MatchRemove(c, m)
    PROVE  BooksInv'
<1>1. TypeOK /\ Quiet /\ c \notin DOMAIN inflight
  BY DEF MatchInsert, MatchEdit, MatchRemove, Quiet, Idle, IInv
<1>2. \E k : Await(c, k) /\ k.op \in {"FindPlayers", "DeleteTeams", "DeleteMatch"}
  <2>1. CASE MatchInsert(c, sheet)
    <3>1. PICK k : k = [op |-> "FindPlayers", sheet |-> sheet]
      OBVIOUS
    <3>2. Await(c, k) /\ k.op = "FindPlayers"
      BY <2>1, <3>1 DEF MatchInsert
    <3>3. QED
      BY <3>2
  <2>2. CASE MatchEdit(c, m, sheet)
    <3>1. PICK k : k = [op |-> "DeleteTeams", match |-> m, sheet |-> sheet,
                        row |-> [matches[m] EXCEPT
                                   !.bets = BetsOf(sheet, @),
                                   !.type = TypeOf(sheet.type, @)],
                        ids |-> TeamsOf(m)]
      OBVIOUS
    <3>2. Await(c, k) /\ k.op = "DeleteTeams"
      BY <2>2, <3>1 DEF MatchEdit
    <3>3. QED
      BY <3>2
  <2>3. CASE MatchRemove(c, m)
    <3>1. PICK k : k = [op |-> "DeleteMatch", match |-> m]
      OBVIOUS
    <3>2. Await(c, k) /\ k.op = "DeleteMatch"
      BY <2>3, <3>1 DEF MatchRemove
    <3>3. QED
      BY <3>2
  <2>4. QED
    BY <2>1, <2>2, <2>3
<1>3. PICK k : Await(c, k) /\ k.op \in {"FindPlayers", "DeleteTeams", "DeleteMatch"}
  BY <1>2
<1>4. ~Shows(k) /\ k.op \notin Settles
  BY <1>3 DEF Shows, Saves, Settles
<1>5. QED
  BY <1>1, <1>3, <1>4, BooksQuiet

LEMMA BooksInductive ==
    ASSUME OneAtATime, NothingResent, IInv, SerialInv, LedgerInv, BooksInv, [Next]_vars
    PROVE  BooksInv'
<1>1. CASE UNCHANGED vars
  <2>1. Quiet
    BY <1>1 DEF Quiet, vars
  <2>2. QED
    BY <1>1, <2>1, QuietKept, BooksStutter DEF vars
<1>2. CASE Next
  <2>1. CASE Environment
    <3>1. UNCHANGED <<matches, teams, inflight, settled>>
      BY <2>1 DEF Environment, SessionMoves, MemberLeaves
    <3>2. \A m \in Members : members'[m].winningAmount = members[m].winningAmount
      <4>1. members \in [Members -> MemberRow]
        BY DEF IInv, TypeOK
      <4>2. QED
        BY <2>1, <4>1 DEF Environment, SessionMoves, MemberLeaves, MemberRow
    <3>3. Kept
      BY <3>1, <3>2 DEF Kept, FinishedMatches, Loaded, TeamsOf
    <3>4. QED
      BY <3>1, <3>3, BooksStutter
  <2>2. CASE ~Environment
    <3>1. PICK c \in Calls : Asks(c) \/ Continues(c) \/ Abort(c)
      BY <1>2, <2>2, ActionCases
    <3>2. TypeOK
      BY DEF IInv
    <3>3. CASE Continues(c)
      BY <3>3, BooksInsertFindPlayers, BooksInsertSave, BooksEditDeleteTeams,
         BooksEditFindPlayers, BooksMembers, BooksWriteMembers, BooksSaveRead,
         BooksSaveWrite, BooksSaveOther, BooksRemoveDelete DEF Continues
    <3>4. CASE ~Continues(c)
      BY <3>1, <3>2, <3>4, BooksBegin, BooksStart, BooksFinish, BooksAbort DEF Asks
    <3>5. QED
      BY <3>3, <3>4
  <2>3. QED
    BY <2>1, <2>2
<1>3. QED
  BY <1>1, <1>2

LEMMA BooksInvariance ==
    ASSUME OneAtATime, NothingResent
    PROVE  Spec => []BooksInv
<1>1. ASSUME Init
      PROVE  BooksInv
  <2>1. FinishedMatches = {} /\ DOMAIN inflight = {}
    BY <1>1 DEF Init, FinishedMatches, EmptyTable
  <2>2. ASSUME NEW u
        PROVE  BalanceOf(u) = 0 /\ Earned(u) = 0
    <3>1. PICK S, f : S = {n \in Members : UserOf[n] = u} /\ f = [m \in S |-> members[m].winningAmount]
      OBVIOUS
    <3>2. IsFiniteSet(S) /\ \A m \in S : f[m] = 0
      BY <1>1, <3>1, MembersAssumption, FS_Subset DEF Init
    <3>3. BalanceOf(u) = SumFunctionOnSet(f, S)
      BY <3>1, SumOfFunction DEF BalanceOf
    <3>4. PICK g : g = [x \in FinishedMatches |-> ResultOf(Loaded(x), matches[x].bets, u)]
      OBVIOUS
    <3>5. DOMAIN g = {} /\ Earned(u) = SumFunctionOnSet(g, DOMAIN g)
      BY <2>1, <3>4, SumOfFunction DEF Earned
    <3>6. QED
      BY <3>2, <3>3, <3>5, SumZero, SumEmpty
  <2>3. QED
    BY <2>1, <2>2 DEF BooksInv
<1>2. IInv /\ SerialInv /\ LedgerInv /\ BooksInv /\ [Next]_vars => BooksInv'
  BY BooksInductive
<1>3. QED
  BY <1>1, <1>2, Invariance, SerialInvariance, LedgerInvariance, PTL DEF Spec

\* Every user has won exactly what the bets and results of the FINISHED matches say,
\* once each of them, and no other match, was settled just once.
THEOREM BalancesMatch ==
    ASSUME OneAtATime, NothingResent
    PROVE  Spec => []BalanceMatchesResults
<1>1. IInv /\ BooksInv => BalanceMatchesResults
  <2> SUFFICES ASSUME IInv, BooksInv,
                      \A c \in Calls : Idle(c),
                      \A x \in DOMAIN matches : settled[x] = IF x \in FinishedMatches THEN 1 ELSE 0
               PROVE  \A u \in Users : BalanceOf(u) = Earned(u)
    BY DEF BalanceMatchesResults, Earned
  <2>1. DOMAIN inflight = {}
    BY DEF IInv, TypeOK, Idle
  <2>2. Once({})
    BY DEF Once
  <2>3. QED
    BY <2>1, <2>2 DEF BooksInv
<1>2. QED
  BY <1>1, Invariance, BooksInvariance, PTL

-----------------------------------------------------------------------------
(* What the matches show, one step at a time *)

Same(m) ==
    /\ StageShown(m)' = StageShown(m) /\ SidesShown(m)' = SidesShown(m)
    /\ PaidShown(m)' = PaidShown(m) /\ WinnersShown(m)' = WinnersShown(m)

BalancesStay == \A u \in Users : BalanceOf(u)' = BalanceOf(u)

LEMMA NoSides == SettlementView!NoSides = EmptyTable
BY DEF SettlementView!NoSides, EmptyTable

LEMMA ViewStutter ==
    ASSUME \A m \in MatchIds : Same(m), BalancesStay
    PROVE  UNCHANGED SettlementView!vars
BY DEF SettlementView!vars, Same, BalancesStay

LEMMA ViewArrange ==
    ASSUME NEW x \in MatchIds, \A m \in MatchIds : m # x => Same(m), BalancesStay,
           StageShown(x) \in {"none", "READY"}, StageShown(x)' = "READY",
           SettlementView!Opposed(SidesShown(x)'),
           PaidShown(x)' = PaidShown(x), WinnersShown(x)' = WinnersShown(x)
    PROVE  SettlementView!Next
<1>1. SettlementView!Arrange(x)
  BY DEF SettlementView!Arrange, Same, BalancesStay
<1>2. QED
  BY <1>1 DEF SettlementView!Next

LEMMA ViewWithdraw ==
    ASSUME NEW x \in MatchIds, \A m \in MatchIds : m # x => Same(m), BalancesStay,
           StageShown(x) = "READY", StageShown(x)' = "REMOVED", SidesShown(x)' = EmptyTable,
           PaidShown(x)' = PaidShown(x), WinnersShown(x)' = WinnersShown(x)
    PROVE  SettlementView!Next
<1>1. SettlementView!Withdraw(x)
  BY NoSides DEF SettlementView!Withdraw, Same, BalancesStay
<1>2. QED
  BY <1>1 DEF SettlementView!Next

LEMMA ViewStart ==
    ASSUME NEW x \in MatchIds, \A m \in MatchIds : m # x => Same(m), BalancesStay,
           StageShown(x) = "READY", StageShown(x)' = "STARTED", SidesShown(x)' = SidesShown(x),
           PaidShown(x)' = PaidShown(x), WinnersShown(x)' = WinnersShown(x)
    PROVE  SettlementView!Next
<1>1. SettlementView!Start(x)
  BY DEF SettlementView!Start, Same, BalancesStay
<1>2. QED
  BY <1>1 DEF SettlementView!Next

LEMMA ViewGiveUp ==
    ASSUME NEW x \in MatchIds, \A m \in MatchIds : m # x => Same(m), BalancesStay,
           StageShown(x)' = StageShown(x), SidesShown(x)' = SidesShown(x),
           PaidShown(x) # {}, PaidShown(x)' = {}, WinnersShown(x)' = WinnersShown(x)
    PROVE  SettlementView!Next
<1>1. SettlementView!GiveUp(x)
  BY DEF SettlementView!GiveUp, SettlementView!Nobody, Same, BalancesStay
<1>2. QED
  BY <1>1 DEF SettlementView!Next

LEMMA ViewFinish ==
    ASSUME NEW x \in MatchIds, \A m \in MatchIds : m # x => Same(m), BalancesStay,
           StageShown(x) = "STARTED", StageShown(x)' = "FINISHED", SidesShown(x)' = EmptyTable,
           PaidShown(x) # {}, PaidShown(x)' = {}, WinnersShown(x)' = PaidShown(x)
    PROVE  SettlementView!Next
<1>1. SettlementView!Finish(x)
  BY NoSides DEF SettlementView!Finish, SettlementView!Nobody, Same, BalancesStay
<1>2. QED
  BY <1>1 DEF SettlementView!Next

LEMMA ViewPay ==
    ASSUME NEW x \in MatchIds, \A m \in MatchIds : m # x => Same(m),
           StageShown(x) = "STARTED", StageShown(x)' = "STARTED",
           SidesShown(x)' = SidesShown(x), WinnersShown(x)' = WinnersShown(x),
           NEW won \in DOMAIN SidesShown(x), NEW lost \in DOMAIN SidesShown(x), won # lost,
           PaidShown(x) = {}, PaidShown(x)' = DOMAIN SidesShown(x)[won],
           \A u \in Users : BalanceOf(u)' = BalanceOf(u)
                                + SettlementView!StakeOf(SidesShown(x)[won], u)
                                - SettlementView!StakeOf(SidesShown(x)[lost], u)
    PROVE  SettlementView!Next
<1>1. SettlementView!Pay(x, won, lost)
  BY DEF SettlementView!Pay, SettlementView!Nobody, Same
<1>2. QED
  BY <1>1 DEF SettlementView!Next

-----------------------------------------------------------------------------
(* The sides of a match *)

HasPlayers(team) == UsersOf(team) # {}

Manned == \A t \in DOMAIN teams : HasPlayers(teams[t])

LEMMA OpposedNone == SettlementView!Opposed(EmptyTable)
BY NoSides DEF SettlementView!Opposed

\* The validators ask for one, two or three players in each team.
LEMMA NewSides ==
    ASSUME NEW sheet, IsSheet(sheet), ValidTeams(sheet), NEW m \in MatchIds, NEW i \in 1..2
    PROVE  HasPlayers(NewTeams(sheet, m)[i])
<1>1. /\ sheet.teams[i] \in Seq([member : Members, order : Nat \ {0}])
      /\ Len(sheet.teams[i]) = PlayersPerTeam(sheet.type)
  BY DEF IsSheet, ValidTeams
<1>2. PlayersPerTeam(sheet.type) \in 1..3
  BY DEF PlayersPerTeam
<1>3. 1 \in DOMAIN sheet.teams[i]
  BY <1>1, <1>2
<1>4. 1 \in DOMAIN NewTeams(sheet, m)[i].players
  BY <1>3 DEF NewTeams
<1>5. QED
  BY <1>4 DEF HasPlayers, UsersOf, Range

-----------------------------------------------------------------------------
(* Every team has players, whatever the call does *)

\* The match of a call is not removed, starts with the bets it has, and gets
\* new teams that have players.
Line(k) ==
    /\ k.op \notin Inserts => matches[k.match].live
    /\ k.op \in Saves =>
        /\ k.row.status = "STARTED" => k.row.bets = matches[k.match].bets
        /\ \A i \in DOMAIN k.fresh : HasPlayers(k.fresh[i])

LineupInv == Manned /\ \A c \in DOMAIN inflight : Line(inflight[c])

LEMMA LineStays ==
    ASSUME UNCHANGED matches, NEW k, Line(k)
    PROVE  Line(k)'
BY DEF Line

LEMMA LineAwait ==
    ASSUME OneAtATime, TypeOK, NEW c \in Calls, NEW k, Await(c, k), Manned', Line(k)'
    PROVE  LineupInv'
<1>1. DOMAIN inflight' = {c} /\ inflight'[c] = k
  BY DEF OneAtATime, TypeOK, Await, Put
<1>2. QED
  BY <1>1 DEF LineupInv

LEMMA LineAnswer ==
    ASSUME OneAtATime, TypeOK, NEW c \in Calls, Answer(c), Manned'
    PROVE  LineupInv'
<1>1. DOMAIN inflight' = {}
  BY DEF OneAtATime, TypeOK, Answer, Drop
<1>2. QED
  BY <1>1 DEF LineupInv

\* A step that brings no teams takes no players away.
LEMMA MannedStays ==
    ASSUME IInv, SerialInv, LineupInv, [Next]_vars, DOMAIN teams' \subseteq DOMAIN teams
    PROVE  Manned'
<1>1. ASSUME NEW t \in DOMAIN teams'
      PROVE  HasPlayers(teams[t])'
  <2>1. HasPlayers(teams[t]) /\ teams'[t].players = teams[t].players
    BY <1>1, LineupsStay DEF LineupInv, Manned
  <2>2. QED
    BY <2>1 DEF HasPlayers, UsersOf
<1>2. QED
  BY <1>1 DEF Manned

LEMMA MannedQuiet ==
    ASSUME LineupInv, UNCHANGED teams
    PROVE  Manned'
BY DEF LineupInv, Manned, HasPlayers, UsersOf

\* Steps that only read.
LEMMA LineQuietAwait ==
    ASSUME OneAtATime, TypeOK, LineupInv, Quiet, NEW c \in Calls, NEW k, Await(c, k), Line(k)
    PROVE  LineupInv'
BY MannedQuiet, LineStays, LineAwait DEF Quiet

LEMMA LineQuietAnswer ==
    ASSUME OneAtATime, TypeOK, LineupInv, Quiet, NEW c \in Calls, Answer(c)
    PROVE  LineupInv'
BY MannedQuiet, LineAnswer DEF Quiet

\* A call that goes on with the match it has, and brings no teams.
LEMMA LineGoesOn ==
    ASSUME NEW h, Line(h), h.op \notin Inserts, NEW k, k.match = h.match,
           k.op \in Saves => k.row.status # "STARTED" /\ k.fresh = <<>>
    PROVE  Line(k)
BY DEF Line, Inserts

LEMMA LineAt ==
    ASSUME IInv, LineupInv, NEW c, NEW op, At(c, op)
    PROVE  c \in Calls /\ TypeOK /\ Line(inflight[c]) /\ inflight[c].op = op
BY AtCall DEF At, LineupInv, IInv

\* The rows of new teams, with their players.
LEMMA InsertedTeams ==
    ASSUME IInv, NEW c, MatchInsertSave(c), NEW t \in DOMAIN teams', t \notin DOMAIN teams
    PROVE  \E i \in 1..2 : /\ t = Len(teams) + i
                           /\ teams'[t] = NewTeams(inflight[c].sheet, Len(matches) + 1)[i]
<1> PICK sheet, n : sheet = inflight[c].sheet /\ n = Len(matches) + 1
  OBVIOUS
<1>1. TypeOK /\ Good(inflight[c]) /\ inflight[c].op = "InsertMatch"
  BY AtCall DEF IInv, MatchInsertSave
<1>2. IsSheet(sheet) /\ ValidTeams(sheet)
  BY <1>1 DEF Good, Valid, Inserts
<1>3. n \in MatchIds
  <2>1. Len(matches) \in Nat /\ Len(matches) < MaxMatches
    BY <1>1, Tables2 DEF MatchInsertSave
  <2>2. QED
    BY <2>1, BoundsAssumption DEF MatchIds
<1>4. teams \in Seq(TeamRow) /\ teams' = teams \o NewTeams(sheet, n)
  BY <1>1 DEF TypeOK, MatchInsertSave
<1> PICK r : r = NewTeams(sheet, n)
  OBVIOUS
<1>5. r \in Seq(TeamRow) /\ Len(r) = 2
  BY <1>2, <1>3, NewTeamsRows
<1>6. Len(teams) \in Nat /\ DOMAIN teams = 1..Len(teams)
  BY <1>4, SeqFacts
<1>7. DOMAIN teams' = 1..(Len(teams) + 2)
      /\ \A i \in 1..(Len(teams) + 2) :
            i \notin 1..Len(teams) => i - Len(teams) \in 1..2 /\ teams'[i] = r[i - Len(teams)]
  <2>1. teams \in Seq(TeamRow) /\ teams' = teams \o r
    BY <1>4
  <2>2. /\ DOMAIN (teams \o r) = 1..(Len(teams) + Len(r))
        /\ \A i \in 1..(Len(teams) + Len(r)) :
              i \notin 1..Len(teams) =>
                i - Len(teams) \in 1..Len(r) /\ (teams \o r)[i] = r[i - Len(teams)]
    BY <1>5, <2>1, AppendRows
  <2>3. QED
    BY <1>5, <2>1, <2>2
<1>8. t - Len(teams) \in 1..2 /\ teams'[t] = r[t - Len(teams)] /\ t = Len(teams) + (t - Len(teams))
  BY <1>6, <1>7
<1>9. QED
  BY <1>8

LEMMA LineInsertSave ==
    ASSUME OneAtATime, IInv, SerialInv, LineupInv, NEW c, MatchInsertSave(c)
    PROVE  LineupInv'
<1> PICK sheet, n : sheet = inflight[c].sheet /\ n = Len(matches) + 1
  OBVIOUS
<1>1. TypeOK /\ c \in Calls /\ Answer(c) /\ Good(inflight[c]) /\ inflight[c].op = "InsertMatch"
  BY AtCall DEF IInv, MatchInsertSave
<1>2. IsSheet(sheet) /\ ValidTeams(sheet)
  BY <1>1 DEF Good, Valid, Inserts
<1>3. n \in MatchIds
  <2>1. Len(matches) \in Nat /\ Len(matches) < MaxMatches
    BY <1>1, Tables2 DEF MatchInsertSave
  <2>2. QED
    BY <2>1, BoundsAssumption DEF MatchIds
<1>4. ASSUME NEW t \in DOMAIN teams'
      PROVE  HasPlayers(teams[t])'
  <2>1. CASE t \in DOMAIN teams
    <3>1. teams'[t] = teams[t] /\ HasPlayers(teams[t])
      BY <1>1, <2>1, InsertSaveRows DEF LineupInv, Manned
    <3>2. QED
      BY <3>1 DEF HasPlayers, UsersOf
  <2>2. CASE t \notin DOMAIN teams
    <3>1. PICK i \in 1..2 : teams'[t] = NewTeams(sheet, n)[i]
      BY <1>4, <2>2, InsertedTeams
    <3>2. HasPlayers(teams'[t])
      BY <1>2, <1>3, <3>1, NewSides
    <3>3. QED
      BY <3>2 DEF HasPlayers, UsersOf
  <2>3. QED
    BY <2>1, <2>2
<1>5. Manned'
  BY <1>4 DEF Manned
<1>6. QED
  BY <1>1, <1>5, LineAnswer

LEMMA LineSaveWrite ==
    ASSUME OneAtATime, IInv, SerialInv, LineupInv, NEW c, MatchSaveWrite(c)
    PROVE  LineupInv'
<1> PICK k : k = inflight[c]
  OBVIOUS
<1>1. TypeOK /\ c \in Calls /\ Answer(c) /\ k.op = "WriteMatch" /\ Line(k)
  BY SerialAt DEF MatchSaveWrite, LineupInv, At
<1>2. ~RolledBack(k) /\ \A t \in DOMAIN teams : teams'[t].players = teams[t].players
  BY SerialSaveRows
<1>3. \A t \in DOMAIN teams' : t \notin DOMAIN teams =>
         \E i \in DOMAIN k.fresh : t = Len(teams) + i /\ teams'[t] = k.fresh[i]
  BY <1>2, SaveWriteRows
<1>4. ASSUME NEW t \in DOMAIN teams'
      PROVE  HasPlayers(teams'[t])
  <2>1. CASE t \in DOMAIN teams
    BY <1>2, <2>1 DEF LineupInv, Manned, HasPlayers, UsersOf
  <2>2. CASE t \notin DOMAIN teams
    <3>1. PICK i \in DOMAIN k.fresh : teams'[t] = k.fresh[i]
      BY <1>3, <1>4, <2>2
    <3>2. QED
      BY <1>1, <3>1 DEF Line, Saves
  <2>3. QED
    BY <2>1, <2>2
<1>5. Manned'
  BY <1>4 DEF Manned, HasPlayers, UsersOf
<1>6. QED
  BY <1>1, <1>5, LineAnswer

LEMMA LineInsertFindPlayers ==
    ASSUME OneAtATime, IInv, LineupInv, NEW c, MatchInsertFindPlayers(c)
    PROVE  LineupInv'
<1> PICK k : k = [inflight[c] EXCEPT !.op = "InsertMatch"]
  OBVIOUS
<1>1. TypeOK /\ c \in Calls /\ Quiet /\ (Await(c, k) \/ Answer(c))
  BY LineAt DEF MatchInsertFindPlayers, Quiet
<1>2. CASE Await(c, k)
  <2>1. DOMAIN inflight' = {c} /\ inflight'[c] = k
    BY <1>1, <1>2 DEF OneAtATime, TypeOK, Await, Put
  <2>2. IInv'
    BY InsertFindPlayersStep
  <2>3. k.op \in Ops
    BY <2>1, <2>2 DEF IInv, CallsInv, Good
  <2>4. Line(k)
    BY <2>3 DEF Line, Inserts, Saves, Ops
  <2>5. QED
    BY <1>1, <1>2, <2>4, LineQuietAwait
<1>3. CASE Answer(c)
  BY <1>1, <1>3, LineQuietAnswer
<1>4. QED
  BY <1>1, <1>2, <1>3

LEMMA LineEditDeleteTeams ==
    ASSUME OneAtATime, IInv, SerialInv, LineupInv, [Next]_vars, NEW c, MatchEditDeleteTeams(c)
    PROVE  LineupInv'
<1> PICK h : h = inflight[c]
  OBVIOUS
<1> PICK k : k = [op |-> "FindNewPlayers", match |-> h.match, sheet |-> h.sheet, row |-> h.row]
  OBVIOUS
<1>1. TypeOK /\ c \in Calls /\ Line(h) /\ h.op = "DeleteTeams" /\ Await(c, k)
      /\ matches' = matches /\ DOMAIN teams' = DOMAIN teams
  BY LineAt DEF MatchEditDeleteTeams
<1>2. Manned'
  BY <1>1, MannedStays
<1>3. Line(k)'
  BY <1>1, LineGoesOn, LineStays DEF Inserts, Saves
<1>4. QED
  BY <1>1, <1>2, <1>3, LineAwait

LEMMA LineEditFindPlayers ==
    ASSUME OneAtATime, IInv, LineupInv, NEW c, MatchEditFindPlayers(c)
    PROVE  LineupInv'
<1> PICK h : h = inflight[c]
  OBVIOUS
<1> PICK k : k = [op |-> "SaveMatch", match |-> h.match, row |-> h.row,
                  keep |-> EmptyTable, fresh |-> NewTeams(h.sheet, h.match)]
  OBVIOUS
<1>1. TypeOK /\ c \in Calls /\ Good(h) /\ h.op = "FindNewPlayers" /\ Line(h) /\ Quiet
  BY AtCall, LineAt DEF MatchEditFindPlayers, Quiet
<1>2. CASE h.sheet.teams # <<>> /\ Await(c, k)
  <2>1. /\ IsSheet(h.sheet) /\ ValidTeams(h.sheet)
        /\ h.match \in DOMAIN matches /\ h.row.status = "READY" /\ matches[h.match].live
    BY <1>1, <1>2 DEF Good, Valid, Inserts, Edits, Line
  <2>2. h.match \in MatchIds
    BY <1>1, <2>1, Tables2
  <2>3. DOMAIN k.fresh = 1..2
    BY <2>1, <2>2, NewTeamsRows
  <2>4. \A i \in DOMAIN k.fresh : HasPlayers(k.fresh[i])
    BY <2>1, <2>2, <2>3, NewSides
  <2>5. k.match = h.match /\ k.row.status = "READY"
    BY <2>1
  <2>6. Line(k)
    BY <2>1, <2>4, <2>5 DEF Line
  <2>7. QED
    BY <1>1, <1>2, <2>6, LineQuietAwait
<1>3. CASE Answer(c)
  BY <1>1, <1>3, LineQuietAnswer
<1>4. QED
  BY <1>2, <1>3 DEF MatchEditFindPlayers

LEMMA LineFindMembers ==
    ASSUME OneAtATime, IInv, LineupInv, NEW c, MatchFinishFindMembers(c)
    PROVE  LineupInv'
<1> PICK h : h = inflight[c]
  OBVIOUS
<1>1. TypeOK /\ c \in Calls /\ Line(h) /\ h.op = "FindMembers" /\ Quiet
  BY LineAt DEF MatchFinishFindMembers, Quiet
<1>2. CASE Answer(c)
  BY <1>1, <1>2, LineQuietAnswer
<1>3. CASE ~Answer(c)
  <2> DEFINE k(amounts) == [op |-> "SaveMembers", match |-> h.match, row |-> h.row,
                            keep |-> h.keep, amounts |-> amounts]
  <2>1. PICK amounts : Await(c, k(amounts))
    BY <1>3 DEF MatchFinishFindMembers
  <2>2. Line(k(amounts))
    BY <1>1, LineGoesOn DEF Inserts, Saves
  <2>3. QED
    BY <1>1, <2>1, <2>2, LineQuietAwait
<1>4. QED
  BY <1>2, <1>3

LEMMA LineReadMembers ==
    ASSUME OneAtATime, IInv, LineupInv, NEW c, MatchFinishReadMembers(c)
    PROVE  LineupInv'
<1> PICK h : h = inflight[c]
  OBVIOUS
<1> PICK k : k = [op |-> "WriteMembers", match |-> h.match, row |-> h.row,
                  keep |-> h.keep, amounts |-> h.amounts,
                  seen |-> [m \in DOMAIN h.amounts |-> members[m]]]
  OBVIOUS
<1>1. TypeOK /\ c \in Calls /\ Line(h) /\ h.op = "SaveMembers" /\ Quiet /\ Await(c, k)
  BY LineAt DEF MatchFinishReadMembers, Quiet
<1>2. Line(k)
  BY <1>1, LineGoesOn DEF Inserts, Saves
<1>3. QED
  BY <1>1, <1>2, LineQuietAwait

LEMMA LineWriteMembers ==
    ASSUME OneAtATime, IInv, SerialInv, LineupInv, NEW c, MatchFinishWriteMembers(c)
    PROVE  LineupInv'
<1> PICK h : h = inflight[c]
  OBVIOUS
<1> PICK k : k = [op |-> "SaveMatch", match |-> h.match, row |-> h.row,
                  keep |-> h.keep, fresh |-> <<>>]
  OBVIOUS
<1>1. TypeOK /\ c \in Calls /\ Line(h) /\ h.op = "WriteMembers" /\ Serial(h)
      /\ UNCHANGED <<matches, teams>> /\ Await(c, k)
  BY LineAt, SerialAt DEF MatchFinishWriteMembers
<1>2. k.row.status # "STARTED"
  BY <1>1 DEF Serial, Current, Settles
<1>3. Line(k)
  BY <1>1, <1>2, LineGoesOn DEF Inserts
<1>4. QED
  BY <1>1, <1>3, MannedQuiet, LineStays, LineAwait

LEMMA LineSaveRead ==
    ASSUME OneAtATime, IInv, LineupInv, NEW c, MatchSaveRead(c)
    PROVE  LineupInv'
<1> PICK h : h = inflight[c]
  OBVIOUS
<1> PICK k : k = [op |-> "WriteMatch", match |-> h.match, row |-> h.row,
                  keep |-> h.keep, fresh |-> h.fresh,
                  seen |-> matches[h.match],
                  seenTeams |-> [t \in DOMAIN h.keep |-> teams[t]],
                  orphans |-> TeamsOf(h.match) \ DOMAIN h.keep]
  OBVIOUS
<1>1. TypeOK /\ c \in Calls /\ Line(h) /\ h.op = "SaveMatch" /\ Quiet /\ Await(c, k)
  BY LineAt DEF MatchSaveRead, Quiet
<1>2. k.op \in Saves /\ h.op \in Saves /\ k.op \notin Inserts /\ h.op \notin Inserts
  BY <1>1 DEF Inserts, Saves
<1>3. k.match = h.match /\ k.row = h.row /\ k.fresh = h.fresh
  OBVIOUS
<1>4. Line(k)
  BY <1>1, <1>2, <1>3 DEF Line
<1>5. QED
  BY <1>1, <1>4, LineQuietAwait

LEMMA LineRemoveDelete ==
    ASSUME OneAtATime, IInv, SerialInv, LineupInv, [Next]_vars, NEW c, MatchRemoveDelete(c)
    PROVE  LineupInv'
<1>1. TypeOK /\ c \in Calls /\ Answer(c) /\ teams' = teams
  BY LineAt DEF MatchRemoveDelete
<1>2. QED
  BY <1>1, MannedStays, LineAnswer

LEMMA LineBegin ==
    ASSUME OneAtATime, IInv, LineupInv, NEW c \in Calls, Asks(c)
    PROVE  LineupInv'
<1>1. TypeOK
  BY DEF IInv
<1>2. ASSUME NEW sheet, MatchInsert(c, sheet)
      PROVE  LineupInv'
  <2>1. PICK k : k = [op |-> "FindPlayers", sheet |-> sheet]
    OBVIOUS
  <2>2. Await(c, k) /\ Quiet /\ k.op = "FindPlayers"
    BY <1>2, <2>1 DEF MatchInsert, Quiet
  <2>3. Line(k)
    BY <2>2 DEF Line, Inserts, Saves
  <2>4. QED
    BY <1>1, <2>2, <2>3, LineQuietAwait
<1>3. ASSUME NEW m, NEW sheet, MatchEdit(c, m, sheet)
      PROVE  LineupInv'
  <2>1. PICK k : k = [op |-> "DeleteTeams", match |-> m, sheet |-> sheet,
                      row |-> [matches[m] EXCEPT !.bets = BetsOf(sheet, @),
                                                 !.type = TypeOf(sheet.type, @)],
                      ids |-> TeamsOf(m)]
    OBVIOUS
  <2>2. Await(c, k) /\ Quiet /\ k.op = "DeleteTeams" /\ k.match = m /\ matches[m].live
    BY <1>3, <2>1 DEF MatchEdit, Quiet
  <2>3. Line(k)
    BY <2>2 DEF Line, Inserts, Saves
  <2>4. QED
    BY <1>1, <2>2, <2>3, LineQuietAwait
<1>4. ASSUME NEW m, MatchStart(c, m)
      PROVE  LineupInv'
  <2>1. PICK k : k = [op |-> "SaveMatch", match |-> m,
                      row |-> [matches[m] EXCEPT !.status = "STARTED"],
                      keep |-> Loaded(m), fresh |-> <<>>]
    OBVIOUS
  <2>2. Await(c, k) /\ Quiet /\ m \in DOMAIN matches /\ matches[m].live
    BY <1>4, <2>1 DEF MatchStart, Quiet
  <2>3. matches[m] \in MatchRow
    BY <1>1, <2>2, Tables2
  <2>4. k.match = m /\ k.row.bets = matches[m].bets /\ k.fresh = <<>>
    BY <2>1, <2>3 DEF MatchRow
  <2>5. Line(k)
    BY <2>2, <2>4 DEF Line
  <2>6. QED
    BY <1>1, <2>2, <2>5, LineQuietAwait
<1>5. ASSUME NEW m, NEW w, NEW l, NEW resent, NEW type, MatchFinish(c, m, w, l, resent, type)
      PROVE  LineupInv'
  <2>1. PICK k : k = [op |-> "FindMembers", match |-> m, winner |-> w, loser |-> l,
                      bets |-> matches[m].bets,
                      row |-> [matches[m] EXCEPT !.status = "FINISHED",
                                 !.bets = [o \in Orders |-> IF o \in resent THEN 0 ELSE @[o]],
                                 !.type = TypeOf(type, @)],
                      keep |-> [t \in {w, l} |->
                         [teams[t] EXCEPT !.result = IF t = w THEN "WINNER" ELSE "LOSER"]]]
    OBVIOUS
  <2>2. Await(c, k) /\ Quiet /\ k.op = "FindMembers" /\ k.match = m /\ matches[m].live
    BY <1>5, <2>1 DEF MatchFinish, Quiet
  <2>3. Line(k)
    BY <2>2 DEF Line, Inserts, Saves
  <2>4. QED
    BY <1>1, <2>2, <2>3, LineQuietAwait
<1>6. ASSUME NEW m, MatchRemove(c, m)
      PROVE  LineupInv'
  <2>1. PICK k : k = [op |-> "DeleteMatch", match |-> m]
    OBVIOUS
  <2>2. Await(c, k) /\ Quiet /\ k.op = "DeleteMatch" /\ k.match = m /\ matches[m].live
    BY <1>6, <2>1 DEF MatchRemove, Quiet
  <2>3. Line(k)
    BY <2>2 DEF Line, Inserts, Saves
  <2>4. QED
    BY <1>1, <2>2, <2>3, LineQuietAwait
<1>7. QED
  BY <1>2, <1>3, <1>4, <1>5, <1>6 DEF Asks

LEMMA LineInductive ==
    ASSUME OneAtATime, IInv, SerialInv, LineupInv, [Next]_vars
    PROVE  LineupInv'
<1>1. TypeOK
  BY DEF IInv
<1>2. CASE UNCHANGED <<matches, teams, inflight>>
  BY <1>2, MannedQuiet, LineStays DEF LineupInv
<1>3. CASE Next /\ ~Environment
  <2>1. PICK c \in Calls : Asks(c) \/ Continues(c) \/ Abort(c)
    BY <1>3, ActionCases
  <2>2. CASE Continues(c)
    BY <2>2, LineInsertFindPlayers, LineInsertSave, LineEditDeleteTeams, LineEditFindPlayers,
       LineFindMembers, LineReadMembers, LineWriteMembers, LineSaveRead, LineSaveWrite,
       LineRemoveDelete DEF Continues
  <2>3. CASE Abort(c)
    BY <1>1, <2>3, LineQuietAnswer DEF Abort, Quiet
  <2>4. QED
    BY <2>1, <2>2, <2>3, LineBegin
<1>4. QED
  BY <1>2, <1>3 DEF Environment, SessionMoves, MemberLeaves, vars

LEMMA LineInvariance ==
    ASSUME OneAtATime
    PROVE  Spec => []LineupInv
<1>1. Init => LineupInv
  BY DEF Init, EmptyTable, LineupInv, Manned
<1>2. IInv /\ SerialInv /\ LineupInv /\ [Next]_vars => LineupInv'
  BY LineInductive
<1>3. QED
  BY <1>1, <1>2, Invariance, SerialInvariance, PTL DEF Spec

-----------------------------------------------------------------------------
(* What is shown of the matches a step leaves alone, and of the call *)

Still(m) ==
    /\ StageShown(m)' = StageShown(m) /\ SidesShown(m)' = SidesShown(m)
    /\ WinnersShown(m)' = WinnersShown(m)

LEMMA StillShown ==
    ASSUME NEW m, m \in DOMAIN matches, Untouched(m)
    PROVE  Still(m)
<1>1. StageShown(m)' = StageShown(m)
  BY DEF StageShown, Untouched
<1>2. ASSUME NEW t \in TeamsOf(m)
      PROVE  SideShown(t)' = SideShown(t)
  <2>1. teams'[t] = teams[t] /\ teams[t].match = m /\ matches'[m] = matches[m]
    BY DEF Untouched, TeamsOf
  <2>2. QED
    BY <2>1 DEF SideShown, PlacesOf
<1>3. SidesShown(m)' = SidesShown(m)
  BY <1>1, <1>2 DEF SidesShown, Untouched
<1>4. WinnersShown(m)' = WinnersShown(m)
  BY DEF WinnersShown, Untouched
<1>5. QED
  BY <1>1, <1>3, <1>4 DEF Still

LEMMA NotThere ==
    ASSUME IInv, NEW m, m \notin DOMAIN matches
    PROVE  StageShown(m) = "none" /\ SidesShown(m) = EmptyTable /\ WinnersShown(m) = {}
<1>1. TeamsOf(m) = {}
  BY DEF IInv, TeamsHaveMatch, TeamsOf
<1>2. QED
  BY <1>1 DEF StageShown, SidesShown, WinnersShown

LEMMA NotThereNext ==
    ASSUME NEW m
    PROVE  (IInv /\ m \notin DOMAIN matches)' =>
                (StageShown(m) = "none" /\ SidesShown(m) = EmptyTable /\ WinnersShown(m) = {})'
<1>1. IInv /\ m \notin DOMAIN matches =>
         StageShown(m) = "none" /\ SidesShown(m) = EmptyTable /\ WinnersShown(m) = {}
  BY NotThere
<1>2. QED
  BY <1>1, PTL

LEMMA StillNotThere ==
    ASSUME IInv, IInv', NEW m, m \notin DOMAIN matches, m \notin DOMAIN matches'
    PROVE  Still(m)
BY NotThere, NotThereNext DEF Still

LEMMA StillAll ==
    ASSUME UNCHANGED <<matches, teams>>, NEW m
    PROVE  Still(m)
<1>1. \A t : SideShown(t)' = SideShown(t)
  BY DEF SideShown, PlacesOf
<1>2. QED
  BY <1>1 DEF Still, StageShown, SidesShown, WinnersShown, TeamsOf

WinnersIn(keep) == UNION {UsersOf(team) : team \in {t \in Range(keep) : t.result = "WINNER"}}

\* With no call but c under way, what has been paid is what c has in hand.
LEMMA PaidByCall ==
    ASSUME NEW c, DOMAIN inflight \subseteq {c}, NEW m
    PROVE  PaidShown(m) = IF c \in DOMAIN inflight /\ Shows(inflight[c]) /\ inflight[c].match = m
                          THEN WinnersIn(inflight[c].keep) ELSE {}
<1>1. CASE c \in DOMAIN inflight /\ Shows(inflight[c]) /\ inflight[c].match = m
  <2>1. Paying(m) = {c}
    BY <1>1 DEF Paying, Shows, Saves
  <2>2. UNION {Range(inflight[d].keep) : d \in Paying(m)} = Range(inflight[c].keep)
    BY <2>1
  <2>3. QED
    BY <1>1, <2>2 DEF PaidShown, WinnersIn
<1>2. CASE ~(c \in DOMAIN inflight /\ Shows(inflight[c]) /\ inflight[c].match = m)
  <2>1. Paying(m) = {}
    BY <1>2 DEF Paying, Shows, Saves
  <2>2. QED
    BY <1>2, <2>1 DEF PaidShown
<1>3. QED
  BY <1>1, <1>2

LEMMA PaidNext ==
    ASSUME NEW c, NEW m
    PROVE  (DOMAIN inflight \subseteq {c})' =>
              (PaidShown(m) = IF c \in DOMAIN inflight /\ Shows(inflight[c]) /\ inflight[c].match = m
                              THEN WinnersIn(inflight[c].keep) ELSE {})'
<1>1. DOMAIN inflight \subseteq {c} =>
        PaidShown(m) = IF c \in DOMAIN inflight /\ Shows(inflight[c]) /\ inflight[c].match = m
                       THEN WinnersIn(inflight[c].keep) ELSE {}
  BY PaidByCall
<1>2. QED
  BY <1>1, PTL

LEMMA PaidIfAwait ==
    ASSUME OneAtATime, TypeOK, NEW c \in Calls, NEW k, Await(c, k), NEW m
    PROVE  PaidShown(m)' = IF Shows(k) /\ k.match = m THEN WinnersIn(k.keep) ELSE {}
<1>1. DOMAIN inflight' = {c} /\ inflight'[c] = k
  BY DEF OneAtATime, TypeOK, Await, Put
<1>2. PaidShown(m)' = IF Shows(inflight'[c]) /\ inflight'[c].match = m
                      THEN WinnersIn(inflight'[c].keep) ELSE {}
  BY <1>1, PaidNext DEF Shows, WinnersIn, UsersOf
<1>3. QED
  BY <1>1, <1>2

LEMMA PaidIfAnswer ==
    ASSUME OneAtATime, TypeOK, NEW c \in Calls, Answer(c), NEW m
    PROVE  PaidShown(m)' = {}
<1>1. DOMAIN inflight' = {}
  BY DEF OneAtATime, TypeOK, Answer, Drop
<1>2. QED
  BY <1>1, PaidNext

LEMMA PaidBefore ==
    ASSUME OneAtATime, TypeOK, NEW c \in Calls, NEW m
    PROVE  PaidShown(m) = IF c \in DOMAIN inflight /\ Shows(inflight[c]) /\ inflight[c].match = m
                          THEN WinnersIn(inflight[c].keep) ELSE {}
BY PaidByCall DEF OneAtATime, TypeOK

\* Steps that only read, of a call that has not paid.
LEMMA ViewQuiet ==
    ASSUME OneAtATime, TypeOK, Quiet, NEW c \in Calls, NEW k, Await(c, k) \/ Answer(c),
           c \in DOMAIN inflight => ~Shows(inflight[c]), ~Shows(k)
    PROVE  UNCHANGED SettlementView!vars
<1>1. \A m : PaidShown(m) = {}
  BY PaidBefore
<1>2. \A m : PaidShown(m)' = {}
  BY PaidIfAwait, PaidIfAnswer
<1>3. \A m : Still(m)
  BY StillAll DEF Quiet
<1>4. BalancesStay
  BY BalanceStays DEF BalancesStay, Quiet
<1>5. \A m \in MatchIds : Same(m)
  BY <1>1, <1>2, <1>3 DEF Same, Still
<1>6. QED
  BY <1>4, <1>5, ViewStutter

\* The winner of the two sides that a call has in hand.
LEMMA OneWinner ==
    ASSUME NEW keep, NEW w, NEW l, DOMAIN keep = {w, l},
           keep[w].result = "WINNER", keep[l].result = "LOSER"
    PROVE  WinnersIn(keep) = UsersOf(keep[w])
<1>1. {t \in Range(keep) : t.result = "WINNER"} = {keep[w]}
  BY DEF Range
<1>2. QED
  BY <1>1 DEF WinnersIn

\* No result is shown before a match is FINISHED.
LEMMA NoWinnerYet ==
    ASSUME NEW m, ResultsOf(m), matches[m].status # "FINISHED"
    PROVE  WinnersShown(m) = {}
BY DEF ResultsOf, WinnersShown

LEMMA NoWinnerNext ==
    ASSUME NEW m, ResultsOf(m)', matches'[m].status # "FINISHED"
    PROVE  WinnersShown(m)' = {}
BY DEF ResultsOf, WinnersShown

\* The sides of a match that is shown are none or two, with players.
LEMMA OpposedSides ==
    ASSUME NEW m, PairOf(m), Manned
    PROVE  SettlementView!Opposed(SidesShown(m))
<1>1. CASE StageShown(m) \notin {"READY", "STARTED"} \/ TeamsOf(m) = {}
  <2>1. SidesShown(m) = EmptyTable
    BY <1>1 DEF SidesShown, EmptyTable
  <2>2. QED
    BY <2>1, OpposedNone
<1>2. CASE StageShown(m) \in {"READY", "STARTED"} /\ TeamsOf(m) # {}
  <2>1. PICK a, b \in DOMAIN teams : a # b /\ TeamsOf(m) = {a, b}
    BY <1>2 DEF PairOf
  <2>2. HasPlayers(teams[a]) /\ HasPlayers(teams[b])
    BY DEF Manned
  <2>3. SidesShown(m) = [t \in {a, b} |-> SideShown(t)]
    BY <1>2, <2>1 DEF SidesShown
  <2>4. /\ DOMAIN SidesShown(m) = {a, b}
        /\ SidesShown(m)[a] = SideShown(a) /\ SidesShown(m)[b] = SideShown(b)
    BY <2>3
  <2>5. DOMAIN SideShown(a) # {} /\ DOMAIN SideShown(b) # {}
    BY <2>2 DEF SideShown, HasPlayers
  <2>6. QED
    BY <2>1, <2>4, <2>5 DEF SettlementView!Opposed, SettlementView!Nobody
<1>3. QED
  BY <1>1, <1>2

LEMMA OpposedNext ==
    ASSUME NEW m
    PROVE  (SerialInv /\ LineupInv /\ m \in DOMAIN matches)' =>
                SettlementView!Opposed(SidesShown(m)')
<1>1. SerialInv /\ LineupInv /\ m \in DOMAIN matches => SettlementView!Opposed(SidesShown(m))
  BY OpposedSides DEF SerialInv, MatchesInv, LineupInv
<1>2. (SerialInv /\ LineupInv /\ m \in DOMAIN matches)' => (SettlementView!Opposed(SidesShown(m)))'
  BY <1>1, PTL
<1>3. QED
  BY <1>2 DEF SettlementView!Opposed

-----------------------------------------------------------------------------
(* Every step is one of Settlement, or shows nothing *)

\* A step of a call that pays nobody, to the matches other than x.
LEMMA OthersSame ==
    ASSUME OneAtATime, IInv, IInv', NEW c \in Calls, Answer(c) \/ \E k : Await(c, k) /\ ~Shows(k),
           NEW x, c \in DOMAIN inflight /\ Shows(inflight[c]) => inflight[c].match = x,
           \A m \in DOMAIN matches : m # x => Untouched(m),
           \A m \in DOMAIN matches' : m # x => m \in DOMAIN matches
    PROVE  \A m \in MatchIds : m # x => Same(m)
<1>1. TypeOK
  BY DEF IInv
<1>2. ASSUME NEW m \in MatchIds, m # x
      PROVE  Same(m)
  <2>1. Still(m)
    <3>1. CASE m \in DOMAIN matches
      BY <1>2, <3>1, StillShown
    <3>2. CASE m \notin DOMAIN matches
      BY <1>2, <3>2, StillNotThere
    <3>3. QED
      BY <3>1, <3>2
  <2>2. PaidShown(m) = {}
    BY <1>1, <1>2, PaidBefore
  <2>3. PaidShown(m)' = {}
    BY <1>1, PaidIfAwait, PaidIfAnswer
  <2>4. QED
    BY <2>1, <2>2, <2>3 DEF Same, Still
<1>3. QED
  BY <1>2

LEMMA ViewInsertSave ==
    ASSUME OneAtATime, IInv, IInv', SerialInv, SerialInv', LineupInv', NEW c, MatchInsertSave(c)
    PROVE  SettlementView!Next
<1> PICK x : x = Len(matches) + 1
  OBVIOUS
<1>1. /\ TypeOK /\ c \in Calls /\ Answer(c) /\ inflight[c].op = "InsertMatch"
      /\ UNCHANGED members
  BY SerialAt DEF MatchInsertSave
<1>2. Len(matches) \in Nat /\ DOMAIN matches = 1..Len(matches) /\ Len(matches) < MaxMatches
      /\ matches \in Seq(MatchRow)
  BY <1>1, Tables2 DEF MatchInsertSave, TypeOK
<1>3. x \in MatchIds /\ x \notin DOMAIN matches
  BY <1>2, BoundsAssumption DEF MatchIds
<1>4. DOMAIN matches' = 1..x /\ matches'[x].status = "READY" /\ matches'[x].live
  <2>1. PICK r : r = [status |-> "READY", type |-> inflight[c].sheet.type,
                      bets |-> BetsOf(inflight[c].sheet, NoBets), live |-> TRUE]
    OBVIOUS
  <2>2. matches' = Append(matches, r)
    BY <2>1 DEF MatchInsertSave
  <2>3. DOMAIN matches' = 1..x /\ matches'[x] = r
    BY <1>2, <2>2
  <2>4. QED
    BY <2>1, <2>3
<1>5. \A m \in DOMAIN matches : Untouched(m)
  <2>1. DOMAIN teams = 1..Len(teams) /\ Len(teams) \in Nat
    BY <1>1, Tables2
  <2>2. \A m \in DOMAIN matches : TeamsOf(m)' = TeamsOf(m)
    BY <1>2, <2>1, InsertSaveRows DEF TeamsOf
  <2>3. QED
    BY <2>2, InsertSaveRows DEF Untouched, TeamsOf
<1>6. \A m \in DOMAIN matches' : m # x => m \in DOMAIN matches
  BY <1>2, <1>4
<1>7. ~Shows(inflight[c])
  BY <1>1 DEF Shows, Saves
<1>8. \A m \in MatchIds : m # x => Same(m)
  BY <1>1, <1>5, <1>6, <1>7, OthersSame
<1>9. StageShown(x) = "none" /\ StageShown(x)' = "READY"
  BY <1>2, <1>3, <1>4 DEF StageShown
<1>10. x \in DOMAIN matches'
  BY <1>2, <1>4
<1>11. SettlementView!Opposed(SidesShown(x)')
  BY <1>10, OpposedNext
<1>12. PaidShown(x) = {} /\ PaidShown(x)' = {}
  BY <1>1, <1>7, PaidBefore, PaidIfAnswer
<1>13. WinnersShown(x) = {} /\ WinnersShown(x)' = {}
  <2>1. ResultsOf(x)' /\ matches'[x].status # "FINISHED"
    BY <1>4, <1>10 DEF SerialInv, MatchesInv
  <2>2. QED
    BY <1>3, <2>1, NotThere, NoWinnerNext
<1>14. BalancesStay
  BY <1>1, BalanceStays DEF BalancesStay
<1>15. QED
  BY <1>3, <1>8, <1>9, <1>11, <1>12, <1>13, <1>14, ViewArrange

LEMMA ViewDeleteTeams ==
    ASSUME OneAtATime, IInv, IInv', SerialInv, SerialInv', LineupInv, NEW c, MatchEditDeleteTeams(c)
    PROVE  SettlementView!Next
<1> PICK h : h = inflight[c]
  OBVIOUS
<1> PICK x : x = h.match
  OBVIOUS
<1> PICK k : k = [op |-> "FindNewPlayers", match |-> h.match, sheet |-> h.sheet, row |-> h.row]
  OBVIOUS
<1>1. /\ TypeOK /\ c \in Calls /\ Good(h) /\ h.op = "DeleteTeams" /\ Serial(h) /\ Line(h)
      /\ Await(c, k) /\ UNCHANGED <<members, matches>> /\ DOMAIN teams' = DOMAIN teams
  BY SerialAt, LineAt DEF MatchEditDeleteTeams
<1>2. /\ matches[x].status = "READY" /\ h.ids = TeamsOf(x) /\ matches[x].live
      /\ x \in DOMAIN matches /\ x \in MatchIds
  BY <1>1, Tables2 DEF Serial, Current, Edits, Good, Inserts, Line
<1>3. /\ \A t \in DOMAIN teams : t \notin h.ids => teams'[t] = teams[t]
      /\ \A t \in h.ids : teams'[t].place = "deleted"
  <2>1. \A t \in DOMAIN teams : teams[t] \in TeamRow
    BY <1>1, Tables2
  <2>2. h.ids \subseteq DOMAIN teams
    BY <1>2 DEF TeamsOf
  <2>3. QED
    BY <2>1, <2>2 DEF MatchEditDeleteTeams, TeamRow
<1>4. TeamsOf(x)' = {}
  BY <1>1, <1>2, <1>3 DEF TeamsOf
<1>5. ASSUME NEW m \in DOMAIN matches, m # x
      PROVE  Untouched(m)
  <2>1. \A t \in TeamsOf(m) : teams'[t] = teams[t]
    BY <1>2, <1>3, <1>5 DEF TeamsOf
  <2>2. TeamsOf(m)' = TeamsOf(m)
    BY <1>1, <1>2, <1>3, <1>5, <2>1 DEF TeamsOf
  <2>3. QED
    BY <1>1, <2>1, <2>2 DEF Untouched
<1>6. ~Shows(h) /\ ~Shows(k)
  BY <1>1 DEF Shows, Saves
<1>7. \A m \in MatchIds : m # x => Same(m)
  BY <1>1, <1>5, <1>6, OthersSame
<1>8. StageShown(x) = "READY" /\ StageShown(x)' = "READY"
  BY <1>1, <1>2 DEF StageShown
<1>9. SidesShown(x)' = EmptyTable
  BY <1>4 DEF SidesShown, EmptyTable
<1>10. PaidShown(x) = {} /\ PaidShown(x)' = {}
  BY <1>1, <1>6, PaidBefore, PaidIfAwait
<1>11. WinnersShown(x) = {} /\ WinnersShown(x)' = {}
  <2>1. ResultsOf(x)
    BY <1>2 DEF SerialInv, MatchesInv
  <2>2. QED
    BY <1>2, <1>4, <2>1, NoWinnerYet DEF WinnersShown
<1>12. BalancesStay
  BY <1>1, BalanceStays DEF BalancesStay
<1>13. QED
  BY <1>2, <1>7, <1>8, <1>9, <1>10, <1>11, <1>12, OpposedNone, ViewArrange

LEMMA ViewRemoveDelete ==
    ASSUME OneAtATime, IInv, IInv', SerialInv, LineupInv, NEW c, MatchRemoveDelete(c)
    PROVE  SettlementView!Next
<1> PICK x : x = inflight[c].match
  OBVIOUS
<1>1. /\ TypeOK /\ c \in Calls /\ Answer(c) /\ UNCHANGED <<members, teams>>
      /\ inflight[c].op = "DeleteMatch"
      /\ x \in DOMAIN matches /\ matches[x].status = "READY" /\ matches[x] \in MatchRow
      /\ matches[x].live /\ x \in MatchIds
  BY SerialAt, LineAt, Tables2 DEF MatchRemoveDelete, Good, Inserts, Serial, Current, Line
<1>2. /\ DOMAIN matches' = DOMAIN matches /\ ~matches'[x].live
      /\ \A m \in DOMAIN matches : m # x => matches'[m] = matches[m]
  BY <1>1 DEF MatchRemoveDelete, MatchRow
<1>3. \A m : TeamsOf(m)' = TeamsOf(m)
  BY <1>1 DEF TeamsOf
<1>4. \A m \in DOMAIN matches : m # x => Untouched(m)
  BY <1>1, <1>2, <1>3 DEF Untouched
<1>5. ~Shows(inflight[c])
  BY <1>1 DEF Shows, Saves
<1>6. \A m \in MatchIds : m # x => Same(m)
  BY <1>1, <1>2, <1>4, <1>5, OthersSame
<1>7. StageShown(x) = "READY" /\ StageShown(x)' = "REMOVED"
  BY <1>1, <1>2 DEF StageShown
<1>8. SidesShown(x)' = EmptyTable
  BY <1>7 DEF SidesShown
<1>9. PaidShown(x) = {} /\ PaidShown(x)' = {}
  BY <1>1, <1>5, PaidBefore, PaidIfAnswer
<1>10. WinnersShown(x)' = WinnersShown(x)
  BY <1>1, <1>3 DEF WinnersShown
<1>11. BalancesStay
  BY <1>1, BalanceStays DEF BalancesStay
<1>12. QED
  BY <1>1, <1>6, <1>7, <1>8, <1>9, <1>10, <1>11, ViewWithdraw

LEMMA ViewSaveRead ==
    ASSUME OneAtATime, IInv, NEW c, MatchSaveRead(c)
    PROVE  UNCHANGED SettlementView!vars
<1> PICK h : h = inflight[c]
  OBVIOUS
<1> PICK k : k = [op |-> "WriteMatch", match |-> h.match, row |-> h.row,
                  keep |-> h.keep, fresh |-> h.fresh,
                  seen |-> matches[h.match],
                  seenTeams |-> [t \in DOMAIN h.keep |-> teams[t]],
                  orphans |-> TeamsOf(h.match) \ DOMAIN h.keep]
  OBVIOUS
<1>1. TypeOK /\ c \in Calls /\ c \in DOMAIN inflight /\ h.op = "SaveMatch" /\ Quiet /\ Await(c, k)
  BY AtCall DEF MatchSaveRead, Quiet, IInv, At
<1>2. k.match = h.match /\ k.keep = h.keep /\ (Shows(k) <=> Shows(h))
  BY <1>1 DEF Shows, Saves
<1>3. \A m : PaidShown(m)' = PaidShown(m)
  BY <1>1, <1>2, PaidBefore, PaidIfAwait
<1>4. \A m : Still(m)
  BY <1>1, StillAll DEF Quiet
<1>5. BalancesStay
  BY <1>1, BalanceStays DEF BalancesStay, Quiet
<1>6. QED
  BY <1>3, <1>4, <1>5, ViewStutter DEF Same, Still

\* The save of a match that has been edited, started or finished.
LEMMA ViewSaveWrite ==
    ASSUME OneAtATime, IInv, IInv', SerialInv, SerialInv', LedgerInv, LineupInv, LineupInv',
           NEW c, MatchSaveWrite(c)
    PROVE  SettlementView!Next
<1> PICK k : k = inflight[c]
  OBVIOUS
<1> PICK x, keep, row : x = k.match /\ keep = k.keep /\ row = k.row
  OBVIOUS
<1>1. /\ TypeOK /\ c \in Calls /\ c \in DOMAIN inflight /\ Good(k) /\ k.op = "WriteMatch"
      /\ Serial(k) /\ Played(k) /\ Line(k) /\ Answer(c) /\ UNCHANGED members
  BY SerialAt DEF MatchSaveWrite, LedgerInv, LineupInv, At
<1>2. /\ ~RolledBack(k)
      /\ x \in DOMAIN matches /\ DOMAIN keep = TeamsOf(x)
      /\ DOMAIN matches' = DOMAIN matches
      /\ matches'[x].status = row.status
      /\ \A m \in DOMAIN matches : m # x => matches'[m] = matches[m]
      /\ \A t \in DOMAIN teams :
            /\ t \in DOMAIN teams' /\ teams'[t].match = teams[t].match
            /\ teams'[t].place = teams[t].place /\ teams'[t].players = teams[t].players
            /\ t \in DOMAIN keep => teams'[t].result = keep[t].result
            /\ t \notin DOMAIN keep => teams'[t] = teams[t]
  BY SerialSaveRows
<1>3. /\ matches'[x].live /\ matches[x].live /\ matches'[x].bets = row.bets /\ row \in MatchRow
      /\ x \in MatchIds
  <2>1. /\ k.seen = matches[x] /\ row \in MatchRow /\ matches[x] \in MatchRow
        /\ matches[x].live /\ x \in MatchIds
    BY <1>1, <1>2, Tables2 DEF Serial, Fresh, Good, Saves, Inserts, Line
  <2>2. matches'[x] = SavedMatch(k)
    BY <1>2, SaveWriteRows
  <2>3. SavedMatch(k).live
    BY <2>1 DEF SavedMatch, Column
  <2>4. SavedMatch(k).bets = [o \in Orders |-> row.bets[o]]
    BY <2>1 DEF SavedMatch, Column
  <2>5. row.bets \in [Orders -> Nat]
    BY <2>1 DEF MatchRow, Bets
  <2>6. QED
    BY <2>1, <2>2, <2>3, <2>4, <2>5
<1>4. \A t \in DOMAIN teams' : t \notin DOMAIN teams => teams'[t].match = x
  <2>1. \A i \in DOMAIN k.fresh : k.fresh[i].match = x
    BY <1>1 DEF Good, IsFresh, Saves
  <2>2. \A t \in DOMAIN teams' : t \notin DOMAIN teams =>
            \E i \in DOMAIN k.fresh : t = Len(teams) + i /\ teams'[t] = k.fresh[i]
    BY <1>2, SaveWriteRows
  <2>3. QED
    BY <2>1, <2>2
<1>5. ASSUME NEW m \in DOMAIN matches, m # x
      PROVE  Untouched(m)
  <2>1. \A t \in TeamsOf(m) : t \in DOMAIN teams /\ teams'[t] = teams[t]
    BY <1>2, <1>5 DEF TeamsOf
  <2>2. TeamsOf(m)' = TeamsOf(m)
    BY <1>2, <1>4, <1>5 DEF TeamsOf
  <2>3. QED
    BY <1>2, <1>5, <2>1, <2>2 DEF Untouched
<1>6. \A m \in MatchIds : m # x => Same(m)
  BY <1>1, <1>2, <1>5, OthersSame
<1>7. BalancesStay
  BY <1>1, BalanceStays DEF BalancesStay
<1>8. StageShown(x) = matches[x].status /\ StageShown(x)' = row.status
  BY <1>2, <1>3 DEF StageShown
<1>9. PaidShown(x)' = {}
  BY <1>1, PaidIfAnswer
<1>10. ResultsOf(x) /\ ResultsOf(x)'
  BY <1>2 DEF SerialInv, MatchesInv
<1>11. CASE matches[x].status = "READY" /\ row.status = "READY"
  <2>1. PaidShown(x) = {}
    BY <1>1, <1>11, PaidBefore DEF Shows
  <2>2. WinnersShown(x) = {} /\ WinnersShown(x)' = {}
    BY <1>2, <1>10, <1>11, NoWinnerYet, NoWinnerNext
  <2>3. SettlementView!Opposed(SidesShown(x)')
    BY <1>2, OpposedNext
  <2>4. QED
    BY <1>3, <1>6, <1>7, <1>8, <1>9, <1>11, <2>1, <2>2, <2>3, ViewArrange
<1>12. ASSUME k.fresh = <<>>
       PROVE  TeamsOf(x)' = TeamsOf(x)
  <2>1. \A t \in DOMAIN teams' : t \in DOMAIN teams
    BY <1>2, <1>12, SaveWriteRows
  <2>2. QED
    BY <1>2, <2>1 DEF TeamsOf
<1>13. CASE matches[x].status = "READY" /\ row.status = "STARTED" /\ k.fresh = <<>>
  <2>1. PaidShown(x) = {}
    BY <1>1, <1>13, PaidBefore DEF Shows
  <2>2. WinnersShown(x) = {} /\ WinnersShown(x)' = {}
    BY <1>2, <1>10, <1>13, NoWinnerYet, NoWinnerNext
  <2>3. matches'[x].bets = matches[x].bets
    BY <1>1, <1>3, <1>13 DEF Line, Saves
  <2>4. ASSUME NEW t \in TeamsOf(x)
        PROVE  SideShown(t)' = SideShown(t)
    <3>1. /\ teams[t].match = x /\ teams'[t].match = x /\ teams'[t].players = teams[t].players
      BY <1>2 DEF TeamsOf
    <3>2. QED
      BY <2>3, <3>1 DEF SideShown, UsersOf, PlacesOf, BetsAt
  <2>5. SidesShown(x)' = SidesShown(x)
    BY <1>8, <1>12, <1>13, <2>4 DEF SidesShown
  <2>6. QED
    BY <1>3, <1>6, <1>7, <1>8, <1>9, <1>13, <2>1, <2>2, <2>5, ViewStart
<1>14. CASE matches[x].status = "STARTED" /\ row.status = "FINISHED" /\ k.fresh = <<>>
  <2>1. Shows(k)
    BY <1>1, <1>14 DEF Shows, Saves
  <2>2. PICK w, l \in DOMAIN keep :
           /\ DOMAIN keep = {w, l}
           /\ keep[w].result = "WINNER" /\ keep[l].result = "LOSER"
    BY <1>1, <1>14 DEF Serial, Decided, Saves
  <2>3. PaidShown(x) = UsersOf(keep[w])
    BY <1>1, <2>1, <2>2, PaidBefore, OneWinner
  <2>4. /\ w \in TeamsOf(x) /\ l \in TeamsOf(x) /\ w # l
        /\ w \in DOMAIN teams /\ teams[w] \in TeamRow
    BY <1>1, <1>2, <2>2, Tables2 DEF TeamsOf
  <2>5. keep[w].players = teams[w].players
    BY <1>1, <2>2, <2>4 DEF Played, Saves, TeamRow
  <2>6. UsersOf(teams[w]) # {}
    BY <1>2, <2>4 DEF LineupInv, Manned, HasPlayers
  <2>7. WinnersShown(x)' = UsersOf(keep[w])
    <3>1. TeamsOf(x)' = {w, l} /\ teams'[w].result = "WINNER" /\ teams'[l].result = "LOSER"
      BY <1>2, <1>12, <1>14, <2>2, <2>4 DEF TeamsOf
    <3>2. {u \in TeamsOf(x)' : teams'[u].result = "WINNER"} = {w}
      BY <3>1
    <3>3. WinnersShown(x)' = UsersOf(teams[w])'
      BY <3>2 DEF WinnersShown
    <3>4. teams'[w].players = keep[w].players
      BY <1>2, <2>4, <2>5
    <3>5. QED
      BY <3>3, <3>4 DEF UsersOf
  <2>8. SidesShown(x)' = EmptyTable
    BY <1>8, <1>14 DEF SidesShown
  <2>9. PaidShown(x) # {}
    BY <2>3, <2>5, <2>6 DEF UsersOf
  <2>10. QED
    BY <1>3, <1>6, <1>7, <1>8, <1>9, <1>14, <2>3, <2>7, <2>8, <2>9, ViewFinish
<1>15. \/ matches[x].status = "READY" /\ row.status = "READY"
       \/ matches[x].status = "READY" /\ row.status = "STARTED" /\ k.fresh = <<>>
       \/ matches[x].status = "STARTED" /\ row.status = "FINISHED" /\ k.fresh = <<>>
  BY <1>1 DEF Serial, Saving, Saves
<1>16. QED
  BY <1>11, <1>13, <1>14, <1>15

\* A call that ends without the save of its match.
LEMMA ViewAbort ==
    ASSUME OneAtATime, IInv, IInv', SerialInv, LedgerInv, LineupInv, NEW c \in Calls, Abort(c)
    PROVE  SettlementView!Next \/ UNCHANGED SettlementView!vars
<1> PICK k : k = inflight[c]
  OBVIOUS
<1> PICK x, keep : x = k.match /\ keep = k.keep
  OBVIOUS
<1>1. /\ TypeOK /\ c \in DOMAIN inflight /\ Good(k) /\ Serial(k) /\ Played(k) /\ Quiet /\ Answer(c)
  BY DEF Abort, Quiet, IInv, CallsInv, SerialInv, LedgerInv
<1>2. CASE ~Shows(k)
  <2>1. PICK j : ~Shows(j)
    <3>1. ~Shows([op |-> "DeleteMatch"])
      BY DEF Shows, Saves
    <3>2. QED
      BY <3>1
  <2>2. QED
    BY <1>1, <1>2, <2>1, ViewQuiet
<1>3. CASE Shows(k)
  <2>1. /\ x \in DOMAIN matches /\ x \in MatchIds /\ DOMAIN keep = TeamsOf(x)
        /\ matches[x].status = "STARTED"
    BY <1>1, <1>3, Tables2 DEF Good, Inserts, Saves, Shows, Serial, Current, Saving
  <2>2. PICK w, l \in DOMAIN keep :
           /\ DOMAIN keep = {w, l}
           /\ keep[w].result = "WINNER" /\ keep[l].result = "LOSER"
    BY <1>1, <1>3 DEF Serial, Decided, Shows
  <2>3. PaidShown(x) = UsersOf(keep[w])
    BY <1>1, <1>3, <2>2, PaidBefore, OneWinner
  <2>4. /\ w \in TeamsOf(x) /\ l \in TeamsOf(x) /\ w # l
        /\ w \in DOMAIN teams /\ teams[w] \in TeamRow
    BY <1>1, <2>1, <2>2, Tables2 DEF TeamsOf
  <2>5. keep[w].players = teams[w].players
    BY <1>1, <1>3, <2>2, <2>4 DEF Played, Shows, TeamRow
  <2>6. UsersOf(teams[w]) # {}
    BY <2>1, <2>4 DEF LineupInv, Manned, HasPlayers
  <2>7. PaidShown(x) # {}
    BY <2>3, <2>5, <2>6 DEF UsersOf
  <2>8. PaidShown(x)' = {}
    BY <1>1, PaidIfAnswer
  <2>9. \A m : Still(m)
    BY <1>1, StillAll DEF Quiet
  <2>10. \A m \in MatchIds : m # x => Same(m)
    <3>1. ASSUME NEW m \in MatchIds, m # x
          PROVE  PaidShown(m) = {} /\ PaidShown(m)' = {}
      BY <1>1, <3>1, PaidBefore, PaidIfAnswer
    <3>2. QED
      BY <2>9, <3>1 DEF Same, Still
  <2>11. BalancesStay
    BY <1>1, BalanceStays DEF BalancesStay, Quiet
  <2>12. /\ StageShown(x)' = StageShown(x) /\ SidesShown(x)' = SidesShown(x)
         /\ WinnersShown(x)' = WinnersShown(x)
    BY <2>9 DEF Still
  <2>13. QED
    BY <2>1, <2>7, <2>8, <2>10, <2>11, <2>12, ViewGiveUp
<1>4. QED
  BY <1>2, <1>3

\* What the winners get and the losers pay is what they play for.
LEMMA StakeShown ==
    ASSUME NEW t, t \in DOMAIN teams, NEW team, team.players = teams[t].players, InOrder(team),
           NEW u
    PROVE  SettlementView!StakeOf(SideShown(t), u)
                = BetsAt(team, matches[teams[t].match].bets, PlacesOf(team, u))
<1> PICK bets : bets = matches[teams[t].match].bets
  OBVIOUS
<1>1. PlacesOf(teams[t], u) = PlacesOf(team, u)
  BY DEF PlacesOf
<1>2. {j \in PlacesOf(teams[t], u) : teams[t].players[j].order \in Orders} = PlacesOf(team, u)
  BY DEF PlacesOf, InOrder
<1>3. \A J : BetsAt(teams[t], bets, J) = BetsAt(team, bets, J)
  BY DEF BetsAt
<1>4. CASE u \in UsersOf(teams[t])
  <2>1. SideShown(t)[u] = BetsAt(teams[t], bets, PlacesOf(team, u))
    BY <1>2, <1>4 DEF SideShown
  <2>2. u \in DOMAIN SideShown(t)
    BY <1>4 DEF SideShown
  <2>3. QED
    BY <1>3, <2>1, <2>2 DEF SettlementView!StakeOf
<1>5. CASE u \notin UsersOf(teams[t])
  <2>1. u \notin DOMAIN SideShown(t)
    BY <1>5 DEF SideShown
  <2>2. PlacesOf(team, u) = {}
    BY <1>5 DEF PlacesOf, UsersOf, Range
  <2>3. QED
    BY <2>1, <2>2, BetsAtNone DEF SettlementView!StakeOf
<1>6. QED
  BY <1>4, <1>5

LEMMA ViewWriteMembers ==
    ASSUME OneAtATime, IInv, IInv', SerialInv, LedgerInv, LineupInv,
           NEW c, MatchFinishWriteMembers(c)
    PROVE  SettlementView!Next
<1> PICK h : h = inflight[c]
  OBVIOUS
<1> PICK k : k = [op |-> "SaveMatch", match |-> h.match, row |-> h.row,
                  keep |-> h.keep, fresh |-> <<>>]
  OBVIOUS
<1> PICK x, keep : x = h.match /\ keep = h.keep
  OBVIOUS
<1>1. /\ TypeOK /\ c \in Calls /\ c \in DOMAIN inflight /\ Good(h) /\ h.op = "WriteMembers"
      /\ Serial(h) /\ Line(h) /\ Await(c, k) /\ UNCHANGED <<matches, teams>>
  BY SerialAt DEF MatchFinishWriteMembers, LineupInv, At
<1>2. /\ x \in DOMAIN matches /\ x \in MatchIds /\ DOMAIN keep = TeamsOf(x)
      /\ matches[x].status = "STARTED" /\ matches[x].live /\ h.row.status = "FINISHED"
  BY <1>1, Tables2 DEF Good, Inserts, Settles, Serial, Current, Line
<1>3. PICK w, l \in DOMAIN teams :
         /\ Sides(keep, w, l)
         /\ teams[w].match = x /\ keep[w].players = teams[w].players
         /\ teams[l].match = x /\ keep[l].players = teams[l].players
  BY AboutToPay DEF MatchFinishWriteMembers
<1>4. w \in TeamsOf(x) /\ l \in TeamsOf(x) /\ w # l
  BY <1>2, <1>3 DEF Sides
<1>5. PICK won, lost : won = SideShown(w) /\ lost = SideShown(l)
  OBVIOUS
<1>6. StageShown(x) = "STARTED"
  BY <1>2 DEF StageShown
<1>7. /\ w \in DOMAIN SidesShown(x) /\ SidesShown(x)[w] = won
      /\ l \in DOMAIN SidesShown(x) /\ SidesShown(x)[l] = lost
  BY <1>4, <1>5, <1>6 DEF SidesShown
<1>8. DOMAIN won = UsersOf(teams[w]) /\ DOMAIN lost = UsersOf(teams[l])
  BY <1>5 DEF SideShown
<1>10. \A m : Still(m)
  BY <1>1, StillAll
<1>11. Shows(k) /\ k.match = x /\ k.keep = keep
  BY <1>2 DEF Shows, Saves
<1>12. ~Shows(h)
  BY <1>1 DEF Shows, Saves
<1>13. \A m : PaidShown(m) = {}
  BY <1>1, <1>12, PaidBefore
<1>14. \A m : PaidShown(m)' = IF m = x THEN WinnersIn(keep) ELSE {}
  BY <1>1, <1>11, PaidIfAwait
<1>15. WinnersIn(keep) = DOMAIN won
  <2>1. WinnersIn(keep) = UsersOf(keep[w])
    BY <1>3, OneWinner DEF Sides
  <2>2. QED
    BY <1>3, <1>8, <2>1 DEF UsersOf
<1>16. \A m \in MatchIds : m # x => Same(m)
  BY <1>10, <1>13, <1>14 DEF Same, Still
<1>17. ASSUME NEW u \in Users
       PROVE  BalanceOf(u)' = BalanceOf(u) + SettlementView!StakeOf(won, u)
                                           - SettlementView!StakeOf(lost, u)
  <2> PICK bets : bets = matches[x].bets
    OBVIOUS
  <2>1. BalanceOf(u) \in Int /\ BalanceOf(u)' = BalanceOf(u) + ResultOf(keep, bets, u)
    BY BalancePaid
  <2>2. bets \in Bets
    BY AboutToPay DEF MatchFinishWriteMembers
  <2>3. /\ ResultOf(keep, bets, u) = BetsAt(keep[w], bets, PlacesOf(keep[w], u))
                                   - BetsAt(keep[l], bets, PlacesOf(keep[l], u))
        /\ BetsAt(keep[w], bets, PlacesOf(keep[w], u)) \in Int
        /\ BetsAt(keep[l], bets, PlacesOf(keep[l], u)) \in Int
    BY <1>3, <2>2, TwoSides
  <2>4. SettlementView!StakeOf(won, u) = BetsAt(keep[w], bets, PlacesOf(keep[w], u))
    BY <1>3, <1>5, StakeShown DEF Sides
  <2>5. SettlementView!StakeOf(lost, u) = BetsAt(keep[l], bets, PlacesOf(keep[l], u))
    BY <1>3, <1>5, StakeShown DEF Sides
  <2>6. QED
    BY <2>1, <2>3, <2>4, <2>5
<1>18. /\ StageShown(x)' = "STARTED" /\ SidesShown(x)' = SidesShown(x)
       /\ WinnersShown(x)' = WinnersShown(x)
  BY <1>6, <1>10 DEF Still
<1>19. PaidShown(x) = {} /\ PaidShown(x)' = DOMAIN won
  BY <1>13, <1>14, <1>15
<1>20. QED
  BY <1>2, <1>4, <1>6, <1>7, <1>16, <1>17, <1>18, <1>19, ViewPay

LEMMA ViewElsewhere ==
    ASSUME UNCHANGED <<matches, teams, inflight>>,
           \A m \in Members : members'[m].winningAmount = members[m].winningAmount
    PROVE  UNCHANGED SettlementView!vars
<1>1. \A m : Still(m)
  BY StillAll
<1>2. \A m : PaidShown(m)' = PaidShown(m)
  BY DEF PaidShown, Paying
<1>3. BalancesStay
  BY BalanceStays DEF BalancesStay
<1>4. QED
  BY <1>1, <1>2, <1>3, ViewStutter DEF Same, Still

\* A call that reads on its way to a payment, or to new teams.
LEMMA ViewReads ==
    ASSUME OneAtATime, IInv, SerialInv, NEW c,
           \/ MatchInsertFindPlayers(c) \/ MatchEditFindPlayers(c)
           \/ MatchFinishFindMembers(c) \/ MatchFinishReadMembers(c)
    PROVE  UNCHANGED SettlementView!vars
<1> PICK h : h = inflight[c]
  OBVIOUS
<1>1. /\ TypeOK /\ c \in Calls /\ c \in DOMAIN inflight /\ Good(h) /\ Quiet
      /\ h.op \in {"FindPlayers", "FindNewPlayers", "FindMembers", "SaveMembers"}
  BY SerialAt DEF MatchInsertFindPlayers, MatchEditFindPlayers, MatchFinishFindMembers,
     MatchFinishReadMembers, Quiet, At
<1>2. ~Shows(h)
  BY <1>1 DEF Shows, Saves
<1>3. ASSUME NEW k, Await(c, k) \/ Answer(c), ~Shows(k)
      PROVE  UNCHANGED SettlementView!vars
  BY <1>1, <1>2, <1>3, ViewQuiet
<1>4. ~Shows(h) /\ (Answer(c) => UNCHANGED SettlementView!vars)
  BY <1>2, <1>3
<1>5. CASE MatchInsertFindPlayers(c) /\ ~Answer(c)
  <2>1. PICK k : k = [h EXCEPT !.op = "InsertMatch"]
    OBVIOUS
  <2>2. Await(c, k)
    BY <1>5, <2>1 DEF MatchInsertFindPlayers
  <2>3. DOMAIN inflight' = {c} /\ inflight'[c] = k
    BY <1>1, <2>2 DEF OneAtATime, TypeOK, Await, Put
  <2>4. IInv'
    BY <1>5, InsertFindPlayersStep
  <2>5. k.op \in Ops
    BY <2>3, <2>4 DEF IInv, CallsInv, Good
  <2>6. k.op \notin Saves
    BY <2>1, <2>5 DEF Ops, Saves
  <2>7. QED
    BY <1>3, <2>2, <2>6 DEF Shows
<1>6. CASE MatchEditFindPlayers(c) /\ ~Answer(c)
  <2>1. PICK k : k = [op |-> "SaveMatch", match |-> h.match, row |-> h.row,
                      keep |-> EmptyTable, fresh |-> NewTeams(h.sheet, h.match)]
    OBVIOUS
  <2>2. Await(c, k) /\ h.op = "FindNewPlayers"
    BY <1>6, <2>1 DEF MatchEditFindPlayers, At
  <2>3. k.row.status = "READY"
    BY <1>1, <2>1, <2>2 DEF Good, Edits
  <2>4. QED
    BY <1>3, <2>2, <2>3 DEF Shows
<1>7. CASE MatchFinishFindMembers(c) /\ ~Answer(c)
  <2> DEFINE k(amounts) == [op |-> "SaveMembers", match |-> h.match, row |-> h.row,
                            keep |-> h.keep, amounts |-> amounts]
  <2>1. PICK amounts : Await(c, k(amounts))
    BY <1>7 DEF MatchFinishFindMembers
  <2>2. ~Shows(k(amounts))
    BY DEF Shows, Saves
  <2>3. QED
    BY <1>3, <2>1, <2>2
<1>8. CASE MatchFinishReadMembers(c)
  <2>1. PICK k : k = [op |-> "WriteMembers", match |-> h.match, row |-> h.row,
                      keep |-> h.keep, amounts |-> h.amounts,
                      seen |-> [m \in DOMAIN h.amounts |-> members[m]]]
    OBVIOUS
  <2>2. Await(c, k) /\ ~Shows(k)
    BY <1>8, <2>1 DEF MatchFinishReadMembers, Shows, Saves
  <2>3. QED
    BY <1>3, <2>2
<1>9. QED
  BY <1>4, <1>5, <1>6, <1>7, <1>8

\* A call that begins shows nothing yet.
LEMMA ViewBegin ==
    ASSUME OneAtATime, IInv, NEW c \in Calls, Asks(c)
    PROVE  UNCHANGED SettlementView!vars
<1>1. TypeOK /\ c \notin DOMAIN inflight /\ Quiet
  BY DEF IInv, Asks, Quiet, Idle, MatchInsert, MatchEdit, MatchStart, MatchFinish, MatchRemove
<1>2. ASSUME NEW k, Await(c, k), ~Shows(k)
      PROVE  UNCHANGED SettlementView!vars
  BY <1>1, <1>2, ViewQuiet
<1>3. ASSUME NEW sheet, MatchInsert(c, sheet)
      PROVE  UNCHANGED SettlementView!vars
  <2>1. PICK k : k = [op |-> "FindPlayers", sheet |-> sheet]
    OBVIOUS
  <2>2. Await(c, k) /\ ~Shows(k)
    BY <1>3, <2>1 DEF MatchInsert, Shows, Saves
  <2>3. QED
    BY <1>2, <2>2
<1>4. ASSUME NEW m, NEW sheet, MatchEdit(c, m, sheet)
      PROVE  UNCHANGED SettlementView!vars
  <2>1. PICK k : k = [op |-> "DeleteTeams", match |-> m, sheet |-> sheet,
                      row |-> [matches[m] EXCEPT !.bets = BetsOf(sheet, @),
                                                 !.type = TypeOf(sheet.type, @)],
                      ids |-> TeamsOf(m)]
    OBVIOUS
  <2>2. Await(c, k) /\ ~Shows(k)
    BY <1>4, <2>1 DEF MatchEdit, Shows, Saves
  <2>3. QED
    BY <1>2, <2>2
<1>5. ASSUME NEW m, MatchStart(c, m)
      PROVE  UNCHANGED SettlementView!vars
  <2>1. PICK k : k = [op |-> "SaveMatch", match |-> m,
                      row |-> [matches[m] EXCEPT !.status = "STARTED"],
                      keep |-> Loaded(m), fresh |-> <<>>]
    OBVIOUS
  <2>2. m \in DOMAIN matches /\ matches[m] \in MatchRow
    BY <1>1, <1>5, Tables2 DEF MatchStart
  <2>3. k.row.status = "STARTED"
    BY <2>1, <2>2 DEF MatchRow
  <2>4. Await(c, k) /\ ~Shows(k)
    BY <1>5, <2>1, <2>3 DEF MatchStart, Shows
  <2>5. QED
    BY <1>2, <2>4
<1>6. ASSUME NEW m, NEW w, NEW l, NEW resent, NEW type, MatchFinish(c, m, w, l, resent, type)
      PROVE  UNCHANGED SettlementView!vars
  <2>1. PICK k : k = [op |-> "FindMembers", match |-> m, winner |-> w, loser |-> l,
                      bets |-> matches[m].bets,
                      row |-> [matches[m] EXCEPT !.status = "FINISHED",
                                 !.bets = [o \in Orders |-> IF o \in resent THEN 0 ELSE @[o]],
                                 !.type = TypeOf(type, @)],
                      keep |-> [t \in {w, l} |->
                         [teams[t] EXCEPT !.result = IF t = w THEN "WINNER" ELSE "LOSER"]]]
    OBVIOUS
  <2>2. Await(c, k) /\ ~Shows(k)
    BY <1>6, <2>1 DEF MatchFinish, Shows, Saves
  <2>3. QED
    BY <1>2, <2>2
<1>7. ASSUME NEW m, MatchRemove(c, m)
      PROVE  UNCHANGED SettlementView!vars
  <2>1. PICK k : k = [op |-> "DeleteMatch", match |-> m]
    OBVIOUS
  <2>2. Await(c, k) /\ ~Shows(k)
    BY <1>7, <2>1 DEF MatchRemove, Shows, Saves
  <2>3. QED
    BY <1>2, <2>2
<1>8. QED
  BY <1>3, <1>4, <1>5, <1>6, <1>7 DEF Asks

LEMMA ViewInit ==
    ASSUME Init
    PROVE  SettlementView!Init
<1>1. matches = <<>> /\ teams = <<>> /\ DOMAIN inflight = {}
  BY DEF Init, EmptyTable
<1>2. \A m : TeamsOf(m) = {} /\ m \notin DOMAIN matches
  BY <1>1 DEF TeamsOf
<1>3. \A m : StageShown(m) = "none" /\ SidesShown(m) = EmptyTable /\ WinnersShown(m) = {}
  BY <1>2 DEF StageShown, SidesShown, WinnersShown
<1>4. \A m : PaidShown(m) = {}
  BY <1>1 DEF PaidShown, Paying
<1>5. ASSUME NEW u
      PROVE  BalanceOf(u) = 0
  <2>1. PICK f, S : /\ S = {n \in Members : UserOf[n] = u}
                    /\ f = [m \in S |-> members[m].winningAmount]
    OBVIOUS
  <2>2. \A m \in S : f[m] = 0
    BY <2>1 DEF Init
  <2>3. IsFiniteSet(S)
    BY <2>1, MembersAssumption, FS_Subset
  <2>4. SumFunctionOnSet(f, S) = 0
    BY <2>2, <2>3, SumZero
  <2>5. BalanceOf(u) = SumFunctionOnSet(f, S)
    BY <2>1, SumOfFunction DEF BalanceOf
  <2>6. QED
    BY <2>4, <2>5
<1>6. QED
  BY <1>3, <1>4, <1>5, NoSides DEF SettlementView!Init, SettlementView!Nobody

LEMMA ViewStep ==
    ASSUME OneAtATime, IInv, IInv', SerialInv, SerialInv', LedgerInv, LineupInv, LineupInv',
           [Next]_vars
    PROVE  [SettlementView!Next]_SettlementView!vars
<1>1. CASE UNCHANGED vars
  BY <1>1, ViewElsewhere DEF vars
<1>2. CASE Next
  <2>1. CASE Environment
    <3>1. members \in [Members -> MemberRow]
      BY DEF IInv, TypeOK
    <3>2. \A m \in Members : members'[m].winningAmount = members[m].winningAmount
      BY <2>1, <3>1 DEF Environment, SessionMoves, MemberLeaves, MemberRow
    <3>3. QED
      BY <2>1, <3>2, ViewElsewhere DEF Environment, SessionMoves, MemberLeaves
  <2>2. CASE ~Environment
    <3>1. PICK c \in Calls : Asks(c) \/ Continues(c) \/ Abort(c)
      BY <1>2, <2>2, ActionCases
    <3>2. CASE Continues(c)
      BY <3>2, ViewReads, ViewInsertSave, ViewDeleteTeams, ViewWriteMembers, ViewSaveRead,
         ViewSaveWrite, ViewRemoveDelete DEF Continues
    <3>3. QED
      BY <3>1, <3>2, ViewBegin, ViewAbort
  <2>3. QED
    BY <2>1, <2>2
<1>3. QED
  BY <1>1, <1>2

\* One call at a time, failures included, MatchService as a whole implements
\* Settlement: stakes are fixed when a match starts, every payment is made by them
\* between its two sides, and what is shown as the winner is the side that the last
\* payment went to.
THEOREM SettlementIsImplemented ==
    ASSUME OneAtATime
    PROVE  Spec => ImplementsSettlement
<1>1. Init => SettlementView!Init
  BY ViewInit
<1>2. /\ IInv /\ IInv' /\ SerialInv /\ SerialInv' /\ LedgerInv /\ LineupInv /\ LineupInv'
      /\ [Next]_vars
      => [SettlementView!Next]_SettlementView!vars
  BY ViewStep
<1>3. QED
  BY <1>1, <1>2, Invariance, SerialInvariance, LedgerInvariance, LineInvariance, PTL
     DEF Spec, ImplementsSettlement, SettlementView!Spec
=============================================================================
