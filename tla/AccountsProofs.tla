--------------------------- MODULE AccountsProofs ---------------------------
(***************************************************************************)
(* Theorems about Accounts for any passwords and any number of overlapping *)
(* calls, without the bound on the clock: what a token can be answered     *)
(* for, and when a version that has ended can come back.                   *)
(***************************************************************************)
EXTENDS Accounts, Lemmas

-----------------------------------------------------------------------------
(* The inductive invariant *)

\* The copies a call holds are rows, and from when it relies on the row of the
\* address that row is there: no handler deletes it.
Shape(k) ==
    /\ k.at \in {"getEntity", "phone", "saveRead", "saveWrite", "delToken",
                 "removeFcm", "setToken"} => user \in Row
    /\ k.at \in {"insert", "phone", "saveRead", "saveWrite", "delToken",
                 "removeFcm"} => k.copy \in Row
    /\ k.at = "saveWrite" => k.seen \in Row
    /\ k.at = "insert" => k.copy.state = "INACTIVE" /\ k.copy.stages = "REGISTRATION"
    /\ k.at \in {"saveRead", "saveWrite"} => k.kind \notin {"login", "refreshToken"}
    /\ k.at = "setToken" => k.kind \in TokenKind
    /\ k.at \in {"delToken", "removeFcm"} => k.kind = "logout"
    /\ k.kind = "register" /\ k.at = "find" => k.new \in Passwords
    /\ k.kind = "changePassword" /\ k.at = "getEntity" => k.new \in Passwords

\* What a call that nobody has overtaken has read is what is stored, and so is
\* what it signs.
Usable(k) ==
    /\ k.kind \in TokenKind /\ k.at \in {"saveRead", "saveWrite"} => k.copy.state = "ACTIVE"
    /\ k.kind \in TokenKind /\ k.at = "saveWrite" /\ ~k.stale => k.seen = user
    /\ k.at = "setToken" /\ ~k.stale => Found("ACTIVE") /\ k.token = user.version

\* Whoever is about to sign, or has seen an ACTIVE row, is right about it as
\* long as no save has carried over a state.
Verified(k) ==
    /\ "state" \notin carried
    /\ \/ k.at \in {"setToken", "getEntity"}
       \/ k.kind # "verifyEmail" /\ k.copy.state = "ACTIVE"
       \/ k.seen.state = "ACTIVE"
    => Found("ACTIVE")

\* A copy for updateInfo is of an account that has left REGISTRATION; that of a
\* verifyEmail makes it leave.
Told(k) ==
    /\ k.kind = "verifyEmail" /\ k.at \in {"saveRead", "saveWrite"} =>
            k.copy.state = "ACTIVE" /\ k.copy.stages = "INFORMATION"
    /\ carried \cap {"state", "stages"} = {} =>
        /\ k.at = "saveWrite" /\ k.seen.stages # "REGISTRATION" => Found("ACTIVE")
        /\ k.kind = "updateInfo" /\ k.at \in {"phone", "saveRead", "saveWrite"} =>
                k.copy.state = "ACTIVE" /\ k.copy.stages # "REGISTRATION"

\* The calls that hold a stamp which they have not written yet.
VersionKind == {"register", "resetPassword", "changePassword", "logout"}
Pending(k) ==
    \/ k.at = "insert"
    \/ k.at \in {"saveRead", "saveWrite"} /\ k.kind \in VersionKind

\* Such a stamp is nobody's version yet, neither of the row nor of what its
\* call has read of the row, and has never been one that ended.
Stamped(k) ==
    "version" \notin carried /\ Pending(k) =>
        /\ k.copy.version \in stamps \ revoked
        /\ user # NoRow => k.copy.version # user.version
        /\ k.at = "saveWrite" => k.copy.version # k.seen.version

Good(k) == Shape(k) /\ Usable(k) /\ Verified(k) /\ Told(k) /\ Stamped(k)

CallsInv == \A c \in DOMAIN inflight : Good(inflight[c])

\* Two calls never hold one stamp.
StampsInv ==
    "version" \notin carried =>
        \A c, d \in DOMAIN inflight :
            c # d /\ Pending(inflight[c]) /\ Pending(inflight[d]) =>
                inflight[c].copy.version # inflight[d].copy.version

VersionsInv ==
    "version" \notin carried =>
        /\ user # NoRow => user.version \in stamps
        /\ revoked \subseteq stamps

RowInv == TokensOnlyForVerified /\ StagesFollowState /\ VersionsInv /\ RevokedStaysRevoked

IInv == TypeOK /\ CallsInv /\ StampsInv /\ RowInv

-----------------------------------------------------------------------------
(* Rows and calls *)

LEMMA RowIsThere ==
    ASSUME NEW row \in Row
    PROVE  row # NoRow /\ row.state \in State /\ row.stages \in Stages
           /\ row.password \in Passwords /\ row.version \in Nat
BY DEF Row, NoRow, State

LEMMA NoRowState == NoRow.state = "NONE"
BY DEF NoRow

\* A state that is found is that of a row.
LEMMA FoundIsRow ==
    ASSUME TypeOK, NEW state \in State, Found(state)
    PROVE  user \in Row
BY NoRowState DEF TypeOK, Found, State

LEMMA AtCall ==
    ASSUME TypeOK, NEW c, c \in DOMAIN inflight
    PROVE  c \in Calls /\ inflight[c] \in Call
BY DEF TypeOK, IsTable

LEMMA AwaitFacts ==
    ASSUME TypeOK, NEW c \in Calls, NEW k \in Call, Await(c, k)
    PROVE  /\ IsTable(inflight', Calls, Call)
           /\ DOMAIN inflight' = DOMAIN inflight \cup {c}
           /\ inflight'[c] = k
           /\ \A d \in DOMAIN inflight : d # c => inflight'[d] = inflight[d]
<1>1. IsTable(inflight, Calls, Call)
  BY DEF TypeOK
<1>2. QED
  BY <1>1 DEF Await, IsTable, Put

LEMMA AnswerFacts ==
    ASSUME TypeOK, NEW c, Answer(c)
    PROVE  /\ IsTable(inflight', Calls, Call)
           /\ DOMAIN inflight' = DOMAIN inflight \ {c}
           /\ \A d \in DOMAIN inflight' : inflight'[d] = inflight[d]
<1>1. IsTable(inflight, Calls, Call)
  BY DEF TypeOK
<1>2. QED
  BY <1>1 DEF Answer, IsTable, Drop

\* What the row with a new version or a new password is.
LEMMA VersionRow ==
    ASSUME TypeOK, NEW row \in Row, NEW p \in Passwords
    PROVE  /\ WithVersion(row) \in Row
           /\ WithVersion(row).version = now
           /\ WithVersion(row).state = row.state /\ WithVersion(row).stages = row.stages
           /\ SetPassword(row, p) \in Row
           /\ SetPassword(row, p).version = now
           /\ SetPassword(row, p).state = row.state
           /\ SetPassword(row, p).stages = row.stages
BY DEF TypeOK, WithVersion, SetPassword, Row

LEMMA SigningCall ==
    ASSUME NEW k \in Call, NEW version \in Nat
    PROVE  /\ Signing(k, version) \in Call
           /\ Signing(k, version).kind = k.kind
           /\ Signing(k, version).at = "setToken"
           /\ Signing(k, version).copy = NoRow
           /\ Signing(k, version).seen = NoRow
           /\ Signing(k, version).stale = k.stale
           /\ Signing(k, version).token = version
BY DEF Signing, Call

-----------------------------------------------------------------------------
(* Steps that leave the row alone *)

\* What holds of a call depends on the row and the histories alone.
LEMMA GoodStays ==
    ASSUME NEW k, Good(k), UNCHANGED user, revoked' = revoked, stamps \subseteq stamps',
           carried \subseteq carried'
    PROVE  Good(k)'
<1>1. Shape(k)' /\ Usable(k)' /\ Verified(k)' /\ Told(k)'
  BY DEF Good, Shape, Usable, Verified, Told, Found
<1>2. Stamped(k)'
  BY DEF Good, Stamped, Pending
<1>3. QED
  BY <1>1, <1>2 DEF Good

\* A step without a stamp: a call goes on as it should, or begins, and holds no
\* stamp that it did not hold.
LEMMA QuietFrame ==
    ASSUME IInv, UNCHANGED <<user, revoked, stamps, carried>>,
           \A d \in DOMAIN inflight' :
                \/ d \in DOMAIN inflight /\ inflight'[d] = inflight[d]
                \/ /\ Good(inflight'[d])
                   /\ Pending(inflight'[d]) =>
                        /\ d \in DOMAIN inflight /\ Pending(inflight[d])
                        /\ inflight'[d].copy.version = inflight[d].copy.version
    PROVE  CallsInv' /\ StampsInv'
<1>1. CallsInv'
  <2>1. ASSUME NEW d \in DOMAIN inflight' PROVE Good(inflight'[d])
    BY <2>1 DEF IInv, CallsInv
  <2>2. ASSUME NEW d \in DOMAIN inflight' PROVE Good(inflight[d])'
    BY <2>1, GoodStays
  <2>3. QED
    BY <2>2 DEF CallsInv
<1>2. StampsInv'
  BY DEF IInv, StampsInv, Pending
<1>3. QED
  BY <1>1, <1>2

LEMMA RowFrame ==
    ASSUME RowInv, UNCHANGED <<user, issued>>, revoked' = revoked,
           stamps \subseteq stamps', carried \subseteq carried'
    PROVE  RowInv'
<1>1. TokensOnlyForVerified' /\ StagesFollowState'
  BY DEF RowInv, TokensOnlyForVerified, StagesFollowState, Found
<1>2. VersionsInv' /\ RevokedStaysRevoked'
  BY DEF RowInv, VersionsInv, RevokedStaysRevoked
<1>3. QED
  BY <1>1, <1>2 DEF RowInv

\* A call waits for its next query with k.
LEMMA QuietAwait ==
    ASSUME IInv, NEW c \in Calls, NEW k \in Call, Await(c, k),
           UNCHANGED <<now, user, histories>>, redis' \in Nat \cup {NoToken},
           Good(k),
           Pending(k) => /\ c \in DOMAIN inflight /\ Pending(inflight[c])
                         /\ k.copy.version = inflight[c].copy.version
    PROVE  IInv'
<1>1. UNCHANGED <<user, revoked, stamps, carried, issued>>
  BY DEF histories
<1>2. /\ IsTable(inflight', Calls, Call)
      /\ DOMAIN inflight' = DOMAIN inflight \cup {c}
      /\ inflight'[c] = k
      /\ \A d \in DOMAIN inflight : d # c => inflight'[d] = inflight[d]
  BY AwaitFacts DEF IInv
<1>3. TypeOK'
  BY <1>1, <1>2 DEF IInv, TypeOK
<1>4. CallsInv' /\ StampsInv'
  <2>1. ASSUME NEW d \in DOMAIN inflight', d # c
        PROVE  d \in DOMAIN inflight /\ inflight'[d] = inflight[d]
    BY <1>2, <2>1
  <2>2. QED
    BY <1>1, <1>2, <2>1, QuietFrame
<1>5. RowInv'
  BY <1>1, RowFrame DEF IInv
<1>6. QED
  BY <1>3, <1>4, <1>5 DEF IInv

\* A call ends.
LEMMA QuietAnswer ==
    ASSUME IInv, NEW c, Answer(c), UNCHANGED <<now, user, redis, histories>>
    PROVE  IInv'
<1>1. UNCHANGED <<user, revoked, stamps, carried, issued>>
  BY DEF histories
<1>2. /\ IsTable(inflight', Calls, Call)
      /\ DOMAIN inflight' = DOMAIN inflight \ {c}
      /\ \A d \in DOMAIN inflight' : inflight'[d] = inflight[d]
  BY AnswerFacts DEF IInv
<1>3. TypeOK'
  BY <1>1, <1>2 DEF IInv, TypeOK
<1>4. CallsInv' /\ StampsInv'
  BY <1>1, <1>2, QuietFrame
<1>5. RowInv'
  BY <1>1, RowFrame DEF IInv
<1>6. QED
  BY <1>3, <1>4, <1>5 DEF IInv

\* A call takes the stamp now: unless another call has taken it too, it is
\* newer than every version there has been.
LEMMA StampFrame ==
    ASSUME IInv, NEW c \in Calls, NEW k \in Call, Await(c, k), Stamp,
           UNCHANGED <<now, user, redis, issued, revoked>>,
           Shape(k), Usable(k), Verified(k), Told(k),
           Pending(k), k.at # "saveWrite", k.copy.version = now
    PROVE  IInv'
<1>1. /\ stamps' = stamps \cup {now}
      /\ carried' = IF now \in stamps THEN carried \cup {"version"} ELSE carried
  BY DEF Stamp
<1>2. /\ IsTable(inflight', Calls, Call)
      /\ DOMAIN inflight' = DOMAIN inflight \cup {c}
      /\ inflight'[c] = k
      /\ \A d \in DOMAIN inflight : d # c => inflight'[d] = inflight[d]
  BY AwaitFacts DEF IInv
<1>3. TypeOK'
  BY <1>1, <1>2 DEF IInv, TypeOK, Columns
<1>4. ASSUME "version" \notin carried'
      PROVE  now \notin stamps /\ "version" \notin carried
  BY <1>1, <1>4
<1>5. Stamped(k)'
  <2> SUFFICES ASSUME "version" \notin carried'
               PROVE  /\ k.copy.version \in stamps' \ revoked
                      /\ user # NoRow => k.copy.version # user.version
    BY DEF Stamped
  <2>1. now \notin stamps /\ "version" \notin carried
    BY <1>4
  <2>2. revoked \subseteq stamps /\ (user # NoRow => user.version \in stamps)
    BY <2>1 DEF IInv, RowInv, VersionsInv
  <2>3. QED
    BY <1>1, <2>1, <2>2
<1>6. Shape(k)' /\ Usable(k)' /\ Verified(k)' /\ Told(k)'
  BY <1>1 DEF Shape, Usable, Verified, Told, Found
<1>7. CallsInv'
  <2>1. ASSUME NEW d \in DOMAIN inflight PROVE Good(inflight[d])
    BY DEF IInv, CallsInv
  <2>2. ASSUME NEW d \in DOMAIN inflight' PROVE Good(inflight[d])'
    <3>1. CASE d = c
      BY <1>2, <1>5, <1>6, <3>1 DEF Good
    <3>2. CASE d # c
      BY <1>1, <1>2, <2>1, <3>2, GoodStays
    <3>3. QED
      BY <3>1, <3>2
  <2>3. QED
    BY <2>2 DEF CallsInv
<1>8. StampsInv'
  <2> SUFFICES ASSUME "version" \notin carried',
                      NEW d \in DOMAIN inflight', NEW e \in DOMAIN inflight', d # e,
                      Pending(inflight[d])', Pending(inflight[e])'
               PROVE  inflight'[d].copy.version # inflight'[e].copy.version
    BY DEF StampsInv
  <2>1. now \notin stamps /\ "version" \notin carried
    BY <1>4
  <2>2. ASSUME NEW x \in DOMAIN inflight', x # c, Pending(inflight[x])'
        PROVE  x \in DOMAIN inflight /\ inflight'[x].copy.version \in stamps
    BY <1>2, <2>1, <2>2 DEF IInv, CallsInv, Good, Stamped, Pending
  <2>3. CASE d = c \/ e = c
    BY <1>2, <2>1, <2>2, <2>3
  <2>4. CASE d # c /\ e # c
    BY <1>2, <2>1, <2>4 DEF IInv, StampsInv, Pending
  <2>5. QED
    BY <2>3, <2>4
<1>9. RowInv'
  BY <1>1, RowFrame DEF IInv
<1>10. QED
  BY <1>3, <1>7, <1>8, <1>9 DEF IInv

-----------------------------------------------------------------------------
(* Calls begin *)

LEMMA RegisterStep ==
    ASSUME IInv, NEW c \in Calls, NEW p \in Passwords, Register(c, p)
    PROVE  IInv'
<1> DEFINE k == Enter("register", "find", NoRow, NoPassword, p)
<1>1. /\ k \in Call /\ k.kind = "register" /\ k.at = "find" /\ k.copy = NoRow
      /\ k.seen = NoRow /\ k.new = p
  BY DEF Enter, Call, Kind
<1>2. Await(c, k) /\ UNCHANGED <<now, user, redis, histories>>
  BY DEF Register
<1> HIDE DEF k
<1>3. Good(k) /\ ~Pending(k)
  BY <1>1, NoRowState DEF Good, Shape, Usable, Verified, Told, Stamped, Pending, TokenKind
<1>4. QED
  BY <1>1, <1>2, <1>3, QuietAwait DEF IInv, TypeOK

LEMMA VerifyEmailStep ==
    ASSUME IInv, NEW c \in Calls, VerifyEmail(c)
    PROVE  IInv'
<1> DEFINE row == [user EXCEPT !.state = "ACTIVE", !.stages = "INFORMATION"]
           k == Enter("verifyEmail", "saveRead", row, NoPassword, NoPassword)
<1>1. user \in Row
  BY FoundIsRow DEF VerifyEmail, IInv, State
<1>2. row \in Row /\ row.state = "ACTIVE" /\ row.stages = "INFORMATION"
  BY <1>1 DEF Row, State, Stages
<1>3. /\ k \in Call /\ k.kind = "verifyEmail" /\ k.at = "saveRead" /\ k.copy = row
      /\ k.seen = NoRow
  BY <1>2 DEF Enter, Call, Kind
<1>4. Await(c, k) /\ UNCHANGED <<now, user, redis, histories>>
  BY DEF VerifyEmail
<1> HIDE DEF row, k
<1>5. Good(k) /\ ~Pending(k)
  BY <1>1, <1>2, <1>3, NoRowState
     DEF Good, Shape, Usable, Verified, Told, Stamped, Pending, TokenKind, VersionKind
<1>6. QED
  BY <1>3, <1>4, <1>5, QuietAwait DEF IInv, TypeOK

\* A call that is ready to sign has the version of an ACTIVE row.
LEMMA SigningIsGood ==
    ASSUME IInv, NEW k \in Call, k.kind \in TokenKind, Found("ACTIVE")
    PROVE  /\ Signing(k, user.version) \in Call
           /\ Good(Signing(k, user.version)) /\ ~Pending(Signing(k, user.version))
<1> DEFINE s == Signing(k, user.version)
<1>1. user \in Row
  BY FoundIsRow DEF IInv, State
<1>2. /\ s \in Call /\ s.kind \in TokenKind /\ s.at = "setToken" /\ s.copy = NoRow
      /\ s.seen = NoRow /\ s.token = user.version
  BY <1>1, RowIsThere, SigningCall
<1> HIDE DEF s
<1>3. Good(s) /\ ~Pending(s)
  BY <1>1, <1>2, NoRowState
     DEF Good, Shape, Usable, Verified, Told, Stamped, Pending, TokenKind
<1>4. QED
  BY <1>2, <1>3 DEF s

LEMMA LoginStep ==
    ASSUME IInv, NEW c \in Calls, NEW p \in Passwords, Login(c, p)
    PROVE  IInv'
<1> DEFINE e == Enter("login", "setToken", NoRow, NoPassword, NoPassword)
           k == Signing(e, user.version)
<1>1. e \in Call /\ e.kind \in TokenKind
  BY DEF Enter, Call, Kind, TokenKind
<1>2. Found("ACTIVE") /\ Await(c, k) /\ UNCHANGED <<now, user, redis, histories>>
  BY DEF Login
<1> HIDE DEF e
<1>3. k \in Call /\ Good(k) /\ ~Pending(k)
  BY <1>1, <1>2, SigningIsGood
<1>4. QED
  BY <1>2, <1>3, QuietAwait DEF IInv, TypeOK

LEMMA RefreshTokenStep ==
    ASSUME IInv, NEW c \in Calls, RefreshToken(c)
    PROVE  IInv'
<1> DEFINE e == Enter("refreshToken", "authenticate", NoRow, NoPassword, NoPassword)
           k == [e EXCEPT !.token = redis]
<1>1. /\ e \in Call /\ e.kind = "refreshToken" /\ e.at = "authenticate"
      /\ e.copy = NoRow /\ e.seen = NoRow
  BY DEF Enter, Call, Kind
<1>2. redis \in Nat /\ Await(c, k) /\ UNCHANGED <<now, user, redis, histories>>
  BY DEF RefreshToken, IInv, TypeOK
<1> HIDE DEF e
<1>3. /\ k \in Call /\ k.kind = "refreshToken" /\ k.at = "authenticate"
      /\ k.copy = NoRow /\ k.seen = NoRow
  BY <1>1, <1>2 DEF Call
<1> HIDE DEF k
<1>4. Good(k) /\ ~Pending(k)
  BY <1>3, NoRowState DEF Good, Shape, Usable, Verified, Told, Stamped, Pending, TokenKind
<1>5. QED
  BY <1>2, <1>3, <1>4, QuietAwait DEF IInv, TypeOK

\* The guard has let an ACTIVE user in.
LEMMA AuthenticatedRow ==
    ASSUME IInv, Authenticated
    PROVE  user \in Row /\ Found("ACTIVE")
BY FoundIsRow DEF Authenticated, IInv, State

LEMMA LogoutStep ==
    ASSUME IInv, NEW c \in Calls, Logout(c)
    PROVE  IInv'
<1> DEFINE k == Enter("logout", "delToken", user, NoPassword, NoPassword)
<1>1. user \in Row /\ Found("ACTIVE")
  BY AuthenticatedRow DEF Logout
<1>2. /\ k \in Call /\ k.kind = "logout" /\ k.at = "delToken" /\ k.copy = user
      /\ k.seen = NoRow
  BY <1>1 DEF Enter, Call, Kind
<1>3. Await(c, k) /\ UNCHANGED <<now, user, redis, histories>>
  BY DEF Logout
<1> HIDE DEF k
<1>4. Good(k) /\ ~Pending(k)
  BY <1>1, <1>2, NoRowState DEF Good, Shape, Usable, Verified, Told, Stamped, Pending, TokenKind
<1>5. QED
  BY <1>2, <1>3, <1>4, QuietAwait DEF IInv, TypeOK

LEMMA ChangePasswordStep ==
    ASSUME IInv, NEW c \in Calls, NEW old \in Passwords, NEW new \in Passwords,
           ChangePassword(c, old, new)
    PROVE  IInv'
<1> DEFINE k == Enter("changePassword", "getEntity", NoRow, old, new)
<1>1. user \in Row /\ Found("ACTIVE")
  BY AuthenticatedRow DEF ChangePassword
<1>2. /\ k \in Call /\ k.kind = "changePassword" /\ k.at = "getEntity" /\ k.copy = NoRow
      /\ k.seen = NoRow /\ k.new = new
  BY DEF Enter, Call, Kind
<1>3. Await(c, k) /\ UNCHANGED <<now, user, redis, histories>>
  BY DEF ChangePassword
<1> HIDE DEF k
<1>4. Good(k) /\ ~Pending(k)
  BY <1>1, <1>2, NoRowState DEF Good, Shape, Usable, Verified, Told, Stamped, Pending, TokenKind
<1>5. QED
  BY <1>2, <1>3, <1>4, QuietAwait DEF IInv, TypeOK

LEMMA UpdateInfoStep ==
    ASSUME IInv, NEW c \in Calls, UpdateInfo(c)
    PROVE  IInv'
<1> DEFINE k == Enter("updateInfo", "getEntity", NoRow, NoPassword, NoPassword)
<1>1. user \in Row /\ Found("ACTIVE")
  BY AuthenticatedRow DEF UpdateInfo
<1>2. /\ k \in Call /\ k.kind = "updateInfo" /\ k.at = "getEntity" /\ k.copy = NoRow
      /\ k.seen = NoRow
  BY DEF Enter, Call, Kind
<1>3. Await(c, k) /\ UNCHANGED <<now, user, redis, histories>>
  BY DEF UpdateInfo
<1> HIDE DEF k
<1>4. Good(k) /\ ~Pending(k)
  BY <1>1, <1>2, NoRowState DEF Good, Shape, Usable, Verified, Told, Stamped, Pending, TokenKind
<1>5. QED
  BY <1>2, <1>3, <1>4, QuietAwait DEF IInv, TypeOK

\* A reset takes its stamp as it begins.
LEMMA ResetPasswordStep ==
    ASSUME IInv, NEW c \in Calls, NEW p \in Passwords, ResetPassword(c, p)
    PROVE  IInv'
<1> DEFINE row == SetPassword(user, p)
           k == Enter("resetPassword", "saveRead", row, NoPassword, NoPassword)
<1>1. user \in Row /\ user.state = "ACTIVE" /\ Found("ACTIVE")
  BY FoundIsRow DEF ResetPassword, IInv, State, Found
<1>2. row \in Row /\ row.state = "ACTIVE" /\ row.version = now
  BY <1>1, VersionRow DEF IInv
<1> HIDE DEF row
<1>3. /\ k \in Call /\ k.kind = "resetPassword" /\ k.at = "saveRead" /\ k.copy = row
      /\ k.seen = NoRow
  BY <1>2 DEF Enter, Call, Kind
<1>4. Await(c, k) /\ Stamp /\ UNCHANGED <<now, user, redis, issued, revoked>>
  BY DEF ResetPassword, row
<1> HIDE DEF k
<1>5. Shape(k) /\ Usable(k) /\ Verified(k) /\ Told(k) /\ Pending(k)
  BY <1>1, <1>2, <1>3, NoRowState
     DEF Shape, Usable, Verified, Told, Pending, TokenKind, VersionKind
<1>6. QED
  BY <1>2, <1>3, <1>4, <1>5, StampFrame

-----------------------------------------------------------------------------
(* Calls go on *)

LEMMA SaveReadStep ==
    ASSUME IInv, NEW c \in Calls, SaveRead(c)
    PROVE  IInv'
<1> DEFINE k == [inflight[c] EXCEPT !.at = "saveWrite", !.seen = user]
<1>1. /\ c \in DOMAIN inflight /\ inflight[c] \in Call /\ inflight[c].at = "saveRead"
      /\ Good(inflight[c])
  BY AtCall DEF SaveRead, AtAny, IInv, CallsInv
<1>2. user \in Row
  BY <1>1 DEF Good, Shape
<1>3. /\ k \in Call /\ k.at = "saveWrite" /\ k.seen = user
      /\ k.kind = inflight[c].kind /\ k.copy = inflight[c].copy
  BY <1>1, <1>2 DEF Call
<1>4. inflight = [x \in DOMAIN inflight |-> inflight[x]]
  BY DEF IInv, TypeOK, IsTable
<1>5. inflight' = [inflight EXCEPT ![c].at = "saveWrite", ![c].seen = user]
      /\ UNCHANGED <<now, user, redis, histories>>
  BY DEF SaveRead
<1>6. Await(c, k)
  BY <1>1, <1>4, <1>5 DEF Await, Put
<1> HIDE DEF k
<1>7. Pending(k) => Pending(inflight[c]) /\ k.copy.version = inflight[c].copy.version
  BY <1>1, <1>3 DEF Pending
<1>8. Shape(k) /\ Usable(k)
  BY <1>1, <1>2, <1>3 DEF Good, Shape, Usable
<1>9. Verified(k)
  BY <1>1, <1>2, <1>3 DEF Good, Verified, Found
<1>10. Told(k)
  BY <1>1, <1>2, <1>3, RowIsThere DEF Good, Told, IInv, RowInv, StagesFollowState
<1>11. Stamped(k)
  BY <1>1, <1>2, <1>3, <1>7, RowIsThere DEF Good, Stamped
<1>12. QED
  BY <1>1, <1>3, <1>5, <1>6, <1>7, <1>8, <1>9, <1>10, <1>11, QuietAwait
     DEF Good, IInv, TypeOK

LEMMA RegisterFindStep ==
    ASSUME IInv, NEW c \in Calls, RegisterFind(c)
    PROVE  IInv'
<1> DEFINE new == inflight[c].new
           row == IF Found("INACTIVE") THEN user
                  ELSE [state |-> "INACTIVE", stages |-> "REGISTRATION",
                        password |-> new, version |-> now]
           set == SetPassword(row, new)
           place == IF Found("INACTIVE") THEN "saveRead" ELSE "insert"
           k == [inflight[c] EXCEPT !.at = place, !.copy = set, !.new = NoPassword]
<1>1. /\ c \in DOMAIN inflight /\ inflight[c] \in Call
      /\ inflight[c].kind = "register" /\ inflight[c].at = "find"
      /\ Good(inflight[c])
  BY AtCall DEF RegisterFind, At, IInv, CallsInv
<1>2. new \in Passwords /\ now \in Nat
  BY <1>1 DEF Good, Shape, IInv, TypeOK
<1>3. Found("INACTIVE") => user \in Row
  BY FoundIsRow DEF IInv, State
<1>4. row \in Row /\ row.state = "INACTIVE"
  BY <1>2, <1>3 DEF Row, State, Stages, Found
<1>5. ~Found("INACTIVE") => row.stages = "REGISTRATION"
  OBVIOUS
<1> HIDE DEF row
<1>6. /\ set \in Row /\ set.state = "INACTIVE" /\ set.version = now
      /\ ~Found("INACTIVE") => set.stages = "REGISTRATION"
  BY <1>2, <1>4, <1>5, VersionRow DEF IInv
<1> HIDE DEF set
<1>7. /\ place \in {"saveRead", "insert"}
      /\ place = "saveRead" => user \in Row
      /\ place = "insert" => ~Found("INACTIVE")
  BY <1>3
<1>8. Await(c, k) /\ Stamp /\ UNCHANGED <<now, user, redis, issued, revoked>>
  BY DEF RegisterFind, set, row
<1> HIDE DEF place
<1>9. /\ k \in Call /\ k.kind = "register" /\ k.at = place /\ k.copy = set
      /\ k.seen = inflight[c].seen
  BY <1>1, <1>6, <1>7 DEF Call
<1> HIDE DEF k, new
<1>10. Shape(k)
  BY <1>6, <1>7, <1>9 DEF Shape
<1>11. Usable(k) /\ Verified(k)
  BY <1>1, <1>6, <1>7, <1>9 DEF Usable, Verified, TokenKind, Good
<1>12. Told(k) /\ Pending(k)
  BY <1>6, <1>7, <1>9 DEF Told, Pending, VersionKind
<1>13. QED
  BY <1>6, <1>7, <1>8, <1>9, <1>10, <1>11, <1>12, StampFrame

LEMMA RefreshAuthenticateStep ==
    ASSUME IInv, NEW c \in Calls, RefreshAuthenticate(c)
    PROVE  IInv'
<1> DEFINE e == [inflight[c] EXCEPT !.stale = FALSE]
<1>1. inflight[c] \in Call /\ inflight[c].kind = "refreshToken"
  BY AtCall DEF RefreshAuthenticate, At, IInv
<1>2. e \in Call /\ e.kind \in TokenKind
  BY <1>1 DEF Call, TokenKind
<1>3. UNCHANGED <<now, user, redis, histories>>
  BY DEF RefreshAuthenticate
<1>4. \/ Found("ACTIVE") /\ Await(c, Signing(e, user.version))
      \/ Answer(c)
  BY DEF RefreshAuthenticate
<1> HIDE DEF e
<1>5. CASE Answer(c)
  BY <1>3, <1>5, QuietAnswer
<1>6. CASE Found("ACTIVE") /\ Await(c, Signing(e, user.version))
  <2>1. /\ Signing(e, user.version) \in Call /\ Good(Signing(e, user.version))
        /\ ~Pending(Signing(e, user.version))
    BY <1>2, <1>6, SigningIsGood
  <2>2. QED
    BY <1>3, <1>6, <2>1, QuietAwait DEF IInv, TypeOK
<1>7. QED
  BY <1>4, <1>5, <1>6

\* Signing is for an ACTIVE account, so the answer is.
LEMMA GetTokenStep ==
    ASSUME IInv, NEW c \in Calls, GetToken(c)
    PROVE  IInv'
<1>1. /\ c \in DOMAIN inflight /\ inflight[c] \in Call /\ inflight[c].at = "setToken"
      /\ Good(inflight[c])
  BY AtCall DEF GetToken, AtAny, IInv, CallsInv
<1>2. inflight[c].token \in Nat
  BY <1>1 DEF Call
<1>3. /\ Answer(c) /\ redis' = inflight[c].token
      /\ issued' = issued \cup {inflight[c].token}
      /\ UNCHANGED <<now, user, revoked, stamps, carried>>
  BY DEF GetToken
<1>4. /\ IsTable(inflight', Calls, Call)
      /\ DOMAIN inflight' = DOMAIN inflight \ {c}
      /\ \A d \in DOMAIN inflight' : inflight'[d] = inflight[d]
  BY <1>3, AnswerFacts DEF IInv
<1>5. TypeOK'
  BY <1>2, <1>3, <1>4 DEF IInv, TypeOK
<1>6. CallsInv' /\ StampsInv'
  BY <1>3, <1>4, QuietFrame
<1>7. TokensOnlyForVerified'
  BY <1>1, <1>3 DEF Good, Verified, TokensOnlyForVerified, Found
<1>8. StagesFollowState' /\ VersionsInv' /\ RevokedStaysRevoked'
  BY <1>3 DEF IInv, RowInv, StagesFollowState, VersionsInv, RevokedStaysRevoked, Found
<1>9. QED
  BY <1>5, <1>6, <1>7, <1>8 DEF IInv, RowInv

LEMMA LogoutDelTokenStep ==
    ASSUME IInv, NEW c \in Calls, LogoutDelToken(c)
    PROVE  IInv'
<1> DEFINE k == [inflight[c] EXCEPT !.at = "removeFcm"]
<1>1. /\ c \in DOMAIN inflight /\ inflight[c] \in Call /\ inflight[c].at = "delToken"
      /\ inflight[c].kind = "logout" /\ Good(inflight[c])
  BY AtCall DEF LogoutDelToken, At, IInv, CallsInv
<1>2. /\ k \in Call /\ k.at = "removeFcm" /\ k.kind = "logout"
      /\ k.copy = inflight[c].copy /\ k.seen = inflight[c].seen
  BY <1>1 DEF Call
<1>3. inflight = [x \in DOMAIN inflight |-> inflight[x]]
  BY DEF IInv, TypeOK, IsTable
<1>4. /\ inflight' = [inflight EXCEPT ![c].at = "removeFcm"] /\ redis' = NoToken
      /\ UNCHANGED <<now, user, histories>>
  BY DEF LogoutDelToken, GoTo
<1>5. Await(c, k)
  BY <1>1, <1>3, <1>4 DEF Await, Put
<1> HIDE DEF k
<1>6. Good(k) /\ ~Pending(k)
  BY <1>1, <1>2 DEF Good, Shape, Usable, Verified, Told, Stamped, Pending, TokenKind
<1>7. QED
  BY <1>2, <1>4, <1>5, <1>6, QuietAwait

LEMMA LogoutStampStep ==
    ASSUME IInv, NEW c \in Calls, LogoutStamp(c)
    PROVE  IInv'
<1> DEFINE row == WithVersion(inflight[c].copy)
           k == [inflight[c] EXCEPT !.at = "saveRead", !.copy = row]
<1>1. /\ c \in DOMAIN inflight /\ inflight[c] \in Call /\ inflight[c].at = "removeFcm"
      /\ inflight[c].kind = "logout" /\ Good(inflight[c])
  BY AtCall DEF LogoutStamp, At, IInv, CallsInv
<1>2. user \in Row /\ inflight[c].copy \in Row
  BY <1>1 DEF Good, Shape
<1>3. row \in Row /\ row.version = now /\ row.state = inflight[c].copy.state
  <2>1. now \in Nat
    BY DEF IInv, TypeOK
  <2>2. QED
    BY <1>2, <2>1 DEF WithVersion, Row
<1>4. Await(c, k) /\ Stamp /\ UNCHANGED <<now, user, redis, issued, revoked>>
  BY DEF LogoutStamp, WithVersion
<1> HIDE DEF row
<1>5. /\ k \in Call /\ k.at = "saveRead" /\ k.kind = "logout"
      /\ k.copy = row /\ k.seen = inflight[c].seen
  BY <1>1, <1>3 DEF Call
<1> HIDE DEF k
<1>6. Shape(k) /\ Usable(k) /\ Told(k) /\ Pending(k)
  BY <1>1, <1>2, <1>3, <1>5 DEF Shape, Usable, Told, Pending, TokenKind, VersionKind
<1>7. Verified(k)
  BY <1>1, <1>3, <1>5 DEF Good, Verified
<1>8. QED
  BY <1>3, <1>4, <1>5, <1>6, <1>7, StampFrame

LEMMA ChangePasswordCheckStep ==
    ASSUME IInv, NEW c \in Calls, ChangePasswordCheck(c)
    PROVE  IInv'
<1> DEFINE row == SetPassword(user, inflight[c].new)
           k == [inflight[c] EXCEPT !.at = "saveRead", !.copy = row,
                                    !.old = NoPassword, !.new = NoPassword]
<1>1. /\ c \in DOMAIN inflight /\ inflight[c] \in Call /\ inflight[c].at = "getEntity"
      /\ inflight[c].kind = "changePassword" /\ Good(inflight[c])
  BY AtCall DEF ChangePasswordCheck, At, IInv, CallsInv
<1>2. user \in Row /\ inflight[c].new \in Passwords
  BY <1>1 DEF Good, Shape
<1>3. row \in Row /\ row.version = now /\ row.state = user.state
  BY <1>2, VersionRow DEF IInv
<1>4. \/ /\ Await(c, k) /\ Stamp
         /\ UNCHANGED <<now, user, redis, issued, revoked>>
      \/ Answer(c) /\ UNCHANGED <<now, user, redis, histories>>
  BY DEF ChangePasswordCheck, histories
<1> HIDE DEF row
<1>5. /\ k \in Call /\ k.at = "saveRead" /\ k.kind = "changePassword"
      /\ k.copy = row /\ k.seen = inflight[c].seen
  BY <1>1, <1>3 DEF Call
<1> HIDE DEF k
<1>6. Shape(k) /\ Usable(k) /\ Told(k) /\ Pending(k)
  BY <1>1, <1>2, <1>3, <1>5 DEF Shape, Usable, Told, Pending, TokenKind, VersionKind
<1>7. Verified(k)
  BY <1>1, <1>3, <1>5 DEF Good, Verified
<1>8. QED
  BY <1>3, <1>4, <1>5, <1>6, <1>7, StampFrame, QuietAnswer

\* An account that is ACTIVE has left REGISTRATION, and so has its copy.
LEMMA UpdateInfoLoadStep ==
    ASSUME IInv, NEW c \in Calls, UpdateInfoLoad(c)
    PROVE  IInv'
<1> DEFINE k == [inflight[c] EXCEPT !.at = "phone", !.copy = user]
<1>1. /\ c \in DOMAIN inflight /\ inflight[c] \in Call /\ inflight[c].at = "getEntity"
      /\ inflight[c].kind = "updateInfo" /\ Good(inflight[c])
  BY AtCall DEF UpdateInfoLoad, At, IInv, CallsInv
<1>2. user \in Row
  BY <1>1 DEF Good, Shape
<1>3. /\ k \in Call /\ k.at = "phone" /\ k.kind = "updateInfo"
      /\ k.copy = user /\ k.seen = inflight[c].seen
  BY <1>1, <1>2 DEF Call
<1>4. Await(c, k) /\ UNCHANGED <<now, user, redis, histories>>
  BY DEF UpdateInfoLoad
<1> HIDE DEF k
<1>5. Shape(k) /\ Usable(k) /\ Stamped(k) /\ ~Pending(k)
  BY <1>1, <1>2, <1>3 DEF Shape, Usable, Stamped, Pending, TokenKind
<1>6. Verified(k)
  BY <1>1, <1>3 DEF Good, Verified
<1>7. Told(k)
  BY <1>1, <1>2, <1>3, RowIsThere
     DEF Good, Verified, Told, IInv, RowInv, StagesFollowState, Found
<1>8. QED
  BY <1>3, <1>4, <1>5, <1>6, <1>7, QuietAwait DEF Good, IInv, TypeOK

LEMMA UpdateInfoAssignStep ==
    ASSUME IInv, NEW c \in Calls, UpdateInfoAssign(c)
    PROVE  IInv'
<1> DEFINE copy == inflight[c].copy
           stages == IF copy.stages = "INFORMATION" THEN "COMPLETION" ELSE copy.stages
           row == [copy EXCEPT !.stages = stages]
           k == [inflight[c] EXCEPT !.at = "saveRead", !.copy = row]
<1>1. /\ c \in DOMAIN inflight /\ inflight[c] \in Call /\ inflight[c].at = "phone"
      /\ inflight[c].kind = "updateInfo" /\ Good(inflight[c])
  BY AtCall DEF UpdateInfoAssign, At, IInv, CallsInv
<1>2. user \in Row /\ copy \in Row
  BY <1>1 DEF Good, Shape
<1>3. /\ row \in Row /\ row.state = copy.state
      /\ copy.stages # "REGISTRATION" => row.stages # "REGISTRATION"
  BY <1>2 DEF Row, Stages
<1>4. Await(c, k) /\ UNCHANGED <<now, user, redis, histories>>
  BY <1>1, <1>2 DEF UpdateInfoAssign, Call, Row
<1> HIDE DEF row
<1>5. /\ k \in Call /\ k.at = "saveRead" /\ k.kind = "updateInfo"
      /\ k.copy = row /\ k.seen = inflight[c].seen
  BY <1>1, <1>3 DEF Call
<1> HIDE DEF k
<1>6. Shape(k) /\ Usable(k) /\ Stamped(k) /\ ~Pending(k)
  BY <1>1, <1>2, <1>3, <1>5 DEF Shape, Usable, Stamped, Pending, TokenKind, VersionKind
<1>7. Verified(k) /\ Told(k)
  BY <1>1, <1>3, <1>5 DEF Good, Verified, Told
<1>8. QED
  BY <1>4, <1>5, <1>6, <1>7, QuietAwait DEF Good, IInv, TypeOK

-----------------------------------------------------------------------------
(* Steps that write the row *)

LEMMA AssignedColumns ==
    ASSUME NEW kind \in Kind, kind \notin {"login", "refreshToken"}
    PROVE  /\ "state" \in Assigned(kind) <=> kind = "verifyEmail"
           /\ "stages" \in Assigned(kind) <=> kind \in {"verifyEmail", "updateInfo"}
           /\ "version" \in Assigned(kind) <=> kind \in VersionKind
BY DEF Kind, Assigned, VersionKind

\* The save of a copy mixes it with the row, column by column.
LEMMA MergeFacts ==
    ASSUME user \in Row, NEW k, k.copy \in Row
    PROVE  /\ Merge(k) \in Row
           /\ \A column \in Columns :
                /\ Written(k, column) => Merge(k)[column] = k.copy[column]
                /\ ~Written(k, column) => Merge(k)[column] = user[column]
<1>1. \A column \in Columns :
        /\ Written(k, column) => Merge(k)[column] = k.copy[column]
        /\ ~Written(k, column) => Merge(k)[column] = user[column]
  BY DEF Merge
<1>2. /\ Merge(k).state \in State /\ Merge(k).stages \in Stages
      /\ Merge(k).password \in Passwords /\ Merge(k).version \in Nat
  BY <1>1, RowIsThere DEF Columns
<1>3. Merge(k) = [state |-> Merge(k).state, stages |-> Merge(k).stages,
                  password |-> Merge(k).password, version |-> Merge(k).version]
  BY DEF Merge, Columns
<1>4. QED
  BY <1>1, <1>2, <1>3 DEF Row

\* What a save finds.
LEMMA SaveWriteCall ==
    ASSUME IInv, NEW c, SaveWrite(c)
    PROVE  /\ c \in DOMAIN inflight /\ c \in Calls /\ inflight[c] \in Call
           /\ inflight[c].at = "saveWrite" /\ Good(inflight[c])
           /\ inflight[c].kind \in Kind /\ inflight[c].kind \notin {"login", "refreshToken"}
           /\ user \in Row /\ inflight[c].copy \in Row /\ inflight[c].seen \in Row
BY AtCall DEF SaveWrite, AtAny, IInv, CallsInv, Good, Shape, Call

\* A column changes to that of the copy, or is carried over from it, or stays.
LEMMA SaveColumn ==
    ASSUME IInv, NEW c, SaveWrite(c), NEW column \in Columns, column \notin carried'
    PROVE  /\ column \notin carried
           /\ Written(inflight[c], column) => column \in Assigned(inflight[c].kind)
           /\ Written(inflight[c], column) => user'[column] = inflight[c].copy[column]
           /\ ~Written(inflight[c], column) => user'[column] = user[column]
           /\ column # "password" /\ inflight[c].copy[column] # inflight[c].seen[column] =>
                Written(inflight[c], column)
<1>1. user' = Merge(inflight[c])
      /\ carried' = carried \cup {x \in Columns \ Assigned(inflight[c].kind) :
                                        Written(inflight[c], x)}
  BY DEF SaveWrite
<1>2. user \in Row /\ inflight[c].copy \in Row
  BY SaveWriteCall
<1>3. QED
  BY <1>1, <1>2, MergeFacts DEF Written

\* An ACTIVE account stays ACTIVE, whatever is saved: only verifyEmail assigns
\* a state.
LEMMA SaveKeepsActive ==
    ASSUME IInv, NEW c, SaveWrite(c), "state" \notin carried'
    PROVE  /\ Found("ACTIVE") => Found("ACTIVE")'
           /\ Found("ACTIVE")' => Found("ACTIVE") \/ inflight[c].kind = "verifyEmail"
           /\ inflight[c].kind \in TokenKind => Found("ACTIVE")'
<1> DEFINE k == inflight[c]
<1>1. /\ k.at = "saveWrite" /\ k.kind \in Kind /\ k.kind \notin {"login", "refreshToken"}
      /\ Good(k)
  BY SaveWriteCall
<1>2. /\ "state" \notin carried
      /\ Written(k, "state") => k.kind = "verifyEmail" /\ user'.state = k.copy.state
      /\ ~Written(k, "state") => user'.state = user.state
      /\ k.copy.state # k.seen.state => Written(k, "state")
  BY <1>1, SaveColumn, AssignedColumns DEF Columns
<1>3. k.kind = "verifyEmail" => k.copy.state = "ACTIVE"
  BY <1>1 DEF Good, Told
<1>4. Found("ACTIVE") => Found("ACTIVE")'
  BY <1>2, <1>3 DEF Found
<1>5. Found("ACTIVE")' => Found("ACTIVE") \/ k.kind = "verifyEmail"
  BY <1>2 DEF Found
<1>6. ASSUME k.kind \in TokenKind PROVE Found("ACTIVE")'
  <2>1. k.copy.state = "ACTIVE"
    BY <1>1, <1>6 DEF Good, Usable
  <2>2. CASE Written(k, "state")
    BY <1>2, <2>1, <2>2 DEF Found
  <2>3. CASE ~Written(k, "state")
    BY <1>1, <1>2, <1>4, <2>1, <2>3 DEF Good, Verified
  <2>4. QED
    BY <2>2, <2>3
<1>7. QED
  BY <1>4, <1>5, <1>6

\* The version becomes the stamp of the copy and the old one ends, or it stays.
LEMMA SaveVersion ==
    ASSUME IInv, NEW c, SaveWrite(c), "version" \notin carried'
    PROVE  /\ "version" \notin carried
           /\ inflight[c].kind \in VersionKind =>
                /\ user'.version = inflight[c].copy.version
                /\ revoked' = revoked \cup {user.version}
           /\ inflight[c].kind \notin VersionKind =>
                user'.version = user.version /\ revoked' = revoked
<1> DEFINE k == inflight[c]
<1>1. /\ k.at = "saveWrite" /\ k.kind \in Kind /\ k.kind \notin {"login", "refreshToken"}
      /\ Good(k)
  BY SaveWriteCall
<1>2. /\ "version" \notin carried
      /\ Written(k, "version") => k.kind \in VersionKind /\ user'.version = k.copy.version
      /\ ~Written(k, "version") => user'.version = user.version
      /\ k.copy.version # k.seen.version => Written(k, "version")
  BY <1>1, SaveColumn, AssignedColumns DEF Columns
<1>3. k.kind \in VersionKind => k.copy.version # k.seen.version
  BY <1>1, <1>2 DEF Good, Stamped, Pending
<1>4. revoked' = IF k.kind \in VersionKind THEN revoked \cup {user.version} ELSE revoked
  BY <1>1, AssignedColumns DEF SaveWrite
<1>5. QED
  BY <1>2, <1>3, <1>4

\* state and stages change together, and updateInfo goes on from INFORMATION.
LEMMA SaveStory ==
    ASSUME IInv, NEW c, SaveWrite(c)
    PROVE  StagesFollowState'
<1> DEFINE k == inflight[c]
<1> SUFFICES ASSUME carried' \cap {"state", "stages"} = {}
             PROVE  Found("ACTIVE")' <=> user'.stages # "REGISTRATION"
  BY DEF StagesFollowState
<1>1. /\ k.at = "saveWrite" /\ k.kind \in Kind /\ k.kind \notin {"login", "refreshToken"}
      /\ Good(k) /\ user \in Row
  BY SaveWriteCall
<1>2. /\ "stages" \notin carried
      /\ Written(k, "stages") =>
            k.kind \in {"verifyEmail", "updateInfo"} /\ user'.stages = k.copy.stages
      /\ ~Written(k, "stages") => user'.stages = user.stages
      /\ k.copy.stages # k.seen.stages => Written(k, "stages")
  BY <1>1, SaveColumn, AssignedColumns DEF Columns
<1>3. /\ Found("ACTIVE") => Found("ACTIVE")'
      /\ Found("ACTIVE")' => Found("ACTIVE") \/ k.kind = "verifyEmail"
      /\ k.kind \in TokenKind => Found("ACTIVE")'
  BY SaveKeepsActive
<1>4. "state" \notin carried
  BY SaveColumn DEF Columns
<1>5. Found("ACTIVE") <=> user.stages # "REGISTRATION"
  BY <1>1, <1>2, <1>4, RowIsThere DEF IInv, RowInv, StagesFollowState
<1>6. CASE k.kind = "verifyEmail"
  <2>1. k.copy.stages = "INFORMATION" /\ Found("ACTIVE")'
    BY <1>1, <1>3, <1>6 DEF Good, Told, TokenKind
  <2>2. CASE Written(k, "stages")
    BY <1>2, <2>1, <2>2
  <2>3. CASE ~Written(k, "stages")
    <3>1. k.seen.stages # "REGISTRATION"
      BY <1>2, <2>1, <2>3
    <3>2. Found("ACTIVE")
      BY <1>1, <1>2, <1>4, <3>1 DEF Good, Told
    <3>3. QED
      BY <1>2, <1>5, <2>1, <2>3, <3>2
  <2>4. QED
    BY <2>2, <2>3
<1>7. CASE k.kind = "updateInfo"
  <2>1. k.copy.state = "ACTIVE" /\ k.copy.stages # "REGISTRATION"
    BY <1>1, <1>2, <1>4, <1>7 DEF Good, Told
  <2>2. Found("ACTIVE")
    BY <1>1, <1>4, <1>7, <2>1 DEF Good, Verified
  <2>3. QED
    BY <1>2, <1>3, <1>5, <2>1, <2>2
<1>8. CASE k.kind \notin {"verifyEmail", "updateInfo"}
  BY <1>2, <1>3, <1>5, <1>8
<1>9. QED
  BY <1>6, <1>7, <1>8

\* The same call, marked as overtaken when the row has changed under it.
Overtaken(k, j) ==
    /\ j.kind = k.kind /\ j.at = k.at /\ j.copy = k.copy /\ j.seen = k.seen
    /\ j.new = k.new /\ j.token = k.token
    /\ ~j.stale => ~k.stale /\ (user' = user \/ k.kind \notin TokenKind)

\* A save ends its call or takes it on to sign, and marks the others.
LEMMA SaveCalls ==
    ASSUME IInv, NEW c \in Calls, SaveWrite(c)
    PROVE  /\ IsTable(inflight', Calls, Call)
           /\ DOMAIN inflight' \subseteq DOMAIN inflight
           /\ \A d \in DOMAIN inflight' : d # c => Overtaken(inflight[d], inflight'[d])
           /\ c \in DOMAIN inflight' =>
                /\ inflight[c].kind \in TokenKind
                /\ inflight'[c] = Signing(inflight[c], inflight[c].copy.version)
<1> DEFINE others == [d \in DOMAIN inflight \ {c} |->
                        [inflight[d] EXCEPT !.stale =
                            @ \/ (user' # user /\ inflight[d].kind \in TokenKind)]]
           s == Signing(inflight[c], inflight[c].copy.version)
<1>1. c \in DOMAIN inflight /\ inflight[c] \in Call /\ inflight[c].copy \in Row
  BY SaveWriteCall
<1>2. IsTable(inflight, Calls, Call)
  BY DEF IInv, TypeOK
<1>3. s \in Call
  BY <1>1, SigningCall, RowIsThere
<1>4. inflight' = IF inflight[c].kind \in TokenKind THEN Put(others, c, s) ELSE others
  BY DEF SaveWrite
<1>5. ASSUME NEW d \in DOMAIN inflight \ {c}
      PROVE  others[d] \in Call /\ Overtaken(inflight[d], others[d])
  <2>1. inflight[d] \in Call
    BY <1>2 DEF IsTable
  <2>2. QED
    BY <2>1 DEF Call, Overtaken
<1>6. IsTable(others, Calls, Call) /\ DOMAIN others = DOMAIN inflight \ {c}
  BY <1>2, <1>5 DEF IsTable
<1> HIDE DEF others, s
<1>7. CASE inflight[c].kind \in TokenKind
  <2>1. inflight' = Put(others, c, s)
    BY <1>4, <1>7
  <2>2. /\ IsTable(inflight', Calls, Call)
        /\ DOMAIN inflight' = DOMAIN inflight
        /\ inflight'[c] = s
        /\ \A d \in DOMAIN inflight \ {c} : inflight'[d] = others[d]
    BY <1>1, <1>3, <1>6, <2>1 DEF IsTable, Put
  <2>3. QED
    BY <1>5, <1>7, <2>2 DEF s
<1>8. CASE inflight[c].kind \notin TokenKind
  BY <1>4, <1>5, <1>6, <1>8
<1>9. QED
  BY <1>7, <1>8

\* What holds of the other calls holds after the save.
LEMMA SaveOthers ==
    ASSUME IInv, NEW c \in Calls, SaveWrite(c), NEW d \in DOMAIN inflight', d # c
    PROVE  Good(inflight[d])'
<1> DEFINE k == inflight[d]
           j == inflight'[d]
<1>1. d \in DOMAIN inflight /\ Good(k) /\ Overtaken(k, j)
  BY SaveCalls DEF IInv, CallsInv
<1>2. user \in Row /\ user' \in Row /\ user' = Merge(inflight[c])
  BY SaveWriteCall, MergeFacts DEF SaveWrite
<1>3. Shape(inflight[d])'
  BY <1>1, <1>2 DEF Good, Shape, Overtaken
<1>4. Usable(inflight[d])'
  BY <1>1, <1>2 DEF Good, Shape, Usable, Overtaken, Found
<1>5. "state" \notin carried' => "state" \notin carried /\ (Found("ACTIVE") => Found("ACTIVE")')
  BY SaveKeepsActive, SaveColumn DEF Columns
<1>6. "stages" \notin carried' => "stages" \notin carried
  BY SaveColumn DEF Columns
<1>7. Verified(inflight[d])'
  BY <1>1, <1>5 DEF Good, Verified, Overtaken
<1>8. Told(inflight[d])'
  BY <1>1, <1>5, <1>6 DEF Good, Told, Overtaken
<1>9. Stamped(inflight[d])'
  <2> SUFFICES ASSUME "version" \notin carried', Pending(j)
               PROVE  /\ j.copy.version \in stamps' \ revoked'
                      /\ j.copy.version # user'.version
                      /\ j.at = "saveWrite" => j.copy.version # j.seen.version
    BY DEF Stamped, Pending
  <2>1. Pending(k) /\ "version" \notin carried
    BY <1>1, SaveVersion DEF Pending, Overtaken
  <2>2. /\ k.copy.version \in stamps \ revoked
        /\ k.copy.version # user.version
        /\ k.at = "saveWrite" => k.copy.version # k.seen.version
    BY <1>1, <1>2, <2>1, RowIsThere DEF Good, Stamped
  <2>3. inflight[c].kind \in VersionKind => inflight[c].copy.version # k.copy.version
    BY <1>1, <2>1, SaveWriteCall DEF IInv, StampsInv, Pending
  <2>4. /\ revoked' \subseteq revoked \cup {user.version}
        /\ user'.version \in {user.version, inflight[c].copy.version}
        /\ user'.version = user.version \/ inflight[c].kind \in VersionKind
    BY SaveVersion
  <2>5. stamps' = stamps
    BY DEF SaveWrite
  <2>6. QED
    BY <1>1, <2>2, <2>3, <2>4, <2>5 DEF Overtaken
<1>10. QED
  BY <1>3, <1>4, <1>7, <1>8, <1>9 DEF Good

\* A call that saves and goes on signs for what it has stored, unless it has
\* been overtaken.
LEMMA SaveOwn ==
    ASSUME IInv, NEW c \in Calls, SaveWrite(c), c \in DOMAIN inflight'
    PROVE  Good(inflight[c])' /\ ~Pending(inflight'[c])
<1> DEFINE k == inflight[c]
           s == Signing(k, k.copy.version)
<1>1. /\ k \in Call /\ k.at = "saveWrite" /\ Good(k)
      /\ user \in Row /\ k.copy \in Row
  BY SaveWriteCall
<1>2. k.kind \in TokenKind /\ inflight'[c] = s
  BY SaveCalls
<1>3. /\ s.kind = k.kind /\ s.at = "setToken" /\ s.copy = NoRow /\ s.seen = NoRow
      /\ s.stale = k.stale /\ s.token = k.copy.version
  BY <1>1, RowIsThere, SigningCall
<1> HIDE DEF s
<1>4. user' \in Row /\ user' = Merge(k)
  BY <1>1, MergeFacts DEF SaveWrite
<1>5. "state" \notin carried' => Found("ACTIVE")'
  BY <1>2, SaveKeepsActive
<1>6. ASSUME ~k.stale
      PROVE  user'.state = "ACTIVE" /\ user'.version = k.copy.version
  <2>1. k.seen = user /\ k.copy.state = "ACTIVE"
    BY <1>1, <1>2, <1>6 DEF Good, Usable
  <2>2. /\ user'["state"] = k.copy["state"]
        /\ user'["version"] = k.copy["version"]
    BY <1>1, <1>4, <2>1, MergeFacts DEF Written, Columns
  <2>3. QED
    BY <2>1, <2>2
<1>7. Shape(inflight[c])' /\ Usable(inflight[c])' /\ Verified(inflight[c])'
  BY <1>2, <1>3, <1>4, <1>5, <1>6, NoRowState
     DEF Shape, Usable, Verified, Found, TokenKind
<1>8. Told(inflight[c])' /\ Stamped(inflight[c])' /\ ~Pending(inflight'[c])
  BY <1>2, <1>3 DEF Told, Stamped, Pending, TokenKind
<1>9. QED
  BY <1>7, <1>8 DEF Good

LEMMA SaveWriteStep ==
    ASSUME IInv, NEW c \in Calls, SaveWrite(c)
    PROVE  IInv'
<1> DEFINE k == inflight[c]
<1>1. /\ c \in DOMAIN inflight /\ k.at = "saveWrite" /\ Good(k)
      /\ user \in Row /\ k.copy \in Row /\ k.kind \in Kind
  BY SaveWriteCall
<1>2. /\ user' \in Row /\ user' = Merge(k)
      /\ UNCHANGED <<now, redis, issued, stamps>>
      /\ carried' \subseteq Columns
      /\ revoked' \in {revoked, revoked \cup {user.version}}
  BY <1>1, MergeFacts DEF SaveWrite, IInv, TypeOK
<1>3. TypeOK'
  <2>1. revoked' \subseteq Nat
    BY <1>1, <1>2, RowIsThere DEF IInv, TypeOK
  <2>2. QED
    BY <1>2, <2>1, SaveCalls DEF IInv, TypeOK
<1>4. CallsInv'
  BY SaveOthers, SaveOwn DEF CallsInv
<1>5. StampsInv'
  <2> SUFFICES ASSUME "version" \notin carried',
                      NEW d \in DOMAIN inflight', NEW e \in DOMAIN inflight', d # e,
                      Pending(inflight'[d]), Pending(inflight'[e])
               PROVE  inflight'[d].copy.version # inflight'[e].copy.version
    BY DEF StampsInv, Pending
  <2>1. d # c /\ e # c
    BY SaveOwn
  <2>2. /\ d \in DOMAIN inflight /\ Overtaken(inflight[d], inflight'[d])
        /\ e \in DOMAIN inflight /\ Overtaken(inflight[e], inflight'[e])
    BY <2>1, SaveCalls
  <2>3. "version" \notin carried
    BY SaveVersion
  <2>4. QED
    BY <2>2, <2>3 DEF IInv, StampsInv, Overtaken, Pending
<1>6. TokensOnlyForVerified'
  <2>1. "state" \notin carried' => "state" \notin carried
    BY SaveColumn DEF Columns
  <2>2. QED
    BY <1>2, <2>1, SaveKeepsActive DEF IInv, RowInv, TokensOnlyForVerified
<1>7. StagesFollowState'
  BY SaveStory
<1>8. VersionsInv' /\ RevokedStaysRevoked'
  <2> SUFFICES ASSUME "version" \notin carried'
               PROVE  /\ user'.version \in stamps' \ revoked'
                      /\ revoked' \subseteq stamps'
    BY <1>2, RowIsThere DEF VersionsInv, RevokedStaysRevoked
  <2>1. "version" \notin carried
    BY SaveVersion
  <2>2. user.version \in stamps \ revoked /\ revoked \subseteq stamps
    BY <1>1, <2>1, RowIsThere DEF IInv, RowInv, VersionsInv, RevokedStaysRevoked
  <2>3. CASE k.kind \in VersionKind
    <3>1. k.copy.version \in stamps \ revoked /\ k.copy.version # user.version
      BY <1>1, <2>1, <2>3, RowIsThere DEF Good, Stamped, Pending
    <3>2. QED
      BY <1>2, <2>2, <2>3, <3>1, SaveVersion
  <2>4. CASE k.kind \notin VersionKind
    BY <1>2, <2>2, <2>4, SaveVersion
  <2>5. QED
    BY <2>3, <2>4
<1>9. QED
  BY <1>3, <1>4, <1>5, <1>6, <1>7, <1>8 DEF IInv, RowInv

\* The first row of the address: nobody has relied on one so far.
LEMMA RegisterInsertStep ==
    ASSUME IInv, NEW c \in Calls, RegisterInsert(c)
    PROVE  IInv'
<1> DEFINE k == inflight[c]
<1>1. /\ c \in DOMAIN inflight /\ k \in Call /\ k.at = "insert" /\ Good(k) /\ Pending(k)
  BY AtCall DEF RegisterInsert, At, IInv, CallsInv, Pending
<1>2. /\ Answer(c) /\ user' = IF user = NoRow THEN k.copy ELSE user
      /\ UNCHANGED <<now, redis, histories>>
  BY DEF RegisterInsert
<1>3. CASE user # NoRow
  BY <1>2, <1>3, QuietAnswer
<1>4. CASE user = NoRow
  <2>1. /\ user' = k.copy /\ user' \in Row
        /\ user'.state = "INACTIVE" /\ user'.stages = "REGISTRATION"
        /\ UNCHANGED <<now, redis, issued, revoked, stamps, carried>>
    BY <1>1, <1>2, <1>4 DEF Good, Shape, histories
  <2>2. /\ IsTable(inflight', Calls, Call)
        /\ DOMAIN inflight' = DOMAIN inflight \ {c}
        /\ \A d \in DOMAIN inflight' : inflight'[d] = inflight[d]
    BY <1>2, AnswerFacts DEF IInv
  <2>3. TypeOK'
    BY <2>1, <2>2 DEF IInv, TypeOK
  <2>4. user \notin Row /\ ~Found("ACTIVE")
    BY <1>4, RowIsThere, NoRowState DEF Found
  <2>5. "version" \notin carried => k.copy.version \in stamps \ revoked /\ revoked \subseteq stamps
    BY <1>1 DEF Good, Stamped, IInv, RowInv, VersionsInv
  <2>6. ASSUME NEW d \in DOMAIN inflight' PROVE Good(inflight[d])'
    <3>1. Good(inflight[d]) /\ inflight'[d] = inflight[d] /\ d # c /\ d \in DOMAIN inflight
      BY <2>2 DEF IInv, CallsInv
    <3>2. inflight[d].at \notin {"getEntity", "phone", "saveRead", "saveWrite", "delToken",
                                 "removeFcm", "setToken"}
      BY <2>4, <3>1 DEF Good, Shape
    <3>3. Shape(inflight[d])' /\ Usable(inflight[d])'
      BY <3>1, <3>2 DEF Good, Shape, Usable
    <3>4. Verified(inflight[d])' /\ Told(inflight[d])'
      BY <2>1, <2>4, <3>1, <3>2 DEF Good, Verified, Told
    <3>5. Stamped(inflight[d])'
      <4> SUFFICES ASSUME "version" \notin carried, Pending(inflight[d])
                   PROVE  /\ inflight[d].copy.version \in stamps \ revoked
                          /\ inflight[d].copy.version # k.copy.version
        BY <2>1, <3>1, <3>2 DEF Stamped, Pending
      <4>1. QED
        BY <1>1, <3>1 DEF Good, Stamped, IInv, StampsInv
    <3>6. QED
      BY <3>3, <3>4, <3>5 DEF Good
  <2>7. CallsInv'
    BY <2>6 DEF CallsInv
  <2>8. StampsInv'
    BY <2>1, <2>2 DEF IInv, StampsInv, Pending
  <2>9. TokensOnlyForVerified'
    BY <2>1, <2>4 DEF IInv, RowInv, TokensOnlyForVerified
  <2>10. StagesFollowState'
    BY <2>1 DEF StagesFollowState, Found
  <2>11. VersionsInv' /\ RevokedStaysRevoked'
    BY <2>1, <2>5 DEF VersionsInv, RevokedStaysRevoked
  <2>12. QED
    BY <2>3, <2>7, <2>8, <2>9, <2>10, <2>11 DEF IInv, RowInv
<1>5. QED
  BY <1>3, <1>4

\* Time and the ttl of the refresh token touch neither the row nor the calls.
LEMMA TimeStep ==
    ASSUME IInv, Tick \/ TokenExpires \/ UNCHANGED vars
    PROVE  IInv'
<1>1. /\ UNCHANGED <<user, inflight, issued, revoked, stamps, carried>>
      /\ now' \in Nat /\ redis' \in Nat \cup {NoToken}
  BY DEF Tick, TokenExpires, vars, histories, IInv, TypeOK
<1>2. TypeOK'
  BY <1>1 DEF IInv, TypeOK
<1>3. CallsInv' /\ StampsInv'
  BY <1>1, QuietFrame
<1>4. RowInv'
  BY <1>1, RowFrame DEF IInv
<1>5. QED
  BY <1>2, <1>3, <1>4 DEF IInv

-----------------------------------------------------------------------------
(* The theorems *)

LEMMA InvInit == Init => IInv
<1> SUFFICES ASSUME Init PROVE IInv
  OBVIOUS
<1>1. TypeOK
  BY DEF Init, TypeOK, IsTable, EmptyTable
<1>2. CallsInv /\ StampsInv
  BY DEF Init, CallsInv, StampsInv, EmptyTable
<1>3. RowInv
  BY DEF Init, RowInv, TokensOnlyForVerified, StagesFollowState, VersionsInv,
     RevokedStaysRevoked
<1>4. QED
  BY <1>1, <1>2, <1>3 DEF IInv

LEMMA InvStep == IInv /\ [Next]_vars => IInv'
<1> SUFFICES ASSUME IInv, [Next]_vars PROVE IInv'
  OBVIOUS
<1>1. ASSUME NEW c \in Calls, Begins(c) PROVE IInv'
  <2>1. ASSUME NEW body \in RegisterAuthDto, Register(c, body.password) PROVE IInv'
    BY <2>1, RegisterStep DEF RegisterAuthDto
  <2>2. ASSUME NEW body \in ResetPasswordDto, ResetPassword(c, body.password) PROVE IInv'
    BY <2>2, ResetPasswordStep DEF ResetPasswordDto, RegisterAuthDto
  <2>3. ASSUME NEW body \in LoginAuthDto, Login(c, body.password) PROVE IInv'
    BY <2>3, LoginStep DEF LoginAuthDto, RegisterAuthDto
  <2>4. ASSUME NEW body \in ChangePasswordDto,
               ChangePassword(c, body.oldPassword, body.newPassword)
        PROVE  IInv'
    BY <2>4, ChangePasswordStep DEF ChangePasswordDto
  <2>5. QED
    BY <1>1, <2>1, <2>2, <2>3, <2>4, VerifyEmailStep, RefreshTokenStep, LogoutStep,
       UpdateInfoStep DEF Begins
<1>2. ASSUME NEW c \in Calls, Continues(c) PROVE IInv'
  BY <1>2, SaveReadStep, SaveWriteStep, RegisterFindStep, RegisterInsertStep,
     RefreshAuthenticateStep, GetTokenStep, LogoutDelTokenStep, LogoutStampStep,
     ChangePasswordCheckStep, UpdateInfoLoadStep, UpdateInfoAssignStep DEF Continues
<1>3. ASSUME NEW c \in Calls, Fail(c) PROVE IInv'
  BY <1>3, QuietAnswer DEF Fail
<1>4. CASE Tick \/ TokenExpires \/ UNCHANGED vars
  BY <1>4, TimeStep
<1>5. QED
  BY <1>1, <1>2, <1>3, <1>4 DEF Next

\* The row, Redis and what overlapping calls hold are always of their types:
\* a call that saves has a copy of a row, and the row is still there.
THEOREM TypeCorrect == Spec => []TypeOK
BY InvInit, InvStep, PTL DEF Spec, IInv

\* A version that a logout or a new password has ended never comes back, unless
\* a save has carried over an old version or two stamps fell into one
\* millisecond (User.refreshAuthVersion, Repository.save).
THEOREM RevokedForGood == Spec => []RevokedStaysRevoked
BY InvInit, InvStep, PTL DEF Spec, IInv, RowInv

\* Tokens go to verified addresses only (login, verifyEmail, resetPassword,
\* refreshToken), unless a register has saved a stale INACTIVE copy.
THEOREM TokensAreForVerified == Spec => []TokensOnlyForVerified
BY InvInit, InvStep, PTL DEF Spec, IInv, RowInv

\* An account is ACTIVE exactly when it has left REGISTRATION.
THEOREM StoryIsOne == Spec => []StagesFollowState
BY InvInit, InvStep, PTL DEF Spec, IInv, RowInv

\* What a call is about to sign is what the guard accepts, unless another call
\* has written the row meanwhile (getToken).
THEOREM AnswersAreUsable == Spec => []AnswerIsUsable
<1>1. IInv => AnswerIsUsable
  BY DEF IInv, CallsInv, Good, Usable, AnswerIsUsable
<1>2. QED
  BY <1>1, InvInit, InvStep, PTL DEF Spec
=============================================================================
