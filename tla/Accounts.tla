------------------------------ MODULE Accounts ------------------------------
(***************************************************************************)
(* The account of one address: AuthService, JwtAuthService and the writes  *)
(* of UserService.                                                         *)
(*                                                                         *)
(* Calls overlap at their awaits.  Repository.save reads the row again and *)
(* then writes the columns in which the copy the handler holds differs     *)
(* from what it read.  A token is modelled by its uav claim, the           *)
(* authVersion it was signed for: access and refresh tokens carry the same *)
(* claims.  A one-time code is right or wrong; MailOtp models the codes.   *)
(***************************************************************************)
EXTENDS Integers, Tables

CONSTANTS
    Passwords,
    Calls,     \* calls that may overlap
    MaxTime    \* bound of the model on the clock, in milliseconds

VARIABLES
    now,       \* milliseconds: new Date().getTime()
    user,      \* the row of the address in users
    redis,     \* auth:refreshToken:<email>: the refresh token it holds
    inflight,  \* call -> where it waits and what it holds
    issued,    \* history: tokens that have been answered
    revoked,   \* history: versions that a logout or a new password has ended
    stamps,    \* history: times at which a handler has renewed authVersion
    carried    \* history: columns a save has overwritten with what another
               \* call had replaced, or a stamp has failed to renew

histories == <<issued, revoked, stamps, carried>>
vars == <<now, user, redis, inflight, histories>>

State == {"INACTIVE", "ACTIVE"}
Stages == {"REGISTRATION", "INFORMATION", "COMPLETION"}
Row == [state: State, stages: Stages, password: Passwords, version: Nat]
Columns == {"state", "stages", "password", "version"}
NoRow == [state |-> "NONE"]
NoToken == -1
NoPassword == "none"

\* Bodies of the calls that bring a password.  A body with a wrong code changes
\* nothing, one with the right code is left with its password.
RegisterAuthDto == [password: Passwords]
LoginAuthDto == RegisterAuthDto
ResetPasswordDto == RegisterAuthDto
ChangePasswordDto == [oldPassword: Passwords, newPassword: Passwords]

Kind == {"register", "verifyEmail", "resetPassword", "login", "logout",
         "refreshToken", "changePassword", "updateInfo"}

\* The calls that end in getToken.
TokenKind == {"verifyEmail", "resetPassword", "login", "refreshToken"}

\* at: the query a call waits for.  copy: the user it has loaded.  seen: what
\* its save has read.  stale: another call has written the row since, kept of
\* the calls that are to answer tokens.
Call == [kind: Kind,
         at: {"find", "insert", "delToken", "removeFcm", "getEntity", "phone",
              "saveRead", "saveWrite", "setToken", "authenticate"},
         copy: Row \cup {NoRow}, seen: Row \cup {NoRow}, stale: BOOLEAN,
         old: Passwords \cup {NoPassword}, new: Passwords \cup {NoPassword},
         token: Nat]

Init ==
    /\ now = 1
    /\ user = NoRow
    /\ redis = NoToken
    /\ inflight = EmptyTable
    /\ issued = {}
    /\ revoked = {}
    /\ stamps = {}
    /\ carried = {}

-----------------------------------------------------------------------------
(* Calls *)

Idle(c) == c \notin DOMAIN inflight
At(c, kind, place) ==
    c \in DOMAIN inflight /\ inflight[c].kind = kind /\ inflight[c].at = place
AtAny(c, place) == c \in DOMAIN inflight /\ inflight[c].at = place

Await(c, call) == inflight' = Put(inflight, c, call)
Answer(c) == inflight' = Drop(inflight, c)
GoTo(c, place) == inflight' = [inflight EXCEPT ![c].at = place]

\* A call that begins with the copy row, and with what its body states.
Enter(kind, place, copy, old, new) ==
    [kind |-> kind, at |-> place, copy |-> copy, seen |-> NoRow, stale |-> FALSE,
     old |-> old, new |-> new, token |-> 0]

\* A call that goes on to getToken with a copy of that version.
Signing(call, version) ==
    [call EXCEPT !.at = "setToken", !.copy = NoRow, !.seen = NoRow, !.token = version]

Found(state) == user.state = state

\* The row as setPassword and refreshAuthVersion leave it.
WithVersion(row) == [row EXCEPT !.version = now]

\* Mutant: the password changes and the version stays.
SetPasswordOnly(row, p) == [row EXCEPT !.password = p]

SetPassword(row, p) == WithVersion([row EXCEPT !.password = p])

\* A stamp is new unless another call has taken one in the same millisecond.
Stamp ==
    /\ stamps' = stamps \cup {now}
    /\ carried' = IF now \in stamps THEN carried \cup {"version"} ELSE carried

\* JwtAuthGuard: authentication of a token that has been answered.
Authenticated == Found("ACTIVE") /\ user.version \in issued

-----------------------------------------------------------------------------
(* Repository.save of the copy *)

\* What the handler assigns before it saves.
Assigned(kind) ==
    CASE kind \in {"register", "resetPassword", "changePassword"} -> {"password", "version"}
      [] kind = "verifyEmail" -> {"state", "stages"}
      [] kind = "logout" -> {"version"}
      [] kind = "updateInfo" -> {"stages"}

SaveRead(c) ==
    /\ AtAny(c, "saveRead")
    /\ inflight' = [inflight EXCEPT ![c].at = "saveWrite", ![c].seen = user]
    /\ UNCHANGED <<now, user, redis, histories>>

\* Every password has a hash of its own, so a new one always differs.
Written(call, column) ==
    \/ call.copy[column] # call.seen[column]
    \/ column = "password" /\ column \in Assigned(call.kind)

Merge(call) ==
    [column \in Columns |->
        IF Written(call, column) THEN call.copy[column] ELSE user[column]]

SaveWrite(c) ==
    LET call == inflight[c] IN
    /\ AtAny(c, "saveWrite")
    /\ user' = Merge(call)
    /\ carried' = carried \cup
            {column \in Columns \ Assigned(call.kind) : Written(call, column)}
    /\ revoked' = IF "version" \in Assigned(call.kind)
                  THEN revoked \cup {user.version} ELSE revoked
    /\ inflight' =
        LET others == [d \in DOMAIN inflight \ {c} |->
                [inflight[d] EXCEPT !.stale =
                    @ \/ (user' # user /\ inflight[d].kind \in TokenKind)]]
        IN  IF call.kind \in TokenKind
            THEN Put(others, c, Signing(call, call.copy.version))
            ELSE others
    /\ UNCHANGED <<now, redis, issued, stamps>>

-----------------------------------------------------------------------------
(* AuthService.register *)

\* 'This email is already in use' to an ACTIVE one.
Register(c, p) ==
    /\ Idle(c)
    /\ ~Found("ACTIVE")
    /\ Await(c, Enter("register", "find", NoRow, NoPassword, p))
    /\ UNCHANGED <<now, user, redis, histories>>

\* An INACTIVE user gets the new password; else a user is created, which is
\* INACTIVE and in REGISTRATION by default.
RegisterFind(c) ==
    /\ At(c, "register", "find")
    /\ LET row == IF Found("INACTIVE") THEN user
                  ELSE [state |-> "INACTIVE", stages |-> "REGISTRATION",
                        password |-> inflight[c].new, version |-> now]
       IN  Await(c, [inflight[c] EXCEPT
                !.at = IF Found("INACTIVE") THEN "saveRead" ELSE "insert",
                !.copy = SetPassword(row, inflight[c].new), !.new = NoPassword])
    /\ Stamp
    /\ UNCHANGED <<now, user, redis, issued, revoked>>

\* The address is unique: an insert of a second row is refused.
RegisterInsert(c) ==
    /\ At(c, "register", "insert")
    /\ user' = IF user = NoRow THEN inflight[c].copy ELSE user
    /\ Answer(c)
    /\ UNCHANGED <<now, redis, histories>>

-----------------------------------------------------------------------------
(* AuthService.verifyEmail, resetPassword, login and refreshToken *)

\* Mutant: the account is verified and stays in REGISTRATION.
VerifyEmailKeepsStages(c) ==
    /\ Idle(c)
    /\ Found("INACTIVE")
    /\ Await(c, Enter("verifyEmail", "saveRead",
            [user EXCEPT !.state = "ACTIVE"], NoPassword, NoPassword))
    /\ UNCHANGED <<now, user, redis, histories>>

\* The code is right: any caller may have it.
VerifyEmail(c) ==
    /\ Idle(c)
    /\ Found("INACTIVE")
    /\ Await(c, Enter("verifyEmail", "saveRead",
            [user EXCEPT !.state = "ACTIVE", !.stages = "INFORMATION"], NoPassword, NoPassword))
    /\ UNCHANGED <<now, user, redis, histories>>

\* Mutant: the new password is not saved.
ResetPasswordUnsaved(c, p) ==
    /\ Idle(c)
    /\ Found("ACTIVE")
    /\ Await(c, Signing(Enter("resetPassword", "setToken", NoRow, NoPassword, NoPassword),
                        SetPassword(user, p).version))
    /\ Stamp
    /\ UNCHANGED <<now, user, redis, issued, revoked>>

ResetPassword(c, p) ==
    /\ Idle(c)
    /\ Found("ACTIVE")
    /\ Await(c, Enter("resetPassword", "saveRead", SetPassword(user, p), NoPassword, NoPassword))
    /\ Stamp
    /\ UNCHANGED <<now, user, redis, issued, revoked>>

\* Mutant: an account need not be verified.
LoginUnverified(c, p) ==
    /\ Idle(c)
    /\ user # NoRow
    /\ user.password = p
    /\ Await(c, Signing(Enter("login", "setToken", NoRow, NoPassword, NoPassword),
                        user.version))
    /\ UNCHANGED <<now, user, redis, histories>>

Login(c, p) ==
    /\ Idle(c)
    /\ Found("ACTIVE")
    /\ user.password = p
    /\ Await(c, Signing(Enter("login", "setToken", NoRow, NoPassword, NoPassword),
                        user.version))
    /\ UNCHANGED <<now, user, redis, histories>>

\* Mutant: nobody asks whether Redis holds a token.
RefreshTokenUnchecked(c) ==
    /\ Idle(c)
    /\ Await(c, [Enter("refreshToken", "authenticate", NoRow, NoPassword, NoPassword)
                    EXCEPT !.token = redis])
    /\ UNCHANGED <<now, user, redis, histories>>

\* Only the token that Redis holds goes on.
RefreshToken(c) ==
    /\ Idle(c)
    /\ redis \in issued
    /\ Await(c, [Enter("refreshToken", "authenticate", NoRow, NoPassword, NoPassword)
                    EXCEPT !.token = redis])
    /\ UNCHANGED <<now, user, redis, histories>>

\* JwtAuthService.authentication
RefreshAuthenticate(c) ==
    /\ At(c, "refreshToken", "authenticate")
    /\ IF Found("ACTIVE") /\ user.version = inflight[c].token
       THEN Await(c, Signing([inflight[c] EXCEPT !.stale = FALSE], user.version))
       ELSE Answer(c)
    /\ UNCHANGED <<now, user, redis, histories>>

\* getToken signs for the version of the copy and keeps the refresh token.
GetToken(c) ==
    /\ AtAny(c, "setToken")
    /\ redis' = inflight[c].token
    /\ issued' = issued \cup {inflight[c].token}
    /\ Answer(c)
    /\ UNCHANGED <<now, user, revoked, stamps, carried>>

-----------------------------------------------------------------------------
(* AuthService.logout: the user is the one the guard has loaded *)

Logout(c) ==
    /\ Idle(c)
    /\ Authenticated
    /\ Await(c, Enter("logout", "delToken", user, NoPassword, NoPassword))
    /\ UNCHANGED <<now, user, redis, histories>>

LogoutDelToken(c) ==
    /\ At(c, "logout", "delToken")
    /\ redis' = NoToken
    /\ GoTo(c, "removeFcm")
    /\ UNCHANGED <<now, user, histories>>

\* FcmTokenService.remove, modelled in Notifications, then refreshAuthVersion.
LogoutStamp(c) ==
    /\ At(c, "logout", "removeFcm")
    /\ Await(c, [inflight[c] EXCEPT !.at = "saveRead", !.copy = WithVersion(@)])
    /\ Stamp
    /\ UNCHANGED <<now, user, redis, issued, revoked>>

-----------------------------------------------------------------------------
(* UserService.changePassword and updateInfo *)

ChangePassword(c, old, new) ==
    /\ Idle(c)
    /\ Authenticated
    /\ Await(c, Enter("changePassword", "getEntity", NoRow, old, new))
    /\ UNCHANGED <<now, user, redis, histories>>

\* 'Old password is incorrect', 'New password must not equal current password'
ChangePasswordCheck(c) ==
    /\ At(c, "changePassword", "getEntity")
    /\ IF user.password = inflight[c].old /\ user.password # inflight[c].new
       THEN /\ Await(c, [inflight[c] EXCEPT !.at = "saveRead",
                            !.copy = SetPassword(user, inflight[c].new),
                            !.old = NoPassword, !.new = NoPassword])
            /\ Stamp
       ELSE Answer(c) /\ UNCHANGED <<stamps, carried>>
    /\ UNCHANGED <<now, user, redis, issued, revoked>>

UpdateInfo(c) ==
    /\ Idle(c)
    /\ Authenticated
    /\ Await(c, Enter("updateInfo", "getEntity", NoRow, NoPassword, NoPassword))
    /\ UNCHANGED <<now, user, redis, histories>>

UpdateInfoLoad(c) ==
    /\ At(c, "updateInfo", "getEntity")
    /\ Await(c, [inflight[c] EXCEPT !.at = "phone", !.copy = user])
    /\ UNCHANGED <<now, user, redis, histories>>

\* The phone number is nobody else's; the new profile completes the account.
UpdateInfoAssign(c) ==
    /\ At(c, "updateInfo", "phone")
    /\ Await(c, [inflight[c] EXCEPT !.at = "saveRead",
            !.copy.stages = IF @ = "INFORMATION" THEN "COMPLETION" ELSE @])
    /\ UNCHANGED <<now, user, redis, histories>>

-----------------------------------------------------------------------------
\* A query fails, a body is refused, the process dies.
Fail(c) ==
    /\ ~Idle(c)
    /\ Answer(c)
    /\ UNCHANGED <<now, user, redis, histories>>

\* The ttl of the refresh token ends.
TokenExpires ==
    /\ redis # NoToken
    /\ redis' = NoToken
    /\ UNCHANGED <<now, user, inflight, histories>>

Tick ==
    /\ now < MaxTime
    /\ now' = now + 1
    /\ UNCHANGED <<user, redis, inflight, histories>>

Begins(c) ==
    \/ \E body \in RegisterAuthDto : Register(c, body.password)
    \/ \E body \in ResetPasswordDto : ResetPassword(c, body.password)
    \/ \E body \in LoginAuthDto : Login(c, body.password)
    \/ \E body \in ChangePasswordDto : ChangePassword(c, body.oldPassword, body.newPassword)
    \/ VerifyEmail(c) \/ RefreshToken(c) \/ Logout(c) \/ UpdateInfo(c)

Continues(c) ==
    \/ SaveRead(c) \/ SaveWrite(c) \/ RegisterFind(c) \/ RegisterInsert(c)
    \/ RefreshAuthenticate(c) \/ GetToken(c)
    \/ LogoutDelToken(c) \/ LogoutStamp(c)
    \/ ChangePasswordCheck(c) \/ UpdateInfoLoad(c) \/ UpdateInfoAssign(c)

Next ==
    \/ \E c \in Calls : Begins(c) \/ Continues(c) \/ Fail(c)
    \/ Tick \/ TokenExpires

Spec == Init /\ [][Next]_vars

-----------------------------------------------------------------------------
(* Properties *)

\* The row, Redis and the calls hold values of their types.
TypeOK ==
    /\ now \in Nat
    /\ user \in Row \cup {NoRow}
    /\ redis \in Nat \cup {NoToken}
    /\ IsTable(inflight, Calls, Call)
    /\ issued \subseteq Nat
    /\ revoked \subseteq Nat
    /\ stamps \subseteq Nat
    /\ carried \subseteq Columns

\* A version that a logout or a new password has ended never comes back, so a
\* token from before is refused for good, however calls overlap and fail: the
\* only ways back are a save that carries an old version over from a stale copy
\* (verifyEmail, updateInfo) and two stamps in one millisecond.
RevokedStaysRevoked ==
    "version" \notin carried => (user # NoRow => user.version \notin revoked)

\* Tokens are answered for a verified address only, and it stays verified:
\* the only way back is a register that saves a stale INACTIVE copy.
TokensOnlyForVerified ==
    "state" \notin carried => (issued # {} => Found("ACTIVE"))

\* state and stages tell the same story: an account has left REGISTRATION
\* exactly when it is ACTIVE (verifyEmail, updateInfo, JwtAuthGuard).
StagesFollowState ==
    carried \cap {"state", "stages"} = {} =>
        (user # NoRow => (Found("ACTIVE") <=> user.stages # "REGISTRATION"))

\* A call that nobody has overtaken answers tokens the guard accepts: what it
\* signs is what is stored (getToken after verifyEmail, resetPassword, login
\* and refreshToken).
AnswerIsUsable ==
    \A c \in DOMAIN inflight :
        (inflight[c].at = "setToken" /\ ~inflight[c].stale) =>
            /\ Found("ACTIVE")
            /\ inflight[c].token = user.version
=============================================================================
