--------------------------- MODULE RefreshSessions ---------------------------
(***************************************************************************)
(* The authentication feature: accounts, refresh sessions and the rotating *)
(* refresh tokens (src/features/auth).                                     *)
(*                                                                         *)
(* A request is a handler running in some replica of the API.  Between two *)
(* statements it sends to Postgres, other handlers may run: the row it has *)
(* read is a snapshot, and the checks of the domain entity are made on the *)
(* snapshot.  Each action below is the code between two such points.       *)
(*                                                                         *)
(* Data.  The clock counts seconds, the resolution of a JWT's iat and exp. *)
(* A refresh token is the record of its claims: signing is deterministic,  *)
(* so two tokens with the same claims and iat are the same token.  A hash  *)
(* is injective, so token_hash is the token.  Passwords are left out: a    *)
(* sign-in that reaches the token step had the right one.                  *)
(***************************************************************************)
EXTENDS Integers

CONSTANTS
    Emails,      \* values of users.email
    Users,       \* ids randomUUID can give an account
    Devices,     \* device ids the clients send
    Sessions,    \* ids randomUUID can give a session
    Requests,    \* handlers that may run at the same time
    RefreshTTL,  \* seconds a refresh token lives
    MaxTime,     \* bound of the clock
    None         \* no row, no account, no token yet

ASSUME TimeAssumption == RefreshTTL \in Nat \ {0} /\ MaxTime \in Nat

VARIABLES
    now,        \* the time, the same for the API and for Postgres
    accounts,   \* table users joined with profiles: the owner of each e-mail
    sessions,   \* table refresh_sessions
    req,        \* the handlers in flight
    delivered,  \* refresh tokens some client has received
    lost        \* refresh tokens whose response never arrived

tables == <<accounts, sessions>>
clients == <<delivered, lost>>
vars == <<now, accounts, sessions, req, delivered, lost>>

-----------------------------------------------------------------------------
(* Records *)

Time == 0 .. MaxTime
RefreshToken == [user : Users, sid : Sessions, iat : Time]
RowType == [user : Users, device : Devices, token : RefreshToken,
            expiresAt : Nat, revoked : BOOLEAN]

Phases == {"idle",       \* no handler
           "read",       \* refresh: snapshot loaded
           "rotate",     \* refresh: accepted, about to update the row
           "revoke",     \* sign-out: accepted, about to update the row
           "create",     \* sign-in: tokens issued, about to open the session
           "register",   \* sign-up: tokens issued, about to open the account
           "reply"}      \* success, response on its way

(* presented and snap are set by refresh and sign-out, email by sign-up,   *)
(* device by all of them; issued is the refresh token to be returned.      *)
RequestType ==
    [phase : Phases, presented : RefreshToken \cup {None},
     snap : RowType \cup {None}, device : Devices \cup {None},
     issued : RefreshToken \cup {None}, email : Emails \cup {None}]

ASSUME NoneAssumption == None \notin RowType \cup RefreshToken \cup Users

Idle == [phase |-> "idle", presented |-> None, snap |-> None,
         device |-> None, issued |-> None, email |-> None]

Rows == {s \in Sessions : sessions[s] # None}

(* A UUID no row and no handler holds. *)
UnusedSession(s) ==
    s \notin Rows /\ \A r \in Requests : req[r].issued # None => req[r].issued.sid # s

UnusedUser(u) ==
    /\ \A e \in Emails : accounts[e] # u
    /\ \A r \in Requests : req[r].issued # None => req[r].issued.user # u

-----------------------------------------------------------------------------
(* The readers: None when there is no row. *)

findById(s) == sessions[s]

findByEmail(e) == accounts[e]

-----------------------------------------------------------------------------
(* The JWT adapter and the domain entity *)

(* Mutant: iat and exp mixed up. *)
createRefreshTokenIatIsExp(u, s) == [user |-> u, sid |-> s, iat |-> now + RefreshTTL]

(* createRefreshToken at the present second. *)
createRefreshToken(u, s) == [user |-> u, sid |-> s, iat |-> now]

ExpiresAt(t) == t.iat + RefreshTTL

(* verifyRefreshToken of a token the API signed. *)
verifyRefreshToken(t) == ExpiresAt(t) > now

(* Mutant: a revoked session counts as active until it expires. *)
isActiveAtIgnoringRevocation(row, at) == row.expiresAt > at

isActiveAt(row, at) == ~row.revoked /\ row.expiresAt > at

(* Mutant: the stored hash is not compared. *)
matchesUsageAttemptAnyHash(row, t, d) == row.user = t.user /\ row.device = d

matchesUsageAttempt(row, t, d) ==
    row.user = t.user /\ row.device = d /\ row.token = t

canBeRefreshedWith(row, t, d, at) == matchesUsageAttempt(row, t, d) /\ isActiveAt(row, at)

canBeSignedOutWith(row, t, d, at) == matchesUsageAttempt(row, t, d) /\ isActiveAt(row, at)

canAuthorizeAccessToken(row, u, at) == row.user = u /\ isActiveAt(row, at)

(* What the guard decides for an unexpired access token of session s.      *)
AccessAccepted(s, u) ==
    findById(s) # None /\ canAuthorizeAccessToken(findById(s), u, now)

-----------------------------------------------------------------------------
(* Postgres *)

(* Mutant: the index of migration 006 without UNIQUE. *)
NoUniqueIndex(s, u, d, table) == FALSE

(* The rows of refresh_sessions_active_user_id_device_id_idx that a row of *)
(* the session s with this user and device, not revoked, would meet.       *)
ActiveIndexConflict(s, u, d, table) ==
    \E o \in Sessions \ {s} : /\ table[o] # None
                              /\ table[o].user = u
                              /\ table[o].device = d
                              /\ ~table[o].revoked

(* Mutant: every session of the device is revoked, expired or not. *)
RevokeAll(u, d) ==
    [s \in Sessions |->
        IF s \in Rows /\ sessions[s].user = u /\ sessions[s].device = d
        THEN [sessions[s] EXCEPT !.revoked = TRUE]
        ELSE sessions[s]]

(* The first statement of the creator's transaction. *)
RevokeExpired(u, d) ==
    [s \in Sessions |->
        IF s \in Rows /\ sessions[s].user = u /\ sessions[s].device = d
           /\ sessions[s].expiresAt <= now
        THEN [sessions[s] EXCEPT !.revoked = TRUE]
        ELSE sessions[s]]

NewRow(t, d) == [user |-> t.user, device |-> d, token |-> t,
                 expiresAt |-> ExpiresAt(t), revoked |-> FALSE]

-----------------------------------------------------------------------------
Init ==
    /\ now = 0
    /\ accounts = [e \in Emails |-> None]
    /\ sessions = [s \in Sessions |-> None]
    /\ req = [r \in Requests |-> Idle]
    /\ delivered = {}
    /\ lost = {}

(* Sign-up, first part: validation, password hash, ids and tokens. *)
SignUpBegin(r) ==
    /\ req[r].phase = "idle"
    /\ \E e \in Emails, d \in Devices, u \in Users, s \in Sessions :
        /\ UnusedUser(u) /\ UnusedSession(s)
        /\ req' = [req EXCEPT ![r] = [Idle EXCEPT
                        !.phase = "register", !.email = e, !.device = d,
                        !.issued = createRefreshToken(u, s)]]
    /\ UNCHANGED <<now, tables, clients>>

(* Mutant: no transaction, and the session inserted before the account. *)
SignUpRegisterNoTransaction(r) ==
    /\ req[r].phase = "register"
    /\ sessions' = [sessions EXCEPT ![req[r].issued.sid] =
                        NewRow(req[r].issued, req[r].device)]
    /\ IF accounts[req[r].email] = None
       THEN /\ accounts' = [accounts EXCEPT ![req[r].email] = req[r].issued.user]
            /\ req' = [req EXCEPT ![r].phase = "reply"]
       ELSE req' = [req EXCEPT ![r] = Idle] /\ UNCHANGED accounts
    /\ UNCHANGED <<now, clients>>

(* Sign-up, the transaction of PostgresAuthRegistrationCreator: user,      *)
(* profile and first session are inserted, or nothing is when the e-mail   *)
(* is taken.                                                               *)
SignUpRegister(r) ==
    /\ req[r].phase = "register"
    /\ \/ /\ accounts[req[r].email] = None
          /\ accounts' = [accounts EXCEPT ![req[r].email] = req[r].issued.user]
          /\ sessions' = [sessions EXCEPT ![req[r].issued.sid] =
                                NewRow(req[r].issued, req[r].device)]
          /\ req' = [req EXCEPT ![r].phase = "reply"]
       \/ /\ accounts[req[r].email] # None
          /\ req' = [req EXCEPT ![r] = Idle]
          /\ UNCHANGED tables
    /\ UNCHANGED <<now, clients>>

(* Sign-in, first part: the account is found, its password verified, the   *)
(* session id and the tokens are made.                                     *)
SignInBegin(r) ==
    /\ req[r].phase = "idle"
    /\ \E e \in Emails, d \in Devices, s \in Sessions :
        /\ findByEmail(e) # None
        /\ UnusedSession(s)
        /\ req' = [req EXCEPT ![r] = [Idle EXCEPT
                        !.phase = "create", !.device = d,
                        !.issued = createRefreshToken(findByEmail(e), s)]]
    /\ UNCHANGED <<now, tables, clients>>

(* Sign-in, the transaction of PostgresRefreshSessionCreator: expired      *)
(* sessions of the device are revoked and the new one is inserted; on a    *)
(* conflict with an active one both are rolled back and the sign-in fails. *)
SignInCreate(r) ==
    /\ req[r].phase = "create"
    /\ LET t == req[r].issued
           d == req[r].device
           table == RevokeExpired(t.user, d)
       IN \/ /\ ~ActiveIndexConflict(t.sid, t.user, d, table)
             /\ sessions' = [table EXCEPT ![t.sid] = NewRow(t, d)]
             /\ req' = [req EXCEPT ![r].phase = "reply"]
          \/ /\ ActiveIndexConflict(t.sid, t.user, d, table)
             /\ req' = [req EXCEPT ![r] = Idle]
             /\ UNCHANGED sessions
    /\ UNCHANGED <<now, accounts, clients>>

(* Refresh, first part: the token is verified and the row it names is      *)
(* read.  A client may present any token it was given, from any device.    *)
RefreshBegin(r) ==
    /\ req[r].phase = "idle"
    /\ \E t \in delivered, d \in Devices :
        /\ verifyRefreshToken(t)
        /\ findById(t.sid) # None
        /\ req' = [req EXCEPT ![r] = [Idle EXCEPT
                        !.phase = "read", !.device = d, !.presented = t,
                        !.snap = findById(t.sid)]]
    /\ UNCHANGED <<now, tables, clients>>

(* Refresh, second part: the snapshot is checked, the new token made. *)
RefreshIssue(r) ==
    /\ req[r].phase = "read"
    /\ canBeRefreshedWith(req[r].snap, req[r].presented, req[r].device, now)
    /\ req' = [req EXCEPT ![r].phase = "rotate",
                          ![r].issued = createRefreshToken(req[r].presented.user,
                                                          req[r].presented.sid)]
    /\ UNCHANGED <<now, tables, clients>>

RefreshReject(r) ==
    /\ req[r].phase = "read"
    /\ ~canBeRefreshedWith(req[r].snap, req[r].presented, req[r].device, now)
    /\ req' = [req EXCEPT ![r] = Idle]
    /\ UNCHANGED <<now, tables, clients>>

(* Mutant: the request fails after the row is written. *)
RefreshRotateThenFail(r) ==
    /\ req[r].phase = "rotate"
    /\ LET t == req[r].issued
       IN sessions' = [sessions EXCEPT ![t.sid] =
            [@ EXCEPT !.token = t, !.expiresAt = ExpiresAt(t), !.revoked = FALSE]]
    /\ req' = [req EXCEPT ![r] = Idle]
    /\ UNCHANGED <<now, accounts, clients>>

(* Mutant: the token is rotated, the expiry is not. *)
RefreshRotateKeepingExpiry(r) ==
    /\ req[r].phase = "rotate"
    /\ LET t == req[r].issued
       IN sessions' = [sessions EXCEPT ![t.sid] = [@ EXCEPT !.token = t, !.revoked = FALSE]]
    /\ req' = [req EXCEPT ![r].phase = "reply"]
    /\ UNCHANGED <<now, accounts, clients>>

(* Refresh, the update of PostgresRefreshSessionRotator: by id, with no    *)
(* condition on what the row holds by now, and revoked_at is cleared.  If  *)
(* that makes a second active row of the device the index rejects it and   *)
(* the request fails.                                                      *)
RefreshRotate(r) ==
    /\ req[r].phase = "rotate"
    /\ LET t == req[r].issued
           row == sessions[t.sid]
       IN \/ /\ ~ActiveIndexConflict(t.sid, row.user, row.device, sessions)
             /\ sessions' = [sessions EXCEPT ![t.sid] =
                    [@ EXCEPT !.token = t, !.expiresAt = ExpiresAt(t), !.revoked = FALSE]]
             /\ req' = [req EXCEPT ![r].phase = "reply"]
          \/ /\ ActiveIndexConflict(t.sid, row.user, row.device, sessions)
             /\ req' = [req EXCEPT ![r] = Idle]
             /\ UNCHANGED sessions
    /\ UNCHANGED <<now, accounts, clients>>

(* Sign-out, first part: the row is read, the clock is read, and the check *)
(* is decided.  A token that does not fit ends the request, silently.      *)
SignOutBegin(r) ==
    /\ req[r].phase = "idle"
    /\ \E t \in delivered, d \in Devices :
        /\ verifyRefreshToken(t)
        /\ findById(t.sid) # None
        /\ canBeSignedOutWith(findById(t.sid), t, d, now)
        /\ req' = [req EXCEPT ![r] = [Idle EXCEPT
                        !.phase = "revoke", !.device = d, !.presented = t]]
    /\ UNCHANGED <<now, tables, clients>>

(* Sign-out, the update of PostgresRefreshSessionRevoker: by id. *)
SignOutRevoke(r) ==
    /\ req[r].phase = "revoke"
    /\ sessions' = [sessions EXCEPT ![req[r].presented.sid].revoked = TRUE]
    /\ req' = [req EXCEPT ![r] = Idle]
    /\ UNCHANGED <<now, accounts, clients>>

(* The response reaches the client, or is lost with its connection. *)
Respond(r) ==
    /\ req[r].phase = "reply"
    /\ delivered' = delivered \cup {req[r].issued}
    /\ req' = [req EXCEPT ![r] = Idle]
    /\ UNCHANGED <<now, tables, lost>>

LoseResponse(r) ==
    /\ req[r].phase = "reply"
    /\ lost' = lost \cup {req[r].issued}
    /\ req' = [req EXCEPT ![r] = Idle]
    /\ UNCHANGED <<now, tables, delivered>>

(* The replica stops, or the statement fails before it takes effect. *)
Abandon(r) ==
    /\ req[r].phase \notin {"idle", "reply"}
    /\ req' = [req EXCEPT ![r] = Idle]
    /\ UNCHANGED <<now, tables, clients>>

Tick ==
    /\ now < MaxTime
    /\ now' = now + 1
    /\ UNCHANGED <<tables, req, clients>>

Handle(r) ==
    \/ SignUpBegin(r) \/ SignUpRegister(r)
    \/ SignInBegin(r) \/ SignInCreate(r)
    \/ RefreshBegin(r) \/ RefreshIssue(r) \/ RefreshReject(r) \/ RefreshRotate(r)
    \/ SignOutBegin(r) \/ SignOutRevoke(r)
    \/ Respond(r) \/ LoseResponse(r) \/ Abandon(r)

Next == Tick \/ \E r \in Requests : Handle(r)

Spec == Init /\ [][Next]_vars

-----------------------------------------------------------------------------
(* Properties *)

(* Every table, request and token has the shape the code gives it. *)
TypeOK ==
    /\ now \in Time
    /\ accounts \in [Emails -> Users \cup {None}]
    /\ sessions \in [Sessions -> RowType \cup {None}]
    /\ req \in [Requests -> RequestType]
    /\ delivered \subseteq RefreshToken
    /\ lost \subseteq RefreshToken

(* A user has at most one session that is not revoked on a device, however *)
(* sign-ins, refreshes that clear revoked_at and expiries interleave: what *)
(* UserAlreadySignedInOnDeviceError promises.                              *)
OneActiveSessionPerDevice ==
    \A s, o \in Rows :
        /\ ~sessions[s].revoked /\ ~sessions[o].revoked
        /\ sessions[s].user = sessions[o].user
        /\ sessions[s].device = sessions[o].device
        => s = o

(* The stored hash is that of a token signed for this very session and     *)
(* user, and expires_at is that token's exp: the row never outlives its    *)
(* token nor dies before it, whichever of several rotations wrote last.    *)
RowMatchesToken ==
    \A s \in Rows :
        LET row == sessions[s]
        IN /\ row.token.sid = s
           /\ row.token.user = row.user
           /\ row.expiresAt = ExpiresAt(row.token)

(* The token a session now wants has been received by a client, is on its  *)
(* way, or was lost with its response: only a lost response can lock a     *)
(* client out of a session it owns, no order of concurrent refreshes can.  *)
CurrentTokenAccountedFor ==
    \A s \in Rows :
        \/ sessions[s].token \in delivered \cup lost
        \/ \E r \in Requests : req[r].phase = "reply" /\ req[r].issued = sessions[s].token

(* Sign-up is all or nothing: every session, and every token a client      *)
(* holds, belongs to an account that exists, also when two sign-ups race   *)
(* for one e-mail.                                                         *)
NoOrphanSession ==
    /\ \A s \in Rows : \E e \in Emails : accounts[e] = sessions[s].user
    /\ \A t \in delivered : \E e \in Emails : accounts[e] = t.user

(* A revoked session that no refresh in flight has already seen alive. *)
Dead(s) ==
    /\ s \in Rows
    /\ sessions[s].revoked
    /\ \A r \in Requests :
        /\ ~(req[r].phase = "read" /\ req[r].presented.sid = s /\ ~req[r].snap.revoked)
        /\ ~(req[r].phase = "rotate" /\ req[r].issued.sid = s)

(* Once a session is revoked, and the refreshes that had read it before    *)
(* are over, it is never active again: no refresh that starts later is     *)
(* accepted, and no access token of it passes the guard.                   *)
DeadSessionStaysDead ==
    [][\A s \in Sessions : Dead(s) => Dead(s)' /\ \A u \in Users : ~AccessAccepted(s, u)']_vars

(* A token that an earlier second issued, that the row no longer holds,    *)
(* and that no refresh in flight presented while the row still held it.    *)
Superseded(t) ==
    /\ t.iat < now
    /\ t.sid \in Rows
    /\ sessions[t.sid].token # t
    /\ \A r \in Requests :
        /\ ~(req[r].phase = "read" /\ req[r].snap.token = t)
        /\ ~(req[r].phase = "rotate" /\ t \in {req[r].presented, req[r].issued})

(* Rotation is final: a superseded token is never accepted for a refresh   *)
(* again, nor stored again by a slower concurrent rotation.                *)
SupersededTokenStaysDead ==
    [][\A t \in RefreshToken : Superseded(t) => Superseded(t)']_vars

(* A session that is neither revoked nor expired is revoked only by a      *)
(* sign-out for that very session: not by a sign-in of the same user on    *)
(* the same device, and not by the sign-out of another session.            *)
OnlySignOutEndsLiveSession ==
    [][\A s \in Rows :
        isActiveAt(sessions[s], now) /\ sessions'[s].revoked
        => \E r \in Requests : req[r].phase = "revoke" /\ req[r].presented.sid = s
                               /\ req'[r] = Idle]_vars

(* "the old refresh token should no longer be accepted after this use case *)
(* completes" (refresh-session.use-case.ts): when a refresh answers, the   *)
(* token it was given is not the session's token.                          *)
OldTokenRejected ==
    \A r \in Requests :
        req[r].phase = "reply" /\ req[r].presented # None
        => sessions[req[r].presented.sid].token # req[r].presented

(* "marks the targeted refresh session as revoked so future refresh        *)
(* attempts against the same session are rejected"                         *)
(* (postgres-refresh-session-revoker.ts): a revoked session stays revoked. *)
RevokedStaysRevoked ==
    [][\A s \in Rows : sessions[s].revoked => sessions'[s].revoked]_vars
=============================================================================
