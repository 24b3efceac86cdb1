------------------------ MODULE RefreshSessionsProofs ------------------------
(***************************************************************************)
(* Theorems about RefreshSessions, for every set of e-mails, users,        *)
(* devices, sessions and requests, and every clock bound.                  *)
(***************************************************************************)
EXTENDS RefreshSessions, TLAPS

-----------------------------------------------------------------------------
(* The inductive invariant *)

(* What a handler holds in each phase. *)
RequestsWellFormed ==
    \A r \in Requests :
        /\ req[r].phase \in {"rotate", "create", "register", "reply"} => req[r].issued \in RefreshToken
        /\ req[r].phase \in {"read", "rotate", "revoke"} => req[r].presented \in delivered
        /\ req[r].phase = "read" => req[r].snap \in RowType
        /\ req[r].phase = "rotate" => /\ req[r].issued.sid = req[r].presented.sid
                                      /\ req[r].issued.user = req[r].presented.user
        /\ req[r].phase \in {"create", "register"} => req[r].device \in Devices
        /\ req[r].phase = "create" => \E e \in Emails : accounts[e] = req[r].issued.user
        /\ req[r].phase = "register" => req[r].email \in Emails

(* The session id of a sign-in or sign-up in flight is nobody else's. *)
FreshIds ==
    \A r \in Requests :
        req[r].phase \in {"create", "register"} =>
            /\ req[r].issued.sid \notin Rows
            /\ \A o \in Requests \ {r} :
                req[o].phase \in {"create", "register"} => req[o].issued.sid # req[r].issued.sid

(* The user id of a sign-up in flight is nobody else's. *)
FreshUsers ==
    \A r \in Requests :
        req[r].phase = "register" =>
            /\ \A e \in Emails : accounts[e] # req[r].issued.user
            /\ \A o \in Requests \ {r} :
                req[o].phase = "register" => req[o].issued.user # req[r].issued.user

(* A token a client has, or is about to have, names a session of its user. *)
NamesItsSession(t) == t.sid \in Rows /\ sessions[t.sid].user = t.user

TokensNameSessions ==
    /\ \A t \in delivered : NamesItsSession(t)
    /\ \A r \in Requests : req[r].phase = "reply" => NamesItsSession(req[r].issued)

IInv ==
    /\ TypeOK
    /\ RequestsWellFormed
    /\ FreshIds
    /\ FreshUsers
    /\ TokensNameSessions
    /\ OneActiveSessionPerDevice
    /\ RowMatchesToken
    /\ CurrentTokenAccountedFor
    /\ NoOrphanSession

-----------------------------------------------------------------------------
(* Steps.  Each lemma shows that one action preserves the invariant, one   *)
(* conjunct at a time.                                                     *)

USE TimeAssumption, NoneAssumption

(* A token is made of the claims it is given and the present second. *)
LEMMA CreatedToken ==
    ASSUME TypeOK, NEW u \in Users, NEW s \in Sessions
    PROVE  /\ createRefreshToken(u, s) \in RefreshToken
           /\ createRefreshToken(u, s).user = u
           /\ createRefreshToken(u, s).sid = s
    BY DEF TypeOK, createRefreshToken, RefreshToken

(* The expiry of a token is a date. *)
LEMMA ExpiresAtNat == \A t \in RefreshToken : ExpiresAt(t) \in Nat
    BY DEF RefreshToken, Time, ExpiresAt

(* The idle handler is well typed.                                         *)
LEMMA IdleType == Idle \in RequestType
    BY DEF Idle, RequestType, Phases

(* A handler that takes a step without touching tables or clients keeps    *)
(* everything the invariant says of them alone.                            *)
LEMMA TablesUntouched ==
    ASSUME IInv, UNCHANGED <<tables, clients>>
    PROVE  OneActiveSessionPerDevice' /\ RowMatchesToken' /\ NoOrphanSession'
    BY DEF IInv, tables, clients, OneActiveSessionPerDevice, RowMatchesToken, NoOrphanSession, Rows

(* Sign-up takes ids nobody has.                                            *)
LEMMA SignUpBeginStep ==
    ASSUME IInv, NEW r \in Requests, SignUpBegin(r)
    PROVE  IInv'
<1> USE DEF IInv, SignUpBegin, tables, clients
<1>1. TypeOK'
    <2>1. PICK e \in Emails, d \in Devices, u \in Users, s \in Sessions :
            req' = [req EXCEPT ![r] = [Idle EXCEPT !.phase = "register", !.email = e,
                        !.device = d, !.issued = createRefreshToken(u, s)]]
        OBVIOUS
    <2>2. [Idle EXCEPT !.phase = "register", !.email = e, !.device = d,
                       !.issued = createRefreshToken(u, s)] \in RequestType
        BY CreatedToken DEF Idle, RequestType, Phases
    <2>3. QED
        BY <2>1, <2>2 DEF TypeOK
<1>2. RequestsWellFormed'
    BY CreatedToken DEF TypeOK, RequestsWellFormed, Idle
<1>3. FreshIds'
    BY CreatedToken DEF TypeOK, RequestsWellFormed, FreshIds, Rows, Idle, UnusedSession
<1>4. FreshUsers'
    BY CreatedToken DEF TypeOK, RequestsWellFormed, FreshUsers, Idle, UnusedUser
<1>5. TokensNameSessions'
    BY DEF TypeOK, RequestsWellFormed, TokensNameSessions, NamesItsSession, Rows, Idle
<1>6. CurrentTokenAccountedFor'
    BY DEF TypeOK, CurrentTokenAccountedFor, Rows, Idle
<1>7. OneActiveSessionPerDevice' /\ RowMatchesToken' /\ NoOrphanSession'
    BY TablesUntouched
<1>8. QED
    BY <1>1, <1>2, <1>3, <1>4, <1>5, <1>6, <1>7

(* Sign-in takes a session id nobody has, for an account that exists.       *)
LEMMA SignInBeginStep ==
    ASSUME IInv, NEW r \in Requests, SignInBegin(r)
    PROVE  IInv'
<1> USE DEF IInv, SignInBegin, findByEmail, tables, clients
<1>1. TypeOK'
    <2>1. PICK e \in Emails, d \in Devices, s \in Sessions :
            /\ accounts[e] # None
            /\ req' = [req EXCEPT ![r] = [Idle EXCEPT !.phase = "create", !.device = d,
                            !.issued = createRefreshToken(accounts[e], s)]]
        OBVIOUS
    <2>2. accounts[e] \in Users
        BY <2>1 DEF TypeOK
    <2>3. [Idle EXCEPT !.phase = "create", !.device = d,
                       !.issued = createRefreshToken(accounts[e], s)] \in RequestType
        BY <2>2, CreatedToken DEF Idle, RequestType, Phases
    <2>4. QED
        BY <2>1, <2>3 DEF TypeOK
<1>2. RequestsWellFormed'
    BY CreatedToken DEF TypeOK, RequestsWellFormed, Idle
<1>3. FreshIds'
    BY CreatedToken DEF TypeOK, RequestsWellFormed, FreshIds, Rows, Idle, UnusedSession
<1>4. FreshUsers'
    BY DEF TypeOK, RequestsWellFormed, FreshUsers, Idle
<1>5. TokensNameSessions'
    BY DEF TypeOK, RequestsWellFormed, TokensNameSessions, NamesItsSession, Rows, Idle
<1>6. CurrentTokenAccountedFor'
    BY DEF TypeOK, CurrentTokenAccountedFor, Rows, Idle
<1>7. OneActiveSessionPerDevice' /\ RowMatchesToken' /\ NoOrphanSession'
    BY TablesUntouched
<1>8. QED
    BY <1>1, <1>2, <1>3, <1>4, <1>5, <1>6, <1>7

(* A refresh reads the row its token names.                                 *)
LEMMA RefreshBeginStep ==
    ASSUME IInv, NEW r \in Requests, RefreshBegin(r)
    PROVE  IInv'
<1> USE DEF IInv, RefreshBegin, findById, tables, clients
<1>1. TypeOK'
    <2>1. PICK t \in delivered, d \in Devices :
            /\ t.sid \in Rows
            /\ req' = [req EXCEPT ![r] = [Idle EXCEPT !.phase = "read", !.device = d,
                            !.presented = t, !.snap = sessions[t.sid]]]
        BY DEF TokensNameSessions, NamesItsSession
    <2>2. t \in RefreshToken /\ sessions[t.sid] \in RowType
        BY <2>1 DEF TypeOK, Rows
    <2>3. [Idle EXCEPT !.phase = "read", !.device = d,
                       !.presented = t, !.snap = sessions[t.sid]] \in RequestType
        BY <2>2 DEF Idle, RequestType, Phases
    <2>4. QED
        BY <2>1, <2>3 DEF TypeOK
<1>2. RequestsWellFormed'
    BY DEF TypeOK, RequestsWellFormed, TokensNameSessions, NamesItsSession, Idle, Rows
<1>3. FreshIds'
    BY DEF TypeOK, RequestsWellFormed, FreshIds, Rows, Idle
<1>4. FreshUsers'
    BY DEF TypeOK, RequestsWellFormed, FreshUsers, Idle
<1>5. TokensNameSessions'
    BY DEF TypeOK, RequestsWellFormed, TokensNameSessions, NamesItsSession, Rows, Idle
<1>6. CurrentTokenAccountedFor'
    BY DEF TypeOK, CurrentTokenAccountedFor, Rows, Idle
<1>7. OneActiveSessionPerDevice' /\ RowMatchesToken' /\ NoOrphanSession'
    BY TablesUntouched
<1>8. QED
    BY <1>1, <1>2, <1>3, <1>4, <1>5, <1>6, <1>7

(* An accepted refresh makes a token of the same session and user.          *)
LEMMA RefreshIssueStep ==
    ASSUME IInv, NEW r \in Requests, RefreshIssue(r)
    PROVE  IInv'
<1> USE DEF IInv, RefreshIssue, tables, clients
<1>1. TypeOK'
    <2>1. req[r].presented \in RefreshToken
        BY DEF TypeOK, RequestsWellFormed
    <2>2. createRefreshToken(req[r].presented.user, req[r].presented.sid) \in RefreshToken
        BY <2>1, CreatedToken DEF RefreshToken
    <2>3. [req[r] EXCEPT !.phase = "rotate", !.issued =
                createRefreshToken(req[r].presented.user, req[r].presented.sid)] \in RequestType
        BY <2>2 DEF TypeOK, RequestType, Phases
    <2>4. QED
        BY <2>3 DEF TypeOK
<1>2. RequestsWellFormed'
    BY CreatedToken DEF TypeOK, RequestsWellFormed, Idle, RefreshToken
<1>3. FreshIds'
    BY DEF TypeOK, RequestsWellFormed, FreshIds, Rows, Idle
<1>4. FreshUsers'
    BY DEF TypeOK, RequestsWellFormed, FreshUsers, Idle
<1>5. TokensNameSessions'
    BY DEF TypeOK, RequestsWellFormed, TokensNameSessions, NamesItsSession, Rows, Idle
<1>6. CurrentTokenAccountedFor'
    BY DEF TypeOK, CurrentTokenAccountedFor, Rows, Idle
<1>7. OneActiveSessionPerDevice' /\ RowMatchesToken' /\ NoOrphanSession'
    BY TablesUntouched
<1>8. QED
    BY <1>1, <1>2, <1>3, <1>4, <1>5, <1>6, <1>7

(* A rejected refresh leaves nothing behind.                                *)
LEMMA RefreshRejectStep ==
    ASSUME IInv, NEW r \in Requests, RefreshReject(r)
    PROVE  IInv'
<1> USE DEF IInv, RefreshReject, tables, clients
<1>1. TypeOK'
    BY IdleType DEF TypeOK
<1>2. RequestsWellFormed'
    BY DEF TypeOK, RequestsWellFormed, Idle
<1>3. FreshIds'
    BY DEF TypeOK, RequestsWellFormed, FreshIds, Rows, Idle
<1>4. FreshUsers'
    BY DEF TypeOK, RequestsWellFormed, FreshUsers, Idle
<1>5. TokensNameSessions'
    BY DEF TypeOK, RequestsWellFormed, TokensNameSessions, NamesItsSession, Rows, Idle
<1>6. CurrentTokenAccountedFor'
    BY DEF TypeOK, CurrentTokenAccountedFor, Rows, Idle
<1>7. OneActiveSessionPerDevice' /\ RowMatchesToken' /\ NoOrphanSession'
    BY TablesUntouched
<1>8. QED
    BY <1>1, <1>2, <1>3, <1>4, <1>5, <1>6, <1>7

(* Nor does a handler that is cut short.                                    *)
LEMMA AbandonStep ==
    ASSUME IInv, NEW r \in Requests, Abandon(r)
    PROVE  IInv'
<1> USE DEF IInv, Abandon, tables, clients
<1>1. TypeOK'
    BY IdleType DEF TypeOK
<1>2. RequestsWellFormed'
    BY DEF TypeOK, RequestsWellFormed, Idle
<1>3. FreshIds'
    BY DEF TypeOK, RequestsWellFormed, FreshIds, Rows, Idle
<1>4. FreshUsers'
    BY DEF TypeOK, RequestsWellFormed, FreshUsers, Idle
<1>5. TokensNameSessions'
    BY DEF TypeOK, RequestsWellFormed, TokensNameSessions, NamesItsSession, Rows, Idle
<1>6. CurrentTokenAccountedFor'
    BY DEF TypeOK, CurrentTokenAccountedFor, Rows, Idle
<1>7. OneActiveSessionPerDevice' /\ RowMatchesToken' /\ NoOrphanSession'
    BY TablesUntouched
<1>8. QED
    BY <1>1, <1>2, <1>3, <1>4, <1>5, <1>6, <1>7

(* A sign-out reads the row its token names.                                *)
LEMMA SignOutBeginStep ==
    ASSUME IInv, NEW r \in Requests, SignOutBegin(r)
    PROVE  IInv'
<1> USE DEF IInv, SignOutBegin, findById, tables, clients
<1>1. TypeOK'
    <2>1. PICK t \in delivered, d \in Devices :
            req' = [req EXCEPT ![r] = [Idle EXCEPT !.phase = "revoke", !.device = d,
                                                   !.presented = t]]
        OBVIOUS
    <2>2. t \in RefreshToken
        BY DEF TypeOK
    <2>3. [Idle EXCEPT !.phase = "revoke", !.device = d, !.presented = t] \in RequestType
        BY <2>2 DEF Idle, RequestType, Phases
    <2>4. QED
        BY <2>1, <2>3 DEF TypeOK
<1>2. RequestsWellFormed'
    BY DEF TypeOK, RequestsWellFormed, Idle
<1>3. FreshIds'
    BY DEF TypeOK, RequestsWellFormed, FreshIds, Rows, Idle
<1>4. FreshUsers'
    BY DEF TypeOK, RequestsWellFormed, FreshUsers, Idle
<1>5. TokensNameSessions'
    BY DEF TypeOK, RequestsWellFormed, TokensNameSessions, NamesItsSession, Rows, Idle
<1>6. CurrentTokenAccountedFor'
    BY DEF TypeOK, CurrentTokenAccountedFor, Rows, Idle
<1>7. OneActiveSessionPerDevice' /\ RowMatchesToken' /\ NoOrphanSession'
    BY TablesUntouched
<1>8. QED
    BY <1>1, <1>2, <1>3, <1>4, <1>5, <1>6, <1>7

(* The response reaches the client: its token is the client's now. *)
LEMMA RespondStep ==
    ASSUME IInv, NEW r \in Requests, Respond(r)
    PROVE  IInv'
<1> USE DEF IInv, Respond, tables
<1>1. TypeOK'
    BY IdleType DEF TypeOK, RequestsWellFormed
<1>2. RequestsWellFormed'
    BY DEF TypeOK, RequestsWellFormed, Idle
<1>3. FreshIds'
    BY DEF TypeOK, RequestsWellFormed, FreshIds, Rows, Idle
<1>4. FreshUsers'
    BY DEF TypeOK, RequestsWellFormed, FreshUsers, Idle
<1>5. TokensNameSessions'
    BY DEF TypeOK, RequestsWellFormed, TokensNameSessions, NamesItsSession, Rows, Idle
<1>6. OneActiveSessionPerDevice' /\ RowMatchesToken'
    BY DEF OneActiveSessionPerDevice, RowMatchesToken, Rows
<1>7. CurrentTokenAccountedFor'
    BY DEF TypeOK, CurrentTokenAccountedFor, Rows, Idle
<1>8. NoOrphanSession'
    BY DEF NoOrphanSession, TokensNameSessions, NamesItsSession, Rows
<1>9. QED
    BY <1>1, <1>2, <1>3, <1>4, <1>5, <1>6, <1>7, <1>8

(* The response is lost: its token is accounted for as such. *)
LEMMA LoseResponseStep ==
    ASSUME IInv, NEW r \in Requests, LoseResponse(r)
    PROVE  IInv'
<1> USE DEF IInv, LoseResponse, tables
<1>1. TypeOK'
    BY IdleType DEF TypeOK, RequestsWellFormed
<1>2. RequestsWellFormed'
    BY DEF TypeOK, RequestsWellFormed, Idle
<1>3. FreshIds'
    BY DEF TypeOK, RequestsWellFormed, FreshIds, Rows, Idle
<1>4. FreshUsers'
    BY DEF TypeOK, RequestsWellFormed, FreshUsers, Idle
<1>5. TokensNameSessions'
    BY DEF TypeOK, RequestsWellFormed, TokensNameSessions, NamesItsSession, Rows, Idle
<1>6. OneActiveSessionPerDevice' /\ RowMatchesToken'
    BY DEF OneActiveSessionPerDevice, RowMatchesToken, Rows
<1>7. CurrentTokenAccountedFor'
    BY DEF TypeOK, CurrentTokenAccountedFor, Rows, Idle
<1>8. NoOrphanSession'
    BY DEF NoOrphanSession, Rows
<1>9. QED
    BY <1>1, <1>2, <1>3, <1>4, <1>5, <1>6, <1>7, <1>8

(* A sign-out revokes a session that a client's token names. *)
LEMMA SignOutRevokeStep ==
    ASSUME IInv, NEW r \in Requests, SignOutRevoke(r)
    PROVE  IInv'
<1> USE DEF IInv, SignOutRevoke, clients
<1> DEFINE sid == req[r].presented.sid
<1>1. sid \in Rows /\ sid \in Sessions
    BY DEF RequestsWellFormed, TokensNameSessions, NamesItsSession, Rows
<1>2. /\ sessions[sid] \in RowType
      /\ sessions' = [sessions EXCEPT ![sid] = [sessions[sid] EXCEPT !.revoked = TRUE]]
    BY <1>1 DEF TypeOK, Rows
<1>3. [sessions[sid] EXCEPT !.revoked = TRUE] \in RowType
    BY <1>2 DEF RowType
<1> HIDE DEF sid
<1>4. TypeOK'
    BY <1>2, <1>3, IdleType DEF TypeOK
<1>5. Rows' = Rows
    BY <1>1, <1>2, <1>3 DEF TypeOK, Rows
<1>6. \A s \in Rows : /\ sessions'[s].user = sessions[s].user
                      /\ sessions'[s].device = sessions[s].device
                      /\ sessions'[s].token = sessions[s].token
                      /\ sessions'[s].expiresAt = sessions[s].expiresAt
                      /\ ~sessions'[s].revoked => ~sessions[s].revoked
    BY <1>1, <1>2 DEF TypeOK, Rows, RowType
<1>7. RequestsWellFormed' /\ FreshIds' /\ FreshUsers'
    BY <1>5 DEF TypeOK, RequestsWellFormed, FreshIds, FreshUsers, Idle
<1>8. TokensNameSessions'
    BY <1>5, <1>6 DEF TypeOK, RequestsWellFormed, TokensNameSessions, NamesItsSession, Idle
<1>9. OneActiveSessionPerDevice' /\ RowMatchesToken' /\ NoOrphanSession'
    BY <1>5, <1>6 DEF OneActiveSessionPerDevice, RowMatchesToken, NoOrphanSession
<1>10. CurrentTokenAccountedFor'
    BY <1>5, <1>6 DEF TypeOK, CurrentTokenAccountedFor, Idle
<1>11. QED
    BY <1>4, <1>7, <1>8, <1>9, <1>10

(* A new row is well typed and holds what the token says. *)
LEMMA NewRowType ==
    ASSUME NEW t \in RefreshToken, NEW d \in Devices
    PROVE  /\ NewRow(t, d) \in RowType
           /\ NewRow(t, d) # None
           /\ NewRow(t, d).user = t.user /\ NewRow(t, d).device = d
           /\ NewRow(t, d).token = t /\ NewRow(t, d).expiresAt = ExpiresAt(t)
           /\ ~NewRow(t, d).revoked
<1>1. ExpiresAt(t) \in Nat /\ t.user \in Users
    BY ExpiresAtNat DEF RefreshToken
<1> HIDE DEF RefreshToken
<1>2. NewRow(t, d) \in RowType
    BY <1>1 DEF NewRow, RowType
<1>3. QED
    BY <1>2 DEF NewRow

(* A sign-up that finds its e-mail free adds an account and its first      *)
(* session, and one that does not adds nothing.                            *)
LEMMA SignUpRegisterStep ==
    ASSUME IInv, NEW r \in Requests, SignUpRegister(r)
    PROVE  IInv'
<1> USE DEF IInv, SignUpRegister, clients
<1> DEFINE t == req[r].issued
           e == req[r].email
           d == req[r].device
<1>1. t \in RefreshToken /\ e \in Emails /\ d \in Devices /\ t.sid \in Sessions /\ t.user \in Users
    BY DEF RequestsWellFormed, RefreshToken
<1>2. t.sid \notin Rows /\ \A o \in Rows : sessions[o].user # t.user
    BY DEF FreshIds, FreshUsers, NoOrphanSession
<1>3. CASE accounts[e] = None
    <2>1. /\ accounts' = [accounts EXCEPT ![e] = t.user]
          /\ sessions' = [sessions EXCEPT ![t.sid] = NewRow(t, d)]
          /\ req' = [req EXCEPT ![r].phase = "reply"]
        BY <1>3
    <2>2. /\ NewRow(t, d) \in RowType /\ NewRow(t, d) # None
          /\ NewRow(t, d).user = t.user /\ NewRow(t, d).device = d
          /\ NewRow(t, d).token = t /\ NewRow(t, d).expiresAt = ExpiresAt(t)
        BY <1>1, NewRowType
    <2>3. [req[r] EXCEPT !.phase = "reply"] \in RequestType
        BY DEF TypeOK, RequestType, Phases
    <2>4. TypeOK'
        BY <1>1, <2>1, <2>2, <2>3 DEF TypeOK
    <2>5. /\ Rows' = Rows \cup {t.sid}
          /\ sessions'[t.sid] = NewRow(t, d)
          /\ \A s \in Rows : sessions'[s] = sessions[s]
        BY <1>1, <1>2, <2>1, <2>2 DEF TypeOK, Rows
    <2>6. /\ req'[r].phase = "reply" /\ req'[r].issued = t
          /\ \A o \in Requests \ {r} : req'[o] = req[o]
        BY <2>1 DEF TypeOK
    <2>7. \A x \in Emails : accounts'[x] = IF x = e THEN t.user ELSE accounts[x]
        BY <2>1 DEF TypeOK
    <2> HIDE DEF t, e, d
    <2>8. RequestsWellFormed'
        <3>1. \A u : u # None /\ (\E x \in Emails : accounts[x] = u)
                   => \E x \in Emails : accounts'[x] = u
            BY <1>3, <2>7
        <3>2. \A o \in Requests : req[o].phase = "create" => req[o].issued.user # None
            BY DEF RequestsWellFormed, RefreshToken
        <3>3. \A o \in Requests : req'[o].phase = "create" =>
                    \E x \in Emails : accounts'[x] = req'[o].issued.user
            <4> SUFFICES ASSUME NEW o \in Requests, req'[o].phase = "create"
                         PROVE  \E x \in Emails : accounts'[x] = req'[o].issued.user
                OBVIOUS
            <4>1. req'[o] = req[o]
                BY <2>6
            <4>2. /\ req[o].issued.user # None
                  /\ \E x \in Emails : accounts[x] = req[o].issued.user
                BY <3>2, <4>1 DEF RequestsWellFormed
            <4>3. QED
                BY <3>1, <4>1, <4>2
        <3>4. QED
            BY <1>1, <2>6, <3>3 DEF RequestsWellFormed
    <2>9. FreshIds'
        BY <2>5, <2>6 DEF FreshIds, t
    <2>10. FreshUsers'
        BY <2>6, <2>7 DEF FreshUsers, t
    <2>11. TokensNameSessions'
        BY <2>2, <2>5, <2>6 DEF TokensNameSessions, NamesItsSession
    <2>12. OneActiveSessionPerDevice'
        BY <1>2, <2>2, <2>5 DEF OneActiveSessionPerDevice
    <2>13. RowMatchesToken'
        BY <2>2, <2>5 DEF RowMatchesToken
    <2>14. CurrentTokenAccountedFor'
        BY <2>2, <2>5, <2>6 DEF CurrentTokenAccountedFor
    <2>15. NoOrphanSession'
        <3>1. \A u \in Users : (\E x \in Emails : accounts[x] = u)
                             => \E x \in Emails : accounts'[x] = u
            BY <1>3, <2>7
        <3>2. \A s \in Rows : sessions[s].user \in Users
            BY DEF TypeOK, Rows, RowType
        <3>3. \A c \in delivered : c.user \in Users
            BY DEF TypeOK, RefreshToken
        <3>4. \E x \in Emails : accounts'[x] = t.user
            BY <1>1, <2>7
        <3>5. QED
            BY <2>2, <2>5, <3>1, <3>2, <3>3, <3>4 DEF NoOrphanSession
    <2>16. QED
        BY <2>4, <2>8, <2>9, <2>10, <2>11, <2>12, <2>13, <2>14, <2>15
<1>4. CASE accounts[e] # None
    <2>1. UNCHANGED <<now, tables, clients>> /\ req' = [req EXCEPT ![r] = Idle]
        BY <1>4
    <2>2. TypeOK'
        BY <2>1, IdleType DEF TypeOK, tables
    <2>3. RequestsWellFormed' /\ FreshIds' /\ FreshUsers'
        BY <2>1 DEF TypeOK, RequestsWellFormed, FreshIds, FreshUsers, Rows, Idle, tables
    <2>4. TokensNameSessions' /\ CurrentTokenAccountedFor'
        BY <2>1 DEF TypeOK, TokensNameSessions, NamesItsSession, CurrentTokenAccountedFor, Rows,
                    Idle, tables
    <2>5. QED
        BY <2>1, <2>2, <2>3, <2>4, TablesUntouched
<1>5. QED
    BY <1>3, <1>4

(* Revoking the expired sessions of a device changes no other column. *)
LEMMA RevokeExpiredRows ==
    ASSUME TypeOK, NEW u, NEW d
    PROVE  LET table == RevokeExpired(u, d)
           IN /\ table \in [Sessions -> RowType \cup {None}]
              /\ \A s \in Sessions : table[s] # None <=> s \in Rows
              /\ \A s \in Rows : /\ table[s].user = sessions[s].user
                                 /\ table[s].device = sessions[s].device
                                 /\ table[s].token = sessions[s].token
                                 /\ table[s].expiresAt = sessions[s].expiresAt
                                 /\ ~table[s].revoked => ~sessions[s].revoked
<1> DEFINE revoked(s) == [sessions[s] EXCEPT !.revoked = TRUE]
<1>1. \A s \in Rows : sessions[s] \in RowType
    BY DEF TypeOK, Rows
<1>2. \A s \in Rows : /\ revoked(s) \in RowType
                      /\ revoked(s).user = sessions[s].user
                      /\ revoked(s).device = sessions[s].device
                      /\ revoked(s).token = sessions[s].token
                      /\ revoked(s).expiresAt = sessions[s].expiresAt
                      /\ revoked(s).revoked
    BY <1>1 DEF RowType
<1> HIDE DEF revoked
<1>3. RevokeExpired(u, d) =
        [s \in Sessions |->
            IF s \in Rows /\ sessions[s].user = u /\ sessions[s].device = d
               /\ sessions[s].expiresAt <= now
            THEN revoked(s) ELSE sessions[s]]
    BY DEF RevokeExpired, revoked
<1>4. QED
    BY <1>1, <1>2, <1>3 DEF TypeOK, Rows

(* A sign-in adds a session unless an active one is in its way. *)
LEMMA SignInCreateStep ==
    ASSUME IInv, NEW r \in Requests, SignInCreate(r)
    PROVE  IInv'
<1> USE DEF IInv, SignInCreate, clients
<1> DEFINE t == req[r].issued
           d == req[r].device
           table == RevokeExpired(t.user, d)
<1>1. t \in RefreshToken /\ d \in Devices /\ t.sid \in Sessions /\ t.sid \notin Rows
    BY DEF RequestsWellFormed, FreshIds, RefreshToken
<1>2. CASE ~ActiveIndexConflict(t.sid, t.user, d, table)
    <2>1. /\ sessions' = [table EXCEPT ![t.sid] = NewRow(t, d)]
          /\ req' = [req EXCEPT ![r].phase = "reply"]
        BY <1>2
    <2>2. /\ NewRow(t, d) \in RowType /\ NewRow(t, d) # None
          /\ NewRow(t, d).user = t.user /\ NewRow(t, d).device = d
          /\ NewRow(t, d).token = t /\ NewRow(t, d).expiresAt = ExpiresAt(t)
        BY <1>1, NewRowType
    <2>3. /\ table \in [Sessions -> RowType \cup {None}]
          /\ \A s \in Sessions : table[s] # None <=> s \in Rows
          /\ \A s \in Rows : /\ table[s].user = sessions[s].user
                             /\ table[s].device = sessions[s].device
                             /\ table[s].token = sessions[s].token
                             /\ table[s].expiresAt = sessions[s].expiresAt
                             /\ ~table[s].revoked => ~sessions[s].revoked
        BY RevokeExpiredRows
    <2>4. \A s \in Rows : ~(table[s].user = t.user /\ table[s].device = d /\ ~table[s].revoked)
        BY <1>1, <1>2, <2>3 DEF ActiveIndexConflict, Rows
    <2>5. [req[r] EXCEPT !.phase = "reply"] \in RequestType
        BY DEF TypeOK, RequestType, Phases
    <2>6. \E e \in Emails : accounts[e] = t.user
        BY DEF RequestsWellFormed
    <2> HIDE DEF table
    <2>7. TypeOK'
        BY <1>1, <2>1, <2>2, <2>3, <2>5 DEF TypeOK
    <2>8. /\ Rows' = Rows \cup {t.sid}
          /\ sessions'[t.sid] = NewRow(t, d)
          /\ \A s \in Rows : sessions'[s] = table[s]
        BY <1>1, <2>1, <2>2, <2>3 DEF Rows
    <2>9. /\ req'[r].phase = "reply" /\ req'[r].issued = t
          /\ \A o \in Requests \ {r} : req'[o] = req[o]
        BY <2>1 DEF TypeOK
    <2> HIDE DEF t, d
    <2>10. RequestsWellFormed'
        BY <1>1, <2>9 DEF RequestsWellFormed
    <2>11. FreshIds' /\ FreshUsers'
        BY <2>8, <2>9 DEF FreshIds, FreshUsers, t
    <2>12. TokensNameSessions'
        BY <2>2, <2>3, <2>8, <2>9 DEF TokensNameSessions, NamesItsSession
    <2>13. OneActiveSessionPerDevice'
        BY <2>2, <2>3, <2>4, <2>8 DEF OneActiveSessionPerDevice
    <2>14. RowMatchesToken'
        BY <2>2, <2>3, <2>8 DEF RowMatchesToken
    <2>15. CurrentTokenAccountedFor'
        BY <2>2, <2>3, <2>8, <2>9 DEF CurrentTokenAccountedFor
    <2>16. NoOrphanSession'
        BY <2>2, <2>3, <2>6, <2>8 DEF NoOrphanSession
    <2>17. QED
        BY <2>7, <2>10, <2>11, <2>12, <2>13, <2>14, <2>15, <2>16
<1>3. CASE ActiveIndexConflict(t.sid, t.user, d, table)
    <2>1. UNCHANGED <<now, tables, clients>> /\ req' = [req EXCEPT ![r] = Idle]
        BY <1>3 DEF tables
    <2> HIDE DEF t, d, table
    <2>2. TypeOK'
        BY <2>1, IdleType DEF TypeOK, tables
    <2>3. RequestsWellFormed' /\ FreshIds' /\ FreshUsers'
        BY <2>1 DEF TypeOK, RequestsWellFormed, FreshIds, FreshUsers, Rows, Idle, tables
    <2>4. TokensNameSessions' /\ CurrentTokenAccountedFor'
        BY <2>1 DEF TypeOK, TokensNameSessions, NamesItsSession, CurrentTokenAccountedFor, Rows,
                    Idle, tables
    <2>5. QED
        BY <2>1, <2>2, <2>3, <2>4, TablesUntouched
<1>4. QED
    BY <1>2, <1>3

(* A rotation rewrites its row, unless it would be a second active one. *)
LEMMA RefreshRotateStep ==
    ASSUME IInv, NEW r \in Requests, RefreshRotate(r)
    PROVE  IInv'
<1> USE DEF IInv, RefreshRotate, clients
<1> DEFINE t == req[r].issued
           row == sessions[t.sid]
           rotated == [row EXCEPT !.token = t, !.expiresAt = ExpiresAt(t), !.revoked = FALSE]
<1>1. t \in RefreshToken /\ t.sid \in Rows /\ t.sid \in Sessions /\ row.user = t.user
    BY DEF RequestsWellFormed, TokensNameSessions, NamesItsSession, RefreshToken
<1>2. CASE ~ActiveIndexConflict(t.sid, row.user, row.device, sessions)
    <2>1. /\ sessions' = [sessions EXCEPT ![t.sid] = rotated]
          /\ req' = [req EXCEPT ![r].phase = "reply"]
        BY <1>2
    <2>2. row \in RowType
        BY <1>1 DEF TypeOK, Rows
    <2>3. /\ rotated \in RowType
          /\ rotated.user = t.user /\ rotated.device = row.device
          /\ rotated.token = t /\ rotated.expiresAt = ExpiresAt(t)
        BY <1>1, <2>2, ExpiresAtNat DEF RowType
    <2>4. \A s \in Rows \ {t.sid} :
            ~(sessions[s].user = row.user /\ sessions[s].device = row.device /\ ~sessions[s].revoked)
        BY <1>2 DEF ActiveIndexConflict, Rows
    <2>5. [req[r] EXCEPT !.phase = "reply"] \in RequestType
        BY DEF TypeOK, RequestType, Phases
    <2> HIDE DEF rotated
    <2>6. TypeOK'
        BY <1>1, <2>1, <2>3, <2>5 DEF TypeOK
    <2>7. /\ Rows' = Rows
          /\ sessions'[t.sid] = rotated
          /\ \A s \in Rows \ {t.sid} : sessions'[s] = sessions[s]
        BY <1>1, <2>1, <2>3 DEF TypeOK, Rows
    <2>8. /\ req'[r].phase = "reply" /\ req'[r].issued = t
          /\ \A o \in Requests \ {r} : req'[o] = req[o]
        BY <2>1 DEF TypeOK
    <2>9. \E e \in Emails : accounts[e] = t.user
        BY <1>1 DEF NoOrphanSession
    <2>10. RequestsWellFormed'
        BY <1>1, <2>8 DEF RequestsWellFormed
    <2>11. FreshIds' /\ FreshUsers'
        BY <2>7, <2>8 DEF FreshIds, FreshUsers
    <2> HIDE DEF t, row
    <2>12. TokensNameSessions'
        BY <1>1, <2>3, <2>7, <2>8 DEF TokensNameSessions, NamesItsSession, row
    <2>13. OneActiveSessionPerDevice'
        BY <1>1, <2>3, <2>4, <2>7 DEF OneActiveSessionPerDevice
    <2>14. RowMatchesToken'
        BY <1>1, <2>3, <2>7 DEF RowMatchesToken
    <2>15. CurrentTokenAccountedFor'
        BY <1>1, <2>3, <2>7, <2>8 DEF CurrentTokenAccountedFor
    <2>16. NoOrphanSession'
        BY <2>3, <2>7, <2>9 DEF NoOrphanSession
    <2>17. QED
        BY <2>6, <2>10, <2>11, <2>12, <2>13, <2>14, <2>15, <2>16
<1>3. CASE ActiveIndexConflict(t.sid, row.user, row.device, sessions)
    <2>1. UNCHANGED <<now, tables, clients>> /\ req' = [req EXCEPT ![r] = Idle]
        BY <1>3 DEF tables
    <2> HIDE DEF t, row, rotated
    <2>2. TypeOK'
        BY <2>1, IdleType DEF TypeOK, tables
    <2>3. RequestsWellFormed' /\ FreshIds' /\ FreshUsers'
        BY <2>1 DEF TypeOK, RequestsWellFormed, FreshIds, FreshUsers, Rows, Idle, tables
    <2>4. TokensNameSessions' /\ CurrentTokenAccountedFor'
        BY <2>1 DEF TypeOK, TokensNameSessions, NamesItsSession, CurrentTokenAccountedFor, Rows,
                    Idle, tables
    <2>5. QED
        BY <2>1, <2>2, <2>3, <2>4, TablesUntouched
<1>4. QED
    BY <1>2, <1>3

(* The clock touches nothing but itself. *)
LEMMA TickStep == ASSUME IInv, Tick PROVE IInv'
<1> USE DEF IInv, Tick, tables, clients
<1>1. TypeOK'
    BY DEF TypeOK, Time
<1>2. RequestsWellFormed' /\ FreshIds' /\ FreshUsers'
    BY DEF RequestsWellFormed, FreshIds, FreshUsers, Rows
<1>3. TokensNameSessions' /\ CurrentTokenAccountedFor'
    BY DEF TokensNameSessions, NamesItsSession, CurrentTokenAccountedFor, Rows
<1>4. QED
    BY <1>1, <1>2, <1>3, TablesUntouched

(* A step that changes nothing preserves the invariant.                    *)
LEMMA StutterStep == ASSUME IInv, UNCHANGED vars PROVE IInv'
<1> USE DEF IInv, vars
<1>1. TypeOK'
    BY DEF TypeOK
<1>2. RequestsWellFormed' /\ FreshIds' /\ FreshUsers'
    BY DEF RequestsWellFormed, FreshIds, FreshUsers, Rows
<1>3. TokensNameSessions' /\ CurrentTokenAccountedFor'
    BY DEF TokensNameSessions, NamesItsSession, CurrentTokenAccountedFor, Rows
<1>4. QED
    BY <1>1, <1>2, <1>3, TablesUntouched DEF tables, clients

(* The empty database satisfies the invariant.                             *)
LEMMA InitIInv == Init => IInv
<1> SUFFICES ASSUME Init PROVE IInv
    OBVIOUS
<1> USE DEF Init
<1>1. TypeOK
    BY IdleType DEF TypeOK, Time
<1>2. Rows = {} /\ \A r \in Requests : req[r].phase = "idle"
    BY DEF Rows, Idle
<1>3. QED
    BY <1>1, <1>2 DEF IInv, RequestsWellFormed, FreshIds, FreshUsers, TokensNameSessions,
        OneActiveSessionPerDevice, RowMatchesToken, CurrentTokenAccountedFor, NoOrphanSession

(* Every step preserves the invariant: one case per action.                *)
LEMMA NextIInv == IInv /\ [Next]_vars => IInv'
<1> SUFFICES ASSUME IInv, [Next]_vars PROVE IInv'
    OBVIOUS
<1>1. CASE Tick
    BY <1>1, TickStep
<1>2. ASSUME NEW r \in Requests, Handle(r) PROVE IInv'
    BY <1>2, SignUpBeginStep, SignUpRegisterStep, SignInBeginStep, SignInCreateStep,
       RefreshBeginStep, RefreshIssueStep, RefreshRejectStep, RefreshRotateStep,
       SignOutBeginStep, SignOutRevokeStep, RespondStep, LoseResponseStep, AbandonStep
       DEF Handle
<1>3. CASE UNCHANGED vars
    BY <1>3, StutterStep
<1>4. QED
    BY <1>1, <1>2, <1>3 DEF Next

-----------------------------------------------------------------------------
(* What one step may do to a row and to a handler *)

(* A row never disappears.  It is left alone, revoked because it expired,  *)
(* revoked by a sign-out that named it, or rewritten by its rotation.      *)
LEMMA RowChanges ==
    ASSUME IInv, [Next]_vars, NEW s \in Rows
    PROVE  /\ s \in Rows'
           /\ \/ sessions'[s] = sessions[s]
              \/ /\ sessions'[s].revoked /\ sessions'[s].token = sessions[s].token
                 /\ \/ sessions[s].expiresAt <= now
                    \/ \E r \in Requests : /\ req[r].phase = "revoke"
                                           /\ req[r].presented.sid = s
                                           /\ req'[r] = Idle
              \/ \E r \in Requests :
                    /\ req[r].phase = "rotate"
                    /\ req[r].issued.sid = s
                    /\ sessions'[s].token = req[r].issued
                    /\ ~sessions'[s].revoked
<1> USE DEF IInv
<1>1. s \in Sessions /\ sessions[s] \in RowType /\ sessions[s] # None
    BY DEF Rows, TypeOK
<1>2. sessions' = sessions => s \in Rows' /\ sessions'[s] = sessions[s]
    BY DEF Rows
<1>3. /\ [sessions[s] EXCEPT !.revoked = TRUE] \in RowType
      /\ \A t \in RefreshToken :
            [sessions[s] EXCEPT !.token = t, !.expiresAt = ExpiresAt(t), !.revoked = FALSE] \in RowType
    BY <1>1, ExpiresAtNat DEF RowType
<1>4. /\ [sessions[s] EXCEPT !.revoked = TRUE].token = sessions[s].token
      /\ [sessions[s] EXCEPT !.revoked = TRUE].revoked
      /\ \A t \in RefreshToken :
            LET row == [sessions[s] EXCEPT !.token = t, !.expiresAt = ExpiresAt(t), !.revoked = FALSE]
            IN row.token = t /\ ~row.revoked
    BY <1>1 DEF RowType
<1>5. ASSUME NEW r \in Requests, SignUpRegister(r)
      PROVE  s \in Rows' /\ sessions'[s] = sessions[s]
    <2>1. req[r].issued.sid # s
        BY <1>5 DEF SignUpRegister, FreshIds
    <2>2. QED
        BY <1>1, <1>5, <2>1 DEF SignUpRegister, tables, Rows, TypeOK
<1>6. ASSUME NEW r \in Requests, SignInCreate(r)
      PROVE  /\ s \in Rows'
             /\ \/ sessions'[s] = sessions[s]
                \/ /\ sessions'[s].revoked /\ sessions'[s].token = sessions[s].token
                   /\ sessions[s].expiresAt <= now
    <2> DEFINE table == RevokeExpired(req[r].issued.user, req[r].device)
    <2>1. req[r].issued.sid # s
        BY <1>6 DEF SignInCreate, FreshIds
    <2>2. \/ table[s] = sessions[s]
          \/ /\ table[s] = [sessions[s] EXCEPT !.revoked = TRUE]
             /\ sessions[s].expiresAt <= now
        BY <1>1 DEF RevokeExpired
    <2>3. DOMAIN table = Sessions
        BY DEF RevokeExpired
    <2>4. sessions' = sessions \/ sessions'[s] = table[s]
        BY <1>1, <1>6, <2>1, <2>3 DEF SignInCreate
    <2> HIDE DEF table
    <2>5. QED
        BY <1>1, <1>2, <1>3, <1>4, <2>2, <2>4 DEF Rows
<1>7. ASSUME NEW r \in Requests, RefreshRotate(r)
      PROVE  /\ s \in Rows'
             /\ \/ sessions'[s] = sessions[s]
                \/ /\ req[r].phase = "rotate"
                   /\ req[r].issued.sid = s
                   /\ sessions'[s].token = req[r].issued
                   /\ ~sessions'[s].revoked
    <2> DEFINE t == req[r].issued
               rotated == [sessions[t.sid] EXCEPT !.token = t, !.expiresAt = ExpiresAt(t),
                                                  !.revoked = FALSE]
    <2>1. req[r].phase = "rotate" /\ t \in RefreshToken
        BY <1>7 DEF RefreshRotate, RequestsWellFormed
    <2>2. sessions' = sessions \/ sessions' = [sessions EXCEPT ![t.sid] = rotated]
        BY <1>7 DEF RefreshRotate
    <2> HIDE DEF rotated
    <2>3. \/ sessions'[s] = sessions[s]
          \/ t.sid = s /\ sessions'[s] = rotated
        BY <1>1, <2>2 DEF TypeOK
    <2>4. t.sid = s => /\ rotated \in RowType /\ rotated.token = t /\ ~rotated.revoked
        BY <1>3, <1>4, <2>1 DEF rotated
    <2> HIDE DEF t
    <2>5. s \in Rows'
        BY <1>1, <1>3, <2>3, <2>4 DEF Rows
    <2>6. QED
        BY <2>1, <2>3, <2>4, <2>5 DEF t
<1>8. ASSUME NEW r \in Requests, SignOutRevoke(r)
      PROVE  /\ s \in Rows'
             /\ \/ sessions'[s] = sessions[s]
                \/ /\ sessions'[s].revoked /\ sessions'[s].token = sessions[s].token
                   /\ req[r].phase = "revoke"
                   /\ req[r].presented.sid = s
                   /\ req'[r] = Idle
    <2>1. /\ sessions' = [sessions EXCEPT ![req[r].presented.sid] =
                                [sessions[req[r].presented.sid] EXCEPT !.revoked = TRUE]]
          /\ req[r].phase = "revoke" /\ req'[r] = Idle
        BY <1>8 DEF SignOutRevoke, TypeOK
    <2>2. \/ sessions'[s] = sessions[s]
          \/ /\ req[r].presented.sid = s
             /\ sessions'[s] = [sessions[s] EXCEPT !.revoked = TRUE]
        BY <1>1, <2>1 DEF TypeOK
    <2>3. QED
        BY <1>1, <1>3, <1>4, <2>1, <2>2 DEF Rows
<1>9. ASSUME NEW r \in Requests,
             \/ SignUpBegin(r) \/ SignInBegin(r) \/ RefreshBegin(r) \/ RefreshIssue(r)
             \/ RefreshReject(r) \/ SignOutBegin(r) \/ Respond(r) \/ LoseResponse(r)
             \/ Abandon(r)
      PROVE  sessions' = sessions
    BY <1>9 DEF SignUpBegin, SignInBegin, RefreshBegin, RefreshIssue, RefreshReject,
                SignOutBegin, Respond, LoseResponse, Abandon, tables
<1>10. Tick \/ UNCHANGED vars => sessions' = sessions
    BY DEF Tick, tables, vars
<1>11. QED
    BY <1>2, <1>5, <1>6, <1>7, <1>8, <1>9, <1>10 DEF Next, Handle

(* A handler is in the middle of a refresh after a step because it was     *)
(* before, because it has just read the row, or because its snapshot has   *)
(* just been accepted.                                                     *)
LEMMA RefreshChanges ==
    ASSUME IInv, [Next]_vars, NEW r \in Requests, req'[r].phase \in {"read", "rotate"}
    PROVE  \/ req'[r] = req[r]
           \/ /\ req'[r].phase = "read"
              /\ req'[r].presented.sid \in Rows
              /\ req'[r].snap = sessions[req'[r].presented.sid]
           \/ /\ req[r].phase = "read" /\ req'[r].phase = "rotate"
              /\ req'[r].presented = req[r].presented
              /\ req'[r].issued.sid = req[r].presented.sid
              /\ req'[r].issued.iat = now
              /\ req[r].snap.token = req[r].presented
              /\ ~req[r].snap.revoked
<1> USE DEF IInv
<1>1. ASSUME NEW o \in Requests, Handle(o), o # r
      PROVE  req'[r] = req[r]
    BY <1>1 DEF TypeOK, Handle, SignUpBegin, SignUpRegister, SignInBegin, SignInCreate,
        RefreshBegin, RefreshIssue, RefreshReject, RefreshRotate, SignOutBegin, SignOutRevoke,
        Respond, LoseResponse, Abandon
<1>2. CASE RefreshBegin(r)
    BY <1>2 DEF RefreshBegin, findById, TypeOK, TokensNameSessions, NamesItsSession, Idle
<1>3. CASE RefreshIssue(r)
    <2>1. req[r] \in RequestType /\ req[r].phase = "read"
        BY <1>3 DEF RefreshIssue, TypeOK
    <2>2. req[r].snap.token = req[r].presented /\ ~req[r].snap.revoked
        BY <1>3 DEF RefreshIssue, canBeRefreshedWith, matchesUsageAttempt, isActiveAt
    <2>3. req'[r] = [req[r] EXCEPT !.phase = "rotate",
                        !.issued = createRefreshToken(req[r].presented.user, req[r].presented.sid)]
        BY <1>3 DEF RefreshIssue, TypeOK
    <2>4. /\ req'[r].phase = "rotate" /\ req'[r].presented = req[r].presented
          /\ req'[r].issued = createRefreshToken(req[r].presented.user, req[r].presented.sid)
        BY <2>1, <2>3 DEF RequestType
    <2>5. QED
        BY <2>1, <2>2, <2>4 DEF createRefreshToken
<1>4. CASE \/ SignUpBegin(r) \/ SignUpRegister(r) \/ SignInBegin(r) \/ SignInCreate(r)
           \/ RefreshReject(r) \/ RefreshRotate(r) \/ SignOutBegin(r) \/ SignOutRevoke(r)
           \/ Respond(r) \/ LoseResponse(r) \/ Abandon(r)
    <2>1. Idle.phase = "idle" /\ [req[r] EXCEPT !.phase = "reply"].phase = "reply"
        BY DEF TypeOK, RequestType, Idle
    <2>2. SignUpBegin(r) => req'[r].phase = "register"
        BY DEF SignUpBegin, TypeOK, Idle
    <2>3. SignInBegin(r) => req'[r].phase = "create"
        BY DEF SignInBegin, TypeOK, Idle
    <2>4. SignOutBegin(r) => req'[r].phase = "revoke"
        BY DEF SignOutBegin, TypeOK, Idle
    <2>5. SignUpRegister(r) \/ SignInCreate(r) \/ RefreshRotate(r)
            => req'[r].phase \in {"idle", "reply"}
        BY <2>1 DEF SignUpRegister, SignInCreate, RefreshRotate, TypeOK
    <2>6. RefreshReject(r) \/ SignOutRevoke(r) \/ Respond(r) \/ LoseResponse(r) \/ Abandon(r)
            => req'[r].phase = "idle"
        BY <2>1 DEF RefreshReject, SignOutRevoke, Respond, LoseResponse, Abandon, TypeOK
    <2>7. QED
        BY <1>4, <2>2, <2>3, <2>4, <2>5, <2>6
<1>5. CASE Tick \/ UNCHANGED vars
    BY <1>5 DEF Tick, vars
<1>6. QED
    BY <1>1, <1>2, <1>3, <1>4, <1>5 DEF Next, Handle

-----------------------------------------------------------------------------
(* Theorems *)

(* The invariant holds in every reachable state. *)
THEOREM Invariance == Spec => []IInv
    BY InitIInv, NextIInv, PTL DEF Spec

(* Tables, requests and tokens keep their shape. *)
THEOREM TypeCorrectness == Spec => []TypeOK
<1>1. IInv => TypeOK
    BY DEF IInv
<1>2. QED
    BY <1>1, Invariance, PTL

(* No interleaving of sign-ins, refreshes and sign-outs gives a user two   *)
(* sessions that are not revoked on one device.                            *)
THEOREM OneActiveSession == Spec => []OneActiveSessionPerDevice
<1>1. IInv => OneActiveSessionPerDevice
    BY DEF IInv
<1>2. QED
    BY <1>1, Invariance, PTL

(* A row always holds the hash of a token signed for it, with its expiry.  *)
THEOREM RowsMatchTokens == Spec => []RowMatchesToken
<1>1. IInv => RowMatchesToken
    BY DEF IInv
<1>2. QED
    BY <1>1, Invariance, PTL

(* Only a lost response separates a client from its session's token.       *)
THEOREM TokensAccountedFor == Spec => []CurrentTokenAccountedFor
<1>1. IInv => CurrentTokenAccountedFor
    BY DEF IInv
<1>2. QED
    BY <1>1, Invariance, PTL

(* Every session and every token a client holds belongs to an account.     *)
THEOREM NoOrphans == Spec => []NoOrphanSession
<1>1. IInv => NoOrphanSession
    BY DEF IInv
<1>2. QED
    BY <1>1, Invariance, PTL
(* Once the refreshes that had seen a session alive are over, nothing      *)
(* makes a revoked session active again.                                   *)
THEOREM DeadSessions == Spec => DeadSessionStaysDead
<1>1. ASSUME IInv, [Next]_vars, NEW s \in Sessions, Dead(s)
      PROVE  Dead(s)' /\ \A u \in Users : ~AccessAccepted(s, u)'
    <2>1. s \in Rows /\ sessions[s].revoked
        BY <1>1 DEF Dead
    <2>2. s \in Rows' /\ sessions'[s].revoked
        <3>1. \A r \in Requests : ~(req[r].phase = "rotate" /\ req[r].issued.sid = s)
            BY <1>1 DEF Dead
        <3>2. sessions[s] \in RowType
            BY <1>1, <2>1 DEF IInv, TypeOK, Rows
        <3>3. QED
            BY <1>1, <2>1, <3>1, <3>2, RowChanges DEF RowType
    <2>3. ASSUME NEW r \in Requests
          PROVE  /\ ~(req'[r].phase = "read" /\ req'[r].presented.sid = s /\ ~req'[r].snap.revoked)
                 /\ ~(req'[r].phase = "rotate" /\ req'[r].issued.sid = s)
        <3>1. /\ ~(req[r].phase = "read" /\ req[r].presented.sid = s /\ ~req[r].snap.revoked)
              /\ ~(req[r].phase = "rotate" /\ req[r].issued.sid = s)
            BY <1>1 DEF Dead
        <3>2. QED
            BY <1>1, <2>1, <3>1, RefreshChanges
    <2>4. QED
        BY <2>2, <2>3 DEF Dead, AccessAccepted, findById, canAuthorizeAccessToken, isActiveAt
<1>2. IInv /\ [Next]_vars =>
        [\A s \in Sessions : Dead(s) => Dead(s)' /\ \A u \in Users : ~AccessAccepted(s, u)']_vars
    BY <1>1
<1>3. QED
    BY <1>2, Invariance, PTL DEF Spec, DeadSessionStaysDead

(* A superseded token is never the token of its session again, and no      *)
(* refresh that presents it is accepted.                                   *)
THEOREM SupersededTokens == Spec => SupersededTokenStaysDead
<1>1. ASSUME IInv, [Next]_vars, NEW t \in RefreshToken, Superseded(t)
      PROVE  Superseded(t)'
    <2>1. t.iat < now /\ t.sid \in Rows /\ sessions[t.sid].token # t
        BY <1>1 DEF Superseded
    <2>2. t.iat < now'
        <3>1. now' = now \/ now' = now + 1
            BY <1>1 DEF Next, Tick, Handle, vars, SignUpBegin, SignUpRegister, SignInBegin,
                SignInCreate, RefreshBegin, RefreshIssue, RefreshReject, RefreshRotate,
                SignOutBegin, SignOutRevoke, Respond, LoseResponse, Abandon
        <3>2. now \in Nat /\ t.iat \in Nat
            BY <1>1 DEF IInv, TypeOK, Time, RefreshToken
        <3>3. QED
            BY <2>1, <3>1, <3>2
    <2>3. t.sid \in Rows' /\ sessions'[t.sid].token # t
        <3>1. \A r \in Requests : ~(req[r].phase = "rotate" /\ req[r].issued = t)
            BY <1>1 DEF Superseded
        <3>2. sessions[t.sid] \in RowType
            BY <1>1, <2>1 DEF IInv, TypeOK, Rows
        <3>3. QED
            BY <1>1, <2>1, <3>1, <3>2, RowChanges DEF RowType
    <2>4. ASSUME NEW r \in Requests
          PROVE  /\ ~(req'[r].phase = "read" /\ req'[r].snap.token = t)
                 /\ ~(req'[r].phase = "rotate" /\ t \in {req'[r].presented, req'[r].issued})
        <3>1. /\ ~(req[r].phase = "read" /\ req[r].snap.token = t)
              /\ ~(req[r].phase = "rotate" /\ t \in {req[r].presented, req[r].issued})
            BY <1>1 DEF Superseded
        <3>2. \A s \in Rows : sessions[s].token # t
            BY <1>1, <2>1 DEF IInv, RowMatchesToken
        <3>3. t.iat # now
            BY <1>1, <2>1 DEF IInv, TypeOK, Time, RefreshToken
        <3>4. QED
            BY <1>1, <3>1, <3>2, <3>3, RefreshChanges
    <2>5. QED
        BY <2>2, <2>3, <2>4 DEF Superseded
<1>2. IInv /\ [Next]_vars => [\A t \in RefreshToken : Superseded(t) => Superseded(t)']_vars
    BY <1>1
<1>3. QED
    BY <1>2, Invariance, PTL DEF Spec, SupersededTokenStaysDead

(* Only a sign-out for that very session ends a live session.              *)
THEOREM LiveSessions == Spec => OnlySignOutEndsLiveSession
<1>1. ASSUME IInv, [Next]_vars, NEW s \in Rows, isActiveAt(sessions[s], now), sessions'[s].revoked
      PROVE  \E r \in Requests : req[r].phase = "revoke" /\ req[r].presented.sid = s
                                 /\ req'[r] = Idle
    <2>1. sessions[s] \in RowType /\ ~sessions[s].revoked /\ sessions[s].expiresAt > now /\ now \in Nat
        BY <1>1 DEF IInv, TypeOK, Time, Rows, isActiveAt
    <2>2. QED
        BY <1>1, <2>1, RowChanges DEF RowType
<1>2. IInv /\ [Next]_vars =>
        [\A s \in Rows :
            isActiveAt(sessions[s], now) /\ sessions'[s].revoked
            => \E r \in Requests : req[r].phase = "revoke" /\ req[r].presented.sid = s
                                   /\ req'[r] = Idle]_vars
    BY <1>1
<1>3. QED
    BY <1>2, Invariance, PTL DEF Spec, OnlySignOutEndsLiveSession
=============================================================================
