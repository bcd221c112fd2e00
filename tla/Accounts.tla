------------------------------ MODULE Accounts ------------------------------
(***************************************************************************)
(* Users, their login methods and their sessions in a self-hosted          *)
(* deployment: registration and login by password or through a provider,   *)
(* password changes, disconnected identities, bans and roles, and the      *)
(* session generations by which all of these end the sessions before them. *)
(*                                                                         *)
(* A step is one statement of the store, and requests interleave at them.  *)
(* What a request reads at its start, to authenticate the caller or to     *)
(* look a token up, is read in the step that starts it.  A session token   *)
(* is signed from the row that was just loaded, in the step that loads it. *)
(* The second read of ListUsers, profiles and the text of mails are left   *)
(* out.                                                                    *)
(***************************************************************************)
EXTENDS Integers, FiniteSets

CONSTANTS
    Users,          \* user IDs
    EmailLogins,    \* e-mail addresses
    OAuthLogins,    \* accounts at a provider
    Requests,
    NoUser, NoLogin,
    MaxGeneration,  \* bound: last session generation explored
    MaxPassword,    \* bound: last password of an address explored
    MaxSessions,    \* bound: sessions that browsers hold at a time
    MaxTokens,      \* bound: mailed links outstanding at a time
    MaxRequests,    \* bound: requests of more than one step explored
    MaxFaults       \* bound: failed statements and restarts explored

Logins == EmailLogins \cup OAuthLogins

ASSUME AccountsAssumption ==
    /\ NoUser \notin Users
    /\ NoLogin \notin Logins
    /\ EmailLogins \cap OAuthLogins = {}
    /\ MaxGeneration \in Nat /\ MaxPassword \in Nat
    /\ MaxSessions \in Nat /\ MaxTokens \in Nat
    /\ MaxRequests \in Nat /\ MaxFaults \in Nat

VARIABLES
    users,       \* users[u]: the row of u
    identities,  \* identities[l]: the row of user_identities for l
    tokens,      \* the rows of email_tokens
    sessions,    \* the session tokens that browsers hold
    request,     \* request[r]: the request r
    \* History
    bans,        \* bans[u]: how often u was banned
    unbumped,    \* users whose password changed without a new generation
    begun,       \* requests of more than one step so far
    faults       \* failed statements and restarts so far

vars == <<users, identities, tokens, sessions, request, bans, unbumped, begun, faults>>

-----------------------------------------------------------------------------
(* State *)

Roles == {"admin", "commenter"}
Audiences == {"dashboard", "embed"}
TokenTypes == {"verification", "registration_poll", "password_reset"}
Generations == 0..MaxGeneration
Passwords == 0..MaxPassword

UserRow ==
    [exists : BOOLEAN, role : Roles, banned : BOOLEAN, emailVerified : BOOLEAN,
     generation : [Audiences -> Generations]]

NoRow ==
    [exists |-> FALSE, role |-> "commenter", banned |-> FALSE,
     emailVerified |-> FALSE, generation |-> [a \in Audiences |-> 0]]

IdentityRow == [user : Users \cup {NoUser}, password : Passwords]

NoIdentity == [user |-> NoUser, password |-> 0]

EmailToken == [user : Users, type : TokenTypes]

\* The claims of a session; from login on they are history: the login and the
\* password it came from, whether that password was changed between its check
\* and the load of the user, and the bans of the user until then.
Claims ==
    [user : Users, audience : Audiences, role : Roles, generation : Generations,
     login : Logins \cup {NoLogin}, password : Passwords, overtaken : BOOLEAN,
     bans : Generations]

\* A request, before the statement that pc names.  user is the user it is for,
\* and password what a login has compared.
RequestState ==
    [pc : {"idle", "role", "lookup", "user", "identity", "tokens", "load",
           "hash", "bump", "spend", "write", "disconnect"},
     op : {"none", "register", "oauth", "embed", "link", "login", "reset",
           "password", "update", "disconnect"},
     login : Logins \cup {NoLogin}, user : Users \cup {NoUser},
     role : Roles, banned : BOOLEAN, password : Passwords]

NoRequest ==
    [pc |-> "idle", op |-> "none", login |-> NoLogin, user |-> NoUser,
     role |-> "commenter", banned |-> FALSE, password |-> 0]

TypeOK ==
    /\ users \in [Users -> UserRow]
    /\ identities \in [Logins -> IdentityRow]
    /\ tokens \subseteq EmailToken
    /\ sessions \subseteq Claims
    /\ request \in [Requests -> RequestState]
    /\ bans \in [Users -> Generations]
    /\ unbumped \subseteq Users
    /\ begun \in 0..MaxRequests
    /\ faults \in 0..MaxFaults

Init ==
    /\ users = [u \in Users |-> NoRow]
    /\ identities = [l \in Logins |-> NoIdentity]
    /\ tokens = {}
    /\ sessions = {}
    /\ request = [r \in Requests |-> NoRequest]
    /\ bans = [u \in Users |-> 0]
    /\ unbumped = {}
    /\ begun = 0
    /\ faults = 0

Fault == faults < MaxFaults /\ faults' = faults + 1

Idle(r) == request[r].pc = "idle"

Begin(r, started) ==
    /\ Idle(r)
    /\ begun < MaxRequests /\ begun' = begun + 1
    /\ request' = [request EXCEPT ![r] = started]

End(r) == request' = [request EXCEPT ![r] = NoRequest]

Goto(r, pc) == request' = [request EXCEPT ![r].pc = pc]

\* authenticate: the user is there, not banned and of the session's generation.
Valid(s) ==
    /\ users[s.user].exists /\ ~ users[s.user].banned
    /\ users[s.user].generation[s.audience] = s.generation

Dashboard(s) == Valid(s) /\ s.audience = "dashboard"

\* RequireAdminForAudience reads the role from the claims.
Admin(s) == Dashboard(s) /\ s.role = "admin"

\* The identities of u.
LoginsOf(u) == {l \in Logins : identities[l].user = u}

\* IssueWithAudience and IssueEmbed, from the row of u; l is the login it came
\* from and password the one that was checked.
Issue(u, audience, l, password) ==
    /\ Cardinality(sessions) < MaxSessions
    /\ sessions' = sessions \cup
        {[user |-> u, audience |-> audience, role |-> users[u].role,
          generation |-> users[u].generation[audience],
          login |-> l, password |-> password,
          overtaken |-> l # NoLogin /\ identities[l].password # password,
          bans |-> bans[u]]}

\* One generation more for the given audiences.
Bumped(row, audiences) ==
    [row EXCEPT !.generation = [a \in Audiences |->
        IF a \in audiences THEN @[a] + 1 ELSE @[a]]]

CanBump(u) == \A a \in Audiences : users[u].generation[a] < MaxGeneration

-----------------------------------------------------------------------------
(* Registration and login through a provider *)

\* EmailRegister, up to GetIdentity
EmailRegister(r, l) ==
    /\ identities[l].user = NoUser
    /\ Begin(r, [NoRequest EXCEPT !.op = "register", !.pc = "role", !.login = l])
    /\ UNCHANGED <<users, identities, tokens, sessions, bans, unbumped, faults>>

\* oauthCallback, up to ListUsers
OAuthCallback(r, l) ==
    /\ Begin(r, [NoRequest EXCEPT !.op = "oauth", !.pc = "role", !.login = l])
    /\ UNCHANGED <<users, identities, tokens, sessions, bans, unbumped, faults>>

\* embedOAuthCallback: a reader at a site never becomes an administrator.
EmbedOAuthCallback(r, l) ==
    /\ Begin(r, [NoRequest EXCEPT !.op = "embed", !.pc = "lookup", !.login = l])
    /\ UNCHANGED <<users, identities, tokens, sessions, bans, unbumped, faults>>

\* ListUsers: the first user becomes the administrator.
ChooseRole(r) ==
    /\ request[r].pc = "role"
    /\ request' = [request EXCEPT
            ![r].role = IF \E u \in Users : users[u].exists THEN "commenter" ELSE "admin",
            ![r].pc = IF request[r].op = "register" THEN "user" ELSE "lookup"]
    /\ UNCHANGED <<users, identities, tokens, sessions, bans, unbumped, begun, faults>>

\* upsertIdentityUser, up to GetIdentity
LookupIdentity(r) ==
    /\ request[r].pc = "lookup"
    /\ LET owner == identities[request[r].login].user
       IN IF owner = NoUser THEN Goto(r, "user")
          ELSE request' = [request EXCEPT ![r].user = owner, ![r].pc = "load"]
    /\ UNCHANGED <<users, identities, tokens, sessions, bans, unbumped, begun, faults>>

\* UpsertUser of a new user
CreateUser(r) ==
    /\ request[r].pc = "user"
    /\ \E u \in Users :
            /\ ~ users[u].exists
            /\ users' = [users EXCEPT ![u] =
                    [NoRow EXCEPT !.exists = TRUE, !.role = request[r].role]]
            /\ request' = [request EXCEPT ![r].user = u, ![r].pc = "identity"]
    /\ UNCHANGED <<identities, tokens, sessions, bans, unbumped, begun, faults>>

\* CreateIdentity, for a new user or for one who links a login.  When somebody
\* else has the login by now, the constraint fails the request.
CreateIdentity(r) ==
    /\ request[r].pc = "identity"
    /\ IF identities[request[r].login].user = NoUser
       THEN /\ identities' = [identities EXCEPT ![request[r].login] =
                    [user |-> request[r].user, password |-> 0]]
            /\ CASE request[r].op = "register" -> Goto(r, "tokens")
                 [] request[r].op = "link" -> End(r)
                 [] OTHER -> Goto(r, "load")
       ELSE End(r) /\ UNCHANGED identities
    /\ UNCHANGED <<users, tokens, sessions, bans, unbumped, begun, faults>>

\* sendVerificationEmail, and the token that the signup page polls with
CreateTokens(r) ==
    /\ request[r].pc = "tokens"
    /\ Cardinality(tokens) + 2 <= MaxTokens
    /\ tokens' = tokens \cup {[user |-> request[r].user, type |-> t] :
                              t \in {"verification", "registration_poll"}}
    /\ End(r)
    /\ UNCHANGED <<users, identities, sessions, bans, unbumped, begun, faults>>

\* GetUser at the end of every login.  Only a password login asks whether the
\* address is verified.
Load(r) ==
    LET u == request[r].user
        audience == IF request[r].op = "embed" THEN "embed" ELSE "dashboard"
    IN  /\ request[r].pc = "load"
        /\ IF users[u].banned \/ (request[r].op = "login" /\ ~ users[u].emailVerified)
           THEN UNCHANGED sessions
           ELSE IF request[r].op = "login"
           THEN Issue(u, audience, request[r].login, request[r].password)
           ELSE Issue(u, audience, NoLogin, 0)
        /\ End(r)
        /\ UNCHANGED <<users, identities, tokens, bans, unbumped, begun, faults>>

-----------------------------------------------------------------------------
(* E-mail: verification, polling, login, and a forgotten password *)

\* EmailVerify deletes the token before SetEmailVerified, which may fail.
EmailVerify(u) ==
    LET token == [user |-> u, type |-> "verification"]
    IN  /\ token \in tokens
        /\ tokens' = tokens \ {token}
        /\ \/ users' = [users EXCEPT ![u].emailVerified = TRUE] /\ UNCHANGED faults
           \/ Fault /\ UNCHANGED users
        /\ UNCHANGED <<identities, sessions, request, bans, unbumped, begun>>

\* CreateEmailToken for the user of an address that is registered
MailToken(l, type) ==
    /\ identities[l].user # NoUser
    /\ Cardinality(tokens) < MaxTokens
    /\ tokens' = tokens \cup {[user |-> identities[l].user, type |-> type]}
    /\ UNCHANGED <<users, identities, sessions, request, bans, unbumped, begun, faults>>

EmailResend(l) ==
    /\ MailToken(l, "verification")
    /\ ~ users[identities[l].user].emailVerified

EmailForgot(l) == MailToken(l, "password_reset")

\* EmailPoll issues the first session of a verified user, banned or not.
EmailPoll(u) ==
    LET token == [user |-> u, type |-> "registration_poll"]
    IN  /\ token \in tokens
        /\ users[u].emailVerified
        /\ Issue(u, "dashboard", NoLogin, 0)
        /\ \/ tokens' = tokens \ {token} /\ UNCHANGED faults
           \/ Fault /\ UNCHANGED tokens
        /\ UNCHANGED <<users, identities, request, bans, unbumped, begun>>

\* A token expires, and its next use deletes it.
ExpireToken(token) ==
    /\ token \in tokens
    /\ tokens' = tokens \ {token}
    /\ UNCHANGED <<users, identities, sessions, request, bans, unbumped, begun, faults>>

\* EmailLogin, up to the comparison with the hash
EmailLogin(r, l) ==
    /\ identities[l].user # NoUser
    /\ Begin(r, [NoRequest EXCEPT !.op = "login", !.pc = "load", !.login = l,
                 !.user = identities[l].user, !.password = identities[l].password])
    /\ UNCHANGED <<users, identities, tokens, sessions, bans, unbumped, faults>>

\* EmailReset, up to GetEmailToken
EmailReset(r, u) ==
    /\ [user |-> u, type |-> "password_reset"] \in tokens
    /\ Begin(r, [NoRequest EXCEPT !.op = "reset", !.pc = "hash", !.user = u])
    /\ UNCHANGED <<users, identities, tokens, sessions, bans, unbumped, faults>>

\* AccountHandler.UpdatePassword, up to the comparison with the current hash
UpdatePassword(r, s) ==
    /\ Admin(s)
    /\ LoginsOf(s.user) \cap EmailLogins # {}
    /\ Begin(r, [NoRequest EXCEPT !.op = "password", !.pc = "hash", !.user = s.user])
    /\ UNCHANGED <<users, identities, tokens, sessions, bans, unbumped, faults>>

\* UpdatePasswordHashByUser, first statement: a fresh password
UpdatePasswordHash(r) ==
    LET changed == LoginsOf(request[r].user) \cap EmailLogins
    IN  /\ request[r].pc = "hash"
        /\ \A l \in changed : identities[l].password < MaxPassword
        /\ identities' = [l \in Logins |->
                IF l \in changed THEN [identities[l] EXCEPT !.password = @ + 1]
                ELSE identities[l]]
        /\ Goto(r, "bump")
        /\ UNCHANGED <<users, tokens, sessions, bans, unbumped, begun, faults>>

BugBumpGenerations(r) ==
    LET u == request[r].user
    IN  /\ request[r].pc = "bump"
        /\ users' = users
        /\ IF request[r].op = "reset" THEN Goto(r, "spend") ELSE End(r)
        /\ UNCHANGED <<identities, tokens, sessions, bans, unbumped, begun, faults>>

\* UpdatePasswordHashByUser, second statement
BumpGenerations(r) ==
    LET u == request[r].user
    IN  /\ request[r].pc = "bump"
        /\ CanBump(u)
        /\ users' = [users EXCEPT ![u] = Bumped(@, Audiences)]
        /\ IF request[r].op = "reset" THEN Goto(r, "spend") ELSE End(r)
        /\ UNCHANGED <<identities, tokens, sessions, bans, unbumped, begun, faults>>

\* EmailReset, DeleteEmailToken
SpendResetToken(r) ==
    /\ request[r].pc = "spend"
    /\ tokens' = tokens \ {[user |-> request[r].user, type |-> "password_reset"]}
    /\ End(r)
    /\ UNCHANGED <<users, identities, sessions, bans, unbumped, begun, faults>>

-----------------------------------------------------------------------------
(* The account page, and other users' accounts *)

\* LogoutAll
LogoutAll(s) ==
    /\ Dashboard(s)
    /\ CanBump(s.user)
    /\ users' = [users EXCEPT ![s.user] = Bumped(@, {"dashboard"})]
    /\ UNCHANGED <<identities, tokens, sessions, request, bans, unbumped, begun, faults>>

\* handleLinkCallback, up to GetIdentity
LinkCallback(r, s, l) ==
    /\ Dashboard(s)
    /\ identities[l].user = NoUser
    /\ Begin(r, [NoRequest EXCEPT !.op = "link", !.pc = "identity", !.login = l, !.user = s.user])
    /\ UNCHANGED <<users, identities, tokens, sessions, bans, unbumped, faults>>

\* The identities that DeleteUserIdentity takes with l: those of its provider.
OfProvider(l) == IF l \in EmailLogins THEN EmailLogins ELSE OAuthLogins

\* DisconnectIdentity, up to ListUserIdentities
DisconnectIdentity(r, s, l) ==
    /\ Admin(s)
    /\ Cardinality(LoginsOf(s.user)) > 1
    /\ Begin(r, [NoRequest EXCEPT !.op = "disconnect", !.pc = "disconnect", !.login = l, !.user = s.user])
    /\ UNCHANGED <<users, identities, tokens, sessions, bans, unbumped, faults>>

DeleteUserIdentity(r) ==
    LET gone == LoginsOf(request[r].user) \cap OfProvider(request[r].login)
    IN  /\ request[r].pc = "disconnect"
        /\ identities' = [l \in Logins |->
                IF l \in gone THEN NoIdentity ELSE identities[l]]
        /\ End(r)
        /\ UNCHANGED <<users, tokens, sessions, bans, unbumped, begun, faults>>

\* AdminHandler.UpdateUser, up to GetUser, with a role or a ban from the body.
\* What the body leaves out is written back as it was read.
UpdateUser(r, s, u) ==
    /\ Admin(s)
    /\ u # s.user /\ users[u].exists
    /\ \/ \E role \in Roles :
            Begin(r, [NoRequest EXCEPT !.op = "update", !.pc = "write", !.user = u,
                      !.role = role, !.banned = users[u].banned])
       \/ \E banned \in BOOLEAN :
            Begin(r, [NoRequest EXCEPT !.op = "update", !.pc = "write", !.user = u,
                      !.role = users[u].role, !.banned = banned])
    /\ UNCHANGED <<users, identities, tokens, sessions, bans, unbumped, faults>>

BugRevokes(r) == request[r].banned # users[request[r].user].banned

\* The condition of the CASE in UpdateUser's statement
Revokes(r) ==
    \/ request[r].role # users[request[r].user].role
    \/ request[r].banned # users[request[r].user].banned

\* sqlStore.UpdateUser
WriteUser(r) ==
    LET u == request[r].user
        row == [users[u] EXCEPT !.role = request[r].role, !.banned = request[r].banned]
    IN  /\ request[r].pc = "write"
        /\ CanBump(u)
        /\ users' = [users EXCEPT ![u] = IF Revokes(r) THEN Bumped(row, Audiences) ELSE row]
        /\ bans' = IF request[r].banned /\ ~ users[u].banned
                   THEN [bans EXCEPT ![u] = @ + 1] ELSE bans
        /\ End(r)
        /\ UNCHANGED <<identities, tokens, sessions, unbumped, begun, faults>>

-----------------------------------------------------------------------------

\* A statement fails, or the process stops: the request ends where it is.
RequestFails(r) ==
    /\ ~ Idle(r)
    /\ Fault
    /\ End(r)
    /\ unbumped' = IF request[r].pc = "bump" THEN unbumped \cup {request[r].user}
                   ELSE unbumped
    /\ UNCHANGED <<users, identities, tokens, sessions, bans, begun>>

\* DashboardLogout, a session that expires, or one its reader throws away
Logout(s) ==
    /\ sessions' = sessions \ {s}
    /\ UNCHANGED <<users, identities, tokens, request, bans, unbumped, begun, faults>>

Next ==
    \/ \E r \in Requests :
        \/ \E l \in EmailLogins : EmailRegister(r, l) \/ EmailLogin(r, l)
        \/ \E l \in OAuthLogins : OAuthCallback(r, l) \/ EmbedOAuthCallback(r, l)
        \/ ChooseRole(r) \/ LookupIdentity(r) \/ CreateUser(r) \/ CreateIdentity(r)
        \/ CreateTokens(r) \/ Load(r)
        \/ \E u \in Users : EmailReset(r, u)
        \/ UpdatePasswordHash(r) \/ BumpGenerations(r) \/ SpendResetToken(r)
        \/ DeleteUserIdentity(r) \/ WriteUser(r) \/ RequestFails(r)
        \/ \E s \in sessions :
            \/ UpdatePassword(r, s)
            \/ \E l \in OAuthLogins : LinkCallback(r, s, l)
            \/ \E l \in Logins : DisconnectIdentity(r, s, l)
            \/ \E u \in Users : UpdateUser(r, s, u)
    \/ \E l \in EmailLogins : EmailResend(l) \/ EmailForgot(l)
    \/ \E u \in Users : EmailVerify(u) \/ EmailPoll(u)
    \/ \E token \in tokens : ExpireToken(token)
    \/ \E s \in sessions : LogoutAll(s) \/ Logout(s)

Spec == Init /\ [][Next]_vars

-----------------------------------------------------------------------------
(* Properties *)

\* A session that authenticates carries the role its user has now, and none
\* that was issued before a ban authenticates again after it, whatever two
\* administrators write over each other.
ValidSessionsAreCurrent ==
    \A s \in sessions :
        Valid(s) => s.role = users[s.user].role /\ s.bans = bans[s.user]

\* A change of the password under way, before its second statement.
Changing(u) == \E r \in Requests : request[r].pc = "bump" /\ request[r].user = u

\* A session that authenticates came from the password its login has now,
\* unless the change overtook the login between the comparison and the load,
\* or its second statement is still to come or was lost.
OldPasswordsAreRevoked ==
    \A s \in sessions :
        Valid(s) /\ s.login # NoLogin /\ identities[s.login].user = s.user
        => \/ s.password = identities[s.login].password
           \/ s.overtaken
           \/ Changing(s.user) \/ s.user \in unbumped

=============================================================================
