---------------------------- MODULE AccountsProofs ----------------------------
(***************************************************************************)
(* Proofs about Accounts, for any number of users, addresses, accounts at  *)
(* providers, requests and sessions: its types, and that a session which   *)
(* authenticates has the rights and the password its user has now.         *)
(*                                                                         *)
(* A session dies by the generation it carries, so the invariant compares  *)
(* generations: none is ahead of its user's, and one that is level with it *)
(* was issued after the last change that raised it.                        *)
(***************************************************************************)
EXTENDS Accounts, TLAPS

-----------------------------------------------------------------------------
(* The inductive invariant *)

\* Nobody has used a row that does not exist, and a ban raises generations.
RowsSound ==
    /\ \A u \in Users : ~ users[u].exists => users[u] = NoRow /\ bans[u] = 0
    /\ \A u \in Users, a \in Audiences : bans[u] <= users[u].generation[a]
    /\ \A l \in Logins : identities[l].user # NoUser => users[identities[l].user].exists
    /\ \A token \in tokens : users[token.user].exists

\* The statements that are for a user.
Served == {"identity", "tokens", "load", "hash", "bump", "spend", "write", "disconnect"}

\* What the fields of a request say of each other.
Fields(q) ==
    /\ q.op \in {"register", "login"} => q.login \in EmailLogins
    /\ q.op \in {"oauth", "embed", "link"} => q.login \in OAuthLogins
    /\ q.pc \in {"role", "lookup", "user", "identity"} => q.login \in Logins
    /\ q.op = "update" <=> q.pc = "write"
    /\ q.pc \in Served => q.user \in Users

Sensible(q) == Fields(q) /\ (q.user # NoUser => users[q.user].exists)

RequestsSound == \A r \in Requests : Sensible(request[r])

\* A request that has created its user and not yet the identity.
New(q) == q.pc = "identity" /\ q.op # "link"

\* Who could act as u, or soon could.
Seen(u) ==
    \/ \E l \in Logins : identities[l].user = u
    \/ \E s \in sessions : s.user = u
    \/ \E token \in tokens : token.user = u

\* A new user is its request's alone, but for administrators.
NewUsersAreAlone ==
    \A r \in Requests : New(request[r]) =>
        /\ ~ Seen(request[r].user)
        /\ \A q \in Requests \ {r} :
                request[q].user = request[r].user => request[q].op = "update"

\* A session from a password knows the password of its login, or has an excuse.
PasswordKnown(s) ==
    s.login # NoLogin /\ identities[s.login].user = s.user
    => \/ s.password = identities[s.login].password
       \/ s.overtaken
       \/ Changing(s.user) \/ s.user \in unbumped

Level(s) == s.generation = users[s.user].generation[s.audience]

SessionSound(s) ==
    /\ users[s.user].exists
    /\ s.login \in EmailLogins \cup {NoLogin}
    /\ s.generation <= users[s.user].generation[s.audience]
    /\ Level(s) => s.role = users[s.user].role /\ s.bans = bans[s.user] /\ PasswordKnown(s)

SessionsSound == \A s \in sessions : SessionSound(s)

Inv == TypeOK /\ RowsSound /\ RequestsSound /\ NewUsersAreAlone /\ SessionsSound

LEMMA InitInv == Init => Inv
  <1> SUFFICES ASSUME Init PROVE Inv
    OBVIOUS
  <1>1. NoRow \in UserRow /\ NoRow.generation \in [Audiences -> Generations]
    BY AccountsAssumption DEF NoRow, UserRow, Roles, Generations
  <1>2. NoIdentity \in IdentityRow /\ NoIdentity.user = NoUser
    BY AccountsAssumption DEF NoIdentity, IdentityRow, Passwords
  <1>3. /\ NoRequest \in RequestState /\ NoRequest.user = NoUser
        /\ NoRequest.pc = "idle" /\ NoRequest.op = "none"
    BY AccountsAssumption DEF NoRequest, RequestState, Roles, Passwords
  <1>4. TypeOK
    BY <1>1, <1>2, <1>3, AccountsAssumption DEF Init, TypeOK, Generations
  <1>5. \A u \in Users, a \in Audiences : users[u].generation[a] = 0
    BY DEF Init, NoRow
  <1>6. RowsSound
    BY <1>2, <1>5 DEF Init, RowsSound
  <1>7. \A r \in Requests : request[r] = NoRequest
    BY DEF Init
  <1>8. RequestsSound /\ NewUsersAreAlone
    BY <1>3, <1>7 DEF RequestsSound, Sensible, Fields, Served, NewUsersAreAlone, New
  <1>9. SessionsSound
    BY DEF Init, SessionsSound
  <1> QED
    BY <1>4, <1>6, <1>8, <1>9 DEF Inv

-----------------------------------------------------------------------------
(* Steps that change nothing but a request *)

NoRequestFacts ==
    /\ NoRequest \in RequestState /\ NoRequest.user = NoUser
    /\ NoRequest.pc = "idle" /\ NoRequest.op = "none"

LEMMA NoRequestType == NoRequestFacts /\ Sensible(NoRequest) /\ ~ New(NoRequest)
  <1>1. NoRequestFacts
    BY AccountsAssumption DEF NoRequestFacts, NoRequest, RequestState, Roles, Passwords
  <1> QED
    BY <1>1 DEF NoRequestFacts, Sensible, Fields, Served, New

\* It does not come upon a new user, and leaves no change of a password
\* behind without noting it.
LEMMA RequestMoves ==
  ASSUME Inv, NEW r \in Requests, NEW next \in RequestState,
         request' = [request EXCEPT ![r] = next],
         UNCHANGED <<users, identities, tokens, sessions, bans>>,
         begun' \in 0..MaxRequests, faults' \in 0..MaxFaults,
         unbumped \subseteq unbumped', unbumped' \subseteq Users,
         request[r].pc = "bump" => request[r].user \in unbumped',
         Sensible(next), ~ New(next),
         \/ next.op = "update" \/ next.user = NoUser \/ Seen(next.user)
         \/ next.user = request[r].user /\ request[r].op # "update"
  PROVE  Inv'
  <1>1. request'[r] = next /\ \A q \in Requests \ {r} : request'[q] = request[q]
    BY DEF Inv, TypeOK
  <1>2. TypeOK'
    BY DEF Inv, TypeOK
  <1>3. RowsSound'
    BY DEF Inv, RowsSound
  <1>4. RequestsSound'
    <2> SUFFICES ASSUME NEW q \in Requests PROVE Sensible(request'[q])
      BY DEF RequestsSound, Sensible, Fields
    <2> QED
      BY <1>1 DEF Inv, RequestsSound
  <1>5. NewUsersAreAlone'
    <2> SUFFICES ASSUME NEW p \in Requests, New(request'[p])
                 PROVE  /\ ~ Seen(request'[p].user)
                        /\ \A q \in Requests \ {p} : request'[q].user = request'[p].user
                                => request'[q].op = "update"
      BY DEF NewUsersAreAlone, New, Seen
    <2>1. p # r /\ request'[p] = request[p]
      BY <1>1
    <2>2. /\ ~ Seen(request[p].user)
          /\ \A q \in Requests \ {p} :
                request[q].user = request[p].user => request[q].op = "update"
      BY <2>1 DEF Inv, NewUsersAreAlone
    <2>3. request[p].user # NoUser
      BY <2>1, AccountsAssumption DEF Inv, RequestsSound, Sensible, Fields, New, Served
    <2>4. request'[r].user = request[p].user => request'[r].op = "update"
      <3> SUFFICES ASSUME next.user = request[p].user, next.op # "update" PROVE FALSE
        BY <1>1
      <3>1. request[r].user = request[p].user /\ request[r].op # "update"
        BY <2>2, <2>3
      <3> QED
        BY <2>1, <2>2, <3>1
    <2> QED
      BY <1>1, <2>1, <2>2, <2>4
  <1>6. SessionsSound'
    <2> SUFFICES ASSUME NEW s \in sessions PROVE SessionSound(s)'
      BY DEF SessionsSound
    <2>1. SessionSound(s)
      BY DEF Inv, SessionsSound
    <2>2. Changing(s.user) => Changing(s.user)' \/ s.user \in unbumped'
      BY <1>1 DEF Changing
    <2>3. PasswordKnown(s) => PasswordKnown(s)'
      BY <2>2 DEF PasswordKnown
    <2> QED
      BY <2>1, <2>3 DEF SessionSound, Level
  <1> QED
    BY <1>2, <1>3, <1>4, <1>5, <1>6 DEF Inv

\* A request starts.
LEMMA BeginKeeps ==
  ASSUME Inv, NEW r \in Requests, NEW started \in RequestState, Begin(r, started),
         UNCHANGED <<users, identities, tokens, sessions, bans, unbumped, faults>>,
         Sensible(started), ~ New(started),
         started.op = "update" \/ started.user = NoUser \/ Seen(started.user)
  PROVE  Inv'
  <1>1. begun' \in 0..MaxRequests /\ faults' \in 0..MaxFaults /\ unbumped' \subseteq Users
    BY AccountsAssumption DEF Begin, Inv, TypeOK
  <1> QED
    BY <1>1, RequestMoves DEF Begin, Idle

\* The requests that start for nobody yet.
LEMMA RegistrationsStart ==
  ASSUME Inv, NEW r \in Requests, NEW l \in Logins,
         \/ l \in EmailLogins /\ EmailRegister(r, l)
         \/ l \in OAuthLogins /\ (OAuthCallback(r, l) \/ EmbedOAuthCallback(r, l))
  PROVE  Inv'
  <1>1. ASSUME NEW op \in {"register", "oauth", "embed"}, NEW pc \in {"role", "lookup"},
               op = "register" => l \in EmailLogins,
               op \in {"oauth", "embed"} => l \in OAuthLogins
        PROVE  LET started == [NoRequest EXCEPT !.op = op, !.pc = pc, !.login = l]
               IN  /\ started \in RequestState /\ Sensible(started) /\ ~ New(started)
                   /\ started.user = NoUser
    <2> DEFINE started == [NoRequest EXCEPT !.op = op, !.pc = pc, !.login = l]
    <2>1. started \in RequestState
      BY NoRequestType DEF NoRequestFacts, RequestState
    <2>2. started.op = op /\ started.pc = pc /\ started.login = l /\ started.user = NoUser
      BY DEF NoRequest
    <2> HIDE DEF started
    <2>3. Sensible(started) /\ ~ New(started)
      BY <2>2, <1>1 DEF Sensible, Fields, Served, New
    <2> QED
      BY <2>1, <2>2, <2>3 DEF started
  <1>2. CASE l \in EmailLogins /\ EmailRegister(r, l)
    BY <1>1, <1>2, BeginKeeps, AccountsAssumption DEF EmailRegister
  <1>3. CASE l \in OAuthLogins /\ OAuthCallback(r, l)
    BY <1>1, <1>3, BeginKeeps DEF OAuthCallback
  <1>4. CASE l \in OAuthLogins /\ EmbedOAuthCallback(r, l)
    BY <1>1, <1>4, BeginKeeps DEF EmbedOAuthCallback
  <1> QED
    BY <1>2, <1>3, <1>4

\* The requests that start for a user who has been seen.
LEMMA ServiceStarts ==
  ASSUME Inv, NEW r \in Requests, NEW started \in RequestState, Begin(r, started),
         UNCHANGED <<users, identities, tokens, sessions, bans, unbumped, faults>>,
         started.user \in Users, Seen(started.user), users[started.user].exists,
         started.pc \in {"load", "hash", "identity", "disconnect"},
         started.op \in {"login", "reset", "password", "link", "disconnect"},
         started.op = "login" => started.login \in EmailLogins,
         started.op = "link" => started.login \in OAuthLogins,
         started.pc = "identity" => started.op = "link"
  PROVE  Inv'
  <1>1. Sensible(started) /\ ~ New(started)
    BY AccountsAssumption DEF Sensible, Fields, Served, New, Logins
  <1> QED
    BY <1>1, BeginKeeps

LEMMA ServicesStart ==
  ASSUME Inv, NEW r \in Requests,
         \/ \E l \in EmailLogins : EmailLogin(r, l)
         \/ \E u \in Users : EmailReset(r, u)
         \/ \E s \in sessions :
                \/ UpdatePassword(r, s)
                \/ \E l \in OAuthLogins : LinkCallback(r, s, l)
                \/ \E l \in Logins : DisconnectIdentity(r, s, l)
  PROVE  Inv'
  <1>1. ASSUME NEW l \in EmailLogins, EmailLogin(r, l) PROVE Inv'
    <2> DEFINE started == [NoRequest EXCEPT !.op = "login", !.pc = "load", !.login = l, !.user = identities[l].user, !.password = identities[l].password]
    <2>1. /\ identities[l].user \in Users /\ Seen(identities[l].user)
          /\ users[identities[l].user].exists /\ identities[l].password \in Passwords
      BY <1>1 DEF EmailLogin, Inv, TypeOK, IdentityRow, Logins, RowsSound, Seen
    <2>2. started \in RequestState
      BY <2>1, NoRequestType DEF NoRequestFacts, RequestState, Logins
    <2>3. /\ started.op = "login" /\ started.pc = "load" /\ started.user = identities[l].user
          /\ started.login = l
      BY DEF NoRequest
    <2>4. Begin(r, started)
      BY <1>1 DEF EmailLogin
    <2> HIDE DEF started
    <2> QED
      BY <1>1, <2>1, <2>2, <2>3, <2>4, ServiceStarts, AccountsAssumption DEF EmailLogin, Logins
  <1>2. ASSUME NEW u \in Users, EmailReset(r, u) PROVE Inv'
    <2> DEFINE started == [NoRequest EXCEPT !.op = "reset", !.pc = "hash", !.user = u]
    <2>1. Seen(u) /\ users[u].exists
      BY <1>2 DEF EmailReset, Inv, RowsSound, Seen
    <2>2. started \in RequestState
      BY <2>1, NoRequestType DEF NoRequestFacts, RequestState, Logins
    <2>3. /\ started.op = "reset" /\ started.pc = "hash" /\ started.user = u
      BY DEF NoRequest
    <2>4. Begin(r, started)
      BY <1>2 DEF EmailReset
    <2> HIDE DEF started
    <2> QED
      BY <1>2, <2>1, <2>2, <2>3, <2>4, ServiceStarts, AccountsAssumption DEF EmailReset, Logins
  <1>3. ASSUME NEW s \in sessions PROVE s.user \in Users /\ Seen(s.user) /\ users[s.user].exists
    BY DEF Inv, TypeOK, Claims, SessionsSound, SessionSound, Seen
  <1>4. ASSUME NEW s \in sessions, UpdatePassword(r, s) PROVE Inv'
    <2> DEFINE started == [NoRequest EXCEPT !.op = "password", !.pc = "hash", !.user = s.user]
    <2>1. s.user \in Users /\ Seen(s.user) /\ users[s.user].exists
      BY <1>3
    <2>2. started \in RequestState
      BY <2>1, NoRequestType DEF NoRequestFacts, RequestState, Logins
    <2>3. /\ started.op = "password" /\ started.pc = "hash" /\ started.user = s.user
      BY DEF NoRequest
    <2>4. Begin(r, started)
      BY <1>4 DEF UpdatePassword
    <2> HIDE DEF started
    <2> QED
      BY <1>4, <2>1, <2>2, <2>3, <2>4, ServiceStarts, AccountsAssumption DEF UpdatePassword, Logins
  <1>5. ASSUME NEW s \in sessions, NEW l \in OAuthLogins, LinkCallback(r, s, l) PROVE Inv'
    <2> DEFINE started == [NoRequest EXCEPT !.op = "link", !.pc = "identity", !.login = l, !.user = s.user]
    <2>1. s.user \in Users /\ Seen(s.user) /\ users[s.user].exists
      BY <1>3
    <2>2. started \in RequestState
      BY <2>1, NoRequestType DEF NoRequestFacts, RequestState, Logins
    <2>3. /\ started.op = "link" /\ started.pc = "identity" /\ started.user = s.user
          /\ started.login = l
      BY DEF NoRequest
    <2>4. Begin(r, started)
      BY <1>5 DEF LinkCallback
    <2> HIDE DEF started
    <2> QED
      BY <1>5, <2>1, <2>2, <2>3, <2>4, ServiceStarts, AccountsAssumption DEF LinkCallback, Logins
  <1>6. ASSUME NEW s \in sessions, NEW l \in Logins, DisconnectIdentity(r, s, l) PROVE Inv'
    <2> DEFINE started == [NoRequest EXCEPT !.op = "disconnect", !.pc = "disconnect", !.login = l, !.user = s.user]
    <2>1. s.user \in Users /\ Seen(s.user) /\ users[s.user].exists
      BY <1>3
    <2>2. started \in RequestState
      BY <2>1, NoRequestType DEF NoRequestFacts, RequestState, Logins
    <2>3. /\ started.op = "disconnect" /\ started.pc = "disconnect" /\ started.user = s.user
          /\ started.login = l
      BY DEF NoRequest
    <2>4. Begin(r, started)
      BY <1>6 DEF DisconnectIdentity
    <2> HIDE DEF started
    <2> QED
      BY <1>6, <2>1, <2>2, <2>3, <2>4, ServiceStarts, AccountsAssumption DEF DisconnectIdentity, Logins
  <1> QED
    BY <1>1, <1>2, <1>4, <1>5, <1>6

LEMMA UpdateStarts ==
  ASSUME Inv, NEW r \in Requests, NEW s \in sessions, NEW u \in Users, UpdateUser(r, s, u)
  PROVE  Inv'
  <1>1. PICK role \in Roles, banned \in BOOLEAN :
            Begin(r, [NoRequest EXCEPT !.op = "update", !.pc = "write", !.user = u,
                      !.role = role, !.banned = banned])
    BY DEF UpdateUser, Inv, TypeOK, UserRow
  <1> DEFINE started == [NoRequest EXCEPT !.op = "update", !.pc = "write", !.user = u,
                         !.role = role, !.banned = banned]
  <1>2. started \in RequestState
    BY NoRequestType DEF NoRequestFacts, RequestState
  <1>3. started.op = "update" /\ started.pc = "write" /\ started.user = u
    BY DEF NoRequest
  <1>4. Begin(r, started)
    BY <1>1
  <1> HIDE DEF started
  <1>5. Sensible(started) /\ ~ New(started)
    BY <1>3, AccountsAssumption DEF Sensible, Fields, Served, New, UpdateUser
  <1> QED
    BY <1>2, <1>3, <1>4, <1>5, BeginKeeps DEF UpdateUser

LEMMA RequestsGoOn ==
  ASSUME Inv, NEW r \in Requests, ChooseRole(r) \/ LookupIdentity(r) \/ RequestFails(r)
  PROVE  Inv'
  <1>1. request[r] \in RequestState /\ Sensible(request[r]) /\ \A q \in Requests : request[q].user \in Users \cup {NoUser}
    BY DEF Inv, TypeOK, RequestsSound, RequestState
  <1>2. begun \in 0..MaxRequests /\ faults \in 0..MaxFaults /\ unbumped \subseteq Users
    BY DEF Inv, TypeOK
  <1>3. CASE ChooseRole(r)
    <2>1. PICK role \in Roles, pc \in {"user", "lookup"} :
              request' = [request EXCEPT ![r].role = role, ![r].pc = pc]
      BY <1>3 DEF ChooseRole, Roles
    <2> DEFINE next == [request[r] EXCEPT !.role = role, !.pc = pc]
    <2>2. request' = [request EXCEPT ![r] = next]
      BY <2>1 DEF Inv, TypeOK
    <2>3. /\ next \in RequestState /\ next.pc = pc /\ next.op = request[r].op
          /\ next.login = request[r].login /\ next.user = request[r].user
      BY <1>1 DEF RequestState
    <2> HIDE DEF next
    <2>4. request[r].pc = "role" /\ request[r].op # "update"
      BY <1>1, <1>3 DEF ChooseRole, Sensible, Fields
    <2>5. Sensible(next) /\ ~ New(next)
      BY <1>1, <2>3, <2>4 DEF Sensible, Fields, New, Served
    <2> QED
      BY <1>2, <1>3, <2>2, <2>3, <2>4, <2>5, RequestMoves DEF ChooseRole
  <1>4. CASE LookupIdentity(r)
    <2> DEFINE owner == identities[request[r].login].user
    <2>1. /\ request[r].pc = "lookup" /\ request[r].op # "update" /\ request[r].login \in Logins
          /\ owner \in Users \cup {NoUser}
      BY <1>1, <1>4 DEF LookupIdentity, Sensible, Fields, Inv, TypeOK, IdentityRow
    <2>2. owner # NoUser => users[owner].exists /\ Seen(owner)
      BY <2>1 DEF Inv, RowsSound, Seen
    <2>3. CASE owner = NoUser
      <3> DEFINE next == [request[r] EXCEPT !.pc = "user"]
      <3>1. request' = [request EXCEPT ![r] = next]
        BY <1>4, <2>3 DEF LookupIdentity, Goto, Inv, TypeOK
      <3>2. /\ next \in RequestState /\ next.pc = "user" /\ next.op = request[r].op
            /\ next.login = request[r].login /\ next.user = request[r].user
        BY <1>1 DEF RequestState
      <3> HIDE DEF next
      <3>3. Sensible(next) /\ ~ New(next)
        BY <1>1, <2>1, <3>2 DEF Sensible, Fields, New, Served
      <3> QED
        BY <1>2, <1>4, <2>1, <3>1, <3>2, <3>3, RequestMoves DEF LookupIdentity
    <2>4. CASE owner # NoUser
      <3> DEFINE next == [request[r] EXCEPT !.user = owner, !.pc = "load"]
      <3>1. request' = [request EXCEPT ![r] = next]
        BY <1>4, <2>4 DEF LookupIdentity, Inv, TypeOK
      <3>2. /\ next \in RequestState /\ next.pc = "load" /\ next.op = request[r].op
            /\ next.login = request[r].login /\ next.user = owner
        BY <1>1, <2>1 DEF RequestState
      <3> HIDE DEF next, owner
      <3>3. Sensible(next) /\ ~ New(next)
        BY <1>1, <2>1, <2>2, <2>4, <3>2 DEF Sensible, Fields, New, Served
      <3> QED
        BY <1>2, <1>4, <2>1, <2>2, <2>4, <3>1, <3>2, <3>3, RequestMoves DEF LookupIdentity
    <2> QED
      BY <2>3, <2>4
  <1>5. CASE RequestFails(r)
    <2>1. /\ unbumped' \subseteq Users /\ unbumped \subseteq unbumped'
          /\ request[r].pc = "bump" => request[r].user \in unbumped'
          /\ faults' \in 0..MaxFaults
      BY <1>1, <1>2, <1>5, AccountsAssumption DEF RequestFails, Sensible, Fields, Served, Fault
    <2> QED
      BY <1>2, <1>5, <2>1, NoRequestType, RequestMoves DEF NoRequestFacts, RequestFails, End
  <1> QED
    BY <1>3, <1>4, <1>5

-----------------------------------------------------------------------------
(* What a step may do to the rest of the state *)

\* A request that is not for a new user lets nobody see one.
LEMMA AloneKept ==
  ASSUME Inv, NEW r \in Requests,
         \A q \in Requests \ {r} : request'[q] = request[q],
         ~ New(request'[r]),
         \/ request'[r].user = NoUser
         \/ request'[r].user = request[r].user /\ request'[r].op = request[r].op,
         \A u \in Users : Seen(u)' => Seen(u) \/ (u = request[r].user /\ request[r].op # "update")
  PROVE  NewUsersAreAlone'
  <1> SUFFICES ASSUME NEW p \in Requests, New(request'[p])
               PROVE  /\ ~ Seen(request[p].user)'
                      /\ request'[p] = request[p]
                      /\ \A q \in Requests \ {p} : request'[q].user = request[p].user
                              => request'[q].op = "update"
    BY DEF NewUsersAreAlone, New, Seen
  <1>1. p # r /\ request'[p] = request[p] /\ New(request[p])
    OBVIOUS
  <1>2. request[p].user \in Users /\ request[p].user # NoUser
    BY <1>1, AccountsAssumption DEF Inv, RequestsSound, Sensible, Fields, New, Served
  <1>3. /\ ~ Seen(request[p].user)
        /\ \A q \in Requests \ {p} :
              request[q].user = request[p].user => request[q].op = "update"
    BY <1>1 DEF Inv, NewUsersAreAlone
  <1>4. ~ Seen(request[p].user)'
    BY <1>1, <1>2, <1>3
  <1>5. request'[r].user = request[p].user => request'[r].op = "update"
    BY <1>1, <1>2, <1>3
  <1> QED
    BY <1>1, <1>3, <1>4, <1>5

LEMMA AloneStays ==
  ASSUME Inv, request' = request, \A u \in Users : Seen(u)' => Seen(u)
  PROVE  NewUsersAreAlone'
  <1> SUFFICES ASSUME NEW p \in Requests, New(request[p])
               PROVE  /\ ~ Seen(request[p].user)'
                      /\ \A q \in Requests \ {p} : request[q].user = request[p].user
                              => request[q].op = "update"
    BY DEF NewUsersAreAlone, New, Seen
  <1>1. request[p].user \in Users
    BY DEF Inv, RequestsSound, Sensible, Fields, New, Served
  <1> QED
    BY <1>1 DEF Inv, NewUsersAreAlone

\* A session keeps its soundness when the generation of its user does not
\* change, or when that is raised.
LEMMA SessionKept ==
  ASSUME Inv, NEW s \in sessions, users'[s.user].exists,
         \/ /\ users'[s.user].generation[s.audience] = users[s.user].generation[s.audience]
            /\ users'[s.user].role = users[s.user].role /\ bans'[s.user] = bans[s.user]
            /\ PasswordKnown(s) => PasswordKnown(s)'
         \/ users'[s.user].generation[s.audience] = users[s.user].generation[s.audience] + 1
  PROVE  SessionSound(s)'
  <1>1. SessionSound(s) /\ s \in Claims /\ s.user \in Users /\ s.audience \in Audiences
    BY DEF Inv, SessionsSound, TypeOK, Claims
  <1>2. users[s.user].generation[s.audience] \in Nat /\ s.generation \in Nat
    BY <1>1 DEF Inv, TypeOK, UserRow, Generations, Claims
  <1> QED
    BY <1>1, <1>2 DEF SessionSound, Level

\* What is left of the requests when r goes on or ends.
LEMMA RowChanges ==
  ASSUME Inv, NEW r \in Requests, NEW next \in RequestState,
         request' = [request EXCEPT ![r] = next], Sensible(next),
         \A u \in Users : users[u].exists => users'[u].exists
  PROVE  /\ request' \in [Requests -> RequestState] /\ RequestsSound'
         /\ request'[r] = next /\ \A q \in Requests \ {r} : request'[q] = request[q]
         /\ request[r].pc # "bump" => \A u : Changing(u) => Changing(u)'
         /\ \A u : u # request[r].user /\ Changing(u) => Changing(u)'
  <1>1. /\ request' \in [Requests -> RequestState]
        /\ request'[r] = next /\ \A q \in Requests \ {r} : request'[q] = request[q]
    BY DEF Inv, TypeOK
  <1>2. RequestsSound'
    <2> SUFFICES ASSUME NEW q \in Requests
                 PROVE  /\ Fields(request'[q])
                        /\ request'[q].user # NoUser => users'[request'[q].user].exists
      BY DEF RequestsSound, Sensible
    <2>1. \A p \in RequestState : p.user \in Users \cup {NoUser}
      BY DEF RequestState
    <2> QED
      BY <1>1, <2>1 DEF Sensible, Inv, TypeOK, RequestsSound
  <1>3. /\ request[r].pc # "bump" => \A u : Changing(u) => Changing(u)'
        /\ \A u : u # request[r].user /\ Changing(u) => Changing(u)'
    BY <1>1 DEF Changing
  <1> QED
    BY <1>1, <1>2, <1>3

-----------------------------------------------------------------------------
(* Mailed tokens *)

\* The tokens change, and a request may end.
LEMMA TokensChange ==
  ASSUME Inv, tokens' \subseteq EmailToken,
         UNCHANGED <<users, identities, sessions, bans, unbumped, begun, faults>>,
         \/ request' = request /\ \A t \in tokens' \ tokens :
                                    users[t.user].exists /\ Seen(t.user)
         \/ \E r \in Requests :
                /\ End(r) /\ request[r].pc \in {"tokens", "spend"}
                /\ \A t \in tokens' \ tokens : t.user = request[r].user
  PROVE  Inv'
  <1>1. CASE request' = request
    <2>1. CASE \A t \in tokens' \ tokens : users[t.user].exists /\ Seen(t.user)
      <3>1. TypeOK' /\ RowsSound' /\ RequestsSound' /\ SessionsSound'
        BY <1>1, <2>1 DEF Inv, TypeOK, RowsSound, RequestsSound, Sensible, SessionsSound,
                           SessionSound, Level, PasswordKnown, Changing
      <3>2. \A u \in Users : Seen(u)' => Seen(u)
        BY <2>1 DEF Seen
      <3> QED
        BY <1>1, <3>1, <3>2, AloneStays DEF Inv
    <2>2. CASE \E r \in Requests : End(r) /\ request[r].pc \in {"tokens", "spend"}
      <3>1. PICK r \in Requests : End(r) /\ request[r].pc \in {"tokens", "spend"}
        BY <2>2
      <3>2. request'[r].pc = "idle"
        BY <3>1, NoRequestType DEF End, NoRequestFacts, Inv, TypeOK
      <3> QED
        BY <1>1, <3>1, <3>2
    <2> QED
      BY <2>1, <2>2
  <1>2. ASSUME NEW r \in Requests, End(r), request[r].pc \in {"tokens", "spend"},
               \A t \in tokens' \ tokens : t.user = request[r].user
        PROVE  Inv'
    <2>1. /\ request' \in [Requests -> RequestState] /\ RequestsSound'
          /\ request'[r] = NoRequest /\ \A q \in Requests \ {r} : request'[q] = request[q]
          /\ \A u : Changing(u) => Changing(u)'
      BY <1>2, RowChanges, NoRequestType DEF NoRequestFacts, End
    <2>2. users[request[r].user].exists /\ request[r].op # "update"
      BY <1>2, AccountsAssumption DEF Inv, RequestsSound, Sensible, Fields, Served
    <2>3. TypeOK' /\ RowsSound'
      BY <1>2, <2>1, <2>2 DEF Inv, TypeOK, RowsSound
    <2>4. NewUsersAreAlone'
      <3>1. \A u \in Users : Seen(u)' => Seen(u) \/ u = request[r].user
        BY <1>2 DEF Seen
      <3> QED
        BY <2>1, <2>2, <3>1, AloneKept, NoRequestType DEF NoRequestFacts
    <2>5. SessionsSound'
      BY <2>1 DEF Inv, SessionsSound, SessionSound, Level, PasswordKnown
    <2> QED
      BY <2>1, <2>3, <2>4, <2>5 DEF Inv
  <1> QED
    BY <1>1, <1>2

LEMMA TokensKeep ==
  ASSUME Inv,
         \/ \E r \in Requests : CreateTokens(r) \/ SpendResetToken(r)
         \/ \E l \in EmailLogins : EmailResend(l) \/ EmailForgot(l)
         \/ \E token \in tokens : ExpireToken(token)
  PROVE  Inv'
  <1>1. ASSUME NEW r \in Requests, CreateTokens(r) PROVE Inv'
    <2>1. request[r].user \in Users
      BY <1>1 DEF CreateTokens, Inv, RequestsSound, Sensible, Fields, Served
    <2>2. tokens' \subseteq EmailToken /\ \A t \in tokens' \ tokens : t.user = request[r].user
      BY <1>1, <2>1 DEF CreateTokens, Inv, TypeOK, EmailToken, TokenTypes
    <2> QED
      BY <1>1, <2>2, TokensChange DEF CreateTokens
  <1>2. ASSUME NEW r \in Requests, SpendResetToken(r) PROVE Inv'
    BY <1>2, TokensChange DEF SpendResetToken, Inv, TypeOK
  <1>3. ASSUME NEW l \in EmailLogins, NEW type \in TokenTypes, MailToken(l, type) PROVE Inv'
    <2>1. l \in Logins /\ identities[l].user \in Users
      BY <1>3 DEF MailToken, Logins, Inv, TypeOK, IdentityRow
    <2>2. tokens' \subseteq EmailToken
      BY <1>3, <2>1 DEF MailToken, Inv, TypeOK, EmailToken
    <2>3. \A t \in tokens' \ tokens : users[t.user].exists /\ Seen(t.user)
      BY <1>3, <2>1 DEF MailToken, Inv, RowsSound, Seen
    <2> QED
      BY <1>3, <2>2, <2>3, TokensChange DEF MailToken
  <1>4. ASSUME NEW token \in tokens, ExpireToken(token) PROVE Inv'
    BY <1>4, TokensChange DEF ExpireToken, Inv, TypeOK
  <1> QED
    BY <1>1, <1>2, <1>3, <1>4 DEF EmailResend, EmailForgot, TokenTypes

LEMMA VerifyKeeps ==
  ASSUME Inv, NEW u \in Users, EmailVerify(u)
  PROVE  Inv'
  <1>1. UNCHANGED <<identities, sessions, request, bans, unbumped, begun>>
    BY DEF EmailVerify
  <1>2. tokens' \subseteq tokens /\ users[u].exists
    BY DEF EmailVerify, Inv, RowsSound
  <1>3. /\ users' \in [Users -> UserRow]
        /\ \A v \in Users : /\ users'[v].exists = users[v].exists
                            /\ users'[v].role = users[v].role
                            /\ users'[v].generation = users[v].generation
                            /\ ~ users'[v].exists => users'[v] = users[v]
    <2>1. users[u] \in UserRow
      BY DEF Inv, TypeOK
    <2> DEFINE row == [users[u] EXCEPT !.emailVerified = TRUE]
    <2>2. /\ row \in UserRow /\ row.exists = users[u].exists /\ row.role = users[u].role
          /\ row.generation = users[u].generation
      BY <2>1 DEF UserRow
    <2>3. users' = users \/ users' = [users EXCEPT ![u] = row]
      BY DEF EmailVerify, Inv, TypeOK
    <2> HIDE DEF row
    <2> QED
      BY <1>2, <2>2, <2>3 DEF Inv, TypeOK
  <1>4. TypeOK'
    BY <1>1, <1>2, <1>3, AccountsAssumption DEF EmailVerify, Fault, Inv, TypeOK
  <1>5. RowsSound'
    BY <1>1, <1>2, <1>3 DEF Inv, TypeOK, EmailToken, IdentityRow, RowsSound
  <1>6. RequestsSound'
    BY <1>1, <1>3 DEF Inv, TypeOK, RequestState, RequestsSound, Sensible
  <1>7. NewUsersAreAlone'
    BY <1>1, <1>2, AloneStays DEF Seen
  <1>8. SessionsSound'
    <2> SUFFICES ASSUME NEW s \in sessions PROVE SessionSound(s)'
      BY <1>1 DEF SessionsSound
    <2>1. s.user \in Users /\ users[s.user].exists
      BY DEF Inv, TypeOK, Claims, SessionsSound, SessionSound
    <2> QED
      BY <1>1, <1>3, <2>1, SessionKept DEF PasswordKnown, Changing
  <1> QED
    BY <1>4, <1>5, <1>6, <1>7, <1>8 DEF Inv

-----------------------------------------------------------------------------
(* Sessions *)

\* A session that is issued is sound: it copies the row of its user, and knows
\* the password or that it was overtaken.
LEMMA IssuedIsSound ==
  ASSUME Inv, NEW u \in Users, NEW audience \in Audiences,
         NEW l \in EmailLogins \cup {NoLogin}, NEW password \in Passwords,
         users[u].exists, Issue(u, audience, l, password),
         UNCHANGED <<users, identities, bans, unbumped>>,
         \A v : Changing(v) => Changing(v)'
  PROVE  /\ sessions' \subseteq Claims /\ SessionsSound'
         /\ \A s \in sessions' \ sessions : s.user = u
  <1> DEFINE new == [user |-> u, audience |-> audience, role |-> users[u].role,
                     generation |-> users[u].generation[audience],
                     login |-> l, password |-> password,
                     overtaken |-> l # NoLogin /\ identities[l].password # password,
                     bans |-> bans[u]]
  <1>1. new \in Claims
    BY DEF Inv, TypeOK, UserRow, Claims, Logins
  <1>2. sessions' = sessions \cup {new}
    BY DEF Issue
  <1>3. /\ new.user = u /\ new.audience = audience /\ new.role = users[u].role
        /\ new.generation = users[u].generation[audience] /\ new.login = l
        /\ new.password = password /\ new.bans = bans[u]
        /\ new.overtaken = (l # NoLogin /\ identities[l].password # password)
    OBVIOUS
  <1> HIDE DEF new
  <1>4. users[u].generation[audience] \in Nat
    BY DEF Inv, TypeOK, UserRow, Generations
  <1>5. \A s \in sessions : SessionSound(s)'
    BY DEF Inv, SessionsSound, SessionSound, Level, PasswordKnown
  <1>6. ASSUME NEW s, s = new PROVE SessionSound(s)'
    <2>1. PasswordKnown(s)'
      BY <1>3, <1>6 DEF PasswordKnown
    <2>2. s.generation <= users[u].generation[audience]
      BY <1>3, <1>4, <1>6
    <2> QED
      BY <1>3, <1>6, <2>1, <2>2 DEF SessionSound, Level
  <1>7. SessionsSound'
    BY <1>2, <1>5, <1>6 DEF SessionsSound
  <1>8. \A s \in sessions' \ sessions : s.user = u
    BY <1>2, <1>3
  <1>9. sessions' \subseteq Claims
    BY <1>1, <1>2 DEF Inv, TypeOK
  <1> QED
    BY <1>7, <1>8, <1>9

LEMMA LoadKeeps ==
  ASSUME Inv, NEW r \in Requests, Load(r)
  PROVE  Inv'
  <1>1. /\ request[r] \in RequestState /\ request[r].pc = "load" /\ request[r].op # "update"
        /\ request[r].user \in Users /\ users[request[r].user].exists
        /\ request[r].op = "login" => request[r].login \in EmailLogins
        /\ request[r].password \in Passwords
    <2>1. request[r] \in RequestState /\ request[r].pc = "load" /\ Sensible(request[r])
      BY DEF Load, Inv, TypeOK, RequestsSound
    <2> QED
      BY <2>1, AccountsAssumption DEF Sensible, Fields, Served, RequestState
  <1>2. /\ UNCHANGED <<users, identities, tokens, bans, unbumped, begun, faults>> /\ End(r)
        /\ begun \in 0..MaxRequests /\ faults \in 0..MaxFaults /\ unbumped \subseteq Users
    BY DEF Load, Inv, TypeOK
  <1>3. CASE sessions' = sessions
    BY <1>1, <1>2, <1>3, RequestMoves, NoRequestType DEF End, NoRequestFacts
  <1>4. ASSUME NEW audience \in Audiences, NEW l \in EmailLogins \cup {NoLogin},
               NEW password \in Passwords, Issue(request[r].user, audience, l, password)
        PROVE  Inv'
    <2>1. /\ request' \in [Requests -> RequestState] /\ RequestsSound'
          /\ request'[r] = NoRequest /\ \A q \in Requests \ {r} : request'[q] = request[q]
          /\ \A u : Changing(u) => Changing(u)'
      BY <1>1, <1>2, RowChanges, NoRequestType DEF NoRequestFacts, End
    <2>2. /\ sessions' \subseteq Claims /\ SessionsSound'
          /\ \A s \in sessions' \ sessions : s.user = request[r].user
      BY <1>1, <1>2, <1>4, <2>1, IssuedIsSound
    <2>3. TypeOK' /\ RowsSound'
      BY <1>2, <2>1, <2>2 DEF Inv, TypeOK, RowsSound
    <2>4. NewUsersAreAlone'
      <3>1. \A u \in Users : Seen(u)' => Seen(u) \/ u = request[r].user
        BY <1>2, <2>2 DEF Seen
      <3> QED
        BY <1>1, <2>1, <3>1, AloneKept, NoRequestType DEF NoRequestFacts
    <2> QED
      BY <2>1, <2>2, <2>3, <2>4 DEF Inv
  <1>5. \/ sessions' = sessions
        \/ \E audience \in Audiences, l \in EmailLogins \cup {NoLogin}, password \in Passwords :
              Issue(request[r].user, audience, l, password)
    <2>1. 0 \in Passwords
      BY AccountsAssumption DEF Passwords
    <2> QED
      BY <1>1, <2>1 DEF Load, Audiences
  <1> QED
    BY <1>3, <1>4, <1>5

LEMMA PollKeeps ==
  ASSUME Inv, NEW u \in Users, EmailPoll(u)
  PROVE  Inv'
  <1>1. /\ UNCHANGED <<users, identities, request, bans, unbumped, begun>>
        /\ tokens' \subseteq tokens /\ users[u].exists /\ Seen(u)
        /\ Issue(u, "dashboard", NoLogin, 0)
    BY DEF EmailPoll, Inv, RowsSound, Seen
  <1>2. /\ sessions' \subseteq Claims /\ SessionsSound'
        /\ \A s \in sessions' \ sessions : s.user = u
    BY <1>1, IssuedIsSound, AccountsAssumption DEF Audiences, Passwords, Changing
  <1>3. TypeOK'
    BY <1>1, <1>2, AccountsAssumption DEF EmailPoll, Fault, Inv, TypeOK
  <1>4. RowsSound' /\ RequestsSound'
    BY <1>1 DEF Inv, RowsSound, RequestsSound, Sensible
  <1>5. \A v \in Users : Seen(v)' => Seen(v)
    BY <1>1, <1>2 DEF Seen
  <1> QED
    BY <1>1, <1>2, <1>3, <1>4, <1>5, AloneStays DEF Inv

LEMMA LogoutKeeps ==
  ASSUME Inv, NEW s \in sessions, Logout(s)
  PROVE  Inv'
  <1>1. /\ UNCHANGED <<users, identities, tokens, request, bans, unbumped, begun, faults>>
        /\ sessions' \subseteq sessions
    BY DEF Logout
  <1>2. \A v \in Users : Seen(v)' => Seen(v)
    BY <1>1 DEF Seen
  <1>3. SessionsSound'
    BY <1>1 DEF Inv, SessionsSound, SessionSound, Level, PasswordKnown, Changing
  <1>4. TypeOK' /\ RowsSound' /\ RequestsSound'
    BY <1>1 DEF Inv, TypeOK, RowsSound, RequestsSound, Sensible
  <1> QED
    BY <1>1, <1>2, <1>3, <1>4, AloneStays DEF Inv

-----------------------------------------------------------------------------
(* New users and their identities *)

LEMMA CreateUserKeeps ==
  ASSUME Inv, NEW r \in Requests, CreateUser(r)
  PROVE  Inv'
  <1>1. PICK u \in Users :
            /\ ~ users[u].exists
            /\ users' = [users EXCEPT ![u] =
                    [NoRow EXCEPT !.exists = TRUE, !.role = request[r].role]]
            /\ request' = [request EXCEPT ![r].user = u, ![r].pc = "identity"]
    BY DEF CreateUser
  <1>2. /\ request[r].pc = "user" /\ request[r] \in RequestState /\ Sensible(request[r])
        /\ UNCHANGED <<identities, tokens, sessions, bans, unbumped, begun, faults>>
    BY DEF CreateUser, Inv, TypeOK, RequestsSound
  <1>3. PICK row \in UserRow :
            /\ users' = [users EXCEPT ![u] = row] /\ row.exists
            /\ \A a \in Audiences : row.generation[a] = 0
    <2> DEFINE row == [NoRow EXCEPT !.exists = TRUE, !.role = request[r].role]
    <2>1. /\ row.exists = TRUE /\ row.generation = [a \in Audiences |-> 0]
          /\ users' = [users EXCEPT ![u] = row]
      BY <1>1 DEF NoRow
    <2>2. row \in UserRow
      <3>1. NoRow \in UserRow
        BY AccountsAssumption DEF NoRow, UserRow, Roles, Generations
      <3>2. request[r].role \in Roles
        BY <1>2 DEF RequestState
      <3> QED
        BY <3>1, <3>2 DEF UserRow
    <2> HIDE DEF row
    <2> QED
      BY <2>1, <2>2
  <1>4. PICK next \in RequestState :
            /\ request' = [request EXCEPT ![r] = next]
            /\ next.user = u /\ next.pc = "identity" /\ next.op = request[r].op
            /\ next.login = request[r].login
    <2> DEFINE next == [request[r] EXCEPT !.user = u, !.pc = "identity"]
    <2>1. request' = [request EXCEPT ![r] = next]
      BY <1>1 DEF Inv, TypeOK
    <2>2. /\ next \in RequestState /\ next.user = u /\ next.pc = "identity"
          /\ next.op = request[r].op /\ next.login = request[r].login
      BY <1>2 DEF RequestState
    <2> HIDE DEF next
    <2> QED
      BY <2>1, <2>2
  <1>5. /\ users'[u] = row /\ \A v \in Users \ {u} : users'[v] = users[v]
        /\ request'[r] = next /\ \A q \in Requests \ {r} : request'[q] = request[q]
        /\ \A v \in Users : users[v].exists => v # u
    BY <1>1, <1>3, <1>4 DEF Inv, TypeOK
  \* Nothing refers to a user who does not exist.
  <1>6. /\ ~ Seen(u) /\ bans[u] = 0
        /\ \A q \in Requests : request[q].user # u
    BY <1>1, AccountsAssumption
       DEF Inv, RowsSound, SessionsSound, SessionSound, Seen, RequestsSound, Sensible
  <1>7. TypeOK'
    BY <1>2, <1>3, <1>4 DEF Inv, TypeOK
  <1>8. RowsSound'
    <2>1. \A v \in Users, a \in Audiences : bans'[v] <= users'[v].generation[a]
      BY <1>2, <1>3, <1>5, <1>6 DEF Inv, RowsSound
    <2>2. \A v \in Users : ~ users'[v].exists => users'[v] = NoRow /\ bans'[v] = 0
      BY <1>2, <1>3, <1>5 DEF Inv, RowsSound
    <2>3. \A v \in Users : users[v].exists => users'[v].exists
      BY <1>3, <1>5
    <2>4. /\ \A l \in Logins : identities[l].user \in Users \cup {NoUser}
          /\ \A token \in tokens : token.user \in Users
      BY DEF Inv, TypeOK, IdentityRow, EmailToken
    <2> QED
      BY <1>2, <2>1, <2>2, <2>3, <2>4 DEF Inv, RowsSound
  <1>9. RequestsSound'
    <2> SUFFICES ASSUME NEW q \in Requests
                 PROVE  /\ Fields(request'[q])
                        /\ request'[q].user # NoUser => users'[request'[q].user].exists
      BY DEF RequestsSound, Sensible
    <2>1. CASE q = r
      BY <1>2, <1>3, <1>4, <1>5, <2>1 DEF Sensible, Fields, Served
    <2>2. CASE q # r
      <3>1. request[q].user \in Users \cup {NoUser}
        BY DEF Inv, TypeOK, RequestState
      <3> QED
        BY <1>3, <1>5, <2>2, <3>1 DEF Inv, RequestsSound, Sensible
    <2> QED
      BY <2>1, <2>2
  <1>10. NewUsersAreAlone'
    <2> SUFFICES ASSUME NEW p \in Requests, New(request'[p])
                 PROVE  /\ ~ Seen(request'[p].user)
                        /\ \A q \in Requests \ {p} : request'[q].user = request'[p].user
                                => request'[q].op = "update"
      BY <1>2 DEF NewUsersAreAlone, New, Seen
    <2>1. CASE p = r
      BY <1>4, <1>5, <1>6, <2>1
    <2>2. CASE p # r
      <3>1. New(request[p]) /\ request'[p] = request[p]
        BY <1>5, <2>2
      <3> QED
        BY <1>4, <1>5, <1>6, <2>2, <3>1 DEF Inv, NewUsersAreAlone
    <2> QED
      BY <2>1, <2>2
  <1>11. SessionsSound'
    <2> SUFFICES ASSUME NEW s \in sessions PROVE SessionSound(s)'
      BY <1>2 DEF SessionsSound
    <2>1. s.user \in Users /\ users[s.user].exists
      BY DEF Inv, TypeOK, Claims, SessionsSound, SessionSound
    <2>2. users'[s.user] = users[s.user]
      BY <1>5, <2>1
    <2>3. Changing(s.user) => Changing(s.user)'
      BY <1>2, <1>5 DEF Changing
    <2> QED
      BY <1>2, <2>1, <2>2, <2>3, SessionKept DEF PasswordKnown
  <1> QED
    BY <1>7, <1>8, <1>9, <1>10, <1>11 DEF Inv

LEMMA CreateIdentityKeeps ==
  ASSUME Inv, NEW r \in Requests, CreateIdentity(r)
  PROVE  Inv'
  <1> DEFINE l == request[r].login
             u == request[r].user
  <1>1. /\ request[r] \in RequestState /\ request[r].pc = "identity" /\ l \in Logins
        /\ request[r].op # "update" /\ u \in Users /\ users[u].exists
        /\ request[r].op = "link" => l \in OAuthLogins
        /\ UNCHANGED <<users, tokens, sessions, bans, unbumped, begun, faults>>
    <2>1. request[r] \in RequestState /\ request[r].pc = "identity" /\ Sensible(request[r])
      BY DEF CreateIdentity, Inv, TypeOK, RequestsSound
    <2> QED
      BY <2>1, AccountsAssumption DEF CreateIdentity, Sensible, Fields, Served
  <1>2. CASE identities[l].user # NoUser
    <2>1. /\ End(r) /\ identities' = identities
          /\ begun \in 0..MaxRequests /\ faults \in 0..MaxFaults /\ unbumped \subseteq Users
      BY <1>2 DEF CreateIdentity, Inv, TypeOK
    <2> QED
      BY <1>1, <2>1, RequestMoves, NoRequestType DEF End, NoRequestFacts
  <1>3. CASE identities[l].user = NoUser
    <2> DEFINE row == [user |-> u, password |-> 0]
    <2>1. identities' = [identities EXCEPT ![l] = row]
      BY <1>3 DEF CreateIdentity
    <2>2. row \in IdentityRow /\ row.user = u
      BY <1>1, AccountsAssumption DEF IdentityRow, Passwords
    <2> HIDE DEF row
    <2>3. PICK next \in RequestState :
              /\ request' = [request EXCEPT ![r] = next] /\ Sensible(next) /\ next.pc # "identity"
              /\ next.user = NoUser \/ (next.user = u /\ next.op = request[r].op)
      <3>1. CASE End(r)
        BY <3>1, NoRequestType DEF End, NoRequestFacts
      <3>2. ASSUME NEW pc \in {"tokens", "load"}, Goto(r, pc),
                   pc = "load" => request[r].op # "register"
            PROVE  \E next \in RequestState :
                      /\ request' = [request EXCEPT ![r] = next]
                      /\ Sensible(next) /\ next.pc # "identity"
                      /\ next.user = NoUser \/ (next.user = u /\ next.op = request[r].op)
        <4> DEFINE next == [request[r] EXCEPT !.pc = pc]
        <4>1. request' = [request EXCEPT ![r] = next]
          BY <3>2 DEF Goto, Inv, TypeOK
        <4>2. /\ next \in RequestState /\ next.pc = pc /\ next.op = request[r].op
              /\ next.login = l /\ next.user = u
          BY <1>1 DEF RequestState
        <4> HIDE DEF next
        <4>3. Sensible(next)
          BY <1>1, <4>2 DEF Sensible, Fields, Served, Inv, RequestsSound
        <4> QED
          BY <4>1, <4>2, <4>3
      <3> QED
        BY <1>3, <3>1, <3>2 DEF CreateIdentity
    <2>4. /\ request' \in [Requests -> RequestState] /\ RequestsSound'
          /\ request'[r] = next /\ \A q \in Requests \ {r} : request'[q] = request[q]
          /\ \A v : Changing(v) => Changing(v)'
      BY <1>1, <2>3, RowChanges
    <2>5. identities'[l] = row /\ \A k \in Logins \ {l} : identities'[k] = identities[k]
      BY <1>1, <2>1 DEF Inv, TypeOK
    <2>6. TypeOK'
      BY <1>1, <2>1, <2>2, <2>4 DEF Inv, TypeOK
    <2>7. RowsSound'
      BY <1>1, <2>2, <2>5 DEF Inv, RowsSound
    <2>8. NewUsersAreAlone'
      <3>1. \A v \in Users : Seen(v)' => Seen(v) \/ v = u
        BY <1>1, <2>2, <2>5 DEF Seen
      <3> QED
        BY <1>1, <2>3, <2>4, <3>1, AloneKept DEF New
    <2>9. SessionsSound'
      <3> SUFFICES ASSUME NEW s \in sessions PROVE SessionSound(s)'
        BY <1>1 DEF SessionsSound
      <3>1. /\ s.user \in Users /\ users[s.user].exists
            /\ s.login \in EmailLogins \cup {NoLogin}
        BY DEF Inv, TypeOK, Claims, SessionsSound, SessionSound
      \* A new identity is of a new user, who has no session, or no address.
      <3>2. s.login = l => s.user # u
        <4>1. CASE request[r].op = "link"
          BY <1>1, <3>1, <4>1, AccountsAssumption DEF Logins
        <4>2. CASE request[r].op # "link"
          BY <1>1, <4>2 DEF Inv, NewUsersAreAlone, New, Seen
        <4> QED
          BY <4>1, <4>2
      <3>3. PasswordKnown(s) => PasswordKnown(s)'
        <4> SUFFICES ASSUME PasswordKnown(s), s.login # NoLogin,
                            identities'[s.login].user = s.user
                     PROVE  \/ s.password = identities'[s.login].password
                            \/ s.overtaken
                            \/ Changing(s.user)' \/ s.user \in unbumped'
          BY <1>1 DEF PasswordKnown
        <4>1. s.login \in Logins /\ s.login # l
          BY <2>2, <2>5, <3>1, <3>2 DEF Logins
        <4> QED
          BY <1>1, <2>4, <2>5, <4>1 DEF PasswordKnown
      <3> QED
        BY <1>1, <3>1, <3>3, SessionKept
    <2> QED
      BY <2>4, <2>6, <2>7, <2>8, <2>9 DEF Inv
  <1> QED
    BY <1>2, <1>3

\* Identities lose their user or get a new password.
LEMMA IdentitiesChange ==
  ASSUME Inv, NEW r \in Requests, NEW next \in RequestState,
         request' = [request EXCEPT ![r] = next], Sensible(next), ~ New(next),
         next.user = NoUser \/ (next.user = request[r].user /\ next.op = request[r].op),
         identities' \in [Logins -> IdentityRow], request[r].pc # "bump",
         \A l \in Logins : identities'[l].user \in {identities[l].user, NoUser},
         \A l \in Logins : \/ identities'[l] = identities[l] \/ identities'[l].user = NoUser
                           \/ next.pc = "bump" /\ identities[l].user = next.user,
         UNCHANGED <<users, tokens, sessions, bans, unbumped, begun, faults>>
  PROVE  Inv'
  <1>1. /\ request' \in [Requests -> RequestState] /\ RequestsSound'
        /\ request'[r] = next /\ \A q \in Requests \ {r} : request'[q] = request[q]
        /\ \A v : Changing(v) => Changing(v)'
    BY RowChanges
  <1>2. TypeOK'
    BY <1>1 DEF Inv, TypeOK
  <1>3. RowsSound'
    BY DEF Inv, RowsSound
  <1>4. NewUsersAreAlone'
    <2>1. \A v \in Users : Seen(v)' => Seen(v)
      BY AccountsAssumption DEF Seen
    <2>2. /\ ~ New(request'[r])
          /\ \/ request'[r].user = NoUser
             \/ request'[r].user = request[r].user /\ request'[r].op = request[r].op
      BY <1>1
    <2>3. \A q \in Requests \ {r} : request'[q] = request[q]
      BY <1>1
    <2>4. \A v \in Users :
              Seen(v)' => Seen(v) \/ (v = request[r].user /\ request[r].op # "update")
      BY <2>1
    <2> QED
      BY <2>2, <2>3, <2>4, AloneKept
  <1>5. SessionsSound'
    <2> SUFFICES ASSUME NEW s \in sessions PROVE SessionSound(s)'
      BY DEF SessionsSound
    <2>1. /\ s.user \in Users /\ users[s.user].exists
          /\ s.login \in EmailLogins \cup {NoLogin}
      BY DEF Inv, TypeOK, Claims, SessionsSound, SessionSound
    <2>2. PasswordKnown(s) => PasswordKnown(s)'
      <3> SUFFICES ASSUME PasswordKnown(s), s.login # NoLogin,
                          identities'[s.login].user = s.user
                   PROVE  \/ s.password = identities'[s.login].password
                          \/ s.overtaken
                          \/ Changing(s.user)' \/ s.user \in unbumped'
        BY DEF PasswordKnown
      <3>1. s.login \in Logins /\ identities[s.login].user = s.user
        BY <2>1, AccountsAssumption DEF Logins
      <3>2. identities'[s.login] = identities[s.login] \/ Changing(s.user)'
        BY <1>1, <2>1, <3>1, AccountsAssumption DEF Changing
      <3> QED
        BY <1>1, <3>1, <3>2 DEF PasswordKnown
    <2> QED
      BY <2>1, <2>2, SessionKept
  <1> QED
    BY <1>1, <1>2, <1>3, <1>4, <1>5 DEF Inv

LEMMA UpdatePasswordHashKeeps ==
  ASSUME Inv, NEW r \in Requests, UpdatePasswordHash(r)
  PROVE  Inv'
  <1> DEFINE changed == LoginsOf(request[r].user) \cap EmailLogins
             next == [request[r] EXCEPT !.pc = "bump"]
  <1>1. /\ request[r] \in RequestState /\ request[r].pc = "hash" /\ Sensible(request[r])
        /\ UNCHANGED <<users, tokens, sessions, bans, unbumped, begun, faults>>
    BY DEF UpdatePasswordHash, Inv, TypeOK, RequestsSound
  <1>2. request' = [request EXCEPT ![r] = next]
    BY DEF UpdatePasswordHash, Goto, Inv, TypeOK
  <1>3. /\ next \in RequestState /\ next.pc = "bump" /\ next.op = request[r].op
        /\ next.login = request[r].login /\ next.user = request[r].user
    BY <1>1 DEF RequestState
  <1> HIDE DEF next
  <1>4. Sensible(next) /\ ~ New(next)
    BY <1>1, <1>3 DEF Sensible, Fields, Served, New
  <1>5. /\ identities' = [l \in Logins |->
              IF l \in changed THEN [identities[l] EXCEPT !.password = @ + 1]
              ELSE identities[l]]
        /\ \A l \in changed : identities[l].password < MaxPassword
    BY DEF UpdatePasswordHash
  <1>6. \A l \in changed : identities[l].user = request[r].user
    BY DEF LoginsOf
  <1> HIDE DEF changed
  <1>7. ASSUME NEW l \in Logins
        PROVE  /\ identities'[l] \in IdentityRow /\ identities'[l].user = identities[l].user
               /\ identities'[l] = identities[l] \/ identities[l].user = request[r].user
    <2>1. identities[l] \in IdentityRow
      BY DEF Inv, TypeOK
    <2>2. CASE l \in changed
      <3>1. identities'[l] = [identities[l] EXCEPT !.password = @ + 1]
        BY <1>5, <2>2
      <3>2. identities[l].password + 1 \in Passwords
        BY <1>5, <2>1, <2>2, AccountsAssumption DEF IdentityRow, Passwords
      <3> QED
        BY <1>6, <2>1, <2>2, <3>1, <3>2 DEF IdentityRow
    <2>3. CASE l \notin changed
      BY <1>5, <2>1, <2>3
    <2> QED
      BY <2>2, <2>3
  <1>8. identities' \in [Logins -> IdentityRow]
    BY <1>5, <1>7
  <1> QED
    BY <1>1, <1>2, <1>3, <1>4, <1>7, <1>8, IdentitiesChange

LEMMA DeleteUserIdentityKeeps ==
  ASSUME Inv, NEW r \in Requests, DeleteUserIdentity(r)
  PROVE  Inv'
  <1>1. /\ request[r].pc = "disconnect" /\ request' = [request EXCEPT ![r] = NoRequest]
        /\ UNCHANGED <<users, tokens, sessions, bans, unbumped, begun, faults>>
    BY DEF DeleteUserIdentity, End
  <1>2. NoIdentity \in IdentityRow /\ NoIdentity.user = NoUser
    BY AccountsAssumption DEF NoIdentity, IdentityRow, Passwords
  <1>3. /\ identities' \in [Logins -> IdentityRow]
        /\ \A l \in Logins : identities'[l] = identities[l] \/ identities'[l].user = NoUser
    BY <1>2 DEF DeleteUserIdentity, Inv, TypeOK
  <1> QED
    BY <1>1, <1>3, IdentitiesChange, NoRequestType DEF NoRequestFacts

-----------------------------------------------------------------------------
(* The row of a user *)

LEMMA BumpedRow ==
  ASSUME NEW row \in UserRow, NEW audiences \in SUBSET Audiences,
         \A a \in Audiences : row.generation[a] < MaxGeneration
  PROVE  /\ Bumped(row, audiences) \in UserRow
         /\ Bumped(row, audiences).exists = row.exists
         /\ Bumped(row, audiences).role = row.role
         /\ \A a \in Audiences : Bumped(row, audiences).generation[a] =
                IF a \in audiences THEN row.generation[a] + 1 ELSE row.generation[a]
  <1> DEFINE generation == [a \in Audiences |->
                  IF a \in audiences THEN row.generation[a] + 1 ELSE row.generation[a]]
  <1>1. Bumped(row, audiences) = [row EXCEPT !.generation = generation]
    BY DEF Bumped, UserRow
  <1>2. generation \in [Audiences -> Generations]
    BY AccountsAssumption DEF UserRow, Generations
  <1>3. \A a \in Audiences : generation[a] =
            IF a \in audiences THEN row.generation[a] + 1 ELSE row.generation[a]
    OBVIOUS
  <1> HIDE DEF generation
  <1> QED
    BY <1>1, <1>2, <1>3 DEF UserRow

\* A row that changes a right raises the generations with it.
LEMMA UserChanges ==
  ASSUME Inv, NEW u \in Users, NEW row \in UserRow,
         users' = [users EXCEPT ![u] = row], users[u].exists, row.exists,
         UNCHANGED <<identities, tokens, sessions, unbumped, begun, faults>>,
         bans' \in [Users -> Generations],
         \A v \in Users \ {u} : bans'[v] = bans[v],
         \A a \in Audiences :
            \/ /\ row.generation[a] = users[u].generation[a] + 1
               /\ bans'[u] <= row.generation[a]
            \/ /\ row.generation[a] = users[u].generation[a]
               /\ row.role = users[u].role /\ bans'[u] = bans[u]
               /\ Changing(u) => Changing(u)',
         request' \in [Requests -> RequestState],
         \A v \in Users \ {u} : Changing(v) => Changing(v)'
  PROVE  TypeOK' /\ RowsSound' /\ SessionsSound'
  <1>1. users'[u] = row /\ \A v \in Users \ {u} : users'[v] = users[v]
    BY DEF Inv, TypeOK
  <1>2. TypeOK'
    BY DEF Inv, TypeOK
  <1>3. RowsSound'
    <2>1. \A v \in Users, a \in Audiences : bans'[v] <= users'[v].generation[a]
      BY <1>1 DEF Inv, RowsSound
    <2>2. \A v \in Users : ~ users'[v].exists => users'[v] = NoRow /\ bans'[v] = 0
      BY <1>1 DEF Inv, RowsSound
    <2>3. \A v \in Users : users[v].exists => users'[v].exists
      BY <1>1
    <2>4. /\ \A l \in Logins : identities[l].user \in Users \cup {NoUser}
          /\ \A token \in tokens : token.user \in Users
      BY DEF Inv, TypeOK, IdentityRow, EmailToken
    <2> QED
      BY <2>1, <2>2, <2>3, <2>4 DEF Inv, RowsSound
  <1>4. SessionsSound'
    <2> SUFFICES ASSUME NEW s \in sessions PROVE SessionSound(s)'
      BY DEF SessionsSound
    <2>1. s.user \in Users /\ users[s.user].exists /\ s.audience \in Audiences
      BY DEF Inv, TypeOK, Claims, SessionsSound, SessionSound
    <2>2. CASE s.user # u
      BY <1>1, <2>1, <2>2, SessionKept DEF PasswordKnown
    <2>3. CASE s.user = u
      BY <1>1, <2>1, <2>3, SessionKept DEF PasswordKnown
    <2> QED
      BY <2>2, <2>3
  <1> QED
    BY <1>2, <1>3, <1>4

LEMMA BumpGenerationsKeeps ==
  ASSUME Inv, NEW r \in Requests, BumpGenerations(r)
  PROVE  Inv'
  <1> DEFINE u == request[r].user
             row == Bumped(users[u], Audiences)
  <1>1. /\ request[r] \in RequestState /\ request[r].pc = "bump" /\ u \in Users
        /\ request[r].op # "update" /\ users[u].exists /\ CanBump(u) /\ Sensible(request[r])
        /\ UNCHANGED <<identities, tokens, sessions, bans, unbumped, begun, faults>>
    <2>1. request[r] \in RequestState /\ request[r].pc = "bump" /\ Sensible(request[r])
      BY DEF BumpGenerations, Inv, TypeOK, RequestsSound
    <2> QED
      BY <2>1, AccountsAssumption DEF BumpGenerations, Sensible, Fields, Served
  <1>2. users' = [users EXCEPT ![u] = row]
    BY DEF BumpGenerations, Inv, TypeOK
  <1>3. /\ row \in UserRow /\ row.exists
        /\ \A a \in Audiences : row.generation[a] = users[u].generation[a] + 1
    <2>1. users[u] \in UserRow
      BY <1>1 DEF Inv, TypeOK
    <2> QED
      BY <1>1, <2>1, BumpedRow DEF CanBump
  <1>4. PICK next \in RequestState :
            /\ request' = [request EXCEPT ![r] = next] /\ Sensible(next) /\ ~ New(next)
            /\ next.user = NoUser \/ (next.user = u /\ next.op = request[r].op)
    <2>1. CASE End(r)
      BY <2>1, NoRequestType DEF End, NoRequestFacts
    <2>2. CASE Goto(r, "spend")
      <3> DEFINE next == [request[r] EXCEPT !.pc = "spend"]
      <3>1. request' = [request EXCEPT ![r] = next]
        BY <2>2 DEF Goto, Inv, TypeOK
      <3>2. /\ next \in RequestState /\ next.pc = "spend" /\ next.op = request[r].op
            /\ next.login = request[r].login /\ next.user = u
        BY <1>1 DEF RequestState
      <3> HIDE DEF next
      <3>3. Sensible(next) /\ ~ New(next)
        BY <1>1, <3>2 DEF Sensible, Fields, Served, New
      <3> QED
        BY <3>1, <3>2, <3>3
    <2> QED
      BY <2>1, <2>2 DEF BumpGenerations
  <1> HIDE DEF row
  <1>5. \A v \in Users : users[v].exists => users'[v].exists
    BY <1>2, <1>3 DEF Inv, TypeOK
  <1>6. /\ request' \in [Requests -> RequestState] /\ RequestsSound'
        /\ request'[r] = next /\ \A q \in Requests \ {r} : request'[q] = request[q]
        /\ \A v \in Users \ {u} : Changing(v) => Changing(v)'
    BY <1>4, <1>5, RowChanges
  <1>7. \A a \in Audiences : bans[u] <= row.generation[a]
    <2>1. \A a \in Audiences : users[u].generation[a] \in Nat /\ bans[u] \in Nat
      BY <1>1 DEF Inv, TypeOK, UserRow, Generations
    <2> QED
      BY <1>1, <1>3, <2>1 DEF Inv, RowsSound
  <1>8. TypeOK' /\ RowsSound' /\ SessionsSound'
    <2>1. \A a \in Audiences :
              row.generation[a] = users[u].generation[a] + 1 /\ bans'[u] <= row.generation[a]
      BY <1>1, <1>3, <1>7
    <2>2. bans' \in [Users -> Generations] /\ \A v \in Users \ {u} : bans'[v] = bans[v]
      BY <1>1 DEF Inv, TypeOK
    <2> QED
      BY <1>1, <1>2, <1>3, <1>6, <2>1, <2>2, UserChanges
  <1>9. NewUsersAreAlone'
    <2>1. /\ ~ New(request'[r])
          /\ \/ request'[r].user = NoUser
             \/ request'[r].user = request[r].user /\ request'[r].op = request[r].op
      BY <1>4, <1>6
    <2>2. \A v \in Users : Seen(v)' => Seen(v)
      BY <1>1 DEF Seen
    <2> QED
      BY <1>6, <2>1, <2>2, AloneKept
  <1> QED
    BY <1>6, <1>8, <1>9 DEF Inv

LEMMA LogoutAllKeeps ==
  ASSUME Inv, NEW s \in sessions, LogoutAll(s)
  PROVE  Inv'
  <1> DEFINE u == s.user
             row == Bumped(users[u], {"dashboard"})
  <1>1. /\ u \in Users /\ users[u].exists /\ CanBump(u) /\ users[u] \in UserRow
        /\ UNCHANGED <<identities, tokens, sessions, request, bans, unbumped, begun, faults>>
        /\ users' = [users EXCEPT ![u] = row]
    BY DEF LogoutAll, Dashboard, Valid, Inv, TypeOK, Claims
  <1>2. /\ row \in UserRow /\ row.exists /\ row.role = users[u].role
        /\ \A a \in Audiences : row.generation[a] =
              IF a = "dashboard" THEN users[u].generation[a] + 1 ELSE users[u].generation[a]
    BY <1>1, BumpedRow DEF CanBump, Audiences
  <1> HIDE DEF row
  <1>3. \A a \in Audiences : bans[u] <= users[u].generation[a] + 1
    <2>1. \A a \in Audiences : users[u].generation[a] \in Nat /\ bans[u] \in Nat
      BY <1>1 DEF Inv, TypeOK, UserRow, Generations
    <2> QED
      BY <1>1, <2>1 DEF Inv, RowsSound
  <1>4. \A v : Changing(v) => Changing(v)'
    BY <1>1 DEF Changing
  <1>5. TypeOK' /\ RowsSound' /\ SessionsSound'
    <2>1. \A a \in Audiences :
              \/ /\ row.generation[a] = users[u].generation[a] + 1
                 /\ bans'[u] <= row.generation[a]
              \/ /\ row.generation[a] = users[u].generation[a]
                 /\ row.role = users[u].role /\ bans'[u] = bans[u]
                 /\ Changing(u) => Changing(u)'
      BY <1>1, <1>2, <1>3, <1>4
    <2>2. /\ bans' \in [Users -> Generations] /\ \A v \in Users \ {u} : bans'[v] = bans[v]
          /\ request' \in [Requests -> RequestState]
      BY <1>1 DEF Inv, TypeOK
    <2> QED
      BY <1>1, <1>2, <1>4, <2>1, <2>2, UserChanges
  <1>6. RequestsSound'
    <2>1. \A v \in Users : users'[v].exists = users[v].exists
      BY <1>1, <1>2 DEF Inv, TypeOK
    <2>2. \A q \in Requests : request[q].user \in Users \cup {NoUser}
      BY DEF Inv, TypeOK, RequestState
    <2> QED
      BY <1>1, <2>1, <2>2 DEF Inv, RequestsSound, Sensible
  <1>7. NewUsersAreAlone'
    BY <1>1, AloneStays DEF Seen
  <1> QED
    BY <1>5, <1>6, <1>7 DEF Inv

LEMMA WriteUserKeeps ==
  ASSUME Inv, NEW r \in Requests, WriteUser(r)
  PROVE  Inv'
  <1> DEFINE u == request[r].user
             written == [users[u] EXCEPT !.role = request[r].role,
                                         !.banned = request[r].banned]
  <1>1. /\ request[r] \in RequestState /\ request[r].pc = "write" /\ u \in Users
        /\ users[u].exists /\ users[u] \in UserRow /\ CanBump(u)
        /\ UNCHANGED <<identities, tokens, sessions, unbumped, begun, faults>> /\ End(r)
    <2>1. request[r] \in RequestState /\ request[r].pc = "write" /\ Sensible(request[r])
      BY DEF WriteUser, Inv, TypeOK, RequestsSound
    <2>2. u \in Users /\ users[u].exists
      BY <2>1, AccountsAssumption DEF Sensible, Fields, Served
    <2> QED
      BY <2>1, <2>2 DEF WriteUser, Inv, TypeOK
  <1>2. /\ written \in UserRow /\ written.exists = users[u].exists
        /\ written.generation = users[u].generation /\ written.role = request[r].role
    BY <1>1 DEF UserRow, RequestState
  <1>3. users' = [users EXCEPT ![u] =
                      IF Revokes(r) THEN Bumped(written, Audiences) ELSE written]
    BY DEF WriteUser
  <1> HIDE DEF written
  <1>4. /\ Bumped(written, Audiences) \in UserRow /\ Bumped(written, Audiences).exists
        /\ \A a \in Audiences :
              Bumped(written, Audiences).generation[a] = users[u].generation[a] + 1
    <2>1. \A a \in Audiences : written.generation[a] < MaxGeneration
      BY <1>1, <1>2 DEF CanBump
    <2>2. /\ Bumped(written, Audiences) \in UserRow
          /\ Bumped(written, Audiences).exists = written.exists
          /\ \A a \in Audiences : Bumped(written, Audiences).generation[a] =
                IF a \in Audiences THEN written.generation[a] + 1 ELSE written.generation[a]
      BY <1>2, <2>1, BumpedRow
    <2> QED
      BY <1>1, <1>2, <2>2
  <1>5. bans[u] \in Nat /\ \A a \in Audiences :
            /\ users[u].generation[a] \in Nat /\ users[u].generation[a] < MaxGeneration
            /\ bans[u] <= users[u].generation[a]
    BY <1>1 DEF Inv, TypeOK, UserRow, Generations, CanBump, RowsSound
  <1>6. PICK row \in UserRow :
            /\ users' = [users EXCEPT ![u] = row] /\ row.exists
            /\ IF Revokes(r)
               THEN \A a \in Audiences : row.generation[a] = users[u].generation[a] + 1
               ELSE row.generation = users[u].generation /\ row.role = users[u].role
    <2>1. CASE Revokes(r)
      BY <1>3, <1>4, <2>1
    <2>2. CASE ~ Revokes(r)
      BY <1>1, <1>2, <1>3, <2>2 DEF Revokes
    <2> QED
      BY <2>1, <2>2
  <1>7. /\ bans' \in [Users -> Generations] /\ \A v \in Users \ {u} : bans'[v] = bans[v]
        /\ bans'[u] = bans[u] \/ (Revokes(r) /\ bans'[u] = bans[u] + 1)
    <2>1. "dashboard" \in Audiences
      BY DEF Audiences
    <2>2. bans[u] + 1 \in Generations
      BY <1>5, <2>1, AccountsAssumption DEF Generations
    <2>3. request[r].banned \in BOOLEAN /\ users[u].banned \in BOOLEAN
      BY <1>1 DEF RequestState, UserRow
    <2>4. request[r].banned /\ ~ users[u].banned => Revokes(r)
      BY <2>3 DEF Revokes
    <2>5. CASE request[r].banned /\ ~ users[u].banned
      BY <1>1, <2>2, <2>4, <2>5 DEF WriteUser, Inv, TypeOK
    <2>6. CASE ~ (request[r].banned /\ ~ users[u].banned)
      BY <1>1, <2>6 DEF WriteUser, Inv, TypeOK
    <2> QED
      BY <2>5, <2>6
  <1>8. \A v \in Users : users[v].exists => users'[v].exists
    BY <1>6 DEF Inv, TypeOK
  <1>9. /\ request' \in [Requests -> RequestState] /\ RequestsSound'
        /\ request'[r] = NoRequest /\ \A q \in Requests \ {r} : request'[q] = request[q]
        /\ \A v : Changing(v) => Changing(v)'
    BY <1>1, <1>8, RowChanges, NoRequestType DEF NoRequestFacts, End
  <1>10. TypeOK' /\ RowsSound' /\ SessionsSound'
    <2>1. \A a \in Audiences :
            \/ /\ row.generation[a] = users[u].generation[a] + 1
               /\ bans'[u] <= row.generation[a]
            \/ /\ row.generation[a] = users[u].generation[a]
               /\ row.role = users[u].role /\ bans'[u] = bans[u]
      BY <1>5, <1>6, <1>7
    <2> QED
      BY <1>1, <1>6, <1>7, <1>9, <2>1, UserChanges
  <1>11. NewUsersAreAlone'
    <2>1. \A v \in Users : Seen(v)' => Seen(v)
      BY <1>1 DEF Seen
    <2> QED
      BY <1>9, <2>1, AloneKept, NoRequestType DEF NoRequestFacts
  <1> QED
    BY <1>9, <1>10, <1>11 DEF Inv

-----------------------------------------------------------------------------
(* Theorems *)

LEMMA NextInv == Inv /\ [Next]_vars => Inv'
  <1> SUFFICES ASSUME Inv, [Next]_vars PROVE Inv'
    OBVIOUS
  <1>1. ASSUME NEW r \in Requests, NEW l \in Logins,
               \/ l \in EmailLogins /\ EmailRegister(r, l)
               \/ l \in OAuthLogins /\ (OAuthCallback(r, l) \/ EmbedOAuthCallback(r, l))
        PROVE  Inv'
    BY <1>1, RegistrationsStart
  <1>2. ASSUME NEW r \in Requests,
               \/ \E l \in EmailLogins : EmailLogin(r, l)
               \/ \E u \in Users : EmailReset(r, u)
               \/ \E s \in sessions :
                      \/ UpdatePassword(r, s)
                      \/ \E l \in OAuthLogins : LinkCallback(r, s, l)
                      \/ \E l \in Logins : DisconnectIdentity(r, s, l)
        PROVE  Inv'
    BY <1>2, ServicesStart
  <1>3. ASSUME NEW r \in Requests, NEW s \in sessions, NEW u \in Users, UpdateUser(r, s, u)
        PROVE  Inv'
    BY <1>3, UpdateStarts
  <1>4. ASSUME NEW r \in Requests, ChooseRole(r) \/ LookupIdentity(r) \/ RequestFails(r)
        PROVE  Inv'
    BY <1>4, RequestsGoOn
  <1>5. ASSUME NEW r \in Requests,
               \/ CreateUser(r) \/ CreateIdentity(r) \/ Load(r) \/ UpdatePasswordHash(r)
               \/ BumpGenerations(r) \/ DeleteUserIdentity(r) \/ WriteUser(r)
        PROVE  Inv'
    BY <1>5, CreateUserKeeps, CreateIdentityKeeps, LoadKeeps, UpdatePasswordHashKeeps,
       BumpGenerationsKeeps, DeleteUserIdentityKeeps, WriteUserKeeps
  <1>6. ASSUME \/ \E r \in Requests : CreateTokens(r) \/ SpendResetToken(r)
               \/ \E l \in EmailLogins : EmailResend(l) \/ EmailForgot(l)
               \/ \E token \in tokens : ExpireToken(token)
        PROVE  Inv'
    BY <1>6, TokensKeep
  <1>7. ASSUME NEW u \in Users, EmailVerify(u) \/ EmailPoll(u)
        PROVE  Inv'
    BY <1>7, VerifyKeeps, PollKeeps
  <1>8. ASSUME NEW s \in sessions, LogoutAll(s) \/ Logout(s)
        PROVE  Inv'
    BY <1>8, LogoutAllKeeps, LogoutKeeps
  <1>9. CASE UNCHANGED vars
    BY <1>9 DEF vars, Inv, TypeOK, RowsSound, RequestsSound, Sensible, NewUsersAreAlone,
                Seen, SessionsSound, SessionSound, Level, PasswordKnown, Changing
  <1> QED
    BY <1>1, <1>2, <1>3, <1>4, <1>5, <1>6, <1>7, <1>8, <1>9 DEF Next, Logins

LEMMA Invariance == Spec => []Inv
  BY InitInv, NextInv, PTL DEF Spec

\* Every variable keeps its type: every request carries what its next statement
\* needs, whatever another one did between two of its own.
THEOREM AccountsAreTyped == Spec => []TypeOK
  <1>1. Inv => TypeOK
    BY DEF Inv
  <1> QED
    BY <1>1, Invariance, PTL

\* authenticate compares generations and nothing else, and that is enough: the
\* claims of a session that it accepts are of the role its user has now, and
\* from after the last ban.
THEOREM SessionsCarryCurrentRights == Spec => []ValidSessionsAreCurrent
  <1>1. Inv => ValidSessionsAreCurrent
    BY DEF Inv, SessionsSound, SessionSound, Level, ValidSessionsAreCurrent, Valid
  <1> QED
    BY <1>1, Invariance, PTL

\* Once UpdatePasswordHashByUser has run both its statements, no session from
\* the password before authenticates, but for the login it overtook.
THEOREM OldPasswordsDie == Spec => []OldPasswordsAreRevoked
  <1>1. Inv => OldPasswordsAreRevoked
    BY DEF Inv, SessionsSound, SessionSound, Level, PasswordKnown, OldPasswordsAreRevoked,
           Valid
  <1> QED
    BY <1>1, Invariance, PTL

=============================================================================
