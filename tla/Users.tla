---------------------------------- MODULE Users ----------------------------------
(***************************************************************************)
(* Users, sessions and the login rate limit (vpsmon/auth.py), with the     *)
(* handlers of api/routes.py that call them.                               *)
(*                                                                         *)
(* A request that has passed the middleware is not checked again, and API  *)
(* tokens outlive users, so user management is possible at any moment.     *)
(* Passwords, cookies, roles and the second factor are left out.           *)
(***************************************************************************)
EXTENDS Integers, FiniteSets, FiniteSetsExt

CONSTANTS
    Requests,           \* requests handled at the same time
    Names, Admin,       \* usernames, and "admin"
    RateLimit,          \* LOGIN_RATE_LIMIT, for one client address
    RateWindow,         \* LOGIN_RATE_WINDOW
    MaxAge,             \* SESSION_MAX_AGE
    MaxLoginTime, MaxId, MaxSessions     \* bounds

ASSUME UsersAssumption ==
    /\ IsFiniteSet(Requests) /\ Requests # {}
    /\ IsFiniteSet(Names) /\ Admin \in Names
    /\ RateLimit \in Nat \ {0}
    /\ RateWindow \in Nat /\ MaxAge \in Nat
    /\ MaxLoginTime \in Nat /\ MaxId \in Nat \ {0} /\ MaxSessions \in Nat

VARIABLES
    time,
    users,      \* the id of each username's row, 0 if it has none
    lastId,     \* AUTOINCREMENT: the largest id ever given
    sessions,   \* rows; who is history: the username that logged in
    attempts,   \* _rate_limits of the address: failed attempts, by time
                \* and a number that tells those of one instant apart
    req,        \* where each request is
    overlapped  \* history: two deletions were past their check at once

usersVars == <<time, users, lastId, sessions, attempts, req, overlapped>>

NoRequest == [pc |-> "idle"]
Rows == {n \in Names : users[n] # 0}

Session == [uid : 1..MaxId, who : Names, expires : Nat]
Request == [pc : {"idle"}] \cup [pc : {"verify"}, name : Names]
    \cup [pc : {"session"}, name : Names, uid : 1..MaxId, expires : Nat]
    \cup [pc : {"sessions", "row"}, uid : 1..MaxId]

\* ensure_admin_exists on an empty database.
UsersInit ==
    /\ time = 0
    /\ users = [n \in Names |-> IF n = Admin THEN 1 ELSE 0]
    /\ lastId = 1
    /\ sessions = {}
    /\ attempts = {}
    /\ req = [h \in Requests |-> NoRequest]
    /\ overlapped = FALSE

-----------------------------------------------------------------------------
(* Login: the limit is checked, the password is verified after awaits, and *)
(* only then is a failure recorded.                                        *)

Recent == {a \in attempts : a.at + RateWindow > time}

\* Mutant: the comparison is off by one.
LoginOnceMore(h, n) ==
    /\ req[h] = NoRequest
    /\ attempts' = Recent
    /\ req' = [req EXCEPT ![h] =
                IF Cardinality(Recent) <= RateLimit THEN [pc |-> "verify", name |-> n] ELSE NoRequest]
    /\ UNCHANGED <<time, users, lastId, sessions, overlapped>>

\* check_rate_limit: forget old attempts, then compare.
Login(h, n) ==
    /\ req[h] = NoRequest
    /\ attempts' = Recent
    /\ req' = [req EXCEPT ![h] =
                IF Cardinality(Recent) < RateLimit THEN [pc |-> "verify", name |-> n] ELSE NoRequest]
    /\ UNCHANGED <<time, users, lastId, sessions, overlapped>>

PasswordMatches(h) ==
    /\ req[h].pc = "verify"
    /\ req[h].name \in Rows
    /\ req' = [req EXCEPT ![h] = [pc |-> "session", name |-> @.name,
                                  uid |-> users[@.name], expires |-> time + MaxAge]]
    /\ UNCHANGED <<time, users, lastId, sessions, attempts, overlapped>>

NextAttempt(t) ==
    [at |-> t, no |-> CHOOSE i \in 1..Cardinality(attempts) + 1 :
                        [at |-> t, no |-> i] \notin attempts]

\* Mutant: the list holds the times at which attempts expire.
RecordExpiry(h) ==
    /\ req[h].pc = "verify"
    /\ attempts' = attempts \cup {NextAttempt(time + RateWindow)}
    /\ req' = [req EXCEPT ![h] = NoRequest]
    /\ UNCHANGED <<time, users, lastId, sessions, overlapped>>

RecordAttempt(h) ==
    /\ req[h].pc = "verify"
    /\ attempts' = attempts \cup {NextAttempt(time)}
    /\ req' = [req EXCEPT ![h] = NoRequest]
    /\ UNCHANGED <<time, users, lastId, sessions, overlapped>>

\* The row is inserted whether or not the user is still there.
CreateSession(h) ==
    /\ req[h].pc = "session"
    /\ LET s == [uid |-> req[h].uid, who |-> req[h].name, expires |-> req[h].expires] IN
         /\ Cardinality(sessions \cup {s}) <= MaxSessions
         /\ sessions' = sessions \cup {s}
    /\ req' = [req EXCEPT ![h] = NoRequest]
    /\ UNCHANGED <<time, users, lastId, attempts, overlapped>>

Logout(s) ==
    /\ s \in sessions
    /\ sessions' = sessions \ {s}
    /\ UNCHANGED <<time, users, lastId, attempts, req, overlapped>>

-----------------------------------------------------------------------------
(* User management.                                                        *)

\* Mutant: without AUTOINCREMENT an id is one more than the largest in use.
CreateUserReusingIds(n) ==
    LET id == Max({0} \cup {users[m] : m \in Rows}) + 1 IN
    /\ id <= MaxId
    /\ users' = [users EXCEPT ![n] = id]
    /\ lastId' = Max({id, lastId})
    /\ UNCHANGED <<time, sessions, attempts, req, overlapped>>

\* Adding a user and changing a password: INSERT OR REPLACE gives a new id, so
\* the sessions of the old row find no user any more.
CreateUser(n) ==
    /\ lastId < MaxId
    /\ users' = [users EXCEPT ![n] = lastId + 1]
    /\ lastId' = lastId + 1
    /\ UNCHANGED <<time, sessions, attempts, req, overlapped>>

Deleting == {h \in Requests : req[h].pc \in {"sessions", "row"}}

\* Mutant: the check forgets the user about to go.
CountUsersBefore(h, uid) ==
    /\ req[h] = NoRequest
    /\ Cardinality(Rows) > 0
    /\ req' = [req EXCEPT ![h] = [pc |-> "sessions", uid |-> uid]]
    /\ overlapped' = (overlapped \/ Deleting # {})
    /\ UNCHANGED <<time, users, lastId, sessions, attempts>>

\* delete_user: COUNT(*), then two DELETEs.
CountUsers(h, uid) ==
    /\ req[h] = NoRequest
    /\ Cardinality(Rows) > 1
    /\ req' = [req EXCEPT ![h] = [pc |-> "sessions", uid |-> uid]]
    /\ overlapped' = (overlapped \/ Deleting # {})
    /\ UNCHANGED <<time, users, lastId, sessions, attempts>>

DeleteSessions(h) ==
    /\ req[h].pc = "sessions"
    /\ sessions' = {s \in sessions : s.uid # req[h].uid}
    /\ req' = [req EXCEPT ![h] = [pc |-> "row", uid |-> @.uid]]
    /\ UNCHANGED <<time, users, lastId, attempts, overlapped>>

DeleteUser(h) ==
    /\ req[h].pc = "row"
    /\ users' = [n \in Names |-> IF users[n] = req[h].uid THEN 0 ELSE users[n]]
    /\ req' = [req EXCEPT ![h] = NoRequest]
    /\ UNCHANGED <<time, lastId, sessions, attempts, overlapped>>

-----------------------------------------------------------------------------
\* A statement raises: the handler ends with what it has done.
Abort(h) ==
    /\ req[h] # NoRequest
    /\ req' = [req EXCEPT ![h] = NoRequest]
    /\ UNCHANGED <<time, users, lastId, sessions, attempts, overlapped>>

\* A restart loses requests and attempts, and creates "admin" if no user is left.
Restart ==
    /\ Rows = {} => lastId < MaxId
    /\ users' = IF Rows = {} THEN [users EXCEPT ![Admin] = lastId + 1] ELSE users
    /\ lastId' = IF Rows = {} THEN lastId + 1 ELSE lastId
    /\ attempts' = {}
    /\ req' = [h \in Requests |-> NoRequest]
    /\ overlapped' = FALSE
    /\ UNCHANGED <<time, sessions>>

\* The purge loop of storage/downsample.py.
PurgeSessions ==
    /\ sessions' = {s \in sessions : s.expires >= time}
    /\ UNCHANGED <<time, users, lastId, attempts, req, overlapped>>

UsersTick ==
    /\ time < MaxLoginTime
    /\ time' = time + 1
    /\ UNCHANGED <<users, lastId, sessions, attempts, req, overlapped>>

UsersNext ==
    \/ \E h \in Requests :
         \/ \E n \in Names : Login(h, n)
         \/ PasswordMatches(h) \/ RecordAttempt(h) \/ CreateSession(h)
         \/ \E uid \in 1..lastId : CountUsers(h, uid)
         \/ DeleteSessions(h) \/ DeleteUser(h)
         \/ Abort(h)
    \/ \E s \in sessions : Logout(s)
    \/ \E n \in Names : CreateUser(n)
    \/ Restart \/ PurgeSessions \/ UsersTick

UsersSpec == UsersInit /\ [][UsersNext]_usersVars

-----------------------------------------------------------------------------
(* Correctness.                                                            *)

UsersTypeOK ==
    /\ time \in 0..MaxLoginTime
    /\ users \in [Names -> 0..lastId]
    /\ lastId \in 1..MaxId
    /\ sessions \subseteq Session
    /\ IsFiniteSet(attempts) /\ \A a \in attempts : a.at \in 0..MaxLoginTime
    /\ req \in [Requests -> Request]
    /\ overlapped \in BOOLEAN

\* validate_session joins sessions with users: whatever users were deleted,
\* replaced or added since a login, its session never finds another username.
SessionsKeepTheirUser ==
    \A s \in sessions, n \in Names : users[n] = s.uid => n = s.who

\* auth.py "Prevent deleting the last user": true unless two deletions overlap,
\* each of which counts a user the other one deletes.
LastUserStays == Rows = {} => overlapped

\* config.py "attempts per window": requests that passed the check together can
\* exceed the limit, but only by as many as are handled at the same time.
FailuresAreBounded == Cardinality(Recent) <= RateLimit + Cardinality(Requests) - 1

=============================================================================
