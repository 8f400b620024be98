------------------------------ MODULE Sessions ------------------------------
(***************************************************************************)
(* Administrators' sessions: login, logout and the check every request       *)
(* passes (app/api.py, app/security.py), while app/cli.py creates accounts   *)
(* and resets passwords in processes of its own.  Several statements each,   *)
(* on PostgreSQL at READ COMMITTED: a DELETE chooses its rows when it       *)
(* starts and takes them one at a time, in any order, keeping those it has  *)
(* while it waits for one that another transaction has deleted.             *)
(*                                                                          *)
(* A password is the number of the CLI run that set it, 0 for no account; a  *)
(* client offers the current one or not.  Of the clock only the order of     *)
(* instants matters.  UPDATE of a password takes the account's row FOR NO    *)
(* KEY UPDATE, which does not conflict with the FOR KEY SHARE that inserting *)
(* a session takes on it.                                                   *)
(***************************************************************************)
EXTENDS Naturals

CONSTANTS
    User,        \* usernames
    Request,     \* API sessions that execute login and logout
    Cli,         \* processes that run app/cli.py
    None,        \* no user
    Ttl,         \* session_ttl_hours
    MaxTime,     \* bound on the clock
    MaxRequests, \* bound on requests
    MaxRuns      \* bound on runs of app/cli.py

ASSUME SessionsAssumption ==
    /\ None \notin User /\ Request \cap Cli = {}
    /\ Ttl \in Nat \ {0}
    /\ MaxTime \in Nat /\ MaxRequests \in Nat /\ MaxRuns \in Nat

VARIABLES
    password,   \* admins: password_hash
    sessions,   \* admin_sessions, with the password its login verified
    now,        \* utcnow()
    lastToken, requests, runs,
    \* processes of either kind
    pc, user,
    chosen,     \* rows of admin_sessions its DELETE found when it started
    gone,       \* those of them it has deleted and not yet committed
    \* requests
    token,      \* the session a logout is about
    pw,         \* the password a login has verified
    \* runs of the CLI
    flag,       \* --reset-password
    new,        \* the password to set
    \* history
    late,       \* logins that overlap a reset of their user
    ended       \* tokens whose logout has been answered

tables   == <<password, sessions>>
procVars == <<pc, user, chosen, gone>>
reqVars  == <<token, pw, lastToken, requests, late>>
cliVars  == <<flag, new, runs>>
vars     == <<tables, now, procVars, reqVars, cliVars, ended>>

Process == Request \cup Cli
Row     == [token : Nat, user : User, expires : Nat, pw : Nat, late : BOOLEAN]

Expired    == {r \in sessions : r.expires <= now}
RowsOf(u)  == {r \in sessions : r.user = u}
TokenRow(t) == {r \in sessions : r.token = t}

\* What a DELETE has left to do: rows deleted by others meanwhile are skipped.
Remaining(p) == (chosen[p] \cap sessions) \ gone[p]

\* The login has read and verified the password.
Verified(w) == pc[w] \in {"purge", "insert"}

\* The reset has updated the account's row, deleted the sessions.
Updated(c) == pc[c] \in {"sessions", "commit"}
Swept(c)   == pc[c] = "commit"

\* The statement p is at may have to wait for q to end: q has deleted a row that p
\* deletes, updated the account that p updates, or inserted the key that p inserts.
WaitsFor(p, q) ==
    \/ Remaining(p) \cap gone[q] # {}
    \/ p \in Request /\ pc[p] = "delete" /\ TokenRow(token[p]) \cap gone[q] # {}
    \/ /\ p \in Cli /\ q \in Cli \ {p} /\ user[p] = user[q]
       /\ \/ pc[p] = "update" /\ Updated(q)
          \/ pc[p] = "add" /\ pc[q] = "added"
Waits(p) == \E q \in Process : WaitsFor(p, q)

-----------------------------------------------------------------------------
Init ==
    /\ password \in [User -> {0, 1}] /\ sessions = {} /\ now = 0
    /\ lastToken = 0 /\ requests = 0 /\ runs = 1
    /\ pc = [p \in Process |-> "idle"]
    /\ user = [p \in Process |-> None]
    /\ chosen = [p \in Process |-> {}] /\ gone = [p \in Process |-> {}]
    /\ token = [w \in Request |-> 0] /\ pw = [w \in Request |-> 0]
    /\ flag = [c \in Cli |-> FALSE] /\ new = [c \in Cli |-> 0]
    /\ late = [w \in Request |-> FALSE] /\ ended = {}

Tick ==
    /\ now < MaxTime /\ now' = now + 1
    /\ UNCHANGED <<tables, procVars, reqVars, cliVars, ended>>

GoTo(p, label) == pc' = [pc EXCEPT ![p] = label]

\* The process has answered, or ended; what it has not committed is undone.
Leave(p) ==
    /\ GoTo(p, "idle")
    /\ user' = [user EXCEPT ![p] = None]
    /\ chosen' = [chosen EXCEPT ![p] = {}]
    /\ gone' = [gone EXCEPT ![p] = {}]

\* The running DELETE takes a row, once no other transaction has it.
TakeRow(p) ==
    /\ \E r \in Remaining(p) :
          /\ \A q \in Process : r \notin gone[q]
          /\ gone' = [gone EXCEPT ![p] = @ \cup {r}]
    /\ UNCHANGED <<tables, now, pc, user, chosen, reqVars, cliVars, ended>>

End(w) ==
    /\ Leave(w)
    /\ token' = [token EXCEPT ![w] = 0]
    /\ pw' = [pw EXCEPT ![w] = 0]
    /\ late' = [late EXCEPT ![w] = FALSE]
    /\ UNCHANGED requests

-----------------------------------------------------------------------------
(* POST /api/auth/login                                                     *)

BeginLogin(w, u) ==
    /\ pc[w] = "idle" /\ requests < MaxRequests /\ requests' = requests + 1
    /\ GoTo(w, "verify") /\ user' = [user EXCEPT ![w] = u]
    /\ UNCHANGED <<tables, now, chosen, gone, token, pw, lastToken, late, cliVars, ended>>

\* The account is read and the password offered verified against its hash.
VerifyPassword(w, right) ==
    /\ pc[w] = "verify"
    /\ IF right /\ password[user[w]] # 0
       THEN /\ GoTo(w, "purge")
            /\ pw' = [pw EXCEPT ![w] = password[user[w]]]
            /\ late' = [late EXCEPT ![w] = \E c \in Cli : Swept(c) /\ user[c] = user[w]]
            /\ UNCHANGED <<user, chosen, gone, token, requests>>
       ELSE End(w)
    /\ UNCHANGED <<tables, now, lastToken, cliVars, ended>>

\* Mutation of Purge: a login ends its user's other sessions.
PurgeUser(w) ==
    /\ pc[w] = "purge"
    /\ chosen' = [chosen EXCEPT ![w] = Expired \cup RowsOf(user[w])]
    /\ GoTo(w, "insert")
    /\ UNCHANGED <<tables, now, user, gone, reqVars, cliVars, ended>>

\* create_session starts to delete whatever has expired ...
Purge(w) ==
    /\ pc[w] = "purge"
    /\ chosen' = [chosen EXCEPT ![w] = Expired]
    /\ GoTo(w, "insert")
    /\ UNCHANGED <<tables, now, user, gone, reqVars, cliVars, ended>>

\* ... and when that is done inserts the new session and commits.
InsertSession(w) ==
    /\ pc[w] = "insert" /\ Remaining(w) = {}
    /\ lastToken' = lastToken + 1
    /\ sessions' = (sessions \ gone[w]) \cup
          {[token |-> lastToken + 1, user |-> user[w], expires |-> now + Ttl,
            pw |-> pw[w], late |-> late[w]]}
    /\ End(w)
    /\ UNCHANGED <<password, now, cliVars, ended>>

-----------------------------------------------------------------------------
(* POST /api/auth/logout                                                    *)

BeginLogout(w, t) ==
    /\ pc[w] = "idle" /\ requests < MaxRequests /\ requests' = requests + 1
    /\ GoTo(w, "auth") /\ token' = [token EXCEPT ![w] = t]
    /\ UNCHANGED <<tables, now, user, chosen, gone, pw, lastToken, late, cliVars, ended>>

\* authenticated: the session exists and has not expired, or 401.
Authenticate(w) ==
    /\ pc[w] = "auth"
    /\ IF TokenRow(token[w]) \ Expired # {}
       THEN GoTo(w, "delete") /\ UNCHANGED <<user, chosen, gone, token, pw, late, requests>>
       ELSE End(w)
    /\ UNCHANGED <<tables, now, lastToken, cliVars, ended>>

\* Mutation of DeleteSession: a row somebody else is deleting is left to him.
DeleteUnlocked(w) ==
    /\ pc[w] = "delete"
    /\ sessions' = {r \in sessions : r.token = token[w] => \E p \in Process : r \in gone[p]}
    /\ ended' = ended \cup {token[w]}
    /\ End(w)
    /\ UNCHANGED <<password, now, lastToken, cliVars>>

\* The row is deleted, if it is still there, and 204 answered.
DeleteSession(w) ==
    /\ pc[w] = "delete" /\ ~Waits(w)
    /\ sessions' = sessions \ TokenRow(token[w])
    /\ ended' = ended \cup {token[w]}
    /\ End(w)
    /\ UNCHANGED <<password, now, lastToken, cliVars>>

\* A statement fails or times out, or the request is cut off.
Fail(w) ==
    /\ pc[w] # "idle"
    /\ End(w)
    /\ UNCHANGED <<tables, now, lastToken, cliVars, ended>>

-----------------------------------------------------------------------------
(* python -m app.cli username [--reset-password]: one transaction            *)

CliEnd(c) ==
    /\ Leave(c)
    /\ flag' = [flag EXCEPT ![c] = FALSE]
    /\ new' = [new EXCEPT ![c] = 0]
    /\ UNCHANGED runs

BeginCli(c, u, reset) ==
    /\ pc[c] = "idle" /\ runs < MaxRuns /\ runs' = runs + 1
    /\ GoTo(c, "read") /\ user' = [user EXCEPT ![c] = u]
    /\ flag' = [flag EXCEPT ![c] = reset] /\ new' = [new EXCEPT ![c] = runs + 1]
    /\ UNCHANGED <<tables, now, chosen, gone, reqVars, ended>>

\* The account decides what is done, not the flag alone.
ReadAdmin(c) ==
    /\ pc[c] = "read"
    /\ IF password[user[c]] # 0 /\ ~flag[c]
       THEN CliEnd(c)
       ELSE GoTo(c, IF password[user[c]] = 0 THEN "add" ELSE "update")
            /\ UNCHANGED <<user, chosen, gone, cliVars>>
    /\ UNCHANGED <<tables, now, reqVars, ended>>

\* UPDATE admins waits for another reset of the account.
UpdatePassword(c) ==
    /\ pc[c] = "update" /\ ~Waits(c)
    /\ GoTo(c, "sessions")
    /\ UNCHANGED <<tables, now, user, chosen, gone, reqVars, cliVars, ended>>

\* Mutation of DeleteSessions: sessions survive a reset.
DeleteNoSessions(c) ==
    /\ pc[c] = "sessions"
    /\ GoTo(c, "commit")
    /\ late' = [w \in Request |-> late[w] \/ (Verified(w) /\ user[w] = user[c])]
    /\ UNCHANGED <<tables, now, user, chosen, gone, token, pw, lastToken, requests, cliVars,
                   ended>>

\* DELETE FROM admin_sessions starts: its rows are those that are committed now.
\* Logins that have verified the old password have not inserted theirs yet.
DeleteSessions(c) ==
    /\ pc[c] = "sessions"
    /\ chosen' = [chosen EXCEPT ![c] = RowsOf(user[c])]
    /\ GoTo(c, "commit")
    /\ late' = [w \in Request |-> late[w] \/ (Verified(w) /\ user[w] = user[c])]
    /\ UNCHANGED <<tables, now, user, gone, token, pw, lastToken, requests, cliVars, ended>>

SetPassword(c) == password' = [password EXCEPT ![user[c]] = new[c]]

CommitReset(c) ==
    /\ pc[c] = "commit" /\ Remaining(c) = {}
    /\ SetPassword(c) /\ sessions' = sessions \ gone[c]
    /\ CliEnd(c)
    /\ UNCHANGED <<now, reqVars, ended>>

\* Mutation of AddAdmin: an existing account is overwritten (ON CONFLICT DO UPDATE).
AddOverwriting(c) ==
    /\ pc[c] = "add" /\ ~Waits(c)
    /\ GoTo(c, "added")
    /\ UNCHANGED <<tables, now, user, chosen, gone, reqVars, cliVars, ended>>

\* INSERT of account and profile: waits for another run that inserts the same
\* key, and fails if that has been committed.
AddAdmin(c) ==
    /\ pc[c] = "add" /\ ~Waits(c)
    /\ IF password[user[c]] = 0
       THEN GoTo(c, "added") /\ UNCHANGED <<user, chosen, gone, cliVars>>
       ELSE CliEnd(c)
    /\ UNCHANGED <<tables, now, reqVars, ended>>

CommitAdmin(c) ==
    /\ pc[c] = "added"
    /\ SetPassword(c)
    /\ CliEnd(c)
    /\ UNCHANGED <<sessions, now, reqVars, ended>>

CliFail(c) ==
    /\ pc[c] # "idle"
    /\ CliEnd(c)
    /\ UNCHANGED <<tables, now, reqVars, ended>>

\* Mutation of LockTimeout: lock_timeout is not set and nothing ends a deadlock.
LockTimeoutNever(p) == p \notin Process

\* A statement that waits too long is ended by lock_timeout (or sooner, when it
\* waits in a circle, by the deadlock detector).
LockTimeout(p) == Waits(p) /\ IF p \in Cli THEN CliFail(p) ELSE Fail(p)

-----------------------------------------------------------------------------
RequestStep(w) ==
    \/ \E right \in BOOLEAN : VerifyPassword(w, right)
    \/ Purge(w) \/ TakeRow(w) \/ InsertSession(w) \/ Authenticate(w) \/ DeleteSession(w)

CliStep(c) ==
    \/ ReadAdmin(c) \/ UpdatePassword(c) \/ DeleteSessions(c) \/ TakeRow(c)
    \/ CommitReset(c) \/ AddAdmin(c) \/ CommitAdmin(c)

Next ==
    \/ \E w \in Request, u \in User : BeginLogin(w, u)
    \/ \E w \in Request : \E t \in 1..lastToken : BeginLogout(w, t)
    \/ \E w \in Request : RequestStep(w) \/ Fail(w)
    \/ \E c \in Cli, u \in User, reset \in BOOLEAN : BeginCli(c, u, reset)
    \/ \E c \in Cli : CliStep(c) \/ CliFail(c)
    \/ Tick

Spec == Init /\ [][Next]_vars

\* The server executes every statement that need not wait; one that waits goes on
\* when it can or is ended by lock_timeout.
FairSpec ==
    /\ Spec
    /\ \A w \in Request : WF_vars(RequestStep(w) /\ ~Waits(w)) /\ WF_vars(LockTimeout(w))
    /\ \A c \in Cli : WF_vars(CliStep(c) /\ ~Waits(c)) /\ WF_vars(LockTimeout(c))

-----------------------------------------------------------------------------
TypeOK ==
    /\ password \in [User -> Nat] /\ sessions \subseteq Row /\ now \in Nat
    /\ lastToken \in Nat /\ requests \in Nat /\ runs \in Nat \ {0}
    /\ pc \in [Process -> {"idle", "verify", "purge", "insert", "auth", "delete", "read",
                           "update", "sessions", "commit", "add", "added"}]
    /\ user \in [Process -> User \cup {None}]
    /\ \A w \in Request : pc[w] \in {"verify", "purge", "insert"} => user[w] \in User
    /\ \A c \in Cli : pc[c] # "idle" => user[c] \in User /\ new[c] # 0
    /\ chosen \in [Process -> SUBSET Row] /\ gone \in [Process -> SUBSET Row]
    /\ token \in [Request -> Nat] /\ pw \in [Request -> Nat]
    /\ flag \in [Cli -> BOOLEAN] /\ new \in [Cli -> Nat]
    /\ late \in [Request -> BOOLEAN] /\ ended \subseteq Nat

\* "Reset invalidates that user's existing sessions" (CLIENT_USER_MANUAL.md:409),
\* as far as it does: a session opened with a password that is no longer current
\* is one whose login was under way while the reset was.
SurvivorsOverlapped ==
    \A r \in sessions : r.pw # password[r.user] => r.late

\* The sentence as it stands: no session that exists when a password is reset
\* survives the reset.
ResetEndsSessions ==
    [][\A u \in User : password[u] # 0 /\ password'[u] # password[u] =>
          RowsOf(u) \cap sessions' = {}]_vars

\* A logout that has been answered is final: no purge or reset that was deleting
\* the same row at the time, and is rolled back, brings the session back.
LoggedOutStaysOut == \A r \in sessions : r.token \notin ended

\* Nobody is logged out by somebody else's login, logout or reset: a session
\* ends when it expires, is logged out, or its own user's password is reset.
SessionsLast ==
    [][\A r \in sessions \ sessions' :
          \/ r.expires <= now
          \/ \E w \in Request : pc[w] = "delete" /\ token[w] = r.token
          \/ password'[r.user] # password[r.user]]_vars

\* "Admin already exists; use --reset-password to change it" (cli.py:35): without
\* the flag nobody's password is changed, although account and flag were looked
\* at before another run created the account.
CreateKeepsPassword ==
    [][\A u \in User : password[u] # 0 /\ password'[u] # password[u] =>
          \E c \in Cli : flag[c] /\ user[c] = u /\ Updated(c)]_vars

\* No login, logout or run of the CLI waits forever.  Purges and resets that delete
\* the same rows in different orders can wait for each other in a circle;
\* lock_timeout ends one of them.
CallsEnd == \A p \in Process : []<>(pc[p] = "idle")

\* What makes SurvivorsOverlapped inductive: the same for logins that have not
\* inserted their session, and for the rows and logins a reset leaves behind.
LateLogins ==
    \A w \in Request : Verified(w) /\ pw[w] # password[user[w]] => late[w]
SweepComplete ==
    \A c \in Cli : Swept(c) =>
        /\ \A r \in sessions : r.user = user[c] => r.late \/ r \in chosen[c]
        /\ \A w \in Request : Verified(w) /\ user[w] = user[c] => late[w]
\* Tokens and passwords are drawn from counters, and used once.
TokensDrawn ==
    /\ \A r \in sessions : r.token <= lastToken
    /\ \A w \in Request : token[w] <= lastToken
    /\ \A t \in ended : t <= lastToken
PasswordsDrawn ==
    /\ \A u \in User : password[u] <= runs
    /\ \A r \in sessions : r.pw # 0
    /\ \A w \in Request : Verified(w) => pw[w] # 0
    /\ \A c \in Cli : new[c] <= runs
    /\ \A c \in Cli : pc[c] # "idle" =>
          /\ \A u \in User : password[u] # new[c]
          /\ \A b \in Cli \ {c} : new[b] # new[c]

\* A process deletes what it may: expired rows, or those of its user.
Deletions ==
    /\ \A p \in Process : gone[p] \subseteq chosen[p]
    /\ \A w \in Request : chosen[w] # {} =>
          pc[w] = "insert" /\ \A r \in chosen[w] : r.expires <= now
    /\ \A c \in Cli : chosen[c] # {} => Swept(c) /\ \A r \in chosen[c] : r.user = user[c]

\* A run changes an existing account on request only, and adds a missing one
\* alone.
Accounts ==
    \A c \in Cli :
        /\ pc[c] = "update" \/ Updated(c) => flag[c] /\ password[user[c]] # 0
        /\ pc[c] = "added" =>
              /\ password[user[c]] = 0
              /\ \A b \in Cli \ {c} : pc[b] = "added" => user[b] # user[c]

SessionsInv ==
    /\ TypeOK /\ TokensDrawn /\ PasswordsDrawn /\ Deletions /\ Accounts
    /\ LateLogins /\ SweepComplete /\ SurvivorsOverlapped /\ LoggedOutStaysOut
=============================================================================
