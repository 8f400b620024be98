--------------------------- MODULE SessionsProofs ---------------------------
(***************************************************************************)
(* Proofs about Sessions, for any users, requests and runs of the CLI.       *)
(*                                                                          *)
(* SessionsInv is inductive.  A session of an old password is late because   *)
(* its login was: LateLogins and SweepComplete carry that over from the      *)
(* reset's DELETE, which sees only committed sessions, to its COMMIT and to  *)
(* the logins that insert theirs afterwards.                                *)
(***************************************************************************)
EXTENDS Sessions, TLAPS

\* A process that ends leaves every variable its type.
LEMMA EndType ==
    ASSUME TypeOK, NEW w \in Request, End(w), UNCHANGED <<tables, now, lastToken, cliVars, ended>>
    PROVE  TypeOK'
BY SessionsAssumption DEF TypeOK, End, Leave, GoTo, Process, Row, tables, cliVars
LEMMA CliEndType ==
    ASSUME TypeOK, NEW c \in Cli, CliEnd(c), UNCHANGED <<tables, now, reqVars, ended>>
    PROVE  TypeOK'
BY SessionsAssumption DEF TypeOK, CliEnd, Leave, GoTo, Process, Row, tables, reqVars

\* Every variable keeps its type.
LEMMA TypeStep ==
    ASSUME TypeOK, [Next]_vars
    PROVE  TypeOK'
<1> USE SessionsAssumption DEF Process, Row, vars, tables, procVars, reqVars, cliVars
<1>1. CASE UNCHANGED vars
  BY <1>1 DEF TypeOK
<1>2. ASSUME NEW w \in Request, NEW u \in User, BeginLogin(w, u) PROVE TypeOK'
  BY <1>2 DEF BeginLogin, GoTo, TypeOK
<1>3. ASSUME NEW w \in Request, NEW t \in 1..lastToken, BeginLogout(w, t) PROVE TypeOK'
  BY <1>3 DEF BeginLogout, GoTo, TypeOK
<1>4. ASSUME NEW w \in Request, NEW right \in BOOLEAN, VerifyPassword(w, right) PROVE TypeOK'
  <2>1. CASE right /\ password[user[w]] # 0
    <3>1. pc[w] = "verify" /\ pc' = [pc EXCEPT ![w] = "purge"]
      BY <1>4, <2>1 DEF VerifyPassword, GoTo
    <3>2. user[w] \in User
      BY <3>1 DEF TypeOK
    <3>3. pw' \in [Request -> Nat]
      BY <1>4, <2>1, <3>2 DEF VerifyPassword, TypeOK
    <3>4. late' \in [Request -> BOOLEAN]
      BY <1>4, <2>1 DEF VerifyPassword, TypeOK
    <3>5. UNCHANGED <<password, sessions, now, lastToken, requests, runs, user, chosen, gone, token, flag, new, ended>>
      BY <1>4, <2>1 DEF VerifyPassword
    <3>6. QED
      BY <3>1, <3>2, <3>3, <3>4, <3>5 DEF TypeOK
  <2>2. CASE ~ (right /\ password[user[w]] # 0)
    BY <1>4, <2>2, EndType DEF VerifyPassword
  <2>3. QED
    BY <2>1, <2>2
<1>5. ASSUME NEW w \in Request, Purge(w) PROVE TypeOK'
  BY <1>5 DEF Purge, GoTo, Expired, TypeOK
<1>6. ASSUME NEW w \in Request, InsertSession(w) PROVE TypeOK'
  BY <1>6 DEF InsertSession, End, Leave, GoTo, TypeOK
<1>7. ASSUME NEW w \in Request, Authenticate(w) PROVE TypeOK'
  <2>1. CASE TokenRow(token[w]) \ Expired # {}
    BY <1>7, <2>1 DEF Authenticate, GoTo, TypeOK
  <2>2. CASE ~ (TokenRow(token[w]) \ Expired # {})
    BY <1>7, <2>2, EndType DEF Authenticate
  <2>3. QED
    BY <2>1, <2>2
<1>8. ASSUME NEW w \in Request, DeleteSession(w) PROVE TypeOK'
  BY <1>8 DEF DeleteSession, End, Leave, GoTo, TokenRow, TypeOK
<1>9. ASSUME NEW w \in Request, Fail(w) PROVE TypeOK'
  BY <1>9, EndType DEF Fail
<1>10. ASSUME NEW c \in Cli, NEW u \in User, NEW reset \in BOOLEAN, BeginCli(c, u, reset) PROVE TypeOK'
  BY <1>10 DEF BeginCli, GoTo, TypeOK
<1>11. ASSUME NEW c \in Cli, ReadAdmin(c) PROVE TypeOK'
  <2>1. CASE password[user[c]] # 0 /\ ~flag[c]
    BY <1>11, <2>1, CliEndType DEF ReadAdmin
  <2>2. CASE ~ (password[user[c]] # 0 /\ ~flag[c])
    BY <1>11, <2>2 DEF ReadAdmin, GoTo, TypeOK
  <2>3. QED
    BY <2>1, <2>2
<1>12. ASSUME NEW c \in Cli, UpdatePassword(c) PROVE TypeOK'
  BY <1>12 DEF UpdatePassword, GoTo, TypeOK
<1>13. ASSUME NEW c \in Cli, DeleteSessions(c) PROVE TypeOK'
  BY <1>13 DEF DeleteSessions, GoTo, RowsOf, TypeOK
<1>14. ASSUME NEW c \in Cli, CommitReset(c) PROVE TypeOK'
  BY <1>14 DEF CommitReset, SetPassword, CliEnd, Leave, GoTo, TypeOK
<1>15. ASSUME NEW c \in Cli, AddAdmin(c) PROVE TypeOK'
  <2>1. CASE password[user[c]] = 0
    BY <1>15, <2>1 DEF AddAdmin, GoTo, TypeOK
  <2>2. CASE ~ (password[user[c]] = 0)
    BY <1>15, <2>2, CliEndType DEF AddAdmin
  <2>3. QED
    BY <2>1, <2>2
<1>16. ASSUME NEW c \in Cli, CommitAdmin(c) PROVE TypeOK'
  BY <1>16 DEF CommitAdmin, SetPassword, CliEnd, Leave, GoTo, TypeOK
<1>17. ASSUME NEW c \in Cli, CliFail(c) PROVE TypeOK'
  BY <1>17, CliEndType DEF CliFail
<1>18. CASE Tick
  BY <1>18 DEF Tick, TypeOK
<1>19. ASSUME NEW p \in Process, TakeRow(p) PROVE TypeOK'
  BY <1>19 DEF TakeRow, Remaining, TypeOK
<1>20. QED
  BY <1>1, <1>2, <1>3, <1>4, <1>5, <1>6, <1>7, <1>8, <1>9, <1>10, <1>11, <1>12, <1>13, <1>14, <1>15, <1>16, <1>17, <1>18, <1>19 DEF Next, RequestStep, CliStep

\* A token drawn from the counter is new.
LEMMA TokensStep ==
    ASSUME TypeOK, TokensDrawn, [Next]_vars
    PROVE  TokensDrawn'
<1> USE SessionsAssumption DEF Process, Row, vars, tables, procVars, reqVars, cliVars
<1>1. CASE UNCHANGED vars
  BY <1>1 DEF TypeOK, TokensDrawn
<1>2. ASSUME NEW w \in Request, NEW u \in User, BeginLogin(w, u) PROVE TokensDrawn'
  BY <1>2 DEF BeginLogin, GoTo, TypeOK, TokensDrawn
<1>3. ASSUME NEW w \in Request, NEW t \in 1..lastToken, BeginLogout(w, t) PROVE TokensDrawn'
  BY <1>3 DEF BeginLogout, GoTo, TypeOK, TokensDrawn
<1>4. ASSUME NEW w \in Request, NEW right \in BOOLEAN, VerifyPassword(w, right) PROVE TokensDrawn'
  BY <1>4 DEF VerifyPassword, End, Leave, GoTo, TypeOK, TokensDrawn
<1>5. ASSUME NEW w \in Request, Purge(w) PROVE TokensDrawn'
  BY <1>5 DEF Purge, GoTo, Expired, TypeOK, TokensDrawn
<1>6. ASSUME NEW w \in Request, InsertSession(w) PROVE TokensDrawn'
  BY <1>6 DEF InsertSession, End, Leave, GoTo, TypeOK, TokensDrawn
<1>7. ASSUME NEW w \in Request, Authenticate(w) PROVE TokensDrawn'
  BY <1>7 DEF Authenticate, End, Leave, GoTo, TypeOK, TokensDrawn
<1>8. ASSUME NEW w \in Request, DeleteSession(w) PROVE TokensDrawn'
  BY <1>8 DEF DeleteSession, End, Leave, GoTo, TokenRow, TypeOK, TokensDrawn
<1>9. ASSUME NEW w \in Request, Fail(w) PROVE TokensDrawn'
  BY <1>9 DEF Fail, End, Leave, GoTo, TypeOK, TokensDrawn
<1>10. ASSUME NEW c \in Cli, NEW u \in User, NEW reset \in BOOLEAN, BeginCli(c, u, reset) PROVE TokensDrawn'
  BY <1>10 DEF BeginCli, GoTo, TypeOK, TokensDrawn
<1>11. ASSUME NEW c \in Cli, ReadAdmin(c) PROVE TokensDrawn'
  BY <1>11 DEF ReadAdmin, CliEnd, Leave, GoTo, TypeOK, TokensDrawn
<1>12. ASSUME NEW c \in Cli, UpdatePassword(c) PROVE TokensDrawn'
  BY <1>12 DEF UpdatePassword, GoTo, TypeOK, TokensDrawn
<1>13. ASSUME NEW c \in Cli, DeleteSessions(c) PROVE TokensDrawn'
  BY <1>13 DEF DeleteSessions, GoTo, RowsOf, TypeOK, TokensDrawn
<1>14. ASSUME NEW c \in Cli, CommitReset(c) PROVE TokensDrawn'
  BY <1>14 DEF CommitReset, SetPassword, CliEnd, Leave, GoTo, TypeOK, TokensDrawn
<1>15. ASSUME NEW c \in Cli, AddAdmin(c) PROVE TokensDrawn'
  BY <1>15 DEF AddAdmin, CliEnd, Leave, GoTo, TypeOK, TokensDrawn
<1>16. ASSUME NEW c \in Cli, CommitAdmin(c) PROVE TokensDrawn'
  BY <1>16 DEF CommitAdmin, SetPassword, CliEnd, Leave, GoTo, TypeOK, TokensDrawn
<1>17. ASSUME NEW c \in Cli, CliFail(c) PROVE TokensDrawn'
  BY <1>17 DEF CliFail, CliEnd, Leave, GoTo, TypeOK, TokensDrawn
<1>18. CASE Tick
  BY <1>18 DEF Tick, TypeOK, TokensDrawn
<1>19. ASSUME NEW p \in Process, TakeRow(p) PROVE TokensDrawn'
  BY <1>19 DEF TakeRow, Remaining, TypeOK, TokensDrawn
<1>20. QED
  BY <1>1, <1>2, <1>3, <1>4, <1>5, <1>6, <1>7, <1>8, <1>9, <1>10, <1>11, <1>12, <1>13, <1>14, <1>15, <1>16, <1>17, <1>18, <1>19 DEF Next, RequestStep, CliStep

\* So is a password.
LEMMA PasswordsStep ==
    ASSUME TypeOK, PasswordsDrawn, [Next]_vars
    PROVE  PasswordsDrawn'
<1> USE SessionsAssumption DEF Process, Row, vars, tables, procVars, reqVars, cliVars
<1>1. CASE UNCHANGED vars
  BY <1>1 DEF TypeOK, PasswordsDrawn, Verified
<1>2. ASSUME NEW w \in Request, NEW u \in User, BeginLogin(w, u) PROVE PasswordsDrawn'
  BY <1>2 DEF BeginLogin, GoTo, TypeOK, PasswordsDrawn, Verified
<1>3. ASSUME NEW w \in Request, NEW t \in 1..lastToken, BeginLogout(w, t) PROVE PasswordsDrawn'
  BY <1>3 DEF BeginLogout, GoTo, TypeOK, PasswordsDrawn, Verified
<1>4. ASSUME NEW w \in Request, NEW right \in BOOLEAN, VerifyPassword(w, right) PROVE PasswordsDrawn'
  BY <1>4 DEF VerifyPassword, End, Leave, GoTo, TypeOK, PasswordsDrawn, Verified
<1>5. ASSUME NEW w \in Request, Purge(w) PROVE PasswordsDrawn'
  BY <1>5 DEF Purge, GoTo, Expired, TypeOK, PasswordsDrawn, Verified
<1>6. ASSUME NEW w \in Request, InsertSession(w) PROVE PasswordsDrawn'
  BY <1>6 DEF InsertSession, End, Leave, GoTo, TypeOK, PasswordsDrawn, Verified
<1>7. ASSUME NEW w \in Request, Authenticate(w) PROVE PasswordsDrawn'
  BY <1>7 DEF Authenticate, End, Leave, GoTo, TypeOK, PasswordsDrawn, Verified
<1>8. ASSUME NEW w \in Request, DeleteSession(w) PROVE PasswordsDrawn'
  BY <1>8 DEF DeleteSession, End, Leave, GoTo, TokenRow, TypeOK, PasswordsDrawn, Verified
<1>9. ASSUME NEW w \in Request, Fail(w) PROVE PasswordsDrawn'
  BY <1>9 DEF Fail, End, Leave, GoTo, TypeOK, PasswordsDrawn, Verified
<1>10. ASSUME NEW c \in Cli, NEW u \in User, NEW reset \in BOOLEAN, BeginCli(c, u, reset) PROVE PasswordsDrawn'
  <2>1. pc' = [pc EXCEPT ![c] = "read"] /\ new' = [new EXCEPT ![c] = runs + 1] /\ runs' = runs + 1
    BY <1>10 DEF BeginCli, GoTo
  <2>2. ASSUME NEW b \in Cli, pc'[b] # "idle" PROVE
              /\ \A v \in User : password[v] # new'[b]
              /\ \A e \in Cli \ {b} : new'[e] # new'[b]
    <3>1. CASE b = c
      BY <2>1, <2>2, <3>1, <1>10 DEF BeginCli, TypeOK, PasswordsDrawn, Verified
    <3>2. CASE b # c
      BY <2>1, <2>2, <3>2, <1>10 DEF BeginCli, TypeOK, PasswordsDrawn, Verified
    <3>3. QED
      BY <3>1, <3>2
  <2>3. QED
    BY <2>1, <2>2, <1>10 DEF BeginCli, TypeOK, PasswordsDrawn, Verified
<1>11. ASSUME NEW c \in Cli, ReadAdmin(c) PROVE PasswordsDrawn'
  BY <1>11 DEF ReadAdmin, CliEnd, Leave, GoTo, TypeOK, PasswordsDrawn, Verified
<1>12. ASSUME NEW c \in Cli, UpdatePassword(c) PROVE PasswordsDrawn'
  BY <1>12 DEF UpdatePassword, GoTo, TypeOK, PasswordsDrawn, Verified
<1>13. ASSUME NEW c \in Cli, DeleteSessions(c) PROVE PasswordsDrawn'
  BY <1>13 DEF DeleteSessions, GoTo, RowsOf, TypeOK, PasswordsDrawn, Verified
<1>14. ASSUME NEW c \in Cli, CommitReset(c) PROVE PasswordsDrawn'
  BY <1>14 DEF CommitReset, SetPassword, CliEnd, Leave, GoTo, TypeOK, PasswordsDrawn, Verified
<1>15. ASSUME NEW c \in Cli, AddAdmin(c) PROVE PasswordsDrawn'
  BY <1>15 DEF AddAdmin, CliEnd, Leave, GoTo, TypeOK, PasswordsDrawn, Verified
<1>16. ASSUME NEW c \in Cli, CommitAdmin(c) PROVE PasswordsDrawn'
  BY <1>16 DEF CommitAdmin, SetPassword, CliEnd, Leave, GoTo, TypeOK, PasswordsDrawn, Verified
<1>17. ASSUME NEW c \in Cli, CliFail(c) PROVE PasswordsDrawn'
  BY <1>17 DEF CliFail, CliEnd, Leave, GoTo, TypeOK, PasswordsDrawn, Verified
<1>18. CASE Tick
  BY <1>18 DEF Tick, TypeOK, PasswordsDrawn, Verified
<1>19. ASSUME NEW p \in Process, TakeRow(p) PROVE PasswordsDrawn'
  BY <1>19 DEF TakeRow, Remaining, TypeOK, PasswordsDrawn, Verified
<1>20. QED
  BY <1>1, <1>2, <1>3, <1>4, <1>5, <1>6, <1>7, <1>8, <1>9, <1>10, <1>11, <1>12, <1>13, <1>14, <1>15, <1>16, <1>17, <1>18, <1>19 DEF Next, RequestStep, CliStep

\* A process that ends keeps none of its deletes; the others keep theirs.
LEMMA EndDeletions ==
    ASSUME TypeOK, Deletions, NEW p \in Process, Leave(p), UNCHANGED now
    PROVE  Deletions'
BY DEF TypeOK, Deletions, Leave, GoTo, Process, Swept

\* What is expired stays expired, and a row keeps its user.
LEMMA DeletionsStep ==
    ASSUME TypeOK, Deletions, [Next]_vars
    PROVE  Deletions'
<1> USE SessionsAssumption DEF Process, Row, vars, tables, procVars, reqVars, cliVars
<1>1. CASE UNCHANGED vars
  BY <1>1 DEF TypeOK, Deletions, Swept
<1>2. ASSUME NEW w \in Request, NEW u \in User, BeginLogin(w, u) PROVE Deletions'
  BY <1>2 DEF BeginLogin, GoTo, TypeOK, Deletions, Swept
<1>3. ASSUME NEW w \in Request, NEW t \in 1..lastToken, BeginLogout(w, t) PROVE Deletions'
  BY <1>3 DEF BeginLogout, GoTo, TypeOK, Deletions, Swept
<1>4. ASSUME NEW w \in Request, NEW right \in BOOLEAN, VerifyPassword(w, right) PROVE Deletions'
  <2>1. CASE right /\ password[user[w]] # 0
    BY <1>4, <2>1 DEF VerifyPassword, GoTo, TypeOK, Deletions, Swept
  <2>2. CASE ~ (right /\ password[user[w]] # 0)
    BY <1>4, <2>2, EndDeletions DEF VerifyPassword, End
  <2>3. QED
    BY <2>1, <2>2
<1>5. ASSUME NEW w \in Request, Purge(w) PROVE Deletions'
  BY <1>5 DEF Purge, GoTo, Expired, TypeOK, Deletions, Swept
<1>6. ASSUME NEW w \in Request, InsertSession(w) PROVE Deletions'
  BY <1>6 DEF InsertSession, End, Leave, GoTo, TypeOK, Deletions, Swept
<1>7. ASSUME NEW w \in Request, Authenticate(w) PROVE Deletions'
  <2>1. CASE TokenRow(token[w]) \ Expired # {}
    BY <1>7, <2>1 DEF Authenticate, GoTo, TypeOK, Deletions, Swept
  <2>2. CASE ~ (TokenRow(token[w]) \ Expired # {})
    BY <1>7, <2>2, EndDeletions DEF Authenticate, End
  <2>3. QED
    BY <2>1, <2>2
<1>8. ASSUME NEW w \in Request, DeleteSession(w) PROVE Deletions'
  BY <1>8 DEF DeleteSession, End, Leave, GoTo, TokenRow, TypeOK, Deletions, Swept
<1>9. ASSUME NEW w \in Request, Fail(w) PROVE Deletions'
  BY <1>9, EndDeletions DEF Fail, End
<1>10. ASSUME NEW c \in Cli, NEW u \in User, NEW reset \in BOOLEAN, BeginCli(c, u, reset) PROVE Deletions'
  BY <1>10 DEF BeginCli, GoTo, TypeOK, Deletions, Swept
<1>11. ASSUME NEW c \in Cli, ReadAdmin(c) PROVE Deletions'
  <2>1. CASE password[user[c]] # 0 /\ ~flag[c]
    BY <1>11, <2>1, EndDeletions DEF ReadAdmin, CliEnd
  <2>2. CASE ~ (password[user[c]] # 0 /\ ~flag[c])
    BY <1>11, <2>2 DEF ReadAdmin, GoTo, TypeOK, Deletions, Swept
  <2>3. QED
    BY <2>1, <2>2
<1>12. ASSUME NEW c \in Cli, UpdatePassword(c) PROVE Deletions'
  BY <1>12 DEF UpdatePassword, GoTo, TypeOK, Deletions, Swept
<1>13. ASSUME NEW c \in Cli, DeleteSessions(c) PROVE Deletions'
  BY <1>13 DEF DeleteSessions, GoTo, RowsOf, TypeOK, Deletions, Swept
<1>14. ASSUME NEW c \in Cli, CommitReset(c) PROVE Deletions'
  BY <1>14 DEF CommitReset, SetPassword, CliEnd, Leave, GoTo, TypeOK, Deletions, Swept
<1>15. ASSUME NEW c \in Cli, AddAdmin(c) PROVE Deletions'
  <2>1. CASE password[user[c]] = 0
    BY <1>15, <2>1 DEF AddAdmin, GoTo, TypeOK, Deletions, Swept
  <2>2. CASE ~ (password[user[c]] = 0)
    BY <1>15, <2>2, EndDeletions DEF AddAdmin, CliEnd
  <2>3. QED
    BY <2>1, <2>2
<1>16. ASSUME NEW c \in Cli, CommitAdmin(c) PROVE Deletions'
  BY <1>16 DEF CommitAdmin, SetPassword, CliEnd, Leave, GoTo, TypeOK, Deletions, Swept
<1>17. ASSUME NEW c \in Cli, CliFail(c) PROVE Deletions'
  BY <1>17, EndDeletions DEF CliFail, CliEnd
<1>18. CASE Tick
  BY <1>18 DEF Tick, TypeOK, Deletions, Swept
<1>19. ASSUME NEW p \in Process, TakeRow(p) PROVE Deletions'
  BY <1>19 DEF TakeRow, Remaining, TypeOK, Deletions, Swept
<1>20. QED
  BY <1>1, <1>2, <1>3, <1>4, <1>5, <1>6, <1>7, <1>8, <1>9, <1>10, <1>11, <1>12, <1>13, <1>14, <1>15, <1>16, <1>17, <1>18, <1>19 DEF Next, RequestStep, CliStep

\* Locks and keys keep two runs from changing an account at the same time.
LEMMA AccountsStep ==
    ASSUME TypeOK, PasswordsDrawn, Accounts, [Next]_vars
    PROVE  Accounts'
<1> USE SessionsAssumption DEF Process, Row, vars, tables, procVars, reqVars, cliVars
<1>1. CASE UNCHANGED vars
  BY <1>1 DEF TypeOK, PasswordsDrawn, Accounts, Updated, Verified
<1>2. ASSUME NEW w \in Request, NEW u \in User, BeginLogin(w, u) PROVE Accounts'
  BY <1>2 DEF BeginLogin, GoTo, TypeOK, PasswordsDrawn, Accounts, Updated, Verified
<1>3. ASSUME NEW w \in Request, NEW t \in 1..lastToken, BeginLogout(w, t) PROVE Accounts'
  BY <1>3 DEF BeginLogout, GoTo, TypeOK, PasswordsDrawn, Accounts, Updated, Verified
<1>4. ASSUME NEW w \in Request, NEW right \in BOOLEAN, VerifyPassword(w, right) PROVE Accounts'
  BY <1>4 DEF VerifyPassword, End, Leave, GoTo, TypeOK, PasswordsDrawn, Accounts, Updated, Verified
<1>5. ASSUME NEW w \in Request, Purge(w) PROVE Accounts'
  BY <1>5 DEF Purge, GoTo, Expired, TypeOK, PasswordsDrawn, Accounts, Updated, Verified
<1>6. ASSUME NEW w \in Request, InsertSession(w) PROVE Accounts'
  BY <1>6 DEF InsertSession, End, Leave, GoTo, TypeOK, PasswordsDrawn, Accounts, Updated, Verified
<1>7. ASSUME NEW w \in Request, Authenticate(w) PROVE Accounts'
  BY <1>7 DEF Authenticate, End, Leave, GoTo, TypeOK, PasswordsDrawn, Accounts, Updated, Verified
<1>8. ASSUME NEW w \in Request, DeleteSession(w) PROVE Accounts'
  BY <1>8 DEF DeleteSession, End, Leave, GoTo, TokenRow, TypeOK, PasswordsDrawn, Accounts, Updated, Verified
<1>9. ASSUME NEW w \in Request, Fail(w) PROVE Accounts'
  BY <1>9 DEF Fail, End, Leave, GoTo, TypeOK, PasswordsDrawn, Accounts, Updated, Verified
<1>10. ASSUME NEW c \in Cli, NEW u \in User, NEW reset \in BOOLEAN, BeginCli(c, u, reset) PROVE Accounts'
  BY <1>10 DEF BeginCli, GoTo, TypeOK, PasswordsDrawn, Accounts, Updated, Verified
<1>11. ASSUME NEW c \in Cli, ReadAdmin(c) PROVE Accounts'
  BY <1>11 DEF ReadAdmin, CliEnd, Leave, GoTo, TypeOK, PasswordsDrawn, Accounts, Updated, Verified
<1>12. ASSUME NEW c \in Cli, UpdatePassword(c) PROVE Accounts'
  BY <1>12 DEF Waits, WaitsFor, UpdatePassword, GoTo, TypeOK, PasswordsDrawn, Accounts, Updated, Verified
<1>13. ASSUME NEW c \in Cli, DeleteSessions(c) PROVE Accounts'
  BY <1>13 DEF DeleteSessions, GoTo, RowsOf, TypeOK, PasswordsDrawn, Accounts, Updated, Verified
<1>14. ASSUME NEW c \in Cli, CommitReset(c) PROVE Accounts'
  BY <1>14 DEF CommitReset, SetPassword, CliEnd, Leave, GoTo, TypeOK, PasswordsDrawn, Accounts, Updated, Verified
<1>15. ASSUME NEW c \in Cli, AddAdmin(c) PROVE Accounts'
  BY <1>15 DEF Waits, WaitsFor, AddAdmin, CliEnd, Leave, GoTo, TypeOK, PasswordsDrawn, Accounts, Updated, Verified
<1>16. ASSUME NEW c \in Cli, CommitAdmin(c) PROVE Accounts'
  BY <1>16 DEF CommitAdmin, SetPassword, CliEnd, Leave, GoTo, TypeOK, PasswordsDrawn, Accounts, Updated, Verified
<1>17. ASSUME NEW c \in Cli, CliFail(c) PROVE Accounts'
  BY <1>17 DEF CliFail, CliEnd, Leave, GoTo, TypeOK, PasswordsDrawn, Accounts, Updated, Verified
<1>18. CASE Tick
  BY <1>18 DEF Tick, TypeOK, PasswordsDrawn, Accounts, Updated, Verified
<1>19. ASSUME NEW p \in Process, TakeRow(p) PROVE Accounts'
  BY <1>19 DEF TakeRow, Remaining, TypeOK, PasswordsDrawn, Accounts, Updated, Verified
<1>20. QED
  BY <1>1, <1>2, <1>3, <1>4, <1>5, <1>6, <1>7, <1>8, <1>9, <1>10, <1>11, <1>12, <1>13, <1>14, <1>15, <1>16, <1>17, <1>18, <1>19 DEF Next, RequestStep, CliStep

\* A login that verified the old password is known to be late when it is replaced.
LEMMA LateLoginsStep ==
    ASSUME TypeOK, PasswordsDrawn, Accounts, LateLogins, SweepComplete, [Next]_vars
    PROVE  LateLogins'
<1> USE SessionsAssumption DEF Process, Row, vars, tables, procVars, reqVars, cliVars
<1>1. CASE UNCHANGED vars
  BY <1>1 DEF TypeOK, LateLogins, Verified
<1>2. ASSUME NEW w \in Request, NEW u \in User, BeginLogin(w, u) PROVE LateLogins'
  BY <1>2 DEF BeginLogin, GoTo, TypeOK, LateLogins, Verified
<1>3. ASSUME NEW w \in Request, NEW t \in 1..lastToken, BeginLogout(w, t) PROVE LateLogins'
  BY <1>3 DEF BeginLogout, GoTo, TypeOK, LateLogins, Verified
<1>4. ASSUME NEW w \in Request, NEW right \in BOOLEAN, VerifyPassword(w, right) PROVE LateLogins'
  BY <1>4 DEF VerifyPassword, End, Leave, GoTo, TypeOK, LateLogins, Verified
<1>5. ASSUME NEW w \in Request, Purge(w) PROVE LateLogins'
  BY <1>5 DEF Purge, GoTo, Expired, TypeOK, LateLogins, Verified
<1>6. ASSUME NEW w \in Request, InsertSession(w) PROVE LateLogins'
  BY <1>6 DEF InsertSession, End, Leave, GoTo, TypeOK, LateLogins, Verified
<1>7. ASSUME NEW w \in Request, Authenticate(w) PROVE LateLogins'
  BY <1>7 DEF Authenticate, End, Leave, GoTo, TypeOK, LateLogins, Verified
<1>8. ASSUME NEW w \in Request, DeleteSession(w) PROVE LateLogins'
  BY <1>8 DEF DeleteSession, End, Leave, GoTo, TokenRow, TypeOK, LateLogins, Verified
<1>9. ASSUME NEW w \in Request, Fail(w) PROVE LateLogins'
  BY <1>9 DEF Fail, End, Leave, GoTo, TypeOK, LateLogins, Verified
<1>10. ASSUME NEW c \in Cli, NEW u \in User, NEW reset \in BOOLEAN, BeginCli(c, u, reset) PROVE LateLogins'
  BY <1>10 DEF BeginCli, GoTo, TypeOK, LateLogins, Verified
<1>11. ASSUME NEW c \in Cli, ReadAdmin(c) PROVE LateLogins'
  BY <1>11 DEF ReadAdmin, CliEnd, Leave, GoTo, TypeOK, LateLogins, Verified
<1>12. ASSUME NEW c \in Cli, UpdatePassword(c) PROVE LateLogins'
  BY <1>12 DEF UpdatePassword, GoTo, TypeOK, LateLogins, Verified
<1>13. ASSUME NEW c \in Cli, DeleteSessions(c) PROVE LateLogins'
  BY <1>13 DEF DeleteSessions, GoTo, RowsOf, TypeOK, LateLogins, Verified
<1>14. ASSUME NEW c \in Cli, CommitReset(c) PROVE LateLogins'
  BY <1>14 DEF CommitReset, Remaining, SetPassword, CliEnd, Leave, GoTo, SweepComplete, Swept, TypeOK, LateLogins, Verified
<1>15. ASSUME NEW c \in Cli, AddAdmin(c) PROVE LateLogins'
  BY <1>15 DEF AddAdmin, CliEnd, Leave, GoTo, TypeOK, LateLogins, Verified
<1>16. ASSUME NEW c \in Cli, CommitAdmin(c) PROVE LateLogins'
  BY <1>16 DEF CommitAdmin, SetPassword, CliEnd, Leave, GoTo, Accounts, PasswordsDrawn, TypeOK, LateLogins, Verified
<1>17. ASSUME NEW c \in Cli, CliFail(c) PROVE LateLogins'
  BY <1>17 DEF CliFail, CliEnd, Leave, GoTo, TypeOK, LateLogins, Verified
<1>18. CASE Tick
  BY <1>18 DEF Tick, TypeOK, LateLogins, Verified
<1>19. ASSUME NEW p \in Process, TakeRow(p) PROVE LateLogins'
  BY <1>19 DEF TakeRow, Remaining, TypeOK, LateLogins, Verified
<1>20. QED
  BY <1>1, <1>2, <1>3, <1>4, <1>5, <1>6, <1>7, <1>8, <1>9, <1>10, <1>11, <1>12, <1>13, <1>14, <1>15, <1>16, <1>17, <1>18, <1>19 DEF Next, RequestStep, CliStep

\* What a reset's DELETE leaves is late, and what is inserted until its COMMIT.
LEMMA SweepStep ==
    ASSUME TypeOK, SweepComplete, [Next]_vars
    PROVE  SweepComplete'
<1> USE SessionsAssumption DEF Process, Row, vars, tables, procVars, reqVars, cliVars
<1>1. CASE UNCHANGED vars
  BY <1>1 DEF TypeOK, SweepComplete, Verified, Swept
<1>2. ASSUME NEW w \in Request, NEW u \in User, BeginLogin(w, u) PROVE SweepComplete'
  BY <1>2 DEF BeginLogin, GoTo, TypeOK, SweepComplete, Verified, Swept
<1>3. ASSUME NEW w \in Request, NEW t \in 1..lastToken, BeginLogout(w, t) PROVE SweepComplete'
  BY <1>3 DEF BeginLogout, GoTo, TypeOK, SweepComplete, Verified, Swept
<1>4. ASSUME NEW w \in Request, NEW right \in BOOLEAN, VerifyPassword(w, right) PROVE SweepComplete'
  BY <1>4 DEF VerifyPassword, End, Leave, GoTo, TypeOK, SweepComplete, Verified, Swept
<1>5. ASSUME NEW w \in Request, Purge(w) PROVE SweepComplete'
  BY <1>5 DEF Purge, GoTo, Expired, TypeOK, SweepComplete, Verified, Swept
<1>6. ASSUME NEW w \in Request, InsertSession(w) PROVE SweepComplete'
  BY <1>6 DEF InsertSession, End, Leave, GoTo, TypeOK, SweepComplete, Verified, Swept
<1>7. ASSUME NEW w \in Request, Authenticate(w) PROVE SweepComplete'
  BY <1>7 DEF Authenticate, End, Leave, GoTo, TypeOK, SweepComplete, Verified, Swept
<1>8. ASSUME NEW w \in Request, DeleteSession(w) PROVE SweepComplete'
  BY <1>8 DEF DeleteSession, End, Leave, GoTo, TokenRow, TypeOK, SweepComplete, Verified, Swept
<1>9. ASSUME NEW w \in Request, Fail(w) PROVE SweepComplete'
  BY <1>9 DEF Fail, End, Leave, GoTo, TypeOK, SweepComplete, Verified, Swept
<1>10. ASSUME NEW c \in Cli, NEW u \in User, NEW reset \in BOOLEAN, BeginCli(c, u, reset) PROVE SweepComplete'
  BY <1>10 DEF BeginCli, GoTo, TypeOK, SweepComplete, Verified, Swept
<1>11. ASSUME NEW c \in Cli, ReadAdmin(c) PROVE SweepComplete'
  BY <1>11 DEF ReadAdmin, CliEnd, Leave, GoTo, TypeOK, SweepComplete, Verified, Swept
<1>12. ASSUME NEW c \in Cli, UpdatePassword(c) PROVE SweepComplete'
  BY <1>12 DEF UpdatePassword, GoTo, TypeOK, SweepComplete, Verified, Swept
<1>13. ASSUME NEW c \in Cli, DeleteSessions(c) PROVE SweepComplete'
  BY <1>13 DEF DeleteSessions, GoTo, RowsOf, TypeOK, SweepComplete, Verified, Swept
<1>14. ASSUME NEW c \in Cli, CommitReset(c) PROVE SweepComplete'
  BY <1>14 DEF CommitReset, Remaining, SetPassword, CliEnd, Leave, GoTo, TypeOK, SweepComplete, Verified, Swept
<1>15. ASSUME NEW c \in Cli, AddAdmin(c) PROVE SweepComplete'
  BY <1>15 DEF AddAdmin, CliEnd, Leave, GoTo, TypeOK, SweepComplete, Verified, Swept
<1>16. ASSUME NEW c \in Cli, CommitAdmin(c) PROVE SweepComplete'
  BY <1>16 DEF CommitAdmin, SetPassword, CliEnd, Leave, GoTo, TypeOK, SweepComplete, Verified, Swept
<1>17. ASSUME NEW c \in Cli, CliFail(c) PROVE SweepComplete'
  BY <1>17 DEF CliFail, CliEnd, Leave, GoTo, TypeOK, SweepComplete, Verified, Swept
<1>18. CASE Tick
  BY <1>18 DEF Tick, TypeOK, SweepComplete, Verified, Swept
<1>19. ASSUME NEW p \in Process, TakeRow(p) PROVE SweepComplete'
  BY <1>19 DEF TakeRow, Remaining, TypeOK, SweepComplete, Verified, Swept
<1>20. QED
  BY <1>1, <1>2, <1>3, <1>4, <1>5, <1>6, <1>7, <1>8, <1>9, <1>10, <1>11, <1>12, <1>13, <1>14, <1>15, <1>16, <1>17, <1>18, <1>19 DEF Next, RequestStep, CliStep

\* So what its COMMIT leaves of an old password is late.
LEMMA SurvivorsStep ==
    ASSUME TypeOK, PasswordsDrawn, Accounts, LateLogins, SweepComplete, SurvivorsOverlapped, [Next]_vars
    PROVE  SurvivorsOverlapped'
<1> USE SessionsAssumption DEF Process, Row, vars, tables, procVars, reqVars, cliVars
<1>1. CASE UNCHANGED vars
  BY <1>1 DEF TypeOK, SurvivorsOverlapped
<1>2. ASSUME NEW w \in Request, NEW u \in User, BeginLogin(w, u) PROVE SurvivorsOverlapped'
  BY <1>2 DEF BeginLogin, GoTo, TypeOK, SurvivorsOverlapped
<1>3. ASSUME NEW w \in Request, NEW t \in 1..lastToken, BeginLogout(w, t) PROVE SurvivorsOverlapped'
  BY <1>3 DEF BeginLogout, GoTo, TypeOK, SurvivorsOverlapped
<1>4. ASSUME NEW w \in Request, NEW right \in BOOLEAN, VerifyPassword(w, right) PROVE SurvivorsOverlapped'
  BY <1>4 DEF VerifyPassword, End, Leave, GoTo, TypeOK, SurvivorsOverlapped
<1>5. ASSUME NEW w \in Request, Purge(w) PROVE SurvivorsOverlapped'
  BY <1>5 DEF Purge, GoTo, Expired, TypeOK, SurvivorsOverlapped
<1>6. ASSUME NEW w \in Request, InsertSession(w) PROVE SurvivorsOverlapped'
  BY <1>6 DEF InsertSession, End, Leave, GoTo, LateLogins, Verified, TypeOK, SurvivorsOverlapped
<1>7. ASSUME NEW w \in Request, Authenticate(w) PROVE SurvivorsOverlapped'
  BY <1>7 DEF Authenticate, End, Leave, GoTo, TypeOK, SurvivorsOverlapped
<1>8. ASSUME NEW w \in Request, DeleteSession(w) PROVE SurvivorsOverlapped'
  BY <1>8 DEF DeleteSession, End, Leave, GoTo, TokenRow, TypeOK, SurvivorsOverlapped
<1>9. ASSUME NEW w \in Request, Fail(w) PROVE SurvivorsOverlapped'
  BY <1>9 DEF Fail, End, Leave, GoTo, TypeOK, SurvivorsOverlapped
<1>10. ASSUME NEW c \in Cli, NEW u \in User, NEW reset \in BOOLEAN, BeginCli(c, u, reset) PROVE SurvivorsOverlapped'
  BY <1>10 DEF BeginCli, GoTo, TypeOK, SurvivorsOverlapped
<1>11. ASSUME NEW c \in Cli, ReadAdmin(c) PROVE SurvivorsOverlapped'
  BY <1>11 DEF ReadAdmin, CliEnd, Leave, GoTo, TypeOK, SurvivorsOverlapped
<1>12. ASSUME NEW c \in Cli, UpdatePassword(c) PROVE SurvivorsOverlapped'
  BY <1>12 DEF UpdatePassword, GoTo, TypeOK, SurvivorsOverlapped
<1>13. ASSUME NEW c \in Cli, DeleteSessions(c) PROVE SurvivorsOverlapped'
  BY <1>13 DEF DeleteSessions, GoTo, RowsOf, TypeOK, SurvivorsOverlapped
<1>14. ASSUME NEW c \in Cli, CommitReset(c) PROVE SurvivorsOverlapped'
  BY <1>14 DEF CommitReset, Remaining, SetPassword, CliEnd, Leave, GoTo, SweepComplete, Swept, TypeOK, SurvivorsOverlapped
<1>15. ASSUME NEW c \in Cli, AddAdmin(c) PROVE SurvivorsOverlapped'
  BY <1>15 DEF AddAdmin, CliEnd, Leave, GoTo, TypeOK, SurvivorsOverlapped
<1>16. ASSUME NEW c \in Cli, CommitAdmin(c) PROVE SurvivorsOverlapped'
  BY <1>16 DEF CommitAdmin, SetPassword, CliEnd, Leave, GoTo, Accounts, PasswordsDrawn, TypeOK, SurvivorsOverlapped
<1>17. ASSUME NEW c \in Cli, CliFail(c) PROVE SurvivorsOverlapped'
  BY <1>17 DEF CliFail, CliEnd, Leave, GoTo, TypeOK, SurvivorsOverlapped
<1>18. CASE Tick
  BY <1>18 DEF Tick, TypeOK, SurvivorsOverlapped
<1>19. ASSUME NEW p \in Process, TakeRow(p) PROVE SurvivorsOverlapped'
  BY <1>19 DEF TakeRow, Remaining, TypeOK, SurvivorsOverlapped
<1>20. QED
  BY <1>1, <1>2, <1>3, <1>4, <1>5, <1>6, <1>7, <1>8, <1>9, <1>10, <1>11, <1>12, <1>13, <1>14, <1>15, <1>16, <1>17, <1>18, <1>19 DEF Next, RequestStep, CliStep

\* No step brings back the row of a token that was logged out.
LEMMA LoggedOutStep ==
    ASSUME TypeOK, TokensDrawn, LoggedOutStaysOut, [Next]_vars
    PROVE  LoggedOutStaysOut'
<1> USE SessionsAssumption DEF Process, Row, vars, tables, procVars, reqVars, cliVars
<1>1. CASE UNCHANGED vars
  BY <1>1 DEF TypeOK, TokensDrawn, LoggedOutStaysOut
<1>2. ASSUME NEW w \in Request, NEW u \in User, BeginLogin(w, u) PROVE LoggedOutStaysOut'
  BY <1>2 DEF BeginLogin, GoTo, TypeOK, TokensDrawn, LoggedOutStaysOut
<1>3. ASSUME NEW w \in Request, NEW t \in 1..lastToken, BeginLogout(w, t) PROVE LoggedOutStaysOut'
  BY <1>3 DEF BeginLogout, GoTo, TypeOK, TokensDrawn, LoggedOutStaysOut
<1>4. ASSUME NEW w \in Request, NEW right \in BOOLEAN, VerifyPassword(w, right) PROVE LoggedOutStaysOut'
  BY <1>4 DEF VerifyPassword, End, Leave, GoTo, TypeOK, TokensDrawn, LoggedOutStaysOut
<1>5. ASSUME NEW w \in Request, Purge(w) PROVE LoggedOutStaysOut'
  BY <1>5 DEF Purge, GoTo, Expired, TypeOK, TokensDrawn, LoggedOutStaysOut
<1>6. ASSUME NEW w \in Request, InsertSession(w) PROVE LoggedOutStaysOut'
  BY <1>6 DEF InsertSession, End, Leave, GoTo, TypeOK, TokensDrawn, LoggedOutStaysOut
<1>7. ASSUME NEW w \in Request, Authenticate(w) PROVE LoggedOutStaysOut'
  BY <1>7 DEF Authenticate, End, Leave, GoTo, TypeOK, TokensDrawn, LoggedOutStaysOut
<1>8. ASSUME NEW w \in Request, DeleteSession(w) PROVE LoggedOutStaysOut'
  BY <1>8 DEF DeleteSession, End, Leave, GoTo, TokenRow, TypeOK, TokensDrawn, LoggedOutStaysOut
<1>9. ASSUME NEW w \in Request, Fail(w) PROVE LoggedOutStaysOut'
  BY <1>9 DEF Fail, End, Leave, GoTo, TypeOK, TokensDrawn, LoggedOutStaysOut
<1>10. ASSUME NEW c \in Cli, NEW u \in User, NEW reset \in BOOLEAN, BeginCli(c, u, reset) PROVE LoggedOutStaysOut'
  BY <1>10 DEF BeginCli, GoTo, TypeOK, TokensDrawn, LoggedOutStaysOut
<1>11. ASSUME NEW c \in Cli, ReadAdmin(c) PROVE LoggedOutStaysOut'
  BY <1>11 DEF ReadAdmin, CliEnd, Leave, GoTo, TypeOK, TokensDrawn, LoggedOutStaysOut
<1>12. ASSUME NEW c \in Cli, UpdatePassword(c) PROVE LoggedOutStaysOut'
  BY <1>12 DEF UpdatePassword, GoTo, TypeOK, TokensDrawn, LoggedOutStaysOut
<1>13. ASSUME NEW c \in Cli, DeleteSessions(c) PROVE LoggedOutStaysOut'
  BY <1>13 DEF DeleteSessions, GoTo, RowsOf, TypeOK, TokensDrawn, LoggedOutStaysOut
<1>14. ASSUME NEW c \in Cli, CommitReset(c) PROVE LoggedOutStaysOut'
  BY <1>14 DEF CommitReset, SetPassword, CliEnd, Leave, GoTo, TypeOK, TokensDrawn, LoggedOutStaysOut
<1>15. ASSUME NEW c \in Cli, AddAdmin(c) PROVE LoggedOutStaysOut'
  BY <1>15 DEF AddAdmin, CliEnd, Leave, GoTo, TypeOK, TokensDrawn, LoggedOutStaysOut
<1>16. ASSUME NEW c \in Cli, CommitAdmin(c) PROVE LoggedOutStaysOut'
  BY <1>16 DEF CommitAdmin, SetPassword, CliEnd, Leave, GoTo, TypeOK, TokensDrawn, LoggedOutStaysOut
<1>17. ASSUME NEW c \in Cli, CliFail(c) PROVE LoggedOutStaysOut'
  BY <1>17 DEF CliFail, CliEnd, Leave, GoTo, TypeOK, TokensDrawn, LoggedOutStaysOut
<1>18. CASE Tick
  BY <1>18 DEF Tick, TypeOK, TokensDrawn, LoggedOutStaysOut
<1>19. ASSUME NEW p \in Process, TakeRow(p) PROVE LoggedOutStaysOut'
  BY <1>19 DEF TakeRow, Remaining, TypeOK, TokensDrawn, LoggedOutStaysOut
<1>20. QED
  BY <1>1, <1>2, <1>3, <1>4, <1>5, <1>6, <1>7, <1>8, <1>9, <1>10, <1>11, <1>12, <1>13, <1>14, <1>15, <1>16, <1>17, <1>18, <1>19 DEF Next, RequestStep, CliStep

\* A row goes with those its transaction deleted, and those it was allowed to delete.
LEMMA LastStep ==
    ASSUME TypeOK, PasswordsDrawn, Deletions, [Next]_vars
    PROVE  \A r \in sessions \ sessions' :
           \/ r.expires <= now
           \/ \E w \in Request : pc[w] = "delete" /\ token[w] = r.token
           \/ password'[r.user] # password[r.user]
<1> USE SessionsAssumption DEF Process, Row, vars, tables, procVars, reqVars, cliVars
<1> DEFINE Goal == \A r \in sessions \ sessions' :
                  \/ r.expires <= now
                  \/ \E w \in Request : pc[w] = "delete" /\ token[w] = r.token
                  \/ password'[r.user] # password[r.user]
<1> SUFFICES Goal
  OBVIOUS
<1>1. CASE UNCHANGED vars
  BY <1>1
<1>2. ASSUME NEW w \in Request, NEW u \in User, BeginLogin(w, u) PROVE Goal
  BY <1>2 DEF BeginLogin, GoTo
<1>3. ASSUME NEW w \in Request, NEW t \in 1..lastToken, BeginLogout(w, t) PROVE Goal
  BY <1>3 DEF BeginLogout, GoTo
<1>4. ASSUME NEW w \in Request, NEW right \in BOOLEAN, VerifyPassword(w, right) PROVE Goal
  BY <1>4 DEF VerifyPassword, End, Leave, GoTo
<1>5. ASSUME NEW w \in Request, Purge(w) PROVE Goal
  BY <1>5 DEF Purge, GoTo, Expired
<1>6. ASSUME NEW w \in Request, InsertSession(w) PROVE Goal
  BY <1>6 DEF InsertSession, End, Leave, GoTo, TypeOK, Deletions
<1>7. ASSUME NEW w \in Request, Authenticate(w) PROVE Goal
  BY <1>7 DEF Authenticate, End, Leave, GoTo
<1>8. ASSUME NEW w \in Request, DeleteSession(w) PROVE Goal
  BY <1>8 DEF DeleteSession, End, Leave, GoTo, TokenRow, TypeOK
<1>9. ASSUME NEW w \in Request, Fail(w) PROVE Goal
  BY <1>9 DEF Fail, End, Leave, GoTo
<1>10. ASSUME NEW c \in Cli, NEW u \in User, NEW reset \in BOOLEAN, BeginCli(c, u, reset) PROVE Goal
  BY <1>10 DEF BeginCli, GoTo
<1>11. ASSUME NEW c \in Cli, ReadAdmin(c) PROVE Goal
  BY <1>11 DEF ReadAdmin, CliEnd, Leave, GoTo
<1>12. ASSUME NEW c \in Cli, UpdatePassword(c) PROVE Goal
  BY <1>12 DEF UpdatePassword, GoTo
<1>13. ASSUME NEW c \in Cli, DeleteSessions(c) PROVE Goal
  BY <1>13 DEF DeleteSessions, GoTo, RowsOf
<1>14. ASSUME NEW c \in Cli, CommitReset(c) PROVE Goal
  BY <1>14 DEF CommitReset, SetPassword, CliEnd, Leave, GoTo, TypeOK, Deletions, PasswordsDrawn, Swept
<1>15. ASSUME NEW c \in Cli, AddAdmin(c) PROVE Goal
  BY <1>15 DEF AddAdmin, CliEnd, Leave, GoTo
<1>16. ASSUME NEW c \in Cli, CommitAdmin(c) PROVE Goal
  BY <1>16 DEF CommitAdmin, SetPassword, CliEnd, Leave, GoTo
<1>17. ASSUME NEW c \in Cli, CliFail(c) PROVE Goal
  BY <1>17 DEF CliFail, CliEnd, Leave, GoTo
<1>18. CASE Tick
  BY <1>18 DEF Tick
<1>19. ASSUME NEW p \in Process, TakeRow(p) PROVE Goal
  BY <1>19 DEF TakeRow, Remaining
<1> HIDE DEF Goal
<1>20. QED
  BY <1>1, <1>2, <1>3, <1>4, <1>5, <1>6, <1>7, <1>8, <1>9, <1>10, <1>11, <1>12, <1>13, <1>14, <1>15, <1>16, <1>17, <1>18, <1>19 DEF Next, RequestStep, CliStep

\* Only a run that holds the account's row changes its password.
LEMMA KeepsStep ==
    ASSUME TypeOK, Accounts, [Next]_vars
    PROVE  \A u \in User : password[u] # 0 /\ password'[u] # password[u] =>
           \E c \in Cli : flag[c] /\ user[c] = u /\ Updated(c)
<1> USE SessionsAssumption DEF Process, Row, vars, tables, procVars, reqVars, cliVars
<1> DEFINE Goal == \A u \in User : password[u] # 0 /\ password'[u] # password[u] =>
                  \E c \in Cli : flag[c] /\ user[c] = u /\ Updated(c)
<1> SUFFICES Goal
  OBVIOUS
<1>1. CASE UNCHANGED vars
  BY <1>1
<1>2. ASSUME NEW w \in Request, NEW u \in User, BeginLogin(w, u) PROVE Goal
  BY <1>2 DEF BeginLogin, GoTo
<1>3. ASSUME NEW w \in Request, NEW t \in 1..lastToken, BeginLogout(w, t) PROVE Goal
  BY <1>3 DEF BeginLogout, GoTo
<1>4. ASSUME NEW w \in Request, NEW right \in BOOLEAN, VerifyPassword(w, right) PROVE Goal
  BY <1>4 DEF VerifyPassword, End, Leave, GoTo
<1>5. ASSUME NEW w \in Request, Purge(w) PROVE Goal
  BY <1>5 DEF Purge, GoTo, Expired
<1>6. ASSUME NEW w \in Request, InsertSession(w) PROVE Goal
  BY <1>6 DEF InsertSession, End, Leave, GoTo
<1>7. ASSUME NEW w \in Request, Authenticate(w) PROVE Goal
  BY <1>7 DEF Authenticate, End, Leave, GoTo
<1>8. ASSUME NEW w \in Request, DeleteSession(w) PROVE Goal
  BY <1>8 DEF DeleteSession, End, Leave, GoTo, TokenRow
<1>9. ASSUME NEW w \in Request, Fail(w) PROVE Goal
  BY <1>9 DEF Fail, End, Leave, GoTo
<1>10. ASSUME NEW c \in Cli, NEW u \in User, NEW reset \in BOOLEAN, BeginCli(c, u, reset) PROVE Goal
  BY <1>10 DEF BeginCli, GoTo
<1>11. ASSUME NEW c \in Cli, ReadAdmin(c) PROVE Goal
  BY <1>11 DEF ReadAdmin, CliEnd, Leave, GoTo
<1>12. ASSUME NEW c \in Cli, UpdatePassword(c) PROVE Goal
  BY <1>12 DEF UpdatePassword, GoTo
<1>13. ASSUME NEW c \in Cli, DeleteSessions(c) PROVE Goal
  BY <1>13 DEF DeleteSessions, GoTo, RowsOf
<1>14. ASSUME NEW c \in Cli, CommitReset(c) PROVE Goal
  BY <1>14 DEF CommitReset, SetPassword, CliEnd, Leave, GoTo, TypeOK, Accounts, Updated
<1>15. ASSUME NEW c \in Cli, AddAdmin(c) PROVE Goal
  BY <1>15 DEF AddAdmin, CliEnd, Leave, GoTo
<1>16. ASSUME NEW c \in Cli, CommitAdmin(c) PROVE Goal
  BY <1>16 DEF CommitAdmin, SetPassword, CliEnd, Leave, GoTo, TypeOK, Accounts
<1>17. ASSUME NEW c \in Cli, CliFail(c) PROVE Goal
  BY <1>17 DEF CliFail, CliEnd, Leave, GoTo
<1>18. CASE Tick
  BY <1>18 DEF Tick
<1>19. ASSUME NEW p \in Process, TakeRow(p) PROVE Goal
  BY <1>19 DEF TakeRow, Remaining
<1> HIDE DEF Goal
<1>20. QED
  BY <1>1, <1>2, <1>3, <1>4, <1>5, <1>6, <1>7, <1>8, <1>9, <1>10, <1>11, <1>12, <1>13, <1>14, <1>15, <1>16, <1>17, <1>18, <1>19 DEF Next, RequestStep, CliStep

-----------------------------------------------------------------------------
\* The strengthened invariant: types, counters, deletes, accounts and lateness
\* hold in every reachable state of any number of requests and runs of the CLI.
THEOREM SessionsInvariance == Spec => []SessionsInv
<1>1. Init => SessionsInv
  BY SessionsAssumption DEF Init, SessionsInv, TypeOK, TokensDrawn, PasswordsDrawn, Deletions,
     Accounts, LateLogins, SweepComplete, SurvivorsOverlapped, LoggedOutStaysOut, Process,
     Verified, Swept, Updated
<1>2. SessionsInv /\ [Next]_vars => SessionsInv'
  <2> SUFFICES ASSUME SessionsInv, [Next]_vars PROVE SessionsInv'
    OBVIOUS
  <2> USE DEF SessionsInv
  <2>1. TypeOK'
    BY TypeStep
  <2>2. TokensDrawn'
    BY TokensStep
  <2>3. PasswordsDrawn'
    BY PasswordsStep
  <2>4. Deletions'
    BY DeletionsStep
  <2>5. Accounts'
    BY AccountsStep
  <2>6. LateLogins'
    BY LateLoginsStep
  <2>7. SweepComplete'
    BY SweepStep
  <2>8. SurvivorsOverlapped'
    BY SurvivorsStep
  <2>9. LoggedOutStaysOut'
    BY LoggedOutStep
  <2>10. QED
    BY <2>1, <2>2, <2>3, <2>4, <2>5, <2>6, <2>7, <2>8, <2>9
<1>3. QED
  BY <1>1, <1>2, PTL DEF Spec

\* A reset (cli.py:36-38) leaves no session of the old password except those of
\* logins (api.py:151-158) that were under way while it was.
THEOREM SurvivorsHold == Spec => []SurvivorsOverlapped
<1>1. SessionsInv => SurvivorsOverlapped
  BY DEF SessionsInv
<1>2. QED
  BY <1>1, SessionsInvariance, PTL

\* The session of a logout that was answered (api.py:172-178) stays deleted,
\* whichever purge or reset of the same row is rolled back.
THEOREM LogoutsHold == Spec => []LoggedOutStaysOut
<1>1. SessionsInv => LoggedOutStaysOut
  BY DEF SessionsInv
<1>2. QED
  BY <1>1, SessionsInvariance, PTL

\* No login, logout or reset ends a session that is none of its business.
THEOREM SessionsLastHolds == Spec => SessionsLast
<1>1. SessionsInv /\ [Next]_vars =>
        [\A r \in sessions \ sessions' :
           \/ r.expires <= now
           \/ \E w \in Request : pc[w] = "delete" /\ token[w] = r.token
           \/ password'[r.user] # password[r.user]]_vars
  BY LastStep DEF SessionsInv
<1>2. QED
  BY <1>1, SessionsInvariance, PTL DEF Spec, SessionsLast

\* Without --reset-password (cli.py:34-35) no existing account is changed, by
\* however many runs at once.
THEOREM AccountsKept == Spec => CreateKeepsPassword
<1>1. SessionsInv /\ [Next]_vars =>
        [\A u \in User : password[u] # 0 /\ password'[u] # password[u] =>
           \E c \in Cli : flag[c] /\ user[c] = u /\ Updated(c)]_vars
  BY KeepsStep DEF SessionsInv
<1>2. QED
  BY <1>1, SessionsInvariance, PTL DEF Spec, CreateKeepsPassword
=============================================================================
