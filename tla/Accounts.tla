-------------------------------- MODULE Accounts --------------------------------
(***************************************************************************)
(* Accounts, their single-use tokens and their sessions under concurrent   *)
(* requests (services/auth_service.py, api/v1/endpoints/auth.py,           *)
(* services/auth_rate_limiter.py).                                         *)
(*                                                                         *)
(* A request runs in one transaction of PostgreSQL (read committed): each  *)
(* of its statements sees what is committed when it starts, waits for rows *)
(* another transaction has changed or locked and reads them again, and     *)
(* nothing of it is seen before its commit.  Rows: users and tokens.       *)
(***************************************************************************)
EXTENDS Integers, Sequences

CONSTANTS
  Emails,
  Requests,       \* 1 .. the bound on requests under way at once
  FirstUsers,     \* the accounts there may be at first, by email
  MaxRequests,    \* bound on the requests that come in
  MaxFaults,      \* bound on lost requests and lost mails
  LastTime,       \* bound: the clock is 0 .. LastTime
  EMAIL_VERIFICATION_LIFETIME, PASSWORD_RESET_LIFETIME,
  RATE_WINDOW, RATE_LIMIT,   \* auth_rate_limit_window_seconds, the limits by action
  None

Actions == {"registration", "login", "verification_resend", "recovery"}
Kinds == {"register", "resend", "forgot", "verify", "reset", "login"}

ASSUME AccountsAssumption ==
  /\ MaxRequests \in Nat /\ MaxFaults \in Nat /\ LastTime \in Nat
  /\ EMAIL_VERIFICATION_LIFETIME \in Nat \ {0} /\ PASSWORD_RESET_LIFETIME \in Nat \ {0}
  /\ RATE_WINDOW \in Nat \ {0} /\ RATE_LIMIT \in [Actions -> Nat \ {0}]
  /\ FirstUsers \subseteq [Emails -> {None} \cup
       [state : {"pending_verification", "active"}, password : {0}]]
  /\ None \notin Nat \cup [state : {"pending_verification", "active"}, password : Nat]

VARIABLES
  now,
  users,     \* [email -> None or [state, password]]; a password is named by the
             \* token whose reset set it, 0 by the registration
  tokens,    \* both token tables: [kind, email, expires, consumed]
  sessions,  \* [email, revoked, password]: with the password its login was checked against
  mailed,    \* tokens whose link has reached its reader
  req,       \* the requests under way
  counters,  \* Redis: [action -> None or [count, expires]]
  begun, faults,
  done,      \* history: the successful uses of a token, with the tokens stored and the
             \* sessions open when its row was locked
  registered \* history: [email -> registrations committed]

vars == <<now, users, tokens, sessions, mailed, req, counters, begun, faults, done, registered>>

Idle == [active |-> FALSE]

Init ==
  /\ now = 0
  /\ users \in FirstUsers
  /\ tokens = << >> /\ sessions = << >> /\ mailed = {}
  /\ req = [r \in Requests |-> Idle]
  /\ counters = [a \in Actions |-> None]
  /\ begun = 0 /\ faults = 0 /\ done = << >>
  /\ registered = [e \in Emails |-> IF users[e] = None THEN 0 ELSE 1]

-----------------------------------------------------------------------------
(* The rate limiter.  Every request of the instance comes from one source  *)
(* for one email of its action, so one counter stands for both keys.       *)

\* Mutant: every attempt adds a window.
AddingUp(c) ==
  IF c = None THEN [count |-> 1, expires |-> now + RATE_WINDOW]
  ELSE [count |-> c.count + 1, expires |-> c.expires + RATE_WINDOW]

\* INCR, and EXPIRE with the first; the script is atomic.
Consume(c) ==
  IF c = None THEN [count |-> 1, expires |-> now + RATE_WINDOW]
  ELSE [c EXCEPT !.count = @ + 1]

Limited ==
  [register |-> "registration", login |-> "login", resend |-> "verification_resend",
   forgot |-> "recovery"]

\* Beyond the limit a count makes no difference: refused attempts end there.
Admitted(kind) ==
  IF kind \in DOMAIN Limited
  THEN LET a == Limited[kind]
       IN  /\ counters[a] # None => counters[a].count < RATE_LIMIT[a]
           /\ counters' = [counters EXCEPT ![a] = Consume(@)]
  ELSE UNCHANGED counters

\* The lifetimes are minutes and hours: a request takes no time against them.
Tick ==
  /\ \A r \in Requests : ~req[r].active
  /\ now < LastTime /\ now' = now + 1
  /\ counters' = [a \in Actions |->
       IF counters[a] # None /\ counters[a].expires <= now + 1 THEN None ELSE counters[a]]
  /\ UNCHANGED <<users, tokens, sessions, mailed, req, begun, faults, done, registered>>

-----------------------------------------------------------------------------
(* Rows and locks.                                                         *)

Usable(t) == ~tokens[t].consumed /\ tokens[t].expires > now
Unconsumed(kind, e) ==
  {t \in DOMAIN tokens : tokens[t].kind = kind /\ tokens[t].email = e /\ ~tokens[t].consumed}

\* Mutant: SELECT without FOR UPDATE, and nobody waits for a token.
NoRowLocks(r, t) == FALSE

TokenBusy(r, t) == \E q \in Requests \ {r} : req[q].active /\ t \in req[q].held
UserBusy(r, e) ==
  \E q \in Requests \ {r} : req[q].active /\ req[q].owner /\ req[q].email = e

Eligible(kind, e) ==
  /\ users[e] # None
  /\ users[e].state = IF kind \in {"resend", "verify"} THEN "pending_verification" ELSE "active"

TokenKind(kind) == IF kind \in {"register", "resend", "verify"} THEN "verification" ELSE "reset"

Goes(r, stage) == [req EXCEPT ![r].stage = stage]
Ends(r) == req' = [req EXCEPT ![r] = Idle]
In(r, stage) == req[r].active /\ req[r].stage = stage
Rest == <<now, mailed, begun, faults>>

\* A request comes in and takes the first free place: the places have no identity
\* of their own.  A link is only opened once it has been mailed.
Begin(r) ==
  /\ ~req[r].active /\ \A q \in Requests : q < r => req[q].active
  /\ \E kind \in Kinds, e \in Emails, t \in mailed \cup {None} :
       /\ kind \in {"verify", "reset"} <=> t # None
       /\ t # None => tokens[t].kind = TokenKind(kind) /\ tokens[t].email = e
       /\ Admitted(kind)
       /\ req' = [req EXCEPT ![r] =
            [active |-> TRUE, kind |-> kind, email |-> e, token |-> t,
             stage |-> IF t # None THEN "lock" ELSE "read",
             todo |-> {}, held |-> {}, owner |-> FALSE, revoke |-> {}, password |-> 0,
             stored |-> {}, open |-> {}]]
  /\ begun < MaxRequests /\ begun' = begun + 1
  /\ UNCHANGED <<now, faults, mailed, users, tokens, sessions, done, registered>>

-----------------------------------------------------------------------------
(* Registration.                                                           *)

\* The existing account is looked for; an existing one is answered alike.
RegisterRead(r) ==
  /\ In(r, "read") /\ req[r].kind = "register"
  /\ IF users[req[r].email] = None THEN req' = Goes(r, "insert") ELSE Ends(r)
  /\ UNCHANGED <<Rest, users, tokens, sessions, counters, done, registered>>

\* Mutant: the email is not unique.
RegisterUnchecked(r) ==
  /\ In(r, "insert")
  /\ req' = [req EXCEPT ![r].owner = TRUE, ![r].stage = "commit"]
  /\ UNCHANGED <<Rest, users, tokens, sessions, counters, done, registered>>

\* Mutant: on a unique violation the endpoint tries its INSERT again.
RegisterAgain(r) ==
  /\ In(r, "insert") /\ ~UserBusy(r, req[r].email)
  /\ users[req[r].email] = None
  /\ req' = [req EXCEPT ![r].owner = TRUE, ![r].stage = "commit"]
  /\ UNCHANGED <<Rest, users, tokens, sessions, counters, done, registered>>

\* INSERT waits for an uncommitted account of that email; on a unique
\* violation the endpoint rolls back, finds the duplicate and sends no mail.
RegisterInsert(r) ==
  /\ In(r, "insert") /\ ~UserBusy(r, req[r].email)
  /\ IF users[req[r].email] = None
     THEN req' = [req EXCEPT ![r].owner = TRUE, ![r].stage = "commit"]
     ELSE Ends(r)
  /\ UNCHANGED <<Rest, users, tokens, sessions, counters, done, registered>>

-----------------------------------------------------------------------------
(* Issuing a token: resend_verification_token, issue_password_reset_token. *)

IssueRead(r) ==
  /\ In(r, "read") /\ req[r].kind \in {"resend", "forgot"}
  /\ IF Eligible(req[r].kind, req[r].email)
     THEN req' = [req EXCEPT ![r].stage = "sweep",
                             ![r].todo = Unconsumed(TokenKind(req[r].kind), req[r].email)]
     ELSE Ends(r)
  /\ UNCHANGED <<Rest, users, tokens, sessions, counters, done, registered>>

\* The UPDATE of the account's other tokens takes its rows one by one; one that
\* was consumed meanwhile is passed over.
Sweep(r) ==
  /\ In(r, "sweep")
  /\ \E t \in req[r].todo :
       /\ ~TokenBusy(r, t)
       /\ req' = [req EXCEPT ![r].todo = @ \ {t},
                             ![r].held = IF tokens[t].consumed THEN @ ELSE @ \cup {t}]
  /\ UNCHANGED <<Rest, users, tokens, sessions, counters, done, registered>>

OpenSessions(e) == {s \in DOMAIN sessions : sessions[s].email = e /\ ~sessions[s].revoked}

\* Mutant: the sessions are left alone.
NothingRevoked(r) == {}

\* revoke_all_sessions: the sessions open when its UPDATE begins.
Revoked(r) == IF req[r].kind = "reset" THEN OpenSessions(req[r].email) ELSE {}

\* With the last token swept, a reset revokes the sessions.
Swept(r) ==
  /\ In(r, "sweep") /\ req[r].todo = {}
  /\ req' = [req EXCEPT ![r].stage = "commit", ![r].revoke = Revoked(r)]
  /\ UNCHANGED <<Rest, users, tokens, sessions, counters, done, registered>>

-----------------------------------------------------------------------------
(* Spending one: verify_email_token, reset_password.                       *)

\* SELECT ... FOR UPDATE.
LockToken(r) ==
  LET t == req[r].token
  IN  /\ In(r, "lock") /\ ~TokenBusy(r, t)
      /\ IF Usable(t)
         THEN req' = [req EXCEPT ![r].stage = "account", ![r].held = {t},
                                 ![r].stored = Unconsumed(TokenKind(req[r].kind), req[r].email),
                                 ![r].open = OpenSessions(req[r].email)]
         ELSE Ends(r)
      /\ UNCHANGED <<Rest, users, tokens, sessions, counters, done, registered>>

\* The account comes with a SELECT of its own, without a lock.
ReadAccount(r) ==
  /\ In(r, "account")
  /\ IF Eligible(req[r].kind, req[r].email) THEN req' = Goes(r, "write") ELSE Ends(r)
  /\ UNCHANGED <<Rest, users, tokens, sessions, counters, done, registered>>

\* Mutant: the other tokens are left alone.
NothingRemains(r) == {}
Remaining(r) == Unconsumed(TokenKind(req[r].kind), req[r].email) \ {req[r].token}

\* The flush updates the account; then the UPDATE of the other tokens begins.
WriteUser(r) ==
  /\ In(r, "write") /\ ~UserBusy(r, req[r].email)
  /\ req' = [req EXCEPT ![r].stage = "sweep", ![r].owner = TRUE, ![r].todo = Remaining(r)]
  /\ UNCHANGED <<Rest, users, tokens, sessions, counters, done, registered>>

-----------------------------------------------------------------------------
(* Login and logout.                                                       *)

\* The password is verified against the account that is read, without a lock.
LoginRead(r) ==
  /\ In(r, "read") /\ req[r].kind = "login"
  /\ IF Eligible("login", req[r].email)
     THEN req' = [req EXCEPT ![r].stage = "commit", ![r].password = users[req[r].email].password]
     ELSE Ends(r)
  /\ UNCHANGED <<Rest, users, tokens, sessions, counters, done, registered>>

\* One UPDATE of the one session.
Logout ==
  /\ \E s \in DOMAIN sessions :
       ~sessions[s].revoked /\ sessions' = [sessions EXCEPT ![s].revoked = TRUE]
  /\ UNCHANGED <<Rest, users, tokens, req, counters, done, registered>>

-----------------------------------------------------------------------------
(* Commits.                                                                *)

Lifetime(kind) ==
  IF kind = "verification" THEN EMAIL_VERIFICATION_LIFETIME ELSE PASSWORD_RESET_LIFETIME

NewUser(q) ==
  CASE q.kind = "register" -> [state |-> "pending_verification", password |-> 0]
    [] q.kind = "verify"   -> [users[q.email] EXCEPT !.state = "active"]
    [] q.kind = "reset"    -> [users[q.email] EXCEPT !.password = q.token]
    [] OTHER               -> users[q.email]

Consumed(held) ==
  [t \in DOMAIN tokens |-> IF t \in held THEN [tokens[t] EXCEPT !.consumed = TRUE] ELSE tokens[t]]

\* The mail of an issued token leaves after the commit.  It may be lost: the endpoint
\* then answers with an error, and what it has committed stays.
Commit(r) ==
  LET q == req[r]
      issues == q.kind \in {"register", "resend", "forgot"}
      spends == q.kind \in {"verify", "reset"}
  IN  /\ In(r, "commit")
      /\ users' = [users EXCEPT ![q.email] = NewUser(q)]
      /\ tokens' = IF issues
                   THEN Append(Consumed(q.held),
                          [kind |-> TokenKind(q.kind), email |-> q.email, consumed |-> FALSE,
                           expires |-> now + Lifetime(TokenKind(q.kind))])
                   ELSE Consumed(q.held)
      /\ sessions' = IF q.kind = "login"
                     THEN Append(sessions, [email |-> q.email, revoked |-> FALSE, password |-> q.password])
                     ELSE [s \in DOMAIN sessions |->
                             IF s \in q.revoke THEN [sessions[s] EXCEPT !.revoked = TRUE]
                             ELSE sessions[s]]
      /\ done' = IF spends
                 THEN Append(done, [kind |-> q.kind, token |-> q.token, email |-> q.email,
                                    stored |-> q.stored, open |-> q.open])
                 ELSE done
      /\ registered' = IF q.kind = "register"
                       THEN [registered EXCEPT ![q.email] = @ + 1] ELSE registered
      /\ \/ faults' = faults /\ mailed' = IF issues THEN mailed \cup {Len(tokens) + 1} ELSE mailed
         \/ issues /\ faults < MaxFaults /\ faults' = faults + 1 /\ mailed' = mailed
      /\ Ends(r)
      /\ UNCHANGED <<now, begun, counters>>

\* The process stops, or the connection is lost, before the commit.
Lost(r) ==
  /\ req[r].active /\ faults < MaxFaults /\ faults' = faults + 1
  /\ Ends(r)
  /\ UNCHANGED <<now, users, tokens, sessions, mailed, begun, counters, done, registered>>

WaitsFor(p, q) ==
  /\ p # q /\ req[p].active /\ req[q].active
  /\ \/ In(p, "lock") /\ req[p].token \in req[q].held
     \/ In(p, "sweep") /\ req[p].todo # {} /\ req[p].todo \subseteq req[q].held
     \/ req[p].stage \in {"write", "insert"} /\ req[q].owner /\ req[q].email = req[p].email

\* PostgreSQL aborts one of two transactions that wait for each other.
Abort(r) ==
  /\ \E q \in Requests : WaitsFor(r, q) /\ WaitsFor(q, r)
  /\ Ends(r)
  /\ UNCHANGED <<Rest, users, tokens, sessions, counters, done, registered>>

-----------------------------------------------------------------------------
Step(r) ==
  \/ RegisterRead(r) \/ RegisterInsert(r) \/ IssueRead(r) \/ Sweep(r) \/ Swept(r)
  \/ LockToken(r) \/ ReadAccount(r) \/ WriteUser(r) \/ LoginRead(r) \/ Commit(r) \/ Abort(r)

Next ==
  \/ Tick
  \/ Logout
  \/ \E r \in Requests : Begin(r) \/ Step(r) \/ Lost(r)

\* The server goes on with a request it has begun.
Fairness == \A r \in Requests : WF_vars(Step(r))

Spec == Init /\ [][Next]_vars /\ Fairness

-----------------------------------------------------------------------------
\* Accounts exist with their fields, and every counter of the limiter ends
\* within the window its first attempt began.
TypeOK ==
  /\ now \in 0 .. LastTime
  /\ \A e \in Emails : users[e] # None =>
       /\ users[e].state \in {"pending_verification", "active"}
       /\ users[e].password = 0 \/ tokens[users[e].password].kind = "reset"
  /\ mailed \subseteq DOMAIN tokens
  /\ \A r \in Requests : req[r].active => req[r].held \subseteq DOMAIN tokens
  /\ \A a \in Actions : counters[a] # None =>
       /\ counters[a].count \in 1 .. RATE_LIMIT[a]
       /\ counters[a].expires \in now + 1 .. now + RATE_WINDOW

\* A token serves one request, and the password of an account is the one its
\* last successful reset set - whatever links are opened twice at the same time
\* or were mailed by overlapping requests.
SpentOnce ==
  /\ \A i, j \in DOMAIN done : i # j => done[i].token # done[j].token
  /\ \A e \in Emails :
       LET resets == {i \in DOMAIN done : done[i].kind = "reset" /\ done[i].email = e}
       IN  resets # {} =>
             users[e].password = done[CHOOSE i \in resets : \A j \in resets : j <= i].token

\* Once a token has been spent, no token of the account that was stored when its
\* row was locked is usable, whatever requests held or swept in between.
SuccessSweeps == \A i \in DOMAIN done : \A t \in done[i].stored : tokens[t].consumed

\* A successful reset signs the account out: every session that was open when the
\* reset locked its token is revoked, though the statement that revokes comes last.
ResetSignsOut ==
  \A i \in DOMAIN done :
    done[i].kind = "reset" => \A s \in done[i].open : sessions[s].revoked

\* However many registrations of an email run at once, one of them has made its
\* account and none has replaced it.
RegisteredOnce == \A e \in Emails : registered[e] = IF users[e] = None THEN 0 ELSE 1

\* issue_verification_token "invalidates older verification tokens": an account has
\* one usable link at most.  Two overlapping requests leave two.
OneVerificationLink ==
  \A t, u \in DOMAIN tokens :
    /\ tokens[t].kind = "verification" /\ tokens[u].kind = "verification"
    /\ tokens[t].email = tokens[u].email /\ Usable(t) /\ Usable(u)
    => t = u

\* A successful reset revokes "all sessions belonging to a user": an open session was
\* begun with the present password.  A login under way during the reset is passed over.
SessionsOfPresentPassword ==
  \A s \in DOMAIN sessions :
    ~sessions[s].revoked => sessions[s].password = users[sessions[s].email].password

\* Requests that wait for each other's rows come to an end all the same.
EveryRequestEnds == []<>(\A r \in Requests : ~req[r].active)
===============================================================================
