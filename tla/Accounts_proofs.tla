---------------------------- MODULE Accounts_proofs ----------------------------
(***************************************************************************)
(* Accounts: types, tokens that serve once, the sweep of a success, the     *)
(* sessions a reset ends and the one registration of an account - for any   *)
(* number of accounts, requests and faults, any lifetimes and limits.       *)
(***************************************************************************)
EXTENDS Accounts, TLAPS

User == [state : {"pending_verification", "active"}, password : Nat]
Token == [kind : {"verification", "reset"}, email : Emails, consumed : BOOLEAN, expires : Nat]
Session == [email : Emails, revoked : BOOLEAN, password : Nat]
Counter == [count : Nat, expires : Nat]
Stages == {"read", "insert", "lock", "account", "write", "sweep", "commit"}
Request ==
  [active : {TRUE}, kind : Kinds, email : Emails, token : Nat \cup {None}, stage : Stages,
   todo : SUBSET Nat, held : SUBSET Nat, owner : BOOLEAN, revoke : SUBSET Nat,
   password : Nat, stored : SUBSET Nat, open : SUBSET Nat]
Use ==
  [kind : {"verify", "reset"}, token : Nat, email : Emails, stored : SUBSET Nat,
   open : SUBSET Nat]

Spends(q) == q.kind \in {"verify", "reset"}

(* The tables. *)
TablesTyped ==
  /\ now \in Nat /\ now <= LastTime
  /\ users \in [Emails -> User \cup {None}]
  /\ tokens \in Seq(Token) /\ sessions \in Seq(Session)
  /\ mailed \subseteq DOMAIN tokens
  /\ done \in Seq(Use)
  /\ req \in [Requests -> Request \cup {Idle}]

(* The limiter. *)
CountersTyped ==
  /\ counters \in [Actions -> Counter \cup {None}]
  /\ \A a \in Actions : counters[a] # None =>
       /\ counters[a].count \in 1 .. RATE_LIMIT[a]
       /\ counters[a].expires \in now + 1 .. now + RATE_WINDOW

(* What a request holds and has seen. *)
RequestTyped(r) ==
  /\ req[r].todo \subseteq DOMAIN tokens /\ req[r].held \subseteq DOMAIN tokens
  /\ req[r].stored \subseteq DOMAIN tokens
  /\ req[r].revoke \subseteq DOMAIN sessions /\ req[r].open \subseteq DOMAIN sessions
  /\ \A t \in req[r].held : ~tokens[t].consumed
  /\ req[r].stage \in {"lock", "account", "write"} => Spends(req[r])
  /\ req[r].stage = "insert" => req[r].kind = "register"

(* A request that spends a token has its row from the lock on, and the      *)
(* account's from the write on.                                             *)
SpenderOK(r) ==
  Spends(req[r]) =>
    /\ req[r].token \in DOMAIN tokens
    /\ tokens[req[r].token].kind = TokenKind(req[r].kind)
    /\ tokens[req[r].token].email = req[r].email
    /\ req[r].stage \in {"lock", "account", "write", "sweep", "commit"}
    /\ req[r].stage # "lock" => req[r].token \in req[r].held
    /\ req[r].stage \in {"write", "sweep", "commit"} => users[req[r].email] \in User
    /\ req[r].stage \in {"sweep", "commit"} => req[r].owner

(* What it has still to sweep. *)
SweepOK(r) ==
  Spends(req[r]) =>
    /\ req[r].stage \in {"account", "write"} => \A t \in req[r].stored :
         tokens[t].kind = TokenKind(req[r].kind) /\ tokens[t].email = req[r].email
    /\ req[r].stage = "sweep" => \A t \in req[r].stored :
         tokens[t].consumed \/ t \in req[r].held \/ t \in req[r].todo
    /\ req[r].stage = "commit" => \A t \in req[r].stored :
         tokens[t].consumed \/ t \in req[r].held

(* A reset that is about to commit revokes what was open at its lock and    *)
(* still is.                                                                *)
SignOutOK(r) ==
  req[r].kind = "reset" => \A s \in req[r].open :
    /\ sessions[s].email = req[r].email
    /\ req[r].stage = "commit" => sessions[s].revoked \/ s \in req[r].revoke

(* A registration that is about to commit has the only row of its email. *)
RegisterOK(r) ==
  req[r].kind = "register" =>
    /\ req[r].stage \in {"read", "insert", "commit"}
    /\ req[r].stage = "commit" => req[r].owner /\ users[req[r].email] = None

RequestOK(r) ==
  RequestTyped(r) /\ SpenderOK(r) /\ SweepOK(r) /\ SignOutOK(r) /\ RegisterOK(r)
RequestsOK == \A r \in Requests : req[r].active => RequestOK(r)

(* Row locks are exclusive. *)
Exclusive ==
  \A p, r \in Requests : p # r /\ req[p].active /\ req[r].active =>
    /\ req[p].held \cap req[r].held = {}
    /\ ~(req[p].owner /\ req[r].owner /\ req[p].email = req[r].email)

(* What a success leaves behind. *)
UsesOK ==
  /\ \A i \in DOMAIN done :
       /\ done[i].token \in DOMAIN tokens /\ tokens[done[i].token].consumed
       /\ \A t \in done[i].stored : t \in DOMAIN tokens /\ tokens[t].consumed
       /\ done[i].kind = "reset" =>
            \A s \in done[i].open : s \in DOMAIN sessions /\ sessions[s].revoked
  /\ \A i, j \in DOMAIN done : i # j => done[i].token # done[j].token

ResetsOf(e) == {i \in DOMAIN done : done[i].kind = "reset" /\ done[i].email = e}

(* The password of an account comes from a reset token, from the last one. *)
PasswordsOK ==
  \A e \in Emails :
    /\ users[e] # None =>
         \/ users[e].password = 0
         \/ users[e].password \in DOMAIN tokens /\ tokens[users[e].password].kind = "reset"
    /\ ResetsOf(e) # {} =>
         \E i \in ResetsOf(e) :
           /\ \A j \in ResetsOf(e) : j <= i
           /\ users[e] \in User /\ users[e].password = done[i].token

(* One registration has made each account. *)
RegistersOK == registered = [e \in Emails |-> IF users[e] = None THEN 0 ELSE 1]

IInv ==
  /\ TablesTyped /\ CountersTyped /\ RequestsOK /\ Exclusive /\ UsesOK /\ PasswordsOK
  /\ RegistersOK

-----------------------------------------------------------------------------
(* Steps that only change their own request, and no table. *)

Tables == <<now, users, tokens, sessions, mailed, done, registered>>

(* One request goes on as q, or ends, and the others stay. *)
Moves(r, q) == req' = [req EXCEPT ![r] = q]

(* What q holds nobody else does. *)
Apart(r, q) ==
  \A p \in Requests \ {r} : req[p].active =>
    /\ req[p].held \cap q.held = {}
    /\ ~(req[p].owner /\ q.owner /\ req[p].email = q.email)

LEMMA IdleIsIdle == Idle \notin Request /\ ~Idle.active
BY DEF Idle, Request

LEMMA ActiveTyped ==
  ASSUME TablesTyped, NEW r \in Requests, req[r].active PROVE req[r] \in Request
BY IdleIsIdle DEF TablesTyped

(* A request that does not move keeps what holds of it while the tables stay. *)
LEMMA StayKeeps ==
  ASSUME NEW p \in Requests, req'[p] = req[p], UNCHANGED Tables, RequestOK(p)
  PROVE  RequestOK(p)'
<1>1. RequestTyped(p)'
  BY DEF RequestOK, RequestTyped, Tables, Spends
<1>2. SpenderOK(p)'
  BY DEF RequestOK, SpenderOK, Tables, Spends, TokenKind
<1>3. SweepOK(p)'
  BY DEF RequestOK, SweepOK, Tables, Spends, TokenKind
<1>4. SignOutOK(p)'
  BY DEF RequestOK, SignOutOK, Tables
<1>5. RegisterOK(p)'
  BY DEF RequestOK, RegisterOK, Tables
<1>. QED  BY <1>1, <1>2, <1>3, <1>4, <1>5 DEF RequestOK

LEMMA MoveKeeps ==
  ASSUME TablesTyped, RequestsOK, Exclusive, NEW r \in Requests, NEW q \in Request \cup {Idle},
         Moves(r, q), UNCHANGED Tables,
         q.active => RequestOK(r)' /\ Apart(r, q)
  PROVE  TablesTyped' /\ RequestsOK' /\ Exclusive'
<1>1. req' \in [Requests -> Request \cup {Idle}]
  BY DEF Moves, TablesTyped
<1>2. TablesTyped'
  BY <1>1 DEF TablesTyped, Tables
<1>3. req'[r] = q /\ \A p \in Requests \ {r} : req'[p] = req[p]
  BY DEF Moves, TablesTyped
<1>5. RequestsOK'
  <2>1. SUFFICES ASSUME NEW p \in Requests, req'[p].active PROVE RequestOK(p)'
    BY DEF RequestsOK
  <2>2. CASE p = r  BY <2>1, <2>2, <1>3
  <2>3. CASE p # r
    BY <2>1, <2>3, <1>3, StayKeeps DEF RequestsOK
  <2>. QED  BY <2>2, <2>3
<1>6. Exclusive'
  BY <1>3 DEF Exclusive, Apart
<1>. QED  BY <1>2, <1>5, <1>6

(* The rest of the invariant does not look at the requests. *)
LEMMA RestKeeps ==
  ASSUME CountersTyped, UsesOK, PasswordsOK, RegistersOK,
         UNCHANGED Tables, UNCHANGED counters
  PROVE  CountersTyped' /\ UsesOK' /\ PasswordsOK' /\ RegistersOK'
<1>1. CountersTyped'
  BY DEF CountersTyped, Tables
<1>2. UsesOK'
  BY DEF UsesOK, Tables
<1>3. PasswordsOK'
  BY DEF PasswordsOK, ResetsOf, Tables
<1>. QED  BY <1>1, <1>2, <1>3 DEF RegistersOK, Tables

LEMMA GoesOn ==
  ASSUME IInv, NEW r \in Requests, NEW q \in Request, Moves(r, q), UNCHANGED Tables,
         UNCHANGED counters,
         RequestOK(r)', Apart(r, q)
  PROVE  IInv'
BY MoveKeeps, RestKeeps DEF IInv

LEMMA EndKeeps ==
  ASSUME IInv, NEW r \in Requests, Ends(r), UNCHANGED Tables,
         UNCHANGED counters
  PROVE  IInv'
<1>1. Moves(r, Idle) /\ ~Idle.active
  BY IdleIsIdle DEF Ends, Moves
<1>. QED  BY <1>1, MoveKeeps, RestKeeps DEF IInv

(* A request that takes nothing more stays apart from the others. *)
LEMMA NothingTaken ==
  ASSUME Exclusive, NEW r \in Requests, req[r].active, NEW q,
         q.held \subseteq req[r].held, q.owner => req[r].owner, q.email = req[r].email
  PROVE  Apart(r, q)
BY DEF Exclusive, Apart

LEMMA RegisterReadKeeps ==
  ASSUME IInv, NEW r \in Requests, RegisterRead(r) PROVE IInv'
<1>1. req[r] \in Request /\ RequestOK(r)
  BY ActiveTyped DEF IInv, RegisterRead, In, RequestsOK
<1>2. UNCHANGED Tables /\ UNCHANGED counters
  BY DEF RegisterRead, Rest, Tables
<1>3. CASE users[req[r].email] = None
  <2> DEFINE q == [req[r] EXCEPT !.stage = "insert"]
  <2>1. q \in Request
    BY <1>1 DEF Request, Stages
  <2>2. Moves(r, q)
    BY <1>3 DEF RegisterRead, Goes, Moves
  <2>3. req'[r] = q
    BY <2>2 DEF Moves, IInv, TablesTyped
  <2>4. q.kind = "register" /\ q.stage = "insert" /\ q.held = req[r].held /\ q.todo = req[r].todo
        /\ q.stored = req[r].stored /\ q.revoke = req[r].revoke /\ q.open = req[r].open /\ q.owner = req[r].owner
        /\ q.email = req[r].email
    BY <1>1 DEF RegisterRead, Request
  <2>5. RequestOK(r)'
    BY <1>1, <1>2, <2>3, <2>4
       DEF RequestOK, RequestTyped, SpenderOK, SweepOK, SignOutOK, RegisterOK, Spends, Tables
  <2>6. Apart(r, q)
    BY <2>4, NothingTaken DEF IInv, RegisterRead, In
  <2>. HIDE DEF q
  <2>. QED  BY <1>2, <2>1, <2>2, <2>5, <2>6, GoesOn
<1>4. CASE users[req[r].email] # None
  BY <1>2, <1>4, EndKeeps DEF RegisterRead
<1>. QED  BY <1>3, <1>4

(* The unique row of an email: nobody else has an uncommitted one. *)
LEMMA RegisterInsertKeeps ==
  ASSUME IInv, NEW r \in Requests, RegisterInsert(r) PROVE IInv'
<1>1. req[r] \in Request /\ RequestOK(r)
  BY ActiveTyped DEF IInv, RegisterInsert, In, RequestsOK
<1>2. UNCHANGED Tables /\ UNCHANGED counters
  BY DEF RegisterInsert, Rest, Tables
<1>3. CASE users[req[r].email] = None
  <2> DEFINE q == [req[r] EXCEPT !.owner = TRUE, !.stage = "commit"]
  <2>1. q \in Request
    BY <1>1 DEF Request, Stages
  <2>2. Moves(r, q)
    BY <1>3 DEF RegisterInsert, Moves
  <2>3. req'[r] = q
    BY <2>2 DEF Moves, IInv, TablesTyped
  <2>4. q.kind = "register" /\ q.stage = "commit" /\ q.held = req[r].held /\ q.todo = req[r].todo
        /\ q.stored = req[r].stored /\ q.revoke = req[r].revoke /\ q.open = req[r].open /\ q.owner
        /\ q.email = req[r].email
    BY <1>1 DEF RegisterInsert, In, RequestOK, RequestTyped, Request
  <2>5. RequestOK(r)'
    BY <1>1, <1>2, <1>3, <2>3, <2>4
       DEF RequestOK, RequestTyped, SpenderOK, SweepOK, SignOutOK, RegisterOK, Spends, Tables
  <2>6. Apart(r, q)
    BY <2>4 DEF IInv, RegisterInsert, In, UserBusy, Exclusive, Apart
  <2>. HIDE DEF q
  <2>. QED  BY <1>2, <2>1, <2>2, <2>5, <2>6, GoesOn
<1>4. CASE users[req[r].email] # None
  BY <1>2, <1>4, EndKeeps DEF RegisterInsert
<1>. QED  BY <1>3, <1>4

LEMMA IssueReadKeeps ==
  ASSUME IInv, NEW r \in Requests, IssueRead(r) PROVE IInv'
<1>1. req[r] \in Request /\ RequestOK(r)
  BY ActiveTyped DEF IInv, IssueRead, In, RequestsOK
<1>2. UNCHANGED Tables /\ UNCHANGED counters
  BY DEF IssueRead, Rest, Tables
<1>3. CASE Eligible(req[r].kind, req[r].email)
  <2> DEFINE q == [req[r] EXCEPT !.stage = "sweep",
                                 !.todo = Unconsumed(TokenKind(req[r].kind), req[r].email)]
  <2>0. Unconsumed(TokenKind(req[r].kind), req[r].email) \subseteq DOMAIN tokens
        /\ DOMAIN tokens \subseteq Nat
    BY DEF Unconsumed, IInv, TablesTyped
  <2>1. q \in Request
    BY <1>1, <2>0 DEF Request, Stages
  <2>2. Moves(r, q)
    BY <1>3 DEF IssueRead, Moves
  <2>3. req'[r] = q
    BY <2>2 DEF Moves, IInv, TablesTyped
  <2>4. q.kind \in {"resend", "forgot"} /\ q.stage = "sweep" /\ q.held = req[r].held
        /\ q.todo \subseteq DOMAIN tokens
        /\ q.stored = req[r].stored /\ q.revoke = req[r].revoke /\ q.open = req[r].open /\ q.owner = req[r].owner
        /\ q.email = req[r].email
    BY <1>1, <2>0 DEF IssueRead, In, Request
  <2>5. RequestOK(r)'
    BY <1>1, <1>2, <2>3, <2>4
       DEF RequestOK, RequestTyped, SpenderOK, SweepOK, SignOutOK, RegisterOK, Spends, Tables
  <2>6. Apart(r, q)
    BY <2>4, NothingTaken DEF IInv, IssueRead, In
  <2>. HIDE DEF q
  <2>. QED  BY <1>2, <2>1, <2>2, <2>5, <2>6, GoesOn
<1>4. CASE ~Eligible(req[r].kind, req[r].email)
  BY <1>2, <1>4, EndKeeps DEF IssueRead
<1>. QED  BY <1>3, <1>4

LEMMA SweptKeeps ==
  ASSUME IInv, NEW r \in Requests, Swept(r) PROVE IInv'
<1>1. req[r] \in Request /\ RequestOK(r)
  BY ActiveTyped DEF IInv, Swept, In, RequestsOK
<1>2. UNCHANGED Tables /\ UNCHANGED counters
  BY DEF Swept, Rest, Tables
<1>3. IInv'
  <2> DEFINE q == [req[r] EXCEPT !.stage = "commit", !.revoke = Revoked(r)]
  <2>0. /\ Revoked(r) \subseteq DOMAIN sessions /\ DOMAIN sessions \subseteq Nat
        /\ req[r].kind = "reset" => \A s \in DOMAIN sessions :
             sessions[s].email = req[r].email => sessions[s].revoked \/ s \in Revoked(r)
    BY DEF IInv, TablesTyped, Revoked, OpenSessions
  <2>1. q \in Request
    BY <1>1, <2>0 DEF Request, Stages
  <2>2. Moves(r, q)
    BY DEF Swept, Moves, Goes
  <2>3. req'[r] = q
    BY <2>2 DEF Moves, IInv, TablesTyped
  <2>4. q.held = req[r].held /\ req[r].todo = {} /\ q.todo = {} /\ q.stored = req[r].stored
          /\ q.revoke = Revoked(r) /\ q.open = req[r].open /\ q.owner = req[r].owner /\ q.email = req[r].email
          /\ q.kind = req[r].kind /\ q.token = req[r].token /\ q.stage = "commit" /\ req[r].stage = "sweep"
    BY <1>1, <2>0 DEF Swept, In, Request
  <2>5. RequestOK(r)'
    BY <1>1, <1>2, <2>3, <2>4, <2>0
       DEF RequestOK, RequestTyped, SpenderOK, SweepOK, SignOutOK, RegisterOK, Spends, Tables
  <2>6. Apart(r, q)
    BY <2>4, NothingTaken DEF IInv, Swept, In
  <2>. HIDE DEF q
  <2>. QED  BY <1>2, <2>1, <2>2, <2>5, <2>6, GoesOn
<1>. QED  BY <1>3

LEMMA LoginReadKeeps ==
  ASSUME IInv, NEW r \in Requests, LoginRead(r) PROVE IInv'
<1>1. req[r] \in Request /\ RequestOK(r)
  BY ActiveTyped DEF IInv, LoginRead, In, RequestsOK
<1>2. UNCHANGED Tables /\ UNCHANGED counters
  BY DEF LoginRead, Rest, Tables
<1>3. CASE Eligible("login", req[r].email)
  <2> DEFINE q == [req[r] EXCEPT !.stage = "commit", !.password = users[req[r].email].password]
  <2>0. users[req[r].email].password \in Nat
    BY <1>1, <1>3 DEF Request, Eligible, IInv, TablesTyped, User
  <2>1. q \in Request
    BY <1>1, <2>0 DEF Request, Stages
  <2>2. Moves(r, q)
    BY <1>3 DEF LoginRead, Moves, Goes
  <2>3. req'[r] = q
    BY <2>2 DEF Moves, IInv, TablesTyped
  <2>4. q.held = req[r].held /\ q.todo = req[r].todo /\ q.stored = req[r].stored
          /\ q.revoke = req[r].revoke /\ q.open = req[r].open /\ q.owner = req[r].owner /\ q.email = req[r].email
          /\ q.kind = req[r].kind /\ q.token = req[r].token
          /\ q.stage = "commit" /\ q.kind = "login"
    BY <1>1 DEF LoginRead, In, Request
  <2>5. RequestOK(r)'
    BY <1>1, <1>2, <2>3, <2>4, <1>3
       DEF RequestOK, RequestTyped, SpenderOK, SweepOK, SignOutOK, RegisterOK, Spends, Tables
  <2>6. Apart(r, q)
    BY <2>4, NothingTaken DEF IInv, LoginRead, In
  <2>. HIDE DEF q
  <2>. QED  BY <1>2, <2>1, <2>2, <2>5, <2>6, GoesOn
<1>4. CASE ~(Eligible("login", req[r].email))
  BY <1>2, <1>4, EndKeeps DEF LoginRead
<1>. QED  BY <1>3, <1>4

(* The account a spender has read is there. *)
LEMMA ReadAccountKeeps ==
  ASSUME IInv, NEW r \in Requests, ReadAccount(r) PROVE IInv'
<1>1. req[r] \in Request /\ RequestOK(r)
  BY ActiveTyped DEF IInv, ReadAccount, In, RequestsOK
<1>2. UNCHANGED Tables /\ UNCHANGED counters
  BY DEF ReadAccount, Rest, Tables
<1>3. CASE Eligible(req[r].kind, req[r].email)
  <2> DEFINE q == [req[r] EXCEPT !.stage = "write"]
  <2>1. q \in Request
    BY <1>1 DEF Request, Stages
  <2>2. Moves(r, q)
    BY <1>3 DEF ReadAccount, Moves, Goes
  <2>3. req'[r] = q
    BY <2>2 DEF Moves, IInv, TablesTyped
  <2>4. q.held = req[r].held /\ q.todo = req[r].todo /\ q.stored = req[r].stored
          /\ q.revoke = req[r].revoke /\ q.open = req[r].open /\ q.owner = req[r].owner /\ q.email = req[r].email
          /\ q.kind = req[r].kind /\ q.token = req[r].token
          /\ q.stage = "write" /\ req[r].stage = "account" /\ Spends(q)
          /\ users[q.email] \in User
    BY <1>1, <1>3 DEF ReadAccount, In, Request, Eligible, IInv, TablesTyped, RequestOK, RequestTyped, Spends
  <2>5. RequestOK(r)'
    BY <1>1, <1>2, <2>3, <2>4, <1>3
       DEF RequestOK, RequestTyped, SpenderOK, SweepOK, SignOutOK, RegisterOK, Spends, Tables
  <2>6. Apart(r, q)
    BY <2>4, NothingTaken DEF IInv, ReadAccount, In
  <2>. HIDE DEF q
  <2>. QED  BY <1>2, <2>1, <2>2, <2>5, <2>6, GoesOn
<1>4. CASE ~(Eligible(req[r].kind, req[r].email))
  BY <1>2, <1>4, EndKeeps DEF ReadAccount
<1>. QED  BY <1>3, <1>4

(* Everything stored that is left to sweep is in the list. *)
LEMMA WriteUserKeeps ==
  ASSUME IInv, NEW r \in Requests, WriteUser(r) PROVE IInv'
<1>1. req[r] \in Request /\ RequestOK(r)
  BY ActiveTyped DEF IInv, WriteUser, In, RequestsOK
<1>2. UNCHANGED Tables /\ UNCHANGED counters
  BY DEF WriteUser, Rest, Tables
<1>3. IInv'
  <2> DEFINE q == [req[r] EXCEPT !.stage = "sweep", !.owner = TRUE, !.todo = Remaining(r)]
  <2>0. Remaining(r) \subseteq DOMAIN tokens /\ DOMAIN tokens \subseteq Nat
        /\ \A t \in DOMAIN tokens :
             tokens[t].kind = TokenKind(req[r].kind) /\ tokens[t].email = req[r].email
               => tokens[t].consumed \/ t = req[r].token \/ t \in Remaining(r)
    BY DEF Remaining, Unconsumed, IInv, TablesTyped
  <2>1. q \in Request
    BY <1>1, <2>0 DEF Request, Stages
  <2>2. Moves(r, q)
    BY DEF WriteUser, Moves, Goes
  <2>3. req'[r] = q
    BY <2>2 DEF Moves, IInv, TablesTyped
  <2>4. q.held = req[r].held /\ q.todo = Remaining(r) /\ q.stored = req[r].stored
          /\ q.revoke = req[r].revoke /\ q.open = req[r].open /\ q.owner /\ q.email = req[r].email
          /\ q.kind = req[r].kind /\ q.token = req[r].token /\ q.stage = "sweep"
          /\ req[r].stage = "write" /\ Spends(q)
    BY <1>1, <2>0 DEF WriteUser, In, Request, RequestOK, RequestTyped, Spends
  <2>5. RequestOK(r)'
    BY <1>1, <1>2, <2>3, <2>4, <2>0
       DEF RequestOK, RequestTyped, SpenderOK, SweepOK, SignOutOK, RegisterOK, Spends, Tables
  <2>6. Apart(r, q)
    BY <2>4 DEF IInv, WriteUser, In, UserBusy, Exclusive, Apart
  <2>. HIDE DEF q
  <2>. QED  BY <1>2, <2>1, <2>2, <2>5, <2>6, GoesOn
<1>. QED  BY <1>3

(* A swept row is held, or was consumed before. *)
LEMMA SweepKeeps ==
  ASSUME IInv, NEW r \in Requests, Sweep(r) PROVE IInv'
<1>1. req[r] \in Request /\ RequestOK(r)
  BY ActiveTyped DEF IInv, Sweep, In, RequestsOK
<1>2. UNCHANGED Tables /\ UNCHANGED counters
  BY DEF Sweep, Rest, Tables
<1>3. PICK t \in req[r].todo :
        /\ ~TokenBusy(r, t)
        /\ req' = [req EXCEPT ![r].todo = @ \ {t},
                              ![r].held = IF tokens[t].consumed THEN @ ELSE @ \cup {t}]
  BY DEF Sweep
<1> DEFINE more == IF tokens[t].consumed THEN req[r].held ELSE req[r].held \cup {t}
           q == [req[r] EXCEPT !.todo = @ \ {t}, !.held = more]
<1>4. t \in DOMAIN tokens /\ t \in Nat
  BY <1>1 DEF RequestOK, RequestTyped, Request
<1>5. more \in SUBSET Nat /\ more \subseteq DOMAIN tokens
      /\ \A x \in more : ~tokens[x].consumed
  BY <1>1, <1>4 DEF RequestOK, RequestTyped, Request
<1>6. q \in Request
  BY <1>1, <1>5 DEF Request
<1>7. Moves(r, q)
  BY <1>3 DEF Moves
<1>8. req'[r] = q
  BY <1>7 DEF Moves, IInv, TablesTyped
<1>9. q.held = more /\ q.todo = req[r].todo \ {t} /\ q.stored = req[r].stored
      /\ q.revoke = req[r].revoke /\ q.open = req[r].open /\ q.owner = req[r].owner /\ q.email = req[r].email
      /\ q.kind = req[r].kind /\ q.token = req[r].token /\ q.stage = "sweep"
      /\ req[r].stage = "sweep"
  BY <1>1 DEF Sweep, In, Request
<1>10. req[r].held \subseteq more /\ (tokens[t].consumed \/ t \in more)
  OBVIOUS
<1> HIDE DEF more
<1>11. RequestTyped(r)'
  BY <1>1, <1>2, <1>5, <1>8, <1>9 DEF RequestOK, RequestTyped, Spends, Tables
<1>12. SpenderOK(r)'
  BY <1>1, <1>2, <1>8, <1>9, <1>10 DEF RequestOK, SpenderOK, Spends, Tables
<1>13. SweepOK(r)'
  BY <1>1, <1>2, <1>8, <1>9, <1>10 DEF RequestOK, SweepOK, Spends, Tables
<1>14. RegisterOK(r)'
  BY <1>1, <1>2, <1>8, <1>9 DEF RequestOK, RegisterOK, Tables
<1>16. SignOutOK(r)'
  BY <1>1, <1>2, <1>8, <1>9 DEF RequestOK, SignOutOK, Tables
<1>15. Apart(r, q)
  <2>1. SUFFICES ASSUME NEW p \in Requests \ {r}, req[p].active
                 PROVE  /\ req[p].held \cap q.held = {}
                        /\ ~(req[p].owner /\ q.owner /\ req[p].email = q.email)
    BY DEF Apart
  <2>2. t \notin req[p].held
    BY <1>3, <2>1 DEF TokenBusy
  <2>3. req[r].active
    BY DEF Sweep, In
  <2>4. more \subseteq req[r].held \cup {t}
    BY DEF more
  <2>. QED  BY <1>9, <2>1, <2>2, <2>3, <2>4 DEF IInv, Exclusive
<1> HIDE DEF q
<1>. QED
  BY <1>2, <1>6, <1>7, <1>11, <1>12, <1>13, <1>14, <1>15, <1>16, GoesOn DEF RequestOK

(* The row of the link is locked: nobody else holds it. *)
LEMMA LockTokenKeeps ==
  ASSUME IInv, NEW r \in Requests, LockToken(r) PROVE IInv'
<1>1. req[r] \in Request /\ RequestOK(r)
  BY ActiveTyped DEF IInv, LockToken, In, RequestsOK
<1>2. UNCHANGED Tables /\ UNCHANGED counters
  BY DEF LockToken, Rest, Tables
<1>3. CASE Usable(req[r].token)
  <2> DEFINE t == req[r].token
             known == Unconsumed(TokenKind(req[r].kind), req[r].email)
             open == OpenSessions(req[r].email)
             q == [req[r] EXCEPT !.stage = "account", !.held = {t}, !.stored = known,
                                 !.open = open]
  <2>1. Spends(req[r]) /\ t \in DOMAIN tokens /\ t \in Nat /\ ~tokens[t].consumed
    BY <1>1, <1>3
       DEF LockToken, In, RequestOK, RequestTyped, SpenderOK, Usable, IInv, TablesTyped
  <2>2. known \subseteq DOMAIN tokens /\ known \in SUBSET Nat
        /\ \A x \in known : tokens[x].kind = TokenKind(req[r].kind)
                             /\ tokens[x].email = req[r].email
    BY DEF Unconsumed, IInv, TablesTyped
  <2>12. open \subseteq DOMAIN sessions /\ open \in SUBSET Nat
         /\ \A s \in open : sessions[s].email = req[r].email
    BY DEF OpenSessions, IInv, TablesTyped
  <2>3. q \in Request
    BY <1>1, <2>1, <2>2, <2>12 DEF Request, Stages
  <2>4. Moves(r, q)
    BY <1>3 DEF LockToken, Moves
  <2>5. req'[r] = q
    BY <2>4 DEF Moves, IInv, TablesTyped
  <2>6. q.held = {t} /\ q.todo = req[r].todo /\ q.stored = known
        /\ q.revoke = req[r].revoke /\ q.open = open /\ q.owner = req[r].owner
        /\ q.email = req[r].email /\ q.kind = req[r].kind /\ q.token = t /\ q.stage = "account"
    BY <1>1 DEF Request
  <2> HIDE DEF known, t, open
  <2>7. RequestTyped(r)'
    BY <1>1, <1>2, <2>1, <2>2, <2>5, <2>6, <2>12 DEF RequestOK, RequestTyped, Spends, Tables
  <2>8. SpenderOK(r)'
    BY <1>1, <1>2, <2>1, <2>5, <2>6 DEF RequestOK, SpenderOK, Spends, Tables, t
  <2>9. SweepOK(r)'
    BY <1>1, <1>2, <2>2, <2>5, <2>6 DEF RequestOK, SweepOK, Spends, Tables
  <2>10. RegisterOK(r)'
    BY <2>1, <2>5, <2>6 DEF RegisterOK, Spends
  <2>13. SignOutOK(r)'
    BY <1>1, <1>2, <2>5, <2>6, <2>12 DEF RequestOK, SignOutOK, Tables
  <2>11. Apart(r, q)
    BY <2>6 DEF IInv, LockToken, In, TokenBusy, Exclusive, Apart, t
  <2> HIDE DEF q
  <2>. QED
    BY <1>2, <2>3, <2>4, <2>7, <2>8, <2>9, <2>10, <2>11, <2>13, GoesOn DEF RequestOK
<1>4. CASE ~Usable(req[r].token)
  BY <1>2, <1>4, EndKeeps DEF LockToken
<1>. QED  BY <1>3, <1>4

LEMMA AbortKeeps ==
  ASSUME IInv, NEW r \in Requests, Abort(r) \/ Lost(r) PROVE IInv'
<1>1. Ends(r) /\ UNCHANGED Tables /\ UNCHANGED counters
  BY DEF Abort, Lost, Rest, Tables
<1>. QED  BY <1>1, EndKeeps

-----------------------------------------------------------------------------
(* The limiter and the clock. *)

LEMMA AdmittedCounts ==
  ASSUME TablesTyped, CountersTyped, NEW kind \in Kinds, Admitted(kind), UNCHANGED now
  PROVE  CountersTyped'
<1> USE AccountsAssumption
<1>1. CASE kind \notin DOMAIN Limited
  BY <1>1 DEF Admitted, CountersTyped
<1>2. CASE kind \in DOMAIN Limited
  <2> DEFINE a == Limited[kind]
             c == Consume(counters[a])
  <2>1. a \in Actions
    BY <1>2 DEF Limited, Actions
  <2>2. (counters[a] # None => counters[a].count < RATE_LIMIT[a])
        /\ counters' = [counters EXCEPT ![a] = c]
    BY <1>2 DEF Admitted
  <2>3. c \in Counter /\ c.count \in 1 .. RATE_LIMIT[a]
        /\ c.expires \in now + 1 .. now + RATE_WINDOW
    <3>1. RATE_LIMIT[a] \in Nat \ {0} /\ RATE_WINDOW \in Nat \ {0} /\ now \in Nat
      BY <2>1 DEF TablesTyped
    <3>2. CASE counters[a] = None
      BY <3>1, <3>2 DEF Consume, Counter
    <3>3. CASE counters[a] # None
      <4>1. counters[a] \in Counter /\ counters[a].count \in 1 .. RATE_LIMIT[a]
            /\ counters[a].expires \in now + 1 .. now + RATE_WINDOW
        BY <2>1, <3>3 DEF CountersTyped
      <4>2. c = [counters[a] EXCEPT !.count = @ + 1]
        BY <3>3 DEF Consume
      <4> HIDE DEF a, c
      <4>. QED  BY <2>2, <3>1, <3>3, <4>1, <4>2 DEF Counter
    <3>. QED  BY <3>2, <3>3
  <2> HIDE DEF a, c
  <2>. QED  BY <2>1, <2>2, <2>3 DEF CountersTyped
<1>. QED  BY <1>1, <1>2

LEMMA BeginKeeps ==
  ASSUME IInv, NEW r \in Requests, Begin(r) PROVE IInv'
<1>1. PICK kind \in Kinds, e \in Emails, t \in mailed \cup {None} :
        /\ kind \in {"verify", "reset"} <=> t # None
        /\ t # None => tokens[t].kind = TokenKind(kind) /\ tokens[t].email = e
        /\ Admitted(kind)
        /\ req' = [req EXCEPT ![r] =
             [active |-> TRUE, kind |-> kind, email |-> e, token |-> t,
              stage |-> IF t # None THEN "lock" ELSE "read",
              todo |-> {}, held |-> {}, owner |-> FALSE, revoke |-> {}, password |-> 0,
              stored |-> {}, open |-> {}]]
  BY DEF Begin
<1>2. UNCHANGED Tables
  BY DEF Begin, Tables
<1> DEFINE q == [active |-> TRUE, kind |-> kind, email |-> e, token |-> t,
                 stage |-> IF t # None THEN "lock" ELSE "read",
                 todo |-> {}, held |-> {}, owner |-> FALSE, revoke |-> {}, password |-> 0,
              stored |-> {}, open |-> {}]
<1>3. t \in DOMAIN tokens \cup {None} /\ t \in Nat \cup {None}
  BY DEF IInv, TablesTyped
<1>4. q \in Request
  BY <1>3 DEF Request, Stages
<1>5. Moves(r, q)
  BY <1>1 DEF Moves
<1>6. req'[r] = q
  BY <1>5 DEF Moves, IInv, TablesTyped
<1>7. RequestOK(r)'
  BY <1>1, <1>2, <1>3, <1>6
     DEF RequestOK, RequestTyped, SpenderOK, SweepOK, SignOutOK, RegisterOK, Spends, Tables
<1>8. Apart(r, q)
  BY DEF Apart
<1> HIDE DEF q
<1>9. TablesTyped' /\ RequestsOK' /\ Exclusive'
  BY <1>2, <1>4, <1>5, <1>7, <1>8, MoveKeeps DEF IInv
<1>10. CountersTyped'
  BY <1>1, <1>2, AdmittedCounts DEF IInv, Tables
<1>11. UsesOK' /\ PasswordsOK' /\ RegistersOK'
  BY <1>2 DEF IInv, UsesOK, PasswordsOK, ResetsOf, Tables, RegistersOK
<1>. QED  BY <1>9, <1>10, <1>11 DEF IInv

LEMMA TickKeeps ==
  ASSUME IInv, Tick PROVE IInv'
<1> USE AccountsAssumption
<1>1. now' = now + 1 /\ now < LastTime
      /\ UNCHANGED <<users, tokens, sessions, mailed, req, done, registered>>
  BY DEF Tick
<1>2. TablesTyped'
  BY <1>1 DEF IInv, TablesTyped
<1>3. CountersTyped'
  <2>1. ASSUME NEW a \in Actions
        PROVE  /\ counters'[a] \in Counter \cup {None}
               /\ counters'[a] # None =>
                    /\ counters'[a].count \in 1 .. RATE_LIMIT[a]
                    /\ counters'[a].expires \in now' + 1 .. now' + RATE_WINDOW
    <3>1. CASE counters[a] # None /\ counters[a].expires <= now + 1
      BY <3>1 DEF Tick
    <3>2. CASE ~(counters[a] # None /\ counters[a].expires <= now + 1)
      <4>1. counters'[a] = counters[a]
        BY <3>2 DEF Tick
      <4>2. now \in Nat /\ RATE_WINDOW \in Nat
        BY DEF IInv, TablesTyped
      <4>3. CASE counters[a] = None
        BY <4>1, <4>3
      <4>4. CASE counters[a] # None
        BY <1>1, <3>2, <4>1, <4>2, <4>4 DEF IInv, CountersTyped, Counter
      <4>. QED  BY <4>3, <4>4
    <3>. QED  BY <3>1, <3>2
  <2>2. counters' = [a \in Actions |-> counters'[a]]
    BY DEF Tick
  <2>. QED  BY <2>1, <2>2 DEF CountersTyped
<1>4. UsesOK' /\ PasswordsOK' /\ RegistersOK'
  BY <1>1 DEF IInv, UsesOK, PasswordsOK, ResetsOf, RegistersOK
<1>5. RequestsOK' /\ Exclusive'
  BY DEF Tick, RequestsOK, Exclusive
<1>. QED  BY <1>2, <1>3, <1>4, <1>5 DEF IInv

(* Revoking a session takes nothing from what a success left behind. *)
LEMMA LogoutKeeps ==
  ASSUME IInv, Logout PROVE IInv'
<1>1. PICK s \in DOMAIN sessions : sessions' = [sessions EXCEPT ![s].revoked = TRUE]
  BY DEF Logout
<1>2. UNCHANGED <<now, users, tokens, mailed, req, counters, done, registered>>
  BY DEF Logout, Rest
<1>3. sessions' \in Seq(Session) /\ DOMAIN sessions' = DOMAIN sessions
      /\ \A x \in DOMAIN sessions : sessions'[x].email = sessions[x].email
                                     /\ (sessions[x].revoked => sessions'[x].revoked)
  <2>1. sessions \in Seq(Session) /\ s \in 1 .. Len(sessions)
    BY DEF IInv, TablesTyped
  <2>2. [sessions[s] EXCEPT !.revoked = TRUE] \in Session
    <3>1. sessions[s] \in Session
      BY <2>1
    <3>. QED  BY <3>1 DEF Session
  <2>3. sessions' = [sessions EXCEPT ![s] = [sessions[s] EXCEPT !.revoked = TRUE]]
    BY <1>1
  <2>4. sessions' \in Seq(Session) /\ DOMAIN sessions' = DOMAIN sessions
    BY <2>1, <2>2, <2>3
  <2>. QED  BY <1>1, <2>4
<1>4. TablesTyped'
  BY <1>2, <1>3 DEF IInv, TablesTyped
<1>5. CountersTyped' /\ Exclusive' /\ RegistersOK'
  BY <1>2 DEF IInv, CountersTyped, Exclusive, RegistersOK
<1>6. RequestsOK'
  <2>1. SUFFICES ASSUME NEW p \in Requests, req[p].active PROVE RequestOK(p)'
    BY <1>2 DEF RequestsOK
  <2>2. RequestOK(p)
    BY <2>1 DEF IInv, RequestsOK
  <2>3. RequestTyped(p)'
    BY <1>2, <1>3, <2>2 DEF RequestOK, RequestTyped, Spends
  <2>4. SpenderOK(p)'
    BY <1>2, <2>2 DEF RequestOK, SpenderOK, Spends
  <2>5. SweepOK(p)'
    BY <1>2, <2>2 DEF RequestOK, SweepOK, Spends
  <2>6. RegisterOK(p)'
    BY <1>2, <2>2 DEF RequestOK, RegisterOK
  <2>7. SignOutOK(p)'
    BY <1>2, <1>3, <2>2 DEF RequestOK, RequestTyped, SignOutOK
  <2>. QED  BY <2>3, <2>4, <2>5, <2>6, <2>7 DEF RequestOK
<1>7. UsesOK'
  BY <1>2, <1>3 DEF IInv, UsesOK
<1>8. PasswordsOK'
  BY <1>2 DEF IInv, PasswordsOK, ResetsOf
<1>. QED  BY <1>4, <1>5, <1>6, <1>7, <1>8 DEF IInv

-----------------------------------------------------------------------------
(* The commit: a request's rows become everybody's. *)

LEMMA FunctionIsSeq ==
  ASSUME NEW S, NEW n \in Nat, NEW f \in [1 .. n -> S]
  PROVE  f \in Seq(S) /\ Len(f) = n /\ DOMAIN f = 1 .. n
OBVIOUS

(* What a commit does to the tokens: what it held is consumed, a token may be *)
(* added, and nothing else of a row changes.                                  *)
TokensFollow(q) ==
  /\ tokens' \in Seq(Token) /\ DOMAIN tokens \subseteq DOMAIN tokens'
  /\ \A t \in DOMAIN tokens :
       /\ tokens'[t].kind = tokens[t].kind /\ tokens'[t].email = tokens[t].email
       /\ tokens'[t].consumed <=> tokens[t].consumed \/ t \in q.held

LEMMA CommitTokens ==
  ASSUME IInv, NEW r \in Requests, Commit(r)
  PROVE  /\ TokensFollow(req[r])
         /\ mailed' \subseteq DOMAIN tokens'
<1> DEFINE q == req[r]
           c == Consumed(q.held)
           issues == q.kind \in {"register", "resend", "forgot"}
           new == [kind |-> TokenKind(q.kind), email |-> q.email, consumed |-> FALSE,
                   expires |-> now + Lifetime(TokenKind(q.kind))]
<1>1. tokens \in Seq(Token) /\ q \in Request /\ mailed \subseteq DOMAIN tokens /\ now \in Nat
  BY ActiveTyped DEF IInv, TablesTyped, Commit, In
<1>2. ASSUME NEW t \in DOMAIN tokens
      PROVE  /\ c[t] \in Token
             /\ c[t].kind = tokens[t].kind /\ c[t].email = tokens[t].email
             /\ c[t].consumed <=> tokens[t].consumed \/ t \in q.held
  <2>1. tokens[t] \in Token
    BY <1>1
  <2>2. c[t] = IF t \in q.held THEN [tokens[t] EXCEPT !.consumed = TRUE] ELSE tokens[t]
    BY DEF Consumed
  <2> HIDE DEF c, q
  <2>. QED  BY <2>1, <2>2 DEF Token
<1>3. c \in Seq(Token) /\ Len(c) = Len(tokens) /\ DOMAIN c = DOMAIN tokens
  <2>1. Len(tokens) \in Nat /\ DOMAIN tokens = 1 .. Len(tokens)
    BY <1>1
  <2>2. c = [t \in 1 .. Len(tokens) |-> c[t]]
    BY <2>1 DEF Consumed
  <2> HIDE DEF c
  <2>3. c \in [1 .. Len(tokens) -> Token]
    BY <1>2, <2>1, <2>2
  <2>. QED  BY <2>1, <2>3, FunctionIsSeq
<1>4. new \in Token
  <2>1. TokenKind(q.kind) \in {"verification", "reset"} /\ q.email \in Emails
    BY <1>1 DEF TokenKind, Request
  <2>2. Lifetime(TokenKind(q.kind)) \in Nat
    BY <2>1, AccountsAssumption DEF Lifetime
  <2>. QED  BY <1>1, <2>1, <2>2 DEF Token
<1>5. tokens' = IF issues THEN Append(c, new) ELSE c
  BY DEF Commit
<1>6. mailed' = mailed \/ (issues /\ mailed' = mailed \cup {Len(tokens) + 1})
  BY DEF Commit
<1> HIDE DEF c, q, new, issues
<1>7. CASE issues
  <2>1. tokens' \in Seq(Token) /\ DOMAIN tokens' = 1 .. Len(tokens) + 1
        /\ \A t \in 1 .. Len(tokens) : tokens'[t] = c[t]
    BY <1>1, <1>3, <1>4, <1>5, <1>7
  <2>. QED  BY <1>1, <1>2, <1>6, <2>1 DEF TokensFollow, q
<1>8. CASE ~issues
  BY <1>1, <1>2, <1>3, <1>5, <1>6, <1>8 DEF TokensFollow, q
<1>. QED  BY <1>7, <1>8

(* A session that was revoked stays so, and a reset revokes what it found. *)
LEMMA CommitSessions ==
  ASSUME IInv, NEW r \in Requests, Commit(r)
  PROVE  /\ sessions' \in Seq(Session) /\ DOMAIN sessions \subseteq DOMAIN sessions'
         /\ \A s \in DOMAIN sessions : sessions'[s].email = sessions[s].email
                                      /\ (sessions[s].revoked => sessions'[s].revoked)
         /\ req[r].kind # "login" =>
              \A s \in DOMAIN sessions \cap req[r].revoke : sessions'[s].revoked
<1> DEFINE q == req[r]
           swept == [s \in DOMAIN sessions |->
                       IF s \in q.revoke THEN [sessions[s] EXCEPT !.revoked = TRUE]
                       ELSE sessions[s]]
           new == [email |-> q.email, revoked |-> FALSE, password |-> q.password]
<1>1. sessions \in Seq(Session) /\ q \in Request
  BY ActiveTyped DEF IInv, TablesTyped, Commit, In
<1>2. sessions' = IF q.kind = "login" THEN Append(sessions, new) ELSE swept
  BY DEF Commit
<1>3. CASE q.kind = "login"
  <2>1. new \in Session
    BY <1>1 DEF Session, Request
  <2>2. sessions' = Append(sessions, new)
    BY <1>2, <1>3
  <2> HIDE DEF new, q, swept
  <2>. QED  BY <1>1, <1>3, <2>1, <2>2 DEF q
<1>4. CASE q.kind # "login"
  <2>1. sessions' = swept
    BY <1>2, <1>4
  <2>2. ASSUME NEW s \in DOMAIN sessions
        PROVE  /\ swept[s] \in Session
               /\ swept[s].email = sessions[s].email
               /\ sessions[s].revoked \/ s \in q.revoke => swept[s].revoked
    <3>1. sessions[s] \in Session
      BY <1>1
    <3>2. swept[s] = IF s \in q.revoke THEN [sessions[s] EXCEPT !.revoked = TRUE]
                     ELSE sessions[s]
      OBVIOUS
    <3> HIDE DEF swept, q
    <3>. QED  BY <3>1, <3>2 DEF Session
  <2>3. Len(sessions) \in Nat /\ DOMAIN sessions = 1 .. Len(sessions)
    BY <1>1
  <2>4. swept = [s \in 1 .. Len(sessions) |-> swept[s]]
    BY <2>3
  <2> HIDE DEF swept
  <2>5. swept \in [1 .. Len(sessions) -> Session]
    BY <2>2, <2>3, <2>4
  <2>6. swept \in Seq(Session) /\ DOMAIN swept = DOMAIN sessions
    BY <2>3, <2>5, FunctionIsSeq
  <2>. QED  BY <1>4, <2>1, <2>2, <2>6
<1>. QED  BY <1>3, <1>4

(* Accounts: one of a registration that has its row comes to be, a spender's  *)
(* stays, and every other one is as it was.                                   *)
LEMMA CommitUsers ==
  ASSUME IInv, NEW r \in Requests, Commit(r)
  PROVE  /\ users' \in [Emails -> User \cup {None}]
         /\ \A e \in Emails : e # req[r].email => users'[e] = users[e]
         /\ req[r].kind \in {"resend", "forgot", "login"} => users' = users
         /\ req[r].kind = "register" =>
              /\ users[req[r].email] = None /\ users'[req[r].email] \in User
              /\ users'[req[r].email].password = 0
         /\ Spends(req[r]) =>
              /\ users[req[r].email] \in User /\ users'[req[r].email] \in User
              /\ users'[req[r].email].password =
                   IF req[r].kind = "reset" THEN req[r].token
                   ELSE users[req[r].email].password
<1> DEFINE q == req[r]
<1>1. users \in [Emails -> User \cup {None}] /\ q \in Request /\ RequestOK(r)
      /\ q.stage = "commit" /\ tokens \in Seq(Token)
  BY ActiveTyped DEF IInv, TablesTyped, Commit, In, RequestsOK
<1>2. users' = [users EXCEPT ![q.email] = NewUser(q)]
  BY DEF Commit
<1>3. q.email \in Emails
  BY <1>1 DEF Request
<1>4. CASE q.kind = "register"
  <2>1. NewUser(q) = [state |-> "pending_verification", password |-> 0]
    BY <1>4 DEF NewUser
  <2>2. NewUser(q) \in User /\ NewUser(q).password = 0
    BY <2>1 DEF User
  <2>3. users[q.email] = None
    BY <1>1, <1>4 DEF RequestOK, RegisterOK
  <2> HIDE DEF q
  <2>. QED  BY <1>1, <1>2, <1>3, <1>4, <2>2, <2>3 DEF q, Spends
<1>5. CASE Spends(q)
  <2>1. users[q.email] \in User /\ q.token \in Nat
    BY <1>1, <1>5 DEF RequestOK, SpenderOK
  <2>2. NewUser(q) \in User
        /\ NewUser(q).password = IF q.kind = "reset" THEN q.token ELSE users[q.email].password
    <3>1. CASE q.kind = "verify"
      <4>1. NewUser(q) = [users[q.email] EXCEPT !.state = "active"]
        BY <3>1 DEF NewUser
      <4> HIDE DEF q
      <4>. QED  BY <2>1, <3>1, <4>1 DEF User
    <3>2. CASE q.kind = "reset"
      <4>1. NewUser(q) = [users[q.email] EXCEPT !.password = q.token]
        BY <3>2 DEF NewUser
      <4> HIDE DEF q
      <4>. QED  BY <2>1, <3>2, <4>1 DEF User
    <3>. QED  BY <1>5, <3>1, <3>2 DEF Spends
  <2> HIDE DEF q
  <2>. QED  BY <1>1, <1>2, <1>3, <1>5, <2>1, <2>2 DEF q, Spends
<1>6. CASE q.kind \notin {"register", "verify", "reset"}
  <2>1. NewUser(q) = users[q.email]
    BY <1>6 DEF NewUser
  <2>2. users' = users
    BY <1>1, <1>2, <1>3, <2>1
  <2>. QED  BY <1>1, <1>6, <2>2 DEF Spends
<1>. QED  BY <1>4, <1>5, <1>6 DEF Spends

(* The use a spender's commit adds, and what has gone before. *)
LEMMA CommitDone ==
  ASSUME IInv, NEW r \in Requests, Commit(r)
  PROVE  /\ done \in Seq(Use) /\ done' \in Seq(Use)
         /\ ~Spends(req[r]) => done' = done
         /\ Spends(req[r]) =>
              /\ DOMAIN done' = 1 .. Len(done) + 1
              /\ \A i \in 1 .. Len(done) : done'[i] = done[i]
              /\ done'[Len(done) + 1] =
                   [kind |-> req[r].kind, token |-> req[r].token, email |-> req[r].email,
                    stored |-> req[r].stored, open |-> req[r].open]
<1> DEFINE q == req[r]
           u == [kind |-> q.kind, token |-> q.token, email |-> q.email,
                 stored |-> q.stored, open |-> q.open]
<1>1. done \in Seq(Use) /\ q \in Request /\ RequestOK(r) /\ DOMAIN tokens \subseteq Nat
  BY ActiveTyped DEF IInv, TablesTyped, Commit, In, RequestsOK
<1>2. CASE Spends(q)
  <2>1. u \in Use
    BY <1>1, <1>2 DEF Use, Request, Spends, RequestOK, SpenderOK
  <2>2. done' = Append(done, u)
    BY <1>2 DEF Commit, Spends
  <2> HIDE DEF u
  <2>3. /\ done' \in Seq(Use) /\ DOMAIN done' = 1 .. Len(done) + 1
        /\ \A i \in 1 .. Len(done) : done'[i] = done[i]
        /\ done'[Len(done) + 1] = u
    BY <1>1, <2>1, <2>2
  <2>. QED  BY <1>1, <1>2, <2>3 DEF u
<1>3. CASE ~Spends(q)
  BY <1>1, <1>3 DEF Commit, Spends
<1>. QED  BY <1>2, <1>3

LEMMA CommitKeeps ==
  ASSUME IInv, NEW r \in Requests, Commit(r) PROVE IInv'
<1> DEFINE q == req[r]
<1>1. q \in Request /\ RequestOK(r) /\ q.active /\ q.stage = "commit"
  BY ActiveTyped DEF IInv, Commit, In, RequestsOK
<1>0. /\ done \in Seq(Use) /\ done' \in Seq(Use)
      /\ ~Spends(q) => done' = done
      /\ Spends(q) =>
           /\ DOMAIN done' = 1 .. Len(done) + 1
           /\ \A i \in 1 .. Len(done) : done'[i] = done[i]
           /\ done'[Len(done) + 1] = [kind |-> q.kind, token |-> q.token, email |-> q.email,
                                      stored |-> q.stored, open |-> q.open]
  BY CommitDone
<1>2. UNCHANGED <<now, counters>> /\ req' = [req EXCEPT ![r] = Idle]
  BY DEF Commit, Ends
<1>3. tokens \in Seq(Token) /\ sessions \in Seq(Session) /\ req \in [Requests -> Request \cup {Idle}]
      /\ users \in [Emails -> User \cup {None}]
  BY DEF IInv, TablesTyped
<1>4. TokensFollow(q) /\ mailed' \subseteq DOMAIN tokens'
  BY CommitTokens
<1>5. req' \in [Requests -> Request \cup {Idle}] /\ ~req'[r].active
      /\ \A p \in Requests \ {r} : req'[p] = req[p]
  BY <1>2, <1>3, IdleIsIdle
<1>6. TablesTyped'
  BY <1>2, <1>4, <1>5, CommitSessions, CommitUsers, <1>0 DEF IInv, TablesTyped, TokensFollow
<1>7. CountersTyped'
  BY <1>2 DEF IInv, CountersTyped
<1>8. Exclusive'
  BY <1>5 DEF IInv, Exclusive
<1>9. RequestsOK'
  <2>1. SUFFICES ASSUME NEW p \in Requests, p # r, req[p].active, req'[p] = req[p]
                 PROVE  RequestOK(p)'
    BY <1>5 DEF RequestsOK
  <2>2. RequestOK(p) /\ req[p] \in Request
    BY <2>1, ActiveTyped DEF IInv, RequestsOK
  <2>3. /\ req[p].held \cap q.held = {}
        /\ ~(req[p].owner /\ q.owner /\ req[p].email = q.email)
    BY <1>1, <2>1 DEF IInv, Exclusive
  <2>4. RequestTyped(p)'
    BY <1>4, <2>1, <2>2, <2>3, CommitSessions DEF RequestOK, RequestTyped, TokensFollow, Spends
  <2>5. SpenderOK(p)'
    <3>1. SUFFICES ASSUME Spends(req[p]) PROVE SpenderOK(p)'
      BY <2>1 DEF SpenderOK, Spends
    <3>2. req[p].stage \in {"write", "sweep", "commit"} => users'[req[p].email] \in User
      BY <1>1, <2>2, <3>1, CommitUsers
         DEF RequestOK, SpenderOK, Request, Kinds, Spends
    <3>. QED  BY <1>4, <2>1, <2>2, <3>1, <3>2 DEF RequestOK, SpenderOK, TokensFollow, Spends
  <2>6. SweepOK(p)'
    BY <1>4, <2>1, <2>2, <2>3 DEF RequestOK, RequestTyped, SweepOK, TokensFollow, Spends
  <2>7. RegisterOK(p)'
    <3>1. SUFFICES ASSUME req[p].kind = "register" PROVE RegisterOK(p)'
      BY <2>1 DEF RegisterOK
    <3>2. CASE req[p].stage = "commit"
      <4>1. req[p].owner /\ users[req[p].email] = None /\ req[p].email \in Emails
        BY <2>2, <3>1, <3>2 DEF RequestOK, RegisterOK, Request
      <4>2. None \notin User
        BY AccountsAssumption DEF User
      <4>3. users'[req[p].email] = None
        BY <1>1, <2>3, <4>1, <4>2, CommitUsers
           DEF RequestOK, RegisterOK, Request, Kinds, Spends
      <4>. QED  BY <2>1, <3>1, <3>2, <4>1, <4>3 DEF RegisterOK
    <3>3. CASE req[p].stage # "commit"
      BY <2>1, <2>2, <3>1, <3>3 DEF RequestOK, RegisterOK
    <3>. QED  BY <3>2, <3>3
  <2>8. SignOutOK(p)'
    BY <2>1, <2>2, CommitSessions DEF RequestOK, RequestTyped, SignOutOK
  <2>. QED  BY <2>4, <2>5, <2>6, <2>7, <2>8 DEF RequestOK
<1>10. UsesOK'
  <2>1. ASSUME NEW i \in DOMAIN done
        PROVE  /\ done[i].token \in DOMAIN tokens' /\ tokens'[done[i].token].consumed
               /\ \A t \in done[i].stored : t \in DOMAIN tokens' /\ tokens'[t].consumed
               /\ done[i].kind = "reset" =>
                    \A s \in done[i].open : s \in DOMAIN sessions' /\ sessions'[s].revoked
    BY <1>4, <2>1, CommitSessions DEF IInv, UsesOK, TokensFollow
  <2>2. CASE ~Spends(q)
    BY <2>1, <2>2, <1>0 DEF IInv, UsesOK
  <2>3. CASE Spends(q)
    <3> DEFINE n == Len(done) + 1
               u == done'[n]
    <3>1. /\ q.token \in DOMAIN tokens /\ q.token \in q.held /\ ~tokens[q.token].consumed
          /\ (\A t \in q.stored : t \in DOMAIN tokens /\ (tokens[t].consumed \/ t \in q.held))
          /\ q.open \subseteq DOMAIN sessions /\ q.kind # "login"
          /\ q.kind = "reset" => \A s \in q.open : sessions[s].revoked \/ s \in q.revoke
      BY <1>1, <2>3 DEF RequestOK, RequestTyped, SpenderOK, SweepOK, SignOutOK, Spends
    <3>2. u.token = q.token /\ u.stored = q.stored /\ u.open = q.open /\ u.kind = q.kind
      BY <2>3, <1>0
    <3>3. /\ u.token \in DOMAIN tokens' /\ tokens'[u.token].consumed
          /\ \A t \in u.stored : t \in DOMAIN tokens' /\ tokens'[t].consumed
          /\ u.kind = "reset" =>
               \A s \in u.open : s \in DOMAIN sessions' /\ sessions'[s].revoked
      BY <1>4, <3>1, <3>2, CommitSessions DEF TokensFollow
    <3>4. \A i \in DOMAIN done : done[i].token # u.token
      BY <3>1, <3>2 DEF IInv, UsesOK
    <3>5. DOMAIN done = 1 .. Len(done) /\ Len(done) \in Nat /\ DOMAIN done' = 1 .. n
          /\ \A i \in 1 .. Len(done) : done'[i] = done[i]
      BY <2>3, <1>0
    <3>6. \A i \in DOMAIN done' : i = n \/ (i \in DOMAIN done /\ done'[i] = done[i])
      BY <3>5
    <3> HIDE DEF n, q
    <3>7. \A i \in DOMAIN done' :
            /\ done'[i].token \in DOMAIN tokens' /\ tokens'[done'[i].token].consumed
            /\ \A t \in done'[i].stored : t \in DOMAIN tokens' /\ tokens'[t].consumed
            /\ done'[i].kind = "reset" =>
                 \A s \in done'[i].open : s \in DOMAIN sessions' /\ sessions'[s].revoked
      BY <2>1, <3>3, <3>6
    <3>8. \A i, j \in DOMAIN done' : i # j => done'[i].token # done'[j].token
      BY <3>4, <3>6 DEF IInv, UsesOK
    <3>. QED  BY <3>7, <3>8 DEF UsesOK
  <2>. QED  BY <2>2, <2>3
<1>11. PasswordsOK'
  <2>1. SUFFICES ASSUME NEW e \in Emails
                 PROVE  /\ users'[e] # None =>
                             \/ users'[e].password = 0
                             \/ /\ users'[e].password \in DOMAIN tokens'
                                /\ tokens'[users'[e].password].kind = "reset"
                        /\ ResetsOf(e)' # {} =>
                             \E i \in ResetsOf(e)' :
                               /\ \A j \in ResetsOf(e)' : j <= i
                               /\ users'[e] \in User /\ users'[e].password = done'[i].token
    BY DEF PasswordsOK
  <2>2. /\ users[e] # None =>
             \/ users[e].password = 0
             \/ users[e].password \in DOMAIN tokens /\ tokens[users[e].password].kind = "reset"
        /\ ResetsOf(e) # {} =>
             \E i \in ResetsOf(e) :
               /\ \A j \in ResetsOf(e) : j <= i
               /\ users[e] \in User /\ users[e].password = done[i].token
    BY DEF IInv, PasswordsOK
  <2>3. \A t \in DOMAIN tokens : t \in DOMAIN tokens' /\ tokens'[t].kind = tokens[t].kind
    BY <1>4 DEF TokensFollow
  <2>4. CASE Spends(q) /\ e = q.email /\ q.kind = "reset"
    <3> DEFINE n == Len(done) + 1
    <3>1. users'[e] \in User /\ users'[e].password = q.token
      BY <2>4, CommitUsers
    <3>2. q.token \in DOMAIN tokens /\ tokens[q.token].kind = "reset"
      BY <1>1, <2>4 DEF RequestOK, SpenderOK, TokenKind
    <3>3. DOMAIN done' = 1 .. n /\ Len(done) \in Nat /\ done'[n].kind = "reset"
          /\ done'[n].email = e /\ done'[n].token = q.token
      BY <2>4, <1>0
    <3>4. n \in ResetsOf(e)' /\ \A j \in ResetsOf(e)' : j <= n
      BY <3>3 DEF ResetsOf
    <3>. QED  BY <2>3, <3>1, <3>2, <3>3, <3>4
  <2>5. CASE ~(Spends(q) /\ e = q.email /\ q.kind = "reset")
    <3>1. ResetsOf(e)' = ResetsOf(e) /\ \A i \in ResetsOf(e) : done'[i] = done[i]
      <4>1. CASE ~Spends(q)
        BY <4>1, <1>0 DEF ResetsOf
      <4>2. CASE Spends(q)
        <5>1. DOMAIN done = 1 .. Len(done) /\ Len(done) \in Nat
              /\ DOMAIN done' = 1 .. Len(done) + 1
              /\ \A i \in 1 .. Len(done) : done'[i] = done[i]
          BY <4>2, <1>0
        <5>2. done'[Len(done) + 1].kind = q.kind /\ done'[Len(done) + 1].email = q.email
          BY <4>2, <1>0
        <5>. QED  BY <2>5, <4>2, <5>1, <5>2 DEF ResetsOf
      <4>. QED  BY <4>1, <4>2
    <3>2. CASE users[e] = None
      <4>1. None \notin User
        BY AccountsAssumption DEF User
      <4>2. ResetsOf(e) = {}
        BY <2>2, <3>2, <4>1
      <4>3. users'[e] = None \/ users'[e].password = 0
        BY <1>1, <2>1, <3>2, <4>1, CommitUsers DEF Request, Kinds, Spends
      <4>. QED  BY <3>1, <4>2, <4>3
    <3>3. CASE users[e] # None
      <4>1. users[e] \in User
        BY <1>3, <2>1, <3>3
      <4>2. users'[e] \in User /\ users'[e].password = users[e].password
        BY <1>1, <2>1, <2>5, <3>3, <4>1, CommitUsers DEF Request, Kinds, Spends
      <4>. QED  BY <2>2, <2>3, <3>1, <3>3, <4>2
    <3>. QED  BY <3>2, <3>3
  <2>. QED  BY <2>4, <2>5
<1>12. RegistersOK'
  <2>1. registered = [e \in Emails |-> IF users[e] = None THEN 0 ELSE 1] /\ q.email \in Emails
        /\ None \notin User
    BY <1>1, AccountsAssumption DEF IInv, RegistersOK, Request, User
  <2>2. CASE q.kind = "register"
    <3>1. registered' = [registered EXCEPT ![q.email] = @ + 1]
      BY <2>2 DEF Commit
    <3>2. users[q.email] = None /\ users'[q.email] \in User
          /\ \A e \in Emails : e # q.email => users'[e] = users[e]
      BY <2>2, CommitUsers
    <3>. QED  BY <2>1, <3>1, <3>2 DEF RegistersOK
  <2>3. CASE q.kind # "register"
    <3>1. registered' = registered
      BY <2>3 DEF Commit
    <3>2. \A e \in Emails : users'[e] = None <=> users[e] = None
      <4>1. CASE Spends(q)
        <5>1. users[q.email] \in User /\ users'[q.email] \in User
              /\ \A e \in Emails : e # q.email => users'[e] = users[e]
          BY <4>1, CommitUsers
        <5>. QED  BY <2>1, <5>1
      <4>2. CASE ~Spends(q)
        <5>1. q.kind \in {"resend", "forgot", "login"}
          BY <1>1, <2>3, <4>2 DEF Request, Kinds, Spends
        <5>. QED  BY <5>1, CommitUsers
      <4>. QED  BY <4>1, <4>2
    <3>. QED  BY <2>1, <3>1, <3>2 DEF RegistersOK
  <2>. QED  BY <2>2, <2>3
<1>. QED  BY <1>6, <1>7, <1>8, <1>9, <1>10, <1>11, <1>12 DEF IInv

-----------------------------------------------------------------------------
LEMMA InitInv == Init => IInv
<1> USE AccountsAssumption
<1>1. SUFFICES ASSUME Init PROVE IInv
  OBVIOUS
<1>2. users \in [Emails -> User \cup {None}]
      /\ \A e \in Emails : users[e] # None => users[e].password = 0
  <2>1. users \in [Emails -> {None} \cup
          [state : {"pending_verification", "active"}, password : {0}]]
    BY <1>1 DEF Init
  <2>. QED  BY <2>1 DEF User
<1>3. TablesTyped
  BY <1>1, <1>2 DEF Init, TablesTyped
<1>4. CountersTyped
  BY <1>1 DEF Init, CountersTyped
<1>5. RequestsOK /\ Exclusive
  BY <1>1, IdleIsIdle DEF Init, RequestsOK, Exclusive
<1>6. UsesOK /\ PasswordsOK /\ RegistersOK
  BY <1>1, <1>2 DEF Init, UsesOK, PasswordsOK, ResetsOf, RegistersOK
<1>. QED  BY <1>3, <1>4, <1>5, <1>6 DEF IInv

LEMMA StepInv == IInv /\ [Next]_vars => IInv'
<1>1. SUFFICES ASSUME IInv, [Next]_vars PROVE IInv'
  OBVIOUS
<1>2. CASE UNCHANGED vars
  BY <1>1, <1>2
     DEF vars, IInv, TablesTyped, CountersTyped, RequestsOK, RequestOK, RequestTyped, SpenderOK,
         SweepOK, SignOutOK, RegisterOK, Exclusive, UsesOK, PasswordsOK, ResetsOf, RegistersOK,
         Spends, TokenKind
<1>3. CASE Tick  BY <1>1, <1>3, TickKeeps
<1>4. CASE Logout  BY <1>1, <1>4, LogoutKeeps
<1>5. ASSUME NEW r \in Requests, Begin(r) \/ Step(r) \/ Lost(r) PROVE IInv'
  BY <1>1, <1>5, BeginKeeps, RegisterReadKeeps, RegisterInsertKeeps, IssueReadKeeps, SweepKeeps,
     SweptKeeps, LockTokenKeeps, ReadAccountKeeps, WriteUserKeeps, LoginReadKeeps, CommitKeeps,
     AbortKeeps DEF Step
<1>. QED  BY <1>1, <1>2, <1>3, <1>4, <1>5 DEF Next

LEMMA Invariance == Spec => []IInv
BY InitInv, StepInv, PTL DEF Spec

(* The state of an account, the rows a request holds and the counters of the  *)
(* limiter are what the code takes them to be: in particular a counter never  *)
(* outlives the window its first attempt began (auth_rate_limiter.py).        *)
THEOREM AccountsTyped == Spec => []TypeOK
<1>1. IInv => TypeOK
  <2>1. SUFFICES ASSUME IInv PROVE TypeOK
    OBVIOUS
  <2>2. now \in 0 .. LastTime
    BY <2>1, AccountsAssumption DEF IInv, TablesTyped
  <2>3. \A e \in Emails : users[e] # None =>
          /\ users[e].state \in {"pending_verification", "active"}
          /\ users[e].password = 0 \/ tokens[users[e].password].kind = "reset"
    BY <2>1 DEF IInv, TablesTyped, PasswordsOK, User
  <2>. QED
    BY <2>1, <2>2, <2>3
       DEF TypeOK, IInv, TablesTyped, CountersTyped, RequestsOK, RequestOK, RequestTyped
<1>. QED  BY Invariance, <1>1, PTL

(* However many links of however many overlapping requests are opened at the  *)
(* same time, a token serves one request, and an account's password is the    *)
(* one its last successful reset set (verify_email_token, reset_password).    *)
THEOREM TokensServeOnce == Spec => []SpentOnce
<1>1. IInv => SpentOnce
  <2>1. SUFFICES ASSUME IInv, NEW e \in Emails, ResetsOf(e) # {}
                 PROVE  users[e].password =
                          done[CHOOSE i \in ResetsOf(e) : \A j \in ResetsOf(e) : j <= i].token
    BY DEF IInv, UsesOK, SpentOnce, ResetsOf
  <2>2. PICK i \in ResetsOf(e) :
          (\A j \in ResetsOf(e) : j <= i) /\ users[e].password = done[i].token
    BY <2>1 DEF IInv, PasswordsOK
  <2> DEFINE k == CHOOSE k \in ResetsOf(e) : \A j \in ResetsOf(e) : j <= k
  <2>3. k \in ResetsOf(e) /\ \A j \in ResetsOf(e) : j <= k
    BY <2>2
  <2>4. i \in Nat /\ k \in Nat
    BY <2>1, <2>3 DEF ResetsOf, IInv, TablesTyped
  <2>5. i = k
    BY <2>2, <2>3, <2>4
  <2>. QED  BY <2>2, <2>5
<1>. QED  BY Invariance, <1>1, PTL

(* After a success every token that was stored when its row was locked is     *)
(* spent (verify_email_token and reset_password invalidate the others).       *)
THEOREM SuccessSweepsAll == Spec => []SuccessSweeps
<1>1. IInv => SuccessSweeps
  BY DEF IInv, UsesOK, SuccessSweeps
<1>. QED  BY Invariance, <1>1, PTL

(* After a reset every session that was open when it locked its token is      *)
(* revoked, whether it was the reset or a logout in between that did it       *)
(* (revoke_all_sessions).                                                     *)
THEOREM ResetsSignOut == Spec => []ResetSignsOut
<1>1. IInv => ResetSignsOut
  BY DEF IInv, UsesOK, ResetSignsOut
<1>. QED  BY Invariance, <1>1, PTL

(* Of the registrations of an email that overlap one makes the account, and   *)
(* none replaces it (the unique email, and the row the INSERT waits for).     *)
THEOREM AccountsRegisteredOnce == Spec => []RegisteredOnce
<1>1. IInv => RegisteredOnce
  BY DEF IInv, RegistersOK, RegisteredOnce
<1>. QED  BY Invariance, <1>1, PTL
===============================================================================
