---------------------------- MODULE ConsoleAuth ----------------------------
(***************************************************************************)
(* Signing in to the console: the local account with its login limit        *)
(* (console/app.py login, console/store.py), password changes that revoke   *)
(* every session, and single-use SSO transactions bound to a browser        *)
(* (console/sso.py).                                                        *)
(*                                                                         *)
(* Handlers run in threads.  Each SQLite transaction is one step; login     *)
(* holds runtime.lock over its steps, the other handlers do not take it.    *)
(* Sessions, account and attempts are on disk and survive a restart; SSO    *)
(* transactions and threads do not.  Time is counted in ticks.  Local login  *)
(* and an identity provider are both configured.                            *)
(***************************************************************************)
EXTENDS Naturals, Sequences, FiniteSets

CONSTANTS
    Threads, Browsers, Passwords,
    MaxFailures,  \* wrong passwords before the login is closed (5)
    LockFor,      \* how long it stays closed, and failures are remembered (60 s)
    SessionTtl,   \* lifetime of a local session (8 h)
    FlowTtl,      \* lifetime of an SSO transaction (300 s)
    TokenTtl,     \* lifetimes the provider may give an ID token (capped at 1 h)
    MaxPending,   \* pending SSO transactions (1000)
    MaxTime, MaxSessions, MaxFlows, MaxChanges  \* bounds of the exploration

ASSUME LimitAssumption ==
    /\ MaxFailures \in Nat \ {0} /\ LockFor \in Nat \ {0} /\ MaxPending \in Nat \ {0}
    /\ SessionTtl \in Nat \ {0} /\ FlowTtl \in Nat \ {0} /\ TokenTtl \subseteq Nat \ {0}

VARIABLES
    now,
    account,      \* the administrator's password and how often it was changed
    attempts,     \* failed logins: how many, remembered until when
    sessions,     \* rows of the sessions table
    transactions, \* pending SSO transactions
    cookie,       \* per browser: its session token, 0 without one
    flow,         \* per browser: the SSO transaction its binding cookie belongs to
    thread,       \* per thread: the handler it runs
    lock,         \* runtime.lock: taken or not
    started,      \* SSO transactions and sessions handed out so far
    wrong,        \* history: the times of the wrong passwords since the last right one
    signedIn      \* history: sessions made from an SSO transaction

vars == <<now, account, attempts, sessions, transactions, cookie, flow, thread, lock,
          started, wrong, signedIn>>

Idle == [pc |-> "idle"]

Init ==
    /\ now = 0
    /\ \E p \in Passwords : account = [password |-> p, version |-> 0]
    /\ attempts = [failures |-> 0, until |-> 0]
    /\ sessions = {} /\ transactions = {}
    /\ cookie = [b \in Browsers |-> 0] /\ flow = [b \in Browsers |-> 0]
    /\ thread = [t \in Threads |-> Idle] /\ lock = FALSE
    /\ started = [session |-> 0, flow |-> 0]
    /\ wrong = <<>> /\ signedIn = {}

Tick ==
    /\ now < MaxTime /\ now' = now + 1
    /\ UNCHANGED <<account, attempts, sessions, transactions, cookie, flow, thread, lock,
                   started, wrong, signedIn>>

At(t, pc) == thread[t].pc = pc
Become(t, r) == thread' = [thread EXCEPT ![t] = r]

\* principal: the row of a token, if it has not expired.
Principal(token) == {s \in sessions : s.id = token /\ s.expires > now}

-----------------------------------------------------------------------------
(* Local login.                                                             *)

\* login_attempt(identity): too many failures, the last of them recent.
Locked == attempts.failures >= MaxFailures /\ attempts.until > now

LoginUnlocked(t, b, password) ==
    /\ At(t, "idle") /\ ~Locked
    /\ lock' = TRUE
    /\ Become(t, [pc |-> "verify", b |-> b, token |-> cookie[b], password |-> password])
    /\ UNCHANGED <<now, account, attempts, sessions, transactions, cookie, flow, started,
                   wrong, signedIn>>

\* The lock is taken; a closed login is refused without looking at the password.
LoginBegin(t, b, password) ==
    /\ At(t, "idle") /\ ~lock /\ ~Locked
    /\ lock' = TRUE
    /\ Become(t, [pc |-> "verify", b |-> b, token |-> cookie[b], password |-> password])
    /\ UNCHANGED <<now, account, attempts, sessions, transactions, cookie, flow, started,
                   wrong, signedIn>>

\* check_password
LoginVerify(t) ==
    /\ At(t, "verify")
    /\ Become(t, [pc |-> "count", b |-> thread[t].b, token |-> thread[t].token,
                  valid |-> thread[t].password = account.password,
                  version |-> account.version, overtaken |-> FALSE])
    /\ UNCHANGED <<now, account, attempts, sessions, transactions, cookie, flow, lock,
                   started, wrong, signedIn>>

\* login_attempt(identity, valid): a right password clears the count, a wrong one is
\* counted and answered.
LoginCount(t) ==
    /\ At(t, "count")
    /\ IF thread[t].valid
       THEN /\ attempts' = [failures |-> 0, until |-> 0]
            /\ wrong' = <<>>
            /\ Become(t, [thread[t] EXCEPT !.pc = "replace"])
            /\ UNCHANGED lock
       ELSE /\ attempts' = [failures |-> IF attempts.until > now THEN attempts.failures + 1 ELSE 1,
                            until |-> now + LockFor]
            /\ wrong' = Append(wrong, now)
            /\ Become(t, Idle)
            /\ lock' = FALSE
    /\ UNCHANGED <<now, account, sessions, transactions, cookie, flow, started, signedIn>>

\* The session the browser came with is closed.
LoginReplace(t) ==
    /\ At(t, "replace")
    /\ sessions' = {s \in sessions : s.id # thread[t].token}
    /\ Become(t, [thread[t] EXCEPT !.pc = "create"])
    /\ UNCHANGED <<now, account, attempts, transactions, cookie, flow, lock, started,
                   wrong, signedIn>>

\* create_session: expired rows go, a new one comes.
Added(row) == {s \in sessions : s.expires >= now} \cup {row}

LoginCreate(t) ==
    /\ At(t, "create") /\ started.session < MaxSessions
    /\ LET id == started.session + 1 IN
       /\ started' = [started EXCEPT !.session = id]
       /\ sessions' = Added([id |-> id, auth |-> "local", expires |-> now + SessionTtl,
                             version |-> thread[t].version, overtaken |-> thread[t].overtaken])
       /\ cookie' = [cookie EXCEPT ![thread[t].b] = id]
    /\ lock' = FALSE
    /\ Become(t, Idle)
    /\ UNCHANGED <<now, account, attempts, transactions, flow, wrong, signedIn>>

-----------------------------------------------------------------------------
(* Handlers behind the authenticated dependency.                            *)

\* /logout with any session; /password only with a local one and a new password.
LogoutBegin(t, b) ==
    /\ At(t, "idle") /\ Principal(cookie[b]) # {}
    /\ Become(t, [pc |-> "logout", b |-> b, token |-> cookie[b]])
    /\ UNCHANGED <<now, account, attempts, sessions, transactions, cookie, flow, lock,
                   started, wrong, signedIn>>

Logout(t) ==
    /\ At(t, "logout")
    /\ sessions' = {s \in sessions : s.id # thread[t].token}
    /\ cookie' = [cookie EXCEPT ![thread[t].b] = 0]
    /\ Become(t, Idle)
    /\ UNCHANGED <<now, account, attempts, transactions, flow, lock, started, wrong, signedIn>>

PasswordBegin(t, b, current, new) ==
    /\ At(t, "idle") /\ current # new
    /\ \E s \in Principal(cookie[b]) : s.auth = "local"
    /\ Become(t, [pc |-> "change", b |-> b, current |-> current, new |-> new])
    /\ UNCHANGED <<now, account, attempts, sessions, transactions, cookie, flow, lock,
                   started, wrong, signedIn>>

\* Logins that verified the old password and have not made their session yet.
Overtaken ==
    [u \in Threads |-> IF thread[u].pc \in {"count", "replace", "create"}
                       THEN [thread[u] EXCEPT !.overtaken = TRUE] ELSE thread[u]]

PasswordKeepingOthers(t) ==
    /\ At(t, "change")
    /\ thread[t].current = account.password => account.version < MaxChanges
    /\ IF thread[t].current = account.password
       THEN /\ account' = [password |-> thread[t].new, version |-> account.version + 1]
            /\ sessions' = {s \in sessions : s.id # cookie[thread[t].b]}
            /\ cookie' = [cookie EXCEPT ![thread[t].b] = 0]
            /\ thread' = [Overtaken EXCEPT ![t] = Idle]
       ELSE Become(t, Idle) /\ UNCHANGED <<account, sessions, cookie>>
    /\ UNCHANGED <<now, attempts, transactions, flow, lock, started, wrong, signedIn>>

\* change_password: one transaction compares, replaces and deletes every session.
Password(t) ==
    /\ At(t, "change")
    /\ thread[t].current = account.password => account.version < MaxChanges
    /\ IF thread[t].current = account.password
       THEN /\ account' = [password |-> thread[t].new, version |-> account.version + 1]
            /\ sessions' = {}
            /\ cookie' = [cookie EXCEPT ![thread[t].b] = 0]
            /\ thread' = [Overtaken EXCEPT ![t] = Idle]
       ELSE Become(t, Idle) /\ UNCHANGED <<account, sessions, cookie>>
    /\ UNCHANGED <<now, attempts, transactions, flow, lock, started, wrong, signedIn>>

-----------------------------------------------------------------------------
(* SSO.                                                                     *)

\* Expired transactions go; a full table refuses.  The browser gets a binding of its
\* own, which replaces the one of an earlier transaction.
Start(b) ==
    /\ started.flow < MaxFlows
    /\ LET live == {x \in transactions : x.expires >= now}
           id == started.flow + 1
       IN  IF Cardinality(live) >= MaxPending
           THEN transactions' = live /\ UNCHANGED <<started, flow>>
           ELSE /\ started' = [started EXCEPT !.flow = id]
                /\ transactions' = live \cup {[state |-> id, browser |-> b, expires |-> now + FlowTtl]}
                /\ flow' = [flow EXCEPT ![b] = id]
    /\ UNCHANGED <<now, account, attempts, sessions, cookie, thread, lock, wrong, signedIn>>

CallbackPeek(t, b, x) ==
    /\ At(t, "idle") /\ x \in transactions /\ x.expires >= now /\ flow[b] = x.state
    /\ Become(t, [pc |-> "exchange", b |-> b, token |-> cookie[b],
                  state |-> x.state, starter |-> x.browser])
    /\ UNCHANGED <<now, account, attempts, sessions, transactions, cookie, flow, lock,
                   started, wrong, signedIn>>

\* A browser comes back with a state: it must hold the binding, which uses it up.
CallbackBegin(t, b, x) ==
    /\ At(t, "idle") /\ x \in transactions /\ x.expires >= now /\ flow[b] = x.state
    /\ transactions' = transactions \ {x}
    /\ Become(t, [pc |-> "exchange", b |-> b, token |-> cookie[b],
                  state |-> x.state, starter |-> x.browser])
    /\ UNCHANGED <<now, account, attempts, sessions, cookie, flow, lock, started, wrong, signedIn>>

\* The code is exchanged for an ID token (external).  It fails, and the binding is
\* dropped, or names a principal and the time the token expires.
Exchange(t) ==
    /\ At(t, "exchange")
    /\ \/ /\ Become(t, Idle)
          /\ flow' = [flow EXCEPT ![thread[t].b] = 0]
       \/ /\ \E ttl \in TokenTtl :
               Become(t, [pc |-> "switch", b |-> thread[t].b, token |-> thread[t].token,
                          state |-> thread[t].state, starter |-> thread[t].starter,
                          expires |-> now + ttl])
          /\ UNCHANGED flow
    /\ UNCHANGED <<now, account, attempts, sessions, transactions, cookie, lock, started,
                   wrong, signedIn>>

SignInReplace(t) ==
    /\ At(t, "switch")
    /\ sessions' = {s \in sessions : s.id # thread[t].token}
    /\ Become(t, [thread[t] EXCEPT !.pc = "signin"])
    /\ UNCHANGED <<now, account, attempts, transactions, cookie, flow, lock, started,
                   wrong, signedIn>>

\* At least one tick, at most the rest of the ID token's life.
Remaining(expires) == IF expires > now + 1 THEN expires - now ELSE 1

SignIn(t) ==
    /\ At(t, "signin") /\ started.session < MaxSessions
    /\ LET id == started.session + 1 IN
       /\ started' = [started EXCEPT !.session = id]
       /\ sessions' = Added([id |-> id, auth |-> "entra",
                             expires |-> now + Remaining(thread[t].expires),
                             version |-> account.version, overtaken |-> FALSE])
       /\ cookie' = [cookie EXCEPT ![thread[t].b] = id]
       /\ signedIn' = signedIn \cup {[session |-> id, state |-> thread[t].state,
                                   browser |-> thread[t].b, starter |-> thread[t].starter]}
    /\ flow' = [flow EXCEPT ![thread[t].b] = 0]
    /\ Become(t, Idle)
    /\ UNCHANGED <<now, account, attempts, transactions, lock, wrong>>

-----------------------------------------------------------------------------
\* The console dies and is started again: only the database and the browsers remain.
Restart ==
    /\ thread' = [t \in Threads |-> Idle]
    /\ lock' = FALSE /\ transactions' = {}
    /\ UNCHANGED <<now, account, attempts, sessions, cookie, flow, started, wrong, signedIn>>

Next ==
    \/ Tick \/ Restart
    \/ \E b \in Browsers : Start(b)
    \/ \E t \in Threads :
         \/ \E b \in Browsers, p \in Passwords : LoginBegin(t, b, p)
         \/ LoginVerify(t) \/ LoginCount(t) \/ LoginReplace(t) \/ LoginCreate(t)
         \/ \E b \in Browsers : LogoutBegin(t, b)
         \/ Logout(t)
         \/ \E b \in Browsers, p, q \in Passwords : PasswordBegin(t, b, p, q)
         \/ Password(t)
         \/ \E b \in Browsers, x \in transactions : CallbackBegin(t, b, x)
         \/ Exchange(t) \/ SignInReplace(t) \/ SignIn(t)

Spec == Init /\ [][Next]_vars

-----------------------------------------------------------------------------
(* Properties.                                                              *)

\* Rows and transactions are well formed, tokens are unique, the table of pending
\* SSO transactions never exceeds its limit (sso.py start), and runtime.lock is held
\* exactly while a login is on its way.
TypeOK ==
    /\ now \in 0 .. MaxTime /\ account.password \in Passwords
    /\ \A s \in sessions :
         /\ s.id \in 1 .. started.session /\ s.auth \in {"local", "entra"}
         /\ \A r \in sessions : r.id = s.id => r = s
    /\ Cardinality(transactions) <= MaxPending
    /\ \A b \in Browsers : cookie[b] \in 0 .. MaxSessions /\ flow[b] \in 0 .. MaxFlows
    /\ LET logins == {t \in Threads : thread[t].pc \in {"verify", "count", "replace", "create"}}
       IN  Cardinality(logins) = IF lock THEN 1 ELSE 0

\* The login limit holds however requests interleave, time passes between reading
\* and writing the counter, and the console restarts: in no period of LockFor are
\* more than MaxFailures wrong passwords answered, unless a right one came between:
\* of MaxFailures + 1 in a row, the last comes LockFor after the first or later
\* (app.py login under runtime.lock, store.py login_attempt).
GuessesBounded ==
    \A i \in DOMAIN wrong :
      i + MaxFailures \in DOMAIN wrong => wrong[i] + LockFor <= wrong[i + MaxFailures]

\* Changing the password ends what rests on the old one ("changing it revokes all
\* sessions", docs/en/console.md): every local session was opened with the current
\* password.  The exception is a login that had verified the old password when it
\* changed, because /password does not take runtime.lock.
SessionsFollowPassword ==
    \A s \in sessions : s.auth = "local" => s.version = account.version \/ s.overtaken

\* An SSO transaction makes at most one session, however often and in how many
\* threads its callback is called, and the session goes to the browser that began it
\* ("Browser-bound, single-use SSO transactions", sso.py).
SignInUsedOnce ==
    \A i \in signedIn :
      /\ i.browser = i.starter
      /\ \A j \in signedIn : i.state = j.state => i = j
=============================================================================
