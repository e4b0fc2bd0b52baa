---------------------------- MODULE ConsoleProofs ----------------------------
(***************************************************************************)
(* What the console guarantees.  First, who may sign in: the login limit,   *)
(* the sessions a password change ends and the single use of an SSO         *)
(* transaction, for every number of threads and browsers and all limits and *)
(* lifetimes.  Then what an administrator changes (Operations): settings,   *)
(* their activation and what is published, for all routes, secrets and      *)
(* bounds.                                                                  *)
(*                                                                         *)
(* Of the first three, guesses rest on runtime.lock, which keeps other      *)
(* logins out from the check of the counter to its update; sessions on the  *)
(* one transaction that changes the password; transactions on being taken   *)
(* out of the table before their code is exchanged.                         *)
(***************************************************************************)
EXTENDS ConsoleAuth, Operations, SequenceTheorems, FiniteSetTheorems, TLAPS

Rows ==
    [id : Nat, auth : {"local", "entra"}, expires : Nat, version : Nat, overtaken : BOOLEAN]
Pending == [state : Nat, browser : Browsers, expires : Nat]
SignIns == [session : Nat, state : Nat, browser : Browsers, starter : Browsers]

\* What a thread keeps while it runs a handler.
Verifying == [pc : {"verify"}, b : Browsers, token : Nat, password : Passwords]
Verified ==
    [pc : {"count", "replace", "create"}, b : Browsers, token : Nat, valid : BOOLEAN,
     version : Nat, overtaken : BOOLEAN]
LoggingOut == [pc : {"logout"}, b : Browsers, token : Nat]
Changing == [pc : {"change"}, b : Browsers, current : Passwords, new : Passwords]
Exchanging ==
    [pc : {"exchange"}, b : Browsers, token : Nat, state : Nat, starter : Browsers]
SigningIn ==
    [pc : {"switch", "signin"}, b : Browsers, token : Nat, state : Nat, starter : Browsers,
     expires : Nat]
Handlers ==
    {Idle} \cup Verifying \cup Verified \cup LoggingOut \cup Changing \cup Exchanging
           \cup SigningIn

Typed ==
    /\ now \in Nat /\ lock \in BOOLEAN
    /\ account \in [password : Passwords, version : Nat]
    /\ attempts \in [failures : Nat, until : Nat]
    /\ started \in [session : Nat, flow : Nat]
    /\ sessions \subseteq Rows /\ transactions \subseteq Pending /\ signedIn \subseteq SignIns
    /\ cookie \in [Browsers -> Nat] /\ flow \in [Browsers -> Nat]
    /\ thread \in [Threads -> Handlers]
    /\ wrong \in Seq(Nat)

-----------------------------------------------------------------------------
(* Local login.                                                             *)

LoggingIn(t) == thread[t].pc \in {"verify", "count", "replace", "create"}

\* runtime.lock
OneLogin ==
    /\ \A t \in Threads : LoggingIn(t) => lock
    /\ \A t, u \in Threads : LoggingIn(t) /\ LoggingIn(u) => t = u

\* The limit was not reached when a login began, and it still is not when the login
\* counts: time may have passed, but nobody else has counted.
StillOpen ==
    \A t \in Threads : thread[t].pc \in {"verify", "count"} =>
      attempts.failures < MaxFailures \/ attempts.until <= now

\* The wrong passwords that count are the last ones; those before ended LockFor or
\* longer before the first that counts.  So the limit has held, and holds for the next.
Counted ==
    LET n == Len(wrong)
        f == attempts.failures
    IN  /\ f <= n /\ f <= MaxFailures /\ (n > 0 => f > 0)
        /\ n > 0 => wrong[n] + LockFor = attempts.until
        /\ \A i \in 1 .. n : wrong[i] <= now
        /\ \A i, j \in 1 .. n : i <= j => wrong[i] <= wrong[j]
        /\ \A i \in 1 .. n : i <= n - f => wrong[i] + LockFor <= wrong[n - f + 1]
        /\ GuessesBounded

\* Logins past the check of their password.
LoginsFollowPassword ==
    \A t \in Threads : thread[t].pc \in {"count", "replace", "create"} =>
      thread[t].version = account.version \/ thread[t].overtaken

-----------------------------------------------------------------------------
(* SSO.                                                                     *)

InFlight(t) == thread[t].pc \in {"exchange", "switch", "signin"}

\* A state is handed out once, and is pending, being exchanged or used.
StatesAreUsed ==
    /\ \A x \in transactions : x.state \in 1 .. started.flow
    /\ \A t \in Threads : InFlight(t) => thread[t].state \in 1 .. started.flow
    /\ \A i \in signedIn : i.state \in 1 .. started.flow

StatesAreDistinct ==
    /\ \A x, y \in transactions : x.state = y.state => x = y
    /\ \A t, u \in Threads : InFlight(t) /\ InFlight(u) /\ thread[t].state = thread[u].state => t = u
    /\ \A t \in Threads : InFlight(t) =>
         /\ \A x \in transactions : x.state # thread[t].state
         /\ \A i \in signedIn : i.state # thread[t].state
    /\ \A i \in signedIn, x \in transactions : x.state # i.state

\* The binding of a browser is that of a transaction it began.
BoundToBrowser ==
    /\ \A b \in Browsers : flow[b] \in 0 .. started.flow
    /\ \A x \in transactions, b \in Browsers : flow[b] = x.state => x.browser = b
    /\ \A t \in Threads : InFlight(t) => thread[t].b = thread[t].starter

Limits == OneLogin /\ StillOpen /\ Counted
Revoked == LoginsFollowPassword /\ SessionsFollowPassword
SingleUse == StatesAreUsed /\ StatesAreDistinct /\ BoundToBrowser /\ SignInUsedOnce

IInv == Typed /\ Limits /\ Revoked /\ SingleUse

-----------------------------------------------------------------------------
(* Threads and their handlers.                                              *)

\* The step of a handler tells what its thread keeps.
LEMMA HandlerKinds ==
    ASSUME NEW r \in Handlers
    PROVE  /\ r.pc = "verify" => r \in Verifying
           /\ r.pc \in {"count", "replace", "create"} => r \in Verified
           /\ r.pc = "logout" => r \in LoggingOut
           /\ r.pc = "change" => r \in Changing
           /\ r.pc = "exchange" => r \in Exchanging
           /\ r.pc \in {"switch", "signin"} => r \in SigningIn
<1>1. CASE r = Idle
  BY <1>1 DEF Idle
<1>2. CASE r \in Verifying
  BY <1>2 DEF Verifying
<1>3. CASE r \in Verified
  BY <1>3 DEF Verified
<1>4. CASE r \in LoggingOut
  BY <1>4 DEF LoggingOut
<1>5. CASE r \in Changing
  BY <1>5 DEF Changing
<1>6. CASE r \in Exchanging
  BY <1>6 DEF Exchanging
<1>7. CASE r \in SigningIn
  BY <1>7 DEF SigningIn
<1> QED
  BY <1>1, <1>2, <1>3, <1>4, <1>5, <1>6, <1>7 DEF Handlers

\* A step of one thread leaves the others where they are.
LEMMA OneThread ==
    ASSUME Typed, NEW t \in Threads, NEW r, Become(t, r)
    PROVE  /\ thread'[t] = r
           /\ \A u \in Threads : u # t => thread'[u] = thread[u]
           /\ r \in Handlers => thread' \in [Threads -> Handlers]
  BY DEF Typed, Become

-----------------------------------------------------------------------------
(* Types.                                                                   *)

\* The steps of a login.
LEMMA TypedLogin ==
    ASSUME LimitAssumption, Typed, NEW t \in Threads,
           \/ \E b \in Browsers, p \in Passwords : LoginBegin(t, b, p)
           \/ LoginVerify(t) \/ LoginCount(t) \/ LoginReplace(t) \/ LoginCreate(t)
    PROVE  Typed'
<1>1. ASSUME NEW b \in Browsers, NEW p \in Passwords, LoginBegin(t, b, p) PROVE Typed'
  <2>1. [pc |-> "verify", b |-> b, token |-> cookie[b], password |-> p] \in Handlers
    BY DEF Typed, Handlers, Verifying
  <2>2. thread' \in [Threads -> Handlers]
    BY <1>1, <2>1, OneThread DEF LoginBegin
  <2> QED
    BY <1>1, <2>2 DEF LoginBegin, Typed
<1>2. CASE LoginVerify(t)
  <2>1. thread[t] \in Verifying
    BY <1>2, HandlerKinds DEF Typed, LoginVerify, At
  <2>2. [pc |-> "count", b |-> thread[t].b, token |-> thread[t].token,
         valid |-> thread[t].password = account.password,
         version |-> account.version, overtaken |-> FALSE] \in Handlers
    BY <2>1 DEF Typed, Handlers, Verifying, Verified
  <2>3. thread' \in [Threads -> Handlers]
    BY <1>2, <2>2, OneThread DEF LoginVerify
  <2> QED
    BY <1>2, <2>3 DEF LoginVerify, Typed
<1>3. CASE LoginCount(t)
  <2>1. thread[t] \in Verified
    BY <1>3, HandlerKinds DEF Typed, LoginCount, At
  <2>2. [thread[t] EXCEPT !.pc = "replace"] \in Handlers /\ Idle \in Handlers
    BY <2>1 DEF Handlers, Verified
  <2>3. thread' \in [Threads -> Handlers]
    BY <1>3, <2>2, OneThread DEF LoginCount
  <2>4. attempts' \in [failures : Nat, until : Nat]
    <3>1. attempts.failures \in Nat /\ now + LockFor \in Nat
      BY DEF Typed, LimitAssumption
    <3>2. \/ attempts' = [failures |-> 0, until |-> 0]
          \/ attempts' = [failures |-> attempts.failures + 1, until |-> now + LockFor]
          \/ attempts' = [failures |-> 1, until |-> now + LockFor]
      BY <1>3 DEF LoginCount
    <3> QED
      BY <3>1, <3>2
  <2>5. wrong' \in Seq(Nat) /\ lock' \in BOOLEAN
    <3>1. wrong \in Seq(Nat) /\ now \in Nat /\ lock \in BOOLEAN
      BY DEF Typed
    <3>2. /\ wrong' = <<>> \/ wrong' = Append(wrong, now)
          /\ lock' = lock \/ lock' = FALSE
      BY <1>3 DEF LoginCount
    <3>3. <<>> \in Seq(Nat) /\ Append(wrong, now) \in Seq(Nat)
      BY <3>1
    <3> QED
      BY <3>1, <3>2, <3>3
  <2> QED
    BY <1>3, <2>3, <2>4, <2>5 DEF LoginCount, Typed
<1>4. CASE LoginReplace(t)
  <2>1. thread[t] \in Verified
    BY <1>4, HandlerKinds DEF Typed, LoginReplace, At
  <2>2. [thread[t] EXCEPT !.pc = "create"] \in Handlers
    BY <2>1 DEF Handlers, Verified
  <2>3. thread' \in [Threads -> Handlers]
    BY <1>4, <2>2, OneThread DEF LoginReplace
  <2> QED
    BY <1>4, <2>3 DEF LoginReplace, Typed
<1>5. CASE LoginCreate(t)
  <2>1. thread[t] \in Verified
    BY <1>5, HandlerKinds DEF Typed, LoginCreate, At
  <2>2. thread' \in [Threads -> Handlers]
    BY <1>5, OneThread DEF LoginCreate, Handlers
  <2>3. [id |-> started.session + 1, auth |-> "local", expires |-> now + SessionTtl,
         version |-> thread[t].version, overtaken |-> thread[t].overtaken] \in Rows
    BY <2>1 DEF Typed, Verified, Rows, LimitAssumption
  <2>4. sessions' \subseteq Rows
    BY <1>5, <2>3 DEF LoginCreate, Added, Typed
  <2>5. started' \in [session : Nat, flow : Nat]
    <3>1. started' = [started EXCEPT !.session = started.session + 1]
      BY <1>5 DEF LoginCreate
    <3>2. started \in [session : Nat, flow : Nat]
      BY DEF Typed
    <3> QED
      BY <3>1, <3>2
  <2>6. cookie' \in [Browsers -> Nat]
    <3>1. started.session + 1 \in Nat
      BY DEF Typed
    <3> QED
      BY <1>5, <3>1 DEF LoginCreate, Typed
  <2> QED
    BY <1>5, <2>2, <2>4, <2>5, <2>6 DEF LoginCreate, Typed
<1> QED
  BY <1>1, <1>2, <1>3, <1>4, <1>5

\* Logging out and changing the password.
LEMMA TypedSession ==
    ASSUME Typed, NEW t \in Threads,
           \/ \E b \in Browsers : LogoutBegin(t, b)
           \/ Logout(t)
           \/ \E b \in Browsers, p, q \in Passwords : PasswordBegin(t, b, p, q)
           \/ Password(t)
    PROVE  Typed'
<1>1. ASSUME NEW b \in Browsers, LogoutBegin(t, b) PROVE Typed'
  <2>1. [pc |-> "logout", b |-> b, token |-> cookie[b]] \in Handlers
    BY DEF Typed, Handlers, LoggingOut
  <2>2. thread' \in [Threads -> Handlers]
    BY <1>1, <2>1, OneThread DEF LogoutBegin
  <2> QED
    BY <1>1, <2>2 DEF LogoutBegin, Typed
<1>2. CASE Logout(t)
  <2>1. thread' \in [Threads -> Handlers]
    BY <1>2, OneThread DEF Logout, Handlers
  <2>2. sessions' \subseteq Rows /\ cookie' \in [Browsers -> Nat]
    BY <1>2 DEF Logout, Typed
  <2> QED
    BY <1>2, <2>1, <2>2 DEF Logout, Typed
<1>3. ASSUME NEW b \in Browsers, NEW p \in Passwords, NEW q \in Passwords,
             PasswordBegin(t, b, p, q)
      PROVE  Typed'
  <2>1. [pc |-> "change", b |-> b, current |-> p, new |-> q] \in Handlers
    BY DEF Handlers, Changing
  <2>2. thread' \in [Threads -> Handlers]
    BY <1>3, <2>1, OneThread DEF PasswordBegin
  <2> QED
    BY <1>3, <2>2 DEF PasswordBegin, Typed
<1>4. CASE Password(t) /\ thread[t].current # account.password
  <2>1. thread' \in [Threads -> Handlers]
    BY <1>4, OneThread DEF Password, Handlers
  <2> QED
    BY <1>4, <2>1 DEF Password, Typed
<1>5. CASE Password(t) /\ thread[t].current = account.password
  <2>1. thread[t] \in Changing
    BY <1>5, HandlerKinds DEF Typed, Password, At
  <2>2. ASSUME NEW u \in Threads PROVE Overtaken[u] \in Handlers
    <3>1. CASE thread[u].pc \in {"count", "replace", "create"}
      <4>1. thread[u] \in Verified
        BY <3>1, HandlerKinds DEF Typed
      <4>2. [thread[u] EXCEPT !.overtaken = TRUE] \in Verified
        BY <4>1 DEF Verified
      <4> QED
        BY <3>1, <4>2 DEF Overtaken, Handlers
    <3>2. CASE thread[u].pc \notin {"count", "replace", "create"}
      BY <3>2 DEF Overtaken, Typed
    <3> QED
      BY <3>1, <3>2
  <2>3. Overtaken \in [Threads -> Handlers]
    BY <2>2 DEF Overtaken
  <2>4. thread' \in [Threads -> Handlers]
    BY <1>5, <2>3 DEF Password, Handlers
  <2>5. account' \in [password : Passwords, version : Nat]
    BY <1>5, <2>1 DEF Password, Typed, Changing
  <2>6. sessions' \subseteq Rows /\ cookie' \in [Browsers -> Nat]
    BY <1>5 DEF Password, Typed
  <2> QED
    BY <1>5, <2>4, <2>5, <2>6 DEF Password, Typed
<1> QED
  BY <1>1, <1>2, <1>3, <1>4, <1>5

\* The steps of an SSO callback.
LEMMA TypedCallback ==
    ASSUME LimitAssumption, Typed, NEW t \in Threads,
           \/ \E b \in Browsers, x \in transactions : CallbackBegin(t, b, x)
           \/ Exchange(t) \/ SignInReplace(t) \/ SignIn(t)
    PROVE  Typed'
<1>1. ASSUME NEW b \in Browsers, NEW x \in transactions, CallbackBegin(t, b, x) PROVE Typed'
  <2>1. x \in Pending
    BY DEF Typed
  <2>2. [pc |-> "exchange", b |-> b, token |-> cookie[b], state |-> x.state,
         starter |-> x.browser] \in Handlers
    BY <2>1 DEF Typed, Handlers, Exchanging, Pending
  <2>3. thread' \in [Threads -> Handlers]
    BY <1>1, <2>2, OneThread DEF CallbackBegin
  <2> QED
    BY <1>1, <2>3 DEF CallbackBegin, Typed
<1>2. CASE Exchange(t)
  <2>1. thread[t] \in Exchanging
    BY <1>2, HandlerKinds DEF Typed, Exchange, At
  <2>2. ASSUME NEW ttl \in TokenTtl
        PROVE  [pc |-> "switch", b |-> thread[t].b, token |-> thread[t].token,
                state |-> thread[t].state, starter |-> thread[t].starter,
                expires |-> now + ttl] \in Handlers
    <3>1. now + ttl \in Nat
      BY DEF Typed, LimitAssumption
    <3> QED
      BY <2>1, <3>1 DEF Handlers, Exchanging, SigningIn
  <2>3. Idle \in Handlers
    BY DEF Handlers
  <2>4. thread' \in [Threads -> Handlers]
    BY <1>2, <2>2, <2>3, OneThread DEF Exchange
  <2>5. flow' \in [Browsers -> Nat]
    BY <1>2 DEF Exchange, Typed
  <2> QED
    BY <1>2, <2>4, <2>5 DEF Exchange, Typed
<1>3. CASE SignInReplace(t)
  <2>1. thread[t] \in SigningIn
    BY <1>3, HandlerKinds DEF Typed, SignInReplace, At
  <2>2. [thread[t] EXCEPT !.pc = "signin"] \in Handlers
    BY <2>1 DEF Handlers, SigningIn
  <2>3. thread' \in [Threads -> Handlers]
    BY <1>3, <2>2, OneThread DEF SignInReplace
  <2> QED
    BY <1>3, <2>3 DEF SignInReplace, Typed
<1>4. CASE SignIn(t)
  <2>1. thread[t] \in SigningIn
    BY <1>4, HandlerKinds DEF Typed, SignIn, At
  <2>2. thread' \in [Threads -> Handlers]
    BY <1>4, OneThread DEF SignIn, Handlers
  <2>3. [id |-> started.session + 1, auth |-> "entra",
         expires |-> now + Remaining(thread[t].expires),
         version |-> account.version, overtaken |-> FALSE] \in Rows
    <3>1. Remaining(thread[t].expires) \in Nat
      BY <2>1 DEF Typed, SigningIn, Remaining
    <3> QED
      BY <3>1 DEF Typed, Rows
  <2>4. sessions' \subseteq Rows
    BY <1>4, <2>3 DEF SignIn, Added, Typed
  <2>5. [session |-> started.session + 1, state |-> thread[t].state,
         browser |-> thread[t].b, starter |-> thread[t].starter] \in SignIns
    BY <2>1 DEF Typed, SigningIn, SignIns
  <2>6. signedIn' \subseteq SignIns
    BY <1>4, <2>5 DEF SignIn, Typed
  <2>7. started' \in [session : Nat, flow : Nat]
    <3>1. started' = [started EXCEPT !.session = started.session + 1]
      BY <1>4 DEF SignIn
    <3>2. started \in [session : Nat, flow : Nat]
      BY DEF Typed
    <3> QED
      BY <3>1, <3>2
  <2>8. cookie' \in [Browsers -> Nat] /\ flow' \in [Browsers -> Nat]
    <3>1. started.session + 1 \in Nat
      BY DEF Typed
    <3> QED
      BY <1>4, <3>1 DEF SignIn, Typed
  <2> QED
    BY <1>4, <2>2, <2>4, <2>6, <2>7, <2>8 DEF SignIn, Typed
<1> QED
  BY <1>1, <1>2, <1>3, <1>4

\* All steps.
LEMMA TypedStep ==
    ASSUME LimitAssumption, Typed, Next
    PROVE  Typed'
<1>1. CASE Tick
  BY <1>1 DEF Tick, Typed
<1>2. CASE Restart
  BY <1>2 DEF Restart, Typed, Handlers
<1>3. ASSUME NEW b \in Browsers, Start(b) PROVE Typed'
  <2>1. [state |-> started.flow + 1, browser |-> b, expires |-> now + FlowTtl] \in Pending
    BY DEF Typed, Pending, LimitAssumption
  <2>2. transactions' \subseteq Pending
    BY <1>3, <2>1 DEF Start, Typed
  <2>3. started' \in [session : Nat, flow : Nat] /\ flow' \in [Browsers -> Nat]
    BY <1>3 DEF Start, Typed
  <2> QED
    BY <1>3, <2>2, <2>3 DEF Start, Typed
<1> QED
  BY <1>1, <1>2, <1>3, TypedLogin, TypedSession, TypedCallback DEF Next

-----------------------------------------------------------------------------
(* What the handlers leave their threads with.                              *)

\* Handlers that start, other than a login.
LEMMA BeginThreads ==
    ASSUME Typed, NEW t \in Threads, NEW b \in Browsers,
           \/ LogoutBegin(t, b)
           \/ \E p, q \in Passwords : PasswordBegin(t, b, p, q)
           \/ \E x \in transactions : CallbackBegin(t, b, x)
    PROVE  /\ thread'[t].pc \in {"logout", "change", "exchange"}
           /\ \A u \in Threads : u # t => thread'[u] = thread[u]
<1>1. CASE LogoutBegin(t, b)
  BY <1>1, OneThread DEF LogoutBegin
<1>2. CASE \E p, q \in Passwords : PasswordBegin(t, b, p, q)
  BY <1>2, OneThread DEF PasswordBegin
<1>3. CASE \E x \in transactions : CallbackBegin(t, b, x)
  BY <1>3, OneThread DEF CallbackBegin
<1> QED
  BY <1>1, <1>2, <1>3

\* Handlers end, or carry their transaction to the next step.
LEMMA EndThreads ==
    ASSUME Typed, NEW t \in Threads, Logout(t) \/ Exchange(t) \/ SignInReplace(t) \/ SignIn(t)
    PROVE  /\ \/ thread'[t].pc = "idle"
              \/ /\ thread[t].pc \in {"exchange", "switch"}
                 /\ thread'[t].pc \in {"switch", "signin"}
                 /\ thread'[t].state = thread[t].state
                 /\ thread'[t].b = thread[t].b /\ thread'[t].starter = thread[t].starter
           /\ \A u \in Threads : u # t => thread'[u] = thread[u]
<1>1. CASE Logout(t)
  BY <1>1, OneThread DEF Logout, Idle
<1>2. CASE Exchange(t)
  <2>1. CASE Become(t, Idle)
    BY <2>1, OneThread DEF Idle
  <2>2. CASE ~Become(t, Idle)
    <3>1. PICK ttl \in TokenTtl :
            Become(t, [pc |-> "switch", b |-> thread[t].b, token |-> thread[t].token,
                       state |-> thread[t].state, starter |-> thread[t].starter,
                       expires |-> now + ttl])
      BY <1>2, <2>2 DEF Exchange
    <3> QED
      BY <1>2, <3>1, OneThread DEF Exchange, At
  <2> QED
    BY <2>1, <2>2
<1>3. CASE SignInReplace(t)
  <2>1. thread[t] \in SigningIn
    BY <1>3, HandlerKinds DEF SignInReplace, At, Typed
  <2> QED
    BY <1>3, <2>1, OneThread DEF SignInReplace, At, SigningIn
<1>4. CASE SignIn(t)
  BY <1>4, OneThread DEF SignIn, Idle
<1> QED
  BY <1>1, <1>2, <1>3, <1>4

\* A password change marks the logins that had passed the check of the old one.
LEMMA PasswordThreads ==
    ASSUME Typed, NEW t \in Threads, Password(t)
    PROVE  /\ thread'[t] = Idle /\ thread'[t].pc = "idle"
           /\ \A u \in Threads : u # t =>
                /\ thread'[u].pc = thread[u].pc
                /\ (thread[u].pc \in {"count", "replace", "create"} /\ account' # account) =>
                     thread'[u].overtaken
                /\ thread[u].pc \notin {"count", "replace", "create"} => thread'[u] = thread[u]
                /\ account' = account => thread'[u] = thread[u]
<1>1. CASE thread[t].current # account.password
  <2>1. Become(t, Idle) /\ account' = account
    BY <1>1 DEF Password
  <2> QED
    BY <2>1, OneThread DEF Idle
<1>2. CASE thread[t].current = account.password
  <2>1. /\ account' = [password |-> thread[t].new, version |-> account.version + 1]
        /\ thread' = [Overtaken EXCEPT ![t] = Idle]
    BY <1>2 DEF Password
  <2>2. account' # account
    BY <2>1 DEF Typed
  <2>3. ASSUME NEW u \in Threads, u # t
        PROVE  /\ thread'[u].pc = thread[u].pc
               /\ thread[u].pc \in {"count", "replace", "create"} => thread'[u].overtaken
               /\ thread[u].pc \notin {"count", "replace", "create"} => thread'[u] = thread[u]
    <3>1. thread'[u] = Overtaken[u]
      BY <2>1, <2>3 DEF Overtaken
    <3>2. CASE thread[u].pc \in {"count", "replace", "create"}
      <4>1. thread[u] \in Verified
        BY <3>2, HandlerKinds DEF Typed
      <4> QED
        BY <3>1, <3>2, <4>1 DEF Overtaken, Verified
    <3>3. CASE thread[u].pc \notin {"count", "replace", "create"}
      BY <3>1, <3>3 DEF Overtaken
    <3> QED
      BY <3>2, <3>3
  <2>4. thread'[t] = Idle
    BY <2>1 DEF Overtaken
  <2> QED
    BY <2>2, <2>3, <2>4 DEF Idle
<1> QED
  BY <1>1, <1>2

\* A login carries no transaction.
LEMMA LoginThreads ==
    ASSUME Typed, NEW t \in Threads,
           LoginVerify(t) \/ LoginCount(t) \/ LoginReplace(t) \/ LoginCreate(t)
    PROVE  ~InFlight(t)' /\ \A u \in Threads : u # t => thread'[u] = thread[u]
<1>1. CASE LoginVerify(t)
  BY <1>1, OneThread DEF LoginVerify, InFlight
<1>2. CASE LoginCount(t) \/ LoginReplace(t)
  <2>1. thread[t] \in Verified
    BY <1>2, HandlerKinds DEF LoginCount, LoginReplace, At, Typed
  <2>2. CASE LoginCount(t)
    BY <2>1, <2>2, OneThread DEF LoginCount, InFlight, Idle, Verified
  <2>3. CASE LoginReplace(t)
    BY <2>1, <2>3, OneThread DEF LoginReplace, InFlight, Verified
  <2> QED
    BY <1>2, <2>2, <2>3
<1>3. CASE LoginCreate(t)
  BY <1>3, OneThread DEF LoginCreate, InFlight, Idle
<1> QED
  BY <1>1, <1>2, <1>3


-----------------------------------------------------------------------------
(* The login limit.                                                         *)

\* Whatever does not log in leaves the limit alone.
LEMMA LimitsKept ==
    ASSUME Limits, UNCHANGED <<now, attempts, lock, wrong>>,
           \A u \in Threads : thread'[u] = thread[u] \/ ~LoggingIn(u)'
    PROVE  Limits'
<1>1. \A u \in Threads : LoggingIn(u)' => LoggingIn(u) /\ thread'[u].pc = thread[u].pc
  BY DEF LoggingIn
<1>2. OneLogin'
  BY <1>1 DEF Limits, OneLogin
<1>3. StillOpen'
  BY DEF Limits, StillOpen, LoggingIn
<1>4. Counted'
  BY DEF Limits, Counted, GuessesBounded
<1> QED
  BY <1>2, <1>3, <1>4 DEF Limits

\* A wrong password: nobody else counts between the check of the limit and this.
LEMMA WrongCounted ==
    ASSUME LimitAssumption, Typed, Limits, NEW t \in Threads, LoginCount(t), ~thread[t].valid
    PROVE  Counted'
<1> DEFINE n == Len(wrong)
           f == attempts.failures
<1>1. /\ n \in Nat /\ f \in Nat /\ now \in Nat /\ attempts.until \in Nat
      /\ LockFor \in Nat /\ LockFor > 0 /\ MaxFailures \in Nat /\ MaxFailures > 0
      /\ \A i \in 1 .. n : wrong[i] \in Nat
  BY DEF Typed, LimitAssumption
<1>2. /\ wrong' = Append(wrong, now) /\ now' = now
      /\ attempts' = [failures |-> IF attempts.until > now THEN f + 1 ELSE 1,
                      until |-> now + LockFor]
  BY DEF LoginCount
<1>3. /\ Len(wrong') = n + 1 /\ wrong'[n + 1] = now
      /\ DOMAIN wrong = 1 .. n /\ DOMAIN wrong' = 1 .. n + 1
      /\ \A i \in 1 .. n : wrong'[i] = wrong[i]
  BY <1>2 DEF Typed
<1>4. /\ f <= n /\ f <= MaxFailures /\ (n > 0 => f > 0)
      /\ n > 0 => wrong[n] + LockFor = attempts.until
      /\ \A i \in 1 .. n : wrong[i] <= now
      /\ \A i, j \in 1 .. n : i <= j => wrong[i] <= wrong[j]
      /\ \A i \in 1 .. n : i <= n - f => wrong[i] + LockFor <= wrong[n - f + 1]
  BY DEF Limits, Counted
<1>5. f < MaxFailures \/ attempts.until <= now
  BY DEF Limits, StillOpen, LoginCount, At
<1> DEFINE g == attempts'.failures
<1>6. g = (IF attempts.until > now THEN f + 1 ELSE 1) /\ attempts'.until = now + LockFor
  BY <1>2
<1> HIDE DEF n, f, g
<1>7. g \in Nat /\ g <= n + 1 /\ g <= MaxFailures /\ g > 0
  BY <1>1, <1>4, <1>5, <1>6
<1>8. wrong'[n + 1] + LockFor = attempts'.until
  BY <1>3, <1>6
<1>9. \A i \in 1 .. n + 1 : wrong'[i] <= now
  BY <1>1, <1>3, <1>4
<1>10. \A i, j \in 1 .. n + 1 : i <= j => wrong'[i] <= wrong'[j]
  BY <1>1, <1>3, <1>4
<1>11. ASSUME NEW i \in 1 .. n + 1, i <= n + 1 - g
       PROVE  wrong'[i] + LockFor <= wrong'[n + 1 - g + 1]
  <2>1. CASE attempts.until > now
    <3>1. g = f + 1 /\ i \in 1 .. n /\ i <= n - f
      BY <1>1, <1>4, <1>6, <1>11, <2>1
    <3>2. f > 0 /\ n - f + 1 \in 1 .. n
      BY <1>1, <1>4, <3>1
    <3> QED
      BY <1>1, <1>3, <1>4, <3>1, <3>2
  <2>2. CASE ~(attempts.until > now)
    <3>1. g = 1 /\ i \in 1 .. n
      BY <1>1, <1>6, <1>11, <2>2
    <3>2. wrong[i] <= wrong[n] /\ wrong[n] + LockFor <= now
      BY <1>1, <1>4, <2>2, <3>1
    <3> QED
      BY <1>1, <1>3, <3>1, <3>2
  <2> QED
    BY <2>1, <2>2
<1>12. GuessesBounded'
  <2> SUFFICES ASSUME NEW i \in 1 .. n + 1, i + MaxFailures \in 1 .. n + 1
               PROVE  wrong'[i] + LockFor <= wrong'[i + MaxFailures]
    BY <1>3 DEF GuessesBounded
  <2>1. CASE i + MaxFailures \in 1 .. n
    <3>1. i \in 1 .. n
      BY <1>1, <2>1
    <3>2. wrong[i] + LockFor <= wrong[i + MaxFailures]
      BY <1>3, <2>1, <3>1 DEF Limits, Counted, GuessesBounded
    <3> QED
      BY <1>3, <2>1, <3>1, <3>2
  <2>2. CASE i + MaxFailures = n + 1
    <3>1. i <= n + 1 - g /\ n + 1 - g + 1 \in 1 .. n + 1
      BY <1>1, <1>7, <2>2
    <3>2. wrong'[i] + LockFor <= wrong'[n + 1 - g + 1]
      BY <1>11, <3>1
    <3>3. wrong'[n + 1 - g + 1] <= wrong'[n + 1]
      BY <1>1, <1>7, <1>10, <3>1
    <3>4. wrong'[i] \in Nat /\ wrong'[n + 1 - g + 1] \in Nat /\ wrong'[n + 1] \in Nat
      BY <1>1, <1>3, <3>1
    <3> QED
      BY <1>1, <2>2, <3>2, <3>3, <3>4
  <2> QED
    BY <1>1, <2>1, <2>2
<1>13. Len(wrong') = n + 1 /\ attempts'.failures = g /\ now' = now
  BY <1>2, <1>3 DEF g
<1> QED
  BY <1>1, <1>7, <1>8, <1>9, <1>10, <1>11, <1>13, <1>12 DEF Counted

\* The limit holds after every step.
LEMMA LimitsStep ==
    ASSUME LimitAssumption, Typed, Limits, Next
    PROVE  Limits'
<1>1. CASE Tick
  <2>1. now \in Nat /\ now' = now + 1 /\ UNCHANGED <<attempts, lock, thread, wrong>>
    BY <1>1 DEF Tick, Typed
  <2>2. OneLogin'
    BY <2>1 DEF Limits, OneLogin, LoggingIn
  <2>3. StillOpen'
    BY <2>1 DEF Limits, StillOpen, Typed
  <2>4. Counted'
    <3>1. \A i \in 1 .. Len(wrong) : wrong[i] \in Nat
      BY DEF Typed
    <3> QED
      BY <2>1, <3>1 DEF Limits, Counted, GuessesBounded
  <2> QED
    BY <2>2, <2>3, <2>4 DEF Limits
<1>2. CASE Restart
  <2>1. \A u \in Threads : thread'[u].pc = "idle"
    BY <1>2 DEF Restart, Idle
  <2>2. OneLogin' /\ StillOpen'
    BY <2>1 DEF OneLogin, StillOpen, LoggingIn
  <2>3. Counted'
    BY <1>2 DEF Restart, Limits, Counted, GuessesBounded
  <2> QED
    BY <2>2, <2>3 DEF Limits
<1>3. ASSUME NEW b \in Browsers, Start(b) PROVE Limits'
  BY <1>3, LimitsKept DEF Start
<1>4. ASSUME NEW t \in Threads, NEW b \in Browsers, NEW p \in Passwords, LoginBegin(t, b, p)
      PROVE  Limits'
  <2>1. ~Locked /\ ~lock /\ lock' /\ UNCHANGED <<now, attempts, wrong>>
    BY <1>4 DEF LoginBegin
  <2>2. /\ thread'[t].pc = "verify"
        /\ \A u \in Threads : u # t => thread'[u] = thread[u]
    BY <1>4, OneThread DEF LoginBegin
  <2>3. \A u \in Threads : ~LoggingIn(u)
    BY <2>1 DEF Limits, OneLogin
  <2>4. OneLogin'
    BY <2>1, <2>2, <2>3 DEF OneLogin, LoggingIn
  <2>5. StillOpen'
    BY <2>1, <2>2, <2>3 DEF StillOpen, LoggingIn, Locked, Typed, LimitAssumption
  <2>6. Counted'
    BY <2>1 DEF Limits, Counted, GuessesBounded
  <2> QED
    BY <2>4, <2>5, <2>6 DEF Limits
<1>5. ASSUME NEW t \in Threads, LoginVerify(t) \/ LoginReplace(t) PROVE Limits'
  <2>1. thread[t] \in Handlers /\ LoggingIn(t) /\ UNCHANGED <<now, attempts, lock, wrong>>
    BY <1>5 DEF LoginVerify, LoginReplace, At, LoggingIn, Typed
  <2>2. /\ \/ thread[t].pc = "verify" /\ thread'[t].pc = "count"
           \/ thread[t].pc = "replace" /\ thread'[t].pc = "create"
        /\ \A u \in Threads : u # t => thread'[u] = thread[u]
    <3>1. CASE LoginVerify(t)
      BY <3>1, OneThread DEF LoginVerify, At
    <3>2. CASE LoginReplace(t)
      <4>1. thread[t] \in Verified
        BY <2>1, <3>2, HandlerKinds DEF LoginReplace, At
      <4> QED
        BY <3>2, <4>1, OneThread DEF LoginReplace, At, Verified
    <3> QED
      BY <1>5, <3>1, <3>2
  <2>3. OneLogin'
    BY <2>1, <2>2 DEF Limits, OneLogin, LoggingIn
  <2>4. StillOpen'
    BY <2>1, <2>2 DEF Limits, StillOpen
  <2>5. Counted'
    BY <2>1 DEF Limits, Counted, GuessesBounded
  <2> QED
    BY <2>3, <2>4, <2>5 DEF Limits
<1>6. ASSUME NEW t \in Threads, LoginCount(t), thread[t].valid PROVE Limits'
  <2>1. thread[t] \in Verified /\ thread[t].pc = "count"
    BY <1>6, HandlerKinds DEF LoginCount, At, Typed
  <2>2. /\ thread'[t].pc = "replace" /\ \A u \in Threads : u # t => thread'[u] = thread[u]
        /\ attempts' = [failures |-> 0, until |-> 0] /\ wrong' = <<>>
        /\ lock' = lock /\ now' = now
    BY <1>6, <2>1, OneThread DEF LoginCount, Verified
  <2>3. OneLogin'
    BY <2>1, <2>2 DEF Limits, OneLogin, LoggingIn
  <2>4. StillOpen' /\ Counted'
    BY <2>2 DEF StillOpen, Counted, GuessesBounded, LimitAssumption
  <2> QED
    BY <2>3, <2>4 DEF Limits
<1>7. ASSUME NEW t \in Threads, LoginCount(t), ~thread[t].valid PROVE Limits'
  <2>1. LoggingIn(t)
    BY <1>7 DEF LoginCount, At, LoggingIn
  <2>2. thread'[t] = Idle /\ \A u \in Threads : u # t => thread'[u] = thread[u]
    BY <1>7, OneThread DEF LoginCount
  <2>3. \A u \in Threads : ~LoggingIn(u)'
    BY <2>1, <2>2 DEF Limits, OneLogin, LoggingIn, Idle
  <2>4. OneLogin' /\ StillOpen'
    BY <2>3 DEF OneLogin, StillOpen, LoggingIn
  <2> QED
    BY <1>7, <2>4, WrongCounted DEF Limits
<1>8. ASSUME NEW t \in Threads, LoginCreate(t) PROVE Limits'
  <2>1. LoggingIn(t) /\ UNCHANGED <<now, attempts, wrong>>
    BY <1>8 DEF LoginCreate, At, LoggingIn
  <2>2. thread'[t] = Idle /\ \A u \in Threads : u # t => thread'[u] = thread[u]
    BY <1>8, OneThread DEF LoginCreate
  <2>3. \A u \in Threads : ~LoggingIn(u)'
    BY <2>1, <2>2 DEF Limits, OneLogin, LoggingIn, Idle
  <2>4. OneLogin' /\ StillOpen'
    BY <2>3 DEF OneLogin, StillOpen, LoggingIn
  <2>5. Counted'
    BY <2>1 DEF Limits, Counted, GuessesBounded
  <2> QED
    BY <2>4, <2>5 DEF Limits
<1>9. ASSUME NEW t \in Threads, NEW b \in Browsers,
             \/ LogoutBegin(t, b)
             \/ \E p, q \in Passwords : PasswordBegin(t, b, p, q)
             \/ \E x \in transactions : CallbackBegin(t, b, x)
      PROVE  Limits'
  <2>1. UNCHANGED <<now, attempts, lock, wrong>>
    BY <1>9 DEF LogoutBegin, PasswordBegin, CallbackBegin
  <2> QED
    BY <1>9, <2>1, BeginThreads, LimitsKept DEF LoggingIn
<1>10. ASSUME NEW t \in Threads, Logout(t) \/ Exchange(t) PROVE Limits'
  <2>1. UNCHANGED <<now, attempts, lock, wrong>>
    BY <1>10 DEF Logout, Exchange
  <2> QED
    BY <1>10, <2>1, EndThreads, LimitsKept DEF LoggingIn
<1>11. ASSUME NEW t \in Threads, SignInReplace(t) \/ SignIn(t) PROVE Limits'
  <2>1. UNCHANGED <<now, attempts, lock, wrong>>
    BY <1>11 DEF SignInReplace, SignIn
  <2> QED
    BY <1>11, <2>1, EndThreads, LimitsKept DEF LoggingIn
<1>12. ASSUME NEW t \in Threads, Password(t) PROVE Limits'
  <2>1. /\ thread'[t].pc = "idle"
        /\ \A u \in Threads : u # t => thread'[u].pc = thread[u].pc
    BY <1>12, PasswordThreads
  <2>2. UNCHANGED <<now, attempts, lock, wrong>>
    BY <1>12 DEF Password
  <2>3. OneLogin' /\ StillOpen'
    BY <2>1, <2>2 DEF Limits, OneLogin, StillOpen, LoggingIn
  <2>4. Counted'
    BY <2>2 DEF Limits, Counted, GuessesBounded
  <2> QED
    BY <2>3, <2>4 DEF Limits
<1> QED
  BY <1>1, <1>2, <1>3, <1>4, <1>5, <1>6, <1>7, <1>8, <1>9, <1>10, <1>11, <1>12 DEF Next

-----------------------------------------------------------------------------
(* Sessions and passwords.                                                  *)

\* Whatever opens no local session and checks no password.
LEMMA RevokedKept ==
    ASSUME Revoked, account' = account,
           \A s \in sessions' : s \in sessions \/ s.auth # "local",
           \A u \in Threads :
             \/ thread'[u] = thread[u]
             \/ thread'[u].pc \notin {"count", "replace", "create"}
             \/ /\ thread[u].pc \in {"count", "replace", "create"}
                /\ thread'[u].version = thread[u].version
                /\ thread'[u].overtaken = thread[u].overtaken
    PROVE  Revoked'
<1>1. LoginsFollowPassword'
  BY DEF Revoked, LoginsFollowPassword
<1>2. SessionsFollowPassword'
  BY DEF Revoked, SessionsFollowPassword
<1> QED
  BY <1>1, <1>2 DEF Revoked

\* No step leaves a local session behind that rests on an old password.
LEMMA RevokedStep ==
    ASSUME LimitAssumption, Typed, Revoked, Next
    PROVE  Revoked'
<1>1. CASE Tick
  BY <1>1, RevokedKept DEF Tick
<1>2. CASE Restart
  <2>1. \A u \in Threads : thread'[u].pc = "idle"
    BY <1>2 DEF Restart, Idle
  <2> QED
    BY <1>2, <2>1, RevokedKept DEF Restart
<1>3. ASSUME NEW b \in Browsers, Start(b) PROVE Revoked'
  BY <1>3, RevokedKept DEF Start
<1>4. ASSUME NEW t \in Threads, NEW b \in Browsers, NEW p \in Passwords, LoginBegin(t, b, p)
      PROVE  Revoked'
  <2>1. thread'[t].pc = "verify" /\ \A u \in Threads : u # t => thread'[u] = thread[u]
    BY <1>4, OneThread DEF LoginBegin
  <2> QED
    BY <1>4, <2>1, RevokedKept DEF LoginBegin
<1>5. ASSUME NEW t \in Threads, LoginVerify(t) PROVE Revoked'
  <2>1. /\ thread'[t].version = account.version
        /\ \A u \in Threads : u # t => thread'[u] = thread[u]
    BY <1>5, OneThread DEF LoginVerify
  <2>2. UNCHANGED <<account, sessions>>
    BY <1>5 DEF LoginVerify
  <2>3. LoginsFollowPassword'
    BY <2>1, <2>2 DEF Revoked, LoginsFollowPassword
  <2>4. SessionsFollowPassword'
    BY <2>2 DEF Revoked, SessionsFollowPassword
  <2> QED
    BY <2>3, <2>4 DEF Revoked
<1>6. ASSUME NEW t \in Threads, LoginCount(t) \/ LoginReplace(t) PROVE Revoked'
  <2>1. thread[t] \in Verified
    BY <1>6, HandlerKinds DEF LoginCount, LoginReplace, At, Typed
  <2>2. /\ \/ thread'[t].pc = "idle"
           \/ thread'[t].version = thread[t].version /\ thread'[t].overtaken = thread[t].overtaken
        /\ \A u \in Threads : u # t => thread'[u] = thread[u]
    <3>1. CASE LoginCount(t)
      BY <2>1, <3>1, OneThread DEF LoginCount, Verified, Idle
    <3>2. CASE LoginReplace(t)
      BY <2>1, <3>2, OneThread DEF LoginReplace, Verified
    <3> QED
      BY <1>6, <3>1, <3>2
  <2>3. account' = account /\ sessions' \subseteq sessions
    BY <1>6 DEF LoginCount, LoginReplace
  <2> QED
    BY <2>1, <2>2, <2>3, RevokedKept DEF Verified
<1>7. ASSUME NEW t \in Threads, LoginCreate(t) PROVE Revoked'
  <2>1. thread[t].version = account.version \/ thread[t].overtaken
    BY <1>7 DEF LoginCreate, At, Revoked, LoginsFollowPassword
  <2>2. thread'[t].pc = "idle" /\ \A u \in Threads : u # t => thread'[u] = thread[u]
    BY <1>7, OneThread DEF LoginCreate, Idle
  <2>3. account' = account
    BY <1>7 DEF LoginCreate
  <2>4. \A s \in sessions' : s \in sessions \/ (s.version = thread[t].version
                                               /\ s.overtaken = thread[t].overtaken)
    BY <1>7 DEF LoginCreate, Added
  <2>5. LoginsFollowPassword'
    BY <2>2, <2>3 DEF Revoked, LoginsFollowPassword
  <2>6. SessionsFollowPassword'
    BY <2>1, <2>3, <2>4 DEF Revoked, SessionsFollowPassword
  <2> QED
    BY <2>5, <2>6 DEF Revoked
<1>8. ASSUME NEW t \in Threads, NEW b \in Browsers,
             \/ LogoutBegin(t, b)
             \/ \E p, q \in Passwords : PasswordBegin(t, b, p, q)
             \/ \E x \in transactions : CallbackBegin(t, b, x)
      PROVE  Revoked'
  <2>1. UNCHANGED <<account, sessions>>
    BY <1>8 DEF LogoutBegin, PasswordBegin, CallbackBegin
  <2> QED
    BY <1>8, <2>1, BeginThreads, RevokedKept
<1>9. ASSUME NEW t \in Threads, Logout(t) \/ Exchange(t) PROVE Revoked'
  <2>1. account' = account /\ sessions' \subseteq sessions
    BY <1>9 DEF Logout, Exchange
  <2> QED
    BY <1>9, <2>1, EndThreads, RevokedKept
<1>10. ASSUME NEW t \in Threads, SignInReplace(t) PROVE Revoked'
  <2>1. account' = account /\ sessions' \subseteq sessions
    BY <1>10 DEF SignInReplace
  <2> QED
    BY <1>10, <2>1, EndThreads, RevokedKept
<1>11. ASSUME NEW t \in Threads, SignIn(t) PROVE Revoked'
  <2>1. account' = account /\ \A s \in sessions' : s \in sessions \/ s.auth = "entra"
    BY <1>11 DEF SignIn, Added
  <2> QED
    BY <1>11, <2>1, EndThreads, RevokedKept
<1>12. ASSUME NEW t \in Threads, Password(t) PROVE Revoked'
  <2>1. CASE account' = account
    <3>1. sessions' \subseteq sessions
      BY <1>12 DEF Password
    <3> QED
      BY <1>12, <2>1, <3>1, PasswordThreads, RevokedKept
  <2>2. CASE account' # account
    <3>1. sessions' = {}
      BY <1>12, <2>2 DEF Password
    <3>2. \A u \in Threads : thread'[u].pc \in {"count", "replace", "create"} =>
            thread'[u].overtaken
      BY <1>12, <2>2, PasswordThreads
    <3> QED
      BY <3>1, <3>2 DEF Revoked, LoginsFollowPassword, SessionsFollowPassword
  <2> QED
    BY <2>1, <2>2
<1> QED
  BY <1>1, <1>2, <1>3, <1>4, <1>5, <1>6, <1>7, <1>8, <1>9, <1>10, <1>11, <1>12 DEF Next

-----------------------------------------------------------------------------
(* SSO.                                                                     *)

\* A callback goes on, or is given up; bindings are dropped at most.
LEMMA SingleUseKept ==
    ASSUME SingleUse, UNCHANGED <<transactions, signedIn>>, started'.flow = started.flow,
           \A b \in Browsers : flow'[b] = flow[b] \/ flow'[b] = 0,
           started.flow \in Nat,
           \A u \in Threads : InFlight(u)' =>
             /\ InFlight(u) /\ thread'[u].state = thread[u].state
             /\ thread'[u].b = thread[u].b /\ thread'[u].starter = thread[u].starter
    PROVE  SingleUse'
<1>1. StatesAreUsed'
  BY DEF SingleUse, StatesAreUsed
<1>2. StatesAreDistinct'
  BY DEF SingleUse, StatesAreDistinct
<1>3. BoundToBrowser'
  <2>1. \A b \in Browsers : flow'[b] \in 0 .. started'.flow
    BY DEF SingleUse, BoundToBrowser
  <2>2. \A x \in transactions, b \in Browsers : flow'[b] = x.state => x.browser = b
    BY DEF SingleUse, BoundToBrowser, StatesAreUsed
  <2>3. \A u \in Threads : InFlight(u)' => thread'[u].b = thread'[u].starter
    BY DEF SingleUse, BoundToBrowser
  <2> QED
    BY <2>1, <2>2, <2>3 DEF BoundToBrowser
<1>4. SignInUsedOnce'
  BY DEF SingleUse, SignInUsedOnce
<1> QED
  BY <1>1, <1>2, <1>3, <1>4 DEF SingleUse

\* A transaction is handed out under a new state.
LEMMA SingleUseStarted ==
    ASSUME Typed, SingleUse, NEW b \in Browsers, Start(b)
    PROVE  SingleUse'
<1>1. UNCHANGED <<thread, signedIn>>
  BY DEF Start
<1>2. started.flow \in Nat
  BY DEF Typed
<1>3. CASE UNCHANGED <<started, flow>> /\ transactions' \subseteq transactions
  BY <1>1, <1>3 DEF SingleUse, StatesAreUsed, StatesAreDistinct, BoundToBrowser, SignInUsedOnce,
     InFlight
<1>4. CASE ~(UNCHANGED <<started, flow>> /\ transactions' \subseteq transactions)
  <2> DEFINE id == started.flow + 1
  <2>1. /\ started'.flow = id
        /\ \A x \in transactions' :
             x \in transactions \/ x = [state |-> id, browser |-> b, expires |-> now + FlowTtl]
        /\ \A c \in Browsers : flow'[c] = IF c = b THEN id ELSE flow[c]
    BY <1>4 DEF Start, Typed
  <2>2. \A x \in transactions' : x \in transactions \/ (x.state = id /\ x.browser = b)
    BY <2>1
  <2>3. \A x, y \in transactions' : x.state = id /\ y.state = id => x = y
    BY <1>2, <2>1 DEF SingleUse, StatesAreUsed
  <2>4. id \in Nat /\ id = started.flow + 1
    BY <1>2
  <2> HIDE DEF id
  <2>5. StatesAreUsed'
    BY <1>1, <1>2, <2>1, <2>2, <2>4 DEF SingleUse, StatesAreUsed, InFlight
  <2>6. StatesAreDistinct'
    <3>1. \A x, y \in transactions' : x.state = y.state => x = y
      BY <1>2, <2>2, <2>3, <2>4 DEF SingleUse, StatesAreUsed, StatesAreDistinct
    <3>2. \A u \in Threads : InFlight(u) => \A x \in transactions' : x.state # thread[u].state
      BY <1>2, <2>2, <2>4 DEF SingleUse, StatesAreUsed, StatesAreDistinct
    <3>3. \A i \in signedIn, x \in transactions' : x.state # i.state
      BY <1>2, <2>2, <2>4 DEF SingleUse, StatesAreUsed, StatesAreDistinct
    <3> QED
      BY <1>1, <3>1, <3>2, <3>3 DEF SingleUse, StatesAreDistinct, InFlight
  <2>7. BoundToBrowser'
    <3>1. \A c \in Browsers : flow'[c] \in 0 .. started'.flow
      BY <1>2, <2>1, <2>4 DEF SingleUse, BoundToBrowser
    <3>2. \A x \in transactions', c \in Browsers : flow'[c] = x.state => x.browser = c
      BY <1>2, <2>1, <2>2, <2>4 DEF SingleUse, BoundToBrowser, StatesAreUsed
    <3> QED
      BY <1>1, <3>1, <3>2 DEF SingleUse, BoundToBrowser, InFlight
  <2>8. SignInUsedOnce'
    BY <1>1 DEF SingleUse, SignInUsedOnce
  <2> QED
    BY <2>5, <2>6, <2>7, <2>8 DEF SingleUse
<1> QED
  BY <1>3, <1>4

\* A callback takes its transaction out of the table.
LEMMA SingleUseTaken ==
    ASSUME Typed, SingleUse, NEW t \in Threads, NEW b \in Browsers, NEW x \in transactions,
           CallbackBegin(t, b, x)
    PROVE  SingleUse'
<1>1. /\ transactions' = transactions \ {x} /\ UNCHANGED <<flow, started, signedIn>>
      /\ flow[b] = x.state /\ ~InFlight(t)
  BY DEF CallbackBegin, At, InFlight
<1>2. /\ thread'[t].pc = "exchange" /\ thread'[t].b = b /\ thread'[t].state = x.state
      /\ thread'[t].starter = x.browser
      /\ \A u \in Threads : u # t => thread'[u] = thread[u]
  BY OneThread DEF CallbackBegin
<1>3. StatesAreUsed'
  BY <1>1, <1>2 DEF SingleUse, StatesAreUsed, InFlight
<1>4. StatesAreDistinct'
  <2>1. \A y, z \in transactions' : y.state = z.state => y = z
    BY <1>1 DEF SingleUse, StatesAreDistinct
  <2>2. \A u, v \in Threads :
          InFlight(u)' /\ InFlight(v)' /\ thread'[u].state = thread'[v].state => u = v
    BY <1>1, <1>2 DEF SingleUse, StatesAreDistinct, InFlight
  <2>3. \A u \in Threads : InFlight(u)' =>
          /\ \A y \in transactions' : y.state # thread'[u].state
          /\ \A i \in signedIn' : i.state # thread'[u].state
    BY <1>1, <1>2 DEF SingleUse, StatesAreDistinct, InFlight
  <2>4. \A i \in signedIn', y \in transactions' : y.state # i.state
    BY <1>1 DEF SingleUse, StatesAreDistinct
  <2> QED
    BY <2>1, <2>2, <2>3, <2>4 DEF StatesAreDistinct
<1>5. BoundToBrowser'
  BY <1>1, <1>2 DEF SingleUse, BoundToBrowser, InFlight
<1>6. SignInUsedOnce'
  BY <1>1 DEF SingleUse, SignInUsedOnce
<1> QED
  BY <1>3, <1>4, <1>5, <1>6 DEF SingleUse

\* The session is made, and the thread forgets the state.
LEMMA SingleUseDone ==
    ASSUME Typed, SingleUse, NEW t \in Threads, SignIn(t)
    PROVE  SingleUse'
<1>1. thread[t] \in SigningIn /\ InFlight(t)
  BY HandlerKinds DEF SignIn, At, InFlight, Typed
<1>2. /\ ~InFlight(t)' /\ \A u \in Threads : u # t => thread'[u] = thread[u]
  BY OneThread DEF SignIn, InFlight, Idle
<1>3. /\ transactions' = transactions /\ started'.flow = started.flow /\ started.flow \in Nat
      /\ \A b \in Browsers : flow'[b] = flow[b] \/ flow'[b] = 0
  BY DEF SignIn, Typed
<1>4. PICK new : /\ signedIn' = signedIn \cup {new}
                 /\ new.state = thread[t].state
                 /\ new.browser = thread[t].b /\ new.starter = thread[t].starter
  <2> DEFINE row == [session |-> started.session + 1, state |-> thread[t].state,
                    browser |-> thread[t].b, starter |-> thread[t].starter]
  <2>1. signedIn' = signedIn \cup {row}
    BY DEF SignIn
  <2>2. row.state = thread[t].state /\ row.browser = thread[t].b
        /\ row.starter = thread[t].starter
    OBVIOUS
  <2> QED
    BY <2>1, <2>2
<1>5. \A i \in signedIn : i.state # new.state
  BY <1>1, <1>4 DEF SingleUse, StatesAreDistinct
<1>6. StatesAreUsed'
  BY <1>1, <1>2, <1>3, <1>4 DEF SingleUse, StatesAreUsed, InFlight
<1>7. StatesAreDistinct'
  <2>1. \A u \in Threads : InFlight(u)' => InFlight(u) /\ u # t /\ thread'[u] = thread[u]
    BY <1>2 DEF InFlight
  <2>2. \A u \in Threads : InFlight(u)' =>
          /\ \A y \in transactions' : y.state # thread'[u].state
          /\ \A i \in signedIn' : i.state # thread'[u].state
    BY <1>1, <1>3, <1>4, <2>1 DEF SingleUse, StatesAreDistinct
  <2>3. \A i \in signedIn', y \in transactions' : y.state # i.state
    BY <1>1, <1>3, <1>4 DEF SingleUse, StatesAreDistinct
  <2>4. \A u, v \in Threads :
          InFlight(u)' /\ InFlight(v)' /\ thread'[u].state = thread'[v].state => u = v
    BY <2>1 DEF SingleUse, StatesAreDistinct
  <2> QED
    BY <1>3, <2>2, <2>3, <2>4 DEF SingleUse, StatesAreDistinct
<1>8. BoundToBrowser'
  <2>1. \A b \in Browsers : flow'[b] \in 0 .. started'.flow
    BY <1>3 DEF SingleUse, BoundToBrowser
  <2>2. \A y \in transactions', b \in Browsers : flow'[b] = y.state => y.browser = b
    BY <1>3 DEF SingleUse, BoundToBrowser, StatesAreUsed
  <2>3. \A u \in Threads : InFlight(u)' => thread'[u].b = thread'[u].starter
    BY <1>2 DEF SingleUse, BoundToBrowser, InFlight
  <2> QED
    BY <2>1, <2>2, <2>3 DEF BoundToBrowser
<1>9. SignInUsedOnce'
  BY <1>1, <1>4, <1>5 DEF SingleUse, SignInUsedOnce, BoundToBrowser
<1> QED
  BY <1>6, <1>7, <1>8, <1>9 DEF SingleUse

\* No step uses a transaction twice.
LEMMA SingleUseStep ==
    ASSUME LimitAssumption, Typed, SingleUse, Next
    PROVE  SingleUse'
<1>1. started.flow \in Nat
  BY DEF Typed
<1>2. CASE Tick
  BY <1>1, <1>2, SingleUseKept DEF Tick, InFlight
<1>3. CASE Restart
  <2>1. \A u \in Threads : thread'[u].pc = "idle"
    BY <1>3 DEF Restart, Idle
  <2>2. UNCHANGED <<started, flow, signedIn>> /\ transactions' = {}
    BY <1>3 DEF Restart
  <2>3. StatesAreUsed' /\ StatesAreDistinct'
    BY <2>1, <2>2 DEF SingleUse, StatesAreUsed, StatesAreDistinct, InFlight
  <2>4. BoundToBrowser' /\ SignInUsedOnce'
    BY <2>1, <2>2 DEF SingleUse, BoundToBrowser, SignInUsedOnce, InFlight
  <2> QED
    BY <2>3, <2>4 DEF SingleUse
<1>4. ASSUME NEW t \in Threads, NEW b \in Browsers, NEW p \in Passwords, LoginBegin(t, b, p)
      PROVE  SingleUse'
  <2>1. thread'[t].pc = "verify" /\ \A u \in Threads : u # t => thread'[u] = thread[u]
    BY <1>4, OneThread DEF LoginBegin
  <2> QED
    BY <1>1, <1>4, <2>1, SingleUseKept DEF LoginBegin, InFlight
<1>5. ASSUME NEW t \in Threads,
             LoginVerify(t) \/ LoginCount(t) \/ LoginReplace(t) \/ LoginCreate(t)
      PROVE  SingleUse'
  <2>1. ~InFlight(t)' /\ \A u \in Threads : u # t => thread'[u] = thread[u]
    BY <1>5, LoginThreads
  <2>2. UNCHANGED <<transactions, signedIn, flow>>
    BY <1>5 DEF LoginVerify, LoginCount, LoginReplace, LoginCreate
  <2>3. started'.flow = started.flow
    BY <1>5 DEF LoginVerify, LoginCount, LoginReplace, LoginCreate, Typed
  <2> QED
    BY <1>1, <2>1, <2>2, <2>3, SingleUseKept DEF InFlight
<1>6. ASSUME NEW t \in Threads, NEW b \in Browsers,
             LogoutBegin(t, b) \/ \E p, q \in Passwords : PasswordBegin(t, b, p, q)
      PROVE  SingleUse'
  <2>1. ~InFlight(t)' /\ \A u \in Threads : u # t => thread'[u] = thread[u]
    <3>1. CASE LogoutBegin(t, b)
      BY <3>1, OneThread DEF LogoutBegin, InFlight
    <3>2. CASE \E p, q \in Passwords : PasswordBegin(t, b, p, q)
      BY <3>2, OneThread DEF PasswordBegin, InFlight
    <3> QED
      BY <1>6, <3>1, <3>2
  <2>2. UNCHANGED <<transactions, signedIn, flow, started>>
    BY <1>6 DEF LogoutBegin, PasswordBegin
  <2> QED
    BY <1>1, <2>1, <2>2, SingleUseKept DEF InFlight
<1>7. ASSUME NEW t \in Threads, Logout(t) \/ Exchange(t) \/ SignInReplace(t) PROVE SingleUse'
  <2>1. UNCHANGED <<transactions, signedIn, started>>
    BY <1>7 DEF Logout, Exchange, SignInReplace
  <2>2. \A b \in Browsers : flow'[b] = flow[b] \/ flow'[b] = 0
    BY <1>7 DEF Logout, Exchange, SignInReplace, Typed
  <2> QED
    BY <1>1, <1>7, <2>1, <2>2, EndThreads, SingleUseKept DEF InFlight
<1>8. ASSUME NEW t \in Threads, Password(t) PROVE SingleUse'
  <2>1. UNCHANGED <<transactions, signedIn, flow, started>>
    BY <1>8 DEF Password
  <2> QED
    BY <1>1, <1>8, <2>1, PasswordThreads, SingleUseKept DEF InFlight
<1> QED
  BY <1>2, <1>3, <1>4, <1>5, <1>6, <1>7, <1>8, SingleUseStarted, SingleUseTaken, SingleUseDone
  DEF Next

-----------------------------------------------------------------------------
(* The invariant, and what the runs check.                                  *)

\* Nobody is signed in at first.
LEMMA InvariantInit ==
    ASSUME LimitAssumption, Init
    PROVE  IInv
<1>1. \A u \in Threads : thread[u] = Idle /\ thread[u].pc = "idle"
  BY DEF Init, Idle
<1>2. Typed
  <2>1. <<>> \in Seq(Nat) /\ [failures |-> 0, until |-> 0] \in [failures : Nat, until : Nat]
        /\ [session |-> 0, flow |-> 0] \in [session : Nat, flow : Nat]
    OBVIOUS
  <2>2. account \in [password : Passwords, version : Nat]
    BY DEF Init
  <2>3. thread \in [Threads -> Handlers]
    BY DEF Init, Handlers
  <2> QED
    BY <2>1, <2>2, <2>3 DEF Init, Typed
<1>3. Limits
  <2>1. OneLogin /\ StillOpen
    BY <1>1 DEF OneLogin, StillOpen, LoggingIn
  <2>2. Counted
    BY DEF Init, Counted, GuessesBounded, LimitAssumption
  <2> QED
    BY <2>1, <2>2 DEF Limits
<1>4. Revoked
  BY <1>1 DEF Init, Revoked, LoginsFollowPassword, SessionsFollowPassword
<1>5. SingleUse
  <2>1. StatesAreUsed /\ StatesAreDistinct
    BY <1>1 DEF Init, StatesAreUsed, StatesAreDistinct, InFlight
  <2>2. BoundToBrowser /\ SignInUsedOnce
    BY <1>1 DEF Init, BoundToBrowser, SignInUsedOnce, InFlight
  <2> QED
    BY <2>1, <2>2 DEF SingleUse
<1> QED
  BY <1>2, <1>3, <1>4, <1>5 DEF IInv

\* Every step keeps the invariant.
LEMMA InvariantStep ==
    ASSUME LimitAssumption, IInv, [Next]_vars
    PROVE  IInv'
<1>1. CASE Next
  BY <1>1, TypedStep, LimitsStep, RevokedStep, SingleUseStep DEF IInv
<1>2. CASE UNCHANGED vars
  <2>1. Typed'
    BY <1>2 DEF IInv, Typed, vars
  <2>2. Limits'
    BY <1>2 DEF IInv, Limits, OneLogin, StillOpen, Counted, GuessesBounded, LoggingIn, vars
  <2>3. Revoked'
    BY <1>2 DEF IInv, Revoked, LoginsFollowPassword, SessionsFollowPassword, vars
  <2>4. SingleUse'
    BY <1>2 DEF IInv, SingleUse, StatesAreUsed, StatesAreDistinct, BoundToBrowser,
       SignInUsedOnce, InFlight, vars
  <2> QED
    BY <2>1, <2>2, <2>3, <2>4 DEF IInv
<1> QED
  BY <1>1, <1>2

\* The invariant holds for all limits and lifetimes, however many threads and browsers.
THEOREM InvariantHolds == Spec => []IInv
<1>1. Init => IInv
  BY InvariantInit, LimitAssumption
<1>2. IInv /\ [Next]_vars => IInv'
  BY InvariantStep, LimitAssumption
<1> QED
  BY <1>1, <1>2, PTL DEF Spec

\* app.py login, store.py login_attempt: of MaxFailures + 1 wrong passwords in a row the
\* last comes LockFor after the first or later, in spite of restarts and of the handlers
\* that do not take runtime.lock.
THEOREM LoginLimitHolds == Spec => []GuessesBounded
<1>1. IInv => GuessesBounded
  BY DEF IInv, Limits, Counted
<1> QED
  BY <1>1, InvariantHolds, PTL

\* store.py change_password: every local session was opened with the current password,
\* but for the logins that had passed the check when the password changed.
THEOREM PasswordChangeRevokes == Spec => []SessionsFollowPassword
<1>1. IInv => SessionsFollowPassword
  BY DEF IInv, Revoked
<1> QED
  BY <1>1, InvariantHolds, PTL

\* sso.py consume: however many callbacks race for it, a transaction makes at most one
\* session, and that for the browser which began it.
THEOREM TransactionsAreSingleUse == Spec => []SignInUsedOnce
<1>1. IInv => SignInUsedOnce
  BY DEF IInv, SingleUse
<1> QED
  BY <1>1, InvariantHolds, PTL

-----------------------------------------------------------------------------
(***************************************************************************)
(* Operations.  The saved connections always fit the secrets that are       *)
(* written; what the console serves fits the active connection; and every   *)
(* page an administrator looks at is of an earlier version or shows the     *)
(* settings as they are.                                                    *)
(***************************************************************************)

\* Values that saved settings can have when the secrets in have are written: the policy
\* kept with a connection has the rules of its routes, and its secret is there.
Policies == [version : Nat, routes : Routes, body : Nat]
Connections == [revision : Nat, config : Configs, policy : Policies \cup {None}]
Saved(have) ==
    {e \in Connections : /\ e.policy # None => e.policy.routes = e.config.routes
                         /\ e.config.secret \in have \cup {None}}
Settings(have) == [version : Nat, pending : Saved(have) \cup {None},
                   active : Saved(have) \cup {None}, history : Seq(Saved(have))]

Serving == {"started", "idle", "staging", "restoring"}

OperationsTyped ==
    /\ file \in Configs /\ file.secret = None
    /\ ops \in Settings(secrets) /\ policy \in Policies \cup {None}
    /\ secrets \subseteq Secrets /\ saves \in Nat
    /\ pc \in Serving \cup {"down", "activated"}
    /\ due \in BOOLEAN /\ unmigrated \in BOOLEAN

\* What the console serves is the active connection, with a policy for its routes.
ConsoleFits ==
    pc \in Serving =>
      /\ config \in Configs /\ config.secret \in secrets \cup {None}
      /\ policy \in Policies /\ policy.routes = config.routes
      /\ ops.active # None => ops.active.config.routes = config.routes

\* What a request has between its writes, and activate-config after its transaction.
JobFits ==
    /\ pc = "staging" => job \in Configs /\ job.secret \in secrets
    /\ pc = "restoring" =>
         /\ job \in Saved(secrets) /\ ops.pending \in Saved(secrets)
         /\ ops.pending.config = job.config
         /\ promised = None /\ tab.version < ops.version
    /\ pc = "activated" => ops.active \in Saved(secrets) /\ config = ops.active.config

\* The saved policy has the rules of the active connection.
PolicyFits ==
    (ops.active # None /\ policy # None /\ ~unmigrated) =>
      policy.routes = ops.active.config.routes

\* A page is of an earlier version or shows the settings as they are.
PageIsOlder ==
    /\ tab.version \in Nat /\ tab.version <= ops.version
    /\ tab.version = ops.version => tab = ops

\* What the console said it restored is pending.
PromiseIsPending ==
    promised # None =>
      promised.config = ops.pending.config /\ promised.policy = ops.pending.policy

\* Once the console has published, the snapshot is behind an applied policy only.
PublishedIsServed ==
    (pc \in Serving \ {"started"} /\ ~due) => current = [config |-> config, policy |-> policy]

OperationsIInv ==
    /\ OperationsTyped /\ ConsoleFits /\ JobFits /\ PolicyFits
    /\ PageIsOlder /\ PromiseIsPending /\ PublishedIsServed

-----------------------------------------------------------------------------
(* Settings.                                                                *)

\* More secrets, more settings.
LEMMA SecretsOnlyAdd ==
    ASSUME NEW have, NEW more, have \subseteq more
    PROVE  /\ Saved(have) \subseteq Saved(more)
           /\ Settings(have) \subseteq Settings(more)
<1>1. Saved(have) \subseteq Saved(more)
  BY DEF Saved
<1>2. Seq(Saved(have)) \subseteq Seq(Saved(more))
  BY <1>1, SeqMonotonic
<1> DEFINE A == Saved(have) \cup {None}
           B == Saved(more) \cup {None}
<1>3. A \subseteq B
  BY <1>1
<1> HIDE DEF A, B
<1>4. ASSUME NEW SA, NEW SB, SA \subseteq SB
      PROVE  [version : Nat, pending : A, active : A, history : SA] \subseteq
             [version : Nat, pending : B, active : B, history : SB]
  BY <1>3, <1>4
<1>5. Settings(have) \subseteq Settings(more)
  BY <1>2, <1>4 DEF A, B, Settings
<1> QED
  BY <1>1, <1>5

\* What Newest keeps was there.
LEMMA NewestKeeps ==
    ASSUME NEW S, NEW s \in Seq(S), NEW n \in Nat
    PROVE  Newest(s, n) \in Seq(S)
<1>1. CASE Len(s) > n
  <2>1. Len(s) \in Nat /\ \A i \in 1 .. Len(s) : s[i] \in S
    BY ElementOfSeq
  <2>2. Len(s) - n + 1 \in Int /\ \A i \in Len(s) - n + 1 .. Len(s) : s[i] \in S
    BY <1>1, <2>1
  <2>3. SubSeq(s, Len(s) - n + 1, Len(s)) \in Seq(S)
    BY <2>1, <2>2, SubSeqProperties
  <2> QED
    BY <1>1, <2>3 DEF Newest
<1>2. CASE ~(Len(s) > n)
  BY <1>2 DEF Newest
<1> QED
  BY <1>1, <1>2

\* The parts of settings.
LEMMA SettingsFacts ==
    ASSUME NEW have, NEW s \in Settings(have)
    PROVE  /\ s.version \in Nat
           /\ s.pending \in Saved(have) \cup {None} /\ s.active \in Saved(have) \cup {None}
           /\ s.history \in Seq(Saved(have))
           /\ \A e \in Range(s.history) : e \in Saved(have)
<1>1. /\ s.version \in Nat
      /\ s.pending \in Saved(have) \cup {None} /\ s.active \in Saved(have) \cup {None}
      /\ s.history \in Seq(Saved(have))
  BY DEF Settings
<1>2. \A e \in Range(s.history) : e \in Saved(have)
  BY <1>1, RangeOfSeq
<1> QED
  BY <1>1, <1>2

\* The parts of a saved connection.
LEMMA SavedFacts ==
    ASSUME NEW have, NEW e \in Saved(have)
    PROVE  /\ e.revision \in Nat /\ e.config \in Configs /\ e.policy \in Policies \cup {None}
           /\ e.policy # None => e.policy.routes = e.config.routes
           /\ e.config.secret \in have \cup {None}
  BY DEF Saved, Connections

\* A connection saved with a policy for its routes.
LEMMA SavedWithPolicy ==
    ASSUME NEW have, NEW e \in Saved(have), NEW p \in Policies \cup {None},
           p # None => p.routes = e.config.routes
    PROVE  /\ [e EXCEPT !.policy = p] \in Saved(have)
           /\ [e EXCEPT !.policy = p].policy = p
           /\ [e EXCEPT !.policy = p].config = e.config
<1> DEFINE f == [e EXCEPT !.policy = p]
<1>1. e \in Connections
  BY DEF Saved
<1>2. f \in Connections
  BY <1>1 DEF Connections
<1>3. f.policy = p /\ f.config = e.config
  BY <1>1 DEF Connections
<1>4. e.config.secret \in have \cup {None}
  BY DEF Saved
<1> HIDE DEF f
<1>5. f \in Saved(have)
  BY <1>2, <1>3, <1>4 DEF Saved
<1> QED
  BY <1>3, <1>5 DEF f

\* A connection whose secret is written and whose policy fits can be saved.
LEMMA NewConnection ==
    ASSUME NEW have, NEW c \in Configs, c.secret \in have \cup {None}, NEW r \in Nat,
           NEW p \in Policies \cup {None}, p # None => p.routes = c.routes
    PROVE  [revision |-> r, config |-> c, policy |-> p] \in Saved(have)
<1> DEFINE e == [revision |-> r, config |-> c, policy |-> p]
<1>1. e \in Connections /\ e.policy = p /\ e.config = c
  BY DEF Connections
<1> HIDE DEF e
<1>2. e \in Saved(have)
  BY <1>1 DEF Saved
<1> QED
  BY <1>2 DEF e

\* stage keeps the active connection, and saves what it replaces.
LEMMA StagedSound ==
    ASSUME OperationsTyped, ConsoleFits, pc \in Serving,
           NEW c \in Configs, c.secret \in secrets \cup {None}
    PROVE  /\ Staged(c) \in Settings(secrets)
           /\ Staged(c).version = ops.version + 1 /\ Staged(c).active = ops.active
           /\ Staged(c).pending \in Saved(secrets) /\ Staged(c).pending.config = c
<1> DEFINE r == ops.version + 1
           previous == IF ops.pending # None THEN ops.pending
                       ELSE IF ops.active # None THEN [ops.active EXCEPT !.policy = policy]
                       ELSE [revision |-> r, config |-> config, policy |-> policy]
           next == r + 1
           new == [revision |-> next, config |-> c, policy |-> None]
           h == Newest(Append(ops.history, previous), HistoryLimit)
<1>1. /\ ops.version \in Nat /\ ops.history \in Seq(Saved(secrets))
      /\ ops.pending \in Saved(secrets) \cup {None} /\ ops.active \in Saved(secrets) \cup {None}
  BY SettingsFacts DEF OperationsTyped
<1>2. /\ config \in Configs /\ config.secret \in secrets \cup {None}
      /\ policy \in Policies /\ policy.routes = config.routes
      /\ ops.active # None => ops.active.config.routes = config.routes
  BY DEF ConsoleFits
<1>7. r \in Nat /\ next \in Nat
  BY <1>1
<1>10. None \in Policies \cup {None}
  OBVIOUS
<1> HIDE DEF r, next
<1>3. previous \in Saved(secrets)
  <2>1. CASE ops.pending # None
    BY <1>1, <2>1
  <2>2. CASE ops.pending = None /\ ops.active # None
    <3>1. [ops.active EXCEPT !.policy = policy] \in Saved(secrets)
      BY <1>1, <1>2, <2>2, SavedWithPolicy
    <3> QED
      BY <2>2, <3>1
  <2>3. CASE ops.pending = None /\ ops.active = None
    <3>1. [revision |-> r, config |-> config, policy |-> policy] \in Saved(secrets)
      <4>1. policy \in Policies \cup {None} /\ (policy # None => policy.routes = config.routes)
        BY <1>2
      <4> QED
        BY <1>2, <1>7, <4>1, NewConnection
    <3> QED
      BY <2>3, <3>1
  <2> QED
    BY <2>1, <2>2, <2>3
<1>4. new \in Saved(secrets) /\ new.config = c
  <2>1. new \in Saved(secrets)
    BY <1>7, <1>10, NewConnection
  <2> QED
    BY <2>1
<1>5. h \in Seq(Saved(secrets))
  <2> HIDE DEF previous
  <2>1. Append(ops.history, previous) \in Seq(Saved(secrets))
    BY <1>1, <1>3, AppendProperties
  <2> QED
    BY <2>1, NewestKeeps, OperationsAssumption
<1>6. Staged(c) = [ops EXCEPT !.version = r, !.pending = new, !.history = h]
  BY DEF Staged, r, next
<1> HIDE DEF new, h
<1>8. Staged(c) \in Settings(secrets)
  <2> DEFINE S == Saved(secrets) \cup {None}
             H == Seq(Saved(secrets))
  <2>1. ops \in [version : Nat, pending : S, active : S, history : H]
    BY DEF OperationsTyped, Settings
  <2>2. r \in Nat /\ new \in S /\ h \in H
    BY <1>4, <1>5, <1>7
  <2> HIDE DEF S, H
  <2>3. Staged(c) \in [version : Nat, pending : S, active : S, history : H]
    BY <1>6, <2>1, <2>2
  <2> QED
    BY <2>3 DEF S, H, Settings
<1>9. Staged(c).version = r /\ Staged(c).active = ops.active /\ Staged(c).pending = new
  BY <1>6 DEF OperationsTyped, Settings
<1> QED
  BY <1>4, <1>8, <1>9 DEF r

\* The active connection, with the trust of the file.
LEMMA ActiveConfigFacts ==
    ASSUME OperationsTyped
    PROVE  /\ ActiveConfig \in Configs /\ ActiveConfig.secret \in secrets \cup {None}
           /\ ops.active # None => ActiveConfig.routes = ops.active.config.routes
           /\ ops.active = None => ActiveConfig = file
<1>1. ops.active \in Saved(secrets) \cup {None}
  BY SettingsFacts DEF OperationsTyped
<1>2. CASE ops.active = None
  BY <1>2 DEF ActiveConfig, OperationsTyped
<1>3. CASE ops.active # None
  <2>1. ops.active.config \in Configs /\ ops.active.config.secret \in secrets \cup {None}
    BY <1>1, <1>3, SavedFacts
  <2>2. file.trust \in Trusts
    BY DEF OperationsTyped, Configs
  <2>3. ASSUME NEW d \in Configs, NEW t \in Trusts
        PROVE  /\ [d EXCEPT !.trust = t] \in Configs
               /\ [d EXCEPT !.trust = t].routes = d.routes
               /\ [d EXCEPT !.trust = t].secret = d.secret
    BY <2>3 DEF Configs
  <2> QED
    BY <1>3, <2>1, <2>2, <2>3 DEF ActiveConfig
<1> QED
  BY <1>2, <1>3

\* The policies that seed_policy and activate-config make have the rules of the routes.
LEMMA DefaultsFacts ==
    ASSUME NEW r \in Routes, NEW v \in Nat
    PROVE  Defaults(r, v) \in Policies /\ Defaults(r, v).routes = r
  BY DEF Defaults, Policies

LEMMA SeededFacts ==
    ASSUME OperationsTyped, NEW c \in Configs
    PROVE  /\ Seeded(c) \in Policies
           /\ policy # None => Seeded(c) = policy
           /\ policy = None => Seeded(c).routes = c.routes
<1>1. c.routes \in Routes
  BY DEF Configs
<1>2. 1 \in Nat
  OBVIOUS
<1>3. Defaults(c.routes, 1) \in Policies /\ Defaults(c.routes, 1).routes = c.routes
  BY <1>1, <1>2, DefaultsFacts
<1> QED
  BY <1>3 DEF Seeded, OperationsTyped

-----------------------------------------------------------------------------
(* The steps.                                                               *)

\* After init the gateway has the file's connection and the default policy.
LEMMA OperationsStart == OperationsInit => OperationsIInv
<1> SUFFICES ASSUME OperationsInit PROVE OperationsIInv
  OBVIOUS
<1> USE DEF OperationsInit
<1>1. FirstFile \in Configs /\ FirstFile.secret = None
  BY OperationsAssumption
<1>2. policy \in Policies
  <2>1. FirstFile.routes \in Routes /\ 1 \in Nat
    BY <1>1 DEF Configs
  <2> QED
    BY <2>1, DefaultsFacts
<1>3. ops \in Settings(secrets) /\ ops.active = None /\ ops.version \in Nat
  BY EmptySeq DEF Settings, NewSettings
<1>4. OperationsTyped
  BY <1>1, <1>2, <1>3 DEF OperationsTyped
<1>5. PageIsOlder
  BY <1>3 DEF PageIsOlder
<1>6. ConsoleFits /\ JobFits /\ PolicyFits /\ PromiseIsPending /\ PublishedIsServed
  BY <1>3 DEF ConsoleFits, JobFits, PolicyFits, PromiseIsPending, PublishedIsServed, Serving
<1> QED
  BY <1>4, <1>5, <1>6 DEF OperationsIInv

\* The console starts with the active connection only if the policy fits it.
LEMMA ControlStartStep == ASSUME OperationsIInv, ControlStart PROVE OperationsIInv'
<1> USE DEF OperationsIInv, ControlStart, historyVars
<1>1. /\ ActiveConfig \in Configs /\ ActiveConfig.secret \in secrets \cup {None}
      /\ ops.active # None => ActiveConfig.routes = ops.active.config.routes
  BY ActiveConfigFacts
<1>2. policy' \in Policies /\ policy'.routes = ActiveConfig.routes
  BY <1>1, SeededFacts
<1>3. OperationsTyped'
  BY <1>2 DEF OperationsTyped, Serving
<1>4. ConsoleFits'
  BY <1>1, <1>2 DEF ConsoleFits
<1>5. JobFits' /\ PublishedIsServed'
  BY DEF JobFits, PublishedIsServed
<1>6. PolicyFits'
  BY <1>1, <1>2 DEF PolicyFits
<1>7. PageIsOlder' /\ PromiseIsPending'
  BY DEF PageIsOlder, PromiseIsPending
<1> QED
  BY <1>3, <1>4, <1>5, <1>6, <1>7

\* The snapshot gets the connection and the policy that are in use.
LEMMA PublishStep == ASSUME OperationsIInv, Publish PROVE OperationsIInv'
<1> USE DEF OperationsIInv, Publish
<1>1. OperationsTyped'
  BY DEF OperationsTyped, Serving
<1>2. ConsoleFits'
  BY DEF ConsoleFits, Serving
<1>3. JobFits' /\ PublishedIsServed'
  BY DEF JobFits, PublishedIsServed
<1>4. PolicyFits'
  BY DEF ConsoleFits, PolicyFits, Serving
<1>5. PageIsOlder' /\ PromiseIsPending'
  BY DEF PageIsOlder, PromiseIsPending
<1> QED
  BY <1>1, <1>2, <1>3, <1>4, <1>5

\* An applied policy has the rules of the same routes.
LEMMA ApplyStep == ASSUME OperationsIInv, Apply PROVE OperationsIInv'
<1> USE DEF OperationsIInv, Apply, historyVars
<1>1. policy \in Policies /\ policy.routes = config.routes
  BY DEF ConsoleFits, Serving
<1>2. policy' \in Policies /\ policy'.routes = policy.routes
  BY <1>1 DEF Policies, OperationsTyped
<1>3. OperationsTyped'
  BY <1>2 DEF OperationsTyped
<1>4. ConsoleFits'
  BY <1>1, <1>2 DEF ConsoleFits, Serving
<1>5. JobFits' /\ PublishedIsServed'
  BY DEF JobFits, PublishedIsServed
<1>6. PolicyFits'
  BY <1>1, <1>2 DEF ConsoleFits, PolicyFits, Serving
<1>7. PageIsOlder' /\ PromiseIsPending'
  BY DEF PageIsOlder, PromiseIsPending
<1> QED
  BY <1>3, <1>4, <1>5, <1>6, <1>7

\* A page shows the settings as they are, when no request is half done.
LEMMA RefreshStep == ASSUME OperationsIInv, Refresh PROVE OperationsIInv'
<1> USE DEF OperationsIInv, Refresh, consoleVars
<1>1. ops.version \in Nat
  BY SettingsFacts DEF OperationsTyped
<1>2. OperationsTyped' /\ ConsoleFits' /\ PolicyFits' /\ PromiseIsPending' /\ PublishedIsServed'
  BY DEF OperationsTyped, ConsoleFits, PolicyFits, PromiseIsPending, PublishedIsServed
<1>3. JobFits'
  BY DEF JobFits
<1>4. PageIsOlder'
  BY <1>1 DEF PageIsOlder
<1> QED
  BY <1>2, <1>3, <1>4

\* Staging, in the request that has no secret to write and in the one that has.
LEMMA StageStep ==
    ASSUME OperationsIInv, NEW c \in Configs, c.secret \in secrets \cup {None},
           pc \in {"idle", "staging"}, pc' = "idle", ops' = Staged(c), promised' = None,
           UNCHANGED <<file, edits, policy, secrets, current, saves, config, due, tab,
                       unmigrated>>
    PROVE  OperationsIInv'
<1> USE DEF OperationsIInv
<1>1. /\ ops' \in Settings(secrets)
      /\ ops'.version = ops.version + 1 /\ ops'.active = ops.active
  BY StagedSound DEF Serving
<1>2. ops.version \in Nat
  BY SettingsFacts DEF OperationsTyped
<1>3. OperationsTyped'
  BY <1>1 DEF OperationsTyped, Serving
<1>4. ConsoleFits'
  BY <1>1 DEF ConsoleFits, Serving
<1>5. JobFits' /\ PromiseIsPending'
  BY DEF JobFits, PromiseIsPending
<1>6. PolicyFits'
  BY <1>1 DEF PolicyFits
<1>7. PageIsOlder'
  BY <1>1, <1>2 DEF PageIsOlder
<1>8. PublishedIsServed'
  BY DEF PublishedIsServed, Serving
<1> QED
  BY <1>3, <1>4, <1>5, <1>6, <1>7, <1>8

\* stage without a secret uses one that a saved connection has.
LEMMA StageKnownStep ==
    ASSUME OperationsIInv, NEW c \in Configs, Stage(c) PROVE OperationsIInv'
<1>1. pc = "idle" /\ c.secret \in Known
  BY DEF Stage, Requested
<1>2. config.secret \in secrets \cup {None}
  BY <1>1 DEF OperationsIInv, ConsoleFits, Serving
<1>3. \A e \in Entries : e.config.secret \in secrets \cup {None}
  <2>1. /\ ops.pending \in Saved(secrets) \cup {None} /\ ops.active \in Saved(secrets) \cup {None}
        /\ \A e \in Range(ops.history) : e \in Saved(secrets)
    BY SettingsFacts DEF OperationsIInv, OperationsTyped
  <2>2. \A e \in Entries : e \in Saved(secrets)
    BY <2>1 DEF Entries
  <2> QED
    BY <2>2, SavedFacts
<1>4. c.secret \in secrets \cup {None}
  BY <1>1, <1>2, <1>3 DEF Known
<1> QED
  BY <1>1, <1>4, StageStep DEF Stage, consoleVars

\* A new secret gets a number that no secret had.
LEMMA StageSecretStep ==
    ASSUME OperationsIInv, NEW r \in Routes, StageSecret(r) PROVE OperationsIInv'
<1> DEFINE n == Cardinality(secrets) + 1
<1> USE DEF OperationsIInv, historyVars
<1>1. /\ pc = "idle" /\ Cardinality(secrets) < MaxSecrets
      /\ job' = [routes |-> r, trust |-> config.trust, secret |-> n]
      /\ secrets' = secrets \cup {job'.secret} /\ pc' = "staging"
  BY DEF StageSecret, Requested
<1>2. n \in Secrets
  <2>1. secrets \subseteq 1 .. MaxSecrets /\ MaxSecrets \in Nat
    BY OperationsAssumption DEF OperationsTyped, Secrets
  <2>2. IsFiniteSet(secrets)
    <3>1. IsFiniteSet(1 .. MaxSecrets)
      BY <2>1, FS_Interval
    <3> QED
      BY <2>1, <3>1, FS_Subset
  <2>3. Cardinality(secrets) \in Nat
    BY <2>2, FS_CardinalityType
  <2> QED
    BY <1>1, <2>1, <2>3 DEF Secrets
<1>3. config \in Configs /\ config.trust \in Trusts
  BY <1>1 DEF ConsoleFits, Serving, Configs
<1> HIDE DEF n
<1>4. job' \in Configs /\ job'.secret = n
  BY <1>1, <1>2, <1>3 DEF Configs
<1>5. secrets \subseteq secrets' /\ n \in secrets' /\ secrets' \subseteq Secrets
  BY <1>1, <1>2, <1>4 DEF OperationsTyped
<1>6. ops \in Settings(secrets')
  BY <1>5, SecretsOnlyAdd DEF OperationsTyped
<1>7. OperationsTyped'
  BY <1>1, <1>5, <1>6 DEF OperationsTyped, StageSecret, Serving
<1>8. ConsoleFits'
  BY <1>1, <1>5 DEF ConsoleFits, StageSecret, Serving
<1>9. JobFits'
  BY <1>1, <1>4, <1>5 DEF JobFits
<1>10. PolicyFits' /\ PageIsOlder' /\ PromiseIsPending'
  BY DEF PolicyFits, PageIsOlder, PromiseIsPending, StageSecret
<1>11. PublishedIsServed'
  BY <1>1 DEF PublishedIsServed, StageSecret, Serving
<1> QED
  BY <1>7, <1>8, <1>9, <1>10, <1>11

\* A request that wrote a secret stages a connection with it.
LEMMA StageCommitStep == ASSUME OperationsIInv, StageCommit PROVE OperationsIInv'
<1>1. job \in Configs /\ job.secret \in secrets \cup {None}
  BY DEF OperationsIInv, JobFits, StageCommit
<1> QED
  BY <1>1, StageStep DEF StageCommit

\* restore stages a saved connection; nobody is told so before its policy is with it.
LEMMA RestoreStep ==
    ASSUME OperationsIInv, NEW item \in Range(ops.history), Restore(item)
    PROVE  OperationsIInv'
<1> USE DEF OperationsIInv
<1>1. pc = "idle" /\ pc' = "restoring" /\ ops' = Staged(item.config) /\ job' = item
  BY DEF Restore, Requested
<1>2. item \in Saved(secrets)
  BY SettingsFacts DEF OperationsTyped
<1>3. item.config \in Configs /\ item.config.secret \in secrets \cup {None}
  BY <1>2, SavedFacts
<1>4. /\ ops' \in Settings(secrets)
      /\ ops'.version = ops.version + 1 /\ ops'.active = ops.active
      /\ ops'.pending \in Saved(secrets) /\ ops'.pending.config = item.config
  BY <1>1, <1>3, StagedSound DEF Serving
<1>5. ops.version \in Nat
  BY SettingsFacts DEF OperationsTyped
<1>6. OperationsTyped'
  BY <1>1, <1>4 DEF OperationsTyped, Restore, Serving
<1>7. ConsoleFits'
  BY <1>1, <1>4 DEF ConsoleFits, Restore, Serving
<1>8. PageIsOlder' /\ tab'.version < ops'.version
  BY <1>4, <1>5 DEF PageIsOlder, Restore
<1>9. JobFits' /\ PromiseIsPending'
  BY <1>1, <1>2, <1>4, <1>8 DEF JobFits, PromiseIsPending, Restore
<1>10. PolicyFits'
  BY <1>4 DEF PolicyFits, Restore
<1>11. PublishedIsServed'
  BY <1>1 DEF PublishedIsServed, Restore, Serving
<1> QED
  BY <1>6, <1>7, <1>8, <1>9, <1>10, <1>11

\* The second write of restore keeps the version, but every page is of an earlier one.
LEMMA RestorePolicyStep == ASSUME OperationsIInv, RestorePolicy PROVE OperationsIInv'
<1> USE DEF OperationsIInv
<1>1. /\ pc = "restoring" /\ pc' = "idle" /\ promised' = job
      /\ ops' = [ops EXCEPT !.pending.policy = job.policy]
  BY DEF RestorePolicy
<1>2. /\ job \in Saved(secrets) /\ ops.pending \in Saved(secrets)
      /\ ops.pending.config = job.config /\ tab.version < ops.version
  BY <1>1 DEF JobFits
<1> DEFINE p == [ops.pending EXCEPT !.policy = job.policy]
<1>3. p \in Saved(secrets) /\ p.policy = job.policy /\ p.config = job.config
  <2>1. /\ job.policy \in Policies \cup {None}
        /\ job.policy # None => job.policy.routes = job.config.routes
    BY <1>2, SavedFacts
  <2> QED
    BY <1>2, <2>1, SavedWithPolicy
<1>4. ops' = [ops EXCEPT !.pending = p]
  BY <1>1
<1> HIDE DEF p
<1>5. /\ ops' \in Settings(secrets) /\ ops'.version = ops.version
      /\ ops'.active = ops.active /\ ops'.pending = p
  BY <1>3, <1>4 DEF OperationsTyped, Settings
<1>6. ops.version \in Nat
  BY SettingsFacts DEF OperationsTyped
<1>7. OperationsTyped'
  BY <1>1, <1>5 DEF OperationsTyped, RestorePolicy, Serving
<1>8. ConsoleFits'
  BY <1>1, <1>5 DEF ConsoleFits, RestorePolicy, Serving
<1>9. JobFits' /\ PublishedIsServed'
  BY <1>1 DEF JobFits, PublishedIsServed, RestorePolicy, Serving
<1>10. PolicyFits'
  BY <1>5 DEF PolicyFits, RestorePolicy
<1>11. PageIsOlder'
  BY <1>2, <1>5, <1>6 DEF PageIsOlder, RestorePolicy
<1>12. PromiseIsPending'
  BY <1>1, <1>3, <1>5 DEF PromiseIsPending
<1> QED
  BY <1>7, <1>8, <1>9, <1>10, <1>11, <1>12

\* What activate-config puts in force fits, unless the file left the policy behind.
LEMMA ActivateStep == ASSUME OperationsIInv, Activate PROVE OperationsIInv'
<1> USE DEF OperationsIInv
<1> DEFINE c == ops.pending.config
<1>1. /\ pc = "down" /\ pc' = "activated" /\ ops.pending # None /\ promised' = None
      /\ config' = c
      /\ policy' = IF ops.pending.policy # None
                     THEN [ops.pending.policy EXCEPT !.version = Version + 1]
                   ELSE IF c.routes # ActiveConfig.routes THEN Defaults(c.routes, Version + 1)
                   ELSE policy
      /\ unmigrated' = (unmigrated \/ (ops.active = None /\ policy # None
                                        /\ policy.routes # file.routes))
      /\ ops' = [ops EXCEPT !.version = @ + 1, !.active = ops.pending, !.pending = None]
      /\ UNCHANGED <<file, edits, secrets, current, saves, job, due, tab>>
  BY DEF Activate
<1>2. ops.version \in Nat /\ ops.pending \in Saved(secrets)
  BY <1>1, SettingsFacts DEF OperationsTyped
<1>3. /\ c \in Configs /\ ops.pending.policy \in Policies \cup {None}
      /\ ops.pending.policy # None => ops.pending.policy.routes = c.routes
  BY <1>2, SavedFacts
<1>4. /\ ops' \in Settings(secrets) /\ ops'.version = ops.version + 1
      /\ ops'.active = ops.pending
  <2> DEFINE S == Saved(secrets) \cup {None}
             H == Seq(Saved(secrets))
  <2>1. ops \in [version : Nat, pending : S, active : S, history : H]
    BY DEF OperationsTyped, Settings
  <2>2. ops.pending \in S /\ None \in S /\ ops.version + 1 \in Nat
    BY <1>2
  <2> HIDE DEF S, H
  <2>3. /\ ops' \in [version : Nat, pending : S, active : S, history : H]
        /\ ops'.version = ops.version + 1 /\ ops'.active = ops.pending
    BY <1>1, <2>1, <2>2
  <2> QED
    BY <2>3 DEF S, H, Settings
<1>5. Version + 1 \in Nat
  BY DEF Version, OperationsTyped, Policies
<1>6. /\ policy' \in Policies \cup {None}
      /\ (policy' # None /\ ~unmigrated') => policy'.routes = c.routes
  <2> DEFINE v == Version + 1
             q == ops.pending.policy
  <2>1. v \in Nat
    BY <1>5
  <2> HIDE DEF v
  <2>2. CASE ops.pending.policy # None
    <3>1. q \in Policies /\ q.routes = c.routes
      BY <1>3, <2>2
    <3>2. policy' = [q EXCEPT !.version = v]
      BY <1>1, <2>2 DEF v
    <3> HIDE DEF q
    <3>3. policy' \in Policies /\ policy'.routes = q.routes
      BY <2>1, <3>1, <3>2 DEF Policies
    <3> QED
      BY <3>1, <3>3
  <2>3. CASE ops.pending.policy = None /\ c.routes # ActiveConfig.routes
    <3>1. policy' = Defaults(c.routes, v)
      BY <1>1, <2>3 DEF v
    <3>2. c.routes \in Routes
      BY <1>3 DEF Configs
    <3> QED
      BY <2>1, <3>1, <3>2, DefaultsFacts
  <2>4. CASE ops.pending.policy = None /\ c.routes = ActiveConfig.routes
    <3>1. policy' = policy
      BY <1>1, <2>4
    <3>2. ASSUME policy' # None, ~unmigrated' PROVE policy'.routes = c.routes
      <4>1. CASE ops.active = None
        BY <1>1, <2>4, <3>1, <3>2, <4>1, ActiveConfigFacts
      <4>2. CASE ops.active # None
        BY <1>1, <2>4, <3>1, <3>2, <4>2, ActiveConfigFacts DEF PolicyFits
      <4> QED
        BY <4>1, <4>2
    <3> QED
      BY <3>1, <3>2 DEF OperationsTyped
  <2> QED
    BY <2>2, <2>3, <2>4
<1>7. OperationsTyped'
  BY <1>1, <1>4, <1>6 DEF OperationsTyped
<1>8. ConsoleFits' /\ PublishedIsServed' /\ PromiseIsPending'
  BY <1>1 DEF ConsoleFits, PublishedIsServed, PromiseIsPending, Serving
<1>9. JobFits'
  BY <1>1, <1>2, <1>4 DEF JobFits
<1>10. PolicyFits'
  BY <1>4, <1>6 DEF PolicyFits
<1>11. PageIsOlder'
  BY <1>1, <1>2, <1>4 DEF PageIsOlder
<1> QED
  BY <1>7, <1>8, <1>9, <1>10, <1>11

\* activate-config seeds a policy for its connection where there is none.
LEMMA PublishActivatedStep == ASSUME OperationsIInv, PublishActivated PROVE OperationsIInv'
<1> USE DEF OperationsIInv, PublishActivated, historyVars
<1>1. config = ops.active.config /\ config \in Configs
  <2>1. ops.active \in Saved(secrets) /\ config = ops.active.config
    BY DEF JobFits
  <2> QED
    BY <2>1, SavedFacts
<1>2. /\ policy' \in Policies /\ (policy # None => policy' = policy)
      /\ policy = None => policy'.routes = config.routes
  BY <1>1, SeededFacts
<1>3. OperationsTyped'
  BY <1>2 DEF OperationsTyped, Serving
<1>4. ConsoleFits' /\ JobFits' /\ PublishedIsServed'
  BY DEF ConsoleFits, JobFits, PublishedIsServed, Serving
<1>5. PolicyFits'
  BY <1>1, <1>2 DEF PolicyFits
<1>6. PageIsOlder' /\ PromiseIsPending'
  BY DEF PageIsOlder, PromiseIsPending
<1> QED
  BY <1>3, <1>4, <1>5, <1>6

\* Outside the console and activate-config: the policy or the file is gone or other.
LEMMA StoppedSteps ==
    ASSUME OperationsIInv,
           PolicyReset \/ End \/
             \E r \in Routes, t \in Trusts :
               EditFile([routes |-> r, trust |-> t, secret |-> None])
    PROVE  OperationsIInv'
<1> USE DEF OperationsIInv, historyVars, consoleVars
<1>1. CASE PolicyReset
  BY <1>1 DEF PolicyReset, OperationsTyped, ConsoleFits, JobFits, PolicyFits, PageIsOlder,
              PromiseIsPending, PublishedIsServed, Serving
<1>2. CASE End
  BY <1>2 DEF End, OperationsTyped, ConsoleFits, JobFits, PolicyFits, PageIsOlder,
              PromiseIsPending, PublishedIsServed, Serving
<1>3. ASSUME NEW r \in Routes, NEW t \in Trusts,
             EditFile([routes |-> r, trust |-> t, secret |-> None])
      PROVE  OperationsIInv'
  <2>1. file' \in Configs /\ file'.secret = None
    BY <1>3 DEF EditFile, Configs
  <2>2. UNCHANGED <<ops, policy, secrets, current, saves, consoleVars, historyVars>>
    BY <1>3 DEF EditFile
  <2> QED
    BY <2>1, <2>2 DEF OperationsTyped, ConsoleFits, JobFits, PolicyFits, PageIsOlder,
                      PromiseIsPending, PublishedIsServed
<1> QED
  BY <1>1, <1>2, <1>3

\* No step of the console, of the commands or of a fault breaks the invariant.
LEMMA OperationsStep == OperationsIInv /\ [OperationsNext]_operations => OperationsIInv'
<1> SUFFICES ASSUME OperationsIInv, [OperationsNext]_operations PROVE OperationsIInv'
  OBVIOUS
<1>1. CASE ControlStart \/ Publish \/ Apply \/ Refresh
  BY <1>1, ControlStartStep, PublishStep, ApplyStep, RefreshStep
<1>2. CASE \E c \in Configs : Stage(c)
  BY <1>2, StageKnownStep
<1>3. CASE \E r \in Routes : StageSecret(r)
  BY <1>3, StageSecretStep
<1>4. CASE StageCommit \/ RestorePolicy
  BY <1>4, StageCommitStep, RestorePolicyStep
<1>5. CASE \E item \in Range(ops.history) : Restore(item)
  BY <1>5, RestoreStep
<1>6. CASE Activate \/ PublishActivated
  BY <1>6, ActivateStep, PublishActivatedStep
<1>7. CASE PolicyReset \/ End \/
             \E r \in Routes, t \in Trusts :
               EditFile([routes |-> r, trust |-> t, secret |-> None])
  BY <1>7, StoppedSteps
<1>8. CASE UNCHANGED operations
  BY <1>8 DEF operations, consoleVars, historyVars, OperationsIInv, OperationsTyped,
              ConsoleFits, JobFits, PolicyFits, PageIsOlder, PromiseIsPending,
              PublishedIsServed
<1> QED
  BY <1>1, <1>2, <1>3, <1>4, <1>5, <1>6, <1>7, <1>8 DEF OperationsNext

-----------------------------------------------------------------------------
(* What follows.                                                            *)

\* The settings, the policy and what runs fit each other in every reachable state.
THEOREM OperationsInvariantHolds == OperationsSpec => []OperationsIInv
  BY OperationsStart, OperationsStep, PTL DEF OperationsSpec

\* A connection that can be activated or restored has its secret and a policy for its
\* routes (operations.py stage, restore and activate).
THEOREM SavedConnectionsAreUsable == OperationsSpec => []ConnectionsAreUsable
<1>1. OperationsIInv => ConnectionsAreUsable
  <2> SUFFICES ASSUME OperationsIInv PROVE ConnectionsAreUsable
    OBVIOUS
  <2>1. /\ ops.pending \in Saved(secrets) \cup {None} /\ ops.active \in Saved(secrets) \cup {None}
        /\ \A e \in Range(ops.history) : e \in Saved(secrets)
    BY SettingsFacts DEF OperationsIInv, OperationsTyped
  <2>2. \A e \in Entries : e \in Saved(secrets)
    BY <2>1 DEF Entries
  <2>3. \A e \in Entries : /\ e.policy # None => e.policy.routes = e.config.routes
                           /\ e.config.secret \in secrets \cup {None}
    BY <2>2, SavedFacts
  <2> QED
    BY <2>3 DEF OperationsIInv, PolicyFits, ConnectionsAreUsable
<1> QED
  BY <1>1, OperationsInvariantHolds, PTL

\* A page that passes the version check of stage and restore shows the settings that
\* it is about to replace (operations.py restore writes twice under one version).
THEOREM PagesAreUpToDate == OperationsSpec => []VersionNamesSettings
<1>1. OperationsIInv => VersionNamesSettings
  BY DEF OperationsIInv, PageIsOlder, VersionNamesSettings
<1> QED
  BY <1>1, OperationsInvariantHolds, PTL

\* Nothing else changes the active connection.
LEMMA OnlyActivateActivates ==
    ASSUME OperationsTyped, OperationsNext, ops'.active # ops.active PROVE Activate
<1>1. \A c : Staged(c).active = ops.active
  BY DEF OperationsTyped, Settings, Staged
<1>2. RestorePolicy => ops'.active = ops.active
  BY DEF RestorePolicy, OperationsTyped, Settings
<1>3. \/ UNCHANGED ops
      \/ \E c : ops' = Staged(c)
      \/ RestorePolicy
      \/ Activate
  BY DEF OperationsNext, ControlStart, Publish, Apply, Refresh, Stage, StageSecret,
         StageCommit, Restore, PublishActivated, PolicyReset, EditFile, End
<1> QED
  BY <1>1, <1>2, <1>3

\* The connection and the policy that the console announced as restored are those the
\* next activation puts in force (operations.py restore, activate).
THEOREM RestoreIsKept == OperationsSpec => RestoredIsActivated
<1> DEFINE Kept ==
      (promised # None /\ ops'.active # ops.active) =>
         /\ ops'.active.config = promised.config
         /\ promised.policy # None =>
              policy' = [promised.policy EXCEPT !.version = policy'.version]
<1>1. OperationsIInv /\ [OperationsNext]_operations => [Kept]_operations
  <2> SUFFICES ASSUME OperationsIInv, OperationsNext,
                      promised # None, ops'.active # ops.active
               PROVE  /\ ops'.active.config = promised.config
                      /\ promised.policy # None =>
                           policy' = [promised.policy EXCEPT !.version = policy'.version]
    OBVIOUS
  <2> USE DEF OperationsIInv
  <2>1. /\ promised.config = ops.pending.config
        /\ promised.policy = ops.pending.policy
    BY DEF PromiseIsPending
  <2>2. CASE Activate
    <3>1. /\ ops.pending # None
          /\ ops' = [ops EXCEPT !.version = @ + 1, !.active = ops.pending, !.pending = None]
          /\ ops.pending.policy # None =>
               policy' = [ops.pending.policy EXCEPT !.version = Version + 1]
      BY <2>2 DEF Activate
    <3>2. ops'.active = ops.pending
      BY <3>1 DEF OperationsTyped, Settings
    <3>3. ASSUME promised.policy # None
          PROVE  policy' = [promised.policy EXCEPT !.version = policy'.version]
      <4> DEFINE q == promised.policy
                 v == Version + 1
      <4>1. ops.pending \in Saved(secrets)
        BY <3>1, SettingsFacts DEF OperationsTyped
      <4>2. q \in Policies /\ policy' = [q EXCEPT !.version = v]
        BY <2>1, <3>1, <3>3, <4>1, SavedFacts
      <4> HIDE DEF q, v
      <4>3. policy'.version = v
        BY <4>2 DEF Policies
      <4>4. policy' = [q EXCEPT !.version = policy'.version]
        BY <4>2, <4>3
      <4> QED
        BY <4>4 DEF q
    <3> QED
      BY <2>1, <3>2, <3>3
  <2>3. Activate
    BY OnlyActivateActivates
  <2> QED
    BY <2>2, <2>3
<1> QED
  BY <1>1, OperationsInvariantHolds, PTL DEF OperationsSpec, RestoredIsActivated

\* An idle console has published the active connection and the saved policy, or has an
\* applied policy to publish (main.py serve_control, runtime.py apply).
THEOREM PublishedIsInForce == OperationsSpec => []PublishedIsActive
<1>1. OperationsIInv => PublishedIsActive
  BY DEF OperationsIInv, PublishedIsServed, PublishedIsActive, Serving
<1> QED
  BY <1>1, OperationsInvariantHolds, PTL
=============================================================================
