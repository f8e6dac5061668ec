--------------------------- MODULE OperatorLogin ---------------------------
(***************************************************************************)
(* Signing in (routes/auth.ts, lib/operator-user.ts, lib/bearer-auth.ts):  *)
(* the authorization-code flow with its pending logins, kept in the memory *)
(* of the replica that issued them, the signed transaction cookie that     *)
(* ties a callback to the browser that asked for it, and the allow-list    *)
(* that every login and every bearer request passes through.               *)
(***************************************************************************)
EXTENDS Integers, FiniteSets

CONSTANTS
    LoginReplicas,   \* API processes
    Browsers,
    Callbacks,       \* callback requests that may be in flight at once
    Accounts,        \* accounts of the identity provider
    Allowed,         \* those the configured allow-lists admit
    NoEmail,         \* those whose claims lack an email or a subject
    Nobody,
    PendingTtl,      \* pendingLoginTtlMs, in ticks
    MaxLogins,       \* bound on logins started
    MaxLoginTime     \* bound on the clock

ASSUME LoginAssumption ==
    /\ Allowed \subseteq Accounts /\ NoEmail \subseteq Accounts
    /\ PendingTtl \in Nat /\ MaxLogins \in Nat /\ MaxLoginTime \in Nat

VARIABLES
    clock,      \* the time
    issued,     \* how many login states have been issued
    pending,    \* pendingLogins of each replica: state -> when it was issued
    tx,         \* the transaction cookie of each browser: a state, or 0
    asked,      \* which browser asked for which state, when
    codes,      \* redirects of the provider that were not redeemed yet
    callback,   \* the callbacks in flight
    sessions,   \* the sessions created
    users       \* the operatorUser rows

loginVars == <<clock, issued, pending, tx, asked, codes, callback, sessions, users>>

NoCallback == [at |-> "idle", state |-> 0, by |-> Nobody, account |-> Nobody]

LoginInit ==
    /\ clock = 0 /\ issued = 0
    /\ pending = [r \in LoginReplicas |-> {}]
    /\ tx = [b \in Browsers |-> 0]
    /\ asked = {} /\ codes = {} /\ sessions = {} /\ users = {}
    /\ callback = [k \in Callbacks |-> NoCallback]

Pruned(r) == {p \in pending[r] : p.at >= clock - PendingTtl}

(* GET /login.  The state is remembered before the provider is contacted;  *)
(* when that fails the browser gets no cookie.                             *)
Login(b, r) ==
    /\ issued < MaxLogins
    /\ issued' = issued + 1
    /\ pending' = [pending EXCEPT ![r] = Pruned(r) \cup {[state |-> issued', at |-> clock]}]
    /\ \/ /\ tx' = [tx EXCEPT ![b] = issued']
          /\ asked' = asked \cup {[state |-> issued', by |-> b, at |-> clock]}
       \/ UNCHANGED <<tx, asked>>
    /\ UNCHANGED <<clock, codes, callback, sessions, users>>

(* The provider sends the browser back with a code for the state.  The     *)
(* page can be reloaded, so one state may come back with several codes.    *)
ProviderRedirects(s, a) ==
    /\ s \in {x.state : x \in asked}
    /\ Cardinality({c \in codes : c.state = s}) < 2
    /\ codes' = codes \cup {[state |-> s, account |-> a]}
    /\ UNCHANGED <<clock, issued, pending, tx, asked, callback, sessions, users>>

(* Mutant: the state is looked up but stays in memory.                     *)
ReceiveCallbackAgain(k, b, r, code) ==
    LET known == code.state \in {p.state : p \in Pruned(r)}
    IN  /\ callback[k] = NoCallback
        /\ tx[b] = code.state
        /\ pending' = [pending EXCEPT ![r] = Pruned(r)]
        /\ known
        /\ callback' = [callback EXCEPT ![k] =
                 [at |-> "exchange", state |-> code.state, by |-> b,
                  account |-> code.account]]
        /\ UNCHANGED <<clock, issued, tx, asked, codes, sessions, users>>

(* GET /callback up to the exchange: the cookie the request carries must   *)
(* name the state, and the state is taken out of the replica's memory.     *)
(* The browser drops its cookie when the answer arrives, so two callbacks  *)
(* in flight may both carry it.                                            *)
ReceiveCallback(k, b, r, code) ==
    LET known == code.state \in {p.state : p \in Pruned(r)}
    IN  /\ callback[k] = NoCallback
        /\ tx[b] = code.state
        /\ pending' = [pending EXCEPT ![r] = {p \in Pruned(r) : p.state # code.state}]
        /\ IF known
           THEN /\ callback' = [callback EXCEPT ![k] =
                      [at |-> "exchange", state |-> code.state, by |-> b,
                       account |-> code.account]]
                /\ UNCHANGED tx
           ELSE /\ tx' = [tx EXCEPT ![b] = 0]
                /\ UNCHANGED callback
        /\ UNCHANGED <<clock, issued, asked, codes, sessions, users>>

(* The provider reported an error, the code or state is missing, or the    *)
(* cookie does not match: nothing is taken, the cookie is cleared.         *)
RefuseCallback(b, code) ==
    /\ tx[b] # 0 /\ tx[b] # code.state
    /\ tx' = [tx EXCEPT ![b] = 0]
    /\ UNCHANGED <<clock, issued, pending, asked, codes, callback, sessions, users>>

EndCallback(k) ==
    /\ callback' = [callback EXCEPT ![k] = NoCallback]
    /\ tx' = [tx EXCEPT ![callback[k].by] = 0]

(* exchangeCode: the provider redeems a code once.                         *)
Exchange(k) ==
    LET code == [state |-> callback[k].state, account |-> callback[k].account]
    IN  /\ callback[k].at = "exchange"
        /\ IF code \in codes
           THEN callback' = [callback EXCEPT ![k].at = "authorize"] /\ UNCHANGED tx
           ELSE EndCallback(k)
        /\ codes' = codes \ {code}
        /\ UNCHANGED <<clock, issued, pending, asked, sessions, users>>

(* validateAuthorization fails closed, then the claims must name a user.   *)
Authorized(a) == a \in Allowed /\ a \notin NoEmail

Authorize(k) ==
    /\ callback[k].at = "authorize"
    /\ IF Authorized(callback[k].account)
       THEN /\ users' = users \cup {callback[k].account}
            /\ callback' = [callback EXCEPT ![k].at = "create"] /\ UNCHANGED tx
       ELSE EndCallback(k) /\ UNCHANGED users
    /\ UNCHANGED <<clock, issued, pending, asked, codes, sessions>>

(* createSession; when it fails the user row stays and the login is over.  *)
CreateSession(k) ==
    /\ callback[k].at = "create"
    /\ sessions' \in {sessions,
                      sessions \cup {[state |-> callback[k].state, by |-> callback[k].by,
                                      account |-> callback[k].account, at |-> clock,
                                      nth |-> Cardinality({x \in sessions :
                                                x.state = callback[k].state}) + 1]}}
    /\ EndCallback(k)
    /\ UNCHANGED <<clock, issued, pending, asked, codes, users>>

(* verifyOperatorBearer: a native client's signed token takes the same     *)
(* authorization and upsert, without a session.                            *)
BearerRequest(a) ==
    /\ Authorized(a)
    /\ users' = users \cup {a}
    /\ UNCHANGED <<clock, issued, pending, tx, asked, codes, callback, sessions>>

LoginTick ==
    /\ clock < MaxLoginTime
    /\ clock' = clock + 1
    /\ UNCHANGED <<issued, pending, tx, asked, codes, callback, sessions, users>>

(* A replica restarts and forgets its pending logins.  (A callback that it *)
(* was handling takes no further step.)                                    *)
LoginRestart(r) ==
    /\ pending[r] # {}
    /\ pending' = [pending EXCEPT ![r] = {}]
    /\ UNCHANGED <<clock, issued, tx, asked, codes, callback, sessions, users>>

LoginNext ==
    \/ \E b \in Browsers, r \in LoginReplicas : Login(b, r)
    \/ \E s \in 1 .. MaxLogins, a \in Accounts : ProviderRedirects(s, a)
    \/ \E b \in Browsers, code \in codes :
         \/ RefuseCallback(b, code)
         \/ \E k \in Callbacks, r \in LoginReplicas : ReceiveCallback(k, b, r, code)
    \/ \E k \in Callbacks : Exchange(k) \/ Authorize(k) \/ CreateSession(k)
    \/ \E a \in Accounts : BearerRequest(a)
    \/ \E r \in LoginReplicas : LoginRestart(r)
    \/ LoginTick

LoginSpec == LoginInit /\ [][LoginNext]_loginVars

-----------------------------------------------------------------------------
(* A session is earned by one login (the callback handler): the browser    *)
(* that holds it asked for that login itself, the account passed the       *)
(* allow-list, and the login yields no second session, although callbacks  *)
(* with the same cookie and state may be in flight together.               *)
SessionsAreEarned ==
    \A x \in sessions :
        /\ \E y \in asked : y.state = x.state /\ y.by = x.by
        /\ Authorized(x.account)
        /\ x.nth = 1
=============================================================================
