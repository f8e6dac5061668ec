---------------------------- MODULE AccessProofs ----------------------------
(***************************************************************************)
(* Who is let in: proofs about OperatorLogin, ApiTokens and                *)
(* OperatorSession.  They share no variable, and each part is proved on    *)
(* its own.                                                                *)
(***************************************************************************)
EXTENDS OperatorLogin, ApiTokens, OperatorSession, FiniteSetTheorems, TLAPS

-----------------------------------------------------------------------------
(* A session is earned by one login: proved for any number of replicas,    *)
(* browsers, accounts and callbacks.  A state is in the memory of one      *)
(* replica, in one callback or in one session, and in one of these only;   *)
(* that a session has no twin follows.                                     *)

PendingLogin == [state : Nat \ {0}, at : Nat]
Ask == [state : Nat \ {0}, by : Browsers, at : Nat]
Callback == [at : {"idle", "exchange", "authorize", "create"}, state : Nat,
             by : Browsers \cup {Nobody}, account : Accounts \cup {Nobody}]

LoginTypeOK ==
    /\ clock \in Nat /\ issued \in Nat
    /\ pending \in [LoginReplicas -> SUBSET PendingLogin]
    /\ tx \in [Browsers -> Nat]
    /\ asked \subseteq Ask
    /\ codes \subseteq [state : Nat, account : Accounts]
    /\ callback \in [Callbacks -> Callback]
    /\ \A x \in sessions : x.state \in Nat

(* States are numbered, so a new one is nowhere yet.                       *)
StatesAreIssued ==
    /\ \A r \in LoginReplicas : \A p \in pending[r] : p.state <= issued
    /\ \A k \in Callbacks : callback[k].state <= issued
    /\ \A x \in sessions : x.state <= issued

(* A state is remembered by one replica at most, ...                       *)
OneReplicaKnows ==
    \A r, q \in LoginReplicas : \A p \in pending[r], o \in pending[q] :
      p.state = o.state => r = q

(* ... and taken out of its memory for one callback only.                  *)
TakenOnce ==
    \A k \in Callbacks : callback[k].at # "idle" =>
      /\ \A r \in LoginReplicas : \A p \in pending[r] : p.state # callback[k].state
      /\ \A x \in sessions : x.state # callback[k].state
      /\ \A j \in Callbacks : callback[j].at # "idle" /\ callback[j].state = callback[k].state
                              => j = k

SpentOnce ==
    \A x \in sessions : \A r \in LoginReplicas : \A p \in pending[r] : p.state # x.state

(* The transaction cookie names a login its browser asked for, and so does *)
(* a callback.                                                             *)
AskedFor(s, b) == \E y \in asked : y.state = s /\ y.by = b
CookiesAreOwn == \A b \in Browsers : tx[b] # 0 => AskedFor(tx[b], b)
CallbacksAreOwn ==
    \A k \in Callbacks : callback[k].at # "idle" =>
      /\ callback[k].by \in Browsers
      /\ AskedFor(callback[k].state, callback[k].by)
      /\ callback[k].at = "create" => Authorized(callback[k].account)

LoginInv ==
    /\ LoginTypeOK /\ StatesAreIssued /\ OneReplicaKnows /\ TakenOnce /\ SpentOnce
    /\ CookiesAreOwn /\ CallbacksAreOwn /\ SessionsAreEarned

-----------------------------------------------------------------------------
LEMMA LoginInitInv == LoginInit => LoginInv
  BY DEF LoginInit, LoginInv, LoginTypeOK, StatesAreIssued, OneReplicaKnows, TakenOnce,
         SpentOnce, CookiesAreOwn, CallbacksAreOwn, SessionsAreEarned, NoCallback, Callback

(* A replica forgets some of its pending logins.                           *)
LEMMA PrunedIsPending ==
  ASSUME NEW r \in LoginReplicas
  PROVE  Pruned(r) \subseteq pending[r]
  BY DEF Pruned

LEMMA StartLoginInv ==
  ASSUME LoginInv, NEW b \in Browsers, NEW r \in LoginReplicas, Login(b, r)
  PROVE  LoginInv'
<1> DEFINE new == [state |-> issued', at |-> clock]
<1>1. /\ issued' = issued + 1
      /\ pending' = [pending EXCEPT ![r] = Pruned(r) \cup {new}]
      /\ \/ /\ tx' = [tx EXCEPT ![b] = issued']
            /\ asked' = asked \cup {[state |-> issued', by |-> b, at |-> clock]}
         \/ UNCHANGED <<tx, asked>>
      /\ UNCHANGED <<clock, codes, callback, sessions>>
  BY DEF Login
<1>2. issued \in Nat /\ issued' \in Nat \ {0} /\ issued' > issued /\ clock \in Nat
  BY <1>1 DEF LoginInv, LoginTypeOK
<1>3. \A q \in LoginReplicas : \A p \in pending'[q] :
        (p \in pending[q]) \/ (q = r /\ p.state = issued')
  BY <1>1, PrunedIsPending DEF LoginInv, LoginTypeOK
<1>4. \A q \in LoginReplicas : \A p \in pending[q] : p.state \in Nat /\ p.state <= issued
  BY DEF LoginInv, LoginTypeOK, StatesAreIssued, PendingLogin
<1>5. LoginTypeOK'
  <2>1. new \in PendingLogin /\ Pruned(r) \subseteq PendingLogin
    BY <1>2, PrunedIsPending DEF LoginInv, LoginTypeOK, PendingLogin
  <2>2. pending' \in [LoginReplicas -> SUBSET PendingLogin]
    BY <1>1, <2>1 DEF LoginInv, LoginTypeOK
  <2>3. tx' \in [Browsers -> Nat] /\ asked' \subseteq Ask
    BY <1>1, <1>2 DEF LoginInv, LoginTypeOK, Ask
  <2> QED
    BY <1>1, <1>2, <2>2, <2>3 DEF LoginInv, LoginTypeOK
<1>6. \A k \in Callbacks : callback[k].state \in Nat /\ callback[k].state <= issued
  BY DEF LoginInv, LoginTypeOK, StatesAreIssued, Callback
<1>7. StatesAreIssued'
  <2>1. \A q \in LoginReplicas : \A p \in pending'[q] : p.state <= issued'
    BY <1>2, <1>3, <1>4
  <2>2. \A k \in Callbacks : callback'[k].state <= issued'
    BY <1>1, <1>2, <1>6
  <2>3. \A x \in sessions' : x.state <= issued'
    <3> SUFFICES ASSUME NEW x \in sessions PROVE x.state <= issued'
      BY <1>1
    <3>1. x.state \in Nat /\ x.state <= issued
      BY DEF LoginInv, LoginTypeOK, StatesAreIssued
    <3> QED
      BY <1>2, <3>1
  <2> QED
    BY <2>1, <2>2, <2>3 DEF StatesAreIssued
<1>8. OneReplicaKnows'
  BY <1>2, <1>3, <1>4 DEF LoginInv, OneReplicaKnows
<1>9. TakenOnce'
  BY <1>1, <1>2, <1>3, <1>6 DEF LoginInv, TakenOnce
<1>10. SpentOnce'
  <2>1. \A x \in sessions : x.state \in Nat /\ x.state <= issued
    BY DEF LoginInv, LoginTypeOK, StatesAreIssued
  <2>2. \A x \in sessions : \A q \in LoginReplicas : \A p \in pending[q] : p.state # x.state
    BY DEF LoginInv, SpentOnce
  <2> QED
    BY <1>1, <1>2, <1>3, <2>1, <2>2 DEF SpentOnce
<1>11. \A s \in Nat, c \in Browsers : AskedFor(s, c) => AskedFor(s, c)'
  BY <1>1 DEF AskedFor
<1>12. CookiesAreOwn'
  <2>1. \A c \in Browsers : tx[c] # 0 => \E y \in asked' : y.state = tx[c] /\ y.by = c
    BY <1>1 DEF LoginInv, CookiesAreOwn, AskedFor
  <2>2. CASE UNCHANGED tx
    BY <2>1, <2>2 DEF CookiesAreOwn, AskedFor
  <2>3. CASE /\ tx' = [tx EXCEPT ![b] = issued']
             /\ asked' = asked \cup {[state |-> issued', by |-> b, at |-> clock]}
    <3> DEFINE own == [state |-> issued', by |-> b, at |-> clock]
    <3>1. own \in asked' /\ own.state = issued' /\ own.by = b
      BY <2>3
    <3> HIDE DEF own
    <3>2. \A c \in Browsers : tx'[c] = IF c = b THEN issued' ELSE tx[c]
      BY <2>3 DEF LoginInv, LoginTypeOK
    <3> QED
      BY <2>1, <3>1, <3>2 DEF CookiesAreOwn, AskedFor
  <2> QED
    BY <1>1, <2>2, <2>3
<1>13. CallbacksAreOwn'
  BY <1>1, <1>6, <1>11 DEF LoginInv, CallbacksAreOwn
<1>14. SessionsAreEarned'
  BY <1>1 DEF LoginInv, SessionsAreEarned
<1> QED
  BY <1>5, <1>7, <1>8, <1>9, <1>10, <1>12, <1>13, <1>14 DEF LoginInv

(* Steps that only forget: pending logins and cookies may go.              *)
LEMMA ForgetInv ==
  ASSUME LoginInv, UNCHANGED <<issued, asked, sessions, callback>>,
         clock' \in Nat, codes' \subseteq [state : Nat, account : Accounts],
         pending' \in [LoginReplicas -> SUBSET PendingLogin],
         \A r \in LoginReplicas : pending'[r] \subseteq pending[r],
         tx' \in [Browsers -> Nat],
         \A b \in Browsers : tx'[b] = tx[b] \/ tx'[b] = 0
  PROVE  LoginInv'
<1>1. LoginTypeOK' /\ StatesAreIssued'
  BY DEF LoginInv, LoginTypeOK, StatesAreIssued
<1>2. OneReplicaKnows' /\ TakenOnce' /\ SpentOnce'
  BY DEF LoginInv, OneReplicaKnows, TakenOnce, SpentOnce
<1>3. CookiesAreOwn' /\ CallbacksAreOwn' /\ SessionsAreEarned'
  BY DEF LoginInv, CookiesAreOwn, CallbacksAreOwn, SessionsAreEarned, AskedFor
<1> QED
  BY <1>1, <1>2, <1>3 DEF LoginInv

(* GET /callback takes the state out of the one memory that has it.        *)
LEMMA ReceiveCallbackInv ==
  ASSUME LoginInv, NEW k \in Callbacks, NEW b \in Browsers, NEW r \in LoginReplicas,
         NEW code \in codes, ReceiveCallback(k, b, r, code)
  PROVE  LoginInv'
<1> DEFINE s == code.state
<1>1. /\ callback[k] = NoCallback /\ tx[b] = s
      /\ pending' = [pending EXCEPT ![r] = {p \in Pruned(r) : p.state # s}]
      /\ UNCHANGED <<clock, issued, asked, codes, sessions>>
  BY DEF ReceiveCallback
<1>2. s \in Nat /\ code.account \in Accounts
  BY DEF LoginInv, LoginTypeOK
<1>3. /\ pending' \in [LoginReplicas -> SUBSET PendingLogin]
      /\ \A q \in LoginReplicas : pending'[q] \subseteq pending[q]
      /\ \A p \in pending'[r] : p.state # s
  BY <1>1, PrunedIsPending DEF LoginInv, LoginTypeOK
<1>4. CASE s \in {p.state : p \in Pruned(r)}
  <2>1. /\ callback' = [callback EXCEPT ![k] = [at |-> "exchange", state |-> s, by |-> b,
                                                account |-> code.account]]
        /\ UNCHANGED tx
    BY <1>4 DEF ReceiveCallback
  <2>2. PICK o \in pending[r] : o.state = s
    BY <1>4, PrunedIsPending
  <2>3. s # 0 /\ s <= issued
    BY <2>2 DEF LoginInv, LoginTypeOK, StatesAreIssued, PendingLogin
  <2>4. LoginTypeOK'
    BY <1>1, <1>2, <1>3, <2>1 DEF LoginInv, LoginTypeOK, Callback
  <2>5. StatesAreIssued'
    BY <1>1, <1>3, <2>1, <2>3 DEF LoginInv, LoginTypeOK, StatesAreIssued
  <2>6. OneReplicaKnows' /\ SpentOnce'
    BY <1>1, <1>3 DEF LoginInv, OneReplicaKnows, SpentOnce
  <2>7. \A q \in LoginReplicas : \A p \in pending'[q] : p.state # s
    BY <1>3, <2>2 DEF LoginInv, OneReplicaKnows
  <2>8. \A x \in sessions : x.state # s
    BY <2>2 DEF LoginInv, SpentOnce
  <2>9. \A j \in Callbacks : callback[j].at # "idle" => callback[j].state # s
    BY <2>2 DEF LoginInv, TakenOnce
  <2>10. TakenOnce'
    BY <1>1, <1>3, <2>1, <2>7, <2>8, <2>9 DEF LoginInv, LoginTypeOK, TakenOnce
  <2>11. AskedFor(s, b)
    BY <1>1, <2>3 DEF LoginInv, CookiesAreOwn
  <2>12. CookiesAreOwn' /\ SessionsAreEarned'
    BY <1>1, <2>1 DEF LoginInv, CookiesAreOwn, SessionsAreEarned, AskedFor
  <2>13. CallbacksAreOwn'
    BY <1>1, <2>1, <2>11 DEF LoginInv, LoginTypeOK, CallbacksAreOwn, AskedFor
  <2> QED
    BY <2>4, <2>5, <2>6, <2>10, <2>12, <2>13 DEF LoginInv
<1>5. CASE s \notin {p.state : p \in Pruned(r)}
  <2>1. tx' = [tx EXCEPT ![b] = 0] /\ UNCHANGED callback
    BY <1>5 DEF ReceiveCallback
  <2>2. tx' \in [Browsers -> Nat] /\ \A c \in Browsers : tx'[c] = tx[c] \/ tx'[c] = 0
    BY <2>1 DEF LoginInv, LoginTypeOK
  <2> QED
    BY <1>1, <1>3, <2>1, <2>2, ForgetInv DEF LoginInv, LoginTypeOK
<1> QED
  BY <1>4, <1>5

(* A callback moves on, or it ends and the browser drops its cookie.       *)
LEMMA AdvanceInv ==
  ASSUME LoginInv, NEW k \in Callbacks, callback[k].at # "idle",
         UNCHANGED <<clock, issued, pending, asked, sessions>>,
         codes' \subseteq codes,
         \/ UNCHANGED tx /\ callback' = [callback EXCEPT ![k].at = "authorize"]
         \/ /\ UNCHANGED tx /\ callback' = [callback EXCEPT ![k].at = "create"]
            /\ Authorized(callback[k].account)
         \/ EndCallback(k)
  PROVE  LoginInv'
<1>1. callback[k] \in Callback
  BY DEF LoginInv, LoginTypeOK
<1>2. PICK c \in Callback :
        /\ callback' = [callback EXCEPT ![k] = c]
        /\ c.at # "idle" => /\ c.state = callback[k].state /\ c.by = callback[k].by
                            /\ c.at = "create" => Authorized(c.account)
        /\ c.state = callback[k].state \/ c.state = 0
  <2>1. CASE callback' = [callback EXCEPT ![k].at = "authorize"]
    <3> DEFINE d == [callback[k] EXCEPT !.at = "authorize"]
    <3>1. d \in Callback /\ d.at = "authorize" /\ d.state = callback[k].state
          /\ d.by = callback[k].by
      BY <1>1 DEF Callback
    <3>2. callback' = [callback EXCEPT ![k] = d]
      BY <2>1
    <3> HIDE DEF d
    <3> QED
      BY <3>1, <3>2
  <2>2. CASE /\ callback' = [callback EXCEPT ![k].at = "create"]
             /\ Authorized(callback[k].account)
    <3> DEFINE d == [callback[k] EXCEPT !.at = "create"]
    <3>1. d \in Callback /\ d.at = "create" /\ d.state = callback[k].state
          /\ d.by = callback[k].by /\ d.account = callback[k].account
      BY <1>1 DEF Callback
    <3>2. callback' = [callback EXCEPT ![k] = d]
      BY <2>2
    <3> HIDE DEF d
    <3> QED
      BY <2>2, <3>1, <3>2
  <2>3. CASE EndCallback(k)
    <3>1. NoCallback \in Callback /\ NoCallback.at = "idle" /\ NoCallback.state = 0
      BY DEF NoCallback, Callback
    <3>2. callback' = [callback EXCEPT ![k] = NoCallback]
      BY <2>3 DEF EndCallback
    <3> QED
      BY <3>1, <3>2
  <2> QED
    BY <2>1, <2>2, <2>3
<1>3. tx' \in [Browsers -> Nat] /\ \A b \in Browsers : tx'[b] = tx[b] \/ tx'[b] = 0
  BY DEF EndCallback, LoginInv, LoginTypeOK
<1>4. LoginTypeOK'
  BY <1>2, <1>3 DEF LoginInv, LoginTypeOK
<1>5. StatesAreIssued' /\ OneReplicaKnows' /\ SpentOnce'
  BY <1>2 DEF LoginInv, LoginTypeOK, StatesAreIssued, OneReplicaKnows, SpentOnce
<1>6. TakenOnce'
  BY <1>2 DEF LoginInv, LoginTypeOK, TakenOnce
<1>7. CookiesAreOwn' /\ SessionsAreEarned'
  BY <1>3 DEF LoginInv, CookiesAreOwn, SessionsAreEarned, AskedFor
<1>8. CallbacksAreOwn'
  BY <1>2 DEF LoginInv, LoginTypeOK, CallbacksAreOwn, AskedFor
<1> QED
  BY <1>4, <1>5, <1>6, <1>7, <1>8 DEF LoginInv

LEMMA CreateSessionInv ==
  ASSUME LoginInv, NEW k \in Callbacks, CreateSession(k)
  PROVE  LoginInv'
<1> DEFINE c == callback[k]
           nth == Cardinality({x \in sessions : x.state = c.state}) + 1
           new == [state |-> c.state, by |-> c.by, account |-> c.account, at |-> clock,
                   nth |-> nth]
<1>1. /\ c.at = "create" /\ sessions' \in {sessions, sessions \cup {new}}
      /\ EndCallback(k) /\ UNCHANGED <<clock, issued, pending, asked, codes>>
  BY DEF CreateSession
<1>2. CASE sessions' = sessions
  BY <1>1, <1>2, AdvanceInv
<1>3. CASE sessions' = sessions \cup {new}
  <2>1. c \in Callback /\ c.state <= issued
    BY DEF LoginInv, LoginTypeOK, StatesAreIssued
  <2>2. /\ \A r \in LoginReplicas : \A p \in pending[r] : p.state # c.state
        /\ \A x \in sessions : x.state # c.state
        /\ \A j \in Callbacks \ {k} : callback[j].at # "idle" => callback[j].state # c.state
    BY <1>1 DEF LoginInv, TakenOnce
  <2>3. AskedFor(c.state, c.by) /\ Authorized(c.account)
    BY <1>1 DEF LoginInv, CallbacksAreOwn
  <2>4. nth = 1
    <3>1. {x \in sessions : x.state = c.state} = {}
      BY <2>2
    <3> QED
      BY <3>1, FS_EmptySet
  <2> HIDE DEF nth
  <2>5. /\ callback' = [callback EXCEPT ![k] = NoCallback]
        /\ tx' = [tx EXCEPT ![c.by] = 0]
        /\ NoCallback \in Callback /\ NoCallback.at = "idle" /\ NoCallback.state = 0
    BY <1>1 DEF EndCallback, NoCallback, Callback
  <2>6. tx' \in [Browsers -> Nat] /\ \A b \in Browsers : tx'[b] = tx[b] \/ tx'[b] = 0
    BY <2>5 DEF LoginInv, LoginTypeOK
  <2>7. LoginTypeOK'
    BY <1>1, <1>3, <2>1, <2>5, <2>6 DEF LoginInv, LoginTypeOK, Callback
  <2>8. StatesAreIssued' /\ OneReplicaKnows'
    BY <1>1, <1>3, <2>1, <2>5 DEF LoginInv, LoginTypeOK, StatesAreIssued, OneReplicaKnows
  <2>9. TakenOnce'
    BY <1>1, <1>3, <2>2, <2>5 DEF LoginInv, LoginTypeOK, TakenOnce
  <2>10. SpentOnce'
    BY <1>1, <1>3, <2>2 DEF LoginInv, SpentOnce
  <2>11. CookiesAreOwn' /\ CallbacksAreOwn'
    BY <1>1, <2>5, <2>6
    DEF LoginInv, LoginTypeOK, CookiesAreOwn, CallbacksAreOwn, AskedFor
  <2>12. SessionsAreEarned'
    BY <1>1, <1>3, <2>3, <2>4 DEF LoginInv, SessionsAreEarned, AskedFor
  <2> QED
    BY <2>7, <2>8, <2>9, <2>10, <2>11, <2>12 DEF LoginInv
<1> QED
  BY <1>1, <1>2, <1>3

-----------------------------------------------------------------------------
LEMMA LoginNextInv ==
  ASSUME LoginInv, [LoginNext]_loginVars
  PROVE  LoginInv'
<1>1. ASSUME NEW b \in Browsers, NEW r \in LoginReplicas, Login(b, r)
      PROVE  LoginInv'
  BY <1>1, StartLoginInv
<1>2. ASSUME NEW k \in Callbacks, NEW b \in Browsers, NEW r \in LoginReplicas,
             NEW code \in codes, ReceiveCallback(k, b, r, code)
      PROVE  LoginInv'
  BY <1>2, ReceiveCallbackInv
<1>3. ASSUME NEW k \in Callbacks, Exchange(k) \/ Authorize(k)
      PROVE  LoginInv'
  <2>1. callback[k].at # "idle"
    BY <1>3 DEF Exchange, Authorize
  <2> QED
    BY <1>3, <2>1, AdvanceInv DEF Exchange, Authorize
<1>4. ASSUME NEW k \in Callbacks, CreateSession(k)
      PROVE  LoginInv'
  BY <1>4, CreateSessionInv
<1>5. LoginTypeOK
  BY DEF LoginInv
<1>6. ASSUME NEW s \in 1 .. MaxLogins, NEW a \in Accounts, ProviderRedirects(s, a)
      PROVE  LoginInv'
  BY <1>5, <1>6, ForgetInv, LoginAssumption DEF ProviderRedirects, LoginTypeOK
<1>7. ASSUME NEW b \in Browsers, NEW code \in codes, RefuseCallback(b, code)
      PROVE  LoginInv'
  BY <1>5, <1>7, ForgetInv DEF RefuseCallback, LoginTypeOK
<1>8. ASSUME NEW a \in Accounts, BearerRequest(a)
      PROVE  LoginInv'
  BY <1>5, <1>8, ForgetInv DEF BearerRequest, LoginTypeOK
<1>9. ASSUME NEW r \in LoginReplicas, LoginRestart(r)
      PROVE  LoginInv'
  BY <1>5, <1>9, ForgetInv DEF LoginRestart, LoginTypeOK
<1>10. CASE LoginTick
  BY <1>5, <1>10, ForgetInv DEF LoginTick, LoginTypeOK
<1>11. CASE UNCHANGED loginVars
  BY <1>5, <1>11, ForgetInv DEF loginVars, LoginTypeOK
<1> QED
  BY <1>1, <1>2, <1>3, <1>4, <1>6, <1>7, <1>8, <1>9, <1>10, <1>11 DEF LoginNext

(* Every session stems from a login that its own browser asked for and     *)
(* from an account that was authorized, and no login yields two sessions,  *)
(* although callbacks with one cookie and state may be in flight together  *)
(* on several replicas (routes/auth.ts).                                   *)
THEOREM SessionsEarned == LoginSpec => []SessionsAreEarned
<1>1. LoginInit => LoginInv
  BY LoginInitInv
<1>2. LoginInv /\ [LoginNext]_loginVars => LoginInv'
  BY LoginNextInv
<1>3. LoginInv => SessionsAreEarned
  BY DEF LoginInv
<1> QED
  BY <1>1, <1>2, <1>3, PTL DEF LoginSpec

-----------------------------------------------------------------------------
(* A token that is dead when a request arrives does not authorise it: the  *)
(* property of ApiTokens, proved for any number of replicas, tokens and    *)
(* requests, any cache capacity and lifetime.                              *)

Waiting == {"recheck", "lookup"}
Decided == {"hash", "accepted"}

(* The cache and the metadata need no type: neither decides a request.     *)
CallTypeOK ==
    /\ time \in Nat
    /\ token \in [Tokens -> [exists : BOOLEAN, revoked : BOOLEAN, expires : Nat,
                             metadata : Metadata \cup {Unset}]]
    /\ call \in [Calls -> [at : {"idle"} \cup Waiting \cup Decided,
                           token : Tokens \cup {Unset}, on : TokenReplicas \cup {Unset},
                           dead : BOOLEAN]]
    /\ \A c \in Calls : call[c].at # "idle" => call[c].token \in Tokens

(* What was dead when the request arrived is dead still.                   *)
DeadStaysDead ==
    \A c \in Calls :
      call[c].at \in Waiting /\ call[c].dead =>
        /\ token[call[c].token].exists
        /\ ~IsUsable(call[c].token)

(* Past the look at the row the request's token was alive on arrival.      *)
PassedWasAlive == \A c \in Calls : call[c].at \in Decided => ~call[c].dead

TokenInv == CallTypeOK /\ DeadStaysDead /\ PassedWasAlive

-----------------------------------------------------------------------------
LEMMA TokenInitInv == TokenInit => TokenInv
  BY DEF TokenInit, TokenInv, CallTypeOK, DeadStaysDead, PassedWasAlive, NoToken, NoCall,
         Waiting, Decided

(* A token that exists and cannot be used never can be again: creation     *)
(* touches only tokens that do not exist, a revocation is final and the    *)
(* clock passes an expiry once.                                            *)
LEMMA DeadForever ==
  ASSUME CallTypeOK,
         \/ \E t \in Tokens, e \in {0, 1}, m \in Metadata \cup {Unset} : CreateToken(t, e, m)
         \/ \E t \in Tokens, r \in TokenReplicas : Revoke(t, r)
         \/ TokenTick
         \/ UNCHANGED <<time, token>>
  PROVE  /\ time' \in Nat
         /\ token' \in [Tokens -> [exists : BOOLEAN, revoked : BOOLEAN, expires : Nat,
                                   metadata : Metadata \cup {Unset}]]
         /\ \A t \in Tokens : token[t].exists /\ ~IsUsable(t)
                              => token'[t].exists /\ ~IsUsable(t)'
<1>1. CASE \E t \in Tokens, e \in {0, 1}, m \in Metadata \cup {Unset} : CreateToken(t, e, m)
  <2>1. PICK t \in Tokens, e \in {0, 1}, m \in Metadata \cup {Unset} : CreateToken(t, e, m)
    BY <1>1
  <2> DEFINE new == [exists |-> TRUE, revoked |-> FALSE, expires |-> e, metadata |-> m]
  <2>2. time' = time /\ ~token[t].exists
    BY <2>1 DEF CreateToken
  <2>3. token' = token \/ token' = [token EXCEPT ![t] = new]
    BY <2>1 DEF CreateToken
  <2>4. new \in [exists : BOOLEAN, revoked : BOOLEAN, expires : Nat,
                metadata : Metadata \cup {Unset}]
    OBVIOUS
  <2>5. \A u \in Tokens \ {t} : token'[u] = token[u]
    BY <2>3 DEF CallTypeOK
  <2> QED
    BY <2>2, <2>3, <2>4, <2>5 DEF CallTypeOK, IsUsable
<1>2. CASE \E t \in Tokens, r \in TokenReplicas : Revoke(t, r)
  <2>1. PICK t \in Tokens, r \in TokenReplicas : Revoke(t, r)
    BY <1>2
  <2>2. time' = time /\ token' = [token EXCEPT ![t] = [token[t] EXCEPT !.revoked = TRUE]]
    BY <2>1 DEF Revoke
  <2>3. token'[t].revoked /\ token'[t].exists = token[t].exists
    BY <2>2 DEF CallTypeOK
  <2>4. \A u \in Tokens \ {t} : token'[u] = token[u]
    BY <2>2 DEF CallTypeOK
  <2> QED
    BY <2>2, <2>3, <2>4 DEF CallTypeOK, IsUsable
<1>3. CASE TokenTick
  BY <1>3 DEF CallTypeOK, TokenTick, IsUsable
<1>4. CASE UNCHANGED <<time, token>>
  BY <1>4 DEF CallTypeOK, IsUsable
<1> QED
  BY <1>1, <1>2, <1>3, <1>4

LEMMA BeginVerifyInv ==
  ASSUME TokenInv, NEW c \in Calls, NEW t \in Tokens, NEW r \in TokenReplicas,
         BeginVerify(c, t, r)
  PROVE  TokenInv'
<1>1. PICK at \in Waiting :
        call' = [call EXCEPT ![c] = [at |-> at, token |-> t, on |-> r, dead |-> ~IsUsable(t)]]
  BY DEF BeginVerify, Waiting
<1>2. UNCHANGED <<time, token>> /\ token[t].exists /\ IsUsable(t) \in BOOLEAN
  BY DEF BeginVerify, IsUsable
<1>3. \A u \in Tokens : IsUsable(u)' = IsUsable(u)
  BY <1>2 DEF IsUsable
<1>4. CallTypeOK'
  BY <1>1, <1>2 DEF TokenInv, CallTypeOK, Waiting
<1>5. DeadStaysDead' /\ PassedWasAlive'
  BY <1>1, <1>2, <1>3 DEF TokenInv, CallTypeOK, DeadStaysDead, PassedWasAlive, Waiting, Decided
<1> QED
  BY <1>4, <1>5 DEF TokenInv

(* The three looks at a row or a hash, and the end of a request.           *)
LEMMA VerifyInv ==
  ASSUME TokenInv, NEW c \in Calls,
         Recheck(c) \/ Lookup(c) \/ Verified(c) \/ Serve(c)
  PROVE  TokenInv'
<1>1. UNCHANGED <<time, token>>
  BY DEF Recheck, Lookup, Verified, Serve
<1>2. \A u \in Tokens : IsUsable(u)' = IsUsable(u)
  BY <1>1 DEF IsUsable
<1>3. \/ call' = [call EXCEPT ![c] = NoCall]
      \/ /\ call[c].at \in Waiting /\ IsUsable(call[c].token)
         /\ \E at \in Decided : call' = [call EXCEPT ![c] = [call[c] EXCEPT !.at = at]]
      \/ /\ call[c].at \in Decided
         /\ \E at \in Decided : call' = [call EXCEPT ![c] = [call[c] EXCEPT !.at = at]]
  <2>1. CASE Recheck(c)
    BY <2>1 DEF Recheck, Waiting, Decided
  <2>2. CASE Lookup(c)
    BY <2>2 DEF Lookup, Waiting, Decided
  <2>3. CASE Verified(c)
    BY <2>3 DEF Verified, Decided
  <2>4. CASE Serve(c)
    BY <2>4 DEF Serve
  <2> QED
    BY <2>1, <2>2, <2>3, <2>4
<1>4. CallTypeOK'
  <2>1. NoCall \in [at : {"idle"} \cup Waiting \cup Decided, token : Tokens \cup {Unset},
                   on : TokenReplicas \cup {Unset}, dead : BOOLEAN]
    BY DEF NoCall
  <2>2. CASE call' = [call EXCEPT ![c] = NoCall]
    BY <1>1, <2>1, <2>2 DEF TokenInv, CallTypeOK, NoCall
  <2>3. CASE /\ call[c].at \in Waiting \cup Decided
             /\ \E at \in Decided : call' = [call EXCEPT ![c] = [call[c] EXCEPT !.at = at]]
    BY <1>1, <2>3 DEF TokenInv, CallTypeOK, Waiting, Decided
  <2> QED
    BY <1>3, <2>2, <2>3
<1>5. DeadStaysDead' /\ PassedWasAlive'
  BY <1>1, <1>2, <1>3 DEF TokenInv, CallTypeOK, DeadStaysDead, PassedWasAlive, NoCall,
                          Waiting, Decided
<1> QED
  BY <1>4, <1>5 DEF TokenInv

(* Every other step leaves the requests alone.                             *)
LEMMA RowsInv ==
  ASSUME TokenInv, UNCHANGED call,
         \/ \E t \in Tokens, e \in {0, 1}, m \in Metadata \cup {Unset} : CreateToken(t, e, m)
         \/ \E t \in Tokens, r \in TokenReplicas : Revoke(t, r)
         \/ TokenTick
         \/ UNCHANGED <<time, token>>
  PROVE  TokenInv'
<1>1. CallTypeOK'
  BY DeadForever DEF TokenInv, CallTypeOK
<1>2. DeadStaysDead' /\ PassedWasAlive'
  BY DeadForever DEF TokenInv, CallTypeOK, DeadStaysDead, PassedWasAlive, Waiting
<1> QED
  BY <1>1, <1>2 DEF TokenInv

LEMMA TokenNextInv ==
  ASSUME TokenInv, [TokenNext]_tokenVars
  PROVE  TokenInv'
<1>1. CASE \E t \in Tokens, e \in {0, 1}, m \in Metadata \cup {Unset} : CreateToken(t, e, m)
  BY <1>1, RowsInv DEF CreateToken
<1>2. CASE \E c \in Calls : Recheck(c) \/ Lookup(c) \/ Verified(c) \/ Serve(c)
  BY <1>2, VerifyInv
<1>3. CASE \E c \in Calls, t \in Tokens, r \in TokenReplicas : BeginVerify(c, t, r)
  BY <1>3, BeginVerifyInv
<1>4. CASE \E t \in Tokens, r \in TokenReplicas : Revoke(t, r)
  BY <1>4, RowsInv DEF Revoke
<1>5. CASE \E v \in revoking : InvalidateCache(v)
  BY <1>5, RowsInv DEF InvalidateCache
<1>6. CASE TokenTick
  BY <1>6, RowsInv DEF TokenTick
<1>7. CASE UNCHANGED tokenVars
  BY <1>7, RowsInv DEF tokenVars
<1> QED
  BY <1>1, <1>2, <1>3, <1>4, <1>5, <1>6, <1>7 DEF TokenNext

(* A token revoked or expired when a request arrives does not authorise    *)
(* it, although the replica may have cached its hash before, and although  *)
(* a verification that was hashing caches it afterwards (verifyToken).     *)
THEOREM DeadTokenRefused == TokenSpec => []DeadTokenIsRefused
<1>1. TokenInit => TokenInv
  BY TokenInitInv
<1>2. TokenInv /\ [TokenNext]_tokenVars => TokenInv'
  BY TokenNextInv
<1>3. TokenInv => DeadTokenIsRefused
  BY DEF TokenInv, PassedWasAlive, DeadTokenIsRefused, Decided
<1> QED
  BY <1>1, <1>2, <1>3, PTL DEF TokenSpec

-----------------------------------------------------------------------------
(* Who is served is entitled to it, and signing out is no accident: proved *)
(* for any number of replicas and requests and any intervals.              *)

SessionRow == [live : BOOLEAN, refresh : Nat, access : Nat \cup {Never}, created : {0}, expires : Nat,
               validated : Nat]
Waypoints == {"idle", "read", "destroy", "outraced", "joined", "validate", "confirmed", "extend",
              "authorised"}
Phases == {"none", "grant", "granted", "rejected", "failed", "waited"}
Job == [phase : Phases, token : Nat, fresh : Nat]

SessionTypeOK ==
    /\ now \in Nat /\ row \in SessionRow
    /\ idp \in [good : Nat, gone : Nat \cup {Never}]
    /\ backoff \in [Replicas -> [failures : Nat, retryAt : Int]]
    /\ job \in [Replicas -> Job]
    /\ req \in [Requests -> [at : Waypoints, on : Replicas \cup {None}, began : Nat,
                             copy : SessionRow \cup {None}]]
    /\ faults \in Nat
    /\ trouble \in [at : Nat \cup {Never}, database : BOOLEAN]

(* The clock moves at most once under a request.                           *)
RequestsAreShort ==
    \A q \in Requests : req[q].at # "idle" =>
      /\ req[q].on \in Replicas /\ req[q].copy \in SessionRow
      /\ req[q].began <= now /\ now <= req[q].began + 1

(* A copy is an earlier row, and what it may have missed is fresh.         *)
CopiesAreEarlier ==
    \A q \in Requests : req[q].at # "idle" =>
      /\ req[q].copy.refresh <= row.refresh
      /\ req[q].copy.refresh < row.refresh => row.access >= req[q].began + AccessTtl
      /\ req[q].copy.refresh = 0 => row.refresh = 0
      /\ req[q].copy.validated <= row.validated

(* The row never holds a token the provider has not issued yet, nor one    *)
(* that a granted refresh still has to store.                              *)
TokensAreIssued ==
    /\ row.refresh <= idp.good /\ idp.good > 0 /\ row.validated <= now
    /\ \A r \in Replicas : job[r].phase = "granted" =>
         /\ job[r].fresh = idp.good /\ row.refresh < idp.good
         /\ \A s \in Replicas : job[s].phase = "granted" => s = r

Waits(q, r) == req[q].at = "joined" /\ req[q].on = r

(* Somebody waits for every refresh, with the copy it was started from.    *)
JobsAreAwaited ==
    \A r \in Replicas : job[r].phase # "none" =>
      /\ job[r].token > 0
      /\ \E q \in Requests : Waits(q, r) /\ req[q].copy.refresh = job[r].token

(* No refresh can succeed any more: the newest token is not stored, and    *)
(* nobody is about to store it.                                            *)
Stuck ==
    /\ row.refresh < idp.good
    /\ \A r \in Replicas : job[r].phase # "granted"

Justified == idp.gone # Never \/ trouble.database \/ Stuck

(* A refusal is final, or another refresh has overtaken this one.          *)
RefusalsAreFinal ==
    \A r \in Replicas : job[r].phase \in {"rejected", "waited"} =>
      idp.gone # Never \/ job[r].token < idp.good

SignOutsAreEarned ==
    \A q \in Requests :
      req[q].at = "destroy" /\ row.live => SessionIsExpired(req[q].copy) \/ Justified

(* A refresh has failed lately, and so has what a replica backs off from.  *)
FailuresAreRecent ==
    /\ trouble.at <= now
    /\ \A r \in Replicas :
         /\ job[r].phase = "failed" /\ row.live =>
              \E q \in Requests : Waits(q, r) /\ req[q].began <= trouble.at
         /\ backoff[r].failures > 0 =>
              trouble.at # Never /\ backoff[r].retryAt <= trouble.at + 1 + BackoffMax

(* The account is gone, and no failure reaches past that moment.           *)
GoneQuietly ==
    idp.gone # Never /\ (trouble.at = Never \/ trouble.at + BackoffMax < idp.gone)

AnswersAreOld ==
    /\ idp.gone # Never => idp.gone <= now
    /\ GoneQuietly =>
         /\ row.validated <= idp.gone + 1
         /\ \A q \in Requests :
              /\ req[q].at = "confirmed" => req[q].began <= idp.gone
              /\ req[q].at \in {"extend", "authorised"} => req[q].began <= idp.gone + Revalidate

BelowCeiling ==
    \A q \in Requests :
      req[q].at \notin {"idle", "read", "destroy"} /\ AbsoluteTtl > 0 => req[q].began < AbsoluteTtl

RefreshInv ==
    TokensAreIssued /\ JobsAreAwaited /\ RefusalsAreFinal /\ SignOutsAreEarned
EntitledInv == FailuresAreRecent /\ AnswersAreOld /\ BelowCeiling
SessionInv ==
    SessionTypeOK /\ RequestsAreShort /\ CopiesAreEarlier /\ RefreshInv /\ EntitledInv

-----------------------------------------------------------------------------
LEMMA SessionConstants ==
  /\ IdleTtl \in Nat /\ IdleTtl > 0 /\ AbsoluteTtl \in Nat /\ RenewalGain \in Nat
  /\ AccessTtl \in Nat /\ AccessTtl > 1 /\ Revalidate \in Nat /\ Revalidate > 0
  /\ BackoffMax \in Nat /\ BackoffMax > 0 /\ Never = -1
  BY SessionAssumption DEF Never

LEMMA SessionInitInv == SessionInit => SessionInv
<1> SUFFICES ASSUME SessionInit PROVE SessionInv
  OBVIOUS
<1>1. Expiry(0) \in Nat
  BY SessionConstants DEF SessionInit, Expiry, Min2
<1>2. /\ now = 0 /\ row \in SessionRow /\ row.refresh \in {0, 1} /\ row.validated = 0
      /\ idp = [good |-> 1, gone |-> Never] /\ faults = 0
      /\ trouble = [at |-> Never, database |-> FALSE]
  <2>1. row \in [live : {TRUE}, refresh : {0, 1}, access : {AccessTtl, Never},
                 created : {0}, expires : {Expiry(0)}, validated : {0}]
    BY DEF SessionInit
  <2>2. row \in SessionRow
    <3> DEFINE e == Expiry(0)
    <3>1. e \in Nat /\ AccessTtl \in Nat
      BY <1>1, SessionConstants
    <3>2. row \in [live : {TRUE}, refresh : {0, 1}, access : {AccessTtl, Never},
                   created : {0}, expires : {e}, validated : {0}]
      BY <2>1
    <3> HIDE DEF e
    <3>3. PICK x \in {0, 1}, y \in {AccessTtl, Never} :
            row = [live |-> TRUE, refresh |-> x, access |-> y, created |-> 0,
                   expires |-> e, validated |-> 0]
      BY <3>2
    <3> QED
      BY <3>1, <3>3 DEF SessionRow
  <2>3. row.refresh \in {0, 1} /\ row.validated = 0
    BY <2>1
  <2> QED
    BY <2>2, <2>3 DEF SessionInit
<1>3. /\ \A r \in Replicas : /\ job[r] = NoJob /\ job[r].phase = "none"
                             /\ backoff[r] = NoBackoff /\ backoff[r].failures = 0
      /\ \A q \in Requests : req[q] = Idle /\ req[q].at = "idle"
  BY DEF SessionInit, NoJob, NoBackoff, Idle
<1>4. SessionTypeOK
  <2>1. NoJob \in Job /\ NoBackoff \in [failures : Nat, retryAt : Int]
    BY DEF NoJob, NoBackoff, Job, Phases
  <2>2. Idle \in [at : Waypoints, on : Replicas \cup {None}, began : Nat,
                  copy : SessionRow \cup {None}]
    BY DEF Idle, Waypoints
  <2> QED
    BY <1>2, <2>1, <2>2 DEF SessionTypeOK, SessionInit
<1>5. RequestsAreShort /\ CopiesAreEarlier
  BY <1>3 DEF RequestsAreShort, CopiesAreEarlier
<1>6. RefreshInv
  BY <1>2, <1>3 DEF RefreshInv, TokensAreIssued, JobsAreAwaited, RefusalsAreFinal, SignOutsAreEarned
<1>7. EntitledInv
  BY <1>2, <1>3 DEF EntitledInv, FailuresAreRecent, AnswersAreOld, GoneQuietly, BelowCeiling, Never
<1> QED
  BY <1>4, <1>5, <1>6, <1>7 DEF SessionInv

-----------------------------------------------------------------------------
(* What goes wrong, if anything does, in a step.                           *)
Incident == NoFail \/ Fail("provider") \/ Fail("database") \/ Fail("process")

LEMMA IncidentEffect ==
  ASSUME SessionInv, Incident, idp'.gone = idp.gone
  PROVE  /\ faults' \in Nat /\ trouble' \in [at : Nat \cup {Never}, database : BOOLEAN]
         /\ trouble'.at >= trouble.at /\ trouble'.at <= now
         /\ trouble.at # Never => trouble'.at # Never
         /\ trouble.database => trouble'.database
         /\ GoneQuietly' => GoneQuietly /\ trouble' = trouble
<1>1. /\ now \in Nat /\ faults \in Nat /\ trouble \in [at : Nat \cup {Never}, database : BOOLEAN]
      /\ trouble.at <= now /\ idp.gone \in Nat \cup {Never} /\ (idp.gone # Never => idp.gone <= now)
  BY DEF SessionInv, SessionTypeOK, EntitledInv, FailuresAreRecent, AnswersAreOld
<1>2. CASE NoFail
  BY <1>1, <1>2, SessionConstants DEF NoFail, GoneQuietly
<1>3. CASE ~NoFail
  <2>1. PICK b \in BOOLEAN : /\ trouble' = [at |-> now, database |-> trouble.database \/ b]
                             /\ faults' = faults + 1
    BY <1>3 DEF Incident, Fail
  <2>2. trouble'.at = now /\ trouble'.database = (trouble.database \/ b)
    BY <2>1
  <2>3. ~GoneQuietly'
    BY <1>1, <2>2, SessionConstants DEF GoneQuietly
  <2>4. trouble' \in [at : Nat \cup {Never}, database : BOOLEAN]
    BY <1>1, <2>1
  <2>5. trouble.database => trouble'.database
    BY <2>2
  <2> QED
    BY <1>1, <2>1, <2>2, <2>3, <2>4, <2>5, SessionConstants
<1> QED
  BY <1>2, <1>3

-----------------------------------------------------------------------------
(* One request moves on, and nothing else of the session changes.          *)
RequestRow == [at : Waypoints, on : Replicas \cup {None}, began : Nat,
               copy : SessionRow \cup {None}]
BackoffRow == [failures : Nat, retryAt : Int]

BackoffCleared == backoff' = backoff \/ \E r \in Replicas : backoff' = [backoff EXCEPT ![r] = NoBackoff]

LEMMA SessionFields ==
  ASSUME SessionInv
  PROVE  /\ now \in Nat /\ row \in SessionRow /\ faults \in Nat
         /\ row.refresh \in Nat /\ row.access \in Nat \cup {Never} /\ row.validated \in Nat
         /\ row.created = 0 /\ row.expires \in Nat /\ row.live \in BOOLEAN
         /\ idp \in [good : Nat, gone : Nat \cup {Never}] /\ idp.good \in Nat
         /\ idp.gone \in Nat \cup {Never}
         /\ backoff \in [Replicas -> BackoffRow] /\ job \in [Replicas -> Job]
         /\ req \in [Requests -> RequestRow]
         /\ trouble \in [at : Nat \cup {Never}, database : BOOLEAN]
         /\ trouble.at \in Nat \cup {Never} /\ trouble.database \in BOOLEAN
  BY DEF SessionInv, SessionTypeOK, SessionRow, RequestRow, BackoffRow

LEMMA BackoffEffect ==
  ASSUME SessionInv, BackoffCleared
  PROVE  /\ backoff' \in [Replicas -> BackoffRow]
         /\ \A r \in Replicas : backoff'[r].failures > 0 => backoff'[r] = backoff[r]
<1>1. NoBackoff \in BackoffRow /\ NoBackoff.failures = 0
  BY DEF NoBackoff, BackoffRow
<1>2. backoff \in [Replicas -> BackoffRow]
  BY SessionFields
<1>3. CASE backoff' = backoff
  BY <1>2, <1>3
<1>4. ASSUME NEW r \in Replicas, backoff' = [backoff EXCEPT ![r] = NoBackoff]
      PROVE  /\ backoff' \in [Replicas -> BackoffRow]
             /\ \A s \in Replicas : backoff'[s].failures > 0 => backoff'[s] = backoff[s]
  BY <1>1, <1>2, <1>4
<1> QED
  BY <1>3, <1>4 DEF BackoffCleared

LEMMA MoveInv ==
  ASSUME SessionInv, NEW q \in Requests, NEW step \in Waypoints \ {"idle", "read"},
         req[q].at \notin {"idle", "joined"}, ToStep(q, step), Incident, BackoffCleared,
         UNCHANGED <<now, row, idp, job>>,
         step = "destroy" /\ row.live => SessionIsExpired(req[q].copy) \/ Justified,
         step = "confirmed" /\ GoneQuietly' => req[q].began <= idp.gone,
         step \in {"extend", "authorised"} /\ GoneQuietly => req[q].began <= idp.gone + Revalidate,
         step # "destroy" /\ AbsoluteTtl > 0 => req[q].began < AbsoluteTtl
  PROVE  SessionInv'
<1>1. /\ req' \in [Requests -> RequestRow]
      /\ req'[q].at = step /\ req'[q].on = req[q].on
      /\ req'[q].began = req[q].began /\ req'[q].copy = req[q].copy
      /\ \A p \in Requests \ {q} : req'[p] = req[p]
  <2>1. req \in [Requests -> RequestRow]
    BY SessionFields
  <2>2. req' = [req EXCEPT ![q].at = step]
    BY DEF ToStep
  <2> QED
    BY <2>1, <2>2 DEF RequestRow
<1>2. /\ faults' \in Nat /\ trouble' \in [at : Nat \cup {Never}, database : BOOLEAN]
      /\ trouble'.at >= trouble.at /\ trouble'.at <= now
      /\ trouble.at # Never => trouble'.at # Never
      /\ trouble.database => trouble'.database
      /\ GoneQuietly' => GoneQuietly /\ trouble' = trouble
  BY IncidentEffect
<1>3. /\ backoff' \in [Replicas -> BackoffRow]
      /\ \A r \in Replicas : backoff'[r].failures > 0 => backoff'[r] = backoff[r]
  BY BackoffEffect
<1>4. SessionTypeOK'
  BY <1>1, <1>2, <1>3, SessionFields DEF SessionTypeOK, BackoffRow, RequestRow
<1>5. RequestsAreShort' /\ CopiesAreEarlier'
  BY <1>1 DEF SessionInv, RequestsAreShort, CopiesAreEarlier
<1>6. Justified => Justified'
  BY <1>2 DEF Justified, Stuck
<1>7. RefreshInv'
  <2>1. TokensAreIssued'
    BY DEF SessionInv, RefreshInv, TokensAreIssued
  <2>2. JobsAreAwaited'
    BY <1>1 DEF SessionInv, RefreshInv, JobsAreAwaited, Waits
  <2>3. RefusalsAreFinal'
    BY <1>6 DEF SessionInv, RefreshInv, RefusalsAreFinal
  <2>4. SignOutsAreEarned'
    BY <1>1, <1>6 DEF SessionInv, RefreshInv, SignOutsAreEarned, SessionIsExpired
  <2> QED
    BY <2>1, <2>2, <2>3, <2>4 DEF RefreshInv
<1>8. EntitledInv'
  <2>1. FailuresAreRecent'
    <3>1. ASSUME NEW r \in Replicas, job'[r].phase = "failed", row'.live
          PROVE  \E p \in Requests : Waits(p, r)' /\ req'[p].began <= trouble'.at
      <4>1. PICK p \in Requests : Waits(p, r) /\ req[p].began <= trouble.at
        BY <3>1 DEF SessionInv, EntitledInv, FailuresAreRecent
      <4>2. p # q /\ req'[p] = req[p] /\ req[p].began \in Nat
        BY <1>1, <4>1, SessionFields DEF Waits, RequestRow
      <4> QED
        BY <1>2, <4>1, <4>2, SessionFields, SessionConstants DEF Waits
    <3>2. ASSUME NEW r \in Replicas, backoff'[r].failures > 0
          PROVE  trouble'.at # Never /\ backoff'[r].retryAt <= trouble'.at + 1 + BackoffMax
      <4>1. backoff'[r] = backoff[r] /\ backoff[r].retryAt \in Int
        BY <1>3, <3>2, SessionFields DEF BackoffRow
      <4>2. trouble.at # Never /\ backoff[r].retryAt <= trouble.at + 1 + BackoffMax
        BY <3>2, <4>1 DEF SessionInv, EntitledInv, FailuresAreRecent
      <4> QED
        BY <1>2, <4>1, <4>2, SessionFields, SessionConstants
    <3> QED
      BY <1>2, <3>1, <3>2 DEF FailuresAreRecent
  <2>2. AnswersAreOld'
    BY <1>1, <1>2 DEF SessionInv, EntitledInv, AnswersAreOld
  <2>3. BelowCeiling'
    BY <1>1 DEF SessionInv, EntitledInv, BelowCeiling
  <2> QED
    BY <2>1, <2>2, <2>3 DEF EntitledInv
<1> QED
  BY <1>4, <1>5, <1>7, <1>8 DEF SessionInv

(* A request arrives, ends or is taken past the provider, and the row is   *)
(* deleted, revalidated or extended.                                       *)
Sound(x) ==
    /\ x.at \in {"read", "extend", "authorised"}
    /\ x.on \in Replicas /\ x.copy \in SessionRow /\ x.began <= now /\ now <= x.began + 1
    /\ x.copy.refresh <= row.refresh
    /\ x.copy.refresh < row.refresh => row.access >= x.began + AccessTtl
    /\ x.copy.refresh = 0 => row.refresh = 0
    /\ GoneQuietly /\ x.at # "read" => x.began <= idp.gone + Revalidate
    /\ x.at # "read" /\ AbsoluteTtl > 0 => x.began < AbsoluteTtl

LEMMA RowTouchedInv ==
  ASSUME SessionInv, NoFail, BackoffCleared, UNCHANGED <<now, idp, job>>,
         row' \in SessionRow, row'.refresh = row.refresh, row'.access = row.access,
         row.validated <= row'.validated, row'.validated <= now, row'.live => row.live,
         GoneQuietly => row'.validated <= idp.gone + 1,
         req' \in [Requests -> RequestRow],
         \A q \in Requests :
           \/ req'[q] = req[q]
           \/ req[q].at # "joined" /\ req'[q].at = "idle"
           \/ /\ req[q].at # "joined" /\ Sound(req'[q])
              /\ req'[q].copy.validated <= row'.validated
  PROVE  SessionInv'
<1>1. /\ backoff' \in [Replicas -> BackoffRow]
      /\ \A r \in Replicas : backoff'[r].failures > 0 => backoff'[r] = backoff[r]
  BY BackoffEffect
<1>2. UNCHANGED <<faults, trouble>>
  BY DEF NoFail
<1>3. SessionTypeOK'
  BY <1>1, <1>2, SessionFields DEF SessionTypeOK, BackoffRow, RequestRow
<1>4. RequestsAreShort'
  BY DEF SessionInv, RequestsAreShort, Sound
<1>5. CopiesAreEarlier'
  <2> SUFFICES ASSUME NEW q \in Requests, req'[q].at # "idle"
               PROVE  /\ req'[q].copy.refresh <= row'.refresh
                      /\ req'[q].copy.refresh < row'.refresh =>
                           row'.access >= req'[q].began + AccessTtl
                      /\ req'[q].copy.refresh = 0 => row'.refresh = 0
                      /\ req'[q].copy.validated <= row'.validated
    BY DEF CopiesAreEarlier
  <2>1. CASE req'[q] = req[q]
    <3>1. req[q].copy \in SessionRow
      BY <2>1 DEF SessionInv, RequestsAreShort
    <3>2. req[q].copy.validated \in Nat /\ row'.validated \in Nat
      BY <3>1 DEF SessionRow
    <3>3. req[q].copy.validated <= row.validated
      BY <2>1 DEF SessionInv, CopiesAreEarlier
    <3>4. req[q].copy.validated <= row'.validated
      BY <3>2, <3>3, SessionFields
    <3> QED
      BY <2>1, <3>4 DEF SessionInv, CopiesAreEarlier
  <2>2. CASE Sound(req'[q]) /\ req'[q].copy.validated <= row'.validated
    BY <2>2 DEF Sound
  <2> QED
    BY <2>1, <2>2
<1>6. \A q \in Requests, r \in Replicas : Waits(q, r) => Waits(q, r)' /\ req'[q] = req[q]
  BY DEF Waits
<1>7. Justified' <=> Justified
  BY <1>2 DEF Justified, Stuck
<1>8. RefreshInv'
  <2>1. TokensAreIssued'
    BY DEF SessionInv, RefreshInv, TokensAreIssued
  <2>2. JobsAreAwaited'
    BY <1>6 DEF SessionInv, RefreshInv, JobsAreAwaited
  <2>3. RefusalsAreFinal'
    BY <1>7 DEF SessionInv, RefreshInv, RefusalsAreFinal
  <2>4. SignOutsAreEarned'
    BY <1>7 DEF SessionInv, RefreshInv, SignOutsAreEarned, SessionIsExpired, Sound
  <2> QED
    BY <2>1, <2>2, <2>3, <2>4 DEF RefreshInv
<1>9. FailuresAreRecent'
  <2>1. ASSUME NEW r \in Replicas, job[r].phase = "failed", row'.live
        PROVE  \E p \in Requests : Waits(p, r)' /\ req'[p].began <= trouble.at
    BY <1>6, <2>1 DEF SessionInv, EntitledInv, FailuresAreRecent
  <2> QED
    BY <1>1, <1>2, <2>1 DEF SessionInv, EntitledInv, FailuresAreRecent
<1>10. GoneQuietly' <=> GoneQuietly
  BY <1>2 DEF GoneQuietly
<1>11. AnswersAreOld'
  BY <1>10 DEF SessionInv, EntitledInv, AnswersAreOld, Sound
<1>12. BelowCeiling'
  BY DEF SessionInv, EntitledInv, BelowCeiling, Sound
<1> QED
  BY <1>3, <1>4, <1>5, <1>8, <1>9, <1>11, <1>12 DEF SessionInv, EntitledInv

-----------------------------------------------------------------------------
(* The refresh of a replica moves on.                                      *)

LEMMA TokenIsStored ==
  ASSUME SessionInv, NEW r \in Replicas, job[r].phase # "none"
  PROVE  /\ job[r].token \in Nat /\ job[r].token > 0 /\ job[r].token <= row.refresh
         /\ row.refresh <= idp.good
         /\ \E q \in Requests : /\ Waits(q, r) /\ req[q].copy.refresh = job[r].token
                                /\ req[q].began \in Nat /\ req[q].began <= now
                                /\ now <= req[q].began + 1
<1>1. PICK q \in Requests : Waits(q, r) /\ req[q].copy.refresh = job[r].token
  BY DEF SessionInv, RefreshInv, JobsAreAwaited
<1>2. /\ req[q].copy.refresh <= row.refresh /\ req[q].began <= now
      /\ now <= req[q].began + 1 /\ req[q].began \in Nat
  BY <1>1, SessionFields DEF SessionInv, CopiesAreEarlier, RequestsAreShort, Waits, RequestRow
<1>3. job[r].token \in Nat /\ job[r].token > 0
  BY SessionFields DEF Job, SessionInv, RefreshInv, JobsAreAwaited
<1> QED
  BY <1>1, <1>2, <1>3 DEF SessionInv, RefreshInv, TokensAreIssued

(* A provider that accepts the token has none newer, and nobody stores one.*)
LEMMA AcceptedIsNewest ==
  ASSUME SessionInv, NEW r \in Replicas, job[r].phase # "none", job[r].token = idp.good
  PROVE  row.refresh = idp.good /\ \A s \in Replicas : job[s].phase # "granted"
<1>1. row.refresh = idp.good
  BY TokenIsStored, SessionFields
<1> QED
  BY <1>1, SessionFields DEF SessionInv, RefreshInv, TokensAreIssued

LEMMA JobMovesInv ==
  ASSUME SessionInv, NEW r \in Replicas, NEW p \in Phases \ {"none", "grant"},
         job[r].phase # "none", Incident, UNCHANGED <<now, row, backoff, req>>,
         job' \in [Replicas -> Job], \A s \in Replicas \ {r} : job'[s] = job[s],
         job'[r].phase = p, job'[r].token = job[r].token,
         idp' \in [good : Nat, gone : Nat \cup {Never}], idp'.gone = idp.gone,
         \/ idp'.good = idp.good
         \/ job[r].token = idp.good /\ idp'.good = idp.good + 1,
         p = "granted" => idp'.good = idp.good + 1 /\ job'[r].fresh = idp'.good,
         p = "rejected" => idp.gone # Never \/ job[r].token # idp.good,
         p = "waited" => job[r].phase = "rejected",
         p = "failed" /\ row.live => trouble'.at = now
  PROVE  SessionInv'
<1>1. /\ faults' \in Nat /\ trouble' \in [at : Nat \cup {Never}, database : BOOLEAN]
      /\ trouble'.at >= trouble.at /\ trouble'.at <= now
      /\ trouble.at # Never => trouble'.at # Never
      /\ trouble.database => trouble'.database
      /\ GoneQuietly' => GoneQuietly /\ trouble' = trouble
  BY IncidentEffect
<1>2. /\ job[r].token \in Nat /\ job[r].token > 0 /\ job[r].token <= row.refresh
      /\ row.refresh <= idp.good
  BY TokenIsStored
<1>3. SessionTypeOK'
  BY <1>1, SessionFields DEF SessionTypeOK, BackoffRow, RequestRow
<1>4. RequestsAreShort' /\ CopiesAreEarlier'
  BY DEF SessionInv, RequestsAreShort, CopiesAreEarlier
<1>5. idp'.good >= idp.good /\ idp'.good \in Nat
  BY SessionFields
<1>6. p = "granted" => /\ row.refresh = idp.good
                       /\ \A s \in Replicas : job[s].phase # "granted"
  BY AcceptedIsNewest, SessionFields
<1>7. Stuck => Stuck'
  BY <1>5, <1>6, SessionFields DEF Stuck
<1>8. Justified => Justified'
  BY <1>1, <1>7 DEF Justified
<1>9. TokensAreIssued'
  <2>1. row'.refresh <= idp'.good /\ idp'.good > 0 /\ row'.validated <= now'
    BY <1>2, <1>5, SessionFields DEF SessionInv, RefreshInv, TokensAreIssued
  <2>2. ASSUME NEW s \in Replicas, job'[s].phase = "granted"
        PROVE  /\ job'[s].fresh = idp'.good /\ row'.refresh < idp'.good
               /\ \A x \in Replicas : job'[x].phase = "granted" => x = s
    <3>1. CASE s = r
      BY <1>6, <2>2, <3>1, SessionFields
    <3>2. CASE s # r
      <4>1. job[s].phase = "granted"
        BY <2>2, <3>2
      <4>2. idp'.good = idp.good
        BY <4>1, AcceptedIsNewest
      <4>3. p # "granted"
        BY <4>1, <1>6
      <4> QED
        BY <3>2, <4>1, <4>2, <4>3 DEF SessionInv, RefreshInv, TokensAreIssued
    <3> QED
      BY <3>1, <3>2
  <2> QED
    BY <2>1, <2>2 DEF TokensAreIssued
<1>10. JobsAreAwaited'
  BY DEF SessionInv, RefreshInv, JobsAreAwaited, Waits
<1>11. RefusalsAreFinal'
  <2> SUFFICES ASSUME NEW s \in Replicas, job'[s].phase \in {"rejected", "waited"}
               PROVE  idp'.gone # Never \/ job'[s].token < idp'.good
    BY DEF RefusalsAreFinal
  <2>1. CASE s = r /\ p = "rejected"
    BY <1>2, <1>5, <2>1, SessionFields
  <2>2. CASE s # r \/ p = "waited"
    <3>1. job[s].phase \in {"rejected", "waited"} /\ job'[s].token = job[s].token
          /\ job[s].token \in Nat
      BY <2>2, SessionFields DEF Job
    <3>2. idp.gone # Never \/ job[s].token < idp.good
      BY <3>1 DEF SessionInv, RefreshInv, RefusalsAreFinal
    <3> QED
      BY <1>5, <3>1, <3>2, SessionFields
  <2> QED
    BY <2>1, <2>2
<1>12. SignOutsAreEarned'
  BY <1>8 DEF SessionInv, RefreshInv, SignOutsAreEarned, SessionIsExpired
<1>13. FailuresAreRecent'
  <2>1. ASSUME NEW s \in Replicas, job'[s].phase = "failed", row'.live
        PROVE  \E q \in Requests : Waits(q, s)' /\ req'[q].began <= trouble'.at
    <3>1. CASE s = r
      BY <2>1, <3>1, TokenIsStored DEF Waits
    <3>2. CASE s # r
      <4>1. PICK q \in Requests : Waits(q, s) /\ req[q].began <= trouble.at
        BY <2>1, <3>2 DEF SessionInv, EntitledInv, FailuresAreRecent
      <4>2. req[q].began \in Nat
        BY SessionFields DEF RequestRow
      <4> QED
        BY <1>1, <4>1, <4>2, SessionFields, SessionConstants DEF Waits
    <3> QED
      BY <3>1, <3>2
  <2>2. ASSUME NEW s \in Replicas, backoff[s].failures > 0
        PROVE  trouble'.at # Never /\ backoff[s].retryAt <= trouble'.at + 1 + BackoffMax
    <3>1. trouble.at # Never /\ backoff[s].retryAt <= trouble.at + 1 + BackoffMax
      BY <2>2 DEF SessionInv, EntitledInv, FailuresAreRecent
    <3>2. backoff[s].retryAt \in Int
      BY SessionFields DEF BackoffRow
    <3> QED
      BY <1>1, <3>1, <3>2, SessionFields, SessionConstants
  <2> QED
    BY <1>1, <2>1, <2>2 DEF FailuresAreRecent
<1>14. AnswersAreOld' /\ BelowCeiling'
  BY <1>1 DEF SessionInv, EntitledInv, AnswersAreOld, BelowCeiling
<1> QED
  BY <1>3, <1>4, <1>9, <1>10, <1>11, <1>12, <1>13, <1>14 DEF SessionInv, RefreshInv, EntitledInv

-----------------------------------------------------------------------------
(* A refresh is over, and hands what is stored to those that wait for it.  *)
Stored(r) ==
    /\ job[r].phase = "granted"
    /\ row' = [row EXCEPT !.refresh = job[r].fresh, !.access = now + AccessTtl]

LEMMA ResumeInv ==
  ASSUME SessionInv, NEW r \in Replicas, NEW step \in {"destroy", "outraced", "validate", "extend"},
         job[r].phase # "none", Resume(r, step, row'), Incident, UNCHANGED <<now, idp>>,
         row' = row \/ Stored(r),
         backoff' \in [Replicas -> BackoffRow],
         \A s \in Replicas : backoff'[s].failures > 0 =>
           \/ backoff'[s] = backoff[s]
           \/ trouble.at # Never /\ backoff'[s].retryAt <= trouble.at + 1 + BackoffMax,
         step = "destroy" /\ row.live => SessionIsExpired(row) \/ Justified \/ trouble'.database,
         step = "extend" /\ GoneQuietly => now <= idp.gone + Revalidate
  PROVE  SessionInv'
<1>1. /\ faults' \in Nat /\ trouble' \in [at : Nat \cup {Never}, database : BOOLEAN]
      /\ trouble'.at >= trouble.at /\ trouble'.at <= now
      /\ trouble.at # Never => trouble'.at # Never
      /\ trouble.database => trouble'.database
      /\ GoneQuietly' => GoneQuietly /\ trouble' = trouble
  BY IncidentEffect
<1>2. /\ job[r].token \in Nat /\ job[r].token > 0 /\ job[r].token <= row.refresh
      /\ row.refresh <= idp.good
  BY TokenIsStored
<1>3. Stored(r) => /\ row'.refresh = idp.good /\ row.refresh < idp.good
                   /\ row'.access = now + AccessTtl
                   /\ \A s \in Replicas \ {r} : job[s].phase # "granted"
  BY SessionFields DEF Stored, SessionRow, SessionInv, RefreshInv, TokensAreIssued
<1>4. /\ row' \in SessionRow /\ row'.validated = row.validated /\ row'.live = row.live
      /\ row'.refresh \in Nat /\ row.refresh <= row'.refresh /\ row'.refresh <= idp.good
      /\ row'.refresh > 0
  <2>1. CASE row' = row
    BY <1>2, <2>1, SessionFields
  <2>2. CASE Stored(r)
    <3>1. job[r].fresh \in Nat /\ now + AccessTtl \in Nat
      BY SessionFields, SessionConstants DEF Job
    <3>2. row' \in SessionRow /\ row'.validated = row.validated /\ row'.live = row.live
      BY <2>2, <3>1, SessionFields DEF Stored, SessionRow
    <3> QED
      BY <1>2, <1>3, <2>2, <3>2, SessionFields
  <2> QED
    BY <2>1, <2>2
<1>5. /\ job' \in [Replicas -> Job] /\ job'[r].phase = "none"
      /\ \A s \in Replicas \ {r} : job'[s] = job[s]
  <2>1. NoJob \in Job /\ NoJob.phase = "none"
    BY DEF NoJob, Job, Phases
  <2> QED
    BY <2>1, SessionFields DEF Resume
<1>6. \A q \in Requests : ~Waits(q, r) => req'[q] = req[q]
  BY DEF Resume, Waits
<1>7. \A q \in Requests : Waits(q, r) =>
        /\ req'[q] \in RequestRow /\ req'[q].at = step /\ req'[q].copy = row'
        /\ req'[q].began = req[q].began /\ req'[q].on = r
  <2> SUFFICES ASSUME NEW q \in Requests, Waits(q, r)
               PROVE  /\ req'[q] \in RequestRow /\ req'[q].at = step /\ req'[q].copy = row'
                      /\ req'[q].began = req[q].began /\ req'[q].on = r
    OBVIOUS
  <2>1. req'[q] = [req[q] EXCEPT !.at = step, !.copy = row']
    BY DEF Resume, Waits
  <2>2. req[q] \in RequestRow /\ req[q].on = r
    BY SessionFields DEF Waits
  <2>3. step \in Waypoints
    BY DEF Waypoints
  <2> QED
    BY <1>4, <2>1, <2>2, <2>3 DEF RequestRow
<1>8. req' \in [Requests -> RequestRow]
  <2>1. \A q \in Requests : req'[q] \in RequestRow
    BY <1>6, <1>7, SessionFields
  <2> QED
    BY <2>1 DEF Resume
<1>9. SessionTypeOK'
  BY <1>1, <1>4, <1>5, <1>8, SessionFields DEF SessionTypeOK, BackoffRow, RequestRow
<1>10. RequestsAreShort'
  BY <1>4, <1>6, <1>7 DEF SessionInv, RequestsAreShort, Waits
<1>11. CopiesAreEarlier'
  <2> SUFFICES ASSUME NEW q \in Requests, req'[q].at # "idle"
               PROVE  /\ req'[q].copy.refresh <= row'.refresh
                      /\ req'[q].copy.refresh < row'.refresh =>
                           row'.access >= req'[q].began + AccessTtl
                      /\ req'[q].copy.refresh = 0 => row'.refresh = 0
                      /\ req'[q].copy.validated <= row'.validated
    BY DEF CopiesAreEarlier
  <2>1. CASE Waits(q, r)
    BY <1>4, <1>7, <2>1 DEF SessionRow
  <2>2. CASE ~Waits(q, r)
    <3>1. /\ req'[q] = req[q]
          /\ req[q].copy.refresh <= row.refresh
          /\ req[q].copy.refresh < row.refresh => row.access >= req[q].began + AccessTtl
          /\ req[q].copy.refresh = 0 => row.refresh = 0
          /\ req[q].copy.validated <= row.validated
          /\ req[q].copy.refresh \in Nat /\ req[q].began \in Nat /\ req[q].began <= now
      BY <1>6, <2>2, SessionFields
      DEF SessionInv, CopiesAreEarlier, RequestsAreShort, SessionRow, RequestRow
    <3>2. CASE row' = row
      BY <3>1, <3>2
    <3>3. CASE Stored(r)
      BY <1>2, <1>3, <1>4, <3>1, <3>3, SessionFields, SessionConstants
    <3> QED
      BY <3>2, <3>3
  <2> QED
    BY <2>1, <2>2
<1>12. Justified => Justified'
  <2>1. Stuck => row' = row
    BY DEF Stuck, Stored
  <2>2. Stuck => Stuck'
    BY <1>5, <2>1 DEF Stuck
  <2> QED
    BY <1>1, <2>2 DEF Justified
<1>13. TokensAreIssued'
  <2>1. ASSUME NEW s \in Replicas, job'[s].phase = "granted"
        PROVE  /\ job'[s].fresh = idp.good /\ row'.refresh < idp.good
               /\ \A x \in Replicas : job'[x].phase = "granted" => x = s
    <3>1. s # r /\ job[s].phase = "granted" /\ job'[s] = job[s]
      BY <1>5, <2>1
    <3>2. row' = row
      BY <1>3, <3>1
    <3> QED
      BY <1>5, <3>1, <3>2 DEF SessionInv, RefreshInv, TokensAreIssued
  <2> QED
    BY <1>4, <2>1 DEF SessionInv, RefreshInv, TokensAreIssued
<1>14. \A q \in Requests, s \in Replicas : s # r /\ Waits(q, s) => Waits(q, s)' /\ req'[q] = req[q]
  BY <1>6 DEF Waits
<1>15. JobsAreAwaited'
  <2> SUFFICES ASSUME NEW s \in Replicas, job'[s].phase # "none"
               PROVE  /\ job'[s].token > 0
                      /\ \E q \in Requests : Waits(q, s)' /\ req'[q].copy.refresh = job'[s].token
    BY DEF JobsAreAwaited
  <2>1. s # r /\ job'[s] = job[s]
    BY <1>5
  <2>2. PICK q \in Requests : Waits(q, s) /\ req[q].copy.refresh = job[s].token
    BY <2>1 DEF SessionInv, RefreshInv, JobsAreAwaited
  <2>3. job[s].token > 0
    BY <2>1 DEF SessionInv, RefreshInv, JobsAreAwaited
  <2> QED
    BY <1>14, <2>1, <2>2, <2>3
<1>16. RefusalsAreFinal'
  <2> SUFFICES ASSUME NEW s \in Replicas, job'[s].phase \in {"rejected", "waited"}
               PROVE  idp.gone # Never \/ job'[s].token < idp.good
    BY DEF RefusalsAreFinal
  <2>1. s # r /\ job'[s] = job[s]
    BY <1>5
  <2> QED
    BY <2>1 DEF SessionInv, RefreshInv, RefusalsAreFinal
<1>17. SignOutsAreEarned'
  <2> SUFFICES ASSUME NEW q \in Requests, req'[q].at = "destroy", row'.live
               PROVE  SessionIsExpired(req[q].copy)' \/ Justified'
    BY DEF SignOutsAreEarned
  <2>1. CASE Waits(q, r)
    <3>1. step = "destroy" /\ row.live /\ req'[q].copy = row'
      BY <1>4, <1>7, <2>1
    <3>2. SessionIsExpired(row) \/ Justified \/ trouble'.database
      BY <3>1
    <3>3. SessionIsExpired(row) => SessionIsExpired(req[q].copy)'
      <4>1. row' = row \/ row' = [row EXCEPT !.refresh = job[r].fresh, !.access = now + AccessTtl]
        BY DEF Stored
      <4>2. row'.expires = row.expires /\ row'.created = row.created
        BY <4>1, SessionFields DEF SessionRow
      <4> QED
        BY <3>1, <4>2 DEF SessionIsExpired
    <3> QED
      BY <1>12, <3>2, <3>3 DEF Justified
  <2>2. CASE ~Waits(q, r)
    BY <1>4, <1>6, <1>12, <2>2 DEF SessionInv, RefreshInv, SignOutsAreEarned, SessionIsExpired
  <2> QED
    BY <2>1, <2>2
<1>18. FailuresAreRecent'
  <2>1. ASSUME NEW s \in Replicas, job'[s].phase = "failed", row'.live
        PROVE  \E q \in Requests : Waits(q, s)' /\ req'[q].began <= trouble'.at
    <3>1. s # r /\ job'[s] = job[s]
      BY <1>5, <2>1
    <3>2. PICK q \in Requests : Waits(q, s) /\ req[q].began <= trouble.at
      BY <1>4, <2>1, <3>1 DEF SessionInv, EntitledInv, FailuresAreRecent
    <3>3. req[q].began \in Nat
      BY SessionFields DEF RequestRow
    <3> QED
      BY <1>1, <1>14, <3>1, <3>2, <3>3, SessionFields, SessionConstants
  <2>2. ASSUME NEW s \in Replicas, backoff'[s].failures > 0
        PROVE  trouble'.at # Never /\ backoff'[s].retryAt <= trouble'.at + 1 + BackoffMax
    <3>1. trouble.at # Never /\ backoff'[s].retryAt <= trouble.at + 1 + BackoffMax
      BY <2>2 DEF SessionInv, EntitledInv, FailuresAreRecent
    <3>2. backoff'[s].retryAt \in Int
      BY DEF BackoffRow
    <3> QED
      BY <1>1, <3>1, <3>2, SessionFields, SessionConstants
  <2> QED
    BY <1>1, <2>1, <2>2 DEF FailuresAreRecent
<1>19. AnswersAreOld'
  <2>1. idp.gone # Never => idp.gone <= now
    BY DEF SessionInv, EntitledInv, AnswersAreOld
  <2>2. ASSUME GoneQuietly', NEW q \in Requests
        PROVE  /\ row'.validated <= idp.gone + 1
               /\ req'[q].at = "confirmed" => req'[q].began <= idp.gone
               /\ req'[q].at \in {"extend", "authorised"} => req'[q].began <= idp.gone + Revalidate
    <3>1. GoneQuietly
      BY <1>1, <2>2
    <3>2. CASE Waits(q, r)
      <4>1. req[q].began \in Nat /\ req[q].began <= now /\ idp.gone \in Nat
        BY <3>1, <3>2, SessionFields DEF SessionInv, RequestsAreShort, Waits, RequestRow, GoneQuietly
      <4> QED
        BY <1>4, <1>7, <3>1, <3>2, <4>1, SessionFields, SessionConstants
        DEF SessionInv, EntitledInv, AnswersAreOld
    <3>3. CASE ~Waits(q, r)
      BY <1>4, <1>6, <3>1, <3>3 DEF SessionInv, EntitledInv, AnswersAreOld
    <3> QED
      BY <3>2, <3>3
  <2>3. GoneQuietly' => row'.validated <= idp.gone + 1
    BY <1>1, <1>4 DEF SessionInv, EntitledInv, AnswersAreOld
  <2> QED
    BY <2>1, <2>2, <2>3 DEF AnswersAreOld
<1>20. BelowCeiling'
  BY <1>6, <1>7 DEF SessionInv, EntitledInv, BelowCeiling, Waits
<1> QED
  BY <1>9, <1>10, <1>11, <1>13, <1>15, <1>16, <1>17, <1>18, <1>19, <1>20
  DEF SessionInv, RefreshInv, EntitledInv

-----------------------------------------------------------------------------
LEMMA StartRefreshInv ==
  ASSUME SessionInv, NEW q \in Requests, StartRefresh(q)
  PROVE  SessionInv'
<1> DEFINE r == req[q].on
<1>1. /\ req[q].at = "read" /\ req[q].copy.refresh > 0 /\ job[r] = NoJob
      /\ r \in Replicas /\ ~SessionIsExpired(req[q].copy)
      /\ req[q].copy \in SessionRow /\ req[q].copy.refresh \in Nat
      /\ UNCHANGED <<now, row, idp, backoff, faults, trouble>>
  BY DEF StartRefresh, NeedsRefresh, NoFail, SessionInv, RequestsAreShort, SessionRow
<1>2. /\ req' \in [Requests -> RequestRow]
      /\ req'[q].at = "joined" /\ req'[q].on = r
      /\ req'[q].began = req[q].began /\ req'[q].copy = req[q].copy
      /\ \A p \in Requests \ {q} : req'[p] = req[p]
  <2>1. req \in [Requests -> RequestRow]
    BY SessionFields
  <2>2. req' = [req EXCEPT ![q].at = "joined"]
    BY DEF StartRefresh, ToStep
  <2> QED
    BY <2>1, <2>2 DEF RequestRow, Waypoints
<1>3. /\ job' \in [Replicas -> Job] /\ job'[r].phase = "grant"
      /\ job'[r].token = req[q].copy.refresh
      /\ \A s \in Replicas \ {r} : job'[s] = job[s]
  <2>1. [phase |-> "grant", token |-> req[q].copy.refresh, fresh |-> 0] \in Job
    BY <1>1 DEF Job, Phases
  <2>2. job' = [job EXCEPT ![r] = [phase |-> "grant", token |-> req[q].copy.refresh, fresh |-> 0]]
    BY DEF StartRefresh
  <2> QED
    BY <1>1, <2>1, <2>2, SessionFields
<1>4. job[r].phase = "none"
  BY <1>1 DEF NoJob
<1> HIDE DEF r
<1>5. SessionTypeOK'
  BY <1>1, <1>2, <1>3, SessionFields DEF SessionTypeOK, BackoffRow, RequestRow
<1>6. RequestsAreShort' /\ CopiesAreEarlier'
  BY <1>1, <1>2 DEF SessionInv, RequestsAreShort, CopiesAreEarlier
<1>7. Justified => Justified'
  BY <1>1, <1>3 DEF Justified, Stuck
<1>8. \A p \in Requests, s \in Replicas : Waits(p, s) => Waits(p, s)' /\ req'[p] = req[p]
  BY <1>1, <1>2 DEF Waits
<1>9. TokensAreIssued'
  <2>1. \A s \in Replicas : job'[s].phase = "granted" => s # r /\ job'[s] = job[s]
    BY <1>3
  <2> QED
    BY <1>1, <2>1 DEF SessionInv, RefreshInv, TokensAreIssued
<1>10. JobsAreAwaited'
  <2> SUFFICES ASSUME NEW s \in Replicas, job'[s].phase # "none"
               PROVE  /\ job'[s].token > 0
                      /\ \E p \in Requests : Waits(p, s)' /\ req'[p].copy.refresh = job'[s].token
    BY DEF JobsAreAwaited
  <2>1. CASE s = r
    <3>1. Waits(q, s)' /\ req'[q].copy.refresh = job'[s].token
      BY <1>2, <1>3, <2>1 DEF Waits
    <3> QED
      BY <1>1, <1>3, <2>1, <3>1
  <2>2. CASE s # r
    BY <1>3, <1>8, <2>2 DEF SessionInv, RefreshInv, JobsAreAwaited
  <2> QED
    BY <2>1, <2>2
<1>11. RefusalsAreFinal'
  BY <1>1, <1>3, <1>4, <1>7 DEF SessionInv, RefreshInv, RefusalsAreFinal
<1>12. SignOutsAreEarned'
  BY <1>1, <1>2, <1>7 DEF SessionInv, RefreshInv, SignOutsAreEarned, SessionIsExpired
<1>13. FailuresAreRecent'
  <2>1. ASSUME NEW s \in Replicas, job'[s].phase = "failed", row.live
        PROVE  \E p \in Requests : Waits(p, s)' /\ req'[p].began <= trouble.at
    <3>1. job[s].phase = "failed"
      BY <1>3, <2>1
    <3> QED
      BY <1>8, <2>1, <3>1 DEF SessionInv, EntitledInv, FailuresAreRecent
  <2> QED
    BY <1>1, <2>1 DEF SessionInv, EntitledInv, FailuresAreRecent
<1>14. AnswersAreOld'
  BY <1>1, <1>2 DEF SessionInv, EntitledInv, AnswersAreOld, GoneQuietly
<1>15. AbsoluteTtl > 0 => req[q].began < AbsoluteTtl
  <2>1. /\ req[q].copy.created = 0 /\ req[q].began \in Nat /\ req[q].began <= now
    BY <1>1, SessionFields DEF SessionInv, RequestsAreShort, SessionRow, RequestRow
  <2> QED
    BY <1>1, <2>1, SessionFields, SessionConstants DEF SessionIsExpired
<1>16. BelowCeiling'
  BY <1>2, <1>15 DEF SessionInv, EntitledInv, BelowCeiling
<1> QED
  BY <1>5, <1>6, <1>9, <1>10, <1>11, <1>12, <1>13, <1>14, <1>16
  DEF SessionInv, RefreshInv, EntitledInv

-----------------------------------------------------------------------------
(* Time, the administrator of the provider, and restarts.                  *)
LEMMA TickInv ==
  ASSUME SessionInv, Tick
  PROVE  SessionInv'
<1>1. /\ now' = now + 1 /\ now \in Nat
      /\ UNCHANGED <<row, idp, backoff, job, req, faults, trouble>>
      /\ \A q \in Requests : req[q].at # "idle" => req[q].began = now
  BY SessionFields DEF Tick, NoFail
<1>2. SessionTypeOK' /\ RequestsAreShort' /\ CopiesAreEarlier'
  BY <1>1 DEF SessionInv, SessionTypeOK, RequestsAreShort, CopiesAreEarlier
<1>3. RefreshInv'
  <2>1. TokensAreIssued' /\ JobsAreAwaited' /\ RefusalsAreFinal'
    BY <1>1, SessionFields
    DEF SessionInv, RefreshInv, TokensAreIssued, JobsAreAwaited, RefusalsAreFinal, Waits,
        Justified, Stuck
  <2>2. SignOutsAreEarned'
    <3> SUFFICES ASSUME NEW q \in Requests, req[q].at = "destroy", row.live
                 PROVE  SessionIsExpired(req[q].copy)' \/ Justified
      BY <1>1 DEF SignOutsAreEarned, Justified, Stuck
    <3>1. SessionIsExpired(req[q].copy) \/ Justified
      BY DEF SessionInv, RefreshInv, SignOutsAreEarned
    <3>2. req[q].copy.expires \in Nat /\ req[q].copy.created = 0
      BY DEF SessionInv, RequestsAreShort, SessionRow
    <3> QED
      BY <1>1, <3>1, <3>2, SessionConstants DEF SessionIsExpired
  <2> QED
    BY <2>1, <2>2 DEF RefreshInv
<1>4. EntitledInv'
  <2>1. FailuresAreRecent'
    BY <1>1, SessionFields, SessionConstants
    DEF SessionInv, EntitledInv, FailuresAreRecent, Waits
  <2>2. AnswersAreOld' /\ BelowCeiling'
    BY <1>1, SessionFields DEF SessionInv, EntitledInv, AnswersAreOld, BelowCeiling, GoneQuietly
  <2> QED
    BY <2>1, <2>2 DEF EntitledInv
<1> QED
  BY <1>2, <1>3, <1>4 DEF SessionInv

LEMMA RevokeAccountInv ==
  ASSUME SessionInv, RevokeAccount
  PROVE  SessionInv'
<1>1. /\ idp.gone = Never /\ idp'.gone = now /\ idp'.good = idp.good
      /\ idp' \in [good : Nat, gone : Nat \cup {Never}]
      /\ UNCHANGED <<now, row, backoff, job, req, faults, trouble>>
  BY SessionFields DEF RevokeAccount, NoFail
<1>2. SessionTypeOK' /\ RequestsAreShort' /\ CopiesAreEarlier'
  BY <1>1 DEF SessionInv, SessionTypeOK, RequestsAreShort, CopiesAreEarlier
<1>3. Justified'
  BY <1>1, SessionFields, SessionConstants DEF Justified
<1>4. idp'.gone # Never
  BY <1>1, SessionFields, SessionConstants
<1>5. RefreshInv'
  BY <1>1, <1>3, <1>4
  DEF SessionInv, RefreshInv, TokensAreIssued, JobsAreAwaited, RefusalsAreFinal, Waits,
      SignOutsAreEarned
<1>6. AnswersAreOld'
  <2>1. row.validated <= now /\ \A q \in Requests : req[q].at # "idle" => req[q].began <= now
    BY DEF SessionInv, RefreshInv, TokensAreIssued, RequestsAreShort
  <2>2. \A q \in Requests : req[q].began \in Nat
    BY SessionFields DEF RequestRow
  <2> QED
    BY <1>1, <2>1, <2>2, SessionFields, SessionConstants DEF AnswersAreOld
<1>7. FailuresAreRecent' /\ BelowCeiling'
  BY <1>1 DEF SessionInv, EntitledInv, FailuresAreRecent, BelowCeiling, Waits
<1> QED
  BY <1>2, <1>5, <1>6, <1>7 DEF SessionInv, EntitledInv

LEMMA RestartInv ==
  ASSUME SessionInv, NEW r \in Replicas, Restart(r)
  PROVE  SessionInv'
<1>1. UNCHANGED <<now, row, idp>> /\ Incident
  BY DEF Restart, Incident
<1>2. /\ faults' \in Nat /\ trouble' \in [at : Nat \cup {Never}, database : BOOLEAN]
      /\ trouble'.at >= trouble.at /\ trouble'.at <= now
      /\ trouble.at # Never => trouble'.at # Never
      /\ trouble.database => trouble'.database
      /\ GoneQuietly' => GoneQuietly /\ trouble' = trouble
  BY <1>1, IncidentEffect
<1>3. /\ backoff' \in [Replicas -> BackoffRow]
      /\ \A s \in Replicas : backoff'[s].failures > 0 => backoff'[s] = backoff[s]
  BY BackoffEffect DEF Restart, BackoffCleared
<1>4. /\ job' \in [Replicas -> Job] /\ job'[r].phase = "none"
      /\ \A s \in Replicas \ {r} : job'[s] = job[s]
  <2>1. NoJob \in Job /\ NoJob.phase = "none"
    BY DEF NoJob, Job, Phases
  <2> QED
    BY <2>1, SessionFields DEF Restart
<1>5. /\ req' \in [Requests -> RequestRow]
      /\ \A q \in Requests : \/ req[q].on = r /\ req'[q].at = "idle"
                             \/ req[q].on # r /\ req'[q] = req[q]
  <2>1. Idle \in RequestRow /\ Idle.at = "idle"
    BY DEF Idle, RequestRow, Waypoints
  <2> QED
    BY <2>1, SessionFields DEF Restart
<1>6. SessionTypeOK'
  BY <1>1, <1>2, <1>3, <1>4, <1>5, SessionFields DEF SessionTypeOK, BackoffRow, RequestRow
<1>7. RequestsAreShort' /\ CopiesAreEarlier'
  BY <1>1, <1>5 DEF SessionInv, RequestsAreShort, CopiesAreEarlier
<1>8. \A q \in Requests, s \in Replicas : s # r /\ Waits(q, s) => Waits(q, s)' /\ req'[q] = req[q]
  BY <1>5 DEF Waits
<1>9. Justified => Justified'
  BY <1>1, <1>2, <1>4 DEF Justified, Stuck
<1>10. \A s \in Replicas : job'[s].phase # "none" => s # r /\ job'[s] = job[s]
  BY <1>4
<1>11. TokensAreIssued'
  BY <1>1, <1>10 DEF SessionInv, RefreshInv, TokensAreIssued
<1>12. JobsAreAwaited'
  BY <1>8, <1>10 DEF SessionInv, RefreshInv, JobsAreAwaited
<1>13. RefusalsAreFinal'
  BY <1>1, <1>9, <1>10 DEF SessionInv, RefreshInv, RefusalsAreFinal
<1>14. SignOutsAreEarned'
  BY <1>1, <1>5, <1>9 DEF SessionInv, RefreshInv, SignOutsAreEarned, SessionIsExpired
<1>15. FailuresAreRecent'
  <2>1. ASSUME NEW s \in Replicas, job'[s].phase = "failed", row.live
        PROVE  \E q \in Requests : Waits(q, s)' /\ req'[q].began <= trouble'.at
    <3>1. s # r /\ job'[s] = job[s]
      BY <1>10, <2>1
    <3>2. PICK q \in Requests : Waits(q, s) /\ req[q].began <= trouble.at
      BY <2>1, <3>1 DEF SessionInv, EntitledInv, FailuresAreRecent
    <3>3. req[q].began \in Nat
      BY SessionFields DEF RequestRow
    <3> QED
      BY <1>2, <1>8, <3>1, <3>2, <3>3, SessionFields, SessionConstants
  <2>2. ASSUME NEW s \in Replicas, backoff'[s].failures > 0
        PROVE  trouble'.at # Never /\ backoff'[s].retryAt <= trouble'.at + 1 + BackoffMax
    <3>1. trouble.at # Never /\ backoff[s].retryAt <= trouble.at + 1 + BackoffMax
      BY <1>3, <2>2 DEF SessionInv, EntitledInv, FailuresAreRecent
    <3>2. backoff[s].retryAt \in Int
      BY SessionFields DEF BackoffRow
    <3> QED
      BY <1>2, <1>3, <2>2, <3>1, <3>2, SessionFields, SessionConstants
  <2> QED
    BY <1>1, <1>2, <2>1, <2>2 DEF FailuresAreRecent
<1>16. AnswersAreOld' /\ BelowCeiling'
  BY <1>1, <1>2, <1>5 DEF SessionInv, EntitledInv, AnswersAreOld, BelowCeiling
<1> QED
  BY <1>6, <1>7, <1>11, <1>12, <1>13, <1>14, <1>15, <1>16 DEF SessionInv, RefreshInv, EntitledInv

-----------------------------------------------------------------------------
(* The steps of a request.                                                 *)

(* A session that is not expired has not reached its ceiling.              *)
LEMMA BeganBelowCeiling ==
  ASSUME SessionInv, NEW q \in Requests, req[q].at # "idle", AbsoluteTtl > 0,
         ~SessionIsExpired(req[q].copy)
  PROVE  req[q].began < AbsoluteTtl
<1>1. /\ req[q].copy.created = 0 /\ req[q].began \in Nat /\ req[q].began <= now
  BY SessionFields DEF SessionInv, RequestsAreShort, SessionRow, RequestRow
<1> QED
  BY <1>1, SessionFields, SessionConstants DEF SessionIsExpired

(* A session found not due was validated before the account went.          *)
LEMMA NotDueIsRecent ==
  ASSUME SessionInv, NEW x \in SessionRow, x.validated <= row.validated, ~NeedsRevalidation(x),
         GoneQuietly
  PROVE  now <= idp.gone + Revalidate
<1>1. x.validated \in Nat /\ row.validated <= idp.gone + 1 /\ idp.gone \in Nat
  BY SessionFields DEF SessionRow, SessionInv, EntitledInv, AnswersAreOld, GoneQuietly
<1> QED
  BY <1>1, SessionFields, SessionConstants DEF NeedsRevalidation

LEMMA AtProvider ==
  ASSUME SessionInv, NEW q \in Requests, req[q].at \in {"validate", "confirmed", "extend"}
  PROVE  AbsoluteTtl > 0 => req[q].began < AbsoluteTtl
  BY DEF SessionInv, EntitledInv, BelowCeiling

LEMMA GoesOnInv ==
  ASSUME SessionInv, NEW q \in Requests,
         CheckExpired(q) \/ SkipRefresh(q) \/ GiveUp(q) \/ ServeStale(q) \/ JoinRefresh(q)
  PROVE  SessionInv'
<1>1. /\ req[q].at = "read" /\ UNCHANGED <<now, row, idp, job>> /\ Incident
      /\ BackoffCleared /\ UNCHANGED <<faults, trouble>>
  <2>1. req[q].at = "read" => req[q].on \in Replicas
    BY DEF SessionInv, RequestsAreShort
  <2> QED
    BY <2>1 DEF CheckExpired, SkipRefresh, GiveUp, ServeStale, JoinRefresh, NeedsRefresh, Incident,
                NoFail, BackoffCleared
<1>2. /\ req[q].copy \in SessionRow /\ req[q].began \in Nat /\ req[q].began <= now
      /\ req[q].copy.validated <= row.validated /\ req[q].on \in Replicas
      /\ req[q].copy.refresh = 0 => row.refresh = 0
  BY <1>1, SessionFields DEF SessionInv, RequestsAreShort, CopiesAreEarlier, RequestRow
<1>3. GoneQuietly' => GoneQuietly
  BY <1>1 DEF GoneQuietly
<1>4. CASE CheckExpired(q)
  <2>1. ToStep(q, "destroy") /\ SessionIsExpired(req[q].copy)
    BY <1>4 DEF CheckExpired
  <2>2. "destroy" \in Waypoints \ {"idle", "read"}
    BY DEF Waypoints
  <2> QED
    BY <1>1, <2>1, <2>2, MoveInv
<1>5. CASE GiveUp(q)
  <2>1. ToStep(q, "destroy") /\ req[q].copy.refresh = 0
    BY <1>5 DEF GiveUp
  <2>2. Stuck
    <3>1. row.refresh < idp.good
      BY <1>2, <2>1, SessionFields DEF SessionInv, RefreshInv, TokensAreIssued
    <3>2. ASSUME NEW r \in Replicas, job[r].phase = "granted" PROVE FALSE
      BY <1>2, <2>1, <3>2, TokenIsStored
    <3> QED
      BY <3>1, <3>2 DEF Stuck
  <2>3. "destroy" \in Waypoints \ {"idle", "read"}
    BY DEF Waypoints
  <2> QED
    BY <1>1, <2>1, <2>2, <2>3, MoveInv DEF Justified
<1>6. CASE SkipRefresh(q)
  <2> DEFINE step == AfterRefresh(req[q].copy)
  <2>1. ToStep(q, step) /\ ~SessionIsExpired(req[q].copy)
    BY <1>6 DEF SkipRefresh
  <2>2. step \in Waypoints \ {"idle", "read"} /\ step \in {"validate", "extend"}
    BY DEF AfterRefresh, Waypoints
  <2>3. step = "extend" => ~NeedsRevalidation(req[q].copy)
    BY DEF AfterRefresh
  <2> HIDE DEF step
  <2>4. step \in {"extend", "authorised"} /\ GoneQuietly => req[q].began <= idp.gone + Revalidate
    <3>1. step \in {"extend", "authorised"} /\ GoneQuietly => now <= idp.gone + Revalidate
      BY <1>2, <2>2, <2>3, NotDueIsRecent
    <3>2. GoneQuietly => idp.gone \in Nat
      BY SessionFields DEF GoneQuietly
    <3> QED
      BY <1>2, <3>1, <3>2, SessionFields, SessionConstants
  <2>5. AbsoluteTtl > 0 => req[q].began < AbsoluteTtl
    BY <1>1, <2>1, BeganBelowCeiling
  <2> QED
    BY <1>1, <2>1, <2>2, <2>4, <2>5, MoveInv
<1>7. CASE ServeStale(q)
  <2>1. ToStep(q, "extend") /\ ~SessionIsExpired(req[q].copy) /\ CoolingDown(req[q].on)
    BY <1>7 DEF ServeStale, NeedsRefresh
  <2>2. "extend" \in Waypoints \ {"idle", "read"}
    BY DEF Waypoints
  <2>3. GoneQuietly => req[q].began <= idp.gone + Revalidate
    <3> SUFFICES ASSUME GoneQuietly PROVE req[q].began <= idp.gone + Revalidate
      OBVIOUS
    <3> DEFINE b == backoff[req[q].on]
    <3>1. b.failures > 0 /\ b.retryAt > now /\ b.retryAt \in Int
      BY <1>2, <2>1, SessionFields DEF CoolingDown, BackoffRow
    <3>2. trouble.at # Never /\ b.retryAt <= trouble.at + 1 + BackoffMax
      BY <1>2, <3>1 DEF SessionInv, EntitledInv, FailuresAreRecent
    <3>3. idp.gone \in Nat /\ trouble.at \in Nat /\ trouble.at + BackoffMax < idp.gone
      BY <3>2, SessionFields DEF GoneQuietly
    <3> HIDE DEF b
    <3> QED
      BY <1>2, <3>1, <3>2, <3>3, SessionFields, SessionConstants
  <2>4. AbsoluteTtl > 0 => req[q].began < AbsoluteTtl
    BY <1>1, <2>1, BeganBelowCeiling
  <2> QED
    BY <1>1, <2>1, <2>2, <2>3, <2>4, MoveInv
<1>8. CASE JoinRefresh(q)
  <2>1. ToStep(q, "joined") /\ ~SessionIsExpired(req[q].copy)
    BY <1>8 DEF JoinRefresh, NeedsRefresh
  <2>2. "joined" \in Waypoints \ {"idle", "read"}
    BY DEF Waypoints
  <2>3. AbsoluteTtl > 0 => req[q].began < AbsoluteTtl
    BY <1>1, <2>1, BeganBelowCeiling
  <2> QED
    BY <1>1, <2>1, <2>2, <2>3, MoveInv
<1> QED
  BY <1>4, <1>5, <1>6, <1>7, <1>8

LEMMA AskProviderInv ==
  ASSUME SessionInv, NEW q \in Requests, AskProvider(q) \/ ProviderUnreachable(q)
  PROVE  SessionInv'
<1>1. /\ req[q].at = "validate" /\ UNCHANGED <<now, row, idp, job>> /\ Incident
      /\ BackoffCleared
  BY DEF AskProvider, ProviderUnreachable, Incident, BackoffCleared
<1>2. /\ req[q].began \in Nat /\ req[q].began <= now
      /\ AbsoluteTtl > 0 => req[q].began < AbsoluteTtl
  BY <1>1, SessionFields, AtProvider DEF SessionInv, RequestsAreShort, RequestRow
<1>3. {"confirmed", "destroy"} \subseteq Waypoints \ {"idle", "read"}
  BY DEF Waypoints
<1>4. CASE AskProvider(q)
  <2> DEFINE step == IF idp.gone = Never THEN "confirmed" ELSE "destroy"
  <2>1. /\ ToStep(q, step) /\ step \in {"confirmed", "destroy"}
        /\ step = "destroy" => Justified
        /\ step = "confirmed" => idp.gone = Never
    BY <1>4 DEF AskProvider, Justified
  <2> HIDE DEF step
  <2>2. step = "confirmed" /\ GoneQuietly' => req[q].began <= idp.gone
    BY <1>1, <2>1 DEF GoneQuietly
  <2> QED
    BY <1>1, <1>2, <1>3, <2>1, <2>2, MoveInv
<1>5. CASE ProviderUnreachable(q)
  <2>1. ToStep(q, "confirmed") /\ trouble'.at = now
    BY <1>5 DEF ProviderUnreachable, Fail
  <2>2. ~GoneQuietly'
    <3>1. idp.gone # Never => idp.gone \in Nat /\ idp.gone <= now
      BY SessionFields DEF SessionInv, EntitledInv, AnswersAreOld
    <3> QED
      BY <1>1, <2>1, <3>1, SessionFields, SessionConstants DEF GoneQuietly
  <2> QED
    BY <1>1, <1>2, <1>3, <2>1, <2>2, MoveInv
<1> QED
  BY <1>4, <1>5

LEMMA ArriveInv ==
  ASSUME SessionInv, NEW q \in Requests, NEW r \in Replicas, Arrive(q, r)
  PROVE  SessionInv'
<1> DEFINE x == [at |-> "read", on |-> r, began |-> now, copy |-> row]
<1>1. /\ req[q].at = "idle" /\ req' = [req EXCEPT ![q] = x]
      /\ UNCHANGED <<now, row, idp, backoff, job>> /\ NoFail
  BY DEF Arrive
<1>2. x \in RequestRow /\ x.copy = row
  BY SessionFields DEF RequestRow, Waypoints
<1>3. Sound(x)
  BY SessionFields DEF Sound
<1> HIDE DEF x
<1>4. /\ req' \in [Requests -> RequestRow] /\ req'[q] = x
      /\ \A p \in Requests \ {q} : req'[p] = req[p]
  BY <1>1, <1>2, SessionFields
<1>5. \A p \in Requests :
        \/ req'[p] = req[p]
        \/ req[p].at # "joined" /\ req'[p].at = "idle"
        \/ /\ req[p].at # "joined" /\ Sound(req'[p])
           /\ req'[p].copy.validated <= row'.validated
  BY <1>1, <1>2, <1>3, <1>4, SessionFields
<1>6. row.validated <= now /\ (GoneQuietly => row.validated <= idp.gone + 1)
  BY DEF SessionInv, RefreshInv, TokensAreIssued, EntitledInv, AnswersAreOld
<1> QED
  BY <1>1, <1>4, <1>5, <1>6, SessionFields, RowTouchedInv DEF BackoffCleared

(* LoseRow, Destroy and Respond end a request; Logout ends the session.    *)
LEMMA EndsInv ==
  ASSUME SessionInv,
         \/ \E q \in Requests : LoseRow(q) \/ Destroy(q) \/ Respond(q)
         \/ \E r \in Replicas : Logout(r)
  PROVE  SessionInv'
<1>1. Idle \in RequestRow /\ Idle.at = "idle"
  BY DEF Idle, RequestRow, Waypoints
<1>2. UNCHANGED <<now, idp, job>> /\ NoFail /\ BackoffCleared
  <2>1. \A q \in Requests : req[q].at \in {"destroy", "outraced"} => req[q].on \in Replicas
    BY DEF SessionInv, RequestsAreShort
  <2> QED
    BY <2>1 DEF LoseRow, Destroy, Respond, Logout, BackoffCleared
<1>3. /\ row' \in SessionRow /\ row'.refresh = row.refresh /\ row'.access = row.access
      /\ row'.validated = row.validated /\ (row'.live => row.live)
  <2>1. row' = row \/ row' = [row EXCEPT !.live = FALSE]
    BY DEF LoseRow, Destroy, Respond, Logout
  <2> QED
    BY <2>1, SessionFields DEF SessionRow
<1>4. /\ req' \in [Requests -> RequestRow]
      /\ \A p \in Requests : \/ req'[p] = req[p]
                             \/ req[p].at # "joined" /\ req'[p].at = "idle"
  <2>1. CASE req' = req
    BY <2>1, SessionFields
  <2>2. ASSUME NEW q \in Requests, req[q].at # "joined", req' = [req EXCEPT ![q] = Idle]
        PROVE  /\ req' \in [Requests -> RequestRow]
               /\ \A p \in Requests : \/ req'[p] = req[p]
                                      \/ req[p].at # "joined" /\ req'[p].at = "idle"
    BY <1>1, <2>2, SessionFields
  <2> QED
    BY <2>1, <2>2 DEF LoseRow, Destroy, Respond, Logout
<1>5. row.validated <= now /\ (GoneQuietly => row.validated <= idp.gone + 1)
  BY DEF SessionInv, RefreshInv, TokensAreIssued, EntitledInv, AnswersAreOld
<1> QED
  BY <1>2, <1>3, <1>4, <1>5, SessionFields, RowTouchedInv

LEMMA StoreValidatedInv ==
  ASSUME SessionInv, NEW q \in Requests, StoreValidated(q)
  PROVE  SessionInv'
<1>1. /\ req[q].at = "confirmed" /\ UNCHANGED <<now, idp, backoff, job>> /\ NoFail
      /\ row' = IF row.live THEN [row EXCEPT !.validated = now] ELSE row
      /\ req' = [req EXCEPT ![q].at = "extend",
                            ![q].copy = IF row.live THEN row' ELSE req[q].copy]
  BY DEF StoreValidated
<1>2. /\ row.validated <= now /\ (GoneQuietly => row.validated <= idp.gone + 1)
      /\ req[q].copy \in SessionRow /\ req[q].copy.validated <= row.validated
      /\ req[q].began \in Nat /\ req[q].began <= now /\ now <= req[q].began + 1
      /\ GoneQuietly => req[q].began <= idp.gone /\ idp.gone \in Nat
      /\ AbsoluteTtl > 0 => req[q].began < AbsoluteTtl
  BY <1>1, SessionFields
  DEF SessionInv, RefreshInv, TokensAreIssued, EntitledInv, AnswersAreOld, RequestsAreShort,
      CopiesAreEarlier, BelowCeiling, RequestRow, GoneQuietly
<1>3. /\ row' \in SessionRow /\ row'.refresh = row.refresh /\ row'.access = row.access
      /\ row'.live = row.live /\ row'.validated \in {row.validated, now}
      /\ row.live => row'.validated = now
      /\ ~row.live => row' = row
  BY <1>1, SessionFields DEF SessionRow
<1>4. row.validated <= row'.validated /\ row'.validated <= now
  BY <1>2, <1>3, SessionFields
<1>5. GoneQuietly => row'.validated <= idp.gone + 1
  BY <1>2, <1>3, SessionFields
<1> DEFINE c == IF row.live THEN row' ELSE req[q].copy
<1>6. /\ c \in SessionRow /\ c.validated <= row'.validated
      /\ c.refresh <= row.refresh
      /\ c.refresh < row.refresh => row.access >= req[q].began + AccessTtl
      /\ c.refresh = 0 => row.refresh = 0
  BY <1>1, <1>2, <1>3, <1>4, SessionFields DEF SessionInv, CopiesAreEarlier, SessionRow
<1>7. req' = [req EXCEPT ![q].at = "extend", ![q].copy = c]
  BY <1>1
<1> HIDE DEF c
<1>8. /\ req' \in [Requests -> RequestRow]
      /\ req'[q].at = "extend" /\ req'[q].copy = c /\ req'[q].began = req[q].began
      /\ req'[q].on = req[q].on
      /\ \A p \in Requests \ {q} : req'[p] = req[p]
  BY <1>6, <1>7, SessionFields DEF RequestRow, Waypoints
<1>9. req[q].on \in Replicas
  BY <1>1 DEF SessionInv, RequestsAreShort
<1>10. Sound(req'[q])
  BY <1>2, <1>6, <1>8, <1>9, SessionFields, SessionConstants DEF Sound
<1>11. \A p \in Requests :
        \/ req'[p] = req[p]
        \/ req[p].at # "joined" /\ req'[p].at = "idle"
        \/ /\ req[p].at # "joined" /\ Sound(req'[p])
           /\ req'[p].copy.validated <= row'.validated
  BY <1>1, <1>6, <1>8, <1>10
<1> QED
  BY <1>1, <1>3, <1>4, <1>5, <1>8, <1>11, RowTouchedInv DEF BackoffCleared

LEMMA ExtendInv ==
  ASSUME SessionInv, NEW q \in Requests, Extend(q)
  PROVE  SessionInv'
<1> DEFINE next == Expiry(req[q].copy.created)
<1>1. /\ req[q].at = "extend" /\ UNCHANGED <<now, idp, backoff, job>> /\ NoFail
      /\ row' = row \/ row' = [row EXCEPT !.expires = next]
      /\ req' = [req EXCEPT ![q].at = "authorised"]
  BY DEF Extend, ToStep
<1>2. /\ row.validated <= now /\ (GoneQuietly => row.validated <= idp.gone + 1)
      /\ req[q].copy \in SessionRow /\ req[q].copy.validated <= row.validated
      /\ req[q].on \in Replicas
      /\ req[q].began \in Nat /\ req[q].began <= now /\ now <= req[q].began + 1
      /\ GoneQuietly => req[q].began <= idp.gone + Revalidate
      /\ AbsoluteTtl > 0 => req[q].began < AbsoluteTtl
  BY <1>1, SessionFields
  DEF SessionInv, RefreshInv, TokensAreIssued, EntitledInv, AnswersAreOld, RequestsAreShort,
      CopiesAreEarlier, BelowCeiling, RequestRow
<1>3. next \in Nat
  <2>1. req[q].copy.created = 0
    BY <1>2 DEF SessionRow
  <2> QED
    BY <2>1, SessionFields, SessionConstants DEF Expiry, Min2
<1> HIDE DEF next
<1>4. /\ row' \in SessionRow /\ row'.refresh = row.refresh /\ row'.access = row.access
      /\ row'.live = row.live /\ row'.validated = row.validated
  BY <1>1, <1>3, SessionFields DEF SessionRow
<1>5. /\ req' \in [Requests -> RequestRow]
      /\ req'[q].at = "authorised" /\ req'[q].copy = req[q].copy
      /\ req'[q].began = req[q].began /\ req'[q].on = req[q].on
      /\ \A p \in Requests \ {q} : req'[p] = req[p]
  BY <1>1, SessionFields DEF RequestRow, Waypoints
<1>6. Sound(req'[q])
  BY <1>1, <1>2, <1>5 DEF Sound, SessionInv, CopiesAreEarlier
<1>7. \A p \in Requests :
        \/ req'[p] = req[p]
        \/ req[p].at # "joined" /\ req'[p].at = "idle"
        \/ /\ req[p].at # "joined" /\ Sound(req'[p])
           /\ req'[p].copy.validated <= row'.validated
  BY <1>1, <1>2, <1>4, <1>5, <1>6
<1> QED
  BY <1>1, <1>2, <1>4, <1>5, <1>7, SessionFields, RowTouchedInv DEF BackoffCleared

-----------------------------------------------------------------------------
(* The steps of a refresh.                                                 *)
LEMMA GrantStepInv ==
  ASSUME SessionInv, NEW r \in Replicas,
         Grant(r) \/ GrantRefused(r) \/ GrantFails(r) \/ CommitFails(r) \/ WaitOnce(r)
  PROVE  SessionInv'
<1>1. /\ job[r] \in Job /\ job[r].phase # "none"
      /\ UNCHANGED <<now, row, backoff, req>> /\ Incident
  BY SessionFields DEF Grant, GrantRefused, GrantFails, CommitFails, WaitOnce, Incident
<1>2. {"granted", "rejected", "failed", "waited"} \subseteq Phases \ {"none", "grant"}
  BY DEF Phases
<1>3. CASE Grant(r)
  <2>1. /\ job[r].token = idp.good /\ NoFail
        /\ idp' = [idp EXCEPT !.good = idp.good + 1]
        /\ job' = [job EXCEPT ![r] = [job[r] EXCEPT !.phase = "granted",
                                                    !.fresh = idp.good + 1]]
    BY <1>3 DEF Grant, Accepted
  <2>2. /\ idp'.good = idp.good + 1 /\ idp'.gone = idp.gone
        /\ idp' \in [good : Nat, gone : Nat \cup {Never}]
    BY <2>1, SessionFields
  <2>3. /\ job' \in [Replicas -> Job] /\ job'[r].phase = "granted"
        /\ job'[r].token = job[r].token /\ job'[r].fresh = idp.good + 1
        /\ \A s \in Replicas \ {r} : job'[s] = job[s]
    <3>1. [job[r] EXCEPT !.phase = "granted", !.fresh = idp.good + 1] \in Job
      <4>1. "granted" \in Phases /\ idp.good + 1 \in Nat
        BY SessionFields DEF Phases
      <4> QED
        BY <1>1, <4>1 DEF Job
    <3> QED
      BY <1>1, <2>1, <3>1, SessionFields DEF Job
  <2> QED
    BY <1>1, <1>2, <2>1, <2>2, <2>3, JobMovesInv
<1>4. ASSUME NEW p \in {"rejected", "failed", "waited"}, job' = [job EXCEPT ![r].phase = p]
      PROVE  /\ job' \in [Replicas -> Job] /\ job'[r].phase = p
             /\ job'[r].token = job[r].token
             /\ \A s \in Replicas \ {r} : job'[s] = job[s]
  BY <1>1, <1>2, <1>4, SessionFields DEF Job
<1>5. CASE GrantRefused(r)
  <2>1. /\ job' = [job EXCEPT ![r].phase = "rejected"] /\ idp' = idp
        /\ idp.gone # Never \/ job[r].token # idp.good
    BY <1>5 DEF GrantRefused, Accepted
  <2> QED
    BY <1>1, <1>2, <1>4, <2>1, SessionFields, JobMovesInv
<1>6. CASE GrantFails(r)
  <2>1. /\ job' = [job EXCEPT ![r].phase = "failed"] /\ trouble'.at = now
        /\ \/ idp' = idp
           \/ job[r].token = idp.good /\ idp' = [idp EXCEPT !.good = idp.good + 1]
    BY <1>6 DEF GrantFails, Fail, Accepted
  <2>2. /\ idp' \in [good : Nat, gone : Nat \cup {Never}] /\ idp'.gone = idp.gone
        /\ \/ idp'.good = idp.good
           \/ job[r].token = idp.good /\ idp'.good = idp.good + 1
    BY <2>1, SessionFields
  <2> QED
    BY <1>1, <1>2, <1>4, <2>1, <2>2, JobMovesInv
<1>7. CASE CommitFails(r)
  <2>1. /\ job' = [job EXCEPT ![r].phase = "failed"] /\ idp' = idp
        /\ row.live => trouble'.at = now
    BY <1>7 DEF CommitFails, Fail
  <2> QED
    BY <1>1, <1>2, <1>4, <2>1, SessionFields, JobMovesInv
<1>8. CASE WaitOnce(r)
  <2>1. /\ job' = [job EXCEPT ![r].phase = "waited"] /\ idp' = idp
        /\ job[r].phase = "rejected"
    BY <1>8 DEF WaitOnce
  <2> QED
    BY <1>1, <1>2, <1>4, <2>1, SessionFields, JobMovesInv
<1> QED
  BY <1>3, <1>5, <1>6, <1>7, <1>8

(* The second look finds a session that another refresh has repaired.      *)
LEMMA OvertakenIsFresh ==
  ASSUME SessionInv, NEW r \in Replicas, job[r].phase # "none", job[r].token < row.refresh
  PROVE  AccessTokenIsFresh(row)
<1>1. PICK q \in Requests : /\ Waits(q, r) /\ req[q].copy.refresh = job[r].token
                            /\ req[q].began \in Nat /\ now <= req[q].began + 1
  BY TokenIsStored
<1>2. row.access >= req[q].began + AccessTtl
  BY <1>1 DEF SessionInv, CopiesAreEarlier, Waits
<1> QED
  BY <1>1, <1>2, SessionFields, SessionConstants DEF AccessTokenIsFresh

LEMMA ResumeStepInv ==
  ASSUME SessionInv, NEW r \in Replicas,
         \/ Commit(r) \/ Reread(r) \/ RefreshIsOver(r) \/ RereadFails(r)
         \/ NoteRefreshFailure(r)
  PROVE  SessionInv'
<1>1. /\ job[r].phase # "none" /\ UNCHANGED <<now, idp>> /\ Incident
  BY DEF Commit, Reread, RefreshIsOver, RereadFails, NoteRefreshFailure, Incident
<1>2. BackoffCleared =>
        /\ backoff' \in [Replicas -> BackoffRow]
        /\ \A s \in Replicas : backoff'[s].failures > 0 => backoff'[s] = backoff[s]
  BY BackoffEffect
<1>3. \A x : /\ AfterRefresh(x) \in {"destroy", "outraced", "validate", "extend"}
             /\ AfterRefresh(x) # "destroy"
             /\ AfterRefresh(x) = "extend" => ~NeedsRevalidation(x)
  BY DEF AfterRefresh
<1>4. CASE Commit(r)
  <2>1. /\ Stored(r) /\ Resume(r, AfterRefresh(row'), row') /\ BackoffCleared
    BY <1>4 DEF Commit, Stored, BackoffCleared
  <2>2. row' \in SessionRow /\ row'.validated = row.validated
    <3>1. job[r].fresh \in Nat /\ now + AccessTtl \in Nat
      BY SessionFields, SessionConstants DEF Job
    <3> QED
      BY <2>1, <3>1, SessionFields DEF Stored, SessionRow
  <2>3. AfterRefresh(row') = "extend" /\ GoneQuietly => now <= idp.gone + Revalidate
    BY <1>3, <2>2, SessionFields, NotDueIsRecent
  <2> QED
    BY <1>1, <1>2, <1>3, <2>1, <2>3, ResumeInv
<1>5. CASE Reread(r)
  <2>1. /\ row' = row /\ Resume(r, AfterRefresh(row), row') /\ BackoffCleared
    BY <1>5 DEF Reread, BackoffCleared
  <2>2. AfterRefresh(row) = "extend" /\ GoneQuietly => now <= idp.gone + Revalidate
    BY <1>3, SessionFields, NotDueIsRecent
  <2> QED
    BY <1>1, <1>2, <1>3, <2>1, <2>2, ResumeInv
<1>6. CASE RefreshIsOver(r)
  <2>1. /\ row' = row /\ Resume(r, SecondLook(r), row') /\ BackoffCleared /\ ~Healthy
        /\ job[r].phase = "waited" \/ ~row.live \/ SessionIsExpired(row)
    BY <1>6 DEF RefreshIsOver, BackoffCleared
  <2>2. SecondLook(r) = "destroy" /\ row.live => SessionIsExpired(row) \/ Justified
    <3> SUFFICES ASSUME SecondLook(r) = "destroy", row.live, ~SessionIsExpired(row)
                 PROVE  Justified
      OBVIOUS
    <3>1. ~AccessTokenIsFresh(row) /\ job[r].phase = "waited"
      BY <2>1 DEF Healthy
    <3>2. \A s \in Replicas : job[s].phase # "granted"
      BY <3>1 DEF SecondLook
    <3>3. idp.gone # Never \/ job[r].token < idp.good
      BY <3>1 DEF SessionInv, RefreshInv, RefusalsAreFinal
    <3>4. row.refresh <= idp.good /\ ~(job[r].token < row.refresh)
      BY <1>1, <3>1, TokenIsStored, OvertakenIsFresh
    <3>5. CASE row.refresh < idp.good
      BY <3>2, <3>5 DEF Justified, Stuck
    <3>6. CASE row.refresh = idp.good
      BY <3>3, <3>4, <3>6 DEF Justified
    <3> QED
      BY <3>4, <3>5, <3>6, SessionFields
  <2>3. /\ backoff' \in [Replicas -> BackoffRow]
        /\ \A s \in Replicas : backoff'[s].failures > 0 => backoff'[s] = backoff[s]
    BY <1>2, <2>1
  <2>4. PICK step \in {"destroy", "outraced", "validate", "extend"} :
          step = SecondLook(r) /\ step # "extend" /\ Resume(r, step, row')
    BY <2>1 DEF SecondLook
  <2>5. \A s \in Replicas : backoff'[s].failures > 0 =>
          \/ backoff'[s] = backoff[s]
          \/ trouble.at # Never /\ backoff'[s].retryAt <= trouble.at + 1 + BackoffMax
    BY <2>3
  <2>6. row' = row \/ Stored(r)
    BY <2>1
  <2>7. step = "destroy" /\ row.live => SessionIsExpired(row) \/ Justified \/ trouble'.database
    BY <2>2, <2>4
  <2>8. step = "extend" /\ GoneQuietly => now <= idp.gone + Revalidate
    BY <2>4
  <2> QED
    BY <1>1, <2>3, <2>4, <2>5, <2>6, <2>7, <2>8, ResumeInv
<1>7. CASE RereadFails(r)
  <2>1. /\ row' = row /\ Resume(r, "destroy", row') /\ BackoffCleared /\ trouble'.database
    BY <1>7 DEF RereadFails, BackoffCleared, Fail
  <2>2. /\ backoff' \in [Replicas -> BackoffRow]
        /\ \A s \in Replicas : backoff'[s].failures > 0 => backoff'[s] = backoff[s]
    BY <1>2, <2>1
  <2>4. PICK step \in {"destroy", "outraced", "validate", "extend"} :
          step = "destroy" /\ step # "extend" /\ Resume(r, step, row')
    BY <2>1
  <2>5. \A s \in Replicas : backoff'[s].failures > 0 =>
          \/ backoff'[s] = backoff[s]
          \/ trouble.at # Never /\ backoff'[s].retryAt <= trouble.at + 1 + BackoffMax
    BY <2>2
  <2>6. row' = row \/ Stored(r)
    BY <2>1
  <2>7. step = "destroy" /\ row.live => SessionIsExpired(row) \/ Justified \/ trouble'.database
    BY <2>1
  <2>8. step = "extend" /\ GoneQuietly => now <= idp.gone + Revalidate
    BY <2>4
  <2> QED
    BY <1>1, <2>2, <2>4, <2>5, <2>6, <2>7, <2>8, ResumeInv
<1>8. CASE NoteRefreshFailure(r)
  <2> DEFINE failures == backoff[r].failures + 1
             entry == [failures |-> failures, retryAt |-> now + BackoffDelay(failures)]
  <2>1. /\ row' = row /\ Resume(r, "extend", row') /\ row.live
        /\ job[r].phase = "failed" /\ backoff' = [backoff EXCEPT ![r] = entry]
    BY <1>8 DEF NoteRefreshFailure
  <2>2. PICK q \in Requests : Waits(q, r) /\ req[q].began <= trouble.at
    BY <2>1 DEF SessionInv, EntitledInv, FailuresAreRecent
  <2>3. req[q].began \in Nat /\ now <= req[q].began + 1
    BY <2>2, SessionFields DEF SessionInv, RequestsAreShort, Waits, RequestRow
  <2>4. trouble.at \in Nat /\ trouble.at # Never /\ now <= trouble.at + 1
    BY <2>2, <2>3, SessionFields, SessionConstants
  <2>5. BackoffDelay(failures) \in Int /\ BackoffDelay(failures) <= BackoffMax
    <3>1. failures - 1 \in Nat
      BY SessionFields DEF BackoffRow
    <3>2. 2 ^ (failures - 1) \in Int
      BY <3>1
    <3> QED
      BY <3>2, SessionConstants DEF BackoffDelay, Min2
  <2>6. entry \in BackoffRow /\ entry.retryAt <= trouble.at + 1 + BackoffMax
    <3>1. failures \in Nat
      BY SessionFields DEF BackoffRow
    <3> HIDE DEF failures
    <3>2. now + BackoffDelay(failures) \in Int
      BY <2>5, SessionFields
    <3> QED
      BY <2>4, <2>5, <3>1, <3>2, SessionFields, SessionConstants DEF BackoffRow
  <2> HIDE DEF entry
  <2>7. backoff' \in [Replicas -> BackoffRow]
    BY <2>1, <2>6, SessionFields
  <2>8. \A s \in Replicas : backoff'[s].failures > 0 =>
          \/ backoff'[s] = backoff[s]
          \/ trouble.at # Never /\ backoff'[s].retryAt <= trouble.at + 1 + BackoffMax
    BY <2>1, <2>4, <2>6, SessionFields
  <2>9. GoneQuietly => now <= idp.gone + Revalidate
    <3>1. GoneQuietly => idp.gone \in Nat /\ trouble.at + BackoffMax < idp.gone
      BY <2>4, SessionFields DEF GoneQuietly
    <3> QED
      BY <2>4, <3>1, SessionFields, SessionConstants
  <2> QED
    BY <1>1, <2>1, <2>7, <2>8, <2>9, ResumeInv
<1> QED
  BY <1>4, <1>5, <1>6, <1>7, <1>8

-----------------------------------------------------------------------------
LEMMA SessionNextInv ==
  ASSUME SessionInv, [SessionNext]_sessionVars
  PROVE  SessionInv'
<1>1. ASSUME NEW q \in Requests, RequestStep(q) PROVE SessionInv'
  BY <1>1, GoesOnInv, StartRefreshInv, AskProviderInv, StoreValidatedInv, ExtendInv, EndsInv
  DEF RequestStep
<1>2. ASSUME NEW r \in Replicas, JobStep(r) PROVE SessionInv'
  BY <1>2, GrantStepInv, ResumeStepInv DEF JobStep
<1>3. CASE UNCHANGED sessionVars
  <2>1. SessionTypeOK' /\ RequestsAreShort' /\ CopiesAreEarlier'
    BY <1>3 DEF sessionVars, SessionInv, SessionTypeOK, RequestsAreShort, CopiesAreEarlier
  <2>2. RefreshInv'
    BY <1>3 DEF sessionVars, SessionInv, RefreshInv, TokensAreIssued, JobsAreAwaited,
                RefusalsAreFinal, SignOutsAreEarned, SessionIsExpired, Justified, Stuck, Waits
  <2>3. EntitledInv'
    BY <1>3 DEF sessionVars, SessionInv, EntitledInv, FailuresAreRecent, AnswersAreOld,
                GoneQuietly, BelowCeiling, Waits
  <2> QED
    BY <2>1, <2>2, <2>3 DEF SessionInv
<1> QED
  BY <1>1, <1>2, <1>3, ArriveInv, EndsInv, RestartInv, TickInv, RevokeAccountInv DEF SessionNext

LEMMA ServedAreEntitled == SessionInv => OnlyEntitledAreServed
<1> SUFFICES ASSUME SessionInv, NEW q \in Requests, req[q].at = "authorised"
             PROVE  /\ GoneQuietly => now <= idp.gone + Revalidate + 1
                    /\ AbsoluteTtl > 0 => req[q].began < req[q].copy.created + AbsoluteTtl
  BY DEF OnlyEntitledAreServed, GoneQuietly
<1>1. /\ req[q].began \in Nat /\ now <= req[q].began + 1
      /\ req[q].copy.created = 0
      /\ GoneQuietly => req[q].began <= idp.gone + Revalidate /\ idp.gone \in Nat
      /\ AbsoluteTtl > 0 => req[q].began < AbsoluteTtl
  BY SessionFields
  DEF SessionInv, RequestsAreShort, EntitledInv, AnswersAreOld, BelowCeiling, RequestRow,
      SessionRow, GoneQuietly
<1> QED
  BY <1>1, SessionFields, SessionConstants

(* Only a request that was sent to sign out deletes the row, a logout      *)
(* apart, and it was sent for a reason.                                    *)
LEMMA SignsOutForReason ==
  ASSUME SessionInv, [SessionNext]_sessionVars
  PROVE  NoAccidentalSignOut
<1> SUFFICES ASSUME row.live, ~row'.live, req' # req
             PROVE  \/ \E q \in Requests : req[q].at = "destroy" /\ SessionIsExpired(req[q].copy)
                    \/ idp.gone # Never
                    \/ row.refresh # idp.good /\ \A r \in Replicas : job[r].phase # "granted"
                    \/ \E q \in Requests : req[q].at = "outraced" /\ req'[q] = Idle
                    \/ trouble.database
  BY DEF NoAccidentalSignOut
<1>1. PICK q \in Requests : Destroy(q)
  <2>1. row' # row /\ row.live = TRUE /\ row'.live # TRUE /\ row \in SessionRow
    BY SessionFields
  <2>2. ASSUME NEW q \in Requests, RequestStep(q) PROVE Destroy(q)
    <3>1. CASE StoreValidated(q) \/ Extend(q)
      <4>1. row'.live = row.live
        BY <2>1, <3>1 DEF StoreValidated, Extend, SessionRow
      <4> QED
        BY <2>1, <4>1
    <3> QED
      BY <2>1, <2>2, <3>1
      DEF RequestStep, LoseRow, CheckExpired, SkipRefresh, GiveUp, ServeStale, JoinRefresh,
          StartRefresh, AskProvider, ProviderUnreachable, Respond
  <2>3. ASSUME NEW r \in Replicas, JobStep(r) PROVE FALSE
    <3>1. CASE Commit(r)
      BY <2>1, <3>1 DEF Commit, SessionRow
    <3> QED
      BY <2>1, <2>3, <3>1
      DEF JobStep, Grant, GrantRefused, GrantFails, CommitFails, Reread, WaitOnce, RefreshIsOver,
          RereadFails, NoteRefreshFailure
  <2>4. CASE \E q \in Requests, r \in Replicas : Arrive(q, r)
    BY <2>1, <2>4 DEF Arrive
  <2>5. CASE \E r \in Replicas : Logout(r) \/ Restart(r)
    BY <2>1, <2>5 DEF Logout, Restart
  <2>6. CASE Tick \/ RevokeAccount \/ UNCHANGED sessionVars
    BY <2>1, <2>6 DEF Tick, RevokeAccount, sessionVars
  <2> QED
    BY <2>2, <2>3, <2>4, <2>5, <2>6 DEF SessionNext
<1>2. req[q].at = "destroy" => SessionIsExpired(req[q].copy) \/ Justified
  BY <1>1 DEF Destroy, SessionInv, RefreshInv, SignOutsAreEarned
<1>3. Stuck => row.refresh # idp.good /\ \A r \in Replicas : job[r].phase # "granted"
  BY SessionFields DEF Stuck
<1>4. CASE req[q].at = "destroy"
  BY <1>1, <1>2, <1>3, <1>4 DEF Justified
<1>5. CASE req[q].at = "outraced"
  <2>1. req'[q] = Idle
    BY <1>1, SessionFields DEF Destroy
  <2> QED
    BY <1>5, <2>1
<1> QED
  BY <1>1, <1>4, <1>5 DEF Destroy

(* Whoever is served is entitled to it: the account still had its place    *)
(* within the revalidation interval, and the session is below its ceiling  *)
(* (lib/session.ts).                                                       *)
THEOREM EntitledServed == SessionSpec => []OnlyEntitledAreServed
  BY ServedAreEntitled, SessionInitInv, SessionNextInv, PTL DEF SessionSpec

(* The row of a session goes away for a reason only: a lost answer or a    *)
(* restart never signs a healthy session out, and concurrent refreshes on  *)
(* any number of replicas do so only where a refused one looked again      *)
(* before the granted one had stored its pair (lib/session.ts).            *)
THEOREM SignOutsJustified == SessionSpec => [][NoAccidentalSignOut]_sessionVars
  BY SignsOutForReason, SessionInitInv, SessionNextInv, PTL DEF SessionSpec

=============================================================================
