-------------------------- MODULE OperatorSession --------------------------
(***************************************************************************)
(* A signed-in operator's session: the row operatorSession shared by every *)
(* API replica, the refresh-token rotation at the identity provider, the   *)
(* in-process de-duplication and back-off of refreshes, the periodic       *)
(* revalidation of the account and the sliding expiry (lib/session.ts,     *)
(* lib/oidc.ts, lib/operator-user.ts).                                     *)
(*                                                                         *)
(* A request runs to its next await in one step.  A tick of the clock is   *)
(* longer than a request, which may straddle one tick but not two.  Token  *)
(* values are numbers: the provider accepts only the newest one it issued. *)
(***************************************************************************)
EXTENDS Integers, FiniteSets

CONSTANTS
    Replicas,        \* API processes that share the database
    Requests,        \* requests that may be in flight at once
    None,            \* no value
    IdleTtl,         \* SESSION_TTL_SECONDS, in ticks
    AbsoluteTtl,     \* SESSION_ABSOLUTE_TTL_SECONDS, in ticks; 0 = no ceiling
    RenewalGain,     \* renewalIntervalMs: the least gain worth a row update
    AccessTtl,       \* for how many ticks an access token counts as fresh
    Revalidate,      \* SESSION_REVALIDATE_SECONDS, in ticks
    BackoffMax,      \* REFRESH_BACKOFF_MAX_MS over REFRESH_BACKOFF_BASE_MS
    MaxTime,         \* bound on the clock
    MaxFaults        \* bound on provider and database failures

ASSUME SessionAssumption ==
    /\ IdleTtl \in Nat \ {0} /\ AbsoluteTtl \in Nat
    /\ RenewalGain \in Nat \ {0} /\ AccessTtl \in Nat \ {0, 1}
    /\ Revalidate \in Nat \ {0} /\ BackoffMax \in Nat \ {0}
    /\ MaxTime \in Nat /\ MaxFaults \in Nat

VARIABLES
    now,        \* the clock
    row,        \* the operatorSession row
    idp,        \* the provider: newest refresh token, when the account went
    backoff,    \* refreshBackoffs of each replica
    job,        \* pendingRefreshes of each replica
    req,        \* the requests in flight
    faults,     \* failures so far
    trouble     \* when a failure last happened, and whether the database failed

sessionVars == <<now, row, idp, backoff, job, req, faults, trouble>>

Never == -1
Min2(a, b) == IF a <= b THEN a ELSE b

(* A request that is not in flight; one in flight holds a copy of the row  *)
(* that other requests overtake.                                           *)
Idle == [at |-> "idle", on |-> None, began |-> 0, copy |-> None]
NoJob == [phase |-> "none", token |-> 0, fresh |-> 0]
NoBackoff == [failures |-> 0, retryAt |-> 0]

Expiry(created) ==
    IF AbsoluteTtl = 0 THEN now + IdleTtl
    ELSE Min2(now + IdleTtl, created + AbsoluteTtl)

(* An expiry written under a longer ceiling is cut by the present one.     *)
SessionIsExpired(s) ==
    \/ s.expires <= now
    \/ AbsoluteTtl > 0 /\ s.created + AbsoluteTtl <= now

(* A provider states the lifetime of its access tokens in every answer, or *)
(* in none: the expiry is then null (Never), and no refresh is needed.     *)
AccessTokenIsFresh(s) == s.access = Never \/ s.access > now

CoolingDown(r) == backoff[r].failures > 0 /\ backoff[r].retryAt > now

(* createSession at the end of a sign-in at time 0; a provider need not    *)
(* issue a refresh token.                                                  *)
SessionInit ==
    /\ now = 0
    /\ row \in [live : {TRUE}, refresh : {0, 1}, access : {AccessTtl, Never},
                created : {0}, expires : {Expiry(0)}, validated : {0}]
    /\ idp = [good |-> 1, gone |-> Never]
    /\ backoff = [r \in Replicas |-> NoBackoff]
    /\ job = [r \in Replicas |-> NoJob]
    /\ req = [q \in Requests |-> Idle]
    /\ faults = 0
    /\ trouble = [at |-> Never, database |-> FALSE]

-----------------------------------------------------------------------------
(* The steps of a request.                                                 *)

ToStep(q, step) == req' = [req EXCEPT ![q].at = step]

(* A session whose access token is usable is revalidated when it is due;   *)
(* otherwise the next await is the sliding of its expiry.                  *)
NeedsRevalidation(s) == now - s.validated >= Revalidate
AfterRefresh(s) == IF NeedsRevalidation(s) THEN "validate" ELSE "extend"

Fail(kind) == /\ faults < MaxFaults
              /\ faults' = faults + 1
              /\ trouble' = [at |-> now,
                             database |-> trouble.database \/ kind = "database"]

NoFail == UNCHANGED <<faults, trouble>>

(* readSession: the row is read; the lastSeenAt update is the next await.  *)
Arrive(q, r) ==
    /\ req[q].at = "idle"
    /\ row.live
    /\ req' = [req EXCEPT ![q] = [at |-> "read", on |-> r, began |-> now,
                                  copy |-> row]]
    /\ UNCHANGED <<now, row, idp, backoff, job>> /\ NoFail

(* The lastSeenAt update throws once the row is gone, and the request ends *)
(* in an error.                                                            *)
LoseRow(q) ==
    /\ req[q].at = "read" /\ ~row.live
    /\ req' = [req EXCEPT ![q] = Idle]
    /\ UNCHANGED <<now, row, idp, backoff, job>> /\ NoFail

(* readValidSession and refreshIfAccessTokenExpired up to the grant.       *)
CheckExpired(q) ==
    /\ req[q].at = "read" /\ row.live
    /\ SessionIsExpired(req[q].copy)
    /\ ToStep(q, "destroy")
    /\ UNCHANGED <<now, row, idp, backoff, job>> /\ NoFail

SkipRefresh(q) ==
    /\ req[q].at = "read" /\ row.live
    /\ ~SessionIsExpired(req[q].copy)
    /\ AccessTokenIsFresh(req[q].copy)
    /\ ToStep(q, AfterRefresh(req[q].copy))
    /\ backoff' = [backoff EXCEPT ![req[q].on] = NoBackoff]
    /\ UNCHANGED <<now, row, idp, job>> /\ NoFail

NeedsRefresh(q) ==
    /\ req[q].at = "read" /\ row.live
    /\ ~SessionIsExpired(req[q].copy)
    /\ ~AccessTokenIsFresh(req[q].copy)

(* No refresh token was ever issued: the session cannot go on.             *)
GiveUp(q) ==
    /\ NeedsRefresh(q) /\ req[q].copy.refresh = 0
    /\ ToStep(q, "destroy")
    /\ UNCHANGED <<now, row, idp, backoff, job>> /\ NoFail

ServeStale(q) ==
    /\ NeedsRefresh(q) /\ req[q].copy.refresh > 0
    /\ job[req[q].on] = NoJob /\ CoolingDown(req[q].on)
    /\ ToStep(q, "extend")
    /\ UNCHANGED <<now, row, idp, backoff, job>> /\ NoFail

JoinRefresh(q) ==
    /\ NeedsRefresh(q) /\ req[q].copy.refresh > 0
    /\ job[req[q].on] # NoJob
    /\ ToStep(q, "joined")
    /\ UNCHANGED <<now, row, idp, backoff, job>> /\ NoFail

StartRefresh(q) ==
    /\ NeedsRefresh(q) /\ req[q].copy.refresh > 0
    /\ job[req[q].on] = NoJob /\ ~CoolingDown(req[q].on)
    /\ ToStep(q, "joined")
    /\ job' = [job EXCEPT ![req[q].on] =
                 [phase |-> "grant", token |-> req[q].copy.refresh, fresh |-> 0]]
    /\ UNCHANGED <<now, row, idp, backoff>> /\ NoFail

(* destroySession: the row is looked up again by the cookie and deleted;   *)
(* a row already gone is ignored.                                          *)
Destroy(q) ==
    /\ req[q].at \in {"destroy", "outraced"}
    /\ row' = [row EXCEPT !.live = FALSE]
    /\ backoff' = [backoff EXCEPT ![req[q].on] = NoBackoff]
    /\ req' = [req EXCEPT ![q] = Idle]
    /\ UNCHANGED <<now, idp, job>> /\ NoFail

(* POST /logout, from the browser of the session.                          *)
Logout(r) ==
    /\ row.live
    /\ row' = [row EXCEPT !.live = FALSE]
    /\ backoff' = [backoff EXCEPT ![r] = NoBackoff]
    /\ UNCHANGED <<now, idp, job, req>> /\ NoFail

-----------------------------------------------------------------------------
(* The refresh grant a replica runs once for all its waiting requests.     *)

Accepted(token) == token = idp.good /\ idp.gone = Never

(* The provider spends the token and issues the next one.                  *)
Grant(r) ==
    /\ job[r].phase = "grant" /\ Accepted(job[r].token)
    /\ idp' = [idp EXCEPT !.good = @ + 1]
    /\ job' = [job EXCEPT ![r] = [@ EXCEPT !.phase = "granted", !.fresh = idp.good + 1]]
    /\ UNCHANGED <<now, row, backoff, req>> /\ NoFail

(* invalid_grant: spent, expired or revoked.                               *)
GrantRefused(r) ==
    /\ job[r].phase = "grant" /\ ~Accepted(job[r].token)
    /\ job' = [job EXCEPT ![r].phase = "rejected"]
    /\ UNCHANGED <<now, row, idp, backoff, req>> /\ NoFail

(* Any other failure says nothing about the token: the answer may even be  *)
(* lost after the provider has rotated it.                                 *)
GrantFails(r) ==
    /\ job[r].phase = "grant" /\ Fail("provider")
    /\ \/ idp' = idp
       \/ Accepted(job[r].token) /\ idp' = [idp EXCEPT !.good = @ + 1]
    /\ job' = [job EXCEPT ![r].phase = "failed"]
    /\ UNCHANGED <<now, row, backoff, req>>

(* What a finished job hands to the requests that wait for it.             *)
Resume(r, step, copy) ==
    /\ req' = [q \in Requests |->
                 IF req[q].on = r /\ req[q].at = "joined"
                 THEN [req[q] EXCEPT !.at = step, !.copy = copy]
                 ELSE req[q]]
    /\ job' = [job EXCEPT ![r] = NoJob]

(* The rotated pair is stored.                                             *)
Commit(r) ==
    /\ job[r].phase = "granted" /\ row.live
    /\ row' = [row EXCEPT !.refresh = job[r].fresh, !.access = now + AccessTtl]
    /\ Resume(r, AfterRefresh(row'), row')
    /\ backoff' = [backoff EXCEPT ![r] = NoBackoff]
    /\ UNCHANGED <<now, idp>> /\ NoFail

(* The update throws: the row is gone, or the database failed.             *)
CommitFails(r) ==
    /\ job[r].phase = "granted"
    /\ IF row.live THEN Fail("database") ELSE NoFail
    /\ job' = [job EXCEPT ![r].phase = "failed"]
    /\ UNCHANGED <<now, row, idp, backoff, req>>

Healthy == row.live /\ ~SessionIsExpired(row) /\ AccessTokenIsFresh(row)

(* Someone else's refresh repaired the stored session.                     *)
Reread(r) ==
    /\ job[r].phase \in {"rejected", "failed", "waited"} /\ Healthy
    /\ Resume(r, AfterRefresh(row), row)
    /\ backoff' = [backoff EXCEPT ![r] = NoBackoff]
    /\ UNCHANGED <<now, row, idp>> /\ NoFail

(* REFRESH_RACE_REREAD_DELAY_MS: meant to be long enough for a sibling     *)
(* that has been granted the token to commit, and not bound to be.  A      *)
(* failed first reread leads here too.                                     *)
WaitOnce(r) ==
    /\ job[r].phase = "rejected"
    /\ IF Healthy THEN Fail("database") ELSE NoFail
    /\ job' = [job EXCEPT ![r].phase = "waited"]
    /\ UNCHANGED <<now, row, idp, backoff, req>>

(* The session is to be destroyed; the second look may have been too early *)
(* for a sibling ("outraced", the same await as "destroy").                *)
SecondLook(r) ==
    IF job[r].phase = "waited" /\ \E other \in Replicas : job[other].phase = "granted"
    THEN "outraced" ELSE "destroy"

(* Mutant: a refusal ends the session without the second look.             *)
RefreshIsOverAtOnce(r) ==
    /\ ~Healthy
    /\ \/ job[r].phase \in {"rejected", "waited"}
       \/ job[r].phase = "failed" /\ (~row.live \/ SessionIsExpired(row))
    /\ Resume(r, SecondLook(r), row)
    /\ UNCHANGED <<now, row, idp, backoff>> /\ NoFail

RefreshIsOver(r) ==
    /\ ~Healthy
    /\ \/ job[r].phase = "waited"
       \/ job[r].phase = "failed" /\ (~row.live \/ SessionIsExpired(row))
    /\ Resume(r, SecondLook(r), row)
    /\ UNCHANGED <<now, row, idp, backoff>> /\ NoFail

(* readStoredSession turns a failed read into "no such session".           *)
RereadFails(r) ==
    /\ job[r].phase \in {"failed", "waited"} /\ Fail("database")
    /\ Resume(r, "destroy", row)
    /\ UNCHANGED <<now, row, idp, backoff>>

(* noteRefreshFailure: base * 2^(failures - 1), capped.                    *)
BackoffDelay(failures) == Min2(2 ^ (failures - 1), BackoffMax)

NoteRefreshFailure(r) ==
    /\ job[r].phase = "failed" /\ ~Healthy
    /\ row.live /\ ~SessionIsExpired(row)
    /\ LET failures == backoff[r].failures + 1
       IN  backoff' = [backoff EXCEPT ![r] =
                         [failures |-> failures,
                          retryAt |-> now + BackoffDelay(failures)]]
    /\ Resume(r, "extend", row)
    /\ UNCHANGED <<now, row, idp>> /\ NoFail

-----------------------------------------------------------------------------
(* Revalidation against the provider, and the sliding expiry.              *)

(* Mutant: a refusal is taken for an outage.                               *)
AskProviderFailsOpen(q) ==
    /\ req[q].at = "validate"
    /\ ToStep(q, "confirmed")
    /\ UNCHANGED <<now, row, idp, backoff, job>> /\ NoFail

(* fetchOperatorUserInfo: 401 or 403, or claims outside the allow-list,    *)
(* end the session; the provider's answer is applied at a later step.      *)
AskProvider(q) ==
    /\ req[q].at = "validate"
    /\ ToStep(q, IF idp.gone = Never THEN "confirmed" ELSE "destroy")
    /\ UNCHANGED <<now, row, idp, backoff, job>> /\ NoFail

ProviderUnreachable(q) ==
    /\ req[q].at = "validate"
    /\ Fail("provider")
    /\ ToStep(q, "confirmed")
    /\ UNCHANGED <<now, row, idp, backoff, job>>

(* lastValidatedAt moves on, also after an outage; a row that is gone is   *)
(* ignored and the request goes on with its copy.                          *)
StoreValidated(q) ==
    /\ req[q].at = "confirmed"
    /\ row' = IF row.live THEN [row EXCEPT !.validated = now] ELSE row
    /\ req' = [req EXCEPT ![q].at = "extend",
                          ![q].copy = IF row.live THEN row' ELSE req[q].copy]
    /\ UNCHANGED <<now, idp, backoff, job>> /\ NoFail

(* extendSessionLifetime, after which the request is authorised.           *)
Extend(q) ==
    /\ req[q].at = "extend"
    /\ LET next == Expiry(req[q].copy.created)
       IN  row' = IF row.live /\ next - req[q].copy.expires >= RenewalGain
                  THEN [row EXCEPT !.expires = next] ELSE row
    /\ ToStep(q, "authorised")
    /\ UNCHANGED <<now, idp, backoff, job>> /\ NoFail

Respond(q) ==
    /\ req[q].at = "authorised"
    /\ req' = [req EXCEPT ![q] = Idle]
    /\ UNCHANGED <<now, row, idp, backoff, job>> /\ NoFail

-----------------------------------------------------------------------------
(* Time, the provider's administrator, and a replica that restarts.        *)

Tick ==
    /\ now < MaxTime
    /\ \A q \in Requests : req[q].at # "idle" => req[q].began = now
    /\ now' = now + 1
    /\ UNCHANGED <<row, idp, backoff, job, req>> /\ NoFail

(* The account is deleted, or taken out of the operator group.             *)
RevokeAccount ==
    /\ idp.gone = Never
    /\ idp' = [idp EXCEPT !.gone = now]
    /\ UNCHANGED <<now, row, backoff, job, req>> /\ NoFail

(* Back-off, refresh and the requests it was serving are lost.             *)
Restart(r) ==
    /\ \/ job[r] # NoJob \/ backoff[r] # NoBackoff
    /\ Fail("process")
    /\ job' = [job EXCEPT ![r] = NoJob]
    /\ backoff' = [backoff EXCEPT ![r] = NoBackoff]
    /\ req' = [q \in Requests |-> IF req[q].on = r THEN Idle ELSE req[q]]
    /\ UNCHANGED <<now, row, idp>>

RequestStep(q) ==
    \/ LoseRow(q) \/ CheckExpired(q) \/ SkipRefresh(q) \/ GiveUp(q)
    \/ ServeStale(q) \/ JoinRefresh(q) \/ StartRefresh(q) \/ Destroy(q)
    \/ AskProvider(q) \/ ProviderUnreachable(q)
    \/ StoreValidated(q) \/ Extend(q) \/ Respond(q)

JobStep(r) ==
    \/ Grant(r) \/ GrantRefused(r) \/ GrantFails(r) \/ Commit(r)
    \/ CommitFails(r) \/ Reread(r) \/ WaitOnce(r) \/ RefreshIsOver(r)
    \/ RereadFails(r) \/ NoteRefreshFailure(r)

SessionNext ==
    \/ \E q \in Requests : RequestStep(q) \/ \E r \in Replicas : Arrive(q, r)
    \/ \E r \in Replicas : JobStep(r) \/ Logout(r) \/ Restart(r)
    \/ Tick
    \/ RevokeAccount

SessionSpec == SessionInit /\ [][SessionNext]_sessionVars

-----------------------------------------------------------------------------
(* What concurrency may sign out (refreshAccessToken,                      *)
(* revalidateSessionAgainstIdp).  Whatever two requests, two replicas, a   *)
(* restart and provider failures do to each other, the row goes away only  *)
(* on a logout, when the copy the request read has expired (a slide that   *)
(* overtakes that read is too late), when the provider has ended the       *)
(* account, or when no later grant could succeed: the stored refresh token *)
(* is not the newest one, and nobody is about to store that.  Two          *)
(* accidents are left: the second look of a refused refresh came before    *)
(* the commit of a sibling that had been granted one, the race that ADR    *)
(* 0012 narrows and does not close; or the database failed during a        *)
(* refresh (see RereadFails).                                              *)
NoAccidentalSignOut ==
    row.live /\ ~row'.live /\ req' # req =>
      \/ \E q \in Requests : req[q].at = "destroy" /\ SessionIsExpired(req[q].copy)
      \/ idp.gone # Never
      \/ row.refresh # idp.good /\ \A r \in Replicas : job[r].phase # "granted"
      \/ \E q \in Requests : req[q].at = "outraced" /\ req'[q] = Idle
      \/ trouble.database

(* Who is served is entitled to it.  An account that is gone at the        *)
(* provider stops being served once a revalidation interval has passed:    *)
(* at most the answers obtained before it went are still used, and only a  *)
(* failure whose back-off reaches past that moment may prolong it          *)
(* (sessionNeedsRevalidation).  And no request that arrives after the hard *)
(* ceiling is served, however often the expiry slid and whichever copy the *)
(* sliding was computed from (sessionExpiresAt, sessionIsExpired).         *)
OnlyEntitledAreServed ==
    \A q \in Requests : req[q].at = "authorised" =>
        /\ idp.gone # Never /\ (trouble.at = Never \/ trouble.at + BackoffMax < idp.gone)
             => now <= idp.gone + Revalidate + 1
        /\ AbsoluteTtl > 0 => req[q].began < req[q].copy.created + AbsoluteTtl

=============================================================================
