--------------------------- MODULE ProcessingLease ---------------------------
(***************************************************************************)
(* The on-device processing queue: routes/message-processing.ts.           *)
(*                                                                         *)
(* A device claims a message under a lease, renews it with heartbeats, and  *)
(* ends it by completing, releasing or failing. Every request is a step     *)
(* per database round trip, so the requests of all devices, the pipeline,   *)
(* the moderators and the close-out of the installation interleave between  *)
(* what a request reads and what it writes. A transaction that holds the    *)
(* message's row lock is one step, except /complete, whose lock is held     *)
(* from its check to its commit.                                           *)
(*                                                                         *)
(* Columns that are NULL in the row are 0 here: a NULL expiry is "not in    *)
(* the future" and a NULL token matches no token, exactly as in the SQL.    *)
(* What the snapshot hash covers is abstracted to two values: content, one  *)
(* of a few numbers, each with the steps that processingNeeds derives from  *)
(* it, and gaveUp, whether a translation is marked failed. The first is     *)
(* only written under the message's row lock, the second without it too.    *)
(***************************************************************************)
EXTENDS Naturals, FiniteSets

CONSTANTS
  Messages,      \* recordings of one installation, numbered by createdAt
  Devices,       \* processing clients
  Users,         \* operators the clients are signed in as
  NoUser,        \* a NULL processingLeasedById
  UserOf,        \* the operator of each device
  CapOf,         \* the capabilities each device announces when it claims
  LeaseLengths,  \* the leaseSeconds a claim may ask for, in clock ticks
  RenewLengths,  \* the leaseSeconds a heartbeat may ask for
  InitStatuses,  \* how a message may start: new, or from an older release
  InitAttempts,  \* claims of the message that were given up before
  NeedsOf,       \* what processingNeeds derives from each content
  PageSize,      \* CLAIM_CANDIDATE_LIMIT
  MaxAttempts,   \* MAX_ATTEMPTS
  MaxClock,      \* bound: ticks of the wall clock
  MaxClaims,     \* bound: claims handed out
  MaxInFlight    \* bound: requests in flight at one time, over all devices

Steps == {"transcription", "translation", "moderation", "review"}

ASSUME LeaseConstants ==
  /\ Messages \subseteq Nat /\ IsFiniteSet(Messages) /\ Messages # {}
  /\ UserOf \in [Devices -> Users] /\ NoUser \notin Users
  /\ CapOf \in [Devices -> SUBSET Steps]
  /\ InitStatuses \subseteq {"uploading", "received", "pending"}
  /\ LeaseLengths \cup RenewLengths \subseteq Nat \ {0} /\ InitAttempts \subseteq Nat
  /\ DOMAIN NeedsOf \subseteq Nat /\ 1 \in DOMAIN NeedsOf
  /\ NeedsOf \in [DOMAIN NeedsOf -> SUBSET Steps] /\ NeedsOf[1] = {"transcription"}
  /\ PageSize \in Nat \ {0} /\ MaxAttempts \in Nat
  /\ MaxClock \in Nat /\ MaxClaims \in Nat /\ MaxInFlight \in Nat

VARIABLES
  clock,     \* the wall clock
  eraOpen,   \* the installation the messages belong to has not ended
  row,       \* row[m]: the processing columns of message m
  issued,    \* lease tokens handed out; tokens are unique, 1..issued
  held,      \* held[d]: the claim device d last received, token 0 for none
  scan,      \* scan[d]: d's POST /claim in progress
  call,      \* call[d]: d's release, fail or complete in progress
  beat,      \* beat[d]: d's heartbeat in progress
  accepted   \* <<message, token>> of every completion that committed

vars == <<clock, eraOpen, row, issued, held, scan, call, beat, accepted>>

(* "decided" stands for approved and rejected, which nothing here tells      *)
(* apart; "deleted" for a row that is gone.                                *)
Statuses == {"uploading", "received", "pending", "decided", "deleted"}

Contents == DOMAIN NeedsOf

(* What processingSnapshotHash digests, and the NULL snapshot.              *)
Snapshot == [content : Nat, gaveUp : BOOLEAN]
NoSnapshot == [content |-> 0, gaveUp |-> FALSE]
Hash(r) == [content |-> r.content, gaveUp |-> r.gaveUp]

Row == [status : Statuses, token : Nat, expires : Nat, by : Users \cup {NoUser},
        snap : Snapshot, attempts : Nat, failed : BOOLEAN,
        content : Contents, gaveUp : BOOLEAN]

(* A message no device holds and no transcript exists for.                  *)
NewRow(s, a) ==
  [status |-> s, token |-> 0, expires |-> 0, by |-> NoUser, snap |-> NoSnapshot,
   attempts |-> a, failed |-> FALSE, content |-> 1, gaveUp |-> FALSE]

Needs(m) == NeedsOf[row[m].content]

Claim == [m : Messages, token : Nat]

NoClaim == [m |-> CHOOSE m \in Messages : TRUE, token |-> 0]

Scan == [on : BOOLEAN, now : Nat, len : Nat, page : SUBSET Messages, skip : Nat]

NoScan == [on |-> FALSE, now |-> 0, len |-> 0, page |-> {}, skip |-> 0]

Call == [op : {"none", "release", "fail", "complete", "committing", "heartbeat"},
         claim : Claim, since : Nat, attempts : Nat]

NoCall == [op |-> "none", claim |-> NoClaim, since |-> 0, attempts |-> 0]

Init ==
  /\ clock = 0
  /\ eraOpen = TRUE
  /\ row \in [Messages -> {NewRow(s, a) : s \in InitStatuses, a \in InitAttempts}]
  /\ issued = 0
  /\ held = [d \in Devices |-> NoClaim]
  /\ scan = [d \in Devices |-> NoScan]
  /\ call = [d \in Devices |-> NoCall]
  /\ beat = [d \in Devices |-> NoCall]
  /\ accepted = {}

-----------------------------------------------------------------------------
(* Rows and who may write them                                             *)

(* Mutant: terminal failures stay in the queue. *)
QueuedThoughFailed(m) == row[m].status \in {"received", "pending"}

Queued(m) == row[m].status \in {"received", "pending"} /\ ~row[m].failed

(* The candidates query: the queue in creation order, OFFSET skip, LIMIT    *)
(* PageSize. The queue is re-read for every page.                          *)
Rank(m) == Cardinality({n \in Messages : Queued(n) /\ n <= m})
Candidates(skip) ==
  {m \in Messages : Queued(m) /\ skip < Rank(m) /\ Rank(m) <= skip + PageSize}

(* The row lock that a completing transaction holds until it commits.       *)
RowLocked(m) == \E d \in Devices : call[d].op = "committing" /\ call[d].claim.m = m

(* Mutant: only the operator is checked, not the token. *)
OwnedByUser(d, c, now) ==
  row[c.m].status # "deleted" /\ row[c.m].expires > now /\ row[c.m].by = UserOf[d]

(* The WHERE clause of every lease-holding request: the token, an expiry    *)
(* after the instant the request took with new Date(), and the user.        *)
Owned(d, c, now) ==
  /\ row[c.m].status # "deleted"
  /\ row[c.m].token = c.token
  /\ row[c.m].expires > now
  /\ row[c.m].by = UserOf[d]

(* A handler evaluates new Date() at some moment between its last await     *)
(* and the database's execution of the statement.                          *)
Instants(c) == c.since .. clock

(* newLeaseToken: every claim gets a token no other claim has.              *)
(* The first definition is a mutant: a token derived from the clock.        *)
ClockToken == clock + 1
NewLeaseToken == issued + 1

MayStart ==
  Cardinality({d \in Devices : scan[d].on})
    + Cardinality({d \in Devices : call[d].op # "none"})
    + Cardinality({d \in Devices : beat[d].op # "none"}) < MaxInFlight

(* Mutant: the operator column is blanked instead of NULLed. *)
UnleasedBlankUser(r) ==
  [r EXCEPT !.token = 0, !.expires = 0, !.by = "", !.snap = NoSnapshot]

(* Mutant: the lease is expired, but its token stays in the row. *)
UnleasedKeepsToken(r) == [r EXCEPT !.expires = 0, !.snap = NoSnapshot]

(* Giving up a lease NULLs the token, expiry, user and snapshot columns.    *)
Unleased(r) == [r EXCEPT !.token = 0, !.expires = 0, !.by = NoUser,
                           !.snap = NoSnapshot]

-----------------------------------------------------------------------------
(* POST /claim                                                             *)

ClaimStart(d) ==
  /\ ~scan[d].on /\ eraOpen /\ MayStart
  /\ \E len \in LeaseLengths :
       scan' = [scan EXCEPT ![d] = [NoScan EXCEPT !.on = TRUE, !.now = clock, !.len = len]]
  /\ UNCHANGED <<clock, eraOpen, row, issued, held, call, beat, accepted>>

ClaimPage(d) ==
  /\ scan[d].on /\ scan[d].page = {}
  /\ LET page == Candidates(scan[d].skip) IN
     /\ page # {}
     /\ scan' = [scan EXCEPT ![d] =
          [@ EXCEPT !.page = page, !.skip = scan[d].skip + Cardinality(page)]]
  /\ UNCHANGED <<clock, eraOpen, row, issued, held, call, beat, accepted>>

ClaimNull(d) ==
  /\ scan[d].on /\ scan[d].page = {}
  /\ Candidates(scan[d].skip) = {}
  /\ scan' = [scan EXCEPT ![d] = NoScan]
  /\ UNCHANGED <<clock, eraOpen, row, issued, held, call, beat, accepted>>

Oldest(d, m) == m \in scan[d].page /\ \A n \in scan[d].page : m <= n

(* Mutant: the claim does not look at the lease of another device. *)
ClaimableThoughLeased(d, m) ==
  eraOpen /\ Queued(m) /\ Needs(m) # {} /\ Needs(m) \subseteq CapOf[d]

Claimable(d, m) ==
  /\ eraOpen
  /\ Queued(m)
  /\ row[m].expires <= scan[d].now
  /\ Needs(m) # {} /\ Needs(m) \subseteq CapOf[d]

ClaimPass(d) ==
  /\ scan[d].on
  /\ \E m \in Messages :
       /\ Oldest(d, m)
       /\ ~Claimable(d, m) \/ RowLocked(m)
       /\ scan' = [scan EXCEPT ![d].page = @ \ {m}]
  /\ UNCHANGED <<clock, eraOpen, row, issued, held, call, beat, accepted>>

ClaimGrant(d) ==
  /\ scan[d].on /\ issued < MaxClaims
  /\ \E m \in Messages :
       /\ Oldest(d, m) /\ Claimable(d, m) /\ ~RowLocked(m)
       /\ issued' = issued + 1
       /\ row' = [row EXCEPT ![m] =
            [@ EXCEPT !.token = NewLeaseToken, !.expires = scan[d].now + scan[d].len,
                      !.by = UserOf[d], !.snap = Hash(row[m]),
                      !.attempts = row[m].attempts + 1]]
       /\ held' = [held EXCEPT ![d] = [m |-> m, token |-> NewLeaseToken]]
  /\ scan' = [scan EXCEPT ![d] = NoScan]
  /\ UNCHANGED <<clock, eraOpen, call, beat, accepted>>

(* The device crashes, or the claim's or the last answer's HTTP response is *)
(* lost, or the device moves on. Requests already sent stay in flight.      *)
Forget(d) ==
  /\ held[d].token # 0
  /\ held' = [held EXCEPT ![d] = NoClaim]
  /\ UNCHANGED <<clock, eraOpen, row, issued, scan, call, beat, accepted>>

-----------------------------------------------------------------------------
(* POST /:id/heartbeat: two reads, then a conditional update                *)

HeartbeatStart(d) ==
  /\ beat[d].op = "none" /\ held[d].token # 0 /\ MayStart
  /\ eraOpen /\ row[held[d].m].status # "deleted"
  /\ beat' = [beat EXCEPT ![d] =
       [NoCall EXCEPT !.op = "heartbeat", !.claim = held[d], !.since = clock]]
  /\ UNCHANGED <<clock, eraOpen, row, issued, held, scan, call, accepted>>

HeartbeatRenew(d) ==
  /\ beat[d].op = "heartbeat" /\ ~RowLocked(beat[d].claim.m)
  /\ \E now \in Instants(beat[d]), len \in RenewLengths :
       /\ Owned(d, beat[d].claim, now)
       /\ row' = [row EXCEPT ![beat[d].claim.m].expires = now + len]
  /\ beat' = [beat EXCEPT ![d] = NoCall]
  /\ UNCHANGED <<clock, eraOpen, issued, held, scan, call, accepted>>

HeartbeatLost(d) ==
  /\ beat[d].op = "heartbeat" /\ ~RowLocked(beat[d].claim.m)
  /\ \E now \in Instants(beat[d]) : ~Owned(d, beat[d].claim, now)
  /\ beat' = [beat EXCEPT ![d] = NoCall]
  /\ UNCHANGED <<clock, eraOpen, row, issued, held, scan, call, accepted>>

-----------------------------------------------------------------------------
(* POST /:id/release and POST /:id/fail                                    *)

CallStart(d, op, attempts) ==
  /\ call[d].op = "none" /\ held[d].token # 0 /\ MayStart
  /\ call' = [call EXCEPT ![d] =
       [op |-> op, claim |-> held[d], since |-> clock, attempts |-> attempts]]
  /\ UNCHANGED <<clock, eraOpen, row, issued, held, scan, beat, accepted>>

ReleaseStart(d) == CallStart(d, "release", 0)

(* The handler's first round trip reads the attempt count.                  *)
FailStart(d) ==
  /\ row[held[d].m].status # "deleted"
  /\ CallStart(d, "fail", row[held[d].m].attempts)

CallEnd(d) == call' = [call EXCEPT ![d] = NoCall]

Release(d) ==
  /\ call[d].op = "release" /\ ~RowLocked(call[d].claim.m)
  /\ \E now \in Instants(call[d]) : Owned(d, call[d].claim, now)
  /\ row' = [row EXCEPT ![call[d].claim.m] = Unleased(@)]
  /\ CallEnd(d)
  /\ UNCHANGED <<clock, eraOpen, issued, held, scan, beat, accepted>>

(* terminal was computed from the count read by FailStart.                  *)
Fail(d) ==
  /\ call[d].op = "fail" /\ ~RowLocked(call[d].claim.m)
  /\ \E now \in Instants(call[d]) : Owned(d, call[d].claim, now)
  /\ row' = [row EXCEPT ![call[d].claim.m] =
       [Unleased(@) EXCEPT !.failed = row[call[d].claim.m].failed
                                      \/ call[d].attempts >= MaxAttempts]]
  /\ CallEnd(d)
  /\ UNCHANGED <<clock, eraOpen, issued, held, scan, beat, accepted>>

(* 409 lease_lost to a release, a failure or a completion's row check.      *)
CallLost(d) ==
  /\ call[d].op \in {"release", "fail", "complete"} /\ ~RowLocked(call[d].claim.m)
  /\ \E now \in Instants(call[d]) : ~Owned(d, call[d].claim, now)
  /\ CallEnd(d)
  /\ UNCHANGED <<clock, eraOpen, row, issued, held, scan, beat, accepted>>

-----------------------------------------------------------------------------
(* POST /:id/complete: one transaction                                     *)

(* The installation's row is locked FOR SHARE and found open; otherwise     *)
(* the request ends with 409 installation_ended or 404 and changes nothing. *)
CompleteStart(d) ==
  /\ eraOpen /\ row[held[d].m].status # "deleted"
  /\ CallStart(d, "complete", 0)

(* Mutant: the snapshot hash is not compared. *)
CompleteLockAnySnapshot(d) ==
  /\ call[d].op = "complete" /\ ~RowLocked(call[d].claim.m)
  /\ \E now \in Instants(call[d]) : Owned(d, call[d].claim, now)
  /\ call' = [call EXCEPT ![d].op = "committing"]
  /\ UNCHANGED <<clock, eraOpen, row, issued, held, scan, beat, accepted>>

(* SELECT ... FOR UPDATE on the token, expiry and user, then the snapshot.  *)
CompleteLock(d) ==
  /\ call[d].op = "complete" /\ ~RowLocked(call[d].claim.m)
  /\ \E now \in Instants(call[d]) : Owned(d, call[d].claim, now)
  /\ row[call[d].claim.m].snap = Hash(row[call[d].claim.m])
  /\ call' = [call EXCEPT ![d].op = "committing"]
  /\ UNCHANGED <<clock, eraOpen, row, issued, held, scan, beat, accepted>>

(* 409 claim_snapshot_stale: the transaction rolls back, the lease stays.   *)
CompleteStale(d) ==
  /\ call[d].op = "complete" /\ ~RowLocked(call[d].claim.m)
  /\ \E now \in Instants(call[d]) : Owned(d, call[d].claim, now)
  /\ row[call[d].claim.m].snap # Hash(row[call[d].claim.m])
  /\ CallEnd(d)
  /\ UNCHANGED <<clock, eraOpen, row, issued, held, scan, beat, accepted>>

(* A component of the result set is refused: everything rolls back.         *)
CompleteRejected(d) ==
  /\ call[d].op = "committing"
  /\ CallEnd(d)
  /\ UNCHANGED <<clock, eraOpen, row, issued, held, scan, beat, accepted>>

(* The result set is written (a redelivered verdict may write no row), a    *)
(* received message may become pending, and the lease is given up, if it is *)
(* still this call's. The extension of the lease to                         *)
(* COMPLETION_LEASE_SECONDS inside the transaction is overwritten by its    *)
(* last statement, so no one sees it.                                      *)
CompleteCommit(d) ==
  /\ call[d].op = "committing"
  /\ LET m == call[d].claim.m IN
     /\ row[m].token = call[d].claim.token /\ row[m].by = UserOf[d]
     /\ \E v \in Contents, g \in {FALSE, row[m].gaveUp}, s \in {row[m].status, "pending"} :
          /\ s # row[m].status => row[m].status = "received"
          /\ row' = [row EXCEPT ![m] = [Unleased(row[m]) EXCEPT !.status = s, !.content = v,
                                                               !.gaveUp = g]]
     /\ accepted' = accepted \cup {<<m, call[d].claim.token>>}
  /\ CallEnd(d)
  /\ UNCHANGED <<clock, eraOpen, issued, held, scan, beat>>

-----------------------------------------------------------------------------
(* Everything else that writes these rows                                  *)

Tick ==
  /\ clock < MaxClock
  /\ clock' = clock + 1
  /\ UNCHANGED <<eraOpen, row, issued, held, scan, call, beat, accepted>>

(* The booth finishes uploading a recording.                               *)
UploadComplete(m) ==
  /\ eraOpen /\ row[m].status = "uploading"
  /\ row' = [row EXCEPT ![m].status = "pending"]
  /\ UNCHANGED <<clock, eraOpen, issued, held, scan, call, beat, accepted>>

(* The server-side pipeline, a push worker or an operator records a         *)
(* transcript, translation or verdict under the message's row lock.         *)
PipelineWrite(m) ==
  /\ ~RowLocked(m)
  /\ row[m].status \notin {"uploading", "deleted"}
  /\ \E v \in Contents, g \in {FALSE, row[m].gaveUp} :
       row' = [row EXCEPT ![m] = [@ EXCEPT !.content = v, !.gaveUp = g]]
  /\ UNCHANGED <<clock, eraOpen, issued, held, scan, call, beat, accepted>>

(* A translation of one of its transcripts is given up, because no provider *)
(* is configured or because the provider failed. Both updates name the      *)
(* transcript alone: they take no lock on the message.                      *)
TranslationFails(m) ==
  /\ row[m].status \notin {"uploading", "deleted"}
  /\ "transcription" \notin Needs(m) /\ ~row[m].gaveUp
  /\ row' = [row EXCEPT ![m].gaveUp = TRUE]
  /\ UNCHANGED <<clock, eraOpen, issued, held, scan, call, beat, accepted>>

(* POST /messages/:id/decision: the verdict of a moderator. It is not part  *)
(* of what the snapshot hash covers, so the content stays.                  *)
Decide(m) ==
  /\ eraOpen /\ ~RowLocked(m)
  /\ row[m].status \notin {"uploading", "deleted"}
  /\ row' = [row EXCEPT ![m].status = "decided"]
  /\ UNCHANGED <<clock, eraOpen, issued, held, scan, call, beat, accepted>>

(* DELETE /messages/:id                                                    *)
Delete(m) ==
  /\ eraOpen /\ ~RowLocked(m) /\ row[m].status # "deleted"
  /\ row' = [row EXCEPT ![m] = [Unleased(@) EXCEPT !.status = "deleted"]]
  /\ UNCHANGED <<clock, eraOpen, issued, held, scan, call, beat, accepted>>

(* closeOutInstallation takes the installation's row FOR UPDATE, so it      *)
(* waits for every completion that holds it FOR SHARE, and settles what is  *)
(* still in the moderation queue as rejected.                              *)
EndEra ==
  /\ eraOpen
  /\ \A d \in Devices : call[d].op \notin {"complete", "committing"}
  /\ eraOpen' = FALSE
  /\ row' = [m \in Messages |->
       IF row[m].status \in {"received", "pending"}
       THEN [row[m] EXCEPT !.status = "decided"] ELSE row[m]]
  /\ UNCHANGED <<clock, issued, held, scan, call, beat, accepted>>

-----------------------------------------------------------------------------

DeviceStep(d) ==
  \/ ClaimStart(d) \/ ClaimPage(d) \/ ClaimNull(d) \/ ClaimPass(d) \/ ClaimGrant(d)
  \/ Forget(d)
  \/ HeartbeatStart(d) \/ HeartbeatRenew(d) \/ HeartbeatLost(d)
  \/ ReleaseStart(d) \/ Release(d) \/ FailStart(d) \/ Fail(d) \/ CallLost(d)
  \/ CompleteStart(d) \/ CompleteLock(d) \/ CompleteStale(d)
  \/ CompleteRejected(d) \/ CompleteCommit(d)

MessageStep(m) ==
  \/ UploadComplete(m) \/ PipelineWrite(m) \/ TranslationFails(m)
  \/ Decide(m) \/ Delete(m)

Next ==
  \/ Tick
  \/ EndEra
  \/ \E d \in Devices : DeviceStep(d)
  \/ \E m \in Messages : MessageStep(m)

Spec == Init /\ [][Next]_vars

-----------------------------------------------------------------------------
(* Properties                                                              *)

(* The columns and the requests in flight have their types.                *)
TypeOK ==
  /\ clock \in Nat /\ eraOpen \in BOOLEAN /\ issued \in Nat
  /\ row \in [Messages -> Row]
  /\ held \in [Devices -> Claim]
  /\ scan \in [Devices -> Scan]
  /\ call \in [Devices -> Call]
  /\ beat \in [Devices -> Call]
  /\ accepted \subseteq Messages \X Nat

(* "Two devices cannot hold the same message concurrently": of all claims   *)
(* devices still remember or have requests in flight for, those that match  *)
(* a row's token belong to one device, even when one operator runs several. *)
HoldsLease(d, c) == c.token # 0 /\ row[c.m].token = c.token
ClaimsOf(d) == {held[d], call[d].claim, beat[d].claim}
OneHolder ==
  \A d, e \in Devices : \A c \in ClaimsOf(d), k \in ClaimsOf(e) :
    HoldsLease(d, c) /\ HoldsLease(e, k) /\ c.m = k.m => d = e

(* A completion that passed its checks and is about to commit was computed  *)
(* from the transcript, translation and verdict that the rows still hold,   *)
(* its device can do every step still missing, the message is still leased  *)
(* to it and the installation is open. One write slips past the snapshot    *)
(* hash: a translation may have been marked failed meanwhile, because that  *)
(* update does not wait for the message's row lock.                        *)
CompletionIsCurrent ==
  \A d \in Devices : call[d].op = "committing" =>
    LET c == call[d].claim IN
    /\ row[c.m].token = c.token /\ row[c.m].by = UserOf[d]
    /\ row[c.m].snap.content = row[c.m].content
    /\ row[c.m].snap.gaveUp => row[c.m].gaveUp
    /\ Needs(c.m) \subseteq CapOf[d]
    /\ eraOpen

(* A message that failed for good holds no lease and is never claimed again *)
TerminalIsFinal == \A m \in Messages : row[m].failed => row[m].token = 0

(* A claim replaces another only after the other's lease has run out, even  *)
(* though /claim decides with an instant taken before it scanned the queue. *)
NoTakeover ==
  [][\A m \in Messages :
       row[m].token # 0 /\ row'[m].token \notin {0, row[m].token}
         => row[m].expires <= clock]_vars

(* POST /fail reads the attempt count in one statement and writes in the    *)
(* next; the verdict it reaches is still the one the current count calls    *)
(* for when the write is applied. The count is one of claims, not of        *)
(* failures: the documentation's third failure may be the first.           *)
FailCountIsCurrent ==
  [][\A d \in Devices : Fail(d) =>
       LET m == call[d].claim.m IN
       row'[m].failed <=> row[m].attempts >= MaxAttempts]_vars

(* The queue keeps the ledger's promise: ownership is exclusive and a       *)
(* result set is stored only from the claim that owns the message.          *)
Ledger == INSTANCE ClaimLedger WITH owner <- [m \in Messages |-> row[m].token]
LedgerSpec == Ledger!LedgerSpec
=============================================================================
