------------------------ MODULE ProcessingLeaseProofs ------------------------
(***************************************************************************)
(* Proofs about ProcessingLease, for any number of messages and devices.    *)
(*                                                                         *)
(* The argument: a token names one claim of one device for ever             *)
(* (TokensPrivate), so a row whose token matches a claim still has the      *)
(* lease columns that claim gave it (RowMatchesClaim). All actions but       *)
(* ClaimGrant leave the claims and the lease columns in one common shape     *)
(* (QuietStep), which preserves these facts once and for all. The row lock   *)
(* keeps the content of a completing message; the one column written        *)
(* without it only goes from FALSE to TRUE (CommitHoldsRow).                *)
(***************************************************************************)
EXTENDS ProcessingLease, FiniteSetTheorems, TLAPS

-----------------------------------------------------------------------------
(* The inductive invariant                                                 *)

(* No row and no claim carries a token that has not been issued.            *)
TokensIssued ==
  /\ \A m \in Messages : row[m].token <= issued
  /\ \A d \in Devices : \A c \in ClaimsOf(d) : c.token <= issued

(* A token names one claim of one device: newLeaseToken never repeats.      *)
TokensPrivate ==
  \A d, e \in Devices : \A c \in ClaimsOf(d), k \in ClaimsOf(e) :
    c.token # 0 /\ c.token = k.token => d = e /\ c = k

(* A row that carries a claim's token has the lease columns that claim      *)
(* wrote: its device's operator, and a snapshot of which the device can do  *)
(* every step it needs.                                                    *)
RowMatchesClaim ==
  \A d \in Devices : \A c \in ClaimsOf(d) : \A m \in Messages :
    c.token # 0 /\ row[m].token = c.token =>
      /\ c.m = m /\ row[m].by = UserOf[d]
      /\ NeedsOf[row[m].snap.content] \subseteq CapOf[d]

(* A release, failure or completion in flight carries a token.              *)
CallsNamed ==
  /\ \A d \in Devices : call[d].op # "none" => call[d].claim.token # 0
  /\ \A d \in Devices : call[d].op # "heartbeat"

(* A completion between its checks and its commit still has its row: the    *)
(* row lock keeps the token, and the content equal to the snapshot's; a     *)
(* translation may only have been marked failed.                           *)
CommitHoldsRow ==
  \A d \in Devices : call[d].op = "committing" =>
    /\ row[call[d].claim.m].token = call[d].claim.token
    /\ row[call[d].claim.m].content = row[call[d].claim.m].snap.content
    /\ row[call[d].claim.m].snap.gaveUp => row[call[d].claim.m].gaveUp

(* A completion in flight holds its installation open.                      *)
CommitHoldsEra ==
  \A d \in Devices : call[d].op \in {"complete", "committing"} => eraOpen

(* The attempt count POST /fail has read is the row's, as long as the row   *)
(* carries the request's token.                                             *)
FailReadCurrent ==
  \A d \in Devices :
    call[d].op = "fail" /\ row[call[d].claim.m].token = call[d].claim.token
      => call[d].attempts = row[call[d].claim.m].attempts

(* The instant POST /claim decides with is not in the future.               *)
ScanIsPast == \A d \in Devices : scan[d].on => scan[d].now <= clock

(* All of them together: inductive, and enough for every theorem below.     *)
LeaseInv ==
  /\ TypeOK
  /\ TokensIssued /\ TokensPrivate
  /\ RowMatchesClaim
  /\ CallsNamed /\ CommitHoldsRow /\ CommitHoldsEra
  /\ FailReadCurrent /\ ScanIsPast /\ TerminalIsFinal

-----------------------------------------------------------------------------
(* Types                                                                   *)

(* NoClaim, NoScan and NoCall are values of their types.                    *)
LEMMA NullTypes ==
  /\ NoClaim \in Claim /\ NoClaim.token = 0
  /\ NoScan \in Scan
  /\ NoCall \in Call /\ NoCall.op = "none" /\ NoCall.claim = NoClaim
<1>1. (CHOOSE m \in Messages : TRUE) \in Messages
  BY LeaseConstants
<1> QED
  BY <1>1 DEF NoClaim, Claim, NoScan, Scan, NoCall, Call

(* A page of candidates is a set of messages, and its size is a number.     *)
LEMMA CandidatesType ==
  ASSUME NEW skip \in Nat
  PROVE  Candidates(skip) \subseteq Messages /\ Cardinality(Candidates(skip)) \in Nat
<1>1. Candidates(skip) \subseteq Messages
  BY DEF Candidates
<1> QED
  BY <1>1, LeaseConstants, FS_Subset, FS_CardinalityType

(* A record whose columns are rewritten with values of their types keeps    *)
(* its type: one lemma per way the actions rewrite a row.                   *)
LEMMA RowNumbers ==
  ASSUME NEW r \in Row
  PROVE  Hash(r) \in Snapshot /\ r.attempts + 1 \in Nat
BY LeaseConstants DEF Row, Hash, Snapshot, Contents

(* Giving up a lease keeps a row's type.                                    *)
LEMMA RowUnleased ==
  ASSUME NEW r \in Row PROVE Unleased(r) \in Row
BY DEF Row, Unleased, NoSnapshot, Snapshot

(* So does a change of status,                                              *)
LEMMA RowStatus ==
  ASSUME NEW r \in Row, NEW s \in Statuses PROVE [r EXCEPT !.status = s] \in Row
BY DEF Row

(* of the terminal mark,                                                    *)
LEMMA RowFailed ==
  ASSUME NEW r \in Row, NEW b \in BOOLEAN PROVE [r EXCEPT !.failed = b] \in Row
BY DEF Row

(* of the expiry, by a heartbeat,                                           *)
LEMMA RowExpires ==
  ASSUME NEW r \in Row, NEW x \in Nat PROVE [r EXCEPT !.expires = x] \in Row
BY DEF Row

(* of the content, by a pipeline write,                                     *)
LEMMA RowContent ==
  ASSUME NEW r \in Row, NEW x \in Contents, NEW g \in BOOLEAN
  PROVE  [r EXCEPT !.content = x, !.gaveUp = g] \in Row
BY DEF Row

(* of the mark of a failed translation,                                     *)
LEMMA RowGaveUp ==
  ASSUME NEW r \in Row PROVE [r EXCEPT !.gaveUp = TRUE] \in Row
BY DEF Row

(* of status and content, by a completion,                                  *)
LEMMA RowResult ==
  ASSUME NEW r \in Row, NEW s \in Statuses, NEW x \in Contents, NEW g \in BOOLEAN
  PROVE  [r EXCEPT !.status = s, !.content = x, !.gaveUp = g] \in Row
BY DEF Row

(* and of the lease columns, by a claim.                                    *)
LEMMA RowLeased ==
  ASSUME NEW r \in Row, NEW t \in Nat, NEW x \in Nat, NEW y \in Snapshot, NEW z \in Nat,
         NEW u \in Users
  PROVE  [r EXCEPT !.token = t, !.expires = x, !.by = u, !.snap = y, !.attempts = z] \in Row
BY DEF Row

(* A scan that POST /claim begins has its type.                             *)
LEMMA ScanStarted ==
  ASSUME NEW x \in Nat, NEW l \in Nat
  PROVE  [NoScan EXCEPT !.on = TRUE, !.now = x, !.len = l] \in Scan
BY DEF Scan, NoScan

(* So has one that read its next page.                                      *)
LEMMA ScanPaged ==
  ASSUME NEW s \in Scan, NEW p \in SUBSET Messages, NEW k \in Nat
  PROVE  [s EXCEPT !.page = p, !.skip = k] \in Scan
BY DEF Scan

(* The initial rows and requests have their types.                          *)
LEMMA InitType == Init => TypeOK
<1> SUFFICES ASSUME Init PROVE TypeOK
  OBVIOUS
<1>1. \A s \in InitStatuses, a \in InitAttempts : NewRow(s, a) \in Row
  BY LeaseConstants DEF NewRow, Row, Statuses, Contents, Snapshot, NoSnapshot
<1>2. row \in [Messages -> Row]
  BY <1>1 DEF Init
<1> QED
  BY <1>2, NullTypes DEF Init, TypeOK

(* What a committing completion leaves in the row it names.               *)
LEMMA CommitEffect ==
  ASSUME NEW d \in Devices, CompleteCommit(d)
  PROVE  \E v \in Contents, g \in {FALSE, row[call[d].claim.m].gaveUp},
            s \in {row[call[d].claim.m].status, "pending"} :
           row' = [row EXCEPT ![call[d].claim.m] =
                     [Unleased(row[call[d].claim.m]) EXCEPT !.status = s, !.content = v,
                                                            !.gaveUp = g]]
PROOF
  BY Zenon DEF CompleteCommit

(* The requests of one device keep the types.                              *)
LEMMA DeviceType ==
  ASSUME TypeOK, NEW d \in Devices, DeviceStep(d)
  PROVE  TypeOK'
<1> USE LeaseConstants, NullTypes
<1>1. CASE ClaimStart(d)
  <2>1. PICK len \in Nat :
          scan' = [scan EXCEPT ![d] =
                     [NoScan EXCEPT !.on = TRUE, !.now = clock, !.len = len]]
    BY <1>1 DEF ClaimStart
  <2>2. scan' \in [Devices -> Scan]
    BY <2>1, ScanStarted DEF TypeOK
  <2> QED
    BY <1>1, <2>2 DEF ClaimStart, TypeOK
<1>2. CASE ClaimPage(d)
  <2>1. scan[d] \in Scan /\ scan[d].skip \in Nat
    BY DEF TypeOK, Scan
  <2>2. PICK page \in SUBSET Messages, k \in Nat :
          scan' = [scan EXCEPT ![d] = [scan[d] EXCEPT !.page = page, !.skip = k]]
    <3>1. scan[d].skip + Cardinality(Candidates(scan[d].skip)) \in Nat
      BY <2>1, CandidatesType
    <3> QED
      BY <1>2, <2>1, <3>1, CandidatesType DEF ClaimPage
  <2>3. scan' \in [Devices -> Scan]
    BY <2>1, <2>2, ScanPaged DEF TypeOK
  <2> QED
    BY <1>2, <2>3 DEF ClaimPage, TypeOK
<1>3. CASE ClaimNull(d)
  BY <1>3 DEF ClaimNull, TypeOK
<1>4. CASE ClaimPass(d)
  BY <1>4 DEF ClaimPass, TypeOK, Scan
<1>5. CASE ClaimGrant(d)
  <2>1. PICK m \in Messages :
          /\ row' = [row EXCEPT ![m] =
               [row[m] EXCEPT !.token = NewLeaseToken,
                              !.expires = scan[d].now + scan[d].len,
                              !.by = UserOf[d], !.snap = Hash(row[m]),
                              !.attempts = row[m].attempts + 1]]
          /\ held' = [held EXCEPT ![d] =
               [m |-> m, token |-> NewLeaseToken]]
          /\ issued' = issued + 1
    BY <1>5 DEF ClaimGrant
  <2>2. /\ row[m] \in Row /\ UserOf[d] \in Users /\ NewLeaseToken \in Nat
        /\ scan[d].now + scan[d].len \in Nat
        /\ Hash(row[m]) \in Snapshot /\ row[m].attempts + 1 \in Nat
    BY RowNumbers DEF TypeOK, Scan, NewLeaseToken
  <2>3. row' \in [Messages -> Row]
    BY <2>1, <2>2, RowLeased DEF TypeOK
  <2>4. held' \in [Devices -> Claim]
    BY <2>1, <2>2 DEF TypeOK, Claim
  <2> QED
    BY <1>5, <2>1, <2>3, <2>4 DEF ClaimGrant, TypeOK
<1>6. CASE Forget(d)
  BY <1>6 DEF Forget, TypeOK
<1>7. CASE HeartbeatStart(d)
  BY <1>7 DEF HeartbeatStart, TypeOK, Call
<1>8. CASE HeartbeatRenew(d)
  <2>1. beat[d].claim.m \in Messages /\ beat[d].since \in Nat /\ clock \in Nat
    BY DEF TypeOK, Call, Claim
  <2>2. PICK x \in Nat : row' = [row EXCEPT ![beat[d].claim.m].expires = x]
    <3>1. PICK now \in Instants(beat[d]), len \in RenewLengths :
            row' = [row EXCEPT ![beat[d].claim.m].expires = now + len]
      BY <1>8 DEF HeartbeatRenew
    <3>2. now + len \in Nat
      BY <2>1 DEF Instants
    <3> QED
      BY <3>1, <3>2
  <2>3. row' = [row EXCEPT ![beat[d].claim.m] =
                  [row[beat[d].claim.m] EXCEPT !.expires = x]]
    BY <2>1, <2>2 DEF TypeOK
  <2>4. row' \in [Messages -> Row]
    BY <2>1, <2>3, RowExpires DEF TypeOK
  <2> QED
    BY <1>8, <2>4 DEF HeartbeatRenew, TypeOK
<1>9. CASE HeartbeatLost(d)
  BY <1>9 DEF HeartbeatLost, TypeOK
<1>10. CASE ReleaseStart(d)
  BY <1>10 DEF ReleaseStart, CallStart, TypeOK, Call
<1>11. CASE Release(d)
  <2>1. call[d].claim.m \in Messages
    BY DEF TypeOK, Call, Claim
  <2>2. row' \in [Messages -> Row]
    BY <1>11, <2>1, RowUnleased DEF Release, TypeOK
  <2> QED
    BY <1>11, <2>2 DEF Release, CallEnd, TypeOK
<1>12. CASE FailStart(d)
  <2>1. row[held[d].m].attempts \in Nat
    BY DEF TypeOK, Row, Claim
  <2> QED
    BY <1>12, <2>1 DEF FailStart, CallStart, TypeOK, Call
<1>13. CASE Fail(d)
  <2>1. row' \in [Messages -> Row]
    <3>1. call[d].claim.m \in Messages /\ call[d].attempts \in Nat
      BY DEF TypeOK, Call, Claim
    <3>2. row[call[d].claim.m].failed \in BOOLEAN
      BY <3>1 DEF TypeOK, Row
    <3>3. (row[call[d].claim.m].failed \/ call[d].attempts >= MaxAttempts) \in BOOLEAN
      OBVIOUS
    <3>4. Unleased(row[call[d].claim.m]) \in Row
      BY <3>1, RowUnleased DEF TypeOK
    <3> QED
      BY <1>13, <3>1, <3>3, <3>4, RowFailed DEF Fail, TypeOK
  <2> QED
    BY <1>13, <2>1 DEF Fail, CallEnd, TypeOK
<1>14. CASE CallLost(d)
  BY <1>14 DEF CallLost, CallEnd, TypeOK
<1>15. CASE CompleteStart(d)
  BY <1>15 DEF CompleteStart, CallStart, TypeOK, Call
<1>16. CASE CompleteLock(d)
  BY <1>16 DEF CompleteLock, TypeOK, Call
<1>17. CASE CompleteStale(d)
  BY <1>17 DEF CompleteStale, CallEnd, TypeOK
<1>18. CASE CompleteRejected(d)
  BY <1>18 DEF CompleteRejected, CallEnd, TypeOK
<1>19. CASE CompleteCommit(d)
  <2>1. call[d].claim.m \in Messages
    BY DEF TypeOK, Call, Claim
  <2>2. row' \in [Messages -> Row]
    <3> DEFINE m == call[d].claim.m
    <3>1. row[m] \in Row /\ row[m].status \in Statuses /\ "pending" \in Statuses
      <4>1. row[m] \in Row
        BY <2>1 DEF TypeOK
      <4> QED
        BY <4>1 DEF Row, Statuses
    <3>2. Unleased(row[m]) \in Row /\ {FALSE, row[m].gaveUp} \subseteq BOOLEAN
      BY <3>1, RowUnleased DEF Row
    <3>3. PICK v \in Contents, g \in {FALSE, row[m].gaveUp}, s \in {row[m].status, "pending"} :
            row' = [row EXCEPT ![m] = [Unleased(row[m]) EXCEPT !.status = s, !.content = v,
                                                               !.gaveUp = g]]
      BY <1>19, CommitEffect
    <3>a. v \in Contents /\ g \in BOOLEAN /\ s \in Statuses
      BY <3>1, <3>2, <3>3
    <3>b. [Unleased(row[m]) EXCEPT !.status = s, !.content = v, !.gaveUp = g] \in Row
      BY <3>2, <3>a, RowResult
    <3>4. \E r \in Row : row' = [row EXCEPT ![m] = r]
      BY <3>3, <3>b, Zenon
    <3> QED
      BY <2>1, <3>4 DEF TypeOK
  <2>3. accepted' \subseteq Messages \X Nat
    BY <1>19, <2>1 DEF CompleteCommit, TypeOK, Call, Claim
  <2> QED
    BY <1>19, <2>2, <2>3 DEF CompleteCommit, CallEnd, TypeOK
<1> QED
  BY <1>1, <1>2, <1>3, <1>4, <1>5, <1>6, <1>7, <1>8, <1>9, <1>10, <1>11, <1>12,
     <1>13, <1>14, <1>15, <1>16, <1>17, <1>18, <1>19 DEF DeviceStep

(* The other writers keep the types.                                       *)
LEMMA OthersType ==
  ASSUME TypeOK, Tick \/ EndEra \/ \E m \in Messages : MessageStep(m)
  PROVE  TypeOK'
<1> USE LeaseConstants
<1>1. CASE Tick
  BY <1>1 DEF Tick, TypeOK
<1>2. CASE EndEra
  <2>1. row' \in [Messages -> Row]
    BY <1>2 DEF EndEra, TypeOK, Row, Statuses
  <2> QED
    BY <1>2, <2>1 DEF EndEra, TypeOK
<1>3. ASSUME NEW m \in Messages, MessageStep(m)
      PROVE  TypeOK'
  <2>1. row' \in [Messages -> Row]
    <3>1. row[m] \in Row /\ Unleased(row[m]) \in Row /\ {FALSE, row[m].gaveUp} \subseteq BOOLEAN
      BY RowUnleased DEF TypeOK, Row
    <3>2. \E r \in Row : row' = [row EXCEPT ![m] = r]
      <4>1. CASE UploadComplete(m)
        BY <3>1, <4>1, RowStatus DEF UploadComplete, TypeOK, Statuses
      <4>2. CASE PipelineWrite(m)
        BY <3>1, <4>2, RowContent DEF PipelineWrite
      <4>5. CASE TranslationFails(m)
        BY <3>1, <4>5, RowGaveUp DEF TranslationFails, TypeOK
      <4>3. CASE Decide(m)
        BY <3>1, <4>3, RowStatus DEF Decide, TypeOK, Statuses
      <4>4. CASE Delete(m)
        BY <3>1, <4>4, RowStatus DEF Delete, Statuses
      <4> QED
        BY <1>3, <4>1, <4>2, <4>3, <4>4, <4>5 DEF MessageStep
    <3> QED
      BY <3>2 DEF TypeOK
  <2> QED
    BY <1>3, <2>1 DEF MessageStep, UploadComplete, PipelineWrite, TranslationFails, Decide, Delete, TypeOK
<1> QED
  BY <1>1, <1>2, <1>3

(* Every step keeps the types.                                              *)
LEMMA NextType == TypeOK /\ [Next]_vars => TypeOK'
<1> SUFFICES ASSUME TypeOK, [Next]_vars PROVE TypeOK'
  OBVIOUS
<1>1. CASE UNCHANGED vars
  BY <1>1 DEF vars, TypeOK
<1>2. CASE Next
  BY <1>2, DeviceType, OthersType DEF Next
<1> QED
  BY <1>1, <1>2

(* The columns, tokens and requests in flight keep their types, whatever    *)
(* the number of messages, devices and claims.                             *)
THEOREM TypeCorrect == Spec => []TypeOK
BY InitType, NextType, PTL DEF Spec

-----------------------------------------------------------------------------
(* What every action but ClaimGrant does to claims and lease columns        *)

(* A write of row m that is not a claim: the token stays or goes, and with  *)
(* it the other lease columns.                                             *)
QuietRow(m) ==
  /\ row'[m].token \in {row[m].token, 0}
  /\ row'[m].token # 0 => row'[m].snap = row[m].snap /\ row'[m].by = row[m].by
  /\ row'[m].attempts = row[m].attempts
  /\ row'[m].failed => row[m].failed \/ row'[m].token = 0

(* A step that hands out no claim.                                          *)
QuietStep ==
  /\ issued' = issued
  /\ \A d \in Devices : \A c \in ClaimsOf(d)' : c \in ClaimsOf(d) \/ c = NoClaim
  /\ \A m \in Messages : QuietRow(m)

(* What giving up a lease leaves alone.                                     *)
LEMMA UnleasedFields ==
  ASSUME NEW r \in Row
  PROVE  /\ Unleased(r).token = 0 /\ Unleased(r).attempts = r.attempts
         /\ Unleased(r).failed = r.failed
BY DEF Row, Unleased

(* Every claim a device holds or has a request in flight for names a        *)
(* message and a token.                                                     *)
LEMMA ClaimTypes ==
  ASSUME TypeOK, NEW d \in Devices
  PROVE  /\ held[d] \in Claim /\ held[d].m \in Messages
         /\ call[d] \in Call /\ call[d].claim \in Claim /\ call[d].claim.m \in Messages
         /\ beat[d] \in Call /\ beat[d].claim \in Claim /\ beat[d].claim.m \in Messages
         /\ ClaimsOf(d) \subseteq Claim
BY DEF TypeOK, Call, Claim, ClaimsOf

(* Writing one row quietly leaves all rows quiet.                          *)
LEMMA OneRowQuiet ==
  ASSUME TypeOK, NEW m \in Messages, NEW r, row' = [row EXCEPT ![m] = r],
         r.token \in {row[m].token, 0},
         r.token # 0 => r.snap = row[m].snap /\ r.by = row[m].by,
         r.attempts = row[m].attempts,
         r.failed => row[m].failed \/ r.token = 0
  PROVE  \A n \in Messages : QuietRow(n)
BY DEF QuietRow, TypeOK

(* A step that writes no row is quiet on every row.                         *)
LEMMA SameRowsQuiet == TypeOK /\ row' = row => \A m \in Messages : QuietRow(m)
BY DEF QuietRow

(* Every request of a device except the grant of a claim is quiet.          *)
LEMMA DeviceQuiet ==
  ASSUME TypeOK, NEW d \in Devices, DeviceStep(d)
  PROVE  QuietStep \/ ClaimGrant(d)
<1> USE NullTypes
<1>0. \A m \in Messages : row[m] \in Row
  BY DEF TypeOK
<1>1. CASE ClaimStart(d) \/ ClaimPage(d) \/ ClaimNull(d) \/ ClaimPass(d)
  <2>1. UNCHANGED <<row, issued, held, call, beat>>
    BY <1>1 DEF ClaimStart, ClaimPage, ClaimNull, ClaimPass
  <2> QED
    BY <2>1, SameRowsQuiet DEF QuietStep, ClaimsOf
<1>2. CASE Forget(d)
  BY <1>2, SameRowsQuiet DEF Forget, QuietStep, ClaimsOf, TypeOK
<1>3. CASE HeartbeatStart(d)
  <2>1. \A e \in Devices : beat'[e].claim \in {beat[e].claim, held[e]}
    BY <1>3 DEF HeartbeatStart, TypeOK, Call, NoCall
  <2> QED
    BY <1>3, <2>1, SameRowsQuiet DEF HeartbeatStart, QuietStep, ClaimsOf
<1>4. CASE HeartbeatLost(d)
  BY <1>4, SameRowsQuiet DEF HeartbeatLost, QuietStep, ClaimsOf, TypeOK
<1>5. CASE HeartbeatRenew(d)
  <2> DEFINE m == beat[d].claim.m
  <2>1. m \in Messages
    BY ClaimTypes
  <2>2. PICK x : row' = [row EXCEPT ![m] = [row[m] EXCEPT !.expires = x]]
    BY <1>5, <2>1 DEF HeartbeatRenew, TypeOK
  <2>3. \A n \in Messages : QuietRow(n)
    <3> DEFINE r == [row[m] EXCEPT !.expires = x]
    <3>1. /\ r.token = row[m].token /\ r.snap = row[m].snap /\ r.by = row[m].by
          /\ r.failed = row[m].failed /\ r.attempts = row[m].attempts
      BY <1>0, <2>1 DEF Row
    <3> HIDE DEF r, m
    <3> QED
      BY <1>0, <2>1, <2>2, <3>1, OneRowQuiet DEF r
  <2> QED
    BY <1>5, <2>3 DEF HeartbeatRenew, QuietStep, ClaimsOf, TypeOK
<1>6. CASE ReleaseStart(d) \/ FailStart(d) \/ CompleteStart(d)
  <2>1. \A e \in Devices : call'[e].claim \in {call[e].claim, held[e]}
    BY <1>6 DEF ReleaseStart, FailStart, CompleteStart, CallStart, TypeOK
  <2> QED
    BY <1>6, <2>1, SameRowsQuiet
    DEF ReleaseStart, FailStart, CompleteStart, CallStart, QuietStep, ClaimsOf
<1>7. CASE Release(d)
  <2> DEFINE m == call[d].claim.m
  <2>1. m \in Messages /\ row' = [row EXCEPT ![m] = Unleased(row[m])]
    BY <1>7, ClaimTypes DEF Release
  <2>2. \A n \in Messages : QuietRow(n)
    <3> HIDE DEF m
    <3> QED
      BY <1>0, <2>1, UnleasedFields, OneRowQuiet
  <2> QED
    BY <1>7, <2>2 DEF Release, CallEnd, QuietStep, ClaimsOf, TypeOK
<1>8. CASE Fail(d)
  <2> DEFINE m == call[d].claim.m
  <2>1. m \in Messages
    BY ClaimTypes
  <2>2. PICK b : row' = [row EXCEPT ![m] = [Unleased(row[m]) EXCEPT !.failed = b]]
    BY <1>8 DEF Fail
  <2>3. \A n \in Messages : QuietRow(n)
    <3> DEFINE r == [Unleased(row[m]) EXCEPT !.failed = b]
    <3>1. Unleased(row[m]) \in Row
      BY <1>0, <2>1, RowUnleased
    <3>2. r.token = 0 /\ r.attempts = row[m].attempts
      BY <1>0, <2>1, <3>1, UnleasedFields DEF Row
    <3> HIDE DEF r, m
    <3> QED
      BY <1>0, <2>1, <2>2, <3>2, OneRowQuiet DEF r
  <2> QED
    BY <1>8, <2>3 DEF Fail, CallEnd, QuietStep, ClaimsOf, TypeOK
<1>9. CASE CallLost(d) \/ CompleteStale(d) \/ CompleteRejected(d)
  BY <1>9, SameRowsQuiet
  DEF CallLost, CompleteStale, CompleteRejected, CallEnd, QuietStep, ClaimsOf, TypeOK
<1>10. CASE CompleteLock(d)
  <2>1. \A e \in Devices : call'[e].claim = call[e].claim
    BY <1>10 DEF CompleteLock, TypeOK, Call
  <2> QED
    BY <1>10, <2>1, SameRowsQuiet DEF CompleteLock, QuietStep, ClaimsOf
<1>11. CASE CompleteCommit(d)
  <2> DEFINE m == call[d].claim.m
  <2>1. m \in Messages
    BY ClaimTypes
  <2>2. PICK v \in Contents, g \in {FALSE, row[m].gaveUp}, s \in {row[m].status, "pending"} :
          row' = [row EXCEPT ![m] = [Unleased(row[m]) EXCEPT !.status = s, !.content = v,
                                                             !.gaveUp = g]]
    BY <1>11, CommitEffect
  <2>3. \A k \in Messages : QuietRow(k)
    <3> DEFINE r == [Unleased(row[m]) EXCEPT !.status = s, !.content = v, !.gaveUp = g]
    <3>1. Unleased(row[m]) \in Row
      BY <1>0, <2>1, RowUnleased
    <3>2. r.token = 0 /\ r.attempts = row[m].attempts
      BY <1>0, <2>1, <3>1, UnleasedFields DEF Row
    <3> HIDE DEF r, m
    <3> QED
      BY <1>0, <2>1, <2>2, <3>2, OneRowQuiet DEF r
  <2> QED
    BY <1>11, <2>3 DEF CompleteCommit, CallEnd, QuietStep, ClaimsOf, TypeOK
<1> QED
  BY <1>1, <1>2, <1>3, <1>4, <1>5, <1>6, <1>7, <1>8, <1>9, <1>10, <1>11 DEF DeviceStep

(* Every step of the other writers is quiet.                                *)
LEMMA OthersQuiet ==
  ASSUME TypeOK, Tick \/ EndEra \/ \E m \in Messages : MessageStep(m)
  PROVE  QuietStep
<1>0. \A m \in Messages : row[m] \in Row
  BY DEF TypeOK
<1>1. CASE Tick
  BY <1>1, SameRowsQuiet DEF Tick, QuietStep, ClaimsOf
<1>2. CASE EndEra
  <2>1. \A m \in Messages : QuietRow(m)
    <3> SUFFICES ASSUME NEW m \in Messages PROVE QuietRow(m)
      OBVIOUS
    <3>1. row'[m] = row[m] \/ row'[m] = [row[m] EXCEPT !.status = "decided"]
      BY <1>2 DEF EndEra
    <3>2. /\ row'[m].token = row[m].token /\ row'[m].snap = row[m].snap
          /\ row'[m].attempts = row[m].attempts /\ row'[m].by = row[m].by
          /\ row'[m].failed = row[m].failed
      BY <1>0, <3>1 DEF Row
    <3> QED
      BY <1>0, <3>2 DEF QuietRow
  <2> QED
    BY <1>2, <2>1 DEF EndEra, QuietStep, ClaimsOf
<1>3. ASSUME NEW m \in Messages, MessageStep(m)
      PROVE  QuietStep
  <2>1. UNCHANGED <<issued, held, call, beat>>
    BY <1>3 DEF MessageStep, UploadComplete, PipelineWrite, TranslationFails, Decide, Delete
  <2>2. CASE UploadComplete(m) \/ Decide(m)
    <3>1. PICK s : row' = [row EXCEPT ![m] = [row[m] EXCEPT !.status = s]]
      BY <2>2 DEF UploadComplete, Decide, TypeOK
    <3> DEFINE r == [row[m] EXCEPT !.status = s]
    <3>2. /\ r.token = row[m].token /\ r.snap = row[m].snap /\ r.by = row[m].by
          /\ r.failed = row[m].failed /\ r.attempts = row[m].attempts
      BY <1>0 DEF Row
    <3> HIDE DEF r
    <3> QED
      BY <1>0, <2>1, <3>1, <3>2, OneRowQuiet DEF r, QuietStep, ClaimsOf
  <2>3. CASE PipelineWrite(m) \/ TranslationFails(m)
    <3>1. PICK v, g : row' = [row EXCEPT ![m] = [row[m] EXCEPT !.content = v, !.gaveUp = g]]
      <4>1. CASE PipelineWrite(m)
        BY <4>1 DEF PipelineWrite
      <4>2. CASE TranslationFails(m)
        <5>1. [row[m] EXCEPT !.content = row[m].content, !.gaveUp = TRUE]
                = [row[m] EXCEPT !.gaveUp = TRUE]
          BY <1>0 DEF Row
        <5>2. row' = [row EXCEPT ![m] = [row[m] EXCEPT !.gaveUp = TRUE]]
          BY <4>2 DEF TranslationFails, TypeOK
        <5> QED
          BY <5>1, <5>2
      <4> QED
        BY <2>3, <4>1, <4>2
    <3> DEFINE r == [row[m] EXCEPT !.content = v, !.gaveUp = g]
    <3>2. /\ r.token = row[m].token /\ r.snap = row[m].snap /\ r.by = row[m].by
          /\ r.failed = row[m].failed /\ r.attempts = row[m].attempts
      BY <1>0 DEF Row
    <3> HIDE DEF r
    <3> QED
      BY <1>0, <2>1, <3>1, <3>2, OneRowQuiet DEF r, QuietStep, ClaimsOf
  <2>4. CASE Delete(m)
    <3> DEFINE r == [Unleased(row[m]) EXCEPT !.status = "deleted"]
    <3>1. row' = [row EXCEPT ![m] = r]
      BY <2>4 DEF Delete
    <3>2. Unleased(row[m]) \in Row
      BY <1>0, RowUnleased
    <3>3. r.token = 0 /\ r.attempts = row[m].attempts
      BY <1>0, <3>2, UnleasedFields DEF Row
    <3> HIDE DEF r
    <3> QED
      BY <1>0, <2>1, <3>1, <3>3, OneRowQuiet DEF QuietStep, ClaimsOf
  <2> QED
    BY <1>3, <2>2, <2>3, <2>4 DEF MessageStep
<1> QED
  BY <1>1, <1>2, <1>3

-----------------------------------------------------------------------------
(* Tokens, claims and rows                                                 *)

ClaimFacts == TokensIssued /\ TokensPrivate /\ RowMatchesClaim

(* A quiet step preserves what the invariant says of claims and rows.       *)
LEMMA QuietKeepsFacts ==
  ASSUME TypeOK, TypeOK', ClaimFacts, QuietStep
  PROVE  ClaimFacts'
<1>0. /\ \A d \in Devices : \A c \in ClaimsOf(d)' : c \in Claim
      /\ \A d \in Devices : \A c \in ClaimsOf(d)' : c.token # 0 => c \in ClaimsOf(d)
      /\ issued \in Nat /\ issued' = issued
  <2>1. \A d \in Devices : \A c \in ClaimsOf(d)' : c \in ClaimsOf(d) \/ c = NoClaim
    BY DEF QuietStep
  <2> QED
    BY <2>1, NullTypes, ClaimTypes DEF QuietStep, TypeOK
<1>1. TokensIssued'
  <2>1. \A m \in Messages : row'[m].token <= issued'
    BY <1>0 DEF ClaimFacts, TokensIssued, QuietStep, QuietRow
  <2>2. \A d \in Devices : \A c \in ClaimsOf(d)' : c.token <= issued'
    BY <1>0 DEF ClaimFacts, TokensIssued
  <2> QED
    BY <2>1, <2>2 DEF TokensIssued
<1>2. TokensPrivate'
  BY <1>0 DEF ClaimFacts, TokensPrivate
<1>3. RowMatchesClaim'
  <2> SUFFICES ASSUME NEW d \in Devices, NEW c \in ClaimsOf(d)', NEW m \in Messages,
                      c.token # 0, row'[m].token = c.token
               PROVE  /\ c.m = m /\ row'[m].by = UserOf[d]
                      /\ NeedsOf[row'[m].snap.content] \subseteq CapOf[d]
    BY DEF RowMatchesClaim
  <2>1. c \in ClaimsOf(d) /\ row[m].token = c.token /\ QuietRow(m)
    BY <1>0 DEF QuietStep, QuietRow
  <2>2. /\ c.m = m /\ row[m].by = UserOf[d]
        /\ NeedsOf[row[m].snap.content] \subseteq CapOf[d]
    BY <2>1 DEF ClaimFacts, RowMatchesClaim
  <2> QED
    BY <2>1, <2>2 DEF QuietRow
<1> QED
  BY <1>1, <1>2, <1>3 DEF ClaimFacts

(* What a claim writes, in the form the proofs below use.                   *)
LEMMA GrantEffect ==
  ASSUME TypeOK, NEW d \in Devices, ClaimGrant(d)
  PROVE  \E m \in Messages :
           /\ ~row[m].failed /\ ~RowLocked(m) /\ eraOpen
           /\ row[m].expires <= scan[d].now /\ Needs(m) \subseteq CapOf[d]
           /\ issued' = issued + 1 /\ issued \in Nat
           /\ held' = [held EXCEPT ![d] =
                [m |-> m, token |-> issued + 1]]
           /\ \A n \in Messages : n # m => row'[n] = row[n]
           /\ row'[m].token = issued + 1 /\ row'[m].snap = Hash(row[m])
           /\ row'[m].by = UserOf[d] /\ row'[m].failed = row[m].failed
           /\ UNCHANGED <<call, beat, eraOpen, clock, accepted>>
<1>1. PICK m \in Messages :
        /\ Claimable(d, m) /\ ~RowLocked(m)
        /\ issued' = issued + 1
        /\ row' = [row EXCEPT ![m] =
             [row[m] EXCEPT !.token = NewLeaseToken,
                            !.expires = scan[d].now + scan[d].len,
                            !.by = UserOf[d], !.snap = Hash(row[m]),
                            !.attempts = row[m].attempts + 1]]
        /\ held' = [held EXCEPT ![d] =
             [m |-> m, token |-> NewLeaseToken]]
  BY DEF ClaimGrant
<1>2. row[m] \in Row /\ issued \in Nat
  BY DEF TypeOK
<1>3. \A n \in Messages : n # m => row'[n] = row[n]
  BY <1>1 DEF TypeOK
<1>4. row'[m] = [row[m] EXCEPT !.token = NewLeaseToken,
                               !.expires = scan[d].now + scan[d].len,
                               !.by = UserOf[d], !.snap = Hash(row[m]),
                               !.attempts = row[m].attempts + 1]
  BY <1>1 DEF TypeOK
<1>5. /\ row'[m].token = issued + 1 /\ row'[m].snap = Hash(row[m])
      /\ row'[m].by = UserOf[d] /\ row'[m].failed = row[m].failed
  BY <1>2, <1>4 DEF Row, NewLeaseToken
<1>6. UNCHANGED <<call, beat, eraOpen, clock, accepted>>
  BY DEF ClaimGrant
<1> WITNESS m \in Messages
<1> QED
  BY <1>1, <1>2, <1>3, <1>5, <1>6 DEF Claimable, Queued, NewLeaseToken

(* So does a claim: its token is new, and it shows the row as it is.        *)
LEMMA GrantKeepsFacts ==
  ASSUME TypeOK, TypeOK', ClaimFacts, NEW d \in Devices, ClaimGrant(d)
  PROVE  ClaimFacts'
<1>1. PICK m \in Messages :
           /\ Needs(m) \subseteq CapOf[d]
           /\ issued' = issued + 1 /\ issued \in Nat
           /\ held' = [held EXCEPT ![d] =
                [m |-> m, token |-> issued + 1]]
           /\ \A n \in Messages : n # m => row'[n] = row[n]
           /\ row'[m].token = issued + 1 /\ row'[m].snap = Hash(row[m])
           /\ row'[m].by = UserOf[d]
           /\ UNCHANGED <<call, beat, eraOpen, clock, accepted>>
  BY GrantEffect
<1> DEFINE new == [m |-> m, token |-> issued + 1]
<1>2. \A e \in Devices : \A c \in ClaimsOf(e)' :
        c \in ClaimsOf(e) \/ (e = d /\ c = new)
  BY <1>1 DEF ClaimsOf, TypeOK
<1>3. /\ \A e \in Devices : \A c \in ClaimsOf(e) : c \in Claim /\ c.token <= issued
      /\ \A n \in Messages : row[n].token <= issued
      /\ \A n \in Messages : row[n].token \in Nat
  BY ClaimTypes DEF ClaimFacts, TokensIssued, TypeOK, Row
<1>4. new.m = m /\ new.token = issued + 1
  OBVIOUS
<1> HIDE DEF new
<1>5. TokensIssued'
  <2>1. \A n \in Messages : row'[n].token <= issued'
    BY <1>1, <1>3
  <2>2. \A e \in Devices : \A c \in ClaimsOf(e)' : c.token <= issued'
    BY <1>1, <1>2, <1>3, <1>4 DEF Claim
  <2> QED
    BY <2>1, <2>2 DEF TokensIssued
<1>6. TokensPrivate'
  <2> SUFFICES ASSUME NEW a \in Devices, NEW b \in Devices,
                      NEW c \in ClaimsOf(a)', NEW k \in ClaimsOf(b)',
                      c.token # 0, c.token = k.token
               PROVE  a = b /\ c = k
    BY DEF TokensPrivate
  <2>1. CASE c \in ClaimsOf(a) /\ k \in ClaimsOf(b)
    BY <2>1 DEF ClaimFacts, TokensPrivate
  <2>2. CASE c \in ClaimsOf(a) /\ b = d /\ k = new
    BY <1>1, <1>3, <1>4, <2>2 DEF Claim
  <2>3. CASE a = d /\ c = new /\ k \in ClaimsOf(b)
    BY <1>1, <1>3, <1>4, <2>3 DEF Claim
  <2> QED
    BY <1>2, <2>1, <2>2, <2>3
<1>7. RowMatchesClaim'
  <2> SUFFICES ASSUME NEW e \in Devices, NEW c \in ClaimsOf(e)', NEW n \in Messages,
                      c.token # 0, row'[n].token = c.token
               PROVE  /\ c.m = n /\ row'[n].by = UserOf[e]
                      /\ NeedsOf[row'[n].snap.content] \subseteq CapOf[e]
    BY DEF RowMatchesClaim
  <2>1. CASE e = d /\ c = new
    <3>1. n = m
      BY <1>1, <1>3, <1>4, <2>1
    <3> QED
      BY <1>1, <1>4, <2>1, <3>1 DEF Needs, Hash
  <2>2. CASE c \in ClaimsOf(e)
    <3>1. n # m
      BY <1>1, <1>3, <2>2 DEF Claim
    <3> QED
      BY <1>1, <2>2, <3>1 DEF ClaimFacts, RowMatchesClaim
  <2> QED
    BY <1>2, <2>1, <2>2
<1> QED
  BY <1>5, <1>6, <1>7 DEF ClaimFacts

-----------------------------------------------------------------------------
(* Requests in flight                                                      *)

(* A device's slot for release, fail and complete stays, is cleared, is     *)
(* filled from the claim it holds, or passes the checks of /complete.       *)
Started(e) ==
  /\ held[e].token # 0 /\ row' = row /\ eraOpen' = eraOpen
  /\ call'[e].op \in {"release", "fail", "complete"} /\ call'[e].claim = held[e]
  /\ call'[e].op = "complete" => eraOpen
  /\ call'[e].op = "fail" => call'[e].attempts = row[held[e].m].attempts

(* Device e's completion passes its row and snapshot checks.                *)
PassedChecks(e) ==
  LET m == call[e].claim.m IN
  /\ call[e].op = "complete" /\ row' = row /\ eraOpen' = eraOpen
  /\ call'[e].op = "committing" /\ call'[e].claim = call[e].claim
  /\ row[m].token = call[e].claim.token
  /\ row[m].snap = Hash(row[m])

(* What one step may do to a device's request: nothing, end it, start it,   *)
(* or let a completion pass its checks.                                     *)
LEMMA CallShape ==
  ASSUME TypeOK, Next, NEW e \in Devices
  PROVE  call'[e] = call[e] \/ call'[e] = NoCall \/ Started(e) \/ PassedChecks(e)
<1>1. CASE Tick \/ EndEra \/ \E m \in Messages : MessageStep(m)
  BY <1>1 DEF Tick, EndEra, MessageStep, UploadComplete, PipelineWrite, TranslationFails, Decide, Delete
<1>2. ASSUME NEW d \in Devices, DeviceStep(d)
      PROVE  call'[e] = call[e] \/ call'[e] = NoCall \/ Started(e) \/ PassedChecks(e)
  <2>1. CASE d # e
    BY <1>2, <2>1
    DEF DeviceStep, ClaimStart, ClaimPage, ClaimNull, ClaimPass, ClaimGrant, Forget,
        HeartbeatStart, HeartbeatRenew, HeartbeatLost, ReleaseStart, FailStart,
        CompleteStart, CallStart, Release, Fail, CallLost, CompleteLock, CompleteStale,
        CompleteRejected, CompleteCommit, CallEnd, TypeOK
  <2>2. CASE d = e
    <3>1. CASE ReleaseStart(d) \/ FailStart(d) \/ CompleteStart(d)
      BY <2>2, <3>1
      DEF ReleaseStart, FailStart, CompleteStart, CallStart, Started, TypeOK
    <3>2. CASE CompleteLock(d)
      <4>1. call'[e] = [call[e] EXCEPT !.op = "committing"] /\ call[e] \in Call
        BY <2>2, <3>2 DEF CompleteLock, TypeOK
      <4>2. call'[e].op = "committing" /\ call'[e].claim = call[e].claim
        BY <4>1 DEF Call
      <4> QED
        BY <2>2, <3>2, <4>2 DEF CompleteLock, Owned, PassedChecks
    <3>3. CASE Release(d) \/ Fail(d) \/ CallLost(d) \/ CompleteStale(d)
               \/ CompleteRejected(d) \/ CompleteCommit(d)
      BY <2>2, <3>3
      DEF Release, Fail, CallLost, CompleteStale, CompleteRejected, CompleteCommit,
          CallEnd, TypeOK
    <3>4. CASE ClaimStart(d) \/ ClaimPage(d) \/ ClaimNull(d) \/ ClaimPass(d)
               \/ ClaimGrant(d) \/ Forget(d) \/ HeartbeatStart(d) \/ HeartbeatRenew(d)
               \/ HeartbeatLost(d)
      BY <3>4
      DEF ClaimStart, ClaimPage, ClaimNull, ClaimPass, ClaimGrant, Forget,
          HeartbeatStart, HeartbeatRenew, HeartbeatLost
    <3> QED
      BY <1>2, <3>1, <3>2, <3>3, <3>4 DEF DeviceStep
  <2> QED
    BY <2>1, <2>2
<1> QED
  BY <1>1, <1>2 DEF Next

(* Nobody writes the lease columns or the content of a row that a           *)
(* completing transaction holds locked, except that transaction, nor takes  *)
(* back the mark of a failed translation.                                  *)
LEMMA LockedRowStays ==
  ASSUME TypeOK, TokensPrivate, CallsNamed, CommitHoldsRow, Next,
         NEW e \in Devices, call[e].op = "committing", call'[e] = call[e]
  PROVE  LET m == call[e].claim.m IN
         /\ row'[m].token = row[m].token
         /\ row'[m].snap = row[m].snap
         /\ row'[m].content = row[m].content
         /\ row[m].gaveUp => row'[m].gaveUp
<1> DEFINE m == call[e].claim.m
<1>1. m \in Messages /\ RowLocked(m) /\ row[m] \in Row
  BY ClaimTypes DEF RowLocked, TypeOK
<1>2. ASSUME row' = row \/ (\E n \in Messages : n # m /\ \E r : row' = [row EXCEPT ![n] = r])
      PROVE  row'[m] = row[m]
  BY <1>1, <1>2 DEF TypeOK
<1>3. ASSUME NEW d \in Devices, DeviceStep(d)
      PROVE  row'[m] = row[m]
  <2>0. beat[d].claim.m \in Messages /\ call[d].claim.m \in Messages
    BY ClaimTypes
  <2>1. CASE HeartbeatRenew(d)
    BY <1>1, <1>2, <2>0, <2>1 DEF HeartbeatRenew, TypeOK
  <2>2. CASE Release(d) \/ Fail(d)
    BY <1>1, <1>2, <2>0, <2>2 DEF Release, Fail
  <2>3. CASE ClaimGrant(d)
    BY <1>1, <1>2, <2>3 DEF ClaimGrant
  <2>4. CASE CompleteCommit(d)
    <3>1. d # e
      <4>1. call'[d] = NoCall /\ call[d].op = "committing"
        BY <2>4 DEF CompleteCommit, CallEnd, TypeOK
      <4> QED
        BY <4>1, NullTypes
    <3>2. call[d].claim.m # m
      <4> SUFFICES ASSUME call[d].claim.m = m PROVE FALSE
        OBVIOUS
      <4>1. call[d].op = "committing" /\ call[d].claim.token = call[e].claim.token
        BY <2>4 DEF CompleteCommit, CommitHoldsRow
      <4>2. call[e].claim.token # 0
        BY DEF CallsNamed
      <4> QED
        BY <3>1, <4>1, <4>2 DEF TokensPrivate, ClaimsOf
    <3>3. \E r : row' = [row EXCEPT ![call[d].claim.m] = r]
      BY <2>4 DEF CompleteCommit
    <3> QED
      BY <1>2, <2>0, <3>2, <3>3
  <2>5. CASE row' = row
    BY <2>5
  <2> QED
    BY <1>3, <2>1, <2>2, <2>3, <2>4, <2>5
    DEF DeviceStep, ClaimStart, ClaimPage, ClaimNull, ClaimPass, Forget, HeartbeatStart,
        HeartbeatLost, ReleaseStart, FailStart, CompleteStart, CallStart, CallLost,
        CompleteLock, CompleteStale, CompleteRejected
<1>4. CASE Tick
  BY <1>4 DEF Tick
<1>5. CASE EndEra
  <2>1. row'[m] = row[m] \/ row'[m] = [row[m] EXCEPT !.status = "decided"]
    BY <1>1, <1>5 DEF EndEra
  <2> QED
    BY <1>1, <2>1 DEF Row
<1>6. ASSUME NEW n \in Messages, MessageStep(n)
      PROVE  /\ row'[m].token = row[m].token /\ row'[m].snap = row[m].snap
             /\ row'[m].content = row[m].content
             /\ row[m].gaveUp => row'[m].gaveUp
  <2>1. CASE UploadComplete(n) \/ TranslationFails(n)
    BY <1>1, <2>1 DEF UploadComplete, TranslationFails, TypeOK, Row
  <2>2. CASE PipelineWrite(n) \/ Decide(n) \/ Delete(n)
    <3>1. n # m
      BY <1>1, <2>2 DEF PipelineWrite, Decide, Delete
    <3> QED
      BY <1>1, <2>2, <3>1 DEF PipelineWrite, Decide, Delete, TypeOK
  <2> QED
    BY <1>6, <2>1, <2>2 DEF MessageStep
<1> QED
  BY <1>3, <1>4, <1>5, <1>6 DEF Next

(* Requests in flight keep naming a claim.                                  *)
LEMMA KeepsCallsNamed ==
  ASSUME TypeOK, CallsNamed, Next
  PROVE  CallsNamed'
<1> SUFFICES ASSUME NEW e \in Devices
             PROVE  /\ call'[e].op # "none" => call'[e].claim.token # 0
                    /\ call'[e].op # "heartbeat"
  BY DEF CallsNamed
<1> QED
  BY CallShape, NullTypes DEF CallsNamed, Started, PassedChecks

(* Row lock and installation lock protect a completion until it commits.    *)
LEMMA KeepsCommit ==
  ASSUME TypeOK, TokensPrivate, CallsNamed, CommitHoldsRow, CommitHoldsEra, Next
  PROVE  CommitHoldsRow' /\ CommitHoldsEra'
<1>1. ASSUME NEW e \in Devices, call'[e].op = "committing"
      PROVE  /\ row'[call'[e].claim.m].token = call'[e].claim.token
             /\ row'[call'[e].claim.m].content = row'[call'[e].claim.m].snap.content
             /\ row'[call'[e].claim.m].snap.gaveUp => row'[call'[e].claim.m].gaveUp
  <2>1. CASE call'[e] = call[e]
    BY <1>1, <2>1, LockedRowStays DEF CommitHoldsRow
  <2>2. CASE PassedChecks(e)
    BY <2>2 DEF PassedChecks, Hash
  <2> QED
    BY <1>1, <2>1, <2>2, CallShape, NullTypes DEF Started
<1>2. ASSUME NEW e \in Devices, call'[e].op \in {"complete", "committing"}
      PROVE  eraOpen'
  <2>1. CASE call'[e] = call[e]
    <3>1. eraOpen /\ ~EndEra
      BY <1>2, <2>1 DEF CommitHoldsEra, EndEra
    <3> QED
      BY <3>1
      DEF Next, Tick, DeviceStep, MessageStep, ClaimStart, ClaimPage, ClaimNull, ClaimPass,
          ClaimGrant, Forget, HeartbeatStart, HeartbeatRenew, HeartbeatLost, ReleaseStart,
          FailStart, CompleteStart, CallStart, Release, Fail, CallLost, CompleteLock,
          CompleteStale, CompleteRejected, CompleteCommit, UploadComplete, PipelineWrite,
          TranslationFails, Decide, Delete
  <2> QED
    BY <1>2, <2>1, CallShape, NullTypes DEF Started, PassedChecks, CommitHoldsEra
<1> QED
  BY <1>1, <1>2 DEF CommitHoldsRow, CommitHoldsEra

(* A step is quiet or is a claim.                                          *)
LEMMA QuietOrGrant ==
  ASSUME TypeOK, Next
  PROVE  QuietStep \/ \E d \in Devices : ClaimGrant(d)
BY DeviceQuiet, OthersQuiet DEF Next

(* A change of the attempt count is a new claim, which changes the token.   *)
LEMMA KeepsFailRead ==
  ASSUME TypeOK, TypeOK', ClaimFacts, CallsNamed, FailReadCurrent, Next
  PROVE  FailReadCurrent'
<1> SUFFICES ASSUME NEW e \in Devices, call'[e].op = "fail",
                    row'[call'[e].claim.m].token = call'[e].claim.token
             PROVE  call'[e].attempts = row'[call'[e].claim.m].attempts
  BY DEF FailReadCurrent
<1>1. CASE Started(e)
  BY <1>1 DEF Started
<1>2. CASE call'[e] = call[e]
  <2> DEFINE m == call[e].claim.m
  <2>1. /\ m \in Messages /\ call[e].claim.token # 0 /\ call[e].claim.token \in Nat
        /\ call[e].claim.token <= issued /\ issued \in Nat
    BY <1>2, ClaimTypes DEF CallsNamed, ClaimFacts, TokensIssued, ClaimsOf, Claim, TypeOK
  <2>2. CASE QuietStep
    BY <1>2, <2>1, <2>2 DEF QuietStep, QuietRow, FailReadCurrent
  <2>3. ASSUME NEW d \in Devices, ClaimGrant(d)
        PROVE  row'[m].attempts = row[m].attempts /\ row'[m].token = row[m].token
    <3>1. PICK n \in Messages : /\ row'[n].token = issued + 1
                                /\ \A k \in Messages : k # n => row'[k] = row[k]
      BY <2>3, GrantEffect
    <3>2. n # m
      BY <1>2, <2>1, <3>1
    <3> QED
      BY <2>1, <3>1, <3>2
  <2> QED
    BY <1>2, <2>2, <2>3, QuietOrGrant DEF FailReadCurrent
<1> QED
  BY <1>1, <1>2, CallShape, NullTypes DEF PassedChecks

(* The clock only moves forward.                                            *)
LEMMA KeepsScanPast ==
  ASSUME TypeOK, ScanIsPast, Next
  PROVE  ScanIsPast'
<1> SUFFICES ASSUME NEW e \in Devices, scan'[e].on PROVE scan'[e].now <= clock'
  BY DEF ScanIsPast
<1>1. scan[e] \in Scan /\ clock \in Nat /\ scan[e].now \in Nat /\ NoScan.on = FALSE
  BY DEF TypeOK, Scan, NoScan
<1>2. CASE Tick
  BY <1>1, <1>2 DEF Tick, ScanIsPast
<1>3. CASE EndEra \/ \E m \in Messages : MessageStep(m)
  BY <1>3 DEF EndEra, MessageStep, UploadComplete, PipelineWrite, TranslationFails, Decide, Delete, ScanIsPast
<1>4. ASSUME NEW d \in Devices, DeviceStep(d)
      PROVE  scan'[e].now <= clock'
  <2>1. CASE ClaimStart(d)
    <3>1. clock' = clock /\ (scan'[e] = scan[e] \/ scan'[e].now = clock)
      BY <2>1 DEF ClaimStart, TypeOK, NoScan
    <3> QED
      BY <1>1, <3>1 DEF ScanIsPast
  <2>2. CASE ClaimPage(d) \/ ClaimPass(d)
    <3>1. clock' = clock /\ scan'[e].now = scan[e].now /\ scan[e].on
      <4>1. clock' = clock
        BY <2>2 DEF ClaimPage, ClaimPass
      <4>2. PICK r : /\ scan' = [scan EXCEPT ![d] = r]
                     /\ r.now = scan[d].now /\ r.on = scan[d].on
        <5>0. scan[d] \in Scan
          BY DEF TypeOK
        <5>1. CASE ClaimPage(d)
          <6>1. PICK p, k : scan' = [scan EXCEPT ![d] =
                                       [scan[d] EXCEPT !.page = p, !.skip = k]]
            BY <5>1 DEF ClaimPage
          <6>2. LET r == [scan[d] EXCEPT !.page = p, !.skip = k] IN
                r.now = scan[d].now /\ r.on = scan[d].on
            BY <5>0 DEF Scan
          <6> QED
            BY <6>1, <6>2
        <5>2. CASE ClaimPass(d)
          <6>1. PICK p : scan' = [scan EXCEPT ![d] = [scan[d] EXCEPT !.page = p]]
            BY <5>2 DEF ClaimPass, TypeOK
          <6>2. LET r == [scan[d] EXCEPT !.page = p] IN
                r.now = scan[d].now /\ r.on = scan[d].on
            BY <5>0 DEF Scan
          <6> QED
            BY <6>1, <6>2
        <5> QED
          BY <2>2, <5>1, <5>2
      <4>3. scan'[e].now = scan[e].now /\ scan'[e].on = scan[e].on
        BY <4>2 DEF TypeOK
      <4> QED
        BY <4>1, <4>3
    <3> QED
      BY <3>1 DEF ScanIsPast
  <2>3. CASE ClaimNull(d) \/ ClaimGrant(d)
    <3>1. clock' = clock /\ (scan'[e] = scan[e] \/ scan'[e] = NoScan)
      BY <2>3 DEF ClaimNull, ClaimGrant, TypeOK
    <3> QED
      BY <1>1, <3>1 DEF ScanIsPast
  <2>4. CASE UNCHANGED <<scan, clock>>
    BY <2>4 DEF ScanIsPast
  <2> QED
    BY <1>4, <2>1, <2>2, <2>3, <2>4
    DEF DeviceStep, Forget, HeartbeatStart, HeartbeatRenew, HeartbeatLost, ReleaseStart,
        FailStart, CompleteStart, CallStart, Release, Fail, CallLost, CompleteLock,
        CompleteStale, CompleteRejected, CompleteCommit
<1> QED
  BY <1>2, <1>3, <1>4 DEF Next

(* Only a claim sets a token, and it passes over terminal failures.         *)
LEMMA KeepsTerminal ==
  ASSUME TypeOK, TerminalIsFinal, Next
  PROVE  TerminalIsFinal'
<1>1. CASE QuietStep
  BY <1>1 DEF QuietStep, QuietRow, TerminalIsFinal
<1>2. ASSUME NEW d \in Devices, ClaimGrant(d)
      PROVE  TerminalIsFinal'
  <2>1. PICK n \in Messages : /\ ~row[n].failed /\ row'[n].failed = row[n].failed
                              /\ \A k \in Messages : k # n => row'[k] = row[k]
    BY <1>2, GrantEffect
  <2> QED
    BY <2>1 DEF TerminalIsFinal
<1> QED
  BY <1>1, <1>2, QuietOrGrant

-----------------------------------------------------------------------------
(* The inductive invariant and what follows from it                        *)

(* The invariant holds initially.                                           *)
LEMMA InitLeaseInv == Init => LeaseInv
<1> SUFFICES ASSUME Init PROVE LeaseInv
  OBVIOUS
<1>1. TypeOK
  BY InitType
<1>2. \A m \in Messages : row[m].token = 0 /\ row[m].failed = FALSE
  BY DEF Init, NewRow
<1>3. \A d \in Devices : /\ held[d] = NoClaim /\ call[d] = NoCall /\ beat[d] = NoCall
                          /\ scan[d] = NoScan
  BY DEF Init
<1>4. \A d \in Devices : \A c \in ClaimsOf(d) : c = NoClaim
  BY <1>3, NullTypes DEF ClaimsOf
<1>5. NoClaim.m \in Messages /\ NoScan.on = FALSE /\ issued = 0
  BY NullTypes DEF Claim, NoScan, Init
<1>6. TokensIssued /\ TokensPrivate /\ RowMatchesClaim
  BY <1>2, <1>4, <1>5, NullTypes DEF TokensIssued, TokensPrivate, RowMatchesClaim
<1>7. CallsNamed /\ CommitHoldsRow /\ CommitHoldsEra /\ FailReadCurrent
  BY <1>3, NullTypes DEF CallsNamed, CommitHoldsRow, CommitHoldsEra, FailReadCurrent
<1>8. ScanIsPast /\ TerminalIsFinal
  BY <1>2, <1>3, <1>5 DEF ScanIsPast, TerminalIsFinal
<1> QED
  BY <1>1, <1>6, <1>7, <1>8 DEF LeaseInv

(* Every step preserves the invariant.                                      *)
LEMMA NextLeaseInv == LeaseInv /\ [Next]_vars => LeaseInv'
<1> SUFFICES ASSUME LeaseInv, [Next]_vars PROVE LeaseInv'
  OBVIOUS
<1>1. CASE UNCHANGED vars
  BY <1>1
  DEF vars, LeaseInv, TypeOK, TokensIssued, TokensPrivate, RowMatchesClaim,
      CallsNamed, CommitHoldsRow, CommitHoldsEra, FailReadCurrent, ScanIsPast,
      TerminalIsFinal, ClaimsOf
<1>2. CASE Next
  <2>1. TypeOK /\ TypeOK' /\ ClaimFacts
    BY NextType DEF LeaseInv, ClaimFacts
  <2>2. ClaimFacts'
    BY <1>2, <2>1, QuietOrGrant, QuietKeepsFacts, GrantKeepsFacts
  <2>3. CallsNamed' /\ CommitHoldsRow' /\ CommitHoldsEra'
    BY <1>2, KeepsCallsNamed, KeepsCommit DEF LeaseInv
  <2>4. FailReadCurrent' /\ ScanIsPast' /\ TerminalIsFinal'
    BY <1>2, <2>1, KeepsFailRead, KeepsScanPast, KeepsTerminal DEF LeaseInv
  <2> QED
    BY <2>1, <2>2, <2>3, <2>4 DEF LeaseInv, ClaimFacts
<1> QED
  BY <1>1, <1>2

(* The inductive invariant holds in every reachable state: tokens name      *)
(* claims for ever, and the locks protect a completion until it commits.    *)
THEOREM LeaseInvariant == Spec => []LeaseInv
BY InitLeaseInv, NextLeaseInv, PTL DEF Spec

(* Two devices never hold the same message: of all claims remembered or in   *)
(* flight, those that match a row's token belong to one device.             *)
THEOREM ExclusiveLease == Spec => []OneHolder
<1>1. LeaseInv => OneHolder
  BY DEF LeaseInv, OneHolder, HoldsLease, TokensPrivate
<1> QED
  BY <1>1, LeaseInvariant, PTL

(* A completion about to commit is based on the transcript, translation and *)
(* verdict that the rows still hold, by a device that can do what is        *)
(* missing, in an open installation: all that may have changed unnoticed is  *)
(* that a translation was marked failed.                                   *)
THEOREM CompletionCurrent == Spec => []CompletionIsCurrent
<1>1. LeaseInv => CompletionIsCurrent
  <2> SUFFICES ASSUME LeaseInv, NEW d \in Devices, call[d].op = "committing"
               PROVE  LET c == call[d].claim IN
                      /\ row[c.m].token = c.token /\ row[c.m].by = UserOf[d]
                      /\ row[c.m].snap.content = row[c.m].content
                      /\ row[c.m].snap.gaveUp => row[c.m].gaveUp
                      /\ Needs(c.m) \subseteq CapOf[d]
                      /\ eraOpen
    BY DEF CompletionIsCurrent
  <2> DEFINE c == call[d].claim
  <2>1. c.m \in Messages /\ c \in ClaimsOf(d) /\ c.token # 0
    BY ClaimTypes DEF LeaseInv, ClaimsOf, CallsNamed
  <2>2. /\ row[c.m].token = c.token /\ eraOpen
        /\ row[c.m].content = row[c.m].snap.content
        /\ row[c.m].snap.gaveUp => row[c.m].gaveUp
    BY DEF LeaseInv, CommitHoldsRow, CommitHoldsEra
  <2>3. row[c.m].by = UserOf[d] /\ NeedsOf[row[c.m].snap.content] \subseteq CapOf[d]
    BY <2>1, <2>2 DEF LeaseInv, RowMatchesClaim
  <2> QED
    BY <2>2, <2>3 DEF Needs
<1> QED
  BY <1>1, LeaseInvariant, PTL

(* A message that failed for good never holds a lease again.                *)
THEOREM TerminalFinal == Spec => []TerminalIsFinal
<1>1. LeaseInv => TerminalIsFinal
  BY DEF LeaseInv
<1> QED
  BY <1>1, LeaseInvariant, PTL

(* A claim replaces another only after the other's lease ran out.           *)
THEOREM LeaseNotTakenOver == Spec => NoTakeover
<1>1. ASSUME LeaseInv, Next, NEW m \in Messages,
             row[m].token # 0, row'[m].token \notin {0, row[m].token}
      PROVE  row[m].expires <= clock
  <2>1. TypeOK /\ ~QuietStep
    BY <1>1 DEF LeaseInv, QuietStep, QuietRow
  <2>2. PICK d \in Devices : ClaimGrant(d)
    BY <1>1, <2>1, QuietOrGrant
  <2>3. PICK n \in Messages : /\ row[n].expires <= scan[d].now
                              /\ \A k \in Messages : k # n => row'[k] = row[k]
    BY <2>1, <2>2, GrantEffect
  <2>4. n = m
    BY <1>1, <2>3
  <2>5. scan[d].now <= clock /\ scan[d].now \in Nat /\ clock \in Nat /\ row[m].expires \in Nat
    BY <1>1, <2>2 DEF LeaseInv, ScanIsPast, ClaimGrant, TypeOK, Scan, Row
  <2> QED
    BY <2>3, <2>4, <2>5
<1>2. LeaseInv /\ [Next]_vars =>
        [\A m \in Messages :
           row[m].token # 0 /\ row'[m].token \notin {0, row[m].token}
             => row[m].expires <= clock]_vars
  BY <1>1 DEF vars
<1> QED
  BY <1>2, LeaseInvariant, PTL DEF Spec, NoTakeover

(* POST /fail's verdict is the one the attempt count calls for when it is   *)
(* applied, although the count was read in an earlier statement.            *)
THEOREM FailVerdictCurrent == Spec => FailCountIsCurrent
<1>1. ASSUME LeaseInv, NEW d \in Devices, Fail(d)
      PROVE  row'[call[d].claim.m].failed <=> row[call[d].claim.m].attempts >= MaxAttempts
  <2> DEFINE m == call[d].claim.m
  <2>1. m \in Messages /\ row[m] \in Row /\ TypeOK
    BY <1>1, ClaimTypes DEF LeaseInv, TypeOK
  <2>2. call[d].op = "fail" /\ row[m].token = call[d].claim.token /\ row[m].token # 0
    BY <1>1 DEF Fail, Owned, LeaseInv, CallsNamed
  <2>3. call[d].attempts = row[m].attempts /\ ~row[m].failed
    BY <1>1, <2>1, <2>2 DEF LeaseInv, FailReadCurrent, TerminalIsFinal
  <2>4. row'[m] = [Unleased(row[m]) EXCEPT !.failed =
                     row[m].failed \/ call[d].attempts >= MaxAttempts]
    BY <1>1, <2>1 DEF Fail, TypeOK
  <2>5. Unleased(row[m]) \in Row
    BY <2>1, RowUnleased
  <2>6. row'[m].failed = (row[m].failed \/ call[d].attempts >= MaxAttempts)
    BY <2>4, <2>5 DEF Row
  <2> QED
    BY <2>3, <2>6
<1>2. LeaseInv =>
        [\A d \in Devices : Fail(d) =>
           LET m == call[d].claim.m IN
           row'[m].failed <=> row[m].attempts >= MaxAttempts]_vars
  BY <1>1
<1> QED
  BY <1>2, LeaseInvariant, PTL DEF FailCountIsCurrent

-----------------------------------------------------------------------------
(* ProcessingLease implements ClaimLedger                                  *)

owners == [m \in Messages |-> row[m].token]

(* Every step of the queue is a step of the ledger or leaves it alone.      *)
LEMMA StepRefines ==
  ASSUME LeaseInv, Next
  PROVE  Ledger!LNext \/ UNCHANGED Ledger!ledgerVars
<1>0. TypeOK
  BY DEF LeaseInv
<1>t. \A m \in Messages : row[m] \in Row /\ Unleased(row[m]) \in Row
                            /\ Unleased(row[m]).token = 0
  BY <1>0, RowUnleased, UnleasedFields DEF TypeOK
<1>n. \A d \in Devices : call[d].claim.m \in Messages /\ beat[d].claim.m \in Messages
  BY <1>0, ClaimTypes
(* A step that writes one row's token.                                     *)
<1>r. ASSUME NEW m \in Messages, NEW r, row' = [row EXCEPT ![m] = r]
      PROVE  owners' = [owners EXCEPT ![m] = r.token]
  BY <1>0, <1>r DEF owners, TypeOK
<1>s. ASSUME \A m \in Messages : row'[m].token = row[m].token
      PROVE  owners' = owners
  BY <1>s DEF owners
<1>1. ASSUME NEW d \in Devices, ClaimGrant(d)
      PROVE  Ledger!LNext
  <2>1. PICK m \in Messages :
          /\ issued' = issued + 1 /\ accepted' = accepted
          /\ \A n \in Messages : n # m => row'[n] = row[n]
          /\ row'[m].token = issued + 1
    BY <1>0, <1>1, GrantEffect
  <2>2. owners' = [owners EXCEPT ![m] = issued + 1]
    BY <2>1 DEF owners
  <2> QED
    BY <2>1, <2>2 DEF Ledger!LNext, Ledger!Grant, owners
<1>2. ASSUME NEW d \in Devices, Release(d) \/ Fail(d)
      PROVE  Ledger!LNext
  <2> DEFINE m == call[d].claim.m
  <2>1. m \in Messages /\ row[m].token # 0
    BY <1>2, <1>n DEF Release, Fail, Owned, LeaseInv, CallsNamed
  <2>2. \E r : row' = [row EXCEPT ![m] = r] /\ r.token = 0
    <3>1. CASE Release(d)
      BY <1>t, <2>1, <3>1 DEF Release
    <3>2. CASE Fail(d)
      <4>1. PICK b : row' = [row EXCEPT ![m] = [Unleased(row[m]) EXCEPT !.failed = b]]
        BY <3>2 DEF Fail
      <4>2. [Unleased(row[m]) EXCEPT !.failed = b].token = 0
        BY <1>t, <2>1 DEF Row
      <4> QED
        BY <4>1, <4>2
    <3> QED
      BY <1>2, <3>1, <3>2
  <2>3. owners' = [owners EXCEPT ![m] = 0]
    BY <1>r, <2>1, <2>2
  <2>4. issued' = issued /\ accepted' = accepted
    BY <1>2 DEF Release, Fail
  <2>5. owners[m] # 0
    BY <2>1 DEF owners
  <2> HIDE DEF m
  <2> QED
    BY <2>1, <2>3, <2>4, <2>5 DEF Ledger!LNext, Ledger!GiveUp, owners
<1>3. ASSUME NEW d \in Devices, CompleteCommit(d)
      PROVE  Ledger!LNext
  <2> DEFINE m == call[d].claim.m
  <2>1. m \in Messages /\ row[m].token # 0 /\ call[d].claim.token = row[m].token
    BY <1>3, <1>n DEF CompleteCommit, LeaseInv, CommitHoldsRow, CallsNamed
  <2>2. \E r : row' = [row EXCEPT ![m] = r] /\ r.token = 0
    <3>1. PICK v \in Contents, g \in {FALSE, row[m].gaveUp}, s \in {row[m].status, "pending"} :
            row' = [row EXCEPT ![m] = [Unleased(row[m]) EXCEPT !.status = s, !.content = v,
                                                               !.gaveUp = g]]
      BY <1>3, CommitEffect
    <3>2. [Unleased(row[m]) EXCEPT !.status = s, !.content = v, !.gaveUp = g].token = 0
      BY <1>t, <2>1 DEF Row
    <3> QED
      BY <3>1, <3>2
  <2>3. owners' = [owners EXCEPT ![m] = 0]
    <3> HIDE DEF m
    <3>1. PICK r : row' = [row EXCEPT ![m] = r] /\ r.token = 0
      BY <2>2
    <3> QED
      BY <1>r, <2>1, <3>1
  <2>4. issued' = issued /\ accepted' = accepted \cup {<<m, owners[m]>>}
    BY <1>3, <2>1 DEF CompleteCommit, owners
  <2>5. owners[m] # 0
    BY <2>1 DEF owners
  <2> HIDE DEF m
  <2> QED
    BY <2>1, <2>3, <2>4, <2>5 DEF Ledger!LNext, Ledger!Accept, owners
<1>4. ASSUME NEW m \in Messages, Delete(m)
      PROVE  Ledger!LNext \/ UNCHANGED Ledger!ledgerVars
  <2>1. /\ row' = [row EXCEPT ![m] = [Unleased(row[m]) EXCEPT !.status = "deleted"]]
        /\ issued' = issued /\ accepted' = accepted
    BY <1>4 DEF Delete
  <2>2. [Unleased(row[m]) EXCEPT !.status = "deleted"].token = 0
    BY <1>t DEF Row
  <2>3. owners' = [owners EXCEPT ![m] = 0]
    BY <1>r, <2>1, <2>2
  <2>4. CASE owners[m] # 0
    BY <2>1, <2>3, <2>4 DEF Ledger!LNext, Ledger!GiveUp, owners
  <2>5. CASE owners[m] = 0
    <3>1. owners' = owners
      BY <2>3, <2>5 DEF owners
    <3> QED
      BY <2>1, <3>1 DEF Ledger!ledgerVars, owners
  <2> QED
    BY <2>4, <2>5
<1>5. ASSUME row' = row \/ \A m \in Messages : row'[m].token = row[m].token,
             issued' = issued, accepted' = accepted
      PROVE  UNCHANGED Ledger!ledgerVars
  BY <1>5, <1>s DEF Ledger!ledgerVars, owners
<1>6. CASE Tick \/ EndEra
  <2>1. \A m \in Messages : row'[m].token = row[m].token
    BY <1>6, <1>t DEF Tick, EndEra, Row
  <2> QED
    BY <1>5, <1>6, <2>1 DEF Tick, EndEra
<1>7. ASSUME NEW m \in Messages,
             UploadComplete(m) \/ PipelineWrite(m) \/ TranslationFails(m) \/ Decide(m)
      PROVE  UNCHANGED Ledger!ledgerVars
  <2>1. row'[m].token = row[m].token
    <3>1. CASE UploadComplete(m) \/ Decide(m)
      BY <1>0, <1>t, <3>1 DEF UploadComplete, Decide, TypeOK, Row
    <3>2. CASE PipelineWrite(m)
      <4>1. PICK v, g : row'[m] = [row[m] EXCEPT !.content = v, !.gaveUp = g]
        BY <1>0, <3>2 DEF PipelineWrite, TypeOK
      <4> QED
        BY <1>t, <4>1 DEF Row
    <3>3. CASE TranslationFails(m)
      BY <1>0, <1>t, <3>3 DEF TranslationFails, TypeOK, Row
    <3> QED
      BY <1>7, <3>1, <3>2, <3>3
  <2>2. \A n \in Messages : n # m => row'[n] = row[n]
    BY <1>0, <1>7 DEF UploadComplete, PipelineWrite, TranslationFails, Decide, TypeOK
  <2> QED
    BY <1>5, <1>7, <2>1, <2>2
    DEF UploadComplete, PipelineWrite, TranslationFails, Decide
<1>8. ASSUME NEW d \in Devices, HeartbeatRenew(d)
      PROVE  UNCHANGED Ledger!ledgerVars
  <2>1. \A n \in Messages : row'[n].token = row[n].token
    BY <1>0, <1>8, <1>n, <1>t DEF HeartbeatRenew, TypeOK, Row
  <2> QED
    BY <1>5, <1>8, <2>1 DEF HeartbeatRenew
<1>9. ASSUME NEW d \in Devices,
             \/ ClaimStart(d) \/ ClaimPage(d) \/ ClaimNull(d) \/ ClaimPass(d) \/ Forget(d)
             \/ HeartbeatStart(d) \/ HeartbeatLost(d) \/ ReleaseStart(d) \/ FailStart(d)
             \/ CallLost(d) \/ CompleteStart(d) \/ CompleteLock(d) \/ CompleteStale(d)
             \/ CompleteRejected(d)
      PROVE  UNCHANGED Ledger!ledgerVars
  BY <1>5, <1>9
  DEF ClaimStart, ClaimPage, ClaimNull, ClaimPass, Forget, HeartbeatStart, HeartbeatLost,
      ReleaseStart, FailStart, CallStart, CallLost, CompleteStart, CompleteLock,
      CompleteStale, CompleteRejected
<1> QED
  BY <1>1, <1>2, <1>3, <1>4, <1>6, <1>7, <1>8, <1>9 DEF Next, DeviceStep, MessageStep

(* The queue of leases keeps the promise of the claim ledger: exclusive     *)
(* ownership, and result sets stored only from the owning claim, once.      *)
THEOREM ImplementsLedger == Spec => LedgerSpec
<1>1. Init => Ledger!LInit
  BY DEF Init, NewRow, Ledger!LInit
<1>2. LeaseInv /\ [Next]_vars => [Ledger!LNext]_(Ledger!ledgerVars)
  <2>1. CASE UNCHANGED vars
    BY <2>1 DEF vars, Ledger!ledgerVars
  <2> QED
    BY <2>1, StepRefines
<1> QED
  BY <1>1, <1>2, LeaseInvariant, PTL DEF Spec, LedgerSpec, Ledger!LedgerSpec
=============================================================================
