------------------------- MODULE PushNotifications -------------------------
(***************************************************************************)
(* The app-icon badge and the queue alert on the operators' phones         *)
(* (lib/push-events.ts, lib/apns.ts, lib/apns-http2.ts, routes/devices.ts).*)
(* Observers write the wanted count with a new version; dispatchers on any *)
(* replica claim a version, ask a fence before each device, post to APNs   *)
(* and record the version as delivered.                                    *)
(***************************************************************************)
EXTENDS Integers, FiniteSets

CONSTANTS
    Dispatchers,  \* dispatch loops, of all replicas
    Phones,
    NoLease,
    Lease,        \* BADGE_LEASE_DURATION_MS
    FenceMinimum, \* APNS_DELIVERY_FENCE_MINIMUM_MS
    Timeout,      \* REQUEST_TIMEOUT_MS
    MaxQueue,
    MaxVersion,
    MaxPushTime

ASSUME PushAssumption ==
    /\ {Lease, FenceMinimum, Timeout, MaxQueue, MaxVersion, MaxPushTime} \subseteq Nat
    /\ Timeout < FenceMinimum /\ FenceMinimum <= Lease
    /\ Dispatchers \cap {NoLease, "orphan"} = {}

VARIABLES
    tick,      \* the clock
    queue,     \* messages awaiting moderation
    badge,     \* the row "moderation-queue-high"
    alert,     \* the row "message-alert"
    phone,     \* the device rows
    shown,     \* the badge version each phone shows
    sounded,   \* how often each alert version sounded on each phone
    sending    \* what each dispatcher is sending

pushVars == <<tick, queue, badge, alert, phone, shown, sounded, sending>>

NoSend == [kind |-> "none", count |-> 0, version |-> 0,
           step |-> [d \in Phones |-> "out"], until |-> [d \in Phones |-> 0]]

PushInit ==
    /\ tick = 0 /\ queue = 0
    /\ badge = [count |-> 0, version |-> 0, delivered |-> 0, token |-> NoLease, expires |-> 0]
    /\ alert = [active |-> FALSE, count |-> 0, version |-> 0, delivered |-> 0]
    /\ phone = [d \in Phones |-> "absent"]
    /\ shown = [d \in Phones |-> 0]
    /\ sounded = [d \in Phones |-> [v \in 1..MaxVersion |-> 0]]
    /\ sending = [w \in Dispatchers |-> NoSend]

-----------------------------------------------------------------------------
(* Observers.  Each counts the queue and writes both rows under one        *)
(* advisory lock; whoever changes the queue observes it afterwards.        *)

CanObserve == badge.version < MaxVersion /\ alert.version < MaxVersion

(* updateMessageAlertState.                                                *)
AlertState(shouldAlert) ==
    IF ~shouldAlert /\ alert.count = queue THEN alert
    ELSE [alert EXCEPT !.active = shouldAlert /\ queue > 0, !.count = queue,
                       !.version = @ + 1]

Bumped == [badge EXCEPT !.count = queue, !.version = @ + 1]

Observe(shouldAlert) ==
    /\ CanObserve
    /\ alert' = AlertState(shouldAlert)
    /\ badge' = Bumped

ChangeQueue(n) ==
    /\ n # queue
    /\ queue' = n
    /\ UNCHANGED <<tick, badge, alert, phone, shown, sounded, sending>>

NotifyMessageReceived ==
    /\ Observe(TRUE)
    /\ UNCHANGED <<tick, queue, phone, shown, sounded, sending>>

ObserveModerationQueue ==
    /\ Observe(FALSE)
    /\ UNCHANGED <<tick, queue, phone, shown, sounded, sending>>

(* The periodic pass bumps the version only if the count is wrong.         *)
ReconcileModerationBadgeState ==
    /\ CanObserve
    /\ alert' = AlertState(FALSE)
    /\ badge' = IF badge.count # queue \/ badge.version = 0 THEN Bumped ELSE badge
    /\ UNCHANGED <<tick, queue, phone, shown, sounded, sending>>

-----------------------------------------------------------------------------
(* POST /devices stores the device and then asks for a refresh; DELETE.    *)

RegisterDevice(d) ==
    /\ phone[d] # "joining"
    /\ phone' = [phone EXCEPT ![d] = "joining"]
    /\ UNCHANGED <<tick, queue, badge, alert, shown, sounded, sending>>

QueueModerationBadgeRefresh(d) ==
    /\ phone[d] = "joining"
    /\ Observe(FALSE)
    /\ phone' = [phone EXCEPT ![d] = "active"]
    /\ UNCHANGED <<tick, queue, shown, sounded, sending>>

RevokeDevice(d) ==
    /\ phone[d] = "active"
    /\ phone' = [phone EXCEPT ![d] = "revoked"]
    /\ UNCHANGED <<tick, queue, badge, alert, shown, sounded, sending>>

-----------------------------------------------------------------------------
(* Dispatchers.                                                            *)

(* claimModerationBadge: a free or expired lease, taken by comparison.     *)
ClaimModerationBadge(w) ==
    /\ sending[w] = NoSend
    /\ badge.version > badge.delivered
    /\ badge.token = NoLease \/ badge.expires <= tick
    /\ badge' = [badge EXCEPT !.token = w, !.expires = tick + Lease]
    /\ sending' = [sending EXCEPT ![w] = [NoSend EXCEPT !.kind = "badge?", !.count = badge.count,
                                                !.version = badge.version]]
    /\ UNCHANGED <<tick, queue, alert, phone, shown, sounded>>

(* claimMessageAlert: delivered before it is sent, never sent again.       *)
ClaimMessageAlert(w) ==
    /\ sending[w] = NoSend
    /\ alert.active /\ alert.version > alert.delivered
    /\ alert' = [alert EXCEPT !.active = FALSE, !.delivered = alert.version]
    /\ sending' = [sending EXCEPT ![w] = [NoSend EXCEPT !.kind = "alert?", !.count = alert.count,
                                                !.version = alert.version]]
    /\ UNCHANGED <<tick, queue, badge, phone, shown, sounded>>

(* sendToOperatorUsers, findTargetDevices: the devices as they are now.    *)
FindTargetDevices(w) ==
    LET found == {d \in Phones : phone[d] \in {"joining", "active"}}
    IN  /\ sending[w].kind \in {"badge?", "alert?"}
        /\ sending' = [sending EXCEPT
                     ![w].kind = IF sending[w].kind = "badge?" THEN "badge" ELSE "alert",
                     ![w].step = [d \in Phones |-> IF d \in found THEN "todo" ELSE "out"]]
        /\ UNCHANGED <<tick, queue, badge, alert, phone, shown, sounded>>

Step(w, d, step, until) ==
    sending' = [sending EXCEPT ![w].step[d] = step, ![w].until[d] = until]

(* The fence: a badge renews its lease, an alert checks that it is still   *)
(* what should be said.                                                    *)
(* Mutant: the renewal does not ask whose lease it is. *)
FencePassesAnyway(w) == sending[w].kind = "badge"
FencePasses(w) ==
    IF sending[w].kind = "badge" THEN badge.token = w
    ELSE /\ queue = sending[w].count /\ alert.count = queue /\ ~alert.active
         /\ alert.version = sending[w].version /\ alert.delivered = sending[w].version

BeforeSubmit(w, d) ==
    /\ sending[w].kind \in {"badge", "alert"} /\ sending[w].step[d] = "todo"
    /\ IF FencePasses(w) THEN Step(w, d, "fenced", tick + Lease) ELSE Step(w, d, "failed", 0)
    /\ badge' = IF FencePasses(w) /\ sending[w].kind = "badge"
                THEN [badge EXCEPT !.expires = tick + Lease] ELSE badge
    /\ UNCHANGED <<tick, queue, alert, phone, shown, sounded>>

(* The fence must still hold for longer than a request can take.           *)
Post(w, d) ==
    /\ sending[w].step[d] = "fenced"
    /\ IF sending[w].until[d] - tick >= FenceMinimum
       THEN Step(w, d, "sent", tick + Timeout) ELSE Step(w, d, "failed", 0)
    /\ UNCHANGED <<tick, queue, badge, alert, phone, shown, sounded>>

(* APNs reaches the phone; the answer may still be lost.                   *)
Reach(w, d, answer) ==
    /\ sending[w].step[d] = "sent"
    /\ Step(w, d, answer, 0)
    /\ shown' = IF sending[w].kind = "badge" THEN [shown EXCEPT ![d] = sending[w].version] ELSE shown
    /\ sounded' = IF sending[w].kind = "alert"
                  THEN [sounded EXCEPT ![d][sending[w].version] = @ + 1] ELSE sounded
    /\ UNCHANGED <<tick, queue, badge, alert, phone>>

(* A refusal or a timeout; a token that is dead for good is revoked.       *)
Refused(w, d, permanently) ==
    /\ sending[w].step[d] = "sent"
    /\ Step(w, d, IF permanently THEN "done" ELSE "failed", 0)
    /\ phone' = IF permanently THEN [phone EXCEPT ![d] = "revoked"] ELSE phone
    /\ UNCHANGED <<tick, queue, badge, alert, shown, sounded>>

(* dispatchModerationBadges: all devices answered; the version is recorded *)
(* or, after a failure, the lease given back, if it is still this one's.   *)
(* Mutant: a failure of one device is overlooked. *)
SettledThoughFailed(w) ==
    [badge EXCEPT !.token = NoLease, !.delivered = sending[w].version]
Settled(w) ==
    [badge EXCEPT !.token = NoLease,
                  !.delivered = IF \E d \in Phones : sending[w].step[d] = "failed"
                                THEN badge.delivered ELSE sending[w].version]

(* Mutant: an alert that failed on some device is offered again. *)
FinishSendRetriesAlert(w) ==
    /\ sending[w].kind \in {"badge", "alert"}
    /\ \A d \in Phones : sending[w].step[d] \in {"out", "done", "failed"}
    /\ badge' = IF sending[w].kind = "badge" /\ badge.token = w THEN Settled(w) ELSE badge
    /\ alert' = IF sending[w].kind = "alert" /\ alert.version = sending[w].version
                   /\ \E d \in Phones : sending[w].step[d] = "failed"
                THEN [alert EXCEPT !.active = TRUE, !.delivered = @ - 1] ELSE alert
    /\ sending' = [sending EXCEPT ![w] = NoSend]
    /\ UNCHANGED <<tick, queue, phone, shown, sounded>>
FinishSend(w) ==
    /\ sending[w].kind \in {"badge", "alert"}
    /\ \A d \in Phones : sending[w].step[d] \in {"out", "done", "failed"}
    /\ badge' = IF sending[w].kind = "badge" /\ badge.token = w THEN Settled(w) ELSE badge
    /\ sending' = [sending EXCEPT ![w] = NoSend]
    /\ UNCHANGED <<tick, queue, alert, phone, shown, sounded>>

(* The process stops between two steps; its lease stays behind.            *)
Crash(w) ==
    /\ sending[w] # NoSend
    /\ badge' = IF badge.token = w THEN [badge EXCEPT !.token = "orphan"] ELSE badge
    /\ sending' = [sending EXCEPT ![w] = NoSend]
    /\ UNCHANGED <<tick, queue, alert, phone, shown, sounded>>

(* Time passes, but no request outlives its timeout.                       *)
PushTick ==
    /\ tick < MaxPushTime
    /\ \A w \in Dispatchers, d \in Phones : sending[w].step[d] = "sent" => tick < sending[w].until[d]
    /\ tick' = tick + 1
    /\ UNCHANGED <<queue, badge, alert, phone, shown, sounded, sending>>

PushNext ==
    \/ \E n \in 0..MaxQueue : ChangeQueue(n)
    \/ NotifyMessageReceived \/ ObserveModerationQueue \/ ReconcileModerationBadgeState
    \/ \E d \in Phones : RegisterDevice(d) \/ QueueModerationBadgeRefresh(d) \/ RevokeDevice(d)
    \/ \E w \in Dispatchers :
         \/ ClaimModerationBadge(w) \/ ClaimMessageAlert(w) \/ FindTargetDevices(w)
         \/ FinishSend(w) \/ Crash(w)
         \/ \E d \in Phones :
              \/ BeforeSubmit(w, d) \/ Post(w, d)
              \/ \E answer \in {"done", "failed"} : Reach(w, d, answer)
              \/ \E permanently \in BOOLEAN : Refused(w, d, permanently)
    \/ PushTick

PushSpec == PushInit /\ [][PushNext]_pushVars

-----------------------------------------------------------------------------
(* A phone never goes back to an older count: however long a dispatcher    *)
(* was held up, it cannot show a badge after a newer one was shown         *)
(* (renewModerationBadge, the delivery fence, the request timeout).        *)
NoOlderBadge ==
    \A d \in Phones : shown'[d] >= shown[d]

(* A version recorded as delivered has been shown, or superseded, on every *)
(* phone registered at the time; when the newest one is, every phone shows *)
(* the present count.                                                      *)
DeliveredIsShown ==
    badge.delivered = badge.version =>
        \A d \in Phones : phone[d] = "active" => shown[d] = badge.version

(* An alert sounds at most once on a phone, whoever claims it, although    *)
(* several dispatchers look for it and one may stop half way.              *)
AlertSoundsOnce ==
    \A d \in Phones, v \in 1..MaxVersion : sounded[d][v] <= 1
=============================================================================
