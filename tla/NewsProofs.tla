----------------------------- MODULE NewsProofs -----------------------------
(***************************************************************************)
(* What phones and consoles are told: proofs about PushNotifications, the  *)
(* lists of ListPaging, LiveStatus, LiveSocket and ConsoleCache.  They     *)
(* share no variable, and each part is proved on its own.                  *)
(***************************************************************************)
EXTENDS PushNotifications, ListPaging, LiveStatus, LiveSocket, ConsoleCache,
        FiniteSetTheorems, TLAPS

-----------------------------------------------------------------------------
Kinds == {"none", "badge?", "badge", "alert?", "alert"}
StepNames == {"out", "todo", "fenced", "sent", "done", "failed"}
Sending == [kind : Kinds, count : Nat, version : Nat,
            step : [Phones -> StepNames], until : [Phones -> Nat]]

BadgeRow == [count : Nat, version : Nat, delivered : Nat,
             token : Dispatchers \cup {NoLease, "orphan"}, expires : Nat]
AlertRow == [active : BOOLEAN, count : Nat, version : Nat, delivered : Nat]
PhoneRow == {"absent", "joining", "active", "revoked"}

PushTypeOK ==
    /\ tick \in Nat /\ queue \in Nat
    /\ badge \in BadgeRow /\ alert \in AlertRow
    /\ phone \in [Phones -> PhoneRow]
    /\ shown \in [Phones -> Nat]
    /\ sounded \in [Phones -> [1..MaxVersion -> Nat]]
    /\ sending \in [Dispatchers -> Sending]

(* Before the devices are looked up no request is on its way.              *)
StepsFit ==
    \A w \in Dispatchers : sending[w].kind \notin {"badge", "alert"} =>
      \A d \in Phones : sending[w].step[d] = "out"

VersionsFit ==
    badge.delivered <= badge.version /\ \A d \in Phones : shown[d] <= badge.version

(* The holder of the lease sends a badge that no phone is ahead of.        *)
HolderIsNewest ==
    \A w \in Dispatchers : badge.token = w =>
      /\ sending[w].kind \in {"badge?", "badge"}
      /\ badge.delivered < badge.version
      /\ sending[w].version <= badge.version
      /\ \A d \in Phones : shown[d] <= sending[w].version

(* The delivery fence: a dispatcher that has lost the lease has no time    *)
(* left to post in, and a request on its way ends before the lease does.   *)
FenceHolds ==
    \A w \in Dispatchers, d \in Phones : sending[w].kind = "badge" =>
      /\ sending[w].step[d] = "fenced" =>
           /\ sending[w].until[d] <= tick + Lease
           /\ badge.token = w => sending[w].until[d] <= badge.expires
           /\ badge.token # w => sending[w].until[d] <= tick
      /\ sending[w].step[d] = "sent" =>
           /\ badge.token = w
           /\ tick <= sending[w].until[d] /\ sending[w].until[d] <= tick + Timeout
           /\ sending[w].until[d] < badge.expires

(* While the newest version is being sent, no phone joins unnoticed, and   *)
(* one that has answered shows it.                                         *)
NewestIsUnderWay ==
    \A w \in Dispatchers : 
      badge.token = w /\ sending[w].kind = "badge" /\ sending[w].version = badge.version =>
        \A d \in Phones : phone[d] = "active" =>
          /\ sending[w].step[d] # "out"
          /\ sending[w].step[d] = "done" => shown[d] = badge.version

BadgeInv ==
    /\ VersionsFit /\ HolderIsNewest /\ FenceHolds /\ NewestIsUnderWay /\ DeliveredIsShown

Alerting(w) == sending[w].kind \in {"alert?", "alert"}

(* A version is claimed by one dispatcher, which has a device still to     *)
(* sound on or is through with it.                                         *)
AlertsAreClaimed ==
    \A w \in Dispatchers : Alerting(w) =>
      /\ sending[w].version <= alert.delivered
      /\ \A u \in Dispatchers : Alerting(u) /\ sending[u].version = sending[w].version => u = w
      /\ \A d \in Phones, v \in 1..MaxVersion :
           v = sending[w].version
           /\ (sending[w].kind = "alert?" \/ sending[w].step[d] \in {"todo", "fenced", "sent"})
           => sounded[d][v] = 0

SoundedWasClaimed ==
    /\ alert.delivered <= alert.version
    /\ \A d \in Phones, v \in 1..MaxVersion : sounded[d][v] # 0 => v <= alert.delivered

AlertInv == AlertsAreClaimed /\ SoundedWasClaimed /\ AlertSoundsOnce

PushInv == PushTypeOK /\ StepsFit /\ BadgeInv /\ AlertInv

-----------------------------------------------------------------------------
LEMMA PushConstants ==
  /\ Lease \in Nat /\ FenceMinimum \in Nat /\ Timeout \in Nat /\ MaxVersion \in Nat
  /\ MaxQueue \in Nat
  /\ Timeout < FenceMinimum /\ FenceMinimum <= Lease
  /\ NoLease \notin Dispatchers /\ "orphan" \notin Dispatchers
  BY PushAssumption

LEMMA PushInitInv == PushInit => PushInv
  BY PushConstants
  DEF PushInit, BadgeRow, AlertRow, PhoneRow, PushInv, PushTypeOK, StepsFit, BadgeInv, AlertInv, VersionsFit, HolderIsNewest,
      FenceHolds, NewestIsUnderWay, DeliveredIsShown, AlertsAreClaimed, SoundedWasClaimed,
      AlertSoundsOnce, Alerting, NoSend, Sending, Kinds, StepNames

LEMMA PushFields ==
  ASSUME PushTypeOK
  PROVE  /\ tick \in Nat /\ queue \in Nat
         /\ badge.version \in Nat /\ badge.delivered \in Nat /\ badge.expires \in Nat
         /\ alert.version \in Nat /\ alert.delivered \in Nat
         /\ \A d \in Phones : shown[d] \in Nat
         /\ \A d \in Phones : sounded[d] \in [1..MaxVersion -> Nat]
         /\ \A w \in Dispatchers :
              /\ sending[w].version \in Nat
              /\ \A d \in Phones : /\ sending[w].step[d] \in StepNames
                                    /\ sending[w].until[d] \in Nat
  BY DEF PushTypeOK, BadgeRow, AlertRow, Sending

(* Setting one step of one dispatcher.                                     *)
LEMMA StepEffect ==
  ASSUME PushTypeOK, NEW w \in Dispatchers, NEW d \in Phones, NEW s \in StepNames,
         NEW u \in Nat, Step(w, d, s, u)
  PROVE  /\ sending' \in [Dispatchers -> Sending]
         /\ \A x \in Dispatchers \ {w} : sending'[x] = sending[x]
         /\ sending'[w].kind = sending[w].kind
         /\ sending'[w].version = sending[w].version
         /\ sending'[w].step[d] = s /\ sending'[w].until[d] = u
         /\ \A e \in Phones \ {d} : /\ sending'[w].step[e] = sending[w].step[e]
                                    /\ sending'[w].until[e] = sending[w].until[e]
  BY DEF PushTypeOK, Step, Sending

-----------------------------------------------------------------------------
(* Observers.                                                              *)

(* A new version leaves the present sender behind, whatever phones did.    *)
LEMMA BumpKeepsBadge ==
  ASSUME PushTypeOK, BadgeInv, badge' = Bumped, UNCHANGED <<tick, shown, sending>>
  PROVE  BadgeInv'
<1>1. /\ badge'.version = badge.version + 1 /\ badge'.delivered = badge.delivered
      /\ badge'.token = badge.token /\ badge'.expires = badge.expires
  BY DEF Bumped, PushTypeOK
<1>2. badge.version \in Nat /\ badge.delivered \in Nat /\ \A d \in Phones : shown[d] \in Nat
  BY PushFields
<1>3. VersionsFit' /\ HolderIsNewest'
  BY <1>1, <1>2 DEF BadgeInv, VersionsFit, HolderIsNewest, PushTypeOK, Sending
<1>4. FenceHolds'
  BY <1>1 DEF BadgeInv, FenceHolds
<1>5. NewestIsUnderWay' /\ DeliveredIsShown'
  BY <1>1, <1>2
  DEF BadgeInv, VersionsFit, HolderIsNewest, NewestIsUnderWay, DeliveredIsShown, PushTypeOK,
      Sending
<1> QED
  BY <1>3, <1>4, <1>5 DEF BadgeInv

LEMMA BumpedTyped ==
  ASSUME PushTypeOK, badge' = Bumped
  PROVE  badge' \in BadgeRow
<1>1. badge \in BadgeRow /\ queue \in Nat /\ badge.version + 1 \in Nat
  BY DEF PushTypeOK, BadgeRow
<1> QED
  BY <1>1 DEF Bumped, BadgeRow

LEMMA AlertStateKeepsAlerts ==
  ASSUME PushTypeOK, AlertInv, NEW b \in BOOLEAN, alert' = AlertState(b),
         UNCHANGED <<sounded, sending>>
  PROVE  /\ AlertInv'
         /\ alert' \in AlertRow
<1>1. /\ alert'.delivered = alert.delivered /\ alert'.version \in Nat
      /\ alert'.version >= alert.version
      /\ alert' \in AlertRow
  <2>1. alert \in AlertRow /\ queue \in Nat /\ alert.version \in Nat /\ alert.version + 1 \in Nat
    BY DEF PushTypeOK, AlertRow
  <2> DEFINE raised == b /\ queue > 0
  <2>2. raised \in BOOLEAN
    OBVIOUS
  <2>3. \/ alert' = alert
        \/ alert' = [alert EXCEPT !.active = raised, !.count = queue, !.version = alert.version + 1]
    BY DEF AlertState
  <2> HIDE DEF raised
  <2>4. alert' \in AlertRow
    BY <2>1, <2>2, <2>3 DEF AlertRow
  <2>5. alert'.delivered = alert.delivered /\ alert'.version >= alert.version
    <3>1. CASE alert' = alert
      BY <2>1, <3>1
    <3>2. CASE alert' = [alert EXCEPT !.active = raised, !.count = queue,
                                      !.version = alert.version + 1]
      <4>1. alert'.delivered = alert.delivered /\ alert'.version = alert.version + 1
        BY <2>1, <3>2 DEF AlertRow
      <4> QED
        BY <2>1, <4>1
    <3> QED
      BY <2>3, <3>1, <3>2
  <2> QED
    BY <2>4, <2>5 DEF AlertRow
<1>2. alert.delivered \in Nat /\ alert.version \in Nat
  BY PushFields
<1> QED
  BY <1>1, <1>2 DEF AlertInv, AlertsAreClaimed, SoundedWasClaimed, AlertSoundsOnce, Alerting

LEMMA ObserveInv ==
  ASSUME PushInv, NEW b \in BOOLEAN, Observe(b), UNCHANGED <<tick, queue, shown, sounded, sending>>,
         phone' \in [Phones -> PhoneRow]
  PROVE  PushInv'
<1>1. BadgeInv' /\ AlertInv'
  BY BumpKeepsBadge, AlertStateKeepsAlerts DEF PushInv, Observe
<1>2. PushTypeOK'
  BY BumpedTyped, AlertStateKeepsAlerts DEF PushInv, PushTypeOK, Observe
<1> QED
  BY <1>1, <1>2 DEF PushInv, StepsFit

LEMMA ReconcileInv ==
  ASSUME PushInv, ReconcileModerationBadgeState
  PROVE  PushInv'
<1>1. alert' = AlertState(FALSE) /\ UNCHANGED <<tick, queue, phone, shown, sounded, sending>>
  BY DEF ReconcileModerationBadgeState
<1>2. AlertInv' /\ alert' \in AlertRow
  BY <1>1, AlertStateKeepsAlerts DEF PushInv
<1>3. BadgeInv'
  <2>1. CASE badge' = Bumped
    BY <1>1, <2>1, BumpKeepsBadge DEF PushInv
  <2>2. CASE badge' = badge
    BY <1>1, <2>2 DEF PushInv, BadgeInv, VersionsFit, HolderIsNewest, FenceHolds,
                      NewestIsUnderWay, DeliveredIsShown
  <2> QED
    BY <2>1, <2>2 DEF ReconcileModerationBadgeState
<1>4. PushTypeOK'
  BY <1>1, <1>2, BumpedTyped DEF PushInv, PushTypeOK, ReconcileModerationBadgeState
<1> QED
  BY <1>1, <1>2, <1>3, <1>4 DEF PushInv, StepsFit

(* Phones come and go; one becomes active only with a new version.         *)
LEMMA PhonesInv ==
  ASSUME PushInv, NEW d \in Phones,
         RegisterDevice(d) \/ QueueModerationBadgeRefresh(d) \/ RevokeDevice(d)
  PROVE  PushInv'
<1>1. phone \in [Phones -> PhoneRow]
  BY DEF PushInv, PushTypeOK
<1>2. CASE QueueModerationBadgeRefresh(d)
  BY <1>1, <1>2, ObserveInv DEF QueueModerationBadgeRefresh, PhoneRow
<1>3. CASE RegisterDevice(d) \/ RevokeDevice(d)
  <2>1. /\ UNCHANGED <<tick, queue, badge, alert, shown, sounded, sending>>
        /\ phone' \in [Phones -> PhoneRow]
        /\ \A e \in Phones : phone'[e] = "active" => phone[e] = "active"
    BY <1>1, <1>3 DEF RegisterDevice, RevokeDevice, PhoneRow
  <2> QED
    BY <2>1
    DEF PushInv, PushTypeOK, StepsFit, BadgeInv, AlertInv, VersionsFit, HolderIsNewest, FenceHolds,
        NewestIsUnderWay, DeliveredIsShown, AlertsAreClaimed, SoundedWasClaimed, AlertSoundsOnce,
        Alerting
<1> QED
  BY <1>2, <1>3
-----------------------------------------------------------------------------
(* Dispatchers.                                                            *)

LEMMA ClaimBadgeInv ==
  ASSUME PushInv, NEW w \in Dispatchers, ClaimModerationBadge(w)
  PROVE  PushInv'
<1>1. /\ sending[w] = NoSend /\ badge.version > badge.delivered
      /\ badge.token = NoLease \/ badge.expires <= tick
      /\ UNCHANGED <<tick, queue, alert, phone, shown, sounded>>
  BY DEF ClaimModerationBadge
<1>2. /\ badge'.version = badge.version /\ badge'.delivered = badge.delivered
      /\ badge'.token = w /\ badge'.expires = tick + Lease
      /\ badge' \in BadgeRow
  <2>1. badge \in BadgeRow /\ tick + Lease \in Nat
    BY PushConstants DEF PushInv, PushTypeOK
  <2> QED
    BY <2>1 DEF ClaimModerationBadge, BadgeRow
<1>3. /\ sending' \in [Dispatchers -> Sending]
      /\ \A x \in Dispatchers \ {w} : sending'[x] = sending[x]
      /\ sending'[w].kind = "badge?" /\ sending'[w].version = badge.version
      /\ \A d \in Phones : sending'[w].step[d] = "out"
  <2>1. sending \in [Dispatchers -> Sending] /\ badge.count \in Nat /\ badge.version \in Nat
    BY DEF PushInv, PushTypeOK, BadgeRow
  <2>2. [NoSend EXCEPT !.kind = "badge?", !.count = badge.count, !.version = badge.version]
        \in Sending
    BY <2>1 DEF NoSend, Sending, Kinds, StepNames
  <2> QED
    BY <2>1, <2>2 DEF ClaimModerationBadge, NoSend
<1>4. PushTypeOK' /\ StepsFit'
  <2>1. PushTypeOK'
    BY <1>1, <1>2, <1>3 DEF PushInv, PushTypeOK
  <2>2. StepsFit'
    BY <1>1, <1>3 DEF PushInv, StepsFit
  <2> QED
    BY <2>1, <2>2
<1>5. AlertInv'
  BY <1>1, <1>3
  DEF PushInv, AlertInv, AlertsAreClaimed, SoundedWasClaimed, AlertSoundsOnce, Alerting
<1>6. \A x \in Dispatchers : badge.token # x \/ badge.expires <= tick
  BY <1>1, PushConstants
<1>7. \A x \in Dispatchers, d \in Phones :
        sending[x].kind = "badge" => sending[x].step[d] # "sent"
  BY <1>6, PushFields DEF PushInv, BadgeInv, FenceHolds
<1>8. VersionsFit' /\ HolderIsNewest'
  BY <1>1, <1>2, <1>3, PushFields DEF PushInv, BadgeInv, VersionsFit, HolderIsNewest
<1>9. FenceHolds'
  <2>1. ASSUME NEW x \in Dispatchers, NEW d \in Phones, sending'[x].kind = "badge",
               sending'[x].step[d] = "fenced"
        PROVE  /\ sending'[x].until[d] <= tick' + Lease
               /\ badge'.token = x => sending'[x].until[d] <= badge'.expires
               /\ badge'.token # x => sending'[x].until[d] <= tick'
    <3>1. x # w /\ sending'[x] = sending[x]
      BY <1>3, <2>1
    <3> QED
      BY <1>1, <1>2, <1>6, <2>1, <3>1, PushFields DEF PushInv, BadgeInv, FenceHolds
  <2>2. \A x \in Dispatchers, d \in Phones :
          sending'[x].kind = "badge" => sending'[x].step[d] # "sent"
    BY <1>3, <1>7
  <2> QED
    BY <2>1, <2>2 DEF FenceHolds
<1>10. NewestIsUnderWay' /\ DeliveredIsShown'
  BY <1>1, <1>2, <1>3, PushFields DEF PushInv, NewestIsUnderWay, DeliveredIsShown
<1> QED
  BY <1>4, <1>5, <1>8, <1>9, <1>10 DEF PushInv, BadgeInv

LEMMA ClaimAlertInv ==
  ASSUME PushInv, NEW w \in Dispatchers, ClaimMessageAlert(w)
  PROVE  PushInv'
<1>1. /\ sending[w] = NoSend /\ alert.version > alert.delivered
      /\ UNCHANGED <<tick, queue, badge, phone, shown, sounded>>
  BY DEF ClaimMessageAlert
<1>2. /\ alert'.version = alert.version /\ alert'.delivered = alert.version
      /\ alert' \in AlertRow
  BY DEF ClaimMessageAlert, PushInv, PushTypeOK, AlertRow
<1>3. /\ sending' \in [Dispatchers -> Sending]
      /\ \A x \in Dispatchers \ {w} : sending'[x] = sending[x]
      /\ sending'[w].kind = "alert?" /\ sending'[w].version = alert.version
      /\ \A d \in Phones : sending'[w].step[d] = "out"
  <2>1. sending \in [Dispatchers -> Sending] /\ alert.count \in Nat /\ alert.version \in Nat
    BY DEF PushInv, PushTypeOK, AlertRow
  <2>2. [NoSend EXCEPT !.kind = "alert?", !.count = alert.count, !.version = alert.version]
        \in Sending
    BY <2>1 DEF NoSend, Sending, Kinds, StepNames
  <2> QED
    BY <2>1, <2>2 DEF ClaimMessageAlert, NoSend
<1>4. PushTypeOK' /\ StepsFit'
  BY <1>1, <1>2, <1>3 DEF PushInv, PushTypeOK, StepsFit
<1>5. badge.token # w
  BY <1>1 DEF PushInv, BadgeInv, HolderIsNewest, NoSend
<1>6. BadgeInv'
  BY <1>1, <1>3, <1>5
  DEF PushInv, BadgeInv, VersionsFit, HolderIsNewest, FenceHolds, NewestIsUnderWay,
      DeliveredIsShown
<1>7. AlertInv'
  <2>1. alert.version \in Nat /\ alert.delivered \in Nat
    BY PushFields DEF PushInv
  <2>2. \A x \in Dispatchers : Alerting(x) => sending[x].version < alert.version
    BY <1>1, <2>1, PushFields DEF PushInv, AlertInv, AlertsAreClaimed
  <2>3. \A d \in Phones, v \in 1..MaxVersion : v = alert.version => sounded[d][v] = 0
    BY <1>1, <2>1, PushFields DEF PushInv, AlertInv, SoundedWasClaimed
  <2>4. AlertsAreClaimed'
    <3> SUFFICES ASSUME NEW x \in Dispatchers, Alerting(x)'
                 PROVE  /\ sending'[x].version <= alert'.delivered
                        /\ \A u \in Dispatchers :
                             Alerting(u)' /\ sending'[u].version = sending'[x].version => u = x
                        /\ \A d \in Phones, v \in 1..MaxVersion :
                             v = sending'[x].version
                             /\ (sending'[x].kind = "alert?"
                                 \/ sending'[x].step[d] \in {"todo", "fenced", "sent"})
                             => sounded'[d][v] = 0
      BY DEF AlertsAreClaimed
    <3>1. \A u \in Dispatchers \ {w} : Alerting(u)' => Alerting(u) /\ sending'[u] = sending[u]
      BY <1>3 DEF Alerting
    <3>2. CASE x = w
      BY <1>1, <1>2, <1>3, <2>1, <2>2, <2>3, <3>1, <3>2, PushFields DEF PushInv
    <3>3. CASE x # w
      BY <1>1, <1>2, <1>3, <2>1, <2>2, <3>1, <3>3, PushFields
      DEF PushInv, AlertInv, AlertsAreClaimed
    <3> QED
      BY <3>2, <3>3
  <2>5. SoundedWasClaimed' /\ AlertSoundsOnce'
    BY <1>1, <1>2, <2>1, PushConstants DEF PushInv, AlertInv, SoundedWasClaimed, AlertSoundsOnce
  <2> QED
    BY <2>4, <2>5 DEF AlertInv
<1> QED
  BY <1>4, <1>6, <1>7 DEF PushInv

LEMMA FindInv ==
  ASSUME PushInv, NEW w \in Dispatchers, FindTargetDevices(w)
  PROVE  PushInv'
<1>1. UNCHANGED <<tick, queue, badge, alert, phone, shown, sounded>>
  BY DEF FindTargetDevices
<1>2. /\ sending[w].kind \in {"badge?", "alert?"}
      /\ sending' \in [Dispatchers -> Sending]
      /\ \A x \in Dispatchers \ {w} : sending'[x] = sending[x]
      /\ sending'[w].kind = IF sending[w].kind = "badge?" THEN "badge" ELSE "alert"
      /\ sending'[w].version = sending[w].version
      /\ \A d \in Phones :
           sending'[w].step[d] = IF phone[d] \in {"joining", "active"} THEN "todo" ELSE "out"
  <2>1. sending \in [Dispatchers -> Sending]
    BY DEF PushInv, PushTypeOK
  <2> DEFINE step == [d \in Phones |-> IF phone[d] \in {"joining", "active"} THEN "todo" ELSE "out"]
             kind == IF sending[w].kind = "badge?" THEN "badge" ELSE "alert"
  <2>2. /\ sending[w].kind \in {"badge?", "alert?"}
        /\ sending' = [sending EXCEPT ![w].kind = kind, ![w].step = step]
    BY DEF FindTargetDevices
  <2>3. step \in [Phones -> StepNames] /\ kind \in Kinds
    BY DEF StepNames, Kinds
  <2>4. \A d \in Phones : step[d] = IF phone[d] \in {"joining", "active"} THEN "todo" ELSE "out"
    OBVIOUS
  <2> HIDE DEF step
  <2> QED
    BY <2>1, <2>2, <2>3, <2>4 DEF Sending
<1>3. PushTypeOK' /\ StepsFit'
  BY <1>1, <1>2 DEF PushInv, PushTypeOK, StepsFit
<1>4. BadgeInv'
  BY <1>1, <1>2
  DEF PushInv, BadgeInv, VersionsFit, HolderIsNewest, FenceHolds, NewestIsUnderWay,
      DeliveredIsShown
<1>5. AlertInv'
  BY <1>1, <1>2
  DEF PushInv, AlertInv, AlertsAreClaimed, SoundedWasClaimed, AlertSoundsOnce, Alerting
<1> QED
  BY <1>3, <1>4, <1>5 DEF PushInv

(* The fence: the holder renews its lease; anyone else fails.              *)
LEMMA BeforeSubmitInv ==
  ASSUME PushInv, NEW w \in Dispatchers, NEW d \in Phones, BeforeSubmit(w, d)
  PROVE  PushInv'
<1> DEFINE step == IF FencePasses(w) THEN "fenced" ELSE "failed"
           until == IF FencePasses(w) THEN tick + Lease ELSE 0
<1>1. /\ UNCHANGED <<tick, queue, alert, phone, shown, sounded>>
      /\ sending[w].kind \in {"badge", "alert"} /\ sending[w].step[d] = "todo"
      /\ Step(w, d, step, until)
      /\ badge' = IF FencePasses(w) /\ sending[w].kind = "badge"
                  THEN [badge EXCEPT !.expires = tick + Lease] ELSE badge
  BY DEF BeforeSubmit
<1>2. step \in StepNames /\ until \in Nat
  BY PushConstants, PushFields DEF PushInv, StepNames
<1>3. sending[w].kind = "badge" => (step = "fenced" <=> badge.token = w)
  BY DEF FencePasses
<1>4. step = "fenced" => until = tick + Lease
  OBVIOUS
<1>5. step \in {"fenced", "failed"}
  OBVIOUS
<1>6. /\ badge'.version = badge.version /\ badge'.delivered = badge.delivered
      /\ badge'.token = badge.token
      /\ badge' \in BadgeRow
      /\ badge'.expires = IF step = "fenced" /\ sending[w].kind = "badge"
                          THEN tick + Lease ELSE badge.expires
  <2>1. badge \in BadgeRow /\ tick + Lease \in Nat
    BY PushConstants, PushFields DEF PushInv, PushTypeOK
  <2> QED
    BY <1>1, <2>1 DEF BadgeRow
<1> HIDE DEF step, until
<1>7. /\ sending' \in [Dispatchers -> Sending]
      /\ \A x \in Dispatchers \ {w} : sending'[x] = sending[x]
      /\ sending'[w].kind = sending[w].kind
      /\ sending'[w].version = sending[w].version
      /\ sending'[w].step[d] = step /\ sending'[w].until[d] = until
      /\ \A e \in Phones \ {d} : /\ sending'[w].step[e] = sending[w].step[e]
                                 /\ sending'[w].until[e] = sending[w].until[e]
  BY <1>1, <1>2, StepEffect DEF PushInv
<1>8. PushTypeOK' /\ StepsFit'
  <2>1. PushTypeOK'
    BY <1>1, <1>6, <1>7 DEF PushInv, PushTypeOK
  <2>2. StepsFit'
    BY <1>1, <1>7 DEF PushInv, StepsFit
  <2> QED
    BY <2>1, <2>2
<1>9. VersionsFit' /\ HolderIsNewest' /\ DeliveredIsShown'
  BY <1>1, <1>6, <1>7 DEF PushInv, BadgeInv, VersionsFit, HolderIsNewest, DeliveredIsShown
<1>10. FenceHolds'
  <2> SUFFICES ASSUME NEW x \in Dispatchers, NEW e \in Phones, sending'[x].kind = "badge"
               PROVE  /\ sending'[x].step[e] = "fenced" =>
                           /\ sending'[x].until[e] <= tick + Lease
                           /\ badge.token = x => sending'[x].until[e] <= badge'.expires
                           /\ badge.token # x => sending'[x].until[e] <= tick
                      /\ sending'[x].step[e] = "sent" =>
                           /\ badge.token = x
                           /\ tick <= sending'[x].until[e]
                           /\ sending'[x].until[e] <= tick + Timeout
                           /\ sending'[x].until[e] < badge'.expires
    BY <1>1, <1>6 DEF FenceHolds
  <2>1. badge.token = x /\ x # w => badge'.expires = badge.expires
    BY <1>3, <1>6
  <2>2. tick \in Nat /\ badge.expires \in Nat
    BY PushFields DEF PushInv
  <2>3. badge'.expires = badge.expires \/ badge'.expires = tick + Lease
    BY <1>6
  <2>4. CASE x = w /\ e = d
    BY <1>3, <1>4, <1>5, <1>6, <1>7, <2>2, <2>4, PushConstants
  <2>5. CASE x # w \/ e # d
    <3>1. /\ sending'[x].step[e] = sending[x].step[e]
          /\ sending'[x].until[e] = sending[x].until[e]
          /\ sending[x].kind = "badge"
      BY <1>7, <2>5
    <3>2. sending[x].until[e] \in Nat
      BY PushFields DEF PushInv
    <3> QED
      BY <2>1, <2>2, <2>3, <3>1, <3>2, PushConstants DEF PushInv, BadgeInv, FenceHolds
  <2> QED
    BY <2>4, <2>5
<1>11. NewestIsUnderWay'
  BY <1>1, <1>5, <1>6, <1>7 DEF PushInv, BadgeInv, NewestIsUnderWay
<1>12. AlertInv'
  BY <1>1, <1>5, <1>7
  DEF PushInv, AlertInv, AlertsAreClaimed, SoundedWasClaimed, AlertSoundsOnce, Alerting
<1> QED
  BY <1>8, <1>9, <1>10, <1>11, <1>12 DEF PushInv, BadgeInv

(* The fence still holds for longer than the request can take, so the      *)
(* lease is still held and lasts longer too.                               *)
LEMMA PostInv ==
  ASSUME PushInv, NEW w \in Dispatchers, NEW d \in Phones, Post(w, d)
  PROVE  PushInv'
<1> DEFINE inTime == sending[w].until[d] - tick >= FenceMinimum
           step == IF inTime THEN "sent" ELSE "failed"
           until == IF inTime THEN tick + Timeout ELSE 0
<1>1. /\ UNCHANGED <<tick, queue, badge, alert, phone, shown, sounded>>
      /\ sending[w].step[d] = "fenced"
      /\ Step(w, d, step, until)
  BY DEF Post
<1>2. step \in {"sent", "failed"} /\ step \in StepNames /\ until \in Nat
  BY PushConstants, PushFields DEF PushInv, StepNames
<1>3. step = "sent" => until = tick + Timeout /\ sending[w].until[d] - tick >= FenceMinimum
  OBVIOUS
<1> HIDE DEF step, until
<1>4. /\ sending' \in [Dispatchers -> Sending]
      /\ \A x \in Dispatchers \ {w} : sending'[x] = sending[x]
      /\ sending'[w].kind = sending[w].kind
      /\ sending'[w].version = sending[w].version
      /\ sending'[w].step[d] = step /\ sending'[w].until[d] = until
      /\ \A e \in Phones \ {d} : /\ sending'[w].step[e] = sending[w].step[e]
                                 /\ sending'[w].until[e] = sending[w].until[e]
  BY <1>1, <1>2, StepEffect DEF PushInv
<1>5. sending[w].kind \in {"badge", "alert"}
  BY <1>1 DEF PushInv, StepsFit
<1>6. PushTypeOK' /\ StepsFit'
  BY <1>1, <1>4, <1>5 DEF PushInv, PushTypeOK, StepsFit
<1>7. VersionsFit' /\ HolderIsNewest' /\ DeliveredIsShown'
  BY <1>1, <1>4 DEF PushInv, BadgeInv, VersionsFit, HolderIsNewest, DeliveredIsShown
<1>8. FenceHolds'
  <2> SUFFICES ASSUME NEW x \in Dispatchers, NEW e \in Phones, sending'[x].kind = "badge"
               PROVE  /\ sending'[x].step[e] = "fenced" =>
                           /\ sending'[x].until[e] <= tick + Lease
                           /\ badge.token = x => sending'[x].until[e] <= badge.expires
                           /\ badge.token # x => sending'[x].until[e] <= tick
                      /\ sending'[x].step[e] = "sent" =>
                           /\ badge.token = x
                           /\ tick <= sending'[x].until[e]
                           /\ sending'[x].until[e] <= tick + Timeout
                           /\ sending'[x].until[e] < badge.expires
    BY <1>1 DEF FenceHolds
  <2>1. CASE x = w /\ e = d
    <3>1. /\ tick \in Nat /\ badge.expires \in Nat /\ sending[w].until[d] \in Nat
          /\ badge.token = w => sending[w].until[d] <= badge.expires
          /\ badge.token # w => sending[w].until[d] <= tick
      BY <1>1, <1>4, <2>1, PushFields DEF PushInv, BadgeInv, FenceHolds
    <3>2. step = "sent" => /\ badge.token = w
                           /\ tick <= tick + Timeout /\ tick + Timeout < badge.expires
      BY <1>3, <3>1, PushConstants
    <3> QED
      BY <1>2, <1>3, <1>4, <2>1, <3>1, <3>2, PushConstants
  <2>2. CASE x # w \/ e # d
    <3>1. /\ sending'[x].step[e] = sending[x].step[e]
          /\ sending'[x].until[e] = sending[x].until[e]
          /\ sending[x].kind = "badge"
      BY <1>4, <2>2
    <3> QED
      BY <3>1 DEF PushInv, BadgeInv, FenceHolds
  <2> QED
    BY <2>1, <2>2
<1>9. NewestIsUnderWay'
  BY <1>1, <1>2, <1>4 DEF PushInv, BadgeInv, NewestIsUnderWay
<1>10. AlertInv'
  BY <1>1, <1>2, <1>4
  DEF PushInv, AlertInv, AlertsAreClaimed, SoundedWasClaimed, AlertSoundsOnce, Alerting
<1> QED
  BY <1>6, <1>7, <1>8, <1>9, <1>10 DEF PushInv, BadgeInv

(* The phone of a badge shows the version of the holder of the lease; that *)
(* of an alert has not sounded it before.                                  *)
LEMMA ReachInv ==
  ASSUME PushInv, NEW w \in Dispatchers, NEW d \in Phones, NEW a \in {"done", "failed"},
         Reach(w, d, a)
  PROVE  PushInv' /\ NoOlderBadge
<1>1. /\ UNCHANGED <<tick, queue, badge, alert, phone>>
      /\ sending[w].step[d] = "sent"
      /\ Step(w, d, a, 0)
      /\ shown' = IF sending[w].kind = "badge" THEN [shown EXCEPT ![d] = sending[w].version]
                  ELSE shown
      /\ sounded' = IF sending[w].kind = "alert"
                    THEN [sounded EXCEPT ![d] = [sounded[d] EXCEPT
                            ![sending[w].version] = sounded[d][sending[w].version] + 1]]
                    ELSE sounded
  BY DEF Reach
<1>2. a \in StepNames
  BY DEF StepNames
<1>3. /\ sending' \in [Dispatchers -> Sending]
      /\ \A x \in Dispatchers \ {w} : sending'[x] = sending[x]
      /\ sending'[w].kind = sending[w].kind
      /\ sending'[w].version = sending[w].version
      /\ sending'[w].step[d] = a
      /\ \A e \in Phones \ {d} : /\ sending'[w].step[e] = sending[w].step[e]
                                 /\ sending'[w].until[e] = sending[w].until[e]
  BY <1>1, <1>2, StepEffect DEF PushInv
<1>4. sending[w].kind \in {"badge", "alert"} /\ sending[w].version \in Nat
  BY <1>1, PushFields DEF PushInv, StepsFit
<1>5. /\ shown' \in [Phones -> Nat]
      /\ sounded' \in [Phones -> [1..MaxVersion -> Nat]]
  <2>1. shown' \in [Phones -> Nat]
    BY <1>1, <1>4 DEF PushInv, PushTypeOK
  <2>2. sounded \in [Phones -> [1..MaxVersion -> Nat]]
    BY DEF PushInv, PushTypeOK
  <2> DEFINE v == sending[w].version
             grown == [sounded[d] EXCEPT ![v] = sounded[d][v] + 1]
  <2>3. grown \in [1..MaxVersion -> Nat]
    <3>1. sounded[d] \in [1..MaxVersion -> Nat]
      BY <2>2
    <3> HIDE DEF v
    <3>2. grown = [x \in 1..MaxVersion |-> IF x = v THEN sounded[d][x] + 1 ELSE sounded[d][x]]
      BY <3>1
    <3>3. \A x \in 1..MaxVersion : sounded[d][x] \in Nat
      BY <3>1
    <3> HIDE DEF grown
    <3> QED
      BY <3>2, <3>3
  <2>4. sounded' = sounded \/ sounded' = [sounded EXCEPT ![d] = grown]
    BY <1>1
  <2> HIDE DEF grown
  <2> QED
    BY <2>1, <2>2, <2>3, <2>4
<1>6. PushTypeOK' /\ StepsFit'
  <2>1. PushTypeOK'
    BY <1>1, <1>3, <1>5 DEF PushInv, PushTypeOK
  <2>2. StepsFit'
    BY <1>3, <1>4 DEF PushInv, StepsFit
  <2> QED
    BY <2>1, <2>2
<1>7. sending[w].kind = "badge" => badge.token = w
  BY <1>1 DEF PushInv, BadgeInv, FenceHolds
<1>8. /\ shown'[d] = IF sending[w].kind = "badge" THEN sending[w].version ELSE shown[d]
      /\ \A e \in Phones \ {d} : shown'[e] = shown[e]
  BY <1>1 DEF PushInv, PushTypeOK
<1>9. NoOlderBadge
  BY <1>7, <1>8, PushFields DEF PushInv, BadgeInv, HolderIsNewest, NoOlderBadge
<1>10. VersionsFit' /\ HolderIsNewest'
  BY <1>1, <1>3, <1>4, <1>7, <1>8, PushFields DEF PushInv, BadgeInv, VersionsFit, HolderIsNewest
<1>11. FenceHolds'
  <2>1. ASSUME NEW x \in Dispatchers, NEW e \in Phones, sending'[x].kind = "badge",
               sending'[x].step[e] \in {"fenced", "sent"}
        PROVE  /\ sending'[x].step[e] = sending[x].step[e]
               /\ sending'[x].until[e] = sending[x].until[e]
               /\ sending[x].kind = "badge"
    BY <1>3, <2>1
  <2> QED
    BY <1>1, <2>1 DEF PushInv, BadgeInv, FenceHolds
<1>12. NewestIsUnderWay'
  <2> SUFFICES ASSUME NEW x \in Dispatchers, NEW e \in Phones, badge.token = x,
                      sending'[x].kind = "badge", sending'[x].version = badge.version,
                      phone[e] = "active"
               PROVE  /\ sending'[x].step[e] # "out"
                      /\ sending'[x].step[e] = "done" => shown'[e] = badge.version
    BY <1>1 DEF NewestIsUnderWay
  <2>1. CASE x = w
    BY <1>1, <1>3, <1>8, <2>1 DEF PushInv, BadgeInv, NewestIsUnderWay
  <2>2. CASE x # w
    BY <1>1, <1>3, <1>7, <1>4, <1>8, <2>2 DEF PushInv, BadgeInv, NewestIsUnderWay
  <2> QED
    BY <2>1, <2>2
<1>13. DeliveredIsShown'
  <2>1. sending[w].kind = "badge" => badge.delivered < badge.version
    BY <1>7 DEF PushInv, BadgeInv, HolderIsNewest
  <2> QED
    BY <1>1, <1>8, <2>1, PushFields DEF PushInv, BadgeInv, DeliveredIsShown
<1>14. \A e \in Phones, v \in 1..MaxVersion :
         sounded'[e][v] = IF sending[w].kind = "alert" /\ e = d /\ v = sending[w].version
                          THEN sounded[e][v] + 1 ELSE sounded[e][v]
  <2>1. \A e \in Phones : sounded[e] \in [1..MaxVersion -> Nat]
    BY PushFields DEF PushInv
  <2> QED
    BY <1>1, <2>1 DEF PushInv, PushTypeOK
<1>15. AlertInv'
  <2>1. \A v \in 1..MaxVersion : sending[w].kind = "alert" /\ v = sending[w].version =>
          sounded[d][v] = 0 /\ v <= alert.delivered
    BY <1>1 DEF PushInv, AlertInv, AlertsAreClaimed, Alerting
  <2>2. SoundedWasClaimed' /\ AlertSoundsOnce'
    BY <1>1, <1>14, <2>1 DEF PushInv, AlertInv, SoundedWasClaimed, AlertSoundsOnce
  <2>3. AlertsAreClaimed'
    <3>1. \A x \in Dispatchers : /\ Alerting(x)' <=> Alerting(x)
                                 /\ sending'[x].version = sending[x].version
                                 /\ sending'[x].kind = sending[x].kind
      BY <1>3 DEF Alerting
    <3>2. ASSUME NEW x \in Dispatchers, Alerting(x), NEW e \in Phones, NEW v \in 1..MaxVersion,
                 v = sending[x].version,
                 sending[x].kind = "alert?" \/ sending'[x].step[e] \in {"todo", "fenced", "sent"}
          PROVE  sounded'[e][v] = 0
      <4>1. CASE x = w
        BY <1>3, <1>4, <1>14, <3>2, <4>1 DEF PushInv, AlertInv, AlertsAreClaimed
      <4>2. CASE x # w
        <5>1. ~(sending[w].kind = "alert" /\ v = sending[w].version)
          BY <3>2, <4>2 DEF PushInv, AlertInv, AlertsAreClaimed, Alerting
        <5> QED
          BY <1>3, <1>14, <3>2, <4>2, <5>1 DEF PushInv, AlertInv, AlertsAreClaimed
      <4> QED
        BY <4>1, <4>2
    <3> QED
      BY <1>1, <3>1, <3>2 DEF PushInv, AlertInv, AlertsAreClaimed
  <2> QED
    BY <2>2, <2>3 DEF AlertInv
<1> QED
  BY <1>6, <1>9, <1>10, <1>11, <1>12, <1>13, <1>15 DEF PushInv, BadgeInv

LEMMA RefusedInv ==
  ASSUME PushInv, NEW w \in Dispatchers, NEW d \in Phones, NEW permanently \in BOOLEAN,
         Refused(w, d, permanently)
  PROVE  PushInv'
<1> DEFINE step == IF permanently THEN "done" ELSE "failed"
<1>1. /\ UNCHANGED <<tick, queue, badge, alert, shown, sounded>>
      /\ sending[w].step[d] = "sent" /\ Step(w, d, step, 0)
      /\ step = "done" => phone' = [phone EXCEPT ![d] = "revoked"]
      /\ step # "done" => phone' = phone
      /\ step \in {"done", "failed"}
  BY DEF Refused
<1> HIDE DEF step
<1>2. step \in StepNames
  BY <1>1 DEF StepNames
<1>3. /\ sending' \in [Dispatchers -> Sending]
      /\ \A x \in Dispatchers \ {w} : sending'[x] = sending[x]
      /\ sending'[w].kind = sending[w].kind
      /\ sending'[w].version = sending[w].version
      /\ sending'[w].step[d] = step
      /\ \A e \in Phones \ {d} : /\ sending'[w].step[e] = sending[w].step[e]
                                 /\ sending'[w].until[e] = sending[w].until[e]
  BY <1>1, <1>2, StepEffect DEF PushInv
<1>4. sending[w].kind \in {"badge", "alert"}
  BY <1>1 DEF PushInv, StepsFit
<1>5. /\ phone' \in [Phones -> PhoneRow]
      /\ \A e \in Phones : phone'[e] = "active" => phone[e] = "active"
      /\ step = "done" => phone'[d] # "active"
  BY <1>1 DEF PushInv, PushTypeOK, PhoneRow
<1>6. PushTypeOK' /\ StepsFit'
  <2>1. PushTypeOK'
    BY <1>1, <1>3, <1>5 DEF PushInv, PushTypeOK
  <2>2. StepsFit'
    BY <1>1, <1>3, <1>4 DEF PushInv, StepsFit
  <2> QED
    BY <2>1, <2>2
<1>7. VersionsFit' /\ HolderIsNewest' /\ DeliveredIsShown'
  BY <1>1, <1>3, <1>5 DEF PushInv, BadgeInv, VersionsFit, HolderIsNewest, DeliveredIsShown
<1>8. FenceHolds'
  <2>1. ASSUME NEW x \in Dispatchers, NEW e \in Phones, sending'[x].kind = "badge",
               sending'[x].step[e] \in {"fenced", "sent"}
        PROVE  /\ sending'[x].step[e] = sending[x].step[e]
               /\ sending'[x].until[e] = sending[x].until[e]
               /\ sending[x].kind = "badge"
    BY <1>1, <1>3, <2>1
  <2> QED
    BY <1>1, <2>1 DEF PushInv, BadgeInv, FenceHolds
<1>9. NewestIsUnderWay'
  BY <1>1, <1>3, <1>5 DEF PushInv, BadgeInv, NewestIsUnderWay
<1>10. AlertInv'
  BY <1>1, <1>3
  DEF PushInv, AlertInv, AlertsAreClaimed, SoundedWasClaimed, AlertSoundsOnce, Alerting
<1> QED
  BY <1>6, <1>7, <1>8, <1>9, <1>10 DEF PushInv, BadgeInv

(* Letting go: a dispatcher that finishes or stops holds no lease.         *)
LEMMA LetGoInv ==
  ASSUME PushInv, NEW w \in Dispatchers,
         UNCHANGED <<tick, queue, alert, phone, shown, sounded>>,
         sending' = [sending EXCEPT ![w] = NoSend],
         badge' \in BadgeRow, badge'.version = badge.version, badge'.expires = badge.expires,
         badge.token = w => badge'.token \notin Dispatchers,
         badge.token # w => badge' = badge,
         badge'.delivered <= badge.version,
         badge'.delivered = badge.delivered \/ DeliveredIsShown'
  PROVE  PushInv'
<1>1. NoSend \in Sending
  BY DEF NoSend, Sending, Kinds, StepNames
<1>2. /\ sending' \in [Dispatchers -> Sending]
      /\ sending'[w].kind = "none" /\ \A d \in Phones : sending'[w].step[d] = "out"
      /\ \A x \in Dispatchers \ {w} : sending'[x] = sending[x]
  BY <1>1 DEF PushInv, PushTypeOK, NoSend
<1>3. PushTypeOK' /\ StepsFit'
  BY <1>2 DEF PushInv, PushTypeOK, StepsFit
<1>4. badge'.token # w
  OBVIOUS
<1>5. \A x \in Dispatchers : badge'.token = x => badge' = badge /\ x # w
  BY <1>4
<1>6. VersionsFit' /\ HolderIsNewest' /\ NewestIsUnderWay' /\ DeliveredIsShown'
  BY <1>2, <1>5
  DEF PushInv, BadgeInv, VersionsFit, HolderIsNewest, NewestIsUnderWay, DeliveredIsShown
<1>7. FenceHolds'
  <2> SUFFICES ASSUME NEW x \in Dispatchers, NEW e \in Phones, x # w,
                      sending[x].kind = "badge"
               PROVE  /\ sending[x].step[e] = "fenced" =>
                           /\ sending[x].until[e] <= tick + Lease
                           /\ badge'.token = x => sending[x].until[e] <= badge'.expires
                           /\ badge'.token # x => sending[x].until[e] <= tick
                      /\ sending[x].step[e] = "sent" =>
                           /\ badge'.token = x
                           /\ tick <= sending[x].until[e]
                           /\ sending[x].until[e] <= tick + Timeout
                           /\ sending[x].until[e] < badge'.expires
    BY <1>2 DEF FenceHolds
  <2>1. badge.token # w => badge' = badge
    OBVIOUS
  <2>2. badge.token = w => badge'.token # x /\ badge.token # x
    OBVIOUS
  <2> QED
    BY <2>1, <2>2 DEF PushInv, BadgeInv, FenceHolds
<1>8. AlertInv'
  BY <1>2 DEF PushInv, AlertInv, AlertsAreClaimed, SoundedWasClaimed, AlertSoundsOnce, Alerting
<1> QED
  BY <1>3, <1>6, <1>7, <1>8 DEF PushInv, BadgeInv

(* The version is recorded as delivered when no device failed; if it is    *)
(* still the newest one, every phone shows it.                             *)
LEMMA FinishInv ==
  ASSUME PushInv, NEW w \in Dispatchers, FinishSend(w)
  PROVE  PushInv'
<1>1. /\ sending[w].kind \in {"badge", "alert"}
      /\ \A d \in Phones : sending[w].step[d] \in {"out", "done", "failed"}
      /\ badge' = IF sending[w].kind = "badge" /\ badge.token = w THEN Settled(w) ELSE badge
      /\ sending' = [sending EXCEPT ![w] = NoSend]
      /\ UNCHANGED <<tick, queue, alert, phone, shown, sounded>>
  BY DEF FinishSend
<1>2. badge \in BadgeRow /\ sending[w].version \in Nat
  BY PushFields DEF PushInv, PushTypeOK
<1>3. CASE badge.token = w
  <2>1. sending[w].kind = "badge" /\ sending[w].version <= badge.version
        /\ badge.delivered <= badge.version
    BY <1>1, <1>3 DEF PushInv, BadgeInv, HolderIsNewest, VersionsFit
  <2> DEFINE failed == \E d \in Phones : sending[w].step[d] = "failed"
             delivered == IF failed THEN badge.delivered ELSE sending[w].version
  <2>2. badge' = [badge EXCEPT !.token = NoLease, !.delivered = delivered]
    BY <1>1, <1>3, <2>1 DEF Settled
  <2>3. delivered \in Nat /\ delivered <= badge.version
    BY <1>2, <2>1 DEF BadgeRow
  <2>4. \/ delivered = badge.delivered
        \/ ~failed /\ delivered = sending[w].version
    <3> HIDE DEF failed
    <3> QED
      OBVIOUS
  <2> HIDE DEF delivered
  <2>5. /\ badge' \in BadgeRow /\ badge'.version = badge.version
        /\ badge'.expires = badge.expires /\ badge'.token = NoLease
        /\ badge'.delivered = delivered
    BY <1>2, <2>2, <2>3 DEF BadgeRow
  <2>6. badge'.delivered = badge.delivered \/ DeliveredIsShown'
    <3>1. CASE ~failed /\ delivered = sending[w].version
      BY <1>1, <1>3, <2>1, <2>5, <3>1
      DEF PushInv, BadgeInv, NewestIsUnderWay, DeliveredIsShown
    <3> QED
      BY <2>4, <2>5, <3>1
  <2> QED
    BY <1>1, <1>3, <2>3, <2>5, <2>6, LetGoInv, PushConstants
<1>4. CASE badge.token # w
  BY <1>1, <1>2, <1>4, LetGoInv DEF PushInv, BadgeInv, VersionsFit
<1> QED
  BY <1>3, <1>4

LEMMA CrashInv ==
  ASSUME PushInv, NEW w \in Dispatchers, Crash(w)
  PROVE  PushInv'
<1>1. /\ badge' = IF badge.token = w THEN [badge EXCEPT !.token = "orphan"] ELSE badge
      /\ sending' = [sending EXCEPT ![w] = NoSend]
      /\ UNCHANGED <<tick, queue, alert, phone, shown, sounded>>
  BY DEF Crash
<1>2. badge \in BadgeRow /\ badge.delivered <= badge.version
  BY DEF PushInv, PushTypeOK, BadgeInv, VersionsFit
<1>3. /\ badge' \in BadgeRow /\ badge'.version = badge.version
      /\ badge'.expires = badge.expires /\ badge'.delivered = badge.delivered
      /\ badge.token = w => badge'.token = "orphan"
      /\ badge.token # w => badge' = badge
  BY <1>1, <1>2 DEF BadgeRow
<1> QED
  BY <1>1, <1>2, <1>3, LetGoInv, PushConstants

(* Time passes no request by, and shortens every fence.                    *)
LEMMA PushTickInv ==
  ASSUME PushInv, PushTick
  PROVE  PushInv'
<1>1. /\ tick' = tick + 1 /\ UNCHANGED <<queue, badge, alert, phone, shown, sounded, sending>>
      /\ \A w \in Dispatchers, d \in Phones :
           sending[w].step[d] = "sent" => tick < sending[w].until[d]
  BY DEF PushTick
<1>2. FenceHolds'
  <2> SUFFICES ASSUME NEW x \in Dispatchers, NEW e \in Phones, sending[x].kind = "badge"
               PROVE  /\ sending[x].step[e] = "fenced" =>
                           /\ sending[x].until[e] <= tick' + Lease
                           /\ badge.token = x => sending[x].until[e] <= badge.expires
                           /\ badge.token # x => sending[x].until[e] <= tick'
                      /\ sending[x].step[e] = "sent" =>
                           /\ badge.token = x
                           /\ tick' <= sending[x].until[e]
                           /\ sending[x].until[e] <= tick' + Timeout
                           /\ sending[x].until[e] < badge.expires
    BY <1>1 DEF FenceHolds
  <2>1. tick \in Nat /\ sending[x].until[e] \in Nat
    BY PushFields DEF PushInv
  <2> QED
    BY <1>1, <2>1, PushConstants DEF PushInv, BadgeInv, FenceHolds
<1>3. tick' \in Nat
  BY <1>1, PushFields DEF PushInv
<1>4. VersionsFit' /\ HolderIsNewest' /\ NewestIsUnderWay' /\ DeliveredIsShown'
  BY <1>1 DEF PushInv, BadgeInv, VersionsFit, HolderIsNewest, NewestIsUnderWay, DeliveredIsShown
<1>5. AlertInv'
  BY <1>1 DEF PushInv, AlertInv, AlertsAreClaimed, SoundedWasClaimed, AlertSoundsOnce, Alerting
<1> QED
  BY <1>1, <1>2, <1>3, <1>4, <1>5 DEF PushInv, PushTypeOK, StepsFit, BadgeInv

LEMMA ChangeQueueInv ==
  ASSUME PushInv, NEW n \in 0..MaxQueue, ChangeQueue(n)
  PROVE  PushInv'
<1>1. queue' \in Nat /\ UNCHANGED <<tick, badge, alert, phone, shown, sounded, sending>>
  BY PushConstants DEF ChangeQueue
<1> QED
  BY <1>1
  DEF PushInv, PushTypeOK, StepsFit, BadgeInv, AlertInv, VersionsFit, HolderIsNewest, FenceHolds,
      NewestIsUnderWay, DeliveredIsShown, AlertsAreClaimed, SoundedWasClaimed, AlertSoundsOnce,
      Alerting

-----------------------------------------------------------------------------
LEMMA PushNextInv ==
  ASSUME PushInv, [PushNext]_pushVars
  PROVE  PushInv' /\ NoOlderBadge
<1>1. UNCHANGED shown => NoOlderBadge
  BY PushFields DEF PushInv, NoOlderBadge
<1>2. CASE \E n \in 0..MaxQueue : ChangeQueue(n)
  BY <1>1, <1>2, ChangeQueueInv DEF ChangeQueue
<1>3. CASE NotifyMessageReceived \/ ObserveModerationQueue
  <2>1. phone' \in [Phones -> PhoneRow] /\ UNCHANGED <<tick, queue, shown, sounded, sending>>
        /\ \E b \in BOOLEAN : Observe(b)
    BY <1>3 DEF PushInv, PushTypeOK, NotifyMessageReceived, ObserveModerationQueue
  <2> QED
    BY <1>1, <2>1, ObserveInv
<1>4. CASE ReconcileModerationBadgeState
  BY <1>1, <1>4, ReconcileInv DEF ReconcileModerationBadgeState
<1>5. CASE \E d \in Phones :
             RegisterDevice(d) \/ QueueModerationBadgeRefresh(d) \/ RevokeDevice(d)
  BY <1>1, <1>5, PhonesInv DEF RegisterDevice, QueueModerationBadgeRefresh, RevokeDevice
<1>6. CASE \E w \in Dispatchers :
             \/ ClaimModerationBadge(w) \/ ClaimMessageAlert(w) \/ FindTargetDevices(w)
             \/ FinishSend(w) \/ Crash(w)
  BY <1>1, <1>6, ClaimBadgeInv, ClaimAlertInv, FindInv, FinishInv, CrashInv
  DEF ClaimModerationBadge, ClaimMessageAlert, FindTargetDevices, FinishSend, Crash
<1>7. CASE \E w \in Dispatchers, d \in Phones :
             \/ BeforeSubmit(w, d) \/ Post(w, d)
             \/ \E permanently \in BOOLEAN : Refused(w, d, permanently)
  BY <1>1, <1>7, BeforeSubmitInv, PostInv, RefusedInv DEF BeforeSubmit, Post, Refused
<1>8. CASE \E w \in Dispatchers, d \in Phones, a \in {"done", "failed"} : Reach(w, d, a)
  BY <1>8, ReachInv
<1>9. CASE PushTick
  BY <1>1, <1>9, PushTickInv DEF PushTick
<1>10. CASE UNCHANGED pushVars
  BY <1>1, <1>10
  DEF pushVars, PushInv, PushTypeOK, StepsFit, BadgeInv, AlertInv, VersionsFit, HolderIsNewest,
      FenceHolds, NewestIsUnderWay, DeliveredIsShown, AlertsAreClaimed, SoundedWasClaimed,
      AlertSoundsOnce, Alerting
<1> QED
  BY <1>2, <1>3, <1>4, <1>5, <1>6, <1>7, <1>8, <1>9, <1>10 DEF PushNext

(* A badge recorded as delivered is on every registered phone              *)
(* (push-events.ts).                                                       *)
THEOREM DeliveredShown == PushSpec => []DeliveredIsShown
<1>1. PushInv => DeliveredIsShown
  BY DEF PushInv, BadgeInv
<1> QED
  BY <1>1, PushInitInv, PushNextInv, PTL DEF PushSpec

(* No phone sounds the same alert twice (push-events.ts).                  *)
THEOREM AlertOnce == PushSpec => []AlertSoundsOnce
<1>1. PushInv => AlertSoundsOnce
  BY DEF PushInv, AlertInv
<1> QED
  BY <1>1, PushInitInv, PushNextInv, PTL DEF PushSpec

(* No phone goes back to an older count, however long a dispatcher is held *)
(* up (push-events.ts, apns.ts).                                           *)
THEOREM BadgesMoveOn == PushSpec => [][NoOlderBadge]_pushVars
<1>1. PushInv /\ [PushNext]_pushVars => PushInv' /\ [NoOlderBadge]_pushVars
  BY PushNextInv
<1> QED
  BY <1>1, PushInitInv, PTL DEF PushSpec

-----------------------------------------------------------------------------
(* A page.                                                                 *)

(* A finite set has a last element in every strict order.                  *)
LEMMA LastOfOrder ==
  ASSUME NEW S, IsFiniteSet(S), S # {}, NEW R,
         \A x \in S : <<x, x>> \notin R,
         \A x, y, z \in S : <<x, y>> \in R /\ <<y, z>> \in R => <<x, z>> \in R
  PROVE  \E x \in S : \A y \in S : <<x, y>> \notin R
<1> DEFINE After(x) == {y \in S : <<x, y>> \in R}
           T == {After(x) : x \in S}
<1>1. IsWellFoundedOn(StrictSubsetOrdering(S), SUBSET S)
  BY FS_StrictSubsetOrderingWellFounded, FS_FiniteSubsetsOfFinite
<1>2. T \subseteq SUBSET S /\ T # {}
  <2>1. PICK x \in S : TRUE
    OBVIOUS
  <2>2. After(x) \in T
    BY <2>1
  <2>3. T # {}
    BY <2>2
  <2>4. ASSUME NEW U \in T PROVE U \in SUBSET S
    BY <2>4
  <2> QED
    BY <2>3, <2>4
<1>3. \E U \in T : \A V \in T : <<V, U>> \notin StrictSubsetOrdering(S)
  <2> HIDE DEF T
  <2> QED
    BY <1>1, <1>2, WFMin
<1>4. PICK x \in S : \A V \in T : <<V, After(x)>> \notin StrictSubsetOrdering(S)
  BY <1>3
<1>5. ASSUME NEW y \in S, <<x, y>> \in R PROVE FALSE
  <2>1. y \in After(x) /\ y \notin After(y) /\ After(y) \subseteq After(x)
    BY <1>5
  <2>2. After(y) \in T /\ After(y) \in SUBSET S /\ After(x) \in SUBSET S
    OBVIOUS
  <2>3. <<After(y), After(x)>> \in StrictSubsetOrdering(S)
    BY <2>1, <2>2 DEF StrictSubsetOrdering
  <2> QED
    BY <1>4, <2>2, <2>3
<1> QED
  BY <1>5

(* Rows of one table: the order newest first is total.                     *)
OneTable(S) ==
    /\ IsFiniteSet(S)
    /\ \A r \in S : r.stamp \in Int /\ r.id \in Int
    /\ \A r, q \in S : r.id = q.id => r = q

LEMMA AheadIsTotal ==
  ASSUME NEW S, OneTable(S)
  PROVE  /\ \A r, q \in S : r = q \/ Ahead(r, q) \/ Ahead(q, r)
         /\ \A r, q \in S : Ahead(r, q) => ~Ahead(q, r)
         /\ \A r \in S : ~Ahead(r, r)
         /\ \A r, q, p \in S : Ahead(r, q) /\ Ahead(q, p) => Ahead(r, p)
BY DEF OneTable, Ahead

LEMMA EndsOfPage ==
  ASSUME NEW S, OneTable(S), S # {}
  PROVE  /\ \E r \in S : \A q \in S : ~Ahead(r, q)
         /\ \E r \in S : \A q \in S : ~Ahead(q, r)
<1> DEFINE R == {x \in S \X S : Ahead(x[1], x[2])}
           Q == {x \in S \X S : Ahead(x[2], x[1])}
<1>1. \A r, q \in S : (<<r, q>> \in R <=> Ahead(r, q)) /\ (<<r, q>> \in Q <=> Ahead(q, r))
  OBVIOUS
<1> HIDE DEF R, Q
<1>2. \E r \in S : \A q \in S : <<r, q>> \notin R
  <2>1. \A x \in S : <<x, x>> \notin R
    BY <1>1, AheadIsTotal
  <2>2. \A x, y, z \in S : <<x, y>> \in R /\ <<y, z>> \in R => <<x, z>> \in R
    BY <1>1, AheadIsTotal
  <2> QED
    BY <2>1, <2>2, LastOfOrder DEF OneTable
<1>3. \E r \in S : \A q \in S : <<r, q>> \notin Q
  <2>1. \A x \in S : <<x, x>> \notin Q
    BY <1>1, AheadIsTotal
  <2>2. \A x, y, z \in S : <<x, y>> \in Q /\ <<y, z>> \in Q => <<x, z>> \in Q
    BY <1>1, AheadIsTotal
  <2> QED
    BY <2>1, <2>2, LastOfOrder DEF OneTable
<1> QED
  BY <1>1, <1>2, <1>3

(* A part of a table.                                                      *)
LEMMA PartOfTable ==
  ASSUME NEW S, OneTable(S), NEW T \in SUBSET S
  PROVE  OneTable(T)
BY FS_Subset DEF OneTable

(* The newest rows are those ahead of all the others.                      *)
LEMMA NewestIsAhead ==
  ASSUME NEW S, OneTable(S), NEW n \in Nat
  PROVE  /\ Newest(S, n) \subseteq S
         /\ \A r \in Newest(S, n), q \in S \ Newest(S, n) : Ahead(r, q)
<1> DEFINE RowsAhead(r) == {q \in S : Ahead(q, r)}
<1>1. \A r \in S : r \in Newest(S, n) <=> Cardinality(RowsAhead(r)) < n
  BY DEF Newest
<1>2. Newest(S, n) \subseteq S
  BY DEF Newest
<1>3. ASSUME NEW r \in Newest(S, n), NEW q \in S \ Newest(S, n), ~Ahead(r, q)
      PROVE  FALSE
  <2>1. r \in S /\ r # q
    BY <1>2, <1>3
  <2>2. Ahead(q, r)
    BY <1>3, <2>1, AheadIsTotal
  <2>3. RowsAhead(q) \in SUBSET RowsAhead(r) /\ RowsAhead(r) \in SUBSET S
    BY <2>1, <2>2, AheadIsTotal
  <2>4. IsFiniteSet(RowsAhead(r))
    BY <2>3, FS_Subset DEF OneTable
  <2>5. Cardinality(RowsAhead(q)) <= Cardinality(RowsAhead(r))
    BY <2>3, <2>4, FS_Subset
  <2>6. Cardinality(RowsAhead(q)) \in Nat /\ Cardinality(RowsAhead(r)) \in Nat
    BY <2>3, <2>4, FS_Subset, FS_CardinalityType
  <2>7. Cardinality(RowsAhead(r)) < n /\ ~(Cardinality(RowsAhead(q)) < n)
    BY <1>1, <1>3, <2>1
  <2> HIDE DEF RowsAhead
  <2> QED
    BY <2>5, <2>6, <2>7
<1> QED
  BY <1>2, <1>3

(* A page is full unless it reaches the end.                               *)
LEMMA NewestIsFull ==
  ASSUME NEW S, OneTable(S), NEW n \in Nat
  PROVE  /\ Cardinality(Newest(S, n)) \in Nat /\ Cardinality(Newest(S, n)) <= n
         /\ Newest(S, n) # S => Cardinality(Newest(S, n)) = n
<1> DEFINE N == Newest(S, n)
           RowsAhead(r) == {q \in S : Ahead(q, r)}
<1>1. \A r \in S : r \in N <=> Cardinality(RowsAhead(r)) < n
  BY DEF Newest
<1>2. N \subseteq S /\ \A r \in N, q \in S \ N : Ahead(r, q)
  BY NewestIsAhead
<1>3. OneTable(N) /\ OneTable(S \ N) /\ IsFiniteSet(N) /\ Cardinality(N) \in Nat
  <2>1. N \in SUBSET S /\ S \ N \in SUBSET S
    BY <1>2
  <2>2. OneTable(N) /\ OneTable(S \ N)
    BY <2>1, PartOfTable
  <2>3. IsFiniteSet(N)
    BY <2>2 DEF OneTable
  <2> QED
    BY <2>2, <2>3, FS_CardinalityType
<1> HIDE DEF N
<1>4. Cardinality(N) <= n
  <2>1. CASE N = {}
    BY <2>1, FS_EmptySet
  <2>2. CASE N # {}
    <3>1. PICK r \in N : \A q \in N : ~Ahead(r, q)
      BY <1>3, <2>2, EndsOfPage
    <3>2. RowsAhead(r) = N \ {r}
      BY <1>2, <3>1, AheadIsTotal
    <3>3. Cardinality(RowsAhead(r)) = Cardinality(N) - 1
      BY <1>3, <3>2, FS_RemoveElement
    <3>4. Cardinality(RowsAhead(r)) < n
      BY <1>1, <1>2
    <3> QED
      BY <1>3, <3>3, <3>4
  <2> QED
    BY <2>1, <2>2
<1>5. ASSUME N # S PROVE Cardinality(N) = n
  <2>1. PICK r \in S \ N : \A q \in S \ N : ~Ahead(q, r)
    BY <1>2, <1>3, <1>5, EndsOfPage
  <2>2. RowsAhead(r) = N
    BY <1>2, <2>1, AheadIsTotal
  <2>3. ~(Cardinality(N) < n)
    BY <1>1, <2>1, <2>2
  <2> QED
    BY <1>3, <1>4, <2>3
<1> QED
  BY <1>3, <1>4, <1>5 DEF N

(* The next page begins where this one ended.                              *)
LEMMA CursorSplits ==
  ASSUME NEW S, OneTable(S), NEW N \in SUBSET S, N # {},
         \A r \in N, q \in S \ N : Ahead(r, q)
  PROVE  LET cursor == CursorAfter(N)
         IN  /\ \A r \in S : Precedes(r, cursor) <=> r \notin N
             /\ \E r \in N : cursor = [stamp |-> r.stamp, id |-> r.id]
<1> DEFINE last == CHOOSE r \in N : \A q \in N : ~Ahead(r, q)
<1>1. OneTable(N)
  BY PartOfTable
<1>2. last \in N /\ \A q \in N : ~Ahead(last, q)
  BY <1>1, EndsOfPage
<1>3. CursorAfter(N) = [stamp |-> last.stamp, id |-> last.id]
  BY DEF CursorAfter
<1> HIDE DEF last
<1>4. \A r \in S : Precedes(r, CursorAfter(N)) <=> Ahead(last, r)
  BY <1>2, <1>3 DEF Precedes, Ahead, OneTable
<1> QED
  BY <1>2, <1>3, <1>4

-----------------------------------------------------------------------------
(* A walk.                                                                 *)
Cursor == [stamp : 1 .. MaxStamp + 1, id : Ids \cup {0}]
WalkRow == [kind : {"list", "replay", "sweep"}, over : SUBSET Tables, todo : SUBSET Tables,
            found : SUBSET (Tables \X Ids),
            cursor : UNION {[W -> Cursor] : W \in SUBSET Tables},
            at : {"reading", "enough", "done"}]

PagingTypeOK ==
    /\ walk \in WalkRow /\ walk.cursor \in [walk.over -> Cursor] /\ walk.todo \subseteq walk.over
    /\ walk.kind = "list" => /\ walk.over = {"translation"} /\ walk.todo = walk.over
                             /\ walk.found = {}
    /\ rows \subseteq Read
    /\ \A r, q \in rows : KeyOf(r) = KeyOf(q) => r = q

(* What the walk must report it has reported, or it is on the page being   *)
(* read, or it lies ahead: one of the three.                               *)
Ahead3(r) ==
    /\ Precedes(r, walk.cursor[r.table]) <=> KeyOf(r) \notin walk.found \cup told
    /\ KeyOf(r) \notin walk.found \cap told
TableFound(s) == {k \in walk.found : k[1] = s}

OnTheWay ==
    /\ \A r \in rows : KeyOf(r) \in steady => Ahead3(r)
    /\ \A s \in walk.todo : TableFound(s) = {}
    /\ \A s \in walk.over \ walk.todo : Cardinality(TableFound(s)) # Limit =>
         \A r \in rows : KeyOf(r) \in steady /\ r.table = s => ~Precedes(r, walk.cursor[s])

PagingInv ==
    /\ PagingTypeOK
    /\ \A k \in steady : \E r \in rows : k = KeyOf(r) /\ Owed(r)
    /\ told \subseteq steady /\ WalkIsComplete
    /\ walk.at = "reading" => OnTheWay

LEMMA CursorType ==
  /\ NoCursor \in Cursor
  /\ \A r \in Rows : /\ r.stamp \in Int /\ r.id \in Int
                     /\ [stamp |-> r.stamp, id |-> r.id] \in Cursor
                     /\ KeyOf(r) \in Tables \X Ids /\ KeyOf(r)[1] = r.table
                     /\ Precedes(r, NoCursor)
  /\ \A c \in Cursor : c.stamp \in Int /\ c.id \in Int
<1>1. NoCursor \in Cursor
  BY PagingAssumption DEF NoCursor, Cursor
<1>2. \A c \in Cursor : c.stamp \in Int /\ c.id \in Int
  <2>1. 1 .. MaxStamp + 1 \subseteq Int /\ Ids \cup {0} \subseteq Int
    BY PagingAssumption
  <2> QED
    BY <2>1 DEF Cursor
<1>3. ASSUME NEW r \in Rows
      PROVE  /\ r.stamp \in Int /\ r.id \in Int /\ r.stamp \in 1 .. MaxStamp /\ r.id \in Ids
             /\ r.table \in Tables
  <2>1. 1 .. MaxStamp \subseteq Int /\ Ids \subseteq Int
    BY PagingAssumption
  <2>2. r.stamp \in 1 .. MaxStamp /\ r.id \in Ids /\ r.table \in Tables
    BY DEF Rows
  <2> QED
    BY <2>1, <2>2
<1>4. ASSUME NEW r \in Rows
      PROVE  /\ [stamp |-> r.stamp, id |-> r.id] \in Cursor
             /\ KeyOf(r) \in Tables \X Ids /\ KeyOf(r)[1] = r.table
             /\ Precedes(r, NoCursor)
  BY <1>3, PagingAssumption DEF Cursor, KeyOf, NoCursor, Precedes
<1> QED
  BY <1>1, <1>2, <1>3, <1>4

(* The rows of one table that a page is cut from.                          *)
LEMMA TablesAreFinite ==
  ASSUME rows \subseteq Rows, \A r, q \in rows : KeyOf(r) = KeyOf(q) => r = q,
         NEW s, NEW S \in SUBSET rows, \A r \in S : r.table = s
  PROVE  OneTable(S)
<1> DEFINE f == [r \in S |-> r.id]
<1>1. \A r, q \in S : r.id = q.id => r = q
  BY DEF KeyOf
<1>2. f \in Injection(S, Ids)
  BY <1>1 DEF Injection, IsInjective, Rows
<1>3. IsFiniteSet(Ids)
  BY PagingAssumption
<1> HIDE DEF f
<1>4. IsFiniteSet(S)
  BY <1>2, <1>3, FS_Injection
<1>5. \A r \in S : r.stamp \in Int /\ r.id \in Int
  BY CursorType
<1> QED
  BY <1>1, <1>4, <1>5 DEF OneTable

LEMMA KeysAreCounted ==
  ASSUME NEW S \in SUBSET rows, IsFiniteSet(S),
         \A r, q \in rows : KeyOf(r) = KeyOf(q) => r = q
  PROVE  Cardinality({KeyOf(r) : r \in S}) = Cardinality(S)
<1> DEFINE T == {KeyOf(r) : r \in S}
           f == [r \in S |-> KeyOf(r)]
<1>1. f \in Bijection(S, T)
  BY DEF Bijection, Injection, Surjection, IsInjective
<1> HIDE DEF f, T
<1>2. ExistsBijection(S, T)
  BY <1>1 DEF ExistsBijection
<1>3. Cardinality(T) = Cardinality(S)
  BY <1>2, FS_Bijection
<1> QED
  BY <1>3 DEF T

LEMMA PagingInitInv == PagingInit => PagingInv
<1> SUFFICES ASSUME PagingInit PROVE PagingInv
  OBVIOUS
<1>1. PICK w \in Walks :
        walk = [kind |-> w.kind, over |-> w.over, todo |-> w.over, found |-> {},
                cursor |-> [s \in w.over |-> NoCursor], at |-> "reading"]
  BY DEF PagingInit
<1>2. w.kind \in {"list", "replay", "sweep"} /\ w.over \in SUBSET Tables
  BY DEF Walks
<1>3. [s \in w.over |-> NoCursor] \in [w.over -> Cursor]
  BY CursorType
<1>4. /\ walk.kind = w.kind /\ walk.over = w.over /\ walk.todo = w.over /\ walk.found = {}
      /\ walk.cursor = [s \in w.over |-> NoCursor] /\ walk.at = "reading"
      /\ walk \in WalkRow
  BY <1>1, <1>2, <1>3 DEF WalkRow
<1>5. rows \subseteq Read /\ \A r, q \in rows : KeyOf(r) = KeyOf(q) => r = q
  BY DEF PagingInit
<1>6. PagingTypeOK
  BY <1>3, <1>4, <1>5 DEF PagingTypeOK, Walks
<1>7. steady = {KeyOf(r) : r \in {q \in rows : Owed(q)}} /\ told = {} /\ twice = {}
  BY DEF PagingInit
<1>8. \A k \in steady : \E r \in rows : k = KeyOf(r) /\ Owed(r)
  BY <1>7
<1>9. ASSUME NEW r \in rows PROVE Ahead3(r)
  <2>1. r \in Rows /\ r.table \in w.over
    BY <1>4, <1>5 DEF Read
  <2> QED
    BY <1>4, <1>7, <2>1, CursorType DEF Ahead3
<1>10. OnTheWay
  BY <1>4, <1>9 DEF OnTheWay, TableFound
<1> QED
  BY <1>4, <1>6, <1>7, <1>8, <1>10 DEF PagingInv, WalkIsComplete

(* A row that goes, or is owed no longer, is not missed.                   *)
LEMMA LostIsKept ==
  ASSUME PagingInv, NEW r \in rows, Lost(KeyOf(r)), rows' \subseteq Read,
         \A x, y \in rows' : KeyOf(x) = KeyOf(y) => x = y,
         \A q \in rows' : KeyOf(q) # KeyOf(r) => q \in rows,
         rows \ {r} \subseteq rows'
  PROVE  PagingInv'
<1>1. /\ steady' = steady \ {KeyOf(r)} /\ told' = told \ {KeyOf(r)}
      /\ twice' = twice \ {KeyOf(r)} /\ walk' = walk
  BY DEF Lost
<1>2. PagingTypeOK'
  BY <1>1 DEF PagingInv, PagingTypeOK, Read
<1>3. (\A k \in steady : \E q \in rows : k = KeyOf(q) /\ Owed(q))'
  BY <1>1 DEF PagingInv, Owed
<1>4. told' \subseteq steady' /\ WalkIsComplete'
  BY <1>1 DEF PagingInv, WalkIsComplete
<1>5. ASSUME walk.at = "reading" PROVE OnTheWay'
  <2>1. OnTheWay
    BY <1>5 DEF PagingInv
  <2>2. \A q \in rows' : KeyOf(q) \in steady' => q \in rows /\ KeyOf(q) \in steady
    BY <1>1
  <2>3. \A q \in rows' : KeyOf(q) \in steady' => Ahead3(q)'
    BY <1>1, <2>1, <2>2 DEF OnTheWay, Ahead3, Precedes
  <2>4. (\A s \in walk.todo : TableFound(s) = {})'
    BY <1>1, <2>1 DEF OnTheWay, TableFound
  <2>5. (\A s \in walk.over \ walk.todo : Cardinality(TableFound(s)) # Limit =>
          \A q \in rows : KeyOf(q) \in steady /\ q.table = s => ~Precedes(q, walk.cursor[s]))'
    BY <1>1, <2>1, <2>2 DEF OnTheWay, TableFound, Precedes
  <2> QED
    BY <2>3, <2>4, <2>5 DEF OnTheWay
<1> QED
  BY <1>1, <1>2, <1>3, <1>4, <1>5 DEF PagingInv

LEMMA InsertIsKept ==
  ASSUME PagingInv, NEW r \in Read, InsertRow(r)
  PROVE  PagingInv'
<1>1. /\ rows' = rows \cup {r} /\ walk' = walk /\ steady' = steady /\ told' = told
      /\ twice' = twice /\ \A q \in rows : KeyOf(q) # KeyOf(r)
  BY DEF InsertRow
<1>2. PagingTypeOK'
  BY <1>1 DEF PagingInv, PagingTypeOK, Read
<1>3. (\A k \in steady : \E q \in rows : k = KeyOf(q) /\ Owed(q))'
  BY <1>1 DEF PagingInv, Owed
<1>4. told' \subseteq steady' /\ WalkIsComplete'
  BY <1>1 DEF PagingInv, WalkIsComplete
<1>5. \A q \in rows' : KeyOf(q) \in steady => q \in rows
  BY <1>1 DEF PagingInv
<1>6. ASSUME walk.at = "reading" PROVE OnTheWay'
  <2>1. OnTheWay
    BY <1>6 DEF PagingInv
  <2> QED
    BY <1>1, <1>5, <2>1 DEF OnTheWay, Ahead3, TableFound, Precedes
<1> QED
  BY <1>1, <1>2, <1>3, <1>4, <1>6 DEF PagingInv

LEMMA BeyondIsTable ==
  ASSUME PagingInv, NEW s \in walk.over
  PROVE  /\ OneTable(RowsBeyond(s)) /\ RowsBeyond(s) \subseteq rows
         /\ IsFiniteSet(RowsBeyond(s)) /\ walk.cursor[s] \in Cursor
<1>1. /\ rows \subseteq Rows /\ \A r, q \in rows : KeyOf(r) = KeyOf(q) => r = q
      /\ walk.cursor[s] \in Cursor
  BY DEF PagingInv, PagingTypeOK, Read
<1>2. RowsBeyond(s) \in SUBSET rows /\ \A r \in RowsBeyond(s) : r.table = s
  BY DEF RowsBeyond
<1>3. OneTable(RowsBeyond(s))
  BY <1>1, <1>2, TablesAreFinite
<1> QED
  BY <1>1, <1>2, <1>3 DEF OneTable

(* The cursor moves past the page and no further.                          *)
LEMMA CursorMoves ==
  ASSUME PagingInv, NEW s \in walk.over, NEW page \in SUBSET RowsBeyond(s), page # {},
         \A r \in page, q \in RowsBeyond(s) \ page : Ahead(r, q)
  PROVE  /\ CursorAfter(page) \in Cursor
         /\ \A r \in rows : r.table = s =>
              (Precedes(r, CursorAfter(page)) <=> Precedes(r, walk.cursor[s]) /\ r \notin page)
<1> DEFINE c == CursorAfter(page)
<1>1. /\ OneTable(RowsBeyond(s)) /\ RowsBeyond(s) \subseteq rows /\ walk.cursor[s] \in Cursor
  BY BeyondIsTable
<1>2. /\ \A r \in RowsBeyond(s) : Precedes(r, c) <=> r \notin page
      /\ \E r \in page : c = [stamp |-> r.stamp, id |-> r.id]
  BY <1>1, CursorSplits
<1> HIDE DEF c
<1>3. PICK p \in page : c = [stamp |-> p.stamp, id |-> p.id]
  BY <1>2
<1>4. rows \subseteq Rows /\ p \in Rows
  BY <1>1 DEF PagingInv, PagingTypeOK, Read
<1>5. c \in Cursor
  BY <1>3, <1>4, CursorType
<1>6. \A r \in RowsBeyond(s) : r.table = s /\ Precedes(r, walk.cursor[s])
  BY DEF RowsBeyond
<1>7. ASSUME NEW r \in rows, r.table = s, ~Precedes(r, walk.cursor[s])
      PROVE  ~Precedes(r, c) /\ r \notin page
  <2>1. Precedes(p, walk.cursor[s])
    BY <1>6
  <2>2. /\ r.stamp \in Int /\ r.id \in Int /\ p.stamp \in Int /\ p.id \in Int
        /\ walk.cursor[s].stamp \in Int /\ walk.cursor[s].id \in Int
    BY <1>1, <1>4, CursorType
  <2> QED
    BY <1>3, <1>6, <1>7, <2>1, <2>2 DEF Precedes
<1>8. \A r \in rows : r.table = s /\ Precedes(r, walk.cursor[s]) => r \in RowsBeyond(s)
  BY DEF RowsBeyond
<1> QED
  BY <1>2, <1>5, <1>7, <1>8 DEF c

(* What is reported was ahead of the walk: nothing is reported twice.      *)
LEMMA TellsOnce ==
  ASSUME PagingInv, NEW keys, Tell(keys), \A k \in keys \cap steady : k \notin told
  PROVE  /\ told' = told \cup (keys \cap steady) /\ twice' = {}
BY DEF Tell, PagingInv, WalkIsComplete

LEMMA ReadListIsKept ==
  ASSUME PagingInv, ReadList
  PROVE  PagingInv'
<1>1. PICK s \in walk.over :
        LET found == Newest(RowsBeyond(s), Limit + 1)
            items == Newest(found, Limit)
        IN  /\ Tell({KeyOf(r) : r \in items})
            /\ walk' = IF Cardinality(found) > Limit
                       THEN [walk EXCEPT !.cursor[s] = CursorAfter(items)]
                       ELSE [walk EXCEPT !.at = "done"]
  BY DEF ReadList
<1> DEFINE beyond == RowsBeyond(s)
           found == Newest(beyond, Limit + 1)
           items == Newest(found, Limit)
           keys == {KeyOf(r) : r \in items}
<1>2. /\ OneTable(beyond) /\ beyond \subseteq rows /\ walk.cursor[s] \in Cursor
      /\ \A r \in rows : r \in beyond <=> r.table = s /\ Precedes(r, walk.cursor[s])
  BY BeyondIsTable DEF RowsBeyond
<1>3. Limit \in Nat /\ Limit + 1 \in Nat /\ Limit > 0
  BY PagingAssumption
<1>4. /\ walk.kind = "list" /\ walk.at = "reading" /\ rows' = rows /\ steady' = steady
      /\ walk.over = {s} /\ walk.todo = {s} /\ walk.found = {} /\ OnTheWay /\ PagingTypeOK
  BY DEF ReadList, PagingInv, PagingTypeOK
<1> HIDE DEF beyond
<1>5. /\ found \subseteq beyond /\ \A r \in found, q \in beyond \ found : Ahead(r, q)
      /\ found # beyond => Cardinality(found) = Limit + 1
  BY <1>2, <1>3, NewestIsAhead, NewestIsFull
<1>6. OneTable(found)
  BY <1>2, <1>5, PartOfTable
<1> HIDE DEF found
<1>7. /\ items \subseteq found /\ \A r \in items, q \in found \ items : Ahead(r, q)
      /\ items # found => Cardinality(items) = Limit
  BY <1>3, <1>6, NewestIsAhead, NewestIsFull
<1>8. Tell(keys) /\ walk' = IF Cardinality(found) > Limit
                            THEN [walk EXCEPT !.cursor[s] = CursorAfter(items)]
                            ELSE [walk EXCEPT !.at = "done"]
  BY <1>1 DEF found, beyond
<1> HIDE DEF items
<1>9. \A r \in rows : r.table = s
  BY <1>4 DEF PagingTypeOK, Read
<1>10. \A r \in rows : KeyOf(r) \in keys <=> r \in items
  BY <1>2, <1>4, <1>5, <1>7 DEF PagingTypeOK
<1>11. \A r \in rows : KeyOf(r) \in steady =>
                         (Precedes(r, walk.cursor[s]) <=> KeyOf(r) \notin told)
  BY <1>4, <1>9 DEF OnTheWay, Ahead3
<1>12. \A k \in steady : \E r \in rows : k = KeyOf(r) /\ Owed(r)
  BY DEF PagingInv
<1> HIDE DEF keys
<1>13. told' = told \cup (keys \cap steady) /\ twice' = {}
  <2>1. \A k \in keys \cap steady : k \notin told
    BY <1>2, <1>5, <1>7, <1>10, <1>11, <1>12
  <2> QED
    BY <1>8, <2>1, TellsOnce
<1>14. told' \subseteq steady'
  BY <1>4, <1>13 DEF PagingInv
<1>15. CASE Cardinality(found) > Limit
  <2>1. items # {}
    <3>1. CASE items = found
      BY <1>3, <1>15, <3>1, FS_EmptySet
    <3>2. CASE items # found
      BY <1>3, <1>7, <3>2, FS_EmptySet
    <3> QED
      BY <3>1, <3>2
  <2>2. \A r \in items, q \in beyond \ items : Ahead(r, q)
    BY <1>5, <1>7
  <2> DEFINE c == CursorAfter(items)
  <2>3. /\ c \in Cursor
        /\ \A r \in rows : Precedes(r, c) <=> Precedes(r, walk.cursor[s]) /\ r \notin items
    BY <1>5, <1>7, <1>9, <2>1, <2>2, CursorMoves DEF beyond
  <2> HIDE DEF c
  <2>4. walk' = [walk EXCEPT !.cursor[s] = c]
    BY <1>8, <1>15 DEF c
  <2>5. /\ walk' \in WalkRow /\ walk'.cursor[s] = c /\ walk'.cursor \in [walk.over -> Cursor]
        /\ walk'.kind = "list" /\ walk'.over = {s} /\ walk'.todo = {s} /\ walk'.found = {}
        /\ walk'.at = "reading"
    <3> DEFINE cursors == [walk.cursor EXCEPT ![s] = c]
    <3>1. cursors \in [walk.over -> Cursor] /\ cursors[s] = c
      BY <1>4, <2>3 DEF PagingTypeOK
    <3>2. walk' = [walk EXCEPT !.cursor = cursors]
      BY <2>4
    <3>3. walk \in WalkRow /\ walk.over \in SUBSET Tables
      BY <1>4 DEF PagingTypeOK, WalkRow
    <3> HIDE DEF cursors
    <3> QED
      BY <1>4, <3>1, <3>2, <3>3 DEF WalkRow
  <2>6. PagingTypeOK'
    BY <1>4, <2>5 DEF PagingTypeOK, Read
  <2>7. WalkIsComplete'
    BY <1>13, <2>5 DEF WalkIsComplete
  <2>8. (\A k \in steady : \E r \in rows : k = KeyOf(r) /\ Owed(r))'
    BY <1>4, <1>12, <2>5 DEF Owed
  <2>9. ASSUME NEW r \in rows, KeyOf(r) \in steady PROVE Ahead3(r)'
    BY <1>9, <1>10, <1>11, <1>13, <2>3, <2>5, <2>9 DEF Ahead3, Precedes
  <2>10. OnTheWay'
    BY <1>4, <2>5, <2>9 DEF OnTheWay, TableFound
  <2> QED
    BY <1>14, <2>6, <2>7, <2>8, <2>10 DEF PagingInv
<1>16. CASE ~(Cardinality(found) > Limit)
  <2>1. walk' = [walk EXCEPT !.at = "done"]
    BY <1>8, <1>16
  <2>2. /\ walk' \in WalkRow /\ walk'.cursor = walk.cursor
        /\ walk'.kind = "list" /\ walk'.over = {s} /\ walk'.todo = {s} /\ walk'.found = {}
        /\ walk'.at = "done"
    BY <1>4, <2>1 DEF WalkRow, PagingTypeOK
  <2>3. found = beyond
    BY <1>3, <1>5, <1>16
  <2>4. items = found
    <3>1. ASSUME items # found PROVE FALSE
      <4>1. IsFiniteSet(found) /\ items \in SUBSET found
        BY <1>6, <1>7 DEF OneTable
      <4>5. Cardinality(items) = Limit
        BY <1>7, <3>1
      <4>2. Cardinality(found) \in Nat
        BY <4>1, FS_CardinalityType
      <4>3. Cardinality(items) <= Cardinality(found) /\ Cardinality(items) # Cardinality(found)
        BY <3>1, <4>1, FS_Subset
      <4> QED
        BY <1>3, <1>16, <4>2, <4>3, <4>5
    <3> QED
      BY <3>1
  <2>5. \A k \in steady : k \in told'
    BY <1>2, <1>9, <1>10, <1>11, <1>12, <1>13, <2>3, <2>4
  <2>6. PagingTypeOK'
    BY <1>4, <2>2 DEF PagingTypeOK, Read
  <2>7. WalkIsComplete'
    BY <1>4, <1>13, <2>5 DEF WalkIsComplete
  <2>8. (\A k \in steady : \E r \in rows : k = KeyOf(r) /\ Owed(r))'
    BY <1>4, <1>12, <2>2 DEF Owed
  <2> QED
    BY <1>14, <2>2, <2>6, <2>7, <2>8 DEF PagingInv
<1> QED
  BY <1>15, <1>16

LEMMA ReadTableIsKept ==
  ASSUME PagingInv, NEW s \in walk.over, ReadTable(s)
  PROVE  PagingInv'
<1> DEFINE beyond == RowsBeyond(s)
           page == Newest(beyond, Limit)
           keys == {KeyOf(r) : r \in page}
           c == IF page = {} THEN walk.cursor[s] ELSE CursorAfter(page)
<1>1. /\ walk.at = "reading" /\ walk.kind # "list" /\ s \in walk.todo
      /\ rows' = rows /\ steady' = steady /\ told' = told /\ twice' = twice
      /\ PagingTypeOK /\ OnTheWay
  BY DEF ReadTable, PagingInv
<1>2. /\ OneTable(beyond) /\ beyond \subseteq rows /\ walk.cursor[s] \in Cursor
      /\ IsFiniteSet(beyond)
      /\ \A r \in rows : r \in beyond <=> r.table = s /\ Precedes(r, walk.cursor[s])
  BY BeyondIsTable DEF RowsBeyond
<1>3. Limit \in Nat
  BY PagingAssumption
<1>4. walk' = [walk EXCEPT !.todo = @ \ {s}, !.found = @ \cup keys, !.cursor[s] = c]
  BY DEF ReadTable
<1> HIDE DEF beyond
<1>5. /\ page \subseteq beyond /\ \A r \in page, q \in beyond \ page : Ahead(r, q)
      /\ page # beyond => Cardinality(page) = Limit
  BY <1>2, <1>3, NewestIsAhead, NewestIsFull
<1> HIDE DEF page
<1>6. /\ c \in Cursor
      /\ \A r \in rows : r.table = s =>
           (Precedes(r, c) <=> Precedes(r, walk.cursor[s]) /\ r \notin page)
  <2>1. CASE page = {}
    BY <1>2, <2>1
  <2>2. CASE page # {}
    BY <1>5, <2>2, CursorMoves DEF beyond
  <2> QED
    BY <2>1, <2>2
<1>7. /\ \A r \in rows : KeyOf(r) \in keys <=> r \in page
      /\ \A k \in keys : k \in Tables \X Ids /\ k[1] = s
      /\ Cardinality(keys) = Cardinality(page)
  <2>1. \A r \in page : KeyOf(r) \in Tables \X Ids /\ KeyOf(r)[1] = r.table /\ r.table = s
    BY <1>1, <1>2, <1>5, CursorType DEF PagingTypeOK, Read
  <2>2. page \in SUBSET rows /\ IsFiniteSet(page)
    BY <1>2, <1>5, FS_Subset
  <2>3. Cardinality(keys) = Cardinality(page)
    BY <1>1, <2>2, KeysAreCounted DEF PagingTypeOK
  <2>4. \A r \in rows : KeyOf(r) \in keys <=> r \in page
    BY <1>1, <2>2 DEF PagingTypeOK
  <2>5. \A k \in keys : k \in Tables \X Ids /\ k[1] = s
    BY <2>1
  <2> QED
    BY <2>3, <2>4, <2>5
<1> HIDE DEF keys, c
<1>8. /\ walk' \in WalkRow /\ walk'.kind = walk.kind /\ walk'.over = walk.over
      /\ walk'.todo = walk.todo \ {s} /\ walk'.found = walk.found \cup keys
      /\ walk'.cursor \in [walk.over -> Cursor] /\ walk'.cursor[s] = c
      /\ \A t \in walk.over \ {s} : walk'.cursor[t] = walk.cursor[t]
      /\ walk'.at = "reading"
  <2> DEFINE cursors == [walk.cursor EXCEPT ![s] = c]
  <2>1. /\ cursors \in [walk.over -> Cursor] /\ cursors[s] = c
        /\ \A t \in walk.over \ {s} : cursors[t] = walk.cursor[t]
    BY <1>1, <1>6 DEF PagingTypeOK
  <2>2. walk' = [walk EXCEPT !.todo = walk.todo \ {s}, !.found = walk.found \cup keys,
                             !.cursor = cursors]
    BY <1>4
  <2>3. walk \in WalkRow /\ walk.over \in SUBSET Tables
    BY <1>1 DEF PagingTypeOK, WalkRow
  <2>4. walk.found \cup keys \in SUBSET (Tables \X Ids)
    BY <1>7, <2>3 DEF WalkRow
  <2>5. /\ walk.todo \ {s} \in SUBSET Tables /\ walk.at = "reading"
        /\ cursors \in UNION {[W -> Cursor] : W \in SUBSET Tables}
    BY <1>1, <2>1, <2>3 DEF WalkRow
  <2> HIDE DEF cursors
  <2>6. walk' \in WalkRow
    BY <2>2, <2>3, <2>4, <2>5 DEF WalkRow
  <2> QED
    BY <2>1, <2>2, <2>3, <2>5, <2>6 DEF WalkRow
<1>9. PagingTypeOK'
  BY <1>1, <1>8 DEF PagingTypeOK, Read
<1>10. (\A k \in steady : \E r \in rows : k = KeyOf(r) /\ Owed(r))'
  BY <1>1, <1>8 DEF PagingInv, Owed
<1>11. told' \subseteq steady' /\ WalkIsComplete'
  BY <1>1, <1>8 DEF PagingInv, WalkIsComplete
<1>12. \A r \in rows : r.table \in walk.over /\ KeyOf(r)[1] = r.table
  BY <1>1, CursorType DEF PagingTypeOK, Read
<1>13. ASSUME NEW r \in rows, KeyOf(r) \in steady PROVE Ahead3(r)'
  <2>1. Ahead3(r)
    BY <1>1, <1>13 DEF OnTheWay
  <2>2. CASE r.table = s
    <3>1. KeyOf(r) \notin walk.found
      BY <1>1, <1>12, <2>2 DEF OnTheWay, TableFound
    <3>2. r \in page => Precedes(r, walk.cursor[s])
      BY <1>2, <1>5
    <3> QED
      BY <1>1, <1>6, <1>7, <1>8, <2>1, <2>2, <3>1, <3>2 DEF Ahead3, Precedes
  <2>3. CASE r.table # s
    <3>1. r \notin page
      BY <1>2, <1>5, <2>3
    <3> QED
      BY <1>1, <1>7, <1>8, <1>12, <2>1, <2>3, <3>1 DEF Ahead3, Precedes
  <2> QED
    BY <2>2, <2>3
<1>14. TableFound(s)' = keys /\ \A t \in walk.over \ {s} : TableFound(t)' = TableFound(t)
  BY <1>1, <1>7, <1>8 DEF OnTheWay, TableFound
<1>15. ASSUME NEW t \in walk.over \ walk'.todo, Cardinality(TableFound(t)') # Limit,
              NEW r \in rows, KeyOf(r) \in steady, r.table = t
       PROVE  ~Precedes(r, walk'.cursor[t])
  <2>1. CASE t = s
    <3>1. page = beyond
      BY <1>5, <1>7, <1>14, <1>15, <2>1
    <3> QED
      BY <1>2, <1>6, <1>8, <1>15, <2>1, <3>1
  <2>2. CASE t # s
    <3>1. t \in walk.over \ walk.todo /\ TableFound(t)' = TableFound(t)
      BY <1>8, <1>14, <1>15, <2>2
    <3> QED
      BY <1>1, <1>8, <1>15, <2>2, <3>1 DEF OnTheWay
  <2> QED
    BY <2>1, <2>2
<1>16. OnTheWay'
  <2>1. (\A r \in rows : KeyOf(r) \in steady => Ahead3(r))'
    BY <1>1, <1>13
  <2>2. (\A t \in walk.todo : TableFound(t) = {})'
    BY <1>1, <1>8, <1>14 DEF OnTheWay, PagingTypeOK
  <2>3. (\A t \in walk.over \ walk.todo : Cardinality(TableFound(t)) # Limit =>
          \A r \in rows : KeyOf(r) \in steady /\ r.table = t => ~Precedes(r, walk.cursor[t]))'
    BY <1>1, <1>8, <1>15 DEF Precedes
  <2> QED
    BY <2>1, <2>2, <2>3 DEF OnTheWay
<1> QED
  BY <1>9, <1>10, <1>11, <1>16 DEF PagingInv

LEMMA TellWorkIsKept ==
  ASSUME PagingInv, TellWork
  PROVE  PagingInv'
<1> DEFINE work == walk.found \ {KeyOf(r) : r \in {q \in rows : q.superseded}}
           at == IF ~HasMore THEN "done"
                 ELSE IF walk.kind = "sweep" /\ work # {} THEN "enough" ELSE "reading"
<1>1. /\ walk.kind # "list" /\ walk.at = "reading" /\ walk.todo = {}
      /\ Tell(work) /\ rows' = rows /\ steady' = steady
      /\ walk' = [walk EXCEPT !.found = {}, !.todo = walk.over, !.at = at]
      /\ PagingTypeOK /\ OnTheWay
  BY DEF TellWork, PagingInv
<1>2. \A k \in steady : \E r \in rows : k = KeyOf(r) /\ Owed(r)
  BY DEF PagingInv
<1>3. \A k \in steady : k \in work <=> k \in walk.found
  BY <1>1, <1>2 DEF Owed, PagingTypeOK
<1>4. at = "done" => ~HasMore
  OBVIOUS
<1>5. at \in {"done", "enough", "reading"}
  OBVIOUS
<1> HIDE DEF at, work
<1>6. /\ walk' \in WalkRow /\ walk'.kind = walk.kind /\ walk'.over = walk.over
      /\ walk'.todo = walk.over /\ walk'.found = {} /\ walk'.cursor = walk.cursor
      /\ walk'.at = at
  BY <1>1, <1>5 DEF WalkRow, PagingTypeOK
<1>7. told' = told \cup (work \cap steady) /\ twice' = {}
  <2>1. \A k \in work \cap steady : k \notin told
    BY <1>1, <1>2, <1>3 DEF OnTheWay, Ahead3
  <2> QED
    BY <1>1, <2>1, TellsOnce
<1>8. told' \subseteq steady'
  BY <1>1, <1>7 DEF PagingInv
<1>9. PagingTypeOK'
  BY <1>1, <1>6 DEF PagingTypeOK, Read
<1>10. (\A k \in steady : \E r \in rows : k = KeyOf(r) /\ Owed(r))'
  BY <1>1, <1>2, <1>6 DEF Owed
<1>11. ASSUME at = "done" PROVE steady' \subseteq told'
  <2> SUFFICES ASSUME NEW k \in steady PROVE k \in told'
    BY <1>1
  <2>1. PICK r \in rows : k = KeyOf(r)
    BY <1>2
  <2>2. r.table \in walk.over
    BY <1>1 DEF PagingTypeOK, Read
  <2>3. Cardinality(TableFound(r.table)) # Limit
    BY <1>4, <1>11, <2>2 DEF HasMore, TableFound
  <2>4. ~Precedes(r, walk.cursor[r.table])
    BY <1>1, <2>1, <2>2, <2>3 DEF OnTheWay
  <2>5. k \in walk.found \cup told
    BY <1>1, <2>1, <2>4 DEF OnTheWay, Ahead3
  <2> QED
    BY <1>3, <1>7, <2>5
<1>12. WalkIsComplete'
  BY <1>6, <1>7, <1>11 DEF WalkIsComplete
<1>13. ASSUME NEW r \in rows, KeyOf(r) \in steady PROVE Ahead3(r)'
  <2>1. Ahead3(r)
    BY <1>1, <1>13 DEF OnTheWay
  <2> QED
    BY <1>1, <1>3, <1>6, <1>7, <1>13, <2>1 DEF Ahead3, Precedes
<1>14. OnTheWay'
  BY <1>1, <1>6, <1>13 DEF OnTheWay, TableFound
<1> QED
  BY <1>8, <1>9, <1>10, <1>12, <1>14 DEF PagingInv

LEMMA PagingNextInv == PagingInv /\ [PagingNext]_pagingVars => PagingInv'
<1> SUFFICES ASSUME PagingInv, [PagingNext]_pagingVars
             PROVE  PagingInv'
  OBVIOUS
<1>1. ASSUME NEW r \in Read, InsertRow(r) PROVE PagingInv'
  BY <1>1, InsertIsKept
<1>2. ASSUME NEW r \in rows, RemoveRow(r) PROVE PagingInv'
  BY <1>2, LostIsKept DEF RemoveRow, PagingInv, PagingTypeOK
<1>3. ASSUME NEW r \in rows, SupersedeRow(r) PROVE PagingInv'
  <2> DEFINE older == [r EXCEPT !.superseded = TRUE]
  <2>1. r \in Rows /\ r.table \in walk.over
    BY DEF PagingInv, PagingTypeOK, Read
  <2>2. older \in Rows /\ KeyOf(older) = KeyOf(r) /\ older.table = r.table
    BY <2>1 DEF Rows, KeyOf
  <2>3. rows' = (rows \ {r}) \cup {older} /\ Lost(KeyOf(r)) /\ walk' = walk
    BY <1>3 DEF SupersedeRow, Lost
  <2> HIDE DEF older
  <2>4. rows' \subseteq Read
    BY <2>1, <2>2, <2>3 DEF PagingInv, PagingTypeOK, Read
  <2>5. \A x, y \in rows' : KeyOf(x) = KeyOf(y) => x = y
    BY <2>2, <2>3 DEF PagingInv, PagingTypeOK
  <2>6. rows \ {r} \subseteq rows' /\ \A q \in rows' : KeyOf(q) # KeyOf(r) => q \in rows
    BY <2>2, <2>3
  <2> QED
    BY <2>3, <2>4, <2>5, <2>6, LostIsKept
<1>4. ASSUME NEW s \in walk.over, ReadTable(s) PROVE PagingInv'
  BY <1>4, ReadTableIsKept
<1>5. CASE UNCHANGED pagingVars
  BY <1>5 DEF pagingVars, PagingInv, PagingTypeOK, Read, Owed, WalkIsComplete, OnTheWay, Ahead3,
              TableFound, Precedes
<1> QED
  BY <1>1, <1>2, <1>3, <1>4, <1>5, ReadListIsKept, TellWorkIsKept DEF PagingNext

(* A walk to the last page reports each row that was there, and owed, the  *)
(* whole time exactly once, whatever came and went around it: no row is    *)
(* lost between two pages or behind a page of superseded work (the lists'  *)
(* cursors in lib/cursor.ts, replayOutstandingWork in lib/ai/push-work.ts).*)
THEOREM WalkComplete == PagingSpec => []WalkIsComplete
<1>1. PagingInv => WalkIsComplete
  BY DEF PagingInv
<1> QED
  BY <1>1, PagingInitInv, PagingNextInv, PTL DEF PagingSpec

-----------------------------------------------------------------------------
SnapshotRow == [era : Nat, upd : Nat, count : Nat]
Status == [id : Nat, upd : Nat, count : Nat]
Lifecycles == {"active", "between_exhibitions"}
Answer == [status : Status, state : Lifecycles \cup {"undefined"}]

LiveTypeOK ==
    /\ snapshot \in Seq(SnapshotRow) /\ eraOf \in Nat /\ isActive \in BOOLEAN
    /\ frames \subseteq [server : Servers \cup {Offline}, status : Status,
                         state : Lifecycles \cup {"undefined"}]
    /\ poll \in [at : {"idle", "row", "answered"}, answer : Answer, data : Answer]
    /\ polled \in [status : Status, state : Lifecycles \cup {"undefined", "live"}]
    /\ latest \in Status /\ lifecycle \in Lifecycles \cup {"undefined"}
    /\ since \in Nat

(* The newest installation is the last.                                    *)
ErasInOrder == \A i \in DOMAIN snapshot : snapshot[i].era <= eraOf

(* What anyone holds of a row is what it once was.                         *)
SeenIn(shots, x) ==
    x = Nothing \/ /\ x.id \in DOMAIN shots
                   /\ x.upd <= shots[x.id].upd /\ x.count <= shots[x.id].count
Seen(x) == SeenIn(snapshot, x)
AllSeen ==
    /\ \A f \in frames : Seen(f.status) /\ (f.state = "undefined" => f.status # Nothing)
    /\ Seen(poll.answer.status) /\ Seen(poll.data.status)
    /\ Seen(polled.status) /\ Seen(latest)

(* The display is no older than the last poll, which tells the lifecycle.  *)
PollIsShown ==
    /\ poll.at = "answered" => poll.answer.state \in Lifecycles
    /\ poll.data # Undefined => poll.data.state \in Lifecycles /\ lifecycle = poll.data.state
    /\ poll.data.status # Nothing => latest # Nothing /\ IsNewerThan(latest, poll.data.status)
    /\ poll.data = [status |-> Nothing, state |-> "between_exhibitions"] => latest = Nothing

(* Nothing that is held is of an installation before since, and a console  *)
(* cannot be ahead of the server.                                          *)
SinceIn(shots, e, x) == x = Nothing \/ shots[x.id].era >= e
HeldIsSince ==
    /\ since <= FromNowOn
    /\ SinceIn(snapshot, since, poll.answer.status)
    /\ SinceIn(snapshot, since, polled.status)
    /\ SinceIn(snapshot, since, latest)

LiveInv == LiveTypeOK /\ ErasInOrder /\ AllSeen /\ PollIsShown /\ HeldIsSince

(* The order of the displays: time, then row, then progress of the row.    *)
AtLeast(a, b) ==
    \/ a.upd > b.upd
    \/ a.upd = b.upd /\ (a.id > b.id \/ (a.id = b.id /\ a.count >= b.count))

LEMMA NewerIsAtLeast ==
  /\ Nothing \in Status /\ Undefined \in Answer
  /\ \A a, b \in Status : b # Nothing => (IsNewerThan(a, b) <=> AtLeast(a, b))
  /\ \A a, b, c \in Status : AtLeast(a, b) /\ AtLeast(b, c) => AtLeast(a, c)
  /\ \A a, b \in Status : AtLeast(a, b) \/ AtLeast(b, a)
<1>1. Nothing \in Status /\ Undefined \in Answer
  BY DEF Nothing, Undefined, Status, Answer
<1>2. \A a \in Status : a.id \in Nat /\ a.upd \in Nat /\ a.count \in Nat
  BY DEF Status
<1>3. \A a, b \in Status : b # Nothing => (IsNewerThan(a, b) <=> AtLeast(a, b))
  BY <1>2 DEF IsNewerThan, IsStaleFrame, AtLeast
<1>4. /\ \A a, b, c \in Status : AtLeast(a, b) /\ AtLeast(b, c) => AtLeast(a, c)
      /\ \A a, b \in Status : AtLeast(a, b) \/ AtLeast(b, a)
  BY <1>2 DEF AtLeast
<1> QED
  BY <1>1, <1>3, <1>4

(* The newest row of the open era.                                         *)
Mine(i) == i \in DOMAIN snapshot /\ isActive /\ snapshot[i].era = eraOf
LEMMA CurrentIsNewest ==
  ASSUME LiveTypeOK
  PROVE  \/ Current = Nothing /\ \A i \in DOMAIN snapshot : ~Mine(i)
         \/ \E i \in DOMAIN snapshot :
              /\ Mine(i) /\ Current = View(i)
              /\ \A j \in DOMAIN snapshot : Mine(j) =>
                   snapshot[j].upd < snapshot[i].upd \/ (snapshot[j].upd = snapshot[i].upd /\ j <= i)
<1> DEFINE mine == {i \in DOMAIN snapshot : isActive /\ snapshot[i].era = eraOf}
           newest == {i \in mine : \A j \in mine : \/ snapshot[j].upd < snapshot[i].upd
                                                   \/ snapshot[j].upd = snapshot[i].upd /\ j <= i}
           R == {x \in mine \X mine : \/ snapshot[x[1]].upd < snapshot[x[2]].upd
                                      \/ snapshot[x[1]].upd = snapshot[x[2]].upd /\ x[1] < x[2]}
<1>1. Current = IF mine = {} THEN Nothing ELSE View(CHOOSE i \in newest : TRUE)
  BY DEF Current
<1>2. \A i \in DOMAIN snapshot : i \in mine <=> Mine(i)
  BY DEF Mine
<1>3. mine \subseteq DOMAIN snapshot /\ DOMAIN snapshot = 1 .. Len(snapshot) /\ Len(snapshot) \in Nat
  BY DEF LiveTypeOK
<1>4. \A i \in mine : i \in Int /\ snapshot[i].upd \in Int
  <2>1. \A i \in DOMAIN snapshot : i \in Int /\ snapshot[i] \in SnapshotRow
    BY DEF LiveTypeOK
  <2> QED
    BY <2>1 DEF SnapshotRow
<1>5. IsFiniteSet(mine)
  <2>1. IsFiniteSet(1 .. Len(snapshot))
    BY <1>3, FS_Interval
  <2>2. mine \in SUBSET (1 .. Len(snapshot))
    BY <1>3
  <2> QED
    BY <2>1, <2>2, FS_Subset
<1>6. \A i, j \in mine : <<i, j>> \in R <=> \/ snapshot[i].upd < snapshot[j].upd
                                            \/ snapshot[i].upd = snapshot[j].upd /\ i < j
  OBVIOUS
<1> HIDE DEF R, mine
<1>7. CASE mine = {}
  BY <1>1, <1>2, <1>7
<1>8. CASE mine # {}
  <2>1. \A x \in mine : <<x, x>> \notin R
    BY <1>4, <1>6
  <2>2. \A x, y, z \in mine : <<x, y>> \in R /\ <<y, z>> \in R => <<x, z>> \in R
    BY <1>4, <1>6
  <2>3. PICK i \in mine : \A j \in mine : <<i, j>> \notin R
    BY <1>5, <1>8, <2>1, <2>2, LastOfOrder
  <2>7. ASSUME NEW j \in mine
        PROVE  \/ snapshot[j].upd < snapshot[i].upd
               \/ snapshot[j].upd = snapshot[i].upd /\ j <= i
    <3>1. i \in Int /\ j \in Int /\ snapshot[i].upd \in Int /\ snapshot[j].upd \in Int
      BY <1>4
    <3>2. ~(\/ snapshot[i].upd < snapshot[j].upd
            \/ snapshot[i].upd = snapshot[j].upd /\ i < j)
      BY <1>6, <2>3
    <3> QED
      BY <3>1, <3>2
  <2>4. i \in newest
    BY <2>7
  <2> DEFINE k == CHOOSE n \in newest : TRUE
  <2>5. k \in newest
    BY <2>4
  <2>6. Current = View(k)
    BY <1>1, <1>8
  <2> HIDE DEF k
  <2> QED
    BY <1>2, <1>3, <2>5, <2>6
<1> QED
  BY <1>7, <1>8

LEMMA ViewIsSeen ==
  ASSUME LiveTypeOK, NEW i \in DOMAIN snapshot
  PROVE  View(i) \in Status /\ Seen(View(i)) /\ View(i) # Nothing
<1>1. i \in Nat /\ i # 0 /\ snapshot[i] \in SnapshotRow
  BY DEF LiveTypeOK
<1>2. snapshot[i].upd \in Nat /\ snapshot[i].count \in Nat
  BY <1>1 DEF SnapshotRow
<1> QED
  BY <1>1, <1>2 DEF View, Status, Seen, SeenIn, Nothing

LEMMA CurrentIsSeen == LiveTypeOK => Current \in Status /\ Seen(Current)
  BY CurrentIsNewest, ViewIsSeen, NewerIsAtLeast DEF Seen, SeenIn

(* The newest row is of the open installation, which is none before since. *)
LEMMA CurrentIsOpen == LiveInv => SinceIn(snapshot, since, Current)
<1> SUFFICES ASSUME LiveInv, Current # Nothing PROVE snapshot[Current.id].era >= since
  BY DEF SinceIn
<1>1. PICK i \in DOMAIN snapshot : Mine(i) /\ Current = View(i)
  BY CurrentIsNewest DEF LiveInv
<1>2. Current.id = i /\ isActive /\ snapshot[i].era = eraOf
  BY <1>1 DEF View, Mine
<1>3. since <= eraOf /\ since \in Nat /\ eraOf \in Nat
  BY <1>2 DEF LiveInv, LiveTypeOK, HeldIsSince, FromNowOn
<1> QED
  BY <1>2, <1>3

(* A row knows its installation.                                           *)
LEMMA EraOfSeen ==
  ASSUME LiveTypeOK, NEW x \in Status, Seen(x), x # Nothing
  PROVE  x.id \in DOMAIN snapshot /\ snapshot[x.id].era \in Nat
<1>1. x.id \in DOMAIN snapshot
  BY DEF Seen, SeenIn
<1>2. snapshot[x.id] \in SnapshotRow
  BY <1>1 DEF LiveTypeOK
<1> QED
  BY <1>1, <1>2 DEF SnapshotRow

(* No row of the open installation is ahead of the newest.                 *)
LEMMA NoneIsAhead ==
  ASSUME LiveInv, Current # Nothing, NEW x \in Status, Seen(x), x # Nothing,
         IsNewerThan(x, Current), ~(snapshot[x.id].era < eraOf)
  PROVE  x = Current
<1>1. LiveTypeOK
  BY DEF LiveInv
<1>2. PICK i \in DOMAIN snapshot :
        /\ Mine(i) /\ Current = View(i)
        /\ \A j \in DOMAIN snapshot : Mine(j) =>
             snapshot[j].upd < snapshot[i].upd \/ (snapshot[j].upd = snapshot[i].upd /\ j <= i)
  BY <1>1, CurrentIsNewest
<1>3. View(i) = [id |-> i, upd |-> snapshot[i].upd, count |-> snapshot[i].count]
  BY DEF View
<1>4. AtLeast(x, View(i)) /\ View(i) \in Status
  BY <1>1, <1>2, NewerIsAtLeast, ViewIsSeen
<1>5. /\ x.id \in DOMAIN snapshot /\ x.upd <= snapshot[x.id].upd
      /\ x.count <= snapshot[x.id].count
  BY DEF Seen, SeenIn
<1>6. \A j \in DOMAIN snapshot : j \in Nat /\ snapshot[j] \in SnapshotRow
  BY <1>1 DEF LiveTypeOK
<1>7. \A j \in DOMAIN snapshot : snapshot[j].era \in Nat /\ snapshot[j].upd \in Nat
                                 /\ snapshot[j].count \in Nat
  BY <1>6 DEF SnapshotRow
<1>8. x.id \in Nat /\ x.upd \in Nat /\ x.count \in Nat
      /\ x = [id |-> x.id, upd |-> x.upd, count |-> x.count]
  BY DEF Status
<1> DEFINE j == x.id
<1>9. Mine(j)
  <2>1. isActive /\ eraOf \in Nat
    BY <1>1, <1>2 DEF Mine, LiveTypeOK
  <2>2. snapshot[j].era <= eraOf
    BY <1>5 DEF LiveInv, ErasInOrder
  <2> QED
    BY <1>5, <1>7, <2>1, <2>2 DEF Mine
<1>10. snapshot[j].upd < snapshot[i].upd \/ (snapshot[j].upd = snapshot[i].upd /\ j <= i)
  BY <1>2, <1>5, <1>9
<1>11. j = i /\ x.upd = snapshot[i].upd /\ x.count = snapshot[i].count
  BY <1>3, <1>4, <1>5, <1>6, <1>7, <1>8, <1>10 DEF AtLeast
<1> QED
  BY <1>2, <1>3, <1>8, <1>11

LEMMA UpToDate == LiveInv => ConsoleIsUpToDate
<1> DEFINE earlier == /\ since < eraOf /\ latest # Nothing /\ snapshot[latest.id].era < eraOf
                      /\ IsNewerThan(latest, Current)
<1> SUFFICES ASSUME LiveInv, poll.data = [status |-> Current, state |-> State]
             PROVE  /\ lifecycle = State
                    /\ ~isActive => latest = Nothing
                    /\ latest = Current \/ earlier
  BY DEF ConsoleIsUpToDate
<1>1. poll.data.status = Current /\ poll.data.state = State
  OBVIOUS
<1>2. State \in Lifecycles /\ State # "undefined"
  BY DEF State, Lifecycles
<1>3. poll.data # Undefined
  BY <1>1, <1>2 DEF Undefined
<1>4. lifecycle = State
  BY <1>1, <1>3 DEF LiveInv, PollIsShown
<1>5. LiveTypeOK /\ latest \in Status /\ Seen(latest) /\ since \in Nat /\ eraOf \in Nat
  BY DEF LiveInv, LiveTypeOK, AllSeen
<1>6. ASSUME latest # Nothing, snapshot[latest.id].era < eraOf PROVE since < eraOf
  BY <1>5, <1>6, EraOfSeen DEF LiveInv, HeldIsSince, SinceIn
<1>7. ASSUME Current # Nothing PROVE latest = Current \/ earlier
  <2>1. latest # Nothing /\ IsNewerThan(latest, Current)
    BY <1>1, <1>7 DEF LiveInv, PollIsShown
  <2> QED
    BY <1>5, <1>6, <1>7, <2>1, NoneIsAhead
<1>8. ASSUME ~isActive PROVE Current = Nothing /\ latest = Nothing
  <2>1. Current = Nothing
    BY <1>8 DEF Current
  <2> QED
    BY <1>8, <2>1 DEF LiveInv, PollIsShown, State
<1>9. ASSUME isActive, Current = Nothing, latest # Nothing PROVE earlier
  <2>1. \A i \in DOMAIN snapshot : ~Mine(i)
    BY <1>5, <1>9, CurrentIsNewest, ViewIsSeen
  <2>2. latest.id \in DOMAIN snapshot /\ snapshot[latest.id].era \in Nat
    BY <1>5, <1>9, EraOfSeen
  <2>3. snapshot[latest.id].era # eraOf
    BY <1>9, <2>1, <2>2 DEF Mine
  <2>4. snapshot[latest.id].era <= eraOf
    BY <2>2 DEF LiveInv, ErasInOrder
  <2>5. IsNewerThan(latest, Current)
    BY <1>9 DEF IsNewerThan
  <2> QED
    BY <1>5, <1>6, <1>9, <2>2, <2>3, <2>4, <2>5
<1> QED
  BY <1>4, <1>7, <1>8, <1>9

-----------------------------------------------------------------------------
LEMMA LiveInitInv == LiveInit => LiveInv
<1> SUFFICES ASSUME LiveInit PROVE LiveInv
  OBVIOUS
<1>1. /\ snapshot = <<>> /\ eraOf = 1 /\ isActive = TRUE /\ frames = {}
      /\ poll = NoPoll /\ polled = Undefined /\ latest = Nothing /\ lifecycle = "undefined"
      /\ since = 1
  BY DEF LiveInit
<1>2. NoPoll \in [at : {"idle", "row", "answered"}, answer : Answer, data : Answer]
  BY NewerIsAtLeast DEF NoPoll
<1>3. Undefined \in [status : Status, state : Lifecycles \cup {"undefined", "live"}]
  BY NewerIsAtLeast DEF Undefined
<1>4. LiveTypeOK
  BY <1>1, <1>2, <1>3, NewerIsAtLeast DEF LiveTypeOK
<1>5. ErasInOrder
  BY <1>1 DEF ErasInOrder
<1>6. AllSeen
  BY <1>1 DEF AllSeen, NoPoll, Undefined, Seen, SeenIn
<1>7. PollIsShown
  BY <1>1 DEF PollIsShown, NoPoll, Undefined
<1>8. HeldIsSince
  BY <1>1 DEF HeldIsSince, SinceIn, FromNowOn, NoPoll, Undefined
<1> QED
  BY <1>4, <1>5, <1>6, <1>7, <1>8 DEF LiveInv

Frame == [server : Servers \cup {Offline}, status : Status, state : Lifecycles \cup {"undefined"}]

(* A report or a rollover: what was seen of the rows stays seen.           *)
LEMMA ServerKeeps ==
  ASSUME LiveInv, snapshot' \in Seq(SnapshotRow), eraOf' \in Nat, isActive' \in BOOLEAN,
         ErasInOrder',
         \A x \in Status : SeenIn(snapshot, x) => SeenIn(snapshot', x),
         \A i \in DOMAIN snapshot : snapshot'[i].era = snapshot[i].era,
         FromNowOn <= FromNowOn',
         NEW s \in Servers, NEW g, Broadcasting(s, g), g \in Frame,
         SeenIn(snapshot', g.status), g.state = "undefined" => g.status # Nothing,
         UNCHANGED <<poll, polled, latest, lifecycle, since>>
  PROVE  LiveInv'
<1> DEFINE h == [g EXCEPT !.server = s]
<1>1. frames' = frames \cup {h}
  BY DEF Broadcasting
<1>2. h \in Frame /\ h.status = g.status /\ h.state = g.state
  BY DEF Frame
<1> HIDE DEF h
<1>3. LiveTypeOK'
  BY <1>1, <1>2 DEF LiveInv, LiveTypeOK, Frame
<1>4. /\ \A f \in frames : f.status \in Status
      /\ poll.answer.status \in Status /\ poll.data.status \in Status
      /\ polled.status \in Status /\ latest \in Status
  BY DEF LiveInv, LiveTypeOK, Answer
<1>5. AllSeen'
  BY <1>1, <1>2, <1>4 DEF LiveInv, AllSeen, Seen
<1>6. PollIsShown'
  BY DEF LiveInv, PollIsShown
<1>7. \A x \in Status : Seen(x) /\ SinceIn(snapshot, since, x) => SinceIn(snapshot', since, x)
  BY DEF SinceIn, Seen, SeenIn
<1>8. since <= FromNowOn'
  <2>1. since \in Nat /\ FromNowOn \in Nat /\ since <= FromNowOn
    BY DEF LiveInv, LiveTypeOK, HeldIsSince, FromNowOn
  <2>2. FromNowOn' \in Nat
    <3>1. FromNowOn' \in {eraOf', eraOf' + 1}
      BY DEF FromNowOn
    <3>2. \A n \in Nat : n + 1 \in Nat
      OBVIOUS
    <3> QED
      BY <3>1, <3>2
  <2> QED
    BY <2>1, <2>2
<1>9. HeldIsSince'
  BY <1>4, <1>7, <1>8 DEF LiveInv, HeldIsSince, AllSeen
<1> QED
  BY <1>3, <1>5, <1>6, <1>9 DEF LiveInv

LEMMA FrameTypes ==
  /\ \A x \in Status : /\ StatusFrame(x) \in Frame /\ StatusFrame(x).status = x
                       /\ StatusFrame(x).state = "undefined"
  /\ \A z \in Lifecycles : /\ LifecycleFrame(z) \in Frame /\ LifecycleFrame(z).status = Nothing
                           /\ LifecycleFrame(z).state = z
  BY NewerIsAtLeast DEF Frame, StatusFrame, LifecycleFrame

LEMMA NewStatusKeeps ==
  ASSUME LiveInv, NEW s \in Servers, NEW t \in 1 .. MaxRows, NewStatus(s, t)
  PROVE  LiveInv'
<1> DEFINE n == Len(snapshot) + 1
           x == [id |-> n, upd |-> t, count |-> 1]
           row == [era |-> eraOf, upd |-> t, count |-> 1]
<1>1. /\ snapshot' = Append(snapshot, row) /\ isActive /\ eraOf' = eraOf
      /\ isActive' = isActive /\ Broadcasting(s, StatusFrame(x))
      /\ UNCHANGED <<poll, polled, latest, lifecycle, since>>
  BY DEF NewStatus
<1>2. t \in Nat /\ eraOf \in Nat /\ snapshot \in Seq(SnapshotRow) /\ isActive \in BOOLEAN
  BY LiveAssumption DEF LiveInv, LiveTypeOK
<1>3. row \in SnapshotRow /\ row.era = eraOf /\ row.upd = t /\ row.count = 1
  BY <1>2 DEF SnapshotRow
<1>4. /\ n \in Nat /\ n > 0 /\ x \in Status /\ x.id = n /\ x.upd = t /\ x.count = 1
  BY <1>2 DEF Status
<1> HIDE DEF row, x
<1>5. /\ snapshot' \in Seq(SnapshotRow) /\ DOMAIN snapshot' = DOMAIN snapshot \cup {n}
      /\ snapshot'[n] = row /\ \A i \in DOMAIN snapshot : snapshot'[i] = snapshot[i] /\ i < n
      /\ n \notin DOMAIN snapshot
  BY <1>1, <1>2, <1>3
<1> HIDE DEF n
<1>6. \A i \in DOMAIN snapshot : i \in Nat /\ snapshot[i] \in SnapshotRow
  BY <1>2
<1>7. \A i \in DOMAIN snapshot : snapshot[i].era \in Nat /\ snapshot[i].era <= eraOf
  BY <1>6 DEF SnapshotRow, LiveInv, ErasInOrder
<1>8. ErasInOrder'
  BY <1>1, <1>2, <1>3, <1>5, <1>7 DEF ErasInOrder
<1>9. \A y \in Status : SeenIn(snapshot, y) => SeenIn(snapshot', y)
  BY <1>5 DEF SeenIn
<1>10. SeenIn(snapshot', x) /\ x # Nothing
  BY <1>2, <1>3, <1>4, <1>5 DEF SeenIn, Nothing
<1>11. FromNowOn' = FromNowOn /\ FromNowOn \in Nat
  BY <1>1, <1>2 DEF FromNowOn
<1>12. FromNowOn <= FromNowOn' /\ \A i \in DOMAIN snapshot : snapshot'[i].era = snapshot[i].era
  BY <1>5, <1>11
<1> QED
  BY <1>1, <1>2, <1>4, <1>5, <1>8, <1>9, <1>10, <1>12, FrameTypes, ServerKeeps

LEMMA HeartbeatKeeps ==
  ASSUME LiveInv, NEW s \in Servers, NEW t \in 1 .. MaxRows, NEW i \in DOMAIN snapshot,
         Heartbeat(s, i, t)
  PROVE  LiveInv'
<1> DEFINE n == snapshot[i].count + 1
           x == [id |-> i, upd |-> t, count |-> n]
           row == [snapshot[i] EXCEPT !.upd = t, !.count = n]
<1>1. /\ snapshot' = [snapshot EXCEPT ![i].upd = t, ![i].count = n]
      /\ snapshot[i].era = eraOf /\ t >= snapshot[i].upd /\ eraOf' = eraOf
      /\ isActive' = isActive /\ Broadcasting(s, StatusFrame(x))
      /\ UNCHANGED <<poll, polled, latest, lifecycle, since>>
  BY DEF Heartbeat
<1>2. t \in Nat /\ eraOf \in Nat /\ snapshot \in Seq(SnapshotRow) /\ isActive \in BOOLEAN
  BY LiveAssumption DEF LiveInv, LiveTypeOK
<1>3. \A j \in DOMAIN snapshot : j \in Nat /\ j > 0 /\ snapshot[j] \in SnapshotRow
  BY <1>2
<1>4. \A j \in DOMAIN snapshot : /\ snapshot[j].era \in Nat /\ snapshot[j].upd \in Nat
                                 /\ snapshot[j].count \in Nat
  BY <1>3 DEF SnapshotRow
<1>5. /\ n \in Nat /\ n > snapshot[i].count /\ row \in SnapshotRow
      /\ row.era = eraOf /\ row.upd = t /\ row.count = n
      /\ x \in Status /\ x.id = i /\ x.upd = t /\ x.count = n
  <2>1. n \in Nat /\ n > snapshot[i].count
    BY <1>4
  <2>2. snapshot[i] \in SnapshotRow
    BY <1>3
  <2> HIDE DEF n
  <2>3. row \in SnapshotRow /\ row.era = eraOf /\ row.upd = t /\ row.count = n
    BY <1>1, <1>2, <2>1, <2>2 DEF SnapshotRow
  <2>4. x \in Status /\ x.id = i /\ x.upd = t /\ x.count = n
    BY <1>2, <1>3, <2>1 DEF Status
  <2> QED
    BY <2>1, <2>3, <2>4
<1>6. snapshot' = [snapshot EXCEPT ![i] = row]
  BY <1>1, <1>2
<1> HIDE DEF row, x, n
<1>7. /\ snapshot' \in Seq(SnapshotRow) /\ DOMAIN snapshot' = DOMAIN snapshot
      /\ snapshot'[i] = row /\ \A j \in DOMAIN snapshot \ {i} : snapshot'[j] = snapshot[j]
  BY <1>2, <1>5, <1>6
<1>8. ErasInOrder' /\ \A j \in DOMAIN snapshot : snapshot'[j].era = snapshot[j].era
  BY <1>1, <1>5, <1>7 DEF LiveInv, ErasInOrder
<1>9. \A y \in Status : SeenIn(snapshot, y) => SeenIn(snapshot', y)
  <2> SUFFICES ASSUME NEW y \in Status, SeenIn(snapshot, y), y # Nothing, y.id = i
               PROVE  y.upd <= snapshot'[i].upd /\ y.count <= snapshot'[i].count
    BY <1>7 DEF SeenIn
  <2>1. y.upd \in Nat /\ y.count \in Nat /\ y.upd <= snapshot[i].upd /\ y.count <= snapshot[i].count
    BY DEF Status, SeenIn
  <2> QED
    BY <1>1, <1>2, <1>4, <1>5, <1>7, <2>1
<1>10. SeenIn(snapshot', x) /\ x # Nothing
  BY <1>2, <1>3, <1>5, <1>7 DEF SeenIn, Nothing
<1>11. eraOf' \in Nat /\ isActive' \in BOOLEAN
  BY <1>1, <1>2
<1>12. Broadcasting(s, StatusFrame(x)) /\ UNCHANGED <<poll, polled, latest, lifecycle, since>>
  BY <1>1
<1>13. /\ StatusFrame(x) \in Frame /\ SeenIn(snapshot', StatusFrame(x).status)
       /\ StatusFrame(x).status # Nothing
  BY <1>5, <1>10, FrameTypes
<1>14. FromNowOn <= FromNowOn'
  <2>1. FromNowOn' = FromNowOn /\ FromNowOn \in Nat
    BY <1>1, <1>2 DEF FromNowOn
  <2> QED
    BY <2>1
<1> QED
  BY <1>7, <1>8, <1>9, <1>11, <1>12, <1>13, <1>14, ServerKeeps

LEMMA RolloverKeeps ==
  ASSUME LiveInv, NEW s \in Servers, EndInstallation(s) \/ StartInstallation(s)
  PROVE  LiveInv'
<1>1. PICK z \in Lifecycles : Broadcasting(s, LifecycleFrame(z))
  BY DEF EndInstallation, StartInstallation, Lifecycles
<1>2. /\ snapshot' = snapshot /\ isActive' \in BOOLEAN /\ eraOf' \in {eraOf, eraOf + 1}
      /\ UNCHANGED <<poll, polled, latest, lifecycle, since>>
  BY DEF EndInstallation, StartInstallation
<1>3. snapshot \in Seq(SnapshotRow) /\ eraOf \in Nat
  BY DEF LiveInv, LiveTypeOK
<1>4. \A j \in DOMAIN snapshot : snapshot[j].era \in Nat
  <2>1. \A j \in DOMAIN snapshot : snapshot[j] \in SnapshotRow
    BY <1>3
  <2> QED
    BY <2>1 DEF SnapshotRow
<1>5. ErasInOrder'
  BY <1>2, <1>3, <1>4 DEF LiveInv, ErasInOrder
<1>6. z # "undefined" /\ SeenIn(snapshot', Nothing)
  BY DEF Lifecycles, SeenIn
<1>7. FromNowOn <= FromNowOn'
  BY <1>3 DEF EndInstallation, StartInstallation, FromNowOn
<1>8. \A i \in DOMAIN snapshot : snapshot'[i].era = snapshot[i].era
  BY <1>2
<1> QED
  BY <1>1, <1>2, <1>3, <1>5, <1>6, <1>7, <1>8, FrameTypes, ServerKeeps

(* What the display takes over is at least as new as what it showed.       *)
LEMMA DisplayMovesOn ==
  ASSUME latest \in Status, Seen(latest), NEW x \in Status, Seen(x), Display(x)
  PROVE  /\ latest' \in Status /\ SeenIn(snapshot, latest')
         /\ x = Nothing => latest' = Nothing
         /\ x # Nothing => latest' # Nothing /\ IsNewerThan(latest', x)
         /\ x # Nothing => latest = Nothing \/ IsNewerThan(latest', latest)
         /\ latest' \in {Nothing, x, latest}
<1>1. CASE x = Nothing
  BY <1>1 DEF Display, Seen
<1>2. CASE x # Nothing
  <2>1. latest' = IF IsNewerThan(x, latest) THEN x ELSE latest
    BY <1>2 DEF Display
  <2>2. latest = Nothing => IsNewerThan(x, latest)
    BY DEF IsNewerThan
  <2> QED
    BY <1>2, <2>1, <2>2, NewerIsAtLeast DEF Seen
<1> QED
  BY <1>1, <1>2

ConsoleTypeOK ==
    /\ frames \subseteq Frame
    /\ poll \in [at : {"idle", "row", "answered"}, answer : Answer, data : Answer]
    /\ polled \in [status : Status, state : Lifecycles \cup {"undefined", "live"}]
    /\ latest \in Status /\ lifecycle \in Lifecycles \cup {"undefined"}

(* The rows stay as they are: what is held of them is still what was seen. *)
LEMMA ConsoleKeeps ==
  ASSUME LiveInv, UNCHANGED <<snapshot, eraOf, isActive>>, ConsoleTypeOK', PollIsShown',
         frames' \subseteq frames,
         SeenIn(snapshot, poll'.answer.status), SeenIn(snapshot, poll'.data.status),
         SeenIn(snapshot, polled'.status), SeenIn(snapshot, latest'),
         since' \in Nat, HeldIsSince'
  PROVE  LiveInv'
<1>1. LiveTypeOK'
  BY DEF LiveInv, LiveTypeOK, ConsoleTypeOK, Frame
<1>2. ErasInOrder'
  BY DEF LiveInv, ErasInOrder
<1>3. AllSeen'
  BY DEF LiveInv, AllSeen, Seen
<1> QED
  BY <1>1, <1>2, <1>3 DEF LiveInv

LEMMA PollFields ==
  ASSUME LiveInv
  PROVE  /\ ConsoleTypeOK
         /\ poll.at \in {"idle", "row", "answered"} /\ poll.answer \in Answer /\ poll.data \in Answer
         /\ poll.answer.status \in Status /\ poll.data.status \in Status
         /\ poll.answer.state \in Lifecycles \cup {"undefined"}
         /\ polled.status \in Status /\ latest \in Status
         /\ Seen(poll.answer.status) /\ Seen(poll.data.status) /\ Seen(polled.status)
         /\ Seen(latest)
         /\ since \in Nat /\ HeldIsSince
  BY DEF LiveInv, LiveTypeOK, ConsoleTypeOK, AllSeen, Answer, Frame

LEMMA HearStatusKeeps ==
  ASSUME LiveInv, NEW f \in frames, HearStatus(f)
  PROVE  LiveInv'
<1>1. /\ frames' = frames \ {f} /\ f.state = "undefined"
      /\ UNCHANGED <<snapshot, eraOf, isActive, link, poll, lifecycle>>
      /\ since' \in {since, snapshot[f.status.id].era}
  BY DEF HearStatus
<1>2. f.status \in Status /\ Seen(f.status) /\ f.status # Nothing
  BY <1>1 DEF LiveInv, LiveTypeOK, AllSeen
<1> DEFINE e == snapshot[f.status.id].era
           older == e < since
<1>0. /\ e \in Nat /\ since \in Nat /\ FromNowOn \in Nat /\ FromNowOn' = FromNowOn
      /\ since <= FromNowOn
  BY <1>1, <1>2, PollFields, EraOfSeen DEF LiveInv, LiveTypeOK, HeldIsSince, FromNowOn
<1>5. since' \in Nat /\ since' <= since
  BY <1>0 DEF HearStatus
<1>6. \A x \in Status : Seen(x) /\ SinceIn(snapshot, since, x) => SinceIn(snapshot, since', x)
  <2> SUFFICES ASSUME NEW x \in Status, Seen(x), SinceIn(snapshot, since, x), x # Nothing
               PROVE  snapshot[x.id].era >= since'
    BY DEF SinceIn
  <2>1. snapshot[x.id].era \in Nat /\ snapshot[x.id].era >= since
    BY EraOfSeen DEF SinceIn, LiveInv
  <2> QED
    BY <1>0, <1>5, <2>1
<1>7. ASSUME ~UNCHANGED <<polled, latest>> PROVE SinceIn(snapshot, since', f.status)
  <2>1. since' = IF e >= since THEN since ELSE e
    BY <1>7 DEF HearStatus
  <2> QED
    BY <1>0, <2>1 DEF SinceIn
<1>8. \A x \in Status : SinceIn(snapshot, since', x) => SinceIn(snapshot', since', x)
  BY <1>1
<1>9. since' <= FromNowOn'
  BY <1>0, <1>5
<1> HIDE DEF e, older
<1>3. CASE UNCHANGED <<polled, latest>>
  <2>1. ConsoleTypeOK' /\ PollIsShown'
    BY <1>1, <1>3, PollFields DEF ConsoleTypeOK, LiveInv, PollIsShown
  <2>2. HeldIsSince'
    BY <1>1, <1>3, <1>6, <1>8, <1>9, PollFields DEF HeldIsSince
  <2> QED
    BY <1>1, <1>3, <1>5, <2>1, <2>2, PollFields, ConsoleKeeps DEF Seen
<1>4. CASE ~UNCHANGED <<polled, latest>>
  <2>1. /\ lifecycle # "between_exhibitions" /\ Display(f.status)
        /\ polled' = [status |-> f.status,
                      state |-> IF polled.state = "undefined" THEN "live" ELSE polled.state]
    BY <1>4 DEF HearStatus
  <2>2. /\ latest' \in Status /\ SeenIn(snapshot, latest') /\ latest' # Nothing
        /\ latest = Nothing \/ IsNewerThan(latest', latest)
        /\ latest' \in {Nothing, f.status, latest}
    BY <1>2, <2>1, PollFields, DisplayMovesOn
  <2>3. ConsoleTypeOK'
    BY <1>1, <1>2, <2>1, <2>2, PollFields DEF ConsoleTypeOK
  <2>4. poll.data # [status |-> Nothing, state |-> "between_exhibitions"]
    BY <2>1 DEF LiveInv, PollIsShown, Undefined
  <2>5. poll.data.status # Nothing => IsNewerThan(latest', poll.data.status)
    BY <2>2, PollFields, NewerIsAtLeast DEF LiveInv, PollIsShown
  <2>6. PollIsShown'
    BY <1>1, <2>2, <2>4, <2>5 DEF LiveInv, PollIsShown
  <2>7. SeenIn(snapshot, polled'.status)
    BY <1>2, <2>1 DEF Seen
  <2>8. SinceIn(snapshot, since', f.status)
    BY <1>4, <1>7
  <2>9. HeldIsSince'
    BY <1>1, <1>2, <1>6, <1>8, <1>9, <2>1, <2>2, <2>8, PollFields DEF HeldIsSince, SinceIn
  <2> QED
    BY <1>1, <1>5, <2>2, <2>3, <2>6, <2>7, <2>9, PollFields, ConsoleKeeps DEF Seen
<1> QED
  BY <1>3, <1>4

LEMMA HearLifecycleKeeps ==
  ASSUME LiveInv, NEW f \in frames, HearLifecycle(f)
  PROVE  LiveInv'
<1>1. /\ frames' = frames \ {f} /\ f.state # "undefined" /\ lifecycle' = f.state
      /\ latest' = Nothing /\ polled' = Undefined /\ poll' = NoPoll
      /\ UNCHANGED <<snapshot, eraOf, isActive>> /\ since' = FromNowOn
  BY DEF HearLifecycle
<1>2. f.state \in Lifecycles \cup {"undefined"}
  BY DEF LiveInv, LiveTypeOK
<1>3. ConsoleTypeOK'
  BY <1>1, <1>2, PollFields, NewerIsAtLeast DEF ConsoleTypeOK, NoPoll, Undefined
<1>4. PollIsShown'
  BY <1>1 DEF PollIsShown, NoPoll, Undefined
<1>5. /\ SeenIn(snapshot, poll'.answer.status) /\ SeenIn(snapshot, poll'.data.status)
      /\ SeenIn(snapshot, polled'.status) /\ SeenIn(snapshot, latest')
  BY <1>1 DEF NoPoll, Undefined, SeenIn
<1>6. frames' \subseteq frames
  BY <1>1
<1>7. since' \in Nat /\ since' <= FromNowOn'
  BY <1>1 DEF LiveInv, LiveTypeOK, FromNowOn
<1>8. HeldIsSince'
  BY <1>1, <1>7 DEF HeldIsSince, SinceIn, NoPoll, Undefined
<1> QED
  BY <1>1, <1>3, <1>4, <1>5, <1>6, <1>7, <1>8, ConsoleKeeps

(* The two reads of a poll, and one that fails.                            *)
LEMMA PollKeeps ==
  ASSUME LiveInv, NEW p, poll' = p, p.data = poll.data,
         p \in [at : {"idle", "row", "answered"}, answer : Answer, data : Answer],
         p.at = "answered" => p.answer.state \in Lifecycles, Seen(p.answer.status),
         SinceIn(snapshot, since, p.answer.status),
         UNCHANGED <<snapshot, eraOf, isActive, frames, polled, latest, lifecycle, since>>
  PROVE  LiveInv'
<1>1. ConsoleTypeOK'
  BY PollFields DEF ConsoleTypeOK
<1>2. PollIsShown'
  BY DEF LiveInv, PollIsShown
<1>3. frames' \subseteq frames
  OBVIOUS
<1>4. /\ SeenIn(snapshot, poll'.answer.status) /\ SeenIn(snapshot, poll'.data.status)
      /\ SeenIn(snapshot, polled'.status) /\ SeenIn(snapshot, latest')
  BY PollFields DEF Seen
<1>5. HeldIsSince' /\ since' \in Nat
  BY PollFields DEF HeldIsSince, FromNowOn
<1> QED
  BY <1>1, <1>2, <1>3, <1>4, <1>5, ConsoleKeeps

LEMMA PollAnswerKeeps ==
  ASSUME LiveInv, PollAnswer
  PROVE  LiveInv'
<1> DEFINE answer == poll.answer
           x == Reconciled(answer)
<1>1. /\ poll.at = "answered" /\ answer.state \in Lifecycles
      /\ poll' = [NoPoll EXCEPT !.data = answer]
      /\ UNCHANGED <<snapshot, eraOf, isActive, frames, link>>
      /\ answer \in Answer /\ answer.status \in Status /\ Seen(answer.status)
  BY PollFields DEF PollAnswer, LiveInv, PollIsShown
<1>2. IF answer = poll.data THEN UNCHANGED <<polled, latest, lifecycle, since>>
      ELSE /\ polled' = x /\ lifecycle' = answer.state /\ Display(x.status)
           /\ since' = IF answer = Closed THEN FromNowOn ELSE since
  BY DEF PollAnswer
<1>3. /\ x \in Answer /\ x.state = answer.state /\ x.status \in Status /\ Seen(x.status)
      /\ answer.status # Nothing => x.status # Nothing /\ IsNewerThan(x.status, answer.status)
      /\ answer = [status |-> Nothing, state |-> "between_exhibitions"] => x.status = Nothing
      /\ x.status \in {answer.status, polled.status}
  <2>1. x = answer \/ x = [answer EXCEPT !.status = polled.status]
    BY DEF Reconciled
  <2>2. CASE x = answer
    BY <1>1, <2>2, NewerIsAtLeast DEF Answer
  <2>3. CASE x # answer
    <3>1. /\ x = [answer EXCEPT !.status = polled.status] /\ polled.status # Nothing
          /\ answer.status # Nothing \/ answer.state = "active"
          /\ answer.status = Nothing \/ ~IsNewerThan(answer.status, polled.status)
      BY <2>3 DEF Reconciled
    <3>2. x \in Answer /\ x.status = polled.status /\ x.state = answer.state
      BY <1>1, <3>1, PollFields DEF Answer
    <3>3. answer.status # Nothing => IsNewerThan(polled.status, answer.status)
      BY <1>1, <3>1, PollFields, NewerIsAtLeast
    <3> QED
      BY <3>1, <3>2, <3>3, PollFields
  <2> QED
    BY <2>2, <2>3
<1>4. /\ poll' \in [at : {"idle", "row", "answered"}, answer : Answer, data : Answer]
      /\ poll'.at = "idle" /\ poll'.data = answer /\ poll'.answer = Undefined
  BY <1>1, NewerIsAtLeast DEF NoPoll
<1>5. SeenIn(snapshot, poll'.answer.status) /\ SeenIn(snapshot, poll'.data.status)
  BY <1>1, <1>4 DEF Undefined, Seen, SeenIn
<1> HIDE DEF answer, x
<1>6. CASE answer = poll.data
  <2>1. UNCHANGED <<polled, latest, lifecycle, since>>
    BY <1>2, <1>6
  <2>2. ConsoleTypeOK'
    BY <1>1, <1>4, <2>1, PollFields DEF ConsoleTypeOK
  <2>3. PollIsShown'
    BY <1>4, <1>6, <2>1 DEF LiveInv, PollIsShown
  <2>4. HeldIsSince' /\ since' \in Nat
    BY <1>1, <1>4, <2>1, PollFields DEF HeldIsSince, SinceIn, Undefined, FromNowOn
  <2> QED
    BY <1>1, <1>5, <2>1, <2>2, <2>3, <2>4, PollFields, ConsoleKeeps DEF Seen
<1>7. CASE answer # poll.data
  <2>1. /\ polled' = x /\ lifecycle' = answer.state /\ Display(x.status)
        /\ since' = IF answer = Closed THEN FromNowOn ELSE since
    BY <1>2, <1>7
  <2>2. /\ latest' \in Status /\ SeenIn(snapshot, latest')
        /\ x.status = Nothing => latest' = Nothing
        /\ x.status # Nothing => latest' # Nothing /\ IsNewerThan(latest', x.status)
        /\ latest' \in {Nothing, x.status, latest}
    BY <1>3, <2>1, PollFields, DisplayMovesOn
  <2>3. ConsoleTypeOK'
    BY <1>1, <1>3, <1>4, <2>1, <2>2, PollFields DEF ConsoleTypeOK, Answer
  <2>4. answer.status # Nothing => latest' # Nothing /\ IsNewerThan(latest', answer.status)
    BY <1>1, <1>3, <2>2, NewerIsAtLeast
  <2>5. PollIsShown'
    BY <1>1, <1>3, <1>4, <2>1, <2>2, <2>4 DEF PollIsShown
  <2>6. SeenIn(snapshot, polled'.status)
    BY <1>3, <2>1 DEF Seen
  <2>7. since' \in Nat /\ since' <= FromNowOn' /\ FromNowOn' = FromNowOn
    BY <1>1, <2>1, PollFields DEF LiveInv, LiveTypeOK, HeldIsSince, FromNowOn
  <2>8. HeldIsSince'
    <3>1. CASE answer = Closed
      BY <1>3, <1>4, <2>1, <2>2, <2>7, <3>1 DEF HeldIsSince, SinceIn, Closed, Undefined
    <3>2. CASE answer # Closed
      <4>1. SinceIn(snapshot, since, x.status) /\ SinceIn(snapshot, since, latest)
        BY <1>3, PollFields DEF HeldIsSince, answer
      <4>2. SinceIn(snapshot, since, latest')
        BY <2>2, <4>1 DEF SinceIn
      <4> QED
        BY <1>1, <1>4, <2>1, <2>7, <3>2, <4>1, <4>2 DEF HeldIsSince, SinceIn, Undefined
    <3> QED
      BY <3>1, <3>2
  <2> QED
    BY <1>1, <1>5, <2>2, <2>3, <2>5, <2>6, <2>7, <2>8, ConsoleKeeps
<1> QED
  BY <1>6, <1>7

LEMMA LiveNextInv == LiveInv /\ [LiveNext]_liveVars => LiveInv'
<1> SUFFICES ASSUME LiveInv, [LiveNext]_liveVars
             PROVE  LiveInv'
  OBVIOUS
<1> DEFINE Polls == [at : {"idle", "row", "answered"}, answer : Answer, data : Answer]
<1>1. poll \in Polls /\ NoPoll \in Polls /\ Undefined \in Answer /\ LiveTypeOK
  BY PollFields, NewerIsAtLeast DEF ConsoleTypeOK, NoPoll, LiveInv
<1>2. ASSUME NEW s, Connect(s) PROVE LiveInv'
  <2>1. poll' = poll /\ UNCHANGED <<snapshot, eraOf, isActive, frames, polled, latest, lifecycle, since>>
    BY <1>2 DEF Connect
  <2>2. poll.at = "answered" => poll.answer.state \in Lifecycles
    BY DEF LiveInv, PollIsShown
  <2>3. SinceIn(snapshot, since, poll.answer.status)
    BY PollFields DEF HeldIsSince
  <2> QED
    BY <1>1, <2>1, <2>2, <2>3, PollFields, PollKeeps
<1>3. ASSUME NEW f \in frames, Unheard(f) PROVE LiveInv'
  <2>1. ConsoleTypeOK' /\ PollIsShown'
    BY <1>3, PollFields DEF Unheard, ConsoleTypeOK, LiveInv, PollIsShown
  <2>2. HeldIsSince' /\ since' \in Nat
    BY <1>3, PollFields DEF Unheard, HeldIsSince, FromNowOn
  <2> QED
    BY <1>3, <2>1, <2>2, PollFields, ConsoleKeeps DEF Unheard, Seen
<1>4. CASE PollRow
  <2> DEFINE a == [status |-> Current, state |-> "undefined"]
             p == [poll EXCEPT !.at = "row", !.answer = a]
  <2>1. a \in Answer /\ a.status = Current /\ Seen(Current)
    BY <1>1, CurrentIsSeen DEF Answer
  <2> HIDE DEF a
  <2>2. p \in Polls /\ p.at = "row" /\ p.answer = a /\ p.data = poll.data
    BY <1>1, <2>1
  <2>3. poll' = p /\ UNCHANGED <<snapshot, eraOf, isActive, frames, polled, latest, lifecycle, since>>
    BY <1>4 DEF PollRow, a
  <2> HIDE DEF p
  <2>4. SinceIn(snapshot, since, Current)
    BY CurrentIsOpen
  <2> QED
    BY <2>1, <2>2, <2>3, <2>4, PollKeeps
<1>5. CASE PollState
  <2> DEFINE a == [poll.answer EXCEPT !.state = State]
             p == [poll EXCEPT !.at = "answered", !.answer = a]
  <2>1. /\ a \in Answer /\ a.status = poll.answer.status /\ a.state \in Lifecycles
        /\ Seen(a.status) /\ SinceIn(snapshot, since, a.status)
    BY <1>1, PollFields DEF Answer, State, Lifecycles, HeldIsSince
  <2>2. poll' = p /\ UNCHANGED <<snapshot, eraOf, isActive, frames, polled, latest, lifecycle, since>>
    BY <1>1, <1>5 DEF PollState
  <2> HIDE DEF a
  <2>3. p \in Polls /\ p.at = "answered" /\ p.answer = a /\ p.data = poll.data
    BY <1>1, <2>1
  <2> HIDE DEF p
  <2> QED
    BY <2>1, <2>2, <2>3, PollKeeps
<1>6. CASE PollFails
  <2> DEFINE p == [NoPoll EXCEPT !.data = poll.data]
  <2>1. p \in Polls /\ p.at = "idle" /\ p.answer = Undefined /\ p.data = poll.data
    BY <1>1 DEF NoPoll
  <2>2. poll' = p /\ UNCHANGED <<snapshot, eraOf, isActive, frames, polled, latest, lifecycle, since>>
    BY <1>6 DEF PollFails
  <2>3. Seen(Undefined.status) /\ SinceIn(snapshot, since, Undefined.status)
    BY DEF Undefined, Seen, SeenIn, SinceIn
  <2> HIDE DEF p
  <2> QED
    BY <2>1, <2>2, <2>3, PollKeeps
<1>7. CASE UNCHANGED liveVars
  <2>1. ConsoleTypeOK' /\ PollIsShown'
    BY <1>7, PollFields DEF liveVars, ConsoleTypeOK, LiveInv, PollIsShown
  <2>2. HeldIsSince' /\ since' \in Nat
    BY <1>7, PollFields DEF liveVars, HeldIsSince, FromNowOn
  <2> QED
    BY <1>7, <2>1, <2>2, PollFields, ConsoleKeeps DEF liveVars, Seen
<1> QED
  BY <1>2, <1>3, <1>4, <1>5, <1>6, <1>7, NewStatusKeeps, HeartbeatKeeps, RolloverKeeps,
     HearStatusKeeps, HearLifecycleKeeps, PollAnswerKeeps DEF LiveNext

(* A console whose last poll answered what the server would answer now     *)
(* knows the lifecycle and displays exactly that, whatever it missed on    *)
(* another replica and in whatever order frames, poll and lifecycle        *)
(* reached it, but for a report of an earlier installation of whose end it *)
(* was not told, or which came late, dated no earlier than the newest      *)
(* (web/src/lib/booth-websocket.tsx, BoothEnvelopeBridge).                 *)
THEOREM ConsoleCatchesUp == LiveSpec => []ConsoleIsUpToDate
  BY UpToDate, LiveInitInv, LiveNextInv, PTL DEF LiveSpec

-----------------------------------------------------------------------------
(* The feed of a mounted console is neither stranded nor doubled, proved   *)
(* for any number of sockets.  FeedIsSound alone is not inductive: a close *)
(* event is ignored unless its socket belongs to the mounted instance, so  *)
(* that the held one does has to be part of the invariant.                 *)

SocketTypeOK ==
    /\ client \in [Sockets -> {"closed", "connecting", "open", "closing"}]
    /\ server \in [Sockets -> {"closed", "authorizing", "lost", "subscribed"}]
    /\ owner \in [Sockets -> {"old", "mounted"}]
    /\ held \in Sockets \cup {NoSocket}
    /\ retry \in BOOLEAN /\ mounted \in BOOLEAN /\ stopping \in BOOLEAN

(* The socket the provider holds is its own, not one of an instance that   *)
(* was unmounted.                                                          *)
HeldIsOwn == held \in Sockets => owner[held] = "mounted"

SocketInv == SocketTypeOK /\ HeldIsOwn /\ FeedIsSound

-----------------------------------------------------------------------------
LEMMA SocketInitInv == SocketInit => SocketInv
  BY SocketAssumption DEF SocketInit, SocketInv, SocketTypeOK, HeldIsOwn, FeedIsSound

(* Connecting: the provider holds no socket, so none is connecting or      *)
(* open; it holds the new one or arms the timer.                           *)
LEMMA ConnectInv ==
  ASSUME SocketInv, mounted' = TRUE, ~mounted \/ retry, ConnectSocket,
         UNCHANGED <<server, stopping>>
  PROVE  SocketInv'
<1>1. held = NoSocket /\ \A s \in Sockets : client[s] \notin {"connecting", "open"}
  BY SocketAssumption DEF SocketInv, SocketTypeOK, FeedIsSound
<1>2. CASE \E s \in Sockets :
             /\ client' = [client EXCEPT ![s] = "connecting"]
             /\ owner' = [owner EXCEPT ![s] = "mounted"]
             /\ held' = s /\ retry' = FALSE /\ feed' = "connecting"
  <2>1. PICK s \in Sockets :
          /\ client' = [client EXCEPT ![s] = "connecting"]
          /\ owner' = [owner EXCEPT ![s] = "mounted"]
          /\ held' = s /\ retry' = FALSE /\ feed' = "connecting"
    BY <1>2
  <2> QED
    BY <1>1, <2>1 DEF SocketInv, SocketTypeOK, HeldIsOwn, FeedIsSound
<1>3. CASE retry' = TRUE /\ feed' = "polling" /\ UNCHANGED <<client, owner, held>>
  BY <1>1, <1>3, SocketAssumption DEF SocketInv, SocketTypeOK, HeldIsOwn, FeedIsSound
<1> QED
  BY <1>2, <1>3 DEF ConnectSocket

LEMMA UnmountInv ==
  ASSUME SocketInv, Unmount
  PROVE  SocketInv'
  BY SocketAssumption DEF Unmount, SocketInv, SocketTypeOK, HeldIsOwn, FeedIsSound

LEMMA OpenInv ==
  ASSUME SocketInv, NEW s \in Sockets, Open(s)
  PROVE  SocketInv'
  BY SocketAssumption DEF Open, SocketInv, SocketTypeOK, HeldIsOwn, FeedIsSound

LEMMA CloseEventInv ==
  ASSUME SocketInv, NEW s \in Sockets, CloseEvent(s)
  PROVE  SocketInv'
<1>1. CASE held = s
  <2>1. Retires(s) /\ mounted
    BY <1>1, SocketAssumption DEF Retires, SocketInv, SocketTypeOK, HeldIsOwn, FeedIsSound
  <2> QED
    BY <1>1, <2>1, SocketAssumption
    DEF CloseEvent, SocketInv, SocketTypeOK, HeldIsOwn, FeedIsSound
<1>2. CASE held # s
  <2>1. ~Retires(s)
    BY <1>2 DEF Retires
  <2> QED
    BY <1>2, <2>1 DEF CloseEvent, SocketInv, SocketTypeOK, HeldIsOwn, FeedIsSound
<1> QED
  BY <1>1, <1>2

(* The server's side, and errors: sockets that are connecting or open may  *)
(* begin to close, and nobody is subscribed while the server is closing.   *)
LEMMA HangupInv ==
  ASSUME SocketInv, UNCHANGED <<owner, held, retry, mounted, feed>>,
         stopping' \in BOOLEAN,
         server' \in [Sockets -> {"closed", "authorizing", "lost", "subscribed"}],
         client' \in [Sockets -> {"closed", "connecting", "open", "closing"}],
         \A s \in Sockets : \/ client'[s] = client[s]
                            \/ client[s] \in {"connecting", "open"} /\ client'[s] = "closing",
         stopping' => \A s \in Sockets : server'[s] # "subscribed"
  PROVE  SocketInv'
  BY DEF SocketInv, SocketTypeOK, HeldIsOwn, FeedIsSound

LEMMA ServerStepInv ==
  ASSUME SocketInv, NEW s \in Sockets,
         \/ ErrorEvent(s) \/ Upgrade(s) \/ PeerGone(s) \/ SlowConsumer(s) \/ Pong(s)
         \/ \E allowed \in BOOLEAN : AuthorizeSocket(s, allowed)
  PROVE  SocketInv'
<1>1. SocketTypeOK /\ (stopping => \A t \in Sockets : server[t] # "subscribed")
  BY DEF SocketInv, FeedIsSound
<1>2. CASE ErrorEvent(s)
  BY <1>1, <1>2, HangupInv DEF ErrorEvent, SocketTypeOK
<1>3. CASE Upgrade(s)
  BY <1>1, <1>3, HangupInv DEF Upgrade, SocketTypeOK
<1>4. CASE PeerGone(s)
  BY <1>1, <1>4, HangupInv DEF PeerGone, ServerEnd, SocketTypeOK
<1>5. CASE SlowConsumer(s)
  BY <1>1, <1>5, HangupInv DEF SlowConsumer, Hangup, SocketTypeOK
<1>6. CASE Pong(s)
  BY <1>1, <1>6, HangupInv DEF Pong, SocketTypeOK
<1>7. ASSUME NEW allowed \in BOOLEAN, AuthorizeSocket(s, allowed)
      PROVE  SocketInv'
  BY <1>1, <1>7, HangupInv DEF AuthorizeSocket, SocketVerdict, Hangup, SocketTypeOK
<1> QED
  BY <1>2, <1>3, <1>4, <1>5, <1>6, <1>7

LEMMA HeartbeatAndLifeInv ==
  ASSUME SocketInv, PingClients \/ StopServer \/ StartServer
  PROVE  SocketInv'
<1>1. SocketTypeOK /\ (stopping => \A t \in Sockets : server[t] # "subscribed")
  BY DEF SocketInv, FeedIsSound
<1>2. CASE PingClients
  BY <1>1, <1>2, HangupInv DEF PingClients, ServerEnd, Hangup, SocketTypeOK
<1>3. CASE StopServer
  BY <1>1, <1>3, HangupInv DEF StopServer, Up, ServerEnd, Hangup, SocketTypeOK
<1>4. CASE StartServer
  BY <1>1, <1>4, HangupInv DEF StartServer, SocketTypeOK
<1> QED
  BY <1>2, <1>3, <1>4

-----------------------------------------------------------------------------
LEMMA SocketNextInv ==
  ASSUME SocketInv, [SocketNext]_socketVars
  PROVE  SocketInv'
<1>1. CASE Mount
  BY <1>1, ConnectInv DEF Mount
<1>2. CASE RetryFires
  <2>1. mounted' = TRUE
    BY <1>2 DEF RetryFires, SocketInv, SocketTypeOK
  <2> QED
    BY <1>2, <2>1, ConnectInv DEF RetryFires
<1>3. CASE Unmount
  BY <1>3, UnmountInv
<1>4. CASE PingClients \/ StopServer \/ StartServer
  BY <1>4, HeartbeatAndLifeInv
<1>5. ASSUME NEW s \in Sockets, Open(s)
      PROVE  SocketInv'
  BY <1>5, OpenInv
<1>6. ASSUME NEW s \in Sockets, CloseEvent(s)
      PROVE  SocketInv'
  BY <1>6, CloseEventInv
<1>7. ASSUME NEW s \in Sockets,
             \/ ErrorEvent(s) \/ Upgrade(s) \/ PeerGone(s) \/ SlowConsumer(s) \/ Pong(s)
             \/ \E allowed \in BOOLEAN : AuthorizeSocket(s, allowed)
      PROVE  SocketInv'
  BY <1>7, ServerStepInv
<1>8. CASE UNCHANGED socketVars
  BY <1>8 DEF socketVars, SocketInv, SocketTypeOK, HeldIsOwn, FeedIsSound
<1> QED
  BY <1>1, <1>2, <1>3, <1>4, <1>5, <1>6, <1>7, <1>8 DEF SocketNext

(* A mounted console holds a socket that is not closed or has a retry      *)
(* armed, and never two open connections, in whatever order the events of  *)
(* its sockets arrive; the server has no subscriber while it is closing    *)
(* (booth-websocket.tsx, routes/ws.ts).                                    *)
THEOREM FeedStaysSound == SocketSpec => []FeedIsSound
<1>1. SocketInit => SocketInv
  BY SocketInitInv
<1>2. SocketInv /\ [SocketNext]_socketVars => SocketInv'
  BY SocketNextInv
<1>3. SocketInv => FeedIsSound
  BY DEF SocketInv
<1> QED
  BY <1>1, <1>2, <1>3, PTL DEF SocketSpec

-----------------------------------------------------------------------------
(* The tables: what a page offers, or a rollover, refreshes every query    *)
(* the page shows if it changes what is displayed of it, unless the query  *)
(* polls.                                                                  *)

Serves(m, q) == \E prefix \in m.refreshes : IsPrefix(prefix, q.key)
Changes(m, q) == m.touches \cap q.shows # {}

LEMMA HeadIsPrefix == ASSUME NEW a, NEW b PROVE IsPrefix(<<a>>, <<a, b>>)
  BY DEF IsPrefix

LEMMA WholeIsPrefix == ASSUME NEW a, NEW b PROVE IsPrefix(<<a, b>>, <<a, b>>)
  BY DEF IsPrefix

LEMMA FixedOverviewIsPrefixed == IsPrefix(<<"stats">>, <<"stats", "overview", "fixed">>)
  BY DEF IsPrefix

LEMMA OnDemandQueries ==
  ASSUME NEW q \in Queries, ~q.polls
  PROVE  q \in {SessionOne, OverviewFixed, Filters, QuestionsByIds, Instructions, Policy,
                TokenList, TokenUsage, InstallationList}
  BY DEF Queries, Screens, MessagesScreen, MessageDetail, AnswersScreen, QuestionsScreen,
         InstructionsScreen, TokensScreen, StatsScreen, InstallationsScreen, SettingsScreen,
         SessionsScreen, SessionDetail, EventsScreen, StatusScreen, ThermalsScreen, AuditScreen,
         Polling, AuditList, EventList, SessionList, SystemNow, SystemAll, SystemParts,
         Weather, Thermals, Overview, Summary, Shell, Reconciliation, StatusNow, StatusPast, QuestionList, Answers, MessageList, MessageOne,
         Transcripts, Processing

(* A rollover refreshes every query that reads rows of an installation.    *)
LEMMA RolloverServes ==
  ASSUME NEW q \in {SessionOne, OverviewFixed, Filters, QuestionsByIds, Instructions, Policy,
                    TokenList, TokenUsage, InstallationList},
         Changes(Rollover, q)
  PROVE  Serves(Rollover, q)
<1>1. CASE q = SessionOne
  BY <1>1, HeadIsPrefix DEF Serves, Rollover, ScopedPrefixes, SessionOne, OnDemand, PartOf
<1>2. CASE q = OverviewFixed
  BY <1>2, FixedOverviewIsPrefixed
  DEF Serves, Rollover, ScopedPrefixes, OverviewFixed, OnDemand, PartOf
<1>3. CASE q = QuestionsByIds
  BY <1>3, HeadIsPrefix DEF Serves, Rollover, ScopedPrefixes, QuestionsByIds, PartOf, OnDemand, PartOf
<1>4. CASE q = InstallationList
  BY <1>4, HeadIsPrefix DEF Serves, Rollover, ScopedPrefixes, InstallationList, OnDemand, PartOf
<1>5. CASE q \in {Filters, Instructions, Policy, TokenList, TokenUsage}
  BY <1>5
  DEF Changes, Rollover, Scoped, Filters, Instructions, Policy, TokenList, TokenUsage, OnDemand,
      PartOf, FilterRows,
      InstructionRows, PolicyRows, TokenRows
<1> QED
  BY <1>1, <1>2, <1>3, <1>4, <1>5

(* Which mutation a page offers under a query on demand.                   *)
LEMMA OfferedUnderQuery ==
  ASSUME NEW s \in Screens, NEW q \in s.mounts, NEW m \in s.offers, ~q.polls, Changes(m, q),
         m # Rollover
  PROVE  \/ q = Instructions /\ m = EditInstruction
         \/ q = Policy /\ m = EditPolicy
         \/ q = TokenList /\ m = EditToken
         \/ q = Filters /\ m = EditFilter
         \/ q = InstallationList /\ m = Rename
<1> USE DEF Polling, OnDemand, PartOf, Changes
<1>1. CASE s \in {MessagesScreen, AnswersScreen}
  BY <1>1 DEF MessagesScreen, AnswersScreen, MessageCollection, DeleteMessage, Review,
              Retranscribe, MessageList, QuestionsByIds, Processing, InstallationList,
              InstallationRows, Answers
<1>2. CASE s = MessageDetail
  BY <1>2 DEF MessageDetail, Review, Retranscribe, MessageOne, Transcripts, QuestionsByIds,
              InstallationList, InstallationRows
<1>3. CASE s = QuestionsScreen
  BY <1>3 DEF QuestionsScreen, QuestionList
<1>4. CASE s = InstructionsScreen
  BY <1>4 DEF InstructionsScreen
<1>5. CASE s = TokensScreen
  BY <1>5 DEF TokensScreen, EditToken, TokenUsage
<1>6. CASE s = StatsScreen
  BY <1>6 DEF StatsScreen, Overview, OverviewFixed, Filters, InstallationList, EditFilter,
              StatsRows, InstallationRows
<1>7. CASE s = InstallationsScreen
  BY <1>7 DEF InstallationsScreen, Summary
<1>8. CASE s = SettingsScreen
  BY <1>8 DEF SettingsScreen, InstallationList, InstallationRows, EditPolicy
<1>9. CASE s \in {SessionsScreen, SessionDetail, EventsScreen, StatusScreen, ThermalsScreen,
                  AuditScreen}
  BY <1>9 DEF SessionsScreen, SessionDetail, EventsScreen, StatusScreen, ThermalsScreen,
              AuditScreen
<1> QED
  BY <1>1, <1>2, <1>3, <1>4, <1>5, <1>6, <1>7, <1>8, <1>9 DEF Screens

LEMMA OfferedServes ==
  ASSUME NEW s \in Screens \cup {AnyScreen}, NEW q \in Queries, q \in s.mounts \cup Shell, ~q.polls,
         NEW m, m = Rollover \/ m \in s.offers, Changes(m, q)
  PROVE  Serves(m, q)
<1>1. CASE m = Rollover
  BY <1>1, OnDemandQueries, RolloverServes
<1>2. CASE m # Rollover
  <2>1. s \in Screens /\ q \in s.mounts
    <3>1. q \notin Shell
      BY DEF Shell, Reconciliation, StatusNow, SystemNow, SystemParts, Polling
    <3> QED
      BY <3>1 DEF AnyScreen
  <2>2. \/ q = Instructions /\ m = EditInstruction
        \/ q = Policy /\ m = EditPolicy
        \/ q = TokenList /\ m = EditToken
        \/ q = Filters /\ m = EditFilter
        \/ q = InstallationList /\ m = Rename
    BY <1>2, <2>1, OfferedUnderQuery
  <2>3. CASE q = Instructions /\ m = EditInstruction
    BY <2>3, WholeIsPrefix DEF Serves, Instructions, EditInstruction, OnDemand, PartOf
  <2>4. CASE q = Policy /\ m = EditPolicy
    BY <2>4, WholeIsPrefix DEF Serves, Policy, EditPolicy, OnDemand, PartOf
  <2>5. CASE q = TokenList /\ m = EditToken
    BY <2>5, WholeIsPrefix DEF Serves, TokenList, EditToken, OnDemand, PartOf
  <2>6. CASE q = Filters /\ m = EditFilter
    BY <2>6, WholeIsPrefix DEF Serves, Filters, EditFilter, OnDemand, PartOf
  <2>7. CASE q = InstallationList /\ m = Rename
    BY <2>7, WholeIsPrefix DEF Serves, InstallationList, Rename, OnDemand, PartOf
  <2> QED
    BY <2>2, <2>3, <2>4, <2>5, <2>6, <2>7
<1> QED
  BY <1>1, <1>2

(* The queries of the status are polled, so none on demand is reset.       *)
LEMMA StatusIsPolled ==
  ASSUME NEW q \in Queries, ~q.polls
  PROVE  q.key[1] # "status"
  BY OnDemandQueries
  DEF OnDemand, PartOf, SessionOne, OverviewFixed, Filters, QuestionsByIds, Instructions, Policy,
      TokenList, TokenUsage, InstallationList

-----------------------------------------------------------------------------
(* The invariant.                                                          *)

DataVersion == Nat \cup {Unfetched}
Mutation == [at : {"idle", "upload", "sent", "written"}, what : Mutations \cup {Rename}, seen : Nat]

CacheTypeOK ==
    /\ query \in Queries /\ screen \in Screens \cup {AnyScreen}
    /\ changes \in Nat /\ owed \in Nat
    /\ entry \in [data : DataVersion, failed : BOOLEAN]
    /\ fetch \in [on : BOOLEAN, read : DataVersion]
    /\ mutation \in Mutation
    /\ envelope \in DataVersion

(* The operator is told of changes that were made.                         *)
ToldOfChanges ==
    /\ owed <= changes
    /\ mutation.at = "written" => mutation.seen <= changes
    /\ envelope # Unfetched => envelope <= changes

(* What the server reads for a query on demand, and what is left when no   *)
(* fetch is on its way, is no older than what the operator was told.       *)
ReadsAreLate == fetch.read # Unfetched => fetch.on /\ fetch.read >= owed
DataIsLate == ~fetch.on /\ ~entry.failed /\ entry.data # Unfetched => entry.data >= owed

(* A query on display has data, or is being fetched, or has failed.        *)
DisplayIsFed == Mounted /\ ~fetch.on /\ ~entry.failed => entry.data # Unfetched

CacheInv ==
    /\ CacheTypeOK /\ ToldOfChanges /\ DisplayIsFed
    /\ ~query.polls => ReadsAreLate /\ DataIsLate

LEMMA CacheInitInv == CacheInit => CacheInv
  BY CacheAssumption
  DEF CacheInit, CacheInv, CacheTypeOK, ToldOfChanges, ReadsAreLate, DataIsLate, DisplayIsFed,
      DataVersion, Mutation, NoFetch, NewFetch, NoMutation, Mounted, MountedOn,
      AnyScreen

LEMMA ShownWhenFed == CacheInv => WritesAreShown
  BY DEF CacheInv, DataIsLate, DisplayIsFed, WritesAreShown

(* Fetches: what is read now is as late as anything told so far.           *)
LEMMA FetchInv ==
  ASSUME CacheInv,
         Collect \/ Refetch \/ ServerReads \/ FetchAnswers \/ FetchFails
         \/ \E s \in Pages : Navigate(s)
  PROVE  CacheInv'
<1> USE DEF CacheInv, CacheTypeOK, ToldOfChanges, ReadsAreLate, DataIsLate, DisplayIsFed, Mounted, MountedOn,
            DataVersion, NoFetch, NewFetch
<1>1. CASE Collect
  <2>1. /\ UNCHANGED <<query, screen, changes, fetch, mutation, envelope>>
        /\ owed' = 0 /\ ~Mounted /\ fetch.on = FALSE
        /\ entry' = [entry EXCEPT !.data = Unfetched, !.failed = FALSE]
    BY <1>1 DEF Collect
  <2>2. entry'.data = Unfetched /\ entry' \in [data : DataVersion, failed : BOOLEAN]
    BY <2>1
  <2> QED
    BY <2>1, <2>2, CacheAssumption
<1>2. CASE Refetch
  BY <1>2, CacheAssumption DEF Refetch
<1>3. CASE ServerReads
  BY <1>3, CacheAssumption DEF ServerReads
<1>4. CASE FetchAnswers
  BY <1>4, CacheAssumption DEF FetchAnswers
<1>5. CASE FetchFails
  BY <1>5, CacheAssumption DEF FetchFails
<1>6. CASE \E s \in Pages : Navigate(s)
  <2>1. PICK s \in Pages : Navigate(s)
    BY <1>6
  <2>2. /\ screen' = s /\ UNCHANGED <<query, changes, entry, mutation, envelope, owed>>
        /\ \/ fetch' = IF MountedOn(s) /\ ~Mounted THEN Joined ELSE fetch
           \/ entry.data # Unfetched /\ UNCHANGED fetch
    BY <2>1 DEF Navigate
  <2>3. screen' \in Screens \cup {AnyScreen}
    BY <2>1, <2>2 DEF Pages
  <2>4. fetch' \in {fetch, Joined} /\ Mounted' = MountedOn(s)
    BY <2>2
  <2>5. Joined \in [on : BOOLEAN, read : DataVersion] /\ Joined.on
        /\ (Joined.read # Unfetched => fetch.on /\ Joined.read = fetch.read)
    BY CacheAssumption DEF Joined
  <2>6. fetch' \in [on : BOOLEAN, read : DataVersion] /\ (~fetch'.on => fetch' = fetch)
    BY <2>4, <2>5
  <2>7. ~query.polls => ReadsAreLate' /\ DataIsLate'
    BY <2>2, <2>4, <2>5
  <2>8. DisplayIsFed'
    BY <2>2, <2>4, <2>5
  <2> QED
    BY <2>2, <2>3, <2>6, <2>7, <2>8
<1> QED
  BY <1>1, <1>2, <1>3, <1>4, <1>5, <1>6

(* Writes by anyone, up to the confirmation, touch neither the entry nor   *)
(* the fetch.                                                              *)
LEMMA WriteInv ==
  ASSUME CacheInv,
         \/ \E m \in Mutations : Mutate(m) \/ OthersWrite(m)
         \/ Uploaded \/ ServerWrites \/ MutationFails
  PROVE  CacheInv'
<1>1. UNCHANGED <<query, screen, entry, fetch, owed>>
  BY DEF Mutate, OthersWrite, Uploaded, ServerWrites, MutationFails
<1>2. changes' \in Nat /\ changes' >= changes
  BY DEF Mutate, OthersWrite, Uploaded, ServerWrites, MutationFails, Changed, CacheInv, CacheTypeOK
<1>3. mutation' \in Mutation /\ (mutation'.at = "written" => mutation'.seen <= changes')
  <2>1. mutation \in Mutation /\ (mutation.at = "written" => mutation.seen <= changes)
        /\ changes \in Nat
    BY DEF CacheInv, CacheTypeOK, ToldOfChanges
  <2>2. CASE UNCHANGED mutation
    BY <1>2, <2>1, <2>2 DEF Mutation
  <2>3. CASE \E m \in Mutations : Mutate(m)
    BY <2>3 DEF Mutate, Mutation
  <2>4. CASE Uploaded
    BY <2>1, <2>4 DEF Uploaded, Mutation
  <2>5. CASE ServerWrites
    <3>1. mutation' = [mutation EXCEPT !.at = "written", !.seen = changes']
      BY <2>5 DEF ServerWrites
    <3>2. mutation'.at = "written" /\ mutation'.seen = changes'
          /\ mutation' \in Mutation
      BY <1>2, <2>1, <3>1 DEF Mutation
    <3> QED
      BY <1>2, <3>2
  <2>6. CASE MutationFails
    BY <2>6 DEF MutationFails, NoMutation, Mutation
  <2> QED
    BY <2>2, <2>3, <2>4, <2>5, <2>6 DEF OthersWrite
<1>4. envelope' \in DataVersion /\ (envelope' # Unfetched => envelope' <= changes')
  BY <1>2 DEF Mutate, OthersWrite, Uploaded, ServerWrites, MutationFails, CacheInv, CacheTypeOK,
              ToldOfChanges, DataVersion
<1> QED
  BY <1>1, <1>2, <1>3, <1>4
  DEF CacheInv, CacheTypeOK, ToldOfChanges, ReadsAreLate, DataIsLate, DisplayIsFed, Mounted, MountedOn

(* An invalidation: whoever is told more than before has a fetch begun     *)
(* afterwards.                                                             *)
LEMMA InvalidateInv ==
  ASSUME CacheInv, NEW m, NEW seen \in Nat, seen <= changes,
         Invalidate(m), owed' = Told(m, seen), UNCHANGED <<query, screen, changes>>,
         mutation' \in Mutation,
         mutation'.at = "written" => mutation'.seen <= changes,
         envelope' \in DataVersion, envelope' # Unfetched => envelope' <= changes
  PROVE  CacheInv'
<1>1. \/ entry' = entry
      \/ entry' = [entry EXCEPT !.data = Unfetched, !.failed = FALSE]
         /\ fetch' = IF Mounted THEN NewFetch ELSE NoFetch
  BY DEF Invalidate
<1>2. /\ fetch' \in {fetch, NewFetch, NoFetch}
      /\ fetch' = NoFetch /\ fetch # NoFetch =>
           ~Mounted /\ entry' = [entry EXCEPT !.data = Unfetched, !.failed = FALSE]
  <2>1. NewFetch # NoFetch
    BY DEF NewFetch, NoFetch
  <2> QED
    BY <2>1 DEF Invalidate, Joined
<1>3. entry \in [data : DataVersion, failed : BOOLEAN] /\ fetch \in [on : BOOLEAN, read : DataVersion]
  BY DEF CacheInv, CacheTypeOK
<1>4. /\ entry' \in [data : DataVersion, failed : BOOLEAN] /\ fetch' \in [on : BOOLEAN, read : DataVersion]
      /\ entry' = entry \/ entry'.data = Unfetched
      /\ owed' \in Nat /\ owed' <= changes
  <2>1. entry' \in [data : DataVersion, failed : BOOLEAN] /\ (entry' = entry \/ entry'.data = Unfetched)
    BY <1>1, <1>3 DEF DataVersion
  <2>2. fetch' \in [on : BOOLEAN, read : DataVersion]
    <3>1. NewFetch \in [on : BOOLEAN, read : DataVersion] /\ NoFetch \in [on : BOOLEAN, read : DataVersion]
      BY DEF DataVersion, NewFetch, NoFetch
    <3> QED
      BY <1>2, <1>3, <3>1
  <2>3. owed' \in Nat /\ owed' <= changes
    BY DEF Told, CacheInv, CacheTypeOK, ToldOfChanges
  <2> QED
    BY <2>1, <2>2, <2>3
<1>5. CacheTypeOK' /\ ToldOfChanges'
  BY <1>4 DEF CacheInv, CacheTypeOK, ToldOfChanges
<1>6. DisplayIsFed'
  BY <1>1, <1>2, <1>3, <1>4 DEF NewFetch, NoFetch, CacheInv, DisplayIsFed, Mounted, MountedOn
<1>7. ~query.polls => ReadsAreLate' /\ DataIsLate'
  <2>1. CASE owed' = owed
    <3>1. ReadsAreLate => ReadsAreLate'
      BY <1>2, <2>1 DEF NewFetch, NoFetch, ReadsAreLate
    <3>2. ReadsAreLate /\ DataIsLate => DataIsLate'
      <4>1. CASE entry'.data = Unfetched
        BY <4>1 DEF DataIsLate
      <4>2. CASE entry' = entry /\ fetch' = fetch
        BY <2>1, <4>2 DEF DataIsLate
      <4>3. CASE fetch' = NewFetch
        BY <4>3 DEF NewFetch, DataIsLate
      <4> QED
        BY <1>1, <1>2, <1>3, <4>1, <4>2, <4>3
    <3> QED
      BY <3>1, <3>2 DEF CacheInv
  <2>2. CASE owed' # owed
    <3>1. /\ Shows(m) /\ Mounted /\ entry.data # Unfetched
          /\ m = Rollover \/ m \in screen.offers
      BY <2>2 DEF Told
    <3>2. ~query.polls => Refreshes(m)
      BY <3>1, OfferedServes
      DEF CacheInv, CacheTypeOK, Mounted, MountedOn, Shows, Changes, Refreshes, Serves
    <3>3. ~query.polls => fetch' = NewFetch
      BY <3>1, <3>2 DEF Invalidate
    <3> QED
      BY <3>3 DEF NewFetch, ReadsAreLate, DataIsLate
  <2> QED
    BY <2>1, <2>2
<1> QED
  BY <1>5, <1>6, <1>7 DEF CacheInv

LEMMA CacheNextInv ==
  ASSUME CacheInv, [CacheNext]_cacheVars
  PROVE  CacheInv'
<1>1. CASE Collect \/ Refetch \/ ServerReads \/ FetchAnswers \/ FetchFails
           \/ \E s \in Pages : Navigate(s)
  BY <1>1, FetchInv
<1>2. CASE \/ \E m \in Mutations : Mutate(m) \/ OthersWrite(m)
           \/ Uploaded \/ ServerWrites \/ MutationFails
  BY <1>2, WriteInv
<1>3. CASE MutationSucceeds
  <2>1. /\ mutation.seen \in Nat /\ mutation.seen <= changes
        /\ mutation' \in Mutation /\ mutation'.at # "written"
    BY <1>3 DEF MutationSucceeds, CacheInv, CacheTypeOK, ToldOfChanges, NoMutation, Mutation
  <2>2. envelope' \in DataVersion /\ (envelope' # Unfetched => envelope' <= changes)
    BY <1>3 DEF MutationSucceeds, CacheInv, CacheTypeOK, ToldOfChanges
  <2> QED
    BY <1>3, <2>1, <2>2, InvalidateInv DEF MutationSucceeds
<1>4. CASE HearInstallation
  <2>1. /\ envelope \in Nat /\ envelope <= changes /\ envelope' = Unfetched
        /\ mutation' \in Mutation /\ (mutation'.at = "written" => mutation'.seen <= changes)
    BY <1>4 DEF HearInstallation, CacheInv, CacheTypeOK, ToldOfChanges, DataVersion
  <2>2. envelope' \in DataVersion
    BY <2>1 DEF DataVersion
  <2> QED
    BY <1>4, <2>1, <2>2, InvalidateInv DEF HearInstallation
<1>5. CASE UNCHANGED cacheVars
  BY <1>5 DEF cacheVars, CacheInv, CacheTypeOK, ToldOfChanges, ReadsAreLate, DataIsLate,
              DisplayIsFed, Mounted, MountedOn
<1> QED
  BY <1>1, <1>2, <1>3, <1>4, <1>5 DEF CacheNext

(* The console shows what its operator was told: after a confirmed write   *)
(* or an announced rollover every query on display that does not poll was  *)
(* fetched again, and no older answer replaced the newer one               *)
(* (api-client.ts).                                                        *)
THEOREM WritesShown == CacheSpec => []WritesAreShown
  BY CacheInitInv, CacheNextInv, ShownWhenFed, PTL DEF CacheSpec

=============================================================================
