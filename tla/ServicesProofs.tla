---------------------------- MODULE ServicesProofs ----------------------------
(***************************************************************************)
(* The services side by side, as MCServices runs them: a behaviour that    *)
(* follows one service keeps that service's inductive invariant, so the    *)
(* properties the Services run checks on a small instance hold for every   *)
(* value of the constants.                                                 *)
(***************************************************************************)
EXTENDS MCServices, AccessProofs, RecordsProofs, NewsProofs

FollowedInv ==
    /\ focus = "session" => SessionInv
    /\ focus = "login" => LoginInv
    /\ focus = "token" => TokenInv
    /\ focus = "draw" => BooksInv /\ RetryInv /\ PickStands
    /\ focus \in {"filing", "library"} => FilingInv
    /\ focus = "push" => PushInv
    /\ focus = "live" => LiveInv
    /\ focus = "socket" => SocketInv
    /\ focus = "cache" => CacheInv
    /\ focus = "archive" => ArchiveInv
    /\ focus = "paging" => PagingInv

-----------------------------------------------------------------------------
LEMMA ServicesInitInv == ServicesInit => FollowedInv
  BY SessionInitInv, LoginInitInv, TokenInitInv, DrawInitInv, RetryInitInv, PickStandsInit,
     FilingInitInv, PushInitInv, LiveInitInv, SocketInitInv, CacheInitInv, ArchiveInitInv, PagingInitInv
  DEF ServicesInit, FollowedInv

(* A step is one of the service followed, or it leaves that service alone. *)
LEMMA OneMoves ==
  ASSUME [ServicesNext]_servicesVars
  PROVE  /\ focus' = focus
         /\ focus = "session" => [SessionNext]_sessionVars
         /\ focus = "login" => [LoginNext]_loginVars
         /\ focus = "token" => [TokenNext]_tokenVars
         /\ focus = "draw" => [DrawNext]_drawVars
         /\ focus \in {"filing", "library"} => [FilingNext]_filingVars
         /\ focus = "push" => [PushNext]_pushVars
         /\ focus = "live" => [LiveNext]_liveVars
         /\ focus = "socket" => [SocketNext]_socketVars
         /\ focus = "cache" => [CacheNext]_cacheVars
         /\ focus = "archive" => [ArchiveNext]_archiveVars
         /\ focus = "paging" => [PagingNext]_pagingVars
<1>1. CASE UNCHANGED servicesVars
  BY <1>1 DEF servicesVars, accessVars, boothVars, newsVars, consoleVars
<1>2. CASE AccessNext
  BY <1>2 DEF AccessNext, boothVars, newsVars
<1>3. CASE BoothNext
  BY <1>3 DEF BoothNext, accessVars, newsVars
<1>4. CASE NewsNext
  BY <1>4 DEF NewsNext, accessVars, boothVars
<1>5. CASE ConsoleNext
  BY <1>5 DEF ConsoleNext, accessVars, boothVars, newsVars
<1> QED
  BY <1>1, <1>2, <1>3, <1>4, <1>5 DEF ServicesNext

LEMMA ServicesNextInv ==
  ASSUME FollowedInv, [ServicesNext]_servicesVars
  PROVE  FollowedInv'
  BY OneMoves, SessionNextInv, LoginNextInv, TokenNextInv, DrawNextInv, RetryNextInv,
     PickStandsNext, FilingNextInv, PushNextInv, LiveNextInv, SocketNextInv, CacheNextInv,
     ArchiveNextInv, PagingNextInv
  DEF FollowedInv

LEMMA FollowedAlways == ServicesSpec => []FollowedInv
  BY ServicesInitInv, ServicesNextInv, PTL DEF ServicesSpec

-----------------------------------------------------------------------------
(* Authorised requests belong to accounts that the provider still had      *)
(* within the revalidation interval, and to sessions below the ceiling     *)
(* (session.ts).                                                           *)
THEOREM EntitledServedInServices == ServicesSpec => []MCOnlyEntitledAreServed
<1>1. FollowedInv => MCOnlyEntitledAreServed
  BY ServedAreEntitled DEF FollowedInv, MCOnlyEntitledAreServed
<1> QED
  BY <1>1, FollowedAlways, PTL

(* A session row goes away for a reason only (session.ts).                 *)
THEOREM SignOutsJustifiedInServices == ServicesSpec => MCSignOutIsJustified
<1>1. FollowedInv /\ [ServicesNext]_servicesVars
        => [focus = "session" => NoAccidentalSignOut]_servicesVars
  BY OneMoves, SignsOutForReason DEF FollowedInv
<1> QED
  BY <1>1, FollowedAlways, PTL DEF ServicesSpec, MCSignOutIsJustified

(* One login of an allowed account yields one session, in the browser that *)
(* asked for it (routes/auth.ts).                                          *)
THEOREM SessionsEarnedInServices == ServicesSpec => []MCSessionsAreEarned
<1>1. FollowedInv => MCSessionsAreEarned
  BY DEF FollowedInv, LoginInv, MCSessionsAreEarned
<1> QED
  BY <1>1, FollowedAlways, PTL

(* A token that is dead when a request arrives is refused, on every        *)
(* replica (api-tokens.ts).                                                *)
THEOREM DeadTokenRefusedInServices == ServicesSpec => []MCDeadTokenIsRefused
<1>1. TokenInv => DeadTokenIsRefused
  BY DEF TokenInv, PassedWasAlive, DeadTokenIsRefused, Decided
<1>2. FollowedInv => MCDeadTokenIsRefused
  BY <1>1 DEF FollowedInv, MCDeadTokenIsRefused
<1> QED
  BY <1>2, FollowedAlways, PTL

(* The counters of the bag are the tickets really drawn (questions.ts).    *)
THEOREM TicketsExactInServices == ServicesSpec => []MCTicketsAreExact
<1>1. FollowedInv => MCTicketsAreExact
  BY DEF FollowedInv, BooksInv, MCTicketsAreExact
<1> QED
  BY <1>1, FollowedAlways, PTL

(* A retried draw is answered as before (questions.ts).                    *)
THEOREM RetriesAgreeInServices == ServicesSpec => MCRetryGetsSameQuestion
<1>1. FollowedInv /\ [ServicesNext]_servicesVars
        => [focus = "draw" => SameAnswerAgain]_servicesVars
  BY OneMoves, RetryAgrees DEF FollowedInv
<1> QED
  BY <1>1, FollowedAlways, PTL DEF ServicesSpec, MCRetryGetsSameQuestion

(* Every draw takes one ticket of the bag, atomically (questions.ts).      *)
THEOREM DrawsAreTicketsInServices == ServicesSpec => MCDrawsAreTickets
<1>1. ServicesInit => (focus = "draw" => Tickets!BagInit)
  BY DrawsBeginAsBag DEF ServicesInit
<1>2. FollowedInv /\ FollowedInv' /\ [ServicesNext]_servicesVars
        => [focus = "draw" => [Tickets!BagNext]_(Tickets!bagVars)]_servicesVars
  BY OneMoves, DrawsRefine DEF FollowedInv
<1> QED
  BY <1>1, <1>2, FollowedAlways, PTL DEF ServicesSpec, MCDrawsAreTickets

(* Every question and instruction has its audio (uploads.ts, the dialogs). *)
THEOREM CardsPlayableInServices == ServicesSpec => []MCCardsHaveAudio
<1>1. FilingInv => CardsHaveAudio
  BY DEF FilingInv, CardsArePlayable, Playable, CardsHaveAudio
<1>2. FollowedInv => MCCardsHaveAudio
  BY <1>1 DEF FollowedInv, MCCardsHaveAudio
<1> QED
  BY <1>2, FollowedAlways, PTL

(* No booth is told that there is no instruction while one stays active    *)
(* (instructions.ts).                                                      *)
THEOREM InstructionFoundInServices == ServicesSpec => []MCInstructionIsFound
<1>1. FilingInv => InstructionIsFound
  BY DEF FilingInv, SteadyIsActive, InstructionIsFound
<1>2. FollowedInv => MCInstructionIsFound
  BY <1>1 DEF FollowedInv, MCInstructionIsFound
<1> QED
  BY <1>2, FollowedAlways, PTL

(* The feed of a mounted console is neither stranded nor doubled           *)
(* (booth-websocket.tsx, ws.ts).                                           *)
THEOREM FeedSoundInServices == ServicesSpec => []MCFeedIsSound
<1>1. FollowedInv => MCFeedIsSound
  BY DEF FollowedInv, SocketInv, MCFeedIsSound
<1> QED
  BY <1>1, FollowedAlways, PTL

(* A badge recorded as delivered is on every registered phone              *)
(* (push-events.ts).                                                       *)
THEOREM DeliveredShownInServices == ServicesSpec => []MCDeliveredIsShown
<1>1. FollowedInv => MCDeliveredIsShown
  BY DEF FollowedInv, PushInv, BadgeInv, MCDeliveredIsShown
<1> QED
  BY <1>1, FollowedAlways, PTL

(* No phone sounds the same alert twice (push-events.ts).                  *)
THEOREM AlertOnceInServices == ServicesSpec => []MCAlertSoundsOnce
<1>1. FollowedInv => MCAlertSoundsOnce
  BY DEF FollowedInv, PushInv, AlertInv, MCAlertSoundsOnce
<1> QED
  BY <1>1, FollowedAlways, PTL

(* No phone goes back to an older count (push-events.ts).                  *)
THEOREM BadgesMoveOnInServices == ServicesSpec => MCBadgeNeverGoesBack
<1>1. FollowedInv /\ [ServicesNext]_servicesVars => [focus = "push" => NoOlderBadge]_servicesVars
  BY OneMoves, PushNextInv DEF FollowedInv
<1> QED
  BY <1>1, FollowedAlways, PTL DEF ServicesSpec, MCBadgeNeverGoesBack

(* With nothing on its way the console shows what the server has           *)
(* (booth-websocket.tsx).                                                  *)
THEOREM ConsoleCatchesUpInServices == ServicesSpec => []MCConsoleIsUpToDate
<1>1. FollowedInv => MCConsoleIsUpToDate
  BY UpToDate DEF FollowedInv, MCConsoleIsUpToDate
<1> QED
  BY <1>1, FollowedAlways, PTL

(* A confirmed write shows on every page (api-client.ts).                  *)
THEOREM WritesShownInServices == ServicesSpec => []MCWritesAreShown
<1>1. FollowedInv => MCWritesAreShown
  BY ShownWhenFed DEF FollowedInv, MCWritesAreShown
<1> QED
  BY <1>1, FollowedAlways, PTL

(* An archive restores on any instance to rows that fit together           *)
(* (data-archive.ts).                                                      *)
THEOREM RestoresFitInServices == ServicesSpec => []MCRestoredRowsFit
<1>1. FollowedInv => MCRestoredRowsFit
  BY AnyRestoreFits DEF FollowedInv, MCRestoredRowsFit
<1> QED
  BY <1>1, FollowedAlways, PTL

(* A restore leaves every ended installation settled (data-archive.ts).    *)
THEOREM RestoresSettleInServices == ServicesSpec => MCRestoreLeavesErasSettled
<1>1. FollowedInv /\ [ServicesNext]_servicesVars
        => [focus = "archive" => RestoreSettles]_servicesVars
  BY AnyRestoreSettles DEF FollowedInv
<1> QED
  BY <1>1, FollowedAlways, PTL DEF ServicesSpec, MCRestoreLeavesErasSettled

(* A walk over all pages misses no row and repeats none (cursor.ts,        *)
(* push-work.ts).                                                          *)
THEOREM WalkCompleteInServices == ServicesSpec => []MCWalkIsComplete
<1>1. FollowedInv => MCWalkIsComplete
  BY DEF FollowedInv, PagingInv, MCWalkIsComplete
<1> QED
  BY <1>1, FollowedAlways, PTL

=============================================================================
