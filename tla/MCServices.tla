----------------------------- MODULE MCServices -----------------------------
(***************************************************************************)
(* The services around the pipeline and the installations, on small        *)
(* instances.  They share no state, so each behaviour follows one of them  *)
(* and the variables of the others stay 0.                                 *)
(***************************************************************************)
EXTENDS OperatorSession, OperatorLogin, ApiTokens, QuestionDraw, PushNotifications,
        LiveStatus, LiveSocket, ConsoleCache, AudioFiling, DataArchive, ListPaging, TLC

VARIABLE focus   \* the service this behaviour exercises

accessVars == <<sessionVars, loginVars, tokenVars>>
boothVars == <<drawVars, filingVars>>
newsVars == <<pushVars, liveVars, socketVars>>
consoleVars == <<cacheVars, archiveVars, pagingVars>>
servicesVars == <<focus, accessVars, boothVars, newsVars, consoleVars>>

(* The variables of a part that is not exercised.                          *)
SessionOff ==
    /\ now = 0 /\ row = 0 /\ idp = 0 /\ backoff = 0 /\ job = 0 /\ req = 0
       /\ faults = 0 /\ trouble = 0
LoginOff ==
    /\ clock = 0 /\ issued = 0 /\ pending = 0 /\ tx = 0 /\ asked = 0
    /\ codes = 0 /\ callback = 0 /\ sessions = 0 /\ users = 0
TokenOff ==
    /\ time = 0 /\ token = 0 /\ source = 0 /\ cache = 0 /\ call = 0
    /\ revoking = 0
DrawOff ==
    /\ question = 0 /\ bag = 0 /\ eraOpen = 0 /\ holder = 0 /\ draw = 0
    /\ drawn = 0 /\ answer = 0
FilingOff ==
    /\ fileKey = 0 /\ blobs = 0 /\ sub = 0 /\ cards = 0 /\ clip = 0
    /\ ask = 0 /\ purge = 0 /\ muted = 0
PushOff ==
    /\ tick = 0 /\ queue = 0 /\ badge = 0 /\ alert = 0 /\ phone = 0
    /\ shown = 0 /\ sounded = 0 /\ sending = 0
LiveOff ==
    /\ snapshot = 0 /\ eraOf = 0 /\ isActive = 0 /\ frames = 0 /\ link = 0
       /\ poll = 0 /\ polled = 0 /\ latest = 0 /\ lifecycle = 0 /\ since = 0
SocketOff ==
    /\ client = 0 /\ server = 0 /\ pinged = 0 /\ owner = 0 /\ held = 0
    /\ retry = 0 /\ mounted = 0 /\ feed = 0 /\ stopping = 0
CacheOff ==
    /\ query = 0 /\ screen = 0 /\ changes = 0 /\ entry = 0 /\ fetch = 0
    /\ mutation = 0 /\ envelope = 0 /\ owed = 0
ArchiveOff ==
    /\ store = 0 /\ archive = 0 /\ used = 0
PagingOff ==
    /\ rows = 0 /\ walk = 0 /\ steady = 0 /\ told = 0 /\ twice = 0

ServicesInit ==
    /\ focus \in {"session", "login", "token", "draw", "filing", "library", "push", "live",
                  "socket", "cache", "archive", "paging"}
    /\ IF focus = "session" THEN SessionInit ELSE SessionOff
    /\ IF focus = "login" THEN LoginInit ELSE LoginOff
    /\ IF focus = "token" THEN TokenInit ELSE TokenOff
    /\ IF focus = "draw" THEN DrawInit ELSE DrawOff
    /\ IF focus \in {"filing", "library"} THEN FilingInit ELSE FilingOff
    /\ IF focus = "push" THEN PushInit ELSE PushOff
    /\ IF focus = "live" THEN LiveInit ELSE LiveOff
    /\ IF focus = "socket" THEN SocketInit ELSE SocketOff
    /\ IF focus = "cache" THEN CacheInit ELSE CacheOff
    /\ IF focus = "archive" THEN ArchiveInit ELSE ArchiveOff
    /\ IF focus = "paging" THEN PagingInit ELSE PagingOff

AccessNext ==
    /\ \/ focus = "session" /\ SessionNext /\ UNCHANGED <<loginVars, tokenVars>>
       \/ focus = "login" /\ LoginNext /\ UNCHANGED <<sessionVars, tokenVars>>
       \/ focus = "token" /\ TokenNext /\ UNCHANGED <<sessionVars, loginVars>>
    /\ UNCHANGED <<focus, boothVars, newsVars, consoleVars>>

(* Cards are filed beside purges, and beside the booth's requests.         *)
NoneInactive == \A c \in Clips : clip'[c].status # "inactive"

BoothNext ==
    /\ \/ focus = "draw" /\ DrawNext /\ UNCHANGED filingVars
       \/ focus = "filing" /\ UNCHANGED drawVars /\ UNCHANGED ask /\ FilingNext /\ NoneInactive
       \/ focus = "library" /\ UNCHANGED drawVars /\ UNCHANGED purge /\ FilingNext
    /\ UNCHANGED <<focus, accessVars, newsVars, consoleVars>>

NewsNext ==
    /\ \/ focus = "push" /\ PushNext /\ UNCHANGED <<liveVars, socketVars>>
       \/ focus = "live" /\ LiveNext /\ UNCHANGED <<pushVars, socketVars>>
       \/ focus = "socket" /\ SocketNext /\ UNCHANGED <<pushVars, liveVars>>
    /\ UNCHANGED <<focus, accessVars, boothVars, consoleVars>>

ConsoleNext ==
    /\ \/ focus = "cache" /\ CacheNext /\ UNCHANGED <<archiveVars, pagingVars>>
       \/ focus = "archive" /\ ArchiveNext /\ UNCHANGED <<cacheVars, pagingVars>>
       \/ focus = "paging" /\ PagingNext /\ UNCHANGED <<cacheVars, archiveVars>>
    /\ UNCHANGED <<focus, accessVars, boothVars, newsVars>>

ServicesNext == AccessNext \/ BoothNext \/ NewsNext \/ ConsoleNext

ServicesSpec == ServicesInit /\ [][ServicesNext]_servicesVars

(* The parts name their processes alike, and their requests: one symmetry  *)
(* serves them all.                                                        *)
Interchangeable == Permutations(Replicas) \cup Permutations(Requests)

-----------------------------------------------------------------------------
(* The properties of each part, where it is exercised.                     *)

(* Authorised requests belong to accounts that the provider still had      *)
(* within the revalidation interval, and to sessions below the ceiling     *)
(* (session.ts).                                                           *)
MCOnlyEntitledAreServed == focus = "session" => OnlyEntitledAreServed

(* One login of an allowed account yields one session, in the browser      *)
(* that asked for it (routes/auth.ts).                                     *)
MCSessionsAreEarned == focus = "login" => SessionsAreEarned

(* A token dead on arrival is refused on every replica (api-tokens.ts).    *)
MCDeadTokenIsRefused == focus = "token" => DeadTokenIsRefused

(* The counters of the bag are the tickets really drawn (questions.ts).    *)
MCTicketsAreExact == focus = "draw" => TicketsAreExact

(* Every question and instruction has its audio (uploads.ts, the dialogs). *)
MCCardsHaveAudio == focus \in {"filing", "library"} => CardsHaveAudio

(* No booth is told that there is no instruction while one stays active    *)
(* (instructions.ts).                                                      *)
MCInstructionIsFound == focus \in {"filing", "library"} => InstructionIsFound

(* A badge recorded as delivered is on every phone (push-events.ts).       *)
MCDeliveredIsShown == focus = "push" => DeliveredIsShown

(* No phone sounds the same alert twice (push-events.ts).                  *)
MCAlertSoundsOnce == focus = "push" => AlertSoundsOnce

(* With nothing on its way the console shows what the server has           *)
(* (booth-websocket.tsx).                                                  *)
MCConsoleIsUpToDate == focus = "live" => ConsoleIsUpToDate

(* The feed of a mounted console is neither stranded nor doubled           *)
(* (booth-websocket.tsx, ws.ts).                                           *)
MCFeedIsSound == focus = "socket" => FeedIsSound

(* A confirmed write shows on every page (api-client.ts).                  *)
MCWritesAreShown == focus = "cache" => WritesAreShown

(* An archive restores on any instance to rows that fit together           *)
(* (data-archive.ts).                                                      *)
MCRestoredRowsFit == focus = "archive" => RestoredRowsFit

(* A walk over all pages misses no row and repeats none (cursor.ts,        *)
(* push-work.ts).                                                          *)
MCWalkIsComplete == focus = "paging" => WalkIsComplete

(* A session row goes away for a reason only (session.ts).                 *)
MCSignOutIsJustified == [][focus = "session" => NoAccidentalSignOut]_servicesVars

(* A retried draw is answered as before (questions.ts).                    *)
MCRetryGetsSameQuestion == [][focus = "draw" => SameAnswerAgain]_servicesVars

(* Every draw takes one ticket of the bag, atomically (questions.ts).      *)
MCDrawsAreTickets ==
    /\ focus = "draw" => Tickets!BagInit
    /\ [][focus = "draw" => [Tickets!BagNext]_(Tickets!bagVars)]_servicesVars

(* No phone goes back to an older count (push-events.ts).                  *)
MCBadgeNeverGoesBack == [][focus = "push" => NoOlderBadge]_servicesVars

(* A restore leaves every ended installation settled (data-archive.ts).    *)
MCRestoreLeavesErasSettled == [][focus = "archive" => RestoreSettles]_servicesVars
=============================================================================
