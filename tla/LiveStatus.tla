----------------------------- MODULE LiveStatus -----------------------------
(***************************************************************************)
(* The booth status a console displays (web/src/lib/booth-websocket.tsx).  *)
(* Two sources feed it: frames from the one API replica it is connected    *)
(* to, which may overtake each other, and a poll of the database, whose    *)
(* answer may be older than the frames.  Broadcasts do not cross replicas. *)
(***************************************************************************)
EXTENDS Integers, Sequences, FiniteSets

CONSTANTS
    Servers,      \* API replicas
    Offline,      \* the console is connected to none of them
    MaxRows,      \* bound on status snapshots
    MaxBeats,     \* bound on the reports folded into earlier rows
    MaxLiveEras,
    MaxFrames     \* bound on the envelopes committed and not yet broadcast

ASSUME LiveAssumption == {MaxRows, MaxBeats, MaxLiveEras, MaxFrames} \subseteq Nat \ {0}

VARIABLES
    snapshot,  \* BoothStatusSnapshot rows; the id is the index
    eraOf,     \* the newest installation
    isActive,  \* it is open
    frames,    \* envelopes committed by a replica and not yet broadcast
    link,      \* the replica the console is connected to
    poll,      \* the reconciliation query: in flight, and its last data
    polled,    \* the query cache entry ["status", "current"]
    latest,    \* latestStatusRef: what is displayed
    lifecycle, \* installationStateRef
    since      \* no report of an earlier installation is held (history)

liveVars == <<snapshot, eraOf, isActive, frames, link, poll, polled, latest, lifecycle, since>>

Nothing == [id |-> 0, upd |-> 0, count |-> 1]   \* also the synthetic default status
Undefined == [status |-> Nothing, state |-> "undefined"]
NoPoll == [at |-> "idle", answer |-> Undefined, data |-> Undefined]

LiveInit ==
    /\ snapshot = <<>> /\ eraOf = 1 /\ isActive = TRUE
    /\ frames = {} /\ link = Offline
    /\ poll = NoPoll /\ polled = Undefined
    /\ latest = Nothing /\ lifecycle = "undefined" /\ since = 1

-----------------------------------------------------------------------------
(* The server.                                                             *)

View(i) == [id |-> i, upd |-> snapshot[i].upd, count |-> snapshot[i].count]
State == IF isActive THEN "active" ELSE "between_exhibitions"

(* GET /status: the row with the greatest (updatedAt, id) of the open era. *)
Current ==
    LET mine == {i \in DOMAIN snapshot : isActive /\ snapshot[i].era = eraOf}
        newest == {i \in mine : \A j \in mine : \/ snapshot[j].upd < snapshot[i].upd
                                                \/ snapshot[j].upd = snapshot[i].upd /\ j <= i}
    IN  IF mine = {} THEN Nothing ELSE View(CHOOSE i \in newest : TRUE)

Broadcasting(s, envelope) ==
    /\ Cardinality(frames) < MaxFrames
    /\ frames' = frames \cup {[envelope EXCEPT !.server = s]}
StatusFrame(status) == [server |-> Offline, status |-> status, state |-> "undefined"]
LifecycleFrame(state) == [server |-> Offline, status |-> Nothing, state |-> state]

(* The booth dates its reports.  They may arrive late and be older than    *)
(* those of the installation before.                                       *)
NewStatus(s, t) ==
    /\ isActive /\ Len(snapshot) < MaxRows
    /\ snapshot' = Append(snapshot, [era |-> eraOf, upd |-> t, count |-> 1])
    /\ Broadcasting(s, StatusFrame([id |-> Len(snapshot) + 1, upd |-> t, count |-> 1]))
    /\ UNCHANGED <<eraOf, isActive, link, poll, polled, latest, lifecycle, since>>

FoldedReports ==
    Cardinality({x \in (DOMAIN snapshot) \X (1..MaxBeats) : x[2] < snapshot[x[1]].count})

Heartbeat(s, i, t) ==
    /\ isActive /\ snapshot[i].era = eraOf /\ FoldedReports < MaxBeats /\ t >= snapshot[i].upd
    /\ snapshot' = [snapshot EXCEPT ![i].upd = t,
                                     ![i].count = snapshot[i].count + 1]
    /\ Broadcasting(s, StatusFrame([id |-> i, upd |-> t, count |-> snapshot[i].count + 1]))
    /\ UNCHANGED <<eraOf, isActive, link, poll, polled, latest, lifecycle, since>>

EndInstallation(s) ==
    /\ isActive /\ eraOf < MaxLiveEras
    /\ isActive' = FALSE
    /\ Broadcasting(s, LifecycleFrame("between_exhibitions"))
    /\ UNCHANGED <<snapshot, eraOf, link, poll, polled, latest, lifecycle, since>>

StartInstallation(s) ==
    /\ ~isActive
    /\ isActive' = TRUE /\ eraOf' = eraOf + 1
    /\ Broadcasting(s, LifecycleFrame("active"))
    /\ UNCHANGED <<snapshot, link, poll, polled, latest, lifecycle, since>>

-----------------------------------------------------------------------------
(* The console.                                                            *)

IsStaleFrame(head, status) ==
    IF status.upd # head.upd THEN status.upd < head.upd ELSE status.count < head.count

IsNewerThan(status, current) ==
    IF current = Nothing THEN TRUE
    ELSE IF status.id = current.id THEN ~IsStaleFrame(current, status)
    ELSE IF status.upd # current.upd THEN status.upd > current.upd
    ELSE status.id > current.id

(* syncStatus: the display follows the newest report; the synthetic status *)
(* empties it.                                                             *)
Display(status) ==
    latest' = IF status = Nothing THEN Nothing
              ELSE IF IsNewerThan(status, latest) THEN status ELSE latest

Connect(s) ==
    /\ link # s
    /\ link' = s
    /\ UNCHANGED <<snapshot, eraOf, isActive, frames, poll, polled, latest, lifecycle, since>>

(* The broadcast of a committed envelope: heard if the console is on that  *)
(* replica.                                                                *)
Unheard(f) ==
    /\ f.server # link
    /\ frames' = frames \ {f}
    /\ UNCHANGED <<snapshot, eraOf, isActive, link, poll, polled, latest, lifecycle, since>>

(* A console that holds nothing holds no report older than this from then  *)
(* on, but for frames that come late.                                      *)
FromNowOn == IF isActive THEN eraOf ELSE eraOf + 1

(* acceptLiveStatus, applyStatusToCache: between exhibitions no frame      *)
(* counts; one that is newer replaces the cached status.                   *)
HearStatus(f) ==
    LET ignored == "between_exhibitions" \in {lifecycle, polled.state}
        newer == polled.state = "undefined" \/ IsNewerThan(f.status, polled.status)
    IN  /\ f.server = link /\ f.state = "undefined"
        /\ frames' = frames \ {f}
        /\ IF ignored \/ ~newer THEN UNCHANGED <<polled, latest>>
           ELSE /\ polled' = [status |-> f.status,
                             state |-> IF polled.state = "undefined" THEN "live" ELSE polled.state]
                /\ Display(f.status)
        /\ since' = IF ignored \/ ~newer \/ snapshot[f.status.id].era >= since THEN since
                    ELSE snapshot[f.status.id].era
        /\ UNCHANGED <<snapshot, eraOf, isActive, link, poll, lifecycle>>

(* An installation envelope clears the display and resets every status     *)
(* query, the one in flight included.                                      *)
(* Mutant: a poll in flight survives the reset. *)
HearLifecycleKeepsPoll(f) ==
    /\ f.server = link /\ f.state # "undefined"
    /\ frames' = frames \ {f}
    /\ lifecycle' = f.state /\ latest' = Nothing /\ polled' = Undefined
    /\ since' = FromNowOn
    /\ UNCHANGED <<snapshot, eraOf, isActive, link, poll>>
HearLifecycle(f) ==
    /\ f.server = link /\ f.state # "undefined"
    /\ frames' = frames \ {f}
    /\ lifecycle' = f.state /\ latest' = Nothing /\ polled' = Undefined
    /\ poll' = NoPoll /\ since' = FromNowOn
    /\ UNCHANGED <<snapshot, eraOf, isActive, link>>

(* The poll: GET /status reads the row and then the lifecycle.             *)
PollRow ==
    /\ poll.at = "idle"
    /\ poll' = [poll EXCEPT !.at = "row", !.answer = [status |-> Current, state |-> "undefined"]]
    /\ UNCHANGED <<snapshot, eraOf, isActive, frames, link, polled, latest, lifecycle, since>>

PollState ==
    /\ poll.at = "row"
    /\ poll' = [poll EXCEPT !.at = "answered", !.answer.state = State]
    /\ UNCHANGED <<snapshot, eraOf, isActive, frames, link, polled, latest, lifecycle, since>>

(* The effect on new data.  A cached status that is newer is kept, unless  *)
(* the answer says that there is none because nothing is open.             *)
Reconciled(answer) ==
    LET preserve == answer.status # Nothing \/ answer.state = "active"
        outdated == answer.status = Nothing \/ ~IsNewerThan(answer.status, polled.status)
    IN  IF polled # Undefined /\ polled.status # Nothing /\ preserve /\ outdated
        THEN [answer EXCEPT !.status = polled.status] ELSE answer

Closed == [status |-> Nothing, state |-> "between_exhibitions"]

PollAnswer ==
    /\ poll.at = "answered"
    /\ poll' = [NoPoll EXCEPT !.data = poll.answer]
    /\ IF poll.answer = poll.data THEN UNCHANGED <<polled, latest, lifecycle, since>>
       ELSE /\ polled' = Reconciled(poll.answer)
            /\ lifecycle' = poll.answer.state
            /\ Display(Reconciled(poll.answer).status)
            /\ since' = IF poll.answer = Closed THEN FromNowOn ELSE since
    /\ UNCHANGED <<snapshot, eraOf, isActive, frames, link>>

PollFails ==
    /\ poll.at # "idle"
    /\ poll' = [NoPoll EXCEPT !.data = poll.data]
    /\ UNCHANGED <<snapshot, eraOf, isActive, frames, link, polled, latest, lifecycle, since>>

LiveNext ==
    \/ \E s \in Servers :
         \/ \E t \in 1..MaxRows : NewStatus(s, t) \/ \E i \in DOMAIN snapshot : Heartbeat(s, i, t)
         \/ EndInstallation(s) \/ StartInstallation(s)
    \/ \E s \in Servers \cup {Offline} : Connect(s)
    \/ \E f \in frames : Unheard(f) \/ HearStatus(f) \/ HearLifecycle(f)
    \/ PollRow \/ PollState \/ PollAnswer \/ PollFails

LiveSpec == LiveInit /\ [][LiveNext]_liveVars

-----------------------------------------------------------------------------
(* A console whose last poll answered what the server would answer now     *)
(* knows the lifecycle, shows nothing between exhibitions, and during one  *)
(* displays exactly that answer, whatever frames are still on their way,   *)
(* whatever it missed on another replica, and in whatever order the frames,*)
(* the poll's two reads and the lifecycle reached it.  There is one        *)
(* exception, since the ordering of reports is reset by lifecycle frames   *)
(* and by answers between exhibitions only: if the console got neither of  *)
(* them since the installation began, or a late frame of an earlier one    *)
(* after it, it may go on showing a report of that earlier installation    *)
(* which is dated no earlier than the newest of the open one, or while     *)
(* that one has none.                                                      *)
ConsoleIsUpToDate ==
    poll.data = [status |-> Current, state |-> State] =>
      /\ lifecycle = State
      /\ ~isActive => latest = Nothing
      /\ \/ latest = Current
         \/ /\ since < eraOf /\ latest # Nothing /\ snapshot[latest.id].era < eraOf
            /\ IsNewerThan(latest, Current)
=============================================================================
