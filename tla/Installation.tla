----------------------------- MODULE Installation -----------------------------
(***************************************************************************)
(* Installations, the eras of the booth, and the recordings filed in them:  *)
(* lib/installation.ts, routes/installations.ts and the upload, decision    *)
(* and deletion of routes/messages.ts.                                     *)
(*                                                                         *)
(* A writer holds its era's row FOR SHARE for the length of its             *)
(* transaction and a close-out takes it exclusively, so each transaction is *)
(* one step. What a handler read before its transaction may be out of date  *)
(* in it. A purge is not one transaction: every statement of it is a step.  *)
(*                                                                         *)
(* Recordings are content-addressed: one File row, one blob and at most one *)
(* Message row per recording; the rows have new ids when they are recreated.*)
(***************************************************************************)
EXTENDS Naturals, FiniteSets

CONSTANTS
  Recordings,  \* contents, by their hash
  Requests,    \* requests of the booth the server handles at the same time
  Purgers,     \* admins who purge at the same time
  MaxEras,     \* bound: installations ever started
  MaxMessages, \* bound: message rows ever created
  MaxFiles     \* bound: file rows ever created

ASSUME InstallationConstants ==
  /\ IsFiniteSet(Recordings) /\ Recordings # {}
  /\ MaxEras \in Nat /\ MaxMessages \in Nat /\ MaxFiles \in Nat

VARIABLES
  era,       \* era[e]: not yet started, open, ended, or purged
  summary,   \* summary[e]: the counters frozen when e ended
  msg,       \* msg[r]: the message row of recording r, id 0 for none
  file,      \* file[r]: the id of its file row, 0 for none
  blob,      \* the recordings whose audio is in the blob store
  slot,      \* the recordings the booth has an upload URL for
  call,      \* call[q]: a request of the booth in progress
  op,        \* an operator's request in progress
  purge,     \* purge[p]: a purge in progress
  nmsg,      \* message ids given out
  nfile,     \* file ids given out
  misfiled   \* history: a purge re-homed a recording that had landed, or
             \* into an installation that had ended

vars == <<era, summary, msg, file, blob, slot, call, op, purge, nmsg, nfile, misfiled>>

Eras == 1 .. MaxEras

(* "received", the queue's status before "pending" replaced it, is "pending":  *)
(* every statement here treats the two alike.                              *)
Landed == {"pending", "approved", "rejected"}

NoMessage == [id |-> 0, status |-> "none", era |-> 0]
NoSummary == [all |-> 0, approved |-> 0, rejected |-> 0]
Someone == CHOOSE r \in Recordings : TRUE
(* file is what POST / got from its upsert; id what it answers with, or what *)
(* POST /complete was called with; era what the latter read of the message.  *)
NoCall == [pc |-> "idle", rec |-> Someone, file |-> 0, id |-> 0, era |-> 0]
NoOp == [pc |-> "idle", rec |-> Someone, id |-> 0, era |-> 0]
(* inFlight, owned: <<recording, row id>> pairs; gone, checked: recordings   *)
(* whose blob is still to be looked at, and to be deleted.                  *)
NoPurge == [pc |-> "idle", era |-> 0, to |-> 0, inFlight |-> {}, owned |-> {},
            gone |-> {}, checked |-> {}]

Init ==
  /\ era = [e \in Eras |-> "unused"] /\ summary = [e \in Eras |-> NoSummary]
  /\ msg = [r \in Recordings |-> NoMessage] /\ file = [r \in Recordings |-> 0]
  /\ blob = {} /\ slot = {}
  /\ call = [q \in Requests |-> NoCall] /\ op = NoOp
  /\ purge = [p \in Purgers |-> NoPurge]
  /\ nmsg = 0 /\ nfile = 0 /\ misfiled = FALSE

(* The era with endedAt IS NULL.                                           *)
Open(e) == e \in Eras /\ era[e] = "open"
NoneOpen == \A e \in Eras : era[e] # "open"

-----------------------------------------------------------------------------
(* Starting and ending an installation                                     *)

(* computeInstallationSummary: an upload in flight is not a message.        *)
Count(m, e, S) == Cardinality({r \in Recordings : m[r].era = e /\ m[r].status \in S})
Summarize(m, e) ==
  [all |-> Count(m, e, Landed), approved |-> Count(m, e, {"approved"}),
   rejected |-> Count(m, e, {"rejected"})]

(* closeOutInstallation: the queue is drained, then the counters freeze.    *)
Drained(e) ==
  [r \in Recordings |-> IF msg[r].era = e /\ msg[r].status = "pending"
                        THEN [msg[r] EXCEPT !.status = "rejected"] ELSE msg[r]]

CloseOut(e) ==
  /\ msg' = Drained(e)
  /\ summary' = [summary EXCEPT ![e] = Summarize(Drained(e), e)]

(* POST /:id/end                                                           *)
EndEra(e) ==
  /\ Open(e)
  /\ CloseOut(e)
  /\ era' = [era EXCEPT ![e] = "ended"]
  /\ UNCHANGED <<file, blob, slot, call, op, purge, nmsg, nfile, misfiled>>

(* POST /: ends the open installation, if there is one, and starts the next *)
(* one. Two admins at once are decided by the conditional claim and by the   *)
(* index that allows one open row; the loser changes nothing.               *)
StartEra(e) ==
  /\ e \in Eras /\ era[e] = "unused" /\ \A i \in Eras : i < e => era[i] # "unused"
  /\ \/ /\ NoneOpen
        /\ era' = [era EXCEPT ![e] = "open"]
        /\ UNCHANGED <<msg, summary>>
     \/ \E o \in Eras :
          /\ Open(o) /\ CloseOut(o)
          /\ era' = [era EXCEPT ![o] = "ended", ![e] = "open"]
  /\ UNCHANGED <<file, blob, slot, call, op, purge, nmsg, nfile, misfiled>>

-----------------------------------------------------------------------------
(* The booth's upload                                                      *)

Goto(q, c) == call' = [call EXCEPT ![q] = c]
EndCall(q) == Goto(q, NoCall)

(* The message of recording r, as a request that asks for it by file or by   *)
(* hash finds it: resumed with a new upload URL while it is still uploading, *)
(* refused when it has landed.                                             *)
Resume(q, r) ==
  IF msg[r].status = "uploading"
  THEN Goto(q, [NoCall EXCEPT !.pc = "slot", !.rec = r, !.id = msg[r].id])
  ELSE EndCall(q)

(* POST /messages. A booth that gave up waiting asks again while its first   *)
(* request is still being handled.                                         *)
CreateStart(q, r) ==
  /\ call[q].pc = "idle" /\ ~NoneOpen
  /\ IF msg[r].id = 0 THEN Goto(q, [NoCall EXCEPT !.pc = "upsert", !.rec = r]) ELSE Resume(q, r)
  /\ UNCHANGED <<era, summary, msg, file, blob, slot, op, purge, nmsg, nfile, misfiled>>

(* file.upsert by the content's hash                                       *)
UpsertFile(q, pc) ==
  LET r == call[q].rec IN
  \/ /\ file[r] # 0
     /\ Goto(q, [call[q] EXCEPT !.pc = pc, !.file = file[r]])
     /\ UNCHANGED <<file, nfile>>
  \/ /\ file[r] = 0 /\ nfile < MaxFiles
     /\ nfile' = nfile + 1 /\ file' = [file EXCEPT ![r] = nfile + 1]
     /\ Goto(q, [call[q] EXCEPT !.pc = pc, !.file = nfile + 1])

CreateFile(q) ==
  /\ call[q].pc = "upsert"
  /\ UpsertFile(q, "find")
  /\ UNCHANGED <<era, summary, msg, blob, slot, op, purge, nmsg, misfiled>>

(* The file the request holds is still there, and a message refers to it.    *)
FileThere(q) == file[call[q].rec] = call[q].file
Taken(q) == FileThere(q) /\ msg[call[q].rec].id # 0

(* The message another request may have created since                      *)
CreateFind(q) ==
  /\ call[q].pc = "find"
  /\ IF Taken(q) THEN Resume(q, call[q].rec) ELSE Goto(q, [call[q] EXCEPT !.pc = "insert"])
  /\ UNCHANGED <<era, summary, msg, file, blob, slot, op, purge, nmsg, nfile, misfiled>>

(* message.create in the open era                                          *)
CreateInsert(q) ==
  /\ call[q].pc \in {"insert", "reinsert"} /\ FileThere(q) /\ ~Taken(q) /\ nmsg < MaxMessages
  /\ \E e \in Eras :
       Open(e) /\ msg' = [msg EXCEPT ![call[q].rec] =
                            [id |-> nmsg + 1, status |-> "uploading", era |-> e]]
  /\ nmsg' = nmsg + 1
  /\ Goto(q, [call[q] EXCEPT !.pc = "slot", !.id = nmsg + 1])
  /\ UNCHANGED <<era, summary, file, blob, slot, op, purge, nfile, misfiled>>

(* The unique key fails: another request created the message first.         *)
CreateRaced(q) ==
  /\ call[q].pc = "insert" /\ Taken(q) /\ ~NoneOpen
  /\ Resume(q, call[q].rec)
  /\ UNCHANGED <<era, summary, msg, file, blob, slot, op, purge, nmsg, nfile, misfiled>>

(* The foreign key fails: a purge collected the file meanwhile. It is        *)
(* created again, once.                                                    *)
CreateRetry(q) ==
  /\ call[q].pc = "insert" /\ ~FileThere(q) /\ ~NoneOpen
  /\ UpsertFile(q, "reinsert")
  /\ UNCHANGED <<era, summary, msg, blob, slot, op, purge, nmsg, misfiled>>

(* 409 between exhibitions, or an error when the second insert fails too.   *)
CreateFail(q) ==
  /\ \/ call[q].pc \in {"insert", "reinsert"} /\ NoneOpen
     \/ call[q].pc = "reinsert" /\ (Taken(q) \/ ~FileThere(q))
  /\ EndCall(q)
  /\ UNCHANGED <<era, summary, msg, file, blob, slot, op, purge, nmsg, nfile, misfiled>>

(* A message is "mine" while it is the row the request holds the id of and   *)
(* it is still uploading.                                                  *)
StillUploading(q) ==
  msg[call[q].rec].id = call[q].id /\ msg[call[q].rec].status = "uploading"

(* uploadSlot: a signed URL for a message that is still uploading           *)
OpenSlot(q) ==
  /\ call[q].pc = "slot"
  /\ slot' = IF ~NoneOpen /\ StillUploading(q) THEN slot \cup {call[q].rec} ELSE slot
  /\ EndCall(q)
  /\ UNCHANGED <<era, summary, msg, file, blob, op, purge, nmsg, nfile, misfiled>>

(* The booth puts the audio.                                               *)
Upload(r) ==
  /\ r \in slot
  /\ slot' = slot \ {r} /\ blob' = blob \cup {r}
  /\ UNCHANGED <<era, summary, msg, file, call, op, purge, nmsg, nfile, misfiled>>

(* POST /messages/:id/complete reads the message, then asks for the blob. A *)
(* message that has landed is left as it is.                               *)
CompleteRead(q, r) ==
  /\ call[q].pc = "idle" /\ msg[r].status = "uploading"
  /\ Goto(q, [NoCall EXCEPT !.pc = "head", !.rec = r, !.id = msg[r].id, !.era = msg[r].era])
  /\ UNCHANGED <<era, summary, msg, file, blob, slot, op, purge, nmsg, nfile, misfiled>>

CompleteHead(q) ==
  /\ call[q].pc = "head"
  /\ IF call[q].rec \in blob THEN Goto(q, [call[q] EXCEPT !.pc = "land"]) ELSE EndCall(q)
  /\ UNCHANGED <<era, summary, msg, file, blob, slot, op, purge, nmsg, nfile, misfiled>>

(* Mutant: the recording stays where it was filed when it was begun. *)
CompleteLandWhereFiled(q) ==
  /\ call[q].pc = "land"
  /\ msg' = IF ~NoneOpen /\ StillUploading(q)
            THEN [msg EXCEPT ![call[q].rec] = [@ EXCEPT !.status = "pending"]] ELSE msg
  /\ EndCall(q)
  /\ UNCHANGED <<era, summary, file, blob, slot, op, purge, nmsg, nfile, misfiled>>

(* The recording lands in the open era: its own if that is the one, or it    *)
(* is re-filed. With none open it stays as it is, and so does a message      *)
(* that was deleted or landed meanwhile.                                   *)
CompleteLand(q) ==
  /\ call[q].pc = "land"
  /\ \/ \E e \in Eras :
          /\ Open(e) /\ StillUploading(q)
          /\ msg' = [msg EXCEPT ![call[q].rec] =
               [@ EXCEPT !.status = "pending",
                         !.era = IF e = call[q].era THEN msg[call[q].rec].era ELSE e]]
     \/ (NoneOpen \/ ~StillUploading(q)) /\ UNCHANGED msg
  /\ EndCall(q)
  /\ UNCHANGED <<era, summary, file, blob, slot, op, purge, nmsg, nfile, misfiled>>

-----------------------------------------------------------------------------
(* An operator decides or deletes                                          *)

OpRead(r, what) ==
  /\ op.pc = "idle" /\ msg[r].id # 0
  /\ what = "decide" => msg[r].status # "uploading"
  /\ op' = [pc |-> what, rec |-> r, id |-> msg[r].id, era |-> msg[r].era]
  /\ UNCHANGED <<era, summary, msg, file, blob, slot, call, purge, nmsg, nfile, misfiled>>

(* withOpenEra: refused when the era that was read has ended; an error when *)
(* the row is gone.                                                        *)
OpWrite ==
  /\ op.pc # "idle"
  /\ LET allowed == Open(op.era) /\ msg[op.rec].id = op.id IN
     \/ allowed /\ op.pc = "delete" /\ msg' = [msg EXCEPT ![op.rec] = NoMessage]
     \/ /\ allowed /\ op.pc = "decide"
        /\ \E s \in {"approved", "rejected"} :
             msg' = [msg EXCEPT ![op.rec] = [@ EXCEPT !.status = s]]
     \/ ~allowed /\ UNCHANGED msg
  /\ op' = NoOp
  /\ UNCHANGED <<era, summary, file, blob, slot, call, purge, nmsg, nfile, misfiled>>

-----------------------------------------------------------------------------
(* DELETE /installations/:id, statement by statement                       *)

Proceed(p, q) == purge' = [purge EXCEPT ![p] = q]

(* Mutant: uploads in flight are not looked for. *)
PurgeReadNoUploads(p, e) ==
  /\ purge[p].pc = "idle" /\ era[e] = "ended"
  /\ Proceed(p, [NoPurge EXCEPT !.pc = "files", !.era = e])
  /\ UNCHANGED <<era, summary, msg, file, blob, slot, call, op, nmsg, nfile, misfiled>>

(* The uploads in flight of an era that has ended                          *)
PurgeRead(p, e) ==
  /\ purge[p].pc = "idle" /\ era[e] = "ended"
  /\ LET up == {r \in Recordings : msg[r].era = e /\ msg[r].status = "uploading"} IN
     Proceed(p, [NoPurge EXCEPT !.pc = IF up = {} THEN "files" ELSE "open", !.era = e,
                                !.inFlight = {<<r, msg[r].id>> : r \in up}])
  /\ UNCHANGED <<era, summary, msg, file, blob, slot, call, op, nmsg, nfile, misfiled>>

(* The open era, or 409 uploads_in_flight                                  *)
PurgeOpen(p) ==
  /\ purge[p].pc = "open"
  /\ \/ \E e \in Eras : Open(e) /\ Proceed(p, [purge[p] EXCEPT !.pc = "move", !.to = e])
     \/ NoneOpen /\ Proceed(p, NoPurge)
  /\ UNCHANGED <<era, summary, msg, file, blob, slot, call, op, nmsg, nfile, misfiled>>

(* updateMany by id: neither the messages' status nor the era is looked at   *)
(* again. The foreign key refuses an era that is gone.                     *)
PurgeMove(p) ==
  /\ purge[p].pc = "move"
  /\ LET to == purge[p].to
         moved == {r \in Recordings : <<r, msg[r].id>> \in purge[p].inFlight}
     IN
     \/ /\ era[to] # "purged"
        /\ msg' = [r \in Recordings |->
                     IF r \in moved THEN [msg[r] EXCEPT !.era = to] ELSE msg[r]]
        /\ misfiled' = (misfiled \/ era[to] = "ended"
                         \/ \E r \in moved : msg[r].status \in Landed /\ msg[r].era # to)
        /\ Proceed(p, [purge[p] EXCEPT !.pc = "files"])
     \/ era[to] = "purged" /\ Proceed(p, NoPurge) /\ UNCHANGED <<msg, misfiled>>
  /\ UNCHANGED <<era, summary, file, blob, slot, call, op, nmsg, nfile>>

(* filesOwnedByInstallation                                                *)
PurgeFiles(p) ==
  /\ purge[p].pc = "files"
  /\ Proceed(p, [purge[p] EXCEPT !.pc = "rows",
       !.owned = {<<r, file[r]>> : r \in {s \in Recordings : msg[s].era = purge[p].era}}])
  /\ UNCHANGED <<era, summary, msg, file, blob, slot, call, op, nmsg, nfile, misfiled>>

(* One transaction deletes the era's rows and the era; another purge may     *)
(* have been first.                                                        *)
PurgeRows(p) ==
  /\ purge[p].pc = "rows"
  /\ LET e == purge[p].era IN
     \/ /\ era[e] # "purged"
        /\ msg' = [r \in Recordings |-> IF msg[r].era = e THEN NoMessage ELSE msg[r]]
        /\ era' = [era EXCEPT ![e] = "purged"]
        /\ Proceed(p, [purge[p] EXCEPT !.pc = "refs"])
     \/ era[e] = "purged" /\ Proceed(p, NoPurge) /\ UNCHANGED <<msg, era>>
  /\ UNCHANGED <<summary, file, blob, slot, call, op, nmsg, nfile, misfiled>>

(* A message refers to the file row f.                                      *)
Referenced(f) == file[f[1]] = f[2] /\ msg[f[1]].id # 0

(* purgeOrphanFiles: the files nothing refers to                            *)
PurgeRefs(p) ==
  /\ purge[p].pc = "refs"
  /\ Proceed(p, [purge[p] EXCEPT !.pc = "filerows",
       !.owned = {f \in purge[p].owned : ~Referenced(f)}])
  /\ UNCHANGED <<era, summary, msg, file, blob, slot, call, op, nmsg, nfile, misfiled>>

(* deleteMany by id fails as a whole when a message refers to one of them     *)
(* again ...                                                               *)
PurgeFileRows(p) ==
  /\ purge[p].pc = "filerows"
  /\ LET held == \E f \in purge[p].owned : Referenced(f) IN
     \/ /\ ~held
        /\ file' = [r \in Recordings |-> IF <<r, file[r]>> \in purge[p].owned THEN 0 ELSE file[r]]
        /\ Proceed(p, [purge[p] EXCEPT !.pc = "blobs", !.gone = {f[1] : f \in purge[p].owned}])
     \/ held /\ Proceed(p, [purge[p] EXCEPT !.pc = "each"]) /\ UNCHANGED file
  /\ UNCHANGED <<era, summary, msg, blob, slot, call, op, nmsg, nfile, misfiled>>

(* ... and is repeated row by row: one that is referred to, or gone, is       *)
(* retained.                                                               *)
PurgeFileRow(p) ==
  /\ purge[p].pc = "each"
  /\ \E f \in purge[p].owned :
       LET r == f[1]
           deleted == file[r] = f[2] /\ ~Referenced(f)
           left == purge[p].owned \ {f}
       IN
       /\ file' = IF deleted THEN [file EXCEPT ![r] = 0] ELSE file
       /\ Proceed(p, [purge[p] EXCEPT !.pc = IF left = {} THEN "blobs" ELSE "each", !.owned = left,
                                      !.gone = IF deleted THEN @ \cup {r} ELSE @])
  /\ UNCHANGED <<era, summary, msg, blob, slot, call, op, nmsg, nfile, misfiled>>

(* A worker of the pool takes a blob whose file row was deleted and checks   *)
(* that the file was not created again ...                                 *)
PurgeCheck(p) ==
  /\ purge[p].pc = "blobs"
  /\ \E r \in purge[p].gone :
       Proceed(p, [purge[p] EXCEPT !.gone = @ \ {r},
         !.checked = IF file[r] = 0 THEN @ \cup {r} ELSE @])
  /\ UNCHANGED <<era, summary, msg, file, blob, slot, call, op, nmsg, nfile, misfiled>>

(* ... and deletes it in its next call, which may fail: it is reported.      *)
PurgeBlob(p) ==
  /\ purge[p].pc = "blobs"
  /\ \E r \in purge[p].checked :
       /\ blob' \in {blob, blob \ {r}}
       /\ Proceed(p, [purge[p] EXCEPT !.checked = @ \ {r}])
  /\ UNCHANGED <<era, summary, msg, file, slot, call, op, nmsg, nfile, misfiled>>

PurgeEnd(p) ==
  /\ purge[p].pc = "blobs" /\ purge[p].gone = {} /\ purge[p].checked = {}
  /\ Proceed(p, NoPurge)
  /\ UNCHANGED <<era, summary, msg, file, blob, slot, call, op, nmsg, nfile, misfiled>>

-----------------------------------------------------------------------------

BoothStep(q) ==
  \/ \E r \in Recordings : CreateStart(q, r) \/ CompleteRead(q, r)
  \/ CreateFile(q) \/ CreateFind(q) \/ CreateInsert(q) \/ CreateRaced(q) \/ CreateRetry(q)
  \/ CreateFail(q) \/ OpenSlot(q) \/ CompleteHead(q) \/ CompleteLand(q)

PurgeStep(p) ==
  \/ \E e \in Eras : PurgeRead(p, e)
  \/ PurgeOpen(p) \/ PurgeMove(p) \/ PurgeFiles(p) \/ PurgeRows(p)
  \/ PurgeRefs(p) \/ PurgeFileRows(p) \/ PurgeFileRow(p) \/ PurgeCheck(p) \/ PurgeBlob(p) \/ PurgeEnd(p)

Next ==
  \/ \E e \in Eras : StartEra(e) \/ EndEra(e)
  \/ \E q \in Requests : BoothStep(q)
  \/ \E r \in Recordings : Upload(r) \/ \E what \in {"decide", "delete"} : OpRead(r, what)
  \/ OpWrite
  \/ \E p \in Purgers : PurgeStep(p)

Spec == Init /\ [][Next]_vars

-----------------------------------------------------------------------------
(* Properties                                                              *)

(* An installation that ended is final: nothing in it waits for a decision   *)
(* and its frozen counters agree with its recordings, whatever uploads,      *)
(* decisions and deletions were under way when it ended and whatever is      *)
(* purged, as long as no purge misfiles a recording.                       *)
EndedIsSettled ==
  ~misfiled => \A e \in Eras : era[e] = "ended" =>
    summary[e] = Summarize(msg, e) /\ Count(msg, e, {"pending"}) = 0

(* A purge does not lose a recording the booth is still sending: its row is  *)
(* deleted by an operator or not at all, as long as no purge misfiles.       *)
UploadsSurvive ==
  [][\A r \in Recordings :
       msg[r].status = "uploading" /\ msg'[r].id # msg[r].id => misfiled \/ OpWrite]_vars

(* "The frozen counters agree with what browsing this era afterwards          *)
(* reports": of closeOutInstallation, and of every ended era.                *)
CountersAgree == \A e \in Eras : era[e] = "ended" => summary[e] = Summarize(msg, e)

(* "Leave a resurrected blob alone: deleting it would take the audio out     *)
(* from under a live message": a recording that landed has its audio.        *)
AudioKept == \A r \in Recordings : msg[r].status \in Landed => r \in blob
=============================================================================
