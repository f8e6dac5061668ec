------------------------------- MODULE Pipeline -------------------------------
(***************************************************************************)
(* The AI pipeline of one message: lib/ai/pipeline.ts, its recovery         *)
(* sweeper, the push worker's callbacks and the operators' routes that      *)
(* write the same Transcription and Moderation rows.                       *)
(*                                                                         *)
(* A job is a running call of the pipeline (a kick, a request handler): its *)
(* pc names the await it is suspended at, and everything it reads, it reads *)
(* there. A transaction that locks the message's row is one step. Rows are  *)
(* numbered by createdAt. Texts that trim to nothing are Empty; a NULL      *)
(* transcript is Empty too.                                                *)
(*                                                                         *)
(* A step is served in-process ("provider"), by an app that posts the       *)
(* result back ("push"), or not at all ("disabled"). The configuration      *)
(* comes from the environment and does not change, so a pending row carries *)
(* the provider of its mode and the WHERE clauses on the provider's name    *)
(* are true whenever the row is still pending.                             *)
(***************************************************************************)
EXTENDS Naturals

CONSTANTS
  Jobs,              \* bound: pipeline calls in flight at one time
  Texts,             \* transcripts, Empty among them
  Foreign,           \* the transcripts that are not in English
  Translations,      \* what a translation may say
  Empty,             \* text of a silent recording
  Configs,           \* the configurations to consider
  Clients,           \* who else is there: "worker", "operator"
  InitStatuses,      \* how the message may start
  MaxTranscriptions, \* bound: transcription rows
  MaxModerations,    \* bound: moderation rows
  MaxCrashes,        \* bound: restarts of the API
  MaxSlow            \* bound: provider answers later than the stale threshold

Modes == {"provider", "push", "disabled"}

(* resolveAiConfig: how each step is served.                                *)
Config == [transcription : Modes, translation : Modes, moderation : Modes]

ASSUME PipelineConstants ==
  /\ Empty \in Texts /\ Foreign \subseteq Texts \ {Empty}
  /\ Configs \subseteq Config
  /\ InitStatuses \subseteq {"received", "pending"}
  /\ MaxTranscriptions \in Nat /\ MaxModerations \in Nat
  /\ MaxCrashes \in Nat /\ MaxSlow \in Nat

VARIABLES
  config,   \* the configuration of this deployment
  status,   \* Message.status; "decided" is approved or rejected
  trs,      \* the transcription rows
  ntr,      \* how many there are; the newest is number ntr
  mods,     \* the moderation rows
  nmod,     \* how many there are
  jobs,     \* the pipeline calls in flight
  crashes,  \* restarts so far
  slow      \* provider answers that outlasted the stale threshold so far

vars == <<config, status, trs, ntr, mods, nmod, jobs, crashes, slow>>

TrIds == 1 .. MaxTranscriptions
ModIds == 1 .. MaxModerations
AllTexts == Texts \cup Translations
RowStatuses == {"none", "pending", "succeeded", "failed"}

(* prov tells who produced the transcript, old that the row was created     *)
(* before the stale threshold; tstat and ttext are the translation.         *)
Transcription ==
  [status : RowStatuses, text : Texts, prov : {"server", "push", "on_device"},
   old : BOOLEAN, tstat : RowStatuses, ttext : AllTexts]

(* tr is 0 for a verdict that names no transcript. judged is the text the    *)
(* verdict is about, which the code only sees as a hash.                    *)
Moderation == [status : RowStatuses, tr : Nat, judged : AllTexts]

Pcs == {"idle", "kick", "begun", "transcribing", "nudge", "translate", "claim",
        "translating", "moderate", "moderating", "errread", "errwrite"}

Job == [pc : Pcs, seen : Nat, tr : Nat, mod : Nat]

NoTranscription ==
  [status |-> "none", text |-> Empty, prov |-> "server", old |-> FALSE,
   tstat |-> "none", ttext |-> Empty]
NoModeration == [status |-> "none", tr |-> 0, judged |-> Empty]
Idle == [pc |-> "idle", seen |-> 0, tr |-> 0, mod |-> 0]

(* A recording has landed. With an in-process provider the upload's handler *)
(* has just scheduled the pipeline.                                        *)
Init ==
  /\ config \in Configs
  /\ status \in InitStatuses
  /\ trs = [t \in TrIds |-> NoTranscription] /\ ntr = 0
  /\ mods = [m \in ModIds |-> NoModeration] /\ nmod = 0
  /\ \E j \in Jobs :
       jobs = [i \in Jobs |->
         IF i = j /\ config.transcription = "provider" THEN [Idle EXCEPT !.pc = "kick"] ELSE Idle]
  /\ crashes = 0 /\ slow = 0

-----------------------------------------------------------------------------
(* Queries                                                                 *)

(* findFirst where status succeeded, newest first: t, or none when t is 0.  *)
LatestSucceeded(t) ==
  /\ t = 0 \/ (t \in TrIds /\ trs[t].status = "succeeded")
  /\ \A u \in TrIds : trs[u].status = "succeeded" => u <= t

(* The same for pending rows; there is one.                                *)
NewestPending(t) ==
  /\ t \in TrIds /\ trs[t].status = "pending"
  /\ \A u \in TrIds : trs[u].status = "pending" => u <= t

NonePending == \A u \in TrIds : trs[u].status # "pending"

(* The newest pending verdict among those of the transcripts in S.          *)
NewestPendingVerdict(m, S) ==
  /\ m \in ModIds /\ mods[m].status = "pending" /\ mods[m].tr \in S
  /\ \A k \in ModIds : mods[k].status = "pending" /\ mods[k].tr \in S => k <= m

NoPendingVerdict(S) ==
  \A k \in ModIds : ~(mods[k].status = "pending" /\ mods[k].tr \in S)

(* What moderation judges: the translation if there is one.                 *)
ReviewText(t) ==
  IF trs[t].tstat = "succeeded" /\ trs[t].ttext # Empty THEN trs[t].ttext ELSE trs[t].text

(* updateMany(status in pending, succeeded -> failed): the verdicts about   *)
(* the transcripts in S no longer count.                                   *)
Superseded(S) ==
  [m \in ModIds |->
     IF mods[m].tr \in S /\ mods[m].status \in {"pending", "succeeded"}
     THEN [mods[m] EXCEPT !.status = "failed"] ELSE mods[m]]

Everything == TrIds \cup {0}

Goto(j, job) == jobs' = [jobs EXCEPT ![j] = job]
End(j) == Goto(j, Idle)
At(pc, t) == [Idle EXCEPT !.pc = pc, !.tr = t]

AddTranscription(row) ==
  /\ ntr < MaxTranscriptions
  /\ ntr' = ntr + 1
  /\ trs' = [trs EXCEPT ![ntr + 1] = row]

(* Mutant: the next row takes the same number. *)
AddModerationUncounted(row) ==
  /\ nmod < MaxModerations
  /\ mods' = [mods EXCEPT ![nmod + 1] = row]
  /\ UNCHANGED nmod

AddModeration(row) ==
  /\ nmod < MaxModerations
  /\ nmod' = nmod + 1
  /\ mods' = [mods EXCEPT ![nmod + 1] = row]

-----------------------------------------------------------------------------
(* runTranscription                                                        *)

(* The scheduled call, or POST /:id/transcribe, reads the latest transcript *)
BeginTranscription(j) ==
  /\ jobs[j].pc = "kick"
  /\ \E t \in 0 .. ntr : LatestSucceeded(t) /\ Goto(j, [Idle EXCEPT !.pc = "begun", !.seen = t])
  /\ UNCHANGED <<config, status, trs, ntr, mods, nmod, crashes, slow>>

OperatorTranscribe(j) ==
  /\ "operator" \in Clients /\ jobs[j].pc = "idle"
  /\ Goto(j, At("kick", 0))
  /\ UNCHANGED <<config, status, trs, ntr, mods, nmod, crashes, slow>>

(* A newer transcript arrived since BeginTranscription, or another attempt  *)
(* is pending and not yet stale.                                           *)
SkipTranscription(j) ==
  /\ jobs[j].pc = "begun"
  /\ \/ ~LatestSucceeded(jobs[j].seen)
     \/ config.transcription = "provider" /\ \E p \in TrIds : NewestPending(p) /\ ~trs[p].old
  /\ End(j)
  /\ UNCHANGED <<config, status, trs, ntr, mods, nmod, crashes, slow>>

(* Push mode: reuse the pending row or create one, and leave it to the app. *)
PreparePush(j) ==
  /\ jobs[j].pc = "begun" /\ config.transcription = "push" /\ LatestSucceeded(jobs[j].seen)
  /\ \/ ~NonePending /\ UNCHANGED <<trs, ntr>>
     \/ NonePending /\ AddTranscription([NoTranscription EXCEPT !.status = "pending", !.prov = "push"])
  /\ End(j)
  /\ UNCHANGED <<config, status, mods, nmod, crashes, slow>>

PrepareDisabled(j) ==
  /\ jobs[j].pc = "begun" /\ config.transcription = "disabled" /\ LatestSucceeded(jobs[j].seen)
  /\ AddTranscription([NoTranscription EXCEPT !.status = "failed"])
  /\ End(j)
  /\ UNCHANGED <<config, status, mods, nmod, crashes, slow>>

(* Mutant: a stale attempt is left pending beside the new one. *)
KeepPending == trs

(* A stale pending attempt fails: it is superseded by this one.             *)
FailStalePending ==
  [t \in TrIds |-> IF NewestPending(t) THEN [trs[t] EXCEPT !.status = "failed"] ELSE trs[t]]

(* In-process: supersede a stale attempt, then either start a new one or    *)
(* record that the audio is too large.                                     *)
PrepareServer(j) ==
  /\ jobs[j].pc = "begun" /\ config.transcription = "provider" /\ LatestSucceeded(jobs[j].seen)
  /\ \A p \in TrIds : NewestPending(p) => trs[p].old
  /\ ntr < MaxTranscriptions /\ ntr' = ntr + 1
  /\ \E s \in {"pending", "failed"} :
       /\ trs' = [FailStalePending EXCEPT ![ntr + 1] = [NoTranscription EXCEPT !.status = s]]
       /\ Goto(j, IF s = "pending" THEN At("transcribing", ntr + 1) ELSE Idle)
  /\ UNCHANGED <<config, status, mods, nmod, crashes, slow>>

(* Mutant: the late answer of an attempt that was given up is stored. *)
TranscribeDoneAnyRow(j, text) ==
  /\ jobs[j].pc = "transcribing"
  /\ trs' = [trs EXCEPT ![jobs[j].tr] = [@ EXCEPT !.status = "succeeded", !.text = text]]
  /\ mods' = Superseded(Everything)
  /\ Goto(j, At(IF text = Empty THEN "nudge" ELSE "translate", jobs[j].tr))
  /\ UNCHANGED <<config, status, ntr, nmod, crashes, slow>>

(* Mutant: verdicts on the previous transcript keep counting. *)
TranscribeDoneKeepsVerdicts(j, text) ==
  /\ jobs[j].pc = "transcribing"
  /\ \/ /\ trs[jobs[j].tr].status = "pending"
        /\ trs' = [trs EXCEPT ![jobs[j].tr] = [@ EXCEPT !.status = "succeeded", !.text = text]]
        /\ Goto(j, At(IF text = Empty THEN "nudge" ELSE "translate", jobs[j].tr))
     \/ trs[jobs[j].tr].status # "pending" /\ End(j) /\ UNCHANGED trs
  /\ UNCHANGED <<config, status, ntr, mods, nmod, crashes, slow>>

(* The provider answers. If the row is still pending, the transcript is     *)
(* stored and every verdict on the previous one is superseded.              *)
TranscribeDone(j, text) ==
  /\ jobs[j].pc = "transcribing"
  /\ \/ /\ trs[jobs[j].tr].status = "pending"
        /\ trs' = [trs EXCEPT ![jobs[j].tr] = [@ EXCEPT !.status = "succeeded", !.text = text]]
        /\ mods' = Superseded(Everything)
        /\ Goto(j, At(IF text = Empty THEN "nudge" ELSE "translate", jobs[j].tr))
     \/ trs[jobs[j].tr].status # "pending" /\ End(j) /\ UNCHANGED <<trs, mods>>
  /\ UNCHANGED <<config, status, ntr, nmod, crashes, slow>>

TranscribeFail(j) ==
  /\ jobs[j].pc = "transcribing"
  /\ \/ /\ trs[jobs[j].tr].status = "pending"
        /\ trs' = [trs EXCEPT ![jobs[j].tr].status = "failed"]
     \/ trs[jobs[j].tr].status # "pending" /\ UNCHANGED trs
  /\ End(j)
  /\ UNCHANGED <<config, status, ntr, mods, nmod, crashes, slow>>

(* Mutant: the message is queued whatever its status. *)
NudgeAnyStatus(j) ==
  /\ jobs[j].pc = "nudge"
  /\ status' = "pending"
  /\ End(j)
  /\ UNCHANGED <<config, trs, ntr, mods, nmod, crashes, slow>>

(* advanceMessageAfterModeration: received -> pending and nothing else.      *)
Nudge(j) ==
  /\ jobs[j].pc = "nudge"
  /\ status' = IF status = "received" THEN "pending" ELSE status
  /\ End(j)
  /\ UNCHANGED <<config, trs, ntr, mods, nmod, crashes, slow>>

-----------------------------------------------------------------------------
(* runTranslationThenModeration                                            *)

(* runTranslation's first read: nothing to do for English or a finished     *)
(* translation; someone else is on it when it is pending.                   *)
TranslateRead(j) ==
  /\ jobs[j].pc = "translate"
  /\ LET t == jobs[j].tr IN
     \/ (trs[t].text \notin Foreign \/ trs[t].tstat = "succeeded") /\ Goto(j, At("moderate", t))
     \/ trs[t].text \in Foreign /\ trs[t].tstat = "pending" /\ End(j)
     \/ trs[t].text \in Foreign /\ trs[t].tstat \in {"none", "failed"} /\ Goto(j, At("claim", t))
  /\ UNCHANGED <<config, status, trs, ntr, mods, nmod, crashes, slow>>

(* Mutant: the claim does not look at who finished the translation. *)
TranslateClaimAny(j) ==
  /\ jobs[j].pc = "claim"
  /\ trs' = [trs EXCEPT ![jobs[j].tr].tstat = "pending"]
  /\ Goto(j, IF config.translation = "provider" THEN At("translating", jobs[j].tr) ELSE Idle)
  /\ UNCHANGED <<config, status, ntr, mods, nmod, crashes, slow>>

(* The conditional update that claims the translation, re-read under the    *)
(* row lock. With no provider it fails, and moderation goes ahead.          *)
TranslateClaim(j) ==
  /\ jobs[j].pc = "claim"
  /\ LET t == jobs[j].tr
         free == trs[t].tstat \in {"none", "failed"}
         mine == free /\ LatestSucceeded(t)
     IN
     \/ /\ config.translation = "disabled"
        /\ trs' = IF free THEN [trs EXCEPT ![t].tstat = "failed"] ELSE trs
        /\ Goto(j, At("moderate", t))
     \/ /\ config.translation # "disabled" /\ mine
        /\ trs' = [trs EXCEPT ![t].tstat = "pending"]
        /\ Goto(j, IF config.translation = "provider" THEN At("translating", t) ELSE Idle)
     \/ config.translation # "disabled" /\ ~mine /\ End(j) /\ UNCHANGED trs
  /\ UNCHANGED <<config, status, ntr, mods, nmod, crashes, slow>>

(* Mutant: a verdict that names no transcript outlives the text it is about. *)
StoreTranslationKeepsUntargeted(t, x) ==
  /\ trs' = [trs EXCEPT ![t] = [@ EXCEPT !.tstat = "succeeded", !.ttext = x]]
  /\ mods' = IF ReviewText(t) # x THEN Superseded({t}) ELSE mods

(* A translation x of transcript t is stored; verdicts on what was under    *)
(* review before are superseded when that was not the same text.            *)
StoreTranslation(t, x) ==
  /\ trs' = [trs EXCEPT ![t] = [@ EXCEPT !.tstat = "succeeded", !.ttext = x]]
  /\ mods' = IF ReviewText(t) # x THEN Superseded({t, 0}) ELSE mods

TranslateDone(j, x) ==
  /\ jobs[j].pc = "translating"
  /\ LET t == jobs[j].tr
         current == LatestSucceeded(t) /\ trs[t].tstat = "pending"
     IN
     \/ current /\ StoreTranslation(t, x) /\ Goto(j, At("moderate", t))
     \/ ~current /\ End(j) /\ UNCHANGED <<trs, mods>>
  /\ UNCHANGED <<config, status, ntr, nmod, crashes, slow>>

TranslateFail(j) ==
  /\ jobs[j].pc = "translating"
  /\ trs' = IF trs[jobs[j].tr].tstat = "pending"
            THEN [trs EXCEPT ![jobs[j].tr].tstat = "failed"] ELSE trs
  /\ Goto(j, At("moderate", jobs[j].tr))
  /\ UNCHANGED <<config, status, ntr, mods, nmod, crashes, slow>>
-----------------------------------------------------------------------------
(* runModeration                                                           *)

(* POST /:id/moderate reads the latest transcript.                         *)
OperatorModerate(j) ==
  /\ "operator" \in Clients /\ jobs[j].pc = "idle"
  /\ \E t \in TrIds : LatestSucceeded(t) /\ trs[t].text # Empty /\ Goto(j, At("moderate", t))
  /\ UNCHANGED <<config, status, trs, ntr, mods, nmod, crashes, slow>>

(* A newer transcript arrived, or there is no text: nothing is recorded.     *)
SkipModeration(j) ==
  /\ jobs[j].pc = "moderate"
  /\ ~LatestSucceeded(jobs[j].tr) \/ trs[jobs[j].tr].text = Empty
  /\ End(j)
  /\ UNCHANGED <<config, status, trs, ntr, mods, nmod, crashes, slow>>

(* Push mode reuses the pending row of the transcript.                      *)
ModeratePush(j) ==
  /\ jobs[j].pc = "moderate" /\ config.moderation = "push"
  /\ LatestSucceeded(jobs[j].tr) /\ trs[jobs[j].tr].text # Empty
  /\ \/ ~NoPendingVerdict({jobs[j].tr}) /\ UNCHANGED <<mods, nmod>>
     \/ /\ NoPendingVerdict({jobs[j].tr})
        /\ AddModeration([NoModeration EXCEPT !.status = "pending", !.tr = jobs[j].tr])
  /\ End(j)
  /\ UNCHANGED <<config, status, trs, ntr, crashes, slow>>

ModerateDisabled(j) ==
  /\ jobs[j].pc = "moderate" /\ config.moderation = "disabled"
  /\ LatestSucceeded(jobs[j].tr) /\ trs[jobs[j].tr].text # Empty
  /\ AddModeration([NoModeration EXCEPT !.status = "failed", !.tr = jobs[j].tr])
  /\ status' = IF status = "received" THEN "pending" ELSE status
  /\ End(j)
  /\ UNCHANGED <<config, trs, ntr, crashes, slow>>

ModerateStart(j) ==
  /\ jobs[j].pc = "moderate" /\ config.moderation = "provider"
  /\ LatestSucceeded(jobs[j].tr) /\ trs[jobs[j].tr].text # Empty
  /\ AddModeration([status |-> "pending", tr |-> jobs[j].tr, judged |-> ReviewText(jobs[j].tr)])
  /\ Goto(j, [Idle EXCEPT !.pc = "moderating", !.mod = nmod + 1])
  /\ UNCHANGED <<config, status, trs, ntr, crashes, slow>>

(* The provider's verdict counts if its row is still pending and still      *)
(* about the latest transcript.                                            *)
ModerateDone(j) ==
  /\ jobs[j].pc = "moderating"
  /\ LET m == jobs[j].mod
         current == LatestSucceeded(mods[m].tr) /\ mods[m].status = "pending"
     IN
     \/ current /\ mods' = [mods EXCEPT ![m].status = "succeeded"] /\ Goto(j, At("nudge", 0))
     \/ ~current /\ End(j) /\ UNCHANGED mods
  /\ UNCHANGED <<config, status, trs, ntr, nmod, crashes, slow>>

ModerateFail(j) ==
  /\ jobs[j].pc = "moderating"
  /\ LET m == jobs[j].mod IN
     \/ /\ mods[m].status = "pending"
        /\ mods' = [mods EXCEPT ![m].status = "failed"]
        /\ Goto(j, At("errread", 0))
     \/ mods[m].status # "pending" /\ End(j) /\ UNCHANGED mods
  /\ UNCHANGED <<config, status, trs, ntr, nmod, crashes, slow>>

(* The error path reads the status in one statement and writes it in the    *)
(* next, without a condition.                                              *)
ErrorRead(j) ==
  /\ jobs[j].pc = "errread"
  /\ IF status = "received" THEN Goto(j, At("errwrite", 0)) ELSE End(j)
  /\ UNCHANGED <<config, status, trs, ntr, mods, nmod, crashes, slow>>

ErrorWrite(j) ==
  /\ jobs[j].pc = "errwrite"
  /\ status' = "pending"
  /\ End(j)
  /\ UNCHANGED <<config, trs, ntr, mods, nmod, crashes, slow>>

-----------------------------------------------------------------------------
(* Results computed elsewhere. What a client names in its request, it may    *)
(* have read at any earlier time: a transcript t, or 0 for none, and the     *)
(* text whose hash it sends. An expectedLatest... field only adds a check    *)
(* that ends the request; a request that passes it does what one without    *)
(* it does.                                                                *)

(* recordTranscriptionResult, when it finalizes the pending row.            *)
FinalizeTranscript(j, target, text, prov, down) ==
  /\ jobs[j].pc = "idle"
  /\ target # 0 \/ prov = "on_device"
  /\ \E p \in TrIds :
       /\ IF target = 0 THEN NewestPending(p) ELSE p = target /\ trs[p].status = "pending"
       /\ trs' = [trs EXCEPT ![p] = [@ EXCEPT !.status = "succeeded", !.text = text, !.prov = prov]]
       /\ Goto(j, IF text = Empty THEN At("nudge", 0)
                  ELSE IF down THEN At("translate", p) ELSE Idle)
  /\ mods' = Superseded(Everything)
  /\ UNCHANGED <<config, status, ntr, nmod, crashes, slow>>

(* The same when nothing is pending: a new row, unless the request repeats  *)
(* the newest one, or an app's unsolicited transcript would replace an       *)
(* operator's. same says that language, model and requester agree too.       *)
AddTranscript(j, text, prov, down, same) ==
  /\ jobs[j].pc = "idle" /\ NonePending
  /\ LET latest == IF ntr = 0 THEN NoTranscription ELSE trs[ntr] IN
     latest.status = "succeeded" =>
       /\ latest.prov = "on_device" => prov = "on_device"
       /\ ~(same /\ latest.text = text /\ latest.prov = prov)
  /\ AddTranscription([NoTranscription EXCEPT !.status = "succeeded", !.text = text, !.prov = prov])
  /\ mods' = Superseded(Everything)
  /\ Goto(j, IF text = Empty THEN At("nudge", 0)
             ELSE IF down THEN At("translate", ntr + 1) ELSE Idle)
  /\ UNCHANGED <<config, status, nmod, crashes, slow>>

(* POST /worker/messages/:id/transcription                                 *)
WorkerTranscription(j) ==
  /\ "worker" \in Clients
  /\ \E text \in Texts :
       \/ \E t \in 1 .. ntr : FinalizeTranscript(j, t, text, "push", TRUE)
       \/ \E same \in BOOLEAN : AddTranscript(j, text, "push", TRUE, same)

(* POST /messages/:id/transcription                                        *)
OperatorTranscription(j) ==
  /\ "operator" \in Clients
  /\ \E text \in Texts, down \in BOOLEAN :
       \/ FinalizeTranscript(j, 0, text, "on_device", down)
       \/ \E same \in BOOLEAN : AddTranscript(j, text, "on_device", down, same)

(* POST /worker/messages/:id/translation                                   *)
WorkerTranslation(j, t, input, x) ==
  /\ "worker" \in Clients /\ jobs[j].pc = "idle"
  /\ LatestSucceeded(t) /\ trs[t].text = input /\ x # Empty
  /\ trs[t].tstat = "pending"
  /\ StoreTranslation(t, x)
  /\ Goto(j, At("moderate", t))
  /\ UNCHANGED <<config, status, ntr, nmod, crashes, slow>>

(* POST /messages/:id/translation: an operator's translation replaces any.   *)
OperatorTranslation(x) ==
  /\ "operator" \in Clients /\ x # Empty
  /\ \E t \in TrIds : LatestSucceeded(t) /\ StoreTranslation(t, x)
  /\ UNCHANGED <<config, status, ntr, nmod, jobs, crashes, slow>>

(* Mutant: the hash of the judged text is not compared. *)
CurrentInputAnyText(t, input) == LatestSucceeded(t)

(* A verdict names the latest transcript and the hash of its review text.   *)
CurrentInput(t, input) == LatestSucceeded(t) /\ input = ReviewText(t)

(* The newest pending verdict on t is finalized.                            *)
FinalizeVerdict(j, t, input) ==
  /\ jobs[j].pc = "idle" /\ CurrentInput(t, input)
  /\ \E m \in ModIds :
       /\ NewestPendingVerdict(m, {t})
       /\ mods' = [mods EXCEPT ![m] = [@ EXCEPT !.status = "succeeded", !.judged = input]]
  /\ Goto(j, At("nudge", 0))
  /\ UNCHANGED <<config, status, trs, ntr, nmod, crashes, slow>>

(* POST /worker/messages/:id/moderation: solicited, so a verdict without a  *)
(* pending row is dropped; every pending row names a transcript, so one     *)
(* that names none is refused.                                             *)
WorkerVerdict(j, t, input) == "worker" \in Clients /\ FinalizeVerdict(j, t, input)

(* POST /messages/:id/moderation with a transcript: when nothing is pending  *)
(* a new row, or none if the newest row is the same verdict.                *)
OperatorVerdict(j, t, input) ==
  /\ "operator" \in Clients
  /\ \/ FinalizeVerdict(j, t, input)
     \/ /\ jobs[j].pc = "idle" /\ CurrentInput(t, input) /\ NoPendingVerdict({t})
        /\ \/ AddModeration([status |-> "succeeded", tr |-> t, judged |-> input])
           \/ /\ nmod > 0 /\ mods[nmod].status = "succeeded" /\ mods[nmod].tr = t
              /\ UNCHANGED <<mods, nmod>>
        /\ Goto(j, At("nudge", 0))
        /\ UNCHANGED <<config, status, trs, ntr, crashes, slow>>

(* The same without a transcript: refused while a verdict is solicited.      *)
OperatorUntargeted(j) ==
  /\ "operator" \in Clients /\ jobs[j].pc = "idle" /\ NoPendingVerdict(Everything)
  /\ AddModeration([NoModeration EXCEPT !.status = "succeeded"])
  /\ Goto(j, At("nudge", 0))
  /\ UNCHANGED <<config, status, trs, ntr, crashes, slow>>

(* POST /messages/:id/decision                                             *)
Decide ==
  /\ "operator" \in Clients /\ status # "decided"
  /\ status' = "decided"
  /\ UNCHANGED <<config, trs, ntr, mods, nmod, jobs, crashes, slow>>

-----------------------------------------------------------------------------
(* Recovery                                                                *)

(* Mutant: a stale attempt is not recovered. *)
StrandedUnlessStarted == status # "decided" /\ ntr = 0

(* findStrandedMessages: undecided, and no attempt at all or a newest one    *)
(* that has been pending for longer than the threshold.                     *)
Stranded ==
  /\ status # "decided"
  /\ \A t \in 1 .. ntr : t = ntr => trs[t].status = "pending" /\ trs[t].old

(* The sweeper's tick; it runs only with an in-process provider.            *)
Sweep(j) ==
  /\ config.transcription = "provider" /\ jobs[j].pc = "idle" /\ Stranded
  /\ Goto(j, At("kick", 0))
  /\ UNCHANGED <<config, status, trs, ntr, mods, nmod, crashes, slow>>

(* Time passes the stale threshold for a pending row. MaxSlow times that     *)
(* happens while the provider is still working on it. Only in-process        *)
(* attempts are looked at for their age.                                   *)
Age(t) ==
  /\ config.transcription = "provider"
  /\ trs[t].status = "pending" /\ ~trs[t].old
  /\ \/ /\ \A j \in Jobs : ~(jobs[j].pc = "transcribing" /\ jobs[j].tr = t)
        /\ UNCHANGED slow
     \/ /\ \E j \in Jobs : jobs[j].pc = "transcribing" /\ jobs[j].tr = t
        /\ slow < MaxSlow /\ slow' = slow + 1
  /\ trs' = [trs EXCEPT ![t].old = TRUE]
  /\ UNCHANGED <<config, status, ntr, mods, nmod, jobs, crashes>>

(* The API restarts: every call in flight is lost, the rows stay.           *)
Crash ==
  /\ crashes < MaxCrashes /\ crashes' = crashes + 1
  /\ jobs' = [j \in Jobs |-> Idle]
  /\ UNCHANGED <<config, status, trs, ntr, mods, nmod, slow>>

-----------------------------------------------------------------------------

(* The steps a job takes by itself once it is started.                      *)
JobStep(j) ==
  \/ BeginTranscription(j) \/ SkipTranscription(j)
  \/ PreparePush(j) \/ PrepareDisabled(j) \/ PrepareServer(j)
  \/ \E text \in Texts : TranscribeDone(j, text)
  \/ TranscribeFail(j) \/ Nudge(j)
  \/ TranslateRead(j) \/ TranslateClaim(j)
  \/ \E x \in Translations : TranslateDone(j, x)
  \/ TranslateFail(j)
  \/ SkipModeration(j) \/ ModeratePush(j) \/ ModerateDisabled(j) \/ ModerateStart(j)
  \/ ModerateDone(j) \/ ModerateFail(j) \/ ErrorRead(j) \/ ErrorWrite(j)

ClientStep(j) ==
  \/ OperatorTranscribe(j) \/ OperatorModerate(j)
  \/ WorkerTranscription(j) \/ OperatorTranscription(j)
  \/ \E t \in 1 .. ntr, input \in Texts, x \in Translations : WorkerTranslation(j, t, input, x)
  \/ \E t \in 1 .. ntr, input \in AllTexts : WorkerVerdict(j, t, input) \/ OperatorVerdict(j, t, input)
  \/ OperatorUntargeted(j)

Next ==
  \/ \E j \in Jobs : JobStep(j) \/ ClientStep(j) \/ Sweep(j)
  \/ \E x \in Translations : OperatorTranslation(x)
  \/ \E t \in TrIds : Age(t)
  \/ Decide
  \/ Crash

Spec == Init /\ [][Next]_vars

(* A started call runs on: the event loop resumes it and the provider's      *)
(* request answers or errors. The sweeper's timer keeps firing and time      *)
(* passes. Nothing is assumed of the app or the operators.                  *)
FairSpec ==
  /\ Spec
  /\ \A j \in Jobs : WF_vars(JobStep(j)) /\ WF_vars(Sweep(j))
  /\ \A t \in TrIds : WF_vars(Age(t))

-----------------------------------------------------------------------------
(* Properties                                                              *)

(* Rows, jobs and counters have their types, and rows are numbered without  *)
(* gaps.                                                                   *)
TypeOK ==
  /\ config \in Config
  /\ status \in {"received", "pending", "decided"}
  /\ trs \in [TrIds -> Transcription] /\ ntr \in 0 .. MaxTranscriptions
  /\ mods \in [ModIds -> Moderation] /\ nmod \in 0 .. MaxModerations
  /\ jobs \in [Jobs -> Job]
  /\ crashes \in Nat /\ slow \in Nat
  /\ \A t \in TrIds : trs[t].status = "none" <=> t > ntr
  /\ \A m \in ModIds : mods[m].status = "none" <=> m > nmod

(* At most one attempt is pending, and it is the newest: a stale one is      *)
(* superseded before the next begins, and nothing is recorded past it.       *)
PendingIsNewest == \A t \in TrIds : trs[t].status = "pending" => t = ntr

(* A verdict that counts and names a transcript was reached on the text an   *)
(* operator is shown beside it: the latest transcript or its translation,    *)
(* whichever of the provider, the app and the operators wrote last.          *)
VerdictOnReviewedText ==
  \A m \in ModIds : mods[m].status = "succeeded" /\ mods[m].tr # 0 =>
    LatestSucceeded(mods[m].tr) /\ mods[m].judged = ReviewText(mods[m].tr)

(* "Re-runs never destroy evidence": an attempt that succeeded or failed     *)
(* keeps its text and outcome, however late another answer arrives.          *)
HistoryStands ==
  [][\A t \in TrIds : trs[t].status \in {"succeeded", "failed"} =>
       /\ trs'[t].status = trs[t].status
       /\ trs'[t].text = trs[t].text
       /\ trs'[t].prov = trs[t].prov]_vars

(* A finished translation is replaced by an operator's and by nothing else:  *)
(* no retry, late answer or callback downgrades or overwrites it.            *)
TranslationStands ==
  [][\A t \in TrIds : trs[t].tstat = "succeeded" =>
       /\ trs'[t].tstat = "succeeded"
       /\ trs'[t].ttext = trs[t].ttext \/ \E x \in Translations : OperatorTranslation(x)]_vars

(* "Any already-decided message is left untouched": no step of the pipeline  *)
(* returns a decided message to the queue.                                  *)
DecidedStays == [][status = "decided" => status' = "decided"]_vars

(* However often the API restarts, an undecided message's transcription is   *)
(* attempted and the attempt ends.                                         *)
TranscriptionSettles ==
  (ntr = 0 \/ trs[ntr].status = "pending")
    ~> (status = "decided" \/ (ntr > 0 /\ trs[ntr].status # "pending"))

(* "Recover from crashes/restarts without losing in-flight work": a          *)
(* translation or a verdict that was begun ends.                            *)
DownstreamSettles ==
  \A t \in TrIds :
    (trs[t].tstat = "pending" \/ ~NoPendingVerdict({t}))
      ~> (status = "decided" \/ (trs[t].tstat # "pending" /\ NoPendingVerdict({t})))

(* The review the rows amount to: what they put up for review, and which     *)
(* verdicts on it count.                                                   *)
Latest == CHOOSE t \in 0 .. MaxTranscriptions : LatestSucceeded(t)
Translated == Latest # 0 /\ trs[Latest].tstat = "succeeded"
UnderReview == IF Latest = 0 THEN Empty ELSE ReviewText(Latest)
Standing(row) ==
  CASE row.status \in {"none", "pending"} -> "open"
    [] row.status = "succeeded" -> "counts"
    [] row.status = "failed" -> "over"

Review == INSTANCE ReviewLedger WITH
  Words <- AllTexts, Verdicts <- ModIds, latest <- Latest, translated <- Translated,
  text <- UnderReview, verdict <- [m \in ModIds |-> Standing(mods[m])]

(* Every step of the pipeline, of the app and of the operators is one of the *)
(* review or none: a verdict stops to count with the text it is about, and   *)
(* what is over never counts again (pipeline.ts, review-text.ts).           *)
ReviewSpec == Review!ReviewSpec
=============================================================================
