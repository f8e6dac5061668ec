----------------------------- MODULE AudioFiling -----------------------------
(***************************************************************************)
(* How a question or an instruction gets its audio, and how the booth is   *)
(* given an instruction.  A dialog of the console hashes the chosen file,  *)
(* reserves a file row and an upload URL (POST /uploads/sas), sends the    *)
(* audio to blob storage and files the card.  Files are identified by      *)
(* their content; the booth's recordings share the table, and the purge of *)
(* an installation (DELETE /installations/:id) takes rows and audio away   *)
(* that nothing refers to any more.                                        *)
(***************************************************************************)
EXTENDS Integers, FiniteSets

CONSTANTS
    Audio,         \* contents an operator can choose
    Submissions,   \* runs of a dialog's submit, of one console or of several
    NoAudio,
    Clips          \* instruction rows

ASSUME FilingAssumption == {NoAudio, "other"} \cap Audio = {} /\ IsFiniteSet(Audio)

VARIABLES
    fileKey,    \* the blob key of each content's file row, "none" without one
    blobs,      \* the blobs stored: key and content
    sub,        \* the submissions
    cards,      \* question rows
    clip,       \* instruction rows
    ask,        \* the booth's request for an instruction
    purge,      \* what a purge has still to do about each content
    muted       \* contents whose audio a purge deleted under their row (history)

filingVars == <<fileKey, blobs, sub, cards, clip, ask, purge, muted>>
purgeVars == <<purge, muted>>

(* row tells whether the file row that a submission was given is still there *)
Unused == [at |-> "idle", kind |-> "question", audio |-> NoAudio, key |-> "none",
           row |-> FALSE]
NoPurge == [at |-> "none", key |-> "none"]
NoClip == [status |-> "absent", audio |-> NoAudio]
NoAsk == [at |-> "idle", skip |-> 0, steady |-> {}, answer |-> "nothing"]

(* An instruction whose audio nobody will choose again.                    *)
OldClip == [status |-> "active", audio |-> "other"]

(* Some content may be known from the booth, its audio stored or not yet.  *)
FilingInit ==
    /\ fileKey \in [Audio -> {"none", "messages"}]
    /\ blobs \in SUBSET {<<"messages", a>> : a \in {x \in Audio : fileKey[x] = "messages"}}
    /\ sub = [s \in Submissions |-> Unused]
    /\ cards = {}
    /\ clip \in [Clips -> {NoClip, OldClip}]
    /\ ask = NoAsk
    /\ purge = [a \in Audio |-> NoPurge] /\ muted = {}

-----------------------------------------------------------------------------
(* NewQuestionDialog and NewInstructionDialog.  The button is disabled     *)
(* only while the last request is pending, and every console has its own   *)
(* dialog: submissions of the same file may overlap.                       *)

Submit(s, kind, a) ==
    /\ sub[s].at = "idle"
    /\ sub' = [sub EXCEPT ![s] = [Unused EXCEPT
                 !.at = "hashed", !.kind = kind, !.audio = a]]
    /\ UNCHANGED <<fileKey, blobs, cards, clip, ask, purgeVars>>

(* An error anywhere is shown, and the operator may submit again.          *)
Failed(s) == sub' = [sub EXCEPT ![s] = Unused]

RequestFails(s) ==
    /\ sub[s].at # "idle"
    /\ Failed(s)
    /\ UNCHANGED <<fileKey, blobs, cards, clip, ask, purgeVars>>

-----------------------------------------------------------------------------
(* POST /uploads/sas: a lookup and, if there is no row, an insert.         *)

(* blobNameFor.                                                            *)
BlobNameFor(kind) == IF kind = "question" THEN "questions" ELSE "instructions"

(* Mutant: the URL is made for the name the kind would give. *)
BlobNameNewly(known, kind) == BlobNameFor(kind)
BlobName(known, kind) == IF known # "none" THEN known ELSE BlobNameFor(kind)

FindFile(s) ==
    /\ sub[s].at = "hashed"
    /\ LET known == fileKey[sub[s].audio]
       IN  sub' = [sub EXCEPT ![s].key = BlobName(known, sub[s].kind),
                              ![s].row = known # "none",
                              ![s].at = IF known = "none" THEN "unknown" ELSE "ticket"]
    /\ UNCHANGED <<fileKey, blobs, cards, clip, ask, purgeVars>>

(* The insert loses to another one of the same content.                    *)
CreateFile(s) ==
    /\ sub[s].at = "unknown"
    /\ IF fileKey[sub[s].audio] # "none" THEN Failed(s) /\ UNCHANGED fileKey
       ELSE /\ fileKey' = [fileKey EXCEPT ![sub[s].audio] = sub[s].key]
            /\ sub' = [sub EXCEPT ![s].at = "ticket", ![s].row = TRUE]
    /\ UNCHANGED <<blobs, cards, clip, ask, purgeVars>>

(* uploadBlobToSas.                                                        *)
UploadBlob(s) ==
    /\ sub[s].at = "ticket"
    /\ blobs' = blobs \cup {<<sub[s].key, sub[s].audio>>}
    /\ sub' = [sub EXCEPT ![s].at = "sent"]
    /\ muted' = IF sub[s].key = fileKey[sub[s].audio] THEN muted \ {sub[s].audio} ELSE muted
    /\ UNCHANGED <<fileKey, cards, clip, ask, purge>>

(* POST /questions, POST /instructions name the row, which must exist.  A   *)
(* content is one instruction at most; the answer may be lost.             *)
CreateQuestionCard(s) ==
    /\ sub[s].at = "sent" /\ sub[s].kind = "question" /\ sub[s].row
    /\ cards' = cards \cup {sub[s].audio}
    /\ sub' = [sub EXCEPT ![s] = Unused]
    /\ UNCHANGED <<fileKey, blobs, clip, ask, purgeVars>>

CreateInstruction(s, c) ==
    /\ sub[s].at = "sent" /\ sub[s].kind = "instruction" /\ sub[s].row
    /\ clip[c] = NoClip /\ \A d \in Clips : clip[d].audio # sub[s].audio
    /\ clip' = [clip EXCEPT ![c] = [status |-> "active", audio |-> sub[s].audio]]
    /\ sub' = [sub EXCEPT ![s] = Unused]
    /\ UNCHANGED <<fileKey, blobs, cards, ask, purgeVars>>

-----------------------------------------------------------------------------
(* The library of instructions.                                            *)

ActiveClips == {c \in Clips : clip[c].status = "active"}
Still(c) == [ask EXCEPT !.steady = @ \ {c}]

ActivateInstruction(c) ==
    /\ clip[c].status = "inactive"
    /\ clip' = [clip EXCEPT ![c].status = "active"]
    /\ UNCHANGED <<fileKey, blobs, sub, cards, ask, purgeVars>>

DeactivateInstruction(c) ==
    /\ clip[c].status = "active"
    /\ clip' = [clip EXCEPT ![c].status = "inactive"]
    /\ ask' = Still(c)
    /\ UNCHANGED <<fileKey, blobs, sub, cards, purgeVars>>

DeleteInstruction(c) ==
    /\ clip[c] # NoClip
    /\ clip' = [clip EXCEPT ![c] = NoClip]
    /\ ask' = Still(c)
    /\ UNCHANGED <<fileKey, blobs, sub, cards, purgeVars>>

-----------------------------------------------------------------------------
(* randomActiveInstruction: three queries, the library moving in between.  *)

CountInstructions ==
    /\ ask.at = "idle" /\ ActiveClips # {}
    /\ \E k \in 0..Cardinality(ActiveClips) - 1 :
         ask' = [at |-> "counted", skip |-> k, steady |-> ActiveClips, answer |-> "nothing"]
    /\ UNCHANGED <<fileKey, blobs, sub, cards, clip, purgeVars>>

Answered(answer) == ask' = [ask EXCEPT !.at = "answered", !.answer = answer]

(* Mutant: no second look. *)
SkipToInstructionOnce ==
    /\ ask.at = "counted"
    /\ Answered(IF ask.skip < Cardinality(ActiveClips) THEN "clip" ELSE "none")
    /\ UNCHANGED <<fileKey, blobs, sub, cards, clip, purgeVars>>
SkipToInstruction ==
    /\ ask.at = "counted"
    /\ IF ask.skip < Cardinality(ActiveClips) THEN Answered("clip")
       ELSE ask' = [ask EXCEPT !.at = "missed"]
    /\ UNCHANGED <<fileKey, blobs, sub, cards, clip, purgeVars>>

FirstInstruction ==
    /\ ask.at = "missed"
    /\ Answered(IF ActiveClips # {} THEN "clip" ELSE "none")
    /\ UNCHANGED <<fileKey, blobs, sub, cards, clip, purgeVars>>

Hear ==
    /\ ask.at = "answered"
    /\ ask' = NoAsk
    /\ UNCHANGED <<fileKey, blobs, sub, cards, clip, purgeVars>>

-----------------------------------------------------------------------------
(* DELETE /installations/:id: the rows of an ended installation go, then    *)
(* the file rows they referred to, then the audio, in separate calls.       *)

Referenced(a) == a \in cards \/ \E c \in Clips : clip[c].audio = a

(* Questions and messages of the installation are deleted; their files are  *)
(* remembered. A question copied to another installation stays.             *)
PurgeRows(a) ==
    /\ purge[a] = NoPurge /\ fileKey[a] # "none"
    /\ purge' = [purge EXCEPT ![a] = [at |-> "rows", key |-> fileKey[a]]]
    /\ cards' \in {cards, cards \ {a}}
    /\ UNCHANGED <<fileKey, blobs, sub, clip, ask, muted>>

(* A file row is deleted unless something refers to it by then: the foreign  *)
(* keys retain it. Submissions that were given the row have none any more.   *)
PurgeFile(a) ==
    /\ purge[a].at = "rows" /\ ~Referenced(a)
    /\ fileKey' = [fileKey EXCEPT ![a] = "none"]
    /\ sub' = [s \in Submissions |->
                  IF sub[s].audio = a THEN [sub[s] EXCEPT !.row = FALSE] ELSE sub[s]]
    /\ purge' = [purge EXCEPT ![a].at = "blob"]
    /\ muted' = muted \ {a}
    /\ UNCHANGED <<blobs, cards, clip, ask>>

(* Audio whose key a row names again is left alone ...                       *)
PurgeChecksBlob(a) ==
    /\ purge[a].at = "blob" /\ fileKey[a] # purge[a].key
    /\ purge' = [purge EXCEPT ![a].at = "checked"]
    /\ UNCHANGED <<fileKey, blobs, sub, cards, clip, ask, muted>>

(* ... and other audio is deleted, in a call of its own.                     *)
PurgeBlob(a) ==
    /\ purge[a].at = "checked"
    /\ blobs' = blobs \ {<<purge[a].key, a>>}
    /\ muted' = IF fileKey[a] = purge[a].key THEN muted \cup {a} ELSE muted
    /\ purge' = [purge EXCEPT ![a] = NoPurge]
    /\ UNCHANGED <<fileKey, sub, cards, clip, ask>>

(* The row or the audio is in use, for a recording or again, or a call fails *)
PurgeRetains(a) ==
    /\ purge[a] # NoPurge
    /\ purge' = [purge EXCEPT ![a] = NoPurge]
    /\ UNCHANGED <<fileKey, blobs, sub, cards, clip, ask, muted>>

FilingNext ==
    \/ \E s \in Submissions :
         \/ \E kind \in {"question", "instruction"}, a \in Audio : Submit(s, kind, a)
         \/ RequestFails(s) \/ FindFile(s) \/ CreateFile(s) \/ UploadBlob(s)
         \/ CreateQuestionCard(s) \/ \E c \in Clips : CreateInstruction(s, c)
    \/ \E c \in Clips : \/ ActivateInstruction(c) \/ DeactivateInstruction(c)
                        \/ DeleteInstruction(c)
    \/ CountInstructions \/ SkipToInstruction \/ FirstInstruction \/ Hear
    \/ \E a \in Audio : \/ PurgeRows(a) \/ PurgeFile(a) \/ PurgeChecksBlob(a)
                        \/ PurgeBlob(a) \/ PurgeRetains(a)

FilingSpec == FilingInit /\ [][FilingNext]_filingVars

-----------------------------------------------------------------------------
(* What is filed can be played: the file row of every question and of      *)
(* every instruction names a blob that holds its audio, although the row   *)
(* may stem from the other kind of card, from an abandoned submission or   *)
(* from a recording of the booth, and may have been purged and made again   *)
(* (POST /uploads/sas, the two dialogs).  The one exception is audio that a *)
(* purge found unused and deletes after a row has named it again.           *)
CardsHaveAudio ==
    \A a \in cards \cup (Audio \cap {clip[c].audio : c \in Clips}) :
        <<fileKey[a], a>> \in blobs \/ a \in muted

(* The booth is told that there is no instruction only if none of them was *)
(* active throughout its request (randomActiveInstruction).                *)
InstructionIsFound == ask.answer = "none" => ask.steady = {}
=============================================================================
