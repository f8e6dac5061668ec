---------------------------- MODULE ConsoleCache ----------------------------
(***************************************************************************)
(* What the web console shows after a write (web/src/lib/api-client.ts).   *)
(* Every read is a query of the client's cache; every write is a mutation  *)
(* that, once answered, invalidates key prefixes.  Queries do not affect   *)
(* each other, so a behaviour follows one of them, under every screen and  *)
(* every mutation; its data is the number of changes it reflects.          *)
(***************************************************************************)
EXTENDS Integers, SequencesExt

CONSTANTS
    Unfetched,    \* the entry has no data, or no fetch is in flight
    MaxChanges    \* bound on the changes to what the query reads

ASSUME CacheAssumption == MaxChanges \in Nat /\ Unfetched \notin Nat

-----------------------------------------------------------------------------
(* The endpoints: the rows each answer is computed from.                   *)

AuditRows == {"audit"}
EventRows == {"event"}
SessionRows == {"session"}
SystemRows == {"system"}
StatsRows == {"message", "session", "event"}
FilterRows == {"filter"}
StatusRows == {"status", "installation"}
QuestionRows == {"question", "response"}   \* with the number of answers
UsageRows == {"token", "use"}
WeatherRows == {"weather"}
InstructionRows == {"instruction"}
PolicyRows == {"policy"}
MessageRows == {"message"}
ProcessingRows == {"processing"}
TokenRows == {"token"}
InstallationRows == {"installation"}

(* The queries: their key, the rows the answer is computed from and those  *)
(* that the pages display of it, and whether they poll.                    *)

Polling(key, reads) == [key |-> key, reads |-> reads, shows |-> reads, polls |-> TRUE]
PartOf(key, reads, shows) == [key |-> key, reads |-> reads, shows |-> shows, polls |-> FALSE]
OnDemand(key, reads) == PartOf(key, reads, reads)

AuditList == Polling(<<"audit-logs", "list">>, AuditRows)
EventList == Polling(<<"events", "list">>, EventRows)
SessionList == Polling(<<"sessions", "list">>, SessionRows)
SessionOne == OnDemand(<<"sessions", "id">>, SessionRows \cup EventRows)
SystemNow == Polling(<<"system", "current", "booth">>, SystemRows)
SystemAll == Polling(<<"system", "current", "all">>, SystemRows)
SystemParts == Polling(<<"system", "components">>, SystemRows)
Weather == Polling(<<"system", "weather", "current">>, WeatherRows)
Thermals == Polling(<<"system", "thermals", "history">>, SystemRows)
Overview == Polling(<<"stats", "overview", "live">>, StatsRows)
OverviewFixed == OnDemand(<<"stats", "overview", "fixed">>, StatsRows)
Summary == Polling(<<"stats", "summary">>, StatsRows \cup {"status"})
Filters == OnDemand(<<"stats", "filters">>, FilterRows)
StatusNow == Polling(<<"status", "current">>, StatusRows)
Reconciliation == Polling(<<"status", "reconciliation">>, StatusRows)
StatusPast == Polling(<<"status", "history">>, {"status"})
QuestionList == Polling(<<"questions", "list">>, QuestionRows)
QuestionsByIds == PartOf(<<"questions", "by-ids">>, QuestionRows, {"question"})   \* the prompt
Answers == Polling(<<"messages", "list", "question">>, MessageRows)
Instructions == OnDemand(<<"instructions", "list">>, InstructionRows)
Policy == OnDemand(<<"moderation-policy", "current">>, PolicyRows)
MessageList == Polling(<<"messages", "list">>, MessageRows)
MessageOne == Polling(<<"messages", "id">>, MessageRows)
Transcripts == Polling(<<"messages", "id", "transcriptions">>, {"transcription"})
Processing == Polling(<<"message-processing", "summary">>, ProcessingRows)
TokenList == OnDemand(<<"api-tokens", "list">>, TokenRows)
TokenUsage == PartOf(<<"api-tokens", "id", "usage">>, UsageRows, {"use"})
InstallationList == OnDemand(<<"installations", "list">>, InstallationRows)

-----------------------------------------------------------------------------
(* The mutations: the rows the endpoint changes and the prefixes that      *)
(* onSuccess invalidates.                                                  *)

Scoped == {"installation", "question", "response", "message", "transcription",
           "session", "event", "status", "processing"}

(* Mutant: a rollover refreshes the lists only. *)
ScopedPrefixesListsOnly ==
    {<<"installations">>, <<"stats">>, <<"messages", "list">>, <<"sessions", "list">>,
     <<"events", "list">>, <<"questions", "list">>, <<"status">>}
(* invalidateInstallationScopedQueries.                                    *)
ScopedPrefixes ==
    {<<"installations">>, <<"stats">>, <<"messages">>, <<"sessions">>, <<"events">>,
     <<"questions">>, <<"status">>}

EditQuestion == [touches |-> {"question"}, refreshes |-> {<<"questions", "list">>}]
EditInstruction == [touches |-> {"instruction"}, refreshes |-> {<<"instructions", "list">>}]
EditPolicy == [touches |-> {"policy"}, refreshes |-> {<<"moderation-policy", "current">>}]
EditFilter == [touches |-> {"filter"}, refreshes |-> {<<"stats", "filters">>}]
EditToken == [touches |-> {"token"}, refreshes |-> {<<"api-tokens", "list">>}]
DeleteMessage == [touches |-> {"message", "response", "transcription", "processing"},
                  refreshes |-> {<<"messages">>, <<"questions", "list">>}]
Retranscribe == [touches |-> {"message", "transcription", "processing"},
                 refreshes |-> {<<"messages", "id">>, <<"messages", "id", "transcriptions">>,
                                <<"messages", "list">>}]
Review == [touches |-> {"message"},   \* decide, remoderate
           refreshes |-> {<<"messages", "id">>, <<"messages", "list">>}]
Rollover == [touches |-> Scoped, refreshes |-> ScopedPrefixes]   \* create, end, purge
Rename == [touches |-> {"installation"},
           refreshes |-> {<<"installations", "list">>, <<"installations", "id">>,
                          <<"installations", "current">>}]

-----------------------------------------------------------------------------
(* The screens: the queries they mount and the mutations they offer.       *)

MessageCollection == {DeleteMessage, Review, Retranscribe}
MessagesScreen == [mounts |-> {MessageList, QuestionsByIds, Processing, InstallationList},
                   offers |-> MessageCollection]
MessageDetail == [mounts |-> {MessageOne, Transcripts, QuestionsByIds, InstallationList},
                  offers |-> {Review, Retranscribe}]
AnswersScreen == [mounts |-> {Answers, QuestionsByIds, InstallationList},
                  offers |-> MessageCollection]
QuestionsScreen == [mounts |-> {QuestionList}, offers |-> {EditQuestion}]
InstructionsScreen == [mounts |-> {Instructions}, offers |-> {EditInstruction}]
TokensScreen == [mounts |-> {TokenList, TokenUsage}, offers |-> {EditToken}]
StatsScreen == [mounts |-> {Overview, OverviewFixed, Filters, InstallationList},
                offers |-> {EditFilter}]
InstallationsScreen == [mounts |-> {InstallationList, Summary}, offers |-> {Rollover, Rename}]
SettingsScreen == [mounts |-> {InstallationList, Policy}, offers |-> {Rollover, EditPolicy}]
SessionsScreen == [mounts |-> {SessionList, InstallationList}, offers |-> {}]
SessionDetail == [mounts |-> {SessionOne}, offers |-> {}]
EventsScreen == [mounts |-> {EventList, InstallationList}, offers |-> {}]
StatusScreen == [mounts |-> {StatusNow, StatusPast, SystemNow}, offers |-> {}]
ThermalsScreen == [mounts |-> {StatusNow, SystemAll, SystemParts, Weather, Thermals},
                   offers |-> {}]
AuditScreen == [mounts |-> {AuditList}, offers |-> {}]

Screens == {MessagesScreen, MessageDetail, AnswersScreen, QuestionsScreen, InstructionsScreen,
            TokensScreen, StatsScreen, InstallationsScreen, SettingsScreen, SessionsScreen,
            SessionDetail, EventsScreen, StatusScreen, ThermalsScreen, AuditScreen}
Shell == {Reconciliation, StatusNow, SystemNow, SystemParts}   \* the bridge, the sidebar
Queries == Shell \cup UNION {s.mounts : s \in Screens}
Mutations == UNION {s.offers : s \in Screens}
AnyScreen == [mounts |-> {}, offers |-> {}]   \* a page that reads nothing

-----------------------------------------------------------------------------
VARIABLES
    query,     \* the query this behaviour follows
    screen,    \* the page on display
    changes,   \* changes made on the server to what the query reads
    entry,     \* its cache entry: data, and whether the last fetch failed
    fetch,     \* the fetch in flight: what the server has read for it
    mutation,  \* the mutation in flight
    envelope,  \* a lifecycle envelope on its way to this console
    owed       \* changes the operator was told of, which must be shown

cacheVars == <<query, screen, changes, entry, fetch, mutation, envelope, owed>>

NoMutation == [at |-> "idle", what |-> Rename, seen |-> 0]
NoFetch == [on |-> FALSE, read |-> Unfetched]
NewFetch == [on |-> TRUE, read |-> Unfetched]

CacheInit ==
    /\ query \in Queries
    /\ screen = AnyScreen
    /\ changes = 0
    /\ entry = [data |-> Unfetched, failed |-> FALSE]
    /\ fetch = IF query \in Shell THEN NewFetch ELSE NoFetch
    /\ mutation = NoMutation
    /\ envelope = Unfetched
    /\ owed = 0

MountedOn(s) == query \in s.mounts \cup Shell
Mounted == MountedOn(screen)
Concerns(m) == m.touches \cap query.reads # {}
Shows(m) == m.touches \cap query.shows # {}
Refreshes(m) == \E prefix \in m.refreshes : IsPrefix(prefix, query.key)

(* The pages that matter to the query; any other is AnyScreen.             *)
Pages == {s \in Screens : query \in s.mounts \/ \E m \in s.offers : Concerns(m)}
         \cup {AnyScreen}

(* The library joins a fetch that is in flight.                            *)
Joined == IF fetch.on THEN fetch ELSE NewFetch

(* On a mount the entry is stale and fetched again (staleTime 0), but for  *)
(* the use of a token, fresh for a while; without observers an entry may   *)
(* be collected.                                                           *)
Navigate(s) ==
    /\ s # screen
    /\ screen' = s
    /\ \/ fetch' = IF MountedOn(s) /\ ~Mounted THEN Joined ELSE fetch
       \/ query = TokenUsage /\ entry.data # Unfetched /\ UNCHANGED fetch
    /\ UNCHANGED <<query, changes, entry, mutation, envelope, owed>>

Collect ==
    /\ ~Mounted /\ ~fetch.on /\ entry.data # Unfetched
    /\ entry' = [entry EXCEPT !.data = Unfetched, !.failed = FALSE]
    /\ owed' = 0
    /\ UNCHANGED <<query, screen, changes, fetch, mutation, envelope>>

(* refetchInterval, or the window getting the focus.                       *)
Refetch ==
    /\ Mounted /\ ~fetch.on
    /\ fetch' = NewFetch
    /\ UNCHANGED <<query, screen, changes, entry, mutation, envelope, owed>>

(* apiFetch: the server reads, the answer arrives, or the request fails.   *)
ServerReads ==
    /\ fetch.on /\ fetch.read = Unfetched
    /\ fetch' = [fetch EXCEPT !.read = changes]
    /\ UNCHANGED <<query, screen, changes, entry, mutation, envelope, owed>>

FetchAnswers ==
    /\ fetch.read # Unfetched
    /\ entry' = [entry EXCEPT !.data = fetch.read, !.failed = FALSE]
    /\ fetch' = NoFetch
    /\ UNCHANGED <<query, screen, changes, mutation, envelope, owed>>

FetchFails ==
    /\ fetch.on
    /\ entry' = [entry EXCEPT !.failed = TRUE]
    /\ fetch' = NoFetch
    /\ UNCHANGED <<query, screen, changes, mutation, envelope, owed>>

-----------------------------------------------------------------------------
(* useMutation.                                                            *)

(* mutate: a new question or instruction first stores its audio.           *)
Mutate(m) ==
    /\ mutation = NoMutation /\ m \in screen.offers /\ Concerns(m)
    /\ mutation' = [at |-> IF m \in {EditQuestion, EditInstruction} THEN "upload" ELSE "sent",
                    what |-> m, seen |-> 0]
    /\ UNCHANGED <<query, screen, changes, entry, fetch, envelope, owed>>

Uploaded ==
    /\ mutation.at = "upload"
    /\ mutation' = [mutation EXCEPT !.at = "sent"]
    /\ UNCHANGED <<query, screen, changes, entry, fetch, envelope, owed>>

Changed(m) == IF Concerns(m) THEN changes + 1 ELSE changes

ServerWrites ==
    /\ mutation.at = "sent" /\ changes < MaxChanges
    /\ changes' = Changed(mutation.what)
    /\ mutation' = [mutation EXCEPT !.at = "written", !.seen = changes']
    /\ UNCHANGED <<query, screen, entry, fetch, envelope, owed>>

(* An upload fails, the write is refused, or its answer is lost.           *)
MutationFails ==
    /\ mutation # NoMutation
    /\ mutation' = NoMutation
    /\ UNCHANGED <<query, screen, changes, entry, fetch, envelope, owed>>

(* invalidateQueries: a mounted query with data is fetched afresh, a fetch *)
(* in flight is dropped; without data the fetch in flight is joined.       *)
(* resetQueries drops the data as well.                                    *)
Invalidate(m) ==
    LET resets == m = Rollover /\ query.key[1] = "status"
    IN  IF ~Refreshes(m) THEN UNCHANGED <<entry, fetch>>
        ELSE /\ entry' = IF resets THEN [entry EXCEPT !.data = Unfetched, !.failed = FALSE]
                         ELSE entry
             /\ fetch' = IF resets THEN IF Mounted THEN NewFetch ELSE NoFetch
                         ELSE IF ~Mounted THEN fetch
                         ELSE IF entry.data # Unfetched THEN NewFetch ELSE Joined

(* The operator is told of a write on the page that offers it, and of a    *)
(* rollover on every page; it counts for the queries that page has loaded, *)
(* if the page displays what it changes.                                   *)
Told(m, seen) ==
    IF /\ Shows(m) /\ Mounted /\ entry.data # Unfetched
       /\ m = Rollover \/ m \in screen.offers
       /\ seen > owed
    THEN seen ELSE owed

MutationSucceeds ==
    /\ mutation.at = "written"
    /\ Invalidate(mutation.what)
    /\ owed' = Told(mutation.what, mutation.seen)
    /\ mutation' = NoMutation
    /\ UNCHANGED <<query, screen, changes, envelope>>

-----------------------------------------------------------------------------
(* Another operator's write; a rollover is announced to this console.      *)

OthersWrite(m) ==
    /\ changes < MaxChanges /\ Concerns(m)
    /\ changes' = Changed(m)
    /\ envelope' = IF m = Rollover THEN changes' ELSE envelope
    /\ UNCHANGED <<query, screen, entry, fetch, mutation, owed>>

HearInstallation ==
    /\ envelope # Unfetched
    /\ Invalidate(Rollover)
    /\ owed' = Told(Rollover, envelope)
    /\ envelope' = Unfetched
    /\ UNCHANGED <<query, screen, changes, mutation>>

CacheNext ==
    \/ \E s \in Pages : Navigate(s)
    \/ \E m \in Mutations : Mutate(m) \/ OthersWrite(m)
    \/ Collect \/ Refetch \/ ServerReads \/ FetchAnswers \/ FetchFails
    \/ Uploaded \/ ServerWrites \/ MutationFails \/ MutationSucceeds \/ HearInstallation

CacheSpec == CacheInit /\ [][CacheNext]_cacheVars

-----------------------------------------------------------------------------
(* The console shows what its operator was told.  Once a write of theirs   *)
(* has been confirmed, or a rollover announced, and no fetch is in flight, *)
(* every query on display reflects it if it changed what the page displays *)
(* of the query: queries that do not poll have been fetched again after    *)
(* the write, and no answer from before it replaced the newer one.  What   *)
(* an answer holds and its page does not display may be out of date, like  *)
(* the number of answers of a question whose prompt the messages show.     *)
WritesAreShown ==
    Mounted /\ ~query.polls /\ ~fetch.on /\ ~entry.failed => entry.data >= owed
=============================================================================
