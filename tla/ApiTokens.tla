----------------------------- MODULE ApiTokens -----------------------------
(***************************************************************************)
(* The static API tokens of the booth, the worker and the telemetry        *)
(* sources (lib/api-tokens.ts, lib/require-api-token.ts,                   *)
(* routes/api-tokens.ts).  Hashing a token is slow, so each replica caches *)
(* which plaintexts it has verified, in least-recently-used order; the row *)
(* itself is read on every request.  The times of last use, which no       *)
(* decision reads, are left out.                                           *)
(***************************************************************************)
EXTENDS Integers, Sequences, FiniteSets

CONSTANTS
    TokenReplicas,   \* API processes
    Tokens,          \* tokens that may be created
    Calls,           \* verifications that may be in flight at once
    Metadata,        \* labels and kinds a telemetry source may be given
    Unset,
    Capacity,        \* cacheCapacity
    CacheTtl,        \* cacheTtlMs, in ticks
    MaxTokenTime     \* bound on the clock

ASSUME TokenAssumption ==
    Capacity \in Nat \ {0} /\ CacheTtl \in Nat \ {0} /\ MaxTokenTime \in Nat

VARIABLES
    time,       \* the clock
    token,      \* the apiToken rows
    source,     \* metadata of the telemetry source, once one was registered
    cache,      \* validTokenCache of each replica, oldest first
    call,       \* verifications in flight
    revoking    \* revocations stored, cache not yet cleared

tokenVars == <<time, token, source, cache, call, revoking>>

NoToken == [exists |-> FALSE, revoked |-> FALSE, expires |-> 0, metadata |-> Unset]
NoCall == [at |-> "idle", token |-> Unset, on |-> Unset, dead |-> FALSE]

TokenInit ==
    /\ time = 0
    /\ token = [t \in Tokens |-> NoToken]
    /\ source = Unset
    /\ cache = [r \in TokenReplicas |-> <<>>]
    /\ call = [c \in Calls |-> NoCall]
    /\ revoking = {}

(* isUsableToken; an expiry of 0 stands for none.                          *)
IsUsable(t) ==
    /\ token[t].exists /\ ~token[t].revoked
    /\ token[t].expires = 0 \/ token[t].expires > time

(* POST /: a token for a telemetry source registers it, and is refused     *)
(* when the source is known under other metadata.                          *)
CreateToken(t, expires, metadata) ==
    /\ ~token[t].exists
    /\ source' = IF metadata # Unset /\ source = Unset THEN metadata ELSE source
    /\ token' = IF metadata \in {Unset, source'}
                THEN [token EXCEPT ![t] = [exists |-> TRUE, revoked |-> FALSE,
                                             expires |-> expires, metadata |-> metadata]]
                ELSE token
    /\ UNCHANGED <<time, cache, call, revoking>>

-----------------------------------------------------------------------------
(* verifyToken.                                                            *)

Without(seq, t) == SelectSeq(seq, LAMBDA e : e.token # t)
Cached(r, t) == {i \in DOMAIN cache[r] : cache[r][i].token = t}

(* cacheGet moves a live entry to the young end and drops a lapsed one.    *)
CacheGet(r, t) ==
    LET live == {i \in Cached(r, t) : cache[r][i].until > time}
    IN  [hit |-> live # {},
         cache |-> IF live = {} THEN Without(cache[r], t)
                   ELSE Without(cache[r], t) \o <<cache[r][CHOOSE i \in live : TRUE]>>]

BeginVerify(c, t, r) ==
    LET got == CacheGet(r, t)
    IN  /\ call[c] = NoCall /\ token[t].exists
        /\ cache' = [cache EXCEPT ![r] = got.cache]
        /\ call' = [call EXCEPT ![c] =
                      [at |-> IF got.hit THEN "recheck" ELSE "lookup",
                       token |-> t, on |-> r, dead |-> ~IsUsable(t)]]
        /\ UNCHANGED <<time, token, source, revoking>>

(* Mutant: a cached token is trusted.                                      *)
RecheckCacheOnly(c) ==
    /\ call[c].at = "recheck"
    /\ call' = [call EXCEPT ![c].at = "accepted"]
    /\ UNCHANGED <<time, token, source, cache, revoking>>

(* The cached path reads the row again.                                    *)
Recheck(c) ==
    LET t == call[c].token  r == call[c].on
    IN  /\ call[c].at = "recheck"
        /\ IF IsUsable(t)
           THEN /\ call' = [call EXCEPT ![c].at = "accepted"]
                /\ UNCHANGED cache
           ELSE /\ cache' = [cache EXCEPT ![r] = Without(@, t)]
                /\ call' = [call EXCEPT ![c] = NoCall]
        /\ UNCHANGED <<time, token, source, revoking>>

Lookup(c) ==
    /\ call[c].at = "lookup"
    /\ call' = [call EXCEPT ![c] = IF IsUsable(call[c].token)
                                   THEN [@ EXCEPT !.at = "hash"] ELSE NoCall]
    /\ UNCHANGED <<time, token, source, cache, revoking>>

(* cacheSet: the entry is renewed, the oldest ones make room.              *)
CacheSet(r, t) ==
    LET grown == Append(Without(cache[r], t), [token |-> t, until |-> time + CacheTtl])
    IN  SubSeq(grown, IF Len(grown) > Capacity THEN Len(grown) - Capacity + 1 ELSE 1,
               Len(grown))

(* argon2 has agreed: the token is cached without looking at the row again.*)
Verified(c) ==
    /\ call[c].at = "hash"
    /\ cache' = [cache EXCEPT ![call[c].on] = CacheSet(call[c].on, call[c].token)]
    /\ call' = [call EXCEPT ![c].at = "accepted"]
    /\ UNCHANGED <<time, token, source, revoking>>

Serve(c) ==
    /\ call[c].at = "accepted"
    /\ call' = [call EXCEPT ![c] = NoCall]
    /\ UNCHANGED <<time, token, source, cache, revoking>>

-----------------------------------------------------------------------------
(* DELETE /:id stores the revocation, then clears this replica's cache.    *)
Revoke(t, r) ==
    /\ token[t].exists /\ ~token[t].revoked
    /\ token' = [token EXCEPT ![t].revoked = TRUE]
    /\ revoking' = revoking \cup {[token |-> t, on |-> r]}
    /\ UNCHANGED <<time, source, cache, call>>

InvalidateCache(v) ==
    /\ revoking' = revoking \ {v}
    /\ cache' = [cache EXCEPT ![v.on] = Without(@, v.token)]
    /\ UNCHANGED <<time, token, source, call>>

TokenTick ==
    /\ time < MaxTokenTime
    /\ time' = time + 1
    /\ UNCHANGED <<token, source, cache, call, revoking>>

TokenNext ==
    \/ \E t \in Tokens, e \in {0, 1}, m \in Metadata \cup {Unset} : CreateToken(t, e, m)
    \/ \E c \in Calls : \/ Recheck(c) \/ Lookup(c) \/ Verified(c) \/ Serve(c)
                        \/ \E t \in Tokens, r \in TokenReplicas : BeginVerify(c, t, r)
    \/ \E t \in Tokens, r \in TokenReplicas : Revoke(t, r)
    \/ \E v \in revoking : InvalidateCache(v)
    \/ TokenTick

TokenSpec == TokenInit /\ [][TokenNext]_tokenVars

-----------------------------------------------------------------------------
(* A token revoked or expired when a request arrives never authorises that *)
(* request, on any replica, although other replicas are not told of the    *)
(* revocation and a verification under way caches the token after it.      *)
DeadTokenIsRefused ==
    \A c \in Calls : call[c].at = "accepted" => ~call[c].dead
=============================================================================
