----------------------------- MODULE LiveSocket -----------------------------
(***************************************************************************)
(* The status socket between a console and one API process: the provider   *)
(* that keeps one connection while it is mounted (booth-websocket.tsx) and *)
(* the server that authorises, subscribes, pings and drops connections     *)
(* (routes/ws.ts, lib/broadcaster.ts).  A socket's events reach the        *)
(* provider late, in any order with those of its replacement.              *)
(***************************************************************************)
EXTENDS FiniteSets

CONSTANTS
    Sockets,    \* connections that may exist at once
    NoSocket

ASSUME SocketAssumption == NoSocket \notin Sockets

VARIABLES
    client,     \* the browser's end of each socket
    server,     \* the server's end
    pinged,     \* sockets that have not answered the last ping
    owner,      \* the provider instance that opened it: the mounted one or an old one
    held,       \* `socket` of the mounted instance
    retry,      \* its reconnect timer is armed
    mounted,
    feed,       \* the provider's state: polling, connecting, live
    stopping    \* the server is closing

socketVars == <<client, server, pinged, owner, held, retry, mounted, feed, stopping>>

SocketInit ==
    /\ client = [s \in Sockets |-> "closed"]
    /\ server = [s \in Sockets |-> "closed"]
    /\ pinged = {}
    /\ owner = [s \in Sockets |-> "old"]
    /\ held = NoSocket /\ retry = FALSE /\ mounted = FALSE
    /\ feed = "polling" /\ stopping = FALSE

-----------------------------------------------------------------------------
(* The provider.                                                           *)

(* connect: a new socket is held, or the constructor throws and a retry is *)
(* armed.                                                                  *)
ConnectSocket ==
    \/ \E s \in Sockets :
         /\ client[s] = "closed" /\ server[s] = "closed"
         /\ client' = [client EXCEPT ![s] = "connecting"]
         /\ owner' = [owner EXCEPT ![s] = "mounted"]
         /\ held' = s /\ retry' = FALSE /\ feed' = "connecting"
    \/ /\ retry' = TRUE /\ feed' = "polling"
       /\ UNCHANGED <<client, owner, held>>

Mount ==
    /\ ~mounted
    /\ mounted' = TRUE
    /\ ConnectSocket
    /\ UNCHANGED <<server, pinged, stopping>>

RetryFires ==
    /\ mounted /\ retry
    /\ ConnectSocket
    /\ UNCHANGED <<server, pinged, mounted, stopping>>

(* The cleanup of the effect: the timer is cleared and the socket closed.  *)
Unmount ==
    /\ mounted
    /\ mounted' = FALSE /\ retry' = FALSE /\ held' = NoSocket
    /\ client' = IF held \in Sockets /\ client[held] # "closed"
                 THEN [client EXCEPT ![held] = "closing"] ELSE client
    /\ owner' = [s \in Sockets |-> "old"]
    /\ UNCHANGED <<server, pinged, feed, stopping>>

(* open: the answer to the upgrade arrives, before the verdict or after.   *)
Open(s) ==
    /\ client[s] = "connecting" /\ server[s] \in {"authorizing", "subscribed"}
    /\ client' = [client EXCEPT ![s] = "open"]
    /\ feed' = "live"
    /\ UNCHANGED <<server, pinged, owner, held, retry, mounted, stopping>>

(* error: the socket still held is closed; the retry waits for its close.  *)
ErrorEvent(s) ==
    /\ client[s] \in {"connecting", "open"}
    /\ client' = [client EXCEPT ![s] = "closing"]
    /\ UNCHANGED <<server, pinged, owner, held, retry, mounted, feed, stopping>>

(* close, retire: only the socket still held by the mounted instance       *)
(* schedules a retry.                                                      *)
(* Mutant: a socket of an old instance does. *)
RetiresThoughOld(s) == mounted /\ (held = s \/ owner[s] = "old")
Retires(s) == mounted /\ owner[s] = "mounted" /\ held = s

CloseEvent(s) ==
    /\ client[s] = "closing"
    /\ client' = [client EXCEPT ![s] = "closed"]
    /\ IF Retires(s) THEN held' = NoSocket /\ feed' = "polling" /\ retry' = TRUE
       ELSE UNCHANGED <<held, feed, retry>>
    /\ UNCHANGED <<server, pinged, owner, mounted, stopping>>

-----------------------------------------------------------------------------
(* The server.                                                             *)

(* handleUpgrade: the socket is open before it is authorised.              *)
Upgrade(s) ==
    /\ client[s] = "connecting" /\ server[s] = "closed" /\ ~stopping
    /\ server' = [server EXCEPT ![s] = "authorizing"]
    /\ UNCHANGED <<client, pinged, owner, held, retry, mounted, feed, stopping>>

(* After the await: a socket that is gone meanwhile, or a server that is   *)
(* closing, ends the connection; so does a refusal; else it is subscribed. *)
SocketVerdict(s, allowed) ==
    IF stopping \/ server[s] = "lost" \/ ~allowed THEN "closed" ELSE "subscribed"

Hangup(s) == IF client[s] \in {"connecting", "open"} THEN "closing" ELSE client[s]

AuthorizeSocket(s, allowed) ==
    /\ server[s] \in {"authorizing", "lost"}
    /\ server' = [server EXCEPT ![s] = SocketVerdict(s, allowed)]
    /\ client' = IF server'[s] = "closed" THEN [client EXCEPT ![s] = Hangup(s)] ELSE client
    /\ pinged' = pinged \ {s}
    /\ UNCHANGED <<owner, held, retry, mounted, feed, stopping>>

(* The server's end closes: the peer went away, the heartbeat terminates   *)
(* it, or it is a slow consumer.  A subscriber is unsubscribed; a socket   *)
(* still being authorised is only found to be lost.                        *)
ServerEnd(s) == IF server[s] = "subscribed" THEN "closed"
                ELSE IF server[s] = "authorizing" THEN "lost" ELSE server[s]

PeerGone(s) ==
    /\ server[s] \in {"authorizing", "subscribed"} /\ client[s] \in {"closing", "closed"}
    /\ server' = [server EXCEPT ![s] = ServerEnd(s)]
    /\ pinged' = pinged \ {s}
    /\ UNCHANGED <<client, owner, held, retry, mounted, feed, stopping>>

SlowConsumer(s) ==
    /\ server[s] = "subscribed"
    /\ server' = [server EXCEPT ![s] = "closed"]
    /\ client' = [client EXCEPT ![s] = Hangup(s)]
    /\ pinged' = pinged \ {s}
    /\ UNCHANGED <<owner, held, retry, mounted, feed, stopping>>

Up == {s \in Sockets : server[s] \in {"authorizing", "subscribed"}}

PingClients ==
    /\ ~stopping /\ Up # {}
    /\ server' = [s \in Sockets |-> IF s \in pinged \cap Up THEN ServerEnd(s) ELSE server[s]]
    /\ client' = [s \in Sockets |-> IF s \in pinged \cap Up THEN Hangup(s) ELSE client[s]]
    /\ pinged' = Up \ pinged
    /\ UNCHANGED <<owner, held, retry, mounted, feed, stopping>>

Pong(s) ==
    /\ s \in pinged /\ client[s] = "open" /\ server[s] = "subscribed"
    /\ pinged' = pinged \ {s}
    /\ UNCHANGED <<client, server, owner, held, retry, mounted, feed, stopping>>

(* close: no more upgrades, every client terminated.                       *)
StopServer ==
    /\ ~stopping
    /\ stopping' = TRUE
    /\ server' = [s \in Sockets |-> ServerEnd(s)]
    /\ client' = [s \in Sockets |-> IF s \in Up THEN Hangup(s) ELSE client[s]]
    /\ pinged' = {}
    /\ UNCHANGED <<owner, held, retry, mounted, feed>>

StartServer ==
    /\ stopping
    /\ stopping' = FALSE
    /\ server' = [s \in Sockets |-> "closed"]
    /\ UNCHANGED <<client, pinged, owner, held, retry, mounted, feed>>

SocketNext ==
    \/ Mount \/ RetryFires \/ Unmount \/ PingClients \/ StopServer \/ StartServer
    \/ \E s \in Sockets :
         \/ Open(s) \/ ErrorEvent(s) \/ CloseEvent(s) \/ Upgrade(s) \/ PeerGone(s)
         \/ SlowConsumer(s) \/ Pong(s)
         \/ \E allowed \in BOOLEAN : AuthorizeSocket(s, allowed)

SocketSpec == SocketInit /\ [][SocketNext]_socketVars

-----------------------------------------------------------------------------
(* The feed is never stranded and never doubled.  While it is mounted the  *)
(* provider holds a socket that is not closed or has a retry armed, never  *)
(* both; it has no second open connection, which would duplicate every     *)
(* envelope; and it is live only while the socket it holds was opened.     *)
(* After an unmount nothing of it remains but closing sockets.  On the     *)
(* server no subscriber outlives a shutdown.                               *)
FeedIsSound ==
    /\ mounted => (held \in Sockets <=> ~retry)
    /\ held \in Sockets => client[held] # "closed"
    /\ \A s \in Sockets : client[s] \in {"connecting", "open"} => s = held
    /\ mounted /\ feed = "live" => held \in Sockets /\ client[held] \in {"open", "closing"}
    /\ ~mounted => ~retry /\ held = NoSocket
    /\ stopping => \A s \in Sockets : server[s] # "subscribed"
=============================================================================
