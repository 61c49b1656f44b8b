------------------------------ MODULE PeerNode ------------------------------
(***************************************************************************)
(* The peer-to-peer node (p2p/node.go, hardening.go) with the handler that *)
(* p2p/handler.go installs.  Each section under the node's mutex is one    *)
(* step; a read loop, a handler and a Connect call interleave between      *)
(* such sections.  The remote ends send what they like, and may hang up at *)
(* any time.                                                               *)
(*                                                                         *)
(* A peer is named by a key: the address that was dialled, or the remote   *)
(* address of an accepted connection.  A dialled key may be a DNS name,    *)
(* and then it differs from the remote address of the connection.          *)
(***************************************************************************)
EXTENDS Integers, FiniteSetsExt, Functions

CONSTANTS
    None,
    Conn,             \* connections
    Inbound,          \* remote addresses that dial this node
    Dialled,          \* addresses this node dials
    Resolve,          \* the remote address behind a dialled address
    Host,             \* peerHost of an address
    MaxPeers,
    MaxPeersPerIP,
    PeerRateLimit,
    BanScore,
    MessageType       \* the types that the remote ends use

Key == Inbound \cup Dialled \cup {Resolve[k] : k \in Dialled}

Remote(k) == IF k \in Dialled THEN Resolve[k] ELSE k

ASSUME PeerAssumption ==
    /\ None \notin Conn
    /\ Inbound \cap (Dialled \cup {Resolve[k] : k \in Dialled}) = {}
    /\ \A k \in Dialled : Remote(Remote(k)) = Remote(k)
    /\ MaxPeers \in Nat /\ MaxPeersPerIP \in Nat /\ PeerRateLimit \in Nat
    /\ BanScore \in Int /\ BanScore < 0

KnownMessageTypes ==
    {"version", "verack", "ping", "pong", "inv", "getdata", "tx", "block",
     "headers", "getheaders", "mempool", "reject"}

\* A message as it arrives: a frame that is not a message at all is a message
\* of no type.
Message == [type : MessageType \cup {None}, decodes : BOOLEAN]

VARIABLES
    peers,    \* peers: the connection filed under a key
    scores,   \* scores, down to BanScore: below it nothing tells them apart
    banned,   \* banned: whether the ban of a key is still running
    stats,    \* stats: messages in the current window, up to one too many
    filed,    \* the key a connection is dialled or accepted as
    wire,     \* the state of a connection
    loop      \* the goroutine of a connection: Connect, then readLoop

vars == <<peers, scores, banned, stats, filed, wire, loop>>

Idle == [pc |-> "idle", msg |-> None, todo |-> {}]
At(pc) == [pc |-> pc, msg |-> None, todo |-> {}]

\* id in readLoop: conn.RemoteAddr()
Id(c) == Remote(filed[c])

Listed == {k \in Key : peers[k] # None}

Init ==
    /\ peers = [k \in Key |-> None]
    /\ scores = [k \in Key |-> 0]
    /\ banned = [k \in Key |-> FALSE]
    /\ stats = [k \in Key |-> 0]
    /\ filed = [c \in Conn |-> None]
    /\ wire = [c \in Conn |-> "none"]
    /\ loop = [c \in Conn |-> Idle]

-----------------------------------------------------------------------------
(* Sections under the mutex.                                               *)

\* Mutants: the limit per host, or the ban, is not looked at.
MayAddAnyHost(k) == ~banned[k] /\ Cardinality(Listed) < MaxPeers

MayAddBanned(k) ==
    /\ Cardinality(Listed) < MaxPeers
    /\ MaxPeersPerIP > 0 =>
         Cardinality({j \in Listed : Host[j] = Host[k]}) < MaxPeersPerIP

MayAdd(k) ==
    /\ ~banned[k]
    /\ Cardinality(Listed) < MaxPeers
    /\ MaxPeersPerIP > 0 =>
         Cardinality({j \in Listed : Host[j] = Host[k]}) < MaxPeersPerIP

\* addPeer, with the Close and the return of its two callers when it refuses.
AddPeer(c, k) ==
    IF MayAdd(k)
    THEN /\ peers' = [peers EXCEPT ![k] = c]
         /\ wire' = [wire EXCEPT ![c] = "open"]
         /\ loop' = [loop EXCEPT ![c] = At("allow")]
    ELSE /\ wire' = [wire EXCEPT ![c] = "closed"]
         /\ loop' = [loop EXCEPT ![c] = At("done")]
         /\ UNCHANGED peers

\* Mutants: the connection stays open; the entry stays in the map.
DisconnectOpen(k) ==
    /\ peers' = [peers EXCEPT ![k] = None]
    /\ UNCHANGED wire

RemovePeerKept(k) ==
    /\ wire' = IF peers[k] = None THEN wire ELSE [wire EXCEPT ![peers[k]] = "closed"]
    /\ UNCHANGED peers

\* conn.Close() on the connection filed under k, and delete(peers, k).
Disconnect(k) ==
    /\ peers' = [peers EXCEPT ![k] = None]
    /\ wire' = IF peers[k] = None THEN wire ELSE [wire EXCEPT ![peers[k]] = "closed"]

RemovePeer(k) == Disconnect(k)

ReportPeer(k, delta) ==
    /\ scores' = [scores EXCEPT ![k] = IF @ + delta < BanScore THEN BanScore ELSE @ + delta]
    /\ IF scores[k] + delta <= BanScore
       THEN banned' = [banned EXCEPT ![k] = TRUE] /\ Disconnect(k)
       ELSE UNCHANGED <<banned, peers, wire>>

\* Whether Send can return without an error: the map is read under the mutex,
\* and a write to a connection that the other end has left may go either way.
SendOutcomes(k) ==
    IF peers[k] = None \/ wire[peers[k]] = "closed" THEN {FALSE}
    ELSE IF wire[peers[k]] = "hungup" THEN BOOLEAN ELSE {TRUE}

-----------------------------------------------------------------------------
(* Connections.                                                            *)

\* A connection value can stand for a new connection once its goroutine has
\* returned and the map has lost it.
Fresh(c) == loop[c].pc \in {"idle", "done"} /\ \A k \in Key : peers[k] # c

\* Listen: one iteration of the accept loop.  The network does not hold two
\* connections with the same pair of addresses.
Accept(c, k) ==
    /\ Fresh(c) /\ k \in Inbound
    /\ \A d \in Conn : filed[d] = k => wire[d] = "closed"
    /\ filed' = [filed EXCEPT ![c] = k]
    /\ AddPeer(c, k)
    /\ UNCHANGED <<scores, banned, stats>>

\* Connect, up to the dial: nothing holds the mutex until addPeer.
Connect(c, k) ==
    /\ Fresh(c) /\ k \in Dialled
    /\ ~banned[k]
    /\ filed' = [filed EXCEPT ![c] = k]
    /\ wire' = [wire EXCEPT ![c] = "none"]
    /\ loop' = [loop EXCEPT ![c] = At("dial")]
    /\ UNCHANGED <<peers, scores, banned, stats>>

\* The rest of Connect.  The version message it sends changes no state here.
Dial(c) ==
    /\ loop[c].pc = "dial"
    /\ \/ AddPeer(c, filed[c])
       \/ /\ loop' = [loop EXCEPT ![c] = At("done")]
          /\ UNCHANGED <<peers, wire>>
    /\ UNCHANGED <<scores, banned, stats, filed>>

\* The remote end closes, or the network loses, a connection.
HangUp(c) ==
    /\ wire[c] = "open"
    /\ wire' = [wire EXCEPT ![c] = "hungup"]
    /\ UNCHANGED <<peers, scores, banned, stats, filed, loop>>

\* BanDuration passes.
BanExpires(k) ==
    /\ banned[k]
    /\ banned' = [banned EXCEPT ![k] = FALSE]
    /\ UNCHANGED <<peers, scores, stats, filed, wire, loop>>

-----------------------------------------------------------------------------
(* readLoop.                                                               *)

Becomes(c, pc) == loop' = [loop EXCEPT ![c] = At(pc)]

\* allowPeerMessage, in an old window or in a new one.
AllowPeerMessage(c) ==
    /\ loop[c].pc = "allow"
    /\ \E before \in {0, stats[Id(c)]} :
         LET count == IF before > PeerRateLimit THEN before ELSE before + 1
         IN  /\ stats' = [stats EXCEPT ![Id(c)] = count]
             /\ Becomes(c, IF count <= PeerRateLimit THEN "read" ELSE "failed")
    /\ UNCHANGED <<peers, scores, banned, filed, wire>>

\* readMessageLimit and validateMessage.  What the remote end sent before it
\* hung up, and what the reader holds when the connection is closed, is still
\* read.
ReadMessage(c, m) ==
    /\ loop[c].pc = "read"
    /\ loop' = [loop EXCEPT ![c] =
                  IF m.type \in KnownMessageTypes
                  THEN [pc |-> "handle", msg |-> m, todo |-> {}]
                  ELSE At("failed")]
    /\ UNCHANGED <<peers, scores, banned, stats, filed, wire>>

ReadError(c) ==
    /\ loop[c].pc = "read" /\ wire[c] \in {"hungup", "closed"}
    /\ Becomes(c, "failed")
    /\ UNCHANGED <<peers, scores, banned, stats, filed, wire>>

\* The return path of readLoop: ReportPeer(id, -25), then the deferred removePeer.
ReportFailure(c) ==
    /\ loop[c].pc = "failed"
    /\ ReportPeer(Id(c), -25)
    /\ Becomes(c, "leave")
    /\ UNCHANGED <<stats, filed>>

Leave(c) ==
    /\ loop[c].pc = "leave"
    /\ RemovePeer(Id(c))
    /\ Becomes(c, "done")
    /\ UNCHANGED <<scores, banned, stats, filed>>

-----------------------------------------------------------------------------
(* The handler.                                                            *)

Handling(c, types) == loop[c].pc = "handle" /\ loop[c].msg.type \in types

\* version, ping and getheaders are answered with Send(peer.ID, ...); a
\* getheaders request that does not decode is an error.
Answer(c) ==
    /\ Handling(c, {"version", "ping", "getheaders"})
    /\ \E sent \in SendOutcomes(Id(c)) :
         LET decoded == loop[c].msg.type = "getheaders" => loop[c].msg.decodes
         IN  Becomes(c, IF decoded /\ sent THEN "allow" ELSE "penalise")
    /\ UNCHANGED <<peers, scores, banned, stats, filed, wire>>

\* Mutant: Broadcast instead of BroadcastExcept.
AcceptPayloadAll(c) ==
    /\ Handling(c, {"block", "tx"}) /\ loop[c].msg.decodes
    /\ loop' = [loop EXCEPT ![c] = [pc |-> "relay", msg |-> None, todo |-> Listed]]
    /\ UNCHANGED <<peers, scores, banned, stats, filed, wire>>

\* block and tx, when the chain manager or the mempool accepts it: the
\* receivers are collected under the mutex (BroadcastExcept).
AcceptPayload(c) ==
    /\ Handling(c, {"block", "tx"}) /\ loop[c].msg.decodes
    /\ loop' = [loop EXCEPT ![c] =
                  [pc |-> "relay", msg |-> None, todo |-> Listed \ {Id(c)}]]
    /\ UNCHANGED <<peers, scores, banned, stats, filed, wire>>

\* block and tx refused by the chain manager or the mempool, and the types
\* that the handler has no case for.
Ignore(c) ==
    /\ \/ Handling(c, {"block", "tx"}) /\ loop[c].msg.decodes
       \/ Handling(c, KnownMessageTypes \ {"version", "ping", "getheaders", "block", "tx"})
    /\ Becomes(c, "allow")
    /\ UNCHANGED <<peers, scores, banned, stats, filed, wire>>

\* A block or tx that does not decode is reported here and, as an error, once
\* more by readLoop.
RejectPayload(c) ==
    /\ Handling(c, {"block", "tx"}) /\ ~loop[c].msg.decodes
    /\ ReportPeer(Id(c), -10)
    /\ Becomes(c, "penalise")
    /\ UNCHANGED <<stats, filed>>

\* One Send of BroadcastExcept, or its return.
Relay(c) ==
    /\ loop[c].pc = "relay"
    /\ \/ \E k \in loop[c].todo : loop' = [loop EXCEPT ![c].todo = @ \ {k}]
       \/ loop[c].todo = {} /\ Becomes(c, "allow")
    /\ UNCHANGED <<peers, scores, banned, stats, filed, wire>>

\* readLoop reports a handler's error and reads on.
ReportError(c) ==
    /\ loop[c].pc = "penalise"
    /\ ReportPeer(Id(c), -10)
    /\ Becomes(c, "allow")
    /\ UNCHANGED <<stats, filed>>

Next ==
    \/ \E k \in Key : BanExpires(k)
    \/ \E c \in Conn :
         \/ \E k \in Inbound : Accept(c, k)
         \/ \E k \in Dialled : Connect(c, k)
         \/ \E m \in Message : ReadMessage(c, m)
         \/ Dial(c) \/ HangUp(c)
         \/ AllowPeerMessage(c) \/ ReadError(c) \/ ReportFailure(c) \/ Leave(c)
         \/ Answer(c) \/ AcceptPayload(c) \/ Ignore(c) \/ RejectPayload(c)
         \/ Relay(c) \/ ReportError(c)

Spec == Init /\ [][Next]_vars

-----------------------------------------------------------------------------
(* Properties.                                                             *)

\* The limits that addPeer checks hold at all times, whichever accepts and
\* dials are in flight.
PeersBounded ==
    /\ Cardinality(Listed) <= MaxPeers
    /\ MaxPeersPerIP > 0 =>
         \A k \in Listed :
            Cardinality({j \in Listed : Host[j] = Host[k]}) <= MaxPeersPerIP

\* While a ban runs (ReportPeer), no connection is filed under the key: not
\* even one that Connect began to dial before the ban.
BannedUnlisted == \A k \in Key : banned[k] => peers[k] = None

\* The peer map, which AddrPayload, PeerCount and the limits of addPeer are
\* computed from, holds only connections whose readLoop is still running.
ListedIsConnected == \A k \in Listed : loop[peers[k]].pc # "done"

\* An accepted connection that is open and being read is the one filed under its
\* remote address: Send answers on it, ReportPeer can close it, MaxPeers counts
\* it.  (A dialled one may be displaced by a second Connect to its address.)
OpenIsListed ==
    \A c \in Conn :
        /\ filed[c] \in Inbound
        /\ wire[c] \in {"open", "hungup"}
        /\ loop[c].pc \notin {"idle", "dial", "done"}
        => peers[Id(c)] = c

\* BroadcastExcept never sends a block or transaction back on the connection
\* it came from.
RelayedToOthers ==
    \A c \in Conn : loop[c].pc = "relay" => \A k \in loop[c].todo : peers[k] # c
=============================================================================
