--------------------------- MODULE PeerNodeProofs ---------------------------
(***************************************************************************)
(* Theorems about the peer-to-peer node (PeerNode), for any number of      *)
(* connections, addresses and hosts and for every limit.                   *)
(*                                                                         *)
(* The steps fall into three groups, with a lemma each: the steps of a     *)
(* goroutine that touch no shared state, the removal of the entry of a key *)
(* (ReportPeer, removePeer), and addPeer.                                  *)
(***************************************************************************)
EXTENDS PeerNode, FiniteSetTheorems, TLAPS

\* readLoop runs for the connection.
Reading(c) == loop[c].pc \notin {"idle", "dial", "done"}

\* Where a goroutine can be, and what it holds there.
PcState == {"idle", "dial", "allow", "read", "handle", "relay", "penalise", "failed",
            "leave", "done"}

LoopState == [pc : PcState, msg : Message \cup {None}, todo : SUBSET Key]

\* The types of the state that the theorems are about.
PeersTyped ==
    /\ peers \in [Key -> Conn \cup {None}]
    /\ banned \in [Key -> BOOLEAN]
    /\ filed \in [Conn -> Inbound \cup Dialled \cup {None}]
    /\ wire \in [Conn -> {"none", "open", "hungup", "closed"}]
    /\ loop \in [Conn -> LoopState]
    /\ IsFiniteSet(Listed)

\* A goroutine works on the address it was started for: Connect dials a
\* dialled one, readLoop has either kind.
Started ==
    \A c \in Conn :
        /\ loop[c].pc = "dial" => filed[c] \in Dialled
        /\ Reading(c) => filed[c] \in Inbound \cup Dialled

\* A connection is filed under one key only, the one it was dialled or
\* accepted as, and not before addPeer.
FiledOnce ==
    \A k \in Listed : filed[peers[k]] = k /\ loop[peers[k]].pc \notin {"idle", "dial"}

\* BroadcastExcept leaves out the sender's remote address.
SenderSkipped ==
    \A c \in Conn : loop[c].pc = "relay" => Id(c) \notin loop[c].todo

\* The addresses that this node dials are numeric: the remote address of the
\* connection is the address that was dialled.
NumericSeeds == \A k \in Dialled : Resolve[k] = k

\* The inductive invariant.
PeersInv ==
    /\ PeersTyped /\ Started /\ FiledOnce /\ SenderSkipped
    /\ PeersBounded /\ BannedUnlisted /\ OpenIsListed
    /\ NumericSeeds => ListedIsConnected

\* What a step of the goroutine of c leaves in loop.
StepsTo(c, r) == loop' = [loop EXCEPT ![c] = r]

-----------------------------------------------------------------------------
\* One more entry makes the peer map at most one larger.
LEMMA AddOne ==
    ASSUME NEW S, IsFiniteSet(S), NEW x
    PROVE  /\ IsFiniteSet(S \cup {x})
           /\ Cardinality(S) \in Nat /\ Cardinality(S \cup {x}) \in Nat
           /\ Cardinality(S \cup {x}) <= Cardinality(S) + 1
<1>1. /\ IsFiniteSet(S \cup {x})
      /\ Cardinality(S \cup {x}) = IF x \in S THEN Cardinality(S) ELSE Cardinality(S) + 1
  BY FS_AddElement
<1>2. Cardinality(S) \in Nat /\ Cardinality(S \cup {x}) \in Nat
  BY <1>1, FS_CardinalityType
<1>3. QED
  BY <1>1, <1>2

\* The remote address of a connection is a key.
LEMMA IdIsKey ==
    ASSUME PeersInv, NEW c \in Conn, Reading(c)
    PROVE  Id(c) \in Key
BY DEF PeersInv, Started, Id, Remote, Key

\* With numeric seeds a connection is filed under its remote address or not at all.
LEMMA FiledUnderRemote ==
    ASSUME NumericSeeds, PeersInv, NEW k \in Listed
    PROVE  Id(peers[k]) = k
BY DEF NumericSeeds, PeersInv, FiledOnce, Id, Remote

\* The states that a goroutine goes to.
LEMMA AtTyped ==
    ASSUME NEW pc \in PcState
    PROVE  At(pc) \in LoopState /\ At(pc).pc = pc /\ At(pc).todo = {}
BY DEF At, LoopState, PcState

\* A step of readLoop or of the handler that touches no shared state.
LEMMA LoopStepPreserves ==
    ASSUME PeersInv, NEW c \in Conn, NEW r \in LoopState, Reading(c), StepsTo(c, r),
           r.pc \notin {"idle", "dial", "done"}, r.pc = "relay" => Id(c) \notin r.todo,
           UNCHANGED <<peers, banned, filed, wire>>
    PROVE  PeersInv'
<1>1. /\ PeersTyped /\ Started /\ FiledOnce /\ SenderSkipped
      /\ PeersBounded /\ BannedUnlisted /\ OpenIsListed
      /\ NumericSeeds => ListedIsConnected
  BY DEF PeersInv
<1>2. /\ loop' \in [Conn -> LoopState]
      /\ loop'[c] = r /\ \A d \in Conn \ {c} : loop'[d] = loop[d]
  BY <1>1 DEF PeersTyped, StepsTo
<1>3. Listed' = Listed /\ \A d \in Conn : Id(d)' = Id(d)
  BY DEF Listed, Id
<1>4. PeersTyped'
  BY <1>1, <1>2, <1>3 DEF PeersTyped
<1>5. Started'
  BY <1>1, <1>2 DEF Started, Reading
<1>6. FiledOnce'
  BY <1>1, <1>2, <1>3 DEF FiledOnce, PeersTyped, Listed
<1>7. SenderSkipped'
  BY <1>1, <1>2, <1>3 DEF SenderSkipped
<1>8. PeersBounded' /\ BannedUnlisted'
  BY <1>1, <1>3 DEF PeersBounded, BannedUnlisted
<1>9. OpenIsListed'
  BY <1>1, <1>2, <1>3 DEF OpenIsListed, Reading
<1>10. NumericSeeds => ListedIsConnected'
  BY <1>1, <1>2, <1>3 DEF ListedIsConnected, PeersTyped, Listed
<1>11. QED
  BY <1>4, <1>5, <1>6, <1>7, <1>8, <1>9, <1>10 DEF PeersInv, NumericSeeds

\* Disconnect, by the goroutine of some connection: an entry goes, and what it
\* named is closed.
LEMMA DisconnectPreserves ==
    ASSUME PeersInv, NEW c \in Conn, NEW r \in LoopState, Reading(c), StepsTo(c, r),
           r.pc \notin {"idle", "dial", "relay"}, Disconnect(Id(c)),
           banned' \in {banned, [banned EXCEPT ![Id(c)] = TRUE]}, UNCHANGED filed
    PROVE  PeersInv'
<1> DEFINE k == Id(c)
<1>k. k \in Key
  BY IdIsKey
<1> HIDE DEF k
<1>1. /\ PeersTyped /\ Started /\ FiledOnce /\ SenderSkipped
      /\ PeersBounded /\ BannedUnlisted /\ OpenIsListed
      /\ NumericSeeds => ListedIsConnected
  BY DEF PeersInv
<1>2. /\ loop' \in [Conn -> LoopState]
      /\ loop'[c] = r /\ \A d \in Conn \ {c} : loop'[d] = loop[d]
  BY <1>1 DEF PeersTyped, StepsTo
<1>3. /\ peers' \in [Key -> Conn \cup {None}]
      /\ peers'[k] = None /\ \A j \in Key \ {k} : peers'[j] = peers[j]
  BY <1>1, <1>k DEF PeersTyped, Disconnect, k
<1>4. /\ wire' \in [Conn -> {"none", "open", "hungup", "closed"}]
      /\ peers[k] # None => wire'[peers[k]] = "closed"
      /\ \A d \in Conn : wire'[d] \in {wire[d], "closed"}
  BY <1>1, <1>k DEF PeersTyped, Disconnect, k
<1>5. Listed' = Listed \ {k} /\ \A d \in Conn : Id(d)' = Id(d)
  BY <1>3, <1>k DEF Listed, Id
<1>6. IsFiniteSet(Listed') /\ Cardinality(Listed') <= Cardinality(Listed)
  BY <1>1, <1>5, FS_Subset DEF PeersTyped
<1>7. PeersTyped'
  BY <1>1, <1>2, <1>3, <1>4, <1>6 DEF PeersTyped
<1>8. Started'
  BY <1>1, <1>2 DEF Started, Reading
<1>9. FiledOnce'
  BY <1>1, <1>2, <1>3, <1>5 DEF FiledOnce, PeersTyped, Listed
<1>10. SenderSkipped'
  BY <1>1, <1>2, <1>5 DEF SenderSkipped
<1>11. BannedUnlisted'
  BY <1>1, <1>3, <1>k DEF BannedUnlisted, PeersTyped, k
<1>12. PeersBounded'
  <2>1. Cardinality(Listed) \in Nat /\ Cardinality(Listed') \in Nat /\ MaxPeers \in Nat
    BY <1>1, <1>6, FS_CardinalityType, PeerAssumption DEF PeersTyped
  <2>2. Cardinality(Listed') <= MaxPeers
    BY <1>1, <1>6, <2>1 DEF PeersBounded
  <2>3. ASSUME NEW i \in Listed', MaxPeersPerIP > 0
        PROVE  Cardinality({j \in Listed' : Host[j] = Host[i]}) <= MaxPeersPerIP
    <3> DEFINE Old == {j \in Listed : Host[j] = Host[i]}
               New == {j \in Listed' : Host[j] = Host[i]}
    <3>1. New \subseteq Old /\ Old \subseteq Listed /\ i \in Listed
      BY <1>5, <2>3
    <3>2. IsFiniteSet(Old)
      BY <1>1, <3>1, FS_Subset DEF PeersTyped
    <3>3. IsFiniteSet(New) /\ Cardinality(New) <= Cardinality(Old)
      BY <3>1, <3>2, FS_Subset
    <3>4. Cardinality(Old) <= MaxPeersPerIP
      BY <1>1, <2>3, <3>1 DEF PeersBounded
    <3>5. Cardinality(Old) \in Nat /\ Cardinality(New) \in Nat /\ MaxPeersPerIP \in Nat
      BY <3>2, <3>3, FS_CardinalityType, PeerAssumption
    <3> HIDE DEF Old, New
    <3>6. Cardinality(New) <= MaxPeersPerIP
      BY <3>3, <3>4, <3>5
    <3>7. QED
      BY <3>6 DEF New
  <2>4. QED
    BY <2>2, <2>3 DEF PeersBounded
<1>13. OpenIsListed'
  <2> SUFFICES ASSUME NEW d \in Conn, filed[d] \in Inbound,
                      wire'[d] \in {"open", "hungup"},
                      loop'[d].pc \notin {"idle", "dial", "done"}
               PROVE  peers'[Id(d)] = d
    BY <1>5 DEF OpenIsListed
  <2>1. wire[d] = wire'[d]
    BY <1>4
  <2>2. loop[d].pc \notin {"idle", "dial", "done"}
    BY <1>2 DEF Reading
  <2>3. peers[Id(d)] = d
    BY <1>1, <2>1, <2>2 DEF OpenIsListed
  <2>4. Id(d) \in Key /\ d # None
    BY <1>1, <2>2, IdIsKey, PeerAssumption DEF PeersInv, Reading
  <2>5. Id(d) # k
    BY <1>4, <2>3, <2>4
  <2>6. QED
    BY <1>3, <2>3, <2>4, <2>5
<1>14. ASSUME NumericSeeds PROVE ListedIsConnected'
  <2> SUFFICES ASSUME NEW j \in Listed' PROVE loop'[peers'[j]].pc # "done"
    BY DEF ListedIsConnected
  <2>1. j \in Listed /\ j # k /\ j \in Key /\ peers'[j] = peers[j] /\ peers[j] \in Conn
    BY <1>1, <1>3, <1>5 DEF Listed, PeersTyped
  <2>2. peers[j] # c
    BY <1>14, <2>1, FiledUnderRemote DEF k
  <2>3. QED
    BY <1>1, <1>2, <1>14, <2>1, <2>2 DEF ListedIsConnected
<1>15. QED
  BY <1>7, <1>8, <1>9, <1>10, <1>11, <1>12, <1>13, <1>14 DEF PeersInv, NumericSeeds

\* ReportPeer, whether it bans or not.
LEMMA ReportPreserves ==
    ASSUME PeersInv, NEW c \in Conn, NEW pc \in PcState, Reading(c), Becomes(c, pc),
           pc \notin {"idle", "dial", "done", "relay"}, NEW delta \in Int,
           ReportPeer(Id(c), delta), UNCHANGED filed
    PROVE  PeersInv'
<1>1. At(pc) \in LoopState /\ At(pc).pc = pc
  BY AtTyped DEF PcState
<1>2. StepsTo(c, At(pc)) /\ Id(c) \in Key
  BY IdIsKey DEF Becomes, StepsTo
<1>3. CASE banned' = [banned EXCEPT ![Id(c)] = TRUE] /\ Disconnect(Id(c))
  BY <1>1, <1>2, <1>3, DisconnectPreserves
<1>4. CASE UNCHANGED <<banned, peers, wire>>
  BY <1>1, <1>2, <1>4, LoopStepPreserves
<1>5. QED
  BY <1>3, <1>4 DEF ReportPeer

\* addPeer for a connection that no key names, with the outcome for its callers.
\* When the key is that of an accepted connection, no other open one has it.
LEMMA AddPeerPreserves ==
    ASSUME PeersInv, NEW c \in Conn, NEW k \in Inbound \cup Dialled, AddPeer(c, k),
           \A j \in Key : peers[j] # c,
           filed' = [filed EXCEPT ![c] = k],
           k \in Inbound => \A d \in Conn : filed[d] = k => wire[d] = "closed",
           UNCHANGED banned
    PROVE  PeersInv'
<1>1. /\ PeersTyped /\ Started /\ FiledOnce /\ SenderSkipped
      /\ PeersBounded /\ BannedUnlisted /\ OpenIsListed
      /\ NumericSeeds => ListedIsConnected
  BY DEF PeersInv
<1>2. k \in Key /\ c # None
  BY PeerAssumption DEF Key
<1>3. /\ filed' \in [Conn -> Inbound \cup Dialled \cup {None}]
      /\ filed'[c] = k /\ \A d \in Conn \ {c} : filed'[d] = filed[d] /\ Id(d)' = Id(d)
  BY <1>1 DEF PeersTyped, Id
<1>4. PICK pc \in {"allow", "done"} : /\ loop' = [loop EXCEPT ![c] = At(pc)]
                                      /\ MayAdd(k) <=> pc = "allow"
  BY DEF AddPeer
<1>5. At(pc) \in LoopState /\ At(pc).pc = pc /\ At(pc).todo = {}
  <2>1. pc \in PcState
    BY <1>4 DEF PcState
  <2>2. QED
    BY <2>1, AtTyped
<1>6. /\ loop' \in [Conn -> LoopState]
      /\ loop'[c].pc = pc /\ \A d \in Conn \ {c} : loop'[d] = loop[d]
  BY <1>1, <1>4, <1>5 DEF PeersTyped
<1>7. /\ wire' \in [Conn -> {"none", "open", "hungup", "closed"}]
      /\ wire'[c] = IF MayAdd(k) THEN "open" ELSE "closed"
      /\ \A d \in Conn \ {c} : wire'[d] = wire[d]
  BY <1>1 DEF AddPeer, PeersTyped
<1>8. Started'
  BY <1>1, <1>3, <1>4, <1>6 DEF Started, Reading
<1>9. SenderSkipped'
  BY <1>1, <1>3, <1>4, <1>6 DEF SenderSkipped
<1>10. CASE ~MayAdd(k)
  <2>1. peers' = peers
    BY <1>10 DEF AddPeer
  <2>2. Listed' = Listed
    BY <2>1 DEF Listed
  <2>3. PeersTyped'
    BY <1>1, <1>3, <1>6, <1>7, <2>1, <2>2 DEF PeersTyped
  <2>4. FiledOnce'
    BY <1>1, <1>3, <1>6, <2>1, <2>2 DEF FiledOnce, PeersTyped, Listed
  <2>5. PeersBounded' /\ BannedUnlisted'
    BY <1>1, <2>1, <2>2 DEF PeersBounded, BannedUnlisted
  <2>6. OpenIsListed'
    BY <1>1, <1>3, <1>6, <1>7, <1>10, <2>1 DEF OpenIsListed
  <2>7. NumericSeeds => ListedIsConnected'
    BY <1>1, <1>6, <2>1, <2>2 DEF ListedIsConnected, PeersTyped, Listed
  <2>8. QED
    BY <1>8, <1>9, <2>3, <2>4, <2>5, <2>6, <2>7 DEF PeersInv, NumericSeeds
<1>11. CASE MayAdd(k)
  <2>1. /\ peers' \in [Key -> Conn \cup {None}]
        /\ peers'[k] = c /\ \A j \in Key \ {k} : peers'[j] = peers[j]
    BY <1>1, <1>2, <1>11 DEF AddPeer, PeersTyped
  <2>2. Listed' = Listed \cup {k}
    BY <1>2, <2>1 DEF Listed
  <2>3. /\ IsFiniteSet(Listed) /\ IsFiniteSet(Listed')
        /\ Cardinality(Listed') <= Cardinality(Listed) + 1
    <3>1. IsFiniteSet(Listed)
      BY <1>1 DEF PeersTyped
    <3>2. QED
      BY <2>2, <3>1, AddOne
  <2>4. PeersTyped'
    BY <1>1, <1>3, <1>6, <1>7, <2>1, <2>3 DEF PeersTyped
  <2>5. FiledOnce'
    BY <1>1, <1>2, <1>3, <1>4, <1>6, <1>11, <2>1, <2>2 DEF FiledOnce, PeersTyped, Listed
  <2>6. BannedUnlisted'
    BY <1>1, <1>2, <1>11, <2>1 DEF BannedUnlisted, MayAdd
  <2>7. PeersBounded'
    <3>1. Cardinality(Listed) \in Nat /\ Cardinality(Listed') \in Nat
      BY <2>3, FS_CardinalityType
    <3>2. Cardinality(Listed') <= MaxPeers
      BY <1>11, <2>3, <3>1, PeerAssumption DEF MayAdd
    <3>3. ASSUME NEW i \in Listed', MaxPeersPerIP > 0
          PROVE  Cardinality({j \in Listed' : Host[j] = Host[i]}) <= MaxPeersPerIP
      <4> DEFINE Old == {j \in Listed : Host[j] = Host[i]}
                 New == {j \in Listed' : Host[j] = Host[i]}
      <4>1. IsFiniteSet(Old)
        BY <2>3, FS_Subset
      <4>2. Cardinality(Old) \in Nat /\ MaxPeersPerIP \in Nat
        BY <4>1, FS_CardinalityType, PeerAssumption
      <4>3. CASE Host[i] = Host[k]
        <5>1. New = Old \cup {k}
          BY <2>2, <4>3
        <5>2. Cardinality(Old) < MaxPeersPerIP
          BY <1>11, <3>3, <4>3 DEF MayAdd
        <5> HIDE DEF Old, New
        <5>3. Cardinality(New) <= Cardinality(Old) + 1 /\ Cardinality(New) \in Nat
          BY <4>1, <5>1, AddOne
        <5>4. Cardinality(New) <= MaxPeersPerIP
          BY <4>2, <5>2, <5>3
        <5>5. QED
          BY <5>4 DEF New
      <4>4. CASE Host[i] # Host[k]
        <5>1. New = Old /\ i \in Listed
          BY <2>2, <3>3, <4>4
        <5>2. QED
          BY <1>1, <3>3, <5>1 DEF PeersBounded
      <4>5. QED
        BY <4>3, <4>4
    <3>4. QED
      BY <3>2, <3>3 DEF PeersBounded
  <2>8. OpenIsListed'
    <3> SUFFICES ASSUME NEW d \in Conn, filed'[d] \in Inbound,
                        wire'[d] \in {"open", "hungup"},
                        loop'[d].pc \notin {"idle", "dial", "done"}
                 PROVE  peers'[Id(d)'] = d
      BY DEF OpenIsListed
    <3>1. filed'[d] \notin Dialled /\ Id(d)' = filed'[d]
      BY PeerAssumption DEF Id, Remote
    <3>2. CASE d = c
      BY <1>3, <2>1, <3>1, <3>2
    <3>3. CASE d # c
      <4>1. /\ filed[d] = filed'[d] /\ Id(d) = filed[d]
            /\ wire[d] = wire'[d] /\ loop[d] = loop'[d]
        BY <1>3, <1>6, <1>7, <3>1, <3>3
      <4>2. peers[Id(d)] = d
        BY <1>1, <4>1 DEF OpenIsListed
      <4>3. filed[d] # k
        BY <3>1, <4>1
      <4>4. Id(d) \in Key
        BY <4>1 DEF Key
      <4>5. QED
        BY <2>1, <3>1, <4>1, <4>2, <4>3, <4>4
    <3>4. QED
      BY <3>2, <3>3
  <2>9. NumericSeeds => ListedIsConnected'
    BY <1>1, <1>4, <1>6, <1>11, <2>1, <2>2 DEF ListedIsConnected, PeersTyped, Listed
  <2>10. QED
    BY <1>8, <1>9, <2>4, <2>5, <2>6, <2>7, <2>8, <2>9 DEF PeersInv, NumericSeeds
<1>12. QED
  BY <1>10, <1>11
-----------------------------------------------------------------------------
\* The invariant holds before any connection.
LEMMA PeersInit == Init => PeersInv
<1> SUFFICES ASSUME Init PROVE PeersInv
  OBVIOUS
<1>1. Listed = {}
  BY DEF Init, Listed
<1>2. IsFiniteSet(Listed) /\ Cardinality(Listed) = 0
  BY <1>1, FS_EmptySet
<1>3. Idle \in LoopState /\ Idle.pc = "idle"
  BY DEF Idle, LoopState, PcState
<1>4. PeersTyped
  BY <1>2, <1>3 DEF Init, PeersTyped
<1>5. Started /\ SenderSkipped /\ OpenIsListed
  BY <1>3 DEF Init, Started, SenderSkipped, OpenIsListed, Reading
<1>6. FiledOnce /\ BannedUnlisted
  BY <1>1 DEF Init, FiledOnce, BannedUnlisted
<1>7. PeersBounded
  BY <1>1, <1>2, PeerAssumption DEF PeersBounded
<1>8. QED
  BY <1>1, <1>4, <1>5, <1>6, <1>7 DEF PeersInv, ListedIsConnected

\* Connect's first section: the connection is not filed yet.
LEMMA ConnectPreserves ==
    ASSUME PeersInv, NEW c \in Conn, NEW k \in Dialled, Connect(c, k)
    PROVE  PeersInv'
<1>1. /\ PeersTyped /\ Started /\ FiledOnce /\ SenderSkipped
      /\ PeersBounded /\ BannedUnlisted /\ OpenIsListed
      /\ NumericSeeds => ListedIsConnected
  BY DEF PeersInv
<1>2. UNCHANGED <<peers, banned>> /\ Listed' = Listed
  BY DEF Connect, Listed
<1>3. /\ filed' \in [Conn -> Inbound \cup Dialled \cup {None}]
      /\ filed'[c] = k /\ \A d \in Conn \ {c} : filed'[d] = filed[d] /\ Id(d)' = Id(d)
  BY <1>1 DEF PeersTyped, Connect, Id
<1>4. At("dial") \in LoopState /\ At("dial").pc = "dial"
  BY AtTyped DEF PcState
<1>5. /\ loop' \in [Conn -> LoopState]
      /\ loop'[c].pc = "dial" /\ \A d \in Conn \ {c} : loop'[d] = loop[d]
  BY <1>1, <1>4 DEF PeersTyped, Connect
<1>6. /\ wire' \in [Conn -> {"none", "open", "hungup", "closed"}]
      /\ \A d \in Conn \ {c} : wire'[d] = wire[d]
  BY <1>1 DEF PeersTyped, Connect
<1>7. \A j \in Key : peers[j] # c
  BY DEF Connect, Fresh
<1>8. PeersTyped' /\ Started' /\ SenderSkipped'
  BY <1>1, <1>2, <1>3, <1>5, <1>6 DEF PeersTyped, Started, SenderSkipped, Reading
<1>9. FiledOnce'
  BY <1>1, <1>2, <1>3, <1>5, <1>7 DEF FiledOnce, PeersTyped, Listed
<1>10. PeersBounded' /\ BannedUnlisted'
  BY <1>1, <1>2 DEF PeersBounded, BannedUnlisted
<1>11. OpenIsListed'
  BY <1>1, <1>2, <1>3, <1>5, <1>6 DEF OpenIsListed
<1>12. NumericSeeds => ListedIsConnected'
  BY <1>1, <1>2, <1>5, <1>7 DEF ListedIsConnected, PeersTyped, Listed
<1>13. QED
  BY <1>8, <1>9, <1>10, <1>11, <1>12 DEF PeersInv, NumericSeeds

\* The rest of Connect: addPeer, or a dial that fails.
LEMMA DialPreserves ==
    ASSUME PeersInv, NEW c \in Conn, Dial(c)
    PROVE  PeersInv'
<1>1. /\ PeersTyped /\ Started /\ FiledOnce /\ SenderSkipped
      /\ PeersBounded /\ BannedUnlisted /\ OpenIsListed
      /\ NumericSeeds => ListedIsConnected
  BY DEF PeersInv
<1>2. loop[c].pc = "dial" /\ filed[c] \in Dialled /\ UNCHANGED <<banned, filed>>
  BY <1>1 DEF Dial, Started
<1>3. \A j \in Key : peers[j] # c
  BY <1>1, <1>2, PeerAssumption DEF FiledOnce, Listed
<1>4. CASE AddPeer(c, filed[c])
  <2>1. filed' = [filed EXCEPT ![c] = filed[c]]
    BY <1>1, <1>2 DEF PeersTyped
  <2>2. filed[c] \notin Inbound
    BY <1>2, PeerAssumption
  <2>3. QED
    BY <1>2, <1>3, <1>4, <2>1, <2>2, AddPeerPreserves
<1>5. CASE loop' = [loop EXCEPT ![c] = At("done")] /\ UNCHANGED <<peers, wire>>
  <2>1. At("done") \in LoopState /\ At("done").pc = "done"
    BY AtTyped DEF PcState
  <2>2. /\ loop' \in [Conn -> LoopState]
        /\ loop'[c].pc = "done" /\ \A d \in Conn \ {c} : loop'[d] = loop[d]
    BY <1>1, <1>5, <2>1 DEF PeersTyped
  <2>3. Listed' = Listed /\ \A d \in Conn : Id(d)' = Id(d)
    BY <1>2, <1>5 DEF Listed, Id
  <2>4. PeersTyped' /\ Started' /\ SenderSkipped'
    BY <1>1, <1>2, <1>5, <2>2, <2>3 DEF PeersTyped, Started, SenderSkipped, Reading
  <2>5. FiledOnce'
    BY <1>1, <1>2, <1>3, <1>5, <2>2, <2>3 DEF FiledOnce, PeersTyped, Listed
  <2>6. PeersBounded' /\ BannedUnlisted'
    BY <1>1, <1>2, <1>5, <2>3 DEF PeersBounded, BannedUnlisted
  <2>7. OpenIsListed'
    BY <1>1, <1>2, <1>5, <2>2, <2>3 DEF OpenIsListed
  <2>8. NumericSeeds => ListedIsConnected'
    BY <1>1, <1>3, <1>5, <2>2, <2>3 DEF ListedIsConnected, PeersTyped, Listed
  <2>9. QED
    BY <2>4, <2>5, <2>6, <2>7, <2>8 DEF PeersInv, NumericSeeds
<1>6. QED
  BY <1>4, <1>5 DEF Dial

\* The remote end hangs up, or a ban runs out.
LEMMA OutsidePreserves ==
    ASSUME PeersInv,
           \/ \E c \in Conn : HangUp(c)
           \/ \E k \in Key : BanExpires(k)
    PROVE  PeersInv'
<1>1. /\ PeersTyped /\ Started /\ FiledOnce /\ SenderSkipped
      /\ PeersBounded /\ BannedUnlisted /\ OpenIsListed
      /\ NumericSeeds => ListedIsConnected
  BY DEF PeersInv
<1>2. UNCHANGED <<peers, filed, loop>>
  BY DEF HangUp, BanExpires
<1>3. Listed' = Listed /\ \A d \in Conn : Id(d)' = Id(d)
  BY <1>2 DEF Listed, Id
<1>4. /\ wire' \in [Conn -> {"none", "open", "hungup", "closed"}]
      /\ \A d \in Conn : wire'[d] \in {"open", "hungup"} => wire[d] \in {"open", "hungup"}
  BY <1>1 DEF PeersTyped, HangUp, BanExpires
<1>5. /\ banned' \in [Key -> BOOLEAN]
      /\ \A k \in Key : banned'[k] => banned[k]
  BY <1>1 DEF PeersTyped, HangUp, BanExpires
<1>6. PeersTyped' /\ Started' /\ SenderSkipped' /\ FiledOnce'
  BY <1>1, <1>2, <1>3, <1>4, <1>5 DEF PeersTyped, Started, SenderSkipped, FiledOnce, Reading
<1>7. PeersBounded' /\ BannedUnlisted'
  BY <1>1, <1>2, <1>3, <1>5 DEF PeersBounded, BannedUnlisted
<1>8. OpenIsListed'
  BY <1>1, <1>2, <1>3, <1>4 DEF OpenIsListed
<1>9. NumericSeeds => ListedIsConnected'
  BY <1>1, <1>2, <1>3 DEF ListedIsConnected
<1>10. QED
  BY <1>6, <1>7, <1>8, <1>9 DEF PeersInv, NumericSeeds

\* Every step preserves the invariant.
LEMMA PeersNext == PeersInv /\ [Next]_vars => PeersInv'
<1> SUFFICES ASSUME PeersInv, [Next]_vars PROVE PeersInv'
  OBVIOUS
<1>1. CASE \E k \in Key : BanExpires(k)
  BY <1>1, OutsidePreserves
<1>2. ASSUME NEW c \in Conn, HangUp(c) PROVE PeersInv'
  BY <1>2, OutsidePreserves
<1>3. ASSUME NEW c \in Conn, NEW k \in Inbound, Accept(c, k) PROVE PeersInv'
  BY <1>3, AddPeerPreserves DEF Accept, Fresh
<1>4. ASSUME NEW c \in Conn, NEW k \in Dialled, Connect(c, k) PROVE PeersInv'
  BY <1>4, ConnectPreserves
<1>5. ASSUME NEW c \in Conn, Dial(c) PROVE PeersInv'
  BY <1>5, DialPreserves
<1>6. ASSUME NEW c \in Conn, AllowPeerMessage(c) PROVE PeersInv'
  <2>1. PICK pc \in {"read", "failed"} : Becomes(c, pc)
    BY <1>6 DEF AllowPeerMessage
  <2>2. pc \in PcState /\ Reading(c)
    BY <1>6, <2>1 DEF AllowPeerMessage, Reading, PcState
  <2>3. At(pc) \in LoopState /\ At(pc).pc = pc /\ StepsTo(c, At(pc))
    BY <2>1, <2>2, AtTyped DEF Becomes, StepsTo
  <2>4. UNCHANGED <<peers, banned, filed, wire>>
    BY <1>6 DEF AllowPeerMessage
  <2>5. QED
    BY <2>1, <2>2, <2>3, <2>4, LoopStepPreserves
<1>7. ASSUME NEW c \in Conn, NEW m \in Message, ReadMessage(c, m) PROVE PeersInv'
  <2> DEFINE handle == [pc |-> "handle", msg |-> m, todo |-> {}]
  <2>1. handle \in LoopState /\ handle.pc = "handle"
    BY <1>7 DEF LoopState, PcState
  <2>2. At("failed") \in LoopState /\ At("failed").pc = "failed"
    BY AtTyped DEF PcState
  <2>3. StepsTo(c, handle) \/ StepsTo(c, At("failed"))
    BY <1>7 DEF ReadMessage, StepsTo
  <2>4. Reading(c) /\ UNCHANGED <<peers, banned, filed, wire>>
    BY <1>7 DEF ReadMessage, Reading
  <2> HIDE DEF handle
  <2>5. QED
    BY <2>1, <2>2, <2>3, <2>4, LoopStepPreserves
<1>8. ASSUME NEW c \in Conn, ReadError(c) PROVE PeersInv'
  <2>1. At("failed") \in LoopState /\ At("failed").pc = "failed"
    BY AtTyped DEF PcState
  <2>2. Reading(c) /\ StepsTo(c, At("failed")) /\ UNCHANGED <<peers, banned, filed, wire>>
    BY <1>8 DEF ReadError, Reading, Becomes, StepsTo
  <2>3. QED
    BY <2>1, <2>2, LoopStepPreserves
<1>9. ASSUME NEW c \in Conn, ReportFailure(c) PROVE PeersInv'
  <2>1. Reading(c)
    BY <1>9 DEF ReportFailure, Reading
  <2>2. QED
    BY <1>9, <2>1, ReportPreserves DEF ReportFailure, PcState
<1>10. ASSUME NEW c \in Conn, Leave(c) PROVE PeersInv'
  <2>1. At("done") \in LoopState /\ At("done").pc = "done"
    BY AtTyped DEF PcState
  <2>2. /\ Reading(c) /\ StepsTo(c, At("done")) /\ Disconnect(Id(c))
        /\ UNCHANGED <<banned, filed>>
    BY <1>10 DEF Leave, Reading, Becomes, StepsTo, RemovePeer
  <2>3. QED
    BY <2>1, <2>2, IdIsKey, DisconnectPreserves
<1>11. ASSUME NEW c \in Conn, Answer(c) PROVE PeersInv'
  <2>1. PICK pc \in {"allow", "penalise"} : Becomes(c, pc)
    BY <1>11 DEF Answer
  <2>2. pc \in PcState /\ Reading(c)
    BY <1>11, <2>1 DEF Answer, Handling, Reading, PcState
  <2>3. At(pc) \in LoopState /\ At(pc).pc = pc /\ StepsTo(c, At(pc))
    BY <2>1, <2>2, AtTyped DEF Becomes, StepsTo
  <2>4. UNCHANGED <<peers, banned, filed, wire>>
    BY <1>11 DEF Answer
  <2>5. QED
    BY <2>1, <2>2, <2>3, <2>4, LoopStepPreserves
<1>12. ASSUME NEW c \in Conn, AcceptPayload(c) PROVE PeersInv'
  <2> DEFINE relay == [pc |-> "relay", msg |-> None, todo |-> Listed \ {Id(c)}]
  <2>1. relay \in LoopState /\ relay.pc = "relay" /\ Id(c) \notin relay.todo
    BY DEF LoopState, PcState, Listed
  <2>2. Reading(c) /\ StepsTo(c, relay) /\ UNCHANGED <<peers, banned, filed, wire>>
    BY <1>12 DEF AcceptPayload, Handling, Reading, StepsTo
  <2> HIDE DEF relay
  <2>3. QED
    BY <2>1, <2>2, LoopStepPreserves
<1>13. ASSUME NEW c \in Conn, Ignore(c) PROVE PeersInv'
  <2>1. At("allow") \in LoopState /\ At("allow").pc = "allow"
    BY AtTyped DEF PcState
  <2>2. Reading(c) /\ StepsTo(c, At("allow")) /\ UNCHANGED <<peers, banned, filed, wire>>
    BY <1>13 DEF Ignore, Handling, Reading, Becomes, StepsTo
  <2>3. QED
    BY <2>1, <2>2, LoopStepPreserves
<1>14. ASSUME NEW c \in Conn, RejectPayload(c) PROVE PeersInv'
  <2>1. Reading(c)
    BY <1>14 DEF RejectPayload, Handling, Reading
  <2>2. QED
    BY <1>14, <2>1, ReportPreserves DEF RejectPayload, PcState
<1>15. ASSUME NEW c \in Conn, Relay(c) PROVE PeersInv'
  <2>1. /\ loop[c].pc = "relay" /\ loop \in [Conn -> LoopState] /\ Id(c) \notin loop[c].todo
        /\ UNCHANGED <<peers, banned, filed, wire>>
    BY <1>15 DEF Relay, PeersInv, PeersTyped, SenderSkipped
  <2>2. Reading(c)
    BY <2>1 DEF Reading
  <2>3. ASSUME NEW k \in loop[c].todo, loop' = [loop EXCEPT ![c].todo = @ \ {k}]
        PROVE  PeersInv'
    <3> DEFINE left == [loop[c] EXCEPT !.todo = @ \ {k}]
    <3>1. /\ left \in LoopState /\ left.pc = "relay" /\ left.todo = loop[c].todo \ {k}
      BY <2>1 DEF LoopState
    <3>2. StepsTo(c, left)
      BY <2>3 DEF StepsTo
    <3> HIDE DEF left
    <3>3. QED
      BY <2>1, <2>2, <3>1, <3>2, LoopStepPreserves
  <2>4. CASE Becomes(c, "allow")
    <3>1. At("allow") \in LoopState /\ At("allow").pc = "allow"
      BY AtTyped DEF PcState
    <3>2. StepsTo(c, At("allow"))
      BY <2>4 DEF Becomes, StepsTo
    <3>3. QED
      BY <2>1, <2>2, <3>1, <3>2, LoopStepPreserves
  <2>5. QED
    BY <1>15, <2>3, <2>4 DEF Relay
<1>16. ASSUME NEW c \in Conn, ReportError(c) PROVE PeersInv'
  <2>1. Reading(c)
    BY <1>16 DEF ReportError, Reading
  <2>2. QED
    BY <1>16, <2>1, ReportPreserves DEF ReportError, PcState
<1>17. CASE UNCHANGED vars
  <2>1. Listed' = Listed
    BY <1>17 DEF vars, Listed
  <2>2. QED
    BY <1>17, <2>1 DEF vars, PeersInv, PeersTyped, Started, FiledOnce, SenderSkipped,
       PeersBounded, BannedUnlisted, OpenIsListed, Reading, Id, ListedIsConnected, NumericSeeds
<1>18. QED
  BY <1>1, <1>2, <1>3, <1>4, <1>5, <1>6, <1>7, <1>8, <1>9, <1>10, <1>11, <1>12, <1>13,
     <1>14, <1>15, <1>16, <1>17 DEF Next

\* The limits of addPeer hold at all times, for all limits and numbers of
\* connections: no interleaving of accepts, dials, bans and departures gets
\* around them.
THEOREM PeersStayBounded == Spec => []PeersBounded
<1>1. PeersInv => PeersBounded
  BY DEF PeersInv
<1>2. QED
  BY <1>1, PeersInit, PeersNext, PTL DEF Spec

\* While ReportPeer's ban of a key runs, nothing is filed under it, not even a
\* connection whose dial began before the ban.
THEOREM BansHold == Spec => []BannedUnlisted
<1>1. PeersInv => BannedUnlisted
  BY DEF PeersInv
<1>2. QED
  BY <1>1, PeersInit, PeersNext, PTL DEF Spec

\* An accepted connection that is open and being read is the one that Send,
\* ReportPeer and MaxPeers know under its address.
THEOREM OpenStaysListed == Spec => []OpenIsListed
<1>1. PeersInv => OpenIsListed
  BY DEF PeersInv
<1>2. QED
  BY <1>1, PeersInit, PeersNext, PTL DEF Spec

\* When the dialled addresses are numeric, the peer map holds only connections
\* whose readLoop still runs: removePeer removes the entry of the connection that
\* was read.  (A DNS name is another key than the remote address.)
THEOREM ListedStaysConnected == NumericSeeds => (Spec => []ListedIsConnected)
<1> SUFFICES ASSUME NumericSeeds PROVE Spec => []ListedIsConnected
  OBVIOUS
<1>1. PeersInv => ListedIsConnected
  BY DEF PeersInv
<1>2. QED
  BY <1>1, PeersInit, PeersNext, PTL DEF Spec

\* When the dialled addresses are numeric, BroadcastExcept never sends a payload
\* back on the connection it came from, whatever is displaced, banned or accepted
\* between two of its sends.
THEOREM RelayExcludesSender == NumericSeeds => (Spec => []RelayedToOthers)
<1> SUFFICES ASSUME NumericSeeds PROVE Spec => []RelayedToOthers
  OBVIOUS
<1>1. PeersInv => RelayedToOthers
  <2> SUFFICES ASSUME PeersInv, NEW c \in Conn, loop[c].pc = "relay",
                      NEW k \in loop[c].todo, peers[k] = c
               PROVE  FALSE
    BY DEF RelayedToOthers
  <2>1. k \in Key /\ c # None
    BY PeerAssumption DEF PeersInv, PeersTyped, LoopState
  <2>2. Id(c) = k
    BY <2>1, FiledUnderRemote DEF Listed
  <2>3. QED
    BY <2>2 DEF PeersInv, SenderSkipped
<1>2. QED
  BY <1>1, PeersInit, PeersNext, PTL DEF Spec
=============================================================================
