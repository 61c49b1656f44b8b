------------------------------ MODULE Network ------------------------------
(***************************************************************************)
(* Several nodes that pass blocks on to one another: the handler of        *)
(* p2p/handler.go and the framing of p2p/node.go on every connection, the  *)
(* pull of sync/sync.go, and a chain manager in each node.                 *)
(*                                                                         *)
(* A node has one read loop per connection; a loop handles one message at  *)
(* a time and writes the relays itself, so a full socket stops it.  A      *)
(* message is written in two pieces, its length and its payload, and two   *)
(* loops may write to one connection at the same time.                     *)
(*                                                                         *)
(* All blocks are valid and equally hard.  A call of ValidateAndApplyBlock *)
(* is one step; that is what ChainNode shows of calls that do not overlap. *)
(***************************************************************************)
EXTENDS Naturals, SequencesExt

CONSTANTS
    None,
    Node,
    Peers,        \* Peers[n]: the nodes that n is connected to
    Outside,      \* a peer that is not modelled
    Entry,        \* the nodes that are offered blocks from outside
    Busy,         \* links that also carry messages that are not modelled
    Source,       \* Source[n]: the node that n synchronises with
    Block,
    Genesis,
    Parent,       \* Parent[b]; the genesis block has None
    Capacity      \* bound: pieces of messages a connection buffers

ASSUME NetworkAssumption ==
    /\ \A n \in Node : Peers[n] \subseteq Node \ {n} /\ \A m \in Peers[n] : n \in Peers[m]
    /\ Busy \subseteq Node \X Node /\ \A l \in Busy : l[1] \in Peers[l[2]]
    /\ Outside \notin Node /\ Entry \subseteq Node /\ Source \in [Node -> Node]
    /\ Genesis \in Block /\ Parent \in [Block -> Block \cup {None}] /\ None \notin Block
    /\ Capacity \in Nat /\ Capacity >= 2

\* A link carries what its first end writes to its second end.
Link == {l \in Node \X Node : l[1] \in Peers[l[2]]}
Loop == Link \cup ({Outside} \X Entry)

VARIABLES
    stored,   \* the blocks each node has stored
    tip,      \* the tip of each node
    offered,  \* blocks that have been given to some node from outside
    wire,     \* the pieces under way on each link
    closed,   \* links whose connection has been closed
    loop,     \* the read loop at the end of each link
    pull      \* the HeaderFirstSync under way at each node

vars == <<stored, tip, offered, wire, closed, loop, pull>>

\* A loop that waits for a message; otherwise it has a block to pass on, the
\* links still to be served, in order, and whether the length is written.
Waiting == [block |-> None, todo |-> <<>>, begun |-> FALSE]

Init ==
    /\ stored = [n \in Node |-> {Genesis}]
    /\ tip = [n \in Node |-> Genesis]
    /\ offered = {Genesis}
    /\ wire = [l \in Link |-> <<>>]
    /\ closed = {}
    /\ loop = [l \in Loop |-> Waiting]
    /\ pull = [n \in Node |-> None]

-----------------------------------------------------------------------------
(* ValidateAndApplyBlock *)

\* Mutant: a block that is stored is taken again.
AcceptsAgain(n, b) == Parent[b] \in stored[n]

\* It returns no error.
Accepts(n, b) == b \notin stored[n] /\ Parent[b] \in stored[n]

\* A block on the tip is stored.  Any other one would weigh more than the tip
\* only if it were harder, so its work is noted and the block is not kept.
Apply(n, b) ==
    IF Accepts(n, b) /\ Parent[b] = tip[n]
    THEN /\ stored' = [stored EXCEPT ![n] = @ \cup {b}]
         /\ tip' = [tip EXCEPT ![n] = b]
    ELSE UNCHANGED <<stored, tip>>

-----------------------------------------------------------------------------
(* The read loops *)

\* BroadcastExcept takes the peers from a map, in any order.
Receivers(l) ==
    {<<l[2], m>> : m \in {p \in Peers[l[2]] : p # l[1] /\ <<l[2], p>> \notin closed}}

Orders(S) == {s \in [1 .. Cardinality(S) -> S] : IsInjective(s)}

\* MsgBlock: validate, apply, relay unless there was an error.
HandleBlock(l, b) ==
    /\ Apply(l[2], b)
    /\ \E todo \in Orders(Receivers(l)) :
        loop' = [loop EXCEPT ![l] =
                    IF Accepts(l[2], b) /\ todo # <<>>
                    THEN [block |-> b, todo |-> todo, begun |-> FALSE]
                    ELSE Waiting]

\* A peer from outside, or a miner through submitBlock, offers a new block; only
\* the former is relayed.
Offer(n, b) ==
    /\ b \notin offered /\ Parent[b] \in offered
    /\ loop[<<Outside, n>>] = Waiting
    /\ offered' = offered \cup {b}
    /\ HandleBlock(<<Outside, n>>, b)
    /\ UNCHANGED <<wire, closed, pull>>

SubmitBlock(n, b) ==
    /\ b \notin offered /\ Parent[b] \in offered
    /\ offered' = offered \cup {b}
    /\ Apply(n, b)
    /\ UNCHANGED <<wire, closed, loop, pull>>

Length(b) == [kind |-> "length", block |-> b]
Payload(b) == [kind |-> "payload", block |-> b]

\* readMessageLimit returns a message.
ReadBlock(l) ==
    /\ loop[l] = Waiting /\ Len(wire[l]) >= 2
    /\ \E b \in Block :
        /\ wire[l][1] = Length(b) /\ wire[l][2] = Payload(b)
        /\ HandleBlock(l, b)
    /\ wire' = [wire EXCEPT ![l] = SubSeq(@, 3, Len(@))]
    /\ UNCHANGED <<offered, closed, pull>>

Back(l) == <<l[2], l[1]>>

\* Lengths and payloads that do not belong together never decode: readLoop
\* ends and the connection is closed.  A piece of a message is given up when
\* the other end has closed the connection.
ReadFails(l) ==
    /\ loop[l] = Waiting
    /\ \/ /\ Len(wire[l]) >= 2
          /\ ~\E b \in Block : wire[l][1] = Length(b) /\ wire[l][2] = Payload(b)
       \/ Len(wire[l]) = 1 /\ l \in closed
    /\ closed' = closed \cup {l, Back(l)}
    /\ wire' = [wire EXCEPT ![l] = <<>>]
    /\ UNCHANGED <<stored, tip, offered, loop, pull>>

\* With its other traffic the peer has sent more messages in a minute than it
\* may: readLoop ends in the same way.
RateLimited(l) ==
    /\ loop[l] = Waiting /\ l \notin closed
    /\ closed' = closed \cup {l, Back(l)}
    /\ wire' = [wire EXCEPT ![l] = <<>>]
    /\ UNCHANGED <<stored, tip, offered, loop, pull>>

\* The relay to the first receiver is over, one way or the other.
Served(l) ==
    loop' = [loop EXCEPT ![l] =
                IF Len(@.todo) = 1 THEN Waiting
                ELSE [@ EXCEPT !.todo = Tail(@), !.begun = FALSE]]

\* writeMessage: the length, then the payload, each as soon as there is room.
WriteLength(l) ==
    LET out == Head(loop[l].todo)
    IN  /\ loop[l] # Waiting /\ ~loop[l].begun
        /\ out \notin closed /\ Len(wire[out]) < Capacity
        /\ wire' = [wire EXCEPT ![out] = Append(@, Length(loop[l].block))]
        /\ loop' = [loop EXCEPT ![l].begun = TRUE]
        /\ UNCHANGED <<stored, tip, offered, closed, pull>>

WritePayload(l) ==
    LET out == Head(loop[l].todo)
    IN  /\ loop[l] # Waiting /\ loop[l].begun
        /\ out \notin closed /\ Len(wire[out]) < Capacity
        /\ wire' = [wire EXCEPT ![out] = Append(@, Payload(loop[l].block))]
        /\ Served(l)
        /\ UNCHANGED <<stored, tip, offered, closed, pull>>

\* The connection is gone: BroadcastExcept ignores the error of Send.
SendFails(l) ==
    /\ loop[l] # Waiting /\ Head(loop[l].todo) \in closed
    /\ Served(l)
    /\ UNCHANGED <<stored, tip, offered, wire, closed, pull>>

-----------------------------------------------------------------------------
(* HeaderFirstSync *)

BranchOf[b \in Block] ==
    IF Parent[b] = None THEN <<b>> ELSE Append(BranchOf[Parent[b]], b)

\* Mutant: the first header after the locator is left out.
HeadersAfterNext(m, locator) ==
    LET from == IF locator \in stored[m] THEN Len(BranchOf[locator]) + 2 ELSE 1
    IN  SubSeq(BranchOf[tip[m]], from, Len(BranchOf[tip[m]]))

\* What m answers to a locator of one block: its main chain after that block,
\* or from the start if it does not have it.
Headers(m, locator) ==
    LET from == IF locator \in stored[m] THEN Len(BranchOf[locator]) + 1 ELSE 1
    IN  SubSeq(BranchOf[tip[m]], from, Len(BranchOf[tip[m]]))

\* A call that gets no header, or one that does not follow the tip, returns at
\* once and is not shown.
StartSync(n) ==
    LET headers == Headers(Source[n], tip[n])
    IN  /\ pull[n] = None
        /\ headers # <<>> /\ Parent[headers[1]] = tip[n]
        /\ pull' = [pull EXCEPT ![n] = headers]
        /\ UNCHANGED <<stored, tip, offered, wire, closed, loop>>

\* One turn of the loop: the first error ends the call.
SyncBlock(n) ==
    /\ pull[n] # None
    /\ Apply(n, Head(pull[n]))
    /\ pull' = [pull EXCEPT ![n] =
                    IF Accepts(n, Head(@)) /\ Len(@) > 1 THEN Tail(@) ELSE None]
    /\ UNCHANGED <<offered, wire, closed, loop>>

-----------------------------------------------------------------------------
LoopStep(l) ==
    \/ l \in Link /\ (ReadBlock(l) \/ ReadFails(l))
    \/ WriteLength(l) \/ WritePayload(l) \/ SendFails(l)

Next ==
    \/ \E n \in Entry, b \in Block : Offer(n, b) \/ SubmitBlock(n, b)
    \/ \E l \in Loop : LoopStep(l)
    \/ \E l \in Busy : RateLimited(l)
    \/ \E n \in Node : StartSync(n) \/ SyncBlock(n)

Spec == Init /\ [][Next]_vars

\* A goroutine that can run is eventually scheduled.
RelayFair == \A l \in Loop : WF_vars(LoopStep(l))

\* HeaderFirstSync is called again and again in every node.
SyncFair == \A n \in Node : WF_vars(SyncBlock(n)) /\ WF_vars(StartSync(n))

FairSpec == Spec /\ RelayFair /\ SyncFair

-----------------------------------------------------------------------------
Quiet == (\A l \in Link : wire[l] = <<>>) /\ \A l \in Loop : loop[l] = Waiting

\* Relaying a block only if it is new ends: once nobody offers blocks any more,
\* every message has been read, every relay written, and no read loop is left
\* waiting for another one to make room.
FallsQuiet == <>[]Quiet

\* All nodes end up with the same ledger for good: what any of them has stored
\* reaches every other one, although connections break and their messages are
\* lost, a relay reaches a node before the parent of its block does, and
\* handlers outrun a HeaderFirstSync that is under way.
Converges == <>[](\A n, m \in Node : stored[n] = stored[m] /\ tip[n] = tip[m])
=============================================================================
