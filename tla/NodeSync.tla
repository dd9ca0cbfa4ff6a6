------------------------------- MODULE NodeSync -------------------------------
(***************************************************************************)
(* The sync loop of a listening node (run_dev_node without production):    *)
(* the actions it waits for, its snapshot downloads, the redial and status *)
(* tick, gossip, timeouts and disconnections, against honest peers that    *)
(* keep producing.  All peers are on one chain, so a block is its height.  *)
(* A peer's answer is computed when it is delivered: what the peer does    *)
(* between serving and delivery could as well happen after.  An error of   *)
(* any handler ends run_dev_node (`stopped` has its cause).  A peer may    *)
(* have several connections with the node; when one of several closes, the *)
(* requests on it are lost, and nothing else happens.                      *)
(***************************************************************************)
EXTENDS SyncOps, PeerPolicy

CONSTANTS
    Peer,                 \* the persistent peers
    ChunkCount,           \* chunks of every snapshot
    SNAPSHOT_CACHE_COUNT, \* snapshots a peer keeps
    Inbound,              \* whether peers also dial the node
    FirstHeight,          \* each peer's height at the start
    MaxPeerHeight,        \* bound on the peers' heights
    FaultBudgets          \* bounds on the timeouts and disconnections, and on the failed dials

ASSUME NodeAssumption ==
    /\ ChunkCount \in Nat \ {0} /\ SNAPSHOT_CACHE_COUNT \in Nat \ {0} /\ Inbound \in BOOLEAN
    /\ MaxPeerHeight \in Nat /\ FirstHeight \in 0 .. MaxPeerHeight
    /\ \A b \in FaultBudgets : b.failures \in Nat /\ b.dials \in Nat

VARIABLES
    node_height,   \* the node's height
    stopped,       \* the error run_dev_node has returned, "no" while it runs
    actions,       \* pending actions, by request id
    downloads,     \* snapshot download of each peer, or NoDownload
    connected, dialing,
    awaited,       \* peers whose answer to the node's handshake is under way
    offered,       \* peers whose own handshake is under way
    authenticated,
    score,
    peerHeight,    \* finalized height of each peer
    snapshots,     \* heights in each peer's snapshot cache
    failures, dialFailures,  \* how many may still happen
    crossed,       \* history: peers whose download another failure than its own has dropped
    refused        \* history: peers that have refused a chunk

faults == <<failures, dialFailures>>
history == <<crossed, refused>>
link == <<connected, dialing, awaited, offered, authenticated>>
peers == <<peerHeight, snapshots>>
node_vars == <<node_height, stopped, actions, downloads, link, score, peers, faults, history>>

Running == stopped = "no"

Chunks == 1 .. ChunkCount

Header(h) == [height |-> h, id |-> h, parent |-> h - 1]

NoRemote == [head |-> Header(0), checkpoint_height |-> 0]

NoDownload == [remote |-> NoRemote, staged |-> {}, remaining |-> <<>>]

\* Status of a peer: its head and the newest cached snapshot (0: none).
peer_status(p) ==
    [head |-> Header(peerHeight[p]),
     checkpoint_height |-> CHOOSE h \in snapshots[p] \cup {0} : \A g \in snapshots[p] : g <= h]

\* What a peer answers from its snapshot cache; anything else is Rejected with 404.
serves_snapshot(p, checkpoint_height) == checkpoint_height \in snapshots[p]

Accepted(p, s) == disposition(s[p]) = "Accepted"

Pending(p) == {a \in actions : a.peer = p}

Idle == actions = {} /\ \A p \in Peer : downloads[p] = NoDownload

FreeId(acts) == CHOOSE i \in 1 .. Cardinality(acts) + 1 : \A a \in acts : a.id # i

-----------------------------------------------------------------------------
fails(error, rest) == actions' = rest /\ stopped' = error

\* send_request: NetworkService.request refuses a peer that is not authenticated or not
\* accepted, and the error ends the node.
send_request(p, kind, remote, detail, rest, s) ==
    IF p \notin authenticated' THEN fails("UnauthenticatedPeer", rest)
    ELSE IF ~Accepted(p, s) THEN fails("PeerPolicy", rest)
    ELSE /\ actions' = rest \cup {[id |-> FreeId(rest), peer |-> p, kind |-> kind,
                                   remote |-> remote, detail |-> detail]}
         /\ UNCHANGED stopped

done(rest) == actions' = rest /\ UNCHANGED stopped

request_sync_path(p, remote, h, rest, s) ==
    IF remote.head.height <= h THEN done(rest)
    ELSE IF h = 0 /\ remote.checkpoint_height > 0
    THEN send_request(p, "Manifest", remote, <<>>, rest, s)
    ELSE send_request(p, "Headers", remote, next_request(Header(h), remote.head), rest, s)

\* request_next_chunk, on the download d.
request_next_chunk(p, d, rest, s) ==
    IF d.remaining = <<>> THEN done(rest) /\ downloads' = [downloads EXCEPT ![p] = d]
    ELSE /\ downloads' = [downloads EXCEPT ![p] = [d EXCEPT !.remaining = Tail(@)]]
         /\ send_request(p, "Chunk", d.remote, <<Head(d.remaining)>>, rest, s)

begin_snapshot_download(p, remote, rest, s) ==
    request_next_chunk(p, [remote |-> remote, staged |-> {}, remaining |-> [i \in Chunks |-> i]],
                       rest, s)
    /\ UNCHANGED node_height

accept_snapshot_chunk(p, index, rest, s) ==
    IF downloads[p] = NoDownload
    THEN fails("SnapshotSession", rest) /\ UNCHANGED <<node_height, downloads>>
    ELSE LET d == [downloads[p] EXCEPT !.staged = @ \cup {index}]
         IN  IF d.staged # Chunks THEN request_next_chunk(p, d, rest, s) /\ UNCHANGED node_height
             ELSE \* complete: import_development_checkpoint requires height zero
                  /\ downloads' = [downloads EXCEPT ![p] = NoDownload]
                  /\ IF node_height # 0 THEN fails("Refused", rest) /\ UNCHANGED node_height
                     ELSE /\ node_height' = d.remote.checkpoint_height
                          /\ request_sync_path(p, d.remote, node_height', rest, s)

\* A header answer: verified against the node's current head, then the bodies are asked.
accept_headers(p, a, rest, s) ==
    LET heights == requested_heights(peerHeight[p], a.detail[1], a.detail[2])
        items   == [i \in DOMAIN heights |-> Item(Header(heights[i]))]
    IN  /\ IF verify_response(Header(node_height), a.remote.head, items)
           THEN send_request(p, "Bodies", a.remote, heights, rest, s)
           ELSE fails("Refused", rest)
        /\ UNCHANGED <<node_height, downloads>>

accept_bodies(p, a, rest, s) ==
    LET blocks == [i \in DOMAIN a.detail |-> Item(Header(a.detail[i]))]
        result == import_response(Header(node_height), a.remote.head, blocks)
    IN  /\ node_height' = result.tip.height
        /\ IF result.ok THEN request_sync_path(p, a.remote, node_height', rest, s)
           ELSE fails("Refused", rest)
        /\ UNCHANGED downloads

\* Rejected, because the peer has evicted the snapshot (404) or does not accept the node just
\* now (429): logged, nothing else.
rejected(a, rest) ==
    /\ done(rest) /\ UNCHANGED <<node_height, downloads>>
    /\ refused' = IF a.kind = "Chunk" THEN refused \cup {a.peer} ELSE refused

-----------------------------------------------------------------------------
NodeInit ==
    /\ node_height = 0 /\ stopped = "no"
    /\ actions = {} /\ downloads = [p \in Peer |-> NoDownload]
    /\ connected = {} /\ dialing = {} /\ awaited = {} /\ offered = {} /\ authenticated = {}
    /\ score = [p \in Peer |-> 0]
    /\ peerHeight = [p \in Peer |-> FirstHeight]
    /\ snapshots = [p \in Peer |-> IF FirstHeight = 0 THEN {} ELSE {FirstHeight}]
    /\ \E b \in FaultBudgets : failures = b.failures /\ dialFailures = b.dials
    /\ crossed = {} /\ refused = {}

\* Mutant: the tick redials but never asks again.
Tick_redialing ==
    /\ Running
    /\ dialing' = dialing \cup (Peer \ connected)
    /\ UNCHANGED <<node_height, stopped, actions, downloads, connected, awaited, offered,
                   authenticated, score, peers, faults, history>>

\* The reconnect tick: dial every peer that is not connected, ask an authenticated one
\* for its status when nothing is under way.
Tick ==
    LET eligible == IF Idle THEN connected \cap authenticated ELSE {}
    IN  /\ Running
        /\ dialing' = dialing \cup (Peer \ connected)
        /\ UNCHANGED <<connected, awaited, offered, authenticated>>
        /\ IF eligible = {} THEN UNCHANGED <<actions, stopped>>
           ELSE \E p \in eligible : send_request(p, "Status", NoRemote, <<>>, actions, score)
        /\ UNCHANGED <<node_height, downloads, score, peers, faults, history>>

\* The last connection closes: PeerDisconnected, and RequestFailed of every request to p.
Closed(p) ==
    /\ connected' = connected \ {p} /\ awaited' = awaited \ {p} /\ offered' = offered \ {p}
    /\ authenticated' = authenticated \ {p}
    /\ actions' = actions \ Pending(p)
    /\ downloads' = [downloads EXCEPT ![p] = NoDownload]
    /\ score' = [score EXCEPT ![p] =
          clamp(@ - TimeoutPenalty * (Cardinality(Pending(p)) + Cardinality(awaited \cap {p})))]
    /\ UNCHANGED <<node_height, stopped, peers, history>>

\* ConnectionEstablished: a banned peer is disconnected at once, an accepted one greeted.
Established(p) ==
    /\ Running
    /\ IF disposition(score[p]) = "Banned" THEN Closed(p)
       ELSE /\ connected' = connected \cup {p}
            /\ awaited' = IF Accepted(p, score) THEN awaited \cup {p} ELSE awaited
            /\ offered' = offered \cup {p}
            /\ UNCHANGED <<node_height, stopped, actions, downloads, authenticated, score, peers, history>>
    /\ UNCHANGED faults

\* A dial succeeds, perhaps after the peer has connected by itself.
Dialed(p) == p \in dialing /\ dialing' = dialing \ {p} /\ Established(p)

\* The peer dials the node.
Accept(p) == Inbound /\ Established(p) /\ UNCHANGED dialing

\* authenticate, on a handshake: the node asks a newly authenticated peer for its status.
authenticate(p, s) ==
    /\ authenticated' = authenticated \cup {p}
    /\ IF p \in authenticated THEN UNCHANGED <<actions, stopped>>
       ELSE send_request(p, "Status", NoRemote, <<>>, actions, s)

\* The peer's handshake arrives.  The peer is rewarded as authenticated and for the
\* ResponseSent; one that is not accepted is answered 429.
Greeted(p) ==
    /\ Running /\ p \in offered
    /\ offered' = offered \ {p}
    /\ score' = [score EXCEPT ![p] = IF Accepted(p, score) THEN reward(reward(@)) ELSE reward(@)]
    /\ IF Accepted(p, score) THEN authenticate(p, score')
       ELSE UNCHANGED <<authenticated, actions, stopped>>
    /\ UNCHANGED <<node_height, downloads, connected, dialing, awaited, peers, faults, history>>

\* The answer to the node's handshake arrives: what the peer's score has become is not looked at.
Welcomed(p) ==
    /\ Running /\ p \in awaited
    /\ awaited' = awaited \ {p}
    /\ score' = [score EXCEPT ![p] = reward(@)]
    /\ authenticate(p, score')
    /\ UNCHANGED <<node_height, downloads, connected, dialing, offered, peers, faults, history>>

\* A request of the peer other than a handshake: it authenticates the peer without an event.
Serve(p) ==
    /\ Running /\ p \in connected
    /\ score' = [score EXCEPT ![p] = IF Accepted(p, score) THEN reward(reward(@)) ELSE reward(@)]
    /\ authenticated' = IF Accepted(p, score) THEN authenticated \cup {p} ELSE authenticated
    /\ UNCHANGED <<node_height, stopped, actions, downloads, connected, dialing, awaited, offered,
                   peers, faults, history>>

\* Mutant: an announcement starts a sync although one is under way.
Gossip_eager(p) ==
    /\ Running /\ p \in authenticated /\ Accepted(p, score)
    /\ peerHeight[p] > node_height
    /\ UNCHANGED link
    /\ send_request(p, "Status", NoRemote, <<>>, actions, score)
    /\ UNCHANGED <<node_height, downloads, score, peers, faults, history>>

\* A finalized announcement of a peer ahead of the node.
Gossip(p) ==
    /\ Running /\ p \in authenticated /\ Accepted(p, score)
    /\ peerHeight[p] > node_height /\ Idle
    /\ UNCHANGED link
    /\ send_request(p, "Status", NoRemote, <<>>, actions, score)
    /\ UNCHANGED <<node_height, downloads, score, peers, faults, history>>

\* The answer to a pending action: handle_inbound_response and handle_response.
Respond(a) ==
    LET p      == a.peer
        rest   == actions \ {a}
        s      == [score EXCEPT ![p] = reward(@)]
        cached == serves_snapshot(p, a.remote.checkpoint_height)
    IN  /\ Running
        /\ score' = s
        /\ UNCHANGED <<link, peers, faults, crossed>>
        /\ \/ /\ a.kind \in {"Manifest", "Chunk"} /\ ~cached
              /\ rejected(a, rest)
           \/ /\ \/ /\ a.kind = "Status"
                    /\ request_sync_path(p, peer_status(p), node_height, rest, s)
                    /\ UNCHANGED <<node_height, downloads>>
                 \/ a.kind = "Manifest" /\ cached /\ begin_snapshot_download(p, a.remote, rest, s)
                 \/ a.kind = "Chunk" /\ cached /\ accept_snapshot_chunk(p, a.detail[1], rest, s)
                 \/ a.kind = "Headers" /\ accept_headers(p, a, rest, s)
                 \/ a.kind = "Bodies" /\ accept_bodies(p, a, rest, s)
              /\ UNCHANGED refused

-----------------------------------------------------------------------------
Fault ==
    /\ Running /\ failures > 0
    /\ failures' = failures - 1 /\ UNCHANGED dialFailures

\* Mutant: the action outlives its failure, so that a late answer is still taken.
Timeout_late(a) ==
    /\ Fault
    /\ downloads' = [downloads EXCEPT ![a.peer] = NoDownload]
    /\ score' = [score EXCEPT ![a.peer] = timeout(@)]
    /\ UNCHANGED <<node_height, stopped, actions, link, peers, history>>

\* RequestFailed of one request.
Timeout(a) ==
    /\ Fault
    /\ actions' = actions \ {a}
    /\ downloads' = [downloads EXCEPT ![a.peer] = NoDownload]
    /\ score' = [score EXCEPT ![a.peer] = timeout(@)]
    /\ UNCHANGED <<node_height, stopped, link, peers, history>>

\* The peer, which has a score of the node, does not accept the node: it answers 429.
Refuse(a) ==
    /\ Fault
    /\ score' = [score EXCEPT ![a.peer] = reward(@)]
    /\ rejected(a, actions \ {a})
    /\ UNCHANGED <<link, peers, crossed>>

\* RequestFailed of a dial or of a handshake, which are no actions: the peer's download is
\* dropped, a request for its next chunk is not.
FailedOther(p) ==
    /\ downloads' = [downloads EXCEPT ![p] = NoDownload]
    /\ score' = [score EXCEPT ![p] = timeout(@)]
    /\ crossed' = IF downloads[p] = NoDownload THEN crossed ELSE crossed \cup {p}
    /\ UNCHANGED <<node_height, stopped, actions, connected, authenticated, peers, refused>>

DialFails(p) ==
    /\ Running /\ p \in dialing /\ dialFailures > 0
    /\ dialFailures' = dialFailures - 1
    /\ dialing' = dialing \ {p}
    /\ FailedOther(p)
    /\ UNCHANGED <<awaited, offered, failures>>

HandshakeFails(p) ==
    /\ Fault /\ p \in awaited
    /\ awaited' = awaited \ {p}
    /\ FailedOther(p)
    /\ UNCHANGED <<dialing, offered>>

\* The peer's handshake does not arrive.
HandshakeLost(p) ==
    /\ Fault /\ p \in offered
    /\ offered' = offered \ {p}
    /\ UNCHANGED <<node_height, stopped, actions, downloads, connected, dialing, awaited,
                   authenticated, score, peers, history>>

\* A ping of the peer fails, or an answer to it: the peer loses points, nobody is told.
Lapse(p) ==
    /\ Fault /\ p \in connected
    /\ score' = [score EXCEPT ![p] = timeout(@)]
    /\ UNCHANGED <<node_height, stopped, actions, downloads, link, peers, history>>

\* The connection of a request closes before it is answered: respond returns an error.
ServeFails(p) ==
    /\ Fault /\ p \in connected /\ Accepted(p, score)
    /\ stopped' = "ResponseChannel"
    /\ score' = [score EXCEPT ![p] = reward(@)]
    /\ authenticated' = authenticated \cup {p}
    /\ UNCHANGED <<node_height, actions, downloads, connected, dialing, awaited, offered, peers, history>>

Disconnect(p) == Fault /\ p \in connected /\ Closed(p) /\ UNCHANGED dialing

\* A peer that is connected and not authenticated, and no handshake is under way.
Snubbed(p) == p \in connected \ (authenticated \cup awaited \cup offered)

\* The idle timeout of such a connection, if gossip does not keep it open.
IdleClose(p) == Running /\ Snubbed(p) /\ Closed(p) /\ UNCHANGED <<dialing, faults>>

\* A peer finalizes a block and caches its snapshot.
PeerAdvances(p) ==
    /\ peerHeight[p] < MaxPeerHeight
    /\ peerHeight' = [peerHeight EXCEPT ![p] = @ + 1]
    /\ snapshots' = [snapshots EXCEPT ![p] =
          {h \in @ \cup {peerHeight'[p]} :
              Cardinality({g \in @ \cup {peerHeight'[p]} : g > h}) < SNAPSHOT_CACHE_COUNT}]
    /\ UNCHANGED <<node_height, stopped, actions, downloads, link, score, faults, history>>

NodeNext ==
    \/ Tick
    \/ \E p \in Peer :
          \/ Dialed(p) \/ Accept(p) \/ Greeted(p) \/ Welcomed(p) \/ Serve(p) \/ Gossip(p)
          \/ DialFails(p) \/ HandshakeFails(p) \/ HandshakeLost(p) \/ Lapse(p) \/ ServeFails(p)
          \/ Disconnect(p) \/ IdleClose(p) \/ PeerAdvances(p)
    \/ \E a \in actions : Respond(a) \/ Timeout(a) \/ Refuse(a)

NodeSpec == NodeInit /\ [][NodeNext]_node_vars

\* The runtime keeps polling its timers and the swarm; a dial, a handshake and a request that
\* do not fail are answered.
NodeFairness ==
    /\ WF_node_vars(Tick)
    /\ WF_node_vars(\E a \in actions : Respond(a))
    /\ \A p \in Peer : WF_node_vars(Dialed(p)) /\ WF_node_vars(Greeted(p)) /\ WF_node_vars(Welcomed(p))

FairNodeSpec == NodeSpec /\ NodeFairness

-----------------------------------------------------------------------------
\* What may end the node.  A request is never sent to a peer that has not authenticated; a
\* chunk finds its download gone only after a dial or a handshake with the same peer failed
\* while it was under way; and an answer of an honest peer is refused only if another peer is
\* there to be synced from at the same time.
StopsExplained ==
    /\ stopped # "UnauthenticatedPeer"
    /\ stopped = "PeerPolicy" => \E p \in authenticated : ~Accepted(p, score)
    /\ stopped = "SnapshotSession" => crossed # {}
    /\ stopped = "Refused" => \E p, q \in Peer : p # q

\* "make sync orchestration idempotent rather than spawning parallel imports": no answer of an
\* honest peer is refused, whatever has been imported since it was asked for.
SyncIdempotent == stopped # "Refused"

\* "keep one bounded sync action/download path per peer, clear it on timeout/disconnect":
\* a peer never has two requests of the node to answer; what it has to answer during a
\* download is the next chunk of it, every chunk being staged, asked for, or still to be asked
\* for; and a running node leaves a download without request only if the peer refused a chunk.
OneSyncPath ==
    \A p \in Peer :
        LET d == downloads[p]
        IN  /\ Cardinality(Pending(p)) <= 1
            /\ d # NoDownload =>
                  /\ \A a \in Pending(p) :
                        /\ a.kind = "Chunk" /\ a.remote = d.remote
                        /\ a.detail[1] \notin d.staged
                        /\ d.staged \cup {a.detail[1]} \cup {d.remaining[i] : i \in DOMAIN d.remaining} = Chunks
                  /\ Pending(p) = {} => ~Running \/ p \in refused

\* The node cannot learn from p any more, until a connection closes or for good: it has ended,
\* p is banned, nobody will authenticate p, or a download nobody continues keeps the node from
\* asking.
Stranded(p) ==
    \/ ~Running
    \/ disposition(score[p]) = "Banned"
    \/ Snubbed(p)
    \/ \E q \in Peer : downloads[q] # NoDownload /\ Pending(q) = {}

\* The listener "catches the producer's final announced head": every height a peer finalizes
\* is reached by the node, unless it is stranded from some time on.
CatchesUp ==
    \A p \in Peer : \A h \in 1 .. MaxPeerHeight :
        (peerHeight[p] = h) ~> (node_height >= h \/ []Stranded(p))
=============================================================================
