---------------------------- MODULE NodeSyncProofs ----------------------------
(***************************************************************************)
(* What may end the sync loop, for any number of peers and chunks, any     *)
(* heights, page sizes, scores and faults, and with evicted snapshots: the *)
(* causes other than a refused answer follow from the sync paths of        *)
(* NetworkProofs, and with one peer every pending action has an answer     *)
(* that is accepted.                                                       *)
(***************************************************************************)
EXTENDS NetworkProofs

(* The causes that a send or a chunk has. *)

CauseInv ==
    /\ stopped # "UnauthenticatedPeer"
    /\ stopped = "PeerPolicy" => \E p \in authenticated : ~Accepted(p, score)
    /\ stopped = "SnapshotSession" => crossed # {}

\* A handler goes on, or has found its peer not accepted.
GoesOn(p) ==
    stopped' = stopped \/ (stopped' = "PeerPolicy" /\ p \in authenticated' /\ ~Accepted(p, score'))

LEMMA SendGoesOn ==
    ASSUME NEW p \in authenticated', NEW kind, NEW remote, NEW detail, NEW rest, NEW s, s = score',
           send_request(p, kind, remote, detail, rest, s)
    PROVE  GoesOn(p)
BY Zenon DEF send_request, fails, GoesOn

LEMMA SyncPathGoesOn ==
    ASSUME NEW p \in authenticated', NEW remote, NEW h, NEW rest, NEW s, s = score',
           request_sync_path(p, remote, h, rest, s)
    PROVE  GoesOn(p)
<1>1. CASE stopped' = stopped
  BY <1>1, Zenon DEF GoesOn
<1>2. CASE send_request(p, "Manifest", remote, <<>>, rest, s)
  BY <1>2, SendGoesOn, Zenon
<1>3. CASE send_request(p, "Headers", remote, next_request(Header(h), remote.head), rest, s)
  BY <1>3, SendGoesOn, Zenon
<1> QED
  BY <1>1, <1>2, <1>3, Zenon DEF request_sync_path, done

LEMMA NextChunkGoesOn ==
    ASSUME NEW p \in authenticated', NEW d, NEW rest, NEW s, s = score',
           request_next_chunk(p, d, rest, s)
    PROVE  GoesOn(p)
<1>1. CASE stopped' = stopped
  BY <1>1, Zenon DEF GoesOn
<1>2. CASE send_request(p, "Chunk", d.remote, <<Head(d.remaining)>>, rest, s)
  BY <1>2, SendGoesOn, Zenon
<1> QED
  BY <1>1, <1>2, Zenon DEF request_next_chunk, done

LEMMA RespondGoesOn ==
    ASSUME LinkInv, PathInv, NEW a \in actions, Respond(a)
    PROVE  \/ GoesOn(a.peer) \/ stopped' = "Refused"
           \/ stopped' = "SnapshotSession" /\ crossed' # {}
<1>1. PICK rest, p, s : rest = actions \ {a} /\ p = a.peer /\ s = [score EXCEPT ![a.peer] = reward(@)]
  BY Zenon
<1>2. s = score' /\ p \in authenticated' /\ p \in Peer /\ crossed' = crossed
  BY <1>1, Zenon DEF Respond, LinkInv, link
<1>3. CASE stopped' = stopped \/ stopped' = "Refused"
  BY <1>3, Zenon DEF GoesOn
<1>4. CASE rejected(a, rest)
  BY <1>3, <1>4, Zenon DEF rejected, done
<1>5. CASE request_sync_path(p, peer_status(p), node_height, rest, s)
  BY <1>1, <1>2, <1>5, SyncPathGoesOn, Zenon
<1>6. CASE begin_snapshot_download(p, a.remote, rest, s)
  BY <1>1, <1>2, <1>6, NextChunkGoesOn, Zenon DEF begin_snapshot_download
<1>7. CASE a.kind = "Chunk" /\ accept_snapshot_chunk(p, a.detail[1], rest, s)
  <2>1. CASE downloads[p] = NoDownload
    <3>1. Serving(a, downloads[p])
      BY <1>1, <1>2, Zenon DEF PathInv, Path
    <3>2. PICK i : a.remote.checkpoint_height > 0 /\ (downloads[p] = DownloadAt(a.remote, i) \/ p \in crossed)
      BY <1>1, <1>7, <3>1, Zenon DEF Serving
    <3>3. a.remote.checkpoint_height # 0
      BY <3>2
    <3>4. p \in crossed
      BY <2>1, <3>2, <3>3, NotNoDownload, Zenon
    <3> QED
      BY <1>2, <1>7, <2>1, <3>4, Zenon DEF accept_snapshot_chunk, fails
  <2>2. CASE downloads[p] # NoDownload
    <3>1. PICK d : d = [downloads[p] EXCEPT !.staged = @ \cup {a.detail[1]}]
      BY Zenon
    <3>2. \/ request_next_chunk(p, d, rest, s)
          \/ stopped' = "Refused"
          \/ request_sync_path(p, d.remote, node_height', rest, s)
      BY <1>7, <2>2, <3>1, Zenon DEF accept_snapshot_chunk, fails
    <3> QED
      BY <1>1, <1>2, <1>3, <3>2, NextChunkGoesOn, SyncPathGoesOn, Zenon
  <2> QED
    BY <2>1, <2>2, Zenon
<1>8. CASE accept_headers(p, a, rest, s)
  <2>1. PICK dt : stopped' = "Refused" \/ send_request(p, "Bodies", a.remote, dt, rest, s)
    BY <1>8, Zenon DEF accept_headers, fails
  <2> QED
    BY <1>1, <1>2, <2>1, SendGoesOn, Zenon
<1>9. CASE accept_bodies(p, a, rest, s)
  <2>1. stopped' = "Refused" \/ request_sync_path(p, a.remote, node_height', rest, s)
    BY <1>9, Zenon DEF accept_bodies, fails
  <2> QED
    BY <1>1, <1>2, <2>1, SyncPathGoesOn, Zenon
<1> QED
  BY <1>1, <1>4, <1>5, <1>6, <1>7, <1>8, <1>9, Zenon DEF Respond

LEMMA CauseStep ==
    ASSUME LinkInv, PathInv, CauseInv, [NodeNext]_node_vars
    PROVE  CauseInv'
<1>1. CASE UNCHANGED <<stopped, authenticated, score, crossed>>
  BY <1>1, Zenon DEF CauseInv, Accepted
<1>2. CASE stopped' \in {"no", "Refused", "ResponseChannel"}
  BY <1>2, Zenon DEF CauseInv
<1>3. ASSUME NEW p, Running, GoesOn(p) PROVE CauseInv'
  BY <1>2, <1>3, Zenon DEF GoesOn, Running, CauseInv, Accepted
<1>4. CASE Tick
  <2>1. CASE stopped' = stopped
    BY <1>2, <1>4, <2>1, Zenon DEF Tick, Running
  <2>2. CASE stopped' # stopped
    <3>1. PICK p \in authenticated : send_request(p, "Status", NoRemote, <<>>, actions, score)
      BY <1>4, <2>2, Zenon DEF Tick
    <3>2. p \in authenticated' /\ score = score' /\ Running
      BY <1>4, Zenon DEF Tick
    <3> QED
      BY <1>3, <3>1, <3>2, SendGoesOn, Zenon
  <2> QED
    BY <2>1, <2>2, Zenon
<1>5. ASSUME Running, stopped' = stopped PROVE CauseInv'
  BY <1>2, <1>5, Zenon DEF Running
<1>6. ASSUME NEW p \in Peer, Established(p) \/ Disconnect(p) \/ IdleClose(p) PROVE CauseInv'
  BY <1>5, <1>6, Zenon DEF Established, Disconnect, IdleClose, Closed, Fault
<1>7. ASSUME NEW p \in Peer, Running, authenticate(p, score') PROVE CauseInv'
  <2>1. CASE stopped' = stopped
    BY <1>5, <1>7, <2>1, Zenon
  <2>2. CASE send_request(p, "Status", NoRemote, <<>>, actions, score')
    <3>1. p \in authenticated'
      BY <1>7, Zenon DEF authenticate
    <3>2. GoesOn(p)
      BY <2>2, <3>1, SendGoesOn, Zenon
    <3> QED
      BY <1>3, <1>7, <3>2, Zenon
  <2> QED
    BY <1>7, <2>1, <2>2, Zenon DEF authenticate
<1>8. ASSUME NEW p \in Peer, Greeted(p) \/ Welcomed(p) PROVE CauseInv'
  BY <1>5, <1>7, <1>8, Zenon DEF Greeted, Welcomed
<1>9. ASSUME NEW p \in Peer, Serve(p) \/ HandshakeLost(p) \/ Lapse(p) PROVE CauseInv'
  BY <1>5, <1>9, Zenon DEF Serve, HandshakeLost, Lapse, Fault
<1>10. ASSUME NEW p \in Peer, DialFails(p) \/ HandshakeFails(p) PROVE CauseInv'
  BY <1>5, <1>10, Zenon DEF DialFails, HandshakeFails, FailedOther, Fault
<1>11. ASSUME NEW p \in Peer, ServeFails(p) PROVE CauseInv'
  BY <1>2, <1>11, Zenon DEF ServeFails
<1>12. ASSUME NEW p \in Peer, Gossip(p) PROVE CauseInv'
  <2>1. /\ Running /\ p \in authenticated' /\ score = score'
        /\ send_request(p, "Status", NoRemote, <<>>, actions, score)
    BY <1>12, Zenon DEF Gossip, link
  <2> QED
    BY <1>3, <2>1, SendGoesOn, Zenon
<1>13. ASSUME NEW a \in actions, Respond(a) PROVE CauseInv'
  <2>1. Running
    BY <1>13, Zenon DEF Respond
  <2>2. CASE stopped' = "SnapshotSession" /\ crossed' # {}
    BY <2>2, Zenon DEF CauseInv
  <2> QED
    BY <1>2, <1>3, <1>13, <2>1, <2>2, RespondGoesOn, Zenon
<1>14. ASSUME NEW a \in actions, Timeout(a) \/ Refuse(a) PROVE CauseInv'
  BY <1>5, <1>14, Zenon DEF Timeout, Refuse, rejected, done, Fault
<1>15. ASSUME NEW p \in Peer, PeerAdvances(p) PROVE CauseInv'
  BY <1>1, <1>15, Zenon DEF PeerAdvances, link, history
<1>16. CASE UNCHANGED node_vars
  BY <1>1, <1>16, Zenon DEF node_vars, link, history
<1> QED
  BY <1>4, <1>6, <1>8, <1>9, <1>10, <1>11, <1>12, <1>13, <1>14, <1>15, <1>16, Zenon
     DEF NodeNext, Dialed, Accept

-----------------------------------------------------------------------------
(* The peers. *)

PeersInv ==
    /\ peerHeight \in [Peer -> 0 .. MaxPeerHeight]
    /\ snapshots \in [Peer -> SUBSET (1 .. MaxPeerHeight)]
    /\ \A p \in Peer : \A h \in snapshots[p] : h <= peerHeight[p]

\* The newest cached snapshot, or zero.
LEMMA NewestSnapshot ==
    ASSUME PeersInv, NEW p \in Peer
    PROVE  LET c == peer_status(p).checkpoint_height
           IN  /\ c \in snapshots[p] \cup {0} /\ c \in Nat /\ c <= peerHeight[p]
               /\ peer_status(p).head = Header(peerHeight[p]) /\ peerHeight[p] \in Nat
<1> DEFINE S == snapshots[p] \cup {0}
           T == {n \in Nat : \A g \in snapshots[p] : g <= n}
<1>1. snapshots[p] \subseteq 1 .. MaxPeerHeight /\ peerHeight[p] \in Nat
  BY NodeAssumption DEF PeersInv
<1>2. \E h \in S : \A g \in snapshots[p] : g <= h
  <2>1. T \in SUBSET Nat /\ MaxPeerHeight \in T
    BY <1>1, NodeAssumption
  <2>2. PICK n \in T : \A m \in T : n <= m
    <3> HIDE DEF T
    <3> QED
      BY <2>1, LeastNatural, Zenon
  <2>3. CASE n = 0
    BY <2>2, <2>3, Zenon
  <2>4. CASE n # 0 /\ n \notin snapshots[p]
    <3>1. n - 1 \in Nat /\ \A g \in snapshots[p] : g <= n - 1
      BY <1>1, <2>2, <2>4
    <3>2. n - 1 \in T
      BY <3>1, Zenon
    <3> QED
      BY <2>2, <3>2
  <2> QED
    BY <2>2, <2>3, <2>4, Zenon
<1>3. PICK c : c = CHOOSE h \in S : \A g \in snapshots[p] : g <= h
  BY Zenon
<1>4. c \in S
  BY <1>2, <1>3, Zenon
<1>5. peer_status(p).checkpoint_height = c /\ peer_status(p).head = Header(peerHeight[p])
  BY <1>3, Zenon DEF peer_status
<1>6. c \in Nat /\ c <= peerHeight[p]
  BY <1>1, <1>4 DEF PeersInv
<1> QED
  BY <1>1, <1>4, <1>5, <1>6, Zenon

LEMMA PeersStep ==
    ASSUME PeersInv, [NodeNext]_node_vars
    PROVE  PeersInv' /\ \A p \in Peer : peerHeight[p] <= peerHeight'[p]
<1>1. CASE UNCHANGED peers
  BY <1>1, NodeAssumption DEF peers, PeersInv
<1>2. ASSUME NEW p \in Peer, PeerAdvances(p)
      PROVE  PeersInv' /\ \A q \in Peer : peerHeight[q] <= peerHeight'[q]
  <2>1. PICK h : h = peerHeight[p] + 1
    BY Zenon
  <2>2. h \in 1 .. MaxPeerHeight /\ peerHeight' = [peerHeight EXCEPT ![p] = h] /\ peerHeight'[p] = h
    BY <1>2, <2>1, NodeAssumption DEF PeerAdvances, PeersInv
  <2>3. PICK S : S = snapshots[p] \cup {h}
    BY Zenon
  <2>4. S \in SUBSET (1 .. MaxPeerHeight)
    BY <2>2, <2>3, Zenon DEF PeersInv
  <2>5. PICK kept : kept = {k \in S : Cardinality({g \in S : g > k}) < SNAPSHOT_CACHE_COUNT}
    BY Zenon
  <2>6. kept \subseteq S
    BY <2>5, Zenon
  <2>7. snapshots' = [snapshots EXCEPT ![p] = kept]
    BY <1>2, <2>2, <2>3, <2>5, Zenon DEF PeerAdvances
  <2> QED
    BY <2>1, <2>2, <2>3, <2>4, <2>6, <2>7, NodeAssumption DEF PeersInv
<1>3. UNCHANGED peers \/ \E p \in Peer : PeerAdvances(p)
  <2>1. ASSUME NEW p \in Peer, Established(p) \/ Disconnect(p) \/ IdleClose(p) PROVE UNCHANGED peers
    BY <2>1, Zenon DEF Established, Disconnect, IdleClose, Closed
  <2>2. ASSUME NEW p \in Peer, Greeted(p) \/ Welcomed(p) \/ Serve(p) \/ Gossip(p) PROVE UNCHANGED peers
    BY <2>2, Zenon DEF Greeted, Welcomed, Serve, Gossip
  <2>3. ASSUME NEW p \in Peer, DialFails(p) \/ HandshakeFails(p) \/ HandshakeLost(p) \/ Lapse(p) \/ ServeFails(p)
        PROVE  UNCHANGED peers
    BY <2>3, Zenon DEF DialFails, HandshakeFails, HandshakeLost, Lapse, ServeFails, FailedOther
  <2>4. ASSUME NEW a \in actions, Respond(a) \/ Timeout(a) \/ Refuse(a) PROVE UNCHANGED peers
    BY <2>4, Zenon DEF Respond, Timeout, Refuse
  <2>5. Tick \/ UNCHANGED node_vars => UNCHANGED peers
    BY Zenon DEF Tick, node_vars
  <2> QED
    BY <2>1, <2>2, <2>3, <2>4, <2>5, Zenon DEF NodeNext, Dialed, Accept
<1> QED
  BY <1>1, <1>2, <1>3, Zenon

-----------------------------------------------------------------------------
(* One peer: the answer to a pending action is never refused. *)

OnePeer == \A p, q \in Peer : p = q

\* An action whose answer is accepted by a node at height h, from a peer at height top.
Answerable(a, h, top) ==
    \/ a.kind = "Status"
    \/ \E k \in Nat :
          /\ a.remote.head = Header(k) /\ h < k /\ k <= top
          /\ a.remote.checkpoint_height \in Nat /\ a.remote.checkpoint_height <= k
          /\ \/ a.kind \in {"Manifest", "Chunk"} /\ h = 0 /\ a.remote.checkpoint_height > 0
             \/ a.kind = "Headers" /\ a.detail = <<h + 1, Least(k - h, MAX_BLOCKS_PER_RESPONSE)>>
             \/ /\ a.kind = "Bodies"
                /\ \E m \in 1 .. MAX_BLOCKS_PER_RESPONSE : h + m <= k /\ a.detail = HeightsAfter(h, m)

RunInv ==
    OnePeer => /\ stopped # "Refused" /\ node_height \in Nat
               /\ \A a \in actions : Answerable(a, node_height, peerHeight[a.peer])

\* The request goes out and is all that is added, or the peer is not accepted.
LEMMA SendRuns ==
    ASSUME NEW p, NEW kind, NEW remote, NEW detail, NEW rest, NEW s,
           send_request(p, kind, remote, detail, rest, s), stopped # "Refused"
    PROVE  /\ stopped' # "Refused"
           /\ \/ actions' = rest
              \/ \E x : /\ actions' = rest \cup {x} /\ x.peer = p /\ x.kind = kind
                        /\ x.remote = remote /\ x.detail = detail
<1> DEFINE x == [id |-> FreeId(rest), peer |-> p, kind |-> kind, remote |-> remote, detail |-> detail]
<1>1. x.peer = p /\ x.kind = kind /\ x.remote = remote /\ x.detail = detail
  BY Zenon
<1>2. stopped' # "Refused" /\ (actions' = rest \/ actions' = rest \cup {x})
  BY Zenon DEF send_request, fails
<1> HIDE DEF x
<1> QED
  BY <1>1, <1>2, Zenon

\* A request from a node at height h to a peer at height top.
Asks(p, h, top) == stopped' # "Refused" /\ \A x \in actions' : x.peer = p /\ Answerable(x, h, top)

LEMMA SyncPathRuns ==
    ASSUME NEW q, NEW remote, NEW h \in Nat, NEW k \in Nat, NEW top, k <= top,
           remote.head = Header(k), remote.checkpoint_height \in Nat, remote.checkpoint_height <= k,
           NEW s, request_sync_path(q, remote, h, {}, s), stopped # "Refused"
    PROVE  Asks(q, h, top)
<1>1. remote.head.height = k /\ Header(h).height = h
  BY HeaderFields, Zenon
<1>2. CASE k <= h
  BY <1>1, <1>2, Zenon DEF request_sync_path, done, Asks
<1>3. CASE h < k
  <2>0. ~(k <= h)
    BY <1>3
  <2>1. CASE h = 0 /\ remote.checkpoint_height > 0
    <3>1. send_request(q, "Manifest", remote, <<>>, {}, s)
      BY <1>1, <2>0, <2>1, Zenon DEF request_sync_path
    <3>2. /\ stopped' # "Refused"
          /\ actions' = {} \/ \E x : /\ actions' = {x} /\ x.peer = q /\ x.kind = "Manifest" /\ x.remote = remote
      BY <3>1, SendRuns
    <3> QED
      BY <1>3, <2>1, <3>2, Zenon DEF Answerable, Asks
  <2>2. CASE ~(h = 0 /\ remote.checkpoint_height > 0)
    <3>1. PICK dt : dt = next_request(Header(h), remote.head)
      BY Zenon
    <3>2. send_request(q, "Headers", remote, dt, {}, s)
      BY <1>1, <2>0, <2>2, <3>1, Zenon DEF request_sync_path
    <3>3. /\ stopped' # "Refused"
          /\ actions' = {} \/ \E x : /\ actions' = {x} /\ x.peer = q /\ x.kind = "Headers"
                                    /\ x.remote = remote /\ x.detail = dt
      BY <3>2, SendRuns
    <3>4. dt = <<h + 1, Least(k - h, MAX_BLOCKS_PER_RESPONSE)>>
      BY <1>1, <2>0, <3>1, Zenon DEF next_request
    <3>5. ASSUME NEW x, x.kind = "Headers", x.remote = remote, x.detail = dt
          PROVE  Answerable(x, h, top)
      BY <1>3, <3>4, <3>5, Zenon DEF Answerable
    <3> QED
      BY <3>3, <3>5, Zenon DEF Asks
  <2> QED
    BY <2>1, <2>2, Zenon
<1> QED
  BY <1>2, <1>3

\* A chunk is asked for, or nothing.
LEMMA NextChunkRuns ==
    ASSUME NEW q, NEW d, NEW s, request_next_chunk(q, d, {}, s), stopped # "Refused"
    PROVE  /\ stopped' # "Refused"
           /\ \A x \in actions' : x.peer = q /\ x.kind = "Chunk" /\ x.remote = d.remote
<1>1. CASE d.remaining = <<>>
  <2>1. actions' = {} /\ stopped' = stopped
    BY <1>1, Zenon DEF request_next_chunk, done
  <2> QED
    BY <2>1, Zenon
<1>2. CASE d.remaining # <<>>
  <2>1. PICK dt : dt = <<Head(d.remaining)>>
    BY Zenon
  <2>2. send_request(q, "Chunk", d.remote, dt, {}, s)
    BY <1>2, <2>1, Zenon DEF request_next_chunk
  <2> QED
    BY <2>2, SendRuns
<1> QED
  BY <1>1, <1>2, Zenon

LEMMA RespondRuns ==
    ASSUME OnePeer, LinkInv, PathInv, PeersInv, RunInv, NEW a \in actions, Respond(a)
    PROVE  RunInv'
<1>1. PICK q, s, h, top : /\ q = a.peer /\ s = [score EXCEPT ![a.peer] = reward(@)]
                          /\ h = node_height /\ top = peerHeight[a.peer]
  BY Zenon
<1>2. /\ a.peer = q /\ q \in Peer /\ stopped # "Refused" /\ h \in Nat
      /\ Answerable(a, h, top) /\ \A p \in Peer : Path(p)
  BY <1>1, Zenon DEF LinkInv, RunInv, PathInv
<1>3. actions \ {a} = {} /\ peerHeight' = peerHeight
  <2>1. ASSUME NEW b \in actions PROVE b = a
    <3>1. a.peer \in Peer /\ b.peer \in Peer /\ (a.peer = b.peer => a = b)
      BY Zenon DEF LinkInv
    <3> QED
      BY <3>1, Zenon DEF OnePeer
  <2>2. peerHeight' = peerHeight
    BY Zenon DEF Respond, peers
  <2> QED
    BY <2>1, <2>2, Zenon
<1>4. top \in Nat
  BY <1>1, <1>2, NodeAssumption DEF PeersInv
<1>5. ASSUME NEW h1 \in Nat, node_height' = h1, Asks(q, h1, top)
      PROVE  RunInv'
  <2>1. /\ stopped' # "Refused" /\ node_height' \in Nat
        /\ \A b \in actions' : Answerable(b, node_height', peerHeight'[b.peer])
    BY <1>1, <1>3, <1>5, Zenon DEF Asks
  <2> QED
    BY <2>1, Zenon DEF RunInv, Answerable, HeightsAfter, Header, Least
<1>6. CASE a.kind = "Status"
  <2>1. PICK remote : remote = peer_status(q)
    BY Zenon
  <2>2. request_sync_path(q, remote, h, {}, s) /\ node_height' = h
    BY <1>1, <1>3, <1>6, <2>1, Zenon DEF Respond, rejected
  <2>3. remote.head = Header(top) /\ remote.checkpoint_height \in Nat /\ remote.checkpoint_height <= top /\ top <= top
    BY <1>1, <1>2, <1>4, <2>1, NewestSnapshot
  <2> QED
    BY <1>2, <1>4, <1>5, <2>2, <2>3, SyncPathRuns, Zenon
<1>7. CASE a.kind # "Status"
  <2>1. PICK k \in Nat :
            /\ a.remote.head = Header(k) /\ h < k /\ k <= top
            /\ a.remote.checkpoint_height \in Nat /\ a.remote.checkpoint_height <= k
            /\ \/ a.kind \in {"Manifest", "Chunk"} /\ h = 0 /\ a.remote.checkpoint_height > 0
               \/ a.kind = "Headers" /\ a.detail = <<h + 1, Least(k - h, MAX_BLOCKS_PER_RESPONSE)>>
               \/ /\ a.kind = "Bodies"
                  /\ \E m \in 1 .. MAX_BLOCKS_PER_RESPONSE : h + m <= k /\ a.detail = HeightsAfter(h, m)
    BY <1>2, <1>7, Zenon DEF Answerable
  <2>2. PICK remote : remote = a.remote
    BY Zenon
  <2>3. ASSUME NEW x, x.kind = "Chunk", x.remote = remote, a.kind \in {"Manifest", "Chunk"}
        PROVE  Answerable(x, h, top)
    <3>1. h = 0 /\ remote.checkpoint_height > 0
      BY <2>1, <2>2, <2>3, Zenon
    <3> QED
      BY <2>1, <2>2, <2>3, <3>1, Zenon DEF Answerable
  <2>4. CASE a.kind \in {"Manifest", "Chunk"} /\ rejected(a, actions \ {a})
    BY <1>1, <1>2, <1>3, <1>5, <2>4, Zenon DEF rejected, done, Asks
  <2>5. CASE a.kind = "Manifest" /\ begin_snapshot_download(q, remote, {}, s)
    <3>1. PICK d : /\ d = [remote |-> remote, staged |-> {}, remaining |-> [i \in Chunks |-> i]]
                   /\ request_next_chunk(q, d, {}, s)
      BY <2>5, Zenon DEF begin_snapshot_download
    <3>2. d.remote = remote /\ node_height' = h
      BY <1>1, <2>5, <3>1, Zenon DEF begin_snapshot_download
    <3> QED
      BY <1>2, <1>5, <2>3, <2>5, <3>1, <3>2, NextChunkRuns DEF Asks
  <2>6. CASE a.kind = "Chunk" /\ accept_snapshot_chunk(q, a.detail[1], {}, s)
    <3>1. h = 0 /\ remote.checkpoint_height > 0 /\ remote.checkpoint_height \in Nat
      BY <2>1, <2>2, <2>6, Zenon
    <3>2. Serving(a, downloads[q])
      BY <1>2, Zenon DEF Path
    <3>3. CASE downloads[q] = NoDownload
      BY <1>1, <1>2, <1>5, <2>6, <3>3, Zenon DEF accept_snapshot_chunk, fails, Asks
    <3>4. CASE downloads[q] # NoDownload
      <4>1. PICK i \in Chunks : a.detail = <<i>> /\ downloads[q] = DownloadAt(remote, i)
        BY <2>2, <2>6, <3>2, <3>4, Zenon DEF Serving
      <4>2. PICK j, d : j = a.detail[1] /\ d = [downloads[q] EXCEPT !.staged = @ \cup {j}]
        BY Zenon
      <4>3. d.remote = remote
        BY <4>1, <4>2 DEF DownloadAt
      <4>4. CASE d.staged # Chunks
        <5>1. request_next_chunk(q, d, {}, s) /\ node_height' = h
          BY <1>1, <2>6, <3>4, <4>2, <4>4, Zenon DEF accept_snapshot_chunk
        <5> QED
          BY <1>2, <1>5, <2>3, <2>6, <4>3, <5>1, NextChunkRuns DEF Asks
      <4>5. CASE d.staged = Chunks
        <5>1. PICK c \in Nat : c = remote.checkpoint_height
          BY <3>1, Zenon
        <5>2. node_height' = c /\ request_sync_path(q, remote, c, {}, s)
          BY <1>1, <2>6, <3>1, <3>4, <4>2, <4>3, <4>5, <5>1, Zenon DEF accept_snapshot_chunk
        <5> QED
          BY <1>2, <1>5, <2>1, <2>2, <5>1, <5>2, SyncPathRuns, Zenon
      <4> QED
        BY <4>4, <4>5, Zenon
    <3> QED
      BY <3>3, <3>4, Zenon
  <2>7. CASE a.kind = "Headers" /\ accept_headers(q, a, {}, s)
    <3>1. PICK n, start : n = Least(k - h, MAX_BLOCKS_PER_RESPONSE) /\ start = h + 1
      BY Zenon
    <3>2. a.detail[1] = start /\ a.detail[2] = n
      <4>1. a.detail = <<start, n>>
        BY <2>1, <2>7, <3>1, Zenon
      <4> QED
        BY <4>1
    <3>3. n \in 1 .. MAX_BLOCKS_PER_RESPONSE /\ n \in Nat /\ h + n <= k /\ h + n <= top
      BY <1>2, <1>4, <2>1, <3>1, RequestSize, SyncAssumption
    <3>4. PICK heights : heights = HeightsAfter(h, n)
      BY Zenon
    <3>5. requested_heights(top, start, n) = heights
      BY <1>2, <1>4, <3>1, <3>3, <3>4, RequestServed
    <3>6. PICK items : items = [i \in DOMAIN heights |-> Item(Header(heights[i]))]
      BY Zenon
    <3>7. verify_response(Header(h), Header(k), items)
      BY <1>2, <2>1, <3>3, <3>4, <3>6, AnswerAccepted
    <3>8. send_request(q, "Bodies", remote, heights, {}, s) /\ node_height' = h
      BY <1>1, <2>1, <2>2, <2>7, <3>2, <3>5, <3>6, <3>7, Zenon DEF accept_headers
    <3>9. /\ stopped' # "Refused"
          /\ actions' = {} \/ \E x : /\ actions' = {x} /\ x.peer = q /\ x.kind = "Bodies"
                                    /\ x.remote = remote /\ x.detail = heights
      BY <1>2, <3>8, SendRuns
    <3>10. ASSUME NEW x, x.kind = "Bodies", x.remote = remote, x.detail = heights
           PROVE  Answerable(x, h, top)
      BY <2>1, <2>2, <3>3, <3>4, <3>10, Zenon DEF Answerable
    <3>11. Asks(q, h, top)
      BY <3>9, <3>10, Zenon DEF Asks
    <3> QED
      BY <1>2, <1>5, <3>8, <3>11, Zenon
  <2>8. CASE a.kind = "Bodies" /\ accept_bodies(q, a, {}, s)
    <3>1. PICK m \in 1 .. MAX_BLOCKS_PER_RESPONSE : h + m <= k /\ a.detail = HeightsAfter(h, m)
      BY <2>1, <2>8, Zenon
    <3>2. PICK heights : heights = a.detail
      BY Zenon
    <3>3. PICK items : items = [i \in DOMAIN heights |-> Item(Header(heights[i]))]
      BY Zenon
    <3>4. /\ import_response(Header(h), Header(k), items).ok
          /\ import_response(Header(h), Header(k), items).tip.height = h + m
      BY <1>2, <2>1, <3>1, <3>2, <3>3, AnswerAccepted
    <3>5. PICK h1 : h1 = h + m
      BY Zenon
    <3>6. node_height' = h1 /\ request_sync_path(q, remote, h1, {}, s)
      BY <1>1, <2>1, <2>2, <2>8, <3>2, <3>3, <3>4, <3>5, Zenon DEF accept_bodies
    <3>7. h1 \in Nat
      BY <1>2, <3>1, <3>5, SyncAssumption
    <3> QED
      BY <1>2, <1>5, <2>1, <2>2, <3>6, <3>7, SyncPathRuns, Zenon
  <2> QED
    BY <1>1, <1>3, <1>7, <2>2, <2>4, <2>5, <2>6, <2>7, <2>8, Zenon DEF Respond
<1> QED
  BY <1>6, <1>7, Zenon

\* The peer only grows.
LEMMA AnswerableLater ==
    ASSUME NEW a, NEW h \in Nat, NEW top \in Nat, NEW later \in Nat, top <= later, Answerable(a, h, top)
    PROVE  Answerable(a, h, later)
<1>1. \A k \in Nat : k <= top => k <= later
  OBVIOUS
<1> QED
  BY <1>1, Zenon DEF Answerable

LEMMA RunStep ==
    ASSUME LinkInv, PathInv, PeersInv, RunInv, [NodeNext]_node_vars
    PROVE  RunInv'
<1> SUFFICES ASSUME OnePeer PROVE RunInv'
  BY Zenon DEF RunInv
<1>1. PICK h, later : h = node_height /\ later = peerHeight'
  BY Zenon
<1>2. h \in Nat /\ stopped # "Refused"
  BY <1>1, Zenon DEF RunInv
<1>3. ASSUME NEW a \in actions PROVE Answerable(a, h, later[a.peer])
  <2>1. PICK top : top = peerHeight[a.peer]
    BY Zenon
  <2>2. a.peer \in Peer
    BY Zenon DEF LinkInv
  <2>3. top \in Nat /\ later[a.peer] \in Nat /\ top <= later[a.peer]
    <3>1. PeersInv' /\ top <= later[a.peer]
      BY <1>1, <2>1, <2>2, PeersStep, Zenon
    <3> QED
      BY <1>1, <2>1, <2>2, <3>1, NodeAssumption DEF PeersInv
  <2>4. Answerable(a, h, top)
    BY <1>1, <2>1, Zenon DEF RunInv
  <2> QED
    BY <1>2, <2>3, <2>4, AnswerableLater, Zenon
<1>4. ASSUME node_height' = node_height, stopped' # "Refused",
             \A a \in actions' : a \in actions \/ a.kind = "Status"
      PROVE  RunInv'
  <2>1. ASSUME NEW a \in actions' PROVE Answerable(a, h, later[a.peer])
    BY <1>3, <1>4, Zenon DEF Answerable
  <2>2. /\ stopped' # "Refused" /\ node_height' \in Nat
        /\ \A a \in actions' : Answerable(a, node_height', peerHeight'[a.peer])
    BY <1>1, <1>2, <1>4, <2>1, Zenon
  <2> QED
    BY <2>2, Zenon DEF RunInv, Answerable, HeightsAfter, Header, Least
<1>5. ASSUME node_height' = node_height, stopped' = stopped, actions' \subseteq actions PROVE RunInv'
  BY <1>2, <1>4, <1>5, Zenon
<1>6. ASSUME NEW p, NEW s, node_height' = node_height,
             send_request(p, "Status", NoRemote, <<>>, actions, s)
      PROVE  RunInv'
  <2>1. PICK remote, dt : send_request(p, "Status", remote, dt, actions, s)
    BY <1>6, Zenon
  <2>2. stopped' # "Refused" /\ (actions' = actions \/ \E x : actions' = actions \cup {x} /\ x.kind = "Status")
    BY <1>2, <2>1, SendRuns
  <2> QED
    BY <1>4, <1>6, <2>2, Zenon
<1>7. CASE Tick
  BY <1>5, <1>6, <1>7, Zenon DEF Tick
<1>8. ASSUME NEW p \in Peer, Established(p) \/ Disconnect(p) \/ IdleClose(p) PROVE RunInv'
  BY <1>5, <1>8, Zenon DEF Established, Disconnect, IdleClose, Closed
<1>9. ASSUME NEW p \in Peer, Greeted(p) \/ Welcomed(p) \/ Gossip(p) PROVE RunInv'
  <2>1. node_height' = node_height
    BY <1>9, Zenon DEF Greeted, Welcomed, Gossip
  <2>2. \/ stopped' = stopped /\ actions' = actions
        \/ \E s : send_request(p, "Status", NoRemote, <<>>, actions, s)
    BY <1>9, Zenon DEF Greeted, Welcomed, Gossip, authenticate
  <2> QED
    BY <1>5, <1>6, <2>1, <2>2, Zenon
<1>10. ASSUME NEW p \in Peer, Serve(p) \/ HandshakeLost(p) \/ Lapse(p) \/ PeerAdvances(p) PROVE RunInv'
  BY <1>5, <1>10, Zenon DEF Serve, HandshakeLost, Lapse, PeerAdvances
<1>11. ASSUME NEW p \in Peer, DialFails(p) \/ HandshakeFails(p) PROVE RunInv'
  BY <1>5, <1>11, Zenon DEF DialFails, HandshakeFails, FailedOther
<1>12. ASSUME NEW p \in Peer, ServeFails(p) PROVE RunInv'
  BY <1>4, <1>12, Zenon DEF ServeFails
<1>13. ASSUME NEW a \in actions, Timeout(a) \/ Refuse(a) PROVE RunInv'
  BY <1>5, <1>13, Zenon DEF Timeout, Refuse, rejected, done
<1>14. ASSUME NEW a \in actions, Respond(a) PROVE RunInv'
  BY <1>14, RespondRuns, Zenon
<1>15. CASE UNCHANGED node_vars
  BY <1>5, <1>15, Zenon DEF node_vars
<1> QED
  BY <1>7, <1>8, <1>9, <1>10, <1>11, <1>12, <1>13, <1>14, <1>15, Zenon DEF NodeNext, Dialed, Accept

-----------------------------------------------------------------------------
\* run_dev_node ends with an error of its sync loop only for a reason: it has authenticated a
\* peer that it does not accept at the time of a request, a dial or a handshake with a peer
\* failed during a download from it, a request's channel was gone when it was answered, or
\* there are two peers to sync from at once.  For any number of peers and chunks, any heights,
\* page sizes, scores and faults, and with evicted snapshots.
THEOREM StopsAlwaysExplained == NodeSpec => []StopsExplained
<1> DEFINE I == LinkInv /\ PathInv /\ PeersInv /\ CauseInv /\ RunInv
<1>1. NodeInit => I
  <2> SUFFICES ASSUME NodeInit PROVE I
    BY Zenon
  <2>1. RunInv
    BY Zenon DEF NodeInit, RunInv
  <2>2. CauseInv
    BY Zenon DEF NodeInit, CauseInv
  <2>3. PeersInv
    BY NodeAssumption DEF NodeInit, PeersInv
  <2> QED
    BY <2>1, <2>2, <2>3, LinkInit, PathInit, Zenon
<1>2. I /\ [NodeNext]_node_vars => I'
  <2> SUFFICES ASSUME I, [NodeNext]_node_vars PROVE I'
    BY Zenon
  <2> QED
    BY LinkStep, PathStep, PeersStep, CauseStep, RunStep, Zenon
<1>3. I => StopsExplained
  BY Zenon DEF CauseInv, RunInv, OnePeer, StopsExplained
<1> HIDE DEF I
<1> QED
  BY <1>1, <1>2, <1>3, PTL DEF NodeSpec
=============================================================================
