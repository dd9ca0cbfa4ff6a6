------------------------------- MODULE Sessions -------------------------------
(***************************************************************************)
(* NetworkService at both ends of a pair of nodes: connections, the        *)
(* application handshake, the PeerAuthenticated event and the Status       *)
(* request it triggers, and peer scores.  Requests travel on streams of    *)
(* their own, so any two messages can overtake each other.  Both ends learn *)
(* of a new connection in one step; when one end closes, the other one     *)
(* learns of it later (until then it is `stale`), possibly after the first *)
(* has restarted and connected again.                                      *)
(***************************************************************************)
EXTENDS PeerPolicy, FiniteSets

CONSTANTS
    Node,        \* the two nodes
    Genesis,     \* genesis hashes a node may be configured with
    MaxLinks,    \* bound on simultaneous connections
    MaxConnects, \* bound on connections over time
    MaxTimeouts  \* bound on lost requests

ASSUME SessionAssumption == \E a, b \in Node : a # b /\ Node = {a, b}

VARIABLES
    genesis,        \* each node's handshake identity
    links,          \* connections established at both ends
    stale,          \* nodes that still count connections the other one has closed
    authenticated,  \* nodes whose `authenticated` map has the other one
    announced,      \* PeerAuthenticated events of the current session, by node
    score,          \* each node's score of the other one
    requests,       \* outstanding requests, unanswered or with their response under way
    ungreeted,      \* nodes that lost a handshake since the connection was established
    connects, timeouts

session_vars == <<genesis, links, stale, authenticated, announced, score, requests, ungreeted,
          connects, timeouts>>

Other(n) == CHOOSE m \in Node : m # n

Accepts(n) == disposition(score[n]) = "Accepted"

\* A request of node n: what it asks, the genesis its envelope carries, and the answer,
\* "none" until the other node has answered; then the envelope is the response's.  A
\* request is dead once one end has closed the connection it is on.
Request(n, body, live) ==
    [from |-> n, body |-> body, answer |-> "none", genesis |-> genesis[n],
     live |-> live, nr |-> connects]

-----------------------------------------------------------------------------
SessionInit ==
    /\ genesis \in [Node -> Genesis]
    /\ links = 0 /\ stale = {}
    /\ authenticated = {}
    /\ announced = [n \in Node |-> 0]
    /\ score = [n \in Node |-> 0]
    /\ requests = {} /\ ungreeted = {}
    /\ connects = 0 /\ timeouts = 0

\* The last connection n counts has closed.
Forget(n) ==
    /\ authenticated' = authenticated \ {n}
    /\ announced' = [announced EXCEPT ![n] = 0]

\* The OutboundFailures of n's requests in lost.
Penalized(s, n, lost) ==
    [s EXCEPT ![n] = clamp(@ - TimeoutPenalty * Cardinality({r \in lost : r.from = n}))]

\* Node n closes all its connections (disconnect_peer_id, or its process ends).  What
\* the other node has received or will be answered is still in its buffers.
Cut(n, open, linked) ==
    /\ links' = 0
    /\ stale' = (stale \ {n}) \cup (IF linked THEN {Other(n)} ELSE {})
    /\ Forget(n)
    /\ requests' = {[r EXCEPT !.live = FALSE] : r \in
           {q \in open : (q.live \/ n \notin stale) /\ (q.from # n \/ q.answer = "none")}}
    /\ ungreeted' = {}
    /\ UNCHANGED genesis

\* It does so with disconnect_peer_id: all its requests fail.
HangUp(n, s, open, linked) ==
    /\ Cut(n, open, linked)
    /\ score' = Penalized(s, n, {r \in open : r.live \/ n \in stale})

Disconnect(n) ==
    /\ links > 0 \/ n \in stale
    /\ HangUp(n, score, requests, links > 0)
    /\ UNCHANGED <<connects, timeouts>>

\* ConnectionEstablished at both ends: a banned peer is disconnected again, a throttled
\* one is kept but not greeted.
Connect ==
    /\ links < MaxLinks /\ connects < MaxConnects
    /\ connects' = connects + 1
    /\ LET greetings == {Request(n, "Handshake", TRUE) : n \in {m \in Node : Accepts(m)}}
       IN  \/ /\ \A n \in Node : disposition(score[n]) # "Banned"
              /\ links' = links + 1
              /\ requests' = requests \cup greetings
              /\ UNCHANGED <<genesis, stale, authenticated, announced, score, ungreeted>>
           \/ \E n \in Node :
                 /\ disposition(score[n]) = "Banned"
                 /\ HangUp(n, score, requests \cup greetings, TRUE)
    /\ UNCHANGED timeouts

\* ConnectionClosed for the connections the other node closed: while n counts a newer
\* one (num_established > 0) its session goes on.
CloseStale(n) ==
    /\ n \in stale
    /\ stale' = stale \ {n}
    /\ IF links = 0 THEN Forget(n) ELSE UNCHANGED <<authenticated, announced>>
    /\ score' = Penalized(score, n, {r \in requests : ~r.live})
    /\ requests' = {r \in requests : r.live}
    /\ UNCHANGED <<genesis, links, ungreeted, connects, timeouts>>

\* One of several connections closes: not reported further.
DropLink ==
    /\ links > 1
    /\ links' = links - 1
    /\ UNCHANGED <<genesis, stale, authenticated, announced, score, requests, ungreeted,
                   connects, timeouts>>

\* A node without connections restarts, on the same or on another network; its scores
\* are gone.
Restart(n, g) ==
    /\ links = 0 /\ n \notin stale
    /\ genesis' = [genesis EXCEPT ![n] = g]
    /\ score' = [score EXCEPT ![n] = 0]
    /\ UNCHANGED <<links, stale, authenticated, announced, requests, ungreeted, connects,
                   timeouts>>

-----------------------------------------------------------------------------
\* reject_peer: penalty, no longer authenticated, disconnected.
reject_peer(n) ==
    /\ HangUp(n, [score EXCEPT ![n] = identity_mismatch(@)], requests, links > 0)
    /\ UNCHANGED <<connects, timeouts>>

\* Mutant: every handshake counts as a new authentication.
authenticate_again(n, tells, s, rest) ==
    /\ authenticated' = authenticated \cup {n}
    /\ score' = [s EXCEPT ![n] = reward(@)]
    /\ announced' = [announced EXCEPT ![n] = IF tells THEN @ + 1 ELSE @]
    /\ requests' = rest \cup (IF tells THEN {Request(n, "Status", links > 0)} ELSE {})

\* authenticate at node n, and what its callers do with the result: a handshake (`tells`)
\* emits PeerAuthenticated, on which the node asks for the other one's status.
authenticate(n, tells, s, rest) ==
    /\ authenticated' = authenticated \cup {n}
    /\ score' = [s EXCEPT ![n] = reward(@)]
    /\ IF tells /\ n \notin authenticated
       THEN /\ announced' = [announced EXCEPT ![n] = @ + 1]
            /\ requests' = rest \cup {Request(n, "Status", links > 0)}
       ELSE requests' = rest /\ UNCHANGED announced

\* The answer to r, and the ResponseSent that rewards the peer; on a dead connection
\* the answer is lost, unless it ends the node (RespondFails).
answers(r, answer) ==
    IF r.live THEN {[r EXCEPT !.answer = answer, !.genesis = genesis[Other(r.from)]]} ELSE {}

sent(n, r) == IF r.live THEN [score EXCEPT ![n] = reward(@)] ELSE score

\* Mutant: an authenticated peer's envelope is not validated again.
ReceiveRequest_trusting(r) ==
    LET n    == Other(r.from)
        rest == requests \ {r}
    IN  /\ r.answer = "none" /\ (r.live \/ n \in stale)
        /\ IF r.genesis # genesis[n] /\ n \notin authenticated THEN reject_peer(n)
           ELSE /\ UNCHANGED <<genesis, links, stale, ungreeted, connects, timeouts>>
                /\ authenticate(n, r.body = "Handshake", sent(n, r), rest \cup answers(r, r.body))

\* handle_inbound_request and the node's answer.
ReceiveRequest(r) ==
    LET n    == Other(r.from)
        rest == requests \ {r}
    IN  /\ r.answer = "none" /\ (r.live \/ n \in stale)
        /\ IF r.genesis # genesis[n] THEN reject_peer(n)
           ELSE /\ UNCHANGED <<genesis, links, stale, ungreeted, connects, timeouts>>
                /\ IF Accepts(n)
                   THEN authenticate(n, r.body = "Handshake", sent(n, r), rest \cup answers(r, r.body))
                   ELSE /\ requests' = rest \cup answers(r, "Rejected")
                        /\ score' = sent(n, r)
                        /\ UNCHANGED <<authenticated, announced>>

\* The same, of a status request whose connection is already gone at this end too: respond
\* returns an error (which is ignored for the other answers), serve_request passes it on, and
\* run_dev_node ends.  The next connection is with a new process.
RespondFails(r) ==
    LET n == Other(r.from)
    IN  /\ r.answer = "none" /\ r.body = "Status" /\ ~r.live /\ n \in stale
        /\ r.genesis = genesis[n] /\ Accepts(n)
        /\ Cut(n, requests \ {r}, links > 0)
        /\ score' = [score EXCEPT ![n] = 0]
        /\ UNCHANGED <<connects, timeouts>>

\* handle_inbound_response at the node that asked.
ReceiveResponse(r) ==
    LET n    == r.from
        rest == requests \ {r}
    IN  /\ r.answer # "none" /\ (r.live \/ n \in stale)
        /\ IF r.answer = "Handshake" /\ r.genesis # genesis[n] THEN reject_peer(n)
           ELSE /\ UNCHANGED <<genesis, links, stale, ungreeted, connects, timeouts>>
                /\ IF r.answer = "Handshake" THEN authenticate(n, TRUE, score, rest)
                   ELSE /\ requests' = rest
                        /\ score' = [score EXCEPT ![n] = reward(@)]
                        /\ UNCHANGED <<authenticated, announced>>

\* OutboundFailure of a request.
RequestFails(r) ==
    /\ r.live
    /\ timeouts < MaxTimeouts
    /\ timeouts' = timeouts + 1
    /\ requests' = requests \ {r}
    /\ score' = [score EXCEPT ![r.from] = timeout(@)]
    /\ ungreeted' = IF r.body = "Handshake" THEN ungreeted \cup {r.from} ELSE ungreeted
    /\ UNCHANGED <<genesis, links, stale, authenticated, announced, connects>>

SessionNext ==
    \/ Connect \/ DropLink
    \/ \E n \in Node : Disconnect(n) \/ CloseStale(n)
    \/ \E n \in Node, g \in Genesis : Restart(n, g)
    \/ \E r \in requests :
          ReceiveRequest(r) \/ RespondFails(r) \/ ReceiveResponse(r) \/ RequestFails(r)

SessionSpec == SessionInit /\ [][SessionNext]_session_vars

-----------------------------------------------------------------------------
\* A node holds a peer of another network as authenticated only where it cannot know
\* better: the peer's old connections are the only ones, or the handshake the peer sent
\* on the new one is still under way or was lost.  A peer's restart on another network
\* behind an open session is found out by the first message that arrives.
AuthenticatedSameGenesis ==
    \A n \in authenticated :
        \/ genesis[n] = genesis[Other(n)]
        \/ links = 0
        \/ Other(n) \in ungreeted
        \/ \E r \in requests : r.live /\ r.from = Other(n) /\ r.body = "Handshake" /\ r.answer = "none"

\* PeerAuthenticated is emitted at most once in a session, over a second connection,
\* crossed handshakes, duplicated answers and a reconnection the node has not noticed:
\* each event starts a sync.
AnnouncedAtMostOnce ==
    \A n \in Node : announced[n] <= 1
=============================================================================
