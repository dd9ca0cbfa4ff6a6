------------------------------ MODULE BlockSync -------------------------------
(***************************************************************************)
(* One node catching up with one peer by headers, then bodies.  The peer's *)
(* answers arrive dropped, reordered, duplicated, cut or damaged, and may  *)
(* belong to another chain than the node's.  A refused answer ends the     *)
(* node's process; it starts again from its durable chain.                 *)
(***************************************************************************)
EXTENDS SyncOps

CONSTANTS
    Headers,        \* every header of every chain: a tree
    GenesisHeader,  \* the header at height zero
    MaxItems        \* bound on the items of an answer

\* A header names its parent by hash and is one higher; no two headers share a hash.
ASSUME HeaderAssumption ==
    /\ GenesisHeader.height = 0
    /\ \A h \in Headers :
          /\ h.height \in Nat \ {0}
          /\ \E g \in Headers \cup {GenesisHeader} : h.parent = g.id /\ h.height = g.height + 1
    /\ \A g, h \in Headers \cup {GenesisHeader} : g.id = h.id => g = h

VARIABLES
    chain,      \* the durable finalized headers above genesis
    phase       \* what the node waits for

sync_vars == <<chain, phase>>

NoSync == [at |-> "idle"]

Tip == IF chain = <<>> THEN GenesisHeader ELSE chain[Len(chain)]

\* Items a peer may put on the wire: an intact one, or one damaged in one respect.
Wire ==
    {Item(h) : h \in Headers}
    \cup {[Item(h) EXCEPT !.height = @ + 1] : h \in Headers}
    \cup {[Item(h) EXCEPT !.decodes = FALSE] : h \in Headers}
    \cup {[Item(h) EXCEPT !.proof = "bytes"] : h \in Headers}
    \cup {[Item(h) EXCEPT !.executes = FALSE] : h \in Headers}

Answer == UNION {[1 .. n -> Wire] : n \in 0 .. MaxItems}

\* request_sync_path for a node above height zero.
request_headers(local, remote) ==
    IF next_request(local, remote) = <<>> THEN NoSync ELSE [at |-> "headers", remote |-> remote]

-----------------------------------------------------------------------------
SyncInit == chain = <<>> /\ phase = NoSync

Status(remote) ==
    /\ phase = NoSync
    /\ phase' = request_headers(Tip, remote)
    /\ UNCHANGED chain

\* Headers verify, and the bodies of exactly these are requested: BlockBodies is refused
\* by its own validation when it is empty or over the limit.
HeadersResponse(items) ==
    /\ phase.at = "headers"
    /\ phase' = IF verify_response(Tip, phase.remote, items)
                   /\ Len(items) \in 1 .. MAX_BLOCKS_PER_RESPONSE
                THEN [at |-> "bodies", remote |-> phase.remote,
                      headers |-> [i \in DOMAIN items |-> items[i].header]]
                ELSE NoSync
    /\ UNCHANGED chain

BodiesResponse(bodies) ==
    LET result == import_response(Tip, phase.remote, bodies)
    IN  /\ phase.at = "bodies"
        /\ IF bodies_match(phase.headers, bodies)
           THEN /\ chain' = chain \o result.imported
                /\ phase' = IF result.ok THEN request_headers(result.tip, phase.remote) ELSE NoSync
           ELSE phase' = NoSync /\ UNCHANGED chain

SyncNext ==
    \/ \E remote \in Headers : Status(remote)
    \/ \E items \in Answer : HeadersResponse(items) \/ BodiesResponse(items)

SyncSpec == SyncInit /\ [][SyncNext]_sync_vars

-----------------------------------------------------------------------------
Linked(parent, headers) ==
    \A i \in DOMAIN headers :
        LET before == IF i = 1 THEN parent ELSE headers[i - 1]
        IN  headers[i].height = before.height + 1 /\ headers[i].parent = before.id

\* Bodies are requested only for headers that extend the node's tip, one after the
\* other, up to the tip the peer advertised, which they must end in if they get there.
\* Nothing else can make the node fetch and execute a block.
BodiesExtendTip ==
    phase.at = "bodies" =>
        /\ Linked(Tip, phase.headers)
        /\ LET last == phase.headers[Len(phase.headers)]
           IN  last.height <= phase.remote.height
               /\ (last.height = phase.remote.height => last = phase.remote)

\* The headers from genesis to h.
PathTo(h) ==
    [i \in 1 .. h.height |->
        CHOOSE g \in Headers :
            g.height = i /\ \E up \in [i .. h.height -> Headers] :
                /\ up[i] = g /\ up[h.height] = h
                /\ \A j \in i + 1 .. h.height : up[j].parent = up[j - 1].id]

\* serve_headers and serve_bodies of a peer whose tip is h.
served(h, start, limit) ==
    LET heights == requested_heights(h.height, start, limit)
    IN  [i \in DOMAIN heights |-> Item(PathTo(h)[heights[i]])]

\* What a peer serves for the request the node sends is what the node accepts, at every
\* height and even when the peer's chain has grown since its status: a peer on the
\* node's own chain is never refused, and its answer brings the node forward.
HonestAnswerAccepted ==
    \A peer \in Headers :
        phase.at # "idle"
        /\ phase.remote.height <= peer.height /\ PathTo(peer)[phase.remote.height] = phase.remote
        /\ (chain = <<>> \/ (Tip.height <= peer.height /\ PathTo(peer)[Tip.height] = Tip))
        => LET request == next_request(Tip, phase.remote)
               answer  == served(peer, request[1], request[2])
           IN  /\ verify_response(Tip, phase.remote, answer)
               /\ phase.at = "bodies" /\ bodies_match(phase.headers, answer)
                     => /\ import_response(Tip, phase.remote, answer).ok
                        /\ import_response(Tip, phase.remote, answer).tip.height > Tip.height
=============================================================================
