------------------------------- MODULE SyncOps --------------------------------
(***************************************************************************)
(* Header and block synchronisation: what a peer serves for a range of     *)
(* heights, and what HeaderSync and BlockSync accept of it.                 *)
(*                                                                         *)
(* A header is a record [height, id, parent]; id stands for its hash, which *)
(* commits to everything in it, the domain heads root included.  A local   *)
(* or remote status is the header at the tip.  An item on the wire carries *)
(* a claimed height, the decoded header, whether the bytes decode, whether *)
(* the finality proof is the empty one, and whether the body re-executes   *)
(* to the header.                                                          *)
(***************************************************************************)
EXTENDS Integers, Sequences, FiniteSets

CONSTANTS MAX_HEADERS_PER_RESPONSE, MAX_BLOCKS_PER_RESPONSE

ASSUME SyncAssumption ==
    /\ MAX_BLOCKS_PER_RESPONSE \in Nat \ {0}
    /\ MAX_HEADERS_PER_RESPONSE \in Nat /\ MAX_BLOCKS_PER_RESPONSE <= MAX_HEADERS_PER_RESPONSE

Least(a, b) == IF a <= b THEN a ELSE b

\* BlockSync.next_request: first height and count, or <<>> when caught up.
next_request(local, remote) ==
    IF remote.height <= local.height THEN <<>>
    ELSE <<local.height + 1, Least(remote.height - local.height, MAX_BLOCKS_PER_RESPONSE)>>

\* Mutant: the last finalized height is not served.
requested_heights_short(top, start, limit) ==
    [i \in 1 .. Least(limit, IF start > top THEN 0 ELSE top - start) |-> start + i - 1]

\* requested_heights: the part of a requested range the server has reached, in order.
requested_heights(top, start, limit) ==
    [i \in 1 .. Least(limit, IF start > top THEN 0 ELSE top + 1 - start) |-> start + i - 1]

Item(header) ==
    [height |-> header.height, header |-> header,
     decodes |-> TRUE, proof |-> "empty", executes |-> TRUE]

\* Mutant: the parent hash is not compared.
verify_response_unlinked(local, remote, items) ==
    /\ items # <<>>
    /\ \A i \in DOMAIN items :
          /\ items[i].height = local.height + i /\ items[i].height <= remote.height
          /\ items[i].decodes /\ items[i].header.height = items[i].height
          /\ items[i].proof = "empty"

\* HeaderSync.verify_response: accepted as a whole or not at all.
verify_response(local, remote, items) ==
    /\ Len(items) <= MAX_HEADERS_PER_RESPONSE
    /\ IF remote.height <= local.height THEN items = <<>>
       ELSE /\ items # <<>>
            /\ \A i \in DOMAIN items :
                  /\ items[i].height = local.height + i /\ items[i].height <= remote.height
                  /\ items[i].decodes /\ items[i].header.height = items[i].height
                  /\ items[i].header.parent = IF i = 1 THEN local.id ELSE items[i - 1].header.id
                  /\ items[i].proof = "empty"
            /\ LET last == items[Len(items)]
               IN  last.height = remote.height => last.header.id = remote.id

\* finalized_blocks_from_bodies: one body for each verified header, with that header.
bodies_match(headers, bodies) ==
    /\ Len(bodies) = Len(headers)
    /\ \A i \in DOMAIN headers :
          bodies[i].height = headers[i].height /\ bodies[i].decodes /\ bodies[i].header = headers[i]

\* BlockSync.import_response.  The blocks are committed one by one up to the first that
\* is refused, here or by the engine; the tip is compared with the remote's afterwards.
importable(local, remote, blocks, i) ==
    /\ blocks[i].height = local.height + i /\ blocks[i].height <= remote.height
    /\ blocks[i].decodes /\ blocks[i].header.height = blocks[i].height
    /\ blocks[i].proof = "empty"
    /\ blocks[i].header.parent = IF i = 1 THEN local.id ELSE blocks[i - 1].header.id
    /\ blocks[i].executes

import_response(local, remote, blocks) ==
    LET acceptable == Len(blocks) <= MAX_BLOCKS_PER_RESPONSE /\ remote.height > local.height
        refused    == {i \in DOMAIN blocks : ~importable(local, remote, blocks, i)}
        count      == IF ~acceptable THEN 0
                      ELSE IF refused = {} THEN Len(blocks)
                      ELSE (CHOOSE i \in refused : \A j \in refused : i <= j) - 1
        tip        == IF count = 0 THEN local ELSE blocks[count].header
    IN  [imported |-> [i \in 1 .. count |-> blocks[i].header],
         tip |-> tip,
         ok |-> IF remote.height <= local.height THEN blocks = <<>>
                ELSE /\ acceptable /\ blocks # <<>> /\ refused = {}
                     /\ tip.height = remote.height => tip.id = remote.id]
=============================================================================
