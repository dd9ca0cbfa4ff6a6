---------------------------- MODULE NetworkProofs -----------------------------
(***************************************************************************)
(* Proofs about catching up with a peer: what BlockSync accepts, and the   *)
(* sync loop of a listening node (NodeSync).                               *)
(***************************************************************************)
EXTENDS BlockSync, NodeSync, FiniteSetTheorems, WellFoundedInduction, TLAPS

\* A non-empty set of naturals has a least element.
LEMMA LeastNatural ==
    ASSUME NEW T \in SUBSET Nat, T # {}
    PROVE  \E x \in T : \A y \in T : x <= y
<1> DEFINE R == {ss \in Nat \X Nat : ss[1] < ss[2]}
<1>1. IsWellFoundedOn(R, Nat)
  <2>1. R = OpToRel(<, Nat)
    BY Zenon DEF OpToRel
  <2> QED
    BY <2>1, NatLessThanWellFounded, Zenon
<1>2. \A x, y \in Nat : x < y => <<x, y>> \in R
  BY Zenon
<1> HIDE DEF R
<1>3. PICK x \in T : \A y \in T : ~(<<y, x>> \in R)
  BY <1>1, WFMin, Zenon
<1>4. \A y \in T : ~(y < x)
  <2> TAKE y \in T
  <2>1. x \in Nat /\ y \in Nat
    BY Zenon
  <2> QED
    BY <1>2, <1>3, <2>1, Zenon
<1> QED
  BY <1>4, SMT

\* Induction from H down to i.
LEMMA DownwardInduction ==
    ASSUME NEW H \in Nat, NEW i \in 0 .. H, NEW S, H \in S,
           \A j \in i + 1 .. H : j \in S => j - 1 \in S
    PROVE  \A j \in i .. H : j \in S
<1> DEFINE T == {n \in Nat : n <= H - i /\ H - n \notin S}
<1> SUFFICES ASSUME NEW j \in i .. H, j \notin S PROVE FALSE
  BY Zenon
<1>1. H - j \in T
  OBVIOUS
<1>2. PICK n \in T : \A m \in T : n <= m
  BY <1>1, LeastNatural, Zenon
<1>3. n # 0 /\ n - 1 \in Nat /\ n - 1 \notin T /\ H - n + 1 \in i + 1 .. H
  BY <1>2
<1>4. H - n + 1 \in S
  BY <1>2, <1>3
<1> QED
  BY <1>2, <1>3, <1>4

-----------------------------------------------------------------------------
(* The tree of headers. *)

\* up holds the headers from height i to h, each the parent of the next.
Branch(h, i, up) ==
    /\ up \in [i .. h.height -> Headers] /\ up[h.height] = h
    /\ \A j \in i + 1 .. h.height : up[j].parent = up[j - 1].id

LEMMA ParentOf ==
    ASSUME NEW h \in Headers
    PROVE  /\ h.height \in Nat /\ h.height >= 1
           /\ h.height = 1 => h.parent = GenesisHeader.id
           /\ h.height > 1 => \E g \in Headers : h.parent = g.id /\ g.height = h.height - 1
           /\ \A g \in Headers : h.parent = g.id => g.height = h.height - 1
<1>1. PICK g \in Headers \cup {GenesisHeader} : h.parent = g.id /\ h.height = g.height + 1
  BY HeaderAssumption, Zenon
<1>2. \A f \in Headers : h.parent = f.id => f = g
  BY <1>1, HeaderAssumption, Zenon
<1>3. h.height \in Nat /\ h.height >= 1 /\ GenesisHeader.height = 0 /\ \A f \in Headers : f.height \in Nat /\ f.height >= 1
  BY HeaderAssumption
<1>4. g \in Headers => g.height = h.height - 1 /\ h.height > 1
  BY <1>1, <1>3
<1>5. g \notin Headers => g = GenesisHeader /\ h.height = 1
  BY <1>1, <1>3
<1> QED
  BY <1>1, <1>2, <1>3, <1>4, <1>5

LEMMA BranchHeights ==
    ASSUME NEW h \in Headers, NEW i \in 1 .. h.height, NEW up, Branch(h, i, up)
    PROVE  \A j \in i .. h.height : up[j] \in Headers /\ up[j].height = j
<1> DEFINE S == {j \in i .. h.height : up[j].height = j}
           H == h.height
<1>1. H \in Nat /\ i \in 0 .. H /\ \A j \in i .. H : up[j] \in Headers
  BY ParentOf DEF Branch
<1>2. H \in S
  BY <1>1 DEF Branch
<1>3. ASSUME NEW j \in i + 1 .. H, j \in S PROVE j - 1 \in S
  <2>1. up[j].parent = up[j - 1].id /\ up[j] \in Headers /\ j - 1 \in i .. H /\ up[j].height = j
    BY <1>1, <1>3 DEF Branch
  <2>2. up[j - 1] \in Headers
    BY <1>1, <2>1, Zenon
  <2>3. up[j - 1].height = up[j].height - 1
    BY <2>1, <2>2, ParentOf, Zenon
  <2> QED
    BY <2>1, <2>3, Zenon
<1> HIDE DEF S, H
<1>4. \A j \in i .. H : j \in S
  BY <1>1, <1>2, <1>3, DownwardInduction, Zenon
<1> QED
  BY <1>1, <1>4, Zenon DEF S, H

\* There is one branch from a height up to a header.
LEMMA BranchesAgree ==
    ASSUME NEW h \in Headers, NEW i \in 1 .. h.height, NEW up, Branch(h, i, up),
           NEW k \in 1 .. h.height, NEW vp, Branch(h, k, vp), k <= i
    PROVE  \A j \in i .. h.height : up[j] = vp[j]
<1> DEFINE S == {j \in i .. h.height : up[j] = vp[j]}
           H == h.height
<1>1. H \in Nat /\ i \in 0 .. H
  BY ParentOf
<1>2. H \in S
  BY <1>1 DEF Branch
<1>3. ASSUME NEW j \in i + 1 .. H, j \in S PROVE j - 1 \in S
  <2>0. j - 1 \in i .. H /\ j - 1 \in k .. H /\ j \in k + 1 .. H
    BY <1>1
  <2>1. /\ up[j].parent = up[j - 1].id /\ up[j - 1] \in Headers /\ j - 1 \in i .. H
        /\ vp[j].parent = vp[j - 1].id /\ vp[j - 1] \in Headers
    BY <2>0, Zenon DEF Branch
  <2>2. up[j - 1].id = vp[j - 1].id
    BY <1>3, <2>1, Zenon
  <2>3. up[j - 1] = vp[j - 1]
    BY <2>1, <2>2, HeaderAssumption, Zenon
  <2> QED
    BY <2>1, <2>3, Zenon
<1> HIDE DEF S, H
<1>4. \A j \in i .. H : j \in S
  BY <1>1, <1>2, <1>3, DownwardInduction, Zenon
<1> QED
  BY <1>4, Zenon DEF S, H

LEMMA BranchExists ==
    ASSUME NEW h \in Headers
    PROVE  \A i \in 1 .. h.height : \E up : Branch(h, i, up)
<1> DEFINE S == {j \in 1 .. h.height : \E up : Branch(h, j, up)}
           H == h.height
<1>1. H \in Nat /\ 1 \in 0 .. H
  BY ParentOf
<1>2. H \in S
  <2> DEFINE up == [j \in H .. H |-> h]
  <2>1. Branch(h, H, up)
    BY <1>1 DEF Branch
  <2> QED
    BY <1>1, <2>1
<1>3. ASSUME NEW j \in 2 .. H, j \in S PROVE j - 1 \in S
  <2>1. PICK up : Branch(h, j, up)
    BY <1>3, Zenon
  <2>2. up[j] \in Headers /\ up[j].height = j
    BY <1>1, <2>1, BranchHeights
  <2>3. PICK g \in Headers : up[j].parent = g.id
    BY <2>2, ParentOf
  <2> DEFINE vp == [m \in j - 1 .. H |-> IF m = j - 1 THEN g ELSE up[m]]
  <2>4. Branch(h, j - 1, vp)
    <3>1. up \in [j .. H -> Headers] /\ up[H] = h /\ \A m \in j + 1 .. H : up[m].parent = up[m - 1].id
      BY <2>1, Zenon DEF Branch
    <3>2. vp \in [j - 1 .. H -> Headers] /\ vp[H] = h
      BY <1>1, <3>1
    <3>3. ASSUME NEW m \in j .. H PROVE vp[m].parent = vp[m - 1].id
      BY <1>1, <2>3, <3>1
    <3>4. j - 1 + 1 = j
      OBVIOUS
    <3> HIDE DEF vp
    <3> QED
      BY <3>2, <3>3, <3>4, Zenon DEF Branch
  <2> HIDE DEF vp
  <2> QED
    BY <1>1, <2>4
<1> HIDE DEF S, H
<1>4. \A j \in 1 + 1 .. H : j \in S => j - 1 \in S
  BY <1>3
<1>5. \A j \in 1 .. H : j \in S
  BY <1>1, <1>2, <1>4, DownwardInduction, Zenon
<1> QED
  BY <1>5, Zenon DEF S, H

LEMMA PathIsBranch ==
    ASSUME NEW h \in Headers, NEW i \in 1 .. h.height, NEW up, Branch(h, i, up)
    PROVE  PathTo(h)[i] = up[i]
<1> DEFINE Q(g) == g.height = i /\ \E vp \in [i .. h.height -> Headers] :
                       /\ vp[i] = g /\ vp[h.height] = h
                       /\ \A j \in i + 1 .. h.height : vp[j].parent = vp[j - 1].id
           c == CHOOSE g \in Headers : Q(g)
<1>1. i \in i .. h.height
  BY ParentOf
<1>2. up[i] \in Headers /\ up[i].height = i
  BY <1>1, BranchHeights
<1>3. Q(up[i])
  BY <1>2, Zenon DEF Branch
<1>4. c \in Headers /\ Q(c)
  BY <1>2, <1>3, Zenon
<1>5. PICK vp :
          /\ vp \in [i .. h.height -> Headers] /\ vp[i] = c /\ vp[h.height] = h
          /\ \A j \in i + 1 .. h.height : vp[j].parent = vp[j - 1].id
  BY <1>4, Zenon
<1>6. Branch(h, i, vp)
  BY <1>5, Zenon DEF Branch
<1>7. i <= i
  OBVIOUS
<1>8. \A j \in i .. h.height : up[j] = vp[j]
  BY <1>6, <1>7, BranchesAgree
<1>9. PathTo(h)[i] = c
  BY Zenon DEF PathTo
<1> QED
  BY <1>1, <1>5, <1>8, <1>9, Zenon

\* PathTo(h) is the chain from genesis to h.
LEMMA PathFacts ==
    ASSUME NEW h \in Headers, NEW i \in 1 .. h.height
    PROVE  /\ PathTo(h)[i] \in Headers /\ PathTo(h)[i].height = i
           /\ PathTo(h)[i].parent = IF i = 1 THEN GenesisHeader.id ELSE PathTo(h)[i - 1].id
<1>1. h.height \in Nat /\ i \in i .. h.height
  BY ParentOf
<1>2. PICK up : Branch(h, i, up)
  BY BranchExists, Zenon
<1>3. PathTo(h)[i] = up[i] /\ up[i] \in Headers /\ up[i].height = i
  <2>1. PathTo(h)[i] = up[i]
    BY <1>2, PathIsBranch, Zenon
  <2>2. \A j \in i .. h.height : up[j] \in Headers /\ up[j].height = j
    BY <1>2, BranchHeights
  <2> QED
    BY <1>1, <2>1, <2>2, Zenon
<1>4. CASE i = 1
  BY <1>3, <1>4, ParentOf, Zenon
<1>5. CASE i # 1
  <2>1. i - 1 \in 1 .. h.height /\ i - 1 <= i /\ i \in (i - 1) + 1 .. h.height
    BY <1>1, <1>5
  <2>2. PICK vp : Branch(h, i - 1, vp)
    BY <2>1, BranchExists, Zenon
  <2>3. PathTo(h)[i - 1] = vp[i - 1]
    BY <2>1, <2>2, PathIsBranch, Zenon
  <2>4. \A j \in i .. h.height : up[j] = vp[j]
    BY <1>2, <2>1, <2>2, BranchesAgree
  <2>5. vp[i].parent = vp[i - 1].id
    BY <2>1, <2>2, Zenon DEF Branch
  <2> QED
    BY <1>1, <1>3, <1>5, <2>3, <2>4, <2>5, Zenon
<1> QED
  BY <1>3, <1>4, <1>5, Zenon

-----------------------------------------------------------------------------
(* Block synchronisation. *)

SyncPhase ==
    {NoSync} \cup [at : {"headers"}, remote : Headers]
             \cup [at : {"bodies"}, remote : Headers, headers : Seq(Headers)]

\* The node only waits for an answer of a peer that was ahead of it.
SyncInv ==
    /\ chain \in Seq(Headers) /\ phase \in SyncPhase
    /\ phase.at # "idle" => phase.remote.height > Tip.height
    /\ phase.at = "bodies" => phase.headers # <<>>
    /\ BodiesExtendTip

HeadersOf(n, items) == [i \in 1 .. n |-> items[i].header]

LEMMA WireHeader ==
    ASSUME NEW n \in Nat, NEW items \in [1 .. n -> Wire]
    PROVE  /\ items \in Seq(Wire) /\ Len(items) = n /\ DOMAIN items = 1 .. n
           /\ \A i \in 1 .. n : items[i].header \in Headers
<1>1. \A h : /\ Item(h).header = h /\ [Item(h) EXCEPT !.height = @ + 1].header = h
            /\ [Item(h) EXCEPT !.decodes = FALSE].header = h
            /\ [Item(h) EXCEPT !.proof = "bytes"].header = h
            /\ [Item(h) EXCEPT !.executes = FALSE].header = h
  BY Zenon DEF Item
<1>2. ASSUME NEW w \in Wire PROVE w.header \in Headers
  <2>1. PICK h \in Headers : \/ w = Item(h) \/ w = [Item(h) EXCEPT !.height = @ + 1]
                             \/ w = [Item(h) EXCEPT !.decodes = FALSE]
                             \/ w = [Item(h) EXCEPT !.proof = "bytes"]
                             \/ w = [Item(h) EXCEPT !.executes = FALSE]
    BY Zenon DEF Wire
  <2> QED
    BY <1>1, <2>1, Zenon
<1> QED
  BY <1>2

LEMMA Appended ==
    ASSUME NEW S, NEW s \in Seq(S), NEW t \in Seq(S)
    PROVE  /\ s \o t \in Seq(S) /\ t = <<>> => s \o t = s
           /\ t # <<>> => s \o t # <<>> /\ (s \o t)[Len(s \o t)] = t[Len(t)]
OBVIOUS

LEMMA TipType ==
    ASSUME chain \in Seq(Headers)
    PROVE  /\ Tip \in Headers \cup {GenesisHeader} /\ Tip.height \in Nat
           /\ Tip \notin Headers => chain = <<>>
<1>1. chain = <<>> \/ chain[Len(chain)] \in Headers
  OBVIOUS
<1> QED
  BY <1>1, HeaderAssumption DEF Tip

Takes(local, blocks, result, count) ==
    /\ result.imported = HeadersOf(count, blocks)
    /\ result.tip = IF count = 0 THEN local ELSE blocks[count].header

\* What import_response takes is a prefix of the answer, and its tip is the last taken.
LEMMA ImportedPrefix ==
    ASSUME NEW n \in Nat, NEW blocks, DOMAIN blocks = 1 .. n, Len(blocks) = n,
           NEW local, NEW remote
    PROVE  \E count \in 0 .. n : Takes(local, blocks, import_response(local, remote, blocks), count)
<1> DEFINE acceptable == Len(blocks) <= MAX_BLOCKS_PER_RESPONSE /\ remote.height > local.height
           declined == {i \in DOMAIN blocks : ~importable(local, remote, blocks, i)}
           least == CHOOSE i \in declined : \A j \in declined : i <= j
           count == IF ~acceptable THEN 0 ELSE IF declined = {} THEN Len(blocks) ELSE least - 1
<1>1. count \in 0 .. n
  <2>1. declined # {} => least \in declined
    <3>1. declined \in SUBSET Nat
      OBVIOUS
    <3> HIDE DEF declined
    <3> QED
      BY <3>1, LeastNatural, Zenon
  <2>2. \A i \in declined : i \in 1 .. n
    BY Zenon
  <2> HIDE DEF declined, least, acceptable
  <2> QED
    BY <2>1, <2>2
<1>2. /\ import_response(local, remote, blocks).imported = [i \in 1 .. count |-> blocks[i].header]
      /\ import_response(local, remote, blocks).tip = IF count = 0 THEN local ELSE blocks[count].header
  BY Zenon DEF import_response
<1> HIDE DEF count
<1> QED
  BY <1>1, <1>2, Zenon DEF Takes, HeadersOf

Extending(local, remote, n, headers) ==
    /\ headers \in Seq(Headers) /\ headers # <<>> /\ Len(headers) = n
    /\ Linked(local, headers)
    /\ headers[n].height <= remote.height
    /\ headers[n].height = remote.height => headers[n] = remote

\* A verified answer is linked to the tip and does not pass the remote head.
LEMMA VerifiedAnswer ==
    ASSUME NEW n \in Nat, NEW items \in [1 .. n -> Wire], n # 0,
           NEW local \in Headers \cup {GenesisHeader}, NEW remote \in Headers,
           remote.height > local.height, verify_response(local, remote, items)
    PROVE  Extending(local, remote, n, HeadersOf(n, items))
<1>0. PICK headers : headers = [i \in 1 .. n |-> items[i].header]
  BY Zenon
<1>1. /\ items \in Seq(Wire) /\ Len(items) = n /\ DOMAIN items = 1 .. n
      /\ \A i \in 1 .. n : items[i].header \in Headers
  BY WireHeader, Zenon
<1>2. headers \in Seq(Headers) /\ Len(headers) = n /\ DOMAIN headers = 1 .. n /\ headers # <<>>
  BY <1>0, <1>1
<1>3. local.height \in Nat /\ remote.height \in Nat
  BY HeaderAssumption
<1>4. /\ \A i \in 1 .. n : /\ items[i].height = local.height + i /\ items[i].height <= remote.height
                           /\ items[i].header.height = items[i].height
                           /\ items[i].header.parent =
                                IF i = 1 THEN local.id ELSE items[i - 1].header.id
      /\ items[n].height = remote.height => items[n].header.id = remote.id
  <2>1. ~(remote.height <= local.height)
    BY <1>3
  <2> QED
    BY <1>1, <2>1, Zenon DEF verify_response
<1>5. Linked(local, headers)
  <2> SUFFICES ASSUME NEW i \in 1 .. n
               PROVE  LET before == IF i = 1 THEN local ELSE headers[i - 1]
                      IN  headers[i].height = before.height + 1 /\ headers[i].parent = before.id
    BY <1>2, Zenon DEF Linked
  <2>1. headers[i] = items[i].header /\ (i # 1 => i - 1 \in 1 .. n /\ headers[i - 1] = items[i - 1].header)
    BY <1>0
  <2>2. /\ headers[i].height = local.height + i
        /\ headers[i].parent = IF i = 1 THEN local.id ELSE items[i - 1].header.id
        /\ i # 1 => headers[i - 1].height = local.height + (i - 1)
    BY <1>4, <2>1, Zenon
  <2>3. CASE i = 1
    BY <1>3, <2>2, <2>3, Zenon
  <2>4. CASE i # 1
    <3>1. headers[i].height = headers[i - 1].height + 1
      <4>1. local.height + i = (local.height + (i - 1)) + 1
        BY <1>3
      <4> QED
        BY <2>2, <2>4, <4>1, Zenon
    <3> QED
      BY <2>1, <2>2, <2>4, <3>1, Zenon
  <2> QED
    BY <2>3, <2>4, Zenon
<1>6. n \in 1 .. n /\ headers[n] = items[n].header
  BY <1>0
<1>7. headers[n].id = remote.id => headers[n] = remote
  BY <1>1, <1>6, HeaderAssumption, Zenon
<1>8. HeadersOf(n, items) = headers
  BY <1>0, Zenon DEF HeadersOf
<1>9. headers[n].height <= remote.height /\ (headers[n].height = remote.height => headers[n] = remote)
  BY <1>4, <1>6, <1>7, Zenon
<1> QED
  BY <1>2, <1>5, <1>8, <1>9, Zenon DEF Extending

LEMMA SyncInvInit == SyncInit => SyncInv
BY DEF SyncInit, SyncInv, SyncPhase, NoSync, BodiesExtendTip

LEMMA StatusKeepsSync ==
    ASSUME SyncInv, NEW remote \in Headers, Status(remote)
    PROVE  SyncInv'
<1>1. chain' = chain /\ Tip' = Tip /\ chain \in Seq(Headers)
  BY Zenon DEF Status, SyncInv, Tip
<1>2. Tip.height \in Nat /\ remote.height \in Nat
  BY <1>1, TipType, HeaderAssumption, Zenon
<1>3. \/ phase' = NoSync
      \/ phase' = [at |-> "headers", remote |-> remote] /\ remote.height > Tip.height
  BY <1>2 DEF Status, request_headers, next_request
<1> QED
  BY <1>1, <1>3 DEF SyncInv, SyncPhase, NoSync, BodiesExtendTip

LEMMA HeadersKeepSync ==
    ASSUME SyncInv, NEW n \in Nat, NEW items \in [1 .. n -> Wire], HeadersResponse(items)
    PROVE  SyncInv'
<1>1. chain' = chain /\ Tip' = Tip /\ chain \in Seq(Headers)
  BY Zenon DEF HeadersResponse, SyncInv, Tip
<1>2. Tip \in Headers \cup {GenesisHeader}
  BY <1>1, TipType, Zenon
<1>3. Len(items) = n /\ DOMAIN items = 1 .. n
  BY WireHeader, Zenon
<1>4. phase.remote \in Headers /\ phase.remote.height > Tip.height
  BY DEF HeadersResponse, SyncInv, SyncPhase, NoSync
<1>5. CASE phase' = NoSync
  BY <1>1, <1>5, Zenon DEF SyncInv, SyncPhase, NoSync, BodiesExtendTip
<1>6. CASE phase' # NoSync
  <2>1. /\ phase' = [at |-> "bodies", remote |-> phase.remote, headers |-> HeadersOf(n, items)]
        /\ verify_response(Tip, phase.remote, items) /\ n # 0
    BY <1>3, <1>6 DEF HeadersResponse, HeadersOf
  <2>2. PICK headers : headers = HeadersOf(n, items)
    BY Zenon
  <2>3. Extending(Tip, phase.remote, n, headers)
    BY <1>2, <1>4, <2>1, <2>2, VerifiedAnswer, Zenon
  <2>4. phase' = [at |-> "bodies", remote |-> phase.remote, headers |-> headers]
    BY <2>1, <2>2, Zenon
  <2>5. /\ phase'.at = "bodies" /\ phase'.remote = phase.remote /\ phase'.headers = headers
        /\ phase' \in SyncPhase
    BY <1>4, <2>3, <2>4, Zenon DEF SyncPhase, Extending
  <2>6. BodiesExtendTip'
    BY <1>1, <2>3, <2>5, Zenon DEF BodiesExtendTip, Linked, Extending
  <2> QED
    BY <1>1, <1>4, <2>3, <2>5, <2>6, Zenon DEF SyncInv, Extending
<1> QED
  BY <1>5, <1>6, Zenon

LEMMA BodiesKeepSync ==
    ASSUME SyncInv, NEW n \in Nat, NEW bodies \in [1 .. n -> Wire], BodiesResponse(bodies)
    PROVE  SyncInv'
<1>1. chain \in Seq(Headers) /\ phase.remote \in Headers
  BY DEF BodiesResponse, SyncInv, SyncPhase, NoSync
<1>2. CASE ~bodies_match(phase.headers, bodies)
  BY <1>1, <1>2 DEF BodiesResponse, SyncInv, SyncPhase, NoSync, BodiesExtendTip
<1>3. CASE bodies_match(phase.headers, bodies)
  <2> DEFINE result == import_response(Tip, phase.remote, bodies)
  <2>1. /\ bodies \in Seq(Wire) /\ Len(bodies) = n /\ DOMAIN bodies = 1 .. n
        /\ \A i \in 1 .. n : bodies[i].header \in Headers
    BY WireHeader, Zenon
  <2>2. PICK count \in 0 .. n : Takes(Tip, bodies, result, count)
    BY <2>1, ImportedPrefix, Zenon
  <2>3. /\ chain' = chain \o result.imported
        /\ phase' = IF result.ok THEN request_headers(result.tip, phase.remote) ELSE NoSync
    BY <1>3, Zenon DEF BodiesResponse
  <2> HIDE DEF result
  <2>4. result.imported \in Seq(Headers) /\ Len(result.imported) = count
    BY <2>1, <2>2 DEF Takes, HeadersOf
  <2>5. chain' \in Seq(Headers)
    BY <1>1, <2>3, <2>4
  <2>6. Tip' = result.tip
    <3>1. PICK cs, imp : cs = chain /\ imp = result.imported
      BY Zenon
    <3>2. /\ imp = <<>> => cs \o imp = cs
          /\ imp # <<>> => cs \o imp # <<>> /\ (cs \o imp)[Len(cs \o imp)] = imp[Len(imp)]
      BY <1>1, <2>4, <3>1, Appended
    <3>3. imp = <<>> <=> count = 0
      BY <2>4, <3>1
    <3>4. count # 0 => imp[Len(imp)] = bodies[count].header
      BY <2>2, <2>4, <3>1 DEF Takes, HeadersOf
    <3> QED
      BY <2>2, <2>3, <3>1, <3>2, <3>3, <3>4, Zenon DEF Tip, Takes
  <2>7. Tip'.height \in Nat /\ phase.remote.height \in Nat
    BY <1>1, <2>5, HeaderAssumption DEF Tip
  <2>8. \/ phase' = NoSync
        \/ /\ phase' = [at |-> "headers", remote |-> phase.remote]
           /\ phase.remote.height > Tip'.height
    BY <2>3, <2>6, <2>7 DEF request_headers, next_request
  <2> QED
    BY <1>1, <2>5, <2>8 DEF SyncInv, SyncPhase, NoSync, BodiesExtendTip
<1> QED
  BY <1>2, <1>3, Zenon

LEMMA SyncInvStep == SyncInv /\ [SyncNext]_sync_vars => SyncInv'
<1> SUFFICES ASSUME SyncInv, [SyncNext]_sync_vars PROVE SyncInv'
  BY Zenon
<1>1. ASSUME NEW items \in Answer PROVE \E n \in Nat : items \in [1 .. n -> Wire]
  <2>1. PICK n \in 0 .. MaxItems : items \in [1 .. n -> Wire]
    BY Zenon DEF Answer
  <2> QED
    BY <2>1
<1>2. CASE UNCHANGED sync_vars
  BY <1>2, Zenon DEF sync_vars, SyncInv, Tip, BodiesExtendTip, Linked
<1>3. CASE \E remote \in Headers : Status(remote)
  BY <1>3, StatusKeepsSync, Zenon
<1>4. ASSUME NEW items \in Answer, HeadersResponse(items) PROVE SyncInv'
  BY <1>1, <1>4, HeadersKeepSync, Zenon
<1>5. ASSUME NEW items \in Answer, BodiesResponse(items) PROVE SyncInv'
  BY <1>1, <1>5, BodiesKeepSync, Zenon
<1> QED
  BY <1>2, <1>3, <1>4, <1>5, Zenon DEF SyncNext

LEMMA SyncInvariant == SyncSpec => []SyncInv
BY SyncInvInit, SyncInvStep, PTL DEF SyncSpec

\* For every tree of headers and every limit on a response: whatever answers arrive, the
\* node asks only for bodies of headers that HeaderSync linked to its tip (verify_response).
THEOREM BodiesAlwaysExtendTip == SyncSpec => []BodiesExtendTip
<1>1. SyncInv => BodiesExtendTip
  BY Zenon DEF SyncInv
<1> QED
  BY <1>1, SyncInvariant, PTL

-----------------------------------------------------------------------------
(* What an honest peer serves. *)

\* The part of PathTo(peer) after height low, as items.
AnswerOf(peer, low, n) == [i \in 1 .. n |-> Item(PathTo(peer)[low + i])]

HeightsAfter(low, n) == [i \in 1 .. n |-> low + i]

\* The range next_request asks for is served in full by a peer that has reached it.
LEMMA RequestServed ==
    ASSUME NEW low \in Nat, NEW top \in Nat, NEW n \in Nat, low + n <= top,
           NEW start, start = low + 1
    PROVE  requested_heights(top, start, n) = HeightsAfter(low, n)
<1>1. Least(n, IF start > top THEN 0 ELSE top + 1 - start) = n
  BY DEF Least
<1>2. \A i \in 1 .. n : start + i - 1 = low + i
  OBVIOUS
<1> QED
  BY <1>1, <1>2, Zenon DEF requested_heights, HeightsAfter

LEMMA RequestSize ==
    ASSUME NEW low \in Nat, NEW high \in Nat, low < high,
           NEW n, n = Least(high - low, MAX_BLOCKS_PER_RESPONSE)
    PROVE  n \in 1 .. MAX_BLOCKS_PER_RESPONSE /\ n \in Nat /\ n <= high - low /\ low + n <= high
BY SyncAssumption DEF Least

LEMMA ServedAnswer ==
    ASSUME NEW local \in Headers \cup {GenesisHeader}, NEW remote \in Headers,
           NEW peer \in Headers, local.height < remote.height, remote.height <= peer.height,
           NEW request, request = next_request(local, remote)
    PROVE  \E n \in 1 .. MAX_BLOCKS_PER_RESPONSE :
               /\ n <= remote.height - local.height
               /\ served(peer, request[1], request[2]) = AnswerOf(peer, local.height, n)
<1>1. PICK low \in Nat, high \in Nat, top \in Nat :
          low = local.height /\ high = remote.height /\ top = peer.height
  BY HeaderAssumption
<1>2. low < high /\ high <= top
  BY <1>1, Zenon
<1>3. PICK n, start : n = Least(high - low, MAX_BLOCKS_PER_RESPONSE) /\ start = low + 1
  BY Zenon
<1>4. n \in 1 .. MAX_BLOCKS_PER_RESPONSE /\ n \in Nat /\ n <= high - low /\ low + n <= top
  BY <1>2, <1>3, RequestSize
<1>5. request[1] = start /\ request[2] = n
  <2>1. request = <<start, n>>
    BY <1>1, <1>2, <1>3 DEF next_request
  <2> QED
    BY <2>1
<1>6. requested_heights(top, start, n) = HeightsAfter(low, n)
  BY <1>3, <1>4, RequestServed
<1>7. served(peer, request[1], request[2]) = AnswerOf(peer, low, n)
  <2>1. PICK heights : heights = HeightsAfter(low, n)
    BY Zenon
  <2>2. DOMAIN heights = 1 .. n /\ \A i \in 1 .. n : heights[i] = low + i
    BY <2>1, Zenon DEF HeightsAfter
  <2>3. served(peer, request[1], request[2]) = [i \in DOMAIN heights |-> Item(PathTo(peer)[heights[i]])]
    BY <1>1, <1>5, <1>6, <2>1, Zenon DEF served
  <2> QED
    BY <2>2, <2>3, Zenon DEF AnswerOf
<1> QED
  BY <1>1, <1>4, <1>7, Zenon

\* An item of an honest answer, all that verify_response and import_response look at.
Intact(local, answer, i) ==
    /\ answer[i].height = local.height + i /\ answer[i].header.height = answer[i].height
    /\ answer[i].decodes /\ answer[i].proof = "empty" /\ answer[i].executes
    /\ answer[i].header.parent = IF i = 1 THEN local.id ELSE answer[i - 1].header.id

LEMMA ItemFields ==
    \A h : /\ Item(h).height = h.height /\ Item(h).header = h
           /\ Item(h).decodes /\ Item(h).proof = "empty" /\ Item(h).executes
BY Zenon DEF Item

LEMMA AnswerIntact ==
    ASSUME NEW local \in Headers \cup {GenesisHeader}, NEW peer \in Headers, NEW n \in Nat,
           local.height + n <= peer.height,
           local = GenesisHeader \/ (local \in Headers /\ PathTo(peer)[local.height] = local),
           NEW answer, answer = AnswerOf(peer, local.height, n)
    PROVE  /\ DOMAIN answer = 1 .. n /\ Len(answer) = n
           /\ \A i \in 1 .. n : Intact(local, answer, i)
<1>1. PICK low \in Nat : low = local.height
  BY HeaderAssumption
<1>2. peer.height \in Nat /\ GenesisHeader.height = 0 /\ \A h \in Headers : h.height \in Nat /\ h.height >= 1
  BY HeaderAssumption
<1>3. DOMAIN answer = 1 .. n /\ Len(answer) = n /\ \A i \in 1 .. n : answer[i] = Item(PathTo(peer)[low + i])
  BY <1>1 DEF AnswerOf
<1>4. ASSUME NEW i \in 1 .. n PROVE Intact(local, answer, i)
  <2>1. low + i \in 1 .. peer.height /\ (low + i = 1 <=> (low = 0 /\ i = 1))
    BY <1>1, <1>2
  <2>2. PICK h : h = PathTo(peer)[low + i]
    BY Zenon
  <2>3. /\ h.height = low + i
        /\ h.parent = IF low + i = 1 THEN GenesisHeader.id ELSE PathTo(peer)[(low + i) - 1].id
    BY <2>1, <2>2, PathFacts, Zenon
  <2>4. /\ answer[i].height = h.height /\ answer[i].header = h
        /\ answer[i].decodes /\ answer[i].proof = "empty" /\ answer[i].executes
    BY <1>3, <2>2, ItemFields, Zenon
  <2>5. h.parent = IF i = 1 THEN local.id ELSE answer[i - 1].header.id
    <3>1. CASE i # 1
      <4>1. i - 1 \in 1 .. n /\ (low + i) - 1 = low + (i - 1) /\ low + i # 1
        BY <2>1, <3>1
      <4>2. answer[i - 1].header = PathTo(peer)[low + (i - 1)]
        BY <1>3, <4>1, ItemFields, Zenon
      <4> QED
        BY <2>3, <3>1, <4>1, <4>2, Zenon
    <3>2. CASE i = 1 /\ low = 0
      <4>0. local \in Headers => low >= 1
        BY <1>1, <1>2, Zenon
      <4>1. local = GenesisHeader
        BY <3>2, <4>0
      <4> QED
        BY <2>1, <2>3, <3>2, <4>1, Zenon
    <3>3. CASE i = 1 /\ low # 0
      <4>1. PathTo(peer)[low] = local /\ (low + i) - 1 = low
        BY <1>1, <1>2, <3>3
      <4> QED
        BY <2>1, <2>3, <3>3, <4>1, Zenon
    <3> QED
      BY <3>1, <3>2, <3>3, Zenon
  <2> QED
    BY <1>1, <2>3, <2>4, <2>5, Zenon DEF Intact
<1> QED
  BY <1>3, <1>4, Zenon

\* An answer of n intact headers above local, no higher than remote.
IntactAnswer(local, remote, n, answer) ==
    /\ local.height \in Nat /\ remote.height \in Nat /\ local.height < remote.height
    /\ n \in 1 .. MAX_BLOCKS_PER_RESPONSE /\ n <= remote.height - local.height
    /\ DOMAIN answer = 1 .. n /\ Len(answer) = n
    /\ \A i \in 1 .. n : Intact(local, answer, i)
    /\ local.height + n = remote.height => answer[n].header = remote

LEMMA IntactAccepted ==
    ASSUME NEW local, NEW remote, NEW n, NEW answer, IntactAnswer(local, remote, n, answer)
    PROVE  /\ verify_response(local, remote, answer)
           /\ import_response(local, remote, answer).ok
           /\ import_response(local, remote, answer).tip = answer[n].header
           /\ answer[n].header.height = local.height + n
<1> USE DEF IntactAnswer
<1>1. PICK low \in Nat, high \in Nat : low = local.height /\ high = remote.height
  BY Zenon
<1>2. /\ n \in Nat /\ n # 0 /\ n \in 1 .. n /\ ~(high <= low) /\ high > low
      /\ n <= MAX_HEADERS_PER_RESPONSE /\ n <= MAX_BLOCKS_PER_RESPONSE
      /\ \A i \in 1 .. n : low + i <= high
  BY <1>1, SyncAssumption
<1>3. answer # <<>>
  BY <1>2
<1>4. answer[n].height = low + n /\ answer[n].header.height = low + n
  BY <1>1, <1>2, Zenon DEF Intact
<1>5. verify_response(local, remote, answer)
  <2>1. \A i \in DOMAIN answer :
            /\ answer[i].height = local.height + i /\ answer[i].height <= remote.height
            /\ answer[i].decodes /\ answer[i].header.height = answer[i].height
            /\ answer[i].header.parent = IF i = 1 THEN local.id ELSE answer[i - 1].header.id
            /\ answer[i].proof = "empty"
    <3> SUFFICES ASSUME NEW i \in 1 .. n
                 PROVE  Intact(local, answer, i) /\ answer[i].height <= remote.height
      BY Zenon DEF Intact
    <3>1. Intact(local, answer, i) /\ low + i <= high
      BY <1>2, Zenon
    <3> QED
      BY <1>1, <3>1, Zenon DEF Intact
  <2>2. answer[Len(answer)].height = remote.height => answer[Len(answer)].header.id = remote.id
    BY <1>1, <1>4, Zenon
  <2> QED
    BY <1>1, <1>2, <1>3, <2>1, <2>2, Zenon DEF verify_response
<1>6. \A i \in 1 .. n : importable(local, remote, answer, i)
  BY <1>1, <1>2, ZenonT(40) DEF importable, Intact
<1>7. {i \in DOMAIN answer : ~importable(local, remote, answer, i)} = {}
  BY <1>6, Zenon
<1>8. /\ import_response(local, remote, answer).tip = answer[n].header
      /\ import_response(local, remote, answer).ok
  BY <1>1, <1>2, <1>3, <1>4, <1>7, Zenon DEF import_response
<1> QED
  BY <1>1, <1>4, <1>5, <1>8, Zenon

LEMMA HeaderFields == \A h : Header(h).height = h /\ Header(h).id = h /\ Header(h).parent = h - 1
BY Zenon DEF Header

\* What a peer on the chain of heights serves after h.
ServedAfter(h, n, items) ==
    LET heights == HeightsAfter(h, n)
    IN  items = [i \in DOMAIN heights |-> Item(Header(heights[i]))]

IntactAfter(h, n, items) ==
    /\ DOMAIN items = 1 .. n /\ Len(items) = n
    /\ \A i \in 1 .. n : Intact(Header(h), items, i) /\ items[i].header = Header(h + i)

LEMMA ServedIntact ==
    ASSUME NEW h \in Nat, NEW n \in Nat, NEW items, ServedAfter(h, n, items)
    PROVE  IntactAfter(h, n, items)
<1>0. PICK heights : heights = HeightsAfter(h, n)
                     /\ items = [i \in DOMAIN heights |-> Item(Header(heights[i]))]
  BY Zenon DEF ServedAfter
<1>1. DOMAIN heights = 1 .. n /\ \A i \in 1 .. n : heights[i] = h + i
  BY <1>0, Zenon DEF HeightsAfter
<1>2. DOMAIN items = 1 .. n /\ \A i \in 1 .. n : items[i] = Item(Header(h + i))
  BY <1>0, <1>1, Zenon
<1>3. Len(items) = n
  BY <1>2
<1>4. ASSUME NEW i \in 1 .. n PROVE Intact(Header(h), items, i) /\ items[i].header = Header(h + i)
  <2>1. PICK g : g = Header(h + i)
    BY Zenon
  <2>2. g.height = h + i /\ g.parent = (h + i) - 1 /\ Header(h).height = h /\ Header(h).id = h
    BY <2>1, HeaderFields, Zenon
  <2>3. /\ items[i].height = g.height /\ items[i].header = g
        /\ items[i].decodes /\ items[i].proof = "empty" /\ items[i].executes
    BY <1>2, <2>1, ItemFields, Zenon
  <2>4. g.parent = IF i = 1 THEN h ELSE items[i - 1].header.id
    <3>1. CASE i = 1
      <4>1. (h + i) - 1 = h
        BY <3>1
      <4> QED
        BY <2>2, <3>1, <4>1, Zenon
    <3>2. CASE i # 1
      <4>1. i - 1 \in 1 .. n /\ h + (i - 1) = (h + i) - 1
        BY <3>2
      <4>2. items[i - 1].header = Header((h + i) - 1)
        BY <1>2, <4>1, ItemFields, Zenon
      <4>3. items[i - 1].header.id = (h + i) - 1
        BY <4>2, HeaderFields, Zenon
      <4> QED
        BY <2>2, <3>2, <4>3, Zenon
    <3> QED
      BY <3>1, <3>2, Zenon
  <2> QED
    BY <2>1, <2>2, <2>3, <2>4, Zenon DEF Intact
<1> QED
  BY <1>2, <1>3, <1>4, Zenon DEF IntactAfter

LEMMA AnswerAccepted ==
    ASSUME NEW h \in Nat, NEW k \in Nat, h < k, NEW m \in 1 .. MAX_BLOCKS_PER_RESPONSE, h + m <= k,
           NEW heights, heights = HeightsAfter(h, m),
           NEW items, items = [i \in DOMAIN heights |-> Item(Header(heights[i]))]
    PROVE  /\ verify_response(Header(h), Header(k), items)
           /\ import_response(Header(h), Header(k), items).ok
           /\ import_response(Header(h), Header(k), items).tip.height = h + m
<1>1. PICK local, remote : local = Header(h) /\ remote = Header(k)
  BY Zenon
<1>2. local.height = h /\ remote.height = k
  BY <1>1, HeaderFields, Zenon
<1>3. m \in Nat /\ m \in 1 .. m /\ m <= k - h
  BY SyncAssumption
<1>4. /\ DOMAIN items = 1 .. m /\ Len(items) = m
      /\ \A i \in 1 .. m : Intact(local, items, i) /\ items[i].header = Header(h + i)
  <2>1. ServedAfter(h, m, items)
    BY Zenon DEF ServedAfter
  <2>2. IntactAfter(h, m, items)
    BY <1>3, <2>1, ServedIntact, Zenon
  <2> QED
    BY <1>1, <2>2, Zenon DEF IntactAfter
<1>5. local.height + m = remote.height => items[m].header = remote
  BY <1>1, <1>2, <1>3, <1>4, Zenon
<1>6. /\ verify_response(local, remote, items)
      /\ import_response(local, remote, items).ok
      /\ import_response(local, remote, items).tip = items[m].header
      /\ items[m].header.height = local.height + m
  <2>1. /\ local.height \in Nat /\ remote.height \in Nat /\ local.height < remote.height
        /\ m <= remote.height - local.height
    BY <1>2, <1>3, Zenon
  <2>2. \A i \in 1 .. m : Intact(local, items, i)
    BY <1>4, Zenon
  <2>3. IntactAnswer(local, remote, m, items)
    BY <1>4, <1>5, <2>1, <2>2, Zenon DEF IntactAnswer
  <2> QED
    BY <2>3, IntactAccepted
<1> QED
  BY <1>1, <1>2, <1>6, Zenon

\* For every tree of headers, every pair of page sizes and every history of damaged answers:
\* what serve_headers and serve_bodies return for next_request's range passes
\* HeaderSync.verify_response and BlockSync.import_response of a node on the same chain.
THEOREM HonestPeerNeverRefused == SyncSpec => []HonestAnswerAccepted
<1>1. SyncInv => HonestAnswerAccepted
  <2> SUFFICES ASSUME SyncInv, NEW peer \in Headers, phase.at # "idle",
                      phase.remote.height <= peer.height,
                      PathTo(peer)[phase.remote.height] = phase.remote,
                      chain = <<>> \/ (Tip.height <= peer.height /\ PathTo(peer)[Tip.height] = Tip)
               PROVE  LET request == next_request(Tip, phase.remote)
                          answer  == served(peer, request[1], request[2])
                      IN  /\ verify_response(Tip, phase.remote, answer)
                          /\ import_response(Tip, phase.remote, answer).ok
                          /\ import_response(Tip, phase.remote, answer).tip.height > Tip.height
    BY Zenon DEF HonestAnswerAccepted
  <2>1. PICK local, remote : local = Tip /\ remote = phase.remote
    BY Zenon
  <2>2. PICK request : request = next_request(local, remote)
    BY Zenon
  <2>3. PICK answer : answer = served(peer, request[1], request[2])
    BY Zenon
  <2>4. /\ local \in Headers \cup {GenesisHeader} /\ local.height \in Nat
        /\ local = GenesisHeader \/ (local \in Headers /\ PathTo(peer)[local.height] = local)
    BY <2>1, TipType, Zenon DEF SyncInv, Tip
  <2>5. remote \in Headers /\ local.height < remote.height /\ remote.height \in Nat
    BY <2>1, <2>4, HeaderAssumption DEF SyncInv, SyncPhase, NoSync
  <2>6. PICK n \in 1 .. MAX_BLOCKS_PER_RESPONSE :
            n <= remote.height - local.height /\ answer = AnswerOf(peer, local.height, n)
    BY <2>1, <2>2, <2>3, <2>4, <2>5, ServedAnswer
  <2>7. n \in Nat /\ local.height + n <= peer.height /\ n \in 1 .. n
    BY <2>1, <2>4, <2>5, <2>6, SyncAssumption, HeaderAssumption
  <2>8. DOMAIN answer = 1 .. n /\ Len(answer) = n /\ \A i \in 1 .. n : Intact(local, answer, i)
    BY <2>4, <2>6, <2>7, AnswerIntact
  <2>9. local.height + n = remote.height => answer[n].header = remote
    <3>1. answer[n].header = PathTo(peer)[local.height + n]
      BY <2>6, <2>7, Zenon DEF AnswerOf, Item
    <3> QED
      BY <2>1, <3>1, Zenon
  <2>10. /\ verify_response(local, remote, answer)
         /\ import_response(local, remote, answer).ok
         /\ import_response(local, remote, answer).tip.height = local.height + n
    <3>1. IntactAnswer(local, remote, n, answer)
      BY <2>4, <2>5, <2>6, <2>8, <2>9, Zenon DEF IntactAnswer
    <3> QED
      BY <3>1, IntactAccepted
  <2>11. local.height + n > local.height
    BY <2>4, <2>7
  <2> QED
    BY <2>1, <2>2, <2>3, <2>10, <2>11, Zenon
<1> QED
  BY <1>1, SyncInvariant, PTL

-----------------------------------------------------------------------------
(* The sync loop: every pending action belongs to an authenticated peer, one to a peer. *)

LinkInv ==
    /\ authenticated \subseteq connected /\ awaited \subseteq connected /\ offered \subseteq connected
    /\ connected \subseteq Peer /\ dialing \subseteq Peer
    /\ \A a \in actions : a.peer \in authenticated
    /\ \A a, b \in actions : a.peer = b.peer => a = b

\* A handler leaves rest, or rest and one action for p.
AtMostOneMore(rest, p) ==
    actions' = rest \/ \E x : actions' = rest \cup {x} /\ x.peer = p

LEMMA SendsOne ==
    ASSUME NEW p, NEW kind, NEW remote, NEW detail, NEW rest, NEW s,
           send_request(p, kind, remote, detail, rest, s)
    PROVE  AtMostOneMore(rest, p) /\ (actions' = rest \/ p \in authenticated')
<1> DEFINE x == [id |-> FreeId(rest), peer |-> p, kind |-> kind, remote |-> remote, detail |-> detail]
<1>1. x.peer = p
  BY Zenon
<1>2. actions' = rest \/ (actions' = rest \cup {x} /\ p \in authenticated')
  BY Zenon DEF send_request, fails
<1> HIDE DEF x
<1> QED
  BY <1>1, <1>2, Zenon DEF AtMostOneMore

LEMMA SyncPathSendsOne ==
    ASSUME NEW p, NEW remote, NEW h, NEW rest, NEW s, request_sync_path(p, remote, h, rest, s)
    PROVE  AtMostOneMore(rest, p)
<1>1. actions' = rest => AtMostOneMore(rest, p)
  BY Zenon DEF AtMostOneMore
<1> QED
  BY <1>1, SendsOne, Zenon DEF request_sync_path, done

LEMMA NextChunkSendsOne ==
    ASSUME NEW p, NEW d, NEW rest, NEW s, request_next_chunk(p, d, rest, s)
    PROVE  AtMostOneMore(rest, p)
<1>1. actions' = rest => AtMostOneMore(rest, p)
  BY Zenon DEF AtMostOneMore
<1> QED
  BY <1>1, SendsOne, Zenon DEF request_next_chunk, done

LEMMA RespondSendsOne ==
    ASSUME NEW a \in actions, Respond(a)
    PROVE  AtMostOneMore(actions \ {a}, a.peer)
<1>1. PICK rest, p, s : rest = actions \ {a} /\ p = a.peer /\ s = [score EXCEPT ![a.peer] = reward(@)]
  BY Zenon
<1>2. CASE request_sync_path(p, peer_status(p), node_height, rest, s)
  BY <1>1, <1>2, SyncPathSendsOne, Zenon
<1>3. CASE rejected(a, rest)
  BY <1>1, <1>3, Zenon DEF rejected, done, AtMostOneMore
<1>4. CASE begin_snapshot_download(p, a.remote, rest, s)
  BY <1>1, <1>4, NextChunkSendsOne, Zenon DEF begin_snapshot_download
<1>5. CASE accept_snapshot_chunk(p, a.detail[1], rest, s)
  <2>1. ASSUME NEW error, fails(error, rest) PROVE AtMostOneMore(rest, p)
    BY <1>1, <2>1, Zenon DEF fails, AtMostOneMore
  <2>2. ASSUME NEW d, request_next_chunk(p, d, rest, s) PROVE AtMostOneMore(rest, p)
    BY <2>2, NextChunkSendsOne, Zenon
  <2>3. ASSUME NEW r, NEW h, request_sync_path(p, r, h, rest, s) PROVE AtMostOneMore(rest, p)
    BY <2>3, SyncPathSendsOne, Zenon
  <2> QED
    BY <1>1, <1>5, <2>1, <2>2, <2>3, Zenon DEF accept_snapshot_chunk
<1>6. CASE accept_headers(p, a, rest, s)
  <2>1. fails("Refused", rest) => AtMostOneMore(rest, p)
    BY Zenon DEF fails, AtMostOneMore
  <2> QED
    BY <1>1, <1>6, <2>1, SendsOne, Zenon DEF accept_headers
<1>7. CASE accept_bodies(p, a, rest, s)
  <2>1. fails("Refused", rest) => AtMostOneMore(rest, p)
    BY Zenon DEF fails, AtMostOneMore
  <2> QED
    BY <1>1, <1>7, <2>1, SyncPathSendsOne, Zenon DEF accept_bodies
<1> QED
  BY <1>1, <1>2, <1>3, <1>4, <1>5, <1>6, <1>7, Zenon DEF Respond

LEMMA LinkInit == NodeInit => LinkInv
BY Zenon DEF NodeInit, LinkInv

LEMMA ClosedKeepsLink ==
    ASSUME LinkInv, NEW p \in Peer, Closed(p), dialing' \subseteq dialing
    PROVE  LinkInv'
BY Zenon DEF LinkInv, Closed, Pending

LEMMA SendKeepsLink ==
    ASSUME LinkInv, NEW p, p \in authenticated', NEW rest \in SUBSET actions,
           \A a \in rest : a.peer # p, AtMostOneMore(rest, p),
           authenticated \subseteq authenticated', authenticated' \subseteq connected,
           connected' = connected, awaited' \subseteq awaited, offered' \subseteq offered,
           dialing' \subseteq Peer
    PROVE  LinkInv'
BY Zenon DEF LinkInv, AtMostOneMore

LEMMA EstablishedKeepsLink ==
    ASSUME LinkInv, NEW p \in Peer, Established(p), dialing' \subseteq dialing
    PROVE  LinkInv'
<1>1. CASE Closed(p)
  BY <1>1, ClosedKeepsLink, Zenon
<1>2. CASE ~Closed(p)
  <2>1. /\ connected' = connected \cup {p} /\ offered' = offered \cup {p}
        /\ awaited' = awaited \cup {p} \/ awaited' = awaited
        /\ actions' = actions /\ authenticated' = authenticated
    BY <1>2, Zenon DEF Established
  <2> QED
    BY <2>1, Zenon DEF LinkInv
<1> QED
  BY <1>1, <1>2, Zenon

LEMMA AuthenticateKeepsLink ==
    ASSUME LinkInv, NEW p \in connected, NEW s, authenticate(p, s), connected' = connected,
           dialing' = dialing, awaited' \subseteq awaited, offered' \subseteq offered
    PROVE  LinkInv'
<1>1. authenticated' = authenticated \cup {p} /\ authenticated' \subseteq connected
  BY Zenon DEF authenticate, LinkInv
<1>2. CASE p \in authenticated
  <2>1. actions' = actions
    BY <1>2, Zenon DEF authenticate
  <2> QED
    BY <1>1, <2>1, Zenon DEF LinkInv
<1>3. CASE p \notin authenticated
  <2>1. AtMostOneMore(actions, p) /\ \A a \in actions : a.peer # p
    BY <1>3, SendsOne, Zenon DEF authenticate, LinkInv
  <2> QED
    BY <1>1, <2>1, SendKeepsLink, Zenon DEF LinkInv
<1> QED
  BY <1>2, <1>3, Zenon

LEMMA LinkStep == LinkInv /\ [NodeNext]_node_vars => LinkInv'
<1> SUFFICES ASSUME LinkInv, [NodeNext]_node_vars PROVE LinkInv'
  BY Zenon
<1>1. ASSUME UNCHANGED link, actions' \subseteq actions PROVE LinkInv'
  BY <1>1, Zenon DEF link, LinkInv
<1>2. CASE Tick
  <2>1. /\ authenticated' = authenticated /\ connected' = connected /\ awaited' = awaited
        /\ offered' = offered /\ dialing' = dialing \cup (Peer \ connected)
    BY <1>2, Zenon DEF Tick
  <2>2. CASE actions' = actions
    BY <2>1, <2>2, Zenon DEF LinkInv
  <2>3. CASE actions' # actions
    <3>1. PICK p \in authenticated :
             Idle /\ send_request(p, "Status", NoRemote, <<>>, actions, score)
      BY <1>2, <2>3, Zenon DEF Tick
    <3>2. actions = {} /\ AtMostOneMore(actions, p)
      BY <3>1, SendsOne, Zenon DEF Idle
    <3> QED
      BY <2>1, <3>1, <3>2, SendKeepsLink, Zenon DEF LinkInv
  <2> QED
    BY <2>2, <2>3, Zenon
<1>3. ASSUME NEW p \in Peer, Dialed(p) \/ Accept(p) PROVE LinkInv'
  BY <1>3, EstablishedKeepsLink, Zenon DEF Dialed, Accept
<1>4. ASSUME NEW p \in Peer, Greeted(p) PROVE LinkInv'
  <2>1. p \in connected /\ offered' \subseteq offered /\ UNCHANGED <<connected, dialing, awaited>>
    BY <1>4, Zenon DEF Greeted, LinkInv
  <2>2. CASE authenticate(p, score')
    BY <2>1, <2>2, AuthenticateKeepsLink, Zenon
  <2>3. CASE UNCHANGED <<authenticated, actions, stopped>>
    BY <2>1, <2>3, Zenon DEF LinkInv
  <2> QED
    BY <1>4, <2>2, <2>3, Zenon DEF Greeted
<1>5. ASSUME NEW p \in Peer, Welcomed(p) PROVE LinkInv'
  <2>1. /\ p \in connected /\ awaited' \subseteq awaited /\ UNCHANGED <<connected, dialing, offered>>
        /\ authenticate(p, score')
    BY <1>5, Zenon DEF Welcomed, LinkInv
  <2> QED
    BY <2>1, AuthenticateKeepsLink, Zenon
<1>6. ASSUME NEW p \in Peer, Serve(p) \/ ServeFails(p) PROVE LinkInv'
  <2>1. /\ p \in connected /\ UNCHANGED <<actions, connected, dialing, awaited, offered>>
        /\ authenticated' = authenticated \/ authenticated' = authenticated \cup {p}
    BY <1>6, Zenon DEF Serve, ServeFails
  <2> QED
    BY <2>1, Zenon DEF LinkInv
<1>7. ASSUME NEW p \in Peer, Gossip(p) PROVE LinkInv'
  <2>1. AtMostOneMore(actions, p) /\ actions = {} /\ p \in authenticated
    BY <1>7, SendsOne, Zenon DEF Gossip, Idle
  <2>2. /\ authenticated' = authenticated /\ connected' = connected /\ dialing' = dialing
        /\ awaited' = awaited /\ offered' = offered
    BY <1>7, Zenon DEF Gossip, link
  <2> QED
    BY <2>1, <2>2, SendKeepsLink, Zenon DEF LinkInv
<1>8. ASSUME NEW p \in Peer, DialFails(p) \/ HandshakeFails(p) \/ HandshakeLost(p) PROVE LinkInv'
  <2>1. /\ UNCHANGED <<actions, connected, authenticated>>
        /\ dialing' \subseteq dialing /\ awaited' \subseteq awaited /\ offered' \subseteq offered
    BY <1>8, Zenon DEF DialFails, HandshakeFails, HandshakeLost, FailedOther
  <2> QED
    BY <2>1, Zenon DEF LinkInv
<1>9. ASSUME NEW p \in Peer, Disconnect(p) \/ IdleClose(p) PROVE LinkInv'
  BY <1>9, ClosedKeepsLink, Zenon DEF Disconnect, IdleClose
<1>10. ASSUME NEW p \in Peer, Lapse(p) \/ PeerAdvances(p) PROVE LinkInv'
  BY <1>1, <1>10, Zenon DEF Lapse, PeerAdvances
<1>11. ASSUME NEW a \in actions, Respond(a) PROVE LinkInv'
  <2>1. AtMostOneMore(actions \ {a}, a.peer)
    BY <1>11, RespondSendsOne, Zenon
  <2>2. /\ authenticated' = authenticated /\ connected' = connected /\ dialing' = dialing
        /\ awaited' = awaited /\ offered' = offered
    BY <1>11, Zenon DEF Respond, link
  <2>3. a.peer \in authenticated /\ \A b \in actions \ {a} : b.peer # a.peer
    BY Zenon DEF LinkInv
  <2> QED
    BY <2>1, <2>2, <2>3, SendKeepsLink, Zenon DEF LinkInv
<1>12. ASSUME NEW a \in actions, Timeout(a) \/ Refuse(a) PROVE LinkInv'
  BY <1>1, <1>12, Zenon DEF Timeout, Refuse, rejected, done
<1>13. CASE UNCHANGED node_vars
  BY <1>1, <1>13, Zenon DEF node_vars
<1> QED
  BY <1>2, <1>3, <1>4, <1>5, <1>6, <1>7, <1>8, <1>9, <1>10, <1>11, <1>12, <1>13, Zenon DEF NodeNext

LEMMA LinkInvariant == NodeSpec => []LinkInv
BY LinkInit, LinkStep, PTL DEF NodeSpec

\* However many peers connect, time out, are redialled or advance: run_dev_node never has
\* two requests pending at one peer, and none at a peer that is not authenticated.
THEOREM OneRequestPerPeer ==
    NodeSpec => [](/\ \A a \in actions : a.peer \in authenticated
                   /\ \A a, b \in actions : a.peer = b.peer => a = b)
<1>1. LinkInv => /\ \A a \in actions : a.peer \in authenticated
                 /\ \A a, b \in actions : a.peer = b.peer => a = b
  BY Zenon DEF LinkInv
<1> QED
  BY <1>1, LinkInvariant, PTL

-----------------------------------------------------------------------------
(* Snapshot downloads: the invariant of one peer's sync path. *)

\* A download whose next chunk is i: the chunks before it are staged, in order.
DownloadAt(remote, i) ==
    [remote |-> remote, staged |-> 1 .. i - 1, remaining |-> [j \in 1 .. ChunkCount - i |-> i + j]]

\* What the pending request x says about its peer's download d.
Serving(x, d) ==
    \/ x.kind \notin {"Manifest", "Chunk"} /\ d = NoDownload
    \/ x.kind = "Manifest" /\ x.remote.checkpoint_height > 0 /\ d = NoDownload
    \/ /\ x.kind = "Chunk" /\ x.remote.checkpoint_height > 0
       /\ \E i \in Chunks : /\ x.detail = <<i>>
                            /\ d = DownloadAt(x.remote, i) \/ (d = NoDownload /\ x.peer \in crossed)

\* The sync path of p: no request, and then no download unless p refused a chunk or the node
\* has ended; or one request and what it says about the download.
Path(p) ==
    \/ /\ \A a \in actions : a.peer # p
       /\ downloads[p] = NoDownload \/ ~Running \/ p \in refused
    \/ \E x \in actions : /\ x.peer = p /\ Serving(x, downloads[p])
                          /\ \A a \in actions : a.peer = p => a = x

PathInv ==
    /\ downloads = [p \in Peer |-> downloads[p]]
    /\ \A p \in Peer : Path(p)
    /\ \A p \in Peer : downloads[p] # NoDownload => p \in authenticated

\* The download after k chunks, before the next one is asked for.
Staging(remote, k) ==
    [remote |-> remote, staged |-> 1 .. k, remaining |-> [j \in 1 .. ChunkCount - k |-> k + j]]

\* The next chunk of d is i.
NextIs(d, remote, i) ==
    /\ d.remaining # <<>> /\ d.remote = remote /\ Head(d.remaining) = i
    /\ [d EXCEPT !.remaining = Tail(@)] = DownloadAt(remote, i)

LEMMA DownloadFields ==
    ASSUME NEW r, NEW st, NEW l, NEW d, d = [remote |-> r, staged |-> st, remaining |-> l], NEW v
    PROVE  /\ d.remote = r /\ d.staged = st /\ d.remaining = l
           /\ [d EXCEPT !.remaining = v] = [remote |-> r, staged |-> st, remaining |-> v]
           /\ [d EXCEPT !.staged = v] = [remote |-> r, staged |-> v, remaining |-> l]
OBVIOUS

LEMMA NextOfStaging ==
    ASSUME NEW remote, NEW k \in 0 .. ChunkCount - 1
    PROVE  NextIs(Staging(remote, k), remote, k + 1)
<1>0. PICK d : d = Staging(remote, k)
  BY Zenon
<1>1. PICK left : left = [j \in 1 .. ChunkCount - k |-> k + j]
  BY Zenon
<1>2. ChunkCount \in Nat /\ ChunkCount - k \in Nat /\ ChunkCount - k >= 1
  BY NodeAssumption
<1>3. left \in Seq(Nat) /\ Len(left) = ChunkCount - k /\ left # <<>> /\ left[1] = k + 1
  BY <1>1, <1>2
<1>4. Tail(left) = [j \in 1 .. ChunkCount - (k + 1) |-> (k + 1) + j]
  <2>1. Len(Tail(left)) = ChunkCount - (k + 1) /\ Tail(left) \in Seq(Nat)
    BY <1>2, <1>3
  <2>2. \A j \in 1 .. ChunkCount - (k + 1) : Tail(left)[j] = (k + 1) + j
    BY <1>1, <1>2, <1>3
  <2>3. PICK t, m : t = Tail(left) /\ m = ChunkCount - (k + 1)
    BY Zenon
  <2>4. t \in Seq(Nat) /\ Len(t) = m
    BY <2>1, <2>3, Zenon
  <2>5. t = [j \in 1 .. m |-> t[j]]
    BY <2>4
  <2>6. \A j \in 1 .. m : t[j] = (k + 1) + j
    BY <2>2, <2>3, Zenon
  <2>7. t = [j \in 1 .. m |-> (k + 1) + j]
    BY <2>5, <2>6, Zenon
  <2> QED
    BY <2>3, <2>7, Zenon
<1>5. (k + 1) - 1 = k /\ Head(left) = k + 1
  BY <1>3
<1>6. d = [remote |-> remote, staged |-> 1 .. k, remaining |-> left]
  BY <1>0, <1>1, Zenon DEF Staging
<1>7. DownloadAt(remote, k + 1) = [remote |-> remote, staged |-> 1 .. k, remaining |-> Tail(left)]
  BY <1>4, <1>5, Zenon DEF DownloadAt
<1>8. PICK st, t : st = 1 .. k /\ t = Tail(left)
  BY Zenon
<1>9. d.remaining = left /\ d.remote = remote /\ [d EXCEPT !.remaining = t] = DownloadAt(remote, k + 1)
  <2>1. d = [remote |-> remote, staged |-> st, remaining |-> left]
    BY <1>6, <1>8, Zenon
  <2>2. /\ d.remaining = left /\ d.remote = remote
        /\ [d EXCEPT !.remaining = t] = [remote |-> remote, staged |-> st, remaining |-> t]
    BY <2>1, DownloadFields
  <2> QED
    BY <1>7, <1>8, <2>2, Zenon
<1> QED
  BY <1>0, <1>3, <1>5, <1>8, <1>9, Zenon DEF NextIs

LEMMA NotNoDownload ==
    ASSUME NEW remote, NEW i, remote.checkpoint_height # 0
    PROVE  DownloadAt(remote, i) # NoDownload
<1>1. NoDownload.remote.checkpoint_height = 0 /\ DownloadAt(remote, i).remote = remote
  BY Zenon DEF NoDownload, NoRemote, DownloadAt
<1> QED
  BY <1>1, Zenon

\* No step forgets the histories or starts the node again.
Later == crossed \subseteq crossed' /\ refused \subseteq refused' /\ (Running' => Running)

LEMMA LaterStep == [NodeNext]_node_vars => Later
<1> SUFFICES ASSUME [NodeNext]_node_vars PROVE Later
  BY Zenon
<1>1. ASSUME UNCHANGED <<stopped, history>> PROVE Later
  BY <1>1, Zenon DEF Later, Running, history
<1>2. ASSUME Running, UNCHANGED history PROVE Later
  BY <1>2, Zenon DEF Later, history
<1>3. CASE Tick
  BY <1>2, <1>3, Zenon DEF Tick
<1>4. ASSUME NEW p \in Peer, Dialed(p) \/ Accept(p) PROVE Later
  BY <1>2, <1>4, Zenon DEF Dialed, Accept, Established, Closed
<1>5. ASSUME NEW p \in Peer, Greeted(p) \/ Welcomed(p) \/ Serve(p) \/ Gossip(p) PROVE Later
  BY <1>2, <1>5, Zenon DEF Greeted, Welcomed, Serve, Gossip
<1>6. ASSUME NEW p \in Peer, DialFails(p) \/ HandshakeFails(p) PROVE Later
  BY <1>6, Zenon DEF DialFails, HandshakeFails, Fault, FailedOther, Later
<1>7. ASSUME NEW p \in Peer, HandshakeLost(p) \/ Lapse(p) \/ ServeFails(p) PROVE Later
  BY <1>2, <1>7, Zenon DEF HandshakeLost, Lapse, ServeFails, Fault
<1>8. ASSUME NEW p \in Peer, Disconnect(p) \/ IdleClose(p) PROVE Later
  BY <1>2, <1>8, Zenon DEF Disconnect, IdleClose, Closed, Fault
<1>9. ASSUME NEW p \in Peer, PeerAdvances(p) PROVE Later
  BY <1>1, <1>9, Zenon DEF PeerAdvances
<1>10. ASSUME NEW a \in actions, Respond(a) PROVE Later
  BY <1>10, Zenon DEF Respond, rejected, Later
<1>11. ASSUME NEW a \in actions, Timeout(a) PROVE Later
  BY <1>2, <1>11, Zenon DEF Timeout, Fault
<1>12. ASSUME NEW a \in actions, Refuse(a) PROVE Later
  BY <1>12, Zenon DEF Refuse, Fault, rejected, Later
<1>13. CASE UNCHANGED node_vars
  BY <1>1, <1>13, Zenon DEF node_vars
<1> QED
  BY <1>3, <1>4, <1>5, <1>6, <1>7, <1>8, <1>9, <1>10, <1>11, <1>12, <1>13, Zenon DEF NodeNext

\* A request is sent, or the node has ended.
LEMMA Sent ==
    ASSUME NEW p, NEW kind, NEW remote, NEW detail, NEW rest, NEW s, Running,
           send_request(p, kind, remote, detail, rest, s)
    PROVE  \/ actions' = rest /\ ~Running'
           \/ \E x : /\ actions' = rest \cup {x} /\ x.peer = p /\ x.kind = kind
                     /\ x.remote = remote /\ x.detail = detail
<1> DEFINE x == [id |-> FreeId(rest), peer |-> p, kind |-> kind, remote |-> remote, detail |-> detail]
<1>1. x.peer = p /\ x.kind = kind /\ x.remote = remote /\ x.detail = detail
  BY Zenon
<1>2. (actions' = rest /\ ~Running') \/ actions' = rest \cup {x}
  BY Zenon DEF send_request, fails, Running
<1> HIDE DEF x
<1> QED
  BY <1>1, <1>2, Zenon

LEMMA PathStarts ==
    ASSUME NEW p, NEW rest, \A a \in rest : a.peer # p, NEW x, actions' = rest \cup {x}, x.peer = p,
           Serving(x, downloads[p])'
    PROVE  Path(p)'
BY Zenon DEF Path

LEMMA PathEnds ==
    ASSUME NEW p, \A a \in actions' : a.peer # p,
           downloads'[p] = NoDownload \/ ~Running' \/ p \in refused'
    PROVE  Path(p)'
BY Zenon DEF Path, NoDownload, NoRemote, Header

LEMMA ServingLater ==
    ASSUME Later, NEW x, NEW d, Serving(x, d)
    PROVE  Serving(x, d)'
BY Zenon DEF Serving, Later, NoDownload, NoRemote, Header, DownloadAt, Chunks

LEMMA PathFrame ==
    ASSUME Later, NEW q, Path(q), downloads'[q] = downloads[q],
           \A a : a.peer = q => (a \in actions' <=> a \in actions)
    PROVE  Path(q)'
<1>1. CASE (\A a \in actions : a.peer # q) /\ (downloads[q] = NoDownload \/ ~Running \/ q \in refused)
  BY <1>1, PathEnds, Zenon DEF Later
<1>2. ASSUME NEW x \in actions, x.peer = q, Serving(x, downloads[q]),
             \A a \in actions : a.peer = q => a = x
      PROVE  Path(q)'
  <2>1. Serving(x, downloads[q])'
    BY <1>2, ServingLater, Zenon DEF Serving
  <2> QED
    BY <1>2, <2>1, Zenon DEF Path
<1> QED
  BY <1>1, <1>2, Zenon DEF Path

LEMMA SyncPathOutcome ==
    ASSUME Running, NEW p, NEW rest, \A a \in rest : a.peer # p, downloads'[p] = NoDownload,
           NEW remote, NEW h, NEW s, request_sync_path(p, remote, h, rest, s)
    PROVE  Path(p)'
<1>1. CASE actions' = rest
  BY <1>1, PathEnds, Zenon
<1>2. ASSUME NEW x, actions' = rest \cup {x}, x.peer = p, x.remote = remote,
             x.kind = "Headers" \/ (x.kind = "Manifest" /\ remote.checkpoint_height > 0)
      PROVE  Path(p)'
  <2>1. Serving(x, downloads[p])'
    BY <1>2, Zenon DEF Serving, NoDownload, NoRemote, Header
  <2> QED
    BY <1>2, <2>1, PathStarts, Zenon
<1>3. CASE send_request(p, "Manifest", remote, <<>>, rest, s) /\ remote.checkpoint_height > 0
  BY <1>1, <1>2, <1>3, Sent
<1>4. CASE send_request(p, "Headers", remote, next_request(Header(h), remote.head), rest, s)
  BY <1>1, <1>2, <1>4, Sent
<1> QED
  BY <1>1, <1>3, <1>4, Zenon DEF request_sync_path, done

LEMMA NextChunkOutcome ==
    ASSUME Running, NEW p, p \in DOMAIN downloads, NEW rest, \A a \in rest : a.peer # p,
           NEW remote, remote.checkpoint_height > 0,
           NEW k \in 0 .. ChunkCount - 1, NEW d, d = Staging(remote, k),
           NEW s, request_next_chunk(p, d, rest, s)
    PROVE  Path(p)'
<1>1. NextIs(d, remote, k + 1)
  BY NextOfStaging, Zenon
<1>2. /\ downloads' = [downloads EXCEPT ![p] = DownloadAt(remote, k + 1)]
      /\ send_request(p, "Chunk", remote, <<k + 1>>, rest, s)
  BY <1>1, Zenon DEF request_next_chunk, NextIs
<1>3. downloads'[p] = DownloadAt(remote, k + 1) /\ k + 1 \in Chunks
  BY <1>2, NodeAssumption DEF Chunks
<1>4. ASSUME NEW x, actions' = rest \cup {x}, x.peer = p, x.kind = "Chunk", x.remote = remote,
             x.detail = <<k + 1>>
      PROVE  Path(p)'
  <2>1. Serving(x, downloads[p])'
    BY <1>3, <1>4, Zenon DEF Serving, DownloadAt, Chunks
  <2> QED
    BY <1>4, <2>1, PathStarts, Zenon
<1>5. CASE actions' = rest /\ ~Running'
  BY <1>5, PathEnds, Zenon
<1> QED
  BY <1>2, <1>4, <1>5, Sent

\* A step changes no download but that of p.
OnlyAt(p) == downloads' = downloads \/ \E e : downloads' = [downloads EXCEPT ![p] = e]

LEMMA OtherDownloads ==
    ASSUME downloads = [q \in Peer |-> downloads[q]], NEW p, OnlyAt(p)
    PROVE  /\ downloads' = [q \in Peer |-> downloads'[q]]
           /\ \A q \in Peer \ {p} : downloads'[q] = downloads[q]
BY Zenon DEF OnlyAt

\* A step at p that leaves its path in order.
LEMMA PathAt ==
    ASSUME PathInv, Later, NEW p \in Peer, OnlyAt(p), NEW rest \in SUBSET actions,
           \A a \in actions \ rest : a.peer = p, AtMostOneMore(rest, p), Path(p)',
           authenticated \ {p} \subseteq authenticated',
           downloads'[p] # NoDownload => p \in authenticated'
    PROVE  PathInv'
<1>1. /\ downloads' = [q \in Peer |-> downloads'[q]]
      /\ \A q \in Peer \ {p} : downloads'[q] = downloads[q]
  BY OtherDownloads, Zenon DEF PathInv
<1>2. ASSUME NEW q \in Peer, q # p PROVE Path(q)' /\ (downloads'[q] # NoDownload => q \in authenticated')
  <2>1. \A a : a.peer = q => (a \in actions' <=> a \in actions)
    BY <1>2, Zenon DEF AtMostOneMore
  <2>2. downloads'[q] = downloads[q] /\ Path(q) /\ (downloads[q] # NoDownload => q \in authenticated)
    BY <1>1, <1>2, Zenon DEF PathInv
  <2> QED
    BY <1>2, <2>1, <2>2, PathFrame, Zenon
<1> QED
  BY <1>1, <1>2, Zenon DEF PathInv, NoDownload, NoRemote, Header

LEMMA PathStill ==
    ASSUME PathInv, Later, downloads' = downloads, actions' = actions,
           authenticated \subseteq authenticated'
    PROVE  PathInv'
<1>1. ASSUME NEW q \in Peer PROVE Path(q)'
  BY PathFrame, Zenon DEF PathInv
<1> QED
  BY <1>1, Zenon DEF PathInv, NoDownload, NoRemote, Header

LEMMA ChunkOutcome ==
    ASSUME PathInv, Running, NEW a \in actions, NEW p \in Peer, p = a.peer,
           NEW rest, \A b \in rest : b.peer # p,
           NEW i \in Chunks, a.remote.checkpoint_height > 0, downloads[p] = DownloadAt(a.remote, i),
           NEW s, accept_snapshot_chunk(p, i, rest, s)
    PROVE  Path(p)' /\ OnlyAt(p)
<1>0. a.remote.checkpoint_height # 0
  OBVIOUS
<1>1. a.remote.checkpoint_height # 0 /\ downloads = [q \in Peer |-> downloads[q]] /\ p \in DOMAIN downloads
  BY <1>0, Zenon DEF PathInv
<1>2. downloads[p] # NoDownload
  BY <1>1, NotNoDownload, Zenon
<1>3. PICK d : d = [downloads[p] EXCEPT !.staged = @ \cup {i}]
  BY Zenon
<1>4. d = Staging(a.remote, i) /\ d.staged = 1 .. i /\ d.remote = a.remote
  <2>1. i \in Nat /\ (1 .. i - 1) \cup {i} = 1 .. i
    BY NodeAssumption DEF Chunks
  <2>2. PICK r, st, su, l, e : /\ r = a.remote /\ st = 1 .. i - 1 /\ su = 1 .. i
                              /\ l = [j \in 1 .. ChunkCount - i |-> i + j] /\ e = downloads[p]
    BY Zenon
  <2>3. e = [remote |-> r, staged |-> st, remaining |-> l]
    BY <2>2, Zenon DEF DownloadAt
  <2>4. e.staged = st /\ [e EXCEPT !.staged = su] = [remote |-> r, staged |-> su, remaining |-> l]
    BY <2>3, DownloadFields
  <2>5. st \cup {i} = su
    BY <2>1, <2>2, Zenon
  <2>6. d = [remote |-> r, staged |-> su, remaining |-> l]
    BY <1>3, <2>2, <2>4, <2>5, Zenon
  <2>7. d = Staging(a.remote, i)
    BY <2>2, <2>6, Zenon DEF Staging
  <2>8. d.staged = su /\ d.remote = r
    BY <2>6, Zenon
  <2> QED
    BY <2>2, <2>7, <2>8, Zenon
<1>5. CASE d.staged # Chunks
  <2>1. i \in 0 .. ChunkCount - 1
    BY <1>4, <1>5, NodeAssumption DEF Chunks
  <2>2. request_next_chunk(p, d, rest, s)
    BY <1>2, <1>3, <1>5, Zenon DEF accept_snapshot_chunk
  <2>3. Path(p)'
    BY <1>1, <1>4, <2>1, <2>2, NextChunkOutcome, Zenon
  <2>4. OnlyAt(p)
    BY <2>2, Zenon DEF request_next_chunk, OnlyAt
  <2> QED
    BY <2>3, <2>4, Zenon
<1>6. CASE d.staged = Chunks
  <2>1. /\ downloads' = [downloads EXCEPT ![p] = NoDownload]
        /\ actions' = rest \/ request_sync_path(p, a.remote, node_height', rest, s)
    BY <1>2, <1>3, <1>4, <1>6, Zenon DEF accept_snapshot_chunk, fails
  <2>2. downloads'[p] = NoDownload /\ OnlyAt(p)
    BY <1>1, <2>1, Zenon DEF OnlyAt
  <2>3. Path(p)'
    BY <1>1, <2>1, <2>2, SyncPathOutcome, PathEnds, Zenon
  <2> QED
    BY <2>2, <2>3, Zenon
<1> QED
  BY <1>5, <1>6, Zenon

LEMMA RespondOutcome ==
    ASSUME LinkInv, PathInv, NEW a \in actions, Respond(a)
    PROVE  Path(a.peer)' /\ OnlyAt(a.peer)
<1>1. PICK rest, p, s : rest = actions \ {a} /\ p = a.peer /\ s = [score EXCEPT ![a.peer] = reward(@)]
  BY Zenon
<1>2. p \in Peer /\ Running /\ \A b \in rest : b.peer # p
  BY <1>1, Zenon DEF LinkInv, Respond
<1>3. downloads = [q \in Peer |-> downloads[q]] /\ p \in DOMAIN downloads
  BY <1>2, Zenon DEF PathInv
<1>4. Serving(a, downloads[p])
  BY <1>1, <1>2, Zenon DEF PathInv, Path
<1>5. CASE a.kind = "Status"
  <2>1. request_sync_path(p, peer_status(p), node_height, rest, s) /\ downloads' = downloads
    BY <1>1, <1>5, Zenon DEF Respond
  <2>2. downloads[p] = NoDownload
    BY <1>4, <1>5, Zenon DEF Serving
  <2>3. PICK st : st = peer_status(p)
    BY Zenon
  <2> QED
    BY <1>1, <1>2, <2>1, <2>2, <2>3, SyncPathOutcome, Zenon DEF OnlyAt
<1>6. CASE rejected(a, rest)
  <2>1. actions' = rest /\ downloads' = downloads /\ (a.kind = "Chunk" => p \in refused')
    BY <1>1, <1>6, Zenon DEF rejected, done
  <2>2. a.kind # "Chunk" => downloads[p] = NoDownload
    BY <1>4, Zenon DEF Serving
  <2> QED
    BY <1>1, <1>2, <2>1, <2>2, PathEnds, Zenon DEF OnlyAt
<1>7. CASE a.kind = "Manifest" /\ begin_snapshot_download(p, a.remote, rest, s)
  <2>1. a.remote.checkpoint_height > 0
    BY <1>4, <1>7, Zenon DEF Serving
  <2>2. [remote |-> a.remote, staged |-> {}, remaining |-> [i \in Chunks |-> i]] = Staging(a.remote, 0)
    <3>1. 1 .. 0 = {} /\ ChunkCount - 0 = ChunkCount /\ \A i \in Chunks : 0 + i = i
      BY NodeAssumption DEF Chunks
    <3>2. [i \in Chunks |-> i] = [i \in 1 .. ChunkCount - 0 |-> 0 + i]
      BY <3>1, Zenon DEF Chunks
    <3> QED
      BY <3>1, <3>2, Zenon DEF Staging
  <2>3. PICK d : d = Staging(a.remote, 0)
    BY Zenon
  <2>4. request_next_chunk(p, d, rest, s)
    BY <1>7, <2>2, <2>3, Zenon DEF begin_snapshot_download
  <2>5. 0 \in 0 .. ChunkCount - 1
    BY NodeAssumption
  <2>6. Path(p)'
    BY <1>2, <1>3, <2>1, <2>3, <2>4, <2>5, NextChunkOutcome, Zenon
  <2>7. OnlyAt(p)
    BY <2>4, Zenon DEF request_next_chunk, OnlyAt
  <2> QED
    BY <1>1, <2>6, <2>7, Zenon
<1>8. CASE a.kind = "Chunk" /\ accept_snapshot_chunk(p, a.detail[1], rest, s)
  <2>1. PICK i \in Chunks : /\ a.remote.checkpoint_height > 0 /\ a.detail = <<i>>
                            /\ downloads[p] = DownloadAt(a.remote, i) \/ downloads[p] = NoDownload
    BY <1>4, <1>8, Zenon DEF Serving
  <2>2. accept_snapshot_chunk(p, i, rest, s)
    BY <1>8, <2>1
  <2>3. CASE downloads[p] = DownloadAt(a.remote, i)
    BY <1>1, <1>2, <2>1, <2>2, <2>3, ChunkOutcome, Zenon
  <2>4. CASE downloads[p] = NoDownload
    <3>1. actions' = rest /\ downloads' = downloads
      BY <2>2, <2>4, Zenon DEF accept_snapshot_chunk, fails
    <3> QED
      BY <1>1, <1>2, <2>4, <3>1, PathEnds, Zenon DEF OnlyAt
  <2> QED
    BY <2>1, <2>3, <2>4, Zenon
<1>9. CASE a.kind = "Headers"
  <2>1. accept_headers(p, a, rest, s) /\ downloads' = downloads /\ downloads[p] = NoDownload
    BY <1>1, <1>4, <1>9, Zenon DEF Respond, accept_headers, Serving
  <2>2. PICK dt : actions' = rest \/ send_request(p, "Bodies", a.remote, dt, rest, s)
    BY <2>1, Zenon DEF accept_headers, fails
  <2>3. ASSUME NEW x, actions' = rest \cup {x}, x.peer = p, x.kind = "Bodies" PROVE Path(p)'
    <3>1. Serving(x, downloads[p])'
      BY <2>1, <2>3, Zenon DEF Serving, NoDownload, NoRemote, Header
    <3> QED
      BY <1>2, <2>3, <3>1, PathStarts, Zenon
  <2>4. CASE actions' = rest
    BY <1>1, <1>2, <2>1, <2>4, PathEnds, Zenon DEF OnlyAt
  <2>5. CASE send_request(p, "Bodies", a.remote, dt, rest, s)
    <3>1. actions' = rest \/ \E x : actions' = rest \cup {x} /\ x.peer = p /\ x.kind = "Bodies"
      BY <1>2, <2>5, Sent
    <3> QED
      BY <1>1, <2>1, <2>3, <2>4, <3>1, Zenon DEF OnlyAt
  <2> QED
    BY <2>2, <2>4, <2>5, Zenon
<1>10. CASE a.kind = "Bodies"
  <2>1. /\ actions' = rest \/ request_sync_path(p, a.remote, node_height', rest, s)
        /\ downloads' = downloads /\ downloads[p] = NoDownload
    BY <1>1, <1>4, <1>10, Zenon DEF Respond, accept_bodies, Serving, fails
  <2> QED
    BY <1>1, <1>2, <2>1, SyncPathOutcome, PathEnds, Zenon DEF OnlyAt
<1> QED
  BY <1>1, <1>5, <1>6, <1>7, <1>8, <1>9, <1>10, Zenon DEF Respond

LEMMA PathInit == NodeInit => PathInv
<1> SUFFICES ASSUME NodeInit PROVE PathInv
  BY Zenon
<1>1. \A p \in Peer : Path(p)
  BY Zenon DEF NodeInit, Path
<1> QED
  BY <1>1, Zenon DEF NodeInit, PathInv

\* A status request to a peer with nothing under way.
LEMMA StatusOutcome ==
    ASSUME PathInv, Later, Running, NEW p \in Peer, \A a \in actions : a.peer # p,
           downloads[p] = NoDownload, downloads' = downloads, authenticated \subseteq authenticated',
           NEW s, send_request(p, "Status", NoRemote, <<>>, actions, s)
    PROVE  PathInv'
<1>1. ASSUME NEW x, actions' = actions \cup {x}, x.peer = p, x.kind = "Status"
      PROVE  Path(p)'
  <2>1. Serving(x, downloads[p])'
    BY <1>1, Zenon DEF Serving, NoDownload, NoRemote, Header
  <2> QED
    BY <1>1, <2>1, PathStarts, Zenon
<1>2. ASSUME actions' = actions PROVE Path(p)'
  BY <1>2, PathEnds, Zenon
<1>3. Path(p)'
  <2>1. actions' = actions \/ \E x : actions' = actions \cup {x} /\ x.peer = p /\ x.kind = "Status"
    BY Sent
  <2> QED
    BY <1>1, <1>2, <2>1, Zenon
<1>4. AtMostOneMore(actions, p) /\ OnlyAt(p)
  BY SendsOne, Zenon DEF OnlyAt
<1>5. actions \in SUBSET actions /\ \A a \in actions \ actions : a.peer = p
  BY Zenon
<1>6. authenticated \ {p} \subseteq authenticated' /\ (downloads'[p] # NoDownload => p \in authenticated')
  BY Zenon
<1> QED
  BY <1>3, <1>4, <1>5, <1>6, PathAt, Zenon

\* Nothing is left under way at p.
LEMMA DropOutcome ==
    ASSUME PathInv, Later, NEW p \in Peer, NEW lost \in SUBSET actions,
           \A a \in actions : a \in lost <=> a.peer = p, actions' = actions \ lost,
           downloads' = [downloads EXCEPT ![p] = NoDownload], authenticated \ {p} \subseteq authenticated'
    PROVE  PathInv'
<1>1. downloads'[p] = NoDownload /\ OnlyAt(p)
  BY Zenon DEF OnlyAt, PathInv
<1>2. Path(p)'
  BY <1>1, PathEnds, Zenon
<1>3. PICK rest : rest = actions \ lost
  BY Zenon
<1>4. /\ rest \in SUBSET actions /\ AtMostOneMore(rest, p)
      /\ \A a \in actions \ rest : a.peer = p
  BY <1>3, Zenon DEF AtMostOneMore
<1> QED
  BY <1>1, <1>2, <1>4, PathAt, Zenon

LEMMA ClosedOutcome ==
    ASSUME PathInv, Later, NEW p \in Peer, Closed(p)
    PROVE  PathInv'
<1>1. PICK lost : lost = Pending(p)
  BY Zenon
<1>2. lost \in SUBSET actions /\ \A a \in actions : a \in lost <=> a.peer = p
  BY <1>1, Zenon DEF Pending
<1>3. /\ actions' = actions \ lost /\ downloads' = [downloads EXCEPT ![p] = NoDownload]
      /\ authenticated \ {p} \subseteq authenticated'
  BY <1>1, Zenon DEF Closed
<1> QED
  BY <1>2, <1>3, DropOutcome, Zenon

\* A dial or a handshake fails: a pending chunk loses its download.
LEMMA FailedOtherOutcome ==
    ASSUME PathInv, Later, NEW p \in Peer, FailedOther(p)
    PROVE  PathInv'
<1>1. /\ actions' = actions /\ authenticated' = authenticated
      /\ downloads' = [downloads EXCEPT ![p] = NoDownload]
      /\ downloads[p] # NoDownload => p \in crossed'
  BY Zenon DEF FailedOther
<1>2. downloads'[p] = NoDownload /\ OnlyAt(p)
  BY <1>1, Zenon DEF OnlyAt, PathInv
<1>3. ASSUME \A a \in actions : a.peer # p PROVE Path(p)'
  BY <1>1, <1>2, <1>3, PathEnds, Zenon
<1>4. ASSUME NEW x \in actions, x.peer = p, Serving(x, downloads[p]),
             \A a \in actions : a.peer = p => a = x
      PROVE  Path(p)'
  <2>1. CASE downloads[p] = NoDownload
    BY <1>1, <1>2, <1>4, <2>1, PathFrame, Zenon DEF PathInv
  <2>2. CASE downloads[p] # NoDownload
    <3>1. Serving(x, downloads[p])'
      BY <1>1, <1>2, <1>4, <2>2, Zenon DEF Serving, NoDownload, NoRemote, Header, Chunks
    <3> QED
      BY <1>1, <1>4, <3>1, Zenon DEF Path
  <2> QED
    BY <2>1, <2>2, Zenon
<1>5. Path(p)'
  BY <1>3, <1>4, Zenon DEF PathInv, Path
<1>6. actions \in SUBSET actions /\ AtMostOneMore(actions, p) /\ \A a \in actions \ actions : a.peer = p
  BY <1>1, Zenon DEF AtMostOneMore
<1> QED
  BY <1>1, <1>2, <1>5, <1>6, PathAt, Zenon

LEMMA PathStep == LinkInv /\ PathInv /\ [NodeNext]_node_vars => PathInv'
<1> SUFFICES ASSUME LinkInv, PathInv, [NodeNext]_node_vars PROVE PathInv'
  BY Zenon
<1>1. Later
  BY LaterStep, Zenon
<1>2. CASE UNCHANGED node_vars
  BY <1>1, <1>2, PathStill, Zenon DEF node_vars, link
<1>3. ASSUME Idle, NEW p \in authenticated, Running, downloads' = downloads,
             authenticated' = authenticated,
             send_request(p, "Status", NoRemote, <<>>, actions, score)
      PROVE  PathInv'
  <2>1. p \in Peer /\ downloads[p] = NoDownload /\ \A a \in actions : a.peer # p
    BY <1>3, Zenon DEF Idle, LinkInv
  <2> QED
    BY <1>1, <1>3, <2>1, StatusOutcome, Zenon
<1>4. CASE Tick
  <2>1. Running /\ downloads' = downloads /\ authenticated' = authenticated
    BY <1>4, Zenon DEF Tick
  <2>2. CASE actions' = actions
    BY <1>1, <2>1, <2>2, PathStill, Zenon
  <2>3. CASE actions' # actions
    BY <1>3, <1>4, <2>1, <2>3, Zenon DEF Tick
  <2> QED
    BY <2>2, <2>3, Zenon
<1>5. ASSUME NEW p \in Peer, Established(p) PROVE PathInv'
  <2>1. CASE Closed(p)
    BY <1>1, <2>1, ClosedOutcome, Zenon
  <2>2. CASE ~Closed(p)
    <3>1. downloads' = downloads /\ actions' = actions /\ authenticated' = authenticated
      BY <1>5, <2>2, Zenon DEF Established
    <3> QED
      BY <1>1, <3>1, PathStill, Zenon
  <2> QED
    BY <2>1, <2>2, Zenon
<1>6. ASSUME NEW p \in Peer, NEW s, Running, downloads' = downloads, authenticate(p, s) PROVE PathInv'
  <2>1. authenticated \subseteq authenticated'
    BY <1>6, Zenon DEF authenticate
  <2>2. CASE p \in authenticated
    <3>1. actions' = actions
      BY <1>6, <2>2, Zenon DEF authenticate
    <3> QED
      BY <1>1, <1>6, <2>1, <3>1, PathStill, Zenon
  <2>3. CASE p \notin authenticated
    <3>1. /\ send_request(p, "Status", NoRemote, <<>>, actions, s)
          /\ downloads[p] = NoDownload /\ \A a \in actions : a.peer # p
      BY <1>6, <2>3, Zenon DEF authenticate, LinkInv, PathInv
    <3> QED
      BY <1>1, <1>6, <2>1, <3>1, StatusOutcome, Zenon
  <2> QED
    BY <2>2, <2>3, Zenon
<1>7. ASSUME NEW p \in Peer, Greeted(p) \/ Welcomed(p) PROVE PathInv'
  <2>1. Running /\ downloads' = downloads
    BY <1>7, Zenon DEF Greeted, Welcomed
  <2>2. CASE authenticate(p, score')
    BY <1>6, <2>1, <2>2, Zenon
  <2>3. CASE UNCHANGED <<authenticated, actions>>
    BY <1>1, <2>1, <2>3, PathStill, Zenon
  <2> QED
    BY <1>7, <2>2, <2>3, Zenon DEF Greeted, Welcomed
<1>8. ASSUME NEW p \in Peer,
             Serve(p) \/ HandshakeLost(p) \/ Lapse(p) \/ ServeFails(p) \/ PeerAdvances(p)
      PROVE  PathInv'
  <2>1. downloads' = downloads /\ actions' = actions /\ authenticated \subseteq authenticated'
    BY <1>8, Zenon DEF Serve, HandshakeLost, Lapse, ServeFails, PeerAdvances, link
  <2> QED
    BY <1>1, <2>1, PathStill, Zenon
<1>9. ASSUME NEW p \in Peer, Gossip(p) PROVE PathInv'
  BY <1>3, <1>9, Zenon DEF Gossip, link
<1>10. ASSUME NEW p \in Peer, DialFails(p) \/ HandshakeFails(p) PROVE PathInv'
  BY <1>1, <1>10, FailedOtherOutcome, Zenon DEF DialFails, HandshakeFails
<1>11. ASSUME NEW p \in Peer, Disconnect(p) \/ IdleClose(p) PROVE PathInv'
  BY <1>1, <1>11, ClosedOutcome, Zenon DEF Disconnect, IdleClose
<1>12. ASSUME NEW a \in actions, NEW rest, rest = actions \ {a}, AtMostOneMore(rest, a.peer),
              Path(a.peer)', OnlyAt(a.peer), authenticated' = authenticated
       PROVE  PathInv'
  <2>1. PICK p : p = a.peer
    BY Zenon
  <2>2. /\ p \in Peer /\ p \in authenticated' /\ rest \in SUBSET actions
        /\ \A b \in actions \ rest : b.peer = p
    BY <1>12, <2>1, Zenon DEF LinkInv
  <2>3. authenticated \ {p} \subseteq authenticated'
    BY <1>12, Zenon
  <2> QED
    BY <1>1, <1>12, <2>1, <2>2, <2>3, PathAt, Zenon
<1>13. ASSUME NEW a \in actions, Respond(a) PROVE PathInv'
  <2>1. AtMostOneMore(actions \ {a}, a.peer) /\ authenticated' = authenticated
    BY <1>13, RespondSendsOne, Zenon DEF Respond, link
  <2>2. Path(a.peer)' /\ OnlyAt(a.peer)
    BY <1>13, RespondOutcome, Zenon
  <2> QED
    BY <1>12, <2>1, <2>2, Zenon
<1>14. ASSUME NEW a \in actions, Timeout(a) PROVE PathInv'
  <2>1. /\ actions' = actions \ {a} /\ a.peer \in Peer /\ authenticated' = authenticated
        /\ downloads' = [downloads EXCEPT ![a.peer] = NoDownload]
        /\ \A b \in actions : b \in {a} <=> b.peer = a.peer
    BY <1>14, Zenon DEF Timeout, LinkInv, link
  <2>2. authenticated \ {a.peer} \subseteq authenticated'
    BY <2>1, Zenon
  <2> QED
    BY <1>1, <2>1, <2>2, DropOutcome, Zenon
<1>15. ASSUME NEW a \in actions, Refuse(a) PROVE PathInv'
  <2>1. PICK rest : rest = actions \ {a}
    BY Zenon
  <2>2. /\ actions' = rest /\ downloads' = downloads /\ authenticated' = authenticated
        /\ a.kind = "Chunk" => a.peer \in refused'
    BY <1>15, <2>1, Zenon DEF Refuse, rejected, done, link
  <2>3. a.kind # "Chunk" => downloads[a.peer] = NoDownload
    BY Zenon DEF PathInv, Path, Serving, LinkInv
  <2>4. \A b \in rest : b.peer # a.peer
    BY <2>1, Zenon DEF LinkInv
  <2>5. Path(a.peer)'
    BY <2>2, <2>3, <2>4, PathEnds, Zenon
  <2>6. AtMostOneMore(rest, a.peer) /\ OnlyAt(a.peer)
    BY <2>2, Zenon DEF AtMostOneMore, OnlyAt
  <2> QED
    BY <1>12, <2>1, <2>2, <2>5, <2>6, Zenon
<1> QED
  BY <1>2, <1>4, <1>5, <1>7, <1>8, <1>9, <1>10, <1>11, <1>13, <1>14, <1>15, Zenon
     DEF NodeNext, Dialed, Accept

\* OneSyncPath of one peer.
OnePath(pending, d, orphaned) ==
    /\ Cardinality(pending) <= 1
    /\ d # NoDownload =>
          /\ \A a \in pending :
                /\ a.kind = "Chunk" /\ a.remote = d.remote /\ a.detail[1] \notin d.staged
                /\ d.staged \cup {a.detail[1]} \cup {d.remaining[i] : i \in DOMAIN d.remaining} = Chunks
          /\ pending = {} => orphaned

LEMMA PathIsOne == PathInv => OneSyncPath
<1> SUFFICES ASSUME PathInv, NEW p \in Peer
             PROVE  OnePath(Pending(p), downloads[p], ~Running \/ p \in refused)
  BY Zenon DEF OneSyncPath, OnePath
<1>1. PICK pending, d : pending = Pending(p) /\ d = downloads[p]
  BY Zenon
<1>2. ASSUME \A a \in actions : a.peer # p, d = NoDownload \/ ~Running \/ p \in refused
      PROVE  OnePath(pending, d, ~Running \/ p \in refused)
  <2>1. pending = {} /\ Cardinality({}) = 0
    BY <1>1, <1>2, FS_EmptySet, Zenon DEF Pending
  <2>2. Cardinality(pending) <= 1
    BY <2>1
  <2> QED
    BY <1>2, <2>1, <2>2, Zenon DEF OnePath
<1>3. ASSUME NEW x \in actions, x.peer = p, Serving(x, d), \A a \in actions : a.peer = p => a = x
      PROVE  OnePath(pending, d, ~Running \/ p \in refused)
  <2>1. pending = {x}
    BY <1>1, <1>3, Zenon DEF Pending
  <2>2. Cardinality(pending) = 1
    BY <2>1, FS_Singleton, Zenon
  <2>3. ASSUME d # NoDownload
        PROVE  /\ x.kind = "Chunk" /\ x.remote = d.remote /\ x.detail[1] \notin d.staged
               /\ d.staged \cup {x.detail[1]}
                     \cup {d.remaining[i] : i \in DOMAIN d.remaining} = Chunks
    <3>1. PICK i \in Chunks : x.kind = "Chunk" /\ x.detail = <<i>> /\ d = DownloadAt(x.remote, i)
      BY <1>3, <2>3, Zenon DEF Serving
    <3>2. PICK left : left = [j \in 1 .. ChunkCount - i |-> i + j]
      BY Zenon
    <3>3. d.remote = x.remote /\ d.staged = 1 .. i - 1 /\ d.remaining = left /\ x.detail[1] = i
      BY <3>1, <3>2 DEF DownloadAt
    <3>4. i \notin 1 .. i - 1
      BY NodeAssumption DEF Chunks
    <3>5. {left[j] : j \in DOMAIN left} = i + 1 .. ChunkCount
      <4>1. \A j \in DOMAIN left : left[j] \in i + 1 .. ChunkCount
        BY <3>2, NodeAssumption DEF Chunks
      <4>2. ASSUME NEW c \in i + 1 .. ChunkCount PROVE c - i \in DOMAIN left /\ left[c - i] = c
        BY <3>2, NodeAssumption DEF Chunks
      <4> HIDE <3>2
      <4> QED
        BY <4>1, <4>2, Zenon
    <3>6. (1 .. i - 1) \cup {i} \cup (i + 1 .. ChunkCount) = Chunks
      BY NodeAssumption DEF Chunks
    <3>7. {d.remaining[j] : j \in DOMAIN d.remaining} = i + 1 .. ChunkCount
      BY <3>3, <3>5, Zenon
    <3>8. d.staged \cup {x.detail[1]} \cup (i + 1 .. ChunkCount) = Chunks
      BY <3>3, <3>6, Zenon
    <3> QED
      BY <3>1, <3>3, <3>4, <3>7, <3>8, Zenon
  <2>4. Cardinality(pending) <= 1
    BY <2>2
  <2> QED
    BY <2>1, <2>3, <2>4, Zenon DEF OnePath
<1> QED
  BY <1>1, <1>2, <1>3, Zenon DEF PathInv, Path

LEMMA PathInvariant == NodeSpec => []PathInv
BY PathInit, PathStep, LinkInvariant, PTL DEF NodeSpec

\* "keep one bounded sync action/download path per peer, clear it on timeout/disconnect":
\* for any number of peers and chunks, with every fault and eviction, a peer never has two
\* requests of run_dev_node to answer, what it has to answer during a download is the next
\* chunk of it, and a running node leaves a download without request only if its peer has
\* refused a chunk.
THEOREM OnePathPerPeer == NodeSpec => []OneSyncPath
BY PathIsOne, PathInvariant, PTL

=============================================================================
