--------------------------- MODULE Symlink_proofs ---------------------------
(***************************************************************************)
(* Proof that filestat_path resolves symlinks as the reference definition *)
(* says (SymlinkResolution), for every MAX_SYMLINKS and every arena: the  *)
(* while loop of filestat_inode, modelled by the function Walk, returns   *)
(* the stat of the end of the forwarded chain iff that end is at most     *)
(* MAX_SYMLINKS + 1 hops away, and EMLINK otherwise.                      *)
(*                                                                         *)
(* The argument is an induction on the loop counter, written as a least-  *)
(* counterexample argument: the set of counters where a claim fails is a  *)
(* set of naturals, and WFMin gives it a least element, whose predecessor *)
(* satisfies the claim.                                                    *)
(***************************************************************************)
EXTENDS WasiFs_proofs, WellFoundedInduction

(* Every symlink in the arena forwards to a slot of the arena. *)
LinksInArena ==
    \A j \in Inodes : inodes[j].kind = "Symlink" => inodes[j].forwarded \in Inodes

(* Every cached name names a slot of the arena. *)
NamesInArena ==
    \A p \in DOMAIN name_map : name_map[p] \in Inodes

(* The inductive invariant behind SymlinkResolution. *)
SInv == /\ TypeOK
        /\ LinksInArena
        /\ NamesInArena
        /\ SymlinkResolution


-----------------------------------------------------------------------------
(* One iteration of the loop of filestat_inode, as the step of the        *)
(* recursion that defines Walk.                                           *)
WalkRec == INSTANCE NatRecursion WITH
    Def <- LAMBDA v, n : IF inodes[v].kind = "Symlink"
                           THEN inodes[v].forwarded ELSE v

(* The loop of filestat_inode, one counter value at a time. *)
LEMMA WalkStep ==
    ASSUME NEW i, NEW c \in Nat
    PROVE  Walk(i)[c] = IF c = 0 THEN inodes[i].forwarded
                        ELSE IF inodes[Walk(i)[c - 1]].kind = "Symlink"
                               THEN inodes[Walk(i)[c - 1]].forwarded
                               ELSE Walk(i)[c - 1]
<1>1. Walk(i) = WalkRec!Fix(inodes[i].forwarded)
    BY DEF Walk, WalkRec!Fix
<1>2. WalkRec!Fix(inodes[i].forwarded) =
        [c2 \in Nat |->
           IF c2 = 0 THEN inodes[i].forwarded
           ELSE IF inodes[WalkRec!Fix(inodes[i].forwarded)[c2 - 1]].kind = "Symlink"
                  THEN inodes[WalkRec!Fix(inodes[i].forwarded)[c2 - 1]].forwarded
                  ELSE WalkRec!Fix(inodes[i].forwarded)[c2 - 1]]
    BY WalkRec!FixEquation
<1>. QED
    BY <1>1, <1>2

(* A chain of n forwarded hops from i, as a function p on 0 .. n: the     *)
(* body of Chain without its end point.                                    *)
IsChain(p, i, n) ==
    /\ p[0] = i
    /\ \A k \in 0 .. n - 1 : /\ inodes[p[k]].kind = "Symlink"
                            /\ p[k + 1] = inodes[p[k]].forwarded

(* The least element of a non-empty set of naturals, from WFMin. *)
LEMMA LeastNat ==
    ASSUME NEW S \in SUBSET Nat, S # {}
    PROVE  \E m \in S : \A k \in S : ~(k < m)
<1>. DEFINE LT == OpToRel(<, Nat)
<1>1. IsWellFoundedOn(LT, Nat)
    BY NatLessThanWellFounded
<1>. HIDE DEF LT
<1>2. PICK m \in S : \A k \in S : ~(<<k, m>> \in LT)
    BY <1>1, WFMin, Zenon
<1>. QED
    BY <1>2 DEF LT, OpToRel

(* Two chains from the same inode agree on their common length: each hop *)
(* is determined by the forwarded field of the previous inode.           *)
LEMMA ChainsAgree ==
    ASSUME NEW i, NEW n \in Nat, NEW m \in Nat, n <= m,
           NEW p \in [0 .. n -> Inodes], NEW q \in [0 .. m -> Inodes],
           IsChain(p, i, n), IsChain(q, i, m)
    PROVE  \A k \in 0 .. n : p[k] = q[k]
<1>. DEFINE Bad == {k \in 0 .. n : p[k] # q[k]}
<1>. SUFFICES ASSUME Bad # {} PROVE FALSE
    OBVIOUS
<1>0. Bad \in SUBSET Nat
    OBVIOUS
<1>1. PICK k \in Bad : \A j \in Bad : ~(j < k)
    BY <1>0, LeastNat
<1>2. k # 0
    BY <1>1 DEF IsChain
<1>3. k - 1 \in 0 .. n - 1 /\ k - 1 \in 0 .. m - 1
    BY <1>1, <1>2
<1>4. p[k - 1] = q[k - 1]
    BY <1>1, <1>3
<1>5. p[k] = inodes[p[k - 1]].forwarded /\ q[k] = inodes[q[k - 1]].forwarded
    BY <1>3 DEF IsChain
<1>. QED
    BY <1>1, <1>4, <1>5

(* A chain that ends on a non-symlink cannot be continued: another chain  *)
(* from the same inode, at least as long, is the same chain.              *)
LEMMA ChainEnd ==
    ASSUME NEW i, NEW n \in Nat, NEW m \in Nat, n <= m,
           NEW p \in [0 .. n -> Inodes], NEW q \in [0 .. m -> Inodes],
           IsChain(p, i, n), IsChain(q, i, m),
           inodes[p[n]].kind # "Symlink"
    PROVE  n = m /\ p[n] = q[m]
<1>1. \A k \in 0 .. n : p[k] = q[k]
    BY ChainsAgree
<1>2. CASE n < m
    <2>1. n \in 0 .. m - 1
        BY <1>2
    <2>2. inodes[q[n]].kind = "Symlink"
        BY <2>1 DEF IsChain
    <2>. QED
        BY <1>1, <2>2
<1>. QED
    BY <1>1, <1>2

(* Chain, written with IsChain. *)
LEMMA ChainDef ==
    ASSUME NEW i, NEW t, NEW n
    PROVE  Chain(i, t, n) <=> \E p \in [0 .. n -> Inodes] : IsChain(p, i, n) /\ p[n] = t
BY DEF Chain, IsChain

(* What the loop has reached at counter c is the end of a chain from i of *)
(* at most c + 1 hops, and of exactly c + 1 hops while it is a symlink.   *)
LEMMA WalkChain ==
    ASSUME TypeOK, LinksInArena, NEW i \in Inodes, inodes[i].kind = "Symlink"
    PROVE  \A c \in Nat : \E n \in 1 .. c + 1 : \E p \in [0 .. n -> Inodes] :
              /\ IsChain(p, i, n)
              /\ p[n] = Walk(i)[c]
              /\ inodes[p[n]].kind = "Symlink" => n = c + 1
<1>. DEFINE Q(c) == \E n \in 1 .. c + 1 : \E p \in [0 .. n -> Inodes] :
                       /\ IsChain(p, i, n)
                       /\ p[n] = Walk(i)[c]
                       /\ inodes[p[n]].kind = "Symlink" => n = c + 1
            Bad == {c \in Nat : ~Q(c)}
<1>. SUFFICES ASSUME Bad # {} PROVE FALSE
    OBVIOUS
<1>0. Bad \in SUBSET Nat
    OBVIOUS
<1>. HIDE DEF Q
<1>1. PICK c \in Bad : \A j \in Bad : ~(j < c)
    BY <1>0, LeastNat
<1>2. ~Q(c)
    BY <1>1
<1>. Inodes \subseteq Nat
    BY DEF Inodes
<1>3. CASE c = 0
    <2>. DEFINE p == [k \in 0 .. 1 |-> IF k = 0 THEN i ELSE inodes[i].forwarded]
    <2>1. inodes[i].forwarded \in Inodes
        BY DEF LinksInArena
    <2>2. Walk(i)[0] = inodes[i].forwarded
        BY WalkStep
    <2>3. p \in [0 .. 1 -> Inodes] /\ IsChain(p, i, 1) /\ p[1] = Walk(i)[0]
        BY <2>1, <2>2 DEF IsChain
    <2>. QED
        BY <1>2, <1>3, <2>3 DEF Q
<1>4. CASE c # 0
    <2>1. c - 1 \in Nat /\ c - 1 \notin Bad
        BY <1>1, <1>4
    <2>2. Q(c - 1)
        BY <2>1
    <2>3. PICK n \in 1 .. c : \E p \in [0 .. n -> Inodes] :
              /\ IsChain(p, i, n)
              /\ p[n] = Walk(i)[c - 1]
              /\ inodes[p[n]].kind = "Symlink" => n = c
        BY <2>2, <1>4 DEF Q
    <2>4. PICK p \in [0 .. n -> Inodes] :
              /\ IsChain(p, i, n)
              /\ p[n] = Walk(i)[c - 1]
              /\ inodes[p[n]].kind = "Symlink" => n = c
        BY <2>3
    <2>5. Walk(i)[c] = IF inodes[Walk(i)[c - 1]].kind = "Symlink"
                         THEN inodes[Walk(i)[c - 1]].forwarded
                         ELSE Walk(i)[c - 1]
        BY <1>4, WalkStep
    <2>6. CASE inodes[Walk(i)[c - 1]].kind = "Symlink"
        <3>. DEFINE p2 == [k \in 0 .. c + 1 |-> IF k <= c THEN p[k] ELSE Walk(i)[c]]
        <3>1. n = c /\ p[c] \in Inodes /\ inodes[p[c]].kind = "Symlink"
            BY <2>4, <2>6
        <3>2. Walk(i)[c] = inodes[p[c]].forwarded /\ Walk(i)[c] \in Inodes
            BY <3>1, <2>4, <2>5, <2>6 DEF LinksInArena
        <3>3. p2 \in [0 .. c + 1 -> Inodes]
            BY <3>1, <3>2
        <3>4. IsChain(p2, i, c + 1)
            BY <2>4, <3>1, <3>2 DEF IsChain
        <3>5. p2[c + 1] = Walk(i)[c]
            OBVIOUS
        <3>. QED
            BY <1>2, <3>3, <3>4, <3>5 DEF Q
    <2>7. CASE inodes[Walk(i)[c - 1]].kind # "Symlink"
        <3>1. Walk(i)[c] = p[n] /\ inodes[p[n]].kind # "Symlink"
            BY <2>4, <2>5, <2>7
        <3>2. n \in 1 .. c + 1
            OBVIOUS
        <3>. QED
            BY <1>2, <2>4, <3>1, <3>2 DEF Q
    <2>. QED
        BY <2>6, <2>7
<1>. QED
    BY <1>3, <1>4

(* filestat_inode agrees with the reference definition on every inode of *)
(* an arena whose symlinks forward into the arena: the loop bound         *)
(* MAX_SYMLINKS lets chains of up to MAX_SYMLINKS + 1 hops resolve.       *)
LEMMA FilestatMatchesRef ==
    ASSUME TypeOK, LinksInArena, NEW i \in Inodes, NEW follow \in BOOLEAN
    PROVE  FilestatInode(i, follow) = RefFilestat(i, follow, MaxSymlinks + 1)
<1>. DEFINE M == MaxSymlinks
            t == Walk(i)[M]
<1>0. M \in Nat /\ Inodes \subseteq Nat
    BY MaxSymlinksAssumption DEF Inodes
<1>1. CASE ~follow \/ inodes[i].kind # "Symlink"
    BY <1>1 DEF FilestatInode, RefFilestat
<1>2. CASE follow /\ inodes[i].kind = "Symlink"
    <2>1. PICK n \in 1 .. M + 1 : \E p \in [0 .. n -> Inodes] :
              /\ IsChain(p, i, n)
              /\ p[n] = t
              /\ inodes[p[n]].kind = "Symlink" => n = M + 1
        BY <1>0, <1>2, WalkChain
    <2>2. PICK p \in [0 .. n -> Inodes] :
              /\ IsChain(p, i, n)
              /\ p[n] = t
              /\ inodes[p[n]].kind = "Symlink" => n = M + 1
        BY <2>1
    <2>3. FilestatInode(i, follow) =
            IF inodes[t].kind # "Symlink" THEN Ok(inodes[t].stat) ELSE Err("EMLINK")
        BY <1>2 DEF FilestatInode
    (* A resolved end u is reached by a chain q of n2 hops. *)
    <2>4. ASSUME NEW u \in Resolved(i, M + 1)
          PROVE  \E n2 \in 1 .. M + 1 : \E q \in [0 .. n2 -> Inodes] :
                    IsChain(q, i, n2) /\ q[n2] = u /\ inodes[u].kind # "Symlink"
        BY ChainDef DEF Resolved
    <2>5. CASE inodes[t].kind # "Symlink"
        <3>1. t \in Resolved(i, M + 1)
            BY <2>2, <2>5, ChainDef DEF Resolved
        <3>2. ASSUME NEW u \in Resolved(i, M + 1) PROVE u = t
            <4>1. PICK n2 \in 1 .. M + 1 : \E q \in [0 .. n2 -> Inodes] :
                      IsChain(q, i, n2) /\ q[n2] = u /\ inodes[u].kind # "Symlink"
                BY <2>4
            <4>2. PICK q \in [0 .. n2 -> Inodes] :
                      IsChain(q, i, n2) /\ q[n2] = u /\ inodes[u].kind # "Symlink"
                BY <4>1
            <4>3. CASE n <= n2
                BY <4>2, <4>3, <2>2, <2>5, <1>0, ChainEnd
            <4>4. CASE n2 <= n
                BY <4>2, <4>4, <2>2, <1>0, ChainEnd
            <4>. QED
                BY <4>3, <4>4, <1>0
        <3>3. (CHOOSE x \in Resolved(i, M + 1) : TRUE) = t
            BY <3>1, <3>2
        <3>. QED
            BY <1>2, <2>3, <2>5, <3>1, <3>3 DEF RefFilestat
    <2>6. CASE inodes[t].kind = "Symlink"
        <3>1. n = M + 1
            BY <2>2, <2>6
        <3>2. ASSUME NEW u \in Resolved(i, M + 1) PROVE FALSE
            <4>1. PICK n2 \in 1 .. M + 1 : \E q \in [0 .. n2 -> Inodes] :
                      IsChain(q, i, n2) /\ q[n2] = u /\ inodes[u].kind # "Symlink"
                BY <2>4
            <4>2. PICK q \in [0 .. n2 -> Inodes] :
                      IsChain(q, i, n2) /\ q[n2] = u /\ inodes[u].kind # "Symlink"
                BY <4>1
            <4>3. n2 = n /\ q[n2] = p[n]
                BY <4>2, <3>1, <2>2, <1>0, ChainEnd
            <4>. QED
                BY <4>2, <4>3, <2>2, <2>6
        <3>3. Resolved(i, M + 1) = {}
            BY <3>2
        <3>. QED
            BY <1>2, <2>3, <2>6, <3>3 DEF RefFilestat
    <2>. QED
        BY <2>5, <2>6
<1>. QED
    BY <1>1, <1>2

-----------------------------------------------------------------------------
(* SymlinkResolution is inductive together with TypeOK, LinksInArena and  *)
(* NamesInArena: filestat_path computes its result from a cached name of  *)
(* an arena slot (FilestatMatchesRef), nothing changes the arena but      *)
(* InsertInode (which only appends, forwarding into the grown arena), and *)
(* every other call overwrites ret with another operation.               *)

(* The reference definition depends on the arena alone. *)
LEMMA RefFilestatFrame ==
    ASSUME inodes' = inodes, NEW i, NEW follow, NEW b
    PROVE  RefFilestat(i, follow, b)' = RefFilestat(i, follow, b)
BY DEF RefFilestat, Resolved, Chain, Inodes

LEMMA InitSInv == Init => SInv
<1>. SUFFICES ASSUME NEW ps \in PreopenLists, NEW repo_ok \in BOOLEAN,
                    NewFs(ps, repo_ok)
              PROVE  LinksInArena /\ NamesInArena /\ SymlinkResolution
    BY InitTypeOK DEF Init, SInv
<1>1. ret.op = "new" /\ name_map = EmptyMap
    BY DEF NewFs
<1>2. \A j \in Inodes : inodes[j].kind = "Dir"
    BY DEF NewFs, PreopenInode, Inodes
<1>. QED
    BY <1>1, <1>2 DEF LinksInArena, NamesInArena, SymlinkResolution, EmptyMap

(* The calls that change neither the arena nor the name cache, and leave *)
(* a result that is not filestat_path's.                                  *)
LEMMA OtherCallSInv ==
    ASSUME SInv, TypeOK', inodes' = inodes, name_map' = name_map,
           ret'.op # "filestat_path"
    PROVE  SInv'
BY DEF SInv, LinksInArena, NamesInArena, SymlinkResolution, Inodes

LEMMA FilestatPathSInv ==
    ASSUME SInv, NEW follow \in BOOLEAN, NEW path \in Names,
           FilestatPath(follow, path)
    PROVE  SInv'
<1>1. TypeOK'
    BY FilestatPathTypeOK DEF SInv
<1>2. inodes' = inodes /\ name_map' = name_map
    BY DEF FilestatPath
<1>3. (LinksInArena /\ NamesInArena)'
    BY <1>2 DEF SInv, LinksInArena, NamesInArena, Inodes
<1>4. ASSUME path \in DOMAIN name_map
      PROVE  ret'.res = RefFilestat(name_map[path], follow, MaxSymlinks + 1)'
    <2>1. name_map[path] \in Inodes /\ GetInode(path) = name_map[path]
        BY <1>4 DEF SInv, NamesInArena, GetInode
    <2>2. GetInode(path) # NoInode
        BY <2>1 DEF Inodes, NoInode
    <2>3. ret'.res = FilestatInode(name_map[path], follow)
        BY <2>1, <2>2 DEF FilestatPath
    <2>4. FilestatInode(name_map[path], follow)
            = RefFilestat(name_map[path], follow, MaxSymlinks + 1)
        BY <2>1, FilestatMatchesRef DEF SInv
    <2>. QED
        BY <1>2, <2>3, <2>4, RefFilestatFrame
<1>5. SymlinkResolution'
    <2>1. ret'.op = "filestat_path" /\ ret'.path = path /\ ret'.follow = follow
        BY DEF FilestatPath
    <2>. QED
        BY <1>2, <1>4, <2>1 DEF SymlinkResolution
<1>. QED
    BY <1>1, <1>3, <1>5 DEF SInv

LEMMA InsertInodeSInv ==
    ASSUME SInv, NEW k \in InsertKinds, NEW st \in Stats,
           NEW fwd \in IF k = "Symlink" THEN 1 .. Len(inodes) + 1 ELSE {NoInode},
           InsertInode(k, fwd, st)
    PROVE  SInv'
<1>. DEFINE rec == [kind |-> k, forwarded |-> fwd, preopened |-> FALSE,
                    name |-> "anon", stat |-> st]
<1>1. inodes \in Seq(InodeVal) /\ inodes' = Append(inodes, rec)
    BY DEF SInv, TypeOK, InsertInode
<1>2. TypeOK'
    <2>1. fwd \in Nat
        BY DEF NoInode
    <2>. QED
        BY <2>1, InsertInodeTypeOK DEF SInv
<1>3. /\ Len(inodes') = Len(inodes) + 1
      /\ \A j \in 1 .. Len(inodes) : inodes'[j] = inodes[j]
      /\ inodes'[Len(inodes) + 1] = rec
    BY <1>1, AppendProperties
<1>4. Inodes \subseteq Inodes'
    BY <1>3 DEF Inodes
<1>5. LinksInArena'
    <2>. SUFFICES ASSUME NEW j \in Inodes', inodes'[j].kind = "Symlink"
                  PROVE  inodes'[j].forwarded \in Inodes'
        BY DEF LinksInArena
    <2>1. CASE j \in Inodes
        BY <2>1, <1>3, <1>4 DEF SInv, LinksInArena, Inodes
    <2>2. CASE j = Len(inodes) + 1
        <3>1. k = "Symlink"
            BY <2>2, <1>3
        <3>. QED
            BY <2>2, <1>3, <3>1 DEF Inodes
    <2>. QED
        BY <2>1, <2>2, <1>3 DEF Inodes
<1>6. NamesInArena'
    BY <1>4 DEF SInv, NamesInArena, InsertInode
<1>7. SymlinkResolution'
    BY DEF InsertInode, SymlinkResolution
<1>. QED
    BY <1>2, <1>5, <1>6, <1>7 DEF SInv

LEMMA CacheNameSInv ==
    ASSUME SInv, NEW path \in Names, NEW i \in Inodes, CacheName(path, i)
    PROVE  SInv'
<1>1. TypeOK'
    BY CacheNameTypeOK DEF SInv
<1>2. inodes' = inodes /\ name_map' = MapPut(name_map, path, i) /\ ret'.op = "cache"
    BY DEF CacheName
<1>3. NamesInArena'
    BY <1>2 DEF SInv, NamesInArena, MapPut, Inodes
<1>. QED
    BY <1>1, <1>2, <1>3 DEF SInv, LinksInArena, SymlinkResolution, Inodes

LEMMA NextSInv == SInv /\ [Next]_vars => SInv'
<1>. SUFFICES ASSUME SInv, [Next]_vars PROVE SInv'
    OBVIOUS
<1>0. TypeOK'
    BY NextTypeOK DEF SInv
<1>1. CASE \E fd \in QueryFds :
             FilestatFd(fd) \/ Fdstat(fd) \/ PrestatFd(fd) \/ Flush(fd)
    <2>1. inodes' = inodes /\ name_map' = name_map /\ ret'.op # "filestat_path"
        BY <1>1 DEF FilestatFd, Fdstat, PrestatFd, Flush, FlushRet
    <2>. QED
        BY <1>0, <2>1, OtherCallSInv
<1>2. CASE \E follow \in BOOLEAN, path \in Names : FilestatPath(follow, path)
    BY <1>2, FilestatPathSInv
<1>3. CASE \E r, ri \in GrantSets, i \in Inodes : CreateFd(r, ri, i)
    <2>1. inodes' = inodes /\ name_map' = name_map /\ ret'.op # "filestat_path"
        BY <1>3 DEF CreateFd
    <2>. QED
        BY <1>0, <2>1, OtherCallSInv
<1>4. CASE \E k \in InsertKinds, s \in Stats :
             \E fwd \in IF k = "Symlink" THEN 1 .. Len(inodes) + 1 ELSE {NoInode} :
                InsertInode(k, fwd, s)
    BY <1>4, InsertInodeSInv
<1>5. CASE \E path \in Names, i \in Inodes : CacheName(path, i)
    BY <1>5, CacheNameSInv
<1>6. CASE UNCHANGED vars
    <2>1. inodes' = inodes /\ name_map' = name_map /\ ret' = ret
        BY <1>6 DEF vars
    <2>2. (LinksInArena /\ NamesInArena)'
        BY <2>1 DEF SInv, LinksInArena, NamesInArena, Inodes
    <2>3. SymlinkResolution'
        BY <2>1, RefFilestatFrame DEF SInv, SymlinkResolution
    <2>. QED
        BY <1>0, <2>2, <2>3 DEF SInv
<1>. QED
    BY <1>1, <1>2, <1>3, <1>4, <1>5, <1>6 DEF Next

(* filestat_path through a cached name returns what the reference         *)
(* definition of symlink resolution says, with the bound MAX_SYMLINKS + 1 *)
(* that the while loop of filestat_inode enforces: for every MAX_SYMLINKS *)
(* and every sequence of calls, not only the small instance TLC checks.   *)
THEOREM SymlinkResolutionHolds == Spec => []SymlinkResolution
<1>1. Spec => []SInv
    BY InitSInv, NextSInv, PTL DEF Spec
<1>. QED
    BY <1>1, PTL DEF SInv

=============================================================================
