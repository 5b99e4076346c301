---------------------------- MODULE WasiFs_proofs ----------------------------
(***************************************************************************)
(* Proofs about WasiFs, for every value of its constants: type            *)
(* correctness, and in a debug build the descriptor-id invariant behind    *)
(* create_fd never overwriting a live descriptor.                          *)
(***************************************************************************)
EXTENDS WasiFs, SequenceTheorems, TLAPS

-----------------------------------------------------------------------------
(* Facts about the constants and the helpers. *)

LEMMA FdLimitFacts ==
    /\ FdLimit \in Nat
    /\ MaxPreopens \in Nat
    /\ MaxPreopens + 3 < FdLimit
BY FdWidthAssumption, MaxPreopensAssumption DEF FdLimit

(* A preopen list is a sequence of paths no longer than MaxPreopens. *)
LEMMA PreopenListFacts ==
    ASSUME NEW ps \in PreopenLists
    PROVE  /\ ps \in Seq(Paths)
           /\ Len(ps) \in 0 .. MaxPreopens
<1>1. PICK n \in 0 .. MaxPreopens : ps \in [1 .. n -> Paths]
    BY DEF PreopenLists
<1>2. n \in Nat
    BY <1>1, MaxPreopensAssumption
<1>3. ps \in Seq(Paths)
    BY <1>1, <1>2, SeqDef
<1>4. Len(ps) = n
    BY <1>1, <1>3, LenProperties
<1>. QED
    BY <1>3, <1>4, <1>1

(* MapPut extends the domain by the key and keeps every other entry. *)
LEMMA MapPutFacts ==
    ASSUME NEW f, NEW k, NEW v
    PROVE  /\ DOMAIN MapPut(f, k, v) = DOMAIN f \cup {k}
           /\ MapPut(f, k, v)[k] = v
           /\ \A x \in DOMAIN f \ {k} : MapPut(f, k, v)[x] = f[x]
BY DEF MapPut

-----------------------------------------------------------------------------
(* Type correctness. *)

LEMMA InitTypeOK == Init => TypeOK
<1>. SUFFICES ASSUME NEW ps \in PreopenLists, NEW repo_ok \in BOOLEAN,
              NewFs(ps, repo_ok) PROVE TypeOK
    BY DEF Init
<1>1. ps \in Seq(Paths) /\ Len(ps) \in 0 .. MaxPreopens
    BY PreopenListFacts
<1>2. preopens \in Seq(Paths)
    BY <1>1 DEF NewFs
<1>3. name_map = EmptyMap /\ ret.op = "new"
    BY DEF NewFs
<1>4. DOMAIN name_map \subseteq Names /\ name_map \in [DOMAIN name_map -> Nat \ {0}]
    BY <1>3 DEF EmptyMap
<1>5. CASE repo_ok /\ {k \in 1 .. Len(ps) : HostKind[ps[k]] # "dir"} = {}
    <2>1. inodes = [k \in 1 .. Len(ps) |-> PreopenInode(ps[k])]
          /\ fd_map = [fd \in 3 .. Len(ps) + 2 |->
                         [rights |-> Rights, rights_inheriting |-> Rights,
                          inode |-> fd - 2]]
          /\ next_fd = NextFdAfterNew(ps)
          /\ phase = "running"
        BY <1>5 DEF NewFs
    <2>2. \A k \in 1 .. Len(ps) : PreopenInode(ps[k]) \in InodeVal
        BY <1>1, ElementOfSeq, StatAssumption DEF PreopenInode, InodeVal, Kinds, NoInode
    <2>3. inodes \in Seq(InodeVal)
        BY <2>1, <2>2, <1>1, IsASeq
    <2>4. DOMAIN fd_map \subseteq FdIds /\ fd_map \in [DOMAIN fd_map -> Fd]
        BY <2>1, <1>1, FdLimitFacts DEF FdIds, Fd
    <2>5. next_fd \in FdIds
        BY <2>1, <1>1, FdLimitFacts DEF NextFdAfterNew, FdIds
    <2>. QED
        BY <1>2, <1>3, <1>4, <2>1, <2>3, <2>4, <2>5 DEF TypeOK
<1>6. CASE ~(repo_ok /\ {k \in 1 .. Len(ps) : HostKind[ps[k]] # "dir"} = {})
    <2>1. inodes = << >> /\ fd_map = EmptyMap /\ next_fd = 3
          /\ phase \in {"init_error", "panicked"}
        BY <1>6 DEF NewFs
    <2>2. inodes \in Seq(InodeVal)
        BY <2>1, EmptySeq
    <2>3. next_fd \in FdIds
        BY <2>1, FdLimitFacts DEF FdIds
    <2>. QED
        BY <1>2, <1>3, <1>4, <2>1, <2>2, <2>3 DEF TypeOK, EmptyMap
<1>. QED
    BY <1>5, <1>6

(* The calls that only answer: everything but ret (and phase, for the     *)
(* panic of flush on a Symlink) stays as it is.                           *)
LEMMA QueryTypeOK ==
    ASSUME TypeOK, NEW fd \in QueryFds,
           FilestatFd(fd) \/ Fdstat(fd) \/ PrestatFd(fd) \/ Flush(fd)
    PROVE  TypeOK'
<1>1. CASE FilestatFd(fd) \/ Fdstat(fd) \/ PrestatFd(fd)
    BY <1>1 DEF FilestatFd, Fdstat, PrestatFd, TypeOK
<1>2. CASE Flush(fd)
    <2>1. ret'.op = "flush" /\ phase' \in {phase, "panicked"}
        BY <1>2 DEF Flush, FlushRet
    <2>. QED
        BY <1>2, <2>1 DEF Flush, TypeOK
<1>. QED
    BY <1>1, <1>2

LEMMA FilestatPathTypeOK ==
    ASSUME TypeOK, NEW follow \in BOOLEAN, NEW path \in Names,
           FilestatPath(follow, path)
    PROVE  TypeOK'
BY DEF FilestatPath, TypeOK

LEMMA CreateFdTypeOK ==
    ASSUME TypeOK, NEW r \in GrantSets, NEW ri \in GrantSets,
           NEW i \in Inodes, CreateFd(r, ri, i)
    PROVE  TypeOK'
<1>1. CASE Overflows(next_fd)
    BY <1>1 DEF CreateFd, TypeOK
<1>2. CASE ~Overflows(next_fd)
    <2>1. next_fd' = FdAfter(next_fd)
          /\ fd_map' = MapPut(fd_map, next_fd,
                         [rights |-> r, rights_inheriting |-> ri, inode |-> i])
          /\ ret'.op = "create_fd"
          /\ UNCHANGED <<phase, preopens, inodes, name_map>>
        BY <1>2 DEF CreateFd
    <2>2. FdAfter(next_fd) \in FdIds
        <3>1. CASE Build = "debug"
            <4>1. next_fd + 1 # FdLimit
                BY <1>2, <3>1 DEF Overflows
            <4>. QED
                BY <3>1, <4>1, FdLimitFacts DEF TypeOK, FdIds, FdAfter
        <3>2. CASE Build = "release"
            BY <3>2, FdLimitFacts DEF TypeOK, FdIds, FdAfter
        <3>. QED
            BY <3>1, <3>2, BuildAssumption
    <2>3. [rights |-> r, rights_inheriting |-> ri, inode |-> i] \in Fd
        BY RightsAssumption DEF Fd, Inodes
    <2>4. DOMAIN fd_map' \subseteq FdIds /\ fd_map' \in [DOMAIN fd_map' -> Fd]
        BY <2>1, <2>3 DEF TypeOK, MapPut
    <2>. QED
        BY <2>1, <2>2, <2>4 DEF TypeOK
<1>. QED
    BY <1>1, <1>2

LEMMA InsertInodeTypeOK ==
    ASSUME TypeOK, NEW k \in InsertKinds, NEW st \in Stats, NEW fwd \in Nat,
           InsertInode(k, fwd, st)
    PROVE  TypeOK'
<1>1. [kind |-> k, forwarded |-> fwd, preopened |-> FALSE, name |-> "anon",
       stat |-> st] \in InodeVal
    BY InsertKindsAssumption DEF InodeVal, Kinds
<1>2. inodes' \in Seq(InodeVal)
    BY <1>1, AppendProperties DEF InsertInode, TypeOK
<1>. QED
    BY <1>2 DEF InsertInode, TypeOK

LEMMA CacheNameTypeOK ==
    ASSUME TypeOK, NEW path \in Names, NEW i \in Inodes, CacheName(path, i)
    PROVE  TypeOK'
<1>1. name_map' = MapPut(name_map, path, i) /\ ret'.op = "cache"
    BY DEF CacheName
<1>2. i \in Nat \ {0}
    BY DEF Inodes
<1>3. DOMAIN name_map' \subseteq Names /\ name_map' \in [DOMAIN name_map' -> Nat \ {0}]
    BY <1>1, <1>2 DEF TypeOK, MapPut
<1>. QED
    BY <1>1, <1>3 DEF CacheName, TypeOK

LEMMA NextTypeOK == TypeOK /\ [Next]_vars => TypeOK'
<1>. SUFFICES ASSUME TypeOK, [Next]_vars PROVE TypeOK'
    OBVIOUS
<1>1. CASE \E fd \in QueryFds :
             FilestatFd(fd) \/ Fdstat(fd) \/ PrestatFd(fd) \/ Flush(fd)
    BY <1>1, QueryTypeOK
<1>2. CASE \E follow \in BOOLEAN, path \in Names : FilestatPath(follow, path)
    BY <1>2, FilestatPathTypeOK
<1>3. CASE \E r, ri \in GrantSets, i \in Inodes : CreateFd(r, ri, i)
    BY <1>3, CreateFdTypeOK
<1>4. CASE \E k \in InsertKinds, s \in Stats :
             \E fwd \in IF k = "Symlink" THEN 1 .. Len(inodes) + 1 ELSE {NoInode} :
                InsertInode(k, fwd, s)
    <2>. PICK k \in InsertKinds, s \in Stats :
              \E fwd \in IF k = "Symlink" THEN 1 .. Len(inodes) + 1 ELSE {NoInode} :
                 InsertInode(k, fwd, s)
        BY <1>4
    <2>. PICK fwd \in IF k = "Symlink" THEN 1 .. Len(inodes) + 1 ELSE {NoInode} :
              InsertInode(k, fwd, s)
        OBVIOUS
    <2>1. fwd \in Nat
        BY DEF NoInode, TypeOK
    <2>. QED
        BY <2>1, InsertInodeTypeOK
<1>5. CASE \E path \in Names, i \in Inodes : CacheName(path, i)
    BY <1>5, CacheNameTypeOK
<1>6. CASE UNCHANGED vars
    BY <1>6 DEF vars, TypeOK, FdIds, Inodes
<1>. QED
    BY <1>1, <1>2, <1>3, <1>4, <1>5, <1>6 DEF Next

(* Every reachable state is well typed. *)
THEOREM TypeCorrect == Spec => []TypeOK
BY InitTypeOK, NextTypeOK, PTL DEF Spec

-----------------------------------------------------------------------------
(* Descriptor ids in a debug build.  FdIdsBelowNext is inductive together *)
(* with TypeOK: only create_fd changes fd_map or next_fd, and, while the  *)
(* u32 add does not overflow, it inserts exactly the old next_fd and      *)
(* raises next_fd by one; on overflow the instance is gone (panic).       *)

IInv == /\ TypeOK
        /\ FdIdsBelowNext
        /\ phase = "running" => 3 <= next_fd

LEMMA InitIInv == Init => IInv
<1>. SUFFICES ASSUME NEW ps \in PreopenLists, NEW repo_ok \in BOOLEAN,
              NewFs(ps, repo_ok)
              PROVE  FdIdsBelowNext /\ (phase = "running" => 3 <= next_fd)
    BY InitTypeOK DEF Init, IInv
<1>1. CASE repo_ok /\ {k \in 1 .. Len(ps) : HostKind[ps[k]] # "dir"} = {}
    <2>1. DOMAIN fd_map = 3 .. Len(ps) + 2 /\ next_fd = Len(ps) + 3
        BY <1>1 DEF NewFs, NextFdAfterNew
    <2>2. Len(ps) \in Nat
        BY PreopenListFacts
    <2>. QED
        BY <2>1, <2>2 DEF FdIdsBelowNext
<1>2. CASE ~(repo_ok /\ {k \in 1 .. Len(ps) : HostKind[ps[k]] # "dir"} = {})
    BY <1>2 DEF NewFs, FdIdsBelowNext
<1>. QED
    BY <1>1, <1>2

(* In a debug build create_fd stores under an id no descriptor has yet. *)
LEMMA CreateFdFresh ==
    ASSUME Build = "debug", IInv, NEW r, NEW ri, NEW i, CreateFd(r, ri, i)
    PROVE  \/ phase' = "panicked" /\ UNCHANGED <<fd_map, next_fd>>
           \/ /\ next_fd \notin DOMAIN fd_map
              /\ next_fd' = next_fd + 1
              /\ fd_map' = MapPut(fd_map, next_fd,
                             [rights |-> r, rights_inheriting |-> ri, inode |-> i])
<1>1. phase = "running"
    BY DEF CreateFd
<1>2. next_fd \notin DOMAIN fd_map
    BY <1>1 DEF IInv, FdIdsBelowNext, TypeOK, FdIds
<1>3. CASE Overflows(next_fd)
    BY <1>3 DEF CreateFd
<1>4. CASE ~Overflows(next_fd)
    BY <1>2, <1>4 DEF CreateFd, FdAfter
<1>. QED
    BY <1>3, <1>4

LEMMA NextIInv ==
    ASSUME Build = "debug"
    PROVE  IInv /\ [Next]_vars => IInv'
<1>. SUFFICES ASSUME IInv, [Next]_vars
              PROVE  FdIdsBelowNext' /\ (phase' = "running" => 3 <= next_fd')
    BY NextTypeOK DEF IInv
<1>. USE DEF FdIdsBelowNext
<1>1. CASE \E fd \in QueryFds :
             FilestatFd(fd) \/ Fdstat(fd) \/ PrestatFd(fd) \/ Flush(fd)
    BY <1>1 DEF IInv, FilestatFd, Fdstat, PrestatFd, Flush
<1>2. CASE \E follow \in BOOLEAN, path \in Names : FilestatPath(follow, path)
    BY <1>2 DEF IInv, FilestatPath
<1>3. CASE \E r, ri \in GrantSets, i \in Inodes : CreateFd(r, ri, i)
    <2>. PICK r, ri \in GrantSets, i \in Inodes : CreateFd(r, ri, i)
        BY <1>3
    <2>1. CASE phase' = "panicked"
        BY <2>1
    <2>2. CASE phase' # "panicked"
        <3>0. ~Overflows(next_fd) /\ phase' = phase
            BY <2>2 DEF CreateFd
        <3>1. /\ next_fd' = next_fd + 1
              /\ DOMAIN fd_map' = DOMAIN fd_map \cup {next_fd}
            BY <3>0, MapPutFacts DEF CreateFd, FdAfter
        <3>2. phase = "running" /\ next_fd \in Nat /\ DOMAIN fd_map \subseteq Nat
            BY DEF CreateFd, IInv, TypeOK, FdIds
        <3>. QED
            BY <3>0, <3>1, <3>2 DEF IInv
    <2>. QED
        BY <2>1, <2>2
<1>4. CASE \E k \in InsertKinds, s \in Stats :
             \E fwd \in IF k = "Symlink" THEN 1 .. Len(inodes) + 1 ELSE {NoInode} :
                InsertInode(k, fwd, s)
    BY <1>4 DEF IInv, InsertInode
<1>5. CASE \E path \in Names, i \in Inodes : CacheName(path, i)
    BY <1>5 DEF IInv, CacheName
<1>6. CASE UNCHANGED vars
    BY <1>6 DEF IInv, vars
<1>. QED
    BY <1>1, <1>2, <1>3, <1>4, <1>5, <1>6 DEF Next

(* In a debug build every descriptor id lies in 3 .. next_fd - 1. *)
THEOREM FdIdsBelowNextHolds ==
    ASSUME Build = "debug"
    PROVE  Spec => []FdIdsBelowNext
<1>1. Spec => []IInv
    BY InitIInv, NextIInv, PTL DEF Spec
<1>. QED
    BY <1>1, PTL DEF IInv

(* new leaves the table in an initial state of the abstract spec: the ids *)
(* 3 .. n + 2, or none when new failed.                                   *)
LEMMA InitRefined == Init => AbsTable!Init
<1>. SUFFICES ASSUME NEW ps \in PreopenLists, NEW repo_ok \in BOOLEAN,
              NewFs(ps, repo_ok),
                     NEW x \in DOMAIN fd_map
              PROVE  3 <= x /\ (x > 3 => x - 1 \in DOMAIN fd_map)
    BY DEF Init, AbsTable!Init, AbsTable!Live
<1>1. CASE repo_ok /\ {k \in 1 .. Len(ps) : HostKind[ps[k]] # "dir"} = {}
    <2>1. DOMAIN fd_map = 3 .. Len(ps) + 2
        BY <1>1 DEF NewFs
    <2>2. Len(ps) \in Nat
        BY PreopenListFacts
    <2>. QED
        BY <2>1, <2>2
<1>2. CASE ~(repo_ok /\ {k \in 1 .. Len(ps) : HostKind[ps[k]] # "dir"} = {})
    BY <1>2 DEF NewFs, EmptyMap
<1>. QED
    BY <1>1, <1>2

(* In a debug build each step of WasiFs is an allocation of the abstract  *)
(* table or leaves fd_map alone.                                          *)
LEMMA NextRefined ==
    ASSUME Build = "debug"
    PROVE  IInv /\ [Next]_vars => [AbsTable!Allocate]_fd_map
<1>. SUFFICES ASSUME IInv, [Next]_vars, fd_map' # fd_map
              PROVE  AbsTable!Allocate
    OBVIOUS
<1>1. PICK r, ri \in GrantSets, i \in Inodes : CreateFd(r, ri, i)
    BY DEF Next, vars, FilestatFd, Fdstat, PrestatFd, Flush,
           FilestatPath, InsertInode, CacheName
<1>2. /\ next_fd \notin DOMAIN fd_map
      /\ fd_map' = MapPut(fd_map, next_fd,
                     [rights |-> r, rights_inheriting |-> ri, inode |-> i])
    BY <1>1, CreateFdFresh
<1>3. phase = "running"
    BY <1>1 DEF CreateFd
<1>4. /\ 3 <= next_fd
      /\ \A x \in DOMAIN fd_map : x < next_fd
    BY <1>3 DEF IInv, FdIdsBelowNext
<1>5. DOMAIN fd_map' \ DOMAIN fd_map = {next_fd}
    BY <1>2 DEF MapPut
<1>6. \E id \in DOMAIN fd_map' \ DOMAIN fd_map :
         /\ DOMAIN fd_map' \ DOMAIN fd_map = {id}
         /\ 3 <= id
         /\ \A x \in DOMAIN fd_map : x < id
    BY <1>4, <1>5
<1>7. DOMAIN fd_map \subseteq DOMAIN fd_map'
    BY <1>2 DEF MapPut
<1>8. \A x \in DOMAIN fd_map : fd_map'[x] = fd_map[x]
    BY <1>2 DEF MapPut
<1>. QED
    BY <1>6, <1>7, <1>8 DEF AbsTable!Allocate, AbsTable!Live

(* In a debug build WasiFs implements the spec's descriptor table. *)
THEOREM FdTableRefinedHolds ==
    ASSUME Build = "debug"
    PROVE  Spec => FdTableRefined
<1>1. Spec => []IInv
    BY InitIInv, NextIInv, PTL DEF Spec
<1>. QED
    BY <1>1, InitRefined, NextRefined, PTL
       DEF Spec, FdTableRefined, AbsTable!Spec

-----------------------------------------------------------------------------
(* The DATASYNC guard of flush, in both build modes.  FlushGuarded is     *)
(* inductive as it stands: every action writes ret, only flush writes a   *)
(* "flush" answer, and flush leaves fd_map as it is.                      *)

LEMMA FlushStep ==
    ASSUME NEW fd, Flush(fd)
    PROVE  FlushGuarded'
<1>. SUFFICES ASSUME fd \notin {0, 1, 2}, fd \in DOMAIN fd_map
              PROVE  /\ ret'.io = "handle" => DATASYNC \in fd_map[fd].rights
                     /\ DATASYNC \notin fd_map[fd].rights => ret'.res = Err("EACCES")
    BY DEF Flush, FlushRet, FlushGuarded
<1>1. CASE Denied(fd)
    BY <1>1 DEF Flush, FlushRet, Denied
<1>2. CASE ~Denied(fd)
    <2>1. ret'.io \in {"handle", "none"}
        BY <1>2 DEF Flush, FlushRet
    <2>. QED
        BY <1>2, <2>1 DEF Denied
<1>. QED
    BY <1>1, <1>2

LEMMA NextFlushGuarded == FlushGuarded /\ [Next]_vars => FlushGuarded'
<1>. SUFFICES ASSUME FlushGuarded, [Next]_vars PROVE FlushGuarded'
    OBVIOUS
<1>1. CASE \E fd \in QueryFds : Flush(fd)
    BY <1>1, FlushStep
<1>2. CASE ~\E fd \in QueryFds : Flush(fd)
    <2>1. CASE UNCHANGED vars
        BY <2>1 DEF vars, FlushGuarded
    <2>2. CASE Next
        <3>1. ret'.op # "flush"
            <4>1. CASE \E fd \in QueryFds :
                         FilestatFd(fd) \/ Fdstat(fd) \/ PrestatFd(fd) \/ Flush(fd)
                <5>. PICK fd \in QueryFds :
                          FilestatFd(fd) \/ Fdstat(fd) \/ PrestatFd(fd) \/ Flush(fd)
                    BY <4>1
                <5>. QED
                    BY <1>2 DEF FilestatFd, Fdstat, PrestatFd
            <4>2. CASE \E follow \in BOOLEAN, path \in Names : FilestatPath(follow, path)
                BY <4>2 DEF FilestatPath
            <4>3. CASE \E r, ri \in GrantSets, i \in Inodes : CreateFd(r, ri, i)
                BY <4>3 DEF CreateFd
            <4>4. CASE \E k \in InsertKinds, s \in Stats :
                         \E fwd \in IF k = "Symlink" THEN 1 .. Len(inodes) + 1
                                                     ELSE {NoInode} :
                            InsertInode(k, fwd, s)
                BY <4>4 DEF InsertInode
            <4>5. CASE \E path \in Names, i \in Inodes : CacheName(path, i)
                BY <4>5 DEF CacheName
            <4>. QED
                BY <2>2, <4>1, <4>2, <4>3, <4>4, <4>5 DEF Next
        <3>. QED
            BY <3>1 DEF FlushGuarded
    <2>. QED
        BY <2>1, <2>2
<1>. QED
    BY <1>1, <1>2

(* In every build, no handle is flushed without DATASYNC, and a missing  *)
(* DATASYNC right makes flush fail with EACCES.                           *)
THEOREM FlushGuardedHolds == Spec => []FlushGuarded
<1>1. Init => FlushGuarded
    BY DEF Init, NewFs, FlushGuarded
<1>. QED
    BY <1>1, NextFlushGuarded, PTL DEF Spec

-----------------------------------------------------------------------------
(* The preopened descriptors in a debug build.  PreopensMounted needs     *)
(* IInv (so that create_fd never lands on a preopened id) and the fact    *)
(* that the preopened inodes are a prefix of the arena (so that an        *)
(* insert, which appends, leaves them alone).                             *)

PInv == /\ IInv
        /\ PreopensMounted
        /\ phase = "running" => Len(preopens) <= Len(inodes)

LEMMA InitPInv == Init => PInv
<1>. SUFFICES ASSUME NEW ps \in PreopenLists, NEW repo_ok \in BOOLEAN,
              NewFs(ps, repo_ok)
              PROVE  PreopensMounted /\ (phase = "running" => Len(preopens) <= Len(inodes))
    BY InitIInv DEF Init, PInv
<1>1. CASE repo_ok /\ {k \in 1 .. Len(ps) : HostKind[ps[k]] # "dir"} = {}
    <2>1. /\ preopens = ps
          /\ inodes = [k \in 1 .. Len(ps) |-> PreopenInode(ps[k])]
          /\ fd_map = [fd \in 3 .. Len(ps) + 2 |->
                         [rights |-> Rights, rights_inheriting |-> Rights,
                          inode |-> fd - 2]]
        BY <1>1 DEF NewFs
    <2>2. Len(ps) \in Nat
        BY PreopenListFacts
    <2>3. Len(inodes) = Len(ps) /\ Inodes = 1 .. Len(ps)
        BY <2>1, <2>2 DEF Inodes
    <2>. QED
        BY <2>1, <2>2, <2>3 DEF PreopensMounted, PreopenInode
<1>2. CASE ~(repo_ok /\ {k \in 1 .. Len(ps) : HostKind[ps[k]] # "dir"} = {})
    BY <1>2 DEF NewFs, PreopensMounted
<1>. QED
    BY <1>1, <1>2

(* A step that changes neither preopens, inodes nor fd_map and does not  *)
(* start an instance keeps the two preopen conjuncts.                    *)
LEMMA FrameStep ==
    ASSUME PInv, UNCHANGED <<preopens, inodes, fd_map>>,
           phase' = "running" => phase = "running"
    PROVE  PreopensMounted' /\ (phase' = "running" => Len(preopens') <= Len(inodes'))
BY DEF PInv, PreopensMounted, Inodes

LEMMA CreateFdPInv ==
    ASSUME Build = "debug", PInv, NEW r, NEW ri, NEW i, CreateFd(r, ri, i)
    PROVE  PreopensMounted' /\ (phase' = "running" => Len(preopens') <= Len(inodes'))
<1>1. CASE Overflows(next_fd)
    BY <1>1 DEF CreateFd, PreopensMounted
<1>2. CASE ~Overflows(next_fd)
    <2>1. /\ phase = "running" /\ phase' = phase
          /\ UNCHANGED <<preopens, inodes>>
          /\ fd_map' = MapPut(fd_map, next_fd,
                         [rights |-> r, rights_inheriting |-> ri, inode |-> i])
        BY <1>2 DEF CreateFd
    <2>2. next_fd \notin DOMAIN fd_map
        BY <2>1 DEF PInv, IInv, FdIdsBelowNext, TypeOK, FdIds
    <2>3. \A k \in 1 .. Len(preopens) :
             k + 2 \in DOMAIN fd_map' /\ fd_map'[k + 2] = fd_map[k + 2]
        BY <2>1, <2>2 DEF PInv, PreopensMounted, MapPut
    <2>. QED
        BY <2>1, <2>3 DEF PInv, PreopensMounted, Inodes
<1>. QED
    BY <1>1, <1>2

LEMMA InsertInodePInv ==
    ASSUME PInv, NEW k, NEW fwd, NEW s, InsertInode(k, fwd, s)
    PROVE  PreopensMounted' /\ (phase' = "running" => Len(preopens') <= Len(inodes'))
<1>. DEFINE rec == [kind |-> k, forwarded |-> fwd, preopened |-> FALSE,
                    name |-> "anon", stat |-> s]
<1>1. /\ inodes' = Append(inodes, rec)
      /\ phase = "running" /\ UNCHANGED <<phase, preopens, fd_map>>
    BY DEF InsertInode
<1>2. inodes \in Seq(InodeVal) /\ Len(preopens) <= Len(inodes)
    BY <1>1 DEF PInv, IInv, TypeOK
<1>3. /\ Len(inodes') = Len(inodes) + 1
      /\ inodes'[Len(inodes) + 1] = rec
      /\ \A j \in 1 .. Len(inodes) : inodes'[j] = inodes[j]
    BY <1>1, <1>2, AppendProperties
<1>4. \A j \in 1 .. Len(preopens) :
         /\ j + 2 \in DOMAIN fd_map' /\ fd_map'[j + 2].inode = j
         /\ inodes'[j] = PreopenInode(preopens'[j])
    BY <1>1, <1>2, <1>3 DEF PInv, PreopensMounted
<1>5. \A j \in 1 .. Len(inodes') : inodes'[j].preopened => j <= Len(preopens')
    BY <1>1, <1>2, <1>3 DEF PInv, PreopensMounted, Inodes
<1>. QED
    BY <1>1, <1>2, <1>3, <1>4, <1>5 DEF PreopensMounted, Inodes

LEMMA NextPInv ==
    ASSUME Build = "debug"
    PROVE  PInv /\ [Next]_vars => PInv'
<1>. SUFFICES ASSUME PInv, [Next]_vars
              PROVE  PreopensMounted' /\ (phase' = "running" => Len(preopens') <= Len(inodes'))
    BY NextIInv DEF PInv
<1>1. CASE \E fd \in QueryFds :
             FilestatFd(fd) \/ Fdstat(fd) \/ PrestatFd(fd) \/ Flush(fd)
    <2>1. UNCHANGED <<preopens, inodes, fd_map>> /\ phase' \in {phase, "panicked"}
        BY <1>1 DEF FilestatFd, Fdstat, PrestatFd, Flush
    <2>. QED
        BY <2>1, FrameStep
<1>2. CASE \E follow \in BOOLEAN, path \in Names : FilestatPath(follow, path)
    BY <1>2, FrameStep DEF FilestatPath
<1>3. CASE \E r, ri \in GrantSets, i \in Inodes : CreateFd(r, ri, i)
    BY <1>3, CreateFdPInv
<1>4. CASE \E k \in InsertKinds, s \in Stats :
             \E fwd \in IF k = "Symlink" THEN 1 .. Len(inodes) + 1 ELSE {NoInode} :
                InsertInode(k, fwd, s)
    BY <1>4, InsertInodePInv
<1>5. CASE \E path \in Names, i \in Inodes : CacheName(path, i)
    BY <1>5, FrameStep DEF CacheName
<1>6. CASE UNCHANGED vars
    BY <1>6, FrameStep DEF vars
<1>. QED
    BY <1>1, <1>2, <1>3, <1>4, <1>5, <1>6 DEF Next

(* In a debug build, while the instance runs, every preopened path is     *)
(* still descriptor k + 2 on its own preopened inode, and no other inode  *)
(* is marked preopened.                                                   *)
THEOREM PreopensMountedHolds ==
    ASSUME Build = "debug"
    PROVE  Spec => []PreopensMounted
<1>1. Spec => []PInv
    BY InitPInv, NextPInv, PTL DEF Spec
<1>. QED
    BY <1>1, PTL DEF PInv

=============================================================================
