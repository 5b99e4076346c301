------------------------------- MODULE WasiFs -------------------------------
(***************************************************************************)
(* The WASI filesystem state of src/lib/wasi/src/state.rs: the inode arena *)
(* (WasiFs.inodes), the descriptor table (fd_map, next_fd), the top-level  *)
(* name cache (name_map) and the operations of `impl WasiFs`: new,         *)
(* filestat_path (with get_inode and the symlink walk of filestat_inode),  *)
(* filestat_fd, fdstat, prestat_fd, flush and create_fd.                   *)
(*                                                                         *)
(* The arena never removes a record in this code, so an arena Index is     *)
(* modelled as its slot number 1..Len(inodes) (generation 0 throughout).   *)
(* Two steps are taken by collaborators through the public fields          *)
(* `inodes` and `name_map`: inserting an inode record and caching a name.  *)
(* Every other step is one call of a method of WasiFs, modelled whole,     *)
(* with its result recorded in `ret`.                                      *)
(***************************************************************************)
EXTENDS Integers, Sequences, FiniteSets

CONSTANTS
    Paths,        \* host paths a guest may ask to preopen
    HostKind,     \* what each path is on the host: "dir", "file" or "missing"
                  \* ("missing": File::open or its metadata() fails)
    MaxPreopens,  \* longest preopen list enumerated
    Names,        \* path strings a guest may pass to filestat_path
    Stats,        \* distinguishable __wasi_filestat_t values
    DefaultStat,  \* __wasi_filestat_t::default()
    Rights,       \* the right bits of __wasi_rights_t
    DATASYNC,     \* __WASI_RIGHT_FD_DATASYNC
    GrantSets,    \* rights masks a caller of create_fd may pass
    MaxSymlinks,  \* MAX_SYMLINKS (100 in the code)
    FdWidth,      \* bit width of next_fd (u32 in the code)
    Build,        \* "debug": overflow of next_fd panics; "release": it wraps
    MaxInodes,    \* bound on the arena size
    InsertKinds,  \* kinds of the records collaborators insert
    QueryFds      \* descriptor ids guests pass to the fd calls

ASSUME PathsAssumption == HostKind \in [Paths -> {"dir", "file", "missing"}]
ASSUME MaxPreopensAssumption == MaxPreopens \in Nat
ASSUME StatAssumption == DefaultStat \in Stats
ASSUME RightsAssumption ==
    /\ DATASYNC \in Rights
    /\ GrantSets \subseteq SUBSET Rights
ASSUME MaxSymlinksAssumption == MaxSymlinks \in Nat
ASSUME FdWidthAssumption ==
    /\ FdWidth \in Nat \ {0, 1}
    /\ 2 ^ FdWidth \in Nat
    /\ MaxPreopens + 3 < 2 ^ FdWidth   \* new's create_fd calls never overflow
ASSUME BuildAssumption == Build \in {"debug", "release"}
ASSUME MaxInodesAssumption == MaxInodes \in Nat
ASSUME QueryFdsAssumption == QueryFds \subseteq Nat
ASSUME InsertKindsAssumption ==
    InsertKinds \subseteq {"File", "Dir", "Symlink", "Buffer"}

VARIABLES
    phase,      \* "running", or why no instance is running
    preopens,   \* the preopened_files argument of WasiFs::new
    inodes,     \* the arena: sequence of inode records, Index = position
    fd_map,     \* descriptor table: partial function fd -> Fd
    next_fd,    \* the Cell<u32> next_fd
    name_map,   \* name cache: partial function name -> Index
    ret         \* the last call and what it returned

vars == <<phase, preopens, inodes, fd_map, next_fd, name_map, ret>>

FdLimit == 2 ^ FdWidth
FdIds == 0 .. FdLimit - 1
Kinds == {"File", "Dir", "Symlink", "Buffer"}
NoInode == 0
Inodes == 1 .. Len(inodes)

Ok(v) == [ok |-> TRUE, val |-> v]
Err(e) == [ok |-> FALSE, val |-> e]

InodeVal == [kind : Kinds, forwarded : Nat, preopened : BOOLEAN,
             name : Paths \cup {"anon"}, stat : Stats]
Fd == [rights : SUBSET Rights, rights_inheriting : SUBSET Rights,
       inode : Nat \ {0}]

TypeOK ==
    /\ phase \in {"running", "init_error", "panicked"}
    /\ preopens \in Seq(Paths)
    /\ inodes \in Seq(InodeVal)
    /\ DOMAIN fd_map \subseteq FdIds /\ fd_map \in [DOMAIN fd_map -> Fd]
    /\ next_fd \in FdIds
    /\ DOMAIN name_map \subseteq Names /\ name_map \in [DOMAIN name_map -> Nat \ {0}]
    /\ ret.op \in {"new", "filestat_path", "filestat_fd", "fdstat",
                   "prestat_fd", "flush", "create_fd", "insert", "cache"}

-----------------------------------------------------------------------------
(* HashMap::new() *)
EmptyMap == [x \in {} |-> NoInode]

(* Storing into a partial function, as HashMap::insert does (overwrite). *)
MapPut(f, k, v) == [x \in DOMAIN f \cup {k} |-> IF x = k THEN v ELSE f[x]]

(* fs::File::open(file).metadata().is_dir() and the Kind::Dir it builds. *)
PreopenInode(p) == [kind |-> "Dir", forwarded |-> NoInode, preopened |-> TRUE,
                    name |-> p, stat |-> DefaultStat]

(* Mutants of NextFdAfterNew: one preopen short, and never advanced. *)
NextFdAfterNewOffByOne(ps) == Len(ps) + 2
NextFdAfterNewUnadvanced(ps) == 3

(* next_fd after new: 3, advanced once by each preopen's create_fd. *)
NextFdAfterNew(ps) == Len(ps) + 3

(* WasiFs::new: opening the backing repository may fail, and new returns   *)
(* that Err (the ? at 144).  Then every path of the list becomes an inode  *)
(* (slot k) and a descriptor (3 + k - 1) with default_rights; the first    *)
(* path that is not a directory aborts construction: Err for a regular     *)
(* file, and for a path that cannot be opened the panic of                 *)
(* expect("Could not find file") (or of the unwrap of its metadata).       *)
(* A panic returns nothing; ret records it as the failed expect.           *)
NewFs(ps, repo_ok) ==
    LET bad == {k \in 1 .. Len(ps) : HostKind[ps[k]] # "dir"}
        first == CHOOSE k \in bad : \A j \in bad : k <= j
        outcome == CASE ~repo_ok -> Err("repo")
                     [] bad = {} -> Ok("none")
                     [] HostKind[ps[first]] = "file" -> Err("not_a_directory")
                     [] OTHER -> Err("expect")
    IN  /\ preopens = ps
        /\ name_map = EmptyMap
        /\ ret = [op |-> "new", arg |-> 0, res |-> outcome]
        /\ IF repo_ok /\ bad = {}
             THEN /\ phase = "running"
                  /\ inodes = [k \in 1 .. Len(ps) |-> PreopenInode(ps[k])]
                  /\ fd_map = [fd \in 3 .. Len(ps) + 2 |->
                                 [rights |-> Rights, rights_inheriting |-> Rights,
                                  inode |-> fd - 2]]
                  /\ next_fd = NextFdAfterNew(ps)
             ELSE /\ phase = IF outcome = Err("expect")
                               THEN "panicked" ELSE "init_error"
                  /\ inodes = <<>>
                  /\ fd_map = EmptyMap
                  /\ next_fd = 3

PreopenLists == UNION {[1 .. n -> Paths] : n \in 0 .. MaxPreopens}

Init == \E ps \in PreopenLists, repo_ok \in BOOLEAN : NewFs(ps, repo_ok)

-----------------------------------------------------------------------------
(* filestat_inode: with SYMLINK_FOLLOW and a Symlink, the while loop looks *)
(* at forwarded for counter = 0 .. MAX_SYMLINKS.  Walk(i)[c] is the inode  *)
(* the loop looks at when counter = c; once a non-symlink is met the walk  *)
(* stays on it, so the loop returns iff Walk(i)[MaxSymlinks] is not one.   *)
(* The function is defined on all of Nat (only 0 .. MaxSymlinks is used)  *)
(* so that its recursion equation is available to the proofs.            *)
Walk(i) ==
    LET w[c \in Nat] ==
          IF c = 0 THEN inodes[i].forwarded
          ELSE IF inodes[w[c - 1]].kind = "Symlink"
                 THEN inodes[w[c - 1]].forwarded
                 ELSE w[c - 1]
    IN  w

(* Mutant of FilestatInode: `while counter < MAX_SYMLINKS`. *)
FilestatInodeShortLoop(i, follow) ==
    IF follow /\ inodes[i].kind = "Symlink"
      THEN LET last == Walk(i)[MaxSymlinks - 1]
           IN  IF inodes[last].kind # "Symlink"
                 THEN Ok(inodes[last].stat) ELSE Err("EMLINK")
      ELSE Ok(inodes[i].stat)

FilestatInode(i, follow) ==
    IF follow /\ inodes[i].kind = "Symlink"
      THEN LET last == Walk(i)[MaxSymlinks]
           IN  IF inodes[last].kind # "Symlink"
                 THEN Ok(inodes[last].stat) ELSE Err("EMLINK")
      ELSE Ok(inodes[i].stat)

(* get_inode: a hit in name_map; a miss returns None (the lookup in the    *)
(* backing repository is commented out), modelled as NoInode.             *)
GetInode(path) == IF path \in DOMAIN name_map THEN name_map[path] ELSE NoInode

(* filestat_path: get_inode, then filestat_inode; None becomes EINVAL.    *)
(* Its preopened_fd argument is only logged by warn!, so it is not an     *)
(* input of the model.                                                     *)
FilestatPath(follow, path) ==
    /\ phase = "running"
    /\ ret' = [op |-> "filestat_path", arg |-> 0, path |-> path,
               follow |-> follow,
               res |-> IF GetInode(path) = NoInode THEN Err("EINVAL")
                         ELSE FilestatInode(GetInode(path), follow)]
    /\ UNCHANGED <<phase, preopens, inodes, fd_map, next_fd, name_map>>

FiletypeOf(k) ==
    CASE k = "File" -> "REGULAR_FILE"
      [] k = "Dir" -> "DIRECTORY"
      [] k = "Symlink" -> "SYMBOLIC_LINK"
      [] OTHER -> "UNKNOWN"

(* filestat_fd, fdstat and prestat_fd: lookups that change nothing. *)
FilestatFd(fd) ==
    /\ phase = "running"
    /\ ret' = [op |-> "filestat_fd", arg |-> fd,
               res |-> IF fd \in DOMAIN fd_map
                         THEN Ok(inodes[fd_map[fd].inode].stat)
                         ELSE Err("EBADF")]
    /\ UNCHANGED <<phase, preopens, inodes, fd_map, next_fd, name_map>>

Fdstat(fd) ==
    /\ phase = "running"
    /\ ret' = [op |-> "fdstat", arg |-> fd,
               res |-> IF fd \in DOMAIN fd_map
                         THEN Ok([fs_filetype |->
                                    FiletypeOf(inodes[fd_map[fd].inode].kind),
                                  fs_rights_base |-> fd_map[fd].rights,
                                  fs_rights_inheriting |-> fd_map[fd].rights])
                         ELSE Err("EBADF")]
    /\ UNCHANGED <<phase, preopens, inodes, fd_map, next_fd, name_map>>

PrestatFd(fd) ==
    /\ phase = "running"
    /\ ret' = [op |-> "prestat_fd", arg |-> fd,
               res |-> IF fd \in DOMAIN fd_map
                            /\ inodes[fd_map[fd].inode].preopened
                         THEN Ok(inodes[fd_map[fd].inode].name)
                         ELSE Err("EBADF")]
    /\ UNCHANGED <<phase, preopens, inodes, fd_map, next_fd, name_map>>

(* flush: 0 does nothing, 1 and 2 flush stdout / stderr (which may fail),  *)
(* any other fd needs DATASYNC and then flushes a File's handle (which may *)
(* fail), refuses a Dir, does nothing for a Buffer and hits               *)
(* unimplemented!() for a Symlink.                                         *)
(* WasiFile::flush and Stdout/Stderr::flush: Ok or an io::Error (EIO). *)
FlushResults == {Ok("none"), Err("EIO")}

(* Mutant of Denied: the rights check left out. *)
DeniedNever(fd) == FALSE

(* fd.rights & __WASI_RIGHT_FD_DATASYNC == 0 *)
Denied(fd) == DATASYNC \notin fd_map[fd].rights

FlushRet(fd, io, res) ==
    ret' = [op |-> "flush", arg |-> fd, io |-> io, res |-> res]

Flush(fd) ==
    /\ phase = "running"
    /\ UNCHANGED <<preopens, inodes, fd_map, next_fd, name_map>>
    /\ \/ fd = 0 /\ FlushRet(fd, "none", Ok("none")) /\ UNCHANGED phase
       \/ \E r \in FlushResults :
            /\ fd \in {1, 2}
            /\ FlushRet(fd, IF fd = 1 THEN "stdout" ELSE "stderr", r)
            /\ UNCHANGED phase
       \/ /\ fd \notin {0, 1, 2}
          /\ fd \notin DOMAIN fd_map
          /\ FlushRet(fd, "none", Err("EBADF")) /\ UNCHANGED phase
       \/ /\ fd \notin {0, 1, 2}
          /\ fd \in DOMAIN fd_map
          /\ Denied(fd)
          /\ FlushRet(fd, "none", Err("EACCES")) /\ UNCHANGED phase
       \/ /\ fd \notin {0, 1, 2}
          /\ fd \in DOMAIN fd_map
          /\ ~Denied(fd)
          /\ LET k == inodes[fd_map[fd].inode].kind
             IN  \/ \E r \in FlushResults :
                      k = "File" /\ FlushRet(fd, "handle", r) /\ UNCHANGED phase
                 \/ k = "Dir" /\ FlushRet(fd, "none", Err("EISDIR"))
                    /\ UNCHANGED phase
                 \/ k = "Buffer" /\ FlushRet(fd, "none", Ok("none"))
                    /\ UNCHANGED phase
                 \/ k = "Symlink" /\ phase' = "panicked"
                    /\ FlushRet(fd, "none", Err("unimplemented"))

(* create_fd: takes next_fd, stores next_fd + 1 (a u32 add: a panic in a   *)
(* debug build, a wrap in a release build) and inserts the Fd under the    *)
(* taken id, replacing whatever was there.                                 *)
(* Mutants of Overflows and FdAfter: the overflow caught one step late, *)
(* and next_fd.set(idx) instead of idx + 1.                             *)
OverflowsLate(idx) == Build = "debug" /\ idx + 1 > FdLimit
FdAfterNoIncrement(idx) == idx

(* idx + 1 on a u32: it overflows at the top of the range, where a debug  *)
(* build panics and a release build wraps to 0.                            *)
Overflows(idx) == Build = "debug" /\ idx + 1 = FdLimit
FdAfter(idx) == IF Build = "release" THEN (idx + 1) % FdLimit ELSE idx + 1

CreateFd(rights, rights_inheriting, inode) ==
    LET idx == next_fd
    IN  /\ phase = "running"
        /\ UNCHANGED <<preopens, inodes, name_map>>
        /\ IF Overflows(idx)
             THEN /\ phase' = "panicked"
                  /\ UNCHANGED <<fd_map, next_fd>>
                  /\ ret' = [op |-> "create_fd", arg |-> idx,
                              res |-> Err("overflow")]
             ELSE /\ next_fd' = FdAfter(idx)
                  /\ fd_map' = MapPut(fd_map, idx,
                                 [rights |-> rights,
                                  rights_inheriting |-> rights_inheriting,
                                  inode |-> inode])
                  /\ ret' = [op |-> "create_fd", arg |-> idx, res |-> Ok(idx)]
                  /\ UNCHANGED phase

-----------------------------------------------------------------------------
(* Collaborators: Arena::insert / insert_with on the public `inodes`       *)
(* (insert_with may hand a Symlink its own Index), and caching a name in   *)
(* the public `name_map` as the disabled body of get_inode would.          *)
InsertInode(kind, fwd, stat) ==
    /\ phase = "running"
    /\ Len(inodes) < MaxInodes
    /\ inodes' = Append(inodes, [kind |-> kind, forwarded |-> fwd,
                                 preopened |-> FALSE, name |-> "anon",
                                 stat |-> stat])
    /\ ret' = [op |-> "insert", arg |-> Len(inodes) + 1,
               res |-> Ok(Len(inodes) + 1)]
    /\ UNCHANGED <<phase, preopens, fd_map, next_fd, name_map>>

CacheName(path, i) ==
    /\ phase = "running"
    /\ path \notin DOMAIN name_map
    /\ name_map' = MapPut(name_map, path, i)
    /\ ret' = [op |-> "cache", arg |-> i, res |-> Ok(i)]
    /\ UNCHANGED <<phase, preopens, inodes, fd_map, next_fd>>

Next ==
    \/ \E fd \in QueryFds :
          FilestatFd(fd) \/ Fdstat(fd) \/ PrestatFd(fd) \/ Flush(fd)
    \/ \E follow \in BOOLEAN, path \in Names : FilestatPath(follow, path)
    \/ \E r, ri \in GrantSets, i \in Inodes : CreateFd(r, ri, i)
    \/ \E k \in InsertKinds, s \in Stats :
          \E fwd \in IF k = "Symlink" THEN 1 .. Len(inodes) + 1 ELSE {NoInode} :
             InsertInode(k, fwd, s)
    \/ \E path \in Names, i \in Inodes : CacheName(path, i)

Spec == Init /\ [][Next]_vars

-----------------------------------------------------------------------------
(* Reference definition of symlink resolution: the stat of the non-symlink *)
(* reached from i through a chain of at most `bound` forwarded hops, and   *)
(* EMLINK when there is none (a longer chain, or a cycle).                 *)
Chain(i, t, n) ==
    \E p \in [0 .. n -> Inodes] :
        /\ p[0] = i /\ p[n] = t
        /\ \A k \in 0 .. n - 1 : /\ inodes[p[k]].kind = "Symlink"
                                /\ p[k + 1] = inodes[p[k]].forwarded

Resolved(i, bound) ==
    {t \in Inodes : inodes[t].kind # "Symlink" /\ \E n \in 1 .. bound : Chain(i, t, n)}

RefFilestat(i, follow, bound) ==
    IF ~follow \/ inodes[i].kind # "Symlink" THEN Ok(inodes[i].stat)
    ELSE IF Resolved(i, bound) # {}
           THEN Ok(inodes[CHOOSE t \in Resolved(i, bound) : TRUE].stat)
           ELSE Err("EMLINK")

(* filestat_path through a cached name returns the stat of the end of the  *)
(* symlink chain iff that end is at most MAX_SYMLINKS + 1 hops away, and   *)
(* EMLINK for longer chains and cycles: the bound the while loop of        *)
(* filestat_inode really enforces, stated without the loop.                *)
SymlinkResolution ==
    ret.op = "filestat_path" /\ ret.path \in DOMAIN name_map
        => ret.res = RefFilestat(name_map[ret.path], ret.follow, MaxSymlinks + 1)

(* The spec (section 8): a chain of more than MAX_SYMLINKS hops fails with *)
(* too-many-links; filestat_inode is supposed to enforce that bound.       *)
SpecSymlinkBound ==
    ret.op = "filestat_path" /\ ret.path \in DOMAIN name_map
        => ret.res = RefFilestat(name_map[ret.path], ret.follow, MaxSymlinks)

(* Descriptor ids handed out by create_fd stay above the stdio ids and     *)
(* below next_fd, so the next create_fd cannot land on a live descriptor.  *)
FdIdsBelowNext ==
    phase = "running" => \A id \in DOMAIN fd_map : 3 <= id /\ id < next_fd

(* The descriptor table of WasiFs, seen as the abstract table of the spec *)
(* (DescriptorTable): the abstract table is fd_map itself.                *)
AbsTable == INSTANCE DescriptorTable WITH table <- fd_map

(* fd_map implements the spec's descriptor table: new leaves exactly the  *)
(* preopened ids 3 .. n + 2, and every later step either leaves fd_map    *)
(* alone or is one allocation, which create_fd's HashMap::insert makes at *)
(* a fresh id above all live ones, never overwriting a descriptor a guest *)
(* may still hold.                                                        *)
FdTableRefined == AbsTable!Spec

(* While the instance runs, the k-th preopened path is still reachable as  *)
(* descriptor k + 2, naming its own preopened directory inode, and prestat *)
(* succeeds on no other inode: new's mounting survives any later calls.    *)
PreopensMounted ==
    phase = "running" =>
        /\ \A k \in 1 .. Len(preopens) :
              /\ k + 2 \in DOMAIN fd_map
              /\ fd_map[k + 2].inode = k
              /\ inodes[k] = PreopenInode(preopens[k])
        /\ \A i \in Inodes : inodes[i].preopened => i <= Len(preopens)

(* Flushing a descriptor other than 0, 1, 2 reaches its handle only with  *)
(* DATASYNC, and without DATASYNC it fails with EACCES.                    *)
FlushGuarded ==
    ret.op = "flush" /\ ret.arg \notin {0, 1, 2} /\ ret.arg \in DOMAIN fd_map =>
        /\ ret.io = "handle" => DATASYNC \in fd_map[ret.arg].rights
        /\ DATASYNC \notin fd_map[ret.arg].rights => ret.res = Err("EACCES")

(* The spec (section 4.5): fdstat reports the descriptor's inheriting      *)
(* rights.                                                                 *)
FdstatInheriting ==
    ret.op = "fdstat" /\ ret.arg \in DOMAIN fd_map /\ ret.res.ok =>
        ret.res.val.fs_rights_inheriting = fd_map[ret.arg].rights_inheriting

(* The spec (section 5): initialization errors (a bad preopen path, a     *)
(* non-directory preopen, a backing-store failure) propagate as a single  *)
(* failure and no operation unwinds: a new that fails returns Err and    *)
(* leaves no instance, it does not panic the host.                        *)
InitFailsWithErr ==
    ret.op = "new" /\ ~ret.res.ok => phase = "init_error"

=============================================================================
