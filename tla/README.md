# TLA+ verification of the WASI filesystem state

This directory holds TLA+ models of the guest-facing filesystem state of the
WASI implementation in `src/lib/wasi/src/state.rs` and of the host's linear
memory handle in `src/lib/api/src/externals/memory.rs`. It also holds the TLC
runs that check these models on small instances, and TLAPS proofs of the most
important invariants, and of a refinement, for every value of the constants.

## 1. Inventory

### Components and their state

| Component | Source | State | Operations |
|---|---|---|---|
| Filesystem facade `WasiFs` | `state.rs` 127-398 | owns everything below plus `repo` (zbox store, never used after `new`) and `inode_counter` (never changed) | `new`, `get_inode`, `filestat_inode`, `filestat_path`, `filestat_fd`, `fdstat`, `prestat_fd`, `flush`, `create_fd` |
| Inode arena | `state.rs` 93-116, 130 | `Arena<InodeVal>`: per record the stat block, `is_preopened`, `name`, `Kind` (File / Dir{entries} / Symlink{forwarded} / Buffer) | `insert` (in `new`); `Index` lookups, which panic on a stale index |
| Descriptor table | `state.rs` 118-132, 364-384 | `fd_map: HashMap<u32, Fd>`, `next_fd: Cell<u32>`; an `Fd` holds `rights`, `rights_inheriting`, `flags`, `offset` (always 0) and an inode `Index` | `create_fd`; lookups in every fd operation |
| Rights model | `state.rs` 158, 346 | bitmasks in each `Fd` | the DATASYNC test of `flush`; `new` grants `0x1FFFFFFF` |
| Symlink resolver | `state.rs` 191-281 | `name_map: HashMap<String, Index>`, `MAX_SYMLINKS = 100` | `get_inode` (a hit, or `None`: the backing-store lookup is commented out), the bounded loop of `filestat_inode` |
| Backing handles `WasiFile` | `state.rs` 19-91 | a zbox file or a host file | read/write/seek/flush dispatch (pure I/O) |
| `WasiState` | `state.rs` 400-404 | the fs plus argument and environment bytes | none |
| Linear memory handle `Memory` | `api/src/externals/memory.rs` | an `Arc` of the runtime memory of `wasmer_vm` (pages, maximum); clones and exports share it | `new`, `clone` / `to_export` / `from_export`, `grow`, `view`, `same`; reads `ty`, `size`, `data_size`, `data_ptr` |
| Emscripten exception shims | `emscripten/src/exception.rs` | none | stubs that forward to malloc, return constants, abort or panic |
| README example | `deprecated/runtime/examples/readme.rs` | none | instantiates a fixed module and calls it |

### How the parts interact

The syscall layer (outside `src/`) calls the methods of `WasiFs` one at a time:
`WasiFs` holds its counter in an unsynchronised `Cell`, which Rust forbids to
share across threads, so there is no concurrency inside the filesystem. Each
fd operation looks the descriptor up in `fd_map`, follows its inode `Index` into
the arena and reads (or, for `flush`, drives) the record. `filestat_path` looks
a name up in `name_map` and walks `Symlink` records through the arena.
`inodes` and `name_map` are public fields, so the syscall layer can insert
records and cache names directly, and `create_fd` is public and accepts any
masks and any `Index`.

### What is hard here

No threads, messages or persistence: the difficulty lies in long sequences of
legal calls and in boundary values.
* `next_fd` is a `u32` incremented with `+ 1`: a debug build panics at the
  top of the range and a release build wraps to 0. After a wrap, `create_fd` hands out the
  stdio ids and then silently overwrites live descriptors (`HashMap::insert`).
* The symlink loop must stop on cycles and long chains. Its bound is inclusive
  (`counter <= MAX_SYMLINKS`).
* `new` first opens the backing store (which may return `Err`), then mounts
  preopens one at a time, and fails in two different ways: `Err` for a regular
  file, and a panic through `expect` (or the `unwrap` of its metadata) for a
  path that cannot be opened. Which one a list gets depends on its first bad path.
* `flush` must check DATASYNC before touching a handle, refuses directories and
  panics on symlinks.
* Answers are built from two lookups (descriptor, then inode); `fdstat` copies
  the wrong field into `fs_rights_inheriting`.
* `Memory::view` divides the byte size by the element size and casts the
  result `as u32`. A MemoryView keeps the length it was given while any handle
  sharing the memory may grow it afterwards.

### Properties that make each component correct

* Descriptor table: `fd_map` implements the spec's table (section 4.3). The
  preopens get ids `3 .. n+2`, and each later change is one allocation of a
  fresh id above every live one, which leaves every live descriptor as it was.
  Ids are below `next_fd`, and the preopened descriptors survive every later call.
* Initialization: a failed `new` returns `Err` and leaves no instance; the spec
  (section 5) forbids unwinding (`InitFailsWithErr`, violated).
* Rights: no handle is flushed without DATASYNC; a missing right yields EACCES.
* Resolver: the answer is the stat of the end of the chain when that end is
  within the bound, and EMLINK for longer chains and cycles (so the loop stops).
* Facade: `fdstat` reports the descriptor's own rights and inheriting rights;
  `prestat` succeeds exactly on preopened inodes.
* Memory: no view claims more bytes than its memory holds, however the memory
  grows afterwards; a view covers the whole memory when it is taken
  (`ViewCoversMemory`, violated), and does whenever its elements have two bytes
  or more or the memory is below the maximum (`ViewExactBelowWrap`).

## 2. Modules

### `WasiFs.tla` models `state.rs`, `impl WasiFs`

| TLA+ | code |
|---|---|
| `inodes` (sequence of records, `Index` = position) | `WasiFs.inodes`; no code removes a record, so generations stay 0 |
| `fd_map`, `next_fd` (`FdIds = 0 .. 2^FdWidth - 1`) | `fd_map`, `next_fd: Cell<u32>` |
| `name_map` | `name_map` |
| `phase` | whether an instance is running, `new` failed (`init_error`), or the host panicked |
| `preopens` | the `preopened_files` argument of `new` |
| `ret` | the last call and its result (the returned `Result`, plus for `flush` which stream or handle was flushed) |
| `Init` / `NewFs(ps, repo_ok)` | `WasiFs::new` over every preopen list of up to `MaxPreopens` paths, with the backing-store open succeeding or failing; `ret` records `Ok`, the `Err` returned, or the panic of `expect` |
| `FilestatPath`, `GetInode`, `FilestatInode`, `Walk` | `filestat_path`, `get_inode`, `filestat_inode` and its while loop (`Walk(i)[c]` is the inode the loop looks at when `counter = c`; the function is defined on `Nat`, only `0 .. MAX_SYMLINKS` is read) |
| `FilestatFd`, `Fdstat`, `PrestatFd` | the three lookups |
| `Flush`, `Denied`, `FlushResults` | `flush`, its DATASYNC test, and the result of a stream or handle flush |
| `CreateFd`, `Overflows`, `FdAfter`, `MapPut` | `create_fd`: the u32 add in either build mode, and `HashMap::insert` |
| `InsertInode`, `CacheName` | collaborators writing the public `inodes` (`Arena::insert` / `insert_with`) and `name_map` (spec-modelled) |

Data is abstracted: host paths, names and stat blocks are model values, and a
rights mask is a set of right bits. Each call is one action, including its
error paths in the code's order. `offset` is left out: it is always 0 and
never read. `flags` is left out too: `fdstat` copies it into `fs_flags`
unchanged, and no property is about that field. The `preopened_fd` argument of `filestat_path` is only
logged, so it is not an input.

`MC_WasiFs.tla` gives the model values; each `.cfg` picks the bounds of one run.

### `DescriptorTable.tla`: the spec's descriptor table (abstract)

This module is written from spec sections 3 and 4.3, not from code. Its one
variable `table` is a partial map from ids to descriptors:
* `Init`: the live ids form the interval `3 .. n+2`;
* `Allocate`: adds exactly one id, which is at least 3 and above every live id,
  and keeps every live entry.

`WasiFs` instantiates it with `table <- fd_map` (`AbsTable`).
`FdTableRefined == AbsTable!Spec` is checked as a `PROPERTY` and proved.

### `Memory.tla` models `memory.rs`, `impl Memory`

| TLA+ | code |
|---|---|
| `mems` (one record `[pages, maximum]` per runtime memory) | the `Arc<dyn RuntimeMemory>` targets |
| `handle[h]` | which memory a host `Memory` value points to (0 before `new`) |
| `views` | the `MemoryView`s the host holds: memory, element size, bytes when taken, length |
| `New` | `Memory::new`: `create_memory` succeeds (a memory at `ty.minimum`) or fails with `MemoryError` |
| `Clone` | `#[derive(Clone)]`, `to_export` / `from_export`: the new handle shares the `Arc` |
| `Grow` | `grow`: the previous size, or `CouldNotGrow` past the maximum |
| `TakeView`, `ViewLength`, `Bytes` | `view`: `size().bytes() / size_of::<T>()`, then `as u32` |
| `Same` | `same`: `Arc::ptr_eq` |

The runtime memory lives in `wasmer_vm`, which is not in this repository. It
is abstracted to the contract that `grow`'s doc comments and doc tests state.
Sizes are scaled, keeping the relation of the real constants: a memory of
`WasmMaxPages` pages holds exactly `2^ViewWidth` bytes, just as 65536 pages of
64 KiB hold `2^32` bytes. The methods that only read state (`ty`, `store`,
`size`, `data_size`, `data_ptr`, `data_unchecked(_mut)`) are left out, and so
are the bytes themselves. `MC_Memory.tla` gives two handles and two memory types.

## 3. Runs

| run | cfg | expect | checks |
|---|---|---|---|
| `symlink_resolution` | `MC_Symlink.cfg` | pass | `SymlinkResolution`: up to 5 inodes (every chain, every self-loop), `MAX_SYMLINKS = 2`, follow on and off; the answer equals a loop-free reference definition (`RefFilestat`, a chain of at most `MAX_SYMLINKS + 1` hops). ~680k states, 12 s. |
| `fd_table` | `MC_WasiFs.cfg` | pass | `TypeOK`, `FdIdsBelowNext`, `PreopensMounted`, `FlushGuarded`, `FdTableRefined` in a debug build with 3-bit ids (ids 3..6 are handed out, and the `create_fd` that takes 7 panics on `7 + 1`), 0-2 preopens over a directory, a regular file and a missing path, two grant masks, and inodes of every kind. ~2.3M states, 2.5 min. |
| `release_wrap` | `MC_Release.cfg` | violation | `FdTableRefined` fails: after ids 4..7 `next_fd` wraps to 0, and `create_fd` hands out the stdio id 0, which lies below live ids. Continued, it would hand out 1 and 2 and then overwrite the preopened descriptor 3. |
| `symlink_spec_bound` | `MC_SymlinkSpec.cfg` | violation | `SpecSymlinkBound` (the spec's bound: more than `MAX_SYMLINKS` hops fail) fails: a 3-hop chain resolves with `MAX_SYMLINKS = 2`. |
| `new_panics` | `MC_NewFs.cfg` | violation | `InitFailsWithErr` (the spec: initialization errors are returned, never unwound) fails in an initial state: `new([p3])` with `p3` missing panics in `expect`. |
| `fdstat_inheriting` | `MC_Fdstat.cfg` | violation | `FdstatInheriting` fails: `fdstat` returns `rights` as the inheriting rights. |
| `memory_views` | `MC_Memory.cfg` | pass | `TypeOK`, `ViewsInBounds`, `ViewExactBelowWrap`: two handles, up to two memories (`MemoryType(1, Some(2))` and `(2, Some(4))`), clones across handles, grows by 1 or 2 pages through either handle (successful and refused), and views of u8 and u64 at every size, including the u32 wrap. ~185k states, 5 s. |
| `memory_view_wrap` | `MC_MemoryView.cfg` | violation | `ViewCoversMemory` fails: a memory is grown to `WasmMaxPages` and `view::<u8>()` returns length 0. With the real constants this is a 65536-page (4 GiB) memory, whose `2^32` elements do not fit the u32 length. |

The bounds are chosen so that each case the code distinguishes occurs:
* Ids are 3 bits wide so that `create_fd` hits the top of the range within a few steps.
  The u32 width only changes how many steps that takes.
* `MAX_SYMLINKS` is 2, and arenas hold up to 5 inodes. So chains exist of length
  `MAX_SYMLINKS`, `MAX_SYMLINKS + 1` and `MAX_SYMLINKS + 2`, as well as cycles.
* Memory: 2-byte pages, at most 4 pages and 3-bit lengths. A memory can reach
  its maximum, and so the exact size at which the cast wraps; it can be grown
  after a view is taken; and two handles can share it. Element sizes 1 and 8
  cover a view that wraps and one larger than a page.

Each property has a mutant: a plausible bug in a named definition that TLC
catches. The mutants are an inclusive loop turned exclusive, the overflow
caught one step late, a missing increment, `next_fd` not advanced by `new` or
off by one (this one also breaks the refinement), the DATASYNC check dropped,
`grow` without its maximum check, a view length rounded up, and a view length
cast to a type one bit narrower.

The deadlock check is off for the `WasiFs` runs: an instance whose `new`
failed, or that panicked, takes no further step. The `Memory` runs keep it on,
since `same` stays enabled.

No fairness is assumed and no liveness is checked. Every operation here is a
call from the syscall layer or the embedder, which may stop calling at any
time, and no operation waits for another. The one termination question, the
symlink loop stopping on a cycle, is the EMLINK part of `SymlinkResolution`.

## 4. Proofs (checked by `tlapm`)

Every property of a passing run is proved for every value of the constants
(under the assumptions noted), not only on the instances TLC checks.

`WasiFs_proofs.tla`:
* `TypeCorrect: Spec => []TypeOK`, for every value of the constants and in both
  build modes. There is one lemma per action (`QueryTypeOK`, `CreateFdTypeOK`, ...).
  The interesting step is that `FdAfter` stays in `FdIds` in both build modes.
* `FdIdsBelowNextHolds`, assuming `Build = "debug"`: `Spec => []FdIdsBelowNext`.
  `FdIdsBelowNext` alone is not inductive, so the proof uses the strengthened
  invariant `IInv == TypeOK /\ FdIdsBelowNext /\ (phase = "running" => 3 <= next_fd)`.
  TLC also checked `IInv` on the `fd_table` instance. The key lemma,
  `CreateFdFresh`, says that in a debug build `create_fd` either panics or stores
  under `next_fd`, which is not yet in `fd_map`, and raises `next_fd` by one.
* `FdTableRefinedHolds`, assuming `Build = "debug"`: `Spec => FdTableRefined`,
  that is, `WasiFs` implements `DescriptorTable` under `table <- fd_map`.
  - `InitRefined`: `new` leaves the ids `3 .. n+2`, or none.
  - `NextRefined`: from `IInv`, every step either leaves `fd_map` alone
    (a stutter of the abstract spec) or is a `create_fd` that does not
    overflow. That step is an `Allocate` of `next_fd`, which is fresh, at least
    3, and above every live id.
* `FlushGuardedHolds`: `Spec => []FlushGuarded` in both build modes.
  `FlushGuarded` is inductive as it stands:
  - every action writes `ret`;
  - only `flush` writes a `"flush"` answer;
  - `flush` does not change `fd_map`.
  `FlushStep` follows the branches of `flush`.
* `PreopensMountedHolds`, assuming `Build = "debug"`: `Spec => []PreopensMounted`.
  The inductive invariant is `PInv == IInv /\ PreopensMounted /\ Len(preopens) <= Len(inodes)`:
  - `IInv` keeps `create_fd` off the preopened ids;
  - the length conjunct makes the preopened inodes a prefix of the arena, which
    an insert (an `Append`) leaves alone.

`Symlink_proofs.tla`:
* `SymlinkResolutionHolds: Spec => []SymlinkResolution`, for every
  `MAX_SYMLINKS` and in both build modes. The inductive invariant is
  `SInv == TypeOK /\ LinksInArena /\ NamesInArena /\ SymlinkResolution`:
  every symlink forwards into the arena, and every cached name names a slot.
  The core is `FilestatMatchesRef`: on such an arena `FilestatInode(i, follow)`
  equals `RefFilestat(i, follow, MAX_SYMLINKS + 1)`. It rests on three lemmas:
  - `WalkChain`, by induction on the loop counter: `Walk(i)[c]` is the end of a
    chain from `i` of at most `c + 1` hops, and of exactly `c + 1` hops while it
    is a symlink;
  - `ChainsAgree`: two chains from the same inode agree on their common length;
  - `ChainEnd`: a chain ending on a non-symlink cannot be continued, so the
    resolved inode is unique (and `CHOOSE` picks it) and a loop that is still
    on a symlink after `MAX_SYMLINKS + 1` hops leaves nothing to resolve.
  The inductions are least-counterexample arguments: `LeastNat` gives a
  non-empty set of naturals a least element, from the library's `WFMin` and
  `NatLessThanWellFounded`, which take sets rather than operators.
  `WalkStep` (the loop's recursion equation) comes from
  `NatRecursion.tla`, which proves the equation of a primitive recursion over
  `Nat` for a declared step operator, from the library's `NatInductiveDef`.
  `Symlink_proofs` instantiates it with the loop's step. This is why `Walk` is
  defined on `Nat`: the equation of a recursive function over `0 .. MAX_SYMLINKS`
  has no such theorem to rest on.

`Memory_proofs.tla`, for every page size, maximum and width:
* `ViewLengthBound`: the u32 cast only shortens the quotient, so
  `ViewLength(b, s) * s <= b`.
* `MemoryTypeCorrect` and `ViewsInBoundsHolds`: `Spec => []TypeOK` and
  `Spec => []ViewsInBounds`. They use the inductive invariant
  `MInv == TypeOK /\ (every view names an existing memory) /\ ViewsInBounds`.
  It is inductive because memories are only appended and `grow` only adds pages
  (`MulMonotone`).
* `ViewExactBelowWrapHolds: Spec => []ViewExactBelowWrap`. Every view holds
  the length `view` computed from a byte count of at most `2^ViewWidth`
  (`ViewsAsBuilt`, with `BytesBound`). `ViewLengthExact` shows that the quotient
  then fits the width when the element size is at least 2 or the count is
  below `2^ViewWidth`. Together with the `memory_view_wrap` violation, this
  places the truncation exactly: only a one-byte view of a maximal memory.

Assumptions used: the named `ASSUME`s of `WasiFs` and `Memory`, in particular
`MaxPreopens + 3 < 2^FdWidth`. This says that `new` itself never overflows the
descriptor ids, which holds for any real preopen list against a u32.
`PageBytes * WasmMaxPages = 2^ViewWidth` is the relation of the real constants.

`release_wrap` shows that the descriptor theorems fail in a release build.

Out of the prover's reach, so checked by TLC only:
* liveness: none is claimed (see section 3);
* the violations (`release_wrap`, `symlink_spec_bound`, `new_panics`,
  `fdstat_inheriting`, `memory_view_wrap`), which TLC shows with a trace.

## 5. Plan and status

1. `WasiFs` (core): the descriptor table, the resolver, flush and new. **Done.**
2. The descriptor table as the spec's abstract table (`DescriptorTable`),
   with its refinement checked by TLC and proved. **Done.**
3. Proofs of `FlushGuarded` and `PreopensMounted`. **Done.**
4. The `Memory` handle, with the u32 truncation of `view` and views held
   across `grow`, and its proofs. **Done.**
5. Proofs of every property of the passing runs: the symlink resolver by
   induction on the loop counter, and `ViewExactBelowWrap`. **Done.**
   (`DescriptorTargetStable`, which repeated the refinement for live
   descriptors and the append-only insert otherwise, was dropped with its
   proof.)
6. A generational arena with `remove`, and `WasiFs` composed with it, to check
   the stale-`Index` panics at `state.rs:257/265/299`. **Dropped**: no code in
   this repository removes an inode, so an `Index` cannot go stale. A model
   with `remove` would check the external crate and a caller that does not
   exist, not this code. It becomes worth doing as soon as a code path calls
   `Arena::remove`.
7. Directory entries (`Kind::Dir.entries`) and the spec's invariant that they
   reference live inodes, as soon as a code path fills them (none in `src/`
   today).

Not modelled:
* the emscripten exception stubs and the README example (no state);
* `WasiFile` read/write/seek (pure I/O that no `WasiFs` method calls);
* `WasiState` (no operations);
* in `Memory`:
  - the bytes and the base pointer;
  - whether `grow` moves the base is decided by the memory style of
    `wasmer_vm`, outside this repository;
  - data races through `data_unchecked_mut`: the code neither tracks nor
    synchronises them.
