------------------------------- MODULE Memory -------------------------------
(***************************************************************************)
(* The host handle on a WebAssembly linear memory, src/lib/api/src/       *)
(* externals/memory.rs.  A Memory is an Arc of a runtime memory: clones   *)
(* and exports share the memory, grow delegates to it, and view builds a  *)
(* MemoryView whose length is the memory's byte size divided by the      *)
(* element size, cast to u32.                                             *)
(*                                                                         *)
(* The runtime memory is abstracted to its page count and maximum, with   *)
(* the grow contract the doc comments of grow state: the result is the    *)
(* previous size, and growing past the maximum fails with CouldNotGrow.   *)
(* Sizes are scaled: PageBytes stands for the 64 KiB wasm page,           *)
(* WasmMaxPages for WASM_MAX_PAGES (65536) and ViewWidth for the 32 bits  *)
(* of a view's length, keeping the relation the real values have: a       *)
(* memory at the maximum holds exactly 2^ViewWidth bytes.                 *)
(***************************************************************************)
EXTENDS Integers, Sequences

CONSTANTS
    Handles,       \* Memory values the host holds (model values)
    PageBytes,     \* bytes per page
    WasmMaxPages,  \* WASM_MAX_PAGES
    ViewWidth,     \* bits of MemoryView's u32 length
    MemTypes,      \* MemoryType values passed to new: [minimum, maximum]
    Deltas,        \* page counts passed to grow
    ElemSizes,     \* size_of::<T>() of the ValueTypes T passed to view
    MaxMemories    \* bound on the number of runtime memories created

ASSUME ScaleAssumption ==
    /\ PageBytes \in Nat \ {0} /\ WasmMaxPages \in Nat \ {0}
    /\ ViewWidth \in Nat \ {0}
    /\ PageBytes * WasmMaxPages = 2 ^ ViewWidth
ASSUME MemTypesAssumption ==
    \A t \in MemTypes : t.minimum \in 0 .. t.maximum /\ t.maximum \in 0 .. WasmMaxPages
ASSUME InputsAssumption ==
    /\ Deltas \subseteq Nat /\ ElemSizes \subseteq Nat \ {0}
    /\ MaxMemories \in Nat

VARIABLES
    mems,     \* the runtime memories, in creation order: [pages, maximum]
    handle,   \* handle[h]: the memory h's Arc points to, 0 before new
    views,    \* the MemoryViews the host has taken
    ret       \* the last call and its result

vars == <<mems, handle, views, ret>>

NoMemory == 0

Ok(v) == [ok |-> TRUE, val |-> v]
Err(e) == [ok |-> FALSE, val |-> e]

(* Pages::bytes *)
Bytes(m) == mems[m].pages * PageBytes

View == [mem : Nat \ {0}, sz : ElemSizes, bytes : Nat, len : Nat]

TypeOK ==
    /\ mems \in Seq([pages : 0 .. WasmMaxPages, maximum : 0 .. WasmMaxPages])
    /\ handle \in [Handles -> 0 .. Len(mems)]
    /\ views \subseteq View
    /\ ret.op \in {"none", "new", "clone", "grow", "view", "same"}

Init ==
    /\ mems = << >>
    /\ handle = [h \in Handles |-> NoMemory]
    /\ views = {}
    /\ ret = [op |-> "none", h |-> NoMemory, res |-> Ok(0)]

(* Memory::new: the store's tunables create the runtime memory; the       *)
(* allocation may fail (MemoryError), and then no handle exists.          *)
New(h, ty) ==
    /\ handle[h] = NoMemory
    /\ Len(mems) < MaxMemories
    /\ \/ /\ mems' = Append(mems, [pages |-> ty.minimum, maximum |-> ty.maximum])
          /\ handle' = [handle EXCEPT ![h] = Len(mems) + 1]
          /\ ret' = [op |-> "new", h |-> h, res |-> Ok(Len(mems) + 1)]
       \/ /\ ret' = [op |-> "new", h |-> h, res |-> Err("MemoryError")]
          /\ UNCHANGED <<mems, handle>>
    /\ UNCHANGED views

(* Clone, to_export and from_export: the new handle shares the Arc. *)
Clone(h, h2) ==
    /\ handle[h] # NoMemory /\ handle[h2] = NoMemory
    /\ handle' = [handle EXCEPT ![h2] = handle[h]]
    /\ ret' = [op |-> "clone", h |-> h2, res |-> Ok(handle[h])]
    /\ UNCHANGED <<mems, views>>

(* Mutant of Grow: the maximum not checked. *)
GrowUnchecked(h, delta) ==
    LET m == handle[h]
    IN  /\ m # NoMemory
        /\ mems' = [mems EXCEPT ![m] = [pages |-> @.pages + delta, maximum |-> @.maximum]]
        /\ ret' = [op |-> "grow", h |-> h, res |-> Ok(mems[m].pages)]
        /\ UNCHANGED <<handle, views>>

(* grow: self.memory.grow(delta), returning the previous size. *)
Grow(h, delta) ==
    LET m == handle[h]
    IN  /\ m # NoMemory
        /\ IF mems[m].pages + delta <= mems[m].maximum
             THEN /\ mems' = [mems EXCEPT ![m] = [pages |-> @.pages + delta, maximum |-> @.maximum]]
                  /\ ret' = [op |-> "grow", h |-> h, res |-> Ok(mems[m].pages)]
             ELSE /\ ret' = [op |-> "grow", h |-> h, res |-> Err("CouldNotGrow")]
                  /\ UNCHANGED mems
        /\ UNCHANGED <<handle, views>>

(* Mutant of ViewLength: the length cast to a type one bit narrower. *)
ViewLengthNarrow(bytes, sz) == (bytes \div sz) % 2 ^ (ViewWidth - 1)

(* Mutant of ViewLength: the element count rounded up. *)
ViewLengthCeil(bytes, sz) == ((bytes + sz - 1) \div sz) % 2 ^ ViewWidth

(* self.size().bytes().0 / size_of::<T>(), then `length as u32`. *)
ViewLength(bytes, sz) == (bytes \div sz) % 2 ^ ViewWidth

(* view::<T>: a MemoryView over the current size. *)
TakeView(h, sz) ==
    LET m == handle[h]
    IN  /\ m # NoMemory
        /\ views' = views \cup {[mem |-> m, sz |-> sz, bytes |-> Bytes(m),
                                 len |-> ViewLength(Bytes(m), sz)]}
        /\ ret' = [op |-> "view", h |-> h, res |-> Ok(ViewLength(Bytes(m), sz))]
        /\ UNCHANGED <<mems, handle>>

(* same: Arc::ptr_eq of the two handles' memories. *)
Same(h, h2) ==
    /\ handle[h] # NoMemory /\ handle[h2] # NoMemory
    /\ ret' = [op |-> "same", h |-> h, res |-> Ok(handle[h] = handle[h2])]
    /\ UNCHANGED <<mems, handle, views>>

Next ==
    \/ \E h \in Handles, ty \in MemTypes : New(h, ty)
    \/ \E h, h2 \in Handles : Clone(h, h2) \/ Same(h, h2)
    \/ \E h \in Handles, d \in Deltas : Grow(h, d)
    \/ \E h \in Handles, sz \in ElemSizes : TakeView(h, sz)

Spec == Init /\ [][Next]_vars

-----------------------------------------------------------------------------
(* A view stays inside its memory: the elements it claims, taken at any   *)
(* earlier point and through any handle sharing the memory, fit in the    *)
(* memory's current size, however it has grown since (through this or    *)
(* another handle).  An access through a view is unchecked beyond len.    *)
ViewsInBounds ==
    \A v \in views : v.len * v.sz <= Bytes(v.mem)

(* Where the u32 cast of view is harmless: a view of elements of two     *)
(* bytes or more, and any view of a memory below the 4 GiB maximum        *)
(* (2^ViewWidth bytes), covers every whole element of the memory at the  *)
(* time it is taken.  Together with ViewCoversMemory failing, this places *)
(* the loss exactly: only a one-byte view of a maximal memory is cut.     *)
ViewExactBelowWrap ==
    \A v \in views :
        (v.sz >= 2 \/ v.bytes < 2 ^ ViewWidth) => v.len = v.bytes \div v.sz

(* What the doc comment of view promises, "a view of the currently        *)
(* accessible memory": the view covers every whole element of the memory *)
(* at the time it is taken (length = bytes / size_of::<T>()).             *)
ViewCoversMemory ==
    \A v \in views : v.len = v.bytes \div v.sz

=============================================================================
