---------------------------- MODULE Memory_proofs ----------------------------
(***************************************************************************)
(* Proofs about the Memory handle for every value of its constants: type  *)
(* correctness, and that no view taken through any handle ever claims     *)
(* more bytes than its memory holds.                                      *)
(***************************************************************************)
EXTENDS Memory, SequenceTheorems, TLAPS

(* The u32 cast of view can only shorten the quotient, and the quotient   *)
(* times the element size never exceeds the byte count.                   *)
LEMMA ViewLengthBound ==
    ASSUME NEW b \in Nat, NEW s \in Nat \ {0}
    PROVE  /\ ViewLength(b, s) \in Nat
           /\ ViewLength(b, s) * s <= b
<1>1. 2 ^ ViewWidth \in Nat \ {0}
    BY ScaleAssumption
<1>2. (b \div s) \in Nat /\ (b \div s) * s <= b
    OBVIOUS
<1>3. (b \div s) % 2 ^ ViewWidth \in 0 .. b \div s
    BY <1>1, <1>2
<1>. QED
    BY <1>2, <1>3 DEF ViewLength

-----------------------------------------------------------------------------
(* ViewsInBounds is inductive together with TypeOK and the fact that a    *)
(* view names a memory that exists: memories are only appended, and grow *)
(* only adds pages.                                                        *)

MInv == /\ TypeOK
        /\ \A v \in views : v.mem \in 1 .. Len(mems)
        /\ ViewsInBounds

MemRec == [pages : 0 .. WasmMaxPages, maximum : 0 .. WasmMaxPages]

(* Scaling a smaller page count gives fewer bytes. *)
LEMMA MulMonotone ==
    ASSUME NEW a \in Nat, NEW b \in Nat, NEW c \in Nat, a <= b
    PROVE  a * c <= b * c
OBVIOUS

LEMMA InitMInv == Init => MInv
<1>. SUFFICES ASSUME Init PROVE MInv
    OBVIOUS
<1>1. mems = << >> /\ Len(mems) = 0 /\ mems \in Seq(MemRec)
    BY EmptySeq DEF Init
<1>2. handle \in [Handles -> 0 .. Len(mems)]
    BY <1>1 DEF Init, NoMemory
<1>. QED
    BY <1>1, <1>2 DEF Init, MInv, TypeOK, ViewsInBounds, MemRec

LEMMA NewMInv ==
    ASSUME MInv, NEW h \in Handles, NEW ty \in MemTypes, New(h, ty)
    PROVE  MInv'
<1>1. CASE UNCHANGED <<mems, handle>>
    <2>1. ret'.op = "new" /\ views' = views
        BY DEF New
    <2>. QED
        BY <1>1, <2>1 DEF MInv, TypeOK, ViewsInBounds, Bytes
<1>2. CASE ~UNCHANGED <<mems, handle>>
    <2>. DEFINE rec == [pages |-> ty.minimum, maximum |-> ty.maximum]
    <2>1. /\ mems' = Append(mems, rec)
          /\ handle' = [handle EXCEPT ![h] = Len(mems) + 1]
          /\ ret'.op = "new" /\ views' = views
        BY <1>2 DEF New
    <2>2. rec \in MemRec
        BY MemTypesAssumption, ScaleAssumption DEF MemRec
    <2>3. mems \in Seq(MemRec)
        BY DEF MInv, TypeOK, MemRec
    <2>4. /\ mems' \in Seq(MemRec)
          /\ Len(mems') = Len(mems) + 1
          /\ \A j \in 1 .. Len(mems) : mems'[j] = mems[j]
        BY <2>1, <2>2, <2>3, AppendProperties
    <2>5. handle' \in [Handles -> 0 .. Len(mems')]
        BY <2>1, <2>3, <2>4 DEF MInv, TypeOK
    <2>6. \A v \in views' : v.mem \in 1 .. Len(mems') /\ Bytes(v.mem)' = Bytes(v.mem)
        BY <2>1, <2>3, <2>4 DEF MInv, Bytes
    <2>. QED
        BY <2>1, <2>4, <2>5, <2>6 DEF MInv, TypeOK, ViewsInBounds, MemRec
<1>. QED
    BY <1>1, <1>2

LEMMA GrowMInv ==
    ASSUME MInv, NEW h \in Handles, NEW d \in Deltas, Grow(h, d)
    PROVE  MInv'
<1>. PICK m \in 1 .. Len(mems) : m = handle[h]
    BY DEF Grow, MInv, TypeOK, NoMemory
<1>1. mems \in Seq(MemRec) /\ d \in Nat /\ WasmMaxPages \in Nat
    BY InputsAssumption, ScaleAssumption DEF MInv, TypeOK, MemRec
<1>0. mems[m] \in MemRec
    BY <1>1, ElementOfSeq
<1>2. CASE mems[m].pages + d <= mems[m].maximum
    <2>. DEFINE e == [pages |-> mems[m].pages + d, maximum |-> mems[m].maximum]
    <2>1. mems' = [mems EXCEPT ![m] = e] /\ ret'.op = "grow"
          /\ UNCHANGED <<handle, views>>
        BY <1>2 DEF Grow
    <2>2. e \in MemRec /\ mems[m].pages <= e.pages
        BY <1>0, <1>1, <1>2 DEF MemRec
    <2>3. /\ mems' \in Seq(MemRec)
          /\ Len(mems') = Len(mems)
          /\ \A j \in 1 .. Len(mems) : mems'[j] = IF j = m THEN e ELSE mems[j]
        BY <1>1, <2>1, <2>2, ExceptSeq
    <2>4. \A j \in 1 .. Len(mems) : Bytes(j) <= Bytes(j)'
        <3>. SUFFICES ASSUME NEW j \in 1 .. Len(mems) PROVE Bytes(j) <= Bytes(j)'
            OBVIOUS
        <3>1. mems[j] \in MemRec
            BY <1>1, ElementOfSeq
        <3>2. mems[j].pages \in Nat /\ mems'[j].pages \in Nat
              /\ mems[j].pages <= mems'[j].pages
            <4>1. CASE j = m
                BY <4>1, <2>2, <2>3, <3>1 DEF MemRec
            <4>2. CASE j # m
                BY <4>2, <2>3, <3>1 DEF MemRec
            <4>. QED
                BY <4>1, <4>2
        <3>3. PageBytes \in Nat
            BY ScaleAssumption
        <3>. QED
            BY <3>2, <3>3, MulMonotone DEF Bytes
    <2>5. TypeOK'
        BY <2>1, <2>3 DEF MInv, TypeOK, MemRec
    <2>6. \A v \in views' : v.mem \in 1 .. Len(mems') /\ v.len * v.sz <= Bytes(v.mem)'
        <3>. SUFFICES ASSUME NEW v \in views PROVE v.mem \in 1 .. Len(mems')
                                                /\ v.len * v.sz <= Bytes(v.mem)'
            BY <2>1
        <3>1. v.mem \in 1 .. Len(mems) /\ v.len * v.sz <= Bytes(v.mem)
            BY DEF MInv, ViewsInBounds
        <3>2. mems[v.mem] \in MemRec /\ mems'[v.mem] \in MemRec
            BY <1>1, <2>3, <3>1, ElementOfSeq
        <3>3. v.len * v.sz \in Int /\ Bytes(v.mem) \in Int /\ Bytes(v.mem)' \in Int
            <4>1. v \in View
                BY DEF MInv, TypeOK
            <4>2. v.len \in Nat /\ v.sz \in Nat
                BY <4>1, InputsAssumption DEF View
            <4>5. v.len * v.sz \in Int
                BY <4>2
            <4>3. Bytes(v.mem) \in Int /\ Bytes(v.mem)' \in Int
                BY <3>2, ScaleAssumption DEF Bytes, MemRec
            <4>. QED
                BY <4>5, <4>3
        <3>. QED
            BY <2>3, <2>4, <3>1, <3>3
    <2>. QED
        BY <2>5, <2>6 DEF MInv, ViewsInBounds
<1>3. CASE ~(mems[m].pages + d <= mems[m].maximum)
    BY <1>3 DEF Grow, MInv, TypeOK, ViewsInBounds, Bytes
<1>. QED
    BY <1>2, <1>3

LEMMA TakeViewMInv ==
    ASSUME MInv, NEW h \in Handles, NEW sz \in ElemSizes, TakeView(h, sz)
    PROVE  MInv'
<1>. PICK m \in 1 .. Len(mems) : m = handle[h]
    BY DEF TakeView, MInv, TypeOK, NoMemory
<1>1. mems \in Seq(MemRec) /\ sz \in Nat \ {0}
    BY InputsAssumption DEF MInv, TypeOK, MemRec
<1>0. mems[m] \in MemRec
    BY <1>1, ElementOfSeq
<1>2. Bytes(m) \in Nat
    BY <1>0, ScaleAssumption DEF Bytes, MemRec
<1>3. ViewLength(Bytes(m), sz) \in Nat /\ ViewLength(Bytes(m), sz) * sz <= Bytes(m)
    BY <1>1, <1>2, ViewLengthBound
<1>4. views' = views \cup {[mem |-> m, sz |-> sz, bytes |-> Bytes(m),
                            len |-> ViewLength(Bytes(m), sz)]}
      /\ UNCHANGED <<mems, handle>> /\ ret'.op = "view"
    BY DEF TakeView
<1>. QED
    BY <1>1, <1>2, <1>3, <1>4 DEF MInv, TypeOK, ViewsInBounds, View, Bytes

LEMMA NextMInv == MInv /\ [Next]_vars => MInv'
<1>. SUFFICES ASSUME MInv, [Next]_vars PROVE MInv'
    OBVIOUS
<1>1. CASE \E h \in Handles, ty \in MemTypes : New(h, ty)
    BY <1>1, NewMInv
<1>2. CASE \E h, h2 \in Handles : Clone(h, h2) \/ Same(h, h2)
    BY <1>2 DEF Clone, Same, MInv, TypeOK, ViewsInBounds, Bytes
<1>3. CASE \E h \in Handles, d \in Deltas : Grow(h, d)
    BY <1>3, GrowMInv
<1>4. CASE \E h \in Handles, sz \in ElemSizes : TakeView(h, sz)
    BY <1>4, TakeViewMInv
<1>5. CASE UNCHANGED vars
    BY <1>5 DEF vars, MInv, TypeOK, ViewsInBounds, Bytes
<1>. QED
    BY <1>1, <1>2, <1>3, <1>4, <1>5 DEF Next

(* Every reachable state of the Memory handle is well typed. *)
THEOREM MemoryTypeCorrect == Spec => []TypeOK
BY InitMInv, NextMInv, PTL DEF Spec, MInv

(* No MemoryView, taken at any point through any handle, claims more      *)
(* elements than its memory holds now, for every page size, maximum and  *)
(* length width.                                                          *)
THEOREM ViewsInBoundsHolds == Spec => []ViewsInBounds
BY InitMInv, NextMInv, PTL DEF Spec, MInv

-----------------------------------------------------------------------------
(* Where the u32 cast is harmless.  Every view records the length view   *)
(* computed from the byte count it saw, and no memory ever holds more     *)
(* than 2^ViewWidth bytes (WASM_MAX_PAGES pages); the quotient of such a  *)
(* count by two or more, or of a smaller count, fits the width.           *)

(* The views as view built them, over a byte count of at most 2^ViewWidth. *)
ViewsAsBuilt ==
    \A v \in views : /\ v.len = ViewLength(v.bytes, v.sz)
                     /\ v.bytes \in 0 .. 2 ^ ViewWidth

(* A memory holds at most WASM_MAX_PAGES pages, 2^ViewWidth bytes. *)
LEMMA BytesBound ==
    ASSUME TypeOK, NEW m \in 1 .. Len(mems)
    PROVE  Bytes(m) \in 0 .. 2 ^ ViewWidth
<1>0. mems \in Seq(MemRec)
    BY DEF TypeOK, MemRec
<1>1. mems[m] \in MemRec
    BY <1>0, ElementOfSeq
<1>2. mems[m].pages * PageBytes <= WasmMaxPages * PageBytes
    BY <1>1, ScaleAssumption, MulMonotone DEF MemRec
<1>3. mems[m].pages * PageBytes \in Nat
    BY <1>1, ScaleAssumption DEF MemRec
<1>. QED
    BY <1>2, <1>3, ScaleAssumption DEF Bytes

(* The cast keeps the quotient when the elements are two bytes or more, *)
(* or the byte count is below 2^ViewWidth.                               *)
LEMMA ViewLengthExact ==
    ASSUME NEW b \in 0 .. 2 ^ ViewWidth, NEW s \in Nat \ {0},
           s >= 2 \/ b < 2 ^ ViewWidth
    PROVE  ViewLength(b, s) = b \div s
<1>. DEFINE q == b \div s
<1>1. 2 ^ ViewWidth \in Nat \ {0}
    BY ScaleAssumption
<1>2. q \in Nat /\ q * s <= b
    OBVIOUS
<1>3. q < 2 ^ ViewWidth
    <2>1. CASE s >= 2
        <3>1. q * 2 <= q * s
            BY <1>2, <2>1, MulMonotone
        <3>. QED
            BY <1>1, <1>2, <3>1
    <2>2. CASE b < 2 ^ ViewWidth
        <3>1. q * 1 <= q * s
            BY <1>2, MulMonotone
        <3>. QED
            BY <1>1, <1>2, <2>2, <3>1
    <2>. QED
        BY <2>1, <2>2
<1>. QED
    BY <1>1, <1>2, <1>3 DEF ViewLength

LEMMA NextViewsAsBuilt == TypeOK /\ ViewsAsBuilt /\ [Next]_vars => ViewsAsBuilt'
<1>. SUFFICES ASSUME TypeOK, ViewsAsBuilt, [Next]_vars PROVE ViewsAsBuilt'
    OBVIOUS
<1>1. CASE \E h \in Handles, sz \in ElemSizes : TakeView(h, sz)
    <2>. PICK h \in Handles, sz \in ElemSizes : TakeView(h, sz)
        BY <1>1
    <2>. PICK m \in 1 .. Len(mems) : m = handle[h]
        BY DEF TakeView, TypeOK, NoMemory
    <2>1. views' = views \cup {[mem |-> m, sz |-> sz, bytes |-> Bytes(m),
                                len |-> ViewLength(Bytes(m), sz)]}
        BY DEF TakeView
    <2>2. Bytes(m) \in 0 .. 2 ^ ViewWidth
        BY BytesBound
    <2>. QED
        BY <2>1, <2>2 DEF ViewsAsBuilt
<1>2. CASE ~\E h \in Handles, sz \in ElemSizes : TakeView(h, sz)
    <2>1. views' = views
        BY <1>2 DEF Next, vars, New, Clone, Same, Grow
    <2>. QED
        BY <2>1 DEF ViewsAsBuilt
<1>. QED
    BY <1>1, <1>2

(* Views of elements of two bytes or more, and views of a memory below    *)
(* the maximum, cover the whole memory, for every page size, maximum and  *)
(* length width: only a one-byte view of a maximal memory is cut.         *)
THEOREM ViewExactBelowWrapHolds == Spec => []ViewExactBelowWrap
<1>1. Init => ViewsAsBuilt
    BY DEF Init, ViewsAsBuilt
<1>2. Spec => []ViewsAsBuilt
    BY <1>1, NextViewsAsBuilt, MemoryTypeCorrect, PTL DEF Spec
<1>3. TypeOK /\ ViewsAsBuilt => ViewExactBelowWrap
    <2>. SUFFICES ASSUME TypeOK, ViewsAsBuilt, NEW v \in views,
                         v.sz >= 2 \/ v.bytes < 2 ^ ViewWidth
                  PROVE  v.len = v.bytes \div v.sz
        BY DEF ViewExactBelowWrap
    <2>1. v.sz \in Nat \ {0} /\ v.bytes \in 0 .. 2 ^ ViewWidth
          /\ v.len = ViewLength(v.bytes, v.sz)
        BY InputsAssumption DEF TypeOK, View, ViewsAsBuilt
    <2>. QED
        BY <2>1, ViewLengthExact
<1>. QED
    BY <1>2, <1>3, MemoryTypeCorrect, PTL

=============================================================================
