\* Two handles over up to two memories; 2-byte pages, WASM_MAX_PAGES = 4 and
\* 3-bit view lengths (a maximal memory holds 2^3 bytes); views of u8, u16
\* and u64 elements.
CONSTANTS
    h1 = h1
    h2 = h2
    Handles <- MCHandles
    PageBytes = 2
    WasmMaxPages = 4
    ViewWidth = 3
    MemTypes <- MCMemTypes
    Deltas = {0, 1, 2}
    ElemSizes = {1, 2, 8}
    MaxMemories = 2
INIT Init
NEXT Next
INVARIANTS ViewCoversMemory
