----------------------------- MODULE MC_Memory ------------------------------
(* Model values and inputs for the Memory handle. *)
EXTENDS Memory

CONSTANTS h1, h2

MCHandles == {h1, h2}

(* MemoryType::new(1, Some(2)), and one that may reach WASM_MAX_PAGES. *)
MCMemTypes == {[minimum |-> 1, maximum |-> 2], [minimum |-> 2, maximum |-> 4]}
=============================================================================
