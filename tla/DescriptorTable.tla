-------------------------- MODULE DescriptorTable --------------------------
(***************************************************************************)
(* What the descriptor table promises (spec, sections 3 and 4.3), stated   *)
(* without next_fd, the u32 counter or the arena: a partial map from ids   *)
(* to descriptors.  The initial table holds the ids 3 .. n + 2, one per    *)
(* preopen.  The only change is an allocation, which adds one id above     *)
(* every id in use (monotonic, never a stdio id, never one already live)   *)
(* and leaves every existing descriptor as it is.  There is no close.      *)
(***************************************************************************)
EXTENDS Naturals

VARIABLE table

(* Ids in use. *)
Live == DOMAIN table

(* After initialization the preopened descriptors are exactly 3 .. n + 2  *)
(* for some n: no id below 3, and no gap.                                 *)
Init == \A x \in Live : 3 <= x /\ (x > 3 => x - 1 \in Live)

(* allocate: one fresh id, above every live id and above the stdio ids;   *)
(* the descriptors already live keep their ids and their contents.        *)
Allocate ==
    LET added == Live' \ Live
    IN  /\ \E id \in added :
              /\ added = {id}
              /\ 3 <= id
              /\ \A x \in Live : x < id
        /\ Live \subseteq Live'
        /\ \A x \in Live : table'[x] = table[x]

Spec == Init /\ [][Allocate]_table

=============================================================================
