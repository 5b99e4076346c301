---------------------------- MODULE NatRecursion ----------------------------
(***************************************************************************)
(* The recursion equation of a function over Nat defined by primitive     *)
(* recursion, for a step operator Def given as a parameter.  A module     *)
(* that defines such a function (as WasiFs does for the symlink loop of   *)
(* filestat_inode) instantiates this one with its own step, so that the   *)
(* library theorem NatInductiveDef, whose operator parameter the provers  *)
(* cannot instantiate, is only ever used with a declared operator.        *)
(***************************************************************************)
EXTENDS NaturalsInduction, TLAPS

CONSTANT Def(_, _)

(* The function f[n \in Nat] == IF n = 0 THEN base ELSE Def(f[n - 1], n). *)
Fix(base) ==
    CHOOSE g : g = [n \in Nat |-> IF n = 0 THEN base ELSE Def(g[n - 1], n)]

(* That function satisfies its defining equation: it exists, whatever    *)
(* the step, because each value depends only on the one before.          *)
THEOREM FixEquation ==
    ASSUME NEW base
    PROVE  Fix(base) = [n \in Nat |-> IF n = 0 THEN base
                                      ELSE Def(Fix(base)[n - 1], n)]
<1>1. NatInductiveDefHypothesis(Fix(base), base, Def)
    BY DEF NatInductiveDefHypothesis, Fix
<1>2. NatInductiveDefConclusion(Fix(base), base, Def)
    BY <1>1, NatInductiveDef
<1>. QED
    BY <1>2 DEF NatInductiveDefConclusion

=============================================================================
