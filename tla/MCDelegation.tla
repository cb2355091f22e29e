---------------------------- MODULE MCDelegation ----------------------------
(* Two workers side by side, and a third that depends on the first and       *)
(* claims the path of the second.  The first may change that path as well.   *)
EXTENDS Delegation

CONSTANTS w1, w2, w3, f1, f2

MCOrder == <<w1, w2, w3>>
MCDependsOn == [w \in Workers |-> IF w = w3 THEN {w1} ELSE {}]
MCPatches == [w \in Workers |-> IF w = w1 THEN {{f1}, {f2}} ELSE {{f2}}]
MCLockPaths == [w \in Workers |-> IF w = w1 THEN {f1} ELSE {f2}]
=============================================================================
