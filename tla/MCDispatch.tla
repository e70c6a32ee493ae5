----------------------------- MODULE MCDispatch -----------------------------
(***************************************************************************)
(* Small instances of Dispatch.  o1 has the auth value <<a1>>, o2 the      *)
(* empty one, which is also the value of an object nobody protected.       *)
(***************************************************************************)
EXTENDS Dispatch, TLC

CONSTANTS h1, h2, s1, s2, o1, o2, a1, z1

OneHandle == {h1}
TwoHandles == {h1, h2}
OneSlot == {s1}
TwoSlots == {s1, s2}
OneObject == {o1}
TwoObjects == {o1, o2}
MCSecrets == {a1, z1}
MCAuthOf == [o \in Objects |-> IF o = o1 THEN <<a1>> ELSE <<>>]
MCAuthValues == {<<>>, <<a1>>}
RightAuthOnly == {<<a1>>}
NoSalts == {<<>>}
MCSalts == {<<>>, <<z1>>}

\* TPM_RC_SESSION_MEMORY.
MCRefusals == {2307}
=============================================================================
