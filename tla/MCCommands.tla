---------------------------- MODULE MCCommands ----------------------------
(***************************************************************************)
(* Commands for model checking: the TPM's slots are interchangeable.       *)
(***************************************************************************)
EXTENDS Commands, TLC

CONSTANTS Sha1, Sha256

MCBanks == {Sha1, Sha256}
MCExtended == {{Sha256}, MCBanks}
MCSelections == {<< Sha1, Sha256 >>}

HandleSymmetry == Permutations(Handles)
=============================================================================
