------------------------------- MODULE MCCli --------------------------------
(***************************************************************************)
(* Small instances of Cli: three commands of any kind.                     *)
(***************************************************************************)
EXTENDS Cli, TLC

CONSTANTS v1, v2

MCVersions == {v1, v2}
Symmetric  == Permutations(Commands)

============================================================================
