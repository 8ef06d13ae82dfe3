---------------------------- MODULE OtaUpdateMC ----------------------------
(* Instances of OtaUpdate for TLC.                                         *)
EXTENDS OtaUpdate

BothBootloaders == {"plain", "rollback"}
PlainBootloader == {"plain"}
=============================================================================
