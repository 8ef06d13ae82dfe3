--------------------------- MODULE UploadSessionMC ---------------------------
(* Instances of UploadSession for TLC.                                      *)
EXTENDS UploadSession

AnySetup == {"open", "refusing", "missing"}
=============================================================================
