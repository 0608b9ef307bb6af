---------------------------- MODULE MCSdkDevice ----------------------------
(* Instances of SdkDevice for TLC.                                          *)
EXTENDS SdkDevice

CONSTANTS s1, s2, s3, j1
=============================================================================
