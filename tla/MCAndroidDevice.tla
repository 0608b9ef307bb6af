-------------------------- MODULE MCAndroidDevice --------------------------
(* Instances of AndroidDevice for TLC.                                      *)
EXTENDS AndroidDevice

CONSTANTS s1, s2, s3, t1, t2
=============================================================================
