------------------------------ MODULE MCMysock ------------------------------
(* Instances of Mysock for TLC.                                            *)
EXTENDS MysockInvariant

(* A file that is not there, and one of one byte.  Every line is sent in   *)
(* two segments.                                                           *)
MissingThenFile == <<-1, 1>>
=============================================================================
