------------------------ MODULE MCThreadRunController ------------------------
(* Instances of ThreadRunController for TLC; the bounds are in the cfg files. *)
EXTENDS ThreadRunController
================================================================================
