---------------------------- MODULE MCOAuthLogin ------------------------------
(* Instances of OAuthLogin for TLC; the bounds are in the cfg file. *)
EXTENDS OAuthLogin
================================================================================
