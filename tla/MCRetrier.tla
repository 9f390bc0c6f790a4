----------------------------- MODULE MCRetrier -----------------------------
(***************************************************************************)
(* Instances of Retrier for TLC.                                           *)
(***************************************************************************)
EXTENDS Retrier
=============================================================================
