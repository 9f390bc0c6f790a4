-------------------------- MODULE MCFileMutations --------------------------
(***************************************************************************)
(* Instances of FileMutations for TLC.                                     *)
(***************************************************************************)
EXTENDS FileMutations, TLC

CONSTANTS old, new, link, t1, t2, t3

\* A link to the file that exists.
LinkToOld == [p \in {link} |-> old]
\* A link to the file that does not exist yet.
LinkToNew == [p \in {link} |-> new]

Call(tools, paths, anchored) == [tool : tools, path : paths, anchored : {anchored}]

\* One caller edits the file, with an anchor or not, the others edit it through the
\* link, write it or write a file that does not exist yet.
ThreeCallers ==
     t1 :> Call({"edit"}, {old}, TRUE) \cup Call({"edit"}, {old}, FALSE)
  @@ t2 :> Call({"edit"}, {link}, FALSE) \cup Call({"write"}, {old}, FALSE)
  @@ t3 :> Call({"write"}, {link, new}, FALSE) \cup Call({"edit"}, {new}, FALSE)

\* Any call of either tool on any path.
AnyCalls == [t \in Callers |-> Calls]
=============================================================================
