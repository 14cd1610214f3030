---------------------------- MODULE MCReleaseChain ----------------------------
(***************************************************************************)
(* Three companies in two shards, of which the pinned one shares a shard.  *)
(* An update of each company, one of two of them that exceeds the          *)
(* budget, one in which the SEC restated a fact of the archive, and one    *)
(* retrieved before the archive was taken.                                 *)
(***************************************************************************)
EXTENDS ReleaseChain, TLC

CONSTANTS wmt, nke, cost

\* No action tells one run from another.
RunSymmetry == Permutations(Runs)

Retrieved(S, snapshot) ==
  [companies |-> S, snapshots |-> [c \in Companies |-> IF c \in S THEN snapshot ELSE Archived]]

Newer == [filed |-> 2, restated |-> FALSE]

MCCandidates == {
  Retrieved({nke}, Newer), Retrieved({cost}, Newer), Retrieved({wmt}, Newer),
  Retrieved({nke, cost}, Newer),
  Retrieved({cost}, [filed |-> 2, restated |-> TRUE]),
  Retrieved({nke}, [filed |-> 0, restated |-> FALSE]),
  Retrieved({}, Newer)}
=============================================================================
