---------------------------- MODULE MCFeedUpdate -----------------------------
(* Instances of FeedUpdate for TLC. *)
EXTENDS FeedUpdate, TLC

CONSTANTS c1, c2, c3, g1, g2, k1, k2, k3

\* Contents that share a row, and one that has no row.
OneConfig == g1 :> ((c1 :> {k1, k2}) @@ (c2 :> {k2, k3}) @@ (c3 :> {}))

\* A second configuration under which the same contents are parsed otherwise.
TwoConfigs ==
  OneConfig @@ (g2 :> ((c1 :> {k1}) @@ (c2 :> {k2, k3}) @@ (c3 :> {k3})))

UpdaterSymmetry == Permutations(Updaters)
=============================================================================
