\* One updater, two configurations that parse the contents differently.
CONSTANTS
  c1 = c1  c2 = c2  c3 = c3  g1 = g1  g2 = g2  k1 = k1  k2 = k2  k3 = k3
  Updaters = {x1}
  Contents = {c1, c2, c3}
  Configs = {g1, g2}
  Keys = {k1, k2, k3}
  Rows <- TwoConfigs
  None = None
  MaxPk = 2
SPECIFICATION FairSpec
INVARIANTS
  StoredDataIsWhole
  SkippedIsCurrent
PROPERTIES
  Converges
