CONSTANTS
  c1 = c1  c2 = c2  c3 = c3  g1 = g1  g2 = g2  k1 = k1  k2 = k2  k3 = k3
  Updaters = {x1, x2}
  Contents = {c1, c2, c3}
  Configs = {g1}
  Keys = {k1, k2, k3}
  Rows <- OneConfig
  None = None
  MaxPk = 1
SPECIFICATION Spec
SYMMETRY UpdaterSymmetry
PROPERTIES
  UndisturbedUpdateIsWhole
