SPECIFICATION Spec
CONSTANTS
  k1 = k1
  k2 = k2
  m1 = m1
  m2 = m2
  m3 = m3
  m4 = m4
  m5 = m5
  Keys = {k1, k2}
  Items = {m1, m2, m3, m4, m5}
  KeyOf <- MCKeyOf
  MaxTrackedKeys = 1
PROPERTY IsKeyedFifo EveryItemIsHanded IdleTracksNothing
CHECK_DEADLOCK FALSE
