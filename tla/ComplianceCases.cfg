SPECIFICATION Spec
CONSTANTS
  e1 = e1  e2 = e2  r1 = r1  r2 = r2  n1 = n1  n2 = n2  a1 = a1
  f1 = f1  f2 = f2  f3 = f3  m1 = m1
  g1 = g1  t1 = t1  t2 = t2  i1 = i1
  None = None
CHECK_DEADLOCK FALSE
SYMMETRY Symmetry
INVARIANTS ActivityOnce OwnersDrive
PROPERTIES QueueServed
