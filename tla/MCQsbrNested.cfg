SPECIFICATION QsbrSpec
CONSTANTS
  m1 = m1  m2 = m2  w1 = w1   s1 = s1  s2 = s2  s3 = s3  c1 = c1  c2 = c2  c3 = c3
  o1 = o1  o2 = o2  o3 = o3  o4 = o4  o5 = o5
  Managers = {m1}
  Workers = {w1}
  Sessions = {s1, s2}
  Cells = {c1}
  Objs = {o1, o2}
  HomeOf <- OneHome
  WorkerOf <- SharedWorker
  OwnerOf <- OneCell
  Pinless = {}
  Discarding = {}
SYMMETRY ObjSymmetry
INVARIANT ResultsValidUntilDrop
