SPECIFICATION PersistSpec
CONSTANTS
  a1 = a1
  a2 = a2
  h1 = h1
  h2 = h2
  j1 = j1
  j2 = j2
  r1 = r1
  Agent = {a1, a2}
  Notifier = {h1, h2}
  Job = {j1, j2}
  Remover = {r1}
  Nothing = Nothing
  MaxChanges = 3
SYMMETRY PersistSymmetry
INVARIANTS RestoreInventsNothing FileIsOneMoment
