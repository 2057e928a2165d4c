\* Two Python threads, two task handles besides the default task, scopes
\* nested two deep.
CONSTANTS
  Threads = {p1, p2}
  Tasks = {t1, t2}
  DefaultTask = dflt
  MaxDepth = 2

SPECIFICATION Spec

INVARIANTS
  TypeOK
