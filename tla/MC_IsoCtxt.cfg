\* Two workers, one context, two task identities, three task runs and two
\* resolve attempts of context c1.
CONSTANTS
  w1 = w1  w2 = w2  c1 = c1  c2 = c2  t1 = t1  t2 = t2
  fA = fA  fB = fB  h1 = h1  h2 = h2
  Workers = {w1, w2}
  Publisher = pub
  Ctxts = {c1}
  Child = c1
  TaskIds = {t1, t2}
  TopLevel = top
  Closures = {fA, fB}
  Hooks = {h1, h2}
  HookRegs <- MC_HookRegs
  ReentrantHooks = {}
  MaxRuns = 3
  MaxResolves = 2

SPECIFICATION Spec

INVARIANTS
  TypeOK
  ReplayGatedByHooks

PROPERTIES
  ResolveRefined
