\* As MC_IsoCtxt.cfg, with hook h1 re-registering itself when it runs.
\* Resolve stopping is the point, so deadlock is not reported as such.
CONSTANTS
  w1 = w1  w2 = w2  c1 = c1  c2 = c2  t1 = t1  t2 = t2
  fA = fA  fB = fB  h1 = h1  h2 = h2
  Workers = {w1, w2}
  Publisher = pub
  Ctxts = {c1}
  Child = c1
  TaskIds = {t1, t2}
  TopLevel = top
  Closures = {fA, fB}
  Hooks = {h1, h2}
  HookRegs <- MC_HookRegs
  ReentrantHooks = {h1}
  MaxRuns = 3
  MaxResolves = 2

SPECIFICATION Spec

PROPERTY
  ResolveRefined

CHECK_DEADLOCK FALSE
