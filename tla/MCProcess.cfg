CONSTANTS
  Tasks = {t1, t2, t3}
  Kernels = {k}
  Procs = {p1, p2, p3}
  NoProc = NoProc
  Bufs = {b1, b2}
  Programs <- GoodAndBad
  Leftover <- Clean
  Ops = {"thread", "fork", "exec", "die"}
SPECIFICATION Spec
INVARIANTS RefsExact MemoryLive ExecAlone NothingLeft
SYMMETRY Sym
