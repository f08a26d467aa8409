SPECIFICATION Spec
CONSTANTS
  c1 = c1
  c2 = c2
  p1 = p1
  p2 = p2
  Clients = {c1, c2}
  Processes = {p1}
  ProcessOf <- MCOneProcess
  Docs = {d1, d2}
  NoDoc = NoDoc
  Partial = Partial
  Nobody = Nobody
  Faults = {}
INVARIANT GetDescribesItsBody
