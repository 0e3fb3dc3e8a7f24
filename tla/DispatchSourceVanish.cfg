CONSTANTS
  c1 = c1
  w1 = w1
  m1 = m1
  Nobody = Nobody
  Clients = {c1}
  Workers = {w1}
  Managers = {m1}
  CancelHandlers = {"none", "set"}
  Casts = {{c1}}
  MayVanish = TRUE
  MaxEvents = 2
  LoneEvents = 2
SPECIFICATION SourceSpec
CHECK_DEADLOCK FALSE
INVARIANTS CancellationFinal
