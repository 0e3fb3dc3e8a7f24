\* Two clients and one event, or one client and two: what a client does meets every
\* stage of the other's call, and an event meets the rearming after an earlier one.
CONSTANTS
  c1 = c1
  c2 = c2
  w1 = w1
  m1 = m1
  Nobody = Nobody
  Clients = {c1, c2}
  Workers = {w1}
  Managers = {m1}
  CancelHandlers = {"none", "set"}
  Casts = {{c1, c2}, {c1}}
  MayVanish = FALSE
  MaxEvents = 1
  LoneEvents = 2
SPECIFICATION FairSourceSpec
CHECK_DEADLOCK FALSE
INVARIANTS CancellationFinal NothingLeftBehind
PROPERTIES EverythingServed
