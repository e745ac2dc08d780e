SPECIFICATION TasksSpec
CONSTANTS
  n1 = n1
  n2 = n2
  d1 = d1
  d2 = d2
  d3 = d3
  a1 = a1
  a2 = a2
  Notifications = {n1, n2}
  Documents = {d1, d2, d3}
  ApplicationOf <- MCApplicationOf
  HasEmail = {n1}
  Workers = {w1, w2}
  MaxRetries <- MCMaxRetries
  MaxFaults = 1
  MaxItems = 2
  Together <- MCTogether
  NoItem = NoItem
INVARIANTS TasksFindTheirRows NothingForgotten
PROPERTIES NoResend TasksEnd
CHECK_DEADLOCK FALSE
