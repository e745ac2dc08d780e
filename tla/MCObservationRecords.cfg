SPECIFICATION RecordsSpec
CONSTANTS
  Rows = {o1}
  NoRow = no_row
  Values = {v1, v2}
  Publications <- MCPublications
  Grades = {"", "good"}
  Ungraded = ""
  Classes = {"staff_only"}
  StaffOnly = "staff_only"
  Users = {"hugh", "tess"}
  Approvers = {"hugh"}
  Editors = {e1, e2, e3}
  MaxEdits = 3
  MaxStamps = 3
  MaxPeriods = 2
INVARIANTS LastCorrectionIsCurrent HistoryIsRooted PeriodsCountOnce
PROPERTIES ApprovedStays
SYMMETRY Interchangeable
