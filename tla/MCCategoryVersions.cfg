SPECIFICATION Spec
CONSTANTS
    Staff = {s1, s2}
    Deploy = deploy
    Fields = {f1}
    Rules = {}
    MaxVersion = 2
    MaxKilled = 1
    MaxForms = 2
    MaxSubmitted = 1
SYMMETRY Interchangeable
INVARIANTS OnePublished SchemaTellsFields
CHECK_DEADLOCK FALSE
