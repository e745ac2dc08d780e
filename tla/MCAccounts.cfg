SPECIFICATION Spec
CONSTANTS
    Emails = {e1}
    MaxUsers = 1
    Requests = {r1}
    Sweepers = {w1, w2}
    LinkTime = 1
    Window = 2
    MaxKills = 1
PROPERTIES OnlyAwayIsSwept RemovedStaysRemoved SweptInTheEnd
