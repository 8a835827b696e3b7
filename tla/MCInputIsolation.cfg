SPECIFICATION FairSpec
CONSTANTS
    Objects = {a, b, c}
    Revisions = {0, 1}
    Absent = 0
    Validities <- AllValidities
    MaxChanges = 1
PROPERTIES AcceptedIsValid NoneIsLeftBehind SelectionEnds
