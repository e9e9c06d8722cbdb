\* A hasty user whose requests fail, and one beside another session.
CONSTANTS
    Keys = {1, 2, 3}
    Values = {"v", "w"}
    Visits <- SomeVisits
    Requests = {q1, q2}
    PageSize = 2
    MaxRows = 3
SPECIFICATION Spec
SYMMETRY RequestSymmetry
INVARIANTS PageShowsTable
PROPERTIES DoneChangedOneRow
CHECK_DEADLOCK FALSE
