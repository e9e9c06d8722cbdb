\* Five tables, three changes, one of them by another session perhaps.
CONSTANTS
    Tables <- SomeTables
    NewNames = {"a", "b", "c"}
    Types <- SomeTypes
    DataType <- InformationSchema
    Listed <- Dialog
    SerialOf <- Serials
    Assignable <- AssignmentCasts
    Defaults = {"none", "d1"}
    NoDefault = "none"
    NextValue = "nextval"
    MaxChanges = 3
    MaxOthers = 1
SPECIFICATION FormSpec
INVARIANTS ValidFormsApply
PROPERTIES AppliedTableIsTheForm LossIsConfirmed OnlyMarkedColumnsAreDropped
CHECK_DEADLOCK FALSE
