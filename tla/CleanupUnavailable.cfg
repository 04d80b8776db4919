SPECIFICATION Spec
CONSTANTS
    Media <- const_Media
    Item <- const_Item
    Section <- const_Section
    Kind <- const_Kind
    Parts <- const_Parts
    MaxChanges = 1
    MaxFail = 1
INVARIANTS SummaryRight CleanRunCleans
PROPERTY MissingWhenDeleted
