SPECIFICATION Spec
CONSTANTS
    hash = hash  open = open
    Leader = {hash, open}
    Repeatable = {hash}
    NoCarrier = NoCarrier
    Texts <- mcTexts
PROPERTIES
    RepairKeepsWords
    RepairIsLocal
CHECK_DEADLOCK FALSE
