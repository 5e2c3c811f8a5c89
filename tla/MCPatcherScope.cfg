\* One call, then nothing more happens.
CONSTANTS
    Texts <- MCTexts
    Clones <- MCClones
    Requests <- MCRequests

SPECIFICATION Spec
CHECK_DEADLOCK FALSE

PROPERTIES
    ScopedToContainer
