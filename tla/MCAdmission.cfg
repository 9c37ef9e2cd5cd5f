SPECIFICATION Spec
CONSTANTS
    None = None
    proc1 = proc1
    proc2 = proc2
    inode1 = inode1
    inode2 = inode2
SYMMETRY Symmetry
INVARIANTS
    UsedOnceWhileValid Agreement HintBeginsOnce SessionsOwned CancelReaches
    CredentialOnce  AdmittedOnce
CHECK_DEADLOCK FALSE
