SPECIFICATION Spec
INVARIANTS   NoMixing  
PROPERTY RevocationHolds
CHECK_DEADLOCK FALSE
