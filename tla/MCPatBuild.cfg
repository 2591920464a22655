SPECIFICATION Spec
INVARIANTS ArmsAgree UniformAccepted
CHECK_DEADLOCK FALSE
