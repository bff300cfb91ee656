SPECIFICATION Spec
CONSTANT MaxLines = 8
INVARIANT ElseErrorIsDeserved
CHECK_DEADLOCK FALSE
