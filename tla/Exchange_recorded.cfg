SPECIFICATION Spec
CONSTANT MaxBody = 1
INVARIANT DeliveredIsCompleted
CHECK_DEADLOCK FALSE
