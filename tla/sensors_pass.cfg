SPECIFICATION Spec
CONSTANT MaxEvents = 3
INVARIANTS TypeOK MeasuresWhenOn EndsClean
PROPERTIES EnterEnds
CHECK_DEADLOCK FALSE
