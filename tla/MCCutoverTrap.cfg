SPECIFICATION CutoverSpec
CONSTANT MaxMishaps = 1
PROPERTY TrapReactivates
CHECK_DEADLOCK FALSE
