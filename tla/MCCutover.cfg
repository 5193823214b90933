SPECIFICATION CutoverSpec
CONSTANT MaxMishaps = 3
INVARIANT OneStackServes
INVARIANT BoundarySound
INVARIANT RecordsTrue
PROPERTY HandoverRefined
 
CHECK_DEADLOCK FALSE
