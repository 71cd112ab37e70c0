SPECIFICATION Spec
INVARIANT DetectedMeansExited
CHECK_DEADLOCK FALSE
