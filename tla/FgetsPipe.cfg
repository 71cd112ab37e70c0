\* No bounds: the child prints five lines, and Init ranges over both modes, both kinds of
\* stdout and everything the uninitialised variables may hold.
SPECIFICATION Spec
INVARIANT OutputOfWholeRun
PROPERTIES BlockingEnds FirstLineEnds ImplementsLineStream
CHECK_DEADLOCK FALSE
