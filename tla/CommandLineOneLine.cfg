\* The one line of Decision JSON that the command line's docstring promises.
SPECIFICATION Spec
INVARIANT ExactlyOneLine
CHECK_DEADLOCK FALSE
