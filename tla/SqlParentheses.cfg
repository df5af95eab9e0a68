CONSTANTS
    Alphabets = {{"semicolon", "(", ")", "space"}}
    MaxLen = 6
SPECIFICATION Spec
CHECK_DEADLOCK FALSE
INVARIANT PreservesParentheses
