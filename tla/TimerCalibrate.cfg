CONSTANT Limits = {1024, 1300, 1600, 2047, 2048, 3000, 5000}
SPECIFICATION Spec
INVARIANT FitsInTick
CHECK_DEADLOCK FALSE
