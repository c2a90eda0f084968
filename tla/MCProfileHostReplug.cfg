SPECIFICATION Spec
CONSTANT Capacity <- MCCapacity
INVARIANT PreviousModeRestored
