\* Patches, flatten and the binary formats on documents of depth two.
SPECIFICATION Spec
CONSTANTS
    Documents <- MCDocuments
    Patched <- MCPatched
    Patches <- MCPatches
    Written <- MCWritten
    Sent <- MCSent
    Compared <- MCCompared
    Lost = {0, 1, 2, 5}
CHECK_DEADLOCK FALSE
INVARIANTS PatchOfDiff PointersRestore BinaryFaithful ValuesOrdered
PROPERTIES PatchSteps
