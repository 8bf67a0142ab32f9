SPECIFICATION KeysSpec
INVARIANT ShiftAddedWithMeta
