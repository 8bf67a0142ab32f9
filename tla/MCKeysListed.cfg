SPECIFICATION KeysSpec
INVARIANT KeysAreAsListed
