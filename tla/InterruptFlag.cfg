SPECIFICATION Spec
INVARIANT FlagOutlivesSet
