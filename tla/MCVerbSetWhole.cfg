SPECIFICATION Spec
CONSTANT LastVerb <- MCLast
INVARIANT YieldsWholeSet
