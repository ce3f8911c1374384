SPECIFICATION Spec
CONSTANTS MaxLife <- Lives
INVARIANT HostSafe
PROPERTIES RadioEnds PowerKept
