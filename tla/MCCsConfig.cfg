CONSTANTS
    p1 = p1
    p2 = p2
    d1 = d1
    d2 = d2
    d3 = d3
    d4 = d4
    Names <- MCNames
    DirEntries <- MCDirEntries
    MainDoc <- MCMainDoc
    DirDoc <- MCDirDoc
    DirKind <- MCDirKind
    MaxSyntaxErrors = 1

SPECIFICATION Spec

INVARIANT SettingsToOwnPlugin

\* Start-up ends with the daemon running or exiting with code 2; what
\* follows is CsMain's.
CHECK_DEADLOCK FALSE
