CONSTANTS
    p1 = p1
    p2 = p2
    p3 = p3
    Plugins <- MCPlugins
    Loaded <- MCLoaded
    RawFilter <- MCRawFilter
    MaxEmits = 1
    MaxChildren = 2

SPECIFICATION Spec

INVARIANT RoutedOncePerSubscriber
PROPERTY HostRefined
PROPERTY TermStopsRun
PROPERTY ZombiesReaped

\* After Run has returned main() deletes the services; the model ends there.
CHECK_DEADLOCK FALSE
