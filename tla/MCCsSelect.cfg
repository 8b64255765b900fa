CONSTANTS
    f1 = f1
    f2 = f2
    R = R
    W = W
    Fds <- MCFds
    Kinds <- MCKinds

SPECIFICATION Spec

INVARIANT LatchWithinInterest
PROPERTY TableRefined

\* Once ~csSelect has returned nothing but the parent's inbox is left, so
\* the destroyed poller is a final state.
CHECK_DEADLOCK FALSE
