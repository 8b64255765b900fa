CONSTANTS
    e1 = e1
    e2 = e2
    e3 = e3
    e4 = e4
    Events <- MCEventsInvalid
    EvType <- MCEvType
    EvKind <- MCEvKind
    Horizon = 100
    MaxParts = 1
    MaxRouteMsgs = 1

SPECIFICATION Spec

PROPERTY NoDeliveryAfterDestroy

\* Once every event is handled the thread idles in EventPopWait and the
\* kernel is silent: a final state.
CHECK_DEADLOCK FALSE
