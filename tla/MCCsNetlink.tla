----------------------------- MODULE MCCsNetlink ----------------------------
(* Three client events: a link dump, a route dump and a route watch.  A    *)
(* fourth, an invalid query, is used where the run says so.                *)
EXTENDS CsNetlink

CONSTANTS e1, e2, e3, e4

MCEvents == {e1, e2, e3}

MCEventsInvalid == {e1, e2, e3, e4}

MCEvType == [e \in MCEventsInvalid |-> IF e = e3 THEN "watch" ELSE "query"]

MCEvKind ==
    [e \in MCEventsInvalid |->
        IF e = e2 THEN "GET_ROUTE"
        ELSE IF e = e4 THEN "GET_INVALID" ELSE "GET_LINK"]

MCEvTypeOf(S) == [e \in S |-> MCEvType[e]]

MCEvKindOf(S) == [e \in S |-> MCEvKind[e]]

MCEvTypes == MCEvTypeOf(MCEvents)

MCEvKinds == MCEvKindOf(MCEvents)

=============================================================================
