--------------------------- MODULE CsNetlinkQuery ---------------------------
(***************************************************************************)
(* What the kernel-routing service promises a client about one Query,     *)
(* independent of sockets, sequence numbers and the in-flight table: the   *)
(* state diagram of an in-flight Query and testable property 5.            *)
(*                                                                         *)
(*   INITIAL -> SENT       the service takes the query and records it      *)
(*   SENT    -> FILLING    a reply with the multi-part flag                 *)
(*   FILLING -> FILLING    each intermediate reply                          *)
(*   FILLING -> DONE       a DONE, ERROR or OVERRUN reply                   *)
(*   SENT    -> DONE       a reply that ends the query at once              *)
(*                                                                         *)
(* Every reply a caller observes is one produced for its own request       *)
(* ("for" is the request a reply answers), and after DONE it observes no   *)
(* more.  A query may stay SENT for ever: nothing here promises an answer. *)
(***************************************************************************)
EXTENDS Sequences

CONSTANTS
    Queries,      \* the Query events clients emit
    ReplyTypes    \* the message types a reply may have

VARIABLES
    qst,          \* the state of each query in the diagram above
    got           \* the replies each query's caller has observed, in order

avars == <<qst, got>>

(* A reply that finishes its query: DONE, ERROR, OVERRUN, or any reply     *)
(* without the multi-part flag.                                            *)
Terminal(m) == m.type \in {"DONE", "ERROR", "OVERRUN"} \/ ~m.multi

Init ==
    /\ qst = [q \in Queries |-> "initial"]
    /\ got = [q \in Queries |-> << >>]

(* The service takes the query from its inbox.                             *)
Send(q) ==
    /\ qst[q] = "initial"
    /\ qst' = [qst EXCEPT ![q] = "sent"]
    /\ UNCHANGED got

(* The caller observes a reply to its own request.                         *)
Reply(q) ==
    /\ qst[q] \in {"sent", "filling"}
    /\ \E t \in ReplyTypes, multi \in BOOLEAN :
          LET m == [type |-> t, multi |-> multi, for |-> q] IN
          /\ got' = [got EXCEPT ![q] = Append(@, m)]
          /\ qst' = [qst EXCEPT ![q] = IF Terminal(m) THEN "done" ELSE "filling"]

Next == \E q \in Queries : Send(q) \/ Reply(q)

Spec == Init /\ [][Next]_avars

=============================================================================
