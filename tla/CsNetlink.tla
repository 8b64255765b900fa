------------------------------ MODULE CsNetlink ------------------------------
(***************************************************************************)
(* The kernel-routing service of csnetlink.cpp.                            *)
(*                                                                         *)
(* Clients emit NETLINK events (a Query of some dump kind, or a            *)
(* RouteWatch) into the inbox of the netlink thread.  The thread           *)
(* (csThreadNetlink::Entry) prefers the socket: while recvmsg returns a    *)
(* message it hands each one to SendNetlinkReply; when the socket is empty *)
(* it pops its inbox, and ProcessEvent sends the dump request of a Query   *)
(* with a fresh sequence number and records the event in the in-flight     *)
(* table event_client.  The kernel answers each request in order with      *)
(* NLM_F_MULTI parts and a DONE, or with an ERROR, and multicasts route    *)
(* changes with sequence 0.                                                *)
(*                                                                         *)
(* Each client event is a member of Events whose type and query kind are   *)
(* the constants EvType and EvKind; a message is a record whose field      *)
(* "for" is a ghost naming the query the kernel produced it for.  The      *)
(* ghost recv[e] is the list of replies the caller of e has been sent.     *)
(***************************************************************************)
EXTENDS Integers, Sequences, FiniteSets

CONSTANTS
    Events,        \* the NETLINK events clients emit
    EvType,        \* EvType[e] \in {"query", "watch"}
    EvKind,        \* EvKind[e], the query kind of a query
    Horizon,       \* time(NULL) - 3600 * 24 while the model runs
    MaxParts,      \* the most NLM_F_MULTI parts of one dump
    MaxRouteMsgs   \* the most route changes the kernel multicasts

(* RTM_GETLINK stands for the dump kinds whose parts are not route         *)
(* messages, RTM_GETROUTE for the one whose parts are RTM_NEWROUTE, and    *)
(* GET_INVALID for any other value of the query field.                     *)
Kinds == {"GET_LINK", "GET_ROUTE", "GET_INVALID"}

NoEvent == "kernel"

ASSUME EventsAssumption == IsFiniteSet(Events) /\ NoEvent \notin Events

ASSUME EvAssumption ==
    /\ EvType \in [Events -> {"query", "watch"}]
    /\ EvKind \in [Events -> Kinds]

ASSUME BoundsAssumption ==
    /\ Horizon \in Int
    /\ MaxParts \in Nat
    /\ MaxRouteMsgs \in Nat

MsgTypes == {"NEWLINK", "NEWROUTE", "DELROUTE", "DONE", "ERROR"}

RouteTypes == {"NEWROUTE", "DELROUTE"}

Msg == [type : MsgTypes, seq : Nat, multi : BOOLEAN, for : Events \cup {NoEvent}]

VARIABLES
    evState,   \* "new", "queued" (in the inbox), "table", "done" (erased)
    inbox,     \* the NETLINK events queued for the netlink thread
    quit,      \* a QUIT event is queued for the netlink thread
    thread,    \* "run" or "exited"
    table,     \* event_client, in order
    seqOf,     \* query_seq of each event
    nlSeq,     \* nl_seq
    reqs,      \* dump requests sent and not yet answered by the kernel
    wire,      \* messages the kernel has queued on the socket
    routeMsgs, \* route changes multicast so far
    sentData,  \* ghost: dump parts the kernel produced for each query
    recv,      \* ghost: the replies dispatched to the caller of each event
    destroyed  \* ghost: watches whose client has been destroyed

vars == <<evState, inbox, quit, thread, table, seqOf, nlSeq, reqs, wire,
          routeMsgs, sentData, recv, destroyed>>

TypeOK ==
    /\ evState \in [Events -> {"new", "queued", "table", "done"}]
    /\ inbox \in Seq(Events)
    /\ quit \in BOOLEAN
    /\ thread \in {"run", "exited"}
    /\ table \in Seq(Events)
    /\ seqOf \in [Events -> Nat]
    /\ nlSeq \in Nat
    /\ reqs \in Seq([seq : Nat, for : Events])
    /\ wire \in Seq(Msg)
    /\ routeMsgs \in 0..MaxRouteMsgs
    /\ sentData \in [Events -> Nat]
    /\ recv \in [Events -> Seq(Msg)]
    /\ destroyed \subseteq Events

Init ==
    /\ evState = [e \in Events |-> "new"]
    /\ inbox = << >>
    /\ quit = FALSE
    /\ thread = "run"
    /\ table = << >>
    /\ seqOf = [e \in Events |-> 0]
    /\ nlSeq = 0
    /\ reqs = << >>
    /\ wire = << >>
    /\ routeMsgs = 0
    /\ sentData = [e \in Events |-> 0]
    /\ recv = [e \in Events |-> << >>]
    /\ destroyed = {}

KernelVars == <<reqs, routeMsgs, sentData>>

-----------------------------------------------------------------------------
(* Clients and the kernel.                                                 *)

(* A client emits its NETLINK event to the netlink thread.                 *)
Emit(e) ==
    /\ evState[e] = "new"
    /\ evState' = [evState EXCEPT ![e] = "queued"]
    /\ inbox' = Append(inbox, e)
    /\ UNCHANGED <<quit, thread, table, seqOf, nlSeq, wire, KernelVars, recv,
                   destroyed>>

(* The supervisor broadcasts QUIT.                                         *)
QuitArrives ==
    /\ ~quit
    /\ quit' = TRUE
    /\ UNCHANGED <<evState, inbox, thread, table, seqOf, nlSeq, wire,
                   KernelVars, recv, destroyed>>

(* The client that registered a RouteWatch is destroyed.                   *)
ClientDestroy(e) ==
    /\ EvType[e] = "watch"
    /\ evState[e] = "table"
    /\ e \notin destroyed
    /\ destroyed' = destroyed \cup {e}
    /\ UNCHANGED <<evState, inbox, quit, thread, table, seqOf, nlSeq, wire,
                   KernelVars, recv>>

(* The reply of a dump: n parts with NLM_F_MULTI, then NLMSG_DONE, which   *)
(* the kernel also flags NLM_F_MULTI.                                      *)
DumpReply(r, n) ==
    [k \in 1..n + 1 |->
        [type |-> IF k > n THEN "DONE"
                  ELSE IF EvKind[r.for] = "GET_ROUTE" THEN "NEWROUTE"
                  ELSE "NEWLINK",
         seq |-> r.seq, multi |-> TRUE, for |-> r.for]]

(* The kernel answers the oldest request with a dump or an NLMSG_ERROR.    *)
KernelAnswer ==
    /\ reqs # << >>
    /\ LET r == Head(reqs) IN
       \/ \E n \in 0..MaxParts :
             /\ wire' = wire \o DumpReply(r, n)
             /\ sentData' = [sentData EXCEPT ![r.for] = n]
       \/ /\ wire' = Append(wire, [type |-> "ERROR", seq |-> r.seq,
                                   multi |-> FALSE, for |-> r.for])
          /\ UNCHANGED sentData
    /\ reqs' = Tail(reqs)
    /\ UNCHANGED <<evState, inbox, quit, thread, table, seqOf, nlSeq,
                   routeMsgs, recv, destroyed>>

(* The kernel multicasts a route change to RTMGRP_IPV4/IPV6_ROUTE.         *)
KernelRoute ==
    /\ routeMsgs < MaxRouteMsgs
    /\ \E t \in RouteTypes :
          wire' = Append(wire, [type |-> t, seq |-> 0, multi |-> FALSE,
                                for |-> NoEvent])
    /\ routeMsgs' = routeMsgs + 1
    /\ UNCHANGED <<evState, inbox, quit, thread, table, seqOf, nlSeq, reqs,
                   sentData, recv, destroyed>>

-----------------------------------------------------------------------------
(* The netlink thread.                                                     *)

(* Mutant of NextSeq: the increment is lost.                              *)
NextSeqStuck == IF nlSeq >= Horizon THEN 1 ELSE nlSeq

(* SendNetlinkQuery, line 245: the next sequence number.                   *)
NextSeq == IF nlSeq + 1 >= Horizon THEN 1 ELSE nlSeq + 1

(* SendNetlinkQuery: an invalid kind (and a RouteWatch, which never calls  *)
(* it) leaves the sequence alone; a valid kind takes NextSeq, and          *)
(* sendmsg either queues the request or fails with only a log line.        *)
SendNetlinkQuery(e) ==
    \/ /\ EvType[e] = "watch" \/ EvKind[e] = "GET_INVALID"
       /\ UNCHANGED <<nlSeq, seqOf, reqs>>
    \/ /\ EvType[e] = "query"
       /\ EvKind[e] # "GET_INVALID"
       /\ nlSeq' = NextSeq
       /\ seqOf' = [seqOf EXCEPT ![e] = NextSeq]
       /\ \/ reqs' = Append(reqs, [seq |-> NextSeq, for |-> e])
          \/ reqs' = reqs

(* Entry with the socket empty pops a NETLINK event: ProcessEvent sends    *)
(* the query, swaps source and target and appends the event to the table.  *)
ProcessEvent ==
    /\ thread = "run"
    /\ wire = << >>
    /\ ~quit
    /\ inbox # << >>
    /\ LET e == Head(inbox) IN
       /\ SendNetlinkQuery(e)
       /\ table' = Append(table, e)
       /\ evState' = [evState EXCEPT ![e] = "table"]
    /\ inbox' = Tail(inbox)
    /\ UNCHANGED <<quit, thread, wire, routeMsgs, sentData, recv, destroyed>>

(* Entry with the socket empty pops the QUIT event (high priority) and     *)
(* returns.                                                                *)
PopQuit ==
    /\ thread = "run"
    /\ wire = << >>
    /\ quit
    /\ thread' = "exited"
    /\ UNCHANGED <<evState, inbox, quit, table, seqOf, nlSeq, wire,
                   KernelVars, recv, destroyed>>

(* recvmsg fails with an errno other than EAGAIN: log and return.          *)
RecvFail ==
    /\ thread = "run"
    /\ thread' = "exited"
    /\ UNCHANGED <<evState, inbox, quit, table, seqOf, nlSeq, wire,
                   KernelVars, recv, destroyed>>

(* k is the first index of the table holding a Query with sequence s.      *)
IsMatch(s, k) ==
    /\ EvType[table[k]] = "query"
    /\ seqOf[table[k]] = s
    /\ \A j \in 1..k - 1 : ~(EvType[table[j]] = "query" /\ seqOf[table[j]] = s)

EraseEntry(s, k) == SubSeq(s, 1, k - 1) \o SubSeq(s, k + 1, Len(s))

(* Mutant of Ends: NLMSG_DONE is not among the terminating types.         *)
EndsNoDone(m) == m.type = "ERROR" \/ ~m.multi

(* The reply that ends a query: DONE, ERROR, OVERRUN, or one without       *)
(* NLM_F_MULTI.                                                            *)
Ends(m) == m.type \in {"DONE", "ERROR"} \/ ~m.multi

(* SendNetlinkReply, lines 273-284: a route message is added to every      *)
(* RouteWatch in the table and dispatched to its client, and goes no       *)
(* further.                                                                *)
ReplyRoute(m) ==
    /\ m.type \in RouteTypes
    /\ recv' = [e \in Events |->
                  IF EvType[e] = "watch" /\ evState[e] = "table"
                  THEN Append(recv[e], m) ELSE recv[e]]
    /\ UNCHANGED <<evState, table>>

(* Mutant of ReplyQuery: the switch on the message type runs before       *)
(* AddReply and EventDispatch, so the reply that ends a query erases its   *)
(* entry without reaching the caller.                                      *)
ReplyQueryEraseFirst(m) ==
    /\ m.type \notin RouteTypes
    /\ \E k \in 1..Len(table) :
          /\ IsMatch(m.seq, k)
          /\ IF Ends(m)
             THEN /\ table' = EraseEntry(table, k)
                  /\ evState' = [evState EXCEPT ![table[k]] = "done"]
                  /\ UNCHANGED recv
             ELSE /\ recv' = [recv EXCEPT ![table[k]] = Append(@, m)]
                  /\ UNCHANGED <<table, evState>>

(* Lines 290-312: any other message goes to the first Query with its       *)
(* sequence, which is erased when the message ends it.                     *)
ReplyQuery(m) ==
    /\ m.type \notin RouteTypes
    /\ \E k \in 1..Len(table) :
          /\ IsMatch(m.seq, k)
          /\ recv' = [recv EXCEPT ![table[k]] = Append(@, m)]
          /\ IF Ends(m)
             THEN /\ table' = EraseEntry(table, k)
                  /\ evState' = [evState EXCEPT ![table[k]] = "done"]
             ELSE UNCHANGED <<table, evState>>

(* Line 315: no Query has the message's sequence; it is dropped.           *)
ReplyUnmatched(m) ==
    /\ m.type \notin RouteTypes
    /\ ~\E k \in 1..Len(table) : IsMatch(m.seq, k)
    /\ UNCHANGED <<evState, table, recv>>

(* recvmsg returns a message: ProcessNetlinkMessage hands it to            *)
(* SendNetlinkReply.                                                       *)
Receive ==
    /\ thread = "run"
    /\ wire # << >>
    /\ LET m == Head(wire) IN
       ReplyRoute(m) \/ ReplyQuery(m) \/ ReplyUnmatched(m)
    /\ wire' = Tail(wire)
    /\ UNCHANGED <<inbox, quit, thread, seqOf, nlSeq, KernelVars, destroyed>>

Thread == ProcessEvent \/ PopQuit \/ Receive

Next ==
    \/ Thread \/ RecvFail
    \/ KernelAnswer \/ KernelRoute \/ QuitArrives
    \/ \E e \in Events : Emit(e) \/ ClientDestroy(e)

(* The netlink thread polls its inbox every 500 ms, and the kernel answers *)
(* every request it has been sent.                                         *)
Spec == Init /\ [][Next]_vars /\ WF_vars(Thread) /\ WF_vars(KernelAnswer)

-----------------------------------------------------------------------------
(* Properties.                                                             *)

DataTypes == {"NEWLINK", "NEWROUTE"}

(* The dump parts among the replies s.                                     *)
DataCount(s) == Cardinality({k \in 1..Len(s) : s[k].type \in DataTypes})

(* Replies reach their caller (spec, testable property 5): every reply    *)
(* the thread dispatches to the caller of a Query was produced by the      *)
(* kernel for that Query, although replies are matched by sequence number  *)
(* alone and entries whose request was never answered stay in the table.  *)
QueryRepliesToCaller ==
    \A e \in Events :
        EvType[e] = "query" =>
            \A k \in 1..Len(recv[e]) : recv[e][k].for = e

(* A Query whose request reached the kernel is eventually answered: its    *)
(* entry leaves the table, unless the netlink thread has exited.            *)
QueryAnswered ==
    \A e \in Events :
        (\E k \in 1..Len(reqs) : reqs[k].for = e)
            ~> (evState[e] = "done" \/ thread = "exited")

(* A dump reaches its caller complete (spec, scenario D): when the caller  *)
(* of a Query has received DONE it has received every part the kernel     *)
(* sent before it.                                                         *)
CompleteDump ==
    \A e \in Events :
        (EvType[e] = "query" /\ \E k \in 1..Len(recv[e]) : recv[e][k].type = "DONE")
            => DataCount(recv[e]) = sentData[e]

(* Destroying the client of a RouteWatch stops further deliveries (spec,   *)
(* scenario E): no route message is dispatched to it afterwards.           *)
NoDeliveryAfterDestroy ==
    [][\A e \in destroyed : recv'[e] = recv[e]]_vars



-----------------------------------------------------------------------------
(* Refinement: the service implements the lifecycle of CsNetlinkQuery.     *)

QueryEvents == {e \in Events : EvType[e] = "query"}

(* The caller's view of its replies: type, multi-part flag and the request *)
(* each answers; the sequence number is the service's business.            *)
Observed(s) ==
    [k \in 1..Len(s) |-> [type |-> s[k].type, multi |-> s[k].multi, for |-> s[k].for]]

(* A query is INITIAL until the thread pops it, SENT while it waits in     *)
(* event_client for its first reply, FILLING once a reply has been         *)
(* dispatched to its caller, and DONE once its entry is erased.            *)
QueryState(e) ==
    CASE evState[e] \in {"new", "queued"}         -> "initial"
      [] evState[e] = "table" /\ recv[e] = << >> -> "sent"
      [] evState[e] = "table" /\ recv[e] # << >> -> "filling"
      [] evState[e] = "done"                      -> "done"

Lifecycle == INSTANCE CsNetlinkQuery
    WITH Queries <- QueryEvents,
         ReplyTypes <- MsgTypes,
         qst <- [e \in QueryEvents |-> QueryState(e)],
         got <- [e \in QueryEvents |-> Observed(recv[e])]

(* The service keeps the promise of spec section 4.6 and testable          *)
(* property 5: with sequence numbers, the shared in-flight table, route    *)
(* watches, failed sends and the kernel's interleaved answers, each        *)
(* caller sees its query go INITIAL, SENT, FILLING, DONE, observes only    *)
(* replies to its own request, and nothing after the one that ends it      *)
(* (csThreadNetlink::ProcessEvent and SendNetlinkReply).                   *)
QueryLifecycle == Lifecycle!Spec

=============================================================================
