-------------------------- MODULE CsNetlinkProofs --------------------------
(***************************************************************************)
(* Proofs about the kernel-routing service: its state keeps its types;    *)
(* while the clock is sane, every reply the netlink thread dispatches to  *)
(* the caller of a Query was produced for that Query, and the service     *)
(* implements the abstract Query lifecycle of CsNetlinkQuery.             *)
(***************************************************************************)
EXTENDS CsNetlink, FiniteSetTheorems, SequenceTheorems, TLAPS

Req == [seq : Nat, for : Events]

LEMMA DumpReplyType ==
    ASSUME NEW r \in Req, NEW n \in Nat
    PROVE  DumpReply(r, n) \in Seq(Msg)
<1>1. \A k \in 1..n + 1 : DumpReply(r, n)[k] \in Msg
  <2> TAKE k \in 1..n + 1
  <2>1. r.seq \in Nat /\ r.for \in Events
    BY DEF Req
  <2>2. (IF k > n THEN "DONE"
         ELSE IF EvKind[r.for] = "GET_ROUTE" THEN "NEWROUTE" ELSE "NEWLINK")
        \in MsgTypes
    BY DEF MsgTypes
  <2>3. QED BY <2>1, <2>2 DEF DumpReply, Msg
<1>2. DumpReply(r, n) \in [1..n + 1 -> Msg]
  BY <1>1 DEF DumpReply
<1>3. QED BY <1>2

LEMMA EraseEntryType ==
    ASSUME NEW S, NEW s \in Seq(S), NEW k \in 1..Len(s)
    PROVE  EraseEntry(s, k) \in Seq(S)
BY DEF EraseEntry

LEMMA InitTypeOK == Init => TypeOK
<1> SUFFICES ASSUME Init PROVE TypeOK
  OBVIOUS
<1>1. evState \in [Events -> {"new", "queued", "table", "done"}]
  BY DEF Init
<1>2. inbox \in Seq(Events) /\ table \in Seq(Events)
  BY DEF Init
<1>3. reqs \in Seq([seq : Nat, for : Events]) /\ wire \in Seq(Msg)
  BY DEF Init
<1>4. recv \in [Events -> Seq(Msg)]
  BY DEF Init
<1>5. routeMsgs \in 0..MaxRouteMsgs
  BY BoundsAssumption DEF Init
<1>6. QED BY <1>1, <1>2, <1>3, <1>4, <1>5 DEF Init, TypeOK

LEMMA NextTypeOK == TypeOK /\ [Next]_vars => TypeOK'
<1> SUFFICES ASSUME TypeOK, [Next]_vars PROVE TypeOK'
  OBVIOUS
<1>1. ASSUME NEW e \in Events, Emit(e) PROVE TypeOK'
  BY <1>1 DEF Emit, TypeOK, KernelVars
<1>2. CASE QuitArrives
  BY <1>2 DEF QuitArrives, TypeOK, KernelVars
<1>3. ASSUME NEW e \in Events, ClientDestroy(e) PROVE TypeOK'
  BY <1>3 DEF ClientDestroy, TypeOK, KernelVars
<1>4. CASE KernelAnswer
  <2> DEFINE r == Head(reqs)
  <2>0. reqs # << >> BY <1>4 DEF KernelAnswer
  <2>1. r \in Req
    BY <2>0, HeadTailProperties DEF TypeOK, Req
  <2>2. wire' \in Seq(Msg) /\ sentData' \in [Events -> Nat]
    <3>1. CASE \E n \in 0..MaxParts :
                 /\ wire' = wire \o DumpReply(r, n)
                 /\ sentData' = [sentData EXCEPT ![r.for] = n]
      <4> PICK n \in 0..MaxParts :
                 /\ wire' = wire \o DumpReply(r, n)
                 /\ sentData' = [sentData EXCEPT ![r.for] = n]
        BY <3>1, Zenon
      <4>1. DumpReply(r, n) \in Seq(Msg)
        BY <2>1, DumpReplyType, BoundsAssumption
      <4>2. wire \o DumpReply(r, n) \in Seq(Msg)
        BY <4>1, ConcatProperties DEF TypeOK
      <4>3. r.for \in Events /\ n \in Nat BY <2>1 DEF Req
      <4>4. [sentData EXCEPT ![r.for] = n] \in [Events -> Nat] BY <4>3 DEF TypeOK
      <4>5. QED BY <4>2, <4>4
    <3>2. CASE /\ wire' = Append(wire, [type |-> "ERROR", seq |-> r.seq,
                                        multi |-> FALSE, for |-> r.for])
               /\ UNCHANGED sentData
      BY <3>2, <2>1 DEF TypeOK, Req, Msg, MsgTypes
    <3>3. QED BY <1>4, <3>1, <3>2, Zenon DEF KernelAnswer
  <2>3. reqs' \in Seq([seq : Nat, for : Events])
    BY <1>4, <2>0 DEF KernelAnswer, TypeOK
  <2>4. UNCHANGED <<evState, inbox, quit, thread, table, seqOf, nlSeq,
                    routeMsgs, recv, destroyed>>
    BY <1>4 DEF KernelAnswer
  <2>5. QED BY <2>2, <2>3, <2>4 DEF TypeOK
<1>5. CASE KernelRoute
  <2>1. PICK t \in RouteTypes :
            wire' = Append(wire, [type |-> t, seq |-> 0, multi |-> FALSE,
                                  for |-> NoEvent])
    BY <1>5, Zenon DEF KernelRoute
  <2>2. wire' \in Seq(Msg) BY <2>1 DEF TypeOK, Msg, MsgTypes, RouteTypes
  <2>3. routeMsgs' \in 0..MaxRouteMsgs
    BY <1>5, BoundsAssumption DEF KernelRoute, TypeOK
  <2>4. UNCHANGED <<evState, inbox, quit, thread, table, seqOf, nlSeq, reqs,
                    sentData, recv, destroyed>>
    BY <1>5 DEF KernelRoute
  <2>5. QED BY <2>2, <2>3, <2>4 DEF TypeOK
<1>6. CASE ProcessEvent
  <2> DEFINE e == Head(inbox)
  <2>0. inbox # << >> BY <1>6 DEF ProcessEvent
  <2>1. e \in Events BY <2>0 DEF TypeOK
  <2>2. NextSeq \in Nat BY BoundsAssumption DEF NextSeq, TypeOK
  <2>3. SendNetlinkQuery(e) BY <1>6 DEF ProcessEvent
  <2>4. nlSeq' \in Nat /\ seqOf' \in [Events -> Nat]
        /\ reqs' \in Seq([seq : Nat, for : Events])
    <3>1. CASE UNCHANGED <<nlSeq, seqOf, reqs>>
      BY <3>1 DEF TypeOK
    <3>2. CASE /\ nlSeq' = NextSeq
               /\ seqOf' = [seqOf EXCEPT ![e] = NextSeq]
               /\ \/ reqs' = Append(reqs, [seq |-> NextSeq, for |-> e])
                  \/ reqs' = reqs
      <4>1. [seq |-> NextSeq, for |-> e] \in [seq : Nat, for : Events]
        BY <2>1, <2>2
      <4>2. nlSeq' \in Nat BY <3>2, <2>2
      <4>3. seqOf' \in [Events -> Nat] BY <3>2, <2>1, <2>2 DEF TypeOK
      <4>4. reqs' \in Seq([seq : Nat, for : Events])
        <5>1. Append(reqs, [seq |-> NextSeq, for |-> e])
                \in Seq([seq : Nat, for : Events])
          BY <4>1, AppendProperties DEF TypeOK
        <5>2. QED BY <3>2, <5>1 DEF TypeOK
      <4>5. QED BY <4>2, <4>3, <4>4
    <3>3. QED BY <2>3, <3>1, <3>2, Zenon DEF SendNetlinkQuery
  <2>5. table' \in Seq(Events) /\ inbox' \in Seq(Events)
        /\ evState' \in [Events -> {"new", "queued", "table", "done"}]
    BY <1>6, <2>0, <2>1 DEF ProcessEvent, TypeOK
  <2>6. UNCHANGED <<quit, thread, wire, routeMsgs, sentData, recv, destroyed>>
    BY <1>6 DEF ProcessEvent
  <2>7. QED BY <2>4, <2>5, <2>6 DEF TypeOK
<1>7. CASE PopQuit \/ RecvFail
  BY <1>7 DEF PopQuit, RecvFail, TypeOK, KernelVars
<1>8. CASE Receive
  <2> DEFINE m == Head(wire)
  <2>1. m \in Msg BY <1>8 DEF Receive, TypeOK
  <2>2. wire' \in Seq(Msg) BY <1>8 DEF Receive, TypeOK
  <2>3. evState' \in [Events -> {"new", "queued", "table", "done"}]
        /\ table' \in Seq(Events) /\ recv' \in [Events -> Seq(Msg)]
    <3>1. CASE ReplyRoute(m)
      BY <3>1, <2>1 DEF ReplyRoute, TypeOK
    <3>2. CASE ReplyQuery(m)
      <4> PICK k \in 1..Len(table) :
                 /\ IsMatch(m.seq, k)
                 /\ recv' = [recv EXCEPT ![table[k]] = Append(@, m)]
                 /\ IF Ends(m)
                    THEN /\ table' = EraseEntry(table, k)
                         /\ evState' = [evState EXCEPT ![table[k]] = "done"]
                    ELSE UNCHANGED <<table, evState>>
        BY <3>2 DEF ReplyQuery
      <4>1. table[k] \in Events BY DEF TypeOK
      <4>2. EraseEntry(table, k) \in Seq(Events)
        BY EraseEntryType DEF TypeOK
      <4>3. recv' \in [Events -> Seq(Msg)]
        <5>1. recv[table[k]] \in Seq(Msg) BY <4>1 DEF TypeOK
        <5>2. Append(recv[table[k]], m) \in Seq(Msg) BY <5>1, <2>1
        <5>3. QED BY <4>1, <5>2 DEF TypeOK
      <4>4. QED BY <4>1, <4>2, <4>3 DEF TypeOK
    <3>3. CASE ReplyUnmatched(m)
      BY <3>3 DEF ReplyUnmatched, TypeOK
    <3>4. QED BY <1>8, <3>1, <3>2, <3>3 DEF Receive
  <2>4. QED BY <1>8, <2>2, <2>3 DEF Receive, TypeOK, KernelVars
<1>9. CASE UNCHANGED vars
  BY <1>9 DEF vars, TypeOK
<1>10. QED
  BY <1>1, <1>2, <1>3, <1>4, <1>5, <1>6, <1>7, <1>8, <1>9 DEF Next, Thread

-----------------------------------------------------------------------------
(* Replies reach their caller.  Replies are matched by sequence number     *)
(* alone, so the argument is that sequence numbers identify queries: a     *)
(* query gets its number once, from ProcessEvent, and while the clock is   *)
(* sane NextSeq never resets, so the numbers handed out are distinct; the  *)
(* kernel copies a request's number into every reply; so the first table  *)
(* entry a reply matches is the query the reply was produced for.          *)

(* time(NULL) - 86400 is above every sequence number the service can      *)
(* reach: one per event.                                                   *)
SaneClock == Horizon > Cardinality(Events)

Valid(e) == EvType[e] = "query" /\ EvKind[e] # "GET_INVALID"

Sent == {e \in Events : seqOf[e] # 0}

(* The inbox holds queued events, each once.                               *)
InboxQueued ==
    /\ \A k \in 1..Len(inbox) : evState[inbox[k]] = "queued"
    /\ \A i, j \in 1..Len(inbox) : inbox[i] = inbox[j] => i = j

(* A number is given only to a valid query that has been processed, and is *)
(* at most nl_seq.                                                         *)
SeqIssued ==
    \A e \in Events :
        seqOf[e] # 0 => Valid(e) /\ evState[e] \in {"table", "done"}
                        /\ seqOf[e] <= nlSeq

(* No two queries share a number.                                          *)
SeqUnique ==
    \A e1, e2 \in Events : seqOf[e1] = seqOf[e2] /\ seqOf[e1] # 0 => e1 = e2

(* nl_seq has counted at most one number per numbered query.               *)
SeqCounted == nlSeq <= Cardinality(Sent)

(* Requests and the replies to them carry their query's number.            *)
ReqsTagged ==
    \A k \in 1..Len(reqs) : reqs[k].seq = seqOf[reqs[k].for] /\ reqs[k].seq # 0

WireTagged ==
    \A k \in 1..Len(wire) :
        wire[k].type \notin RouteTypes =>
            /\ wire[k].for \in Events
            /\ wire[k].seq = seqOf[wire[k].for]
            /\ wire[k].seq # 0

IInv == /\ TypeOK /\ InboxQueued /\ SeqIssued /\ SeqUnique /\ SeqCounted
        /\ ReqsTagged /\ WireTagged /\ QueryRepliesToCaller

LEMMA InitIInv == Init => IInv
<1> SUFFICES ASSUME Init PROVE IInv
  OBVIOUS
<1>1. TypeOK BY InitTypeOK
<1>2. Sent = {} BY DEF Init, Sent
<1>3. SeqCounted BY <1>2, FS_EmptySet DEF Init, SeqCounted
<1>4. QED
  BY <1>1, <1>3 DEF Init, IInv, InboxQueued, SeqIssued, SeqUnique, ReqsTagged,
                    WireTagged, QueryRepliesToCaller

(* The conjuncts of IInv other than TypeOK depend only on these variables. *)
LEMMA FrameIInv ==
    ASSUME InboxQueued, SeqIssued, SeqUnique, SeqCounted, ReqsTagged,
           WireTagged, QueryRepliesToCaller,
           UNCHANGED <<evState, inbox, seqOf, nlSeq, reqs, wire, recv>>
    PROVE  /\ InboxQueued' /\ SeqIssued' /\ SeqUnique' /\ SeqCounted'
           /\ ReqsTagged' /\ WireTagged' /\ QueryRepliesToCaller'
<1>1. InboxQueued' BY DEF InboxQueued
<1>2. SeqIssued' BY DEF SeqIssued, Valid
<1>3. SeqUnique' BY DEF SeqUnique
<1>4. Sent' = Sent BY DEF Sent
<1>5. SeqCounted' BY <1>4 DEF SeqCounted
<1>6. ReqsTagged' /\ WireTagged' BY DEF ReqsTagged, WireTagged
<1>7. QueryRepliesToCaller' BY DEF QueryRepliesToCaller
<1>8. QED BY <1>1, <1>2, <1>3, <1>5, <1>6, <1>7

(* Messages that carry their query's number keep WireTagged when they are *)
(* queued after the others.                                                *)
LEMMA WireExtend ==
    ASSUME TypeOK, WireTagged, NEW x \in Seq(Msg),
           \A k \in 1..Len(x) :
               x[k].type \notin RouteTypes =>
                   /\ x[k].for \in Events
                   /\ x[k].seq = seqOf[x[k].for]
                   /\ x[k].seq # 0,
           wire' = wire \o x, seqOf' = seqOf
    PROVE  WireTagged'
<1>1. /\ Len(wire') = Len(wire) + Len(x)
      /\ \A i \in 1..Len(wire) + Len(x) :
            wire'[i] = IF i <= Len(wire) THEN wire[i] ELSE x[i - Len(wire)]
  BY ConcatProperties DEF TypeOK
<1>2. SUFFICES ASSUME NEW k \in 1..Len(wire'), wire'[k].type \notin RouteTypes
               PROVE  /\ wire'[k].for \in Events
                      /\ wire'[k].seq = seqOf'[wire'[k].for]
                      /\ wire'[k].seq # 0
  BY DEF WireTagged
<1>3. CASE k <= Len(wire)
  <2>1. wire'[k] = wire[k] /\ k \in 1..Len(wire) BY <1>1, <1>3 DEF TypeOK
  <2>2. QED BY <2>1, <1>2 DEF WireTagged
<1>4. CASE ~(k <= Len(wire))
  <2>1. wire'[k] = x[k - Len(wire)] /\ k - Len(wire) \in 1..Len(x)
    BY <1>1, <1>4 DEF TypeOK
  <2>2. QED BY <2>1, <1>2
<1>5. QED BY <1>3, <1>4

(* Removing the head keeps WireTagged.                                     *)
LEMMA WireTail ==
    ASSUME TypeOK, WireTagged, wire # << >>, wire' = Tail(wire), seqOf' = seqOf
    PROVE  WireTagged'
<1>1. /\ Len(wire') = Len(wire) - 1
      /\ \A i \in 1..Len(wire') : wire'[i] = wire[i + 1]
  BY HeadTailProperties DEF TypeOK
<1>2. QED BY <1>1 DEF WireTagged, TypeOK

LEMMA NextIInv == SaneClock /\ IInv /\ [Next]_vars => IInv'
<1> SUFFICES ASSUME SaneClock, IInv, [Next]_vars PROVE IInv'
  OBVIOUS
<1> USE DEF IInv
<1>0. TypeOK' BY NextTypeOK
<1>1. ASSUME NEW e \in Events, Emit(e) PROVE IInv'
  <2>1. \A k \in 1..Len(inbox) : inbox[k] # e
    BY <1>1 DEF Emit, InboxQueued, TypeOK
  <2>2. InboxQueued'
    <3>1. /\ inbox' \in Seq(Events)
          /\ Len(inbox') = Len(inbox) + 1
          /\ \A k \in 1..Len(inbox) : inbox'[k] = inbox[k]
          /\ inbox'[Len(inbox) + 1] = e
      BY <1>1, AppendProperties DEF Emit, TypeOK
    <3>2. evState' = [evState EXCEPT ![e] = "queued"] BY <1>1 DEF Emit
    <3>3. \A k \in 1..Len(inbox') : evState'[inbox'[k]] = "queued"
      <4> TAKE k \in 1..Len(inbox')
      <4>1. CASE k \in 1..Len(inbox)
        <5>1. inbox'[k] = inbox[k] BY <4>1, <3>1
        <5>2. inbox[k] # e BY <4>1, <2>1
        <5>3. inbox[k] \in Events BY <4>1 DEF TypeOK
        <5>4. evState[inbox[k]] = "queued" BY <4>1 DEF InboxQueued
        <5>5. QED BY <5>1, <5>2, <5>3, <5>4, <3>2
      <4>2. CASE k = Len(inbox) + 1
        BY <4>2, <3>1, <3>2 DEF TypeOK
      <4>3. QED BY <4>1, <4>2, <3>1 DEF TypeOK
    <3>4. \A i, j \in 1..Len(inbox') : inbox'[i] = inbox'[j] => i = j
      <4> TAKE i, j \in 1..Len(inbox')
      <4> HAVE inbox'[i] = inbox'[j]
      <4>1. CASE i \in 1..Len(inbox) /\ j \in 1..Len(inbox)
        BY <4>1, <3>1 DEF InboxQueued
      <4>2. CASE i \in 1..Len(inbox) /\ j = Len(inbox) + 1
        BY <4>2, <3>1, <2>1
      <4>3. CASE i = Len(inbox) + 1 /\ j \in 1..Len(inbox)
        BY <4>3, <3>1, <2>1
      <4>4. CASE i = Len(inbox) + 1 /\ j = Len(inbox) + 1
        BY <4>4
      <4>0. i \in 1..Len(inbox) + 1 /\ j \in 1..Len(inbox) + 1 BY <3>1
      <4>5. QED BY <4>0, <4>1, <4>2, <4>3, <4>4, SMTT(60)
    <3>5. QED BY <3>3, <3>4 DEF InboxQueued
  <2>3. seqOf[e] = 0 BY <1>1 DEF Emit, SeqIssued
  <2>4. SeqIssued' BY <1>1, <2>3 DEF Emit, SeqIssued, Valid
  <2>5. QED
    BY <1>0, <1>1, <2>2, <2>4
    DEF Emit, KernelVars, SeqUnique, SeqCounted, Sent, ReqsTagged, WireTagged,
        QueryRepliesToCaller
<1>2. CASE QuitArrives \/ PopQuit \/ RecvFail
  <2>1. UNCHANGED <<evState, inbox, seqOf, nlSeq, reqs, wire, recv>>
    BY <1>2 DEF QuitArrives, PopQuit, RecvFail, KernelVars
  <2>2. QED BY <1>0, <2>1, FrameIInv
<1>3. ASSUME NEW e \in Events, ClientDestroy(e) PROVE IInv'
  <2>1. UNCHANGED <<evState, inbox, seqOf, nlSeq, reqs, wire, recv>>
    BY <1>3 DEF ClientDestroy, KernelVars
  <2>2. QED BY <1>0, <2>1, FrameIInv
<1>4. CASE KernelRoute
  <2>1. PICK t \in RouteTypes :
            wire' = Append(wire, [type |-> t, seq |-> 0, multi |-> FALSE,
                                  for |-> NoEvent])
    BY <1>4, Zenon DEF KernelRoute
  <2>2. WireTagged'
    <3>1. /\ Len(wire') = Len(wire) + 1
          /\ \A k \in 1..Len(wire) : wire'[k] = wire[k]
          /\ wire'[Len(wire) + 1].type \in RouteTypes
      <4>1. [type |-> t, seq |-> 0, multi |-> FALSE, for |-> NoEvent] \in Msg
        BY DEF Msg, MsgTypes, RouteTypes
      <4>2. QED BY <2>1, <4>1, AppendProperties DEF TypeOK
    <3>2. UNCHANGED seqOf BY <1>4 DEF KernelRoute
    <3>3. SUFFICES ASSUME NEW k \in 1..Len(wire'), wire'[k].type \notin RouteTypes
                   PROVE  /\ wire'[k].for \in Events
                          /\ wire'[k].seq = seqOf'[wire'[k].for]
                          /\ wire'[k].seq # 0
      BY DEF WireTagged
    <3>4. k \in 1..Len(wire) BY <3>1, <3>3 DEF TypeOK
    <3>5. QED BY <3>1, <3>2, <3>3, <3>4 DEF WireTagged
  <2>3. UNCHANGED <<evState, inbox, seqOf, nlSeq, reqs, recv>>
    BY <1>4 DEF KernelRoute
  <2>4. Sent' = Sent BY <2>3 DEF Sent
  <2>5. QED
    BY <1>0, <2>2, <2>3, <2>4
    DEF InboxQueued, SeqIssued, Valid, SeqUnique, SeqCounted, ReqsTagged,
        QueryRepliesToCaller
<1>5. CASE KernelAnswer
  <2> DEFINE r == Head(reqs)
  <2>1. reqs # << >> BY <1>5 DEF KernelAnswer
  <2>2. r \in Req /\ r.seq = seqOf[r.for] /\ r.seq # 0
    <3>1. r \in Req BY <2>1, HeadTailProperties DEF TypeOK, Req
    <3>2. r = reqs[1] /\ 1 \in 1..Len(reqs) BY <2>1 DEF TypeOK
    <3>3. QED BY <3>1, <3>2 DEF ReqsTagged
  <2>3. UNCHANGED <<evState, inbox, seqOf, nlSeq, recv>>
    BY <1>5 DEF KernelAnswer
  <2>4. ReqsTagged'
    <3>1. reqs' = Tail(reqs) BY <1>5 DEF KernelAnswer
    <3>2. /\ Len(reqs') = Len(reqs) - 1
          /\ \A i \in 1..Len(reqs') : reqs'[i] = reqs[i + 1]
      BY <2>1, <3>1, HeadTailProperties DEF TypeOK
    <3>3. SUFFICES ASSUME NEW i \in 1..Len(reqs')
                   PROVE  reqs'[i].seq = seqOf'[reqs'[i].for] /\ reqs'[i].seq # 0
      BY DEF ReqsTagged
    <3>4. i + 1 \in 1..Len(reqs) BY <3>2 DEF TypeOK
    <3>5. QED BY <2>3, <3>2, <3>4 DEF ReqsTagged
  <2>5. r.for \in Events BY <2>2 DEF Req
  <2>6. WireTagged'
    <3>1. CASE \E n \in 0..MaxParts :
                 /\ wire' = wire \o DumpReply(r, n)
                 /\ sentData' = [sentData EXCEPT ![r.for] = n]
      <4> PICK n \in 0..MaxParts :
                 /\ wire' = wire \o DumpReply(r, n)
                 /\ sentData' = [sentData EXCEPT ![r.for] = n]
        BY <3>1, Zenon
      <4>1. DumpReply(r, n) \in Seq(Msg)
        BY <2>2, DumpReplyType, BoundsAssumption
      <4>2. \A k \in 1..Len(DumpReply(r, n)) :
               DumpReply(r, n)[k].for = r.for /\ DumpReply(r, n)[k].seq = r.seq
        BY BoundsAssumption DEF DumpReply
      <4>3. QED BY <2>2, <2>3, <2>5, <4>1, <4>2, WireExtend
    <3>2. CASE /\ wire' = Append(wire, [type |-> "ERROR", seq |-> r.seq,
                                        multi |-> FALSE, for |-> r.for])
               /\ UNCHANGED sentData
      <4> DEFINE em == [type |-> "ERROR", seq |-> r.seq,
                        multi |-> FALSE, for |-> r.for]
      <4> DEFINE x == << em >>
      <4>0. em \in Msg BY <2>2, <2>5 DEF Req, Msg, MsgTypes
      <4>1. x \in Seq(Msg) BY <4>0
      <4>2. wire' = wire \o x BY <3>2, <4>0, AppendIsConcat DEF TypeOK
      <4>3. \A k \in 1..Len(x) :
               /\ x[k].for \in Events
               /\ x[k].seq = seqOf[x[k].for]
               /\ x[k].seq # 0
        BY <2>2, <2>5
      <4>4. seqOf' = seqOf BY <2>3
      <4>5. QED BY <4>1, <4>2, <4>3, <4>4, WireExtend
    <3>3. QED BY <1>5, <3>1, <3>2, Zenon DEF KernelAnswer
  <2>7. Sent' = Sent BY <2>3 DEF Sent
  <2>8. QED
    BY <1>0, <2>3, <2>4, <2>6, <2>7
    DEF InboxQueued, SeqIssued, Valid, SeqUnique, SeqCounted,
        QueryRepliesToCaller
<1>6. CASE ProcessEvent
  <2> DEFINE e == Head(inbox)
  <2>1. /\ inbox # << >>
        /\ e \in Events
        /\ e = inbox[1] /\ 1 \in 1..Len(inbox)
    BY <1>6, HeadTailProperties DEF ProcessEvent, TypeOK
  <2>2. evState[e] = "queued" BY <2>1 DEF InboxQueued
  <2>3. seqOf[e] = 0 BY <2>1, <2>2 DEF SeqIssued
  <2>4. /\ SendNetlinkQuery(e)
        /\ table' = Append(table, e)
        /\ evState' = [evState EXCEPT ![e] = "table"]
        /\ inbox' = Tail(inbox)
        /\ UNCHANGED <<wire, recv>>
    BY <1>6 DEF ProcessEvent
  <2>5. InboxQueued'
    <3>1. /\ inbox' \in Seq(Events)
          /\ Len(inbox') = Len(inbox) - 1
          /\ \A i \in 1..Len(inbox') : inbox'[i] = inbox[i + 1]
      BY <2>1, <2>4, HeadTailProperties DEF TypeOK
    <3>2. \A i \in 1..Len(inbox') : inbox[i + 1] # e /\ inbox[i + 1] \in Events
      <4> TAKE i \in 1..Len(inbox')
      <4>1. i + 1 \in 1..Len(inbox) /\ i + 1 # 1 BY <3>1 DEF TypeOK
      <4>2. inbox[i + 1] # inbox[1] BY <2>1, <4>1 DEF InboxQueued
      <4>3. QED BY <2>1, <4>1, <4>2 DEF TypeOK
    <3>3. \A i \in 1..Len(inbox') : evState'[inbox'[i]] = "queued"
      BY <2>4, <3>1, <3>2 DEF InboxQueued, TypeOK
    <3>4. \A i, j \in 1..Len(inbox') : inbox'[i] = inbox'[j] => i = j
      <4> TAKE i, j \in 1..Len(inbox')
      <4>1. i + 1 \in 1..Len(inbox) /\ j + 1 \in 1..Len(inbox) BY <3>1 DEF TypeOK
      <4>2. inbox'[i] = inbox[i + 1] /\ inbox'[j] = inbox[j + 1] BY <3>1
      <4>3. inbox[i + 1] = inbox[j + 1] => i + 1 = j + 1 BY <4>1 DEF InboxQueued
      <4>4. QED BY <4>2, <4>3
    <3>5. QED BY <3>3, <3>4 DEF InboxQueued
  <2>6. QueryRepliesToCaller' BY <2>4 DEF QueryRepliesToCaller
  <2>7. \A k \in 1..Len(reqs) : reqs[k].for # e
    BY <2>3 DEF ReqsTagged, TypeOK
  <2>8. \A k \in 1..Len(wire) :
            wire[k].type \notin RouteTypes => wire[k].for # e
    BY <2>3 DEF WireTagged
  <2>9. CASE UNCHANGED <<nlSeq, seqOf, reqs>>
    <3>1. SeqIssued' BY <2>3, <2>4, <2>9 DEF SeqIssued, Valid
    <3>2. Sent' = Sent BY <2>9 DEF Sent
    <3>3. QED
      BY <1>0, <2>4, <2>5, <2>6, <2>9, <3>1, <3>2
      DEF SeqUnique, SeqCounted, ReqsTagged, WireTagged
  <2>10. CASE /\ EvType[e] = "query"
              /\ EvKind[e] # "GET_INVALID"
              /\ nlSeq' = NextSeq
              /\ seqOf' = [seqOf EXCEPT ![e] = NextSeq]
              /\ \/ reqs' = Append(reqs, [seq |-> NextSeq, for |-> e])
                 \/ reqs' = reqs
    <3>1. NextSeq = nlSeq + 1
      <4>1. IsFiniteSet(Events) BY EventsAssumption
      <4>2. Sent \subseteq Events \ {e} BY <2>3 DEF Sent
      <4>3. IsFiniteSet(Events \ {e})
            /\ Cardinality(Events \ {e}) = Cardinality(Events) - 1
        BY <2>1, <4>1, FS_RemoveElement
      <4>4. Cardinality(Sent) <= Cardinality(Events \ {e})
        BY <4>2, <4>3, FS_Subset
      <4>5. Cardinality(Sent) \in Nat BY <4>2, <4>3, FS_Subset, FS_CardinalityType
      <4>6. Cardinality(Events) \in Nat BY <4>1, FS_CardinalityType
      <4>7. nlSeq + 1 < Horizon
        BY <4>3, <4>4, <4>5, <4>6, BoundsAssumption DEF SeqCounted, SaneClock, TypeOK
      <4>8. QED BY <4>7, BoundsAssumption DEF NextSeq, TypeOK
    <3>0. /\ nlSeq' = nlSeq + 1
          /\ seqOf'[e] = nlSeq + 1
          /\ \A x \in Events \ {e} : seqOf'[x] = seqOf[x]
      BY <2>1, <2>10, <3>1 DEF TypeOK
    <3>2. SeqIssued'
      <4> SUFFICES ASSUME NEW x \in Events, seqOf'[x] # 0
                   PROVE  Valid(x) /\ evState'[x] \in {"table", "done"}
                          /\ seqOf'[x] <= nlSeq'
        BY DEF SeqIssued
      <4>1. CASE x = e
        BY <4>1, <2>4, <2>10, <3>0, <2>1 DEF Valid, TypeOK
      <4>2. CASE x # e
        <5>1. seqOf[x] # 0 /\ seqOf'[x] = seqOf[x] BY <4>2, <3>0
        <5>2. Valid(x) /\ evState[x] \in {"table", "done"} /\ seqOf[x] <= nlSeq
          BY <5>1 DEF SeqIssued
        <5>3. evState'[x] = evState[x] BY <4>2, <2>4 DEF TypeOK
        <5>4. QED BY <5>1, <5>2, <5>3, <3>0 DEF TypeOK
      <4>3. QED BY <4>1, <4>2
    <3>3. SeqUnique'
      <4> SUFFICES ASSUME NEW x \in Events, NEW y \in Events,
                          seqOf'[x] = seqOf'[y], seqOf'[x] # 0
                   PROVE  x = y
        BY DEF SeqUnique
      <4>1. \A z \in Events \ {e} : seqOf[z] <= nlSeq BY DEF SeqIssued, TypeOK
      <4>2. CASE x # e /\ y # e BY <4>2, <3>0 DEF SeqUnique
      <4>3. CASE x = e /\ y # e BY <4>3, <4>1, <3>0 DEF TypeOK
      <4>4. CASE x # e /\ y = e BY <4>4, <4>1, <3>0 DEF TypeOK
      <4>5. QED BY <4>2, <4>3, <4>4
    <3>4. SeqCounted'
      <4>1. IsFiniteSet(Sent) BY EventsAssumption, FS_Subset DEF Sent
      <4>2. Sent' = Sent \cup {e} BY <2>1, <2>10, <3>1 DEF Sent, TypeOK
      <4>3. e \notin Sent BY <2>3 DEF Sent
      <4>4. Cardinality(Sent') = Cardinality(Sent) + 1
        BY <4>1, <4>2, <4>3, FS_AddElement
      <4>5. Cardinality(Sent) \in Nat BY <4>1, FS_CardinalityType
      <4>6. QED BY <4>4, <4>5, <3>0 DEF SeqCounted, TypeOK
    <3>5. ReqsTagged'
      <4>1. \A k \in 1..Len(reqs) :
                reqs[k].seq = seqOf'[reqs[k].for] /\ reqs[k].seq # 0
        <5> TAKE k \in 1..Len(reqs)
        <5>0. reqs[k] \in [seq : Nat, for : Events] BY ElementOfSeq DEF TypeOK
        <5>1. reqs[k].for \in Events /\ reqs[k].for # e BY <5>0, <2>7
        <5>2. QED BY <5>1, <3>0 DEF ReqsTagged
      <4>2. CASE reqs' = reqs BY <4>1, <4>2 DEF ReqsTagged
      <4>3. CASE reqs' = Append(reqs, [seq |-> NextSeq, for |-> e])
        <5>1. [seq |-> NextSeq, for |-> e] \in [seq : Nat, for : Events]
          BY <2>1, <3>1 DEF TypeOK
        <5>2. /\ Len(reqs') = Len(reqs) + 1
              /\ \A k \in 1..Len(reqs) : reqs'[k] = reqs[k]
              /\ reqs'[Len(reqs) + 1] = [seq |-> NextSeq, for |-> e]
          BY <4>3, <5>1, AppendProperties DEF TypeOK
        <5>3. seqOf'[e] = NextSeq /\ NextSeq # 0
          BY <2>1, <2>10, <3>1 DEF TypeOK
        <5>4. SUFFICES ASSUME NEW k \in 1..Len(reqs')
                       PROVE  reqs'[k].seq = seqOf'[reqs'[k].for] /\ reqs'[k].seq # 0
          BY DEF ReqsTagged
        <5>5. CASE k \in 1..Len(reqs) BY <5>5, <4>1, <5>2
        <5>6. CASE k = Len(reqs) + 1 BY <5>6, <5>2, <5>3
        <5>7. QED BY <5>2, <5>5, <5>6 DEF TypeOK
      <4>4. QED BY <2>10, <4>2, <4>3
    <3>6. WireTagged'
      BY <2>4, <2>8, <2>10 DEF WireTagged, TypeOK
    <3>7. QED BY <1>0, <2>5, <2>6, <3>2, <3>3, <3>4, <3>5, <3>6
  <2>11. QED BY <2>4, <2>9, <2>10, Zenon DEF SendNetlinkQuery
<1>7. CASE Receive
  <2> DEFINE m == Head(wire)
  <2>1. /\ wire # << >>
        /\ m \in Msg
        /\ m = wire[1] /\ 1 \in 1..Len(wire)
    BY <1>7, HeadTailProperties DEF Receive, TypeOK
  <2>2. /\ wire' = Tail(wire)
        /\ UNCHANGED <<inbox, seqOf, nlSeq, reqs>>
        /\ \/ ReplyRoute(m) \/ ReplyQuery(m) \/ ReplyUnmatched(m)
    BY <1>7 DEF Receive, KernelVars
  <2>3. WireTagged' BY <2>1, <2>2, WireTail
  <2>4. m.type \notin RouteTypes =>
            /\ m.for \in Events /\ m.seq = seqOf[m.for] /\ m.seq # 0
    BY <2>1 DEF WireTagged
  <2>5. Sent' = Sent BY <2>2 DEF Sent
  <2>6. /\ SeqUnique' /\ SeqCounted' /\ ReqsTagged'
    BY <2>2, <2>5 DEF SeqUnique, SeqCounted, ReqsTagged
  <2>7. CASE ReplyRoute(m)
    <3>1. UNCHANGED <<evState, table>> BY <2>7 DEF ReplyRoute
    <3>2. QueryRepliesToCaller'
      <4>1. \A e \in Events : EvType[e] = "query" => recv'[e] = recv[e]
        BY <2>7, EvAssumption DEF ReplyRoute
      <4>2. QED BY <4>1 DEF QueryRepliesToCaller
    <3>3. InboxQueued' /\ SeqIssued'
      BY <2>2, <3>1 DEF InboxQueued, SeqIssued, Valid
    <3>4. QED BY <1>0, <2>3, <2>6, <3>2, <3>3
  <2>8. CASE ReplyUnmatched(m)
    <3>1. UNCHANGED <<evState, table, recv>> BY <2>8 DEF ReplyUnmatched
    <3>2. InboxQueued' /\ SeqIssued' /\ QueryRepliesToCaller'
      BY <2>2, <3>1 DEF InboxQueued, SeqIssued, Valid, QueryRepliesToCaller
    <3>3. QED BY <1>0, <2>3, <2>6, <3>2
  <2>9. CASE ReplyQuery(m)
    <3>1. PICK k \in 1..Len(table) :
             /\ IsMatch(m.seq, k)
             /\ recv' = [recv EXCEPT ![table[k]] = Append(@, m)]
             /\ IF Ends(m)
                THEN /\ table' = EraseEntry(table, k)
                     /\ evState' = [evState EXCEPT ![table[k]] = "done"]
                ELSE UNCHANGED <<table, evState>>
      BY <2>9, Zenon DEF ReplyQuery
    <3> DEFINE q == table[k]
    <3>2. q \in Events BY ElementOfSeq DEF TypeOK
    <3>3. EvType[q] = "query" /\ seqOf[q] = m.seq BY <3>1 DEF IsMatch
    <3>4. m.type \notin RouteTypes BY <2>9 DEF ReplyQuery
    <3>5. q = m.for BY <2>4, <3>2, <3>3, <3>4 DEF SeqUnique
    <3>6. evState[q] \in {"table", "done"} BY <2>4, <3>2, <3>3, <3>4 DEF SeqIssued
    <3>7. /\ evState'[q] \in {"table", "done"}
          /\ \A x \in Events \ {q} : evState'[x] = evState[x]
      <4>1. CASE Ends(m) BY <3>1, <3>2, <4>1 DEF TypeOK
      <4>2. CASE ~Ends(m) BY <3>1, <3>6, <4>2
      <4>3. QED BY <4>1, <4>2
    <3>8. InboxQueued'
      <4>1. \A i \in 1..Len(inbox) : inbox[i] # q
        BY <3>6 DEF InboxQueued
      <4>2. \A i \in 1..Len(inbox) : inbox[i] \in Events
        BY ElementOfSeq DEF TypeOK
      <4>3. QED BY <2>2, <3>7, <4>1, <4>2 DEF InboxQueued
    <3>9. SeqIssued'
      <4> SUFFICES ASSUME NEW x \in Events, seqOf'[x] # 0
                   PROVE  Valid(x) /\ evState'[x] \in {"table", "done"}
                          /\ seqOf'[x] <= nlSeq'
        BY DEF SeqIssued
      <4>1. CASE x = q BY <4>1, <2>2, <3>7 DEF SeqIssued
      <4>2. CASE x # q BY <4>2, <2>2, <3>7 DEF SeqIssued
      <4>3. QED BY <4>1, <4>2
    <3>10. QueryRepliesToCaller'
      <4> SUFFICES ASSUME NEW e \in Events, EvType[e] = "query",
                          NEW i \in 1..Len(recv'[e])
                   PROVE  recv'[e][i].for = e
        BY DEF QueryRepliesToCaller
      <4>1. CASE e = q
        <5>1. recv[q] \in Seq(Msg) BY <3>2 DEF TypeOK
        <5>2. recv'[q] = Append(recv[q], m) BY <3>1, <3>2 DEF TypeOK
        <5>3. /\ Len(recv'[q]) = Len(recv[q]) + 1
              /\ \A j \in 1..Len(recv[q]) : recv'[q][j] = recv[q][j]
              /\ recv'[q][Len(recv[q]) + 1] = m
          BY <2>1, <5>1, <5>2, AppendProperties
        <5>4. CASE i \in 1..Len(recv[q])
          BY <4>1, <5>3, <5>4 DEF QueryRepliesToCaller
        <5>5. CASE i = Len(recv[q]) + 1
          BY <4>1, <5>3, <5>5, <3>5
        <5>6. QED BY <4>1, <5>3, <5>4, <5>5, <5>1
      <4>2. CASE e # q
        BY <4>2, <3>1 DEF QueryRepliesToCaller, TypeOK
      <4>3. QED BY <4>1, <4>2
    <3>11. QED BY <1>0, <2>3, <2>6, <3>8, <3>9, <3>10
  <2>10. QED BY <2>2, <2>7, <2>8, <2>9
<1>9. CASE UNCHANGED vars
  <2>1. TypeOK' BY <1>9 DEF vars, TypeOK
  <2>2. UNCHANGED <<evState, inbox, seqOf, nlSeq, reqs, wire, recv>> BY <1>9 DEF vars
  <2>3. QED BY <2>1, <2>2, FrameIInv

<1>10. QED
  BY <1>1, <1>2, <1>3, <1>4, <1>5, <1>6, <1>7, <1>9 DEF Next, Thread


(* Every reply that csThreadNetlink::SendNetlinkReply (csnetlink.cpp     *)
(* lines 269-319) hands to a query client is one the kernel sent for that  *)
(* client's own request: matching by sequence number never gives a query  *)
(* another's reply, provided the counter's reset bound                     *)
(* time(NULL) - 3600 * 24 (line 245) exceeds the number of events, so it   *)
(* does not wrap back to 1 while earlier queries are outstanding.          *)
THEOREM QueryIsolation == SaneClock => (Spec => []QueryRepliesToCaller)
<1> SUFFICES ASSUME SaneClock PROVE Spec => []QueryRepliesToCaller
  OBVIOUS
<1>1. Init => IInv BY InitIInv
<1>2. IInv /\ [Next]_vars => IInv' BY NextIInv
<1>3. IInv => QueryRepliesToCaller BY DEF IInv
<1>4. QED BY <1>1, <1>2, <1>3, PTL DEF Spec

(* csNetlink's state keeps its types in every behaviour.                   *)
THEOREM NetlinkTypeCorrect == Spec => []TypeOK
<1>1. Init => TypeOK BY InitTypeOK
<1>2. TypeOK /\ [Next]_vars => TypeOK' BY NextTypeOK
<1>3. QED BY <1>1, <1>2, PTL DEF Spec


-----------------------------------------------------------------------------
(* The lifecycle of a query.  Under the mapping QueryState, a reply to a  *)
(* query moves it from SENT or FILLING only if the query is in the table  *)
(* exactly once with state "table", and popping a query makes it SENT     *)
(* only if no reply reached its caller earlier.  These two facts, with     *)
(* IInv, make every step of the service a step or a stutter of            *)
(* CsNetlinkQuery.                                                         *)

(* No reply reaches the caller of an event the thread has not popped.      *)
UnsentSilent ==
    \A e \in Events : evState[e] \in {"new", "queued"} => recv[e] = << >>

(* event_client holds each event at most once, and only events in state   *)
(* "table".                                                                *)
TableHeld ==
    /\ \A k \in 1..Len(table) : evState[table[k]] = "table"
    /\ \A i, j \in 1..Len(table) : table[i] = table[j] => i = j

LifeInv == UnsentSilent /\ TableHeld

(* Erasing entry k keeps the entries before k and shifts the later ones.  *)
LEMMA EraseEntryProps ==
    ASSUME NEW S, NEW s \in Seq(S), NEW k \in 1..Len(s)
    PROVE  /\ Len(EraseEntry(s, k)) = Len(s) - 1
           /\ \A i \in 1..Len(s) - 1 :
                 EraseEntry(s, k)[i] = IF i < k THEN s[i] ELSE s[i + 1]
<1> DEFINE a == SubSeq(s, 1, k - 1)
           b == SubSeq(s, k + 1, Len(s))
<1>1. /\ a \in Seq(S) /\ Len(a) = k - 1 /\ \A i \in 1..k - 1 : a[i] = s[i]
  BY SubSeqProperties
<1>2. /\ b \in Seq(S) /\ Len(b) = Len(s) - k
      /\ \A i \in 1..Len(s) - k : b[i] = s[k + i]
  BY SubSeqProperties
<1> HIDE DEF a, b
<1>3. /\ Len(a \o b) = Len(a) + Len(b)
      /\ \A i \in 1..Len(a) + Len(b) :
            (a \o b)[i] = IF i <= Len(a) THEN a[i] ELSE b[i - Len(a)]
  <2> QED BY <1>1, <1>2, ConcatProperties
<1>4. Len(a \o b) = Len(s) - 1 BY <1>1, <1>2, <1>3
<1>5. ASSUME NEW i \in 1..Len(s) - 1
      PROVE  (a \o b)[i] = IF i < k THEN s[i] ELSE s[i + 1]
  <2>1. CASE i < k BY <1>1, <1>2, <1>3, <2>1
  <2>2. CASE ~(i < k)
    <3>1. i - Len(a) \in 1..Len(s) - k /\ k + (i - Len(a)) = i + 1 BY <1>1, <2>2
    <3>2. i \in 1..Len(a) + Len(b) /\ ~(i <= Len(a)) BY <1>1, <1>2, <2>2
    <3>3. (a \o b)[i] = b[i - Len(a)] BY <1>3, <3>2
    <3>4. b[i - Len(a)] = s[i + 1] BY <1>2, <3>1
    <3>5. QED BY <2>2, <3>3, <3>4
  <2>3. QED BY <2>1, <2>2
<1>6. QED BY <1>4, <1>5 DEF EraseEntry, a, b

LEMMA InitLife == Init => LifeInv
BY DEF Init, LifeInv, UnsentSilent, TableHeld

LEMMA NextLife == TypeOK /\ InboxQueued /\ LifeInv /\ [Next]_vars => LifeInv'
<1> SUFFICES ASSUME TypeOK, InboxQueued, LifeInv, [Next]_vars PROVE LifeInv'
  OBVIOUS
<1> USE DEF LifeInv
<1>1. CASE UNCHANGED <<evState, table, recv>>
  BY <1>1 DEF UnsentSilent, TableHeld
<1>2. ASSUME NEW e \in Events, Emit(e) PROVE LifeInv'
  <2>1. /\ evState[e] = "new"
        /\ evState' = [evState EXCEPT ![e] = "queued"]
        /\ UNCHANGED <<table, recv>>
    BY <1>2 DEF Emit
  <2>2. \A k \in 1..Len(table) : table[k] # e /\ table[k] \in Events
    BY <2>1, ElementOfSeq DEF TableHeld, TypeOK
  <2>3. UnsentSilent' BY <2>1 DEF UnsentSilent, TypeOK
  <2>4. TableHeld' BY <2>1, <2>2 DEF TableHeld, TypeOK
  <2>5. QED BY <2>3, <2>4
<1>3. CASE ProcessEvent
  <2> DEFINE e == Head(inbox)
  <2>1. /\ e \in Events
        /\ evState[e] = "queued"
        /\ table' = Append(table, e)
        /\ evState' = [evState EXCEPT ![e] = "table"]
        /\ UNCHANGED recv
    <3>1. inbox # << >> /\ e = inbox[1] /\ 1 \in 1..Len(inbox)
      BY <1>3, HeadTailProperties DEF ProcessEvent, TypeOK
    <3>2. QED BY <1>3, <3>1 DEF ProcessEvent, InboxQueued, TypeOK
  <2>2. \A k \in 1..Len(table) : table[k] # e /\ table[k] \in Events
    BY <2>1, ElementOfSeq DEF TableHeld, TypeOK
  <2>3. /\ Len(table') = Len(table) + 1
        /\ \A k \in 1..Len(table) : table'[k] = table[k]
        /\ table'[Len(table) + 1] = e
    BY <2>1, AppendProperties DEF TypeOK
  <2>4. UnsentSilent' BY <2>1 DEF UnsentSilent, TypeOK
  <2>5. \A k \in 1..Len(table') : evState'[table'[k]] = "table"
    <3> TAKE k \in 1..Len(table')
    <3>1. CASE k \in 1..Len(table)
      BY <2>1, <2>2, <2>3, <3>1 DEF TableHeld, TypeOK
    <3>2. CASE k = Len(table) + 1
      BY <2>1, <2>3, <3>2 DEF TypeOK
    <3>3. QED BY <2>3, <3>1, <3>2 DEF TypeOK
  <2>6. \A i, j \in 1..Len(table') : table'[i] = table'[j] => i = j
    BY <2>2, <2>3 DEF TableHeld
  <2>7. QED BY <2>4, <2>5, <2>6 DEF TableHeld
<1>4. CASE Receive
  <2> DEFINE m == Head(wire)
  <2>1. \/ ReplyRoute(m) \/ ReplyQuery(m) \/ ReplyUnmatched(m)
    BY <1>4 DEF Receive
  <2>2. CASE ReplyRoute(m)
    <3>1. UNCHANGED <<evState, table>> BY <2>2 DEF ReplyRoute
    <3>2. \A x \in Events : evState[x] # "table" => recv'[x] = recv[x]
      BY <2>2 DEF ReplyRoute
    <3>3. QED BY <3>1, <3>2 DEF UnsentSilent, TableHeld
  <2>3. CASE ReplyUnmatched(m)
    BY <2>3, <1>1 DEF ReplyUnmatched
  <2>4. CASE ReplyQuery(m)
    <3>1. PICK k \in 1..Len(table) :
             /\ recv' = [recv EXCEPT ![table[k]] = Append(@, m)]
             /\ IF Ends(m)
                THEN /\ table' = EraseEntry(table, k)
                     /\ evState' = [evState EXCEPT ![table[k]] = "done"]
                ELSE UNCHANGED <<table, evState>>
      BY <2>4, Zenon DEF ReplyQuery
    <3> DEFINE q == table[k]
    <3>2. q \in Events /\ evState[q] = "table"
      BY ElementOfSeq DEF TypeOK, TableHeld
    <3>3. UnsentSilent'
      <4>1. evState'[q] \in {"table", "done"} /\ \A x \in Events \ {q} : evState'[x] = evState[x]
        BY <3>1, <3>2 DEF TypeOK
      <4>2. \A x \in Events \ {q} : recv'[x] = recv[x]
        BY <3>1 DEF TypeOK
      <4>3. QED BY <4>1, <4>2 DEF UnsentSilent
    <3>4. CASE ~Ends(m)
      <4>1. UNCHANGED <<table, evState>> BY <3>1, <3>4
      <4>2. QED BY <3>3, <4>1 DEF TableHeld
    <3>5. CASE Ends(m)
      <4>1. table' = EraseEntry(table, k) /\ evState' = [evState EXCEPT ![q] = "done"]
        BY <3>1, <3>5
      <4>2. /\ Len(table') = Len(table) - 1
            /\ \A i \in 1..Len(table) - 1 :
                  table'[i] = IF i < k THEN table[i] ELSE table[i + 1]
        BY <4>1, EraseEntryProps DEF TypeOK
      <4>3. \A i \in 1..Len(table') : table'[i] \in Events /\ table'[i] # q
                                      /\ evState[table'[i]] = "table"
        <5> TAKE i \in 1..Len(table')
        <5>1. \E j \in 1..Len(table) : j # k /\ table'[i] = table[j]
          <6>1. CASE i < k BY <4>2, <6>1
          <6>2. CASE ~(i < k) BY <4>2, <6>2
          <6>3. QED BY <6>1, <6>2
        <5>2. PICK j \in 1..Len(table) : j # k /\ table'[i] = table[j] BY <5>1
        <5>3. QED BY <5>2, ElementOfSeq DEF TypeOK, TableHeld
      <4>4. \A i \in 1..Len(table') : evState'[table'[i]] = "table"
        BY <4>1, <4>3, <3>2 DEF TypeOK
      <4>5. \A i, j \in 1..Len(table') : table'[i] = table'[j] => i = j
        BY <4>2 DEF TableHeld
      <4>6. QED BY <3>3, <4>4, <4>5 DEF TableHeld
    <3>6. QED BY <3>4, <3>5
  <2>5. QED BY <2>1, <2>2, <2>3, <2>4
<1>5. QED
  BY <1>1, <1>2, <1>3, <1>4
  DEF Next, Thread, QuitArrives, ClientDestroy, KernelAnswer, KernelRoute,
      PopQuit, RecvFail, vars


(* The refinement mapping of CsNetlink, as functions.                      *)
QstMap == [e \in QueryEvents |-> QueryState(e)]

GotMap == [e \in QueryEvents |-> Observed(recv[e])]

(* The caller's view of a reply list grows by the view of the new reply.   *)
LEMMA ObservedAppend ==
    ASSUME NEW s \in Seq(Msg), NEW m \in Msg
    PROVE  Observed(Append(s, m))
             = Append(Observed(s), [type |-> m.type, multi |-> m.multi, for |-> m.for])
BY DEF Observed

(* A step that leaves evState and recv alone is a stutter of the lifecycle. *)
LEMMA MappedStutter ==
    ASSUME UNCHANGED <<evState, recv>>
    PROVE  UNCHANGED <<QstMap, GotMap>>
BY DEF QstMap, GotMap, QueryState, QueryEvents

(* A query whose state and replies a step leaves alone keeps its mapped   *)
(* state.                                                                  *)
LEMMA QueryStateFrame ==
    ASSUME NEW e, evState'[e] = evState[e], recv'[e] = recv[e]
    PROVE  QueryState(e)' = QueryState(e)
BY DEF QueryState

(* A step that keeps every query's mapped state and replies is a stutter  *)
(* of the lifecycle.                                                       *)
LEMMA MappedFrame ==
    ASSUME \A e \in QueryEvents : QueryState(e)' = QueryState(e) /\ recv'[e] = recv[e]
    PROVE  UNCHANGED <<QstMap, GotMap>>
<1>1. QstMap' = QstMap BY DEF QstMap, QueryEvents
<1>2. GotMap' = GotMap BY DEF GotMap, QueryEvents
<1>3. QED BY <1>1, <1>2

(* Every step of the service is a step of the Query lifecycle or leaves   *)
(* it unchanged.                                                           *)
LEMMA StepRefines ==
    ASSUME SaneClock, IInv, LifeInv, [Next]_vars
    PROVE  \/ \E q \in QueryEvents : Lifecycle!Send(q) \/ Lifecycle!Reply(q)
           \/ UNCHANGED <<QstMap, GotMap>>
<1> USE DEF LifeInv
<1>0. TypeOK BY DEF IInv
<1>1. CASE UNCHANGED <<evState, recv>>
  BY <1>1, MappedStutter
<1>2. ASSUME NEW e \in Events, Emit(e) PROVE UNCHANGED <<QstMap, GotMap>>
  <2>1. /\ evState[e] = "new"
        /\ evState' = [evState EXCEPT ![e] = "queued"]
        /\ UNCHANGED recv
    BY <1>2 DEF Emit
  <2>2. QueryState(e)' = QueryState(e) BY <2>1, <1>0 DEF QueryState, TypeOK
  <2>3. \A x \in Events \ {e} : evState'[x] = evState[x] BY <2>1, <1>0 DEF TypeOK
  <2>4. \A x \in QueryEvents : QueryState(x)' = QueryState(x) /\ recv'[x] = recv[x]
    BY <2>1, <2>2, <2>3, QueryStateFrame DEF QueryEvents
  <2>5. QED BY <2>4, MappedFrame
<1>3. CASE ProcessEvent
  <2>0. inbox # << >> BY <1>3 DEF ProcessEvent
  <2> PICK e \in Events : e = Head(inbox)
    BY <2>0, <1>0, HeadTailProperties DEF TypeOK
  <2>1. /\ evState[e] = "queued"
        /\ recv[e] = << >>
        /\ evState' = [evState EXCEPT ![e] = "table"]
        /\ UNCHANGED recv
    <3>1. e = inbox[1] /\ 1 \in 1..Len(inbox)
      BY <2>0, <1>0 DEF TypeOK
    <3>2. QED BY <1>3, <1>0, <3>1 DEF ProcessEvent, IInv, InboxQueued, TypeOK, UnsentSilent
  <2>2. \A x \in Events \ {e} : evState'[x] = evState[x] BY <2>1, <1>0 DEF TypeOK
  <2>3. CASE e \in QueryEvents
    <3>1. QstMap[e] = "initial" BY <2>1, <2>3 DEF QstMap, QueryState
    <3>2. QstMap' = [QstMap EXCEPT ![e] = "sent"]
      <4>1. QueryState(e)' = "sent" BY <2>1, <1>0 DEF QueryState, TypeOK
      <4>2. \A x \in QueryEvents \ {e} : QueryState(x)' = QueryState(x)
        BY <2>1, <2>2, QueryStateFrame DEF QueryEvents
      <4>3. QED BY <4>1, <4>2, <2>3 DEF QstMap
    <3>3. GotMap' = GotMap BY <2>1 DEF GotMap
    <3>4. Lifecycle!Send(e) BY <3>1, <3>2, <3>3 DEF Lifecycle!Send, QstMap, GotMap
    <3>5. QED BY <3>4, <2>3
  <2>4. CASE e \notin QueryEvents
    <3>1. \A x \in QueryEvents : QueryState(x)' = QueryState(x) /\ recv'[x] = recv[x]
      BY <2>1, <2>2, <2>4, QueryStateFrame DEF QueryEvents
    <3>2. QED BY <3>1, MappedFrame
  <2>5. QED BY <2>3, <2>4
<1>4. CASE Receive
  <2> DEFINE m == Head(wire)
  <2>1. m \in Msg BY <1>4, <1>0 DEF Receive, TypeOK
  <2>2. \/ ReplyRoute(m) \/ ReplyQuery(m) \/ ReplyUnmatched(m)
    BY <1>4 DEF Receive
  <2>3. CASE ReplyRoute(m)
    <3>1. UNCHANGED evState BY <2>3 DEF ReplyRoute
    <3>2. \A x \in QueryEvents : recv'[x] = recv[x]
      BY <2>3, EvAssumption DEF ReplyRoute, QueryEvents
    <3>3. \A x \in QueryEvents : QueryState(x)' = QueryState(x) /\ recv'[x] = recv[x]
      BY <3>1, <3>2, QueryStateFrame
    <3>4. QED BY <3>3, MappedFrame
  <2>4. CASE ReplyUnmatched(m)
    BY <2>4, <1>1 DEF ReplyUnmatched
  <2>5. CASE ReplyQuery(m)
    <3>1. PICK k \in 1..Len(table) :
             /\ IsMatch(m.seq, k)
             /\ recv' = [recv EXCEPT ![table[k]] = Append(@, m)]
             /\ IF Ends(m)
                THEN /\ table' = EraseEntry(table, k)
                     /\ evState' = [evState EXCEPT ![table[k]] = "done"]
                ELSE UNCHANGED <<table, evState>>
      BY <2>5, Zenon DEF ReplyQuery
    <3> PICK q \in Events : q = table[k]
      BY <1>0, ElementOfSeq DEF TypeOK
    <3> DEFINE mm == [type |-> m.type, multi |-> m.multi, for |-> q]
    <3>2. /\ q \in QueryEvents
          /\ evState[q] = "table"
          /\ recv[q] \in Seq(Msg)
      BY <3>1, <1>0, ElementOfSeq DEF IsMatch, QueryEvents, TableHeld, TypeOK
    <3>3. recv'[q] = Append(recv[q], m) BY <3>1, <3>2, <1>0 DEF TypeOK, QueryEvents
    <3>4. m.for = q
      <4>1. QueryRepliesToCaller' BY NextIInv DEF IInv
      <4>2. /\ Len(recv'[q]) = Len(recv[q]) + 1
            /\ recv'[q][Len(recv[q]) + 1] = m
        BY <2>1, <3>2, <3>3, AppendProperties
      <4>3. QED BY <4>1, <4>2, <3>2 DEF QueryRepliesToCaller, QueryEvents
    <3>5. GotMap' = [GotMap EXCEPT ![q] = Append(@, mm)]
      <4>1. Observed(recv'[q]) = Append(Observed(recv[q]), mm)
        BY <2>1, <3>2, <3>3, <3>4, ObservedAppend
      <4>2. \A x \in QueryEvents \ {q} : recv'[x] = recv[x]
        BY <3>1, <1>0 DEF TypeOK, QueryEvents
      <4>3. QED BY <4>1, <4>2, <3>2 DEF GotMap
    <3>6. Lifecycle!Terminal(mm) <=> Ends(m)
      BY <2>1 DEF Lifecycle!Terminal, Ends, Msg, MsgTypes
    <3>7. QueryState(q)' = IF Lifecycle!Terminal(mm) THEN "done" ELSE "filling"
      <4>1. CASE Ends(m)
        <5>1. evState'[q] = "done" BY <3>1, <4>1, <1>0, <3>2 DEF TypeOK, QueryEvents
        <5>2. QED BY <5>1, <4>1, <3>6 DEF QueryState
      <4>2. CASE ~Ends(m)
        <5>1. evState'[q] = "table" BY <3>1, <4>2, <3>2
        <5>2. recv'[q] # << >> BY <3>3, <3>2, <2>1, AppendProperties
        <5>3. QED BY <5>1, <5>2, <4>2, <3>6 DEF QueryState
      <4>3. QED BY <4>1, <4>2
    <3>8. QstMap' = [QstMap EXCEPT ![q] = IF Lifecycle!Terminal(mm) THEN "done" ELSE "filling"]
      <4>1. \A x \in Events \ {q} : evState'[x] = evState[x] /\ recv'[x] = recv[x]
        <5>1. CASE Ends(m) BY <3>1, <5>1, <1>0 DEF TypeOK
        <5>2. CASE ~Ends(m) BY <3>1, <5>2, <1>0 DEF TypeOK
        <5>3. QED BY <5>1, <5>2
      <4>2. \A x \in QueryEvents \ {q} : QueryState(x)' = QueryState(x)
        BY <4>1, QueryStateFrame DEF QueryEvents
      <4>3. QED BY <3>7, <4>2, <3>2 DEF QstMap
    <3>9. QstMap[q] \in {"sent", "filling"} BY <3>2 DEF QstMap, QueryState
    <3>10. Lifecycle!Reply(q)
      <4>1. m.type \in MsgTypes /\ m.multi \in BOOLEAN BY <2>1 DEF Msg
      <4>2. QED BY <3>5, <3>8, <3>9, <4>1 DEF Lifecycle!Reply, QstMap, GotMap
    <3>11. QED BY <3>2, <3>10
  <2>6. QED BY <2>2, <2>3, <2>4, <2>5
<1>5. QED
  BY <1>1, <1>2, <1>3, <1>4
  DEF Next, Thread, QuitArrives, ClientDestroy, KernelAnswer, KernelRoute,
      PopQuit, RecvFail, vars


(* The netlink service implements the spec's Query lifecycle: under the    *)
(* mapping QueryState/Observed, csThreadNetlink::ProcessEvent moves a      *)
(* query from INITIAL to SENT, and each reply SendNetlinkReply (lines      *)
(* 269-319) dispatches to a query's caller is one to its own request that *)
(* moves it to FILLING or, if it ends the dump, to DONE; every other step  *)
(* leaves the lifecycle unchanged.  As for QueryIsolation, the sequence    *)
(* counter must not wrap while queries are outstanding.                    *)
THEOREM QueryRefinement == SaneClock => (Spec => QueryLifecycle)
<1> SUFFICES ASSUME SaneClock PROVE Spec => QueryLifecycle
  OBVIOUS
<1>1. Init => Lifecycle!Init
  <2> SUFFICES ASSUME Init PROVE Lifecycle!Init
    OBVIOUS
  <2>1. \A e \in QueryEvents : QueryState(e) = "initial" BY DEF Init, QueryState, QueryEvents
  <2>2. \A e \in QueryEvents : Observed(recv[e]) = << >> BY DEF Init, Observed, QueryEvents
  <2>3. QED BY <2>1, <2>2 DEF Lifecycle!Init
<1>2. Init => IInv /\ LifeInv BY InitIInv, InitLife
<1>3. IInv /\ LifeInv /\ [Next]_vars => IInv' /\ LifeInv'
  BY NextIInv, NextLife DEF IInv
<1>4. IInv /\ LifeInv /\ [Next]_vars => [Lifecycle!Next]_Lifecycle!avars
  <2> SUFFICES ASSUME IInv, LifeInv, [Next]_vars
               PROVE  [Lifecycle!Next]_Lifecycle!avars
    OBVIOUS
  <2>1. \/ \E q \in QueryEvents : Lifecycle!Send(q) \/ Lifecycle!Reply(q)
        \/ UNCHANGED <<QstMap, GotMap>>
    BY StepRefines
  <2>2. QED BY <2>1 DEF Lifecycle!Next, Lifecycle!avars, QstMap, GotMap
<1>5. QED BY <1>1, <1>2, <1>3, <1>4, PTL DEF Spec, QueryLifecycle, Lifecycle!Spec

=============================================================================
