----------------------------- MODULE CsMainProofs -----------------------------
(***************************************************************************)
(* Proofs about the supervisor and the plugin host (CsMain): type          *)
(* correctness, and that DispatchPluginEvent routes every PLUGIN event Run *)
(* takes to each subscriber of its source exactly once.                    *)
(***************************************************************************)
EXTENDS CsMain, SequenceTheorems, TLAPS

-----------------------------------------------------------------------------
(* The filter table.                                                       *)

(* What ParseEventFilter keeps is what the spec calls the subscribers:     *)
(* the loaded plugins whose filter finds src are exactly the loaded        *)
(* plugins other than src whose filter text names src.  Skipping empty     *)
(* atoms loses no name, a blank atom trims to "", which names no plugin,   *)
(* and the self check removes exactly the entries naming the plugin        *)
(* itself.                                                                 *)
LEMMA RoutesMatch ==
    ASSUME NEW src \in Plugins
    PROVE  Receivers(src) = Subscribers(src)
<1> USE PluginsAssumption
<1>1. ASSUME NEW s \in Receivers(src) PROVE s \in Subscribers(src)
  <2>1. s \in Loaded BY <1>1 DEF Receivers
  <2>2. PICK k \in Kept(s) : Trimmed(RawFilter[s][k]) = src
    BY <1>1 DEF Receivers, ParsedFilter
  <2>3. k \in 1..Len(RawFilter[s]) /\ Trimmed(RawFilter[s][k]) # s
    BY DEF Kept
  <2>4. RawFilter[s][k] # "SPACES" BY <2>2 DEF Trimmed
  <2>5. RawFilter[s][k] = src BY <2>2, <2>4 DEF Trimmed
  <2>6. s # src BY <2>2, <2>3
  <2>7. QED BY <2>1, <2>3, <2>5, <2>6 DEF Subscribers
<1>2. ASSUME NEW s \in Subscribers(src) PROVE s \in Receivers(src)
  <2>1. s \in Loaded /\ s # src BY <1>2 DEF Subscribers
  <2>2. PICK k \in 1..Len(RawFilter[s]) : RawFilter[s][k] = src
    BY <1>2 DEF Subscribers
  <2>3. Trimmed(RawFilter[s][k]) = src BY <2>2 DEF Trimmed
  <2>4. k \in Kept(s) BY <2>1, <2>2, <2>3 DEF Kept
  <2>5. ParsedFilter(s)[k] = src BY <2>3, <2>4 DEF ParsedFilter
  <2>6. k \in DOMAIN ParsedFilter(s) BY <2>4 DEF ParsedFilter
  <2>7. QED BY <2>1, <2>5, <2>6 DEF Receivers
<1>3. QED BY <1>1, <1>2

-----------------------------------------------------------------------------
(* The inductive invariant.                                                *)

(* Every PLUGIN event in the main inbox comes from a loaded plugin.        *)
QueueTagged ==
    \A i \in 1..Len(mainQ) : mainQ[i].id = "PLUGIN" => mainQ[i].src \in Loaded

IInv == TypeOK /\ QueueTagged /\ RoutedOncePerSubscriber

LEMMA InitIInv == Init => IInv
<1> SUFFICES ASSUME Init PROVE IInv
  OBVIOUS
<1>1. TypeOK
  <2>1. << >> \in Seq(Event) BY EmptySeq
  <2>2. 0 \in 0..MaxEmits /\ 0 \in 0..MaxChildren BY BoundsAssumption
  <2>3. QED BY <2>1, <2>2 DEF Init, TypeOK
<1>2. QueueTagged BY DEF Init, QueueTagged
<1>3. RoutedOncePerSubscriber BY DEF Init, RoutedOncePerSubscriber
<1>4. QED BY <1>1, <1>2, <1>3 DEF IInv

(* A step that leaves the inbox, the dispatch counts and the clones alone  *)
(* keeps the routing invariant.                                            *)
LEMMA FrameIInv ==
    ASSUME QueueTagged, RoutedOncePerSubscriber,
           UNCHANGED <<mainQ, processed, got>>
    PROVE  QueueTagged' /\ RoutedOncePerSubscriber'
BY DEF QueueTagged, RoutedOncePerSubscriber, Subscribers

(* Run takes a PLUGIN event from a loaded source: the clones of src grow   *)
(* by one for each subscriber, and processed[src] by one.                  *)
LEMMA DispatchKeeps ==
    ASSUME TypeOK, RoutedOncePerSubscriber,
           NEW src \in Plugins,
           DispatchPluginEvent(src),
           processed' = [processed EXCEPT ![src] = @ + 1]
    PROVE  RoutedOncePerSubscriber' /\ got' \in [Plugins -> [Plugins -> Nat]]
<1>1. Receivers(src) = Subscribers(src) BY RoutesMatch
<1>2. got' = [s \in Plugins |->
                IF s \in Subscribers(src)
                THEN [got[s] EXCEPT ![src] = @ + 1] ELSE got[s]]
  BY <1>1 DEF DispatchPluginEvent
<1>3. got' \in [Plugins -> [Plugins -> Nat]] BY <1>2 DEF TypeOK
<1>4. ASSUME NEW s \in Plugins, NEW q \in Plugins
      PROVE  got'[s][q] = IF s \in Subscribers(q) THEN processed'[q] ELSE 0
  <2>1. got[s][q] = IF s \in Subscribers(q) THEN processed[q] ELSE 0
    BY DEF RoutedOncePerSubscriber
  <2>2. CASE q = src
    BY <1>2, <2>1, <2>2 DEF TypeOK
  <2>3. CASE q # src
    BY <1>2, <2>1, <2>3 DEF TypeOK
  <2>4. QED BY <2>2, <2>3
<1>5. QED BY <1>3, <1>4 DEF RoutedOncePerSubscriber

(* The head of a tagged inbox is tagged, and so is its tail.               *)
LEMMA TailTagged ==
    ASSUME TypeOK, QueueTagged, mainQ # << >>
    PROVE  /\ Head(mainQ).id = "PLUGIN" => Head(mainQ).src \in Loaded
           /\ \A i \in 1..Len(Tail(mainQ)) :
                 Tail(mainQ)[i].id = "PLUGIN" => Tail(mainQ)[i].src \in Loaded
<1>1. mainQ \in Seq(Event) /\ Len(mainQ) > 0 BY EmptySeq DEF TypeOK
<1>2. Len(Tail(mainQ)) = Len(mainQ) - 1
      /\ \A i \in 1..Len(mainQ) - 1 : Tail(mainQ)[i] = mainQ[i + 1]
  BY <1>1, HeadTailProperties
<1>3. Head(mainQ) = mainQ[1] BY <1>1
<1>4. QED BY <1>1, <1>2, <1>3 DEF QueueTagged

(* Appending an event keeps the inbox tagged when the event is.            *)
LEMMA AppendTagged ==
    ASSUME TypeOK, QueueTagged, NEW e \in Event,
           e.id = "PLUGIN" => e.src \in Loaded,
           mainQ' = Append(mainQ, e)
    PROVE  QueueTagged' /\ mainQ' \in Seq(Event)
<1>1. mainQ \in Seq(Event) BY DEF TypeOK
<1>2. /\ mainQ' \in Seq(Event)
      /\ Len(mainQ') = Len(mainQ) + 1
      /\ \A i \in 1..Len(mainQ) : mainQ'[i] = mainQ[i]
      /\ mainQ'[Len(mainQ) + 1] = e
  BY <1>1, AppendProperties
<1>3. QED BY <1>2 DEF QueueTagged


(* Every step keeps the inductive invariant: the inbox stays tagged, and   *)
(* only Run's dispatch of a PLUGIN event changes the clones, together with *)
(* processed.                                                              *)
LEMMA NextIInv == IInv /\ [Next]_vars => IInv'
<1> SUFFICES ASSUME IInv, [Next]_vars PROVE IInv'
  OBVIOUS
<1> USE DEF IInv
<1>1. CASE SigQuit \/ SigOther \/ SigChild \/ SigFail \/ RunQuit \/ ChildExit
             \/ ServiceQuit \/ \E s \in Sigs : Raise(s)
  <2>1. UNCHANGED <<mainQ, processed, got>>
    BY <1>1 DEF SigQuit, SigOther, SigChild, SigFail, RunQuit, ChildExit,
                ServiceQuit, Raise
  <2>2. TypeOK'
    <3>1. CASE SigQuit BY <3>1 DEF SigQuit, Take, TypeOK
    <3>2. CASE SigOther BY <3>2 DEF SigOther, Take, TypeOK
    <3>3. CASE SigChild BY <3>3, BoundsAssumption DEF SigChild, Take, Reaper, TypeOK
    <3>4. CASE SigFail BY <3>4 DEF SigFail, TypeOK
    <3>5. CASE RunQuit BY <3>5 DEF RunQuit, TypeOK
    <3>6. CASE ChildExit BY <3>6, BoundsAssumption DEF ChildExit, TypeOK, Sigs
    <3>7. CASE ServiceQuit BY <3>7 DEF ServiceQuit, TypeOK
    <3>8. CASE \E s \in Sigs : Raise(s) BY <3>8 DEF Raise, TypeOK
    <3>9. QED BY <1>1, <3>1, <3>2, <3>3, <3>4, <3>5, <3>6, <3>7, <3>8
  <2>3. QED BY <2>1, <2>2, FrameIInv
<1>2. CASE SigReload
  <2>1. [id |-> "RELOAD", src |-> "none"] \in Event BY DEF Event
  <2>2. mainQ' = Append(mainQ, [id |-> "RELOAD", src |-> "none"])
    BY <1>2 DEF SigReload
  <2>3. QueueTagged' /\ mainQ' \in Seq(Event) BY <2>1, <2>2, AppendTagged
  <2>4. UNCHANGED <<processed, got>> /\ reloads' = reloads + 1
    BY <1>2 DEF SigReload
  <2>5. TypeOK' BY <1>2, <2>3, <2>4 DEF SigReload, Take, TypeOK
  <2>6. RoutedOncePerSubscriber'
    BY <2>4 DEF RoutedOncePerSubscriber, Subscribers
  <2>7. QED BY <2>3, <2>5, <2>6
<1>3. ASSUME NEW p \in Plugins, Emit(p) PROVE IInv'
  <2>1. p \in Loaded /\ [id |-> "PLUGIN", src |-> p] \in Event
    BY <1>3 DEF Emit, Event
  <2>2. mainQ' = Append(mainQ, [id |-> "PLUGIN", src |-> p]) BY <1>3 DEF Emit
  <2>3. QueueTagged' /\ mainQ' \in Seq(Event) BY <2>1, <2>2, AppendTagged
  <2>4. UNCHANGED <<processed, got>> BY <1>3 DEF Emit
  <2>5. TypeOK' BY <1>3, <2>3, <2>4, BoundsAssumption DEF Emit, TypeOK
  <2>6. RoutedOncePerSubscriber'
    BY <2>4 DEF RoutedOncePerSubscriber, Subscribers
  <2>7. QED BY <2>3, <2>5, <2>6
<1>4. CASE RunEvent
  <2>1. mainQ # << >> /\ mainQ' = Tail(mainQ) BY <1>4 DEF RunEvent
  <2>2. /\ Head(mainQ).id = "PLUGIN" => Head(mainQ).src \in Loaded
        /\ QueueTagged'
    BY <2>1, TailTagged DEF QueueTagged
  <2>3. mainQ' \in Seq(Event) /\ Head(mainQ) \in Event
    BY <2>1, HeadTailProperties DEF TypeOK
  <2>4. UNCHANGED <<pending, raised, zombies, sig, quit, reloads, run, emits>>
    BY <1>4 DEF RunEvent
  <2>5. CASE Head(mainQ).id = "PLUGIN"
    <3>1. Head(mainQ).src \in Plugins BY <2>2, <2>5, PluginsAssumption
    <3>2. /\ DispatchPluginEvent(Head(mainQ).src)
          /\ processed' = [processed EXCEPT ![Head(mainQ).src] = @ + 1]
      BY <1>4, <2>5 DEF RunEvent
    <3>3. RoutedOncePerSubscriber' /\ got' \in [Plugins -> [Plugins -> Nat]]
      BY <3>1, <3>2, DispatchKeeps
    <3>4. processed' \in [Plugins -> Nat] BY <3>1, <3>2 DEF TypeOK
    <3>5. TypeOK' BY <2>3, <2>4, <3>3, <3>4 DEF TypeOK
    <3>6. QED BY <2>2, <3>3, <3>5
  <2>6. CASE Head(mainQ).id # "PLUGIN"
    <3>1. UNCHANGED <<processed, got>> BY <1>4, <2>6 DEF RunEvent
    <3>2. TypeOK' BY <2>3, <2>4, <3>1 DEF TypeOK
    <3>3. RoutedOncePerSubscriber'
      BY <3>1 DEF RoutedOncePerSubscriber, Subscribers
    <3>4. QED BY <2>2, <3>2, <3>3
  <2>7. QED BY <2>5, <2>6
<1>5. CASE UNCHANGED vars
  <2>1. TypeOK' BY <1>5 DEF vars, TypeOK
  <2>2. QED BY <1>5, <2>1, FrameIInv DEF vars
<1>6. QED BY <1>1, <1>2, <1>3, <1>4, <1>5 DEF Next, Handler, Main

-----------------------------------------------------------------------------
(* The theorems.                                                           *)

(* The supervisor's state keeps its types in every behaviour.             *)
THEOREM MainTypeCorrect == Spec => []TypeOK
<1>1. IInv => TypeOK BY DEF IInv
<1>2. QED BY InitIInv, NextIInv, <1>1, PTL DEF Spec

(* PLUGIN events are routed as the spec says (RoutedOncePerSubscriber):    *)
(* every event Run has dispatched from src has put exactly one clone in    *)
(* the inbox of each loaded plugin other than src whose filter text names  *)
(* src, and none anywhere else, for any plugins, loader outcomes and       *)
(* filter texts, duplicates, blank atoms and self entries included.        *)
THEOREM RoutingCorrect == Spec => []RoutedOncePerSubscriber
<1>1. IInv => RoutedOncePerSubscriber BY DEF IInv
<1>2. QED BY InitIInv, NextIInv, <1>1, PTL DEF Spec


-----------------------------------------------------------------------------
(* The supervisor implements the abstract plugin host.                     *)

(* The host's subscribers, read from the names the filter text lists, are  *)
(* the subscribers of the spec.                                            *)
LEMMA HostSubscribers ==
    ASSUME NEW src
    PROVE  Host!Subscribers(src) = Subscribers(src)
BY PluginsAssumption DEF Host!Subscribers, Subscribers

(* A PLUGIN event from a loaded source is routed as the host routes it.    *)
LEMMA RouteMatches ==
    ASSUME TypeOK, NEW ev \in Event, ev.id = "PLUGIN" => ev.src \in Loaded
    PROVE  /\ ev.id = "PLUGIN" =>
                 (DispatchPluginEvent(ev.src) <=>
                  got' = [s \in Plugins |->
                            IF ev.id = "PLUGIN" /\ s \in Host!Subscribers(ev.src)
                            THEN [got[s] EXCEPT ![ev.src] = @ + 1]
                            ELSE got[s]])
           /\ ev.id # "PLUGIN" =>
                 (UNCHANGED got <=>
                  got' = [s \in Plugins |->
                            IF ev.id = "PLUGIN" /\ s \in Host!Subscribers(ev.src)
                            THEN [got[s] EXCEPT ![ev.src] = @ + 1]
                            ELSE got[s]])
<1>1. ASSUME ev.id = "PLUGIN"
      PROVE  DispatchPluginEvent(ev.src) <=>
               got' = [s \in Plugins |->
                         IF ev.id = "PLUGIN" /\ s \in Host!Subscribers(ev.src)
                         THEN [got[s] EXCEPT ![ev.src] = @ + 1]
                         ELSE got[s]]
  <2>1. ev.src \in Plugins BY <1>1, PluginsAssumption
  <2>2. Receivers(ev.src) = Host!Subscribers(ev.src)
    BY <2>1, RoutesMatch, HostSubscribers
  <2>3. QED BY <1>1, <2>2 DEF DispatchPluginEvent
<1>2. ASSUME ev.id # "PLUGIN"
      PROVE  UNCHANGED got <=>
               got' = [s \in Plugins |->
                         IF ev.id = "PLUGIN" /\ s \in Host!Subscribers(ev.src)
                         THEN [got[s] EXCEPT ![ev.src] = @ + 1]
                         ELSE got[s]]
  <2>1. got = [s \in Plugins |-> got[s]] BY DEF TypeOK
  <2>2. QED BY <1>2, <2>1
<1>3. QED BY <1>1, <1>2

(* The initial state is the host's.                                        *)
LEMMA HostInit == Init => Host!Init
BY DEF Init, Host!Init

(* Every step is a step of the host or leaves its state alone.             *)
LEMMA HostStep == IInv /\ [Next]_vars => [Host!Next]_Host!hvars
<1> SUFFICES ASSUME IInv, [Next]_vars PROVE [Host!Next]_Host!hvars
  OBVIOUS
<1> USE DEF IInv
<1>1. CASE SigOther \/ SigChild \/ ChildExit \/ \E s \in Sigs : Raise(s)
  <2>1. UNCHANGED <<mainQ, got, quit, run>>
    BY <1>1 DEF SigOther, SigChild, ChildExit, Raise
  <2>2. QED BY <2>1 DEF Host!hvars
<1>2. CASE SigQuit \/ SigFail \/ ServiceQuit
  <2>1. quit' = TRUE /\ UNCHANGED <<mainQ, got, run>>
    BY <1>2 DEF SigQuit, SigFail, ServiceQuit
  <2>2. CASE quit
    BY <2>1, <2>2 DEF Host!hvars
  <2>3. CASE ~quit
    <3>1. Host!Quit BY <2>1, <2>3 DEF Host!Quit
    <3>2. QED BY <3>1 DEF Host!Next
  <2>4. QED BY <2>2, <2>3
<1>3. CASE SigReload
  <2>1. Host!Reload BY <1>3 DEF SigReload, Host!Reload
  <2>2. QED BY <2>1 DEF Host!Next
<1>4. ASSUME NEW p \in Plugins, Emit(p) PROVE [Host!Next]_Host!hvars
  <2>1. Host!Emit(p) BY <1>4 DEF Emit, Host!Emit
  <2>2. QED BY <2>1 DEF Host!Next
<1>5. CASE RunQuit
  <2>1. Host!Stop BY <1>5 DEF RunQuit, Host!Stop
  <2>2. QED BY <2>1 DEF Host!Next
<1>6. CASE RunEvent
  <2>1. mainQ # << >> BY <1>6 DEF RunEvent
  <2>2. Head(mainQ) \in Event /\ (Head(mainQ).id = "PLUGIN" => Head(mainQ).src \in Loaded)
    BY <2>1, TailTagged, HeadTailProperties DEF TypeOK
  <2>3. Host!Route
    <3> DEFINE gotRouted ==
          [s \in Plugins |->
             IF Head(mainQ).id = "PLUGIN" /\ s \in Host!Subscribers(Head(mainQ).src)
             THEN [got[s] EXCEPT ![Head(mainQ).src] = @ + 1]
             ELSE got[s]]
    <3>1. got' = gotRouted
      <4>1. CASE Head(mainQ).id = "PLUGIN"
        <5>1. DispatchPluginEvent(Head(mainQ).src) BY <1>6, <4>1 DEF RunEvent
        <5>2. QED BY <2>2, <4>1, <5>1, RouteMatches
      <4>2. CASE Head(mainQ).id # "PLUGIN"
        <5>1. UNCHANGED got BY <1>6, <4>2 DEF RunEvent
        <5>2. QED BY <2>2, <4>2, <5>1, RouteMatches
      <4>3. QED BY <4>1, <4>2
    <3>2. /\ run = "run" /\ ~quit /\ mainQ' = Tail(mainQ)
          /\ UNCHANGED <<quit, run>>
      BY <1>6 DEF RunEvent
    <3>3. QED BY <2>1, <3>1, <3>2 DEF Host!Route
  <2>4. QED BY <2>3 DEF Host!Next
<1>7. CASE UNCHANGED vars
  BY <1>7 DEF vars, Host!hvars
<1>8. QED BY <1>1, <1>2, <1>3, <1>4, <1>5, <1>6, <1>7 DEF Next, Handler, Main

(* The supervisor implements the abstract plugin host (HostRefined): it    *)
(* routes the events of its inbox in arrival order, each PLUGIN event to   *)
(* exactly the subscribers of its source, none once QUIT is queued, and    *)
(* Run returns only after a QUIT.                                          *)
THEOREM HostRefinement == Spec => HostRefined
<1>1. Spec => []IInv BY InitIInv, NextIInv, PTL DEF Spec
<1>2. QED BY <1>1, HostInit, HostStep, PTL DEF Spec, HostRefined, Host!Spec

==============================================================================
