--------------------------- MODULE CsSelectProofs ---------------------------
(***************************************************************************)
(* Proofs about the readiness poller: the type invariant and              *)
(* LatchWithinInterest hold in every behaviour, for any sets of fds and   *)
(* interest bits.                                                          *)
(***************************************************************************)
EXTENDS CsSelect, TLAPS

(* The two together are inductive: every step that adds a latched bit      *)
(* (Merge) adds one of the current interest of a registered fd, and every  *)
(* step that shrinks an interest or unregisters an fd (Clear, Reset) also  *)
(* empties its latched bits.                                               *)
Inv == TypeOK /\ LatchWithinInterest

LEMMA InitInv == Init => Inv
<1> SUFFICES ASSUME Init PROVE Inv
  OBVIOUS
<1>1. NoMask \in Masks BY DEF NoMask, Masks
<1>2. TypeOK BY <1>1 DEF Init, TypeOK
<1>3. LatchWithinInterest BY DEF Init, NoMask, LatchWithinInterest
<1>4. QED BY <1>2, <1>3 DEF Inv

LEMMA NextInv == Inv /\ [Next]_vars => Inv'
<1> SUFFICES ASSUME TypeOK, LatchWithinInterest, [Next]_vars
             PROVE  TypeOK' /\ LatchWithinInterest'
  BY DEF Inv
<1>1. ASSUME NEW fd \in Fds, NEW w \in SUBSET Kinds, Set(fd, w)
      PROVE TypeOK' /\ LatchWithinInterest'
  <2>1. TypeOK' BY <1>1 DEF Set, TypeOK, Masks, Touch, PollerVars
  <2>2. LatchWithinInterest' BY <1>1 DEF Set, TypeOK, Masks, LatchWithinInterest
  <2>3. QED BY <2>1, <2>2
<1>2. ASSUME NEW fd \in Fds, Clear(fd)
      PROVE TypeOK' /\ LatchWithinInterest'
  <2>1. TypeOK' BY <1>2 DEF Clear, TypeOK, Masks, Touch, PollerVars
  <2>2. LatchWithinInterest' BY <1>2 DEF Clear, TypeOK, Masks, LatchWithinInterest
  <2>3. QED BY <2>1, <2>2
<1>3. ASSUME NEW fd \in Fds, NEW k \in Kinds, IsSet(fd, k)
      PROVE TypeOK' /\ LatchWithinInterest'
  <2>1. TypeOK' BY <1>3 DEF IsSet, TypeOK, Masks, PollerVars
  <2>2. LatchWithinInterest' BY <1>3 DEF IsSet, TypeOK, Masks, LatchWithinInterest
  <2>3. QED BY <2>1, <2>2
<1>4. CASE Reset
  <2>1. NoMask \in Masks BY DEF NoMask, Masks
  <2>2. TypeOK' BY <1>4, <2>1 DEF Reset, TypeOK, Touch, PollerVars
  <2>3. LatchWithinInterest' BY <1>4 DEF Reset, NoMask, LatchWithinInterest
  <2>4. QED BY <2>2, <2>3
<1>5. CASE Merge
  <2>1. TypeOK' BY <1>5 DEF Merge, TypeOK, Masks
  <2>2. LatchWithinInterest' BY <1>5 DEF Merge, TypeOK, Masks, LatchWithinInterest
  <2>3. QED BY <2>1, <2>2
<1>6. CASE Snapshot
  <2>1. TypeOK' BY <1>6 DEF Snapshot, TypeOK, Masks
  <2>2. LatchWithinInterest' BY <1>6 DEF Snapshot, LatchWithinInterest
  <2>3. QED BY <2>1, <2>2
<1>7. CASE SelectReady
  <2>1. TypeOK' BY <1>7 DEF SelectReady, TypeOK
  <2>2. LatchWithinInterest' BY <1>7 DEF SelectReady, LatchWithinInterest
  <2>3. QED BY <2>1, <2>2
<1>8. CASE LoopTop \/ SelectIdle \/ Push \/ Drain
  <2>1. TypeOK' BY <1>8 DEF LoopTop, SelectIdle, Push, Drain, TypeOK, PollerVars
  <2>2. LatchWithinInterest' BY <1>8 DEF LoopTop, SelectIdle, Push, Drain,
                                        LatchWithinInterest, PollerVars
  <2>3. QED BY <2>1, <2>2
<1>9. CASE DtorFlag \/ DtorLock \/ DtorJoin
  <2>1. TypeOK' BY <1>9 DEF DtorFlag, DtorLock, DtorJoin, TypeOK, PollerVars
  <2>2. LatchWithinInterest' BY <1>9 DEF DtorFlag, DtorLock, DtorJoin,
                                        LatchWithinInterest, PollerVars
  <2>3. QED BY <2>1, <2>2
<1>10. CASE UNCHANGED vars
  BY <1>10 DEF vars, TypeOK, LatchWithinInterest
<1>11. QED
  BY <1>1, <1>2, <1>3, <1>4, <1>5, <1>6, <1>7, <1>8, <1>9, <1>10
  DEF Next, Poller, Parent, Destructor

(* Readiness is only ever latched for a registered interest, whatever      *)
(* Set, Clear, Reset and IsSet run between the poller's snapshot and its   *)
(* merge (csSelect::Entry lines 189-253).                                  *)
THEOREM LatchSafety == Spec => []LatchWithinInterest
<1>1. Inv => LatchWithinInterest BY DEF Inv
<1>2. QED BY InitInv, NextInv, <1>1, PTL DEF Spec

(* csSelect's state keeps its types.                                       *)
THEOREM SelectTypeCorrect == Spec => []TypeOK
<1>1. Inv => TypeOK BY DEF Inv
<1>2. QED BY InitInv, NextInv, <1>1, PTL DEF Spec

-----------------------------------------------------------------------------
(* Refinement of the descriptor table CsSelectTable.                       *)

LEMMA InitRefines == Init => Table!Init
BY DEF Init, Table!Init, NoMask

(* A poller step other than Merge and Push, and every step of the          *)
(* destructor, leaves the table and the notification as they were.         *)
LEMMA StutterSteps ==
    ASSUME LoopTop \/ Snapshot \/ SelectIdle \/ SelectReady \/ DtorFlag \/ DtorLock \/ DtorJoin
    PROVE  UNCHANGED Table!tvars
<1>1. CASE LoopTop \/ Snapshot \/ SelectIdle \/ SelectReady
  <2>1. UNCHANGED <<inMap, interest, latched, pending>> /\ pc # "push" /\ pc' # "push"
    BY <1>1 DEF LoopTop, Snapshot, SelectIdle, SelectReady
  <2>2. QED BY <2>1 DEF Table!tvars
<1>2. CASE DtorFlag \/ DtorLock \/ DtorJoin
  <2>1. UNCHANGED <<inMap, interest, latched, pending, pc>>
    BY <1>2 DEF DtorFlag, DtorLock, DtorJoin, PollerVars
  <2>2. QED BY <2>1 DEF Table!tvars
<1>3. QED BY <1>1, <1>2

LEMMA StepRefines == TypeOK /\ [Next]_vars => [Table!Next]_Table!tvars
<1> SUFFICES ASSUME TypeOK, [Next]_vars PROVE [Table!Next]_Table!tvars
  OBVIOUS
<1>1. ASSUME NEW fd \in Fds, NEW w \in SUBSET Kinds, Set(fd, w)
      PROVE Table!Set(fd, w)
  BY <1>1 DEF Set, Table!Set, PollerVars
<1>2. ASSUME NEW fd \in Fds, Clear(fd) PROVE Table!Clear(fd)
  BY <1>2 DEF Clear, Table!Clear, PollerVars
<1>3. ASSUME NEW fd \in Fds, NEW k \in Kinds, IsSet(fd, k) PROVE Table!IsSet(fd, k)
  BY <1>3 DEF IsSet, Table!IsSet, PollerVars
<1>4. ASSUME Reset PROVE Table!Reset
  BY <1>4 DEF Reset, Table!Reset, NoMask, PollerVars
<1>5. ASSUME Merge PROVE Table!Latch
  <2>1. ready \in Table!Masks BY DEF TypeOK, Masks, Table!Masks
  <2>2. QED BY <1>5, <2>1 DEF Merge, Table!Latch
<1>6. ASSUME Push PROVE UNCHANGED Table!tvars
  BY <1>6 DEF Push, Table!tvars
<1>7. ASSUME Drain, pc = "push" PROVE UNCHANGED Table!tvars
  BY <1>7 DEF Drain, PollerVars, Table!tvars
<1>8. ASSUME Drain, pc # "push" PROVE Table!Drain
  BY <1>8 DEF Drain, PollerVars, Table!Drain
<1>9. CASE UNCHANGED vars
  BY <1>9 DEF vars, Table!tvars
<1>10. QED
  BY <1>1, <1>2, <1>3, <1>4, <1>5, <1>6, <1>7, <1>8, <1>9, StutterSteps
  DEF Next, Poller, Parent, Destructor, Table!Next

(* The poller implements the spec's descriptor table, for any fds and      *)
(* interest bits: although csSelect::Entry snapshots select_fds, calls     *)
(* select() outside select_mutex and merges later, every Merge is one      *)
(* atomic latch of readiness within the CURRENT interest, the parent's     *)
(* Set, Clear, Reset and IsSet are the table's operations, and the SELECT  *)
(* event is pending from that Merge until the parent drains it.            *)
THEOREM TableRefinement == Spec => TableRefined
<1>1. TypeOK /\ [Next]_vars => [Table!Next]_Table!tvars BY StepRefines
<1>2. QED BY InitRefines, <1>1, SelectTypeCorrect, PTL DEF Spec, TableRefined, Table!Spec

=============================================================================
