------------------------------ MODULE CsSelect ------------------------------
(***************************************************************************)
(* The file-descriptor readiness poller of csselect.cpp.                  *)
(*                                                                         *)
(* csSelect owns a thread (Entry) that snapshots the interest map          *)
(* select_fds under select_mutex, calls select() outside the lock, merges  *)
(* the result into the latched map select_events under the lock again and  *)
(* pushes the Exclusive|Persistent SELECT event to its parent.  The parent *)
(* thread calls Set, Clear, Reset and IsSet, each one critical section     *)
(* under select_mutex, and finally the destructor, which raises the exit   *)
(* flag, locks select_mutex and joins the poller while holding it.         *)
(*                                                                         *)
(* An fd is a member of Fds and an interest or readiness bitmask is a      *)
(* subset of Kinds (FDS_READ, FDS_WRITE, FDS_EXCEPT).  Every critical      *)
(* section of the poller and of the parent is one atomic step taken while  *)
(* the mutex is free; only the destructor holds the mutex across steps.    *)
(***************************************************************************)
EXTENDS FiniteSets

CONSTANTS
    Fds,     \* the file descriptors a client may register
    Kinds    \* the interest bits FDS_READ, FDS_WRITE, FDS_EXCEPT

ASSUME FdsAssumption == IsFiniteSet(Fds) /\ Fds # {}

ASSUME KindsAssumption == IsFiniteSet(Kinds) /\ Kinds # {}

VARIABLES
    inMap,     \* the fds that have an entry in select_fds
    interest,  \* select_fds[fd], the interest bitmask ({} when no entry)
    latched,   \* select_events[fd], the latched readiness ({} when none)
    pc,        \* where the poller thread is in Entry()
    snap,      \* fds_read/fds_write/fds_except built by the snapshot
    ready,     \* the sets select() left set
    exitFlag,  \* select_thread_exit # 0
    lock,      \* "dtor" while ~csSelect holds select_mutex, else "free"
    dtor,      \* where the parent is in ~csSelect
    pending,   \* a SELECT event is queued in the parent's inbox
    dirty      \* ghost: fds whose interest changed since the poller's snapshot

vars == <<inMap, interest, latched, pc, snap, ready, exitFlag, lock, dtor,
          pending, dirty>>

Masks == [Fds -> SUBSET Kinds]

NoMask == [f \in Fds |-> {}]

TypeOK ==
    /\ inMap \subseteq Fds
    /\ interest \in Masks
    /\ latched \in Masks
    /\ pc \in {"top", "snap", "select", "merge", "push", "exited"}
    /\ snap \in Masks
    /\ ready \in Masks
    /\ exitFlag \in BOOLEAN
    /\ lock \in {"free", "dtor"}
    /\ dtor \in {"idle", "flagged", "locked", "done"}
    /\ pending \in BOOLEAN
    /\ dirty \subseteq Fds

(* csSelect::csSelect: Reset() empties both maps, then the thread starts.  *)
Init ==
    /\ inMap = {}
    /\ interest = NoMask
    /\ latched = NoMask
    /\ pc = "top"
    /\ snap = NoMask
    /\ ready = NoMask
    /\ exitFlag = FALSE
    /\ lock = "free"
    /\ dtor = "idle"
    /\ pending = FALSE
    /\ dirty = {}

(* A change of interest while a snapshot is in use by select() or the     *)
(* merge is recorded in the ghost dirty.                                   *)
Touch(F) == IF pc \in {"select", "merge"} THEN dirty \cup F ELSE dirty

PollerVars == <<pc, snap, ready>>

-----------------------------------------------------------------------------
(* The parent's calls.  The parent is the thread that later runs the      *)
(* destructor, so it makes no call once the destructor has begun.          *)

(* Mutant of Set: the latched readiness of fd is kept.                     *)
SetKeepsLatch(fd, whence) ==
    /\ dtor = "idle"
    /\ lock = "free"
    /\ inMap' = inMap \cup {fd}
    /\ interest' = [interest EXCEPT ![fd] = IF fd \in inMap THEN @ \cup whence
                                                            ELSE whence]
    /\ dirty' = Touch({fd})
    /\ UNCHANGED <<latched, PollerVars, exitFlag, lock, dtor, pending>>

(* csSelect::Set: OR whence into the entry (or create it), then erase the  *)
(* latched readiness of fd.                                                *)
Set(fd, whence) ==
    /\ dtor = "idle"
    /\ lock = "free"
    /\ inMap' = inMap \cup {fd}
    /\ interest' = [interest EXCEPT ![fd] = IF fd \in inMap THEN @ \cup whence
                                                            ELSE whence]
    /\ latched' = [latched EXCEPT ![fd] = {}]
    /\ dirty' = Touch({fd})
    /\ UNCHANGED <<PollerVars, exitFlag, lock, dtor, pending>>

(* csSelect::Clear: erase both entries of fd, whatever whence says.        *)
Clear(fd) ==
    /\ dtor = "idle"
    /\ lock = "free"
    /\ inMap' = inMap \ {fd}
    /\ interest' = [interest EXCEPT ![fd] = {}]
    /\ latched' = [latched EXCEPT ![fd] = {}]
    /\ dirty' = Touch({fd})
    /\ UNCHANGED <<PollerVars, exitFlag, lock, dtor, pending>>

(* csSelect::Reset: clear both maps.                                       *)
Reset ==
    /\ dtor = "idle"
    /\ lock = "free"
    /\ inMap' = {}
    /\ interest' = NoMask
    /\ latched' = NoMask
    /\ dirty' = Touch(Fds)
    /\ UNCHANGED <<PollerVars, exitFlag, lock, dtor, pending>>

(* csSelect::IsSet: report and clear one latched bit.                      *)
IsSet(fd, whence) ==
    /\ dtor = "idle"
    /\ lock = "free"
    /\ whence \in latched[fd]
    /\ latched' = [latched EXCEPT ![fd] = @ \ {whence}]
    /\ UNCHANGED <<inMap, interest, PollerVars, exitFlag, lock, dtor,
                   pending, dirty>>

(* The parent pops the SELECT event from its inbox.                        *)
Drain ==
    /\ pending
    /\ pending' = FALSE
    /\ UNCHANGED <<inMap, interest, latched, PollerVars, exitFlag, lock,
                   dtor, dirty>>

-----------------------------------------------------------------------------
(* The poller thread, csSelect::Entry.                                     *)

(* The while condition reads select_thread_exit.                           *)
LoopTop ==
    /\ pc = "top"
    /\ pc' = IF exitFlag THEN "exited" ELSE "snap"
    /\ UNCHANGED <<inMap, interest, latched, snap, ready, exitFlag, lock,
                   dtor, pending, dirty>>

(* Lines 189-208: under select_mutex put every interest bit in the fd     *)
(* sets and compute max_fd; with no entry, sleep and loop again.           *)
Snapshot ==
    /\ pc = "snap"
    /\ lock = "free"
    /\ snap' = [f \in Fds |-> IF f \in inMap THEN interest[f] ELSE {}]
    /\ pc' = IF inMap = {} THEN "top" ELSE "select"
    /\ dirty' = {}
    /\ UNCHANGED <<inMap, interest, latched, ready, exitFlag, lock, dtor,
                   pending>>

(* select() fails (rc == -1, logged, sleep) or times out (rc == 0): loop.  *)
SelectIdle ==
    /\ pc = "select"
    /\ pc' = "top"
    /\ UNCHANGED <<inMap, interest, latched, snap, ready, exitFlag, lock,
                   dtor, pending, dirty>>

(* select() returns rc > 0: some of the requested bits are ready.          *)
SelectReady ==
    /\ pc = "select"
    /\ \E r \in Masks :
          /\ \A f \in Fds : r[f] \subseteq snap[f]
          /\ \E f \in Fds : r[f] # {}
          /\ ready' = r
    /\ pc' = "merge"
    /\ UNCHANGED <<inMap, interest, latched, snap, exitFlag, lock, dtor,
                   pending, dirty>>

(* Mutant of Merge: every ready bit of the snapshot is latched, without    *)
(* looking up the fd's current entry and interest.                         *)
MergeSnapshot ==
    /\ pc = "merge"
    /\ lock = "free"
    /\ latched' = [f \in Fds |-> latched[f] \cup ready[f]]
    /\ pc' = "push"
    /\ dirty' = {}
    /\ UNCHANGED <<inMap, interest, snap, ready, exitFlag, lock, dtor, pending>>

(* Lines 224-253: under select_mutex, for every entry of the CURRENT       *)
(* select_fds, OR each bit that is both in its interest and ready into     *)
(* select_events.                                                          *)
Merge ==
    /\ pc = "merge"
    /\ lock = "free"
    /\ latched' = [f \in Fds |-> IF f \in inMap
                                 THEN latched[f] \cup (interest[f] \cap ready[f])
                                 ELSE latched[f]]
    /\ pc' = "push"
    /\ dirty' = {}
    /\ UNCHANGED <<inMap, interest, snap, ready, exitFlag, lock, dtor, pending>>

(* Line 255: push the Exclusive|Persistent SELECT event; at most one is   *)
(* ever queued, so a push onto a queued one changes nothing.               *)
Push ==
    /\ pc = "push"
    /\ pending' = TRUE
    /\ pc' = "top"
    /\ UNCHANGED <<inMap, interest, latched, snap, ready, exitFlag, lock,
                   dtor, dirty>>

-----------------------------------------------------------------------------
(* csSelect::~csSelect, run by the parent.                                 *)

(* Line 84: raise the exit flag.                                           *)
DtorFlag ==
    /\ dtor = "idle"
    /\ dtor' = "flagged"
    /\ exitFlag' = TRUE
    /\ UNCHANGED <<inMap, interest, latched, PollerVars, lock, pending, dirty>>

(* Line 86: take select_mutex.                                             *)
DtorLock ==
    /\ dtor = "flagged"
    /\ lock = "free"
    /\ lock' = "dtor"
    /\ dtor' = "locked"
    /\ UNCHANGED <<inMap, interest, latched, PollerVars, exitFlag, pending,
                   dirty>>

(* Lines 88-93: pthread_join returns once Entry has returned; unlock.      *)
DtorJoin ==
    /\ dtor = "locked"
    /\ pc = "exited"
    /\ dtor' = "done"
    /\ lock' = "free"
    /\ UNCHANGED <<inMap, interest, latched, PollerVars, exitFlag, pending,
                   dirty>>

Poller == LoopTop \/ Snapshot \/ SelectIdle \/ SelectReady \/ Merge \/ Push

Parent ==
    \/ \E fd \in Fds :
          \/ \E w \in SUBSET Kinds : Set(fd, w)
          \/ Clear(fd)
          \/ \E k \in Kinds : IsSet(fd, k)
    \/ Reset
    \/ Drain

Destructor == DtorFlag \/ DtorLock \/ DtorJoin

Next == Poller \/ Parent \/ Destructor

(* Both threads are OS threads: each keeps taking steps while it can.      *)
(* The parent's calls are its choice, so only its destructor is fair once  *)
(* it has begun.                                                           *)
Spec == Init /\ [][Next]_vars /\ WF_vars(Poller)
        /\ WF_vars(DtorLock) /\ WF_vars(DtorJoin)

-----------------------------------------------------------------------------
(* Properties.                                                             *)

(* Readiness is only ever latched for a registered interest: select_events *)
(* never holds a bit that select_fds does not, although the poller merges  *)
(* select() results taken on a snapshot while the parent's Set, Clear and  *)
(* Reset run between the snapshot and the merge.                           *)
LatchWithinInterest ==
    \A f \in Fds : latched[f] \subseteq interest[f] /\ (latched[f] # {} => f \in inMap)

(* Set(fd, x) clears any latched readiness for fd (spec, poller descriptor *)
(* table): no step latches for fd a readiness that select() observed on a  *)
(* snapshot taken before the last Set or Clear of fd.                      *)
SetClearsLatch ==
    [][\A f \in dirty : latched'[f] \subseteq latched[f]]_vars

(* The poller implements the descriptor table of the spec: every step of   *)
(* the parent's calls is the table operation, every Merge latches the      *)
(* readiness select() saw within the CURRENT interest as one atomic step,  *)
(* and the SELECT event counts as pending from the Merge on, so that a     *)
(* Drain between Merge and Push changes nothing the parent can observe.    *)
Table == INSTANCE CsSelectTable WITH pending <- pending \/ pc = "push"

TableRefined == Table!Spec

(* ~csSelect returns: once it has raised the exit flag it joins the poller *)
(* and releases select_mutex.                                              *)
DestructorReturns == dtor = "flagged" ~> dtor = "done"

=============================================================================
