---------------------------- MODULE CsSelectTable ----------------------------
(***************************************************************************)
(* What the fd readiness poller promises its parent (spec: poller          *)
(* descriptor table, section 4.5), independent of the poller thread, its   *)
(* snapshot and select():                                                  *)
(*                                                                         *)
(*   - a table from fd to its interest bits, and the latched readiness;    *)
(*   - Set(fd, x) adds interest and clears the fd's latched readiness,     *)
(*     Clear(fd) and Reset remove interest and readiness, IsSet reads and  *)
(*     clears one latched bit;                                             *)
(*   - readiness is latched atomically, ORed into the existing bits, and   *)
(*     only for the CURRENT interest of a registered fd; a latch leaves    *)
(*     one SELECT event pending (Exclusive|Persistent) until the parent    *)
(*     drains it.                                                          *)
(***************************************************************************)
CONSTANTS
    Fds,     \* the file descriptors a client may register
    Kinds    \* the interest bits

VARIABLES
    inMap,     \* the registered fds
    interest,  \* the interest bits of each fd ({} when not registered)
    latched,   \* the latched readiness of each fd
    pending    \* a SELECT event is pending in the parent's inbox

tvars == <<inMap, interest, latched, pending>>

Masks == [Fds -> SUBSET Kinds]

Init ==
    /\ inMap = {}
    /\ interest = [f \in Fds |-> {}]
    /\ latched = [f \in Fds |-> {}]
    /\ pending = FALSE

Set(fd, whence) ==
    /\ inMap' = inMap \cup {fd}
    /\ interest' = [interest EXCEPT ![fd] = IF fd \in inMap THEN @ \cup whence
                                                            ELSE whence]
    /\ latched' = [latched EXCEPT ![fd] = {}]
    /\ UNCHANGED pending

Clear(fd) ==
    /\ inMap' = inMap \ {fd}
    /\ interest' = [interest EXCEPT ![fd] = {}]
    /\ latched' = [latched EXCEPT ![fd] = {}]
    /\ UNCHANGED pending

Reset ==
    /\ inMap' = {}
    /\ interest' = [f \in Fds |-> {}]
    /\ latched' = [f \in Fds |-> {}]
    /\ UNCHANGED pending

IsSet(fd, whence) ==
    /\ whence \in latched[fd]
    /\ latched' = [latched EXCEPT ![fd] = @ \ {whence}]
    /\ UNCHANGED <<inMap, interest, pending>>

(* The OS reports readiness r; what the current interest asks for is       *)
(* latched, and the parent is notified.                                    *)
Latch ==
    /\ \E r \in Masks :
          latched' = [f \in Fds |-> IF f \in inMap
                                    THEN latched[f] \cup (interest[f] \cap r[f])
                                    ELSE latched[f]]
    /\ pending' = TRUE
    /\ UNCHANGED <<inMap, interest>>

(* The parent takes the SELECT event.                                      *)
Drain ==
    /\ pending
    /\ pending' = FALSE
    /\ UNCHANGED <<inMap, interest, latched>>

Next ==
    \/ \E fd \in Fds :
          \/ \E w \in SUBSET Kinds : Set(fd, w)
          \/ Clear(fd)
          \/ \E k \in Kinds : IsSet(fd, k)
    \/ Reset
    \/ Latch
    \/ Drain

Spec == Init /\ [][Next]_tvars

=============================================================================
