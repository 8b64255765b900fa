----------------------------- MODULE CsPluginHost -----------------------------
(***************************************************************************)
(* What the plugin host promises (spec: event filter table, plugin host    *)
(* section 4.7, and the QUIT rule of the event bus), independent of the    *)
(* signal handler, the filter vectors and the inbox implementation:        *)
(*                                                                         *)
(*   - the supervisor's inbox takes PLUGIN events from loaded plugins and  *)
(*     RELOAD events, and hands them over in the order they arrived;       *)
(*   - a PLUGIN event from src puts one clone in the inbox of every loaded *)
(*     plugin other than src whose filter names src, and nothing else;     *)
(*   - QUIT is HighPriority: once it is broadcast no further event is      *)
(*     routed, and the host stops only after a QUIT.                       *)
(***************************************************************************)
EXTENDS Naturals, Sequences

CONSTANTS
    Plugins,  \* the plugins declared in the configuration
    Loaded,   \* the plugins running
    Names     \* Names[s]: the plugin names s's event-filter text lists

VARIABLES
    queue,      \* the supervisor inbox's normal events, oldest first
    delivered,  \* delivered[s][src]: clones of src's events in s's inbox
    quitReq,    \* QUIT has been broadcast
    stopped     \* the host's loop has returned

hvars == <<queue, delivered, quitReq, stopped>>

Subscribers(src) == {s \in Loaded \ {src} : src \in Names[s]}

Init ==
    /\ queue = << >>
    /\ delivered = [s \in Plugins |-> [p \in Plugins |-> 0]]
    /\ quitReq = FALSE
    /\ stopped = FALSE

(* A loaded plugin emits a PLUGIN event to the supervisor.                 *)
Emit(p) ==
    /\ p \in Loaded
    /\ queue' = Append(queue, [id |-> "PLUGIN", src |-> p])
    /\ UNCHANGED <<delivered, quitReq, stopped>>

(* A RELOAD is broadcast.                                                  *)
Reload ==
    /\ queue' = Append(queue, [id |-> "RELOAD", src |-> "none"])
    /\ UNCHANGED <<delivered, quitReq, stopped>>

(* A QUIT is broadcast.                                                    *)
Quit ==
    /\ ~quitReq
    /\ quitReq' = TRUE
    /\ UNCHANGED <<queue, delivered, stopped>>

(* The oldest event is taken; a PLUGIN event is cloned to every           *)
(* subscriber of its source, a RELOAD changes nothing.                     *)
Route ==
    /\ ~stopped
    /\ ~quitReq
    /\ queue # << >>
    /\ queue' = Tail(queue)
    /\ LET ev == Head(queue) IN
          delivered' =
             [s \in Plugins |->
                IF ev.id = "PLUGIN" /\ s \in Subscribers(ev.src)
                THEN [delivered[s] EXCEPT ![ev.src] = @ + 1]
                ELSE delivered[s]]
    /\ UNCHANGED <<quitReq, stopped>>

(* The host returns on QUIT.                                               *)
Stop ==
    /\ ~stopped
    /\ quitReq
    /\ stopped' = TRUE
    /\ UNCHANGED <<queue, delivered, quitReq>>

Next ==
    \/ \E p \in Plugins : Emit(p)
    \/ Reload
    \/ Quit
    \/ Route
    \/ Stop

Spec == Init /\ [][Next]_hvars

=============================================================================
