------------------------------- MODULE CsMain -------------------------------
(***************************************************************************)
(* The supervisor of csmain.cpp: the signal-handler thread                 *)
(* (csSignalHandler::Entry and Reaper) and the main thread's event loop    *)
(* (csMain::Run), which routes PLUGIN events through the event-filter      *)
(* table built by ParseEventFilter (DispatchPluginEvent).                  *)
(*                                                                         *)
(* A plugin is a member of Plugins; its <event-filter> text is RawFilter,  *)
(* the sequence of its '|'-separated atoms, where an atom is a plugin name *)
(* (already trimmed and case-folded), "EMPTY" (nothing between two bars)   *)
(* or "SPACES" (only blanks between two bars).  Signals are named by the   *)
(* strings of Sigs and are delivered by sigwaitinfo lowest number first,   *)
(* as Linux does for standard signals.                                     *)
(***************************************************************************)
EXTENDS Integers, Sequences, FiniteSets

CONSTANTS
    Plugins,      \* the plugins declared in the configuration
    Loaded,       \* the plugins whose loader succeeded
    RawFilter,    \* RawFilter[p]: the atoms of p's event-filter text
    MaxEmits,     \* the most PLUGIN events one plugin emits
    MaxChildren   \* the most zombie children at once

Atoms == Plugins \cup {"EMPTY", "SPACES"}

ASSUME PluginsAssumption ==
    /\ IsFiniteSet(Plugins)
    /\ Loaded \subseteq Plugins
    /\ RawFilter \in [Plugins -> Seq(Atoms)]
    /\ "EMPTY" \notin Plugins /\ "SPACES" \notin Plugins /\ "" \notin Plugins

ASSUME BoundsAssumption ==
    MaxEmits \in Nat /\ MaxChildren \in Nat

(* The signal set of csMain::csMain, lines 437-445; SIGALRM, SIGUSR1 and   *)
(* SIGUSR2 share one behaviour and are represented by "USR1".              *)
Sigs == {"HUP", "INT", "USR1", "PIPE", "TERM", "CHLD"}

SigNum == [s \in Sigs |->
             CASE s = "HUP" -> 1 [] s = "INT" -> 2 [] s = "USR1" -> 10
               [] s = "PIPE" -> 13 [] s = "TERM" -> 15 [] s = "CHLD" -> 17]

VARIABLES
    pending,    \* signals pending for the process
    raised,     \* ghost: the external signals sent so far
    zombies,    \* exited children not yet waited for
    sig,        \* the signal handler: "wait" or "exited"
    quit,       \* a QUIT is queued in the main inbox (sticky, high priority)
    mainQ,      \* the main inbox's normal-priority events
    reloads,    \* RELOAD events broadcast so far
    run,        \* the main thread: "run" or "returned"
    emits,      \* PLUGIN events each plugin has emitted
    processed,  \* ghost: PLUGIN events from each plugin that Run dispatched
    got         \* got[s][src]: PLUGIN events from src put in s's inbox

vars == <<pending, raised, zombies, sig, quit, mainQ, reloads, run, emits,
          processed, got>>

Event == [id : {"RELOAD", "PLUGIN"}, src : Plugins \cup {"none"}]

TypeOK ==
    /\ pending \subseteq Sigs
    /\ raised \subseteq Sigs
    /\ zombies \in 0..MaxChildren
    /\ sig \in {"wait", "exited"}
    /\ quit \in BOOLEAN
    /\ mainQ \in Seq(Event)
    /\ reloads \in Nat
    /\ run \in {"run", "returned"}
    /\ emits \in [Plugins -> 0..MaxEmits]
    /\ processed \in [Plugins -> Nat]
    /\ got \in [Plugins -> [Plugins -> Nat]]

Init ==
    /\ pending = {}
    /\ raised = {}
    /\ zombies = 0
    /\ sig = "wait"
    /\ quit = FALSE
    /\ mainQ = << >>
    /\ reloads = 0
    /\ run = "run"
    /\ emits = [p \in Plugins |-> 0]
    /\ processed = [p \in Plugins |-> 0]
    /\ got = [s \in Plugins |-> [p \in Plugins |-> 0]]

-----------------------------------------------------------------------------
(* csMain::ParseEventFilter: the filter list of p.  Empty atoms are        *)
(* skipped; an atom of blanks trims to the empty name ""; p's own name is  *)
(* rejected with a warning.  The vector plugin_event_filter[p] holds the   *)
(* trimmed atoms of the positions Kept(p) of the raw list, in their order; *)
(* it is the function from those positions to their entries.              *)
Trimmed(a) == IF a = "SPACES" THEN "" ELSE a

Kept(p) ==
    {k \in 1..Len(RawFilter[p]) :
        RawFilter[p][k] # "EMPTY" /\ Trimmed(RawFilter[p][k]) # p}

ParsedFilter(p) == [k \in Kept(p) |-> Trimmed(RawFilter[p][k])]

(* csMain::DispatchPluginEvent: the subscribers that get one clone of a    *)
(* PLUGIN event from src: every loaded plugin with a filter entry matching *)
(* src (the loop over the entries breaks at the first match).              *)
Receivers(src) ==
    {s \in Loaded : \E k \in DOMAIN ParsedFilter(s) : ParsedFilter(s)[k] = src}

(* DispatchPerEntry is the mutant without the break: one clone per        *)
(* matching entry, so a duplicated name gives two.                         *)
DispatchPerEntry(src) ==
    got' = [s \in Plugins |->
              IF s \in Receivers(src)
              THEN [got[s] EXCEPT ![src] =
                      @ + Cardinality({k \in DOMAIN ParsedFilter(s) :
                                          ParsedFilter(s)[k] = src})]
              ELSE got[s]]

DispatchPluginEvent(src) ==
    got' = [s \in Plugins |->
              IF s \in Receivers(src)
              THEN [got[s] EXCEPT ![src] = @ + 1] ELSE got[s]]

-----------------------------------------------------------------------------
(* The environment and the plugins.                                        *)

(* A signal is sent to the process (each one once, to keep runs finite).   *)
Raise(s) ==
    /\ s \in Sigs \ {"CHLD"}
    /\ s \notin raised
    /\ raised' = raised \cup {s}
    /\ pending' = pending \cup {s}
    /\ UNCHANGED <<zombies, sig, quit, mainQ, reloads, run, emits, processed,
                   got>>

(* A child process exits: SIGCHLD becomes pending (pending signals do not  *)
(* queue, so several exits may share one SIGCHLD).                         *)
ChildExit ==
    /\ zombies < MaxChildren
    /\ zombies' = zombies + 1
    /\ pending' = pending \cup {"CHLD"}
    /\ UNCHANGED <<raised, sig, quit, mainQ, reloads, run, emits, processed,
                   got>>

(* A loaded plugin emits a PLUGIN event to its parent, the main thread.    *)
Emit(p) ==
    /\ p \in Loaded
    /\ emits[p] < MaxEmits
    /\ emits' = [emits EXCEPT ![p] = @ + 1]
    /\ mainQ' = Append(mainQ, [id |-> "PLUGIN", src |-> p])
    /\ UNCHANGED <<pending, raised, zombies, sig, quit, reloads, run,
                   processed, got>>

(* Another service (the timer thread's failing sigtimedwait) broadcasts    *)
(* QUIT.                                                                   *)
ServiceQuit ==
    /\ ~quit
    /\ quit' = TRUE
    /\ UNCHANGED <<pending, raised, zombies, sig, mainQ, reloads, run, emits,
                   processed, got>>

-----------------------------------------------------------------------------
(* The signal handler, csSignalHandler::Entry.                             *)

(* sigwaitinfo returns the lowest-numbered pending signal.                 *)
Delivered(s) == s \in pending /\ \A t \in pending : SigNum[s] <= SigNum[t]

(* The pending signal s is taken by sigwaitinfo.                           *)
Take(s) ==
    /\ sig = "wait"
    /\ Delivered(s)
    /\ pending' = pending \ {s}

(* SigQuitSilent is the mutant that returns without the broadcast.       *)
SigQuitSilent ==
    \E s \in {"INT", "TERM"} :
        /\ Take(s)
        /\ sig' = "exited"
        /\ UNCHANGED <<quit, raised, zombies, mainQ, reloads, run, emits,
                       processed, got>>

(* SIGINT, SIGTERM: broadcast QUIT (Sticky|HighPriority) and return.       *)
SigQuit ==
    \E s \in {"INT", "TERM"} :
        /\ Take(s)
        /\ quit' = TRUE
        /\ sig' = "exited"
        /\ UNCHANGED <<raised, zombies, mainQ, reloads, run, emits, processed,
                       got>>

(* SIGHUP: broadcast RELOAD.                                               *)
SigReload ==
    /\ Take("HUP")
    /\ reloads' = reloads + 1
    /\ mainQ' = Append(mainQ, [id |-> "RELOAD", src |-> "none"])
    /\ UNCHANGED <<raised, zombies, sig, quit, run, emits, processed, got>>

(* ReaperOnce is the mutant of Reaper that waits for one child per signal. *)
ReaperOnce == zombies' = zombies - 1

(* csSignalHandler::Reaper: waitpid(-1, WNOHANG) until it returns 0.       *)
Reaper == zombies' = 0

(* SIGCHLD: reap.                                                          *)
SigChild ==
    /\ Take("CHLD")
    /\ Reaper
    /\ UNCHANGED <<raised, sig, quit, mainQ, reloads, run, emits, processed,
                   got>>

(* Any other signal is logged as unhandled.                                *)
SigOther ==
    \E s \in {"USR1", "PIPE"} :
        /\ Take(s)
        /\ UNCHANGED <<raised, zombies, sig, quit, mainQ, reloads, run, emits,
                       processed, got>>

(* sigwaitinfo fails with an errno other than EINTR: broadcast QUIT and    *)
(* return.  (EINTR sleeps 100 ms and waits again, which changes nothing.)  *)
SigFail ==
    /\ sig = "wait"
    /\ quit' = TRUE
    /\ sig' = "exited"
    /\ UNCHANGED <<pending, raised, zombies, mainQ, reloads, run, emits,
                   processed, got>>

Handler == SigQuit \/ SigReload \/ SigChild \/ SigOther

-----------------------------------------------------------------------------
(* The main thread, csMain::Run.                                           *)

(* EventPopWait returns the high-priority QUIT first: Run returns.         *)
RunQuit ==
    /\ run = "run"
    /\ quit
    /\ run' = "returned"
    /\ UNCHANGED <<pending, raised, zombies, sig, quit, mainQ, reloads, emits,
                   processed, got>>

(* RunEventIgnoresQuit is the mutant that pops normal events without       *)
(* letting the queued QUIT overtake them.                                  *)
RunEventIgnoresQuit ==
    /\ run = "run"
    /\ mainQ # << >>
    /\ LET ev == Head(mainQ) IN
       IF ev.id = "PLUGIN"
       THEN /\ DispatchPluginEvent(ev.src)
            /\ processed' = [processed EXCEPT ![ev.src] = @ + 1]
       ELSE UNCHANGED <<got, processed>>
    /\ mainQ' = Tail(mainQ)
    /\ UNCHANGED <<pending, raised, zombies, sig, quit, reloads, run, emits>>

(* EventPopWait returns a normal event: RELOAD is ignored (the reload is   *)
(* commented out), PLUGIN is dispatched through the filter table.          *)
RunEvent ==
    /\ run = "run"
    /\ ~quit
    /\ mainQ # << >>
    /\ LET ev == Head(mainQ) IN
       IF ev.id = "PLUGIN"
       THEN /\ DispatchPluginEvent(ev.src)
            /\ processed' = [processed EXCEPT ![ev.src] = @ + 1]
       ELSE UNCHANGED <<got, processed>>
    /\ mainQ' = Tail(mainQ)
    /\ UNCHANGED <<pending, raised, zombies, sig, quit, reloads, run, emits>>

Main == RunQuit \/ RunEvent

Next ==
    \/ Handler \/ SigFail \/ Main
    \/ ChildExit \/ ServiceQuit
    \/ \E s \in Sigs : Raise(s)
    \/ \E p \in Plugins : Emit(p)

(* Both threads block in calls that return when work is there              *)
(* (sigwaitinfo, EventPopWait), so each keeps taking its steps.  A         *)
(* failure of sigwaitinfo is not something the thread is bound to do.      *)
Spec == Init /\ [][Next]_vars /\ WF_vars(Handler) /\ WF_vars(Main)

-----------------------------------------------------------------------------
(* Properties.                                                             *)

(* The plugins that subscribe to src according to the spec: a loaded       *)
(* plugin, other than src, whose filter text names src.                    *)
Subscribers(src) ==
    {s \in Loaded \ {src} : \E k \in 1..Len(RawFilter[s]) : RawFilter[s][k] = src}

(* PLUGIN events are routed by the filter table (spec, plugin host): each  *)
(* event Run has dispatched from src put exactly one copy in the inbox of  *)
(* every subscriber of src, none in any other, and never one in src's own, *)
(* whatever duplicates, blank atoms and self-references the filter text    *)
(* holds.                                                                  *)
RoutedOncePerSubscriber ==
    \A s, src \in Plugins :
        got[s][src] = IF s \in Subscribers(src) THEN processed[src] ELSE 0

(* The supervisor implements the abstract plugin host of CsPluginHost: its *)
(* inbox is the host's queue, the clones are the host's deliveries, the    *)
(* QUIT flag is the broadcast QUIT and Run's return is the host's stop; a  *)
(* filter text names the plugins among its atoms.                          *)
Host == INSTANCE CsPluginHost
          WITH queue <- mainQ, delivered <- got, quitReq <- quit,
               stopped <- (run = "returned"),
               Names <- [s \in Plugins |->
                           {RawFilter[s][k] : k \in 1..Len(RawFilter[s])}]

(* Every behaviour of the supervisor is one of the abstract host: events   *)
(* are routed in arrival order, each PLUGIN event to exactly the           *)
(* subscribers of its source, none once QUIT is queued, and Run returns    *)
(* only after a QUIT.                                                      *)
HostRefined == Host!Spec

(* SIGINT and SIGTERM stop the main loop (spec scenario F): once one is    *)
(* pending, Run eventually returns, whatever other signals are pending.    *)
TermStopsRun ==
    ({"INT", "TERM"} \cap pending # {}) ~> (run = "returned")

(* Children are reaped (spec, signal supervisor): every zombie is          *)
(* eventually waited for while the handler runs, although SIGCHLDs of      *)
(* several exits coalesce into one.                                        *)
ZombiesReaped ==
    (zombies > 0) ~> (zombies = 0 \/ sig = "exited")

=============================================================================
