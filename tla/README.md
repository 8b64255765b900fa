# Formal models of clearsync's event and concurrency substrate

This directory holds TLA+ models of the services in `src/` of clearsync, the
TLC configurations that model-check them, and TLAPS proofs of their main
invariants. `PROJECT.json` lists the components, the runs, the mutants, the
map from every definition to the source lines it translates, the findings,
the hazards and the theorems.

## The system

clearsyncd is one process of parallel OS threads that talk through event
inboxes (`csEventClient`, in `csevent.cpp`, which is not part of `src/`):

| Part | Source | Threads and state |
|------|--------|-------------------|
| C1 event bus | (not in `src/`) | one inbox per client: priority, sticky QUIT, Exclusive events |
| C2 worker | (not in `src/`) | `csThread`: Start/Join, an `Entry` loop per service |
| C3 signal supervisor | `csmain.cpp` 86-148 | `sigwaitinfo` loop; QUIT, RELOAD, reaping |
| C4 timer service | `cstimer.cpp`, `cstimer.h` | `timer_vector` under `vector_mutex`; per-timer `timer_mutex`; the timer thread's `Tick` |
| C5 fd poller | `csselect.cpp`, `csselect.h` | `select_fds`, `select_events` under `select_mutex`; the poller thread |
| C6 netlink service | `csnetlink.cpp`, `csnetlink.h` | `event_client` (in-flight table), `nl_seq`; the netlink thread |
| C7 plugin host | `csmain.cpp` 492-608 | the filter table, `DispatchPluginEvent`, the main `Run` loop |
| configuration loading | `csmain.cpp` 153-327, 484-490 | `csMainXmlParser`'s element handlers, `csMainConf` (version, `plugin_dir`), `ScanPlugins`, `Reload` |

The services interact only through events:
- the timer thread dispatches TIMER events;
- the poller pushes one Exclusive|Persistent SELECT event to its parent;
- the netlink thread re-dispatches the client's own NETLINK event with each reply;
- every thread honours the sticky high-priority QUIT that the supervisor broadcasts on SIGINT/SIGTERM.

Within a service, the owner's method calls and the service thread run
concurrently and share state under the locks named above. This concurrency
is what the models are about.

## Modules

Each service module states the service's state as VARIABLES, one action per
method or per step of its thread, and a `Spec` with the fairness of its
threads. Each `MC*` module only declares the model values for TLC.

### CsTimer (C4)

- **State:**
  - each timer's `life` (constructed, in the destructor, destroyed), `running`, `value` and `interval`;
  - `timerVec` (`timer_vector`);
  - the timer thread's `ticker` position in `Entry`, and `pos`, the iterator of `Tick`;
  - `quit` (a QUIT queued for the thread) and `now` (ticks so far, bounded by `MaxTicks`).
- **Owner actions:** `Create`, `Start`, `Stop`, `SetValue`, `SetInterval`, `Extend`, and the destructor's two halves, `DestroyStop` and `RemoveTimer`. Each is one critical section. `RemoveTimer` and `AddTimer` wait for `vector_mutex`, which `Tick` holds from `TickBegin` to `TickEnd`.
- **Ticker actions:** `ArmTick` arms the OS timer with `timer_settime`; `armed` records whether that call succeeded, which the code never tests (cstimer.cpp:171, `if (timer_settime(...) , 0)`). Then `PopQuit`/`PopNone` (EventPop), then `TickBegin`, `WaitAgain` or `WaitFail` (the outcomes of `sigtimedwait`). Between `TickBegin` and `TickEnd`, `TickStep` handles one timer under its `timer_mutex`: decrement, fire test, reload (`Fires`, `Reload`, `Rearm`).
- **Ghost variables** (not in the code), used to state the spec's schedule:
  - `visits`: visits of each timer in the current tick;
  - `clean`: whether the timer is untouched since its last `Start`;
  - `sched`: the value and interval it was started with, the decrements since, and the fires since.

### CsSelect (C5)

- **State:**
  - `inMap` and `interest` (`select_fds`), `latched` (`select_events`);
  - the poller's `pc`, its `snap` (the fd sets) and `ready` (what `select()` returned);
  - `exitFlag`, `lock` (held across steps only by the destructor) and `dtor`;
  - `pending` (a SELECT event is queued for the parent).
- **Parent actions:** `Set`, `Clear`, `Reset`, `IsSet`, `Drain`.
- **Poller actions:** `LoopTop`, `Snapshot`, `SelectIdle` (rc <= 0), `SelectReady`, `Merge`, `Push`. The model has no descriptor close. So the case where an fd is closed without `Clear`, and `select()` then fails with EBADF on every pass and stops all readiness reports, is a listed hazard that no property checks.
- **Destructor actions:** `DtorFlag`, `DtorLock`, `DtorJoin`.
- **The OS:** `select()` is a nondeterministic non-empty choice of bits among the snapshot.
- **Ghost:** `dirty` holds the fds whose interest changed since the snapshot in use.

### CsSelectTable (abstract descriptor table)

What the poller promises its parent (spec: poller descriptor table, section
4.5), without the poller thread, the snapshot or `select()`:
- **State:** `inMap`, `interest`, `latched`, and `pending` (a SELECT event waits in the parent's inbox).
- **Actions:**
  - `Set` adds interest and clears the fd's latch;
  - `Clear` and `Reset` remove interest and latch;
  - `IsSet` reads and clears one latched bit;
  - `Latch` ORs some OS readiness, cut to the current interest of each registered fd, into the latches, and leaves a SELECT event pending;
  - `Drain` takes that event.

`CsSelect` implements it under the mapping `pending <- pending \/ pc = "push"`.
The poller's own table variables map to themselves. A poller that has merged
but not yet pushed has already committed to notifying the parent. So its
`Merge` is the abstract `Latch`, its `Push` is a stutter, and a `Drain` before
the push is a stutter too. The snapshot, `select()` and the destructor's steps
are stutters. The property `TableRefined` is `Table!Spec`.

### CsNetlink (C6)

- **State:**
  - `inbox` (NETLINK events queued for the netlink thread) and `quit`;
  - `table` (`event_client`), `seqOf` (`query_seq`) and `nlSeq`;
  - `thread` (running or exited).
- **The kernel:** an environment holding `reqs` (requests sent and not yet answered) and `wire` (messages queued on the socket).
- **Ghost variables:**
  - `sentData`: dump parts produced for each query;
  - `recv`: the replies dispatched to each caller;
  - `destroyed`: watches whose client is gone.
- **Thread actions:**
  - `Receive` covers one message, by `ReplyRoute`, `ReplyQuery` or `ReplyUnmatched`, the three paths of `SendNetlinkReply`;
  - `ProcessEvent` runs `SendNetlinkQuery` (`NextSeq`, then `sendmsg` succeeding or failing) and appends the event to the table;
  - `PopQuit` and `RecvFail` end the thread. `RecvFail` returns without broadcasting QUIT (csnetlink.cpp:159), although spec section 7 says unrecoverable failures are surfaced by QUIT. This is one step of the model, and no run is spent on it.
- **Kernel and client actions:** `KernelAnswer` (a dump of up to `MaxParts` parts then DONE, or an ERROR), `KernelRoute`, `Emit`, `QuitArrives`, `ClientDestroy`.
- **Abstractions:**
  - a query kind is `GET_LINK` (any dump whose parts are not route messages), `GET_ROUTE` or `GET_INVALID`;
  - the message buffer is one message per `Receive`, which is sound because `ProcessNetlinkMessage` runs in the same thread with no lock;
  - `Horizon` stands for `time(NULL) - 86400`.

### CsNetlinkQuery (abstract Query lifecycle)

The spec's state diagram of an in-flight Query (section 4.6) and its
property 5, with no sockets, sequence numbers or table: `qst` is each
query's state (initial, sent, filling, done) and `got` the replies its caller
has observed. `Send(q)` takes a query; `Reply(q)` lets its caller observe a
reply to its own request, and a DONE, ERROR, OVERRUN or single-part reply
ends it. CsNetlink implements it under the refinement mapping at the end of
CsNetlink.tla:

- the queries are the events of type `query`;
- `QueryState(e)`: new or queued is initial; in the table with no reply yet is sent; in the table with replies is filling; removed after its last reply is done;
- `got` is `recv`, each reply reduced to its type, multi-part flag and the request it answers.

Every CsNetlink step maps to a stutter or to one `Send` or `Reply`: `ProcessEvent`
of a query is `Send`, whether `sendmsg` succeeds or fails, and a `ReplyQuery` that
dispatches is `Reply`. Route changes, watches and invalid queries do not move
the mapped state.

### CsConfig (configuration loading)

- **State:** `phase` (main file, plugin scan, running, or exit 2), the `file` being parsed and the index `at` of its next item, csXmlParser's `stack` of open ancestors with each one's tag data, the directory entries `todo`, `version`, `pluginDir`, the registered `plugins` and the `settings` each received, and `syntaxErrs`.
- **Documents:** `MainDoc` and `DirDoc[e]` are sequences of open and close items carrying the tag and the attributes the handlers test. `DirKind[e]` says whether readdir returns a `.conf` file.
- **Actions:**
  - `Open` and `Close` are `ParseElementOpen` and `ParseElementClose` with every guard and `ParseError` (`Abort`);
  - `OpenPlugin` registers a plugin unless the loader or `SetConfigurationFile` throws, and sets the tag data (`TagData`) only on success;
  - `CloseSetting` applies a state-file or event-filter to the plugin its parent's tag data names;
  - `SyntaxError` is malformed XML;
  - `EndMain` ends `Reload`'s parse of the main file, and `ReadEntry`, `EndFile` and `ScanEnd` are the loop of `ScanPlugins`, in any readdir order.
- **Ghost variables:** `declaredIn` (the file that registered each plugin), `applied` (each setting with its file and enclosing element) and `aborted` (files whose parse stopped at an error).
- **Helpers:** `Front` (the stack without its top) and `Last` (its top) are defined locally from `SubSeq` and `Len`. The module and its proofs therefore use only `Sequences`.
- **Spec-modelled:** the csXmlParser base is not in `src/`. From its use, the stack holds the ancestors when the open handler runs (csconf demands an empty stack, plugin-dir's close checks `stack.back()`), and a `csXmlParseException` ends the file.

### CsMain (C3 and C7)

- **State:**
  - `pending` (the process's pending signals, a set because standard signals do not queue) and `zombies` (exited children not yet waited for);
  - the signal handler's `sig` (waiting or returned);
  - the main inbox: `quit` (the sticky high-priority QUIT) and `mainQ` (RELOAD and PLUGIN events in order);
  - the main thread's `run`.
- **Ghost variables:** `raised`, `reloads`, `emits`, `processed` (PLUGIN events Run dispatched per source) and `got` (clones put in each subscriber's inbox per source).
- **Filter table:** `RawFilter` gives each plugin's `|`-separated atoms, already case-folded; an atom is a plugin name, `"EMPTY"` or `"SPACES"` (blanks only, which trims to the empty name). `ParsedFilter` translates `ParseEventFilter`. The vector `plugin_event_filter[p]` is stated as the function from the kept positions `Kept(p)` of the raw list to their trimmed atoms. Its entries and their order are those of the vector, and no recursive filter (such as `SelectSeq`) is needed, so the routing can be proved. `Receivers`/`DispatchPluginEvent` translate the routing loop with its `break`. `Loaded` stands for the plugins whose loader succeeded.
- **Handler actions:** `SigQuit`, `SigReload`, `SigChild` (with `Reaper`), `SigOther` and `SigFail`, the cases of `csSignalHandler::Entry`. `Take` delivers the lowest-numbered pending signal, as `sigwaitinfo` does.
- **Main actions:** `RunQuit` and `RunEvent` (RELOAD is ignored, PLUGIN is dispatched). That the queued QUIT overtakes normal events is the event bus's HighPriority rule. The bus (csevent.cpp) is not in `src/`, so `RunEvent`'s `~quit` guard takes it from the spec, and `HostRefined` checks the rest of the host against it, not this rule.
- **Environment:** `Raise` (each signal once), `ChildExit`, `Emit` and `ServiceQuit` (a QUIT from another service).

### CsPluginHost (abstract plugin host)

What the plugin host promises (spec: event filter table, section 4.7, and
the bus's QUIT rule), without the signal handler, the filter vectors or
the inbox:
- **State:** `queue` (the supervisor inbox's normal events), `delivered` (clones per subscriber and source), `quitReq` and `stopped`.
- **Actions:**
  - `Emit` and `Reload` append to the queue;
  - `Quit` broadcasts QUIT;
  - `Route` takes the oldest event, unless QUIT is queued or the host has stopped, and clones a PLUGIN event to every loaded plugin other than its source whose filter names the source;
  - `Stop` returns, only after a QUIT.

`CsMain` implements it under the mapping `queue <- mainQ`, `delivered <- got`,
`quitReq <- quit` and `stopped <- run = "returned"`. `Names[s]` is the set of
atoms of `s`'s filter text. The signal handler's QUIT cases and
`ServiceQuit` are `Quit`, or stutters when QUIT is already queued. `SigReload`
is `Reload`, `RunQuit` is `Stop`, `RunEvent` is `Route`, and the other
signals, the children and `Raise` are stutters. The property `HostRefined` is
`Host!Spec`.

## Runs

| Run | Expect | What it shows |
|-----|--------|---------------|
| timer_safety | pass | periodic timers keep the spec's schedule (`ScheduleKept`); every Tick visits every registered timer once although destructors run concurrently (`TickVisitsAll`); QUIT ends the thread (`QuitHonoured`) |
| timer_oneshot | violation | `OneShotFiresOnce`: an interval-0 timer fires on every tick (cstimer.cpp:246) |
| select_safety | pass | `LatchWithinInterest`: readiness is latched only for registered interest; `TableRefined`: CsSelect implements CsSelectTable (a `Set` that left the old latch in place would break it). Neither catches the stale latch, whose bits lie within the new interest; `select_stale_latch` does |
| select_stale_latch | violation | `SetClearsLatch`: a Set between snapshot and merge is undone by the merge |
| select_dtor_deadlock | violation | `DestructorReturns`: ~csSelect joins while holding select_mutex |
| netlink_safety | pass | with a sane clock: `QueryRepliesToCaller`, `QueryAnswered`, and `QueryLifecycle` (CsNetlink refines CsNetlinkQuery, the spec's Query lifecycle, under the mapping above) |
| netlink_route_dump | violation | `CompleteDump`: GET_ROUTE parts go to route watches, not the caller |
| netlink_destroyed_watch | violation | `NoDeliveryAfterDestroy`: watches are never removed |
| main_safety | pass | `RoutedOncePerSubscriber`: one clone per subscriber despite duplicate, self and blank filter atoms; `HostRefined`: CsMain implements CsPluginHost (a Run that popped normal events ahead of a queued QUIT would break it); `TermStopsRun`; `ZombiesReaped` despite coalesced SIGCHLDs |
| timer_clock_failure | violation | `ClockFailureSurfaced`: a failed `timer_settime` leaves the thread idle with no ticks and no QUIT |
| config_safety | pass | `SettingsToOwnPlugin`: every setting reaches the plugin registered by the element that encloses it, despite a duplicate plugin, loader and `SetConfigurationFile` failures and syntax errors |
| config_partial_plugin | violation | `PluginsFullyConfigured`: a plugin file failing after its `<plugin>` tag leaves the plugin registered without its later settings |

### Bounds

- **Timers:** two timers, values and intervals in 0..2, four ticks. This bound is enough for a timer to fire, reload, fire again and be changed or destroyed mid-tick. It also allows the second timer to be erased while the first is being visited.
- **Poller:** two fds with read and write bits. This covers two fds with different interests, and a Clear plus Set between snapshot and merge.
- **Netlink:** three or four client events of distinct kinds, at most one dump part, and one route change. This is enough for:
  - a dump, an error and a failed send;
  - two queries in the table at once;
  - a route change meeting a watch.

- **Supervisor:** three plugins, one not loaded. p1's filter names p2 twice, itself, and holds an empty and a blank atom. Every signal is raised once, at most two children are outstanding, and each plugin emits once. This is enough for a duplicate match, a self entry, two exits sharing one SIGCHLD, and SIGHUP delivered before SIGINT.
- **Configuration:** two plugin names and four directory entries. Two files declare p1 (so either can be registered first and the other is a duplicate), one has an unknown element before its state-file, p2's file has an empty state-file, and one entry is not a `.conf` file. At most one file is malformed (none in the violation run, so that the code's own `ParseError` path shows it). This covers every handler's success and error path, loader and `SetConfigurationFile` failures, and every readdir order.

### Fairness

The timer, poller and netlink threads are OS threads whose waits are all
bounded (`sigtimedwait` 1 s, `select` 500 ms, `EventPopWait` 500 ms), so
each has weak fairness on its own steps. The kernel answers every request it
receives (weak fairness of `KernelAnswer`). Once the select destructor has
begun, its thread keeps running (weak fairness of `DtorLock` and `DtorJoin`).
The signal handler and the main thread block in `sigwaitinfo` and
`EventPopWait`, which return when work is there, so each has weak fairness
on its steps. A failure of `sigwaitinfo` (`SigFail`) is not fair.
Owners' and clients' calls are their own choice and are never fair.
Configuration loading is one sequential thread at start-up, so `CsConfig`
has weak fairness of its whole next-state relation; its runs check only
invariants. The timer thread's `ArmTick` is part of its fair steps, so the
violation of `ClockFailureSurfaced` is a fair behaviour: the thread keeps
running `PopNone` and `WaitAgain` (sigtimedwait times out) for ever.

## Proofs

- `CsTimerProofs`: `TypeCorrect` (Spec => []TypeOK), with `ArmTick` among the ticker's actions. It uses the strengthening `TickBound` (a tick in progress began below `MaxTicks`). The lemmas are `EraseType` and `EraseFirstType`: erasing an element of a sequence of timers yields a sequence of timers.
- `CsSelectProofs`: `LatchSafety` (Spec => []LatchWithinInterest) and `SelectTypeCorrect`. `TypeOK /\ LatchWithinInterest` is inductive for these reasons:
  - the only step that adds latched bits, `Merge`, adds bits of the current interest of a registered fd;
  - every step that shrinks an interest or unregisters an fd also empties its latch.
- `CsNetlinkProofs`: `QueryIsolation` (SaneClock => (Spec => []QueryRepliesToCaller)) and `NetlinkTypeCorrect`. `QueryRepliesToCaller` alone is not inductive. A reply on the wire could match a query that sent nothing, or a query whose number another query shares. The strengthening `IInv` adds these conjuncts:
  - `InboxQueued`: the inbox holds distinct events that are still queued;
  - `SeqIssued`: an event with a sequence number is a valid query or watch, has been sent, and its number is at most `nl_seq`;
  - `SeqUnique`: two sent events never share a number;
  - `SeqCounted`: `nl_seq` is at most the number of sent events;
  - `ReqsTagged` and `WireTagged`: every request and every non-route message on the wire carries the sequence number of the event it was sent for.

  Together these give the key step (`Receive` with `ReplyQuery`): the client matched by sequence number is the reply's own sender. `SaneClock` is the constant assumption `Horizon > Cardinality(Events)`. It says that `time(NULL) - 3600 * 24` exceeds the number of queries, so the increment at csnetlink.cpp:245 never wraps to 1, which is what keeps `SeqUnique` true. Without it the property fails. Within a day of the epoch (no RTC at boot) every query gets sequence 1, and a query whose `sendmsg` failed captures the replies of the next one. The lemmas are:
  - `WireExtend` and `WireTail`, for appending to and popping from the wire;
  - `FrameIInv`, for the steps that leave the protocol state alone;
  - per-action type lemmas (`DumpReplyType`, `EraseEntryType`). These rest on `FS_RemoveElement`/`FS_Subset` from FiniteSetTheorems and on the sequence facts from SequenceTheorems.

- `CsNetlinkProofs` also proves `QueryRefinement` (SaneClock => (Spec => QueryLifecycle)): CsNetlink implements CsNetlinkQuery. The proof shows that the initial states map to the abstract initial state, and that under `IInv /\ LifeInv` every step maps to `Send`, `Reply` or a stutter (`StepRefines`). `LifeInv` adds two inductive facts (`NextLife`):
  - `UnsentSilent`: no reply reaches an event the thread has not popped. This is why `ProcessEvent` makes a query SENT and not FILLING.
  - `TableHeld`: `event_client` holds each event once, and only events in state `table`. This is why a matched reply finds its query SENT or FILLING, and why erasing it leaves the other entries in the table.

  The reply's `for` is the query's own by `QueryRepliesToCaller` in the next state, so the step is the abstract `Reply` of that query. `EraseEntryProps` gives the entries of `EraseEntry` from `SubSeqProperties` and `ConcatProperties`, and `ObservedAppend` gives the caller's view of an appended reply.

- `CsTimerProofs` also proves `ScheduleCorrect` (Spec => []ScheduleKept). `ScheduleKept` says that a clean timer with a positive interval has fired `ExpectedFires` times: none before its first due tick, then one every interval. It is not inductive, because whether the next decrement fires depends on the value, which the property does not mention. The strengthening `SchedInv` states `OnSchedule(sched[t], value[t])` for every timer that is clean, live and running with a positive interval:
  - before the first due tick (`dec < FirstDue(v)`, the start value, or 1 if that is below 1), the value is the start value minus the decrements, and nothing has fired;
  - after it, the value is in `1..interval`, and `dec - first + value = fires * interval`.

  The lemmas are:
  - `OnScheduleStep`: one decrement, with its fire test and reload (cstimer.cpp:240-246), keeps `OnSchedule`;
  - `OnScheduleStart`: `Start` establishes it;
  - `DivUnique` and `OnScheduleExpected`: these turn it into the closed form of `ScheduleKept` (fires = the number of multiples reached);
  - `DirtyStep`: this covers every step that marks a timer not clean.
- `CsTimerProofs` also proves `TickVisitsAllCorrect` (Spec => TickVisitsAll). This is an action property: a step that ends a tick has visited every timer still registered exactly once. The inductive invariant `VisitInv` adds:
  - `VecHeld`: each timer appears at most once in `timerVec`, and only while it is live or in its destructor;
  - `Visited`: during a tick, `pos` is in `1..Len(timerVec)+1`, and a timer at index k has been visited once if k < pos and never otherwise. Outside a tick every count is 0.

  `RemoveTimer` cannot run during a tick, because `Tick` holds `vector_mutex`. That is what keeps `Visited` true. `EraseProps` and `EraseFirstHeld` give the entries of the vector after an erase. `TickReleases` shows that a step from a tick to the pop is `TickEnd`.
- `CsSelectProofs` also proves `TableRefinement` (Spec => TableRefined). `InitRefines` maps the initial state. `StepRefines` shows that, under `TypeOK`, every step maps to one of these:
  - `Set`, `Clear`, `IsSet` or `Reset`;
  - `Latch`, for `Merge`;
  - `Drain`, for a `Drain` after the push;
  - a stutter (`StutterSteps`): the snapshot, `select()` and the destructor's steps leave the table and `pc = "push"` alone.

  `LatchWithinInterest` is not needed, because the abstract `Latch` takes any OS readiness.
- `CsConfigProofs` proves `ConfigTypeCorrect` (Spec => []TypeOK) and `SettingsCorrect` (Spec => []SettingsToOwnPlugin). `SettingsToOwnPlugin` alone is not inductive: `CloseSetting` applies a setting to the plugin named by its parent's tag data, so the proof must know what the tag data on the stack names. The strengthening `StackTagged` says that every stack frame of the file being parsed whose data is a plugin names a plugin registered by this same file. It holds for two reasons:
  - `TagData` is set only after the loader and `SetConfigurationFile` succeed (csmain.cpp:202-207);
  - an abort or the end of a file empties the stack.

  The lemmas are per handler (`OpenInv`, `CloseInv`, `PopKeeps`, `SettingApplied`, `AbortKeeps`, `OtherInv`), with `FrontProps` and `CurItem` for the stack and the document.
- `CsMainProofs` proves `MainTypeCorrect` (Spec => []TypeOK), `RoutingCorrect` (Spec => []RoutedOncePerSubscriber) and `HostRefinement` (Spec => HostRefined).
  - `RoutesMatch` is the core fact about the filter table. The plugins whose parsed filter finds `src` (`Receivers`) are exactly the spec's `Subscribers(src)`. Skipping an empty atom loses no name. A blank atom trims to `""`, which names no plugin (`PluginsAssumption`). The self check removes exactly the entries that name the plugin itself.
  - `RoutedOncePerSubscriber` alone is not inductive. `RunEvent` indexes `processed` by the source of the event at the head of the inbox, so the proof must know that every queued PLUGIN event comes from a loaded plugin. The strengthening `QueueTagged` says this. `AppendTagged` and `TailTagged` keep it across `Emit`, `SigReload` and `RunEvent`, and `DispatchKeeps` gives the step of a dispatch.
  - `HostStep` maps every step to a step of `CsPluginHost` or a stutter, under `IInv`. `RouteMatches` shows that `DispatchPluginEvent` is the host's `Route` for the head event. `HostSubscribers` shows that the host's subscribers are the spec's.
  - The filter table was first written with `SelectSeq`. That is a recursive definition, and what it computes for every filter could be proved only by an induction the installed provers cannot run. It is now stated over the kept positions (see CsMain above), which keeps the vector's entries and order.

What stays model-checked only:
- Liveness (`QuitHonoured`, `QueryAnswered`, `DestructorReturns`,
  `TermStopsRun`, `ZombiesReaped`): TLAPS does not reason about ENABLED or
  fairness here.
- The violation runs: each one is a counterexample, and TLC gives it.

## Not modelled

- The event bus and the worker base (not in `src/`), beyond what each service needs of them.
- Heap lifetimes (the TIMER event's `csTimer*`, the shared NETLINK event object).
- Plugin loading, start, stop and unload (`csPlugin`, `csPluginLoader`, not in `src/`), and the shutdown sequence after `Run` returns. The signal handler, whose inbox is disabled, would wait for a signal when it is joined after a QUIT from another service (a hazard, not checked).
- The XML tokenizer itself (expat, in csXmlParser outside `src/`): malformed XML is the single action `SyntaxError`. The `stack-size` attribute's arithmetic (lines 170-185) only reaches the loader and is left out. It is a pure computation a unit test reaches. Read against spec section 4.2, line 184 increases an unaligned size by its remainder, where the spec says it is rounded up to a page.
- The CLI, the PID file, logging, the state-file dump and the crypto lock callbacks. These are sequential I/O and formatting with no state another component reads.
- Which of two files declaring the same plugin wins depends on readdir order. Every order satisfies every property, so this is a difference between runs, not a property of one run.
