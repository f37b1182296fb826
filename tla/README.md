# A TLA+ model of windows-erg

windows-erg is a Rust crate of safe wrappers around Windows APIs. Many of its
functions are a single call, but most of its parts keep state across calls,
threads and processes, or read something that others change meanwhile. This
directory models those parts in TLA+, model-checks them with TLC on small
instances, and proves the central safety properties with TLAPS for every value
of the constants.

Line numbers refer to the crate's `src/` directory; `PROJECT.json` maps every
definition to the lines it models and lists runs, mutants, findings, hazards
and theorems.

## The system

| Part | State it keeps | Operations | What makes it hard | What makes it correct |
|---|---|---|---|---|
| **etw stream** (`etw/session.rs`) | two bounded channels, a drop counter, a processed counter, the `ProcessTrace` thread, a stop signal | the trace callback, the `next_batch` family, `run_until_stopped`, `stop`, drop | callback thread against owner; full and rendezvous channels; stop against a callback under way | every record is delivered in order or counted as dropped; after `stop` nothing runs |
| **etw session** (`etw/session.rs`) | a machine-wide table of sessions by name; per trace a session, an open handle, a thread, a callback context | `start` (eight fallible steps), `request_rundown`, `stop`, drop | partial failure, crashed owners, take-over of a name, other tools | a failed start gives back what it took; the context outlives the thread; nobody else's session is touched |
| **etw schema, decode** (`etw/schema.rs`, `decode/`, `provider.rs`) | schema and map caches | property walk, typed decoders, an application's own provider | cache keys, counts and lengths taken from other fields, payloads cut short | a field is decoded with a schema of its own key, and a layout the decoder knows gives what the writer wrote or nothing |
| **pipe server, client** (`pipes/server.rs`, `client.rs`) | one pipe instance, a pending overlapped operation, an allow-list, the thread's identity | `connect*`, `disconnect`, `read`, `write`, `flush`, elevation check; client connect, read, write | completions racing timeouts and cancels, clients that come and go | a connected client that is served is an allowed one; no request outlives its buffers; identity is restored |
| **pipe enumeration** (`pipes/enumerate.rs`) | the poller's baseline | `list`, `poll`, `seed`, `poll_interval*` | the namespace changes during a scan; a round fails | a scan is faithful; every change of the baseline is reported |
| **wait, console** (`wait/mod.rs`, `console/mod.rs`) | events; a static handler state behind a mutex | `signal_on_ctrl`, the control handler, `wait*`, `wait_any*`, `reset` | handler threads against registration, close of the console | every registered wait is set; a blocked thread wakes |
| **process tree** (`process/tree.rs`, `list.rs`) | none; a snapshot that ages | `kill_tree*`, `kill_tree_from_root*` | processes start, exit and reuse ids meanwhile | only the tree is killed, all of it, children first |
| **process control** (`processes.rs`, `spawn.rs`, `inject.rs`) | handles, an attribute list, memory in the target | spawn, open, wait, exit code, kill, inject | recycled ids, exit code 259, a remote thread that runs late, any call failing | nothing is left behind; a wait's answer is true |
| **process inspection** (`process/peb.rs`, `path/mod.rs`) | one read buffer; the device map behind an `RwLock` | parameters, NT path to DOS path, `refresh_device_map` | the target moves, drives are mounted, two builders of the map | parameters are not mixed up; a refresh is never undone |
| **permission editing** (`security/editor.rs`, `acl.rs`, `backends/`) | the object's descriptor | plan, dry run, apply; read and write as SDDL | read-modify-write, inheritance, entries the parser does not know | what the plan does not name is untouched; the order is canonical |
| **windows** (`desktop/window.rs`) | the handler's heap slot, the message queue | create, the window procedure, destroy, drop, post, the loop | re-entrance at every call, creation that fails half-way | the handler is freed once, after its last use |
| **tray icon** (`desktop/tray.rs`) | `icon_added`, tooltip, icon, window | create, update, `re_add`, `remove`, drop | shell restarts, refused calls | what is shown is what is remembered; drop removes it |
| **instance, clipboard, canvas, list view** (`desktop/`) | a mutex, an open clipboard, a render target, a selection | guards, `set_text`, begin and end of a frame, notifications, cell text | other instances, resizes and lost devices inside a frame, short buffers | one instance; a frame is drawn on the target it began with; the clipboard is closed |
| **registry** (`registry/`) | handles with a view, listing positions | typed reads and writes, deletes, subkey and value listings | fixed buffers, foreign values, keys that come and go during a listing | what is written is read; a listing only shifts |
| **event log** (`evt/`) | a result set, a batch of handles, the publisher cache | query, batches, rendering, formatting | records that cannot be rendered, cancellation, a shared cache | every record is returned, skipped for a stated reason or reported; handles are closed |
| **services** (`service/`) | a handle and its rights, the wait's clock | open, start, stop, control, restart, list | progress, time, other clients | a restart that gives up had a reason to |
| **lists** (`service/manager.rs`, `process/modules.rs`, `threads.rs`, `system/`) | a buffer reused between calls | size, read, walk | the list grows between the two calls | a list is whole, an error or cut by a failure passed over, and of this call |
| **files** (`file/`) | a chain of directory handles; a raw volume | guarded create, write and delete; raw copy; import analysis | directories swapped for junctions, sparse and short extents, malformed images | no guarded call is redirected; a copy without a short read is the file |
| **host** (`system/`) | a privilege, a snapshot under way | inventory, power actions, SMBIOS, users | sections that fail, a privilege that is not assigned | raw tables are read as written; no power action without its privilege |
| **proxy** (`proxy/`) | a WinHTTP session and its strings | settings, resolution of a URL | the user changes settings value by value | settings are called invalid only if they were without a server during the read |
| **mitigation** (`mitigation/`) | policies of the process, each irrevocable | apply a plan, query | refusals, fallbacks, two flags in one policy | an applied plan is in force |
| **crypto, menus, themes, errors, utils** | none | conversions and single calls | – | – |

The parts interact through a few shared pieces. A `Wait` is set by the console
handler, passed to `connect_with_wait_timeout` as a cancel signal and used as
the stop signal of a trace. The pipe server and client share the error mapping
and the HRESULT conversion of `utils/io.rs`. ETW sessions, named pipes, process
ids, security descriptors and the taskbar belong to Windows and are shared with
other processes, so each model has actions for what others do to them.

## Modules

Each component has one module with its state, one action per operation or step,
`Init`, `Next`, `Spec` and its properties; an `MC…` module gives TLC the sets it
needs; and a configuration. The proofs are in seven `…Proofs` modules, one for
each of the larger components and one for each group of components that are
independent of each other, and in **NumberFacts**, the lemmas they share. A definition whose name ends in `_Something` is a deliberately
wrong version of the one that follows, used only as a mutant.

Four MC modules hold several components that share nothing: a behaviour follows
one of them, named by the variable `part` or `follows`, and leaves the others in
their initial states. They are **MCInventory** (PipePoller, Enumerations,
Services, Host), **MCObjects** (PermissionEdit, Registry, Files, Proxy),
**MCProcess** (ProcessTree, ProcessControl, ProcessInspect, Mitigation) and
**MCDesktop** (ConsoleSignal, AppWindow, TrayIcon, Widgets). Where such a module
extends several components, their initial predicates, next-state actions and
specifications carry their names (`TrayInit`, `ServiceNext`, `HostSpec`, …). In
MCObjects the analysis of an executable is a part of its own beside the other
operations of Files.

* **EtwStream** – one started trace. `cb` is the callback's place between its
  two sends, `chan` the two `sync_channel`s, `call` the owner's call
  (`next_batch`, the filtered, decoded, timed and combined forms,
  `run_until_stopped`, the three steps of `stop`). An event is a record with
  its process id and opcode; decoding is the stream it goes to. Capacity 0 is
  a rendezvous: a send succeeds only while the owner is blocked in a timed
  receive. The cloned stop handle may be set, and another tool may end the
  session, at any time.
* **LossyQueue** – what a channel promises: a bounded queue that delivers in
  order and counts what it refuses. EtwStream implements it for each stream
  (`ChannelsAreLossyQueues`, an `INSTANCE … WITH` refinement).
* **EtwSession** – several traces over the system's table of sessions. `pc`
  follows `start` through validation, `StartTraceW`, the stop-and-retry of an
  existing kernel session, providers, context, `OpenTraceW`, thread and stop
  signal, and `stop` through its three steps; each step can fail as in the
  code. Processes may crash, tools may start and stop sessions.
* **NamedPipe** – one instance. `inst` and `op` are the kernel's side, `pc` the
  server thread's place in its call, `served` whether the last connect
  accepted. The allow-list check takes three steps (the client's id, the process
  of that id, its path), and `vetted` is the process it looks at. A second thread may disconnect, because `disconnect` takes `&self`.
  Clients wait, open, write, read and close.
* **PipePoller** – the directory scan query by query and the poller over it;
  `view` is what a caller knows that replays every change it was given.
* **ConsoleSignal** – registration under the mutex, one handler thread per
  signal, waits with auto or manual reset, and threads in `wait_any`.
* **ProcessTree** – live processes with the parent id they were created with, a
  snapshot, and the kill loop one id at a time. The collection of descendants
  and `TreeDepth` are recursive in the code and recursive functions here.
* **PermissionEdit** – the object's DACL as Windows stores it (entry types,
  aliases and masks the parser does not know, inherited flags, protection), the
  parsed DACL, the plan's operations one by one, canonical order, the diff and
  the write.
* **AppWindow** – the UI thread as a stack of frames; handlers may send, quit,
  destroy or drop at any point, which re-enters the window procedure.
* **TrayIcon** – what the value remembers and what the shell shows.
* **EtwDecode** – the schema and map caches, the property walk and the typed
  decoders. A payload is the sequence of fields its writer put down, cut after
  some bytes; the decoder knows an offset only, so a wrong size of one field
  makes the next ones `Garbage`. A text is the set of the labels or strings it
  is joined from. A record carries the event it is of, by which TDH answers, and
  the header the cache looks it up by; two events may share a header. The
  writer's side (`Laid`, `Conforms`) follows TDH's rules and not the decoder's;
  `Misread` lists the layouts in which the two differ. A reader that stands on no
  field of its own finds the bytes of `Stray`. The provider module of the crate
  writes what the walk reads back. A string or a block of bytes that is cut is still read as far as it
  goes, and the walk goes on; the properties call that value `Garbage` and say
  only that no value of the writer is made of it.
* **EventLog** – threads that open, fetch, render, format and close. A record
  says what `EvtRender` makes of it (values, tokens of XML with references as
  tokens of their own, or a refusal);
  `pubs` are the open publisher handles and `cache` the shared map of them.
* **ProcessControl** – one process id and the processes that carry it one after
  the other; `todo` is what is left of `spawn`, `held` what it must release;
  `inj`, `memory` and `thread` follow `inject_dll` and its remote thread.
* **ProcessInspect** – the device map under its lock, letter by letter, and the
  parameters read through one buffer from a process that moves.
* **Enumerations** – the listing calls, by how they size their buffer (asked for
  once, grown until it fits, fixed), over a list that changes between their
  steps. Any of their system calls may fail; `silent` remembers one whose failure
  the code passes over.
* **Services** – the control manager's state, other clients, and `restart` with
  its poll in tenths of a second; a sleep may take `MaxDelay` longer than asked.
* **Host** – the inventory section by section, shutdown and restart behind the
  privilege, the SMBIOS walk over bytes against the table that was encoded, the
  list of users, product names.
* **Registry** – texts as UTF-16 units with their terminators, so that a buffer
  one unit short or a list cut at an empty text shows; listings by index.
* **Files** – the walk from directory handle to directory handle while another
  process swaps names for junctions, with the one directory whose handle is kept
  (`held`); the write; the copy by clusters across extents, with reads that may
  be short and holes that cannot be read; and the image's sections and imports with sums of their width. An
  image is a sequence of cells; `Declared` says which places of its two-level
  import table can be read, and an analysis must list exactly those, in table
  order.
* **Proxy** – settings read value by value while the user edits them in any order,
  a server that is absent or blank included; `gap` remembers whether they were
  without a server during the read. WinHTTP strings, each freed once.
* **Mitigation** – a plan's policies in the order the code sets them, and the
  query that reads them back.
* **Orderings** – the numbers of a set in order, the members of a sequence at some
  places, sequences one after the other: what the loops of Host, EtwDecode and
  Files compute, written so that both TLC and the provers can use it.
* **Widgets** – instance guard, clipboard, canvas, list view and window
  enumeration; they share nothing, so a behaviour follows one.

### What is assumed of Windows

* `ControlTraceW` with a session name acts on the session that has the name,
  whatever handle is passed, and a STOP succeeds.
* A pending pipe operation completes when a client acts; `CancelIoEx` leaves
  the final completion to the kernel; an overlapped handle used without an
  `OVERLAPPED` may report completion early.
* A directory query returns entries after the last one returned, in a fixed
  order; a pipe that stays is returned once.
* `SetNamedSecurityInfoW` re-applies the parent's inheritable entries to an
  unprotected object, and a write keeps the protection it does not name.
* The system ends a process whose console closes when the handler returns.
* `CreateWindowExW` and `DestroyWindow` send their messages synchronously;
  `DestroyWindow` on a window under destruction fails; posted messages of a
  destroyed window are discarded.
* `NIM_ADD` fails for an icon the shell has, other messages for one it has not.
* TDH may refuse an event at any time and answer for it later. A description has
  one field per property, without structures; a declared length is that of one
  element, in bytes; a count or length that refers to a property refers to an
  earlier one, whose number it is; the number of a Boolean is 0 or 1; text that
  is valid UTF-8 stays so wherever the payload is cut. `EvtNext` returns
  records in order and may fail or be cancelled between batches.
* The control manager accepts a start only when the service is stopped and a
  control only in the states that allow it; a pending state ends or reports a
  new checkpoint, and either may take any time.
* A directory held open without `FILE_SHARE_DELETE` is not renamed or replaced;
  what is opened through the handle of a junction is in the junction's target.
* `AdjustTokenPrivileges` succeeds without assigning a privilege the token does
  not have; only the last error says so.
* A size query and the read after it see the list as it is at that moment each.
* A mitigation policy, once set, cannot be taken back, and Windows refuses bits
  it does not know.

## Runs

Every property of a passing run has a mutant of the code's translation that
violates it. "States" are TLC's distinct states, rounded. What is proved and
follows from another property in the instance (type correctness, the bound and
the order of a channel, `ConsumesOwnSession`, `AcceptedClientExists`) is left
to the proofs. Type invariants that no theorem states hold in the same
instances.

| Run | Instance | Checks | States |
|---|---|---|---|
| `stream` | raw and decoded, capacity 2, four records | `DroppedExact`: exact loss accounting; `ProcessedExact`; `StopQuiesces`; `ChannelsAreLossyQueues`: refinement of LossyQueue; `TraceEnds`: `stop` returns with full channels, a foreign stop is noticed | 257,000 |
| `session` | two kernel-logger owners, or a private logger and a user trace of one name, or a refused builder; tools on their names | `ContextOutlivesThread`; `FailedStartAllOrNothing`: what a failed `start` leaves; `StoppedIsGone`, `RundownRestores`; `SessionProgress`: `stop` returns, a stale kernel session is replaced | 145,000 |
| `pipe` | two clients, one allowed, two messages | `AllowListHolds`, `IdentityRestored`, `IoBufferOutlivesIo`; `ReadAccounted`: no message lost or duplicated; `ServerProgress`: a client that raced a timeout is served next, reads and writes return | 416,000 |
| `decode` | manifest, classic and self-describing events, a provider's own, arrays, socket addresses and text that is not UTF-8; whole, cut and refused by TDH, three in a row | `DecodedFaithfully`: a field that arrived whole is read at its place with its value but for the layouts of `Misread`, a cut one gives no value, and typed TCP and registry events report each address and name for what it was written as; `CacheSound`: a record is read with a schema of its own key, also after a failure | 192,000 |
| `event_log` | two threads, batches of two, buffers of 4 and 8 | `RecordsFaithful`: every record is accounted for, its data is its own or none by its format, no handle stays open; `QueryEnds` | 58,000 |
| `inventory` | three pipes or list entries, two per query; a service with a timeout of 0.3 s; five SMBIOS tables | `ScanFaithful`, `BaselineIsReported`; `ListFaithful`: a list that passed over no failure is whole or an error, and of this call; `RestartHonest`; `HostFaithful`: SMBIOS, users, names, the shutdown privilege; `ScansEnd` | 774,000 |
| `objects` | one editor with six plans; texts and lists around the buffer sizes; a path three directories deep; four layouts, one with a hole; five images; two edits of the proxy settings, which begin with a server or without | `EditSound`: canonical order, untouched trustees, revocation, diff, protection; `RegistryFaithful`; `FilesFaithful`: raw copies and imports; `GuardedCreate`: never redirected, written whole; `EnabledHasServer` | 749,000 |
| `process` | four ids, one protected; three processes on one id; two threads, two letters; all mitigation flags | `TreeKilledExactly`: only and all of the tree; `SpawnSound`: nothing left behind, the process opened is the one spawned; `AnswerTrue`: what a wait answers; `InspectFaithful`: device map and parameters; `PlanInForce` | 647,000 |
| `desktop` | two registrations, signals and waiters; six nested frames; three shell restarts; three instances | `SignalsHandled`: no signal is passed on once installed, every wait is set, the index is of a set object; `HandlerLifetime`: freed once, with its window, never entered again; `TrayConsistent`; `WidgetsConsistent`: one instance, frames, selection, cells; `SignalWakes` | 433,000 |

Several properties are conjunctions of named parts, each with its own comment in
the module: `RecordsFaithful` of `RecordsAccounted`, `DataFaithful` and
`NoHandleLeaked`; `FilesFaithful` of `CopyFaithful` and `ImportsFaithful`;
`InspectFaithful` of `RefreshHolds` and `ParametersFaithful`; and so on.

### Where the code and its documentation disagree

Three runs check one statement of a comment each, and TLC shows a behaviour of
the code that contradicts it; the quotations are under `findings` in
`PROJECT.json`.

| Run | What happens |
|---|---|
| `pipe_connect_cancel` | `connect_with_wait_timeout` returns after `CancelIoEx` without waiting, and the request outlives its `OVERLAPPED` |
| `permission_inherited` | an edit writes the inherited entries it has read as explicit ones |
| `window_reentry` | a handler that destroys its window is freed while its outer call runs |

Other disagreements have no run of their own. Each is stated as a property at
the end of its module, and TLC refutes it when the module, or the MC module that
instantiates it, is checked for it (for `ConnectBlocks` with an empty allow-list, for
`KillTreeReturns` with `Reuse = TRUE`).

| Property | Statement | What the code does |
|---|---|---|
| EtwStream `ProcessedReachesCaller` | `etw/session.rs:407`, "Total events delivered so far" | `run_until_stopped` counts events it clears before its caller sees them |
| EtwSession `CallbackContextAlive` | `etw/session.rs:238`, "remains alive for the duration of the trace" | the last fallible step of `start` frees the context of a running thread |
| EtwSession `FailedStartLeavesNothing` | `etw/session.rs:1293`, "clean up the started session" | the last fallible step of `start` (`:1332`) returns its error with the session, the trace and the thread running |
| EtwSession `RunningKernelLoggerRefused` | `etw/session.rs:1010`, `SessionStartFailed` | a running kernel logger is stopped and replaced |
| EtwSession `StopEndsOnlyOwnSession` | `etw/session.rs:731`, "EventTrace owns it exclusively" | a replaced trace stops its successor's session, by name |
| NamedPipe `ConnectBlocks` | `pipes/server.rs:362`, "Block until a client connects" | `connect` passes no `OVERLAPPED` and may return without a client |
| NamedPipe `AcceptedIsAllowed` | `pipes/server.rs:499`, "verify it is on the allow-list" | the client is looked up by its process id, which another process may have by then |
| NamedPipe `TimedOutMeansCancelled` | `pipes/server.rs:326`, "A timed-out operation is cancelled" | an operation that completed meanwhile is reported as timed out and its data lost |
| NamedPipe `BusyReported` | `pipes/error_map.rs:24`, the "pipe is busy" context | the client passes an HRESULT, which is compared with a Win32 code |
| PipePoller `ChangesReachCaller` | `pipes/enumerate.rs:49`, "return detected changes" | a failing round of `poll_interval` drops the changes of the rounds before it |
| ConsoleSignal `CleanShutdown` | `console/mod.rs:3`, "must shut down cleanly" | for a console close the process may end before the woken thread has run |
| ProcessTree `ChildrenFirst` | `process/tree.rs:12`, "all child processes first, then the parent" | `tree_depth` is the height of a subtree, so parents go first |
| ProcessTree `KillTreeReturns` | `process/tree.rs:131` provides for cycles | `tree_depth` never ends on a cycle of reused parent ids |
| EtwDecode `TruncatedIsNone` | `etw/decode/process.rs:33`, `None` when "the payload is truncated" | a payload cut inside the command line is decoded as far as it goes; one cut inside the image name is sliced one byte past its end, a panic |
| EtwDecode `MapIsOwn` | `etw/schema.rs:155`, the map cache | maps are cached under their name alone; a second provider gets the first one's labels |
| EtwDecode `SchemaIsOwn` | `etw/schema.rs:86`, "TDH schema metadata used to parse event payloads" | the schema is cached under provider, id, opcode, version and level; TDH answers for the record, and a self-describing event is parsed with the schema of another one that shares them |
| EtwDecode `NothingMisread` | `etw/schema.rs:1230`, "expected Tail to remain aligned" | arrays with an element length, empty fields, socket addresses of 16 and 28 bytes, text that is not UTF-8 and the other layouts of `Misread` shift or end the walk |
| EventLog `DataPopulated` | `evt/mod.rs:460`, "events will have their `data` field populated" | in the default format, `Values`, `render_event` never looks at the flag (`render.rs:100`); the example `evt_filter.rs:21` relies on it |
| EventLog `ValuesWhole` | `evt/mod.rs:460`, "EventData key-value pairs" | a text with an entity comes in pieces and only the first is kept (`render.rs:441`); a named element without a text takes that of a `Binary` after it |
| EventLog `QueryReturnsAll` | `evt/mod.rs:347`, "returns all matching events at once" | a batch none of whose records can be rendered counts 0 and ends the query |
| EventLog `CachedHandleOpen` | `evt/mod.rs:155`, "caches publisher metadata handles" | a clone of the handle closes it; the cache keeps a closed one |
| EventLog `ProviderSelects` | `evt/query.rs:52`, "Filter by provider/source name" | the XPath built does not select any record of the provider |
| EventLog `FormattingEnds` | `evt/render.rs:657`, "Resize and try again" | a size in characters is taken for bytes; a long message is tried forever |
| ProcessControl `NoneMeansRunning` | `process/processes.rs:152`, "None if the process is still running" | a process that ended with 259 is taken for a running one |
| ProcessControl `ExitGivesCode` | `process/processes.rs:195`, "`Ok(Some(code))` when the process exits" | a wait for a process that ended with 259 returns an error |
| ProcessControl `LateThreadFindsPath` | `process/inject.rs:315`, "the DLL will load asynchronously" | the path's memory is freed after the timeout |
| Enumerations `WorkBufferLargeEnough` | `process/modules.rs:70`, "Ensure work buffer is large enough" | `reserve` counts from a length of 0, `set_len` goes past the capacity |
| Enumerations `ModulesWritten` | `process/modules.rs:108`, "Second call with correct size" | modules loaded between the calls are counted and were not written |
| Enumerations `OkIsWhole` | `service/manager.rs:88`, "Enumerate all services"; `process/threads.rs:13`, `list.rs:13` alike | a failing sizing call is an empty list, a failing `Thread32Next` or `Process32NextW` the end of it, a disk that does not open is left out, each with `Ok` |
| Services `ProgressExtends` | `service/service.rs:143`, `checkpoint_stale_since` | the time since the start is checked too and is always the longer one |
| Host `FailuresRecorded` | `system/mod.rs:53`, failures "are recorded in `section_errors`" | half of the sections cannot return an error |
| Mitigation `PayloadIsWhole` | `mitigation/mod.rs:67`, "EAF, IAF, ROP checks" | the last fallback sets EAF only and succeeds |
| PermissionEdit `MasksKept` | `editor.rs:286`, "Structured diff against original DACL" | a mask of which the parser knows some tokens only is written back without the others, for trustees the plan does not name, and no diff shows it |
| Registry `OwnDescriptor` | `registry/key.rs:140`, "this key's security descriptor" | a key of the 32-bit view is looked up by path in the process's view |
| Registry `NoneMeansAbsent` | `registry/key.rs:267`, "None if it doesn't exist" | a value that does not fit the buffer is `None` too |
| Files `NeverPanics` | `file/pe.rs:4`, "never panics" | a sum in `rva_to_offset` may exceed its width |
| Files `ShortReadNoticed` | `file/raw.rs:98`, an error when "source data cannot be read from raw extents" | a read that gives less moves on by the clusters asked for; the copy lacks the rest and is `Ok` |
| Files `ChainHeld` | `file/safe.rs:10`, "Each directory is held open" | only the last handle is kept (`:169`); a directory further up may be replaced during the walk |
| Files `FailedOpenCloses` | `file/raw.rs`, the handles of `open_with_tuning` | a failure after the volume was opened leaves its handle open |
| Proxy `InvalidIsTrue` | `proxy/mod.rs:170`, "ProxyEnable is 1 but ProxyServer is missing" | a proxy that is switched off and loses its server between the two reads is reported so, though it never was |
| Proxy `StringsFreed` | `proxy/`, strings WinHTTP hands over | the first `GlobalFree` that reports an error leaves the others |
| Proxy `ServerHasEndpoint` | `proxy/`, the parsed server list | `http=` is accepted as a server without an endpoint |
| Widgets `NoneMeansHeld` | `desktop/instance.rs:18`, "already holds it" | the handle of a process about to be answered `None` is enough to turn away the next one, after the owner has gone |
| TrayIcon `DropRemovesIcon` | `desktop/tray.rs:116`, "RAII lifecycle management" | a late `TaskbarCreated` makes `re_add` fail and clear `icon_added`; the drop leaves the icon |

The passing properties say where they stop short of these.
`ContextOutlivesThread` excludes the one failing step of `start` that leaves its
thread running, and `FailedStartAllOrNothing` says what that step leaves instead of
that nothing is left. `AllowListHolds` excepts a client that has closed its end and
exited before its process was opened by id. `AnswerTrue` excepts the exit code 259,
and names what is answered then. `WholeOrError` leaves out a listing that passed
over a failing system call, `CopyFaithful` a copy one of whose reads was short
(a file with a hole cannot be copied raw at all: the hole's cluster, -1, is refused),
`EnabledHasServer` accepts a server that was taken away during the read, and
`DataFaithful` says of the default format that it gives no data. `CacheSound`
claims a record's own schema only where no other event shares its key, and
`FieldsFaithful` stops at the first field of `Misread`: an empty one; one whose
count or length is not the one the walk resolves (a count of 0, a number too
large for 16 bits, one that is not read as a number); an array whose element
length is not below its count, or with elements of unknown size; an out-type of
another size than the field, as for a socket address; UTF-16 with the out-type of
a text; an ANSI string that is not UTF-8; UTF-16 of an odd length; a pointer of a
32-bit writer with no length; a scalar with a declared length of its own; and a
type without a size. `BaselineIsReported` counts the
rounds a failed `poll_interval` has collected as reported, `NothingLeft`
excludes the untimely re-add, and the `process` run gives out no id twice. In
PermissionEdit, `CanonicalAfterApply`, `OthersUntouched` and
`RevokeRemovesExplicit` are about edits that read no inherited entry: once
inherited entries have become explicit, an edit can break canonical order and
the access of trustees its plan does not name. `OthersUntouched` and
`DiffCoversWrite` are about masks the parser knows in full, `DiffCoversWrite`
also about entries it knows; one it skips is deleted without being in the diff
(`editor.rs:286` calls it a "Structured diff against original DACL").

Read in the code, without a property of their own:

* `evt/`: `query()` does not pass on `reverse` and `max_results` (`query.rs:72`);
  attributes of `Provider` and `TimeCreated` are taken from start tags only, not
  from empty elements; the codes of some variant types differ from the ones
  Windows uses; `list_channels` takes any error for the end.
* `process/`: `with_parent` stores a pointer to a temporary (`spawn.rs:119`);
  the environment block is read as 64 KB at most (`peb.rs:329`) and its `=C:`
  entries collapse into one; a loaded module whose address ends in 32 zero bits
  looks like a failed load.
* `registry/`: a `REG_SZ` without terminator loses its last unit; a value name of
  more than 255 units fails the listing.
* `mitigation/`: an HRESULT is compared with the Win32 code 5; `proxy/`: a static
  proxy is ignored when the auto-configuration fails; `desktop/`: a frame that
  lost its device is not drawn again by itself, and the clipboard stays empty
  when `set_text` fails after emptying it.
* `etw/session.rs:636`: the drain loops of `next_batch` have no bound.

### Bounds

Names containing `Max` are bounds and appear in guards only. Four records with
capacity 2 fill a channel, overflow it and drain it again while both streams
are in use; the accounting and the bound are proved for every capacity, 0
included. Two traces at a time are enough for every take-over (`Meetings` in
MCEtwSession). Two clients let one replace the other around a check; two
messages, in either direction, fill the queue and let a late completion meet a
new operation (`MaxTraffic` in MCNamedPipe). Three pipes with two entries per
query need two queries per scan, three changes place one in each gap. Two
signals and two callers give every order of first registration, second
registration and delivery. Four processes make a tree of depth three with a
branch and a protected process. Two writes let an edit meet the result of
another one or of a protected rewrite; the DACLs include entries the parser
skips, a mask it knows in part and one it refuses. Six nested frames are a posted message
whose handler destroys the window, WM_DESTROY, WM_NCDESTROY, and a message sent
from the handler's Drop inside that. Three restarts put one before, between and
after the two messages that make an icon.

Three events let a record meet a cached schema, a refused one and a map of
another provider, and two self-describing events meet under one key; payloads are
given whole and cut around the ends of their fields, and each layout of `Misread`
has a record without which its exemption could be dropped. Batches of two over three records make a full batch, a
short one and the end; a message of more than 4 units needs the second buffer
size, 8 is the largest. A list of three with capacities 0, 1 and 4 fits, does
not fit, and grows in between. A timeout of three tenths with delays of one
tenth is passed by a sleep as well as by a query; hints of 0 and 25 tenths are
clamped from below and from above. The five SMBIOS tables have the identifier
first, behind strings, behind a structure without any, too short, and not at
all. Texts of up to four units surround a first buffer of four. Three
directories leave one above and one below the handle that is held, so that a
swap above it, which cannot be prevented and must not matter, is reached;
content of three needs several writes. The first image has two DLLs
with an unreadable descriptor between them; the others are it with cells cut off,
without an import table, with a section near the top whose sums exceed the width
of 4, and with cut headers. What each declares is also written down by hand and
compared (an `ASSUME` of MCObjects). Exit codes are 0 and 259, three processes let an
id be recycled twice. Two threads and two letters let a mount fall between the
letters of a map that both threads build. Three processes are the least in
which the instance guard has an owner, a loser and a late comer.

Symmetry is used for three unprotected process ids only, in `process`, which
has no liveness property. Deadlock is checked in `stream`, `session`, `pipe` and
`process`. `CHECK_DEADLOCK FALSE` appears where a system may really stop: a
process that has ended, a window that is gone, a dropped icon, a program whose
calls are used up.

### Fairness

* *EtwStream, EtwSession*: a callback that has begun goes on, `ProcessTrace`
  returns once its session is gone or its handle closed, an owner inside `stop`
  or inside the retry of `start` goes on. These are single threads running
  straight-line code. Nothing obliges the kernel to produce records or an owner
  to begin a call.
* *NamedPipe*: a call's timeout elapses and the kernel completes what was
  cancelled. `RacedClientServed` is about a server that calls
  `connect_with_timeout` in a loop, so it also assumes that loop
  (`AcceptLoop`), which is strong fairness because another thread may
  disconnect in between.
* *ConsoleSignal*: threads that hold or wait for the mutex run, a signalled
  wait returns. Nobody has to register or to wait.
* *PipePoller*: the polling thread runs and its sleep returns.
* *Enumerations, EventLog*: a thread inside a call goes on. Nothing obliges what
  is listed to stop changing; that a growing buffer ends all the same rests on the
  bound `MaxListChanges`, which stands for changes that cannot outrun the doubling
  for ever.

No fairness is assumed of a window handler, of clients, of the shell, of a
service or of other processes, and no liveness is claimed that would need it.

## Proofs

Proofs are checked for all values of the constants, from the assumptions named
in the modules: capacities, sizes, timeouts and bounds are natural numbers,
model values that stand for "none" are not members of the sets they are used
with, an allow-list names clients, objects of different kinds in ConsoleSignal
are different, the XML of a record is a sequence of tokens, the texts of a list
view are sequences, plans hold grants, denials, revocations and replacements, a
parent's inheritable entries are in canonical order; the texts of a firmware
table are not empty and hold no 0 (`HostAssumption`, the format has no other),
registry texts are sequences of units and there are finitely many subkeys
(`RegistryAssumption`), the extents of a file follow each other
(`SizesAssumption`), an image has some of the five headers and sections given by
naturals (`ImagesAssumption`), labels of value maps are texts, a name of the
alias lists sounds like its own side (`LabelsAssumption`, `SoundsAssumption`), and
a reader that is off its field finds bytes, not nothing (`StrayAssumption`).
Where a component's module
needs no assumption for TLC, the theorem states it as a hypothesis: `Timeout` and
`MaxDelay` are natural numbers and hints are sets of them (Services), `NoTip` is
no tooltip (TrayIcon), `MaxMoves` is a natural number and `NoMap` no thread
(ProcessInspect). TLC evaluates the assumptions in the runs.

Every proof has the same outline: an inductive invariant, a lemma that the
initial states satisfy it, one lemma per action or group of actions that it is
kept, and the property from it. Where a loop runs inside one step, what it
computes is proved by induction over its rounds, through the least round at which
the claim would fail (`NatMin`, `SetInduction`), and never by an induction rule
with a predicate parameter. What the invariants add is the argument:

* **NumberFacts.** Least numbers and induction over a set; that a function defined
  round by round exists and has its values (`Recursion`); ranks in finite sets;
  what `InOrder`, `AtPlaces` and `Filter` list (`InOrderLists`, `Picked`,
  `FilterPicked`); and where each member of a concatenation comes from
  (`ConcatPieces`, `ConcatMembers`).

* **EtwStreamProofs.** Type correctness first. `DroppedExact` and
  `ChannelBounded` are then inductive with the type invariant, one case per
  action, because sends and drops are counted in the step that decides them.
  `StopQuiesces` needs a stronger invariant: what each step of `stop` has
  already ended (the session before the handle is closed, the handle before the
  join), and that a finished thread has no callback under way. `InOrder` and
  the refinement of LossyQueue are step properties: each step of the stream is
  shown to be a send, a receive or neither on each channel (`ChannelSteps`),
  and each of those maps to a LossyQueue step or a stutter. `ProcessedIsExact`
  (`ProcessedExact`) follows the output of the call under way, which is empty
  between calls, and when it is counted (`Accounting`).
* **NamedPipeProofs.** `Safe` adds to the four properties that a peer is
  connected exactly when the instance says so, that an operation is pending
  only in the places of the call that owns it, and that the check, once it has a
  client's id, looks at the peer's process or at another one whose peer has left
  (`VettedInv`). `MessagesAccounted` (`ReadAccounted`)
  adds that the places a message can be in are disjoint and together hold every
  message written so far, and that the pipe's queue holds each once.
* **InventoryProofs.** `BaselineReplayed`: replaying a diff on the old baseline
  gives the new one. `ScansAreFaithful` (`ScanFaithful`): while a scan runs, the
  snapshot increases up to the directory's cursor and holds every name up to
  there that was present all the time (`Scanned`); a buffer is the next
  entries, without a gap (`BatchIsNext`). `RestartIsHonest`: the clock of the
  wait is ahead of the last checkpoint, and only some states of the service can
  be met if nobody else acted; the bound holds because a sleep is clamped to one
  second. `ListsAreFaithful` (`ListFaithful`): what each step of a listing call
  knows of the list between its size query and its walk (`Walk`), for the three
  ways of sizing a buffer, and that a list is cut only when a failure was passed over. `HostIsFaithful` (`HostFaithful`): the firmware table
  is a concatenation of the bytes of its structures, so each structure has a
  place in it; texts end with one 0 and a structure with two, so the scan for two
  zeros stops at the end of its structure and nowhere before (`TextsEnd`), and by
  induction the cursor meets the structures one after the other and finds the
  identifier of the first system structure if there is one. Users are filtered in
  the order of the profiles, each name once; both names of a release come from
  one decision; a power request is made only after the privilege was enabled, and
  the token is closed by then (`PowerInv`).
* **ObjectsProofs.** `GuardedCreates` (`GuardedCreate`): what is walked into was looked at
  and is no link, and the directory held cannot become one,
  a call under way has no result yet, and one that writes holds a file it has
  created and has written no more than the content (`SafeInv`).
  `FilesAreFaithful` (`FilesFaithful`) has two halves. A copy's counters give its
  place among the units of the file: extents before the current one in full, of
  the current one the clusters read (`CopyAt`, `CopyInv`); a read continues there
  whatever the sizes of extent, buffer and last cluster, as long as no read was
  short (`CopiesAreFaithful`).
  An import walk goes as far as every cell up to there is readable and not the
  last one (`RunLengthIs`); a descriptor gives what is declared for its DLL in the
  order of its thunks (`DescriptorPiece`), and the pieces one after the other
  give every declared place once, in table order (`ImportsInOrder`). The DLL list
  keeps the least place of every name (`NamesOnce`), and a saturating sum is the
  sum where it fits (`SectionsFound`).
  `EnabledProxyHasServer` (`EnabledHasServer`): a read that has seen the switch on
  and no gap since finds the server given (`ReadInv`), because the switch is read
  before the server. `EditsAreSound`
  (`EditSound`): `Drafted` says of a DACL after some operations of the plan that
  the entries of other trustees are the parsed ones and that no revoked trustee
  has one back; then only the set of entries matters, because in a canonical,
  explicit DACL a right is granted if some entry allows and none denies it
  (`AccessDecided`). `RegistryIsFaithful` (`RegistryFaithful`): a list of texts is
  laid out text by text with their terminators, and splitting it at its zeros
  finds the same places again (`LaidOut`, `ReadBetween`, `ListRoundTrip`); lists
  with an empty text or a unit of 0 have no representation and are excluded
  (`Representable`). Of a listing under way, `ListingInv` says that the names
  below its index, counted by their rank among the keys that are left, have all
  been listed unless one was deleted, and are the only ones unless one was created.
* **ProcessProofs.** `InspectionFaithful` (`InspectFaithful`): a refresh is never
  undone because the map under construction is the lock holder's and began after
  the last refresh (`MapFresh`); parameters are not mixed up because the
  addresses were taken before the buffer is used again and stay those of a
  target that has not moved (`ViewCurrent`). `SpawnIsSound` (`SpawnSound`) and
  `AnswersAreTrue` (`AnswerTrue`): what is left of `spawn` and `inject_dll`
  determines what is held, and an open handle keeps an id from being reused
  (`HandlesPin`). `AppliedPlanInForce` (`PlanInForce`): what the plan asks of the
  policies behind the current one is in force, and nothing takes it back.
  `TreeIsKilledExactly` (`TreeKilledExactly`): what is collected below a process is
  exactly what a chain of parent ids links to it (`Linked`); while ids are not
  reused parents do not change, so what is to be killed stays inside the tree of
  the target and is closed under the snapshot's children (`TreeInv`).
* **DesktopProofs.** `SignalsAreHandled` (`SignalsHandled`): `SignalInv` relates
  the lock's holder to the places of the registering callers and of the handler
  threads: the lock is kept between the installation of the handler and the
  first push, so a handler that gets the lock finds a list that is not empty, and
  has set exactly the prefix of the list it has walked; `WaiterInv` says that
  the index a woken thread returns names an object of its list that was set.
  `HandlerLives` (`HandlerLifetime`): of the frames on the stack one at most tears
  the window down, WM_NCDESTROY is sent by that one, and how far the procedure
  has come with it shows in the slot (`FrameInv`, `SlotInv`, `OwnerInv`). `TrayIsConsistent` (`TrayConsistent`): an
  icon the shell shows is either remembered as added or about to be, and an own
  window is open whenever the icon is. `WidgetsAreConsistent`
  (`WidgetsConsistent`): the mutex is new for one process at most (`GuardInv`), a
  target, and the one a frame began with, has its own brush and the canvas's
  resolution and size (`CanvasInv`), and the parent knows the selected row
  (`ListInv`).
* **EventProofs.** `RecordsAreFaithful` (`RecordsFaithful`): per thread, the
  batch is the last records fetched without those already handled, in the log's
  order, the ones before it are accounted for, and the open handles are those of
  the batch (`LogInv`); a returned record carries the named values of its own XML,
  or none in the default format (`DataInv`). `SchemaCacheInvisible` (`CacheSound`):
  every cache entry is what TDH answers for some event of the key it is stored
  under (`CacheTrue`, `PendingDescribed`); a refusal is never stored. `DecodesFaithfully` (`DecodedFaithfully`) rests on it, so only the walk
  over one payload is left: for a field that is whole and none of `Misread`, the
  size the decoder takes is the one TDH's rules give it (`LaidOne`, `OneWhole`); by
  induction over its rounds the walk stands at the start of each whole field with
  the numbers of all earlier ones (`Progress`, `WalkFaithful`), and a cut field
  gives nothing of the writer. Maps change a text only; the typed events take the
  first field by alias and then the first by pattern, which in a whole payload
  holds an address of that side (`AddressesAreFaithful`, `NamesAreFaithful`).
  The session life cycle: `LifeInv` says, for every trace and every place in
  `start` and `stop`, which resources it holds, when its session can still be
  in the table, which session it reads and when providers are off. None of the
  properties is inductive alone: that a failed start leaves no session depends
  on the clean-up of each earlier step. All follow from `LifeInv`.

`PrivateLeavesKernelLogger` (EtwSession), `InOrder` and `ChannelBounded`
(EtwStream) and `AcceptedClientExists` (NamedPipe) are proved and not repeated in
a run.

Only model-checked: the six liveness properties (`TraceEnds`, `SessionProgress`,
`ServerProgress`, `QueryEnds`, `ScansEnd`, `SignalWakes`), because they rest on
fairness and ENABLED, which the provers do not reach. Every invariant and every
action property of the passing runs is a theorem.

## Not modelled

Cryptography, menus, themes, DPI, message records, anonymous pipes and the error
types hold no state over time, or none a model checker says anything about. In the
modelled parts, changing the allow-list of a live pipe server, `wait_all` and named
events, painting and geometry, balloon notifications, controls other than the
list view, the text forms of SIDs, rights and rendered event values, counters that
are read by one call, and the environment block of a process are left out. The
system's side of ETW, pipes, WinHTTP, the event log and the registry is modelled
only as far as the crate uses it.

## Plan

1. Done: the ETW, pipe, console, process, permission, window and tray modules;
   decoding, event log, services, listings, host, registry, files, proxy,
   mitigation and the smaller desktop parts; proofs of all safety properties of
   the runs.
2. Proofs to add: liveness, once a prover for fairness is at hand; the typed
   process and file events of a payload that is cut, which the decoders read as
   far as they go.
3. Compositions worth stating: a trace and the session table (EtwStream as the
   inside of an EtwSession trace), a server loop over NamedPipe whose cancel
   signal is a ConsoleSignal wait, and a window whose handler owns a tray icon
   (TaskbarCreated arrives through the message queue).
4. Parts still to model: `wait_all` and named events, the allow-list of a live
   server, SDDL rights and SID text as pure algorithms.
