# DABC: a verification of the core framework and its web pages

DABC (Data Acquisition Backbone Core) is a C++ framework in which *workers*
(modules, ports' transports, devices, the manager) run in *threads*, exchange
*commands* and *events*, and pass *buffers* through *ports*. Its web server
publishes the state of a running application to pages in JavaScript, which show
it and control front-ends and data taking. This directory
holds TLA+ models of it, the TLC configurations that check them, and TLAPS
proofs. Paths below are relative to the repository; `Object.cxx:317` stands for
line 317 of `src/base/src/Object.cxx`, headers are in `src/base/dabc/`,
and `dabc.js`, `dofi.js`, `mbs.js`, `pexor.js`, `gosip.js` under `src/plugins/`.

- `PROJECT.json` maps every definition to the lines it models, and lists the
  runs, the mutants that show that each property can fail, the hazards, the
  findings and the theorems.
- A run: `tlc -config ObjectRef.cfg ObjectRef`. A proof: `tlapm ObjectRefProofs.tla`.

## 1. Inventory

### 1.1 What the core framework is made of

| Component (source) | State it keeps | Operations | Interacts with |
|---|---|---|---|
| **Object, Reference** (`Object`, `Reference`) | state bits, `fObjectRefCnt`, child list, `fObjectParent`, flags | IncReference, DecReference, Destroy, DeleteThis, AddChild, RemoveChild(s), ObjectCleanup | its thread (DestroyByOwnThread), the manager (DestroyObject), parent and children |
| **Worker, Command, CommandsQueue** | `fWorkerCommands` with entry kinds, command level, `fWorkerActive`, fired events; per command: stack of callers, result | Submit, Execute, Assign, Reply, GetCommandReply, ProcessCommand, timeouts, CancelCommands | other workers through their threads |
| **Thread** (`Thread`) | `fWorkers` slots with halt requests, recursion and processed counts, event queues, state | AddWorker, HaltWorker, InvokeWorkerDestroy, CheckWorkerCanBeHalted, MainLoop/SingleLoop, ProcessNoneEvent, evntCleanupThrd, Start/Stop | its workers, its exec worker, the manager |
| **Event queues, Condition** (`Thread::_GetNextEvent`, `threads`, `Queue.h`) | three priority queues with scalers, fired counter | _Fire, _GetNextEvent, Wait | every thread |
| **Manager** (`Manager`) | folders, destroy queue, dependency pairs, parameter events, local address | DestroyObject, ProcessDestroyQueue, PreviewCommand, FindThread/DoCreateThread, CleanupApplication, HaltManager | everything |
| **Module, ModuleAsync, ModuleSync, ModuleItem** | run flag, item lists, disconnect flags | Start, Stop, ProcessItemEvent, WaitItemEvent | ports, pools, timers, commands |
| **Port, LocalTransport** | queue of buffers, `fConnected` mask, signal flags of both sides, blocking flags | Send, Recv, ConfirmEvent, SignalWhenFull, Disconnect, PortActivated, ConnectPorts | two modules in two threads |
| **InputTransport, OutputTransport** (`DataTransport`, `DataIO`) | transport state, current buffer, extra buffers | ProcessEvent per state, Read_CallBack, timeouts, stop | a port, a DataIO addon |
| **NetworkTransport** | send and receive records, acknowledge counters | FillRecvQueue, CheckAcknReadyCounter, ProcessSendCompl, ProcessRecvCompl | sockets or verbs, a pool |
| **MemoryPool, Buffer** | block reference counts, free list, pending requests | TakeBuffer, IncreaseSegmRefs, DecreaseSegmRefs, ProcessSend, RecheckRequests | any thread that holds a buffer |
| **ConnectionManager, ConnectionRequest** | connection records with progress and delay | ProcessParameterEvent, ProcessTimeout, FillAnswerOnRemoteConnectCmd, HandleCmdGlobalConnectReply | the other node's manager, devices |
| **SocketCommandChannel** | clients with send queues, receive state, reconnect | ExecuteCommand, ProcessRecvPacket, SendCommand, ReplyCommand, ProcessTimeout | other nodes |
| **Socket thread and device** | poll sets, addons, server side connection records | MainLoop, addon callbacks, handshake of SocketDevice | the operating system |
| **Publisher, Hierarchy, Record** | versioned trees, subscriptions, local and remote caches | publish, subscribe, get, update | producers, browsers |
| **Parameter** | value, limits, change flags | SetValue, ExecuteChange, events to the manager | workers, manager |
| **Application, Factory, Configuration** | application state machine, XML trees | state change commands, creation of objects | manager |
| **Event builders** (`plugins/hadaq`, `dogma`, `mbs` CombinerModule) | per input: current event, trigger number, buffers | ShiftTo…, BuildEvent, DropAllInputBuffers | ports |
| **Bnet master** (`plugins/hadaq/BnetMasterModule`) | list of builders and inputs, run state | run control commands and replies | the builders' nodes |

The web pages, each a program of a browser tab:

| Component (source) | State it keeps | Operations | Interacts with |
|---|---|---|---|
| **DOFI page** (`dofi.js`, `dofi/src/TerminalModule.cxx`) | copy of the registers, input elements, `fChanges` | Apply, Show, Dump, Reset, Configure, edits | the board behind an SPI device, through DofiCommand requests sent in parallel |
| **MBS and PEXOR pages** (`mbs.js`, `pexor.js`) | parameters known, view, monitoring mode, `fUpdateTimer` | RefreshMonitor, ChangeMonitoring, acquisition and file commands | parameters and commands of the server |
| **POLAND page** (`gosip.js`, `gosip/src/Player.cxx`) | `Setup`, form, board chosen, `fSFP` and `fDEV`, broadcast | Show, Apply, Trigger, Configure, other commands | front-ends, through lists of registers for which the Player runs gosipcmd |
| **Event builder network page** (`dabc.js`, BnetPainter) | lists of nodes, information per row, calibration item, timer, `mainreq` | main request, requests per row, cleanup | BnetMasterModule and its nodes |
| **Control pages** (`dabc.js`, HadaqDAQControl, StreamControl) | interval per opening, `inforeq` | ask for the status, stop itself | combiner and stream modules |
| **Items with history** (`dabc.js` and `Hierarchy.cxx`) | `item.history`, `request_version`; the ring and the versions of the server | makeItemRequest, afterItemRequest, History::SaveTo, MarkVersionIfChanged | browser and server |
| **Drawings** (`gauge.js`, `elder.js`, `fesa.js`, rest of `dabc.js`) | painter options | draw, convert | - |

The remaining plugins are drivers of hardware, bindings to outside libraries,
analysis and vendored code (jsroot, civetweb); `src/applications` holds test
programs, read as tests.

### 1.2 What is hard, and what correctness means

- **Object.** DecReference leaves the mutex three times, and asks the thread or
  the manager to go on. *Correct*: the counter is the number of references; one
  executor of the cleanup and of the destructor; nobody touches the object
  after; the stages never go back; somebody always deletes it in the end.
- **Commands.** A handler waits in a nested loop of the same thread, where other
  commands arrive; the reply walks back through callers that may have
  timed out or may be going. *Correct*: one custodian per command, none is
  lost, one answer, synchronous calls return, a worker leaves nothing behind.
- **Thread.** Ids are slots and are used again; halting waits until all
  accepted events have been processed and no handler is on the stack.
  *Correct*: balance = queued events, a request finds the worker it was made
  for, no worker goes while its handler runs, requests are served, an empty
  thread goes and a used one stays.
- **Event queues.** *Correct*: the fired counter is the number of queued events
  (no lost wake-up), low priorities are not starved.
- **Manager.** *Correct*: every queued object is destroyed once, dependencies are
  told first, parameter events are not lost, halting ends.
- **Ports and LocalTransport.** Both threads change signal flags and the queue;
  either side may disconnect. *Correct*: FIFO, no lost wake-up in any of the
  signal kinds, bounded, nothing delivered to a side that has gone, cleaned once.
- **Data transports.** *Correct*: each buffer is delivered once and in order,
  no callback is lost or taken twice, a stop ends.
- **NetworkTransport.** *Correct*: never more packets in flight than the
  receiver has buffers; records are used by one operation at a time.
- **MemoryPool.** *Correct*: a block is free iff nobody references it; a request
  that can be served is served.
- **ConnectionManager, command channel.** Messages, timeouts and retries of two
  nodes. *Correct*: both ends agree on the connection or both give up.
- **Event builders.** *Correct*: an event holds sub-events of one trigger number,
  in order, also across the overflow of the number; no input is waited for for ever.

- **Web pages.** Requests are under way in parallel, are answered in any order,
  fail, and arrive after the user has gone on or the page has been closed.
  *Correct*: what is written to a board is what the user set, and never a value
  the page does not know; what the page reports and shows is what the server
  has, once things settle; a page that is open goes on asking, a page that is
  gone falls silent, and one timer runs at most.
- **Item history.** Two trimmed lists, a ring in the server and an array in the
  browser, are kept together by a version number. *Correct*: the drawn series has
  no value missing, doubled or out of order, or the server says that there is a gap.

`PROJECT.json` lists the hazards with their lines and the properties that cover
them, or the module planned for them.

## 2. Plan

| Step | Module | What it adds |
|---|---|---|
| done | `ObjectRef`, `ObjectRefProofs` | destruction of one object, proved |
| done | `CommandCall`, `CommandPromise`; `CommandCallProofs`, `CommandPromiseProofs` | commands between workers; custody, queues and the refinement of a promise proved |
| done | `ThreadWorkers`, `ThreadWorkersProofs` | slots, halting and cleanup of a thread, proved |
| done | `SequenceLemmas` | facts about appending, popping, removing and counting that the proofs of queues share |
| done | `DofiPanel`, `MonitorPanel`, `GosipPanel`, composed in `FrontendPages`; `DofiPanelProofs`, `FrontendPagesProofs` | control pages of the front-ends; their safety and action properties proved |
| done | `BnetPanel`, `StatusPanel`, `ItemHistory`, composed in `DabcPages`; `DabcPagesProofs` | pages of the web server; versions and history of the hierarchy, with restarts; types and drawn series proved |
| 1 | `LocalTransport` (refines a FIFO channel `Channel`) | ports of two modules: signal kinds, blocking flags, disconnect; proof of the invariant behind "no lost wake-up" |
| 2 | `EventQueues` | priorities, scalers, the fired counter of Condition, Start and Stop of the thread |
| 3 | `MemoryPool` | reference counts of blocks, waiting requests, buffers copied between threads; proof that counts are exact |
| 4 | `NetworkTransport` over a channel that keeps order | acknowledge counters, records; proof of the credit bound |
| 5 | `DataTransport` | input and output state machines, callbacks, stop |
| 6 | `ConnectionManager`, `CommandChannel` | two nodes, timeouts, lost connections |
| 7 | `EventBuilder` | synchronisation by trigger number modulo its width |
| 8 | `ObjectTree`, `Publisher`, `ModuleRun` | the object tree, producers of the hierarchy, user code of modules |

Composition: `MemoryPool` is to be instantiated by `NetworkTransport` (the
buffers of the receive queue), `LocalTransport` by `DataTransport` (the port).
Every safety and action property that a passing run checks is proved; the steps
above come with proofs of their own. The modules are
written for proofs: no recursive operators, parameters with named assumptions,
one action per operation.

## 3. The modules

### 3.1 ObjectRef: the life of one object

A C++ `Reference` is a *token*: the variables of user threads (`Refs`, one of
them the entry in the parent's child list), the `fObjectParent` references of
children (`Kids`), the count delegated to the thread (`Thrd`), the entry of the
manager's destroy queue (`Mgr`) and the variable local to DecReference (`Local`).
`held` is the set of tokens that exist, `refcnt` is the integer of the code; the
code itself never compares them.

| TLA+ | Code |
|---|---|
| `DecReference(t, ask, dec, fromThread)` | the first critical section, `Object.cxx:317-419`; each disjunct is one outcome of its switch |
| `run[t]` | where the call made on token `t` stands between its critical sections |
| `Release`, `Destroy`, `DestroyObj`, `DeleteThis`, `DeleteThisDestroy` | the public operations that end in DecReference; DeleteThis leaves the mutex before it calls Destroy |
| `ThreadAccepts`, `ThreadRefuses`, `ThreadDestroys` | the answer of DestroyByOwnThread and the later call from the thread |
| `CleanupChilds`, `ReleaseOrphan`, `CleanupParent` | ObjectCleanup: the children are taken out under the mutex and released one at a time outside it |
| `FinishDestroy`, `ManagerQueues`, `ReleaseLocal`, `ManagerDestroys`, `Delete` | who calls `delete` |
| `Adopt`, `ParentExtracts`, `AddChild`, `RemoveChild` | the two child lists the object takes part in |

Critical sections of the object mutex are the atomic actions. The thread is
asked by any caller; whether it accepts is open (ThreadWorkers models why).

Environment: `LateAdd = FALSE` says that nobody adopts the object or creates a
child of it after its destruction began. The code does not check that, and the
run ObjectRefLate shows what happens otherwise.

### 3.2 CommandCall: submit, execute, reply

Every worker has a thread of its own; a thread is the stack of frames it is
inside of (event, exec, wait, reply). The handlers of the workers are arbitrary
within the routes of the constants: they return, keep a command and answer later,
redirect it, assign commands to others, call synchronously.

| TLA+ | Code |
|---|---|
| `cmds`, `events` | `fWorkerCommands` and the thread's events of this worker; an event carries the entry's id |
| `callers`, `exeReady` | `fCallers` of the command and the flag on the stack of RunCommandInTheThread |
| `Submit`, `AsyncCall`, `SyncCall` | `Worker.cxx:965-1003`, `938-956`, `881-936` |
| `SubmitEvent`, `NextPostponed`, `EventDone`, `ReplyEvent` | ProcessCoreEvent, `Worker.cxx:392-447` |
| `ProcessCommand` | `Worker.cxx:449-497`: drop, postpone or execute |
| `ReplyTakes`, `ReplyDelivers` | Command::Reply and GetCommandReply, two steps because the mutex is released in between |
| `SyncCallReturns`, `SyncCallTimesOut` | the end of RunCommandInTheThread, `Thread.cxx:517-616` |
| `DestroyAsked`, `Halt`, `Cleaned` | the removal of the worker, seen from its commands |

`CommandPromise` is the abstract specification of a synchronous call: it is
answered at most once and after the command got its one result, and returns
after the answer or on its timeout. The mapping: a call waits while a `wait`
frame of its command is on a stack; it is answered when `exeReady` is set.
Run CommandCall checks `Promise!Spec` as a property, and PromiseTheorem proves it.

Entries are named by command and kind instead of the id of the code; that this
names one entry is part of `EventsMatchQueue` (no two entries of a queue are
equal). `ChangeKind` looks for the first entry of the command, as the code does.

Environment: nobody cancels a command (Worker::CancelCommands is only modelled
in the cleanup); a worker always has a thread (Execute without a thread runs the
command in the caller's context and is not modelled); a worker that is asked to
be destroyed has its request accepted.

### 3.3 ThreadWorkers: the slots of a thread

One thread with its slots from index 2 on (0 is never used, 1 is the exec
worker). Two FIFO queues stand for the highest and the lowest priority; either
may be served next, as the scaler allows.

| TLA+ | Code |
|---|---|
| `slots` | `fWorkers`: worker, halt requests, processed events, commands to answer |
| `stack` | handlers that run, with a flag for those that wait in a nested loop (recursion counts) |
| `Assign`, `AddWorker` | AssignToThread and the AddWorker command |
| `AskDestroy`, `InvokeWorkerDestroy`, `DestroyRequest` | DestroyByOwnThread reads `fWorkerId` without a lock, and submits it later |
| `HaltWorker`, `HaltRequest`, `HandlerHalts` | DettachFromThread, from outside and from the worker's own handler |
| `CheckWorkerCanBeHalted`, `RemoveWorker` | the two critical sections of CheckWorkerCanBeHalted, `Thread.cxx:925-1022` |
| `WorkerEvent`, `EnterLoop`, `LeaveLoop`, `HandlerReturns` | ProcessEvent of a worker's event, with nested loops |
| `CheckWorkers`, `CleanupThrd` | ProcessNoneEvent and evntCleanupThrd |

Environment, each a constant with the value the pass run takes (the definitions
ThreadSafe, InOrder and their helpers state it, and model no code):

- `LateAssign = FALSE`: a thread that may already be on its way out gets no new
  workers. The code does not exclude it (evntCleanupThrd only prints "something
  strange" when the number of workers is not 2, `Thread.cxx:1162-1167`).
  No theorem but ThreadKeptTheorem assumes it.
- `Unordered = FALSE`: a worker leaves only after its AddWorker was processed, is
  not halted and destroyed at the same time, and the last ones do not leave
  while others join. Without this, a request is sent under id 0 (run
  ThreadWorkersEarly), or under an id that another worker has got by then.
- `Keepers`: workers that stay (a thread of a running application has them).

### 3.4 DofiPanel: the page of a DOFI board

The state of the page is three copies of the registers that may differ: the
board (`hw`), the page's arrays (`copy`), and the input elements (`shown`). An
element (`Keys`) is a field of a register, a write carries a register, a read a
bank. `net` is the set of requests under way, each executed (`done`) or
not; `calls` are the promises that wait for all of their requests.

Delays and lengths (`Numbers`) are 24 bits wide. The page shows them with
`Display`, in units of ten and as signed numbers, and reads them back with `Enter`,
which divides towards zero and keeps 24 bits; `hw` and `copy` hold the bits,
`shown` what stands in the element.

| TLA+ | Code |
|---|---|
| `Edit` | MarkChanged, `dofi.js:721-731` |
| `ApplySetup`, `Writes`, `Settable` | EvaluateChanges, ApplySetup and SetRegisters: the marks go into the copy one by one, each sends the register as it is by then; a mark in a bank that is lost throws |
| `Display`, `Enter` | GetInputDelay, GetInputLength and their setters, `dofi.js:111-157` |
| `RefreshAll`, `Dump`, `Reads` | Update and GetSetup |
| `RefreshView`, `Filled` | the tables are filled in order, until a value that is not there throws |
| `Reply`, `Fail`, `Completes` | DofiCommand's then and catch, the end of the apply and ClearChanges |
| `Refreshed` | RefreshAll when everything is answered |
| `Execute` | `TerminalModule.cxx:87-138`, `272-403`: requests in any order, register by register; where the SPI access fails nothing is written, or a read answers what an earlier one has left in `com.value` (`Leftovers`), and the answer has its results all the same |
| `ResetDofi` | `TerminalModule.cxx:405-426`: opens the SPI device again and changes no register |
| `Configure` | `TerminalModule.cxx:428-485`: writes the registers a file lists, in part if the access fails |

`ok` of a call is history for the properties (`Disturbed`, `Ended` and `First`
belong to it and to the numbering of calls, and model no code): nothing disturbed it
(another call, a request that failed on its way or at the board, a write that
overtook an earlier one of its register).

What a refresh can promise follows from the conversion. `UndisturbedRefreshShows`
says that every element shows a value that converts back to what its register
holds, and below 0x800000 the time itself. Without that limit it would be what the
comment at `dofi.js:33-34` and the limits of the elements (`dofi.js:1091-1092`) say,
and it does not hold (section 5).

### 3.5 MonitorPanel: the pages of MBS and PEXOR

Both scripts have one structure, and `panel` tells where they differ: mbs.js
starts monitoring, refreshes in a finally, and shows the view also when the last
request failed; pexor.js does neither. `timers` is the set of intervals
the browser runs, `lastTimer` the one that `fUpdateTimer` remembers.

| TLA+ | Code |
|---|---|
| `RefreshMonitor`, `Requests`, `Arrive`, `RequestFails` | Update and its callbacks; the answer to the last parameter shows the view |
| `StartTimer`, `StopTimer`, `ToggleMonitoring` | ChangeMonitoring and the handler of the checkbox |
| `SendButton`, `SubmitFileForm`, `CommandReturns`, `CommandFails` | the buttons, the file form and DabcCommand |
| `OpenOnline` | the items of the server have been loaded; nothing is asked before |
| `CheckedAtStart` | the checkbox is checked in `mbs/htm/main.htm:392` and `pex/htm/main.htm:374` |
| `CommandExecuted`, `CommandRefused` | the file and acquisition commands of `pex/src/ReadoutModule.cxx` and `pex/src/Device.cxx`; the MBS page's go on to a remote MBS (`mbs/src/Monitor.cxx:1047-1065`) |
| `ServerChanges`, `Answer` | the states that Monitor reads from the MBS (`Monitor.cxx:937-979`), and their delivery by the web server |

The parameters of the server are on or off and may change at any moment: more
than Monitor and Device do, which is on the safe side for what is claimed.

### 3.6 GosipPanel: the page of POLAND boards

`target` is the pair fSFP, fDEV that the next command goes to, `chosen` and
`broadcast` are what the page shows; ReadSlave brings them together, and not
every handler calls it. The registers are grouped by what reads, writes and shows
them, in the order in which the lists of the page end with them (`ListOrder`).

| TLA+ | Code |
|---|---|
| `GosipCommand` | one request with a list of registers or one command |
| `Show`, `Apply`, `Trigger` | the buttons; Trigger goes to all boards and changes the label ahead |
| `OtherCommand`, `ResetPEX`, `ScanOffset` | commands that touch no setting of the page; ScanOffset sends two requests at once, ResetPEX goes where the last command went |
| `ConfigureBoards`, `Unconfirmed` | a file, to the target of the command before; a command that is asked for and not confirmed |
| `BoardsExecute` | gosip::Player, `Player.cxx:52-157`: the list is given up at the first register that fails, at each board of a broadcast by itself, and the request answers true |
| `GosipReply`, `RefreshForm` | ReadRegisters makes NaN (`Unread`) of what was not read; a check box shows a bit of it, which is 0 |

`whole` of a request is history: no board has failed a register of it. A group
counts as written when all of its registers were. `alone` is history too: no
other request has met it.

**FrontendPages** puts the three pages into one specification: `app` is the page
the tab has opened, the variables of the others rest.

### 3.7 BnetPanel: the page of the event builder network

| TLA+ | Code |
|---|---|
| `SendMainRequest`, `MainArrives`, `MainFails` | sendMainRequest with its guard, processMainRequest |
| `InfoRequests`, `InfoArrives`, `InfoFails` | sendInfoRequests, processReq, processCalibrReq: an answer goes to the row it was asked for, whatever the row is labelled now |
| `DisplayCalItem`, `ClearCalItem` | displayCalItem; the item of the label is in the directory of the row's item and named in the row's answer |
| `Cleanup` | cleanup; answers that arrive later still run |
| `ListChanges`, `MasterAnswers` | the lists the master keeps, `BnetMasterModule.cxx:185-229`: nodes join and leave |

### 3.8 StatusPanel: the control pages of combiner and stream

Each opening of the page starts an interval with an `inforeq` flag of its own.
It stops itself when its elements are gone; when the page is opened again
in the same frame they are not, and the interval of the earlier opening goes on.

### 3.9 ItemHistory: the history of an item

Server and browser together. Values are numbered in the order the item took
them, which is what the properties need of them.

| TLA+ | Code |
|---|---|
| `ServerChange`, `ServerTouch` | MarkVersionIfChanged and AddHistory, `Hierarchy.cxx:605-612`, `692-748` |
| `ServerRestart` | a new process: versions begin again (GetNextVersion) |
| `ServerReply`, `HistoryGap`, `EntryIsNews`, `News` | History::SaveTo, `Hierarchy.cxx:113-152` |
| `MakeItemRequest` | the version is used once: after a lost reply everything is asked for |
| `AfterItemRequest`, `Joins`, `ExtractSeries` | `dabc.js:987-1066` |

**DabcPages** composes the last three as FrontendPages does.

## 4. The runs

| Run | Instance | Shows |
|---|---|---|
| `ObjectRef` | 2 users, the parent's entry, 2 children | type, exact count, one executor, stages in order, autodestroy only of unused objects, cleanup in the own thread, the inductive invariant, and that the object is deleted in the end |
| `ObjectRefLate` | 1 child, `LateAdd` | **violated**: a late child leaves the parent waiting with no reference |
| `CommandCall` | 3 workers, 3 commands, no timeouts | custody, no loss, matching queues, postponed commands, calls return, the promise is kept |
| `CommandCallDestroy` | 2 commands with timeouts, 2 workers that are destroyed | nothing is left behind; calls with a timeout return |
| `CommandCallLost` | 2 commands, one worker destroyed | **violated**: a command is dropped without a reply |
| `CommandCallLate` | 2 commands with timeouts | **violated**: the reply writes through a pointer of a call that has returned |
| `ThreadWorkers` | 3 workers, 1 keeper, nesting 2, each joins twice | ids, balance, requests find their worker, no removal inside a handler, requests served, thread kept while used and collected after |
| `ThreadWorkersEarly` | the same, `Unordered` | **violated**: a destroy request that was accepted is lost |
| `FrontendPages` | 3 elements in 2 registers and 2 banks, one of them a length of 24 bits, 2 calls, 3 inputs; 2 parameters, 2 refreshes, 2 clicks; 2 boards, 2 requests, 3 acts | type, no unknown value written, an undisturbed apply is written and an undisturbed refresh shows what stands for the board, one timer runs while monitoring, the page comes to show the server, the trigger label is true |
| `DofiApplied` | the DOFI part | **violated**: "Setup has been applied" after a write that failed |
| `DabcPages` | 2 nodes, 2 lists, 2 changes, 2 rounds of requests; 3 openings; ring of 2, limits 2 and 3, 6 changes | type, the series is consecutive, rows settle, a page that is gone is silent, an open one polls for ever |
| `ItemHistoryRestart` | the history, 5 changes, 1 restart | **violated**: no gap is told after a restart |

**Bounds.** ObjectRef has no bounds but the number of tokens: two users are the
smallest number that race for the destruction while a parent and a thread act,
two children make "some of the children released" a state of its own; the
safety properties are proved for any number. CommandCall: three
commands allow a call inside a call and an assigned or redirected command
beside them; more commands repeat these patterns. `MaxJoins = 2` is the least
that makes a slot be used by two owners and the counters of a worker be reset;
`MaxNest = 2` gives a handler inside the loop of another; `Busy` and `MaxFire`
bound the events (an event that is queued while its worker is halted needs one).
`RetryLimit = 1` stands for 20 in `Thread.cxx:1171`: with and without a retry.
Larger instances of ThreadWorkers were checked by hand with the same result:
two busy workers with `MaxFire = 2` (427020 states), two busy workers with
`MaxJoins = 2` (500576), three busy workers with `MaxJoins = 1` (180286).

The elements of the DOFI page are the smallest set with two that share a
register and two banks in an order. The length starts at 8388608, the first code
shown negative; the user enters 15, which the division truncates, and 167772150, the
largest number the element allows, whose code the page will show as -10; a
file sets a short one. Three inputs are an edit, an edit of the
neighbour and an apply, or an edit beside two calls. Two parameters are one that
shows the view and one that does not; two refreshes overtake each other. Two
boards tell one from all. A group of registers of a board is one bit, and any first part of a list may have been
executed at either board. Lists of one and two nodes give a row that changes
its node and a row that comes and goes. Three openings let an old handler
survive twice. The ring is shorter than one limit and as long as the other, and
six changes fill and overrun it between two requests. The counters of failures and
losses are one: each place of failure is met by itself.

**What the constants leave out.** Some runs check a property where the code keeps
its promise, and the case where it does not is a run of its own.
`NoCommandLost` (run CommandCall) is checked with workers that stay; with a
worker destroyed it fails, run CommandCallLost. `ReplyTargetAlive` is checked without
timeouts; with them it fails, run CommandCallLate. `RequestsFindTheirWorker` and
`ThreadKeptWhileUsed` are checked with workers that leave in order
(`Unordered = FALSE`) and with no worker that joins a thread on its way to its end
(`LateAssign = FALSE`): an id read while its worker joins or leaves is shown by
run ThreadWorkersEarly, a late join by none. `ThreadCollected` is checked
with one retry instead of 20: the last retry gives the thread up with events
left in either. `TriggerLabelTrue` is about a trigger command that met no other request
and that no board failed: the label that stays wrong after a failure is the behaviour
of `GosipFails`, and what the page reports then is told in section 5. Run
DabcPages has one request for an item at a time.

**Deadlock** is not checked (`CHECK_DEADLOCK FALSE`): the systems stop when the
object is deleted, all commands are used, or all workers have gone; the pages
rest when the user does nothing.

**Fairness.** Weak fairness of what a running thread does next: a
call of DecReference under way, a handler that ends, the reply, the event
loop, the removal of a worker. Users are never forced to release, call or
destroy. Strong fairness is used in two places. In ThreadWorkers the thread serves
both queues, though the other is served first at times: the scaler of
_GetNextEvent (`Thread.cxx:405-417`) gives every queue its turn, and a nested
loop disables the outer handler only for a time. In CommandCall a kept command is answered in
the end, whatever the worker does between: that is what a handler which returns
cmd_postponed undertakes. Deadlines pass because time does.
In the pages it is weak: intervals that run fire, the server answers a
request that is not lost, and the browser delivers the answer. The user does
nothing he has to. `RowsSettle`, `MonitorShowsServer` and the second part of
`GoneIsSilent` speak of behaviours in which the page stays as it is from some
time on; list, server and failures rest by the bounds of their counters.

## 5. Findings

Each is a run that TLC finishes with the shortest counterexample.

1. `ObjectRefLate` (`Object.cxx:468`). AddChildAt does not look at the state of
   the parent. A child added after the children were removed is counted as the
   "somebody else" for whom DecReference leaves the object; when it goes,
   RemoveChild decrements the parent's counter by hand and nobody deletes it.
2. `CommandCallLost` (`Worker.cxx:451`). A worker that is no longer in its normal
   state returns from ProcessCommand without a reply. A caller without a timeout
   waits for ever, against the comment at `Thread.cxx:560`.
3. `CommandCallLate` (`Command.cxx:249`). Reply takes the caller's record, the
   caller times out and returns, and then the flag on its stack is
   written. The test at `Worker.cxx:1015` is of the thread's exec worker,
   which is always active.
4. `ThreadWorkersEarly` (`Thread.cxx:1280`). The id is read without a lock; when
   it is 0 the request is accepted and nobody will carry it out, against the
   comment at `Worker.cxx:197`.
5. `DofiApplied` (`dofi.js:781`). The page has a branch for an apply that failed
   (`dofi.js:787-789`), but DofiCommand catches every failure (`dofi.js:298-301`):
   "Setup has been applied" is logged after a failed write, and the list of
   changes is cleared.
6. `ItemHistoryRestart` (`Hierarchy.cxx:125`). SaveTo goes by version numbers
   alone. After a restart all entries are older than the version the browser
   names, so that no gap is told and no entry is sent, and the browser
   draws the new value as the continuation of the old history; the comment at
   `Hierarchy.cxx:128-131` says that the client is told in this case.

Two more differences are in the model and have no run of their own. They follow from
definitions that can be read beside the code:

- `Display` (`dofi.js:126`, `154`). Delays and lengths are numbers from 0 to 16777215
  by the comment at `dofi.js:33-34`, and the elements accept 0 to 167772150. The
  getters take the 24 bits as signed: times of 0x800000 and more are shown
  negative, 167772150 comes back as -10. `UndisturbedRefreshShows` says what is
  left: applied again, the negative value writes the same register.
- `BoardsExecute` (`Player.cxx:121-124`, `154`). A list is given up at the first
  register that fails, and the command answers true; the page looks at
  nothing else and logs "Writing registers OK" (`gosip.js:624`).

## 6. The proofs

`ObjectRefProofs` proves, for any finite sets of references and children, every
safety property that run ObjectRef checks. From the assumption RefsAssumption
(the sets are finite, the tokens distinct) only.

The properties are not inductive. That the counter is never decremented below 0
needs that a token in a list is counted (`ListsCounted`). That the destructor
runs with no reference left needs that the delegated counts exist exactly in
their stages and that one call at most is inside the destruction
(`StageMatchesCall`). That giving a child back outside the mutex starts nothing
needs that the user who does so keeps its own reference meanwhile
(`UsersInside`). That a waiting object has a reference needs that the list of
children stays empty after its cleanup (`CleanedStaysEmpty`, the only
conjunct that uses `LateAdd`). `IInv` is the conjunction of these with TypeOK and
RefCountExact.

Argument: nine operations end in DecReference, which one lemma treats
(`DecReferenceKeepsIInv`); three lemmas instantiate it (users, children that
are given back, delegated counts); the other actions have a lemma each, or one
for a group that does not change the counter. `NextIInv` puts them together.
From the invariant follow `TypeCorrect`, `CountIsExact`, `NobodyIsLeft`,
`SomebodyWillDelete` (unless children come late), and, as action properties,
`StagesFollow`, `OwnThreadCleans` and `AutoDestroyIsSafe`.

`ThreadWorkersProofs` proves the safety properties of run ThreadWorkers for any
workers and bounds, in three layers, each inductive and each with as few
assumptions on the environment as it needs.

- `IInv`, in every order of calls, also the disorderly ones of run
  ThreadWorkersEarly: TypeTheorem, IdsTheorem, BalanceTheorem, InsideTheorem.
  The properties need that every event is of a worker that still has the
  id it was fired for, and that a worker has one AddWorker event at most, under
  id 0 (`EventsRight`); that nothing was fired for a worker before it has an id
  (`JoiningIsFresh`); that an empty slot holds no request (`FreeIsEmpty`),
  since it will be given to another worker; and that what the first critical
  section of CheckWorkerCanBeHalted found still holds in the second
  (`LeavingIsQuiet`): a worker that is not active accepts no event in between.
  `BalanceExact` counts positions of the queues: SequenceLemmas says how a count
  changes by a push and a pop.
- `OInv` with `Unordered = FALSE`: RequestsTheorem, PromiseTheorem. An id that was
  read and is still to be sent is the worker's (`AskingIsOpen`), a request in the
  queue is of a worker that was asked and one only (`DestroyIsOpen`), each worker
  that was asked has its request somewhere (`AskedIsCarried`), and a halt
  command finds its worker or an empty slot that no AddWorker ahead of it in
  the queue can fill (`HaltFinds`): this is where the order of the queue matters.
- `SInv` with `LateAssign = FALSE` too: ThreadKeptTheorem. While somebody leaves,
  somebody stays or nobody joins any more (`GoneInOrder`), so that a thread on its
  way to its end is empty (`EndsWhenEmpty`).

`CommandCallProofs` proves the custody of commands, for any workers, commands,
routes, timeouts and destructions.

- `AInv`: a command is in one queue, in one frame or kept by one worker
  (`OneOwner`), is waited for by one call (`OneCaller`), has one entry in a queue,
  and beside it one `assign` entry (`OneEntries`); a stack executes or replies a
  command in one frame, waits for it in one, and executes it only in the event of
  a command (`AllStacked`); nobody has heard of a command before it is created
  (`FreshCalls`, `FreshRoles`); events and queue agree (`EventsMatchQueue`).
  From these TypeTheorem, CustodianTheorem and QueueTheorem. The custody
  alone is not inductive: that two stack frames do not hold the same command
  needs that the queue had one entry, and that needs the events.
- `BInv` adds `PostponedHasDrain`, which needs the order of frames in AllStacked,
  and `GoneIsQuiet`, which needs that a worker that leaves accepts nothing
  (`LeavingIsClosed`): DrainTheorem and GoneTheorem.

`CommandPromiseProofs` goes from where a command is to what its caller gets.
`CInv` adds to AInv, for each command: the result is given when the command leaves
its handler and only then (`ResultGiven`); there is one caller record, on the
command or taken by Reply, and the answer is given when it is used up
(`OneRecord`); who waits has that record (`AwaitedIsKnown`), and who has it waits
unless the call may time out (`KnownAwaits`); a command with a caller is with a worker
while no worker is destroyed (`Carried`). A step is about one command
(`OnlyAbout`), or about those a leaving worker assigned; the lemma
`CStep` keeps the others right, so that each action is looked at for its command only.

PromiseTheorem is the refinement: `MapCall`, `MapComplete`, `MapAnswer` and
`MapReturn` map a step to one of CommandPromise, `MapStutter` the rest. It needs
CInv where the abstract guards say more than the code tests: a command gets its
result once (ResultGiven), and an answer is given only to a command that has
a result and no answer yet (OneRecord). It has no hypothesis: the promise
holds through timeouts and destructions, too. NothingLostTheorem is the part of the
comment at `Thread.cxx:560` that does hold: until a worker leaves its normal
state (`AllNormal`) an awaited command has a custodian; finding 2 shows that
the condition cannot be dropped. NeverLost restates it where no worker may be
destroyed, as in run CommandCall. TargetTheorem needs that no call times out:
finding 3 shows what happens otherwise. Its part about
synchronous callers (`SyncTarget`) holds for each command without a timeout
and through destructions; that about asynchronous callers follows from
AllNormal, since a worker that goes while Reply has its record is written to.

`DofiPanelProofs` proves `KnownValuesOnly`, for any elements, registers, banks,
settings and bounds. What it needs is in `DofiInv`: a bank is lost as a whole or not at
all; then, if the marked element of a register is known, so is the whole
register that goes with it. The values in the elements are numbers (`PageTypes`), so that
what is entered is a field of 24 bits (`EnterTyped`). Banks stay whole because a read replaces a bank, answers
to reads that were executed carry values, of the board or left over (`GoodRequest`), and an apply stops
at the first marked element that is gone or whose bank is lost.

The same module proves `UntroubledApply` and `UndisturbedRefresh`, along `PageInv`.
An undisturbed call that is open is the only one (`OpenAlone`), so that all requests
under way are its own. While it is a refresh, each bank of the copy shows the
board or is still being read, and each answer that waits shows the board, since
nobody writes (`RefreshRight`): when nothing is under way the copy is the board, no
bank is lost, and RefreshView gets to the last table. What is in an element then is
`Display` of its register, and `DisplayedField` says what that is worth: entered
again it is the register, whatever the sign, and below half of the range it is the time. While it is an apply
(`ApplyRight`), a value that was set is in its register, converted by `Enter`, with no write of that
register left, or the last of the writes under way carries it (`Settled`). The second
case holds at the start because the register that goes with a mark has the values of
all marks before it, also of the same register (`WritesSettle`), and it is kept because
an undisturbed write overtakes no earlier one, so that only earlier ones have
been executed when the last one is. The answer that ends the call leaves the first.
For a number within the limits of its element, `Enter` is the number divided by ten
(`PermittedEntry`): no bit of it is cut off.

`FrontendPagesProofs` composes the pages: a tab takes steps of its own page only
(`PagesRun`). `PanelsType` are the types of all pages. `LabelTrue` is the label of the
trigger: while a request is alone there is no other, so that nobody changes the label
or brings an older one back, and the boards have it once the request is executed and no
board has failed it, because it went to all of them (`LabelFollows` in `GosipInv`; targets and
registers have to be typed for that, NaN included, which the label never carries). `TimerSafe` holds for any parameters and bounds:
that the timer matches the mode is not inductive, since a second start would leave an
interval nobody remembers. `TimerInv` adds that a page which monitors has its
checkbox checked, so that a click that starts an interval meets none running,
and that `lastTimer` is a number, so that the new interval is not the old one.

`DabcPagesProofs` proves `HistorySafe`: while the server runs, the drawn series
has no value missing, doubled or out of order, for any length of the ring, any
length asked for and any number of changes and lost answers. What is drawn says
nothing of where the next answer must begin. `Marks` is the missing link: a version
marks a value when the entries newer than the version are those with that value or
a later one. It is kept by every step of the server, since new entries are newer
than all versions given out and those that fall out are the oldest. `KeptUpTo` says
that the history of the browser ends just before the value its version marks;
then an answer without gap begins at that value, because the window holds
an entry that the browser already has. `RingRight` (the ring ends just before
the present value) covers the answers that replace everything, and `KeptRight`
that an item with history in the browser has one in the server. A restart
of the server ends the claim, as the property says. `DabcType`, the types of these
pages, holds with restarts. Two of its parts need more than types: a main request
that is answered finds a free round of requests, because it was only sent with one
free and nobody takes it meanwhile (`BnetInv`), and no answer is longer than the
browser asked for, because the versions in the ring grow, so that the news in it
are its last entries (`RingGrows`, `NewsAreLast`).

Only model-checked: all liveness properties (`EventuallyFreed`, `CallsReturn`,
`TimedCallsReturn`, `DestroyServed`, `HaltAnswered`, `ThreadCollected`, `MonitorShowsServer`,
`RowsSettle`, `GoneIsSilent`, `PollingGoesOn`), which are
out of the prover's reach.

## 7. Not modelled

- Within the modelled components: names, paths and iterators of the object tree,
  `GetAllChildRef` and the spinning on `fObjectBlock`; Thread's own
  `_DoDeleteItself`; commands with magic priority; cancelled commands; Execute
  and ExecuteIn without a thread; the timers of workers; Start and Stop of
  a thread; parameters and configuration of a worker.
- Within the web pages: the scalers, rates and monitoring timer of dofi.js; the
  mode menus and number formats of gosip.js; gauges, log windows and several
  commands at once in mbs.js and pexor.js, GosipCommand of pexor.js; the
  opening of the server's items is assumed to succeed; run control buttons, drawings
  and the calibration buttons that updateTrbStatus makes in dabc.js; requests for
  one item that overlap, and histories that pass the binary format.
- Of the servers behind the pages: the program gosipcmd, which the Player runs, is
  not part of the repository's core (its sources here are a debugging stub and a
  remote client), so that of a register only its execution or failure is left; what
  a reset or an initialisation does inside the boards; the commands of
  TerminalModule that no page sends; what a real MBS does with a command. A number that is
  not whole, typed into an element of the DOFI page, throws in BigInt and is left out.
- Simplified in the pages of the web server: MakeItemRequest waits for the answer to the
  request before; ExtractSeries has no `dabc:del` entries and no entry that
  keeps the last value (`dabc.js:1001-1014`), since a value is its number here; a label of
  a hub stands for an item of its row (`dabc.js:708-711` takes the directory from the
  row and the name from the answer, which a late answer of another node may make an item
  that does not exist; a request for it fails, and nothing claimed is about it). An exception
  in processMainRequest after the lists were changed (`dabc.js:827-845`)
  happens only when the hierarchy painter is gone, which MainArrives treats.
- Components of the plan that are still to come: section 2.
- Left out for good: gauges, painters and the conversion of histograms
  (gauge.js, elder.js, fesa.js, the rest of dabc.js), parsing (XML, URL, command line), files, logging, the poll
  loop, packet formats, drivers and bindings of the plugins. They have no
  protocol that a model could say more about than their code.
