# Verification project for cpp_assistant

This directory holds TLA+ models of cpp_assistant: a native C++ library
(`src/code/libcpp_assistant`) and a framework for single-threaded TCP services
built on it (`src/code/frameworks`). The models are checked with TLC on small
instances; the theorems are proved with TLAPS for every value of the
constants. `PROJECT.json` lists components, runs, mutants, the source lines of
every definition, the finding, hazards and theorems.

Paths below are relative to `src/code/`. LIB is
`libcpp_assistant/src/native/`, FW is `frameworks/framework_public/`, TPL is
`frameworks/framework_templates/tcp_app/`.

## 1. The system

A program of the framework is one thread. `main()` reads the command line and
the configuration, opens the loggers and the network, registers signals and
timed tasks, then goes round `main_app::run_business()`:

    handle_all(should_exit)        pending signals, leave when the flag says so
    poll_and_process(server)       clients: accept, receive, process, reply
    poll_and_process(client)       upstream servers: the same without accept
    check_and_execute()            timed tasks: heartbeat, log flushing, ...
    run_private_business()         what the customized program adds

The only concurrency inside the process is the inner signal handler, which runs
between any two statements of the thread. Outside it there are the kernel's
socket buffers, the peers, who send, stop reading, close and reset at any
time, and the clock.

| Component | State it keeps | Operations | Hard behaviour | What makes it correct |
|---|---|---|---|---|
| `sequential_buffer` (LIB) | data, size, read and write position, -1 for "past the end" | create, destroy, resize, read, write, get/move pointers, compaction, copy | wrap positions at both ends, sizes reached exactly, mixtures of copying and pointer calls | a bounded queue of bytes |
| `signal_capturer` (LIB) | per signal: status, handler, exit hint, automatic; one exit flag | register, unregister, handle_one, handle_all; inner handler | the inner handler between any two statements | no signal forgotten, no null handler called |
| main loop (FW `main_app`, `main`) | exit flag of the round | register_signals, run_business | signals during start-up and while leaving | an exit signal stops the program, after the handlers of what was pending |
| receive path (`tcp_base`, `main_app`, TPL `packet_processor::process`) | kernel queue, recv_buf, time of an incomplete packet, by the peer's name | recv_fragment, recv_to_connection, handle_received_packets | packets cut and joined, bytes arriving between two `recv()`, close, reset, time-out | packets are delivered whole, once, in order, and eventually |
| send path (`packet_processor`, `tcp_base`, `main_app`) | send_buf, longest packet so far | replies, send_fragment, send_result_packets, lite packets | partial `send()`, peer that does not read, little space | accepted replies reach the peer whole, once, in order |
| connection registry (`tcp_base`, `tcp_server`, `tcp_client`, `net_poller`) | maps of peers, pollers, descriptors | accept, connect, shutdown, poll | an accept that fails half way, addresses and descriptors used again | maps, pollers and descriptors agree |
| connection cache and heartbeat (FW) | cached peers by name, owners of connections | identity reports, heartbeat task, choice of a connection | reconnection before the end of the old connection is noticed, servers that hang | no entry points to a connection that is gone; upstream servers are connected again |
| packet processing (TPL) | message cache, saved sessions | grouping of fragments, business, reply, redirection | messages sent again on top of themselves, early returns, replies to another connection | the business sees each message whole, and at most once |
| timed tasks (FW) | tasks with times and marks | register, unregister, re-arm, check_and_execute | operations that change the map they are in | a due task runs; an armed one once |
| file logger (LIB) | file, day, number, lines | set name and limit, open, close, output, rotate | change of day, failures of a switch, a crash | no line is lost or misfiled |
| life of a program (FW `main`, `resource_manager`, `config_manager`) | pointers and objects, exit functions | the steps of `main()`, default signal handlers, exit | a start that fails at any step, destructors | what is used is there; nothing is left |
| command line (LIB) | learned options, entries, values | learn_option(s), parse, reset | words beyond what an option takes | every value goes to its option |

Helpers without state (strings, times, floating point, XML), vendored code
(tinyxml, dict, otlv4) and generated code (protocol classes) are not modelled
(section 8).

Components interact by calls in the one thread and by shared objects:

* both paths use `sequential_buffer`, so `RecvPath` and `SendPath` are built from
  the operators `SeqBufOps` that `SeqBuf` checks and `SeqBufOps_proofs` proves;
* the main loop drives `signal_capturer`, so `MainLoop` extends `SignalCapturer`;
* `RecvPath` ends where a whole packet is handed over, `PacketProcessor` begins
  there, and `SendPath` begins where it has a reply;
* the heartbeat task of `ConnRegistry` is one of the tasks of `TimedTasks`: the
  fairness the first assumes is the liveness property of the second.

## 2. Modules

| Module | What it models | State and actions |
|---|---|---|
| `SeqBufOps` | each call of the buffer (LIB `sequential_buffer.cpp`) as a function from its value to the next one | a buffer is `[n, r, w, cell]`; a byte is its place in the stream of all bytes written |
| `SeqBuf` | one buffer and its caller | one action per call; `head` and `tail` count the bytes taken and stored by what the calls *return* |
| `ByteQueue` | abstract: a bounded queue of numbered bytes | Put, Take, a change of capacity, Clear |
| `SignalCapturer` | LIB `signal_capturer.cpp` statement by statement | kernel dispositions, the stack of inner handlers, the call of the main thread. A signal is blocked in its own inner handler (`sa_mask` is empty, no `SA_NODEFER`), another one interrupts it; the main thread moves only when no inner handler runs |
| `MainLoop` | `register_signals()` and `run_business()` over the capturer | phase of the program, entries of the table begun; the rest of a round is one step, which may end the program |
| `RecvPath` | one connection from the kernel to the business | one action per `recv()` result, then account, take a packet, wait for its rest; bytes arrive and time passes in between |
| `SendPath` | one connection from the business to the kernel | replies, the look at the space, one action per `send()`, lite packets past the buffer |
| `ConnRegistry` | maps of peers, pollers and descriptors of both sides, the connection cache, the heartbeat task | a connection is its address, an address is used again when nothing remembers it; one action per event of a poll, per stage at which an accept ends, per visit of the heartbeat task |
| `TimedTasks` | `timed_task_scheduler` | the iterator of a round is a name; callers act between rounds and from inside an operation; the clock moves between any two statements |
| `PacketProcessor` | `packet_processor::process()` on whole packets and the loop around it | one action per way a packet can end: discarded, answered from what was saved, unparsed, not found, grouped, operated on; the reply may go elsewhere |
| `FileLogger` | `file_logger` and the switch in `logger::output()` | files by name, the buffer of stdio, the clock read anew at each place; failures of rename and open; a crash and a new process |
| `Lifecycle` | `main()`, `resource_manager`, `config_manager`, the default signal handlers, exit functions | what pointers name (`held`) and what exists (`alive`); each step uses, makes and deletes objects |
| `CommandLine` | `learn_option()`, `learn_options()`, `parse()`, `reset()` | entries and single parameters; a word is what kind of word it is; one action per word of a kind, letter of a cluster and part of `--name=part\|part` |

`MC*` modules give the constants that a `.cfg` cannot write. `*_proofs` modules
hold the theorems about the module they are named after (section 6);
`Program_proofs` holds those about `SignalCapturer`, `MainLoop`, which extends it,
`Lifecycle` and `CommandLine`, and `TcpApp_proofs` those about `ConnRegistry` and
`PacketProcessor`, the two components of the template tcp_app. Modules proved
together share no state but that of the capturer; names that several would have carry
the name of the part (`LoopSpec`, `ProcessorInit`, `LifecycleNext`, `CommandLineInit`).
Every module states a type invariant (`TypeOK`, `LoopTypeOK`, `ProcessorTypeOK`,
`LifecycleTypeOK`, `CommandLineTypeOK`), and each of them is proved.

**Damage and blame.** Some legal sequences of calls break these components in
the code as it is. The models follow the code into each of them and record the
reason (`damaged`, `blame`); safety properties speak of executions before the
first damage, or name the blame that excuses a violation. So they say exactly
under which conditions the code is right: the reasons listed are the only ones.

| Module | Reasons recorded, and the code behaviour behind them |
|---|---|
| `SeqBuf` | `move_read_pointer()` of a part of a full buffer forgets the rest; `write()` while the write position is -1; `move_write_pointer()` of a full buffer moves from -1 upwards |
| `RecvPath` | a second `recv()` in one `recv_fragment()` stores at the same place ("overwritten"); an error after bytes ("cut"); a packet taken from a full buffer with more behind it ("full"); a length read from bytes not yet arrived ("stale length"); the time-out ("timeout", as intended) and one counted from an earlier packet or from another connection of the name ("stale timestamp"). `EveryPacketHandled` leaves out a peer that closes: the bytes received together with its end are dropped |
| `SendPath` | "repeated" (`send()` from the same place twice), "unaccounted" (an error after a partial send), "full", "overrun" (a reply that looked at the space and is longer), "unasked" (a response to a heartbeat or an identity report, or a saved reply, which never look, longer than the space), "null pointer" (a saved reply into a full buffer; the other two are refused), and lite packets that "split" a reply or are "cut" |
| `SignalCapturer` | a signal between `sigaction()` and the assignments of `register_one()` may find a null handler or an exit hint not yet stored; `NullCallOnlyWhileRegistering` bounds where, and `NeverCrashes` shows that a program that registers once is safe |
| `ConnRegistry` | a client that reports two names ("renamed"), or a name that belongs to an upstream server ("address") |
| `PacketProcessor` | per session: a fragment not grouped or not parsed, a reply not made or without space, a message begun again on top of an earlier one ("resumed"), and a redirected reply, after which the loop goes on with the packets of the other connection but moves the pointer of the first ("moved over", "not taken") |
| `TimedTasks` | an operation that unregisters its own task: the round writes to an erased node and goes on from it (pc "undefined", where the model ends) |
| `FileLogger` | a clock set back over midnight ("clock set back"); a base name taken again on the same day under one process number, by the process that gave it up or, as `getpid()` may repeat, by a later one ("name again") |
| `Lifecycle` | the three uses that crash: see `UsedWhileThere` |
| `CommandLine` | a long name that is another option's short name; `reset()` loses default values |

## 3. Runs

| Run | Instance | What it shows |
|---|---|---|
| `seqbuf` | minimum size 2, sizes 2, 3 and 4, 7 bytes | positions of the header's table only; content; refinement of `ByteQueue` |
| `signals` | 2 signals, 3 arrivals | no signal forgotten; null handlers only inside a registration of that signal |
| `main_loop` | 3 signals (plain, exit and automatic, exit), 4 arrivals | handlers run before the exit, none is null; exit signals stop, pending ones are handled |
| `recv_path` | packets of 3, 2, 5, 3 bytes, header 2, buffer 5, time-out 2, 4 packets a round | window of the stream; whole packets in order; a late packet is given up when it is looked at; every packet handled |
| `send_path` | replies of 2 and 4 bytes, saved or not, heartbeat responses of 1 byte, identity responses of 2, buffer 6, kernel room 3, 7 bytes, 1 lite packet | window of the stream; discards and overruns only for the reason stated; everything sent |
| `conn_registry` | 2 clients, 1 upstream server, 5 addresses, 4 descriptors, 3 places in the listener's poller, 1 leaked accept | maps, pollers and descriptors agree; events and cache entries never speak of what is gone; a refusal has a holder; an upstream server that stays up is connected, after connections that only seemed to succeed |
| `timed_tasks` | 3 names, 4 kinds of task, 5 calls, time 3 | a round leaves nothing out; periods count from the start; armed once, run once; due tasks run |
| `packet_processor` | a message of 3 fragments sent twice, one of a single packet, 2 connections, 2 packets a round | business on whole messages, at most once per sending; repeated sessions; what stays in the cache |
| `file_logger` | 2 base names, limits 1 and 2, months of 2 days, 3 days, 3 lines, 2 processes, 5 calls | no flushed line is lost, also when a process gets the number of an earlier one; lines are counted; numbers and dates are in order |
| `lifecycle` | every build with a network, every kind of configuration | what is used is there, but for three known crashes; nothing is left; the network outlives the business |
| `command_line` | 4 options, 7 words, lines of at most 5 words | counts of values; every value goes where it belongs |
| `lifecycle_hangup` | as `lifecycle` | expected violation, section 4 |

**Bounds, and why they are enough.**

* `seqbuf`: 7 bytes exceed the largest size by 3, so the buffer is filled,
  emptied and filled again with positions at every place; sizes 2, 3, 4 allow
  growth and shrinking below the content and to exactly the content.
* `signals`: two suffice for an inner handler that interrupts another, three
  arrivals for one more of the first signal afterwards.
* `recv_path`: the third packet is as long as the buffer, the others end at its
  end or inside it; a header of two bytes can be cut. `send_path`: a reply of 4
  needs more space than a buffer of 6 can promise later (twice 4), one of 2 does
  not; a room of 3 makes both kinds of send partial.
* `conn_registry`: three places, one of them the listening socket, make the
  listener full with two clients; five addresses and four descriptors are used
  again after every close. One leak keeps the refused accepts finite; each further one
  is like the first.
* `timed_tasks`: three names put a task before, at and behind the iterator; the
  kinds have intervals below and above the limits, events before and after their
  time, and one triggered already.
* `packet_processor`: three fragments have a first, a middle and a last; a second
  sending meets the first in every state; two packets a round leave some for the
  next. Connections are interchangeable, hence the symmetry; the run has no
  liveness property.
* `file_logger`: three days with months of two make the day of the month repeat;
  three lines fill a file of two and begin another; two process numbers let a process after a crash have
  another one or the same; the number of crashes has no bound.
* `command_line`: an option without values, one with two, one with a default, one
  with any number, one whose long name is another's short one; five words let an
  option be given twice with values and a single parameter come in between.

Deadlock is checked in `seqbuf` and `command_line`. It is off
where the system may stop: bounded arrivals and a program that left its loop, a
closed connection, damage (where the path models end), a round on an erased
node, bounded lines and clients
that have sent everything, a program that is gone.

**Fairness.** `MainLoop`: weak fairness of the inner handlers, from which the
kernel returns, and of the main thread, whose polls have a time-out. `RecvPath`:
weak fairness of the server, which goes round its loop; none of the peer or the
clock. `SendPath`: weak fairness of the sending steps, as
`send_result_packets()` ends each round, and of a peer that reads; the property
allows for one that resets. `ConnRegistry`: weak fairness of the loop, and
strong fairness of the heartbeat task at the places where the loop may run it;
`DueRuns` of `TimedTasks` shows that the scheduler does. `TimedTasks`: weak
fairness of its rounds. The other modules state no liveness and no fairness.

Each property of a passing run has a mutant of a mapped definition that breaks
it (a dropped guard, a missing reset, a swapped or forgotten assignment); mutants
are commented as such beside what they change.

## 4. The run with an expected violation

`lifecycle_hangup`: the default handler of SIGHUP announces that it reloads the
configuration (FW `signal_registration.cpp:53`), and calls
`reload_partial()`. At the end of the start `load_configurations()` has called
`close_file()`, which deletes the document and nulls the pointer that
`reload_partial()` goes through. TLC shows the shortest way there: a start
without errors, one SIGHUP, the next `handle_all()`.

## 5. Known in the models, without a run of their own

The table of section 2 names what the models record. Besides:

* `init_logger()` that fails clears the loggers, and its callers write a message
  with them; a build that accepts no clients compares the addresses of upstream
  servers with a listener that is null (both in `UsedWhileThere`).
* What `prepare_extra_resource()` of the business makes is lost: the hook is
  given the pointer by value (`NothingLeft` excepts it).
* `set_log_line_limit()` looks at the range of the old limit and stores the new
  one unchecked, so a limit of zero is stored (`LinesAreCounted` treats it as one).
* A client that reconnects before the end of its old connection is noticed is
  refused, and not asked again (`RefusedOnlyWhileHeld` says when).
* One reply longer than half of a send buffer raises the space every later reply
  needs to more than the buffer has (`DiscardedWithReason`).
* The time of an incomplete packet is only looked at in `process()`, which runs when
  the poller reports the connection: half a packet of a peer that falls silent is kept
  without limit. And the times are kept by name, the empty one for all connections that
  have not reported theirs: one of them clears or starts the time of another
  (`GivenUpWhenLate` says what is left).
* A connection whose asynchronous `connect()` failed is writable and so taken for a
  success (LIB `tcp_client.cpp:107-119`); a later poll finds its end (`VisitReachable`).
* A message whose last fragment fails to be grouped or parsed leaves the others in the
  message cache (TPL `packet_processor.cpp:470-475`); `LeftOnlyByDiscard` speaks of
  messages that were complete, the blame of the session names the failure.
* Packets beyond the limit of a round wait for new bytes, not for the next round:
  `recv_path` sends no more packets than the limit.
* `learn_options()` drops the flag that fixes the number of values, and of a
  value "-5" only the "5" is kept (`CommandLine` leaves out the text of values).

## 6. Theorems

Eight modules of proofs, all checked to the last leaf. They rest only on the
named assumptions of the modules: positive sizes, naturals as bounds, tables
that are sequences, packets not longer than the buffer.

| Module | Theorems | Argument |
|---|---|---|
| `SeqBufOps_proofs` | lemmas only | every operator keeps `Good` (the header's table of positions, and the content between head and tail), moving head or tail by what it returns |
| `SeqBuf_proofs` | `TypeCorrect`, `PositionsHold`, `IntegrityHolds`, `BufferImplementsQueue` | `TypeOK /\ (~damaged => Good(buf, head, tail))`: positions do not follow from content nor content from positions. The refinement maps the bytes between the positions to the queue; four lemmas turn a step that moves head, tail, size or both into Take, Put, a change of capacity or Clear |
| `Program_proofs`, about `SignalCapturer` | `TypeCorrect`, `NotForgotten`, `NullCallsExplained` | `handle_*()` clears the mark of a signal handled automatically without calling anything; harmless because such a signal is owed only while its inner handler is entered, which is on the stack, and the main thread moves only when the stack is empty. For the null call: `unregister()` leaves an automatic call without a handler only for a signal that can no longer arrive |
| `Program_proofs`, about `MainLoop` | `LoopTypeCorrect`, `LeavesAfterHandling`, `NoNullHandler` | every step of the loop is a step of the capturer or stutters on it, so its invariant carries over; added: the call at work fits the phase, what is due is still queued in `handle_all()`, an automatic setting has its handler |
| `Program_proofs`, about `Lifecycle` | `LifecycleInvariance`, `LifecycleTypeCorrect`, `UsesAreSafe`, `AllIsTakenBack`, `BusinessIsFinalised` | none of the properties says what exists *now*, which all of them depend on: `HeldByMain` says it for each step of `main()`, `PointersHold` that pointers name what exists, `ExitsInOrder` that the functions yet to run are the first ones registered, and `DeletedAtExit` that for whatever is still held a function that deletes it is yet to run, and finds the logger it writes to |
| `Program_proofs`, about `CommandLine` | `CommandLineInvariance`, `CommandLineTypeCorrect`, `CountsHold`, `ValuesArePlaced` | before the check at the end an option may have too few values, so `CountsSoFar`: never more than it may have, and the option that values go to has been given (else its default values would stay in front of them). That needs names apart from options (`Confused`), as a name is looked up among the long ones first; the check at the end adds the other half. Where values go is compared with a reference that only looks at the line: the places of its words, letters and parts in order, those `parse()` has passed (`Passed`), and for each option the values whose last option before them it is (`Offered`). A step passes nothing, one option or one value, behind all that was passed before (`PassesOption`, `PassesValue`), and lemmas say what is offered then. Inductive with it (`PlacesInv`): the options passed are given (`PassedAreGiven`), or one given later would find values it was offered and did not take; the last one passed is where values go, or is full (`ValuesGoToLast`); and `parse()` stands at a piece of the last word (`WithinLast`) |
| `TimedTasks_proofs` | `TypeCorrect`, `RoundCompletes`, `PeriodsHold`, `ArmedHolds` | what is owed lies at or behind the iterator and is still due at the time of the round, which only grows; the stamp of a round is not later than the start of the operation; after an erased node no round ends |
| `RecvPath_proofs` | `Invariance`, `TypeCorrect`, `StaysInSync`, `PacketsAreWhole`, `LateIsGivenUp` | the buffer is the window `handled .. got - total` of the stream; bytes fetched and not accounted stand behind it; the stamp is as old as the wait until another connection clears it |
| `SendPath_proofs` | `Invariance`, `TypeCorrect`, `StaysInSync`, `DiscardsHaveReason`, `OverrunsAreUnprecedented` | the same window with what `send()` has taken so far; when nothing is unsent the normalised buffer has its whole size as space, and the longest packet only grows. The type invariant says more of the buffer than the window does: it stays one after a damage, too |
| `FileLogger_proofs` | `Invariance`, `TypeCorrect`, `LinesStay`, `CountIsRight`, `NumbersOrder`, `DaysAreRight` | while nothing is to blame, no name is used twice: every file of this process number and base name is of an earlier date or number than the open one; lines that wait are later than all on the disk; the steps of a switch keep the count |
| `TcpApp_proofs`, about `ConnRegistry` | `Invariance`, `TypeCorrect`, `RegistriesAgree`, `EventsStayLive`, `CachesAgree`, `PicksFindAlive`, `RefusalsAreHeld` | the calls of `tcp_base` and `net_poller` are functions of the registry, and a lemma for each says what it keeps: `Created`, `Monitored` and `Added` together keep `Agrees`, and so does each way back from a stage an accept failed at. `CacheAgrees` alone is not inductive: an owner must be known before it has a connection (`KnownFirst`), and a connection of the requester must have an owner among the upstream servers and one of the listener must not (`ServersApart`), or a reconnected server would take an entry that another connection holds |
| `TcpApp_proofs`, about `PacketProcessor` | `ProcessorInvariance`, `ProcessorTypeCorrect`, `BusinessGetsWholeMessages`, `RepeatsAreUnanswered`, `CompleteIsReleased`, `WorkedOnOncePerSending` | connections hold what was sent over them and in the order of sending (`NothingButSent`, `InOrder`); each fragment but the first comes behind its predecessor, in the buffer or as the last one grouped (`Follows`, `NextFollows`), which a step keeps as long as it takes the packet it handles; and a message is worked on for each attempt whose last fragment has been sent and taken (`Ended`), so not more often than it was sent |

`RecvPath_proofs` is for any cutting of a stream into packets (`Ends` is any
increasing sequence), `SendPath_proofs` for any lengths and any kernel room,
`Program_proofs` for any table of signals, any builds and configurations, any
options, words and length of the line, `TimedTasks_proofs` for any set of tasks,
`TcpApp_proofs` for any finite number of descriptors, addresses and upstream
servers, any clients and any group, and for any connections, sessions, fragments
and repetitions.

## 7. What is only model-checked

Liveness (`ExitSignalStops`, `ArrivalsAreHandled`, `EveryPacketHandled`,
`AllIsSent`, `DueRuns`, `UpstreamReconnected`), which the prover does not reach.
Every safety invariant and every action property that a passing run checks is
stated by a theorem. `HangupReloads` is violated (section 4).

## 8. Not modelled

* `dependencies/otlv4.h` (34,835 of the repository's 59,296 lines), tinyxml and
  `dict.c` are vendored; `public_protocols.pb.*` is generated from a message
  description. With these about two thirds of the lines are no code of this
  program, so the share of lines the map covers stays small.
* `time_util`, `ca_string`, `floating_point.h`, `xml_helper`, `system`,
  `screen_logger`, `daemon`: conversions and calls of the C library without state
  of their own. `common_configurations.cpp` reads nodes of a document into fields;
  `Lifecycle` knows what is there when, not what it says.
* Levels, prefixes and directories of the loggers; help texts of the command line.
* Address resolution and socket options; the array of all connections in
  `net_poller`, which is compiled only under `SAVE_ALL_POLLER_CONNECTIONS`.
* `clean_expired_messages()`, whose call the built-in task of this commit has
  commented out; the dispatcher build of the packet processor; commands without prefix.
* A wall clock set back, for timed tasks and for the time-out of the receive path:
  they wait until it has caught up. `FileLogger` has such a clock.
* `update_connection_status()` logs the name of a connection it has just freed (FW
  `timed_task_scheduler.cpp:362-366`). What is logged is left out, and the read with it.
* The composition of receive path, processing and send path as one module: the
  three meet at whole packets and accepted replies, and share no other state than
  the buffers each of them owns.
