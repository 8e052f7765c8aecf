# A TLA+ model of c-modernization-kit

This directory holds TLA+ specifications of the programs of this repository,
the TLC configurations that check them on small instances, and proofs that
TLAPS checks for every value of the constants. All paths are relative to the
root of the repository. Three are abbreviated:

* `P` is `src/app/service-sample/prod/src/cmd/service-sample`,
* `S` is `src/app/struct-meta/prod/libsrc/struct_meta`,
* `G` is `src/app/struct-meta/prod/src/cmd/struct-meta-gen`.

The repository is a collection of C applications around a build framework. Two
carry its logic. `service-sample` is a service skeleton for systemd and for the
Windows service control manager (SCM): threads, signals and an operating system
that reacts to what it does. `struct-meta` is reflection on C structures: a
generator that reads a header and writes descriptors, and a library that
validates them, resolves paths, converts to and from JSON, and lets a user edit
an instance.

## Inventory

| Part | State it keeps | Operations | Talks to | Hard behaviour |
|---|---|---|---|---|
| Stop abstraction (`P/service-sample.c` 103-157) | a flag, a lock, a condition variable | request, wait, poll, create, dispose | signal or control threads call it, `on_run` waits on it | interleaving of requests with the wait and with the disposal |
| Lifecycle (`P/service-sample.c` 204-398) | the result of the callbacks, the tracer | `svc_run_lifecycle`, dispatch of events and reloads, `main` | callbacks of `service-sample-impl.c`, the two platform layers | which result counts, order of the notifications |
| Linux OS-event thread (`P/service-sample_linux_events.c`) | `s_ctx`: definition, thread, event loop, bus, descriptors; the old SIGHUP action | start, set-up, loop, SIGHUP handler, stop, release | main thread, systemd, logind, kernel | a thread, a signal handler and main share `s_ctx`; failing calls; a join with a time limit |
| Inhibitor locks (same file, 117-279) | two lock descriptors | take, release, take again | logind over D-Bus | signals arrive late, operations overtake each other |
| sd_notify layer (`P/service-sample_linux.c` 195-272) | none | READY, RELOADING, STOPPING, STATUS | systemd | sent by two threads |
| Windows service (`P/service-sample_windows.c` 58-473) | `s_status`, `s_status_handle`, `s_def` | `service_main`, `service_ctrl_handler`, status reports | SCM | two threads fill one structure without a lock |
| Install and uninstall (both platform files) | the unit file and its link; the SCM entry | install, uninstall | systemctl, SCM | a sequence of calls that may fail, be killed, or meet another run |
| Descriptor validation (`S/meta/validate.c`) | a stack of descriptors under way | validate | every reader calls it first | recursion over a graph, wrapping arithmetic, an allocation that fails |
| Field access and paths (`S/access`) | none | find a field, an element, a path | the caller's memory | numbers in a text become offsets |
| JSON and files (`S/json`), listing (`S/print`) | the caller's instance; a file | encode, decode, save, load, print | cJSON, stdio | a decode that fails half-way, a save that is killed, unset memory |
| Editor (`S/patch/patch.c`) | the menus under way | patch, patch a path | the prompt | nested menus, shown paths, the end of the input |
| struct-meta-sample | one instance, whether it is ready | init, load, patch, dump, save, cat | all of the above | any order of the commands |
| struct-meta-gen (`G`) | tokens, the AST, the emitted names, two files | scan, parse, attach comments, emit | the make rule that runs it | error recovery, order of nested structures, failure between the two files |
| calc, calc.net (`src/app/calc`, `src/app/calc.net`) | none | four operations, dispatch | | 32-bit overflow, division |
| override-sample (`src/app/override-sample`) | the symbol cache of the loader | load, resolve, call, unload | dynamic loader | order of load, call and unload |
| tutorial, subfolder-sample, doxygen-sample, empty-lib; `bin/`, CI | none | | | examples and scripts |
| com_util, cjson, lua, porter, sqlite, the make framework | | | | submodules, empty in this tree |

What makes each part correct, and where it is stated:

* Stop abstraction: a request is never lost and the wait never invents one
  (`NoLostWakeup`, `ImplementsContract`); it is usable as long as a callback
  can still reach it (`NoUseAfterDispose`, refuted).
* Lifecycle: every successful start is followed by exactly one stop and the
  first failure is the result (`ServiceLifecycle`, implemented by both
  platforms).
* OS-event thread: what it shares with main outlives it
  (`SafeUnlessDetached`), a SIGHUP is not lost and does not kill (`HupNotLost`,
  `ReloadServed`, `ReloadNeverKills`), systemd is told of a reload in time
  (`ReloadAnnounced`), a stop always ends the process (`StopLeadsToExit`),
  nothing is left behind (`NothingLeaks`).
* Inhibitor locks: the system waits for `on_event`, but not for ever, and the
  locks are neither lost nor leaked (`WaitsForOnEvent`, `ShutdownProceeds`,
  `Rearmed`, `LocksAccounted`).
* Windows service: the SCM learns the true final state and code and never sees
  an earlier state again (`FailureReported`, `NeverBack`, `StopServed`).
* Install: success means that systemd has what was installed
  (`InstalledComesBack`, `UninstalledStaysAway`), and whatever a failure left
  can be repaired (`OneRunRepairs`, `LinkHasItsUnit`).
* Validation: it ends, and its verdict is the right one (`Returns`,
  `VerdictExact`, `StackDistinct`); what it accepts can be walked
  (`GoodIsWellFounded`).
* Paths: what is resolved lies in the instance and is what the text denotes
  (`InBounds`, `ResolvesAsDenoted`, which also says what an error leaves in the
  outputs).
* JSON and files: what was saved comes back (`SavedComesBack`), a bad text is
  stored up to its first bad leaf (`LoadsLeafByLeaf`), nothing unset is shown
  (`ShownIsStored`).
* Editor: the path shown is the place edited, and only that place changes
  (`ShownPathsResolve`, `EditsWhatItShows`, `TypedIsStored`); the end of the input ends it
  (`InputEndEnds`).
* Generator: nothing of the header is lost silently (`CatalogComplete`), the
  output compiles (`NestedFirst`), describes the C members (`ReadersStayInside`)
  and carries their comments (`DescribedAsWritten`); what is built belongs to
  the header (`BuildIsCurrent`).

## Modules

```
StopContract     <--implements-- StopEvent       <-- MCStopEvent, LinuxService_proofs
ServiceLifecycle <--implements-- LinuxService    <-- MCLinuxService, LinuxService_proofs
              ^----implements--- WindowsService  <-- MCWindowsService, WindowsService_proofs
                                 LogindInhibitor <-- LogindInhibitor_proofs
                                 LinuxInstall    <-- MCLinuxInstall, LinuxInstall_proofs

StructMeta <-- DescriptorValidate <-- MCDescriptorValidate, DescriptorValidate_proofs
           <-- PathResolve        <-- MCPathResolve, PathResolve_proofs
StructMeta, FloatNumbers <-- PatchMenu <-- MCPatchMenu, PatchMenu_proofs
                         <-- JsonCodec <-- StructStore <-- MCStructStore

DocComment <-- StructMetaGen <-- MCStructMetaGen, StructMetaGen_proofs
```

A definition whose comment begins with "Mutant:" is a mistake a programmer
might make in the definition next to it; it is used nowhere, and putting it in
the place of the right one breaks a property.

### StopContract, StopEvent

`StopEvent` is one action per access to the lock, the condition variable or the
flag. `svc_request_stop(r)` is a call by thread `r`: `RequestCheck` (the NULL
test outside the lock), `RequestLock`, `RequestSet`, `RequestUnlock`,
`RequestBroadcast`. Main creates the two primitives, registers the callback,
waits (`WaitCall` .. `WaitReturn`), polls (`svc_stop_requested`) and disposes.
`com_util_condvar_wait` is external: it releases the lock and sleeps in one
step, and takes the lock again when it is woken, times out or wakes
spuriously. A disposed primitive whose pointer is not NULL yet is `"dead"`;
using one is the label `"fault"`. The variable `verdict` is a history variable
that records how the loop of `on_run` ended; it carries the refinement to
`StopContract` (`requested <- s_stop_requested = 1, waiter <- verdict`).

### ServiceLifecycle

The order of `on_start`, `on_run`, `on_stop` and the result, as the two
implementations share it: an abstract specification with no platform in it.

### LinuxService

One run of `service-sample run`. The state is grouped: `main_vars` (program
counter, result, thread handle, whether it was detached, whether the SIGHUP
handler is installed, the tracer), `shared_vars` (the stop flag, `s_ctx.def`,
`stop_fd`, `reload_fd`), the two eventfd counters (readable or not), the event
thread, where the SIGHUP handler has interrupted each thread (`hpc`),
what systemd has been sent (`sent`), and the history variables `hup_due`,
`early` (the last reload began before main's READY=1) and `misuse` (who has used
something main had given up). Main's actions follow `svc_os_run_service`: `StartStopFd`,
`StartReload`, `StartThread` (`svc_linux_events_start`), `Register` ..
`OnStop` (`svc_run_lifecycle`), `WriteStop`, `Join`, `RestoreHandler`,
`CloseReload`, `CloseStop`, `ClearDef` (`svc_linux_events_stop`), `Dispose`
(the end of `main`). The thread's are the steps of `events_thread_func` and
the handlers of its loop. `Hup`, `Term` and `WatchdogKill` are systemd, the
terminal and the kernel. SIGHUP is process-directed: the handler runs on main,
on the event thread, or on a helper, which stands for the threads of the tracer
and of the shutdown callback; its test of the descriptor (`HandlerTest`) and its
write (`HandlerWrite`) are two steps on each of them, and main goes on while one
of the others is between the two. A write after the close finds -1 or the old
number of the descriptor, as the compiler reads it once or twice. The set `Faults` names the system calls that may
fail; `JoinTimesOut` says that the event thread may be busy for longer than
the five seconds of `SVC_EVENTS_JOIN_TIMEOUT_MS`; `HupAnytime` says that SIGHUP
comes from anybody and not only from `systemctl reload`, which systemd refuses
unless the unit is active.

The stop abstraction appears as the one flag that `StopEvent` is shown to
implement, and of a logind operation only the steps that touch shared state
appear; its locks are the subject of `LogindInhibitor`. The console command is
the same program without the event thread: the behaviours in which its start
fails.

### LogindInhibitor

The event thread's set-up (`Setup`: two subscriptions, then the two Inhibit
calls, each of which may fail and is only logged; `Attach`: the connection joins
the loop), the queue of D-Bus signals, the two handlers (`Receive` calls `on_event`,
`Dispatch` is its return and what follows) and the release (`CloseBus`: without a
bus, after a failed attach, or at the end of the loop), with logind
as the environment: it announces an operation (`Prepare`), acts when no delay
lock is left (`Act`) or when its limit has passed (`ActExpired`), and announces
the end (`Finish`). logind refuses an Inhibit call while the operation it would
delay is under way. The service may start in the middle of an operation.
`subscribed` are the operations whose signals reach the service, `held` the two
descriptors, `locks` is the number of locks logind counts.
History: `awaited` are the announced operations `on_event` has not returned
for, `failed` the locks whose last Inhibit call failed for reasons of its own,
`late` that an operation was announced to a service still at the one before.

### WindowsService

`service_main` and `service_ctrl_handler` each fill `s_status` in two steps
(state and controls, then the exit code) and publish it in a third; `call`
holds the report each thread is in. The SCM (`scm`) delivers one control at a
time and only those the last status accepts; INTERROGATE comes in any state.
The history variable `crossed` is set when the two threads can report at the
same time: `on_run` fails by itself while a control is handled or still
accepted, or INTERROGATE comes. The checkpoint and the wait hint are left out.

### LinuxInstall

`install` and `uninstall`, one step per call that can fail or that changes what
systemd sees, in the order of `InstallSteps` and `UninstallSteps`. The unit
file is absent, cut or whole with its path and whether it has the line for
systemd-oomd; `inode` tells a file from another of the same name (a run that
has it open writes on into a removed file). `loaded` is systemd's copy,
`enabled` the link, `running` the program that runs. Several administrators run
the program at once from different copies, nothing locks them out. Any call may
fail (`Fails`), and a systemctl command that fails may still have had its
effect; `Kill` and `Reboot` come between any two steps. systemctl is external.
The run record of an administrator carries the locals of the C function and
three histories: `alone` (no other run, no start of the service beside it),
`slips` (the steps whose call failed) and `found` (there was a unit file).
`settled` is what the last undisturbed run ended with; `excused` that two runs
have met or a `disable` has failed.

### StructMeta, DescriptorValidate

`StructMeta` has the descriptors of `include/struct_meta/meta/meta.h` as data
and says in plain arithmetic and without recursion when one is valid
(`LocallyValid`, `Acyclic`, `Valid`). `DescriptorValidate` is the code: its
calls are `frames`, the array of `push_descriptor` is `stack` with its
`capacity`, the sums are taken modulo `SizeMax + 1`. `good` is the history of
the descriptors found good, in that order.

### PathResolve

The scanner of `access/path.c`, one action per name, digit and separator, over
tokens: a run of letters, digits and `_` that starts a segment is one token. Its
numbers wrap as `size_t` and `uintptr_t` do. Both forms of the call are there
(`form`), with any argument missing; `cleared` says which of the outputs have
been stored to, `out` what is in them then: the others hold what they held
before the call. `Denoted` is the meaning of a path,
taken apart at its dots (`Walk`) and with numbers of any size (`Numeral`);
`get_element` is the accessor of `access/access.c` beside it.

### FloatNumbers, JsonCodec, StructStore

`FloatNumbers` is the conversion of a double to a float, to the nearest number
with ties to the even mantissa and to infinity beyond the last one, on integers of
which a double holds all and a float the even ones; `Nearest` is what a reader of
the float may expect, said without the rounding.

`JsonCodec` has encode, decode and print as functions of a descriptor, a memory
and a JSON value. A memory is the sequence of the fields, a field the sequence
of its elements, an element a cell or a structure; a cell has a number (of a
text, its length) and whether anything was stored there since `malloc`. What
`malloc` gives is one of `Heaps`, with a NaN and a text without terminator among
them, so that a save of such cells puts out what they hold. Numbers
count quarters, so that a float, a double and an integer hold different ones.
cJSON is external, modelled from how it is used; that it prints a NaN and the
infinities as null is part of it. What a leaf holds after a decode is stated
without the conversions of the code (`Renders`). `StructStore` is the command loop of `struct_meta_sample.c` over
one instance and the files: a save is encode (`cmd_save`), `SaveOpen`, which
empties the file, `SaveWrite` and `SaveClose`; the process may be killed
between any two and started again on the same files. `kept` remembers what was
saved, `sparse` that a load left cells of the ready data unset, `leaked` that an
unset cell was put out.

### PatchMenu

The editor. Every call of `patch_struct`, `patch_array_field` and
`patch_scalar` under way is one of `frames`, every line the user enters one
step, `ret` the code on its way back through the menus. A path is the sequence
of its segments, `path_resolve` what `PathResolve` makes of it, one segment
after the other: `Lookup` in a structure, `Into` one. `mem` says for
each byte which edit wrote it, those behind the instance included: an edit
writes as many bytes as the C type of the kind has (`SizeOf`), not
`element_size`. A float gets the typed double as `FloatNumbers` converts it.
Decimals typed are numbers that a double holds. `parse_int` and `parse_unsigned` have the range
and sign rules of the code, with `strtoul` negating modulo `ULONG_MAX + 1`.

### DocComment, StructMetaGen

`DocComment` is what the generator takes from comments: joining and stripping,
`@brief`, the JSON commands, and which of the comments before and behind a
member wins. `StructMetaGen` is a build: `Make` runs the generator if the `.c`
is older than the header, the parser is the automaton `Grammar` with the
lookahead it needs for a comment behind a member (`Shift`, `SyntaxError`,
`Recover`, `Accept`), `emit_struct` is a stack of calls (`EmitNext`,
`VisitField`, `EmitDescriptor`), the two files are written one after the other
and `Compile` takes what is there. A header is a sequence of declarations, each
with its text (`Written`) and what it says in C. `Scanned` is what the rules of
the scanner make of the text: plain comments and the comment with `@file` are
dropped, the empty comment `/**/` is matched together with all text up to the
end of the next block comment, where there is one (`Matched`), and a number is
read digit by digit in base 10 (`strtol`), whereas C (`InC`) takes a leading 0
for octal. `EditHeader` comes at any time, also while the compiler runs, `Kill`
while the generator does. That the two belong together is `HeadersAssumption`: a
header's structures are, in its text as C reads it (`Code`), its closing braces with a name behind them, one name
each, with one member per semicolon in front, and where a member has a type, a
name and perhaps a number, its tokens spell it (`MemberAt`); a comment is a
sequence of lines; a number is the size of an array and not 0. What it leaves open
is what else stands in the header and what a member of another form (a pointer, an
array sized by a macro) means. It excludes a brace with a name behind it inside
other braces (a nested structure or union), and what the preprocessor hides. Whether make deletes the target of a failed rule depends on
the framework, which is not in this tree: both are modelled
(`delete_on_error`).

## Runs

Every passing run checks deadlock too. Model values stand for threads, paths
and names; codes are 0, 1 and 2, so that the first of two failures can be told
from the second.

| Run | Instance | Shows |
|---|---|---|
| `stop_event` | three requests, `FairSpec` | `NoLostWakeup`, `ImplementsContract` with its liveness |
| `linux_service` | every call may fail, the join may time out, SIGHUP from anybody at any time, two SIGHUPs, one D-Bus event, `MainFairSpec` | `HupNotLost`, `ReloadAnnounced`, `ReloadNeverKills`, `SafeUnlessDetached`, `NothingLeaks`, `ImplementsLifecycle`, `ReloadServed`, `StopLeadsToExit` |
| `windows_service` | every control and INTERROGATE, three of them, `FairSpec` | `FailureReported`, `ImplementsLifecycle`, `NeverBack`, `StopServed` |
| `logind` | four operations, the service starts at any moment, `on_event` may be late, a subscription and Inhibit may fail, `FairSpec` | `WaitsForOnEvent`, `Rearmed`, `LocksAccounted`, `ShutdownProceeds` |
| `linux_install` | two administrators with two copies, systemd 247 and 248, three runs, two failing calls | `InstalledComesBack`, `UninstalledStaysAway`, `OneRunRepairs`, `LinkHasItsUnit` |
| `descriptor_validate` | every graph of three descriptors out of a few contents each, `SIZE_MAX` 15, a stack of 1 that grows | `StackDistinct`, `GoodIsWellFounded`, `VerdictExact`, `Returns` |
| `path_resolve` | three tables (one not valid), `SIZE_MAX` 31, well-formed and broken paths, both forms, any argument missing | `InBounds`, `ResolvesAsDenoted` |
| `struct_store` | two files, two heaps, four commands, writes, flushes and reads that fail, kills | `LoadsLeafByLeaf`, `SavedComesBack`, `ShownIsStored` |
| `patch_menu` | a structure with every kind, an array of structures, one inside, and a lone char described as a double; two edits | `ShownPathsResolve`, `TypedIsStored`, `EditsWhatItShows`, `InputEndEnds` |
| `struct_meta_gen` | headers of one to three declarations out of nineteen, well-formed or not, with empty comments and octal sizes among them; two edits, one failure | `CatalogComplete`, `NestedFirst`, `ReadersStayInside`, `DescribedAsWritten`, `BuildIsCurrent` |

Bounds. `Requesters`: with three, one can set the flag, one wait for the lock
and one arrive late; the proofs cover any number. `MaxHups = 2` is the smallest
number with a SIGHUP during the reload of another. `MaxEvents = 1` is enough
for a thread that is in `on_event` when main stops it. `MaxControls = 3` lets a
reload, a stop and an INTERROGATE meet. Four operations give a late answer an
operation to hit, a third that starts from the result, and one of the other
kind. Three runs of the program let two overlap and a third repair what they
left. `SIZE_MAX` is a small power of two less one, with sizes in the tables that
reach it: every sum and product can wrap. Three descriptors make cycles of
every length the stack can grow for, and diamonds. In `struct_store` four
commands are enough to save, lose, load and show; the numbers reach `IntMax` and
beyond, so a conversion out of range is met. Three declarations are a structure,
one that uses it and a damaged one. The data runs
(`descriptor_validate`, `path_resolve`, `patch_menu`, `struct_meta_gen`) start
from every input of their sets; the MC modules list them.

The runs that expect a violation show one statement of the documentation or of
a comment each that the program does not keep:

| Run | Statement refuted | How |
|---|---|---|
| `stop_dispose` | `svc_request_stop` is thread-safe (`P/service-sample.h` 260) | main disposes lock and condition variable between the NULL test and the use |
| `windows_never_stopped` | SERVICE_STOPPED is reported (`src/app/service-sample/docs/service-events.md` 175) | the handler overwrites the state before it is published |

The conditions in the passing properties are the places where the code does
less than one might expect:

* `SafeUnlessDetached`: a detached thread reads `s_ctx.def`, the closed
  descriptor and the tracer after main has given them up. A SIGHUP handler on a
  thread main never joins may write to the closed descriptor, or to another that
  has its number by then, although nothing was detached; the comment at
  `P/service-sample_linux_events.c` 526-527 takes the order restore, then close to
  rule that out. The property is about main, the event thread, and handlers on
  these two.
* `ReloadAnnounced`: a reload begun during `on_start` that is still running when
  main sends its READY=1 looks ended to systemd. Two more things the code does
  break no statement and have no property: a reload that ends during `on_start`
  sends READY=1 before the service is ready, and one that ends after STOPPING=1
  sends READY=1 of a service that stops.
* `ReloadNeverKills`: outside READY=1 .. STOPPING=1, or when the set-up of the
  eventfd failed, SIGHUP meets its default action and ends the process.
* The watchdog ends a service whose event thread could not be started:
  nobody answers `WatchdogSec=30` (`WatchdogKill`).
* `FailureReported`, `NeverBack` and `StopServed` exempt `crossed`: an
  INTERROGATE between the assignments of `set_service_stopped` publishes
  SERVICE_STOPPED with NO_ERROR, and a reload that returns while `service_main`
  is ending reports SERVICE_RUNNING again.
* `WaitsForOnEvent` exempts `late`: an `on_event` that returns after the limit of
  one operation gives back the lock that delays the next.
* `Rearmed` and `ShutdownProceeds` speak of the operations the service has
  subscribed to. When a subscription has failed, which is only logged, its lock is
  taken all the same: nobody gives it back before the end, so every such
  operation waits for logind's limit, and one that was refused is not taken again.
  The comment at `P/service-sample_linux_events.c` 388-389 says that only the
  function concerned is disabled.
* `LocksAccounted` allows one lost sleep lock: `on_prepare_for_sleep` stores a
  new descriptor over one taken at the start of the service.
* `InstalledComesBack` speaks of a run whose calls worked: `install` exits with
  0 also when the flush in `fclose` failed, and systemd then loads a cut file.
  Overlapping runs are not locked out. `LinkHasItsUnit`: after a failed
  `disable` the unit file is removed all the same and the link dangles.
* `ResolvesAsDenoted`: when an argument is missing or the path is empty,
  `struct_meta_path_resolve_const` leaves both outputs as they were and
  `struct_meta_path_resolve` leaves `*field_out`. Every later error leaves NULL in
  both.
* `ShownIsStored` exempts `sparse`: a load into fresh memory that succeeds
  without filling every field lets unset cells be shown and saved. Such cells
  come back from that file into data that was complete, even with a load that
  fails behind them: it has stored the text up to its first bad leaf.
* `SavedComesBack` exempts a NaN or an infinity, which is saved as null (a float
  that was loaded or typed beyond the largest one is an infinity), a text without
  terminator that `malloc` left and a sparse load did not fill, and a flush that
  failed, which `file.c` does not report. A killed save loses the old file.
* `LoadsLeafByLeaf` promises the nearest number that the type holds, and beyond
  INT_MAX and UINT_MAX only some number of the type.
* `EditsWhatItShows` exempts a leaf described smaller than its kind, which neither
  the validator nor the editor notices: the bytes behind it are overwritten, past
  the end of the instance if it is the last. The generator describes a lone `char`
  so.
* `TypedIsStored` promises the nearest float, not the number, for a float. It
  exempts a `-` behind a blank, which `parse_unsigned` lets through to `strtoul`.
  The end of the input in a value prompt counts as a blank
  line; the menu above it meets it again.
* `CatalogComplete` exempts runs that wrote to stderr: a second comment behind a
  member, or an array sized by a macro, drops the structure with a message and
  exit status 0.
  An empty comment that swallows text is exempted here and in the next two: the
  structures in it are lost without a message (`G/struct_meta_gen_main.c` 14-15 promises all of the
  header), and what is
  left is described by comments that are none.
* `ReadersStayInside` exempts a single `char`, which is described as a double of
  one byte, and members other than texts whose size is written in octal, which
  are described with too many elements (`int x[010]` with 10); the size of a text is
  the compiler's.
* `DescribedAsWritten` exempts comments in several pieces, of which only the
  outer delimiters are stripped, and a `@brief` with no words behind it, which
  takes the next line even if it begins with a tag.
* `BuildIsCurrent` exempts a run that ended between its two files, or whose
  header was edited while it or the compiler ran: the `.c` is then newer than the
  header and stale files are taken for current.

## Fairness

* `StopEvent`: each thread takes its steps (weak fairness). The timeout has
  none: a stop has to be noticed because it is signalled.
* `LinuxService`: `MainFairSpec` lets main run, except that `on_run` may go on
  for ever until it is told to stop (`OnRunFails` is not fair). Nothing is
  assumed of signals, of systemd or of the watchdog. `StopLeadsToExit` needs no
  more, because main's join is limited in time. `ReloadServed` carries its own
  premise, `WF_vars(ThreadStep)`: the callbacks of the event thread return.
* `WindowsService`: both threads run, `on_run` returns once it is told; the SCM
  owes nothing.
* `LogindInhibitor`: logind goes on with what it announced and the event thread
  runs. Its limit (`ActExpired`) is not fair: it need not help, and nothing
  makes logind announce an operation.
* `DescriptorValidate`: a sequential function runs until it returns.
* `PatchMenu`: the program runs on (`Return`), and reading at the end of the
  input says so again. The user has to type nothing.

The other specifications have safety properties only and state no fairness.

## Proofs

The proofs assume only what the ASSUMEs of the modules say: main is not one of
the requesters, the codes are exit statuses (integers on Windows) with 0 among
them, tables have the shape
of descriptors, bounds are natural numbers, the versions of systemd parse to
integers, a name is none of the other tokens of a path, the descriptor being edited is
valid and has no two members of one name, the C types of the kinds have a size, the
mantissa of FLT_MAX is odd. TLC evaluates them in the
runs. Types are proved (the `Typing`
theorems) and no longer checked by runs in the modules that have one.

The end of `LinuxService_proofs`, about `StopEvent` for any set of requesters
(the module extends both specifications, which is why the one of `StopEvent` is
called `StopSpec`):

* `StopTyping` and `WakeupNotLost`. `NoLostWakeup` is not inductive: nothing in it
  says that a requester cannot set the flag while main is between its test and
  its sleep. `LockInv` adds that the critical sections exclude each other and
  that the flag is 0 there.
* `ImplementsContractSafety`: every step is a step of `StopContract` or a
  stutter.

`LinuxService_proofs`, for every set of codes and of failing calls and every
bound of `LinuxService`:

* `Typing`, from two lemmas that keep the Boolean flags (`FlagsStep`) and the
  other values (`ValuesStep`).
* `SharedStateOutlivesThread`, `ForwardedHupIsNotLost`, `FailedStartReleases`,
  `ReleasesEverything`, `NothingIsLeaked`. In the first, handlers on the helper
  threads are excluded, as in its property. They follow from one inductive
  invariant, `Resources`: whether the thread may touch `s_ctx` depends on where
  main is, so `SharedWhileJoinable` ties the thread handle to main's program
  counter, `HandlerHasFd` ties the handler, and a handler under way on main or on
  a thread not yet joined, to its descriptor, and
  `ReleasedInOrder` says what is already gone at each label of the release.
* `ReloadIsAnnounced`, `SighupIsNotFatal`. Both compare how many RELOADING=1 and
  READY=1 were sent. `Reported` keeps the difference: one while `on_reload` runs
  and none otherwise, less the READY=1 of main, which is missing until
  `on_start` returned; `Announced` adds that a reload that runs before main's
  READY=1 also began before it, and `LastReportOfAppend` what each message makes the
  last report; `HandlerStands` says that the handler of SIGHUP is there as
  long as the eventfd is open and the service runs.
* `LifecycleImplemented`: the service implements `ServiceLifecycle`.

`WindowsService_proofs`, for every set of codes, accepted controls and any
number of controls:

* `Typing`, `FailureIsReported`, `StatesFollow`, `LifecycleImplemented`. The
  middle two hold because the threads take turns at `s_status` until they cross:
  `TakeTurns` says so, `Reported` what a report under way has written so far,
  `Known` which state the SCM has at each step of `service_main`.

`LogindInhibitor_proofs`, for any number of operations:

* `Typing`, `LocksAreAccounted`, `IsRearmed`, `OperationsWait`. The queue is a
  piece of what logind announces, in which beginnings and ends alternate
  (`Alternates`), and only for operations subscribed to; the missing lock of one of
  these is taken again at an end that is still to come
  (`TakenAgain`); only the first end a service handles can find its sleep lock
  held (`Accounts`); a service that was never late holds the lock as long as
  `on_event` is due (`OnTime`).

`LinuxInstall_proofs`, for any administrators, copies, versions, runs and
failures:

* `Typing`, `InstallHolds`, `UninstallHolds`, `EveryStateIsRepaired`,
  `LinkGoesFirst`: all four properties of the run. `OnTrack` says what a run that
  is alone has achieved at each step as long as its calls work, from any state
  it may have found; `Exclusive` that a run that is alone is the only one under
  way; `Ordered` that the link is gone when the unit file is removed; `Lasting`
  that nothing disturbs what was settled until the next run.

`DescriptorValidate_proofs`, for any set of descriptors, any table and width:

* `Typing`, `RecursionBounded` (`StackDistinct`: the stack mirrors the calls
  under way), `AcceptedIsWellFounded` (`GoodIsWellFounded`: the checks in
  wrapping arithmetic imply the plain ones, and a struct field is passed only
  after its descriptor was found good).
* `VerdictIsExact`. Accepted is valid: the good descriptors hold all the root
  reaches, and of any set of them the one found good first nests none of the
  set. Rejected is not: a call is for a descriptor reachable from the root
  (`Settled`), so a bad field is within reach, and a descriptor met again on the
  stack lies on a cycle of calls under way, of which each nests the next.

`PathResolve_proofs`, for any tables, paths, addresses and width:

* `Typing` and `StaysInside`: the walk is at a descriptor reachable from the
  root whose bytes lie in the instance (`Placed`); a field lies in its
  descriptor and an element in its field because they are valid, so no sum or
  product wraps.
* `ResolutionIsExact`: both directions of `ResolvesAsDenoted`, and which outputs
  are cleared (`ClearingStep`). `Here` says that
  the meaning of the path up to the last dot is the descriptor and address where
  the walk is, `Read` what has been read of the segment behind it: a name that
  the meaning looks up as well, digits whose numeral is `index`. An error at a
  token means that the segment is not right (`Refused`), and a segment that is
  not right leaves the path without a meaning (`RefusedToTheEnd`); an index that
  overflows is larger than any `element_count`, because more digits never make a
  smaller number (`NumeralGrows`).

`PatchMenu_proofs`, for any valid descriptors, start paths and lines typed:

* `PathsShownLeadBack`, `StoredAsTyped`, `EditsStayInTheLeaf`. That a menu shows
  right paths is not inductive by itself: a path must also lead to the call that
  is under way with it (`FrameOK`), for the path of what the call opens is that
  path and one segment or one index more. `ResolveAppend` says what such a
  path resolves to, `SelectionOK` and `ElementOK` that the calls opened are
  again where their paths lead. `LeafBytes` makes the bytes of the prompt those
  of its path. `ToFloatIsNearest` says that the conversion, done with a division,
  is the nearest float.
* `EditsStayInside`: no edit of a leaf that has room for its kind changes a byte
  behind the instance, because every path leads to a field of a descriptor within
  reach and to bytes inside it (`ResolveSound`).

`StructMetaGen_proofs`, for any headers, edits and number of failures:

* `BuiltIsCurrent`. Only the order matters in which the parser, the two files
  and make's comparison change: `RunInv` follows a run of the generator,
  `Trusted` is what make relies on between two runs.
* `DependenciesComeFirst`. The calls of `emit_struct` under way are a walk
  (`Emission`): each waits at a field that nests the structure of the next, and
  the fields it has passed are emitted. A name is marked when its call returns,
  behind all it nests, and not again, because it is looked up first.

* `NoStructureIsLost` and `DescriptorsStayInside` (`CatalogComplete`,
  `ReadersStayInside`), under `HeadersAssumption`. Where nothing is swallowed, the
  tokens scanned are those C reads (`NothingSwallowed`). `ReadInv` says at each token
  what the parser's lists are, counted back from that token: the member under way
  and its type (`MemberRead`), a field for each semicolon since the opening
  brace (`FieldsAre`), a structure for each of some closing braces
  (`StructsRead`), and for each of all of them as long as nothing was reported
  (`Unbroken`). The state of the parser alone does not tell what was read, so
  `LastRead` ties it to the last tokens. Behind the parser, `VersionInv` keeps
  apart the runs whose lists are in the files (a file that is older than the
  header is of an earlier version), and `FilesInv` says what the files have.
* `CommentsAreCarried` (`DescribedAsWritten`), from the same invariant. What it
  adds is about texts: the delimiters left between joined comments are no
  commands, so the last command of each name is the one that was written
  (`StrippedAlike`), and `extract_brief_tag` is the paragraph of the last
  `@brief` (`BriefIsParagraph`). Both need what `FlattenSeq` computes, and that
  its recursive definition has a value at all (`FlattenUnfolds`).

Where such an argument goes over numbers (a least index, the last dot before a
position, a recursive function of the model), the proofs take a least
counterexample from the library's theorem that `<` is well-founded on `Nat`
(`LeastNumber`): the induction theorems themselves take an operator as a
parameter. This way the recursive functions `Walk` (of `PathResolve` and of `PatchMenu`) and
`Numeral`, and `FlattenSeq`, are shown to be defined and may be unfolded
(`WalkIs`, `NumeralIs`, `FlattenUnfolds`).

Model-checked only:

* all liveness (`ReloadServed`, `StopLeadsToExit`, `StopServed`,
  `ShutdownProceeds`, `Returns`, `InputEndEnds`, the liveness part of
  `ImplementsContract`), which is out of the prover's reach;
* `StructStore`, because `JsonCodec` recurses over descriptors with RECURSIVE
  operators.

## What the models assume

* A cycle of descriptors by value passes the size checks only if all of them
  have one size; the tables for `DescriptorValidate` have such cycles.
  Overlapping fields and two fields of one name are not rejected by the code,
  nor here: `PathResolve` finds the first.
* Keys of a JSON object are distinct. A decode keeps what it stored before the
  first bad leaf (`src/app/struct-meta/docs/architecture.md` 66-70).
* Conversions of numbers out of range: `Saturates` tells what the target does;
  the run has the one of x86, where an int becomes INT_MIN.
* Power loss without fsync is not modelled: a file that was closed is there.
* A process is killed between two calls, not inside one; where a call can be
  observed half-done (a write, a systemctl command that fails) the half is an
  outcome of it.

## Not modelled

* calc and calc.net: arithmetic on two ints, one expression per operation and
  no state; their tests reach the edges directly.
* override-sample: its state is com_util's symbol loader, a submodule that is
  empty here; what is left are calls of it.
* `svc_set_status_text`: it formats and sends a text nothing depends on. The
  contents of messages and traces and the argument parser; failing `sd_notify`
  calls, which the code only traces.
* Install and uninstall on Windows: one SCM call after another, with all that
  is kept inside the SCM. `StartServiceCtrlDispatcherU`: when it fails no
  service runs. The Windows console handler is a requester of `StopEvent`.
* An exit code above 255: the documentation asks callbacks to return 1 to 255.
* Number formats and wording of the listing and of the prompts; the paths and
  identifiers the generator builds; the layout of a structure, which is the
  compiler's.
* The callbacks of `service-sample-impl.c` other than `on_run` only trace; the
  models let them return any value.
* tutorial, subfolder-sample, doxygen-sample, empty-lib, the scripts and CI:
  examples and one-shot file rewriting, no state.
* Submodules: com_util, cjson and the other libraries are empty in this tree
  and are modelled from how the code uses them.
