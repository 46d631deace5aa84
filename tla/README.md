# winservice: a TLA+ model of the guest agent

winservice is a Windows service, `vTopSrv`, that runs in a guest of a Xen host, with
the libraries it loads and the Xen headers it is shipped with. This directory holds
TLA+ modules that model its code, TLC configurations that check them on small
instances, and proofs that TLAPS checks for every value of the constants.
References of the form `main.cpp:226` are to `src/vTopGuestAgent/main.cpp`,
`LogModule.cpp:360` to `src/LogModule/`, `ring.h:281` to `src/inc/`, and so on.

## The system

| part | where | state it keeps | operations |
|---|---|---|---|
| service | `vTopGuestAgent/main.cpp` | `_ServiceStatus`, `_hStatus`, `_hServiceExitEvent`, shared by two threads without a lock | `main`, `ServiceMain`, `ServiceInit`, `ServiceControlHandler`, `ServiceControlManagerUpdate`, `LaunchAppInSession` |
| uninstaller | the same program, run with `-u` | its own `_ServiceStatus` | `ServiceUninstall` |
| log | `LogModule/`, a DLL | per process: `_initialized`, `_log`, `_log_size`, `_log_num`, `_log_index`, `_log_path`, `_mutex`; shared: the log files and `configure.xml` | `LoadLogModule`, `DebugLog`, `InfoLog`, `WarnLog`, `ErrorLog`, `UnloadLogModule` |
| installer | `InstallDriver/main.cpp` | none of its own; the SCM's entry for the service | `ServiceInstall` |
| crash dumps | `Minidump/`, a DLL | `_pWinDump`, the process's exception filter and handlers | `StartCrashDump`, `StopCrashDump`, the unhandled exception filter |
| XML parser and printer | `tinyxml/tinyxmlparser.cpp`, `tinyxml.cpp` | the text, the parser's pointer, the elements under construction, the first error | `LoadFile`, `Parse` of each kind of node, `SaveFile`, `TiXmlPrinter` |
| XML tree | `tinyxml/tinyxml.cpp` | nodes linked by five pointers each | linking, insertion, replacement, removal, copies, deletion, walks, `TiXmlHandle` |
| XML attributes | `tinyxml/tinyxml.cpp` | a ring of attributes in each element | `TiXmlAttributeSet`, `SetAttribute`, `Query...Attribute` |
| XML strings | `tinyxml/tinystr.cpp`, `tinystr.h` | a block of memory for each string | `TiXmlString` |
| XML locations | `tinyxml/tinyxmlparser.cpp` | row, column and place of the last stamp | `TiXmlParsingData::Stamp`, `ConvertUTF32ToUTF8`, the line ends of `LoadFile` |
| request ring | `inc/ring.h` | shared indices, events and slots; private indices of two ends | the macros of a front and a back end |
| message ring | `inc/vring.h` | as above, with messages of any size and a count of free bytes | the `nc2_...` functions of a sender and a receiver |
| V4V ring | `inc/v4v.h` | a ring that the hypervisor writes | `v4v_copy_out`, `v4v_copy_out_offset` |
| V4V kernel client | `inc/v4vkapi.h` | `XENV4V`: a file, an event, a state | `XenV4V...` |
| V4V user API | `inc/v4vapi.h` | `V4V_CONTEXT`: a file, an event, flags | `V4v...` |
| other Xen headers | `inc/` | none: structures, constants and prototypes | |

How they interact. The service control manager (SCM) starts the process; its main
thread becomes the control dispatcher and calls the handler, and a second thread
runs `ServiceMain`. The two communicate through `_ServiceStatus`, through the event,
and through the SCM, which accepts stop and shutdown only while the state it has
recorded is running. The uninstaller is another process that talks to the service
through the SCM only. Both load the log DLL, each with its own index and mutex, and
share the log files and `configure.xml`, which the DLL loads, edits and saves with
tinyxml. The installer creates or changes the SCM's entry, possibly while the other
two run. Nodes of a document hold strings, elements hold attributes, and the parser
stamps each with its location. The headers of `inc/` carry inline code for two
processes (ends of a ring in two domains) or for a program and a driver; no
program of the repository includes them, and they are modelled as their
comments ask to be used.

What is hard, and what makes each part correct:

- service: two threads and a one-shot event, reports that must reach the SCM in
  order, a handler that may run before `ServiceMain` is ready or after it is done, a
  process that dies or ends with a thread still running. The SCM sees an ordered life
  cycle, no signal is lost, a stop ends in a stopped service.
- uninstaller: polling while the service stops, dies or is restarted. It comes to an
  end and deletes a service that has stopped.
- log: early returns from a critical section, an initialisation that no lock protects, rotation with a wrapping index, several
  processes on the same files, a settings file rewritten in place, 32-bit arithmetic,
  restarts. Files stay small and few, what is thrown away is the oldest, the settings
  survive, the mutex is always given back as long as it was initialised once.
- installer: a service started before it is fully configured, an entry that is marked
  for deletion meanwhile, failures that are not reported.
- crash dumps: start, stop and start again, filters that outlive their owner, two threads that
  fail together, results that nobody looks at. A process ends as handled with a whole dump,
  and the function that was overwritten can be called.
- XML: files cut off anywhere, inside a character too, failures signalled by a null pointer alone, text that
  has to survive being printed and read again, pointers of nodes that were deleted, a
  sentinel known by its empty name, memory given back while it is still read. Loading
  ends, what loads without an error is whole, a saved document loads as it was.
- rings: stores, barriers and reads of two ends that interleave, events announced
  just too late, indices that wrap, room counted once and used later, pads. Nobody
  sleeps on work or room, nothing unread is written over, order is kept.
- V4V: opens that fail half way, requests that pend, values of handles that come
  back as somebody else's, closes that fail. Each handle is closed once or known to be left
  open, success means what it says.

The list "hazards" of `PROJECT.json` has all of them with their lines.

## Plan

In this order; all but the last one are done. "Not modelled" and
"Only model-checked" below say what is left out for good.

1. `LogModule` with `OldestFirstLog`, the promise it implements; `LogModuleProofs`.
2. `GuestService` with `ServiceLifecycle`; `ServiceProofs`.
3. `ServiceInstall`, composed with `GuestService`, so that installers, uninstaller,
   service and SCM meet in one specification; also in `ServiceProofs`.
4. `Minidump`; also in `ServiceProofs`. `MCService` is the disjoint union of the last three for TLC.
5. `XmlParser` and `XmlSaves`: load, save, load again, and saves that are cut short; `XmlTextProofs`.
6. `XmlNodes` with `OrderedTree`; `XmlAttributes`, `XmlStrings` and `XmlLocations`,
   composed in `MCXmlValues`; for locations also `XmlTextProofs`.
7. `SharedRing` with `RequestChannel`, `MessageRing` with `MessageChannel`.
8. `V4vRing` with `DatagramQueue`, `V4vKernel` and `V4vUser`, composed in `MCV4v`;
   `V4vProofs`.
9. Proofs for the rings, each with the refinement of its abstract specification:
   `SharedRingProofs`, `MessageRingProofs`, `V4vProofs`; for the rotation of the log, with
   the refinement of `OldestFirstLog`. `Recursion` has what they need about walks.
10. `XmlProofs`: for the blocks of strings and, with `Recursion`, for the links of `XmlNodes`, the
   loops along them and that `XmlNodes` implements `OrderedTree`, and for the rings of
   `XmlAttributes` and what each call does to the list of an element.
11. A composition of the service with the log: the places of `main.cpp` where the two
    processes load and unload, so that the end of `main` cuts off a `ServiceMain` that
    still logs. (Each side is checked against deaths of the process at any step.)

## Modules

### LogModule

State of a process: `initialized`, `log`, `mutex`, `size`, `num`, `index`, `path`
stand for the static variables of `LogModule.cpp:27-37`; `path` is the number of
the file that `_log_path` names. On the disk: `config` (what matters of
`configure.xml`: the program's own section, a `<Log>` directly below the root,
whether the file is whole) and, for each log file, its size `fsize` and the set
`recs` of the records in it, numbered in the order they were written. `pc` and
`ret` place each thread in its call. `written`, `stored`, `restarts` and `raced` are
history variables: how many records, the index stored last, deaths so far, and whether two
threads of a process have passed the check of `_initialized` together.

| action | code |
|---|---|
| `LoadLogModule`, `SetInitialized`, `MutexInit`, `OpenConfig`, `ReadConfig`, `SetLogFunc` | `LoadLogModule` and `initLogConfigure`, `LogModule.cpp:239-277, 323-340` |
| `DefLogFunc`, `SetLogPath`, `Rotate`, `OpenLog`, `WriteLog` | the log calls and `defLogFunc`, `setLogPath`, `LogModule.cpp:373-424, 506-609` |
| `UnloadLogModule`, `ReopenConfig`, `ReparseConfig`, `TruncateConfig`, `PrintConfig` | `UnloadLogModule`, `saveLogIndex`, `LogModule.cpp:282-317, 346-368`, with `TiXmlDocument::SaveFile` |
| `Restart` | the end of a process at any point and its next start |

A call is cut into steps where somebody else can interfere: before the size of
the file is looked at, before a file is deleted, at each `fopen_s` and `fclose`.
`fopen_s` opens for reading shared and for writing alone, which is how the C
runtime opens files; a second opener fails, the record is dropped or the save
skipped, as in the code. `LogSize` is the product of `getLogSize` in wrapping
32-bit arithmetic, with the width `IntLimit` a constant.

The check of `_initialized` (line 326), the store (328) and the initialisation of the mutex
(330) are three steps, and nothing keeps two threads from going through them side by
side. The mutex may then be initialised again while somebody holds it. A thread that leaves
a critical section it does not own leaves the mutex with any owner (`MutexUnlock`), as
Windows defines no outcome. The model goes on from there, and what holds only until then
says so by `raced`.

`OldestFirstLog` says what a rotating log owes its reader: the records on the
disk are the newest ones, without a gap. `LogModule` is shown to implement it
with `kept` the union of the files and `last` the number written.

### GuestService

`main` is the main thread of the service process, which is the dispatcher and
runs the handler; `service` is the thread of `ServiceMain`; `status` is
`_ServiceStatus.dwCurrentState` and `event` is `_hServiceExitEvent`, with the
difference between no event, a closed one, and one that is set or not.
`scmState` is the state the SCM has recorded, which changes when a thread sends
`status`, not when it writes it. `entry` is the SCM's entry, `uninstaller` and
`seen` the uninstaller and its copy of the state. `starts`, `crashes` and
`stopOf` are history variables; `stopOf` is the start to which the uninstaller's
stop was delivered, 0 when `ControlService` or the polling failed.

Each statement of `ServiceMain`, `ServiceInit` and the handler that touches
something shared is an action; `ServiceNext` and `HandlerNext` give their order.
`LaunchAppInSession` (`main.cpp:351-472`) touches nothing shared and is one step.
The SCM is external and modelled from how the code uses it: one control at a
time, stop and shutdown only while the recorded state is running, an entry that
is marked for deletion goes when the service has stopped and nobody has it open.

`ServiceLifecycle` is what the SCM and everybody who asks it may see of the
service: stopped, start pending, running, stop pending, stopped. `GuestService`
is shown to implement it with `state` the SCM's record.

### ServiceInstall

Extends `GuestService` with any number of runs of the installer. `installer` says
how far each run is, `protection` which of the two failure settings the SCM's
entry has, `applied` (history) which runs created or updated an entry. The steps are
the calls of `ServiceInstall` (`InstallDriver/main.cpp:59-190`) in their order, with
each one's way out on failure; `StartInstalled` takes the step `StartService` of
`GuestService`, so that the service comes to life in the middle of the
installation. `Others` are the steps of everybody else, where `RemoveEntry` now
also waits for the installers' handles.

### Minidump

`pWinDump`, `deleted` and `saved` are the objects: the pointer, which of them are
gone, and the handler each has kept. An object is named after the thread that built
it, as a thread builds at most one. `handler` and `filter` are the process's invalid
parameter handler and its filter for unhandled exceptions, `hooked` says that the
entry point of `SetUnhandledExceptionFilter` is overwritten, `page` and `oldFlag` are
the protection of its page and what each thread will put back. `dump` is the dump
file and `ended` how the process ended. The actions are the calls of
`StartCrashDump` and the constructor in their order (`StartNext`), `StopCrashDump`, the
filter, and other code that sets a handler, a filter of its own or a null one, which
leaves the process with the system's. The filter opens the dump (`CreateDump`), writes it
(`WriteDump`), closes it (`CloseDump`) and returns (`ExecuteHandler`, `ContinueSearch`), one step
each, also when writing fails, so that another failing thread may open the file again or end
the process in between. Either `VirtualProtect` may fail without anybody noticing (`failed`); without
the first the second gets an uninitialised `dwOldFlag`: some protection, or none, with which
it fails, too. A page that
is only readable and writable cannot be executed (data execution prevention, the
linker's default): calling into it ends the process.
Deleting an object twice reads its handler from freed memory: any handler, or the end
of the process.

### XmlParser and XmlSaves

`text` is the file as a sequence of lexemes: brackets, quotes, pieces of names, white
space, references, a byte order mark, and the first and second byte of a character that stands for all
with more than one. `coding` is how characters are encoded, as the byte order mark or a
declaration says. `p` is the parser's pointer, with 0 the null pointer by which every
parse function signals a failure, and `stack` the document, the elements that the
recursion is in, and a declaration that is being read, with the nodes and attributes read so
far; a node says whether all elements in it are whole. Each parse function of a leaf is an
operator that returns a node and a pointer; `OpenElement`, `ReadAttribute`,
`EndAttributes`, `ReadText` and `EndValue` are the steps of `TiXmlElement::Parse` and
`ReadValue`, with each error they set and each they do not; `OpenDeclaration`,
`ReadDeclaration` and `EndDeclaration` those of `TiXmlDeclaration::Parse`. Letters are two, which is
enough to have equal and different names.

In UTF-8 `GetChar` takes as many bytes as the first one of a character promises
(`tinyxml.h:347-354`), whatever they are. A quote or a bracket behind a lone first byte is
therefore no end (`Swallowed`), and if the text ends with such a byte `ReadText` steps over
the terminating zero (`Overruns`). If memory goes on with a zero it stops as at the end of the
text, if not the parser has left the text: `p` is `Outside`, and the model says no more of it.
`GetEntity` returns null for a number that is none (`NoReference`), and so does what called it.

`XmlSaves` puts the parser to use: `phase` leads from the first load to a
save and a second load, or to a save that is cut short (`SaveFile` truncates the file
and prints, `tinyxml.cpp:1087`) and its load. The cut may be at any byte: of the lexeme
in which it falls one of its `Pieces` is left. `saved` is the document that was saved,
`printer` which of the two printers writes it. `LoadedAsSaved` has two parts: `ReloadStable` for
whole files and `TornSaveDetected` for those that were cut short.

### XmlNodes and OrderedTree

`node` gives each object its kind, value and five pointers, or that it is free. The
actions are the calls that change a tree; each of them changes the pointers in the
order of the code, copies included (`Clone` and `CopyTo` allocate any free objects).
The walks (`NextSibling`, `FirstChildElement`, `TiXmlHandle`) are operators. Callers
keep what `tinyxml.h` asks: a linked node is not linked again, and only a root is
deleted. `operator=` between a node and one under it, which reads what it has deleted, is
left out. `OrderedTree` has labels and lists of children and no pointers: a node is labelled, a
root attached at the end of a list, part of a list replaced by copies of other trees (`Splice`), a
tree copied or deleted. A copy is said by a map from the nodes that are copied to the new ones
(`Copied`), so that whole trees are compared without recursion. Each call is shown to be one of
these operations; `Labels` and `Lists` are the refinement mapping.

### XmlAttributes, XmlStrings and XmlLocations

`ring` gives each element, the sentinel of its own attributes, and each attribute its
name, value and neighbours. A loop over a ring is a walk (`Visited`) that is led from object to
object and ends at null: `Linked` the loop of `Find` and `Remove`, `Forward` and `Backward`
those with `Next` and `Previous`, which know the sentinel by its empty name and value. A
destructor (`ClearedRing`) and a copy (`AssignAttributes`) are such loops that also change the ring.
Failed queries and what they leave in the caller's variable are operators.

`rep_` gives each string its block and `heap` each block its capacity and text. All empty
strings share `nullrep_`, in which nothing may be written. A string that is appended to
itself and has to grow reads its block after `reserve` has deleted it: any text.

`file` is what is on the disk, `chars` the characters that are parsed: those of the file
with line ends as `LoadFile` makes them, or a text given to `Parse` as it is, the last
character cut off anywhere. `Stamp` is the loop over bytes, in both encodings: a `Turn` at
a time up to the byte it is called with, one of those where a lexeme can start (`Stamped`). The
properties read the text another way, as a sequence of characters (`Seen`) whose line ends and
columns are those of all in front of them (`EndsLine`, `Columns`).

The three share nothing, strings being values in the model of attributes. `MCXmlValues`
is their disjoint union, of which a behaviour takes one part.

### SharedRing and RequestChannel

A field that exists once for each direction is a function of the end that writes it:
`prod["front"]` is `req_prod`, `event["back"]` is `req_event`, `prod_pvt` and `cons` are
the private indices. A macro that stores, has a barrier and then reads is two
actions: `Push` and `CheckNotify`, `AskForEvent` and `LookAgain`. `Attach` is an end that
has lost its private state and takes up the ring as it finds it. Indices wrap at
`IndexMod`. `cut` (history) marks an end that was attached again between `Push` and `CheckNotify`, whose
notification never comes, until the other end looks by itself. `RequestChannel` has requests on their way, at work and answered.

### MessageRing and MessageChannel

One direction of `vring.h`, `sender` and `receiver` the private state of the ends with
the point at which each is. The sender is `nc2_can_send_payload_bytes` with its retry, the pad of
`__nc2_avoid_ring_wrap`, the message, `nc2_flush_ring`; the receiver reads what it has
seen, finishes, checks, arms its event and checks again. Sizes are in units of the
smallest message, and the sum of a message and its pad wraps at `ShortMod`. `MessageChannel` knows messages written and messages flushed: those
that a walk from header to header comes to (`Stream`).

### V4vRing, DatagramQueue, V4vKernel and V4vUser

`ring` are bytes, each named by its place in its datagram, so that a wrong copy shows.
The hypervisor sends; the reader looks at `tx_ptr` and copies later, with any length of
its buffer, any bytes skipped, consuming or not. A line has two bytes instead of sixteen, and the ring
is a number of whole lines: `v4v.h:184` and `328` count on that, although `v4v.h:142` asks for
a multiple of 8 bytes only.
`DatagramQueue` has the lengths of the datagrams; `Queued` finds them by a walk from header
to header.

In `V4vKernel`, `table` says who has each handle, `call` how far the call under way is and
what went wrong on its way, `requests` what the driver has still to complete and whether
the event it is to signal is still there, `channel` the driver's state. A request is done,
refused or pending; other code opens and closes handles with the values that were
closed. `XenV4VClose` may fail for the receive event, whose handle is one of the process that opened
it (`v4vkapi.h:141`), and leave the file open with it, in the state `V4vError`, or for the file alone; `leaked` (history)
keeps the handles that were left. A file that cannot be referenced (`v4vkapi.h:495`, `550`)
is dereferenced all the same, which stops the system. In `V4vUser` the same holds for any number of contexts with blocking or overlapped
calls, accepts into new contexts and closes that fail for one handle. The program opens
only an empty context and leaves one alone that an accept has filled and not finished.
`MCV4v` is the disjoint union of the three.

## Runs

| run | asks | bounds | states |
|---|---|---|---|
| `log_rotation` | the mutex, size limit, what rotation discards, restarts; the mutex is given back (`FairSpec`) | 1 process, 2 threads that both load, log and unload, 8 shapes of `configure.xml`, 3 files, 6 records, failing calls, 1 death; after two loads have raced a call starts only before the second record | 1,409,000 |
| `log_processes` | two processes on the same log files and the same `configure.xml`, deletions that fail | 2 processes of 1 thread, 3 files, 5 records; no failing allocations or opens and no deaths, for `ConfigReadable` | 735,000 |
| `log_index_lost` | finding: the stored index is not restored | 1 process, 1 restart | 900 |
| `log_already` | finding: 2 is returned after a failure | 1 process, 2 loaders | 31 |
| `service` | reports in order, the event, the end of `main`, the uninstaller, failure settings; stops complete and the uninstaller ends (`InstallFairness`); the dump file, the hook, the page and the handler | 2 starts, 2 crashes, 2 installers, every call may fail but those for the failure settings; 2 threads that fail, any of them start and stop the DLL, 2 calls of other code | 1,309,000 |
| `xml_load` | torn files are found out, saved documents load the same, every load ends | every text of up to 5 lexemes of markup, 3 of content, 4 of attributes or of a declaration; in each encoding 3 lexemes of an element, an attribute or a bare text | 802,000 |
| `xml_nodes` | pointers, walks, the effect of each call | 5 nodes, 2 names, with symmetry | 17,670 |
| `xml_values` | rings of attributes, blocks of strings, rows and columns | 2 elements and 4 attributes; 2 strings, 3 blocks, texts of 2; files of 3 characters of 9 kinds, tabs of 2 | 22,700 |
| `shared_ring` | no lost wake-up, no slot written over, order; requests are answered | 2 slots, indices up to 4, 1 attachment of each end | 635,000 |
| `message_ring` | messages in one piece, room, no lost wake-up, order; room is found | 8 units, indices up to 16, messages of 3 and 5 and a short that holds twice as much | 507,000 |
| `message_wraps` | finding: a message is granted that has no room | the same with a short of 8 units, so that the sum of a message of 5 and its pad wraps | 41 |
| `v4v` | datagrams, handles, what success means | ring of 5 lines, payloads up to 5; 4 handles in the kernel, 4 in user mode, 2 contexts, 2 pending requests | 706,000 |

Why the bounds are enough. A log file is full after one or two records (lengths 1 and 2,
a limit of 2 bytes, or one that wraps), so the records of a run fill, rotate and wrap around every file at
least once, and a record may end exactly at, before or past the limit. Two threads in one
process meet in every critical section and two processes meet on every file. An int
has four bits, so that <Size> 1 and 3 fit and 4 does not. Two starts and two crashes let
a service die while it stops, be started again and meet the same uninstaller.
Five nodes hold a tree of three levels, a copy of a subtree beside its source, and lists
of three and more children with a middle to take out. Three attributes in one element and one in
another have a first, a middle and a last. Three blocks for two strings leave room
for the new block that is filled before the old one goes; `Spare` is 0, so that `assign` gives
memory back within these lengths. A ring of two slots is full and empty often, and
indices up to twice the ring wrap every other time round; messages of three and five
units in eight need a pad, fit exactly, and (the longer) exceed half the ring. A V4V ring
of five lines puts header, payload and their ends at every place relative to the end of
the ring. The four handles of the kernel client are its two, one that a close has left open and one of somebody
else; those of user mode are those of two contexts. Records, restarts, starts, crashes, attachments and pending requests are bounded in the
guards of the actions and nowhere else.

Deadlock is checked for `xml_load` and `xml_nodes`, where a state without a step would be a
parser that hangs. It is not checked elsewhere: a model of which every bound is used up
has stopped, as has a machine with no service left, a process that has ended, a kernel after a bug check, a
sender whose message is too long for the ring, and a `Stamp` that does not return.

Fairness. A thread inside a call or a handler is scheduled (weak fairness of `Proceed`,
`MainThread`, `ServiceThread`); no call has to be made, no control sent, no service
started. The uninstaller's polling, `DeleteService` and `CloseServiceHandle` are
steps of its thread (`UninstallerProceeds`): no query has to fail, and `ControlService`
times out when the handler does not return. `ControlService` gets strong fairness, because it waits
for its turn at the SCM, which serves waiting requests in order, while other controls may
come and go. `InstallFairness` is the same for the composed specification. An end of a
ring that is awake goes on with what it is at, and an event that was sent is delivered;
no front end has to make a request and no sender to send. The back end answers
what it has taken.

What a property excepts. Some behaviours of the code are known not to be what one would wish,
and the properties say so in place of leaving them out of the model:

- `KeepsNewest` and `DiscardsOnlyWhenFull` hold until the process dies (the index is lost),
  `SizeHonoured` while the limit fits in an int (`LogModule.cpp:98`).
- Two threads that call `LoadLogModule` together both pass the check of `_initialized`
  (`LogModule.cpp:326`), although line 325 has it that initialising once is enough. The second
  initialises a mutex that may be held and sets `_log_index` again. `MutexDiscipline`, `MutexReleased`,
  `OpenFileExclusive`, `SizeBounded`, `DiscardsOnlyWhenFull` and `KeepsNewest` end there (`raced`), and each is
  violated if it does not. Neither program of the repository loads the module from two threads.
- A thread that fails while another one has written its dump truncates it (`CMinidump.cpp:105`) and may
  not get to write its own; the first ends the process as handled all the same (`DumpIntact`).
- Other code that sets a null filter after line 142 and before the entry point is overwritten leaves the process
  without any (`FilterBeforeHook`).
- When a `VirtualProtect` fails (`CMinidump.cpp:171`, `173`) the page may stay as it is, which is not
  executable (`EntryExecutable`).
- `EntryExecutable` and `RestoresHandler` hold with one thread that starts and stops the crash
  dumps: `StartCrashDump` (`Minidump/main.cpp:35`) is not locked. Of two threads that start
  together the second saves the handler of the first, although `CMinidump.cpp:79` has the
  destructor go back to the earlier one.
- Between `OpenService` and `CreateServiceA` of the installer another one can create the entry; the run then
  neither creates nor updates, although `InstallDriver/main.cpp:94` says one or the other.
  `ProtectedUnlessInstalling` holds all the same.
- An `&` in front of what looks like the rest of a character reference does not survive a save, nor do
  the white space that an unknown reference leaves and the first byte of a character without the second (`Printable`).
- A text in UTF-8 that breaks off inside a character lets the parser step over the terminating zero
  (`tinyxml.h:347-354`). `Advances` and the theorems about the parser hold up to there. `ReloadStable` shows
  that it does not happen to a file that was saved whole; a save that is cut short can leave such a file.
- An attribute with neither name nor value ends a loop over attributes early
  (`Iteration`, `UpToUnnamed`); `QueryUnsignedAttribute` sets its argument even when it fails.
- A string appended to itself is lost when it has to grow (`ValueSemantics`).
- `Stamp` does not return on a text that is cut off behind the byte 0xEF (`Located`).
- An end of a ring that is attached again loses what was on its way to it (`AllAnswered`), and if it was
  restarted between the new index of a push and its look at the event index the notification
  never comes (`NoWakeUpLost`, which excepts the other end then, until it looks by itself).
- A message of more than half a ring may never get room (`RoomIsFound`).
- A message and its pad that are more than an unsigned short holds are granted without
  room (`SizesFit`, see the findings).
- A close of the kernel client that fails for one of its handles leaves it open (`HandlesBalanced`), and an open that
  cannot reference its file ends in a bug check, of which nothing is said.
- An open of the kernel client closes a handle twice if the structure was used before and
  not zeroed, or if the receive event cannot be referenced; success does not mean a bound or connected
  channel when the request to bind could not be built or the one to connect pended and failed (`OthersKept`,
  `OpenMeansReady`).

### Findings

- `LogModule.h:35` says that a program has to call `UnloadLogModule` to store the index. It
  is stored below the root element (`LogModule.cpp:360`) and read from the program's
  section (`LogModule.cpp:263-275`): it never comes back, and each run of the agent starts
  writing at the configured file.
- `LogModule.h:28` has 2 mean already initialised. `_initialized` is set before the steps
  that can fail (`LogModule.cpp:328`): after a failure the module is said to be
  initialised and logs nothing.
- `vring.h:350` promises 1 if a message can be sent and 0 if not. Line 364 adds the pad to the
  size in an unsigned short: from 32768 bytes on the sum may wrap, and a message is granted for
  which there is no room, which is then written over others. `message_wraps` scales a ring of
  64 KiB and the short down to eight units.

## Proofs

`LogModuleProofs`, `ServiceProofs`, `SharedRingProofs`, `MessageRingProofs`,
`V4vProofs`, `XmlTextProofs` and `XmlProofs` hold theorems for all processes, threads, files,
record lengths, configurations, texts, tab sizes, starts, crashes, sizes of rings and messages, handles,
contexts, strings, nodes and attributes that satisfy the assumptions of the modules (`ThreadAssumption`, `DataAssumption`,
`ConfigAssumption`, `BoundAssumption`, `InstallerAssumption`, `ThreadsAssumption`,
`RingAssumption`, `RingLenAssumption`, `TextsAssumption`, `BlocksAssumption`, `NodesAssumption`, `AttributesAssumption`, `LocationAssumption`); those about handles assume only that the null value is no handle.

*Induction.* `Recursion` has the lemmas about walks over data, which the last two rings,
the parser, the locations and the trees of nodes share. Induction is said of a set of numbers in place of a predicate (`SetInduction`), and
follows from the well-foundedness of `<`. From it: that a recursive
function over the numbers exists (`RecursiveExists`) and what it is at each step
(`RecursiveIs`), also when the steps are numbered and there are only some (`IndexedExists`).

*The log.* `IInv` is `TypeOK`, `Bounded`, `Ready` and `MutexHeld`, of which `MutexDiscipline` speaks. None is
inductive alone. That the index stays in range needs `Bounded`: the settings a
process holds come from an initial configuration. That the mutex is free when
`LoadLogModule` initialises it needs `Ready`: a process that is not initialised
has no thread in a call, and only a process whose `_log` is set enters a critical
section. `Invariant` proves that `IInv` holds until two loads have raced (after that the types alone), with the lemmas `Acquire`, `Release` and `Keep`
for the ways a step can treat the mutex. That nobody else is loading when a thread initialises the mutex is part of `Ready`. On top of it:

- `OpenFileSafe`: the file a thread has open exists and is its own. `fopen_s`
  keeps writers apart between processes, `MutexDiscipline` within one.
- `SizeCorrect`: strengthened by `SizeKnown`, which carries what `setLogPath`
  decided on to the write.
- `NumCorrect`: strengthened by the range of every index and path a process holds.
- `ConfigSafe`: assumes that writes do not fail and no process dies.
- `SizeIsHonoured`: assumes what the property excepts, a <Size> that fits in an int
  (`LogModule.cpp:98`), and nothing about who shares the files.
- `DiscardsWhenFull`: one process (`OneProcess`), any number of threads, any failure. Which
  files have to be full when the next one is taken depends on the round: in the first one
  those from the configured index to the current one are full and the others absent, later
  all are full. `Rounds` says so between calls and at each point of `setLogPath`.
- `KeepsNewestRecords`: also that nobody's deletion fails, and that the configured index is
  one of a file. `Aged` says that each file holds consecutive records, and the order of
  their ages is that of `Rank`, from the file behind the current one around to the current
  one. A rotation deletes the file of lowest rank, and the union of the others is what
  `OldestFirstLog` has after `Discard`. `log_rotation` satisfies the assumptions of all three.

*The service.* `Phases` says which combinations of `main`, `service`, `status`,
`event` and `scmState` go together in each phase of a service's life (unborn,
starting, serving, stopping, ended). `ThreadsSafe` and the
refinement follow from it: each step of `GuestService` is a step of
`ServiceLifecycle` or changes neither the record nor whether there is a process.
`DeletesLast` needs a second invariant, `StopTracked`, on where the service can
be after the uninstaller's stop was delivered.

*The installer.* `InstallSafe` assumes that the calls for the failure settings work
on an entry that is not marked. The property alone is not inductive: that a run
which has set the first setting still finds it set when it gets to the second
needs `HandlesHold`, that an entry stays in the database while somebody has a
handle on it, so that nobody can have created a new one meanwhile.

*The crash dumps.* `DumpInv` adds to the properties where a dump is known to be
whole (`DumpKept`: whoever is done with it left it so, unless another thread has opened it since and is not
done) and from which step on a filter stands (`FilterStands`), which holds
in a process that is alive and until other code sets a null one. `PageExecutable` and `HandlerRestored` assume that one
thread starts and stops the DLL, though any number may fail (`OneUser`). Their invariant `UserInv` says that until one of them fails the page is changed only between
the two calls of `VirtualProtect`, and that every object under construction or
published keeps the handler of the first takeover. `before` has to be set only once for
that: a second start finds `_pWinDump` set, which a stop does not reset.

*The request ring.* `RingSafe` is about neighbours: what an end will read next and what it is
owed. Inductive is only the whole order of the indices (`Order`): from the front end's `rsp_cons`
on, the responses published, those put, the requests at work, those taken, published and put
follow each other within the slots of one ring, distances taken around the range of
indices (`Dist`). `SlotsKept` says by distance which slots hold responses and which hold requests;
`Asked` and `Woken` are the two halves of the event protocol, at the barrier and after it. Both have to carry
whom a restart in the middle of a push has left without its notification (`cut`): nobody else.
`RingAssumption` wants the range of indices to be a multiple of the number of slots, as 2^32
is of the power of two that `ring.h:44-49` makes the size, and more than one ring long.
`RingImplementsChannel` maps the ring to the sequences of `RequestChannel` and shows each
step to be one of its steps or none: an index advanced by one is an element appended or
taken from the front (`SequenceTheorems`).

*The message ring.* Here one index may be followed by the next only at the end of a message.
`Chained` says that there is a set of places (`Starts`), from what the receiver reads next to where the
sender writes, at which messages and pads start, each ending where the next one starts
and none around the end of the ring, and that a pad has its message behind it
(`Paired`). `Order` is the order of the indices, `Granted` that the room that was found is
enough for a pad and the message, `Refused` and `ReceiverTold` what the other end will do
about an end that sleeps. `Refused` is relative to the index the sender asked for last
(`Awaited`), because the receiver may have finished something since. Messages may have any
sizes below half the range of an unsigned short (`SizesFit`, which both theorems assume; that the granted room is
enough fails without it). `RingAssumption` asks no more of the short than that it holds the sizes.

`MessagesImplementChannel` needs what the walk from header to header reads. There is one path
from an index to another at most (`OnePath`), so that any path that is shown to exist
gives the stream (`Streamed`). A flush joins the path of what was written to that of what was
flushed, a message sent is one step more at the end, a message read one step less at the
front, and a pad that is read changes nothing, because the path starts behind it. That
sending writes over no header of either path is what `Chained` is for.

*The V4V ring.* `ReaderInv` is of the same kind: a set of places where datagrams start, each of
which holds its payload byte for byte wherever it wraps, and that a reader which is about to copy has
found one (`Found`). `ReaderCorrect` goes from there through the two parts of the copy and
the bytes that are left out of them. `ReaderImplementsQueue` shows that the walk over the
headers gets to `tx_ptr` (`ReaderWalks`: each step is at least a header nearer to it), that it gets longer by what the hypervisor sends and shorter at the front by
what is consumed, and is not changed by anything else.

*The V4V clients.* `KernelInv` says for each step of a call which handles the client has
(`HandlesInStep`, of those that no close has left open, which stay as they are: `LeakedHeld`), what the structure holds (`StructureInStep`) and how far the driver
is (`ChannelInStep`). `KernelSafe` alone is not inductive: that an open which fails late leaves no handle needs
to know which ones it has got, and that success means a bound channel needs that no
request for an earlier state can undo a later one. `KernelHonest` proves the action
property `KernelKeepsWord` from the same invariant. `UserInv` adds `RequestsOwned` to the
property: a request is pending only on files of contexts with overlapped calls, so that
nobody but the caller changes the channel of a blocking one, and owned files are open.

*The parser.* `ParserInv` says that the pointer is null or in the text or at its end (`InText`), unless the parser has
left a text in UTF-8 that breaks off inside a character (`Strayed`), that the frames
of the recursion are the document's and above it those of elements and declarations (`Stacked`), and that without an error all nodes read so far are whole.
`ElementsAreWhole` needs the last part for every frame, not only for the document: an
element is not whole if a child is not, and the parser returns through all of them.
`EveryParseEnds` is about the measure `Left + Len(stack)`: each step
that does not end a parse gets nearer to the end of the text, with two for each lexeme, or leaves a frame. What
makes it go down is where each function leaves the pointer: `FirstPlace` says that a scan finds the first
place at or behind its start or the end of the text, and each action has a lemma (`...Reads`) for the
pointer and the frames it leaves. Texts may be of any length and over any strings, with a byte order mark at the start if at all. That the parser
is never stuck before it has returned is not among the theorems: TLC checks it as deadlock.

*The locations.* `Located` compares a loop over bytes with an order of characters, so the invariant
(`LocationInv`) says that the place that was kept is behind a number of whole characters, never between the
halves of a pair of line breaks, in the row and column of these characters (`Behinds`). `Layout` says
where each character is in the bytes, in both encodings and when the end is cut off. A turn of the
loop gets from behind one character to behind the next or the one after it (`BreakMoves`, `GlyphMoves`), so
the loop ends behind a character where it can go no further (`WalkedIs`, by induction on its turns), and
that this is in front of the place asked for takes a cut (`OnlyCut`). Whether a break ends a line is
counted from the start of a row of breaks, and `EndsLineIs` brings that down to the break in front
of it. That the lines of a file are as many as its line ends needs `CountsAlike`, by induction: what `LoadFile` makes
of the characters one by one has as many breaks as the whole text. `LocationAssumption` leaves out a tab size
of 0, with which nothing is located. `EveryCharacterReadAgain` is arithmetic: the bytes of a number
give its groups of six bits.

*The strings.* `BlocksOwned` is inductive with the types: the operations come down to a text
written in place (`WrittenIs`), a new block with the old one deleted (`GivenBlock`), a block
given back and two exchanged. Each lemma gives the effect on the texts with the
invariant, from which `StringsAreValues` follows.

*The trees of nodes.* `Consistent` speaks of walks: lists of children, ancestors, what a
destructor reaches. Inductive is what the links say of neighbours (`TreesOn`): next and
prev are each other's inverse between siblings, a parent knows the first and the last of its
children, and there are two orders, one that rises along next and one that rises from
parent to child, without which a ring of siblings or of ancestors would satisfy all the
rest. `ChainOf` and `SubtreeIs` go from links to walks: a walk that rises ends before it has
seen every node once (`FS_PigeonHole`), and what a destructor reaches is the smallest set that
holds the node and the children of its members, so that nothing else is deleted. The
calls come down to five changes of trees: a root added, a child detached, a root joined between two
neighbours (its tree is moved above the parent in the second order), whole lists of
children dropped, and a tree grafted, as a copy, under an object that has no children. A clone is an
object that is added and grafted; `ReplaceChild` is a clone, a child detached, the clone joined
where it was, and a tree dropped; `operator=` is lists dropped and a graft. The one assumption is
that the nodes are finitely many.

*Loops over children.* `StepsVisitAll` says where a loop is after any number of steps: at the
node with as many before it that match (`Nth`), which counts matches (`Earlier`) and
needs no list of them. What is behind a place of a list is the chain from there
(`ChainAfter`), so each step finds the first match behind it (`NextIn`), which has one more
before it (`NthStep`); `SetInduction` does the rest.

*Trees without pointers.* `NodesAreTrees` needs the lists after a step, where the invariant only
speaks of neighbours. A list is the path along next from the first child to null (`Path`),
and there is one (`SameKids`), so it is enough to show some path in the new state. A splice
is cut into the part before the gap, what fills it and the part after it (`JoinPlaces`); the parts keep
their links (`PathPart`) but for the two ends, and what fills a gap is the image of a list under the
map of the copies (`PathImage`). That a map copies whole trees is `CopyLinks`. What is
`Reached` in `OrderedTree` is what a destructor reaches (`ReachedIs`). `FillStep` puts
this together for every splice: insertions (`InsertStep`), removals (`CutStep`) and `operator=`
(`AssignStep`) are cases of it. The rest of the calls leave lists alone or end one
(`AttachStep`, `LabelStep`, `DeleteStep`).

*The attributes.* `AttributesConsistent` and `Dictionary` speak of what loops visit, calls change links. The
invariant (`AttrInv`) says that there is a list for each element such that the links are
those of the lists (`RingsOf`): from the sentinel through the attributes and back
(`Round`), no name twice in a list (`NamesApart`), no attribute in two lists (`InOneList`), and
all that is in no list free. A loop that is led along a list visits just that list
(`VisitedIs`, by induction on its steps; it ends in time because a list without repetition is
no longer than there are attributes), so `Linked`, `Find`, `Forward` and `Backward` come down to the lists.
Each call leaves links of the lists that it promises, and everybody else's as they were:
an attribute added at the end or stored in its place, one taken out, a whole list
given back, by induction on the turns of the loop (`ClearedAfter`), and a copy, which
after each turn holds as much of its source as the loop has seen (`Copying`). The second
theorem reads the lists of pairs off (`Effect`). `AttributesAssumption` wants finitely many attributes, other
than the elements and null, and that names and values may be empty; no value is the null
pointer, which is how a query without an answer is told from one.

*Only model-checked.* Liveness under fairness (`MutexReleased`, `StopCompletes`,
`UninstallerEnds`, `AllAnswered`, `RoomIsFound`) is beyond the prover. `XmlSaves` prints with
recursive operators, which the prover does not take, so `LoadedAsSaved` is checked for the texts within the
bounds; of its two parts, `WholeElements` is proved of the parser.

## Not modelled

- The wording of log records, the time stamp, the length limits of the text buffers, the
  creation of the log directory, and a log function supplied by a caller, which no
  caller supplies.
- `Run` and `AddFeature` of `main.cpp` (251-350): nothing calls them.
- What `LaunchAppInSession` starts in the user's session; it never reports back.
- `SetServiceStatus` failing; its result is not looked at, and the SCM refuses only bad
  arguments.
- The death of an installer in the middle of its run: the entry stays as it is until the
  installer is run again.
- A stop that is refused because the service is still starting; the uninstaller marks
  the entry all the same.
- The code of tinyxml under `TIXML_USE_STL`, which no project defines; the formatting of numbers;
  searching and comparing in `TiXmlString`; `Accept` with a visitor other than the printer.
- The exception class of `WinExcepeion.h`, which nothing throws, and `MiniLog`, which nothing
  calls.
- The second direction of a pair of message rings, which shares no field with the first.
- The remaining headers of `inc/`: hypercall structures, request codes and prototypes of
  libraries and drivers that are not in the repository.
