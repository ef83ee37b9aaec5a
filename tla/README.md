# The plustek backend, specified

A TLA+ development of the program in `src/`: a SANE stripped down to the
`plustek` backend (Canon LiDE 25 and relatives on USB), its `sanei` helper
libraries and the frontend `scanimage`.  The modules describe what the C code
does, TLC checks them on small instances, and TLAPS proves the most important
results for every instance.

Everything is modelled for the build `configure.ac` makes: readers are forked
processes (neither `USE_PTHREAD` nor an OS/2 build), the lamp timer uses
`alarm()` (no `HAVE_SETITIMER`), neither libpng nor libjpeg is looked for.  One
exception: `configure.ac` leaves lock files out, and `AccessLock` and `DeviceUse`
model them as a build with `ENABLE_LOCKING` has them; `DeviceList` is the build without.

## 1. Inventory

### What calls what

```
scanimage --(sane_*)--> plustek.c --(usbDev_*)--> plustek-usb.c --> plustek-usb{scan,img,hw,shading,cal,map,calfile}.c
    |  SIGINT: sane_cancel   |  fork, pipe, SIGUSR1, SIGCHLD, SIGALRM        |
    |                        +--> sanei_thread.c, sanei_access.c             +--> plustek-usbio.c --> sanei_lm983x.c --> sanei_usb.c
    |                        +--> sanei_config.c, sanei_constrain_value.c
    +--> stiff.c, jpegtopdf.c (pictures to files)
```

`sane_start` forks a *reader process* that drives the scanner and writes the
picture into a pipe; `sane_read` in the frontend's process reads the pipe.  The
two processes share no memory after the fork: cancel is a signal (`SIGUSR1`,
which the reader keeps blocked and polls with `sigpending`), the end of a scan
is the end of the pipe, its result the exit status.  A calibration started by
option is another forked process, of which the frontend's process learns through
`SIGCHLD`.

### Components

| component | state it keeps | operations | what is hard | what makes it correct |
|---|---|---|---|---|
| Scan session (`plustek.c`, `sanei_thread.c`) | `Plustek_Scanner`: `scanning`, `reader_pid`, `r_pipe`, `w_pipe`, `ipc_read_done`; `cancelRead`; signal masks; the reader's position | `sane_open/start/read/cancel/close/set_io_mode`, `do_cancel`, `reader_process` | two processes, a pipe of limited size, signals at any point, a cancel inside a read, failures of `pipe`, `fork` and the device | one reader at a time, device open as long as it runs; lines in order; EOF only after the whole picture; every cancel and read comes back; nothing left between scans |
| Calibration by option (`plustek.c`) | `calibrating`, the global `sc`, the `SIGCHLD` handler | `OPT_CALIBRATE`, `sig_chldhandler`, the wait in `sane_start` | a handler that does not know which child died; a flag set after the fork | calibration and scan exclude each other; the wait ends |
| Reading a picture (`plustek-usb.c`, `-usbimg.c`, `-usbscan.c`) | `ScanDef`: ring of blocks, get pointers per colour, lines to skip, discard, process, `wSumY` | `usbDev_Prepare`, `usb_ReadData`, `usbDev_ReadLine` | a ring that wraps at different lines for different channels, lagging sensors, rounding, device failures | each row from the right line and channel; never dry before the last row |
| Pixel processing (`-usbimg.c`) | none between lines | ~40 `pfnProcess` functions | integer scaling | width and order of the pixels |
| Options (`plustek.c`, `sanei_constrain_value.c`) | option descriptors and values of a handle, geometry ranges | `sane_control_option`, `sane_get_parameters`, `local_sane_start` | dependencies between options (mode, source, resolution, area) | active options consistent; parameters announced are those of the scan |
| Device list and attach (`plustek.c`, `plustek-usb.c`, `-usbdevs.c`, `sanei_config.c`) | `first_dev`, `usbDevs`, `dev->usbDev`, `attached` flags | `sane_init`, `attach`, `usbDev_open`, `sane_get_devices`, `sane_exit` | failures half way, two handles on one device | a device is opened once; every failure undoes what was done |
| Access lock (`sanei_access.c`) | lock files with the owner's pid | `sanei_access_lock`, `sanei_access_unlock` | crashed owners, takeover, non-atomic create and write | one process at a time; a dead owner's lock does not last |
| Lamp timer and lamp (`-usbhw.c`) | `dev_xxx`, `alarm`, lamp registers | start, stop, the handler of `SIGALRM` | a handler doing USB I/O between any two statements | never while a scan runs; the lamp goes off at last |
| Motor and sensors (`-usbhw.c`) | register shadows, position | move, home, wait, buttons | polling with timeouts and cancel | the carriage ends up home or an error is reported |
| Scan parameters (`-usbscan.c`, `-usbmap.c`) | `ScanParam`, `a_bRegs`, gamma maps | resolution, size, registers | rounding, chip limits | physical resolution at least the user's; sizes agree |
| Gain, offset and shading (`-usbcal.c`, `-usbshading.c`) | `m_*` globals, shading buffers | `usb_DoCalibration`, search loops | convergence against hardware | the search ends; lines shaded by their own channel |
| Calibration files (`-usbcalfile.c`) | one text file per device | save, restore | versions, several sources per file | what is restored is what was saved for this source |
| Register access (`-usbio.c`, `sanei_lm983x.c`) | none | chunked read and write with retries | short transfers | all bytes, once, in order |
| USB access (`sanei_usb.c`) | table of devices | open, close, transfers | table limits, reopening | descriptors valid while open |
| Frontend (`scanimage.c`, `stiff.c`, `jpegtopdf.c`) | batch state, open file, a byte kept back | scan loop, signal handler | pieces that end inside a sample, failures of any call, signals anywhere | a named page is a whole page; the exit says what is missing; a signal ends the program |
| Parallel port backend, `sanei_scsi.c`, `sanei_pa4s2.c`, `sanei_net.c`, ... | - | - | - | not built here |
| `lib/` | - | - | - | vendored |

`PROJECT.json` lists every one of them with its status, and the hazards of the
code, each at its line.

## 2. Plan

In order of how much of the system depends on it; all but the last are done.

1. **ScanSession** with its promise **SaneHandle**; safety and the refinement proved.
2. **Calibration**, the other process of the backend; safety proved.
3. **ScanBuffer**, the reader's inner loop; safety proved.
4. **AccessLock** and, composed with it, **DeviceUse**: everything that opens, locks,
   lights and closes the device, in several processes; safety proved.
5. **CoarseSearch** and **CalFile**, composed in **Prepare**: what a reader does
   before the picture; the searches, the light, the end and the files proved.
6. **UsbTable** and **DeviceList** on top of it: from `sane_init` to `sane_exit`; safety proved.
7. **Options**: what a handle offers, announces and remembers; safety proved.
8. **ScanImage**: the frontend; safety proved.
9. Not begun: the old calibration of CCD devices (`usb_DoCalibration`), motor and
   sensors as polling loops with timeouts, the chunked register transfers, resolution
   and scaling as pure algorithms.

How they fit together: ScanSession takes from ScanBuffer that a reader delivers its
lines or fails, from Prepare that a preparation ends; DeviceUse takes a scan to
end or be cancelled, which ScanSession is about; Options' parameters are the numbers
of rows and bytes ScanBuffer starts with; ScanImage takes a handle as SaneHandle
promises it.

## 3. Modules

### SaneHandle

What a handle promises a frontend: lines come in order and only during a scan,
`SANE_STATUS_EOF` means that the whole image was handed over, a cancelled or failed
scan does not start again by itself.

### ScanSession

One handle for several scans.  Frontend's process and reader processes are state
machines; a step is the code between two points at which the other process can
be noticed (a read or write of the pipe, a `waitpid`, a signal).

| model | code |
|---|---|
| `at`, `cont` | where the frontend's process is, and who called `do_cancel` |
| `sig` | a signal handler runs `sane_cancel` on top of it |
| `scanning`, `reader_pid`, `r_pipe`, `w_pipe`, `ipc_read_done` | `Plustek_Scanner` |
| `hw`, `sigalrmBlocked` | `dev->fd`, the signal mask between `usbDev_startScan` and `usbDev_stopScan` |
| `pc`, `line`, `usr1`, `result` | a reader: position, lines written, pending `SIGUSR1`, exit status |
| `pipe`, `fds` | the pipe's contents and the ends open in the frontend's process |
| `image`, `ret` | what the frontend has seen |
| `early` | history: a handler's `sane_cancel` came inside a `sane_start` that did not know its reader yet |
| `SaneStart`, `StartWithoutPipe`, `StartReader`, `ReaderValid`, `ReaderStarted`, `ReaderNotStarted`, `StartRejected` | `sane_start` and `local_sane_start`, whose checks are a choice |
| `SaneRead`, `ReadIpc*`, `ReadData`, `ReadAgain`, `ReadFails`, `ReadEndOfFile`, `EndOfScan`, ... | `sane_read` |
| `SaneCancel`, `SaneClose`, `DoCancel`, `AfterWait`, `CancelDone`, `KillHard` | `sane_cancel`, `sane_close`, `do_cancel`, `drvclose` |
| `SignalCancel`, `SignalCancelDone` | `sane_cancel` from `sighandler` of `scanimage.c` |
| `ReaderEntry` ... `ReaderExit` | `thread_entry`, `usbDev_Prepare`, `reader_process`, the exit of the child |

The kernel is external: pipes, `kill`, `waitpid`.  A line of the picture is one
unit in the pipe.  `SaneRead` may be called on any open handle, one that was never started
included (`ReadIpcFails`: the descriptor is -1); a handler may call `sane_cancel` at the points
`AsyncCancel` names, inside `sane_start` and `sane_read`.

### Calibration

One or more handles, the calibration process, the reader in outline.  `Calibrate`,
`CalibrateMarks` and `CalibrateCatches` are the three statements of `OPT_CALIBRATE`
between which a child can die; `ChildExits` is the child and `sig_chldhandler`;
`Faults` names what may go wrong.

### ScanBuffer

Inside the reader.  `Init` is `usbDev_Prepare` up to its call of `usb_ReadData`,
`ReadBlock`, `ReadFails`, `SkipFails` and `ReadNothing` a turn of `usb_ReadData` - a read of the block
that fails goes round its loop, a read of lines to skip that fails ends the call - and `ProcessLine`
a turn of the loop in `usbDev_ReadLine`.  A position in the ring is a slot of one
physical line; in a slot stands the number of the line the device delivered, so
that the properties can tell a line that is there from one that is not, or was
overwritten.  Where in a line a channel's samples are is `plane`.  Not in the model: the
device's early ends in `usbDev_Prepare`, bottom-up pictures and `SCANFLAG_bgr`,
which nothing in the backend asks for.

What `SetupOK` asks of a setup the code grants: `usb_SetAsicDpiY` never chooses a
physical resolution below the user's; the largest line fits the 8 MiB buffer more
than often enough for the distance of the sensors; `OpticDpi` is square in
every table, so both distances are equal (the model only asks `shift <= distance`).

### AccessLock and DeviceUse

AccessLock is `sanei_access_lock` and `sanei_access_unlock` for one lock file:
`TryCreate`, `WritePid`, `CheckLock` and `UnlinkDead` are one system call each, and a process may
die (`Die`) between any two.  DeviceUse EXTENDS it with every caller of the lock and every
user of the device.  `at` is where a frontend's process is: `a_...` in `attach`, `s_...`
in `sane_start`, `e_...` at the end of a scan, `b_...` in `usb_UpdateButtonStatus`,
`x_...` in `sane_exit`; `irq` is where its lamp timer's handler is, which no other step of
the process overlaps.  `claim` is the kernel's: one process at a time has the interface.
`litBy` is who lit the lamp last, `unforked` who could not fork a reader and has not unlocked
since.  The reader process counts as its frontend.  A process ends with `sane_exit`; that it
may live on with an alarm set for a device that is freed (`SaneExitIgnored`) is not followed.

The model has one device, one handle per process, a lamp-off period and `lampOffOnEnd` configured.

### CoarseSearch, CalFile and Prepare

CoarseSearch is the three loops of `cano_AdjustLightsource`, `cano_AdjustOffset` and
`cano_AdjustGain`.  What a line shows is a level; `LampAfter`, `OffsetAfter` and
`GainAfter` are `cano_adjLampSetting`, `cano_GetNewOffset` and `cano_adjGainSetting`, on brackets with
the division of C.  A steady sensor has a stretch of settings that are fine; an erratic one
shows anything in any round.  CalFile is the two files: a key per source, mode and
depth, or resolution; `pending` is what a truncated file has yet to get, `Torn` what a
killed writer leaves.  Prepare composes them into `usbDev_Prepare` and
`cano_DoCalibration`: `at` goes from one measurement to the next, `strip` is
`strip_state`, `pos` and `lamp` are what it is meant to tell.  `Fails`,
`Cancel` and `Killed` may come at any of them; `unseen` notes a failure the code does not report
(plustek-usbcal.c:149-152, :161-163, the dark read at 963, the last way home at 1365).

### UsbTable and DeviceList

UsbTable is the table of `sanei_usb.c`, with slots taken over once their device was missing twice.
DeviceList runs `sane_init` (a scan of the bus, `usbGetList`, a section of the
configuration after the other through `attach` and `usbDev_open`), `sane_open`, the opening
and closing of the device by scans, and `sane_exit`, any number of times, while `Plug`
changes the bus.  A device's name is its place in the order of the bus, 1 to `Places`.  `Settings` is
the order of the table of models, in which one may stand twice (`plustek-usbdevs.c` has entries that
share their ids); `usbGetList` asks for each of them once.  A section is a pair of a model (or any) and a device name (or
`auto`, or none).  The code never calls `sanei_usb_exit`, so the table stays.

### Options

One device and its handles, one after the other.  `val` and `active` are `s->val` and the
options without `SANE_CAP_INACTIVE`; `adj`, `extent`, `dpiMin`, `tpaFlag`, `fromColor` and
`strip` are what the device keeps when the handle is gone.  There is an action for
each case of `sane_control_option` that does something of its own (`SetMode`, `SetSource`,
`SetCustomGamma`, `SetCacheCal`, `Calibrate`, ...); the comment at the head of the module says
which options stand for others.  `SaneStart` is `local_sane_start` with the opening of the device,
`Guess` what `sane_get_parameters` answers before it, `params` what it answers after
it.  `used` is a set of options the frontend touches, chosen at the start; `darkSet` remembers that
`lamp-off-during-dcal` was set on this handle.  Integers are
exact: positions in tenths of a millimetre, an extent at 300 dpi and what it becomes at
the scan's resolution with the two roundings the code has.

### ScanImage

`main`'s loop over pages and `scan_it`, against a backend that hands over the numbers 1 to
`Bytes` in pieces of any size.  `files` has the contents of path, part path and output
by name; `Turned` and `Kept` are the exchange of bytes with `hang_over`; `Signal` is
`sighandler` at any point outside `sane_start`, `StartSignalled` inside it.  The backend's
`sane_cancel` and `sane_read` need not come back, as `cancel_full_pipe` and
`read_after_early_cancel` show of them: `Blocked` is a program inside one of them
(`AfterCancel`, `ReadBlocks`), which only a second signal gets out.  `lost` notes pages
with a write that failed.

## 4. Runs

| run | question | bounds |
|---|---|---|
| `session` | device, readers and results under every interleaving; implements SaneHandle; reads return, a scan ends, a cancel returns unless the reader is blocked in `write` | 2 lines, a pipe of 2 units, 2 scans, cancels from a handler inside starts and reads |
| `cancel_full_pipe` | *violated*: a cancel with the pipe full never returns | 1 scan |
| `read_after_early_cancel` | *violated*: a read after a reader died early never returns | 1 scan |
| `calibration` | calibration and scan exclude each other, the wait ends | 1 handle, 4 processes |
| `buffer` | the right lines, from the right channel, enough of them | rings of 2 to 15 lines, pictures of 1 to 6 rows |
| `buffer_gbr` | *violated*: colours permuted after a wrap | one-channel devices with order gbr |
| `device` | one owner of the lock, kept as long as a scan, given back; the lamp on in scans and off at last; calls return | 2 frontends, one of which may be killed, 2 attempts at the lock |
| `prepare` | the searches find and end; every measurement in its light; what is saved is what is found | 2 channels, gain to 4, 2 resolutions, 2 depths, 3 devices, 2 scans |
| `devices` | slots accounted for, no scanner listed twice, none left out | 3 places, 2 slots, 2 models of which one is twice in the table, 3 times `sane_init`, 4 changes of the bus, 2 handles |
| `options` | offered options, ranges, parameters, settings, `*info` | 3 devices, 2 configurations, 2 resolutions, 4 sets of options |
| `source_offered` | *violated*: a source without its adapter is offered | the LiDE 25 |
| `scanimage` | files whole, the exit true, a signal ends it or finds it blocked in the backend | 4 bytes in pieces of up to 3, pages to number 3, 8 command lines |

Why the bounds are enough.

*session*: two scans, because everything that can be left over is left over from one
scan to the next; a pipe smaller than the IPC record plus the picture, so that the
reader blocks in `write`, as it does in practice (64 KiB against megabytes); two lines, so
that a cancel can come between them.  `CancelReturnsUnlessBlocked` is what holds: the
bare `CancelReturns` is false, and `cancel_full_pipe` shows why.  A handler may cancel inside
`sane_start`, too, and the frontend may read from a handle without a scan; what these two
break is named in the properties: `CancelSparesOwnGroup` has them as the only two places from
which the own process group is signalled, and `ReaderHoldsDevice` and the part of `SessionCleared` about
readers except a scan cancelled before its reader was known (`early`).  `read_after_early_cancel` has no
handler at all, so that its trace is a frontend's calls one after the other.

*calibration*: four processes are two calibrations and two scans in any order.
`Faults` is empty: the run asks what holds when forks succeed, children obey `SIGUSR1` within ten
seconds and a calibration takes longer than two statements.  Each fault, and a second
handle, breaks `StartReturns` or `KnownCalibration`, for the reasons the hazards of `PROJECT.json` give.

*buffer*: rings of one-line and three-line blocks wrap several times in a picture, at
different lines for each channel; `ULong` stands for 2^64 and is larger than any count
reached without an underflow; the underflow itself happens in the run when the device fails.
Three-channel pictures have one or four rows: one ends within the first block, four wrap every ring
but the largest.

*device*: two processes are the scanning one and one that disturbs it by a scan, a button poll,
its timer or its exit, and one of them may die with the lock.  What the run leaves out breaks
something, and is told in section 5: a third process (two that find the same dead
owner), an unwritten lock file taken for a dead or one's own, `attach` while another
scans, an alarm between `usb_LampOn` and `usb_StopLampTimer`.  `NeverLeftLit` is about lamps
whose process has not lost the chance to switch them off (`missed`: the alarm came while
another had the device, the process was killed, a failed `sane_start` cleared the description or
did not set the timer again).

*prepare*: two scans, since a file is saved in one and used in the next; two resolutions, so
that a calibration moves between the strips; ranges in which brackets with and without a
setting that fits occur at either end, with offsets below zero; one of the scans with an unsettled sensor and the other
with one that is fine at once.  The three devices are flat-bed with and without a black
strip and sheet-fed.

*devices*: with two slots and three places the table overflows and slots are taken
over; three inits let an entry be missing twice; one place has an unknown board; one model
stands twice in the table, so that a list that asked for it twice would break `OneDevicePerScanner`.
`Shared = FALSE`: two handles on one device break `SlotsAccounted` (the second start clears
the first one's descriptor).

*options*: the devices are the LiDE 25, one with an adapter and no dark strip, and one with a
large adapter, eight bits only and gray from colour.  The frontend touches the options of one of four
sets, each of which holds options that act on each other; the theorems are for any
set.  `CarefulClose`: the ranges belong to the device and `init_options` does not reset them,
so a frontend that closes with another source leaves them to the next handle, and
`ValuesInRange` fails.

*scanimage*: pieces of one to three bytes of four let a sample be cut twice in a row; three pages
with an increment of one or two, a batch without end, one with the count 0 (which is one
without end), with and without a prompt.

*scanimage* also has a backend whose calls may not return.

`CHECK_DEADLOCK FALSE` stands where the system stops: in `session` the processes block each
other as `cancel_full_pipe` shows, or the frontend has signalled itself (so in
`read_after_early_cancel`), a reader ends (`buffer`), scans, inits and pages are
used up (`prepare`, `devices`, `scanimage`), or a process that was killed starts nothing (`device`).

### Fairness

ScanSession's `FairSpec`: the frontend's process goes on inside a call, and a reader process that can run
does (the kernel's scheduler).  Nothing makes the frontend call anything, nor signals
come.  `EagerSpec`, which `session` uses, adds a frontend that keeps reading during a scan, as `scan_it`
does.  Calibration: calls go on, a child does not run for ever (`do_calibration` is a finite
sequence of hardware operations with timeouts).  ScanBuffer and Prepare: the reader is
a process of its own, and nothing else waits for it.  DeviceUse: a process inside a call
goes on, and an alarm that is set comes.  ScanImage: the program goes on wherever it is not blocked
in the backend, and so does the user at the prompt; nothing makes a blocked call return or a second
signal come.  DeviceList and Options have no liveness and no fairness.

## 5. What the code does otherwise than it says

With a run of its own, the quotations being in `PROJECT.json`:

* **cancel_full_pipe** - the ten seconds `do_cancel` gives the reader never pass, as
  `SIGALRM` is blocked since `usbDev_startScan`; a reader blocked in `write` and a
  frontend in `waitpid` wait for each other.
* **read_after_early_cancel** - a reader that dies before its IPC record leaves
  `sane_read` in a loop at end of file.
* **buffer_gbr** - the get pointers are reset to rgb whatever the sensor order.
* **source_offered** - `usb_initDev` does not restore the flag of the adapter but sets it
  (plustek-usb.c:199-209): after a scan the next handle on a LiDE 25 offers Transparency and Negative.

Seen while modelling, as an assumption or a bound of a passing run; without it the property named fails:

* A cancel from a handler inside the first `sane_start`, between `scanning` and `reader_pid` (plustek.c:2609),
  signals process group 0, as does a `sane_read` on a handle no scan was started on (:2674); inside a later
  one it closes the device, and the reader is forked all the same, on a closed device and unknown to
  the next cancel: the exceptions of `CancelSparesOwnGroup`, `ReaderHoldsDevice`, `SessionCleared`.
* `OPT_CALIBRATE` sets `calibrating` although there is no process (plustek.c:2042), and "we wait until the
  calibration is done" (:2587) for ever: `StartReturns` with `Faults = {"nofork"}`.
* `attach` unlocks in `usbDev_open` and again in `drvclose` (plustek.c:1383), after using the
  device without the lock; the second unlock may remove another frontend's file:
  `Exclusion`, `LockIsKept` without `Settled`.
* `sane_exit` frees a device that is not described, after a failed open say, without stopping its
  lamp timer (plustek-usb.c:412).
* Two processes that find a lock's owner dead may remove one the other's new file; a file whose pid is
  not written yet is judged from an uninitialised buffer: `Exclusion` with three
  processes, or with `EmptyPid` other than `{"other"}`.
* The lamp timer may go off between `usb_LampOn` and `usb_StopLampTimer`: `ScanIsLit`.
* A failed `pipe()` or `fork()` in `sane_start` leaves lock, lamp and signal mask (plustek.c:2615); a scan with
  nothing to scan leaves the lamp without a timer (:2551): `unforked` in `NothingHeldIdle`, `missed` in `NeverLeftLit`.
* A scan after one in lineart is announced with an eighth of its bytes on devices with
  `_WAF_BIN_FROM_COLOR`, because `usb_GetImageInfo` reads `fGrayFromColor` before
  `usbDev_setScanEnv` resets it: `ParamsHold` with `binFromColor`.
* The mode has to be set after the source: setting the source leaves depth and gamma as they were switched
  for the mode before (`modeSet` in `ActiveFits`).
* `lamp-off-during-dcal` shows `skipDarkStrip` and sets its negation (plustek.c:927, :2056), so that
  once set it tells the opposite of what the scan does, and the next handle shows the opposite of what was
  set; switched off it makes itself inactive in the next handle.  `UsedAsShown` has both readings, told apart by
  `darkSet`; it would be false of either alone.
* A section with ids and `device auto` takes the first free scanner whatever its ids, and then refuses it
  (plustek-usb.c:585, against plustek.conf.in:24); a section without a device line attaches nothing.
* The answer 10 of `cano_adjLampSetting`, with which `cano_AdjustLightsource` would raise the gain, is
  dead code: `LampNeverLimited` proves it.  The message at plustek-usbcal.c:703 says "raise offset" where the code lowers it.
* `sane_open` with a name that is not in the list and `sane_get_parameters` before a 16 bit colour
  scan answer with less than there is: a cleared configuration (plustek.c:1686), half the bytes per line.

Of scanimage: a signal between two pages of a batch is lost, as `sane_cancel` does nothing to an
idle handle; a second signal ends with status 0; a failure to open, close or rename returns
from `main` without `sane_close`, so the lamp stays on; a batch increment of 0 divides by zero
(scanimage.c:2976); a failed write of a page is not noticed unless `fclose` is the one to fail; a start that fails
leaves an empty output file, and "pages scanned" counts the page that failed.

## 6. Proofs

Each proof module has an inductive invariant, or a few that lean on each other, checked by TLC before it
was proved and preserved action by action.  The type invariants are conjuncts of them, and proved
rather than run.

**ScanSessionProofs**, for every number of lines, pipe size and number of scans:
`TypeCorrect`, `ReaderHoldsDeviceAlways`, `SessionAlwaysCleared` and
`CancelAlwaysSparesOwnGroup`, wherever signal handlers cancel.
`Inv == TypeOK /\ SessionInv /\ ProcessInv`.  The
invariants alone are not inductive: that the device is closed after the `waitpid` of
`do_cancel` preserves `ReaderHoldsDevice` only because the process waited for
*is* the only reader, so `ProcessInv` relates the position of every process to
`reader_pid`, `used` and the position of the frontend's process, and `SessionInv` relates
`scanning`, `at`, `hw` and the pipe's ends.

On top of it `SessionIsSaneHandle`: ScanSession implements SaneHandle, each
step being one of the handle's or none.  The two steps that need more than `Inv` are a read, which
must hand over the next line, and the end of the file, which must not be `SANE_STATUS_EOF` before the last
one.  `FlowInv` says why: a pipe no reader was made for is empty (`Fresh`); what the frontend has is the
beginning of the picture (`Pictured`); during a scan the pipe holds exactly the units from the first not
taken to the last written, and a reader that ended well has written all (`Streamed`); and `sane_read`
looks at the exit status only when the pipe is empty and its last writer gone (`ReadSoFar`).

**CalibrationProofs**, for any number of processes, assuming one handle and no faults
(`Alone`): `CalibrationTypes`, `CalibrationAlwaysKnown`, `AlwaysOneProcess`, `ScAlwaysNames`.  The
invariant says for every point of the frontend's process which child may be alive, whether
its end has been caught, and what the flags then are.

**ScanBufferProofs**, for every setup `SetupOK` admits:

* `TypeCorrect`, with `TypeInv`: the get pointer is always at the start of a block;
* `RowsKeepPaceAlways`, from `SampleInv`: `sumY + phy * rows made = phy - user +
  taken * user`, a linear form of the Bresenham sampling that each line preserves;
* `NextLineReadyAlways` and `NeverDryAlways`, from `RingInv`: how many lines were
  counted as delivered (`Delivered`), that lines to discard, lines to process and lines
  taken add up to it, and that the line number n lives in slot n modulo the
  ring.  The argument: a block of `block` lines read when `Delivered` lines are
  there overwrites lines up to `Delivered + block - Ring`, and everything from `taken >= Delivered
  - Discard` on is still wanted; since `block + Discard <= Ring` they never meet.  `NeverDry`
  adds up `SampleInv` and the rounding of `usb_GetScanLinesAndSize` (lemma `LastLine`);
* `PlanesKeptAlways`, assuming that one-channel devices have the order rgb; `buffer_gbr` is the
  device for which it fails.

All but the first and `RowsKeepPaceAlways` hold as long as the device answers
(`~failed`).  Once a read of a block failed, the next one takes its place and lines are missing; when
`usb_ReadData` gives up - a read of lines to skip failed, or so many reads that no bytes are left -
`dwLinesToProcess` underflows and the reader goes on with what the ring holds.  The model follows both, and
`PictureEnds` covers them.

**DeviceUseProofs**, for any number of frontends and attempts at the lock:

* `DeviceUseTypes` and `NothingEverHeldIdle`, whoever is killed and whatever fails, from `Inv`: for every
  point, whether a process at it has the lock, the interface and a descriptor (`Claims`);
* `ScanAlwaysLit`, provided that no alarm comes between `usb_LampOn` and `usb_StopLampTimer` (`Unhurried`), from
  `Lamps`: whose lamp burns and which timers are set at every point;
* `AlwaysExclusive` and `LockAlwaysKept`, provided that nobody is killed, nobody attaches, an unwritten
  lock file is taken for somebody else's, and every pipe and fork succeeds or nobody calls `sane_exit`
  (`Undisturbed`), from `FileFits`: who has been told the lock is his created the file that is there.
  Each condition excludes a step of section 5 that removes or overrules another's file; a process
  that leaves with the lock of a failed fork leaves its file to be found dead, and with that the race of the
  two that find it.  The run `device` checks both with deaths, failed forks and `attach` for two processes, where
  the races need a third, or an `attach` during a scan.

**PrepareProofs**, from the assumptions on the constants alone, so for all ranges of registers, channels,
resolutions, devices and failures: `SettingsAlwaysInRange` and `SearchesAlwaysFind`, from the
invariant that a bracket keeps every setting that would be fine between its bounds
(`Pursued`, which needs the settings a steady sensor is content with to be a stretch);
`LampNeverLimited`; `AlwaysRightLight` and `AlwaysEndsHome`, from `Placed`, which says where sensor and lamp are
at each point for every value of `strip_state`.

`ShadingAlwaysFits`, `FilesAlwaysAgree` and `OthersAlwaysKept` are about the two files.
`FilesInv` says which measurement each line that can be read is of: dark and white of a key are of the same
one (`Paired`); the settings in use are measured or read (`Settings`); and all 8 bit lines
were measured under what the coarse file has for their type (`Agreed`).  The last does not hold during a scan that finds
new settings: the fine file then changes resolution by resolution while the coarse file
still has the old ones.  What holds is that every line of the type that has been passed is of the new
settings, and that the coarse file is saved once all have been.  A calibration that is broken off in between
leaves the two apart, which is what `broken` excludes.  `Shaded` follows dark and white
from the measurement, or the file, to the picture.  That a killed writer costs only what comes
behind it is `OthersAlwaysKept`, of a save that starts with any text in the file.

**OptionsProofs**, for any devices, resolutions, positions, settings and options used, assuming
frontends that turn the source back and devices without `_WAF_BIN_FROM_COLOR` (`Plain`): `AlwaysFits`,
`AlwaysInRange`, `ParamsAlwaysHold`, `AlwaysUsedAsShown`, `ChangesAlwaysTold`.  What is shown tells what is used
with the two exceptions above, a warm-up time that is not offered and `lamp-off-during-dcal`.  The five lean on
`Limits` (the ranges the present source has) and `Offered` (which options
are active at all); `ParamsAlwaysHold` rests on lemma `RoundedTwice`: rounding an extent to 300 dpi
and then to the resolution loses no more than `resolution / 300 + 1` lines.

**ScanImageProofs**, for all sizes of pictures and pieces, page ranges and command lines: `ImageInvariant`,
`AlwaysWholePages`, `ExitAlwaysTells`.  The parts of `ImageInv`: what the file of the present page holds is the
beginning of the picture up to the byte kept, with each pair turned (`Poured`); a single picture is written,
or gone, when the loop is left (`SinglePicture`); part files exist only while their page is made
(`Parts`); the pages there are those of the rounds that came, the last of them missing only with an error
(`Rounds`); and the count agrees with the number of rounds (`Counted`), without which a batch that
ends by its count could not be told from one that ends early.

**DeviceListProofs**, for any number of places, slots and handles, any table of models and any
configuration file:

* `AlwaysOneDevicePerScanner`, without an assumption, from `BaseInvariant`: what is in the list was taken from `usbDevs`,
  which has every name once and marks what is taken, and a handle has a device of the list.
* `SlotsAlwaysAccounted`, assuming `~Shared`: a device of the list has a descriptor if and
  only if its one handle scans (`Own`, `Descriptors`), and no other slot is open but that of an unknown board.
* `NoneEverLeftOut`, assuming `~Shared`: as long as nothing failed, what is on the bus was found, what was
  found is listed, what is marked is attached, and there are as many sections left that
  take any device as there are devices to take (`Listed`).  It needs the other two: a device a
  leftover descriptor keeps open could not be attached.

With `Shared` the latter two are not proved, since `SlotsAccounted` is false then.

What the loops of UsbTable and DeviceList compute (scanning the bus, finding devices, listing models) is proved
too: they are functions defined by recursion over `1 .. N`, `Induction` is derived from the
well-foundedness of `<` as a fact about sets of numbers, and the lemmas `...Loop` unfold one definition each.

Only model-checked: all liveness, which with `ENABLED` is out of the prover's reach.

## 7. Not modelled

* Pixel processing, gamma, the averaging of shading: loops over data without control
  worth a state machine.
* `usb_DoCalibration` and the warm-up of CCD devices (plustek-usbshading.c): Prepare is the calibration of
  CIS devices and of those with `altCalibrate`, the LiDE 25 among them.
* Register values, resolutions as the chip wants them; motor and sensor polling, which are
  operations that succeed or fail; the chunks and retries of `sanei_lm983x.c`; bottom-up pictures
  and `SCANFLAG_bgr`, which nothing in the backend asks for.
* Of the calibration files the version line, and resolutions below 50 dpi, which are left out.
* Of the options brightness, preview, the buttons, the lamp switch, the contents of gamma tables.
* Of scanimage the command line, `test_it`, pictures of unknown height (this backend announces
  none), png, jpeg and pdf (not built).
* The parsing of `plustek.conf`; transfers and the record and replay of `sanei_usb.c`.
* The parallel port backend and the libraries no Makefile here builds (`sanei_scsi.c`, `sanei_pa4s2.c`,
  `sanei_net.c`, ...), more than half of the repository's lines; `lib/`.
