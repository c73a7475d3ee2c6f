# A verification project for winVpwn

winVpwn loads a static x86-64 ELF image, maps it into a Unicorn engine, runs it
and intercepts its `syscall` instructions: `write` is captured, `exit` and
`exit_group` end the run, everything else is `-ENOSYS`. This directory holds
TLA+ models of that path, TLC configurations that check them on small
instances, and TLAPS proofs for the results that matter most.

Paths are relative to `crates/winvpwn-core/src/` unless they start with
`src/winvpwn/` (the Python package) or `docs/`.

## 1. The system

| component | state | operations | talks to |
| --- | --- | --- | --- |
| `elf/loader.rs` | none (one call) | `load_elf`: header checks, one pass over the program headers | uses a `MemoryMap` to find overlaps |
| `memory/mmap.rs` | `Vec<Region>`, sorted | `Region::{end, contains, overlaps}`, `MemoryMap::insert` | used by the loader and by `Vcpu` |
| `cpu/unicorn_engine.rs` | the engine, `SharedState {output, exit_reason, engine_error}`, `map`, `regions` | `new`, `map_elf`, `map_stack`, `map_memory`, `setup_initial_state`, `write_guest`, `run`, accessors; the `syscall` hook | the hook runs inside `emu_start` and shares `SharedState` with the owner through `Rc<RefCell>`; Unicorn's timer thread stops the engine |
| `syscall/dispatch.rs`, `dispatch_impl.rs`, `errno.rs` | handlers, an optional sink | `register`, `set_trace`, `dispatch`, the handlers | called by the hook; reads guest memory, writes the `Context`, records a trace |
| `vkernel/io.rs` | bytes by descriptor | `write`, `get`, `combined` | one per syscall, its bytes are appended to `SharedState.output` |
| `vkernel/mem.rs` | `InMemGuest`: regions by base | `map_anon`, `read`, `write`; `UnicornGuest` forwards to the engine | the handlers' view of guest memory |
| `trace/recorder.rs` | `Arc<Mutex<Vec<TraceRecord>>>` | `record`, `drain`, `len`, `is_empty` | cloned handles share it, so threads that each run a `Vcpu` may |
| `vkernel/mod.rs` | `Context {process, mem, io}`, `ExitReason` | `new` | built afresh by the hook per syscall; other owners may keep one over several dispatches |
| `python.rs` | none | `run_elf`, `parse_elf` | loader, then a fresh `Vcpu` and sink, then a dictionary; every error on the way is raised and takes output and trace with it |
| `src/winvpwn/cli.py` | none | `run`, `elf`, `asm`, `disasm`, `version`, `doctor`; exit codes | `python.rs`, the tool chain; stdout and the exit status |
| `src/winvpwn/{doctor,toolchain}.py`, `ui/`, `patch/` | none | probes, wrappers, layout, a placeholder | |

What is hard here, and what makes each part correct:

* **The execution loop.** `emu_start` ends for one of many reasons and they can
  meet: the hook's `emu_stop`, the timer's, a fault, the `until` address. `run`
  then reconstructs what happened from three places, in a fixed order, from
  state that outlives a run. Correct means: after an exit the guest does
  nothing more, no exit is hidden, the ending reported is the ending that
  happened, and a limited run ends.
* **Two accounts of a syscall.** Output is captured outside `dispatch` and the
  trace is made inside it, behind a `?`. Correct means that they agree.
* **The sink.** Index and push are two steps under a mutex, other threads drain
  in between. Correct means: no record lost, doubled, overtaken; an index is a
  place; no call waits for ever.
* **Region arithmetic.** `base + size` wraps in release builds and panics in
  debug builds. Correct means: sorted, disjoint, and exactly the free requests
  granted.
* **The loader.** A long list of checks over arbitrary
  numbers, each with its boundary. Correct means: what is handed on is sound,
  and nothing sound is refused.
* **Mapping.** Claim, engine mapping, copy and listing are four steps; each of
  the first three may fail and nothing is undone. A claim that is refused leaves
  nothing, a failed `mem_map` leaves its claim, a failed `mem_write` leaves the
  claim and the pages mapped, with a part of the bytes or none, and no region
  that lists them. Correct means: what is listed is mapped and claimed whatever
  has failed, nothing else is mapped on a Vcpu that may run, its guest finds its
  image, and has the rights its segments ask for.
* **Reporting.** A guest's ending passes through four layers (hook, `run`,
  `run_elf`, `cli.py`), and at each an error, an exception or a panic may
  leave. Correct means: the exit status and what is on stdout tell how the
  guest ended, all it wrote is there, and no error looks like a guest.
* **Guest memory by regions.** Ranges cross regions, have holes, wrap; regions
  may lie inside one another. Correct means: a byte memory, or at least that
  what was written is read back.

`PROJECT.json` lists every hazard at its line with the properties that cover it.

## 2. Modules

| module | models | abstract counterpart |
| --- | --- | --- |
| `OutputCapture` | `vkernel/io.rs` | |
| `Dispatch` | dispatch, handlers, errno, `UnicornGuest::read` | |
| `Vcpu` | the execution loop, using the two above | `VirtualProcess`, over any number of runs |
| `TraceSink` | `trace/recorder.rs` | `TraceLog` |
| `Regions` | `Region` and the steps of `insert`, as operators | |
| `MemoryMap` | `MemoryMap` under any inserts | `AddressClaims` |
| `ElfLoader` | `load_elf` | the predicate `Acceptable` |
| `AddressSpace` | loader and mapper composed as `run_elf` does, permissions, `rip` and `rsp` | |
| `RunElf` | `run_elf` and `parse_elf`: `AddressSpace` and `Vcpu` composed over one engine memory | |
| `CommandLine` | `winvpwn run` and `winvpwn elf` over `RunElf` | `GuestCommand` |
| `InMemGuest` | the in-memory backend | `ByteMemory` |
| `Context` | a `Dispatch` and a `Context` kept over several calls, with `InMemGuest` for memory | |

`MemoryMap` and `InMemGuest` are tied to their abstract counterparts call by
call: each operation with its arguments is the abstract operation with the same
arguments, which is stronger than that some abstract step explains each step.

`XProperties` states what is asked of `X`, `MCX` gives TLC its instances and
`XProofs` holds the theorems. An operator whose name carries a suffix
(`HookExit_NoStop`) is the definition of that name as a plausible mistake would
have it; nothing uses it but the mutants of `PROJECT.json`.

### Vcpu

`pc` is where the owner's thread is: `idle` outside `run`, `running` inside
`emu_start`, `returned` between `emu_start` and the end of `run`, `aborted`
when a panic reached the C callback. `RunStart` and `RunReturn` are the two
halves of `run`; `Syscall` is one call of the hook, whole: dispatch, append the
output, record, act on the outcome. `output`, `exit_reason` and `engine_error`
are `SharedState`; `engine_error` keeps only whether it is set. `trace` is the
sink's buffer as one `Vcpu` sees it. `issued`, `runs` and `requested` are
history: what the guest asked and got, in which run.

`VirtualProcess` is a process that is started, writes, ends, and may be started
again. It has what the code has and nothing says: `kept`, the exit or failure
that later runs inherit. An exit replaces what is kept, a failure is kept only
where there is no exit, a fault is the ending of its own run alone.

Unicorn is a library, so its part is modelled from the way it is used:

* the guest is any program: it stores, faults, reaches `until`, or makes any
  syscall of `Requests`, in any order;
* `emu_stop` called from the hook ends `emu_start` before another instruction;
  a stop asked for by the timer is noticed later, so the guest may still act;
* `emu_start`'s timeout is in microseconds and 0 means none;
* a protection fault is called `UC_ERR_READ_PROT` and the like, so of the names
  `run` looks for, `READ_PROTECT` and `FETCH_PROTECT` never match;
* a Rust panic cannot unwind through the C callback: the process aborts.

A guest address or a byte is a small number; the registers that no handler
looks at are left out, `rip` and `rsp` are in `AddressSpace`.

### TraceSink

A thread is `idle`, `waiting` for the mutex, `locked`, or (in `record`, between
`len` and `push`) `numbered`. Records are stamped with the thread and the
number of its call so that loss and reordering can be told; `batches` is what
drains have returned and `handed` what each thread has got so far, both
history. `len` and `is_empty` are one step.

### Regions, MemoryMap, ElfLoader, AddressSpace

Addresses are `0 .. Space - 1`; `Plus` wraps at `Space`, and `OverflowChecks`
says whether the build panics on overflow.
For inserts that end inside the address space the two kinds of build do the
same, so `mmap_claims` needs only the checked one. `InsertOutcome` is the `any` of
`insert`: the first region in order that overlaps or panics decides, `&&`
evaluated from the left. `Inserted` is push and stable sort.

An image is what goblin's parse makes of the bytes: the set of header checks
it fails, the byte order, the length, the program headers. `PhdrError` is the
body of the loop up to the push, in the order of the code. `CopyError` is its
end: `vec![0; memsz]` panics past `isize::MAX` (`Space \div 2` on) and takes the
process with it where memory is short (more than `MaxVec`, which is smaller),
and the copy panics where the file has more bytes than memory.

`AddressSpace` goes on with `Vcpu::new`, `map_elf` (one action per turn of its
loop), `map_stack` and `setup_initial_state`, then any `map_memory` and
`set_reg` of the owner. Unicorn's memory is a function from mapped addresses to
bytes: `mem_map` takes whole free pages or fails, and any mapping may fail for
want of memory; `mem_write` fails on an unmapped address and may fail on a
mapped one, at any byte (`SegmentTorn`); `reg_write` may fail. `MapRegion` is
what `map_elf` and `map_memory` share: the claim, then `MapSucceeds`, `CopyFails`
or a failed `mem_map`. `setup_initial_state` fails at any of its three writes.
`access` is what the guest may do at each address; the host's
own reads and writes ignore it. The byte of the file at offset `o` is written
`o + 1`, so that a misplaced byte shows.

### RunElf, CommandLine

`RunElf` is `AddressSpace` followed by one run of a fresh `Vcpu` whose memory
is the engine `AddressSpace` has built (`Cpu == INSTANCE Vcpu WITH mem <-
engine`). The guest stores only where it may write; where its entry may not be
executed it does nothing but fault. `reply` is what the call has given its
caller: a dictionary, the segments of `parse_elf`, a `ValueError` with the code
its text starts with, a `PanicException` (PyO3's, for a panic outside the
hook), or that the process is `Gone` (no memory for a segment; a panic inside
the hook aborts the process too).

`CommandLine` is the path around it: read the file, convert the limit, call,
catch `ValueError` and `OSError`, print the bytes, the report, exit. `printed`
is stdout as a sequence of items. The options are chosen in the step that first
looks at them, which keeps the states few and is the same for the program: no
earlier step depends on them. `int` truncates towards zero and raises on NaN;
a number no `u64` holds is an `OverflowError` and passes the `except`, as does
a `PanicException`, and Python then exits with 1. `Killed` stands for the
signal of an abort.

`GuestCommand` states what a shell may rely on: one ending, the exit status and
the printed report are of that ending, a reported guest has all its bytes on
stdout, an error none. It does not promise that the status identifies the
ending: 1 is also the status of a guest that stopped, fell off or exited with
1, and 2 of one that exited with 2.

### InMemGuest, Context

`read` and `write` have the same loop, modelled once: `Turn` is its body, which
looks up the region of the cursor (`Holder`, among the `Extents` of the regions)
and takes what that region has; `Served` runs it and says which region and
index serves each byte, up to the first lookup that fails. `write` keeps
what it wrote before a failure. Regions may be empty, lie inside others and end
at the last address, where a range goes on at 0. An empty region holds no byte
and still refuses a second mapping of its base, which a byte memory cannot tell
apart from nothing: `ImplementsByteMemory` speaks of regions kept apart and not
empty, and of buffers that can be allocated; `WrittenIsRead` and
`MapHidesOnlyInside` speak of any layout.

`Context` is the dispatcher without an emulator. The owner prepares the memory
(any calls of `InMemGuest`), registers handlers, attaches a sink, dispatches,
in that order except for the sink, which may come or be replaced at any time.
That the memory is complete before the first handler is a bound, as is
`Layouts`: after each of the listed memories dispatches are followed.

## 3. Runs

`CHECK_DEADLOCK FALSE` everywhere: every model stops when its bounds are used
up, when a process has aborted, or when an image is refused.

| run | question | bounds |
| --- | --- | --- |
| `vcpu_safety` | nothing after an exit; a fault hides no exit; the reason is the latest exit; trace and output agree with the guest; the `Vcpu` implements `VirtualProcess`; a limited run ends | 2 runs, 3 syscalls of 9 kinds, 2 addresses, limits of 0 and 1 |
| `sink_shared` | indices are places; the sink implements `TraceLog`; every call returns | 2 recorders, 2 readers, 2 calls each |
| `mmap_claims` | sorted, disjoint, implements `AddressClaims`, with overflow checks | 6 addresses, all 36 inserts, any sequence |
| `loader_accepts` | accepts exactly the acceptable images; an overlap error blames a segment that is met, or address 0 | 8 addresses, all pairs of a family of headers, triples of another, every defect set |
| `space_agrees` | listed regions are apart, mapped and claimed, and the engine has no more, but for a segment whose copy failed; the image is in memory, with the rights asked for | 16 addresses, pages of 2, stack of 4, 2 segments with every `p_flags`, 2 calls of `map_memory` or `set_reg` |
| `guest_refines` | in-memory guest memory implements `ByteMemory` while regions are apart, reads back what was written in any layout; a `Context` and a sink hold what the calls made come to | 8 addresses, 6 maps that touch, repeat a base, nest, wrap and are empty, ranges of up to 4 bytes; 2 layouts, 2 dispatches of 7 kinds |
| `command` | `run` and `elf` implement `GuestCommand`; the report accounts for the bytes in front of it; the read-only image stays the file's; a limited command ends | 10 images, 2 syscalls of 7 kinds, stores at 3 addresses, limits NaN, -1.5, 0.5, 1 and 20 ms in a space of 16 |

The bounds are enough for the cases that differ: two runs show what a run
leaves to the next and three syscalls put one before and one after the
interesting one; `MCRequests` has a request for every branch of the handlers.
Two recorders and two readers with two calls each interleave at every step, and
a record can be pushed before, between and after two drains. Six or eight addresses
hold neighbours, overlaps from either side, containment, the last address and
every wrapped end; region arithmetic is linear, so larger numbers repeat these
cases. Pages of two give a segment every position in its page. The images of
`command` reach every way out of the set-up (header, panic in the copy, no
memory for a segment, stack and page overlaps, engine failures, those of the
copy and of the registers among them) and every kind of start (code, data, an
entry nowhere, all rights); two syscalls are one write before an exit, a
failure or another write; its limits are on either side of every branch of
the conversion. Two dispatches on one `Context` are enough to see one leave
something to the next, and `SetTrace` comes before, between and after. The
proofs below remove the bounds where they go through.

The `violation` runs, one property each, show where the code and
its documentation differ:

| run | the code | the statement |
| --- | --- | --- |
| `vcpu_stale_reason` | `exit_reason` survives into the next run | "observed during the last `Vcpu::run`" (`unicorn_engine.rs:339`) |
| `vcpu_timeout_unit` | milliseconds are passed as microseconds | "timeout in milliseconds" (`cli.py:45`) |
| `mmap_wraps` | a wrapped end lets an overlap in (release builds) | "non-overlapping" (`mmap.rs:50`) |
| `loader_panics` | `p_filesz > p_memsz` panics | "rejected with a stable error code" (`docs/security.md:17`) |
| `command_no_limit` | `--timeout 0.5` becomes 0, which means no limit | "Execution timeout in milliseconds." (`cli.py:45`) |

Other differences the models show, without a run of their own. In the first
four a property holds of what the code does, not of what the sentence says:

* a syscall whose handler fails is not recorded, although the sink "receives
  every dispatched syscall" (`dispatch.rs:106`); `TraceMissesOnlyFailures` says
  that no other is missing;
* indices start again after a drain, although a record carries a "Monotonic
  invocation index." (`recorder.rs:10`); `SeqIsPosition` says what they are
  instead;
* a big-endian image is accepted, although `docs/architecture.md:23` lists
  "64-bit little-endian" among the checks; `AcceptsExactly` accepts both orders;
* with `--json` the guest's raw bytes precede the document, although the flag is
  to "Emit machine-readable JSON." (`cli.py:46`); `ReportIsWhole` says how many;
* a write from a bad buffer ends the run where Linux returns `EFAULT`
  (`HandleWrite`), and one with a count that cannot be allocated ends the
  process; `VirtualProcess` allows both, since no source says otherwise;
* a segment that cannot be allocated panics or ends the process (`CopyError`),
  which is no error code either;
* two segments the loader accepts may share a page, and `map_elf` then refuses
  the second (`PageSpan`);
* a segment that starts on a free address and runs into another is reported as
  overlapping one at address 0, although the text is "overlaps segment at
  0x{other}" (`loader.rs:113`, `CulpritIsMet`);
* a protection fault is `UC_ERR_READ_PROT` and its like, so the names
  `READ_PROTECT` and `FETCH_PROTECT` never match and the fault is E504, not a
  falloff; and every E504 loses the output and trace up to it (`RunReply`);
* the CLI's summary of a run ended by its limit says "stopped by user";
* errors are printed on stdout, also with `--json`;
* a limit no `u64` holds and a panic of the loader reach the user as Python
  tracebacks with status 1 (`Except`);
* a failed `map_memory` leaves its claim, and the same call made again is
  refused for it (`ListedIsClaimed` counts what is left).

### Fairness

* `Vcpu`: weak fairness of `Tick`, `TimerFires`, `EngineStops` and `RunReturn`:
  time passes, the operating system schedules the timer thread, the engine
  polls its stop flag at the end of every translated block, the caller's thread
  goes on. Nothing is assumed of the guest, which may loop for ever.
* `CommandLine`: the same of the engine's three actions, and weak fairness of
  `Host`: the interpreter's thread, which runs everything else, goes on. Each
  step of `Host` is one call that returns. Nothing is assumed of the guest.
* `TraceSink`: weak fairness of each thread's steps inside a call. Which thread
  gets a free mutex is left open; a thread makes `MaxCalls` calls, so nobody
  can be overtaken for ever. With threads that call without end, the standard
  library's mutex gives no such promise and none is claimed.

The other modules are sequential and have no liveness properties.

## 4. Proofs

All are checked by `tlapm` for every value of the constants that meets the
named assumptions of the modules. Each theorem states a property of a run, so
that the run shows on a small instance what the theorem says of all.

**`VcpuProofs`.** `TypeCorrect`. `NoSyscallAfterExit`, `NoExitIsHidden`:
`NothingAfterExit` is not inductive, it must be known that no syscall belongs to
a run yet to come (`IssuedInRunsSoFar`) and that while the guest is running no
syscall of this run has ended it (`LiveRunHasNotEnded`); together they are
`EndInv`, and only `Syscall` touches it. `ReasonIsTheLatest`. `OutputIsTraced`,
an action property: only `Syscall` grows the output, by what `DispatchCaptures`
says a recorded write returned. `TraceIsTheCalls`: trace and guest agree call
for call, in registers, name, return value and index, places counted by
cardinality; that a recorded call got its value from the handler of its number
is `HandlerNameIs` and what the handlers return. `VcpuIsAProcess`, the refinement of
`VirtualProcess`: what the abstract process keeps is in the code spread over two
cells no run resets, so `RefineInv` ties the exit reason to the latest exit
and the engine error to the failures made (`ErrorIsMade`), and
`VerdictIsTheEnding` shows that what `run` reads from them, in its order, is how
the guest ended.

**`TraceSinkProofs`.** `SinkTypeCorrect`, `IndexIsPlace`: the strengthening says
that a thread inside a call owns the mutex (`HolderOwns`) and that a number
taken is still the length of the buffer (`IndexIsFresh`). `SinkIsALog`, the
refinement of `TraceLog`, needs also that each thread's records are those of
its calls (`CallsAreEntered`).

**`RegionsProofs`** has no theorems of its own: where an insert puts a region and
what the sequence then holds, that regions neither of which overlaps the other
lie one behind the other, and `MinIsLeast`, the form in which the other modules
use induction.

**`MemoryMapProofs`.** `MapTypeCorrect`. `RegionsStayDisjoint` and
`MapGrantsWhatIsFree`, both assuming overflow checks or inserts that end inside
the address space; the strengthening says that every region ends inside, and
without the assumption they are false, as `mmap_wraps` shows.

**`ElfLoaderProofs`.** `LoaderTypeCorrect`, `LoaderIsSound`, `LoaderAcceptsExactly`,
`BlamedIsMet`, for either kind of build: `checked_add` keeps every claim inside
the address space, so the overlap test never wraps. `LoaderInv` ties the
segments to the claims; `VerdictInv` ties claims and segments to the headers
read so far, and a refusal to a reason the image has (`RefusedIsUnacceptable`).

**`AddressSpaceProofs`.** `SpaceTypeCorrect`, `EngineHoldsTheRegions`,
`RegionsAreClaimed`, `ImageStaysInMemory`, `RightsAreAsked`. `LayoutInv` says
where each segment mapped so far is and with which rights, on top of
`LoaderInv`: the rounding of a sound segment to pages does not wrap
(`SegmentIsInItsPages`), a mapping takes free pages only, so nothing placed is
changed by what comes later (`PlacedStays`). `ContentsInv` adds the bytes, and
`Accounts` the three books: claims and list may differ by one claim for each
mapping that failed, list and engine by the pages of the segment whose copy
failed, which ends the set-up. A copy that fails leaves what the mapping of a
segment with fewer file bytes would (`TornIsShorter`), so that the lemmas about
whole segments serve for torn ones.

**`CommandLineProofs`.** `ReadOnlyStaysTheFile`: every step of a command is a step
of the address space, a store of the guest where it may write, or neither
(`CommandSteps`), and the layout does not depend on what the memory holds, so
`ReadOnlyInv` stands while the guest runs. `CommandTypeCorrect`,
`ReportsAreWhole` and `CommandIsWhatItPromises`, the refinement of
`GuestCommand`, rest on `CommandInv`. None of the three is inductive: a report
is printed from a dictionary that was built when the run returned, from cells
that were set when the guest's last syscall was made. `GuestInv` follows these
cells: a guest that is running has ended in no way yet (`NothingEnded`), the
reason `run` reads is how the guest ended (`RunIsJudged`), and the output is as
long as the trace says, since a write that captured bytes is recorded unless
the call failed before it captured any. `CliInv` then says what the reply holds
at each step of the command and what is already printed, and `SetUpIsAhead`
that no guest runs before the set-up is over. The refinement is one lemma for
each way a step can matter: a syscall (`SyscallIsPromised`), the guest's end
(`GuestFinishes`), the report (`ReportIsPromised`) and an end without one
(`EndIsPromised`). `Accounted` and the concatenation of what is printed are
sums over a sequence; as elsewhere, what they are of a longer sequence follows
from `MinIsLeast`.

**`ContextProofs`**, about `InMemGuest` and `Context`. `GuestTypeCorrect`,
`MappingHidesOnlyInside`, `WrittenIsReadBack`, `GuestIsAByteMemory`. They rest on
`TurnsAreGood`: every turn of the loop gives cells that stand for the addresses
asked, goes on where the last region ended, and stops with a fault only where no
region holds the cursor and with a panic only behind the last address. `Served`
is a recursive function and FlattenSeq another; the prover has no induction
principle for them, so the proofs take the least length at which the claim fails
(`MinIsLeast`) and show that there is none. Where regions are apart, the cell
that stands for an address is unique (`ApartRange`). `AttachedSinkIsWhole` and
`ContextAddsUp` are about calls: a dispatch adds to the sink, the output and the
process state what the call came to; that a write captures the bytes the memory
has, whatever region each lies in, is `ReadableIsFetched`.

Only model-checked:

* liveness (`TimedRunEnds`, `EveryCallReturns`, `CommandEnds`), out of the
  prover's reach, as is `ENABLED`;
* the violation runs, which are facts about single executions.

## 5. Not modelled

* goblin's parse: a set of failed checks and a byte order stand for it.
* All registers but those of a syscall, `rip` and `rsp`; alignment and other
  fields of a segment that are only passed on; the texts of errors beyond the
  code and the `other` of E007.
* `asm`, `disasm`, `version`, `doctor`, the tool chain and the terminal layout:
  one call each, without state. `patch` raises.
* `CpuContext` and `Process`, data that nothing in the execution path reads;
  `UnicornGuest::write` and `map_anon`, which no handler calls.
* Several `Vcpu`s that share one sink: a `Vcpu` cannot be sent to another
  thread, `run_elf` makes a sink per call and keeps the interpreter's lock, so
  no code here composes them. `TraceSink` covers what the type allows.
* A stdout that cannot be written to: it ends the command in the middle of a
  report, in Python's hands.

## 6. Plan

Done, in this order: `Dispatch` and `Vcpu` (the core), `TraceSink`, `Regions`
and `MemoryMap`, `ElfLoader`, `AddressSpace`, `InMemGuest`, and the theorems
above; then `RunElf` and `CommandLine`, nested regions and the last address in
`InMemGuest`, `Context`, a `VirtualProcess` of several runs, and permissions
and registers in `AddressSpace`.

Then the proofs of section 4, component by component.

With `CommandInv` every safety property and every refinement of a passing run
is a theorem. Next: the parts of section 5 that keep state, `CpuContext` and
`Process` first, and the inner lemmas of `CommandLineProofs` that repeat those
of `VcpuProofs` (`GuestCall`, `GuestFinishes`), which a module of facts about
`Dispatch` could hold once for both.
