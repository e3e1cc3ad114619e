# A TLA+ model of the rundroid emulator

rundroid runs the native code of Android applications on a host: an ELF loader
and linker, a guest address space over a CPU backend (Unicorn), a small Linux
kernel (file descriptors, virtual files and devices, memory calls) and a Java
side reached through JNI. This directory models the parts of it that keep state,
checks them with TLC on small instances and proves the invariants that matter
most with TLAPS. Paths below are relative to `src/emulator/` unless they start
with `src/`.

## 1. The system

| Component | State it keeps | Operations | Hard behaviour |
|---|---|---|---|
| VMA authority (`memory/src/address_space.rs`) | an ordered vector of regions (the ledger) | `allocate`, `protect`, `unmap`, gap search | splitting and joining over arbitrary ranges; agreeing with the backend when an operation fails half way |
| RegionTracker (`memory/src/region.rs`) | an older list of ranges | `register` | known to one host only and never told of an unmap |
| Backend (`backends/`) | page table, registers, hooks | map, protect, unmap, run | works on whole pages, may refuse |
| Memory syscalls (`os/linux/src/syscall.rs`) | none of their own | mmap, munmap, mprotect | alignment, zero lengths, rollback of a failed mapping |
| Descriptor table and fd IO (`os/linux/src/fd.rs`, `kernel/fd_io.rs`) | fd to entry, `next_fd`, collected stdout | open, close, dup, dup3, read, write | aliasing through dup, numbers used twice, partial writes |
| VFS and device registry (`os/linux/src/vfs.rs`, `driver/`) | mounts, factories, device instances | mount, open, close | one instance per open, shared through dup |
| ELF loader (`elf/loader`) | the loaded image | reserve, write, protect, RELRO | a failure between any two steps |
| ELF parser (`elf/parser`) | none | segments, relocations of five section forms | numbers of varying length, values carried from group to group, addends kept in the place they are for |
| ELF linker (`elf/linker`) | module graph | `schedule`, `resolve_symbol`, relocate | the init order; cycles and repeated edges; symbols bound by a graph that is still growing |
| Guest runtime (`case-runner/src/runtime.rs`) | graph, CPU, JNI pointers, trampoline flag | `load_and_link`, `call_export`, `init_jni`, `detect_jni_onload` | recursion into dependencies, errors that leave state behind, guest code that runs in the middle |
| Python bindings (`bindings/python`, `src/python/rundroid`) | the same parts under a second host, PyO3's borrow flag | load, call, mount, Java shims, marshalling | callbacks into Python that come back; threads; finalizers |
| JNI tables (`jni/src/abi.rs`, `function_table.rs`, `dispatch.rs`, `types.rs`) | none; the tables are guest memory | 232 and 8 slots, values, descriptors | four lists that must agree; widths |
| JNI state (`jni/`, `jni_trampoline/`) | references, objects, classes, natives, attach state | about 50 bridged slots | handle lifetime, ids from several sources, a lock held through a callback |
| Android framework (`jni/src/framework`) | APK, services, singletons, stub objects | install, register, the handlers | installations and overrides in one registry |
| Telemetry, core types, case files, CLI | sinks, ids, configuration | append, parse | none that other parts depend on |

They interact in one process and, while a guest runs, on one stack: the host
calls `call_export`, the CPU backend runs guest code, a hook leaves it for a
system call or a JNI slot, and that may call a Python or Rust handler which may
call the runtime again. The ledger and the Linux runtime are shared behind
mutexes, the backend is reached through a pointer, and what one caller leaves
behind on an error is what the next one finds.

The properties that make the components correct, and the hazards that threaten
them, line by line, are the `hazards` of `PROJECT.json`. In short:

* memory: no two regions overlap; ledger and backend agree page by page; a call
  that fails has done nothing; a region stays what it was when others are cut;
* descriptors: a number stands for one open object, the object its path is
  mounted to; no cursor passes its file; a device hears of each close once;
* Java references: a handle keeps its object while it lives and never comes back
  as another's; only a release takes an object from under a reference; what
  Python registered keeps its id and content;
* Java classes: a method id guest code holds stays, resolves and reaches its own
  method, whatever Python registers or overrides;
* loading: one module per soname; the closure of the root is loaded and
  relocated; dependencies come first; a symbol is bound to the library the
  `DT_NEEDED` promise; every `JNI_OnLoad` has run; a load ends;
* re-entry: one guest at a time and nobody beside it; guards and borrows are
  given back on every exit; no thread waits for a mutex; every call returns;
* JNI calls: a slot runs its own function; a guest that asks for a type gets a
  value of it or an error; marshalling loses nothing;
* framework: every Context hands out the same objects, each readable by its own
  class; a `PackageInfo` pictures one APK.


## 2. Modules

| Module | Models | Extends |
|---|---|---|
| `AddressSpace` | the pure algorithms of the ledger: placement (`FirstFit`, `Plan`), cutting (`Rewrite`, `Carve`) | |
| `GuestMemory` | ledger, backend, tracker and all their callers | `AddressSpace` |
| `GapSearch` | the loop of `find_gap`, against `FirstFit` as its abstract specification | `AddressSpace` |
| `FdTable` | descriptors, VFS, device registry | |
| `ModuleGraph` | reachability, Kahn's algorithm as `init.rs` writes it, symbol search | |
| `ModuleLoader` | `load_and_link` as a stack of frames, with what each relocation is bound to | `ModuleGraph` |
| `PackedRelocs` | the decoder of Android packed relocations, and a packer to compare it with | |
| `ElfImage` | from a file to its relocated image: segments, relocations and addends, the loader's writes, the linker's words | |
| `Descriptors` | the texts that name methods and fields, and their parsers | |
| `NativeNames` | `Java_*` symbols, both ways | `Descriptors` |
| `ShimDispatch` | which Python function a Java method is, for each of its callers | |
| `JniHandles` | reference table, object store, Python wrappers and every call that changes them | |
| `ClassRegistry` | class definitions, method ids, inherited resolution, native bindings | |
| `JniAbi` | both function tables in guest memory, the way back from an address, the catalogs | |
| `JniValues` | JNI values, registers, Python values and the conversions between them | |
| `JniCall` | one call through a slot, or from Python, from the jump to the answer | `JniAbi`, `JniValues` |
| `Framework` | installation of the Android classes, their objects and handlers | |
| `BorrowCell` | abstract: what PyO3 promises of the cell of a `#[pyclass]` | |
| `Reentry` | borrows, mutexes and the GIL through every nesting of calls | instance of `BorrowCell` |
| `MC*` | values for the constants; `MCAlgorithms` puts the algorithms without state in one run | the module they name |
| `GuestMemoryProofs`, `FdTableProofs`, `ModuleLoaderProofs`, `JniHandlesProofs`, `ClassRegistryProofs`, `JniCallProofs`, `FrameworkProofs`, `ReentryProofs` | theorems; the one about `GapSearch` stands in `GuestMemoryProofs`, with the lemmas about `FirstFit`, the one about `ShimDispatch` in `ClassRegistryProofs` | their module, `TLAPS`, library theorems on finite sets, sequences and well-founded orders where they are cited |

Operators marked *mutant* are altered forms of the definition below them, kept
to show that a property notices the alteration; no specification uses them.

### AddressSpace and GuestMemory

A region is `[addr, size, perms, mode, usage]`; the ledger is the set of them
(the vector is kept sorted by address, which is a function of the set). The
address space is `0..MaxAddr` and sums are checked or wrap as the code's `u64`
sums do. `mem.backend` is a partial function from pages to permissions. Each
action of `GuestMemory` is one call: `InitJni`, the three phases of
`DefaultLoader::load` (`ReserveImage`, `ProtectSegment`, `FinishLoad`),
`ProtectRelro`, the phases of `call_export` (`CallMapsSentinel`,
`CallMapsStack`, `CallAgain`, `CallReturns`) and the guest's `MmapAnonymous`,
`MmapFd`, `Munmap`, `Mprotect`, which are possible only while a call runs. Every
backend operation named in `Faults` may fail, at the place it stands in the
code, and leaves what was done before it. `Tracked` chooses the host: the
case-runner's materializer registers what it maps in the RegionTracker, the
Python one does not; the system calls of neither do.

Two liberties: `protect` adds `addr + size` unchecked before it checks, which
panics in a debug build; the model follows the release build. And `brk`, which
answers a constant, is left out.

### GapSearch

The cursor loop of `find_gap_from`, one region per step, and the second search
of `find_gap` from the start of the arena. `next` is the set of regions the loop
has still to visit, and a step takes the lowest. `ComputesFirstFit` says that
what it answers is what `AddressSpace!FirstFit` defines without a loop, and
`GuestMemory` uses `FirstFit`.

### FdTable

An entry carries its number, kind, path, source, cursor and device. Contents
are abstracted to a length: a `Bytes` source is owned by the entry and copied by
dup, a `HostPath` is shared by every entry that names it and written by this
process alone, a `Dynamic` one is read-only and what a read of it gets is open,
since the provider is asked anew each time. `CursorInFile` is about the first
two. `dup` copies a file's handle and shares a device; `dup3` replaces the
target, calls no `close`, and leaves `next_fd` where it is. A read moves the
cursor before its bytes reach the guest; a host write may put out some bytes and
fail. What a device answers is left open. `devices` and `placed` are history
variables, and `opened` a history field: they record what the properties speak
about and no action reads them, except that `CanCopy` bounds the copies.
Descriptor flags are stored by the code and never read, and are left out.

### ModuleGraph and ModuleLoader

`Kahn` counts the entries of a dependency list and takes one off per consumed
module, as `init.rs` does, which differs from the textbook when an entry is
repeated. `Search` is the breadth-first walk of `resolve_symbol`. `ModuleLoader`
is the recursion: a frame per `load_and_link` in progress with the rest of its
`DT_NEEDED`. `Enter` is `load_one` with its deduplication by soname, `DepLoaded`,
`DepMissing` and `DepProvided` the three ways of the loop, `Link` is `link_root`,
which may stop at any module and in the middle of one, `OnLoad` and `NoJavaVm`
are `detect_jni_onload` in any order of the `HashMap`. `bound` is what each
relocation has been written to. Every nested load relocates all modules below
it, with the edges declared so far; `BoundByScope` compares the result with what
the `DT_NEEDED` of the files promise, computed from the files alone: among the
files that define the symbol at the least distance, the one the first entries
lead to (`AtDistance`, `Nearest`), with no queue and no set of visited files. An error
drops all frames and leaves the graph. Whether an image can be mapped is a
choice here and the subject of `GuestMemory` there.

### PackedRelocs, ElfImage, Descriptors, NativeNames, ShimDispatch

Algorithms without state. `PackedRelocs` scales the 7 payload bits and 64-bit
words of SLEB128 down to 2 and 5, which keeps what matters: a word is not a
whole number of payloads. `ElfImage` follows a file through the three crates:
the parser's segments and one list of relocations out of sections that keep
their addends in different ways (a packed section is taken as `PackedRelocs`
decodes it), the loader's bytes and zeros in a footprint of whole pages, the
linker's word for each relocation. `ModuleLoader` decides which symbol a
relocation is bound to, `ElfImage` which word is written; bytes and words are
scaled by `ByteSize` and `WordBytes`. `Descriptors` holds the parser of method
and field signatures, the writer `GetMethodID` compares with, and Python's own
reading of the same text. `NativeNames` mangles and unmangles symbols and
resolves them among the exports. `ShimDispatch` is the scan of a class's MRO and
the four ways a method is found: by guest code on a Python instance and on a
bare object, by `call_java_method`, and by Python itself. Its one variable is the
class, which nothing changes; a function is known by its layer and its place
there, and the scan meets them in that order. `Careful` names what a script must
keep to for the four to agree: overloads differ in the number of their
parameters, a Python name that a nearer layer uses again declares the same Java
method there, and no field has the name of a Java method. Section 3 tells what
happens otherwise.

### JniHandles

`refs` maps a handle to `[object, kind]`, `objects` an id to `[class, storage,
data]`, `wrappers` a Python object to the handle and id it was registered under.
Ids come from three places and the model keeps them apart as the code does: the
allocator (`Allocated`), the id of a class plus an offset (`ClassObjects`), and
the host address of the copy of a text (`Buffers`, and `EmptyBuffer` = 1 for an
empty one, since an empty Rust vector has no buffer and its pointer is dangling
at 1). A copy is freed when the call returns, so an address may come again.
`GuestStep` holds the slots of the trampoline that change the tables; failing
calls that change nothing are stuttering, those that use up an id first are
`Duplicate`. `HostStep` is Python between guest calls: `PyEmulatorBridge::call`
borrows the bridge for the whole run of guest code, so what Python does in a
handler meanwhile is refused (`ReleaseBorrowed`). Arrays count as strings of
another class; weak references and `clear_frame` are left out because nothing
the guest or Python does reaches them.

### ClassRegistry

`index`, `inst` and `stat` are `method_index` and the two method tables of each
class, `super` the declared superclass. `Register` and `Merge` are the two ways
of `register_or_merge_class`, with the two schemes of numbering they use; the
orders of the `HashMap`s they iterate are choices. `GetMethodID` walks the
chain, `GetStaticMethodID` does not, and `Reached` is what a later call by the
bare id finds. `added` is a history variable: the methods whose id a merge gave.

### JniAbi, JniValues, JniCall

`JniAbi` lays both tables out as `function_table.rs` and `abi.rs` do, says what
an 8-byte load at an address gives, and reads the slot back from the address of
a trampoline. The catalog (`SlotSpec`, `IsBridged`) and the arms of the dispatch
(`Arm`) are translated separately, as they are separate in the code. `JniValues`
has `JValue` and its conversions: to a register and back in the width of the
slot (`Word`, `GuestReads`), from and to Python (`ToJValue`, `ToPy`), in the
order the code tries them; texts and arrays are contents, floats bit patterns,
and the moduli of the integer types (`ByteMod` to `RegMod`) are parameters.
`JniCall` runs one call: `GuestCalls` jumps to whatever the table holds, or
astray; the hook's answers are one action per kind of slot; `HostCalls` is
`call_java_method_typed` with the same handlers. The attach state survives
calls, so failed attaches and `GetEnv` meet in any order.

### Framework

The APK, the services by name, the singletons of each installation, the handler
behind each method of the three Context classes, and the objects in the order of
their ids. `Install` makes managers and singletons and merges the catalog over
what is registered; `RegisterPython` merges a Python method over that. Handlers
that make objects are actions, those that answer existing ones are operators the
properties ask. `Reads` is `read_stub`: a handler fails on a box that does not
hold the Rust type it names. A constructor runs at most once per object (`Raw`),
as in Java. `seen` is a history variable.

### Reentry and BorrowCell

A method of `PyEmulatorBridge`, and each of the things a guest can trap into, is
the sequence of its steps (`Program`): the borrow of `&self` or `&mut self`, the
mutexes it takes and drops, the places where it runs Python or the guest. A
frame is a method with a position, its borrow and its guards; a thread is a stack
of frames. While a frame is at a `body`, Python code runs and may call the
bridge; while it is at `emulate`, the guest may trap. No Rust code releases the
GIL, so threads change only while Python runs, and a thread that waits for a
mutex waits with the GIL in its hand: to wait once is to wait for ever.
`BorrowRefused` is the exception of PyO3, `Fail` every other error; both unwind
one frame with its guards. `BorrowCell` is the abstract cell, and
`ImplementsCell` maps the borrows on all stacks to it.

## 3. What the runs show

| Run | Question | Bounds, and why they are enough |
|---|---|---|
| `guest_python` | Do ledger and backend hold the same pages with the same permissions under aligned calls, and is a failed call without effect? (`BackendAgrees`, `FailedSyscallIsClean`) | eight pages of two addresses, so that a range can start inside a page; scratch, ELF arena, mmap arena, JNI, stack, sentinel each one page; a two-segment image; faults in map, protect and write |
| `guest_case_runner` | With the tracker, ranges inside pages and shared pages, does the ledger stay well-formed and backed, and in its arenas? (`LedgerSound`, `DynamicInArena`, `SplitKeepsIdentity`) | the same pages, guest ranges that begin inside a page (5) and with one (6), of lengths 0 (one page) and 3 (rounded up), so that they cut the image, the mappings and the stack; an image of two segments in one page; a hint below one page; faults in unmap and write |
| `algorithms` | Does the gap search end with the lowest hole; do all readers of a descriptor or a symbol agree; do all callers reach one function; do relocations survive packing, and come to the same words from every form of section that says its addends? (`ComputesFirstFit`, `Terminates`, `DescriptorsAgree`, `OneFunction`, `RelocationsApply`) | ledgers of at most three regions with bounds inside pages, two alignments, hints below, in and past the arena; all texts of up to five of nine characters, those of up to six that begin with a class, and signatures of two arguments; classes and names with `_`, digits and `/`; two layers of two functions; up to three relocations in two groups under all sixteen combinations of flags; images of two segments in either order, one ending in zeros, sharing bytes of the file or ending beyond it, with two relocations of known, unknown or no symbol, supported or not; a packed section without addends only where the file has no word |
| `fd_table` | Are numbers, streams, cursors, mounts and device accounts right? (`NodesSound`, `TableSound`, `DeviceAccounts`, `FailedWriteRepeats`) | two numbers beyond the streams, one of them a `dup3` target `next_fd` has yet to reach, two paths, one built-in device and one mounted, one file of each source, of a byte or, if provided, of whatever each read finds: two entries can share a host file or a device, and a live entry can be replaced by `dup3` or by an allocation |
| `module_loader` | One module per soname, closure loaded, order right, symbols bound by scope, every `JNI_OnLoad` run, every load ends? (`GraphSound`, `LoadComplete`, `BoundByScope`, `InitOrder`, `LoadTerminates`) | six files: a diamond with one library without a soname, a missing name and a cycle of two; symbols exported twice, only out of scope, and by the file itself; three loads in a session, each step failing. `MaxModules` is never reached: it only cuts off altered models |
| `jni_handles` | Does a handle mean what it meant, is an object backed until released, do wrappers keep theirs? (`TablesSound`, `WrappersKeep`, `HandleMeaning`, `ObjectStays`) | two Python objects, three handles, two allocator ids, one registered class and the class of classes, one buffer, an empty text and two others: an id can collide with the empty text, a buffer can hold one text and then another, a handle can be deleted and another made |
| `class_registry` | Do ids stay, resolve and stay apart? (`RegistrySound`, `NumbersApart`, `CachedResolves`, `CachedReaches`, `MethodIdStable`) | two classes, two methods, five definitions: either class above the other, both in a cycle, one its own parent, methods that change kind; one held id and one binding at a time (`MaxCached`, `MaxNatives`), as the properties speak of one |
| `jni_call` | Does a slot run its function, and does a value survive the way? (`InvokeSound`, `SlotReachesItsArm`, `ResultFaithful`, `HostCallKeeps`) | all 232 and 8 slots and the real layout; bytes of 2, shorts of 3, ints of 4 and registers of 5 bits, which keeps every order between the widths (moduli 4, 8, 16 and 32); methods of each type in Rust, Python answers of each kind under the types they may declare |
| `reentry` | Are guards and borrows given back, is the guest alone, does nobody wait, does every call return? (`StacksSound`, `GuestAlone`, `HostBodyUnguarded`, `NobodyWaits`, `ImplementsCell`, `CallsReturn`) | two threads, three frames each: a call, what it runs, and a call back, on both; the first uses every method but `call_qualified`, the second one of each kind; `FsBesideGuest` is false |
| `framework` | Do all Contexts agree, and is a `PackageInfo` of one APK? (`StubsAgree`, `OneApk`) | two installations, two versions of an application signed by different keys, one service, two overridden methods, two objects beside those an installation makes (and what the call that fills the store makes beyond): a raw object, an argument and a picture meet |
| `new_string` *violated* | Does `NewStringUTF` make a string of its text? | finding 1 |
| `method_id` *violated* | Does a call by id reach the method it asked for? | finding 2 |

Deadlock is checked in `fd_table`, `jni_handles`, `class_registry`, `jni_call`,
`reentry` and `framework`, where something is always possible. It is off in the
others because they really stop: every arena is full and no call is in progress
in the memory runs, the search has its answer in `algorithms`, and a session's
bound of loads is used up in `module_loader`.

The findings, each a run TLC ends with a counterexample:

1. `NewStringUTF` uses the address of a temporary as object id: a text can come
   back as an earlier text, and an empty one as the first object ever made
   (`jni/src/jnienv.rs:614`).
2. A merge numbers a new method after the size of the index, which may be the id
   of another method of the class or of its superclass (`jni/src/class.rs:190`).

### Divergences noted

Places where code and documents disagree, or where the code does what a reader
of it would not expect, that the models contain or their restrictions name, and
that no run singles out.

Memory and descriptors:

* The RegionTracker is never told of a guest `munmap`, so mapping there again
  fails after the backend has mapped the pages
  (`case-runner/src/runtime.rs:782`). `BackendAgrees` is therefore checked for
  the Python host, which has no tracker.
* `mprotect` at an address inside a page changes the backend for the whole page
  and the ledger for the range (`memory/src/address_space.rs:284`); the
  specification asks for a ledger consistent with the backend. `BackendAgrees`
  is therefore checked with aligned calls.
* A first `call_export` that maps the sentinel and fails to map the stack leaves
  the sentinel behind; no later call can succeed
  (`case-runner/src/runtime.rs:547`).
* `dup3` to a number `next_fd` reaches later: `allocate` then replaces a live
  entry (`os/linux/src/fd.rs:326`). `TableSound` bounds where it can happen.
* `dup` of a file copies cursor and content although its comment promises the
  same handle (`os/linux/src/fd.rs:412`, comment at 359).
* Bytes written to a copy of stdout are acknowledged and lost
  (`os/linux/src/fd.rs:528`, against the comment at 520).
* A device pushed out by `dup3` is never told of a close.

Loading:

* Loading a module again, or retrying after a failure, repeats its dependency
  edges; `schedule` counts them twice, takes them off once and reports a cycle
  in an acyclic graph (`elf/linker/src/init.rs:29`, report at 70). Without
  repetition the check is right; `InitOrder` speaks of the loads that pass it.
* A failed load leaves its modules under their sonames, and the next load takes
  them as complete (`case-runner/src/runtime.rs:399`). `LoadComplete` and
  `BoundByScope` are stated for sessions without a failure (`clean`).
* The load of a dependency ends with `detect_jni_onload` over the whole graph,
  its unlinked parents included (`case-runner/src/runtime.rs:441`, comment at
  439).
* `load_and_link` skips a missing dependency although its first comment says the
  load fails (`case-runner/src/runtime.rs:380`, and 395 says why).
* The RELRO fallback protects the whole first writable segment.
* A packed section that does not decode is dropped with a note
  (`elf/parser/src/parser_elf.rs:320`): the image is linked without its
  relocations. In one without addends (`SHT_ANDROID_REL`) they are 0
  (`elf/parser/src/packed.rs:26`), while `elf/parser/src/model.rs:125` has the
  parser read implicit addends from the file. `RelocationsApply` takes no side: it has such
  relocations only where the file has no word and both say 0 (`Settled`).
* The packed decoder adds a negative delta with a cast; a debug build panics.
* `resolve_symbol` of the runtime takes any module that has the name, in the
  order of a `HashMap`; `resolve_java_native` (`case-runner/src/runtime.rs:499`)
  has no caller. `unmangle_java_symbol` misreads symbols with a signature, and
  `$` and non-ASCII characters are not escaped, so natives of inner classes are
  not found. `NativesKeptApart` keeps to names without them.

Re-entry:

* A descriptor that names a class with a Python method of that signature makes
  `call_java_method` run Python under the guard of the VM
  (`bindings/python/src/lib.rs:975`, against the comment at 973): if that Python
  needs the VM the thread waits for itself. The runs leave `call_qualified` out,
  and the theorems about mutexes assume it.
* `emu.fs` is an object of its own and not kept out by the borrow: used in a
  device callback, or by another thread while such a callback runs, it waits for
  the `LinuxRuntime` the SVC hook holds, with the GIL. `FsBesideGuest` is false in
  the run, and the theorems assume it.
* `release()` or `__del__` under a guest call is refused, and the object stays
  (`src/python/rundroid/javashim/values.py:42`).

JNI:

* Several slot numbers are not those of the JNI specification, though
  `jni/src/function_table.rs:26` says they are: `CallStatic*` start at 198 where
  the specification has 114.
* Arguments of a call from a guest always arrive as `Long`
  (`jni_trampoline/src/lib.rs:778`). A Python method declared `()J` that returns
  a small int is refused, as small ints become `Int`; `Byte`, `Char`, `Short`
  and `Float` cannot be returned from Python at all. A Python int beyond 64 bits
  becomes a `Double`, and a list of small ints bytes. `ResultFaithful` and
  `HostCallKeeps` say what is kept besides.
* A failing `FindClass` or `GetMethodID` gives -1, which a guest that tests for
  null takes as a handle. `RegisterNatives` reads its count in 64 bits and skips
  entries it cannot read or does not know. `AttachCurrentThread` attaches before
  its write of the pointer can fail, and a detach outlives its call.
* `MethodSig::parse` ignores text after the return type and takes `V` in
  arguments and arrays; a class written with dots has different method names in
  Rust and in Python. `TextMeansOne` says what holds besides.
* Overrides are collected by descriptor, as a comment in
  `src/python/rundroid/javashim/base.py` says, but bound by Python name: a name
  used again in another layer binds the wrong function. Overloads with as many
  arguments get the first; a field with the name of a Java method hides it.
  `Careful` excludes these.
* `NewObject` runs no constructor.
* `jni/src/types.rs:79` calls method ids local to their class, `class.rs:210`
  unique in the registry.

Framework:

* Installing after a Python override replaces it
  (`jni/src/framework/registry.rs:147` through `registry.rs:266`), and so does a
  stub registered over one (`bindings/python/src/lib.rs:1145`), though both
  comments give Python priority.
* `ArrayList.<init>` puts a bare `Mutex` where `add`, `size` and `get` read an
  `Arc<Mutex>` (`jni/src/framework/catalog.rs:746`): no list works.
* `String.equals` and `Signature.equals` take what they cannot read as empty
  (`catalog.rs:454`, `611`).
* The `ApplicationInfo` of an installation keeps the package name of its time.

### Liveness and fairness

`MCAlgorithms` assumes weak fairness of the loop step of the gap search and
`ModuleLoader` of `Advance`, the steps of a load in progress: both are sequential
code on one thread with nothing to wait for, so a step that is possible is taken.
Nothing forces a new load or a call: those are the environment's.
`LoadTerminates` holds because a file is entered under its soname before its
dependencies are walked; it is stated for files that are provided under their
soname. A cycle of files without one would be loaded without end.

`Reentry` assumes three things: Rust code goes on (weak fairness of all its steps
together, as only the thread with the GIL takes them); the interpreter gives the
GIL to every thread that waits for it, which its switch interval does (strong
fairness of `Switch` to each thread, since the possibility comes and goes); and
the Python code and the guest code a frame runs return in the end, however often
they call (strong fairness of `Resume` at each depth). A script or a guest that
loops for ever is the caller's own; what `CallsReturn` excludes is that the
emulator keeps somebody from returning.

## 4. What is proved

For every value of the constants that satisfies the named assumptions; a
property with a run is what the run checks, the others are its parts:

| Theorem | States |
|---|---|
| `GuestMemoryProofs!LedgerAlwaysSound` | `LedgerSound`; its parts `TypeCorrect` (regions are non-empty and end inside the address space, so no subtraction of the cutting code underflows), `LedgerDisjoint`, `EagerlyMaterialized` |
| `GuestMemoryProofs!ArenasKept` | `DynamicInArena` |
| `GuestMemoryProofs!IdentityKept` | `SplitKeepsIdentity` (action property) |
| `GuestMemoryProofs!BackendIsMirror` | `BackendAgrees`, for a host without a tracker and page-aligned addresses |
| `GuestMemoryProofs!FailedSyscallsAreClean` | `FailedSyscallIsClean` (action property), for a backend that can always unmap |
| `GuestMemoryProofs!SearchIsFirstFit` | `GapSearch!ComputesFirstFit`, for every well-formed ledger, arena, size, alignment and hint |
| `FdTableProofs!TableAlwaysSound` | `TableSound`; its parts `SlotsNumbered`, `StreamsKept`, `OverwriteNeedsDup3`, `CursorsInside` (of `Bytes` and host files) |
| `FdTableProofs!NodesAlwaysSound` | `NodesSound` |
| `FdTableProofs!DevicesBalance` | `DeviceAccounts` |
| `FdTableProofs!WritesRepeat` | `FailedWriteRepeats` (action property) |
| `ModuleLoaderProofs!GraphIsSound` | `GraphSound` |
| `ModuleLoaderProofs!DependenciesAreFirst` | `InitOrder` (action property) |
| `ModuleLoaderProofs!AllHaveRun` | `AllRan` |
| `ModuleLoaderProofs!LoadsAreComplete` | `LoadComplete`, when every file with a soname is provided under it |
| `ModuleLoaderProofs!BindsByScope` | `BoundByScope`, under the same hypothesis |
| `JniHandlesProofs!TablesAlwaysSound` | `TablesSound`; its parts `TypeCorrect`, `HandlesBacked`, `FrameExact`, `ClassObjectsRight` |
| `JniHandlesProofs!WrappersAlwaysKeep` | `WrappersKeep`; its parts `WrapperHandlesRight`, `WrapperObjectsStay` |
| `JniHandlesProofs!HandlesKeepMeaning` | `HandleMeaning` (action property) |
| `JniHandlesProofs!ObjectsKeep` | `ObjectStays` (action property) |
| `ClassRegistryProofs!RegistryAlwaysSound` | `RegistrySound`; its parts `TypeCorrect`, `TablesAlike` |
| `ClassRegistryProofs!NumbersAlwaysApart` | `NumbersApart`; its parts `IdsDistinct`, `NativesDistinct` |
| `ClassRegistryProofs!HeldIdsResolve` | `CachedResolves` |
| `ClassRegistryProofs!CallsReach` | `CachedReaches` |
| `ClassRegistryProofs!MethodIdsKeep` | `MethodIdStable` (action property) |
| `ClassRegistryProofs!OneFunctionEach` | `ShimDispatch!OneFunction`, for every class, however many layers and overloads it has |
| `JniCallProofs!SlotsReachTheirArms` | `SlotReachesItsArm`, for every page-aligned base address and every width |
| `JniCallProofs!InvokesAreSound` | `InvokeSound` |
| `JniCallProofs!ResultsAreFaithful` | `ResultFaithful`, for all even moduli that divide the register's |
| `JniCallProofs!HostCallsKeep` | `HostCallKeeps`, for every set of methods and argument lists |
| `FrameworkProofs!StubsAlwaysAgree` | `StubsAgree` |
| `FrameworkProofs!PicturesOneApk` | `OneApk` |
| `ReentryProofs!StacksAlwaysSound` | `StacksSound` |
| `ReentryProofs!GuestAlwaysAlone` | `GuestAlone` |
| `ReentryProofs!BridgeImplementsCell` | `ImplementsCell`: initial states map to initial states and every step to a step of `BorrowCell` or a stutter |
| `ReentryProofs!NobodyEverWaits` | `NobodyWaits`, for disciplined scripts |
| `ReentryProofs!HostBodiesUnguarded` | `HostBodyUnguarded`, for disciplined scripts |

`GuestMemoryProofs` assumes `GuestMemoryAssumption` and `PageAssumption`:
a positive page size, page-aligned arenas and fixed ranges inside the address
space, non-empty segments. Its lemmas say of each operation of `AddressSpace`
what it does to a well-formed ledger (`Plan` answers a free range, `Rewrite`
partitions what it cuts, `Carve` leaves what it does not remove); the invariant
is the type invariant with disjointness, and page coverage joins it for
`LedgerBacked`, since an unmap of whole pages must not take one that another
region shares. For the arenas and the identity of regions a second argument says
where the regions after a step come from: each is new, and then placed by the gap
search inside its arena or at a fixed address, or descends from one region before
the step, whose use and placement it has and inside which it lies. That the gap
search answers an address of the arena needs a least member of a finite set of
candidates, which is derived from the well-foundedness of strict inclusion.

That the backend mirrors the ledger is a third invariant (`Mirrored`): every page the
backend has is one of the ledger, with the permissions of its region; that it has every
page of the ledger is the first invariant again. An
operation of the ledger is shown to change the permissions of exactly the pages
the backend operation beside it changes, and to be undone where the backend refuses.
The theorem has two hypotheses, the ones under which the run checks it. The host is the
Python one, since with the tracker a mapping can fail after the backend made it.
And the guest passes page-aligned addresses, since `mprotect` does not check: at
an address inside a page the ledger changes the range and the backend the page.
For `FailedSyscallsAreClean` the undoing itself must not fail: the rollback of a
mapping is an unmap whose result the code drops.

For the gap search the invariant says that no hole of the size begins between
the start of the search and the cursor, that the regions no longer to visit end
at or below the cursor unless that is past the arena, and that the cursor is
aligned. Rounding the cursor up past a region skips only addresses inside the
region or unaligned ones. It assumes what the code's callers pass
(`GapSearchAssumption`): disjoint regions, a positive size and alignment, an
arena inside the address space.

`ModuleLoaderProofs` assumes `LoaderAssumption`, and nothing of what fails when.
The loader computes with recursive functions, about which the library's induction
theorems cannot speak here, as they take an operator; the module therefore starts
with induction in first-order form (a set of numbers that is not empty has a least
one), shows with it that iterations and tail recursions exist and keep what their
steps keep, and applies that to reachability, Kahn's algorithm and the search for
a symbol. The invariant has the types (`Typed`), frames that wait for the one
above them (`Waiting`) and sonames that name one module (`SonamesSound`). A frame
past its link owes the calls of `JNI_OnLoad` it has not made (`Owed`, `Paid`). For
`LoadComplete`, a name a module needs is a dependency already or still on the list
of a frame (`Named`, `Edged`, `Pursued`, `Rooted`), so when the stack is empty
nothing is outstanding. `SonamesMatch` is its one hypothesis: a file loaded for a
`DT_NEEDED` has that soname or none. The code takes the provider's word for it,
and with a provider that answers another library the edge names the wrong one.

`BindsByScope` compares two searches for a symbol, the code's over the graph as it
grew and the promise over the files. The code's is followed first: its queue holds
the modules of one distance from the root, then those of the next (a round), each
round in the order in which the modules before it list their dependencies, and the
first that defines the symbol is answered (`SearchFinds`, `SearchFindsNothing`).
The promise is taken apart by distance in the same way: a file at distance `k + 1`
from a definition has a nearest one through the first of its entries at distance
`k` (`DistanceIs`, `OneNearerAtMost`, `FirstNearer`). What joins the two is an invariant
on the frames (`ScopeInv`). The dependencies of a module are the `DT_NEEDED`
entries that name a file, once each and in the order of the file, as far as its
frame has come (`Walked`, `OneEach`, `InOrder`), so once no frame but the
outermost is left, a round of modules is a round of files. A reference whose file
is promised nothing is bound to nothing, at any time (`Unbound`); that needs no order,
and it is why relocating with part of the edges never has to be undone. Other
references may be bound to nothing or to the wrong module after a nested load,
along a cycle of `DT_NEEDED`. The outermost link relocates everything below it with all edges in
place, and only that is claimed of the load that returns (`Scoped`).

`FdTableProofs` assumes `FdTableAssumption`: a name stands for one source, the
built-in devices are registered under paths, and the bound on descriptors leaves
room for the streams. `SlotNumber` and the others are not inductive alone: the
invariant `IInv` adds that every entry is well-typed, that a stream owns its
empty source, that a host entry names a file with a length, and that the length
of a host file never shrinks, without which a cursor could pass the end through
somebody else's write. A second invariant, `NInv`, is about nodes and devices: a
mount is a file or a numbered device, an entry has the kind and the node its
path is mounted to and a device instance that exists, and the accounts of every
instance balance; lemmas on the cardinality of its holders carry the balance
through open, copy, close and replacement.

`JniHandlesProofs` assumes `JniHandlesAssumption`: the three sources of ids are
apart, but for the empty text. Its invariant adds that every handle ever given
out lies below `nextRef`, and that what a wrapper was registered as is stored or
was released; each operation of the table and of the store is first proved to be
a step that keeps handles or objects, and the invariant is shown kept by those.

`ClassRegistryProofs` assumes `ClassRegistryAssumption`: finitely many classes
and methods, and definitions whose two tables share no signature. The invariant
adds that ids the counter gave lie below it (`BelowCounter`) and that held and
bound ids stand in the table of their owner (`CachedRight`, `NativesRight`);
`CachedReaches` then follows for any superclass graph, without looking into the
walk up the chain. `CachedResolves` does look into it: the superclass a class was
given first stays, and no table loses a signature (`Keeps`), so the class that
holds the method stays on the chain of the class it was asked of (`OnChain`). That
the walk is defined at all, cycles included, is shown from `Classes` being finite.

`OneFunctionEach` stands in the same module and assumes `ShimAssumption`: layers
are sequences and a function has one descriptor or none. Places in the scan are
linearly ordered and every set of them has a foremost (`ScanOrder`, `ForemostIs`),
so the nearest function of a descriptor is the one registered
(`NearestRegistered`). `Careful` makes it the one its Python name is bound to
(`NearestBound`) and the only one its name and count of arguments fit
(`NearestAnswers`), and from these the ways to call it agree.

`JniCallProofs` assumes `EnvBaseAssumption`. It computes the layout, shows that
the slot read back from each trampoline is the one whose pointer was loaded,
that trampolines of the two tables and stray addresses are apart, and that
catalog and arms name the same functions; the invariant ties `pc` to the call
under way. For `HostCallKeeps` it takes `CallAssumption` too (what a Python
method gives and what Python passes are values of Python) and follows a value of
each kind through `ToJValue` and `ToPy`; that no slot of the tables is entered
under a call from Python is again the invariant. For `InvokeSound` and
`ResultFaithful` the invariant says where the pending call stands and which
value its register holds; the arithmetic is that of even moduli that grow and
divide the register's (`WidthsAssumption`): what is extended to a register and
read back in the width it was extended from is what it was.

`FrameworkProofs` assumes `FrameworkAssumption`. Neither property is inductive. A
`PackageInfo` stays the picture of one APK only because the signatures it names
are past their constructor, so nothing writes them again, and because `seen`
keeps every APK there was; contexts agree because an installation takes every
method of every context (`HandlersLast`) and singletons are of no class a
constructor rewrites. One lemma says what a step may do to the objects there are
(`Keeps`), and each action is shown to be such a step whose new objects are sound.

`ReentryProofs` assumes `ReentryAssumption` and `UsesAssumption`, and nothing of
the scripts. The invariant says that a frame past its first step has the borrow
that step asks for, that only a method that starts with an exclusive borrow
enters the guest, that an exclusive borrow is alone, and that the flag counts the
borrows on all stacks; every step of a thread changes one frame, and lemmas on
the cardinality of the borrowers carry the count through.

Its second half, on the mutexes, assumes `Disciplined`: no thread uses
`call_qualified`, and `emu.fs` is used only while no guest runs. Only three
programs keep a guard while Python runs: the release of an instance, a device
system call and a bridged handler. The first has the exclusive borrow, the other
two stand above a frame that has it. Whoever asks for a mutex either has a
borrow, which that excludes unless it stands on the same stack, or was called by
that guest, or is `map_file`; and a thread without the GIL is in Python. So the
owner of a mutex is never another thread in Rust, and never a frame below on the
same stack.

Only model-checked:

* the liveness properties `Terminates`, `LoadTerminates` and `CallsReturn`, as
  fairness and `ENABLED` are outside the prover's reach;
* `DescriptorsAgree` and `RelocationsApply`, which compare parsers, decoders and
  folds over texts and streams on sampled inputs. For all inputs each recursion
  needs an induction of its own, as in `ModuleLoaderProofs`, and the folds take
  operators, to which those inductions do not apply; it is not done.

## 5. What is not modelled

`PROJECT.json` lists every component with its status and the reason. Execution
of guest code is a choice of calls. Of the ELF parser the identity,
`.dynamic` and `.dynsym` are left out; they, case files, the CLI, the telemetry
and the memory layout decode, format or append and keep no state another part
relies on; random
numbers are data. `brk` answers a constant. Weak references and `clear_frame` are
reached by nothing; the pending exception is set by no code outside a test; field
ids are all 0 and fields are values behind a lock that `Reentry` counts. `equals`,
`hashCode` and the constant getters of the framework have no state. What a device
answers, and how a Python object is turned into one, is left open.

## 6. Plan

The core came first, as everything passes through it: memory, descriptors,
loading, references, classes. Re-entry, symbol binding, the JNI tables with the
values, the framework and the stateless algorithms followed, with their proofs.
What is left, most important first:

1. An abstract specification of a descriptor table that shares what dup shares,
   and of `jobject` identity, with refinement mappings where the code meets them.
2. Field access through JNI once field ids
   exist; `equals` and `hashCode` of the framework against each other.
