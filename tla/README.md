# TLA+ models of commonlibrary_c_utils

This directory holds the model-checking project for the C++ utility library
under `src/base`. The core of the library is the intrusive strong/weak
reference counting in `src/base/src/refbase.cpp`. Around it sit an epoll
timer reactor, string and file helpers, and error-code headers.

## 1. Inventory of the system

| Part | Source | State | Operations that change state |
|---|---|---|---|
| RefCounter | refbase.cpp 185-452 | `atomicStrong_` (starts at the sentinel `INITIAL_PRIMARY_VALUE`), `atomicWeak_`, `atomicRefCount_`, `atomicFlags_` (extended lifetime), `atomicAttempt_`, `callback_`, `canPromote_` | IncStrongRefCount, DecStrongRefCount, IncWeakRefCount, DecWeakRefCount, IncRefCount, DecRefCount, AttemptIncStrongRef, AttemptIncStrong, Set/Clear AttemptAcquire, ExtendObjectLifetime, Set/Remove Callback and CanPromote |
| WeakRefCounter | refbase.cpp 38-85 | `atomicWeak_` (subscribers), `cookie_`, `refCounter_` | ctor (IncRefCount), IncWeakRefCount (forwards the first), DecWeakRefCount (forwards the last, then `delete this`), dtor (DecRefCount), GetRefPtr (nulls a stale cookie), AttemptIncStrongRef |
| RefBase | refbase.cpp 473-740 | `refs_`, and the `this` captured by the callback lambda | ctor, copy ctor, copy/move assignment, dtor, IncStrongRef, DecStrongRef, IncWeakRef, DecWeakRef, CreateWeakRef, AttemptAcquire, AttemptIncStrongRef, AttemptIncStrong, CheckIsAttemptAcquireSet, RefPtrCallback (`delete this`), hooks OnFirstStrongRef, OnLastStrongRef, CanPromote |
| sptr / wptr | refbase.h (not in the repository) | the handle's pointer or WeakRefCounter | construct from raw or handle, copy, destroy, promote |
| RefTracker | refbase.cpp 87-183 | debug trace list under `trackerMutex` | only with DEBUG_REFBASE: GetNewTrace pushes a snapshot, PrintTracker pops and prints all |
| EventReactor | event_reactor.cpp | `loopReady_`, `switch_`, timer list under a recursive mutex | SetUp, RunLoop, SwitchOn/Off, ScheduleTimer, CancelTimer, CleanUp, UpdateEventHandler |
| EventDemultiplexer | event_demultiplexer.h | epoll fd, handler map | declaration only |
| string helpers | string_ex.cpp | none: pure functions, except for the loop state of GetSubStrBetween | case mapping, ReplaceStr, TrimStr, SplitStr, DexToHexString, StrToInt, the Is*Str tests, GetFirstSubStrBetween, GetSubStrBetween; UTF-8/16 conversions |
| file helpers | file_ex.cpp | the files and descriptors they touch | LoadStringFromFile/Fd, LoadBufferFromFile (and its node-file path), SaveStringToFile/Fd, SaveBufferToFile, FileExists, StringExistsInFile, CountStrInFile, CountStrInStr, the Rust wrappers |
| error codes | errors.h, common_timer_errors.h, common_mapped_file_errors.h | none: constants | ErrCodeOffset and the code tables, SUCCEEDED/FAILED |
| nocopyable | nocopyable.h | none | deleted copy and move members |

How they interact: every RefBase object owns one RefCounter. Strong handles
count in `atomicStrong_` and `atomicWeak_`. Each wptr created from a raw
pointer or an sptr gets its own WeakRefCounter. That block counts its
subscribers and holds one weak reference on the RefCounter while it has any.
`atomicRefCount_` counts the owners of the RefCounter block itself: the object
and every WeakRefCounter. The block is freed when that count reaches zero.

What makes the code hard:
- Every operation is lock-free. Each is a sequence of separate atomic loads,
  fetch_adds and CASes, so operations of different threads interleave between
  those steps.
- A release can delete the object, or the RefCounter, or a WeakRefCounter,
  while another thread is inside a call on it.
- The sentinel must be removed exactly once, by the first thread to attach.
- An extended-lifetime object can be promoted again after its strong count
  reaches zero.

Properties each part should have:
- no use after free and no double free, of the object, of the counter and of
  the weak blocks;
- no handle dangles;
- when no call is in progress, the counters equal the handles held;
- the first-strong-ref and last-strong-ref hooks run once;
- no misuse diagnostic for correct use;
- every object is eventually reclaimed.

## 2. Modules and how they correspond to the code

`RefBase.tla` models one RefBase object, its RefCounter, and up to
`|WrcIds|` WeakRefCounters, used by `Threads` client threads.

- **State.** Each atomic field is a variable: `strong`, `weak`, `refCount`,
  `extended`. `callback`, `objAlive` and `counterFreed` record whether
  `callback_` is set and whether the object or the block has been deleted.
  `wrc[i]` holds a WeakRefCounter's state, its `atomicWeak_` and whether its
  `cookie_` is still non-null. `sp`, `wp` and `raw` are the handles each
  thread holds.
- **Threads.** A thread's position in the code is `pc[t]`. The return points
  of nested calls are `stack[t]`; for example, DecStrongRef calls the
  callback, which runs ~RefBase, which calls DecRefCount. The local
  `curCount` of the code is `cur[t]`.
- **Actions.** Each action is one atomic access of the code, named
  `Function_Step`. For example, `DecWeakRefCount_Load` is the load at line
  320 and `DecWeakRefCount_Sub` the fetch_sub at line 322. A plain read of
  `callback_` or `cookie_` is also one step. `PROJECT.json` "map" gives the
  lines of every action.
- **CAS.** `compare_exchange_weak` is modelled as the strong CAS. A spurious
  failure only repeats the loop with the value just read.
- **Handles.** The sptr/wptr operations (`SptrFromRaw`, `SptrCopy`,
  `SptrDrop`, `WptrFromRaw`, `WptrFromSptr`, `WptrCopy`, `WptrDrop`,
  `WptrPromote`) are modelled from the spec, because refbase.h is not in the
  repository. A new handle is credited to its receiver only when its
  constructor returns.
- **Client discipline.** A release starts only once every raw-pointer
  holder has wrapped its pointer. A thread releasing the object while another
  still holds the bare `new` result would be a client error, not a library
  one.

`MCRefBase.tla` gives the sentinel its real value, 2^28.

`Lifetime.tla` is the abstract specification of what the counting
promises for one object. It has no counters; its state is only:
- the handles held: raw holders, sptrs and wptrs;
- whether the object and the counter are alive;
- whether the object has had a strong owner;
- whether its lifetime is extended.

Its rules:
- a handle is taken only on a live object (a wptr, on a live counter);
- the object is deleted only when no raw holder and no sptr is left, and
  also no wptr when its lifetime is extended or it never had a strong owner;
- the counter is freed only after the object, once no handle is left.

`MCRefBase.tla` maps `RefBase.tla` onto it (`Life == INSTANCE Lifetime WITH
...`):
- `ctrAlive` is `~counterFreed`;
- `everStrong` is "the count has left the sentinel";
- the handle counts are those credited to the threads.

The property `ImplementsLifetime == Life!Spec` is checked in the safety
run.

`IPCHarness.tla` extends `RefBase.tla` with the IPC registry test of
`src/base/test/unittest/common/utils_refbase_test.cpp` (lines 202-319). It
models one `IPCObjectProxy` with extended lifetime, shared by `Threads`
threads running `RegisterEventThread`.

- **State.** `regLock` and `lastLock` are the owners of `mutex_` and
  `mutexLast_`. `mapState` is the registry entry of the proxy ("none", "in",
  "erased"), and `mapWrc` is the WeakRefCounter the entry holds. `found` is
  the set of threads holding the pointer that FindOrNewObject returned.
- **Actions.** There is one action per critical section or call:
  - FindOrNewObject takes the lock, queries the map, and promotes the
    entry (`QueryObjectInner`) or creates and inserts the proxy.
  - RegisterEventThread wraps the result in an sptr, runs
    CheckIsAttemptAcquireSet, and drops the sptr.
  - `IPCObjectProxy::OnLastStrongRef` is the hook called by DecStrongRef. It
    takes `mutexLast_` and runs DetachObject, which erases the entry only if
    `GetSptrRefCount()` is still 0 under `mutex_`.
- **Library steps.** The steps of the library itself come from
  `RefBase.tla` (`LibStep`). Its `OnLastStrongRef` label is bound to the
  proxy's override.
- **Constants.** `NewAcquire` and `QueryAcquire` choose which promotion the
  test uses at its two call sites: AttemptAcquire, as written, or
  AttemptIncStrong, as spec 4.3 allows.

`RefBaseAssign.tla` models what `RefBase.tla` leaves out: several objects,
each with its own RefCounter, going through construction, copy, move and
destruction (refbase.cpp 185-563).

- **Granularity.** Each call is one step. Spec 4.1 and 5 make copy, move,
  destruction and callback installation the caller's exclusive business,
  never raced with handle operations. The question here is which
  *sequences* of calls are sound; the interleavings inside a call are
  `RefBase.tla`'s subject.
- **State.** The heap is one record `mem`:
  - `mem.ctr[c]` is RefCounter address `c`: "unused", "live" or "freed",
    its three counts, the extended flag, and `cb`, the object whose `this`
    the callback lambda captured (or null after RemoveCallback);
  - `mem.obj[o]` is object `o`: "none", "heap", "stack" or "gone";
  - `mem.refs[o]` is its `refs_`;
  - `mem.fault` collects the memory errors committed so far: use of a freed
    counter or object, double delete, `delete` of a stack object, a
    callback deleting an object that does not own the counter, and a null
    dereference.
  - `sh[o]` counts the sptrs on object `o` (an sptr holds a `T*`), and
    `wk[c]` the wptrs bound to counter `c` (each wptr made from a raw
    pointer has its own WeakRefCounter, bound to the counter of that moment).
- **Helpers.** Each RefCounter and RefBase function that a call makes is a
  function from one `mem` to the next: `DecRefCount`, `RemoveCallback`,
  `IncStrongRefCount`, `DecWeakRefCount`, `RefBaseDtor`, `DeleteObject`
  (RefPtrCallback), `FireCallback`, `IncStrongRef` and `DecStrongRef`. A
  call composes them in the order of the code. A helper reaching a freed
  counter records the use after free and proceeds on the stale fields.
- **Actions.** `Construct`, `CopyConstruct` (its nothrow allocation may
  fail), `CopyAssign`, `MoveConstruct`, `MoveAssign`, `Destroy` (a stack
  object leaving scope), `ExtendObjectLifetime`, `SptrNew`, `SptrDrop`,
  `WptrNew` (CreateWeakRef) and `WptrDrop`.
- **Caller rules.** `MCRefBaseAssign.tla` states the rules the code comment
  at lines 506-511 and the spec give the caller, and the constant `Misuse`
  lifts one of them per violation run:
  - handles are taken only on heap objects;
  - an object that has handles is never assigned over or moved from
    ("assign_shared");
  - only stack objects are moved into ("move_into_heap");
  - ExtendObjectLifetime is called only on objects with a counter (see the
    `null_deref` note under the runs).

`StringEx.tla` models the pure functions of `string_ex.cpp` (lines 29-255).

- **Data.** A string is a sequence of byte values, and positions are 0-based
  as in `std::string`. `NPOS` is -1.
- **Integer widths.** `int` and `long` have widths `IntBits` and `LongBits`.
  TLC's integers are 32-bit, so the MC module uses 8 and 12 bits. Overflow,
  the sign of `%x` output and `strtol`'s ERANGE all behave as at full width.
- **std::string helpers.** `Substr`, `Find`, `FindFirstNotOf` and
  `FindLastNotOf` are operators.
- **Loops.** Each loop of the code is a RECURSIVE operator: `ReplaceLoop`,
  `SplitLoop`, `HexOf`.
- **GetSubStrBetween.** This is the one function whose loop can fail to end,
  so it is a process: `GetSubStrBetween_Begin`, one `GetSubStrBetween_Iter`
  per iteration of the `while` at line 225, and `GetSubStrBetween_Return`.
  Like the code, `GetSubStrBetween_Begin` appends to the caller's `sub` and
  never clears it. The harness resets `sub` to empty between calls, so every
  call starts from a fresh vector, as the unit tests' calls do.
- **Harness.** `MCStringEx.tla` makes one call per step, recording its inputs
  in `call`, over every string of up to `MaxLen` bytes from a small alphabet
  per function. Each result is checked against a reference definition
  written from what the function is for.

`FileEx.tla` models `file_ex.cpp`. It EXTENDS `StringEx` for `find` and
the case mapping.

- **Data.** A file is a record `[kind, data]`. `kind` is "none" for a
  missing path, "regular", or "node" for a file such as /proc/meminfo on
  which `tellg` and `lseek` return -1 (`TellEnd`). `data` is its bytes. An fd
  argument is "invalid" (`fd <= 0`), "closed" (readlink of /proc/self/fd
  fails, and so does lseek), or "open" on the file.
- **Calls.** Each function is an operator from the file before the call, its
  arguments and the outcome of its system calls to its result: `Loaded(ok,
  content)` with the caller's buffer after the call, or `Saved(ok, file)`
  with the file left behind. The branches follow the code's early returns
  in order. The fgetc loop of LoadBufferFromNodeFile and the loop of
  CountStrInStr are RECURSIVE operators (`NodeFileLoop`, `CountLoop`).
- **Faults.** A stream save may succeed, fail in `write` (which sets
  failbit), or fail when the buffered bytes are flushed at `flush` or in the
  destructor (`StreamFaults`). `write(2)` in SaveStringToFd returns -1 or
  any count up to the length. A failed write leaves nothing in the file.
  The `MAX_FILE_LENGTH` of 32 MiB is scaled down to 2.
- **Harness.** The `MCStringEx` harness EXTENDS `FileEx`. Each step makes one
  call: a load (`CallLoad`) runs all six loaders on the same file and fd; a
  save (`CallSave`, `CallSaveToFd`) records the file before and after; a
  search (`CallSearch`) calls StringExistsInFile and CountStrInFile. The
  files are every missing, regular or node file of up to 3 bytes over
  {A, a}.

`ErrCodes.tla` models the error-code headers. `ErrCodeOffset` is the
shift-and-or of errors.h, with Bitwise's `|`. `BaseErrors`, `TimerErrors`
and `MappedFileErrors` are the three enums as records from name to value.
The errno values are those of Linux. `MODULE_TIMER` and
`MODULE_MAPPED_FILE` come from common_errors.h, which is not in the
repository; the cfg gives them 1 and 2. The `MCStringEx` harness builds a
code (`CallErrCode`) from every subsystem of the enum (0-49), every module
that fits the five-bit field (0-31) and every code value the tables use.

`EventReactor.tla` models `EventReactor` of `event_reactor.cpp`.

- **Threads.** The thread running RunLoop (`rpc`) and the threads calling
  SetUp, SwitchOn/Off and the timer functions share `loopReady_` and
  `switch_`.
- **RunLoop.** Each read of a flag is one step: `RunLoop_Ready`,
  `RunLoop_Switch`. Polling is `RunLoop_Poll`, the loop's back edge is
  `RunLoop_Again`, and the final `loopReady_ = false` is `RunLoop_Exit`.
- **Timer list.** ScheduleTimer, CancelTimer and CleanUp run under the
  recursive `mutex_` and are one step each. The timer list `timers` holds
  descriptors, and `hstate` is each handler's state: "none", "init",
  "uninit" or "failed".
- **Missing bodies.** The demultiplexer and TimerEventHandler bodies are not
  in the repository. StartUp and Initialize may therefore succeed or fail,
  and Polling returns with or without a critical error. Polling returns
  only if RunLoop's `timeout` is finite, or an initialised periodic timer
  (`ScheduleTimer` with `once` false) is there to expire (`TimerCanFire`).
  Otherwise the loop thread blocks in Polling, as the code does.
- **Harness.** `MCEventReactor.tla` runs the loop thread (SetUp, the loop,
  CleanUp) up to `MaxRuns` times, each with a finite or an infinite
  timeout, against a control thread making up to
  `MaxCtlOps` calls.

## 3. Runs

| Run | cfg | Checks | Result |
|---|---|---|---|
| safety | MCRefBase_safety.cfg | TypeOK, NoUseAfterFree, HandlesNeverDangle, LifetimeMatchesHandles, LifecycleHooksOnce, NoFatalDiagnostics, the refinement ImplementsLifetime, and EventuallyReclaimed under FairSpec | pass, 826k distinct states, about 2 minutes |
| canpromote_leak | MCRefBase_canpromote.cfg | EventuallyReclaimed, with CanPromote() allowed to refuse | violation |
| ipc_safety | MCIPCHarness_safety.cfg | IPCTypeOK, IPCNoUseAfterFree, ErasedOnlyWhenUnheld, IPCAllReleased, LifecycleHooksOnce, NoFatalDiagnostics on the IPC test as written | pass, 220k distinct states |
| ipc_sentinel | MCIPCHarness_sentinel.cfg | IPCAllReleased, with AttemptIncStrong on the new proxy | violation |
| assign_safety | MCRefBaseAssign.cfg | NoUseAfterFree, CountsMatchHandles, CounterOwnership, HeapObjectsHeld for every call sequence that keeps the caller rules | pass, 60k distinct states |
| assign_stranded | MCRefBaseAssign_stranded.cfg | NoUseAfterFree, with assignment over an object that has handles | violation |
| assign_move | MCRefBaseAssign_move.cfg | CallbackDeletesOwner, with moves into heap objects | violation |
| stringex | MCStringEx.cfg | ReplaceStrMatchesReference, TrimStrStripsPadding, SplitStrMatchesReference, HexRoundTrip, StrToIntExact, CaseFoldingConsistent, SubStrBetweenDelimited, SubStrBetweenProgress, and for file_ex SavesReportTruth, RegularLoadsAgree, SearchMatchesReference, and for the error codes ErrCodeFieldsDecode, ErrCodeTablesDistinct | pass, 39.8k distinct states |
| stringex_between | MCStringEx_between.cfg | SubStrBetweenProgress, with an empty left delimiter allowed | violation |
| file_saves | MCStringEx_saves.cfg | SavesReportTruth, with write and flush failures allowed | violation |
| file_loads | MCStringEx_loads.cfg | LoadsReplaceBuffer, with a caller buffer that may hold a byte | violation |
| reactor | MCEventReactor.cfg | ArmedTimersListed, LoopEndsAfterSwitchOff under FairSpec | pass, 11.2k distinct states |

**Bounds.** Each RefBase run has two threads and two WeakRefCounters. Both threads
start with the raw pointer of the fresh object, and each may make one
handle-creating call (`MaxOps = 1`). Wrapping the raw pointer is not counted.
Both lifetimes are explored.

These bounds reach the cases that matter:
- two concurrent first attaches;
- a first attach racing a promotion from the sentinel;
- a promotion racing the last strong release;
- the last wptr of one block racing the deletion of the object through
  another;
- a wptr copy sharing a block;
- both CAS retry paths.

`MaxOps = 2` was also checked for the invariants, with symmetry over
threads and blocks: 9.6M states, no violation, 4.5 minutes.

The IPC runs use three threads, one iteration each (`MaxOps = 1`). Three
threads are what it takes for one thread's OnLastStrongRef to race a second
thread's resurrecting query while a third creates the proxy.
`MaxOps = 2` also passes (5.7M states), but takes 2m46s.

The base safety run also covers the attempt-acquire guard idiom. A thread
holding an sptr calls AttemptIncStrong or AttemptAcquire, then
CheckIsAttemptAcquireSet.

**Symmetry.** None. The safety run also checks liveness, for which
symmetry is unsound.

**Fairness.** `FairSpec` assumes weak fairness of each thread. The code is
lock-free, so a scheduled thread always progresses. Handles are RAII
objects, so every held handle is eventually destroyed.

**Finding.** The violation run shows that `RefCounter::AttemptIncStrongRef`
pins the weak count at line 400. When the gate refuses (lines 425-426), it
returns false without the DecWeakRefCount that its other failure path makes
(line 447). After every handle is released, `atomicWeak_` stays at 1, so an
extended-lifetime object and its RefCounter are never freed.

**IPC findings.**

- **`ipc_sentinel`: AttemptIncStrong leaves the sentinel in the count.**
  On a never-attached object, `RefCounter::AttemptIncStrong` (lines 457-461)
  CASes the count from the sentinel to sentinel+1. It does not subtract the
  sentinel. When the sptrs are released, the count returns to the sentinel,
  not to 0, so:
  - the proxy's OnLastStrongRef never runs;
  - the registry keeps its wptr;
  - the proxy is never freed.
- **CheckIsAttemptAcquireSet (lines 588-590).** It reads, clears and
  re-reads the attempt counter in separate steps. In the test as written,
  every promotion paired with it is an AttemptAcquire that succeeded, and
  `NoFatalDiagnostics` holds in `ipc_safety`.

**Copy and move (`assign_*` runs).**
- *Bounds.* Three objects, five counter addresses, two sptrs per object and
  two wptrs per counter. Freed addresses are not reused, so five addresses
  allow every object a default or copy construction plus two assignments.
  These bounds reach:
  - an object of each kind;
  - a copy from and over each;
  - a move between any two;
  - two strong handles and two weak handles at once;
  - the extended lifetime, set before or after handles exist;
  - every release order.
  The run may stop, because objects and addresses are finite, so deadlock
  is not checked.
- *Symmetry.* Objects and counter addresses are symmetric.
- *`assign_stranded` (spec 8 asks for this check).*
  1. `sptr p(a); a = b;` is the RISK of lines 506-511: the old counter is
     freed, and `a` gets a fresh counter at the sentinel.
  2. `sptr q(a)` then takes that counter out of the sentinel.
  3. Releasing `q` deletes `a` through the new counter's callback.
  4. Releasing `p` calls DecStrongRef on the deleted object.
  So the stranded handles do lead to a use after free.
- *`assign_move`.* The move constructor and move assignment (lines
  531-551) transfer `refs_`, but `callback_` is still the lambda that
  captured the source's `this`. For `T *h = new T(std::move(x)); sptr
  p(h);`, releasing `p` deletes `x`, which may be a stack object. Then `h`
  leaks, and its counter is freed under it.
- *`null_deref`.* `RefBase::ExtendObjectLifetime` (line 567) is the only
  RefBase method that dereferences `refs_` unchecked. Spec 4.3 and 7 say
  every operation on a moved-from object, or after a failed counter
  allocation in a copy, is a no-op. The model records the null dereference
  in `mem.fault`, but has no run for it: the caller rules keep it away,
  and line 567 shows it without any call sequence.

**string_ex (`stringex*` runs).**
- *Bounds.* Strings of up to `MaxLen = 4` bytes from a small alphabet per
  function:
  - {a, b} for ReplaceStr;
  - {' ', a} for TrimStr;
  - {' ', ',', a} for SplitStr;
  - NUL, '-', digits and a letter for StrToInt;
  - digits, upper and lower letters at the range ends and one non-ASCII
    byte for the case functions;
  - '[', ']', a for GetSubStrBetween.
- *More bounds.* Separators and delimiters of up to two bytes; every 8-bit
  int for DexToHexString. With `IntBits = 8`, four digits reach the
  overflow of StrToInt on both sides. With `LongBits = 12`, strtol's ERANGE
  is reached as well.
- *TrimStr of padding alone.* `TrimStr("  ", ' ')` returns "  " unchanged. For a
  string made only of `cTrim`, `find_first_not_of` returns npos, and the
  loop at lines 67-72 breaks without erasing. The one-byte case at line 61
  shows that the intent is the empty string. Confirmed by compiling the
  function with g++. `TrimStrStripsPadding` states the exception, so the
  stringex run checks everything else TrimStr does.
- *`stringex_between`.* With an empty left delimiter, `GetSubStrBetween`
  never ends. `find(left)` returns the position of the match just consumed,
  and `strTmp` never shrinks. Confirmed with g++.

**file_ex (`stringex` and `file_saves` runs).**
- *Properties.*
  - `SavesReportTruth`: a save that returns true leaves the file holding
    exactly the old content (when appending) followed by the new one; a save
    that returns false still starts with the old bytes. Saving nothing
    changes nothing. A truncating save whose write then fails (line 204)
    breaks the second half: the file is already empty.
  - `RegularLoadsAgree`: on a regular file, or a node within the limit, with
    a fresh buffer, LoadStringFromFile, LoadStringFromFd, LoadBufferFromFile
    and the three Rust wrappers return the same success and the same bytes,
    and succeed exactly when the file is within `MAX_FILE_LENGTH`. The fd
    loaders fail on an invalid or closed fd (the closed one through the
    fallback by name, lines 170-171, whose readlink fails).
  - `SearchMatchesReference`: CountStrInFile is the largest number of
    non-overlapping occurrences (computed over sets of positions), after case
    folding when asked, and StringExistsInFile agrees with it.
- *`file_saves`.* `SaveBufferToFile` does not check `write` or `flush`
  (lines 339-341) and returns true. TLC's counterexample is a new file,
  opened and created, whose write fails: the call reports success and the
  file is empty. `SaveStringToFile` checks `fail()` only right after
  `write` (line 215), before ofstream has flushed its buffer, so a failed
  flush in the destructor goes unseen too.
- *`file_loads`.* `LoadsReplaceBuffer` states what a caller of any loader
  is promised: on success the buffer holds the file's bytes and nothing
  else (the comment of LoadBufferFromFile at line 285: "If the buffer is
  not empty, then overwrite"), and a file beyond `MAX_FILE_LENGTH` is
  refused (testLoadStringFromFile006, testLoadStringFromFd005). Four places
  break it:
  - on a node, tellg's -1 passes the length check (line 112), and
    LoadStringFromFile copies the whole stream: TLC's counterexample is a
    3-byte node with the limit at 2;
  - LoadBufferFromNodeFile pushes onto the caller's vector without
    clearing it (line 275);
  - RustLoadBufferFromFile appends what was loaded to the caller's vector
    (line 54);
  - LoadStringFromFd returns true on an empty regular file and leaves the
    caller's buffer as it was (line 174).
  Each was confirmed separately by restricting the loaded files.

**Error codes (`stringex` run).**
- *Properties.*
  - `ErrCodeFieldsDecode`: every code made by ErrCodeOffset plus a table
    code reads back, by the layout drawn in errors.h (lines 28-36), as its
    subsystem, module and code, with the reserved bits clear.
  - `ErrCodeTablesDistinct`: no two names of the three tables share a value
    other than the success value 0.
- *Not checked.* `MAPPED_FILE_ERR_OK` is the module offset plus 0, not
  `ERR_OK`, so `SUCCEEDED(MAPPED_FILE_ERR_OK)` is false. The two module
  headers also share the include guard `UTILS_COMMON_TIMER_ERRORS_H`, so a
  translation unit that includes both sees only the first one's names.
  Both are facts about constants and the preprocessor, with no run-time
  behaviour to explore.

**EventReactor (`reactor` run).**
- *Bounds.* Two timer descriptors. The loop thread runs SetUp, RunLoop and
  CleanUp twice (`MaxRuns = 2`). The control thread makes four calls
  (`MaxCtlOps = 4`): switching, scheduling and cancelling.
- *Fairness.* Weak fairness of the loop thread only. Its Polling step is
  enabled whenever the timeout is finite or a periodic timer is armed, so
  a scheduled loop thread then progresses. The control thread is
  the application, which owes the reactor nothing.
- *Properties.*
  - `ArmedTimersListed`: every initialised handler is still listed, so
    CancelTimer or CleanUp can uninitialise it.
  - `LoopEndsAfterSwitchOff`: once `switch_` stays off, and Polling can
    return (a finite timeout or a periodic timer), RunLoop ends. The loop
    re-reads both flags after every Polling. With an infinite timeout and no
    timer, SwitchOff is never seen (line 76): the model blocks there, and
    the property's hypothesis excludes it.

**Mutants.** Every property of a passing run is shown to be violated by a
plausible bug in the code it covers (`PROJECT.json` "mutants"):
- a destructor that always releases the counter share;
- an off-by-one in DecStrongRef's last-reference test;
- a WeakRefCounter that forwards every subscriber;
- a first-attach test made on the stale load;
- DecStrongRefCount returning the new value;
- a sentinel fixup applied on every promotion;
- a WeakRefCounter destructor that forgets DecRefCount;
- a promotion failure that ignores the extended lifetime;
- a DetachObject that erases without re-reading the count;
- an OnLastStrongRef that does not detach;
- AttemptAcquire firing OnFirstStrongRef on every success;
- an IncStrongRefCount that leaves the sentinel in the count;
- a move constructor that does not null the source's `refs_`;
- ReplaceStr that skips one byte too many;
- TrimStr that erases at the last position;
- SplitStr that steps over one byte of a longer separator;
- DexToHexString on the signed value;
- StrToInt without the INT_MIN check;
- UpperStr that maps nothing;
- GetFirstSubStrBetween that keeps the left delimiter, or returns the
  left delimiter's position;
- SaveStringToFile that always truncates;
- LoadStringFromFile that refuses a file of exactly the limit;
- CountStrInStr that resumes one byte after a match;
- ErrCodeOffset with the subsystem shifted by 20;
- the timer offset built without its module;
- CancelTimer that erases without uninitialising;
- a RunLoop whose condition is hoisted out of the loop.

## 4. Not modelled, and plan

- **A refinement for RefBaseAssign.** `RefBaseAssign.tla` is not mapped
  onto `Lifetime.tla`. Lifetime speaks of one object and one counter,
  while the point of RefBaseAssign is that an object changes counters.
- **sptr/wptr move, assignment and casting constructors.** refbase.h is not
  in the repository. The handle operations that are modelled come from the
  spec.
- **EventReactor::UpdateEventHandler and the EventDemultiplexer.** Only the
  demultiplexer's declaration is in the repository.
  UpdateEventHandler only forwards to it.
- **string_ex UTF-8/UTF-16 conversions** (lines 256-306). They call
  unicode_ex, which is not in the repository.
- **Concurrent writers to a file.** Each file_ex call runs on a file
  nothing else writes during the call.
- **The Rust save and search wrappers** (file_ex.cpp 60-99). They convert
  their arguments and call the modelled functions.
- **RefTracker.** It is compiled only with DEBUG_REFBASE. It is a list of
  snapshots of the three counts, under its own mutex, and the library never
  reads it. It prints newest first: PopTrace follows `exTrace` back from the
  head. Spec section 9 speaks of "print oldest-to-newest" semantics, so it
  disagrees with the code on that point.
- **nocopyable.h.** It deletes copy and move members, a compile-time
  restriction with no behaviour.
- **wptr::GetRefPtr without promotion.** It is in refbase.h. Only there can
  `WeakRefCounter::GetRefPtr` read `callback_` while `~RefBase` clears it.
  On the promotion path the model has, the promoting thread's reference
  keeps `~RefBase` from running.
- **The data race on `callback_`.** It is modelled as atomic, not as
  undefined behaviour.
