# A TLA+ model of sonnetbox

sonnetbox evaluates Jsonnet programs inside a WebAssembly sandbox. A Go host
(`src/engine.go` and the files beside it) runs the embedded guest
(`src/cmd/sonnetbox-guest`, compiled to WebAssembly) under wazero; a Rust host
(`src/rust/sonnetbox-wasmtime`) runs the same guest under Wasmtime. The guest has
no file system and no network: it reaches the outside only through one host
function, by which it asks for imports and calls native functions, and every
such call is charged to a budget.

This directory holds TLA+ modules translated from that code, TLC configurations
that check them on small instances, and theorems about them that TLAPS checks
for every value of the constants. `PROJECT.json` lists the runs, the mutants that
show each property can fail, the source lines each definition stands for, the
hazards of the code and the places where it disagrees with its own documentation.

## 1. The system

### Components

| component | source | state | operations |
|---|---|---|---|
| Engine lifecycle | `engine.go` | `gate` (a buffered channel), `closed` under a lock, the wazero runtime, the counter that names instances | `Evaluate`, `EvaluateAnonymous`, `EvaluateFile`, `Close` |
| Host calls | `engine.go` `hostCall`, `resolveImport`, `callCapability` | `invocationState`: three counters, the list of resolved imports, the first error | import, native call, the panic they recover from |
| Guest | `cmd/sonnetbox-guest` | `hostBridge`: two caches, the last host status, the local-limit flag; the trace buffer and the result buffer | `sonnetbox_request_alloc`, `sonnetbox_evaluate`, the accessors of result and trace |
| Observer | `observer.go` | none | `Evaluation`, `Import`, `Capability` hooks, called by the two components above |
| Engine construction, options | `engine.go` `newEngine`, `options.go` | `CompilationCache`: its pinned stack size | `NewEngine`, `NewCompilationCache` |
| Request preparation, limits | `engine.go` `prepareRequestMode`, `normalizeConfig`, `types.go` | none | validation and inheritance of ceilings |
| Importers, virtual paths | `importer.go`, `lib.rs` `MapImporter` | maps and search roots, fixed at construction; the open roots | `NewWorkspaceImporter`, `Import`, `Close` |
| Wire protocol | `internal/protocol` | none | encodings, the packed 64-bit results, output framing |
| Errors | `errors.go` | none | what each error wraps, which decides an exit status |
| Command line | `internal/cli/cli.go`, `errors.go` | what it holds open; the files it writes | `Run`, `execute`, `writeResult`, `writeMulti` |
| Policy files and sizes | `internal/cli/policy.go` | none | layering of defaults, file and flags; parsing of sizes |
| go-jsonnet compatibility | `compat/gojsonnet` | the adapter's mutex, the VM's settings | `Import`, `FindDependencies`, the `Evaluate*` wrappers |
| Embedded guest binary, examples | `guest/embed.go`, `examples` | none | decompression; programs that call the library |
| Rust host | `rust/sonnetbox-wasmtime` | a gate (mutex and condition variable), the epoch ticker, per-call stores | `Engine::new`, `evaluate*`, its own host calls |

### How they interact

A caller's goroutine runs `evaluate`: it checks its context and the closed flag,
prepares the request, takes a token from the gate, checks the flag again,
instantiates the guest and calls it. The guest, on the same goroutine, calls
`hostCall`, which calls the caller's importer or capability and the observer's
hooks, and packs the reply into 64 bits. Deferred functions close the instance,
release the token and run the `Evaluation` hook, in that order. Any other
goroutine may at any moment cancel the context or `Close` the engine, which sets
the flag, unlocks, and then closes the runtime with every instance in it.

Around this, `newEngine` builds an engine's runtime, on a compilation cache that
other engines may share, and closes it again when a later step fails. VMs of
`compat/gojsonnet` evaluate on an engine and may share one adapted importer, whose
mutex is the only lock an evaluation waits for without a look at its context. The
command resolves a policy into the configuration of one engine, evaluates once and
writes what came of it, one file after another. A limit is checked in three
programs: by the host that configures an engine and prepares a request (in Go or in
Rust), and again by the guest, with constants of its own.

### What is hard

* **Interleavings.** Close against a call that has passed its first or its second
  closed check; the context's end against every step; two calls and one slot;
  the random choice of `select` when both its cases are ready.
* **Two verdicts on one evaluation.** The guest reports a status, the host has
  recorded an error, the runtime has its own reason for stopping the guest: the
  caller must get the right one, and the statistics with it.
* **Deferred functions.** Their order decides how many instances exist at once
  and whether a hook may evaluate again; on a panic they see unset results.
* **Budgets.** What is charged, when, and what is still reported as served when a
  later check fails.
* **Late answers.** A handler that answers after the context ended.
* **Partial failure.** A construction that fails half-way, with a runtime open; a
  result of several files of which some are written; a process killed between the
  truncation of a file and its content.
* **Numbers at their edge.** Ceilings kept in three programs, zeros that mean "not
  set" here and are refused there, products that wrap, counts and lengths of empty
  texts, an error cut to an answer's size.
* **Liveness.** Slots come back and infinite programs end; a waiter can leave
  although the holders never do.

`PROJECT.json` "hazards" names the line of each, and the properties that cover it.

### What makes each component correct

* *Engine lifecycle*: a token for exactly the calls between acquire and release;
  no more instances than tokens; nothing admitted and nothing successful after
  Close; the error names the cause; one event per call, outside the gate; every
  call returns.
* *Host calls*: ceilings are never overdrawn; an event with a path for exactly
  the imports listed; the first error is kept, and every failure the guest sees
  is recorded; a handler is called only for a request that has been charged, and
  its answer is served only in time.
* *Guest*: the host's failure is the caller's error; the list of imports is what
  the program read; one content per path; repeated imports are free.
* *Importers*: no path leaves its root; a served path leads back to its file; the
  declared places are searched in order, none left out; no root stays open.
* *Construction*: a runtime is open exactly while it is needed; engines on one cache
  have one stack size.
* *Limits*: what a host prepared the guest never refuses, and both hosts resolve a
  request to the same limits.
* *Wire*: what the guest frames, the host unframes to the same, and nothing else.
* *Policy*: the effective policy is what the operator asked for; sizes never wrap.
* *Command line*: exit status 0 means that everything is written, also over what a
  killed run left; the manifest names every file before it is touched.
* *go-jsonnet adapter*: one importer call at a time, and every evaluation whose
  deadline has passed returns.
* *Rust host*: as many holders as permits, no lost wake-up, the same contract of
  host calls, a deadline that stops the guest.

## 2. The modules

| module | models | source |
|---|---|---|
| `Engine` | concurrent `evaluate` and `Close` calls | `engine.go` 300-543, 1472-1690 and the guest's side of each call |
| `EvaluationService` | what the engine promises its callers | the abstract specification `Engine` is shown to implement |
| `HostCalls` | the host's side of the calls of one evaluation, against any guest | `engine.go` 565-870, 1615-1650 |
| `Invocation` | the embedded guest on top of `HostCalls`, and the end of `evaluate` | `cmd/sonnetbox-guest/main_wasm.go`, `engine.go` 458-513, 1690 ff. |
| `WasmtimeHostCalls` | the same calls in the Rust host | `rust/sonnetbox-wasmtime/src/lib.rs` 694-1089 |
| `HostContract` | what both hosts promise an evaluation | the abstract specification `HostCalls` and `WasmtimeHostCalls` are shown to implement |
| `WasmtimeEngine` | concurrent evaluations of the Rust host: permit, store, deadline and epoch thread, on top of `CondvarGate` | `lib.rs` 319-328, 366-611, 1091-1257 |
| `CondvarGate` | the Rust host's gate: counter, condition variable, deadline | `lib.rs` 1371-1419 |
| `Semaphore` | a counting semaphore with deadlines | the abstract specification `CondvarGate` is shown to implement |
| `WorkspaceImporter` | declarations, construction, imports and `Close` of a `WorkspaceImporter`, over directories that change | `importer.go` 61-355, 439-447 |
| `VirtualPaths` | validation and resolution of virtual paths, and `MapImporter`, in both hosts | `importer.go` 28-59, 357-437, `lib.rs` 104-135, 1301-1369 |
| `Limits` | ceilings, defaults and inheritance of limits in both hosts | `engine.go` 27-68, 976-1273, `config.rs` 69-234 |
| `RequestPath` | a request through the checks of host and guest, an error on its way back | `engine.go` 1279-1381, 1530-1552, `lib.rs` 614-661, `main_wasm.go` 53-113, 447-493 |
| `EngineStartup` | construction of engines on a shared compilation cache | `engine.go` 159-251, `options.go` 150-192 |
| `Embedding` | a process with engines, VMs and one adapted importer; composes the three above | `compat/gojsonnet/vm.go` 288-441 |
| `Policy` | sizes, counts and the layers of a policy; extends `Limits` | `internal/cli/policy.go` |
| `Wire` | the framing of multi-file and stream outputs | `internal/protocol/protocol.go` 170-291 |
| `Command` | the command from its arguments to its exit status; composes `Policy` and `Wire` | `internal/cli/cli.go`, `errors.go` |
| `EngineProofs`, `InvocationProofs` (also about `HostCalls`), `WasmtimeHostCallsProofs`, `WasmtimeEngineProofs` (also about `CondvarGate`), `WorkspaceImporterProofs` (also about `VirtualPaths`), `EmbeddingProofs` (also about `Limits` and `RequestPath`), `CommandProofs` (also about `Wire` and `Policy`) | theorems about the modules they are named for | |
| `DataInduction` | lemmas for these: induction over numbers, functions by recursion over an interval, division, binary search | |
| `MCEngine`, `MCHostCalls`, `MCInvocation`, `MCWasmtimeHostCalls`, `MCCondvarGate`, `MCWasmtimeEngine`, `MCWorkspaceImporter`, `MCEmbedding`, `MCCommand` | small instances for TLC | |

### Engine

`pc[c]` is the place of a call in `evaluate`; each action is the code between two
points at which another goroutine, the context or the runtime can intervene.

| state | code |
|---|---|
| `gate` | `len(Engine.gate)` |
| `closed`, `runtimeClosed` | `Engine.closed`; whether `runtime.Close` has run |
| `instanceCount`, `name` | `Engine.instance`, the name `moduleConfig` made of it |
| `module` | the instance: open, aborted by Close, closed by the deferred function |
| `fuel` | what is left in the call's fuel meter |
| `hostErr` | whether `invocationState.lastErr` is set |
| `status` | the status `sonnetbox_evaluate` returned |
| `result`, `events` | what `evaluate` returns; what the `Evaluation` hook received |

`Evaluate` covers the checks the wrappers make before the deferred hook exists (a
nil context, `EvaluateFile`'s `Source` and `Filename`); `CheckContext`,
`CheckOpen`, `PrepareRequest`, `Acquire` and `Recheck` are `evaluate` up to the
second closed check; `Instantiate` and `Initialize` are `InstantiateModule`;
`RequestAlloc`, `GuestComputes`, `GuestCallsHost`, `HandlerReturns` and
`GuestReturns` are the calls of `sonnetbox_request_alloc` and
`sonnetbox_evaluate`; `ReadTrace`, `ReportHostError` and `ReadResult` what
follows; `GuestStopped` is a guest call the runtime stops, classified by
`RuntimeError`; `CloseModule`, `Release` and `Observe` are the deferred functions.
`ABIError` at `RequestAlloc`, `GuestReturns`, `ReadTrace` and `ReadResult` stands
for any payload, pointer or length the host refuses. `Close` and `CloseRuntime`
are the two halves of `Engine.Close`; `Close` of a nil engine only returns an
error and is a stuttering step.

wazero is external: an instantiation fails when the runtime is closed or the
name is taken, closing the runtime aborts every open instance under its lock, a
running call sees the abort or the context's end at a later check and may return
first. The Jsonnet evaluator is external too: it burns fuel.

### HostCalls

One step is a host call that needs no handler (`RejectCall`, `MalformedImport`,
`UnsafeImport`, `ImportOverCount`, `MalformedNative`, `NativeOverCount`), a host
call up to its handler (`ImportCounted`, `NativeCounted`), or a handler's return
to the end of the call (`ImportFails`, `ImportServed`, `ImportMisnamed`,
`NativeFails`, `NativeServed`, `Panic`). `call` is the host call waiting for its
handler, and `CancelContext` may happen meanwhile. `Conclude` is the common end:
the deferred function delivers the event, whose hook may panic, and `hostCall`
answers through `Deliver` or `Recover`. `importCalls`, `importBytes`,
`capabilityCalls`, `resolved` and `lastErr` are the fields of `invocationState`;
`audit` is what the observer received, `reply` what the guest was told.

A content is known by its length and a file by its canonical path. `EncodedLen`
is what base64 inside JSON makes of a content, because the reply's ceiling and
the guest's buffer are about encoded bytes.

### Invocation

The guest of `cmd/sonnetbox-guest` in place of any guest: its caches (`imports`,
`contents`), the host status it keeps (`lastStatus`), its own refusal of a request
that is too long (`localLimit`), the status it ends with (`ErrorStatus`), and
`Report`, the tail of `evaluate` that turns that status and the host's first error
into the caller's error and the list of imports. An import or a native call that
fails ends the program, as go-jsonnet makes it.

### EvaluationService

Calls are submitted, admitted while the service is open and fewer than
`MaxConcurrent` run, and answered once. `Engine` implements it under

    open   <- ~closed
    phase  <- idle, pending, running (an instance was asked for) or answered
    answer <- the kind of error returned

so the two closed checks, the gate and the flag amount to one atomic admission.

### WasmtimeHostCalls and HostContract

The Rust host answers the calls `HostCalls` answers, and the two modules are laid
out alike, action by action, so that their differences can be read off: the Rust
host looks at the deadline before the handler and again only when the handler
succeeded (`ImportFails`, `NativeFails` against `ReturnsLate`), lists a path before
the encoded reply is measured (`ImportReturns`), tells the guest of a panic without
a message, and has no observer. `expired` is what `HostContext::is_expired` reads
off the clock; it may turn true at any step.

`HostContract` is what is common to both: handlers are called only for charged
requests, contents are served only if the handler came back in time, and then
charged and listed, and the first failure is kept. It leaves open what the two
hosts do differently, such as what has been charged or listed when a reply is
refused. The mapping takes the counters, the set of listed paths, the first error,
the handler waited for, and from `reply` only whether it served or failed.

### CondvarGate and Semaphore

A call inside `Gate::acquire` is `queued` before it holds the mutex for the first
time, `waiting` on the condition variable (mutex released), `awake` after a
notification or a spurious wake-up, or `timedOut`; then it is `holding` a `Permit`,
`released` or `canceled`. Each action is what happens in one holding of the mutex: `Take` and
`GiveUp` are one turn of the loop, `TimeoutAnswered` the turn after a wait that
timed out, in which the counter is looked at once more. `Notified` is `notify_one`:
any one waiting call. `Semaphore` grants, refuses and takes back permits with no
wait in between; a refusal needs an expired call and no free permit. The mapping
sends every place inside the loop to one, asking.

### WasmtimeEngine

`step[c]` is the place of a call in `evaluate_mode`, and `CondvarGate`, which the
module extends, holds its place at the gate. `Reject` is every refusal before the
gate; `Begin` fixes the deadline; `Acquiring`, `Awakens`, `Refused` and `Admitted`
are `gate.acquire(deadline)?` and the look at the clock behind it; `Instantiate`
makes the store and sets its epoch deadline; `Prepared`, `Evaluated`, `TraceRead`
and `ResultRead` are the calls into the guest up to the end, `CallsHost` and
`HandlerReturns` a host call, of which `WasmtimeHostCalls` has the detail; `Traps`
and `Interrupted` are the two ways a guest call can fail. `DropStore` and
`ReleasePermit` are the end of the locals: on failure they go in the reverse order
of their declaration, the store before the permit; on success `drop(permit)` comes
first. Errors are told apart only as `Canceled` or not.

Two clocks run. `Clock` is the time of the host, which the gate, `Admitted` and the
handlers read; `Tick` is an increment of the epoch, `TickLen` after the one before
*or later*, and a guest is interrupted once `ticksLeft`, which counts from the epoch
at its instantiation, has gone down to zero. They are related by nothing but
`sinceTick`, the time since the last increment. At `Horizon`, after every deadline,
the host's clock stands still and the ticks go on.

### WorkspaceImporter and VirtualPaths

A path is the sequence of what stands between its slashes. The segments that matter
are the ones the code looks at: `""`, `"."`, `".."`, a segment with an illegal
character and one that names a volume. `Clean` is `path.Clean`; `ResolveAgainst` and
`RustResolveVirtualImport` are the two hosts' resolutions, which take different ways:
the Go host joins, cleans and validates, the Rust host pushes and pops. `MapImport`
and `RustMapImport` are the two `MapImporter`s. Only on
Windows does the Go host refuse a volume; the Rust host does everywhere, and
`HostsResolveAlike` says nothing of volumes elsewhere.

`config` is `workspaceConfig.searchPaths`, `searches` and `mounts` the importer's
fields, `roots` the open `os.Root`s. `WithLibraryPaths` and `WithSearchRoot` are one
option each (a refused one ends the construction), `OpenPrimary`, `AddSearchPath` and
`Opened` are `NewWorkspaceImporter`, `CloseNext` one closing of a root, after `Close`
or after a failure. An import is `Begin` (everything up to the candidates), then one
`Skip` or `Read` for each, then `Missing`; imports may be under way, or begin, while
`Close` runs. One import at a time is enough: imports change nothing they share.
The directories change between any two steps (`AddFile`, `RemoveFile`). `appeared`
remembers the names of mounts that came into the workspace since it was opened,
which `checkMountIsFree` cannot know of: `NamesTellRoots` excepts them.

### Limits and RequestPath

`defaultConfig`, `hardCeilings` and the guest's constants are the numbers of the
source; only fuel, whose ceiling is wider than TLC's integers, is counted in
hundreds. `ConfigAccepted` and `normalizeConfig` are the two halves of
`normalizeConfig`, its refusals and its result; `LimitsAccepted` and
`normalizeRequestLimits` likewise; the operators named `Rust...` are
`EngineConfig::validate` and `RequestLimits::resolve`. The Go host reads a zero in a
configuration as "not set", the Rust host refuses it. `MaxStack` is the only signed
number.

A request is its sizes and what is wrong with it. `Prepare` is
`prepareRequestMode`, in the order of its checks, `RustPrepare` is `prepare_request`,
`GuestAccepts` is what the guest checks again. An error is a pattern of characters,
each with its bytes and its bytes once escaped, so that `SetGuestError` can run the
guest's binary search over tens of thousands of them; `HostReads` is the bound of
`readGuestResult`.

### EngineStartup and Embedding

`stage` is how far `newEngine` has come, `held` what it has open, `pinned` the
cache's `stackSize`. `Refuse` is every return before the runtime exists, `Fail` every
one after it, whose deferred call closes the runtime; `Configure` is the
configuration and the cache under its mutex, which keeps the size of a construction
that fails later. A nil importer, capability or observer option is part of `Refuse`.

In `Embedding` each goroutine has a VM and evaluates on any engine. `Evaluate` is the
request's way through host and guest; `Import`, `Lock`, `ImporterReturns` and
`ImporterPanics` are `ImporterAdapter.Import`, split at its mutex. After a panic
`lock` is `Abandoned`: the frame that would unlock is gone. `Stop` ends an evaluation
whose context is done or whose engine is closed, `FailWith` ends it with an error of
the template. Admission, fuel, host calls and budgets are in the other modules.

### Policy, Wire and Command

A size is its digits and the scale of its suffix. `Parses` is what the parsers
accept, in machine words as wide as `MaxUint64` and `MaxUint32` say, and
`parseByteSize` multiplies as the machine does; `Narrowed` is what a 32-bit field keeps of
that. `Asked` is no code: it says, without
layers, what the operator asked of a ceiling.

A payload of `Wire` is a sequence of bytes, in which a word of four bytes is one.
`DecodeStreamOutput` and `DecodeMultiOutput` give the set of what a payload means,
empty when it is refused; a name that comes
twice is refused, so the set has at most one member.

`pc` follows `Run`, `execute`, `writeResult` and `writeMulti`. `out` and `disk`
outlast the process: a name of the directory of `-m` is absent, a directory, torn, or
a file with its content. `Start` begins the next run of the command over what the
last one left. Each writing step is one call to the operating system: `OpenSink`
truncates the `-o` file, `WriteLine` writes a line, `Place` reads what is there and
makes directories, `Truncate` and `Fill` are the two halves of `WriteFile`.
`CallFails` is the failure of any call, `Kill` is the death of the process: nothing
deferred runs, and what was written stays. `Release` runs one deferred call. The `-o` file is outside the directory of
`-m`.

## 3. The runs

| run | instance | shows |
|---|---|---|
| `engine` | two calls, one tracing, gate of one, two Close calls, two units of fuel | every property of `Engine`, that it implements `EvaluationService`, that every call returns if handlers do, and a cancelled waiter even if they do not |
| `host_calls` | four host calls, two imports and one native call allowed, contents of 1, 3, 4 and 7 bytes | the budget, the audit trail and the errors, whatever the guest sends; and that `HostCalls` implements `HostContract` |
| `invocation` | a program of up to six host calls over six keys, two files | the caller's error, the list of imports, the caches; and that this guest is one of those `host_calls` covers |
| `gate` | four calls and two permits | no wake-up is lost, `CondvarGate` implements `Semaphore`, and a waiting call is served or leaves |
| `rust_host_calls` | any number of host calls, three imports and two native calls allowed, the sizes of `host_calls` | the budget, the list of imports, and that `WasmtimeHostCalls` implements `HostContract` |
| `rust_engine` | two calls, one permit, ticks of two units, timeouts of one and three | guests run only with a permit and are canceled at most one tick early; every call returns, if handlers do |
| `importer` | two declarations among two mounts and two library paths, two files in three directories, imports from the workspace and from both mounts | roots are opened and closed exactly, served paths lead back to their files, places are searched in order, both hosts resolve alike |
| `embedding` | two engines on one cache, five configurations, two goroutines, fifteen requests, two errors | runtimes are accounted for, one stack size per cache, host and guest and the two hosts agree on limits, errors are cut to fit, deadlines end evaluations if no importer panics |
| `command` | three runs of the command over one disk, 29 command lines, five results of several files | the policy in force, the manifest, what exit status 0 means, exact framing, and files left alone |
| `host_events`, `importer_shadow`, `adapter_panic` | as above | the disagreements of section 6 |

**Bounds.** Two calls and a gate of one are enough for every pair of places two
evaluations can be in, with one waiting for the other; larger gates are left to the
proofs. Two Close calls cover a Close that finds another under way. Two units of
fuel let a guest compute, call the host and still run out or not. In
`host_calls` the sizes are chosen around the ceilings: 7 exceeds one import (5),
4+4 exceed the total (7) while each fits, 4 bytes encode to more than the
reply's ceiling (6) while 3 do not, and a buffer of 4 is too small for any
file; four calls go past the ceiling of two imports and of one native call,
with a failure before and after. In `invocation` four good keys over two files
make a file imported under two keys, a repeated import and a fourth request over
a ceiling of three. `MaxHostCalls`, the number of audited host calls, is the only
bound of the model itself; it stops the history variable `audit` from growing.
`WasmtimeHostCalls` keeps no such history and needs no bound. In `gate`, four calls
and two permits let two calls wait while two hold, so that a wake-up can be taken by
a newcomer, arrive with a time-out, or arrive twice.
In `rust_engine` one timeout is shorter than a tick and one is no whole number of
ticks, a call may begin at any moment within a tick, and the horizon of three leaves a
second call time to wait for the first and to be interrupted in its turn.
In `importer` one library path has the name of a mount and the other is refused; the
imports climb to the root and above it, go through empty segments, into a directory
named like a mount, or are absolute, and the mounts' directories hold a directory
named like a mount as well. Two declarations are enough for every order of two.
In `embedding` the configurations are unset, at the ceilings but for the least answer and
another stack size, and refused in three ways; the requests are each refused at another
check, or sit at a ceiling; one error is longer than any answer, with characters escaped
to six bytes, and one is short and fills the least answer to the byte once its last
character is cut. Two goroutines let one wait
for the other at the mutex; two engines let one refuse the other's stack size.
In `command` two of the results share names with different contents, one has a file
where another has a directory, and one has both at once, so three runs, each failing or killed anywhere, meet
every kind of remains; one has an unsafe name, one an empty content. The words are 30
and 27 bits wide so that TLC's integers hold every product; the flags sit at both
their edges. The payloads are all sequences of up to six bytes below three.
Symmetry is taken over the Close calls, the files and the keys, which no
definition tells apart; never in a run with a liveness property.

**Deadlock** checking is off, but in `importer`: every call may return and every
program ends. In `embedding` the engines are constructed once each and may all fail or
be closed, and a panic of the importer stops whoever imports; in `command` the command
is started a bounded number of times.

**Fairness.** `EngineFairness` is weak fairness of `CallStep(c)` and
`CloseRuntime(k)`: a goroutine that can take a step is scheduled, and a guest that
runs burns fuel. Nothing obliges a caller to call, to cancel or to close.
That importers and capabilities return is their author's obligation: it is not
assumed but stands in the property, `HandlersReturn => ...`. `Acquire` needs no
strong fairness: the calls are finitely many, and a slot that is free stays free
until one of them takes it. `GateFairSpec` is weak fairness of a thread's turn in
`Gate::acquire`; that permits are dropped is again in the property
(`PermitsDropped => ...`), and nothing obliges the condition variable to wake a
call that was not notified or timed out. `WasmtimeEngine`'s fairness is weak for time,
the epoch thread and the host's own steps, and strong for `Interrupted`: a guest that
goes on for ever meets epoch checks for ever, but not while a handler runs. That the
guest ever ends by itself is not assumed. In `Embedding`, `Lock` is strongly fair,
because Go's mutex hands itself to a waiter that has waited for a millisecond; that the
adapted importer returns is assumed (weak fairness of `ImporterReturns`), since without
it no adapter could help, but not that it does not panic. `Command` needs no fairness.

**Mutants.** Each property of a passing run has a definition in its module that is
the code with a plausible mistake, such as a deferred release that is forgotten,
a hook run before the slot is free, a path recorded before its reply fits. They
stand before the definition they change and nothing uses them.

## 4. What is proved

All theorems hold for every finite set of calls, every number of Close calls,
every ceiling and every size; the assumptions are those named in the modules.
Every invariant and every action property that a passing run checks is stated by a
theorem; so is every refinement, as far as it does without fairness.

**`DataInduction`.** The models compute with functions by recursion over an interval:
the sum over an audit trail, the frames of a payload, the segments of a path, the
flags of a command line, the sizes of a text. What such a function comes to is an
induction over numbers. The induction here (`LeastElement`, `UpTo`) takes a *set* of
numbers where the library's takes a predicate, so its instances can be cited, and each
proof names the set of stages at which its claim holds. `Iteration` says that there is
one function holding every stage, which is how a `CHOOSE`n recursive function is known
to obey its equation. `BisectionIsDefined` and `BisectionFinds` do the same for a
function of intervals that halve: the search of `SetGuestError` is defined on every
interval, and ends one past the last number that passes a test, if the test holds of a
beginning of the interval alone.

**`EngineProofs`.** The inductive invariant is `TypeOK /\ SlotsAccounted /\
LifecycleInv`. `SlotsAccounted` (the gate is the number of holders) is what makes
`Release` keep `gate` in its range and `Acquire` keep the ceiling, and
`LifecycleInv` is what ties a call's instance, name, result and events to its place.
From it follow `InstancesBounded` (an open instance belongs to a holder),
`TrapIsGuestFault`, `EventMatchesReturn`, `HookOutsideGate`, the action properties
`StatsWithoutTrace`, `NoAdmissionAfterClose` and `NoSuccessAfterClose`, and
`EngineImplementsService`, step by step: each action is a step of the service or
leaves it unchanged. `TrapIsGuestFault` needs that a name collision cannot happen,
which needs `name[c] <= instanceCount`, and that an aborted instance means a
closed engine.

**`InvocationProofs`, the host.** The inductive invariant of `HostCalls` is `HostTypeOK`
with `ResolvedBounded`, `AuditMatchesResolved` and `FailureRecorded`; the list is bounded
because a call that waits for its importer has been counted already.
`FirstErrorStays` is the action property, and `GoHostKeepsContract` the refinement
of `HostContract`. `ReportedBytesAreCharged` is about a sum over the audit trail: an event
more adds its bytes to it (`BytesByEvent`, `AppendBytes`), and every step either leaves
trail and budget alone or charges at least what it reports (`Charges`), which has one
hard case, the content that is charged by one check and reported after another
(`ContentCharged`).

**`InvocationProofs`, the guest.** `InvocationImplementsHost` shows each step of the
embedded guest to be a step of `HostSpec` or a stutter, so every theorem about `HostCalls`
holds of it. `CallersGetHostFailures` rests on `Agreement`: while the guest has not
been told of a failure nothing is recorded, and once it is told, its last host
status, the last reply and the first error are the same failure. `ImportsAreListed`
and `ContentsAreStable` rest on `Listing`, which relates the host's list, the reply
in flight and the guest's caches. `ImportsAreAskedOnce` rests on `Asking`: the keys asked
are those of the cache and the one in flight, which the cache has not.

**`WasmtimeHostCallsProofs`.** The inductive invariant is `TypeOK` and
`ListedWereServed`; `RustHostKeepsContract` is the refinement of the same
`HostContract`. The lemmas follow the code: how a failure is answered, how a
success is, and then one step per action.

**`WasmtimeEngineProofs`.** Of the gate first: its inductive invariant is `GateTypeOK`,
`PermitsCounted` (the counter is the number of holders) and `NoLostWakeup` (while a call
waits, every free permit has an awake call on its way to it); the second makes `active`
stay in its range, the third needs it because `notify_one` and a newcomer's `Take` change
both. `GateImplementsSemaphore` needs besides that a timed-out call has expired.
`EvaluationsUseGate` shows each step of `WasmtimeEngine` to be a step of the
gate or none of its business, so these theorems hold there. The
inductive invariant adds `Scopes`, which ties permit, store and deadline to a call's
place, and `Blames`: whoever has been called canceled was at most a tick from its
deadline, and the epoch deadline of a store is far enough away,
`ticksLeft * TickLen - sinceTick` being at least the time left to the deadline less
one tick. Rounding up makes that hold at the start; a unit of time takes one from
both sides, and a tick leaves the left side alone because it comes only when
`sinceTick = TickLen`.

**`WorkspaceImporterProofs`, roots and names.** The inductive invariant is `Construction`
(the mounts are those of the declarations come to so far, and the roots theirs until
`Close`), `Freed` (the workspace has no entry named like a mount but those that appeared)
and `Served` (what is known of a served file), with the types of the sequences.
`RootsAreAccounted` and `NamesLeadBack` follow, the second by `NameLeadsBack`: a mount's
name in front of a path is what `locate` cuts off again. `PathsStayInRoots` adds what is
left to look for (`Looked`): whatever `resolveAgainstVirtualDirectory` does not refuse is a
virtual path, and each place is a granted root.

**`WorkspaceImporterProofs`, resolving.** `HostsAgree`: `path.Clean` over the directory and
the path (`CleanedBySegment`) and the Rust host's loop (`JoinedBySegment`) go through the
same segments, and after each one their states `Meet`: the same parts, or the one has come
above the root, where `Clean` keeps a leading `".."`, and the other is `Escaped`
(`MeetAgain`, `HostsMeet`). What they refuse at the end is then the same
(`ResolvedAlike`), for paths of any length and any segments.

**`WorkspaceImporterProofs`, the search.** `SearchIsInOrder` rests on `SInv`: the searches
are the declarations (`Declared`, `Follows`), and an import under way has `Passed` some
beginning of its candidates, of each of which, or of one of its name, it knows that it
is not there (`Progress`). That names tell candidates apart unless a library path
begins with a search root's name (`OneNameOneFile`) compares one path resolved from two
directories: segment by segment the results stay `Abreast`, as far apart as the
directories, or end in what is pushed after both were used up (`ResolvedAbreast`). When
this was first stated, of library paths that *are* the name of a search root, the proof
failed, and TLC found the counterexample that section 6 tells of.

**`EmbeddingProofs`, engines and limits.** The inductive invariant of construction is
`StartupTypeOK`,
`HeldByStage` (what an engine holds is a function of its stage), `PinnedToAll` (the
cache is pinned to the size of each live engine built on it) and `SoundConfigs` (the
configuration of an engine past its checks is within every ceiling). `StageStep` is the
lemma its steps share: an engine that moves to a stage and holds what belongs there
keeps it. `RuntimesAreAccounted` and `CachesHaveOneStack` follow. `ImporterIsSerialized`
is `OneAtATime`: who imports has the mutex, also after a panic. `PreparedIsNeverRefused`
and `HostsHaveTheSameLimits` are about numbers: from `SoundConfigs`, every limit a host
resolves is at least one and within the guest's constants, for *every* configuration
and every request, the assumption being the types of the fields alone.

**`EmbeddingProofs`, errors.** `AnswersAreReadable` is about the binary search of
`setGuestError`, over messages of any length and any characters. A text is longer, in both
units, the more characters it has (`SizesOrdered`); `truncateUTF8` keeps the characters
that fit, and the next one would not (`WholeCharactersFit`); so the size of a cut answer
grows with the bytes allowed (`TriedIsMonotone`), the search finds the last number of
bytes that fits (`LongestFitting`, `GuestCutsRight`), and a character more would be too
much. The search yields an error at all because the least answer a request may ask for,
256 bytes, has room for the kind and the numbers of any error (`RoomForErrors`,
`ErrorsAssumption`), so the fallback is never needed.

**`CommandProofs`, frames.** By induction over the frames: what is framed is consumed frame
by frame, whatever stands behind it (`FramedIsConsumed`), and what is consumed was framed
(`ConsumedIsFramed`). So documents and files arrive as they were (`StreamArrives`,
`MultiArrives`, over any alphabet that has the numbers, the files in any order of their
names), whatever payload is taken is what the guest frames for it and no beginning of it is
taken (`EveryPayloadExact`), and `FramesAreExact` holds of every state, the invariant
`Streamed` saying which documents the lines are.

**`CommandProofs`, files.** The inductive invariant goes with the process: where there is a
result (`Stages`, `OneKind`), what it lists (`Listing`), that the lines written are its
first lines (`Written`), that the manifest is ahead of the files and already in its own
(`Manifest`), that every file listed has its bytes but the one at hand (`Filled`), and what
status 0 then means (`Done`). `Filled` needs that the directories made for one name destroy
no file written before: where one of them is a file, `Place` is `Blocked`, and no name is
beneath itself (`NotOwnParent`). That the file at hand lacks its bytes until `Fill` gives
`UnchangedIsKept`. `ManifestIsAhead` and `SuccessIsWhole` hold for any number of runs,
each failing or killed anywhere, over whatever the ones before left.

**`CommandProofs`, policy.** `PolicyIsInForce` compares the layers of the code with `Asked`:
flags override one after another, so the last one of a field decides (`OverrideByLast`), a
product that `Parses` has not wrapped in a word of any width, nor is it cut by the field it
sets (`ParsedValue`), and
normalizing what is normalized changes nothing (`NormalizedTwice`). `Resolving` is the
invariant.

## 5. Only model-checked

* Liveness (`EveryCallReturns`, `CancelledWaiterReturns`, `WaiterServed`,
  `ExpiredWaiterLeaves`, `EveryEvaluationReturns`, `EndsUnlessPanicked`): TLAPS does not
  prove properties that need fairness and `ENABLED`. The refinements are proved of the
  specifications without fairness, and promise nothing about progress.
* No property is left to TLC because of recursion: no module has a `RECURSIVE` operator,
  and `DataInduction` stands in for those of the library's induction theorems that take an
  operator as a parameter, which none of the provers can instantiate.
* The other way round, some theorems are of invariants that no run lists any more,
  because the theorem covers every instance: the type invariants, `InstancesBounded`,
  `EventMatchesReturn`, `StatsWithoutTrace`, `NoAdmissionAfterClose`, `ResolvedBounded`,
  `FirstErrorKept`, `OneAtATime` and `StaysInRoots`. TLC agreed with each of them before it
  was proved.

## 6. Where the code and its documentation disagree

* `adapter_panic`: `ImporterAdapter.Import` unlocks its mutex without a `defer`. An
  adapted importer that panics is recovered by `hostCall`, and its evaluation fails as
  it should, but every later import through the adapter waits for ever, past any
  deadline and holding a slot of its engine, although `README.md:395` makes the context's
  deadline "the wall-clock backstop for host callbacks and evaluation".
* `MCEngineEvents.cfg` (`EveryEvaluationObserved` of `Engine`): `observer.go:29`
  promises one `Evaluation` event per evaluation;
  calls refused by `EvaluateFile`'s own checks, or with a nil context, get none.
* `MCEngineStats.cfg` (`StatsAfterStatus` of `Engine`): `types.go:152` and `:183`
  promise statistics once the guest has
  reported a status, except for the fuel, memory and deadline backstops; when the
  trace is requested and cannot be read for another reason, there are none.
* `host_events`: an importer that panics is reported to the observer as an import
  that succeeded (`Err` nil), because the event is delivered by a deferred function
  that reads results not yet set.
* `MCWasmtimeHostCallsLate.cfg` (`DeadlineRechecked` of `WasmtimeHostCalls`): the Rust
  host's README says the deadline is rechecked around import
  and capability callbacks; a callback that fails after the deadline is reported
  with its own failure. `MapImporter`, which looks at the deadline itself, is such a
  callback.
* `importer_shadow`: a library path named like a search root gives their candidates one
  virtual path, and the search root is left out, although `README.md:326` and
  `importer.go:104` say that every declaration is searched. What the code does do is
  `SearchOrder`: of the files of one name only the first is looked for, and unless a
  library path *begins* with the name of a search root, no two candidates share a name
  and none is left out. A library path `v/k` is enough: beside a search root `v`, an
  import of `"../x"` from `v/a/x` has two candidates called `v/x`.

`Canceled` of the Rust host says "deadline exceeded" (`error.rs:31`), and `EarlyByATick`
says how far it may be from that: a guest can be interrupted up to one tick before its
deadline, because the ticks are counted from the middle of the tick under way.

Of these, `adapter_panic`, `host_events` and `importer_shadow` are runs of
`PROJECT.json`; the others can be repeated with the configuration named.

## 7. What is not modelled

* The Jsonnet evaluator, wazero and Wasmtime: external, as described above.
* The content of errors' messages, of logs, of usage texts, of JSON: no property is
  about them. Of `NewSlogObserver` nothing remains without them.
* `guest/embed.go`, the decompression of a build product, and the examples.
* The trace buffer of the guest, which cuts `std.trace` output at its limit.
* `FindDependencies`, the setters and the AST helpers of `compat/gojsonnet`.
* Of the command line: the single options of `parseArgs`, the names given to `-J`
  mounts (`searchOptions`), the policy file's unknown fields, the path arithmetic of
  `fileWorkspace`, a `-o` file inside the directory of `-m`, and a standard input that
  never ends, which an interrupt does not stop (`readBounded` looks at the context
  before it reads).
* A crash of the machine while the command writes. It never syncs (`cli.go:774-782`,
  `827`, `843`), so after one any of its writes may be lost: a file truncated may stay so
  although its manifest line did not survive. `Kill` is the death of the process alone, and
  `ListedBeforeWritten`, `UnchangedKept` and their theorems say nothing beyond it.
* A `NewEngine` whose context ends half-way: `EngineStartup` has the failure and its
  cleanup, not the `ABIError` in which the cancellation is wrapped.
* `Engine::new` of the Rust host.

## 8. Plan

What is left, in order of what matters most:

1. The guest's trace buffer, beside `SetGuestError` in `RequestPath`: what is kept of a
   trace that is cut at its limit.
2. `FindDependencies`, as a walk over imports that ends.
3. A proof that the evaluations of `WasmtimeEngine` keep a service of their own, as
   `EngineImplementsService` does for the Go host.
4. The names given to `-J` mounts (`searchOptions`), which decide whether the case of
   `importer_shadow` can arise on the command line.
