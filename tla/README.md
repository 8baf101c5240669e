# LayraPS4: models, checks and proofs

TLA+ modules that model the state-changing parts of LayraPS4 (`src/` in this
checkout is the whole repository, so the program's own sources are under
`src/src/`), TLC configurations that check them, and proofs that TLAPS checks.
The sources do not compile as they are (several files are cut off, underscores
and asterisks are missing in some headers); the models follow what the
statements say, and where two readings are possible the README says which one
was taken.

## 1. Inventory

| Part | Source | State | Operations | Hard behaviour |
|---|---|---|---|---|
| NpAuth request table | `core/libraries/np/np_auth.cpp` | `g_auth_requests`, `g_active_auth_requests`, `g_signed_in`, a mutex | create (sync/async), token calls (6 entry points), abort, wait, poll, delete, `RegisterLib` | guest threads in parallel; a check outside the lock; slot reuse; ids turned into indices |
| Application | `main.cpp` | resources, loop flag, event queue, swapchain, themes | start-up, event loop, boot and dashboard frame, cleanup | failure paths of the start-up; release order; GPU running behind; quit and resize at any time |
| NetUtil | `core/libraries/network/net_util.cpp` | Ethernet address, mutex, descriptors | `RetrieveEthernetAddr`, `GetEthernetAddr` | every system call may fail; unlocked readers |
| NetworkingCore | `core/networking/networking.cpp` | configuration, tunnel, initialised flag | `Init`, `Shutdown`, `UpdateConfig`, `ResolveHostname`, tunnel start/stop | long sequences of legal calls; configuration changed while names are resolved |
| System-call layer | `sys_net.cpp`, `net.cpp`, `posix_sockets.cpp`, `unix_sockets.cpp`, `p2p_sockets.cpp` | handle table (not in the repository), `neterrno`, the kernel error | connect, bind, accept, error translation | EINTR retry; a handle published before its socket |
| CPU, GPU, IO, memory | `cpuemulator.cpp`, ... | a register file, a byte array | `init`, `update`, ... | none: a few lines each, one thread |
| core, drivers, filesystem, graphics, input | the files of those names | none | empty stubs | none |

How they interact: the guest's threads call NpAuth, which takes its sign-in
state from the configuration once, at registration; NpAuth and NetUtil read the
networking mode (it chooses which token is written, and which gateway is
reported); `main` shares no state with the HLE libraries. The subsystems the
documents describe but the repository does not hold (PKG loader, VFS, XMB
profiles, Vulkan context) are not modelled.

What makes each part correct, in a sentence: *NpAuth*, one live request per id,
an exact counter, a decided request stays decided, the limit is kept, a request
reports its own outcome. *Application*, nothing is destroyed while used, a quit
ends the program, the picture follows the window, a chosen theme is shown.
*NetUtil*, an address is stored and read as a whole, a failed retrieval changes
nothing, no descriptor is lost. *NetworkingCore*, the tunnel runs exactly in LAN
play mode, and a name is answered as the configuration asks even while it
changes. *System-call layer*, every failure
is reported with its own error, and a handle is seen only when complete.

The list of hazards, line by line with the properties aimed at each, is
`hazards` in `PROJECT.json`.

## 2. Modules and how they correspond to the code

| Module | Models | Checked by |
|---|---|---|
| `NpAuth` | the request table, thread by thread | `np_concurrent`, `np_limit_race`, `np_stale_result` |
| `NpAuthService` | what the table promises: live ids and atomic calls | `np_refines` (NpAuth implements it) |
| `NpAuthProofs` | theorems about `NpAuth` | TLAPS |
| `AppMain` | `main()`, `ThemeManager`, the event queue, the GPU's outstanding frames | `app_lifecycle`, `app_themes` |
| `NpAuthRefinement` | the proof that `NpAuth` implements `NpAuthService` | TLAPS |
| `AppMainProofs` | theorems about `AppMain` | TLAPS |
| `NetUtil` | the cached Ethernet address | `netutil_retrieve`, `netutil_torn` |
| `AddressService` | what the cache promises: an address that changes at once, with a success | `netutil_retrieve` (NetUtil implements it) |
| `NetUtilProofs` | theorems about `NetUtil`, the refinement among them | TLAPS |
| `SysNet` | accept, bind and connect over the handle table, the error handler, the translation of errors | `sysnet_accept`, `sysnet_progress` |
| `AcceptService` | what accepting promises: a connection is given out once, under its own handle | `sysnet_accept` (SysNet implements it) |
| `SysNetProofs` | theorems about `SysNet`, the refinement among them | TLAPS |
| `Networking` | `NetworkingCore`, and `GetDefaultGateway` of NetUtil, which reads its mode | `networking_redirect`, `networking_gateway` |
| `ResolveService` | what resolving names promises: one answer to a call, explained by the configurations in force during it | `networking_redirect` (Networking implements it) |
| `NetworkingProofs` | theorems about `Networking` | TLAPS |
| `NetworkingRefinement` | the proof that `Networking` implements `ResolveService` | TLAPS |
| `MCNpAuth`, `MCAppMain`, `MCNetUtil`, `MCSysNet`, `MCNetworking` | the instances TLC checks | |

Definitions keep the source's names; `map` in `PROJECT.json` names the lines of
each. A definition commented as a *mutant* is not part of a specification: it is
a plausible mistake in the definition that follows it, and the property listed
with it in `PROJECT.json` fails when the one replaces the other.

### NpAuth

Every entry point that changes state is an action. A body under
`g_auth_request_mutex` is one step, because nothing that happens in it can be
seen from outside. `CreateNpAuthRequest` reads the counter before it locks, so a
creation is two steps, `BeginCreate` and `FinishCreate`, and other threads run
between them. The unlocked read is a data race in C++; it is taken as the single
32-bit load every build makes of it.

The vector is a sequence, the guest's id `index + OFFSET + 1` is `slot + Offset`.
`ReqIndex` and `Found` translate the lookup of every call with the width of an
s32: the index of a small id wraps around, and a negative one is rejected because
it is compared with an unsigned size. `GetAuthorizationCode` and `GetIdToken`
have the same body under the lock (`Serve`) and differ only in what they write
to the guest; the plain entry points also refuse while signed out. The
parameter structs are reduced to the four ways in which the checks see them.
Which token is written (zeroes, or the spoofed one from a file) is not
distinguished, and `sceNpAuthSetTimeout` does nothing.

`past`, `peak` and `overlapped` are history variables: no guard or update of the
library's own state reads them.

### AppMain

`Startup`, `Unwinding` and `Cleanup` are the three sequences of `main()`; one step
acquires or releases one resource. SDL, the window and Vulkan may fail, each with
what the code does about it: a return at once, or the two calls of the unwinding.
Five more calls may fail and `main()` does not notice (`Unchecked`): the descriptor
pool, the two ImGui backends, and the two steps of the boot sound, the buffer that
`SDL_LoadWAV` fills (`boot_wav`) and the device it is played on (`boot_sound`).
`SDL_Quit` closes the device, nothing frees the buffer, and the orbis stubs with an
init function alone have no call that takes them down (`NeverReleased`).

A statement that works on a resource that does not exist (`Needed` says which each
one works on) is undefined behaviour of SDL, Vulkan or ImGui: it may end the
process there (`Crash`) or go on. `UsedWhileAlive` says that only the five
unchecked calls can bring that about. Destroying a pool that was not created is
defined, and does nothing.

The loop has one step for each turn of `while (SDL_PollEvent)`, one for the frame
that ImGui builds and one for its submission. The window system may post an event
whenever the window exists, the clock may pass the end of the boot screen in any
loop step, and the GPU finishes frames in its own time. The Vulkan helper
functions are not in the repository: `layra_vulkan_render_frame` is taken to hand
a frame to the GPU when one of the `ImageCount` frames is free, and
`layra_vulkan_recreate_swapchain` to take the size the window has at that moment.

The theme vector is kept as the set of its names. It grows by two entries with
every dashboard frame, but entries of the same name are equal and the first match
is selected, so its length changes no choice.

### NetUtil

One step per system call of the POSIX branch, one for each half of the address
that `memcpy` writes and that a reader reads. Every system call may fail. The
descriptor that stays open when SIOCGIFCONF fails (`net_util.cpp:98`) is counted
by `listFailures`, so `FdAccounting` says both that this path leaks one and that
no other does; `LeakIsFinal` says where that ends: once every descriptor is gone,
the address stays as it is and no later retrieval succeeds.

`AddressService` is the register that a caller who goes by the result of
`RetrieveEthernetAddr` may rely on. The mapping takes the stored address when the
mutex is free and the one found at the lock when it is held, so the only step
that changes the abstract address is `Return`, and only with a success: the two
halves of the copy, a failed scan and every early return are stutters or `Fail`.

### SysNet

`sceNetAccept` hands `sysaccept` to `NetErrorHandler`, which repeats it while it
is interrupted and translates every other error. One step per thing another
thread can see: the lookup, the `Accept` of the socket, the new handle, and each
of the three assignments of `sys_net.cpp:92-94` that complete the file behind it.
`sysconnect` and `sysbind` differ only in the native call. The error location of
the kernel library and `sce_net_errno` are taken to belong to a thread, as
`neterrno` does (`net.cpp:35`).

Outside the source, and so modelled from their use: the handle table (a fresh
handle each time, `GetSocket` finds the files whose type is `Socket`), the native
sockets (a listener takes a waiting connection or blocks; a native call may fail
with any error), and the error numbers: the codes of `neterror.h` are taken to be
below 0x10000, so the branch of `net.cpp:67` for other ranges is not reached
with these sockets; nor is `net.cpp:78`, as no error of theirs is an `ENETINTR`. The errors of the long `switch` in `posix_sockets.cpp`, which
`unix_sockets.cpp` repeats, fall into those translated to their namesake and the
rest, which become `EINTERNAL`; `EINTR` and `ENOTSOCK` are kept apart because the
error handler treats them so. A guest is assumed not to guess the handle of an
accept that has not returned: with one it would reach a file without a socket.
No handle is ever closed, as the source has no close beyond the stubs.

`AcceptService` has the connections that arrived and the handles that were given;
the history variables of the same names are the mapping. A thread that has taken
a connection out of the listener, or a handle that is not complete, is not
visible there: the connection counts as waiting until `ReturnHandle`.

### Networking

One thread, the *owner*, calls `Init`, `Shutdown`, `UpdateConfig`, the two tunnel
functions and, at the end of the process, the destructor; guest threads call
`ResolveHostname` and `GetDefaultGateway` meanwhile. The repository has no caller
of the class: one owner is the use its singleton suggests. There is no lock, so
each read of a member of `current_config` is a step of its own (the test of
`spoof_psn`, the test of a server address, the second read that returns it), and
`current_config = new_config` is one step for each member that a guest reads, in
the order of the declaration. The order is that of the implicit assignment
operator; mode and relay are one step, because no guest call uses the relay.

A concurrent assignment to a string and a copy of it are a data race. Assigning a
string is two steps: in between a copy yields `Garbled`, and `empty()`, which
reads the size alone, says what it says of the old or of the new value. Assigning
the value a string already holds is not taken to disturb a reader: it writes the
same bytes and the same size. A race that crashes the process is not modelled.

Names are grouped by the games whose patterns they match; a name may match both
(the code tries EZFN first, and GTA V when there is no EZFN server). The tunnel is
the dummy handle of the code, with what it was started towards and whether it was
started without `Init`. `guest_ip` is never read and left out, and so are the four
`sceNet*` functions, which return constants. `GetDefaultGateway` calls
`getNetworkingConfig()` and `Mode::LANPlay`, which the header does not have; they
are read as the mode of `current_config` and `LAN_Play`. The specialisation of the
singleton in `networking.h:72` calls itself; the one in `networking.cpp:122` is
taken.

`byMode`, `installed` and `seen` are history: whether the tunnel is as the latest
change of mode left it, the latest complete configuration, and the configurations
in force during a call.

`ResolveService` knows a set of configurations in force, the old one alone or the
old and the new, and nothing of members, places in a function or half-copied
strings. A call has one answer, and the answer is what four reads lead to
(`spoof_psn`, the two emptiness tests, the address), each answered by some
configuration in force during the call, not necessarily the same one. The mapping
takes `installed` and `new_config` for the set: `UpdateConfig` adds, the last
assignment (`AssignLast`) settles, every other assignment and the tests of a call
are stutters, and `Return` is the answer. A `GetDefaultGateway` takes the place of
the answer in the guest's hands (`Forget`).

## 3. Runs

| Run | Instance | Shows |
|---|---|---|
| `np_concurrent` | 2 threads, limit 1, 2 slots, 4 ids (both slots', the offset, the smallest s32) | types; the counter is exact; slots are reused; the limit holds while creations do not overlap; a request is served at most once, is final once decided; a reported success of a completed request has a token behind it, and its failure is reported as what it was |
| `np_refines` | 1 thread, limit 2, 2 slots, 3 ids | every call is an atomic call of `NpAuthService` |
| `np_limit_race` | 2 threads, limit 1, 3 slots | **violation**: both creations pass the unlocked check |
| `np_stale_result` | 1 thread, limit 1, 2 slots | **violation**: a reused slot reports its previous request's error |
| `app_lifecycle` | 3 events, 3 frames in flight | nothing is used before or after its lifetime, but for what an unchecked call failed to make; nothing is released while something refers to it, in the cleanup or the unwinding, or while a frame is in flight; exactly what each exit leaves behind; no resize lost; a quit ends the program, in a number of steps known when it is posted |
| `app_themes` | 1 event, 2 frames in flight | **violation**: the chosen theme is never drawn |
| `netutil_retrieve` | 2 threads, 3 interfaces, 3 calls, 2 descriptors | only whole addresses are stored, a failure changes nothing, the cache implements `AddressService`, descriptors are accounted for, nothing succeeds once all have leaked, every call returns, in a number of steps known when it begins |
| `netutil_torn` | the same | **violation**: a reader sees half of each of two addresses |
| `sysnet_accept` | 2 threads, 2 connections, 4 handles (listener, stub and one for each connection), 1 interrupt, 3 native errors | no connection lost or doubled, no half-made handle given out, every failure reported by its own error; only an interrupt starts an accept again; `AcceptService` is implemented |
| `sysnet_progress` | 2 threads, 1 connection, 3 handles, 1 interrupt | no accept stays inside while a connection waits |
| `networking_redirect` | 1 guest thread, 4 names (of either game, of both, of none), 5 configurations | the tunnel follows the changes of mode, and survives neither a `Shutdown` of an initialised object nor the object; a name is answered as its configuration asks, and while configurations change never with another game's server, nor let through by a change from one server to another; `ResolveService` is implemented |
| `networking_gateway` | the same | **violation**: the gateway in LAN play mode is a reference to a temporary |

Why these bounds are enough. Two threads are all that a race between two calls
needs, and every pair of calls meets; a limit of one puts the table at, below
and (after the race) above its limit; two slots let one be reused while the
other is live and the vector grow after a reuse. `IntMax = 3` with
`Offset = 1` keeps the one inequality the code relies on (offset plus the largest
slot is an s32), and the smallest id then overflows as it does with 32 bits.
Three events allow a quit with a resize before and behind it; three frames are
`ImageCount`; each of the eight calls of the start-up that can fail may fail, the
unchecked ones in any combination. Three calls on two descriptors reach the state in which
leaked descriptors make every later call fail. Two connections let both threads
complete a handle at once, and let one thread accept through a handle the other
was given; one interrupt is enough to repeat an accept after the other thread
took its connection. In `networking_redirect` one guest is enough because guests
only read what the owner writes and never meet; the five configurations switch
the mode both ways, have each server absent, present and replaced by another, and
spoofing on and off, and any number of updates may overlap with a call.

Deadlock is checked in every run but those of `Networking`, where the object may
be destroyed and nothing follows. Threads are interchangeable in `np_concurrent`
and `np_limit_race`, and threads, connections and new handles in `sysnet_accept`
(safety only), which use symmetry.

Fairness. `NpAuth` needs none: no call of it waits, `WaitAsync` included, so it
states no liveness. `AppMain` assumes that the main thread keeps running and that
the GPU finishes what was submitted; it assumes nothing of the user or the clock,
but the number of events is bounded: an endless stream of events would keep
`main()` in its inner loop. `NetUtil` assumes that a thread inside
`RetrieveEthernetAddr` keeps running; with a bounded number of calls this is
enough for a lock that is not fair. `SysNet` assumes the same of a thread inside
`sceNetAccept`, and that a listener with a waiting connection hands one out; it
does not assume that an accept without a connection ever ends. The number of
interrupts is bounded (`MaxInterrupts`): the loop of `NetErrorHandler` has no end
of its own.

### Findings

1. The request limit can be exceeded (`np_auth.cpp:39`), and once it is, the
   equality test no longer refuses anything.
2. `WaitAsync` and `PollAsync` can report the error of a deleted request for a
   request that succeeded (`np_auth.cpp:50`).
3. A theme chosen in the menu is never drawn (`main.cpp:270`), against
   `docs/UI_UX_Design.md:42`.
4. `GetEthernetAddr` bypasses the mutex its class has for thread safety
   (`net_util.cpp:51`).
5. `GetDefaultGateway` returns a reference to a temporary string in LAN play mode
   (`net_util.cpp:129`).

Two things the runs show that no document speaks about, so they are not listed as
findings: after `Shutdown` in LAN play mode the mode stays `LAN_Play`, so neither
`Init` nor an `UpdateConfig` to LAN play starts the tunnel again (this is why
`TunnelFollowsMode` speaks of a tunnel that only changes of mode have touched);
and a tunnel that `UpdateConfig` starts without `Init` runs on through every
`Shutdown` without `Init` (`ShutdownStopsTunnel` says that no other does, and that
even this one ends with the object, through the handle that the destructor
destroys after its own `Shutdown`). Also, a name of both
games can be let through while one of its servers appears and the other disappears
in one update, which is why `RedirectKept` is about names of one game.

## 4. Proofs

Seven modules hold theorems; they are proved from the assumption on the constants
of the module they are about and nothing else.

### NpAuth

`NpAuthProofs` proves, for any set of threads, any limit, offset, width and bound
on the slots that satisfy `NpAuthAssumption`:

| Theorem | Statement |
|---|---|
| `TypeCorrect` | `Spec => []TypeOK` |
| `CounterExact` | `Spec => []ActiveCountExact` |
| `SlotsReused` | `Spec => []NoSlotLeak` |
| `LimitHolds` | `Spec => []LimitWithoutOverlap` |
| `ServedOnce` | `Spec => []ServedAtMostOnce` |
| `SuccessHasToken` | `Spec => []TokenBehindSuccess` |
| `FailureTold` | `Spec => []FailureReported` |
| `DecisionFinal` | `Spec => DecidedIsFinal` |

and `NpAuthRefinement` proves, under the same assumption,

| Theorem | Statement |
|---|---|
| `Implements` | `Spec => ServiceSpec` |

The inductive invariant is `Indexed == TypeOK /\ Counting`. The types alone are
not inductive: the counter stays natural only because it is exact (a delete finds
a live slot), and a new id stays an s32 only because the vector is no longer than
the bound, which follows from its length being the peak and from counting the
threads between their check and the lock. `Lookup` shows that the index
arithmetic, wrap-around included, finds exactly the live ids; the *shape* lemmas
reduce the calls to five kinds of step; one lemma per shape keeps the invariant.
`LimitHolds` adds `RoomForCreator`: without overlap at most one thread is between
its check and the lock, and there is room for its request.

`ServedOnce`, `SuccessHasToken` and `FailureTold` rest on a second layer, `History`: what is
recorded about the request in each slot agrees with its state (`Agree`), free
slots included, so that a reused slot starts with a request nobody has served.
The results themselves are stale in a reused slot (finding 2); the argument is
that a stale `OK` can only be reported once the request is Complete, and then it
was delivered, and that every failure of a request overwrites what was left in the
slot. Together the two say how far finding 2 goes: the only wrong report of a
Complete request is an error for a success. `DecisionFinal` needs only `Indexed` and the shapes.

`Implements` maps the live slots to the live requests by id. `MapRewrite`,
`MapFree` and `MapFresh` say what each shape does to the mapped function, and
there is one lemma per call that it is the action of the service with the same
name; the passed limit check is a stutter, the locked body is where a creation
takes effect. It needs one more invariant, `Unregistered`: no request exists
before the library is registered. The run `np_refines` checks the same statement
on a small instance with one thread, the theorem has it for all.

### NetUtil

| Theorem | Statement |
|---|---|
| `TypeCorrect` | `Spec => []TypeOK` |
| `StoredAsAWhole` | `Spec => []StoredWhole` |
| `OutcomeTold` | `Spec => []OutcomeMatchesStore` |
| `FdsCounted` | `Spec => []FdAccounting` |
| `LeakFinal` | `Spec => LeakIsFinal` |
| `RetrievalBounded` | `Spec => RetrievalEnds` |
| `Implements` | `Spec => AddressSpec` |

The inductive invariant is `TypeOK /\ Mutex /\ Content /\ FdAccounting`. `Mutex`
identifies the holder of the lock with the one thread between lock and return;
`Content` says at each of its statements what is in `etheraddress`, in terms of
what was there at the lock and what the scan found. The properties of the runs
look at the address only when the lock is free or about to be, which is not
enough to be inductive. `FdAccounting` needs `Mutex` no less: that a `close`
finds a descriptor to close is what keeps `openFds` natural.

`LeakFinal` needs one more invariant, `Exhausted`: when failed listings account
for every descriptor, no thread is at the copy or about to return with an address,
because the thread that holds the lock would need a descriptor of its own to be
there. `RetrievalBounded` is a rank, `StepsLeft`, that every step of a retrieval
lowers; only the scan needs the place in the list of interfaces.

### SysNet

| Theorem | Statement |
|---|---|
| `TypeCorrect` | `Spec => []TypeOK` |
| `NoneLost` | `Spec => []AcceptedOnce` |
| `HandleComplete` | `Spec => []GivenComplete` |
| `AnswerMatches` | `Spec => []AnswerMatchesCause` |
| `AcceptBounded` | `Spec => AcceptEnds` |
| `Implements` | `Spec => AcceptSpec` |

`IInv` adds to the types four parts. `Answers`: the error location holds the
translation of the cause whenever a thread is on its way to the error handler, so
that nothing an earlier call left there can be reported. `Handles`: each handle
under construction belongs to one thread and its file is as far as that thread is.
`Places` and `Counted`: a connection is in one place, as sets and as numbers
(`AcceptedOnce` states the numbers, and the sets make it inductive).
`AcceptBounded` is the rank of an accept: the places up to the return, and nine
more for every interrupt that may still come. Only an `EINTR` goes back to the
start, and it was paid for when the interrupt arrived: every failing step stores
its own error, so none is taken for an `EINTR` that an earlier call left behind.

### AppMain

| Theorem | Statement |
|---|---|
| `TypeCorrect` | `Spec => []TypeOK` |
| `NothingDestroyedInFlight` | `Spec => NoDestroyInFlight` |
| `ExitsReleased` | `Spec => []ExitReleases` |
| `ResizeKept` | `Spec => []NoResizeLost` |
| `ReleasedInOrder` | `Spec => ReleaseOrder` |
| `UsedAlive` | `Spec => []UsedWhileAlive` |
| `QuitBounded` | `Spec => QuitEnds` |

`IInv == TypeOK /\ Progress /\ Drawing /\ Resizing`. `Progress` says which
resources exist at each statement: those of the start-up so far, all of them, those
the unwinding or the cleanup has not come to, or those each way out leaves, without
the ones whose own call failed, which the code looks at or not. `Drawing` keeps
outstanding frames inside the loop, and `Resizing` extends `NoResizeLost` to the
start-up, from the moment the swapchain exists. The order of release
(`ReleasedInOrder`) and what each statement finds (`UsedAlive`) then follow from
comparing the three lists with what each resource depends on, entry by entry:
`Dependants`, `Foundations` and `Standing` are those comparisons.

`QuitBounded` says what is behind `QuitExits`: a quit is not lost, neither in the
queue nor as the flag, and `StepsLeft` falls with every step of the main thread
and rises with none. It counts the events queued and still to be posted, and the
statements to the end of `main()` with at most one more turn of the loop.

### Networking

| Theorem | Statement |
|---|---|
| `TypeCorrect` | `Spec => []TypeOK` |
| `TunnelMode` | `Spec => []TunnelFollowsMode` |
| `TunnelShutdown` | `Spec => []ShutdownStopsTunnel` |
| `AnswerSafe` | `Spec => []AnswerUnderUpdates` |
| `AnswerExact` | `Spec => []AnswerUnderOneConfig` |
| `NeverThrough` | `Spec => []RedirectKept` |

`Memory` says what `current_config` is at each point of an assignment: a mixture
of the old and the new configuration. `Calls` says of each place in
`ResolveHostname` which configurations in force account for what the call found:
one had spoofing on, one had no EZFN server if that was passed over, and so on,
not necessarily the same one. The three statements about answers are consequences:
with a single configuration in force the witnesses coincide (`AnswerExact`), and
when all of them redirect there is no witness for having let the name through
(`NeverThrough`). The proofs hold for any number of guests and of configurations,
where the runs have one guest and five configurations.

`NetworkingRefinement` proves

| Theorem | Statement |
|---|---|
| `Implements` | `Spec => ResolveSpec` |

`Calls` already holds the witnesses the abstract answer is made of: `NameAnswer`
and `AddressAnswer` turn them into a member of `Answers`, and `MemoryRead` shows
that what the last read finds in memory, garbled or not, is a `Read` of the
configurations of the call. The lemmas `OwnerService` and `GuestService` then go
through the actions. That a call without an overlapping update has one answer is
`AnswerExact`, about `Networking` itself.

### Only model-checked

The liveness properties `QuitExits`, `RetrieveReturns` and `AcceptNotStuck`, which
rest on fairness and are out of the prover's reach, and the violations. Every
other property of the passing runs is stated by a theorem. Of the liveness
properties the part that is a statement about steps is proved: the ranks
`QuitEnds`, `RetrievalEnds` and `AcceptEnds` fall with every step of the thread
that is to end. What they leave to TLC is that such a step is always enabled in
the end: that the GPU makes room, that the mutex is given back, that an accept
with a waiting connection comes out of its native call.

## 5. Plan

1. `NpAuth`, `NpAuthService`, `NpAuthProofs`: the core, and its counting proved
   (done).
2. `AppMain`, `NetUtil` (done).
3. `SysNet` (done).
4. Proofs of the rest of `NpAuth` and of its refinement (done).
5. `Networking`: the tunnel over arbitrary call sequences, hostname redirection
   while the configuration changes, the gateway (done).
6. Abstract specifications for `NetUtil` and `SysNet`, with refinements (done).
7. Proofs about `Networking`, `NetUtil`, `SysNet` and `AppMain` (done).
8. The safety core of the liveness properties as ranks, and `ResolveService` with
   its refinement (done).
9. Next proofs: the state in which a thread waits, as invariants without
   `ENABLED` (who holds the mutex is at a step that does not wait for it; a frame
   that waits for the GPU has one outstanding).
10. To follow the code: the relay a tunnel runs towards, once the tunnel is more
   than a dummy handle; closing of handles, once `sysclose` exists; the retrieval
   of gateway, netmask and address, once the functions are complete.

## 6. Not modelled, and why

- The CPU, GPU, IO and memory emulator classes: a few lines each. No instruction
  has an effect, the GPU and IO updates are empty, and `allocateMemory` is one
  expression without state (it does return the same memory for the same size).
- `core`, `drivers`, `filesystem`, `graphics`, `input`: empty stubs.
- The `sceNet*` stubs of `NetworkingCore`, the logging stubs of `net.cpp`, the
  remaining stubs of `P2PSocket`: constants, no state.
- Whatever is cut off in the source: `sys_getpeername` and the system calls behind
  it, the methods of the native sockets, `RetrieveDefaultGateway` and the getters
  after it, the Windows branch of `RetrieveEthernetAddr`.
- Drawing, layout and logging; which token NpAuth writes; the length of the theme
  vector.
- Everything the documents describe that is not in the repository.
