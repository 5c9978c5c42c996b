# Verification of tag_sim's network proactor

`tag_sim` is a prototype of an event-driven network layer in C. Its core is
`src/util/proactor_net*.c`: three back ends (epoll, kevent, IOCP) for an event
loop that waits for sockets, dispatches callbacks and can be woken and stopped
from other threads. The other files are small helpers. This directory holds
TLA+ models of the back ends, TLC configurations that check them on small
instances, and TLAPS proofs that hold for every instance.

Paths in this file are relative to the repository's `src/util/`.

## 1. Inventory

| Component | Files | State | Operations | Model |
|---|---|---|---|---|
| Event loop contract | `proactor_net.h` | running, stopped | run, stop | `EventLoop` |
| epoll back end (Linux) | `proactor_net_epoll.c` | epoll set, wake pipe, `stop`, `server_socket`, `client_socket`, callbacks, one `current_send_request` | init, cleanup, start_server, connect, send, set_*_callback, run, stop, wake, and the handlers of data, write and accept events | `EpollProactor`, `EpollProofs`, `MCEpoll`, `SendSlot` |
| kevent back end (Darwin) | `proactor_net_kevent.c` | a `proactor_t`: kernel queue, wake pipe, `stop`, status, event callback, list of sockets with buffer and callbacks | create, dispose, get_status, run, stop, wake, process_accept_ready, process_read_ready, process_write_ready; open, close and start_* are declared only | `KeventProactor`, `KeventProofs`, `MCKevent` |
| IOCP back end (Windows) | `proactor_net_iocp.c` | completion port, `stop`, two sockets, callbacks, overlapped operations in flight | as the epoll back end; stop posts nothing, wake is empty | `IocpProactor`, `IocpProofs` |
| Byte codec | `buf.h` | a buffer of the caller | encode and decode of 16, 32 and 64 bits, little endian | `Codec`, `CodecProofs`, `MCUtil` |
| Status codes | `status.h`, `status.c` | none | names, tests for warnings and errors | the values in `KeventProactor` |
| Debug log | `debug.h`, `debug.c` | the level | set and get the level, print, assert, dump | `DebugLog`, `DebugLogProofs`, `MCUtil` |
| Time | `time_utils.h`, `time_utils.c` | none | sleep, clock, `ptr_before` | `Clock`, `ClockProofs`, `DebugLog`, `MCUtil` |
| Platform shims | `shims.h`, `platform_check.h` | none | aliases of atomics, mutexes, threads | not modelled: nothing uses them |
| Build | `CMakeLists.txt`, `toolchains/` | none | selects the back end | not modelled |

**How the parts interact.** The application calls init / create, opens sockets,
sets callbacks and calls run, which owns its thread until stop. Inside run the
thread waits in the kernel, takes a *snapshot* of up to `MAX_EVENTS` or
`NUM_EVENTS` events, handles them one by one, and calls the application back;
callbacks call the API again (send, stop, wake). Other threads call stop and
wake, which share with the loop only the flag `stop` and the wake pipe. None
of it takes a lock. The sockets and the pipe are *blocking*.

**What is hard.** The order of flag, byte, test and wait between stop and run;
teardown while another thread is inside stop; a snapshot of events that ages
while callbacks and peers act; short and interrupted writes; a callback that
calls back into the object that called it; the single send slot shared by all
connections; blocking calls inside the only thread that could unblock them;
failed steps of creation; sockets that are freed while events, a tick loop or
dispose still point to them; buffers whose length field is both input and output.
`PROJECT.json` lists each of these hazards with its line and the properties
that watch it.

**What makes each part correct.**
 * Contract: run returns only after stop, and does return after it.
 * epoll: no stop is lost; no handler blocks on a stale event; a request's
   bytes go out in order, once, and completely before it counts as sent; the
   slot's request is not replaced; the epoll set watches exactly the open
   connections; data and requests make progress.
 * kevent: the same contract, also for a partly created proactor; the receive
   buffer always has room; close_cb of a receive means end of stream; ticks are
   not starved; an application that keeps some rules never has a freed socket
   read, and dispose frees all of the list.
 * send slot: while a request is in progress it is not replaced, also when
   several threads send.
 * helpers: what was encoded is decoded, in the order of the wire; warnings are
   always printed and dumps are complete; select is given the time asked for and
   a sleep that succeeded was long enough.
 * IOCP: what reaches the callback is in order and not repeated although
   receives overlap; operations do not multiply; a stop ends the loop at its
   next completion.

**State of the sources.** The back ends do not compile against the current
`proactor_net.h` (callback types with other arities, types that are no longer
declared, `accept` given a size for a pointer, `socket_to_handle` undefined).
The models follow the control flow as it is written. Lines 719-765 and 838-880
of `proactor_net_kevent.c` belong to an older design, are called by nothing and
use variables that no longer exist; they are not modelled.

## 2. Modules

`EventLoop` is the abstract specification: three Boolean variables, `Run`,
`Stop`, `Return`, `End`, and fairness of `Return`. Both back ends are shown to
implement it with `running <- pc \in RunStates`, `stopping <- stop`,
`ended <- pc = "exited"`.

`EpollProactor` models `proactor_net_epoll.c`. The loop's thread is a control
state machine over `pc`: `down`, `up` (application code outside run), the
states of run (`check`, `wait`, `dispatch`, `write`, `accepted`, `sent`) and the
callbacks (`accept_cb`, `receive_cb`, `sent_cb`), and `exited`. One action per
function or per stretch of it between two points where another actor can
interfere:

 * `proactor_tcp_epoll_stop` sets the flag, `wake_write` is the write of
   `proactor_tcp_epoll_wake`; between them the other actors go on;
 * `handle_accept_event` calls the callback, `accept_register` is what follows
   it; `handle_write_event` enters a blocking `write`, which hands over bytes
   one at a time (`write_byte`), and returns complete, cut short by a signal, or
   with an error; `free_request` is what follows the completion callback;
 * `run_check` tests the flag, `epoll_wait` takes the snapshot `batch`, `Take` /
   `Done` go through it, `HandlerOf` is the if-else chain of run.

A failed system call takes `handle_error`, which ends the process; `exit` keeps
the reason. Connections stand for their descriptors, bytes are counted; `out`
is a history of the positions written, `request.to` remembers the addressee
that the code drops. Calls that return without effect (a refused send) are
stuttering steps. `peer_*`, `Readiness` and `Ready` are the environment.

`KeventProactor` models lines 96-426 of `proactor_net_kevent.c` in the same
style. `proactor_net_create` may fail at each step and returns what it has,
with a status that `proactor_net_get_status` reads. Memory is modelled as far as
it is allocated and freed: `allocated` and `freed` hold the sockets and the
proactor object, `fds` the open descriptors, and a step that reads a freed
socket ends the process with the reason `use after free`.
`process_accept_ready` allocates a client, which gets a descriptor or, when
accept fails, none, and which nothing links.

`proactor_net_dispose` is a sequence that any caller in `Disposers` may execute,
up to `MaxDisposes` times, also while run is under way: stop and wake, the event
callback, then a walk along the list. `dispose_socket` reads the next pointer and
calls `close_cb`, `dispose_close_cb` is an application that closes its socket in
that call, `dispose_free` closes and frees it, `dispose_stale` is the walk at a
socket that something else has freed. Last come the read end of the pipe, the
write end and the queue, one step each (`dispose_fds`): a wake write that finds
the write end alone, or waits for room in a pipe that is closed, is ended by
SIGPIPE (`wake_broken_pipe`). As in the code, the list and the pointers keep
their values.

The tick loop starts at an uninitialised pointer, so `sock_ticks` chooses NULL,
any socket that is allocated or a fault. The socket functions that the header
declares and no file defines are external actions: open links a socket and sets
callbacks, start_* register filters with the socket as udata, as
`proactor_net_run` requires, and close unlinks, closes and frees it. What
callbacks do is a parameter: `LoopCalls` names the functions they call,
`OwnCloses` the callbacks in which they close the socket they are for, or one
that was not started. In the callbacks that dispose makes, the application closes
the socket or does nothing. Calls with a NULL proactor return at once and are
stuttering steps.

A closed socket may still have events in the batch, with a dangling `udata`
(`stale_event`). Only the read handlers look at the socket; `process_write_ready`
does not (`Touches`). `Disciplined` states the rules under which nothing freed is
read: in callbacks close only the socket of an event callback or one that was not
started, and not in the `close_cb` that dispose calls; dispose once, by the
thread that ran the loop and outside callbacks. A socket has at most a read and
a write event in a batch, so what is left of a socket that its own event callback
has closed is at most the write event.

`IocpProactor` models `proactor_net_iocp.c`. The kernel holds the sends and
receives in flight and the queue of completions; `send_ends` and `recv_ends` end
an operation, with or without a queued completion, because the code does not
initialise its OVERLAPPED. `GetQueuedCompletionStatus` takes the next completion,
`handle_data_event` posts a receive that completes at once (`received`) or later
(`pending`), `other_socket` is the completion whose key the loop does not know.
`started` counts the sends of the whole process, which `MaxSends` bounds, and
`InFlight` the operations of a connection wherever they are: with the kernel, in
the queue, or in the handler. Three parts of the file have no action: `handle_accept_event`, since nothing
posts an accept and so no completion has the listening socket as its key;
`handle_send_complete`, which nothing calls; and the empty wake. The callbacks
that only those would call are stored and not modelled.

`SendSlot` looks at one thing that `EpollProactor` takes for a single step: the
send slot, which `proactor_tcp_epoll_send` (lines 285-312) tests and fills field by
field through the global `current_send_request`, while `handle_write_event`
(lines 178-199) writes out and frees what the global points to. Threads other than
the loop's call send; each access is a step; a field that is not set yet is
`Garbage`; following a NULL or freed pointer ends the behaviour in `crashed`, a
failed allocation or registration in `exited`.

`Codec` models the six functions of `buf.h` on a buffer into which fields are
encoded at any place, over each other too; `fields` is the history of those that
were not overwritten. `Base` is the number of values of a byte. The decoders are
sums: the bits that the code joins with `|` do not overlap. `Weight(k)` is what a
shift by `k` bytes multiplies by, written out because the provers know no powers.

`DebugLog` models `debug.c`: the level, the filter of `debug_impl`, the assertion
`assert_error` of `debug.h`, which prints and ends the process, and
`debug_dump_ptr` row by row, with the limits of the row buffer
(`DebugAssumption` says that a row fits, as 300 characters do for 16 columns).
A byte is known by its address. `DumpComplete` ties each row's label and number of
bytes to the next row's label, and the last row's to the end of the range. `debug_dump_ptr` returns at once when
`level <= debug_level`, which is the opposite of what `debug_impl` tests; so do
the macros `warn_do` ... `flood_do`. The model follows the code.

`Clock` models `time_utils.c` on both platforms: the split of milliseconds into a
`timeval` with C's division towards 0, `select` with its three outcomes, `Sleep`,
and `util_time_ms` from seconds and microseconds or from the two words of a
FILETIME. `Kilo` stands for 1000. A negative duration gives `select` a negative
`timeval`, which `tv` records and `select` refuses. The model's clock counts from
1970; a FILETIME counts from 1601, `Since1601` microseconds earlier.

`MCUtil` puts the three helpers into one module; they share no state, and its
variable `part` lets each run alone, so that their state spaces add up and do
not multiply.

`MCEpoll` and `MCKevent` only name the sets of calls that callbacks may make (and `MCEpoll`
the symmetry of connections).
`EpollProofs`, `KeventProofs`, `IocpProofs`, `CodecProofs`, `DebugLogProofs` and
`ClockProofs` hold the theorems about the modules they are named after. Definitions marked
*mutant* in the modules are wrong variants of the definition that follows them;
no specification uses them. Substituting one must break the property it is
listed with in `PROJECT.json`.

## 3. Runs

| Run | Properties | Instance |
|---|---|---|
| `EpollSend` | `TypeOK`, `EventsStayReady`, `SendInOrderOnce`, `OpenIsWatched`, `RequestKept` | two connections (symmetric), requests of 0..2 bytes over buffers of 1, two events per wait, two init rounds, callbacks send and stop; about 2.8 million states |
| `EpollLive` | `NoLostStop`, `ImplementsEventLoop`, `WatchedDataDelivered`, `SendCompletes` | one thread, one connection, requests of 0..2 bytes, one event per wait over three descriptors, fair; about 82 000 states |
| `KeventSockets` | `NoUseAfterFree`, `DisposeComplete`, `CloseMeansEof` | a listener and a stream, opened or accepted, two events per call, callbacks open, start, stop and wake, event callbacks close, dispose after run; about 1.6 million states |
| `KeventLive` | `TypeOK`, `StatusTells`, `RoomUsable`, `ImplementsEventLoop`, `TickNotStarved`, `DataDelivered` | a UDP socket, datagrams of 0..2 bytes into a buffer of 2, callbacks start receives and sends and close the socket, a thread that stops, wakes and disposes, fair; about 230 000 states |
| `IocpLoop` | `TypeOK`, `DeliveredInOrder`, `InFlightBySends`, `StopAtNextCompletion`, `ReturnsOnlyAfterStop` | a thread, two connections, two sends, two bytes from each peer, fair; about 630 000 states |
| `Util` | `ReadBack`, `LittleEndian`, `LogTypeOK`, `NeverMuted`, `DumpComplete`, `ClockTypeOK`, `SleptLongEnough`, `WholeMilliseconds` | a buffer of 8 bytes of base 2; two threads, rows of 2 columns in the smallest row buffer, dumps of up to 5 bytes; `Kilo` = 3, sleeps of -4..4 ms; about 115 000 states |

Runs that *refute* what a comment of the code says (each is a finding in
`PROJECT.json`):

| Run | Property | What happens |
|---|---|---|
| `EpollDisconnect` | `DisconnectSurvived` | close before `EPOLL_CTL_DEL`: every disconnect of a connection that is watched for `EPOLLIN` exits the process |
| `EpollDataAfterSend` | `OpenDataDelivered` | send sets the mask to `EPOLLOUT`; later data is never read |
| `EpollMisroute` | `SentToAddressee` | the one request goes to whichever socket is writable |
| `EpollStopCleanup` | `StopSurvived` | cleanup closes the pipe between a stop's flag and its wake write, which fails and exits; the shortest trace calls cleanup without run, and a run that has returned leads to the same |
| `KeventTick` | `SocketsTicked` | the tick loop's pointer is uninitialised |
| `SlotRace` | `OneRequestInProgress` | two threads find the slot empty; the second replaces a request that was accepted |

Two more findings come from passing runs, whose property says what the code does
where a comment says more. `DisposeComplete`: what is left allocated after dispose
is the proactor and the accepted clients, although line 164 says "Clean up all
resources." `WholeMilliseconds`: on Windows `util_time_ms` counts from 1601,
although line 77 of `time_utils.c` says "the current epoch time". Both are also
proved.

**Bounds.** `PipeCap`, `RcvBuf`, `SndBuf`, `BUFFER_SIZE`, `BufferSize`, `MAX_EVENTS`
and `NUM_EVENTS` are the program's and the kernel's sizes, taken small: 1 and 2
make *full*, *empty*, *does not fit* and *one more than fits* all happen.
`EpollLive` takes one event per wait, so that the wake pipe, the listener and the
connection compete for it. `MaxLength` (request length), `MaxDatagram`, `MaxBytes`,
`MaxSends`, `MaxInits` and `MaxDisposes` bound the inputs, `MaxAddress`, `MaxMs` and `MaxNow` those of the helpers. Two
connections suffice to have the slot and the snapshot shared; one thread to have
its stop overtaken by the loop (`StopNotLost` proves it for any number). With
base 2 the codec's buffer takes all its values, and widths and positions are
those of the code; with `Kilo` = 3 sleeps and clock pass a second. The theorems of section 4 lift these bounds for
every invariant and action property of the passing runs. The applications may stop using the
system at any time, so the runs do not look for deadlock; that the loop does
not hang is stated as liveness.

**Fairness.** `FairSpec` assumes of the code that the loop's thread is scheduled
(weak fairness of `LoopStep`), of the application that callbacks return after
finitely many calls (strong fairness of `callback_return`, since a callback may
go on calling the API), of the kernel that a blocked pipe write proceeds once
there is room, that signals do not interrupt *every* wait, write or receive
(strong fairness of `epoll_wait`, `write_byte`, `kevent`, `process_read_ready`;
the code retries without a limit). For IOCP only the loop and its callbacks are
fair: operations may stay in flight for ever. The epoll `FairSpec` also assumes
that peers read (`PeerFairness`) and that the kernel takes ready descriptors in
turn, as epoll's ready list does: one that is ready again and again is in a
snapshot again and again. Without that TLC refutes `WatchedDataDelivered`. Nothing obliges an application to call anything.

**Limits that the passing runs respect.** `EpollLive` depends on two of its
assumptions. Its callbacks do not call stop or wake: with "stop" in `LoopCalls`
TLC finds a callback whose stop blocks on a full wake pipe that only its own
thread could empty. Its peers read: without `PeerFairness` TLC finds the loop
held for ever in the blocking write of `handle_write_event`, blind to stop. The
models also show what the code does and its comments do not speak of: accepted
connections are `leaked` at cleanup (the local `client_socket` of
`handle_accept_event` shadows the static one), a second init / cleanup round
frees the send request again (`exit = "double free"`), and an empty datagram
reaches `close_cb` of a UDP socket. Without the rules of `Disciplined` the kevent
models reach `exit = "use after free"`: by a dispose of another thread while the
loop runs, by a second dispose, by a callback that closes another started socket,
by a tick callback that closes its own, and by a `close_cb` that closes its
socket, as it has to after an end of stream, when it is dispose that calls it.
They also reach `exit = "SIGPIPE"`. A
Windows loop without a completion never sees a stop, which is why
`StopAtNextCompletion` speaks of a completion in the queue, and the data of a
receive that does not complete at once is dropped. `KeventLive` includes
proactors whose queue or pipe could not be created: there the tick period ends
the wait. `NoUseAfterFree` and `DisposeComplete` have the rules as their premise:
`KeventSockets` keeps them, `KeventLive` does not. `CloseMeansEof`
speaks of the call of `process_read_ready` only; dispose calls `close_cb` of
open streams too. In `SendSlot` the loop also meets a request that is published
and not filled yet (`crashed`), already with one sender.

## 4. Proofs

Every invariant and every action property of the passing runs is a theorem, for
all values of the constants that the module's named assumption admits. The
assumptions (`EpollAssumption`, `KeventAssumption`, `IocpAssumption`,
`CodecAssumption`, `DebugAssumption`, `ClockAssumption`) say that sizes are
positive, that names for different things differ, and, for `DebugLog`, that the
row buffer takes a full row. TLC evaluates them in every run.

| Module | Theorem | Statement |
|---|---|---|
| `EpollProofs` | `TypeCorrect` | `Spec => []TypeOK` |
| | `StopNotLost` | `Spec => []NoLostStop` |
| | `SentInOrderOnce` | `Spec => []SendInOrderOnce` |
| | `RequestNotReplaced` | `Spec => RequestKept` |
| | `OpenConnectionsWatched` | `Spec => []OpenIsWatched` |
| | `NoStaleEvent` | `Spec => []EventsStayReady` |
| | `RunReturnsOnlyAfterStop` | `Spec => EL!Safety` |
| `KeventProofs` | `TypeCorrect` | `Spec => []TypeOK` |
| | `DisposeIsComplete` | `Spec => []DisposeComplete` |
| | `StatusIsTrue` | `Spec => []StatusTells` |
| | `RoomIsUsable` | `Spec => []RoomUsable` |
| | `NothingFreedIsRead` | `Spec => []NoUseAfterFree` |
| | `CloseIsEof` | `Spec => []CloseMeansEof` |
| | `RunReturnsOnlyAfterStop` | `Spec => EL!Safety` |
| `IocpProofs` | `TypeCorrect` | `Spec => []TypeOK` |
| | `OperationsDescendFromSends` | `Spec => []InFlightBySends` |
| | `ReceivedInOrder` | `Spec => []DeliveredInOrder` |
| | `RunReturnsOnlyAfterStop` | `Spec => ReturnsOnlyAfterStop` |
| `CodecProofs` | `DecodesWhatWasEncoded` | `CodecSpec => []ReadBack` |
| | `BytesAreLittleEndian` | `CodecSpec => []LittleEndian` |
| `DebugLogProofs` | `LogTypeCorrect` | `LogSpec => []LogTypeOK` |
| | `WarningsAreHeard` | `LogSpec => []NeverMuted` |
| | `DumpsAreComplete` | `LogSpec => []DumpComplete` |
| `ClockProofs` | `ClockTypeCorrect` | `ClockSpec => []ClockTypeOK` |
| | `SleepsLongEnough` | `ClockSpec => []SleptLongEnough` |
| | `CountsMilliseconds` | `ClockSpec => []WholeMilliseconds` |

**epoll.** `TypeOK` and `NoLostStop` are inductive (the second relative to the
first): a caller that has set the flag keeps `calling[t] = "stop"` until its byte
is in the pipe, and only the loop, which is then not waiting, takes bytes out. The
loop's own stop calls are excluded in `wait`, hence the quantifier over `Threads`.
`SendInOrderOnce` and `RequestKept` need `SlotInv`: in `write` the slot is live
and `wrote` does not exceed what is left of the request; outside it `wrote` is 0;
in `sent_cb` and `sent` the offset equals the length. Without it a completion
callback could meet a request that is not complete.
`OpenIsWatched` needs `WatchInv`: between accept and registration the
connection is open, is `cur` and is not registered.
`EventsStayReady` needs `BatchInv`: outside `dispatch` and the handlers the
batch is empty, the descriptor being handled is not in it, and what is in it is
registered. The argument: each kind of readiness can only be taken away by the
loop's own handler of that descriptor, and the handler's event has left the
batch (`DoneTakesOut`); peers, threads and kernel only add readiness (`ReadyKept`,
`ReadyFrame`).

**kevent.** The lemma `Movers` says once which steps change which group of
variables; the other proofs look only at those. `TypeOK` is inductive together
with `WalkAt` (the walk of dispose frees a socket, not NULL). `MemInv` says that
the list has no duplicates and holds allocated sockets, and that what is open or
registered is allocated and not freed. `DisposeComplete` needs `WalkInv`, under
the rules and hence with one disposer (`RulesInv`): before the walk no linked
socket is freed; during it exactly those before `dispose_cur` are, and
`dispose_next` is the one that follows; after it all are. `NoUseAfterFree` needs in
addition `StaleInv`: a freed socket that still has an event in the batch has only
a write event there, and the socket of a tick is not freed while it is ticked.
That rests on `BatchInv`: an event of a socket that lives is one it is registered
for, so that a socket which was not started has none. `CloseMeansEof` follows from
two of these invariants and not from the type: a count of 0 could come from a
buffer without room (`RoomUsable` rules it out) or from a socket that has nothing
to read (`BatchInv`).

**IOCP.** `InFlightBySends` counts operations that move between the kernel, the
queue and the handler. Its induction rests on how appending to the queue and
taking its head change the number of a connection's completions, and on
`AcceptedCounted`; `TypeOK` follows from it, because the bound on the queue is the
number of sends. `DeliveredInOrder` is inductive because it also says
that everything delivered lies within what was taken: what a receive takes next
lies after it (`PositionsFollow`), and `taken` only grows (`TakenGrows`).

**Codec.** `CodecInv` says that each cell of a field that was not overwritten
holds its byte of the value. The rest is arithmetic for an arbitrary base: a
quotient by a product is two quotients (`DivTwice`), so that the value left after
`k` shifts is `Base` times the next plus a byte (`RestStep`); the sums of
the decoders telescope, and nothing is left of a value that fits (`NothingLeft`).

**Debug log.** `NeverMuted` needs only that the level is within its clamp.
`DumpComplete` needs `DumpInv`: after `row` rows all are full but perhaps the last,
and the next byte is the one after them; `MaxRowBounds` is the rounding up of the
number of rows, `RowColumns` that both limits of the inner loop give the
same count.

**Clock.** `ClockInv` adds that while `select` waits its end is at least `ms`
milliseconds after the time that was read before; `PosixMilliseconds` and
`WindowsMilliseconds` show that both ways to put the clock together divide alike,
each from its own origin; `TimevalMirrored` that the `timeval` of a negative time
is that of the positive one with both signs turned.

**Event loop.** The three `RunReturnsOnlyAfterStop` are the safety half of the
refinement: each action maps to `Run`, `Stop`, `Return`, `End` or a stutter. The
kevent one needs `NotStoppedEarly`: no stop before create.

**Only model-checked**: the liveness properties, since fairness and ENABLED are
out of the proof system's reach: the fairness half of `ImplementsEventLoop`
(`EpollLive`, `KeventLive`), `WatchedDataDelivered`, `SendCompletes`,
`TickNotStarved`, `DataDelivered` and `StopAtNextCompletion`. The runs that refute
a comment stay with TLC too.

## 5. Not modelled

 * descriptor numbers that the kernel gives again after a close, and a second
   listener on another port;
 * several threads inside run; in `EpollProactor`, send from a thread other than
   the loop's (`SendSlot` has it);
 * events that carry only `EPOLLERR` or `EPOLLHUP` (run ignores them);
 * values of bytes on the network, addresses, status texts, the wording of log
   lines; that the three `fprintf` calls of one message may mix with another
   thread's;
 * `status_is_warning` and `status_is_error`, which test for 1000 and 2000 while
   the enumeration ends at 18, so that both are always false: nothing calls them;
 * the shims, which nothing uses. Their two variants differ: on Windows
   `atomic_fetch_add` gives the new value, `atomic_compare_exchange_strong` does
   not update `expected`, and `THREAD_CREATE` assigns the result of a comparison
   to the thread, so that `THREAD_JOIN` has no handle to wait for;
 * in `proactor_net_kevent.c`, `handle_data_event` and three setters of the older
   design; in `proactor_net_iocp.c`, what is unreachable (section 2);
 * the components marked so in section 1.

## 6. Plan

Done: `EventLoop`, `EpollProactor`, `KeventProactor`, `IocpProactor`, `SendSlot`,
`Codec`, `DebugLog`, `Clock`, and the proofs of all safety properties that the
passing runs check.

 1. What does hold of `SendSlot`: with a single sending thread the slot is never
    replaced, and a request whose fields are all set is sent as it was given.
 2. Safety facts that the liveness arguments rest on, as theorems: for kevent, a
    stop that finds the loop waiting has its byte in the pipe or a tick period to
    end the wait; for IOCP, that after stop no second completion is taken.
