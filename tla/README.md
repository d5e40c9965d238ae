# TLA+ models of tcp-epoll

tcp-epoll is a C++ library that gives an application TCP and UDP *links*, named by integer handles, and reports what
happens to them through a callback. The TCP half and the UDP half are separate libraries built the same way: a map of
links under one mutex, one worker thread around an edge-triggered epoll set, and calls that any application thread may
make. With it come two TCP samples, a server and a client that exchange packets over it, and a UDP client. There is no
documentation beside the headers and there are no tests, so the claims checked here come from
`src/include/ms-epoll-tcp.h`, `src/include/ms-epoll-udp.h` and the code itself.

## The system

| Part | State it keeps | Operations | Model |
| --- | --- | --- | --- |
| TCP links (`tcp-link.cpp`, `ms-epoll-tcp.cpp`) | `m_maplink`, the link objects (`mi_socket`, `mh_link`, type), `g_ms_tcp_first_create_link` | `ms_tcp_create`, `connect`, `listen`, `send`, `destroy`; accept, read, connected, disconnected | `TcpLink`, over `Sockets` |
| TCP worker (`ms-epoll.cpp`) | the epoll set, the current batch, the keepalive counter | `epoll_wait`, keepalive, dispatch | `TcpLink` |
| UDP links (`udp-link.cpp`, `ms-epoll-udp.cpp`) | `m_maplink`, `mi_socket`, `m_send_buff_list`, `mb_send_flag` | `ms_udp_create`, `send_to`, `destroy`; `do_send_buff`, `on_event_read` | `UdpLink` |
| UDP worker (`udp-ms-epoll.cpp`) | the epoll set, the batch | `epoll_wait`, dispatch, flush | `UdpLink` |
| Start and stop (`ms-epoll.cpp`, `udp-ms-epoll.cpp`) | the `MsEpoll` object, two threads, `mb_exit_thread` or an eventfd | `init`, `end`, `free_all_link_map` | `Lifecycle` |
| Singleton (`singletonHandler.h`) | `m_pInstance` | `Instance`, `Release` | one step each in `Lifecycle` |
| Reference counts (`Guard.h`) | the count of each object | copy, erase, release | `LinkMgr` (handlers) |
| Task threads of the samples (`thread-queue.h`, `task-queue.h`, `timer-queue.cpp`, `task-thread.cpp`) | task queue, timers, threads, exit flag | `begin`, `end`, `post_task`, `post_front_task`, `set_timer`, `kill_timer`, `do_while` | `TaskThread` |
| Packet codec (`net-packet.h`, `net-memory-io-base.h`, `ms_endian.h`) | - | `write_packet`, `read_packet` | `Packet` |
| Framing (`comm-func.h`, the scan in `link-mgr.h`) | - | `parse_data`, `parse_packet` | `Framing` |
| Server sample (`link-mgr.h`, `net-handler.h`, `link-hdr.h`) | `m_link_map`, `m_recv_buf_old_map`, `m_recv_buf_map`, the handlers | link callbacks, `do_post_recv_buff`, `handle_recv_buff`, `Init`, `UnInit` | `LinkMgr` |
| Client sample (`test-client.cpp`) | `mh_tcpLink`, `mv_recv_buf_old`, `mv_recv_buf` | `Init`, callbacks, `handle_recv_data`; requests and answers | `TestClient` |
| UDP client sample, `old/` copies, log library | - | - | not modelled |

How the parts interact. An application thread calls `ms_tcp_*`; the call looks the handle up under `m_link_lock`,
releases the lock and goes on with a counted pointer to the link. The worker does the same for each event of a batch,
the handle being what `epoll_ctl` stored with the descriptor. From `find_link` on nothing is locked: two threads and
the worker may be anywhere in `link_destroy`, `link_send_data` or `on_event_read` of one link, load `mi_socket` and
pass the number to a system call after somebody has closed it, and the kernel gives closed numbers out again at once.
Callbacks run on whatever thread is there, without a lock. In the samples a callback only appends what was read to a
buffer and posts a semaphore; a thread of the sample takes it from there, cuts it into packets and calls a handler,
which may call the library again. So three threads meet in the map of handlers. The sets are `EPOLLET`: what a handler
leaves unread is not reported again until something new arrives.

What makes that hard, and what the properties are about: interleavings of calls on one link; descriptor reuse; handles
that are gone while an event or a global variable still names them; the order of callbacks; edges that are consumed
and not acted on; failing system calls half-way through a handler; the flag that stands for "some buffer is not
empty"; signals that are sent after the unlock and may wake the wrong thread; a stream that is cut in the middle of a
header; a handler whose link ends while it is called; starting and stopping threads. `PROJECT.json` lists each hazard
at its line.

## The modules

**`Sockets`** is the kernel as the TCP code uses it: a table of descriptors with the socket behind each (its state,
what is unread or in the backlog, its epoll tag and whether an edge is pending) and the calls on it. `owner` remembers
the link for which a socket was opened; the code does not see it. Closing a socket frees its number, and `Fresh` may
hand out any free number.

**`TcpLink`** is the library. `find_link`, `add_tcp_link` and `del_link` are single steps, since `m_link_lock` covers
them; everything after them is one step for each access to a field, each system call and each callback.
`link_destroy`, for example, is `DestroyCheckFirst`, `DestroyClearFirst`, `DelLink`, `DestroyCheckSocket`,
`DestroyClose`, `DestroySendClosed` and `DestroyForget`. When a step passes `mi_socket` to a system call, the thread
may have loaded it at its previous step or now (`Reach`, `Loaded`): that is the data race of the code, as a choice.
The history variable `seen` holds the callbacks made for each handle and `robbed` the links whose socket was closed by
a call on another link (`Close`), which is what the second of two destroys of one handle may do. Variants such as
`DelLinkKeeps` are the definitions a mutation replaces.

**`LinkTable`** is what an application may rely on of handles: registered, announced (CREATED or ACCEPTED),
unregistered, never used again, and CLOSED said only of a handle that is gone. `TcpLink!Table` maps the library to it:
a handle's phase is computed from `i_link`, `m_maplink` and what was said of it.

**`UdpLink`** is the UDP library. Its links are destroyed by `shutdown` without `close`, so numbers are not used again
and a link stands for its socket. `on_event_read` is three steps without a lock, the load of `mi_socket` (`Recv`),
`recvfrom` on the number loaded (`RecvFrom`) and the callback (`SendRecvData`), and a whole `link_destroy` fits
between them; `ms_udp_create` puts the socket into the epoll set (`Attach`) before it says CREATED (`SendCreated`).
`m_link_lock` is held by the worker over the whole of `do_send_buff`, and each link's `mo_send_buff_list_lock` inside;
`LinkLocked` and `BuffLocked` read who holds them off the program counters. `NonBlocking` needs a word. `link_create`
leaves the socket blocking, so on Linux a `sendto` with no room waits and `EAGAIN` never comes: the buffer, the flag
and `do_send_buff` are reached but never have anything to do. Runs with `NonBlocking = FALSE` are that program. Runs
with `NonBlocking = TRUE` check the buffering code on the condition it is written for; what they show is conditional
on it, and no finding rests on it.

**`Lifecycle`** is `init` and `end` of both libraries (`Libs` says which are looked at, each by itself), with threads
as records that are spawned, begin at some later time and end, and creations that may fail at any point. Here the
worker only registers links.

**`TaskThread`** is the samples' pool of threads. A pool thread keeps the mutex from getting it until it waits, runs a
callback or leaves, so one step of the model is one such stretch of `do_while`: `Start`, `Wake`, `TimerDone`,
`TaskDone` are the places where it gets the mutex, and `Loop`, `DoOneTimer`, `DoOneTask` what it then does.
`post_task` and `set_timer` unlock before they signal, so the signal is a step of its own (`Signal`, owed by the
caller until then), and so is the broadcast of `notify_exit`. A wait has the deadline it was given, may be signalled,
time out or end for no reason. Callbacks call as the application does. An interval of 0 makes the loop spin and is
excluded by `PoolAssumption`.

**`Packet`** is the codec and **`Framing`** the scan that finds packets in a stream. A cell stands for a byte where
the code can cut a stream: the magic number is two cells so that it can be cut in two, a `UINT32` one, a `UINT64` two
so that its order shows. Everything the code does with sizes is there: strings go with their length, maps with their
count, `total_len` is written over the packed bytes at the end and believed by the reader, a map ignores reads that
fail (`MapAt`), and `memcmp` reads beyond the last byte of a buffer, where it may find anything (`IsMagic`, `lucky`).

**`LinkMgr`** is the server sample: the library's worker in its callbacks, the thread in `handle_recv_buff` and the
owner in `Init`, `UnInit` and `ms_tcp_uninit`. Instead of `TcpLink` it has what `LinkTable` promises of it: a handle
is registered before ACCEPTED names it, leaves the registry once, and CLOSED comes after that. `on_event_accept` is
`Accept` (`add_tcp_link`), `Attach` and, once ACCEPTED is said, `LinkCreate`; where `epoll_ctl` fails it ends after
`Attach`, and the link stays registered, unannounced, until `ms_tcp_uninit` frees it. `Read` and `Receive` are a read
and its callback, between which another thread may end the link. `link_remove` is two steps around its unlock
(`Remove`, then `Hook` and `Release`), `link_recv_data` three (`Find`, `Recv`, `DropRef`); `refs` counts the pointers
to a handler as `CRefCountPtr` does. What a peer sends, and how it is cut into reads, is a parameter (`Streams`), as
packets and as cells.

**`TestClient`** is the client with a server that answers as `TestClientHandle` does: the application's thread in
`Init` and the requests, the worker in its callbacks, the thread in `handle_recv_data`. Both directions use `Packet`,
and the worker reads what the server sent in pieces of any size; it compares the handle (`Receive`) before it appends
under the lock (`Store`). A request goes out only as long as the handle is the link's and the link is open. `main`
sends version requests only (the call of `do_link_auth_req` is commented out, `test-client.cpp:1053`); `Requests` may
name both kinds, and the instance sends one of each.

`DataStatus` needs a word too. `on_event_read` hands on what it has read with `STATUS_RECV_MIDDLE` and says
`STATUS_RECV_END` with nothing (`tcp-link.cpp:424`, `:430`), while `TcpIOCallbackFunc` of both samples passes on data
with END only (`net-handler.h:51`). So the samples of this commit, built with this library, get no data: run
`client_no_data`. The samples are written for a library that hands on data with END (the call still stands in a
comment, `tcp-link.cpp:429`), and all they do with data is checked for that one: `DataStatus = "STATUS_RECV_END"` in
`link_mgr` and `client`. What does not depend on data (counts, map, `UnInit`, the stale handle) holds for both.

The modules ending in **`_proofs`** hold the proofs, those beginning with **`MC`** give TLC its instances.

## The runs

Passing runs:

| Run | Asks | Properties |
| --- | --- | --- |
| `server` | one thread creates, listens, connects, sends and destroys beside the worker; peers dial, answer, send and leave; two descriptors for three links | `OwnSocketOnly`, `NoStaleDescriptor` |
| `destroy` | one thread creates and listens, another destroys, `epoll_ctl` may fail, a keepalive every second round | `NoSocketLost`, `ClosedIsGone`, `ImplementsLinkTable` |
| `any_call` | one thread makes every call, repeated ones included, on every handle it knows | `TypeOK`, `NoSocketLost`, `AnnouncedFirst`, `DisconnectedIsDown` |
| `served` | liveness of the edge-triggered worker, with the first link kept | `PendingIsServed` |
| `udp_link` | two threads send on and destroy one link whose socket is full: flag, order, and the two locks | `TypeOK`, `FlagCoversBuffer`, `QueuedInOrder`, `CallsReturn` |
| `udp_read` | blocking sockets: reads, edges and destruction | `OneReadAfterClosed`, `EdgeIsRead` |
| `uninit` | two rounds of init and uninit of either library, with failing creations | `TypeOK`, `ThreadsHaveTheirObject`, `NothingLeft`, `UninitReturns` |
| `task_threads` | two pool threads, a caller, callbacks that call, tasks in front and behind, a timer set, killed and set again, `end` at any moment | `TypeOK`, `NoLostWakeup`, `TasksInOrder`, `NoDrift`, `PostedIsTaken`, `DueIsRun`, `EndReturns` |
| `link_mgr` | two links whose peers send packets and junk, cut where it hurts; each ended by peer, handler or `UnInit` | `TypeOK`, `RefsArePointers`, `HandlersLive`, `MapFollowsLibrary`, `PacketsInOrder`, `AtMostOneLate`, `NoHandlerLeft`, `Delivered`, `UnInitReturns` |
| `client` | two requests, their answers cut anywhere, a link that ends at any moment, CLOSED before `set_link` included | `TypeOK`, `AnswersInOrder`, `HandleForgotten`, `Answered` |

Runs that find a disagreement between the code and what is said of it:

| Run | What TLC shows |
| --- | --- |
| `first_link` | A keepalive whose first link is gone `continue`s past the loop over the events just taken (`ms-epoll.cpp:110`). |
| `client_no_data` | The library says MIDDLE of data, the samples wait for END: no answer is ever acted on (`tcp-link.cpp:424`, `net-handler.h:51`). |

The races on `mi_socket` are in run `server`, and they do happen there. The application and the worker destroy one
link, both pass the test of `mi_socket`, and the second `close` hits a number that is another link's by then
(`tcp-link.cpp:333`); a send, a read or an accept goes out on such a number (`:471`, `:401`, `:349`). That this never
happens is therefore not what the properties say. `OwnSocketOnly` says when it cannot: as long as the socket of a link
is open, every thread about to make a system call for the link has loaded this socket's number, so that only a call on
a link that somebody has already closed goes astray. `NoStaleDescriptor` says what is left behind: a link at rest with
a foreign or closed number is one whose socket such a close has hit (`robbed`).

Two more disagreements show when the assumption that keeps them out of a passing run is dropped; each is a run away.

- `uninit` assumes `Patient`, that `ms_tcp_uninit` is not called before the worker is in its loop. With `Patient =
  FALSE` and the TCP library `UninitReturns` fails: `end` sets `mb_exit_thread`, the worker starts and sets it back,
  and the join never returns (`ms-epoll.cpp:103`). `ms_udp_uninit` does not need the assumption.
- `EdgeIsRead` says that an edge is answered by a read, and not that everything that came is read: there is one
  `recvfrom` for each edge, so of two datagrams that come together one stays until the next edge (`udp-link.cpp:349`).

`PendingIsServed` is checked in `served` for listening and accepted links only, because it is not true of a link that
connects: data that arrived by the time the connect completes comes with the edge of the completion, and
`on_event_connected` reads nothing (`ms-epoll.cpp:150`), so it waits for the next segment. To see it, give
`MCTcpLinkServed.cfg` `App = {a1}`, the calls of `MCCallsServer` and the peer act `"answer"`. After CLOSED a UDP link
may still report the one datagram whose read had begun (`OneReadAfterClosed`), and before CREATED one that came at
once. Three more places need no interleaving and have no run: `EPOLLRDHUP` is tested before `EPOLLIN`, so bytes
followed by the peer's FIN are dropped (`ms-epoll.cpp:137`); CONNECTED is said when connect returns `EINPROGRESS`
(`tcp-link.cpp:283`); and a connection refused by `accept` with `EMFILE` stays in the backlog until another client
comes (`tcp-link.cpp:349`). `Dispatch`, `SendConnected` and `Accept` model them as they are.

Some behaviours of the samples that the models have and no property forbids: a magic number cut in two by the end of a
read is stepped over unless the memory behind the buffer happens to continue it, and its packet is lost (`cut` excuses
it in `PacketsInOrder`, `AnswersInOrder`, `Delivered` and `Answered`); a header with a `total_len` that never comes
stalls its stream; one packet may reach a handler after its `link_destroy` (`AtMostOneLate`); DISCONNECTED leaves the
client's handle as it is, and CLOSED that comes before `set_link` is forgotten (`HandleForgotten` names both); a
packet that `handle_recv_data` has parsed when CLOSED comes is dropped, while one parsed after it is handled, under
the handle 0.

Bounds. `MaxLinks` is 2 or 3. A number that was closed may be handed out again at once, and in `server` and `destroy`
there are more links than descriptors (`Fds`), so there it must be. `MaxRx` is 1 or 2: a handler that takes one of two
pending items is told from one that takes all. `KeepPeriod` stands for the 10 rounds of the keepalive: 1 makes every
round one, 2 (in `destroy`) exercises the counter. The counter's reset at 10000 is a multiple of 10, so modulo the
period nothing happens there. `Calls` and `PeerActs` choose who may do what, so that each question gets the actors it
needs: two application threads and the worker cover every pair of calls on a link. In `server` one application thread
is enough, since the worker destroys and reads beside it. A backlog holds one connection and `HandleLeft` reserves the
handle it will need. `Room = 1` makes a UDP socket full after one datagram; with `MaxSend = 4`, of which `sendto`
refuses the second and the third has no byte (`Void`, erased by the walk), two wait in one link, whose order can be
wrong; the theorems `BufferInvariant` and
`NothingForgotten` cover any number of links and datagrams. `MaxInit = 2` lets a stopped library start again.
`TaskThread` has two pool threads, so that a signal may wake the wrong one, two tasks, whose order can be wrong, and
one timer with an interval of 2 on a clock that ends at 3, so that it can be run in time, late, and killed and set
between; safety was also checked with two timers (1.1 million states), and the theorems cover any number. `Streams` of
`link_mgr` holds packets in one read, cut inside a header and inside a packet, a header that promises more than ever
comes, half a magic number, a message too short to be parsed, an unknown type; the second link has one packet, which
is enough to interleave two handlers. `client` has every cut of the answers' 26 cells. Symmetry is used for
descriptors only and never with a liveness property. `CHECK_DEADLOCK FALSE` is set for `UdpLink`,
`Lifecycle`, `LinkMgr` and `TestClient`, whose programs may come to rest: the UDP worker sleeps in `epoll_wait`
without a timeout, an application may stop calling `init`, a manager that has been shut down stays so, and a client
whose link has ended waits for nothing. (The timed waits of the samples' threads end each second and change nothing;
they are stutters.)

Fairness. `TcpLink`: the worker is scheduled (its `epoll_wait` times out after a second, so it never sleeps for good),
a call that has begun goes on, and a signal does not interrupt every single `recv` of a socket that has bytes (`SF` on
`ReadBytes`). No peer owes an answer and no application a call. `UdpLink`: the worker and the calls run, the kernel
sends what it took, and a thread that waits for a mutex which is released again and again gets it (`SF` on `InCall`;
POSIX mutexes do not promise order, and without this no program with two locks would end). `Lifecycle`: the calls and
every spawned thread run on. `TaskThread`: every pool thread that can go on does, however often calls from its
callback interrupt (`SF` on `DoWhile`: a call disables the callback's return until it has signalled), a wait that has
timed out ends, a signal that is owed is sent, and an `end` that has begun goes on; nobody need post, set a timer or
call `end`, and clocks may stop. `LinkMgr`: a callback, the receiving thread and an `UnInit` that has begun go on; no
peer need send or leave. `TestClient`: the application, the receiving thread, and the worker where there is something
to read or a callback has begun; the server may stay silent and the link may end.

## The proofs

Every invariant and action property that a passing run checks is the statement of a theorem; only the liveness
properties are not. The theorems hold for any number of threads, links, descriptors, tasks, timers, requests and
rounds, and for any choice of calls and peers. They assume what the modules' `ASSUME`s say of the constants, and the
three about the server's streams one hypothesis, `StreamsAreMeant`, which is explained below. TLC evaluates the
`ASSUME`s, and `MCLinkMgr` has it evaluate the hypothesis on the streams of its run.

Handles, in **`TcpLink_proofs`**:

- `TypeCorrect`: `TypeOK` is inductive as it stands. The part that takes work is that a thread inside a call has a
  link to work on.
- `NoEarlyCallback`, `NoCallAfterClosed`, `Refinement`: `AnnouncedFirst`, `ClosedIsGone` and the refinement of
  `LinkTable` are not inductive. That no callback names an unannounced handle depends on where handles come from: a
  call, a tag in the epoll set, an event already in the batch, the global first link. `HandleInv` says that each of
  those is known to the application (`ThreadsKnow`, `SourcesKnown`, `TagsKnown`), except the one a thread is just
  introducing and alone holds (`Introduced`), and that whoever is past `del_link` works on a link that is out of the
  map for good (`GoneStays`). A step either tells the application nothing new and hands handles on (`TameStep`), or it
  registers, announces, attaches or unregisters; `StepKinds` says there is no other, and `HandleStep` that each keeps
  `HandleInv`.

Descriptors, in **`TcpLinkSocket_proofs`**:

- `SocketsAreKept`, `DisconnectedOfOwn`: `SocketInv` ties sockets to links however often numbers are used again. While
  the socket of a link is open, the link's `mi_socket` is its number (`OwnFd`), and so is what a thread that works on
  the link has loaded (`HeldFd`); an open socket is that of a registered link or of one a thread is about to close
  (`OpenIsHeld`), none is left once CLOSED has been said (`ClosedHasNone`); the tags in the epoll set are those of the
  sockets' own links (`TagsOwn`, `AttachedOnce`); and an event that says the peer has gone was true of that link
  (`HupIsDown`). Most steps open nothing and close at most; `Calm` is what they have in common.
- `CallsReachOwn`, `NumbersAreNotStale`: the first follows from `OwnFd` and `HeldFd`. The second needs `StaleInv`: a
  registered link that was not robbed holds the number of its own socket or none, or a thread whose connect was
  refused has closed it and is about to forget it. A step keeps the links and sockets as they are (`Still`), closes,
  forgets or opens; `StaleStep` goes through them.

**`UdpLink_proofs`**:

- `TypeCorrect`, `NothingForgotten`: `FlagCoversBuffer` needs `UnusedIsEmpty` (a link just added
  has an empty buffer) and `CallsHaveTheirLink`. The heart is the round in which the worker leaves a link: it is taken
  out of `todo` and, if something is left, the flag is set in the same step.
- `ReadAfterClosedWasBegun`: when CLOSED is said `mi_socket` is -1 for good (`ClosedHasNoSocket`), so no further read
  can begin; `LateInv` follows the one that may be under way (`Reading`, `begun`) to its callback.
- `PushedInOrder`: `QueuedInOrder` needs `OrderInv`: datagrams are numbered in the order of their pushes
  (`NumbersGiven`, `WaitInOrder`), what waits has been pushed and not been sent (`WaitsQueued`), and what has been
  sent precedes what waits (`SentInOrder`, `SentFirst`).

**`Lifecycle_proofs`**: `LifeInv` gives `TypeCorrect`, `ThreadsKeepTheirObject` and `NothingRemains`. A thread that
runs is one that its object has on record (`OnRecord`), so that `end` joins it; after the joins none runs (`NoneRuns`,
`WorkerGone`), while the second thread is still to be created only the worker can run (`TimerToCome`), the lock is
there while anybody may take it (`LockReady`), and `free_all_link_map` sees a map that nobody adds to any more
(`LinksFreed`).

**`TaskThread_proofs`**:

- `NoWakeupLost`: `NoLostWakeup` is inductive together with the types and with `Placed`, that a thread which was
  created stays in `do_while` until the flag is set (`WakeInv`). The case that takes the work is a thread that goes to
  sleep: it has just looked at the queue and at the first timer, so its deadline covers every timer. `DoWhileCases`
  cuts what a thread does while it has the mutex into four cases, which all theorems of the module use.
- `TypeCorrect`, `TasksKeepOrder`, `TimersKeepTime`: `TypeOK` is inductive, and `TasksInOrder` and `NoDrift` are so
  with it.

**`Framing_proofs`**, for the two samples: `ReadAsWritten` says that `read_packet` gives back every message that
`write_packet` can write, with any string and any map, from the head of a buffer and whatever follows there. For the
scan, `Placed` describes a stream in which packets of given messages lie one behind another with anything between
them, as long as from no other magic number on a part of the stream parses (`Spaced`, `OnlyThese` of `Framing`).
`ScanMeets` says that what the scan of a part of such a stream takes for a packet is one of these, whole and read as
it was written; `ScanPasses` that it steps over none of them, unless the part ends inside a magic number. The packets
of `Clean` messages, which hold no second magic number, are always so placed when nothing lies between them
(`LaidIsPlaced`).

**`LinkMgr_proofs`**:

- `LinkInvariant`: `LinkInv` joins the places of the threads and where they return to (`Paths`), what nobody knows of
  an unused handle (`Fresh`), the counts (`RefsArePointers`), that a handler is only removed once its link is gone, or
  by the worker that has said DISCONNECTED (`Endings`), what `UnInit` and `ms_tcp_uninit` have done so far (`Ended`,
  `RecvEnded`), and that a handler in `recv_data` has not been called since its end (`LateInv`). From it follow
  `CountsAreRight`, `HandlersAlive`, `MapIsRight`, `OneLateCall` and `NothingRemains`, for any number of links and
  anything the peers send: that the counts are right is what keeps a handler alive between `Find` and `DropRef` while
  another thread removes its link.
- `StreamInvariant`, `TypeCorrect`, `InOrderDelivery`: `StreamInv` adds `Flows`: what `m_recv_buf_map` holds, what
  `handle_recv_buff` has swapped out, what is in `m_recv_buf_old_map` and the reads still to come are one stream
  without a gap, the handler has got the packets that lie before it, and a packet that was found stays whole at the
  head until it has been handed on. The hypothesis is `StreamsAreMeant`: what a peer sends is a stream with the
  packets it means, `Placed`, cut anywhere. Without it "the packets of the stream" would have no meaning but what the
  scan finds, since junk may look like a packet. Streams of packets of clean messages laid one behind the other
  satisfy it (`CleanMeans`).

**`TestClient_proofs`**:

- `HandleIsForgotten`: `HandleForgotten` is inductive with `SetOnce` (no handle before `set_link`), `ConnectFirst`
  (the worker ends no link before connect has put it into the set) and `EndIsKnown` (what the worker has still to say
  of an end).
- `TypeCorrect`, `ActsInOrder`: `ClientInv` has the same for one stream: the bytes in both buffers and those not yet
  read, among them those a `Receive` has still to store (`GotFromWire`), are what the server has written from some
  place on, and the client has acted on the answers before it (`AnswersKept`). The server's answers are proved to be
  clean, for any requests, so there is no hypothesis.

Induction over data is not available to the provers. Where it would be used (the length of a map that is packed, the
first place at which a scan stops), the proofs take the least element of a finite set of numbers instead (`Least` in
`Framing_proofs`, from the library's theorems on finite sets), which is enough for recursive functions whose equations
are known.

Only model-checked: liveness (`PendingIsServed`, `CallsReturn`, `EdgeIsRead`, `UninitReturns`, `PostedIsTaken`,
`DueIsRun`, `EndReturns`, `Delivered`, `UnInitReturns`, `Answered`), since the prover handles neither fairness nor
`ENABLED`. The theorems give the safety half of some: `NoLostWakeup` of `PostedIsTaken` and `DueIsRun`,
`FlagCoversBuffer` of the flush, `PacketsInOrder` of `Delivered`, `AnswersInOrder` of `Answered`.

## Not modelled, and why

- Contents, addresses, socket options, logging. Partial sends are an outcome of `LinkSendData` without state.
- `ms_tcp_get_link_addr` and `ms_tcp_set_log_callback_func`, which change no state of a link.
- `check_link_timeout`, `check_error_info` and `set_error_info`: nothing calls them.
- Overflow of the handle counter (`tcp-link.h:99`): it needs 2^31 links; the models bound them and never repeat one.
- Calls made from inside a callback of the library, and the log callback, which runs with `m_link_lock` held.
- Application calls concurrent with `init` or `uninit`, and a second `init` after a failed one.
- Reference counts of the library's links: a link object is taken to live while a thread works on it. Those of the
  sample's handlers are modelled. Assignment of a null pointer (`Guard.h:121`) has no caller.
- Two threads in a first `Instance()`: an application calls `init` first, and that makes the objects.
- Of the samples: an `Init` whose thread cannot be created (it leaves `mh_tcp_link` unset), the broadcasts and
  searches over the map, which nothing calls; the client's destructor and a second `Init`, which `main` does not
  reach; a `send` that takes a part of a packet; the memory of packets (those for a removed link are leaked, and so is
  one that fails to parse, `comm-func.h:38`); entries of `m_recv_buf_map`, which are never erased; a clock that is set
  back; the pool of buffers in the samples' `Guard.h`, which nothing uses; the UDP client.
- The other message bodies of `net-packet.h`. Some 130 are declared; no file of the repository packs or parses them,
  and all but one of them have a parser or a packer and not both. `comm_typedef.h` declares their types, and both
  headers are here five times over (`include`, `include/old`, three samples), which is most of the repository's lines:
  30,000 of 47,000. There is no behaviour in them to model.

## Plan

1. Done: the libraries (`Sockets`, `TcpLink`, `LinkTable`, `UdpLink`, `Lifecycle`), the samples (`TaskThread`,
   `Packet`, `Framing`, `LinkMgr`, `TestClient`), and a theorem for every invariant and action property the runs
   check.
2. Next, proofs: a condition on the application under which no link is robbed (each link used by one thread, and
   destroyed by nobody once the worker may); that what `LinkMgr` and `TestClient` assume of handles is what
   `LinkTable` promises; that no proper part of a packet is parsed unless it ends inside its map.
3. Then models: descriptors that run out and come back (`EMFILE`); partial sends; `init` after a failed `init`.
