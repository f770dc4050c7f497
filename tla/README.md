# es-notebook: the test server, modelled and checked

es-notebook is a personal notebook. The program in it is `samples/testserver`: a
websocket and http test server built on libwebsockets in two forms (one service
thread, several service threads), two clients, a file transfer protocol, libuv and
uthash samples, and the uthash headers themselves, containers made of macros, which
are the largest body of code with source in the repository. This directory holds TLA+
modules for all of these, TLC runs over small instances, and TLAPS proofs, for every
size of the constants, about all of the websocket and http programs, the libuv samples,
and three of the containers: the string buffer, the ring buffer and the doubly linked
lists. Paths below are relative to `samples/testserver` unless they begin with `mycmds`.

## 1. Inventory

All the server's logic sits in libwebsockets callbacks. On the single-threaded server
they run one at a time; what is hard is what happens *between* two callbacks of the
same connection, and in the multi-threaded server between a service thread and the
two threads of the program's own.

| Component | State | Operations | Hard behaviour |
|---|---|---|---|
| mirror plugin (`plugins/protocol_lws_mirror.c`) | ring of malloc'ed packets, head, one cursor per connection | established, receive, writeable, destroy | connections of different speed on one ring: lapping, dropping, throttling, choked pipes |
| status plugin (`plugins/protocol_lws_status.c`) | linked list of sessions; per session a walk over it | established, writeable, closed | the list changes between two fragments of a report; freed addresses are reused |
| file protocol (`test-server-file.c`) | a state machine at each end, byte counter, open file | request, confirm, start, content | two state machines over two queues; end of file decided by counting bytes |
| external poll loop (`test-server.c`, `test-server-http.c`) | array of pollfds without holes, index from descriptor to slot | add, delete, change mode, poll, scan | the table changes under the scan |
| http (`test-server-http.c`) | per session: open file, form parser, upload file, proxy flags | requests, post bodies, writeable, proxy callbacks | transactions over many callbacks, kept-alive connections, one upload file for all, parent and child connection |
| threads (`test-server-pthreads.c`) and dumb-increment (`test-server-dumb-increment.c`) | mutex, `force_exit`, context, a number per connection | service threads, dumb thread, main, SIGINT | walk of a list others change; order of joins and frees; threads that cannot be created |
| clients (`test-client.c`, `test-file-client.c`) | pointers to connections, time of the last attempt | connect, established, error, closed, SIGINT | addresses reused, failure from inside the connect, rate-limited retries |
| echo server and tty client (`sample_echo_server.c`, `test-tty.c`) | a handle per connection, write requests and their buffers, text on the way | connection, read, write done, shutdown done, close, typed text | a close among pending writes, reads cut anywhere, either end gone first |
| work queue (`uv_workqueue.c`) and signals (`uv_signal.c`) | one async handle with one data field; watchers and timers with counts | send and print of progress, completion; raise and deliver | pool threads and loop without a lock; sends merged into one callback; deliveries after a stop |
| containers (`inc/uthash/utlist.h`, `uthash.h`, `utarray.h`, `utringbuffer.h`, `utstring.h`) | links inside the elements, buckets, slots that own memory, a terminated buffer | every macro | long sequences of legal calls: heads, tails, expansion, reallocation, ends of buffers, searches |
| their samples (`utlist_test.c`, `uthash_sample.c`, `uthash_test.c`) | one list or table and a counter | a menu, a benchmark, a list test | the same |
| `mycmds` scripts, the rest | see section 7 | | |

How they interact: `test-server.c` and `test-server-pthreads.c` run the library's
service loop; the library calls the protocol callbacks; the callbacks ask the library
for further callbacks (`lws_callback_on_writable`), for throttling
(`lws_rx_flow_control`) or for a close (a non-zero return). With `EXTERNAL_POLL` the
library in turn calls `callback_http` to keep the program's poll table, and with
threads it calls it to take and release `lock_established_conns`. The file client and
the file server meet over a websocket.

What makes each component correct:

* mirror: no connection waits with a backlog and no wake-up; what is sent is in order
  and never repeated; a payload is freed exactly when no slot holds it;
* status: the fragments of one report are one message; a session stops reporting only
  when its browser has the present list;
* file: each end only ever gets what its state understands, content is contiguous,
  and the client's exit means the whole file;
* poll table: it is, at every moment, the set of descriptors the library asked for;
* http: one answer per request, leaf.jpg whole, parsers not leaked, uploads bounded
  (the first two as long as only form posts have bodies: section 6);
* threads: the list is stable under the dumb thread's walk, nothing is used after it
  is freed, SIGINT ends the process;
* clients: a pointer stands for the connection it was opened for, and a lost
  connection is retried (with `-m`, only a slot that is NULL: section 6);
* libuv samples: what is typed comes back in order, once, up to the quit, and handles and
  buffers are given back; the last progress is shown; each watcher gets each signal;
* containers: after any sequence of calls a list, table, array, ring or string is the
  sequence, mapping or text those calls describe, from either end and in every build,
  and owns exactly the memory it should.

`PROJECT.json` lists the hazards at the lines where they bite.

## 2. Plan

Done, in this order: LwsMirror with its proofs, FileTransfer, LwsStatus, PollFds with
its abstract specification FdSet, its refinement and proofs, PthreadServer,
HttpServer, TestClient, the libuv samples, the containers and their samples; then the
proofs about FileTransfer, LwsStatus, PthreadServer, HttpServer and TestClient; and then
those about the libuv samples, the string buffer, the ring buffer and the macros of the
doubly linked and circular lists; last the dynamic array and the substring search.

Left: theorems about the links of one bucket of the hash table and about the singly
linked lists, once their operators are written without recursion; the mirror's ring with
more than one service thread, where the code has no lock and each access would be a step
of its own; and the todo list of `mycmds`, if the service it talks to is ever described
(section 7).

## 3. Modules and how they correspond to the code

Variables have the names of the code's fields. Each action is one callback case or
one step of a loop, from its first line to its `break`, and its comment names it. The
library (and the peer, the clock, the user) is *external*: it is modelled by what the
code relies on, usually as a flag that says a callback was asked for, and an action
that is enabled by it. Variables marked *history* are not in the code; the properties
need them to speak of what was sent.

**LwsMirror** (`protocol_lws_mirror.c`). `ringbuffer`, `ringbuffer_head` and
`ringbuffer_tail` are the code's. A packet is its number; `heap` is the set of packets
whose payload is allocated. `Established`, `Receive` (drop, or append with the wake-up
of all and the throttle), `Writeable` (any number of packets sent, ending by a choked
pipe, a failed write or an empty backlog, with the release of the throttle), `Closed`,
`Destroy`. The masked differences of the code are `Lag`, its wrapping increments
`Advance`; 512 is a power of two, so the mask is a remainder. The literal 15 is the
constant `AllowGap`; the runs use smaller rings with
a smaller gap and the same order of the thresholds.

**FileTransfer** (`test-server-file.c`, and the writeable requests of each turn of
`test-server.c`). Both state machines, two queues that break together. A frame of
content is its offset and length; the client's library cuts frames into pieces of at
most `RX`. The constants keep the one arithmetic fact the client's end test rests
on: 83762340 modulo the chunk is smaller than a piece (`SizesAssumption`). The two ends
are taken to have negotiated the protocol.

**LwsStatus** (`protocol_lws_status.c`). `live_pss_list` is the linked list as a
sequence; `walk`, `walk_next`, `subsequent`, `changed_partway` are the session's
fields. A session is its address, which a later connection may get. A report is the
sequence of its entries, with `NULL` for a separator that no entry follows.

**PollFds** (`test-server.c:372-380, 468-553`, `test-server-http.c:722-746`). Table,
index and count, the loop's `pc` and its index `n`. The library's three callbacks may
come at any point where the loop is inside a library call. What the index holds at
first is arbitrary, as `malloc` leaves it. `StartFails` and `Started` are the start of
`main()`, before its loop. **FdSet** is what the library believes: a
function from descriptors to events. PollFds implements it under
`watch <- TableWatch`.

**PthreadServer** (`test-server-pthreads.c`, `test-server-dumb-increment.c`). One
program counter for main, the dumb thread and each service thread; `owner` is the
mutex. `test_server_lock(care)` does nothing unless `care`, as in the code, and the
walk of the dumb thread visits one connection per step. SIGINT may come at any time and
more than once; a service call that fails ends its own thread only. Undefined behaviour
(joining a `pthread_t` that was never set, cancelling a context that does not exist or is
freed) is a choice between going on and `crashed`.

**HttpServer** (`test-server-http.c`). A connection is in one `phase` per kind of
transaction; `pss` is `per_session_data__http`. A URI is one of the classes the handler
tells apart, and a body its length. The library delivers the body of a request whatever
the handler did with the request (`body`), and nothing in `HTTP_BODY` and
`HTTP_BODY_COMPLETION` looks at it: a POST to `/proxytest`, which is proxied before the
test for POST, and a GET of leaf.jpg with a body are parsed and answered like a form.
`mixed` (history) are the connections on which that has happened. All uploads go to the one `postfile`, each
byte tagged with the connection that wrote it. `leaf.jpg` goes out in lumps, limited by
the peer's allowance, a choked pipe and the burst limit. A proxied request has a child
connection whose callbacks come at any time. Destroying and zeroing the session data
between transactions is the library's (`EndSession`). The branch for `/cgit-data/` is
behind an earlier test for a second slash and is never reached.

**TestClient** (`test-client.c`, `test-file-client.c`). `slot` holds the wsi
pointers, `rl` the seconds since the last permitted attempt. The command line selects
one of three main loops and one of four methods (ws, http, POST, raw). Callbacks run
from inside the service call, or, for a connection error, also from inside the
connect. A POST has a `body` that the handshake announces and a writeable callback
sends. The mirror connection is compiled out of both main loops.

**UvEcho** (`sample_echo_server.c`, `test-tty.c`). One connection. Both programs are
callbacks of a loop, so a callback is a step; between them a stream that keeps order
and not the borders of writes. `writes` are the write requests that have not been called
back, `bufs` counts the read buffers. The text is a row of numbered pieces, each shorter
than "quit", and a read takes any number of them, so the word may be cut in two; a read of
one piece is compared with what `malloc()` left behind it, which is a choice. The uv calls
that the code checks may fail, and a refused `uv_write` only prints, since `FATAL` is a
`printf`.

**UvWorkqueue** (`uv_workqueue.c`). A work item stores into the data field, sends and
finishes in separate steps, and the loop unmarks the handle and reads the field in
separate steps: the field is shared without a lock.

**UvSignal** (`uv_signal.c`). Both tests of the file. `raise()` puts a message for each
started watcher into libuv's pipe at once; the loop reads them and drops those of a
watcher that has stopped. The messages of one watcher are alike, so the pipe is a count
per watcher, and any watcher's message may be the next.

The containers are split so that what can be proved about is free of recursive operators,
which the prover does not take: UtLinks, UtRing, UtArray, UtString and UtStringFind have
none (the array's loops are functions of the number of turns, the searches make a step of
each turn); UtList, UtSort and UtHash walk and sort, and do.

**UtMemory** is memory as the containers use it: fields of elements, `NULL`, and `JUNK`
for what was never written or has been freed. Writes through `NULL` or `JUNK` go to
cells of their own, which the invariants inspect. **UtSort** is the mergesort that
`LL_SORT`, `DL_SORT`, `CDL_SORT` and `HASH_SRT` have in common.

**UtLinks** (`utlist.h`) has the macros of the DL and CDL families that do not walk:
prepend, append, insert before or after, replace, delete, and concatenation for DL. Each
is an operator on a record of head, links and keys, with the writes in the
code's order where two can hit the same field. A caller uses any of them on two lists in
any order (`LinkIn`, `Exchange`, `LinkOut`, `Join`), and `seqs` (history) is what the
lists should be. **UtList** has the rest of `utlist.h`: the LL family, the walks,
insertion in order, the sorts, deletion while walking, and the second form (suffix
`_nd`) of the macros that the `NO_DECLTYPE` build replaces; its caller takes the steps of
UtLinks too. Where a `_nd` macro has no temporary of the element's type and walks with the
head itself, the model moves the head and restores it. **UtlistTest** (`utlist_test.c`) is one particular caller. Its first
element's `next` is never written: it is NULL, or the first append crashes.

**UtHash** (`uthash.h`). The macros on a record with both orders of links, the buckets
and the table's counters. **UthashSample** has the callers: the menu of
`uthash_sample.c`, the benchmark of `uthash_test.c` with small numbers, and a caller for
the macros neither uses. `order` and `dict` (history) are the users in order of
insertion and the name each id was last given. **UtHashFunctions** computes the seven
hash functions on 32-bit words; their values were compared with those of the compiled
header for keys of 0 to 29 bytes. `HASH_MUR` reads its blocks as on x86.

**UtIcd** is the string elements of `ut_str_icd`, which own memory: a slot is a pointer to
a copy. `live` is what is allocated, `bad` records a free of something else and a write
outside the buffer. **UtArray** (`utarray.h`) and **UtRing** (`utringbuffer.h`) are the
containers made of them, with `content` and `oldest` (history), the sequences a
reader should find. `qsort()` may leave equal strings in any order, so `utarray_sort` takes
any of the permutations that sort. The ring's indices are `size_t`, so the one before the first is
`WORD - 1`.

**UtString** (`utstring.h`). Buffer, capacity and length; characters are small integers
and NUL is 0. The formatted append is a loop around `vsnprintf`, and each try is a step
(`format` is what is being appended), with either convention for output that does not
fit. **UtStringFind** has the four search functions. `call` holds a call's
arguments, `loop` the loop it is in, and the other variables have the names of the
locals: each turn of a loop, while the table is built and while it is used, is a step. The
table begins as `malloc()` leaves it, so an entry read before it is made would show. The
caller searches from every start inside the string. A search whose `malloc()` fails answers
that nothing was found, and is left out.

`MC*` modules add what TLC needs for the constants (file sizes, hash functions,
symmetry). `MCPrograms` holds the programs that stand alone and `MCContainers` the
containers; a behaviour uses one of them, so they share a run without multiplying each
other's states. `MCPollFds` lets the events of one descriptor vary and keeps those of
the others, which the code treats alike.

Definitions with a comment beginning "Fault" are wrong variants of the definition that
follows: each property is shown to fail when the definition is replaced by its faulty
form (`mutants` in `PROJECT.json`).

## 4. Runs

| Run | Checks | Shows |
|---|---|---|
| `mirror` | NoLostWakeup, BacklogIsNewest, PayloadOwnership, DeliveredInOrder | three connections on a ring of four slots, lapped more than once |
| `mirror_fair` | ThrottleReleased, EveryPacketArrives | two connections: the throttle is let go unless the other overruns the throttled one first; while a connection is alone every packet arrives |
| `mirror_lapped` | EveryPacketMirrored fails | see section 6 |
| `file` | EveryFrameExpected, ContentAccounted, TransferCompletes | three runs of the client over files of every interesting size, with requests accepted and refused |
| `file_done` | ServerClosesWhenDone fails | see section 6 |
| `status` | UntouchedWalkExact, RestingIsInformed, EventuallyInformed | three connections coming and going between any two fragments |
| `status_parse` | ReportsParse fails | see section 6 |
| `pollfds` | TableFaithful, RoomForEveryFd, ServicedOncePerPoll, Implements, NoneStarves | a table of three changed at any point of the scan; a descriptor that moved behind the scan is serviced in the end |
| `pthreads` | ListStableUnderWalk, NothingUsedAfterFree, CleanExit | two service threads, the dumb thread, main, repeated SIGINT, failed creations and service calls |
| `http` | UploadIntact, AnsweredOnce, LeafSentWhole, LeafFinishes, RelayMoves | a kept-alive connection making every kind of request, with a body and without, beside one that posts forms |
| `programs` | SlotsExact, Reconnects, EchoedInOrder, EchoSettles, LastProgressShown, SignalsCounted | both clients in every mode (Reconnects: for test-client, without `-m` and, for slots that are NULL, with it), the echo server with its client, the work queue, the signal tests |
| `containers` | ListsFaithful, ListBuildsAgree, FindsExactly, TableSound, ChainsBounded, ArrayFaithful, RingFaithful, TextTerminated, SubstringFound | every container under every sequence of calls within the bounds, and the three samples |

Every property has its statement, in words and with its lines, above its definition.

### Bounds, and why they are enough

* `mirror`: nine packets on four slots, so the head passes a resting cursor twice and
  every slot is freed and filled again; three connections give a sender, a slow and a
  lapped one. `mirror_fair` uses eight slots and gap five: the throttle sets in at a
  lag above the level at which it is released, and twelve packets of two connections are
  enough to throttle one and go around it.
* `file`: chunk 5, piece 2, end at 11 (11 mod 5 = 1 < 2, as in the code). Sizes 0, 4,
  10 (a multiple), 11 (the expected one), 12 and 16 (longer, by less and by more than
  a chunk) and no file. Two files can be open, so the third run of the client meets a
  failing `fopen`.
* `status`: three connections are the fewest with one walking, one ahead of it and one
  behind; `status_parse` allows a fourth, so that an address is reused.
* `pollfds`: three descriptors: one being serviced, one that goes, one that takes its
  slot. The proofs remove the bound.
* `pthreads`: two service threads, two connections, four connects (reuse), close
  testing at two.
* `http`: two connections, since uploads meet pairwise; leaf of three units, lumps and
  bursts of two, so that a transfer takes several callbacks and ends inside a lump; an
  upload limit of two. Connections meet in the upload file only, so in `MCHttpServer` one
  of them makes every kind of request, and the other posts forms while the first posts one
  too or waits; the proofs have no such restriction.
* `programs`: the client has two addresses and two `-m` slots, so an address is reused
  at once. Four typed pieces: one printed, one being written, one on the way when the
  connection ends, and one more so that two can be read at once; the quit may begin with
  any of them. Four work items (the pool's threads).
  Three signals per watcher and two watchers per signal, so deliveries to one that has
  stopped can be pending.
* `containers`: lists of up to four elements, at most two in the second list, with
  two keys, so that first, inner, last, only and equal elements occur; the sorts make
  two passes. The list test runs with three for its hundred. The table has two buckets at
  first and chains of three at most, so that six keys make it expand, with the default
  hash or with one that clumps its keys; and, for expansion alone, with all the hash
  functions. A bloom filter of two bits answers wrongly as well as rightly. Arrays and
  rings of three strings from a first reservation of one, so that growth happens twice and
  the ring wraps. `WORD` is 2^30 for 2^64, which TLC's integers cannot hold; the proof is
  for any word longer than the ring. Pieces of up to two characters are appended to texts in
  a first reservation of two, so that a formatted append fits, misses by the terminator alone
  and misses by more. The searches are of needles
  of up to three characters over an alphabet of two in texts that are longer by one, so
  that a needle is found at the first place, at the last, overlapping itself and nowhere.
  The run has 189,000 states; the proofs remove the bounds of the array, the ring, the
  text and the searches.

CHECK_DEADLOCK is off where the system may really stop: a destroyed context, an
exited process, the last permitted connection closed, a caller that used its elements. `http` never stops and is
checked for deadlock.

## 5. Fairness

* LwsMirror and LwsStatus: weak fairness of each connection's `Writeable`. The library
  calls back a connection that asked for it when its socket is writeable; a socket that
  never is is a connection that is closed, which the model allows at any time.
  `Writeable` of the mirror may be choked, but only after it has sent something, as in
  the code's loop.
* FileTransfer: weak fairness of both ends' callbacks and of the server's main
  loop, whose service call waits 5 ms at the latest.
* PollFds: weak fairness of the turn of the loop: the library returns from its calls.
  Nothing is assumed of the callbacks that change the table.
* PthreadServer: weak fairness of each thread's steps, and strong fairness of taking
  the mutex in a service thread: the dumb thread gives it up in every round and sleeps
  for 100 ms between two rounds, so a waiting thread gets it in the end. The arrival of
  connections and of SIGINT is not assumed.
* HttpServer: the child's data is delivered, and the peer accepts something in the end
  (`PeerTakes`): the handler sets a 5 second timeout at each write, and a peer that
  accepts nothing runs into it and is closed.
* MCPrograms: the client's loop runs and time passes; libuv calls back what is due in
  both programs of the echo pair, but neither typing nor failures are assumed; each
  thread of the pool and the loop run; the signal test's loop runs.

## 6. Where the code differs from what it says

* `mirror_lapped`: `test-server.c:93` says the mirror protocol "copies any received
  packet to every connection also using this protocol". The ring is tested for room
  against the cursor of the *receiving* connection only. A slower connection is lapped
  without notice, and a full ring drops the packet for all. What does hold, and is
  proved, is that a lapped connection goes on with the newest packets, in order.
* `file_done`: in the branch for `FSS_DONE` the comment "server close socket" is all
  there is. A client that did not count exactly 83762340 bytes waits for ever.
* `status_parse`: the separator of an entry is written before the entry is searched
  for; when it went away, the report ends in `,]}`.

Comments that say something else than the code does, without a run of their own because
no property of the program is at stake:

* `test-server.c:88-89` has the dumb-increment counter sent "every 50ms"; the loop
  asks for it in every turn in which more than 1 ms has passed;
* `test-file-client.c:765` says "write every 2 seconds"; the limit passed is 1;
* the echo server's comment speaks of a letter Q that quits the server; it closes
  the connection when a read begins with "quit", and the server stays.

Behaviour of the code that limits what a property can say; the models contain it, and the
property is stated for the rest:

* mirror, ThrottleReleased: a throttled connection is let in again by its own cursor when
  it passes the low-water mark (`protocol_lws_mirror.c:107-109`). Packets of *other*
  connections can wrap its lag to 0 first. It then has nothing to send and stays throttled
  until the cursor of some connection passes the mark; the code does nothing else about
  it. Without the exception for `Overrun` the property fails with two connections;
* mirror, EveryPacketArrives: holds while the connection is alone, for the reason
  `mirror_lapped` shows;
* client, Reconnects: with `-m`, a slot whose connection was established and then closed
  is never tried again: CLOSED (`test-client.c:106-109`) clears only `wsi_dumb`, and
  the loop (`:659`) takes the stale address for a connection. What is tried again is a slot
  that is NULL, after an attempt that failed;
* http, AnsweredOnce, LeafSentWhole, LeafFinishes and RelayMoves: a body that comes with
  another request than a form post, a POST to `/proxytest` for one
  (`test-server-http.c:236-266` come before the test for POST), is answered by
  `HTTP_BODY_COMPLETION` (`:449-502`) with a head of its own, beside the one of the child or
  of leaf.jpg, and completes the transaction. The child outlives it and relays into the
  next one, where it also makes a later leaf.jpg stop (`:551`), and a booked callback
  can complete that one unanswered. So the four are stated of connections on which this has
  not happened (`mixed`), and UploadIntact of all.

Behaviour that the models contain, or that reading the code shows, and that no property
is about:

* status: `changed_partway` is never cleared (`protocol_lws_status.c:182`), so a session
  whose list changed during a walk sends reports for ever;
* file: nothing closes `pss->fp` of the server when the connection breaks; a request
  it refuses by its header leaves the client waiting;
* http: `COMPLETED_CLIENT_HTTP` outside a read books no writeable callback
  (`test-server-http.c:694`), and an aborted post leaves the upload's descriptor open;
* threads: with more than one service thread the mirror's ring and the status list are
  shared without a lock; SIGINT before the context exists cancels service on NULL; a
  negative result of `lws_service_tsi` (`test-server-pthreads.c:145`) ends that service
  thread and leaves its connections unserved while the server goes on;
* file client: with an http address `wsi_dumb` keeps the address of a closed
  connection and is handed to the library again;
* echo: a read shorter than four bytes is compared with "quit" in bytes that were never
  read (`sample_echo_server.c:97`), and a "quit" that arrives in two reads is echoed
  instead; a refused `uv_write` (`:106-108`) leaks the buffer and is only printed; a refused
  `uv_shutdown` after a read error leaks the handle; the tty client formats what it reads
  into 128 bytes;
* uthash sample: `add_user` copies the name with `strcpy` into `name[10]`
  (`uthash_sample.c:9`, `:23`) and a longer one runs into the links behind it. The model's
  names are two values that fit;
* uthash: `HASH_SELECT` leaves the tail of the new table at its first item, so a later
  addition to it loses the others in the order of insertion; the `NO_DECLTYPE` form
  of `DL_INSERT_INORDER2` walks off the list for an element that belongs last. Nothing in
  the repository uses either.

## 7. Not modelled

* inside libwebsockets: framing, TLS, extensions, the parser of forms and its lists;
* option parsing (an option that decides which loop, method or number of threads runs is an
  initial choice or a constant), logging, and the wording and layout of what is printed or sent;
* malloc failures, and int counters beyond 2^31;
* of the single-threaded main: syslog, daemonising, certificates;
* the todo list of `mycmds/bin`: each invocation asks the user, calls a remote service
  and ends. What is hard there is that the number the user types belongs to an earlier
  listing (`joblist.py:181`) and that an edit writes back what it loaded over what
  others changed (`joblist.py:217`); both are decided by the service, of whose order and
  conflict handling the code shows nothing;
* the other scripts of `mycmds` and `cmake/tutorial`: one-shot calls of the shell, the
  library or `sqrt`;
* the vendored headers of libwebsockets (`inc/*.h`): declarations and generated tables
  of a library whose code is not in the repository. They are most of the lines that no
  module stands for;
* notes and configuration.

`callback_http` is commented out as protocol 0 of `test-server.c`; it is the first
protocol of `test-server-pthreads.c`. PollFds models the loop of the former with the
table code of the latter's callback, as the `EXTERNAL_POLL` build needs.

## 8. What is proved

**LwsMirrorProofs**, for any set of connections, any ring size and any number of
packets, from `SizeAssumption` (`3 <= AllowGap < MAX_MESSAGE_QUEUE`; 15 and 512 in the
code) and `BoundAssumption`. The listed theorems are TypeCorrect, WakeupsAreNotLost,
BacklogsAreNewest, PayloadsAreOwned and DeliveryIsOrdered. None of the properties but
the wake-ups is inductive: that a backlog is the newest run of packets depends on what
the slots hold after any number of wraps. The strengthening `IInv` says it for every
slot: the content follows from the slot's *age*, its distance behind the head
(`RingByAge`); allocated payloads are those in the ring (`HeapOwned`); and a cursor is
behind the head by no more packets than it has still to be sent (`CursorOK`). The
arithmetic of wrapping is in two lemmas (`AdvanceLag`, `BacklogValue`); then there is one
lemma per action.

**PollFdsProofs**, for any table size and set of events, from `TableAssumption`
(`max_poll_elements > 0`). TypeCorrect, TableIsFaithful, RoomIsLeft, ServicedOnce, and
Refinement: the array and its index implement FdSet. TableFaithful does not say enough
for the deletion that moves the last entry: `IInv` adds that the index leads from each
descriptor asked for to a slot in use that holds it (`Indexed`), that each slot in use
holds such a descriptor with its events (`Held`), and that the count is the number of
descriptors (`Counted`). From the latter it follows that the table is not full while a
descriptor is left. `ScanAhead`, that a slot in front of the scan with `revents` set has
not been serviced, survives the move because the entry goes to a lower slot or stays
where it is. The refinement uses that `TableWatch` equals the library's own view before
and after each step, so a table step is the same step of FdSet and any other step
leaves it alone.

**FileTransferProofs**, for files, chunks and pieces of any size, from `SizesAssumption`
(a piece is shorter than a chunk, and the remainder of the client's end modulo the chunk
is below a piece). TypeCorrect, FramesAreExpected and ContentIsAccounted. `IInv` is the
list of stages an open connection goes through (`Fresh`, `Requested`, `Judged`,
`Answered`, `Ready`, `Started`, `Unopenable`, `Flowing`), each with the state of both ends
and what is on its way. In `Flowing` every frame lies in one chunk and ends with it or
with the file (`InOneChunk`). From that follows what the client's end test rests on: a
piece that brings the count to the end is shorter than the receive buffer (`EndInChunk`),
so it is the last of its frame, and the frame ends with the file (`EndIsEndOfFile`).

**LwsStatusProofs**, for any number of addresses and connections, from `NullAssumption`
and `ConnsAssumption`. TypeCorrect, WalksAreExact and RestersAreInformed. That a resting
session is informed must be known of its report while it is still being sent: an
untouched message is the beginning of the list and `walk_next` the session that follows
(`Sent`), a touched one has noticed the change (`Noticed`), and a walk at its end without
a change has nothing left (`Ended`). `Distinct` makes a search by address find the right
session.

**PthreadServerProofs**, for any number of service threads and connections, from
`NumbersAssumption`. TypeCorrect, WalksAreStable and FreedLast. That the list stands still
under the walk rests on the owner of the mutex (`Exclusion`) and, since destroying the
context empties the list without it, on which threads can run at each point of `main()`
(`Phases`).

**HttpServerProofs**, for any finite number of connections and any sizes, from
`HttpAssumption`. TypeCorrect, UploadsAreIntact, and the action properties
RequestsAnsweredOnce and LeavesAreWhole. `Transaction` says for each phase which callbacks
can still come and how many heads have gone out (a callback that could end a transaction is
booked only after the head, and a body comes with a form post), and that leaf.jpg has been
sent up to the position of its descriptor. It is an invariant of the connections that are
not in `mixed`, and so are the two action properties; `Shape` adds what holds of
all: a closed connection has left nothing behind, so a new one in its slot starts
clean. `Upload` says where the descriptor of an upload stands, whatever request it came
with. Each action lemma shows the invariant and what the action properties say of that step.

**ProgramsProofs**, about the programs that stand alone.

* ClientTypeCorrect and SlotsAreExact, for any set of addresses and of `-m` slots, from
  `ClientAssumption`. `ClientInv` adds through which slots the main loop opens connections
  (`Opened`, `Unopened`) and that `wsi_dumb` holds a connection that was opened through it
  (`DumbExact`): CLOSED clears `wsi_dumb` whichever connection closed.
* EchoKeepsOrder, for any number of pieces. What is printed says too little: `EchoInv`
  follows the pieces through the stream to the server, its write requests and the stream
  back. Each of them holds consecutive numbers, and together they leave no gap as long as
  both ends are there (`BackInOrder`, `UpInOrder`, `WritesInOrder`); what the client is given
  stays below the quit the server acted on (`QuitIsLast`); `Stages` says where the two
  programs can be at the same time.
* ProgressIsDue, for any number of work items: while the field holds something that is
  not shown, somebody still has to show it (the loop, a marked handle, or an item about to
  send). This is the safety half of LastProgressShown, and it is inductive.
* SignalsAreCounted, for any number of signals. `SignalInv` balances, per watcher,
  what was raised with what was delivered and what is in the pipe (`Balanced`), and says
  that a watcher or timer runs exactly until it has its count (`RunsUntilDone`).

**ContainersProofs**, about the containers that are written without recursion. Where an
argument needs induction on a number, it is made for a set of numbers, a parameter
the provers can instantiate (`NatLeast`, `SetInduction`, from the well-founded order of the
naturals).

* TextIsTerminated, for any pieces, any first reservation above zero and any length, from
  `StringAssumption`. `StringInv`: the block holds the text and has room for one byte more.
  Between two tries of a formatted append the terminator may be gone, since a try that
  does not fit has written over it; it is back when the call returns.
* RingIsFaithful, for rings of any size, from `ItemAssumption`, `WordAssumption`,
  `CellAssumption` and `PointerAssumption`. `RingInv` gives the slot of each element without a remainder and
  makes strings and slots one-to-one, so the string that a push frees is the oldest and
  no other element's. The remainders the header takes are three small lemmas.
* ArrayIsFaithful, for any strings, any first reservation and any number of calls, from
  `SlotAssumption`, `OrderAssumption`, `ItemAssumption`, `CellAssumption` and
  `PointerAssumption`.
  `ArrayInv`: the slots below `i` hold the strings of the elements, one string each, and
  nothing else is allocated. Inside a macro the slots in use are not a prefix of the block
  (a gap is open, or two slots hold the same pointer), so the lemmas about single
  writes are about any set of slots in use (`Holding`), and a macro is put together from them.
  That the loop of doublings ends with enough slots (`SlotsEnough`) is by induction, and
  so are the copies of a whole array (`CopyAllKeeps`). A sort shows the same
  strings whichever order `qsort()` picks among equal ones (`OrdersAgree`): otherwise one
  permutation would map a set of places into a smaller one.
* SubstringsAreFound, for texts and needles of every length, from `StringAssumption` and
  `NeedleAssumption`. `FindInv` says at each turn which entries of the table are made and
  that each is the longest border of its prefix that another character than the prefix's next
  one follows (`Entry`), how much of the needle matches at the current place, and that no
  place was passed over (`Matching`).
  Falling back through the table keeps both. The backward search is not
  argued again: in the mirror of its needle, table and haystack it is a forward search
  (`GoesLeft`), with the index of each entry shifted by one.
* LinksAreFaithful, for any number of elements and keys, from `CellAssumption`. It is the
  conjunct of ListsFaithful for the macros of UtLinks: both lists are linked as their
  sequences from either end, elements that are free are not linked, and nothing was written
  through a bad pointer. `LinksInv` is proved in three layers. The first is about
  sequences and link fields alone: what has to change for a chain to lose, gain or
  exchange an element, or to be joined to another. The second is one lemma per
  macro, that its writes are such a change, for the first, inner, last and only element.
  The third frames the rest: the other list, the free elements and the cells of bad
  pointers stay as they were.

Only model-checked:

* all liveness (ThrottleReleased, EveryPacketArrives, TransferCompletes,
  EventuallyInformed, NoneStarves, CleanExit, LeafFinishes, RelayMoves, Reconnects,
  EchoSettles, LastProgressShown), since fairness is out of the prover's reach;
* what rests on walks and sorts, which are recursive operators: the walks, sorts and
  singly linked family in ListsFaithful, ListBuildsAgree, FindsExactly, TableSound and
  ChainsBounded.
