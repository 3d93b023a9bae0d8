# the_Foundation in TLA+

the_Foundation is a C11 library of objects, containers, strings, streams, threads and sockets. This directory holds TLA+
models of it, the TLC runs that check them on small instances, and proofs checked by TLAPS. The repository's code is the
reference: every definition that stands for code is listed with its lines under `map` in `PROJECT.json`.

    tlc -workers 2 -config MCTransfer.cfg MCTransfer   # one run; the list is in section 3
    tlapm Queue.tla                                    # the proofs of one module; section 4

## 1. The system

| Component | State it keeps | Operations | Meets the others by |
|---|---|---|---|
| Object, Class (`object.c`) | reference count, audiences it is a member of | ref, deref, delete at zero | everything is an object |
| Mutex, Condition (`mutex.h`, `c11threads.c`) | owner, waiters | lock, wait, timed wait, signal, signalAll | guards of every component |
| Audience (`audience.c`) | sorted array of (object, function), a mutex | insert, remove, notify with the mutex held | callbacks run in the notifier's thread |
| Queue (`queue.c`) | a list, a mutex, a condition | put, take, takeTimeout, waitForItems, tryTake | pool, address lookup, datagram |
| Thread (`thread.c`) | created / running / finished, id, result, registry of running threads | start, join, result, terminate | notifies `finished` at its end |
| ThreadPool (`threadpool.c`) | workers, a queue of jobs | run, yield, deinit | jobs are threads that a worker runs; a job may yield or submit |
| Future (`future.c`) | list of threads, pending count, a condition | add, wait, nextResult, deinit | observes the `finished` audience of its threads |
| Address (`address.c`) | result, finished flag, a condition; one lookup thread and its queue | lookup, waitForFinished, deinit of the library | notifies sockets, serves datagrams |
| Socket (`platform/posix/socket.c`) | status, descriptor, connecting thread, I/O thread, buffers, two pipes | open, write, flush, close, deinit | address callback, its own two threads, audiences |
| Service (`platform/posix/service.c`) | descriptor, listening thread, stop pipe | open, accept, close, deinit | its thread drops `d->listening`, the owner reads it |
| Datagram (`platform/posix/datagram.c`) | descriptor, output queue; one I/O thread and one wake-up pipe for all | open, send, receive, flush, close | the I/O thread visits every member |
| TlsRequest (`tlsrequest.c`) | status, incoming bytes, a thread, certificates; a cache of sessions for all | submit, cancel, wait, deinit | five audiences of a socket; the cache |
| WebRequest (`webrequest.c`) | a curl handle, the response, what was announced | post, get, read, clear | curl's callbacks, audiences |
| Process (`platform/posix/process.c`) | pid, three pipes | start, write, read, wait, kill | the child |
| Garbage (`garbage.c`) | per-thread list of nodes, scope markers | collect, scopes, recycle | deleters, which may collect |
| Array and the sorted and pointer arrays, List, ObjectList, StringList | windows in an allocation, links, nodes of strings | insert, remove, iterate, sort, serialize | everything |
| Hash, BlockHash, StringHash, Map | four-way trie, red-black tree | insert, remove, iterate | the registry of threads, caches |
| Block, String (`block.c`, `string.c`) | reference-counted cells of bytes | copy on write, search, split, replace, escape, compress | sockets, parsers |
| Stream, Buffer, File | position, size, byte order | read, write, seek, consume | sockets, archives |
| Archive, Xml, Toml, RegExp, CommandLine, Path, FileInfo | entries, the source, an iterator | parse, find, write | programs |
| Time, Rect, Punycode | almost none | pure functions | programs |
| Version, Random, Noise, Crc32, Md5, Math, Geometry | almost none | numeric functions | programs |

What is hard is, first, the concurrent half of the table. Threads meet in callbacks that run in someone else's thread;
state is published in one region and announced in another; conditions are waited for with an `if` in some places and a
loop in others; mutexes are recursive, and an audience stays locked while it is notified; sockets, services and datagrams
read descriptors and threads without their mutex; and destructors join threads that may be waiting for the destructor's
caller. The other half is sequential: there the difficulties are the limits of windows and nodes, the shapes of trees,
data that are shared until they are written, iterators that survive removals, positions kept twice, and text that is
taken apart and must be put together again.

What makes each part correct:

- Queue: FIFO, each item to one taker, no taker asleep beside an item.
- Thread: the object outlives every use of it; joining means that the thread has left.
- Pool: each accepted job is run exactly once, before the pool goes; the destructor returns.
- Future: the pending count counts; no notification arrives at a freed future; waiting ends.
- Address: one lookup of an address at a time; waiting ends, and ends with a result; shutting down ends.
- Socket: nothing written is forgotten, opening and closing end, no thread works on a freed socket.
- Service, Datagram: one listener at a time; the shared thread finds each member open; what came or was given is handled.
- Audience: neither observers nor memberships dangle. Garbage: each pointer is held, deleted once or lost; what is deleted is of the scope that ends.
- TLS: a result is complete when it is announced; the certificate shown is that of the connection.
- Web request, process: what has come is read; whoever waits for a child returns.
- Containers: each is the sequence, set or function its header promises; iterators survive removals.
- Blocks and streams: sharing and growing are invisible; what was written is read back, in order and once.
- Documents: every way of reading one says the same; one that lost its end is not taken for a whole one.

The places where this could go wrong are listed, line by line, under `hazards` in `PROJECT.json`.

## 2. The models

In the concurrent modules one action is one region under a mutex, up to the unlock or the wait that ends it, or one access
to shared state outside of all mutexes. A condition variable is the set of the threads blocked on it:
`signal_Condition` takes one of them, if any, `signalAll_Condition` all, and each may leave by itself, as POSIX allows. A
`wait` in a loop returns to the test; one in an `if` goes past it, and the models keep the difference. In the sequential
modules one action is one function of the header, with all it calls.

| Module | Models | Its state and the code's |
|---|---|---|
| `Queue` | `queue.c` | `items` = `d->items`; `waiting` = threads in `d->cond`; `op[t]` = the function `t` is in |
| `Channel` | (abstract) | what the queue promises |
| `Thread` | `thread.c`, and the running of a pooled job | `state` = `d->state`; `exec` = the place in `run_Threads_`; `registered` = `runningThreads_`; `refs` = `d->object.refCount`; `join` = the place in `join_Thread` |
| `ThreadPool` | `threadpool.c` | a `Queue` of jobs and the `Thread`s of workers and jobs, by INSTANCE; `stack[w]` = the nested jobs of worker `w` |
| `JobPool` | (abstract) | what the pool promises for each job |
| `Future` | `future.c`, with `audience.c` as it is used there | `Thread` by INSTANCE; `audience[t]`, `locked`, `toNotify[t]` = `iNotifyAudience`; `pending`, `threads` = the fields of the same names |
| `AddressLookup` | the lookup thread and its callers in `address.c` | `Queue` by INSTANCE; `finished` = `finished_AddressFlag`; `call`, `blocked` = the callers |
| `Socket` | `platform/posix/socket.c` | `status`, `fd`, `connecting`, `thread` = the fields; `io`, `call` = the places of the I/O thread and the caller; `wake`, `stop` = the two pipes |
| `TlsRequest` | one submission of `tlsrequest.c`, with the socket reduced to its calls | `status`, `incoming`, `result` = the fields; `run`, `io`, `conn`, `call` = the places of the request's thread, the socket's two and the caller; bytes come in records |
| `Sessions` | the cache of sessions and the certificates in `tlsrequest.c` | `cache` = `cachedSessions`; `requests` = each request's certificate and session; `certs` = how many certificates live |
| `Service` | `platform/posix/service.c` | `d` = the fields and the bytes in the pipe; `listener[o]`, `watched[o]` = the place and the `fd_set` of the thread of opening `o` |
| `Datagram` | `platform/posix/datagram.c` | `members`, `mode`, `wakeup` = `datagramIO_`; `io` = the place, the descriptors and the loop of its thread; `d[g]` = descriptor and queues |
| `Audience` | `audience.c` and the end of an object in `object.c` | `observers` = the arrays of audiences; `memberOf` = the objects' `memberOf->audiences` |
| `Garbage` | `garbage.c` | `nodes` = the list and what is in each node; `at`, `base` = where a recycling or the end of a scope is |
| `Process` | `platform/posix/process.c` | `pin`, `pout` = the pipes; `child` = what `waitpid` sees; `known` = `d->pid` |
| `WebRequest` | `webrequest.c` | `web` = the fields; `curl` = the options set; `phase` = how far `curl_easy_perform` has come |
| `Array` | `array.c` | `array` = `allocSize`, `range` and the memory, cell by cell |
| `ElementSequence` | (abstract) | what the array promises |
| `PtrArray` | iterators of `array.c`, `ptrarray.c` | `items` = the elements; `iter` = the iterator; `given`, `visited` are the user's view |
| `SortedArray` | `sortedarray.c` | `values` = the elements, here a sequence (the array's promise) |
| `List` | `list.c` | `list` = `size` and the two links of each node and the root |
| `StringList` | `stringlist.c` | `nodes` = the strings of each node; `strings` is the user's view |
| `Map` | `map.c` | `map` = `root`, `size`, links and colours; `iterator` = value and next; `held` is the user's view |
| `Hash` | `hash.c` | `buckets` = the list of each bucket, named by its digits; `cursor` = the iterator; `present`, `ahead` are the user's view |
| `Holders` | `blockhash.c`, `objectlist.c`, `stringset.c` | `refs` = the objects' counts; `hash`, `list`, `set`, `cursor` = the containers and the iterator |
| `Collections` | `stringarray.c`, `intset.c`, `ptrset.c`, serialization | `strings`, `ints`, `pointers` = the containers; `live`, `taken` count what was initialised and handed out |
| `Block` | `block.c`, the data | `mem` = cells with count, bytes and room, and the handles; `want` is each handle as a value |
| `Compression` | `block.c`, the loops around zlib | `z` = the fields of the `z_stream` that are used; `out` = the block; `wrote` = what zlib wrote |
| `Encodings` | URL, quoted, hexadecimal and Base64 text, `punycode.c` | `text` = code points; the functions are compared with their inverses |
| `Text` | `string.c`, `regexp.c`, ranges | no state: each function against its definition on all short texts |
| `Buffer` | `stream.c`, `buffer.c` | `buffer` = data, position, size; `log` = all that was written, what was consumed |
| `File` | `file.c`, `platform/win32/file.c` | `os` = which; `file` = the stream's fields and the system's position; `disk`, `exists` = the file |
| `Archive` | `archive.c` | `archive` = entries and source; `stream` = the written parts; `want`, `saved` are the user's view |
| `Xml`, `Toml` | `xml.c`, `toml.c` | the document written and the text that is parsed |
| `CommandLine` | `commandline.c` | `args` = the entries; `input` = the text of response files |
| `Path` | `path.c`, `fileinfo.c` | the path; `LeadsTo` is the place it stands for |
| `Time` | `time.c` | `time` = seconds and parts; `exact` = the number it should be |
| `Rect` | `rect.c` | the rectangle, its iterator and the points it stood on |

`MC<module>` instantiates modules for TLC; its `.cfg` gives the constants. `ThreadPool` and `Future` are checked as they are.
`<name>Proofs` holds the proofs about `MC<name>`, and `DataProofs` those about `Data` (section 4). The definitions headed "Mutant:" change a
definition in the way a plausible mistake in that code would; `PROJECT.json` says which property each one breaks.

`Queue` serves three modules: its actions take the thread as a parameter and know nothing of what the thread does
between calls. `Queue!Next` is the most general client that follows the library's own use, in which a caller of
`waitForItems_Queue` goes on to `tryTake_Queue`. `Thread` is the same for `ThreadPool` and `Future`.

Four MC modules hold several components: `MCTransfer` (Queue, Socket), `MCNetwork` (TlsRequest, AddressLookup),
`MCServices` (Thread, Service, Datagram, Audience, Garbage, Process, WebRequest) and `MCData` (the sequential modules). Six of
these (Array, Block, Compression, Buffer, Holders, Sessions) are put together in `Data`, which has their constants open and can be proved about; `MCData` extends it with the others, whose recursive definitions cannot.
In each the variable `subject`, chosen in the first state, says which component a behaviour exercises; the variables of the
others stay as they are. The state space is the sum of theirs and not the product, and a property of the run is the
conjunction of what its components promise of one kind.

## 3. The runs

| Run | Instance | Distinct states | Question |
|---|---|---|---|
| `transfer` | queue: 3 threads, 2 items, length 3; socket: 2 host addresses, pipe of 2 bytes, 3 writes, 2 openings | 56 358 | is a wake-up ever lost, is the queue a channel; lost or stuck output, opening, closing |
| `services` | 2 threads; a service opened twice with 2 clients; 2 datagrams, 2 openings, 2 messages; 2 objects, 2 audiences, 2 functions; 5 pointers and 3 entries before a scope begins, in nodes of 2; a child with pipes of 2; a response of 3 and 2 requests | 117 714 | references, lifetimes, listeners, members; do calls return, is work done |
| `pool` | 2 workers, 3 jobs: one yields, one is submitted by a job | 30 007 | is every job run once; does the destructor end |
| `future` | 2 futures, 2 threads | 113 405 | the count, dangling observers, do the waits end |
| `network` | 1 request, 4 records from the peer; 2 addresses, 2 in the queue | 82 417 | is a result complete, who hears of the end; one lookup at a time |
| `data` | 23 components, below | 315 762 | is each container, string, stream and document what its header promises |
| `pool_yield` | 2 workers, 2 jobs, one yields | violation | does the destructor end when jobs yield |
| `future_release` | 1 future, 2 threads | violation | can a future be released when its results are out |
| `map_iteration` | 8 keys on 9 nodes | violation | does an iteration visit every node of a map |
| `socket_reopen` | 1 host address, no writes, 2 openings | violation | do the assertions hold when a socket is reopened |
| `list_gap` | 2 strings, 4 to a node | violation | does an iterator of a string list stay inside its nodes |
| `rejected_cert` | 2 requests, 1 host, one renewal | violation | has a request no certificate when one is rejected |

### What they show

- **transfer, queue.** `NoLostWakeup` counts: while someone sleeps, there are at least as many awake takers as items. One
  signal per put is enough because a signalled thread either takes an item or finds none; signalling only on an empty
  list (the mutant) is not. `ImplementsChannel` is refinement: the queue is the channel of `Channel.tla`, liveness
  included.
- **transfer, socket.** `NoStuckOutput`: data does not lie in the output while the I/O thread sleeps. `CloseLosesNothing`:
  `close_Socket` has sent what was written before it disconnects. `OpenSettles` and `CloseReturns` name what is left:
  a full wake-up pipe (`Jammed`), a flush after the I/O thread has left (`Unsent`), a lookup whose callback an earlier
  `close_Socket` has disconnected (`Unheard`).
- **services, threads and audiences.** `start_Thread` registers a thread after it has been created, so the registration may
  come after the deregistration. `RefsBalance` shows that the count stays exact all the same (the stale entry holds a
  reference and keeps the object for ever). `NothingDangles`: neither the new thread, which references its object only
  when it gets to run, nor `start_Thread` touches a freed object, provided the owner does not release it before
  `start_Thread` has returned; and an audience and its observers tell each other of their end, unless
  `remove_Audience` has dropped the membership of an object that still observes with another function.
- **services, service and datagrams.** `OneListener` relates `d->listening`, the thread and the owner, none of which is
  guarded by a lock. `WorkIsDone` names what a reopened service may do: its thread sees the byte of the last
  `close_Service`, which is never read, and leaves. `MembersAreOpen` and the two liveness properties hold for datagrams
  unless the one I/O thread is lost (`IoLost`): a descriptor was closed between the set-up of `select()` and its call, or
  `recvfrom()` blocks on one that took its number.
- **services, the rest.** `DeletedOnce` and `ScopeEndsWhereItBegan` cover deleters that collect: at the end of a scope they
  are handled, during a recycling the new pointer goes into a node that was freed or will be forgotten (`lost`). `CallsReturn` for a process
  excepts `waitForFinished_Process` with the child's output pipe full. A response is read wholly, its progress told once
  for each stretch.
- **pool.** `ImplementsJobPool` refines `JobPool`: accepted jobs are run, once each, before the pool is gone.
  `SentinelBalance` accounts for each sentinel; `DeinitCompletesUnlessSwallowed` shows that a sentinel taken by a job's
  yield is the only way for the destructor to hang.
- **future.** `PendingBalance`, `ReadyMeansFinished` and `NoDanglingObserver` hold in spite of notifications that race the
  disconnections. `WaitReturnsUnlessLost` shows that the notification cut off in `nextResult_Future` is the only way for
  `wait_Future` to hang (`Lost`).
- **network.** `OneLookupAtATime` relates the flag, the queue and the thread for callers that were not woken early.
  `WaitsEnd` names two ways for lookups to hang: the thread's exit after a spurious wake-up (`Stranded`), and the
  shutdown signal sent without the mutex just before it sleeps (`missed`). `CompleteWhenNotified`: the observers of
  `finished` find in the result all that the peer sent, because the thread reads once more after it has left its loop; a
  caller of `waitForFinished_TlsRequest` is not promised that. The thread tests the status under `d->mtx` and waits under
  `d->incomingMtx` for a predicate that does not include the status; a signal between the two is lost (`Missed`), and
  then the observers are not told and `cancel_TlsRequest` does not return. `cancel_TlsRequest` sets the error status
  without signalling `requestDone`, and if the socket has just been disconnected nobody else does (`Silenced`).
- **data, containers.** `ImplementsSequence`: however the window moves, shrinks and grows, `Array` is a sequence with
  insertion, removal, overwriting and resizing. `SortLeavesInOrder`: the quicksort, which relinks nodes while it walks
  over them, loses none. `RedBlack` is what `verify_MapNode_` asserts in a debug build. `SearchesAreExact` compares
  searches in sorted arrays, maps, hashes and rectangles with the sets they stand for. `IteratorsGoOn` is the iterators
  that remove the element they are on. `ListIsASequence`: strings in nodes that split and merge are one sequence.
  `HoldersBalance`: an object lives as long as a container or a cached session holds it, with two keys of one CRC.
- **data, bytes and text.** `BlocksAreValues`: copying on write cannot be seen, and the output of zlib is whole however often
  it grew. `ReadsBack`: each alphabet is inverse to its reader, a file's stream agrees with the file under both
  systems, collections and dates come back from a stream, times add up. `TextIsExact`: cutting, searching, splitting and replacing
  against definitions by positions. `StreamsAreExact`: a buffer is a queue. `DocumentsAreExact`: paths, command lines, XML, TOML and
  archives say the same by every way of reading them.
- The six **violations** are the findings of `PROJECT.json`, each with the line it contradicts and the trace in words.
  `map_iteration` was confirmed with a compiled program: inserting 2 and then 1, and iterating, prints 1 only.

Where a property of the sequential components has an exception, the operator that names it says when: `GoesAstray` in
`Path`, the guard on joined letters and values in `CommandLine`, a character reference between spaces in `Xml`, the offsets
beyond nine hours in `Time`, the separator across the end of a range in `Text`, and `doubt` in `File`: until the next seek the
stream's position is not promised to be the file's after the C library has appended elsewhere than at it, after a file has been
opened for appending that was not there, or whose end is not where the C library starts to read, and after Win32 has opened a
file again to be written, which keeps the old position.

Seen while modelling, without a run of their own: `waitForFinished_Address` waits with an `if` and is woken by the end of an
earlier lookup of the same address (`address.c:117`, `333`), which is why `OneLookupAtATime` excepts callers that were woken
early; `disconnected_TlsRequest_` turns the status `error` into `finished` (`tlsrequest.c:1077`); a request released while its
socket is being connected has a thread started after `deinit_TlsRequest` looked for one (`tlsrequest.c:895`, `1069`); the comment
"All notifications are done from the TlsRequest thread" (`tlsrequest.c:1000`) does not hold for `sent` and for errors before
the connection; `join_Thread` calls `thrd_join` again for each further call (`thread.c:184`) and the result of `thrd_create` is
ignored (`thread.c:129`); `add_Future` takes a thread that has already finished, which will not notify (`future.c:70`); two
first lookups may both start the lookup thread (`address.c:127`), and an address taken while the library shuts down is not
released (`address.c:89`); a failed `recvfrom` passes -1 as a size (`datagram.c:155`); decompressing a truncated zlib stream does
not end, nor does matching an empty regular expression, nor picking a point that is no corner on the edge of a 2 by 2
rectangle; a replacement that ends in a lone backslash is read past its terminator; a file opened with append and read (`a+b`) is read from
its start by glibc, while the stream's position is its size (`file.c:78`), and one that is not there yet gets `iInvalidSize` for
both, from where the first write wraps the position around; `open_File` sets flags, position and size before `fopen` may fail (`file.c:92`);
the const iterator of a string list, which does not count, goes into a last node that was left empty (`stringlist.c:382`).

### Bounds

All constants are small sets of model values or small numbers.

- *Queue, pool, future.* Three threads in the queue are two takers that compete and someone who puts; the proofs lift that
  bound. Two workers let one be stranded by the other; three jobs are one of each kind. Two futures sharing two threads
  make every pair meet: two observers of a thread, two threads of an observer.
- *Network.* Two addresses are one in the lookup thread and one behind it, and two queue places let an address be queued
  while another is. A pipe of two bytes can be full with one caller and one I/O thread writing to it (the real one holds
  64 KiB); `MaxTake` = 2 of three writes make the I/O thread take its output in more than one piece (64 KiB at a time in the
  code); two openings are the first and one after a loss; two host addresses are one that fails and one after it. Four
  records are the handshake, two pieces of data and an end. Two openings of a service leave the first one's byte for the
  second; two datagrams are one that is closed beside one in use, and two messages one that is sent while another waits.
- *Small services.* Nodes of two pointers (32 in the code) and five pointers make scopes that end inside a node and at its
  boundary. Pipes of two blocks and three to read and write fill up; a response of three units has a stretch below and
  one above the least size.
- *Containers.* An array of seven elements passes the allocations of 4, 8 and 16 (`iArrayMinAlloc` is 4) with room to
  rebalance on either side. Eight keys make trees of four levels, in which each case of the two repairs occurs. The hash
  has two children and two nodes to a bucket in place of four and eight, so that six keys of three digits split it to its
  last level. Four strings to a node (512 in the code) and seven strings split, merge and leave nodes empty. Three keys,
  two with one CRC, and two objects; three pointers of two values; sets of three.
- *Bytes and text.* Blocks of three bytes on allocations that begin with two; texts of three or four characters from an
  alphabet with a member of each kind a function tells apart (escapes, spaces, letters with case, characters of one to
  four bytes); files of three bytes read in chunks of two, so that a chunk can end in a CR, and sizes of 4 bits (`SizeBits`), of
  which only the last, `iInvalidSize`, differs from what 64 would give; zlib's room of one, doubled
  twice.
- *Documents.* Paths of five characters and at most three segments (128 in the code); five arguments; XML of four elements
  or four pieces of text; TOML texts of three characters and tables of two lines; archives of two entries, one with a
  backslash in its path.
- *Others.* Three parts to a second (10^9 in the code); rectangles on five lines; two requests for one host whose
  certificate is renewed once.

Bounds that are guards: `MaxItems`, `MaxWrites`, `MaxOpens`, `MaxPeers`, `MaxMessages`, `MaxRecords`, `MaxRequests`,
`MaxCollected`, `MaxHeld`, `MaxRefs`, `MaxRun`, `MaxSize`, `MaxStrings`, `MaxEntries`, `MaxArgs`, `MaxExact`, `MaxClock`, `MaxRenewals`
and `MaxOverwritten`.

The runs with `CHECK_DEADLOCK FALSE` model objects that end: threads exit, pools, futures, sockets and the library are
freed, and some of the hangs above are states without a successor. The queue, the socket and the data never end, and
their runs check for deadlock.

### Fairness

Weak fairness of each thread's own steps: a thread that can run does, which is the scheduler's promise. Nothing makes a
program call a function, and no fairness is assumed of spurious wake-ups or of a peer. In `Process` the child's own steps
are fair (it is taken to read its input to the end); in `WebRequest` libcurl's are (it has a timeout of ten seconds) and the
reader's, which reads when it is told. Two exceptions are stronger:

- `ThreadPool`: a yield times out however often its thread is woken, since `takeTimeout_Queue` computes its deadline once
  (`queue.c:68-69`), and a job's function returns in the end however often it yields. Both are interrupted by other
  steps, hence SF.
- `Socket`: SF of the lookup, connecting and I/O threads, for a caller that keeps writing locks and unlocks the mutex they
  need time and again; mutexes are assumed not to starve a thread for ever.


## 4. The proofs

Eight modules have theorems; the provers check 11524 obligations. A theorem holds for every value of the constants that the
named assumptions allow. The theorems about `Queue`, `Thread`, `ThreadPool` and `Future` are in those modules, those
about components that share a run are in `MCTransfer`, `MCServices` and `NetworkProofs`, which are or extend the run's MC
module, so that they are theorems of the specification TLC checks, with the constants left open. `DataProofs` extends `Data`, the
part of `MCData` whose subjects are proved about: `DataSpec` is what `MCSpec` says of their variables. Each invariant is strengthened to an
inductive one (`IInv`), which TLC has checked first, and the step that preserves it is cut into one case per action, and per
conjunct the action can disturb. Variables that are Boolean have a conjunct of their own (`Flags`) and a lemma that it is kept.

**Queue** (385 obligations), for every finite set of threads, every set of items and every bound, from `QueueAssumption`
only.

- `TypeCorrect`: `Spec => []TypeOK`. `TypeOK` is inductive; `ResumeType`, `PutType` and `TailType` are the cases that do
  not follow by expansion.
- `WakeupsAreNotLost`: `Spec => []NoLostWakeup`. With `TypeOK` it is inductive. The argument is a count: a put adds one item
  and, if anyone sleeps, moves one sleeper among the `Contending` (`MoreContending`, `PutWakes`); a take removes one of
  both (`TakerLeaves`); going to sleep needs an empty list (`EmptyList`); a timeout or a spurious wake-up only makes
  fewer sleepers.
- `QueueImplementsChannel`: `Spec => Promise!SafeSpec`. Each step of the queue is a step of the channel or leaves
  `items` and `request` alone (`StepChannel`): waiting and waking are invisible to the channel.
- `Counted`, `AppendCounts` and `TailCounts` say what putting and taking do to the number of times an item is in the list
  (the last by a bijection between the places in a sequence and those in its tail). The pool and the lookups cite them.

**Thread** (112), for any set of threads.

- `ReferencesBalance`: `Spec => []RefsBalance`, and `NoUseAfterFree`: `Spec => []NeverFreedInUse`. The count alone is not
  inductive: `Kept` adds who keeps an object during the race between `start_Thread` and the thread it has created. While
  `start_Thread` is under way the owner has not released and nobody else can register the thread; a thread that has
  been created but has not run is kept by `start_Thread` or the registry; a joining owner has its reference.

**ThreadPool** (1119), for any finite set of workers, any jobs and any nesting of yields, from `ThreadPoolAssumption`.

- `DestroyedWhenQuiet`: `Spec => []GoneIsQuiet`. `Lives` is about each worker: outside its loop it is in no function of the
  queue and runs no job, joined implies exited, and a destroyed pool has joined them all. `JobStep` and `PutKeepsOps` say
  what the steps of jobs and of the queue leave alone.
- `SentinelsAreAccountedFor`: `Spec => []SentinelBalance`. `Account` extends the balance to the time before the shutdown, where
  it is zero, and says that a worker is retired once; `Launching`, that the constructor starts one worker at a time;
  `Places`, that a job is in the queue once while it is queued, and on one worker's stack, once, while it runs. The threads
  of the pool are those of `Thread`: `ThreadStep` shows that a step of the pool is one of `Thread`, whose invariant is cited.
- `PoolImplementsJobPool`: `Spec => Promise!SafeSpec`, under the mapping of `Progress` and `Openness`. That the pool is not
  gone before the accepted jobs are done rests on the order in the queue, `Fifo`: behind a sentinel there are only
  sentinels and jobs that came late; once a sentinel has been taken nothing else is left in the queue; and a worker that
  has exited took one. So when the last worker has been joined no accepted job is queued, and by `Places` none runs
  (`DestroyCloses`).

**Future** (684), for any futures and any finite set of threads (`FutureAssumption`).

- `ReadyIsFinished`: `Spec => []ReadyMeansFinished`, and `NobodyCallsFreed`: `Spec => []NoDanglingObserver`. `Count`
  equates the pending count with the number of threads added and not yet heard of; `Link` says where the connection of
  a future and a thread stands, up to the copy of the audience a notifier goes through; `Going` says that a future is
  past its wait in the destructor only when it has heard of every thread. `AddKeeps` and `NotificationKeeps` are the two
  steps that move the count; finiteness comes from `CountIsFinite`.
- `PendingIsCounted`: `Spec => []PendingBalance`. The property includes the types of all variables, and the references stay
  natural numbers only because each release gives back a reference that is held. `Balance` says so: the count of a thread is
  what `Thread` accounts for (`T!Held`) plus one for each future that lists the thread or has returned it, and no future
  does both.

**MCServices** (1736), of the run `services`; `MCAssumption` says that `MaxOpens` is a natural number. `MCStep`
says that a step of the whole is a step of each component or leaves it alone.

- `ReferenceCountsBalance`: `MCSpec => []RefsBalance`, from the lemmas of `Thread`.
- `NoPointerDangles`: `MCSpec => []NothingDangles`, for any threads, objects, audiences and functions. For audiences it is
  inductive with `LossIsKnown`: an object that observes an audience without being its member got there by a
  `remove_Audience` that dropped the membership while another function still observed.
- `ListenersNeverOverlap`: `MCSpec => []OneListener`. `Service!IInv` says where the owner can be while a listener lives (`Owns`,
  `Listens`: the only thread that lives is the one in `d->listening`, and no thread is of an opening yet to come), and why
  a thread may have left by itself (`Excused`). `ListenerMoves` covers every step of a thread but its last; `FieldSet`,
  `NetSet` and `OwnerSet` keep record updates in their sets.
- `MembersAreAlwaysOpen`: `MCSpec => []MembersAreOpen`, for any set of datagrams and whatever descriptor the system hands
  out. `Own` says that no two datagrams have one descriptor and that a member has one; with it, that what the I/O thread
  is still to send from are members, because `close_Datagram` takes the same mutex. `SameFds`, `KeepsFd` and `NewFd` say
  what each step does to the descriptors.
- `GarbageIsDeletedOnce`: `MCSpec => []DeletedOnce`, for nodes of any size and any number of pointers. `Recycled` is what
  makes it inductive: while a node is recycled, those behind it are empty, so the entry that is taken is the last of all and,
  by the order, differs from every other. The list of lists is reasoned about by places (`At`): `Grown` and `Shrunk` say that
  one entry more or one less is at the end, `PushedEntries` and `TakenEntries` that this is what collecting and deleting do,
  and `Account` that a pointer is held, was deleted or is lost, one of the three.

**MCTransfer** (218), of the run `transfer`, for any number of addresses, any size of the wake-up pipe and of what the I/O
thread takes at once, any writes and openings; `MCAssumption` says that they are natural numbers.

- `OutputIsNotStuck`: `MCSpec => []NoStuckOutput`, and `CloseSendsAll`: `MCSpec => []CloseLosesNothing`. `Joined` says who can
  be at work: an I/O thread's steps need the thread to be there, a connecting thread works on a descriptor that is there
  unless the socket was disconnected, and only a peer that left makes the I/O thread shut the socket down. `Flushing`
  follows `close_Socket` from its look at the status to the region that disconnects: from when it has found nothing
  more to send, nothing can be written, and the I/O thread is not in the middle of a `send` once it is joined.

**NetworkProofs** (1085), of the run `network`, for any addresses, any length of the lookup queue (`AddressLookup`
assumes that it is a natural number) and any number of records.

- `LookupsDoNotOverlap`: `MCSpec => []OneLookupAtATime`. The property counts occurrences in the queue, with the lemmas of
  `Queue`. The rest of `IInv` is the balance of references (`Referenced`), that a caller past its wait finds the
  flag set unless it was woken early, and that none is inside a call once the library ends (`Caller`), and that the thread
  is started at most once (`Startable`).
- `ResultIsComplete`: `MCSpec => []CompleteWhenNotified`. `Conserved` is the heart: what is in the result, in
  `d->incoming` and still on the network is what the peer sent. The result is all of it when the other two are empty:
  an end that the peer caused leaves nothing on the network (`NoMore`, `Order`, `Ended`), because a closing record is the last
  and the socket tells of the disconnection only when it has read everything; and the thread's last reading, after it
  has left its loop, empties `d->incoming` (`Told`). `DataIn` is a count of positions, and `DataInConcat` says that the
  counts of two sequences add up.

**DataProofs** (6185), of the specification `DataSpec`. `ArrayAssumption` and `DataAssumption` say that there are finitely many
blocks, bytes of a buffer, keys, requests and hosts, that bounds are natural numbers, that zero is a byte, that an allocation and the room zlib is given
are not empty, and that `null` is none of the things it is compared with. `DataSteps`: a step is one of one subject, and leaves the
others alone.

- `ArrayIsASequence`: `Spec => ImplementsSequence`. The invariant is `WindowIsInside` (in `Array`): the window lies in the
  allocation, and every place in it has been written. What an operation leaves is compared with the sequence a position at
  a time. `IsMoved` and `IsWritten` say what `memmove` and a write do to memory; the lemmas `Window...` what each of them, or the
  two moves of an insertion in the middle, make of a window that holds a sequence; the lemmas `...Holds` what each function
  of `array.c` makes of an array, in every branch: the doubled allocation suffices (`PowersGrow`, `ReserveHolds`), a shift stays in
  it (`ShiftHolds`, `RebalanceHolds`), the two halves that make room together make enough of it (`SplitHolds`), and a gap is closed
  from whichever side is shorter (`RemoveNHolds`). `StepHolds` maps each action to its step of `ElementSequence`.
- `BlocksStayValues`: `DataSpec => []BlocksAreValues`. `BInv` is that a memory is `Sound` for the values of the blocks: `Sound`
  adds the types and the count of the static empty cell to what the run checks. The functions of `block.c` call one another, and what
  is between two calls is no state of the model; so `Sound` is of a memory and values, and there is a lemma for what each of
  the common steps (a block gets another cell, a cell is written that no other block has, a new cell is allocated) makes of it.
  `CInv` is for zlib's loops: what is in the block and what has been written to the room behind it is what zlib wrote.
- `BuffersAreQueues`: `DataSpec => []StreamsAreExact`. `UInv` adds to the property that the position is not behind the end:
  what was consumed and the data are together what was written (`Aligned`), so that writing at the buffer's position
  and writing at the user's give the same (`OverwriteBehind`), and consuming moves a prefix from the one to the other.
- `HoldersAlwaysBalance`: `DataSpec => []HoldersBalance`. For containers, `HInv`: for every object the references that nobody
  accounts for (`Spare`) are none or one; no two nodes of the list are the same (`Unique`); and what is next for an iterator comes
  after the node it stands on (`Ordered`), which is why it is not the one that is removed under it. `HashMoves` and `ListMoves`
  say what a bucket or a node more does to the counts, and `OrderMoves` that an iterator's nodes keep their order. For sessions,
  `Sessions!IInv`: the balance of certificates says nothing of their age; what is inductive is
  that a host's certificate only gets newer, that a cached session is of the certificate cached with it or of a newer one
  (`Cached`), and, of each request, that until its handshake it has a certificate exactly when it is offered a session, the one
  cached with it (`Submitted`). `Moves` and `MovesAlone` are the two shapes of a request's step.

What stays with TLC:

- Liveness under fairness, and so the fairness half of the refinements (`ImplementsChannel`, `ImplementsJobPool`): the
  prover does not reason about enabledness. The six violations are counterexamples and have nothing to prove.
- `ScopeEndsWhereItBegan` of `Garbage`, which compares the list of nodes, flattened, with what it was: what `FlattenSeq`
  computes is an induction over sequences, for which the library's theorems take an operator that none of the provers can
  instantiate.
- The other properties of `MCData`: trees, tries, lists of nodes and text are defined by recursion or by folds over sequences,
  with the same difficulty; the run compares them with their reference definitions on bounded data.

## 5. What is left out

- In `TlsRequest`: a second submission of the same request (`connected_TlsRequest_` asserts that there is no thread, and the
  SSL object is not reset), a release while a submission is under way or a waiter waits, the notifications of progress;
  `select` and `recv` errors other than the peer's close. The cache of sessions and the certificates are in `Sessions`, the
  fields of a certificate are not.
- In the other concurrent models: the failure of `thrd_create`, `malloc` and `pipe`; `terminate_Thread`; incoming data and
  the partial progress of `send` in `Socket`; the address families; the creation of the lookup thread and its queue by two
  threads at once (one action makes both); collisions in the thread registry; what `pthread_join` does with a thread that
  is not there (it is taken to fail at once); the results of jobs; an audience changed by an observer that it is calling.
- `open_Socket_` returns `iFalse` for an address that was never looked up; every address of the three constructors is
  looked up or given, so that branch is not in the model.
- In the containers: `sort_Array` (the C library's), the const iterators but that of `StringList`, the plain wrappers; a map or hash changed other
  than through the iterator while one is under way, which the headers do not provide for; the width of integers, except
  where a function depends on it (Punycode, the packed dates).
- In the data: formatting and scanning, locales and normalization (libunistring), printing to a stream and reading it by
  lines, the attributes of files, the clock and the formats of time. OpenSSL, libcurl, zlib and PCRE are external: each is
  what the code relies on.
- Not modelled at all: `Version`, `Random`, `Noise`, `Crc32` and `Md5`, which are arithmetic without state, defined elsewhere;
  `Math` and the rest of the geometry, which is the floating-point unit's; the Windows and Apple back ends of sockets,
  datagrams, services and processes, which repeat the POSIX ones over other calls (`platform/win32/socket.c` does not
  compile at this commit: there is a parenthesis too many in an `iDefineObjectConstructionArgs`, line 241). The files of Windows are in `File`.

## 6. Plan

Done: everything in §2. Left, in this order:

1. `TlsRequest`: the second submission, as its assertion says it is not meant to be, and the notifications of progress.
2. `Socket`: incoming data and its notifications; a partial send.
3. `Audience`: one that is changed while its observers are called.
4. `Datagram` composed with `Queue` for incoming messages and `AddressLookup` for the addresses they are sent to.

Abstract specifications that are stated: `Channel`, `JobPool` and `ElementSequence`. Worth stating: a stream of bytes for
socket and TLS request, a set of owned pointers for the garbage collector.
