# Verification of rdma-based-rpc

TLA+ models of the RPC library in this repository, TLC configurations that
check them on small instances, and proofs checked by TLAPS.

## The system

A client and a server process exchange requests over RDMA. Both link the same
library (`kv_rdma.c`) and run on a fixed set of threads, each an SPDK reactor
that calls *pollers* in a loop (`kv_app.c`).

| part | state | operations | interacts with |
|---|---|---|---|
| RPC data path (`kv_rdma.c` 375-409, 443-457, 468-550) | queue pairs, one completion queue for all of them, client request contexts, server request contexts (*slots*), request and response buffers | `kv_rdma_send_req`, `kv_rdma_make_resp`, `rdma_cq_poller` with `on_send_req`, `on_recv_resp`, `on_recv_req`, `on_write_resp_done` | the application through callbacks and the handler, the pool, the fabric |
| request-context pool (`kv_memory.c`) | buffer of elements, lock-free queue of the free ones, a producer and a consumer token per thread | create, get, put, free, offset <-> element | data path, connection management |
| connection management (`kv_rdma.c` 176-373, 411-441) | `rdma_connection`, hash table of the server's connections under a read-write lock, shared receive queue, slots | `rdma_cm_poller` and its seven handlers, connect, listen, disconnect | fabric events, data path (frees what it uses) |
| initialisation and finalisation (`kv_rdma.c` 553-615) | `fini_ctx.io_cnt`, poller handles | `kv_rdma_init`, `kv_rdma_fini`, registering and unregistering of the pollers | message queues of `kv_app.c` |
| thread application (`kv_app.c`) | a queue and tokens per thread, event pool, `running_thread` | `kv_app_start`, `kv_app_send`, `msg_poller`, registration on another thread, `kv_app_stop` | SPDK, the lock-free queue |
| memory regions (`kv_rdma.c` 112-173) | registered buffers with room for a header | allocation, slices, release | data path |
| lock-free queue (`concurrentqueue.*`) | producers, blocks, block index, free list, tokens | enqueue and (bulk) dequeue, destruction | pool, message queues |
| key-value layout (`kv_msg.h`) | - | size macros nobody uses | - |

What is hard here: several threads poll one completion queue, so completions
of one connection are handled by different threads in any order; the callback
runs before its context goes back to the pool and may send again; a slot has
three users in turn (fabric, handler, fabric again) and its reuse depends on a
completion that comes after the response is already at the client; no retry is
configured, so running out of slots breaks a connection; queues, pool and
slots have unrelated sizes; connections are freed on another thread than the
one that uses them; shutdown is a set of messages without an order. What each
part must guarantee: requests and slots are neither lost nor duplicated, a
response belongs to its request, buffers are stable while somebody reads them,
every request gets its callback, nothing is used after it was freed, shutdown
waits for every poller. `PROJECT.json` lists each hazard at its line.

## Modules

| module | content |
|---|---|
| `RpcService` | what the library promises an application: per buffer pair *idle*, *pending*, *served*; the handler runs once, the callback once, a successful callback finds the answer to this request, a failed one means the handler never ran; all this while its connections are up |
| `KvRdmaRpc` | the data path of both processes over established connections |
| `KvRdmaConn` | life of the connections on both sides against requests and completions under way |
| `KvApp` | the threads of `kv_app.c` from start to stop, message queues, event pool and `msg_poller`, for modules that send tasks |
| `KvRdmaFini` | the life of a handle on `KvApp`: `kv_rdma_init`, the pollers of the first connection, `kv_rdma_fini` with `io_cnt` and the final callback, threads that stop meanwhile |
| `KvRdmaMr` | memory regions: what is allocated, sliced, sent and received, in bytes; the numbers of request contexts |
| `SubQueue` | what one producer of the lock-free queue promises: first in, first out, each item once |
| `ProducerBase` | how `concurrentqueue.hpp` keeps that promise without a lock: the counters and blocks of every sub-queue |
| `ExplicitProducer`, `ImplicitProducer` | the sub-queue of a producer token and the one of a thread without a token, on `ProducerBase` |
| `Producer` | a sub-queue of either kind, its properties and its refinement of `SubQueue` |
| `TokenQueue` | the whole queue with its tokens, as the request-context pool and the message queues use it |
| `MCKvRdmaRpc`, `MCKvRdmaConn`, `MCProducer` | symmetry sets for the TLC instances; the first also brings in `KvRdmaMr` |
| `KvRdmaRpcProofs`, `KvRdmaConnProofs`, `KvRdmaFiniProofs`, `ProducerProofs`, `TokenQueueProofs` | theorems about the modules they are named for |
| `KvRdmaRpcRequestProofs` | the proofs about `KvRdmaRpc` continued: what becomes of a request, and how large pool, queues and receive queue have to be; the theorems about `KvRdmaMr` |
| `ProducerListProofs`, `ProducerIndexProofs` | the proofs about `Producer` continued: the list of blocks of an implicit producer, and its index |

How they fit together: `KvRdmaRpc` and `KvRdmaConn` take the pool and the
message queues to be atomic. `TokenQueue` says what the queue underneath does
under several threads, with a sub-queue as a sequence; `Producer` shows that a
sub-queue is one. `KvApp` supposes of a queue that it keeps the order of each
sender and that no message is lost, which is what `TokenQueue` checks.

### KvRdmaRpc and the code

| variable | code |
|---|---|
| `mp` | `conn->u.c.mp`: offsets of the free contexts |
| `ctx` | `client_req_ctx.req/resp` of an element |
| `reqHdr`, `reqBuf`, `respBuf` | the registered buffers of a request/response pair |
| `busy` | pairs between `kv_rdma_send_req` and their callback |
| `call`, `cbk`, `cwc`, `swc` | where a thread is: inside `kv_rdma_send_req`, inside a callback, its local `wc` array |
| `ccq`, `scq` | the completion queue of each process |
| `rqPosted`, `sendQ`, `writeQ`, `sendAck`, `writeAck` | work queues and wire of each queue pair |
| `srq`, `srvBuf`, `reqCtx`, `handling` | posted slots, their buffers, `server_req_ctx`, slots the handler owns |
| `fault` | `null_ctx` (380), `bad_free` (408), `server_exit` (456); `conn_error`, a connection breaks |

`SendReq` is lines 380-386, `PostRecv` and `PostSend` the two verbs and the
branch to `fail:` (`SendFail`); the three are separate because the other
threads and the fabric move between them. `ClientPoll`/`ServerPoll` are one
`ibv_poll_cq`; each handled completion is a step. `OnRecvResp` calls the
callback, `MempoolPut` happens when it returns; between the two the same
thread may call `kv_rdma_send_req` again. `MakeResp` may be called from the
handler or later. The payload is one value and the server echoes it, as
`kv_rdma_server.c` does, so that a wrong answer is visible. A buffer pair
stands for its address and remote key.

The fabric is external: `DeliverReq` takes *any* posted slot, reads header and
payload from the buffer when it is sent, `DeliverResp` writes to the address
the request carried, acknowledgements come later and only they complete a send
or write. With `AckInOrder` an acknowledgement is not overtaken by a later
message of its sender (what adapters do in practice); without it it may be, so
a response can complete before the request it answers, and a work queue can be
full although nothing is outstanding. `RnrNak` breaks a connection whose
request finds no slot because `rnr_retry_count` is zero, and with that the module
ends, as it does when a process dies: everything said of it holds up to the first
connection that breaks, and all completions up to then are successful ones. What
comes afterwards is in `KvRdmaConn`: the queue pair flushes what was posted, the
pollers meet completions with an error, and a callback may fail (line 510) although
the handler has run. A completion queue never overflows in the model. Pool get and put are atomic, as the lock-free
queue underneath is meant to be. The failing callback of `fail:` is not
followed further: the next statement frees a pointer malloc never returned.

### KvRdmaConn and the code

| variable | code |
|---|---|
| `cst` | the client's `rdma_connection`, from `kv_rdma_connect` over the events it waits for to *up*, *closing* (`kv_rdma_disconnect` called), *closed* (freed by `on_disconnect`), *failed* (freed by `on_connect_error`) or *stuck* (an event without a case) |
| `sst`, `table`, `qpn`, `dying` | the server's `rdma_connection`, the hash table, queue pair numbers, the connection `on_disconnect` is working on |
| `pend`, `rqPosted`, `reqs`, `resps`, `wacks`, `qpErr` | outstanding requests and where they are on the wire; client queue pairs in error |
| `ccq`, `cwc`, `cput`, `scq`, `swc`, `found`, `handling`, `srq` | completion queues, the arrays of the pollers and what a thread is doing with an entry; slots |
| `cloop`, `sloop` | threads inside the loop of `rdma_cq_poller` (525-528) |
| `reqConn`, `from` | `server_req_ctx.conn`, and the connection whose request is in the slot's buffer |
| `fault` | failed assertion (474, 495, 506), completion taken for another kind, use of a freed connection or pool |

The connection manager's poller runs on one of the threads that also poll the
completion queue (`ClientCm`, `ServerCm`), so its handlers wait until that
thread is back in its reactor; the other threads do not wait. A thread that has
polled something polls again when its array is done and returns only when
`ibv_poll_cq` brings nothing (`ClientPollEmpty`, `ServerPollEmpty`). `on_disconnect`
of the server is two steps, the removal from the table and the rest;
`on_recv_req` is two, the lookup under the lock and the call of the handler.
Handlers that only print (`on_established` of the server) have no action. An
event is not queued: when it may be delivered follows from the two sides.
Data is left out: what is in the buffers is the subject of `KvRdmaRpc`.

External: a queue pair in error flushes its receives and the sends not yet at
the server; `rdma_destroy_qp` removes its completions from the queue (`Purge`; with `FALSE`, which the
interface also allows, even one thread meets a completion of a freed
connection); a completion with an error has no defined opcode, so what the
poller does with it is a choice: it drops it, an assertion fails, it takes it
for a completion of another kind (both end the module), or it takes a flushed
receive for what it is (`OnRecvRespFailed`). The last needs immediate data that
happens to name the context of a request without an answer; then `on_recv_resp`
calls back without success, whether or not the request was handled, and puts the
context back. The server process does not die of a verb that fails (456).

### KvApp, KvRdmaFini and the code

| variable | code |
|---|---|
| `queue`, `batch` | the queue of each thread, as one sequence per sending thread (`p_tokens`), and what is left of `msg_buf` |
| `events` | messages taken from `g_event_mempool` |
| `phase`, `ready` | how far SPDK has come from `spdk_app_start` to its return; threads that `thread_init` has run on |
| `polling`, `running`, `stops` | threads with a registered `msg_poller`; `g_app.running_thread`; calls of `spdk_app_stop` |
| `inStop`, `locker` | where a thread is in `kv_app_stop`, with the mask it has read; the holder of `g_lock` |
| `ctx`, `cm`, `pollers` | `self->ctx` with when it was set, the connection manager's poller, the registered `rdma_cq_poller`s |
| `pc`, `caller`, `told`, `ioCnt` | where `kv_rdma_fini` is, the thread it runs on, its loop counter, `fini_ctx.io_cnt` |
| `freed`, `cbs`, `fault` | the handle is freed, how often the final callback ran, a use of freed memory |

`ThreadInit` runs on one thread after the other, `AppStart` then sends the
first tasks. `MsgPoller` takes up to `MaxPoll` tasks, from each sender a prefix
of what it sent, in any interleaving of the senders; each task is then an
action of its own, one after the other on its thread. `kv_app_stop` is three
actions: unregistering the poller, taking the lock and reading the mask,
writing it back. It may be called by the final callback and, once on each
thread, by the application, with an error or without. `AppEnd` drops the
messages that are left.

`kv_rdma_fini` is three actions (`Fini`, `FiniCount`, `FiniSend`) since the
other threads run in between. It may be called on any thread, and the first
connection may come before or after it. `create_connetion` sends all its
registrations in one step: only a `kv_rdma_fini` on another thread, which is
not orderly, could tell.

### ProducerBase, ExplicitProducer, ImplicitProducer and the code

The variables have the names of the code; `elem` is the contents of a block,
`ppc` and `cons` are the places of producer and consumers with their locals.
Of an explicit producer `empty` has the flags of a block, `next` the ring of
blocks, `blockIndex` all block indices ever allocated (the last is current,
consumers may still read an older one). Of an implicit producer `headers` are
its block indices, which share the `entries` they point to, `dequeued` counts
the items taken out of a block, and `free` is what `requisition_block` can
choose from: first the blocks of the initial pool, then those given back, then
the heap.

Enqueue and bulk dequeue (`dequeue` makes the same accesses for one item) are
cut at every access to something another thread may change. Item *i* is the one
put at index *i*. The destructors are operators over the state in which they
would run (`Destroyed`, `Released`), since nobody else is in the queue then;
reading an item destroys what is left in its place.

What the model supposes: accesses take effect in the order of the program
(the memory orders of the code are not modelled); 64-bit indices do not wrap,
so that `circular_less_than` is `<`. The limit `MAX_SUBQUEUE_SIZE` never binds
and is left out. The flags of a block are read or written together: a flag
goes from false to true while consumers work on its block and back only when
all are true. `BlockNum` is the memory: when no block is left, and for an explicit producer
at any other time too, an allocation may fail and the item is not put. The
free list is a set: threads that take from it and give to it at the same time
are not followed into it. The bounds are `MaxItems` for the items ever put and
`MaxOvercommit` for the claims given back.

### TokenQueue and the code

| variable | code |
|---|---|
| `use` | the queue of a pool (each thread has both tokens and asks for one element) or of a thread's messages (thread 0 asks for `MaxPoll`) |
| `sub`, `out` | the sub-queue of each producer token; elements outside the queue |
| `offset` | `globalExplicitConsumerOffset`, modulo `OffsetNum` |
| `token` | `lastKnownGlobalOffset`, `itemsConsumedFromCurrent`, `currentProducer`, `desiredProducer` |
| `call` | the dequeue a thread is in: the producer it is at, the room left, what it has got |

`Begin` is the choice of the producer
(`update_current_producer_after_rotation`), `Try` one producer's `dequeue_bulk`
and the step to the next. A try takes everything that was there when it began,
up to the room left, if no other thread came to that producer meanwhile;
otherwise any number up to that. This is what `CountsAgree` of `Producer` gives:
a lone consumer's claim is not in doubt, and one that competes may be cut down
to nothing although items are there. `seen`, `alone`, `raced` and `stayed`
record this for the properties.

### KvRdmaMr and the code

A region is its first byte and its length; an address does not wrap, the
`uint32_t` of a length in a scatter/gather entry does. `Word` is 2^32. The
module has operators only: `AllocReq`, `AllocResp`, `AllocBulk` and `MrsGet` for
the four functions that make regions, `SendSge`, `FirstRecv`, `NextRecv` and
`RespSge` for what is posted, `GetId` and `GetEle` for the immediate data.

## Properties

- `SlotConserved`: each slot is in exactly one of shared receive queue,
  completion queue, a poller's batch, handler, send queue, wire; once.
- `RequestConserved`: a submitted request is in exactly one place until its
  callback, and in none afterwards.
- `ResponseMatches`: a waiting response completion finds, by the immediate
  data alone, a context in use of an outstanding request, and the right answer
  in the response buffer.
- `PoolNoLeak`: an element that is not in the pool is in use. This is about steps
  that succeed: the `fail:` branch loses its element in line 408 and ends the
  module there.
- `ResponseFindsRecv`: a response never arrives at a queue pair without a receive.
- `HandlerViewStable` (action): buffer and context of a slot do not change
  between its receive completion and its response.
- `NoFault`, `NoRnr`: in the sized instance no process dies, up to the first
  connection that breaks, and none breaks.
- `EveryRequestCompletes` (liveness): also of a request whose response waits in
  the array of a poller while the callback of another sends again; unless a
  connection breaks first. `EverySlotReturns` (liveness).
- `ServiceSafety`, `ServiceSpec`: `KvRdmaRpc` implements `RpcService`, without
  and with liveness, up to the first connection that breaks. A request is *served* from `OnRecvReq` until its callback;
  the answer counts once the pair is the application's again.

Of `KvRdmaConn`:

- `NoFault`: no assertion of the pollers fails and nothing freed is used.
- `RightConnection`: a request is handled and answered on its connection,
  although queue pair numbers are reused.
- `TableMatchesQps`: the table is the set of live connections but the dying
  one, without two of a number.
- `SlotLostOnlyByDisconnect`: a slot that is nowhere any more was taken away
  by the end of a connection. Each disconnect may cost slots, for good.
- `ConnectionsSettle` (liveness): a connect is answered, or an event without a case
  (`stuck`, whose callback never runs) ends it; a disconnect, whenever it comes, ends
  on both sides; or the process dies of a completion with an error. All this provided
  that the threads of the connection managers leave the loop of `rdma_cq_poller`
  again and again (`PollersReturn`). Nothing in the code sees to that: without the
  premise TLC finds a client that goes on sending from its callbacks, on a
  connection that has broken and flushes each request at once, so that the
  completion queue is never found empty and no event of another connection handled.
- `AssertConn`, `AssertImm`, `CallbackMayDisconnect`: single
  faults, for the runs below that reach them.

Of `KvApp`:

- `EventPoolLasts`: every message not on its way is back in the event pool,
  which `kv_app_send` takes from without a check; the pool of the instance is
  exactly as large as the peak, so that a message that is not put back shows.
- `StopsOnce`: SPDK is told to stop at most once, whoever calls `kv_app_stop`.

Of `KvRdmaFini` (an end is *orderly* when `kv_rdma_fini` is called on the
handle's thread and no first connection is made after the call):

- `OrderlyIsSafe`, `FreedWhenQuiet`: an orderly end uses nothing freed, and
  frees only when no poller is registered and no message is left. This rests on
  the order of one sender's messages; a call on another thread, or a late first
  connection, breaks it (the handle is freed while pollers are counted).
- `CountMatches`: `io_cnt` is the number of reports outstanding, orderly or not.
- `FiniCompletes` (liveness): the final callback runs, once, unless a thread of
  the handle stops before: its messages are then never handled.
- `AppEnds` (liveness): when every thread has called `kv_app_stop` the
  application ends.

Of `Producer`, for both kinds of sub-queue:

- `CountsAgree`: the claims of the consumers, less what was given back, are
  what was taken and what is in doubt. If this drifted, items would stay in the
  queue for ever, and the pool would shrink.
- `HeadBehindTail`: the comment "this will never exceed tail" of the code.
- `AssertsHold`: the assertions of the code. Explicit: no place is emptied
  twice. Implicit: a consumer finds the entry of its block, and the block in it.
- `OneOwner`: a block of an implicit producer is in the free list, entered in
  the index, with the producer or with the consumer that emptied it; in one of
  these, once.
- `EndsClean`: whenever nobody is in the queue its destructor would find each
  item that was not taken, and give each block back once.
- `FifoSpec`: the sub-queue implements `SubQueue`: an item is taken at the
  increment of `headIndex`, although it is read later.

Of `TokenQueue`:

- `ElementsConserved`: an element is in one place, once: in a sub-queue, on its
  way out in a dequeue, or outside. No two threads get the same, and a dequeue
  that goes on from one producer to the next loses nothing.
- `BatchFits`: it does not bring more than there is room for.
- `EmptyIsTrue` (action): a dequeue nobody was in the way of comes back with
  less than it was asked for only if it leaves nothing behind.
- `NothingStarves` (liveness): every message is taken at last, however many
  others are sent: the quota makes the consumer rotate.

## Runs

The RPC runs use two buffer pairs: with two requests
every interleaving of two users of a pool, a queue or a slot occurs.

| run | instance | shows |
|---|---|---|
| `rpc_safety` | 2 client and 2 server threads, 2 pool elements, 2 slots, depth 1, `AckInOrder` false | slots, requests and pool elements conserved, a response finds a receive and its request, refinement of `RpcService`; in it the pool runs empty, receives and send queues fill, posts fail and a connection breaks, each of which ends the run |
| `rpc_sizing` | 4 slots, 3 pool elements, depth 2, one poller on each side | no fault, no broken connection; the handler's view is stable (at depth 1 two slots are hardly ever live at once) |
| `rpc_live` | 2 pairs, 1 slot, 3 pool elements, batches of four, one thread on each side | callback and return of the slot are inevitable, also for a request whose response is in one array with another's, whose callback sends again; refinement with liveness |
| `conn_single` | 2 connections, 4 slots, one thread on each side, disconnects when idle | `NoFault`, `RightConnection`, `TableMatchesQps` |
| `conn_slots` | 2 connections, 2 slots, one client and two server threads, deferred responses, disconnects at any time | `SlotLostOnlyByDisconnect`; faults and broken connections occur |
| `conn_live` | 2 connections, one request each, 1 slot, disconnect at any time | connect and disconnect end while the other connection is busy (`ConnectionsSettle`) |
| `conn_threads` | two server threads, disconnect with a request outstanding | violated: `assert(ctx->conn)` (495) |
| `conn_flush` | disconnect with a request outstanding | violated: `assert(wc_flags & IBV_WC_WITH_IMM)` (506) |
| `conn_callback` | two client threads | violated: a callback that disconnects, as the client example does, and the pool freed under `kv_mempool_put` |
| `fini` | 3 application threads, pollers on the last two, batches of two, five messages, `kv_rdma_fini` on any thread, each thread may stop by itself | all properties of `KvRdmaFini` and `KvApp`; faults occur when the end is not orderly |
| `queue_fifo` | either kind of sub-queue, 2 consumers that ask for 1 or 2 items, 5 items, 3 blocks of two (one in the initial pool), an index of two entries | all properties of `Producer` |
| `queue_tokens` | pool and message queue, 2 threads, 3 elements, at most 2 at a time, quota 2, an offset that wraps at 2 | all properties of `TokenQueue` |

What the connection runs say together: with `thread_num` 1 and a client that
is idle when it disconnects the library is sound, whether the handler answers
at once or later. `conn_flush` drops the idle client, `conn_callback` the single
client thread, and `conn_threads` both the single server thread and the idle
client. With two server threads and an idle client every request of the instance
finds its connection (495), since it was answered before the disconnect, but the
assertion on the connection's `is_server` (474) reads a freed connection: the
completion of the last response may be in the other poller's array. With one
server thread line 495 is safe whatever clients do (`OneThreadFindsConnection`). Two connections are enough for
the reuse of a queue pair number and for completions of a freed and a live
connection in one array.

The sizing runs answer a question the API leaves open: how large must
`con_req_num` be? One slot per outstanding request is not enough, because the
client may reuse its buffers before the server has seen the write completion
of the previous response. Twice the outstanding requests suffice with one
server poller. More pollers need more, because a batch held by a slow poller
keeps its slots. The pool needs an element per outstanding request and one per
thread, because `kv_mempool_put` follows the callback. `rpc_sizing` is as
tight as `NoProcessDies` and `NoConnectionBreaks` (see *Proofs*) allow: with one
slot, one element or one entry less TLC finds a fault or a broken connection.

Two connections occur in the connection runs only; in the data path they share
nothing but completion queues, arrays and slots, and the completions of one
connection already meet there in any order. The model keeps the depth `MaxQ` of
a queue pair and the number of slots apart, although the program gives both
`MAX_Q_NUM` as their limit, so that each can run out by itself. It does not
bound the completion queue, which has 3 * `MAX_Q_NUM` entries: one connection
needs at most two thirds of them, a second busy one of the same client could
overflow it.

In `fini` the bounds bind: five messages are the most that are ever on their
way, and a batch of two lets an unregistration wait behind another task of its
thread. Three threads are the library's two and one outside it.

Five items in three blocks of two fill the ring and go round it, or free blocks
and take them again; with an index of two entries the third block makes the
index grow while a consumer still works with the old one. The quota of two and
the offset of two values make a token rotate and wrap within a few dequeues.

`MaxOvercommit` is 1 in `queue_fifo`, so no dequeue starts once a claim has been
given back; those under way go on. The counters without this bound are the
subject of `CountersAgree` and `NeverPastTail`.

`queue_fifo` and `queue_tokens` bear out what `KvApp` and `KvRdmaRpc` take for
granted of a queue, with one reservation. A consumer that claimed too much gives
it back later, and until then another one may find nothing although an item is
there (the header says "not guaranteed to be empty"); `EmptyIsTrue` therefore
speaks of a dequeue nobody was in the way of. So `kv_mempool_get` can return
NULL from a pool that is nearly, not quite, empty. `rpc_sizing` and `rpc_live`
have one client thread, which is alone with its pool; with several the pool
needs elements to spare.

Runs that set `CHECK_DEADLOCK FALSE` contain real stops: a process that died,
a connection that broke, a handle that is finished, or
the bounds of the queue.

Fairness (`rpc_live`): reactors keep calling their pollers, a poller works off
its array, a call and a callback end, the handler answers, the fabric
delivers. `ClientPoll` and `MempoolPut` need strong fairness since a new call
on the same thread disables them for a while; the application is not obliged
to call. Nothing is assumed of `SendReq` and `RnrNak`. In `conn_live`
the connection manager's events have strong fairness for each connection: an event
that finds its thread in the reactor again and again, out of the loop of
`rdma_cq_poller`, is handled. It says nothing of a thread that stays in that loop,
which is what the premise of `ConnectionsSettle` is about. Nothing is
assumed of the application and of errors. In `fini` the start goes on, reactors keep
polling, and calls of `kv_rdma_fini` and `kv_app_stop` return; nobody has to
call them. In `queue_tokens` the one consumer of a message queue polls for ever,
as `msg_poller` does; no thread has to use a pool. The instance of `rpc_live`
has one slot and one payload because the state graph with two pairs and two slots
is too large for the temporal check: a request may find no slot and break the
connection, but the slot may also be back in time, and then both responses can be
in one array. `EveryRequestCompletes` and `EverySlotReturns` count a broken
connection as an end, the liveness of `ServiceSpec` supposes that none breaks; none
of them excuses a process that dies.

## Proofs

TLAPS proves what follows for every value of the constants, from the
assumptions of the modules: sizes are positive (`SizeAssumption`,
`TokenAssumption`, `AppAssumption`), a block of the queue has more than one
item (part of `SizeAssumption`; the `static_assert` at `concurrentqueue.hpp:795`),
`None` is no other value (`NoneAssumption`, `ConnAssumption`). Where a theorem
needs more it says so.
An invariant was checked with TLC before it was proved.

Slots of the data path (`KvRdmaRpcProofs`):

- `TypeCorrect`. `TypeOK` is not inductive: a request that is delivered
  becomes the slot's message, so header and payload must have been written.
  `Typed` adds `RequestFilled` and `SlotFilled`; one lemma per action.
- `SlotsConserved`. `SlotInOnePlace` and `SlotQueuedOnce` are inductive
  relative to `Typed`. Each step either leaves the places alone or moves a
  set of slots from one place to another (`SlotsMove`); the queue lemmas
  (`TailSlots`, `AppendSlots`, `PollSlots`) say which.
- `HandlerViewIsStable`. A slot the fabric writes is in the receive queue and
  a context `on_recv_req` writes belongs to a slot in a poller's batch, hence
  neither is live, respectively served.

Requests of the data path (`KvRdmaRpcProofs`, `KvRdmaRpcRequestProofs`):

- `AlwaysRequestInv`: `RequestInv` is inductive. It joins `Typed` and
  `SlotConserved` with three parts that need each other. `RequestsSited`: a
  busy pair is in one place, once, from a thread in `kv_rdma_send_req` to a
  poller's array, as for slots; a place is found by the pair in it, and for a
  response completion that pair is the one in the context the immediate data
  names. `RequestHolds` therefore says of every place that header, context,
  slot and buffers there still belong together: the identifier in the header
  names an element in use whose context points back to the pair.
  `CallbackHolds`: the element of a running callback is in nobody else's hands,
  so that what it puts back is not in the pool already.
- `RequestsConserved` and `ResponsesMatch` follow from it.
- `PoolNeverLeaks`, as long as no call fails and no connection breaks, needs
  `OneElement` too: no two connections have an element
  in use for one request, or a callback could put back only one of them.
- `ResponsesFindRecv`: `RecvPerRequest` says that a connection has a posted
  receive for each request between its `ibv_post_send` and its response. It is
  a statement about the cardinality of a set that every step of the wire leaves
  alone.
- `ImplementsService`: up to the first connection that breaks the detailed
  specification implements `RpcService`; a flushed receive may fail the callback of
  a handled request afterwards, which the service does not promise. The
  initial states map to its initial state, and under `RequestInv` every step
  is a step of the service or leaves its variables alone; that the callback
  finds the answer to this request is `ResponseMatches`, that a request which
  fails has not been handled is that it is in one place.

Sizing of the data path (`KvRdmaRpcRequestProofs`), if acknowledgements are not
overtaken (`AckInOrder`); without that a queue may be full of entries that only
wait to be acknowledged, and no size is enough. Reliable connections do not
guarantee this order, so the two theorems are no more than what sizes can do:

- `NoProcessDies`, up to the first connection that breaks, supposes `Sized`: besides
  `AckInOrder`, a queue pair is at least as deep as there
  are buffer pairs, and the pool has an element for each pair and each client
  thread. `PoolInv`: an element that is out belongs to an outstanding pair or to
  the callback of a thread. `RecvInv`, `RecvExact`: a posted receive belongs to
  a request between its two posts and its response. `SendInv`: behind any place
  of the client's completion queue, the completed and acknowledged sends of a
  connection are no more than the responses behind it and the requests still at
  the server, since the acknowledgement came before the response.
- `NoConnectionBreaks` supposes `SlotsSized`: besides `AckInOrder`, a slot for each
  pair, another for each pair and connection (with one connection: two for each
  pair) and, if there are several server threads, a batch for each. A slot that is not posted
  has a request of a pair of its own, or its response is written
  (`SlotIsSomewhere`). Of the written ones `WriteInv` says that a connection has
  at most one for each pair (`WritesApart`): if the client uses the pair again,
  the write completion is in the one completion queue before the new request
  (`WriteFirst`). In the array of one of several threads it may stay behind, hence the
  batches (`Late`).

Connections (`KvRdmaConnProofs`), for all sets of connections, queue pair
numbers, slots and threads:

- `TableIsExact`: `TableMatchesQps` needs in addition that the dying
  connection, which has left the table, is still live and that its number too
  differs from the others. `TableInv` is that; every action that leaves table,
  numbers and server states alone keeps it by one lemma.
- `SlotsOnlyLostByDisconnect`: `SlotInv` says that a slot is in one place at
  most (`InOneSite`, `QueuedOnce`) and, for each place, which connection the
  request in the slot came from (`SlotsTraced`). Without the latter nothing
  could be said when a connection is freed and what is under way on it
  vanishes: these slots must be traced to it, not to a live connection.
  `PostedFirst` covers the time before the first connection, whose handler
  posts the slots.
- `OneThreadAnswersRight`, `OneThreadFindsConnection`, `OneThreadUsesNoFreed`:
  a server with one thread, as `kv_rdma_server.c` initialises it (line 22),
  finds the right connection and reads no freed one, however clients disconnect
  and although queue pair numbers are used again. They do not say that no assertion
  fails: a write that failed when its client went away may be dispatched to
  `on_recv_resp`. `OneThread` also supposes that `rdma_destroy_qp` removes the
  completions of the queue pair (`Purge`). The invariant `Straight` says that
  whatever is in the completion queue, in the array of the thread and on the
  wire is for the connection its request came in on, and that this one is not
  freed: the thread that frees it has left `rdma_cq_poller`, with nothing in its array. The third
  theorem is about a handler that answers at once; one that answers later may
  find its connection freed. `conn_threads` shows that the second fails with
  two threads.
- `ConnTypeCorrect`, for all values of the constants. What is not obvious is
  that `pend`, the number of outstanding requests, never goes below zero:
  `ClientInv` says that it is at least the responses that wait at the client
  and the receives still posted, of which each response uses up one.
- `OneThreadNoFault` is about both processes: one thread on each side, clients
  that are idle when they disconnect, a handler that answers at once
  (`SlotsEnough`). All of this rests on there being no completion with an
  error, since of such a completion nothing is defined; so it also needs slots
  enough for no request to be refused: two for each request that any of the
  connections ever made may have outstanding. The slots a disconnect takes away are
  not given back, so the number is one for the whole life of the server:
  `con_req_num` slots are enough for a bounded number of connections, which is what
  the theorem shows, and not for any number of them. `UsedFits` bounds the slots of a
  connection, open or not, that are not posted again; `HeldFits` those that are
  answered but not reposted, at every place of the line the server's
  completions stand in, and `AwaitFits` those whose answer the client waits for.
  `QuietInv` collects the rest: all completions of clients succeed, and one
  that closes has nothing outstanding.

The end of a handle and of the application (`KvRdmaFiniProofs`), for all
numbers of threads, pollers and messages:

- `StopsAtMostOnce`. That SPDK is told once follows from three facts. A thread
  that is about to write the mask holds the lock and has read what the mask
  still is, so it cannot bring back threads that an error has taken out
  meanwhile (`Writer`); the call of SPDK and the empty mask come together
  (`ToldWhenEmpty`); and nobody enters when the mask is empty. The third part
  of `StopInv` is the type of what `kv_app_stop` uses.
- The other theorems are about messages, which lie in a queue for each pair of
  threads and in the batches. `Moved` describes a step by the messages that go
  and those that come: the others are *carried*, by a bijection that keeps their
  thread and function and lets none overtake another (`Carries`). That a bulk
  dequeue does so, from several senders at once, is `PollCarries`; that the end
  of a task and sending do is `DoneCarries` and `SentAdds`. From there on a step
  changes four numbers (`Tally`): the first task, registrations, reports (orders
  to go included) and final callbacks.
- `AlwaysTyped`, `CountAlwaysMatches`, `EventPoolSuffices` follow from
  `FiniInv`. Its heart is `Counted`: while the handle lives, `io_cnt` is the
  number of reports plus the pollers `kv_rdma_fini` has still to tell. The rest
  says what the number cannot (`Started`, `Called`, `Freed`): no report before
  the call and none once the handle is freed. None of this needs an orderly end.
  The event pool has to hold two messages for each poller and one more; the
  code's has 262143.
- `OrderlyEndIsSafe`, `FreedAlwaysQuiet` need the order of messages.
  `OrderlyInv`: where a registration and an order to go are under way to one
  thread, the first comes first (`Ordered`), because both were sent by
  the handle's thread; so when the order is handled the registration has been.
  `Covered`: for each poller that has been told and is registered, or will be,
  the order is still under way. At the last report the number is one, hence no
  order is, hence no poller (`Quiet`); and `kv_rdma_fini` has left its loop,
  since the report is handled on the same thread.

Memory regions (`KvRdmaRpcRequestProofs`), for all sizes, counts and addresses
(`WordAssumption`):

- `SlicesDisjoint`: the slots of a bulk do not overlap. `RequestInside`,
  `RequestInOwnSlot`: a request of the size its buffer and the slots were made
  for is sent from inside its buffer and received inside its slot.
  `AssertionTooWeak`: the assertion of `kv_rdma_send_req` compares the size
  without the header, so it does not say this; the condition is the caller's.
  `FirstReceiveTooLong`: the first receive of a slot is posted with the length
  of all slots, the later ones with the slot's own; they differ for messages
  that are too long. `IdNamesElement`: the immediate data names one context.

One sub-queue of the lock-free queue (`ProducerProofs`, `ProducerListProofs`,
`ProducerIndexProofs`), for all numbers of consumers and block sizes and for
either kind:

- `CountersAgree`, `NeverPastTail`. The sums over the consumers are the sizes
  of sets of pairs, of a consumer and one of its items, so that one consumer's
  step changes them by its part (`TotalChange`). Of `CountInv`, `Agreed` is the
  first theorem. For the second a claim has to be followed from
  `dequeueOptimisticCount` to `headIndex`: an item is *decided* when the head
  is past it or the claim for it has been compared with the tail. `ClaimsFit`
  says that a claim that has not been compared comes so far behind the decided ones
  and the earlier ones that, if the comparison finds it in front of the tail,
  there is an item for each (`DecidedThere`); it may only give back more than
  it must. `ClaimsOrdered` gives each claim a place of its own.
- `AlwaysCountInv` states the invariant itself.
- `TakenOnce`: `RangeInv` says that a consumer's claim, from `first` to
  `first + count`, lies below the head, that the place it has come to lies in it,
  and that two claims do not overlap.
- `TypeCorrect`, `AssertionsHold` for an explicit producer
  (`ExplicitTypeCorrect`, `ExplicitAssertsHold`): the producer's blocks are
  numbered in the order of the items, number `n` having the items from
  `BlockSize * n` on. `ExplicitWell(ring, shift)` says of the numbers that are
  still in the ring (`Ringed`) which block each is in (`ring[n]`), that they
  are linked in this order (`RingLinked`), that the newest index lists them
  (`RingListed`), and that a place is marked empty just if its item is gone
  (`FlagsRight`). What makes it inductive is the part about the old indices, which
  consumers go on reading: in every index `v`, whatever it still says, the
  place of number `n` is `shift[v] + n` modulo the index's size (`Congruent`),
  so that the search from the front of an old index ends at the right place,
  and that place has the right block for every item the consumer has yet to
  take (`FindsAll`). A block is taken again for other items only when it is all
  marked, so none of its items is still to be taken (`KeptInRing`). `ring` and
  `shift` are functions that exist (`ExplicitInv`), and not variables: each
  step keeps them or gives the new ones.
- `TypeCorrect`, `AssertionsHold` for an implicit producer, and
  `OneOwnerAlways`. Blocks are numbered as before, but a block leaves the list
  when its last item is gone and comes back with another number, so the
  invariant `ImplicitWell(ent, blk, shift, low)` says which numbers are
  *entered*: those begun that have an item left, or whose last consumer has not
  yet cleared the entry. An entered number `n` has an entry `ent[n]`
  with its key and its block `blk[n]`, and no other entry has a block
  (`EntriesRight`). A number *has a block* until that consumer
  has put the block on the free list; two numbers never have the same, and a
  block that is not free belongs to one (`BlocksRight`). `CountsRight`: the
  number of items taken out of a block, counted by consumers that do not know of
  each other, is that of the items of its number that are gone; hence exactly
  one consumer finds it full and empties the block (`EmptiedByOne`). `OneOwner`
  follows by counting.
- That consumers find the entry is again about indices of any age, which here
  share their entries. `KeysCongruent`: whatever an index `v` says, a place `p` of
  it that leads to a number `k` has `p - k` congruent to `shift[v]` modulo the
  size of `v`. A consumer that computes the distance from the tail it loaded
  therefore arrives at the place of its number, although tail and keys were
  overwritten since. `SeeksIn` says that this place leads to `ent[n]`, for as long as the
  consumer has an item of `n` to take: an entry is used for another number only
  when its block is gone, hence no item is left to take from it. An index that
  grows copies its places in order, so it gets a `shift` of its own and the
  old ones stay (`GrowHeaderGrows`). `low` is the first number the newest index has a key for;
  below it places are still without one. The attempt of an enqueue that finds no memory and takes its
  entry back leaves a key without a block behind (`ListByRewind`, the last case of
  `NumberedAs`).

The queue with its tokens (`TokenQueueProofs`), for all numbers of threads and
elements, batch sizes, quotas and ranges of the global offset; a batch is not
larger than the quota (128 and 256 in the code):

- `NothingLostOrDoubled`: a step either puts an element (`IsPut`), moves the
  front of a sub-queue behind what a call has got (`Moves`), or returns a
  call's elements (`Returns`); each lemma maps a place after the step to the
  place the element came from. `QueueInv` adds that a token that has moved is
  at a producer (`Placed`) and that a call has room for exactly what it has
  not got (`RoomLeft`), from which `BufferSuffices` follows. `QueueTyped` is
  the type invariant.

How the invariants were checked before (the counts are those of the instances as
they were when the proof was written): `RequestInv` and `OneElement` on the
instance of `rpc_safety` (363 390 states) and on one with two connections (more
than five million states, not to the end); `SlotInv` with `TableInv` on that of
`conn_slots` (1 801 299 states); `Straight` with one server thread, two
connections and two slots, disconnects at any time (87 371 states with a
handler that answers at once, 100 335 with one that answers later); `CountInv`
on that of `queue_fifo` (342 096 states), `ExplicitWell` on its states with an
explicit producer (125 964) and on an instance with an index that grows twice and
four blocks (555 563), `ImplicitWell` on its states with an implicit producer
(216 132); `FiniInv` and `OrderlyInv` on that of
`fini` (167 806 states); the parts of `SizingInv` and `SlotsInv` on that of
`rpc_sizing`; those of `ConnInv` on that of `conn_single` (25 795 states) and on
one with a connection that may have two requests outstanding (2 213 states).

Only model-checked:

- liveness (`EveryRequestCompletes`, `EverySlotReturns`, the liveness part of
  `ServiceSpec`, `ConnectionsSettle`, `FiniCompletes`, `AppEnds`, `NothingStarves`): it rests on fairness, which the prover does not handle;
- of `Producer`, `EndsClean` and `FifoSpec`. The parts they rest on are proved
  (`TakenOnce`, the places and blocks of the items in use), but not what blocks
  hold: that an item is stored before it is read, and not overwritten;
- `EmptyIsTrue` of `TokenQueue`.

## Not modelled, and the plan

Not modelled:

- `kv_rdma_fini` with connections still open, as in `kv_rdma_client.c`, where
  the event channel is closed while a disconnect is under way;
- `kv_rdma_listen` called on another thread than the connection manager's, so
  that a request could come before its fields are set;
- buffers and contexts after a connection has broken: `KvRdmaConn` has the
  completions with an error, without data; and the bound of the completion queue;
- inside the queue: contention in the free list, the hash table that finds the
  implicit producer of a thread, bulk enqueues, dequeues without a token, moving
  and swapping. The program calls none of them, or not concurrently;
- `kv_app_send_msg`, which hands a function over to SPDK, and the functions that
  deregister memory, which have no condition and no result;
- `kv_msg.h`, whose macros nobody uses, build files and scripts.

Next:

1. Proofs: the order of `FifoSpec` from `TakenOnce` and `CountInv`, and `EndsClean`
   from `ExplicitWell` and `ImplicitWell`.
2. `KvRdmaFini` with connections still open when the handle ends.
