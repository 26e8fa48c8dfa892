# TLA+ models of the ch_gen2 device of MVAPICH

This directory holds TLA+ specifications of MVAPICH (MPI-1 over InfiniBand),
the TLC configurations that check them on small instances and TLAPS proofs of
their main properties for every value of the parameters. The modelled code is
the device `src/mpid/ch_gen2`; the MPI layer above it (`src/src`), ROMIO and
the other devices inherited from MPICH are outside.

## 1. The system

An MPI job is a set of processes. Every process runs one thread in MPI (plus
small helper threads of the device). All progress happens inside MPI calls:
`MPID_DeviceCheck` polls the completion queue, the RDMA rings and the
shared-memory queues and calls a handler per event. Between each pair of
processes on different nodes there is one reliable InfiniBand connection
(`viadev_connection_t`), between processes on one node a shared-memory ring.

| Component | State | Operations | Interaction |
|---|---|---|---|
| Credit flow control (viapriv.c, viacheck.c, viarecv.c, viasend.c) | per connection: remote_credit, local_credit, remote_cc, preposts, initialized, backlog, extended send queue, sequence numbers, rendezvous_packets_expected | post_send, backlog_send, process_send, handle_flow_control_sr, noop, prepost_for_rendezvous, process_flowlist | credits ride in the header of every packet; a packet that brings credits sends the backlog and restarts R3 transfers |
| Rendezvous (viasend.c, viarecv.c, viacheck.c) | per message: shandle, rhandle, registered buffers, protocol | start, reply, push (RPUT, RGET, R3), finish | start and reply are credited packets; RPUT and RGET data are RDMA operations without credits |
| RDMA eager fast path (viapriv.c, viacheck.c) | per connection and direction a ring of buffers with head, tail, credits | post_fast_rdma, poll_rdma_buffer, release_recv_rdma | credits of the ring ride in every header; packets of ring and queue share one sequence |
| Shared receive queue (viacheck.c) | posted buffers, srq_zero_post_counter, a mutex, a condition, a limit thread | handle_flow_control_srq, limit event, async_thread | the HCA raises a limit event; the thread refills and sleeps until the main thread frees buffers |
| Coalescing (viacoalesce.c) | per connection one open vbuf | append, flush | flushed by the completion handler and by other sends |
| On-demand connections (cm.c, cm_user.c) | per peer a state, pending requests, a UD queue pair, timers | connect, request, reply, ready, timeout | a thread of its own that shares the connection table with the MPI thread |
| Registration cache (dreg.c, avl.c) | entries with reference count, LRU list, list of areas of pages | register, deregister, evict, invalidate | called by rendezvous; hooks of malloc invalidate entries |
| Network fault recovery (nfr.c) | retained packets, recovery state per connection | restart, reconnect request and reply, retransmit | replaces queue pairs, replays packets not acknowledged |
| Vbuf pool (vbuf.c) | free list, regions | get, release, grow | used by everything that sends or receives |
| Intra-node channel (mpid_smpi.c) | per pair a ring in shared memory, per process pending sends | write, read, rendezvous | polled by DeviceCheck |
| Collectives in shared memory (shmem_coll.c, intra_fns.c) | flags and buffers per communicator | barrier, bcast, reduce, allreduce | processes of one node spin on flags |
| Launcher (process/) | sockets, process table | spawn, exchange of addresses, abort | outside the device |

Hard behaviours: both sides send at once and each step of one interleaves with
each step of the other; a packet may wait on the backlog, on the extended send
queue, on the wire, or in a receive buffer; progress is made only by events;
thresholds decide whether an event is produced at all; helper threads share
state with the MPI thread.

The rest of the repository has no part in the protocols above: the MPI layer of
MPICH (`src/src`: communicators, datatypes, topologies, collectives over
point-to-point), the devices inherited from MPICH (`src/mpid/ch_p4`,
`ch_shmem`, `globus2`, ...), ROMIO, MPE, the C++ and Fortran bindings, the
examples and benchmarks. `PROJECT.json` lists each with the reason it is not
modelled.

### What makes each component correct

| Component | Correct when |
|---|---|
| Credit flow control | every credit stands for a posted buffer; packets keep their order through backlog and extended send queue; nobody waits for credits that are never sent |
| Rendezvous | one reply and one finish per start, data complete before either request is; a transfer that stops for credits is resumed |
| Fast path | a slot of the ring is written only when its reader and its sender are done with it; a message is taken only when complete; order across ring and queue |
| Shared receive queue | the limit thread never sleeps while the queue is short and nobody will wake it up |
| Coalescing | a message put into the open vbuf leaves it, in order with what is sent around it |
| On-demand connections | one connection per pair however requests cross, get lost or are repeated; queued sends go out once and in order |
| Registration cache | memory in use stays registered; counts, list and table agree; the pinned pages stay below the limit |
| Fault recovery | what was not acknowledged is replayed once, in order |
| Intra-node channel | the ring is never overrun, a header is read only when written, pending sends keep order |
| Shared-memory collectives | nobody leaves a barrier before everybody entered it; a buffer is not reused while somebody reads it |

## 2. Modules

The order is the weight of the component in the system.

| Modules | What they are | Proofs |
|---|---|---|
| `FlowControl`, `MCFlowControl` | one connection in send/receive mode | `FlowControlProofs` |
| `OrderedDelivery` | the abstract promise of a device to the MPI layer, which the next three implement | |
| `ConnMgmt`, `MCConnMgmt` | the set-up of connections | `ConnMgmtProofs` |
| `RdmaSlot`, `MCRdmaSlot` | one buffer of the RDMA ring, word by word | `RdmaSlotProofs` |
| `FastPath`, `MCFastPath` | the ring next to the queue, one sequence for both; a message lands in one step, which `RdmaSlot` justifies | `FastPathProofs` |
| `Recovery`, `MCRecovery` | network faults: the reconnect of two threads at each end and the retransmission | `RecoveryProofs` |
| `SharedQueue`, `MCSharedQueue` | the shared receive queue, its limit thread and the R3 window that replaces the credits | `SharedQueueProofs` |
| `RegCache`, `MCRegCache` | the registration cache and the hooks of the allocator | `RegCacheProofs` |
| `SumTheorems` | sums over finite sets and sequences, for the accounts of credits and bytes | its own |

`OrderedDelivery` is composed with `ConnMgmt`, `FastPath` and `Recovery`, each
with its own refinement mapping. How the models meet: `FlowControl` starts where
`ConnMgmt` ends (both queue pairs ready, counters at their initial values, which
`EndsMatch` is about); `Recovery` resets the same counters (`AcksAreExact`);
`SharedQueue` replaces the credits of `FlowControl` by its window; a rendezvous of
`Recovery` or `FlowControl` holds an entry of `RegCache` for its time.

## 3. FlowControl

### Correspondence

There are two processes and one reliable connection. `conn[p]` is the
`viadev_connection_t` of `p`, field for field (`remote_credit`,
`local_credit`, `preposts`, `initialized`, `remote_cc`, `send_wqes_avail`,
`ext_sendq_size`, `backlog`, the two sequence numbers,
`rendezvous_packets_expected`). Handlers are compositions of operators on that
record, called in the order of the code:

| Operator | Code |
|---|---|
| `PostSend`, `Transmit`, `Enqueue`, `ExtSendqSend`, `BacklogSend` | `viadev_post_send`, `viadev_ext_sendq_queue/send`, `viadev_backlog_send` |
| `SendNoopIfNeeded`, `SendNoop` | `viadev_send_noop_ifneeded`, `viadev_send_noop` |
| `Replenish`, `Initialize`, `Repost`, `ReplenishR3`, `AbsorbCredits` | the statements of `viadev_handle_flow_control_sr`, in order |
| `PrepostForRendezvous`, `RecvR3` | `viadev_prepost_for_rendezvous`, `viadev_recv_r3` |
| `ReceivePacket` = `SendNoopIfNeeded` of `Dispatch` of `Accept` | `viadev_process_recv` |

| Action | Code |
|---|---|
| `FinishInit` | the end of `MPID_Init` (`viadev.initialized = 1`) |
| `EagerSend`, `EagerContinue` | `viadev_eager_ok` and the packet loop of `MPID_VIA_eager_send`, one packet per step |
| `RendezvousStart` | `MPID_VIA_rendezvous_start` with protocol R3 |
| `MatchUnexpected` | `MPID_VIA_Irecv` on an unexpected R3 start |
| `Land` | the HCA writes a packet into a posted buffer |
| `ProcessSend` | `viadev_process_send` |
| `ProcessRecv` | `viadev_process_recv` with all it calls |
| `RendezvousPush`, `PopFlowlist` | one packet of `viadev_rendezvous_push`, the end of `viadev_process_flowlist` for this connection |

`app[p]` is what MPI has in progress: sends started, unexpected R3 starts,
transfers at `shandle_head`, membership of the flow list and whether the process
is inside the eager loop or the push loop. A process never polls inside the
eager loop, so the `pc` decides what may happen. `out` holds every packet that
has paid its credit and was not polled by the other side; where in it a packet
is (extended send queue, work request, wire, receive buffer) follows from three
counters. Three history fields (`granted`, `absorbed`, `noop_spent`) count
credits and NOOPs for the properties and are read by no guard.

### Runs

| Run | Bounds | Shows |
|---|---|---|
| `fc_safety` | 3 sends (two of one side, one of the other) of 1 or 3 eager packets or 3 R3 packets; one work request | all safety properties, 1.6 million states |
| `fc_liveness` | one send each, at once, one credit each, R3 messages longer than the credits | every packet, transfer and rendezvous of both sides ends, 33 thousand states |

`AccountsAreExact` ties the history fields to the packets and
`rendezvous_packets_expected` to the data packets that are really to come. Why the
bounds are enough: `Depth` = 5 with thresholds 2 and 3 is the smallest choice
where the two NOOP thresholds differ, the connection starts below its full depth
(so `Initialize` has work to do) and rendezvous extras are needed. `SqSize` = 1
makes every second packet wait on the extended send queue. `InitialPrepost` = 3
leaves one or two credits at the start, so that packets of a message of three wait
on the backlog and leave it in one burst. Sequence numbers are `uint16_t` in the
code and unbounded here; the window of packets between the two ends is limited by
the credits and the backlog, far below 2^16, and both ends only compare for
equality.

Deadlock is not checked in these runs: the bound on sends lets the system come
to rest, and what rest may look like is the business of `EventuallySettled`.

### Fairness

`WF(Progress(p))` and `WF(Land(p))`. A process that waits inside MPI calls
`MPID_DeviceCheck` in a loop; all its steps are one thread's and each consumes
work, so one weak condition is enough. Nobody is obliged to start a send. The HCA
delivers (reliable connection; RNR retry is infinite by default). A process that
computes for ever without calling MPI makes no progress; that is a property of
this design and outside the claim.

### Proofs (`FlowControlProofs`)

Proved for all parameters that satisfy `ParamAssumption` (what
`viadev_init_parameters` leaves) and any load: `TypeOK`, `BacklogOnlyWhenStarved`,
`ExtSendqOnlyWhenFull`, `InOrder`, `CreditConservation`, `CreditsAreBacked`,
`RendezvousInitialized`, `AccountsAreExact` and the action property
`EagerKeepsPreserve`; `ReceiveQueueBounded` under one more assumption, below.

None of these is inductive. `IInv` has two parts. `End(c, a, r)` is about one end
`c` whose peer has absorbed `a` credits and accepted `r` packets:

- SendLaw: `remote_credit` = initial credits + absorbed - packets paid;
- RecvLaw: `preposts` + `noop_spent` = reserve + initial credits + granted +
  `local_credit` - packets polled;
- Fresh: before `initialized`, nothing has been promised beyond the initial credits;
- QueuesFit: the three counters into `out` fit its length;
- Stamped: the packets in `out` carry consecutive history stamps, from what the
  peer absorbed and accepted to what this end granted and paid.

The global part says how the ends and the MPI layer fit together (what has landed
had a buffer; no reply goes out before initialization; a process that has not
finished `MPI_Init` has sent nothing). Conservation is SendLaw of one end plus
RecvLaw of the other. InOrder is Stamped at the head of `out`. CreditsAreBacked
adds that at most the reserve was spent on NOOPs. There is a lemma for every
operator of the table above (what it does to `End`), and the step theorem has one
case per action.

`AccountsAreExact` is the last part of the module. Its first half, `HistoryIsExact`,
follows from `IInv`: the stamps of the packets in `out` are running sums of their
headers (`StampSums`, by `CountedSum` of `SumTheorems`), so what was granted and not
absorbed is what the headers still carry. Its second half, `RendezvousAccount`, is
inductive together with `IInv`. `Moves(c, d, x, y, z)` says how many data packets an
operator adds to those expected, asked for and sent; there is one lemma per operator,
and the sums over `out` change as `SumTheorems` says of appended packets, tails and
bursts.

`ReceiveQueueBounded` (`ReceiveQueueTheorem`) is inductive together with `IInv` and
needs one assumption more, `RoomToInitialize`: the initial buffers, less the one just
consumed, and the buffers kept for NOOPs fit into the queue. The loop at viacheck.c:1003
posts the latter without a look at `viadev_rq_size`. By `RoomUnless` the assumption
fails exactly when `InitialPrepost` is at most `NoopExtra` and above `Depth` +
`RendezvousExtra` + 1: not with the defaults (12, 8 or 16, 64, 64), but with settings that
`viadev_init_parameters` accepts, and TLC finds the overflow for Depth = 3, NoopExtra =
InitialPrepost = 6 and RendezvousExtra = 1. Every other loop stops at the size of the
queue (`FillUpFits`), and a NOOP's buffer is posted where one was just consumed; RecvLaw
and Fresh bound what is posted when the connection initializes.

## 4. ConnMgmt

### Correspondence

A rank has three threads. The UD handler (`cm_completion_handler`) and the timer
(`cm_timeout_handler`) hold `cm_conn_state_lock` for a whole message, so each of
their steps is atomic, with one exception that matters: `cm_enable` writes
`cm_conn_state` first and `cm_new_connection` after it, and the MPI thread reads
both without the lock. `Enable` and `MarkNewConnection` are therefore two steps,
during which the lock is held (`handler[p] = "marking"`).

| Action | Code |
|---|---|
| `Accept`, `AcceptAndCancel`, `Enable`, `Ignore` (in `HandleMsg`) | the branches of `cm_handle_msg`, with `cm_accept`, `cm_accept_and_cancel`, `cm_enable` |
| `MarkNewConnection` | the end of `cm_enable` |
| `Resend`, `TimerWaits` | `cm_timeout_handler` |
| `Lose` | the UD service |
| `Isend` | `MPID_IsendContig`: test, `cm_process_queue` or queue |
| `ConnectReq` | `MPICM_Connect_req` |
| `TestNewConnection`, `ScanPeer` | `odu_test_new_connection`, flag and one turn of its loop |
| `PollPacket`, `PollNothing` | `MPID_DeviceCheck`: a packet; on the first one `MPICM_Server_connection_establish` and `cm_process_queue` |

`link[p, q]` holds the client and server state of the code, the queue pair
with its state and the number it is connected to, the sequence numbers and the
queue of sends. `retry[p]` is the list of pending messages, `net` the UD messages
under way. A copy of a message occupies one of the slots `Copies`, so a message
may be lost, delayed, delivered twice and overtake others. A send is one packet.

### Abstract specification

`OrderedDelivery` is what the MPI layer is owed: per ordered pair the sends are
numbered, and each is handed over once, in order. The history variables `submitted`
and `received` of ConnMgmt are the mapping; `ArrivesInOrder`, safety and fairness of
the abstract specification, is `OD!ODSpec`.

### Runs

| Run | Bounds | Shows |
|---|---|---|
| `cm_pair` | 2 ranks, 2 sends each way, 2 copies per message | requests cross, are lost and repeated; all safety properties, and under fairness the refinement: everything sent arrives, in order, 53 thousand states |

`EndsMatch`: when both ends are connected, each has the other's queue pair and the
sequence numbers fit what is on the wire. `RetryMatchesState`: what the timer
repeats is what the state of the link still needs. `TimerAwake`: a pending message
never meets a sleeping timer. `QueuedSendsAreSeen`: a send that was queued on what
an unlocked read of the state returned is sent by somebody. `PostsOnReadyQp`: no
step posts on a queue pair that is not ready to send.

Two sends per direction are the least with which one send waits in the queue
while another meets the connection. A third copy of a message adds nothing the
handler could tell apart, as it keeps no memory of copies. Copies are symmetric,
but symmetry is not sound for liveness and is not used.

### Fairness

`WF` for the steps of the MPI thread, of the handler's second write and of the
timer for each pending message; `SF(PollPacket(p, q))`, since the completion queue
serves every connection in the order of completions, and `SF` for the handling of
messages of one type between two ranks: the UD service does not lose every copy
for ever. Without the last one no protocol over UD could promise anything.

### Proofs (`ConnMgmtProofs`)

Proved for every finite set of ranks, every program of sends and any number of
copies under way (`RankAssumption`, `BoundAssumption`): `EndsMatch`,
`RetryMatchesState`, `TimerAwake`, `QueuedSendsAreSeen`, `PostsOnReadyQp` and the
safety part of `OrderedDelivery` (`SendsArriveInOrder`: `Spec => OD!ODSafety`).

A side of a connection is in one of four stages, `Fresh`, `Client`, `Server`,
`Open`, each of which fixes all its fields (`Stages`). `IInv` adds:

- `Agree`: which stages of the two ends go together (a client never faces an open
  end, a server faces a client or an open end, ...);
- `CopiesAreTrue`: what a copy of a message, however old, still says of its sender: a
  request, that it has left `Fresh` and is a server only towards a smaller rank; a
  reply, that it is a server or open. This is what makes the branches of
  `cm_handle_msg` right when requests cross and old copies come late;
- `RetryIsDue`: a message is on the pending list exactly as long as its sender is in
  the stage that sends it, so `RetryMatchesState` is not only about the types;
- `QueuesAreSeen`: who will post a queued send, for each stage and each place of
  the MPI thread. It holds across the two writes of `cm_enable` because the mark
  (`handler = "marking"`) counts as seen;
- `Ordering`: the sends of a pair are at the receiver, on the wire and in the queue,
  in this order, and the numbers on the wire are those the other end expects.

There is one lemma per action and part. The invariant was a run's invariant in TLC
before it was proved.

### Not in ConnMgmt

Reconnection after a fault, XRC, failing verbs calls (the code aborts or returns
with an error the callers ignore), `MPICM_Finalize_UD`. Blocking progress excludes
on-demand connections (viaparam.c:978).

## 5. RdmaSlot

The receiver of the fast path gets no completion: it looks at memory while the
HCA writes it. `RdmaSlot` is one buffer of the ring, word by word (a word is the
four bytes of a flag), with the sender's copy `sbuf`, the receiver's copy `rbuf`,
the head flag, and the RDMA write, which is placed word by word in the order of
the addresses, as the code assumes. The tail of a message is at a place that
changes with its length, so old tails and old data lie where a new tail may come.

| Action | Code |
|---|---|
| `Post`, with `Filled` and `Flag` | `post_fast_rdma_with_completion` and what its callers write into the buffer before |
| `Place` | the HCA |
| `ProcessSend` | the completion in `viadev_process_send` |
| `Poll`, with `SizeOf` | `poll_rdma_buffer` |
| `Release` | `release_recv_rdma` and the credit that returns to the sender |

`TakenWhole`: what the receiver takes has come to its last word, and is taken
once. `ComesBack`: no message is overlooked. The run `slot_safety` has lengths 1
and 3, so a tail may fall on data, on an old tail or on the left-over rank, and
every value a flag may have occurs as data. `Ids` = 2 makes the number in an
old header equal to the expected one after two laps, much sooner than 2^16 does.
Fairness is that the HCA goes on and both processes keep polling and receiving.
Deadlock is not checked there: a stop anywhere but with the buffer back at the
sender is what `ComesBack` excludes.

Both properties need `SizesFit`: lengths stay below the tag and off the place of
`src_rank`. The code guarantees neither: the second fails in `slot_rank_word`, and
the first with `VIADEV_VBUF_TOTAL_SIZE` above 32 KB, which no check forbids: the
length then runs into the tag bit (vbuf.h:119) and the receiver looks for the tail
inside the data.

`RdmaSlotProofs` proves `SizesFit => (Spec => []TakenWhole)` for buffers and
messages of every size and any data. `IInv` says why looking at the sender's own
copy is enough: behind the message, and before the progress of the write, the two
copies are equal (`Copied`), so a flag that differs from what the sender had at
the tail's place differs from what the receiver has there until the tail comes
(`TailFresh`); the head announces that message and no other (`HeadIsFlag`), and
nothing is under way while the sender may use the buffer or the receiver holds it
(`Quiet`).

## 6. FastPath

### Correspondence

One connection, both directions, in the default mode with a shared receive queue
(no credits on the queue). The ring of each direction has `N` buffers, and a
message lands in one step, head, data and tail: what `RdmaSlot` shows.

| Operator, action | Code |
|---|---|
| `EagerSend` with `FastRdmaOk`, `IsHeaderCached`, `PostRing`, `PostSend` | `MPID_VIA_eager_send`, `fast_rdma_ok`, `search_header_cache`, `post_fast_rdma_with_completion`, `viadev_post_send` |
| `Land` | the HCA: placement at the other side and completion here |
| `ProcessSend` | the completion in `viadev_process_send`: the buffer is not busy any more |
| `PollRing` with `IsNext` | `poll_rdma_buffer`, then `viadev_process_recv` |
| `ProcessRecv` | `viadev_process_recv` for a packet of the queue, up to its loop if the packet is too early |
| `WaitIsOver` | the end of that loop |
| `Receive` = `Accepted`, `AbsorbCredits`, then `FastPathAlloc`, `AllocSend`, `KeepHeader` | the rest of `viadev_process_recv`, in its order |
| `MatchUnexpected` with `ReleaseRecv` | `viadev_eager_pull`, `release_recv_rdma` |

While a process is in the loop (`waiting[p]`) it takes packets from the ring and
does nothing else, as in the code. A message that comes by the ring either finds
its receive and gives its buffer back at once, or stays in it (`unexpected`) until
a receive is posted, in any order. `shandle` is the send each buffer belongs to,
which its completion looks up. A packet whose header was left out keeps its
meaning as a field no action reads; `HeaderDecoded` compares it with what the
receiver makes of it. `lost` counts the credits that `AllocSend` clears, and no
guard reads it.

`FAST_PATH_ALLOC` sets its count of messages to the threshold plus one as long
as the polling group has room (nfr.h:282), so a process allocates its ring on the
first message whatever `VIADEV_RDMA_EAGER_THRESHOLD` is (viaparam.c:144 says it
is the number of messages before it does). The model does what the code does.

### Properties and runs

`NoOverwrite`: what is under way to a buffer finds it empty and given back.
`RingAccount`: every buffer but one is found in exactly one of six places.
`SendsComplete`: the completion of a write completes the send it belongs to;
this is what the busy flag is for, as credits may be back before the completion
is seen. `WaitIsShort`: the loop without limit waits only for what has landed.
`HeaderDecoded`: both copies of the last header agree when it matters.
`ArrivesInOrder`: `OrderedDelivery` once more, with `submitted` and `received` as
the mapping.

| Run | Bounds | Shows |
|---|---|---|
| `fp_ring` | a ring of 3, 5 sends of one side and 3 of the other, sizes as in `OneOfEach` | all of the above, 341 thousand states |

Three buffers are the least with which buffers are freed out of order, two come
back as one run, and two messages of the ring are missing when a later packet of
the queue is polled. The first send of a side finds no ring, four more use every
buffer and then the first again. Three sends of the other side are the least with
which a header that carries credits is repeated and left out. Sequence numbers
are `uint16_t` in the code and compared for equality; no more than the ring and
the queue hold are under way. Deadlock is not checked: the sends are bounded.

Fairness: the HCA goes on, and a process takes what it can from ring, queue or
the packet it holds back (`MPID_DeviceCheck` polls both in every turn). Nothing is
asked of completions, of receives that are posted late or of new sends:
messages arrive without them, by the queue when the ring is used up.

### Proofs (`FastPathProofs`)

Proved for every length of the ring from 2, any set of envelopes and any number and
sizes of sends (`RingAssumption`): `NoOverwrite`, `SendsComplete`, `WaitIsShort`,
`HeaderDecoded` and the safety part of `OrderedDelivery` (`RingAndQueueInOrder`).

`IInv` has one part for the numbers, one for the ring, one for what packets say and
one for the buffers of the sender:

- `InSequence`: the packets that were sent and not accepted have the numbers from
  `expected` to `tosend - 1`, each at one place (wire, ring, completion queue or held
  back), and none is missing. So the packets that a held-back one waits for are in
  the ring: in the queue they would be before it;
- `Stretches` and `Buffers`: positions in the ring, counted without end, fall into
  four stretches with one owner each: polled and not given back, written, free for
  the sender, on the way back as credits. All pointers of the code are the ends of
  these stretches modulo `N`, and no two positions of one lap share a buffer.
  `NoOverwrite` follows: what is on its way is in the second stretch, what is
  unread or waits for a receive is in the first or was placed before;
- `PacketsTell` and `Ends`: a function `view` says what the receiver will know when it
  has accepted the packets before the n-th (messages handed over, whether it has
  the address of the ring, the header that is left out, the tail of the ring). It
  begins with what the receiver knows, ends with what the sender takes it to know,
  and each packet on the way leads from one value to the next. `HeaderDecoded` and
  the order of the messages are read off from it, and so are the credits: the tail
  is one of its fields, and needs no sum over the packets;
- `InUse`: every write that was not completed and polled has a busy buffer of its
  own, which still belongs to the send the write was for.

`view` and the counts without end are bound by a quantifier in `IInv`, no variables
of the model; each step lemma says what the new ones are. Without the typing of
`MaxSends` in `RingAssumption` the guard on new sends says nothing.

The last part of the module adds `RingAccount` (`NoBufferIsLost`). `Balanced` says that
what the writer may use, what is on the wire, landed and taken (`StockOf`), the
credits owed at the other end, those under way (`WayOf`) and those dropped (`lost`)
make `N - 1`. Unlike `RingAccount` it speaks also of the time before a side knows the
address of the ring, where there are no credits at all (`NoRingNoCredits`, which
needs the views of `IInv`). Each step lemma shows which of the terms change by how
much. The pointers count the buffers that a step moves (`FreeAndHeld`, from
`Stretches`: differences modulo `N` are differences on the line), and the credits in
the headers of packets are a sum over wire, completion queue and ring, in which one
packet moves at a time. At the end `TakenIs` turns the distance of head and tail
into the set of buffers that `RingAccount` counts. The liveness of `ArrivesInOrder`
stays with TLC.

### Not in FastPath

Messages of several packets on the ring (`EAGER_NEXT`) and control packets, which
use the same operators; the extended send queue, which keeps the order of both
channels (FlowControl has it); the limit on the polling group; several
connections (the loop polls all rings and takes each connection's packets by the
same rule); the other mode of credits, with `viadev_use_nfr`.

## 7. Recovery

### Correspondence

One connection with `VIADEV_USE_NFR`, both ends, each with its main thread and the
thread of the connection manager. `rank[e]` is the state of one process: the
connection (`vi`, the number of its queue pair; `status`; next id to send and to
expect; `pending` acknowledgements; `waiting`, the packets kept for
retransmission; `rndv`, the rendezvous in process), what the connection manager
knows of the peer, the application, and the queues of its HCA.

| Operator, action | Code |
|---|---|
| `Send`, `Match` | the start of an eager or RGET message, `viadev_recv_rget` and `nfr_add_to_list` |
| `Poll` with `ProcessRecv`, `ProcessSend`, `QpError` | `MPID_DeviceCheck`: `viadev_process_recv`, `viadev_process_send`, `nfr_process_qp_error` with `process_bad_completion` |
| `EndPool`, `EndWait` | the two waiting loops of `pool_for_recovery` |
| `IncomingReq`, `IncomingRep`, `IncomingFin`, `SendLostData`, `ProcessRetransmit` | the functions of nfr.c of these names |
| `ReconnectReq`, `CmRequest`, `CmReply` | `MPICM_Reconnect_req` and the branches of `cm_handle_msg` for a reconnect, with `cm_accept_nfr` and `odu_re_enable_qp` |
| `Land`, `Acknowledge`, `Fault` | the HCA and the network |

The steps of the two threads of one process interleave; each holds
`cm_conn_state_lock` over a whole message. Completions of a queue pair that was
destroyed are gone (`IbvDestroyQp`). A fault breaks the queue pair for both ends: what was
posted and not completed fails, **whether or not it had landed**: the sender
cannot know, and the exchange of expected numbers has to find out.

### Properties

`NothingForgotten`: the only copy of a message is never dropped. `AcksAreExact`:
acknowledgements, which are counted and not numbered, are right again after every
recovery. `HandshakeAgrees`: both ends never serve at once, the count of bad
connections is right though two threads change it, and a connection in the
connected state is on its newest queue pair. `BufferReadInTime`: the sender of a
rendezvous may reuse its buffer only when nobody reads it any more.
`NothingAborts`: no assertion of this code fails and no number is missing.
`ArrivesInOrder` is the safety part of `OrderedDelivery`, across the faults;
`EventuallyRecovered` and `RendezvousSurvivesFault` are the liveness.

### Runs

| Run | Bounds | Shows |
|---|---|---|
| `rec_safety` | eager both ways with up to two faults; two rendezvous, or a rendezvous and an eager message, with one fault | all of the above, 287 thousand states |
| `rec_gap`, `rec_lock` | a rendezvous that crosses two eager messages; a fault during the reconnect of another | findings 2 and 3 of section 10 |

`AckThreshold` = 1 makes both ways of acknowledging happen (in a header, by a
NOOP). A second fault of the eager traffic meets counters, lists and ids that the
first one left; longer scripts repeat this. Rendezvous have one fault because of
nfr.c:1044, see section 10. Ids start at 2 and stay below the wrap (`FirstId`,
`IdSpace` = 2^16); across it the code aborts, see section 10.

The connection manager's messages of one process arrive in order and none is
older than its handshake: repeated and delayed ones are what `ConnMgmt` is about.
Faults come between recoveries (`FaultInHandshake` FALSE) except in `rec_lock`.
Receives match outside the recovery of their connection (`ReceiveInRecovery`
FALSE); the other case ends in an assertion, see section 10.

Fairness: weak, on each thread's step, on the fabric and on the reply to a
connection request, which the timer repeats until it is answered. Nothing is
assumed of faults but their number.

### Proofs (`RecoveryProofs`)

`HandshakeTheorem` proves `HandshakeAgrees` for all scripts, packet numbers,
thresholds and numbers of faults, and `LockTheorem` that the lock is always given
back; both assume `FaultInHandshake` FALSE. Without this they are false of the
code: `rec_lock` is the counterexample. `ReceiveInRecovery` is free.

The properties are not inductive: that two ends never both serve depends on the
cid each has, on stale copies of requests and on which calls (`nfr_req`,
`nfr_rep`) are under way. The invariant `IInv` has three parts:

- the two ends are together at one stage (`Pair`): `Calm`; one is `Asking`, or both
  are (`Crossing`); the other is `Serving`, and the copy of the server's own
  request that may still arrive goes to the end that does not yield to it; the
  client is `Waiting` on its new queue pair, `Requesting` the lost packets, and is
  sent the reply (`Replying`). Each stage says what calls are on the wire or
  in a completion queue: none, or at most one of one kind;
- at each end (`EndOk`) the count of broken connections is right, error
  completions are of the queue pair in use, which the network has failed, and
  the queue pair of a client that waits or asks is not broken;
- the records have their fields and their queues are sequences (`Whole`).

Most of the code does not touch any of this. The first part of the module shows for
every operator, from `IbvPostSend` to `SendLostData` and the folds over the waiting
list and the queue of sends, that it is `Quiet`: it keeps the fields of the
reconnect and the calls under way. `QuietStep` turns this into a step of the
invariant, and one lemma per action moves the stages. A version of `IInv` that
TLC can evaluate held in all states of `rec_safety` before the proof.

The second part proves `NothingForgotten`, `NothingAborts`, `AcksAreExact` and
`ArrivesInOrder` for any thresholds, any number of faults and any number of messages
in both directions, under two conditions:

- `FaultInHandshake` FALSE, as above;
- `EagerTraffic`: the scripts hold eager messages, and not so many that the packet
  numbers wrap (`FirstId` plus their number is below `IdSpace`). With a rendezvous that
  crosses them all four properties are false (`rec_gap`), and across the wrap the
  code fails an assertion, see section 10. A rendezvous alone is left to TLC.

Their invariant is `MInv`, which is `IInv` and, for each direction, `Joint` of the
sender and the receiver. The numbers of the messages are the thread through it:

- `Data`: the sender's list for retransmission holds the messages from the first
  unacknowledged one to the last one started, each under its own packet number,
  and the receiver expects the number behind the last message it has taken;
- `Reached`: the receiver has taken every message that left the list and none that
  was not started;
- `Streams`: what is under way, on the wire or in the receiver's completion
  queue, is the messages that follow the last one taken, without a gap. It ends
  with the newest one as long as the connection is not broken;
- `Owes`: acknowledgements owed, under way and taken never exceed the messages on
  the list that have arrived, and are as many while the connection works. After a
  fault they may be fewer, until the expected numbers are exchanged;
- `Stalls`: what the stages of the reconnect mean for the packets: a call carries the
  number its sender expects, and an end that is `Mute` (its peer has not told it
  what arrived) has nothing under way but its request.

One lemma per step shows that `Joint` survives it in both directions; the longest are
the fault, which empties the wire, and `SendLostData`, whose comparison of numbers is
shown to drop exactly what has arrived. For `ArrivesInOrder` each step is then mapped
to `Submit`, `Deliver` or a stutter of `OrderedDelivery`.

Not in Recovery: R3 and fast-path packets, coalescing, the restart of the HCA
after a fatal error, the limit of work requests, the time-outs that abort the job.

## 8. SharedQueue

### Correspondence

A process with a shared receive queue and everybody who sends to it.

| Action | Code |
|---|---|
| `Poll`, `FlowControl`, `Wake`, `Signal`, `Dispatch` | `viadev_process_recv`: `viadev_handle_flow_control_srq` with the refill under `srq_post_spin_lock`, the unlocked test of `srq_zero_post_counter`, the signal, and R3 data with `viadev_r3_ack` |
| `GetEvent`, `Resize`, `PostOne`, `PostEnd`, `Count`, `Woken`, `Clear`, `Arm`, `Ack` | `async_thread` and `process_srq_limit_event`, one step per access to what the main thread also uses |
| `CancelThread`, `DestroySrq` | `MPID_VIA_Finalize` |
| `Push`, `PeerReply`, `PeerAck`, `PeerEager` | the senders: `viadev_rendezvous_push` with its window, the arrival of replies and acknowledgements |
| `Land`, `LimitReached` | the HCA: a packet takes a buffer; one event when the queue is below its limit |

`srq` is what the HCA has, `cq` what was received and not polled, `posted` the
`posted_bufs` of the code. The thread holds the spin lock from `Resize` to
`PostEnd`, and the main thread's refill waits for it. The test and the clearing of
the counter are not under the mutex of the condition, and are steps of their own.

### Properties, run, fairness

`NeverStarved`: the queue is never dry while there is nothing to poll, and the
abort of viapriv.c:801 is not reached. `ThreadWakes`: the thread is woken once
there was something to poll, although the counter is cleared without the lock.
`TransferEnds`: the window of R3 data (viacheck.c:2242) and the acknowledgements
(viacheck.c:2336), summed over messages, never wait for each other. Its counters
stay above zero (`TypeOK`).

| Run | Bounds | Shows |
|---|---|---|
| `srq_safety` | 5 buffers, fill size 3 that a limit event doubles, limit 2, 4 eager packets and two transfers of 5 bytes in packets of 2 with a window of 4 | all of the above, 77 thousand states |

Three packets per transfer with a short last one, twice, are the least with which
bytes of one transfer are acknowledged in the next. The preserve jumps at a fill
size of 200 in the code, here at 4, which is between the two fill sizes of the run.
Fairness is weak, for each thread, the senders and the HCA.

Not in SharedQueue: XRC, other asynchronous events, the restart after a fatal
error, the pool that the buffers come from.

### Proofs (`SharedQueueProofs`)

`NeverStarvedTheorem` and `PostedTheorem` hold for every size of the queue, limit,
window and traffic that satisfies `SizeAssumption` and `TrafficAssumption`.
`PostedIsExact` (what the two threads have counted is what the HCA has) is not
inductive by itself: what was posted under the spin lock is counted only at its
end. `IInv` adds that the queue fits (`Fits`), that more than the preserve is
posted whenever the lock is free (`Refilled`), that what the limit thread has
posted and is going to post is enough for the preserve it has raised already
(`Refilling`), and that it has one event at most (`OneEvent`). The arithmetic is
in `LimitRefill`: doubling the fill size raises the preserve by no more than the
thread posts. The step theorem has one lemma per action.

`WindowTheorem` is an account of bytes, for every size of window, message and packet:
what the sender's window says is under way is the sum over the packets of data and
the acknowledgements on the wire, in the completion queue and in the hands of the
main thread, and the bytes counted at the receiver. From it, and from what is left
to push of every transfer, `TypeTheorem` proves `TypeOK`: in particular the two
assertions of the code, no more bytes copied than the message has
(viacheck.c:2324) and the window never below zero (viacheck.c:2660).

## 9. RegCache

### Correspondence

`vmas` is `vma_list` in the order of the addresses, each area with the
registrations that cover it, sorted as `add_entry` sorts; the AVL tree finds areas
in it and is not modelled. `dreg`, `free` and `unused` are the entries and the two
lists. The thread that calls MPI is the one that calls the allocator, so each
call is one step.

| Operator, action | Code |
|---|---|
| `Lookup`, `Find` | `dreg_lookup`, `dreg_find` |
| `Insert`, `DregRemove` | `dreg_insert` with its way back, `dreg_remove`; a turn of their loops is `Inserter`, `Remover` with `Merge` |
| `Cut`, `Join`, `Counted`, `NoRoom` | what a turn does: an area cut in two, two joined, `vma_new` and `vma_remove` with the counter |
| `Register` with `NewEntry`, `Evict` | `dreg_register`: a hit, or a new entry and an eviction after every failure. The HCA may refuse the memory |
| `Complete` | `dreg_decr_refcount` by `SEND_COMPLETE`, `RECV_COMPLETE`, `dreg_unregister` |
| `Munmap` | `mvapich_munmap`, its hook `find_and_free_dregs_inside`, and the system call |
| `Malloc` with `Flushed`, `Flusher` | `flush_dereg_mrs_external`, at the end of malloc, free and realloc |
| `Mmap` | the system |

`mr` is a field for `NoStaleHit` only: the pages for which the registration still
holds the memory that is mapped there. The program does not give back a buffer of
an operation in progress. `spins` says that the flush goes round for ever; after
that nothing happens any more (deadlock is not checked).

### Properties and runs

`LookupExact`: for every range of pages the search finds a registration that
covers it exactly when there is one, however the areas were cut and joined.
`EntriesAccounted`: each entry is in one place, and its count is that of its users.
`OperationsArePinned`: what an operation in progress was given still covers its
buffer and allows what it does.

| Run | Bounds | Shows |
|---|---|---|
| `dreg_safety` | 3 pages, 2 entries, a limit of 4 pages, 2 operations | the three, 792 thousand states |
| `dreg_stale` | 2 pages, 1 operation | finding 4 of section 10 |

Three pages let registrations overlap, contain one another and leave a hole; two
entries make every third buffer evict. The limit is above the number of pages, as
a request of that size loses an entry (section 10), and refusals still occur as
`pinned_pages_count` drifts above the pages really covered. The counter wraps at
`Word`, 2^64 in the code. `VIEW` leaves out `mr`, which no step reads. Operations
are symmetric, and the run has no liveness property.

The loops of the code are functions: `Loop` takes a turn a number of times that is
enough for the code's loop to end, and a turn after the end does nothing. So the
operators can be proved about, which recursive ones cannot.

### Proofs

All three properties, for every number of pages, entries and operations. The
invariant `IInv` says of the areas what does not depend on how they came about
(`Chart`): they are apart, each lists exactly the registrations that cover it, the
furthest first, every page of a registration is in one, and no area is empty.
`LookupExact` follows (`IInvLookupExact`): the first of an area's list reaches
furthest of all that cover its pages, and any registration for a range covers the
first page of the range.

`Chart` is not kept by a turn of a loop: half way through an insertion the new entry
is on some of the areas it covers. So `Chart` has a guest, the entry that comes or
goes, of which it says nothing but that it is at most once on a list; `Inserting` and
`Removing` say for which pages the loop is done with it. Each step of a loop (cut,
put in, take out, join, change a list) keeps `Chart` with its guest, and a guest that
is on all its areas or on none is none any more. That the number of turns is enough
is, for these two loops, part of the proof: the page an insertion goes on from, and
the areas that a removal has still to come to, move on with every turn. The way back
of a half-done insertion is a removal from the part that was done. That `Merge` joins
all it can is not needed and not claimed: an area left in two pieces answers searches
as well.

`Sorted` says which of the lists every entry is on, except one that may be on its
way from one to the other, and `Serves` that an operation has an entry that covers
its buffer, counted once for each. `EntriesCounted` and `OperationsArePinned` hold for
every limit. `EntriesAccounted` says in addition that no entry is on none of the
lists, which needs `Room`: no limit, the default (`viaparam.c:66`), or one above the
number of pages; a request of the size of the limit loses its entry
(`dreg.c:1021`, section 10).

## 10. Findings

1. `slot_rank_word`: the rank is written at byte 12 of a buffer also when the
   header has 4 bytes (nfr.h:165, viasend.c:342). For messages of 8 bytes that is
   where the tail goes, so the sender's test for an old flag (viapriv.c:452) sees
   the rank and repeats the flag of the lap before: the receiver may take the
   message before its data (viacheck.c:235).
2. `rec_gap`: the finish of an RGET transfer takes a number (viacheck.c:2459) but
   is not kept for retransmission (nfr.h:393). When a fault takes it together with
   the eager packet behind it, that packet is sent again with its old number, and
   the receiver waits for the one before it. When that packet is the only one left on
   the list it is not sent at all: its number is above the one the receiver waits
   for, which nfr.c:330 takes for the wrap and drops it as arrived. The bounds of
   `rec_gap` break `NothingForgotten`, `AcksAreExact` and `ArrivesInOrder` too, which is why
   the theorems of section 7 about messages leave rendezvous out.
3. `rec_lock`: with a fault during a reconnect, `MPICM_Reconnect_req` can return
   with `cm_conn_state_lock` held (cm.c:1551), and both threads stop.
4. `dreg_stale`: the hook of `munmap` only notes the region (dreg.c:1063); the
   registration is found until the next call of the allocator, also for other
   memory that was mapped there meanwhile.

Seen while modelling, each without a run of its own:

- viacheck.c:1003: the buffers kept for NOOPs are posted without a look at
  `viadev_rq_size`, the size the queue pair was created with (viaparam.c:87). It is
  exceeded when `InitialPrepost` is at most `NoopExtra` and above `Depth` +
  `RendezvousExtra` + 1.
- viacheck.c:1014: a NOOP that is the first packet of a connection has its buffer
  replaced by a credited one, so the buffers kept for NOOPs shrink by one.
- viacheck.c:2384: with a preserve above the notify threshold, which no check
  forbids, an R3 transfer can stop for ever. The defaults are not affected.
- viacheck.c:2238: the R3 push tests `remote_credit >= preserve` before it sends
  and so leaves one credit less than the preserve of viaparam.c:272, which is why
  `EagerKeepsPreserve` speaks of eager messages only.
- viacheck.c:303: `flowlist` is cleared while connections taken off it still have
  `inflow` = 1 after the early returns for fault recovery.
- vbuf.c:530: `vbuf_fast_rdma_alloc` clears `rdma_credit` also for the send ring.
  When the peer's address packet arrives after its first messages by the ring, the
  credits for these are dropped and the ring is smaller for good; messages then
  take the queue more often and still arrive (`RingAccount` counts the loss).
- vbuf.h:119: with `VIADEV_VBUF_TOTAL_SIZE` above 32 KB a length runs into the tag.
- nfr.c:1044 and 1169: `was_retransmitted` is not reset, so a second fault leaves a
  rendezvous unfinished.
- nfr.c:1176: a retry of a start that meets a receive posted in the meantime fails
  an assertion.
- nfr.c:330 to 365: packet numbers are compared with `<` and one flag for the wrap.
- nfr.c:193: `re_post_send` without a work request puts the packet on the extended
  send queue, whose path adds it to the waiting list again.
- `nfr_release_acked` takes the retry packets on the list for acknowledged ones.
- cm.c:943: a request that was delayed past its handshake meets an assertion.
- nfr.c:677 to 697: a cancelled thread leaves its mutex locked.
- viacheck.c:1188 and 1209: packets dropped during recovery do not lower
  `posted_bufs`.
- viainit.c:1809: `MPID_VIA_Finalize` cancels the limit thread wherever it is
  outside its posting loop. Between a limit event and its acknowledgement
  (viacheck.c:2826) the event is never acknowledged, and `ibv_destroy_srq` waits.
  In `SharedQueue`: `main.at = "destroy"` with `unacked` = 1 for ever.
- viaparam.c:737: the limit is compared with the size of the queue only when
  `VIADEV_SRQ_LIMIT` is given; `VIADEV_SRQ_SIZE` far below the default limit of 30 aborts at the
  first event. `srq_zero_post_max` = 0 makes the thread wait for ever.
- cm.c:1437: `MPICM_Finalize_UD` frees the pending list without its lock.
- dreg.c:728: `flush_dereg_mrs_external` does `continue` on a registration in use, in
  a loop whose condition that does not change: `spins`.
- dreg.c:1022: `dreg_new_entry` does not give its entry back when the request has the
  size of the limit; `dreg_register` repeats it after each eviction.
- dreg.c:224 to 263: a split adds to `pinned_pages_count` what was counted already,
  a merge subtracts what stays pinned. The counter may pass zero, and then
  `vma_new` refuses small requests.
- dreg.c:1063: `n_dereg_mr` is not compared with the size of its array, though the
  comment at dreg.c:144 says that it cannot exceed it. `MaxQueued` bounds it here.

## 11. What is checked and what is proved

Proved for every value of the constants:

| Property | Theorem |
|---|---|
| ten properties of section 3, `ReceiveQueueBounded` under `RoomToInitialize` | `ReceiveQueueTheorem`, `AccountsTheorem`, `TypeCorrect`, `BacklogTheorem`, `ExtSendqTheorem`, `InOrderTheorem`, `ConservationTheorem`, `BackedTheorem`, `RendezvousTheorem`, `EagerTheorem` |
| `TakenWhole`, under `SizesFit` | in `RdmaSlotProofs` |
| `RingAccount` | `NoBufferIsLost` in `FastPathProofs` |
| `NeverStarved`, `TypeOK` of SharedQueue, and `PostedIsExact` | `NeverStarvedTheorem`, `TypeTheorem`, `PostedTheorem` |
| `EndsMatch`, `RetryMatchesState`, `TimerAwake`, `QueuedSendsAreSeen`, `PostsOnReadyQp` | in `ConnMgmtProofs`: `EndsAlwaysMatch`, `RetryAlwaysMatches`, `TimerIsAwake`, `QueuedSendsAreAlwaysSeen`, `PostsOnlyOnReadyQp` |
| `HandshakeAgrees`, and `LockReleased`, as long as no fault hits a reconnect | `HandshakeTheorem`, `LockTheorem` in `RecoveryProofs` |
| `NothingForgotten`, `NothingAborts`, `AcksAreExact`, `ArrivesInOrder` of Recovery for eager messages, as long as no fault hits a reconnect and the packet numbers do not wrap | in `RecoveryProofs`: `NothingForgottenTheorem`, `NothingAbortsTheorem`, `AcksAreExactTheorem`, `EagerArrivesInOrder` |
| `NoOverwrite`, `SendsComplete`, `WaitIsShort`, `HeaderDecoded` | in `FastPathProofs`: `NothingIsOverwritten`, `TheRightSendCompletes`, `WaitsForWhatIsThere`, `HeadersAreUnderstood` |
| `LookupExact`, `OperationsArePinned`, and `EntriesAccounted` under `Room` | in `RegCacheProofs`: `LookupIsExact`, `OperationsStayPinned`, `EntriesAreAccounted` |
| `OD!ODSafety`, the safety part of `ArrivesInOrder`, of ConnMgmt and of FastPath | `SendsArriveInOrder`, `RingAndQueueInOrder` |

Only model-checked: `BufferReadInTime` of Recovery and what its other properties
say of rendezvous, whose starts, replies and retries share the list and the numbers
with the eager messages; all liveness, which is out of the prover's reach.

## 12. What is not modelled

Data and datatypes, `EARLY_SEND_COMPLETION`, the suppression of NOOPs after
`viadev.is_finalized`, MEMORY_RELIABLE, XRC, multicast, RPUT. Failing calls of the
verbs library end the job in the code (`error_abort_all`) and have no successor
state worth modelling.

Components of the device without a module: coalescing, the vbuf pool, the
intra-node channel (`mpid_smpi.c`), the collectives in shared memory, the RDMA
barrier, the asynchronous progress thread. The first two are inside one process
and reduce to what FlowControl and SharedQueue already take as given; the others
are protocols over shared memory of their own, independent of the connections, and
would be next, each with `OrderedDelivery` or a barrier as its abstract
specification. Their memory ordering differs by architecture and would have to be
part of the model.

Most of the repository is outside the device: 2458 source files hold the MPI layer
of MPICH, ROMIO, MPE, the bindings and a dozen other devices, of which none is part
of a build with ch_gen2, and two copies of a third-party allocator. The models cover
the protocols of ch_gen2, and a small part of all lines.
