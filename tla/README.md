# A verification development for P2P-File-Share-System

The program under `src/` is a peer-to-peer file-sharing client and its tracker,
written in C++: nodes find each other through a routing table, keep UDP
sessions with each other that they watch by heartbeats, and download files in
fragments that a control file ticks off. This directory holds TLA+ models of
the parts of it whose correctness depends on the order of events, the TLC
configurations that check them on small instances, and machine-checked proofs
for some of them. Every model is translated from the C++ source, and
`PROJECT.json` gives the lines each definition stands for.

Paths below are relative to `src/src/`.

## 1. Inventory

### Threads

| Thread | Started by | Runs |
|---|---|---|
| reactor | `net_receiver_linux.cpp` | `epoll` loop, ties a datagram to a session or to the gateway, hands a task to the pool |
| pool workers | `base/thread_pool.cpp` | the accept, receive and gateway tasks of the receiver, and with them every protocol handler |
| timer | `base/timer.cpp` `thread_loop` | all timer callbacks, with `m_TimerMutex` held |
| download | `app_ctrl.cpp` `thread_loop_download` | picks fragments and sends requests |
| hash check | `app_ctrl.cpp` `thread_sha1_check` | one per finished file |
| search | `app_ctrl.cpp` `thread_loop_search` | looks for partners for the files in the list |
| interface | Qt | adds, deletes, pauses files |

### Components

| Component | State | Operations | Hard behaviour | What makes it correct |
|---|---|---|---|---|
| **Peer and session tables** `module_peer/peer_manager` | `m_PeerIdMap`, `m_PeerMap` (address, use count, status), `m_PeerCapacity`, `m_SessionIdMap`, `m_SessionIdQueue`, `m_SessionNum` | `peer_id`, `free_peer`, `session_id` (two), `connect_peer`, `disconnect_peer`, `recycle_session` | ids go round between four places; two users of one record; giving up half way when full | an id has one owner; the count is exact; nobody uses an erased peer; nothing is lost |
| **Session manager** `module_net/session_manager` | `m_SessionArr`, the object pool, two mutexes | `new_session`, `disconnect`, `disconnect_in_timer`, `_delete_session`, `recycle_session`, connect timers | tests outside the lock; two locks taken in either order | a `Session` object is in one place; the steps together do what the tables expect |
| **Timer** `base/timer` | three wheels of lists, the tick, the count | `add_timer`, `refresh_timer`, `_deal_time_wheel` | the tick is read without the lock; the cascade from minutes to ticks; the end of a round | a timer is served in its tick, once, and counted |
| **Connection protocol** `module_handler/handler_base` and the timers of `session_manager.cpp` | status, time-out count and peer of each session; static `TriggerTimes` | CONNECT, PING, DISCONNECT and HELP messages, heartbeats | loss, duplication, reordering; restarts; static counters; pool workers against each other and the timer; status tests and sets without a lock | a session is never left with nobody to watch or connect it, and is connected only after an answer, but for named situations |
| **Downloads** `module_file`, `app_ctrl.cpp`, `handler_file.cpp` | control file, maps and lists of the file manager, `m_CurDownload`, the row in the database | add, get a task, write a fragment, check, delete, load at start | crash between data and bit; deletion while the thread works; lost answers; waiting list | a bit that says done is right; a file shown as complete is; a download ends |
| **Session object** `module_net/session` | status, KCP, receive buffer with a count of readers, a condition variable | `init`, `send`, `send_reliable`, `input`, `read`, `read_over`, `update` | a handler reads in the buffer while another worker brings data; a wait nobody ends; reused objects | messages come whole, once, in order; a reader is not disturbed; somebody goes on |
| **KCP** `third/kcp/ikcp.c` | numbered segments sent and received, windows | `ikcp_send`, `ikcp_recv`, `ikcp_input`, `ikcp_flush`, `ikcp_update` | loss, duplication, reordering, closed windows, numbers that wrap | nothing is dropped that the other side lacks |
| **Reactor and tasks** `module_net/net_receiver*` | none but the sockets | `_gateway`, `_recv`, the binding of a datagram to a session | the binding is made before the task runs | a task finds that its session may have gone |
| **Routing table** `module_peer/routing_table`, `routing/` | buckets of nodes | `add_node`, `get_node` | a full bucket chooses by the status of the moment; nodes keep references to peers | connected nodes are kept; references match `Peer::Count` |
| **Partner table** `module_peer/partner_table` | session ids by content, the list of contents to announce | `add_cid`, `add_partner`, `search_partner`, `get_cid` | keeps the ids of closed sessions; one list without its lock | those who want the same content find each other |
| **Search and register protocol** `module_handler/handler_routing` | the two tables above | search, register and partner messages and their answers | what is found depends on the order of connecting, registering and searching; ids of others in old entries | as above |
| **Application control** `app_ctrl`, `tracker_ctrl` | the wiring, the loops | start, the three loops | the loops against the interface | as for downloads |
| **Database** `module_db` | SQLite tables | one or two SQL statements each | two statements are not one | rows match files |
| **Thread pool** `base/thread_pool` | a queue, threads | `commit`, `start`, `stop` | none: a queue behind a mutex | every task runs once |
| **Interface, logger, buffers, hashing** | | | | not modelled, see section 8 |

Interaction: the reactor asks the peer tables for the session of a sender
(`session_id`), and the pool task it starts either runs the handler with that
session or goes through the gateway, whose handler may open a session
(`connect_peer`, then `new_session`, which starts a KCP timer). Closing goes the
other way (`_delete_session`, `disconnect_peer`, and a 20 s timer that calls
`recycle_session`). Handlers set the session's status and start heartbeat
timers; timers close sessions. The download thread sends requests over the
sessions of partners, the file handler writes what they answer.

## 2. The modules

| Module | Models | Composes |
|---|---|---|
| `PeerManager` | each call of `peer_manager.cpp` as an operator on its tables | |
| `PeerUse` | the calls the program makes, atomic; **the abstract specification of sessions** | `PeerManager` |
| `SessionManager` | the steps of opening and closing, thread by thread and lock by lock | `PeerManager`; implements `PeerUse` |
| `TimerWheel` | `timer.cpp` | |
| `Handshake` | the connection protocol of two nodes over UDP | uses that ids are not reused early, from `PeerUse` |
| `RoutingTable` | buckets and the search in them, as operators | |
| `Search` | routing messages, search thread and partner tables of several nodes | `RoutingTable` |
| `Kcp` | one end of the reliable stream, as operators on a control block | |
| `Channel` | **the abstract specification of `send_reliable`** | |
| `Stream` | two sessions, their receive buffers and workers | `Kcp`; implements `Channel` |
| `Download` | downloads on one node, with its control files, over restarts | |
| `PeerUseProofs`, `SessionManagerProofs`, `TimerWheelProofs`, `HandshakeProofs`, `SearchProofs`, `StreamProofs`, `DownloadProofs` | theorems | these modules |
| `StreamLemmas` | what the operators of `Kcp` and the receive buffer compute, for `StreamProofs` | `Stream` |
| `MC...` | model values, starting configurations, symmetry | |

Definitions named `Slip...` stand beside the definition of the same name. They
are not part of any specification: each is a plausible mistake in that very
code (a dropped guard, a forgotten reset), kept to show that the property it
belongs to can fail.

### PeerManager and PeerUse

`peerIdMap`, `peerMap`, `sessionIdMap`, `sessionIdQueue`, `peerCapacity` and
`sessionNum` are the members of the same names. `peerKeys` is the key set of
`m_PeerMap`, which differs from the registered peers because `operator[]`
inserts a default record for an unknown key (`PeerKeys` includes 0 for that).
`Peer::Count` is a `uint8_t`: `Inc` and `Dec` work modulo `CountMod`.
`_peer_id()` draws random ids and may draw 0, which `PeerIds` may include.

The `held` of `PeerUse` counts the nodes of the buckets that refer to a peer.
Actions are `AddNode`, `SearchReq`, `EvictNode`, `Open`, `Close`, `StartTimer`,
`Recycle`, and `LookUp`, the one query that changes state. Closing is two steps, as
in `disconnect`: `Close` unregisters the session, whose id is then `closing`, and
`StartTimer` adds the recycle timer, after which it is `cooling`. `timersFull`
says whether `m_TimerCount` is at `MAX_TIMER_NUM`. The timers of all parts count (and
KCP's are never removed), so it may change with every step; while it holds,
`add_timer` returns false, `disconnect` logs it, and the id is in no table any more.

The code takes references in ways that do not match its nodes: a search
request takes one (`Session::peer_id`) for as many nodes as it has keys without a
hit; with a full table, or when `rand()` gives 0, `peer_id` answers 0, which `PeerId >= 0`
lets pass, so a node is added for the id 0; a full bucket leaves a node out and its
reference is never freed, which only makes the count larger, until its 8 bits have no room for another
(`CountRunsOut`). After any of these but a node left out, a peer in use may be erased. The
history variable `strayed` tells that a node or a reference has gone uncounted, and the
properties of the peers (not those of the session ids) are about the time before.

### SessionManager

Each step is what one thread does between two points at which another can come between:
finding the session, reading the address from the object it points to, testing the slot,
releasing it under the lock, unmapping, starting the recycle timer, which is refused when
the timers are at their limit (`timersFull`); and testing, allocating and initialising on
the way in. `sessionLock` and `timerLock` are the two mutexes. A worker in `new_session`
waits for the timer's mutex in `Session::init_kcp` while it holds its own. The 16-bit
session ids are `1..SessionCapacity`.

A null pointer that is dereferenced ends the model (`crashed`). `TakeGateway` and
`TakeRecv` are the tasks of the reactor, `TakeTimeout` is a callback that decides
to close. Callbacks other than `recycle_session` are known by their ids
only: what they decide on belongs to `Handshake`.

The code does not keep two threads from opening or closing a session to one
address at the same time. The history variable `met` tells that two have been
past their first test together; `SlotsMatchIds`, `ObjectsComeBack` and the
refinement `ImplementsPeerUse` are about the time before, `ObjectsNotShared`
about every interleaving. The difference is what the missing lock costs.

### TimerWheel

Three wheels, whose slots are sets of events, `timeTick` the current position.
`Advance` is the unlocked write of `m_TimeTick`, `Deal`/`DealOne`/`DealEnd` the
walk over one slot under the lock, `Clear` the `CurWheel.clear()` behind it.
`AddRead`, `AddLock`, `AddPush` are the three steps of `add_timer`. A read that
overlaps a write may see any mixture of old and new fields (a data race, so
undefined in C++; the mixture is what the build produces). Callbacks either end,
end and add a timer from inside, or go on. `age` and `raced` are history
variables: the time since a timer was armed, and whether its insertion met a
moving clock.

### Handshake

Two nodes, each with its application, timer and workers. A datagram is bound to a
session by the reactor (`Receive`) and handled later (`Handle`). `net` is a set:
datagrams arrive in any order, stay out, or arrive twice. A node is restarted
with nothing kept. `triggerTimes` is per kind of timer and *node*: the variable is
`static` in the C++ functions. The relay's answers arrive at any time (the relay is
external). `setting` is chosen in `Init` from `Settings`: who connects to whom and how,
with the bounds for it.

No lock guards the status of a session, and the model has a step wherever another worker
can come between:

| Handler | Steps |
|---|---|
| `handle_ping_ack` | `RecvPingAck` finds the object and tests for `STATUS_DISCONNECT`; `CompletePing` sets `STATUS_PING_COMPLETE` |
| `handle_connect_ack` | `RecvConnectAck` finds the object and tests for `STATUS_CONNECT_COMPLETE`; `CompleteConnect` sets it and adds the probe |
| `on_accept` | `Accept` publishes the session (`new_session`); `AcceptFind` looks its object up; `AcceptSet` sets the status, resets the time-outs, adds the examination and answers |

The object found may by then have another session (`SetStatus` writes into it all the same),
since objects go back to the pool (`pool`, in its order) with what `init` does not set:
status and time-outs. `add_timer` may answer false at any time (`AddTimer`).

Two things stay one step. `set_status` and the `add_timer` behind it: the timer first runs 10 s
later, and nobody looks for it before. And each timer callback: it runs with
`m_TimerMutex` held, which `new_session` (for KCP's timer) and `add_timer` want as well, so no
other session gets on with its object meanwhile. `new_session` and `disconnect` are atomic here and
taken apart in `SessionManager`. A session's id is the number of the session, since
`PeerUse` shows that no id is used again while a task or timer may still have it. `peer`
is a history: the session of the other node this one was made with.

### RoutingTable and Search

A routing table is a function from the distance of the first differing bit to a bucket,
a sequence of nodes `[key, peer]`. `AddToBucket` rotates a full bucket until its
front is worse than the new node, as `add_node` does. `GetNode` is the search for
online nodes in the buckets up to `KLEN_KEY` (20 of the 160: the code compares a
number of bits with a number of bytes) followed by that for the nearest.

In `Search` each node has sessions (`session`, with ids that cool and return as in
`PeerManager`), `partners` and `cidList` (the partner table), `toRegister` (the
sessions the search thread will take), and `stream[n][m]`, the messages on the way.
A handler takes one key or one address of a message per step, since the loops
call the locked tables once per round and others come between. A session id in
`partners` stays there when the session closes, as in the code. Abstracted: the
order of `unordered_set`s is that of the lists; a CONNECT is two steps; relays are
left out; an empty REGISTER_ACK makes the code take a key from whatever follows in
the receive buffer, hence any key; `add_cid` and the search that
follows it are one step; the messages of one session are handled in order
(two workers that read two of them may in fact finish in the other order).

### Kcp, Channel and Stream

`Kcp` gives each function of `ikcp.c` that changes the control block as an operator
from one block to the next, in the mode `init_kcp` sets. Data are sequences of units,
each of which names its message and its place in it, so that a lost, doubled or
swapped byte shows. Queues of numbered segments are sets, since their order is
that of the numbers modulo `Word`. Time is abstracted to what it decides:
`KcpUpdates` gives every set of segments that may be due for repetition.

`Stream` has two nodes, and at each the workers that run the loop of
`handle_on_recv`: `Input` (with everything `input` does under the mutex, up to the
wait), `Wake`, `ReadMessage`/`ReadNothing`, and `ReadOver` when the handler is done.
`buf` is `base/buffer.cpp` with its memory, since what matters is whether bytes move
while `held` says that a handler looks at them. `net` loses, doubles and reorders.
`Channel` is what `session.h` promises of `send_reliable`; the mapping is the
identity on the histories `sent` and `got`. Closing the session, and using the object
again, is not part of it.

### Download

`ctrl[p]` is the set of one-bits of the control file of path `p` (one means not
done), `data[p]` the fragments that are in the file, `rows` the database. They
survive the process; everything else is rebuilt by `Boot`. `InitCtrlFile` sets
one bit per step, since the process may end between two. `Write` puts the bytes in
and `WriteBinary` clears the bit. `downloader` is the download thread, with
the `FileCtrl` and `FragmentStart` it holds as locals while the interface's
thread deletes files. `suspect` is a history variable: the paths whose control
file the code itself leaves unreliable (see section 7).

The process *crashes*; the machine does not. Mapped pages survive the end of a
process but not of the power supply, and in that case the kernel may write the
bit before the bytes. No fsync in the code would prevent it; the property
`DoneMeansWritten` is not claimed for it.

## 3. What each run checks

| Run | Specification | Properties | States (distinct) |
|---|---|---|---|
| `peer_use` | `PeerUse!Spec` | type, 5 invariants, 2 action properties | 0.4 million |
| `timer` | `TimerWheel!Spec` | `TypeOK`, `TimerCountExact`, `OnTime`, `NeverEarly` | 8.5 million |
| `session` | `SessionManager!Spec` | `TypeOK`, `ObjectsNotShared`, `SlotsMatchIds`, `ObjectsComeBack`, `ImplementsPeerUse` | 5.9 million |
| `handshake` | `Handshake!Spec`, six ways to connect; restarts, copies, refused timers | `TypeOK`, `SessionsAttended`, `ConnectsWithPeer` | 3.5 million |
| `search` | `Search!Spec`, two peers and a tracker | `TypeOK`, `NotWithItself`, `MetWhenQuiet`, `GoodNodesKept` | 2.3 million |
| `stream` | `Stream!Spec`, a sender, a receiver with three workers | `TypeOK`, `NothingForgotten`, `NothingRests`, `OneAwake`, `ReadersUndisturbed`, `ImplementsChannel` | 0.5 million |
| `download` | `Download!Spec`, three files, two at a time | `TypeOK`, `ListsAgree`, `CurDownloadInRange`, `CompleteMeansWhole` | 1.6 million |
| `download_fair` | `FairSpec`, one file of three fragments | `DoneMeansWritten`, `DownloadsComplete` | 0.2 million |
| `timer_round`, `session_locks`, `probe_twice`, `reused_object` | | one property each, **violated** | |

What they say:

- *Sessions and peers.* `SessionIdsExclusive`: an id has one owner among the
  registered sessions, the cooling ids and the queue. `NoIdReuseBeforeRecycle`:
  an id reaches another address only after its 20 s, so that tasks and timers
  that still carry it cannot reach a stranger. `RefCountCovers`,
  `NoPrematureErase`, `GoodIffConnected`, `CapacityConserved`: the peer record,
  counted by nodes and sessions in any order, is there as long as one needs it,
  until a node or a reference goes uncounted. `IdsLostOnlyWhenFull`: an id is lost in two
  cases only, when `connect_peer` draws it for a new address and the peer table is full, and when
  its session is closed and `add_timer` refuses the recycle timer. (A recycle timer that is added and
  then overtaken by the end of a round never runs, see `timer_round`: its id stays
  `cooling`, which the model allows, since nothing says that a `Recycle` comes.)
- *Objects.* `ObjectsNotShared` holds in **every** interleaving: the tests outside
  the lock never put a `Session` object into two slots or into a slot and the
  pool. The stronger facts (`SlotsMatchIds`, `ObjectsComeBack`, and the refinement
  `ImplementsPeerUse`) hold until two threads have met on an address.
- *Timers.* A timer that was added with a steady clock, and falls due within the
  round of the minute wheel, is served exactly in its tick (`OnTime`), whatever is
  inserted around it, and though the slot is cleared outside the lock. None is
  early (`NeverEarly`), and the count is exact (`TimerCountExact`), which matters
  because it decides who is refused.
- *Connections.* `Attended` says that an open session has what keeps it from staying as it
  is for ever: a heartbeat timer when it is connected, a timer that connects when it is not,
  or a task that is accepting it. `SessionsAttended`: whatever packets are lost, doubled or
  late, and however workers and timers take turns, a session goes from having this to not
  having it in five situations only: a late task sets the status of the object for the
  session that had it before (`SetForAnother`); a late `handle_ping_ack` overwrites
  `STATUS_CONNECT_COMPLETE` (`SetBack`); a new session gets an object that is connected
  already (`OpenedConnected`); a relay timer or a ping timer gives up without closing the
  session (`LeftOpen`); `add_timer` refuses (`TimerRefused`). Each of them happens in the
  runs (without its disjunct the property fails), and the session may then stay until the
  other side says something or the process ends. `ConnectsWithPeer`: a session is held for
  connected without any answer of the other node in the first and third of these situations
  only. `probe_twice` and `reused_object` show two comments to be wrong: a session may get
  several probes, and one that is new may be connected. That the heartbeats *end* a session
  whose other side is gone is not claimed: a timer that crosses the end of a round stops
  (`timer_round`), and the timer thread may block for ever (`session_locks`).
- *Search.* No node is ever told to connect to itself or takes itself for a
  partner, though the tables name session ids that have changed hands
  (`NotWithItself`). A node whose peer is connected is never pushed out of its bucket
  (`GoodNodesKept`). When all is quiet and no session has closed, of two peers that
  wanted the same content when they joined at least one has the other for a
  partner (`MetWhenQuiet`). Both need not: a search whose only recorded partner is the
  asker is left unanswered on purpose (`handler_routing.cpp:127`). Three peers need not meet at all: the
  tracker's bucket of one place may be taken by a third before the other two come.
- *Streams.* Over a network that loses, doubles and reorders, `read` returns what
  was given to `send_reliable`, whole, once and in order (`ImplementsChannel`); at
  every moment what is not yet read is in order somewhere on the two sides
  (`NothingForgotten`). Handlers read in peace (`ReadersUndisturbed`). Workers do
  fall asleep for good in `input`, but never all (`OneAwake`), and what they
  brought does not stay unread for want of a worker that is awake (`NothingRests`).
- *Downloads.* Bits follow bytes over crashes (`DoneMeansWritten`); the two maps
  and two lists agree under every order of add, finish and delete
  (`ListsAgree`), the round-robin index never leaves the list
  (`CurDownloadInRange`), what is shown as complete has been checked and is
  whole (`CompleteMeansWhole`), and a file in the list becomes complete
  (`DownloadsComplete`).

## 4. Bounds, and why they are enough

- `peer_use`: three addresses for two places in the peer table, so the table is full while a
  third asks; three session ids, so that they run out, cool and are queued; `PeerIds` is
  0..2, one id more than places, and the 0 of `rand()`; counts wrap at 4 with up to 3
  references to a peer (`MaxHeld`), so that they run out; a search request has up to two
  keys (`MaxKeys`), one more than it counts. No node is added once `strayed` holds. The
  proofs remove all of these bounds but that.
- `session`: two workers and the timer thread are the three parties that can
  meet; two addresses and two ids make reuse happen, and `MaxClosed = 2` bounds
  the number of closes under way. The pool starts with one object so that it
  runs out and grows. Timers are refused until two threads have met only (the constraint
  `MCRefusals`): afterwards nothing is said of ids any more, and a refusal only takes a later step away.
  The proofs, which have no such constraint, remove the bounds for `TypeOK`,
  `ObjectsNotShared`, `SlotsMatchIds`, `ObjectsComeBack` and the refinement.
- `timer`: ticks of 2 ms, 2 ticks to a second, 3 seconds to a minute and 2 minutes
  to a round are the smallest wheel on which an event can begin on each of the three
  wheels and pass through both cascades. `WordSize = 211` is no multiple of a second, as
  2^32 is none.
- `handshake`: `PoolSize` is 1, so that every session after the first gets a used object;
  `TimeoutMod` is 4, the least that keeps the three time-outs apart from none. The bounds,
  the workers that take packets (`busy`) among them, are a part of the setting. In
  `BothPeers` two peers connect to each other in one session each, one of them with two
  workers; in `OnePeer` one connects to the other in two sessions, with two workers each, two
  timers and two packets on the way, so that two probes are possible. `ToTracker`, a client with
  its tracker (`CONNECT_TIMEOUT_COUNT` 4, so that all four triggers differ: the first sends
  DISCONNECT, the last closes), and the two settings with a relay have one worker and, at most
  once each, a packet that comes twice, a restart and a refused timer. `Receive` binds a packet
  before it is handled, so with one worker too what a packet meets may have changed
  meanwhile. `Crossing` is there for one order of events: a node that gives its own session up
  accepts one, and a late CONNECT_ACK for the former comes between `Accept` and
  `AcceptFind`, so that the session is probed and examined at a time. It takes two sessions
  and two workers, and its constraint `MCOneOfN1` keeps the other node to one session and the
  heartbeats to one period. Nodes and workers are permuted for symmetry: `setting`, which
  tells the nodes apart, is a part of the state, so only states of which one is the other with
  all names exchanged are identified. The proofs remove all bounds. `probe_twice` is `OnePeer`
  again, and `reused_object` the two peers with two sessions and one worker each
  (`PeersAgain`).
- `search`: three bits of key and buckets of one make a bucket overflow with two nodes; the
  content's bucket lies to the left of `KLEN_KEY`, as most do. One content suffices for two
  peers to meet; one close with two session ids lets an id pass to another peer.
- `stream`: segment numbers wrap (16, starting at 15), both windows are 2 segments of
  2 units, so that messages of 2 and 3 units (length included) share and cross
  segments and the window fills; the buffer of 3 units has to grow and to move. Three
  workers: one reads, one falls asleep, one goes on. Two datagrams on the way can
  overtake each other; one acknowledgement waits at most.
- `download`: `m_MaxDownloadNum` is 2 with three additions, so the wait list is
  used, and the index of the round-robin can be both ahead of and behind a deletion
  (saving one content at two paths, which the module allows, was checked in larger
  instances only, 6.7 million states for four paths). `download_fair` has 3 fragments in
  2 segments, so that the last segment is short, with one crash and one lost
  partner. Fragments do not matter to the lists and lists do not matter to the
  fragments: hence two runs.

Bounds appear in guards under the names that begin with `Max` (and `busy`), and only in
actions that start something new.

Deadlock is checked in `peer_use` and the two timer runs. In the others the
bounds (closes, sessions, additions) and the crash of the modelled process make the system
stop, and in `session` so does the deadlock that `session_locks` shows.

## 5. Fairness

Only `Download` states fairness. `Handshake` states none: nothing in the code makes its timers run for
ever, since one that crosses the end of a round stops and the timer thread may block.

`Download!FairSpec`: weak fairness of every step of the download thread, the hash check, the
file handler, and of the steps of an addition once it has begun (straight-line code). Strong
fairness of `Request(TRUE)`: again and again there is a partner with the file; and of the
arrival of each answer: KCP retransmits, so that what is asked again and again is answered
in the end, although partners may go and take answers with them. (This does not rest on
KCP's timer, which the end of a round stops too: `send_reliable` and `input` call
`ikcp_update` themselves.) None for the user. Without the last two no download could be
promised, and the code does not control them.

`Stream` states no fairness: that messages arrive in the end needs a network that
is not always silent and, once a worker sleeps, another datagram, and the state
graph with liveness is beyond TLC at a size where anything happens.

## 6. What is proved

The theorems of `PeerUseProofs` (8), `SessionManagerProofs` (5), `TimerWheelProofs` (4),
`HandshakeProofs` (3), `SearchProofs` (3), `StreamProofs` (6) and `DownloadProofs` (5) hold
for every value of the constants; those of `StreamProofs` about data have a premise, which is named below.

**PeerUse.** `IInv` (in `PeerUse.tla`) has two halves. `SessionInv` is about the
session ids: `SessionIdsExclusive` with the sets written out, and the fact that
every id anywhere is at most `sessionNum`, without which a freshly counted id might
already have an owner. `SessionIdsStayExclusive` and `IdsAreNotReusedEarly`
follow from it without assumptions about counts, and so does `IdsAreLostOnlyWhenFull`
(`IdsLostOnlyWhenFull`): every call moves an id from one of its places to the
next, but for `connect_peer`, which counts one out before it asks for a place in the
peer table, and for a refused recycle timer (`IssuedMoves`). `PeerInv` is about the peers:
the two maps are inverse to each other (`RecordsMatch`), a record nobody
registered is the default one (`PhantomsAreEmpty`, needed because `session_id`
and `free_peer` may insert one), and every count covers the nodes and the
session (`UsersCounted`); this half until a node has strayed. `CapacityIsConserved`, `RefCountsCoverUsers`,
`UsedPeersAreKept`, `GoodStaysConnected` and `TypesAreKept` rest on it. They have no premise on ids or
counts: `PeerIds` may hold 0, and `CountMod` and `MaxHeld` are any. That a count has room for the session of a peer
is kept until `CountRunsOut` sets `strayed` (the last lines of `UsersCounted`), and a peer with the id 0 is
one nobody holds a reference to.

**SessionManager.** `IInv` in `SessionManagerProofs`: a thread past its first step
has an id, the one that reads an address has an object (`TaskInv`); the tables
have their types and no object is in two places (`TableInv`); each mutex is held
by exactly the thread that is inside its section (`LockInv`), which is what
makes the step from allocation to assignment safe. `TypeCorrect` and `ObjectsStayApart`
follow, for any number of threads, with all interleavings.

**Refinement of `PeerUse`.** The second half of `SessionManagerProofs` adds `RInv`, which
holds until two threads have met on an address. `LinkInv` follows an id from
`m_SessionIdMap` to `m_SessionArr` and back: `StepOf` says for every step of a thread
whether its address is mapped, to which id, and whether the slot of that id is filled; an
address that no thread works on is mapped exactly when its slot is filled. `PoolInv` places
every object, so that the pool never hands out a null pointer. `IdsInv` is the life of an
id, in one place at a time: mapped, kept by a thread that is about to start the recycle
timer, in the list of these timers, or in the queue. Then a step of `Connect` is an `Open`
of `PeerUse`, `Unmap` a `Close`, `Recycle` a `Recycle`, and every other step leaves what
`PeerUse` sees as it is; starting the timer is a `StartTimer`, with the same `timersFull` on
both levels. `StepsAmountToAtomic` is the refinement (`ImplementsPeerUse`),
`TablesTellTheSame` and `NoObjectLost` are `SlotsMatchIds` and `ObjectsComeBack`. That the
steps before the first meeting need no lock, and that those after it would, is the point of
`met`; it is not an assumption on the code but part of what is stated.

**Timer.** `IInv` in `TimerWheelProofs`: only running timers are listed, and each in one list, except
for those that the walk has moved on and `clear()` has not dropped yet (`ListInv`); the list
that is walked is a slot of the wheels and what is still to be looked at is in it
(`WalkInv`); who holds the lock to add has seen that there is room
(`RoomKept`). The slot an event moves to is a slot by a few lemmas on quotients and remainders.
`TimersAreCounted` (`TimerCountExact`) and `TimerTypesKept` follow, for wheels
of any size.

`PInv` says where a timer is. `Placed(t)` is the list that `_insert_timer` would choose for
`t` at this moment, and `Somewhere(t)` adds the two exceptions: in the tick that makes
the timer move or run it is in the list to be walked, then among what is still to be
looked at. As long as the timer falls due in the round it was armed in, the clock shows the
time it was armed plus its age (`PlaceOk`); if it is overtaken by the end of a round, a
round less (`AgeOk`). The lemma `Cascade` carries the proof: when the clock ticks, the list of
a timer stays the right one unless it is the very list of this tick. It rests on how the
parts of a time, minutes, seconds and ticks, are ordered and determined by the time
(`MsecParts`, `MsecOrder`, `MsecInjective`). `TimersAreOnTime` (`OnTime`) follows since a timer
due now cannot be `Placed`; `TimersAreNeverEarly` (`NeverEarly`) since the elapsed time of a timer that
is overtaken is a minute too long, so at least a minute, and no shorter interval can equal it.
Threads that add meanwhile are taken at their word only if the clock did not move between their
reads (`AdderOk`, `raced`).

**Handshake.** All three theorems hold for any settings, workers and objects, with no
premise. The invariant, `IInv` in `HandshakeProofs`, says nothing of the status of an
object, which any task may set late. It says where the objects are (`PoolInv`); that a
session starts one timer of the kinds that count on after its end, so that there are no more
of them than sessions, and that a relay timer turns into the one that checks (`CountsInv`);
that a task is about a session of its node and, as long as that is there, has found its
object (`SoundTask`); and that every CONNECT_REQ and CONNECT_ACK, on the way or taken, tells
of a session the other node really had (`SoundPacket`). `Goes` is the one form that every
step of a node but a restart has, `GoesOn` shows that it keeps `IInv`, and each action is
shown to be such a step.

`HandshakeTypes` (`TypeOK`) reads off `IInv`. `SessionsAreAttended` (`SessionsAttended`) and
`ConnectionsHavePeers` (`ConnectsWithPeer`) are action properties: `Keeps` goes through the
actions with `IInv` before the step. The decisive ones are `CompleteConnect` and
`AcceptSet`, which add a timer to a session only if it is still there, and then the object
they set is its own; and `CompletePing`, which takes the heartbeats' reason away only from a
session that has been connected since. A task that accepts a session attends it
(`AcceptingStays`) until it finishes, by a timer or by finding the session gone.

**Search.** `NobodyMeetsHimself` shows `NotWithItself`. Addresses to connect to come only from answers, and
`Clean` says of all messages on the way that none names the node it goes to:
for `GetNode` (`FoundIsNotAsker`), since the address of the asker is left out, for the lists of partners,
since the session of the asker is left out and a node has one session at most
with each other (`SessionInv`). Both ends of that matter: a recycled id in
`partners` leads to a stranger, but not to the asker.

`GoodNodesAreKept` shows `GoodNodesKept`, the promise of `k_bucket.h` that a node is dropped only for a
peer that has disconnected. A full bucket drops what compares worst (`VictimIsWorse`); that this
is a BAD node needs that the bucket exists at all for every pair of keys (`DistanceIsBucket`), that everything
in it is a known peer (`Tables`), and that the one who is added is connected at that moment.

`SearchTypes` (`TypeOK`) is about the ids. A node's ids are in its sessions, in the queue or cooling, in one
place each (`IdInv`), so that a fresh one is below the capacity when the queue is empty. What is on the way
to a node has a session there (`LiveStreams`), since closing a session drops its stream: this is why
`add_partner` is never told the id 0. And the partner table has an entry for every content of the list, which
`get_cid` turns without losing or repeating one (`CidInv`). For the last point the proof asked for
an assumption the constants did not have before: the contents a node has `Loaded` are different ones. The code
sees to it, as `add_cid` enters a content once; a list with one twice would not fit its map.

**Stream.** `IInv` in `StreamProofs` has three parts: `Domains` (a worker is in one of
its four places), `ReadersCounted` (`m_ReadingCount` is the number of workers whose
handler holds a message, so it is 0 exactly when nobody reads) and `OneAwake`
itself. Falling asleep needs a count that is not 0, hence a worker that handles a
message and is not the one that falls asleep: `SomebodyIsAwake`. Writing into the buffer
needs the count 0, and `read` moves indices only: `HandlersUndisturbed`. Both hold for
any pools, messages, windows and network; KCP does not matter to them.

The other four theorems are about the data, and have a premise that the first two do
not need: `FirstRound`, that a node has sent less than half of the segment numbers
(2^31, less the receive window; every unit counts as if it were a segment, which is more than KCP
uses). KCP compares numbers by the sign of their difference, and nothing limits the age
of a datagram, so one that is half a round old would be taken for new and its data
for data of now. The program neither ends a session nor changes `conv` before that; a
session that has sent less than 2 GB is in its first round.

The invariant is a value-level picture of each direction, `Link`. There are pieces `D`, all that
the sender has numbered so far, and three places in `D`:

    1 ......... q ......... r ......... Len(D)   snd_queue
      read or     rcv_queue   rcv_buf,
      in buffer               snd_buf from u on

`Sender`, `Receiver` and `Acks` say what each field of the two blocks is in these terms: `snd_una`
is the number of place `u`, `rcv_nxt` that of `r`, every numbered segment kept on either side
is the piece of its number. `Dir` adds what holds of both together: a piece is in `snd_buf` or the receiver
has it, a datagram on its way carries pieces of `D` only, and one that comes back
acknowledges only what the receiver has (which it never gives up, `Received`). This is why a
late, doubled or overtaken acknowledgement does no harm, and what `ikcp_parse_una` one
too far breaks. `Str` ties the pieces to the bytes: joined, `D` and `snd_queue` are what was sent,
and the pieces before `q` are what was read and what is readable. That the comparison of wrapped numbers is
the order of places (`TimeDiffIs`, `BeforeIs`) is where `FirstRound` is used.

Each step is then a lemma about operators, proved in `StreamLemmas` without the workers:
`DatagramReceived` and `InputAnswers` for `ikcp_input`, `MoveReceives` for the move from
`rcv_buf` to `rcv_queue`, `FlushIs` for `ikcp_flush` with its datagrams, `RecvAllReceives`
for `ikcp_recv`, `SendIs` for `ikcp_send` with the last piece filled up, `AppendedIs` and
`RetrieveIs` for `buffer.cpp`. Where these fold over a sequence (`InputFold`, `PackFold`,
`FlattenConcat`), the proof is an induction over its length: a set of naturals without a
least counterexample (`FirstExists`), since the induction theorems of the library take an
operator.

`NothingIsForgotten` (`NothingForgotten`) reads off the picture. `StreamIsChannel`
(`ImplementsChannel`) needs besides that read() cuts the bytes where the sender joined them:
the readable bytes and all that follows are the messages not yet read (`InTurn`), so the length
in front is that of the next one. `StreamTypes` (`TypeOK`) has the windows from the picture
and the rest from `Limited`, and `NothingIsLeftResting` (`NothingRests`) is a part of `Limited`
that is inductive: a worker falls asleep only beside one that handles, and one that handles or is woken
looks at the buffer again.

**Download.** `DoneFragmentsAreWritten` shows `DoneMeansWritten`. Its `IInv` follows a
fragment from the answer to the bit: a worker that is about to clear a bit has
put the bytes in (`WorkInv`), into a file that cannot be removed meanwhile since it is open
(`FileInv`), at a path that cannot change under it, since no new file gets its
number (`GuiInv`, `MapInv`). The last point rests on the rows of the database:
after a restart the counter goes on from the greatest number in use (`RowInv`,
`GreatestExists`), so that `max_file_seq` returning anything less would let two files share a
number. `CompleteFilesAreWhole` shows `CompleteMeansWhole` on top of it: every row
leads to the path that the hash check reads (`RowPaths`), bytes are only added, and a file with
a row is not removed.

`MapsAndListsAgree` (`ListsAgree`) and `IndexStaysInList` (`CurDownloadInRange`) rest on
`LInv`: the two lists together name no file twice and none that is not in `m_FileMap`; the
maps from number to path and from content to number are inverse to each other (`AgreeInv`);
and 0, which stands for no file, is nobody's number (`NumberInv`). The erasing loops of the
file manager are modelled as what they do (`Erased`: the list without its element at a
place), and the proof says of each what it leaves in which order.

`DownloadTypes` (`TypeOK`) adds `Types` to these: a number in use is one that was given out
and has a path, the download thread's included, whose file may be deleted while it is at it
(`ThreadTypes`); and a control file that is being filled still lacks a bit (`CtrlTypes`),
which is what keeps its writing within the file.

**Only model-checked.** `DownloadsComplete`, which is liveness under fairness, and so beyond the
prover. `MetWhenQuiet`: for two peers, one content and the buckets of the run; with three peers, with
more contents than a message names, or with buckets that `get_node` does not scan (section 7) it fails, so
that there is no general theorem behind it. `Stream` is proved until its numbers have
come half around, and one run goes beyond that, where the numbers wrap once.

## 7. Where the code and its comments part

Shown by runs that find a violation:

- `timer_round`. `timer.cpp:206` takes the elapsed time modulo one minute more than
  the wheel has, so a timer that crosses the end of a ten-minute round never again
  equals its interval and never runs, though `timer.cpp:213` says it keeps
  running. This is why `OnTime` is about timers that are due in their round, and why no
  liveness of heartbeats or of the recycling of ids is claimed.
- `session_locks`. A timer callback that closes a session has `m_TimerMutex` and wants
  `m_SessionMutex`; `new_session` holds `m_SessionMutex` and wants `m_TimerMutex`.
- `probe_twice`. `handler_base.cpp:117` creates the timer "when the ACK comes for the first time"; lines 118
  to 120 test and set the status without a lock, so two workers with a CONNECT_ACK each create
  two, and the session is given up sooner.
- `reused_object`. `session.cpp:53` does not set the status, so a new session may begin as
  connected; its connect timer then ends, with "connected, end the timer" (`session_manager.cpp:175`),
  before anything was sent.
Met while modelling, seen in the source and in smaller experiments, without a
run of their own:

- `try_connect_tracker` counts before it looks at the status, and its counter is
  static: the last trigger closes a session that has just been connected, although line
  36 means a connected session to end the timer and keep the connection.
- `peer_manager.h:50` calls `Count` the number of users of a peer. One reference is taken
  for all nodes of a search request (`handler_routing.cpp:55`), none for nodes with the
  id 0 (lines 298, 356 and 394 test `>= 0`), and one too many for nodes that a full
  bucket leaves out (`k_bucket.cpp:38`). Then counts no longer match, peers are
  erased while nodes name them, and places in the table get lost.
- `net_receiver_linux.cpp:117` forbids tasks that block a worker; `session.cpp:108`
  waits on a condition variable that nobody notifies.
- `Session::init` leaves the receive buffer as the last connection left it, so half a
  message stands before the stream of the next; it also creates a KCP and a timer that
  nobody ends, so that the timers may come to their limit, at which ids are lost and sessions left
  without timers.
- `routing_table.h:32` promises a connected node whenever the table has one; `get_node`
  compares the number of a bucket (of 160) with `KLEN_KEY` (20 bytes), so that for most
  keys the bucket of the key itself and those beyond it are never scanned.
- Partners need not be mutual, and an entry of the partner table may belong to a peer
  that has another interest: ids of closed sessions are recycled and `delete_partner`
  has no caller.
- `check_task` says that false "means all is done" (`file_ctrl_incomplete.h:32`).
  A control file that was cut short by a crash during `init_ctrl_file` is full of
  zeros, which mean done; one that outlived its data file
  vouches for bytes that are not there. The hash check catches both
  (`CompleteMeansWhole`) but the download then stays where it is: no one asks for
  the missing fragments. `suspect` marks these paths.
- A file that waits is moved to the download list only when the user adds another
  one: `check_download_file` does not call `refresh_download_list`.
- `select_file_seq` compares the hash as an unquoted word, so it never finds a row
  and the maps of the file manager are what keeps a content from being added twice.
- The interface's pause goes to the overload of `update_file_info` for the time of writing,
  so it is not kept over a restart.
- Two threads that close one session recycle its id twice (which is what `met` sets apart).
- `try_connect_peer_relay` ends without a trace when its relay is gone, so the
  session stays open with no timer; so does one opened by `try_ping_peer` (`LeftOpen`).
- `File::write` refuses what lies beyond the low 32 bits of the size, and nobody looks at the answer.
  The links this program makes carry the size that was cut in the same way, so its own nodes do not meet this.

## 8. What is not modelled, and why

- SHA-1, MD5 and Base64 are libraries or pure functions on bytes; SQL statements are
  single steps.
- Nearly half of the repository's lines are headers and vendored code that the program only
  calls or does not use at all (`sqlite3.h` and `sqlite3ext.h`, `sha1.c`, the lock-free
  containers, which nothing includes), and much of the rest is Qt widgets, SQL text, socket
  set-up for two systems and declarations. None of it holds state whose order of
  changes matters, so the models map the program's own logic densely and the
  repository as a whole thinly.
- Logger, interface widgets and configuration: no state that another part decides on.
- The thread pool: its threads are the workers of the other models.
- The round-trip estimate, the congestion window (switched off) and message mode of KCP.
- The Windows receiver: it hands out the same tasks as the Linux one, which is modelled.
- Shared (complete) files are read-only maps; serving a fragment changes no state.
- The progress count, priority segments and functions without callers
  (`complete_segment`, `ban_peer`, `nat_probe_tracker`, `ping_tracker`, `delete_partner`).
- `handle_connect_help_ack` dereferences the session before it tests it; the
  process would end there, and the model has the session found.

## 9. Plan

1. *Done*: the tables (`PeerManager`, `PeerUse`), the session manager and its
   refinement, the timer, the handshake, downloads, the reliable stream with its
   receive buffer and its refinement of `Channel`, routing and search; theorems about
   the tables, the session manager and its refinement, the timer, the connection protocol, the
   search and its routing tables, the workers and the data of a stream, the control file and the
   lists of the file manager.
2. *Next, models*: the life of a `Session` object over several connections (what `init` and closing
   leave in the receive buffer and in KCP), which composes `Stream` with
   `SessionManager`; relays in `Search`.
3. *Then, proofs*: every safety property and action property of the passing runs but
   `MetWhenQuiet` is stated by a theorem; what is left is to widen `FirstRound` of `Stream`,
   and to find which peers and contents do meet.

## 10. Running it

    tlasany M.tla
    tlc -workers 2 -config Download.cfg MCDownload.tla
    tlapm PeerUseProofs.tla

The longest model-checking runs (`timer`, `search`, `session`, `handshake`, `stream`) take one to three
minutes with two workers; the proofs a few minutes.
