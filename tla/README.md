# Verification of the dreamheroes servers

TLA+ models of the C++ servers in `src/server/server/dreamheroes_server-master/`
(all paths below are relative to that directory), the TLC runs that check them
on small instances, and TLAPS proofs of their safety properties.
`PROJECT.json` maps every definition to the lines it models and lists the runs,
hazards and theorems.

## 1. The system

Four kinds of processes serve a game: one **login** server, several **gate**
servers, several **game** servers and a **database** server.  A client asks the
login server for a ticket (`transid`), shows it to a gate, and the gate relays
its messages to a game server; game servers load and save players through the
database server.  All four are built on the library in `common/`.

Every process is a main loop on one thread (`ServerFrame::run` calls `runOnce`,
which polls every queue and ends with `EventableObjectHolder::update`), plus io
threads of boost::asio and worker threads of the database library.  Library
threads talk to the main thread through queues only: callbacks
(`call_back_mgr`), received messages (`tcp_server::m_queue_recv_msg`) and
finished database tasks (`Database::_results`).

### Components

| Component | State | Operations | What makes it correct |
|---|---|---|---|
| Timed events (`event_manager.h`, `event_table_object.cpp`) | reference counted `TimedEvent`s, in a multimap per object and the list of the holder | add, remove by type or pointer, retime, destroy an object, `update` | no released event is used; a timer fires as often as it was armed for and never after it was cancelled; a cancelled one is released |
| Gate: users (`gateserver/user_*`, `game_*`, `login_client.cpp`) | `m_onlines`, `m_onlineaccs`, `m_wait_map`, `m_recon_map`, session state and timers | admit, kick, connect, reconnect, close, time out, change or lose a game server | a ticket lets in one client; messages reach their owner; no player lives on unreachable; windows and connections end |
| Asynchronous database (`database.cpp/.h`) | a queue per thread type, `_results`, a `_task` per worker, the stop state | add, execute, retry, report, call back, stop | called back once and in order; no released task is touched; the stop waits for the work and ends |
| Login server (`login/`) | `m_Accts`, `m_Gates`, `m_WaitSessions`, session state, pending checks | check, register, give to a gate, kick, answer, register a gate, lose a gate | an account has one live ticket; the gate registry never dangles; a client is answered |
| Game server (`gameserver/`) | gates, sessions per ticket, heroes per account, link to the database server | add, remove, offline a user, take a hero over or ask for it, change, save, stop | a hero in memory is never rolled back; it answers the session that uses it; a stop loses nothing |
| Database server (`databaseserver/`) | tasks of the chained hero queries and of saves, links of game servers | load, save, answer the stop, stop | a request is answered; what is stored never gets older; the stop ends |
| TCP server and session (`tcpserver.cpp`, `tcpsession.cpp`, `io_service_pool.cpp`) | session pool, sockets, queues, ban list | arm, accept, read, write, close, ban, poll, deliver | a session object is in one place; messages reach the connection they came for; sessions return |
| TCP client (`tcpclient.cpp`) | connection flags, send queue, callbacks | connect, reconnect, send, close | the link repairs itself; what is sent goes out |
| Callbacks, task threads (`call_back.cpp`, `task_thread_pool.cpp`) | double-buffered queues | add, swap, drain, stop | first in, first out, once each; the drained list is nobody else's |
| Messages (`protoc_common.h`, `common/message/*.pb.*`) | the classes, their fields and the handlers registered for them | send, serialize, parse, dispatch, relay | a handler gets what was sent; nothing the servers send is dropped |
| Server frame (`server_frame.cpp`) | stop flags, frame time | run, stop | the stop protocol across the servers ends |
| Compression, encryption, checksums; logging, memory, utilities; virtual client's load generation | | | not protocol state, see section 7 |

### What is hard to test

* Callbacks that change what the loop calling them walks over (timed events).
* Timers that nobody cancels and that fire in a later life of their subject
  (the gate's reconnect timer).
* Pooled session objects: pointers in `m_onlines`, `m_WaitSessions`, `m_Gates`
  and in pending database checks outlive the connection they were stored for.
* Two queues per session: a message can be handled before `on_accept`, and a
  link's new registration before the `on_close` of the old one.
* A broken link that its two ends notice in any order, with a reconnect between.
* Lost links: the login server, the gates and the game servers each keep a view
  of the same user and repair it when a link comes back.
* Worker threads that are stopped while they fetch, retry or report a task.
* A read and a write of one connection that fail at the same time, while the
  session object is already on its way to the next connection.
* A row that is read before a save that was sent earlier, a hero that is in
  memory when its row arrives, and a row that is not read back as it was written.
* Messages put together by hand and relayed by processes that parse and
  serialize them again.

The list, line by line, is `hazards` in `PROJECT.json`.

## 2. Modules

| Module | Models | Used by |
|---|---|---|
| `TimedEvents` | timed events | its run |
| `TimedEventsProofs` | proofs about `TimedEvents` | |
| `TicketLife` | abstract specification: the life of a ticket at a gate | `GateUsers` |
| `GateUsers` | the gate's users and game links; implements `TicketLife` | `MCGateUsers` |
| `GateUsersProofs` | proofs about `GateUsers`, the refinement included | |
| `TaskLife` | abstract specification: the life of a database task | `Database` |
| `Database` | the asynchronous database; implements `TaskLife` | `MCDatabase` |
| `DatabaseProofs` | proofs about `Database`, the refinement included | |
| `LoginServer` | the login server and its links to the gates | `MCLoginServer` |
| `LoginServerProofs` | proofs about `LoginServer` | |
| `GameServer` | the game server, the database server and the link between them | `MCGameServer` |
| `GameServerProofs` | proofs about `GameServer` | |
| `TcpServer` | session pool, sessions, ban list and main loop of a TCP server | `MCTcpServer` |
| `TcpServerProofs` | proofs about `TcpServer` | |
| `Fifo` | abstract specification: a first-in first-out queue of calls | `SwapQueue` |
| `SwapQueue` | the double-buffered queue; implements `Fifo` | `TcpClient`, `SwapQueueProofs` |
| `SwapQueueProofs` | proofs about `SwapQueue`, the refinement included | |
| `TcpClient` | a reconnecting link; composes `SwapQueue` with the two threads around it | its run |
| `TcpClientProofs` | proofs about `TcpClient`: that it uses the queue as a queue, and its own invariants | |
| `MessageClasses` | the generated message classes, as tables | `Messages` |
| `Messages` | senders, links, handlers and relays of all processes | its run |
| `MC...` | values and symmetry of the instances | |

Names follow the source.  Definitions named `X_Something`, placed before `X`,
are faulty variants: exchanging `X` for one shows that a property notices.

### TimedEvents

A `TimedEvent` is a record of the fields the code reads, with its reference
count and whether it was released; events are numbered as they are allocated.
The holder only appends, so its list is the set of numbers it holds.  `update`
is split where a callback may run: `updateBegin`, then for the event under the
iterator one of `updateReap` (it was deleted), `updateNotDue`, `updateFire` and,
after the callback, `updateFired`, then `updateEnd`.  In phase "callback" every
client operation is enabled, on the firing event and its object too.  `planned`
and `fires` are history.

### GateUsers

Sessions are pooled objects whose `conn` says whether the socket is open, closed
with `on_close` queued, or the object free.  `on_accept` may be handled after
the first message, since `tcp_server::_real_run` polls callbacks before it takes
messages.  `parseLoginGame` is `checkConn` with its three outcomes; `on_close`
is `checkClose` with its three and the trailing `addEvent`; `parseLoginKick` is
`kickUser`.  `removeUsers` and `eraseValue` increment an iterator they have just
erased: undefined, so `ErasedBy` lets the loop miss any of the later matches.
The login server, the game servers and the clients are the environment: they
issue tickets, break links, register, close sockets and send login messages at
any time.

Of a game server `g`, `gsUsers[g]` is the users its `GateManager` has for this gate
and `gsGate[g]` its `m_Gates` entry: none, the session of the link in use, or that of
a link that broke.  A link breaks in one step (`GameLinkBreaks`), and each side
notices in one of its own: the gate by `GameLinkLost` (`removeActiveGameClient` and
`removeUsers`, which leave the game server's users alone), the game server by
`removeGate`, which removes them.  The gate may connect and register again
(`parseGateRegister`) before the game server's `on_close` of the old session:
`addGate` then overwrites the entry, and the late `removeGate` finds another session
there and removes nobody.  `leftBehind[g]` is history: the users `g` had at that
moment.  A timer of `m_wait_map` runs exactly while its ticket is in the map, as far
as anything it does can be seen, so it has no counter.

Assumed: `on_close` is delivered once per connection (`TcpServer` shows that a
second one may come; it finds the session in the pool and does nothing, or ends
its next connection, which to this model is that client going away); a ticket is
issued once (it is a CRC-32 over name, password, address and the second); a game
server that asks to move a user (`parseChangeGS`) has that user.  No source sends
that message.

`TicketLife` is what the gate promises for a ticket: it is issued, waits, is held by
one session, may be left to a reconnect, and ends once and for all; another session
gets it only through the reconnect window, and is then on the game server the user
was on.  The mapping (`place`, `holder`, `server`) looks for the ticket in the login
messages, `m_wait_map`, the sessions and `m_recon_map`, and calls it gone when it is
in none of them.  A kick does not end a ticket that is online, in the code or here:
`kickUser` closes the session, and the `on_close` that follows finds the ticket in
the session and opens the reconnect window.

### Database

Workers and the main thread interleave at each access to shared state: the
queues and `_results` are behind mutexes, so an operation on them is one step;
`_task` and `_stop` are not, so reading a queue (`getTask`) and storing to
`_task` (`storeTask`) are two.  `queryUnfinished` is an exception with error 2006
or 2013, after which the worker reconnects and tries the same task again.
`checkStop` walks over the workers, one step each, and blocks in `join` until the
worker has left.  `added`, `refused` and `called` are history.

`TaskLife` is what the users of the database rely on: a task is added, taken by
one worker in the order of its queue, and reported once.  The mapping reads a
worker's task as the one it has popped or, until it is reported, the one `_task`
points to, and the reports as what was called back, is being delivered or waits in
`_results`.

### LoginServer

User and gate sessions are pooled objects; one that waits for a client ("armed")
is already valid, as in the code.  A check is in the database between
`checkAccount` and `checkAccountCall`, and answered in any order.  Each gate has
a link, a queue in each direction and, of its `UserManager`, the tickets it lets
in (`users`: waiting, online, closing or in their reconnect window), which of them a
client has connected with (`connected`), and `m_onlineaccs`.  `kickUser` has the
cases of the code: a ticket that waits for its first connection or for a reconnect
is taken out of the gate's maps; of one that is online only the session is closed,
and since `checkClose` then opens a reconnect window it stays in `users` and is
remembered in `kicked`; one that is in no map is ignored.  `gateLinkLost` is the
gate's side of a broken link.  What was on its way to the gate is gone, and any part
of what the gate sent may have been received; the login server goes on to handle
that on the old session, before or after what the gate sends on its next one, until
its io thread closes it (`gateSessionCloses`).  That the login server notices first
is the same with the two steps next to each other, since the gate's own
reconnect takes five seconds.  `restart` forgets the login server's state;
`disturbed` remembers the accounts that a loss or a restart cut off.  Left out:
timers, since `setClose` has an empty body; gate loads (any registered gate may be
chosen); the version check's `close`, which is one more reason for `gateLinkLost`.

### GameServer

A hero is a version number: 0 is no row, 1 what `LoadFromConfig` makes, every
change of a suit makes the next one, so that "older" has a meaning over memory,
messages, tasks and rows.  Beside it goes what the suits, taken as one, say of
equipment: nothing ("bare"), what the client chose ("own"), or the suit's own id in
the place of every equip id ("lost").  `ReadBack` is the loop in
`dbDoQueryHeroInfo` that converts `vc_suit_info[0]` for each of them: what is stored
as "own" is loaded as "lost", and saved back as such.  A suit's name that contains
the separators `,` or `:` is not modelled.  `DelSuit` erases inside a loop that
compares with a fresh `end()` and so runs past it when the last suit goes; what that
does is `GameCrashes`, which may happen at any point.  Both servers are in the module, with the ordered link
between them; `link` is "closing" while the other side still reads.  The handlers
of the game server's three links are actions (`addUser` contains the constructor
of `Session`, which takes a hero over or asks for it).  `dbDoQueryHeroInfo`,
`dbDoQueryHeroEquips` and `dbDoQuerryHeroToys` are the callbacks of a chain; load
and save tasks have a worker each and nothing orders them against each other.
`offlineUser` of a session without a hero ends the process, as the write through
NULL does.  `setStop`, `saveToClose`, `parseMsgSaveAllHeroes` and `checkStop` are
the stop handshake.  `doubled` (an account had two sessions) and `misread` (a hero
was made from less than the database server had or had been sent) are history.

### TcpServer

The main loop is split where other threads may step in: `Arm`, `Poll`, one step
per callback, `SwapRecv`, one step per delivered message.  `HandleAccept` is the
acceptor's thread, `Handler(s)` the io thread of a session, which runs what was
posted to it in order; closing or deleting a socket posts the aborted completions
of its outstanding read and write.  `ses[s].conn` is the connection the object
serves, from the accept to `free_session`.  A message is good or has a bad length
or checksum, with what each does to the connection and to the ban list.

### SwapQueue, Fifo, TcpClient

`SwapQueue` is the code shared by `call_back_mgr`, `task_thread` and the receive
queues: producers push to `list[current_queue]` under a mutex, the consumer swaps
under the mutex and drains without it.  `Fifo` is what users rely on.  The
refinement mapping (`queueBar`, `callingBar`) reads the two lists as one queue:
the rest of the list being drained, then the one that grows.  `TcpClient` uses the
queue's actions as part of its own: `Polls` and `Callback` contain `Swap`,
`Front`, `Pop` and `Leave`, and the io thread's handlers contain `add_cb`.  So the
run checks the refinement in the composition, with real producers, and the
theorem for the queue alone and every producer.

Of the link itself, `LinkConsistent` says how flags, socket, posted handlers and
waiting callbacks belong together: a connection that the client believes in has a
read that will fail when it is lost (`LossNoticed`), `m_isconnecting` stands for one
outstanding connect (`OneConnect`), `m_is_sending_data` for one outstanding write or
for one that has failed (`OneWrite`), and a queued message is somebody's to write
(`QueuedGoesOut`).

### MessageClasses, Messages

For every generated class, `MessageClasses` has the accessors with their field
numbers (the header), the tags its parser accepts (`_Merge`) and the order it
writes in with the required and the nested fields (`_Write`).  The three are
separate in the generated code and separate here.  `Messages` has, for each place
in the five programs that sends, also of functions that nothing calls
(`EquipLevelUp`, `VerifyToy` of an error), the messages it can put together; for each link
the handlers registered by the receiver; and the default handlers that relay.  A
message is sent, read field by field, checked for its required fields, dispatched
or relayed, over up to three links.  Scalars have one value: what counts is
whether a field is set, how often, and nested how.  A client may also send a field
that the servers' version of the class does not know; every process on the way keeps it.

The generated classes are long and regular: they are about four fifths of the
source lines the map names (some 15 600 of 19 000).  Of the rest, written by hand,
the map names some 3 400 lines.

## 3. Runs

| Run | Instance | Checks |
|---|---|---|
| `timed_events` | 2 objects, 2 events, endless and 2-shot timers of 1 or 2 frames | `TypeOK`, `NoUseAfterFree`, `FiresAtMostPlanned`, `FiresOnlyWhileHeld`, `CancelledIsFreed` |
| `gate_users` | 2 sessions, 2 tickets of one account, 2 game servers, 1 login per connection, 1 broken link, 3 login messages in flight | `ImplementsTicketLife`, `TicketInOnePlace`, `RoutedToOwner`, `NoOrphanPlayer`, `OnlineAccountOwned` |
| `gate_users_live` | 1 session, 2 tickets, 1 game server, 2 logins per connection, 2 reconnect timers, 1 broken link | `SessionSettles`, `ReconnectWindowEnds` |
| `database` | 3 workers (2 normal), 3 tasks, 1 retry | `ImplementsTaskLife`, `NoUseAfterRelease`, `StopIsQuiet`, `StoppedAfterLastTask` |
| `database_live` | 2 workers, 2 tasks, 1 retry | `CallbackComes`, `StopEnds` |
| `login_server` | 1 client that logs in again, 2 gate sessions, 2 gates, 2 tickets, 2 losses | `GatePointers`, `RegisteredReachable`, `SingleLogin` |
| `login_server_live` | 1 user session used twice, 1 gate, 2 checks, 2 tickets, 1 loss | `WaitingIsFiled`, `LoginAnswered` |
| `messages` | every sending place, every class from a client, 0 to 2 elements per repeated field, batches of 2 | `HandledIsWhatWasSent`, `SentIsHandled` |
| `game_server` | 2 logins of one account, 1 gate, 2 versions, 1 fault | `SessionOfHero`, `StopKeepsHeroes`, `NoRollback`, `StoredNeverOlder` |
| `game_server_live` | 1 login, 1 gate, 1 fault | `HeroArrives`, `StopEnds` |
| `tcp_server` | 1 session object, 2 connections, 1 message each, sends, closes, 1 failed accept | `SessionInOnePlace`, `DeliveredToOwner`, `SessionReturns` |
| `tcp_client` | 1 link, 2 faults (server gone, close), 1 message queued | `ImplementsFifo`, `LinkConsistent`, `CallsGoOn`, `LinkComesBack`, `SendsGoOut` |

Why the bounds are enough.  Two events let one be cancelled, or its object
destroyed, by the callback of the other while it is next in the walk.  Two
tickets of one account are a login and the login that kicks it; two sessions let
a client come back on another object while the first is still closing; two game
servers let the first be lost while the user is moved to the second, and one
broken link is enough for a gate to register again before the server has seen the
old one end.  Two
workers of one type race for a queue while a third runs and is stopped; one
retry leaves a task unfinished at any point of the stop.  Two gate sessions and
two losses let a gate reconnect before its old session is closed, twice, or
around a restart; the two logins come over one connection there (nothing stops a
client that sends its name again), and over two in `login_server_live`.  Two logins of an account and two versions let a row arrive
for a hero that is in memory and changed, and its suits be stored, loaded and stored
again; the two tickets are interchangeable, hence the symmetry; one fault puts one failed statement,
lost link or restart at any point.  One session object and two connections make
every reuse race possible, since the connections can only get the same object.
Two faults let a close, or the loss of the server, hit an attempt to repair an
earlier one.  Two elements of a repeated field tell a list from its last element;
`MaxCount` = 2 stands for 40, and heroes have up to two equips more than fit into
the first batch.  The constants named `Max...` bound what the environment may do;
the guards that mention them are the only ones that do not come from the code.

Four properties have a theorem and no run.  `CalledInOrder` and `CalledBackOnce`
(`Database`) follow from `ImplementsTaskLife`; `OneLoginPerAccount` and
`OneGatePerTicket` were checked on the instance of `login_server` before they were
proved, and `LinkConsistent` with three faults and two messages too.

`RoutedToOwner`, `NoOrphanPlayer` and `OnlineAccountOwned` hold only while no
session exchanges its ticket.  A session that is being closed, or whose `on_accept`
came late, may log in again with another ticket and leaves the entry of the first
behind; with one login message per connection it can not.

Some properties name the case in which the code does not deliver.  They were
found by checking them without the exception:
`SessionReturns` exempts connections on which a bad length was read
(`close_and_ban` leaves no operation that could call `_on_close`); `SendsGoOut`
exempts links on which a write has failed (`m_is_sending_data` stays set over the
reconnect); `StoredNeverOlder` exempts heroes made from an incomplete view of the
database (a save still queued, or a failed query that is answered like a missing
row), and compares rows up to the equip ids that a load loses; `NoOrphanPlayer`
exempts the players a game server still had when the gate registered again;
`SingleLogin` exempts tickets whose kick found them online, and accounts that a
broken link or a restart cut off; `StopEnds` of `Database` exempts a worker that left
with its task; `SessionOfHero` exempts accounts with two sessions at once; `HeroArrives` and
`StopEnds` of `GameServer` hold without failed statements and lost links, since
nothing is asked twice; `SentIsHandled` exempts three senders (section 6).

Deadlock is checked where the system cannot come to rest or its end is an action
(`Terminated`, `Ended`); the other configurations say `CHECK_DEADLOCK FALSE`: a
bounded environment may run out of things to do, and the servers then wait.

## 4. Fairness

* `TimedEvents`: a frame comes again and again, and a started `update` goes on:
  `ServerFrame::run` loops without end and callbacks return.
* `GateUsers`: the main loop polls each queue in every round, so each handler,
  timer and queued callback is weakly fair on its own; the io thread executes a
  `close()` that was posted.  Clients, login server and game servers owe nothing.
* `Database`: main loop and each worker are weakly fair.  A worker that tries to
  connect gets a connection after a while, unless it is stopped first; a
  statement ends.  The number of retries is bounded.
* `LoginServer`: the handlers of the login server and of the gates, and the
  database's answers, are weakly fair.  No link is assumed to come back.

* `GameServer`: handlers of both servers and the workers are weakly fair, so a
  link that is up delivers.  Timers, gates, reconnects and crashes owe nothing.
* `TcpServer`: `_real_run` goes on, the io thread runs what was posted, and an
  operation on a connection that is gone completes.  Peers owe nothing.
* `TcpClient`: main loop and io thread go on, operations complete, time passes.
  The server need never come back.

## 5. Proofs

Every safety property that a run checks is proved, except the two of `Messages`.
The theorems hold for every value of the constants under the named assumptions of
the modules, which TLC evaluates on every instance: the values have the types the
comments say, `None` is not a member of the sets it is used beside, and

* `DatabaseAssumption`: every task type has a worker, and only the normal type has
  several, as `initDatabase` makes them;
* `GameAssumption` and `SessionAssumption`: accounts, and session objects, are finitely many;
* `KindAssumption`, `CallsAssumption`: the kinds of messages and the callbacks are
  the ones the code tells apart.

The `Max...` bounds are arbitrary numbers there, so that nothing depends on them.
TLC checked every inductive invariant below before it was proved.

`TimedEventsProofs`.  Memory safety is not inductive: that a released event is
in no container follows from its reference count.  `IInv` therefore adds
`RefCount` (the count is the number of containers that hold the event; it is
released exactly when that is zero), `Held` (an event that is not deleted is in
its object's multimap, and its object lives), `Iterators` (the walk's
iterators are in the list) and `Countdown` (what is left plus what has fired is
what was planned).  `Inductive` shows `Spec => []IInv`, one case per action.
`TypeCorrect`, `MemorySafe` and `BoundedFiring` follow from `IInv` in every
state; `CancelStops` is the action property that only an event its living object
still holds starts a callback.

`GateUsersProofs`.  `TicketInOnePlace` is not inductive: `addToWait` files a
ticket without looking whether it is in use.  `TicketInv` adds why it cannot be:
a ticket that was not issued is nowhere (`Unissued`), and one whose login message
is in flight is in flight once and nowhere else (`InFlightAlone`).  Steps fall
into four groups, each with a lemma: those that take tickets away and messages
off the queue (`ShrinkKeeps`), those that move a ticket that was somewhere
(`MoveKeeps`), the login server's issue and the gate's `addToWait`
(`LogsInKeeps`, `LoginUserKeeps`), and those that touch nothing relevant
(`FrameKeeps`).  The theorem needs no bound on logins per connection or timers,
so it also covers the second login on a connection, where other properties fail.

`ImplementsTicketLifeHolds` is the refinement, under the same weak hypotheses: it
holds for any number of logins per connection.  `Located` turns `TicketInv` into
what the mapping needs, that a ticket's place, holder and server can be read off any
one container that has it.  Each group of steps then has a lemma that says how every
ticket moves: most tickets of a step stay where they are (`StaysWhere`) or lose their
last container (`EndsNowhere`); `LogsInMoves`, `LoginUserMoves`, `LoginGameMoves`,
`CloseMoves`, `ChangeGSMoves` and `RemovalMoves` name the one or the few that move.
That a ticket which is gone stays gone is the part that fails first when a timer or a
late `on_close` is wrong, and needs `InFlightAlone` and `Unissued`.

`RoutedToOwnerHolds`, `NoOrphanPlayerHolds` and `OnlineAccountOwnedHolds` are proved
together, as `UserInv`: to `TicketInv` it adds that a session with a ticket serves a
connection (so the pool's sessions have none), that a game server without an entry
for the gate has no players of it, and one whose new registration the gate has not
heard of only those left behind (`PlayersOnLink`: so a removal that is lost with a
link is made up for by `removeGate`, or is the exception), and that
an account is filed under a ticket of its own (so the reconnect timer of that ticket
finds it).  Their hypothesis, `[][KeepsTicket]_vars`, is the case above in which the
code does not deliver, and nothing more: `OneLoginKeepsTicket` proves it for clients
that send one login per connection, which is what the run assumes.

`SwapQueueProofs`.  `IInv` is type correctness, `DrainedAlone` (while the consumer
drains, the producers' list is the other one) and two facts about the other list:
it is empty whenever the consumer is not draining, and not empty during a call.
With it, `StepSimulation` shows that every step is a step of `Fifo` or leaves the
abstract queue alone: `add_cb` appends on the right of the concatenation
(`AppendRight`), `Front` takes from its left (`TakeLeft`), a `Swap` renames an empty
left part (`EmptyNeutral`).  `ImplementsFifoHolds` is the refinement,
`DrainedAloneHolds` the absence of the data race.

`TcpClientProofs`.  The queue's theorems speak of producers that add anything at any
time.  In `TcpClient` the handlers of the io thread add callbacks, and a callback
posts handlers before it is popped.  `ClientUsesQueue` shows that every step of the
composition is a step of `SwapQueue` or leaves it alone; `ClientImplementsFifo` and
`ClientDrainsAlone` carry the queue's theorems over.

`ClientInductive` is about the link.  The four parts of `LinkConsistent` with the
types and the queue's own invariant are inductive (`ClientInv`): a step that ends one
thing a part counts on has to leave another behind.  A callback `on_connect` that is
called has started a read or posted its failure, a socket that is closed posts the
failure of everything outstanding on it, and what is queued while a connection is
being closed waits for the next `on_connect`.  `io` and the callback
lists are sequences; the lemmas `Places...` and `Awaited...` say what appending,
taking and aborting do to the set of positions at which a handler stands, once for
all handlers, so that the steps of the two threads reason about sets.

`DatabaseProofs`.  Two invariants.  `IInv` says where the threads stand: `WorkerShape`
(a task is popped exactly between `getTask` and the store), `Delivering`, `Stopping`
(once `checkStop` walks over the workers the queues are empty, and stay so, since no
task is accepted any more), `Connected` and `Finished`.  With it, every step is a step
of `TaskLife` or leaves its state alone (`StepSimulation`), which gives
`ImplementsTaskLifeHolds`.  `TaskInv` is an invariant of `TaskLife`: a task that was
added is in one place (`Placed`), and of two tasks of a type with one worker the
earlier is not behind the later (`Ordered`).  It is proved for the three abstract
steps and carried over; `CalledBackOnce`, `NoUseAfterRelease` and `CalledInOrder` follow.
`StopIsQuiet` is part of `IInv`; `StoppedAfterLastTask` follows from `Stopping` and
`Finished`.

`LoginServerProofs`.  `GatePointers` and `RegisteredReachable` need what is on the
links: a link is an open gate session of its own (`Links`), and until a registration
is handled no gate is registered on that session (`Registering`), so that `on_close`
of the old session and the registration on the new one may come in either order.
A session that the gate has lost may still be handled: its registration is older, and
is taken from the common queue before the new one (`StaleRegister`).
`SingleLogin` needs where a ticket is: a ticket at a gate or on its way there is the
last one of its account, on file for that gate, or its kick is on its way behind it
or has found it online (`Admitted`, `KickFollows`), unless a broken link has cut the
account off.  `Known`
says that nobody has a ticket that was not made, so the next one is new.
`OneLoginPerAccountHolds` draws the conclusion for two clients at any two gates:
both would have to be the one entry of `m_Accts`.  It exempts the disturbed
accounts and a ticket that was kicked while online, as it must; `OneGatePerTicketHolds` exempts nothing: only `giveUserToGate`
gives a gate a ticket it did not have, a new one, and to one gate (`OneGateStep`).

`GameServerProofs`.  The sessions: an account that never had two has one session, and
the hero points to it (`OneSession`, `HeroLoaded`).  The versions: along row, save
tasks, link and memory the versions of an account never go down (`VersionsAscend`);
`NoRollbackHolds` and `StoredNeverOlderHolds` are action properties that follow, since
each step takes from one end of this chain and adds at the other.  The suits: two
heroes of one account and version, wherever they are in this chain, agree up to
`ReadBack` (`Agree`), version 1 has bare suits (`FirstBare`), and what is being
loaded was stored (`LoadedBelow`); `SuitsInv` is the three together, and says why a
save of a hero that was loaded changes nothing but what the load lost.  The stop: the
announcement is behind the saves it is about on the ordered link (`Announces`), so
when it is answered they are with the database server (`AnsweredSafe`), and the worker
stores them in order; `StopKeepsHeroesHolds` is the result.

`TcpServerProofs`.  That a session is in one place is not inductive, because a second
`on_close` may be queued for a session that is already pooled.  `Clean` says why it
does no harm: a session has a father only after its one accept was handled, loses it
when it is freed, and gets no second accept in between; `on_close` of a session
without a father does nothing.  `DeliveredToOwner` needs `Owned`: a message whose
connection is over is in the receive queue only while its session is in the pool,
since the session can be armed again only after the queue was drained.

Only model-checked:

* all liveness properties (the prover does not handle fairness or ENABLED);
* `HandledIsWhatWasSent` and `SentIsHandled`: `Messages` serializes and parses with
  recursive operators, and what those compute for all inputs needs induction over
  data, which is out of the prover's reach.

## 6. Known disagreements

Places where a comment, an assertion or a declaration of the repository says one
thing and the code does another.  Each has a configuration under which TLC shows
the counterexample (`tlc -config <cfg> <module>`).  They are kept apart from the
runs of section 3 and are not listed in PROJECT.json: whoever changes one of these
modules has to run them by hand.  All ten are violated with the modules as they are.

1. `TimedEventsFlag.cfg` (`TimedEvents`, `DeletedAfterExecution`).
   `common/event_manager.h:11` says of `EVENT_FLAG_DELETES_OBJECT` "执行后删除事件对象"
   (delete the event object after execution).  `update` takes the event off the
   holder's list and drops one reference; the object's `m_events` keeps another.
2. `GateUsersOnlineInfo.cfg` (`MCGateUsers`, `OnlineInfoComplete`).
   `message/msg_gate_login.proto:32` calls what a gate registers with "gate's online
   info".  The reconnect timer is not cancelled when the user comes back, and then
   takes the account of a user who is online out of `m_onlineaccs`.
3. `DatabaseCallbacks.cfg` (`MCDatabase`, `EveryTaskCalledBack`).
   `common/database.h:265-268` says "数据库操作全部都是采用回调函数的方式进行操作" (all
   operations end in a callback).  A task that finishes while `checkStop` joins the
   workers is never called back nor released.
4. `LoginServerAssert.cfg` (`MCLoginServer`, `AssertionHolds`).
   `login/gate_session.cpp:96` asserts `p->nGateId == m_GateInfo.gate_id`.  A gate's
   link breaks, its user logs in at another gate, the gate comes back and registers
   with the old account: the assertion fails.
5. `LoginServerSession.cfg` (`MCLoginServer`, `SessionKept`).
   `common/database.h:266` says "在数据库操作执行期间,请不要释放传入的资源" (do not release the
   resources passed in while the operation runs).  A session goes back to the pool
   while its account check is pending; the answer may act on the next client.
6. `MessagesRequired.cfg` (`Messages`, `EverySentIsHandled`).
   `message/msg_game_db.proto:46` says "required uint64 account = 2;".
   `DreamHero::VerifyToyCDKey` does not set it and the database server's parser drops
   the request; `SendClientInit` leaves out required fields of the later batches of
   a hero with more than 41 equips; `EquipLevelUp` (`gameserver/DreamHero.cpp:167-172`)
   leaves out the required `equip_id` of `S2CEquipLevelUpACK`
   (`message/dream_hero.proto:92`), which will matter when something calls it.
7. `TcpServerBan.cfg` (`MCTcpServer`, `BannedForFiveSeconds`).
   `common/tcpsession.cpp:175` logs "recv hack packet. ban for 5 seconds".
   `add_ban_ip` compares the stored deadline with the duration, so that an entry that
   has expired and was not looked up since is not renewed, and the next connection
   from the address is served.
8. `GateUsersLeft.cfg` (`MCGateUsers`, `NobodyLeftBehind`).
   `gameserver/gate_manager.cpp:62` removes a gate's users when it closes.  A link
   breaks, the gate connects and registers again, and the `on_close` of the old session
   comes after that: `m_Gates[nId] == pkGate` is false and the old users stay, though
   the gate has forgotten them.
9. `LoginServerKicked.cfg` (`MCLoginServer`, `KickEndsLogin`).
   `login/gate_manager.cpp:58` logs "kick user account" when a second login kicks the
   first.  The gate closes the session of a user who is online, and the `on_close` that
   follows opens the reconnect window of any lost connection: for five minutes the
   kicked client may come back, beside the new one.
10. `GameServerSuits.cfg` (`MCGameServer`, `SuitsKept`).
   `gameserver/DreamHero.cpp:447-459` stores the equip ids of a suit.
   `databaseserver/db_quest.cpp:305-315` reads the suit's id in the place of each, and
   the next periodic save of a hero that was loaded stores that.

## 7. Not modelled

The bytes of a message: compression, encryption and checksums turn them into what
the models exchange; what a wrong length or checksum does is modelled.
Compression tasks and the limit mode of a TCP server, which no process switches
on.  Logging, memory pools, configuration and string utilities, which keep no
protocol state.  Of the generated classes: descriptors, single accessors, swap and
merge of whole messages, which the servers do not call.  Of `virtualclient/`: the
pool of clients that generates load.  Of the game: what an item or a toy is, and of
a suit all but whether its equip ids are the client's.  Within the other parts: the gate's periodic count of users, gate loads, ban
and mute lists of accounts, the blocking database task at start-up, the shutdown
of a TCP server, and code that nothing calls (`eventModifyTime`,
`eventModifyTimeLeft`, `eventRelocate`, `call_back_mgr::clear`, `wait_connect`; of
`DreamHero::EquipLevelUp` only the messages are modelled).

Finer than the models: in `TcpServer` a handler of an io thread is one step, while
`handle_read_some` and `_on_close` read `is_valid()` (`tcpsession.cpp:362`) and
`m_father` (`tcpsession.cpp:441`) without a lock against `reset()` on the main thread;
`TcpClient` leaves out successful reads, and with them `close_and_ban` on a client
link; in `GameServer` a save of a hero is one message, where `SaveHero` sends one per
table; `SaveHero` reads the transid of a session that may have been released
(`DreamHero.cpp:476`), a value nobody looks at.

## 8. What is left

* `Messages`: the two properties would need induction over the nesting of messages.
* The links between the processes are modelled from both ends (`GateUsers` and
  `LoginServer`, `GameServer` and `GateUsers`), each with the other side as its
  environment.  A composition of gate and login server with both modules' state is
  beyond TLC on instances in which the interesting cases happen; that the two
  environments are what the other module does is read off the code, not checked.
* Liveness is checked on small instances only.
