# VPN-core in TLA+

A verification project for VPN-core, a small VPN written in Python: a server that gives each client an address
of a private subnet, forwards its packets to the internet and charges them against a quota; a Windows client; a
portal and an admin panel over HTTP. It holds TLA+ modules of the parts where threads meet, TLC configurations
that check them on small instances, and proofs checked by TLAPS.

## The system

| Component | Code | State | Operations |
|---|---|---|---|
| Session core | `Server/VPNServer.py`: `VPNServer`, `ClientHandler` | `_free_ips`, `_pending`, `_active_by_ip`, `_by_username` under `_lock`; per handler `_stop`, `current_quota` and `_quota_enforced` under `_quota_lock` | accept, register, authenticate, grace window, assign, announce, data, quota request, clean-up, kick, ban, top-up, stop |
| Accounts | `Server/Database.py` | table `users`: status, remaining quota, online flag, assigned address | one transaction per method, under the lock of the object |
| Server NAT | `Server/NAT.py` | per client an ordered table flow -> port, one reverse table; no lock | translate out and in, evict, register and unregister a client |
| Gateway | `RawSocketGateway` | two raw sockets and one thread | send; the thread translates and delivers replies |
| Rate limiter | `TokenBucket` | tokens, time of the last refill | `consume`, which sleeps |
| Framing | `_FrameReader`, `_fragment` | bytes received, partial packets by session id | read a packet, fragment, reassemble |
| Codecs | `VPNPacket.py`, `Packet.py`, `Crypto.py` | none | build and parse, checksums, byte shift |
| Firewall, logs, DNS | `DNSCache.py`, `Database.py` | rules, log, address -> domain | observe, resolve, decide, log |
| HTTP API | `api.py`, `web.py`, `admin_panel.py`, `client_portal.py`, `proxy.py` | signed tokens in cookies | the panel and portal operations |
| Client | `Client/VPNClient.py` | socket, tunnel, NAT, three threads, retry budget, stop and reconnect events | handshake, announce, send, receive, keep-alive, reconnect |
| Client NAT | `Client/NAT.py` | forward and reverse maps, flushed whole | translate out and in |
| Tunnel | `Client/Tunnel.py` | adapter, session, routes | create with roll-back, send, receive, close |
| Load balancer | `Loadbalancer/`, `Load_balancer_client.py` | a fixed list | ask, answer |

How they meet. A client opens a first socket, authenticates, asks for an address (`GET_IP`) and is left with it;
it opens a second socket, authenticates again and announces the address, and that socket becomes the data
session. Each socket has a thread on the server. The gateway thread takes packets from the internet, translates
them, looks up the session and charges and delivers *on its own thread*. The HTTP server's threads call `ban_user`,
`add_quota` and the like, which write the table and then visit the live sessions. So three kinds of threads share
the pool, the registry, a session's quota and the row of the account, under two kinds of locks that are never
held together over a whole operation. That is what is hard here, and what a test hardly reaches: the
order of those steps, a process that dies between two of them, and addresses in the hands of clients that vanish.

What makes each part correct:

* pool: an address is in one place, is not offered twice, changes hands only through the pool, and comes back; where
  the code cannot hold to that (below), nothing else goes wrong and it is set right later;
* registry: it lists the live sessions and nothing else;
* accounts: the online flag means a session; quota is spent once; a ban holds and ends the sessions;
* sessions: whoever is told to stop, stops;
* NAT: a reply reaches the flow it belongs to and nobody else; the tables stay within their limits;
* client: it reconnects within its budget, two generations of its threads do not mix, and it leaves the machine's
  network as it was;
* delivery: what one end writes is what the other reads, in order and whole;
* rate limiter: it never exceeds one burst and what time has earned;
* firewall: a standing rule is obeyed by the name the client was told, and nothing is blocked without a rule.

## The modules

| Module | Models |
|---|---|
| `UserDB` | the users table: one operator per statement, from tables to tables |
| `AddressLease` | abstract: an address is free, offered, leased to one session, free again; or disputed, or lost |
| `VPNServer` | the session core over `UserDB`; implements `AddressLease` |
| `VPNServer_proofs` | its theorems |
| `ServerNAT` | the NAT tables, stepped through by handler threads and the gateway thread |
| `VPNClient` | the client: main thread, reconnect threads, the threads of every session; over `Tunnel` |
| `Tunnel` | what the Windows tunnel changes on the machine, and what it remembers of it; operators |
| `ClientNAT` | the client's NAT maps, stepped through by the send thread, and the packets it rewrites; over `IPPacket` |
| `IPPacket` | the packet fields and checksums of `Packet.py`; operators |
| `Delivery` | one direction of a session's connection, from the writers to the reader; over `VPNPacket` |
| `VPNPacket` | the codec of the control protocol and the cipher; operators |
| `DataPath` | a session's packets between the tunnel and the internet: limiter, firewall, DNS cache; over `TokenBucket` |
| `TokenBucket` | refill and spend of the rate limiter; operators |
| `Accounts_proofs` | theorems about what `VPNServer` keeps in the users table |
| `ServerNAT_proofs`, `VPNClient_proofs`, `ClientNAT_proofs`, `DataPath_proofs` | the theorems of the module named |
| `IPPacket_proofs` | the checksums; used by `ClientNAT_proofs` |
| `Delivery_proofs` | the codec, the cipher, the fragments and the stream |
| `MCVPNServer`, `MCServerNAT`, `MCClientNAT`, `MCDataPath` | constants and symmetry sets for TLC |

How they compose. `VPNServer` says when a session exists and what it may spend; `Delivery` what its socket does,
`DataPath` what happens to a packet in between, `ServerNAT` how it is translated. Each takes of the others what it needs
as a nondeterministic input: a `Data` step of `VPNServer` is a packet of any size, `Delivery` stops for any reason, a
packet of `DataPath` is dropped or passes in the translation. `VPNClient` is the peer of `VPNServer`: its `Handshake` and
`Announce` steps are the client steps there, with a server that may answer anything.

### UserDB

`connection_status` and `assigned_ip` change only together, so the field `ip` stands for both. A row that is not
there has the status `absent`. A statement is atomic: every method holds the object's lock and commits one
transaction. Reading in one statement and writing in another is the caller's, and `VPNServer` keeps them apart.

### VPNServer

A step is what one thread does up to the next point where another thread can make a difference: a critical section
of `_lock` or of a `_quota_lock`, one transaction, one look at `_stop`, one packet. `pc` says where the thread
of a handler is:

| `pc` | Code |
|---|---|
| `closed` | no socket; the slot stands for the next connection |
| `accepted` | accepted, not in `_handlers` yet (1058-1060) |
| `opened` | waiting for the first packet (349) |
| `markzero`, `grace` | exhausted account: flag it (448), wait for a quota request (457) |
| `authed`, `await` | waiting for `GET_IP` or `ANNOUNCE_IP` (373), or for `ANNOUNCE_IP` with a deadline (515) |
| `announced`, `vacant` | between `is_pending`, `is_active` and `register_session` (529-538) |
| `connecting`, `loading`, `loaded` | before `mark_connected` (815), `get_quota` (544), the test of 548 |
| `reading`, `crediting` | in the receive loop (553); between grant and credit (580-583) |
| `flagging`, `closing`, `unregister`, `disconnecting` | `_quota_exhausted` (681) and the parts of `_cleanup` (698, 817-838) |
| `broken` | the thread died of the `RuntimeError` of `nat.unregister_client` (824); its socket stays open (707 is not reached) |

`gateway` is the gateway thread with the handler it looked up, which may be gone by the time it charges or sends. A
handler object lives while someone refers to it (`Referenced`): its slot is not used again before. `panel` holds the
HTTP threads with the copied list of sessions they still have to visit. `granted` is a history variable: all quota that
ever entered an account.

`is_pending` (529) asks whether an address was offered, not to whom. So `Announce` takes any address from any authenticated
socket, and two sockets may be between 529 and 538 with the same one. The second to register does so on a check that no longer holds: the
address is then `disputed`, until the last session at it has ended. Both are in the registry of users, one is in
`_active_by_ip`, and the first to leave frees the address under the other. The same happens across a restart, with an
offer of the old process and one of the new. `held` is the client's side and restrains nobody: addresses a user was given
and has neither announced nor given up. Only `IdlePoolUsable` reads it.

`UnregisterRaises` is the other way to end a session: the NAT raises because another thread changed the table it goes through
(`ServerNAT.DropFails`), after the address left `_active_by_ip` and before anything else is undone. The address, the entry in the
group of the user and the online flag stay behind, and with them a `broken` handler.

`Restart` starts a new process on the same table at any point; `Init` is the first process on a table an earlier one left
behind.

Left out: `client_map`, which nothing reads; session ids; reassembly, rate limit, firewall and translation of a
packet (a `Data` step is the last fragment of a packet, and of it only the size matters); exceptions from sqlite;
the steps inside `stop()`, which is one action; keep-alive, status and unknown packets, which change nothing.

### ServerNAT

One step per operation on one table, because the object has no lock. `translate_out` takes the table of the packet's source
address and never compares it with the address of the session the packet came in on; and two sessions may share an
address, as said above. So threads and clients are independent here: any thread translates for any address, several may
be at work in one table, and one may still hold a table that another has dropped (`nobodys`). Only `register_client` and
`unregister_client` exclude each other (`Locked`), because `VPNServer` calls them under `_lock`.

Python's own outcomes are modelled. A `KeyError` from `move_to_end` of an evicted flow or from an empty table ends the session of the thread it
hits (`TouchFails`, `EvictFails`), on the gateway thread it ends the gateway (`GatewayDies`). A table that was reordered or resized under
`unregister_client` raises `RuntimeError` there (`DropFails`). A look-up that misses the table of an address
being registered or dropped ends its session too, which a thread between two packets can do anyway. The scan of
`_allocate_port` is one step from anywhere.

`raced` is a history variable: the ports two threads met at, because both chose it, because one took the entry away that
another was still making or dropping, or because it was entered into a table in use by nobody. The properties except
these ports, and no others.

### VPNClient and Tunnel

`actor` is the main thread (0) and the reconnect threads, each named by the session that asked for it; `pc` is the place in
`connect`, `_establish`, `_do_reconnect`, `wait` or `disconnect`. `thread` holds the three threads of each attempt:
`loop` before the test of the stop event, `work` inside one turn, `ending` before the `finally`. What an attempt makes
carries its number, so that "the socket of another session" can be said. A step of `create()` is one of `CreateSteps`; a
command may fail, or be killed by the timeout of `_ps` after it took effect.

The machine may have routes of its own before `connect()` (`before`): to the loopback network, which `create()` then leaves alone, and to
the server alone, which `add_bypass` takes away and no teardown restores. History variables name what the properties
except, and nothing else sets them. `astray` holds the single changes no object can know of: made by a command that failed or was killed
after it worked, or that Ctrl-C cut off before its effect was noted (`LeaveUnnoted`); left by a removal that failed; or the machine's own
route to the server. All else stays on record. `overtaken` says that `disconnect()` and a reconnect met, after which the
reconnect goes on behind it. `wait()` returns while a reconnect is between two
sessions, so `overtaken` is no rare state, and no comment of the code promises otherwise.

The join of five seconds is modelled as a wait without a limit: everything a session's thread waits for has a timeout of a
second or less. `Ctrl-C` is a step of its own, possible until `disconnect()` begins; inside a teardown it is as before it, since
`disconnect()` tears down again. A second one, inside `disconnect()`, is not modelled.

### ClientNAT and IPPacket

The send thread goes through `translate_out` map by map; the receive thread's look-up is one read. `awaited` holds the
answers that may still come to mappings of the present table. The rewriting is checked as a pure function at every packet
that leaves (`RewritesVerify`): for every body, peer and stale checksum, the packet out and its answer back pass
the receiver's own test, which is written from the definition of the Internet checksum and not from `_checksum`. A word has
five values, which gives every carry pattern of one's complement addition, the zero of UDP included. Fragments of IP packets are not told
apart, by the code or by the model: the ports are read where the first fragment has them.

### Delivery and VPNPacket

Bytes are really bytes: `Built`, `Encode`, `Opened` and `Decode` work on sequences of numbers below 256, and the wire
holds five of them, so that every frame is written and read in pieces. `sendall` takes what fits and raises after a
second without room; the frame is then torn. `due` and `owed` are what the reader has still to get. They are followed until the
stream is garbled: a byte written after a torn frame (`cut`), or into the middle of another writer's frame. The first
can happen on both ends; the second only on the client, whose four writing threads share the socket without a lock. A control frame
between two fragments of a packet is in order: the reader keeps the first fragment by its session id.

### DataPath and TokenBucket

One packet each way at a time, step by step. The cache is one for all sessions and sees what goes out as well as what comes in
(`VPNServer.py:632`, `859`): `ObserveOther` is any response in a packet of another session, or in an outgoing one. `Stop` ends the waiting in the
bucket, and the frame at hand goes on unpaid (line 133). `told` is the name the client was last told an address has, as long as the cache
still has it; `mustBlock` the rules that forbade the packet's destination from its arrival on, `mayBlock` those that
existed at any time since. `ForbiddenStays` and `BlockedForCause` bound the decision from both sides, whatever panels
and responses do between the three reads it is made of. Time is integer; the bucket has `Rate` tokens per unit. The
traffic log is a step without state.

A frame above the bucket's capacity passes at once, whatever the tokens are (`VPNServer.py:140`): the comment under that
line, "once tokens are non-negative", is not what it does. `RateHolds` states what is left of the limit: a frame within the
capacity waits until everything that passed, the oversized included, is paid for, until the session is stopped.

## What is checked

| Run | Instance | Checks | States |
|---|---|---|---|
| `sessions` | 1 account, 1 address, 2 handlers, 1 panel thread that also withdraws | `TypeOK`, `OnlineFlagBacked`, `EarnedQuota`, `RegistryAgrees` | 2.6 M |
| `leases` | 1 account, 2 addresses, 3 handlers, restarts | `AddressesPartitioned`, `ImplementsLease` | 0.3 M |
| `restarts` | 1 account, 2 addresses, 2 handlers, restarts | `OnlineFlagBacked`, `EarnedQuota` | 1.7 M |
| `liveness` | 1 account, 1 address, 2 handlers, fairness | `StoppedCloses`, `ExhaustedCloses` | 0.08 M |
| `server_nat` | 2 threads, 1 client, 3 flows, 3 ports, tables of 1 | `TypeOK`, `NoStaleReverse`, `RepliesFindFlow`, `TablesBounded` | 0.4 M |
| `client` | budget of 2 tries, a machine with both routes of its own, fairness | `TypeOK`, `SessionsDoNotMix`, `ThreadsHaveResources`, `NothingLeftOpen`, `MachineOnRecord`, `HangsOnlyOnSilence`, `SessionEndsWhole` | 0.1 M |
| `client_nat` | 7 flows of three protocols, 5 ports, tables of 2 | `TypeOK`, `MapsAreInverse`, `EmittedIsMapped`, `AnswersReachFlow`, `TablesBounded`, `RewritesVerify` | 0.3 M |
| `delivery` | 2 packets of 2 fragments, 2 control packets, wire of 5 bytes, both directions, fairness | `TypeOK`, `StreamArrives`, `OnlyTimeoutsGarble`, `WrittenIsReceived` | 0.6 M |
| `data_path` | 2 addresses, 2 names, 3 user names, 1 rule, 1 packet out, 2 in or of others, cache of 1 | `TypeOK`, `ForbiddenStays`, `BlockedForCause`, `CacheBounded`, `RateHolds` | 2.5 M |

What the runs show.

* `AddressesPartitioned`, `RegistryAgrees`, `ImplementsLease`: any socket may announce any pending address, two at once too,
  threads may die in `unregister_session`, and the process may restart. Then an address is free and leased at once only while it is
  disputed, and is nowhere only after a thread died at it; an offered address is neither free nor leased; and when the last
  session of a dispute has ended the address is in one place again, in whatever order those sessions ended. The registries hold what `kick` and the gateway need.
* `OnlineFlagBacked`: an account is shown online only while one of its threads serves that address, or because one died unregistering
  it. It does not say that a live session keeps its flag: a second session of the account that ends clears it.
* `EarnedQuota`: without top-ups of the panel, no interleaving of loads, charges, grants and persists makes quota.
* `NoStaleReverse`, `RepliesFindFlow`: evictions, departures and errors lose no reply and leave no reverse entry to the next holder
  of the address, but at a port two threads met at. `TablesBounded`: threads that see room at the same time all take it, so a table exceeds its
  limit by less than the number of threads, and never by more, however long they go on.
* `SessionsDoNotMix`, `ThreadsHaveResources`: the send and receive threads of two sessions are never alive together, and
  while one works its socket and tunnel are its own. Both rest on `_join_threads`.
* `NothingLeftOpen`, `MachineOnRecord`: however connecting or a session ends, `disconnect()` leaves no socket, tunnel or
  thread, and whatever differs on the machine from what it was before is known to an open tunnel object, but for the single changes
  in `astray`.
* `HangsOnlyOnSilence`: connecting ends unless a server that accepted the connection stays silent. The reader takes the timeout of the
  socket for a reason to read again, so the ten seconds set at line 297 do not end that wait.
* `SessionEndsWhole`: one loop's end, whatever its reason, ends the other.
* `MapsAreInverse`, `AnswersReachFlow`: the client's maps agree whenever a packet leaves, and an answer to a mapping of the
  present table reaches its flow. `EmittedIsMapped` names the one packet that leaves without a mapping: the one
  whose own entry made the port table overflow.
* `StreamArrives`, `WrittenIsReceived`: both codecs, the cipher, framing, fragments and reassembly agree, in both directions
  and for every code either end sends. `OnlyTimeoutsGarble`: on the server only a timed-out send can garble the stream, because
  `_send_lock` covers every frame of every writer.

Bounds. Two handlers are enough for the races of quota and flag: each is between two threads, and the gateway and the panel
are two more. One address makes the second client wait for the first; two let both be sessions at once. `leases` has three handlers, so that
the address of two sessions in dispute is assigned and announced a third time. A quota of
one with packets of one and grants of one reaches exhaustion, reactivation and a session below zero. `MaxGranted`
bounds the grants of one account, `MaxDebt` how far withdrawals go. In `server_nat` one client is enough,
as two clients meet only at a port, and there as two flows do. Tables of one make both threads evict, or both enter at the limit; three ports
allow the shared port, and entries left without a reverse entry or the other way round allow the scan that finds none.

In `client` two tries are the least with a reconnect, whose budget is what the first connection left; a third adds sessions of the
same kind. The machine has both routes of its own, or the bypass would take nothing away and `create()` skip nothing; the theorem covers the others.
In `client_nat` seven flows overflow both tables more than once, with ports that are zero, ignored or
taken. In `delivery` a packet has two fragments, the wire takes less than a frame, and two control packets with two data
packets make each pair of writers meet. In `data_path` a cache of one is cleared by the second response, and one unit
of time refills the bucket once. One rule is enough, since each property speaks of one; a packet of others counts as one of the two that come in.
The TLC bounds are not the proofs' bounds: the theorems hold for every value of the constants.

Deadlock is checked in `sessions`, `server_nat` and `client_nat`; where the process can always restart (`leases`, `restarts`)
there is none. It is not checked in `liveness`, where without a panel everything may come to an end after a shutdown, nor in
`client`, whose process ends, in `delivery`, whose connection does, and in `data_path`, whose packets run out.

Symmetry: handlers, addresses and users (threads, clients, flows and ports) are interchangeable; runs with liveness use none.

Fairness. Weak fairness of each handler's own steps, of the gateway thread once it holds a packet, and of a panel
thread in the middle of an operation. The code justifies it: sockets have a timeout of one second and look at `_stop`
after it, no thread waits while it holds a lock, and the token bucket looks at `_stop`. Nothing is assumed of clients and operators.
On the client: weak fairness of each actor in the steps that wait for nobody but a timeout (`create_connection`, the commands of
PowerShell, `_join_threads`) and of each session thread; none of the steps where the server answers. In `delivery`: of the
reader, whose thread does nothing but read.

Every property has a mutant, an operator that changes one mapped definition the way a slip in the code would (for
instance `UnregisterSessionKeepsGroup`, `EvictReverseForgotten`), and the property fails on it. Mutants stand just before
the definition they change.

### Disagreements with what the code says of itself

| Run | Property | What happens |
|---|---|---|
| `top_up_race` | `EarnedQuota` | The panel adds quota to the row; a session loads it; the panel then visits that session and adds it again. `Database.py:14-16` promises that quota updates do not race. |
| `ban_missed` | `BannedHasNoSession` | A handler that authenticated before the ban registers after `kick` copied the sessions; `api.py:95` says the ban kicks live sessions. |
| `address_leak` | `IdlePoolUsable` | An assigned address that is never announced stays pending; `VPNServer.py:506` says it stays reusable. |

More are seen in the models and have no run. Exhaustion overwrites the account status whatever it was
(`Database.py:198`), so a ban can become `quota_exhausted`, which the next top-up makes `active`. The comment of the rate
limiter is quoted above. Two sessions can have one address, and an abort at `VPNServer.py:824` leaves an address, a group entry and
an online flag behind; no line promises otherwise, so the properties say what that does to everything else. A route to the
server that the machine had before is taken away and never restored, though `Tunnel.__init__` keeps what it reads "for restoring settings".

The first explains why `sessions` has only withdrawals on the panel, and grants only on the tunnel: with
top-ups `EarnedQuota` fails.

## What is proved

Every invariant that a passing run checks is also a theorem, for all values of the constants that satisfy the assumptions of the
module; the bounds of the runs (`MaxRules`, `MaxPackets`, `MaxTime` and so on) are any numbers there. Each module has an
inductive invariant, a lemma that every step keeps it with one case per action, and the theorems that follow from it.

### Session core: `VPNServer_proofs`, `Accounts_proofs`

For all accounts, addresses, handlers, panels, sizes and amounts that satisfy `ServerConstants` (the
pool is finite; quotas, sizes and requests are natural numbers) and `NoneIsNoAddress`:

* `TypeCorrect`: `TypeOK`.
* `PartitionHolds`, `RegistryFaithful`: `AddressesPartitioned`, `RegistryAgrees`.
* `Refinement`: `VPNServer` implements `AddressLease`.
* `OnlineFlagHolds`, `QuotaIsEarned`: `OnlineFlagBacked` and `EarnedQuota`.

All of them across restarts (`SpecWithRestarts`).

They rest on one inductive invariant, `IInv`: `TypeOK`, `LocalsOK`, `AddressesPartitioned` and `RegistryAgrees`. The two pool invariants need each
other: that a disputed address comes right needs the registry, which says that outside a dispute one session at most is at an address
(two would both be what `active` has there); and that a registered address was nobody's needs the partition, which says that a pending
one is not active. The registry needs that a handler with a session has an account and an address (`ThreadLocals`); the
types need that the gateway and the panels hold a handler and an account while they work (`GatewayLocals`, `PanelLocals`) and
that a quota grant in flight is an integer. Nothing is known of the address a handler is about to register but that it is one:
`RegisterSession` finds it pending, and takes it, or not, and starts a dispute. `LeavingKeeps` is the other end: the
session that leaves settles the dispute only if no other is at the address. Actions that touch neither pool nor
registry are dealt with together (`Quiet`). `LeaseStep` maps each step to a step of the lease or a stutter: `AssignIP` to `Offer`,
`RegisterSession` to `Lease` or `Dispute`, `UnregisterSession` to `Release` or `Settle`, `UnregisterRaises` to `Lose` or `Settle`, `Restart` to
`Reset`. Under a dispute they may be stutters.

`OnlineFlagBacked` needs the types and locals only: an account is marked by a thread that then answers for the flag until it writes
the row or dies, and no statement but `mark_connected` sets one. `FlagInv` adds that a name without a row has no flag. `QuotaInv` follows an amount
of quota through the local variables of the threads: before it is loaded, while it is used, the credit between the
grant and the addition, and the final value between the end of the session and the last write (`SessionEarned`).
`QuotaIsEarned` has the hypothesis `OnlyWithdrawals`: no amount of the panel is positive. The instances of `sessions` and `restarts` satisfy it, and
`top_up_race` shows that it cannot be left out.

### Server NAT: `ServerNAT_proofs`

For all threads, clients, flows, ports and limits that satisfy `NATConstants` (the threads are finitely many), and any thread in any table:

* `TypeCorrect`, `TablesStayBounded`, `ReverseIsNeverStale`, `RepliesComeBack`: `TypeOK`, `TablesBounded`, `NoStaleReverse`, `RepliesFindFlow`.

The tables are sequences in order of use, and other threads reorder, extend and shorten them between two steps of a thread. The
lemmas at the start say what `move_to_end`, an insertion and an eviction keep: the set of entries, and that no flow has
two. `Knows` is what a thread may still believe at each step whoever moved: little more than that a table it holds, and that is not `nobodys`,
is a registered client's, and that a thread that unregisters one finds what it has still to visit, unless the order changed.

`TablesBounded` is not inductive: `RoomGranted` counts the entries of a table together with the threads that saw room in it,
or made it, and have not used it (`Granted`), which is where the number of threads less one comes from. The first thread of a
group enters below the limit; every other needs a thread of its own that is still on its way.

`NoStaleReverse` and `RepliesFindFlow` follow from who owes a port what: an entry that stands has its reverse entry or a thread about to make
it (`LiveMapped`); a port that is being entered leads nowhere and is nobody else's (`TransitExclusive`); an evicted or dropped
one leads to the flow it is being taken from (`EvictedMapped`, `DroppedMapped`); and what leads to a client that is leaving is
still to be dropped (`DropsAll`). Each speaks of the ports outside `raced` only; the cases of the step lemmas show that a
port two threads meet at is in it.

### Client: `VPNClient_proofs`

For every number of tries (`ClientConstants`):

* `TypeCorrect`, `SessionsStayApart`, `ThreadsFindTheirOwn`, `DisconnectClosesAll`, `MachineIsOnRecord`: `TypeOK`,
  `SessionsDoNotMix`, `ThreadsHaveResources`, `NothingLeftOpen`, `MachineOnRecord`.

`IInv` has two layers. `Base` holds whatever meets what: the attempts of two actors have different numbers because the budget is one
counter (`Numbers`), no thread runs before its actor starts it (`NotStarted`), and a reconnect is asked for by a receive thread
that has ended its loop (`AskedFor`). The rest holds until `disconnect()` meets a reconnect (`overtaken`), as the properties do. Its
core is `OneBusy`: among the main thread and all reconnect threads at most one is anywhere it could touch the socket, the tunnel or
the list of threads, and `Holds` says what it has in hand at each place. `SessionWhole` says who may be busy beside a working
thread. The step that matters is the end of `_join_threads`: only there may an actor assume that no thread works. `OnRecord`
says that what differs on the machine and did not go astray is among the tunnel's notes (`Recorded`), and that the adapter is noted
first, as `close()` begins from it (`AdapterFirst`).

### Client NAT and checksums: `ClientNAT_proofs`, `IPPacket_proofs`

For all flows, ports, ignored ports and limits that satisfy `ClientNATConstants`, and any size of a word:

* `NATTypes`, `MapsStayInverse`, `PacketsLeaveMapped`, `AnswersFindFlow`, `TablesStayBounded`: `TypeOK`, `MapsAreInverse`,
  `EmittedIsMapped`, `AnswersReachFlow`, `TablesBounded`.
* `ChecksumVerifies`: what `_checksum` returns makes the receiver's sum come out right.
* `RewritesHold`: `RewritesVerify`.

`MapsAreInverse` speaks of three places of the send thread only, and is not inductive. Its `IInv` says for every place what
the thread knows (`SendOK`: the flow has no entry, the port is still free), which entries may lack their counterpart
(`ForwardOK`, `ReverseOK`: the one being made, those of a table between the two halves of its clearing) and that the
other map of that table is then empty (`ClearingOK`). `AnswersReachFlow` follows from `AwaitedOK`: an awaited answer's
mapping stands. That the port stays free between `_allocate_port` and the two insertions is the step that needs the
send thread to be the only writer. `TablesStayBounded` adds `SizesOK`, which counts the one entry too many between the
insertion and the flush, and `PortsOK`; it needs that the flows are finite, which follows from the constants.

The loop that folds the carry is a recursive function. What it returns is found by induction in the form that a
nonempty set of naturals has a least element (`StrongInduction`, from the well-foundedness of `<`): the remainder modulo the
largest word, except that the fold of a positive number is never zero. That exception is the negative zero of one's complement
arithmetic, and why UDP may write ones for a zero.

### The stream: `Delivery_proofs`

For all lengths, packets, wire sizes and keys that satisfy `DeliveryConstants` (a fragment's length fits its two bytes:
`MaxData < 256 * 256`) and `NobodyWrites`:

* `LockProtects`: `OnlyTimeoutsGarble`. The invariant added is `LockHeld`: on the server a thread with bytes left to write
  is the one that holds `_send_lock`. It is false on the client, which has no such lock.
* `PacketsArrive`, `TypeCorrect`: `StreamArrives`, `TypeOK`.

`PacketsArrive` first needs the functions: deciphering undoes enciphering (`CipherUndone`), parsing undoes building for
every packet (`BytesFacts`), every control packet of one end is one the other accepts (`ControlSendable`), and the
fragments of an IP packet are its bytes cut in pieces, of which only the last has no successor (`FragmentFacts`). The inductive invariant `StreamInv` then
relates three sequences that nobody has in one place: the bytes in the reader's buffer and on the wire, the packets that are due, and the IP packets that are
owed. `BytesFollow`: the bytes are those of the due packets laid one after another (`Laid`), and where they end depends
on how much of its packet the writer has still to write (`EndsAt`). `PacketsFollow`: read from the bytes gathered so far, the
due packets are fragments of the owed IP packets in order (`Follows`), and the last of them is where the
thread that sends data stands (`StandsAt`). `OneAtATime` is the reason the first can hold: until the stream is garbled one packet
at most is written in part. Reading takes a packet from the front of both relations (`LaidHead`, `FollowsRead`), and writing extends
them at the end (`LaidOn`, `LaidNext`). `cut` (a packet was torn) makes the end of the stream uncertain without changing
what was laid; `garbled` ends all promises.

### Data path: `DataPath_proofs`

For all rates, frame sizes, names, addresses and rules that satisfy `BucketConstants` and
`DataPathConstants` (the addresses are finite, as those of IPv4 are):

* `RateKept`: `RateHolds`. The invariant `BucketInv` is one inequality: the tokens and everything that passed are together
  at most the capacity and what the time of the last refill earned. An oversized frame keeps it by leaving the tokens negative.
* `TypeCorrect`, `ForbiddenNeverLeaves`, `BlocksHaveCause`, `CacheStaysBounded`: `TypeOK`, `ForbiddenStays`, `BlockedForCause`, `CacheBounded`.

`FirewallInv` says for each of the four steps of a decision what has been read: a rule that stood all the time is in what was
read (`InForce`), and what was read stood at some time (`WasThere`). The first needs that the name the client was
told is the one in the cache (`ToldIsCached`), which is why the response enters the cache before it is sent on.
`CacheStaysBounded` counts: the cache is cleared when it is full, before a response is entered whole.

### Only model-checked

Liveness (`StoppedCloses`, `ExhaustedCloses`, `HangsOnlyOnSilence`, `SessionEndsWhole`, `WrittenIsReceived`), which the prover cannot reach; and the three
violations. `EarnedQuota` with top-ups, and everything said of clients whose `disconnect()` met a reconnect, is false, not unproved.

## Not modelled

* Load balancer, HTTP forwarding, launcher: no state that two steps or threads share. `connect()` does not ask
  the load balancer (`VPNClient.py:176`).
* `register()` and `request_quota()` of the client: one connection of its own, and one frame (a `SendControl` of `Delivery`).
* Logins, tokens and pages of the portal and the admin panel: signed cookies without server state. What the panels *do* is
  modelled where it acts.
* Wintun rings, DLL loading and the elevation prompt: Windows calls; their failures are failures of `create()` or of a turn of
  a session thread.
* The bytes of DNS messages: `DataPath` takes any name with any set of addresses.
* The traffic log's contents: written and shown, never read by a decision.
* Exceptions of sqlite, and the packets that are too short for the fields `Packet.py` writes.

## Plan

Done: all modules named above, their runs, and a theorem for every invariant of the passing runs.

Next: what is left of `EarnedQuota` when panels add; what `disconnect()` still closes after it met a reconnect; and `VPNServer` with
`ServerNAT` in one model, in which `UnregisterRaises` would be an outcome of the tables and not a choice.
